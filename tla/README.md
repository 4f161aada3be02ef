# Verification of DiscordChatBot

A Discord bot in Python (`src/core`) with helper services for images, speech,
voice transport and browsing. The TLA+ here models the parts of it in which
several tasks, people and processes share state. TLC checks the models on small
instances; TLAPS proves the central invariants for every instance.

## 1. The system

The core is one asyncio process. `main.py` receives Discord events, puts
messages into a bounded queue and runs N worker tasks over it; between two
awaits a task is never interrupted. Redis holds what must survive a restart,
the Docker daemon holds sandbox containers, and every external call can fail
or be cancelled at its await.

| Component | State it keeps | Operations | Talks to |
|---|---|---|---|
| Run ledger, `sandbox_thread_inbox.py` | events with stage and outcome, open question, follow-ups, run state; registry of claims | deliver, mark_presented, record_decision, give_up_on, open/close_question, finalize, outcomes, claim_run, release_run | called synchronously by `main.route_to_sandbox` (people) and by the run |
| Sandbox conversation, `sandbox_conversation.py` with `_converse` and `run_sandbox_task` of `sandbox_agent.py` | staged input, batch of tool calls, gate lock and refusals, deliverables, pending replies, turn budget | input_filter, gate, respond_to_updates, ask_user, continuation_nudge, passes, timeouts | ledger, Discord thread, Agents SDK |
| Sandbox thread, `run_code_sandbox` with the snapshot and conversation stores | claim, container, saved workspace (Redis, TTL), record of loose ends (Redis, TTL) | claim, look, load, create, start with recovery, persist, delete, save loop, release | Docker, Redis, ledger |
| Sandbox output, `sandbox_progress.py`, `sandbox_inputs.py`, `attach_file`, `_deliver` | transcript, the card's message and its dirty flag; files of in/ and out/, attachments | hooks, live updates, finalize, select, attach, sweep, send | Discord, container |
| Automations, `automation_store.py`, `automation_runner.py`, `automation_policy.py`, `automation_commands.py` | records, due set, busy keys, occurrence claims, cooldowns, started markers, queued jobs; open forms | create, update, delete, poll, match_message, claim, renew, execute, discard, finish | Redis, message queue, LLM, voice gate |
| Message intake and workers, `main.py`, `message_queue.py` | queue, channel locks, in-flight registry | on_message, process_messages, register and complete a tool run | message handler, automations, voice gate |
| Message handler and history, `message_handler.py`, `history_policy.py`, `reply_policy.py` | anchors, one prompt and its window, double-reply cooldown | select_messages, prepare_messages, send, copy, announce | LLM handler, channel lock |
| Attachment cache, `attachment_cache.py` | LRU by bytes, loads in flight, invalidations | get_or_load, invalidate_message, deleted_since | message handler, Discord edit and delete events |
| Voice, `voice_session.py`, `voice_gate.py`, `voice_bridge.py`, and `voicesidecar/` | session, turn queue, ordered speech, gate, voice client; sidecar table, playback queue | join, leave, utterance, stop, goodbye, reconnect | speech service, message intake |
| Image generation, `image_generation.py`, `image_review.py`, `side_llm.py`, and `diffusionservice/` | budget of a reply, rounds of review, thinking-off latch, bounded request queue | generate, review, revise, edit | LLM, diffusion worker |
| Polls, events, search, web reading, settings, memory, metrics | single Redis keys or none | single calls | Discord, Redis, HTTP |

### What is hard in it

* **Steering.** A member posts in the thread while the run is waiting for a
  model, running tools concurrently, asking a question, or finishing. The
  message must be shown to the model before its next action, answered before
  that action, never lost, and never accepted once nobody will look at it.
* **What outlives a run.** Workspace and record live in Redis with expiry; two
  calls in one thread, failing saves, corrupt snapshots, cancellation and
  crashes must leave one run at a time, no overwritten workspace, no record
  replaced unread.
* **What a run shows.** Hooks of concurrent calls write one transcript, updates
  of its card overlap, Discord refuses files, and a resumed workspace still
  holds the files of earlier runs.
* **Schedules and rules.** Poll, worker, editor, gateway and Redis expiry
  interleave command by command. No occurrence is started twice, no message
  answered twice by a rule, no two runs at once, the gap and the timetable are
  kept, nothing due is forgotten, and what is sent back leaves no key behind.
* **Pipeline and prompts.** Workers pick messages in order and reach the
  channel's lock in any; history anchors must keep the cached prefix; images
  load while their message is deleted; long tools run between the two phases.
* **Voice.** One session per guild whose join, turns and end race each other
  over two message queues and a third party, Discord.
* **Pictures.** Calls of one response share a budget and a latch across awaits,
  and the service they use restarts as another model.

`PROJECT.json` lists each hazard at its line with the property that would show it.

## 2. Modules

```
ThreadPromises            what a thread is promised (abstract)
   ^ refined by
RunLedger
   ^ extended by
SandboxConversation       one run and the people steering it
                   (both) <-- SandboxConversation_Proofs
SandboxThread             the runs of one thread, one after the other
                          <-- SandboxThread_Proofs
ProgressCard, RunInputs
   ^ extended by
RunOutput                 what people see of a thread's runs
                          (also in SandboxThread_Proofs)

ScheduleRuns              <-- ScheduleRuns_Proofs
RuleRuns                  <-- RuleRuns_Proofs

MessagePipeline           from a message to the reply
                          <-- MessagePipeline_Proofs
AttachmentCache
HistoryPolicy
   ^ both extended by
PromptBuild               (with the cache) <-- PromptBuild_Proofs

VoiceCall                 the life of a call
VoiceSpeech               what is said in it
                   (both) <-- VoiceSpeech_Proofs
ImageRequests             <-- ImageRequests_Proofs

MC*                       constants for TLC
```

**RunLedger** is the data structure by itself: each method is an action, in
any order its callers may use. Sequence numbers, stages, outcomes and states
keep the source's names. `Deliver` takes the decisions of `deliver()` in their
order: state, duplicate, empty, attachments, length, caps, follow-up. Text is
its length. `Surviving` is `_compact`.

**SandboxConversation** extends it with the run. A step is the code between
two awaits and makes at most one call on the ledger, so that a post may land
between any two. `StageInput` / `ModelAnswers` are the filter and the response
hook of a model call; `pc` is the place of `run_sandbox_task`; `calls` holds
the tool calls of the response, which advance independently, the gated ones
under `tool_lock`. `FinishRun`, `Continue`, `PassFails`, `InfraFails`,
`TimeOut` and `Cancelled` are the exits of `_converse` and `run_sandbox_task`.
What a model answers is any batch of `Responses` naming any messages.
`sent` is the input of the latest model call: the transcript with every staged
message placed after what had been said when it came. `Placed` says where each
item goes by counting what goes before it, rather than by inserting one item
after the other, so that the order can be reasoned about without induction.

**SandboxThread** keeps, per call of `run_code_sandbox`, the await it is at.
What the model does is condensed to settling messages and asking, because
SandboxConversation covers it; items are follow-ups and unfinished tasks.
`Faults` says which external calls may fail. A record that is there but could
not be read is `Unread`, which the code treats as an empty one (fail-soft).

**ProgressCard** is the transcript (`blocks`), the hooks that write it, and
the one message, whose updates are rendered before an await and land after it;
they overlap, fail, or find the message gone. **RunOutput** extends it: runs
of a thread one after the other, files written by commands, attached, replaced
or removed, the sweep of out/ against the marker, and what is sent, refused
and said at the end. A file has a size, the time on it and the run that wrote
it; `touched` is the time of the marker, which a saved workspace brings along.
`told` is what was posted of the closing message, with whether its send came
back: one that raises may have posted it (`common.py:78-80`). A file on the list of deliverables keeps its place there:
`artifacts` maps places to what was read, and `WithinCaps` is the set of places
the caps let through. **RunInputs** holds pure operators: which files of the
chat a run is given, and under which names. RunOutput uses them for the names
in in/, and MCRunOutput checks them against what they promise for every small
request (`NamesAreDistinct`, `ChosenWithinCaps`, evaluated by the run `output`).

**ScheduleRuns** is one schedule and everything that touches it: each step is
one Redis command, script or optimistic transaction with the code up to the
next await. The poll holds the row it read, a job the row it was queued with.
Time is discrete, the timetable arithmetic reduced to a start and a period. A
job's number is its token; a number is used again only when no key holds it.
`Upsets` names what may go wrong and `MaxUpsets` how often.

**RuleRuns** is several rules, the forms with which people create and edit
them (with the revision a form was opened at), and the deliveries of messages
that match them: one claim per rule and script, one job with all of them, its
renewal and its release. A message delivered twice is two deliveries.

**MessagePipeline** follows handles through `on_message`, the queue, the two
locked phases, the tools registered while the model runs, chunks, pairs,
copies into the channel of a thread, and the What's New note. The lock is taken
and released in steps of their own (`BeginBuild` and `EndBuild`, `BeginSend` and
`EndSend`, `BeginAnnounce` and `Announce`), because each holds it across awaits.
What is posted carries whether its send came back.

**AttachmentCache** is the cache with its loads, events, pruning and time;
**HistoryPolicy** the window arithmetic (`initial_decision`, `window_decision`,
fetches, trimming to the slot) as operators over message numbers;
**PromptBuild** the composition: workers that select under the channel's lock
and prepare outside it, the cache under them, and people who delete messages
while the events that say so are still on their way. A prompt is `History` and
the message that asked for the reply, which goes in whatever happened to it.

**VoiceCall** has five parties: core's session and gate, discord.py's client,
the bridge, the sidecar and Discord, with a queue each way between core and
sidecar that is lost with the link. **VoiceSpeech** starts where a call is up:
utterances, turns, ordered speech with lines written late, the wire, and the
sidecar's playback loop with its prefetch.

**ImageRequests** is the tool and the command, rounds of generate, look and
try again, the side model's latch shared by all looks, and the service with
its bounded queue, one worker and restarts.

**ThreadPromises** is the abstract specification of the ledger: numbered
promises that stay owed until they are settled, none taken after the end.
The other refinements are that the conversation makes only the ledger's steps
(`LedgerSpec`), and that prompt building makes only the cache's (`CacheSpec`).

## 3. Runs

| Run | What it shows | Bounds and why they are enough |
|---|---|---|
| `steering` | `ActsOnWhatItSaw`, `GivesUpAfterRefusals`, `TranscriptStable`; the ledger's `HonestReport`, `GuidanceKept`, `KeepsPromises` under a run | 3 messages with 2 retained, so one is compacted between two model calls; 3 turns, 2 refusals, 1 continuation: a message in every window of two passes; responses that answer, act, and act twice concurrently |
| `asking` | `WaitingPausesGatedCalls`, `CleanEndAnswersAll`, `DecisionsAreVisible`, `LedgerSpec`, and `Terminates` under fairness | 1 message, 2 paths, 3 turns, questions blocking or not and beside gated calls, failing sends, every interruption; one message can answer, supersede or miss a question, and keeps the liveness graph small |
| `threads` | `NoClobber`, `NothingSlipsBy`, `NoBlindOverwrite` with every fault at every await | 2 calls, 2 posts, caps 2, 2 save attempts; symmetry in calls and posts |
| `output` | `OutputUnderItsCommand`, `CardSettles`, `OldFilesStay`, `AnswerIsSaidOnce` | 2 runs of a thread; two commands side by side, a command with input to it or beside a call that attaches, and two calls that attach; any command may have no text and so no block; files of two sizes are written, or brought in with an old time, and the marker may be restored, fail, or be the old one; caps of 2 files, 2 bytes and 2 fields, all of which fill; the message deleted once; symmetry in the two commands |
| `schedule_edits` | `NoOverlap`, `GapKept`, `OnTimetable` with any two upsets but a lapsed claim | period = minimum gap = 3, grace 1, a long stop takes 4, time to 5 (two occurrences with a late start between), three other timings to edit to |
| `schedule_due` | `StartedOnce`, and `DueIsHandled` under fairness, with any two upsets but a long stop | time to 3: the first occurrence early, in time and late |
| `rules` | `NoRuleOverlap`, `OncePerMessage`, `SentBackIsUndone` | 3 rules with a quota of 2, 2 people, 2 messages of which one is delivered twice, a queue of 1, 2 edits, one upset of any kind; symmetry in people and in the two deliveries of one message |
| `pipeline` | `RepliesStayTogether`, `PairsAreSpaced`, `HintNamesWhatRuns` | 2 workers, 3 messages (two in the channel, one in its thread), a queue of 1, replies of 2 chunks, a cooldown of 1, one call; models and Redis that fail, histories that are not shown, sends that raise, having posted or not; symmetry in workers and in the channel's two messages |
| `prompt` | `NoLateStore`, `PrefixKept`, `DeletedNotSent` | 2 workers, 3 triggers around a reset, windows of at most 3, 2 images in a cache of 2 bytes, time to 1 with loads as long as the time to live, 2 events, 1 change of the slot or eviction |
| `voice_calls` | `GateMeansCall`, `CallMeansGate` once everything is quiet | 2 sessions, 2 channels, and one mishap: a dropped link, a network failure, a kick or a slow join; symmetry in channels and sessions |
| `voice_speech` | `SpokenInOrder`, `StopIsFinal`, `GoodbyeIsHeard` | 2 requests with a line and an answer each, one further utterance (stop or leave included), a model, an option or a synthesis that fails |
| `images` | `BestIsPosted`, `ReplyIsBounded`, `LatchIsDeserved` | a reply that asks for a picture and an edit at once with a budget of 1, and a slash command; 1 retry, looks that miss up to 2 things (so that a newer attempt may be worse), a queue of 1, one restart as the other model, failures of every call of the service (an unanswered /health included) and of Discord; a look fails when its request is bad |

In `schedule_*` two upsets are what the interesting failures take (a crash and
a lapse, a pause and a resume, a failure to record and a restart). Two job
numbers are enough: the busy key admits one job, and the second is one whose
claim lapsed or was handed back. The two runs divide the upsets as the
theorems' assumptions do. `GapKept` compares runs of one revision and leaves
out a run that begins before its occurrence.

Symmetry sets occur in no constant but the sets themselves (or are alike under
every function of them), and no run with symmetry checks liveness. Deadlock is
not checked: a run that has ended, calls that are over, a budget of mishaps
that is used up and a clock at its bound rightly stop.

## 4. Fairness

* `SandboxConversation!FairSpec` is `WF_vars(RunStep)`: each await of the run
  returns. Model calls carry timeouts, commands have their own, a wait for an
  answer ends at its deadline, Discord sends return or raise. People, failures
  and timeouts of the whole run are under no obligation. Given this, `Terminates`
  is about the loops: refusals, questions, continuations and turns.
* `ScheduleRuns!FairSpec` has weak fairness for the poll (`schedule_forever`
  repeats every 15 s), for taking jobs from the queue, for each job's steps
  (a run is bounded by the turns and timeouts of the LLM call), and for the end
  of a voice call; strong fairness for the expiry of a dead job's keys, which a
  poll that happens to be busy only delays.
* `VoiceCall!FairCallSpec` has weak fairness for what core, the sidecar and
  Discord owe (timers, messages, joins). `LeftAloneEnds` was checked with it
  for one session; with two its graph is too large for a run.
* SandboxThread claims no liveness: the Docker client's create and start have
  no timeout of their own, so nothing bounds a call outside the run.

## 5. Theorems

Every safety and action property that a run checks is also a theorem: it holds
for every value of the constants that the modules' assumptions allow. An
invariant that is not inductive is strengthened (TLC checked the strengthened
one on the run's instance before it was proved); each proof goes through the
actions one by one, for each part of the invariant that they can disturb.

| Module | Theorems | Argument |
|---|---|---|
| SandboxConversation_Proofs, on RunLedger | `TypeCorrect`, `HonestlyReported`, `GuidanceIsKept`, `BoundaryIsFinal`, `PromisesKept` | The type invariant is inductive. A status depends on stage and outcome together, so `HonestReport` is strengthened to which outcomes go with which stage. A compaction takes away only what `Surviving` lets go. Each step maps to a step of ThreadPromises or a stutter. |
| the same, on its caps | `RecordBounded`, `BacklogBounded`, `OneEntryEach`, `OpenMeansUnanswered` | `LedgerFits`: the calls that add no event make none wait again (`EventsStay`), so only an accepted message counts against the caps, and it was let in with room for it; one event over the cap with one that is resolved is one that goes (`CompactionMakesRoom`). The characters that wait are counted one by one (`PendingText`). `EntriesFit` and `QuestionsFit` say how numbers, messages and questions belong together. |
| the same, on the run | `LedgerImplemented`, with `RunsReportHonestly`, `RunsKeepGuidance`, `RunsKeepPromises`, `RunsKeepTheirLedger`; `TurnsBounded`, `WaitingPauses`, `CleanEnds`, `AnswersSurvive`, `RepliesReachPeople`, `GivingUpIsEarned`, `ActingIsAnswered` | `Base`: calls are typed, the lock is held by a running gated call, what was staged is still unread, turns spent and left are the budget (`Budget`), and a question that is being asked is the open one, with no answer read yet (`AsksFit`). From it each step is a ledger step; `CleanFits`, `RepliesFit`, `RefusalsFit` and `AnswersFit` strengthen the properties of the end, the replies and the gate; for the last, what was shown and waits stays named by its call until that call has recorded it (`NamesStay`). |
| the same, on the input | `TranscriptGrows`, `ActingIsInformed` | `InputFits`: what is shown is anchored before the end of the conversation, what was sent is what is shown while the run goes on, and it was sent in the order of anchors and numbers (`SentInOrder`), which is the order of the next input. So staging more only extends it. `RankTellsApart`, `EachRankTaken` and `RanksSort` say that counting the smaller elements of a finite set sorts it. |
| SandboxThread_Proofs, on the thread | `OneRunAtATime`, `WorkspaceNotClobbered`, `RestoringNeverFails`, `RecordReadFirst`, `NothingFiledBetween` | `Shaped` (the part of the types the arguments need) and `ClaimCoversRun`: only the claimed run is between its awaits. So nobody else writes while a run that will persist has the version it started from (`StartedFromIt`), or while a run before its first save has been offered what the record says (`RecordWasOffered`). Nor does a workspace appear for a run that found none, or that has deleted a bad one (`RestoreFits`), so a bad one is met only where it is recovered from. |
| the same, on what a run shows | `OutputFoundItsCommand`, `CardSettled`, `OldFilesStayed`, `AnsweredOnce` | `ShowsInv`: whoever waits for Discord is a call of the live run or the run itself (`FlushesFit`), a command that runs has its block if it has a text (`CommandsHaveBlocks`), the final card is rendered when nobody else waits to change it (`CardFits`), and no send of the answer has come back while it is still due (`AnswerFits`). No file bears a time later than the run that wrote it (`TimesFit`), and the marker is touched anew, so that what is at least as new was written by this run. |
| ScheduleRuns_Proofs | `TypeCorrect`, `RunsDoNotOverlap`, `NeverStartedTwice` | `PollHolds` (a token the poll holds belongs to no queued job), `QueueHolds` (the queue holds each waiting job once), `SoleJob` (the token of every live job is the one in the busy key), `MarkerPerRun` (what was started has its marker). |
| the same, on time | `NextRunStaysOnTheTimetable`, `RunsKeepTheGap` | `RowsFit`: a row that somebody read is of no later revision than the record, and of its timing if of the same. For the gap, `Freshness`: with one live job at a time, a row about to be acted on has the record's next run or one that job has claimed; and `Gaps`: whatever may run next is far enough from every run so far, or is the occurrence of one and has its marker. |
| RuleRuns_Proofs | `TypeCorrect`, `RunsOnce`, `RulesDoNotOverlap`, `SentBackLeavesNothing`, `ServerKeepsItsQuota` | `AllFit` (what a job holds fits what it was matched with), `QueueHolds`, `SeenOnce` (the mark of a delivered message admits one match), `RunsSeen` (what ran had its mark); `KeysAreOwed`: while Redis has not failed, every key of a delivery is one its job still holds or has yet to give back. The active rules are a finite set, counted again on submission; an update or a suspension only takes away. |
| PromptBuild_Proofs, on AttachmentCache | `TypeCorrect`, `NothingStoredLate`, `CounterIsExact` | Events are forgotten after the time to live; a load that could still store is younger (`LoadsInTime`), so the event it lost to is still remembered (`EventRemembered`, `GenerationNewest`). `CountInv`: the entries are finitely many, totally ordered by use, and counted; what survives a store is a tail of that order, so it is no larger than what comes from its first element on (`FirstOfAll`), which fits. |
| the same, on builds | `CacheImplemented`, `NothingStoredLateInBuilds`, `CounterIsExactInBuilds`, `BuildTypeCorrect`, `PromptsContinue`, `DeletedStaysOut`, `WindowsAreSound`, `WaitersAreServed` | Each step of a worker, of Discord or of the slot is a step of the cache or leaves it alone. `DecidesOnTheAnchor`: under the lock a build decides about the anchor as it is; `TakenOnce`: no trigger is taken twice; `LastFits`: the last prompt holds what there is after the anchor, as far as it reaches. A build is never older than an event is remembered (`Timely`), so what its window holds is there, or its deletion is on its way or known (`DeletionsFit`). A window is the newest messages after the last reset, up to the limit, cut until they fit the slot (`RecentIsSound`), or a kept one, which has all there is after the anchor, so that a reset after it would be in it and end it (`KeptIsSound`). Waiting starts on a load under way, and a load ends for all who wait at once. |
| MessagePipeline_Proofs | `TypeCorrect`, `RepliesTogether`, `PairsSpaced`, `LocksAreForReadingAndSending`, `HintsName`, `VersionAnnouncedOnce` | `LocksFit` (who reads a history or sends has its lock, and nobody else has one), `Registered` (what is registered is what runs), `History` (what a lock's holder sends is the last that was sent under it), `PairsFit` (the single replies since a pair, those under way and the cooldown that is left make up the cooldown, by a count of finite sets), `AnnounceFits` (whoever announces claimed the version alone, before any announcement of it came back). |
| VoiceSpeech_Proofs, on speech | `TypeCorrect`, `PlayedInOrder`, `StoppedStaysSilent`, `GoodbyeSpokenOut` | `TurnsFit` and `PiecesFit`: what was played, plays, waits in the sidecar, is on the wire and waits to be sent is one ordered chain. `StopsFit`: behind the stop of a turn there is no sentence of it. `Counts`: a turn's count of pending pieces covers what is afloat, but for the one just sent. |
| the same, on calls | `CallTypeCorrect`, `SilentMeansCall`, `CallMeansSilence` | `CallInv`: a protocol belongs to a session that got past its text channel (`ProtocolsBegun`); the gate is held only while the link is up (`GateHasLink`); for the session in the gate, the sidecar is in its channel, or asked there, or a message is on its way that ends the call (`SidecarFollows`), and the voice client is its own, or Discord is about to say otherwise, or the same (`ClientFollows`, `LeavingIsAsked`). The other way round, who loses the gate early is known (`EarlyEnds`) and everybody else waits for the end of its protocol (`ClientEnds`). When nothing is on its way, only agreement is left. |
| ImageRequests_Proofs | `TypeCorrect`, `LatchDeserved`, `RejectionRetried`, `BestPosted`, `ReplyBounded` | A look that is repeated is repeated for the option (`AgainForTheOption`), and the best kept so far is beaten by no attempt seen so far (`BestSoFar`). A reply lets in no more calls than it counted (`LetIn`), and each makes one picture and one more per review that asks for it (`Counted`); the sum over a set of calls is bounded by its cardinality. |

Hypotheses, each of which is necessary or justified by the code:

* `RunsDoNotOverlap` assumes claims do not lapse under a live job
  (`"lease" \notin Upsets`): a lapsed claim lets another job in.
* `NeverStartedTwice` assumes no stop outlasts the markers
  (`"week" \notin Upsets`): a process that was down for longer no longer knows
  that it started a run (section 6).
* `RunsKeepTheGap` assumes the first, and that no stop outlasts the markers or
  a marker lives as long as the minimum gap less the grace. The code's markers
  live a week and its timetables are no longer than that.
* `RestoringNeverFails` assumes that Docker and Redis answer (`StoresWork`):
  otherwise the run may fail before its model for their sake.
* `RejectionRetried` assumes that a look does not fail for other reasons
  (`"look" \notin Failures`): then it ends without a verdict.
* The cache's and the prompts' theorems need `MaxLoad <= TTL` and
  `MaxBuild <= TTL`, assumptions of the modules: a download is given
  up after 30 seconds, and no load or build "lasts anywhere near" the 15 minutes
  for which an event is remembered (`attachment_cache.py:163-164`).
* Messages of a prompt are finitely many and numbered from 1 on
  (`MessagesAssumption`), as Discord's ids are.

Some definitions have the form they have for the proofs' sake: `PendingChars`
and the cache's `TotalSize` count the elements of a set where the code adds up
lengths; the order of the cache's entries is a relation; `Placed`,
`InOrder` and `WithinCaps` find an element's place by counting what goes before
it, and a prompt is the set of its messages, whose numbers order it, where a recursive
definition would need an induction over data that the provers cannot apply.

Only model-checked: `Terminates` and `DueIsHandled`, because liveness under
fairness is beyond the prover, as is `LeftAloneEnds`; the whole type invariant
of the thread, whose record is trimmed with a fold; and that the names and caps of a run's inputs are what
RunInputs promises, which is a recursive computation.

## 6. Where the code does something else

Each of the first group is a formula of the module named, which TLC shows
violated (in the instance described, or in one of that module's runs); those of
the second were met while reading. No run expects a violation.

Formulas:

* `AcceptedWillBeSeen` (SandboxConversation): a message accepted during the
  last model call is never shown, though its reaction says it will be.
* `NothingAcceptedAfterTheEnd`: when the container cannot be created nothing
  calls `finalize()`, and the ledger accepts until the claim is released
  (`Interruptions = {"infra"}`).
* `BlockingQuestionPausesWork`: a gated call of the same response starts while
  the blocking question is being sent (two turns, `<<"ask", "shell">>`).
* `AnsweredBeforeActing`: an acknowledgement whose decision is not recognised
  records nothing and still opens the gate (the responses of `steering`).
* `ContainersRemoved` (SandboxThread): start() fails after create() and the
  container stays.
* `NotedIsNotForgotten`: a run that fails early replaces a record nobody read.
* `ResumedIsTruth`: "resumed" is reported although the workspace expired
  between the look and start() (two calls, `Faults = {"expiry"}`).
* `SaveSettles`: a message during each of five saves leaves the last one out.
* `FollowUpsKept` with sizes of 4 for a record of 7: ten follow-ups of four-byte
  characters, within their own caps, outgrow MAX_RECORD_BYTES and are dropped.
* `RunsWhenDue` (ScheduleRuns): a run that ends between the poll's list and its
  read makes the next occurrence run at once.
* `EnabledIsDue`: paused and resumed around the poll, it is never due again.
* `InterruptedByAStop`: a run that ends between the poll's read and its look at
  the busy key is recorded as interrupted.
* `FinishedExpires`: recording a run of a schedule deleted meanwhile drops the
  expiry the deletion set.
* `AlwaysApart`: an edit of the timing forgets when the schedule last ran.
* `StartedOnce` with `"week"`: after a stop longer than the marker's life, a run
  that was cut off is started again.
* `DeletedNotKept` (PromptBuild): `main.py:259-260` says a deleted image is not
  kept in memory; a build whose snapshot of the history is older than the
  deletion loads the image after the event, and the cache keeps it
  (`attachment_cache.py:135-138` compares with the start of the load). It is
  not sent as history: `DeletedNotSent` holds.
* `NothingDeletedSent`: nor, says `main.py:259-260`, is a deleted message sent.
  The one that asked for the reply is, with its images, whenever it was deleted
  (`message_handler.py:301-303`).
* `ThreadRepliesStayTogether` (MessagePipeline): the reply to a request of the
  channel is sent into a thread under the channel's lock, so chunks may
  interleave there (`message_queue.py:15-18` says they do not).
* `ThreadPairsAreSpaced` (with two of the messages in the thread and one in the
  channel): for the same reason a thread's cooldown may be read
  and counted down by two workers at once, and two double replies come closer
  together than `reply_policy.py:3-5` and `readme.md:73` say.
* `ToldOnce`: "the first time a guild triggers the bot on it" a version is
  announced (`main.py:494-505`); an announcement whose send raises after it was
  posted (`common.py:78-80` says it may be) is given back, and the next reply
  announces it again.
* `NothingUnderAnother` (ProgressCard): a call without a parsed command adds no
  block (`sandbox_progress.py:437-445`), and what it prints goes to the latest
  one, under a command that it does not belong to (`:265`).
* `NeverSaidTwice` (RunOutput): the closing message of a run is sent again after
  a send that raised, which may have posted it (`tool_functions.py:692-719`).
* `SilentInCalls` (MessagePipeline): `voice_gate.py:5-6` says the bot never talks in text and
  voice at once; a handle already at work when the call begins still replies.
* `NeverDisagree` (VoiceCall): end() during start()'s await of the session
  channel leaves a gate without a call for a while (`voice_session.py:112-128`).

Observations:

* Intake: a handle of a direct message ends in an exception
  (`message_handler.py:575`), logged by its worker.
* Voice: begin() raising leaves gate and connection without a worker; a
  "disconnected" that arrives after LEAVE_TIMEOUT ends a newer call; joining
  again within five seconds of a kick fails; a worker created after end() is
  never stopped; a `done` that overtakes the send's own count leaves the count
  one too high, so the goodbye waits GOODBYE_WAIT_SECONDS. A turn cancelled
  inside a tool leaves its in-flight entry.
* Thread: the message that announces a run without a live card is not guarded
  (`tool_functions.py:606-611`): if Discord refuses it the call ends, and with
  its ledger whatever was posted since the claim, without a note or a record.
* Rules: the retry view opens a form with a stale revision
  (`automation_commands.py:118-125`); a follow-up deleted or paused while it
  runs never sets `_followup_last`, and an older one's finish overwrites it
  (`automation_store.py:296-315`). `_renew` stops at the first claim it lost
  (`automation_runner.py:44`), so that the job's other claims lapse too and
  another message may run their rules beside it (`NoRuleOverlap` exempts that),
  and a failing second `claim_rule` leaves the
  first's keys (`:69`); both are modelled.
* Card: an event during the await of an update is marked as shown when that
  update lands (`sandbox_progress.py:528`), so the card stays behind until the
  next event; concurrent hooks may send two cards; output of `write_stdin` goes
  to the latest block even if another command's.
* Files: one brought into out/ with an old time (`cp -p`, an archive) is older
  than the marker and is not swept; removing the only attached file makes the fallback sweep send it; an
  attached file whose read fails is dropped without a note; the caption of the
  first file is lost when the closing message carries it; replies left unsent
  are lost when the run fails on its infrastructure; an input replaces an
  earlier run's file of the same name.
* LLM: a 4xx on a later model call, with nothing emitted yet, repeats the whole
  streamed run, tools included (modelled in VoiceSpeech).

## 7. Not modelled

* In the conversation: the exception path of `input_filter`, infrastructure
  failures inside a tool body, wording.
* In the thread: the fallback to the parent channel when no thread can be made,
  and a Docker call that never returns.
* In output and inputs: the static card, previews, formatting; a claim of the
  inputs is a pure choice (RunInputs).
* In automations: follow-ups with their quota and spacing, the retry view, list
  views, calendar arithmetic and daylight saving (a start and a period stand
  for it), and the pattern language of rules (a relation between messages and
  rules). Workers are not bounded in number: a job has one when it wants it.
* A download also waits for a place among those that run at once
  (`message_handler.py:150-169`); the bounds on loads and builds (`MaxLoad`,
  `MaxBuild`) are assumptions, not derived from the number of downloads.
* In intake and prompts: commands, reactions, presence, recent-history mode,
  prompt texts and filters, the wrap-up after a turn limit.
* In voice: the follow-up window, moves between channels, the chat-side posting
  of a turn, and capturing or mixing audio.
* In pictures: rewriting of prompts, picture data, the pipeline itself.
* Speech and browser services: request and response around a library, with a
  semaphore at most.
* Polls, events, message search, settings, memory and metrics: single calls of
  Discord or Redis, counters and texts.
* Web reading and research: fetching and text extraction.
* Deployment, workflows and end-to-end tests: configuration around the program.

## 8. Plan

Done, in this order: ledger, conversation, thread, schedules with their
proofs; then rules, cache and prompts, pipeline, voice, pictures, output; then
the proofs of every safety and action property that a run checks. Left:

1. `FollowUpQuota`: concurrent creation of follow-ups against quota and spacing.
2. Proofs of what is stated and neither in a run nor a theorem yet: the
   thread's remaining types.
3. An abstract specification of a call (silent, spoken in, over) that
   VoiceCall implements.
4. The follow-up window of a call, and the chat-side posting of its turns.
5. Liveness of a call (`LeftAloneEnds`) on a reduced model of the link.
