-------------------------- MODULE SandboxConversation --------------------------
(***************************************************************************)
(* One sandbox run and the people steering it:                             *)
(* core/classes/sandbox_conversation.py with the part of                   *)
(* core/classes/sandbox_agent.py that drives it (run_sandbox_task,         *)
(* _converse and the gated tools).                                         *)
(*                                                                         *)
(* The run alternates model calls and batches of tool calls.  The tool     *)
(* calls of one response run concurrently, the gated ones one at a time    *)
(* under a lock; a thread message may land between any two awaits.  The    *)
(* ledger of the run is the state of RunLedger, and every step here makes  *)
(* at most one call on it.                                                 *)
(***************************************************************************)
EXTENDS RunLedger, SequencesExt

CONSTANTS
    Responses,            \* the batches the model may answer with: seqs of kinds
    Paths,                \* the files it may attach
    AskTimeouts,          \* whether a blocking question may outlive its wait
    SendsFail,            \* whether a Discord send may fail
    Interruptions,        \* what else may end the run: see Interrupt
    MAX_GATE_REFUSALS,
    MAX_CONTINUATIONS,
    MIN_CONTINUATION_TURNS,
    SANDBOX_MAX_TURNS

Kinds == {"shell", "attach", "respond", "ask"}
Gated == {"shell", "attach"}

ASSUME ConversationAssumption ==
    /\ Responses \subseteq Seq(Kinds) \ {<<>>}
    /\ AskTimeouts \in BOOLEAN /\ SendsFail \in BOOLEAN
    /\ Interruptions \subseteq {"timeout", "model", "infra"}
    /\ MAX_GATE_REFUSALS \in Nat
    /\ MAX_CONTINUATIONS \in Nat
    /\ MIN_CONTINUATION_TURNS \in Nat \ {0}
    /\ SANDBOX_MAX_TURNS \in Nat \ {0}

\* The bound on positions leaves room for the longest run.
ASSUME RunFitsBound == 1 + SANDBOX_MAX_TURNS + MAX_CONTINUATIONS <= MaxItems

VARIABLES
    pc,                   \* where run_sandbox_task is
    items,                \* length of the model's input, in runner items
    sent,                 \* the input of the latest model call
    staged,               \* seqs staged by the filter of that call
    calls,                \* the tool calls of the latest response
    batch_ack,            \* ids a respond_to_updates of that response names
    tool_lock,            \* the gated call that holds the lock, or 0
    model_calls,
    pass_calls,           \* model calls of the current Runner.run
    turns_left,
    continuations,
    completed,            \* whether some pass reached a final answer
    gate_refusals,
    last_refused_call,
    deliverables,         \* path -> change_revision it was attached at
    nudged_files,
    visible,              \* events whose reply was posted in the thread
    unsent_replies,       \* events whose reply is left for the closing message
    exit,                 \* how the run ended
    refused_in            \* history: responses in which an event held a call up

runVars == <<pc, items, sent, staged, batch_ack, model_calls, pass_calls,
             turns_left, continuations, completed, exit>>
toolVars == <<calls, tool_lock>>
gateVars == <<gate_refusals, last_refused_call, refused_in>>
replyVars == <<visible, unsent_replies>>
fileVars == <<deliverables, nudged_files>>
vars == <<ledgerVars, runVars, toolVars, gateVars, replyVars, fileVars>>

Seqs == 1..MaxRevision
Call == [kind : Kinds, ids : SUBSET Seqs, blocking : BOOLEAN, qid : Nat, after_seq : Nat,
         at : {"queued", "running", "waiting", "done"}]

TypeOK ==
    /\ LedgerTypeOK
    /\ pc \in {"setup", "ready", "inflight", "tools", "final", "cancelling", "over"}
    /\ items \in Nat
    /\ sent \in Seq(Int)
    /\ staged \subseteq Seqs
    /\ calls \in Seq(Call)
    /\ batch_ack \subseteq Seqs
    /\ tool_lock \in 0..Len(calls)
    /\ {model_calls, pass_calls, continuations} \subseteq Nat
    /\ turns_left \in Int
    /\ completed \in BOOLEAN /\ nudged_files \in BOOLEAN
    /\ gate_refusals \in [Seqs -> Nat]
    /\ last_refused_call \in [Seqs -> Nat]
    /\ refused_in \in [Seqs -> SUBSET Nat]
    /\ DOMAIN deliverables \subseteq Paths
    /\ \A p \in DOMAIN deliverables : deliverables[p] \in Nat
    /\ {visible, unsent_replies} \subseteq SUBSET Seqs
    /\ exit \in {"none", "clean", "bounded", "fallback", "failed", "infra"}

Init ==
    /\ LedgerInit
    /\ pc = "setup"
    /\ items = 1                         \* the task
    /\ sent = <<>> /\ staged = {}
    /\ calls = <<>> /\ batch_ack = {} /\ tool_lock = 0
    /\ model_calls = 0 /\ pass_calls = 0 /\ turns_left = SANDBOX_MAX_TURNS
    /\ continuations = 0 /\ completed = FALSE
    /\ gate_refusals = [s \in Seqs |-> 0]
    /\ last_refused_call = [s \in Seqs |-> 0]
    /\ refused_in = [s \in Seqs |-> {}]
    /\ deliverables = [p \in {} |-> 0] /\ nudged_files = FALSE
    /\ visible = {} /\ unsent_replies = {}
    /\ exit = "none"

--------------------------------------------------------------------------------
(* The model's input.  An item of the runner is written as the negation of *)
(* its position, an event as its seq.                                      *)

Items == {-i : i \in 1..items}

(* After each item come the events of `at` anchored there, in seq order; an  *)
(* anchor past the end is the end.                                           *)
PlaceOf(at, x) == IF x < 0 THEN -x ELSE IF at[x] > items THEN items ELSE at[x]

Precedes(at, x, y) ==
    \/ PlaceOf(at, x) < PlaceOf(at, y)
    \/ PlaceOf(at, x) = PlaceOf(at, y) /\ x < y

Placed(at) ==
    LET input == Items \cup DOMAIN at
    IN  [k \in 1..Cardinality(input) |-> CHOOSE x \in input :
            Cardinality({y \in input : Precedes(at, y, x)}) = k - 1]

presented == DOMAIN events \ unpresented

(* input_filter: what is unseen goes to the end of the input, what was      *)
(* presented keeps its place.  Nothing is committed yet.                    *)
StageInput ==
    /\ pc = "ready" /\ pass_calls < turns_left
    /\ staged' = unpresented
    /\ sent' = Placed([s \in DOMAIN events |->
                          IF s \in presented THEN events[s].anchor ELSE items])
    /\ pc' = "inflight"
    /\ UNCHANGED <<ledgerVars, items, batch_ack, model_calls, pass_calls, turns_left,
                   continuations, completed, exit, toolVars, gateVars,
                   replyVars, fileVars>>

NewCall(kind, ids, isBlocking) ==
    [kind |-> kind, ids |-> ids, blocking |-> isBlocking, qid |-> 0, after_seq |-> 0,
     at |-> "queued"]

(* The ids one respond_to_updates of the response names; none means every  *)
(* message shown so far, the ones committed with this response included.   *)
Acked(call) ==
    IF call.kind # "respond" THEN {}
    ELSE IF call.ids # {} THEN call.ids
    ELSE unaddressed \cap (presented \cup staged)

(* Mutant: an acknowledgement stays good for the responses that follow. *)
AckedSoFar(batch) == batch_ack \cup UNION {Acked(batch[i]) : i \in DOMAIN batch}

AckedBy(batch) == UNION {Acked(batch[i]) : i \in DOMAIN batch}

(* on_model_response: the call completed, so what was staged has been seen. *)
(* An empty batch is a final answer.                                        *)
ModelAnswers(batch) ==
    /\ pc = "inflight"
    /\ MarkPresented(staged, items)
    /\ staged' = {}
    /\ model_calls' = model_calls + 1 /\ pass_calls' = pass_calls + 1
    /\ items' = items + 1              \* the response with its tool results
    /\ calls' = batch
    /\ batch_ack' = AckedBy(batch)
    /\ pc' = IF batch = <<>> THEN "final" ELSE "tools"
    /\ UNCHANGED <<sent, turns_left, continuations, completed, exit, tool_lock, gateVars,
                   replyVars, fileVars>>

(* The ids and the blocking flag matter only to the kind that takes them. *)
Batches(kinds) ==
    {[i \in DOMAIN kinds |-> NewCall(kinds[i], ids[i], isBlocking[i])] :
        ids \in {f \in [DOMAIN kinds -> SUBSET DOMAIN events] :
                    \A i \in DOMAIN kinds : kinds[i] # "respond" => f[i] = {}},
        isBlocking \in {f \in [DOMAIN kinds -> BOOLEAN] :
                    \A i \in DOMAIN kinds : kinds[i] # "ask" => ~f[i]}}

ModelReturns ==
    \E kinds \in Responses \cup {<<>>} : \E batch \in Batches(kinds) : ModelAnswers(batch)

(* Mutant: the batch is over with its last call. *)
LastReturned == calls[Len(calls)].at = "done"

AllReturned == \A i \in DOMAIN calls : calls[i].at = "done"

ToolsReturn ==
    /\ pc = "tools" /\ AllReturned
    /\ pc' = "ready" /\ calls' = <<>>
    /\ UNCHANGED <<ledgerVars, items, sent, staged, batch_ack, model_calls, pass_calls,
                   turns_left, continuations, completed, exit, tool_lock,
                   gateVars, replyVars, fileVars>>

--------------------------------------------------------------------------------
(* The gate, taken by each gated call once it holds the lock. *)

CanCheckGate(i) ==
    /\ pc = "tools" /\ i \in DOMAIN calls
    /\ calls[i].kind \in Gated /\ calls[i].at = "queued"
    /\ tool_lock = 0

(* Mutant: a question holds the tools up until it has been posted. *)
AwaitsPosting == question.blocking /\ ~question.posted

AwaitsAnswer == question.blocking /\ question.waiting

(* Mutant: only what the call in flight will show counts as unseen. *)
unseenStaged == unaddressed \cap staged

unseen  == unaddressed \cap unpresented
ignored == (unaddressed \ unpresented) \ batch_ack

(* Mutant: every refused call counts. *)
RefusalsPerCall(s) == gate_refusals[s] + 1

(* A response counts once against an event, however many calls it holds. *)
RefusalsWith(s) ==
    IF last_refused_call[s] = model_calls THEN gate_refusals[s] ELSE gate_refusals[s] + 1

(* Mutant: messages that were answered meanwhile are given up on as well. *)
hopelessEver == {s \in presented \ batch_ack : RefusalsWith(s) > MAX_GATE_REFUSALS}

hopeless == {s \in ignored : RefusalsWith(s) > MAX_GATE_REFUSALS}

CountRefusals ==
    /\ gate_refusals' = [s \in Seqs |-> IF s \in ignored THEN RefusalsWith(s)
                                        ELSE gate_refusals[s]]
    /\ last_refused_call' = [s \in Seqs |-> IF s \in ignored THEN model_calls
                                            ELSE last_refused_call[s]]

CallMoves(i, at) == calls' = [calls EXCEPT ![i].at = at]

(* Input the response has not seen, or a question being waited on. *)
GateHolds(i) ==
    /\ CanCheckGate(i)
    /\ AwaitsAnswer \/ unseen # {}
    /\ CallMoves(i, "done")
    /\ UNCHANGED <<ledgerVars, runVars, tool_lock, gateVars, replyVars, fileVars>>

(* Input the model was shown and this response does not answer. *)
GateRefuses(i) ==
    /\ CanCheckGate(i) /\ ~AwaitsAnswer /\ unseen = {}
    /\ ignored \ hopeless # {}
    /\ CountRefusals
    /\ GiveUpOn(hopeless)
    /\ refused_in' = [s \in Seqs |-> IF s \in ignored \ hopeless
                                     THEN refused_in[s] \cup {model_calls}
                                     ELSE refused_in[s]]
    /\ CallMoves(i, "done")
    /\ UNCHANGED <<runVars, tool_lock, replyVars, fileVars>>

GateOpens(i) ==
    /\ CanCheckGate(i) /\ ~AwaitsAnswer /\ unseen = {}
    /\ ignored \ hopeless = {}
    /\ CountRefusals
    /\ GiveUpOn(hopeless)
    /\ CallMoves(i, "running") /\ tool_lock' = i
    /\ UNCHANGED <<runVars, refused_in, replyVars, fileVars>>

GatedReturns(i) ==
    /\ pc = "tools" /\ i \in DOMAIN calls /\ tool_lock = i
    /\ CallMoves(i, "done") /\ tool_lock' = 0
    /\ UNCHANGED <<ledgerVars, runVars, gateVars, replyVars, nudged_files>>

(* A command has ended, or used up its wait; or it goes on behind the call, *)
(* which comes back at the next checkpoint once thread input is waiting.    *)
ShellReturns(i) == GatedReturns(i) /\ calls[i].kind # "attach" /\ UNCHANGED deliverables

(* attach_file stamps the file with the changes accepted so far, drops it,  *)
(* or finds that it cannot be attached.                                     *)
AttachReturns(i) ==
    /\ GatedReturns(i) /\ calls[i].kind = "attach"
    /\ \E p \in Paths :
          \/ deliverables' = [q \in DOMAIN deliverables \cup {p} |->
                                 IF q = p THEN change_revision ELSE deliverables[q]]
          \/ deliverables' = [q \in DOMAIN deliverables \ {p} |-> deliverables[q]]
          \/ UNCHANGED deliverables

--------------------------------------------------------------------------------
(* respond_to_updates: the decision is recorded at once, the reply posted   *)
(* afterwards.                                                              *)

Starts(i, kind) ==
    /\ pc = "tools" /\ i \in DOMAIN calls
    /\ calls[i].kind = kind /\ calls[i].at = "queued"

Targets(i, decision) ==
    IF calls[i].ids # {} THEN calls[i].ids
    ELSE {s \in DOMAIN events :
             /\ events[s].stage \in IF decision = "done" THEN {PRESENTED, ADDRESSED}
                                    ELSE {PRESENTED}
             /\ events[s].outcome # UNACKNOWLEDGED}

RespondRecords(i, decision) ==
    /\ Starts(i, "respond")
    /\ RecordDecision(Targets(i, decision), decision)
    /\ calls' = IF Known(Targets(i, decision)) = {}
                THEN [calls EXCEPT ![i].at = "done"]
                ELSE [calls EXCEPT ![i].at = "running",
                                   ![i].ids = Known(Targets(i, decision))]
    /\ UNCHANGED <<runVars, tool_lock, gateVars, replyVars, fileVars>>

(* A decision normalize_decision cannot make sense of: nothing is recorded. *)
RespondUnrecognised(i) ==
    /\ Starts(i, "respond")
    /\ CallMoves(i, "done")
    /\ UNCHANGED <<ledgerVars, runVars, tool_lock, gateVars, replyVars, fileVars>>

respond_to_updates(i) ==
    (\E decision \in DecisionsMade : RespondRecords(i, decision)) \/ RespondUnrecognised(i)

(* Mutant: a reply that could not be posted is forgotten. *)
ForgetReply(ids) == UNCHANGED unsent_replies

KeepForClosing(ids) == unsent_replies' = unsent_replies \cup ids

ReplyEnds(i) ==
    /\ pc = "tools" /\ i \in DOMAIN calls
    /\ calls[i].kind = "respond" /\ calls[i].at = "running"
    /\ CallMoves(i, "done")
    /\ \/ visible' = visible \cup calls[i].ids /\ UNCHANGED unsent_replies
       \/ SendsFail /\ KeepForClosing(calls[i].ids) /\ UNCHANGED visible
    /\ UNCHANGED <<ledgerVars, runVars, tool_lock, gateVars, fileVars>>

--------------------------------------------------------------------------------
(* ask_user: registered before it is sent; a blocking one then waits. *)

AskOpens(i) ==
    /\ Starts(i, "ask")
    /\ question = NoQuestion \/ question.timed_out
    /\ OpenQuestion(calls[i].blocking)
    /\ calls' = [calls EXCEPT ![i].at = "running", ![i].qid = next_qid,
                              ![i].after_seq = revision]
    /\ UNCHANGED <<runVars, tool_lock, gateVars, replyVars, fileVars>>

AskRefused(i) ==
    /\ Starts(i, "ask")
    /\ question # NoQuestion /\ ~question.timed_out
    /\ CallMoves(i, "done")
    /\ UNCHANGED <<ledgerVars, runVars, tool_lock, gateVars, replyVars, fileVars>>

ask_user(i) == AskOpens(i) \/ AskRefused(i)

Asking(i, at) ==
    /\ pc = "tools" /\ i \in DOMAIN calls
    /\ calls[i].kind = "ask" /\ calls[i].at = at
    /\ UNCHANGED <<runVars, tool_lock, gateVars, replyVars, fileVars>>

AskSent(i) ==
    /\ Asking(i, "running")
    /\ \/ /\ calls[i].blocking /\ ~has_input_after(calls[i].after_seq)
          /\ QuestionWaits(calls[i].qid)
          /\ CallMoves(i, "waiting")
       \/ /\ ~calls[i].blocking \/ has_input_after(calls[i].after_seq)
          /\ QuestionPosted(calls[i].qid)
          /\ CallMoves(i, "done")

AskSendFails(i) ==
    /\ SendsFail
    /\ Asking(i, "running")
    /\ CloseQuestion(calls[i].qid)
    /\ CallMoves(i, "done")

AskWakes(i) ==
    /\ Asking(i, "waiting")
    /\ has_input_after(calls[i].after_seq)
    /\ QuestionWaitEnds(calls[i].qid, FALSE)
    /\ CallMoves(i, "done")

(* Mutant: the deadline is only looked at when a message comes. *)
AskNeverTimesOut(i) ==
    /\ AskTimeouts
    /\ Asking(i, "waiting")
    /\ has_input_after(calls[i].after_seq)
    /\ QuestionWaitEnds(calls[i].qid, TRUE)
    /\ CallMoves(i, "done")

AskTimesOut(i) ==
    /\ AskTimeouts
    /\ Asking(i, "waiting")
    /\ ~has_input_after(calls[i].after_seq)
    /\ QuestionWaitEnds(calls[i].qid, TRUE)
    /\ CallMoves(i, "done")

--------------------------------------------------------------------------------
(* The run around the calls. *)

StartRun ==
    /\ pc = "setup"
    /\ Start
    /\ pc' = "ready"
    /\ UNCHANGED <<items, sent, staged, batch_ack, model_calls, pass_calls, turns_left,
                   continuations, completed, exit, toolVars, gateVars,
                   replyVars, fileVars>>

(* The container cannot be created: run_sandbox_task raises before the try  *)
(* whose finally would commit the boundary.                                 *)
SetupFails ==
    /\ "infra" \in Interruptions
    /\ pc = "setup"
    /\ pc' = "over" /\ exit' = "infra"
    /\ UNCHANGED <<ledgerVars, items, sent, staged, batch_ack, model_calls, pass_calls,
                   turns_left, continuations, completed, toolVars, gateVars,
                   replyVars, fileVars>>

Ends(how) ==
    /\ Finalize
    /\ pc' = "over" /\ exit' = how
    /\ UNCHANGED <<items, sent, staged, batch_ack, model_calls, toolVars,
                   gateVars, replyVars>>

(* continuation_nudge: input left unanswered or, once per run, a file        *)
(* attached before an accepted change next to one attached after it.         *)
FilesDisagree ==
    /\ change_revision # 0
    /\ \E p \in DOMAIN deliverables : deliverables[p] < change_revision
    /\ \E p \in DOMAIN deliverables : deliverables[p] >= change_revision

(* Mutant: the second look at the files, not the first, is the one that nudges. *)
NudgeFilesAgain == nudged_files /\ FilesDisagree

NudgeFiles == ~nudged_files /\ FilesDisagree

(* Mutant: only what the model has not seen keeps the run open. *)
NudgedUnseen == unpresented # {} \/ NudgeFiles

Nudged == unaddressed # {} \/ NudgeFiles

(* Mutant: every pass gets the whole budget. *)
TurnsLeftWhole == turns_left

TurnsLeft == turns_left - pass_calls
PassEnds ==
    /\ pc = "final"
    /\ completed' = TRUE
    /\ turns_left' = TurnsLeft
    /\ nudged_files' = (nudged_files \/ NudgeFiles)
    /\ UNCHANGED deliverables

MayContinue == continuations < MAX_CONTINUATIONS /\ TurnsLeft >= MIN_CONTINUATION_TURNS

(* The check and the boundary are one step: no await lies between them. *)
FinishRun ==
    /\ PassEnds
    /\ ~Nudged \/ ~MayContinue
    /\ Ends(IF Nudged THEN "bounded" ELSE "clean")
    /\ UNCHANGED <<pass_calls, continuations>>

Continue ==
    /\ PassEnds
    /\ Nudged /\ MayContinue
    /\ continuations' = continuations + 1
    /\ pass_calls' = 0
    /\ items' = items + 1              \* the nudge
    /\ pc' = "ready"
    /\ UNCHANGED <<ledgerVars, sent, staged, batch_ack, model_calls, exit,
                   toolVars, gateVars, replyVars>>

(* MaxTurnsExceeded, a model error or a model call's own timeout: the answer *)
(* of an earlier pass stands, or the run is reported as stopped.             *)

Fallback == IF completed THEN "fallback" ELSE "failed"

PassFails ==
    /\ \/ pc = "ready" /\ pass_calls >= turns_left
       \/ pc = "inflight" /\ "model" \in Interruptions
    /\ Ends(Fallback)
    /\ UNCHANGED <<pass_calls, turns_left, continuations, completed, fileVars>>

(* Any other error, of the setup steps inside the try or of a model call,    *)
(* ends the run whatever it had finished.                                    *)
InfraFails ==
    /\ pc \in {"setup", "inflight"} /\ "infra" \in Interruptions
    /\ Ends("infra")
    /\ UNCHANGED <<pass_calls, turns_left, continuations, completed, fileVars>>

(* The wait_for around the passes expires: the tool calls are cancelled     *)
(* first, so some time passes before the boundary is committed.             *)
TimeOut ==
    /\ "timeout" \in Interruptions
    /\ pc \in {"ready", "inflight", "tools", "final"}
    /\ pc' = "cancelling"
    /\ calls' = <<>> /\ tool_lock' = 0
    /\ IF question.waiting THEN QuestionWaitEnds(question.qid, FALSE)
       ELSE UNCHANGED ledgerVars
    /\ UNCHANGED <<items, sent, staged, batch_ack, model_calls, pass_calls, turns_left,
                   continuations, completed, exit, gateVars, replyVars, fileVars>>

Cancelled ==
    /\ pc = "cancelling"
    /\ Ends(Fallback)
    /\ UNCHANGED <<pass_calls, turns_left, continuations, completed, fileVars>>

(* run_code_sandbox releases the claim once everything is delivered. *)
Release ==
    /\ pc = "over" /\ state # CLOSED
    /\ Close
    /\ UNCHANGED <<runVars, toolVars, gateVars, replyVars, fileVars>>

(* Someone posts in the thread, at any time. *)
Post ==
    /\ \E m \in Messages, isReply \in BOOLEAN : Deliver(m, isReply)
    /\ UNCHANGED <<runVars, toolVars, gateVars, replyVars, fileVars>>

--------------------------------------------------------------------------------
ToolStep(i) ==
    \/ GateHolds(i) \/ GateRefuses(i) \/ GateOpens(i)
    \/ ShellReturns(i) \/ AttachReturns(i)
    \/ respond_to_updates(i) \/ ReplyEnds(i)
    \/ ask_user(i) \/ AskSent(i) \/ AskSendFails(i)
    \/ AskWakes(i) \/ AskTimesOut(i)

RunStep ==
    \/ StartRun \/ StageInput \/ ModelReturns \/ ToolsReturn
    \/ \E i \in DOMAIN calls : ToolStep(i)
    \/ FinishRun \/ Continue \/ PassFails \/ Cancelled \/ Release

Next == RunStep \/ SetupFails \/ InfraFails \/ TimeOut \/ Post

Spec == Init /\ [][Next]_vars

(* Every await of the run returns: a model call answers, errs or runs into  *)
(* its own timeout, a command ends, a wait ends at its deadline.            *)
FairSpec == Spec /\ WF_vars(RunStep)

--------------------------------------------------------------------------------
(* Properties. *)

GatedCallStarts(i) ==
    /\ i \in DOMAIN calls \cap DOMAIN calls'
    /\ calls[i].kind \in Gated
    /\ calls[i].at = "queued" /\ calls'[i].at = "running"

(* A gated tool only runs for a response whose model call had every message *)
(* of the ledger in its input: one that lands after the input was staged,    *)
(* even between two tool calls of one response, holds back the rest.         *)
ActsOnWhatItSaw ==
    [][\A i \in DOMAIN calls : GatedCallStarts(i) => DOMAIN events \subseteq ToSet(sent)]_vars

(* What is still unanswered when a gated tool runs is named by a             *)
(* respond_to_updates of the very response that asked for the tool: an       *)
(* acknowledgement does not carry over to a later response.                  *)
ActsWithItsAnswer ==
    [][\A i \in DOMAIN calls : GatedCallStarts(i) =>
           \A s \in unaddressed' : \E j \in DOMAIN calls :
               calls[j].kind = "respond" /\ (calls[j].ids = {} \/ s \in calls[j].ids)]_vars

(* The gate gives up on a message only after that many responses of the      *)
(* model had a call refused over it; several calls in one response are one.  *)
GivesUpAfterRefusals ==
    \A s \in DOMAIN events :
        events[s].outcome = UNACKNOWLEDGED => Cardinality(refused_in[s]) >= MAX_GATE_REFUSALS

(* While a call waits for the answer to a blocking question, no gated tool  *)
(* starts, whatever else the batch holds.                                   *)
WaitingPausesGatedCalls ==
    [][\A i, j \in DOMAIN calls : calls[j].at = "waiting" => ~GatedCallStarts(i)]_vars

(* A run that ends of its own accord has no message left unanswered, before *)
(* or after the boundary, and did not send a file older than a change it    *)
(* accepted next to a newer one without asking once.                        *)
CleanEndAnswersAll ==
    exit = "clean" => unaddressed = {} /\ (FilesDisagree => nudged_files)

(* An answer some pass finished is delivered even when a later pass fails   *)
(* or runs out of time.                                                     *)
FinishedAnswerKept == exit = "failed" => ~completed

(* All passes together stay within one budget of turns. *)
OneBudget == model_calls <= SANDBOX_MAX_TURNS

(* Past what is gone by now, the sequence s is the beginning of t, and t     *)
(* holds nothing twice.                                                     *)
Extends(s, t, there) ==
    /\ \A i, j \in DOMAIN t : t[i] = t[j] => i = j
    /\ ToSet(s) \cap there \subseteq ToSet(t)
    /\ \A n \in DOMAIN s, j \in DOMAIN t : t[j] = s[n] =>
           \A i \in 1..(j - 1) : \E m \in 1..(n - 1) : s[m] = t[i]

(* The model's input only grows at its end: every call is sent what the call *)
(* before it was sent, each item and each message in its old place, and then *)
(* what came since.  (Only a message that was compacted away leaves.)        *)
TranscriptStable ==
    [][sent' # sent => Extends(sent, sent', Items \cup DOMAIN events)]_sent

(* Between model calls, every message the model decided about has had its   *)
(* reply posted, or the reply is queued for the closing message.            *)
DecisionsAreVisible ==
    pc \in {"ready", "inflight", "final"} \/ exit \in {"clean", "bounded"} =>
        \A s \in DOMAIN events :
            events[s].stage \in {ADDRESSED, RESOLVED} => s \in visible \cup unsent_replies

(* The run ends and the claim is released without help from the outer       *)
(* timeout: refusals, questions and continuations are all bounded.          *)
Terminates == <>(state = CLOSED)

--------------------------------------------------------------------------------
(* Statements of the code's comments that its behaviour does not keep. *)

(* core/main.py: the reaction to an accepted message "means the run WILL    *)
(* see it".                                                                  *)
AcceptedWillBeSeen == state = CLOSED => unpresented = {}

(* run_sandbox_task's finally: "so no message is accepted into a run that   *)
(* can no longer see it".                                                    *)
NothingAcceptedAfterTheEnd == [][revision' # revision => pc # "over"]_vars

(* ask_user: blocking "pauses all other work until they reply (or the wait  *)
(* times out)".                                                              *)
BlockingQuestionPausesWork ==
    [][\A i, j \in DOMAIN calls :
           calls[j].at \in {"running", "waiting"} /\ calls[j].blocking
               => ~GatedCallStarts(i)]_vars

(* The gate "guarantees the message was considered and answered visibly":   *)
(* once every respond_to_updates of the response is over, a gated tool that *)
(* starts finds nothing unanswered.                                          *)
AnsweredBeforeActing ==
    [][\A i \in DOMAIN calls :
           GatedCallStarts(i) /\ (\A j \in DOMAIN calls : calls[j].kind = "respond"
                                                          => calls[j].at = "done")
               => unaddressed' = {}]_vars

================================================================================
