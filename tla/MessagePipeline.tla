--------------------------- MODULE MessagePipeline ---------------------------
(***************************************************************************)
(* From a Discord message to the bot's reply: on_message and the bounded   *)
(* queue, the worker pool, the two phases of a handle under the channel    *)
(* lock with the LLM run between them, the registry of slow tools, double  *)
(* replies and their cooldown, sandbox threads and the copies of their     *)
(* results, the What's New announcement, and the voice gate over it all.   *)
(* One guild, in which a channel and one sandbox thread of it are shown.   *)
(***************************************************************************)
EXTENDS Naturals, Sequences, FiniteSets
LOCAL INSTANCE FiniteSetsExt

CONSTANTS
    Messages,           \* what people post, each once
    ChannelOf,          \* message -> Channel or Thread
    Channel, Thread,    \* a channel, and the thread of its sandbox runs
    Mentions,           \* messages that mention the bot
    Direct,             \* messages without a guild
    Workers,
    NoOne,              \* no worker, no message, no channel
    QUEUE_MAX_SIZE,
    LLM_MAX_TURNS,
    Cooldown,           \* DOUBLE_REPLY_COOLDOWN_REPLIES
    ReplySizes,         \* how many chunks a reply or a copy may have
    MAX_RECENT_DONE,
    MaxCalls,           \* bound on voice calls
    Failures            \* what may go wrong: "discord", "redis", "model", "tool"

ASSUME PipelineAssumption ==
    /\ ChannelOf \in [Messages -> {Channel, Thread}] /\ Channel # Thread
    /\ NoOne \notin Workers \cup Messages \cup {Channel, Thread}
    /\ Mentions \subseteq Messages /\ Direct \subseteq Messages
    /\ ReplySizes \subseteq Nat /\ {QUEUE_MAX_SIZE, LLM_MAX_TURNS} \subseteq Nat \ {0}
    /\ {Cooldown, MAX_RECENT_DONE, MaxCalls} \subseteq Nat

Places == {Channel, Thread}

VARIABLES
    fate,           \* message -> how far it has come
    queue,
    lock,           \* place -> the worker that holds its lock
    work,           \* worker -> the handle it is at
    made,           \* the sandbox thread exists
    run_active,     \* the worker whose sandbox run claims the thread
    in_flight,      \* place -> keys of the slow tools running for it
    recent_done,    \* place -> keys of those that finished lately
    remaining,      \* place -> replies until a pair may be sent again
    seen,           \* Redis: the version last announced in the guild
    in_call,        \* voice_gate.active
    calls,
    posted          \* history: place -> what the bot has sent there

vars == <<fate, queue, lock, work, made, run_active, in_flight, recent_done,
          remaining, seen, in_call, calls, posted>>

Idle == [pc |-> "idle", m |-> NoOne]
At(w, pc) == work[w].pc = pc
Home(w) == ChannelOf[work[w].m]

(***************************************************************************)
(* The registry of slow tools; none of its functions awaits                *)
(***************************************************************************)
register_task_run(c, key) == in_flight' = [in_flight EXCEPT ![c] = @ \cup {key}]

Newest(s) == SubSeq(s, Max({1, Len(s) + 1 - MAX_RECENT_DONE}), Len(s))

\* An unknown key removes nothing; a finished call is noted among the latest.
unregister_task_run(c, key, finish) ==
    /\ in_flight' = [in_flight EXCEPT ![c] = @ \ {key}]
    /\ recent_done' = IF finish /\ key \in in_flight[c]
                      THEN [recent_done EXCEPT ![c] = Newest(Append(@, key))] ELSE recent_done

\* The hint names what runs, and what finished at most RECENT_DONE_SECONDS ago:
\* looking drops what finished earlier.
in_flight_hint(c, running) ==
    /\ running = in_flight[c]
    /\ \E old \in 0 .. Len(recent_done[c]) :
         recent_done' = [recent_done EXCEPT ![c] = SubSeq(@, old + 1, Len(@))]

\* Mutant: no lock.
NeverLocked(c) == TRUE

\* get_channel_lock: nobody builds or sends in the place.
Unlocked(c) == lock[c] = NoOne
TakeLock(w, c) == lock' = [lock EXCEPT ![c] = w]
Release(c) == lock' = [lock EXCEPT ![c] = NoOne]

Unsettled == {"arriving", "queued", "handling"}
Fates == Unsettled \cup
         {"unseen", "steered", "in_call", "ignored", "dropped", "replied", "llm_error", "exception"}

TypeOK ==
    /\ fate \in [Messages -> Fates]
    /\ queue \in Seq(Messages) /\ Len(queue) <= QUEUE_MAX_SIZE
    /\ lock \in [Places -> Workers \cup {NoOne}]
    /\ \A w \in Workers : work[w].m \in Messages \cup {NoOne}
    /\ made \in BOOLEAN /\ in_call \in BOOLEAN
    /\ run_active \in Workers \cup {NoOne}
    /\ remaining \in [Places -> 0 .. Cooldown]
    /\ seen \in {"old", "new"}

Init ==
    /\ fate = [m \in Messages |-> "unseen"]
    /\ queue = << >>
    /\ lock = [c \in Places |-> NoOne]
    /\ work = [w \in Workers |-> Idle]
    /\ made = FALSE /\ run_active = NoOne
    /\ in_flight = [c \in Places |-> {}] /\ recent_done = [c \in Places |-> << >>]
    /\ remaining = [c \in Places |-> 0]
    /\ seen = "old"
    /\ in_call = FALSE /\ calls = 0
    /\ posted = [c \in Places |-> << >>]

InTheCall(m) == in_call /\ m \notin Direct

(***************************************************************************)
(* on_message                                                              *)
(***************************************************************************)
\* A run in the thread takes the message, a call in the guild silences it;
\* else the rules and settings are read, which are awaits.
Receive(m) ==
    /\ fate[m] = "unseen"
    /\ ChannelOf[m] = Thread => made
    /\ fate' = [fate EXCEPT ![m] =
                   IF ChannelOf[m] = Thread /\ run_active # NoOne THEN "steered"
                   ELSE IF InTheCall(m) THEN "in_call" ELSE "arriving"]
    /\ UNCHANGED <<queue, lock, work, made, run_active, in_flight, recent_done, remaining, seen,
                   in_call, calls, posted>>

\* should_handle_message: a mention always, anything else by chance.
Ignore(m) ==
    /\ fate[m] = "arriving" /\ m \notin Mentions
    /\ fate' = [fate EXCEPT ![m] = "ignored"]
    /\ UNCHANGED <<queue, lock, work, made, run_active, in_flight, recent_done, remaining, seen,
                   in_call, calls, posted>>

Enqueue(m) ==
    /\ fate[m] = "arriving"
    /\ IF Len(queue) >= QUEUE_MAX_SIZE
       THEN fate' = [fate EXCEPT ![m] = "dropped"] /\ UNCHANGED queue
       ELSE fate' = [fate EXCEPT ![m] = "queued"] /\ queue' = Append(queue, m)
    /\ UNCHANGED <<lock, work, made, run_active, in_flight, recent_done, remaining, seen,
                   in_call, calls, posted>>

(***************************************************************************)
(* process_messages                                                        *)
(***************************************************************************)
Take(w) ==
    LET m == Head(queue)
    IN  /\ At(w, "idle") /\ queue # << >>
        /\ queue' = Tail(queue)
        /\ IF InTheCall(m)
           THEN fate' = [fate EXCEPT ![m] = "in_call"] /\ UNCHANGED work
           ELSE /\ fate' = [fate EXCEPT ![m] = "handling"]
                /\ work' = [work EXCEPT ![w] =
                     [pc |-> "build", m |-> m, turns |-> 0, tools |-> 0, double |-> FALSE,
                      hint |-> {}, thread |-> FALSE, chunks |-> 0, pair |-> FALSE,
                      outcome |-> "replied", kept |-> "old"]]
        /\ UNCHANGED <<lock, made, run_active, in_flight, recent_done, remaining, seen,
                       in_call, calls, posted>>

\* The handle is over: task_done, and the message has its outcome.
Over(w, outcome) ==
    /\ fate' = [fate EXCEPT ![work[w].m] = outcome]
    /\ work' = [work EXCEPT ![w] = Idle]

(***************************************************************************)
(* Phase 1, under the lock: history, hint and the chance of a double reply *)
(***************************************************************************)
available(c) == remaining[c] = 0

BeginBuild(w) ==
    /\ At(w, "build") /\ Unlocked(Home(w)) /\ TakeLock(w, Home(w))
    /\ work' = [work EXCEPT ![w].pc = "building"]
    /\ UNCHANGED <<fate, queue, made, run_active, in_flight, recent_done, remaining, seen,
                   in_call, calls, posted>>

\* The history is read: hint and chance are those of this moment. The run is
\* then set up for message.guild.id: a direct message has no guild, and its
\* handle ends there.
EndBuild(w) ==
    LET c == Home(w)
    IN  /\ At(w, "building") /\ Release(c)
        /\ \E hint \in SUBSET in_flight[c] :
             /\ in_flight_hint(c, hint)
             /\ IF work[w].m \in Direct
                THEN Over(w, "exception")
                ELSE /\ \E lucky \in BOOLEAN :
                          work' = [work EXCEPT ![w].pc = "llm", ![w].hint = hint,
                                               ![w].double = lucky /\ available(c)]
                     /\ UNCHANGED fate
        /\ UNCHANGED <<queue, made, run_active, in_flight, remaining, seen, in_call,
                       calls, posted>>

\* Discord does not show the history, and the handle ends.
BuildRaises(w) ==
    /\ At(w, "building") /\ "discord" \in Failures
    /\ Release(Home(w)) /\ Over(w, "exception")
    /\ UNCHANGED <<queue, made, run_active, in_flight, recent_done, remaining, seen,
                   in_call, calls, posted>>

(***************************************************************************)
(* Phase 2, without the lock: the turns of the LLM run                     *)
(***************************************************************************)
\* Mutant: one entry for all calls of a tool in a channel.
ToolKey(w) == <<Home(w), 0>>

\* The tool call's id: several calls of one tool are told apart by it.
RunKey(w) == <<work[w].m, work[w].tools>>

\* A turn calls a slow tool. A sandbox run of the channel makes its thread,
\* and claims it unless a run has; on_tool_start registers the call.
CallTool(w) ==
    LET c == Home(w)
        sandboxes == {FALSE} \cup {s \in {TRUE} : run_active = NoOne /\ (c = Thread \/ ~made)}
    IN  /\ At(w, "llm") /\ work[w].turns < LLM_MAX_TURNS
        /\ \E sandbox \in sandboxes :
             /\ made' = (made \/ sandbox)
             /\ run_active' = IF sandbox THEN w ELSE run_active
             /\ work' = [work EXCEPT ![w].pc = "tool", ![w].turns = @ + 1, ![w].hint = {},
                                     ![w].thread = @ \/ sandbox]
        /\ register_task_run(c, RunKey(w))
        /\ UNCHANGED <<fate, queue, lock, recent_done, remaining, seen, in_call, calls, posted>>

\* on_tool_end: a call the SDK reports as failed leaves no finished note.
ToolEnds(w) ==
    LET c == Home(w)
    IN  /\ At(w, "tool")
        /\ \E failed \in {FALSE} \cup (IF "tool" \in Failures THEN {TRUE} ELSE {}) :
             unregister_task_run(c, RunKey(w), ~failed)
        /\ run_active' = IF run_active = w THEN NoOne ELSE run_active
        /\ work' = [work EXCEPT ![w].pc = "llm", ![w].tools = @ + 1]
        /\ UNCHANGED <<fate, queue, lock, made, remaining, seen, in_call, calls, posted>>

\* The answer of a run that used the sandbox is copied to the channel: to a
\* request made there, and to a follow-up made in the thread the bot started.
AfterReply(w) == IF work[w].thread THEN "copy" ELSE "after"

\* An answer: what it comes to in chunks, and whether it is two short parts
\* with a pair marker between them, and no code.
Answers(w) ==
    \E n \in ReplySizes, pair \in BOOLEAN :
        /\ pair => n = 2
        /\ work' = [work EXCEPT ![w].pc = "send", ![w].turns = 0, ![w].tools = 0,
                                ![w].hint = {}, ![w].chunks = n, ![w].pair = pair]

\* The reasoning of a run, when it is shown: no message or, as one, several.
Reasoning == 0 .. 1

\* A run without an answer gets a cross; what it thought is sent under the lock.
Errs(w) ==
    \E n \in Reasoning :
        work' = [work EXCEPT ![w].outcome = "llm_error", ![w].chunks = n, ![w].hint = {},
                             ![w].pc = IF n > 0 THEN "send" ELSE AfterReply(w)]

\* Without the lock a run changes nothing but its own handle.
OwnHandleOnly == UNCHANGED <<fate, queue, lock, made, run_active, in_flight, recent_done,
                             remaining, seen, in_call, calls, posted>>

\* The cross itself cannot be set.
NoCross(w) ==
    /\ At(w, "llm") /\ {"model", "discord"} \subseteq Failures
    /\ Over(w, "exception")
    /\ UNCHANGED <<queue, lock, made, run_active, in_flight, recent_done, remaining, seen,
                   in_call, calls, posted>>

generate(w) ==
    /\ At(w, "llm") /\ work[w].turns < LLM_MAX_TURNS
    /\ Answers(w) \/ ("model" \in Failures /\ Errs(w))
    /\ OwnHandleOnly

\* The turns are used up: a last call, with tools refused, writes the answer. A
\* call that fails or writes no text leaves the run without one.
WrapUp(w) ==
    /\ At(w, "llm") /\ work[w].turns = LLM_MAX_TURNS
    /\ Answers(w) \/ ("model" \in Failures /\ Errs(w))
    /\ OwnHandleOnly

(***************************************************************************)
(* Phase 3, under the lock of the message's channel: the reply             *)
(***************************************************************************)
Target(w) == IF work[w].thread THEN Thread ELSE Home(w)

\* What is posted is noted with the lock it was sent under, and whether its
\* send came back; a send that raises may have posted all the same.
Post(c, w, kind, guard, sure) ==
    posted' = [posted EXCEPT ![c] = Append(@,
                 [by |-> work[w].m, kind |-> kind, guard |-> guard, sure |-> sure])]

SendFails(c, w, kind, guard) ==
    /\ "discord" \in Failures
    /\ Post(c, w, kind, guard, FALSE) \/ UNCHANGED posted

\* Mutant: the cooldown was looked at before the run.
PairAnyway(w) == work[w].double /\ ~work[w].thread

\* The cooldown is looked at again: other replies went out meanwhile.
MayPair(w) == work[w].double /\ ~work[w].thread /\ available(Target(w))

\* Where no pair is allowed its marker is a paragraph break: one reply.
reply_parts(w, allowed) == IF work[w].pair /\ allowed THEN 2 ELSE 1

BeginSend(w) ==
    /\ At(w, "send") /\ Unlocked(Home(w))
    /\ TakeLock(w, Home(w))
    /\ work' = [work EXCEPT ![w].pc = "sending", ![w].pair = reply_parts(w, MayPair(w)) = 2, ![w].double = FALSE]
    /\ UNCHANGED <<fate, queue, made, run_active, in_flight, recent_done, remaining, seen,
                   in_call, calls, posted>>

ReplyKind(w) == IF work[w].pair THEN "pair" ELSE "reply"

\* A chunk goes out; after the first of a pair the cooldown starts.
SendChunk(w) ==
    /\ At(w, "sending") /\ work[w].chunks > 0
    /\ Post(Target(w), w, ReplyKind(w), Home(w), TRUE)
    /\ work' = [work EXCEPT ![w].chunks = @ - 1]
    /\ remaining' = IF work[w].pair /\ work[w].chunks = 2
                    THEN [remaining EXCEPT ![Target(w)] = Cooldown] ELSE remaining
    /\ UNCHANGED <<fate, queue, lock, made, run_active, in_flight, recent_done, seen,
                   in_call, calls>>

\* A send that raises costs the rest of the handle; the lock is released.
SendRaises(w) ==
    /\ At(w, "sending") /\ work[w].chunks > 0
    /\ SendFails(Target(w), w, ReplyKind(w), Home(w))
    /\ Release(Home(w)) /\ Over(w, "exception")
    /\ UNCHANGED <<queue, made, run_active, in_flight, recent_done, remaining, seen,
                   in_call, calls>>

\* A single reply is counted once, and not when it was empty.
Counts(w) ==
    /\ work[w].outcome = "replied" /\ ~work[w].pair
    /\ \E i \in DOMAIN posted[Target(w)] : posted[Target(w)][i].by = work[w].m

EndSend(w) ==
    /\ At(w, "sending") /\ work[w].chunks = 0
    /\ remaining' = IF Counts(w)
                    THEN [remaining EXCEPT ![Target(w)] = IF @ > 0 THEN @ - 1 ELSE 0] ELSE remaining
    /\ Release(Home(w))
    /\ work' = [work EXCEPT ![w].pc = AfterReply(w)]
    /\ UNCHANGED <<fate, queue, made, run_active, in_flight, recent_done, seen,
                   in_call, calls, posted>>

(***************************************************************************)
(* The copy of a sandbox result in the channel, under that channel's lock  *)
(***************************************************************************)
BeginCopy(w) ==
    /\ At(w, "copy") /\ Unlocked(Channel)
    /\ \E n \in ReplySizes :
         IF n = 0
         THEN work' = [work EXCEPT ![w].pc = "after"] /\ UNCHANGED lock
         ELSE /\ work' = [work EXCEPT ![w].pc = "copying", ![w].chunks = n]
              /\ TakeLock(w, Channel)
    /\ UNCHANGED <<fate, queue, made, run_active, in_flight, recent_done, remaining, seen,
                   in_call, calls, posted>>

\* A chunk that cannot be sent costs nothing but itself: that its send raised
\* is noted of none that was posted.
CopyChunk(w) ==
    /\ At(w, "copying") /\ work[w].chunks > 0
    /\ \/ Post(Channel, w, "copy", Channel, TRUE)
       \/ "discord" \in Failures /\ UNCHANGED posted
    /\ work' = [work EXCEPT ![w].chunks = @ - 1]
    /\ UNCHANGED <<fate, queue, lock, made, run_active, in_flight, recent_done, remaining, seen,
                   in_call, calls>>

EndCopy(w) ==
    /\ At(w, "copying") /\ work[w].chunks = 0
    /\ Release(Channel)
    /\ work' = [work EXCEPT ![w].pc = "after"]
    /\ UNCHANGED <<fate, queue, made, run_active, in_flight, recent_done, remaining, seen,
                   in_call, calls, posted>>

(***************************************************************************)
(* maybe_announce_whats_new                                                *)
(***************************************************************************)
\* One SET ... GET claims the version for this handle.
Claim(w) ==
    /\ At(w, "after") /\ work[w].outcome = "replied"
    /\ seen' = "new"
    /\ IF seen = "new"
       THEN Over(w, "replied")
       ELSE work' = [work EXCEPT ![w].pc = "announce", ![w].kept = seen] /\ UNCHANGED fate
    /\ UNCHANGED <<queue, lock, made, run_active, in_flight, recent_done, remaining,
                   in_call, calls, posted>>

\* Redis does not answer: it may have taken the claim, which nobody has then.
ClaimFails(w) ==
    /\ At(w, "after") /\ work[w].outcome = "replied" /\ "redis" \in Failures
    /\ seen' \in {seen, "new"}
    /\ Over(w, "replied")
    /\ UNCHANGED <<queue, lock, made, run_active, in_flight, recent_done, remaining,
                   in_call, calls, posted>>

NothingToAnnounce(w) ==
    /\ At(w, "after") /\ work[w].outcome # "replied"
    /\ Over(w, work[w].outcome)
    /\ UNCHANGED <<queue, lock, made, run_active, in_flight, recent_done, remaining, seen,
                   in_call, calls, posted>>

\* Sent under the lock, so that it never lands between chunks.
BeginAnnounce(w) ==
    /\ At(w, "announce") /\ Unlocked(Home(w)) /\ TakeLock(w, Home(w))
    /\ work' = [work EXCEPT ![w].pc = "announcing"]
    /\ UNCHANGED <<fate, queue, made, run_active, in_flight, recent_done, remaining, seen,
                   in_call, calls, posted>>

Announce(w) ==
    /\ At(w, "announcing") /\ Release(Home(w))
    /\ \/ Post(Home(w), w, "notes", Home(w), TRUE) /\ Over(w, "replied")
       \/ /\ SendFails(Home(w), w, "notes", Home(w))
          /\ work' = [work EXCEPT ![w].pc = "give_back"] /\ UNCHANGED fate
    /\ UNCHANGED <<queue, made, run_active, in_flight, recent_done, remaining, seen,
                   in_call, calls>>

\* Where Redis fails too, the claim stays.
GiveBack(w) ==
    /\ At(w, "give_back")
    /\ seen' = work[w].kept \/ ("redis" \in Failures /\ UNCHANGED seen)
    /\ Over(w, "replied")
    /\ UNCHANGED <<queue, lock, made, run_active, in_flight, recent_done, remaining,
                   in_call, calls, posted>>

(***************************************************************************)
(* Voice calls                                                             *)
(***************************************************************************)
CallBegins ==
    /\ ~in_call /\ calls < MaxCalls
    /\ in_call' = TRUE /\ calls' = calls + 1
    /\ UNCHANGED <<fate, queue, lock, work, made, run_active, in_flight, recent_done, remaining,
                   seen, posted>>

CallEnds ==
    /\ in_call /\ in_call' = FALSE
    /\ UNCHANGED <<fate, queue, lock, work, made, run_active, in_flight, recent_done, remaining,
                   seen, calls, posted>>

Handle(w) ==
    \/ Take(w) \/ BeginBuild(w) \/ EndBuild(w) \/ BuildRaises(w)
    \/ ToolEnds(w) \/ generate(w) \/ WrapUp(w) \/ NoCross(w)
    \/ BeginSend(w) \/ SendChunk(w) \/ SendRaises(w) \/ EndSend(w)
    \/ BeginCopy(w) \/ CopyChunk(w) \/ EndCopy(w)
    \/ Claim(w) \/ ClaimFails(w) \/ NothingToAnnounce(w)
    \/ BeginAnnounce(w) \/ Announce(w) \/ GiveBack(w)

Next ==
    \/ \E m \in Messages : Receive(m) \/ Ignore(m) \/ Enqueue(m)
    \/ \E w \in Workers : Handle(w) \/ CallTool(w)
    \/ CallBegins \/ CallEnds

Spec == Init /\ [][Next]_vars

(***************************************************************************)
(* Properties                                                              *)
(***************************************************************************)
\* What is sent to a channel under its lock stays together: between two posts
\* of one reply, copy or announcement there is none of another.
SendsStayTogether(guards(_, _)) ==
    \A c \in Places : \A i, j, k \in DOMAIN posted[c] :
        LET Unit(p) == <<p.by, p.kind>>
        IN  /\ i < j /\ j < k
            /\ guards(c, posted[c][i]) /\ guards(c, posted[c][j])
            /\ Unit(posted[c][i]) = Unit(posted[c][k])
            => Unit(posted[c][j]) = Unit(posted[c][i])

UnderItsLock(c, p) == p.guard = c
RepliesStayTogether == SendsStayTogether(UnderItsLock)

\* message_queue: "same-channel chunk sends" do not interleave; also in a thread, where the reply
\* to a request of the channel is sent under the channel's lock.
UnderAnyLock(c, p) == TRUE
ThreadRepliesStayTogether == SendsStayTogether(UnderAnyLock)

\* Between two double replies of a channel there are Cooldown single ones. A
\* first half whose send raised ends its handle: it is no double reply.
Starts(s) ==
    {i \in DOMAIN s : s[i].kind = "pair" /\ s[i].sure /\ (i = 1 \/ s[i - 1].by # s[i].by)}

Singles(s, i, j) == {s[n].by : n \in {n \in i .. j : s[n].kind = "reply"}}

Spaced(s) == \A i, j \in Starts(s) : i < j => Cardinality(Singles(s, i, j)) >= Cooldown

\* ReplyPolicy: "The send lock must guard the cooldown recheck and updates". So
\* it does where all that was posted was posted under the place's own lock:
\* in a channel always.
PairsAreSpaced ==
    \A c \in Places : (\A i \in DOMAIN posted[c] : posted[c][i].guard = c) => Spaced(posted[c])

\* The same for a thread that a reply to a request of the channel was sent to,
\* which counts the thread's cooldown down under the channel's lock.
ThreadPairsAreSpaced == Spaced(posted[Thread])

Announcing(w) == work[w].pc \in {"announce", "announcing", "give_back"}

\* Where a version was announced; surely, where the send came back.
Notes == UNION {{c} \X {i \in DOMAIN posted[c] : posted[c][i].kind = "notes"} : c \in Places}
SureNotes == {n \in Notes : posted[n[1]][n[2]].sure}

\* "so two workers handling the same guild at once cannot both post it": one at
\* a time announces a version; once an announcement has come back there is no
\* other, and nobody begins one again; and a version that counts as announced,
\* while nobody is at it, was, as long as Redis answers.
AnnouncedOnce ==
    /\ \A v, w \in Workers : Announcing(v) /\ Announcing(w) => v = w
    /\ \A p, q \in SureNotes : p = q
    /\ SureNotes # {} => seen = "new" /\ \A w \in Workers : ~Announcing(w)
    /\ "redis" \notin Failures /\ seen = "new" /\ (\A w \in Workers : ~Announcing(w)) =>
         SureNotes # {}

\* "Posts this version's What's New embed ... the first time a guild triggers
\* the bot on it": a guild is shown it once. Not so: a send that raises may have
\* posted it, the claim is given back, and the next reply announces it again.
ToldOnce == \A p, q \in Notes : p = q

\* A prompt names the slow tools that run for other messages of its channel,
\* all of them and no others.
HintNamesWhatRuns ==
    [][\A w \in Workers : At(w, "building") /\ work'[w].pc = "llm" =>
         work'[w].hint = {<<work[v].m, work[v].tools>> :
                            v \in {v \in Workers : At(v, "tool") /\ Home(v) = Home(w)}}]_vars

\* "The lock is never held across an LLM/tool await": a place's lock is held by
\* a worker exactly while that worker reads the place's history for a prompt or
\* sends under the lock, a reply, an announcement or a copy. So no handle waits
\* for a lock, a model or a tool with a lock in hand, none that ends or fails
\* leaves one locked, and handles never wait for each other in a ring.
Holds(w, c) ==
    \/ work[w].pc \in {"building", "sending", "announcing"} /\ Home(w) = c
    \/ At(w, "copying") /\ c = Channel

HoldersReadOrSend == \A c \in Places, w \in Workers : lock[c] = w <=> Holds(w, c)

\* What voice_gate says of the calls, and a handle already at work does not keep:
\* "never talks in text and voice in one guild at once"
SilentInCalls ==
    [][in_call /\ in_call' => posted' = posted]_vars
==============================================================================
