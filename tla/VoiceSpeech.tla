------------------------------ MODULE VoiceSpeech ------------------------------
(***************************************************************************)
(* Hearing and answering in one voice call: the requests that become turns,*)
(* one turn at a time, whose sentences and hold-on lines are spoken in     *)
(* order; "stop" and "leave"; and the sidecar's speech queue, which        *)
(* synthesises one sentence ahead of the one it plays and tells core when  *)
(* each is over.  Two message queues, one each way, join the two.          *)
(***************************************************************************)
EXTENDS Naturals, Sequences, FiniteSets

CONSTANTS
    MaxRequests,    \* bound: requests, numbered as they are heard
    MaxQueued,      \* turns that may wait
    MaxItems,       \* bound on the sentences and hold-on lines of a turn
    MaxOthers,      \* bound on the utterances that are no requests
    Failures        \* what may fail: "model", "option" (a request refused), "speech"

ASSUME SpeechAssumption ==
    /\ MaxRequests \in Nat /\ MaxQueued \in Nat /\ MaxItems \in Nat /\ MaxOthers \in Nat
    /\ Failures \subseteq {"model", "option", "speech"}

Requests == 1 .. MaxRequests
NoTurn == 0
\* What may be played: the chime of a turn is its item 0, its apology the last.
Items == Requests \X (0 .. MaxItems + 1)
WakeChime == <<NoTurn, 0>>
NoItem == WakeChime
Playable == Items \cup {WakeChime}

VARIABLES
    asked, others,  \* utterances so far
    turns,          \* turns that wait
    current,        \* _current_turn, also once it is over
    at,             \* turn -> how far it has come
    put,            \* turn -> items handed to its ordered speech so far
    spoke,          \* it said something in this model call
    latch,          \* _voice_latch: requests ask the server to skip thinking
    option,         \* what the turn's requests do: "ask", "leave_out", or "retry" without it
    emitted,        \* the turn's model wrote something
    speech,         \* turn -> items not sent yet
    writing,        \* hold-on lines still being written
    sent,           \* the item sent whose count is still to come, if any
    pending,        \* turn -> sentences sent and not over
    muted,
    leave_after_turn, ending,
    to_sidecar, to_core,
    items, audio, generation, loop,     \* the sidecar's queue
    played,         \* history: what was played
    silenced        \* history: turns whose stop reached the sidecar

streamVars == <<latch, option, emitted>>
coreVars == <<streamVars, asked, others, turns, current, at, put, spoke, speech, writing, sent,
              pending, muted, leave_after_turn, ending>>
playVars == <<items, audio, generation, loop, played, silenced>>
vars == <<coreVars, to_sidecar, to_core, playVars>>

Working == {"chime", "model", "closing", "goodbye"}

TypeOK ==
    /\ asked \in 0 .. MaxRequests /\ others \in 0 .. MaxOthers
    /\ {spoke, latch, emitted, leave_after_turn, ending} \subseteq BOOLEAN
    /\ option \in {"ask", "leave_out", "retry"}
    /\ turns \in Seq(Requests) /\ Len(turns) <= MaxQueued /\ current \in Requests \cup {NoTurn}
    /\ at \in [Requests -> {"new", "busy", "queued", "over"} \cup Working]
    /\ put \in [Requests -> 0 .. MaxItems] /\ writing \subseteq Items
    /\ \A r \in Requests : speech[r] \in Seq(Items)
    /\ sent \in Items \cup {NoItem} /\ pending \in [Requests -> Nat]
    /\ muted \subseteq Requests /\ silenced \subseteq Requests
    /\ items \in Seq(Playable) /\ audio \in [Playable -> {"none", "coming", "here", "failed"}]
    /\ loop.at \in {"idle", "awaits", "plays"} /\ loop.item \in Playable
    /\ generation \in Nat

Init ==
    /\ asked = 0 /\ others = 0
    /\ turns = << >> /\ current = NoTurn
    /\ at = [r \in Requests |-> "new"] /\ put = [r \in Requests |-> 0]
    /\ latch = TRUE /\ option = "leave_out" /\ emitted = FALSE
    /\ spoke = FALSE /\ speech = [r \in Requests |-> << >>] /\ writing = {} /\ sent = NoItem
    /\ pending = [r \in Requests |-> 0]
    /\ muted = {} /\ leave_after_turn = FALSE /\ ending = FALSE
    /\ to_sidecar = << >> /\ to_core = << >>
    /\ items = << >> /\ audio = [i \in Playable |-> "none"] /\ generation = 0
    /\ loop = [at |-> "idle", item |-> NoItem, generation |-> 0]
    /\ played = << >> /\ silenced = {}

Send(m) == to_sidecar' = Append(to_sidecar, m)

(***************************************************************************)
(* heard()                                                                 *)
(***************************************************************************)
\* The wake phrase with a request, or what its speaker says next.
HearRequest ==
    /\ ~ending /\ asked < MaxRequests
    /\ asked' = asked + 1
    /\ IF Len(turns) < MaxQueued
       THEN turns' = Append(turns, asked') /\ at' = [at EXCEPT ![asked'] = "queued"]
       ELSE UNCHANGED turns /\ at' = [at EXCEPT ![asked'] = "busy"]
    /\ UNCHANGED <<others, streamVars, current, put, spoke, speech, writing, sent, pending, muted,
                   leave_after_turn, ending, to_sidecar, to_core, playVars>>

HearOther == others < MaxOthers /\ ~ending /\ others' = others + 1

HearWakePhrase ==
    /\ HearOther
    /\ Send([type |-> "chime", item |-> WakeChime])
    /\ UNCHANGED <<asked, streamVars, turns, current, at, put, spoke, speech, writing, sent, pending, muted,
                   leave_after_turn, ending, to_core, playVars>>

\* Mutant: only what is queued is stopped.
NothingSilenced == muted

\* The turn's own answer goes on, unheard.
Silenced == muted \cup ({current} \ {NoTurn})

HearStop ==
    /\ HearOther
    /\ muted' = Silenced
    /\ Send([type |-> "stop", item |-> <<current, 0>>])
    /\ UNCHANGED <<asked, streamVars, turns, current, at, put, spoke, speech, writing, sent, pending,
                   leave_after_turn, ending, to_core, playVars>>

\* end(): the waiting turns are dropped, the running one goes on unheard.
EndCall == ending' = TRUE

HearLeave ==
    /\ HearOther /\ EndCall
    /\ UNCHANGED <<asked, streamVars, turns, current, at, put, spoke, speech, writing, sent, pending,
                   muted, leave_after_turn, to_sidecar, to_core, playVars>>

(***************************************************************************)
(* A turn                                                                  *)
(***************************************************************************)
Running == {r \in Requests : at[r] \in Working}

Take ==
    LET r == Head(turns)
    IN  /\ turns # << >> /\ Running = {} /\ ~ending
        /\ turns' = Tail(turns) /\ at' = [at EXCEPT ![r] = "chime"]
        /\ current' = r
        /\ UNCHANGED <<asked, streamVars, others, put, spoke, speech, writing, sent, pending, muted,
                       leave_after_turn, ending, to_sidecar, to_core, playVars>>

\* The settings of a run: it is asked for without thinking while the latch is on.
ModelSettings == option' = IF latch THEN "ask" ELSE "leave_out"

\* Played when the turn starts and not when the request is heard, or it would
\* land in the middle of the answer before it.
Chime(r) ==
    /\ at[r] = "chime"
    /\ at' = [at EXCEPT ![r] = "model"] /\ spoke' = FALSE
    /\ ModelSettings /\ UNCHANGED <<latch, emitted>>
    /\ IF ending THEN UNCHANGED to_sidecar ELSE Send([type |-> "chime", item |-> <<r, 0>>])
    /\ UNCHANGED <<asked, others, turns, current, put, speech, writing, sent, pending,
                   muted, leave_after_turn, ending, to_core, playVars>>

Put(r) ==
    /\ put' = [put EXCEPT ![r] = @ + 1]
    /\ speech' = [speech EXCEPT ![r] = Append(@, <<r, put[r] + 1>>)]

\* The model writes a sentence.
Say(r) ==
    /\ at[r] = "model" /\ put[r] < MaxItems
    /\ Put(r) /\ spoke' = TRUE
    /\ emitted' = TRUE /\ UNCHANGED <<latch, option>>
    /\ UNCHANGED <<asked, others, turns, current, at, writing, sent, pending, muted,
                   leave_after_turn, ending, to_sidecar, to_core, playVars>>

\* It calls a tool: a call it said nothing before gets a hold-on line, written
\* meanwhile. One of the tools leaves the call once the turn is spoken.
CallTool(r) ==
    /\ at[r] = "model" /\ put[r] < MaxItems
    /\ IF spoke THEN UNCHANGED <<put, speech, writing>>
       ELSE Put(r) /\ writing' = writing \cup {<<r, put[r] + 1>>}
    /\ spoke' = TRUE
    /\ leave_after_turn' \in {leave_after_turn, TRUE}
    /\ UNCHANGED <<asked, streamVars, others, turns, current, at, sent, pending, muted, ending,
                   to_sidecar, to_core, playVars>>

NextModelCall(r) ==
    /\ at[r] = "model" /\ spoke /\ spoke' = FALSE
    /\ UNCHANGED <<asked, streamVars, others, turns, current, at, put, speech, writing, sent,
                   pending, muted, leave_after_turn, ending, to_sidecar, to_core, playVars>>

\* A server that refuses a request before anything was written may have refused
\* the option: the whole run is made once more without it, its tools included.
RetriesWithoutOption(r) ==
    /\ "option" \in Failures /\ option = "ask" /\ ~emitted
    /\ option' = "retry"
    /\ UNCHANGED <<at, put, spoke, speech, latch, emitted>>

\* The turn has what it will say; it is sent before the turn is over.
Written(r) ==
    /\ at' = [at EXCEPT ![r] = "closing"] /\ put' = [put EXCEPT ![r] = 0] /\ spoke' = FALSE
    /\ option' = "leave_out" /\ emitted' = FALSE

\* Only a retry that worked shows that the option was what the server refused.
Answers(r) ==
    /\ Written(r) /\ UNCHANGED speech
    /\ latch' = (latch /\ option # "retry")

\* The run failed, and says so.
StreamFails(r) ==
    /\ "model" \in Failures
    /\ Written(r) /\ UNCHANGED latch
    /\ speech' = [speech EXCEPT ![r] = Append(@, <<r, put[r] + 1>>)]

generate_streamed(r) ==
    /\ at[r] = "model"
    /\ RetriesWithoutOption(r) \/ Answers(r) \/ StreamFails(r)
    /\ UNCHANGED <<asked, others, turns, current, writing, sent, pending,
                   muted, leave_after_turn, ending, to_sidecar, to_core, playVars>>

LineWritten(i) ==
    /\ i \in writing /\ writing' = writing \ {i}
    /\ UNCHANGED <<asked, streamVars, others, turns, current, at, put, spoke, speech, sent, pending,
                   muted, leave_after_turn, ending, to_sidecar, to_core, playVars>>

(***************************************************************************)
(* _OrderedSpeech                                                          *)
(***************************************************************************)
\* Mutant: a queue that sends whatever is ready first.
AnyReadyItem(r) == {n \in DOMAIN speech[r] : speech[r][n] \notin writing}

\* The place of the next item, unless its line is still being written.
NextItem(r) == {n \in DOMAIN speech[r] : n = 1 /\ speech[r][n] \notin writing}

Without(s, n) == SubSeq(s, 1, n - 1) \o SubSeq(s, n + 1, Len(s))

SendItem(r) ==
    /\ sent = NoItem
    /\ \E n \in NextItem(r) :
         /\ speech' = [speech EXCEPT ![r] = Without(@, n)]
         /\ IF ending \/ r \in muted
            THEN UNCHANGED <<sent, to_sidecar>>
            ELSE /\ sent' = speech[r][n]
                 /\ Send([type |-> "speak", item |-> speech[r][n]])
    /\ UNCHANGED <<asked, streamVars, others, turns, current, at, put, spoke, writing, pending,
                   muted, leave_after_turn, ending, to_core, playVars>>

\* The send was an await: the sentence is counted after it.
CountItem ==
    /\ sent # NoItem /\ sent' = NoItem
    /\ pending' = [pending EXCEPT ![sent[1]] = @ + 1]
    /\ UNCHANGED <<asked, streamVars, others, turns, current, at, put, spoke, speech, writing,
                   muted, leave_after_turn, ending, to_sidecar, to_core, playVars>>

\* close() returned: everything was sent. A turn that leaves waits for it to
\* be spoken.
Close(r) ==
    /\ at[r] = "closing" /\ speech[r] = << >> /\ sent = NoItem
    /\ at' = [at EXCEPT ![r] = IF leave_after_turn THEN "goodbye" ELSE "over"]
    /\ UNCHANGED <<asked, streamVars, others, turns, current, put, spoke, speech, writing, sent,
                   pending, muted, leave_after_turn, ending, to_sidecar, to_core, playVars>>

\* All of it was spoken; the worker ends the call.
Spoken(r) == pending[r] = 0

GoodbyeSpoken(r) ==
    /\ at[r] = "goodbye" /\ Spoken(r)
    /\ at' = [at EXCEPT ![r] = "over"] /\ EndCall
    /\ UNCHANGED <<asked, streamVars, others, turns, current, put, spoke, speech, writing, sent,
                   pending, muted, leave_after_turn, to_sidecar, to_core, playVars>>

\* GOODBYE_WAIT_SECONDS are over.
GoodbyeTimesOut(r) ==
    /\ at[r] = "goodbye" /\ ~Spoken(r)
    /\ at' = [at EXCEPT ![r] = "over"] /\ EndCall
    /\ UNCHANGED <<asked, streamVars, others, turns, current, put, spoke, speech, writing, sent,
                   pending, muted, leave_after_turn, to_sidecar, to_core, playVars>>

\* Mutant: the turn's chime is counted down too.
AnyPiece(i) == i[1] # NoTurn

\* Chimes are not counted.
Counted(i) == i[1] # NoTurn /\ i[2] # 0

\* on_speech(): a sentence is done or failed. One that was not counted yet is
\* not counted down either.
SpeechEnds ==
    LET r == Head(to_core)[1]
    IN  /\ to_core # << >> /\ to_core' = Tail(to_core)
        /\ pending' = IF Counted(Head(to_core)) /\ pending[r] > 0
                      THEN [pending EXCEPT ![r] = @ - 1] ELSE pending
        /\ UNCHANGED <<asked, streamVars, others, turns, current, at, put, spoke, speech, writing,
                       sent, muted, leave_after_turn, ending, to_sidecar, playVars>>

(***************************************************************************)
(* The sidecar's SpeechQueue                                               *)
(***************************************************************************)
Emit(q) == to_core' = to_core \o q

\* Audio of the head and of the one after it is asked for; a chime has its own.
Prefetched(q) ==
    [i \in Playable |-> IF audio[i] = "none" /\ i \in {q[k] : k \in DOMAIN q \cap {1, 2}}
                        THEN IF i[2] = 0 THEN "here" ELSE "coming"
                        ELSE audio[i]]

\* The loop looks at the head of the queue, or stops.
Look(q) ==
    loop' = IF q = << >> THEN [at |-> "idle", item |-> NoItem, generation |-> 0]
            ELSE [at |-> "awaits", item |-> Head(q), generation |-> generation]

Enqueue ==
    /\ to_sidecar # << >> /\ Head(to_sidecar).type \in {"speak", "chime"}
    /\ to_sidecar' = Tail(to_sidecar)
    /\ items' = Append(items, Head(to_sidecar).item)
    /\ audio' = Prefetched(items')
    /\ IF loop.at = "idle" THEN Look(items') ELSE UNCHANGED loop
    /\ UNCHANGED <<coreVars, to_core, generation, played, silenced>>

\* stop(): what is queued is over at once; what is played ends by itself.
Stop ==
    /\ to_sidecar # << >> /\ Head(to_sidecar).type = "stop"
    /\ to_sidecar' = Tail(to_sidecar)
    /\ generation' = generation + 1
    /\ items' = << >> /\ Emit(items)
    /\ silenced' = silenced \cup ({Head(to_sidecar).item[1]} \ {NoTurn})
    /\ UNCHANGED <<coreVars, audio, loop, played>>

Synthesised(i) ==
    /\ audio[i] = "coming"
    /\ \/ audio' = [audio EXCEPT ![i] = "here"]
       \/ "speech" \in Failures /\ audio' = [audio EXCEPT ![i] = "failed"]
    /\ UNCHANGED <<coreVars, to_sidecar, to_core, items, generation, loop, played, silenced>>

\* Audio the loop waited for while a stop came is not played.
Stale == loop.generation # generation

Resume ==
    /\ loop.at = "awaits" /\ audio[loop.item] \in {"here", "failed"}
    /\ LET rest == IF items = << >> THEN << >> ELSE Tail(items)
       IN  IF Stale
           THEN Look(items) /\ UNCHANGED <<items, audio, to_core, played>>
           ELSE /\ items' = rest /\ audio' = Prefetched(rest)
                /\ IF audio[loop.item] = "failed"
                   THEN Emit(<<loop.item>>) /\ Look(rest) /\ UNCHANGED played
                   ELSE /\ loop' = [loop EXCEPT !.at = "plays"]
                        /\ played' = IF loop.item = WakeChime THEN played
                                     ELSE Append(played, loop.item)
                        /\ UNCHANGED to_core
    /\ UNCHANGED <<coreVars, to_sidecar, generation, silenced>>

PlayEnds ==
    /\ loop.at = "plays"
    /\ Emit(<<loop.item>>) /\ Look(items)
    /\ audio' = [audio EXCEPT ![loop.item] = "none"]
    /\ UNCHANGED <<coreVars, to_sidecar, items, generation, played, silenced>>

Next ==
    \/ HearRequest \/ HearWakePhrase \/ HearStop \/ HearLeave \/ Take
    \/ \E r \in Requests :
         \/ Chime(r) \/ Say(r) \/ CallTool(r) \/ NextModelCall(r) \/ generate_streamed(r)
         \/ SendItem(r) \/ Close(r) \/ GoodbyeSpoken(r) \/ GoodbyeTimesOut(r)
    \/ \E i \in Items : LineWritten(i) \/ Synthesised(i)
    \/ CountItem \/ SpeechEnds
    \/ Enqueue \/ Stop \/ Resume \/ PlayEnds

Spec == Init /\ [][Next]_vars

(***************************************************************************)
(* Properties                                                              *)
(***************************************************************************)
Before(i, j) == i[1] < j[1] \/ (i[1] = j[1] /\ i[2] < j[2])

\* What is played comes in the order it was meant in, each piece at most once:
\* an answer never before its hold-on line, a chime never inside an answer,
\* stopped, failed and slow pieces or not.
SpokenInOrder ==
    \A m, n \in DOMAIN played : m < n => Before(played[m], played[n])

\* Once "stop" has reached the sidecar, no further word of that turn is
\* played, not even what its model writes afterwards.
StopIsFinal ==
    [][\A n \in DOMAIN played' : n > Len(played) /\ played'[n][2] # 0 =>
            played'[n][1] \notin silenced]_vars

\* A goodbye that was not given up on was spoken to its end: of that turn
\* nothing is on the wire, in the sidecar's queue or being played.
Outstanding(r) ==
    \/ \E k \in DOMAIN to_sidecar : to_sidecar[k].type = "speak" /\ to_sidecar[k].item[1] = r
    \/ \E k \in DOMAIN items : items[k][1] = r /\ items[k][2] # 0
    \/ loop.at = "plays" /\ loop.item[1] = r /\ loop.item[2] # 0

GoodbyeIsHeard ==
    \A r \in Requests : at[r] = "goodbye" /\ Outstanding(r) => ~Spoken(r)
================================================================================
