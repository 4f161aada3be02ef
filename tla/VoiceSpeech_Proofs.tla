--------------------------- MODULE VoiceSpeech_Proofs ---------------------------
(***************************************************************************)
(* What VoiceSpeech keeps for any number of requests, pieces and           *)
(* utterances, whatever fails: pieces are played in the order they were    *)
(* meant in and once, a stopped turn stays silent, and a goodbye is waited *)
(* for until it was spoken. And what VoiceCall keeps for any number of     *)
(* calls, one after the other and across every fault: the gate and the     *)
(* call agree whenever nothing is under way.                               *)
(***************************************************************************)
EXTENDS VoiceSpeech, VoiceCall, TLAPS, FiniteSetTheorems

Message == [type : {"speak", "chime", "stop"}, item : Playable]

(* TypeOK with what the queues hold. *)
Typed ==
    /\ asked \in 0 .. MaxRequests /\ others \in 0 .. MaxOthers
    /\ {spoke, latch, emitted, leave_after_turn, ending} \subseteq BOOLEAN
    /\ option \in {"ask", "leave_out", "retry"}
    /\ turns \in Seq(Requests) /\ Len(turns) <= MaxQueued /\ current \in Requests \cup {NoTurn}
    /\ at \in [Requests -> {"new", "busy", "queued", "over"} \cup Working]
    /\ put \in [Requests -> 0 .. MaxItems] /\ writing \subseteq Items
    /\ speech \in [Requests -> Seq(Items)]
    /\ sent \in Items \cup {NoItem} /\ pending \in [Requests -> Nat]
    /\ muted \subseteq Requests /\ silenced \subseteq Requests
    /\ items \in Seq(Playable)
    /\ audio \in [Playable -> {"none", "coming", "here", "failed"}]
    /\ loop \in [at : {"idle", "awaits", "plays"}, item : Playable, generation : Nat]
    /\ generation \in Nat
    /\ to_sidecar \in Seq(Message) /\ to_core \in Seq(Playable) /\ played \in Seq(Items)

--------------------------------------------------------------------------------
(* Types. *)

LEMMA Numbers ==
    ASSUME SpeechAssumption
    PROVE  /\ MaxRequests \in Nat /\ MaxQueued \in Nat /\ MaxItems \in Nat /\ MaxOthers \in Nat
           /\ \A r \in Requests : r \in Nat /\ r # NoTurn /\ r >= 1 /\ r <= MaxRequests
           /\ NoTurn \notin Requests
           /\ \A r \in Requests : <<r, 0>> \in Items
           /\ WakeChime \notin Items /\ WakeChime \in Playable /\ Items \subseteq Playable
           /\ \A i \in Playable : i[1] \in Nat /\ i[2] \in Nat /\ i = <<i[1], i[2]>>
           /\ \A i \in Playable : i # WakeChime => i \in Items /\ i[1] \in Requests
           /\ \A i \in Items : i[1] \in Requests /\ i[2] \in 0 .. MaxItems + 1
<1>1. MaxRequests \in Nat /\ MaxQueued \in Nat /\ MaxItems \in Nat /\ MaxOthers \in Nat
    BY DEF SpeechAssumption
<1>2. \A r \in Requests : r \in Nat /\ r # NoTurn /\ r >= 1 /\ r <= MaxRequests
    BY <1>1 DEF Requests, NoTurn
<1>3. \A i \in Items : i[1] \in Requests /\ i[2] \in 0 .. MaxItems + 1 /\ i = <<i[1], i[2]>>
    BY DEF Items
<1>4. WakeChime[1] = NoTurn /\ WakeChime[2] = 0 /\ WakeChime = <<WakeChime[1], WakeChime[2]>>
      /\ NoTurn \in Nat
    BY DEF WakeChime, NoTurn
<1>5. WakeChime \notin Items
    BY <1>2, <1>3, <1>4
<1>6. \A r \in Requests : <<r, 0>> \in Items
    BY <1>1 DEF Items
<1>7. \A i \in Items : i[2] \in Nat
    BY <1>1, <1>3
<1> QED
    BY <1>1, <1>2, <1>3, <1>4, <1>5, <1>6, <1>7 DEF Playable

LEMMA TypedInitially == ASSUME Init, SpeechAssumption PROVE Typed
<1>1. NoItem \in Playable
    BY Numbers DEF NoItem
<1>2. audio \in [Playable -> {"none", "coming", "here", "failed"}]
    BY DEF Init
<1>3. put \in [Requests -> 0 .. MaxItems] /\ asked \in 0 .. MaxRequests /\ Len(turns) <= MaxQueued
      /\ others \in 0 .. MaxOthers
    BY Numbers DEF Init
<1>4. loop \in [at : {"idle", "awaits", "plays"}, item : Playable, generation : Nat]
    BY <1>1 DEF Init
<1>5. /\ turns \in Seq(Requests) /\ items \in Seq(Playable) /\ to_sidecar \in Seq(Message)
      /\ to_core \in Seq(Playable) /\ played \in Seq(Items) /\ speech \in [Requests -> Seq(Items)]
    BY DEF Init
<1> QED
    BY <1>2, <1>3, <1>4, <1>5 DEF Init, Typed, NoTurn

LEMMA SendTyped ==
    ASSUME Typed, NEW m \in Message, Send(m) PROVE to_sidecar' \in Seq(Message)
    BY DEF Typed, Send

LEMMA PutTyped ==
    ASSUME Typed, NEW r \in Requests, Put(r), put[r] < MaxItems, SpeechAssumption
    PROVE  /\ put' \in [Requests -> 0 .. MaxItems] /\ speech' \in [Requests -> Seq(Items)]
           /\ <<r, put[r] + 1>> \in Items
<1>1. put[r] + 1 \in 0 .. MaxItems /\ put[r] + 1 \in 0 .. MaxItems + 1
  <2>1. MaxItems \in Nat /\ put[r] \in 0 .. MaxItems
      BY Numbers DEF Typed
  <2> QED
      BY <2>1
<1>2. <<r, put[r] + 1>> \in Items
    BY <1>1 DEF Items
<1>3. Append(speech[r], <<r, put[r] + 1>>) \in Seq(Items)
    BY <1>2 DEF Typed
<1> QED
    BY <1>1, <1>2, <1>3 DEF Put, Typed

(* Where the next item stands first, taking it out leaves the others.       *)
LEMMA TakesFirst ==
    ASSUME NEW S, NEW s \in Seq(S), s # << >>
    PROVE  Without(s, 1) = Tail(s) /\ Tail(s) \in Seq(S)
<1>1. SubSeq(s, 1, 1 - 1) = << >>
    OBVIOUS
<1>2. SubSeq(s, 1 + 1, Len(s)) = Tail(s) /\ Tail(s) \in Seq(S)
    OBVIOUS
<1>3. << >> \o Tail(s) = Tail(s)
    BY <1>2
<1> QED
    BY <1>1, <1>2, <1>3 DEF Without

LEMMA Sends ==
    ASSUME Typed, NEW r \in Requests, SendItem(r)
    PROVE  /\ speech[r] # << >> /\ sent = NoItem /\ Head(speech[r]) \in Items
           /\ speech' = [speech EXCEPT ![r] = Tail(@)] /\ Tail(speech[r]) \in Seq(Items)
           /\ \/ UNCHANGED <<sent, to_sidecar>>
              \/ /\ ~ending /\ r \notin muted /\ sent' = Head(speech[r])
                 /\ Send([type |-> "speak", item |-> Head(speech[r])])
<1>1. PICK n \in NextItem(r) :
         /\ speech' = [speech EXCEPT ![r] = Without(@, n)]
         /\ IF ending \/ r \in muted
            THEN UNCHANGED <<sent, to_sidecar>>
            ELSE /\ sent' = speech[r][n]
                 /\ Send([type |-> "speak", item |-> speech[r][n]])
    BY DEF SendItem
<1>2. n = 1 /\ 1 \in DOMAIN speech[r] /\ speech[r] \in Seq(Items) /\ sent = NoItem
    BY DEF NextItem, Typed, SendItem
<1>3. speech[r] # << >> /\ Head(speech[r]) = speech[r][1] /\ Head(speech[r]) \in Items
    BY <1>2
<1>4. Without(speech[r], 1) = Tail(speech[r]) /\ Tail(speech[r]) \in Seq(Items)
    BY <1>2, <1>3, TakesFirst
<1> QED
    BY <1>1, <1>2, <1>3, <1>4

LEMMA LookTyped ==
    ASSUME Typed, NEW q \in Seq(Playable), Look(q), SpeechAssumption
    PROVE  loop' \in [at : {"idle", "awaits", "plays"}, item : Playable, generation : Nat]
<1>1. NoItem \in Playable /\ generation \in Nat
    BY Numbers DEF NoItem, Typed
<1>2. CASE q = << >>
    BY <1>1, <1>2 DEF Look
<1>3. CASE q # << >>
  <2>1. Head(q) \in Playable
      BY <1>3
  <2> QED
      BY <1>1, <1>3, <2>1 DEF Look
<1> QED
    BY <1>2, <1>3

LEMMA PrefetchedTyped ==
    ASSUME Typed, NEW q
    PROVE  Prefetched(q) \in [Playable -> {"none", "coming", "here", "failed"}]
<1>1. \A i \in Playable : audio[i] \in {"none", "coming", "here", "failed"}
    BY DEF Typed
<1> QED
    BY <1>1 DEF Prefetched

(* The steps of core, and those of the sidecar.                             *)
CoreTyped ==
    /\ asked \in 0 .. MaxRequests /\ others \in 0 .. MaxOthers
    /\ {spoke, latch, emitted, leave_after_turn, ending} \subseteq BOOLEAN
    /\ option \in {"ask", "leave_out", "retry"}
    /\ turns \in Seq(Requests) /\ Len(turns) <= MaxQueued /\ current \in Requests \cup {NoTurn}
    /\ at \in [Requests -> {"new", "busy", "queued", "over"} \cup Working]
    /\ put \in [Requests -> 0 .. MaxItems] /\ writing \subseteq Items
    /\ speech \in [Requests -> Seq(Items)]
    /\ sent \in Items \cup {NoItem} /\ pending \in [Requests -> Nat] /\ muted \subseteq Requests

PlayTyped ==
    /\ silenced \subseteq Requests /\ items \in Seq(Playable)
    /\ audio \in [Playable -> {"none", "coming", "here", "failed"}]
    /\ loop \in [at : {"idle", "awaits", "plays"}, item : Playable, generation : Nat]
    /\ generation \in Nat /\ played \in Seq(Items)

LEMMA TypedParts ==
    Typed <=> /\ CoreTyped /\ PlayTyped
              /\ to_sidecar \in Seq(Message) /\ to_core \in Seq(Playable)
    BY DEF Typed, CoreTyped, PlayTyped

LEMMA PartsTyped ==
    ASSUME CoreTyped', PlayTyped', to_sidecar' \in Seq(Message), to_core' \in Seq(Playable)
    PROVE  Typed'
    BY DEF Typed, CoreTyped, PlayTyped

LEMMA PlayKeeps == ASSUME PlayTyped, UNCHANGED playVars PROVE PlayTyped'
    BY DEF PlayTyped, playVars

LEMMA CoreKeeps == ASSUME CoreTyped, UNCHANGED coreVars PROVE CoreTyped'
    BY DEF CoreTyped, coreVars, streamVars

LEMMA TypedStep == ASSUME Typed, [Next]_vars, SpeechAssumption PROVE Typed'
<1> USE SpeechAssumption
<1>t. CoreTyped /\ PlayTyped /\ to_sidecar \in Seq(Message) /\ to_core \in Seq(Playable)
    BY TypedParts
<1>c. \A i \in Playable : [type |-> "chime", item |-> i] \in Message
                          /\ [type |-> "stop", item |-> i] \in Message
                          /\ [type |-> "speak", item |-> i] \in Message
    BY DEF Message
<1>n. /\ WakeChime \in Playable /\ \A r \in Requests \cup {NoTurn} : <<r, 0>> \in Playable
    BY Numbers DEF Playable, WakeChime
<1>1. CASE HearRequest
  <2>1. asked' \in 0 .. MaxRequests /\ asked' \in Requests
    <3>1. asked \in 0 .. MaxRequests /\ MaxRequests \in Nat /\ asked < MaxRequests /\ asked' = asked + 1
        BY <1>1, Numbers DEF HearRequest, Typed
    <3> QED
        BY <3>1 DEF Requests
  <2>2. turns' \in Seq(Requests) /\ Len(turns') <= MaxQueued
    <3>1. turns \in Seq(Requests) /\ Len(turns) <= MaxQueued /\ MaxQueued \in Nat
        BY Numbers DEF Typed
    <3>2. turns' = turns \/ (Len(turns) < MaxQueued /\ turns' = Append(turns, asked'))
        BY <1>1 DEF HearRequest
    <3> QED
        BY <2>1, <3>1, <3>2
  <2>3. at' \in [Requests -> {"new", "busy", "queued", "over"} \cup Working]
      BY <1>1, <2>1 DEF HearRequest, Typed
  <2>4. CoreTyped'
      BY <1>1, <1>t, <2>1, <2>2, <2>3 DEF CoreTyped, HearRequest, streamVars
  <2> QED
      BY <1>1, <1>t, <2>4, PartsTyped, PlayKeeps DEF HearRequest
<1>2. CASE HearWakePhrase \/ HearStop \/ HearLeave
  <2>1. CoreTyped'
    <3>1. UNCHANGED muted \/ muted' = Silenced
        BY <1>2 DEF HearWakePhrase, HearStop, HearLeave
    <3>2. muted' \subseteq Requests
        BY <3>1, <1>t DEF CoreTyped, Silenced
    <3>3. ending' \in {ending, TRUE}
        BY <1>2 DEF HearWakePhrase, HearStop, HearLeave, EndCall
    <3>4. others' \in 0 .. MaxOthers
      <4>1. others \in 0 .. MaxOthers /\ MaxOthers \in Nat /\ others < MaxOthers /\ others' = others + 1
          BY <1>2, <1>t, Numbers DEF CoreTyped, HearWakePhrase, HearStop, HearLeave, HearOther
      <4> QED
          BY <4>1
    <3> QED
        BY <1>2, <1>t, <3>2, <3>3, <3>4 DEF CoreTyped, HearWakePhrase, HearStop, HearLeave, streamVars
  <2>2. to_sidecar' \in Seq(Message)
    <3>1. UNCHANGED to_sidecar \/ \E m \in Message : Send(m)
        BY <1>2, <1>c, <1>n, <1>t DEF HearWakePhrase, HearStop, HearLeave, CoreTyped
    <3> QED
        BY <3>1, <1>t, SendTyped
  <2> QED
      BY <1>2, <1>t, <2>1, <2>2, PartsTyped, PlayKeeps DEF HearWakePhrase, HearStop, HearLeave
<1>3. CASE Take
  <2>1. Head(turns) \in Requests /\ Tail(turns) \in Seq(Requests) /\ Len(Tail(turns)) <= MaxQueued
    <3>1. turns \in Seq(Requests) /\ Len(turns) <= MaxQueued /\ turns # << >> /\ MaxQueued \in Nat
        BY <1>3, Numbers DEF Take, Typed
    <3>2. Len(Tail(turns)) = Len(turns) - 1 /\ Len(turns) \in Nat
        BY <3>1
    <3> QED
        BY <3>1, <3>2
  <2>2. at' \in [Requests -> {"new", "busy", "queued", "over"} \cup Working]
      BY <1>3, <2>1 DEF Take, Typed, Working
  <2>3. CoreTyped'
      BY <1>3, <1>t, <2>1, <2>2 DEF Take, CoreTyped, streamVars
  <2> QED
      BY <1>3, <1>t, <2>3, PartsTyped, PlayKeeps DEF Take
<1>4. ASSUME NEW r \in Requests, Chime(r) PROVE Typed'
  <2>1. CoreTyped'
      BY <1>4, <1>t DEF Chime, CoreTyped, streamVars, ModelSettings, Working
  <2>2. to_sidecar' \in Seq(Message)
    <3>1. UNCHANGED to_sidecar \/ \E m \in Message : Send(m)
        BY <1>4, <1>c, <1>n DEF Chime
    <3> QED
        BY <3>1, <1>t, SendTyped
  <2> QED
      BY <1>4, <1>t, <2>1, <2>2, PartsTyped, PlayKeeps DEF Chime
<1>5. ASSUME NEW r \in Requests, Say(r) \/ CallTool(r) \/ NextModelCall(r) PROVE Typed'
  <2>1. CoreTyped'
    <3>1. CASE Put(r) /\ put[r] < MaxItems
      <4>1. /\ put' \in [Requests -> 0 .. MaxItems] /\ speech' \in [Requests -> Seq(Items)]
            /\ <<r, put[r] + 1>> \in Items
          BY <3>1, PutTyped
      <4>2. writing' \subseteq writing \cup {<<r, put[r] + 1>>}
          BY <1>5 DEF Say, CallTool, NextModelCall
      <4>3. writing' \subseteq Items
          BY <4>1, <4>2, <1>t DEF CoreTyped
      <4> QED
          BY <1>5, <1>t, <4>1, <4>3 DEF Say, CallTool, NextModelCall, CoreTyped, streamVars
    <3>2. CASE UNCHANGED <<put, speech, writing>>
        BY <1>5, <1>t, <3>2 DEF Say, CallTool, NextModelCall, CoreTyped, streamVars
    <3> QED
        BY <1>5, <3>1, <3>2 DEF Say, CallTool, NextModelCall
  <2> QED
      BY <1>5, <1>t, <2>1, PartsTyped, PlayKeeps DEF Say, CallTool, NextModelCall
<1>6. ASSUME NEW r \in Requests, generate_streamed(r) PROVE Typed'
  <2>1. speech' \in [Requests -> Seq(Items)]
    <3>1. put[r] + 1 \in 0 .. MaxItems + 1
      <4>1. MaxItems \in Nat /\ put[r] \in 0 .. MaxItems
          BY Numbers DEF Typed
      <4> QED
          BY <4>1
    <3>2. Append(speech[r], <<r, put[r] + 1>>) \in Seq(Items)
      <4>1. <<r, put[r] + 1>> \in Items
          BY <3>1 DEF Items
      <4> QED
          BY <4>1 DEF Typed
    <3>3. speech' = speech \/ speech' = [speech EXCEPT ![r] = Append(@, <<r, put[r] + 1>>)]
        BY <1>6 DEF generate_streamed, RetriesWithoutOption, Answers, StreamFails
    <3> QED
        BY <3>2, <3>3 DEF Typed
  <2>2. put' \in [Requests -> 0 .. MaxItems]
    <3>1. 0 \in 0 .. MaxItems
        BY Numbers
    <3> QED
        BY <1>6, <1>t, <3>1 DEF generate_streamed, RetriesWithoutOption, Answers, StreamFails, Written,
                CoreTyped
  <2>3. at' \in [Requests -> {"new", "busy", "queued", "over"} \cup Working]
      BY <1>6, <1>t DEF generate_streamed, RetriesWithoutOption, Answers, StreamFails, Written,
                CoreTyped, Working
  <2>4. /\ {spoke, latch, emitted, leave_after_turn, ending}' \subseteq BOOLEAN
        /\ option' \in {"ask", "leave_out", "retry"}
    <3>1. {spoke, latch, emitted, leave_after_turn, ending} \subseteq BOOLEAN
        BY <1>t DEF CoreTyped
    <3>2. spoke' \in {spoke, FALSE} /\ emitted' \in {emitted, FALSE} /\ option' \in {"leave_out", "retry"}
          /\ leave_after_turn' = leave_after_turn /\ ending' = ending
        BY <1>6 DEF generate_streamed, RetriesWithoutOption, Answers, StreamFails, Written
    <3>3. latch' \in {latch, latch /\ option # "retry"}
        BY <1>6 DEF generate_streamed, RetriesWithoutOption, Answers, StreamFails, Written
    <3> QED
        BY <3>1, <3>2, <3>3
  <2>5. CoreTyped'
      BY <1>6, <1>t, <2>1, <2>2, <2>3, <2>4 DEF CoreTyped, generate_streamed
  <2> QED
      BY <1>6, <1>t, <2>5, PartsTyped, PlayKeeps DEF generate_streamed
<1>7. ASSUME NEW r \in Requests, SendItem(r) PROVE Typed'
  <2>1. speech' \in [Requests -> Seq(Items)] /\ sent' \in Items \cup {NoItem}
      BY <1>7, <1>t, Sends DEF CoreTyped
  <2>2. CoreTyped'
      BY <1>7, <1>t, <2>1 DEF CoreTyped, SendItem, streamVars
  <2>3. to_sidecar' \in Seq(Message)
    <3>1. UNCHANGED to_sidecar \/ \E m \in Message : Send(m)
        BY <1>7, <1>c, Sends, Numbers
    <3> QED
        BY <3>1, <1>t, SendTyped
  <2> QED
      BY <1>7, <1>t, <2>2, <2>3, PartsTyped, PlayKeeps DEF SendItem
<1>8. ASSUME NEW r \in Requests, Close(r) \/ GoodbyeSpoken(r) \/ GoodbyeTimesOut(r) PROVE Typed'
  <2>1. \E pc \in {"goodbye", "over"} : at' = [at EXCEPT ![r] = pc]
      BY <1>8 DEF Close, GoodbyeSpoken, GoodbyeTimesOut
  <2>2. at' \in [Requests -> {"new", "busy", "queued", "over"} \cup Working] /\ ending' \in {ending, TRUE}
      BY <1>8, <2>1, <1>t DEF Close, GoodbyeSpoken, GoodbyeTimesOut, CoreTyped, Working, EndCall
  <2>3. CoreTyped'
      BY <1>8, <1>t, <2>2 DEF CoreTyped, Close, GoodbyeSpoken, GoodbyeTimesOut, streamVars
  <2> QED
      BY <1>8, <1>t, <2>3, PartsTyped, PlayKeeps DEF Close, GoodbyeSpoken, GoodbyeTimesOut
<1>9. ASSUME NEW i \in Items, LineWritten(i) PROVE Typed'
  <2>1. CoreTyped'
      BY <1>9, <1>t DEF CoreTyped, LineWritten, streamVars
  <2> QED
      BY <1>9, <1>t, <2>1, PartsTyped, PlayKeeps DEF LineWritten
<1>10. ASSUME NEW i \in Items, Synthesised(i) PROVE Typed'
  <2>1. PlayTyped'
      BY <1>10, <1>t DEF PlayTyped, Synthesised
  <2> QED
      BY <1>10, <1>t, <2>1, PartsTyped, CoreKeeps DEF Synthesised
<1>11. CASE CountItem
  <2>1. sent \in Items /\ sent[1] \in Requests
      BY <1>11, <1>t, Numbers DEF CountItem, CoreTyped
  <2>2. CoreTyped'
    <3>1. pending' \in [Requests -> Nat]
        BY <1>11, <1>t, <2>1, SMTT(30) DEF CoreTyped, CountItem
    <3> QED
        BY <1>11, <1>t, <3>1 DEF CoreTyped, CountItem, streamVars
  <2> QED
      BY <1>11, <1>t, <2>2, PartsTyped, PlayKeeps DEF CountItem
<1>12. CASE SpeechEnds
  <2>1. Tail(to_core) \in Seq(Playable) /\ Head(to_core) \in Playable
      BY <1>12, <1>t DEF SpeechEnds
  <2>2. pending' \in [Requests -> Nat]
    <3>1. pending \in [Requests -> Nat]
        BY <1>t DEF CoreTyped
    <3>2. \/ pending' = pending
          \/ \E r : pending[r] > 0 /\ pending' = [pending EXCEPT ![r] = @ - 1]
        BY <1>12 DEF SpeechEnds
    <3> QED
        BY <3>1, <3>2
  <2>3. CoreTyped'
      BY <1>12, <1>t, <2>2 DEF CoreTyped, SpeechEnds, streamVars
  <2> QED
      BY <1>12, <1>t, <2>1, <2>3, PartsTyped, PlayKeeps DEF SpeechEnds
<1>13. CASE Enqueue
  <2>1. Head(to_sidecar) \in Message /\ Tail(to_sidecar) \in Seq(Message)
      BY <1>13, <1>t DEF Enqueue
  <2>2. items' \in Seq(Playable)
      BY <1>13, <1>t, <2>1 DEF Enqueue, Message, PlayTyped
  <2>3. audio' \in [Playable -> {"none", "coming", "here", "failed"}]
      BY <1>13, PrefetchedTyped DEF Enqueue
  <2>4. loop' \in [at : {"idle", "awaits", "plays"}, item : Playable, generation : Nat]
      BY <1>13, <1>t, <2>2, LookTyped DEF Enqueue, PlayTyped
  <2>5. PlayTyped'
      BY <1>13, <1>t, <2>2, <2>3, <2>4 DEF Enqueue, PlayTyped
  <2> QED
      BY <1>13, <1>t, <2>1, <2>5, PartsTyped, CoreKeeps DEF Enqueue
<1>14. CASE Stop
  <2>1. Head(to_sidecar) \in Message /\ Tail(to_sidecar) \in Seq(Message)
      BY <1>14, <1>t DEF Stop
  <2>2. to_core' \in Seq(Playable) /\ items' \in Seq(Playable)
      BY <1>14, <1>t DEF Stop, Emit, PlayTyped
  <2>3. Head(to_sidecar).item[1] \in Requests \cup {NoTurn}
    <3>1. Head(to_sidecar).item \in Playable
        BY <2>1 DEF Message
    <3> QED
        BY <3>1, Numbers DEF Playable, WakeChime
  <2>4. PlayTyped'
      BY <1>14, <1>t, <2>2, <2>3 DEF Stop, PlayTyped
  <2> QED
      BY <1>14, <1>t, <2>1, <2>2, <2>4, PartsTyped, CoreKeeps DEF Stop
<1>15. CASE Resume
  <2> DEFINE rest == IF items = << >> THEN << >> ELSE Tail(items)
  <2>1. rest \in Seq(Playable)
      BY <1>t DEF PlayTyped
  <2>2. loop.item # WakeChime => loop.item \in Items
      BY <1>t, Numbers DEF PlayTyped
  <2>3. items' \in Seq(Playable) /\ UNCHANGED <<coreVars, to_sidecar, generation, silenced>>
        /\ audio' \in [Playable -> {"none", "coming", "here", "failed"}]
    <3>1. items' \in {items, rest} /\ (audio' = audio \/ audio' = Prefetched(rest))
          /\ UNCHANGED <<coreVars, to_sidecar, generation, silenced>>
        BY <1>15 DEF Resume
    <3> QED
        BY <3>1, <2>1, <1>t, PrefetchedTyped DEF PlayTyped
  <2>4. loop' \in [at : {"idle", "awaits", "plays"}, item : Playable, generation : Nat]
    <3>1. Look(items) \/ Look(rest) \/ loop' = [loop EXCEPT !.at = "plays"]
        BY <1>15 DEF Resume
    <3>2. loop' = [loop EXCEPT !.at = "plays"] =>
              loop' \in [at : {"idle", "awaits", "plays"}, item : Playable, generation : Nat]
        BY <1>t DEF PlayTyped
    <3> HIDE DEF rest
    <3> QED
        BY <3>1, <3>2, <2>1, <1>t, LookTyped DEF PlayTyped
  <2>5. played' \in Seq(Items)
    <3>1. played' = played \/ (loop.item # WakeChime /\ played' = Append(played, loop.item))
        BY <1>15 DEF Resume
    <3>2. played \in Seq(Items) /\ (loop.item # WakeChime => loop.item \in Items)
        BY <2>2, <1>t DEF PlayTyped
    <3> QED
        BY <3>1, <3>2
  <2>6. to_core' \in Seq(Playable)
    <3>1. to_core' = to_core \/ to_core' = to_core \o <<loop.item>>
        BY <1>15 DEF Resume, Emit
    <3>2. loop.item \in Playable
        BY <1>t DEF PlayTyped
    <3> QED
        BY <3>1, <3>2, <1>t
  <2>7. PlayTyped'
      BY <2>3, <2>4, <2>5, <1>t DEF PlayTyped
  <2> QED
      BY <1>t, <2>3, <2>6, <2>7, PartsTyped, CoreKeeps
<1>16. CASE PlayEnds
  <2>1. loop.item \in Playable
      BY <1>t DEF PlayTyped
  <2>2. to_core' \in Seq(Playable)
      BY <1>16, <1>t, <2>1 DEF PlayEnds, Emit
  <2>3. loop' \in [at : {"idle", "awaits", "plays"}, item : Playable, generation : Nat]
      BY <1>16, <1>t, LookTyped DEF PlayEnds, PlayTyped
  <2>4. PlayTyped'
      BY <1>16, <1>t, <2>1, <2>3 DEF PlayEnds, PlayTyped
  <2> QED
      BY <1>16, <1>t, <2>2, <2>4, PartsTyped, CoreKeeps DEF PlayEnds
<1>17. CASE UNCHANGED vars
    BY <1>17, <1>t, PartsTyped, CoreKeeps, PlayKeeps DEF vars
<1> QED
    BY <1>1, <1>2, <1>3, <1>4, <1>5, <1>6, <1>7, <1>8, <1>9, <1>10, <1>11, <1>12, <1>13, <1>14,
       <1>15, <1>16, <1>17 DEF Next

(* Every reachable state of the call's speech is well typed.                *)
THEOREM TypeCorrect == Spec => []TypeOK
<1> USE SpeechAssumption
<1>1. Init => Typed
    BY TypedInitially
<1>2. Typed /\ [Next]_vars => Typed'
    BY TypedStep
<1>3. Typed => TypeOK
    BY DEF Typed, TypeOK
<1> QED
    BY <1>1, <1>2, <1>3, PTL DEF Spec

--------------------------------------------------------------------------------
(* The order of the pieces. *)

(* The pieces of a sequence: a wake chime is none, and may come repeatedly. *)
Of(s) == {s[n] : n \in DOMAIN s} \ {WakeChime}
Ahead(S, T) == \A i \in S, j \in T : Before(i, j)
Ordered(s)  == \A m, n \in DOMAIN s :
                   m < n /\ s[m] # WakeChime /\ s[n] # WakeChime => Before(s[m], s[n])
Distinct(s) == \A m, n \in DOMAIN s : m # n /\ s[m] # WakeChime => s[m] # s[n]

LEMMA BeforeIsStrict ==
    ASSUME NEW i \in Playable, SpeechAssumption PROVE ~Before(i, i)
    BY Numbers DEF Before

LEMMA Empty == Of(<< >>) = {} /\ Ordered(<< >>) /\ Distinct(<< >>)
<1>1. DOMAIN << >> = {}
    OBVIOUS
<1> QED
    BY <1>1 DEF Of, Ordered, Distinct

LEMMA First ==
    ASSUME NEW s \in Seq(Playable), s # << >>
    PROVE  /\ Head(s) \in Playable /\ Tail(s) \in Seq(Playable)
           /\ Of(s) = ({Head(s)} \ {WakeChime}) \cup Of(Tail(s))
           /\ Ordered(s) => Ordered(Tail(s)) /\ Ahead({Head(s)} \ {WakeChime}, Of(Tail(s)))
           /\ Distinct(s) => Distinct(Tail(s)) /\ ~(Head(s) \in Of(Tail(s)))
<1>1. /\ Head(s) = s[1] /\ 1 \in DOMAIN s /\ Head(s) \in Playable /\ Tail(s) \in Seq(Playable)
      /\ \A n \in DOMAIN Tail(s) : n + 1 \in DOMAIN s /\ Tail(s)[n] = s[n + 1] /\ n \in Nat /\ n >= 1
      /\ \A n \in DOMAIN s : n \in Nat /\ (n = 1 \/ (n - 1 \in DOMAIN Tail(s) /\ (n - 1) + 1 = n))
    OBVIOUS
<1>2. \A x : x \in Of(s) <=> x # WakeChime /\ \E n \in DOMAIN s : x = s[n]
    BY DEF Of
<1>3. \A x : x \in Of(Tail(s)) <=> x # WakeChime /\ \E n \in DOMAIN Tail(s) : x = s[n + 1]
    BY <1>1 DEF Of
<1>4. ASSUME NEW x PROVE x \in Of(s) <=> x \in ({Head(s)} \ {WakeChime}) \cup Of(Tail(s))
  <2>1. ASSUME x \in Of(s) PROVE x \in ({Head(s)} \ {WakeChime}) \cup Of(Tail(s))
    <3>1. PICK n \in DOMAIN s : x = s[n] /\ x # WakeChime
        BY <2>1, <1>2
    <3>2. n = 1 \/ (n - 1 \in DOMAIN Tail(s) /\ x = s[(n - 1) + 1])
        BY <1>1, <3>1
    <3> QED
        BY <3>1, <3>2, <1>1, <1>3
  <2>2. ASSUME x \in ({Head(s)} \ {WakeChime}) \cup Of(Tail(s)) PROVE x \in Of(s)
    <3>1. CASE x = Head(s) /\ x # WakeChime
        BY <3>1, <1>1, <1>2
    <3>2. CASE x \in Of(Tail(s))
        BY <3>2, <1>1, <1>2, <1>3
    <3> QED
        BY <2>2, <3>1, <3>2
  <2> QED
      BY <2>1, <2>2
<1>5. ASSUME Ordered(s)
      PROVE  Ordered(Tail(s)) /\ Ahead({Head(s)} \ {WakeChime}, Of(Tail(s)))
  <2>1. Ordered(Tail(s))
    <3> SUFFICES ASSUME NEW m \in DOMAIN Tail(s), NEW n \in DOMAIN Tail(s), m < n,
                        Tail(s)[m] # WakeChime, Tail(s)[n] # WakeChime
                 PROVE  Before(Tail(s)[m], Tail(s)[n])
        BY DEF Ordered
    <3>1. m + 1 < n + 1
        BY <1>1
    <3> QED
        BY <3>1, <1>1, <1>5 DEF Ordered
  <2>2. ASSUME NEW j \in Of(Tail(s)), Head(s) # WakeChime PROVE Before(Head(s), j)
    <3>1. PICK n \in DOMAIN Tail(s) : j = s[n + 1] /\ j # WakeChime
        BY <1>3
    <3>2. 1 < n + 1
        BY <1>1
    <3> QED
        BY <3>1, <3>2, <1>1, <1>5, <2>2 DEF Ordered
  <2> QED
      BY <2>1, <2>2 DEF Ahead
<1>6. ASSUME Distinct(s) PROVE Distinct(Tail(s)) /\ ~(Head(s) \in Of(Tail(s)))
  <2>1. Distinct(Tail(s))
    <3> SUFFICES ASSUME NEW m \in DOMAIN Tail(s), NEW n \in DOMAIN Tail(s), m # n,
                        Tail(s)[m] # WakeChime
                 PROVE  Tail(s)[m] # Tail(s)[n]
        BY DEF Distinct
    <3>1. m + 1 # n + 1
        BY <1>1
    <3> QED
        BY <3>1, <1>1, <1>6 DEF Distinct
  <2>2. ASSUME Head(s) \in Of(Tail(s)) PROVE FALSE
    <3>1. PICK n \in DOMAIN Tail(s) : Head(s) = s[n + 1] /\ Head(s) # WakeChime
        BY <1>3, <2>2
    <3>2. 1 # n + 1
        BY <1>1
    <3> QED
        BY <3>1, <3>2, <1>1, <1>6 DEF Distinct
  <2> QED
      BY <2>1, <2>2
<1>7. Of(s) = ({Head(s)} \ {WakeChime}) \cup Of(Tail(s))
    BY <1>4
<1> QED
    BY <1>1, <1>5, <1>6, <1>7

LEMMA OneMore ==
    ASSUME NEW s \in Seq(Playable), NEW x \in Playable
    PROVE  /\ Append(s, x) \in Seq(Playable)
           /\ Of(Append(s, x)) = Of(s) \cup ({x} \ {WakeChime})
           /\ Ordered(s) /\ Ahead(Of(s), {x} \ {WakeChime}) => Ordered(Append(s, x))
           /\ Distinct(s) /\ x \notin Of(s) => Distinct(Append(s, x))
<1> DEFINE t == Append(s, x)
           l == Len(s) + 1
<1>1. /\ t \in Seq(Playable) /\ DOMAIN t = DOMAIN s \cup {l} /\ t[l] = x
      /\ \A n \in DOMAIN s : t[n] = s[n] /\ n \in Nat /\ n < l /\ n # l
      /\ l \in Nat
    OBVIOUS
<1> HIDE DEF t, l
<1>2. Of(t) = Of(s) \cup ({x} \ {WakeChime})
    BY <1>1 DEF Of
<1>3. \A n \in DOMAIN s : s[n] # WakeChime => s[n] \in Of(s)
    BY DEF Of
<1>4. ASSUME Ordered(s), Ahead(Of(s), {x} \ {WakeChime}) PROVE Ordered(t)
  <2> SUFFICES ASSUME NEW m \in DOMAIN t, NEW n \in DOMAIN t, m < n,
                      t[m] # WakeChime, t[n] # WakeChime
               PROVE  Before(t[m], t[n])
      BY DEF Ordered
  <2>1. m \in DOMAIN s
      BY <1>1
  <2>2. CASE n \in DOMAIN s
      BY <2>1, <2>2, <1>1, <1>4 DEF Ordered
  <2>3. CASE n = l
      BY <2>1, <2>3, <1>1, <1>3, <1>4 DEF Ahead
  <2> QED
      BY <2>2, <2>3, <1>1
<1>5. ASSUME Distinct(s), x \notin Of(s) PROVE Distinct(t)
    BY <1>1, <1>3, <1>5 DEF Distinct
<1> QED
    BY <1>1, <1>2, <1>4, <1>5 DEF t

LEMMA Joined ==
    ASSUME NEW s \in Seq(Playable), NEW t \in Seq(Playable), SpeechAssumption
    PROVE  /\ s \o t \in Seq(Playable) /\ Of(s \o t) = Of(s) \cup Of(t)
           /\ Distinct(s) /\ Ordered(t) /\ Ahead(Of(s), Of(t)) => Distinct(s \o t)
<1> DEFINE u == s \o t
           k == Len(s)
<1>1. /\ u \in Seq(Playable) /\ k \in Nat /\ Len(t) \in Nat
      /\ DOMAIN s = 1 .. k /\ DOMAIN t = 1 .. Len(t) /\ DOMAIN u = 1 .. (k + Len(t))
      /\ \A n \in DOMAIN s : u[n] = s[n]
      /\ \A n \in DOMAIN t : u[k + n] = t[n]
    OBVIOUS
<1> HIDE DEF u, k
<1>2. \A n \in DOMAIN u : /\ n \in DOMAIN s \/ (n - k \in DOMAIN t /\ k + (n - k) = n)
                          /\ ~(n \in DOMAIN s /\ n - k \in DOMAIN t)
    BY <1>1
<1>3. \A n \in DOMAIN u : (n \in DOMAIN s /\ u[n] = s[n]) \/ (n - k \in DOMAIN t /\ u[n] = t[n - k])
  <2> SUFFICES ASSUME NEW n \in DOMAIN u, n \notin DOMAIN s PROVE n - k \in DOMAIN t /\ u[n] = t[n - k]
      BY <1>1
  <2>1. n - k \in DOMAIN t /\ k + (n - k) = n
      BY <1>2
  <2> QED
      BY <2>1, <1>1
<1>4. /\ \A n \in DOMAIN s : n \in DOMAIN u
      /\ \A n \in DOMAIN t : k + n \in DOMAIN u
    BY <1>1
<1>5. Of(u) = Of(s) \cup Of(t)
  <2>1. \A x : x \in Of(u) => x \in Of(s) \/ x \in Of(t)
      BY <1>3 DEF Of
  <2>2. \A x : x \in Of(s) \/ x \in Of(t) => x \in Of(u)
      BY <1>1, <1>4 DEF Of
  <2> QED
      BY <2>1, <2>2
<1>6. ASSUME Distinct(s), Ordered(t), Ahead(Of(s), Of(t)) PROVE Distinct(u)
  <2> SUFFICES ASSUME NEW m \in DOMAIN u, NEW n \in DOMAIN u, m # n, u[m] # WakeChime, u[m] = u[n]
               PROVE  FALSE
      BY DEF Distinct
  <2>i. ~Before(u[m], u[m])
    <3>1. u[m] \in Playable
        BY <1>1
    <3> QED
        BY <3>1, BeforeIsStrict
  <2>1. CASE m \in DOMAIN s /\ n \in DOMAIN s
      BY <2>1, <1>1, <1>6 DEF Distinct
  <2>2. CASE m \in DOMAIN s /\ n \notin DOMAIN s
    <3>1. u[m] \in Of(s) /\ u[n] \in Of(t)
        BY <2>2, <1>1, <1>3 DEF Of
    <3> QED
        BY <3>1, <2>i, <1>6 DEF Ahead
  <2>3. CASE m \notin DOMAIN s /\ n \in DOMAIN s
    <3>1. u[n] \in Of(s) /\ u[m] \in Of(t)
        BY <2>3, <1>1, <1>3 DEF Of
    <3> QED
        BY <3>1, <2>i, <1>6 DEF Ahead
  <2>4. CASE m \notin DOMAIN s /\ n \notin DOMAIN s
    <3>1. m - k \in DOMAIN t /\ n - k \in DOMAIN t /\ u[m] = t[m - k] /\ u[n] = t[n - k]
        BY <2>4, <1>3
    <3>2. m - k < n - k \/ n - k < m - k
        BY <1>1
    <3> QED
        BY <3>1, <3>2, <2>i, <1>6 DEF Ordered
  <2> QED
      BY <2>1, <2>2, <2>3, <2>4
<1> QED
    BY <1>1, <1>5, <1>6 DEF u

--------------------------------------------------------------------------------
(* What is on the wire: a stop is no piece of its turn.                     *)
Piece(m)  == IF m.type = "stop" THEN WakeChime ELSE m.item
WireOf(q) == [n \in DOMAIN q |-> Piece(q[n])]

LEMMA PieceIsPlayable == ASSUME NEW m \in Message, SpeechAssumption PROVE Piece(m) \in Playable
    BY Numbers DEF Piece, Message

LEMMA Wires ==
    ASSUME NEW q \in Seq(Message), SpeechAssumption
    PROVE  /\ WireOf(q) \in Seq(Playable) /\ Len(WireOf(q)) = Len(q)
           /\ DOMAIN WireOf(q) = DOMAIN q /\ \A n \in DOMAIN q : WireOf(q)[n] = Piece(q[n])
<1>1. \A n \in DOMAIN q : Piece(q[n]) \in Playable
    BY PieceIsPlayable
<1>2. DOMAIN q = 1 .. Len(q) /\ Len(q) \in Nat
    OBVIOUS
<1>3. WireOf(q) \in [1 .. Len(q) -> Playable]
    BY <1>1, <1>2 DEF WireOf
<1> QED
    BY <1>2, <1>3 DEF WireOf

LEMMA WireGrows ==
    ASSUME NEW q \in Seq(Message), NEW m \in Message, SpeechAssumption
    PROVE  WireOf(Append(q, m)) = Append(WireOf(q), Piece(m))
<1> DEFINE a == WireOf(Append(q, m))
           b == Append(WireOf(q), Piece(m))
<1>1. /\ Append(q, m) \in Seq(Message) /\ DOMAIN Append(q, m) = DOMAIN q \cup {Len(q) + 1}
      /\ Append(q, m)[Len(q) + 1] = m /\ \A n \in DOMAIN q : Append(q, m)[n] = q[n]
      /\ Len(Append(q, m)) = Len(q) + 1
    OBVIOUS
<1>2. a \in Seq(Playable) /\ Len(a) = Len(q) + 1
      /\ DOMAIN a = DOMAIN q \cup {Len(q) + 1}
      /\ a[Len(q) + 1] = Piece(m) /\ \A n \in DOMAIN q : a[n] = Piece(q[n])
  <2>1. PICK t : t = Append(q, m) /\ t \in Seq(Message)
      BY <1>1
  <2>2. /\ WireOf(t) \in Seq(Playable) /\ Len(WireOf(t)) = Len(t)
        /\ DOMAIN WireOf(t) = DOMAIN t /\ \A n \in DOMAIN t : WireOf(t)[n] = Piece(t[n])
      BY <2>1, Wires
  <2> HIDE DEF WireOf, Piece
  <2> QED
      BY <1>1, <2>1, <2>2
<1>3. b \in Seq(Playable) /\ Len(b) = Len(q) + 1
      /\ b[Len(q) + 1] = Piece(m) /\ \A n \in DOMAIN q : b[n] = Piece(q[n])
  <2>1. WireOf(q) \in Seq(Playable) /\ Len(WireOf(q)) = Len(q) /\ DOMAIN WireOf(q) = DOMAIN q
        /\ Piece(m) \in Playable /\ \A n \in DOMAIN q : WireOf(q)[n] = Piece(q[n])
      BY Wires, PieceIsPlayable
  <2> HIDE DEF WireOf, Piece
  <2> QED
      BY <2>1
<1> HIDE DEF a, b
<1>4. \A n \in 1 .. Len(a) : a[n] = b[n]
  <2>1. 1 .. Len(a) = DOMAIN q \cup {Len(q) + 1}
      BY <1>2
  <2> QED
      BY <2>1, <1>2, <1>3
<1>5. a = b
    BY <1>2, <1>3, <1>4
<1> QED
    BY <1>5 DEF a, b

LEMMA WireMoves ==
    ASSUME NEW q \in Seq(Message), q # << >>, SpeechAssumption
    PROVE  /\ Head(q) \in Message /\ Tail(q) \in Seq(Message) /\ WireOf(q) # << >>
           /\ Head(WireOf(q)) = Piece(Head(q)) /\ WireOf(Tail(q)) = Tail(WireOf(q))
<1> DEFINE a == WireOf(Tail(q))
           b == Tail(WireOf(q))
<1>1. /\ Tail(q) \in Seq(Message) /\ Len(Tail(q)) = Len(q) - 1 /\ Len(q) \in Nat /\ Len(q) >= 1
      /\ \A n \in 1 .. Len(q) - 1 : n \in DOMAIN Tail(q) /\ n + 1 \in DOMAIN q /\ Tail(q)[n] = q[n + 1]
      /\ Head(q) = q[1] /\ 1 \in DOMAIN q /\ Head(q) \in Message
    OBVIOUS
<1>2. /\ WireOf(q) \in Seq(Playable) /\ Len(WireOf(q)) = Len(q)
      /\ \A n \in DOMAIN q : WireOf(q)[n] = Piece(q[n])
    BY Wires
<1>3. a \in Seq(Playable) /\ Len(a) = Len(q) - 1 /\ \A n \in 1 .. Len(q) - 1 : a[n] = Piece(q[n + 1])
    BY <1>1, Wires
<1>4. /\ b \in Seq(Playable) /\ Len(b) = Len(q) - 1
      /\ \A n \in 1 .. Len(q) - 1 : b[n] = Piece(q[n + 1])
      /\ WireOf(q) # << >> /\ Head(WireOf(q)) = Piece(q[1])
  <2> HIDE DEF WireOf, Piece
  <2> QED
      BY <1>1, <1>2
<1> HIDE DEF a, b
<1>5. a = b
    BY <1>1, <1>3, <1>4
<1> QED
    BY <1>1, <1>4, <1>5 DEF a, b

(* The pieces played, p, over, d, being played, l, queued, i, on the wire,  *)
(* v, and not sent yet, u, are in the order they were meant in; what is     *)
(* over or being played is neither anywhere else.                           *)
ChainOf(p, d, l, i, v, u) ==
    /\ Ordered(p) /\ Ordered(i) /\ Ordered(v) /\ Ordered(u)
    /\ Distinct(d) /\ l \cap Of(d) = {}
    /\ Ahead(Of(p) \cup Of(d) \cup l, Of(i) \cup Of(v) \cup Of(u))
    /\ Ahead(Of(i), Of(v) \cup Of(u))
    /\ Ahead(Of(v), Of(u))

Pieces(p, d, l, i, v, u) == Of(p) \cup Of(d) \cup l \cup Of(i) \cup Of(v) \cup Of(u)

LEMMA ChainQueues ==
    ASSUME NEW p, NEW d, NEW l, NEW i \in Seq(Playable), NEW v \in Seq(Playable), NEW u,
           ChainOf(p, d, l, i, v, u), v # << >>
    PROVE  ChainOf(p, d, l, Append(i, Head(v)), Tail(v), u)
<1>1. /\ Head(v) \in Playable /\ Of(v) = ({Head(v)} \ {WakeChime}) \cup Of(Tail(v))
      /\ Ordered(v) => Ordered(Tail(v)) /\ Ahead({Head(v)} \ {WakeChime}, Of(Tail(v)))
    BY First
<1>2. /\ Of(Append(i, Head(v))) = Of(i) \cup ({Head(v)} \ {WakeChime})
      /\ Ordered(i) /\ Ahead(Of(i), {Head(v)} \ {WakeChime}) => Ordered(Append(i, Head(v)))
    BY <1>1, OneMore
<1> QED
    BY <1>1, <1>2 DEF ChainOf, Ahead

LEMMA ChainClears ==
    ASSUME NEW p, NEW d \in Seq(Playable), NEW l, NEW i \in Seq(Playable),
           NEW v \in Seq(Playable), NEW u,
           ChainOf(p, d, l, i, v, u), v # << >>, SpeechAssumption,
           \A x \in l : ~Before(x, x)
    PROVE  ChainOf(p, d \o i, l, << >>, Tail(v), u)
<1>1. /\ Of(v) = ({Head(v)} \ {WakeChime}) \cup Of(Tail(v))
      /\ Ordered(v) => Ordered(Tail(v))
    BY First
<1>2. /\ Of(d \o i) = Of(d) \cup Of(i)
      /\ Distinct(d) /\ Ordered(i) /\ Ahead(Of(d), Of(i)) => Distinct(d \o i)
    BY Joined
<1>3. l \cap Of(i) = {}
    BY DEF ChainOf, Ahead
<1> QED
    BY <1>1, <1>2, <1>3, Empty DEF ChainOf, Ahead

LEMMA ChainPlays ==
    ASSUME NEW p \in Seq(Playable), NEW d, NEW i \in Seq(Playable), NEW v, NEW u,
           ChainOf(p, d, {}, i, v, u), i # << >>, SpeechAssumption,
           NEW q, q = p \/ (Head(i) # WakeChime /\ q = Append(p, Head(i)))
    PROVE  ChainOf(q, d, {Head(i)} \ {WakeChime}, Tail(i), v, u)
<1>1. /\ Head(i) \in Playable /\ Of(i) = ({Head(i)} \ {WakeChime}) \cup Of(Tail(i))
      /\ Ordered(i) => Ordered(Tail(i)) /\ Ahead({Head(i)} \ {WakeChime}, Of(Tail(i)))
    BY First
<1>2. Of(q) \subseteq Of(p) \cup ({Head(i)} \ {WakeChime})
    BY <1>1, OneMore
<1>3. Ordered(q)
  <2>1. Ordered(p) /\ Ahead(Of(p), {Head(i)} \ {WakeChime})
      BY <1>1 DEF ChainOf, Ahead
  <2>2. CASE q = Append(p, Head(i))
      BY <2>1, <2>2, <1>1, OneMore
  <2> QED
      BY <2>1, <2>2
<1>4. ({Head(i)} \ {WakeChime}) \cap Of(d) = {}
    BY <1>1, BeforeIsStrict DEF ChainOf, Ahead
<1> QED
    BY <1>1, <1>2, <1>3, <1>4 DEF ChainOf, Ahead

LEMMA ChainFails ==
    ASSUME NEW p, NEW d \in Seq(Playable), NEW i \in Seq(Playable), NEW v, NEW u,
           ChainOf(p, d, {}, i, v, u), i # << >>, SpeechAssumption
    PROVE  ChainOf(p, Append(d, Head(i)), {}, Tail(i), v, u)
<1>1. /\ Head(i) \in Playable /\ Of(i) = ({Head(i)} \ {WakeChime}) \cup Of(Tail(i))
      /\ Ordered(i) => Ordered(Tail(i)) /\ Ahead({Head(i)} \ {WakeChime}, Of(Tail(i)))
    BY First
<1>2. Head(i) \notin Of(d)
  <2>1. Head(i) # WakeChime => Head(i) \in Of(i)
      BY <1>1
  <2>2. WakeChime \notin Of(d)
      BY DEF Of
  <2> QED
      BY <2>1, <2>2, <1>1, BeforeIsStrict DEF ChainOf, Ahead
<1>3. /\ Of(Append(d, Head(i))) = Of(d) \cup ({Head(i)} \ {WakeChime})
      /\ Distinct(d) => Distinct(Append(d, Head(i)))
    BY <1>1, <1>2, OneMore
<1> QED
    BY <1>1, <1>3 DEF ChainOf, Ahead

LEMMA ChainEnds ==
    ASSUME NEW p, NEW d \in Seq(Playable), NEW i, NEW v, NEW u, NEW x \in Playable,
           ChainOf(p, d, {x} \ {WakeChime}, i, v, u)
    PROVE  ChainOf(p, Append(d, x), {}, i, v, u)
<1>1. x \notin Of(d)
  <2>1. WakeChime \notin Of(d)
      BY DEF Of
  <2> QED
      BY <2>1 DEF ChainOf
<1>2. /\ Of(Append(d, x)) = Of(d) \cup ({x} \ {WakeChime})
      /\ Distinct(d) => Distinct(Append(d, x))
    BY <1>1, OneMore
<1> QED
    BY <1>2 DEF ChainOf, Ahead

LEMMA ChainReports ==
    ASSUME NEW p, NEW d \in Seq(Playable), NEW l, NEW i, NEW v, NEW u, d # << >>,
           ChainOf(p, d, l, i, v, u)
    PROVE  ChainOf(p, Tail(d), l, i, v, u)
<1>1. /\ Of(d) = ({Head(d)} \ {WakeChime}) \cup Of(Tail(d)) /\ (Distinct(d) => Distinct(Tail(d)))
    BY First
<1> QED
    BY <1>1 DEF ChainOf, Ahead

LEMMA ChainSends ==
    ASSUME NEW p, NEW d, NEW l, NEW i, NEW v \in Seq(Playable), NEW u \in Seq(Playable),
           ChainOf(p, d, l, i, v, u), u # << >>
    PROVE  /\ ChainOf(p, d, l, i, v, Tail(u))
           /\ ChainOf(p, d, l, i, Append(v, Head(u)), Tail(u))
<1>1. /\ Head(u) \in Playable /\ Of(u) = ({Head(u)} \ {WakeChime}) \cup Of(Tail(u))
      /\ Ordered(u) => Ordered(Tail(u)) /\ Ahead({Head(u)} \ {WakeChime}, Of(Tail(u)))
    BY First
<1>2. /\ Of(Append(v, Head(u))) = Of(v) \cup ({Head(u)} \ {WakeChime})
      /\ Ordered(v) /\ Ahead(Of(v), {Head(u)} \ {WakeChime}) => Ordered(Append(v, Head(u)))
    BY <1>1, OneMore
<1>3. ChainOf(p, d, l, i, v, Tail(u))
    BY <1>1 DEF ChainOf, Ahead
<1>4. ChainOf(p, d, l, i, Append(v, Head(u)), Tail(u))
    BY <1>1, <1>2 DEF ChainOf, Ahead
<1> QED
    BY <1>3, <1>4

LEMMA ChainGrows ==
    ASSUME NEW p, NEW d, NEW l, NEW i, NEW v, NEW u \in Seq(Playable), NEW x \in Playable,
           ChainOf(p, d, l, i, v, u), Ahead(Pieces(p, d, l, i, v, u), {x})
    PROVE  ChainOf(p, d, l, i, v, Append(u, x))
<1>1. /\ Of(Append(u, x)) = Of(u) \cup ({x} \ {WakeChime})
      /\ Ordered(u) /\ Ahead(Of(u), {x} \ {WakeChime}) => Ordered(Append(u, x))
    BY OneMore
<1>2. /\ Ahead(Of(u), {x} \ {WakeChime})
      /\ Ahead(Of(p) \cup Of(d) \cup l \cup Of(i) \cup Of(v), {x} \ {WakeChime})
    BY DEF Ahead, Pieces
<1>3. Ordered(Append(u, x))
    BY <1>1, <1>2 DEF ChainOf
<1> QED
    BY <1>1, <1>2, <1>3 DEF ChainOf, Ahead

LEMMA ChainChimes ==
    ASSUME NEW p, NEW d, NEW l, NEW i, NEW v \in Seq(Playable), NEW u, NEW x \in Playable,
           ChainOf(p, d, l, i, v, u),
           x = WakeChime \/ (Of(u) = {} /\ Ahead(Pieces(p, d, l, i, v, u), {x}))
    PROVE  ChainOf(p, d, l, i, Append(v, x), u)
<1>1. /\ Of(Append(v, x)) = Of(v) \cup ({x} \ {WakeChime})
      /\ Ordered(v) /\ Ahead(Of(v), {x} \ {WakeChime}) => Ordered(Append(v, x))
    BY OneMore
<1> QED
    BY <1>1 DEF ChainOf, Ahead, Pieces

--------------------------------------------------------------------------------
(* Turns. *)

(* Turns are taken in the order they were asked for, after the current one. *)
InTurn ==
    /\ current <= asked
    /\ \A r \in Requests : r > asked => at[r] = "new"
    /\ \A n \in DOMAIN turns : at[turns[n]] = "queued" /\ turns[n] > current /\ turns[n] <= asked
    /\ \A m, n \in DOMAIN turns : m < n => turns[m] < turns[n]
    /\ \A r \in Requests : at[r] \in Working => r = current

(* A turn has something to say only while it is at it.                      *)
InSpeech ==
    /\ \A r \in Requests : at[r] \in {"new", "busy", "queued", "chime"} => put[r] = 0
    /\ \A r \in Requests : speech[r] # << >> => at[r] \in {"model", "closing"}
    /\ \A r \in Requests : \A n \in DOMAIN speech[r] : speech[r][n][1] = r /\ speech[r][n][2] # 0
    /\ sent # NoItem => at[sent[1]] \in {"model", "closing"}

TurnsFit == InTurn /\ InSpeech

LEMMA TurnsInitially == ASSUME Init, SpeechAssumption PROVE TurnsFit
<1>1. \A r \in Requests : speech[r] = << >> /\ DOMAIN speech[r] = {} /\ at[r] = "new" /\ put[r] = 0
    BY DEF Init
<1>2. DOMAIN turns = {} /\ current = 0 /\ asked = 0 /\ sent = NoItem
    BY DEF Init, NoTurn
<1> QED
    BY <1>1, <1>2 DEF TurnsFit, InTurn, InSpeech, Working

LEMMA Appended ==
    ASSUME NEW S, NEW s \in Seq(S), NEW x \in S
    PROVE  /\ DOMAIN Append(s, x) = DOMAIN s \cup {Len(s) + 1} /\ Append(s, x)[Len(s) + 1] = x
           /\ \A n \in DOMAIN s : Append(s, x)[n] = s[n] /\ n < Len(s) + 1
           /\ \A m, n \in DOMAIN Append(s, x) : m < n => m \in DOMAIN s
    OBVIOUS

LEMMA Removed ==
    ASSUME NEW S, NEW s \in Seq(S), s # << >>
    PROVE  /\ Head(s) = s[1] /\ 1 \in DOMAIN s /\ Head(s) \in S /\ Tail(s) \in Seq(S)
           /\ \A n \in DOMAIN Tail(s) : /\ n + 1 \in DOMAIN s /\ n \in Nat /\ 1 < n + 1
                                       /\ Tail(s)[n] = s[n + 1]
           /\ \A n \in DOMAIN s : n # 1 => n - 1 \in DOMAIN Tail(s) /\ (n - 1) + 1 = n
    OBVIOUS

(* Every turn's own speech is where its pieces are put.                     *)
LEMMA PutFits ==
    ASSUME Typed, InSpeech, NEW r \in Requests, NEW k \in Nat \ {0}, <<r, k>> \in Items,
           speech' = [speech EXCEPT ![r] = Append(@, <<r, k>>)]
    PROVE  \A q \in Requests : \A n \in DOMAIN speech'[q] :
               speech'[q][n][1] = q /\ speech'[q][n][2] # 0
<1> SUFFICES ASSUME NEW q \in Requests, NEW n \in DOMAIN speech'[q]
             PROVE  speech'[q][n][1] = q /\ speech'[q][n][2] # 0
    OBVIOUS
<1>1. CASE q # r
  <2>1. speech'[q] = speech[q]
      BY <1>1 DEF Typed
  <2> QED
      BY <2>1 DEF InSpeech
<1>2. CASE q = r
  <2>1. speech'[r] = Append(speech[r], <<r, k>>) /\ speech[r] \in Seq(Items)
      BY DEF Typed
  <2>2. PICK i \in Items : i = <<r, k>> /\ i[1] = r /\ i[2] # 0
      OBVIOUS
  <2>3. \/ n \in DOMAIN speech[r] /\ speech'[r][n] = speech[r][n]
        \/ speech'[r][n] = i
    <3>1. speech'[r] = Append(speech[r], i)
        BY <2>1, <2>2
    <3>2. n \in DOMAIN Append(speech[r], i)
        BY <3>1, <1>2
    <3>3. /\ DOMAIN Append(speech[r], i) = DOMAIN speech[r] \cup {Len(speech[r]) + 1}
          /\ Append(speech[r], i)[Len(speech[r]) + 1] = i
          /\ \A k1 \in DOMAIN speech[r] : Append(speech[r], i)[k1] = speech[r][k1]
        BY <2>1, Appended
    <3> QED
        BY <3>1, <3>2, <3>3
  <2> QED
      BY <1>2, <2>2, <2>3 DEF InSpeech
<1> QED
    BY <1>1, <1>2

LEMMA TurnsStep ==
    ASSUME Typed, Typed', TurnsFit, [Next]_vars, SpeechAssumption
    PROVE  TurnsFit'
<1> USE SpeechAssumption
<1>f. InTurn /\ InSpeech
    BY DEF TurnsFit
<1>t. /\ asked \in Nat /\ current \in Nat /\ turns \in Seq(Requests)
      /\ at \in [Requests -> {"new", "busy", "queued", "over"} \cup Working]
      /\ put \in [Requests -> 0 .. MaxItems] /\ speech \in [Requests -> Seq(Items)]
      /\ \A n \in DOMAIN turns : turns[n] \in Requests
      /\ \A r \in Requests : r \in Nat
  <2>1. asked \in 0 .. MaxRequests /\ MaxRequests \in Nat /\ current \in Requests \cup {NoTurn}
      BY Numbers DEF Typed
  <2>2. current \in Nat /\ \A r \in Requests : r \in Nat
      BY <2>1 DEF Requests, NoTurn
  <2>3. turns \in Seq(Requests)
      BY DEF Typed
  <2>4. \A n \in DOMAIN turns : turns[n] \in Requests
      BY <2>3
  <2>5. at \in [Requests -> {"new", "busy", "queued", "over"} \cup Working]
      BY DEF Typed
  <2>6. put \in [Requests -> 0 .. MaxItems] /\ speech \in [Requests -> Seq(Items)]
      BY DEF Typed
  <2> QED
      BY <2>1, <2>2, <2>3, <2>4, <2>5, <2>6
<1>1. CASE HearRequest
  <2> DEFINE a == asked + 1
  <2>1. /\ asked' = a /\ a \in Requests /\ at[a] = "new" /\ current' = current
        /\ UNCHANGED <<put, speech, sent>>
        /\ at' = [at EXCEPT ![a] = at'[a]] /\ at'[a] \in {"queued", "busy"}
    <3>1. asked' = a /\ asked < MaxRequests /\ MaxRequests \in Nat
        BY <1>1, Numbers DEF HearRequest
    <3>2. a \in Requests /\ a > asked
        BY <3>1, <1>t DEF Requests
    <3> QED
        BY <1>1, <3>1, <3>2, <1>f, <1>t DEF HearRequest, InTurn
  <2>2. InSpeech'
    <3>1. \A r \in Requests : /\ at'[r] \in {"model", "closing"} <=> at[r] \in {"model", "closing"}
                              /\ at'[r] \in {"new", "busy", "queued", "chime"} => put[r] = 0
        BY <2>1, <1>t, <1>f DEF InSpeech
    <3>2. sent # NoItem => sent[1] \in Requests
        BY Numbers DEF Typed
    <3> QED
        BY <2>1, <3>1, <3>2, <1>f DEF InSpeech
  <2>4. /\ current <= a /\ \A r \in Requests : r > a => at'[r] = "new"
        /\ \A r \in Requests : at'[r] \in Working => r = current
    <3>1. current <= a
        BY <1>f, <1>t DEF InTurn
    <3>2. \A r \in Requests : r > a => at'[r] = at[r] /\ r > asked
        BY <2>1, <1>t
    <3>3. \A r \in Requests \ {a} : at'[r] = at[r]
        BY <2>1, <1>t
    <3>4. at'[a] \notin Working
        BY <2>1 DEF Working
    <3> QED
        BY <3>1, <3>2, <3>3, <3>4, <1>f DEF InTurn
  <2>3. InTurn'
    <3>1. CASE turns' = turns
      <4>1. /\ current <= a /\ \A r \in Requests : r > a => at'[r] = "new"
            /\ \A r \in Requests : at'[r] \in Working => r = current
          BY <2>4
      <4>2. \A n \in DOMAIN turns : /\ at'[turns[n]] = "queued" /\ turns[n] > current
                                    /\ turns[n] <= a
          BY <2>1, <1>f, <1>t, SMTT(30) DEF InTurn
      <4>3. \A m, n \in DOMAIN turns : m < n => turns[m] < turns[n]
          BY <1>f DEF InTurn
      <4> QED
          BY <3>1, <2>1, <4>1, <4>2, <4>3 DEF InTurn
    <3>2. CASE turns' = Append(turns, a) /\ at'[a] = "queued"
      <4>1. /\ DOMAIN turns' = DOMAIN turns \cup {Len(turns) + 1} /\ turns'[Len(turns) + 1] = a
            /\ \A n \in DOMAIN turns : turns'[n] = turns[n] /\ n < Len(turns) + 1
            /\ \A m, n \in DOMAIN turns' : m < n => m \in DOMAIN turns
          BY <3>2, <2>1, <1>t, Appended
      <4>2. \A n \in DOMAIN turns : turns[n] < a /\ turns[n] # a
          BY <1>f, <1>t DEF InTurn
      <4>3. \A m, n \in DOMAIN turns' : m < n => turns'[m] < turns'[n]
          BY <4>1, <4>2, <1>f DEF InTurn
      <4>4. \A n \in DOMAIN turns' : at'[turns'[n]] = "queued" /\ turns'[n] > current /\ turns'[n] <= a
        <5>1. current < a
            BY <1>f, <1>t DEF InTurn
        <5>2. \A n \in DOMAIN turns : at'[turns[n]] = "queued" /\ turns[n] > current /\ turns[n] <= a
            BY <4>2, <2>1, <1>f, <1>t DEF InTurn
        <5> QED
            BY <4>1, <5>1, <5>2, <3>2, <1>t
      <4>5. asked' = a /\ current' = current
          BY <2>1
      <4> HIDE DEF a
      <4> QED
          BY <4>3, <4>4, <2>4, <4>5 DEF InTurn
    <3> QED
        BY <1>1, <2>1, <1>t, <3>1, <3>2 DEF HearRequest
  <2> QED
      BY <2>2, <2>3 DEF TurnsFit
<1>2. CASE Take
  <2> DEFINE r == Head(turns)
  <2>1. /\ r = turns[1] /\ 1 \in DOMAIN turns /\ r \in Requests
        /\ \A n \in DOMAIN Tail(turns) : /\ n + 1 \in DOMAIN turns /\ n \in Nat /\ 1 < n + 1
                                         /\ Tail(turns)[n] = turns[n + 1]
    <3>1. turns # << >> /\ turns \in Seq(Requests)
        BY <1>2, <1>t DEF Take
    <3> QED
        BY <3>1, Removed
  <2>2. /\ turns' = Tail(turns) /\ at' = [at EXCEPT ![r] = "chime"] /\ current' = r
        /\ asked' = asked /\ UNCHANGED <<put, speech, sent>> /\ Running = {}
      BY <1>2 DEF Take
  <2>3. at[r] = "queued" /\ r > current /\ r <= asked
      BY <2>1, <1>f DEF InTurn
  <2>4. InSpeech'
    <3>1. \A q \in Requests : /\ at'[q] \in {"model", "closing"} <=> at[q] \in {"model", "closing"}
                              /\ at'[q] \in {"new", "busy", "queued", "chime"} => put[q] = 0
        BY <2>2, <2>3, <1>t, <1>f DEF InSpeech
    <3>2. sent # NoItem => sent[1] \in Requests
        BY Numbers DEF Typed
    <3> QED
        BY <2>2, <3>1, <3>2, <1>f DEF InSpeech
  <2>5. \A n \in DOMAIN Tail(turns) : Tail(turns)[n] > r /\ Tail(turns)[n] \in Requests
    <3> SUFFICES ASSUME NEW n \in DOMAIN Tail(turns)
                 PROVE  Tail(turns)[n] > r /\ Tail(turns)[n] \in Requests
        OBVIOUS
    <3>1. Tail(turns)[n] = turns[n + 1] /\ n + 1 \in DOMAIN turns /\ 1 < n + 1
        BY <2>1
    <3>2. turns[1] < turns[n + 1] /\ turns[n + 1] \in Requests
        BY <3>1, <2>1, <1>f, <1>t DEF InTurn
    <3> QED
        BY <3>1, <3>2, <2>1, <1>t
  <2>6. \A m, n \in DOMAIN Tail(turns) : m < n => Tail(turns)[m] < Tail(turns)[n]
    <3> SUFFICES ASSUME NEW m \in DOMAIN Tail(turns), NEW n \in DOMAIN Tail(turns), m < n
                 PROVE  Tail(turns)[m] < Tail(turns)[n]
        OBVIOUS
    <3>1. m + 1 < n + 1
        BY <2>1
    <3> QED
        BY <3>1, <2>1, <1>f DEF InTurn
  <2>7. \A n \in DOMAIN Tail(turns) : at'[Tail(turns)[n]] = "queued" /\ Tail(turns)[n] <= asked
    <3> SUFFICES ASSUME NEW n \in DOMAIN Tail(turns)
                 PROVE  at'[Tail(turns)[n]] = "queued" /\ Tail(turns)[n] <= asked
        OBVIOUS
    <3>1. Tail(turns)[n] = turns[n + 1] /\ n + 1 \in DOMAIN turns
        BY <2>1
    <3>2. at[turns[n + 1]] = "queued" /\ turns[n + 1] <= asked
        BY <3>1, <1>f DEF InTurn
    <3>3. Tail(turns)[n] # r
        BY <2>5, <2>1, <1>t
    <3> QED
        BY <3>1, <3>2, <3>3, <2>2, <1>t
  <2>8. \A q \in Requests : at'[q] \in Working => q = r
    <3>1. \A q \in Requests : at[q] \notin Working
        BY <2>2 DEF Running
    <3> QED
        BY <3>1, <2>2, <1>t
  <2>9. \A q \in Requests : q > asked => at'[q] = "new"
      BY <2>1, <2>2, <2>3, <1>f, <1>t DEF InTurn
  <2> QED
      BY <2>2, <2>3, <2>4, <2>5, <2>6, <2>7, <2>8, <2>9 DEF TurnsFit, InTurn
<1>3. ASSUME NEW r \in Requests, at[r] \in Working, NEW pc \in Working \cup {"over"},
             at' = [at EXCEPT ![r] = pc], pc # "chime",
             UNCHANGED <<asked, turns, current>>
      PROVE  InTurn'
  <2>1. r = current
      BY <1>3, <1>f DEF InTurn
  <2>2. \A q \in Requests : /\ at[q] \in {"new", "queued"} => at'[q] = at[q]
                            /\ at'[q] \in Working => at[q] \in Working
      BY <1>3, <1>t DEF Working
  <2> QED
      BY <1>3, <2>1, <2>2, <1>f, <1>t DEF InTurn
<1>4. ASSUME NEW r \in Requests, Chime(r) PROVE TurnsFit'
  <2>1. /\ at[r] = "chime" /\ at' = [at EXCEPT ![r] = "model"] /\ UNCHANGED <<asked, turns, current>>
        /\ UNCHANGED <<put, speech, sent>>
      BY <1>4 DEF Chime
  <2>2. InTurn'
      BY <1>3, <2>1 DEF Working
  <2>3. sent # NoItem => sent[1] \in Requests
      BY Numbers DEF Typed
  <2>4. InSpeech'
      BY <2>1, <2>3, <1>f, <1>t DEF InSpeech
  <2> QED
      BY <2>2, <2>4 DEF TurnsFit
<1>5. ASSUME NEW r \in Requests, Say(r) \/ CallTool(r) \/ NextModelCall(r) PROVE TurnsFit'
  <2>1. at[r] = "model" /\ UNCHANGED <<asked, turns, current, at, sent>>
      BY <1>5 DEF Say, CallTool, NextModelCall
  <2>2. InTurn'
      BY <2>1, <1>f DEF InTurn
  <2>3. CASE UNCHANGED <<put, speech>>
      BY <2>1, <2>2, <2>3, <1>f DEF InSpeech, TurnsFit
  <2>4. CASE Put(r) /\ put[r] < MaxItems
    <3>1. put[r] + 1 \in Nat \ {0} /\ <<r, put[r] + 1>> \in Items
      <4>1. put[r] \in 0 .. MaxItems /\ MaxItems \in Nat
          BY Numbers DEF Typed
      <4> QED
          BY <4>1, <2>4, PutTyped
    <3>2. \A q \in Requests : \A n \in DOMAIN speech'[q] : speech'[q][n][1] = q /\ speech'[q][n][2] # 0
        BY <2>4, <3>1, <1>f, PutFits DEF Put
    <3>3. \A q \in Requests \ {r} : speech'[q] = speech[q] /\ put'[q] = put[q]
        BY <2>4, <1>t DEF Put
    <3> QED
        BY <2>1, <2>2, <3>2, <3>3, <1>f DEF InSpeech, TurnsFit
  <2> QED
      BY <1>5, <2>3, <2>4 DEF Say, CallTool, NextModelCall
<1>6. ASSUME NEW r \in Requests, generate_streamed(r) PROVE TurnsFit'
  <2>1. at[r] = "model" /\ UNCHANGED <<asked, turns, current, sent>>
      BY <1>6 DEF generate_streamed
  <2>2. CASE UNCHANGED <<at, put, speech>>
      BY <2>1, <2>2, <1>f DEF InTurn, InSpeech, TurnsFit
  <2>3. CASE /\ at' = [at EXCEPT ![r] = "closing"] /\ put' = [put EXCEPT ![r] = 0]
             /\ speech' = speech \/ speech' = [speech EXCEPT ![r] = Append(@, <<r, put[r] + 1>>)]
    <3>1. InTurn'
        BY <2>1, <2>3, <1>3 DEF Working
    <3>2. put[r] + 1 \in Nat \ {0} /\ <<r, put[r] + 1>> \in Items
      <4>1. put[r] \in 0 .. MaxItems /\ MaxItems \in Nat
          BY Numbers DEF Typed
      <4>2. put[r] + 1 \in Nat \ {0} /\ put[r] + 1 \in 0 .. MaxItems + 1
          BY <4>1
      <4> QED
          BY <4>2 DEF Items
    <3>3. \A q \in Requests : \A n \in DOMAIN speech'[q] : speech'[q][n][1] = q /\ speech'[q][n][2] # 0
      <4>1. CASE speech' = speech
          BY <4>1, <1>f DEF InSpeech
      <4>2. CASE speech' = [speech EXCEPT ![r] = Append(@, <<r, put[r] + 1>>)]
          BY <4>2, <3>2, <1>f, PutFits
      <4> QED
          BY <2>3, <4>1, <4>2
    <3>4. \A q \in Requests \ {r} : speech'[q] = speech[q] /\ put'[q] = put[q] /\ at'[q] = at[q]
        BY <2>3, <1>t
    <3>5. sent # NoItem => sent[1] \in Requests
        BY Numbers DEF Typed
    <3>6. at'[r] = "closing"
        BY <2>3, <1>t
    <3> QED
        BY <2>1, <3>1, <3>3, <3>4, <3>5, <3>6, <1>f DEF InSpeech, TurnsFit
  <2> QED
      BY <1>6, <2>2, <2>3 DEF generate_streamed, RetriesWithoutOption, Answers, StreamFails, Written
<1>7. ASSUME NEW r \in Requests, SendItem(r) PROVE TurnsFit'
  <2>1. UNCHANGED <<asked, turns, current, at, put>>
      BY <1>7 DEF SendItem
  <2>2. /\ speech[r] # << >> /\ Head(speech[r]) \in Items /\ sent' \in {sent, Head(speech[r])}
        /\ speech' = [speech EXCEPT ![r] = Tail(@)]
      BY <1>7, Sends
  <2>3. at[r] \in {"model", "closing"}
      BY <2>2, <1>f DEF InSpeech
  <2>4. speech[r] \in Seq(Items) /\ 1 \in DOMAIN speech[r] /\ Head(speech[r]) = speech[r][1]
        /\ \A n \in DOMAIN Tail(speech[r]) :
             n + 1 \in DOMAIN speech[r] /\ Tail(speech[r])[n] = speech[r][n + 1]
    <3>1. speech[r] \in Seq(Items) /\ speech[r] # << >>
        BY <2>2, <1>t
    <3> QED
        BY <3>1, Removed
  <2>5. Head(speech[r])[1] = r
      BY <2>4, <1>f DEF InSpeech
  <2>6. \A q \in Requests : \A n \in DOMAIN speech'[q] : speech'[q][n][1] = q /\ speech'[q][n][2] # 0
    <3>1. \A q \in Requests \ {r} : speech'[q] = speech[q]
        BY <2>2, <1>t
    <3>2. speech'[r] = Tail(speech[r])
        BY <2>2, <1>t
    <3>3. \A n \in DOMAIN Tail(speech[r]) : Tail(speech[r])[n][1] = r /\ Tail(speech[r])[n][2] # 0
        BY <2>4, <1>f DEF InSpeech
    <3>4. \A q \in Requests \ {r} : \A n \in DOMAIN speech[q] : speech[q][n][1] = q /\ speech[q][n][2] # 0
        BY <1>f DEF InSpeech
    <3>5. \A q \in Requests \ {r} : \A n \in DOMAIN speech'[q] : speech'[q][n][1] = q /\ speech'[q][n][2] # 0
        BY <3>1, <3>4
    <3>6. \A n \in DOMAIN speech'[r] : speech'[r][n][1] = r /\ speech'[r][n][2] # 0
        BY <3>2, <3>3
    <3> QED
        BY <3>5, <3>6
  <2>7. \A q \in Requests : speech'[q] # << >> => at[q] \in {"model", "closing"}
    <3>1. \A q \in Requests \ {r} : speech'[q] = speech[q]
        BY <2>2, <1>t
    <3> QED
        BY <3>1, <2>3, <1>f DEF InSpeech
  <2>8. sent' # NoItem => at[sent'[1]] \in {"model", "closing"}
      BY <2>2, <2>3, <2>5, <1>f DEF InSpeech
  <2> QED
      BY <2>1, <2>6, <2>7, <2>8, <1>f DEF TurnsFit, InTurn, InSpeech
<1>8. ASSUME NEW r \in Requests, Close(r) \/ GoodbyeSpoken(r) \/ GoodbyeTimesOut(r) PROVE TurnsFit'
  <2>1. /\ \E pc \in {"goodbye", "over"} : at' = [at EXCEPT ![r] = pc]
        /\ at[r] = "goodbye" \/ (at[r] = "closing" /\ speech[r] = << >> /\ sent = NoItem)
        /\ UNCHANGED <<asked, turns, current, put, speech, sent>>
      BY <1>8 DEF Close, GoodbyeSpoken, GoodbyeTimesOut
  <2>2. InTurn'
      BY <2>1, <1>3 DEF Working
  <2>3. sent # NoItem => sent[1] \in Requests /\ sent[1] # r
    <3>1. sent # NoItem => sent[1] \in Requests
        BY Numbers DEF Typed
    <3> QED
        BY <3>1, <2>1, <1>f DEF InSpeech
  <2>4. speech[r] = << >>
      BY <2>1, <1>f DEF InSpeech
  <2>5. InSpeech'
      BY <2>1, <2>3, <2>4, <1>f, <1>t DEF InSpeech
  <2> QED
      BY <2>2, <2>5 DEF TurnsFit
<1>9. ASSUME UNCHANGED <<asked, turns, current, at, put, speech>>, sent' \in {sent, NoItem}
      PROVE  TurnsFit'
    BY <1>9, <1>f DEF TurnsFit, InTurn, InSpeech
<1>10. CASE HearWakePhrase \/ HearStop \/ HearLeave \/ CountItem \/ SpeechEnds
    BY <1>9, <1>10 DEF HearWakePhrase, HearStop, HearLeave, CountItem, SpeechEnds
<1>11. CASE Enqueue \/ Stop \/ Resume \/ PlayEnds \/ \E i \in Items : LineWritten(i) \/ Synthesised(i)
    BY <1>9, <1>11 DEF Enqueue, Stop, Resume, PlayEnds, LineWritten, Synthesised, coreVars
<1>12. CASE UNCHANGED vars
    BY <1>9, <1>12 DEF vars, coreVars
<1> QED
    BY <1>1, <1>2, <1>4, <1>5, <1>6, <1>7, <1>8, <1>10, <1>11, <1>12 DEF Next

--------------------------------------------------------------------------------
(* Where the pieces are. *)
Wire    == WireOf(to_sidecar)
Playing == IF loop.at = "plays" THEN {loop.item} \ {WakeChime} ELSE {}
Unsent  == IF current \in Requests THEN speech[current] ELSE << >>

Chain == ChainOf(played, to_core, Playing, items, Wire, Unsent)

(* Of a turn nothing is sent before it is taken, and nothing it has not put. *)
Reached(i) ==
    /\ i[1] <= current
    /\ i[1] = current /\ current \in Requests =>
         /\ at[current] # "chime"
         /\ at[current] = "model" => i[2] <= put[current]

AllReached == \A i \in Pieces(played, to_core, Playing, items, Wire, Unsent) : Reached(i)

(* What the loop waits for is the head of the queue, unless it was stopped.  *)
LoopFits ==
    /\ loop.generation <= generation
    /\ loop.at = "awaits" /\ ~Stale => items # << >> /\ loop.item = Head(items)

(* A stop or a chime names a turn, not a sentence of it.                     *)
MessagesFit == \A n \in DOMAIN to_sidecar :
    /\ to_sidecar[n].type = "speak" => to_sidecar[n].item[1] # NoTurn /\ to_sidecar[n].item[2] # 0
    /\ to_sidecar[n].type # "speak" => to_sidecar[n].item[2] = 0

PiecesFit == Chain /\ AllReached /\ LoopFits /\ MessagesFit

LEMMA PiecesPrimed ==
    ASSUME NEW p, NEW d, NEW l, NEW i, NEW v, NEW u, ChainOf(p, d, l, i, v, u),
           \A x \in Pieces(p, d, l, i, v, u) : Reached(x)',
           played' = p, to_core' = d, Playing' = l, items' = i, Wire' = v, Unsent' = u
    PROVE  Chain' /\ AllReached'
    BY DEF Chain, AllReached

LEMMA PlacesTyped ==
    ASSUME Typed, SpeechAssumption
    PROVE  /\ Wire \in Seq(Playable) /\ Unsent \in Seq(Playable) /\ played \in Seq(Playable)
           /\ Playing \subseteq Playable /\ items \in Seq(Playable) /\ to_core \in Seq(Playable)
           /\ WireOf(to_sidecar) = Wire
<1>1. Wire \in Seq(Playable)
    BY Wires DEF Wire, Typed
<1>2. Items \subseteq Playable
    BY Numbers
<1>3. Unsent \in Seq(Playable)
  <2>1. Unsent \in Seq(Items)
      BY DEF Unsent, Typed
  <2> QED
      BY <2>1, <1>2
<1>4. played \in Seq(Playable)
    BY <1>2 DEF Typed
<1> QED
    BY <1>1, <1>3, <1>4 DEF Typed, Playing, Wire

LEMMA PiecesMove ==
    ASSUME NEW p \in Seq(Playable), NEW d \in Seq(Playable), NEW l, NEW i \in Seq(Playable),
           NEW v \in Seq(Playable), NEW u \in Seq(Playable), SpeechAssumption
    PROVE  /\ v # << >> => Pieces(p, d \o i, l, << >>, Tail(v), u) \subseteq Pieces(p, d, l, i, v, u)
           /\ i # << >> => /\ Pieces(p, d, {Head(i)} \ {WakeChime}, Tail(i), v, u)
                              \subseteq Pieces(p, d, {}, i, v, u)
                           /\ Pieces(Append(p, Head(i)), d, {Head(i)} \ {WakeChime}, Tail(i), v, u)
                              \subseteq Pieces(p, d, {}, i, v, u)
                           /\ Pieces(p, Append(d, Head(i)), {}, Tail(i), v, u)
                              \subseteq Pieces(p, d, {}, i, v, u)
           /\ d # << >> => Pieces(p, Tail(d), l, i, v, u) \subseteq Pieces(p, d, l, i, v, u)
<1>1. \A s \in Seq(Playable) : s # << >> =>
         /\ Head(s) \in Playable /\ Tail(s) \in Seq(Playable)
         /\ Of(s) = ({Head(s)} \ {WakeChime}) \cup Of(Tail(s))
    BY First
<1>2. \A s \in Seq(Playable), x \in Playable : Of(Append(s, x)) = Of(s) \cup ({x} \ {WakeChime})
    BY OneMore
<1>3. Of(d \o i) = Of(d) \cup Of(i) /\ Of(<< >>) = {}
    BY Joined, Empty
<1>4. v # << >> => Pieces(p, d \o i, l, << >>, Tail(v), u) \subseteq Pieces(p, d, l, i, v, u)
    BY <1>1, <1>3 DEF Pieces
<1>5. ASSUME i # << >>
      PROVE  /\ Pieces(p, d, {Head(i)} \ {WakeChime}, Tail(i), v, u) \subseteq Pieces(p, d, {}, i, v, u)
             /\ Pieces(Append(p, Head(i)), d, {Head(i)} \ {WakeChime}, Tail(i), v, u)
                \subseteq Pieces(p, d, {}, i, v, u)
             /\ Pieces(p, Append(d, Head(i)), {}, Tail(i), v, u) \subseteq Pieces(p, d, {}, i, v, u)
    BY <1>5, <1>1, <1>2 DEF Pieces
<1>6. d # << >> => Pieces(p, Tail(d), l, i, v, u) \subseteq Pieces(p, d, l, i, v, u)
    BY <1>1 DEF Pieces
<1> QED
    BY <1>4, <1>5, <1>6

LEMMA PiecesQueue ==
    ASSUME NEW p, NEW d, NEW l, NEW i \in Seq(Playable), NEW v \in Seq(Playable), NEW u, v # << >>
    PROVE  Pieces(p, d, l, Append(i, Head(v)), Tail(v), u) = Pieces(p, d, l, i, v, u)
<1>1. Head(v) \in Playable /\ Of(v) = ({Head(v)} \ {WakeChime}) \cup Of(Tail(v))
    BY First
<1>2. Of(Append(i, Head(v))) = Of(i) \cup ({Head(v)} \ {WakeChime})
    BY <1>1, OneMore
<1> QED
    BY <1>1, <1>2 DEF Pieces

LEMMA PiecesEnd ==
    ASSUME NEW p, NEW d \in Seq(Playable), NEW i, NEW v, NEW u, NEW x \in Playable
    PROVE  Pieces(p, Append(d, x), {}, i, v, u) = Pieces(p, d, {x} \ {WakeChime}, i, v, u)
<1>1. Of(Append(d, x)) = Of(d) \cup ({x} \ {WakeChime})
    BY OneMore
<1> QED
    BY <1>1 DEF Pieces

LEMMA PiecesSends ==
    ASSUME NEW p, NEW d, NEW l, NEW i, NEW v \in Seq(Playable), NEW u \in Seq(Playable), u # << >>
    PROVE  /\ Pieces(p, d, l, i, v, Tail(u)) \subseteq Pieces(p, d, l, i, v, u)
           /\ Pieces(p, d, l, i, Append(v, Head(u)), Tail(u)) = Pieces(p, d, l, i, v, u)
<1>1. Head(u) \in Playable /\ Of(u) = ({Head(u)} \ {WakeChime}) \cup Of(Tail(u))
    BY First
<1>2. Of(Append(v, Head(u))) = Of(v) \cup ({Head(u)} \ {WakeChime})
    BY <1>1, OneMore
<1> QED
    BY <1>1, <1>2 DEF Pieces

LEMMA PiecesAdd ==
    ASSUME NEW p, NEW d, NEW l, NEW i, NEW v \in Seq(Playable), NEW u \in Seq(Playable),
           NEW x \in Playable
    PROVE  /\ Pieces(p, d, l, i, v, Append(u, x)) \subseteq Pieces(p, d, l, i, v, u) \cup {x}
           /\ Pieces(p, d, l, i, Append(v, x), u) \subseteq Pieces(p, d, l, i, v, u) \cup {x}
           /\ x = WakeChime =>
                Pieces(p, d, l, i, Append(v, x), u) \subseteq Pieces(p, d, l, i, v, u)
<1>1. Of(Append(v, x)) = Of(v) \cup ({x} \ {WakeChime}) /\ Of(Append(u, x)) = Of(u) \cup ({x} \ {WakeChime})
    BY OneMore
<1> QED
    BY <1>1 DEF Pieces

LEMMA PiecesInitially == ASSUME Init, SpeechAssumption PROVE PiecesFit
<1>1. /\ played = << >> /\ to_core = << >> /\ items = << >> /\ to_sidecar = << >>
      /\ loop.at = "idle" /\ loop.generation = 0 /\ generation = 0 /\ current = NoTurn
    BY DEF Init
<1>2. Playing = {} /\ Unsent = << >>
    BY <1>1, Numbers DEF Playing, Unsent
<1>3. Wire = << >>
  <2>1. << >> \in Seq(Message)
      OBVIOUS
  <2>2. WireOf(<< >>) \in Seq(Playable) /\ Len(WireOf(<< >>)) = 0
      BY <2>1, Wires
  <2> QED
      BY <1>1, <2>2 DEF Wire
<1>4. Chain
    BY <1>1, <1>2, <1>3, Empty DEF Chain, ChainOf, Ahead
<1>5. AllReached
    BY <1>1, <1>2, <1>3, Empty DEF AllReached, Pieces
<1>6. LoopFits /\ MessagesFit
  <2>1. DOMAIN to_sidecar = {}
      BY <1>1
  <2> QED
      BY <1>1, <2>1 DEF LoopFits, MessagesFit
<1> QED
    BY <1>4, <1>5, <1>6 DEF PiecesFit

(* Steps that move no piece. *)
LEMMA PiecesRest ==
    ASSUME PiecesFit, UNCHANGED <<played, to_core, Playing, items, Wire, Unsent>>,
           \A x : Reached(x) => Reached(x)'
    PROVE  Chain' /\ AllReached'
    BY PiecesPrimed DEF PiecesFit, Chain, AllReached

(* Messages that carry no piece: a wake chime and a stop.                   *)
LEMMA PiecesPass ==
    ASSUME PiecesFit, Typed, SpeechAssumption,
           UNCHANGED <<played, to_core, Playing, items, Unsent, current, at, put>>,
           NEW m \in Message, Piece(m) = WakeChime, Send(m)
    PROVE  Chain' /\ AllReached'
<1>1. Wire' = Append(Wire, WakeChime)
  <2>1. WireOf(Append(to_sidecar, m)) = Append(WireOf(to_sidecar), WakeChime)
      BY WireGrows DEF Typed
  <2> QED
      BY <2>1 DEF Wire, Send
<1>2. WakeChime \in Playable
    BY Numbers
<1>3. ChainOf(played, to_core, Playing, items, Append(Wire, WakeChime), Unsent)
    BY <1>2, PlacesTyped, ChainChimes DEF PiecesFit, Chain
<1>4. Pieces(played, to_core, Playing, items, Append(Wire, WakeChime), Unsent)
      \subseteq Pieces(played, to_core, Playing, items, Wire, Unsent)
    BY <1>2, PlacesTyped, PiecesAdd
<1>5. \A x : Reached(x) => Reached(x)'
    BY DEF Reached
<1> QED
    BY <1>1, <1>3, <1>4, <1>5, PiecesPrimed DEF PiecesFit, AllReached

(* A piece put behind what the turn has put.                                *)
LEMMA PiecesPut ==
    ASSUME PiecesFit, Typed, TurnsFit, SpeechAssumption, NEW r \in Requests, at[r] = "model",
           UNCHANGED <<played, to_core, Playing, items, Wire, current>>,
           NEW k, k = put[r] + 1, <<r, k>> \in Items,
           speech' = [speech EXCEPT ![r] = Append(@, <<r, k>>)],
           at' = [at EXCEPT ![r] = at'[r]], put' = [put EXCEPT ![r] = put'[r]],
           at'[r] # "chime", at'[r] = "model" => put'[r] = k
    PROVE  Chain' /\ AllReached'
<1>1. r = current
    BY DEF TurnsFit, InTurn, Working
<1>2. Unsent = speech[r] /\ Unsent' = Append(Unsent, <<r, k>>)
    BY <1>1 DEF Unsent, Typed
<1>3. put[r] \in Nat /\ k \in Nat /\ r \in Nat /\ current \in Nat
  <2>1. put[r] \in 0 .. MaxItems /\ MaxItems \in Nat /\ r \in Nat
      BY Numbers DEF Typed
  <2> QED
      BY <2>1, <1>1
<1>4. PICK y \in Items : y = <<r, k>> /\ y[1] = r /\ y[2] = k /\ y \in Playable
    BY Numbers
<1> DEFINE P == Pieces(played, to_core, Playing, items, Wire, Unsent)
<1>5. \A x \in P : x \in Playable
    BY PlacesTyped DEF Pieces, Of
<1>6. \A x \in P : x[1] \in Nat /\ x[2] \in Nat
    BY <1>5, Numbers
<1>7. \A x \in P : x[1] <= r /\ (x[1] = r => x[2] <= put[r])
    BY <1>1 DEF PiecesFit, AllReached, Reached
<1>8. Ahead(P, {y})
    BY <1>3, <1>4, <1>6, <1>7 DEF Ahead, Before
<1>9. ChainOf(played, to_core, Playing, items, Wire, Append(Unsent, y))
    BY <1>4, <1>8, PlacesTyped, ChainGrows DEF PiecesFit, Chain
<1>10. Pieces(played, to_core, Playing, items, Wire, Append(Unsent, y)) \subseteq P \cup {y}
  <2>1. Wire \in Seq(Playable) /\ Unsent \in Seq(Playable)
      BY PlacesTyped
  <2> QED
      BY <1>4, <2>1, PiecesAdd
<1>11. \A x \in P \cup {y} : Reached(x)'
  <2> SUFFICES ASSUME NEW x \in P \cup {y} PROVE Reached(x)'
      OBVIOUS
  <2>1. x[1] \in Nat /\ x[2] \in Nat /\ x[1] <= r /\ (x[1] = r => x[2] <= k)
      BY <1>3, <1>4, <1>6, <1>7
  <2> HIDE DEF P
  <2> QED
      BY <1>1, <1>3, <2>1 DEF Reached
<1> QED
    BY <1>2, <1>4, <1>9, <1>10, <1>11, PiecesPrimed

LEMMA CorePieces ==
    ASSUME Typed, TurnsFit, PiecesFit, SpeechAssumption, UNCHANGED playVars,
           \/ HearRequest \/ HearWakePhrase \/ HearStop \/ HearLeave \/ Take
           \/ \E r \in Requests :
                \/ Chime(r) \/ Say(r) \/ CallTool(r) \/ NextModelCall(r) \/ generate_streamed(r)
                \/ SendItem(r) \/ Close(r) \/ GoodbyeSpoken(r) \/ GoodbyeTimesOut(r)
           \/ CountItem \/ SpeechEnds
    PROVE  Chain' /\ AllReached'
<1> USE SpeechAssumption
<1>p. UNCHANGED <<played, items, Playing>>
    BY DEF playVars, Playing
<1>t. /\ asked \in Nat /\ current \in Nat /\ (current \notin Requests => current = NoTurn)
      /\ at \in [Requests -> {"new", "busy", "queued", "over"} \cup Working]
      /\ put \in [Requests -> 0 .. MaxItems] /\ speech \in [Requests -> Seq(Items)]
      /\ \A r \in Requests : r \in Nat
  <2>1. asked \in 0 .. MaxRequests /\ MaxRequests \in Nat /\ current \in Requests \cup {NoTurn}
      BY Numbers DEF Typed
  <2>2. \A r \in Requests : r \in Nat
      BY Numbers
  <2>3. current \in Nat /\ (current \notin Requests => current = NoTurn)
      BY <2>1, <2>2 DEF NoTurn
  <2>4. at \in [Requests -> {"new", "busy", "queued", "over"} \cup Working]
      BY DEF Typed
  <2>5. put \in [Requests -> 0 .. MaxItems] /\ speech \in [Requests -> Seq(Items)]
      BY DEF Typed
  <2> QED
      BY <2>1, <2>2, <2>3, <2>4, <2>5
<1>w. to_sidecar' = to_sidecar => Wire' = Wire
    BY DEF Wire
<1>u. current' = current /\ speech' = speech => Unsent' = Unsent
    BY DEF Unsent
<1>r. ASSUME UNCHANGED <<current, put>>, NEW r \in Requests, NEW pc, at' = [at EXCEPT ![r] = pc],
             pc \notin {"chime", "model"} \/ r # current
      PROVE  \A x : Reached(x) => Reached(x)'
  <2>1. current \in Requests => at'[current] = at[current] \/ at'[current] \notin {"chime", "model"}
      BY <1>r, <1>t
  <2> QED
      BY <1>r, <2>1 DEF Reached
<1>s. UNCHANGED <<current, at, put>> => \A x : Reached(x) => Reached(x)'
    BY DEF Reached
<1>1. CASE HearRequest
  <2>1. UNCHANGED <<to_sidecar, to_core, current, speech, put>>
      BY <1>1 DEF HearRequest
  <2>2. asked + 1 \in Requests /\ asked + 1 # current
    <3>1. asked < MaxRequests /\ MaxRequests \in Nat /\ current <= asked
        BY <1>1, Numbers DEF HearRequest, TurnsFit, InTurn
    <3> QED
        BY <3>1, <1>t DEF Requests
  <2>3. \E pc \in {"queued", "busy"} : at' = [at EXCEPT ![asked + 1] = pc]
      BY <1>1 DEF HearRequest
  <2>4. \A x : Reached(x) => Reached(x)'
      BY <2>1, <2>2, <2>3, <1>r
  <2> QED
      BY <2>1, <2>4, <1>p, <1>w, <1>u, PiecesRest
<1>2. CASE HearWakePhrase \/ HearStop
  <2>1. UNCHANGED <<to_core, current, speech, at, put>>
      BY <1>2 DEF HearWakePhrase, HearStop
  <2>2. PICK m \in Message : Send(m) /\ Piece(m) = WakeChime
    <3>1. CASE HearWakePhrase
      <4>1. [type |-> "chime", item |-> WakeChime] \in Message
          BY Numbers DEF Message
      <4> QED
          BY <3>1, <4>1 DEF HearWakePhrase, Piece
    <3>2. CASE HearStop
      <4>1. <<current, 0>> \in Playable
        <5>1. current \in Requests \/ current = NoTurn
            BY <1>t
        <5> QED
            BY <5>1, Numbers DEF Playable, WakeChime
      <4>2. [type |-> "stop", item |-> <<current, 0>>] \in Message
          BY <4>1 DEF Message
      <4> QED
          BY <3>2, <4>2 DEF HearStop, Piece
    <3> QED
        BY <1>2, <3>1, <3>2
  <2> QED
      BY <2>1, <2>2, <1>p, <1>u, PiecesPass
<1>3. CASE HearLeave \/ CountItem
  <2>1. UNCHANGED <<to_sidecar, to_core, current, speech, at, put>>
      BY <1>3 DEF HearLeave, CountItem
  <2> QED
      BY <2>1, <1>p, <1>w, <1>u, <1>s, PiecesRest
<1>4. CASE Take
  <2>1. PICK r \in Requests : /\ r = Head(turns) /\ r > current /\ at[r] = "queued"
                              /\ current' = r /\ at' = [at EXCEPT ![r] = "chime"]
                              /\ UNCHANGED <<to_sidecar, to_core, speech, put>> /\ Running = {}
    <3>1. turns # << >> /\ turns \in Seq(Requests)
        BY <1>4 DEF Take, Typed
    <3>2. Head(turns) = turns[1] /\ 1 \in DOMAIN turns /\ Head(turns) \in Requests
        BY <3>1, Removed
    <3>3. turns[1] > current /\ at[turns[1]] = "queued"
        BY <3>2 DEF TurnsFit, InTurn
    <3> QED
        BY <1>4, <3>2, <3>3 DEF Take
  <2>2. speech[r] = << >>
      BY <2>1 DEF TurnsFit, InSpeech
  <2>3. Unsent = << >>
    <3>1. current \in Requests => at[current] \notin {"model", "closing"}
        BY <2>1 DEF Running, Working
    <3> QED
        BY <3>1 DEF Unsent, TurnsFit, InSpeech
  <2>4. Unsent' = << >>
      BY <2>1, <2>2 DEF Unsent
  <2>5. \A x \in Playable : Reached(x) => Reached(x)'
    <3> SUFFICES ASSUME NEW x \in Playable, Reached(x) PROVE Reached(x)'
        OBVIOUS
    <3>1. x[1] \in Nat /\ x[1] <= current /\ r \in Nat
        BY Numbers, <1>t DEF Reached
    <3>2. x[1] < r
        BY <3>1, <2>1, <1>t
    <3> QED
        BY <2>1, <3>1, <3>2 DEF Reached
  <2>6. \A x \in Pieces(played, to_core, Playing, items, Wire, Unsent) : x \in Playable
      BY PlacesTyped DEF Pieces, Of
  <2> QED
      BY <2>1, <2>3, <2>4, <2>5, <2>6, <1>p, <1>w, PiecesPrimed DEF PiecesFit, Chain, AllReached
<1>5. ASSUME NEW r \in Requests, Chime(r) PROVE Chain' /\ AllReached'
  <2>1. /\ at[r] = "chime" /\ at' = [at EXCEPT ![r] = "model"]
        /\ UNCHANGED <<to_core, current, speech, put>>
        /\ to_sidecar' = to_sidecar \/ Send([type |-> "chime", item |-> <<r, 0>>])
      BY <1>5 DEF Chime
  <2>2. r = current
      BY <2>1 DEF TurnsFit, InTurn, Working
  <2>3. Unsent = << >>
      BY <2>1, <2>2 DEF TurnsFit, InSpeech, Unsent
  <2> DEFINE P == Pieces(played, to_core, Playing, items, Wire, Unsent)
  <2>4. \A x \in P : x[1] < r /\ x[1] \in Nat
    <3> SUFFICES ASSUME NEW x \in P PROVE x[1] < r /\ x[1] \in Nat
        OBVIOUS
    <3>1. x \in Playable
        BY PlacesTyped DEF Pieces, Of
    <3>2. x[1] <= r /\ x[1] # r
        BY <2>1, <2>2 DEF PiecesFit, AllReached, Reached
    <3>3. x[1] \in Nat
        BY <3>1, Numbers
    <3> HIDE DEF P
    <3> QED
        BY <3>2, <3>3, <1>t
  <2>5. \A x \in P : Reached(x)'
    <3> SUFFICES ASSUME NEW x \in P PROVE Reached(x)'
        OBVIOUS
    <3>1. x[1] < r /\ x[1] \in Nat /\ r \in Nat
        BY <2>4, <1>t
    <3>2. x[1] <= r /\ x[1] # r
        BY <3>1
    <3> HIDE DEF P
    <3> QED
        BY <2>1, <2>2, <3>2 DEF Reached
  <2>6. CASE to_sidecar' = to_sidecar
      BY <2>1, <2>5, <2>6, <1>p, <1>w, <1>u, PiecesPrimed DEF PiecesFit, Chain
  <2>7. CASE Send([type |-> "chime", item |-> <<r, 0>>])
    <3>1. PICK y \in Playable : y = <<r, 0>> /\ y[1] = r /\ y[2] = 0
        BY Numbers
    <3>2. Wire' = Append(Wire, y)
      <4>1. [type |-> "chime", item |-> y] \in Message
          BY DEF Message
      <4>2. WireOf(Append(to_sidecar, [type |-> "chime", item |-> y])) = Append(WireOf(to_sidecar), y)
          BY <4>1, WireGrows DEF Typed, Piece
      <4> QED
          BY <2>7, <3>1, <4>2 DEF Wire, Send
    <3>3. Ahead(P, {y})
        BY <2>4, <3>1 DEF Ahead, Before
    <3>4. ChainOf(played, to_core, Playing, items, Append(Wire, y), Unsent)
        BY <2>3, <3>1, <3>3, Empty, PlacesTyped, ChainChimes DEF PiecesFit, Chain
    <3>5. Pieces(played, to_core, Playing, items, Append(Wire, y), Unsent) \subseteq P \cup {y}
        BY <3>1, PlacesTyped, PiecesAdd
    <3>6. Reached(y)'
      <4>1. put[r] \in 0 .. MaxItems /\ MaxItems \in Nat
          BY Numbers, <1>t
      <4> QED
          BY <2>1, <2>2, <3>1, <4>1, <1>t DEF Reached
    <3> QED
        BY <2>1, <2>5, <3>2, <3>4, <3>5, <3>6, <1>p, <1>u, PiecesPrimed
  <2> QED
      BY <2>1, <2>6, <2>7
<1>6. ASSUME NEW r \in Requests, Say(r) \/ CallTool(r) \/ NextModelCall(r) PROVE Chain' /\ AllReached'
  <2>1. at[r] = "model" /\ UNCHANGED <<to_sidecar, to_core, current, at>>
      BY <1>6 DEF Say, CallTool, NextModelCall
  <2>2. CASE UNCHANGED <<put, speech>>
      BY <2>1, <2>2, <1>p, <1>w, <1>u, <1>s, PiecesRest
  <2>3. CASE Put(r) /\ put[r] < MaxItems
    <3>1. PICK k : k = put[r] + 1
        OBVIOUS
    <3>2. /\ <<r, k>> \in Items /\ speech' = [speech EXCEPT ![r] = Append(@, <<r, k>>)]
          /\ put' = [put EXCEPT ![r] = k]
        BY <2>3, <3>1, PutTyped DEF Put
    <3>3. at' = [at EXCEPT ![r] = at'[r]] /\ put' = [put EXCEPT ![r] = put'[r]] /\ put'[r] = k
          /\ at'[r] = "model"
        BY <2>1, <3>2, <1>t
    <3> QED
        BY <2>1, <3>1, <3>2, <3>3, <1>p, <1>w, PiecesPut
  <2> QED
      BY <1>6, <2>2, <2>3 DEF Say, CallTool, NextModelCall
<1>7. ASSUME NEW r \in Requests, generate_streamed(r) PROVE Chain' /\ AllReached'
  <2>1. at[r] = "model" /\ UNCHANGED <<to_sidecar, to_core, current>>
      BY <1>7 DEF generate_streamed
  <2>2. CASE UNCHANGED <<at, put, speech>>
      BY <2>1, <2>2, <1>p, <1>w, <1>u, <1>s, PiecesRest
  <2>3. CASE at' = [at EXCEPT ![r] = "closing"] /\ put' = [put EXCEPT ![r] = 0] /\ speech' = speech
    <3>1. \A x : Reached(x) => Reached(x)'
      <4>1. r = current
          BY <2>1 DEF TurnsFit, InTurn, Working
      <4>2. at'[r] = "closing"
          BY <2>3, <1>t
      <4> QED
          BY <2>1, <4>1, <4>2 DEF Reached
    <3> QED
        BY <2>1, <2>3, <3>1, <1>p, <1>w, <1>u, PiecesRest
  <2>4. CASE /\ at' = [at EXCEPT ![r] = "closing"] /\ put' = [put EXCEPT ![r] = 0]
             /\ speech' = [speech EXCEPT ![r] = Append(@, <<r, put[r] + 1>>)]
    <3>1. PICK k : k = put[r] + 1
        OBVIOUS
    <3>2. <<r, k>> \in Items
      <4>1. put[r] \in 0 .. MaxItems /\ MaxItems \in Nat
          BY Numbers, <1>t
      <4>2. k \in 0 .. MaxItems + 1
          BY <3>1, <4>1
      <4> QED
          BY <4>2 DEF Items
    <3>3. at' = [at EXCEPT ![r] = at'[r]] /\ put' = [put EXCEPT ![r] = put'[r]] /\ at'[r] = "closing"
        BY <2>4, <1>t
    <3> QED
        BY <2>1, <2>4, <3>1, <3>2, <3>3, <1>p, <1>w, PiecesPut
  <2> QED
      BY <1>7, <2>2, <2>3, <2>4 DEF generate_streamed, RetriesWithoutOption, Answers, StreamFails, Written
<1>8. ASSUME NEW r \in Requests, SendItem(r) PROVE Chain' /\ AllReached'
  <2>1. /\ speech[r] # << >> /\ speech' = [speech EXCEPT ![r] = Tail(@)]
        /\ \/ UNCHANGED to_sidecar
           \/ Send([type |-> "speak", item |-> Head(speech[r])])
      BY <1>8, Sends
  <2>2. UNCHANGED <<to_core, current, at, put>>
      BY <1>8 DEF SendItem
  <2>3. at[r] \in Working
      BY <2>1 DEF TurnsFit, InSpeech, Working
  <2>4. r = current
      BY <2>3 DEF TurnsFit, InTurn
  <2>5. Unsent = speech[r] /\ Unsent' = Tail(Unsent) /\ Unsent # << >>
      BY <2>1, <2>2, <2>4, <1>t DEF Unsent
  <2>6. /\ ChainOf(played, to_core, Playing, items, Wire, Tail(Unsent))
        /\ ChainOf(played, to_core, Playing, items, Append(Wire, Head(Unsent)), Tail(Unsent))
      BY <2>5, PlacesTyped, ChainSends DEF PiecesFit, Chain
  <2>7. /\ Pieces(played, to_core, Playing, items, Wire, Tail(Unsent))
           \subseteq Pieces(played, to_core, Playing, items, Wire, Unsent)
        /\ Pieces(played, to_core, Playing, items, Append(Wire, Head(Unsent)), Tail(Unsent))
           = Pieces(played, to_core, Playing, items, Wire, Unsent)
    <3>1. Wire \in Seq(Playable) /\ Unsent \in Seq(Playable) /\ Unsent # << >>
        BY <2>5, PlacesTyped
    <3> QED
        BY <3>1, PiecesSends
  <2>8. \A x \in Pieces(played, to_core, Playing, items, Wire, Unsent) : Reached(x)'
      BY <2>2, <1>s DEF PiecesFit, AllReached
  <2>9. Wire' = Wire \/ Wire' = Append(Wire, Head(Unsent))
    <3>1. CASE Send([type |-> "speak", item |-> Head(speech[r])])
      <4>1. [type |-> "speak", item |-> Head(Unsent)] \in Message
        <5>1. Head(Unsent) \in Playable
            BY <2>5, PlacesTyped
        <5> QED
            BY <5>1 DEF Message
      <4>2. WireOf(Append(to_sidecar, [type |-> "speak", item |-> Head(Unsent)]))
            = Append(WireOf(to_sidecar), Head(Unsent))
          BY <4>1, WireGrows DEF Typed, Piece
      <4> QED
          BY <2>5, <3>1, <4>2 DEF Wire, Send
    <3> QED
        BY <2>1, <3>1, <1>w
  <2> QED
      BY <2>2, <2>5, <2>6, <2>7, <2>8, <2>9, <1>p, PiecesPrimed
<1>9. ASSUME NEW r \in Requests, Close(r) \/ GoodbyeSpoken(r) \/ GoodbyeTimesOut(r)
      PROVE  Chain' /\ AllReached'
  <2>1. /\ \E pc \in {"goodbye", "over"} : at' = [at EXCEPT ![r] = pc]
        /\ UNCHANGED <<to_sidecar, to_core, current, put, speech>>
      BY <1>9 DEF Close, GoodbyeSpoken, GoodbyeTimesOut
  <2>2. \A x : Reached(x) => Reached(x)'
      BY <2>1, <1>r
  <2> QED
      BY <2>1, <2>2, <1>p, <1>w, <1>u, PiecesRest
<1>10. CASE SpeechEnds
  <2>1. to_core # << >> /\ to_core' = Tail(to_core) /\ UNCHANGED <<to_sidecar, current, at, put, speech>>
      BY <1>10 DEF SpeechEnds
  <2>2. ChainOf(played, Tail(to_core), Playing, items, Wire, Unsent)
      BY <2>1, PlacesTyped, ChainReports DEF PiecesFit, Chain
  <2>3. Pieces(played, Tail(to_core), Playing, items, Wire, Unsent)
        \subseteq Pieces(played, to_core, Playing, items, Wire, Unsent)
      BY <2>1, PlacesTyped, PiecesMove
  <2>4. \A x \in Pieces(played, to_core, Playing, items, Wire, Unsent) : Reached(x)'
      BY <2>1, <1>s DEF PiecesFit, AllReached
  <2> QED
      BY <2>1, <2>2, <2>3, <2>4, <1>p, <1>w, <1>u, PiecesPrimed
<1> QED
    BY <1>1, <1>2, <1>3, <1>4, <1>5, <1>6, <1>7, <1>8, <1>9, <1>10

(* What the sidecar does with the pieces: it queues the next, hands all of   *)
(* them back, plays the head, gives it up, or is done with one.              *)
Queues == /\ Wire # << >> /\ items' = Append(items, Head(Wire)) /\ Wire' = Tail(Wire)
          /\ UNCHANGED <<played, to_core, Playing>>
Clears == /\ Wire # << >> /\ items' = << >> /\ to_core' = to_core \o items /\ Wire' = Tail(Wire)
          /\ UNCHANGED <<played, Playing>>
Plays  == /\ Playing = {} /\ items # << >> /\ items' = Tail(items)
          /\ Playing' = {Head(items)} \ {WakeChime}
          /\ \/ UNCHANGED played
             \/ Head(items) # WakeChime /\ played' = Append(played, Head(items))
          /\ UNCHANGED <<to_core, Wire>>
Fails  == /\ Playing = {} /\ Playing' = {} /\ items # << >> /\ items' = Tail(items)
          /\ to_core' = Append(to_core, Head(items)) /\ UNCHANGED <<played, Wire>>
Ends   == /\ \E x \in Playable : Playing = {x} \ {WakeChime} /\ to_core' = Append(to_core, x)
          /\ Playing' = {} /\ UNCHANGED <<played, items, Wire>>
Stays  == UNCHANGED <<played, to_core, Playing, items, Wire>>

LEMMA PlayMoves ==
    ASSUME Typed, LoopFits, SpeechAssumption, UNCHANGED coreVars,
           Enqueue \/ Stop \/ Resume \/ PlayEnds \/ \E i \in Items : Synthesised(i)
    PROVE  Queues \/ Clears \/ Plays \/ Fails \/ Ends \/ Stays
<1> USE SpeechAssumption
<1>t. items \in Seq(Playable) /\ to_core \in Seq(Playable)
    BY PlacesTyped
<1>l. \A q : Look(q) /\ loop.at # "plays" => Playing = {} /\ Playing' = {}
    BY DEF Look, Playing
<1>w. to_sidecar # << >> /\ to_sidecar' = Tail(to_sidecar) =>
         Wire # << >> /\ Head(Wire) = Piece(Head(to_sidecar)) /\ Wire' = Tail(Wire)
  <2>1. to_sidecar # << >> => /\ WireOf(to_sidecar) # << >>
                              /\ Head(WireOf(to_sidecar)) = Piece(Head(to_sidecar))
                              /\ WireOf(Tail(to_sidecar)) = Tail(WireOf(to_sidecar))
      BY WireMoves DEF Typed
  <2> QED
      BY <2>1 DEF Wire
<1>1. CASE Enqueue
  <2>1. /\ Wire # << >> /\ Wire' = Tail(Wire) /\ Head(Wire) = Head(to_sidecar).item
      BY <1>1, <1>w DEF Enqueue, Piece
  <2>2. items' = Append(items, Head(Wire)) /\ UNCHANGED <<played, to_core>>
      BY <1>1, <2>1 DEF Enqueue
  <2>3. Playing' = Playing
    <3>1. CASE loop.at = "idle"
        BY <1>1, <3>1, <1>l DEF Enqueue
    <3>2. CASE loop.at # "idle"
        BY <1>1, <3>2 DEF Enqueue, Playing
    <3> QED
        BY <3>1, <3>2
  <2> QED
      BY <2>1, <2>2, <2>3 DEF Queues
<1>2. CASE Stop
  <2>1. /\ Wire # << >> /\ Wire' = Tail(Wire) /\ items' = << >> /\ to_core' = to_core \o items
        /\ UNCHANGED <<played, loop>>
      BY <1>2, <1>w DEF Stop, Emit
  <2>2. Playing' = Playing
      BY <2>1 DEF Playing
  <2> QED
      BY <2>1, <2>2 DEF Clears
<1>3. CASE Resume
  <2>1. loop.at = "awaits" /\ Playing = {} /\ UNCHANGED Wire
      BY <1>3 DEF Resume, Playing, Wire
  <2>2. CASE Stale
    <3>1. UNCHANGED <<items, to_core, played>> /\ Playing' = Playing
        BY <1>3, <2>1, <2>2, <1>l DEF Resume
    <3> QED
        BY <3>1, <2>1 DEF Stays
  <2>3. CASE ~Stale
    <3>1. items # << >> /\ loop.item = Head(items) /\ Head(items) \in Playable
      <4>1. items # << >> /\ loop.item = Head(items)
          BY <2>1, <2>3 DEF LoopFits
      <4> QED
          BY <4>1, <1>t
    <3>2. items' = Tail(items)
        BY <1>3, <2>3, <3>1 DEF Resume
    <3>3. CASE audio[loop.item] = "failed"
      <4>1. to_core' = to_core \o <<Head(items)>> /\ played' = played /\ Look(Tail(items))
          BY <1>3, <2>3, <3>1, <3>3 DEF Resume, Emit
      <4>2. to_core \o <<Head(items)>> = Append(to_core, Head(items))
          BY <1>t, <3>1
      <4>3. Playing' = {}
          BY <4>1, <2>1, <1>l
      <4> QED
          BY <2>1, <3>1, <3>2, <4>1, <4>2, <4>3 DEF Fails
    <3>4. CASE audio[loop.item] # "failed"
      <4>1. /\ UNCHANGED to_core /\ loop' = [loop EXCEPT !.at = "plays"]
            /\ \/ played' = played
               \/ Head(items) # WakeChime /\ played' = Append(played, Head(items))
          BY <1>3, <2>3, <3>1, <3>4 DEF Resume
      <4>2. Playing' = {Head(items)} \ {WakeChime}
        <5>1. loop'.at = "plays" /\ loop'.item = Head(items)
            BY <4>1, <3>1 DEF Typed
        <5> QED
            BY <5>1 DEF Playing
      <4> QED
          BY <2>1, <3>1, <3>2, <4>1, <4>2 DEF Plays
    <3> QED
        BY <3>3, <3>4
  <2> QED
      BY <2>2, <2>3
<1>4. CASE PlayEnds
  <2>1. Playing = {loop.item} \ {WakeChime} /\ loop.item \in Playable
      BY <1>4 DEF PlayEnds, Playing, Typed
  <2>2. UNCHANGED <<played, items, Wire>> /\ Look(items) /\ to_core' = to_core \o <<loop.item>>
      BY <1>4 DEF PlayEnds, Wire, Emit
  <2>3. Playing' = {}
      BY <2>2 DEF Look, Playing
  <2>4. to_core' = Append(to_core, loop.item)
      BY <2>1, <2>2, <1>t
  <2> QED
      BY <2>1, <2>2, <2>3, <2>4 DEF Ends
<1>5. CASE \E i \in Items : Synthesised(i)
    BY <1>5 DEF Synthesised, Wire, Playing, Stays
<1> QED
    BY <1>1, <1>2, <1>3, <1>4, <1>5

LEMMA PlayPieces ==
    ASSUME Typed, PiecesFit, SpeechAssumption, UNCHANGED coreVars,
           Queues \/ Clears \/ Plays \/ Fails \/ Ends \/ Stays
    PROVE  Chain' /\ AllReached'
<1> USE SpeechAssumption
<1>u. UNCHANGED <<Unsent, current, at, put>>
    BY DEF coreVars, Unsent
<1>s. \A x \in Pieces(played, to_core, Playing, items, Wire, Unsent) : Reached(x)'
    BY <1>u DEF PiecesFit, AllReached, Reached
<1>t. /\ Wire \in Seq(Playable) /\ Unsent \in Seq(Playable) /\ played \in Seq(Playable)
      /\ Playing \subseteq Playable /\ items \in Seq(Playable) /\ to_core \in Seq(Playable)
    BY PlacesTyped
<1>c. ChainOf(played, to_core, Playing, items, Wire, Unsent)
    BY DEF PiecesFit, Chain
<1>1. CASE Queues
  <2>1. ChainOf(played, to_core, Playing, Append(items, Head(Wire)), Tail(Wire), Unsent)
      BY <1>1, <1>t, <1>c, ChainQueues DEF Queues
  <2>2. Pieces(played, to_core, Playing, Append(items, Head(Wire)), Tail(Wire), Unsent)
        = Pieces(played, to_core, Playing, items, Wire, Unsent)
      BY <1>1, <1>t, PiecesQueue DEF Queues
  <2> QED
      BY <1>1, <2>1, <2>2, <1>u, <1>s, PiecesPrimed DEF Queues
<1>2. CASE Clears
  <2>1. \A x \in Playing : ~Before(x, x)
      BY <1>t, BeforeIsStrict
  <2>2. ChainOf(played, to_core \o items, Playing, << >>, Tail(Wire), Unsent)
      BY <1>2, <2>1, <1>t, <1>c, ChainClears DEF Clears
  <2>3. Pieces(played, to_core \o items, Playing, << >>, Tail(Wire), Unsent)
        \subseteq Pieces(played, to_core, Playing, items, Wire, Unsent)
      BY <1>2, <1>t, PiecesMove DEF Clears
  <2> QED
      BY <1>2, <2>2, <2>3, <1>u, <1>s, PiecesPrimed DEF Clears
<1>3. CASE Plays
  <2>1. PICK q : q = played'
      OBVIOUS
  <2>2. ChainOf(q, to_core, {Head(items)} \ {WakeChime}, Tail(items), Wire, Unsent)
      BY <1>3, <2>1, <1>t, <1>c, ChainPlays DEF Plays
  <2>3. Pieces(q, to_core, {Head(items)} \ {WakeChime}, Tail(items), Wire, Unsent)
        \subseteq Pieces(played, to_core, {}, items, Wire, Unsent)
      BY <1>3, <2>1, <1>t, PiecesMove DEF Plays
  <2> QED
      BY <1>3, <2>1, <2>2, <2>3, <1>u, <1>s, PiecesPrimed DEF Plays
<1>4. CASE Fails
  <2>1. ChainOf(played, Append(to_core, Head(items)), {}, Tail(items), Wire, Unsent)
      BY <1>4, <1>t, <1>c, ChainFails DEF Fails
  <2>2. Pieces(played, Append(to_core, Head(items)), {}, Tail(items), Wire, Unsent)
        \subseteq Pieces(played, to_core, {}, items, Wire, Unsent)
      BY <1>4, <1>t, PiecesMove DEF Fails
  <2> QED
      BY <1>4, <2>1, <2>2, <1>u, <1>s, PiecesPrimed DEF Fails
<1>5. CASE Ends
  <2>1. PICK x \in Playable : Playing = {x} \ {WakeChime} /\ to_core' = Append(to_core, x)
      BY <1>5 DEF Ends
  <2>2. ChainOf(played, Append(to_core, x), {}, items, Wire, Unsent)
      BY <2>1, <1>t, <1>c, ChainEnds
  <2>3. Pieces(played, Append(to_core, x), {}, items, Wire, Unsent)
        = Pieces(played, to_core, Playing, items, Wire, Unsent)
      BY <2>1, <1>t, PiecesEnd
  <2> QED
      BY <1>5, <2>1, <2>2, <2>3, <1>u, <1>s, PiecesPrimed DEF Ends
<1>6. CASE Stays
    BY <1>6, <1>u, <1>s, <1>c, PiecesPrimed DEF Stays
<1> QED
    BY <1>1, <1>2, <1>3, <1>4, <1>5, <1>6

LEMMA LoopStep == ASSUME Typed, LoopFits, [Next]_vars, SpeechAssumption PROVE LoopFits'
<1>t. items \in Seq(Playable) /\ generation \in Nat /\ loop.generation \in Nat
    BY DEF Typed
<1>l. \A q : Look(q) /\ generation' = generation /\ items' = q => LoopFits'
  <2> SUFFICES ASSUME NEW q, Look(q), generation' = generation, items' = q PROVE LoopFits'
      OBVIOUS
  <2>1. CASE q = << >>
      BY <2>1, <1>t DEF Look, LoopFits
  <2>2. CASE q # << >>
      BY <2>2, <1>t DEF Look, LoopFits
  <2> QED
      BY <2>1, <2>2
<1>1. CASE UNCHANGED <<items, loop, generation>>
    BY <1>1 DEF LoopFits, Stale
<1>2. CASE Enqueue
  <2>1. CASE loop.at = "idle"
      BY <1>2, <2>1, <1>l DEF Enqueue
  <2>2. CASE loop.at # "idle"
    <3>1. PICK x : items' = Append(items, x)
        BY <1>2 DEF Enqueue
    <3>2. UNCHANGED <<loop, generation>>
        BY <1>2, <2>2 DEF Enqueue
    <3>3. items # << >> => Append(items, x) # << >> /\ Head(Append(items, x)) = Head(items)
        BY <1>t
    <3> QED
        BY <3>1, <3>2, <3>3 DEF LoopFits, Stale
  <2> QED
      BY <2>1, <2>2
<1>3. CASE Stop
    BY <1>3, <1>t DEF Stop, LoopFits, Stale
<1>4. CASE Resume
  <2>1. CASE Look(items') /\ UNCHANGED generation
      BY <2>1, <1>l
  <2>2. CASE loop' = [loop EXCEPT !.at = "plays"] /\ UNCHANGED generation
    <3>1. loop'.at = "plays" /\ loop'.generation = loop.generation
        BY <2>2 DEF Typed
    <3> QED
        BY <2>2, <3>1 DEF LoopFits
  <2> QED
      BY <1>4, <2>1, <2>2 DEF Resume
<1>5. CASE PlayEnds
    BY <1>5, <1>l DEF PlayEnds
<1>6. CASE UNCHANGED playVars
    BY <1>1, <1>6 DEF playVars
<1>7. CASE \E i \in Items : Synthesised(i)
    BY <1>1, <1>7 DEF Synthesised
<1> QED
    BY <1>2, <1>3, <1>4, <1>5, <1>6, <1>7 DEF Next, vars, HearRequest, HearWakePhrase, HearStop, HearLeave,
       Take, Chime, Say, CallTool, NextModelCall, generate_streamed, SendItem, Close, GoodbyeSpoken,
       GoodbyeTimesOut, CountItem, SpeechEnds, LineWritten

LEMMA MessagesStep ==
    ASSUME Typed, TurnsFit, MessagesFit, [Next]_vars, SpeechAssumption PROVE MessagesFit'
<1> USE SpeechAssumption
<1>t. to_sidecar \in Seq(Message)
    BY DEF Typed
<1>1. ASSUME UNCHANGED to_sidecar PROVE MessagesFit'
    BY <1>1 DEF MessagesFit
<1>2. ASSUME NEW m \in Message, Send(m),
             m.type = "speak" => m.item[1] # NoTurn /\ m.item[2] # 0,
             m.type # "speak" => m.item[2] = 0
      PROVE  MessagesFit'
  <2>1. /\ DOMAIN to_sidecar' = DOMAIN to_sidecar \cup {Len(to_sidecar) + 1}
        /\ to_sidecar'[Len(to_sidecar) + 1] = m
        /\ \A n \in DOMAIN to_sidecar : to_sidecar'[n] = to_sidecar[n]
      BY <1>2, <1>t, Appended DEF Send
  <2> QED
      BY <1>2, <2>1 DEF MessagesFit
<1>3. CASE Enqueue \/ Stop
  <2>1. to_sidecar # << >> /\ to_sidecar' = Tail(to_sidecar)
      BY <1>3 DEF Enqueue, Stop
  <2>2. \A n \in DOMAIN to_sidecar' : n + 1 \in DOMAIN to_sidecar /\ to_sidecar'[n] = to_sidecar[n + 1]
      BY <2>1, <1>t, Removed
  <2> QED
      BY <2>2 DEF MessagesFit
<1>4. CASE HearWakePhrase
  <2>1. [type |-> "chime", item |-> WakeChime] \in Message /\ WakeChime[2] = 0
      BY Numbers DEF Message, WakeChime
  <2> QED
      BY <1>4, <2>1, <1>2 DEF HearWakePhrase
<1>5. CASE HearStop
  <2>1. PICK y : y = <<current, 0>>
      OBVIOUS
  <2>2. y \in Playable /\ y[2] = 0
    <3>1. current \in Requests \/ current = NoTurn
        BY DEF Typed
    <3> QED
        BY <2>1, <3>1, Numbers DEF Playable, WakeChime
  <2>3. [type |-> "stop", item |-> y] \in Message
      BY <2>2 DEF Message
  <2> QED
      BY <1>5, <2>1, <2>2, <2>3, <1>2 DEF HearStop
<1>6. ASSUME NEW r \in Requests, Chime(r) PROVE MessagesFit'
  <2>1. PICK y : y = <<r, 0>>
      OBVIOUS
  <2>2. y \in Playable /\ y[2] = 0
      BY <2>1, Numbers DEF Playable
  <2>3. [type |-> "chime", item |-> y] \in Message
      BY <2>2 DEF Message
  <2> QED
      BY <1>6, <2>1, <2>2, <2>3, <1>1, <1>2 DEF Chime
<1>7. ASSUME NEW r \in Requests, SendItem(r) PROVE MessagesFit'
  <2>1. /\ speech[r] # << >>
        /\ UNCHANGED to_sidecar \/ Send([type |-> "speak", item |-> Head(speech[r])])
      BY <1>7, Sends
  <2>2. speech[r] \in Seq(Items)
      BY DEF Typed
  <2>3. Head(speech[r]) = speech[r][1] /\ 1 \in DOMAIN speech[r] /\ Head(speech[r]) \in Items
      BY <2>1, <2>2, Removed
  <2>4. PICK y \in Items : y = Head(speech[r]) /\ y[1] = r /\ y[2] # 0
      BY <2>3 DEF TurnsFit, InSpeech
  <2>5. [type |-> "speak", item |-> y] \in Message /\ y[1] # NoTurn
      BY <2>4, Numbers DEF Message
  <2> QED
      BY <2>1, <2>4, <2>5, <1>1, <1>2
<1>8. CASE HearRequest \/ HearLeave \/ Take \/ CountItem \/ SpeechEnds \/ UNCHANGED vars
    BY <1>1, <1>8 DEF HearRequest, HearLeave, Take, CountItem, SpeechEnds, vars
<1>9. CASE Resume \/ PlayEnds \/ \E i \in Items : LineWritten(i) \/ Synthesised(i)
    BY <1>1, <1>9 DEF Resume, PlayEnds, LineWritten, Synthesised
<1>10. ASSUME NEW r \in Requests,
              \/ Say(r) \/ CallTool(r) \/ NextModelCall(r) \/ generate_streamed(r)
              \/ Close(r) \/ GoodbyeSpoken(r) \/ GoodbyeTimesOut(r)
       PROVE  MessagesFit'
    BY <1>1, <1>10 DEF Say, CallTool, NextModelCall, generate_streamed, Close, GoodbyeSpoken, GoodbyeTimesOut
<1> QED
    BY <1>3, <1>4, <1>5, <1>6, <1>7, <1>8, <1>9, <1>10 DEF Next

--------------------------------------------------------------------------------
(* Stops. *)

IsStop(m)  == m.type = "stop" /\ m.item[1] # NoTurn
IsSpeak(m) == m.type = "speak"

(* Behind the stop of a turn no sentence of it is on the wire, and none once *)
(* the stop was handled.                                                     *)
StopsFit ==
    /\ silenced \subseteq muted
    /\ \A n \in DOMAIN to_sidecar : IsStop(to_sidecar[n]) => to_sidecar[n].item[1] \in muted
    /\ \A m, n \in DOMAIN to_sidecar :
         m < n /\ IsStop(to_sidecar[m]) /\ IsSpeak(to_sidecar[n]) =>
             to_sidecar[n].item[1] # to_sidecar[m].item[1]
    /\ \A n \in DOMAIN to_sidecar : IsSpeak(to_sidecar[n]) => to_sidecar[n].item[1] \notin silenced
    /\ \A n \in DOMAIN items : items[n][2] # 0 => items[n][1] \notin silenced

LEMMA StopsInitially == ASSUME Init PROVE StopsFit
<1>1. DOMAIN to_sidecar = {} /\ DOMAIN items = {} /\ silenced = {}
    BY DEF Init
<1> QED
    BY <1>1 DEF StopsFit

LEMMA StopsSend ==
    ASSUME Typed, StopsFit, NEW m \in Message, Send(m), UNCHANGED <<items, silenced>>,
           muted \subseteq muted',
           IsStop(m) => m.item[1] \in muted',
           IsSpeak(m) => m.item[1] \notin muted
    PROVE  StopsFit'
<1> DEFINE l == Len(to_sidecar) + 1
<1>1. /\ DOMAIN to_sidecar' = DOMAIN to_sidecar \cup {l} /\ to_sidecar'[l] = m
      /\ \A n \in DOMAIN to_sidecar : to_sidecar'[n] = to_sidecar[n] /\ n < l
      /\ \A k, n \in DOMAIN to_sidecar' : k < n => k \in DOMAIN to_sidecar
  <2>1. to_sidecar \in Seq(Message) /\ to_sidecar' = Append(to_sidecar, m)
      BY DEF Send, Typed
  <2> QED
      BY <2>1, Appended
<1> HIDE DEF l
<1>2. \A k \in DOMAIN to_sidecar : IsStop(to_sidecar[k]) => to_sidecar[k].item[1] \in muted
    BY DEF StopsFit
<1>3. \A k, n \in DOMAIN to_sidecar' :
         k < n /\ IsStop(to_sidecar'[k]) /\ IsSpeak(to_sidecar'[n]) =>
             to_sidecar'[n].item[1] # to_sidecar'[k].item[1]
  <2> SUFFICES ASSUME NEW k \in DOMAIN to_sidecar', NEW n \in DOMAIN to_sidecar', k < n,
                      IsStop(to_sidecar'[k]), IsSpeak(to_sidecar'[n])
               PROVE  to_sidecar'[n].item[1] # to_sidecar'[k].item[1]
      OBVIOUS
  <2>1. k \in DOMAIN to_sidecar /\ to_sidecar'[k] = to_sidecar[k]
      BY <1>1
  <2>2. CASE n = l
      BY <1>1, <1>2, <2>1, <2>2
  <2>3. CASE n \in DOMAIN to_sidecar
      BY <1>1, <2>1, <2>3 DEF StopsFit
  <2> QED
      BY <1>1, <2>2, <2>3
<1>4. \A n \in DOMAIN to_sidecar' : IsStop(to_sidecar'[n]) => to_sidecar'[n].item[1] \in muted'
    BY <1>1, <1>2
<1>5. \A n \in DOMAIN to_sidecar' : IsSpeak(to_sidecar'[n]) => to_sidecar'[n].item[1] \notin silenced
    BY <1>1 DEF StopsFit
<1> QED
    BY <1>3, <1>4, <1>5 DEF StopsFit

LEMMA StopsStep ==
    ASSUME Typed, TurnsFit, MessagesFit, StopsFit, [Next]_vars, SpeechAssumption PROVE StopsFit'
<1> USE SpeechAssumption
<1>t. to_sidecar \in Seq(Message) /\ items \in Seq(Playable)
    BY DEF Typed
<1>1. ASSUME UNCHANGED <<to_sidecar, items, silenced>>, muted \subseteq muted' PROVE StopsFit'
    BY <1>1 DEF StopsFit
<1>2. ASSUME to_sidecar # << >>, to_sidecar' = Tail(to_sidecar)
      PROVE  /\ 1 \in DOMAIN to_sidecar /\ Head(to_sidecar) = to_sidecar[1]
             /\ \A n \in DOMAIN to_sidecar' : /\ n + 1 \in DOMAIN to_sidecar /\ 1 < n + 1
                                              /\ to_sidecar'[n] = to_sidecar[n + 1]
             /\ \A m, n \in DOMAIN to_sidecar' : m < n => m + 1 < n + 1
  <2>1. \A n \in DOMAIN to_sidecar' : n \in Nat /\ n + 1 \in DOMAIN to_sidecar /\ 1 < n + 1
                                      /\ to_sidecar'[n] = to_sidecar[n + 1]
      BY <1>2, <1>t, Removed
  <2>2. \A m, n \in DOMAIN to_sidecar' : m < n => m + 1 < n + 1
      BY <2>1
  <2> QED
      BY <1>2, <1>t, <2>1, <2>2, Removed
<1>3. CASE Enqueue
  <2>1. /\ to_sidecar # << >> /\ to_sidecar' = Tail(to_sidecar) /\ UNCHANGED <<muted, silenced>>
        /\ items' = Append(items, Head(to_sidecar).item)
      BY <1>3 DEF Enqueue, coreVars
  <2>2. /\ 1 \in DOMAIN to_sidecar /\ Head(to_sidecar) = to_sidecar[1]
        /\ \A n \in DOMAIN to_sidecar' : /\ n + 1 \in DOMAIN to_sidecar /\ 1 < n + 1
                                         /\ to_sidecar'[n] = to_sidecar[n + 1]
        /\ \A m, n \in DOMAIN to_sidecar' : m < n => m + 1 < n + 1
      BY <2>1, <1>2
  <2>3. \A m, n \in DOMAIN to_sidecar' :
         m < n /\ IsStop(to_sidecar'[m]) /\ IsSpeak(to_sidecar'[n]) =>
             to_sidecar'[n].item[1] # to_sidecar'[m].item[1]
      BY <2>2 DEF StopsFit
  <2>4. \A n \in DOMAIN items' : items'[n][2] # 0 => items'[n][1] \notin silenced
    <3>1. PICK y : y = Head(to_sidecar).item
        OBVIOUS
    <3>2. y \in Playable
      <4>1. to_sidecar[1] \in Message
          BY <2>2, <1>t
      <4> QED
          BY <3>1, <2>2, <4>1 DEF Message
    <3>3. /\ DOMAIN items' = DOMAIN items \cup {Len(items) + 1} /\ items'[Len(items) + 1] = y
          /\ \A n \in DOMAIN items : items'[n] = items[n]
        BY <2>1, <3>1, <3>2, <1>t, Appended
    <3>4. y[2] # 0 => y[1] \notin silenced
        BY <3>1, <2>2 DEF MessagesFit, StopsFit, IsSpeak
    <3> QED
        BY <3>3, <3>4 DEF StopsFit
  <2> QED
      BY <2>1, <2>2, <2>3, <2>4 DEF StopsFit
<1>4. CASE Stop
  <2>1. /\ to_sidecar # << >> /\ to_sidecar' = Tail(to_sidecar) /\ UNCHANGED muted
        /\ items' = << >> /\ Head(to_sidecar).type = "stop"
        /\ silenced' = silenced \cup ({Head(to_sidecar).item[1]} \ {NoTurn})
      BY <1>4 DEF Stop, coreVars
  <2>2. /\ 1 \in DOMAIN to_sidecar /\ Head(to_sidecar) = to_sidecar[1]
        /\ \A n \in DOMAIN to_sidecar' : /\ n + 1 \in DOMAIN to_sidecar /\ 1 < n + 1
                                         /\ to_sidecar'[n] = to_sidecar[n + 1]
        /\ \A m, n \in DOMAIN to_sidecar' : m < n => m + 1 < n + 1
      BY <2>1, <1>2
  <2>3. \A m, n \in DOMAIN to_sidecar' :
         m < n /\ IsStop(to_sidecar'[m]) /\ IsSpeak(to_sidecar'[n]) =>
             to_sidecar'[n].item[1] # to_sidecar'[m].item[1]
      BY <2>2 DEF StopsFit
  <2>4. \A n \in DOMAIN to_sidecar' : IsSpeak(to_sidecar'[n]) => to_sidecar'[n].item[1] \notin silenced'
    <3> SUFFICES ASSUME NEW n \in DOMAIN to_sidecar', IsSpeak(to_sidecar'[n])
                 PROVE  to_sidecar'[n].item[1] \notin silenced'
        OBVIOUS
    <3>1. n + 1 \in DOMAIN to_sidecar /\ 1 < n + 1 /\ to_sidecar'[n] = to_sidecar[n + 1]
        BY <2>2
    <3>2. to_sidecar[n + 1].item[1] \notin silenced
        BY <3>1 DEF StopsFit
    <3>3. IsStop(to_sidecar[1]) => to_sidecar[n + 1].item[1] # to_sidecar[1].item[1]
        BY <3>1, <2>2 DEF StopsFit
    <3> QED
        BY <2>1, <2>2, <3>1, <3>2, <3>3 DEF IsStop
  <2>5. silenced' \subseteq muted
      BY <2>1, <2>2 DEF StopsFit, IsStop
  <2>6. DOMAIN items' = {}
      BY <2>1
  <2>7. \A n \in DOMAIN to_sidecar' : IsStop(to_sidecar'[n]) => to_sidecar'[n].item[1] \in muted
      BY <2>2 DEF StopsFit
  <2> QED
      BY <2>1, <2>3, <2>4, <2>5, <2>6, <2>7 DEF StopsFit
<1>5. CASE Resume
  <2>1. /\ UNCHANGED <<to_sidecar, muted, silenced>>
        /\ items' = items \/ (items # << >> /\ items' = Tail(items)) \/ items' = << >>
      BY <1>5 DEF Resume, coreVars
  <2>2. \A n \in DOMAIN items' : \E k \in DOMAIN items : items'[n] = items[k]
    <3>1. CASE items' = items
        BY <3>1
    <3>2. CASE items # << >> /\ items' = Tail(items)
        BY <3>2, <1>t, Removed
    <3>3. CASE items' = << >>
        BY <3>3
    <3> QED
        BY <2>1, <3>1, <3>2, <3>3
  <2>3. \A n \in DOMAIN items' : items'[n][2] # 0 => items'[n][1] \notin silenced
      BY <2>2 DEF StopsFit
  <2> QED
      BY <2>1, <2>3 DEF StopsFit
<1>6. CASE HearWakePhrase
  <2>1. [type |-> "chime", item |-> WakeChime] \in Message
      BY Numbers DEF Message
  <2> QED
      BY <1>6, <2>1, StopsSend DEF HearWakePhrase, playVars, IsStop, IsSpeak
<1>7. CASE HearStop
  <2>1. PICK y : y = <<current, 0>>
      OBVIOUS
  <2>2. y \in Playable /\ y[1] = current
    <3>1. current \in Requests \/ current = NoTurn
        BY DEF Typed
    <3> QED
        BY <2>1, <3>1, Numbers DEF Playable, WakeChime
  <2>3. PICK m \in Message : m = [type |-> "stop", item |-> y]
      BY <2>2 DEF Message
  <2>4. Send(m) /\ muted' = Silenced /\ UNCHANGED <<items, silenced>>
      BY <1>7, <2>1, <2>3 DEF HearStop, playVars
  <2>5. (IsStop(m) => m.item[1] \in muted') /\ ~IsSpeak(m) /\ muted \subseteq muted'
      BY <2>2, <2>3, <2>4 DEF IsStop, IsSpeak, Silenced
  <2> QED
      BY <2>4, <2>5, StopsSend
<1>8. ASSUME NEW r \in Requests, Chime(r) PROVE StopsFit'
  <2>1. UNCHANGED <<items, silenced, muted>>
        /\ (UNCHANGED to_sidecar \/ Send([type |-> "chime", item |-> <<r, 0>>]))
      BY <1>8 DEF Chime, playVars
  <2>2. PICK m \in Message : m = [type |-> "chime", item |-> <<r, 0>>]
      BY Numbers DEF Message
  <2>3. ~IsStop(m) /\ ~IsSpeak(m)
      BY <2>2 DEF IsStop, IsSpeak
  <2>4. UNCHANGED to_sidecar \/ Send(m)
      BY <2>1, <2>2
  <2> QED
      BY <2>1, <2>3, <2>4, <1>1, StopsSend
<1>9. ASSUME NEW r \in Requests, SendItem(r) PROVE StopsFit'
  <2>1. /\ speech[r] # << >>
        /\ \/ UNCHANGED to_sidecar
           \/ Send([type |-> "speak", item |-> Head(speech[r])]) /\ r \notin muted
      BY <1>9, Sends
  <2>2. speech[r] \in Seq(Items)
      BY DEF Typed
  <2>3. Head(speech[r]) = speech[r][1] /\ 1 \in DOMAIN speech[r] /\ Head(speech[r]) \in Items
      BY <2>1, <2>2, Removed
  <2>4. PICK y \in Items : y = Head(speech[r]) /\ y[1] = r
      BY <2>3 DEF TurnsFit, InSpeech
  <2>5. PICK m \in Message : m = [type |-> "speak", item |-> y]
      BY <2>4, Numbers DEF Message
  <2>6. UNCHANGED <<items, silenced, muted>>
      BY <1>9 DEF SendItem, playVars
  <2>7. ~IsStop(m) /\ m.item[1] = r
      BY <2>4, <2>5 DEF IsStop
  <2>8. UNCHANGED to_sidecar \/ (Send(m) /\ r \notin muted)
      BY <2>1, <2>4, <2>5
  <2> QED
      BY <2>6, <2>7, <2>8, <1>1, StopsSend
<1>10. CASE HearRequest \/ HearLeave \/ Take \/ CountItem \/ SpeechEnds \/ UNCHANGED vars
    BY <1>1, <1>10 DEF HearRequest, HearLeave, Take, CountItem, SpeechEnds, vars, coreVars, playVars
<1>11. CASE PlayEnds \/ \E i \in Items : LineWritten(i) \/ Synthesised(i)
    BY <1>1, <1>11 DEF PlayEnds, LineWritten, Synthesised, coreVars, playVars
<1>12. ASSUME NEW r \in Requests,
              \/ Say(r) \/ CallTool(r) \/ NextModelCall(r) \/ generate_streamed(r)
              \/ Close(r) \/ GoodbyeSpoken(r) \/ GoodbyeTimesOut(r)
       PROVE  StopsFit'
    BY <1>1, <1>12 DEF Say, CallTool, NextModelCall, generate_streamed, Close, GoodbyeSpoken, GoodbyeTimesOut,
       playVars
<1> QED
    BY <1>3, <1>4, <1>5, <1>6, <1>7, <1>8, <1>9, <1>10, <1>11, <1>12 DEF Next

--------------------------------------------------------------------------------
(* Counts. *)

(* What is neither over for core nor unsent.                                 *)
Afloat == Pieces(<< >>, to_core, Playing, items, Wire, << >>)

OfTurn(S, r) == {x \in S : x[1] = r /\ x[2] # 0}

(* A sentence that was sent is not counted yet.                              *)
Debt(r) == IF sent # NoItem /\ sent[1] = r THEN 1 ELSE 0

Counts == \A r \in Requests : Cardinality(OfTurn(Afloat, r)) <= pending[r] + Debt(r)

LEMMA FewPieces ==
    ASSUME NEW S, S \subseteq Playable, NEW r \in Requests, SpeechAssumption
    PROVE  IsFiniteSet(OfTurn(S, r)) /\ Cardinality(OfTurn(S, r)) \in Nat
<1>1. IsFiniteSet(Requests) /\ IsFiniteSet(0 .. MaxItems + 1)
  <2>1. 1 \in Int /\ 0 \in Int /\ MaxRequests \in Int /\ MaxItems + 1 \in Int
      BY Numbers
  <2>2. \A a, b \in Int : IsFiniteSet(a .. b)
      BY FS_Interval
  <2> QED
      BY <2>1, <2>2 DEF Requests
<1>2. IsFiniteSet(Items)
    BY <1>1, FS_Product DEF Items
<1>3. OfTurn(S, r) \subseteq Items
    BY Numbers DEF OfTurn, WakeChime
<1> QED
    BY <1>2, <1>3, FS_Subset, FS_CardinalityType

LEMMA AfloatTyped == ASSUME Typed, SpeechAssumption PROVE Afloat \subseteq Playable
    BY PlacesTyped, Empty DEF Afloat, Pieces, Of

(* Where no sentence is new, there are no more of a turn than there were.    *)
LEMMA NoMore ==
    ASSUME NEW S, NEW T, S \subseteq Playable, SpeechAssumption, NEW r \in Requests,
           \A x \in T : x \in S \/ x[2] = 0
    PROVE  /\ Cardinality(OfTurn(T, r)) <= Cardinality(OfTurn(S, r))
           /\ Cardinality(OfTurn(T, r)) \in Nat /\ Cardinality(OfTurn(S, r)) \in Nat
<1>1. OfTurn(T, r) \subseteq OfTurn(S, r)
    BY DEF OfTurn
<1> QED
    BY <1>1, FewPieces, FS_Subset, FS_CardinalityType

LEMMA CountsKept ==
    ASSUME Typed, Counts, SpeechAssumption, UNCHANGED <<pending, sent>>,
           NEW T, T = Afloat', \A x \in T : x \in Afloat \/ x[2] = 0
    PROVE  Counts'
<1> SUFFICES ASSUME NEW r \in Requests PROVE Cardinality(OfTurn(T, r)) <= pending'[r] + Debt(r)'
    BY DEF Counts
<1>1. /\ Cardinality(OfTurn(T, r)) <= Cardinality(OfTurn(Afloat, r))
      /\ Cardinality(OfTurn(T, r)) \in Nat /\ Cardinality(OfTurn(Afloat, r)) \in Nat
    BY AfloatTyped, NoMore
<1>3. Debt(r)' = Debt(r) /\ Debt(r) \in Nat /\ pending[r] \in Nat /\ pending'[r] = pending[r]
    BY DEF Debt, Typed
<1> QED
    BY <1>1, <1>3 DEF Counts

LEMMA AfloatPrimed ==
    ASSUME NEW d, NEW l, NEW i, NEW v, to_core' = d, Playing' = l, items' = i, Wire' = v
    PROVE  Afloat' = Pieces(<< >>, d, l, i, v, << >>)
    BY DEF Afloat

LEMMA SidecarFloats ==
    ASSUME Typed, SpeechAssumption, Queues \/ Clears \/ Plays \/ Fails \/ Ends \/ Stays
    PROVE  Afloat' \subseteq Afloat
<1>t. /\ Wire \in Seq(Playable) /\ << >> \in Seq(Playable)
      /\ items \in Seq(Playable) /\ to_core \in Seq(Playable)
    BY PlacesTyped
<1>1. CASE Queues
  <2>1. Pieces(<< >>, to_core, Playing, Append(items, Head(Wire)), Tail(Wire), << >>)
        = Pieces(<< >>, to_core, Playing, items, Wire, << >>)
      BY <1>1, <1>t, PiecesQueue DEF Queues
  <2> QED
      BY <1>1, <2>1, AfloatPrimed DEF Queues, Afloat
<1>2. CASE Clears
  <2>1. Pieces(<< >>, to_core \o items, Playing, << >>, Tail(Wire), << >>)
        \subseteq Pieces(<< >>, to_core, Playing, items, Wire, << >>)
      BY <1>2, <1>t, PiecesMove DEF Clears
  <2> QED
      BY <1>2, <2>1, AfloatPrimed DEF Clears, Afloat
<1>3. CASE Plays
  <2>1. Pieces(<< >>, to_core, {Head(items)} \ {WakeChime}, Tail(items), Wire, << >>)
        \subseteq Pieces(<< >>, to_core, {}, items, Wire, << >>)
      BY <1>3, <1>t, PiecesMove DEF Plays
  <2> QED
      BY <1>3, <2>1, AfloatPrimed DEF Plays, Afloat
<1>4. CASE Fails
  <2>1. Pieces(<< >>, Append(to_core, Head(items)), {}, Tail(items), Wire, << >>)
        \subseteq Pieces(<< >>, to_core, {}, items, Wire, << >>)
      BY <1>4, <1>t, PiecesMove DEF Fails
  <2> QED
      BY <1>4, <2>1, AfloatPrimed DEF Fails, Afloat
<1>5. CASE Ends
  <2>1. PICK x \in Playable : Playing = {x} \ {WakeChime} /\ to_core' = Append(to_core, x)
      BY <1>5 DEF Ends
  <2>2. Pieces(<< >>, Append(to_core, x), {}, items, Wire, << >>)
        = Pieces(<< >>, to_core, Playing, items, Wire, << >>)
      BY <2>1, <1>t, PiecesEnd
  <2> QED
      BY <1>5, <2>1, <2>2, AfloatPrimed DEF Ends, Afloat
<1>6. CASE Stays
    BY <1>6 DEF Stays, Afloat
<1> QED
    BY <1>1, <1>2, <1>3, <1>4, <1>5, <1>6

LEMMA MessageFloats ==
    ASSUME Typed, SpeechAssumption, NEW m \in Message, Send(m), UNCHANGED <<to_core, Playing, items>>
    PROVE  \A x \in Afloat' : x \in Afloat \/ x = Piece(m)
<1>1. WireOf(Append(to_sidecar, m)) = Append(WireOf(to_sidecar), Piece(m))
    BY WireGrows DEF Typed
<1>2. Wire' = Append(Wire, Piece(m))
    BY <1>1 DEF Wire, Send
<1>3. Wire \in Seq(Playable) /\ << >> \in Seq(Playable) /\ Piece(m) \in Playable
    BY PlacesTyped, PieceIsPlayable
<1>4. Pieces(<< >>, to_core, Playing, items, Append(Wire, Piece(m)), << >>)
      \subseteq Pieces(<< >>, to_core, Playing, items, Wire, << >>) \cup {Piece(m)}
    BY <1>3, PiecesAdd
<1> QED
    BY <1>2, <1>4, AfloatPrimed DEF Afloat

(* A sentence on its way: the count follows.                                *)
LEMMA CountsSend ==
    ASSUME Typed, TurnsFit, Counts, SpeechAssumption, NEW r \in Requests, SendItem(r)
    PROVE  Counts'
<1>1. /\ speech[r] # << >> /\ sent = NoItem
      /\ \/ UNCHANGED <<sent, to_sidecar>>
         \/ /\ sent' = Head(speech[r])
            /\ Send([type |-> "speak", item |-> Head(speech[r])])
    BY Sends
<1>2. UNCHANGED <<pending, to_core, items, Playing>>
    BY DEF SendItem, playVars, Playing
<1>3. CASE UNCHANGED <<sent, to_sidecar>>
  <2>1. Afloat' = Afloat
      BY <1>2, <1>3 DEF Afloat, Wire
  <2> QED
      BY <1>2, <1>3, <2>1, CountsKept
<1>4. CASE sent' = Head(speech[r]) /\ Send([type |-> "speak", item |-> Head(speech[r])])
  <2>1. speech[r] \in Seq(Items)
      BY DEF Typed
  <2>2. Head(speech[r]) = speech[r][1] /\ 1 \in DOMAIN speech[r] /\ Head(speech[r]) \in Items
      BY <1>1, <2>1, Removed
  <2>3. PICK y \in Items : y = Head(speech[r]) /\ y[1] = r /\ y[2] # 0
      BY <2>2 DEF TurnsFit, InSpeech
  <2>4. PICK m \in Message : m = [type |-> "speak", item |-> y] /\ Piece(m) = y
    <3>1. [type |-> "speak", item |-> y] \in Message
        BY Numbers DEF Message
    <3> QED
        BY <3>1 DEF Piece
  <2>5. PICK T : T = Afloat'
      OBVIOUS
  <2>6. \A x \in T : x \in Afloat \/ x = y
      BY <1>2, <1>4, <2>3, <2>4, <2>5, MessageFloats
  <2>7. ASSUME NEW q \in Requests PROVE Cardinality(OfTurn(T, q)) <= pending'[q] + Debt(q)'
    <3>1. pending'[q] = pending[q] /\ pending[q] \in Nat /\ Debt(q) = 0
        BY <1>1, <1>2 DEF Typed, Debt
    <3>2. Cardinality(OfTurn(Afloat, q)) <= pending[q]
        BY <3>1 DEF Counts
    <3>3. IsFiniteSet(OfTurn(Afloat, q)) /\ Cardinality(OfTurn(Afloat, q)) \in Nat
        BY AfloatTyped, FewPieces
    <3>4. CASE q = r
      <4>1. Debt(q)' = 1
          BY <1>4, <2>3, <3>4, Numbers DEF Debt, NoItem
      <4>2. OfTurn(T, q) \subseteq OfTurn(Afloat, q) \cup {y}
          BY <2>6 DEF OfTurn
      <4>3. /\ IsFiniteSet(OfTurn(Afloat, q) \cup {y})
            /\ Cardinality(OfTurn(Afloat, q) \cup {y}) <= Cardinality(OfTurn(Afloat, q)) + 1
            /\ Cardinality(OfTurn(Afloat, q) \cup {y}) \in Nat
        <5>1. Cardinality(OfTurn(Afloat, q) \cup {y})
              \in {Cardinality(OfTurn(Afloat, q)), Cardinality(OfTurn(Afloat, q)) + 1}
            BY <3>3, FS_AddElement
        <5>2. IsFiniteSet(OfTurn(Afloat, q) \cup {y})
            BY <3>3, FS_AddElement
        <5> QED
            BY <3>3, <5>1, <5>2
      <4>4. /\ Cardinality(OfTurn(T, q)) <= Cardinality(OfTurn(Afloat, q) \cup {y})
            /\ Cardinality(OfTurn(T, q)) \in Nat
          BY <4>2, <4>3, FS_Subset, FS_CardinalityType
      <4> QED
          BY <3>1, <3>2, <3>3, <4>1, <4>3, <4>4
    <3>5. CASE q # r
      <4>1. Debt(q)' = 0
          BY <1>4, <2>3, <3>5 DEF Debt
      <4>2. OfTurn(T, q) \subseteq OfTurn(Afloat, q)
          BY <2>3, <2>6, <3>5 DEF OfTurn
      <4>3. Cardinality(OfTurn(T, q)) <= Cardinality(OfTurn(Afloat, q)) /\ Cardinality(OfTurn(T, q)) \in Nat
          BY <3>3, <4>2, FS_Subset, FS_CardinalityType
      <4> QED
          BY <3>1, <3>2, <3>3, <4>1, <4>3
    <3> QED
        BY <3>4, <3>5
  <2> QED
      BY <2>5, <2>7 DEF Counts
<1> QED
    BY <1>1, <1>3, <1>4

LEMMA CountsCount ==
    ASSUME Typed, Counts, SpeechAssumption, CountItem PROVE Counts'
<1>1. /\ sent # NoItem /\ sent' = NoItem /\ sent \in Items /\ sent[1] \in Requests
      /\ pending' = [pending EXCEPT ![sent[1]] = @ + 1]
    BY Numbers DEF CountItem, Typed
<1>2. Afloat' = Afloat
    BY DEF CountItem, playVars, Afloat, Wire, Playing
<1>3. ASSUME NEW q \in Requests PROVE pending'[q] + Debt(q)' = pending[q] + Debt(q)
  <2>1. pending[q] \in Nat /\ DOMAIN pending = Requests
      BY DEF Typed
  <2>2. Debt(q)' = 0
      BY <1>1 DEF Debt
  <2>3. CASE q = sent[1]
    <3>1. pending'[q] = pending[q] + 1 /\ Debt(q) = 1
        BY <1>1, <2>1, <2>3 DEF Debt
    <3> QED
        BY <2>1, <2>2, <3>1
  <2>4. CASE q # sent[1]
    <3>1. pending'[q] = pending[q] /\ Debt(q) = 0
        BY <1>1, <2>1, <2>4 DEF Debt
    <3> QED
        BY <2>1, <2>2, <3>1
  <2> QED
      BY <2>3, <2>4
<1>4. PICK T : T = Afloat /\ T = Afloat'
    BY <1>2
<1>5. ASSUME NEW q \in Requests PROVE Cardinality(OfTurn(T, q)) <= pending'[q] + Debt(q)'
    BY <1>3, <1>4 DEF Counts
<1> QED
    BY <1>4, <1>5 DEF Counts

(* What is over for core was afloat once, and is no more.                    *)
LEMMA CountsEnd ==
    ASSUME Typed, PiecesFit, Counts, SpeechAssumption, SpeechEnds PROVE Counts'
<1> DEFINE h == Head(to_core)
<1>t. to_core \in Seq(Playable) /\ to_core # << >> /\ Wire \in Seq(Playable) /\ items \in Seq(Playable)
      /\ Playing \subseteq Playable
    BY PlacesTyped DEF SpeechEnds
<1>1. /\ h \in Playable /\ Of(to_core) = ({h} \ {WakeChime}) \cup Of(Tail(to_core))
      /\ Distinct(to_core) => h \notin Of(Tail(to_core))
    BY <1>t, First
<1>2. /\ to_core' = Tail(to_core) /\ UNCHANGED <<items, Wire, Playing, sent>>
      /\ pending' = IF Counted(h) /\ pending[h[1]] > 0
                    THEN [pending EXCEPT ![h[1]] = @ - 1] ELSE pending
    BY DEF SpeechEnds, playVars, Wire, Playing
<1> HIDE DEF h
<1>3. PICK T : T = Afloat' /\ T = Pieces(<< >>, Tail(to_core), Playing, items, Wire, << >>)
    BY <1>2, AfloatPrimed
<1>4. T \subseteq Afloat
    BY <1>1, <1>3 DEF Afloat, Pieces
<1>5. CASE pending' = pending
  <2>1. \A x \in T : x \in Afloat \/ x[2] = 0
      BY <1>4
  <2> QED
      BY <1>2, <1>3, <1>5, <2>1, CountsKept
<1>6. CASE Counted(h) /\ pending[h[1]] > 0 /\ pending' = [pending EXCEPT ![h[1]] = @ - 1]
  <2>1. h \in Items /\ h[1] \in Requests /\ h # WakeChime
      BY <1>1, <1>6, Numbers DEF Counted, WakeChime
  <2>2. h \in Afloat /\ h \notin T
    <3>1. h \in Of(to_core)
        BY <1>1, <2>1
    <3>2. ChainOf(played, to_core, Playing, items, Wire, Unsent)
        BY DEF PiecesFit, Chain
    <3>3. h \notin Of(Tail(to_core)) /\ h \notin Playing
        BY <1>1, <3>1, <3>2 DEF ChainOf
    <3>4. ~Before(h, h)
        BY <1>1, BeforeIsStrict
    <3>5. h \notin Of(items) /\ h \notin Of(Wire)
        BY <3>1, <3>2, <3>4 DEF ChainOf, Ahead
    <3>6. Of(<< >>) = {}
        BY Empty
    <3> QED
        BY <3>1, <3>3, <3>5, <3>6, <1>3 DEF Afloat, Pieces
  <2>3. ASSUME NEW q \in Requests PROVE Cardinality(OfTurn(T, q)) <= pending'[q] + Debt(q)'
    <3>1. pending[q] \in Nat /\ Debt(q) \in Nat /\ Debt(q)' = Debt(q)
        BY <1>2 DEF Typed, Debt
    <3>2. Cardinality(OfTurn(Afloat, q)) <= pending[q] + Debt(q)
        BY DEF Counts
    <3>3. IsFiniteSet(OfTurn(Afloat, q)) /\ Cardinality(OfTurn(Afloat, q)) \in Nat
        BY AfloatTyped, FewPieces
    <3>4. CASE q = h[1]
      <4>1. OfTurn(T, q) \subseteq OfTurn(Afloat, q) \ {h}
          BY <1>4, <2>2 DEF OfTurn
      <4>2. h \in OfTurn(Afloat, q)
          BY <1>6, <2>2, <3>4 DEF OfTurn, Counted
      <4>3. /\ IsFiniteSet(OfTurn(Afloat, q) \ {h})
            /\ Cardinality(OfTurn(Afloat, q) \ {h}) = Cardinality(OfTurn(Afloat, q)) - 1
          BY <3>3, <4>2, FS_RemoveElement
      <4>4. /\ Cardinality(OfTurn(T, q)) <= Cardinality(OfTurn(Afloat, q) \ {h})
            /\ Cardinality(OfTurn(T, q)) \in Nat
          BY <4>1, <4>3, FS_Subset, FS_CardinalityType
      <4>5. pending'[q] = pending[q] - 1
          BY <1>6, <3>4 DEF Typed
      <4> QED
          BY <3>1, <3>2, <3>3, <4>3, <4>4, <4>5
    <3>5. CASE q # h[1]
      <4>1. OfTurn(T, q) \subseteq OfTurn(Afloat, q)
          BY <1>4 DEF OfTurn
      <4>2. Cardinality(OfTurn(T, q)) <= Cardinality(OfTurn(Afloat, q)) /\ Cardinality(OfTurn(T, q)) \in Nat
          BY <3>3, <4>1, FS_Subset, FS_CardinalityType
      <4>3. pending'[q] = pending[q]
          BY <1>6, <3>5 DEF Typed
      <4> QED
          BY <3>1, <3>2, <3>3, <4>2, <4>3
    <3> QED
        BY <3>4, <3>5
  <2> QED
      BY <1>3, <2>3 DEF Counts
<1> QED
    BY <1>2, <1>5, <1>6

LEMMA CountsInitially == ASSUME Init, SpeechAssumption PROVE Counts
<1>1. /\ to_core = << >> /\ items = << >> /\ to_sidecar = << >> /\ loop.at = "idle"
      /\ pending = [r \in Requests |-> 0] /\ sent = NoItem
    BY DEF Init
<1>2. Wire = << >>
  <2>1. << >> \in Seq(Message)
      OBVIOUS
  <2>2. WireOf(<< >>) \in Seq(Playable) /\ Len(WireOf(<< >>)) = 0
      BY <2>1, Wires
  <2> QED
      BY <1>1, <2>2 DEF Wire
<1>3. Afloat = {}
    BY <1>1, <1>2, Empty DEF Afloat, Pieces, Playing
<1>4. \A r \in Requests : OfTurn(Afloat, r) = {} /\ Debt(r) = 0 /\ pending[r] = 0
    BY <1>1, <1>3 DEF OfTurn, Debt
<1>5. Cardinality({}) = 0
    BY FS_EmptySet
<1> QED
    BY <1>4, <1>5 DEF Counts

LEMMA CountsStep ==
    ASSUME Typed, TurnsFit, PiecesFit, Counts, [Next]_vars, SpeechAssumption PROVE Counts'
<1> USE SpeechAssumption
<1>f. PICK T : T = Afloat'
    OBVIOUS
<1>1. ASSUME UNCHANGED <<pending, sent>>, Afloat' \subseteq Afloat PROVE Counts'
  <2>1. \A x \in T : x \in Afloat \/ x[2] = 0
      BY <1>1, <1>f
  <2> QED
      BY <1>1, <1>f, <2>1, CountsKept
<1>2. ASSUME UNCHANGED <<pending, sent, to_core, to_sidecar>>, UNCHANGED playVars PROVE Counts'
    BY <1>1, <1>2 DEF Afloat, Wire, Playing, playVars
<1>3. ASSUME UNCHANGED <<pending, sent, to_core>>, UNCHANGED playVars,
             NEW m \in Message, Send(m), Piece(m)[2] = 0
      PROVE  Counts'
  <2>1. UNCHANGED <<items, Playing>>
      BY <1>3 DEF playVars, Playing
  <2>2. \A x \in T : x \in Afloat \/ x = Piece(m)
      BY <1>3, <1>f, <2>1, MessageFloats
  <2>3. \A x \in T : x \in Afloat \/ x[2] = 0
      BY <1>3, <2>2
  <2> QED
      BY <1>3, <1>f, <2>3, CountsKept
<1>4. CASE Enqueue \/ Stop \/ Resume \/ PlayEnds \/ \E i \in Items : Synthesised(i)
  <2>1. UNCHANGED coreVars
      BY <1>4 DEF Enqueue, Stop, Resume, PlayEnds, Synthesised
  <2>2. UNCHANGED <<pending, sent>>
      BY <2>1 DEF coreVars
  <2>3. Queues \/ Clears \/ Plays \/ Fails \/ Ends \/ Stays
      BY <1>4, <2>1, PlayMoves DEF PiecesFit
  <2> QED
      BY <2>2, <2>3, <1>1, SidecarFloats
<1>5. CASE HearWakePhrase
  <2>1. [type |-> "chime", item |-> WakeChime] \in Message /\ WakeChime[2] = 0
      BY Numbers DEF Message, WakeChime
  <2>2. PICK m \in Message : m = [type |-> "chime", item |-> WakeChime] /\ Piece(m)[2] = 0
      BY <2>1 DEF Piece
  <2>3. UNCHANGED <<pending, sent, to_core>> /\ UNCHANGED playVars /\ Send(m)
      BY <1>5, <2>2 DEF HearWakePhrase
  <2> QED
      BY <2>2, <2>3, <1>3
<1>6. CASE HearStop
  <2>1. PICK y : y = <<current, 0>>
      OBVIOUS
  <2>2. y \in Playable
    <3>1. current \in Requests \/ current = NoTurn
        BY DEF Typed
    <3> QED
        BY <2>1, <3>1, Numbers DEF Playable, WakeChime
  <2>3. [type |-> "stop", item |-> y] \in Message /\ WakeChime[2] = 0
      BY <2>2 DEF Message, WakeChime
  <2>4. PICK m \in Message : m = [type |-> "stop", item |-> y] /\ Piece(m)[2] = 0
      BY <2>3 DEF Piece
  <2>5. UNCHANGED <<pending, sent, to_core>> /\ UNCHANGED playVars /\ Send(m)
      BY <1>6, <2>1, <2>4 DEF HearStop
  <2> QED
      BY <2>4, <2>5, <1>3
<1>7. ASSUME NEW r \in Requests, Chime(r) PROVE Counts'
  <2>1. PICK y : y = <<r, 0>> /\ y \in Playable /\ y[2] = 0
      BY Numbers
  <2>2. [type |-> "chime", item |-> y] \in Message
      BY <2>1 DEF Message
  <2>3. PICK m \in Message : m = [type |-> "chime", item |-> y] /\ Piece(m)[2] = 0
      BY <2>1, <2>2 DEF Piece
  <2>4. /\ UNCHANGED <<pending, sent, to_core>> /\ UNCHANGED playVars
        /\ UNCHANGED to_sidecar \/ Send(m)
      BY <1>7, <2>1, <2>3 DEF Chime
  <2> QED
      BY <2>3, <2>4, <1>2, <1>3
<1>8. ASSUME NEW r \in Requests,
             \/ Say(r) \/ CallTool(r) \/ NextModelCall(r) \/ generate_streamed(r)
             \/ Close(r) \/ GoodbyeSpoken(r) \/ GoodbyeTimesOut(r)
      PROVE  Counts'
    BY <1>2, <1>8 DEF Say, CallTool, NextModelCall, generate_streamed, Close, GoodbyeSpoken, GoodbyeTimesOut
<1>9. CASE HearRequest \/ HearLeave \/ Take \/ UNCHANGED vars
    BY <1>2, <1>9 DEF HearRequest, HearLeave, Take, vars, coreVars
<1>10. CASE \E i \in Items : LineWritten(i)
    BY <1>2, <1>10 DEF LineWritten
<1>11. CASE CountItem \/ SpeechEnds
    BY <1>11, CountsCount, CountsEnd
<1>12. ASSUME NEW r \in Requests, SendItem(r) PROVE Counts'
    BY <1>12, CountsSend
<1> QED
    BY <1>4, <1>5, <1>6, <1>7, <1>8, <1>9, <1>10, <1>11, <1>12 DEF Next

--------------------------------------------------------------------------------
(* The properties. *)

IInv == Typed /\ TurnsFit /\ PiecesFit /\ StopsFit /\ Counts

LEMMA IInvInitially == ASSUME Init, SpeechAssumption PROVE IInv
    BY TypedInitially, TurnsInitially, PiecesInitially, StopsInitially, CountsInitially DEF IInv

LEMMA PiecesStep ==
    ASSUME Typed, TurnsFit, PiecesFit, [Next]_vars, SpeechAssumption PROVE PiecesFit'
<1>1. LoopFits' /\ MessagesFit'
    BY LoopStep, MessagesStep DEF PiecesFit
<1>2. CASE UNCHANGED playVars /\
           ( \/ HearRequest \/ HearWakePhrase \/ HearStop \/ HearLeave \/ Take
             \/ \E r \in Requests :
                  \/ Chime(r) \/ Say(r) \/ CallTool(r) \/ NextModelCall(r) \/ generate_streamed(r)
                  \/ SendItem(r) \/ Close(r) \/ GoodbyeSpoken(r) \/ GoodbyeTimesOut(r)
             \/ CountItem \/ SpeechEnds )
    BY <1>1, <1>2, CorePieces DEF PiecesFit
<1>3. CASE Enqueue \/ Stop \/ Resume \/ PlayEnds \/ \E i \in Items : Synthesised(i)
  <2>1. UNCHANGED coreVars
      BY <1>3 DEF Enqueue, Stop, Resume, PlayEnds, Synthesised
  <2>2. Queues \/ Clears \/ Plays \/ Fails \/ Ends \/ Stays
      BY <1>3, <2>1, PlayMoves DEF PiecesFit
  <2> QED
      BY <1>1, <2>1, <2>2, PlayPieces DEF PiecesFit
<1>4. CASE UNCHANGED vars \/ \E i \in Items : LineWritten(i)
  <2>1. UNCHANGED <<played, to_core, items, Playing, Wire, Unsent, current, at, put>>
      BY <1>4 DEF vars, coreVars, playVars, LineWritten, Playing, Wire, Unsent
  <2>2. \A x : Reached(x) => Reached(x)'
      BY <2>1 DEF Reached
  <2> QED
      BY <1>1, <2>1, <2>2, PiecesRest DEF PiecesFit
<1> QED
    BY <1>2, <1>3, <1>4 DEF Next, HearRequest, HearWakePhrase, HearStop, HearLeave,
       Take, Chime, Say, CallTool, NextModelCall, generate_streamed, SendItem, Close, GoodbyeSpoken,
       GoodbyeTimesOut, CountItem, SpeechEnds

LEMMA IInvStep == ASSUME IInv, [Next]_vars, SpeechAssumption PROVE IInv'
<1>1. Typed' /\ PiecesFit' /\ Counts'
    BY TypedStep, PiecesStep, CountsStep DEF IInv
<1>2. TurnsFit'
    BY <1>1, TurnsStep DEF IInv
<1>3. StopsFit'
    BY StopsStep DEF IInv, PiecesFit
<1> QED
    BY <1>1, <1>2, <1>3 DEF IInv

(* What is played comes in the order it was meant in, each piece at most     *)
(* once, stopped, failed and slow pieces or not.                             *)
THEOREM PlayedInOrder == Spec => []SpokenInOrder
<1> USE SpeechAssumption
<1>1. Init => IInv
    BY IInvInitially
<1>2. IInv /\ [Next]_vars => IInv'
    BY IInvStep
<1>3. IInv => SpokenInOrder
  <2> SUFFICES ASSUME IInv PROVE SpokenInOrder
      OBVIOUS
  <2>1. Ordered(played) /\ \A n \in DOMAIN played : played[n] # WakeChime
    <3>1. played \in Seq(Items) /\ WakeChime \notin Items
        BY Numbers DEF IInv, Typed
    <3>2. Ordered(played)
        BY DEF IInv, PiecesFit, Chain, ChainOf
    <3> QED
        BY <3>1, <3>2
  <2> QED
      BY <2>1 DEF SpokenInOrder, Ordered
<1> QED
    BY <1>1, <1>2, <1>3, PTL DEF Spec

(* Once "stop" has reached the sidecar, no further word of that turn is      *)
(* played, not even what its model writes afterwards.                        *)
THEOREM StoppedStaysSilent == Spec => StopIsFinal
<1> USE SpeechAssumption
<1>1. Init => IInv
    BY IInvInitially
<1>2. IInv /\ [Next]_vars => IInv'
    BY IInvStep
<1>3. IInv /\ [Next]_vars =>
         [\A n \in DOMAIN played' : n > Len(played) /\ played'[n][2] # 0 =>
              played'[n][1] \notin silenced]_vars
  <2> SUFFICES ASSUME IInv, [Next]_vars, NEW n \in DOMAIN played', n > Len(played), played'[n][2] # 0
               PROVE  played'[n][1] \notin silenced
      OBVIOUS
  <2>1. played \in Seq(Items) /\ items \in Seq(Playable) /\ n \notin DOMAIN played
    <3>1. played \in Seq(Items) /\ items \in Seq(Playable)
        BY DEF IInv, Typed
    <3> QED
        BY <3>1
  <2>2. played' # played
      BY <2>1
  <2>3. Resume
      BY <2>2 DEF Next, vars, coreVars, playVars, HearRequest, HearWakePhrase, HearStop, HearLeave,
         Take, Chime, Say, CallTool, NextModelCall, generate_streamed, SendItem, Close, GoodbyeSpoken,
         GoodbyeTimesOut, CountItem, SpeechEnds, LineWritten, Enqueue, Stop, Synthesised, PlayEnds
  <2>4. ~Stale /\ loop.at = "awaits" /\ played' = Append(played, loop.item)
        /\ loop.item # WakeChime
      BY <2>2, <2>3 DEF Resume
  <2>5. items # << >> /\ loop.item = Head(items)
      BY <2>4 DEF IInv, PiecesFit, LoopFits
  <2>6. loop.item = items[1] /\ 1 \in DOMAIN items /\ loop.item \in Playable
      BY <2>1, <2>5, Removed
  <2>7. loop.item \in Items
      BY <2>4, <2>6, Numbers
  <2>8. played'[n] = loop.item
      BY <2>1, <2>4, <2>7, Appended
  <2> QED
      BY <2>6, <2>8 DEF IInv, StopsFit
<1> QED
    BY <1>1, <1>2, <1>3, PTL DEF Spec, StopIsFinal

(* While a goodbye is waited for, the count of its turn is not down before   *)
(* everything it sent was spoken.                                            *)
THEOREM GoodbyeSpokenOut == Spec => []GoodbyeIsHeard
<1> USE SpeechAssumption
<1>1. Init => IInv
    BY IInvInitially
<1>2. IInv /\ [Next]_vars => IInv'
    BY IInvStep
<1>3. IInv => GoodbyeIsHeard
  <2> SUFFICES ASSUME IInv, NEW r \in Requests, at[r] = "goodbye", Outstanding(r) PROVE ~Spoken(r)
      BY DEF GoodbyeIsHeard
  <2>1. Debt(r) = 0
    <3>1. sent # NoItem => at[sent[1]] \in {"model", "closing"}
        BY DEF IInv, TurnsFit, InSpeech
    <3> QED
        BY <3>1 DEF Debt
  <2>2. \E x \in Afloat : x[1] = r /\ x[2] # 0
    <3>0. r # NoTurn /\ WakeChime[1] = NoTurn
        BY Numbers DEF WakeChime
    <3>1. ASSUME NEW k \in DOMAIN to_sidecar, to_sidecar[k].type = "speak", to_sidecar[k].item[1] = r
          PROVE  \E x \in Afloat : x[1] = r /\ x[2] # 0
      <4>1. to_sidecar[k].item[2] # 0
          BY <3>1 DEF IInv, PiecesFit, MessagesFit
      <4>2. k \in DOMAIN Wire /\ Wire[k] = to_sidecar[k].item
        <5>1. to_sidecar \in Seq(Message)
            BY DEF IInv, Typed
        <5>2. DOMAIN WireOf(to_sidecar) = DOMAIN to_sidecar
              /\ WireOf(to_sidecar)[k] = Piece(to_sidecar[k])
            BY <3>1, <5>1, Wires
        <5> QED
            BY <3>1, <5>2 DEF Wire, Piece
      <4>3. Wire[k] \in Of(Wire)
          BY <3>0, <3>1, <4>2 DEF Of
      <4> QED
          BY <3>1, <4>1, <4>2, <4>3 DEF Afloat, Pieces
    <3>2. ASSUME NEW k \in DOMAIN items, items[k][1] = r, items[k][2] # 0
          PROVE  \E x \in Afloat : x[1] = r /\ x[2] # 0
      <4>1. items[k] \in Of(items)
          BY <3>0, <3>2 DEF Of
      <4> QED
          BY <3>2, <4>1 DEF Afloat, Pieces
    <3>3. ASSUME loop.at = "plays", loop.item[1] = r, loop.item[2] # 0
          PROVE  \E x \in Afloat : x[1] = r /\ x[2] # 0
        BY <3>0, <3>3 DEF Afloat, Pieces, Playing
    <3> QED
        BY <3>1, <3>2, <3>3 DEF Outstanding
  <2>3. /\ Cardinality(OfTurn(Afloat, r)) <= pending[r] + Debt(r) /\ pending[r] \in Nat
        /\ IsFiniteSet(OfTurn(Afloat, r)) /\ Cardinality(OfTurn(Afloat, r)) \in Nat
      BY AfloatTyped, FewPieces DEF IInv, Counts, Typed
  <2>4. OfTurn(Afloat, r) # {}
      BY <2>2 DEF OfTurn
  <2>5. Cardinality(OfTurn(Afloat, r)) # 0
      BY <2>3, <2>4, FS_EmptySet
  <2> QED
      BY <2>1, <2>3, <2>5 DEF Spoken
<1> QED
    BY <1>1, <1>2, <1>3, PTL DEF Spec

--------------------------------------------------------------------------------
(* The life of a call. *)

ToTheSidecar == [type : {"join"}, channel : Channels] \cup [type : {"leave"}]
ToTheCore == [type : {"payload"}, channel : Channels \cup {None}]
             \cup [type : {"ready", "disconnected"}]
Holds(q, type) == \E i \in DOMAIN q : q[i].type = type
AsksFor(q, c) == \E i \in DOMAIN q : q[i].type = "join" /\ q[i].channel = c

WireTyped ==
    /\ from_core \in Seq(ToTheSidecar) /\ from_sidecar \in Seq(ToTheCore)
    /\ sidecar \in [channel : Channels \cup {None}, status : {"none", "joining", "ready", "dropped"}]
    /\ sidecar.status = "none" <=> sidecar.channel = None
    /\ \A s \in Sessions : stage[s] # "new" => channel[s] \in Channels

(* A message is under way that will end whatever call there is.             *)
WillEnd == Holds(from_core, "leave") \/ Holds(from_sidecar, "disconnected")

(* A session whose protocol was ever made is past its text channel.         *)
Begun(s) == stage[s] \notin {"new", "text_channel"}
Protocols == {client, protocol} \cup gone \cup {leaving[s] : s \in Sessions}
ProtocolsBegun == \A s \in Protocols \ {None} : Begun(s)

(* The gate is only held while there is a link, by a session whose          *)
(* protocol has not been told that it is gone.                              *)
GateHasLink == gate # None => link /\ gate \notin gone /\ stage[gate] # "new"

(* The sidecar is where the session in the gate is, or will be, or the      *)
(* session will end ...                                                     *)
SidecarFollows ==
    gate # None /\ Begun(gate) =>
        WillEnd \/ AsksFor(from_core, channel[gate]) \/ sidecar.channel = channel[gate]

(* ... and so is discord.py: whoever takes its protocol away has asked the  *)
(* sidecar to leave, or Discord is about to say so.                         *)
ClientFollows == gate # None /\ Begun(gate) => client = gate \/ told \/ WillEnd
LeavingIsAsked == gate # None /\ (\E s \in Sessions : leaving[s] = gate) => WillEnd

(* The other way round: a session leaves the gate before its protocol is    *)
(* gone only if it was ended early or waits for the end of that protocol.   *)
EarlyEnds == \A s \in Sessions : stage[s] = "text_channel" => gate = s \/ s \in early
ClientEnds == client # None => gate = client \/ client \in early \/ leaving[client] = client

CallInv ==
    /\ CallTypeOK /\ WireTyped /\ ProtocolsBegun /\ GateHasLink /\ SidecarFollows
    /\ ClientFollows /\ LeavingIsAsked /\ EarlyEnds /\ ClientEnds

(* Messages on a queue that grows at its end and is taken from its front.   *)
LEMMA HoldsMore ==
    ASSUME NEW S, NEW q \in Seq(S), NEW r \in Seq(S), NEW type
    PROVE  /\ q \o r \in Seq(S)
           /\ Holds(q \o r, type) <=> Holds(q, type) \/ Holds(r, type)
<1>1. q \o r \in Seq(S) /\ Len(q \o r) = Len(q) + Len(r) /\ Len(q) \in Nat /\ Len(r) \in Nat
    OBVIOUS
<1>2. \A i \in 1..Len(q) : (q \o r)[i] = q[i]
    OBVIOUS
<1>3. \A i \in 1..Len(r) : (q \o r)[Len(q) + i] = r[i]
    OBVIOUS
<1>4. ASSUME NEW i \in 1..Len(q) + Len(r) PROVE i \in 1..Len(q) \/ \E j \in 1..Len(r) : i = Len(q) + j
    <2>1. CASE i > Len(q)
        <3>1. i - Len(q) \in 1..Len(r) /\ i = Len(q) + (i - Len(q))
            BY <1>1, <2>1
        <3> QED
            BY <3>1
    <2> QED
        BY <1>1, <2>1
<1>5. DOMAIN q = 1..Len(q) /\ DOMAIN r = 1..Len(r) /\ DOMAIN (q \o r) = 1..Len(q) + Len(r)
    BY <1>1
<1>6. ASSUME Holds(q \o r, type) PROVE Holds(q, type) \/ Holds(r, type)
    <2>1. PICK i \in 1..Len(q) + Len(r) : (q \o r)[i].type = type
        BY <1>5, <1>6 DEF Holds
    <2> QED
        BY <2>1, <1>2, <1>3, <1>4, <1>5 DEF Holds
<1>7. ASSUME Holds(q, type) PROVE Holds(q \o r, type)
    <2>1. PICK i \in 1..Len(q) : q[i].type = type
        BY <1>5, <1>7 DEF Holds
    <2>2. i \in 1..Len(q) + Len(r)
        BY <1>1
    <2> QED
        BY <2>1, <2>2, <1>2, <1>5 DEF Holds
<1>8. ASSUME Holds(r, type) PROVE Holds(q \o r, type)
    <2>1. PICK i \in 1..Len(r) : r[i].type = type
        BY <1>5, <1>8 DEF Holds
    <2>2. Len(q) + i \in 1..Len(q) + Len(r)
        BY <1>1
    <2> QED
        BY <2>1, <2>2, <1>3, <1>5 DEF Holds
<1> QED
    BY <1>1, <1>6, <1>7, <1>8

LEMMA AsksForMore ==
    ASSUME NEW S, NEW q \in Seq(S), NEW r \in Seq(S), NEW c, AsksFor(q, c) \/ AsksFor(r, c)
    PROVE  AsksFor(q \o r, c)
<1>1. Len(q \o r) = Len(q) + Len(r) /\ Len(q) \in Nat /\ Len(r) \in Nat
    OBVIOUS
<1>2. DOMAIN q = 1..Len(q) /\ DOMAIN r = 1..Len(r) /\ DOMAIN (q \o r) = 1..Len(q) + Len(r)
    BY <1>1
<1>3. CASE AsksFor(q, c)
    <2>1. PICK i \in 1..Len(q) : q[i].type = "join" /\ q[i].channel = c
        BY <1>2, <1>3 DEF AsksFor
    <2>2. i \in 1..Len(q) + Len(r) /\ (q \o r)[i] = q[i]
        BY <1>1
    <2> QED
        BY <2>1, <2>2, <1>2 DEF AsksFor
<1>4. CASE AsksFor(r, c)
    <2>1. PICK i \in 1..Len(r) : r[i].type = "join" /\ r[i].channel = c
        BY <1>2, <1>4 DEF AsksFor
    <2>2. Len(q) + i \in 1..Len(q) + Len(r) /\ (q \o r)[Len(q) + i] = r[i]
        BY <1>1
    <2> QED
        BY <2>1, <2>2, <1>2 DEF AsksFor
<1> QED
    BY <1>3, <1>4

LEMMA HoldsRest ==
    ASSUME NEW S, NEW q \in Seq(S), q # << >>
    PROVE  /\ Head(q) \in S /\ Tail(q) \in Seq(S)
           /\ \A type : Holds(q, type) => Head(q).type = type \/ Holds(Tail(q), type)
           /\ \A c : AsksFor(q, c) =>
                (Head(q).type = "join" /\ Head(q).channel = c) \/ AsksFor(Tail(q), c)
<1>1. /\ Head(q) = q[1] /\ q[1] \in S /\ Tail(q) \in Seq(S)
      /\ Len(Tail(q)) = Len(q) - 1 /\ Len(q) \in Nat \ {0}
      /\ \A i \in 1..Len(q) - 1 : Tail(q)[i] = q[i + 1]
    OBVIOUS
<1>2. DOMAIN q = 1..Len(q) /\ DOMAIN Tail(q) = 1..Len(q) - 1
    BY <1>1
<1>3. \A i \in 2..Len(q) : i - 1 \in 1..Len(q) - 1 /\ q[i] = Tail(q)[i - 1]
    BY <1>1
<1>4. \A i \in 1..Len(q) : i = 1 \/ i \in 2..Len(q)
    BY <1>1
<1>5. ASSUME NEW type, Holds(q, type) PROVE Head(q).type = type \/ Holds(Tail(q), type)
    <2>1. PICK i \in 1..Len(q) : q[i].type = type
        BY <1>2, <1>5 DEF Holds
    <2> QED
        BY <2>1, <1>1, <1>2, <1>3, <1>4 DEF Holds
<1>6. ASSUME NEW c, AsksFor(q, c)
      PROVE  (Head(q).type = "join" /\ Head(q).channel = c) \/ AsksFor(Tail(q), c)
    <2>1. PICK i \in 1..Len(q) : q[i].type = "join" /\ q[i].channel = c
        BY <1>2, <1>6 DEF AsksFor
    <2> QED
        BY <2>1, <1>1, <1>2, <1>3, <1>4 DEF AsksFor
<1> QED
    BY <1>1, <1>5, <1>6

(* What core and the sidecar send.                                          *)
LEMMA SidecarIsSent ==
    ASSUME WireTyped, NEW q \in Seq(ToTheSidecar), ToSidecar(q)
    PROVE  /\ from_core' \in Seq(ToTheSidecar)
           /\ Holds(from_core, "leave") => Holds(from_core', "leave")
           /\ \A c : AsksFor(from_core, c) => AsksFor(from_core', c)
           /\ link => /\ Holds(q, "leave") => Holds(from_core', "leave")
                      /\ \A c : AsksFor(q, c) => AsksFor(from_core', c)
<1>1. from_core \in Seq(ToTheSidecar)
    BY DEF WireTyped
<1>2. CASE link
    BY <1>1, <1>2, HoldsMore, AsksForMore DEF ToSidecar
<1>3. CASE ~link
    BY <1>1, <1>3 DEF ToSidecar
<1> QED
    BY <1>2, <1>3

LEMMA CoreIsSent ==
    ASSUME WireTyped, NEW q \in Seq(ToTheCore), ToCore(q)
    PROVE  /\ from_sidecar' \in Seq(ToTheCore)
           /\ Holds(from_sidecar, "disconnected") => Holds(from_sidecar', "disconnected")
           /\ link /\ Holds(q, "disconnected") => Holds(from_sidecar', "disconnected")
<1>1. from_sidecar \in Seq(ToTheCore)
    BY DEF WireTyped
<1>2. CASE link
    BY <1>1, <1>2, HoldsMore DEF ToCore
<1>3. CASE ~link
    BY <1>1, <1>3 DEF ToCore
<1> QED
    BY <1>2, <1>3

Leave == <<[type |-> "leave"]>>
Join(c) == <<[type |-> "join", channel |-> c]>>
Payload(c) == <<[type |-> "payload", channel |-> c]>>

LEMMA WhatCoreSends ==
    /\ Leave \in Seq(ToTheSidecar) /\ Holds(Leave, "leave") /\ << >> \in Seq(ToTheSidecar)
    /\ \A c \in Channels : Join(c) \in Seq(ToTheSidecar) /\ AsksFor(Join(c), c)
<1>1. Leave \in Seq(ToTheSidecar) /\ Holds(Leave, "leave") /\ << >> \in Seq(ToTheSidecar)
    BY DEF Leave, ToTheSidecar, Holds
<1>2. ASSUME NEW c \in Channels PROVE Join(c) \in Seq(ToTheSidecar) /\ AsksFor(Join(c), c)
    BY DEF Join, ToTheSidecar, AsksFor
<1> QED
    BY <1>1, <1>2

LEMMA WhatTheSidecarSends ==
    /\ Farewell \in Seq(ToTheCore) /\ Holds(Farewell, "disconnected")
    /\ Tail(Farewell) \in Seq(ToTheCore) /\ Holds(Tail(Farewell), "disconnected")
    /\ <<[type |-> "ready"]>> \in Seq(ToTheCore) /\ << >> \in Seq(ToTheCore)
    /\ \A c \in Channels : /\ Payload(c) \in Seq(ToTheCore)
                            /\ Farewell \o Payload(c) \in Seq(ToTheCore)
                            /\ Holds(Farewell \o Payload(c), "disconnected")
<1>1. Farewell \in Seq(ToTheCore) /\ Farewell[2].type = "disconnected" /\ DOMAIN Farewell = {1, 2}
    BY DEF Farewell, ToTheCore
<1>2. Tail(Farewell) = <<[type |-> "disconnected"]>>
    BY DEF Farewell
<1>3. Tail(Farewell) \in Seq(ToTheCore) /\ Holds(Tail(Farewell), "disconnected")
    <2>1. [type |-> "disconnected"] \in ToTheCore
        BY DEF ToTheCore
    <2> DEFINE said == <<[type |-> "disconnected"]>>
    <2>2. said \in Seq(ToTheCore) /\ DOMAIN said = {1} /\ said[1].type = "disconnected"
        BY <2>1
    <2>3. Holds(said, "disconnected")
        BY <2>2 DEF Holds
    <2> QED
        BY <1>2, <2>2, <2>3
<1>4. <<[type |-> "ready"]>> \in Seq(ToTheCore) /\ << >> \in Seq(ToTheCore)
    BY DEF ToTheCore
<1>5. Holds(Farewell, "disconnected")
    BY <1>1 DEF Holds
<1>6. ASSUME NEW c \in Channels
      PROVE  /\ Payload(c) \in Seq(ToTheCore)
             /\ Farewell \o Payload(c) \in Seq(ToTheCore)
             /\ Holds(Farewell \o Payload(c), "disconnected")
    <2>1. Payload(c) \in Seq(ToTheCore)
        BY DEF Payload, ToTheCore
    <2> QED
        BY <2>1, <1>1, <1>5, HoldsMore
<1> QED
    BY <1>1, <1>3, <1>4, <1>5, <1>6

(* Types. *)

LEMMA EndTyped ==
    ASSUME CallTypeOK, NEW s \in Sessions, NEW c \in Sessions \cup {None}, EndsWith(s, c)
    PROVE  /\ gate' \in Sessions \cup {None} /\ leaving' \in [Sessions -> Sessions \cup {None}]
           /\ {ended', worker', idle', early'} \subseteq SUBSET Sessions
BY DEF CallTypeOK, EndsWith, LeaveGate

LEMMA CallTypeStep ==
    ASSUME CallInv, [CallNext]_callVars
    PROVE  CallTypeOK'
<1>0. CallTypeOK /\ WireTyped
    BY DEF CallInv
<1> USE DEF CallTypeOK, sessionVars, wireVars, worldVars
<1>1. ASSUME NEW s \in Sessions, NEW c \in Channels, Start(s, c) PROVE CallTypeOK'
    BY <1>0, <1>1 DEF Start
<1>2. ASSUME NEW s \in Sessions, Connect(s) PROVE CallTypeOK'
    <2>1. CASE client = None /\ link
        BY <1>0, <1>2, <2>1 DEF Connect
    <2>2. CASE ~(client = None /\ link)
        BY <1>0, <1>2, <2>2 DEF Connect, LeaveAfterFailure, LeaveGate
    <2> QED
        BY <2>1, <2>2
<1>3. ASSUME NEW s \in Sessions, Connected(s) \/ ConnectTimesOut(s) PROVE CallTypeOK'
    BY <1>0, <1>3 DEF Connected, ConnectTimesOut
<1>3b. ASSUME NEW s \in Sessions, ConnectFails(s) PROVE CallTypeOK'
    BY <1>0, <1>3b DEF ConnectFails, Cleanup, LeaveAfterFailure, LeaveGate
<1>4. ASSUME NEW s \in Sessions, BackedOut(s) PROVE CallTypeOK'
    BY <1>0, <1>4 DEF BackedOut, LeaveDiscord, Cleanup, LeaveAfterFailure, LeaveGate
<1>4b. ASSUME NEW s \in Sessions, Disconnected(s) PROVE CallTypeOK'
    <2>1. told' \in BOOLEAN /\ in_channel' \in Channels \cup {None}
        BY <1>0, <1>4b DEF Disconnected, LeaveDiscord
    <2>2. leaving' \in [Sessions -> Sessions \cup {None}]
        BY <1>0, <1>4b DEF Disconnected
    <2> QED
        BY <1>0, <1>4b, <2>1, <2>2 DEF Disconnected, Cleanup
<1>5. ASSUME NEW s \in Sessions, Begin(s) \/ Posted(s) PROVE CallTypeOK'
    BY <1>0, <1>5 DEF Begin, Posted, MembersChanged
<1>6. ASSUME NEW s \in Sessions, LeaveWhenAlone(s) PROVE CallTypeOK'
    <2>1. CASE people
        BY <1>0, <1>6, <2>1 DEF LeaveWhenAlone
    <2>2. CASE ~people
        <3>1. EndsWith(s, client) /\ client \in Sessions \cup {None}
            BY <1>0, <1>6, <2>2 DEF LeaveWhenAlone
        <3>2. /\ gate' \in Sessions \cup {None} /\ leaving' \in [Sessions -> Sessions \cup {None}]
              /\ {ended', worker', idle', early'} \subseteq SUBSET Sessions
            BY <1>0, <3>1, EndTyped
        <3> QED
            BY <1>0, <1>6, <3>2 DEF LeaveWhenAlone
    <2> QED
        BY <2>1, <2>2
<1>7. CASE AskedToLeave
    <2>1. EndsWith(gate, client) /\ gate \in Sessions /\ client \in Sessions \cup {None}
        BY <1>0, <1>7 DEF AskedToLeave
    <2>2. /\ gate' \in Sessions \cup {None} /\ leaving' \in [Sessions -> Sessions \cup {None}]
          /\ {ended', worker', idle', early'} \subseteq SUBSET Sessions
        BY <1>0, <2>1, EndTyped
    <2> QED
        BY <1>0, <1>7, <2>2 DEF AskedToLeave
<1>8. CASE PeopleComeOrGo
    BY <1>0, <1>8 DEF PeopleComeOrGo, MembersChanged
<1>9. CASE SidecarTakes
    <2>1. /\ from_core # << >> /\ from_core \in Seq(ToTheSidecar)
          /\ UNCHANGED <<sessionVars, link, worldVars>>
        BY <1>0, <1>9 DEF SidecarTakes, WireTyped
    <2>2. Head(from_core) \in ToTheSidecar
        BY <2>1
    <2>3. sidecar' \in {sidecar, NotThere, [channel |-> Head(from_core).channel, status |-> "joining"]}
        BY <1>9, <2>2 DEF SidecarTakes, ToTheSidecar
    <2>4. Head(from_core).type = "join" => Head(from_core).channel \in Channels
        BY <2>2 DEF ToTheSidecar
    <2>5. Head(from_core).type # "join" => sidecar' = NotThere
        BY <1>9, <2>2 DEF SidecarTakes, ToTheSidecar
    <2>6. sidecar'.channel \in Channels \cup {None} /\ sidecar'.status \in {"none", "joining", "ready", "dropped"}
        BY <1>0, <2>3, <2>4, <2>5 DEF NotThere
    <2> QED
        BY <1>0, <2>1, <2>6
<1>10. CASE SidecarReady \/ SidecarGivesUp
    BY <1>0, <1>10 DEF SidecarReady, SidecarGivesUp, NotThere, WireTyped
<1>10b. CASE SidecarDrops
    <2>1. troubles' \in 0 .. MaxTroubles
        BY <1>0, <1>10b, CallAssumption DEF SidecarDrops
    <2>2. sidecar'.channel \in Channels \cup {None} /\ sidecar'.status \in {"none", "joining", "ready", "dropped"}
        BY <1>0, <1>10b DEF SidecarDrops, WireTyped
    <2> QED
        BY <1>0, <1>10b, <2>1, <2>2 DEF SidecarDrops
<1>11. CASE CoreTakes
    <2>1. Head(from_sidecar) \in ToTheCore
        BY <1>0, <1>11 DEF CoreTakes, WireTyped
    <2>2. CASE Head(from_sidecar).type = "payload"
        <3>1. Head(from_sidecar).channel \in Channels \cup {None}
            BY <2>1, <2>2 DEF ToTheCore
        <3>2. in_channel' \in Channels \cup {None} /\ told' \in BOOLEAN
            BY <1>0, <1>11, <2>2, <3>1 DEF CoreTakes
        <3>3. UNCHANGED <<sessionVars, from_core, link, sidecar, people, troubles>>
            BY <1>11, <2>2 DEF CoreTakes
        <3> QED
            BY <1>0, <3>2, <3>3
    <2>3. CASE Head(from_sidecar).type = "ready"
        <3>1. /\ ready' = ready \cup ({protocol} \ {None})
              /\ UNCHANGED <<gate, stage, channel, ended, leaving, worker, idle, client, protocol,
                             gone, early, in_channel, told, sidecar, link, people, troubles>>
            BY <1>11, <2>3 DEF CoreTakes
        <3>2. ready' \subseteq Sessions
            BY <1>0, <3>1
        <3> QED
            BY <1>0, <3>1, <3>2
    <2>4. CASE Head(from_sidecar).type = "disconnected"
        <3>1. gone' \subseteq Sessions
            BY <1>0, <1>11, <2>4 DEF CoreTakes
        <3>2. CASE gate = None
            BY <1>0, <1>11, <2>4, <3>1, <3>2 DEF CoreTakes
        <3>3. CASE gate # None
            <4>1. EndsWith(gate, client) /\ gate \in Sessions /\ client \in Sessions \cup {None}
                BY <1>0, <1>11, <2>4, <3>3 DEF CoreTakes
            <4>2. /\ gate' \in Sessions \cup {None} /\ leaving' \in [Sessions -> Sessions \cup {None}]
                  /\ {ended', worker', idle', early'} \subseteq SUBSET Sessions
                BY <1>0, <4>1, EndTyped
            <4> QED
                BY <1>0, <1>11, <2>4, <3>1, <4>2 DEF CoreTakes
        <3> QED
            BY <3>2, <3>3
    <2> QED
        BY <2>1, <2>2, <2>3, <2>4 DEF ToTheCore
<1>12. CASE LinkDrops
    <2>1. troubles' \in 0 .. MaxTroubles
        BY <1>0, <1>12, CallAssumption DEF LinkDrops
    <2>2. /\ gone' \subseteq Sessions /\ sidecar'.channel \in Channels \cup {None}
          /\ sidecar'.status \in {"none", "joining", "ready", "dropped"} /\ link' \in BOOLEAN
        BY <1>0, <1>12 DEF LinkDrops, NotThere
    <2>3. CASE gate = None
        BY <1>0, <1>12, <2>1, <2>2, <2>3 DEF LinkDrops
    <2>4. CASE gate # None
        <3>1. EndsWith(gate, client) /\ gate \in Sessions /\ client \in Sessions \cup {None}
            BY <1>0, <1>12, <2>4 DEF LinkDrops
        <3>2. /\ gate' \in Sessions \cup {None} /\ leaving' \in [Sessions -> Sessions \cup {None}]
              /\ {ended', worker', idle', early'} \subseteq SUBSET Sessions
            BY <1>0, <3>1, EndTyped
        <3> QED
            BY <1>0, <1>12, <2>1, <2>2, <3>2 DEF LinkDrops
    <2> QED
        BY <2>3, <2>4
<1>13. CASE LinkReturns
    BY <1>0, <1>13 DEF LinkReturns
<1>13b. CASE Kick
    <2>1. troubles' \in 0 .. MaxTroubles
        BY <1>0, <1>13b, CallAssumption DEF Kick
    <2> QED
        BY <1>0, <1>13b, <2>1 DEF Kick
<1>14. CASE DiscordSaysLeft
    <2>1. /\ client' \in Sessions \cup {None} /\ protocol' \in Sessions \cup {None}
          /\ told' \in BOOLEAN
        BY <1>0, <1>14 DEF DiscordSaysLeft
    <2>3. CASE gate = None
        BY <1>0, <1>14, <2>1, <2>3 DEF DiscordSaysLeft
    <2>4. CASE gate # None
        <3>1. EndsWith(gate, None) /\ gate \in Sessions
            BY <1>0, <1>14, <2>4 DEF DiscordSaysLeft
        <3>2. /\ gate' \in Sessions \cup {None} /\ leaving' \in [Sessions -> Sessions \cup {None}]
              /\ {ended', worker', idle', early'} \subseteq SUBSET Sessions
            BY <1>0, <3>1, EndTyped
        <3> QED
            BY <1>0, <1>14, <2>1, <3>2 DEF DiscordSaysLeft
    <2> QED
        BY <2>3, <2>4
<1>15. CASE UNCHANGED callVars
    BY <1>0, <1>15 DEF callVars
<1> QED
    BY <1>1, <1>2, <1>3, <1>3b, <1>4, <1>4b, <1>5, <1>6, <1>7, <1>8, <1>9, <1>10, <1>10b, <1>11,
       <1>12, <1>13, <1>13b, <1>14, <1>15
    DEF CallNext

(* What runs over the wire.                                                 *)
LEMMA WireStep ==
    ASSUME CallInv, [CallNext]_callVars
    PROVE  WireTyped'
<1>0. /\ CallTypeOK /\ WireTyped /\ None \notin Channels
      /\ from_core \in Seq(ToTheSidecar) /\ from_sidecar \in Seq(ToTheCore)
      /\ sidecar \in [channel : Channels \cup {None}, status : {"none", "joining", "ready", "dropped"}]
      /\ sidecar.status = "none" <=> sidecar.channel = None
      /\ \A s \in Sessions : stage[s] # "new" => channel[s] \in Channels
    BY CallAssumption DEF CallInv, WireTyped
<1> DEFINE Core == from_core' \in Seq(ToTheSidecar)
           Side == from_sidecar' \in Seq(ToTheCore)
           Sits == /\ sidecar' \in [channel : Channels \cup {None}, status : {"none", "joining", "ready", "dropped"}]
                   /\ sidecar'.status = "none" <=> sidecar'.channel = None
           Chosen == \A s \in Sessions : stage'[s] # "new" => channel'[s] \in Channels
<1> SUFFICES Core /\ Side /\ Sits /\ Chosen
    BY DEF WireTyped
<1>s. Leave = <<[type |-> "leave"]>> /\ \A c : Join(c) = <<[type |-> "join", channel |-> c]>>
    BY DEF Leave, Join
<1>c. UNCHANGED <<stage, channel>> => Chosen
    BY <1>0
<1>w. UNCHANGED wireVars => Core /\ Side /\ Sits
    BY <1>0 DEF wireVars
<1>t. ASSUME UNCHANGED <<from_sidecar, sidecar>>,
             UNCHANGED from_core \/ \E q \in {<< >>, Leave} : ToSidecar(q)
      PROVE  Core /\ Side /\ Sits
    BY <1>0, <1>t, SidecarIsSent, WhatCoreSends
<1>1. ASSUME NEW s \in Sessions, NEW c \in Channels, Start(s, c) PROVE Chosen /\ UNCHANGED wireVars
    BY <1>0, <1>1 DEF Start, CallTypeOK
<1>2. ASSUME NEW s \in Sessions, Connect(s) PROVE Core /\ Side /\ Sits /\ Chosen
    <2>1. Chosen /\ channel[s] \in Channels
        BY <1>0, <1>2 DEF Connect, CallTypeOK
    <2>2. CASE client = None /\ link
        <3>1. ToSidecar(Join(channel[s])) /\ UNCHANGED <<from_sidecar, sidecar>>
            BY <1>s, <1>2, <2>2 DEF Connect
        <3>2. Core
            BY <1>0, <2>1, <3>1, SidecarIsSent, WhatCoreSends
        <3> QED
            BY <1>0, <2>1, <3>1, <3>2
    <2>3. CASE ~(client = None /\ link)
        BY <1>0, <1>2, <2>1, <2>3 DEF Connect
    <2> QED
        BY <2>2, <2>3
<1>3. ASSUME NEW s \in Sessions, Connected(s) \/ Begin(s) \/ Posted(s) \/ BackedOut(s)
      PROVE  UNCHANGED wireVars /\ Chosen
    BY <1>0, <1>3 DEF Connected, Begin, Posted, BackedOut, CallTypeOK
<1>4. ASSUME NEW s \in Sessions, ConnectFails(s) \/ ConnectTimesOut(s)
      PROVE  Core /\ Side /\ Sits /\ Chosen
    <2>1. Chosen
        BY <1>0, <1>4 DEF ConnectFails, ConnectTimesOut, CallTypeOK
    <2>2. ToSidecar(Leave) /\ UNCHANGED <<from_sidecar, sidecar>>
        BY <1>s, <1>4 DEF ConnectFails, ConnectTimesOut
    <2> QED
        BY <1>t, <2>1, <2>2
<1>5. ASSUME NEW s \in Sessions, LeaveWhenAlone(s) PROVE Core /\ Side /\ Sits /\ Chosen
    BY <1>5, <1>s, <1>c, <1>t DEF LeaveWhenAlone
<1>6. ASSUME NEW s \in Sessions, Disconnected(s)
      PROVE  UNCHANGED wireVars /\ UNCHANGED <<stage, channel>>
    BY <1>6 DEF Disconnected
<1>7. CASE AskedToLeave
    BY <1>7, <1>s, <1>c, <1>t DEF AskedToLeave
<1>8. CASE PeopleComeOrGo \/ Kick \/ DiscordSaysLeft \/ UNCHANGED callVars
    BY <1>8, <1>c, <1>w DEF PeopleComeOrGo, Kick, DiscordSaysLeft, callVars, sessionVars
<1>9. CASE SidecarTakes
    <2> DEFINE m == Head(from_core)
    <2>1. /\ m \in ToTheSidecar /\ Tail(from_core) \in Seq(ToTheSidecar)
          /\ from_core' = Tail(from_core) /\ UNCHANGED <<stage, channel>>
        BY <1>0, <1>9, HoldsRest DEF SidecarTakes, sessionVars
    <2>2. Core /\ Chosen
        BY <1>c, <2>1
    <2>3. m.type = "join" => m.channel \in Channels
        BY <2>1 DEF ToTheSidecar
    <2>4. /\ Payload(m.channel) = <<[type |-> "payload", channel |-> m.channel]>>
          /\ NotThere = [channel |-> None, status |-> "none"]
        BY DEF Payload, NotThere
    <2>5. /\ sidecar' \in {sidecar, NotThere, [channel |-> m.channel, status |-> "joining"]}
          /\ m.type # "join" => sidecar' = NotThere
        BY <1>9, <2>1 DEF SidecarTakes, ToTheSidecar
    <2>6. Sits
        BY <1>0, <2>3, <2>4, <2>5
    <2>7. m.type \in {"join", "leave"}
        BY <2>1 DEF ToTheSidecar
    <2>8. \/ \E q \in {Farewell, Tail(Farewell), << >>, <<[type |-> "ready"]>>} : ToCore(q)
          \/ m.type = "join" /\ (ToCore(Payload(m.channel)) \/ ToCore(Farewell \o Payload(m.channel)))
        <3>1. CASE m.type = "join" /\ sidecar.channel = None
            BY <1>9, <2>4, <3>1 DEF SidecarTakes
        <3>2. CASE m.type = "join" /\ sidecar.channel = m.channel
            <4>1. ToCore(IF sidecar.status = "ready" THEN <<[type |-> "ready"]>> ELSE << >>)
                BY <1>0, <2>3, <1>9, <3>2 DEF SidecarTakes
            <4> QED
                BY <4>1
        <3>3. CASE m.type = "join" /\ sidecar.channel \notin {None, m.channel}
            BY <1>9, <2>4, <3>3 DEF SidecarTakes
        <3>4. CASE m.type = "leave"
            BY <1>9, <3>4 DEF SidecarTakes
        <3> QED
            BY <2>7, <3>1, <3>2, <3>3, <3>4
    <2>9. Side
        BY <1>0, <2>3, <2>8, CoreIsSent, WhatTheSidecarSends
    <2> QED
        BY <2>2, <2>6, <2>9
<1>10. CASE SidecarReady \/ SidecarDrops \/ SidecarGivesUp
    <2>1. Chosen /\ Core
        BY <1>0, <1>c, <1>10 DEF SidecarReady, SidecarDrops, SidecarGivesUp, sessionVars
    <2>2. Sits
        BY <1>0, <1>10 DEF SidecarReady, SidecarDrops, SidecarGivesUp, NotThere
    <2>3. UNCHANGED from_sidecar \/ \E q \in {Farewell, <<[type |-> "ready"]>>} : ToCore(q)
        BY <1>10 DEF SidecarReady, SidecarDrops, SidecarGivesUp
    <2>4. Side
        BY <1>0, <2>3, CoreIsSent, WhatTheSidecarSends
    <2> QED
        BY <2>1, <2>2, <2>4
<1>11. CASE CoreTakes
    <2>1. /\ Head(from_sidecar) \in ToTheCore /\ Side
          /\ from_sidecar' = Tail(from_sidecar) /\ UNCHANGED sidecar
        BY <1>0, <1>11, HoldsRest DEF CoreTakes
    <2>2. Head(from_sidecar).type \in {"payload", "ready", "disconnected"}
        BY <2>1 DEF ToTheCore
    <2>3. UNCHANGED <<stage, channel>> /\ (UNCHANGED from_core \/ \E q \in {<< >>, Leave} : ToSidecar(q))
        BY <1>11, <1>s, <2>2 DEF CoreTakes, sessionVars
    <2>4. Core
        BY <1>0, <2>3, SidecarIsSent, WhatCoreSends
    <2> QED
        BY <1>0, <1>c, <2>1, <2>3, <2>4
<1>12. CASE LinkDrops
    BY <1>0, <1>c, <1>12 DEF LinkDrops, NotThere
<1>13. CASE LinkReturns
    BY <1>0, <1>c, <1>13 DEF LinkReturns, sessionVars
<1> QED
    BY <1>w, <1>c, <1>1, <1>2, <1>3, <1>4, <1>5, <1>6, <1>7, <1>8, <1>9, <1>10, <1>11, <1>12, <1>13
    DEF CallNext

(* What the other side reads next.                                          *)
LEMMA NextForCore ==
    ASSUME CallInv, from_sidecar # << >>
    PROVE  /\ Head(from_sidecar).type \in {"payload", "ready", "disconnected"}
           /\ Head(from_sidecar).type # "disconnected" /\ Holds(from_sidecar, "disconnected")
                 => Holds(Tail(from_sidecar), "disconnected")
<1>1. from_sidecar \in Seq(ToTheCore)
    BY DEF CallInv, WireTyped
<1>2. Head(from_sidecar) \in ToTheCore
    BY <1>1, HoldsRest
<1> QED
    BY <1>1, <1>2, HoldsRest DEF ToTheCore

LEMMA NextForSidecar ==
    ASSUME CallInv, from_core # << >>
    PROVE  /\ Head(from_core).type \in {"join", "leave"}
           /\ Head(from_core).type # "leave" /\ Holds(from_core, "leave")
                 => Holds(Tail(from_core), "leave")
           /\ \A c : AsksFor(from_core, c) =>
                (Head(from_core).type = "join" /\ Head(from_core).channel = c) \/ AsksFor(Tail(from_core), c)
<1>1. from_core \in Seq(ToTheSidecar)
    BY DEF CallInv, WireTyped
<1>2. Head(from_core) \in ToTheSidecar
    BY <1>1, HoldsRest
<1> QED
    BY <1>1, <1>2, HoldsRest DEF ToTheSidecar

(* Sessions and protocols.                                                  *)
LEMMA BegunStays ==
    ASSUME CallInv, [CallNext]_callVars, NEW p \in Sessions
    PROVE  Begun(p) => Begun(p)'
<1>0. stage \in [Sessions -> {"new", "text_channel", "connecting", "backing_out", "settings",
                            "posting", "begun", "failed"}]
    BY DEF CallInv, CallTypeOK
<1>1. \/ UNCHANGED stage
      \/ \E s \in Sessions :
            \/ stage[s] = "new" /\ stage' = [stage EXCEPT ![s] = "text_channel"]
            \/ \E to \in {"connecting", "backing_out", "settings", "posting", "begun", "failed"} :
                 stage' = [stage EXCEPT ![s] = to]
    <2>1. ASSUME NEW s \in Sessions, NEW c \in Channels, Start(s, c)
          PROVE  stage[s] = "new" /\ stage' = [stage EXCEPT ![s] = "text_channel"]
        BY <2>1 DEF Start
    <2>2. ASSUME NEW s \in Sessions,
                 \/ Connect(s) \/ Connected(s) \/ ConnectFails(s) \/ ConnectTimesOut(s)
                 \/ BackedOut(s) \/ Begin(s) \/ Posted(s)
          PROVE  \E to \in {"connecting", "backing_out", "settings", "posting", "begun", "failed"} :
                    stage' = [stage EXCEPT ![s] = to]
        BY <2>2 DEF Connect, Connected, ConnectFails, ConnectTimesOut, BackedOut, Begin, Posted
    <2>3. ASSUME \/ \E s \in Sessions : LeaveWhenAlone(s) \/ Disconnected(s)
                 \/ AskedToLeave \/ PeopleComeOrGo \/ SidecarTakes \/ SidecarReady \/ SidecarDrops
                 \/ SidecarGivesUp \/ LinkDrops \/ LinkReturns \/ Kick \/ DiscordSaysLeft
                 \/ UNCHANGED callVars
          PROVE  UNCHANGED stage
        BY <2>3 DEF LeaveWhenAlone, Disconnected, AskedToLeave, PeopleComeOrGo, SidecarTakes,
            SidecarReady, SidecarDrops, SidecarGivesUp, LinkDrops, LinkReturns, Kick,
            DiscordSaysLeft, callVars, sessionVars
    <2>4. CASE CoreTakes
        BY <2>4, NextForCore DEF CoreTakes, sessionVars
    <2> QED
        BY <2>1, <2>2, <2>3, <2>4 DEF CallNext
<1> QED
    BY <1>0, <1>1 DEF Begun

(* No protocol appears but that of a session that connects.                 *)
LEMMA ProtocolsStep ==
    ASSUME CallInv, [CallNext]_callVars
    PROVE  ProtocolsBegun'
<1>0. CallTypeOK /\ ProtocolsBegun
    BY DEF CallInv
<1>1. SUFFICES ASSUME NEW p, p \in Protocols', p # None
               PROVE  p \in Protocols \/ (p \in Sessions /\ Begun(p)')
    <2>1. \A p \in Protocols \ {None} : p \in Sessions
        BY <1>0 DEF Protocols, CallTypeOK
    <2> QED
        BY <1>0, <1>1, <2>1, BegunStays DEF ProtocolsBegun
<1>2. p \in {client', protocol'} \cup gone' \cup {leaving'[s] : s \in Sessions}
    BY <1>1 DEF Protocols
<1>l. ASSUME NEW s \in Sessions, NEW c \in {client, None}, EndsWith(s, c)
      PROVE  {leaving'[x] : x \in Sessions} \subseteq {leaving[x] : x \in Sessions} \cup {client, None}
    BY <1>0, <1>l DEF EndsWith, CallTypeOK
<1>u. UNCHANGED <<leaving, client, protocol, gone>> => p \in Protocols
    BY <1>2 DEF Protocols
<1>3. ASSUME NEW s \in Sessions, Connect(s) PROVE p \in Protocols \/ (p \in Sessions /\ Begun(p)')
    <2>1. CASE client = None /\ link
        <3>1. /\ client' = s /\ protocol' = s /\ UNCHANGED <<leaving, gone>>
              /\ stage' = [stage EXCEPT ![s] = "connecting"]
            BY <1>3, <2>1 DEF Connect
        <3>2. Begun(s)'
            BY <1>0, <3>1 DEF Begun, CallTypeOK
        <3>3. CASE p = s
            BY <3>2, <3>3
        <3>4. CASE p # s
            BY <1>2, <3>1, <3>4 DEF Protocols
        <3> QED
            BY <3>3, <3>4
    <2>2. CASE ~(client = None /\ link)
        BY <1>u, <1>3, <2>2 DEF Connect
    <2> QED
        BY <2>1, <2>2
<1>4. ASSUME NEW s \in Sessions, ConnectFails(s) \/ BackedOut(s) PROVE p \in Protocols
    BY <1>1, <1>2, <1>4 DEF ConnectFails, BackedOut, Cleanup, Protocols
<1>5. ASSUME NEW s \in Sessions, Disconnected(s) PROVE p \in Protocols
    <2>1. {leaving'[x] : x \in Sessions} \subseteq {leaving[x] : x \in Sessions} \cup {None}
        BY <1>0, <1>5 DEF Disconnected, CallTypeOK
    <2> QED
        BY <1>1, <1>2, <1>5, <2>1 DEF Disconnected, Cleanup, Protocols
<1>6. ASSUME NEW s \in Sessions, LeaveWhenAlone(s) PROVE p \in Protocols
    BY <1>1, <1>2, <1>6, <1>l, <1>u DEF LeaveWhenAlone, Protocols
<1>7. CASE AskedToLeave
    <2>1. gate \in Sessions
        BY <1>0, <1>7 DEF AskedToLeave, CallTypeOK
    <2> QED
        BY <1>1, <1>2, <1>7, <2>1, <1>l DEF AskedToLeave, Protocols
<1>8. CASE CoreTakes
    <2>1. Head(from_sidecar).type \in {"payload", "ready", "disconnected"}
        BY <1>8, NextForCore DEF CoreTakes
    <2>2. CASE Head(from_sidecar).type # "disconnected"
        BY <1>u, <1>8, <2>1, <2>2 DEF CoreTakes, sessionVars
    <2>3. CASE Head(from_sidecar).type = "disconnected"
        <3>1. gone' = gone \cup ({protocol} \ {None}) /\ UNCHANGED <<client, protocol>>
            BY <1>8, <2>3 DEF CoreTakes
        <3>2. CASE gate = None
            <4>1. UNCHANGED leaving
                BY <1>8, <2>3, <3>2 DEF CoreTakes
            <4> QED
                BY <1>2, <3>1, <4>1 DEF Protocols
        <3>3. CASE gate # None
            <4>1. EndsWith(gate, client) /\ gate \in Sessions
                BY <1>0, <1>8, <2>3, <3>3 DEF CoreTakes, CallTypeOK
            <4> QED
                BY <1>1, <1>2, <3>1, <4>1, <1>l DEF Protocols
        <3> QED
            BY <3>2, <3>3
    <2> QED
        BY <2>2, <2>3
<1>9. CASE LinkDrops
    <2>1. gone' = gone \cup ({protocol} \ {None}) /\ UNCHANGED <<client, protocol>>
        BY <1>9 DEF LinkDrops
    <2>2. CASE gate = None
        BY <1>2, <1>9, <2>1, <2>2 DEF LinkDrops, Protocols
    <2>3. CASE gate # None
        <3>1. EndsWith(gate, client) /\ gate \in Sessions
            BY <1>0, <1>9, <2>3 DEF LinkDrops, CallTypeOK
        <3> QED
            BY <1>1, <1>2, <2>1, <3>1, <1>l DEF Protocols
    <2> QED
        BY <2>2, <2>3
<1>10. CASE DiscordSaysLeft
    <2>1. /\ UNCHANGED gone /\ client' = None
          /\ protocol' = IF protocol = client THEN None ELSE protocol
        BY <1>10 DEF DiscordSaysLeft
    <2>2. CASE gate = None
        BY <1>1, <1>2, <1>10, <2>1, <2>2 DEF DiscordSaysLeft, Protocols
    <2>3. CASE gate # None
        <3>1. EndsWith(gate, None) /\ gate \in Sessions
            BY <1>0, <1>10, <2>3 DEF DiscordSaysLeft, CallTypeOK
        <3> QED
            BY <1>1, <1>2, <2>1, <3>1, <1>l DEF Protocols
    <2> QED
        BY <2>2, <2>3
<1>11. ASSUME \/ \E s \in Sessions, c \in Channels : Start(s, c)
              \/ \E s \in Sessions : Connected(s) \/ ConnectTimesOut(s) \/ Begin(s) \/ Posted(s)
              \/ PeopleComeOrGo \/ SidecarTakes \/ SidecarReady \/ SidecarDrops
              \/ SidecarGivesUp \/ LinkReturns \/ Kick \/ UNCHANGED callVars
       PROVE  p \in Protocols
    BY <1>u, <1>11 DEF Start, Connected, ConnectTimesOut, Begin, Posted, PeopleComeOrGo, SidecarTakes,
       SidecarReady, SidecarDrops, SidecarGivesUp, LinkReturns, Kick, callVars, sessionVars
<1> QED
    BY <1>3, <1>4, <1>5, <1>6, <1>7, <1>8, <1>9, <1>10, <1>11 DEF CallNext

(* Who takes the gate starts a call, while there is a link and no client.   *)
LEMMA GateTaken ==
    ASSUME CallInv, [CallNext]_callVars, gate' # None, gate' # gate
    PROVE  \E s \in Sessions, c \in Channels : gate' = s /\ Start(s, c)
<1>0. CallTypeOK
    BY DEF CallInv
<1>e. ASSUME NEW s, NEW c, EndsWith(s, c) PROVE FALSE
    BY <1>e DEF EndsWith, LeaveGate
<1>1. ASSUME NEW s \in Sessions,
             \/ Connect(s) \/ Connected(s) \/ ConnectFails(s) \/ ConnectTimesOut(s)
             \/ BackedOut(s) \/ Begin(s) \/ Posted(s) \/ Disconnected(s)
      PROVE  FALSE
    BY <1>1 DEF Connect, Connected, ConnectFails, ConnectTimesOut, BackedOut, Begin, Posted,
       Disconnected, LeaveAfterFailure, LeaveGate
<1>2. ASSUME NEW s \in Sessions, LeaveWhenAlone(s) PROVE FALSE
    BY <1>2, <1>e DEF LeaveWhenAlone
<1>3. ASSUME \/ AskedToLeave \/ PeopleComeOrGo \/ SidecarTakes \/ SidecarReady \/ SidecarDrops
             \/ SidecarGivesUp \/ LinkReturns \/ Kick \/ UNCHANGED callVars
      PROVE  FALSE
    BY <1>3, <1>e DEF AskedToLeave, PeopleComeOrGo, SidecarTakes, SidecarReady, SidecarDrops,
       SidecarGivesUp, LinkReturns, Kick, callVars, sessionVars
<1>4. ASSUME CoreTakes PROVE FALSE
    <2>1. from_sidecar # << >>
        BY <1>4 DEF CoreTakes
    <2> QED
        BY <1>4, <2>1, <1>e, NextForCore DEF CoreTakes, sessionVars
<1>5. ASSUME LinkDrops \/ DiscordSaysLeft PROVE FALSE
    BY <1>5, <1>e DEF LinkDrops, DiscordSaysLeft
<1>6. PICK s \in Sessions, c \in Channels : Start(s, c)
    BY <1>1, <1>2, <1>3, <1>4, <1>5 DEF CallNext
<1> QED
    BY <1>6 DEF Start

(* The sidecar comes to where it is asked, and says whenever it leaves.      *)
LEMMA SidecarSays ==
    ASSUME CallInv, SidecarTakes \/ SidecarReady \/ SidecarDrops \/ SidecarGivesUp
    PROVE  /\ Holds(from_sidecar, "disconnected") => Holds(from_sidecar', "disconnected")
           /\ link => \/ Holds(from_sidecar', "disconnected") 
                      \/ sidecar'.channel = sidecar.channel
                      \/ sidecar.channel = None
           /\ SidecarTakes /\ link /\ Head(from_core).type = "leave"
                => Holds(from_sidecar', "disconnected")
           /\ SidecarTakes /\ Head(from_core).type = "join"
                => sidecar'.channel = Head(from_core).channel
<1>0. /\ WireTyped /\ from_sidecar \in Seq(ToTheCore) /\ None \notin Channels
      /\ sidecar \in [channel : Channels \cup {None}, status : {"none", "joining", "ready", "dropped"}]
      /\ sidecar.status = "none" <=> sidecar.channel = None
    BY CallAssumption DEF CallInv, WireTyped
<1> DEFINE m == Head(from_core)
<1>1. CASE SidecarTakes
    <2>1. m.type \in {"join", "leave"} /\ (m.type = "join" => m.channel \in Channels)
        <3>1. from_core # << >> /\ from_core \in Seq(ToTheSidecar)
            BY <1>1 DEF SidecarTakes, CallInv, WireTyped
        <3>2. m \in ToTheSidecar
            BY <3>1, HoldsRest
        <3> QED
            BY <3>2 DEF ToTheSidecar
    <2>2. Payload(m.channel) = <<[type |-> "payload", channel |-> m.channel]>>
        BY DEF Payload
    <2>3. CASE m.type = "join" /\ sidecar.channel = None
        <3>1. ToCore(Payload(m.channel)) /\ sidecar' = [channel |-> m.channel, status |-> "joining"]
            BY <1>0, <1>1, <2>1, <2>2, <2>3 DEF SidecarTakes
        <3> QED
            BY <1>0, <2>1, <2>3, <3>1, CoreIsSent, WhatTheSidecarSends
    <2>4. CASE m.type = "join" /\ sidecar.channel = m.channel
        <3>1. ToCore(IF sidecar.status = "ready" THEN <<[type |-> "ready"]>> ELSE << >>) /\ UNCHANGED sidecar
            BY <1>0, <1>1, <2>1, <2>4 DEF SidecarTakes
        <3> QED
            BY <1>0, <2>4, <3>1, CoreIsSent, WhatTheSidecarSends
    <2>5. CASE m.type = "join" /\ sidecar.channel \notin {None, m.channel}
        <3>1. /\ ToCore(Farewell \o Payload(m.channel))
              /\ sidecar' = [channel |-> m.channel, status |-> "joining"]
            BY <1>1, <2>2, <2>5 DEF SidecarTakes
        <3> QED
            BY <1>0, <2>1, <2>5, <3>1, CoreIsSent, WhatTheSidecarSends
    <2>6. CASE m.type = "leave"
        <3>1. ToCore(IF sidecar = NotThere THEN Tail(Farewell) ELSE Farewell)
            BY <1>1, <2>6 DEF SidecarTakes
        <3> QED
            BY <1>0, <2>6, <3>1, CoreIsSent, WhatTheSidecarSends
    <2> QED
        BY <2>1, <2>3, <2>4, <2>5, <2>6
<1>2. CASE ~SidecarTakes /\ SidecarReady
    <2>1. ToCore(<<[type |-> "ready"]>>) /\ sidecar'.channel = sidecar.channel
        BY <1>0, <1>2 DEF SidecarReady
    <2> QED
        BY <1>0, <1>2, <2>1, CoreIsSent, WhatTheSidecarSends
<1>3. CASE ~SidecarTakes /\ SidecarDrops
    <2>1. UNCHANGED from_sidecar /\ sidecar'.channel = sidecar.channel
        BY <1>0, <1>3 DEF SidecarDrops
    <2> QED
        BY <1>3, <2>1
<1>4. CASE ~SidecarTakes /\ SidecarGivesUp
    <2>1. ToCore(Farewell)
        BY <1>4 DEF SidecarGivesUp
    <2> QED
        BY <1>0, <1>4, <2>1, CoreIsSent, WhatTheSidecarSends
<1> QED
    BY <1>1, <1>2, <1>3, <1>4

(* The session in the gate keeps its link, its channel, and any message     *)
(* that will end it.                                                        *)
LEMMA GateKept ==
    ASSUME CallInv, [CallNext]_callVars, gate # None, gate' = gate
    PROVE  /\ link /\ link' /\ gate \notin gone' /\ stage'[gate] # "new"
           /\ channel'[gate] = channel[gate]
           /\ WillEnd => WillEnd'
<1>0. /\ CallTypeOK /\ WireTyped /\ gate \in Sessions /\ link /\ gate \notin gone
      /\ stage[gate] # "new"
    BY DEF CallInv, CallTypeOK, GateHasLink
<1> DEFINE Same == link' /\ UNCHANGED <<stage, channel, gone>>
           Announced == WillEnd => WillEnd'
<1>e. ASSUME NEW c, EndsWith(gate, c) PROVE FALSE
    BY <1>0, <1>e DEF EndsWith, LeaveGate
<1>w. UNCHANGED <<from_core, from_sidecar>> => Announced
    BY DEF WillEnd
<1>t. ASSUME NEW q \in {<< >>, Leave}, ToSidecar(q), UNCHANGED from_sidecar PROVE Announced
    BY <1>0, <1>t, SidecarIsSent, WhatCoreSends DEF WillEnd
<1>s. Leave = <<[type |-> "leave"]>> /\ \A c : Join(c) = <<[type |-> "join", channel |-> c]>>
    BY DEF Leave, Join
<1>1. ASSUME NEW s \in Sessions, NEW c \in Channels, Start(s, c) PROVE FALSE
    BY <1>0, <1>1 DEF Start
<1>2. ASSUME NEW s \in Sessions, Connect(s)
      PROVE  /\ link' /\ UNCHANGED gone /\ stage'[gate] # "new" /\ UNCHANGED channel /\ Announced
    <2>1. link' /\ UNCHANGED gone /\ stage'[gate] # "new" /\ UNCHANGED channel
        BY <1>0, <1>2 DEF Connect, CallTypeOK
    <2>2. CASE client = None /\ link
        <3>1. ToSidecar(Join(channel[s])) /\ UNCHANGED from_sidecar
            BY <1>s, <1>2, <2>2 DEF Connect
        <3>2. channel[s] \in Channels
            BY <1>0, <1>2 DEF Connect, WireTyped
        <3>3. Announced
            BY <1>0, <3>1, <3>2, SidecarIsSent, WhatCoreSends DEF WillEnd
        <3> QED
            BY <2>1, <3>3
    <2>3. CASE ~(client = None /\ link)
        BY <1>2, <1>w, <2>1, <2>3 DEF Connect
    <2> QED
        BY <2>2, <2>3
<1>3. ASSUME NEW s \in Sessions, Connected(s) \/ Begin(s) \/ Posted(s) \/ BackedOut(s)
      PROVE  /\ link' /\ UNCHANGED gone /\ stage'[gate] # "new" /\ UNCHANGED channel /\ Announced
    BY <1>0, <1>3, <1>w DEF Connected, Begin, Posted, BackedOut, wireVars, CallTypeOK
<1>4. ASSUME NEW s \in Sessions, ConnectFails(s) \/ ConnectTimesOut(s)
      PROVE  /\ link' /\ UNCHANGED gone /\ stage'[gate] # "new" /\ UNCHANGED channel /\ Announced
    <2>1. link' /\ UNCHANGED gone /\ stage'[gate] # "new" /\ UNCHANGED channel
        BY <1>0, <1>4 DEF ConnectFails, ConnectTimesOut, CallTypeOK
    <2>2. ToSidecar(Leave) /\ UNCHANGED from_sidecar
        BY <1>s, <1>4 DEF ConnectFails, ConnectTimesOut
    <2> QED
        BY <1>t, <2>1, <2>2
<1>5. ASSUME NEW s \in Sessions, LeaveWhenAlone(s) PROVE Same /\ Announced
    <2>1. Same
        BY <1>0, <1>5 DEF LeaveWhenAlone
    <2>2. UNCHANGED from_sidecar /\ (UNCHANGED from_core \/ \E q \in {<< >>, Leave} : ToSidecar(q))
        BY <1>5, <1>s DEF LeaveWhenAlone
    <2> QED
        BY <1>t, <1>w, <2>1, <2>2
<1>6. ASSUME NEW s \in Sessions, Disconnected(s) PROVE Same /\ Announced
    BY <1>0, <1>6, <1>w DEF Disconnected, wireVars
<1>7. ASSUME AskedToLeave PROVE FALSE
    BY <1>7, <1>e DEF AskedToLeave
<1>8. CASE PeopleComeOrGo \/ Kick \/ UNCHANGED callVars
    <2>1. Same /\ UNCHANGED <<from_core, from_sidecar>>
        BY <1>0, <1>8 DEF PeopleComeOrGo, Kick, callVars, sessionVars, wireVars
    <2> QED
        BY <1>0, <1>w, <2>1
<1>9. CASE SidecarTakes
    <2>1. Same /\ from_core # << >> /\ from_core' = Tail(from_core)
        BY <1>0, <1>9 DEF SidecarTakes, sessionVars
    <2>5. ASSUME Head(from_core).type = "leave" PROVE Announced
        BY <1>0, <1>9, <2>5, SidecarSays DEF WillEnd
    <2>6. ASSUME Head(from_core).type # "leave" PROVE Announced
        BY <1>9, <2>1, <2>6, NextForSidecar, SidecarSays DEF WillEnd
    <2>7. Announced
        BY <2>5, <2>6
    <2> QED
        BY <1>0, <2>1, <2>7
<1>10. CASE SidecarReady \/ SidecarDrops \/ SidecarGivesUp
    <2>1. Same /\ UNCHANGED from_core
        BY <1>0, <1>10 DEF SidecarReady, SidecarDrops, SidecarGivesUp, sessionVars
    <2>2. Announced
        BY <1>10, <2>1, SidecarSays DEF WillEnd
    <2> QED
        BY <1>0, <2>1, <2>2
<1>11. CASE CoreTakes
    <2>1. from_sidecar # << >> /\ from_sidecar' = Tail(from_sidecar)
        BY <1>11 DEF CoreTakes
    <2>2. Head(from_sidecar).type # "disconnected"
        <3>1. SUFFICES ASSUME Head(from_sidecar).type = "disconnected" PROVE FALSE
            OBVIOUS
        <3>2. EndsWith(gate, client)
            BY <1>11, <3>1 DEF CoreTakes
        <3> QED
            BY <1>e, <3>2
    <2>3. Same /\ UNCHANGED from_core
        BY <1>0, <1>11, <2>1, <2>2, NextForCore DEF CoreTakes, sessionVars
    <2>4. Announced
        BY <2>1, <2>2, <2>3, NextForCore DEF WillEnd
    <2> QED
        BY <1>0, <2>3, <2>4
<1>12. ASSUME LinkDrops \/ LinkReturns \/ DiscordSaysLeft PROVE FALSE
    BY <1>0, <1>e, <1>12 DEF LinkDrops, LinkReturns, DiscordSaysLeft
<1> QED
    BY <1>0, <1>1, <1>2, <1>3, <1>4, <1>5, <1>6, <1>7, <1>8, <1>9, <1>10, <1>11, <1>12 DEF CallNext

LEMMA GateStep ==
    ASSUME CallInv, [CallNext]_callVars
    PROVE  GateHasLink'
<1>1. SUFFICES ASSUME gate' # None
               PROVE  link' /\ gate' \notin gone' /\ stage'[gate'] # "new"
    BY DEF GateHasLink
<1>2. CASE gate' = gate
    BY <1>1, <1>2, GateKept
<1>3. CASE gate' # gate
    <2>1. PICK s \in Sessions, c \in Channels : gate' = s /\ Start(s, c)
        BY <1>1, <1>3, GateTaken
    <2>2. /\ stage[s] = "new" /\ link /\ UNCHANGED <<gone, link>>
          /\ stage' = [stage EXCEPT ![s] = "text_channel"]
        BY <2>1 DEF Start, wireVars
    <2>3. s \notin gone
        BY <2>2, CallAssumption DEF CallInv, ProtocolsBegun, Protocols, Begun
    <2>4. stage'[s] = "text_channel"
        BY <2>2 DEF CallInv, CallTypeOK
    <2> QED
        BY <2>1, <2>2, <2>3, <2>4
<1> QED
    BY <1>2, <1>3

(* A session's protocol is made by its connect().                           *)
LEMMA BeginsWithConnect ==
    ASSUME CallInv, [CallNext]_callVars, NEW p \in Sessions, ~Begun(p), Begun(p)'
    PROVE  Connect(p)
<1>0. CallTypeOK
    BY DEF CallInv
<1>u. ASSUME UNCHANGED stage PROVE FALSE
    BY <1>u DEF Begun
<1>1. ASSUME NEW s \in Sessions, NEW c \in Channels, Start(s, c) PROVE FALSE
    BY <1>0, <1>1 DEF Start, Begun, CallTypeOK
<1>2. ASSUME NEW s \in Sessions, Connect(s) PROVE Connect(p)
    BY <1>0, <1>2 DEF Connect, Begun, CallTypeOK
<1>3. ASSUME NEW s \in Sessions,
             \/ Connected(s) \/ ConnectFails(s) \/ ConnectTimesOut(s)
             \/ BackedOut(s) \/ Begin(s) \/ Posted(s)
      PROVE  FALSE
    BY <1>0, <1>3 DEF Connected, ConnectFails, ConnectTimesOut, BackedOut, Begin, Posted, Begun,
       CallTypeOK
<1>4. ASSUME \/ \E s \in Sessions : LeaveWhenAlone(s) \/ Disconnected(s)
             \/ AskedToLeave \/ PeopleComeOrGo \/ SidecarTakes \/ SidecarReady \/ SidecarDrops
             \/ SidecarGivesUp \/ LinkDrops \/ LinkReturns \/ Kick \/ DiscordSaysLeft
             \/ UNCHANGED callVars
      PROVE  FALSE
    BY <1>4, <1>u DEF LeaveWhenAlone, Disconnected, AskedToLeave, PeopleComeOrGo, SidecarTakes,
        SidecarReady, SidecarDrops, SidecarGivesUp, LinkDrops, LinkReturns, Kick,
        DiscordSaysLeft, callVars, sessionVars
<1>5. ASSUME CoreTakes PROVE FALSE
    <2>1. from_sidecar # << >>
        BY <1>5 DEF CoreTakes
    <2> QED
        BY <1>5, <2>1, <1>u, NextForCore DEF CoreTakes, sessionVars
<1> QED
    BY <1>1, <1>2, <1>3, <1>4, <1>5 DEF CallNext

LEMMA ConnectAsks ==
    ASSUME CallInv, Connect(gate), gate # None, gate' = gate
    PROVE  client' = gate /\ AsksFor(from_core', channel[gate])
<1>0. /\ CallTypeOK /\ WireTyped /\ gate \in Sessions /\ channel[gate] \in Channels /\ link
    BY DEF CallInv, CallTypeOK, GateHasLink, WireTyped
<1>1. client = None
    BY DEF Connect, LeaveAfterFailure, LeaveGate
<1>2. Join(channel[gate]) = <<[type |-> "join", channel |-> channel[gate]]>>
    BY DEF Join
<1>3. client' = gate /\ ToSidecar(Join(channel[gate]))
    BY <1>0, <1>1, <1>2 DEF Connect
<1> QED
    BY <1>0, <1>3, SidecarIsSent, WhatCoreSends

(* A session in the gate whose protocol somebody disconnects.               *)
LEMMA LeavingStep ==
    ASSUME CallInv, [CallNext]_callVars
    PROVE  LeavingIsAsked'
<1>0. CallTypeOK /\ WireTyped /\ LeavingIsAsked /\ ProtocolsBegun /\ None \notin Sessions
    BY CallAssumption DEF CallInv
<1>1. SUFFICES ASSUME gate' # None, NEW x \in Sessions, leaving'[x] = gate' PROVE WillEnd'
    BY DEF LeavingIsAsked
<1>2. CASE gate' # gate
    <2>1. PICK s \in Sessions, c \in Channels : gate' = s /\ Start(s, c)
        BY <1>1, <1>2, GateTaken
    <2>2. stage[s] = "new" /\ leaving[x] = s
        BY <1>1, <2>1 DEF Start
    <2>3. Begun(s)
        BY <1>0, <2>2 DEF ProtocolsBegun, Protocols
    <2> QED
        BY <2>2, <2>3 DEF Begun
<1>3. CASE gate' = gate
    <2>0. link /\ (WillEnd => WillEnd') /\ gate \in Sessions
        BY <1>0, <1>1, <1>3, GateKept DEF CallTypeOK
    <2>1. CASE leaving[x] = gate
        BY <1>0, <1>1, <1>3, <2>0, <2>1 DEF LeavingIsAsked
    <2>2. CASE leaving[x] # gate
        <3>e. ASSUME NEW c, EndsWith(gate, c) PROVE FALSE
            BY <1>1, <1>3, <3>e DEF EndsWith, LeaveGate
        <3>u. ASSUME UNCHANGED leaving PROVE FALSE
            BY <1>1, <1>3, <2>2, <3>u
        <3>1. ASSUME NEW s \in Sessions, Disconnected(s) PROVE FALSE
            BY <1>0, <1>1, <1>3, <2>2, <3>1 DEF Disconnected, CallTypeOK
        <3>2. ASSUME \/ \E s \in Sessions, c \in Channels : Start(s, c)
                     \/ \E s \in Sessions : \/ Connect(s) \/ Connected(s) \/ ConnectFails(s)
                                            \/ ConnectTimesOut(s) \/ BackedOut(s) \/ Begin(s) \/ Posted(s)
                     \/ PeopleComeOrGo \/ SidecarTakes \/ SidecarReady \/ SidecarDrops
                     \/ SidecarGivesUp \/ LinkReturns \/ Kick \/ UNCHANGED callVars
              PROVE  FALSE
            BY <3>2, <3>u DEF Start, Connect, Connected, ConnectFails, ConnectTimesOut, BackedOut, Begin,
               Posted, PeopleComeOrGo, SidecarTakes, SidecarReady, SidecarDrops, SidecarGivesUp,
               LinkReturns, Kick, callVars, sessionVars
        <3>3. ASSUME AskedToLeave \/ LinkDrops \/ DiscordSaysLeft PROVE FALSE
            BY <1>1, <1>3, <3>e, <3>3 DEF AskedToLeave, LinkDrops, DiscordSaysLeft
        <3>4. ASSUME CoreTakes PROVE FALSE
            <4>1. from_sidecar # << >>
                BY <3>4 DEF CoreTakes
            <4> QED
                BY <1>1, <1>3, <3>e, <3>u, <3>4, <4>1, NextForCore DEF CoreTakes, sessionVars
        <3>5. ASSUME NEW s \in Sessions, LeaveWhenAlone(s) PROVE WillEnd'
            <4>1. ~people
                BY <3>5, <3>u DEF LeaveWhenAlone, EndsWith
            <4>2. /\ leaving' = [leaving EXCEPT ![s] = client]
                  /\ ToSidecar(IF AsksSidecar(client) THEN <<[type |-> "leave"]>> ELSE << >>)
                BY <3>5, <4>1 DEF LeaveWhenAlone, EndsWith
            <4>3. client = gate
                BY <1>0, <1>1, <1>3, <2>2, <4>2 DEF CallTypeOK
            <4>4. AsksSidecar(client)
                BY <1>1, <1>3, <4>3 DEF AsksSidecar, CallInv, GateHasLink
            <4>5. ToSidecar(Leave)
                BY <4>2, <4>4 DEF Leave
            <4> QED
                BY <1>0, <2>0, <4>5, SidecarIsSent, WhatCoreSends DEF WillEnd
        <3> QED
            BY <3>1, <3>2, <3>3, <3>4, <3>5 DEF CallNext
    <2> QED
        BY <2>1, <2>2
<1> QED
    BY <1>2, <1>3

(* The sidecar and discord.py follow the session in the gate.               *)
LEMMA SidecarFollowsStep ==
    ASSUME CallInv, [CallNext]_callVars
    PROVE  SidecarFollows'
<1>0. CallTypeOK /\ WireTyped /\ SidecarFollows /\ None \notin Channels
    BY CallAssumption DEF CallInv
<1>1. SUFFICES ASSUME gate' # None, Begun(gate)'
               PROVE  WillEnd' \/ AsksFor(from_core', channel'[gate']) \/ sidecar'.channel = channel'[gate']
    BY DEF SidecarFollows
<1>2. CASE gate' # gate
    <2>1. PICK s \in Sessions, c \in Channels : gate' = s /\ Start(s, c)
        BY <1>1, <1>2, GateTaken
    <2>2. stage'[s] = "text_channel"
        BY <1>0, <2>1 DEF Start, CallTypeOK
    <2> QED
        BY <1>1, <2>1, <2>2 DEF Begun
<1>3. CASE gate' = gate
    <2>0. /\ link /\ (WillEnd => WillEnd') /\ gate \in Sessions /\ channel'[gate] = channel[gate]
          /\ channel[gate] \in Channels
        BY <1>0, <1>1, <1>3, GateKept DEF CallTypeOK, CallInv, GateHasLink, WireTyped
    <2>b. Begun(gate)'
        BY <1>1
    <2>1. CASE ~Begun(gate)
        <3>1. stage'[gate] \notin {"new", "text_channel"}
            BY <1>1, <1>3 DEF Begun
        <3>2. Connect(gate)
            BY <2>0, <2>1, <3>1, BeginsWithConnect DEF Begun
        <3> QED
            BY <1>1, <1>3, <2>0, <3>2, ConnectAsks
    <2>2. CASE Begun(gate) /\ WillEnd
        BY <2>0, <2>2
    <2>3. CASE Begun(gate) /\ ~WillEnd
        <3>0. AsksFor(from_core, channel[gate]) \/ sidecar.channel = channel[gate]
            BY <1>0, <1>1, <1>3, <2>3 DEF SidecarFollows
        <3> DEFINE Goal == \/ WillEnd' \/ AsksFor(from_core', channel[gate])
                           \/ sidecar'.channel = channel[gate]
        <3>t. ASSUME NEW q \in Seq(ToTheSidecar), ToSidecar(q), UNCHANGED sidecar PROVE Goal
            BY <1>0, <3>0, <3>t, SidecarIsSent
        <3>u. ASSUME UNCHANGED <<from_core, sidecar>> PROVE Goal
            BY <3>0, <3>u
        <3>e. ASSUME NEW c, EndsWith(gate, c) PROVE FALSE
            BY <1>1, <1>3, <3>e DEF EndsWith, LeaveGate
        <3>s. Leave = <<[type |-> "leave"]>> /\ \A c : Join(c) = <<[type |-> "join", channel |-> c]>>
            BY DEF Leave, Join
        <3>1. ASSUME NEW s \in Sessions, Connect(s) PROVE Goal
            <4>1. channel[s] \in Channels /\ UNCHANGED sidecar
                BY <1>0, <3>1 DEF Connect, WireTyped
            <4>2. ToSidecar(Join(channel[s])) \/ UNCHANGED from_core
                BY <3>1, <3>s DEF Connect
            <4> QED
                BY <3>t, <3>u, <4>1, <4>2, WhatCoreSends
        <3>2. ASSUME NEW s \in Sessions, ConnectFails(s) \/ ConnectTimesOut(s) PROVE Goal
            <4>1. ToSidecar(Leave) /\ UNCHANGED sidecar
                BY <3>2, <3>s DEF ConnectFails, ConnectTimesOut
            <4> QED
                BY <3>t, <4>1, WhatCoreSends
        <3>3. ASSUME NEW s \in Sessions, LeaveWhenAlone(s) PROVE Goal
            <4>1. UNCHANGED sidecar /\ (UNCHANGED from_core \/ \E q \in {<< >>, Leave} : ToSidecar(q))
                BY <3>3, <3>s DEF LeaveWhenAlone
            <4> QED
                BY <3>t, <3>u, <4>1, WhatCoreSends
        <3>4. ASSUME \/ \E s \in Sessions, c \in Channels : Start(s, c)
                     \/ \E s \in Sessions : \/ Connected(s) \/ BackedOut(s) \/ Begin(s) \/ Posted(s)
                                            \/ Disconnected(s)
                     \/ PeopleComeOrGo \/ LinkReturns \/ Kick \/ UNCHANGED callVars
              PROVE  Goal
            BY <3>4, <3>u DEF Start, Connected, BackedOut, Begin, Posted, Disconnected, PeopleComeOrGo,
               LinkReturns, Kick, callVars, wireVars
        <3>5. ASSUME AskedToLeave \/ LinkDrops \/ DiscordSaysLeft PROVE FALSE
            BY <1>1, <1>3, <3>e, <3>5 DEF AskedToLeave, LinkDrops, DiscordSaysLeft
        <3>6. ASSUME CoreTakes PROVE Goal
            <4>1. from_sidecar # << >> /\ UNCHANGED sidecar
                BY <3>6 DEF CoreTakes
            <4> QED
                BY <1>1, <1>3, <3>e, <3>u, <3>6, <4>1, NextForCore DEF CoreTakes, sessionVars
        <3>7. ASSUME SidecarTakes PROVE Goal
            <4>1. from_core # << >> /\ from_core' = Tail(from_core)
                BY <3>7 DEF SidecarTakes
            <4>2. CASE AsksFor(from_core, channel[gate])
                BY <3>7, <4>1, <4>2, NextForSidecar, SidecarSays
            <4>3. CASE sidecar.channel = channel[gate]
                BY <1>0, <2>0, <3>7, <4>3, SidecarSays DEF WillEnd
            <4> QED
                BY <3>0, <4>2, <4>3
        <3>8. ASSUME SidecarReady \/ SidecarDrops \/ SidecarGivesUp PROVE Goal
            <4>1. UNCHANGED from_core
                BY <3>8 DEF SidecarReady, SidecarDrops, SidecarGivesUp
            <4>2. CASE sidecar.channel = channel[gate]
                BY <1>0, <2>0, <3>8, <4>2, SidecarSays DEF WillEnd
            <4> QED
                BY <3>0, <4>1, <4>2
        <3>9. Goal
            BY <3>1, <3>2, <3>3, <3>4, <3>5, <3>6, <3>7, <3>8 DEF CallNext
        <3> QED
            BY <1>3, <2>0, <3>9
    <2> QED
        BY <2>1, <2>2, <2>3
<1> QED
    BY <1>2, <1>3

LEMMA ClientFollowsStep ==
    ASSUME CallInv, [CallNext]_callVars
    PROVE  ClientFollows'
<1>0. CallTypeOK /\ ClientFollows /\ LeavingIsAsked /\ None \notin Sessions
    BY CallAssumption DEF CallInv
<1>1. SUFFICES ASSUME gate' # None, Begun(gate)' PROVE client' = gate' \/ told' \/ WillEnd'
    BY DEF ClientFollows
<1>2. CASE gate' # gate
    <2>1. PICK s \in Sessions, c \in Channels : gate' = s /\ Start(s, c)
        BY <1>1, <1>2, GateTaken
    <2>2. stage'[s] = "text_channel"
        BY <1>0, <2>1 DEF Start, CallTypeOK
    <2> QED
        BY <1>1, <2>1, <2>2 DEF Begun
<1>3. CASE gate' = gate
    <2>0. (WillEnd => WillEnd') /\ gate \in Sessions
        BY <1>0, <1>1, <1>3, GateKept DEF CallTypeOK
    <2>1. CASE ~Begun(gate)
        <3>1. stage'[gate] \notin {"new", "text_channel"}
            BY <1>1, <1>3 DEF Begun
        <3>2. Connect(gate)
            BY <2>0, <2>1, <3>1, BeginsWithConnect DEF Begun
        <3> QED
            BY <1>1, <1>3, <2>0, <3>2, ConnectAsks
    <2>2. CASE WillEnd
        BY <2>0, <2>2
    <2>3. CASE Begun(gate) /\ ~WillEnd
        <3>0. client = gate \/ told
            BY <1>0, <1>1, <1>3, <2>3 DEF ClientFollows
        <3> DEFINE Goal == client' = gate \/ told'
        <3>u. ASSUME UNCHANGED <<client, told>> PROVE Goal
            BY <3>0, <3>u
        <3>e. ASSUME NEW c, EndsWith(gate, c) PROVE FALSE
            BY <1>1, <1>3, <3>e DEF EndsWith, LeaveGate
        <3>1. ASSUME NEW s \in Sessions, Connect(s) PROVE Goal
            <4>1. UNCHANGED told /\ (client = None \/ UNCHANGED client)
                BY <3>1 DEF Connect, worldVars
            <4> QED
                BY <2>0, <3>0, <4>1, <1>0
        <3>2. ASSUME NEW s \in Sessions, ConnectFails(s) PROVE Goal
            <4>1. gate # s
                BY <1>1, <1>3, <3>2 DEF ConnectFails, LeaveAfterFailure, LeaveGate
            <4> QED
                BY <3>0, <3>2, <4>1 DEF ConnectFails, Cleanup, worldVars
        <3>3. ASSUME NEW s \in Sessions, BackedOut(s) PROVE Goal
            <4>1. gate # s
                BY <1>1, <1>3, <3>3 DEF BackedOut, LeaveAfterFailure, LeaveGate
            <4> QED
                BY <3>0, <3>3, <4>1 DEF BackedOut, Cleanup, LeaveDiscord
        <3>4. ASSUME NEW s \in Sessions, Disconnected(s) PROVE Goal
            <4>1. leaving[s] # gate
                BY <1>0, <1>1, <1>3, <2>3 DEF LeavingIsAsked
            <4> QED
                BY <3>0, <3>4, <4>1 DEF Disconnected, Cleanup, LeaveDiscord
        <3>5. ASSUME \/ \E s \in Sessions, c \in Channels : Start(s, c)
                     \/ \E s \in Sessions : \/ Connected(s) \/ ConnectTimesOut(s) \/ Begin(s) \/ Posted(s)
                                            \/ LeaveWhenAlone(s)
                     \/ PeopleComeOrGo \/ LinkReturns \/ UNCHANGED callVars
                     \/ SidecarTakes \/ SidecarReady \/ SidecarDrops \/ SidecarGivesUp
              PROVE  Goal
            BY <3>5, <3>u DEF Start, Connected, ConnectTimesOut, Begin, Posted, LeaveWhenAlone,
               PeopleComeOrGo, LinkReturns, SidecarTakes, SidecarReady, SidecarDrops, SidecarGivesUp,
               callVars, sessionVars, worldVars
        <3>6. ASSUME Kick PROVE Goal
            BY <3>6 DEF Kick
        <3>7. ASSUME AskedToLeave \/ LinkDrops \/ DiscordSaysLeft PROVE FALSE
            BY <1>1, <1>3, <3>e, <3>7 DEF AskedToLeave, LinkDrops, DiscordSaysLeft
        <3>8. ASSUME CoreTakes PROVE Goal
            <4>1. from_sidecar # << >>
                BY <3>8 DEF CoreTakes
            <4>2. Head(from_sidecar).type # "disconnected"
                <5>1. ASSUME Head(from_sidecar).type = "disconnected" PROVE EndsWith(gate, client)
                    BY <1>1, <1>3, <3>8, <5>1 DEF CoreTakes
                <5> QED
                    BY <3>e, <5>1
            <4>3. UNCHANGED client /\ (told => told')
                BY <3>8, <4>1, <4>2, NextForCore DEF CoreTakes, sessionVars
            <4> QED
                BY <3>0, <4>3
        <3>9. Goal
            BY <3>1, <3>2, <3>3, <3>4, <3>5, <3>6, <3>7, <3>8 DEF CallNext
        <3> QED
            BY <1>3, <3>9
    <2> QED
        BY <2>1, <2>2, <2>3
<1> QED
    BY <1>2, <1>3

(* Whoever leaves the gate.                                                 *)
LEMMA EarlyEndsStep ==
    ASSUME CallInv, [CallNext]_callVars
    PROVE  EarlyEnds'
<1>0. CallTypeOK /\ EarlyEnds /\ None \notin Sessions
    BY CallAssumption DEF CallInv
<1>1. SUFFICES ASSUME NEW x \in Sessions, stage'[x] = "text_channel"
               PROVE  gate' = x \/ x \in early'
    BY DEF EarlyEnds
<1> DEFINE Goal == gate' = x \/ x \in early'
<1>u. ASSUME UNCHANGED <<gate, stage, early>> PROVE Goal
    BY <1>0, <1>1, <1>u DEF EarlyEnds
<1>e. ASSUME NEW s \in Sessions, NEW c, EndsWith(s, c), UNCHANGED stage PROVE Goal
    BY <1>0, <1>1, <1>e DEF EarlyEnds, EndsWith, LeaveGate
<1>1b. ASSUME NEW s \in Sessions, NEW c \in Channels, Start(s, c) PROVE Goal
    BY <1>0, <1>1, <1>1b DEF Start, CallTypeOK, EarlyEnds
<1>2. ASSUME NEW s \in Sessions, Connect(s) PROVE Goal
    BY <1>0, <1>1, <1>2 DEF Connect, LeaveAfterFailure, LeaveGate, CallTypeOK, EarlyEnds
<1>3. ASSUME NEW s \in Sessions, Connected(s) \/ ConnectTimesOut(s) \/ Begin(s) \/ Posted(s) PROVE Goal
    <2>1. UNCHANGED <<gate, early>> /\ (x = s \/ stage'[x] = stage[x])
        BY <1>0, <1>3 DEF Connected, ConnectTimesOut, Begin, Posted, CallTypeOK
    <2>2. stage'[s] # "text_channel"
        BY <1>0, <1>3 DEF Connected, ConnectTimesOut, Begin, Posted, CallTypeOK
    <2> QED
        BY <1>0, <1>1, <2>1, <2>2 DEF EarlyEnds
<1>4. ASSUME NEW s \in Sessions, ConnectFails(s) \/ BackedOut(s) PROVE Goal
    <2>1. UNCHANGED early /\ LeaveAfterFailure(s) /\ stage' = [stage EXCEPT ![s] = "failed"]
        BY <1>4 DEF ConnectFails, BackedOut
    <2> QED
        BY <1>0, <1>1, <2>1 DEF LeaveAfterFailure, LeaveGate, CallTypeOK, EarlyEnds
<1>5. ASSUME NEW s \in Sessions, LeaveWhenAlone(s) PROVE Goal
    BY <1>5, <1>e, <1>u DEF LeaveWhenAlone
<1>6. ASSUME NEW s \in Sessions, Disconnected(s) PROVE Goal
    BY <1>6, <1>u DEF Disconnected
<1>7. CASE AskedToLeave
    BY <1>0, <1>7, <1>e DEF AskedToLeave, CallTypeOK
<1>8. ASSUME \/ PeopleComeOrGo \/ LinkReturns \/ Kick \/ UNCHANGED callVars
             \/ SidecarTakes \/ SidecarReady \/ SidecarDrops \/ SidecarGivesUp
      PROVE  Goal
    BY <1>8, <1>u DEF PeopleComeOrGo, LinkReturns, Kick, SidecarTakes, SidecarReady, SidecarDrops,
       SidecarGivesUp, callVars, sessionVars
<1>9. CASE CoreTakes
    <2>1. from_sidecar # << >>
        BY <1>9 DEF CoreTakes
    <2>2. UNCHANGED <<gate, early>> \/ (gate # None /\ EndsWith(gate, client))
        BY <1>9, <2>1, NextForCore DEF CoreTakes, sessionVars
    <2>3. UNCHANGED stage
        BY <1>9, <2>1, NextForCore DEF CoreTakes, sessionVars
    <2> QED
        BY <1>0, <1>e, <1>u, <2>2, <2>3 DEF CallTypeOK
<1>10. CASE LinkDrops
    BY <1>0, <1>10, <1>e, <1>u DEF LinkDrops, CallTypeOK
<1>11. CASE DiscordSaysLeft
    BY <1>0, <1>11, <1>e, <1>u DEF DiscordSaysLeft, CallTypeOK
<1> QED
    BY <1>1b, <1>2, <1>3, <1>4, <1>5, <1>6, <1>7, <1>8, <1>9, <1>10, <1>11 DEF CallNext

LEMMA ClientEndsStep ==
    ASSUME CallInv, [CallNext]_callVars
    PROVE  ClientEnds'
<1>0. /\ CallTypeOK /\ ClientEnds /\ EarlyEnds /\ ProtocolsBegun /\ None \notin Sessions
      /\ client \in Sessions \cup {None} /\ leaving \in [Sessions -> Sessions \cup {None}]
    BY CallAssumption DEF CallInv, CallTypeOK
<1>1. SUFFICES ASSUME client' # None
               PROVE  gate' = client' \/ client' \in early' \/ leaving'[client'] = client'
    BY DEF ClientEnds
<1> DEFINE Goal == gate' = client' \/ client' \in early' \/ leaving'[client'] = client'
<1>u. ASSUME UNCHANGED <<gate, client, leaving, early>> PROVE Goal
    BY <1>0, <1>1, <1>u DEF ClientEnds
<1>e. ASSUME NEW s \in Sessions, EndsWith(s, client), UNCHANGED client PROVE Goal
    <2>1. client \in Sessions /\ client' = client
        BY <1>0, <1>1, <1>e
    <2>2. /\ leaving' = [leaving EXCEPT ![s] = client] /\ early \subseteq early'
          /\ gate' = IF gate = s THEN None ELSE gate
        BY <1>e DEF EndsWith, LeaveGate
    <2>3. CASE client = s
        BY <1>0, <2>1, <2>2, <2>3
    <2>4. CASE client # s
        BY <1>0, <2>1, <2>2, <2>4 DEF ClientEnds
    <2> QED
        BY <2>3, <2>4
<1>2. ASSUME NEW s \in Sessions, NEW c \in Channels, Start(s, c) PROVE FALSE
    BY <1>1, <1>2 DEF Start
<1>3. ASSUME NEW s \in Sessions, Connect(s) PROVE Goal
    <2>1. stage[s] = "text_channel" /\ UNCHANGED <<leaving, early>>
        BY <1>3 DEF Connect
    <2>2. CASE client = None /\ link
        BY <1>0, <1>3, <2>1, <2>2 DEF Connect, EarlyEnds
    <2>3. CASE ~(client = None /\ link)
        <3>1. UNCHANGED client /\ LeaveAfterFailure(s)
            BY <1>3, <2>3 DEF Connect
        <3>2. client # s
            BY <1>0, <2>1 DEF ProtocolsBegun, Protocols, Begun
        <3> QED
            BY <1>0, <1>1, <2>1, <3>1, <3>2 DEF LeaveAfterFailure, LeaveGate, ClientEnds
    <2> QED
        BY <2>2, <2>3
<1>4. ASSUME NEW s \in Sessions, ConnectFails(s) \/ BackedOut(s) PROVE Goal
    <2>1. UNCHANGED <<leaving, early>> /\ LeaveAfterFailure(s) /\ Cleanup(s)
        BY <1>4 DEF ConnectFails, BackedOut
    <2> QED
        BY <1>0, <1>1, <2>1 DEF LeaveAfterFailure, LeaveGate, Cleanup, ClientEnds
<1>5. ASSUME NEW s \in Sessions, Disconnected(s) PROVE Goal
    <2>1. /\ UNCHANGED <<gate, early>> /\ Cleanup(leaving[s])
          /\ leaving' = [leaving EXCEPT ![s] = None]
        BY <1>5 DEF Disconnected
    <2>2. client' = client /\ client # leaving[s]
        BY <1>1, <2>1 DEF Cleanup
    <2>3. leaving[client] = client => leaving'[client] = client
        BY <1>0, <1>1, <2>1, <2>2
    <2> QED
        BY <1>0, <1>1, <2>1, <2>2, <2>3 DEF ClientEnds
<1>6. ASSUME NEW s \in Sessions, LeaveWhenAlone(s) PROVE Goal
    BY <1>6, <1>e, <1>u DEF LeaveWhenAlone
<1>7. CASE AskedToLeave
    BY <1>0, <1>7, <1>e DEF AskedToLeave, CallTypeOK
<1>8. ASSUME \/ \E s \in Sessions : Connected(s) \/ ConnectTimesOut(s) \/ Begin(s) \/ Posted(s)
             \/ PeopleComeOrGo \/ LinkReturns \/ Kick \/ UNCHANGED callVars
             \/ SidecarTakes \/ SidecarReady \/ SidecarDrops \/ SidecarGivesUp
      PROVE  Goal
    BY <1>8, <1>u DEF Connected, ConnectTimesOut, Begin, Posted, PeopleComeOrGo, LinkReturns, Kick,
       SidecarTakes, SidecarReady, SidecarDrops, SidecarGivesUp, callVars, sessionVars
<1>9. CASE CoreTakes
    <2>1. from_sidecar # << >>
        BY <1>9 DEF CoreTakes
    <2>2. UNCHANGED <<gate, early, leaving>> \/ (gate # None /\ EndsWith(gate, client))
        BY <1>9, <2>1, NextForCore DEF CoreTakes, sessionVars
    <2>3. UNCHANGED client
        BY <1>9, <2>1, NextForCore DEF CoreTakes, sessionVars
    <2> QED
        BY <1>0, <1>e, <1>u, <2>2, <2>3 DEF CallTypeOK
<1>10. CASE LinkDrops
    BY <1>0, <1>10, <1>e, <1>u DEF LinkDrops, CallTypeOK
<1>11. ASSUME DiscordSaysLeft PROVE FALSE
    BY <1>1, <1>11 DEF DiscordSaysLeft
<1> QED
    BY <1>2, <1>3, <1>4, <1>5, <1>6, <1>7, <1>8, <1>9, <1>10, <1>11 DEF CallNext

LEMMA CallInvHolds == CallSpec => []CallInv
<1>1. ASSUME CallInit PROVE CallInv
    <2>1. CallTypeOK
        <3>1. /\ sidecar.channel = None /\ sidecar.status = "none" /\ link = TRUE /\ told = FALSE
              /\ people = TRUE /\ troubles \in 0 .. MaxTroubles
            BY <1>1, CallAssumption DEF CallInit, NotThere
        <3>2. /\ {ended, worker, idle, ready, gone, early} \subseteq SUBSET Sessions
              /\ {link, told, people} \subseteq BOOLEAN
            BY <1>1, <3>1 DEF CallInit
        <3> QED
            BY <1>1, <3>1, <3>2 DEF CallInit, CallTypeOK
    <2>2. WireTyped
        BY <1>1, CallAssumption DEF CallInit, WireTyped, NotThere
    <2>3. ProtocolsBegun /\ GateHasLink /\ SidecarFollows /\ ClientFollows
        BY <1>1, CallAssumption DEF CallInit, ProtocolsBegun, Protocols, GateHasLink, SidecarFollows, ClientFollows
    <2>4. LeavingIsAsked /\ EarlyEnds /\ ClientEnds
        BY <1>1, CallAssumption DEF CallInit, LeavingIsAsked, EarlyEnds, ClientEnds
    <2> QED
        BY <2>1, <2>2, <2>3, <2>4 DEF CallInv
<1>2. ASSUME CallInv, [CallNext]_callVars PROVE CallInv'
    BY <1>2, CallTypeStep, WireStep, ProtocolsStep, GateStep, SidecarFollowsStep, ClientFollowsStep,
       LeavingStep, EarlyEndsStep, ClientEndsStep
    DEF CallInv
<1> QED
    BY <1>1, <1>2, PTL DEF CallSpec

(* Sessions, protocols and connections of a call are what they are declared *)
(* to be.                                                                   *)
THEOREM CallTypeCorrect == CallSpec => []CallTypeOK
<1>1. ASSUME CallInv PROVE CallTypeOK
    BY <1>1 DEF CallInv
<1> QED
    BY <1>1, CallInvHolds, PTL

(* When nothing is on its way nothing will end the call.                    *)
LEMMA QuietWire ==
    ASSUME CallInv, Quiet
    PROVE  ~WillEnd /\ ~told /\ (\A c : ~AsksFor(from_core, c))
BY DEF Quiet, WillEnd, Holds, AsksFor

(* A guild that is silent in text is in a call that exists: when nothing is *)
(* under way, the session in the gate is the one discord.py and the sidecar *)
(* are connected for, in the channel where Discord shows the bot.           *)
THEOREM SilentMeansCall == CallSpec => []GateMeansCall
<1>1. ASSUME CallInv PROVE GateMeansCall
    <2>1. SUFFICES ASSUME Quiet, gate # None
                   PROVE  client = gate /\ sidecar.status = "ready" /\ in_channel = channel[gate]
        BY DEF GateMeansCall
    <2>2. /\ CallTypeOK /\ WireTyped /\ GateHasLink /\ SidecarFollows /\ ClientFollows
          /\ None \notin Channels /\ gate \in Sessions
        BY <1>1, <2>1, CallAssumption DEF CallInv, CallTypeOK
    <2>3. Begun(gate)
        BY <2>1, <2>2 DEF Quiet, Begun, GateHasLink
    <2>4. client = gate /\ sidecar.channel = channel[gate]
        BY <1>1, <2>1, <2>2, <2>3, QuietWire DEF ClientFollows, SidecarFollows
    <2>5. channel[gate] \in Channels
        BY <2>1, <2>2, <2>3 DEF WireTyped, Begun
    <2> QED
        BY <2>1, <2>2, <2>4, <2>5 DEF Quiet, WireTyped
<1> QED
    BY <1>1, CallInvHolds, PTL

(* The other way round, and whatever goes wrong: a voice client that stays  *)
(* belongs to the session in the gate, or to one that was ended before it   *)
(* had a voice client to disconnect.                                        *)
THEOREM CallMeansSilence == CallSpec => []CallMeansGate
<1>1. ASSUME CallInv PROVE CallMeansGate
    BY <1>1 DEF CallInv, CallTypeOK, ClientEnds, CallMeansGate, Quiet
<1> QED
    BY <1>1, CallInvHolds, PTL
================================================================================
