------------------------- MODULE MessagePipeline_Proofs -------------------------
(***************************************************************************)
(* What MessagePipeline keeps for any number of messages and workers, any  *)
(* queue, cooldown and sizes of replies, and whatever fails: the locks are *)
(* held by those who send under them, what is sent under one stays         *)
(* together, double replies keep their distance, a version is announced    *)
(* once, and a prompt names the slow tools that run.                       *)
(***************************************************************************)
EXTENDS MessagePipeline, TLAPS, FiniteSetTheorems

Kinds    == {"reply", "pair", "copy", "notes"}
APost    == [by : Messages, kind : Kinds, guard : Places, sure : BOOLEAN]
Keys     == Messages \X Nat
Phases   == {"build", "building", "llm", "tool", "send", "sending", "copy", "copying", "after",
             "announce", "announcing", "give_back"}
Outcomes == {"replied", "llm_error"}
AHandle  == [pc : Phases, m : Messages, turns : Nat, tools : Nat, double : BOOLEAN,
             hint : SUBSET Keys, thread : BOOLEAN, chunks : Nat, pair : BOOLEAN,
             outcome : Outcomes, kept : {"old", "new"}]

(* TypeOK with the shape of the handles and of what is posted. *)
Typed ==
    /\ fate \in [Messages -> Fates]
    /\ queue \in Seq(Messages) /\ Len(queue) <= QUEUE_MAX_SIZE
    /\ lock \in [Places -> Workers \cup {NoOne}]
    /\ work \in [Workers -> AHandle \cup {Idle}]
    /\ made \in BOOLEAN /\ in_call \in BOOLEAN
    /\ run_active \in Workers \cup {NoOne}
    /\ in_flight \in [Places -> SUBSET Keys]
    /\ remaining \in [Places -> 0 .. Cooldown]
    /\ seen \in {"old", "new"}
    /\ posted \in [Places -> Seq(APost)]

--------------------------------------------------------------------------------
(* Types. *)

LEMMA HandleFields ==
    ASSUME NEW h \in AHandle \cup {Idle}
    PROVE  /\ h.pc # "idle" => h \in AHandle /\ h.m \in Messages
           /\ h.pc = "idle" => h = Idle /\ h.m = NoOne
           /\ h.pc \in Phases \cup {"idle"} /\ h.m \in Messages \cup {NoOne}
           /\ h \in AHandle => h.pc \in Phases /\ h.m \in Messages
    BY DEF AHandle, Idle, Phases

LEMMA ConstantsFit ==
    ASSUME PipelineAssumption
    PROVE  /\ QUEUE_MAX_SIZE \in Nat /\ QUEUE_MAX_SIZE >= 1 /\ LLM_MAX_TURNS \in Nat
           /\ Cooldown \in Nat /\ ReplySizes \subseteq Nat
           /\ Channel \in Places /\ Thread \in Places /\ Channel # Thread
           /\ NoOne \notin Workers /\ NoOne \notin Messages /\ NoOne \notin Places
           /\ \A m \in Messages : ChannelOf[m] \in Places
    BY DEF PipelineAssumption, Places

LEMMA TypedInitially == ASSUME Init, PipelineAssumption PROVE Typed
<1>1. work \in [Workers -> AHandle \cup {Idle}]
    BY DEF Init
<1>2. lock \in [Places -> Workers \cup {NoOne}] /\ in_flight \in [Places -> SUBSET Keys]
    BY DEF Init
<1>3. remaining \in [Places -> 0 .. Cooldown] /\ posted \in [Places -> Seq(APost)]
    BY ConstantsFit DEF Init
<1>4. queue \in Seq(Messages) /\ Len(queue) <= QUEUE_MAX_SIZE
    BY ConstantsFit DEF Init
<1>5. fate \in [Messages -> Fates]
    BY DEF Init, Fates
<1> QED
    BY <1>1, <1>2, <1>3, <1>4, <1>5 DEF Init, Typed

LEMMA HandleSet ==
    ASSUME Typed, NEW w \in Workers, NEW h \in AHandle \cup {Idle},
           work' = [work EXCEPT ![w] = h]
    PROVE  work' \in [Workers -> AHandle \cup {Idle}]
    BY DEF Typed

LEMMA PostTyped ==
    ASSUME Typed, NEW w \in Workers, work[w] \in AHandle, NEW c \in Places, NEW g \in Places,
           NEW k \in Kinds, NEW sure \in BOOLEAN, Post(c, w, k, g, sure)
    PROVE  posted' \in [Places -> Seq(APost)]
<1>1. [by |-> work[w].m, kind |-> k, guard |-> g, sure |-> sure] \in APost
    BY DEF APost, AHandle
<1>2. Append(posted[c], [by |-> work[w].m, kind |-> k, guard |-> g, sure |-> sure]) \in Seq(APost)
    BY <1>1 DEF Typed
<1> QED
    BY <1>2 DEF Typed, Post

LEMMA FailedTyped ==
    ASSUME Typed, NEW w \in Workers, work[w] \in AHandle, NEW c \in Places, NEW g \in Places,
           NEW k \in Kinds, SendFails(c, w, k, g)
    PROVE  posted' \in [Places -> Seq(APost)]
<1>1. CASE Post(c, w, k, g, FALSE)
    BY <1>1, PostTyped
<1>2. CASE UNCHANGED posted
    BY <1>2 DEF Typed
<1> QED
    BY <1>1, <1>2 DEF SendFails

LEMMA TypedStep == ASSUME Typed, [Next]_vars, PipelineAssumption PROVE Typed'
<1> USE PipelineAssumption DEF PipelineAssumption
<1>1. ASSUME NEW m \in Messages, Receive(m) \/ Ignore(m) \/ Enqueue(m) PROVE Typed'
  <2>1. fate' \in [Messages -> Fates]
      BY <1>1 DEF Typed, Receive, Ignore, Enqueue, Fates, Unsettled
  <2>2. queue' \in Seq(Messages) /\ Len(queue') <= QUEUE_MAX_SIZE
    <3>1. CASE queue' = queue
        BY <3>1 DEF Typed
    <3>2. CASE queue' = Append(queue, m) /\ ~(Len(queue) >= QUEUE_MAX_SIZE)
      <4>1. QUEUE_MAX_SIZE \in Nat /\ queue \in Seq(Messages)
          BY ConstantsFit DEF Typed
      <4>2. queue' \in Seq(Messages) /\ Len(queue') = Len(queue) + 1 /\ Len(queue) \in Nat
          BY <3>2, <4>1
      <4> QED
          BY <3>2, <4>1, <4>2
    <3> QED
        BY <1>1, <3>1, <3>2 DEF Receive, Ignore, Enqueue
  <2> QED
      BY <1>1, <2>1, <2>2 DEF Typed, Receive, Ignore, Enqueue
<1>2. ASSUME NEW w \in Workers, Take(w) PROVE Typed'
  <2>1. Head(queue) \in Messages /\ Tail(queue) \in Seq(Messages) /\ Len(Tail(queue)) <= QUEUE_MAX_SIZE
      BY <1>2 DEF Typed, Take
  <2>2. work' \in [Workers -> AHandle \cup {Idle}]
      BY <1>2, <2>1, HandleSet DEF Typed, Take, AHandle, Phases, Outcomes
  <2>3. fate' \in [Messages -> Fates]
      BY <1>2, <2>1 DEF Typed, Take, Fates, Unsettled
  <2> QED
      BY <1>2, <2>1, <2>2, <2>3 DEF Typed, Take
<1>3. ASSUME NEW w \in Workers, work[w] \in AHandle,
             Handle(w) \/ CallTool(w), ~Take(w)
      PROVE  Typed'
  <2> DEFINE h == work[w]
  <2>h. /\ h \in AHandle /\ h.m \in Messages /\ ChannelOf[h.m] \in Places
        /\ h.chunks \in Nat /\ h.outcome \in Outcomes /\ h.kept \in {"old", "new"}
        /\ h.turns \in Nat /\ h.tools \in Nat /\ h.thread \in BOOLEAN /\ h.pair \in BOOLEAN
        /\ Home(w) \in Places /\ Target(w) \in Places /\ Channel \in Places
      BY <1>3 DEF AHandle, Places, Home, Target
  <2>i. Idle \in AHandle \cup {Idle}
      OBVIOUS
  <2>o. ASSUME NEW o \in Fates, Over(w, o)
        PROVE  fate' \in [Messages -> Fates] /\ work' \in [Workers -> AHandle \cup {Idle}]
      BY <2>h, <2>o DEF Over, Typed
  <2>l. ASSUME NEW c \in Places, TakeLock(w, c) \/ Release(c)
        PROVE  lock' \in [Places -> Workers \cup {NoOne}]
      BY <2>l DEF TakeLock, Release, Typed
  <2>b. ASSUME BeginBuild(w) PROVE Typed'
    <3>1. [h EXCEPT !.pc = "building"] \in AHandle
        BY <2>h DEF AHandle, Phases
    <3>2. work' \in [Workers -> AHandle \cup {Idle}]
        BY <2>b, <3>1 DEF BeginBuild, Typed
    <3> QED
        BY <2>b, <2>h, <2>l, <3>2 DEF BeginBuild, Typed
  <2>r. ASSUME BuildRaises(w) PROVE Typed'
      BY <2>r, <2>h, <2>o, <2>l DEF BuildRaises, Typed, Fates
  <2>x. ASSUME NoCross(w) \/ ClaimFails(w) PROVE Typed'
    <3>1. work' \in [Workers -> AHandle \cup {Idle}] /\ fate' \in [Messages -> Fates]
        BY <2>x, <2>o DEF NoCross, ClaimFails, Fates
    <3> QED
        BY <2>x, <3>1 DEF NoCross, ClaimFails, Typed
  <2>a. ASSUME BeginAnnounce(w) PROVE Typed'
    <3>1. [h EXCEPT !.pc = "announcing"] \in AHandle
        BY <2>h DEF AHandle, Phases
    <3>2. work' \in [Workers -> AHandle \cup {Idle}]
        BY <2>a, <3>1 DEF BeginAnnounce, Typed
    <3> QED
        BY <2>a, <2>h, <2>l, <3>2 DEF BeginAnnounce, Typed
  <2>1. ASSUME EndBuild(w) PROVE Typed'
    <3>1. ASSUME NEW hint \in SUBSET in_flight[Home(w)], NEW lucky \in BOOLEAN,
                 work' = [work EXCEPT ![w].pc = "llm", ![w].hint = hint,
                                      ![w].double = lucky /\ available(Home(w))]
          PROVE  work' \in [Workers -> AHandle \cup {Idle}]
      <4>1. [h EXCEPT !.pc = "llm", !.hint = hint, !.double = lucky /\ available(Home(w))] \in AHandle
          BY <2>h DEF AHandle, Phases, Typed, available
      <4> QED
          BY <3>1, <4>1 DEF Typed
    <3> QED
        BY <2>1, <2>h, <2>o, <2>l, <3>1 DEF EndBuild, Typed, Fates
  <2>2. ASSUME CallTool(w) PROVE Typed'
    <3>1. ASSUME NEW sandbox \in BOOLEAN,
                 work' = [work EXCEPT ![w].pc = "tool", ![w].turns = @ + 1, ![w].hint = {},
                                     ![w].thread = @ \/ sandbox]
          PROVE  work' \in [Workers -> AHandle \cup {Idle}]
      <4>1. [h EXCEPT !.pc = "tool", !.turns = @ + 1, !.hint = {}, !.thread = @ \/ sandbox] \in AHandle
        <5>1. (h.thread \/ sandbox) \in BOOLEAN /\ h.turns + 1 \in Nat
            BY <2>h
        <5> QED
            BY <2>h, <5>1 DEF AHandle, Phases
      <4> QED
          BY <3>1, <4>1 DEF Typed
    <3>2. RunKey(w) \in Keys
        BY <2>h DEF RunKey, Keys
    <3>3. in_flight' \in [Places -> SUBSET Keys]
        BY <2>2, <3>2, <2>h DEF CallTool, register_task_run, Typed
    <3>4. work' \in [Workers -> AHandle \cup {Idle}]
        BY <2>2, <3>1 DEF CallTool
    <3>5. made' \in BOOLEAN /\ run_active' \in Workers \cup {NoOne}
        BY <2>2 DEF CallTool, Typed
    <3> QED
        BY <2>2, <3>3, <3>4, <3>5 DEF CallTool, Typed
  <2>3. ASSUME ToolEnds(w) PROVE Typed'
    <3>1. [h EXCEPT !.pc = "llm", !.tools = @ + 1] \in AHandle
      <4>1. h.tools + 1 \in Nat
          BY <2>h
      <4> QED
          BY <2>h, <4>1 DEF AHandle, Phases
    <3>2. work' \in [Workers -> AHandle \cup {Idle}]
        BY <2>3, <3>1 DEF ToolEnds, Typed
    <3>3. in_flight' \in [Places -> SUBSET Keys]
      <4>1. in_flight' = [in_flight EXCEPT ![Home(w)] = @ \ {RunKey(w)}]
          BY <2>3 DEF ToolEnds, unregister_task_run
      <4> QED
          BY <4>1, <2>h DEF Typed
    <3> QED
        BY <2>3, <3>2, <3>3 DEF ToolEnds, Typed
  <2>4. ASSUME generate(w) \/ WrapUp(w) PROVE Typed'
    <3>1. ASSUME NEW n \in ReplySizes, NEW pair \in BOOLEAN
          PROVE  [h EXCEPT !.pc = "send", !.turns = 0, !.tools = 0, !.hint = {},
                           !.chunks = n, !.pair = pair] \in AHandle
        BY <2>h DEF AHandle, Phases
    <3>2. ASSUME NEW n \in Reasoning
          PROVE  [h EXCEPT !.outcome = "llm_error", !.chunks = n, !.hint = {},
                           !.pc = IF n > 0 THEN "send" ELSE AfterReply(w)] \in AHandle
      <4>1. n \in Nat /\ (IF n > 0 THEN "send" ELSE AfterReply(w)) \in {"send", "copy", "after"}
          BY DEF Reasoning, AfterReply
      <4> QED
          BY <2>h, <4>1 DEF AHandle, Phases, Outcomes
    <3>3. work' \in [Workers -> AHandle \cup {Idle}]
      <4>1. CASE Answers(w)
        <5>1. PICK n \in ReplySizes, pair \in BOOLEAN :
                 work' = [work EXCEPT ![w].pc = "send", ![w].turns = 0, ![w].tools = 0,
                                      ![w].hint = {}, ![w].chunks = n, ![w].pair = pair]
            BY <4>1 DEF Answers
        <5> DEFINE g == [h EXCEPT !.pc = "send", !.turns = 0, !.tools = 0, !.hint = {},
                                  !.chunks = n, !.pair = pair]
        <5>2. work' = [work EXCEPT ![w] = g]
            BY <5>1
        <5>3. g \in AHandle
            BY <3>1
        <5> HIDE DEF g
        <5> QED
            BY <5>2, <5>3, HandleSet
      <4>2. CASE Errs(w)
        <5>1. PICK n \in Reasoning :
                 work' = [work EXCEPT ![w].outcome = "llm_error", ![w].chunks = n, ![w].hint = {},
                                      ![w].pc = IF n > 0 THEN "send" ELSE AfterReply(w)]
            BY <4>2 DEF Errs
        <5> DEFINE g == [h EXCEPT !.outcome = "llm_error", !.chunks = n, !.hint = {},
                                  !.pc = IF n > 0 THEN "send" ELSE AfterReply(w)]
        <5>2. work' = [work EXCEPT ![w] = g]
            BY <5>1
        <5>3. g \in AHandle
            BY <3>2
        <5> HIDE DEF g
        <5> QED
            BY <5>2, <5>3, HandleSet
      <4> QED
          BY <2>4, <4>1, <4>2 DEF generate, WrapUp
    <3> QED
        BY <2>4, <3>3 DEF generate, WrapUp, OwnHandleOnly, Typed
  <2>5. ASSUME BeginSend(w) PROVE Typed'
    <3>1. [h EXCEPT !.pc = "sending", !.pair = reply_parts(w, MayPair(w)) = 2, !.double = FALSE]
              \in AHandle
        BY <2>h DEF AHandle, Phases
    <3>2. work' \in [Workers -> AHandle \cup {Idle}]
        BY <2>5, <3>1 DEF BeginSend, Typed
    <3> QED
        BY <2>5, <3>2, <2>h, <2>l DEF BeginSend, Typed
  <2>6. ASSUME SendChunk(w) PROVE Typed'
    <3>1. [h EXCEPT !.chunks = @ - 1] \in AHandle
        BY <2>6, <2>h DEF AHandle, SendChunk
    <3>2. work' \in [Workers -> AHandle \cup {Idle}]
        BY <2>6, <3>1 DEF SendChunk, Typed
    <3>3. posted' \in [Places -> Seq(APost)]
        BY <2>6, <2>h, PostTyped DEF SendChunk, Kinds, ReplyKind
    <3>4. remaining' \in [Places -> 0 .. Cooldown]
      <4>1. Cooldown \in 0 .. Cooldown
          BY ConstantsFit
      <4> QED
          BY <2>6, <2>h, <4>1 DEF SendChunk, Typed
    <3> QED
        BY <2>6, <3>2, <3>3, <3>4 DEF SendChunk, Typed
  <2>7. ASSUME SendRaises(w) PROVE Typed'
    <3>1. posted' \in [Places -> Seq(APost)]
        BY <2>7, <2>h, FailedTyped DEF SendRaises, Kinds, ReplyKind
    <3> QED
        BY <2>7, <2>h, <2>o, <2>l, <3>1 DEF SendRaises, Typed, Fates
  <2>8. ASSUME EndSend(w) PROVE Typed'
    <3>1. [h EXCEPT !.pc = AfterReply(w)] \in AHandle
        BY <2>h DEF AHandle, Phases, AfterReply
    <3>2. work' \in [Workers -> AHandle \cup {Idle}]
        BY <2>8, <3>1 DEF EndSend, Typed
    <3>4. remaining' \in [Places -> 0 .. Cooldown]
      <4>1. \A r \in 0 .. Cooldown : (IF r > 0 THEN r - 1 ELSE 0) \in 0 .. Cooldown
          BY ConstantsFit
      <4> QED
          BY <2>8, <2>h, <4>1 DEF EndSend, Typed
    <3> QED
        BY <2>8, <2>h, <2>l, <3>2, <3>4 DEF EndSend, Typed
  <2>9. ASSUME BeginCopy(w) PROVE Typed'
    <3>1. ASSUME NEW n \in Nat
          PROVE  /\ [h EXCEPT !.pc = "after"] \in AHandle
                 /\ [h EXCEPT !.pc = "copying", !.chunks = n] \in AHandle
        BY <2>h DEF AHandle, Phases
    <3>2. work' \in [Workers -> AHandle \cup {Idle}]
      <4>1. PICK n \in ReplySizes :
               IF n = 0
               THEN work' = [work EXCEPT ![w].pc = "after"]
               ELSE work' = [work EXCEPT ![w].pc = "copying", ![w].chunks = n]
          BY <2>9 DEF BeginCopy
      <4>2. n \in Nat
          BY ConstantsFit
      <4> QED
          BY <4>1, <4>2, <3>1 DEF Typed
    <3> QED
      <4>1. lock' \in [Places -> Workers \cup {NoOne}]
          BY <2>9, <2>h, <2>l DEF BeginCopy, Typed
      <4> QED
          BY <2>9, <3>2, <4>1 DEF BeginCopy, Typed
  <2>10. ASSUME CopyChunk(w) PROVE Typed'
    <3>1. [h EXCEPT !.chunks = @ - 1] \in AHandle
        BY <2>10, <2>h DEF AHandle, CopyChunk
    <3>2. work' \in [Workers -> AHandle \cup {Idle}]
        BY <2>10, <3>1 DEF CopyChunk, Typed
    <3>3. posted' \in [Places -> Seq(APost)]
        BY <2>10, <2>h, PostTyped DEF CopyChunk, Kinds, Typed
    <3> QED
        BY <2>10, <3>2, <3>3 DEF CopyChunk, Typed
  <2>11. ASSUME EndCopy(w) PROVE Typed'
    <3>1. [h EXCEPT !.pc = "after"] \in AHandle
        BY <2>h DEF AHandle, Phases
    <3>2. work' \in [Workers -> AHandle \cup {Idle}]
        BY <2>11, <3>1 DEF EndCopy, Typed
    <3> QED
        BY <2>11, <2>h, <2>l, <3>2 DEF EndCopy, Typed
  <2>12. ASSUME Claim(w) PROVE Typed'
    <3>1. [h EXCEPT !.pc = "announce", !.kept = seen] \in AHandle
        BY <2>h DEF AHandle, Phases, Typed
    <3>2. work' \in [Workers -> AHandle \cup {Idle}] /\ fate' \in [Messages -> Fates]
        BY <2>12, <3>1, <2>o DEF Claim, Typed, Fates
    <3> QED
        BY <2>12, <3>2 DEF Claim, Typed
  <2>13. ASSUME NothingToAnnounce(w) \/ GiveBack(w) PROVE Typed'
    <3>1. work' \in [Workers -> AHandle \cup {Idle}] /\ fate' \in [Messages -> Fates]
        BY <2>13, <2>h, <2>o DEF NothingToAnnounce, GiveBack, Outcomes, Fates
    <3> QED
        BY <2>13, <2>h, <3>1 DEF NothingToAnnounce, GiveBack, Typed
  <2>14. ASSUME Announce(w) PROVE Typed'
    <3>1. [h EXCEPT !.pc = "give_back"] \in AHandle
        BY <2>h DEF AHandle, Phases
    <3>2. work' \in [Workers -> AHandle \cup {Idle}] /\ fate' \in [Messages -> Fates]
        BY <2>14, <3>1, <2>o DEF Announce, Typed, Fates
    <3>3. posted' \in [Places -> Seq(APost)]
        BY <2>14, <2>h, PostTyped, FailedTyped DEF Announce, Kinds
    <3> QED
        BY <2>14, <2>h, <2>l, <3>2, <3>3 DEF Announce, Typed
  <2> QED
      BY <1>3, <2>b, <2>r, <2>x, <2>a, <2>1, <2>2, <2>3, <2>4, <2>5, <2>6, <2>7, <2>8, <2>9, <2>10, <2>11, <2>12, <2>13,
         <2>14 DEF Handle
<1>4. ASSUME NEW w \in Workers, Handle(w) \/ CallTool(w), ~Take(w) PROVE work[w] \in AHandle
  <2>1. work[w].pc # "idle"
      BY <1>4 DEF Handle, BeginBuild, EndBuild, BuildRaises, NoCross, ClaimFails,
              BeginAnnounce, SendFails, ToolEnds, generate, WrapUp, BeginSend, SendChunk, SendRaises,
              EndSend, BeginCopy, CopyChunk, EndCopy, Claim, NothingToAnnounce, Announce, GiveBack,
              CallTool, At
  <2> QED
      BY <2>1, HandleFields DEF Typed
<1>5. ASSUME CallBegins \/ CallEnds PROVE Typed'
    BY <1>5 DEF CallBegins, CallEnds, Typed
<1>6. ASSUME UNCHANGED vars PROVE Typed'
    BY <1>6 DEF vars, Typed
<1> QED
    BY <1>1, <1>2, <1>3, <1>4, <1>5, <1>6 DEF Next

(* The parts of TypeOK that say nothing of handles are parts of Typed. *)
LEMMA TypedIsTypeOK == ASSUME Typed PROVE TypeOK
    BY HandleFields DEF Typed, TypeOK

(* Every reachable state of the intake, the handles and what is posted is  *)
(* well typed.                                                             *)
THEOREM TypeCorrect == Spec => []TypeOK
<1> USE PipelineAssumption
<1>1. Init => Typed
    BY TypedInitially
<1>2. Typed /\ [Next]_vars => Typed'
    BY TypedStep
<1>3. Typed => TypeOK
    BY TypedIsTypeOK
<1> QED
    BY <1>1, <1>2, <1>3, PTL DEF Spec

--------------------------------------------------------------------------------
(* Handles and their messages. *)

(* Still to be handled. *)
Waiting == {"unseen", "arriving", "queued"}

(* A message that is handled has one handle, one that is queued one place.  *)
Handled == \A w \in Workers : ~At(w, "idle") => fate[work[w].m] = "handling"
OneHandle == \A v, w \in Workers : ~At(v, "idle") /\ work[v].m = work[w].m => v = w
Queued  == \A i \in DOMAIN queue : fate[queue[i]] = "queued"
OneSlot == \A i, j \in DOMAIN queue : queue[i] = queue[j] => i = j
OneEach == Handled /\ OneHandle /\ Queued /\ OneSlot

(* The steps of a handle that changes w alone, and keeps or ends it. *)
Going(w) ==
    /\ work[w] \in AHandle
    /\ \A v \in Workers \ {w} : work'[v] = work[v]
    /\ \/ /\ work'[w] = Idle
          /\ \E o \in Fates \ (Waiting \cup {"handling"}) : fate' = [fate EXCEPT ![work[w].m] = o]
       \/ work'[w] \in AHandle /\ work'[w].m = work[w].m /\ fate' = fate
    /\ queue' = queue

(* A handle begins. *)
Begins(w) ==
    /\ At(w, "idle") /\ queue # << >> /\ queue' = Tail(queue)
    /\ \A v \in Workers \ {w} : work'[v] = work[v]
    /\ work'[w] \in AHandle /\ work'[w].m = Head(queue) /\ At(w, "build")'
    /\ fate' = [fate EXCEPT ![Head(queue)] = "handling"]

LEMMA HandleIsGoing ==
    ASSUME Typed, NEW w \in Workers, Handle(w) \/ CallTool(w), ~Take(w), Typed'
    PROVE  Going(w)
<1>1. work[w] \in AHandle
  <2>1. work[w].pc # "idle"
      BY DEF Handle, BeginBuild, EndBuild, BuildRaises, NoCross, ClaimFails,
              BeginAnnounce, SendFails, ToolEnds, generate, WrapUp, BeginSend, SendChunk, SendRaises,
              EndSend, BeginCopy, CopyChunk, EndCopy, Claim, NothingToAnnounce, Announce, GiveBack,
              CallTool, At
  <2> QED
      BY <2>1, HandleFields DEF Typed
<1>2. work'[w] \in AHandle \cup {Idle} /\ work[w].outcome \in Outcomes
    BY <1>1 DEF Typed, AHandle
<1>3. ASSUME NEW o, Over(w, o), o \in {"exception", "replied", "llm_error"} PROVE
          /\ \A v \in Workers \ {w} : work'[v] = work[v]
          /\ work'[w] = Idle
          /\ \E x \in Fates \ (Waiting \cup {"handling"}) : fate' = [fate EXCEPT ![work[w].m] = x]
    BY <1>3 DEF Over, Typed, Fates, Unsettled, Waiting
<1>4. work'[w].pc # "idle" => work'[w] \in AHandle
    BY <1>2 DEF Idle
<1>5. CASE \E o \in {"exception", "replied", "llm_error"} : Over(w, o)
  <2>1. queue' = queue
      BY <1>5, <1>1 DEF Handle, BeginBuild, EndBuild, BuildRaises, NoCross, ClaimFails,
              BeginAnnounce, SendFails, ToolEnds, generate, WrapUp, BeginSend, SendChunk, SendRaises,
              EndSend, BeginCopy, CopyChunk, EndCopy, Claim, NothingToAnnounce, Announce, GiveBack,
              CallTool, OwnHandleOnly
  <2> QED
      BY <1>1, <1>3, <1>5, <2>1 DEF Going
<1>6. CASE ~\E o \in {"exception", "replied", "llm_error"} : Over(w, o)
  <2>1. queue' = queue /\ fate' = fate
      BY <1>6, <1>2 DEF Handle, BeginBuild, EndBuild, BuildRaises, NoCross, ClaimFails,
              BeginAnnounce, SendFails, ToolEnds, generate, WrapUp, BeginSend, SendChunk, SendRaises,
              EndSend, BeginCopy, CopyChunk, EndCopy, Claim, NothingToAnnounce, Announce, GiveBack,
              CallTool, OwnHandleOnly, Outcomes
  <2>2. /\ \A v \in Workers \ {w} : work'[v] = work[v]
        /\ work'[w].m = work[w].m /\ work'[w].pc # "idle"
    <3>o. ~Over(w, "exception") /\ ~Over(w, "replied") /\ ~Over(w, work[w].outcome)
        BY <1>2, <1>6 DEF Outcomes
    <3> USE <1>1, <1>2 DEF Typed, AHandle, Phases, Outcomes
    <3>1. CASE BeginBuild(w) \/ BeginAnnounce(w)
        BY <3>1 DEF BeginBuild, BeginAnnounce
    <3>a. CASE EndBuild(w)
      <4>1. PICK hint \in SUBSET in_flight[Home(w)], lucky \in BOOLEAN :
               work' = [work EXCEPT ![w].pc = "llm", ![w].hint = hint,
                                    ![w].double = lucky /\ available(Home(w))]
          BY <3>a, <3>o DEF EndBuild
      <4> QED
          BY <4>1
    <3>2. CASE CallTool(w)
      <4>1. PICK sandbox \in BOOLEAN :
               work' = [work EXCEPT ![w].pc = "tool", ![w].turns = @ + 1, ![w].hint = {},
                                    ![w].thread = @ \/ sandbox]
          BY <3>2 DEF CallTool
      <4> QED
          BY <4>1
    <3>3. CASE ToolEnds(w)
        BY <3>3 DEF ToolEnds
    <3>4. CASE generate(w) \/ WrapUp(w)
      <4>1. CASE Answers(w)
          BY <4>1 DEF Answers
      <4>2. CASE Errs(w)
          BY <4>2 DEF Errs, AfterReply
      <4> QED
          BY <3>4, <4>1, <4>2 DEF generate, WrapUp
    <3>5. CASE BeginSend(w) \/ SendChunk(w)
      <4>1. CASE BeginSend(w)
          BY <4>1 DEF BeginSend
      <4>2. CASE SendChunk(w)
        <5>1. work' = [work EXCEPT ![w].chunks = @ - 1]
            BY <4>2 DEF SendChunk
        <5> QED
            BY <5>1
      <4> QED
          BY <3>5, <4>1, <4>2
    <3>6. CASE \/ SendRaises(w) \/ NothingToAnnounce(w) \/ GiveBack(w)
               \/ BuildRaises(w) \/ NoCross(w) \/ ClaimFails(w)
        BY <3>6, <3>o DEF SendRaises, NothingToAnnounce, GiveBack, BuildRaises, NoCross, ClaimFails
    <3>7. CASE EndSend(w) \/ EndCopy(w)
        BY <3>7 DEF EndSend, AfterReply, EndCopy
    <3>8. CASE BeginCopy(w) \/ CopyChunk(w)
      <4>1. CASE BeginCopy(w)
          BY <4>1 DEF BeginCopy
      <4>2. CASE CopyChunk(w)
        <5>1. work' = [work EXCEPT ![w].chunks = @ - 1]
            BY <4>2 DEF CopyChunk
        <5> QED
            BY <5>1
      <4> QED
          BY <3>8, <4>1, <4>2
    <3>9. CASE Claim(w) \/ Announce(w)
      <4>1. \/ work' = [work EXCEPT ![w].pc = "announce", ![w].kept = seen]
            \/ work' = [work EXCEPT ![w].pc = "give_back"]
          BY <3>9, <3>o DEF Claim, Announce
      <4> QED
          BY <4>1
    <3> QED
        BY <3>1, <3>a, <3>2, <3>3, <3>4, <3>5, <3>6, <3>7, <3>8, <3>9 DEF Handle
  <2> QED
      BY <1>1, <1>4, <2>1, <2>2 DEF Going
<1> QED
    BY <1>5, <1>6

LEMMA TakeBeginsOrDrops ==
    ASSUME Typed, NEW w \in Workers, Take(w), Typed'
    PROVE  \/ Begins(w)
           \/ /\ queue # << >> /\ queue' = Tail(queue) /\ UNCHANGED work
              /\ fate' = [fate EXCEPT ![Head(queue)] = "in_call"]
<1>1. work'[w] \in AHandle \cup {Idle}
    BY DEF Typed
<1>2. CASE InTheCall(Head(queue))
    BY <1>2 DEF Take
<1>3. CASE ~InTheCall(Head(queue))
    BY <1>1, <1>3 DEF Take, Begins, At, Typed, Idle
<1> QED
    BY <1>2, <1>3

LEMMA OneEachInitially == ASSUME Init PROVE OneEach
    BY DEF Init, OneEach, Handled, OneHandle, Queued, OneSlot, At, Idle

LEMMA OneEachStep ==
    ASSUME Typed, Typed', OneEach, [Next]_vars, PipelineAssumption
    PROVE  OneEach'
<1>q. /\ queue \in Seq(Messages) /\ fate \in [Messages -> Fates]
      /\ \A i \in DOMAIN queue : queue[i] \in Messages
      /\ \A w \in Workers : ~At(w, "idle") => work[w].m \in Messages
  <2>1. \A w \in Workers : work[w] \in AHandle \cup {Idle}
      BY DEF Typed
  <2>2. \A w \in Workers : ~At(w, "idle") => work[w].m \in Messages
      BY <2>1, HandleFields DEF At
  <2> QED
      BY <2>2 DEF Typed
<1>o. Handled /\ OneHandle /\ Queued /\ OneSlot
    BY DEF OneEach
<1>1. ASSUME NEW m \in Messages, Receive(m) \/ Ignore(m) \/ Enqueue(m) PROVE OneEach'
  <2>1. /\ UNCHANGED work /\ fate[m] \in {"unseen", "arriving"}
        /\ fate' = [fate EXCEPT ![m] = fate'[m]] /\ fate'[m] # "unseen"
      BY <1>1, <1>q DEF Receive, Ignore, Enqueue
  <2>2. Handled' /\ OneHandle'
      BY <2>1, <1>o, <1>q DEF Handled, OneHandle, At
  <2>3. \A i \in DOMAIN queue : fate'[queue[i]] = "queued" /\ queue[i] # m
      BY <2>1, <1>o, <1>q DEF Queued
  <2>4. CASE queue' = queue
      BY <2>2, <2>3, <2>4, <1>o DEF OneEach, Queued, OneSlot
  <2>5. CASE queue' = Append(queue, m) /\ fate'[m] = "queued"
    <3>1. /\ DOMAIN queue' = DOMAIN queue \cup {Len(queue) + 1} /\ queue'[Len(queue) + 1] = m
          /\ \A i \in DOMAIN queue : queue'[i] = queue[i]
        BY <2>5, <1>q
    <3>2. Queued' /\ OneSlot'
        BY <3>1, <2>3, <2>5, <1>o DEF Queued, OneSlot
    <3> QED
        BY <3>2, <2>2 DEF OneEach
  <2> QED
      BY <1>1, <1>q, <2>4, <2>5 DEF Receive, Ignore, Enqueue
<1>2. ASSUME NEW w \in Workers, Take(w) PROVE OneEach'
  <2> DEFINE m == Head(queue)
  <2>1. /\ m = queue[1] /\ 1 \in DOMAIN queue /\ m \in Messages
        /\ \A i \in DOMAIN Tail(queue) : /\ i + 1 \in DOMAIN queue /\ i + 1 # 1 /\ i \in Nat
                                        /\ Tail(queue)[i] = queue[i + 1]
      BY <1>2, <1>q DEF Take
  <2>2. fate[m] = "queued" /\ queue' = Tail(queue)
      BY <2>1, <1>2, <1>o DEF Take, Queued
  <2>3. \E o \in {"handling", "in_call"} : fate' = [fate EXCEPT ![m] = o]
      BY <1>2, TakeBeginsOrDrops DEF Begins
  <2>4. OneSlot'
    <3> SUFFICES ASSUME NEW i \in DOMAIN Tail(queue), NEW j \in DOMAIN Tail(queue),
                        Tail(queue)[i] = Tail(queue)[j]
                 PROVE  i = j
        BY <2>2 DEF OneSlot
    <3>1. i + 1 = j + 1
        BY <2>1, <1>o DEF OneSlot
    <3> QED
        BY <3>1, <2>1
  <2>5. Queued'
    <3> SUFFICES ASSUME NEW i \in DOMAIN Tail(queue) PROVE fate'[Tail(queue)[i]] = "queued"
        BY <2>2 DEF Queued
    <3>1. Tail(queue)[i] # m /\ fate[Tail(queue)[i]] = "queued" /\ Tail(queue)[i] \in Messages
        BY <2>1, <1>o, <1>q DEF OneSlot, Queued
    <3> QED
        BY <3>1, <2>3, <1>q
  <2>6. \A v \in Workers : ~At(v, "idle") => work[v].m # m
      BY <2>2, <1>o DEF Handled
  <2>7. Handled' /\ OneHandle'
    <3>1. CASE Begins(w)
      <4>1. /\ \A v \in Workers \ {w} : work'[v] = work[v]
            /\ work'[w].m = m /\ fate'[m] = "handling"
            /\ \A x \in Messages \ {m} : fate'[x] = fate[x]
          BY <3>1, <2>1, <1>q DEF Begins
      <4>2. Handled'
          BY <4>1, <2>6, <1>o, <1>q DEF Handled, At
      <4>3. \A v \in Workers \ {w} : work[v].m # m
        <5>1. \A v \in Workers : At(v, "idle") => work[v].m = NoOne
            BY HandleFields DEF Typed, At
        <5> QED
            BY <5>1, <2>6, <2>1, ConstantsFit
      <4>4. OneHandle'
          BY <4>1, <4>3, <1>o DEF OneHandle, At
      <4> QED
          BY <4>2, <4>4
    <3>2. CASE UNCHANGED work
        BY <3>2, <2>3, <2>6, <2>1, <1>o, <1>q DEF Handled, OneHandle, At
    <3> QED
        BY <1>2, <3>1, <3>2, TakeBeginsOrDrops
  <2> QED
      BY <2>4, <2>5, <2>7 DEF OneEach
<1>3. ASSUME NEW w \in Workers, Going(w) PROVE OneEach'
  <2> DEFINE m == work[w].m
  <2>1. m \in Messages /\ ~At(w, "idle")
      BY <1>3 DEF Going, AHandle, At, Phases
  <2>2. fate[m] = "handling"
      BY <2>1, <1>o DEF Handled
  <2>3. \A v \in Workers \ {w} : work[v].m # m
      BY <2>1, <1>o DEF OneHandle
  <2>4. \A i \in DOMAIN queue : queue[i] # m
      BY <2>2, <1>o DEF Queued
  <2>5. \A x \in Messages \ {m} : fate'[x] = fate[x]
      BY <1>3, <1>q, <2>1 DEF Going
  <2>6. Queued' /\ OneSlot'
      BY <1>3, <2>4, <2>5, <1>o, <1>q DEF Going, Queued, OneSlot
  <2>7. At(w, "idle")' \/ (work'[w].m = m /\ fate'[m] = "handling")
      BY <1>3, <2>2 DEF Going, At, Idle
  <2>8. Handled'
      BY <1>3, <2>3, <2>5, <2>7, <1>o, <1>q DEF Going, Handled, At
  <2>9. \A v \in Workers \ {w} : ~At(v, "idle")' => work'[v].m # work'[w].m
    <3>1. work'[w].m \in {m, NoOne}
        BY <1>3 DEF Going, Idle
    <3> QED
        BY <3>1, <2>3, <1>3, <1>q, ConstantsFit DEF Going, At
  <2>10. OneHandle'
    <3> SUFFICES ASSUME NEW u \in Workers, NEW v \in Workers, ~At(u, "idle")', work'[u].m = work'[v].m
                 PROVE  u = v
        BY DEF OneHandle
    <3>1. CASE u = w
      <4>1. work'[w].m = m
          BY <3>1, <2>7
      <4> QED
          BY <3>1, <4>1, <2>3, <1>3 DEF Going
    <3>2. CASE u # w /\ v = w
        BY <3>2, <2>9
    <3>3. CASE u # w /\ v # w
        BY <3>3, <1>3, <1>o DEF Going, OneHandle, At
    <3> QED
        BY <3>1, <3>2, <3>3
  <2> QED
      BY <2>6, <2>8, <2>10 DEF OneEach
<1>4. ASSUME CallBegins \/ CallEnds \/ UNCHANGED vars PROVE OneEach'
    BY <1>4, <1>o DEF CallBegins, CallEnds, vars, OneEach, Handled, OneHandle, Queued, OneSlot, At
<1> QED
    BY <1>1, <1>2, <1>3, <1>4, HandleIsGoing DEF Next

--------------------------------------------------------------------------------
(* Locks. *)

Under(w) == work[w].pc \in {"building", "sending", "copying", "announcing"}
Held(w)  == IF At(w, "copying") THEN Channel ELSE Home(w)

(* Whoever builds or sends has the lock, and nobody else has one.           *)
LocksFit ==
    /\ \A c \in Places : lock[c] # NoOne => Under(lock[c]) /\ c = Held(lock[c])
    /\ \A w \in Workers : Under(w) => lock[Held(w)] = w

Elsewhere(w) == lock' = lock /\ ~Under(w) /\ ~Under(w)'
Within(w)    == /\ lock' = lock /\ Under(w)
                /\ work'[w].pc = work[w].pc /\ work'[w].m = work[w].m
Locks(w)     == /\ ~Under(w) /\ Under(w)' /\ Held(w)' \in Places /\ Unlocked(Held(w)')
                /\ lock' = [lock EXCEPT ![Held(w)'] = w]
Unlocks(w)   == /\ Under(w) /\ ~Under(w)' /\ Held(w) \in Places
                /\ lock' = [lock EXCEPT ![Held(w)] = NoOne]

LEMMA LockMoves ==
    ASSUME Typed, Typed', NEW w \in Workers, Handle(w) \/ CallTool(w), ~Take(w),
           PipelineAssumption
    PROVE  Elsewhere(w) \/ Within(w) \/ Locks(w) \/ Unlocks(w)
<1>1. Going(w) /\ work[w] \in AHandle /\ work[w].m \in Messages /\ Home(w) \in Places /\ Channel \in Places
    BY HandleIsGoing, ConstantsFit DEF Going, AHandle, Home
<1> USE <1>1 DEF AHandle, Under, At
<1>i. \A o : Over(w, o) => ~Under(w)'
    BY DEF Over, Idle, Typed
<1>2. CASE EndBuild(w)
    BY <1>2, <1>i DEF EndBuild, Unlocks, Release, Held, Typed
<1>b. CASE BeginBuild(w) \/ BeginAnnounce(w)
  <2>1. work'[w].pc \in {"building", "announcing"} /\ work'[w].m = work[w].m
      BY <1>b DEF BeginBuild, BeginAnnounce, Typed
  <2>2. Held(w)' = Home(w) /\ Under(w)'
      BY <2>1 DEF Held, Home
  <2> QED
      BY <1>b, <2>2 DEF BeginBuild, BeginAnnounce, TakeLock, Locks
<1>r. CASE BuildRaises(w) \/ SendRaises(w)
    BY <1>r, <1>i DEF BuildRaises, SendRaises, Release, Unlocks, Held
<1>x. CASE NoCross(w) \/ ClaimFails(w)
    BY <1>x, <1>i DEF NoCross, ClaimFails, Elsewhere
<1>3. CASE CallTool(w)
  <2>1. PICK sandbox \in BOOLEAN :
           work' = [work EXCEPT ![w].pc = "tool", ![w].turns = @ + 1, ![w].hint = {},
                                ![w].thread = @ \/ sandbox]
      BY <1>3 DEF CallTool
  <2>2. work'[w].pc = "tool"
      BY <2>1 DEF Typed
  <2> QED
      BY <1>3, <2>2 DEF CallTool, Elsewhere
<1>4. CASE ToolEnds(w)
    BY <1>4 DEF ToolEnds, Elsewhere, Typed
<1>5. CASE generate(w) \/ WrapUp(w)
  <2>1. work[w].pc = "llm" /\ lock' = lock
      BY <1>5 DEF generate, WrapUp, OwnHandleOnly
  <2>2. CASE Answers(w)
      BY <2>1, <2>2 DEF Answers, Elsewhere, Typed
  <2>3. CASE Errs(w)
      BY <2>1, <2>3 DEF Errs, Elsewhere, AfterReply, Typed
  <2> QED
      BY <1>5, <2>2, <2>3 DEF generate, WrapUp
<1>6. CASE BeginSend(w)
  <2>1. work'[w].pc = "sending" /\ work'[w].m = work[w].m
      BY <1>6 DEF BeginSend, Typed
  <2>2. Held(w)' = Home(w) /\ Under(w)'
      BY <2>1 DEF Held, Home
  <2> QED
      BY <1>6, <2>2 DEF BeginSend, TakeLock, Locks
<1>7. CASE SendChunk(w) \/ CopyChunk(w)
  <2>1. work' = [work EXCEPT ![w].chunks = @ - 1] /\ lock' = lock /\ Under(w)
      BY <1>7 DEF SendChunk, CopyChunk
  <2> QED
      BY <2>1 DEF Within, Typed
<1>9. CASE EndSend(w)
  <2>1. work'[w].pc \in {"copy", "after"}
      BY <1>9 DEF EndSend, Typed, AfterReply
  <2> QED
      BY <1>9, <2>1 DEF EndSend, Unlocks, Release, Held
<1>10. CASE BeginCopy(w)
  <2>1. PICK n \in ReplySizes :
           IF n = 0
           THEN work' = [work EXCEPT ![w].pc = "after"] /\ UNCHANGED lock
           ELSE /\ work' = [work EXCEPT ![w].pc = "copying", ![w].chunks = n]
                /\ lock' = [lock EXCEPT ![Channel] = w]
      BY <1>10 DEF BeginCopy, TakeLock
  <2>2. CASE n = 0
      BY <1>10, <2>1, <2>2 DEF BeginCopy, Elsewhere, Typed
  <2>3. CASE n # 0
      BY <1>10, <2>1, <2>3 DEF BeginCopy, Locks, Held, Typed
  <2> QED
      BY <2>2, <2>3
<1>11. CASE EndCopy(w)
    BY <1>11 DEF EndCopy, Unlocks, Release, Held, Typed
<1>13. CASE Announce(w)
  <2>1. work'[w].pc \in {"idle", "give_back"}
    <3>1. CASE Over(w, "replied")
        BY <3>1 DEF Over, Idle, Typed
    <3>2. CASE work' = [work EXCEPT ![w].pc = "give_back"]
        BY <3>2 DEF Typed
    <3> QED
        BY <1>13, <3>1, <3>2 DEF Announce
  <2> QED
      BY <1>13, <2>1 DEF Announce, Unlocks, Release, Held
<1>12. CASE Claim(w) \/ NothingToAnnounce(w) \/ GiveBack(w)
  <2>1. lock' = lock /\ ~Under(w)
      BY <1>12 DEF Claim, NothingToAnnounce, GiveBack
  <2>2. ~Under(w)'
    <3>1. CASE \E o : Over(w, o)
        BY <3>1, <1>i
    <3>2. CASE ~\E o : Over(w, o)
      <4>1. work' = [work EXCEPT ![w].pc = "announce", ![w].kept = seen]
          BY <3>2, <1>12 DEF Claim, NothingToAnnounce, GiveBack
      <4>2. work'[w].pc = "announce"
          BY <4>1 DEF Typed
      <4> QED
          BY <4>2
    <3> QED
        BY <3>1, <3>2
  <2> QED
      BY <2>1, <2>2 DEF Elsewhere
<1> QED
    BY <1>2, <1>b, <1>r, <1>x, <1>3, <1>4, <1>5, <1>6, <1>7, <1>9, <1>10, <1>11, <1>12, <1>13
       DEF Handle

LEMMA LocksStep ==
    ASSUME Typed, Typed', LocksFit, [Next]_vars, PipelineAssumption
    PROVE  LocksFit'
<1>t. lock \in [Places -> Workers \cup {NoOne}] /\ NoOne \notin Workers
    BY ConstantsFit DEF Typed
<1>1. ASSUME NEW w \in Workers, Going(w),
             Elsewhere(w) \/ Within(w) \/ Locks(w) \/ Unlocks(w)
      PROVE  LocksFit'
  <2>1. \A v \in Workers \ {w} : work'[v] = work[v] /\ (Under(v)' <=> Under(v)) /\ Held(v)' = Held(v)
      BY <1>1 DEF Going, Under, Held, Home, At
  <2>2. CASE Elsewhere(w)
      BY <2>1, <2>2, <1>t DEF Elsewhere, LocksFit
  <2>3. CASE Within(w)
    <3>1. Under(w)' /\ Held(w)' = Held(w)
        BY <2>3 DEF Within, Under, Held, Home, At
    <3> QED
        BY <2>1, <2>3, <3>1, <1>t DEF Within, LocksFit
  <2>4. CASE Locks(w)
    <3>1. \A c \in Places : lock'[c] = IF c = Held(w)' THEN w ELSE lock[c]
        BY <2>4, <1>t DEF Locks
    <3>2. \A v \in Workers \ {w} : Under(v) => Held(v) # Held(w)'
        BY <2>4, <1>t DEF Locks, LocksFit, Unlocked
    <3>3. \A v \in Workers : Under(v) => Held(v) \in Places
      <4>1. \A v \in Workers : Under(v) => work[v].m \in Messages
          BY HandleFields DEF Typed, Under
      <4> QED
          BY <4>1, ConstantsFit DEF Held, Home
    <3> QED
        BY <2>1, <2>4, <3>1, <3>2, <1>t DEF Locks, LocksFit
  <2>5. CASE Unlocks(w)
    <3>1. \A c \in Places : lock'[c] = IF c = Held(w) THEN NoOne ELSE lock[c]
        BY <2>5, <1>t DEF Unlocks
    <3>2. \A v \in Workers \ {w} : Under(v) => Held(v) # Held(w)
        BY <2>5, <1>t DEF Unlocks, LocksFit
    <3> QED
        BY <2>1, <2>5, <3>1, <3>2, <1>t DEF Unlocks, LocksFit
  <2> QED
      BY <1>1, <2>2, <2>3, <2>4, <2>5
<1>2. ASSUME NEW w \in Workers, Take(w) PROVE LocksFit'
  <2>1. lock' = lock /\ ~Under(w) /\ ~Under(w)' /\ \A v \in Workers \ {w} : work'[v] = work[v]
      BY <1>2, TakeBeginsOrDrops DEF Take, Under, At, Begins
  <2> QED
      BY <2>1, <1>t DEF LocksFit, Under, Held, Home, At
<1>3. ASSUME NEW m \in Messages, Receive(m) \/ Ignore(m) \/ Enqueue(m) PROVE LocksFit'
    BY <1>3 DEF Receive, Ignore, Enqueue, LocksFit, Under, Held, Home, At
<1>4. ASSUME CallBegins \/ CallEnds \/ UNCHANGED vars PROVE LocksFit'
    BY <1>4 DEF CallBegins, CallEnds, vars, LocksFit, Under, Held, Home, At
<1> QED
    BY <1>1, <1>2, <1>3, <1>4, HandleIsGoing, LockMoves DEF Next

--------------------------------------------------------------------------------
(* The registry of slow tools. *)

Running(c) == {v \in Workers : At(v, "tool") /\ Home(v) = c}

(* What is registered for a place is what runs for it.                      *)
Registered ==
    \A c \in Places : \A k : k \in in_flight[c] <=> \E v \in Running(c) : k = RunKey(v)

NoTool(w) == in_flight' = in_flight /\ ~At(w, "tool") /\ ~At(w, "tool")'

LEMMA ToolMoves ==
    ASSUME Typed, Typed', NEW w \in Workers, Handle(w), ~Take(w), ~ToolEnds(w),
           PipelineAssumption
    PROVE  NoTool(w)
<1>1. work[w] \in AHandle
    BY HandleIsGoing DEF Going
<1> USE <1>1 DEF AHandle, At
<1>i. \A o : Over(w, o) => work'[w].pc = "idle"
    BY DEF Over, Idle, Typed
<1>2. in_flight' = in_flight /\ work[w].pc # "tool"
    BY DEF Handle, BeginBuild, EndBuild, BuildRaises, NoCross, ClaimFails,
              BeginAnnounce, SendFails, generate, WrapUp, BeginSend, SendChunk, SendRaises,
       EndSend, BeginCopy, CopyChunk, EndCopy, Claim, NothingToAnnounce, Announce, GiveBack,
       OwnHandleOnly
<1>3. work'[w].pc # "tool"
  <2>1. CASE EndBuild(w)
    <3>1. CASE Over(w, "exception")
        BY <3>1, <1>i
    <3>2. CASE ~Over(w, "exception")
        BY <2>1, <3>2 DEF EndBuild, Typed
    <3> QED
        BY <3>1, <3>2
  <2>6. CASE SendRaises(w) \/ BuildRaises(w) \/ NoCross(w) \/ ClaimFails(w)
    <3>1. \E o : Over(w, o)
        BY <2>6 DEF SendRaises, BuildRaises, NoCross, ClaimFails
    <3> QED
        BY <3>1, <1>i
  <2>7. CASE BeginBuild(w) \/ BeginAnnounce(w)
      BY <2>7 DEF BeginBuild, BeginAnnounce, Typed
  <2>5. CASE BeginSend(w) \/ SendChunk(w) \/ CopyChunk(w)
    <3>1. CASE BeginSend(w)
        BY <3>1 DEF BeginSend, Typed
    <3>2. CASE work' = [work EXCEPT ![w].chunks = @ - 1]
        BY <3>2, <1>2 DEF Typed
    <3> QED
        BY <2>5, <3>1, <3>2 DEF SendChunk, CopyChunk
  <2>2. CASE generate(w) \/ WrapUp(w)
    <3>1. CASE Answers(w)
        BY <3>1 DEF Answers, Typed
    <3>2. CASE Errs(w)
        BY <3>2 DEF Errs, AfterReply, Typed
    <3> QED
        BY <2>2, <3>1, <3>2 DEF generate, WrapUp
  <2>3. CASE EndSend(w) \/ BeginCopy(w) \/ EndCopy(w)
      BY <2>3 DEF EndSend, BeginCopy, EndCopy, AfterReply, Typed
  <2>4. CASE Claim(w) \/ NothingToAnnounce(w) \/ GiveBack(w) \/ Announce(w)
    <3>1. CASE \E o : Over(w, o)
        BY <3>1, <1>i
    <3>2. CASE \/ work' = [work EXCEPT ![w].pc = "announce", ![w].kept = seen]
               \/ work' = [work EXCEPT ![w].pc = "give_back"]
        BY <3>2 DEF Typed
    <3> QED
        BY <2>4, <3>1, <3>2 DEF Claim, NothingToAnnounce, GiveBack, Announce
  <2> QED
      BY <2>1, <2>2, <2>3, <2>4, <2>5, <2>6, <2>7 DEF Handle
<1> QED
    BY <1>2, <1>3 DEF NoTool

LEMMA RegisteredInitially == ASSUME Init PROVE Registered
    BY DEF Init, Registered, Running, At, Idle

LEMMA RegisteredStep ==
    ASSUME Typed, Typed', OneEach, Registered, [Next]_vars, PipelineAssumption
    PROVE  Registered'
<1>1. ASSUME NEW w \in Workers, \A v \in Workers \ {w} : work'[v] = work[v], NoTool(w)
      PROVE  Registered'
  <2>1. \A c \in Places : Running(c)' = Running(c)
      BY <1>1 DEF NoTool, Running, At, Home
  <2>2. \A c \in Places : \A v \in Running(c) : RunKey(v)' = RunKey(v)
      BY <1>1 DEF NoTool, Running, At, RunKey
  <2> QED
      BY <1>1, <2>1, <2>2 DEF NoTool, Registered
<1>2. ASSUME NEW w \in Workers, CallTool(w) PROVE Registered'
  <2>1. Going(w)
      BY <1>2, HandleIsGoing DEF Take, CallTool, At
  <2>2. PICK sandbox \in BOOLEAN :
           work' = [work EXCEPT ![w].pc = "tool", ![w].turns = @ + 1, ![w].hint = {},
                                ![w].thread = @ \/ sandbox]
      BY <1>2 DEF CallTool
  <2>3. /\ work'[w].pc = "tool" /\ work'[w].m = work[w].m /\ work'[w].tools = work[w].tools
        /\ ~At(w, "tool") /\ Home(w) \in Places
      BY <2>1, <2>2, <1>2, ConstantsFit DEF Going, AHandle, Typed, CallTool, At, Home
  <2>4. \A c \in Places : in_flight'[c] = IF c = Home(w) THEN in_flight[c] \cup {RunKey(w)} ELSE in_flight[c]
      BY <1>2, <2>3 DEF CallTool, register_task_run, Typed
  <2>5. \A c \in Places : Running(c)' = IF c = Home(w) THEN Running(c) \cup {w} ELSE Running(c)
      BY <2>1, <2>3 DEF Going, Running, At, Home
  <2>6. \A v \in Workers : RunKey(v)' = RunKey(v)
      BY <2>1, <2>3 DEF Going, RunKey
  <2> SUFFICES ASSUME NEW c \in Places, NEW k
               PROVE  k \in in_flight'[c] <=> \E v \in Running(c)' : k = RunKey(v)'
      BY DEF Registered
  <2>7. k \in in_flight[c] <=> \E v \in Running(c) : k = RunKey(v)
      BY DEF Registered
  <2>8. \A v \in Running(c)' : v \in Workers
      BY DEF Running
  <2> QED
      BY <2>4, <2>5, <2>6, <2>7, <2>8
<1>3. ASSUME NEW w \in Workers, ToolEnds(w) PROVE Registered'
  <2>1. Going(w)
      BY <1>3, HandleIsGoing DEF Take, ToolEnds, At, Handle
  <2>2. /\ work'[w].pc = "llm" /\ At(w, "tool") /\ Home(w) \in Places
      BY <2>1, <1>3, ConstantsFit DEF Going, AHandle, Typed, ToolEnds, At, Home
  <2>3. \A c \in Places : in_flight'[c] = IF c = Home(w) THEN in_flight[c] \ {RunKey(w)} ELSE in_flight[c]
    <3>1. in_flight' = [in_flight EXCEPT ![Home(w)] = @ \ {RunKey(w)}]
        BY <1>3 DEF ToolEnds, unregister_task_run
    <3> QED
        BY <3>1, <2>2 DEF Typed
  <2>4. \A c \in Places : Running(c)' = Running(c) \ {w}
      BY <2>1, <2>2 DEF Going, Running, At, Home
  <2>5. w \in Running(Home(w)) /\ \A c \in Places : w \in Running(c) => c = Home(w)
      BY <2>2 DEF Running
  <2>6. \A c \in Places : \A v \in Running(c) \ {w} : RunKey(v)' = RunKey(v) /\ RunKey(v) # RunKey(w)
      BY <2>1, <2>2 DEF Going, RunKey, Running, OneEach, OneHandle, At
  <2> SUFFICES ASSUME NEW c \in Places, NEW k
               PROVE  k \in in_flight'[c] <=> \E v \in Running(c)' : k = RunKey(v)'
      BY DEF Registered
  <2>7. k \in in_flight[c] <=> \E v \in Running(c) : k = RunKey(v)
      BY DEF Registered
  <2>8. (\E v \in Running(c)' : k = RunKey(v)') <=> \E v \in Running(c) \ {w} : k = RunKey(v)
      BY <2>4, <2>6
  <2> QED
      BY <2>3, <2>5, <2>6, <2>7, <2>8
<1>4. ASSUME NEW w \in Workers, Take(w) PROVE Registered'
  <2>1. NoTool(w) /\ \A v \in Workers \ {w} : work'[v] = work[v]
      BY <1>4, TakeBeginsOrDrops DEF Take, NoTool, At, Begins
  <2> QED
      BY <2>1, <1>1
<1>5. ASSUME NEW m \in Messages, Receive(m) \/ Ignore(m) \/ Enqueue(m) PROVE Registered'
    BY <1>5 DEF Receive, Ignore, Enqueue, Registered, Running, RunKey, Home, At
<1>6. ASSUME CallBegins \/ CallEnds \/ UNCHANGED vars PROVE Registered'
    BY <1>6 DEF CallBegins, CallEnds, vars, Registered, Running, RunKey, Home, At
<1>7. ASSUME NEW w \in Workers, Handle(w), ~Take(w), ~ToolEnds(w) PROVE Registered'
  <2>1. NoTool(w) /\ Going(w)
      BY <1>7, ToolMoves, HandleIsGoing
  <2> QED
      BY <2>1, <1>1 DEF Going
<1> QED
    BY <1>2, <1>3, <1>4, <1>5, <1>6, <1>7 DEF Next

(* Only EndBuild takes a handle from "building" to the model.               *)
LEMMA HintNames ==
    ASSUME Typed, Typed', Registered, [Next]_vars, PipelineAssumption,
           NEW w \in Workers, At(w, "building"), work'[w].pc = "llm"
    PROVE  work'[w].hint = {<<work[v].m, work[v].tools>> :
                              v \in {v \in Workers : At(v, "tool") /\ Home(v) = Home(w)}}
<1>1. work[w] \in AHandle /\ Home(w) \in Places
    BY HandleFields, ConstantsFit DEF At, Typed, Home
<1>o. \A o : Over(w, o) => work'[w].pc = "idle"
    BY DEF Over, Idle, Typed
<1>2. EndBuild(w)
  <2>1. ASSUME NEW v \in Workers, Handle(v) \/ CallTool(v), ~Take(v) PROVE EndBuild(w)
    <3>1. v = w
        BY <2>1, HandleIsGoing DEF Going, At
    <3>2. ~BuildRaises(w)
        BY <1>o DEF BuildRaises
    <3> QED
        BY <3>2, <2>1, <3>1 DEF Handle, BeginBuild, NoCross, ClaimFails, BeginAnnounce, ToolEnds,
              generate, WrapUp, BeginSend, SendChunk, SendRaises, EndSend, BeginCopy, CopyChunk, EndCopy, Claim, NothingToAnnounce, Announce, GiveBack,
              CallTool, At
  <2>2. ASSUME NEW v \in Workers, Take(v) PROVE FALSE
      BY <2>2, TakeBeginsOrDrops DEF Begins, At, Take
  <2>3. ASSUME UNCHANGED work PROVE FALSE
      BY <2>3 DEF At
  <2>4. UNCHANGED work \/ \E v \in Workers : Handle(v) \/ CallTool(v)
      BY DEF Next, vars, Receive, Ignore, Enqueue, CallBegins, CallEnds
  <2> QED
      BY <2>1, <2>2, <2>3, <2>4
<1>3. work'[w].hint = in_flight[Home(w)]
    BY <1>1, <1>2, <1>o DEF EndBuild, in_flight_hint, AHandle, Typed
<1> DEFINE named == {<<work[v].m, work[v].tools>> :
                         v \in {v \in Workers : At(v, "tool") /\ Home(v) = Home(w)}}
<1>4. \A k : k \in in_flight[Home(w)] <=> k \in named
    BY <1>1 DEF Registered, Running, RunKey
<1>5. in_flight[Home(w)] = named
    BY <1>4
<1> QED
    BY <1>3, <1>5

--------------------------------------------------------------------------------
(* What is posted. *)

(* The kind of message a handle sends under its lock, the lock a kind is    *)
(* sent under, and the kinds a handle may have sent so far.                 *)
Kind(w) ==
    IF At(w, "copying") THEN "copy" ELSE IF At(w, "announcing") THEN "notes" ELSE ReplyKind(w)
Guard(m, k) == IF k = "copy" THEN Channel ELSE ChannelOf[m]
Sent(w) ==
    IF work[w].pc \in {"build", "building", "llm", "tool", "send"} THEN {}
    ELSE IF work[w].pc = "sending" THEN {Kind(w)}
    ELSE IF work[w].pc = "copy" THEN {"reply", "pair"}
    ELSE IF work[w].pc \in {"copying", "after", "announce"} THEN {"reply", "pair", "copy"}
    ELSE Kinds

Guarded ==
    \A c \in Places : \A i \in DOMAIN posted[c] :
        posted[c][i].guard = Guard(posted[c][i].by, posted[c][i].kind)

(* A message is answered once it is handled, and by what its handle sent.   *)
Answered ==
    \A c \in Places : \A i \in DOMAIN posted[c] :
        /\ fate[posted[c][i].by] \notin Waiting
        /\ \A w \in Workers : ~At(w, "idle") /\ posted[c][i].by = work[w].m
                                => posted[c][i].kind \in Sent(w)

(* Under a lock, what its holder sends is the last of what was sent under it. *)
Last ==
    \A c \in Places : \A w \in Workers : lock[c] = w =>
        \A i, j \in DOMAIN posted[c] :
            /\ i < j /\ posted[c][i].guard = c /\ posted[c][j].guard = c
            /\ posted[c][i].by = work[w].m /\ posted[c][i].kind = Kind(w)
            => posted[c][j].by = work[w].m /\ posted[c][j].kind = Kind(w)

History == Guarded /\ Answered /\ Last /\ RepliesStayTogether

(* The steps that post.                                                     *)
PostsUnder(w, c) == /\ Within(w) \/ Unlocks(w)
                    /\ Kind(w) \in Sent(w)
                    /\ \E sure \in BOOLEAN : Post(c, w, Kind(w), Held(w), sure)
Posts(w) == \E c \in Places : PostsUnder(w, c)

(* How far a handle has come decides what it may have sent.                 *)
Advances(w) ==
    /\ work'[w] = Idle \/ Sent(w) \subseteq Sent(w)'
    /\ Within(w) => Kind(w)' = Kind(w)
    /\ Locks(w) => Kind(w)' \notin Sent(w)

LEMMA StageMoves ==
    ASSUME Typed, Typed', NEW w \in Workers, Handle(w) \/ CallTool(w), ~Take(w),
           PipelineAssumption
    PROVE  Advances(w) /\ (posted' = posted \/ Posts(w))
<1>1. Going(w) /\ work[w] \in AHandle /\ work[w].m \in Messages /\ Home(w) \in Places
      /\ Channel \in Places /\ Thread \in Places /\ Target(w) \in Places
    BY HandleIsGoing, ConstantsFit DEF Going, AHandle, Home, Target
<1>k. /\ Kind(w) \in Kinds /\ Kind(w)' \in Kinds
      /\ ~At(w, "copying") => Kind(w) # "copy"
      /\ ~At(w, "announcing") => Kind(w) # "notes"
      /\ ~At(w, "announcing")' => Kind(w)' # "notes"
    BY DEF Kind, Kinds, ReplyKind
<1> USE <1>1 DEF AHandle
<1>i. \A o : Over(w, o) => work'[w] = Idle
    BY DEF Over, Idle, Typed
<1>u. ASSUME ~Under(w) PROVE Under(w)' \/ ~Locks(w)
    BY DEF Locks
<1>2. ASSUME work'[w] = Idle, ~Within(w), ~Locks(w) PROVE Advances(w)
    BY <1>2 DEF Advances
<1>3. ASSUME work[w].pc \in {"build", "building", "llm", "tool", "send"}, ~Within(w)
      PROVE  Advances(w)
    BY <1>3 DEF Advances, Sent
<1>4. ASSUME work[w].pc \in {"build", "building", "llm", "tool", "send"} PROVE posted' = posted
    BY <1>4 DEF Handle, BeginBuild, EndBuild, BuildRaises, NoCross, ClaimFails,
              BeginAnnounce, SendFails, ToolEnds, generate, WrapUp, BeginSend, SendChunk, SendRaises,
              EndSend, BeginCopy, CopyChunk, EndCopy, Claim, NothingToAnnounce, Announce, GiveBack,
              CallTool, OwnHandleOnly, At
<1>5. CASE SendChunk(w) \/ CopyChunk(w)
  <2>1. work' = [work EXCEPT ![w].chunks = @ - 1] /\ lock' = lock
      BY <1>5 DEF SendChunk, CopyChunk
  <2>2. /\ work'[w].pc = work[w].pc /\ work'[w].m = work[w].m /\ work'[w].pair = work[w].pair
      BY <2>1 DEF Typed
  <2>3. Kind(w)' = Kind(w) /\ Sent(w)' = Sent(w) /\ Under(w)
      BY <2>2, <1>5 DEF Kind, ReplyKind, Sent, At, SendChunk, CopyChunk, Under
  <2>4. Within(w) /\ ~Locks(w)
      BY <2>1, <2>2, <2>3 DEF Within, Locks
  <2>5. Advances(w)
      BY <2>3, <2>4 DEF Advances
  <2>6. posted' = posted \/ Posts(w)
    <3>1. CASE SendChunk(w)
      <4>1. Kind(w) \in Sent(w) /\ Held(w) = Home(w) /\ Kind(w) = ReplyKind(w)
          BY <3>1 DEF Sent, Kind, Held, SendChunk, At
      <4> QED
          BY <3>1, <4>1, <2>4 DEF SendChunk, Posts, PostsUnder
    <3>2. CASE CopyChunk(w)
      <4>1. Kind(w) = "copy" /\ Kind(w) \in Sent(w) /\ Held(w) = Channel
          BY <3>2 DEF Sent, Kind, Held, CopyChunk, At
      <4>2. CASE Post(Channel, w, "copy", Channel, TRUE)
        <5>1. PostsUnder(w, Channel)
            BY <4>1, <4>2, <2>4 DEF PostsUnder
        <5> QED
            BY <5>1 DEF Posts
      <4> QED
          BY <3>2, <4>2 DEF CopyChunk
    <3> QED
        BY <1>5, <3>1, <3>2
  <2> QED
      BY <2>5, <2>6
<1>6. CASE SendRaises(w)
  <2>1. work'[w] = Idle /\ At(w, "sending") /\ SendFails(Target(w), w, ReplyKind(w), Home(w))
      BY <1>6, <1>i DEF SendRaises
  <2>2. Unlocks(w) /\ Held(w) = Home(w)
      BY <1>6, <2>1 DEF SendRaises, Release, Unlocks, Under, Held, At, Idle
  <2>3. ~Within(w) /\ ~Locks(w)
      BY <2>1 DEF Within, Locks, Under, At, Idle
  <2>4. Kind(w) = ReplyKind(w) /\ Kind(w) \in Sent(w)
      BY <2>1 DEF Kind, Sent, At
  <2>5. posted' = posted \/ Posts(w)
      BY <2>1, <2>2, <2>4 DEF SendFails, Posts, PostsUnder
  <2> QED
      BY <1>2, <2>1, <2>3, <2>5
<1>7. CASE EndSend(w) \/ EndCopy(w)
  <2>1. \/ At(w, "sending") /\ work'[w].pc \in {"copy", "after"}
        \/ At(w, "copying") /\ work'[w].pc = "after"
    <3>1. CASE EndSend(w)
        BY <3>1 DEF EndSend, AfterReply, Typed
    <3>2. CASE EndCopy(w)
        BY <3>2 DEF EndCopy, Typed
    <3> QED
        BY <1>7, <3>1, <3>2
  <2>2. Sent(w) \subseteq Sent(w)' /\ ~Within(w) /\ ~Locks(w)
      BY <2>1, <1>k DEF Sent, Within, Locks, Under, At, Kinds
  <2> QED
      BY <1>7, <2>2 DEF Advances, EndSend, EndCopy
<1>8. CASE BeginCopy(w)
  <2>1. At(w, "copy") /\ work'[w].pc \in {"after", "copying"}
    <3>1. PICK n \in ReplySizes :
             \/ work' = [work EXCEPT ![w].pc = "after"]
             \/ work' = [work EXCEPT ![w].pc = "copying", ![w].chunks = n]
        BY <1>8 DEF BeginCopy
    <3> QED
        BY <3>1, <1>8 DEF BeginCopy, Typed
  <2>2. Sent(w) = {"reply", "pair"} /\ Sent(w)' = {"reply", "pair", "copy"} /\ ~Within(w)
      BY <2>1 DEF Sent, Within, Under, At
  <2>3. Locks(w) => Kind(w)' = "copy"
      BY <2>1 DEF Locks, Under, Kind, At
  <2> QED
      BY <1>8, <2>2, <2>3 DEF Advances, BeginCopy
<1>9. CASE Claim(w) \/ ClaimFails(w) \/ NothingToAnnounce(w) \/ GiveBack(w)
  <2>1. /\ lock' = lock /\ posted' = posted
        /\ work'[w] = Idle \/ (At(w, "after") /\ work'[w].pc = "announce")
    <3>1. CASE \E o : Over(w, o)
        BY <1>9, <3>1, <1>i DEF Claim, ClaimFails, NothingToAnnounce, GiveBack
    <3>2. CASE work' = [work EXCEPT ![w].pc = "announce", ![w].kept = seen] /\ At(w, "after")
        BY <1>9, <3>2 DEF Claim, ClaimFails, NothingToAnnounce, GiveBack, Typed
    <3> QED
        BY <1>9, <3>1, <3>2 DEF Claim, ClaimFails, NothingToAnnounce, GiveBack
  <2>2. ~Under(w) /\ ~Under(w)'
      BY <1>9, <2>1 DEF Claim, ClaimFails, NothingToAnnounce, GiveBack, Under, Idle, At
  <2> QED
      BY <2>1, <2>2 DEF Advances, Within, Locks, Sent, At
<1>11. CASE BeginAnnounce(w)
  <2>1. At(w, "announce") /\ work'[w].pc = "announcing" /\ posted' = posted
      BY <1>11 DEF BeginAnnounce, Typed
  <2>2. /\ Sent(w) = {"reply", "pair", "copy"} /\ Sent(w)' = Kinds
        /\ Kind(w)' = "notes" /\ ~Within(w)
      BY <2>1 DEF Sent, Kind, Within, Under, At
  <2> QED
      BY <2>1, <2>2 DEF Advances, Kinds
<1>12. CASE Announce(w)
  <2>1. At(w, "announcing") /\ (work'[w] = Idle \/ work'[w].pc = "give_back")
    <3>1. CASE Over(w, "replied")
        BY <1>12, <3>1, <1>i DEF Announce
    <3>2. CASE work' = [work EXCEPT ![w].pc = "give_back"]
        BY <1>12, <3>2 DEF Announce, Typed
    <3> QED
        BY <1>12, <3>1, <3>2 DEF Announce
  <2>2. /\ Under(w) /\ ~Under(w)' /\ Held(w) = Home(w) /\ Kind(w) = "notes" /\ Kind(w) \in Sent(w)
        /\ work'[w] # Idle => Sent(w)' = Kinds
        /\ Sent(w) = Kinds
      BY <2>1 DEF Under, Held, Kind, Sent, Kinds, At, Idle
  <2>3. Unlocks(w) /\ ~Within(w) /\ ~Locks(w)
      BY <1>12, <2>1, <2>2 DEF Announce, Release, Unlocks, Within, Locks, At, Idle
  <2>4. posted' = posted \/ Posts(w)
    <3>1. ASSUME NEW sure \in BOOLEAN, Post(Home(w), w, "notes", Home(w), sure) PROVE Posts(w)
      <4>1. PostsUnder(w, Home(w))
          BY <2>2, <2>3, <3>1 DEF PostsUnder
      <4> QED
          BY <4>1 DEF Posts
    <3> QED
        BY <1>12, <3>1 DEF Announce, SendFails
  <2> QED
      BY <2>2, <2>3, <2>4 DEF Advances
<1>10. CASE \/ BeginBuild(w) \/ CallTool(w) \/ ToolEnds(w) \/ generate(w) \/ WrapUp(w)
            \/ NoCross(w) \/ BeginSend(w)
  <2>1. work[w].pc \in {"build", "llm", "tool", "send"}
      BY <1>10 DEF BeginBuild, CallTool, ToolEnds, generate, WrapUp, NoCross, BeginSend, At
  <2>2. ~Within(w)
      BY <2>1 DEF Within, Under
  <2> QED
      BY <1>3, <1>4, <2>1, <2>2
<1>13. CASE EndBuild(w) \/ BuildRaises(w)
  <2>1. At(w, "building") /\ work'[w].pc \in {"idle", "llm"}
    <3>1. At(w, "building")
        BY <1>13 DEF EndBuild, BuildRaises
    <3>2. CASE Over(w, "exception")
        BY <3>1, <3>2, <1>i DEF Idle
    <3>3. CASE \E hint \in SUBSET in_flight[Home(w)], lucky \in BOOLEAN :
                  work' = [work EXCEPT ![w].pc = "llm", ![w].hint = hint,
                                       ![w].double = lucky /\ available(Home(w))]
      <4>1. work'[w].pc = "llm"
          BY <3>3 DEF Typed
      <4> QED
          BY <3>1, <4>1
    <3> QED
        BY <1>13, <3>2, <3>3 DEF EndBuild, BuildRaises
  <2>2. ~Within(w)
      BY <2>1 DEF Within, At
  <2> QED
      BY <1>3, <1>4, <2>1, <2>2 DEF At
<1> QED
    BY <1>5, <1>6, <1>7, <1>8, <1>9, <1>10, <1>11, <1>12, <1>13 DEF Handle

LEMMA PostAppends ==
    ASSUME Typed, NEW c \in Places, NEW w \in Workers, NEW k, NEW g, NEW sure,
           Post(c, w, k, g, sure)
    PROVE  /\ \A d \in Places \ {c} : posted'[d] = posted[d]
           /\ DOMAIN posted'[c] = DOMAIN posted[c] \cup {Len(posted[c]) + 1}
           /\ \A i \in DOMAIN posted[c] : posted'[c][i] = posted[c][i]
           /\ posted'[c][Len(posted[c]) + 1] = [by |-> work[w].m, kind |-> k, guard |-> g, sure |-> sure]
           /\ \A i \in DOMAIN posted[c] : i \in Nat /\ i < Len(posted[c]) + 1
           /\ Len(posted'[c]) = Len(posted[c]) + 1 /\ Len(posted[c]) \in Nat
<1> DEFINE p == [by |-> work[w].m, kind |-> k, guard |-> g, sure |-> sure]
           s == posted[c]
<1>1. posted[c] \in Seq(APost) /\ posted' = [posted EXCEPT ![c] = Append(posted[c], p)]
    BY DEF Post, Typed
<1>2. posted'[c] = Append(s, p) /\ \A d \in Places \ {c} : posted'[d] = posted[d]
    BY <1>1 DEF Typed
<1>3. s \in Seq(APost)
    BY <1>1
<1> HIDE DEF p, s
<1>4. /\ DOMAIN Append(s, p) = DOMAIN s \cup {Len(s) + 1}
      /\ \A i \in DOMAIN s : Append(s, p)[i] = s[i]
      /\ Append(s, p)[Len(s) + 1] = p
      /\ \A i \in DOMAIN s : i \in Nat /\ i < Len(s) + 1
      /\ Len(Append(s, p)) = Len(s) + 1 /\ Len(s) \in Nat
    BY <1>3
<1> QED
    BY <1>2, <1>4 DEF p, s

LEMMA PostsAt ==
    ASSUME Typed, NEW w \in Workers, Posts(w), NEW c \in Places, posted'[c] # posted[c]
    PROVE  PostsUnder(w, c)
<1>1. PICK d \in Places : PostsUnder(w, d)
    BY DEF Posts
<1>2. PICK k, g, sure : Post(d, w, k, g, sure)
    BY <1>1 DEF PostsUnder
<1>3. d = c
    BY <1>2 DEF Post, Typed
<1> QED
    BY <1>1, <1>3

LEMMA HistoryInitially == ASSUME Init PROVE History
<1>1. \A c \in Places : posted[c] = << >> /\ lock[c] = NoOne
    BY DEF Init
<1>2. \A c \in Places : DOMAIN posted[c] = {}
    BY <1>1
<1> QED
    BY <1>1, <1>2 DEF History, Guarded, Answered, Last, RepliesStayTogether, SendsStayTogether

(* The two facts that a step of a handle keeps, whatever is posted.         *)
LEMMA PostsAreGuarded ==
    ASSUME Typed, Typed', NEW w \in Workers, History, Going(w), LocksFit,
           posted' = posted \/ Posts(w), PipelineAssumption
    PROVE  Guarded'
<1>1. CASE posted' = posted
    BY <1>1 DEF History, Guarded
<1>2. CASE Posts(w)
  <2>1. PICK c \in Places, sure \in BOOLEAN : Post(c, w, Kind(w), Held(w), sure)
      BY <1>2 DEF Posts, PostsUnder
  <2>3. Held(w) = Guard(work[w].m, Kind(w))
      BY DEF Held, Guard, Kind, ReplyKind, Home
  <2>2. /\ \A d \in Places \ {c} : posted'[d] = posted[d]
        /\ DOMAIN posted'[c] = DOMAIN posted[c] \cup {Len(posted[c]) + 1}
        /\ \A i \in DOMAIN posted[c] : posted'[c][i] = posted[c][i]
        /\ posted'[c][Len(posted[c]) + 1] =
             [by |-> work[w].m, kind |-> Kind(w), guard |-> Guard(work[w].m, Kind(w)), sure |-> sure]
      BY <2>1, <2>3, PostAppends
  <2> QED
      BY <2>2 DEF History, Guarded, Guard
<1> QED
    BY <1>1, <1>2

LEMMA PostsAreAnswers ==
    ASSUME Typed, Typed', NEW w \in Workers, History, Going(w), OneEach, Advances(w),
           posted' = posted \/ Posts(w), PipelineAssumption
    PROVE  Answered'
<1> DEFINE m == work[w].m
<1>1. /\ m \in Messages /\ ~At(w, "idle") /\ fate[m] = "handling"
      /\ fate'[m] \notin Waiting /\ \A x \in Messages \ {m} : fate'[x] = fate[x]
  <2>1. m \in Messages /\ ~At(w, "idle")
      BY DEF Going, AHandle, At, Phases
  <2>2. fate[m] = "handling"
      BY <2>1 DEF OneEach, Handled
  <2> QED
      BY <2>1, <2>2 DEF Going, Typed, Waiting
<1>2. \A v \in Workers \ {w} : /\ work'[v] = work[v] /\ Sent(v)' = Sent(v)
                              /\ (At(v, "idle")' <=> At(v, "idle"))
                              /\ (~At(v, "idle") => work[v].m # m)
    BY <1>1 DEF Going, Sent, Kind, ReplyKind, At, OneEach, OneHandle
<1>3. ~At(w, "idle")' => work'[w].m = m /\ Sent(w) \subseteq Sent(w)'
    BY DEF Going, Advances, At, Idle
<1>4. ASSUME NEW p \in APost, fate[p.by] \notin Waiting,
             \A v \in Workers : ~At(v, "idle") /\ p.by = work[v].m => p.kind \in Sent(v)
      PROVE  /\ fate'[p.by] \notin Waiting
             /\ \A v \in Workers : ~At(v, "idle")' /\ p.by = work'[v].m => p.kind \in Sent(v)'
  <2>1. p.by \in Messages
      BY DEF APost
  <2> QED
      BY <1>1, <1>2, <1>3, <1>4, <2>1
<1>5. \A c \in Places : posted[c] \in Seq(APost) /\ \A i \in DOMAIN posted[c] : posted[c][i] \in APost
    BY DEF Typed
<1>6. CASE posted' = posted
    BY <1>4, <1>5, <1>6 DEF History, Answered
<1>7. CASE Posts(w)
  <2> DEFINE k == Kind(w)
             g == Held(w)
  <2>0. PICK c \in Places : PostsUnder(w, c)
      BY <1>7 DEF Posts
  <2>1. PICK sure \in BOOLEAN : Post(c, w, k, g, sure) /\ k \in Sent(w)
      BY <2>0 DEF PostsUnder
  <2> HIDE DEF k, g
  <2>2. /\ \A d \in Places \ {c} : posted'[d] = posted[d]
        /\ DOMAIN posted'[c] = DOMAIN posted[c] \cup {Len(posted[c]) + 1}
        /\ \A i \in DOMAIN posted[c] : posted'[c][i] = posted[c][i]
        /\ posted'[c][Len(posted[c]) + 1] = [by |-> m, kind |-> k, guard |-> g, sure |-> sure]
      BY <2>1, PostAppends
  <2>3. \A v \in Workers : ~At(v, "idle")' /\ m = work'[v].m => k \in Sent(v)'
      BY <1>2, <1>3, <2>1
  <2>4. \A d \in Places : \A i \in DOMAIN posted[d] :
           /\ fate'[posted[d][i].by] \notin Waiting
           /\ \A v \in Workers : ~At(v, "idle")' /\ posted[d][i].by = work'[v].m
                                    => posted[d][i].kind \in Sent(v)'
      BY <1>4, <1>5 DEF History, Answered
  <2> QED
      BY <1>1, <2>2, <2>3, <2>4 DEF Answered
<1> QED
    BY <1>6, <1>7

LEMMA HoldersAreLast ==
    ASSUME Typed, Typed', NEW w \in Workers, History, Going(w), OneEach, LocksFit, Advances(w),
           Elsewhere(w) \/ Within(w) \/ Locks(w) \/ Unlocks(w),
           posted' = posted \/ Posts(w), PipelineAssumption
    PROVE  Last'
<1>t. /\ lock \in [Places -> Workers \cup {NoOne}] /\ NoOne \notin Workers
      /\ \A c \in Places : \A i \in DOMAIN posted[c] : i \in Nat /\ i <= Len(posted[c])
      /\ \A c \in Places : Len(posted[c]) \in Nat
  <2>1. \A c \in Places : posted[c] \in Seq(APost)
      BY DEF Typed
  <2>2. \A c \in Places : Len(posted[c]) \in Nat /\ \A i \in DOMAIN posted[c] : i \in Nat /\ i <= Len(posted[c])
      BY <2>1
  <2> QED
      BY <2>2, ConstantsFit DEF Typed
<1> SUFFICES ASSUME NEW c \in Places, NEW h \in Workers, lock'[c] = h,
                    NEW i \in DOMAIN posted'[c], NEW j \in DOMAIN posted'[c], i < j,
                    posted'[c][i].guard = c, posted'[c][j].guard = c,
                    posted'[c][i].by = work'[h].m, posted'[c][i].kind = Kind(h)'
             PROVE  posted'[c][j].by = work'[h].m /\ posted'[c][j].kind = Kind(h)'
    BY DEF Last
(* A lock that is taken: its holder has sent nothing of the kind.           *)
<1>1. CASE lock[c] # h
  <2>1. h = w /\ Locks(w) /\ c = Held(w)' /\ posted' = posted
    <3>1. h = w /\ Locks(w) /\ c = Held(w)'
        BY <1>1, <1>t DEF Elsewhere, Within, Locks, Unlocks
    <3> QED
        BY <3>1 DEF Posts, PostsUnder, Within, Unlocks, Locks
  <2>2. Kind(w)' \notin Sent(w) /\ work'[w].m = work[w].m /\ ~At(w, "idle")
      BY <2>1 DEF Advances, Going, Locks, Under, At, Idle, AHandle, Phases
  <2> QED
      BY <2>1, <2>2 DEF History, Answered
<1>2. CASE lock[c] = h
  <2>1. Under(h) /\ c = Held(h)
      BY <1>2, <1>t DEF LocksFit
  <2>2. work'[h].m = work[h].m /\ Kind(h)' = Kind(h) /\ (h = w => Within(w))
    <3>1. CASE h = w
      <4>1. Within(w)
          BY <3>1, <2>1, <1>2, <1>t DEF Elsewhere, Locks, Unlocks
      <4> QED
          BY <3>1, <4>1 DEF Within, Advances
    <3>2. CASE h # w
        BY <3>2 DEF Going, Kind, ReplyKind, At
    <3> QED
        BY <3>1, <3>2
  <2>3. ASSUME i \in DOMAIN posted[c], j \in DOMAIN posted[c], posted'[c][i] = posted[c][i],
               posted'[c][j] = posted[c][j]
        PROVE  posted'[c][j].by = work'[h].m /\ posted'[c][j].kind = Kind(h)'
      BY <2>2, <2>3, <1>2 DEF History, Last
  <2>4. CASE posted'[c] = posted[c]
      BY <2>3, <2>4
  <2>5. CASE posted'[c] # posted[c]
    <3>1. PostsUnder(w, c)
        BY <2>5, PostsAt
    <3>2. PICK sure \in BOOLEAN : Post(c, w, Kind(w), Held(w), sure)
        BY <3>1 DEF PostsUnder
    <3>3. /\ DOMAIN posted'[c] = DOMAIN posted[c] \cup {Len(posted[c]) + 1}
          /\ \A n \in DOMAIN posted[c] : posted'[c][n] = posted[c][n]
          /\ posted'[c][Len(posted[c]) + 1] =
               [by |-> work[w].m, kind |-> Kind(w), guard |-> Held(w), sure |-> sure]
        BY <3>2, PostAppends
    <3>4. i \in DOMAIN posted[c]
        BY <3>3, <1>t
    <3>5. CASE j \in DOMAIN posted[c]
        BY <3>3, <3>4, <3>5, <2>3
    <3>6. CASE j = Len(posted[c]) + 1
      <4>1. Held(w) = c
          BY <3>3, <3>6
      <4>2. h = w
          BY <3>1, <4>1, <1>2 DEF PostsUnder, Within, Unlocks, LocksFit
      <4> QED
          BY <3>3, <3>6, <4>2, <2>2
    <3> QED
        BY <3>3, <3>5, <3>6
  <2> QED
      BY <2>4, <2>5
<1> QED
    BY <1>1, <1>2

LEMMA SendsStay ==
    ASSUME Typed, Typed', NEW w \in Workers, History, Guarded', Going(w), OneEach, LocksFit,
           posted' = posted \/ Posts(w), PipelineAssumption
    PROVE  RepliesStayTogether'
<1>t. /\ \A c \in Places : \A i \in DOMAIN posted[c] : i \in Nat /\ i <= Len(posted[c])
      /\ \A c \in Places : Len(posted[c]) \in Nat
  <2>1. \A c \in Places : posted[c] \in Seq(APost)
      BY DEF Typed
  <2> QED
      BY <2>1
<1> SUFFICES ASSUME NEW c \in Places, NEW i \in DOMAIN posted'[c], NEW j \in DOMAIN posted'[c],
                    NEW k \in DOMAIN posted'[c], i < j, j < k,
                    posted'[c][i].guard = c, posted'[c][j].guard = c,
                    posted'[c][i].by = posted'[c][k].by, posted'[c][i].kind = posted'[c][k].kind
             PROVE  posted'[c][j].by = posted'[c][i].by /\ posted'[c][j].kind = posted'[c][i].kind
    BY DEF RepliesStayTogether, SendsStayTogether, UnderItsLock
<1>1. ASSUME i \in DOMAIN posted[c], j \in DOMAIN posted[c], k \in DOMAIN posted[c],
             \A n \in DOMAIN posted[c] : posted'[c][n] = posted[c][n]
      PROVE  posted'[c][j].by = posted'[c][i].by /\ posted'[c][j].kind = posted'[c][i].kind
  <2>1. /\ posted[c][i].guard = c /\ posted[c][j].guard = c
        /\ <<posted[c][i].by, posted[c][i].kind>> = <<posted[c][k].by, posted[c][k].kind>>
      BY <1>1
  <2>2. <<posted[c][j].by, posted[c][j].kind>> = <<posted[c][i].by, posted[c][i].kind>>
      BY <1>1, <2>1 DEF History, RepliesStayTogether, SendsStayTogether, UnderItsLock
  <2> QED
      BY <1>1, <2>2
<1>2. CASE posted'[c] = posted[c]
    BY <1>1, <1>2
<1>3. CASE posted'[c] # posted[c]
  <2> DEFINE x == Kind(w)
  <2>1. PostsUnder(w, c)
      BY <1>3, PostsAt
  <2>2. PICK sure \in BOOLEAN : Post(c, w, x, Held(w), sure)
      BY <2>1 DEF PostsUnder
  <2>3. /\ DOMAIN posted'[c] = DOMAIN posted[c] \cup {Len(posted[c]) + 1}
        /\ \A n \in DOMAIN posted[c] : posted'[c][n] = posted[c][n]
        /\ posted'[c][Len(posted[c]) + 1] =
             [by |-> work[w].m, kind |-> x, guard |-> Held(w), sure |-> sure]
      BY <2>2, PostAppends
  <2>4. i \in DOMAIN posted[c] /\ j \in DOMAIN posted[c]
      BY <2>3, <1>t
  <2>5. CASE k \in DOMAIN posted[c]
      BY <2>3, <2>4, <2>5, <1>1
  <2>6. CASE k = Len(posted[c]) + 1
    <3>1. posted[c][i].by = work[w].m /\ posted[c][i].kind = x /\ ~At(w, "idle")
      <4>1. ~At(w, "idle")
          BY DEF Going, AHandle, At, Phases
      <4>2. posted'[c][i] = posted[c][i] /\ posted'[c][k].by = work[w].m /\ posted'[c][k].kind = x
          BY <2>3, <2>4, <2>6
      <4> QED
          BY <4>1, <4>2
    <3>4. Held(w) = c
      <4>1. posted[c][i].guard = Guard(work[w].m, x) /\ posted[c][i].guard = c
          BY <3>1, <2>3, <2>4 DEF History, Guarded
      <4>2. Held(w) = Guard(work[w].m, Kind(w))
          BY DEF Held, Guard, Kind, ReplyKind, Home
      <4> QED
          BY <4>1, <4>2
    <3>5. lock[c] = w /\ lock[c] # NoOne
      <4>1. Under(w) /\ Held(w) = c
          BY <2>1, <3>4 DEF PostsUnder, Within, Unlocks
      <4>2. w # NoOne
          BY ConstantsFit
      <4> QED
          BY <4>1, <4>2 DEF LocksFit
    <3> QED
        BY <3>1, <3>5, <2>3, <2>4 DEF History, Last
  <2> QED
      BY <2>3, <2>5, <2>6
<1> QED
    BY <1>2, <1>3

LEMMA HistoryStep ==
    ASSUME Typed, Typed', OneEach, LocksFit, History, [Next]_vars, PipelineAssumption
    PROVE  History'
<1>1. ASSUME NEW w \in Workers, Handle(w) \/ CallTool(w), ~Take(w) PROVE History'
  <2>1. /\ Going(w) /\ Advances(w)
        /\ Elsewhere(w) \/ Within(w) \/ Locks(w) \/ Unlocks(w)
        /\ posted' = posted \/ Posts(w)
      BY <1>1, HandleIsGoing, LockMoves, StageMoves
  <2>2. Guarded'
      BY <2>1, PostsAreGuarded
  <2>3. Answered'
      BY <2>1, PostsAreAnswers
  <2>4. Last'
      BY <2>1, HoldersAreLast
  <2>5. RepliesStayTogether'
      BY <2>1, <2>2, SendsStay
  <2> QED
      BY <2>2, <2>3, <2>4, <2>5 DEF History
<1>2. ASSUME NEW w \in Workers, Take(w) PROVE History'
  <2>1. posted' = posted /\ lock' = lock
      BY <1>2 DEF Take
  <2>2. /\ Head(queue) \in Messages /\ fate[Head(queue)] = "queued"
        /\ \A x \in Messages : fate'[x] \in Waiting => fate[x] \in Waiting
    <3>1. queue \in Seq(Messages) /\ queue # << >>
        BY <1>2 DEF Take, Typed
    <3>2. Head(queue) \in Messages /\ Head(queue) = queue[1] /\ 1 \in DOMAIN queue
        BY <3>1
    <3>3. fate[Head(queue)] = "queued"
        BY <3>2 DEF OneEach, Queued
    <3>4. \E o \in {"handling", "in_call"} : fate' = [fate EXCEPT ![Head(queue)] = o]
        BY <1>2, TakeBeginsOrDrops DEF Begins
    <3> QED
        BY <3>2, <3>3, <3>4 DEF Typed, Waiting
  <2>3. \A v \in Workers \ {w} : work'[v] = work[v] /\ Sent(v)' = Sent(v) /\ Kind(v)' = Kind(v)
                                /\ (At(v, "idle")' <=> At(v, "idle"))
      BY <1>2, TakeBeginsOrDrops DEF Begins, Sent, Kind, ReplyKind, At
  <2>4. ~Under(w) /\ (At(w, "idle")' \/ work'[w].m = Head(queue))
      BY <1>2, TakeBeginsOrDrops DEF Begins, Take, At, Under
  <2>5. Guarded' /\ RepliesStayTogether'
      BY <2>1 DEF History, Guarded, RepliesStayTogether, SendsStayTogether
  <2>6. \A c \in Places : \A i \in DOMAIN posted[c] : posted[c][i].by \in Messages
    <3>1. \A c \in Places : posted[c] \in Seq(APost)
        BY DEF Typed
    <3> QED
      <4>1. \A c \in Places : \A i \in DOMAIN posted[c] : posted[c][i] \in APost
          BY <3>1
      <4> QED
          BY <4>1 DEF APost
  <2>7. Answered'
      BY <2>1, <2>2, <2>3, <2>4, <2>6 DEF History, Answered, Waiting
  <2>8. \A c \in Places : lock[c] # w
      BY <2>4, ConstantsFit DEF LocksFit
  <2>9. Last'
      BY <2>1, <2>3, <2>8 DEF History, Last, Typed
  <2> QED
      BY <2>5, <2>7, <2>9 DEF History
<1>3. ASSUME NEW m \in Messages, Receive(m) \/ Ignore(m) \/ Enqueue(m) PROVE History'
  <2>1. posted' = posted /\ lock' = lock /\ work' = work /\ fate[m] \in Waiting
        /\ \A x \in Messages \ {m} : fate'[x] = fate[x]
      BY <1>3 DEF Receive, Ignore, Enqueue, Waiting, Typed
  <2>2. \A c \in Places : \A i \in DOMAIN posted[c] : posted[c][i].by \in Messages
    <3>1. \A c \in Places : posted[c] \in Seq(APost)
        BY DEF Typed
    <3> QED
      <4>1. \A c \in Places : \A i \in DOMAIN posted[c] : posted[c][i] \in APost
          BY <3>1
      <4> QED
          BY <4>1 DEF APost
  <2> QED
      BY <2>1, <2>2 DEF History, Guarded, Answered, Last, RepliesStayTogether, SendsStayTogether, At, Sent, Kind, ReplyKind
<1>4. ASSUME CallBegins \/ CallEnds \/ UNCHANGED vars PROVE History'
  <2>1. posted' = posted /\ lock' = lock /\ work' = work /\ fate' = fate
      BY <1>4 DEF CallBegins, CallEnds, vars
  <2> QED
      BY <2>1 DEF History, Guarded, Answered, Last, RepliesStayTogether, SendsStayTogether, At, Sent, Kind, ReplyKind
<1> QED
    BY <1>1, <1>2, <1>3, <1>4 DEF Next

--------------------------------------------------------------------------------
(* Double replies. *)

Own(c)  == \A i \in DOMAIN posted[c] : posted[c][i].guard = c
Busy(c) == {work[w].m : w \in {w \in Workers : /\ lock[c] = w
                                               /\ At(w, "sending") /\ ~work[w].pair}}

(* A pair is begun while the cooldown is over, and its second half follows  *)
(* the first.                                                               *)
PairBegins(w) ==
    /\ work[w].pc \in {"build", "building", "llm", "tool"} => ~work[w].pair
    /\ At(w, "send") /\ work[w].pair => work[w].chunks = 2
    /\ At(w, "sending") /\ work[w].pair =>
         /\ ~work[w].thread /\ work[w].chunks <= 2
         /\ work[w].chunks = 2 => remaining[Home(w)] = 0
         /\ work[w].chunks < 2 /\ Own(Home(w)) =>
              LET s == posted[Home(w)] IN s # << >> /\ s[Len(s)].by = work[w].m

(* Since each pair, every single reply that was counted down is there; the  *)
(* one under way is counted when it ends.                                   *)
Counting(s, busy, left) ==
    \A i \in Starts(s) : Cardinality(Singles(s, i, Len(s)) \ busy) + left >= Cooldown

PairsFit ==
    /\ \A w \in Workers : PairBegins(w)
    /\ \A c \in Places : Own(c) => Counting(posted[c], Busy(c), remaining[c]) /\ Spaced(posted[c])

LEMMA SinglesFinite ==
    ASSUME NEW s, NEW i \in Nat, NEW j \in Nat
    PROVE  IsFiniteSet(Singles(s, i, j))
<1> DEFINE S == {n \in i .. j : s[n].kind = "reply"}
           f == [n \in S |-> s[n].by]
<1>1. IsFiniteSet(S)
  <2>1. IsFiniteSet(i .. j)
      BY FS_Interval
  <2>2. S \subseteq i .. j
      OBVIOUS
  <2> HIDE DEF S
  <2> QED
      BY <2>1, <2>2, FS_Subset
<1>2. f \in Surjection(S, Singles(s, i, j))
    BY DEF Surjection, Singles
<1> QED
    BY <1>1, <1>2, FS_Surjection

LEMMA Grows ==
    ASSUME NEW S, NEW T, IsFiniteSet(T), S \subseteq T
    PROVE  IsFiniteSet(S) /\ Cardinality(S) \in Nat /\ Cardinality(T) \in Nat
           /\ Cardinality(S) <= Cardinality(T)
    BY FS_Subset, FS_CardinalityType

(* What is posted goes on from what was.                                    *)
Continues(s, t) == /\ s \in Seq(APost) /\ t \in Seq(APost) /\ Len(s) <= Len(t)
                   /\ \A i \in DOMAIN s : t[i] = s[i]

LEMMA Continued ==
    ASSUME NEW s, NEW t, Continues(s, t)
    PROVE  /\ Len(s) \in Nat /\ Len(t) \in Nat
           /\ DOMAIN s = 1 .. Len(s) /\ DOMAIN t = 1 .. Len(t)
           /\ Starts(t) \cap DOMAIN s = Starts(s)
           /\ \A i, j \in DOMAIN s : Singles(t, i, j) = Singles(s, i, j)
           /\ \A i \in DOMAIN s : /\ Singles(s, i, Len(s)) \subseteq Singles(t, i, Len(t))
                                 /\ IsFiniteSet(Singles(t, i, Len(t)))
<1>1. /\ Len(s) \in Nat /\ Len(t) \in Nat /\ Len(s) <= Len(t)
      /\ DOMAIN s = 1 .. Len(s) /\ DOMAIN t = 1 .. Len(t)
    BY DEF Continues
<1>2. \A i \in 1 .. Len(s) : t[i] = s[i]
    BY <1>1 DEF Continues
<1>3. Starts(t) \cap DOMAIN s = Starts(s)
  <2>1. \A i \in 1 .. Len(s) : i # 1 => i - 1 \in 1 .. Len(s)
      BY <1>1
  <2>2. \A i \in 1 .. Len(s) : i \in 1 .. Len(t)
      BY <1>1
  <2> QED
      BY <1>1, <1>2, <2>1, <2>2 DEF Starts
<1>4. ASSUME NEW i \in DOMAIN s, NEW j \in DOMAIN s
      PROVE  Singles(t, i, j) = Singles(s, i, j)
  <2>1. \A n \in i .. j : t[n] = s[n]
      BY <1>1, <1>2
  <2>2. {n \in i .. j : t[n].kind = "reply"} = {n \in i .. j : s[n].kind = "reply"}
      BY <2>1
  <2> QED
      BY <2>1, <2>2 DEF Singles
<1>5. ASSUME NEW i \in DOMAIN s
      PROVE  /\ Singles(s, i, Len(s)) \subseteq Singles(t, i, Len(t))
             /\ IsFiniteSet(Singles(t, i, Len(t)))
  <2>1. \A n \in i .. Len(s) : n \in i .. Len(t) /\ t[n] = s[n]
      BY <1>1, <1>2
  <2>2. Singles(s, i, Len(s)) \subseteq Singles(t, i, Len(t))
      BY <2>1 DEF Singles
  <2>3. i \in Nat
      BY <1>1
  <2> QED
      BY <1>1, <2>2, <2>3, SinglesFinite
<1> QED
    BY <1>1, <1>3, <1>4, <1>5

(* No pair begins, and nobody leaves: the count goes on.                    *)
LEMMA CountsOn ==
    ASSUME NEW s, NEW t, Continues(s, t), Starts(t) \subseteq DOMAIN s,
           NEW busy, NEW busy2, NEW left \in Nat, Cooldown \in Nat,
           Counting(s, busy, left), Spaced(s),
           \A x \in busy2 : \/ x \in busy
                            \/ \A i \in DOMAIN s : s[i].kind = "reply" => s[i].by # x
    PROVE  Counting(t, busy2, left) /\ Spaced(t)
<1>1. Starts(t) = Starts(s)
    BY Continued
<1>2. Spaced(t)
  <2> SUFFICES ASSUME NEW i \in Starts(s), NEW j \in Starts(s), i < j
               PROVE  Cardinality(Singles(t, i, j)) >= Cooldown
      BY <1>1 DEF Spaced
  <2>1. i \in DOMAIN s /\ j \in DOMAIN s
      BY DEF Starts
  <2>2. Singles(t, i, j) = Singles(s, i, j)
      BY <2>1, Continued
  <2> QED
      BY <2>2 DEF Spaced
<1>3. ASSUME NEW i \in Starts(s)
      PROVE  Cardinality(Singles(t, i, Len(t)) \ busy2) + left >= Cooldown
  <2> DEFINE S == Singles(s, i, Len(s))
             T == Singles(t, i, Len(t))
  <2>1. i \in DOMAIN s
      BY DEF Starts
  <2>2. S \subseteq T /\ IsFiniteSet(T)
      BY <2>1, Continued
  <2>3. S \ busy \subseteq T \ busy2
    <3>1. \A n \in i .. Len(s) : n \in DOMAIN s
        BY <2>1, Continued
    <3>2. \A x \in S : \E n \in DOMAIN s : s[n].kind = "reply" /\ s[n].by = x
        BY <3>1 DEF Singles
    <3> QED
        BY <2>2, <3>2
  <2>4. IsFiniteSet(T \ busy2)
      BY <2>2, FS_Difference
  <2> HIDE DEF S, T
  <2>5. Cardinality(S \ busy) <= Cardinality(T \ busy2) /\ Cardinality(S \ busy) \in Nat
        /\ Cardinality(T \ busy2) \in Nat
      BY <2>3, <2>4, Grows
  <2>6. Cardinality(S \ busy) + left >= Cooldown
      BY DEF Counting, S
  <2>7. Cardinality(T \ busy2) + left >= Cooldown
      BY <2>5, <2>6
  <2> QED
      BY <2>7 DEF T
<1> QED
    BY <1>1, <1>2, <1>3 DEF Counting

(* A single reply is counted: its sender is no longer busy.                 *)
LEMMA CountsDown ==
    ASSUME NEW s \in Seq(APost), NEW m, NEW left \in Nat, Cooldown \in Nat,
           Counting(s, {m}, left),
           \A i \in Starts(s) : m \in Singles(s, i, Len(s))
    PROVE  Counting(s, {}, IF left > 0 THEN left - 1 ELSE 0)
<1> SUFFICES ASSUME NEW i \in Starts(s)
             PROVE  Cardinality(Singles(s, i, Len(s)) \ {}) + (IF left > 0 THEN left - 1 ELSE 0)
                      >= Cooldown
    BY DEF Counting
<1> DEFINE S == Singles(s, i, Len(s))
<1>1. i \in Nat /\ Len(s) \in Nat
    BY DEF Starts
<1>2. IsFiniteSet(S) /\ m \in S
    BY <1>1, SinglesFinite
<1> HIDE DEF S
<1>3. Cardinality(S \ {m}) = Cardinality(S) - 1 /\ Cardinality(S) \in Nat
    BY <1>2, FS_RemoveElement, FS_CardinalityType
<1>4. Cardinality(S \ {m}) + left >= Cooldown
    BY DEF Counting, S
<1>5. S \ {} = S
    OBVIOUS
<1>6. Cardinality(S) + (IF left > 0 THEN left - 1 ELSE 0) >= Cooldown
    BY <1>3, <1>4
<1> QED
    BY <1>5, <1>6 DEF S

(* A pair begins when nothing is left to wait for.                          *)
LEMMA CountsAnew ==
    ASSUME NEW s \in Seq(APost), NEW p \in APost, p.kind = "pair", Cooldown \in Nat,
           Counting(s, {}, 0), Spaced(s)
    PROVE  Counting(Append(s, p), {}, Cooldown) /\ Spaced(Append(s, p))
<1> DEFINE t == Append(s, p)
           n == Len(s) + 1
<1>1. /\ t \in Seq(APost) /\ Len(t) = n /\ Len(s) \in Nat /\ DOMAIN t = DOMAIN s \cup {n}
      /\ \A i \in DOMAIN s : t[i] = s[i] /\ i \in Nat /\ i < n /\ i >= 1
      /\ t[n] = p
    OBVIOUS
<1>2. Continues(s, t)
    BY <1>1 DEF Continues
<1> HIDE DEF t, n
<1>3. Counting(t, {}, Cooldown)
  <2>1. ASSUME NEW i \in Starts(t) PROVE Cardinality(Singles(t, i, Len(t)) \ {}) \in Nat
    <3>1. i \in Nat
        BY <1>1 DEF Starts, n
    <3> QED
        BY <3>1, <1>1, SinglesFinite, FS_CardinalityType, FS_Difference DEF n
  <2> QED
      BY <2>1 DEF Counting
<1>4. ASSUME NEW i \in Starts(t), NEW j \in Starts(t), i < j
      PROVE  Cardinality(Singles(t, i, j)) >= Cooldown
  <2>1. i \in DOMAIN t /\ j \in DOMAIN t
      BY DEF Starts
  <2>2. CASE j \in DOMAIN s
    <3>1. i \in DOMAIN s
        BY <2>1, <2>2, <1>1, <1>4
    <3>2. i \in Starts(s) /\ j \in Starts(s) /\ Singles(t, i, j) = Singles(s, i, j)
        BY <2>2, <3>1, <1>2, Continued
    <3> QED
        BY <3>2, <1>4 DEF Spaced
  <2>3. CASE j = n
    <3>1. i \in DOMAIN s
        BY <2>1, <2>3, <1>1, <1>4
    <3>2. i \in Starts(s)
        BY <3>1, <1>2, Continued
    <3>3. Singles(t, i, n) = Singles(s, i, Len(s))
      <4>1. i \in Nat /\ i <= Len(s)
          BY <3>1, <1>1 DEF n
      <4>2. i .. n = (i .. Len(s)) \cup {n}
          BY <4>1, <1>1 DEF n
      <4>3. \A k \in i .. Len(s) : t[k] = s[k]
          BY <4>1, <3>1, <1>1
      <4>4. t[n].kind # "reply"
          BY <1>1
      <4>5. {k \in i .. n : t[k].kind = "reply"} = {k \in i .. Len(s) : s[k].kind = "reply"}
          BY <4>2, <4>3, <4>4
      <4> QED
          BY <4>5, <4>3 DEF Singles
    <3>4. Singles(s, i, Len(s)) \ {} = Singles(s, i, Len(s))
        OBVIOUS
    <3>5. Cardinality(Singles(s, i, Len(s))) + 0 >= Cooldown
        BY <3>2, <3>4 DEF Counting
    <3>6. Cardinality(Singles(s, i, Len(s))) \in Nat
        BY <3>1, <1>1, SinglesFinite, FS_CardinalityType
    <3> QED
        BY <2>3, <3>3, <3>5, <3>6
  <2> QED
      BY <2>1, <2>2, <2>3, <1>1
<1> QED
    BY <1>3, <1>4 DEF Spaced, t

LEMMA BusyMoves ==
    ASSUME Typed, Typed', NEW w \in Workers, History, Going(w), Advances(w), PipelineAssumption,
           Elsewhere(w) \/ Within(w) \/ Locks(w) \/ Unlocks(w),
           NEW c \in Places, NEW x \in Busy(c)'
    PROVE  \/ x \in Busy(c)
           \/ \A i \in DOMAIN posted[c] : posted[c][i].kind = "reply" => posted[c][i].by # x
<1>1. PICK v \in Workers : lock'[c] = v /\ At(v, "sending")' /\ ~work'[v].pair /\ x = work'[v].m
    BY DEF Busy
<1>n. v # NoOne /\ lock \in [Places -> Workers \cup {NoOne}]
    BY ConstantsFit DEF Typed
<1>2. CASE v # w
  <2>1. lock[c] = v /\ work'[v] = work[v]
      BY <1>1, <1>2, <1>n DEF Going, Elsewhere, Within, Locks, Unlocks
  <2> QED
      BY <1>1, <2>1 DEF Busy, At
<1>3. CASE v = w
  <2>1. Under(w)' /\ work'[w].m = work[w].m /\ work[w] \in AHandle /\ Kind(w)' = "reply"
      BY <1>1, <1>3 DEF Going, Under, At, Idle, Kind, ReplyKind
  <2>2. CASE Within(w)
    <3>1. lock[c] = w /\ At(w, "sending") /\ Kind(w) = "reply"
        BY <1>1, <1>3, <2>1, <2>2 DEF Within, Advances, At
    <3>2. ~work[w].pair
        BY <3>1 DEF Kind, ReplyKind, At
    <3> QED
        BY <1>1, <1>3, <2>1, <3>1, <3>2 DEF Busy
  <2>3. CASE Locks(w)
    <3>1. "reply" \notin Sent(w) /\ ~At(w, "idle")
        BY <2>1, <2>3 DEF Advances, At, AHandle, Phases
    <3> QED
        BY <1>1, <1>3, <2>1, <3>1 DEF History, Answered
  <2> QED
      BY <2>1, <2>2, <2>3 DEF Elsewhere, Unlocks
<1> QED
    BY <1>2, <1>3

(* The steps that touch a cooldown.                                         *)
Commits(w) == SendChunk(w) /\ work[w].pair /\ work[w].chunks = 2
LEMMA CooldownMoves ==
    ASSUME NEW w \in Workers, Handle(w) \/ CallTool(w), ~Take(w)
    PROVE  \/ remaining' = remaining /\ ~Commits(w)
           \/ Commits(w) /\ remaining' = [remaining EXCEPT ![Target(w)] = Cooldown]
           \/ /\ EndSend(w) /\ Counts(w) /\ ~Commits(w)
              /\ remaining' = [remaining EXCEPT ![Target(w)] = IF @ > 0 THEN @ - 1 ELSE 0]
<1>1. CASE SendChunk(w)
    BY <1>1 DEF SendChunk, Commits
<1>2. CASE EndSend(w) /\ ~SendChunk(w)
    BY <1>2 DEF EndSend, Commits
<1>3. CASE ~SendChunk(w) /\ ~EndSend(w)
    BY <1>3 DEF Handle, BeginBuild, EndBuild, BuildRaises, NoCross, ClaimFails,
              BeginAnnounce, SendFails, ToolEnds, generate, WrapUp, BeginSend, SendRaises, Commits,
              BeginCopy, CopyChunk, EndCopy, Claim, NothingToAnnounce, Announce, GiveBack,
              CallTool, OwnHandleOnly
<1> QED
    BY <1>1, <1>2, <1>3

(* Where all was posted under the place's own lock, whoever posts holds it. *)
LEMMA PostsOwn ==
    ASSUME Typed, Typed', NEW w \in Workers, Going(w), LocksFit, PipelineAssumption,
           Posts(w), NEW c \in Places, posted'[c] # posted[c], Own(c)'
    PROVE  PostsUnder(w, c) /\ lock[c] = w /\ c = Held(w)
<1>1. PostsUnder(w, c)
    BY PostsAt
<1>2. PICK sure \in BOOLEAN : Post(c, w, Kind(w), Held(w), sure)
    BY <1>1 DEF PostsUnder
<1>3. Held(w) = c
  <2>1. /\ DOMAIN posted'[c] = DOMAIN posted[c] \cup {Len(posted[c]) + 1}
        /\ posted'[c][Len(posted[c]) + 1] =
             [by |-> work[w].m, kind |-> Kind(w), guard |-> Held(w), sure |-> sure]
      BY <1>2, PostAppends
  <2> QED
      BY <2>1 DEF Own
<1> QED
    BY <1>1, <1>3 DEF PostsUnder, Within, Unlocks, LocksFit

LEMMA OwnBefore ==
    ASSUME Typed, Typed', NEW w \in Workers, posted' = posted \/ Posts(w), NEW c \in Places
    PROVE  /\ Continues(posted[c], posted'[c])
           /\ Own(c)' => Own(c)
           /\ Starts(posted'[c]) \subseteq DOMAIN posted[c]
              \/ \E p \in APost : posted'[c] = Append(posted[c], p)
<1>1. posted[c] \in Seq(APost) /\ posted'[c] \in Seq(APost)
    BY DEF Typed
<1>2. CASE posted'[c] = posted[c]
    BY <1>1, <1>2 DEF Continues, Own, Starts
<1>3. CASE posted'[c] # posted[c]
  <2>1. PICK k, g, sure : Post(c, w, k, g, sure)
      BY <1>3, PostsAt DEF PostsUnder
  <2>2. /\ DOMAIN posted'[c] = DOMAIN posted[c] \cup {Len(posted[c]) + 1}
        /\ \A i \in DOMAIN posted[c] : posted'[c][i] = posted[c][i]
        /\ posted'[c][Len(posted[c]) + 1] = [by |-> work[w].m, kind |-> k, guard |-> g, sure |-> sure]
        /\ Len(posted'[c]) = Len(posted[c]) + 1 /\ Len(posted[c]) \in Nat
      BY <2>1, PostAppends
  <2>3. posted'[c] = Append(posted[c], [by |-> work[w].m, kind |-> k, guard |-> g, sure |-> sure])
      BY <2>1 DEF Post, Typed
  <2>4. [by |-> work[w].m, kind |-> k, guard |-> g, sure |-> sure] \in APost
    <3>1. Len(posted[c]) + 1 \in DOMAIN posted'[c]
        BY <2>2
    <3> QED
        BY <3>1, <2>2, <1>1
  <2> QED
      BY <1>1, <2>2, <2>3, <2>4 DEF Continues, Own
<1> QED
    BY <1>2, <1>3

(* A post that is not the first half of a pair is no new pair.              *)
LEMMA NoNewPair ==
    ASSUME Typed, Typed', NEW w \in Workers, Going(w), LocksFit, PipelineAssumption,
           Handle(w) \/ CallTool(w), ~Take(w), PairBegins(w), ~Commits(w),
           Posts(w) \/ posted' = posted, NEW c \in Places, Own(c)'
    PROVE  Starts(posted'[c]) \subseteq DOMAIN posted[c]
<1>1. posted[c] \in Seq(APost) /\ posted'[c] \in Seq(APost) /\ Own(c)
    BY OwnBefore DEF Typed
<1>2. CASE posted'[c] = posted[c]
    BY <1>2 DEF Starts
<1>3. CASE posted'[c] # posted[c]
  <2>1. PostsUnder(w, c) /\ c = Held(w)
      BY <1>3, PostsOwn
  <2>2. PICK sure \in BOOLEAN : Post(c, w, Kind(w), Held(w), sure)
      BY <2>1 DEF PostsUnder
  <2>3. /\ DOMAIN posted'[c] = DOMAIN posted[c] \cup {Len(posted[c]) + 1}
        /\ \A i \in DOMAIN posted[c] : posted'[c][i] = posted[c][i]
        /\ posted'[c][Len(posted[c]) + 1] =
             [by |-> work[w].m, kind |-> Kind(w), guard |-> Held(w), sure |-> sure]
      BY <2>2, PostAppends
  <2>4. CASE Kind(w) # "pair" \/ ~sure
      BY <2>3, <2>4 DEF Starts
  <2>5. CASE Kind(w) = "pair" /\ sure
    <3>2. At(w, "sending") /\ work[w].pair /\ c = Home(w)
      <4>1. Under(w)
          BY <2>1 DEF PostsUnder, Within, Unlocks
      <4> QED
        <5>1. ~At(w, "copying") /\ ~At(w, "announcing") /\ work[w].pair
            BY <2>5 DEF Kind, ReplyKind
        <5>2. ~At(w, "building")
          <6>1. ~At(w, "building") \/ Sent(w) = {}
              BY DEF Sent, At
          <6> QED
              BY <6>1, <2>1 DEF PostsUnder
        <5> QED
            BY <5>1, <5>2, <4>1, <2>1 DEF Under, Held, At
    <3>r. ~SendRaises(w)
      <4>1. SUFFICES ASSUME SendRaises(w) PROVE FALSE
          OBVIOUS
      <4>2. Target(w) \in Places
          BY ConstantsFit DEF Going, AHandle, Target, Home
      <4>3. Post(Target(w), w, ReplyKind(w), Home(w), FALSE)
          BY <4>1, <1>3 DEF SendRaises, SendFails
      <4>4. c = Target(w)
          BY <4>2, <4>3, <1>3 DEF Post, Typed
      <4>5. posted'[c][Len(posted[c]) + 1] =
              [by |-> work[w].m, kind |-> ReplyKind(w), guard |-> Home(w), sure |-> FALSE]
        <5> DEFINE k == ReplyKind(w)
                   g == Home(w)
                   f == FALSE
        <5>1. Post(c, w, k, g, f)
            BY <4>3, <4>4
        <5> HIDE DEF k, g, f
        <5>2. posted'[c][Len(posted[c]) + 1] =
                [by |-> work[w].m, kind |-> k, guard |-> g, sure |-> f]
            BY <5>1, PostAppends
        <5> QED
            BY <5>2 DEF k, g, f
      <4> QED
          BY <4>5, <2>3, <2>5
    <3>3. SendChunk(w)
        BY <3>2, <3>r, <1>3 DEF Handle, BeginBuild, EndBuild, BuildRaises, NoCross, ClaimFails,
              BeginAnnounce, ToolEnds, generate, WrapUp, BeginSend,
              EndSend, BeginCopy, CopyChunk, EndCopy, Claim, NothingToAnnounce, Announce, GiveBack,
              CallTool, At
    <3>4. work[w].chunks < 2
      <4>1. work[w].chunks \in Nat /\ work[w].chunks <= 2 /\ work[w].chunks # 2
          BY <3>2, <3>3 DEF PairBegins, Commits, Going, AHandle
      <4> QED
          BY <4>1
    <3>5. posted[c] # << >> /\ posted[c][Len(posted[c])].by = work[w].m
        BY <3>2, <3>4, <1>1 DEF PairBegins
    <3>6. Len(posted[c]) \in DOMAIN posted[c] /\ Len(posted[c]) + 1 # 1
          /\ (Len(posted[c]) + 1) - 1 = Len(posted[c])
        BY <3>5, <1>1
    <3>7. Len(posted[c]) + 1 \notin Starts(posted'[c])
        BY <2>3, <3>5, <3>6 DEF Starts
    <3> QED
        BY <2>3, <3>7 DEF Starts
  <2> QED
      BY <2>4, <2>5
<1> QED
    BY <1>2, <1>3

LEMMA PlaceCounts ==
    ASSUME Typed, Typed', NEW w \in Workers, Going(w), Advances(w), LocksFit, History, PairsFit,
           Elsewhere(w) \/ Within(w) \/ Locks(w) \/ Unlocks(w), PipelineAssumption,
           Handle(w) \/ CallTool(w), ~Take(w),
           Posts(w) \/ posted' = posted, NEW c \in Places, Own(c)'
    PROVE  Counting(posted'[c], Busy(c)', remaining'[c]) /\ Spaced(posted'[c])
<1> DEFINE s == posted[c]
<1>1. /\ Continues(s, posted'[c]) /\ Own(c) /\ s \in Seq(APost)
      /\ Counting(s, Busy(c), remaining[c]) /\ Spaced(s)
      /\ remaining[c] \in Nat /\ Cooldown \in Nat /\ Target(w) \in Places
  <2>1. Continues(s, posted'[c]) /\ Own(c) /\ s \in Seq(APost)
      BY OwnBefore DEF Typed
  <2>2. remaining[c] \in 0 .. Cooldown /\ Cooldown \in Nat /\ Target(w) \in Places
      BY ConstantsFit DEF Typed, Going, AHandle, Target, Home
  <2> QED
      BY <2>1, <2>2 DEF PairsFit
<1>2. CASE remaining'[c] = remaining[c] /\ ~Commits(w)
  <2>1. Starts(posted'[c]) \subseteq DOMAIN s
      BY <1>2, NoNewPair DEF PairsFit
  <2>2. \A x \in Busy(c)' : \/ x \in Busy(c)
                            \/ \A i \in DOMAIN s : s[i].kind = "reply" => s[i].by # x
      BY BusyMoves
  <2>3. PICK r, t, b, d, n : /\ r = s /\ t = posted'[c] /\ n = remaining[c]
                            /\ b = Busy(c) /\ d = Busy(c)'
      OBVIOUS
  <2>4. /\ Continues(r, t) /\ Starts(t) \subseteq DOMAIN r
        /\ n \in Nat /\ Cooldown \in Nat /\ Counting(r, b, n) /\ Spaced(r)
      BY <1>1, <2>1, <2>3
  <2>6. \A x \in d : x \in b \/ \A i \in DOMAIN r : r[i].kind = "reply" => r[i].by # x
      BY <2>2, <2>3
  <2>5. Counting(t, d, n) /\ Spaced(t)
      BY <2>4, <2>6, CountsOn
  <2> QED
      BY <1>2, <2>3, <2>5
<1>3. CASE Commits(w) /\ remaining' = [remaining EXCEPT ![Target(w)] = Cooldown]
  <2>1. /\ At(w, "sending") /\ work[w].pair /\ ~work[w].thread
        /\ remaining[Home(w)] = 0 /\ Target(w) = Home(w)
        /\ Post(Home(w), w, "pair", Home(w), TRUE)
      BY <1>3 DEF Commits, SendChunk, PairsFit, PairBegins, Target, ReplyKind
  <2>2. lock[Home(w)] = w /\ lock' = lock /\ work'[w].pair = work[w].pair
    <3>1. work' = [work EXCEPT ![w].chunks = @ - 1] /\ lock' = lock
        BY <1>3 DEF Commits, SendChunk
    <3>2. Under(w) /\ Held(w) = Home(w)
        BY <2>1 DEF Under, Held, At
    <3>3. lock[Home(w)] = w
        BY <3>2 DEF LocksFit
    <3>4. work'[w] = [work[w] EXCEPT !.chunks = @ - 1] /\ work[w] \in AHandle
        BY <3>1 DEF Typed, Going
    <3>5. work'[w].pair = work[w].pair
        BY <3>4 DEF AHandle
    <3> QED
        BY <3>1, <3>3, <3>5
  <2>3. CASE c = Home(w)
    <3>1. Busy(c) = {} /\ Busy(c)' = {}
        BY <2>1, <2>2, <2>3 DEF Busy
    <3>2. PICK p \in APost : posted'[c] = Append(s, p) /\ p.kind = "pair"
      <4> DEFINE p == [by |-> work[w].m, kind |-> "pair", guard |-> Home(w), sure |-> TRUE]
      <4>1. p \in APost
          BY <2>1, <1>1 DEF APost, Kinds, Going, AHandle
      <4>2. posted'[c] = Append(s, p)
          BY <2>1, <2>3 DEF Post, Typed
      <4> QED
          BY <4>1, <4>2
    <3>3. remaining[c] = 0 /\ remaining'[c] = Cooldown
        BY <2>1, <2>3, <1>3 DEF Typed
    <3> QED
        BY <1>1, <3>1, <3>2, <3>3, CountsAnew
  <2>4. CASE c # Home(w)
    <3>1. posted'[c] = s /\ remaining'[c] = remaining[c]
        BY <2>1, <2>4, <1>3 DEF Post, Typed
    <3>2. \A x \in Busy(c)' : \/ x \in Busy(c)
                              \/ \A i \in DOMAIN s : s[i].kind = "reply" => s[i].by # x
        BY BusyMoves
    <3>3. Starts(posted'[c]) \subseteq DOMAIN s
        BY <3>1 DEF Starts
    <3> QED
        BY <1>1, <3>1, <3>2, <3>3, CountsOn
  <2> QED
      BY <2>3, <2>4
<1>4. CASE /\ EndSend(w) /\ Counts(w) /\ Target(w) = c
           /\ remaining' = [remaining EXCEPT ![Target(w)] = IF @ > 0 THEN @ - 1 ELSE 0]
  <2> DEFINE m == work[w].m
  <2>1. /\ At(w, "sending") /\ ~work[w].pair /\ posted' = posted
        /\ lock' = [lock EXCEPT ![Home(w)] = NoOne]
      BY <1>4 DEF EndSend, Counts, Release
  <2>2. PICK n \in DOMAIN s : s[n].by = m
      BY <1>4 DEF Counts
  <2>3. Kind(w) = "reply" /\ Sent(w) = {"reply"} /\ ~At(w, "idle")
      BY <2>1 DEF Kind, ReplyKind, Sent, At
  <2>4. s[n].kind = "reply"
      BY <2>2, <2>3 DEF History, Answered
  <2>5. c = Home(w)
    <3>1. s[n].guard = Guard(m, "reply") /\ s[n].guard = c
        BY <2>2, <2>4, <1>1 DEF History, Guarded, Own
    <3> QED
        BY <3>1 DEF Guard, Home
  <2>6. lock[c] = w /\ lock'[c] = NoOne /\ NoOne \notin Workers
      BY <2>1, <2>5, ConstantsFit DEF LocksFit, Under, Held, At, Typed
  <2>7. Busy(c) = {m} /\ Busy(c)' = {}
      BY <2>1, <2>6 DEF Busy
  <2>8. \A i \in Starts(s) : m \in Singles(s, i, Len(s))
    <3> SUFFICES ASSUME NEW i \in Starts(s) PROVE m \in Singles(s, i, Len(s))
        OBVIOUS
    <3>1. i \in DOMAIN s /\ s[i].kind = "pair"
        BY DEF Starts
    <3>2. i \in 1 .. Len(s) /\ n \in 1 .. Len(s) /\ Len(s) \in Nat
        BY <1>1, <3>1, <2>2
    <3>5. \A x, y \in DOMAIN s :
             /\ x < y /\ s[x].guard = c /\ s[y].guard = c
             /\ s[x].by = m /\ s[x].kind = "reply"
             => s[y].kind = "reply"
        BY <2>3, <2>6 DEF History, Last
    <3>3. ~(n < i)
        BY <3>1, <3>5, <2>2, <2>4, <1>1 DEF Own
    <3>4. n \in i .. Len(s)
        BY <3>2, <3>3
    <3> QED
        BY <3>4, <2>2, <2>4 DEF Singles
  <2>9. Counting(s, {}, IF remaining[c] > 0 THEN remaining[c] - 1 ELSE 0)
      BY <1>1, <2>7, <2>8, CountsDown
  <2>10. remaining'[c] = IF remaining[c] > 0 THEN remaining[c] - 1 ELSE 0
      BY <1>4 DEF Typed
  <2> QED
      BY <1>1, <2>1, <2>7, <2>9, <2>10
<1>5. CASE /\ EndSend(w) /\ Counts(w) /\ Target(w) # c /\ ~Commits(w)
           /\ remaining' = [remaining EXCEPT ![Target(w)] = IF @ > 0 THEN @ - 1 ELSE 0]
  <2>1. remaining'[c] = remaining[c]
      BY <1>5 DEF Typed
  <2> QED
      BY <2>1, <1>2, <1>5
<1> QED
    BY <1>2, <1>3, <1>4, <1>5, CooldownMoves

(* A pair under way is disturbed by nobody else: its sender has the lock.   *)
LEMMA OthersLeavePairs ==
    ASSUME Typed, Typed', NEW w \in Workers, Going(w), LocksFit, PairsFit, PipelineAssumption,
           Handle(w) \/ CallTool(w), ~Take(w), Posts(w) \/ posted' = posted,
           NEW v \in Workers, v # w
    PROVE  PairBegins(v)'
<1>1. work'[v] = work[v] /\ PairBegins(v)
    BY DEF Going, PairsFit
<1>2. ASSUME At(v, "sending"), work[v].pair
      PROVE  \E c \in Places :
                /\ c = Home(v) /\ ~work[v].thread /\ work[v].chunks <= 2
                /\ work[v].chunks = 2 => remaining'[c] = 0
                /\ work[v].chunks < 2 /\ Own(c)' =>
                     posted'[c] # << >> /\ posted'[c][Len(posted'[c])].by = work[v].m
  <2>1. PICK c \in Places : c = Home(v)
    <3>1. work[v] \in AHandle
        BY <1>2, HandleFields DEF Typed, At
    <3> QED
        BY <3>1, ConstantsFit DEF AHandle, Home
  <2>2. lock[c] = v /\ lock[c] # w /\ lock[c] # NoOne
      BY <1>2, <2>1, ConstantsFit DEF LocksFit, Under, Held, At
  <2>3. ASSUME Commits(w) PROVE Target(w) # c
    <3>1. At(w, "sending") /\ work[w].pair
        BY <2>3 DEF Commits, SendChunk
    <3>2. ~work[w].thread
        BY <3>1 DEF PairsFit, PairBegins
    <3>3. lock[Home(w)] = w
        BY <3>1 DEF LocksFit, Under, Held, At
    <3> QED
        BY <3>2, <3>3, <2>2 DEF Target
  <2>4. ASSUME work[v].chunks = 2 PROVE remaining'[c] = 0
    <3>1. remaining[c] = 0 /\ remaining \in [Places -> 0 .. Cooldown]
        BY <1>1, <1>2, <2>1, <2>4 DEF PairBegins, Typed
    <3>2. \/ remaining' = remaining
          \/ remaining' = [remaining EXCEPT ![Target(w)] = IF @ > 0 THEN @ - 1 ELSE 0]
          \/ Target(w) # c /\ remaining' = [remaining EXCEPT ![Target(w)] = Cooldown]
        BY <2>3, CooldownMoves
    <3> QED
        BY <3>1, <3>2
  <2>5. ASSUME work[v].chunks < 2, Own(c)'
        PROVE  posted'[c] # << >> /\ posted'[c][Len(posted'[c])].by = work[v].m
    <3>1. Own(c)
        BY <2>5, OwnBefore
    <3>2. posted[c] # << >> /\ posted[c][Len(posted[c])].by = work[v].m
        BY <1>1, <1>2, <2>1, <2>5, <3>1 DEF PairBegins
    <3>3. posted'[c] = posted[c]
        BY <2>2, <2>5, PostsOwn
    <3> QED
        BY <3>2, <3>3
  <2> QED
      BY <1>1, <1>2, <2>1, <2>4, <2>5 DEF PairBegins
<1>3. Home(v)' = Home(v)
    BY <1>1 DEF Home
<1> QED
    BY <1>1, <1>2, <1>3 DEF PairBegins, At

LEMMA OwnPair ==
    ASSUME Typed, Typed', NEW w \in Workers, Going(w), LocksFit, PairsFit, PipelineAssumption,
           Handle(w) \/ CallTool(w), ~Take(w)
    PROVE  PairBegins(w)'
<1>1. /\ work[w] \in AHandle /\ PairBegins(w) /\ Home(w) \in Places
    BY ConstantsFit DEF Going, PairsFit, AHandle, Home
<1> USE <1>1 DEF AHandle
<1>2. ASSUME work'[w].pc \notin {"build", "building", "llm", "tool", "send", "sending"}
      PROVE  PairBegins(w)'
    BY <1>2 DEF PairBegins, At
<1>i. \A o : Over(w, o) => work'[w] = Idle
    BY DEF Over, Idle, Typed
<1>3. CASE EndBuild(w)
  <2>1. work'[w] = Idle \/ (work'[w].pc = "llm" /\ work'[w].pair = work[w].pair)
      BY <1>3 DEF EndBuild, Over, Typed
  <2> QED
      BY <1>2, <1>3, <2>1 DEF EndBuild, At, PairBegins, Idle
<1>b. CASE BeginBuild(w)
  <2>1. work'[w].pc = "building" /\ work'[w].pair = work[w].pair
      BY <1>b DEF BeginBuild, Typed
  <2> QED
      BY <1>b, <2>1 DEF BeginBuild, At, PairBegins
<1>4. CASE CallTool(w)
  <2>1. PICK sandbox \in BOOLEAN :
           work' = [work EXCEPT ![w].pc = "tool", ![w].turns = @ + 1, ![w].hint = {},
                                ![w].thread = @ \/ sandbox]
      BY <1>4 DEF CallTool
  <2>2. work'[w].pc = "tool" /\ work'[w].pair = work[w].pair
      BY <2>1 DEF Typed
  <2> QED
      BY <1>4, <2>2 DEF CallTool, At, PairBegins
<1>5. CASE ToolEnds(w)
  <2>1. work'[w].pc = "llm" /\ work'[w].pair = work[w].pair
      BY <1>5 DEF ToolEnds, Typed
  <2> QED
      BY <1>5, <2>1 DEF ToolEnds, At, PairBegins
<1>6. CASE generate(w) \/ WrapUp(w)
  <2>0. ~work[w].pair
      BY <1>6 DEF generate, WrapUp, At, PairBegins
  <2>1. CASE Answers(w)
    <3>1. PICK n \in ReplySizes, pair \in BOOLEAN :
        /\ pair => n = 2
        /\ work' = [work EXCEPT ![w].pc = "send", ![w].turns = 0, ![w].tools = 0,
                                ![w].hint = {}, ![w].chunks = n, ![w].pair = pair]
        BY <2>1 DEF Answers
    <3>2. work'[w].pc = "send" /\ work'[w].chunks = n /\ work'[w].pair = pair
        BY <3>1 DEF Typed
    <3> QED
        BY <3>1, <3>2 DEF PairBegins, At
  <2>2. CASE Errs(w)
    <3>1. work'[w].pc \in {"send", "copy", "after"} /\ work'[w].pair = work[w].pair
        BY <2>2 DEF Errs, AfterReply, Typed
    <3> QED
        BY <2>0, <3>1 DEF PairBegins, At
  <2> QED
      BY <1>6, <2>1, <2>2 DEF generate, WrapUp
<1>7. CASE BeginSend(w)
  <2>1. /\ work'[w].pc = "sending" /\ work'[w].thread = work[w].thread
        /\ work'[w].chunks = work[w].chunks /\ work'[w].m = work[w].m
        /\ work'[w].pair = (reply_parts(w, MayPair(w)) = 2)
        /\ remaining' = remaining
      BY <1>7 DEF BeginSend, Typed
  <2>2. CASE ~work'[w].pair
      BY <2>1, <2>2 DEF PairBegins, At
  <2>3. CASE work'[w].pair
    <3>1. work[w].pair /\ MayPair(w)
      <4>1. reply_parts(w, MayPair(w)) = 2
          BY <2>1, <2>3
      <4> QED
          BY <4>1 DEF reply_parts
    <3>2. ~work[w].thread /\ remaining[Home(w)] = 0 /\ work[w].chunks = 2
        BY <3>1, <1>7 DEF MayPair, available, Target, BeginSend, PairBegins
    <3> QED
        BY <2>1, <3>2 DEF PairBegins, At, Home
  <2> QED
      BY <2>1, <2>2, <2>3
<1>8. CASE SendChunk(w)
  <2>1. /\ work'[w].pc = "sending" /\ work'[w].thread = work[w].thread /\ work[w].pc = "sending"
        /\ work'[w].chunks = work[w].chunks - 1 /\ work'[w].m = work[w].m
        /\ work'[w].pair = work[w].pair
      BY <1>8 DEF SendChunk, At, Typed
  <2>2. CASE ~work[w].pair
      BY <2>1, <2>2 DEF PairBegins, At
  <2>3. CASE work[w].pair
    <3>1. ~work[w].thread /\ work[w].chunks <= 2 /\ work[w].chunks \in Nat
        BY <2>1, <2>3 DEF PairBegins, At
    <3>2. work'[w].chunks < 2 /\ work'[w].chunks <= 2 /\ work'[w].chunks # 2
        BY <2>1, <3>1
    <3>3. Post(Home(w), w, "pair", Home(w), TRUE)
        BY <1>8, <2>3, <3>1 DEF SendChunk, Target, ReplyKind
    <3>4. /\ posted'[Home(w)] = Append(posted[Home(w)], [by |-> work[w].m, kind |-> "pair", guard |-> Home(w), sure |-> TRUE])
          /\ posted[Home(w)] \in Seq(APost)
        BY <3>3 DEF Post, Typed
    <3>5. /\ posted'[Home(w)] # << >>
          /\ posted'[Home(w)][Len(posted'[Home(w)])].by = work[w].m
      <4> DEFINE p == [by |-> work[w].m, kind |-> "pair", guard |-> Home(w), sure |-> TRUE]
      <4>1. p.by = work[w].m /\ posted'[Home(w)] = Append(posted[Home(w)], p)
          BY <3>4
      <4>2. p \in APost
          BY DEF APost, Kinds
      <4> HIDE DEF p
      <4>3. PICK t : t = posted'[Home(w)]
          OBVIOUS
      <4>4. t = Append(posted[Home(w)], p)
          BY <4>1, <4>3
      <4>5. Len(t) = Len(posted[Home(w)]) + 1 /\ t[Len(t)] = p /\ t # << >>
          BY <3>4, <4>2, <4>4, SMTT(20)
      <4> QED
          BY <4>1, <4>3, <4>5
    <3> QED
        BY <2>1, <3>1, <3>2, <3>5 DEF PairBegins, At, Home
  <2> QED
      BY <2>2, <2>3
<1>9. CASE \/ SendRaises(w) \/ NothingToAnnounce(w) \/ GiveBack(w)
           \/ BuildRaises(w) \/ NoCross(w) \/ ClaimFails(w)
  <2>1. work'[w] = Idle
      BY <1>9, <1>i DEF SendRaises, NothingToAnnounce, GiveBack, BuildRaises, NoCross, ClaimFails
  <2> QED
      BY <1>2, <2>1 DEF Idle
<1>10. CASE EndSend(w) \/ EndCopy(w)
  <2>1. work'[w].pc \in {"copy", "after"}
      BY <1>10 DEF EndSend, EndCopy, AfterReply, Typed
  <2> QED
      BY <1>2, <2>1
<1>11. CASE BeginCopy(w) \/ CopyChunk(w)
  <2>1. work'[w].pc \in {"copying", "after"}
    <3>1. CASE BeginCopy(w)
        BY <3>1 DEF BeginCopy, Typed
    <3>2. CASE CopyChunk(w)
      <4>1. work' = [work EXCEPT ![w].chunks = @ - 1] /\ At(w, "copying")
          BY <3>2 DEF CopyChunk
      <4> QED
          BY <4>1 DEF At, Typed
    <3> QED
        BY <1>11, <3>1, <3>2
  <2> QED
      BY <1>2, <2>1
<1>12. CASE Claim(w) \/ BeginAnnounce(w) \/ Announce(w)
  <2>1. work'[w] = Idle \/ work'[w].pc \in {"announce", "announcing", "give_back"}
    <3>1. CASE Over(w, "replied")
        BY <3>1, <1>i
    <3>2. CASE \/ work' = [work EXCEPT ![w].pc = "announce", ![w].kept = seen]
               \/ work' = [work EXCEPT ![w].pc = "announcing"]
               \/ work' = [work EXCEPT ![w].pc = "give_back"]
        BY <3>2 DEF Typed
    <3> QED
        BY <1>12, <3>1, <3>2 DEF Claim, BeginAnnounce, Announce
  <2> QED
      BY <1>2, <2>1 DEF Idle
<1> QED
    BY <1>3, <1>b, <1>4, <1>5, <1>6, <1>7, <1>8, <1>9, <1>10, <1>11, <1>12 DEF Handle

LEMMA PairsInitially == ASSUME Init, PipelineAssumption PROVE PairsFit
<1>1. \A w \in Workers : PairBegins(w)
    BY DEF Init, PairBegins, At, Idle
<1>2. \A c \in Places : posted[c] = << >> /\ Starts(posted[c]) = {}
    BY DEF Init, Starts
<1> QED
    BY <1>1, <1>2 DEF PairsFit, Counting, Spaced

LEMMA PairsStep ==
    ASSUME Typed, Typed', OneEach, LocksFit, History, PairsFit, [Next]_vars, PipelineAssumption
    PROVE  PairsFit'
<1>1. ASSUME NEW w \in Workers, Handle(w) \/ CallTool(w), ~Take(w) PROVE PairsFit'
  <2>1. /\ Going(w) /\ Advances(w)
        /\ Elsewhere(w) \/ Within(w) \/ Locks(w) \/ Unlocks(w)
        /\ posted' = posted \/ Posts(w)
      BY <1>1, HandleIsGoing, LockMoves, StageMoves
  <2>2. \A v \in Workers : PairBegins(v)'
      BY <1>1, <2>1, OwnPair, OthersLeavePairs
  <2>3. ASSUME NEW c \in Places, Own(c)'
        PROVE  Counting(posted'[c], Busy(c)', remaining'[c]) /\ Spaced(posted'[c])
      BY <1>1, <2>1, <2>3, PlaceCounts
  <2> QED
      BY <2>2, <2>3 DEF PairsFit
<1>2. ASSUME posted' = posted, lock' = lock, remaining' = remaining, NEW w,
             \A v \in Workers \ {w} : work'[v] = work[v],
             w \in Workers => /\ work'[w].pc \in {"build", "idle"} \/ work'[w] = work[w]
                              /\ work'[w].pc = "build" => ~work'[w].pair
                              /\ work[w].pc = "idle"
      PROVE  PairsFit'
  <2>1. ASSUME NEW v \in Workers PROVE PairBegins(v)'
    <3>1. CASE v # w
      <4>1. work'[v] = work[v] /\ PairBegins(v)
          BY <1>2, <3>1 DEF PairsFit
      <4>2. Home(v)' = Home(v) /\ (Own(Home(v))' <=> Own(Home(v)))
          BY <4>1, <1>2 DEF Home, Own
      <4> QED
          BY <4>1, <4>2, <1>2 DEF PairBegins, At
    <3>2. CASE v = w
        BY <1>2, <3>2 DEF PairBegins, At
    <3> QED
        BY <3>1, <3>2
  <2>2. ASSUME NEW c \in Places PROVE Busy(c)' = Busy(c)
    <3>1. \A v \in Workers : /\ lock[c] = v => v # w
                             /\ At(v, "sending")' /\ ~work'[v].pair <=> At(v, "sending") /\ ~work[v].pair
        BY <1>2 DEF At, LocksFit, Under
    <3> QED
        BY <1>2, <3>1 DEF Busy
  <2> QED
      BY <1>2, <2>1, <2>2 DEF PairsFit, Own
<1>3. ASSUME NEW w \in Workers, Take(w) PROVE PairsFit'
  <2>1. \/ work' = work
        \/ /\ \A v \in Workers \ {w} : work'[v] = work[v]
           /\ work'[w].pc = "build" /\ ~work'[w].pair
      BY <1>3 DEF Take, Typed
  <2> QED
      BY <1>2, <1>3, <2>1 DEF Take, At
<1>4. ASSUME \/ \E m \in Messages : Receive(m) \/ Ignore(m) \/ Enqueue(m)
             \/ CallBegins \/ CallEnds \/ UNCHANGED vars
      PROVE  PairsFit'
  <2>1. posted' = posted /\ lock' = lock /\ remaining' = remaining /\ work' = work
      BY <1>4 DEF Receive, Ignore, Enqueue, CallBegins, CallEnds, vars
  <2> QED
      BY <2>1 DEF PairsFit, PairBegins, At, Home, Own, Busy
<1> QED
    BY <1>1, <1>3, <1>4 DEF Next

--------------------------------------------------------------------------------
(* The announcement of a version. *)

(* The announcements whose send came back, by place and position.           *)
Told == {n \in Places \X Nat : /\ n[2] \in DOMAIN posted[n[1]]
                               /\ posted[n[1]][n[2]].kind = "notes" /\ posted[n[1]][n[2]].sure}

LEMMA ToldIsSureNotes == ASSUME Typed PROVE Told = SureNotes
<1>1. \A c \in Places : \A i \in DOMAIN posted[c] : i \in Nat
    BY DEF Typed
<1>2. ASSUME NEW n \in Told PROVE n \in SureNotes
  <2>1. PICK c \in Places, i \in Nat : n = <<c, i>>
      BY DEF Told
  <2>2. i \in DOMAIN posted[c] /\ posted[c][i].kind = "notes" /\ posted[c][i].sure
      BY <2>1 DEF Told
  <2> QED
      BY <2>1, <2>2 DEF SureNotes, Notes
<1>3. ASSUME NEW n \in SureNotes PROVE n \in Told
  <2>1. PICK c \in Places : n \in {c} \X {i \in DOMAIN posted[c] : posted[c][i].kind = "notes"}
      BY DEF SureNotes, Notes
  <2>2. PICK i \in DOMAIN posted[c] : n = <<c, i>> /\ posted[c][i].kind = "notes"
      BY <2>1
  <2>3. posted[c][i].sure
      BY <2>2 DEF SureNotes
  <2> QED
      BY <1>1, <2>2, <2>3 DEF Told
<1> QED
    BY <1>2, <1>3

(* Whoever announces has claimed the version, alone, before any announcement *)
(* came back; nobody gives a version back that surely was announced.         *)
AnnounceFits ==
    /\ \A p, q \in Told : p = q
    /\ Told # {} => seen = "new" /\ \A w \in Workers : ~Announcing(w)
    /\ "redis" \notin Failures /\ seen = "new" => Told # {} \/ \E w \in Workers : Announcing(w)
    /\ \A w \in Workers : Announcing(w) => seen = "new" /\ work[w].kept = "old"
    /\ \A v, w \in Workers : Announcing(v) /\ Announcing(w) => v = w

LEMMA AnnounceFitsIsAnnouncedOnce == ASSUME Typed, AnnounceFits PROVE AnnouncedOnce
    BY ToldIsSureNotes DEF AnnounceFits, AnnouncedOnce

PostsNoNotes(w) ==
    \E c, g \in Places, k \in Kinds \ {"notes"}, sure \in BOOLEAN : Post(c, w, k, g, sure)

(* What a step of a handle may do to the announcement: nothing, claim the   *)
(* version, send it, fail to, give the version back, or not reach Redis.    *)
AnnounceMoves(w) ==
    \/ /\ seen' = seen /\ ~Announcing(w) /\ ~Announcing(w)'
       /\ posted' = posted \/ PostsNoNotes(w)
    \/ /\ seen = "old" /\ seen' = "new" /\ posted' = posted
       /\ Announcing(w)' /\ work'[w].kept = "old"
    \/ /\ seen' = seen /\ Announcing(w) /\ ~Announcing(w)'
       /\ Post(Home(w), w, "notes", Home(w), TRUE)
    \/ /\ seen' = seen /\ Announcing(w) /\ Announcing(w)' /\ work'[w].kept = work[w].kept
       /\ posted' = posted \/ Post(Home(w), w, "notes", Home(w), FALSE)
    \/ /\ posted' = posted /\ Announcing(w) /\ ~Announcing(w)'
       /\ seen' = work[w].kept \/ ("redis" \in Failures /\ seen' = seen)
    \/ /\ posted' = posted /\ ~Announcing(w) /\ ~Announcing(w)'
       /\ "redis" \in Failures /\ seen' \in {seen, "new"}

LEMMA HandlesAnnounce ==
    ASSUME Typed, Typed', NEW w \in Workers, Handle(w) \/ CallTool(w), ~Take(w),
           PipelineAssumption
    PROVE  AnnounceMoves(w)
<1>1. work[w] \in AHandle
    BY HandleIsGoing DEF Going
<1>2. \A o : Over(w, o) => ~Announcing(w)'
    BY DEF Over, Idle, Typed, Announcing
<1>3. CASE Claim(w)
  <2>1. CASE seen = "new"
      BY <1>2, <1>3, <2>1 DEF Claim, At, Announcing, AnnounceMoves
  <2>2. CASE seen = "old"
    <3>1. work'[w].pc = "announce" /\ work'[w].kept = "old"
        BY <1>1, <1>3, <2>2 DEF Claim, Typed, AHandle
    <3> QED
        BY <1>3, <2>2, <3>1 DEF Claim, Announcing, AnnounceMoves
  <2> QED
      BY <2>1, <2>2 DEF Typed
<1>4. CASE Announce(w)
  <2>1. Announcing(w) /\ seen' = seen
      BY <1>4 DEF Announce, Announcing, At
  <2>2. CASE Post(Home(w), w, "notes", Home(w), TRUE) /\ Over(w, "replied")
      BY <1>2, <2>1, <2>2 DEF AnnounceMoves
  <2>3. CASE SendFails(Home(w), w, "notes", Home(w)) /\ work' = [work EXCEPT ![w].pc = "give_back"]
    <3>1. work'[w].pc = "give_back" /\ work'[w].kept = work[w].kept
        BY <1>1, <2>3 DEF Typed, AHandle
    <3> QED
        BY <2>1, <2>3, <3>1 DEF Announcing, AnnounceMoves, SendFails
  <2> QED
      BY <1>4, <2>2, <2>3 DEF Announce
<1>a. CASE BeginAnnounce(w)
  <2>1. work'[w].pc = "announcing" /\ work'[w].kept = work[w].kept
      BY <1>1, <1>a DEF BeginAnnounce, Typed, AHandle
  <2> QED
      BY <1>a, <2>1 DEF BeginAnnounce, At, Announcing, AnnounceMoves
<1>c. CASE ClaimFails(w)
    BY <1>2, <1>c DEF ClaimFails, At, Announcing, AnnounceMoves
<1>5. CASE GiveBack(w)
    BY <1>2, <1>5 DEF GiveBack, At, Announcing, AnnounceMoves
<1>6. CASE /\ ~Claim(w) /\ ~ClaimFails(w) /\ ~BeginAnnounce(w)
           /\ ~Announce(w) /\ ~GiveBack(w)
  <2>1. seen' = seen /\ ~Announcing(w)
      BY <1>6 DEF Handle, BeginBuild, EndBuild, BuildRaises, NoCross, ClaimFails,
              BeginAnnounce, SendFails, ToolEnds, generate, WrapUp, BeginSend, SendChunk, SendRaises,
              EndSend, BeginCopy, CopyChunk, EndCopy, NothingToAnnounce,
              CallTool, OwnHandleOnly, At, Announcing
  <2>2. ~Announcing(w)'
    <3> USE <1>1 DEF Typed, AHandle, Announcing
    <3>1. CASE EndBuild(w)
      <4>1. CASE \E o \in {"exception"} : Over(w, o)
          BY <1>2, <4>1
      <4>2. CASE work'[w].pc = "llm"
          BY <4>2
      <4> QED
          BY <3>1, <4>1, <4>2 DEF EndBuild
    <3>b. CASE BeginBuild(w)
        BY <3>b DEF BeginBuild
    <3>2. CASE CallTool(w)
      <4>1. PICK sandbox \in BOOLEAN :
               work' = [work EXCEPT ![w].pc = "tool", ![w].turns = @ + 1, ![w].hint = {},
                                    ![w].thread = @ \/ sandbox]
          BY <3>2 DEF CallTool
      <4> QED
          BY <4>1
    <3>3. CASE ToolEnds(w)
        BY <3>3 DEF ToolEnds
    <3>4. CASE generate(w) \/ WrapUp(w)
      <4>1. CASE Answers(w)
          BY <4>1 DEF Answers
      <4>2. CASE Errs(w)
          BY <4>2 DEF Errs, AfterReply
      <4> QED
          BY <3>4, <4>1, <4>2 DEF generate, WrapUp
    <3>5. CASE BeginSend(w) \/ SendChunk(w)
      <4>1. CASE BeginSend(w)
        <5>1. work'[w].pc = "sending"
            BY <4>1 DEF BeginSend
        <5> QED
            BY <5>1
      <4>2. CASE SendChunk(w)
        <5>1. work'[w].pc = work[w].pc
            BY <4>2 DEF SendChunk
        <5> QED
            BY <2>1, <5>1
      <4> QED
          BY <3>5, <4>1, <4>2
    <3>6. CASE SendRaises(w) \/ NothingToAnnounce(w) \/ BuildRaises(w) \/ NoCross(w)
      <4>1. \E o : Over(w, o)
          BY <3>6 DEF SendRaises, NothingToAnnounce, BuildRaises, NoCross
      <4> QED
          BY <1>2, <4>1
    <3>7. CASE EndSend(w) \/ EndCopy(w)
        BY <3>7 DEF EndSend, AfterReply, EndCopy
    <3>8. CASE BeginCopy(w) \/ CopyChunk(w)
      <4>1. CASE BeginCopy(w)
          BY <4>1 DEF BeginCopy
      <4>2. CASE CopyChunk(w)
        <5>1. work'[w].pc = work[w].pc
            BY <4>2 DEF CopyChunk
        <5> QED
            BY <2>1, <5>1
      <4> QED
          BY <3>8, <4>1, <4>2
    <3> QED
        BY <1>6, <3>1, <3>b, <3>2, <3>3, <3>4, <3>5, <3>6, <3>7, <3>8 DEF Handle
  <2>3. posted' = posted \/ PostsNoNotes(w)
    <3>1. CASE SendChunk(w) \/ SendRaises(w)
      <4>1. Target(w) \in Places /\ Home(w) \in Places
          BY <1>1, ConstantsFit DEF Target, Home, AHandle
      <4> QED
          BY <3>1, <4>1 DEF SendChunk, SendRaises, SendFails, ReplyKind, PostsNoNotes, Kinds
    <3>2. CASE CopyChunk(w)
        BY <3>2, ConstantsFit DEF CopyChunk, PostsNoNotes, Kinds
    <3>3. CASE ~SendChunk(w) /\ ~SendRaises(w) /\ ~CopyChunk(w)
        BY <1>6, <3>3 DEF Handle, BeginBuild, EndBuild, BuildRaises, NoCross, ClaimFails,
              BeginAnnounce, SendFails, ToolEnds, generate, WrapUp, BeginSend, SendRaises,
              EndSend, BeginCopy, EndCopy, NothingToAnnounce, CallTool, OwnHandleOnly
    <3> QED
        BY <3>1, <3>2, <3>3
  <2> QED
      BY <2>1, <2>2, <2>3 DEF Announcing, AnnounceMoves
<1> QED
    BY <1>3, <1>4, <1>a, <1>c, <1>5, <1>6

(* A post adds itself to the notes if it is one, and changes no other.      *)
LEMMA ToldGrows ==
    ASSUME Typed, NEW c \in Places, NEW w \in Workers, NEW k, NEW g,
           NEW sure \in BOOLEAN, Post(c, w, k, g, sure)
    PROVE  /\ ~(k = "notes" /\ sure) => Told' = Told
           /\ k = "notes" /\ sure => Told' = Told \cup {<<c, Len(posted[c]) + 1>>}
<1> DEFINE new == Len(posted[c]) + 1
<1>1. /\ \A d \in Places \ {c} : posted'[d] = posted[d]
      /\ DOMAIN posted'[c] = DOMAIN posted[c] \cup {new}
      /\ \A i \in DOMAIN posted[c] : posted'[c][i] = posted[c][i]
      /\ posted'[c][new].kind = k /\ posted'[c][new].sure = sure
      /\ new \in Nat /\ new \notin DOMAIN posted[c]
  <2>1. /\ DOMAIN posted'[c] = DOMAIN posted[c] \cup {new}
        /\ posted'[c][new] = [by |-> work[w].m, kind |-> k, guard |-> g, sure |-> sure]
        /\ \A i \in DOMAIN posted[c] : i \in Nat /\ i < new
        /\ Len(posted[c]) \in Nat
      BY PostAppends
  <2>2. posted'[c][new].kind = k /\ posted'[c][new].sure = sure
      BY <2>1
  <2>3. new \in Nat /\ new \notin DOMAIN posted[c]
      BY <2>1
  <2> QED
      BY <2>1, <2>2, <2>3, PostAppends
<1> HIDE DEF new
<1>2. ASSUME NEW d \in Places, NEW i \in Nat, <<d, i>> # <<c, new>>
      PROVE  <<d, i>> \in Told' <=> <<d, i>> \in Told
    BY <1>1, <1>2 DEF Told
<1>3. <<c, new>> \notin Told /\ (<<c, new>> \in Told' <=> k = "notes" /\ sure)
    BY <1>1 DEF Told
<1>4. Told \subseteq Places \X Nat /\ Told' \subseteq Places \X Nat
    BY DEF Told
<1> DEFINE here == <<c, new>>
<1>5. ASSUME NEW n \in Places \X Nat, n # here PROVE n \in Told' <=> n \in Told
  <2>1. PICK d \in Places, i \in Nat : n = <<d, i>>
      OBVIOUS
  <2> QED
      BY <1>2, <1>5, <2>1
<1>6. here \notin Told /\ (here \in Told' <=> k = "notes" /\ sure)
    BY <1>3
<1>7. here = <<c, Len(posted[c]) + 1>>
    BY DEF new
<1> HIDE DEF here
<1>8. \A n : n \in Told' <=> n \in Told \/ (n = here /\ k = "notes" /\ sure)
    BY <1>4, <1>5, <1>6
<1>9. /\ ~(k = "notes" /\ sure) => Told' = Told
      /\ k = "notes" /\ sure => Told' = Told \cup {here}
    BY <1>8
<1> QED
    BY <1>7, <1>9

LEMMA AnnounceStep ==
    ASSUME Typed, Typed', AnnounceFits, [Next]_vars, PipelineAssumption PROVE AnnounceFits'
<1>1. ASSUME seen' = seen, Told' = Told,
             \A w \in Workers : Announcing(w)' <=> Announcing(w),
             \A w \in Workers : Announcing(w) => work'[w].kept = work[w].kept
      PROVE  AnnounceFits'
    BY <1>1 DEF AnnounceFits
<1>n. posted' = posted => Told' = Told
    BY DEF Told
<1>2. ASSUME work' = work, posted' = posted, seen' = seen PROVE AnnounceFits'
    BY <1>1, <1>2, <1>n DEF Announcing
<1>3. ASSUME NEW w \in Workers, Take(w) PROVE AnnounceFits'
  <2>1. \/ UNCHANGED work
        \/ /\ \A v \in Workers \ {w} : work'[v] = work[v]
           /\ At(w, "idle") /\ At(w, "build")'
      BY <1>3, TakeBeginsOrDrops DEF Begins
  <2>2. posted' = posted /\ seen' = seen
      BY <1>3 DEF Take
  <2>3. CASE UNCHANGED work
      BY <1>2, <2>2, <2>3
  <2>4. CASE /\ \A v \in Workers \ {w} : work'[v] = work[v]
             /\ At(w, "idle") /\ At(w, "build")'
    <3>1. ~Announcing(w) /\ ~Announcing(w)'
        BY <2>4 DEF At, Announcing
    <3>2. \A v \in Workers \ {w} : Announcing(v)' <=> Announcing(v)
        BY <2>4 DEF Announcing
    <3> QED
        BY <1>1, <1>n, <2>2, <2>4, <3>1, <3>2
  <2> QED
      BY <2>1, <2>3, <2>4
<1>4. ASSUME NEW w \in Workers, Handle(w) \/ CallTool(w), ~Take(w) PROVE AnnounceFits'
  <2>1. \A v \in Workers \ {w} : work'[v] = work[v]
      BY <1>4, HandleIsGoing DEF Going
  <2>2. \A v \in Workers \ {w} : (Announcing(v)' <=> Announcing(v)) /\ work'[v].kept = work[v].kept
      BY <2>1 DEF Announcing
  <2>3. AnnounceMoves(w)
      BY <1>4, HandlesAnnounce
  <2>h. Home(w) \in Places
    <3>1. work[w].m \in Messages
        BY <1>4, HandleIsGoing DEF Going, AHandle
    <3> QED
        BY <3>1, ConstantsFit DEF Home
  <2>4. CASE /\ seen' = seen /\ ~Announcing(w) /\ ~Announcing(w)'
             /\ posted' = posted \/ PostsNoNotes(w)
    <3>1. Told' = Told
        BY <1>n, <2>4, ToldGrows DEF PostsNoNotes
    <3> QED
        BY <1>1, <2>2, <2>4, <3>1
  <2>5. CASE /\ seen = "old" /\ seen' = "new" /\ posted' = posted
             /\ Announcing(w)' /\ work'[w].kept = "old"
    <3>1. Told' = {} /\ \A v \in Workers : ~Announcing(v)
        BY <1>n, <2>5 DEF AnnounceFits
    <3> QED
        BY <2>2, <2>5, <3>1 DEF AnnounceFits
  <2>6. CASE /\ seen' = seen /\ Announcing(w) /\ ~Announcing(w)'
             /\ Post(Home(w), w, "notes", Home(w), TRUE)
    <3>2. PICK n : Told' = Told \cup {n}
        BY <2>6, <2>h, ToldGrows
    <3>3. seen = "new" /\ Told = {} /\ \A v \in Workers \ {w} : ~Announcing(v)
        BY <2>6 DEF AnnounceFits
    <3> QED
        BY <2>2, <2>6, <3>2, <3>3 DEF AnnounceFits
  <2>7. CASE /\ seen' = seen /\ Announcing(w) /\ Announcing(w)' /\ work'[w].kept = work[w].kept
             /\ posted' = posted \/ Post(Home(w), w, "notes", Home(w), FALSE)
    <3>1. Told' = Told
        BY <1>n, <2>7, <2>h, ToldGrows
    <3> QED
        BY <1>1, <2>2, <2>7, <3>1
  <2>8. CASE /\ posted' = posted /\ Announcing(w) /\ ~Announcing(w)'
             /\ seen' = work[w].kept \/ ("redis" \in Failures /\ seen' = seen)
    <3>1. /\ seen' = "old" \/ "redis" \in Failures
          /\ Told' = {} /\ \A v \in Workers \ {w} : ~Announcing(v)
        BY <1>n, <2>8 DEF AnnounceFits
    <3> QED
        BY <2>2, <2>8, <3>1 DEF AnnounceFits
  <2>9. CASE /\ posted' = posted /\ ~Announcing(w) /\ ~Announcing(w)'
             /\ "redis" \in Failures /\ seen' \in {seen, "new"}
    <3>1. Told' = Told /\ (seen = "new" => seen' = "new")
        BY <1>n, <2>9
    <3> QED
        BY <2>2, <2>9, <3>1 DEF AnnounceFits
  <2> QED
      BY <2>3, <2>4, <2>5, <2>6, <2>7, <2>8, <2>9 DEF AnnounceMoves
<1>5. CASE \E m \in Messages : Receive(m) \/ Ignore(m) \/ Enqueue(m)
    BY <1>2, <1>5 DEF Receive, Ignore, Enqueue
<1>6. CASE CallBegins \/ CallEnds \/ UNCHANGED vars
    BY <1>2, <1>6 DEF CallBegins, CallEnds, vars
<1> QED
    BY <1>3, <1>4, <1>5, <1>6 DEF Next

LEMMA AnnounceInitially == ASSUME Init PROVE AnnounceFits
<1>1. Told = {}
    BY DEF Init, Told
<1> QED
    BY <1>1 DEF Init, AnnounceFits, Announcing, Idle

--------------------------------------------------------------------------------
(* Theorems. *)

IInv == Typed /\ OneEach /\ LocksFit /\ Registered /\ History /\ PairsFit /\ AnnounceFits

LEMMA LocksInitially == ASSUME Init, PipelineAssumption PROVE LocksFit
    BY ConstantsFit DEF Init, LocksFit, Under, Idle

LEMMA IInvInitially == ASSUME Init, PipelineAssumption PROVE IInv
    BY TypedInitially, OneEachInitially, LocksInitially, RegisteredInitially, HistoryInitially,
       PairsInitially, AnnounceInitially DEF IInv

LEMMA IInvStep == ASSUME IInv, [Next]_vars, PipelineAssumption PROVE IInv'
<1>1. Typed'
    BY TypedStep DEF IInv
<1>2. OneEach' /\ LocksFit' /\ Registered' /\ History' /\ PairsFit' /\ AnnounceFits'
    BY <1>1, OneEachStep, LocksStep, RegisteredStep, HistoryStep, PairsStep, AnnounceStep
       DEF IInv
<1> QED
    BY <1>1, <1>2 DEF IInv

LEMMA Invariant == Spec => []IInv
<1> USE PipelineAssumption
<1>1. Init => IInv
    BY IInvInitially
<1>2. IInv /\ [Next]_vars => IInv'
    BY IInvStep
<1> QED
    BY <1>1, <1>2, PTL DEF Spec

(* What is sent to a channel under its lock stays together, however many    *)
(* workers answer in it and whichever sends fail.                           *)
THEOREM RepliesTogether == Spec => []RepliesStayTogether
<1>1. IInv => RepliesStayTogether
    BY DEF IInv, History
<1> QED
    BY <1>1, Invariant, PTL

(* Between two double replies of a channel there are as many single ones as *)
(* the cooldown says: the recheck under the lock is enough, since nobody    *)
(* else counts or commits there while it is held.                           *)
THEOREM PairsSpaced == Spec => []PairsAreSpaced
<1>1. IInv => PairsAreSpaced
    BY DEF IInv, PairsFit, PairsAreSpaced, Own
<1> QED
    BY <1>1, Invariant, PTL

(* A place's lock is held by a worker exactly while the worker reads the    *)
(* history there or sends under the lock: no handle waits for a model, a    *)
(* tool or another lock with one in hand, and none is left locked by a      *)
(* handle that ends or fails (message_handler.py handle_message,            *)
(* main.py maybe_announce_whats_new).                                       *)
THEOREM LocksAreForReadingAndSending == Spec => []HoldersReadOrSend
<1>1. ASSUME Typed, LocksFit PROVE HoldersReadOrSend
  <2>1. \A w \in Workers, c \in Places : Holds(w, c) <=> Under(w) /\ c = Held(w)
      BY DEF Holds, Under, Held, At
  <2>2. \A w \in Workers : w # NoOne
      BY ConstantsFit, PipelineAssumption
  <2> QED
      BY <1>1, <2>1, <2>2 DEF LocksFit, HoldersReadOrSend
<1> QED
    BY <1>1, Invariant, PTL DEF IInv

(* A prompt names the slow tools that run for other messages of its channel, *)
(* whatever is called and finishes between the turns of the others.         *)
THEOREM HintsName == Spec => HintNamesWhatRuns
<1> USE PipelineAssumption
<1>1. IInv /\ IInv' /\ [Next]_vars =>
        [\A w \in Workers : At(w, "building") /\ work'[w].pc = "llm" =>
           work'[w].hint = {<<work[v].m, work[v].tools>> :
                              v \in {v \in Workers : At(v, "tool") /\ Home(v) = Home(w)}}]_vars
    BY HintNames DEF IInv
<1> QED
    BY <1>1, Invariant, PTL DEF Spec, HintNamesWhatRuns

(* One handle at a time announces a version; once an announcement has come  *)
(* back there is no other and nobody begins one; and a version that counts  *)
(* as announced, while nobody is at announcing it, was, as long as Redis    *)
(* answers. A send that raises may have posted the notes, and they may then *)
(* be posted again (main.py maybe_announce_whats_new).                      *)
THEOREM VersionAnnouncedOnce == Spec => []AnnouncedOnce
<1>1. IInv => AnnouncedOnce
    BY AnnounceFitsIsAnnouncedOnce DEF IInv
<1> QED
    BY <1>1, Invariant, PTL
================================================================================
