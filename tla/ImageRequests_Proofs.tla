-------------------------- MODULE ImageRequests_Proofs --------------------------
(***************************************************************************)
(* What ImageRequests keeps for every set of calls, number of retries,     *)
(* queue size and combination of failures: types, a latch that only a      *)
(* server that rejects the option can set, and the best attempt posted.    *)
(***************************************************************************)
EXTENDS ImageRequests, FiniteSetTheorems, TLAPS

Places == {"new", "source", "capabilities", "prompt", "waiting", "looking", "posting"} \cup Over
LookAts == {"begins", "asks", "asks_again", "over"}
ALook  == [sent : BOOLEAN, bad : BOOLEAN, at : LookAts, found : Reviews]

(* At most two looks: a picture alone, and next to the original. *)
Looks == {ls \in Seq(ALook) : Len(ls) <= 2}

(* TypeOK with the shape of the functions it looks into. *)
Typed ==
    /\ service \in [model : Models, ready : BOOLEAN]
    /\ queue \in Seq(Calls \X Nat) /\ Len(queue) <= QUEUE_SIZE
    /\ generating = None \/ generating \in Calls \X Nat
    /\ cached \in Models \cup {None}
    /\ at \in [Calls -> Places]
    /\ image_calls \in [Replies -> Nat]
    /\ reviews \in [Calls -> Seq(Reviews)]
    /\ best \in [Calls -> Nat]
    /\ looks \in [Calls -> Looks]
    /\ send_no_thinking \in BOOLEAN /\ rejects \in BOOLEAN

(* Whoever asks again without the option, and was not refused for another   *)
(* reason, was refused for the option.                                      *)
AgainForTheOption ==
    \A c \in Calls : \A k \in DOMAIN looks[c] :
        looks[c][k].at = "asks_again" /\ ~looks[c][k].bad => rejects

(* The attempt a call keeps is one of those reviewed, and none of them      *)
(* beats it.                                                                *)
Beats(other, kept) == other # Unchecked /\ (kept = Unchecked \/ other < kept)

BestSoFar ==
    \A c \in Calls :
        /\ best[c] \in 0 .. Len(reviews[c])
        /\ Len(reviews[c]) > 0 => best[c] > 0
        /\ \A k \in DOMAIN reviews[c] : ~Beats(reviews[c][k], reviews[c][best[c]])

(* The calls of a reply that were let in: counted when they were made, and  *)
(* not one too many.                                                        *)
Admitted(r) == {c \in Asked(r) : at[c] \notin {"new", "too_many"}}

LetIn ==
    \A r \in Replies :
        /\ IsFiniteSet(Admitted(r))
        /\ Cardinality(Admitted(r)) <= image_calls[r]
        /\ Cardinality(Admitted(r)) <= MAX_IMAGE_CALLS

(* A call posts its first request and one more for each review that asks    *)
(* for a retry.                                                             *)
Before == {"new", "too_many", "source", "capabilities"}

Spent(c) ==
    /\ at[c] \in Before => generated[c] = 0 /\ Len(reviews[c]) = 0
    /\ at[c] = "prompt" => generated[c] = Len(reviews[c]) /\ Len(reviews[c]) <= Retries
    /\ at[c] \in {"waiting", "looking"} =>
         generated[c] = Len(reviews[c]) + 1 /\ Len(reviews[c]) <= Retries
    /\ generated[c] \in 0 .. (1 + Retries)

Counted == generated \in [Calls -> Nat] /\ \A c \in Calls : Spent(c)

IInv == Typed /\ AgainForTheOption /\ LatchIsDeserved /\ BestSoFar /\ Counted /\ LetIn

--------------------------------------------------------------------------------
(* The pure parts. *)

LEMMA LooksAtIsLooks ==
    ASSUME NEW c \in Calls, NEW bad \in [{1, 2} -> BOOLEAN]
    PROVE  /\ LooksAt(c, bad) \in Looks
           /\ \A k \in DOMAIN LooksAt(c, bad) : LooksAt(c, bad)[k].at = "begins"
<1> DEFINE n == IF c \in Edits THEN 2 ELSE 1
<1>1. n \in Nat /\ n <= 2 /\ 1 .. n \subseteq {1, 2}
    OBVIOUS
<1>2. \A b \in BOOLEAN : Look(b) \in ALook /\ Look(b).at = "begins"
    BY DEF Look, ALook, LookAts, Reviews, Unchecked
<1>b. \A k \in 1 .. n : bad[k] \in BOOLEAN
    BY <1>1
<1>3. LooksAt(c, bad) \in [1 .. n -> ALook] /\ \A k \in 1 .. n : LooksAt(c, bad)[k].at = "begins"
    BY <1>2, <1>b DEF LooksAt
<1>4. LooksAt(c, bad) \in Seq(ALook) /\ Len(LooksAt(c, bad)) = n
    <2> HIDE DEF n
    <2> QED
        BY <1>1, <1>3
<1> QED
    BY <1>1, <1>3, <1>4 DEF Looks

LEMMA LookEndsTyped ==
    ASSUME NEW ls \in Looks, NEW k \in DOMAIN ls, NEW result \in Reviews, NEW sent \in BOOLEAN
    PROVE  /\ [ls EXCEPT ![k].at = "asks_again"] \in Looks
           /\ [ls EXCEPT ![k].at = "asks", ![k].sent = sent] \in Looks
           /\ [ls EXCEPT ![k].at = "over", ![k].found = result] \in Looks
<1> DEFINE n == Len(ls)
           again == [ls EXCEPT ![k].at = "asks_again"]
           asks == [ls EXCEPT ![k].at = "asks", ![k].sent = sent]
           over == [ls EXCEPT ![k].at = "over", ![k].found = result]
<1>1. n \in Nat /\ n <= 2 /\ ls \in [1 .. n -> ALook] /\ k \in 1 .. n
    BY DEF Looks
<1>2. [ls[k] EXCEPT !.at = "asks_again"] \in ALook
    BY <1>1 DEF ALook, LookAts
<1>3. [ls[k] EXCEPT !.at = "over", !.found = result] \in ALook
    BY <1>1 DEF ALook, LookAts
<1>a. [ls[k] EXCEPT !.at = "asks", !.sent = sent] \in ALook
    BY <1>1 DEF ALook, LookAts
<1>4. again \in [1 .. n -> ALook] /\ over \in [1 .. n -> ALook] /\ asks \in [1 .. n -> ALook]
    BY <1>1, <1>2, <1>3, <1>a
<1>5. /\ again \in Seq(ALook) /\ Len(again) = n
      /\ over \in Seq(ALook) /\ Len(over) = n
      /\ asks \in Seq(ALook) /\ Len(asks) = n
    <2> HIDE DEF again, over, asks, n
    <2> QED
        BY <1>1, <1>4
<1> QED
    BY <1>1, <1>5 DEF Looks

(* What is merged from at most two looks is the verdict of one of them. *)
LEMMA MergedIsAReview ==
    ASSUME NEW ls \in Looks, ImageAssumption
    PROVE  merge_reviews(ls) \in Reviews
<1> DEFINE found == {ls[k].found : k \in DOMAIN ls} \ {Unchecked}
<1>1. CASE found = {}
    BY <1>1 DEF merge_reviews, Reviews, Unchecked
<1>2. CASE found # {}
    <2>1. DOMAIN ls \subseteq {1, 2} /\ \A k \in DOMAIN ls : ls[k].found \in Reviews
        <3>1. Len(ls) \in Nat /\ Len(ls) <= 2 /\ ls \in [1 .. Len(ls) -> ALook]
            BY DEF Looks
        <3>2. DOMAIN ls \subseteq {1, 2}
            BY <3>1
        <3> QED
            BY <3>1, <3>2 DEF ALook
    <2>2. found \subseteq {ls[1].found, ls[2].found} /\ found \subseteq Nat
        BY <2>1, ImageAssumption DEF Reviews, Unchecked
    <2>3. \E m \in found : \A n \in found : n <= m
        <3>1. PICK x \in found : TRUE
            BY <1>2
        <3>2. CASE \A n \in found : n <= x
            BY <3>2
        <3>3. CASE ~(\A n \in found : n <= x)
            <4>1. PICK y \in found : ~(y <= x)
                BY <3>3
            <4>2. x \in Nat /\ y \in Nat /\ x < y
                BY <2>2, <4>1
            <4>3. found \subseteq {x, y}
                BY <2>2, <4>2
            <4> QED
                BY <4>2, <4>3
        <3> QED
            BY <3>2, <3>3
    <2>4. merge_reviews(ls) \in found
        BY <1>2, <2>3 DEF merge_reviews
    <2> QED
        BY <2>1, <2>4
<1> QED
    BY <1>1, <1>2

(* prefer_second() never keeps an attempt that another one beats. *)
LEMMA PreferenceIsSound ==
    ASSUME NEW first \in Reviews, NEW second \in Reviews, NEW other \in Reviews, ImageAssumption
    PROVE  /\ prefer_second(first, second) => ~Beats(first, second)
           /\ ~prefer_second(first, second) => ~Beats(second, first)
           /\ prefer_second(first, second) /\ ~Beats(other, first) => ~Beats(other, second)
    BY DEF prefer_second, Beats, Reviews, Unchecked, ImageAssumption

--------------------------------------------------------------------------------
(* The initial states. *)

LEMMA NothingAskedYet ==
    ASSUME Init, ImageAssumption
    PROVE  Counted /\ LetIn
<1>1. Counted
    BY DEF Init, Counted, Spent, ImageAssumption
<1>2. \A r \in Replies : Admitted(r) = {} /\ image_calls[r] = 0
    BY DEF Init, Admitted, Asked
<1>3. IsFiniteSet({}) /\ Cardinality({}) = 0
    BY FS_EmptySet
<1> QED
    BY <1>1, <1>2, <1>3 DEF LetIn, ImageAssumption

LEMMA InitEstablishes ==
    ASSUME Init, ImageAssumption
    PROVE  IInv
<1>1. Typed
    <2>1. service \in [model : Models, ready : BOOLEAN]
        BY DEF Init
    <2>2. <<>> \in Looks /\ <<>> \in Seq(Reviews) /\ <<>> \in Seq(Calls \X Nat)
        BY DEF Looks
    <2>3. "new" \in Places /\ Len(<<>>) <= QUEUE_SIZE
        BY DEF Places, ImageAssumption
    <2> QED
        BY <2>1, <2>2, <2>3 DEF Init, Typed
<1>2. AgainForTheOption /\ LatchIsDeserved
    BY DEF Init, AgainForTheOption, LatchIsDeserved
<1>3. BestSoFar
    BY DEF Init, BestSoFar
<1> QED
    BY <1>1, <1>2, <1>3, NothingAskedYet DEF IInv

--------------------------------------------------------------------------------
(* Every step keeps the types. *)

LEMMA CapabilitiesAreKnown ==
    ASSUME Typed, ImageAssumption, NEW model \in Known, Capabilities(model)
    PROVE  model \in {"natural", "sdxl"} /\ cached' \in Models \cup {None}
    BY DEF Typed, Capabilities, Known, FALLBACK_CAPABILITIES, ImageAssumption

(* A picture that is there is looked at, or nobody waits for it.            *)
LEMMA GeneratedStartsLooks ==
    ASSUME Typed, Generated
    PROVE  \/ UNCHANGED looks
           \/ \E bad \in [{1, 2} -> BOOLEAN] :
                 looks' = [looks EXCEPT ![generating[1]] = LooksAt(generating[1], bad)]
<1> DEFINE some == [{1, 2} -> {FALSE} \cup {b \in {TRUE} : "request" \in Failures}]
<1>1. some \subseteq [{1, 2} -> BOOLEAN]
    OBVIOUS
<1> HIDE DEF some
<1>2. \/ UNCHANGED looks
      \/ \E bad \in some : looks' = [looks EXCEPT ![generating[1]] = LooksAt(generating[1], bad)]
    BY DEF Generated, some
<1> QED
    BY <1>1, <1>2

LEMMA GoingTyped ==
    ASSUME Typed, NEW c \in Calls, NEW place \in Places, Goes(c, place)
    PROVE  at' \in [Calls -> Places]
    BY DEF Typed, Goes

LEMMA CallStepTyped ==
    ASSUME Typed, ImageAssumption, NEW c \in Calls,
           Ask(c) \/ FindSource(c) \/ BeginImage(c) \/ Post(c) \/ GiveUp(c) \/ Show(c)
    PROVE  Typed'
<1> USE DEF Places, Over
<1>1. CASE Ask(c)
    <2>1. c \notin Slash => ReplyOf[c] \in Replies
        BY DEF Replies
    <2>2. image_calls' \in [Replies -> Nat]
        <3>1. image_calls \in [Replies -> Nat]
            BY DEF Typed
        <3>2. CASE c \in Slash
            BY <1>1, <3>1, <3>2 DEF Ask
        <3>3. CASE c \notin Slash
            <4>1. image_calls' = [image_calls EXCEPT ![ReplyOf[c]] = @ + 1]
                BY <1>1, <3>3 DEF Ask
            <4>2. image_calls[ReplyOf[c]] + 1 \in Nat
                BY <2>1, <3>1, <3>3
            <4> QED
                BY <3>1, <4>1, <4>2
        <3> QED
            BY <3>2, <3>3
    <2>3. at' \in [Calls -> Places]
        BY <1>1 DEF Ask, Goes, Typed
    <2> QED
        BY <1>1, <2>2, <2>3 DEF Ask, Typed, serviceVars, lookVars
<1>2. CASE FindSource(c)
    <2>1. at' \in [Calls -> Places]
        BY <1>2, GoingTyped DEF FindSource
    <2> QED
        BY <1>2, <2>1, CapabilitiesAreKnown DEF FindSource, Typed, serviceVars, lookVars
<1>3. CASE BeginImage(c)
    <2>1. at' \in [Calls -> Places]
        BY <1>3, GoingTyped DEF BeginImage
    <2>2. PICK model \in Known : Capabilities(model)
        BY <1>3 DEF BeginImage
    <2>3. cached' \in Models \cup {None}
        BY <2>2, CapabilitiesAreKnown DEF Typed
    <2> QED
        BY <1>3, <2>1, <2>3 DEF BeginImage, Typed, serviceVars, lookVars
<1>4. CASE Post(c)
    <2>1. at' \in [Calls -> Places]
        BY <1>4 DEF Post, Refused, Goes, Typed
    <2>2. Len(reviews[c]) + 1 \in Nat
        BY DEF Typed
    <2>3. queue' \in Seq(Calls \X Nat) /\ Len(queue') <= QUEUE_SIZE
        <3> DEFINE request == <<c, Len(reviews[c]) + 1>>
        <3>1. request \in Calls \X Nat /\ queue \in Seq(Calls \X Nat) /\ QUEUE_SIZE \in Nat
              /\ Len(queue) <= QUEUE_SIZE
            BY <2>2 DEF Typed, ImageAssumption
        <3>2. Append(queue, request) \in Seq(Calls \X Nat)
              /\ Len(Append(queue, request)) = Len(queue) + 1
            BY <3>1
        <3>3. \/ UNCHANGED queue
              \/ queue' = Append(queue, request) /\ Len(queue) < QUEUE_SIZE
            BY <1>4 DEF Post
        <3>4. Len(queue) \in Nat
            BY <3>1
        <3> HIDE DEF request
        <3>5. CASE UNCHANGED queue
            BY <3>1, <3>5
        <3>6. CASE queue' = Append(queue, request) /\ Len(queue) < QUEUE_SIZE
            <4>1. Len(queue') = Len(queue) + 1 /\ queue' \in Seq(Calls \X Nat)
                BY <3>2, <3>6
            <4> QED
                BY <3>1, <3>4, <3>6, <4>1
        <3> QED
            BY <3>3, <3>5, <3>6
    <2> QED
        BY <1>4, <2>1, <2>3 DEF Post, Typed, lookVars
<1>5. CASE GiveUp(c)
    <2>1. at' \in [Calls -> Places]
        BY <1>5, GoingTyped DEF GiveUp, Refused
    <2> QED
        BY <1>5, <2>1 DEF GiveUp, Typed, serviceVars, lookVars
<1>6. CASE Show(c)
    <2>1. at' \in [Calls -> Places]
        BY <1>6, GoingTyped DEF Show
    <2> QED
        BY <1>6, <2>1 DEF Show, Typed, serviceVars, lookVars
<1> QED
    BY <1>1, <1>2, <1>3, <1>4, <1>5, <1>6

LEMMA LookStepTyped ==
    ASSUME Typed, ImageAssumption, NEW c \in Calls, NEW k \in DOMAIN looks[c],
           LookAsks(c, k) \/ LookRejected(c, k) \/ LookAnswered(c, k) \/ LookFails(c, k)
    PROVE  Typed'
<1>1. looks[c] \in Looks
    BY DEF Typed
<1>2. Unchecked \in Reviews /\ 0 .. MaxMissing \subseteq Reviews
    BY DEF Reviews
<1>3. \A result \in Reviews : LookEnds(c, k, result) => looks' \in [Calls -> Looks]
    <2> SUFFICES ASSUME NEW result \in Reviews, LookEnds(c, k, result)
                 PROVE  looks' \in [Calls -> Looks]
        OBVIOUS
    <2>1. looks' = [looks EXCEPT ![c] = [looks[c] EXCEPT ![k].at = "over", ![k].found = result]]
        BY <1>1 DEF LookEnds, Typed
    <2>2. [looks[c] EXCEPT ![k].at = "over", ![k].found = result] \in Looks
        BY <1>1, LookEndsTyped
    <2> QED
        BY <2>1, <2>2 DEF Typed
<1>4. looks' = [looks EXCEPT ![c][k].at = "asks_again"] => looks' \in [Calls -> Looks]
    <2>1. [looks[c] EXCEPT ![k].at = "asks_again"] \in Looks
        BY <1>1, <1>2, LookEndsTyped
    <2> QED
        BY <2>1 DEF Typed
<1>a. looks' = [looks EXCEPT ![c][k].at = "asks", ![c][k].sent = send_no_thinking]
          => looks' \in [Calls -> Looks]
    <2>1. [looks[c] EXCEPT ![k].at = "asks", ![k].sent = send_no_thinking] \in Looks
        BY <1>1, <1>2, LookEndsTyped DEF Typed
    <2> QED
        BY <2>1 DEF Typed
<1>5. looks' \in [Calls -> Looks]
    BY <1>2, <1>3, <1>4, <1>a DEF LookAsks, LookRejected, LookAnswered, LookFails
<1>6. send_no_thinking' \in BOOLEAN
    BY DEF LookAsks, LookRejected, LookAnswered, LookFails, OnRejection, Typed
<1>7. UNCHANGED <<serviceVars, cached, callVars, rejects>>
    BY DEF LookAsks, LookRejected, LookAnswered, LookFails
<1> QED
    BY <1>5, <1>6, <1>7 DEF Typed, serviceVars, callVars

LEMMA ReviewedTyped ==
    ASSUME Typed, ImageAssumption, NEW c \in Calls, Reviewed(c)
    PROVE  Typed'
<1>1. merge_reviews(looks[c]) \in Reviews
    BY MergedIsAReview DEF Typed
<1>2. reviews' \in [Calls -> Seq(Reviews)]
    BY <1>1 DEF Reviewed, Typed
<1>3. best' \in [Calls -> Nat]
    BY DEF Reviewed, Typed
<1>4. looks' \in [Calls -> Looks]
    BY DEF Reviewed, Typed, Looks
<1>5. at' \in [Calls -> Places]
    BY GoingTyped DEF Reviewed, Places
<1> QED
    BY <1>2, <1>3, <1>4, <1>5 DEF Reviewed, Typed, serviceVars

LEMMA ServiceStepTyped ==
    ASSUME Typed, ImageAssumption, Take \/ Generated \/ Restart \/ Loaded \/ Expires
    PROVE  Typed'
<1>1. CASE Take
    <2>1. Head(queue) \in Calls \X Nat /\ Tail(queue) \in Seq(Calls \X Nat)
          /\ Len(Tail(queue)) <= Len(queue)
        <3>1. queue \in Seq(Calls \X Nat) /\ queue # <<>>
            BY <1>1 DEF Take, Typed
        <3> QED
            BY <3>1
    <2>2. Len(Tail(queue)) <= QUEUE_SIZE
        BY <1>1, <2>1 DEF Take, Typed, ImageAssumption
    <2>3. generating' \in Calls \X Nat /\ queue' \in Seq(Calls \X Nat) /\ Len(queue') <= QUEUE_SIZE
        BY <1>1, <2>1, <2>2 DEF Take
    <2> QED
        BY <1>1, <2>3 DEF Take, Typed, callVars, lookVars
<1>2. CASE Generated
    <2> DEFINE c == generating[1]
    <2>1. c \in Calls
        BY <1>2 DEF Generated, Typed
    <2>2. at' \in [Calls -> Places]
        BY <1>2, <2>1, GoingTyped DEF Generated, Refused, Places, Over, Typed
    <2>3. looks' \in [Calls -> Looks]
        <3>1. UNCHANGED looks \/ \E bad \in [{1, 2} -> BOOLEAN] : looks' = [looks EXCEPT ![c] = LooksAt(c, bad)]
            BY <1>2, GeneratedStartsLooks
        <3>2. \A bad \in [{1, 2} -> BOOLEAN] : LooksAt(c, bad) \in Looks
            BY <2>1, LooksAtIsLooks DEF Typed
        <3>3. looks \in [Calls -> Looks]
            BY DEF Typed
        <3> HIDE DEF c
        <3> QED
            BY <2>1, <3>1, <3>2, <3>3
    <2> QED
        BY <1>2, <2>2, <2>3 DEF Generated, Typed
<1>3. CASE Restart
    <2>1. at' \in [Calls -> Places]
        BY <1>3 DEF Restart, Typed, Places, Over
    <2>2. service' \in [model : Models, ready : BOOLEAN]
        BY <1>3 DEF Restart
    <2>3. queue' \in Seq(Calls \X Nat) /\ Len(queue') <= QUEUE_SIZE /\ generating' = None
        BY <1>3 DEF Restart, ImageAssumption
    <2> QED
        BY <1>3, <2>1, <2>2, <2>3 DEF Restart, Typed, lookVars
<1>4. CASE Loaded
    BY <1>4 DEF Loaded, Typed, callVars, lookVars
<1>5. CASE Expires
    BY <1>5 DEF Expires, Typed, serviceVars, callVars, lookVars
<1> QED
    BY <1>1, <1>2, <1>3, <1>4, <1>5

LEMMA StutterTyped ==
    ASSUME Typed, UNCHANGED vars
    PROVE  Typed'
    BY DEF Typed, vars, serviceVars, callVars, lookVars

LEMMA StepTyped ==
    ASSUME Typed, ImageAssumption, [Next]_vars
    PROVE  Typed'
    BY CallStepTyped, LookStepTyped, ReviewedTyped, ServiceStepTyped, StutterTyped DEF Next, Step

--------------------------------------------------------------------------------
(* The latch. *)

(* A step outside the looks leaves them alone, clears them, or starts some  *)
(* that have not been refused.                                              *)
LEMMA LatchStep ==
    ASSUME IInv, ImageAssumption, [Next]_vars
    PROVE  AgainForTheOption' /\ LatchIsDeserved'
<1> USE DEF IInv
<1>1. ASSUME UNCHANGED lookVars
      PROVE  AgainForTheOption' /\ LatchIsDeserved'
    BY <1>1 DEF AgainForTheOption, LatchIsDeserved, lookVars
<1>2. ASSUME NEW c \in Calls, Reviewed(c)
      PROVE  AgainForTheOption' /\ LatchIsDeserved'
    <2>1. looks' = [looks EXCEPT ![c] = << >>] /\ UNCHANGED <<send_no_thinking, rejects>>
        BY <1>2 DEF Reviewed
    <2> QED
        BY <2>1 DEF Typed, AgainForTheOption, LatchIsDeserved
<1>3. CASE Generated
    <2>1. UNCHANGED <<send_no_thinking, rejects>>
        BY <1>3 DEF Generated
    <2>2. CASE UNCHANGED looks
        BY <1>1, <2>1, <2>2 DEF lookVars
    <2>3. CASE ~UNCHANGED looks
        <3>1. PICK c \in Calls, bad \in [{1, 2} -> BOOLEAN] : looks' = [looks EXCEPT ![c] = LooksAt(c, bad)]
            <4>1. generating[1] \in Calls
                BY <1>3 DEF Generated, Typed
            <4> QED
                BY <1>3, <2>3, <4>1, GeneratedStartsLooks
        <3>2. \A k \in DOMAIN LooksAt(c, bad) : LooksAt(c, bad)[k].at = "begins"
            BY LooksAtIsLooks DEF Typed
        <3>3. \A d \in Calls : \A k \in DOMAIN looks'[d] :
                  \/ looks'[d] = looks[d]
                  \/ looks'[d][k].at = "begins"
            BY <3>1, <3>2 DEF Typed
        <3> QED
            BY <2>1, <3>3 DEF AgainForTheOption, LatchIsDeserved
    <2> QED
        BY <2>2, <2>3
<1>4. ASSUME NEW c \in Calls, NEW k \in DOMAIN looks[c],
             LookAsks(c, k) \/ LookRejected(c, k) \/ LookAnswered(c, k) \/ LookFails(c, k)
      PROVE  AgainForTheOption' /\ LatchIsDeserved'
    <2> DEFINE others == /\ \A d \in Calls : DOMAIN looks'[d] = DOMAIN looks[d]
                         /\ \A d \in Calls : \A j \in DOMAIN looks[d] :
                                <<d, j>> # <<c, k>> => looks'[d][j] = looks[d][j]
    <2>1. UNCHANGED rejects
        BY <1>4 DEF LookAsks, LookRejected, LookAnswered, LookFails
    <2>2. looks[c] \in Looks /\ looks[c][k] \in ALook
        BY DEF Typed, Looks
    <2>3. \A result : LookEnds(c, k, result) => others /\ looks'[c][k].at = "over"
        BY <2>2 DEF LookEnds, Typed, ALook
    <2>4. CASE LookRejected(c, k)
        <3>1. send_no_thinking' = send_no_thinking
            BY <2>4 DEF LookRejected, OnRejection
        <3>2. CASE looks' = [looks EXCEPT ![c][k].at = "asks_again"]
            <4>1. others /\ looks'[c][k].bad = looks[c][k].bad
                BY <2>2, <3>2 DEF Typed, ALook
            <4>2. rejects \/ looks[c][k].bad
                BY <2>4 DEF LookRejected
            <4> QED
                BY <2>1, <3>1, <4>1, <4>2 DEF AgainForTheOption, LatchIsDeserved
        <3>3. CASE LookEnds(c, k, Unchecked)
            BY <2>1, <2>3, <3>1, <3>3 DEF AgainForTheOption, LatchIsDeserved
        <3> QED
            BY <2>4, <3>2, <3>3 DEF LookRejected
    <2>5. CASE LookAnswered(c, k)
        <3>1. others /\ looks'[c][k].at = "over"
            BY <2>3, <2>5 DEF LookAnswered
        <3>2. ~send_no_thinking' => rejects
            BY <2>5 DEF LookAnswered, AgainForTheOption, LatchIsDeserved
        <3> QED
            BY <2>1, <3>1, <3>2 DEF AgainForTheOption, LatchIsDeserved
    <2>6. CASE LookFails(c, k)
        <3>1. others /\ looks'[c][k].at = "over" /\ UNCHANGED send_no_thinking
            BY <2>3, <2>6 DEF LookFails
        <3> QED
            BY <2>1, <3>1 DEF AgainForTheOption, LatchIsDeserved
    <2>7. CASE LookAsks(c, k)
        <3>1. others /\ looks'[c][k].at = "asks" /\ UNCHANGED send_no_thinking
            BY <2>2, <2>7 DEF LookAsks, Typed, ALook
        <3> QED
            BY <2>1, <3>1 DEF AgainForTheOption, LatchIsDeserved
    <2> QED
        BY <1>4, <2>4, <2>5, <2>6, <2>7
<1> QED
    BY <1>1, <1>2, <1>3, <1>4
    DEF Next, Step, vars, Ask, FindSource, BeginImage, Post, GiveUp, Show, Take, Restart, Loaded,
        Expires

--------------------------------------------------------------------------------
(* The best attempt. *)

LEMMA BestStep ==
    ASSUME IInv, ImageAssumption, [Next]_vars
    PROVE  BestSoFar'
<1> USE DEF IInv
<1>1. ASSUME UNCHANGED <<reviews, best>>
      PROVE  BestSoFar'
    BY <1>1 DEF BestSoFar
<1>2. ASSUME NEW c \in Calls, Reviewed(c)
      PROVE  BestSoFar'
    <2> DEFINE review == merge_reviews(looks[c])
               n == Len(reviews[c]) + 1
               kept == IF best[c] = 0 \/ prefer_second(reviews[c][best[c]], review) THEN n
                       ELSE best[c]
    <2>1. review \in Reviews /\ reviews[c] \in Seq(Reviews) /\ n \in Nat
        <3>1. looks[c] \in Looks /\ reviews[c] \in Seq(Reviews)
            BY DEF Typed
        <3>2. review \in Reviews
            BY <3>1, MergedIsAReview
        <3>3. Len(reviews[c]) \in Nat
            BY <3>1
        <3> QED
            BY <3>1, <3>2, <3>3
    <2>2. /\ reviews' = [reviews EXCEPT ![c] = Append(reviews[c], review)]
          /\ best' = [best EXCEPT ![c] = kept]
        BY <1>2 DEF Reviewed
    <2>3. \A d \in Calls \ {c} : reviews'[d] = reviews[d] /\ best'[d] = best[d]
        BY <2>2 DEF Typed
    <2>4. reviews'[c] = Append(reviews[c], review) /\ best'[c] = kept
        BY <2>2 DEF Typed
    <2>5. /\ Len(reviews'[c]) = n /\ reviews'[c][n] = review /\ DOMAIN reviews'[c] = 1 .. n
          /\ \A k \in 1 .. (n - 1) : reviews'[c][k] = reviews[c][k] /\ reviews[c][k] \in Reviews
        BY <2>1, <2>4
    <2>6. /\ best[c] \in 0 .. (n - 1)
          /\ n > 1 => best[c] > 0
          /\ \A k \in 1 .. (n - 1) : ~Beats(reviews[c][k], reviews[c][best[c]])
        BY <2>1 DEF BestSoFar
    <2> HIDE DEF review, n
    <2>7. ~Beats(review, review)
        BY <2>1, ImageAssumption DEF Beats, Reviews, Unchecked, ImageAssumption
    <2>8. \A k \in 1 .. n : ~Beats(reviews'[c][k], reviews'[c][kept])
        <3>1. CASE best[c] = 0
            BY <2>1, <2>5, <2>6, <2>7, <3>1
        <3>2. CASE best[c] # 0
            <4>1. reviews[c][best[c]] \in Reviews /\ reviews'[c][best[c]] = reviews[c][best[c]]
                <5>1. best[c] \in 1 .. (n - 1)
                    BY <2>1, <2>6, <3>2
                <5> QED
                    BY <2>5, <5>1
            <4>2. \A k \in 1 .. (n - 1) : reviews'[c][k] \in Reviews
                                     /\ ~Beats(reviews'[c][k], reviews[c][best[c]])
                BY <2>5, <2>6
            <4>3. CASE prefer_second(reviews[c][best[c]], review)
                <5>1. kept = n
                    BY <4>3
                <5>2. \A k \in 1 .. (n - 1) : ~Beats(reviews'[c][k], review)
                    BY <2>1, <4>1, <4>2, <4>3, PreferenceIsSound
                <5> QED
                    BY <2>1, <2>5, <2>7, <5>1, <5>2
            <4>4. CASE ~prefer_second(reviews[c][best[c]], review)
                <5>1. kept = best[c]
                    BY <3>2, <4>4
                <5>2. ~Beats(review, reviews[c][best[c]])
                    BY <2>1, <4>1, <4>4, PreferenceIsSound
                <5> QED
                    BY <2>1, <2>5, <4>1, <4>2, <5>1, <5>2
            <4> QED
                BY <4>3, <4>4
        <3> QED
            BY <3>1, <3>2
    <2>9. kept \in 0 .. n /\ (n > 0 => kept > 0)
        BY <2>1, <2>6
    <2> HIDE DEF kept
    <2> QED
        BY <2>3, <2>4, <2>5, <2>8, <2>9 DEF BestSoFar
<1>3. ASSUME ~UNCHANGED <<reviews, best>>
      PROVE  \E c \in Calls : Reviewed(c)
    BY <1>3, ZenonT(30)
    DEF Next, Step, vars, callVars, Ask, FindSource, BeginImage, Post, GiveUp, Show, Take, Generated,
        Restart, Loaded, Expires, LookAsks, LookRejected, LookAnswered, LookFails
<1> QED
    BY <1>1, <1>2, <1>3

--------------------------------------------------------------------------------
(* The pictures of a reply. *)

(* A step of a call moves no other one, and lets it in only by Ask.         *)
LEMMA CountedStep ==
    ASSUME Typed, ImageAssumption, Counted, [Next]_vars
    PROVE  Counted'
<1>1. ASSUME UNCHANGED <<at, reviews, generated>>
      PROVE  Counted'
    BY <1>1 DEF Counted, Spent
<1>2. \A c \in Calls : Len(reviews[c]) \in Nat
    BY DEF Typed
<1>3. Retries \in Nat
    BY DEF ImageAssumption
<1>4. ASSUME NEW c \in Calls, UNCHANGED <<reviews, generated>>, NEW place, Goes(c, place),
             Spent(c) => Spent(c)'
      PROVE  Counted'
    <2>1. \A d \in Calls \ {c} : at'[d] = at[d]
        BY <1>4 DEF Goes, Typed
    <2> QED
        BY <1>4, <2>1 DEF Counted, Spent
<1>5. ASSUME NEW c \in Calls, NEW place, Goes(c, place)
      PROVE  at'[c] = place
    BY <1>5 DEF Goes, Typed
<1>6. ASSUME NEW c \in Calls, Ask(c) \/ FindSource(c)
      PROVE  Counted'
    <2>1. PICK place \in Before \cup {"cannot_edit", "nothing_to_edit"} : Goes(c, place)
        BY <1>6 DEF Ask, FindSource, Before
    <2>2. at[c] \in Before /\ UNCHANGED <<reviews, generated>>
        BY <1>6 DEF Ask, FindSource, Before
    <2>3. at'[c] = place
        BY <1>5, <2>1
    <2>4. Spent(c) => Spent(c)'
        BY <2>2, <2>3 DEF Spent, Before
    <2> QED
        BY <1>4, <2>1, <2>2, <2>4
<1>7. ASSUME NEW c \in Calls, BeginImage(c)
      PROVE  Counted'
    <2>1. Goes(c, "prompt") /\ at[c] = "capabilities" /\ UNCHANGED <<reviews, generated>>
        BY <1>7 DEF BeginImage
    <2>2. Spent(c) => Spent(c)'
        BY <1>3, <1>5, <2>1 DEF Spent, Before
    <2> QED
        BY <1>4, <2>1, <2>2
<1>8. ASSUME NEW c \in Calls, NEW place \in {"failed", "posting", "posted", "not_sent"},
             Goes(c, place), UNCHANGED <<reviews, generated>>
      PROVE  Counted'
    <2>1. Spent(c) => Spent(c)'
        BY <1>5, <1>8 DEF Spent, Before
    <2> QED
        BY <1>4, <1>8, <2>1
<1>9. ASSUME NEW c \in Calls, Refused(c), UNCHANGED <<reviews, generated>>
      PROVE  Counted'
    BY <1>8, <1>9 DEF Refused
<1>10. ASSUME NEW c \in Calls, Post(c)
       PROVE  Counted'
    <2>1. at[c] = "prompt" /\ UNCHANGED reviews
        BY <1>10 DEF Post
    <2>2. CASE UNCHANGED generated /\ Refused(c)
        BY <1>9, <2>1, <2>2
    <2>3. CASE generated' = [generated EXCEPT ![c] = @ + 1] /\ Goes(c, "waiting")
        <3>1. \A d \in Calls \ {c} : at'[d] = at[d] /\ generated'[d] = generated[d]
            BY <2>3 DEF Goes, Typed, Counted
        <3>2. at'[c] = "waiting" /\ generated'[c] = generated[c] + 1
              /\ generated' \in [Calls -> Nat]
            BY <2>3 DEF Goes, Typed, Counted
        <3>3. Spent(c)'
            BY <1>2, <1>3, <2>1, <3>2 DEF Counted, Spent, Before
        <3> QED
            BY <2>1, <3>1, <3>2, <3>3 DEF Counted, Spent
    <2> QED
        BY <1>10, <2>2, <2>3 DEF Post
<1>11. ASSUME NEW c \in Calls, GiveUp(c) \/ Show(c)
       PROVE  Counted'
    BY <1>8, <1>9, <1>11 DEF GiveUp, Show
<1>12. ASSUME Generated
       PROVE  Counted'
    <2>1. generating[1] \in Calls /\ UNCHANGED <<reviews, generated>>
        BY <1>12 DEF Generated, Typed
    <2>2. PICK c \in Calls : c = generating[1]
        BY <2>1
    <2>3. CASE UNCHANGED at
        BY <1>1, <2>1, <2>3
    <2>4. CASE Refused(c)
        BY <1>9, <2>1, <2>4
    <2>5. CASE Awaits(c, generating[2]) /\ Goes(c, "looking")
        <3>1. at[c] = "waiting"
            BY <2>5 DEF Awaits
        <3>2. at'[c] = "looking"
            BY <1>5, <2>1, <2>5
        <3>3. Spent(c) => Spent(c)'
            BY <2>1, <3>1, <3>2 DEF Spent, Before
        <3> QED
            BY <1>4, <2>1, <2>5, <3>3
    <2> QED
        BY <1>12, <2>2, <2>3, <2>4, <2>5 DEF Generated
<1>13. ASSUME Restart
       PROVE  Counted'
    <2>1. UNCHANGED <<reviews, generated>>
        BY <1>13 DEF Restart, callVars
    <2>2. \A c \in Calls : at'[c] = at[c] \/ at'[c] \in {"failed", "posting"}
        BY <1>13 DEF Restart
    <2> QED
        BY <2>1, <2>2 DEF Counted, Spent, Before
<1>14. ASSUME NEW c \in Calls, Reviewed(c)
       PROVE  Counted'
    <2> DEFINE review == merge_reviews(looks[c])
               n == Len(reviews[c]) + 1
               place == IF review \in {Unchecked, 0} \/ n > Retries THEN "posting" ELSE "prompt"
    <2>1. /\ at[c] = "looking" /\ Goes(c, place) /\ UNCHANGED generated
          /\ reviews' = [reviews EXCEPT ![c] = Append(@, review)]
        BY <1>14 DEF Reviewed
    <2>2. \A d \in Calls \ {c} : at'[d] = at[d] /\ reviews'[d] = reviews[d]
        BY <2>1 DEF Goes, Typed
    <2>3. reviews'[c] = Append(reviews[c], review) /\ at'[c] = place
        BY <2>1 DEF Goes, Typed
    <2>4. Len(reviews'[c]) = n
        <3>1. reviews[c] \in Seq(Reviews)
            BY DEF Typed
        <3> HIDE DEF review
        <3> QED
            BY <2>3, <3>1
    <2>5. place = "posting" \/ (place = "prompt" /\ n <= Retries)
        BY <1>2, <1>3
    <2> HIDE DEF place
    <2>6. Spent(c)'
        BY <1>2, <1>3, <2>1, <2>3, <2>4, <2>5 DEF Counted, Spent, Before
    <2> QED
        BY <2>1, <2>2, <2>6 DEF Counted, Spent
<1>15. ASSUME Take \/ Loaded \/ Expires
       PROVE  Counted'
    BY <1>1, <1>15 DEF Take, Loaded, Expires, callVars
<1>16. ASSUME NEW c \in Calls, NEW k \in DOMAIN looks[c],
              LookAsks(c, k) \/ LookRejected(c, k) \/ LookAnswered(c, k) \/ LookFails(c, k)
       PROVE  Counted'
    BY <1>1, <1>16 DEF LookAsks, LookRejected, LookAnswered, LookFails, callVars
<1>17. CASE UNCHANGED vars
    BY <1>1, <1>17 DEF vars, callVars
<1> QED
    BY <1>6, <1>7, <1>10, <1>11, <1>12, <1>13, <1>14, <1>15, <1>16, <1>17 DEF Next, Step

(* Only Ask lets a call in, and it counts it first.                         *)
LEMMA LetInStep ==
    ASSUME Typed, ImageAssumption, LetIn, [Next]_vars
    PROVE  LetIn'
<1>1. ASSUME \A c \in Calls : at'[c] \in {"new", "too_many"} <=> at[c] \in {"new", "too_many"},
             UNCHANGED image_calls
      PROVE  LetIn'
    <2>1. \A r : Admitted(r)' = Admitted(r)
        BY <1>1 DEF Admitted, Asked
    <2> QED
        BY <1>1, <2>1 DEF LetIn
<1>2. ASSUME NEW c \in Calls, Ask(c)
      PROVE  LetIn'
    <2>1. CASE c \in Slash
        <3>1. UNCHANGED image_calls /\ \A d \in Calls \ Slash : at'[d] = at[d]
            BY <1>2, <2>1 DEF Ask, Goes, Typed
        <3>2. \A r : Admitted(r)' = Admitted(r)
            BY <3>1 DEF Admitted, Asked
        <3> QED
            BY <3>1, <3>2 DEF LetIn
    <2>2. CASE c \notin Slash
        <3> DEFINE r == ReplyOf[c]
                   n == image_calls[r] + 1
        <3>1. r \in Replies /\ n \in Nat
            <4>1. r \in Replies
                BY <2>2 DEF Replies
            <4>2. image_calls[r] \in Nat
                BY <4>1 DEF Typed
            <4> QED
                BY <4>1, <4>2
        <3>2. image_calls' = [image_calls EXCEPT ![r] = n]
            BY <1>2, <2>2 DEF Ask
        <3>3. image_calls'[r] = n /\ \A q \in Replies \ {r} : image_calls'[q] = image_calls[q]
            BY <3>1, <3>2 DEF Typed
        <3>4. \E place \in {"too_many", "source", "capabilities"} :
                 Goes(c, place) /\ (n > MAX_IMAGE_CALLS <=> place = "too_many")
            BY <1>2, <2>2, <3>3 DEF Ask, TooMany
        <3>5. PICK place \in {"too_many", "source", "capabilities"} :
                 Goes(c, place) /\ (n > MAX_IMAGE_CALLS <=> place = "too_many")
            BY <3>4
        <3>6. at'[c] = place /\ at[c] = "new" /\ \A d \in Calls \ {c} : at'[d] = at[d]
            BY <1>2, <3>5 DEF Ask, Goes, Typed
        <3>7. \A q \in Replies \ {r} : Admitted(q)' = Admitted(q)
            BY <3>6 DEF Admitted, Asked
        <3>8. CASE place = "too_many"
            <4>1. Admitted(r)' = Admitted(r)
                BY <3>6, <3>8 DEF Admitted, Asked
            <4>2. image_calls[r] <= n
                <5>1. image_calls[r] \in Nat
                    BY <3>1 DEF Typed
                <5> QED
                    BY <5>1
            <4>3. \A q \in Replies : image_calls[q] <= image_calls'[q]
                <5>1. \A q \in Replies : image_calls[q] \in Nat
                    BY DEF Typed
                <5> HIDE DEF r, n
                <5> QED
                    BY <3>3, <4>2, <5>1
            <4>4. \A q \in Replies : Admitted(q)' = Admitted(q)
                BY <3>7, <4>1
            <4>5. \A q \in Replies : image_calls[q] \in Nat /\ image_calls'[q] \in Nat
                BY <3>1, <3>3 DEF Typed
            <4>6. \A q \in Replies : Cardinality(Admitted(q)) \in Nat
                BY FS_CardinalityType DEF LetIn
            <4> QED
                BY <4>3, <4>4, <4>5, <4>6 DEF LetIn
        <3>9. CASE place # "too_many"
            <4>1. Admitted(r)' = Admitted(r) \cup {c} /\ c \notin Admitted(r)
                BY <2>2, <3>6, <3>9 DEF Admitted, Asked
            <4>2. IsFiniteSet(Admitted(r)) /\ Cardinality(Admitted(r)) <= n - 1
                <5>1. image_calls[r] \in Nat /\ Cardinality(Admitted(r)) <= image_calls[r]
                      /\ IsFiniteSet(Admitted(r))
                    BY <3>1 DEF LetIn, Typed
                <5>2. image_calls[r] = n - 1
                    BY <5>1
                <5> QED
                    BY <5>1, <5>2
            <4>3. /\ IsFiniteSet(Admitted(r) \cup {c})
                  /\ Cardinality(Admitted(r) \cup {c}) = Cardinality(Admitted(r)) + 1
                BY <4>1, <4>2, FS_AddElement
            <4>4. Cardinality(Admitted(r)) \in Nat
                BY <4>2, FS_CardinalityType
            <4>5. n <= MAX_IMAGE_CALLS
                BY <3>1, <3>5, <3>9 DEF ImageAssumption
            <4>6. /\ IsFiniteSet(Admitted(r)')
                  /\ Cardinality(Admitted(r)') <= image_calls'[r]
                  /\ Cardinality(Admitted(r)') <= MAX_IMAGE_CALLS
                <5> HIDE DEF r, n
                <5>1. Cardinality(Admitted(r)') <= n
                    BY <3>1, <4>1, <4>2, <4>3, <4>4
                <5>2. Cardinality(Admitted(r)') \in Nat /\ MAX_IMAGE_CALLS \in Nat
                    BY <4>1, <4>3, <4>4 DEF ImageAssumption
                <5> QED
                    BY <3>1, <3>3, <4>1, <4>3, <4>5, <5>1, <5>2
            <4> QED
                BY <3>3, <3>7, <4>6 DEF LetIn
        <3> QED
            BY <3>8, <3>9
    <2> QED
        BY <2>1, <2>2
<1>3. ASSUME NEW c \in Calls, NEW place \in Places \ {"new", "too_many"}, Goes(c, place),
             at[c] \notin {"new", "too_many"}, UNCHANGED image_calls
      PROVE  LetIn'
    <2>1. at'[c] = place /\ \A d \in Calls \ {c} : at'[d] = at[d]
        BY <1>3 DEF Goes, Typed
    <2> QED
        BY <1>1, <1>3, <2>1
<1>4. ASSUME NEW c \in Calls, FindSource(c) \/ BeginImage(c) \/ Post(c) \/ GiveUp(c) \/ Show(c)
                              \/ Reviewed(c)
      PROVE  LetIn'
    <2>1. at[c] \notin {"new", "too_many"} /\ UNCHANGED image_calls
        BY <1>4 DEF FindSource, BeginImage, Post, GiveUp, Show, Reviewed
    <2>2. \E place \in Places \ {"new", "too_many"} : Goes(c, place)
        BY <1>4, Zenon
        DEF FindSource, BeginImage, Post, GiveUp, Show, Reviewed, Refused, Places, Over
    <2> QED
        BY <1>3, <2>1, <2>2
<1>5. ASSUME Generated
      PROVE  LetIn'
    <2> DEFINE c == generating[1]
    <2>1. c \in Calls /\ UNCHANGED image_calls
        BY <1>5 DEF Generated, Typed
    <2>2. CASE UNCHANGED at
        BY <1>1, <2>1, <2>2
    <2>3. CASE Awaits(c, generating[2]) /\ (Refused(c) \/ Goes(c, "looking"))
        <3>1. at[c] \notin {"new", "too_many"}
            BY <2>3 DEF Awaits
        <3>2. \E place \in Places \ {"new", "too_many"} : Goes(c, place)
            BY <2>3 DEF Refused, Places, Over
        <3> QED
            BY <1>3, <2>1, <3>1, <3>2
    <2> QED
        BY <1>5, <2>2, <2>3 DEF Generated
<1>6. ASSUME Restart
      PROVE  LetIn'
    <2>1. UNCHANGED image_calls
        BY <1>6 DEF Restart
    <2>2. \A c \in Calls : at'[c] \in {"new", "too_many"} <=> at[c] \in {"new", "too_many"}
        BY <1>6 DEF Restart
    <2> QED
        BY <1>1, <2>1, <2>2
<1>7. ASSUME UNCHANGED <<at, image_calls>>
      PROVE  LetIn'
    BY <1>1, <1>7
<1>8. ASSUME Take \/ Loaded \/ Expires
      PROVE  LetIn'
    BY <1>7, <1>8 DEF Take, Loaded, Expires, callVars
<1>9. ASSUME NEW c \in Calls, NEW k \in DOMAIN looks[c],
             LookAsks(c, k) \/ LookRejected(c, k) \/ LookAnswered(c, k) \/ LookFails(c, k)
      PROVE  LetIn'
    BY <1>7, <1>9 DEF LookAsks, LookRejected, LookAnswered, LookFails, callVars
<1>10. CASE UNCHANGED vars
    BY <1>7, <1>10 DEF vars, callVars
<1> QED
    BY <1>2, <1>4, <1>5, <1>6, <1>8, <1>9, <1>10 DEF Next, Step

(* What the calls let in spend together.                                    *)
LEMMA PicturesBounded ==
    ASSUME ImageAssumption, Counted, LetIn
    PROVE  ReplyIsBounded
<1> SUFFICES ASSUME NEW r \in Replies
             PROVE  Cardinality(Pictures(r)) <= MAX_IMAGE_CALLS * (1 + Retries)
    BY DEF ReplyIsBounded
<1> DEFINE A == Admitted(r)
           N == 1 .. (1 + Retries)
<1>1. Retries \in Nat /\ MAX_IMAGE_CALLS \in Nat
    BY DEF ImageAssumption
<1>2. IsFiniteSet(N) /\ Cardinality(N) = 1 + Retries
    <2>2. 1 + Retries \in Int /\ 1 \in Int
        BY <1>1
    <2>3. IsFiniteSet(N) /\ Cardinality(N) = IF 1 > 1 + Retries THEN 0 ELSE (1 + Retries) - 1 + 1
        BY <2>2, FS_Interval, Zenon
    <2> QED
        BY <1>1, <2>3
<1>3. IsFiniteSet(A) /\ Cardinality(A) <= MAX_IMAGE_CALLS
    BY DEF LetIn
<1>4. Cardinality(A) \in Nat
    BY <1>3, FS_CardinalityType
<1>5. IsFiniteSet(A \X N) /\ Cardinality(A \X N) = Cardinality(A) * (1 + Retries)
    <2> HIDE DEF A, N
    <2> QED
        BY <1>2, <1>3, FS_Product
<1>6. Pictures(r) \subseteq A \X N
    <2> SUFFICES ASSUME NEW c \in Asked(r), NEW n \in 1 .. generated[c]
                 PROVE  c \in A /\ n \in N
        BY DEF Pictures
    <2>1. c \in Calls /\ Spent(c) /\ generated[c] \in 0 .. (1 + Retries)
        BY DEF Asked, Counted, Spent
    <2>2. generated[c] # 0
        BY <2>1
    <2>3. at[c] \notin {"new", "too_many"}
        BY <2>1, <2>2 DEF Spent, Before
    <2> QED
        BY <1>1, <2>1, <2>3 DEF Admitted
<1>7. Cardinality(Pictures(r)) <= Cardinality(A \X N)
    <2> HIDE DEF A, N
    <2> QED
        BY <1>5, <1>6, FS_Subset
<1>8. IsFiniteSet(Pictures(r))
    <2> HIDE DEF A, N
    <2> QED
        BY <1>5, <1>6, FS_Subset
<1>9. Cardinality(Pictures(r)) \in Nat
    BY <1>8, FS_CardinalityType
<1>10. \A a, m, k \in Nat : a <= m => a * k <= m * k
    OBVIOUS
<1>11. Cardinality(A) * (1 + Retries) <= MAX_IMAGE_CALLS * (1 + Retries)
    <2> HIDE DEF A
    <2>1. 1 + Retries \in Nat
        BY <1>1
    <2> QED
        BY <1>1, <1>3, <1>4, <1>10, <2>1
<1> QED
    <2> HIDE DEF A, N
    <2>1. Cardinality(A) * (1 + Retries) \in Nat /\ MAX_IMAGE_CALLS * (1 + Retries) \in Nat
        BY <1>1, <1>4
    <2> QED
        BY <1>5, <1>7, <1>9, <1>11, <2>1

--------------------------------------------------------------------------------
(* A look at a time. *)

(* A look that is over was answered, for the option alone ends none.        *)
LEMMA RejectionStep ==
    ASSUME Typed, ImageAssumption, "look" \notin Failures, [Next]_vars,
           NEW c \in Calls, NEW k \in DOMAIN looks[c],
           looks[c][k].at = "asks", looks[c][k].sent, ~looks[c][k].bad,
           k \in DOMAIN looks'[c], looks'[c][k].at = "over"
    PROVE  looks'[c][k].found # Unchecked
<1>1. looks[c] \in Looks /\ looks[c][k] \in ALook
    BY DEF Typed, Looks
<1>2. ASSUME looks'[c] = looks[c]
      PROVE  FALSE
    BY <1>2
<1>3. ASSUME NEW d \in Calls, NEW j \in DOMAIN looks[d],
             LookAsks(d, j) \/ LookRejected(d, j) \/ LookAnswered(d, j) \/ LookFails(d, j)
      PROVE  looks'[c][k].found # Unchecked
    <2>1. looks[d] \in Looks /\ looks[d][j] \in ALook
        BY DEF Typed, Looks
    <2>2. ASSUME <<d, j>> # <<c, k>>
          PROVE  FALSE
        <3>1. \A result : LookEnds(d, j, result) => looks'[c][k] = looks[c][k]
            BY <2>1, <2>2 DEF LookEnds, Typed, ALook
        <3>2. looks' = [looks EXCEPT ![d][j].at = "asks_again"] => looks'[c][k] = looks[c][k]
            BY <2>1, <2>2 DEF Typed, ALook
        <3>a. looks' = [looks EXCEPT ![d][j].at = "asks", ![d][j].sent = send_no_thinking]
              => looks'[c][k] = looks[c][k]
            BY <2>1, <2>2 DEF Typed, ALook
        <3>3. looks'[c][k] = looks[c][k]
            BY <1>3, <3>1, <3>2, <3>a DEF LookAsks, LookRejected, LookAnswered, LookFails
        <3> QED
            BY <3>3
    <2>3. CASE d = c /\ j = k
        <3>1. CASE LookRejected(c, k)
            <4>1. looks' = [looks EXCEPT ![c][k].at = "asks_again"]
                BY <3>1 DEF LookRejected, SentOption
            <4> QED
                BY <1>1, <4>1 DEF Typed, ALook
        <3>2. CASE LookAnswered(c, k)
            <4>1. PICK found \in 0 .. MaxMissing : LookEnds(c, k, found)
                BY <3>2 DEF LookAnswered
            <4>2. looks'[c][k].found = found
                BY <1>1, <4>1 DEF LookEnds, Typed, ALook
            <4> QED
                BY <4>1, <4>2 DEF Unchecked
        <3>3. CASE LookFails(c, k)
            BY <3>3 DEF LookFails
        <3>4. ~LookAsks(c, k)
            BY DEF LookAsks
        <3> QED
            BY <1>3, <2>3, <3>1, <3>2, <3>3, <3>4
    <2> QED
        BY <2>2, <2>3
<1>4. ASSUME NEW d \in Calls, Reviewed(d)
      PROVE  FALSE
    <2>1. looks' = [looks EXCEPT ![d] = << >>]
          /\ \A j \in DOMAIN looks[d] : looks[d][j].at = "over"
        BY <1>4 DEF Reviewed
    <2> QED
        BY <1>2, <2>1 DEF Typed
<1>5. ASSUME Generated
      PROVE  FALSE
    <2>1. UNCHANGED looks \/ \E d \in Calls, bad \in [{1, 2} -> BOOLEAN] :
              looks' = [looks EXCEPT ![d] = LooksAt(d, bad)]
        <3>1. generating[1] \in Calls
            BY <1>5 DEF Generated, Typed
        <3> QED
            BY <1>5, <3>1, GeneratedStartsLooks
    <2>2. ASSUME NEW d \in Calls, NEW bad \in [{1, 2} -> BOOLEAN],
                 looks' = [looks EXCEPT ![d] = LooksAt(d, bad)]
          PROVE  FALSE
        <3>1. \A j \in DOMAIN LooksAt(d, bad) : LooksAt(d, bad)[j].at = "begins"
            BY LooksAtIsLooks DEF Typed
        <3> QED
            BY <1>2, <2>2, <3>1 DEF Typed
    <2> QED
        BY <1>2, <2>1, <2>2
<1>6. ASSUME UNCHANGED looks
      PROVE  FALSE
    BY <1>2, <1>6
<1> QED
    BY <1>3, <1>4, <1>5, <1>6
    DEF Next, Step, vars, lookVars, Ask, FindSource, BeginImage, Post, GiveUp, Show, Take, Restart,
        Loaded, Expires

--------------------------------------------------------------------------------
(* The theorems. *)

LEMMA TypedImplies ==
    ASSUME IInv
    PROVE  TypeOK
<1>1. \A c \in Calls : \A k \in DOMAIN looks[c] :
          looks[c][k].at \in {"begins", "asks", "asks_again", "over"} /\ looks[c][k].found \in Reviews
    <2> SUFFICES ASSUME NEW c \in Calls, NEW k \in DOMAIN looks[c]
                 PROVE  looks[c][k] \in ALook
        BY DEF ALook, LookAts
    <2>1. looks[c] \in Seq(ALook)
        BY DEF IInv, Typed, Looks
    <2> QED
        BY <2>1
<1>2. \A c \in Calls : reviews[c] \in Seq(Reviews) /\ best[c] \in 0 .. Len(reviews[c])
    BY DEF IInv, Typed, BestSoFar
<1> QED
    BY <1>1, <1>2 DEF IInv, Typed, TypeOK, Places

LEMMA BestImplies ==
    ASSUME IInv
    PROVE  BestIsPosted
<1> SUFFICES ASSUME NEW c \in Calls, NEW k \in DOMAIN reviews[c], reviews[c][k] # Unchecked
             PROVE  LET kept == reviews[c][best[c]] IN kept # Unchecked /\ kept <= reviews[c][k]
    BY DEF BestIsPosted
<1>1. reviews[c] \in Seq(Reviews) /\ k \in 1 .. Len(reviews[c])
    BY DEF IInv, Typed
<1>2. best[c] \in 1 .. Len(reviews[c]) /\ ~Beats(reviews[c][k], reviews[c][best[c]])
    BY <1>1 DEF IInv, BestSoFar
<1>3. reviews[c][k] \in Reviews /\ reviews[c][best[c]] \in Reviews
    BY <1>1, <1>2
<1> QED
    BY <1>2, <1>3, ImageAssumption DEF Beats, Reviews, Unchecked, ImageAssumption

(* IInv is an inductive invariant of requests, looks and the service. *)
THEOREM Invariance == Spec => []IInv
<1> USE ImageAssumption
<1>1. Init => IInv
    BY InitEstablishes
<1>2. IInv /\ [Next]_vars => IInv'
    BY StepTyped, LatchStep, BestStep, CountedStep, LetInStep DEF IInv
<1> QED
    BY <1>1, <1>2, PTL DEF Spec

(* Every reachable state is well typed. *)
THEOREM TypeCorrect == Spec => []TypeOK
    BY Invariance, TypedImplies, PTL

(* Thinking is turned back on only for a server that rejects the option that *)
(* turns it off, whatever else it refuses (side_llm.py).                     *)
THEOREM LatchDeserved == Spec => []LatchIsDeserved
<1>1. IInv => LatchIsDeserved
    BY DEF IInv
<1> QED
    BY <1>1, Invariance, PTL

(* The picture posted is one that no other attempt of its call beats, for any *)
(* number of retries and of things a look may miss (image_generation.py).     *)
THEOREM BestPosted == Spec => []BestIsPosted
    BY Invariance, BestImplies, PTL

(* The service makes no more pictures for a reply than its calls and their   *)
(* retries allow, for any number of calls made at once, of retries, of       *)
(* restarts and of requests given up (tool_functions.py, image_generation.py).*)
THEOREM ReplyBounded == Spec => []ReplyIsBounded
<1>1. IInv => ReplyIsBounded
    BY PicturesBounded, ImageAssumption DEF IInv
<1> QED
    BY <1>1, Invariance, PTL

(* While looks do not fail of themselves, a rejection of the option leaves no *)
(* picture unchecked, whatever the other looks have found out (side_llm.py).  *)
THEOREM RejectionRetried ==
    ASSUME "look" \notin Failures
    PROVE  Spec => RejectionIsRetried
<1>1. ASSUME IInv, [Next]_vars
      PROVE  [\A c \in Calls : \A k \in DOMAIN looks[c] :
                /\ looks[c][k].at = "asks" /\ looks[c][k].sent /\ ~looks[c][k].bad
                /\ k \in DOMAIN looks'[c] /\ looks'[c][k].at = "over"
                => looks'[c][k].found # Unchecked]_vars
    BY <1>1, RejectionStep, ImageAssumption DEF IInv
<1> QED
    BY <1>1, Invariance, PTL DEF Spec, RejectionIsRetried

================================================================================
