--------------------------- MODULE PromptBuild_Proofs ---------------------------
(***************************************************************************)
(* What AttachmentCache keeps for every set of keys, sizes, times to live  *)
(* and number of events: types, an exact count of bytes, and no image put  *)
(* back after its message was edited or deleted, although what is known of *)
(* an event is forgotten after the time to live.  The cache under the      *)
(* prompt builds of a channel is that cache, whatever the workers, the     *)
(* policy and Discord do.  And of the builds themselves: between refreshes *)
(* a prompt continues the one before it, what the bot knows to be deleted  *)
(* is in no prompt that is finished after that, a window holds nothing     *)
(* from before a reset and fits its slot, and nobody waits for a load that *)
(* has ended.                                                              *)
(***************************************************************************)
EXTENDS PromptBuild, FiniteSetTheorems, TLAPS

(***************************************************************************)
(* The cache by itself                                                     *)
(***************************************************************************)

(* No load outlives its timeout. *)
LoadsInTime ==
    \A k \in Loading : inflight[k].began <= clock /\ clock <= inflight[k].began + MaxLoad

(* Nothing is newer than the newest event. *)
GenerationNewest == \A m \in Messages : forgotten[m] <= generation

(* What a load under way must not know is still remembered: the event since *)
(* it began.                                                                *)
EventRemembered ==
    \A k \in Loading : forgotten[k[1]] > inflight[k].generation =>
        /\ k[1] \in DOMAIN invalidated
        /\ invalidated[k[1]].generation = forgotten[k[1]]
        /\ invalidated[k[1]].at >= inflight[k].began

IInv == CacheTypeOK /\ LoadsInTime /\ GenerationNewest /\ EventRemembered /\ NoLateStore

AnEntry == [expires : Nat, began : Nat]
ALoad   == [generation : Nat, began : Nat]
AnEvent == [generation : Nat, deleted : BOOLEAN, at : Nat]

LEMMA OwnerIsAMessage ==
    ASSUME CacheAssumption, NEW k \in Keys
    PROVE  k[1] \in Messages
    BY DEF CacheAssumption

LEMMA ConstantsAreNumbers ==
    ASSUME CacheAssumption, LoadsAreShort
    PROVE  TTL \in Nat /\ MaxLoad \in Nat /\ MaxLoad <= TTL
    BY DEF CacheAssumption, LoadsAreShort

LEMMA InitEstablishes ==
    ASSUME CacheInit
    PROVE  IInv
<1>1. DOMAIN << >> = {} /\ << >> \in [{} -> AnEntry] /\ << >> \in [{} -> ALoad] /\ << >> \in [{} -> AnEvent]
    OBVIOUS
<1>2. CacheTypeOK
    BY <1>1 DEF CacheInit, CacheTypeOK, AnEntry, ALoad, AnEvent, Loading
<1>3. LoadsInTime /\ GenerationNewest /\ EventRemembered /\ NoLateStore
    BY <1>1 DEF CacheInit, LoadsInTime, GenerationNewest, EventRemembered, NoLateStore, Loading
<1> QED
    BY <1>2, <1>3 DEF IInv

(* The steps that only drop entries, or use them. *)
LEMMA FewerEntries ==
    ASSUME IInv, NEW S \in SUBSET DOMAIN entries, entries' = Only(entries, S),
           UNCHANGED <<inflight, generation, invalidated, clock, forgotten>>
    PROVE  IInv'
<1>1. DOMAIN entries' = S /\ \A k \in S : entries'[k] = entries[k]
    BY DEF Only
<1>2. entries' \in [DOMAIN entries' -> AnEntry] /\ DOMAIN entries' \subseteq Keys
    BY <1>1 DEF IInv, CacheTypeOK, AnEntry, Only
<1>3. CacheTypeOK'
    BY <1>2 DEF IInv, CacheTypeOK, AnEntry, Loading
<1> QED
    BY <1>1, <1>3 DEF IInv, LoadsInTime, GenerationNewest, EventRemembered, NoLateStore, Loading

LEMMA SameEntries ==
    ASSUME IInv, UNCHANGED <<entries, inflight, generation, invalidated, clock, forgotten>>
    PROVE  IInv'
    BY DEF IInv, CacheTypeOK, LoadsInTime, GenerationNewest, EventRemembered, NoLateStore, Loading

LEMMA LookKeeps ==
    ASSUME IInv, NEW k \in Keys, Hit(k) \/ Coalesced(k)
    PROVE  IInv'
<1>1. CASE Hit(k)
    BY <1>1, SameEntries DEF Hit
<1>2. CASE Coalesced(k)
    <2>1. UNCHANGED <<inflight, generation, invalidated, clock, forgotten>>
        BY <1>2 DEF Coalesced
    <2>2. UNCHANGED entries \/ entries' = Only(entries, DOMAIN entries \ {k})
        BY <1>2 DEF Coalesced, DropExpired
    <2> QED
        BY <2>1, <2>2, SameEntries, FewerEntries
<1> QED
    BY <1>1, <1>2

(* A new load knows every event there was. *)
LEMMA MissKeeps ==
    ASSUME IInv, CacheAssumption, LoadsAreShort, NEW k \in Keys, Miss(k)
    PROVE  IInv'
<1> DEFINE load == [generation |-> generation, began |-> clock]
<1>1. /\ inflight' = [x \in Loading \cup {k} |-> IF x = k THEN load ELSE inflight[x]]
      /\ UNCHANGED <<generation, invalidated, clock, forgotten>> /\ k \notin Loading
    BY DEF Miss
<1>2. load \in ALoad /\ load.generation = generation /\ load.began = clock
    BY DEF ALoad, IInv, CacheTypeOK
<1> HIDE DEF load
<1>3. /\ Loading' = Loading \cup {k} /\ inflight'[k] = load
      /\ \A x \in Loading : inflight'[x] = inflight[x]
    BY <1>1 DEF Loading
<1>4. inflight' \in [Loading' -> ALoad] /\ Loading' \subseteq Keys
    BY <1>1, <1>2, <1>3 DEF IInv, CacheTypeOK, ALoad
<1>5. PICK S \in SUBSET DOMAIN entries : entries' = Only(entries, S)
    <2>1. CASE UNCHANGED entries
        <3>1. entries \in [DOMAIN entries -> AnEntry]
            BY DEF IInv, CacheTypeOK, AnEntry
        <3>2. entries = Only(entries, DOMAIN entries)
            BY <3>1 DEF Only
        <3> QED
            BY <2>1, <3>2
    <2>2. CASE entries' = Only(entries, DOMAIN entries \ {k})
        BY <2>2
    <2> QED
        BY <2>1, <2>2 DEF Miss, DropExpired
<1>6. DOMAIN entries' = S /\ \A x \in S : entries'[x] = entries[x]
    BY <1>5 DEF Only
<1>7. CacheTypeOK'
    <2>1. entries' \in [DOMAIN entries' -> AnEntry] /\ DOMAIN entries' \subseteq Keys
        BY <1>5, <1>6 DEF IInv, CacheTypeOK, AnEntry, Only
    <2> QED
        BY <1>1, <1>4, <2>1 DEF IInv, CacheTypeOK, AnEntry, ALoad
<1>8. LoadsInTime'
    BY <1>1, <1>2, <1>3, ConstantsAreNumbers DEF IInv, LoadsInTime, CacheTypeOK
<1>9. GenerationNewest' /\ NoLateStore'
    BY <1>1, <1>6 DEF IInv, GenerationNewest, NoLateStore
<1>10. EventRemembered'
    <2>1. forgotten[k[1]] <= generation /\ forgotten[k[1]] \in Nat /\ generation \in Nat
        BY OwnerIsAMessage DEF IInv, GenerationNewest, CacheTypeOK
    <2> QED
        BY <1>1, <1>2, <1>3, <2>1 DEF IInv, EventRemembered
<1> QED
    BY <1>7, <1>8, <1>9, <1>10 DEF IInv

(* The end of a load: what is stored began after the last event. *)
LEMMA LoadEndsKeeps ==
    ASSUME IInv, CacheAssumption, LoadsAreShort, NEW k \in Keys, LoadSucceeds(k) \/ LoadFails(k)
    PROVE  IInv'
<1>1. /\ k \in Loading /\ inflight' = Only(inflight, Loading \ {k})
      /\ UNCHANGED <<generation, invalidated, clock, forgotten>>
    BY DEF LoadSucceeds, LoadFails
<1>2. Loading' = Loading \ {k} /\ \A x \in Loading' : inflight'[x] = inflight[x]
    BY <1>1 DEF Loading, Only
<1>3. inflight' \in [Loading' -> ALoad] /\ Loading' \subseteq Keys
    BY <1>1, <1>2 DEF IInv, CacheTypeOK, ALoad, Only
<1>4. inflight[k] \in ALoad
    BY <1>1 DEF IInv, CacheTypeOK, ALoad
<1>5. LoadsInTime' /\ GenerationNewest' /\ EventRemembered'
    BY <1>1, <1>2 DEF IInv, LoadsInTime, GenerationNewest, EventRemembered
<1>6. CASE UNCHANGED entries
    <2>1. CacheTypeOK'
        BY <1>1, <1>3, <1>6 DEF IInv, CacheTypeOK, ALoad
    <2>2. NoLateStore'
        BY <1>1, <1>6 DEF IInv, NoLateStore
    <2> QED
        BY <1>5, <2>1, <2>2 DEF IInv
<1>7. CASE ~Outdated(k) /\ Store(k)
    <2> DEFINE stored == [expires |-> clock + TTL, began |-> inflight[k].generation]
    <2>1. stored \in AnEntry /\ stored.began = inflight[k].generation
        BY <1>4, ConstantsAreNumbers DEF AnEntry, ALoad, IInv, CacheTypeOK
    <2>2. entries' = [x \in Kept(k) |-> IF x = k THEN stored ELSE entries[x]]
        BY <1>7 DEF Store
    <2>3. Kept(k) \subseteq DOMAIN entries \cup {k}
        BY DEF Kept, Candidates
    <2> HIDE DEF stored
    <2>4. CacheTypeOK'
        <3>1. entries' \in [Kept(k) -> AnEntry] /\ DOMAIN entries' = Kept(k) /\ Kept(k) \subseteq Keys
            BY <2>1, <2>2, <2>3 DEF IInv, CacheTypeOK, AnEntry
        <3> HIDE DEF Kept
        <3> QED
            BY <1>1, <1>3, <3>1 DEF IInv, CacheTypeOK, AnEntry, ALoad
    <2>5. forgotten[k[1]] <= inflight[k].generation
        <3>1. forgotten[k[1]] \in Nat /\ inflight[k].generation \in Nat
            BY <1>4, OwnerIsAMessage DEF IInv, CacheTypeOK, ALoad
        <3>2. ~(forgotten[k[1]] > inflight[k].generation)
            BY <1>1, <1>7 DEF IInv, EventRemembered, Outdated
        <3> QED
            BY <3>1, <3>2
    <2>6. NoLateStore'
        BY <1>1, <2>1, <2>2, <2>3, <2>5 DEF IInv, NoLateStore
    <2> QED
        BY <1>5, <2>4, <2>6 DEF IInv
<1> QED
    BY <1>6, <1>7 DEF LoadSucceeds, LoadFails

(* An event: what is forgotten of earlier ones is older than any load. *)
LEMMA InvalidateKeeps ==
    ASSUME IInv, CacheAssumption, LoadsAreShort, NEW m \in Messages, NEW deleted \in BOOLEAN,
           Invalidate(m, deleted)
    PROVE  IInv'
<1> DEFINE event == [generation |-> generation + 1, deleted |-> deleted \/ WasDeleted(m), at |-> clock]
           staying == {k \in DOMAIN entries : k[1] # m}
<1>1. /\ generation' = generation + 1 /\ generation \in Nat /\ clock \in Nat
      /\ invalidated' = [x \in Remembered \cup {m} |-> IF x = m THEN event ELSE invalidated[x]]
      /\ entries' = Only(entries, staying)
      /\ forgotten' = [forgotten EXCEPT ![m] = generation + 1]
      /\ forgotten \in [Messages -> Nat]
      /\ UNCHANGED <<inflight, clock>>
    BY DEF Invalidate, IInv, CacheTypeOK
<1>2. event \in AnEvent /\ event.generation = generation + 1 /\ event.at = clock
    <2>1. Remembered \subseteq DOMAIN invalidated
        BY DEF Remembered
    <2>2. WasDeleted(m) \in BOOLEAN
        BY DEF WasDeleted
    <2>3. (deleted \/ WasDeleted(m)) \in BOOLEAN
        BY <2>2
    <2> QED
        BY <1>1, <2>3 DEF AnEvent
<1> HIDE DEF event
<1>3. DOMAIN entries' = staying /\ \A k \in staying : entries'[k] = entries[k]
    BY <1>1 DEF Only
<1>4. CacheTypeOK'
    <2>1. entries' \in [DOMAIN entries' -> AnEntry] /\ DOMAIN entries' \subseteq Keys
        BY <1>1, <1>3 DEF IInv, CacheTypeOK, AnEntry, Only
    <2>2. Remembered \cup {m} \subseteq Messages
          /\ \A x \in Remembered : invalidated[x] \in AnEvent
        BY DEF Remembered, IInv, CacheTypeOK, AnEvent
    <2>3. invalidated' \in [DOMAIN invalidated' -> AnEvent] /\ DOMAIN invalidated' \subseteq Messages
        BY <1>1, <1>2, <2>2
    <2>4. forgotten' \in [Messages -> Nat]
        BY <1>1
    <2> QED
        BY <1>1, <2>1, <2>3, <2>4 DEF IInv, CacheTypeOK, AnEntry, AnEvent, Loading
<1>5. LoadsInTime'
    BY <1>1 DEF IInv, LoadsInTime, Loading
<1>6. GenerationNewest'
    BY <1>1 DEF IInv, GenerationNewest
<1>7. NoLateStore'
    <2>1. \A k \in staying : k[1] \in Messages /\ k[1] # m
        BY OwnerIsAMessage DEF IInv, CacheTypeOK
    <2> QED
        BY <1>1, <1>3, <2>1 DEF IInv, NoLateStore
<1>8. EventRemembered'
    <2> SUFFICES ASSUME NEW k \in Loading, forgotten'[k[1]] > inflight[k].generation
                 PROVE  /\ k[1] \in DOMAIN invalidated'
                        /\ invalidated'[k[1]].generation = forgotten'[k[1]]
                        /\ invalidated'[k[1]].at >= inflight[k].began
        BY <1>1 DEF EventRemembered, Loading
    <2>1. /\ k[1] \in Messages /\ inflight[k].began \in Nat
          /\ inflight[k].began <= clock /\ clock <= inflight[k].began + MaxLoad
        BY OwnerIsAMessage DEF IInv, CacheTypeOK, LoadsInTime
    <2>2. CASE k[1] = m
        BY <1>1, <1>2, <2>1, <2>2
    <2>3. CASE k[1] # m
        <3>1. forgotten'[k[1]] = forgotten[k[1]]
            BY <1>1, <2>1, <2>3
        <3>2. /\ k[1] \in DOMAIN invalidated
              /\ invalidated[k[1]].generation = forgotten[k[1]]
              /\ invalidated[k[1]].at >= inflight[k].began
            BY <3>1 DEF IInv, EventRemembered
        <3>3. invalidated[k[1]].at \in Nat
            BY <3>2 DEF IInv, CacheTypeOK
        <3>4. clock - invalidated[k[1]].at <= TTL
            BY <1>1, <2>1, <3>2, <3>3, ConstantsAreNumbers
        <3>5. k[1] \in Remembered
            BY <3>2, <3>4 DEF Remembered
        <3> QED
            BY <1>1, <2>3, <3>1, <3>2, <3>5
    <2> QED
        BY <2>2, <2>3
<1> QED
    BY <1>4, <1>5, <1>6, <1>7, <1>8 DEF IInv

LEMMA TickKeeps ==
    ASSUME IInv, CacheAssumption, LoadsAreShort, CacheTick
    PROVE  IInv'
<1>1. clock' = clock + 1 /\ clock \in Nat
      /\ UNCHANGED <<entries, inflight, generation, invalidated, forgotten>>
    BY DEF CacheTick, IInv, CacheTypeOK
<1>2. CacheTypeOK'
    BY <1>1 DEF IInv, CacheTypeOK, Loading
<1>3. LoadsInTime'
    <2>1. \A k \in Loading : /\ inflight[k].began \in Nat /\ inflight[k].began <= clock
                            /\ clock < inflight[k].began + MaxLoad
        BY DEF CacheTick, IInv, CacheTypeOK, LoadsInTime
    <2> QED
        BY <1>1, <2>1, ConstantsAreNumbers DEF LoadsInTime, Loading
<1> QED
    BY <1>1, <1>2, <1>3 DEF IInv, GenerationNewest, EventRemembered, NoLateStore, Loading

--------------------------------------------------------------------------------
(* The theorems. *)

LEMMA StepKeeps ==
    ASSUME IInv, CacheAssumption, LoadsAreShort, [CacheNext]_cache_vars
    PROVE  IInv'
<1>1. CASE UNCHANGED cache_vars
    BY <1>1, SameEntries DEF cache_vars
<1>2. ASSUME NEW k \in Keys, Hit(k) \/ Coalesced(k) \/ Miss(k) \/ LoadSucceeds(k) \/ LoadFails(k)
      PROVE  IInv'
    BY <1>2, LookKeeps, MissKeeps, LoadEndsKeeps
<1> QED
    BY <1>1, <1>2, InvalidateKeeps, TickKeeps DEF CacheNext

(* IInv is an inductive invariant of the cache. *)
THEOREM Invariance == CacheSpec => []IInv
<1> USE CacheAssumption, LoadsAreShort
<1>1. CacheInit => IInv
    BY InitEstablishes
<1>2. IInv /\ [CacheNext]_cache_vars => IInv'
    BY StepKeeps
<1> QED
    BY <1>1, <1>2, PTL DEF CacheSpec

(* Every reachable state of the cache is well typed. *)
THEOREM TypeCorrect == CacheSpec => []CacheTypeOK
<1>1. IInv => CacheTypeOK
    BY DEF IInv
<1> QED
    BY <1>1, Invariance, PTL

(* A late download does not put a forgotten image back (attachment_cache.py:    *)
(* 97-106, 135-160): pruning what is known of an event after the time to live   *)
(* is harmless because no load lasts that long.                                 *)
THEOREM NothingStoredLate == CacheSpec => []NoLateStore
<1>1. IInv => NoLateStore
    BY DEF IInv
<1> QED
    BY <1>1, Invariance, PTL


(***************************************************************************)
(* The cache under prompt builds                                           *)
(***************************************************************************)

(* Workers ask for keys, and the events on their way are about messages. *)
WantsKeys ==
    \A w \in Workers : InPhase(w, "prepare") =>
        /\ {"phase", "wanted", "waiting"} \subseteq DOMAIN builds[w]
        /\ builds[w].wanted \subseteq Keys
Inputs    == /\ builds = [w \in Workers |-> builds[w]]
             /\ WantsKeys
             /\ events \subseteq Messages \X BOOLEAN

LEMMA InputsInitially ==
    ASSUME Init
    PROVE  Inputs
    BY DEF Init, Inputs, WantsKeys, InPhase, Idle

LEMMA SelectedWants ==
    ASSUME Inputs, NEW w \in Workers, NEW decision, NEW window, Selected(w, decision, window)
    PROVE  Inputs'
    BY DEF Inputs, WantsKeys, InPhase, Selected, Images

(* A step that changes one build, and not into one that wants images. *)
LEMMA OtherPhase ==
    ASSUME Inputs, NEW w \in Workers, NEW b, builds' = [builds EXCEPT ![w] = b],
           b.phase # "prepare", UNCHANGED events
    PROVE  Inputs'
<1>1. DOMAIN builds = Workers
    BY DEF Inputs
<1>2. builds' = [v \in Workers |-> IF v = w THEN b ELSE builds[v]]
    BY <1>1
<1>3. builds' = [v \in Workers |-> builds'[v]]
    BY <1>2
<1>4. ASSUME NEW v \in Workers, builds'[v].phase = "prepare"
      PROVE  v # w /\ builds'[v] = builds[v]
    BY <1>2, <1>4 DEF Inputs, WantsKeys, InPhase
<1> QED
    BY <1>3, <1>4 DEF Inputs, WantsKeys, InPhase

(* The steps of a worker before it asks for images, and after. *)
LEMMA WorkerInputs ==
    ASSUME Inputs, NEW w \in Workers,
           Pick(w) \/ BeginSelect(w) \/ FetchAfter(w) \/ FetchRecent(w) \/ Assemble(w) \/ Done(w)
    PROVE  Inputs' /\ UNCHANGED cache_vars
<1>1. CASE Pick(w)
    <2>1. PICK t : builds' = [builds EXCEPT ![w] = [phase |-> "queued", trigger |-> t]]
        BY <1>1 DEF Pick
    <2> DEFINE to == [phase |-> "queued", trigger |-> t]
    <2>2. builds' = [builds EXCEPT ![w] = to] /\ UNCHANGED <<cache_vars, events>>
        BY <1>1, <2>1 DEF Pick
    <2>3. to.phase # "prepare"
        OBVIOUS
    <2> HIDE DEF to
    <2> QED
        BY <2>2, <2>3, OtherPhase
<1>2. CASE BeginSelect(w)
    <2> DEFINE d == initial_decision(anchor, builds[w].trigger)
               to == [phase |-> IF d = KEEP THEN "after" ELSE "recent", trigger |-> builds[w].trigger,
                      decision |-> d, state |-> anchor, slot |-> slot, generation |-> generation,
                      began |-> clock]
    <2>1. builds' = [builds EXCEPT ![w] = to] /\ UNCHANGED <<cache_vars, events>>
        BY <1>2 DEF BeginSelect
    <2>2. to.phase # "prepare"
        OBVIOUS
    <2> HIDE DEF to
    <2> QED
        BY <2>1, <2>2, OtherPhase
<1>3. CASE FetchAfter(w)
    <2> DEFINE fetched == fetch_after(present, builds[w].state, builds[w].trigger)
               to == [[builds[w] EXCEPT !.phase = "recent"] EXCEPT !.decision = REFRESH]
    <2>1. CASE Selected(w, KEEP, fetched)
        BY <2>1, SelectedWants DEF Selected
    <2>2. CASE /\ builds' = [builds EXCEPT ![w].phase = "recent", ![w].decision = REFRESH]
               /\ UNCHANGED <<cache_vars, present, attached, events, slot, reads, anchor, lock, picked,
                              last>>
        <3>1. DOMAIN builds = Workers
            BY DEF Inputs
        <3>2. \A v \in Workers : v # w => builds'[v] = builds[v]
            BY <2>2, <3>1
        <3>3. builds'[w].phase # "prepare"
            <4>1. builds[w].phase = "after"
                BY <1>3 DEF FetchAfter, InPhase
            <4>2. builds'[w] = [builds[w] EXCEPT !.phase = "recent", !.decision = REFRESH]
                BY <2>2, <3>1
            <4>3. "phase" \notin DOMAIN builds[w] \/ builds'[w].phase = "recent"
                BY <4>2
            <4>4. "phase" \notin DOMAIN builds[w] => builds'[w] = [builds[w] EXCEPT !.decision = REFRESH]
                BY <4>2
            <4> QED
                BY <4>1, <4>2, <4>3, <4>4
        <3>4. builds' = [v \in Workers |-> builds'[v]]
            BY <2>2, <3>1
        <3> QED
            BY <2>2, <3>2, <3>3, <3>4 DEF Inputs, WantsKeys, InPhase
    <2> QED
        BY <1>3, <2>1, <2>2 DEF FetchAfter
<1>4. CASE FetchRecent(w)
    BY <1>4, SelectedWants DEF FetchRecent, Selected
<1>5. CASE Assemble(w)
    <2> DEFINE to == [phase |-> "ready", trigger |-> builds[w].trigger, prompt |-> Prompt(builds[w])]
    <2>1. builds' = [builds EXCEPT ![w] = to] /\ UNCHANGED <<cache_vars, events>>
        BY <1>5 DEF Assemble, RestUnchanged
    <2>2. to.phase # "prepare"
        OBVIOUS
    <2> HIDE DEF to
    <2> QED
        BY <2>1, <2>2, OtherPhase
<1>6. CASE Done(w)
    <2>1. builds' = [builds EXCEPT ![w] = Idle] /\ UNCHANGED <<cache_vars, events>>
        BY <1>6 DEF Done, RestUnchanged
    <2>2. Idle.phase # "prepare"
        BY DEF Idle
    <2> QED
        BY <2>1, <2>2, OtherPhase
<1> QED
    BY <1>1, <1>2, <1>3, <1>4, <1>5, <1>6

(* An image is asked for: one step of the cache. *)
LEMMA AskInputs ==
    ASSUME Inputs, NEW w \in Workers, AskCache(w)
    PROVE  Inputs' /\ CacheNext
<1>1. PICK k \in builds[w].wanted :
         \/ /\ Hit(k)
            /\ builds' = [builds EXCEPT ![w].wanted = @ \ {k}]
         \/ /\ Coalesced(k) \/ Miss(k)
            /\ builds' = [builds EXCEPT ![w].wanted = @ \ {k}, ![w].waiting = @ \cup {k}]
    BY DEF AskCache
<1>2. /\ {"phase", "wanted", "waiting"} \subseteq DOMAIN builds[w]
      /\ builds[w].phase = "prepare" /\ builds[w].wanted \subseteq Keys
    BY DEF AskCache, Inputs, WantsKeys, InPhase
<1>3. DOMAIN builds = Workers
    BY DEF Inputs
<1>4. /\ DOMAIN builds' = Workers /\ builds' = [v \in Workers |-> builds'[v]]
      /\ \A v \in Workers : v # w => builds'[v] = builds[v]
    BY <1>1, <1>3
<1>5. {"phase", "wanted", "waiting"} \subseteq DOMAIN builds'[w] /\ builds'[w].wanted \subseteq Keys
    <2>1. CASE builds' = [builds EXCEPT ![w].wanted = @ \ {k}]
        BY <2>1, <1>2, <1>3
    <2>2. CASE builds' = [builds EXCEPT ![w].wanted = @ \ {k}, ![w].waiting = @ \cup {k}]
        BY <2>2, <1>2, <1>3
    <2> QED
        BY <1>1, <2>1, <2>2
<1>6. Inputs'
    BY <1>4, <1>5 DEF Inputs, WantsKeys, InPhase, AskCache, RestUnchanged
<1>7. CacheNext
    BY <1>1, <1>2 DEF CacheNext
<1> QED
    BY <1>6, <1>7

(* A load that ends is the end of a load of the cache. *)
LEMMA LoadEndsInputs ==
    ASSUME Inputs, CacheTypeOK, LoadEnds
    PROVE  Inputs' /\ CacheNext
<1>1. PICK k \in Loading :
         /\ LoadSucceeds(k) \/ LoadFails(k)
         /\ builds' = [w \in Workers |->
              IF InPhase(w, "prepare") THEN [builds[w] EXCEPT !.waiting = @ \ {k}] ELSE builds[w]]
    BY DEF LoadEnds
<1>2. k \in Keys
    BY DEF CacheTypeOK
<1>3. CacheNext
    BY <1>1, <1>2 DEF CacheNext
<1>4. ASSUME NEW w \in Workers, builds'[w].phase = "prepare"
      PROVE  /\ {"phase", "wanted", "waiting"} \subseteq DOMAIN builds'[w]
             /\ builds'[w].wanted \subseteq Keys
    <2>1. builds'[w] = IF InPhase(w, "prepare") THEN [builds[w] EXCEPT !.waiting = @ \ {k}]
                       ELSE builds[w]
        BY <1>1
    <2>2. InPhase(w, "prepare")
        BY <2>1, <1>4 DEF InPhase
    <2>3. {"phase", "wanted", "waiting"} \subseteq DOMAIN builds[w] /\ builds[w].wanted \subseteq Keys
        BY <2>2 DEF Inputs, WantsKeys
    <2>4. builds'[w] = [builds[w] EXCEPT !.waiting = @ \ {k}]
        BY <2>1, <2>2
    <2> QED
        BY <2>3, <2>4
<1>5. builds' = [w \in Workers |-> builds'[w]]
    BY <1>1
<1>6. Inputs'
    BY <1>4, <1>5 DEF Inputs, WantsKeys, InPhase, LoadEnds, RestUnchanged
<1> QED
    BY <1>3, <1>6

(* Messages go, and the events that say so are about messages. *)
LEMMA DiscordInputs ==
    ASSUME Inputs, CacheAssumption,
           \/ \E m \in Messages : Delete(m)
           \/ \E k \in Keys : RemoveAttachment(k)
    PROVE  Inputs' /\ UNCHANGED cache_vars
<1>1. ASSUME NEW m \in Messages, NEW deleted \in BOOLEAN, UNCHANGED <<builds, cache_vars>>,
             events' = events \cup {<<m, deleted>>}
      PROVE  Inputs' /\ UNCHANGED cache_vars
    <2>1. WantsKeys' /\ builds' = [w \in Workers |-> builds'[w]]
        BY <1>1 DEF Inputs, WantsKeys, InPhase
    <2>2. events' \subseteq Messages \X BOOLEAN
        BY <1>1 DEF Inputs
    <2> QED
        BY <1>1, <2>1, <2>2 DEF Inputs
<1>2. ASSUME NEW m \in Messages, Delete(m)
      PROVE  Inputs' /\ UNCHANGED cache_vars
    BY <1>1, <1>2 DEF Delete
<1>3. ASSUME NEW k \in Keys, RemoveAttachment(k)
      PROVE  Inputs' /\ UNCHANGED cache_vars
    BY <1>1, <1>3, OwnerIsAMessage DEF RemoveAttachment
<1> QED
    BY <1>2, <1>3

(* An event that arrives is one step of the cache. *)
LEMMA EventInputs ==
    ASSUME Inputs, EventArrives
    PROVE  Inputs' /\ CacheNext
<1>1. PICK e \in events : Invalidate(e[1], e[2]) /\ events' = events \ {e}
    BY DEF EventArrives
<1>2. e[1] \in Messages /\ e[2] \in BOOLEAN
    BY DEF Inputs
<1>3. CacheNext
    BY <1>1, <1>2 DEF CacheNext
<1> QED
    BY <1>1, <1>3 DEF Inputs, WantsKeys, InPhase, EventArrives

(* Every step of the composition is a step of the cache, or leaves it alone. *)
LEMMA StepImplements ==
    ASSUME IInv, Inputs, CacheAssumption, [Next]_vars
    PROVE  Inputs' /\ [CacheNext]_cache_vars
<1>1. CASE UNCHANGED vars
    BY <1>1 DEF vars, prompt_vars, Inputs, WantsKeys, InPhase
<1>2. ASSUME NEW w \in Workers,
             \/ Pick(w) \/ BeginSelect(w) \/ FetchAfter(w) \/ FetchRecent(w)
             \/ AskCache(w) \/ Assemble(w) \/ Done(w)
      PROVE  Inputs' /\ [CacheNext]_cache_vars
    BY <1>2, WorkerInputs, AskInputs
<1>3. CASE LoadEnds
    BY <1>3, LoadEndsInputs DEF IInv
<1>4. CASE (\E m \in Messages : Delete(m)) \/ (\E k \in Keys : RemoveAttachment(k))
    BY <1>4, DiscordInputs
<1>5. CASE EventArrives
    BY <1>5, EventInputs
<1>6. CASE ReadSlot \/ Evict
    BY <1>6 DEF ReadSlot, Evict, Inputs, WantsKeys, InPhase
<1>7. CASE Tick
    BY <1>7 DEF Tick, CacheNext, prompt_vars, Inputs, WantsKeys, InPhase
<1> QED
    BY <1>1, <1>2, <1>3, <1>4, <1>5, <1>6, <1>7 DEF Next

--------------------------------------------------------------------------------
(* The theorems. *)

(* The cache's invariant holds under the builds, and they ask for its keys. *)
THEOREM BuildInvariance == Spec => [](IInv /\ Inputs)
<1> USE CacheAssumption, LoadsAreShort
<1>1. Init => IInv /\ Inputs
    BY InitEstablishes, InputsInitially DEF Init
<1>2. IInv /\ Inputs /\ [Next]_vars => (IInv /\ Inputs)'
    BY StepImplements, StepKeeps
<1> QED
    BY <1>1, <1>2, PTL DEF Spec

(* Building prompts implements the cache's specification: under workers that    *)
(* share loads, deletions and edits the cache only ever does what               *)
(* attachment_cache.py does on its own.                                         *)
THEOREM CacheImplemented == Spec => CacheSpec
<1> USE CacheAssumption, LoadsAreShort
<1>1. Init => CacheInit
    BY DEF Init
<1>2. IInv /\ Inputs /\ [Next]_vars => [CacheNext]_cache_vars
    BY StepImplements
<1> QED
    BY <1>1, <1>2, BuildInvariance, PTL DEF Spec, CacheSpec

(* Whatever the builds and the events do, no image is put back after its        *)
(* message's last edit or deletion (attachment_cache.py:97-106, 135-160, and    *)
(* message_handler.py, which reads the cache outside the channel lock).         *)
THEOREM NothingStoredLateInBuilds == Spec => []NoLateStore
    BY CacheImplemented, NothingStoredLate, PTL
(***************************************************************************)
(* Sets of numbers in order                                                *)
(***************************************************************************)

Below(S, m) == {n \in S : n < m}

(* How many numbers of a finite set are below one of them tells it apart.   *)
LEMMA RankTellsApart ==
    ASSUME NEW S, IsFiniteSet(S), S \subseteq Int, NEW m \in S, NEW n \in S, m < n
    PROVE  Cardinality(Below(S, m)) < Cardinality(Below(S, n))
<1>1. IsFiniteSet(Below(S, n))
    <2>1. Below(S, n) \in SUBSET S
        BY DEF Below
    <2> QED
        BY <2>1, FS_Subset
<1>2. Below(S, m) \in SUBSET Below(S, n)
    <2> SUFFICES ASSUME NEW x \in S, x < m
                 PROVE  x < n
        BY DEF Below
    <2>1. x \in Int /\ m \in Int /\ n \in Int
        OBVIOUS
    <2> QED
        BY <2>1
<1>3. m \in Below(S, n) /\ m \notin Below(S, m)
    BY DEF Below
<1>4. /\ IsFiniteSet(Below(S, m))
      /\ Cardinality(Below(S, m)) <= Cardinality(Below(S, n))
      /\ Cardinality(Below(S, n)) # Cardinality(Below(S, m))
    BY <1>1, <1>2, <1>3, FS_Subset
<1>5. Cardinality(Below(S, m)) \in Nat /\ Cardinality(Below(S, n)) \in Nat
    BY <1>1, <1>4, FS_CardinalityType
<1> QED
    BY <1>4, <1>5

LEMMA RankBelowSize ==
    ASSUME NEW S, IsFiniteSet(S), S \subseteq Int, NEW m \in S
    PROVE  Cardinality(S) \in Nat /\ Cardinality(Below(S, m)) + 1 \in 1 .. Cardinality(S)
<1>1. Below(S, m) \in SUBSET S /\ m \notin Below(S, m)
    BY DEF Below
<1>2. /\ IsFiniteSet(Below(S, m))
      /\ Cardinality(Below(S, m)) <= Cardinality(S)
      /\ Cardinality(S) # Cardinality(Below(S, m))
    BY <1>1, FS_Subset
<1>3. Cardinality(Below(S, m)) \in Nat /\ Cardinality(S) \in Nat
    BY <1>2, FS_CardinalityType
<1> QED
    BY <1>2, <1>3

(* So every number of places is some element's: InOrder holds each element  *)
(* once, and in order.                                                      *)
LEMMA EachPlaceTaken ==
    ASSUME NEW S, IsFiniteSet(S), S \subseteq Int
    PROVE  \A k \in 1 .. Cardinality(S) : \E m \in S : Cardinality(Below(S, m)) = k - 1
<1> DEFINE N == 1 .. Cardinality(S)
           place == [m \in S |-> Cardinality(Below(S, m)) + 1]
<1>1. Cardinality(S) \in Nat
    BY FS_CardinalityType
<1>2. IsFiniteSet(N) /\ Cardinality(N) = Cardinality(S)
    <2>1. 1 \in Int /\ Cardinality(S) \in Int
        BY <1>1
    <2>2. IsFiniteSet(N)
          /\ Cardinality(N) = IF 1 > Cardinality(S) THEN 0 ELSE Cardinality(S) - 1 + 1
        BY <2>1, FS_Interval, Zenon
    <2> QED
        BY <1>1, <2>2
<1>3. place \in [S -> N]
    BY RankBelowSize
<1>4. \A m, n \in S : m < n => place[m] < place[n]
    <2> SUFFICES ASSUME NEW m \in S, NEW n \in S, m < n
                 PROVE  place[m] < place[n]
        OBVIOUS
    <2>1. Cardinality(Below(S, m)) < Cardinality(Below(S, n))
        BY RankTellsApart
    <2>2. Cardinality(Below(S, m)) + 1 \in N /\ Cardinality(Below(S, n)) + 1 \in N
        BY RankBelowSize
    <2>3. Cardinality(Below(S, m)) + 1 < Cardinality(Below(S, n)) + 1
        <3> DEFINE a == Cardinality(Below(S, m))
                   b == Cardinality(Below(S, n))
        <3>1. IsFiniteSet(Below(S, m)) /\ IsFiniteSet(Below(S, n))
            <4>1. Below(S, m) \in SUBSET S /\ Below(S, n) \in SUBSET S
                BY DEF Below
            <4> QED
                BY <4>1, FS_Subset
        <3>2. a \in Nat /\ b \in Nat
            BY <3>1, FS_CardinalityType
        <3> HIDE DEF a, b
        <3> QED
            BY <2>1, <3>2 DEF a, b
    <2> QED
        BY <2>3
<1>5. \A m, n \in S : place[m] = place[n] => m = n
    <2> SUFFICES ASSUME NEW m \in S, NEW n \in S, m # n
                 PROVE  place[m] # place[n]
        OBVIOUS
    <2>1. m \in Int /\ n \in Int /\ place[m] \in N /\ place[n] \in N
        BY <1>3
    <2>2. m < n \/ n < m
        BY <2>1
    <2> HIDE DEF place
    <2>3. place[m] < place[n] \/ place[n] < place[m]
        BY <1>4, <2>2
    <2> QED
        BY <2>1, <2>3
<1>6. place \in Injection(S, N)
    <2> HIDE DEF place
    <2> QED
        BY <1>3, <1>5 DEF Injection, IsInjective
<1>7. place \in Surjection(S, N)
    <2> HIDE DEF place, N
    <2> QED
        BY <1>2, <1>6, FS_Injection
<1>8. \A k \in N : \E m \in S : place[m] = k
    <2> HIDE DEF place, N
    <2> QED
        BY <1>7 DEF Surjection
<1> SUFFICES ASSUME NEW k \in N
             PROVE  \E m \in S : Cardinality(Below(S, m)) = k - 1
    OBVIOUS
<1>9. PICK m \in S : place[m] = k
    BY <1>8
<1>10. Cardinality(Below(S, m)) + 1 = k
    BY <1>9
<1>11. Cardinality(Below(S, m)) \in Nat
    <2>1. Below(S, m) \in SUBSET S
        BY DEF Below
    <2> QED
        BY <2>1, FS_Subset, FS_CardinalityType
<1> QED
    BY <1>10, <1>11

LEMMA InOrderSorts ==
    ASSUME NEW S, IsFiniteSet(S), S \subseteq Int
    PROVE  /\ InOrder(S) \in Seq(S) /\ Len(InOrder(S)) = Cardinality(S)
           /\ Ascending(InOrder(S))
           /\ ToSet(InOrder(S)) = S
<1> DEFINE n == Cardinality(S)
           at(k) == InOrder(S)[k]
<1>1. n \in Nat
    BY FS_CardinalityType
<1>2. InOrder(S) = [k \in 1 .. n |-> CHOOSE m \in S : Cardinality(Below(S, m)) = k - 1]
    BY DEF InOrder, Below
<1>3. \A k \in 1 .. n : at(k) \in S /\ Cardinality(Below(S, at(k))) = k - 1
    BY <1>2, EachPlaceTaken
<1>4. InOrder(S) \in [1 .. n -> S]
    BY <1>2, <1>3
<1>5. InOrder(S) \in Seq(S) /\ Len(InOrder(S)) = n /\ DOMAIN InOrder(S) = 1 .. n
    BY <1>1, <1>4
<1> HIDE DEF n, at
<1>6. Ascending(InOrder(S))
    <2> SUFFICES ASSUME NEW i \in 1 .. n, NEW j \in 1 .. n, i < j
                 PROVE  at(i) < at(j)
        BY <1>5 DEF Ascending, at
    <2>1. at(i) \in S /\ at(j) \in S /\ Cardinality(Below(S, at(i))) = i - 1
          /\ Cardinality(Below(S, at(j))) = j - 1
        BY <1>3
    <2>2. at(i) \in Int /\ at(j) \in Int
        BY <2>1
    <2>3. at(i) # at(j)
        BY <2>1
    <2>4. ~(at(j) < at(i))
        <3> SUFFICES ASSUME at(j) < at(i)
                     PROVE  FALSE
            OBVIOUS
        <3>1. j - 1 < i - 1
            BY <2>1, RankTellsApart
        <3> QED
            BY <3>1
    <2> QED
        BY <2>2, <2>3, <2>4
<1>7. S \subseteq ToSet(InOrder(S))
    <2> SUFFICES ASSUME NEW m \in S
                 PROVE  \E k \in 1 .. n : at(k) = m
        BY <1>5 DEF ToSet, at
    <2> DEFINE k == Cardinality(Below(S, m)) + 1
    <2>1. k \in 1 .. n
        BY RankBelowSize DEF n
    <2>2. at(k) \in S /\ Cardinality(Below(S, at(k))) = k - 1
        BY <1>3, <2>1
    <2>3. Cardinality(Below(S, m)) = k - 1
        <3>1. Below(S, m) \in SUBSET S
            BY DEF Below
        <3>2. Cardinality(Below(S, m)) \in Nat
            BY <3>1, FS_Subset, FS_CardinalityType
        <3> QED
            BY <3>2
    <2> HIDE DEF k
    <2>4. at(k) = m
        <3>1. at(k) \in Int /\ m \in Int
            BY <2>2
        <3>2. ~(at(k) < m)
            <4> SUFFICES ASSUME at(k) < m
                         PROVE  FALSE
                OBVIOUS
            <4>1. k - 1 < k - 1
                BY <2>2, <2>3, RankTellsApart
            <4> QED
                BY <2>1, <4>1
        <3>3. ~(m < at(k))
            <4> SUFFICES ASSUME m < at(k)
                         PROVE  FALSE
                OBVIOUS
            <4>1. k - 1 < k - 1
                BY <2>2, <2>3, RankTellsApart
            <4> QED
                BY <2>1, <4>1
        <3> QED
            BY <3>1, <3>2, <3>3
    <2> QED
        BY <2>1, <2>4
<1>8. ToSet(InOrder(S)) \subseteq S
    BY <1>3, <1>5 DEF ToSet, at
<1> QED
    BY <1>5, <1>6, <1>7, <1>8 DEF n

(* A finite set of numbers that is not empty has a least and a greatest.     *)
LEMMA Extremes ==
    ASSUME NEW S, IsFiniteSet(S), S \subseteq Int, S # {}
    PROVE  /\ Min(S) \in S /\ \A m \in S : Min(S) <= m
           /\ Max(S) \in S /\ \A m \in S : m <= Max(S)
<1> DEFINE s == InOrder(S)
           n == Len(s)
<1>1. s \in Seq(S) /\ Ascending(s) /\ ToSet(s) = S
    BY InOrderSorts
<1> HIDE DEF s
<1>2. n \in Nat /\ DOMAIN s = 1 .. n /\ \A i \in 1 .. n : s[i] \in S /\ s[i] \in Int
    <2>1. n \in Nat /\ DOMAIN s = 1 .. n
        BY <1>1
    <2>2. \A i \in 1 .. n : s[i] \in S
        BY <1>1
    <2> QED
        BY <2>1, <2>2
<1>3. n >= 1
    BY <1>1, <1>2 DEF ToSet
<1> HIDE DEF n
<1>4. \A m \in S : s[1] <= m /\ m <= s[n]
    <2> SUFFICES ASSUME NEW i \in 1 .. n
                 PROVE  s[1] <= s[i] /\ s[i] <= s[n]
        BY <1>1, <1>2 DEF ToSet
    <2>1. /\ 1 < i => s[1] < s[i]
          /\ i < n => s[i] < s[n]
        BY <1>1, <1>2, <1>3 DEF Ascending
    <2>2. s[1] \in Int /\ s[i] \in Int /\ s[n] \in Int
        BY <1>2, <1>3
    <2>3. CASE i = 1 /\ i = n
        BY <2>2, <2>3
    <2>4. CASE i = 1 /\ i < n
        BY <2>1, <2>2, <2>4
    <2>5. CASE 1 < i /\ i = n
        BY <2>1, <2>2, <2>5
    <2>6. CASE 1 < i /\ i < n
        BY <2>1, <2>2, <2>6
    <2> QED
        BY <1>2, <2>3, <2>4, <2>5, <2>6
<1>5. s[1] \in S /\ s[n] \in S
    BY <1>2, <1>3
<1>6. Min(S) \in S /\ \A m \in S : Min(S) <= m
    BY <1>4, <1>5 DEF Min
<1>7. Max(S) \in S /\ \A m \in S : Max(S) >= m
    BY <1>4, <1>5 DEF Max
<1>8. \A m \in S : m <= Max(S)
    BY <1>7
<1> QED
    BY <1>6, <1>7, <1>8

(***************************************************************************)
(* Windows                                                                 *)
(***************************************************************************)

(* The newest of some messages, in order.                                   *)
NewestOf(w, S) ==
    /\ w \in Seq(S) /\ Ascending(w)
    /\ \A m \in S, n \in ToSet(w) : n <= m => m \in ToSet(w)

LEMMA TailIsNewest ==
    ASSUME NEW S, S \subseteq Int, NEW w, NewestOf(w, S), NEW k \in Nat \ {0}
    PROVE  NewestOf(SubSeq(w, k, Len(w)), S)
<1> DEFINE v == SubSeq(w, k, Len(w))
           n == Len(w) - k + 1
<1>1. w \in Seq(S) /\ Len(w) \in Nat /\ \A i \in 1 .. Len(w) : w[i] \in S /\ w[i] \in Int
    <2>1. w \in Seq(S)
        BY DEF NewestOf
    <2>2. Len(w) \in Nat /\ \A i \in 1 .. Len(w) : w[i] \in S
        BY <2>1
    <2> QED
        BY <2>1, <2>2
<1>2. CASE k > Len(w)
    <2>1. v = << >>
        BY <1>1, <1>2
    <2>2. << >> \in Seq(S) /\ DOMAIN << >> = {}
        OBVIOUS
    <2> HIDE DEF v
    <2>3. NewestOf(v, S)
        BY <2>1, <2>2 DEF NewestOf, Ascending, ToSet
    <2> QED
        BY <2>3 DEF v
<1>3. CASE k <= Len(w)
    <2>1. n \in Nat /\ v \in Seq(S) /\ Len(v) = n /\ DOMAIN v = 1 .. n
        BY <1>1, <1>3
    <2>2. \A i \in 1 .. n : v[i] = w[i + k - 1] /\ i + k - 1 \in 1 .. Len(w)
        BY <1>1, <1>3
    <2> HIDE DEF v
    <2>3. Ascending(v)
        <3> SUFFICES ASSUME NEW i \in 1 .. n, NEW j \in 1 .. n, i < j
                     PROVE  v[i] < v[j]
            BY <2>1 DEF Ascending
        <3>1. i + k - 1 < j + k - 1 /\ i + k - 1 \in 1 .. Len(w) /\ j + k - 1 \in 1 .. Len(w)
            BY <2>2
        <3>2. w[i + k - 1] < w[j + k - 1]
            BY <1>1, <3>1 DEF NewestOf, Ascending
        <3> QED
            BY <2>2, <3>2
    <2>4. ASSUME NEW m \in S, NEW x \in ToSet(v), x <= m
          PROVE  m \in ToSet(v)
        <3>1. PICK i \in 1 .. n : x = v[i]
            BY <2>1, <2>4 DEF ToSet
        <3>2. x = w[i + k - 1] /\ i + k - 1 \in 1 .. Len(w)
            BY <2>2, <3>1
        <3>3. x \in ToSet(w)
            BY <1>1, <3>2 DEF ToSet
        <3>4. m \in ToSet(w)
            BY <2>4, <3>3 DEF NewestOf
        <3>5. PICK j \in 1 .. Len(w) : m = w[j]
            BY <1>1, <3>4 DEF ToSet
        <3>6. j >= i + k - 1
            <4> SUFFICES ASSUME j < i + k - 1
                         PROVE  FALSE
                BY <2>2
            <4>1. w[j] < w[i + k - 1]
                BY <1>1, <3>2 DEF NewestOf, Ascending
            <4>2. m < x /\ m \in Int /\ x \in Int
                BY <1>1, <3>2, <3>5, <4>1
            <4> QED
                BY <2>4, <4>2
        <3>7. j - k + 1 \in 1 .. n /\ v[j - k + 1] = w[j]
            <4>1. j - k + 1 \in 1 .. n
                BY <1>1, <3>6
            <4>2. (j - k + 1) + k - 1 = j
                OBVIOUS
            <4> QED
                BY <2>2, <4>1, <4>2
        <3> QED
            BY <2>1, <3>5, <3>7 DEF ToSet
    <2>5. NewestOf(v, S)
        BY <2>1, <2>3, <2>4 DEF NewestOf
    <2> QED
        BY <2>5 DEF v
<1> QED
    BY <1>1, <1>2, <1>3

LEMMA FiniteOfInterval ==
    ASSUME NEW n \in Nat, NEW S \in SUBSET (0 .. n)
    PROVE  IsFiniteSet(S) /\ S \subseteq Int
<1>1. 0 \in Int /\ n \in Int
    OBVIOUS
<1>2. IsFiniteSet(0 .. n)
    BY <1>1, FS_Interval, Zenon
<1>3. IsFiniteSet(S)
    BY <1>2, FS_Subset
<1> QED
    BY <1>1, <1>3

(* A window refreshed from recent messages is the newest of what was said   *)
(* before its trigger, whatever limit, reset and budget cut it.             *)
LEMMA RecentIsNewest ==
    ASSUME PolicyAssumption, IsFiniteSet(present), present \subseteq Int, NEW t \in Int, NEW room
    PROVE  NewestOf(Trimmed(fetch_recent(present, t), t, room), {m \in present : m < t})
<1> DEFINE S == {m \in present : m < t}
           before == InOrder(S)
           newest == SubSeq(before, Max({1, Len(before) - (Limit - 2)}), Len(before))
           cut == Max({0} \cup {i \in DOMAIN newest : newest[i] \in Resets})
           recent == SubSeq(newest, cut + 1, Len(newest))
           drop == Min({Len(recent)} \cup
                       {d \in 0 .. Len(recent) : Fits(SubSeq(recent, d + 1, Len(recent)), t, room)})
<1>1. IsFiniteSet(S) /\ S \subseteq Int
    <2>1. S \in SUBSET present
        OBVIOUS
    <2> HIDE DEF S
    <2>2. IsFiniteSet(S)
        BY <2>1, FS_Subset
    <2> QED
        BY <2>1, <2>2
<1>2. fetch_recent(present, t) = recent
    BY DEF fetch_recent
<1>3. Trimmed(recent, t, room) = SubSeq(recent, drop + 1, Len(recent))
    BY DEF Trimmed
<1> HIDE DEF S
<1>4. NewestOf(before, S) /\ Len(before) \in Nat
    <2>1. before \in Seq(S) /\ Ascending(before) /\ ToSet(before) = S
        BY <1>1, InOrderSorts
    <2> HIDE DEF before
    <2> QED
        BY <2>1 DEF NewestOf
<1> HIDE DEF before
<1>5. Max({1, Len(before) - (Limit - 2)}) \in Nat \ {0}
    <2> DEFINE x == Len(before) - (Limit - 2)
    <2>1. x \in Int
        BY <1>4 DEF PolicyAssumption
    <2> HIDE DEF x
    <2>2. Max({1, x}) = IF x <= 1 THEN 1 ELSE x
        BY <2>1 DEF Max
    <2>3. Max({1, x}) \in Nat \ {0}
        BY <2>1, <2>2
    <2> QED
        BY <2>3 DEF x
<1>6. NewestOf(newest, S)
    BY <1>1, <1>4, <1>5, TailIsNewest
<1>7. newest \in Seq(S)
    BY <1>6 DEF NewestOf
<1> HIDE DEF newest
<1>8. Len(newest) \in Nat /\ DOMAIN newest = 1 .. Len(newest)
    BY <1>7
<1>9. cut \in Nat
    <2> DEFINE R == {0} \cup {i \in DOMAIN newest : newest[i] \in Resets}
    <2>1. R \in SUBSET (0 .. Len(newest)) /\ R # {}
        BY <1>8
    <2>2. IsFiniteSet(R) /\ R \subseteq Int
        BY <1>8, <2>1, FiniteOfInterval
    <2> HIDE DEF R
    <2>3. Max(R) \in 0 .. Len(newest)
        BY <2>1, <2>2, Extremes
    <2> QED
        BY <1>8, <2>3 DEF R
<1> HIDE DEF cut
<1>10. NewestOf(recent, S)
    <2>1. cut + 1 \in Nat \ {0}
        BY <1>9
    <2> QED
        BY <1>1, <1>6, <2>1, TailIsNewest
<1>11. recent \in Seq(S)
    BY <1>10 DEF NewestOf
<1> HIDE DEF recent
<1>12. Len(recent) \in Nat
    BY <1>11
<1>13. drop \in Nat
    <2> DEFINE D == {Len(recent)} \cup
                    {d \in 0 .. Len(recent) : Fits(SubSeq(recent, d + 1, Len(recent)), t, room)}
    <2>1. D \in SUBSET (0 .. Len(recent)) /\ D # {}
        BY <1>12
    <2>2. IsFiniteSet(D) /\ D \subseteq Int
        BY <1>12, <2>1, FiniteOfInterval
    <2> HIDE DEF D
    <2>3. Min(D) \in 0 .. Len(recent)
        BY <2>1, <2>2, Extremes
    <2> QED
        BY <1>12, <2>3 DEF D
<1> HIDE DEF drop
<1>14. NewestOf(SubSeq(recent, drop + 1, Len(recent)), S)
    <2>1. drop + 1 \in Nat \ {0}
        BY <1>13
    <2> QED
        BY <1>1, <1>10, <2>1, TailIsNewest
<1> QED
    BY <1>2, <1>3, <1>14 DEF S

(* A window that is no longer than a kept one may be holds all there is     *)
(* between the anchor and the trigger.                                      *)
LEMMA AfterIsAll ==
    ASSUME PolicyAssumption, IsFiniteSet(present), present \subseteq Int, NEW t \in Int, NEW from
    PROVE  LET fetched == fetch_after(present, from, t)
               S == {m \in present : from.after < m /\ m < t}
           IN  /\ fetched \in Seq(S)
               /\ ~Burst(fetched) => Ascending(fetched) /\ ToSet(fetched) = S
<1> DEFINE S == {m \in present : from.after < m /\ m < t}
           all == InOrder(S)
           n == Min({Len(all), max_window + 1})
           fetched == SubSeq(all, 1, n)
<1>1. IsFiniteSet(S) /\ S \subseteq Int
    <2>1. S \in SUBSET present
        OBVIOUS
    <2> HIDE DEF S
    <2>2. IsFiniteSet(S)
        BY <2>1, FS_Subset
    <2> QED
        BY <2>1, <2>2
<1>2. fetch_after(present, from, t) = fetched
    BY DEF fetch_after
<1> HIDE DEF S
<1>3. all \in Seq(S) /\ Ascending(all) /\ ToSet(all) = S
    BY <1>1, InOrderSorts
<1> HIDE DEF all
<1>4. Len(all) \in Nat /\ max_window \in Nat
    BY <1>3 DEF max_window, PolicyAssumption
<1>5. n = IF Len(all) <= max_window + 1 THEN Len(all) ELSE max_window + 1
    <2> DEFINE a == Len(all)
               b == max_window + 1
    <2>1. a \in Int /\ b \in Int
        BY <1>4
    <2> HIDE DEF a, b
    <2>2. Min({a, b}) = IF a <= b THEN a ELSE b
        BY <2>1 DEF Min
    <2> QED
        BY <2>2 DEF a, b
<1> HIDE DEF n
<1>6. n \in 0 .. Len(all)
    BY <1>4, <1>5
<1>7. fetched \in Seq(S) /\ Len(fetched) = n
    BY <1>3, <1>4, <1>6
<1>8. ASSUME ~Burst(fetched)
      PROVE  fetched = all
    <2>1. n <= max_window
        BY <1>4, <1>6, <1>7, <1>8 DEF Burst
    <2>2. n = Len(all)
        BY <1>4, <1>5, <2>1
    <2> QED
        BY <1>3, <2>2
<1> HIDE DEF fetched
<1> QED
    BY <1>2, <1>3, <1>7, <1>8 DEF S
(***************************************************************************)
(* The builds and the anchor                                               *)
(***************************************************************************)

Anchors   == [after : Nat, trigger : Nat]
Decisions == {KEEP, REFRESH, SNAPSHOT}
Queued    == [phase : {"queued"}, trigger : Triggers]
Selecting == [phase : {"after", "recent"}, trigger : Triggers, decision : Decisions,
              state : Anchors, slot : Slots \cup {Unknown}, generation : Nat, began : Nat]
Preparing == [phase : {"prepare"}, trigger : Triggers, decision : Decisions,
              slot : Slots \cup {Unknown}, generation : Nat, began : Nat,
              window : Seq(Messages), wanted : SUBSET Keys, waiting : SUBSET Keys]
Ready     == [phase : {"ready"}, trigger : Triggers, prompt : SUBSET Messages]
ABuild    == {Idle} \cup Queued \cup Selecting \cup Preparing \cup Ready

Typed ==
    /\ present \subseteq Messages /\ attached \subseteq Keys
    /\ events \subseteq Messages \X BOOLEAN
    /\ slot \in Slots \cup {Unknown}
    /\ anchor \in Anchors
    /\ lock \in Workers \cup {Nobody}
    /\ builds \in [Workers -> ABuild]
    /\ picked \in Nat
    /\ last \in Seq(Messages)

Phases == {"idle", "queued", "after", "recent", "prepare", "ready"}
At(w, phases) == builds[w].phase \in phases
Undecided == {"after", "recent"}

LEMMA BuildShapes ==
    ASSUME NEW b \in ABuild
    PROVE  /\ b.phase \in Phases
           /\ b.phase = "queued" => b \in Queued
           /\ b.phase \in Undecided => b \in Selecting
           /\ b.phase = "prepare" => b \in Preparing
           /\ b.phase = "ready" => b \in Ready
<1>1. CASE b = Idle
    BY <1>1 DEF Idle, Phases, Undecided
<1>2. CASE b \in Queued
    BY <1>2 DEF Queued, Phases, Undecided
<1>3. CASE b \in Selecting
    BY <1>3 DEF Selecting, Phases, Undecided
<1>4. CASE b \in Preparing
    BY <1>4 DEF Preparing, Phases, Undecided
<1>5. CASE b \in Ready
    BY <1>5 DEF Ready, Phases, Undecided
<1> QED
    BY <1>1, <1>2, <1>3, <1>4, <1>5 DEF ABuild

(* Whoever holds the lock is deciding, about the anchor as it is.            *)
LockFits == \A w \in Workers : At(w, Undecided) <=> lock = w

DecidesOnTheAnchor ==
    \A w \in Workers : At(w, Undecided) =>
        LET b == builds[w] IN
        /\ b.state = anchor
        /\ b.phase = "after" => anchor # NoAnchor /\ anchor.trigger <= b.trigger
        /\ b.phase = "recent" => b.decision # KEEP
        /\ b.decision = REFRESH => anchor = NoAnchor \/ anchor.trigger <= b.trigger

(* A trigger is taken once: no other build has it, and it has not moved the  *)
(* anchor yet.                                                               *)
Open == {"queued", "after", "recent"}
TakenOnce ==
    /\ anchor.trigger <= picked
    /\ \A w \in Workers : At(w, Open) =>
         /\ builds[w].trigger <= picked
         /\ anchor # NoAnchor => anchor.trigger # builds[w].trigger
         /\ \A v \in Workers \ {w} : At(v, Open) => builds[v].trigger # builds[w].trigger

(* As far as the last prompt of the anchor reaches, it holds what there is   *)
(* after the anchor.                                                         *)
Holds(s, from) == \A m \in present : Reaches(s, m) => (m \in ToSet(s) <=> from < m)
LastFits ==
    anchor # NoAnchor =>
        /\ anchor.after < anchor.trigger
        /\ Ascending(last) /\ Holds(last, anchor.after)

(* A build is not older than the time an event is remembered.                *)
Timely ==
    \A w \in Workers : At(w, {"after", "recent", "prepare"}) =>
        LET b == builds[w] IN
        /\ b.generation <= generation
        /\ b.began <= clock /\ clock <= b.began + MaxBuild

(* What a window holds is there, or its deletion is under way, or known and  *)
(* newer than the build.                                                     *)
KnownDeleted(m, b) ==
    /\ m \in DOMAIN invalidated
    /\ invalidated[m].deleted /\ invalidated[m].generation > b.generation
    /\ invalidated[m].at >= b.began
DeletionsFit ==
    \A w \in Workers : At(w, {"prepare"}) =>
        \A m \in ToSet(builds[w].window) :
            m \in present \/ <<m, TRUE>> \in events \/ KnownDeleted(m, builds[w])

BInv == /\ Typed /\ LockFits /\ DecidesOnTheAnchor /\ TakenOnce /\ LastFits
        /\ Timely /\ DeletionsFit

Assumptions ==
    /\ CacheAssumption /\ LoadsAreShort /\ PolicyAssumption /\ PromptAssumption
    /\ MessagesAssumption

LEMMA Numbers ==
    ASSUME Assumptions, Typed
    PROVE  /\ Messages \subseteq Int /\ \A m \in Messages : m \in Nat /\ m > 0
           /\ IsFiniteSet(present) /\ present \subseteq Int
           /\ Triggers \subseteq Messages /\ Nobody \notin Workers
           /\ MaxBuild \in Nat /\ TTL \in Nat /\ MaxBuild <= TTL
<1>1. Messages \subseteq Int /\ \A m \in Messages : m \in Nat /\ m > 0
    BY DEF Assumptions, MessagesAssumption
<1>2. IsFiniteSet(present)
    <2>1. present \in SUBSET Messages /\ IsFiniteSet(Messages)
        BY DEF Typed, Assumptions, MessagesAssumption
    <2> QED
        BY <2>1, FS_Subset
<1>3. present \subseteq Int
    BY <1>1 DEF Typed
<1>4. Triggers \subseteq Messages /\ Nobody \notin Workers /\ MaxBuild \in Nat /\ MaxBuild <= TTL
    BY DEF Assumptions, PromptAssumption
<1>5. TTL \in Nat
    BY DEF Assumptions, CacheAssumption
<1> QED
    BY <1>1, <1>2, <1>3, <1>4, <1>5

LEMMA BuildsInitially ==
    ASSUME Init, Assumptions
    PROVE  BInv
<1>1. Idle \in ABuild /\ Idle.phase = "idle" /\ NoAnchor \in Anchors
    BY DEF ABuild, Idle, NoAnchor, Anchors
<1>2. Typed
    BY <1>1 DEF Init, Typed, Assumptions, PromptAssumption
<1>3. \A w \in Workers : builds[w].phase = "idle"
    BY <1>1 DEF Init
<1>4. \A w \in Workers : lock # w
    BY DEF Init, Assumptions, PromptAssumption
<1>5. anchor = NoAnchor /\ anchor.trigger = 0 /\ picked = 0
    BY DEF Init, NoAnchor
<1>6. \A w \in Workers : ~At(w, Undecided) /\ ~At(w, Open)
                         /\ ~At(w, {"prepare"}) /\ ~At(w, {"after", "recent", "prepare"})
    BY <1>3 DEF At, Undecided, Open
<1>7. TakenOnce
    BY <1>5, <1>6 DEF TakenOnce
<1>8. LockFits /\ DecidesOnTheAnchor
    BY <1>4, <1>6 DEF LockFits, DecidesOnTheAnchor
<1>9. LastFits /\ Timely /\ DeletionsFit
    BY <1>5, <1>6 DEF LastFits, Timely, DeletionsFit
<1> QED
    BY <1>2, <1>7, <1>8, <1>9 DEF BInv

LEMMA OneBuild ==
    ASSUME Typed, NEW w \in Workers, NEW b \in ABuild, builds' = [builds EXCEPT ![w] = b]
    PROVE  /\ builds' \in [Workers -> ABuild]
           /\ builds'[w] = b /\ \A v \in Workers \ {w} : builds'[v] = builds[v]
    BY DEF Typed

(* A step of the cache that no build sees. *)
CacheSame == UNCHANGED <<generation, invalidated, clock>>
RestSame  == UNCHANGED <<present, attached, events, slot, anchor, picked, last>>

(* A build that has its window goes on: it keeps it, or is done with it.     *)
LEMMA WindowKept ==
    ASSUME BInv, NEW w \in Workers, NEW b \in ABuild, builds' = [builds EXCEPT ![w] = b],
           CacheSame, RestSame, UNCHANGED lock,
           At(w, {"prepare", "ready"}), b.phase \in {"prepare", "ready", "idle"},
           b.phase = "prepare" => /\ At(w, {"prepare"})
                                  /\ b.window = builds[w].window
                                  /\ b.generation = builds[w].generation
                                  /\ b.began = builds[w].began
    PROVE  BInv'
<1>1. /\ builds' \in [Workers -> ABuild]
      /\ builds'[w] = b /\ \A v \in Workers \ {w} : builds'[v] = builds[v]
    BY OneBuild DEF BInv
<1>2. Typed'
    BY <1>1 DEF BInv, Typed, RestSame
<1>3. /\ ~At(w, Undecided) /\ ~At(w, Undecided)' /\ ~At(w, Open) /\ ~At(w, Open)'
      /\ \A v \in Workers \ {w} : \A phases : At(v, phases)' <=> At(v, phases)
    BY <1>1 DEF At, Undecided, Open
<1>4. LockFits'
    BY <1>3 DEF BInv, LockFits
<1>5. DecidesOnTheAnchor'
    BY <1>1, <1>3 DEF BInv, DecidesOnTheAnchor, RestSame
<1>6. TakenOnce'
    BY <1>1, <1>3 DEF BInv, TakenOnce, RestSame
<1>7. LastFits'
    BY DEF BInv, LastFits, Holds, Reaches, RestSame
<1>8. Timely'
    BY <1>1, <1>3 DEF BInv, Timely, CacheSame, At
<1>9. DeletionsFit'
    <2> SUFFICES ASSUME NEW v \in Workers, builds'[v].phase = "prepare",
                        NEW m \in ToSet(builds'[v].window)
                 PROVE  m \in present \/ <<m, TRUE>> \in events \/ KnownDeleted(m, builds[v])'
        BY DEF DeletionsFit, At, RestSame
    <2>1. /\ builds[v].phase = "prepare" /\ builds'[v].window = builds[v].window
          /\ builds'[v].generation = builds[v].generation /\ builds'[v].began = builds[v].began
        BY <1>1 DEF At
    <2>2. m \in present \/ <<m, TRUE>> \in events \/ KnownDeleted(m, builds[v])
        BY <2>1 DEF BInv, DeletionsFit, At
    <2> QED
        BY <2>1, <2>2 DEF KnownDeleted, CacheSame
<1> QED
    BY <1>2, <1>4, <1>5, <1>6, <1>7, <1>8, <1>9 DEF BInv

LEMMA AskKeeps ==
    ASSUME BInv, NEW w \in Workers, AskCache(w)
    PROVE  BInv'
<1>1. PICK k \in builds[w].wanted :
         \/ /\ Hit(k)
            /\ builds' = [builds EXCEPT ![w].wanted = @ \ {k}]
         \/ /\ Coalesced(k) \/ Miss(k)
            /\ builds' = [builds EXCEPT ![w].wanted = @ \ {k}, ![w].waiting = @ \cup {k}]
    BY DEF AskCache
<1>2. builds[w] \in Preparing /\ builds \in [Workers -> ABuild] /\ builds[w].phase = "prepare"
    BY BuildShapes DEF BInv, Typed, AskCache, InPhase
<1>3. builds[w].wanted \subseteq Keys /\ builds[w].waiting \subseteq Keys
    BY <1>2 DEF Preparing
<1>4. PICK b \in Preparing : /\ builds' = [builds EXCEPT ![w] = b]
                             /\ b.window = builds[w].window
                             /\ b.generation = builds[w].generation
                             /\ b.began = builds[w].began
    <2> DEFINE one == [builds[w] EXCEPT !.wanted = builds[w].wanted \ {k}]
               two == [one EXCEPT !.waiting = builds[w].waiting \cup {k}]
    <2>1. CASE builds' = [builds EXCEPT ![w].wanted = @ \ {k}]
        <3>1. one \in Preparing /\ one.window = builds[w].window
              /\ one.generation = builds[w].generation /\ one.began = builds[w].began
            BY <1>2, <1>3 DEF Preparing
        <3>2. builds' = [builds EXCEPT ![w] = one]
            BY <2>1
        <3> HIDE DEF one
        <3> QED
            BY <3>1, <3>2
    <2>2. CASE builds' = [builds EXCEPT ![w].wanted = @ \ {k}, ![w].waiting = @ \cup {k}]
        <3>1. two \in Preparing /\ two.window = builds[w].window
              /\ two.generation = builds[w].generation /\ two.began = builds[w].began
            BY <1>2, <1>3 DEF Preparing
        <3>2. builds' = [builds EXCEPT ![w] = two]
            BY <1>2, <2>2
        <3> HIDE DEF two
        <3> QED
            BY <3>1, <3>2
    <2> QED
        BY <1>1, <2>1, <2>2
<1>5. b \in ABuild /\ b.phase = "prepare"
    BY <1>4 DEF ABuild, Preparing
<1>6. CacheSame /\ RestSame /\ UNCHANGED lock
    BY <1>1 DEF AskCache, RestUnchanged, CacheSame, RestSame, Hit, Coalesced, Miss
<1> QED
    BY <1>2, <1>4, <1>5, <1>6, WindowKept DEF At

LEMMA DoneKeeps ==
    ASSUME BInv, NEW w \in Workers, Assemble(w) \/ Done(w)
    PROVE  BInv'
<1>1. CASE Assemble(w)
    <2>1. builds[w] \in Preparing /\ builds[w].phase = "prepare"
        BY <1>1, BuildShapes DEF BInv, Typed, Assemble, InPhase
    <2> DEFINE b == [phase |-> "ready", trigger |-> builds[w].trigger, prompt |-> Prompt(builds[w])]
    <2>2. Prompt(builds[w]) \subseteq Messages
        <3>1. builds[w].window \in Seq(Messages)
            BY <2>1 DEF Preparing
        <3> QED
            BY <2>1, <3>1, PromptAssumption DEF Prompt, History, ToSet, Preparing
    <2>3. b \in ABuild /\ b.phase = "ready"
        BY <2>1, <2>2 DEF ABuild, Ready, Preparing
    <2>4. builds' = [builds EXCEPT ![w] = b] /\ CacheSame /\ RestSame /\ UNCHANGED lock
        BY <1>1 DEF Assemble, RestUnchanged, CacheSame, RestSame, cache_vars
    <2> HIDE DEF b
    <2> QED
        BY <2>1, <2>3, <2>4, WindowKept DEF At
<1>2. CASE Done(w)
    <2>1. Idle \in ABuild /\ Idle.phase = "idle"
        BY DEF ABuild, Idle
    <2>2. builds' = [builds EXCEPT ![w] = Idle] /\ CacheSame /\ RestSame /\ UNCHANGED lock
        BY <1>2 DEF Done, RestUnchanged, CacheSame, RestSame, cache_vars
    <2> QED
        BY <1>2, <2>1, <2>2, WindowKept DEF At, Done
<1> QED
    BY <1>1, <1>2

(* The end of a load changes only what builds wait for. *)
LEMMA LoadEndsBuilds ==
    ASSUME BInv, LoadEnds
    PROVE  BInv'
<1>1. PICK k \in Loading :
         /\ LoadSucceeds(k) \/ LoadFails(k)
         /\ builds' = [w \in Workers |->
              IF InPhase(w, "prepare") THEN [builds[w] EXCEPT !.waiting = @ \ {k}] ELSE builds[w]]
    BY DEF LoadEnds
<1>2. CacheSame /\ RestSame /\ UNCHANGED lock
    BY <1>1 DEF LoadEnds, RestUnchanged, CacheSame, RestSame, LoadSucceeds, LoadFails
<1>3. ASSUME NEW w \in Workers
      PROVE  /\ builds'[w] \in ABuild /\ builds'[w].phase = builds[w].phase
             /\ \/ builds'[w] = builds[w]
                \/ /\ builds[w].phase = "prepare"
                   /\ builds'[w].window = builds[w].window
                   /\ builds'[w].generation = builds[w].generation
                   /\ builds'[w].began = builds[w].began
    <2>1. CASE InPhase(w, "prepare")
        <3>1. builds[w] \in Preparing
            BY <2>1, BuildShapes DEF BInv, Typed, InPhase
        <3>2. builds'[w] = [builds[w] EXCEPT !.waiting = @ \ {k}]
            BY <1>1, <2>1
        <3>3. builds'[w] \in Preparing
            BY <3>1, <3>2 DEF Preparing
        <3> QED
            BY <2>1, <3>1, <3>2, <3>3 DEF ABuild, Preparing, InPhase
    <2>2. CASE ~InPhase(w, "prepare")
        BY <1>1, <2>2 DEF BInv, Typed
    <2> QED
        BY <2>1, <2>2
<1>4. builds' \in [Workers -> ABuild]
    BY <1>1, <1>3
<1>5. \A w \in Workers : \A phases : At(w, phases)' <=> At(w, phases)
    BY <1>3 DEF At
<1>6. \A w \in Workers : At(w, Open) => builds'[w] = builds[w]
    BY <1>3 DEF At, Open
<1>7. Typed'
    BY <1>2, <1>4 DEF BInv, Typed, RestSame
<1>8. LockFits'
    BY <1>2, <1>5 DEF BInv, LockFits
<1>9. DecidesOnTheAnchor'
    <2>1. \A w \in Workers : At(w, Undecided) => builds'[w] = builds[w]
        BY <1>6 DEF At, Undecided, Open
    <2> QED
        BY <1>2, <1>5, <2>1 DEF BInv, DecidesOnTheAnchor, RestSame
<1>10. TakenOnce'
    BY <1>2, <1>5, <1>6 DEF BInv, TakenOnce, RestSame
<1>11. LastFits'
    BY <1>2 DEF BInv, LastFits, Holds, Reaches, RestSame
<1>12. Timely'
    BY <1>2, <1>3, <1>5 DEF BInv, Timely, CacheSame
<1>13. DeletionsFit'
    BY <1>2, <1>3, <1>5 DEF BInv, DeletionsFit, KnownDeleted, CacheSame, RestSame
<1> QED
    BY <1>7, <1>8, <1>9, <1>10, <1>11, <1>12, <1>13 DEF BInv

LEMMA PickKeeps ==
    ASSUME BInv, Assumptions, NEW w \in Workers, Pick(w)
    PROVE  BInv'
<1>1. PICK t \in Triggers : /\ t > picked /\ picked' = t
                            /\ builds' = [builds EXCEPT ![w] = [phase |-> "queued", trigger |-> t]]
    BY DEF Pick
<1> DEFINE b == [phase |-> "queued", trigger |-> t]
<1>2. b \in ABuild /\ b.phase = "queued" /\ b.trigger = t
    BY DEF ABuild, Queued
<1>3. builds' = [builds EXCEPT ![w] = b]
    BY <1>1
<1> HIDE DEF b
<1>4. /\ builds' \in [Workers -> ABuild]
      /\ builds'[w] = b /\ \A v \in Workers \ {w} : builds'[v] = builds[v]
    BY <1>2, <1>3, OneBuild DEF BInv
<1>5. CacheSame /\ UNCHANGED <<present, attached, events, slot, anchor, lock, last>>
    BY DEF Pick, CacheSame, cache_vars
<1>6. t \in Nat /\ picked \in Nat /\ anchor.trigger \in Nat
    BY Numbers DEF BInv, Typed, Anchors
<1>7. Typed'
    BY <1>1, <1>4, <1>5, <1>6 DEF BInv, Typed
<1>8. builds[w].phase = "idle" /\ builds'[w].phase = "queued"
    BY <1>2, <1>4 DEF Pick, InPhase
<1>9. \A v \in Workers : (At(v, Undecided)' <=> At(v, Undecided))
                         /\ (At(v, Undecided) => builds'[v] = builds[v])
    BY <1>4, <1>8 DEF At, Undecided
<1>10. LockFits'
    BY <1>5, <1>9 DEF BInv, LockFits
<1>11. DecidesOnTheAnchor'
    BY <1>5, <1>9 DEF BInv, DecidesOnTheAnchor
<1>12. TakenOnce'
    <2>1. anchor'.trigger <= picked'
        BY <1>1, <1>5, <1>6 DEF BInv, TakenOnce
    <2>2. \A v \in Workers \ {w} : At(v, Open)' => At(v, Open) /\ builds'[v] = builds[v]
        BY <1>4 DEF At
    <2>3. \A v \in Workers \ {w} : At(v, Open) => builds[v].trigger < t
        <3> SUFFICES ASSUME NEW v \in Workers \ {w}, At(v, Open)
                     PROVE  builds[v].trigger < t
            OBVIOUS
        <3>1. builds[v] \in Queued \cup Selecting
            BY BuildShapes DEF BInv, Typed, At, Open, Undecided
        <3>2. builds[v].trigger \in Nat
            BY <3>1, Numbers DEF BInv, Queued, Selecting
        <3>3. builds[v].trigger <= picked
            BY DEF BInv, TakenOnce
        <3> QED
            BY <1>1, <1>6, <3>2, <3>3
    <2>4. builds'[w].trigger = t /\ anchor.trigger < t
        BY <1>1, <1>2, <1>4, <1>6 DEF BInv, TakenOnce
    <2> SUFFICES ASSUME NEW v \in Workers, At(v, Open)'
                 PROVE  /\ builds'[v].trigger <= picked'
                        /\ anchor # NoAnchor => anchor.trigger # builds'[v].trigger
                        /\ \A u \in Workers \ {v} : At(u, Open)' => builds'[u].trigger # builds'[v].trigger
        BY <1>5, <2>1 DEF TakenOnce
    <2>5. CASE v = w
        <3>1. \A u \in Workers \ {w} : At(u, Open)' => builds'[u].trigger < t
            BY <2>2, <2>3
        <3>2. \A u \in Workers \ {w} : At(u, Open)' => builds'[u].trigger # t
            <4> SUFFICES ASSUME NEW u \in Workers \ {w}, At(u, Open)', builds'[u].trigger = t
                         PROVE  FALSE
                OBVIOUS
            <4>1. t < t
                BY <3>1
            <4> QED
                BY <1>6, <4>1
        <3> QED
            BY <1>1, <1>6, <2>4, <2>5, <3>2
    <2>6. CASE v # w
        <3>1. At(v, Open) /\ builds'[v] = builds[v] /\ builds[v].trigger < t
            BY <2>2, <2>3, <2>6
        <3>2. builds[v].trigger \in Nat
            <4>1. builds[v] \in Queued \cup Selecting
                BY <3>1, BuildShapes DEF BInv, Typed, At, Open, Undecided
            <4> QED
                BY <4>1, Numbers DEF BInv, Queued, Selecting
        <3>3. \A u \in Workers \ {v, w} : At(u, Open)' => builds'[u].trigger # builds'[v].trigger
            BY <2>2, <3>1 DEF BInv, TakenOnce
        <3>4. builds'[w].trigger # builds[v].trigger
            BY <1>6, <2>4, <3>1, <3>2
        <3>5. anchor # NoAnchor => anchor.trigger # builds[v].trigger
            BY <3>1 DEF BInv, TakenOnce
        <3> QED
            BY <1>1, <1>6, <3>1, <3>2, <3>3, <3>4, <3>5
    <2> QED
        BY <2>5, <2>6
<1>13. LastFits'
    BY <1>5 DEF BInv, LastFits, Holds, Reaches
<1>14. Timely'
    BY <1>4, <1>5, <1>8 DEF BInv, Timely, CacheSame, At
<1>15. DeletionsFit'
    BY <1>4, <1>5, <1>8 DEF BInv, DeletionsFit, KnownDeleted, CacheSame, At
<1> QED
    BY <1>7, <1>10, <1>11, <1>12, <1>13, <1>14, <1>15 DEF BInv

(* A build that stays open with its trigger, or drops out of the race for    *)
(* the anchor, leaves the triggers taken once.                               *)
LEMMA StaysTaken ==
    ASSUME Typed, TakenOnce, NEW w \in Workers, NEW b \in ABuild,
           builds' = [builds EXCEPT ![w] = b], At(w, Open), UNCHANGED <<anchor, picked>>,
           b.phase \in Open => b.trigger = builds[w].trigger
    PROVE  TakenOnce'
<1>1. builds'[w] = b /\ \A v \in Workers \ {w} : builds'[v] = builds[v]
    BY OneBuild
<1>2. \A v \in Workers : At(v, Open)' => At(v, Open) /\ builds'[v].trigger = builds[v].trigger
    BY <1>1 DEF At
<1> QED
    BY <1>2 DEF TakenOnce

LEMMA BeginKeeps ==
    ASSUME BInv, Assumptions, CacheTypeOK, NEW w \in Workers, BeginSelect(w)
    PROVE  BInv'
<1> DEFINE t == builds[w].trigger
           d == initial_decision(anchor, t)
           b == [phase |-> IF d = KEEP THEN "after" ELSE "recent", trigger |-> t, decision |-> d,
                 state |-> anchor, slot |-> slot, generation |-> generation, began |-> clock]
<1>1. builds[w] \in Queued /\ builds[w].phase = "queued" /\ lock = Nobody
    BY BuildShapes DEF BInv, Typed, BeginSelect, InPhase
<1>2. t \in Triggers /\ t \in Nat /\ anchor.trigger \in Nat
    BY <1>1, Numbers DEF BInv, Queued, Typed, Anchors
<1>3. d \in Decisions /\ (d = KEEP => anchor # NoAnchor /\ anchor.trigger <= t)
      /\ (d = REFRESH => anchor = NoAnchor)
    BY <1>2 DEF initial_decision, Decisions, KEEP, REFRESH, SNAPSHOT
<1>4. generation \in Nat /\ clock \in Nat
    BY DEF CacheTypeOK
<1>5. b \in Selecting
    BY <1>2, <1>3, <1>4 DEF Selecting, BInv, Typed
<1>6. builds' = [builds EXCEPT ![w] = b] /\ lock' = w /\ CacheSame /\ RestSame
    BY DEF BeginSelect, CacheSame, RestSame, cache_vars
<1>7. /\ b.state = anchor /\ b.trigger = t /\ b.decision = d
      /\ b.generation = generation /\ b.began = clock
      /\ b.phase = IF d = KEEP THEN "after" ELSE "recent"
    OBVIOUS
<1> HIDE DEF b, d
<1>8. b \in ABuild /\ b.phase \in Undecided
    BY <1>5 DEF ABuild, Selecting, Undecided
<1>9. /\ builds' \in [Workers -> ABuild]
      /\ builds'[w] = b /\ \A v \in Workers \ {w} : builds'[v] = builds[v]
    BY <1>6, <1>8, OneBuild DEF BInv
<1>10. Typed'
    BY <1>6, <1>9 DEF BInv, Typed, RestSame
<1>11. \A v \in Workers : ~At(v, Undecided)
    BY <1>1, Numbers DEF BInv, LockFits
<1>12. \A v \in Workers : At(v, Undecided)' <=> v = w
    BY <1>8, <1>9, <1>11 DEF At
<1>13. LockFits'
    BY <1>6, <1>12 DEF LockFits
<1>14. DecidesOnTheAnchor'
    <2>1. b.state = anchor' /\ (b.phase = "after" => anchor' # NoAnchor /\ anchor'.trigger <= b.trigger)
          /\ (b.phase = "recent" => b.decision # KEEP)
          /\ (b.decision = REFRESH => anchor' = NoAnchor \/ anchor'.trigger <= b.trigger)
        BY <1>3, <1>6, <1>7 DEF RestSame
    <2> QED
        BY <1>9, <1>12, <2>1 DEF DecidesOnTheAnchor
<1>15. TakenOnce'
    <2>1. At(w, Open)
        BY <1>1 DEF At, Open
    <2> QED
        BY <1>6, <1>7, <1>8, <2>1, StaysTaken DEF BInv, RestSame
<1>16. LastFits'
    BY <1>6 DEF BInv, LastFits, Holds, Reaches, RestSame
<1>17. Timely'
    <2>1. generation <= generation /\ clock <= clock /\ clock <= clock + MaxBuild
        BY <1>4, Numbers DEF BInv
    <2>2. \A v \in Workers \ {w} : At(v, {"after", "recent", "prepare"})'
                                  => At(v, {"after", "recent", "prepare"}) /\ builds'[v] = builds[v]
        BY <1>9 DEF At
    <2> QED
        BY <1>6, <1>7, <1>9, <2>1, <2>2 DEF BInv, Timely, CacheSame
<1>18. DeletionsFit'
    <2>1. \A v \in Workers : At(v, {"prepare"})' => At(v, {"prepare"}) /\ builds'[v] = builds[v]
        BY <1>8, <1>9 DEF At, Undecided
    <2> QED
        BY <1>6, <2>1 DEF BInv, DeletionsFit, KnownDeleted, CacheSame, RestSame
<1> QED
    BY <1>10, <1>13, <1>14, <1>15, <1>16, <1>17, <1>18 DEF BInv

(* What was fetched after the anchor will not do: the recent messages are    *)
(* fetched instead.                                                          *)
Refetches(w) ==
    /\ InPhase(w, "after")
    /\ builds' = [builds EXCEPT ![w].phase = "recent", ![w].decision = REFRESH]
    /\ UNCHANGED <<cache_vars, present, attached, events, slot, reads, anchor, lock, picked, last>>

LEMMA RefetchKeeps ==
    ASSUME BInv, Assumptions, NEW w \in Workers, Refetches(w)
    PROVE  BInv'
<1> DEFINE one == [builds[w] EXCEPT !.phase = "recent"]
           b == [one EXCEPT !.decision = REFRESH]
<1>1. builds[w] \in Selecting /\ builds[w].phase = "after" /\ builds \in [Workers -> ABuild]
    BY BuildShapes DEF BInv, Typed, Refetches, InPhase, Undecided
<1>2. /\ b \in Selecting /\ b.phase = "recent" /\ b.decision = REFRESH
      /\ b.state = builds[w].state /\ b.trigger = builds[w].trigger
      /\ b.generation = builds[w].generation /\ b.began = builds[w].began
    BY <1>1 DEF Selecting, Decisions
<1>3. builds' = [builds EXCEPT ![w] = b]
    BY <1>1 DEF Refetches
<1> HIDE DEF b
<1>4. CacheSame /\ RestSame /\ UNCHANGED lock
    BY DEF Refetches, CacheSame, RestSame, cache_vars
<1>5. b \in ABuild
    BY <1>2 DEF ABuild
<1>6. /\ builds' \in [Workers -> ABuild]
      /\ builds'[w] = b /\ \A v \in Workers \ {w} : builds'[v] = builds[v]
    BY <1>3, <1>5, OneBuild DEF BInv
<1>7. Typed'
    BY <1>4, <1>6 DEF BInv, Typed, RestSame
<1>8. At(w, Undecided) /\ At(w, Undecided)' /\ At(w, Open)
    BY <1>1, <1>2, <1>6 DEF At, Undecided, Open
<1>9. LockFits'
    BY <1>4, <1>6, <1>8 DEF BInv, LockFits, At
<1>10. DecidesOnTheAnchor'
    <2>1. /\ builds[w].state = anchor /\ anchor # NoAnchor
          /\ anchor.trigger <= builds[w].trigger
        BY <1>1, <1>8 DEF BInv, DecidesOnTheAnchor
    <2>2. b.decision # KEEP
        BY <1>2 DEF KEEP, REFRESH
    <2> QED
        BY <1>2, <1>4, <1>6, <2>1, <2>2 DEF BInv, DecidesOnTheAnchor, RestSame, At
<1>11. TakenOnce'
    BY <1>2, <1>3, <1>4, <1>5, <1>8, StaysTaken DEF BInv, RestSame
<1>12. LastFits'
    BY <1>4 DEF BInv, LastFits, Holds, Reaches, RestSame
<1>13. Timely'
    BY <1>1, <1>2, <1>4, <1>6 DEF BInv, Timely, CacheSame, At
<1>14. DeletionsFit'
    <2>1. \A v \in Workers : At(v, {"prepare"})' => At(v, {"prepare"}) /\ builds'[v] = builds[v]
        BY <1>2, <1>6 DEF At
    <2> QED
        BY <1>4, <2>1 DEF BInv, DeletionsFit, KnownDeleted, CacheSame, RestSame
<1> QED
    BY <1>7, <1>9, <1>10, <1>11, <1>12, <1>13, <1>14 DEF BInv
(***************************************************************************)
(* A window is chosen                                                      *)
(***************************************************************************)

Bounds(w, window) == ToSet(window) \cup {builds[w].trigger}

LEMMA OldestIncluded ==
    ASSUME BInv, Assumptions, NEW w \in Workers, At(w, Undecided), NEW window \in Seq(present)
    PROVE  LET least == Min(Bounds(w, window)) IN
           /\ least \in Bounds(w, window) /\ \A m \in Bounds(w, window) : least <= m
           /\ Bounds(w, window) \subseteq Messages
<1>1. builds[w] \in Selecting
    BY BuildShapes DEF BInv, Typed, At
<1>2. builds[w].trigger \in Messages
    BY <1>1, Numbers DEF BInv, Selecting
<1>3. ToSet(window) \in SUBSET present /\ present \subseteq Messages
    BY DEF ToSet, BInv, Typed
<1>4. IsFiniteSet(ToSet(window))
    BY <1>3, Numbers, FS_Subset DEF BInv
<1>5. IsFiniteSet(Bounds(w, window))
    BY <1>4, FS_AddElement DEF Bounds
<1>6. Bounds(w, window) \subseteq Messages /\ Bounds(w, window) # {}
    BY <1>2, <1>3 DEF Bounds
<1>7. Bounds(w, window) \subseteq Int
    BY <1>6, Numbers DEF BInv
<1>8. /\ Min(Bounds(w, window)) \in Bounds(w, window)
      /\ \A m \in Bounds(w, window) : Min(Bounds(w, window)) <= m
    BY <1>5, <1>6, <1>7, Extremes
<1> QED
    BY <1>6, <1>8

(* What Selected leaves behind, whatever the window. *)
LEMMA SelectedShape ==
    ASSUME BInv, Assumptions, NEW w \in Workers, At(w, Undecided),
           NEW decision \in Decisions, NEW window \in Seq(present), Selected(w, decision, window)
    PROVE  \E b \in Preparing :
             /\ builds' = [builds EXCEPT ![w] = b] /\ lock' = Nobody
             /\ b.window = window /\ b.trigger = builds[w].trigger
             /\ b.slot = builds[w].slot /\ b.waiting = {}
             /\ b.generation = builds[w].generation /\ b.began = builds[w].began
             /\ CacheSame /\ UNCHANGED <<present, attached, events, slot, picked>>
<1> DEFINE wanted == UNION {Images(m) \cap attached : m \in ToSet(window) \cup {builds[w].trigger}}
           b == [phase |-> "prepare", trigger |-> builds[w].trigger, decision |-> decision,
                 slot |-> builds[w].slot, generation |-> builds[w].generation,
                 began |-> builds[w].began, window |-> window, wanted |-> wanted, waiting |-> {}]
<1>1. builds[w] \in Selecting
    BY BuildShapes DEF BInv, Typed, At
<1>2. wanted \subseteq Keys
    BY DEF BInv, Typed
<1>3. window \in Seq(Messages)
    BY DEF BInv, Typed
<1> HIDE DEF wanted
<1>4. b \in Preparing
    BY <1>1, <1>2, <1>3 DEF Preparing, Selecting
<1>5. builds' = [builds EXCEPT ![w] = b]
    BY DEF Selected, wanted
<1>6. /\ b.window = window /\ b.trigger = builds[w].trigger
      /\ b.slot = builds[w].slot /\ b.waiting = {}
      /\ b.generation = builds[w].generation /\ b.began = builds[w].began
    OBVIOUS
<1>7. lock' = Nobody /\ CacheSame /\ UNCHANGED <<present, attached, events, slot, picked>>
    BY DEF Selected, CacheSame, cache_vars
<1> HIDE DEF b
<1> QED
    BY <1>4, <1>5, <1>6, <1>7

LEMMA SelectedKeeps ==
    ASSUME BInv, Assumptions, NEW w \in Workers, At(w, Undecided),
           NEW decision \in Decisions, NEW window \in Seq(present), Selected(w, decision, window),
           anchor' \in Anchors, last' \in Seq(Messages), anchor'.trigger <= picked,
           LastFits',
           anchor' = anchor \/ anchor'.trigger = builds[w].trigger
    PROVE  BInv'
<1>1. PICK b \in Preparing :
             /\ builds' = [builds EXCEPT ![w] = b] /\ lock' = Nobody
             /\ b.window = window /\ b.trigger = builds[w].trigger
             /\ b.generation = builds[w].generation /\ b.began = builds[w].began
             /\ CacheSame /\ UNCHANGED <<present, attached, events, slot, picked>>
    BY SelectedShape
<1>2. b \in ABuild /\ b.phase = "prepare"
    BY DEF ABuild, Preparing
<1>3. /\ builds' \in [Workers -> ABuild]
      /\ builds'[w] = b /\ \A v \in Workers \ {w} : builds'[v] = builds[v]
    BY <1>1, <1>2, OneBuild DEF BInv
<1>4. Typed'
    BY <1>1, <1>3 DEF BInv, Typed
<1>5. \A v \in Workers : ~At(v, Undecided)'
    <2>1. \A v \in Workers \ {w} : ~At(v, Undecided)
        BY DEF BInv, LockFits
    <2> QED
        BY <1>2, <1>3, <2>1 DEF At, Undecided
<1>6. LockFits' /\ DecidesOnTheAnchor'
    BY <1>1, <1>5, Numbers DEF BInv, LockFits, DecidesOnTheAnchor
<1>7. TakenOnce'
    <2>1. \A v \in Workers : At(v, Open)' => v # w /\ At(v, Open) /\ builds'[v] = builds[v]
        BY <1>2, <1>3 DEF At, Open
    <2>2. At(w, Open)
        BY DEF At, Open, Undecided
    <2>3. \A v \in Workers \ {w} : At(v, Open) =>
              /\ builds[v].trigger # builds[w].trigger
              /\ anchor # NoAnchor => builds[v].trigger # anchor.trigger
        BY <2>2 DEF BInv, TakenOnce
    <2>4. picked' = picked
        BY <1>1
    <2>5. \A v \in Workers : At(v, Open)' => (anchor' # NoAnchor => anchor'.trigger # builds'[v].trigger)
        BY <2>1, <2>3
    <2> QED
        BY <2>1, <2>4, <2>5 DEF BInv, TakenOnce
<1>8. Timely'
    <2>1. At(w, {"after", "recent", "prepare"})
        BY DEF At, Undecided
    <2>2. \A v \in Workers \ {w} : At(v, {"after", "recent", "prepare"})'
                                  => At(v, {"after", "recent", "prepare"}) /\ builds'[v] = builds[v]
        BY <1>3 DEF At
    <2> QED
        BY <1>1, <1>3, <2>1, <2>2 DEF BInv, Timely, CacheSame
<1>9. DeletionsFit'
    <2> SUFFICES ASSUME NEW v \in Workers, At(v, {"prepare"})', NEW m \in ToSet(builds'[v].window)
                 PROVE  m \in present \/ <<m, TRUE>> \in events \/ KnownDeleted(m, builds[v])'
        BY <1>1 DEF DeletionsFit
    <2>1. CASE v = w
        <3>1. m \in ToSet(window)
            BY <1>1, <1>3, <2>1
        <3> QED
            BY <3>1 DEF ToSet
    <2>2. CASE v # w
        <3>1. builds'[v] = builds[v] /\ At(v, {"prepare"})
            BY <1>3, <2>2 DEF At
        <3>2. m \in present \/ <<m, TRUE>> \in events \/ KnownDeleted(m, builds[v])
            BY <3>1 DEF BInv, DeletionsFit
        <3> QED
            BY <1>1, <3>1, <3>2 DEF KnownDeleted, CacheSame
    <2> QED
        BY <2>1, <2>2
<1> QED
    BY <1>4, <1>6, <1>7, <1>8, <1>9 DEF BInv

(* A prompt is its window and then the trigger. *)
LEMMA PromptOf ==
    ASSUME NEW S, S \subseteq Int, NEW window \in Seq(S), NEW t \in Int, \A m \in S : m < t,
           Ascending(window)
    PROVE  LET s == Append(window, t) IN
           /\ Ascending(s) /\ ToSet(s) = ToSet(window) \cup {t}
           /\ \A m \in Int : Reaches(s, m) <=> m <= t
<1> DEFINE s == Append(window, t)
           n == Len(window)
<1>1. n \in Nat /\ DOMAIN window = 1 .. n /\ \A i \in 1 .. n : window[i] \in S
    OBVIOUS
<1>2. /\ DOMAIN s = 1 .. (n + 1) /\ s[n + 1] = t
      /\ \A i \in 1 .. n : s[i] = window[i]
    BY <1>1
<1> HIDE DEF s, n
<1>3. \A i \in 1 .. n : s[i] \in Int /\ s[i] < t
    BY <1>1, <1>2
<1>4. Ascending(s)
    <2> SUFFICES ASSUME NEW i \in 1 .. (n + 1), NEW j \in 1 .. (n + 1), i < j
                 PROVE  s[i] < s[j]
        BY <1>2 DEF Ascending
    <2>1. i \in 1 .. n
        BY <1>1
    <2>2. CASE j = n + 1
        BY <1>2, <1>3, <2>1, <2>2
    <2>3. CASE j # n + 1
        <3>1. j \in 1 .. n
            BY <1>1, <2>3
        <3>2. window[i] < window[j]
            BY <1>1, <2>1, <3>1 DEF Ascending
        <3> QED
            BY <1>2, <2>1, <3>1, <3>2
    <2> QED
        BY <2>2, <2>3
<1>5. ToSet(s) = ToSet(window) \cup {t}
    <2>1. 1 .. (n + 1) = 1 .. n \cup {n + 1}
        BY <1>1
    <2> QED
        BY <1>1, <1>2, <2>1 DEF ToSet
<1>6. t \in ToSet(s) /\ \A x \in ToSet(s) : x \in Int /\ x <= t
    <2>1. \A x \in ToSet(window) : x \in S
        BY <1>1 DEF ToSet
    <2>2. t \in ToSet(s)
        BY <1>5
    <2>3. ASSUME NEW x \in ToSet(s)
          PROVE  x \in Int /\ x <= t
        <3>1. CASE x = t
            BY <3>1
        <3>2. CASE x # t
            <4>1. x \in S
                BY <1>5, <2>1, <3>2
            <4>2. x \in Int /\ x < t
                BY <4>1
            <4> QED
                BY <4>2
        <3> QED
            BY <3>1, <3>2
    <2> QED
        BY <2>2, <2>3
<1>7. \A m \in Int : Reaches(s, m) <=> m <= t
    <2> SUFFICES ASSUME NEW m \in Int
                 PROVE  Reaches(s, m) <=> m <= t
        OBVIOUS
    <2>1. m <= t => Reaches(s, m)
        BY <1>6 DEF Reaches
    <2>2. ASSUME Reaches(s, m)
          PROVE  m <= t
        <3>1. PICK x \in ToSet(s) : m <= x
            BY <2>2 DEF Reaches
        <3> QED
            BY <1>6, <3>1
    <2> QED
        BY <2>1, <2>2
<1> QED
    BY <1>4, <1>5, <1>7 DEF s

LEMMA TriggerFacts ==
    ASSUME BInv, Assumptions, NEW w \in Workers, At(w, Undecided)
    PROVE  /\ builds[w] \in Selecting /\ builds[w].trigger \in Messages
           /\ builds[w].trigger \in Nat /\ builds[w].trigger > 0 /\ builds[w].trigger <= picked
           /\ anchor # NoAnchor => anchor.trigger # builds[w].trigger
           /\ anchor.trigger \in Nat /\ anchor.after \in Nat /\ picked \in Nat
<1>1. builds[w] \in Selecting
    BY BuildShapes DEF BInv, Typed, At
<1>2. builds[w].trigger \in Messages
    BY <1>1, Numbers DEF BInv, Selecting
<1>3. At(w, Open)
    BY DEF At, Open, Undecided
<1>4. anchor \in Anchors /\ picked \in Nat
    BY DEF BInv, Typed
<1> QED
    BY <1>1, <1>2, <1>3, <1>4, Numbers DEF BInv, TakenOnce, Anchors

(* The window after the anchor, kept: as far as both reach the prompt before *)
(* it and the new one hold the same.                                         *)
KeptWindow(w, window) ==
    /\ InPhase(w, "after") /\ window \in Seq(present) /\ Ascending(window)
    /\ ToSet(window) = {m \in present : anchor.after < m /\ m < builds[w].trigger}

LEMMA KeptPrompt ==
    ASSUME BInv, Assumptions, NEW w \in Workers, NEW window, KeptWindow(w, window)
    PROVE  LET s == Append(window, builds[w].trigger) IN
           /\ anchor # NoAnchor /\ Ascending(s) /\ Holds(s, anchor.after)
           /\ ContinueOneAnother(last, s)
<1> DEFINE t == builds[w].trigger
           s == Append(window, t)
           S == {m \in present : anchor.after < m /\ m < t}
<1>1. At(w, Undecided)
    BY DEF KeptWindow, InPhase, At, Undecided
<1>2. t \in Int /\ present \subseteq Int /\ anchor.after \in Nat /\ anchor.trigger \in Nat
    BY <1>1, Numbers, TriggerFacts DEF BInv
<1>3. anchor # NoAnchor /\ anchor.trigger <= t
    BY <1>1 DEF BInv, DecidesOnTheAnchor, KeptWindow, InPhase
<1>4. anchor.after < t
    BY <1>2, <1>3 DEF BInv, LastFits
<1>5. window \in Seq(S) /\ S \subseteq Int /\ \A m \in S : m < t
    <2>1. window \in Seq(present) /\ ToSet(window) = S
        BY DEF KeptWindow
    <2> HIDE DEF S
    <2>2. \A i \in 1 .. Len(window) : window[i] \in S
        BY <2>1 DEF ToSet
    <2>3. window \in Seq(S)
        BY <2>1, <2>2
    <2> QED
        BY <1>2, <2>3 DEF S
<1>6. Ascending(window) /\ ToSet(window) = S
    BY DEF KeptWindow
<1> HIDE DEF S
<1>7. /\ Ascending(s) /\ ToSet(s) = ToSet(window) \cup {t}
      /\ \A m \in Int : Reaches(s, m) <=> m <= t
    BY <1>2, <1>5, <1>6, PromptOf
<1> HIDE DEF s
<1>8. Holds(s, anchor.after)
    <2> SUFFICES ASSUME NEW m \in present, Reaches(s, m)
                 PROVE  m \in ToSet(s) <=> anchor.after < m
        BY DEF Holds
    <2>1. m \in Int /\ m <= t
        BY <1>2, <1>7
    <2> QED
        BY <1>2, <1>4, <1>6, <1>7, <2>1 DEF S
<1>9. Ascending(last) /\ Holds(last, anchor.after)
    BY <1>3 DEF BInv, LastFits
<1>10. ContinueOneAnother(last, s)
    BY <1>7, <1>8, <1>9 DEF ContinueOneAnother, Holds
<1> QED
    BY <1>3, <1>7, <1>8, <1>10 DEF s

LEMMA KeepKeeps ==
    ASSUME BInv, Assumptions, NEW w \in Workers, NEW window, KeptWindow(w, window),
           Selected(w, KEEP, window)
    PROVE  BInv'
<1> DEFINE s == Append(window, builds[w].trigger)
<1>1. At(w, Undecided) /\ window \in Seq(present)
    BY DEF KeptWindow, InPhase, At, Undecided
<1>2. anchor' = anchor /\ last' = s /\ UNCHANGED <<present, picked>>
    BY DEF Selected, KEEP, REFRESH, SNAPSHOT
<1>3. anchor # NoAnchor /\ Ascending(s) /\ Holds(s, anchor.after)
    BY KeptPrompt
<1>4. s \in Seq(Messages)
    BY <1>1, TriggerFacts DEF BInv, Typed
<1>5. anchor \in Anchors /\ anchor.trigger <= picked
    BY DEF BInv, Typed, TakenOnce
<1> HIDE DEF s
<1>6. LastFits'
    BY <1>2, <1>3 DEF BInv, LastFits, Holds, Reaches
<1>7. KEEP \in Decisions
    BY DEF Decisions
<1> QED
    BY <1>1, <1>2, <1>4, <1>5, <1>6, <1>7, SelectedKeeps

(* A refreshed window moves the anchor below what it holds. *)
LEMMA RefreshKeeps ==
    ASSUME BInv, Assumptions, NEW w \in Workers, At(w, Undecided),
           builds[w].decision = REFRESH,
           NEW window, NewestOf(window, {m \in present : m < builds[w].trigger}),
           Selected(w, REFRESH, window)
    PROVE  BInv'
<1> DEFINE t == builds[w].trigger
           S == {m \in present : m < t}
           s == Append(window, t)
           least == Min(Bounds(w, window))
           to == [after |-> least - 1, trigger |-> t]
<1>1. window \in Seq(S) /\ Ascending(window)
    BY DEF NewestOf
<1>2. window \in Seq(present)
    BY <1>1
<1>3. /\ t \in Messages /\ t \in Nat /\ t > 0 /\ t <= picked /\ present \subseteq Int
      /\ anchor.trigger \in Nat
    BY TriggerFacts, Numbers DEF BInv
<1>4. /\ least \in Bounds(w, window) /\ \A m \in Bounds(w, window) : least <= m
      /\ least \in Nat /\ least > 0
    BY <1>2, OldestIncluded, Numbers DEF BInv
<1>5. Bounds(w, window) = ToSet(window) \cup {t}
    BY DEF Bounds
<1>6. anchor' = to
    <2>1. anchor = NoAnchor \/ anchor.trigger < t
        <3>1. anchor = NoAnchor \/ anchor.trigger <= t
            BY DEF BInv, DecidesOnTheAnchor
        <3>2. anchor # NoAnchor => anchor.trigger # t
            BY TriggerFacts
        <3> QED
            BY <1>3, <3>1, <3>2
    <2>2. state_after_refresh(window, t) = to
        BY DEF state_after_refresh, Bounds
    <2>3. anchor' = Committed(anchor, state_after_refresh(window, t))
        BY DEF Selected
    <2>4. to.trigger = t
        OBVIOUS
    <2> HIDE DEF to, t
    <2>5. Committed(anchor, to) = to
        BY <1>3, <2>1, <2>4 DEF Committed
    <2> QED
        BY <2>2, <2>3, <2>5
<1>7. to \in Anchors /\ to.trigger = t /\ to.after = least - 1
    BY <1>3, <1>4 DEF Anchors
<1> HIDE DEF to, least
<1>8. last' = s /\ UNCHANGED <<present, picked>>
    BY DEF Selected, REFRESH, SNAPSHOT
<1>9. s \in Seq(Messages)
    <2>1. window \in Seq(Messages)
        BY <1>2 DEF BInv, Typed
    <2>2. t \in Messages
        BY <1>3
    <2> HIDE DEF t
    <2> QED
        BY <2>1, <2>2 DEF s
<1>10. /\ Ascending(s) /\ ToSet(s) = ToSet(window) \cup {t}
       /\ \A m \in Int : Reaches(s, m) <=> m <= t
    <2>1. S \subseteq Int
        BY <1>3
    <2>2. t \in Int
        BY <1>3
    <2>3. \A m \in S : m < t
        OBVIOUS
    <2> HIDE DEF S
    <2> QED
        BY <1>1, <2>1, <2>2, <2>3, PromptOf
<1> HIDE DEF s
<1>11. Holds(s, to.after)
    <2> SUFFICES ASSUME NEW m \in present, Reaches(s, m)
                 PROVE  m \in ToSet(s) <=> least - 1 < m
        BY <1>7 DEF Holds
    <2>1. m \in Int /\ m <= t
        BY <1>3, <1>10
    <2>2. ASSUME m \in ToSet(s)
          PROVE  least - 1 < m
        <3>1. least <= m
            BY <1>4, <1>5, <1>10, <2>2
        <3> QED
            BY <1>4, <2>1, <3>1
    <2>3. ASSUME least - 1 < m
          PROVE  m \in ToSet(s)
        <3>1. least <= m
            BY <1>4, <2>1, <2>3
        <3>2. CASE m = t
            BY <1>10, <3>2
        <3>3. CASE m # t
            <4>1. m < t /\ m \in S
                BY <1>3, <2>1, <3>3
            <4>2. least # t
                BY <1>3, <1>4, <2>1, <3>1, <4>1
            <4>3. least \in ToSet(window)
                BY <1>4, <1>5, <4>2
            <4>4. m \in ToSet(window)
                BY <3>1, <4>1, <4>3 DEF NewestOf
            <4> QED
                BY <1>10, <4>4
        <3> QED
            BY <3>2, <3>3
    <2> QED
        BY <2>2, <2>3
<1>12. to.after < to.trigger
    <2>1. least <= t
        BY <1>4, <1>5
    <2> QED
        BY <1>3, <1>4, <1>7, <2>1
<1>13. LastFits'
    BY <1>6, <1>8, <1>10, <1>11, <1>12 DEF LastFits, Holds, Reaches
<1>14. REFRESH \in Decisions
    BY DEF Decisions
<1> QED
    BY <1>2, <1>3, <1>6, <1>7, <1>8, <1>9, <1>13, <1>14, SelectedKeeps

LEMMA SnapshotKeeps ==
    ASSUME BInv, Assumptions, NEW w \in Workers, At(w, Undecided), NEW window \in Seq(present),
           Selected(w, SNAPSHOT, window)
    PROVE  BInv'
<1>1. UNCHANGED <<anchor, last, present, picked>>
    BY DEF Selected, SNAPSHOT, REFRESH
<1>2. anchor \in Anchors /\ last \in Seq(Messages) /\ anchor.trigger <= picked
    BY DEF BInv, Typed, TakenOnce
<1>3. LastFits'
    BY <1>1 DEF BInv, LastFits, Holds, Reaches
<1>4. SNAPSHOT \in Decisions
    BY DEF Decisions
<1> QED
    BY <1>1, <1>2, <1>3, <1>4, SelectedKeeps

(* A fetch keeps the window, refreshes it or takes a snapshot. *)
LEMMA FetchAfterSteps ==
    ASSUME BInv, Assumptions, NEW w \in Workers, FetchAfter(w)
    PROVE  \/ \E window : KeptWindow(w, window) /\ Selected(w, KEEP, window)
           \/ Refetches(w)
<1> DEFINE b == builds[w]
           fetched == fetch_after(present, b.state, b.trigger)
<1>1. At(w, Undecided) /\ InPhase(w, "after")
    BY DEF FetchAfter, InPhase, At, Undecided
<1>2. b.state = anchor /\ b.trigger \in Int /\ present \subseteq Int /\ IsFiniteSet(present)
    BY <1>1, TriggerFacts, Numbers DEF BInv, DecidesOnTheAnchor
<1>3. PolicyAssumption
    BY DEF Assumptions
<1>4. /\ fetched \in Seq({m \in present : b.state.after < m /\ m < b.trigger})
      /\ ~Burst(fetched) =>
            /\ Ascending(fetched)
            /\ ToSet(fetched) = {m \in present : b.state.after < m /\ m < b.trigger}
    BY <1>2, <1>3, AfterIsAll
<1>5. fetched \in Seq(present)
    <2> DEFINE S == {m \in present : b.state.after < m /\ m < b.trigger}
    <2>1. S \subseteq present
        OBVIOUS
    <2> HIDE DEF S
    <2> QED
        BY <1>4, <2>1 DEF S
<1>6. CASE window_decision(b.state, fetched) = KEEP /\ Fits(fetched, b.trigger, b.slot)
    <2>1. ~Burst(fetched)
        BY <1>6 DEF window_decision, KEEP, REFRESH
    <2>2. KeptWindow(w, fetched)
        BY <1>1, <1>2, <1>4, <1>5, <2>1 DEF KeptWindow
    <2>3. Selected(w, KEEP, fetched)
        BY <1>6 DEF FetchAfter
    <2> QED
        BY <2>2, <2>3
<1>7. CASE ~(window_decision(b.state, fetched) = KEEP /\ Fits(fetched, b.trigger, b.slot))
    BY <1>1, <1>7 DEF FetchAfter, Refetches
<1> QED
    BY <1>6, <1>7

LEMMA FetchesKeep ==
    ASSUME BInv, Assumptions, NEW w \in Workers, FetchAfter(w) \/ FetchRecent(w)
    PROVE  BInv'
<1>1. CASE FetchAfter(w)
    BY <1>1, FetchAfterSteps, KeepKeeps, RefetchKeeps
<1>2. CASE FetchRecent(w)
    <2> DEFINE b == builds[w]
               window == Trimmed(fetch_recent(present, b.trigger), b.trigger, b.slot)
               S == {m \in present : m < b.trigger}
    <2>1. At(w, Undecided) /\ b.phase = "recent" /\ Selected(w, b.decision, window)
        BY <1>2 DEF FetchRecent, InPhase, At, Undecided
    <2>2. b \in Selecting /\ b.trigger \in Int /\ present \subseteq Int /\ IsFiniteSet(present)
        BY <2>1, TriggerFacts, Numbers DEF BInv
    <2>3. PolicyAssumption
        BY DEF Assumptions
    <2>4. NewestOf(window, S)
        BY <2>2, <2>3, RecentIsNewest
    <2> HIDE DEF window
    <2>5. window \in Seq(present)
        BY <2>4 DEF NewestOf
    <2>6. b.decision = REFRESH \/ b.decision = SNAPSHOT
        <3>1. b.decision \in Decisions /\ b.decision # KEEP
            BY <2>1, <2>2 DEF Selecting, BInv, DecidesOnTheAnchor
        <3> QED
            BY <3>1 DEF Decisions
    <2>7. CASE b.decision = REFRESH
        BY <2>1, <2>4, <2>7, RefreshKeeps
    <2>8. CASE b.decision = SNAPSHOT
        BY <2>1, <2>5, <2>8, SnapshotKeeps
    <2> QED
        BY <2>6, <2>7, <2>8
<1> QED
    BY <1>1, <1>2
(***************************************************************************)
(* Discord, the events, the server and time                                *)
(***************************************************************************)

(* What stays when no build, nor the anchor, nor the last prompt changes.    *)
LEMMA BuildsUntouched ==
    ASSUME BInv, UNCHANGED <<builds, anchor, lock, picked, last>>
    PROVE  LockFits' /\ DecidesOnTheAnchor' /\ TakenOnce'
<1>1. \A w \in Workers : \A phases : At(w, phases)' <=> At(w, phases)
    BY DEF At
<1> QED
    BY <1>1 DEF BInv, LockFits, DecidesOnTheAnchor, TakenOnce

LEMMA DiscordKeeps ==
    ASSUME BInv, Assumptions, \/ \E m \in Messages : Delete(m)
                              \/ \E k \in Keys : RemoveAttachment(k)
    PROVE  BInv'
<1>1. /\ UNCHANGED <<builds, anchor, lock, picked, last, slot>> /\ CacheSame
      /\ present' \subseteq present /\ attached' \subseteq attached /\ events \subseteq events'
    BY DEF Delete, RemoveAttachment, CacheSame, cache_vars
<1>2. \A m \in present : m \in present' \/ <<m, TRUE>> \in events'
    BY DEF Delete, RemoveAttachment
<1>3. events' \subseteq Messages \X BOOLEAN
    <2>1. CASE \E m \in Messages : Delete(m)
        <3>1. PICK m \in Messages : events' = events \cup {<<m, TRUE>>}
            BY <2>1 DEF Delete
        <3>2. <<m, TRUE>> \in Messages \X BOOLEAN
            OBVIOUS
        <3>3. events \subseteq Messages \X BOOLEAN
            BY DEF BInv, Typed
        <3> QED
            BY <3>1, <3>2, <3>3
    <2>2. CASE \E k \in Keys : RemoveAttachment(k)
        <3>1. PICK k \in Keys : RemoveAttachment(k)
            BY <2>2
        <3>2. events' = events \cup {<<k[1], FALSE>>}
            BY <3>1 DEF RemoveAttachment
        <3>3. k[1] \in Messages
            BY OwnerIsAMessage DEF Assumptions
        <3>4. <<k[1], FALSE>> \in Messages \X BOOLEAN
            BY <3>3
        <3>5. events \subseteq Messages \X BOOLEAN
            BY DEF BInv, Typed
        <3> QED
            BY <3>2, <3>4, <3>5
    <2> QED
        BY <2>1, <2>2
<1>4. Typed'
    BY <1>1, <1>3 DEF BInv, Typed
<1>5. LastFits'
    BY <1>1 DEF BInv, LastFits, Holds, Reaches
<1>6. Timely'
    BY <1>1 DEF BInv, Timely, CacheSame, At
<1>7. DeletionsFit'
    <2> SUFFICES ASSUME NEW w \in Workers, builds[w].phase = "prepare",
                        NEW m \in ToSet(builds[w].window)
                 PROVE  m \in present' \/ <<m, TRUE>> \in events' \/ KnownDeleted(m, builds[w])
        BY <1>1 DEF DeletionsFit, KnownDeleted, CacheSame, At
    <2>1. m \in present \/ <<m, TRUE>> \in events \/ KnownDeleted(m, builds[w])
        BY DEF BInv, DeletionsFit, At
    <2> QED
        BY <1>1, <1>2, <2>1
<1> QED
    BY <1>1, <1>4, <1>5, <1>6, <1>7, BuildsUntouched DEF BInv

(* What is known of a deletion is remembered for longer than a build takes,  *)
(* and an edit that arrives after it does not take it back.                  *)
LEMMA DeletionsStayKnown ==
    ASSUME BInv, Assumptions, CacheTypeOK, NEW m \in Messages, NEW d \in BOOLEAN,
           Invalidate(m, d), NEW w \in Workers, builds[w].phase = "prepare"
    PROVE  LET b == builds[w] IN
           /\ d => /\ m \in DOMAIN invalidated' /\ invalidated'[m].deleted
                   /\ invalidated'[m].generation > b.generation
                   /\ invalidated'[m].at >= b.began
           /\ \A x : KnownDeleted(x, b) =>
                /\ x \in DOMAIN invalidated' /\ invalidated'[x].deleted
                /\ invalidated'[x].generation > b.generation
                /\ invalidated'[x].at >= b.began
<1> DEFINE b == builds[w]
           event == [generation |-> generation + 1, deleted |-> d \/ WasDeleted(m), at |-> clock]
<1>1. b \in Preparing
    BY BuildShapes DEF BInv, Typed
<1>2. b.generation \in Nat /\ b.began \in Nat
    BY <1>1 DEF Preparing
<1>3. b.generation <= generation /\ b.began <= clock /\ clock <= b.began + MaxBuild
    BY DEF BInv, Timely, At
<1>4. generation \in Nat /\ clock \in Nat /\ MaxBuild \in Nat /\ TTL \in Nat /\ MaxBuild <= TTL
    BY Numbers DEF CacheTypeOK, BInv
<1>5. /\ event.generation = generation + 1 /\ event.at = clock
      /\ event.deleted = (d \/ WasDeleted(m))
    OBVIOUS
<1>6. invalidated' = [x \in Remembered \cup {m} |-> IF x = m THEN event ELSE invalidated[x]]
    BY DEF Invalidate
<1> HIDE DEF event, b
<1>7. event.generation > b.generation /\ event.at >= b.began
    BY <1>2, <1>3, <1>4, <1>5
<1>8. m \in DOMAIN invalidated' /\ invalidated'[m] = event
    BY <1>6
<1>9. ASSUME NEW x, KnownDeleted(x, b)
      PROVE  x \in Remembered
    <2>1. x \in DOMAIN invalidated /\ invalidated[x].at >= b.began
        BY <1>9 DEF KnownDeleted
    <2>2. invalidated[x].at \in Nat
        BY <2>1 DEF CacheTypeOK
    <2>3. clock - invalidated[x].at <= TTL
        BY <1>2, <1>3, <1>4, <2>1, <2>2
    <2> QED
        BY <2>1, <2>3 DEF Remembered
<1>10. ASSUME NEW x, KnownDeleted(x, b)
       PROVE  /\ x \in DOMAIN invalidated' /\ invalidated'[x].deleted
              /\ invalidated'[x].generation > b.generation
              /\ invalidated'[x].at >= b.began
    <2>1. CASE x = m
        <3>1. WasDeleted(m)
            BY <1>9, <1>10, <2>1 DEF WasDeleted, KnownDeleted
        <3>2. event.deleted
            BY <1>5, <3>1
        <3> QED
            BY <1>7, <1>8, <2>1, <3>2
    <2>2. CASE x # m
        <3>1. x \in DOMAIN invalidated' /\ invalidated'[x] = invalidated[x]
            BY <1>6, <1>9, <1>10, <2>2
        <3> QED
            BY <1>10, <3>1 DEF KnownDeleted
    <2> QED
        BY <2>1, <2>2
<1>11. ASSUME d
       PROVE  event.deleted
    BY <1>5, <1>11
<1> QED
    BY <1>7, <1>8, <1>10, <1>11 DEF b

LEMMA EventKeeps ==
    ASSUME BInv, Assumptions, CacheTypeOK, EventArrives
    PROVE  BInv'
<1>1. PICK e \in events : Invalidate(e[1], e[2]) /\ events' = events \ {e}
    BY DEF EventArrives
<1>2. e = <<e[1], e[2]>> /\ e[1] \in Messages /\ e[2] \in BOOLEAN
    BY DEF BInv, Typed
<1>3. UNCHANGED <<present, attached, slot, anchor, lock, builds, picked, last>>
    BY DEF EventArrives
<1>4. generation' = generation + 1 /\ clock' = clock
    BY <1>1 DEF Invalidate
<1>5. Typed'
    BY <1>1, <1>3 DEF BInv, Typed
<1>6. LastFits'
    BY <1>3 DEF BInv, LastFits, Holds, Reaches
<1>7. Timely'
    <2> SUFFICES ASSUME NEW w \in Workers, At(w, {"after", "recent", "prepare"})
                 PROVE  /\ builds[w].generation <= generation + 1
                        /\ builds[w].began <= clock /\ clock <= builds[w].began + MaxBuild
        BY <1>3, <1>4 DEF Timely, At
    <2>1. builds[w] \in Selecting \/ builds[w] \in Preparing
        BY BuildShapes DEF BInv, Typed, At, Undecided
    <2>2. builds[w].generation \in Nat /\ generation \in Nat
        BY <2>1 DEF Selecting, Preparing, CacheTypeOK
    <2>3. /\ builds[w].generation <= generation
          /\ builds[w].began <= clock /\ clock <= builds[w].began + MaxBuild
        BY DEF BInv, Timely
    <2> QED
        BY <2>2, <2>3
<1>8. DeletionsFit'
    <2> SUFFICES ASSUME NEW w \in Workers, builds[w].phase = "prepare",
                        NEW m \in ToSet(builds[w].window)
                 PROVE  \/ m \in present \/ <<m, TRUE>> \in events'
                        \/ /\ m \in DOMAIN invalidated' /\ invalidated'[m].deleted
                           /\ invalidated'[m].generation > builds[w].generation
                           /\ invalidated'[m].at >= builds[w].began
        BY <1>3 DEF DeletionsFit, KnownDeleted, At
    <2>1. m \in present \/ <<m, TRUE>> \in events \/ KnownDeleted(m, builds[w])
        BY DEF BInv, DeletionsFit, At
    <2>2. CASE e = <<m, TRUE>>
        BY <1>1, <1>2, <2>2, DeletionsStayKnown
    <2>3. CASE <<m, TRUE>> \in events /\ e # <<m, TRUE>>
        BY <1>1, <2>3
    <2>4. CASE KnownDeleted(m, builds[w])
        BY <1>1, <1>2, <2>4, DeletionsStayKnown
    <2> QED
        BY <2>1, <2>2, <2>3, <2>4
<1> QED
    BY <1>3, <1>5, <1>6, <1>7, <1>8, BuildsUntouched DEF BInv

(* The store forgets an anchor only while no build decides on it. *)
LEMMA ServerKeeps ==
    ASSUME BInv, Assumptions, ReadSlot \/ Evict
    PROVE  BInv'
<1>1. CacheSame /\ UNCHANGED <<present, attached, events, lock, builds, picked, last>>
    BY DEF ReadSlot, Evict, CacheSame, cache_vars
<1>2. slot' \in Slots \cup {Unknown}
    BY DEF ReadSlot, Evict, BInv, Typed
<1>3. anchor' = anchor \/ (anchor' = NoAnchor /\ lock = Nobody)
    BY DEF ReadSlot, Evict
<1>4. NoAnchor \in Anchors /\ NoAnchor.trigger = 0
    BY DEF Anchors, NoAnchor
<1>5. Typed'
    BY <1>1, <1>2, <1>3, <1>4 DEF BInv, Typed
<1>6. \A w \in Workers : \A phases : At(w, phases)' <=> At(w, phases)
    BY <1>1 DEF At
<1>7. LockFits'
    BY <1>1, <1>6 DEF BInv, LockFits
<1>8. anchor' # anchor => \A w \in Workers : ~At(w, Undecided)
    BY <1>3, Numbers DEF BInv, LockFits
<1>9. DecidesOnTheAnchor'
    BY <1>1, <1>6, <1>8 DEF BInv, DecidesOnTheAnchor
<1>10. TakenOnce'
    <2>1. picked \in Nat
        BY DEF BInv, Typed
    <2> QED
        BY <1>1, <1>3, <1>4, <1>6, <2>1 DEF BInv, TakenOnce
<1>11. LastFits'
    BY <1>1, <1>3 DEF BInv, LastFits, Holds, Reaches
<1>12. Timely' /\ DeletionsFit'
    BY <1>1, <1>6 DEF BInv, Timely, DeletionsFit, KnownDeleted, CacheSame
<1> QED
    BY <1>5, <1>7, <1>9, <1>10, <1>11, <1>12 DEF BInv

LEMMA ClockKeeps ==
    ASSUME BInv, Assumptions, CacheTypeOK, Tick
    PROVE  BInv'
<1>1. /\ UNCHANGED <<present, attached, events, slot, anchor, lock, builds, picked, last>>
      /\ UNCHANGED <<generation, invalidated>> /\ clock' = clock + 1
    BY DEF Tick, CacheTick, prompt_vars
<1>2. Typed'
    BY <1>1 DEF BInv, Typed
<1>3. LastFits'
    BY <1>1 DEF BInv, LastFits, Holds, Reaches
<1>4. Timely'
    <2> SUFFICES ASSUME NEW w \in Workers, At(w, {"after", "recent", "prepare"})
                 PROVE  /\ builds[w].generation <= generation
                        /\ builds[w].began <= clock + 1 /\ clock + 1 <= builds[w].began + MaxBuild
        BY <1>1 DEF Timely, At
    <2>1. builds[w] \in Selecting \/ builds[w] \in Preparing
        BY BuildShapes DEF BInv, Typed, At, Undecided
    <2>2. builds[w].began \in Nat /\ clock \in Nat /\ MaxBuild \in Nat
        BY <2>1, Numbers DEF Selecting, Preparing, CacheTypeOK, BInv
    <2>3. clock < builds[w].began + MaxBuild
        BY DEF Tick, At
    <2>4. builds[w].generation <= generation /\ builds[w].began <= clock
        BY DEF BInv, Timely
    <2> QED
        BY <2>2, <2>3, <2>4
<1>5. DeletionsFit'
    BY <1>1 DEF BInv, DeletionsFit, KnownDeleted, At
<1> QED
    BY <1>1, <1>2, <1>3, <1>4, <1>5, BuildsUntouched DEF BInv

LEMMA BuildStepKeeps ==
    ASSUME BInv, Assumptions, CacheTypeOK, [Next]_vars
    PROVE  BInv'
<1>1. CASE UNCHANGED vars
    <2>1. /\ UNCHANGED <<present, attached, events, slot, anchor, lock, builds, picked, last>>
          /\ UNCHANGED <<generation, invalidated, clock>>
        BY <1>1 DEF vars, prompt_vars, cache_vars
    <2>2. Typed' /\ LastFits'
        BY <2>1 DEF BInv, Typed, LastFits, Holds, Reaches
    <2>3. Timely' /\ DeletionsFit'
        BY <2>1 DEF BInv, Timely, DeletionsFit, KnownDeleted, At
    <2> QED
        BY <2>1, <2>2, <2>3, BuildsUntouched DEF BInv
<1>2. ASSUME NEW w \in Workers,
             \/ Pick(w) \/ BeginSelect(w) \/ FetchAfter(w) \/ FetchRecent(w)
             \/ AskCache(w) \/ Assemble(w) \/ Done(w)
      PROVE  BInv'
    BY <1>2, PickKeeps, BeginKeeps, FetchesKeep, AskKeeps, DoneKeeps
<1>3. CASE LoadEnds
    BY <1>3, LoadEndsBuilds
<1>4. CASE (\E m \in Messages : Delete(m)) \/ (\E k \in Keys : RemoveAttachment(k))
    BY <1>4, DiscordKeeps
<1>5. CASE EventArrives
    BY <1>5, EventKeeps
<1>6. CASE ReadSlot \/ Evict
    BY <1>6, ServerKeeps
<1>7. CASE Tick
    BY <1>7, ClockKeeps
<1> QED
    BY <1>1, <1>2, <1>3, <1>4, <1>5, <1>6, <1>7 DEF Next

--------------------------------------------------------------------------------
(* The theorems. *)

(* Every step of the builds keeps what they know of the anchor, the lock, the   *)
(* last prompt and the deletions.                                               *)
THEOREM BuildsFit == Spec => []BInv
<1>1. Assumptions
    BY CacheAssumption, LoadsAreShort, PolicyAssumption, PromptAssumption, MessagesAssumption
    DEF Assumptions
<1>2. Init => BInv
    BY <1>1, BuildsInitially
<1>3. BInv /\ IInv /\ Inputs /\ [Next]_vars => BInv'
    BY <1>1, BuildStepKeeps DEF IInv
<1> QED
    BY <1>2, <1>3, BuildInvariance, PTL DEF Spec

(* Every build is in one of its phases, with the fields of that phase. *)
THEOREM BuildTypeCorrect == Spec => []TypeOK
<1>1. BInv /\ IInv => TypeOK
    <2> SUFFICES ASSUME BInv, IInv
                 PROVE  TypeOK
        OBVIOUS
    <2>1. \A w \in Workers : builds[w].phase \in Phases
        BY BuildShapes DEF BInv, Typed
    <2> QED
        BY <2>1 DEF BInv, IInv, Typed, TypeOK, Phases
<1> QED
    BY <1>1, BuildsFit, BuildInvariance, PTL

(* A step that goes from the fetch after the anchor to the prompt kept what it  *)
(* fetched.                                                                     *)
LEMMA KeepStep ==
    ASSUME BInv, Assumptions, [Next]_vars, NEW w \in Workers,
           builds[w].phase = "after", builds'[w].phase = "prepare"
    PROVE  ContinueOneAnother(last, Append(builds'[w].window, builds'[w].trigger))
<1>1. builds \in [Workers -> ABuild]
    BY DEF BInv, Typed
<1>2. FetchAfter(w)
    <2>1. CASE UNCHANGED vars
        BY <2>1 DEF vars, prompt_vars
    <2>2. ASSUME NEW v \in Workers, Pick(v) \/ BeginSelect(v) \/ FetchAfter(v) \/ FetchRecent(v)
                                    \/ AskCache(v) \/ Assemble(v) \/ Done(v)
          PROVE  FetchAfter(w)
        <3>1. CASE v # w
            <4>1. builds'[w] = builds[w]
                BY <1>1, <2>2, <3>1
                DEF Pick, BeginSelect, FetchAfter, FetchRecent, Selected, AskCache, Assemble, Done
            <4> QED
                BY <4>1
        <3>2. CASE v = w
            BY <2>2, <3>2
            DEF Pick, BeginSelect, FetchRecent, AskCache, Assemble, Done, InPhase
        <3> QED
            BY <3>1, <3>2
    <2>3. CASE LoadEnds
        BY <2>3 DEF LoadEnds, InPhase
    <2>4. CASE \/ \E m \in Messages : Delete(m)
               \/ \E k \in Keys : RemoveAttachment(k)
               \/ EventArrives \/ ReadSlot \/ Evict \/ Tick
        BY <2>4 DEF Delete, RemoveAttachment, EventArrives, ReadSlot, Evict, Tick, prompt_vars
    <2> QED
        BY <2>1, <2>2, <2>3, <2>4 DEF Next
<1>3. ~Refetches(w)
    <2> SUFFICES ASSUME Refetches(w)
                 PROVE  FALSE
        OBVIOUS
    <2>1. builds' = [builds EXCEPT ![w].phase = "recent", ![w].decision = REFRESH]
        BY DEF Refetches
    <2>2. builds[w] \in Selecting
        BY <1>1, BuildShapes DEF Undecided
    <2>3. builds'[w] = [[builds[w] EXCEPT !.phase = "recent"] EXCEPT !.decision = REFRESH]
        BY <1>1, <2>1
    <2>4. builds'[w].phase = "recent"
        BY <2>2, <2>3 DEF Selecting
    <2> QED
        BY <2>4
<1>4. PICK window : KeptWindow(w, window) /\ Selected(w, KEEP, window)
    BY <1>2, <1>3, FetchAfterSteps
<1>5. window \in Seq(present) /\ At(w, Undecided) /\ KEEP \in Decisions
    BY <1>4 DEF KeptWindow, At, Undecided, Decisions
<1>6. PICK b \in Preparing : /\ builds' = [builds EXCEPT ![w] = b]
                             /\ b.window = window /\ b.trigger = builds[w].trigger
    BY <1>4, <1>5, SelectedShape
<1>7. builds'[w].window = window /\ builds'[w].trigger = builds[w].trigger
    BY <1>1, <1>6
<1> QED
    BY <1>4, <1>7, KeptPrompt

(* "Between refreshes each prompt is the previous one plus a tail", which is    *)
(* what the language model's prefix cache lives from: in whatever order the     *)
(* workers reach the lock, whatever is deleted and wherever the anchor was      *)
(* evicted, a window kept after the anchor and the prompt before it hold the    *)
(* same messages as far as both reach (history_policy.py,                       *)
(* message_handler.py select_messages).                                         *)
THEOREM PromptsContinue == Spec => PrefixKept
<1>1. Assumptions
    BY CacheAssumption, LoadsAreShort, PolicyAssumption, PromptAssumption, MessagesAssumption
    DEF Assumptions
<1>2. BInv /\ [Next]_vars =>
        [\A w \in Workers :
           builds[w].phase = "after" /\ builds'[w].phase = "prepare" =>
             ContinueOneAnother(last, Append(builds'[w].window, builds'[w].trigger))]_vars
    BY <1>1, KeepStep
<1> QED
    BY <1>2, BuildsFit, PTL DEF Spec, PrefixKept

(* A finished prompt comes from Assemble. *)
LEMMA AssembleStep ==
    ASSUME BInv, [Next]_vars, NEW w \in Workers,
           builds[w].phase = "prepare", builds'[w].phase = "ready"
    PROVE  \A m \in builds'[w].prompt \ {builds'[w].trigger} :
             m \in present \/ <<m, TRUE>> \in events
<1>1. builds \in [Workers -> ABuild]
    BY DEF BInv, Typed
<1>2. Assemble(w)
    <2>1. CASE UNCHANGED vars
        BY <2>1 DEF vars, prompt_vars
    <2>2. ASSUME NEW v \in Workers, Pick(v) \/ BeginSelect(v) \/ FetchAfter(v) \/ FetchRecent(v)
                                    \/ AskCache(v) \/ Assemble(v) \/ Done(v)
          PROVE  Assemble(w)
        <3>1. CASE v # w
            <4>1. builds'[w] = builds[w]
                BY <1>1, <2>2, <3>1
                DEF Pick, BeginSelect, FetchAfter, FetchRecent, Selected, AskCache, Assemble, Done
            <4> QED
                BY <4>1
        <3>2. CASE v = w /\ AskCache(w)
            <4>1. builds[w] \in Preparing
                BY <1>1, BuildShapes
            <4>2. PICK k : \/ builds' = [builds EXCEPT ![w].wanted = @ \ {k}]
                           \/ builds' = [builds EXCEPT ![w].wanted = @ \ {k}, ![w].waiting = @ \cup {k}]
                BY <3>2 DEF AskCache
            <4>3. builds'[w].phase = "prepare"
                BY <1>1, <4>1, <4>2 DEF Preparing
            <4> QED
                BY <4>3
        <3>3. CASE v = w /\ Done(w)
            <4>1. builds'[w] = Idle
                BY <1>1, <3>3 DEF Done
            <4> QED
                BY <4>1 DEF Idle
        <3>4. CASE v = w
            BY <2>2, <3>2, <3>3, <3>4
            DEF Pick, BeginSelect, FetchAfter, FetchRecent, InPhase
        <3> QED
            BY <3>1, <3>4
    <2>3. CASE LoadEnds
        <3>1. PICK k : builds' = [v \in Workers |->
              IF InPhase(v, "prepare") THEN [builds[v] EXCEPT !.waiting = @ \ {k}] ELSE builds[v]]
            BY <2>3 DEF LoadEnds
        <3>2. builds[w] \in Preparing
            BY <1>1, BuildShapes
        <3>3. builds'[w] = [builds[w] EXCEPT !.waiting = @ \ {k}]
            BY <3>1 DEF InPhase
        <3>4. builds'[w].phase = "prepare"
            BY <3>2, <3>3 DEF Preparing
        <3> QED
            BY <3>4
    <2>4. CASE \/ \E m \in Messages : Delete(m)
               \/ \E k \in Keys : RemoveAttachment(k)
               \/ EventArrives \/ ReadSlot \/ Evict \/ Tick
        BY <2>4 DEF Delete, RemoveAttachment, EventArrives, ReadSlot, Evict, Tick, prompt_vars
    <2> QED
        BY <2>1, <2>2, <2>3, <2>4 DEF Next
<1>3. builds'[w].prompt = Prompt(builds[w]) /\ builds'[w].trigger = builds[w].trigger
    BY <1>1, <1>2 DEF Assemble
<1>4. ASSUME NEW m \in History(builds[w])
      PROVE  m \in present \/ <<m, TRUE>> \in events
    <2>1. m \in ToSet(builds[w].window)
        BY DEF History
    <2>2. ~KnownDeleted(m, builds[w])
        BY <2>1 DEF History, DeletedSince, KnownDeleted
    <2> QED
        BY <2>1, <2>2 DEF BInv, DeletionsFit, At
<1> QED
    BY <1>3, <1>4 DEF Prompt

(* No message before its trigger whose deletion the bot has been told of is in  *)
(* a prompt finished after that: the cache remembers a deletion for longer than *)
(* a build takes, an edit that arrives late does not take it back, and a build  *)
(* compares against the generation it began in (message_handler.py              *)
(* prepare_messages, attachment_cache.py deleted_since). The trigger itself is  *)
(* not compared and not covered.                                                *)
THEOREM DeletedStaysOut == Spec => DeletedNotSent
<1>1. BInv /\ [Next]_vars =>
        [\A w \in Workers : builds[w].phase = "prepare" /\ builds'[w].phase = "ready" =>
           \A m \in builds'[w].prompt \ {builds'[w].trigger} : m \in present \/ <<m, TRUE>> \in events]_vars
    BY AssembleStep
<1> QED
    BY <1>1, BuildsFit, PTL DEF Spec, DeletedNotSent
--------------------------------------------------------------------------------
(* What a window may hold. *)

Sound(window, t, room, there) ==
    /\ \A m \in ToSet(window) : \A r \in Resets \cap there : ~(m <= r /\ r < t)
    /\ Len(window) <= max_window
    /\ window # << >> => Fits(window, t, room)

LEMMA TailOf ==
    ASSUME NEW S, NEW w \in Seq(S), NEW k \in Nat \ {0}
    PROVE  /\ Len(SubSeq(w, k, Len(w))) <= Len(w)
           /\ Len(SubSeq(w, k, Len(w))) = IF k <= Len(w) THEN Len(w) - k + 1 ELSE 0
           /\ \A x \in ToSet(SubSeq(w, k, Len(w))) : \E i \in 1 .. Len(w) : k <= i /\ x = w[i]
<1> DEFINE v == SubSeq(w, k, Len(w))
<1>1. Len(w) \in Nat
    OBVIOUS
<1>2. CASE k <= Len(w)
    <2>1. Len(v) = Len(w) - k + 1 /\ DOMAIN v = 1 .. (Len(w) - k + 1)
        BY <1>1, <1>2
    <2>2. \A i \in 1 .. (Len(w) - k + 1) :
             v[i] = w[i + k - 1] /\ i + k - 1 \in 1 .. Len(w) /\ k <= i + k - 1
        BY <1>1, <1>2
    <2> HIDE DEF v
    <2>3. \A x \in ToSet(v) : \E i \in 1 .. Len(w) : k <= i /\ x = w[i]
        BY <2>1, <2>2 DEF ToSet
    <2>4. Len(v) <= Len(w)
        BY <1>1, <2>1
    <2> QED
        BY <1>2, <2>1, <2>3, <2>4 DEF v
<1>3. CASE k > Len(w)
    <2>1. v = << >>
        BY <1>1, <1>3
    <2>2. Len(<< >>) = 0 /\ ToSet(<< >>) = {}
        BY DEF ToSet
    <2> HIDE DEF v
    <2>3. Len(v) = 0 /\ ToSet(v) = {}
        BY <2>1, <2>2
    <2> QED
        BY <1>1, <1>3, <2>3 DEF v
<1> QED
    BY <1>1, <1>2, <1>3

(* Recent messages: none from before the last reset, no more than a window  *)
(* of the limit, and trimmed until they fit.                                *)
LEMMA RecentIsSound ==
    ASSUME PolicyAssumption, IsFiniteSet(present), present \subseteq Int, NEW t \in Int, NEW room
    PROVE  Sound(Trimmed(fetch_recent(present, t), t, room), t, room, present)
<1> DEFINE S == {m \in present : m < t}
           before == InOrder(S)
           first == Max({1, Len(before) - (Limit - 2)})
           newest == SubSeq(before, first, Len(before))
           resets == {0} \cup {i \in DOMAIN newest : newest[i] \in Resets}
           cut == Max(resets)
           recent == SubSeq(newest, cut + 1, Len(newest))
           drops == {Len(recent)} \cup
                       {d \in 0 .. Len(recent) : Fits(SubSeq(recent, d + 1, Len(recent)), t, room)}
           drop == Min(drops)
           window == SubSeq(recent, drop + 1, Len(recent))
<1>1. IsFiniteSet(S) /\ S \subseteq Int
    <2>1. S \in SUBSET present
        OBVIOUS
    <2> HIDE DEF S
    <2>2. IsFiniteSet(S)
        BY <2>1, FS_Subset
    <2> QED
        BY <2>1, <2>2
<1>2. Trimmed(fetch_recent(present, t), t, room) = window
    BY DEF fetch_recent, Trimmed
<1>3. \A r \in present : r < t => r \in S
    OBVIOUS
<1> HIDE DEF S
<1>4. NewestOf(before, S) /\ before \in Seq(S) /\ Len(before) \in Nat
    <2>1. before \in Seq(S) /\ Ascending(before) /\ ToSet(before) = S
        BY <1>1, InOrderSorts
    <2> HIDE DEF before
    <2> QED
        BY <2>1 DEF NewestOf
<1> HIDE DEF before
<1>5. first \in Nat \ {0} /\ first >= Len(before) - (Limit - 2)
    <2> DEFINE x == Len(before) - (Limit - 2)
    <2>1. x \in Int
        BY <1>4 DEF PolicyAssumption
    <2> HIDE DEF x
    <2>2. Max({1, x}) = IF x <= 1 THEN 1 ELSE x
        BY <2>1 DEF Max
    <2>3. Max({1, x}) \in Nat \ {0} /\ Max({1, x}) >= x
        BY <2>1, <2>2
    <2> QED
        BY <2>3 DEF x
<1> HIDE DEF first
<1>6. NewestOf(newest, S)
    BY <1>1, <1>4, <1>5, TailIsNewest
<1>7. Len(newest) <= Limit - 1
    <2>1. Len(newest) = IF first <= Len(before) THEN Len(before) - first + 1 ELSE 0
        BY <1>4, <1>5, TailOf
    <2> QED
        BY <1>4, <1>5, <2>1 DEF PolicyAssumption
<1> HIDE DEF newest
<1>8. newest \in Seq(S)
    BY <1>6 DEF NewestOf
<1>9. /\ Len(newest) \in Nat /\ DOMAIN newest = 1 .. Len(newest)
      /\ \A i \in 1 .. Len(newest) : newest[i] \in Int
    <2>1. /\ Len(newest) \in Nat /\ DOMAIN newest = 1 .. Len(newest)
          /\ \A i \in 1 .. Len(newest) : newest[i] \in S
        BY <1>8
    <2> QED
        BY <1>1, <2>1
<1>10. cut \in Nat /\ \A i \in resets : i <= cut
    <2>1. resets \in SUBSET (0 .. Len(newest)) /\ resets # {}
        BY <1>9
    <2>2. IsFiniteSet(resets) /\ resets \subseteq Int
        BY <1>9, <2>1, FiniteOfInterval
    <2> HIDE DEF resets
    <2>3. Max(resets) \in 0 .. Len(newest) /\ \A i \in resets : i <= Max(resets)
        BY <2>1, <2>2, Extremes
    <2> QED
        BY <1>9, <2>3
<1>11. \A i \in 1 .. Len(newest) : newest[i] \in Resets => i <= cut
    BY <1>9, <1>10
<1> HIDE DEF cut
<1>12. /\ Len(recent) <= Len(newest)
       /\ \A x \in ToSet(recent) : \E i \in 1 .. Len(newest) : cut + 1 <= i /\ x = newest[i]
    <2>1. cut + 1 \in Nat \ {0}
        BY <1>10
    <2> HIDE DEF recent
    <2> QED
        BY <1>8, <2>1, TailOf DEF recent
<1>13. recent \in Seq(S) /\ Len(recent) \in Nat
    <2>1. cut + 1 \in Nat \ {0}
        BY <1>10
    <2>2. NewestOf(recent, S)
        BY <1>1, <1>6, <2>1, TailIsNewest
    <2>3. recent \in Seq(S)
        BY <2>2 DEF NewestOf
    <2> HIDE DEF recent
    <2> QED
        BY <2>3
<1> HIDE DEF recent
<1>14. drop \in 0 .. Len(recent) /\ drop \in drops
    <2>1. drops \in SUBSET (0 .. Len(recent)) /\ drops # {}
        BY <1>13
    <2>2. IsFiniteSet(drops) /\ drops \subseteq Int
        BY <1>13, <2>1, FiniteOfInterval
    <2> HIDE DEF drops
    <2> QED
        BY <2>1, <2>2, Extremes
<1>15. window # << >> => Fits(window, t, room)
    <2>1. ASSUME drop = Len(recent)
          PROVE  window = << >>
        <3> HIDE DEF drop
        <3> QED
            BY <1>13, <2>1
    <2>2. drop # Len(recent) => Fits(SubSeq(recent, drop + 1, Len(recent)), t, room)
        <3> HIDE DEF drop
        <3> QED
            BY <1>14
    <2> QED
        BY <2>1, <2>2
<1> HIDE DEF drop
<1>16. /\ Len(window) <= Len(recent)
       /\ \A x \in ToSet(window) : x \in ToSet(recent)
    <2>1. drop + 1 \in Nat \ {0}
        BY <1>13, <1>14
    <2>2. /\ Len(window) <= Len(recent)
          /\ \A x \in ToSet(window) : \E i \in 1 .. Len(recent) : drop + 1 <= i /\ x = recent[i]
        BY <1>13, <2>1, TailOf
    <2>3. DOMAIN recent = 1 .. Len(recent)
        BY <1>13
    <2> HIDE DEF window
    <2> QED
        BY <2>2, <2>3 DEF ToSet
<1>17. Len(window) \in Nat
    <2>1. drop + 1 \in Nat \ {0}
        BY <1>13, <1>14
    <2>2. Len(window) = IF drop + 1 <= Len(recent) THEN Len(recent) - (drop + 1) + 1 ELSE 0
        BY <1>13, <2>1, TailOf
    <2> HIDE DEF window
    <2> QED
        BY <1>13, <1>14, <2>2
<1> HIDE DEF window
<1>18. Len(window) <= max_window
    BY <1>7, <1>9, <1>12, <1>13, <1>16, <1>17 DEF max_window, PolicyAssumption
<1>19. ASSUME NEW m \in ToSet(window), NEW r \in Resets \cap present, m <= r, r < t
       PROVE  FALSE
    <2>1. PICK i \in 1 .. Len(newest) : cut + 1 <= i /\ m = newest[i]
        BY <1>12, <1>16
    <2>2. r \in S /\ m \in ToSet(newest)
        BY <1>3, <1>9, <1>19, <2>1 DEF ToSet
    <2>3. r \in ToSet(newest)
        BY <1>6, <1>19, <2>2 DEF NewestOf
    <2>4. PICK j \in 1 .. Len(newest) : r = newest[j]
        BY <1>9, <2>3 DEF ToSet
    <2>5. j <= cut
        BY <1>11, <2>4
    <2>6. j < i
        BY <1>9, <1>10, <2>1, <2>5
    <2>7. r < m
        BY <1>6, <1>9, <2>1, <2>4, <2>6 DEF NewestOf, Ascending
    <2> QED
        BY <1>9, <1>19, <2>1, <2>4, <2>7
<1> QED
    BY <1>2, <1>15, <1>18, <1>19 DEF Sound

(* A window that is kept has no reset behind its anchor, and fits. *)
LEMMA KeptIsSound ==
    ASSUME BInv, Assumptions, NEW w \in Workers, NEW window, KeptWindow(w, window),
           ~Burst(window), ~HasReset(window), NEW room, Fits(window, builds[w].trigger, room)
    PROVE  Sound(window, builds[w].trigger, room, present)
<1>1. At(w, Undecided)
    BY DEF KeptWindow, InPhase, At, Undecided
<1>2. /\ builds[w].trigger \in Int /\ anchor.after \in Int /\ present \subseteq Int
    BY <1>1, TriggerFacts, Numbers DEF BInv
<1>3. window \in Seq(present) /\ Len(window) \in Nat
    BY DEF KeptWindow
<1>4. Len(window) <= max_window
    <2>1. max_window \in Nat
        BY DEF Assumptions, PolicyAssumption, max_window
    <2> QED
        BY <1>3, <2>1 DEF Burst
<1>5. ASSUME NEW m \in ToSet(window), NEW r \in Resets \cap present,
             m <= r, r < builds[w].trigger
      PROVE  FALSE
    <2>1. m \in present /\ anchor.after < m
        BY DEF KeptWindow
    <2>2. anchor.after < r
        <3>1. anchor.after \in Int /\ m \in Int /\ r \in Int
            BY <1>2, <2>1
        <3> QED
            BY <1>5, <2>1, <3>1
    <2>3. r \in ToSet(window)
        BY <1>5, <2>2 DEF KeptWindow
    <2> QED
        BY <2>3 DEF HasReset
<1> QED
    BY <1>4, <1>5 DEF Sound

WindowsFit ==
    \A w \in Workers : InPhase(w, "prepare") =>
        Sound(builds[w].window, builds[w].trigger, builds[w].slot, present)

(* A build that has its window had it before, or has just chosen it. *)
LEMMA HasItsWindow ==
    ASSUME BInv, Assumptions, [Next]_vars, NEW w \in Workers, builds'[w].phase = "prepare"
    PROVE  \/ /\ builds[w].phase = "prepare" /\ present' \subseteq present
              /\ builds'[w].window = builds[w].window /\ builds'[w].trigger = builds[w].trigger
              /\ builds'[w].slot = builds[w].slot
           \/ FetchAfter(w) /\ ~Refetches(w)
           \/ FetchRecent(w)
<1>1. builds \in [Workers -> ABuild]
    BY DEF BInv, Typed
<1>2. CASE UNCHANGED vars
    BY <1>2 DEF vars, prompt_vars
<1>3. ASSUME NEW v \in Workers, \/ Pick(v) \/ BeginSelect(v) \/ FetchAfter(v) \/ FetchRecent(v)
                                \/ AskCache(v) \/ Assemble(v) \/ Done(v)
      PROVE  \/ /\ builds[w].phase = "prepare" /\ present' \subseteq present
                /\ builds'[w].window = builds[w].window /\ builds'[w].trigger = builds[w].trigger
                /\ builds'[w].slot = builds[w].slot
             \/ FetchAfter(w) /\ ~Refetches(w)
             \/ FetchRecent(w)
    <2>1. present' = present
        BY <1>3 DEF Pick, BeginSelect, FetchAfter, FetchRecent, Selected, AskCache, Assemble, Done,
                    RestUnchanged
    <2>2. CASE v # w
        <3>1. builds'[w] = builds[w]
            BY <1>1, <1>3, <2>2
            DEF Pick, BeginSelect, FetchAfter, FetchRecent, Selected, AskCache, Assemble, Done
        <3> QED
            BY <2>1, <3>1
    <2>3. CASE v = w /\ AskCache(w)
        <3>1. builds[w] \in Preparing /\ builds[w].phase = "prepare"
            BY <1>1, <2>3, BuildShapes DEF AskCache, InPhase
        <3>2. PICK k : \/ builds' = [builds EXCEPT ![w].wanted = @ \ {k}]
                       \/ builds' = [builds EXCEPT ![w].wanted = @ \ {k}, ![w].waiting = @ \cup {k}]
            BY <2>3 DEF AskCache
        <3>3. /\ builds'[w].window = builds[w].window /\ builds'[w].trigger = builds[w].trigger
              /\ builds'[w].slot = builds[w].slot
            BY <1>1, <3>1, <3>2 DEF Preparing
        <3> QED
            BY <2>1, <3>1, <3>3
    <2>4. CASE v = w /\ FetchAfter(w)
        <3>1. builds[w] \in Selecting
            BY <1>1, <2>4, BuildShapes DEF FetchAfter, InPhase, Undecided
        <3>2. ~Refetches(w)
            <4> SUFFICES ASSUME Refetches(w)
                         PROVE  FALSE
                OBVIOUS
            <4>1. builds'[w] = [[builds[w] EXCEPT !.phase = "recent"] EXCEPT !.decision = REFRESH]
                BY <1>1 DEF Refetches
            <4>2. builds'[w].phase = "recent"
                BY <3>1, <4>1 DEF Selecting
            <4> QED
                BY <4>2
        <3> QED
            BY <2>4, <3>2
    <2>5. CASE v = w /\ (Pick(w) \/ BeginSelect(w) \/ Assemble(w) \/ Done(w))
        <3>1. builds'[w].phase # "prepare"
            BY <1>1, <2>5 DEF Pick, BeginSelect, Assemble, Done, Idle
        <3> QED
            BY <3>1
    <2> QED
        BY <1>3, <2>2, <2>3, <2>4, <2>5
<1>4. CASE LoadEnds
    <2>1. PICK k : builds' = [v \in Workers |->
             IF InPhase(v, "prepare") THEN [builds[v] EXCEPT !.waiting = @ \ {k}] ELSE builds[v]]
        BY <1>4 DEF LoadEnds
    <2>2. present' = present
        BY <1>4 DEF LoadEnds, RestUnchanged
    <2>3. CASE InPhase(w, "prepare")
        <3>1. builds[w] \in Preparing /\ builds'[w] = [builds[w] EXCEPT !.waiting = @ \ {k}]
            BY <1>1, <2>1, <2>3, BuildShapes DEF InPhase
        <3> QED
            BY <2>2, <2>3, <3>1 DEF Preparing, InPhase
    <2>4. CASE ~InPhase(w, "prepare")
        BY <2>1, <2>4 DEF InPhase
    <2> QED
        BY <2>3, <2>4
<1>5. CASE \/ \E m \in Messages : Delete(m)
           \/ \E k \in Keys : RemoveAttachment(k)
           \/ EventArrives \/ ReadSlot \/ Evict \/ Tick
    BY <1>5 DEF Delete, RemoveAttachment, EventArrives, ReadSlot, Evict, Tick, prompt_vars
<1> QED
    BY <1>2, <1>3, <1>4, <1>5 DEF Next

LEMMA WindowsStep ==
    ASSUME BInv, Assumptions, WindowsFit, [Next]_vars
    PROVE  WindowsFit'
<1> SUFFICES ASSUME NEW w \in Workers, builds'[w].phase = "prepare"
             PROVE  Sound(builds'[w].window, builds'[w].trigger, builds'[w].slot, present')
    BY DEF WindowsFit, InPhase
<1>1. builds \in [Workers -> ABuild]
    BY DEF BInv, Typed
<1>2. CASE /\ builds[w].phase = "prepare" /\ present' \subseteq present
           /\ builds'[w].window = builds[w].window /\ builds'[w].trigger = builds[w].trigger
           /\ builds'[w].slot = builds[w].slot
    BY <1>2 DEF WindowsFit, InPhase, Sound
<1>3. ASSUME NEW decision \in Decisions, NEW window \in Seq(present), At(w, Undecided),
             Selected(w, decision, window), Sound(window, builds[w].trigger, builds[w].slot, present)
      PROVE  Sound(builds'[w].window, builds'[w].trigger, builds'[w].slot, present')
    <2>1. PICK b \in Preparing :
             /\ builds' = [builds EXCEPT ![w] = b] /\ b.window = window
             /\ b.trigger = builds[w].trigger /\ b.slot = builds[w].slot /\ present' = present
        BY <1>3, SelectedShape
    <2>2. builds'[w] = b
        BY <1>1, <2>1
    <2> QED
        BY <1>3, <2>1, <2>2 DEF Sound
<1>4. CASE FetchAfter(w) /\ ~Refetches(w)
    <2> DEFINE b == builds[w]
               fetched == fetch_after(present, b.state, b.trigger)
    <2>1. At(w, Undecided) /\ InPhase(w, "after")
        BY <1>4 DEF FetchAfter, InPhase, At, Undecided
    <2>2. /\ window_decision(b.state, fetched) = KEEP /\ Fits(fetched, b.trigger, b.slot)
          /\ Selected(w, KEEP, fetched)
        BY <1>4 DEF FetchAfter, Refetches
    <2>3. ~Burst(fetched) /\ ~HasReset(fetched)
        BY <2>2 DEF window_decision, KEEP, REFRESH
    <2>4. /\ b.state = anchor /\ b.trigger \in Int /\ present \subseteq Int
          /\ IsFiniteSet(present) /\ PolicyAssumption
        BY <2>1, TriggerFacts, Numbers DEF BInv, DecidesOnTheAnchor, Assumptions
    <2>5. /\ fetched \in Seq({m \in present : b.state.after < m /\ m < b.trigger})
          /\ Ascending(fetched)
          /\ ToSet(fetched) = {m \in present : b.state.after < m /\ m < b.trigger}
        BY <2>3, <2>4, AfterIsAll
    <2> HIDE DEF fetched
    <2>6. fetched \in Seq(present)
        <3> DEFINE S == {m \in present : b.state.after < m /\ m < b.trigger}
        <3>1. S \subseteq present
            OBVIOUS
        <3> HIDE DEF S
        <3> QED
            BY <2>5, <3>1 DEF S
    <2>7. KeptWindow(w, fetched)
        BY <2>1, <2>4, <2>5, <2>6 DEF KeptWindow
    <2>8. Sound(fetched, b.trigger, b.slot, present)
        BY <2>2, <2>3, <2>7, KeptIsSound
    <2>9. KEEP \in Decisions
        BY DEF Decisions
    <2> QED
        BY <1>3, <2>1, <2>2, <2>6, <2>8, <2>9
<1>5. CASE FetchRecent(w)
    <2> DEFINE b == builds[w]
               window == Trimmed(fetch_recent(present, b.trigger), b.trigger, b.slot)
    <2>1. At(w, Undecided) /\ Selected(w, b.decision, window)
        BY <1>5 DEF FetchRecent, InPhase, At, Undecided
    <2>2. /\ b \in Selecting /\ b.trigger \in Int /\ present \subseteq Int
          /\ IsFiniteSet(present) /\ PolicyAssumption
        BY <2>1, TriggerFacts, Numbers DEF BInv, Assumptions
    <2>3. /\ NewestOf(window, {m \in present : m < b.trigger})
          /\ Sound(window, b.trigger, b.slot, present)
        BY <2>2, RecentIsNewest, RecentIsSound
    <2> HIDE DEF window
    <2>4. window \in Seq(present)
        BY <2>3 DEF NewestOf
    <2>5. b.decision \in Decisions
        BY <2>2 DEF Selecting
    <2> QED
        BY <1>3, <2>1, <2>3, <2>4, <2>5
<1> QED
    BY <1>2, <1>4, <1>5, HasItsWindow

(* What is selected for a prompt holds nothing from before a !reset_history     *)
(* that is still there, no more messages than an anchored window may grow to,   *)
(* and fits the budget of the slot it was read with, whatever was deleted or    *)
(* evicted and whichever of the three decisions was made (history_policy.py,    *)
(* message_handler.py select_messages).                                         *)
THEOREM WindowsAreSound == Spec => []WindowSound
<1>1. Assumptions
    BY CacheAssumption, LoadsAreShort, PolicyAssumption, PromptAssumption, MessagesAssumption
    DEF Assumptions
<1>2. Init => WindowsFit
    BY DEF Init, WindowsFit, InPhase, Idle
<1>3. BInv /\ WindowsFit /\ [Next]_vars => WindowsFit'
    BY <1>1, WindowsStep
<1>4. BInv /\ WindowsFit => WindowSound
    <2> SUFFICES ASSUME BInv, WindowsFit, NEW w \in Workers, InPhase(w, "prepare")
                 PROVE  LET b == builds[w] IN
                        /\ \A i \in DOMAIN b.window : \A r \in Resets \cap present :
                              ~(b.window[i] <= r /\ r < b.trigger)
                        /\ Len(b.window) <= max_window
                        /\ b.window # << >> => Fits(b.window, b.trigger, b.slot)
        BY DEF WindowSound
    <2>1. \A i \in DOMAIN builds[w].window : builds[w].window[i] \in ToSet(builds[w].window)
        BY DEF ToSet
    <2> QED
        BY <2>1 DEF WindowsFit, Sound
<1> QED
    BY <1>2, <1>3, <1>4, BuildsFit, PTL DEF Spec

(* A load that somebody waits for ends for everybody, and only then. *)
LEMMA WaitersStep ==
    ASSUME BInv, Assumptions, WaitersHaveALoad, [Next]_vars
    PROVE  WaitersHaveALoad'
<1>1. builds \in [Workers -> ABuild]
    BY DEF BInv, Typed
<1>2. ASSUME NEW w \in Workers, builds'[w].phase = "prepare"
      PROVE  builds'[w].waiting \subseteq Loading'
    <2>1. CASE FetchAfter(w) \/ FetchRecent(w)
        <3>1. At(w, Undecided)
            BY <2>1 DEF FetchAfter, FetchRecent, InPhase, At, Undecided
        <3>2. \E decision, window : Selected(w, decision, window)
            <4>1. CASE FetchRecent(w)
                BY <4>1 DEF FetchRecent
            <4>2. CASE FetchAfter(w)
                <5>1. ~Refetches(w)
                    <6> SUFFICES ASSUME Refetches(w)
                                 PROVE  FALSE
                        OBVIOUS
                    <6>1. builds'[w] = [[builds[w] EXCEPT !.phase = "recent"] EXCEPT !.decision = REFRESH]
                        BY <1>1 DEF Refetches
                    <6>2. builds[w] \in Selecting
                        BY <1>1, <3>1, BuildShapes DEF At
                    <6> QED
                        BY <1>2, <6>1, <6>2 DEF Selecting
                <5> QED
                    BY <4>2, <5>1 DEF FetchAfter, Refetches
            <4> QED
                BY <2>1, <4>1, <4>2
        <3>3. builds'[w].waiting = {}
            BY <1>1, <3>2 DEF Selected
        <3> QED
            BY <3>3
    <2>2. CASE builds[w].phase = "prepare" /\ \E v \in Workers : AskCache(v)
        <3>1. PICK v \in Workers : AskCache(v)
            BY <2>2
        <3>2. PICK k \in builds[v].wanted :
                 \/ Hit(k) /\ builds' = [builds EXCEPT ![v].wanted = @ \ {k}]
                 \/ /\ Coalesced(k) \/ Miss(k)
                    /\ builds' = [builds EXCEPT ![v].wanted = @ \ {k}, ![v].waiting = @ \cup {k}]
            BY <3>1 DEF AskCache
        <3>3. Loading \subseteq Loading'
            BY <3>2 DEF Hit, Coalesced, Miss, Loading
        <3>4. Coalesced(k) \/ Miss(k) => k \in Loading'
            BY DEF Coalesced, Miss, Loading
        <3>5. builds[w].waiting \subseteq Loading
            BY <2>2 DEF WaitersHaveALoad, InPhase
        <3>6. CASE v # w
            BY <1>1, <3>2, <3>3, <3>5, <3>6
        <3>7. CASE v = w
            <4>1. builds[w] \in Preparing
                BY <1>1, <2>2, BuildShapes
            <4>2. \/ builds'[w].waiting = builds[w].waiting
                  \/ (Coalesced(k) \/ Miss(k)) /\ builds'[w].waiting = builds[w].waiting \cup {k}
                BY <1>1, <3>2, <3>7, <4>1 DEF Preparing
            <4> QED
                BY <3>3, <3>4, <3>5, <4>2
        <3> QED
            BY <3>6, <3>7
    <2>3. CASE builds[w].phase = "prepare" /\ LoadEnds
        <3>1. PICK k \in Loading :
                 /\ LoadSucceeds(k) \/ LoadFails(k)
                 /\ builds' = [v \in Workers |->
                        IF InPhase(v, "prepare") THEN [builds[v] EXCEPT !.waiting = @ \ {k}]
                        ELSE builds[v]]
            BY <2>3 DEF LoadEnds
        <3>2. Loading' = Loading \ {k}
            BY <3>1 DEF LoadSucceeds, LoadFails, Only, Loading
        <3>3. builds[w] \in Preparing /\ builds[w].waiting \subseteq Loading
            BY <1>1, <2>3, BuildShapes DEF WaitersHaveALoad, InPhase
        <3>4. builds'[w].waiting = builds[w].waiting \ {k}
            BY <2>3, <3>1, <3>3 DEF InPhase, Preparing
        <3> QED
            BY <3>2, <3>3, <3>4
    <2>4. CASE builds[w].phase = "prepare" /\ ~LoadEnds /\ \A v \in Workers : ~AskCache(v)
        <3>1. inflight' = inflight
            BY <2>4 DEF Next, Pick, BeginSelect, FetchAfter, FetchRecent, Selected, Assemble, Done,
                        Delete, RemoveAttachment, EventArrives, Invalidate, ReadSlot, Evict, Tick,
                        CacheTick, vars, cache_vars
        <3>2. builds'[w] = builds[w]
            <4>1. ASSUME NEW v \in Workers, Pick(v) \/ BeginSelect(v) \/ FetchAfter(v) \/ FetchRecent(v)
                                            \/ Assemble(v) \/ Done(v)
                  PROVE  builds'[w] = builds[w]
                <5>1. CASE v # w
                    BY <1>1, <4>1, <5>1
                    DEF Pick, BeginSelect, FetchAfter, FetchRecent, Selected, Assemble, Done
                <5>2. CASE v = w
                    <6>1. Assemble(w) \/ Done(w)
                        BY <2>4, <4>1, <5>2 DEF Pick, BeginSelect, FetchAfter, FetchRecent, InPhase
                    <6>2. builds'[w].phase # "prepare"
                        BY <1>1, <6>1 DEF Assemble, Done, Idle
                    <6> QED
                        BY <1>2, <6>2
                <5> QED
                    BY <5>1, <5>2
            <4>2. CASE \/ \E m \in Messages : Delete(m)
                       \/ \E k \in Keys : RemoveAttachment(k)
                       \/ EventArrives \/ ReadSlot \/ Evict \/ Tick \/ UNCHANGED vars
                BY <4>2 DEF Delete, RemoveAttachment, EventArrives, ReadSlot, Evict, Tick,
                            prompt_vars, vars
            <4> QED
                BY <2>4, <4>1, <4>2 DEF Next
        <3> QED
            BY <2>4, <3>1, <3>2 DEF WaitersHaveALoad, InPhase, Loading
    <2> QED
        BY <1>2, <2>1, <2>2, <2>3, <2>4, HasItsWindow
<1> QED
    BY <1>2 DEF WaitersHaveALoad, InPhase

(* No build waits for a load that has ended: whoever joins one finds it under   *)
(* way, and it ends for everybody at once, cancelled workers included           *)
(* (attachment_cache.py get_or_load).                                           *)
THEOREM WaitersAreServed == Spec => []WaitersHaveALoad
<1>1. Assumptions
    BY CacheAssumption, LoadsAreShort, PolicyAssumption, PromptAssumption, MessagesAssumption
    DEF Assumptions
<1>2. Init => WaitersHaveALoad
    BY DEF Init, WaitersHaveALoad, InPhase, Idle
<1>3. BInv /\ WaitersHaveALoad /\ [Next]_vars => WaitersHaveALoad'
    BY <1>1, WaitersStep
<1> QED
    BY <1>2, <1>3, BuildsFit, PTL DEF Spec
(***************************************************************************)
(* The cache's count of bytes                                              *)
(***************************************************************************)

(* R tells which of any two elements of S comes first. *)
Ordered(R, S) ==
    /\ R \subseteq S \X S
    /\ \A i, j \in S : i # j => (<<i, j>> \in R <=> <<j, i>> \notin R)
    /\ \A i \in S : <<i, i>> \notin R
    /\ \A i, j, k \in S : <<i, j>> \in R /\ <<j, k>> \in R => <<i, k>> \in R

(* What is counted is what is kept, in the order of use. *)
CountInv ==
    /\ IsFiniteSet(DOMAIN entries)
    /\ Ordered(uses, DOMAIN entries)
    /\ bytes = TotalSize(DOMAIN entries)
    /\ bytes <= MaxBytes

LEMMA SizesAreNumbers ==
    ASSUME CacheAssumption, NEW S \in SUBSET Keys, IsFiniteSet(S)
    PROVE  IsFiniteSet(BytesOf(S)) /\ TotalSize(S) \in Nat
<1> DEFINE F == {{k} \X (1 .. SizeOf[k]) : k \in S}
<1>1. \A k \in S : IsFiniteSet({k} \X (1 .. SizeOf[k]))
    <2> SUFFICES ASSUME NEW k \in S PROVE IsFiniteSet({k} \X (1 .. SizeOf[k]))
        OBVIOUS
    <2>1. 1 \in Int /\ SizeOf[k] \in Int
        BY DEF CacheAssumption
    <2>2. IsFiniteSet({k}) /\ IsFiniteSet(1 .. SizeOf[k])
        BY <2>1, FS_Singleton, FS_Interval
    <2> QED
        BY <2>2, FS_Product
<1>2. IsFiniteSet(F)
    <2> DEFINE f == [k \in S |-> {k} \X (1 .. SizeOf[k])]
    <2>1. f \in Surjection(S, F)
        BY DEF Surjection
    <2> HIDE DEF F, f
    <2> QED
        BY <2>1, FS_Surjection
<1>3. \A f \in F : IsFiniteSet(f)
    BY <1>1
<1>4. IsFiniteSet(UNION F)
    BY <1>2, <1>3, FS_UNION
<1> QED
    BY <1>4, FS_CardinalityType DEF BytesOf, TotalSize

LEMMA SizesAddUp ==
    ASSUME CacheAssumption, NEW S \in SUBSET Keys, NEW T \in SUBSET Keys,
           IsFiniteSet(S), IsFiniteSet(T), S \cap T = {}
    PROVE  TotalSize(S \cup T) = TotalSize(S) + TotalSize(T)
<1>1. BytesOf(S \cup T) = BytesOf(S) \cup BytesOf(T)
    BY DEF BytesOf
<1>2. BytesOf(S) \cap BytesOf(T) = {}
    <2> SUFFICES ASSUME NEW b \in BytesOf(S), b \in BytesOf(T) PROVE FALSE
        OBVIOUS
    <2>1. PICK k \in S : b \in {k} \X (1 .. SizeOf[k])
        BY DEF BytesOf
    <2>2. PICK j \in T : b \in {j} \X (1 .. SizeOf[j])
        BY DEF BytesOf
    <2>3. b[1] = k /\ b[1] = j
        BY <2>1, <2>2
    <2> QED
        BY <2>3
<1>3. IsFiniteSet(BytesOf(S)) /\ IsFiniteSet(BytesOf(T))
    BY SizesAreNumbers
<1>4. Cardinality(BytesOf(S) \cap BytesOf(T)) = 0
    BY <1>2, FS_EmptySet
<1>5. TotalSize(S \cup T) = TotalSize(S) + TotalSize(T) - Cardinality(BytesOf(S) \cap BytesOf(T))
    BY <1>1, <1>3, FS_Union DEF TotalSize
<1>6. TotalSize(S) \in Nat /\ TotalSize(T) \in Nat
    BY SizesAreNumbers
<1> QED
    BY <1>4, <1>5, <1>6

LEMMA OneSize ==
    ASSUME CacheAssumption, NEW k \in Keys
    PROVE  TotalSize({k}) = SizeOf[k] /\ SizeOf[k] \in Nat
<1>1. SizeOf[k] \in Nat
    BY DEF CacheAssumption
<1>2. IsFiniteSet({k}) /\ Cardinality({k}) = 1
    BY FS_Singleton
<1>3. IsFiniteSet(1 .. SizeOf[k]) /\ Cardinality(1 .. SizeOf[k]) = SizeOf[k]
    BY <1>1, FS_Interval
<1>4. Cardinality({k} \X (1 .. SizeOf[k])) = 1 * SizeOf[k]
    BY <1>2, <1>3, FS_Product
<1>5. BytesOf({k}) = {k} \X (1 .. SizeOf[k])
    BY DEF BytesOf
<1> QED
    <2>1. 1 * SizeOf[k] = SizeOf[k]
        BY <1>1
    <2> QED
        BY <1>1, <1>4, <1>5, <2>1 DEF TotalSize

LEMMA LessIsSmaller ==
    ASSUME CacheAssumption, NEW T \in SUBSET Keys, IsFiniteSet(T), NEW S \in SUBSET T
    PROVE  IsFiniteSet(S) /\ TotalSize(S) <= TotalSize(T) /\ TotalSize(T) - TotalSize(T \ S) = TotalSize(S)
<1>1. IsFiniteSet(S) /\ IsFiniteSet(T \ S)
    BY FS_Subset
<1>2. TotalSize(S) \in Nat /\ TotalSize(T \ S) \in Nat /\ TotalSize(T) \in Nat
    BY <1>1, SizesAreNumbers
<1>3. T = S \cup (T \ S) /\ S \cap (T \ S) = {}
    OBVIOUS
<1>4. TotalSize(T) = TotalSize(S) + TotalSize(T \ S)
    BY <1>1, <1>3, SizesAddUp
<1> QED
    BY <1>1, <1>2, <1>4

LEMMA FewerAreOrdered ==
    ASSUME NEW D, Ordered(uses, D), NEW S \in SUBSET D
    PROVE  Ordered(Among(S), S)
    BY DEF Ordered, Among

(* Who is used goes to the end. *)
LEMMA UsedAreOrdered ==
    ASSUME NEW D, Ordered(uses, D), NEW k, NEW S, k \in S, S \ {k} \subseteq D
    PROVE  Ordered(Touched(k, S), S)
<1> DEFINE rest == S \ {k}
           R    == Among(rest)
           N    == Touched(k, S)
<1>1. Ordered(R, rest)
    BY FewerAreOrdered
<1>2. N = R \cup (rest \X {k})
    BY DEF Touched
<1> HIDE DEF R, N
<1>3. /\ \A i, j \in rest : <<i, j>> \in N <=> <<i, j>> \in R
      /\ \A i \in rest : <<i, k>> \in N /\ <<k, i>> \notin N
      /\ <<k, k>> \notin N
    BY <1>1, <1>2 DEF Ordered
<1>4. N \subseteq S \X S
    BY <1>1, <1>2 DEF Ordered
<1>5. \A i \in S : <<i, i>> \notin N
    BY <1>1, <1>3 DEF Ordered
<1>6. \A i, j \in S : i # j => (<<i, j>> \in N <=> <<j, i>> \notin N)
    BY <1>1, <1>3 DEF Ordered
<1>7. \A i, j, l \in S : <<i, j>> \in N /\ <<j, l>> \in N => <<i, l>> \in N
    BY <1>1, <1>3 DEF Ordered
<1> QED
    BY <1>4, <1>5, <1>6, <1>7 DEF Ordered, N

(* The first of a finite set: everything else comes after it. *)
LEMMA FirstOfAll ==
    ASSUME NEW S, IsFiniteSet(S), S # {}, NEW R, Ordered(R, S), NEW T \in SUBSET S, T # {}
    PROVE  \E x \in T : T \subseteq From(x, R)
<1> DEFINE after(x) == From(x, R)
           count(x) == Cardinality(after(x))
<1>1. \A x \in S : /\ after(x) \subseteq S /\ x \in after(x)
                   /\ \A y \in S : y \in after(x) <=> y = x \/ <<x, y>> \in R
    <2> SUFFICES ASSUME NEW x \in S
                 PROVE  /\ after(x) \subseteq S /\ x \in after(x)
                        /\ \A y \in S : y \in after(x) <=> y = x \/ <<x, y>> \in R
        OBVIOUS
    <2>1. \A p \in R : p[1] \in S /\ p[2] \in S /\ p = <<p[1], p[2]>>
        BY DEF Ordered
    <2> QED
        BY <2>1 DEF From
<1> HIDE DEF after
<1>2. \A x \in S : IsFiniteSet(after(x)) /\ count(x) \in Nat /\ count(x) <= Cardinality(S)
    BY <1>1, FS_Subset, FS_CardinalityType
<1>3. \A x, y \in S : <<x, y>> \in R => count(y) < count(x)
    <2> SUFFICES ASSUME NEW x \in S, NEW y \in S, <<x, y>> \in R PROVE count(y) < count(x)
        OBVIOUS
    <2>1. after(y) \subseteq after(x)
        BY <1>1 DEF Ordered
    <2>2. x \notin after(y)
        BY <1>1 DEF Ordered
    <2>3. after(y) # after(x)
        BY <1>1, <2>2
    <2> QED
        BY <1>2, <2>1, <2>3, FS_Subset
<1> DEFINE counts == {count(x) : x \in T}
<1>4. counts \subseteq Int /\ counts # {} /\ IsFiniteSet(counts)
    <2>1. counts \in SUBSET Nat /\ \A c \in counts : c <= Cardinality(S)
        BY <1>2
    <2>2. Cardinality(S) \in Nat
        BY FS_CardinalityType
    <2>3. IsFiniteSet(counts)
        BY <2>1, <2>2, FS_BoundedSetOfNaturals
    <2> QED
        BY <2>1, <2>3
<1>5. \E c \in counts : \A d \in counts : d <= c
    BY <1>4, Extremes
<1>6. PICK x \in T : \A y \in T : count(y) <= count(x)
    BY <1>5
<1>7. \A y \in T : y = x \/ <<x, y>> \in R
    <2> SUFFICES ASSUME NEW y \in T, y # x PROVE <<x, y>> \in R
        OBVIOUS
    <2>1. ~(count(x) < count(y))
        BY <1>2, <1>6
    <2>2. <<y, x>> \notin R
        BY <1>3, <2>1
    <2> QED
        BY <2>2 DEF Ordered
<1> QED
    BY <1>1, <1>7 DEF after

(* What is kept when k is stored. *)
LEMMA KeptFits ==
    ASSUME CacheAssumption, CountInv, DOMAIN entries \subseteq Keys, NEW k \in Keys, SizeOf[k] <= MaxBytes
    PROVE  /\ k \in Kept(k) /\ Kept(k) \subseteq DOMAIN entries \cup {k}
           /\ IsFiniteSet(Kept(k)) /\ TotalSize(Kept(k)) <= MaxBytes
<1> DEFINE C == Candidates(k)
           R == Touched(k, C)
<1>1. k \in C /\ C \subseteq DOMAIN entries \cup {k} /\ C \subseteq Keys
    BY DEF Candidates
<1>2. IsFiniteSet(DOMAIN entries \cup {k})
    BY FS_AddElement DEF CountInv
<1>3. IsFiniteSet(C)
    BY <1>1, <1>2, FS_Subset
<1>4. Ordered(R, C)
    BY <1>1, UsedAreOrdered DEF CountInv
<1>5. \A p \in R : p[1] # k
    BY DEF Touched, Among
<1>6. From(k, R) = {k}
    BY <1>5 DEF From
<1>7. Kept(k) = {x \in C : TotalSize(From(x, R)) <= MaxBytes}
    BY DEF Kept, Survives
<1> HIDE DEF C, R
<1>8. k \in Kept(k)
    BY <1>1, <1>6, <1>7, OneSize
<1>9. Kept(k) \in SUBSET C /\ IsFiniteSet(Kept(k))
    BY <1>3, <1>7, FS_Subset
<1>10. PICK x \in Kept(k) : Kept(k) \subseteq From(x, R)
    BY <1>3, <1>4, <1>8, <1>9, <1>1, FirstOfAll
<1>11. From(x, R) \subseteq C
    <2>1. x \in C /\ \A p \in R : p[2] \in C
        BY <1>4, <1>9, <1>10 DEF Ordered
    <2> QED
        BY <2>1 DEF From
<1>12. IsFiniteSet(From(x, R)) /\ From(x, R) \in SUBSET Keys
    BY <1>1, <1>3, <1>11, FS_Subset
<1>13. TotalSize(Kept(k)) <= TotalSize(From(x, R)) /\ TotalSize(From(x, R)) <= MaxBytes
    BY <1>7, <1>10, <1>12, LessIsSmaller
<1>14. TotalSize(Kept(k)) \in Nat /\ TotalSize(From(x, R)) \in Nat /\ MaxBytes \in Nat
    BY <1>1, <1>9, <1>12, SizesAreNumbers DEF CacheAssumption
<1> QED
    BY <1>1, <1>8, <1>9, <1>13, <1>14

(* The steps that drop entries. *)
LEMMA DroppingCounts ==
    ASSUME CacheAssumption, CountInv, DOMAIN entries \subseteq Keys, NEW S \in SUBSET DOMAIN entries,
           entries' = Only(entries, S), uses' = Among(S),
           bytes' = bytes - TotalSize((DOMAIN entries) \ S)
    PROVE  CountInv'
<1>1. DOMAIN entries' = S
    BY DEF Only
<1>2. IsFiniteSet(S) /\ TotalSize(S) <= TotalSize(DOMAIN entries) /\ bytes' = TotalSize(S)
    BY LessIsSmaller DEF CountInv
<1>3. Ordered(uses', S)
    BY FewerAreOrdered DEF CountInv
<1>4. TotalSize(S) \in Nat /\ TotalSize(DOMAIN entries) \in Nat /\ MaxBytes \in Nat
    BY <1>2, SizesAreNumbers DEF CountInv, CacheAssumption
<1>5. bytes' = TotalSize(S) /\ bytes' <= MaxBytes
    BY <1>2, <1>4 DEF CountInv
<1>6. TotalSize(S)' = TotalSize(S)
    BY DEF TotalSize, BytesOf
<1>7. (DOMAIN entries)' = S
    BY <1>1
<1> QED
    BY <1>1, <1>2, <1>3, <1>5 DEF CountInv, TotalSize, BytesOf, Ordered

(* The step that stores. *)
LEMMA StoringCounts ==
    ASSUME CacheAssumption, CountInv, DOMAIN entries \subseteq Keys, NEW k \in Keys,
           SizeOf[k] <= MaxBytes, Store(k)
    PROVE  CountInv'
<1> DEFINE D == DOMAIN entries
           K == Kept(k)
<1>1. k \in K /\ K \subseteq D \cup {k} /\ IsFiniteSet(K) /\ TotalSize(K) <= MaxBytes
    BY KeptFits
<1>2. /\ DOMAIN entries' = K /\ uses' = Touched(k, K)
      /\ bytes' = bytes + SizeOf[k] - TotalSize((D \cup {k}) \ K) - (IF k \in D THEN SizeOf[k] ELSE 0)
    BY DEF Store
<1> HIDE DEF K
<1>3. Ordered(uses', K)
    BY <1>1, <1>2, UsedAreOrdered DEF CountInv
<1>4. IsFiniteSet(D \cup {k}) /\ D \cup {k} \in SUBSET Keys /\ IsFiniteSet(D) /\ D \in SUBSET Keys
    BY FS_AddElement DEF CountInv
<1>5. TotalSize(D \cup {k}) - TotalSize((D \cup {k}) \ K) = TotalSize(K)
    BY <1>1, <1>4, LessIsSmaller
<1>6. TotalSize(D \cup {k}) = TotalSize(D) + SizeOf[k] - (IF k \in D THEN SizeOf[k] ELSE 0)
    <2>1. SizeOf[k] \in Nat /\ TotalSize({k}) = SizeOf[k] /\ TotalSize(D) \in Nat
        BY <1>4, OneSize, SizesAreNumbers
    <2>2. CASE k \in D
        <3>1. D \cup {k} = D
            BY <2>2
        <3> QED
            BY <2>1, <2>2, <3>1
    <2>3. CASE k \notin D
        <3>1. D \cap {k} = {} /\ IsFiniteSet({k}) /\ {k} \in SUBSET Keys
            BY <2>3, FS_Singleton
        <3>2. TotalSize(D \cup {k}) = TotalSize(D) + TotalSize({k})
            BY <1>4, <3>1, SizesAddUp
        <3> QED
            BY <2>1, <2>3, <3>2
    <2> QED
        BY <2>2, <2>3
<1>7. /\ TotalSize(D) \in Nat /\ TotalSize(K) \in Nat /\ TotalSize(D \cup {k}) \in Nat
      /\ TotalSize((D \cup {k}) \ K) \in Nat /\ SizeOf[k] \in Nat /\ bytes = TotalSize(D)
    <2>1. IsFiniteSet((D \cup {k}) \ K) /\ (D \cup {k}) \ K \in SUBSET Keys /\ K \in SUBSET Keys
        BY <1>1, <1>4, FS_Subset
    <2> QED
        BY <1>1, <1>4, <2>1, SizesAreNumbers, OneSize DEF CountInv
<1>8. bytes' = TotalSize(K)
    BY <1>2, <1>5, <1>6, <1>7
<1>9. bytes' <= MaxBytes
    BY <1>1, <1>8
<1> QED
    BY <1>1, <1>2, <1>3, <1>8, <1>9 DEF CountInv, TotalSize, BytesOf, Ordered

LEMMA CountingKeeps ==
    ASSUME IInv, CountInv, CacheAssumption, [CacheNext]_cache_vars
    PROVE  CountInv'
<1>1. DOMAIN entries \subseteq Keys
    BY DEF IInv, CacheTypeOK
<1>2. ASSUME UNCHANGED <<entries, uses, bytes>> PROVE CountInv'
    BY <1>2 DEF CountInv, TotalSize, BytesOf, Ordered
<1>3. ASSUME NEW k \in Keys, DropExpired(k) PROVE CountInv'
    <2>1. CASE k \notin DOMAIN entries
        BY <1>2, <1>3, <2>1 DEF DropExpired
    <2>2. CASE k \in DOMAIN entries
        <3>1. (DOMAIN entries) \ ((DOMAIN entries) \ {k}) = {k}
            BY <2>2
        <3>2. bytes' = bytes - TotalSize({k})
            BY <1>3, <2>2, OneSize DEF DropExpired
        <3>3. entries' = Only(entries, (DOMAIN entries) \ {k}) /\ uses' = Among((DOMAIN entries) \ {k})
            BY <1>3, <2>2 DEF DropExpired
        <3>4. (DOMAIN entries) \ {k} \in SUBSET DOMAIN entries
            OBVIOUS
        <3> QED
            BY <1>1, <3>1, <3>2, <3>3, <3>4, DroppingCounts
    <2> QED
        BY <2>1, <2>2
<1>4. ASSUME NEW k \in Keys, Hit(k) PROVE CountInv'
    <2>1. /\ UNCHANGED <<entries, bytes>> /\ uses' = Touched(k, DOMAIN entries)
          /\ k \in DOMAIN entries
        BY <1>4 DEF Hit, Live
    <2>2. Ordered(uses', DOMAIN entries)
        BY <2>1, UsedAreOrdered DEF CountInv
    <2> QED
        BY <2>1, <2>2 DEF CountInv, TotalSize, BytesOf, Ordered
<1>5. ASSUME NEW k \in Keys, LoadSucceeds(k) PROVE CountInv'
    <2>1. CASE Outdated(k) \/ SizeOf[k] > MaxBytes
        BY <1>2, <1>5, <2>1 DEF LoadSucceeds
    <2>2. CASE ~(Outdated(k) \/ SizeOf[k] > MaxBytes)
        <3>1. SizeOf[k] \in Nat /\ MaxBytes \in Nat
            BY DEF CacheAssumption
        <3>2. SizeOf[k] <= MaxBytes /\ Store(k)
            BY <1>5, <2>2, <3>1 DEF LoadSucceeds
        <3> QED
            BY <1>1, <3>2, StoringCounts
    <2> QED
        BY <2>1, <2>2
<1>6. ASSUME NEW m \in Messages, NEW deleted \in BOOLEAN, Invalidate(m, deleted) PROVE CountInv'
    <2> DEFINE S == {k \in DOMAIN entries : k[1] # m}
    <2>1. S \in SUBSET DOMAIN entries /\ (DOMAIN entries) \ S = {k \in DOMAIN entries : k[1] = m}
        OBVIOUS
    <2>2. /\ entries' = Only(entries, S) /\ uses' = Among(S)
          /\ bytes' = bytes - TotalSize((DOMAIN entries) \ S)
        BY <1>6, <2>1 DEF Invalidate
    <2> HIDE DEF S
    <2> QED
        BY <1>1, <2>1, <2>2, DroppingCounts
<1>7. CASE UNCHANGED cache_vars
    BY <1>2, <1>7 DEF cache_vars
<1>8. CASE CacheTick
    BY <1>2, <1>8 DEF CacheTick
<1>9. ASSUME NEW k \in Keys, Coalesced(k) \/ Miss(k) \/ LoadFails(k) PROVE CountInv'
    BY <1>2, <1>3, <1>9 DEF Coalesced, Miss, LoadFails
<1> QED
    BY <1>4, <1>5, <1>6, <1>7, <1>8, <1>9 DEF CacheNext

(* The byte counter, adjusted where an entry is stored, replaced, dropped,      *)
(* expired or evicted, is the size of what is kept, that fits, and the entry to *)
(* go next is always determined (attachment_cache.py:84-160): what is evicted   *)
(* goes in the order of use until the rest fits, for any sizes.                 *)
THEOREM CounterIsExact == CacheSpec => []ByteCountExact
<1> USE CacheAssumption, LoadsAreShort
<1>1. CacheInit => CountInv
    <2> SUFFICES ASSUME CacheInit PROVE CountInv
        OBVIOUS
    <2>1. DOMAIN entries = {} /\ uses = {} /\ bytes = 0
        BY DEF CacheInit
    <2>2. TotalSize({}) = 0 /\ IsFiniteSet({})
        BY FS_EmptySet DEF TotalSize, BytesOf
    <2>3. MaxBytes \in Nat
        BY DEF CacheAssumption
    <2> QED
        BY <2>1, <2>2, <2>3 DEF CountInv, Ordered
<1>2. IInv /\ CountInv /\ [CacheNext]_cache_vars => CountInv'
    BY CountingKeeps
<1>3. CountInv => ByteCountExact
    BY DEF CountInv, ByteCountExact, Ordered
<1> QED
    BY <1>1, <1>2, <1>3, Invariance, PTL DEF CacheSpec

(* So it is under prompt builds, evictions and cancelled workers included.      *)
THEOREM CounterIsExactInBuilds == Spec => []ByteCountExact
    BY CounterIsExact, CacheImplemented, PTL
================================================================================
