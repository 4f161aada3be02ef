--------------------------- MODULE SandboxThread_Proofs ---------------------------
(***************************************************************************)
(* What the runs of a thread keep between them, proved for any number of   *)
(* calls and posts, any limits and any faults: the claim, the workspace    *)
(* and the record of loose ends. And what people see of a run, for any     *)
(* calls, files and caps: the transcript, the card, the files and the      *)
(* closing answer.                                                         *)
(***************************************************************************)
EXTENDS SandboxThread, RunOutput, SequenceTheorems, TLAPS

(* The part of the types the arguments need. *)
Shaped ==
    /\ claim \in Runs \cup {NoRun}
    /\ pc \in [Runs -> {"idle"} \cup Waits \cup Over]
    /\ DOMAIN base = Runs /\ base = [r \in Runs |-> base[r]]
    /\ DOMAIN ending = Runs /\ ending = [r \in Runs |-> ending[r]]
    /\ DOMAIN offered = Runs /\ offered = [r \in Runs |-> offered[r]]
    /\ DOMAIN writing = Runs /\ writing = [r \in Runs |-> writing[r]]
    /\ \A r \in Runs : writing[r].made \in 0..(SAVE_ATTEMPTS - 1)

(* A run that will persist started from what is saved, unless that is gone. *)
StartedFromIt ==
    \A r \in Runs : pc[r] \in {"preparing", "working", "persisting"} =>
        snapshot = NoSnapshot \/ snapshot.version = base[r]

(* Until its first save lands, a run has been offered what the record says, *)
(* or could not read it, or it is gone.                                     *)
BeforeItsFirstSave(r) ==
    /\ pc[r] \in Waits \ {"looking", "loading"}
    /\ pc[r] = "saving" => writing[r].made = 0
RecordWasOffered ==
    \A r \in Runs : BeforeItsFirstSave(r) =>
        record = NoRecord \/ record.carry = offered[r] \/ offered[r] = Unread

IInv == Shaped /\ ClaimCoversRun /\ StartedFromIt /\ RecordWasOffered

(* A step of a call that leaves the claim with it.                          *)
Moves(r, to) ==
    /\ pc[r] \in Waits /\ to \in Waits
    /\ pc' = [pc EXCEPT ![r] = to] /\ UNCHANGED claim

(* A step that ends the call and its claim.                                 *)
Leaves(r) ==
    /\ pc[r] \in Waits
    /\ pc' = [pc EXCEPT ![r] = "ended"] /\ claim' = NoRun

LEMMA NoRunIsNone == NoRun \notin Runs
BY ThreadAssumption DEF Items

LEMMA NotWaiting == {"idle", "forwarded", "ended", "dead"} \cap Waits = {}
BY DEF Waits

LEMMA Init_IInv == Init => IInv
<1> SUFFICES ASSUME Init PROVE IInv
    OBVIOUS
<1>1. \A r \in Runs : pc[r] \notin Waits /\ writing[r].made = 0
    BY NotWaiting DEF Init, NoWrite
<1>2. Shaped
    <2>1. 0 \in 0..(SAVE_ATTEMPTS - 1)
        BY ThreadAssumption
    <2> QED
        BY <1>1, <2>1 DEF Init, Shaped
<1>3. ClaimCoversRun
    BY <1>1, NoRunIsNone DEF Init, ClaimCoversRun
<1>4. StartedFromIt /\ RecordWasOffered
    BY <1>1 DEF Init, StartedFromIt, RecordWasOffered, BeforeItsFirstSave
<1> QED
    BY <1>2, <1>3, <1>4 DEF IInv

--------------------------------------------------------------------------------
(* The claim. *)

LEMMA StepMoves ==
    ASSUME IInv, NEW r \in Runs, Step(r)
    PROVE  \/ \E to \in Waits : Moves(r, to)
           \/ Leaves(r)
           \/ pc[r] \in Waits /\ UNCHANGED <<claim, pc>>
<1>1. {"looking", "loading", "creating", "starting", "dropping", "forgetting", "recreating",
       "restarting", "preparing", "working", "persisting", "removing", "closing", "saving"}
      \subseteq Waits
    BY DEF Waits
<1>2. CASE Look(r) \/ LoadRecord(r) \/ Create(r) \/ Start(r) \/ Drop(r) \/ Forget(r)
          \/ Recreate(r) \/ Restart(r)
    BY <1>1, <1>2
       DEF Look, LoadRecord, Create, Recreate, CreateContainer, Start, Restart, Started,
           StartRaises, Drop, Forget, Fails, Goes, Moves
<1>3. CASE ModelStarts(r) \/ LeavesTry(r) \/ Persist(r) \/ BeginSave(r)
    BY <1>1, <1>3 DEF ModelStarts, LeavesTry, Persist, BeginSave, Goes, Moves
<1>4. CASE Settles(r) \/ Concludes(r)
    BY <1>1, <1>4 DEF Settles, Concludes, callVars
<1>5. CASE CannotAnnounce(r) \/ Teardown(r) \/ SaveFails(r) \/ SaveLands(r)
    BY <1>1, <1>5 DEF CannotAnnounce, Teardown, SaveFails, SaveLands, Released, Goes, Moves, Leaves
<1>6. CASE Cancel(r)
    BY <1>1, <1>6 DEF Cancel, CancelledInRun, CancelledOutside, Released, Goes, Moves, Leaves
<1> QED
    BY <1>2, <1>3, <1>4, <1>5, <1>6 DEF Step

LEMMA ClaimStep == IInv /\ [Next]_vars =>
    /\ claim' \in Runs \cup {NoRun} /\ pc' \in [Runs -> {"idle"} \cup Waits \cup Over]
    /\ ClaimCoversRun'
<1> DEFINE Good ==
        /\ claim' \in Runs \cup {NoRun} /\ pc' \in [Runs -> {"idle"} \cup Waits \cup Over]
        /\ ClaimCoversRun'
<1> SUFFICES ASSUME IInv, [Next]_vars PROVE Good
    OBVIOUS
<1> USE NoRunIsNone DEF IInv, Shaped, ClaimCoversRun
<1>0. {"forwarded", "ended", "dead"} \subseteq Over
    BY DEF Over
<1>1. ASSUME NEW r \in Runs, Step(r)
      PROVE  Good
    <2>1. ASSUME NEW to \in Waits, Moves(r, to)
          PROVE  Good
        BY <2>1 DEF Moves
    <2>2. CASE Leaves(r)
        BY <1>0, <2>2, NotWaiting DEF Leaves
    <2>3. CASE UNCHANGED <<claim, pc>>
        BY <2>3
    <2> QED
        BY <1>1, <2>1, <2>2, <2>3, StepMoves
<1>2. ASSUME NEW r \in Runs, Call(r)
      PROVE  Good
    <2>1. /\ pc[r] = "idle" /\ claim = NoRun /\ claim' = r
          /\ pc' = [pc EXCEPT ![r] = "looking"] /\ "looking" \in Waits
        BY <1>2 DEF Call, Unclaimed, Goes, Waits
    <2> QED
        BY <2>1
<1>3. ASSUME NEW r \in Runs, Forward(r)
      PROVE  Good
    <2>1. pc[r] = "idle" /\ UNCHANGED claim /\ pc' = [pc EXCEPT ![r] = "forwarded"]
        BY <1>3 DEF Forward, Goes
    <2> QED
        BY <1>0, <2>1, NotWaiting
<1>4. CASE Crash
    <2>1. claim' = NoRun /\ pc' = [r \in Runs |-> IF pc[r] \in Waits THEN "dead" ELSE pc[r]]
        BY <1>4 DEF Crash
    <2> QED
        BY <1>0, <2>1, NotWaiting
<1>5. CASE UNCHANGED <<claim, pc>>
    BY <1>5
<1> QED
    BY <1>1, <1>2, <1>3, <1>4, <1>5 DEF Next, Post, Expire, vars, callVars

(* One call at a time: while one waits, no other does. *)
LEMMA OthersIdle ==
    ASSUME IInv, NEW r \in Runs, pc[r] \in Waits
    PROVE  \A q \in Runs \ {r} : pc[q] \notin Waits
BY DEF IInv, ClaimCoversRun

LEMMA StepIsOne ==
    ASSUME IInv, NEW r \in Runs, Step(r)
    PROVE  /\ pc[r] \in Waits
           /\ \A q \in Runs \ {r} : pc'[q] = pc[q] /\ pc'[q] \notin Waits
<1>1. pc[r] \in Waits
    BY StepMoves DEF Moves, Leaves
<1>2. \A q \in Runs \ {r} : pc'[q] = pc[q]
    BY StepMoves DEF Moves, Leaves, IInv, Shaped
<1> QED
    BY <1>1, <1>2, OthersIdle

LEMMA ShapedStep == IInv /\ [Next]_vars => Shaped'
<1> SUFFICES ASSUME IInv, [Next]_vars PROVE Shaped'
    OBVIOUS
<1>1. claim' \in Runs \cup {NoRun} /\ pc' \in [Runs -> {"idle"} \cup Waits \cup Over]
    BY ClaimStep
<1>2. ASSUME NEW r \in Runs, Step(r)
      PROVE  /\ base' = base \/ \E v : base' = [base EXCEPT ![r] = v]
             /\ ending' = ending \/ \E v : ending' = [ending EXCEPT ![r] = v]
             /\ offered' = offered \/ \E v : offered' = [offered EXCEPT ![r] = v]
    BY <1>2
       DEF Step, Look, LoadRecord, CannotAnnounce, Create, Recreate,
           CreateContainer, Start, Restart, Started,
           StartRaises, Fails, Drop, Forget, ModelStarts, Settles, Concludes, LeavesTry, Persist,
           Teardown, BeginSave, SaveLands, SaveFails, Cancel, callVars
<1>3. ASSUME NEW r \in Runs, Step(r)
      PROVE  \/ writing' = writing
             \/ \E n \in 0..(SAVE_ATTEMPTS - 1) : Writes(r, n)
    <2>1. CASE BeginSave(r)
        BY <2>1, ThreadAssumption DEF BeginSave
    <2>2. CASE SaveLands(r)
        <3>1. SaveAgain(r) => writing[r].made + 1 \in 0..(SAVE_ATTEMPTS - 1)
            BY ThreadAssumption DEF SaveAgain, IInv, Shaped
        <3> QED
            BY <2>2, <3>1 DEF SaveLands
    <2> QED
        BY <1>3, <2>1, <2>2
           DEF Step, Look, LoadRecord, CannotAnnounce, Create, Recreate,
               CreateContainer, Start, Restart, Started,
               StartRaises, Drop, Forget, ModelStarts, Settles, Concludes, LeavesTry, Persist,
               Teardown, SaveFails, Cancel, callVars
<1>4. ASSUME NEW r \in Runs, Step(r)
      PROVE  Shaped'
    <2>1. /\ DOMAIN base' = Runs /\ base' = [q \in Runs |-> base'[q]]
          /\ DOMAIN ending' = Runs /\ ending' = [q \in Runs |-> ending'[q]]
          /\ DOMAIN offered' = Runs /\ offered' = [q \in Runs |-> offered'[q]]
        BY <1>2, <1>4 DEF IInv, Shaped
    <2>2. /\ DOMAIN writing' = Runs /\ writing' = [q \in Runs |-> writing'[q]]
          /\ \A q \in Runs : writing'[q].made \in 0..(SAVE_ATTEMPTS - 1)
        BY <1>3, <1>4 DEF IInv, Shaped, Writes
    <2> QED
        BY <1>1, <2>1, <2>2 DEF Shaped
<1>5. CASE UNCHANGED <<base, ending, offered, writing>>
    BY <1>1, <1>5 DEF IInv, Shaped
<1> QED
    BY <1>4, <1>5 DEF Next, Call, Forward, Post, Crash, Expire, vars, callVars

--------------------------------------------------------------------------------
(* The workspace. *)

LEMMA WorkspaceStep == IInv /\ [Next]_vars => StartedFromIt'
<1> SUFFICES ASSUME IInv, [Next]_vars PROVE StartedFromIt'
    OBVIOUS
<1> USE DEF IInv, Shaped
<1>1. ASSUME NEW r \in Runs, Step(r),
             pc'[r] \in {"preparing", "working", "persisting"} =>
                 snapshot' = NoSnapshot \/ snapshot'.version = base'[r]
      PROVE  StartedFromIt'
    BY <1>1, StepIsOne DEF StartedFromIt, Waits
<1>2. ASSUME NEW r \in Runs, Step(r), UNCHANGED <<base, snapshot>>,
             pc'[r] \in {"preparing", "working", "persisting"} =>
                 pc[r] \in {"preparing", "working", "persisting"}
      PROVE  StartedFromIt'
    BY <1>1, <1>2 DEF StartedFromIt
<1>3. ASSUME NEW r \in Runs, Step(r)
      PROVE  StartedFromIt'
    <2>1. CASE Started(r, resumed[r]) \/ Started(r, FALSE)
        BY <1>1, <1>3, <2>1 DEF Started, storeVars
    <2>2. CASE Forget(r) \/ Persist(r)
        BY <1>1, <1>3, <2>2 DEF Forget, Persist, Goes
    <2>3. CASE UNCHANGED <<base, snapshot>> /\ ~Started(r, resumed[r]) /\ ~Started(r, FALSE)
        <3>1. pc'[r] \in {"preparing", "working", "persisting"} =>
                  pc[r] \in {"preparing", "working", "persisting"}
            BY <1>3, <2>3
               DEF Step, Look, LoadRecord, CannotAnnounce, Create, Recreate,
                   CreateContainer, Start, Restart,
                   StartRaises, Fails, Drop, Forget, ModelStarts, Settles, Concludes, LeavesTry,
                   Persist, Teardown, BeginSave, SaveLands, SaveFails, Released, Cancel,
                   CancelledInRun, CancelledOutside, Goes, callVars
        <3> QED
            BY <1>2, <1>3, <2>3, <3>1
    <2>4. \/ Started(r, resumed[r]) \/ Started(r, FALSE) \/ Forget(r) \/ Persist(r)
          \/ UNCHANGED <<base, snapshot>>
        BY <1>3
           DEF Step, Look, LoadRecord, CannotAnnounce, Create, Recreate,
               CreateContainer, Start, Restart,
               StartRaises, Drop, ModelStarts, Settles, Concludes, LeavesTry,
               Teardown, BeginSave, SaveLands, SaveFails, Cancel, callVars, storeVars
    <2> QED
        BY <2>1, <2>2, <2>3, <2>4
<1>4. ASSUME NEW r \in Runs, Call(r) \/ Forward(r)
      PROVE  StartedFromIt'
    <2>1. UNCHANGED <<base, snapshot>>
        BY <1>4 DEF Call, Forward, storeVars
    <2>2. \A q \in Runs : pc'[q] \in {"preparing", "working", "persisting"} => pc'[q] = pc[q]
        BY <1>4 DEF Call, Forward, Goes
    <2> QED
        BY <2>1, <2>2 DEF StartedFromIt
<1>5. CASE Crash
    <2>1. \A q \in Runs : pc'[q] \in {"preparing", "working", "persisting"} => pc'[q] = pc[q]
        BY <1>5 DEF Crash
    <2> QED
        BY <1>5, <2>1 DEF Crash, storeVars, StartedFromIt
<1>6. CASE Expire
    BY <1>6 DEF Expire, callVars, StartedFromIt
<1>7. CASE UNCHANGED <<pc, base, snapshot>>
    BY <1>7 DEF StartedFromIt
<1> QED
    BY <1>3, <1>4, <1>5, <1>6, <1>7 DEF Next, Post, vars, callVars, storeVars

--------------------------------------------------------------------------------
(* The record. *)

LEMMA RecordStep == IInv /\ [Next]_vars => RecordWasOffered'
<1> SUFFICES ASSUME IInv, [Next]_vars PROVE RecordWasOffered'
    OBVIOUS
<1> USE DEF IInv, Shaped
<1>1. ASSUME NEW r \in Runs, Step(r),
             BeforeItsFirstSave(r)' =>
                 record' = NoRecord \/ record'.carry = offered'[r] \/ offered'[r] = Unread
      PROVE  RecordWasOffered'
    <2>1. \A q \in Runs \ {r} : ~BeforeItsFirstSave(q)'
        BY <1>1, StepIsOne DEF BeforeItsFirstSave
    <2> QED
        BY <1>1, <2>1 DEF RecordWasOffered
<1>2. ASSUME NEW r \in Runs, Step(r), UNCHANGED <<record, offered>>,
             BeforeItsFirstSave(r)' => BeforeItsFirstSave(r)
      PROVE  RecordWasOffered'
    BY <1>1, <1>2 DEF RecordWasOffered
<1>3. ASSUME NEW r \in Runs, Step(r)
      PROVE  RecordWasOffered'
    <2>1. CASE Look(r)
        BY <1>1, <1>3, <2>1 DEF Look, Goes, BeforeItsFirstSave
    <2>2. CASE LoadRecord(r)
        BY <1>1, <1>3, <2>2 DEF LoadRecord, storeVars
    <2>3. CASE SaveLands(r)
        <3>1. ~BeforeItsFirstSave(r)'
            <4>1. CASE SaveAgain(r)
                BY <2>3, <4>1 DEF SaveLands, Writes, BeforeItsFirstSave
            <4>2. CASE ~SaveAgain(r)
                BY <2>3, <4>2, NotWaiting DEF SaveLands, Released, Goes, BeforeItsFirstSave
            <4> QED
                BY <4>1, <4>2
        <3> QED
            BY <1>1, <1>3, <3>1
    <2>4. CASE CannotAnnounce(r) \/ SaveFails(r) \/ CancelledOutside(r) \/ Leaves(r)
        <3>1. ~BeforeItsFirstSave(r)'
            BY <2>4, NotWaiting DEF CannotAnnounce, SaveFails, CancelledOutside, Released, Goes,
                                    Leaves, BeforeItsFirstSave
        <3> QED
            BY <1>1, <1>3, <3>1
    <2>5. CASE BeginSave(r)
        <3>1. BeforeItsFirstSave(r)
            BY <2>5 DEF BeginSave, BeforeItsFirstSave, Waits
        <3> QED
            BY <1>2, <1>3, <2>5, <3>1 DEF BeginSave, storeVars
    <2>6. CASE /\ UNCHANGED <<record, offered, writing>>
               /\ pc[r] \notin {"looking", "loading"}
               /\ pc[r] # "saving" /\ pc'[r] # "saving"
        <3>1. pc[r] \in Waits
            BY <1>3, StepIsOne
        <3>2. BeforeItsFirstSave(r)' => BeforeItsFirstSave(r)
            BY <2>6, <3>1 DEF BeforeItsFirstSave
        <3> QED
            BY <1>2, <1>3, <2>6, <3>2
    <2>7. CASE Create(r) \/ Start(r) \/ Drop(r) \/ Forget(r) \/ Recreate(r) \/ Restart(r)
              \/ ModelStarts(r) \/ Settles(r) \/ Concludes(r) \/ LeavesTry(r) \/ Persist(r)
              \/ Teardown(r) \/ (Cancel(r) /\ CancelledInRun(r))
        BY <2>6, <2>7
           DEF Create, Recreate, CreateContainer, Start, Restart, Started, StartRaises, Fails,
               Drop, Forget, ModelStarts, Settles, Concludes, LeavesTry, Persist, Teardown,
               Released, Cancel, CancelledInRun, Goes, callVars, storeVars
    <2> QED
        BY <1>3, <2>1, <2>2, <2>3, <2>4, <2>5, <2>7 DEF Step, Cancel
<1>4. ASSUME UNCHANGED <<record, offered, writing>>,
             \A q \in Runs : pc'[q] \in Waits => pc'[q] = pc[q] \/ pc'[q] = "looking"
      PROVE  RecordWasOffered'
    BY <1>4 DEF RecordWasOffered, BeforeItsFirstSave
<1>5. ASSUME NEW r \in Runs, Call(r) \/ Forward(r)
      PROVE  RecordWasOffered'
    <2>1. \A q \in Runs : pc'[q] \in Waits => pc'[q] = pc[q] \/ pc'[q] = "looking"
        BY <1>5, NotWaiting DEF Call, Forward, Goes
    <2> QED
        BY <1>4, <1>5, <2>1 DEF Call, Forward, storeVars
<1>6. CASE Crash
    <2>1. \A q \in Runs : pc'[q] \in Waits => pc'[q] = pc[q]
        BY <1>6, NotWaiting DEF Crash
    <2> QED
        BY <1>4, <1>6, <2>1 DEF Crash, storeVars
<1>7. CASE Expire
    <2>1. UNCHANGED <<pc, offered, writing>> /\ (record' = NoRecord \/ UNCHANGED record)
        BY <1>7 DEF Expire, callVars
    <2> QED
        BY <2>1 DEF RecordWasOffered, BeforeItsFirstSave
<1>8. CASE UNCHANGED <<pc, record, offered, writing>>
    BY <1>8 DEF RecordWasOffered, BeforeItsFirstSave
<1> QED
    BY <1>3, <1>5, <1>6, <1>7, <1>8 DEF Next, Post, vars, callVars, storeVars

--------------------------------------------------------------------------------
(* Restoring a workspace. *)

(* Docker and Redis answer, though a saved workspace may be unreadable. *)
StoresWork == {"create", "start", "redis"} \cap Faults = {}

(* A call that does not believe there is a workspace, or has deleted it,     *)
(* finds none.                                                               *)
Empty(r) ==
    \/ pc[r] \in {"loading", "creating", "starting"} /\ ~resumed[r]
    \/ pc[r] \in {"recreating", "restarting"}
RestoreFits ==
    /\ DOMAIN resumed = Runs /\ DOMAIN finalized = Runs
    /\ \A r \in Runs : Empty(r) => snapshot = NoSnapshot
    /\ RestoreNeverFatal

LEMMA RestoreInit == Init => RestoreFits
BY DEF Init, RestoreFits, Empty, RestoreNeverFatal

LEMMA RestoreStep == StoresWork /\ IInv /\ RestoreFits /\ [Next]_vars => RestoreFits'
<1> SUFFICES ASSUME StoresWork, IInv, RestoreFits, [Next]_vars PROVE RestoreFits'
    OBVIOUS
<1> USE DEF IInv, Shaped, RestoreFits
<1>0. "create" \notin Faults /\ "start" \notin Faults /\ "redis" \notin Faults
    BY DEF StoresWork
<1>1. ASSUME NEW r \in Runs, Step(r),
             resumed' = resumed \/ \E v : resumed' = [resumed EXCEPT ![r] = v],
             finalized' = finalized \/ finalized' = [finalized EXCEPT ![r] = TRUE],
             \/ ending' = ending
             \/ ending' = [ending EXCEPT ![r] = "cancelled"]
             \/ ending' = [ending EXCEPT ![r] = "infra"] /\ finalized'[r],
             Empty(r)' => snapshot' = NoSnapshot
      PROVE  RestoreFits'
    <2>1. \A q \in Runs \ {r} : ~Empty(q)'
        BY <1>1, StepIsOne DEF Empty, Waits
    <2>2. \A q \in Runs : ending'[q] = "infra" => finalized'[q]
        BY <1>1 DEF RestoreNeverFatal
    <2>3. DOMAIN resumed' = Runs /\ DOMAIN finalized' = Runs
        BY <1>1
    <2> QED
        BY <1>1, <2>1, <2>2, <2>3 DEF RestoreNeverFatal
<1>2. ASSUME NEW r \in Runs, StartRaises(r),
             (pc[r] = "starting" /\ ~resumed[r]) \/ pc[r] = "restarting"
      PROVE  FALSE
    <2>1. ~snapshot.good
        BY <1>0, <1>2 DEF StartRaises, StartBreaks
    <2>2. snapshot = NoSnapshot
        BY <1>2 DEF Empty
    <2> QED
        BY <2>1, <2>2 DEF NoSnapshot
<1>3. ASSUME NEW r \in Runs, Look(r)
      PROVE  RestoreFits'
    <2>1. /\ resumed' = [resumed EXCEPT ![r] = snapshot # NoSnapshot]
          /\ pc' = [pc EXCEPT ![r] = "loading"] /\ UNCHANGED <<snapshot, finalized, ending>>
        BY <1>0, <1>3 DEF Look, Goes, storeVars
    <2>2. Empty(r)' => snapshot' = NoSnapshot
        BY <2>1 DEF Empty
    <2> QED
        BY <1>1, <1>3, <2>1, <2>2 DEF Step
<1>4. ASSUME NEW r \in Runs, LoadRecord(r) \/ Create(r) \/ Recreate(r) \/ Drop(r)
      PROVE  RestoreFits'
    <2>1. UNCHANGED <<resumed, finalized, ending, snapshot>>
        BY <1>0, <1>4 DEF LoadRecord, Create, Recreate, CreateContainer, Drop, storeVars
    <2>2. Empty(r)' => Empty(r)
        BY <1>0, <1>4 DEF LoadRecord, Create, Recreate, CreateContainer, Drop, Goes, Empty
    <2> QED
        BY <1>1, <1>4, <2>1, <2>2 DEF Step
<1>5. ASSUME NEW r \in Runs, Start(r) \/ Restart(r)
      PROVE  RestoreFits'
    <2>1. CASE Started(r, resumed[r]) \/ Started(r, FALSE)
        <3>1. /\ \E v : resumed' = [resumed EXCEPT ![r] = v]
              /\ UNCHANGED <<finalized, ending>> /\ pc'[r] = "preparing"
            BY <2>1 DEF Started, Goes
        <3> QED
            BY <1>1, <1>5, <3>1 DEF Step, Empty
    <2>2. CASE pc[r] = "starting" /\ resumed[r] /\ Goes(r, "dropping") /\ UNCHANGED <<resumed, finalized, ending>>
        BY <1>1, <1>5, <2>2 DEF Step, Empty, Goes
    <2> QED
        BY <1>2, <1>5, <2>1, <2>2 DEF Start, Restart
<1>6. ASSUME NEW r \in Runs, Forget(r)
      PROVE  RestoreFits'
    <2>1. snapshot' = NoSnapshot /\ UNCHANGED <<resumed, finalized, ending>>
        BY <1>0, <1>6 DEF Forget
    <2> QED
        BY <1>1, <1>6, <2>1 DEF Step
<1>7. ASSUME NEW r \in Runs,
             \/ CannotAnnounce(r) \/ ModelStarts(r) \/ Settles(r) \/ Concludes(r) \/ LeavesTry(r)
             \/ Persist(r) \/ Teardown(r) \/ BeginSave(r) \/ SaveLands(r) \/ SaveFails(r) \/ Cancel(r)
      PROVE  RestoreFits'
    <2>1. ~Empty(r)' \/ (Empty(r)' /\ Empty(r) /\ UNCHANGED snapshot)
        BY <1>7
           DEF CannotAnnounce, ModelStarts, Settles, Concludes, LeavesTry, Persist, Teardown, BeginSave,
               SaveLands, SaveFails, Cancel, CancelledInRun, CancelledOutside, Released, Goes, Empty,
               callVars, storeVars
    <2>2. /\ UNCHANGED resumed
          /\ finalized' = finalized \/ finalized' = [finalized EXCEPT ![r] = TRUE]
          /\ \/ ending' = ending
             \/ ending' = [ending EXCEPT ![r] = "cancelled"]
             \/ ending' = [ending EXCEPT ![r] = "infra"] /\ finalized'[r]
        BY <1>7
           DEF CannotAnnounce, ModelStarts, Settles, Concludes, LeavesTry, Persist, Teardown, BeginSave,
               SaveLands, SaveFails, Cancel, CancelledInRun, CancelledOutside, callVars
    <2>3. Step(r)
        BY <1>7 DEF Step
    <2> QED
        BY <1>1, <2>1, <2>2, <2>3
<1>8. ASSUME UNCHANGED <<resumed, finalized, ending>>,
             UNCHANGED snapshot \/ snapshot' = NoSnapshot,
             \A q \in Runs : Empty(q)' => Empty(q)
      PROVE  RestoreFits'
    BY <1>8 DEF RestoreNeverFatal
<1>9. ASSUME NEW r \in Runs, Call(r) \/ Forward(r)
      PROVE  RestoreFits'
    BY <1>8, <1>9 DEF Call, Forward, Goes, Empty, storeVars
<1>10. CASE Crash
    BY <1>8, <1>10 DEF Crash, Empty, storeVars
<1>11. CASE Expire
    BY <1>8, <1>11 DEF Expire, Empty, callVars
<1>12. CASE UNCHANGED <<callVars, storeVars>>
    BY <1>8, <1>12 DEF Empty, callVars, storeVars
<1> QED
    BY <1>3, <1>4, <1>5, <1>6, <1>7, <1>9, <1>10, <1>11, <1>12 DEF Next, Step, Post, vars

--------------------------------------------------------------------------------
(* The theorems. *)

LEMMA IInvHolds == Spec => []IInv
<1>1. IInv /\ [Next]_vars => IInv'
    BY ClaimStep, ShapedStep, WorkspaceStep, RecordStep DEF IInv
<1> QED
    BY Init_IInv, <1>1, PTL DEF Spec

(* The thread is claimed by the one call that is under way, from its first   *)
(* await to its last, whatever fails, is cancelled or crashes.               *)
THEOREM OneRunAtATime == Spec => []ClaimCoversRun
<1>1. IInv => ClaimCoversRun
    BY DEF IInv
<1> QED
    BY <1>1, IInvHolds, PTL

(* A run only replaces the saved workspace it started from. *)
THEOREM WorkspaceNotClobbered == Spec => []NoClobber
<1>1. IInv => NoClobber
    BY DEF IInv, StartedFromIt, NoClobber
<1> QED
    BY <1>1, IInvHolds, PTL

(* A saved workspace that cannot be unpacked, or expires between the look    *)
(* and the start, does not fail the run (sandbox_agent.py                    *)
(* _create_sandbox_session): while Docker and Redis answer, whoever does not *)
(* expect a workspace finds none, and recovery has deleted the bad one.      *)
THEOREM RestoringNeverFails ==
    ASSUME StoresWork
    PROVE  Spec => []RestoreNeverFatal
<1>1. IInv /\ RestoreFits /\ [Next]_vars => RestoreFits'
    BY RestoreStep
<1>2. RestoreFits => RestoreNeverFatal
    BY DEF RestoreFits
<1> QED
    BY RestoreInit, <1>1, <1>2, IInvHolds, PTL DEF Spec

(* A record is replaced only by a run that was offered what it said, could  *)
(* not read it, or replaced it before.                                      *)
THEOREM RecordReadFirst == Spec => NoBlindOverwrite
<1> DEFINE FirstSave ==
        \A r \in Runs :
            pc[r] = "saving" /\ writing[r].made = 0 /\ record' # record =>
                \/ record = NoRecord
                \/ record.carry = offered[r]
                \/ offered[r] = Unread
<1>1. IInv => FirstSave
    BY DEF IInv, RecordWasOffered, BeforeItsFirstSave, Waits
<1>2. IInv /\ [Next]_vars => [FirstSave]_vars
    BY <1>1
<1> QED
    BY <1>2, IInvHolds, PTL DEF Spec, NoBlindOverwrite

(* What a run saved when it stops is its ledger as it is at that moment,    *)
(* unless Redis failed or the attempts are used up.                         *)
LastSaves ==
    \A r \in Runs :
        pc[r] = "saving" /\ pc'[r] = "ended" /\ ending'[r] # "cancelled" =>
            \/ record' = Kept(Current(r))
            \/ "redis" \in Faults /\ record' = record
            \/ writing[r].made + 1 = SAVE_ATTEMPTS

LEMMA LastSaveStep == IInv /\ [Next]_vars => [LastSaves]_vars
<1> SUFFICES ASSUME IInv, Next, NEW r \in Runs,
                    pc[r] = "saving", pc'[r] = "ended", ending'[r] # "cancelled"
             PROVE  \/ record' = Kept(Current(r))
                    \/ "redis" \in Faults /\ record' = record
                    \/ writing[r].made + 1 = SAVE_ATTEMPTS
    BY DEF LastSaves
<1> USE DEF IInv, Shaped
<1>1. ASSUME NEW q \in Runs, Step(q)
      PROVE  SaveLands(r) \/ SaveFails(r) \/ Cancel(r)
    <2>1. q = r
        BY <1>1, StepIsOne
    <2> QED
        BY <1>1, <2>1
           DEF Step, Look, LoadRecord, CannotAnnounce, Create, Recreate,
               CreateContainer, Start, Restart, Drop,
               Forget, ModelStarts, Settles, Concludes, LeavesTry, Persist, Teardown, BeginSave
<1>2. CASE SaveLands(r)
    <2>1. ~SaveAgain(r)
        BY <1>2 DEF SaveLands
    <2>2. Current(r) = writing[r].what \/ writing[r].made + 1 = SAVE_ATTEMPTS
        BY <2>1, ThreadAssumption DEF SaveAgain
    <2> QED
        BY <1>2, <2>2 DEF SaveLands
<1>3. CASE SaveFails(r)
    BY <1>3 DEF SaveFails, storeVars
<1>4. CASE Cancel(r)
    BY <1>4 DEF Cancel
<1>5. \E q \in Runs : Step(q)
    <2>1. ASSUME NEW q \in Runs, Call(q) \/ Forward(q)
          PROVE  FALSE
        BY <2>1 DEF Call, Forward, Goes
    <2>2. ~Crash
        BY DEF Crash
    <2>3. UNCHANGED pc => FALSE
        OBVIOUS
    <2> QED
        BY <2>1, <2>2, <2>3 DEF Next, Post, Expire, callVars
<1> QED
    BY <1>1, <1>2, <1>3, <1>4, <1>5

THEOREM NothingFiledBetween == Spec => NothingSlipsBy
BY LastSaveStep, IInvHolds, PTL DEF Spec, NothingSlipsBy, LastSaves

--------------------------------------------------------------------------------
(* What a run shows. *)

BlockType == [call : Execs \cup {NoCall}, outputs : SUBSET Calls, held : BOOLEAN]
Views == {Passing} \cup [fields : Seq(BlockType), thinking : BOOLEAN, footer : BOOLEAN]
Shown == [view : Views, gone : BOOLEAN]
Final == [fields |-> Newest(blocks), thinking |-> FALSE, footer |-> FALSE]

(* Calls are under way only while the run waits for them.                   *)
CallsFit ==
    /\ DOMAIN at = AllCalls /\ at = [c \in AllCalls |-> at[c]]
    /\ phase # "running" => turn = "idle"
    /\ turn # "tools" => \A c \in AllCalls : at[c] \in {"new", "done"}

(* Who waits for Discord: a call of a live run that is announced or         *)
(* reports, or the run itself while it opens or closes.                     *)
FlushesFit ==
    /\ DOMAIN flushing = Flushers /\ flushing = [f \in Flushers |-> flushing[f]]
    /\ messages \in Seq(Shown)
    /\ \A f \in Flushers : IsFlushing(f) =>
         live /\ flushing[f].to \in 0..Len(messages) /\ flushing[f].view \in Views
    /\ \A c \in Calls : IsFlushing(c) =>
         /\ phase \in {"running", "stopped", "broken"}
         /\ phase = "running" => at[c] \in {"announcing", "reporting"}
    /\ IsFlushing(Card) => phase \in {"opening", "closing"}

(* What the transcript promises of itself.                                  *)
Transcribed ==
    /\ blocks \in Seq(BlockType) /\ call_blocks \in [Execs -> 0..Len(blocks)]
    /\ \A c \in Execs : call_blocks[c] # 0 => blocks[call_blocks[c]].call = c
    /\ OutputUnderItsCommand

(* A call that is not in the transcript.                                    *)
Unseen(c) == ~HasABlock(c) /\ \A i \in DOMAIN blocks : c \notin blocks[i].outputs

(* Nor is a call before it starts; one that runs knows its block if it has  *)
(* one.                                                                     *)
CommandsHaveBlocks ==
    /\ \A c \in Execs : at[c] \in {"new", "called"} => Unseen(c)
    /\ live => \A c \in Execs :
         at[c] \in {"announcing", "working"} /\ HasABlock(c) => call_blocks[c] # 0

(* The card is made final when its run is over, once, with nobody else      *)
(* waiting to change it.                                                    *)
CardFits ==
    /\ message \in 0..Len(messages) /\ {card_finalized, settled, live} \subseteq BOOLEAN
    /\ live /\ phase \notin {"closing", "sending", "over"} => ~card_finalized /\ ~settled
    /\ card_finalized /\ IsFlushing(Card) =>
         flushing[Card].to = message /\ flushing[Card].view = Final
    /\ settled => message # 0 /\ messages[message].view = Final
                  /\ \A f \in Flushers : ~IsFlushing(f)

(* What was posted of the answer: nothing that came back while it is still  *)
(* to be posted, and nothing after a post that did.                         *)
OnlyTheLastCameBack == \A i \in DOMAIN told : i < Len(told) => ~told[i]
CameBack == told # << >> /\ told[Len(told)]

AnswerFits ==
    /\ phase \in Phases /\ {ok, lead, text, landed} \subseteq BOOLEAN /\ told \in Seq(BOOLEAN)
    /\ phase \notin {"closing", "sending", "over"} =>
         Unsent = {} /\ ~landed /\ told = << >> /\ ~lead /\ ~text
    /\ phase = "closing" => lead = text /\ ~landed /\ told = << >>
    /\ phase = "sending" =>
         /\ OnlyTheLastCameBack
         /\ lead => ~landed /\ \A i \in DOMAIN told : ~told[i]
         /\ ~lead /\ text => CameBack
    /\ AnswerIsSaidOnce

(* The times of the workspace: no file is newer than the run that put it    *)
(* there, and a run that could touch its marker is the last that did.       *)
TimesFit ==
    /\ run \in Nat /\ touched \in 0..run
    /\ \A f \in Files : disk[f].run \in 0..run /\ disk[f].time \in 0..disk[f].run
    /\ marker /\ phase \in {"running", "stopped", "collecting"} => touched = run

ShowsInv ==
    /\ CallsFit /\ FlushesFit /\ Transcribed /\ CommandsHaveBlocks
    /\ CardFits /\ AnswerFits /\ TimesFit /\ OldFilesStay

LEMMA ShowsInit == OutputInit => ShowsInv
<1> SUFFICES ASSUME OutputInit PROVE ShowsInv
    OBVIOUS
<1>1. CallsFit
    <2>1. PICK W \in Workloads : at = [c \in AllCalls |-> IF c \in W THEN "new" ELSE "done"]
        BY DEF OutputInit
    <2> QED
        BY <2>1 DEF CallsFit, OutputInit
<1>2. flushing = [f \in Flushers |-> NoFlush] /\ \A f \in Flushers : ~IsFlushing(f)
    BY DEF OutputInit, CardInit, IsFlushing, NoFlush
<1>3. FlushesFit
    <2>1. messages \in Seq(Shown)
        BY DEF OutputInit, CardInit
    <2>2. DOMAIN flushing = Flushers /\ flushing = [f \in Flushers |-> flushing[f]]
        BY <1>2, Zenon
    <2> QED
        BY <1>2, <2>1, <2>2, Zenon DEF FlushesFit, Calls, Flushers
<1>4. Transcribed /\ CommandsHaveBlocks
    BY DEF Transcribed, CommandsHaveBlocks, Unseen, HasABlock, OutputUnderItsCommand,
           OutputInit, CardInit
<1>5. CardFits
    <2>1. message = 0 /\ messages = << >> /\ card_finalized = FALSE /\ settled = FALSE /\ live = FALSE
        BY DEF OutputInit, CardInit
    <2>2. message \in 0..Len(messages)
        BY <2>1
    <2> QED
        BY <2>1, <2>2 DEF CardFits
<1>6. Unsent = {}
    BY DEF OutputInit, Unsent
<1>7. AnswerFits /\ OldFilesStay
    <2>1. /\ phase = "idle" /\ ok = FALSE /\ lead = FALSE /\ text = FALSE /\ landed = FALSE
          /\ told = << >> /\ marker = FALSE
        BY DEF OutputInit
    <2>2. told \in Seq(BOOLEAN)
        BY <2>1
    <2> QED
        BY <1>6, <2>1, <2>2, Zenon DEF AnswerFits, AnswerIsSaidOnce, OldFilesStay, Phases
<1>8. TimesFit
    BY DEF TimesFit, OutputInit, NoFile
<1> QED
    BY <1>1, <1>3, <1>4, <1>5, <1>7, <1>8 DEF ShowsInv

(* What a hook of a tool call does to the card besides its transcript: it   *)
(* may begin an update of its own.                                          *)
Begins(c) ==
    \/ flushing' = flushing
    \/ flushing' = [flushing EXCEPT ![c] = [on |-> TRUE, to |-> message, view |-> Passing]]

LEMMA HookStep ==
    ASSUME NEW c \in Calls, ~card_finalized,
           ToolStarts(c) \/ ToolEnds(c) \/ ToolIsRefused(c)
    PROVE  /\ UNCHANGED <<message, messages, settled, card_finalized>>
           /\ Begins(c)
<1>1. UNCHANGED <<message, messages, settled, card_finalized>> /\ MaybeFlush(c)
    BY DEF ToolStarts, ToolEnds, ToolIsRefused
<1> QED
    BY <1>1 DEF MaybeFlush, Flush, Begins

(* The steps of the run itself, and of its calls.                           *)
LEMMA CallsStep ==
    ASSUME ShowsInv, [OutputNext]_outputVars
    PROVE  CallsFit'
<1> USE DEF ShowsInv, CallsFit
<1>1. CASE UNCHANGED <<at, turn>> /\ (phase' # "running" => turn = "idle")
    BY <1>1
<1>2. ASSUME NEW is_live \in BOOLEAN, Open(is_live) PROVE CallsFit'
    BY <1>2 DEF Open
<1>3. CASE Opened \/ CannotPrepare \/ Stopped \/ CollectsNothing \/ Closed \/ Ends
    BY <1>3 DEF Opened, CannotPrepare, Stopped, CollectsNothing, Closed, Ends, toolVars, Cancelling
<1>4. ASSUME NEW restored \in BOOLEAN, NEW out_dir \in BOOLEAN, NEW touch \in BOOLEAN,
             NEW inputs_written \in SUBSET inputs,
             Prepare(restored, out_dir, touch, inputs_written)
      PROVE  CallsFit'
    BY <1>4 DEF Prepare, toolVars
<1>5. CASE ModelIsCalled \/ ToolsAreDone \/ \E over \in BOOLEAN : Finishes(over)
    BY <1>5 DEF ModelIsCalled, ToolsAreDone, Finishes, toolVars
<1>6. ASSUME NEW S \in SUBSET AllCalls, ModelAnswers(S) PROVE CallsFit'
    BY <1>6 DEF ModelAnswers
<1>7. ASSUME NEW c \in AllCalls, CallStarts(c) \/ CommandRuns(c) \/ CommandSaysNothing(c) \/ IsRefused(c)
      PROVE  CallsFit'
    BY <1>7 DEF CallStarts, CommandRuns, CommandSaysNothing, IsRefused, GoesOn, runVars
<1>8. ASSUME NEW c \in Attaches, AttachRecords(c) \/ \E f \in Files : AttachChecks(c, f) \/ Removes(c, f)
      PROVE  CallsFit'
    <2>1. c \in AllCalls /\ phase = "running" /\ at[c] \in {"called", "checking"} /\ UNCHANGED runVars
        BY <1>8 DEF AttachRecords, AttachChecks, Removes, AllCalls
    <2>2. \E to \in {"checking", "done"} : at' = [at EXCEPT ![c] = to]
        BY <1>8 DEF AttachRecords, AttachChecks, Removes
    <2> QED
        BY <2>1, <2>2 DEF runVars
<1>9. ASSUME NEW how \in {"stopped", "broken"}, Stops(how) PROVE CallsFit'
    BY <1>9 DEF Stops
<1>10. ASSUME NEW f \in Flushers, Discord(f) PROVE CallsFit'
    <2>1. CASE f \in Calls
        <3>1. at' = [at EXCEPT ![f] = After(at[f])] /\ UNCHANGED <<phase, turn>> /\ IsFlushing(f)
            BY <1>10, <2>1 DEF Discord, runVars, FlushLands, FlushFindsNothing, FlushFails
        <3>2. turn = "tools"
            BY <1>10, <2>1, <3>1 DEF FlushesFit, AllCalls, Discord, Cancelling
        <3> QED
            BY <2>1, <3>1, <3>2 DEF AllCalls
    <2>2. CASE f \notin Calls
        BY <1>10, <2>2, <1>1 DEF Discord, runVars
    <2> QED
        BY <2>1, <2>2
<1>11. ASSUME NEW f \in Flushers, HookIsCancelled(f) PROVE CallsFit'
    BY <1>11 DEF HookIsCancelled, toolVars, runVars
<1>12. ASSUME NEW unreadable \in SUBSET Files, Collects(unreadable) PROVE CallsFit'
    BY <1>12 DEF Collects, toolVars
<1>13. ASSUME NEW sent \in BOOLEAN, SendsFile(sent) \/ SendsAnswer(sent) PROVE CallsFit'
    BY <1>13 DEF SendsFile, SendsAnswer, toolVars, runVars
<1>14. CASE SomebodyDeletes
    BY <1>14 DEF SomebodyDeletes, toolVars, runVars
<1>15. CASE UNCHANGED outputVars
    BY <1>15 DEF outputVars, toolVars, runVars
<1> QED
    BY <1>2, <1>3, <1>4, <1>5, <1>6, <1>7, <1>8, <1>9, <1>10, <1>11, <1>12, <1>13, <1>14, <1>15
    DEF OutputNext

(* What becomes of an update: it is over, and the messages are as they were *)
(* or show it.                                                              *)
LEMMA FlushIsOver ==
    ASSUME ShowsInv, NEW f \in Flushers,
           FlushLands(f) \/ FlushFindsNothing(f) \/ FlushFails(f) \/ FlushIsCancelled(f)
    PROVE  /\ IsFlushing(f) /\ flushing' = [flushing EXCEPT ![f] = NoFlush]
           /\ messages' \in Seq(Shown) /\ Len(messages') >= Len(messages)
           /\ message' \in 0..Len(messages')
           /\ UNCHANGED <<blocks, call_blocks, thinking, footer, card_finalized>>
<1> DEFINE to == flushing[f].to
           new == [view |-> flushing[f].view, gone |-> FALSE]
<1>1. IsFlushing(f) /\ flushing' = [flushing EXCEPT ![f] = NoFlush]
      /\ UNCHANGED <<blocks, call_blocks, thinking, footer, card_finalized>>
    BY DEF FlushLands, FlushFindsNothing, FlushFails, FlushIsCancelled
<1>2. to \in 0..Len(messages) /\ new \in Shown /\ messages \in Seq(Shown) /\ message \in 0..Len(messages)
    BY <1>1 DEF ShowsInv, FlushesFit, CardFits, Shown
<1>3. /\ Append(messages, new) \in Seq(Shown)
      /\ Len(Append(messages, new)) = Len(messages) + 1
    BY <1>2
<1>4. ASSUME to # 0 PROVE [messages EXCEPT ![to] = new] \in Seq(Shown)
                          /\ Len([messages EXCEPT ![to] = new]) = Len(messages)
    BY <1>2, <1>4
<1> HIDE DEF to, new
<1>5. CASE FlushLands(f)
    <2>1. messages' = (IF to = 0 THEN Append(messages, new) ELSE [messages EXCEPT ![to] = new])
          /\ message' = (IF to = 0 THEN Len(messages) + 1 ELSE message)
        BY <1>5 DEF FlushLands, to, new
    <2> QED
        BY <2>1, <1>1, <1>2, <1>3, <1>4
<1>6. CASE FlushFindsNothing(f) \/ FlushFails(f)
    <2>1. messages' = messages /\ message' \in {0, message}
        BY <1>6 DEF FlushFindsNothing, FlushFails
    <2> QED
        BY <2>1, <1>1, <1>2
<1>7. CASE FlushIsCancelled(f)
    <2>1. /\ message' = message
          /\ \/ messages' = messages
             \/ messages' = Append(messages, new)
             \/ to # 0 /\ messages' = [messages EXCEPT ![to] = new]
        BY <1>7 DEF FlushIsCancelled, to, new
    <2> QED
        BY <2>1, <1>1, <1>2, <1>3, <1>4
<1> QED
    BY <1>5, <1>6, <1>7

LEMMA FinalIsAView ==
    ASSUME blocks \in Seq(BlockType) PROVE Final \in Views
<1>1. Newest(blocks) \in Seq(BlockType)
    <2>1. Len(blocks) \in Nat /\ MAX_FIELDS \in Nat \ {0}
        BY CardAssumption
    <2>2. ASSUME NEW m \in 1..Len(blocks) + 1 PROVE SubSeq(blocks, m, Len(blocks)) \in Seq(BlockType)
        BY <2>1, <2>2, SubSeqProperties
    <2>3. (IF Len(blocks) > MAX_FIELDS THEN Len(blocks) - MAX_FIELDS + 1 ELSE 1) \in 1..Len(blocks) + 1
        BY <2>1
    <2> QED
        BY <2>2, <2>3 DEF Newest
<1> QED
    BY <1>1 DEF Final, Views

LEMMA CardEnding ==
    ASSUME ShowsInv, CardEnds
    PROVE  /\ ~card_finalized /\ card_finalized' = TRUE
           /\ flushing' = [flushing EXCEPT ![Card] = [on |-> TRUE, to |-> message, view |-> Final]]
           /\ UNCHANGED <<blocks, call_blocks, message, messages, settled>>
<1>1. /\ ~card_finalized /\ card_finalized' = TRUE /\ thinking' = FALSE /\ footer' = FALSE
      /\ UNCHANGED <<blocks, call_blocks, message, messages, settled>>
      /\ flushing' = [flushing EXCEPT ![Card] = [on |-> TRUE, to |-> message, view |-> Rendered']]
    BY DEF CardEnds, LastThought, Flush
<1>2. Rendered' = Final
    BY <1>1 DEF Rendered, Final, Newest
<1> QED
    BY <1>1, <1>2

(* Where nobody waits for Discord.                                          *)
Settling == phase \in {"idle", "preparing", "collecting", "failing", "sending", "over"}

LEMMA NobodyWaits ==
    ASSUME ShowsInv, Settling \/ (phase = "running" /\ turn # "tools")
    PROVE  \A f \in Flushers : ~IsFlushing(f)
<1>1. \A c \in Calls : phase = "running" => at[c] \in {"new", "done"} \/ turn = "tools"
    BY DEF ShowsInv, CallsFit, AllCalls
<1> QED
    BY <1>1 DEF ShowsInv, FlushesFit, Settling, Flushers

LEMMA FlushesStep ==
    ASSUME ShowsInv, [OutputNext]_outputVars
    PROVE  FlushesFit'
<1> USE DEF ShowsInv
<1>0. /\ DOMAIN flushing = Flushers /\ flushing = [f \in Flushers |-> flushing[f]]
      /\ messages \in Seq(Shown) /\ message \in 0..Len(messages)
      /\ Card \in Flushers /\ Calls \subseteq Flushers
    BY DEF FlushesFit, CardFits, Flushers
<1>1. ASSUME UNCHANGED <<flushing, messages, live>>,
             phase' \in {"stopped", "broken"} => phase \in {"running", "stopped", "broken"},
             phase' # phase /\ phase' \notin {"stopped", "broken"} =>
                 \A f \in Flushers : ~IsFlushing(f),
             phase' = "running" => \A c \in Calls : IsFlushing(c) => at'[c] = at[c]
      PROVE  FlushesFit'
    <2>1. ASSUME NEW f \in Flushers, IsFlushing(f)
          PROVE  live /\ flushing[f].to \in 0..Len(messages) /\ flushing[f].view \in Views
        BY <2>1 DEF FlushesFit
    <2>2. ASSUME NEW c \in Calls, IsFlushing(c)
          PROVE  /\ phase' \in {"running", "stopped", "broken"}
                 /\ phase' = "running" => at'[c] \in {"announcing", "reporting"}
        <3>1. phase \in {"running", "stopped", "broken"}
              /\ (phase = "running" => at[c] \in {"announcing", "reporting"})
            BY <2>2 DEF FlushesFit
        <3>2. phase' = phase \/ phase' \in {"stopped", "broken"}
            BY <1>0, <1>1, <2>2
        <3> QED
            BY <3>1, <3>2, <1>1, <2>2
    <2>3. ASSUME IsFlushing(Card) PROVE phase' \in {"opening", "closing"}
        <3>1. phase \in {"opening", "closing"}
            BY <2>3 DEF FlushesFit
        <3> QED
            BY <3>1, <1>0, <1>1, <2>3
    <2>4. \A f \in Flushers : IsFlushing(f)' <=> IsFlushing(f)
        BY <1>1 DEF IsFlushing
    <2> QED
        BY <1>0, <1>1, <2>1, <2>2, <2>3, <2>4 DEF FlushesFit
<1>2. ASSUME NEW is_live \in BOOLEAN, Open(is_live) PROVE FlushesFit'
    <2>1. \A f \in Flushers : ~IsFlushing(f)
        BY <1>2 DEF Open, FlushesFit, Flushers
    <2>2. CASE is_live = FALSE
        <3>1. flushing' = [f \in Flushers |-> NoFlush] /\ messages' = << >>
            BY <1>2, <2>2 DEF Open, CardStarts
        <3>2. \A f \in Flushers : ~IsFlushing(f)'
            BY <3>1 DEF IsFlushing, NoFlush
        <3>3. DOMAIN flushing' = Flushers /\ flushing' = [f \in Flushers |-> flushing'[f]]
            BY <3>1, Zenon
        <3>4. messages' \in Seq(Shown)
            BY <3>1
        <3> QED
            BY <1>0, <3>2, <3>3, <3>4, Zenon DEF FlushesFit
    <2>3. CASE is_live = TRUE
        <3>1. /\ flushing' = [f \in Flushers |-> IF f = Card
                       THEN [on |-> TRUE, to |-> 0, view |-> Passing] ELSE NoFlush]
              /\ messages' = << >> /\ live' = TRUE /\ phase' = "opening"
            BY <1>2, <2>3 DEF Open, CardStarts
        <3>2. \A f \in Flushers : IsFlushing(f)' => f = Card
            BY <3>1 DEF IsFlushing, NoFlush
        <3>3. flushing'[Card].to = 0 /\ flushing'[Card].view = Passing
            BY <3>1, <1>0
        <3>4. messages' \in Seq(Shown) /\ 0 \in 0..Len(messages')
            BY <3>1
        <3>5. Passing \in Views
            BY DEF Views
        <3>6. \A c \in Calls : ~IsFlushing(c)'
            <4>1. Card \notin Calls
                BY CardAssumption
            <4> QED
                BY <3>2, <4>1, <1>0
        <3>7. DOMAIN flushing' = Flushers /\ flushing' = [f \in Flushers |-> flushing'[f]]
            BY <3>1, Zenon
        <3> QED
            BY <3>1, <3>2, <3>3, <3>4, <3>5, <3>6, <3>7, Zenon DEF FlushesFit
    <2> QED
        BY <2>2, <2>3
<1>3. CASE Opened \/ CannotPrepare \/ Closed \/ Stopped \/ Ends
    <2>1. UNCHANGED <<flushing, messages, live, at>>
        BY <1>3 DEF Opened, CannotPrepare, Closed, Stopped, Ends, cardVars, toolVars
    <2>2. phase' \notin {"running", "stopped", "broken"}
        BY <1>3 DEF Opened, CannotPrepare, Closed, Stopped, Ends
    <2>3. CASE Opened \/ Closed
        <3>1. \A f \in Flushers : ~IsFlushing(f)
            BY <2>3 DEF Opened, Closed, FlushesFit, Flushers
        <3> QED
            BY <2>1, <2>2, <3>1, <1>1
    <2>4. CASE CannotPrepare \/ Stopped \/ Ends
        <3>1. \A f \in Flushers : ~IsFlushing(f)
            BY <2>4, NobodyWaits DEF CannotPrepare, Stopped, Ends, Settling
        <3> QED
            BY <2>1, <2>2, <3>1, <1>1
    <2> QED
        BY <1>3, <2>3, <2>4
<1>4. ASSUME NEW restored \in BOOLEAN, NEW out_dir \in BOOLEAN, NEW touch \in BOOLEAN,
             NEW inputs_written \in SUBSET inputs,
             Prepare(restored, out_dir, touch, inputs_written)
      PROVE  FlushesFit'
    <2>1. UNCHANGED <<flushing, messages, live, at>> /\ phase' = "running" /\ Settling
        BY <1>4 DEF Prepare, cardVars, toolVars, Settling
    <2>2. \A f \in Flushers : ~IsFlushing(f)
        BY <2>1, NobodyWaits
    <2> QED
        BY <2>1, <2>2, <1>1
<1>5. CASE ModelIsCalled \/ ToolsAreDone
    <2>1. UNCHANGED <<flushing, messages, live, at, phase>>
        BY <1>5 DEF ModelIsCalled, ToolsAreDone, toolVars, cardVars, Hook, LlmStarts
    <2> QED
        BY <2>1, <1>1, Zenon
<1>6. ASSUME NEW over \in BOOLEAN, Finishes(over) PROVE FlushesFit'
    <2>1. UNCHANGED <<flushing, messages, live, at>> /\ phase' \in {"running", "collecting"}
          /\ phase = "running" /\ turn = "model"
        BY <1>6 DEF Finishes, toolVars, cardVars, Hook, LlmEnds
    <2>2. \A f \in Flushers : ~IsFlushing(f)
        BY <2>1, NobodyWaits
    <2> QED
        BY <2>1, <2>2, <1>1
<1>7. ASSUME NEW S \in SUBSET AllCalls, ModelAnswers(S) PROVE FlushesFit'
    <2>1. UNCHANGED <<flushing, messages, live, phase>> /\ phase = "running" /\ turn = "model"
        BY <1>7 DEF ModelAnswers, cardVars, Hook, LlmEnds
    <2>2. \A f \in Flushers : ~IsFlushing(f)
        BY <2>1, NobodyWaits
    <2> QED
        BY <2>1, <2>2, <1>0, <1>1
<1>8. ASSUME NEW c \in Calls, CallStarts(c) \/ CommandRuns(c) \/ CommandSaysNothing(c) \/ IsRefused(c)
      PROVE  FlushesFit'
    <2>1. /\ phase = "running" /\ UNCHANGED <<phase, live>> /\ at[c] \in {"called", "working"}
          /\ ~IsFlushing(c)
        <3>1. phase = "running" /\ UNCHANGED <<phase, live>> /\ at[c] \in {"called", "working"}
            BY <1>8 DEF CallStarts, CommandRuns, CommandSaysNothing, IsRefused, runVars
        <3> QED
            BY <3>1 DEF FlushesFit
    <2>2. UNCHANGED cardVars \/ (live /\ (ToolStarts(c) \/ ToolEnds(c) \/ ToolIsRefused(c)))
        BY <1>8 DEF CallStarts, CommandRuns, CommandSaysNothing, IsRefused, Hook, ToolSaysNothing
    <2>3. \/ at' = [at EXCEPT ![c] = "done"] /\ UNCHANGED cardVars
          \/ \E w \in {"announcing", "reporting"}, o \in {"working", "done"} :
                at' = [at EXCEPT ![c] = IF flushing'[c].on THEN w ELSE o]
        <3>1. CASE CallStarts(c)
            BY <3>1 DEF CallStarts, GoesOn
        <3>2. CASE CommandRuns(c)
            BY <3>2 DEF CommandRuns, GoesOn
        <3>3. CASE CommandSaysNothing(c)
            BY <3>3 DEF CommandSaysNothing, Hook, ToolSaysNothing
        <3>4. CASE IsRefused(c)
            BY <3>4 DEF IsRefused, GoesOn
        <3> QED
            BY <1>8, <3>1, <3>2, <3>3, <3>4
    <2>4. CASE UNCHANGED cardVars
        <3>1. Calls \subseteq DOMAIN at /\ UNCHANGED <<flushing, messages>>
            BY <2>4 DEF CallsFit, AllCalls, cardVars
        <3>2. \A x \in Calls : x # c => at'[x] = at[x]
            BY <2>3, <3>1
        <3> QED
            BY <2>1, <3>1, <3>2, <1>1
    <2>5. CASE live /\ (ToolStarts(c) \/ ToolEnds(c) \/ ToolIsRefused(c))
        <3>1. ~card_finalized
            BY <2>1, <2>5 DEF CardFits
        <3>2. UNCHANGED <<message, messages>> /\ Begins(c)
            BY <2>5, <3>1, HookStep
        <3>3. \A x \in Calls \ {c} : at'[x] = at[x]
            <4>1. Calls \subseteq DOMAIN at
                BY DEF CallsFit, AllCalls
            <4> QED
                BY <2>3, <4>1
        <3>4. CASE flushing' = flushing
            <4>1. \A x \in Calls : IsFlushing(x) => at'[x] = at[x]
                BY <2>1, <3>3
            <4> QED
                BY <2>1, <3>2, <3>4, <4>1, <1>1
        <3>5. CASE flushing' = [flushing EXCEPT ![c] = [on |-> TRUE, to |-> message, view |-> Passing]]
            <4>1. \A x \in Flushers \ {c} : flushing'[x] = flushing[x]
                BY <3>5, <1>0
            <4>2. flushing'[c] = [on |-> TRUE, to |-> message, view |-> Passing]
                BY <3>5, <1>0
            <4>3. DOMAIN flushing' = Flushers /\ flushing' = [f \in Flushers |-> flushing'[f]]
                BY <3>5, <1>0
            <4>4. at'[c] \in {"announcing", "reporting"}
                <5>1. c \in AllCalls /\ flushing'[c].on
                    BY <4>2 DEF AllCalls
                <5>2. CASE UNCHANGED cardVars
                    BY <5>1, <5>2, <2>1 DEF cardVars, IsFlushing
                <5> QED
                    BY <5>1, <5>2, <2>3 DEF CallsFit
            <4>5. \A f \in Flushers : IsFlushing(f)' =>
                     live' /\ flushing'[f].to \in 0..Len(messages') /\ flushing'[f].view \in Views
                <5>1. ASSUME NEW f \in Flushers \ {c}, IsFlushing(f)'
                      PROVE  live' /\ flushing'[f].to \in 0..Len(messages') /\ flushing'[f].view \in Views
                    BY <5>1, <4>1, <2>1, <3>2 DEF FlushesFit, IsFlushing
                <5>2. live' /\ flushing'[c].to \in 0..Len(messages') /\ flushing'[c].view \in Views
                    BY <4>2, <2>1, <2>5, <3>2, <1>0 DEF Views
                <5> QED
                    BY <5>1, <5>2
            <4>6. \A x \in Calls : IsFlushing(x)' => at'[x] \in {"announcing", "reporting"}
                <5>1. ASSUME NEW x \in Calls \ {c}, IsFlushing(x)' PROVE at'[x] \in {"announcing", "reporting"}
                    <6>1. IsFlushing(x)
                        BY <5>1, <4>1, <1>0 DEF IsFlushing
                    <6> QED
                        BY <5>1, <6>1, <3>3, <2>1 DEF FlushesFit
                <5> QED
                    BY <5>1, <4>4
            <4>7. ~IsFlushing(Card)'
                <5>1. Card # c /\ ~IsFlushing(Card)
                    BY <2>1, CardAssumption DEF FlushesFit
                <5> QED
                    BY <5>1, <4>1, <1>0 DEF IsFlushing
            <4>8. messages' \in Seq(Shown) /\ phase' = "running"
                BY <3>2, <2>1, <1>0
            <4> QED
                BY <4>3, <4>5, <4>6, <4>7, <4>8, Zenon DEF FlushesFit
        <3> QED
            BY <3>2, <3>4, <3>5 DEF Begins
    <2> QED
        BY <2>2, <2>4, <2>5
<1>9. ASSUME NEW c \in Attaches,
             IsRefused(c) \/ AttachRecords(c) \/ \E f \in Files : AttachChecks(c, f) \/ Removes(c, f)
      PROVE  FlushesFit'
    <2>1. c \notin Calls /\ Calls \subseteq DOMAIN at
        BY OutputAssumption DEF CallsFit, AllCalls
    <2>2. /\ phase = "running" /\ UNCHANGED <<phase, live, flushing, messages>>
          /\ \E to \in {"checking", "done"} : at' = [at EXCEPT ![c] = to]
        BY <1>9, <2>1 DEF IsRefused, AttachRecords, AttachChecks, Removes, runVars, cardVars, Calls
    <2>3. \A x \in Calls : at'[x] = at[x]
        BY <2>1, <2>2
    <2> QED
        BY <2>2, <2>3, <1>1
<1>10. ASSUME NEW c \in Attaches, CallStarts(c) \/ CommandRuns(c) \/ CommandSaysNothing(c)
       PROVE  FlushesFit'
    BY <1>10, OutputAssumption DEF CallStarts, CommandRuns, CommandSaysNothing, Calls
<1>11. ASSUME NEW how \in {"stopped", "broken"}, Stops(how) PROVE FlushesFit'
    <2>1. UNCHANGED <<flushing, messages, live>> /\ phase' \in {"stopped", "broken"} /\ phase = "running"
        BY <1>11 DEF Stops, cardVars
    <2> QED
        BY <2>1, <1>1
<1>12. ASSUME NEW f \in Flushers, Discord(f) \/ HookIsCancelled(f) PROVE FlushesFit'
    <2>1. FlushLands(f) \/ FlushFindsNothing(f) \/ FlushFails(f) \/ FlushIsCancelled(f)
        BY <1>12 DEF Discord, HookIsCancelled
    <2>2. /\ IsFlushing(f) /\ flushing' = [flushing EXCEPT ![f] = NoFlush]
          /\ messages' \in Seq(Shown) /\ Len(messages') >= Len(messages)
        BY <2>1, FlushIsOver
    <2>3. UNCHANGED <<phase, live>>
        BY <1>12 DEF Discord, HookIsCancelled, runVars
    <2>4. \A g \in Flushers : IsFlushing(g)' => g # f /\ IsFlushing(g) /\ flushing'[g] = flushing[g]
        BY <2>2, <1>0 DEF IsFlushing, NoFlush
    <2>5. \A c \in Calls : IsFlushing(c)' /\ phase = "running" => at'[c] = at[c]
        <3>1. Calls \subseteq DOMAIN at
            BY DEF CallsFit, AllCalls
        <3>2. ASSUME NEW c \in Calls, c # f, phase = "running" PROVE at'[c] = at[c]
            BY <1>12, <3>1, <3>2 DEF Discord, HookIsCancelled, Cancelling
        <3> QED
            BY <3>2, <2>4, <1>0
    <2>6. DOMAIN flushing' = Flushers /\ flushing' = [g \in Flushers |-> flushing'[g]]
        BY <2>2, <1>0
    <2>7. \A g \in Flushers : IsFlushing(g)' =>
             live' /\ flushing'[g].to \in 0..Len(messages') /\ flushing'[g].view \in Views
        <3>1. ASSUME NEW g \in Flushers, IsFlushing(g)'
              PROVE  live' /\ flushing'[g].to \in 0..Len(messages') /\ flushing'[g].view \in Views
            <4>1. live /\ flushing[g].to \in 0..Len(messages) /\ flushing[g].view \in Views
                BY <3>1, <2>4 DEF FlushesFit
            <4>2. Len(messages) \in Nat /\ Len(messages') \in Nat
                BY <1>0, <2>2
            <4> QED
                BY <3>1, <4>1, <4>2, <2>2, <2>3, <2>4
        <3> QED
            BY <3>1
    <2>8. \A c \in Calls : IsFlushing(c)' =>
             /\ phase' \in {"running", "stopped", "broken"}
             /\ phase' = "running" => at'[c] \in {"announcing", "reporting"}
        <3>1. ASSUME NEW c \in Calls, IsFlushing(c)'
              PROVE  /\ phase' \in {"running", "stopped", "broken"}
                     /\ phase' = "running" => at'[c] \in {"announcing", "reporting"}
            <4>1. IsFlushing(c)
                BY <3>1, <2>4, <1>0
            <4> QED
                BY <3>1, <4>1, <2>3, <2>5 DEF FlushesFit
        <3> QED
            BY <3>1
    <2>9. IsFlushing(Card)' => phase' \in {"opening", "closing"}
        BY <2>3, <2>4, <1>0 DEF FlushesFit
    <2> QED
        BY <2>2, <2>6, <2>7, <2>8, <2>9, Zenon DEF FlushesFit
<1>13. ASSUME NEW unreadable \in SUBSET Files, Collects(unreadable) \/ CollectsNothing
       PROVE  FlushesFit'
    <2>1. Settling /\ UNCHANGED live /\ phase' = "closing"
          /\ (UNCHANGED cardVars \/ (live /\ CardEnds))
        BY <1>13 DEF Collects, CollectsNothing, Settling, Hook
    <2>2. \A f \in Flushers : ~IsFlushing(f)
        BY <2>1, NobodyWaits
    <2>3. CASE UNCHANGED cardVars
        BY <2>1, <2>2, <2>3, <1>1 DEF cardVars
    <2>4. CASE live /\ CardEnds
        <3>1. /\ flushing' = [flushing EXCEPT ![Card] = [on |-> TRUE, to |-> message, view |-> Final]]
              /\ messages' = messages
            BY <2>4, CardEnding
        <3>2. Final \in Views
            BY FinalIsAView DEF Transcribed
        <3>3. \A f \in Flushers : IsFlushing(f)' => f = Card
            BY <3>1, <2>2, <1>0 DEF IsFlushing
        <3>4. flushing'[Card].to = message /\ flushing'[Card].view = Final
            BY <3>1, <1>0
        <3>5. \A c \in Calls : ~IsFlushing(c)'
            BY <3>3, CardAssumption, <1>0
        <3>6. DOMAIN flushing' = Flushers /\ flushing' = [f \in Flushers |-> flushing'[f]]
            BY <3>1, <1>0
        <3> QED
            BY <1>0, <2>1, <2>4, <3>1, <3>2, <3>3, <3>4, <3>5, <3>6, Zenon DEF FlushesFit
    <2> QED
        BY <2>1, <2>3, <2>4
<1>14. ASSUME NEW sent \in BOOLEAN, SendsFile(sent) \/ SendsAnswer(sent) PROVE FlushesFit'
    <2>1. Settling /\ UNCHANGED <<flushing, messages, live>>
          /\ phase' \notin {"running", "stopped", "broken"}
        BY <1>14 DEF SendsFile, SendsAnswer, Settling, cardVars, runVars
    <2>2. \A f \in Flushers : ~IsFlushing(f)
        BY <2>1, NobodyWaits
    <2> QED
        BY <2>1, <2>2, <1>1
<1>15. CASE SomebodyDeletes
    <2>1. UNCHANGED <<flushing, live, phase, at>> /\ message # 0
          /\ messages' = [messages EXCEPT ![message].gone = TRUE]
        BY <1>15 DEF SomebodyDeletes, DeletesTheMessage, runVars, toolVars
    <2>2. messages' \in Seq(Shown) /\ Len(messages') = Len(messages)
        <3>1. message \in 1..Len(messages) /\ messages[message] \in Shown
            BY <2>1, <1>0
        <3>2. [messages[message] EXCEPT !.gone = TRUE] \in Shown
            BY <3>1 DEF Shown
        <3>3. messages' = [messages EXCEPT ![message] = [messages[message] EXCEPT !.gone = TRUE]]
            BY <2>1
        <3> QED
            BY <3>1, <3>2, <3>3, <1>0
    <2> QED
        BY <2>1, <2>2 DEF FlushesFit, IsFlushing
<1>16. CASE UNCHANGED outputVars
    <2>1. UNCHANGED <<flushing, messages, live, phase, at>>
        BY <1>16 DEF outputVars, cardVars, runVars, toolVars
    <2> QED
        BY <2>1, <1>1, Zenon
<1> QED
    <2>1. \A c \in AllCalls : c \in Calls \/ c \in Attaches
        BY DEF AllCalls
    <2>2. \E unreadable \in SUBSET Files : TRUE
        OBVIOUS
    <2> QED
        BY <2>1, <2>2, <1>2, <1>3, <1>4, <1>5, <1>6, <1>7, <1>8, <1>9, <1>10, <1>11, <1>12,
           <1>13, <1>14, <1>15, <1>16
        DEF OutputNext

(* Output of x may be shown in a block of owner.                            *)
HasItsPlace(x, owner) == owner = x \/ ~HasABlock(x)

LEMMA WithABlockFits ==
    ASSUME Transcribed
    PROVE  /\ WithABlock \in Seq(BlockType)
           /\ Len(WithABlock) \in Nat \ {0} /\ Len(WithABlock) >= Len(blocks)
           /\ \A i \in 1..Len(blocks) : WithABlock[i] = blocks[i]
           /\ \A i \in 1..Len(WithABlock) : \A x \in WithABlock[i].outputs \cap Execs :
                HasItsPlace(x, WithABlock[i].call) /\ ~Unseen(x)
           /\ \A x \in Execs : HasABlock(x) <=> \E i \in 1..Len(WithABlock) : WithABlock[i].call = x
<1>1. CASE blocks = << >>
    <2>1. Block(NoCall) \in BlockType
        BY DEF Block, BlockType
    <2>2. WithABlock = <<Block(NoCall)>>
        BY <1>1 DEF WithABlock
    <2>3. Block(NoCall).outputs = {} /\ Block(NoCall).call = NoCall
        BY DEF Block
    <2>4. NoCall \notin Execs /\ \A x : ~HasABlock(x)
        BY <1>1, CardAssumption DEF HasABlock, Calls
    <2> QED
        BY <1>1, <2>1, <2>2, <2>3, <2>4
<1>2. CASE blocks # << >>
    <2>1. WithABlock = blocks /\ blocks \in Seq(BlockType) /\ Len(blocks) \in Nat \ {0}
        BY <1>2 DEF WithABlock, Transcribed
    <2> QED
        BY <2>1 DEF Transcribed, OutputUnderItsCommand, HasItsPlace, HasABlock, Unseen
<1> QED
    BY <1>1, <1>2

(* A block changes, and stays that of its command.                          *)
LEMMA BlockChanges ==
    ASSUME Transcribed, NEW n \in 1..Len(WithABlock), NEW b \in BlockType, NEW c \in Calls,
           b.call = WithABlock[n].call, b.outputs \subseteq WithABlock[n].outputs \cup {c},
           \A x \in b.outputs \cap Execs : HasItsPlace(x, b.call),
           blocks' = [WithABlock EXCEPT ![n] = b],
           call_blocks' = call_blocks \/ HasReported(c)
    PROVE  /\ Transcribed'
           /\ \A x \in Execs : HasABlock(x)' <=> HasABlock(x)
           /\ \A x \in Execs \ {c} : Unseen(x) => Unseen(x)'
<1>1. /\ WithABlock \in Seq(BlockType)
      /\ Len(WithABlock) \in Nat \ {0} /\ Len(WithABlock) >= Len(blocks) /\ Len(blocks) \in Nat
      /\ \A i \in 1..Len(blocks) : WithABlock[i] = blocks[i]
      /\ \A i \in 1..Len(WithABlock) : \A x \in WithABlock[i].outputs \cap Execs :
           HasItsPlace(x, WithABlock[i].call) /\ ~Unseen(x)
      /\ \A x \in Execs : HasABlock(x) <=> \E i \in 1..Len(WithABlock) : WithABlock[i].call = x
    BY WithABlockFits DEF Transcribed
<1>2. /\ blocks' \in Seq(BlockType) /\ Len(blocks') = Len(WithABlock)
      /\ \A i \in 1..Len(WithABlock) : blocks'[i] = IF i = n THEN b ELSE WithABlock[i]
      /\ DOMAIN blocks' = 1..Len(WithABlock)
    BY <1>1
<1>3. call_blocks' \in [Execs -> 0..Len(blocks)]
      /\ \A x \in Execs : call_blocks'[x] \in {0, call_blocks[x]}
    BY DEF HasReported, Transcribed
<1>4. ASSUME NEW x \in Execs, call_blocks'[x] # 0 PROVE blocks'[call_blocks'[x]].call = x
    <2>1. call_blocks'[x] = call_blocks[x] /\ call_blocks[x] \in 1..Len(blocks)
          /\ blocks[call_blocks[x]].call = x
        BY <1>3, <1>4 DEF Transcribed
    <2> QED
        BY <1>1, <1>2, <2>1
<1>5. \A i \in 1..Len(WithABlock) : blocks'[i].call = WithABlock[i].call
    BY <1>2
<1>6. \A x \in Execs : HasABlock(x)' <=> HasABlock(x)
    BY <1>1, <1>2, <1>5 DEF HasABlock
<1>7. OutputUnderItsCommand'
    <2>1. \A i \in 1..Len(WithABlock) : \A x \in blocks'[i].outputs \cap Execs :
              HasItsPlace(x, blocks'[i].call)
        BY <1>1, <1>2
    <2> QED
        BY <1>2, <1>6, <2>1 DEF OutputUnderItsCommand, HasItsPlace
<1>8. ASSUME NEW x \in Execs \ {c}, Unseen(x) PROVE Unseen(x)'
    <2>1. ~HasABlock(x)'
        BY <1>6, <1>8 DEF Unseen
    <2>2. \A i \in 1..Len(WithABlock) : x \notin WithABlock[i].outputs
        BY <1>1, <1>8
    <2>3. \A i \in 1..Len(WithABlock) : x \notin blocks'[i].outputs
        BY <1>2, <1>8, <2>2
    <2> QED
        BY <1>2, <2>1, <2>3 DEF Unseen
<1> QED
    <2>1. call_blocks' \in [Execs -> 0..Len(blocks')]
        BY <1>1, <1>2, <1>3
    <2> QED
        BY <1>2, <1>4, <1>6, <1>7, <1>8, <2>1 DEF Transcribed

(* A new block at the end: that of a command, or of no call.                *)
LEMMA BlockIsAdded ==
    ASSUME Transcribed, NEW owner \in Execs \cup {NoCall}, owner \in Execs => Unseen(owner),
           blocks' = Append(blocks, Block(owner)),
           call_blocks' = IF owner \in Execs
                          THEN [call_blocks EXCEPT ![owner] = Len(blocks) + 1] ELSE call_blocks
    PROVE  /\ Transcribed'
           /\ \A x \in Execs : HasABlock(x)' <=> HasABlock(x) \/ x = owner
           /\ \A x \in Execs \ {owner} : Unseen(x) => Unseen(x)'
<1>1. Block(owner) \in BlockType /\ Block(owner).outputs = {} /\ Block(owner).call = owner
    BY DEF Block, BlockType
<1>2. blocks \in Seq(BlockType) /\ Len(blocks) \in Nat /\ call_blocks \in [Execs -> 0..Len(blocks)]
    BY DEF Transcribed
<1>3. /\ blocks' \in Seq(BlockType) /\ Len(blocks') = Len(blocks) + 1
      /\ \A i \in 1..Len(blocks) : blocks'[i] = blocks[i]
      /\ blocks'[Len(blocks) + 1] = Block(owner)
      /\ DOMAIN blocks' = 1..Len(blocks) + 1 /\ DOMAIN blocks = 1..Len(blocks)
    BY <1>1, <1>2
<1>4. NoCall \notin Execs
    BY CardAssumption DEF Calls
<1>5. /\ call_blocks' \in [Execs -> 0..Len(blocks')]
      /\ \A x \in Execs : call_blocks'[x] = IF x = owner THEN Len(blocks) + 1 ELSE call_blocks[x]
    BY <1>2, <1>3, <1>4
<1>6. ASSUME NEW x \in Execs, call_blocks'[x] # 0 PROVE blocks'[call_blocks'[x]].call = x
    <2>1. CASE x = owner
        BY <2>1, <1>1, <1>3, <1>5
    <2>2. CASE x # owner
        <3>1. call_blocks'[x] = call_blocks[x] /\ call_blocks[x] \in 1..Len(blocks)
            BY <1>2, <1>5, <1>6, <2>2
        <3> QED
            BY <3>1, <1>3 DEF Transcribed
    <2> QED
        BY <2>1, <2>2
<1>7. \A x \in Execs : HasABlock(x)' <=> HasABlock(x) \/ x = owner
    BY <1>1, <1>2, <1>3 DEF HasABlock
<1>8. \A x \in Execs : (\A i \in DOMAIN blocks : x \notin blocks[i].outputs)
                        => \A i \in DOMAIN blocks' : x \notin blocks'[i].outputs
    BY <1>1, <1>2, <1>3
<1>9. OutputUnderItsCommand'
    <2>1. ASSUME NEW i \in DOMAIN blocks', NEW x \in blocks'[i].outputs \cap Execs
          PROVE  blocks'[i].call = x \/ ~HasABlock(x)'
        <3>1. i \in 1..Len(blocks)
            BY <2>1, <1>1, <1>2, <1>3
        <3>2. x \in blocks[i].outputs \cap Execs /\ x # owner
            BY <2>1, <3>1, <1>3 DEF Unseen
        <3>3. blocks[i].call = x \/ ~HasABlock(x)
            BY <3>1, <3>2, <1>3 DEF Transcribed, OutputUnderItsCommand
        <3> QED
            BY <3>1, <3>2, <3>3, <1>3, <1>7
    <2> QED
        BY <2>1 DEF OutputUnderItsCommand
<1> QED
    BY <1>3, <1>5, <1>6, <1>7, <1>8, <1>9 DEF Transcribed, Unseen

LEMMA CommandGetsABlock ==
    ASSUME Transcribed, NEW c \in Calls, c \in Execs => Unseen(c), ToolStarts(c)
    PROVE  /\ Transcribed'
           /\ c \in Execs /\ HasABlock(c)' => call_blocks'[c] # 0
           /\ \A x \in Execs \ {c} : /\ Unseen(x) => Unseen(x)'
                                     /\ HasABlock(x)' <=> HasABlock(x)
                                     /\ call_blocks'[x] = call_blocks[x]
<1>0. NoCall \notin Execs /\ call_blocks \in [Execs -> 0..Len(blocks)] /\ Len(blocks) \in Nat
    BY CardAssumption DEF Calls, Transcribed
<1>1. CASE c \in Execs /\ blocks' = Append(blocks, Block(c))
           /\ call_blocks' = [call_blocks EXCEPT ![c] = Len(blocks) + 1]
    <2>1. /\ Transcribed'
          /\ \A x \in Execs : HasABlock(x)' <=> HasABlock(x) \/ x = c
          /\ \A x \in Execs \ {c} : Unseen(x) => Unseen(x)'
        BY <1>1, BlockIsAdded
    <2> QED
        BY <1>0, <1>1, <2>1
<1>2. CASE c \in Execs /\ blocks' = Append(blocks, Block(NoCall)) /\ call_blocks' = call_blocks
    <2>1. /\ Transcribed'
          /\ \A x \in Execs : HasABlock(x)' <=> HasABlock(x) \/ x = NoCall
          /\ \A x \in Execs \ {NoCall} : Unseen(x) => Unseen(x)'
        BY <1>0, <1>2, BlockIsAdded
    <2> QED
        BY <1>0, <1>2, <2>1 DEF Unseen
<1>3. CASE c \notin Execs /\ blocks' = WithABlock /\ call_blocks' = call_blocks
    <2> DEFINE last == Len(WithABlock)
    <2>2. last \in 1..Len(WithABlock) /\ WithABlock \in Seq(BlockType)
        BY WithABlockFits
    <2>3. blocks' = [WithABlock EXCEPT ![last] = WithABlock[last]]
        BY <1>3, <2>2
    <2>4. /\ WithABlock[last] \in BlockType
          /\ \A x \in WithABlock[last].outputs \cap Execs : HasItsPlace(x, WithABlock[last].call)
        BY <2>2, WithABlockFits
    <2> HIDE DEF last
    <2>5. /\ Transcribed'
          /\ \A x \in Execs : HasABlock(x)' <=> HasABlock(x)
          /\ \A x \in Execs \ {c} : Unseen(x) => Unseen(x)'
        BY <1>3, <2>2, <2>3, <2>4, BlockChanges
    <2> QED
        BY <1>3, <2>5
<1>4. CASE UNCHANGED <<blocks, call_blocks>>
    BY <1>4 DEF Transcribed, OutputUnderItsCommand, Unseen, HasABlock
<1>5. c \in Polls => c \notin Execs
    BY CardAssumption
<1> QED
    BY <1>1, <1>2, <1>3, <1>4, <1>5 DEF ToolStarts

LEMMA OutputGoesToItsBlock ==
    ASSUME Transcribed, NEW c \in Calls, c \in Execs /\ HasABlock(c) => call_blocks[c] # 0,
           ToolEnds(c) \/ ToolIsRefused(c)
    PROVE  /\ Transcribed'
           /\ \A x \in Execs \ {c} : /\ Unseen(x) => Unseen(x)'
                                     /\ HasABlock(x)' <=> HasABlock(x)
                                     /\ call_blocks'[x] = call_blocks[x]
<1> DEFINE n == BlockOf(c)
<1>1. n \in 1..Len(WithABlock) /\ (c \in Execs => HasItsPlace(c, WithABlock[n].call))
    <2>1. CASE c \in Execs /\ call_blocks[c] # 0
        <3>1. n = call_blocks[c] /\ n \in 1..Len(blocks) /\ blocks[n].call = c
            BY <2>1 DEF BlockOf, Transcribed
        <3> QED
            BY <3>1, WithABlockFits DEF Transcribed, HasItsPlace
    <2>2. CASE ~(c \in Execs /\ call_blocks[c] # 0)
        BY <2>2, WithABlockFits DEF BlockOf, HasItsPlace
    <2> QED
        BY <2>1, <2>2
<1>2. /\ WithABlock[n] \in BlockType
      /\ \A x \in WithABlock[n].outputs \cap Execs : HasItsPlace(x, WithABlock[n].call)
    BY <1>1, WithABlockFits
<1> HIDE DEF n
<1>3. HasReported(c) /\ \A x \in Execs \ {c} : call_blocks'[x] = call_blocks[x]
    BY DEF ToolEnds, ToolIsRefused, HasReported
<1>4. CASE ToolEnds(c) /\ blocks' # blocks
    <2> DEFINE b == WithOutput(WithABlock[n], c)
    <2>1. b \in BlockType /\ b.call = WithABlock[n].call /\ b.outputs = WithABlock[n].outputs \cup {c}
        BY <1>2 DEF WithOutput, BlockType
    <2>2. \A x \in b.outputs \cap Execs : HasItsPlace(x, b.call)
        BY <2>1, <1>1, <1>2
    <2>3. blocks' = [WithABlock EXCEPT ![n] = b]
        BY <1>4 DEF ToolEnds, n
    <2> HIDE DEF b
    <2> QED
        BY <1>1, <1>3, <2>1, <2>2, <2>3, BlockChanges
<1>5. CASE ToolIsRefused(c)
    <2> DEFINE b == Held(WithABlock[n])
    <2>1. b \in BlockType /\ b.call = WithABlock[n].call /\ b.outputs = WithABlock[n].outputs
        BY <1>2 DEF Held, BlockType
    <2>2. \A x \in b.outputs \cap Execs : HasItsPlace(x, b.call)
        BY <2>1, <1>2
    <2>3. blocks' = [WithABlock EXCEPT ![n] = b]
        BY <1>5 DEF ToolIsRefused, n
    <2> HIDE DEF b
    <2> QED
        BY <1>1, <1>3, <2>1, <2>2, <2>3, BlockChanges
<1>6. CASE blocks' = blocks
    <2>1. call_blocks' \in [Execs -> 0..Len(blocks)]
          /\ \A x \in Execs : call_blocks'[x] \in {0, call_blocks[x]}
        BY <1>3 DEF HasReported, Transcribed
    <2> QED
        BY <1>3, <1>6, <2>1 DEF Transcribed, OutputUnderItsCommand, Unseen, HasABlock
<1> QED
    BY <1>4, <1>5, <1>6

LEMMA TranscriptStep ==
    ASSUME ShowsInv, [OutputNext]_outputVars
    PROVE  Transcribed' /\ CommandsHaveBlocks'
<1> USE DEF ShowsInv
<1>0. Calls \subseteq DOMAIN at /\ Execs \subseteq Calls /\ Execs \cap Attaches = {}
    BY OutputAssumption DEF CallsFit, AllCalls, Calls
<1>1. ASSUME UNCHANGED <<blocks, call_blocks, live>>,
             \A c \in Execs :
                /\ at'[c] \in {"announcing", "working"} => at[c] \in {"announcing", "working"}
                /\ at'[c] \in {"new", "called"} => at[c] \in {"new", "called"}
      PROVE  Transcribed' /\ CommandsHaveBlocks'
    BY <1>1 DEF Transcribed, CommandsHaveBlocks, Unseen, HasABlock, OutputUnderItsCommand
<1>2. ASSUME NEW is_live \in BOOLEAN, Open(is_live) PROVE Transcribed' /\ CommandsHaveBlocks'
    <2>1. UNCHANGED at /\ \A c \in Execs : at[c] \notin {"announcing", "working"}
        BY <1>2, <1>0 DEF Open, CallsFit, AllCalls
    <2>2. blocks' = << >> /\ call_blocks' = [c \in Execs |-> 0]
        BY <1>2 DEF Open, CardStarts
    <2>3. Transcribed'
        BY <2>2 DEF Transcribed, OutputUnderItsCommand
    <2> QED
        BY <2>1, <2>2, <2>3 DEF CommandsHaveBlocks, Unseen, HasABlock
<1>3. CASE Opened \/ CannotPrepare \/ Closed \/ Stopped \/ Ends \/ ToolsAreDone
    <2>1. UNCHANGED <<blocks, call_blocks, live, at>>
        BY <1>3 DEF Opened, CannotPrepare, Closed, Stopped, Ends, ToolsAreDone, cardVars, toolVars
    <2> QED
        BY <2>1, <1>1
<1>4. ASSUME NEW restored \in BOOLEAN, NEW out_dir \in BOOLEAN, NEW touch \in BOOLEAN,
             NEW inputs_written \in SUBSET inputs,
             Prepare(restored, out_dir, touch, inputs_written)
      PROVE  Transcribed' /\ CommandsHaveBlocks'
    BY <1>4, <1>1 DEF Prepare, cardVars, toolVars
<1>5. CASE ModelIsCalled \/ \E over \in BOOLEAN : Finishes(over)
    <2>1. UNCHANGED <<blocks, call_blocks, live, at>>
        BY <1>5 DEF ModelIsCalled, Finishes, Hook, LlmStarts, LlmEnds, cardVars, toolVars
    <2> QED
        BY <2>1, <1>1
<1>6. ASSUME NEW S \in SUBSET AllCalls, ModelAnswers(S) PROVE Transcribed' /\ CommandsHaveBlocks'
    <2>1. UNCHANGED <<blocks, call_blocks, live>>
          /\ at' = [c \in AllCalls |-> IF c \in S THEN "called" ELSE at[c]]
        BY <1>6 DEF ModelAnswers, Hook, LlmEnds, cardVars
    <2>2. \A c \in Execs : at'[c] = IF c \in S THEN "called" ELSE at[c]
        BY <2>1, <1>0 DEF AllCalls
    <2>3. \A c \in S : at[c] = "new"
        BY <1>6 DEF ModelAnswers
    <2> QED
        BY <2>1, <2>2, <2>3, <1>1
<1>7. ASSUME NEW c \in Calls, CallStarts(c) \/ CommandRuns(c) \/ CommandSaysNothing(c) \/ IsRefused(c)
      PROVE  Transcribed' /\ CommandsHaveBlocks'
    <2>1. /\ UNCHANGED live /\ \A x \in Execs : x # c => at'[x] = at[x]
          /\ at[c] \in {"called", "working"}
          /\ at'[c] \in {"announcing", "working", "reporting", "done"}
        BY <1>7, <1>0 DEF CallStarts, CommandRuns, CommandSaysNothing, IsRefused, GoesOn, runVars
    <2>2. CASE ~live
        <3>1. UNCHANGED cardVars
            BY <1>7, <2>2 DEF CallStarts, CommandRuns, CommandSaysNothing, IsRefused, Hook
        <3>2. UNCHANGED <<blocks, call_blocks>>
            BY <3>1 DEF cardVars
        <3>3. Transcribed'
            BY <3>2 DEF Transcribed, OutputUnderItsCommand, HasABlock
        <3>4. \A x \in Execs : at'[x] \in {"new", "called"} => Unseen(x)'
            BY <2>1, <3>2 DEF CommandsHaveBlocks, Unseen, HasABlock
        <3> QED
            BY <2>1, <2>2, <3>3, <3>4 DEF CommandsHaveBlocks
    <2>3. CASE live /\ CallStarts(c)
        <3>1. ToolStarts(c) /\ (c \in Execs => Unseen(c))
            BY <2>3, <1>0 DEF CallStarts, Hook, CommandsHaveBlocks
        <3>2. /\ Transcribed'
              /\ c \in Execs /\ HasABlock(c)' => call_blocks'[c] # 0
              /\ \A x \in Execs \ {c} : /\ Unseen(x) => Unseen(x)'
                                        /\ HasABlock(x)' <=> HasABlock(x)
                                        /\ call_blocks'[x] = call_blocks[x]
            BY <3>1, CommandGetsABlock
        <3> QED
            BY <2>1, <2>3, <3>2 DEF CommandsHaveBlocks
    <2>4. CASE live /\ (CommandRuns(c) \/ (IsRefused(c) /\ c \in Execs))
        <3>1. /\ ToolEnds(c) \/ ToolIsRefused(c)
              /\ c \in Execs => at[c] = "working"
              /\ at' = [at EXCEPT ![c] = IF flushing'[c].on THEN "reporting" ELSE "done"]
            BY <2>4, <1>0 DEF CommandRuns, IsRefused, Hook, GoesOn
        <3>2. c \in Execs /\ HasABlock(c) => call_blocks[c] # 0
            BY <2>4, <3>1 DEF CommandsHaveBlocks
        <3>3. /\ Transcribed'
              /\ \A x \in Execs \ {c} : /\ Unseen(x) => Unseen(x)'
                                        /\ HasABlock(x)' <=> HasABlock(x)
                                        /\ call_blocks'[x] = call_blocks[x]
            BY <3>1, <3>2, OutputGoesToItsBlock
        <3>4. at'[c] \in {"reporting", "done"}
            BY <3>1, <1>0
        <3> QED
            BY <2>1, <2>4, <3>3, <3>4 DEF CommandsHaveBlocks
    <2>5. CASE live /\ CommandSaysNothing(c)
        <3>1. UNCHANGED <<blocks, call_blocks>> /\ c \notin Execs
            BY <2>5, CardAssumption DEF CommandSaysNothing, Hook, ToolSaysNothing, cardVars
        <3>2. \A x \in Execs : at'[x] = at[x]
            BY <2>1, <3>1
        <3> QED
            BY <2>1, <3>1, <3>2, <1>1
    <2>6. IsRefused(c) => c \in Execs
        BY OutputAssumption DEF IsRefused
    <2> QED
        BY <1>7, <2>2, <2>3, <2>4, <2>5, <2>6
<1>8. ASSUME NEW c \in Attaches,
             IsRefused(c) \/ AttachRecords(c) \/ \E f \in Files : AttachChecks(c, f) \/ Removes(c, f)
      PROVE  Transcribed' /\ CommandsHaveBlocks'
    <2>1. /\ UNCHANGED <<live, blocks, call_blocks>>
          /\ \E to \in {"checking", "done"} : at' = [at EXCEPT ![c] = to]
        BY <1>8, <1>0 DEF IsRefused, AttachRecords, AttachChecks, Removes, runVars, cardVars
    <2>2. \A x \in Execs : at'[x] = at[x]
        BY <2>1, <1>0
    <2> QED
        BY <2>1, <2>2, <1>1
<1>9. ASSUME NEW c \in Attaches, CallStarts(c) \/ CommandRuns(c) \/ CommandSaysNothing(c)
      PROVE  FALSE
    BY <1>9, OutputAssumption DEF CallStarts, CommandRuns, CommandSaysNothing, Calls
<1>10. ASSUME NEW how \in {"stopped", "broken"}, Stops(how) PROVE Transcribed' /\ CommandsHaveBlocks'
    <2>1. UNCHANGED <<live, blocks, call_blocks>>
          /\ at' = [c \in AllCalls |-> IF at[c] = "new" THEN "new" ELSE "done"]
        BY <1>10 DEF Stops, cardVars
    <2>2. \A x \in Execs : at'[x] = IF at[x] = "new" THEN "new" ELSE "done"
        BY <2>1, <1>0 DEF AllCalls
    <2> QED
        BY <2>1, <2>2, <1>1
<1>11. ASSUME NEW f \in Flushers, Discord(f) \/ HookIsCancelled(f) PROVE Transcribed' /\ CommandsHaveBlocks'
    <2>1. FlushLands(f) \/ FlushFindsNothing(f) \/ FlushFails(f) \/ FlushIsCancelled(f)
        BY <1>11 DEF Discord, HookIsCancelled
    <2>2. UNCHANGED <<blocks, call_blocks, live>>
        BY <1>11, <2>1, FlushIsOver DEF Discord, HookIsCancelled, runVars
    <2>3. CASE at' = at
        BY <2>2, <2>3, <1>1
    <2>4. CASE f \in Calls /\ at' = [at EXCEPT ![f] = After(at[f])] /\ Discord(f)
        <3>1. IsFlushing(f)
            BY <2>1, FlushIsOver
        <3>2. at[f] \in {"announcing", "reporting"}
            BY <2>4, <3>1 DEF FlushesFit, Discord, Cancelling
        <3>3. \A x \in Execs : /\ at'[x] \in {"announcing", "working"} => at[x] \in {"announcing", "working"}
                               /\ at'[x] \in {"new", "called"} => at[x] \in {"new", "called"}
            BY <2>4, <3>2, <1>0 DEF After
        <3> QED
            BY <2>2, <3>3, <1>1
    <2> QED
        BY <1>11, <2>3, <2>4 DEF Discord, HookIsCancelled, toolVars
<1>12. ASSUME NEW unreadable \in SUBSET Files, Collects(unreadable) \/ CollectsNothing
       PROVE  Transcribed' /\ CommandsHaveBlocks'
    <2>1. UNCHANGED <<blocks, call_blocks, live, at>>
        BY <1>12 DEF Collects, CollectsNothing, Hook, CardEnds, cardVars, toolVars
    <2> QED
        BY <2>1, <1>1
<1>13. ASSUME NEW sent \in BOOLEAN, SendsFile(sent) \/ SendsAnswer(sent)
       PROVE  Transcribed' /\ CommandsHaveBlocks'
    <2>1. UNCHANGED <<blocks, call_blocks, live, at>>
        BY <1>13 DEF SendsFile, SendsAnswer, cardVars, toolVars, runVars
    <2> QED
        BY <2>1, <1>1
<1>14. CASE SomebodyDeletes \/ UNCHANGED outputVars
    <2>1. UNCHANGED <<blocks, call_blocks, live, at>>
        BY <1>14 DEF SomebodyDeletes, DeletesTheMessage, outputVars, cardVars, toolVars, runVars
    <2> QED
        BY <2>1, <1>1
<1> QED
    <2>1. \A c \in AllCalls : c \in Calls \/ c \in Attaches
        BY DEF AllCalls
    <2>2. {} \in SUBSET Files
        OBVIOUS
    <2> QED
        BY <2>1, <2>2, <1>2, <1>3, <1>4, <1>5, <1>6, <1>7, <1>8, <1>9, <1>10, <1>11, <1>12,
           <1>13, <1>14
        DEF OutputNext

LEMMA CardStep ==
    ASSUME ShowsInv, [OutputNext]_outputVars
    PROVE  CardFits'
<1> USE DEF ShowsInv
<1>0. /\ DOMAIN flushing = Flushers /\ Card \in Flushers /\ Calls \subseteq Flushers
      /\ messages \in Seq(Shown) /\ message \in 0..Len(messages)
      /\ {card_finalized, settled, live} \subseteq BOOLEAN
    BY DEF FlushesFit, CardFits, Flushers
<1>1. ASSUME UNCHANGED <<message, messages, card_finalized, settled, live, flushing, blocks>>,
             phase \in {"closing", "sending", "over"} => phase' \in {"closing", "sending", "over"}
      PROVE  CardFits'
    <2>1. Final' = Final
        BY <1>1 DEF Final, Newest
    <2>2. \A f \in Flushers : IsFlushing(f)' <=> IsFlushing(f)
        BY <1>1 DEF IsFlushing
    <2> QED
        BY <1>0, <1>1, <2>1, <2>2 DEF CardFits
<1>2. ASSUME NEW is_live \in BOOLEAN, Open(is_live) PROVE CardFits'
    <2>1. /\ message' = 0 /\ messages' = << >> /\ settled' = FALSE /\ card_finalized' = FALSE
          /\ live' \in BOOLEAN
        BY <1>2 DEF Open, CardStarts
    <2>2. message' \in 0..Len(messages')
        BY <2>1
    <2> QED
        BY <2>1, <2>2 DEF CardFits
<1>3. CASE Opened \/ CannotPrepare \/ Closed \/ Stopped \/ Ends \/ ToolsAreDone
    <2>1. UNCHANGED <<message, messages, card_finalized, settled, live, flushing, blocks>>
          /\ (phase \in {"closing", "sending", "over"} => phase' \in {"closing", "sending", "over"})
        BY <1>3 DEF Opened, CannotPrepare, Closed, Stopped, Ends, ToolsAreDone, cardVars, Cancelling
    <2> QED
        BY <2>1, <1>1
<1>4. ASSUME NEW restored \in BOOLEAN, NEW out_dir \in BOOLEAN, NEW touch \in BOOLEAN,
             NEW inputs_written \in SUBSET inputs,
             Prepare(restored, out_dir, touch, inputs_written)
      PROVE  CardFits'
    BY <1>4, <1>1 DEF Prepare, cardVars
<1>5. CASE ModelIsCalled \/ (\E over \in BOOLEAN : Finishes(over))
           \/ \E S \in SUBSET AllCalls : ModelAnswers(S)
    <2>1. UNCHANGED <<message, messages, card_finalized, settled, live, flushing, blocks>>
          /\ phase \notin {"closing", "sending", "over"}
        BY <1>5 DEF ModelIsCalled, Finishes, ModelAnswers, Hook, LlmStarts, LlmEnds, cardVars
    <2> QED
        BY <2>1, <1>1
<1>6. ASSUME NEW c \in Calls, CallStarts(c) \/ CommandRuns(c) \/ CommandSaysNothing(c) \/ IsRefused(c)
      PROVE  CardFits'
    <2>1. phase = "running" /\ UNCHANGED <<phase, live>>
        BY <1>6 DEF CallStarts, CommandRuns, CommandSaysNothing, IsRefused, runVars
    <2>2. UNCHANGED cardVars \/ (live /\ (ToolStarts(c) \/ ToolEnds(c) \/ ToolIsRefused(c)))
        BY <1>6 DEF CallStarts, CommandRuns, CommandSaysNothing, IsRefused, Hook, ToolSaysNothing
    <2>3. CASE UNCHANGED cardVars
        BY <2>1, <2>3, <1>1 DEF cardVars
    <2>4. CASE live /\ (ToolStarts(c) \/ ToolEnds(c) \/ ToolIsRefused(c))
        <3>1. ~card_finalized /\ ~settled
            BY <2>1, <2>4 DEF CardFits
        <3>2. UNCHANGED <<message, messages, settled, card_finalized>>
            BY <3>1, <2>4, HookStep
        <3> QED
            BY <3>1, <3>2, <2>1, <1>0 DEF CardFits
    <2> QED
        BY <2>2, <2>3, <2>4
<1>7. ASSUME NEW c \in Attaches,
             IsRefused(c) \/ AttachRecords(c) \/ \E f \in Files : AttachChecks(c, f) \/ Removes(c, f)
      PROVE  CardFits'
    <2>1. UNCHANGED <<message, messages, card_finalized, settled, live, flushing, blocks, phase>>
        BY <1>7, OutputAssumption DEF IsRefused, AttachRecords, AttachChecks, Removes, runVars, cardVars, Calls
    <2> QED
        BY <2>1, <1>1, Zenon
<1>8. ASSUME NEW c \in Attaches, CallStarts(c) \/ CommandRuns(c) \/ CommandSaysNothing(c)
      PROVE  FALSE
    BY <1>8, OutputAssumption DEF CallStarts, CommandRuns, CommandSaysNothing, Calls
<1>9. ASSUME NEW how \in {"stopped", "broken"}, Stops(how) PROVE CardFits'
    BY <1>9, <1>1 DEF Stops, cardVars
<1>10. ASSUME NEW f \in Flushers, Discord(f) \/ HookIsCancelled(f) PROVE CardFits'
    <2>1. FlushLands(f) \/ FlushFindsNothing(f) \/ FlushFails(f) \/ FlushIsCancelled(f)
        BY <1>10 DEF Discord, HookIsCancelled
    <2>2. /\ IsFlushing(f) /\ flushing' = [flushing EXCEPT ![f] = NoFlush]
          /\ messages' \in Seq(Shown) /\ message' \in 0..Len(messages')
          /\ UNCHANGED <<blocks, card_finalized, phase, live>>
        BY <1>10, <2>1, FlushIsOver DEF Discord, HookIsCancelled, runVars
    <2>3. ~settled
        BY <2>2 DEF CardFits
    <2>4. IsFlushing(Card) => f = Card
        BY <2>2, <1>0 DEF FlushesFit, Flushers
    <2>5. ~IsFlushing(Card)'
        BY <2>2, <2>4, <1>0 DEF IsFlushing, NoFlush
    <2>6. CASE ~settled'
        <3>1. settled' \in BOOLEAN
            BY <1>0, <2>1 DEF FlushLands, FlushFindsNothing, FlushFails, FlushIsCancelled
        <3> QED
            BY <1>0, <2>2, <2>3, <2>5, <2>6, <3>1 DEF CardFits
    <2>7. CASE FlushLands(f) /\ f = Card /\ card_finalized
        <3>1. flushing[Card].to = message /\ flushing[Card].view = Final
            BY <2>2, <2>7 DEF CardFits
        <3>2. Final' = Final
            BY <2>2 DEF Final, Newest
        <3>3. message' # 0 /\ messages'[message'].view = Final
            <4> DEFINE new == [view |-> Final, gone |-> FALSE]
            <4>1. messages' = (IF message = 0 THEN Append(messages, new) ELSE [messages EXCEPT ![message] = new])
                  /\ message' = (IF message = 0 THEN Len(messages) + 1 ELSE message)
                BY <2>7, <3>1 DEF FlushLands
            <4>2. new.view = Final
                OBVIOUS
            <4> HIDE DEF new
            <4>3. CASE message = 0
                <5>1. Len(messages) \in Nat /\ Append(messages, new)[Len(messages) + 1] = new
                    BY <1>0
                <5> QED
                    BY <4>1, <4>2, <4>3, <5>1
            <4>4. CASE message # 0
                <5>1. message \in DOMAIN messages
                    BY <1>0, <4>4
                <5> QED
                    BY <4>1, <4>2, <4>4, <5>1
            <4> QED
                BY <4>3, <4>4
        <3>4. \A g \in Flushers : ~IsFlushing(g)'
            <4>1. \A c \in Calls : ~IsFlushing(c)
                BY <2>2, <2>7 DEF FlushesFit
            <4>2. \A c \in Calls : ~IsFlushing(c)'
                BY <4>1, <2>2, <1>0 DEF IsFlushing, NoFlush
            <4> QED
                BY <4>2, <2>5 DEF Flushers
        <3>5. settled' \in BOOLEAN
            BY <2>7 DEF FlushLands
        <3>6. live' /\ phase' \notin {"closing", "sending", "over"} => ~card_finalized' /\ ~settled'
            BY <2>2, <2>7 DEF CardFits
        <3> QED
            BY <1>0, <2>2, <2>5, <3>2, <3>3, <3>4, <3>5, <3>6 DEF CardFits
    <2>8. settled' => FlushLands(f) /\ f = Card /\ card_finalized
        BY <2>1, <2>3 DEF FlushLands, FlushFindsNothing, FlushFails, FlushIsCancelled
    <2> QED
        BY <2>6, <2>7, <2>8
<1>11. ASSUME NEW unreadable \in SUBSET Files, Collects(unreadable) \/ CollectsNothing
       PROVE  CardFits'
    <2>1. phase \in {"collecting", "failing"} /\ UNCHANGED live /\ phase' = "closing"
          /\ (UNCHANGED cardVars \/ (live /\ CardEnds))
        BY <1>11 DEF Collects, CollectsNothing, Hook
    <2>2. CASE UNCHANGED cardVars
        BY <2>1, <2>2, <1>1 DEF cardVars
    <2>3. CASE live /\ CardEnds
        <3>1. /\ card_finalized' = TRUE
              /\ flushing' = [flushing EXCEPT ![Card] = [on |-> TRUE, to |-> message, view |-> Final]]
              /\ UNCHANGED <<blocks, message, messages, settled>>
            BY <2>3, CardEnding
        <3>2. ~settled
            BY <2>1, <2>3 DEF CardFits
        <3>3. flushing'[Card].to = message /\ flushing'[Card].view = Final
            BY <3>1, <1>0
        <3>4. Final' = Final
            BY <3>1 DEF Final, Newest
        <3> QED
            BY <1>0, <2>1, <3>1, <3>2, <3>3, <3>4 DEF CardFits
    <2> QED
        BY <2>1, <2>2, <2>3
<1>12. ASSUME NEW sent \in BOOLEAN, SendsFile(sent) \/ SendsAnswer(sent) PROVE CardFits'
    <2>1. UNCHANGED <<message, messages, card_finalized, settled, live, flushing, blocks>>
          /\ phase' \in {phase, "over"}
        BY <1>12 DEF SendsFile, SendsAnswer, cardVars, runVars
    <2> QED
        BY <2>1, <1>1
<1>13. CASE SomebodyDeletes
    <2>1. UNCHANGED <<message, card_finalized, settled, live, flushing, blocks, phase>> /\ message # 0
          /\ messages' = [messages EXCEPT ![message].gone = TRUE]
        BY <1>13 DEF SomebodyDeletes, DeletesTheMessage, runVars
    <2>2. message \in DOMAIN messages /\ messages[message] \in Shown
        BY <2>1, <1>0
    <2>3. messages'[message].view = messages[message].view
        BY <2>1, <2>2 DEF Shown
    <2>4. Len(messages') = Len(messages)
        BY <2>1, <2>2, <1>0
    <2>5. Final' = Final
        BY <2>1 DEF Final, Newest
    <2> QED
        BY <1>0, <2>1, <2>3, <2>4, <2>5 DEF CardFits, IsFlushing
<1>14. CASE UNCHANGED outputVars
    <2>1. UNCHANGED <<message, messages, card_finalized, settled, live, flushing, blocks, phase>>
        BY <1>14 DEF outputVars, cardVars, runVars
    <2> QED
        BY <2>1, <1>1, Zenon
<1> QED
    <2>1. \A c \in AllCalls : c \in Calls \/ c \in Attaches
        BY DEF AllCalls
    <2>2. {} \in SUBSET Files
        OBVIOUS
    <2> QED
        BY <2>1, <2>2, <1>2, <1>3, <1>4, <1>5, <1>6, <1>7, <1>8, <1>9, <1>10, <1>11, <1>12,
           <1>13, <1>14
        DEF OutputNext

LEMMA ToldDelivered == sandbox_tool_result = "delivered" => landed
BY DEF sandbox_tool_result

(* Another post, or none.                                                   *)
LEMMA PostsFit ==
    ASSUME told \in Seq(BOOLEAN), \A i \in DOMAIN told : ~told[i], NEW sent \in BOOLEAN, MayTell(sent)
    PROVE  /\ told' \in Seq(BOOLEAN) /\ OnlyTheLastCameBack'
           /\ sent => CameBack'
           /\ ~sent => \A i \in DOMAIN told' : ~told'[i]
<1>1. CASE told' = Append(told, sent)
    <2>1. /\ told' \in Seq(BOOLEAN) /\ Len(told') = Len(told) + 1 /\ Len(told) \in Nat
          /\ \A i \in 1..Len(told) : told'[i] = told[i]
          /\ told'[Len(told) + 1] = sent
          /\ DOMAIN told' = 1..Len(told) + 1 /\ DOMAIN told = 1..Len(told)
        BY <1>1
    <2> QED
        BY <2>1 DEF OnlyTheLastCameBack, CameBack
<1>2. CASE ~sent /\ told' = told
    BY <1>2 DEF OnlyTheLastCameBack
<1> QED
    BY <1>1, <1>2 DEF MayTell, Tells

LEMMA AnswerStep ==
    ASSUME ShowsInv, [OutputNext]_outputVars
    PROVE  AnswerFits'
<1> USE DEF ShowsInv
<1> DEFINE Late == {"closing", "sending", "over"}
<1>0. phase \in Phases /\ {ok, lead, text, landed} \subseteq BOOLEAN /\ told \in Seq(BOOLEAN)
    BY DEF AnswerFits
<1>1. ASSUME UNCHANGED <<lead, text, told, landed, artifacts>>, ok' \in BOOLEAN, phase' \in Phases,
             (phase' = phase /\ ok' = ok) \/ (phase' \notin Late /\ phase \notin Late)
      PROVE  AnswerFits'
    <2>1. CASE phase' = phase /\ ok' = ok
        BY <1>0, <1>1, <2>1 DEF AnswerFits, AnswerIsSaidOnce, Unsent, sandbox_tool_result,
                                OnlyTheLastCameBack, CameBack
    <2>2. CASE phase' \notin Late /\ phase \notin Late
        BY <1>0, <1>1, <2>2 DEF AnswerFits, AnswerIsSaidOnce, Unsent
    <2> QED
        BY <1>1, <2>1, <2>2
<1>2. ASSUME NEW is_live \in BOOLEAN, Open(is_live) PROVE AnswerFits'
    <2>1. /\ phase' = "opening" /\ artifacts' = << >> /\ ok' = FALSE /\ lead' = FALSE
          /\ text' = FALSE /\ told' = << >> /\ landed' = FALSE
        BY <1>2 DEF Open
    <2>2. Unsent' = {} /\ told' \in Seq(BOOLEAN)
        BY <2>1 DEF Unsent
    <2> QED
        BY <2>1, <2>2, Zenon DEF AnswerFits, AnswerIsSaidOnce, Phases
<1>3. CASE Opened \/ CannotPrepare \/ ToolsAreDone \/ Stopped
    <2>1. UNCHANGED <<lead, text, told, landed, artifacts>> /\ ok' \in {ok, FALSE}
          /\ phase \in {"opening", "preparing", "running", "stopped", "broken"}
          /\ phase' \in {"preparing", "failing", "running", "collecting"}
        BY <1>3 DEF Opened, CannotPrepare, ToolsAreDone, Stopped, Cancelling, sendVars
    <2>2. ok' \in BOOLEAN
        BY <1>0, <2>1
    <2> QED
        BY <2>1, <2>2, <1>1 DEF Phases
<1>4. ASSUME NEW restored \in BOOLEAN, NEW out_dir \in BOOLEAN, NEW touch \in BOOLEAN,
             NEW inputs_written \in SUBSET inputs,
             Prepare(restored, out_dir, touch, inputs_written)
      PROVE  AnswerFits'
    <2>1. UNCHANGED <<ok, lead, text, told, landed, artifacts>> /\ phase = "preparing" /\ phase' = "running"
        BY <1>4 DEF Prepare, sendVars
    <2>2. ok' \in BOOLEAN
        BY <1>0, <2>1
    <2> QED
        BY <2>1, <2>2, <1>1 DEF Phases
<1>5. CASE ModelIsCalled \/ (\E S \in SUBSET AllCalls : ModelAnswers(S)) \/ SomebodyDeletes
           \/ (\E f \in Flushers : HookIsCancelled(f) \/ Discord(f)) \/ UNCHANGED outputVars
    <2>1. UNCHANGED <<ok, lead, text, told, landed, artifacts, phase>>
        BY <1>5 DEF ModelIsCalled, ModelAnswers, SomebodyDeletes, HookIsCancelled, Discord,
                    outputVars, sendVars, runVars
    <2>2. ok' \in BOOLEAN /\ phase' \in Phases
        BY <1>0, <2>1
    <2> QED
        BY <2>1, <2>2, <1>1, Zenon
<1>6. ASSUME NEW c \in AllCalls, CallStarts(c) \/ CommandRuns(c) \/ CommandSaysNothing(c) \/ IsRefused(c)
      PROVE  AnswerFits'
    <2>1. UNCHANGED <<ok, lead, text, told, landed, artifacts, phase>>
        BY <1>6 DEF CallStarts, CommandRuns, CommandSaysNothing, IsRefused, sendVars, runVars
    <2>2. ok' \in BOOLEAN /\ phase' \in Phases
        BY <1>0, <2>1
    <2> QED
        BY <2>1, <2>2, <1>1, Zenon
<1>7. ASSUME NEW c \in Attaches,
             AttachRecords(c) \/ \E f \in Files : AttachChecks(c, f) \/ Removes(c, f)
      PROVE  AnswerFits'
    <2>1. UNCHANGED <<ok, lead, text, told, landed, artifacts, phase>>
        BY <1>7 DEF AttachRecords, AttachChecks, Removes, sendVars, runVars
    <2>2. ok' \in BOOLEAN /\ phase' \in Phases
        BY <1>0, <2>1
    <2> QED
        BY <2>1, <2>2, <1>1, Zenon
<1>8. ASSUME NEW how \in {"stopped", "broken"}, Stops(how) PROVE AnswerFits'
    <2>1. UNCHANGED <<ok, lead, text, told, landed, artifacts>> /\ phase = "running" /\ phase' = how
        BY <1>8 DEF Stops, sendVars
    <2>2. ok' \in BOOLEAN /\ phase' \in Phases
        BY <1>0, <2>1 DEF Phases
    <2> QED
        BY <2>1, <2>2, <1>1
<1>9. ASSUME NEW over \in BOOLEAN, Finishes(over) PROVE AnswerFits'
    <2>1. /\ phase = "running" /\ phase' \in {"running", "collecting"} /\ ok' = TRUE
          /\ UNCHANGED <<artifacts, lead, text, told, landed>>
        BY <1>9 DEF Finishes
    <2> QED
        BY <2>1, <1>1 DEF Phases
<1>10. ASSUME NEW unreadable \in SUBSET Files, Collects(unreadable) PROVE AnswerFits'
    <2>1. /\ phase = "collecting" /\ phase' = "closing" /\ text' \in {FALSE, ok} /\ lead' = text'
          /\ UNCHANGED <<ok, told, landed>>
        BY <1>10 DEF Collects
    <2>2. text' \in BOOLEAN
        BY <1>0, <2>1
    <2> QED
        BY <1>0, <2>1, <2>2 DEF AnswerFits, AnswerIsSaidOnce, Phases
<1>11. CASE CollectsNothing
    <2>1. /\ phase \in {"collecting", "failing"} /\ phase' = "closing" /\ ok' = FALSE
          /\ UNCHANGED <<lead, text, told, landed>>
        BY <1>11 DEF CollectsNothing
    <2> QED
        BY <1>0, <2>1 DEF AnswerFits, AnswerIsSaidOnce, Phases
<1>12. CASE Closed
    <2>1. phase = "closing" /\ phase' = "sending" /\ UNCHANGED <<ok, lead, text, told, landed>>
        BY <1>12 DEF Closed, sendVars
    <2>2. DOMAIN told = {}
        BY <2>1 DEF AnswerFits
    <2> QED
        BY <1>0, <2>1, <2>2 DEF AnswerFits, AnswerIsSaidOnce, Phases, OnlyTheLastCameBack
<1>13. ASSUME NEW sent \in BOOLEAN, SendsFile(sent) PROVE AnswerFits'
    <2>1. /\ phase = "sending" /\ phase' = "sending" /\ UNCHANGED <<ok, text>>
          /\ landed' = (landed \/ sent)
          /\ IF lead THEN MayTell(sent) ELSE UNCHANGED told
          /\ lead' = (lead /\ ~sent)
        BY <1>13 DEF SendsFile, StillDue, runVars
    <2>2. landed' \in BOOLEAN /\ lead' \in BOOLEAN
        BY <1>0, <2>1
    <2>3. CASE lead
        <3>1. ~landed /\ \A i \in DOMAIN told : ~told[i]
            BY <2>1, <2>3 DEF AnswerFits
        <3>2. /\ told' \in Seq(BOOLEAN) /\ OnlyTheLastCameBack'
              /\ sent => CameBack'
              /\ ~sent => \A i \in DOMAIN told' : ~told'[i]
            BY <1>0, <2>1, <2>3, <3>1, PostsFit
        <3> QED
            BY <1>0, <2>1, <2>2, <2>3, <3>1, <3>2 DEF AnswerFits, AnswerIsSaidOnce, Phases
    <2>4. CASE ~lead
        <3>1. OnlyTheLastCameBack' /\ (text => CameBack')
            BY <2>1, <2>4 DEF AnswerFits, OnlyTheLastCameBack, CameBack
        <3> QED
            BY <1>0, <2>1, <2>2, <2>4, <3>1 DEF AnswerFits, AnswerIsSaidOnce, Phases
    <2> QED
        BY <1>0, <2>3, <2>4
<1>14. ASSUME NEW sent \in BOOLEAN, SendsAnswer(sent) PROVE AnswerFits'
    <2>1. /\ phase = "sending" /\ phase' = "over" /\ lead /\ lead' = FALSE
          /\ UNCHANGED <<ok, text, landed, artifacts>> /\ MayTell(sent)
        BY <1>14 DEF SendsAnswer
    <2>2. ~landed /\ \A i \in DOMAIN told : ~told[i]
        BY <2>1 DEF AnswerFits
    <2>3. told' \in Seq(BOOLEAN) /\ OnlyTheLastCameBack'
        BY <1>0, <2>1, <2>2, PostsFit
    <2>4. AnswerIsSaidOnce'
        BY <2>1, <2>2, <2>3 DEF AnswerIsSaidOnce, OnlyTheLastCameBack, sandbox_tool_result
    <2> QED
        BY <1>0, <2>1, <2>3, <2>4 DEF AnswerFits, Phases
<1>15. CASE Ends
    <2>1. phase = "sending" /\ phase' = "over" /\ ~lead /\ UNCHANGED <<ok, landed, lead, text, told>>
        BY <1>15 DEF Ends, sendVars
    <2>2. OnlyTheLastCameBack /\ (text => CameBack)
        BY <2>1 DEF AnswerFits
    <2>3. AnswerIsSaidOnce'
        BY <2>1, <2>2 DEF AnswerIsSaidOnce, OnlyTheLastCameBack, CameBack
    <2> QED
        BY <1>0, <2>1, <2>3 DEF AnswerFits, Phases
<1> QED
    BY <1>2, <1>3, <1>4, <1>5, <1>6, <1>7, <1>8, <1>9, <1>10, <1>11, <1>12, <1>13, <1>14, <1>15
    DEF OutputNext

(* What a sweep of out/ sends was found there.                              *)
LEMMA SweepFinds ==
    ASSUME NEW unreadable, NEW sweep \in collect_artifacts(unreadable)
    PROVE  \A i \in DOMAIN sweep : \E f \in Found : sweep[i].run = disk[f].run
<1>1. PICK listing \in Listings : sweep = Read(listing, FALSE, unreadable)
    BY DEF collect_artifacts
<1>2. \A i \in DOMAIN listing : listing[i].path \in Found
    <2>1. CASE listing = << >>
        BY <2>1
    <2>2. CASE listing # << >>
        <3>1. PICK s \in Orders(Found) : listing = [i \in DOMAIN s |-> Entry(s[i], disk[s[i]].size)]
            BY <1>1, <2>2 DEF Listings
        <3>2. \A i \in DOMAIN s : s[i] \in Found
            BY DEF Orders
        <3> QED
            BY <3>1, <3>2 DEF Entry
    <2> QED
        BY <2>1, <2>2
<1> QED
    BY <1>1, <1>2 DEF Read, There, WithinCaps

(* The workspace is changed by what prepares it and by commands only.       *)
LEMMA TimesStep ==
    ASSUME ShowsInv, [OutputNext]_outputVars
    PROVE  TimesFit'
<1> USE DEF ShowsInv
<1> DEFINE Marked == {"running", "stopped", "collecting"}
<1>0. run \in Nat /\ touched \in 0..run
      /\ \A f \in Files : disk[f].run \in 0..run /\ disk[f].time \in 0..disk[f].run
    BY DEF TimesFit
<1>1. ASSUME UNCHANGED <<run, disk, marker, touched>>, phase' \in Marked => phase \in Marked
      PROVE  TimesFit'
    BY <1>0, <1>1 DEF TimesFit
<1>2. ASSUME NEW is_live \in BOOLEAN, Open(is_live) PROVE TimesFit'
    <2>1. run' = run + 1 /\ phase' = "opening" /\ UNCHANGED <<disk, marker, touched>>
        BY <1>2 DEF Open, markVars
    <2> QED
        BY <1>0, <2>1 DEF TimesFit
<1>3. CASE Opened \/ CannotPrepare \/ ToolsAreDone \/ Stopped \/ ModelIsCalled
           \/ (\E over \in BOOLEAN : Finishes(over)) \/ Closed \/ Ends \/ CollectsNothing
           \/ SomebodyDeletes \/ UNCHANGED outputVars
    <2>1. UNCHANGED <<run, disk, marker, touched>> /\ (phase' \in Marked => phase \in Marked)
        BY <1>3 DEF Opened, CannotPrepare, ToolsAreDone, Stopped, Cancelling, ModelIsCalled, Finishes,
                    Closed, Ends, CollectsNothing, SomebodyDeletes, outputVars, fileVars, markVars, runVars
    <2> QED
        BY <2>1, <1>1
<1>4. ASSUME NEW restored \in BOOLEAN, NEW out_dir \in BOOLEAN, NEW touch \in BOOLEAN,
             NEW inputs_written \in SUBSET inputs,
             Prepare(restored, out_dir, touch, inputs_written)
      PROVE  TimesFit'
    <2>1. /\ UNCHANGED run
          /\ disk' = [f \in Files |-> Written(f, inputs_written, Restored(f, restored))]
          /\ marker' = touch
          /\ touched' = IF touch THEN run ELSE IF restored THEN touched ELSE 0
        BY <1>4 DEF Prepare, MarkRunStart
    <2>2. touched' \in 0..run /\ (marker' => touched' = run)
        BY <1>0, <2>1
    <2>3. ASSUME NEW f \in Files PROVE disk'[f].run \in 0..run /\ disk'[f].time \in 0..disk'[f].run
        <3>1. disk'[f] \in {disk[f], NoFile} \/ (disk'[f].run = run /\ disk'[f].time = run)
            BY <2>1 DEF Written, Restored, FileOf
        <3> QED
            BY <1>0, <3>1 DEF NoFile
    <2> QED
        BY <1>0, <2>1, <2>2, <2>3 DEF TimesFit
<1>5. ASSUME NEW c \in AllCalls, CallStarts(c) \/ CommandSaysNothing(c) \/ IsRefused(c) PROVE TimesFit'
    <2>1. UNCHANGED <<run, phase, disk, marker, touched>>
        BY <1>5 DEF CallStarts, CommandSaysNothing, IsRefused, fileVars, markVars, runVars
    <2> QED
        BY <2>1, <1>1
<1>6. ASSUME NEW c \in AllCalls, CommandRuns(c) PROVE TimesFit'
    <2>1. UNCHANGED <<run, phase, marker, touched>> /\ (UNCHANGED disk \/ WritesFiles(c))
        BY <1>6 DEF CommandRuns, markVars, runVars
    <2>2. ASSUME WritesFiles(c), NEW f \in Files
          PROVE  disk'[f].run \in 0..run /\ disk'[f].time \in 0..disk'[f].run
        <3>1. disk'[f] = disk[f] \/ (disk'[f].run = run /\ disk'[f].time \in {0, run})
            BY <2>2 DEF WritesFiles, FileOf
        <3> QED
            BY <1>0, <3>1
    <2> QED
        BY <1>0, <1>1, <2>1, <2>2 DEF TimesFit
<1>7. ASSUME NEW c \in Attaches,
             AttachRecords(c) \/ \E f \in Files : AttachChecks(c, f) \/ Removes(c, f)
      PROVE  TimesFit'
    <2>1. UNCHANGED <<run, phase, disk, marker, touched>>
        BY <1>7 DEF AttachRecords, AttachChecks, Removes, fileVars, markVars, runVars
    <2> QED
        BY <2>1, <1>1
<1>8. ASSUME NEW how \in {"stopped", "broken"}, Stops(how) PROVE TimesFit'
    <2>1. UNCHANGED <<run, disk, marker, touched>> /\ phase = "running"
        BY <1>8 DEF Stops, fileVars, markVars
    <2> QED
        BY <2>1, <1>1
<1>9. CASE (\E S \in SUBSET AllCalls : ModelAnswers(S))
           \/ (\E f \in Flushers : HookIsCancelled(f) \/ Discord(f))
    <2>1. UNCHANGED <<run, phase, disk, marker, touched>>
        BY <1>9 DEF ModelAnswers, HookIsCancelled, Discord, fileVars, markVars, runVars
    <2> QED
        BY <2>1, <1>1
<1>10. ASSUME NEW unreadable \in SUBSET Files, Collects(unreadable) PROVE TimesFit'
    <2>1. UNCHANGED <<run, disk, marker, touched>> /\ phase' = "closing"
        BY <1>10 DEF Collects, fileVars, markVars
    <2> QED
        BY <2>1, <1>1
<1>11. ASSUME NEW sent \in BOOLEAN, SendsFile(sent) \/ SendsAnswer(sent) PROVE TimesFit'
    <2>1. UNCHANGED <<run, disk, marker, touched>> /\ phase' \in {phase, "over"}
        BY <1>11 DEF SendsFile, SendsAnswer, fileVars, markVars, runVars
    <2> QED
        BY <2>1, <1>1
<1> QED
    BY <1>2, <1>3, <1>4, <1>5, <1>6, <1>7, <1>8, <1>9, <1>10, <1>11 DEF OutputNext

(* What is not older than the marker of a run was put there by it.          *)
LEMMA NewerIsOfThisRun ==
    ASSUME TimesFit, phase = "collecting", marker, NEW f \in Found
    PROVE  disk[f].run = run
<1>1. f \in Files /\ disk[f].time >= touched
    BY OutputAssumption DEF Found, FoundOutput
<1> QED
    BY <1>1 DEF TimesFit

LEMMA OldFilesStep ==
    ASSUME ShowsInv, [OutputNext]_outputVars
    PROVE  OldFilesStay'
<1> USE DEF ShowsInv
<1>1. ASSUME UNCHANGED <<run, marker, artifacts>> PROVE OldFilesStay'
    BY <1>1 DEF OldFilesStay
<1>2. ASSUME NEW is_live \in BOOLEAN, Open(is_live) PROVE OldFilesStay'
    BY <1>2 DEF Open, OldFilesStay
<1>3. CASE Opened \/ CannotPrepare \/ ToolsAreDone \/ Stopped \/ ModelIsCalled
           \/ \E over \in BOOLEAN : Finishes(over)
    <2>1. UNCHANGED <<run, marker, artifacts>>
        BY <1>3 DEF Opened, CannotPrepare, ToolsAreDone, Stopped, ModelIsCalled, Finishes,
                    sendVars, fileVars, markVars
    <2> QED
        BY <2>1, <1>1
<1>4. CASE Closed \/ Ends \/ SomebodyDeletes \/ UNCHANGED outputVars
    <2>1. UNCHANGED <<run, marker, artifacts>>
        BY <1>4 DEF Closed, Ends, SomebodyDeletes, outputVars, sendVars, fileVars, markVars, runVars
    <2> QED
        BY <2>1, <1>1
<1>5. ASSUME NEW restored \in BOOLEAN, NEW out_dir \in BOOLEAN, NEW touch \in BOOLEAN,
             NEW inputs_written \in SUBSET inputs,
             Prepare(restored, out_dir, touch, inputs_written)
      PROVE  OldFilesStay'
    <2>1. Unsent = {} /\ UNCHANGED artifacts
        BY <1>5 DEF Prepare, AnswerFits, sendVars
    <2> QED
        BY <2>1 DEF OldFilesStay, Unsent
<1>6. CASE (\E S \in SUBSET AllCalls : ModelAnswers(S))
           \/ (\E f \in Flushers : HookIsCancelled(f) \/ Discord(f))
           \/ (\E how \in {"stopped", "broken"} : Stops(how))
    <2>1. UNCHANGED <<run, marker, artifacts>>
        BY <1>6 DEF ModelAnswers, HookIsCancelled, Discord, Stops, sendVars, fileVars, markVars, runVars
    <2> QED
        BY <2>1, <1>1
<1>7. ASSUME NEW c \in AllCalls, CallStarts(c) \/ CommandRuns(c) \/ CommandSaysNothing(c) \/ IsRefused(c)
      PROVE  OldFilesStay'
    <2>1. UNCHANGED <<run, marker, artifacts>>
        BY <1>7 DEF CallStarts, CommandRuns, CommandSaysNothing, IsRefused, sendVars, fileVars, markVars,
                    runVars
    <2> QED
        BY <2>1, <1>1
<1>8. ASSUME NEW c \in Attaches,
             AttachRecords(c) \/ \E f \in Files : AttachChecks(c, f) \/ Removes(c, f)
      PROVE  OldFilesStay'
    <2>1. UNCHANGED <<run, marker, artifacts>>
        BY <1>8 DEF AttachRecords, AttachChecks, Removes, sendVars, fileVars, markVars, runVars
    <2> QED
        BY <2>1, <1>1
<1>9. ASSUME NEW unreadable \in SUBSET Files, Collects(unreadable) PROVE OldFilesStay'
    <2>1. UNCHANGED <<run, marker>> /\ phase = "collecting"
        BY <1>9 DEF Collects, fileVars, markVars
    <2>2. CASE artifacts' \in collect_deliverables(unreadable)
        <3>1. \A i \in DOMAIN artifacts' : artifacts'[i].chosen
            BY <2>2 DEF collect_deliverables, Read
        <3> QED
            BY <3>1 DEF OldFilesStay
    <2>3. CASE artifacts' \in collect_artifacts(unreadable)
        <3>1. \A i \in DOMAIN artifacts' : \E f \in Found : artifacts'[i].run = disk[f].run
            BY <2>3, SweepFinds
        <3>2. marker => \A f \in Found : disk[f].run = run
            BY <2>1, NewerIsOfThisRun
        <3> QED
            BY <2>1, <3>1, <3>2 DEF OldFilesStay
    <2> QED
        BY <1>9, <2>2, <2>3 DEF Collects
<1>10. CASE CollectsNothing
    BY <1>10 DEF CollectsNothing, OldFilesStay
<1>11. ASSUME NEW sent \in BOOLEAN, SendsFile(sent) PROVE OldFilesStay'
    <2>1. UNCHANGED <<run, marker>> /\ artifacts' = [i \in Unsent \ {Foremost} |-> artifacts[i]]
        BY <1>11 DEF SendsFile, fileVars, markVars, runVars
    <2>2. \A i \in DOMAIN artifacts' : i \in DOMAIN artifacts /\ artifacts'[i] = artifacts[i]
        BY <2>1 DEF Unsent
    <2> QED
        BY <2>1, <2>2 DEF OldFilesStay
<1>12. ASSUME NEW sent \in BOOLEAN, SendsAnswer(sent) PROVE OldFilesStay'
    BY <1>12, <1>1 DEF SendsAnswer, fileVars, markVars
<1> QED
    BY <1>2, <1>3, <1>4, <1>5, <1>6, <1>7, <1>8, <1>9, <1>10, <1>11, <1>12
    DEF OutputNext

LEMMA ShowsInvHolds == OutputSpec => []ShowsInv
<1>1. ShowsInv /\ [OutputNext]_outputVars => ShowsInv'
    BY CallsStep, FlushesStep, TranscriptStep, CardStep, AnswerStep, TimesStep, OldFilesStep DEF ShowsInv
<1> QED
    BY <1>1, ShowsInit, PTL DEF OutputSpec

(* What a command prints is shown under it, whatever else its response      *)
(* started at the same time; only a call that has no block of its own is    *)
(* shown elsewhere.                                                         *)
THEOREM OutputFoundItsCommand == OutputSpec => []OutputUnderItsCommand
<1>1. ShowsInv => OutputUnderItsCommand
    BY DEF ShowsInv, Transcribed
<1> QED
    BY <1>1, ShowsInvHolds, PTL

(* Once the last update of a run is made, its card shows every command as   *)
(* it ended, and neither a model at work nor a hint to reply.               *)
THEOREM CardSettled == OutputSpec => []CardSettles
<1>1. ShowsInv => CardSettles
    BY DEF ShowsInv, CardFits, CardSettles, Final
<1> QED
    BY <1>1, ShowsInvHolds, PTL

(* A run that could mark its start sends no file of an earlier run its      *)
(* model did not attach: whatever is not older than its marker was put      *)
(* there by it, since only the run itself can have touched the marker last. *)
THEOREM OldFilesStayed == OutputSpec => []OldFilesStay
<1>1. ShowsInv => OldFilesStay
    BY DEF ShowsInv
<1> QED
    BY <1>1, ShowsInvHolds, PTL

(* The closing message of a run is posted again only after a post whose     *)
(* send raised, and a send of it came back when the chat model is told that *)
(* the user has read it.                                                    *)
THEOREM AnsweredOnce == OutputSpec => []AnswerIsSaidOnce
<1>1. ShowsInv => AnswerIsSaidOnce
    BY DEF ShowsInv, AnswerFits
<1> QED
    BY <1>1, ShowsInvHolds, PTL
================================================================================
