-------------------------- MODULE ScheduleRuns_Proofs --------------------------
(***************************************************************************)
(* What ScheduleRuns keeps for every timing, gap, number of tokens and     *)
(* budget of upsets: types, no overlapping runs and the gap between two    *)
(* runs while claims do not lapse under a live job, no occurrence started  *)
(* twice while markers last, and a next run on the timetable of now.       *)
(***************************************************************************)
EXTENDS ScheduleRuns, TLAPS

USE DEF NoTime, NoJob

--------------------------------------------------------------------------------
(* The arithmetic of the timetable. *)

LEMMA ProductIsNatural ==
    ASSUME NEW a \in Nat, NEW b \in Nat
    PROVE  a * b \in Nat
  OBVIOUS

(* next_run() gives a time, or none for a one-off that has passed. *)
LEMMA NextRunIsATime ==
    ASSUME NEW timing \in Timing, NEW after \in Int
    PROVE  /\ next_run(timing, after) \in Nat \cup {NoTime}
           /\ ~timing.once => next_run(timing, after) \in Nat
<1> DEFINE gone == after - timing.start
           q    == gone \div timing.every
<1>1. timing.start \in Nat /\ timing.every \in Nat /\ timing.every > 0 /\ timing.once \in BOOLEAN
    BY DEF Timing
<1>2. CASE timing.start > after
    BY <1>1, <1>2 DEF next_run
<1>3. CASE ~(timing.start > after)
    <2>1. gone \in Nat
        BY <1>1, <1>3
    <2>2. q \in Nat
        BY <1>1, <2>1
    <2>3. timing.every * (q + 1) \in Nat
        BY <1>1, <2>2, ProductIsNatural
    <2>4. timing.start + timing.every * (q + 1) \in Nat
        BY <1>1, <2>3
    <2> QED
        BY <1>1, <1>3, <2>4 DEF next_run
<1> QED
    BY <1>2, <1>3

(* following_run() of a timetable is a time. *)
LEMMA FollowingRunIsATime ==
    ASSUME NEW timing \in Timing, ~timing.once, clock \in Nat,
           NEW occurrence \in Nat, NEW began \in Nat
    PROVE  following_run(timing, occurrence, began) \in Nat
<1>1. began + MinGap - OnTimeGrace - 1 \in Int
    BY ScheduleAssumption
<1>2. Larger(Larger(occurrence, began + MinGap - OnTimeGrace - 1), clock) \in Int
    BY <1>1 DEF Larger
<1> QED
    BY <1>2, NextRunIsATime DEF following_run

--------------------------------------------------------------------------------
(* Types. *)

(* While the poll holds a token its job waits for the queue, and what is     *)
(* queued is queued once.                                                    *)
PollHolds  == poll.at \in {"queueing", "refunding"} =>
                  poll.token \in Jobs /\ job[poll.token].at = "claimed"
QueueHolds == \A i \in 1..Len(queue) :
                  /\ job[queue[i]].at = "queued"
                  /\ \A k \in 1..Len(queue) : queue[k] = queue[i] => k = i

Base == TypeOK /\ PollHolds /\ QueueHolds

RecordsTyped == record \in Record /\ due \in Nat \cup {NoTime}

LEMMA RecordsWithAField ==
    ASSUME NEW r \in Record
    PROVE  /\ \A status \in Statuses : [r EXCEPT !.status = status] \in Record
           /\ \A revision \in Nat : [r EXCEPT !.revision = revision] \in Record
           /\ \A timing \in Timing : [r EXCEPT !.timing = timing] \in Record
           /\ \A next \in Nat : [r EXCEPT !.next_run = next] \in Record
           /\ \A result \in Results : [r EXCEPT !.result = result] \in Record
           /\ \A expires \in BOOLEAN : [r EXCEPT !.expires = expires] \in Record
<1>1. \A status \in Statuses : [r EXCEPT !.status = status] \in Record
    BY DEF Record
<1>2. \A revision \in Nat : [r EXCEPT !.revision = revision] \in Record
    BY DEF Record
<1>3. \A timing \in Timing : [r EXCEPT !.timing = timing] \in Record
    BY DEF Record
<1>4. \A next \in Nat : [r EXCEPT !.next_run = next] \in Record
    BY DEF Record
<1>5. \A result \in Results : [r EXCEPT !.result = result] \in Record
    BY DEF Record
<1>6. \A expires \in BOOLEAN : [r EXCEPT !.expires = expires] \in Record
    BY DEF Record
<1> QED
    BY <1>1, <1>2, <1>3, <1>4, <1>5, <1>6

(* update() and finish() leave a record, and a time or none to be due at. *)
LEMMA UpdateTyped ==
    ASSUME TypeOK, NEW revision, NEW status \in Statuses, NEW timing \in Timing,
           Update(revision, status, timing)
    PROVE  RecordsTyped'
<1>1. clock \in Int
    BY DEF TypeOK
<1>2. next_run(timing, clock) \in Nat \cup {NoTime}
    BY <1>1, NextRunIsATime
<1> DEFINE next == IF status = "enabled" THEN next_run(timing, clock) ELSE record.next_run
<1>3. next \in Nat
    BY <1>2 DEF Update, TypeOK, Record
<1> DEFINE gone == status = "deleted"
<1>4. record' = [record EXCEPT !.status = status, !.timing = timing, !.next_run = next,
                               !.revision = record.revision + 1, !.expires = gone]
    BY DEF Update
<1>5. due' = IF status = "enabled" THEN next ELSE NoTime
    BY DEF Update
<1>6. record \in Record /\ record.revision + 1 \in Nat /\ gone \in BOOLEAN
    BY DEF TypeOK, Record
<1> HIDE DEF next, gone
<1>7. record' \in Record
    BY <1>3, <1>4, <1>6, RecordsWithAField
<1> QED
    BY <1>3, <1>5, <1>7 DEF RecordsTyped

LEMMA FinishTyped ==
    ASSUME TypeOK, NEW row \in Record, NEW outcome \in Results, NEW began \in Nat,
           Finish(row, outcome, began)
    PROVE  RecordsTyped'
<1> DEFINE next == following_run(row.timing, row.next_run, began)
           going == Advances(row) /\ ~Ends(row)
           status == IF ~Ends(row) THEN record.status
                     ELSE IF outcome = "completed" THEN "completed" ELSE "failed"
           next_time == IF going THEN next ELSE record.next_run
<1>1. clock \in Nat /\ record \in Record /\ due \in Nat \cup {NoTime}
    BY DEF TypeOK
<1>2. row.timing \in Timing /\ row.next_run \in Nat
    BY DEF Record
<1>3. going => next \in Nat
    BY <1>1, <1>2, FollowingRunIsATime DEF Ends
<1>4. next_time \in Nat
    BY <1>1, <1>3 DEF Record
<1>5. status \in Statuses
    BY <1>1 DEF Record, Statuses
<1> DEFINE ends == Ends(row)
<1>6. ends \in BOOLEAN
    BY <1>2 DEF Ends, Advances, Timing
<1>7. record' = [record EXCEPT !.result = outcome, !.expires = ends,
                               !.status = status, !.next_run = next_time]
    BY DEF Finish
<1>8. due' = IF ~Advances(row) THEN due ELSE IF Ends(row) THEN NoTime ELSE next
    BY DEF Finish
<1>9. due' \in Nat \cup {NoTime}
    BY <1>1, <1>3, <1>8
<1> HIDE DEF next, going, status, next_time, ends
<1>10. record' \in Record
    BY <1>1, <1>4, <1>5, <1>6, <1>7, RecordsWithAField
<1> QED
    BY <1>9, <1>10 DEF RecordsTyped

--------------------------------------------------------------------------------
(* The base invariant: types, and what the poll and the queue hold. *)

(* Moving a job, or the poll, on. *)
LEMMA JobsTyped ==
    ASSUME job \in JobType, NEW j \in Jobs
    PROVE  /\ \A at \in JobStates : [job EXCEPT ![j].at = at] \in JobType
           /\ \A at \in JobStates, outcome \in Results :
                  [job EXCEPT ![j].at = at, ![j].outcome = outcome] \in JobType
           /\ \A at \in JobStates, began \in Nat :
                  [job EXCEPT ![j].at = at, ![j].began = began] \in JobType
           /\ \A outcome \in Results : [job EXCEPT ![j].outcome = outcome] \in JobType
           /\ [job EXCEPT ![j] = NoWork] \in JobType
<1>1. \A at \in JobStates : [job EXCEPT ![j].at = at] \in JobType
    BY DEF JobType
<1>2. \A at \in JobStates, outcome \in Results :
          [job EXCEPT ![j].at = at, ![j].outcome = outcome] \in JobType
    BY DEF JobType
<1>3. \A at \in JobStates, began \in Nat :
          [job EXCEPT ![j].at = at, ![j].began = began] \in JobType
    BY DEF JobType
<1>4. \A outcome \in Results : [job EXCEPT ![j].outcome = outcome] \in JobType
    BY DEF JobType
<1>5. [job EXCEPT ![j] = NoWork] \in JobType
  <2>1. FirstRecord \in Record
    BY ScheduleAssumption DEF FirstRecord, Record, Statuses, Results, Timing
  <2>2. NoWork \in [at : JobStates, row : Record, began : Nat, outcome : Results]
    BY <2>1 DEF NoWork, JobStates, Results
  <2> QED
    BY <2>2 DEF JobType
<1> QED
    BY <1>1, <1>2, <1>3, <1>4, <1>5

LEMMA PollsTyped ==
    ASSUME poll \in PollType
    PROVE  /\ \A at \in PollStates : [poll EXCEPT !.at = at] \in PollType
           /\ \A at \in PollStates, row \in Record : [poll EXCEPT !.row = row, !.at = at] \in PollType
           /\ \A at \in PollStates, j \in Jobs : [poll EXCEPT !.at = at, !.token = j] \in PollType
           /\ IdlePoll \in PollType
<1>1. \A at \in PollStates : [poll EXCEPT !.at = at] \in PollType
    BY DEF PollType
<1>2. \A at \in PollStates, row \in Record : [poll EXCEPT !.row = row, !.at = at] \in PollType
    BY DEF PollType
<1>3. \A at \in PollStates, j \in Jobs : [poll EXCEPT !.at = at, !.token = j] \in PollType
    BY DEF PollType
<1>4. FirstRecord \in Record
    BY ScheduleAssumption DEF FirstRecord, Record, Statuses, Results, Timing
<1>5. IdlePoll \in PollType
    BY <1>4 DEF IdlePoll, PollType, PollStates
<1> QED
    BY <1>1, <1>2, <1>3, <1>5

(* What is queued waits in the state it was queued in. *)
LEMMA BaseHoldsAtFirst == Init => Base
<1> SUFFICES ASSUME Init PROVE Base
    OBVIOUS
<1>1. FirstRecord \in Record /\ FirstRecord.next_run \in Nat
    BY ScheduleAssumption DEF FirstRecord, Record, Statuses, Results, Timing
<1>2. NoWork \in [at : JobStates, row : Record, began : Nat, outcome : Results]
    BY <1>1 DEF NoWork, JobStates, Results
<1>3. job \in JobType
    BY <1>2 DEF Init, JobType
<1>4. poll \in PollType
    BY <1>1 DEF Init, IdlePoll, PollType, PollStates
<1>5. TypeOK
  <2>1. MaxUpsets \in Nat
      BY ScheduleAssumption
  <2>2. clock \in Nat /\ upsets \in 0..MaxUpsets
      BY <2>1 DEF Init
  <2>3. queue \in Seq(Jobs) /\ runs \in Seq([occurrence : Nat, revision : Nat, began : Nat])
      BY DEF Init
  <2>4. record \in Record /\ due \in Nat
      BY <1>1 DEF Init
  <2>5. busy = NoJob /\ claims = {} /\ started = {} /\ in_call = FALSE
      BY DEF Init
  <2> QED
      BY <1>3, <1>4, <2>2, <2>3, <2>4, <2>5 DEF TypeOK
<1>6. PollHolds
    BY DEF Init, PollHolds, IdlePoll
<1>7. QueueHolds
  <2>1. Len(queue) = 0
      BY DEF Init
  <2> QED
      BY <2>1 DEF QueueHolds
<1> QED
    BY <1>5, <1>6, <1>7 DEF Base

(* The budget of upsets is kept. *)
LEMMA UpsetsCounted ==
    ASSUME TypeOK, Smoothly \/ \E kind \in Upsets : Upset(kind)
    PROVE  upsets' \in 0..MaxUpsets
  BY ScheduleAssumption DEF TypeOK, Smoothly, Upset

(* Steps of the poll that leave the jobs alone and end with nothing in hand. *)
LEMMA EmptyHanded ==
    ASSUME Base, UNCHANGED <<queue, job>>, poll'.at \notin {"queueing", "refunding"}
    PROVE  PollHolds' /\ QueueHolds'
  BY DEF Base, PollHolds, QueueHolds

LEMMA LooksKeepBase ==
    ASSUME Base, PollStart \/ PollRead \/ PollSeesBusy \/ PollSeesStarted
    PROVE  Base'
<1>1. poll' \in PollType /\ poll'.at \notin {"queueing", "refunding"}
  <2>1. CASE PollStart \/ PollSeesBusy \/ PollSeesStarted
      <3>1. \E at \in {"reading", "idle", "started?", "interrupting", "claiming"} :
                poll' = [poll EXCEPT !.at = at]
          BY <2>1 DEF PollStart, PollSeesBusy, PollSeesStarted, Polls
      <3> QED
          BY <3>1 DEF Base, TypeOK, PollType, PollStates
  <2>2. CASE PollRead
      <3>1. \E at \in {"unlisting", "busy?", "suspending"} :
                poll' = [poll EXCEPT !.row = record, !.at = at]
          BY <2>2 DEF PollRead
      <3> QED
          BY <3>1 DEF Base, TypeOK, PollType, PollStates
  <2> QED
      BY <2>1, <2>2
<1>2. /\ UNCHANGED <<clock, redisVars, queue, job, in_call, runs>>
      /\ Smoothly \/ \E kind \in Upsets : Upset(kind)
  BY DEF PollStart, PollRead, PollSeesBusy, PollSeesStarted, Upset, Smoothly, redisVars
<1>3. TypeOK'
  BY <1>1, <1>2, UpsetsCounted DEF Base, TypeOK, redisVars
<1> QED
  BY <1>1, <1>2, <1>3, EmptyHanded DEF Base

(* Steps of the poll that write the record. *)
LEMMA WritesKeepBase ==
    ASSUME Base, PollUnlists \/ PollSuspends \/ PollRecords \/ PollInterrupts
    PROVE  Base'
<1> USE DEF Base
<1>1. \E at \in {"idle", "recording"} : poll' = [poll EXCEPT !.at = at]
  BY DEF PollUnlists, PollSuspends, PollRecords, PollInterrupts, Polls
<1>2. poll' \in PollType /\ poll'.at \notin {"queueing", "refunding"}
  BY <1>1 DEF TypeOK, PollType, PollStates
<1>3. UNCHANGED <<clock, busy, claims, started, queue, job, in_call, runs, upsets>>
  BY DEF PollUnlists, PollSuspends, PollRecords, PollInterrupts
<1>4. poll.row \in Record /\ clock \in Nat /\ record.timing \in Timing
  BY DEF TypeOK, PollType, Record
<1>5. RecordsTyped'
  <2>1. CASE PollUnlists
      BY <2>1 DEF PollUnlists, RecordsTyped, TypeOK
  <2>2. CASE PollSuspends
      <3>1. CASE UNCHANGED <<record, due>>
          BY <3>1 DEF RecordsTyped, TypeOK
      <3>2. CASE Update(poll.row.revision, "suspended", record.timing)
          BY <1>4, <3>2, UpdateTyped DEF Statuses
      <3> QED
          BY <2>2, <3>1, <3>2 DEF PollSuspends
  <2>3. CASE PollRecords
      BY <1>4, <2>3, FinishTyped DEF PollRecords, Results
  <2>4. CASE PollInterrupts
      BY <1>4, <2>4, FinishTyped DEF PollInterrupts, Results
  <2> QED
      BY <2>1, <2>2, <2>3, <2>4
<1>6. TypeOK'
  BY <1>2, <1>3, <1>5 DEF TypeOK, RecordsTyped
<1> QED
  BY <1>2, <1>3, <1>6, EmptyHanded

(* Steps of the poll that take a token, queue its job, or give it back. *)
LEMMA ClaimKeepsBase ==
    ASSUME Base, PollClaims
    PROVE  Base'
<1> USE DEF Base
<1>1. UNCHANGED <<clock, record, due, started, queue, in_call, runs, upsets>>
  BY DEF PollClaims
<1>2. CASE Polls("idle") /\ UNCHANGED <<busy, claims, job>>
  <2>1. poll' \in PollType /\ poll'.at \notin {"queueing", "refunding"}
      BY <1>2 DEF Polls, TypeOK, PollType, PollStates
  <2>2. TypeOK'
      BY <1>1, <1>2, <2>1 DEF TypeOK
  <2> QED
      BY <1>1, <1>2, <2>1, <2>2, EmptyHanded
<1>3. CASE ~(Polls("idle") /\ UNCHANGED <<busy, claims, job>>)
  <2>1. PICK j \in Jobs :
            /\ Fresh(j)
            /\ TakesBusy(j)
            /\ claims' = claims \cup {[occurrence |-> poll.row.next_run, token |-> j]}
            /\ job' = [job EXCEPT ![j] = [NoWork EXCEPT !.at = "claimed", !.row = poll.row]]
            /\ poll' = [poll EXCEPT !.at = "queueing", !.token = j]
      BY <1>3 DEF PollClaims
  <2>2. poll.row \in Record /\ poll.row.next_run \in Nat
      BY DEF TypeOK, PollType, Record
  <2>3. [NoWork EXCEPT !.at = "claimed", !.row = poll.row]
            \in [at : JobStates, row : Record, began : Nat, outcome : Results]
      BY <2>2 DEF NoWork, JobStates, Results
  <2>4. job' \in JobType
      BY <2>1, <2>3 DEF TypeOK, JobType
  <2>5. poll' \in PollType
      BY <2>1 DEF TypeOK, PollType, PollStates
  <2>6. TypeOK'
      BY <1>1, <2>1, <2>2, <2>4, <2>5 DEF TypeOK, TakesBusy
  <2>7. job'[j].at = "claimed" /\ poll'.token = j
      BY <2>1 DEF TypeOK, JobType, PollType, NoWork
  <2>8. PollHolds'
      BY <2>7 DEF PollHolds
  <2>9. \A i \in Jobs : job[i].at = "queued" => job'[i] = job[i]
      BY <2>1 DEF TypeOK, JobType, Fresh
  <2>10. \A i \in 1..Len(queue) : queue[i] \in Jobs
      BY DEF TypeOK
  <2>11. QueueHolds'
      BY <1>1, <2>9, <2>10 DEF QueueHolds
  <2> QED
      BY <2>6, <2>8, <2>11
<1> QED
  BY <1>2, <1>3

LEMMA QueueingKeepsBase ==
    ASSUME Base, PollQueues
    PROVE  Base'
<1> USE DEF Base
<1>1. poll.token \in Jobs /\ job[poll.token].at = "claimed"
  BY DEF PollQueues, PollHolds
<1>2. /\ queue' = Append(queue, poll.token)
      /\ job' = [job EXCEPT ![poll.token].at = "queued"]
      /\ poll' = IdlePoll
      /\ UNCHANGED <<clock, redisVars, in_call, runs, upsets>>
  BY DEF PollQueues
<1>3. job' \in JobType /\ poll' \in PollType
  BY <1>1, <1>2, JobsTyped, PollsTyped DEF TypeOK, JobStates
<1>4. queue \in Seq(Jobs) /\ queue' \in Seq(Jobs)
  BY <1>1, <1>2 DEF TypeOK
<1>5. TypeOK'
  BY <1>2, <1>3, <1>4 DEF TypeOK, redisVars
<1>6. PollHolds'
  BY <1>2 DEF PollHolds, IdlePoll
<1>7. job'[poll.token].at = "queued" /\ \A i \in Jobs \ {poll.token} : job'[i] = job[i]
  BY <1>1, <1>2 DEF TypeOK, JobType
<1>8. \A i \in 1..Len(queue) : queue[i] \in Jobs /\ queue[i] # poll.token
  BY <1>1, <1>4 DEF QueueHolds
<1>9. /\ Len(queue') = Len(queue) + 1
      /\ queue'[Len(queue) + 1] = poll.token
      /\ \A i \in 1..Len(queue) : queue'[i] = queue[i]
  BY <1>1, <1>2, <1>4
<1>10. Len(queue) \in Nat
  BY <1>4
<1>11. QueueHolds'
  <2> SUFFICES ASSUME NEW i \in 1..Len(queue) + 1
               PROVE  /\ job'[queue'[i]].at = "queued"
                      /\ \A k \in 1..Len(queue) + 1 : queue'[k] = queue'[i] => k = i
      BY <1>9 DEF QueueHolds
  <2>1. CASE i = Len(queue) + 1
      <3>1. \A k \in 1..Len(queue) + 1 : k = i \/ k \in 1..Len(queue)
          BY <1>10, <2>1
      <3> QED
          BY <1>7, <1>8, <1>9, <2>1, <3>1
  <2>2. CASE i \in 1..Len(queue)
      <3>1. \A k \in 1..Len(queue) + 1 : k = Len(queue) + 1 \/ k \in 1..Len(queue)
          BY <1>10
      <3>2. job'[queue[i]] = job[queue[i]]
          BY <1>7, <1>8, <2>2
      <3> QED
          BY <1>8, <1>9, <2>2, <3>1, <3>2 DEF QueueHolds
  <2> QED
      BY <1>10, <2>1, <2>2
<1> QED
  BY <1>5, <1>6, <1>11

(* A job that neither waits in the queue nor in the poll's hand moves on.    *)
LEMMA OthersWait ==
    ASSUME Base, NEW j \in Jobs, job[j].at \notin {"queued", "claimed"},
           UNCHANGED <<queue, poll>>, \A i \in Jobs \ {j} : job'[i] = job[i]
    PROVE  PollHolds' /\ QueueHolds'
<1>1. \A i \in 1..Len(queue) : queue[i] \in Jobs /\ queue[i] # j
  BY DEF Base, TypeOK, QueueHolds
<1>2. QueueHolds'
  BY <1>1 DEF Base, QueueHolds
<1>3. PollHolds'
  BY DEF Base, PollHolds
<1> QED
  BY <1>2, <1>3

LEMMA NothingMoves ==
    ASSUME Base, UNCHANGED <<queue, poll, job>>
    PROVE  PollHolds' /\ QueueHolds'
  BY DEF Base, PollHolds, QueueHolds

LEMMA RefusalKeepsBase ==
    ASSUME Base, PollFindsQueueFull \/ PollRefunds
    PROVE  Base'
<1> USE DEF Base
<1>1. poll.token \in Jobs /\ job[poll.token].at = "claimed"
  BY DEF PollFindsQueueFull, PollRefunds, PollHolds
<1>2. CASE PollFindsQueueFull
  <2>1. poll' = [poll EXCEPT !.at = "refunding"]
        /\ UNCHANGED <<clock, redisVars, queue, job, in_call, runs>>
      BY <1>2 DEF PollFindsQueueFull, Polls
  <2>2. upsets' \in 0..MaxUpsets
      BY <1>2, UpsetsCounted DEF PollFindsQueueFull, Upset
  <2>3. poll' \in PollType /\ poll'.token = poll.token
      BY <2>1 DEF TypeOK, PollType, PollStates
  <2>4. TypeOK'
      BY <2>1, <2>2, <2>3 DEF TypeOK, redisVars
  <2> QED
      BY <1>1, <2>1, <2>3, <2>4 DEF PollHolds, QueueHolds
<1>3. CASE PollRefunds
  <2>1. /\ busy' \in {busy, NoJob} /\ claims' \subseteq claims
        /\ job' = [job EXCEPT ![poll.token] = NoWork]
        /\ poll' = IdlePoll /\ upsets' \in 0..MaxUpsets
        /\ UNCHANGED <<clock, record, due, started, queue, in_call, runs>>
      BY <1>3, UpsetsCounted DEF PollRefunds, CancelsClaim, Releases, Upset, TypeOK
  <2>2. job' \in JobType /\ poll' \in PollType
      BY <1>1, <2>1, JobsTyped, PollsTyped DEF TypeOK
  <2>3. TypeOK'
      BY <2>1, <2>2 DEF TypeOK
  <2>4. \A i \in Jobs \ {poll.token} : job'[i] = job[i]
      BY <2>1 DEF TypeOK, JobType
  <2>5. \A i \in 1..Len(queue) : queue[i] \in Jobs /\ queue[i] # poll.token
      BY <1>1 DEF TypeOK, QueueHolds
  <2>6. QueueHolds'
      BY <2>1, <2>4, <2>5 DEF QueueHolds
  <2>7. PollHolds'
      BY <2>1 DEF PollHolds, IdlePoll
  <2> QED
      BY <2>3, <2>6, <2>7
<1> QED
  BY <1>2, <1>3

(* A worker takes the head of the queue. *)
LEMMA DequeueKeepsBase ==
    ASSUME Base, Dequeue
    PROVE  Base'
<1> USE DEF Base
<1> DEFINE j  == Head(queue)
           at == IF in_call THEN "discarding" ELSE "reading"
<1>1. /\ queue # <<>> /\ queue' = Tail(queue)
      /\ job' = [job EXCEPT ![j].at = at, ![j].began = clock]
      /\ UNCHANGED <<clock, redisVars, poll, in_call, runs, upsets>>
  BY DEF Dequeue
<1>2. queue \in Seq(Jobs) /\ j \in Jobs /\ j = queue[1] /\ Len(queue) \in Nat \ {0}
  BY <1>1 DEF TypeOK
<1>3. /\ queue' \in Seq(Jobs) /\ Len(queue') = Len(queue) - 1
      /\ \A i \in 1..Len(queue') : queue'[i] = queue[i + 1]
  BY <1>1, <1>2
<1>4. at \in JobStates /\ clock \in Nat
  BY DEF JobStates, TypeOK
<1> HIDE DEF j, at
<1>5. job' \in JobType /\ \A i \in Jobs \ {j} : job'[i] = job[i]
  BY <1>1, <1>2, <1>4, ZenonT(30) DEF TypeOK, JobType
<1>6. TypeOK'
  BY <1>1, <1>3, <1>5 DEF TypeOK, redisVars
<1>7. job[j].at = "queued"
  BY <1>2 DEF QueueHolds
<1>8. PollHolds'
  BY <1>1, <1>5, <1>7 DEF PollHolds
<1>9. QueueHolds'
  <2> SUFFICES ASSUME NEW i \in 1..Len(queue')
               PROVE  /\ job'[queue'[i]].at = "queued"
                      /\ \A k \in 1..Len(queue') : queue'[k] = queue'[i] => k = i
      BY DEF QueueHolds
  <2>1. i + 1 \in 1..Len(queue) /\ i + 1 # 1
      BY <1>2, <1>3
  <2>2. queue[i + 1] # j /\ queue[i + 1] \in Jobs
      BY <1>2, <2>1 DEF QueueHolds
  <2>3. job'[queue'[i]].at = "queued"
      BY <1>3, <1>5, <2>1, <2>2 DEF QueueHolds
  <2>4. ASSUME NEW k \in 1..Len(queue'), queue'[k] = queue'[i] PROVE k = i
      <3>1. k + 1 \in 1..Len(queue) /\ queue[k + 1] = queue[i + 1]
          BY <1>2, <1>3, <2>4
      <3>2. k + 1 = i + 1
          BY <2>1, <3>1 DEF QueueHolds
      <3> QED
          BY <1>2, <1>3, <3>2
  <2> QED
      BY <2>3, <2>4
<1> QED
  BY <1>6, <1>8, <1>9

(* A step of a job: it was neither queued nor in the poll's hand, it moves   *)
(* on or leaves, and everything else a job may change keeps its type.        *)
LEMMA JobsKeepBase ==
    ASSUME Base, NEW j \in Jobs, JobStep(j)
    PROVE  Base'
<1> USE DEF Base
<1> DEFINE moves == job[j].at \notin {"queued", "claimed"} /\ UNCHANGED <<clock, queue, poll, in_call>>
           counted == Smoothly \/ \E kind \in Upsets : Upset(kind)
           typed == job' \in JobType /\ \A i \in Jobs \ {j} : job'[i] = job[i]
           keys == busy' \in {busy, NoJob} /\ claims' \subseteq claims
           marks == /\ started' \subseteq Nat
                    /\ runs' \in Seq([occurrence : Nat, revision : Nat, began : Nat])
<1>1. job \in JobType /\ job[j].row \in Record /\ job[j].began \in Nat /\ job[j].outcome \in Results
  BY DEF TypeOK, JobType
<1>2. moves /\ counted
  BY DEF JobStep, Discard, ReadsRow, SuspendsRow, MarksStarted, FailsToStart, RunEnds,
         RecordsOutcome, ReleasesBusy, Smoothly, Upset, redisVars
<1>3. typed
  <2>1. ASSUME NEW w, job' = [job EXCEPT ![j] = w] PROVE \A i \in Jobs \ {j} : job'[i] = job[i]
      BY <1>1, <2>1 DEF JobType
  <2>2. CASE job' = [job EXCEPT ![j] = NoWork]
      BY <1>1, <2>1, <2>2, JobsTyped
  <2>3. CASE \E at \in JobStates : job' = [job EXCEPT ![j].at = at]
      <3>1. PICK at \in JobStates : job' = [job EXCEPT ![j].at = at]
          BY <2>3
      <3>2. [job EXCEPT ![j].at = at] \in JobType
          BY <1>1, JobsTyped
      <3>3. \A i \in Jobs \ {j} : job'[i] = job[i]
          BY <1>1, <3>1 DEF JobType
      <3> QED
          BY <3>1, <3>2, <3>3
  <2>4. CASE \E at \in JobStates, outcome \in Results :
                 job' = [job EXCEPT ![j].at = at, ![j].outcome = outcome]
      <3>1. PICK at \in JobStates, outcome \in Results :
                job' = [job EXCEPT ![j].at = at, ![j].outcome = outcome]
          BY <2>4
      <3>2. [job EXCEPT ![j].at = at, ![j].outcome = outcome] \in JobType
          BY <1>1, JobsTyped
      <3>3. \A i \in Jobs \ {j} : job'[i] = job[i]
          BY <1>1, <3>1 DEF JobType
      <3> QED
          BY <3>1, <3>2, <3>3
  <2>5. CASE \E outcome \in Results : job' = [job EXCEPT ![j].outcome = outcome]
      <3>1. PICK outcome \in Results : job' = [job EXCEPT ![j].outcome = outcome]
          BY <2>5
      <3>2. [job EXCEPT ![j].outcome = outcome] \in JobType
          BY <1>1, JobsTyped
      <3>3. \A i \in Jobs \ {j} : job'[i] = job[i]
          BY <1>1, <3>1 DEF JobType
      <3> QED
          BY <3>1, <3>2, <3>3
  <2>6. CASE Discard(j) \/ ReleasesBusy(j)
      BY <2>2, <2>6 DEF Discard, ReleasesBusy, Leaves
  <2>7. CASE ReadsRow(j)
      BY <2>3, <2>7 DEF ReadsRow, Becomes, JobStates
  <2>8. CASE SuspendsRow(j)
      BY <2>3, <2>4, <2>8 DEF SuspendsRow, Becomes, JobStates, Results
  <2>9. CASE MarksStarted(j)
      BY <2>3, <2>9 DEF MarksStarted, Becomes, JobStates
  <2>10. CASE FailsToStart(j) \/ RunEnds(j)
      BY <2>4, <2>10 DEF FailsToStart, RunEnds, JobStates, Results
  <2>11. CASE RecordsOutcome(j)
      BY <2>3, <2>5, <2>11 DEF RecordsOutcome, Becomes, JobStates, Results
  <2> QED
      BY <2>6, <2>7, <2>8, <2>9, <2>10, <2>11 DEF JobStep
<1>4. RecordsTyped'
  <2>1. CASE UNCHANGED <<record, due>>
      BY <2>1 DEF RecordsTyped, TypeOK
  <2>2. CASE Update(job[j].row.revision, "suspended", record.timing)
      BY <2>2, UpdateTyped DEF TypeOK, Record, Statuses
  <2>3. CASE Finish(job[j].row, job[j].outcome, job[j].began)
      BY <1>1, <2>3, FinishTyped
  <2> QED
      BY <2>1, <2>2, <2>3 DEF JobStep, Discard, ReadsRow, SuspendsRow, MarksStarted, FailsToStart,
         RunEnds, RecordsOutcome, ReleasesBusy, redisVars
<1>5. keys
  BY DEF JobStep, Discard, ReadsRow, SuspendsRow, MarksStarted, FailsToStart, RunEnds,
         RecordsOutcome, ReleasesBusy, redisVars, CancelsClaim, Releases
<1>6. marks
  <2>1. CASE UNCHANGED <<started, runs>>
      BY <2>1 DEF TypeOK
  <2>2. CASE MarksStarted(j) /\ ~UNCHANGED <<started, runs>>
      <3> DEFINE occurrence == job[j].row.next_run
                 run == [occurrence |-> occurrence, began |-> job[j].began,
                         revision |-> job[j].row.revision]
      <3>1. started' = started \cup {occurrence} /\ runs' = Append(runs, run)
          BY <2>2 DEF MarksStarted
      <3>2. run \in [occurrence : Nat, revision : Nat, began : Nat] /\ occurrence \in Nat
          BY <1>1 DEF Record
      <3> HIDE DEF run, occurrence
      <3> QED
          BY <3>1, <3>2 DEF TypeOK
  <2> QED
      BY <2>1, <2>2 DEF JobStep, Discard, ReadsRow, SuspendsRow, MarksStarted, FailsToStart,
         RunEnds, RecordsOutcome, ReleasesBusy, redisVars
<1>7. upsets' \in 0..MaxUpsets
  BY <1>2, UpsetsCounted
<1>8. TypeOK'
  BY <1>2, <1>3, <1>4, <1>5, <1>6, <1>7 DEF TypeOK, RecordsTyped
<1> QED
  BY <1>2, <1>3, <1>8, OthersWait

(* The people, the process, Redis' clock and the voice call. *)
LEMMA EditsKeepBase ==
    ASSUME Base, Edit \/ Delete
    PROVE  Base'
<1> USE DEF Base
<1>1. /\ UNCHANGED <<clock, busy, claims, started, processVars, runs>>
      /\ Upset("edit")
  BY DEF Edit, Delete
<1>2. record \in Record /\ record.timing \in Timing /\ clock \in Nat
  BY DEF TypeOK, Record
<1>3. \A t \in Timings : anchor_timing(t) \in Timing
  <2> SUFFICES ASSUME NEW t \in Timings PROVE anchor_timing(t) \in Timing
      OBVIOUS
  <2>1. t \in Request
      BY ScheduleAssumption
  <2> QED
      BY <1>2, <2>1 DEF anchor_timing, Request, Timing
<1>4. RecordsTyped'
  <2>1. CASE Delete
      BY <1>2, <2>1, UpdateTyped DEF Delete, Statuses
  <2>2. CASE Edit
      <3>1. PICK status \in {"enabled", "paused", record.status},
                 timing \in {anchor_timing(t) : t \in Timings} \cup {record.timing} :
                     /\ status \in {"enabled", "paused", "suspended"}
                     /\ Update(record.revision, status, timing)
          BY <2>2 DEF Edit
      <3>2. timing \in Timing /\ status \in Statuses
          BY <1>2, <1>3, <3>1 DEF Statuses
      <3> QED
          BY <3>1, <3>2, UpdateTyped
  <2> QED
      BY <2>1, <2>2
<1>5. upsets' \in 0..MaxUpsets
  BY <1>1, UpsetsCounted DEF Upset
<1>6. TypeOK'
  BY <1>1, <1>4, <1>5 DEF TypeOK, RecordsTyped, processVars
<1> QED
  BY <1>1, <1>6, NothingMoves DEF processVars

LEMMA RestartsKeepBase ==
    ASSUME Base, Crash \/ Shutdown \/ LongStop
    PROVE  Base'
<1> USE DEF Base
<1>1. ProcessLost /\ UNCHANGED <<record, due, runs>> /\ \E kind \in Upsets : Upset(kind)
  BY DEF Crash, Shutdown, LongStop, redisVars, Upset
<1>1a. clock' \in Nat
  BY ScheduleAssumption DEF Crash, Shutdown, LongStop, TypeOK
<1>2. busy' \in {busy, NoJob} /\ claims' \in {claims, {}} /\ started' \in {started, {}}
  BY DEF Crash, Shutdown, LongStop, redisVars, Releases
<1>3. FirstRecord \in Record
  BY ScheduleAssumption DEF FirstRecord, Record, Statuses, Results, Timing
<1>4. NoWork \in [at : JobStates, row : Record, began : Nat, outcome : Results]
  BY <1>3 DEF NoWork, JobStates, Results
<1>5. job' \in JobType
  BY <1>1, <1>4 DEF ProcessLost, JobType
<1>6. poll' \in PollType
  BY <1>1, PollsTyped DEF ProcessLost, TypeOK
<1>7. queue' = <<>> /\ queue' \in Seq(Jobs) /\ Len(queue') = 0
  BY <1>1 DEF ProcessLost
<1>8. in_call' \in BOOLEAN /\ upsets' \in 0..MaxUpsets
  BY <1>1, UpsetsCounted DEF ProcessLost
<1>9. TypeOK'
  BY <1>1, <1>2, <1>5, <1>6, <1>7, <1>8, <1>1a DEF TypeOK
<1>10. QueueHolds'
  BY <1>7 DEF QueueHolds
<1>11. PollHolds'
  BY <1>1 DEF PollHolds, ProcessLost, IdlePoll
<1> QED
  BY <1>9, <1>10, <1>11

LEMMA SurroundingsKeepBase ==
    ASSUME Base, Tick \/ JoinCall \/ LeaveCall \/ \E j \in Jobs : LeaseExpires(j)
    PROVE  Base'
<1> USE DEF Base
<1>1. UNCHANGED <<record, due, started, queue, job, poll, runs>>
  BY DEF Tick, JoinCall, LeaveCall, LeaseExpires, redisVars, processVars
<1>2. Smoothly \/ \E kind \in Upsets : Upset(kind)
  BY DEF Tick, JoinCall, LeaveCall, LeaseExpires, Smoothly, Upset
<1>3. busy' \in {busy, NoJob} /\ claims' \subseteq claims
  BY DEF Tick, JoinCall, LeaveCall, LeaseExpires, redisVars, CancelsClaim, Releases
<1>4. clock' \in Nat
  BY ScheduleAssumption DEF Tick, JoinCall, LeaveCall, LeaseExpires, TypeOK
<1>5. in_call' \in BOOLEAN
  BY DEF Tick, JoinCall, LeaveCall, LeaseExpires, processVars, TypeOK
<1>6. TypeOK'
  BY <1>1, <1>2, <1>3, <1>4, <1>5, UpsetsCounted DEF TypeOK
<1> QED
  BY <1>1, <1>6, NothingMoves

LEMMA StepKeepsBase == Base /\ [Next]_vars => Base'
<1> SUFFICES ASSUME Base, [Next]_vars PROVE Base'
    OBVIOUS
<1>1. CASE UNCHANGED vars
    BY <1>1 DEF Base, TypeOK, PollHolds, QueueHolds, vars, redisVars, processVars
<1>2. CASE PollStep
    BY <1>2, LooksKeepBase, WritesKeepBase, ClaimKeepsBase, QueueingKeepsBase, RefusalKeepsBase
    DEF PollStep
<1>3. CASE \E j \in Jobs : JobStep(j)
    BY <1>3, JobsKeepBase
<1> QED
    BY <1>1, <1>2, <1>3, DequeueKeepsBase, EditsKeepBase, RestartsKeepBase, SurroundingsKeepBase
    DEF Next

(* TypeOK: what poll, workers and people do to a schedule leaves records,    *)
(* keys, queue and jobs what they are, whatever the timings and the gap.     *)
THEOREM TypeCorrect == Spec => []TypeOK
<1>1. Spec => []Base
    BY BaseHoldsAtFirst, StepKeepsBase, PTL DEF Spec
<1>2. Base => TypeOK
    BY DEF Base
<1> QED
    BY <1>1, <1>2, PTL

--------------------------------------------------------------------------------
(* No overlap: the busy key is the token of the only job there is. *)

SoleJob == \A j \in Jobs : job[j].at # "over" => busy = j

LEMMA StepKeepsSoleJob ==
    ASSUME "lease" \notin Upsets
    PROVE  Base /\ SoleJob /\ [Next]_vars => SoleJob'
<1> SUFFICES ASSUME Base, SoleJob, [Next]_vars PROVE SoleJob'
    OBVIOUS
<1> USE DEF Base
<1>1. job \in JobType /\ \A j \in Jobs : j # NoJob
    BY DEF TypeOK, Jobs
<1>2. CASE UNCHANGED <<busy, job>>
    BY <1>2 DEF SoleJob
<1>3. CASE PollClaims /\ ~UNCHANGED <<busy, job>>
  <2>1. PICK j \in Jobs : /\ busy = NoJob /\ busy' = j
                          /\ job' = [job EXCEPT ![j] = [NoWork EXCEPT !.at = "claimed", !.row = poll.row]]
      BY <1>3 DEF PollClaims, TakesBusy, Claimable
  <2>2. \A i \in Jobs \ {j} : job'[i] = job[i]
      BY <1>1, <2>1 DEF JobType
  <2>3. \A i \in Jobs : job[i].at = "over"
      BY <1>1, <2>1 DEF SoleJob
  <2> QED
      BY <2>1, <2>2, <2>3 DEF SoleJob
<1>4. ASSUME NEW j \in Jobs, UNCHANGED busy, job[j].at # "over",
             \A i \in Jobs \ {j} : job'[i] = job[i]
      PROVE  SoleJob'
    BY <1>4 DEF SoleJob
<1>5. ASSUME NEW j \in Jobs, job' = [job EXCEPT ![j] = NoWork], busy' = busy \/ busy = j
      PROVE  SoleJob'
  <2>1. job'[j].at = "over" /\ \A i \in Jobs \ {j} : job'[i] = job[i]
      BY <1>1, <1>5 DEF JobType, NoWork
  <2> QED
      BY <1>5, <2>1 DEF SoleJob
<1>6. CASE PollQueues
  <2>1. poll.token \in Jobs /\ job[poll.token].at = "claimed"
      BY <1>6 DEF PollQueues, PollHolds
  <2>2. \A i \in Jobs \ {poll.token} : job'[i] = job[i]
      BY <1>1, <1>6 DEF PollQueues, JobType
  <2> QED
      BY <1>4, <1>6, <2>1, <2>2 DEF PollQueues, redisVars
<1>7. CASE PollRefunds
  <2>1. poll.token \in Jobs
      BY <1>7 DEF PollRefunds, PollHolds
  <2> QED
      BY <1>5, <1>7, <2>1 DEF PollRefunds, CancelsClaim, Releases
<1>8. CASE Dequeue
  <2>1. Head(queue) \in Jobs /\ job[Head(queue)].at = "queued"
      BY <1>8 DEF Dequeue, TypeOK, QueueHolds
  <2>2. \A i \in Jobs \ {Head(queue)} : job'[i] = job[i]
      BY <1>1, <1>8, <2>1 DEF Dequeue, JobType
  <2> QED
      BY <1>4, <1>8, <2>1, <2>2 DEF Dequeue, redisVars
<1>9. ASSUME NEW j \in Jobs, JobStep(j) PROVE SoleJob'
  <2>1. CASE Discard(j) \/ ReleasesBusy(j)
      BY <1>5, <2>1 DEF Discard, ReleasesBusy, Leaves, CancelsClaim, Releases
  <2>2. CASE ~(Discard(j) \/ ReleasesBusy(j))
      <3>1. UNCHANGED busy /\ job[j].at # "over"
          BY <1>9, <2>2 DEF JobStep, ReadsRow, SuspendsRow, MarksStarted, FailsToStart, RunEnds,
             RecordsOutcome, redisVars
      <3>2. \A i \in Jobs \ {j} : job'[i] = job[i]
          BY <1>1, <1>9, <2>2 DEF JobStep, ReadsRow, SuspendsRow, MarksStarted, FailsToStart, RunEnds,
             RecordsOutcome, Becomes, JobType
      <3> QED
          BY <1>4, <3>1, <3>2
  <2> QED
      BY <2>1, <2>2
<1>10. ASSUME NEW j \in Jobs, LeaseExpires(j) PROVE SoleJob'
  <2>1. job[j].at = "over" /\ UNCHANGED job /\ (busy' = busy \/ busy = j)
      BY <1>10 DEF LeaseExpires, Upset, CancelsClaim, Releases, processVars
  <2> QED
      BY <2>1 DEF SoleJob
<1>11. CASE Crash \/ Shutdown \/ LongStop
  <2>1. \A j \in Jobs : job'[j].at = "over"
      BY <1>11 DEF Crash, Shutdown, LongStop, ProcessLost, NoWork
  <2> QED
      BY <2>1 DEF SoleJob
<1>12. CASE PollStep
    BY <1>2, <1>3, <1>6, <1>7, <1>12 DEF PollStep, PollStart, PollRead, PollUnlists, PollSuspends,
       PollRecords, PollSeesBusy, PollSeesStarted, PollInterrupts, PollFindsQueueFull, redisVars
<1> QED
    BY <1>2, <1>8, <1>9, <1>10, <1>11, <1>12
    DEF Next, Tick, Edit, Delete, JoinCall, LeaveCall, vars, redisVars, processVars

(* NoOverlap: as long as claims are renewed while their job lives, the busy  *)
(* key of AutomationStore.claim() keeps two runs of the schedule apart,      *)
(* whatever is edited, refused, lost or left unrecorded.                     *)
THEOREM RunsDoNotOverlap ==
    ASSUME "lease" \notin Upsets
    PROVE  Spec => []NoOverlap
<1>1. Init => Base /\ SoleJob
    BY BaseHoldsAtFirst DEF Init, SoleJob, NoWork
<1>2. Base /\ SoleJob /\ [Next]_vars => (Base /\ SoleJob)'
    BY StepKeepsBase, StepKeepsSoleJob
<1>3. Base /\ SoleJob => NoOverlap
    BY DEF SoleJob, NoOverlap, Executing
<1> QED
    BY <1>1, <1>2, <1>3, PTL DEF Spec

--------------------------------------------------------------------------------
(* Started once: what has run has its marker. *)

MarkerPerRun == \A a \in DOMAIN runs : runs[a].occurrence \in started

(* StartedOnce: as long as markers last, the SET NX of execute() starts no   *)
(* occurrence twice, also when claims lapse under live jobs and the process  *)
(* crashes between any two steps.                                            *)
THEOREM NeverStartedTwice ==
    ASSUME "week" \notin Upsets
    PROVE  Spec => []StartedOnce
<1> DEFINE Inv == Base /\ MarkerPerRun /\ StartedOnce
<1>1. Init => Inv
    BY BaseHoldsAtFirst DEF Init, MarkerPerRun, StartedOnce
<1>2. Inv /\ [Next]_vars => Inv'
  <2> SUFFICES ASSUME Inv, [Next]_vars PROVE MarkerPerRun' /\ StartedOnce'
      BY StepKeepsBase
  <2>1. CASE UNCHANGED <<started, runs>>
      BY <2>1 DEF MarkerPerRun, StartedOnce
  <2>2. ASSUME NEW j \in Jobs, MarksStarted(j), ~UNCHANGED <<started, runs>>
        PROVE  MarkerPerRun' /\ StartedOnce'
      <3> DEFINE occurrence == job[j].row.next_run
                 run == [occurrence |-> occurrence, began |-> job[j].began,
                         revision |-> job[j].row.revision]
                 n == Len(runs)
      <3>1. /\ occurrence \notin started /\ started' = started \cup {occurrence}
            /\ runs' = Append(runs, run)
          BY <2>2 DEF MarksStarted, FirstStart
      <3>2. run.occurrence = occurrence
          OBVIOUS
      <3>3. runs \in Seq([occurrence : Nat, revision : Nat, began : Nat])
          BY DEF Base, TypeOK
      <3> HIDE DEF run, occurrence
      <3>4. /\ n \in Nat /\ DOMAIN runs = 1..n /\ DOMAIN runs' = 1..n + 1
            /\ runs'[n + 1] = run
            /\ \A a \in 1..n : runs'[a] = runs[a]
          BY <3>1, <3>3
      <3>5. \A a \in DOMAIN runs' : a = n + 1 \/ a \in 1..n
          BY <3>4
      <3>6. \A a \in 1..n : runs[a].occurrence \in started
          BY <3>4 DEF MarkerPerRun
      <3>7. MarkerPerRun'
          BY <3>1, <3>2, <3>4, <3>5, <3>6 DEF MarkerPerRun
      <3>8. StartedOnce'
          BY <3>1, <3>2, <3>4, <3>5, <3>6 DEF StartedOnce
      <3> QED
          BY <3>7, <3>8
  <2>3. CASE \E j \in Jobs : JobStep(j)
      BY <2>1, <2>2, <2>3 DEF JobStep, Discard, ReadsRow, SuspendsRow, FailsToStart, RunEnds,
         RecordsOutcome, ReleasesBusy, redisVars
  <2>4. CASE PollStep
      BY <2>1, <2>4 DEF PollStep, PollStart, PollRead, PollUnlists, PollSuspends, PollRecords,
         PollSeesBusy, PollSeesStarted, PollInterrupts, PollClaims, PollQueues,
         PollFindsQueueFull, PollRefunds, redisVars
  <2>5. CASE LongStop
      BY <2>5 DEF LongStop, Upset
  <2> QED
      BY <2>1, <2>3, <2>4, <2>5 DEF Next, Tick, Edit, Delete, Dequeue, LeaseExpires, Crash, Shutdown,
         JoinCall, LeaveCall, vars, redisVars
<1>3. Inv => StartedOnce
    OBVIOUS
<1> QED
    BY <1>1, <1>2, <1>3, PTL DEF Spec

--------------------------------------------------------------------------------
(* On the timetable: whoever holds a row of this revision has its timing.    *)

LEMMA MultiplesDivide ==
    ASSUME NEW a \in Nat \ {0}, NEW k \in Nat
    PROVE  (a * k) % a = 0
<1> DEFINE p == a * k
           q == p \div a
           r == p % a
<1>1. p \in Nat /\ q \in Nat /\ r \in 0..(a - 1) /\ p = a * q + r
    OBVIOUS
<1>2. a * (k - q) = r /\ k - q \in Int
    BY <1>1
<1>3. CASE k - q >= 1
  <2>1. \A x \in Int : x >= 1 => a * x >= a
      OBVIOUS
  <2> QED
      BY <1>1, <1>2, <1>3, <2>1
<1>4. CASE k - q <= -1
  <2>1. \A x \in Int : x <= -1 => a * x <= -a
      OBVIOUS
  <2> QED
      BY <1>1, <1>2, <1>4, <2>1
<1>5. CASE k - q = 0
    BY <1>1, <1>2, <1>5
<1> QED
    BY <1>2, <1>3, <1>4, <1>5

IsOn(timing, time) ==
    IF timing.once THEN time = timing.start
    ELSE time >= timing.start /\ (time - timing.start) % timing.every = 0

(* next_run() gives a time of the timetable, if it gives one, and one that   *)
(* is still to come.                                                         *)
LEMMA NextRunIsOnTheTimetable ==
    ASSUME NEW timing \in Timing, NEW after \in Int, next_run(timing, after) # NoTime
    PROVE  IsOn(timing, next_run(timing, after)) /\ next_run(timing, after) > after
<1> DEFINE gone == after - timing.start
           q    == gone \div timing.every
           slot == timing.every * (q + 1)
<1>1. /\ timing.start \in Nat /\ timing.every \in Nat \ {0} /\ timing.once \in BOOLEAN
      /\ timing.every \in Nat /\ timing.every > 0
    BY DEF Timing
<1>2. CASE timing.start > after
  <2>1. next_run(timing, after) = timing.start
      BY <1>2 DEF next_run
  <2>2. timing.every * 0 = 0 /\ (timing.every * 0) % timing.every = 0
      BY <1>1, MultiplesDivide
  <2>3. timing.start - timing.start = 0
      BY <1>1
  <2> QED
      BY <1>1, <1>2, <2>1, <2>2, <2>3 DEF IsOn
<1>3. CASE ~(timing.start > after)
  <2>1. ~timing.once /\ next_run(timing, after) = timing.start + slot
      BY <1>3 DEF next_run
  <2>2. gone \in Nat
      BY <1>1, <1>3
  <2>3. q \in Nat /\ gone < timing.every * q + timing.every
      BY <1>1, <2>2
  <2>4. slot = timing.every * q + timing.every
      BY <1>1, <2>3
  <2>5. slot \in Nat /\ slot > gone
      BY <1>1, <2>3, <2>4
  <2>6. slot % timing.every = 0
      BY <1>1, <2>3, MultiplesDivide
  <2>7. (timing.start + slot) - timing.start = slot
      BY <1>1, <2>5
  <2> HIDE DEF slot, q
  <2>8. timing.start + slot > after
      BY <1>1, <2>5
  <2> QED
      BY <1>1, <2>1, <2>5, <2>6, <2>7, <2>8 DEF IsOn
<1> QED
    BY <1>2, <1>3

(* A row was read from the record: it is not of a later revision, and one of *)
(* this revision has its timing.                                             *)
Fits(row) == /\ row.revision <= record.revision
             /\ row.revision = record.revision => row.timing = record.timing
RowsFit   == Fits(poll.row) /\ Fits(FirstRecord) /\ \A j \in Jobs : Fits(job[j].row)

(* What a step may make of the rows that are held. *)
LEMMA RowsAreCopied ==
    ASSUME Base, [Next]_vars
    PROVE  /\ poll'.row \in {poll.row, record, FirstRecord}
           /\ \A j \in Jobs : job'[j].row \in {job[j].row, poll.row, FirstRecord}
<1>1. job \in JobType /\ poll \in PollType
    BY DEF Base, TypeOK
<1>2. ASSUME NEW j \in Jobs,
             \/ \E at : job' = [job EXCEPT ![j].at = at]
             \/ \E at, o : job' = [job EXCEPT ![j].at = at, ![j].outcome = o]
             \/ \E o : job' = [job EXCEPT ![j].outcome = o]
             \/ \E at, b : job' = [job EXCEPT ![j].at = at, ![j].began = b]
             \/ job' = [job EXCEPT ![j] = NoWork]
             \/ job' = [job EXCEPT ![j] = [NoWork EXCEPT !.at = "claimed", !.row = poll.row]]
      PROVE  \A i \in Jobs : job'[i].row \in {job[i].row, poll.row, FirstRecord}
  <2>1. \A i \in Jobs \ {j} : job'[i] = job[i]
      BY <1>1, <1>2 DEF JobType
  <2>2. job'[j].row \in {job[j].row, poll.row, FirstRecord}
      <3>1. CASE job' = [job EXCEPT ![j] = NoWork]
          BY <1>1, <3>1 DEF JobType, NoWork
      <3>2. CASE job' = [job EXCEPT ![j] = [NoWork EXCEPT !.at = "claimed", !.row = poll.row]]
          BY <1>1, <3>2 DEF JobType, NoWork
      <3>3. CASE ~(\/ job' = [job EXCEPT ![j] = NoWork]
                   \/ job' = [job EXCEPT ![j] = [NoWork EXCEPT !.at = "claimed", !.row = poll.row]])
          <4>1. job'[j].row = job[j].row
              BY <1>1, <1>2, <3>3 DEF JobType
          <4> QED
              BY <4>1
      <3> QED
          BY <3>1, <3>2, <3>3
  <2> QED
      BY <2>1, <2>2
<1>3. \A j \in Jobs : job'[j].row \in {job[j].row, poll.row, FirstRecord}
  <2>1. CASE UNCHANGED job
      BY <2>1
  <2>2. CASE \E j \in Jobs : JobStep(j)
      BY <1>2, <2>1, <2>2 DEF JobStep, Discard, ReadsRow, SuspendsRow, MarksStarted, FailsToStart,
         RunEnds, RecordsOutcome, ReleasesBusy, Becomes, Leaves
  <2>3. CASE PollClaims \/ PollQueues \/ PollRefunds
      <3>1. PollQueues \/ PollRefunds => poll.token \in Jobs
          BY DEF Base, PollHolds, PollQueues, PollRefunds
      <3> QED
          BY <1>2, <2>1, <2>3, <3>1 DEF PollClaims, PollQueues, PollRefunds
  <2>4. CASE Dequeue
      <3>1. Head(queue) \in Jobs
          BY <2>4 DEF Dequeue, Base, TypeOK
      <3> QED
          BY <1>2, <2>4, <3>1 DEF Dequeue
  <2>5. CASE Crash \/ Shutdown \/ LongStop
      BY <2>5 DEF Crash, Shutdown, LongStop, ProcessLost, NoWork
  <2> QED
      BY <2>1, <2>2, <2>3, <2>4, <2>5 DEF Next, PollStep, PollStart, PollRead, PollUnlists,
         PollSuspends, PollRecords, PollSeesBusy, PollSeesStarted, PollInterrupts,
         PollFindsQueueFull, Tick, Edit, Delete, LeaseExpires, JoinCall, LeaveCall,
         vars, processVars
<1>4. poll'.row \in {poll.row, record, FirstRecord}
  <2>1. CASE UNCHANGED poll
      BY <2>1
  <2>2. CASE \E at : Polls(at)
      BY <1>1, <2>2 DEF Polls, PollType
  <2>3. CASE PollRead
      BY <1>1, <2>3 DEF PollRead, PollType
  <2>4. CASE PollClaims
      <3>1. CASE \E j \in Jobs : poll' = [poll EXCEPT !.at = "queueing", !.token = j]
          BY <1>1, <3>1 DEF PollType
      <3> QED
          BY <2>2, <2>4, <3>1 DEF PollClaims
  <2>5. CASE poll' = IdlePoll
      BY <2>5 DEF IdlePoll
  <2>6. CASE PollStep
      BY <2>2, <2>3, <2>4, <2>5, <2>6 DEF PollStep, PollStart, PollUnlists,
         PollSuspends, PollRecords, PollSeesBusy, PollSeesStarted, PollInterrupts,
         PollQueues, PollFindsQueueFull, PollRefunds
  <2>7. CASE Crash \/ Shutdown \/ LongStop
      BY <2>7 DEF Crash, Shutdown, LongStop, ProcessLost, IdlePoll
  <2> QED
      BY <2>1, <2>6, <2>7 DEF Next, Tick, Edit, Delete, Dequeue, JobStep, Discard, ReadsRow,
         SuspendsRow, MarksStarted, FailsToStart, RunEnds, RecordsOutcome, ReleasesBusy,
         LeaseExpires, JoinCall, LeaveCall, vars, processVars
<1> QED
    BY <1>3, <1>4

(* What a step may do to the record: update() it, or finish() for the row    *)
(* that the poll or a job holds.                                             *)
LEMMA RecordIsWritten ==
    ASSUME Base, [Next]_vars
    PROVE  \/ UNCHANGED record
           \/ /\ \E revision \in Nat, status \in Statuses, timing \in Timing :
                     Update(revision, status, timing)
              /\ UNCHANGED <<clock, started, runs>>
           \/ /\ \E outcome \in Results : Finish(poll.row, outcome, clock)
              /\ poll.at \in {"recording", "interrupting"} /\ poll'.at = "idle"
              /\ UNCHANGED <<clock, claims, started, runs, job>>
           \/ \E j \in Jobs :
                  /\ Finish(job[j].row, job[j].outcome, job[j].began)
                  /\ job[j].at = "recording" /\ job'[j].at = "releasing"
                  /\ UNCHANGED <<clock, claims, started, runs, poll>>
<1> DEFINE Updated == \E revision \in Nat, status \in Statuses, timing \in Timing :
                          Update(revision, status, timing)
           Recorded(j) == /\ Finish(job[j].row, job[j].outcome, job[j].began)
                          /\ job[j].at = "recording" /\ job'[j].at = "releasing"
                          /\ UNCHANGED <<clock, claims, started, runs, poll>>
           ByPoll == /\ \E outcome \in Results : Finish(poll.row, outcome, clock)
                     /\ poll.at \in {"recording", "interrupting"} /\ poll'.at = "idle"
                     /\ UNCHANGED <<clock, claims, started, runs, job>>
<1> SUFFICES ASSUME ~UNCHANGED record
             PROVE  \/ Updated /\ UNCHANGED <<clock, started, runs>>
                    \/ ByPoll
                    \/ \E j \in Jobs : Recorded(j)
    OBVIOUS
<1>1. /\ clock \in Nat /\ record \in Record /\ record.timing \in Timing /\ record.revision \in Nat
      /\ record.status \in Statuses
      /\ job \in JobType /\ poll \in PollType /\ poll.row \in Record /\ poll.row.revision \in Nat
    BY DEF Base, TypeOK, Record, PollType
<1>2. ASSUME PollSuspends PROVE Updated /\ UNCHANGED <<clock, started, runs>>
    BY <1>1, <1>2 DEF PollSuspends, Statuses
<1>3. ASSUME PollRecords \/ PollInterrupts PROVE ByPoll
  <2>1. poll'.at = "idle"
      BY <1>1, <1>3 DEF PollRecords, PollInterrupts, Polls, PollType
  <2> QED
      BY <1>1, <1>3, <2>1 DEF PollRecords, PollInterrupts, Results
<1>4. ASSUME NEW j \in Jobs, SuspendsRow(j) PROVE Updated /\ UNCHANGED <<clock, started, runs>>
  <2>1. job[j].row.revision \in Nat
      BY <1>1 DEF JobType, Record
  <2> QED
      BY <1>1, <1>4, <2>1 DEF SuspendsRow, Statuses
<1>5. ASSUME NEW j \in Jobs, RecordsOutcome(j) PROVE Recorded(j)
  <2>1. Finish(job[j].row, job[j].outcome, job[j].began) /\ job' = [job EXCEPT ![j].at = "releasing"]
      BY <1>5 DEF RecordsOutcome, Becomes
  <2>2. job'[j].at = "releasing"
      BY <1>1, <2>1 DEF JobType
  <2> QED
      BY <1>5, <2>1, <2>2 DEF RecordsOutcome
<1>6. ASSUME Delete PROVE Updated /\ UNCHANGED <<clock, started, runs>>
    BY <1>1, <1>6 DEF Delete, Statuses
<1>7. ASSUME Edit PROVE Updated /\ UNCHANGED <<clock, started, runs>>
  <2>1. \A t \in Timings : anchor_timing(t) \in Timing
      <3> SUFFICES ASSUME NEW t \in Timings PROVE anchor_timing(t) \in Timing
          OBVIOUS
      <3>1. t \in Request
          BY ScheduleAssumption
      <3> QED
          BY <1>1, <3>1 DEF anchor_timing, Request, Timing
  <2>2. PICK status \in {"enabled", "paused", record.status},
             timing \in {anchor_timing(t) : t \in Timings} \cup {record.timing} :
                 Update(record.revision, status, timing)
      BY <1>7 DEF Edit
  <2>3. timing \in Timing /\ status \in Statuses
      BY <1>1, <2>1, <2>2 DEF Statuses
  <2> QED
      BY <1>1, <1>7, <2>2, <2>3 DEF Edit
<1> HIDE DEF Updated, ByPoll, Recorded
<1>8. CASE PollStep
    BY <1>2, <1>3, <1>8 DEF PollStep, PollStart, PollRead, PollUnlists, PollSeesBusy,
       PollSeesStarted, PollClaims, PollQueues, PollFindsQueueFull, PollRefunds, redisVars
<1>9. CASE \E j \in Jobs : JobStep(j)
    BY <1>4, <1>5, <1>9 DEF JobStep, Discard, ReadsRow, MarksStarted, FailsToStart, RunEnds,
       ReleasesBusy, redisVars
<1> QED
    BY <1>6, <1>7, <1>8, <1>9 DEF Next, Tick, Dequeue, LeaseExpires, Crash, Shutdown, LongStop,
       JoinCall, LeaveCall, vars, redisVars

(* In short: update() by somebody, or finish() for a row that is held. *)
LEMMA RecordIsUpdatedOrFinished ==
    ASSUME Base, [Next]_vars
    PROVE  \/ UNCHANGED record
           \/ \E revision \in Nat, status \in Statuses, timing \in Timing :
                  Update(revision, status, timing)
           \/ \E row \in {poll.row} \cup {job[j].row : j \in Jobs}, outcome \in Results, began \in Nat :
                  Finish(row, outcome, began)
<1>1. /\ clock \in Nat
      /\ \A j \in Jobs : job[j].outcome \in Results /\ job[j].began \in Nat
    BY DEF Base, TypeOK, JobType
<1> QED
    BY <1>1, RecordIsWritten

(* What update() and finish() leave of the record. *)
LEMMA UpdateRevises ==
    ASSUME TypeOK, NEW revision \in Nat, NEW status \in Statuses, NEW timing \in Timing,
           Update(revision, status, timing)
    PROVE  /\ record'.revision = record.revision + 1
           /\ record'.status = status /\ record'.timing = timing
           /\ record'.next_run = IF status = "enabled" THEN next_run(timing, clock) ELSE record.next_run
           /\ record'.next_run # NoTime
  BY DEF Update, TypeOK, Record

LEMMA FinishAdvances ==
    ASSUME TypeOK, NEW row \in Record, NEW outcome \in Results, NEW began \in Nat,
           Finish(row, outcome, began)
    PROVE  /\ record'.revision = record.revision /\ record'.timing = record.timing
           /\ record'.status = "enabled" => record.status = "enabled" /\ ~Ends(row)
           /\ record'.next_run = IF Advances(row) /\ ~Ends(row)
                                 THEN following_run(row.timing, row.next_run, began)
                                 ELSE record.next_run
<1> DEFINE ends == Ends(row)
           next == following_run(row.timing, row.next_run, began)
<1>1. record' = [record EXCEPT
                !.result   = outcome,
                !.expires  = ends,
                !.status   = IF ~ends THEN @
                             ELSE IF outcome = "completed" THEN "completed" ELSE "failed",
                !.next_run = IF Advances(row) /\ ~ends THEN next ELSE @]
    BY DEF Finish
<1>2. record \in Record
    BY DEF TypeOK
<1>3. record'.status = IF ~ends THEN record.status
                       ELSE IF outcome = "completed" THEN "completed" ELSE "failed"
    BY <1>1, <1>2 DEF Record
<1> HIDE DEF ends, next
<1>4. /\ record'.revision = record.revision /\ record'.timing = record.timing
      /\ record'.next_run = IF Advances(row) /\ ~ends THEN next ELSE record.next_run
    BY <1>1, <1>2 DEF Record
<1> QED
    BY <1>3, <1>4 DEF ends, next

LEMMA StepKeepsRowsFit == Base /\ RowsFit /\ [Next]_vars => RowsFit'
<1> SUFFICES ASSUME Base, RowsFit, [Next]_vars PROVE RowsFit'
    OBVIOUS
<1>1. TypeOK
    BY DEF Base
<1>2. /\ record \in Record /\ poll.row \in Record /\ \A j \in Jobs : job[j].row \in Record
      /\ record.revision \in Nat /\ poll.row.revision \in Nat
      /\ \A j \in Jobs : job[j].row.revision \in Nat
    BY <1>1 DEF TypeOK, JobType, PollType, Record
<1>3. FirstRecord.revision = 1 /\ FirstRecord.timing = FirstTiming
    BY DEF FirstRecord
<1>4. \/ record'.revision = record.revision /\ record'.timing = record.timing
      \/ record'.revision = record.revision + 1
  <2>1. ASSUME NEW row \in {poll.row} \cup {job[j].row : j \in Jobs}, NEW outcome \in Results,
               NEW began \in Nat, Finish(row, outcome, began)
        PROVE  record'.revision = record.revision /\ record'.timing = record.timing
      BY <1>1, <1>2, <2>1, FinishAdvances
  <2>2. ASSUME NEW revision \in Nat, NEW status \in Statuses, NEW timing \in Timing,
               Update(revision, status, timing)
        PROVE  record'.revision = record.revision + 1
      BY <1>1, <2>2, UpdateRevises
  <2> QED
      BY <2>1, <2>2, RecordIsUpdatedOrFinished
<1>5. Fits(record)
    BY <1>2 DEF Fits
<1>7. Fits(poll.row) /\ Fits(FirstRecord) /\ \A j \in Jobs : Fits(job[j].row)
    BY DEF RowsFit
<1>8. \A row \in {poll.row, record, FirstRecord} \cup {job[j].row : j \in Jobs} :
          /\ row.revision <= record'.revision
          /\ row.revision = record'.revision => row.timing = record'.timing
    BY <1>2, <1>3, <1>4, <1>5, <1>7 DEF Fits
<1> QED
    BY <1>8, RowsAreCopied DEF RowsFit, Fits

(* OnTimetable: the revision check of AutomationStore.finish() keeps a run   *)
(* that ends after an edit from bringing the old timetable back, for every   *)
(* timetable, gap and grace, whatever is edited, lost or left unrecorded.    *)
THEOREM NextRunStaysOnTheTimetable == Spec => []OnTimetable
<1> DEFINE Inv == Base /\ RowsFit /\ OnTimetable
<1>1. Init => Inv
  <2> SUFFICES ASSUME Init PROVE RowsFit /\ OnTimetable
      BY BaseHoldsAtFirst
  <2>1. /\ record = FirstRecord /\ poll.row = FirstRecord
        /\ \A j \in Jobs : job[j].row = FirstRecord
      BY DEF Init, IdlePoll, NoWork
  <2>2. FirstRecord.revision = 1 /\ FirstTiming \in Timing /\ FirstTiming.start \in Nat
      BY ScheduleAssumption DEF FirstRecord, Timing
  <2>3. RowsFit
      BY <2>1, <2>2 DEF RowsFit, Fits
  <2>4. record.timing = FirstTiming /\ record.next_run = FirstTiming.start
      BY <2>1 DEF FirstRecord
  <2>5. (FirstTiming.start - FirstTiming.start) % FirstTiming.every = 0
      <3>1. FirstTiming.every \in Nat \ {0}
          BY <2>2 DEF Timing
      <3>2. FirstTiming.every * 0 = 0 /\ FirstTiming.start - FirstTiming.start = 0
          BY <2>2, <3>1
      <3> QED
          BY <3>1, <3>2, MultiplesDivide
  <2> QED
      BY <2>2, <2>3, <2>4, <2>5 DEF OnTimetable
<1>2. Inv /\ [Next]_vars => Inv'
  <2> SUFFICES ASSUME Inv, [Next]_vars PROVE OnTimetable'
      BY StepKeepsBase, StepKeepsRowsFit
  <2>1. TypeOK /\ clock \in Nat
      BY DEF Base, TypeOK
  <2>2. (record.status = "enabled" => IsOn(record.timing, record.next_run))
            /\ (OnTimetable' <=> (record'.status = "enabled" => IsOn(record'.timing, record'.next_run)))
      BY DEF OnTimetable, IsOn
  <2>3. ASSUME NEW revision \in Nat, NEW status \in Statuses, NEW timing \in Timing,
               Update(revision, status, timing)
        PROVE  OnTimetable'
      BY <2>1, <2>2, <2>3, UpdateRevises, NextRunIsOnTheTimetable
  <2>4. ASSUME NEW row \in {poll.row} \cup {job[j].row : j \in Jobs}, NEW outcome \in Results,
               NEW began \in Nat, Finish(row, outcome, began)
        PROVE  OnTimetable'
      <3>1. row \in Record /\ Fits(row)
          BY DEF RowsFit, Base, TypeOK, JobType, PollType
      <3>2. row.timing \in Timing /\ row.next_run \in Nat
          BY <3>1 DEF Record
      <3>3. CASE Advances(row) /\ ~Ends(row)
          <4>1. ~row.timing.once /\ row.timing = record.timing
              BY <3>1, <3>3 DEF Ends, Advances, Fits
          <4> DEFINE after == Larger(Larger(row.next_run, began + MinGap - OnTimeGrace - 1), clock)
          <4>2. after \in Int
              BY <2>1, <3>2, ScheduleAssumption DEF Larger
          <4>3. following_run(row.timing, row.next_run, began) = next_run(row.timing, after)
              BY DEF following_run
          <4>4. next_run(row.timing, after) # NoTime
              BY <3>2, <4>1, <4>2, NextRunIsATime
          <4>5. IsOn(row.timing, next_run(row.timing, after))
              BY <3>2, <4>2, <4>4, NextRunIsOnTheTimetable
          <4> QED
              BY <2>1, <2>2, <2>4, <3>1, <3>3, <4>1, <4>3, <4>5, FinishAdvances
      <3>4. CASE ~(Advances(row) /\ ~Ends(row))
          BY <2>1, <2>2, <2>4, <3>1, <3>4, FinishAdvances
      <3> QED
          BY <3>3, <3>4
  <2>5. CASE UNCHANGED record
      BY <2>2, <2>5
  <2> QED
      BY <2>3, <2>4, <2>5, RecordIsUpdatedOrFinished
<1> QED
    BY <1>1, <1>2, PTL DEF Spec

--------------------------------------------------------------------------------
(* The gap.  Ahead(j): the run j was queued for may still come, or is not    *)
(* yet recorded; Begun(j): a worker has it.                                  *)

Ahead(j) == job[j].at \in {"claimed", "queued", "discarding", "reading", "suspending", "marking",
                           "running", "recording"}
Begun(j) == job[j].at \in {"reading", "suspending", "marking", "running", "recording"}
Looking  == poll.at \in {"busy?", "started?", "claiming"}

(* How a job comes to be where it is. *)
ClaimedFor(j) ==
    /\ poll.at = "claiming" /\ ~Claimed(poll.row.next_run) /\ poll'.at = "queueing"
    /\ job'[j].at = "claimed" /\ job'[j].row = poll.row
    /\ [occurrence |-> poll.row.next_run, token |-> j] \in claims'
    /\ UNCHANGED <<clock, record, started, runs>>
MovedOn(j) ==
    /\ Ahead(j) /\ job'[j].row = job[j].row
    /\ Begun(j)' => \/ Begun(j) /\ job'[j].began = job[j].began
                    \/ job[j].at = "queued" /\ job'[j].began = clock /\ UNCHANGED <<clock, started, runs>>
    /\ job'[j].at \in {"claimed", "queued"} => job[j].at \in {"claimed", "queued"}
    /\ job'[j].at \in {"reading", "marking"} => job[j].at \in {"queued", "reading", "marking"}

LEMMA JobsMoveOn ==
    ASSUME Base, [Next]_vars, NEW j \in Jobs, Ahead(j)'
    PROVE  MovedOn(j) \/ ClaimedFor(j)
<1>1. job \in JobType /\ poll \in PollType
    BY DEF Base, TypeOK
<1>2. CASE UNCHANGED job
    BY <1>2 DEF MovedOn, Ahead, Begun
<1>3. CASE job'[j] = job[j]
    BY <1>3 DEF MovedOn, Ahead, Begun
<1>4. ASSUME NEW i \in Jobs, JobStep(i) PROVE MovedOn(j)
  <2>1. CASE i # j
      <3>1. job'[j] = job[j]
          BY <1>1, <1>4, <2>1 DEF JobStep, Discard, ReadsRow, SuspendsRow, MarksStarted, FailsToStart,
             RunEnds, RecordsOutcome, ReleasesBusy, Becomes, Leaves, JobType
      <3> QED
          BY <1>3, <3>1 DEF MovedOn, Ahead, Begun
  <2>2. CASE i = j
      <3>1. CASE Discard(j) \/ ReleasesBusy(j)
          BY <1>1, <3>1 DEF Discard, ReleasesBusy, Leaves, JobType, NoWork, Ahead
      <3>2. CASE ReadsRow(j)
          <4>1. /\ job[j].at = "reading" /\ job'[j].row = job[j].row /\ job'[j].began = job[j].began
                /\ job'[j].at \in {"marking", "releasing", "suspending"}
              BY <1>1, <3>2 DEF ReadsRow, Becomes, JobType
          <4> QED
              BY <4>1 DEF MovedOn, Ahead, Begun
      <3>3. CASE SuspendsRow(j) \/ FailsToStart(j) \/ RunEnds(j) \/ RecordsOutcome(j)
          <4>1. /\ job[j].at \in {"suspending", "marking", "running", "recording"}
                /\ job'[j].row = job[j].row /\ job'[j].began = job[j].began
                /\ job'[j].at \in {"recording", "releasing"}
              BY <1>1, <3>3 DEF SuspendsRow, FailsToStart, RunEnds, RecordsOutcome, Becomes, JobType
          <4> QED
              BY <4>1 DEF MovedOn, Ahead, Begun
      <3>4. CASE MarksStarted(j)
          <4>1. /\ job[j].at = "marking" /\ job'[j].row = job[j].row /\ job'[j].began = job[j].began
                /\ job'[j].at \in {"running", "releasing"}
              BY <1>1, <3>4 DEF MarksStarted, Becomes, JobType
          <4> QED
              BY <4>1 DEF MovedOn, Ahead, Begun
      <3> QED
          BY <1>4, <2>2, <3>1, <3>2, <3>3, <3>4 DEF JobStep
  <2> QED
      BY <2>1, <2>2
<1>5. CASE PollClaims /\ ~UNCHANGED job
  <2>1. PICK i \in Jobs :
            /\ claims' = claims \cup {[occurrence |-> poll.row.next_run, token |-> i]}
            /\ job' = [job EXCEPT ![i] = [NoWork EXCEPT !.at = "claimed", !.row = poll.row]]
            /\ poll' = [poll EXCEPT !.at = "queueing", !.token = i]
            /\ Claimable(poll.row.next_run)
      BY <1>5 DEF PollClaims
  <2>2. CASE i = j
      <3>1. job'[j].at = "claimed" /\ job'[j].row = poll.row /\ poll'.at = "queueing"
          BY <1>1, <2>1, <2>2 DEF JobType, PollType, NoWork
      <3> QED
          BY <1>5, <2>1, <2>2, <3>1 DEF ClaimedFor, Claimable, PollClaims
  <2>3. CASE i # j
      BY <1>1, <1>3, <2>1, <2>3 DEF JobType
  <2> QED
      BY <2>2, <2>3
<1>6. CASE PollQueues
  <2>1. poll.token \in Jobs /\ job[poll.token].at = "claimed"
      BY <1>6 DEF PollQueues, PollHolds, Base
  <2>2. CASE poll.token = j
      <3>1. job'[j].at = "queued" /\ job'[j].row = job[j].row
          BY <1>1, <1>6, <2>2 DEF PollQueues, JobType
      <3> QED
          BY <2>1, <2>2, <3>1 DEF MovedOn, Ahead, Begun
  <2>3. CASE poll.token # j
      BY <1>1, <1>3, <1>6, <2>1, <2>3 DEF PollQueues, JobType
  <2> QED
      BY <2>2, <2>3
<1>7. CASE PollRefunds
  <2>1. poll.token \in Jobs
      BY <1>7 DEF PollRefunds, PollHolds, Base
  <2>2. CASE poll.token = j
      BY <1>1, <1>7, <2>2 DEF PollRefunds, JobType, NoWork, Ahead
  <2>3. CASE poll.token # j
      BY <1>1, <1>3, <1>7, <2>1, <2>3 DEF PollRefunds, JobType
  <2> QED
      BY <2>2, <2>3
<1>8. CASE Dequeue
  <2> DEFINE i == Head(queue)
             at == IF in_call THEN "discarding" ELSE "reading"
  <2>1. i \in Jobs /\ job[i].at = "queued"
      <3>1. queue \in Seq(Jobs) /\ i = queue[1] /\ 1 \in 1..Len(queue)
          BY <1>8 DEF Dequeue, Base, TypeOK
      <3> QED
          BY <3>1 DEF Base, QueueHolds
  <2>2. job' = [job EXCEPT ![i].at = at, ![i].began = clock]
      BY <1>8 DEF Dequeue
  <2>2a. at \in {"discarding", "reading"}
      OBVIOUS
  <2> HIDE DEF i, at
  <2>3. CASE i = j
      <3>1. job'[j].at = at /\ job'[j].row = job[j].row /\ job'[j].began = clock
          BY <1>1, <2>2, <2>3 DEF JobType
      <3> QED
          BY <1>8, <2>1, <2>2a, <2>3, <3>1 DEF MovedOn, Ahead, Begun, Dequeue, redisVars
  <2>4. CASE i # j
      BY <1>1, <1>3, <2>1, <2>2, <2>4 DEF JobType
  <2> QED
      BY <2>3, <2>4
<1>9. CASE Crash \/ Shutdown \/ LongStop
    BY <1>9 DEF Crash, Shutdown, LongStop, ProcessLost, NoWork, Ahead
<1> QED
    BY <1>2, <1>4, <1>5, <1>6, <1>7, <1>8, <1>9 DEF Next, PollStep, PollStart, PollRead, PollUnlists,
       PollSuspends, PollRecords, PollSeesBusy, PollSeesStarted, PollInterrupts,
       PollFindsQueueFull, Tick, Edit, Delete, LeaseExpires, JoinCall, LeaveCall,
       vars, processVars

(* How the poll comes to look at a row. *)
LEMMA PollLooks ==
    ASSUME Base, [Next]_vars
    PROVE  /\ Looking' =>
                  \/ Looking /\ poll'.row = poll.row
                  \/ poll'.row = record /\ UNCHANGED <<clock, redisVars, job, runs>>
           /\ poll'.at \in {"started?", "interrupting", "claiming"} =>
                  \/ poll.at \in {"started?", "interrupting", "claiming"}
                  \/ busy = NoJob /\ UNCHANGED job
           /\ poll'.at = "recording" =>
                  \/ poll.at = "recording" /\ poll'.row = poll.row
                  \/ /\ poll'.row = poll.row
                     /\ Update(poll.row.revision, "suspended", record.timing)
<1>1. poll \in PollType
    BY DEF Base, TypeOK
<1> USE DEF Looking
<1>2. CASE UNCHANGED poll
    BY <1>2
<1>3. CASE PollRead
  <2>1. poll'.row = record /\ poll'.at \in {"unlisting", "suspending", "busy?"}
      BY <1>1, <1>3 DEF PollRead, PollType
  <2> QED
      BY <1>3, <2>1 DEF PollRead
<1>4. CASE PollSuspends
  <2>1. CASE Polls("recording")
      <3>1. poll'.row = poll.row /\ poll'.at = "recording"
          BY <1>1, <2>1 DEF Polls, PollType
      <3> QED
          BY <1>1, <1>4, <2>1, <3>1 DEF PollSuspends, Polls, PollType
  <2>2. CASE Polls("idle")
      BY <1>1, <2>2 DEF Polls, PollType
  <2> QED
      BY <1>4, <2>1, <2>2 DEF PollSuspends
<1>5. CASE PollSeesBusy
  <2>1. poll.at = "busy?" /\ poll'.row = poll.row /\ poll'.at \in {"idle", "started?"}
        /\ (poll'.at = "started?" => busy = NoJob) /\ UNCHANGED job
      BY <1>1, <1>5 DEF PollSeesBusy, Polls, PollType
  <2> QED
      BY <2>1
<1>6. CASE PollSeesStarted
  <2>1. poll.at = "started?" /\ poll'.row = poll.row /\ poll'.at \in {"interrupting", "claiming"}
      BY <1>1, <1>6 DEF PollSeesStarted, Polls, PollType
  <2> QED
      BY <2>1
<1>7. CASE poll'.at \in {"idle", "reading", "queueing", "refunding"}
    BY <1>7
<1>8. CASE PollStart \/ PollUnlists \/ PollRecords \/ PollInterrupts \/ PollFindsQueueFull
    BY <1>1, <1>7, <1>8 DEF PollStart, PollUnlists, PollRecords, PollInterrupts, PollFindsQueueFull,
       Polls, PollType
<1>9. CASE PollClaims
    BY <1>1, <1>7, <1>9 DEF PollClaims, Polls, PollType
<1>10. CASE PollQueues \/ PollRefunds \/ Crash \/ Shutdown \/ LongStop
    BY <1>7, <1>10 DEF PollQueues, PollRefunds, Crash, Shutdown, LongStop, ProcessLost, IdlePoll
<1> QED
    BY <1>2, <1>3, <1>4, <1>5, <1>6, <1>8, <1>9, <1>10 DEF Next, PollStep, Tick, Edit, Delete, Dequeue,
       JobStep, Discard, ReadsRow, SuspendsRow, MarksStarted, FailsToStart, RunEnds, RecordsOutcome,
       ReleasesBusy, LeaseExpires, JoinCall, LeaveCall, vars, processVars

(* Whose claims are dropped. *)
LEMMA ClaimsStay ==
    ASSUME Base, [Next]_vars, "lease" \notin Upsets, NEW c \in claims, c \notin claims'
    PROVE  ~Ahead(c.token)' /\ (Ahead(c.token) \/ ~Looking')
<1>1. job \in JobType /\ c.token \in Jobs
    BY DEF Base, TypeOK
<1>2. ASSUME NEW j \in Jobs, Discard(j) PROVE ~Ahead(c.token)' /\ Ahead(c.token)
  <2>1. c.token = j /\ job[j].at = "discarding" /\ job' = [job EXCEPT ![j] = NoWork]
      BY <1>2 DEF Discard, CancelsClaim, Leaves
  <2>2. job'[j].at = "over"
      BY <1>1, <2>1 DEF JobType, NoWork
  <2> QED
      BY <2>1, <2>2 DEF Ahead
<1>3. CASE PollRefunds
  <2>1. c.token = poll.token /\ job' = [job EXCEPT ![poll.token] = NoWork] /\ poll.token \in Jobs
        /\ job[poll.token].at = "claimed"
      BY <1>3 DEF PollRefunds, CancelsClaim, PollHolds, Base
  <2>2. job'[poll.token].at = "over"
      BY <1>1, <2>1 DEF JobType, NoWork
  <2> QED
      BY <2>1, <2>2 DEF Ahead
<1>4. ASSUME NEW j \in Jobs, LeaseExpires(j) PROVE ~Ahead(c.token)' /\ ~Looking'
  <2>1. c.token = j /\ job[j].at = "over" /\ poll.at = "idle" /\ UNCHANGED <<job, poll>>
      BY <1>4 DEF LeaseExpires, Upset, CancelsClaim, processVars
  <2> QED
      BY <2>1 DEF Ahead, Looking
<1>5. CASE LongStop
    BY <1>1, <1>5 DEF LongStop, ProcessLost, NoWork, IdlePoll, Ahead, Looking
<1>6. CASE PollStep
    BY <1>3, <1>6 DEF PollStep, PollStart, PollRead, PollUnlists, PollSuspends, PollRecords,
       PollSeesBusy, PollSeesStarted, PollInterrupts, PollClaims, PollQueues,
       PollFindsQueueFull, redisVars
<1>7. CASE \E j \in Jobs : JobStep(j)
    BY <1>2, <1>7 DEF JobStep, ReadsRow, SuspendsRow, MarksStarted, FailsToStart, RunEnds,
       RecordsOutcome, ReleasesBusy, redisVars
<1> QED
    BY <1>4, <1>5, <1>6, <1>7 DEF Next, Tick, Edit, Delete, Dequeue, Crash, Shutdown, JoinCall, LeaveCall,
       vars, redisVars

(* When runs are added and markers go. *)
Starts(j) ==
    /\ job[j].at = "marking" /\ job'[j].at = "running" /\ job[j].row.next_run \notin started
    /\ started' = started \cup {job[j].row.next_run}
    /\ runs' = Append(runs, [occurrence |-> job[j].row.next_run, began |-> job[j].began,
                             revision |-> job[j].row.revision])
    /\ UNCHANGED <<clock, record, claims, poll>>
Forgotten ==
    /\ "week" \in Upsets
    /\ clock' = clock + MarkerTTL /\ poll'.at = "idle" /\ \A j \in Jobs : job'[j].at = "over"
    /\ UNCHANGED <<record, runs>>

LEMMA RunsAreAdded ==
    ASSUME Base, [Next]_vars
    PROVE  /\ clock' >= clock
           /\ UNCHANGED <<started, runs>> \/ Forgotten \/ \E j \in Jobs : Starts(j)
<1>1. job \in JobType /\ clock \in Nat
    BY DEF Base, TypeOK
<1>2. ASSUME NEW j \in Jobs, MarksStarted(j), ~UNCHANGED <<started, runs>> PROVE Starts(j)
  <2>1. job'[j].at = "running"
      BY <1>1, <1>2 DEF MarksStarted, Becomes, JobType
  <2> QED
      BY <1>2, <2>1 DEF MarksStarted, FirstStart, Starts
<1>3. CASE LongStop
  <2>1. /\ "week" \in Upsets /\ clock' = clock + MarkerTTL /\ UNCHANGED <<record, runs>>
        /\ poll' = IdlePoll /\ job' = [j \in Jobs |-> NoWork]
      BY <1>3 DEF LongStop, ProcessLost, Upset
  <2>2. poll'.at = "idle" /\ \A j \in Jobs : job'[j].at = "over"
      BY <2>1 DEF NoWork, IdlePoll
  <2>3. MarkerTTL \in Nat
      BY ScheduleAssumption
  <2> QED
      BY <1>1, <2>1, <2>2, <2>3 DEF Forgotten
<1>4. ASSUME PollStep PROVE UNCHANGED <<clock, started, runs>>
    BY <1>4 DEF PollStep, PollStart, PollRead, PollUnlists, PollSuspends, PollRecords,
       PollSeesBusy, PollSeesStarted, PollInterrupts, PollClaims, PollQueues, PollRefunds,
       PollFindsQueueFull, redisVars
<1>5. ASSUME NEW j \in Jobs, JobStep(j)
      PROVE  clock' = clock /\ (UNCHANGED <<started, runs>> \/ Starts(j))
  <2>1. CASE MarksStarted(j)
      BY <1>2, <2>1 DEF MarksStarted
  <2>2. CASE ~MarksStarted(j)
      BY <1>5, <2>2 DEF JobStep, Discard, ReadsRow, SuspendsRow, FailsToStart, RunEnds,
         RecordsOutcome, ReleasesBusy, redisVars
  <2> QED
      BY <2>1, <2>2
<1> QED
    BY <1>1, <1>3, <1>4, <1>5 DEF Next, Tick, Edit, Delete, Dequeue, Crash, Shutdown, LeaseExpires,
       JoinCall, LeaveCall, vars, redisVars

(* following_run() of a timetable leaves the gap after the start of the run. *)
LEMMA FollowingRunLeavesTheGap ==
    ASSUME NEW timing \in Timing, ~timing.once, clock \in Nat,
           NEW occurrence \in Nat, NEW began \in Nat
    PROVE  following_run(timing, occurrence, began) >= began + MinGap - OnTimeGrace
<1> DEFINE gap   == began + MinGap - OnTimeGrace
           after == Larger(Larger(occurrence, began + MinGap - OnTimeGrace - 1), clock)
<1>1. following_run(timing, occurrence, began) = next_run(timing, after)
    BY DEF following_run
<1>2. gap \in Int /\ after \in Int /\ after >= gap - 1
    BY ScheduleAssumption DEF Larger
<1> HIDE DEF gap, after
<1>3. next_run(timing, after) \in Nat
    BY <1>2, NextRunIsATime
<1>4. next_run(timing, after) > after
    BY <1>2, <1>3, NextRunIsOnTheTimetable
<1>5. next_run(timing, after) >= gap
    BY <1>2, <1>3, <1>4
<1> QED
    BY <1>1, <1>5 DEF gap

(* How the record comes to be what it is: revised by update(), or advanced   *)
(* by finish(), past the gap after what it was advanced for.                 *)
Revised == record'.revision = record.revision + 1 /\ UNCHANGED <<clock, started, runs>>
Advanced(row, began) ==
    /\ record'.revision = record.revision
    /\ \/ record'.next_run = record.next_run
       \/ Advances(row) /\ record'.next_run >= began + MinGap - OnTimeGrace
PollRecorded ==
    /\ Advanced(poll.row, clock)
    /\ poll.at \in {"recording", "interrupting"} /\ poll'.at = "idle"
    /\ UNCHANGED <<clock, claims, started, runs, job>>
JobRecorded(j) ==
    /\ Advanced(job[j].row, job[j].began)
    /\ job[j].at = "recording" /\ job'[j].at = "releasing"
    /\ UNCHANGED <<clock, claims, started, runs, poll>>

LEMMA RecordMovesOn ==
    ASSUME Base, [Next]_vars
    PROVE  \/ UNCHANGED record
           \/ Revised
           \/ PollRecorded
           \/ \E j \in Jobs : JobRecorded(j)
<1>1. /\ TypeOK /\ clock \in Nat /\ poll.row \in Record
      /\ \A j \in Jobs : job[j].row \in Record /\ job[j].outcome \in Results /\ job[j].began \in Nat
    BY DEF Base, TypeOK, JobType, PollType
<1>2. ASSUME NEW row \in Record, NEW outcome \in Results, NEW began \in Nat,
             Finish(row, outcome, began)
      PROVE  Advanced(row, began)
  <2>1. row.timing \in Timing /\ row.next_run \in Nat
      BY DEF Record
  <2>2. CASE Advances(row) /\ ~Ends(row)
      <3>1. ~row.timing.once
          BY <2>2 DEF Ends
      <3>2. following_run(row.timing, row.next_run, began) >= began + MinGap - OnTimeGrace
          BY <1>1, <2>1, <3>1, FollowingRunLeavesTheGap
      <3> QED
          BY <1>1, <1>2, <2>2, <3>2, FinishAdvances DEF Advanced
  <2>3. CASE ~(Advances(row) /\ ~Ends(row))
      BY <1>1, <1>2, <2>3, FinishAdvances DEF Advanced
  <2> QED
      BY <2>2, <2>3
<1>3. ASSUME NEW revision \in Nat, NEW status \in Statuses, NEW timing \in Timing,
             Update(revision, status, timing), UNCHANGED <<clock, started, runs>>
      PROVE  Revised
    BY <1>1, <1>3, UpdateRevises DEF Revised
<1>4. ASSUME NEW outcome \in Results, Finish(poll.row, outcome, clock)
      PROVE  Advanced(poll.row, clock)
    BY <1>1, <1>2, <1>4
<1>5. ASSUME NEW j \in Jobs, Finish(job[j].row, job[j].outcome, job[j].began)
      PROVE  Advanced(job[j].row, job[j].began)
    BY <1>1, <1>2, <1>5
<1> HIDE DEF Revised, Advanced
<1> QED
    BY <1>3, <1>4, <1>5, RecordIsWritten DEF PollRecorded, JobRecorded

--------------------------------------------------------------------------------
(* The rows that are held are fresh: between two steps of a job, only its    *)
(* own finish() advances the revision it was queued for, and the poll claims *)
(* no occurrence that a job has been through.                                *)

Alone        == poll.at \in {"started?", "interrupting", "claiming"} =>
                    \A j \in Jobs : ~Ahead(j)
RevisedFirst == poll.at = "recording" => poll.row.revision < record.revision
HoldsClaim   == \A j \in Jobs :
                    Ahead(j) => [occurrence |-> job[j].row.next_run, token |-> j] \in claims
JobsFresh    == \A j \in Jobs :
                    Ahead(j) /\ job[j].row.revision = record.revision =>
                        job[j].row.next_run = record.next_run
LookFresh    == Looking /\ poll.row.revision = record.revision =>
                    \/ poll.row.next_run = record.next_run
                    \/ \E c \in claims : c.occurrence = poll.row.next_run /\ ~Ahead(c.token)
LookSame     == \A j \in Jobs :
                    Looking /\ Ahead(j) /\ job[j].row.revision = poll.row.revision =>
                        job[j].row.next_run = poll.row.next_run

Freshness == Alone /\ RevisedFirst /\ HoldsClaim /\ JobsFresh /\ LookFresh /\ LookSame

LEMMA StepKeepsFreshness ==
    ASSUME "lease" \notin Upsets, Base, SoleJob, RowsFit, Freshness, [Next]_vars
    PROVE  Freshness'
<1> USE DEF Freshness
<1>1. /\ record.revision \in Nat /\ poll.row.revision \in Nat
      /\ \A j \in Jobs : job[j].row.revision \in Nat
      /\ poll.row.revision <= record.revision
      /\ \A j \in Jobs : job[j].row.revision <= record.revision
    BY DEF Base, TypeOK, JobType, PollType, Record, RowsFit, Fits
<1>2. \A j \in Jobs : Ahead(j)' => MovedOn(j) \/ ClaimedFor(j)
    BY JobsMoveOn
<1>3. \A i, j \in Jobs : job[i].at # "over" /\ job[j].at # "over" => i = j
    BY DEF SoleJob
<1>4. \A j \in Jobs : Ahead(j) => job[j].at # "over"
    BY DEF Ahead
<1>5. Alone'
  <2> SUFFICES ASSUME poll'.at \in {"started?", "interrupting", "claiming"}, NEW j \in Jobs, Ahead(j)'
               PROVE  FALSE
      BY DEF Alone
  <2>1. ~Ahead(j)
      <3>1. CASE poll.at \in {"started?", "interrupting", "claiming"}
          BY <3>1 DEF Alone
      <3>2. CASE busy = NoJob
          BY <1>4, <3>2 DEF SoleJob, Jobs
      <3> QED
          BY <3>1, <3>2, PollLooks
  <2>2. ClaimedFor(j)
      BY <1>2, <2>1 DEF MovedOn
  <2> QED
      BY <2>2 DEF ClaimedFor
<1>6. RevisedFirst'
  <2> SUFFICES ASSUME poll'.at = "recording" PROVE poll'.row.revision < record'.revision
      BY DEF RevisedFirst
  <2>1. \/ UNCHANGED record
        \/ record'.revision = record.revision
        \/ record'.revision = record.revision + 1
      BY RecordMovesOn DEF Revised, PollRecorded, JobRecorded, Advanced
  <2>2. CASE poll.at = "recording" /\ poll'.row = poll.row
      BY <1>1, <2>1, <2>2 DEF RevisedFirst
  <2>3. CASE poll'.row = poll.row /\ Update(poll.row.revision, "suspended", record.timing)
      <3>1. record'.revision = record.revision + 1
          BY <1>1, <2>3, UpdateRevises DEF Base, TypeOK, Record, Statuses
      <3> QED
          BY <1>1, <2>3, <3>1
  <2> QED
      BY <2>2, <2>3, PollLooks
<1>7. HoldsClaim'
  <2> SUFFICES ASSUME NEW j \in Jobs, Ahead(j)'
               PROVE  [occurrence |-> job'[j].row.next_run, token |-> j] \in claims'
      BY DEF HoldsClaim
  <2>1. CASE MovedOn(j)
      <3> DEFINE c == [occurrence |-> job[j].row.next_run, token |-> j]
      <3>1. c \in claims /\ c.token = j /\ job'[j].row = job[j].row
          BY <2>1 DEF MovedOn, HoldsClaim
      <3>2. c \in claims'
          BY <3>1, ClaimsStay
      <3> QED
          BY <3>1, <3>2
  <2>2. CASE ClaimedFor(j)
      BY <2>2 DEF ClaimedFor
  <2> QED
      BY <1>2, <2>1, <2>2
<1>8. JobsFresh'
  <2> SUFFICES ASSUME NEW j \in Jobs, Ahead(j)', job'[j].row.revision = record'.revision
               PROVE  job'[j].row.next_run = record'.next_run
      BY DEF JobsFresh
  <2>1. CASE ClaimedFor(j)
      <3>1. poll.row.revision = record.revision /\ ~Claimed(poll.row.next_run) /\ Looking
          BY <2>1 DEF ClaimedFor, Looking
      <3>2. poll.row.next_run = record.next_run
          BY <3>1 DEF LookFresh, Claimed
      <3> QED
          BY <2>1, <3>2 DEF ClaimedFor
  <2>2. CASE MovedOn(j)
      <3>1. Ahead(j) /\ job'[j].row = job[j].row
          BY <2>2 DEF MovedOn
      <3>2. CASE UNCHANGED record
          BY <3>1, <3>2 DEF JobsFresh
      <3>3. CASE Revised
          BY <1>1, <3>1, <3>3 DEF Revised
      <3>4. CASE PollRecorded
          <4>1. poll.at = "recording"
              BY <1>4, <3>1, <3>4 DEF PollRecorded, Alone
          <4>2. ~Advances(poll.row)
              BY <1>1, <4>1 DEF RevisedFirst, Advances
          <4> QED
              BY <3>1, <3>4, <4>2 DEF PollRecorded, Advanced, JobsFresh
      <3>5. ASSUME NEW i \in Jobs, JobRecorded(i) PROVE FALSE
          <4>1. job[i].at = "recording" /\ job'[i].at = "releasing"
              BY <3>5 DEF JobRecorded
          <4>2. i = j
              BY <1>3, <1>4, <3>1, <4>1
          <4> QED
              BY <4>1, <4>2 DEF Ahead
      <3> QED
          BY <3>2, <3>3, <3>4, <3>5, RecordMovesOn
  <2> QED
      BY <1>2, <2>1, <2>2
<1>9. LookFresh'
  <2> SUFFICES ASSUME Looking', poll'.row.revision = record'.revision
               PROVE  \/ poll'.row.next_run = record'.next_run
                      \/ \E c \in claims' : c.occurrence = poll'.row.next_run /\ ~Ahead(c.token)'
      BY DEF LookFresh
  <2>1. CASE poll'.row = record /\ UNCHANGED <<clock, redisVars, job, runs>>
      BY <2>1 DEF redisVars
  <2>2. CASE Looking /\ poll'.row = poll.row
      <3>1. ASSUME NEW c \in claims, ~Ahead(c.token) PROVE c \in claims' /\ ~Ahead(c.token)'
          <4>1. c \in claims'
              BY <3>1, ClaimsStay
          <4>2. c.token \in Jobs
              BY DEF Base, TypeOK
          <4>3. ~ClaimedFor(c.token)
              BY DEF ClaimedFor, Looking
          <4>4. ~MovedOn(c.token)
              BY <3>1 DEF MovedOn
          <4> QED
              BY <1>2, <4>1, <4>2, <4>3, <4>4
      <3>2. CASE poll.row.revision = record.revision /\ poll.row.next_run # record.next_run
          BY <2>2, <3>1, <3>2 DEF LookFresh
      <3>3. CASE UNCHANGED record
          BY <2>2, <3>2, <3>3
      <3>4. CASE Revised
          BY <1>1, <2>2, <3>4 DEF Revised
      <3>5. CASE PollRecorded
          BY <3>5 DEF PollRecorded, Looking
      <3>6. ASSUME NEW i \in Jobs, JobRecorded(i), poll.row.next_run = record.next_run,
                   record'.next_run # record.next_run
            PROVE  \E c \in claims' : c.occurrence = poll'.row.next_run /\ ~Ahead(c.token)'
          <4>1. /\ job[i].at = "recording" /\ job'[i].at = "releasing" /\ claims' = claims
                /\ job[i].row.revision = record.revision
              BY <3>6 DEF JobRecorded, Advanced, Advances
          <4>2. Ahead(i) /\ ~Ahead(i)'
              BY <4>1 DEF Ahead
          <4>3. job[i].row.next_run = poll.row.next_run
              BY <3>6, <4>1, <4>2 DEF JobsFresh
          <4>4. [occurrence |-> job[i].row.next_run, token |-> i] \in claims'
              BY <4>1, <4>2 DEF HoldsClaim
          <4> QED
              BY <2>2, <4>2, <4>3, <4>4
      <3>7. ASSUME NEW i \in Jobs, JobRecorded(i) PROVE record'.revision = record.revision
          BY <3>7 DEF JobRecorded, Advanced
      <3> QED
          BY <2>2, <3>2, <3>3, <3>4, <3>5, <3>6, <3>7, RecordMovesOn
  <2> QED
      BY <2>1, <2>2, PollLooks
<1>10. LookSame'
  <2> SUFFICES ASSUME NEW j \in Jobs, Looking', Ahead(j)',
                      job'[j].row.revision = poll'.row.revision
               PROVE  job'[j].row.next_run = poll'.row.next_run
      BY DEF LookSame
  <2>1. CASE poll'.row = record /\ UNCHANGED <<clock, redisVars, job, runs>>
      BY <2>1 DEF JobsFresh, Ahead
  <2>2. CASE Looking /\ poll'.row = poll.row
      <3>1. MovedOn(j)
          BY <1>2 DEF ClaimedFor, Looking
      <3> QED
          BY <2>2, <3>1 DEF MovedOn, LookSame
  <2> QED
      BY <2>1, <2>2, PollLooks
<1> QED
    BY <1>5, <1>6, <1>7, <1>8, <1>9, <1>10

--------------------------------------------------------------------------------
(* What has run, and the gap to whatever may run next. *)

RunsSoFar ==
    \A a \in DOMAIN runs :
        /\ runs[a].revision <= record.revision
        /\ runs[a].began <= clock
        /\ \A j \in Jobs : Begun(j) => runs[a].began <= job[j].began
BegunBefore == \A j \in Jobs : Begun(j) => job[j].began <= clock

LEMMA RunsTyped ==
    ASSUME TypeOK
    PROVE  \A a \in DOMAIN runs :
               /\ runs[a].occurrence \in Nat /\ runs[a].revision \in Nat /\ runs[a].began \in Nat
<1> DEFINE Run == [occurrence : Nat, revision : Nat, began : Nat]
<1>1. runs \in Seq(Run)
    BY DEF TypeOK
<1>2. \A r \in Run : r.occurrence \in Nat /\ r.revision \in Nat /\ r.began \in Nat
    OBVIOUS
<1> HIDE DEF Run
<1>3. \A a \in DOMAIN runs : runs[a] \in Run
    BY <1>1
<1> QED
    BY <1>2, <1>3

LEMMA StepKeepsRunsSoFar ==
    ASSUME Base, SoleJob, RowsFit, RunsSoFar, BegunBefore, [Next]_vars
    PROVE  RunsSoFar' /\ BegunBefore'
<1>1. /\ clock \in Nat /\ clock' \in Nat /\ record.revision \in Nat /\ record'.revision \in Nat
      /\ \A j \in Jobs : job[j].began \in Nat /\ job[j].row.revision \in Nat
      /\ \A j \in Jobs : job[j].row.revision <= record.revision
      /\ runs \in Seq([occurrence : Nat, revision : Nat, began : Nat])
    BY StepKeepsBase DEF Base, TypeOK, JobType, PollType, Record, RowsFit, Fits
<1>2. clock' >= clock /\ record'.revision >= record.revision
  <2>1. \/ record'.revision = record.revision
        \/ record'.revision = record.revision + 1
      BY RecordMovesOn DEF Revised, PollRecorded, JobRecorded, Advanced
  <2> QED
      BY <1>1, <2>1, RunsAreAdded
<1>3. \A j \in Jobs : Ahead(j)' => MovedOn(j) \/ ClaimedFor(j)
    BY JobsMoveOn
<1>4. ASSUME NEW j \in Jobs, Begun(j)'
      PROVE  \/ Begun(j) /\ job'[j].began = job[j].began
             \/ job'[j].began = clock /\ UNCHANGED <<clock, started, runs>>
  <2>1. Ahead(j)' /\ ~ClaimedFor(j)
      BY <1>4 DEF Ahead, Begun, ClaimedFor
  <2> QED
      BY <1>3, <1>4, <2>1 DEF MovedOn
<1>5. BegunBefore'
    BY <1>1, <1>2, <1>4 DEF BegunBefore
<1>6. ASSUME NEW a \in DOMAIN runs
      PROVE  /\ runs[a].revision <= record'.revision /\ runs[a].began <= clock'
             /\ \A j \in Jobs : Begun(j)' => runs[a].began <= job'[j].began
  <2>1. runs[a].revision \in Nat /\ runs[a].began \in Nat
      BY RunsTyped DEF Base
  <2>2. /\ runs[a].revision <= record.revision /\ runs[a].began <= clock
        /\ \A j \in Jobs : Begun(j) => runs[a].began <= job[j].began
      BY DEF RunsSoFar
  <2>3. ASSUME NEW j \in Jobs, Begun(j)' PROVE runs[a].began <= job'[j].began
      <3>1. CASE Begun(j) /\ job'[j].began = job[j].began
          BY <2>2, <3>1
      <3>2. CASE job'[j].began = clock
          BY <2>2, <3>2
      <3> QED
          BY <1>4, <2>3, <3>1, <3>2
  <2>4. runs[a].revision <= record'.revision
      BY <1>1, <1>2, <2>1, <2>2
  <2>5. runs[a].began <= clock'
      BY <1>1, <1>2, <2>1, <2>2
  <2> QED
      BY <2>3, <2>4, <2>5
<1>7. ASSUME runs' = runs PROVE RunsSoFar'
    BY <1>6, <1>7 DEF RunsSoFar
<1>8. ASSUME NEW j \in Jobs, Starts(j) PROVE RunsSoFar'
  <2> DEFINE run == [occurrence |-> job[j].row.next_run, began |-> job[j].began,
                     revision |-> job[j].row.revision]
             n == Len(runs)
  <2>1. runs' = Append(runs, run) /\ job[j].at = "marking" /\ UNCHANGED <<clock, record>>
      BY <1>8 DEF Starts
  <2>2. run.began = job[j].began /\ run.revision = job[j].row.revision
      OBVIOUS
  <2>3. \A i \in Jobs : Begun(i)' => i = j /\ job'[j].began = job[j].began
      <3> SUFFICES ASSUME NEW i \in Jobs, Begun(i)' PROVE i = j /\ job'[j].began = job[j].began
          OBVIOUS
      <3>1. Ahead(i)' /\ ~ClaimedFor(i)
          BY DEF Ahead, Begun, ClaimedFor
      <3>2. Ahead(i) /\ job[i].at # "over" /\ job[j].at # "over"
          BY <1>3, <2>1, <3>1 DEF MovedOn, Ahead
      <3>3. i = j
          BY <3>2 DEF SoleJob
      <3> QED
          BY <1>3, <2>1, <3>1, <3>3 DEF MovedOn
  <2>4. run.revision <= record'.revision /\ run.began <= clock'
      BY <1>1, <1>2, <2>1, <2>2 DEF BegunBefore, Begun
  <2> HIDE DEF run
  <2>5. /\ n \in Nat /\ DOMAIN runs = 1..n /\ DOMAIN runs' = 1..n + 1
        /\ runs'[n + 1] = run
        /\ \A a \in 1..n : runs'[a] = runs[a]
      BY <1>1, <2>1
  <2>6. \A a \in DOMAIN runs' : a = n + 1 \/ a \in 1..n
      BY <2>5
  <2>7. \A i \in Jobs : Begun(i)' => run.began <= job'[i].began
      BY <1>1, <2>2, <2>3
  <2>8. ASSUME NEW a \in 1..n
        PROVE  /\ runs'[a].revision <= record'.revision /\ runs'[a].began <= clock'
               /\ \A i \in Jobs : Begun(i)' => runs'[a].began <= job'[i].began
      BY <1>6, <2>5
  <2> QED
      BY <2>4, <2>5, <2>6, <2>7, <2>8 DEF RunsSoFar
<1> QED
    BY <1>5, <1>7, <1>8, RunsAreAdded DEF Forgotten

GapAfter(a) == runs[a].began + MinGap - OnTimeGrace

(* What run a means for a row of its revision, held by somebody who begins   *)
(* at `begins` or later: its time is past the gap, or it is the occurrence   *)
(* that a was, or who holds it begins past the gap.                          *)
Fine(a, row, begins) ==
    runs[a].revision = row.revision =>
        \/ row.next_run >= GapAfter(a)
        \/ row.next_run = runs[a].occurrence /\ row.next_run \in started
        \/ begins >= GapAfter(a)

RecordFine == \A a \in DOMAIN runs : Fine(a, record, clock)
LookFine   == Looking => \A a \in DOMAIN runs : Fine(a, poll.row, clock)
WaitsFine  == \A j \in Jobs : job[j].at \in {"claimed", "queued"} =>
                  \A a \in DOMAIN runs : Fine(a, job[j].row, clock)
BegunFine  == \A j \in Jobs : job[j].at \in {"reading", "marking"} =>
                  \A a \in DOMAIN runs : Fine(a, job[j].row, job[j].began)
Gaps       == RecordFine /\ LookFine /\ WaitsFine /\ BegunFine

(* What was fine stays so while the run and the markers are remembered. *)
LEMMA StaysFine ==
    ASSUME Base, NEW a \in DOMAIN runs, runs'[a] = runs[a], started \subseteq started',
           NEW row \in Record, NEW begins \in Int, Fine(a, row, begins),
           NEW later \in Int, later >= begins
    PROVE  runs'[a].revision = row.revision =>
               \/ row.next_run >= GapAfter(a)'
               \/ row.next_run = runs'[a].occurrence /\ row.next_run \in started'
               \/ later >= GapAfter(a)'
<1>1. GapAfter(a) \in Int
  <2>1. runs[a].began \in Nat
      BY RunsTyped DEF Base
  <2> QED
      BY <2>1, ScheduleAssumption DEF GapAfter
<1>2. GapAfter(a)' = GapAfter(a)
    BY DEF GapAfter
<1> QED
    BY <1>1, <1>2 DEF Fine

LEMMA StepKeepsGaps ==
    ASSUME "week" \notin Upsets \/ MarkerTTL >= MinGap - OnTimeGrace,
           Base, SoleJob, RowsFit, Freshness, RunsSoFar, BegunBefore, Gaps, [Next]_vars
    PROVE  Gaps'
<1>1. /\ clock \in Nat /\ clock' \in Nat /\ clock' >= clock
      /\ record \in Record /\ record' \in Record /\ poll.row \in Record
      /\ record.revision \in Nat
      /\ \A j \in Jobs : job[j].row \in Record /\ job[j].began \in Nat
      /\ MinGap \in Nat /\ OnTimeGrace \in Nat /\ MarkerTTL \in Nat
    BY StepKeepsBase, RunsAreAdded, ScheduleAssumption DEF Base, TypeOK, JobType, PollType, Record
<1>2. \A a \in DOMAIN runs : runs[a].began \in Nat /\ runs[a].revision \in Nat
    BY RunsTyped DEF Base
<1>3. \A j \in Jobs : Ahead(j)' => MovedOn(j) \/ ClaimedFor(j)
    BY JobsMoveOn
<1>4. ASSUME started \subseteq started', NEW a \in DOMAIN runs, a \in DOMAIN runs', runs'[a] = runs[a]
      PROVE  /\ runs'[a].revision = record'.revision =>
                    \/ record'.next_run >= GapAfter(a)'
                    \/ record'.next_run = runs'[a].occurrence /\ record'.next_run \in started'
                    \/ clock' >= GapAfter(a)'
             /\ Looking' =>
                    (runs'[a].revision = poll'.row.revision =>
                         \/ poll'.row.next_run >= GapAfter(a)'
                         \/ poll'.row.next_run = runs'[a].occurrence /\ poll'.row.next_run \in started'
                         \/ clock' >= GapAfter(a)')
  <2>1. Fine(a, record, clock) /\ (Looking => Fine(a, poll.row, clock))
      BY DEF Gaps, RecordFine, LookFine
  <2>2. ASSUME NEW row \in Record, Fine(a, row, clock)
        PROVE  runs'[a].revision = row.revision =>
                   \/ row.next_run >= GapAfter(a)'
                   \/ row.next_run = runs'[a].occurrence /\ row.next_run \in started'
                   \/ clock' >= GapAfter(a)'
      BY <1>1, <1>4, <2>2, StaysFine
  <2>3. CASE UNCHANGED record
      BY <1>1, <2>1, <2>2, <2>3, PollLooks DEF redisVars
  <2>4. Looking' => (Looking /\ poll'.row = poll.row) \/ UNCHANGED record
      BY PollLooks DEF redisVars
  <2>5. CASE Revised
      <3>1. runs'[a].revision # record'.revision
          BY <1>1, <1>2, <1>4, <2>5 DEF Revised, RunsSoFar
      <3> QED
          BY <1>1, <2>1, <2>2, <2>3, <2>4, <3>1
  <2>6. ASSUME NEW row, NEW began \in Nat, runs[a].began <= began, Advanced(row, began)
        PROVE  runs'[a].revision = record'.revision =>
                    \/ record'.next_run >= GapAfter(a)'
                    \/ record'.next_run = runs'[a].occurrence /\ record'.next_run \in started'
                    \/ clock' >= GapAfter(a)'
      <3>1. CASE record'.next_run = record.next_run
          <4>1. Fine(a, record', clock)
              BY <2>1, <2>6, <3>1 DEF Fine, Advanced
          <4> QED
              BY <1>1, <2>2, <4>1
      <3>2. CASE record'.next_run >= began + MinGap - OnTimeGrace
          <4>1. record'.next_run \in Nat
              BY <1>1 DEF Record
          <4>2. record'.next_run >= runs[a].began + MinGap - OnTimeGrace
              BY <1>1, <1>2, <2>6, <3>2, <4>1
          <4>3. GapAfter(a)' = runs[a].began + MinGap - OnTimeGrace
              BY <1>4 DEF GapAfter
          <4> QED
              BY <4>2, <4>3
      <3> QED
          BY <2>6, <3>1, <3>2 DEF Advanced
  <2>7. CASE PollRecorded
      <3>1. runs[a].began <= clock
          BY DEF RunsSoFar
      <3> QED
          BY <1>1, <2>1, <2>2, <2>4, <2>6, <2>7, <3>1, <2>3 DEF PollRecorded
  <2>8. ASSUME NEW j \in Jobs, JobRecorded(j)
        PROVE  runs'[a].revision = record'.revision =>
                    \/ record'.next_run >= GapAfter(a)'
                    \/ record'.next_run = runs'[a].occurrence /\ record'.next_run \in started'
                    \/ clock' >= GapAfter(a)'
      <3>1. runs[a].began <= job[j].began
          BY <2>8 DEF RunsSoFar, JobRecorded, Begun
      <3> QED
          BY <1>1, <2>6, <2>8, <3>1 DEF JobRecorded
  <2> QED
      BY <1>1, <2>1, <2>2, <2>3, <2>4, <2>5, <2>7, <2>8, RecordMovesOn
<1>5. CASE UNCHANGED <<started, runs>>
  <2>1. RecordFine' /\ LookFine'
      BY <1>4, <1>5 DEF RecordFine, LookFine, Fine
  <2>2. WaitsFine'
      <3> SUFFICES ASSUME NEW j \in Jobs, job'[j].at \in {"claimed", "queued"}, NEW a \in DOMAIN runs
                   PROVE  runs'[a].revision = job'[j].row.revision =>
                              \/ job'[j].row.next_run >= GapAfter(a)'
                              \/ /\ job'[j].row.next_run = runs'[a].occurrence
                                 /\ job'[j].row.next_run \in started'
                              \/ clock' >= GapAfter(a)'
          BY <1>5 DEF WaitsFine, Fine
      <3>1. MovedOn(j) \/ ClaimedFor(j)
          BY <1>3 DEF Ahead
      <3>2. CASE MovedOn(j)
          <4>1. Fine(a, job[j].row, clock) /\ job'[j].row = job[j].row
              BY <3>2 DEF MovedOn, Gaps, WaitsFine
          <4> QED
              BY <1>1, <1>5, <4>1, StaysFine
      <3>3. CASE ClaimedFor(j)
          <4>1. Fine(a, poll.row, clock) /\ job'[j].row = poll.row
              BY <3>3 DEF ClaimedFor, Gaps, LookFine, Looking
          <4> QED
              BY <1>1, <1>5, <4>1, StaysFine
      <3> QED
          BY <3>1, <3>2, <3>3
  <2>3. BegunFine'
      <3> SUFFICES ASSUME NEW j \in Jobs, job'[j].at \in {"reading", "marking"}, NEW a \in DOMAIN runs
                   PROVE  runs'[a].revision = job'[j].row.revision =>
                              \/ job'[j].row.next_run >= GapAfter(a)'
                              \/ /\ job'[j].row.next_run = runs'[a].occurrence
                                 /\ job'[j].row.next_run \in started'
                              \/ job'[j].began >= GapAfter(a)'
          BY <1>5 DEF BegunFine, Fine
      <3>1. MovedOn(j) /\ Begun(j)'
          BY <1>3 DEF Ahead, Begun, ClaimedFor
      <3>2. job'[j].row = job[j].row
          BY <3>1 DEF MovedOn
      <3>3. CASE job[j].at = "queued" /\ job'[j].began = clock
          <4>1. Fine(a, job[j].row, clock)
              BY <3>3 DEF Gaps, WaitsFine
          <4> QED
              BY <1>1, <1>5, <3>2, <3>3, <4>1, StaysFine
      <3>4. CASE Begun(j) /\ job'[j].began = job[j].began
          <4>1. job[j].at \in {"reading", "marking"}
              BY <3>1, <3>4 DEF MovedOn, Begun
          <4>2. Fine(a, job[j].row, job[j].began)
              BY <4>1 DEF Gaps, BegunFine
          <4> QED
              BY <1>1, <1>5, <3>2, <3>4, <4>2, StaysFine
      <3> QED
          BY <3>1, <3>3, <3>4 DEF MovedOn
  <2> QED
      BY <2>1, <2>2, <2>3 DEF Gaps
<1>6. CASE Forgotten
  <2>1. \A j \in Jobs : ~Ahead(j)'
      BY <1>6 DEF Forgotten, Ahead
  <2>2. LookFine' /\ WaitsFine' /\ BegunFine'
      BY <1>6, <2>1 DEF Forgotten, Looking, LookFine, WaitsFine, BegunFine, Ahead
  <2>3. ASSUME NEW a \in DOMAIN runs PROVE clock' >= GapAfter(a)'
      <3>1. runs[a].began <= clock /\ GapAfter(a)' = runs[a].began + MinGap - OnTimeGrace
          BY <1>6 DEF RunsSoFar, Forgotten, GapAfter
      <3>2. MarkerTTL >= MinGap - OnTimeGrace /\ clock' = clock + MarkerTTL
          BY <1>6 DEF Forgotten
      <3> QED
          BY <1>1, <1>2, <3>1, <3>2
  <2>4. RecordFine'
      BY <1>6, <2>3 DEF RecordFine, Fine, Forgotten
  <2> QED
      BY <2>2, <2>4 DEF Gaps
<1>7. ASSUME NEW j \in Jobs, Starts(j) PROVE Gaps'
  <2> DEFINE run == [occurrence |-> job[j].row.next_run, began |-> job[j].began,
                     revision |-> job[j].row.revision]
             n == Len(runs)
  <2>1. /\ runs' = Append(runs, run) /\ UNCHANGED <<clock, record, poll>>
        /\ started' = started \cup {run.occurrence}
        /\ job[j].at = "marking" /\ job'[j].at = "running"
      BY <1>7 DEF Starts
  <2>2. /\ run.occurrence = job[j].row.next_run /\ run.began = job[j].began
        /\ run.revision = job[j].row.revision
      OBVIOUS
  <2> HIDE DEF run
  <2>3. runs \in Seq([occurrence : Nat, revision : Nat, began : Nat])
      BY DEF Base, TypeOK
  <2>4. /\ n \in Nat /\ DOMAIN runs = 1..n /\ DOMAIN runs' = 1..n + 1
        /\ runs'[n + 1] = run
        /\ \A a \in 1..n : runs'[a] = runs[a]
      BY <2>1, <2>3
  <2>5. \A a \in DOMAIN runs' : a = n + 1 \/ a \in 1..n
      BY <2>4
  <2>6. \A i \in Jobs : job'[i].at \notin {"claimed", "queued", "reading", "marking"}
      <3> SUFFICES ASSUME NEW i \in Jobs, job'[i].at \in {"claimed", "queued", "reading", "marking"}
                   PROVE  FALSE
          OBVIOUS
      <3>1. MovedOn(i)
          BY <1>3, <2>1 DEF Ahead, ClaimedFor
      <3>2. job[i].at # "over" /\ job[j].at # "over" /\ i # j
          BY <2>1, <3>1 DEF MovedOn, Ahead
      <3> QED
          BY <3>2 DEF SoleJob
  <2>7. Ahead(j)
      BY <2>1 DEF Ahead
  <2>8. run.revision = record.revision => record.next_run = run.occurrence
      BY <2>2, <2>7 DEF Freshness, JobsFresh
  <2>9. Looking /\ run.revision = poll.row.revision => poll.row.next_run = run.occurrence
      BY <2>2, <2>7 DEF Freshness, LookSame
  <2>10. RecordFine'
      <3> SUFFICES ASSUME NEW a \in DOMAIN runs'
                   PROVE  runs'[a].revision = record'.revision =>
                            \/ record'.next_run >= GapAfter(a)'
                            \/ record'.next_run = runs'[a].occurrence /\ record'.next_run \in started'
                            \/ clock' >= GapAfter(a)'
          BY DEF RecordFine, Fine
      <3>1. CASE a = n + 1
          BY <2>1, <2>4, <2>8, <3>1
      <3>2. CASE a \in 1..n
          BY <1>4, <2>1, <2>4, <3>2
      <3> QED
          BY <2>5, <3>1, <3>2
  <2>11. LookFine'
      <3> SUFFICES ASSUME Looking', NEW a \in DOMAIN runs'
                   PROVE  runs'[a].revision = poll'.row.revision =>
                            \/ poll'.row.next_run >= GapAfter(a)'
                            \/ poll'.row.next_run = runs'[a].occurrence /\ poll'.row.next_run \in started'
                            \/ clock' >= GapAfter(a)'
          BY DEF LookFine, Fine
      <3>1. CASE a = n + 1
          BY <2>1, <2>4, <2>9, <3>1 DEF Looking
      <3>2. CASE a \in 1..n
          BY <1>4, <2>1, <2>4, <3>2
      <3> QED
          BY <2>5, <3>1, <3>2
  <2>12. WaitsFine' /\ BegunFine'
      BY <2>6 DEF WaitsFine, BegunFine
  <2> QED
      BY <2>10, <2>11, <2>12 DEF Gaps
<1> QED
    BY <1>5, <1>6, <1>7, RunsAreAdded

(* GapKept: as long as claims are renewed while their job lives, and markers *)
(* live as long as the gap (or the process is never down that long), two     *)
(* runs of the same revision lie the gap less the grace apart: what          *)
(* following_run() promises survives crashes, refusals, edits, unrecorded    *)
(* outcomes and rows read before another run was recorded.                   *)
THEOREM RunsKeepTheGap ==
    ASSUME "lease" \notin Upsets, "week" \notin Upsets \/ MarkerTTL >= MinGap - OnTimeGrace
    PROVE  Spec => []GapKept
<1> DEFINE Inv == /\ Base /\ SoleJob /\ RowsFit /\ Freshness
                  /\ RunsSoFar /\ BegunBefore /\ Gaps /\ GapKept
<1>1. Init => Inv
  <2> SUFFICES ASSUME Init PROVE Inv
      OBVIOUS
  <2>1. /\ record = FirstRecord /\ poll = IdlePoll /\ runs = <<>> /\ DOMAIN runs = {}
        /\ \A j \in Jobs : job[j] = NoWork
      BY DEF Init
  <2>2. /\ poll.at = "idle" /\ poll.row = FirstRecord
        /\ \A j \in Jobs : job[j].at = "over" /\ job[j].row = FirstRecord
      BY <2>1 DEF IdlePoll, NoWork
  <2>3. FirstRecord.revision = 1
      BY DEF FirstRecord
  <2>4. SoleJob /\ RowsFit
      BY <2>1, <2>2, <2>3 DEF SoleJob, RowsFit, Fits
  <2>5. Freshness
      BY <2>2 DEF Freshness, Alone, RevisedFirst, HoldsClaim, JobsFresh, LookFresh, LookSame, Ahead, Looking
  <2>6. RunsSoFar /\ BegunBefore
      BY <2>1, <2>2 DEF RunsSoFar, BegunBefore, Begun
  <2>7. Gaps
      BY <2>1, <2>2 DEF Gaps, RecordFine, LookFine, WaitsFine, BegunFine, Looking
  <2>8. GapKept
      BY <2>1 DEF GapKept
  <2> QED
      BY <2>4, <2>5, <2>6, <2>7, <2>8, BaseHoldsAtFirst
<1>2. Inv /\ [Next]_vars => Inv'
  <2> SUFFICES ASSUME Inv, [Next]_vars PROVE GapKept'
      BY StepKeepsBase, StepKeepsSoleJob, StepKeepsRowsFit, StepKeepsFreshness, StepKeepsRunsSoFar,
         StepKeepsGaps
  <2>1. CASE runs' = runs
      BY <2>1 DEF GapKept, WhenDue, Apart
  <2>2. ASSUME NEW j \in Jobs, Starts(j) PROVE GapKept'
      <3> DEFINE run == [occurrence |-> job[j].row.next_run, began |-> job[j].began,
                         revision |-> job[j].row.revision]
                 n == Len(runs)
      <3>1. runs' = Append(runs, run) /\ run.occurrence \notin started /\ job[j].at = "marking"
          BY <2>2 DEF Starts
      <3>2. /\ run.occurrence = job[j].row.next_run /\ run.began = job[j].began
            /\ run.revision = job[j].row.revision
          OBVIOUS
      <3>3. run.occurrence \in Nat /\ run.began \in Nat
          BY DEF Base, TypeOK, JobType, Record
      <3> HIDE DEF run
      <3>4. runs \in Seq([occurrence : Nat, revision : Nat, began : Nat])
          BY DEF Base, TypeOK
      <3>5. /\ n \in Nat /\ DOMAIN runs = 1..n /\ DOMAIN runs' = 1..n + 1
            /\ runs'[n + 1] = run
            /\ \A a \in 1..n : runs'[a] = runs[a]
          BY <3>1, <3>4
      <3>6. SUFFICES ASSUME NEW a \in 1..n + 1, NEW b \in 1..n + 1, a < b,
                            runs'[a].revision = runs'[b].revision,
                            runs'[b].began >= runs'[b].occurrence
                     PROVE  runs'[b].began - runs'[a].began >= MinGap - OnTimeGrace
          BY <3>5 DEF GapKept, WhenDue, Apart
      <3>7. CASE b \in 1..n
          <4>1. a \in 1..n
              BY <3>5, <3>6, <3>7
          <4> QED
              BY <3>5, <3>6, <3>7, <4>1 DEF GapKept, WhenDue, Apart
      <3>8. CASE b = n + 1
          <4>1. a \in DOMAIN runs /\ runs'[a] = runs[a] /\ runs'[b] = run
              BY <3>5, <3>6, <3>8
          <4>2. Fine(a, job[j].row, job[j].began)
              BY <3>1, <4>1 DEF Gaps, BegunFine
          <4>3. runs[a].began \in Nat
              BY <4>1, RunsTyped DEF Base
          <4>4. run.occurrence >= GapAfter(a) \/ run.began >= GapAfter(a)
              BY <3>1, <3>2, <3>6, <4>1, <4>2 DEF Fine
          <4>5. GapAfter(a) = runs[a].began + MinGap - OnTimeGrace /\ MinGap \in Nat /\ OnTimeGrace \in Nat
              BY ScheduleAssumption DEF GapAfter
          <4> QED
              BY <3>3, <3>6, <4>1, <4>3, <4>4, <4>5
      <3> QED
          BY <3>5, <3>7, <3>8
  <2> QED
      BY <2>1, <2>2, RunsAreAdded DEF Forgotten
<1> QED
    BY <1>1, <1>2, PTL DEF Spec
================================================================================
