------------------------------ MODULE ScheduleRuns -----------------------------
(***************************************************************************)
(* One schedule, from its record in Redis to its runs:                     *)
(* core/classes/automation_store.py and automation_runner.py.              *)
(*                                                                         *)
(* The actors are the poll (schedule_forever), the workers that execute    *)
(* queued jobs, and the people who edit, pause, resume or delete the       *)
(* schedule.  Each step is one Redis command, script or transaction and    *)
(* the code up to the next await; a transaction under WATCH is retried     *)
(* until nothing changed meanwhile, so it is one step.  Time is discrete.  *)
(***************************************************************************)
EXTENDS Integers, Sequences

CONSTANTS
    Timings,        \* what people may set the schedule to
    FirstTiming,    \* what it is created with
    MinGap,         \* settings()["min_hours"]
    OnTimeGrace,    \* ON_TIME_GRACE
    MarkerTTL,      \* how long a started marker lives: 604800 s
    Upsets,         \* what may happen to it, see UpsetKinds
    MaxUpsets,      \* bound of the model: how often something does
    MaxTime,        \* bound of the model: how long time goes on
    MaxJobs         \* bound of the model: claims that are remembered at once

UpsetKinds == {
    "edit",     \* someone edits, pauses, resumes or deletes the schedule
    "call",     \* the bot joins a voice call in this server
    "full",     \* other work fills the queue
    "restart",  \* the process crashes, or is shut down and started again
    "config",   \* the schedule is too frequent for the configured minimum
    "access",   \* the last editor or the bot lost access to the channel
    "model",    \* the run raises, or its message cannot be sent
    "redis",    \* recording the outcome, or releasing the claim, raises
    "lease",    \* a claim runs out although its job is alive (renewals failed)
    "week"}     \* the process is down for longer than a started marker's TTL

NoTime == -1
NoJob  == 0

(* A one-off at a time, or a timetable: start and every how long.  In what   *)
(* people ask for, a start that was not given is NoTime.                     *)
Timing  == [once : BOOLEAN, start : Nat, every : Nat \ {0}]
Request == [once : BOOLEAN, start : Nat \cup {NoTime}, every : Nat \ {0}]
Jobs    == 1..MaxJobs

ASSUME ScheduleAssumption ==
    /\ FirstTiming \in Timing /\ Timings \subseteq Request
    /\ \A timing \in {FirstTiming} \cup Timings :
           /\ timing.once => timing.start # NoTime
           /\ timing.every >= MinGap
    /\ FirstTiming.start > 0
    /\ {MinGap, OnTimeGrace, MarkerTTL, MaxUpsets, MaxTime, MaxJobs} \subseteq Nat
    /\ OnTimeGrace < MinGap
    /\ Upsets \subseteq UpsetKinds

VARIABLES
    clock,
    record,     \* Redis: the record of the schedule
    due,        \* Redis: its score in the set of due schedules, or NoTime
    busy,       \* Redis: the token of the job the schedule is busy with
    claims,     \* Redis: occurrence claims, each with the token that made it
    started,    \* Redis: occurrences with a started marker
    queue,      \* jobs waiting for a worker
    job,        \* where each job is, what it was queued with, when it began
    poll,       \* where the poll is, and the row it read
    in_call,    \* whether the bot is in a voice call in this server
    runs,       \* history: occurrence, revision and start of every run
    upsets      \* how many things happened to it

redisVars   == <<record, due, busy, claims, started>>
processVars == <<queue, job, poll, in_call>>
vars        == <<clock, redisVars, processVars, runs, upsets>>

Statuses == {"enabled", "paused", "suspended", "deleted", "completed", "failed"}
Results  == {"none", "completed", "failed", "uncertain_delivery", "suspended", "interrupted"}

Record == [status : Statuses, revision : Nat, timing : Timing, next_run : Nat,
           result : Results, expires : BOOLEAN]

(* Where a job and the poll are: what they await. *)
JobStates  == {"claimed", "queued", "discarding", "reading", "suspending", "marking", "running",
               "recording", "releasing", "over"}
PollStates == {"idle", "reading", "unlisting", "suspending", "recording", "busy?", "started?",
               "interrupting", "claiming", "queueing", "refunding"}

JobType  == [Jobs -> [at : JobStates, row : Record, began : Nat, outcome : Results]]
PollType == [at : PollStates, row : Record, token : Jobs \cup {NoJob}]

TypeOK ==
    /\ clock \in Nat
    /\ record \in Record
    /\ due \in Nat \cup {NoTime}
    /\ busy \in Jobs \cup {NoJob}
    /\ claims \subseteq [occurrence : Nat, token : Jobs]
    /\ started \subseteq Nat
    /\ queue \in Seq(Jobs)
    /\ job \in JobType
    /\ poll \in PollType
    /\ in_call \in BOOLEAN
    /\ runs \in Seq([occurrence : Nat, revision : Nat, began : Nat])
    /\ upsets \in 0..MaxUpsets

--------------------------------------------------------------------------------
(* automation_policy.py *)

Larger(a, b) == IF a > b THEN a ELSE b

(* next_run: the first occurrence after `after`, NoTime when there is none. *)
next_run(timing, after) ==
    IF timing.start > after THEN timing.start
    ELSE IF timing.once THEN NoTime
    ELSE timing.start + timing.every * ((after - timing.start) \div timing.every + 1)

(* anchor_timing: a timetable with no start begins now. *)
anchor_timing(timing) == IF timing.start = NoTime THEN [timing EXCEPT !.start = clock] ELSE timing

(* Mutant: the gap is not measured from the start of the run. *)
following_slot(timing, occurrence, began) == next_run(timing, Larger(occurrence, clock))

(* following_run: not a slot that passed, and the minimum gap after the start. *)
following_run(timing, occurrence, began) ==
    next_run(timing, Larger(Larger(occurrence, began + MinGap - OnTimeGrace - 1), clock))

--------------------------------------------------------------------------------

FirstRecord == [status |-> "enabled", revision |-> 1, timing |-> FirstTiming,
                next_run |-> FirstTiming.start, result |-> "none", expires |-> FALSE]

NoWork   == [at |-> "over", row |-> FirstRecord, began |-> 0, outcome |-> "none"]
IdlePoll == [at |-> "idle", row |-> FirstRecord, token |-> NoJob]

(* The schedule has just been created. *)
Init ==
    /\ clock = 0
    /\ record = FirstRecord /\ due = FirstRecord.next_run
    /\ busy = NoJob /\ claims = {} /\ started = {}
    /\ queue = <<>> /\ job = [j \in Jobs |-> NoWork] /\ poll = IdlePoll
    /\ in_call = FALSE
    /\ runs = <<>>
    /\ upsets = 0

Tick ==
    /\ clock < MaxTime
    /\ clock' = clock + 1
    /\ UNCHANGED <<redisVars, processVars, runs, upsets>>

(* Something happens to the schedule, or nothing does. *)
Upset(kind) == kind \in Upsets /\ upsets < MaxUpsets /\ upsets' = upsets + 1
Smoothly    == UNCHANGED upsets

--------------------------------------------------------------------------------
(* The record: automation_store.py. *)

(* update() refuses a stale revision, and a finished entry unless to delete *)
(* it; enabling it, a one-off in the past.                                   *)
MayUpdate(revision, status) ==
    /\ record.revision = revision
    /\ record.status # "deleted"
    /\ record.status \in {"completed", "failed"} => status = "deleted"

Update(revision, status, timing) ==
    LET next == IF status = "enabled" THEN next_run(timing, clock) ELSE record.next_run
    IN  /\ MayUpdate(revision, status)
        /\ next # NoTime
        /\ record' = [record EXCEPT !.status = status, !.timing = timing, !.next_run = next,
                                    !.revision = record.revision + 1,
                                    !.expires = (status = "deleted")]
        /\ due' = IF status = "enabled" THEN next ELSE NoTime

(* Someone edits, pauses, resumes or deletes the schedule. *)
Edit ==
    /\ Upset("edit")
    /\ \E status \in {"enabled", "paused", record.status} :
       \E timing \in {anchor_timing(t) : t \in Timings} \cup {record.timing} :
           /\ status \in {"enabled", "paused", "suspended"}
           /\ Update(record.revision, status, timing)
    /\ UNCHANGED <<clock, busy, claims, started, processVars, runs>>

Delete ==
    /\ Upset("edit")
    /\ Update(record.revision, "deleted", record.timing)
    /\ UNCHANGED <<clock, busy, claims, started, processVars, runs>>

(* Mutants: the record is advanced whatever was edited meanwhile; a one-off  *)
(* is advanced like any other.                                               *)
AdvancesAnyRevision(row) == record.status = "enabled"
NeverEnds(row)           == FALSE

(* finish() records an outcome; only the revision the run was made for, if   *)
(* still enabled, is advanced.  A record it writes expires only when it made *)
(* it terminal.                                                              *)
Advances(row) == record.revision = row.revision /\ record.status = "enabled"
Ends(row)     == Advances(row) /\ row.timing.once

Finish(row, outcome, began) ==
    LET next == following_run(row.timing, row.next_run, began)
    IN  /\ record' =
             [record EXCEPT
                !.result   = outcome,
                !.expires  = Ends(row),
                !.status   = IF ~Ends(row) THEN @
                             ELSE IF outcome = "completed" THEN "completed" ELSE "failed",
                !.next_run = IF Advances(row) /\ ~Ends(row) THEN next ELSE @]
        /\ due' = IF ~Advances(row) THEN due ELSE IF Ends(row) THEN NoTime ELSE next

(* release() drops the busy key; cancel_claim() the occurrence claim as well. *)
Releases(j) == busy' = IF busy = j THEN NoJob ELSE busy

CancelsClaim(j) ==
    /\ Releases(j)
    /\ claims' = {c \in claims : c.token # j}

Claimed(occurrence) == \E c \in claims : c.occurrence = occurrence

(* A token is new: no key and no job has it. *)
Fresh(j) == job[j].at = "over" /\ busy # j /\ \A c \in claims : c.token # j

--------------------------------------------------------------------------------
(* poll_schedules(). *)

Polls(at) == poll' = [poll EXCEPT !.at = at]

(* due(), then for this member: the queue, then the voice gate. *)
PollStart ==
    /\ poll.at = "idle"
    /\ due # NoTime /\ due <= clock
    /\ ~in_call
    /\ Polls("reading")
    /\ UNCHANGED <<clock, redisVars, queue, job, in_call, runs, upsets>>

PollRead ==
    /\ poll.at = "reading"
    /\ \E at \in PollStates :
           /\ poll' = [poll EXCEPT !.row = record, !.at = at]
           /\ IF record.status # "enabled" THEN at = "unlisting" /\ Smoothly
              ELSE \/ at = "busy?" /\ Smoothly
                   \/ at = "suspending" /\ ~record.timing.once /\ Upset("config")
    /\ UNCHANGED <<clock, redisVars, queue, job, in_call, runs>>

(* The row it read was not enabled. *)
PollUnlists ==
    /\ poll.at = "unlisting"
    /\ due' = NoTime
    /\ Polls("idle")
    /\ UNCHANGED <<clock, record, busy, claims, started, queue, job, in_call, runs, upsets>>

(* validate_schedule refused it; a stale update ends the poll. *)
PollSuspends ==
    /\ poll.at = "suspending"
    /\ IF MayUpdate(poll.row.revision, "suspended")
       THEN Update(poll.row.revision, "suspended", record.timing) /\ Polls("recording")
       ELSE Polls("idle") /\ UNCHANGED <<record, due>>
    /\ UNCHANGED <<clock, busy, claims, started, queue, job, in_call, runs, upsets>>

PollRecords ==
    /\ poll.at = "recording"
    /\ Finish(poll.row, "suspended", clock)
    /\ Polls("idle")
    /\ UNCHANGED <<clock, busy, claims, started, queue, job, in_call, runs, upsets>>

PollSeesBusy ==
    /\ poll.at = "busy?"
    /\ Polls(IF busy # NoJob THEN "idle" ELSE "started?")
    /\ UNCHANGED <<clock, redisVars, queue, job, in_call, runs, upsets>>

(* Mutant: a started occurrence is left to the worker. *)
NeverStarted(occurrence) == FALSE

WasStarted(occurrence) == occurrence \in started

PollSeesStarted ==
    /\ poll.at = "started?"
    /\ Polls(IF WasStarted(poll.row.next_run) THEN "interrupting" ELSE "claiming")
    /\ UNCHANGED <<clock, redisVars, queue, job, in_call, runs, upsets>>

(* Started and not busy: "Process stopped after this occurrence started". *)
PollInterrupts ==
    /\ poll.at = "interrupting"
    /\ Finish(poll.row, "interrupted", clock)
    /\ Polls("idle")
    /\ UNCHANGED <<clock, busy, claims, started, queue, job, in_call, runs, upsets>>

(* Mutant: the script sets the occurrence's claim only. *)
LeavesIdle(j) == UNCHANGED busy

(* claim(): one script checks both keys and sets both. *)
Claimable(occurrence) == busy = NoJob /\ ~Claimed(occurrence)
TakesBusy(j)          == busy' = j

PollClaims ==
    /\ poll.at = "claiming"
    /\ IF Claimable(poll.row.next_run)
       THEN \E j \in Jobs :
                /\ Fresh(j) /\ \A i \in Jobs : i < j => ~Fresh(i)
                /\ TakesBusy(j)
                /\ claims' = claims \cup {[occurrence |-> poll.row.next_run, token |-> j]}
                /\ job' = [job EXCEPT ![j] = [NoWork EXCEPT !.at = "claimed", !.row = poll.row]]
                /\ poll' = [poll EXCEPT !.at = "queueing", !.token = j]
       ELSE Polls("idle") /\ UNCHANGED <<busy, claims, job>>
    /\ UNCHANGED <<clock, record, due, started, queue, in_call, runs, upsets>>

PollQueues ==
    /\ poll.at = "queueing"
    /\ queue' = Append(queue, poll.token)
    /\ job' = [job EXCEPT ![poll.token].at = "queued"]
    /\ poll' = IdlePoll
    /\ UNCHANGED <<clock, redisVars, in_call, runs, upsets>>

(* The queue filled up since it was looked at. *)
PollFindsQueueFull ==
    /\ poll.at = "queueing"
    /\ Upset("full")
    /\ Polls("refunding")
    /\ UNCHANGED <<clock, redisVars, queue, job, in_call, runs>>

(* cancel_claim(): when it raises, the poll ends and the claim lapses. *)
PollRefunds ==
    /\ poll.at = "refunding"
    /\ \/ CancelsClaim(poll.token) /\ Smoothly
       \/ UNCHANGED <<busy, claims>> /\ Upset("redis")
    /\ job' = [job EXCEPT ![poll.token] = NoWork]
    /\ poll' = IdlePoll
    /\ UNCHANGED <<clock, record, due, started, queue, in_call, runs>>

PollStep ==
    \/ PollStart \/ PollRead \/ PollUnlists \/ PollSuspends \/ PollRecords
    \/ PollSeesBusy \/ PollSeesStarted \/ PollInterrupts
    \/ PollClaims \/ PollQueues \/ PollFindsQueueFull \/ PollRefunds

--------------------------------------------------------------------------------
(* The worker: process_messages(), execute() and discard(). *)

Becomes(j, at) == job' = [job EXCEPT ![j].at = at]
Leaves(j)      == job' = [job EXCEPT ![j] = NoWork]

Dequeue ==
    /\ queue # <<>>
    /\ LET j == Head(queue) IN
       job' = [job EXCEPT ![j].at = IF in_call THEN "discarding" ELSE "reading",
                          ![j].began = clock]
    /\ queue' = Tail(queue)
    /\ UNCHANGED <<clock, redisVars, poll, in_call, runs, upsets>>

(* discard(): the schedule stays due. *)
Discard(j) ==
    /\ job[j].at = "discarding"
    /\ \/ CancelsClaim(j) /\ Smoothly
       \/ UNCHANGED <<busy, claims>> /\ Upset("redis")
    /\ Leaves(j)
    /\ UNCHANGED <<clock, record, due, started, queue, poll, in_call, runs>>

(* Only what was queued, if it is still enabled. *)
ReadsRow(j) ==
    /\ job[j].at = "reading"
    /\ \/ Becomes(j, IF Advances(job[j].row) THEN "marking" ELSE "releasing") /\ Smoothly
       \/ Becomes(j, "releasing") /\ Upset("redis")
       \/ Becomes(j, "suspending") /\ Advances(job[j].row) /\ Upset("access")
    /\ UNCHANGED <<clock, redisVars, queue, poll, in_call, runs>>

(* AccessLost: suspended, then recorded; a stale update leaves it unrecorded. *)
SuspendsRow(j) ==
    /\ job[j].at = "suspending"
    /\ IF MayUpdate(job[j].row.revision, "suspended")
       THEN /\ Update(job[j].row.revision, "suspended", record.timing)
            /\ job' = [job EXCEPT ![j].at = "recording", ![j].outcome = "suspended"]
       ELSE Becomes(j, "releasing") /\ UNCHANGED <<record, due>>
    /\ UNCHANGED <<clock, busy, claims, started, queue, poll, in_call, runs, upsets>>

(* Mutant: SET without NX. *)
AnyStart(occurrence) == TRUE

FirstStart(occurrence) == occurrence \notin started

(* SET NX of the started marker, before the model runs. *)
MarksStarted(j) ==
    LET occurrence == job[j].row.next_run IN
    /\ job[j].at = "marking"
    /\ IF FirstStart(occurrence)
       THEN /\ started' = started \cup {occurrence}
            /\ runs' = Append(runs, [occurrence |-> occurrence, began |-> job[j].began,
                                     revision |-> job[j].row.revision])
            /\ Becomes(j, "running")
       ELSE Becomes(j, "releasing") /\ UNCHANGED <<started, runs>>
    /\ UNCHANGED <<clock, record, due, busy, claims, queue, poll, in_call, upsets>>

(* Discord or Redis raises before the run has started. *)
FailsToStart(j) ==
    /\ job[j].at = "marking"
    /\ Upset("model")
    /\ job' = [job EXCEPT ![j].at = "recording", ![j].outcome = "failed"]
    /\ UNCHANGED <<clock, redisVars, queue, poll, in_call, runs>>

RunEnds(j) ==
    /\ job[j].at = "running"
    /\ \E outcome \in {"completed", "failed", "uncertain_delivery"} :
           /\ job' = [job EXCEPT ![j].at = "recording", ![j].outcome = outcome]
           /\ IF outcome = "completed" THEN Smoothly ELSE Upset("model")
    /\ UNCHANGED <<clock, redisVars, queue, poll, in_call, runs>>

(* A completed run whose outcome could not be recorded is recorded once more, *)
(* as one that may not have been delivered.                                   *)
RecordsOutcome(j) ==
    /\ job[j].at = "recording"
    /\ \/ /\ Finish(job[j].row, job[j].outcome, job[j].began)
          /\ Becomes(j, "releasing")
          /\ Smoothly
       \/ /\ Upset("redis")
          /\ job' = IF job[j].outcome = "completed"
                    THEN [job EXCEPT ![j].outcome = "uncertain_delivery"]
                    ELSE [job EXCEPT ![j].at = "releasing"]
          /\ UNCHANGED <<record, due>>
    /\ UNCHANGED <<clock, busy, claims, started, queue, poll, in_call, runs>>

(* The occurrence's claim stays until its TTL. *)
ReleasesBusy(j) ==
    /\ job[j].at = "releasing"
    /\ \/ Releases(j) /\ Smoothly
       \/ UNCHANGED busy /\ Upset("redis")
    /\ Leaves(j)
    /\ UNCHANGED <<clock, record, due, claims, started, queue, poll, in_call, runs>>

JobStep(j) ==
    \/ Discard(j) \/ ReadsRow(j) \/ SuspendsRow(j) \/ MarksStarted(j) \/ FailsToStart(j)
    \/ RunEnds(j) \/ RecordsOutcome(j) \/ ReleasesBusy(j)

--------------------------------------------------------------------------------
(* What happens around them. *)

(* The process is gone and comes back: what was queued or running is lost.   *)
ProcessLost ==
    /\ queue' = <<>> /\ job' = [j \in Jobs |-> NoWork] /\ poll' = IdlePoll /\ in_call' = FALSE

Crash ==
    /\ Upset("restart")
    /\ ProcessLost
    /\ UNCHANGED <<clock, redisVars, runs>>

(* Bot.close(): the workers' jobs release in their `finally`; what is queued *)
(* is only dropped.                                                          *)
Shutdown ==
    /\ Upset("restart")
    /\ \E j \in Jobs :
           /\ job[j].at \in {"reading", "suspending", "marking", "running", "recording", "releasing"}
           /\ Releases(j)
    /\ ProcessLost
    /\ UNCHANGED <<clock, record, due, claims, started, runs>>

(* The keys a token is in expire 900 s after they were last renewed, which   *)
(* the poll's few commands about a row do not take: between two rows.        *)
LeaseExpires(j) ==
    /\ poll.at = "idle"
    /\ ~Fresh(j)
    /\ IF job[j].at = "over" THEN Smoothly ELSE Upset("lease")
    /\ CancelsClaim(j)
    /\ <<busy, claims>>' # <<busy, claims>>
    /\ UNCHANGED <<clock, record, due, started, processVars, runs>>

(* It stays away for as long as a started marker lives. *)
LongStop ==
    /\ Upset("week")
    /\ ProcessLost
    /\ clock' = clock + MarkerTTL
    /\ busy' = NoJob /\ claims' = {} /\ started' = {}
    /\ UNCHANGED <<record, due, runs>>

JoinCall ==
    /\ ~in_call /\ Upset("call")
    /\ in_call' = TRUE
    /\ UNCHANGED <<clock, redisVars, queue, job, poll, runs>>

LeaveCall ==
    /\ in_call /\ in_call' = FALSE
    /\ UNCHANGED <<clock, redisVars, queue, job, poll, runs, upsets>>

Next ==
    \/ Tick \/ Edit \/ Delete \/ PollStep \/ Dequeue
    \/ \E j \in Jobs : JobStep(j) \/ LeaseExpires(j)
    \/ Crash \/ Shutdown \/ LongStop \/ JoinCall \/ LeaveCall

(* schedule_forever() polls every 15 s, the workers take what is queued, a   *)
(* run ends, Redis drops the keys nobody renews, and a call ends.            *)
Fairness ==
    /\ WF_vars(PollStep) /\ WF_vars(Dequeue) /\ WF_vars(LeaveCall)
    /\ \A j \in Jobs :
           /\ WF_vars(JobStep(j))
           /\ SF_vars(job[j].at = "over" /\ LeaseExpires(j))

Spec     == Init /\ [][Next]_vars
FairSpec == Spec /\ Fairness

--------------------------------------------------------------------------------
(* Properties. *)

(* "Started runs are not replayed": no occurrence is ever started twice,     *)
(* whatever crashes, lapsed claims and second jobs there are.  The marker's  *)
(* SET NX (automation_runner.execute) and the poll's look at it are behind   *)
(* this.                                                                     *)
StartedOnce ==
    \A a, b \in DOMAIN runs : a # b => runs[a].occurrence # runs[b].occurrence

(* Two runs of the schedule never execute at the same time, though an edit   *)
(* may make another occurrence due while one is running: the busy key of     *)
(* AutomationStore.claim.                                                    *)
Executing(j) == job[j].at \in {"marking", "running", "recording"}
NoOverlap == \A i, j \in Jobs : Executing(i) /\ Executing(j) => i = j

(* Between two runs of the same revision lies the minimum gap, less the      *)
(* grace, measured from when the first one began: following_run, through     *)
(* late runs, catch-ups, interruptions and unrecorded outcomes.  (A run that *)
(* begins before its time is RunsWhenDue's.)                                 *)
Apart(a, b) == runs[b].began - runs[a].began >= MinGap - OnTimeGrace
WhenDue(a)  == runs[a].began >= runs[a].occurrence
GapKept ==
    \A a, b \in DOMAIN runs :
        a < b /\ runs[a].revision = runs[b].revision /\ WhenDue(b) => Apart(a, b)

(* An enabled schedule's next run is a time of the timetable it has now: a   *)
(* run that ends after an edit does not bring the old timetable back (the    *)
(* revision check of AutomationStore.finish).                                *)
OnTimetable ==
    LET t == record.timing IN
    record.status = "enabled" =>
        IF t.once THEN record.next_run = t.start
        ELSE /\ record.next_run >= t.start
             /\ (record.next_run - t.start) % t.every = 0

(* What is due is handled: a due schedule is run, skipped or recorded, after *)
(* crashes, calls, full queues and unrecorded outcomes too ("schedules stay  *)
(* due until capacity returns").                                             *)
DueIsHandled ==
    \A t \in 0..MaxTime : (due = t /\ clock >= t) ~> (due # t)

(* docs/automations.md: "can be paused, resumed or deleted there": a resumed *)
(* schedule is due at its next run.                                          *)
EnabledIsDue == record.status = "enabled" => due = record.next_run

(* automation_runner: "Process stopped after this occurrence started": it is *)
(* said of occurrences of a process that stopped.                            *)
InterruptedByAStop == record.result = "interrupted" => upsets > 0

(* automation_store: "the record itself lingers a week": what is deleted or  *)
(* finished expires.                                                         *)
FinishedExpires == record.status \in {"completed", "failed", "deleted"} => record.expires

(* docs/automations.md: "run once, at elapsed hour/day/week intervals, daily *)
(* at a local clock time": no run begins before the time it is for.          *)
RunsWhenDue == \A a \in DOMAIN runs : WhenDue(a)

(* docs/automations.md: "The minimum gap between runs is measured from when  *)
(* a run actually starts": between any two runs.                             *)
AlwaysApart == \A a, b \in DOMAIN runs : a < b /\ WhenDue(b) => Apart(a, b)
================================================================================
