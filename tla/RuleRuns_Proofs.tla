---------------------------- MODULE RuleRuns_Proofs ----------------------------
(***************************************************************************)
(* What RuleRuns keeps for every set of rules, deliveries and people, and  *)
(* whatever goes wrong: types, at most one run of a rule for a message,    *)
(* no two runs of a rule at once while their claims are renewed, no key    *)
(* left of a job that was sent back, and no more rules than a server may   *)
(* have.                                                                   *)
(***************************************************************************)
EXTENDS RuleRuns, TLAPS, WellFoundedInduction, FiniteSetTheorems

Key(r, d) == [rule |-> r, token |-> d]

(* Where the message keys of the claims are kept: everywhere but where they *)
(* are cancelled.                                                           *)
Keeping  == {"claiming", "queueing", "queued", "reading", "suspending", "running", "recording",
             "releasing"}
Renewed  == {"queued", "reading", "suspending", "running", "recording"}
HasRun   == {"recording", "releasing"} \cup Ended

(* What is true of the job of one delivery, by where it is: what it will    *)
(* run it has claimed, and its claims are still its own until it stops      *)
(* renewing them.                                                           *)
Fits(d, j, b, s) ==
    /\ j \in Job
    /\ j.live \subseteq j.claims
    /\ j.at \in {"claiming", "reading"} => j.todo # {}
    /\ j.at = "reading" => j.todo \subseteq j.claims
    /\ j.at \in {"queueing", "queued"} => j.claims # {}
    /\ j.renewing => j.at \in Renewed
    /\ j.at \in {"claiming", "queueing"} \/ j.renewing => \A r \in j.claims : b[r] = d
    /\ j.at \in Keeping => \A r \in j.claims : Key(r, d) \in s

AllFit == job \in [Deliveries -> Job] /\ \A d \in Deliveries : Fits(d, job[d], busy, seen)

(* What is queued is queued once. *)
QueueHolds == \A i \in 1 .. Len(queue) :
                  /\ job[queue[i]].at = "queued"
                  /\ \A k \in 1 .. Len(queue) : queue[k] = queue[i] => k = i

(* A message key is one delivery's. *)
SeenOnce == \A k, l \in seen :
                k.rule = l.rule /\ MessageOf[k.token] = MessageOf[l.token] => k = l

(* What was run keeps its key: its job will not cancel any more. *)
RunsSeen == \A x \in runs : Key(x.rule, x.delivery) \in seen /\ job[x.delivery].at \in HasRun

IInv == TypeOK /\ AllFit /\ QueueHolds /\ SeenOnce /\ RunsSeen

--------------------------------------------------------------------------------
(* The first of a set of rules is one of them. *)

Less == OpToRel(<, Nat)

LEMMA FirstIsOne ==
    ASSUME NEW S \in SUBSET Rules, S # {}, RuleAssumption
    PROVE  First(S) \in S
<1>1. S \subseteq Nat
    BY DEF RuleAssumption
<1>2. \A x, y \in Nat : x < y => <<x, y>> \in Less
    BY SMT DEF Less, OpToRel
<1>3. \E x \in S : \A y \in S : ~ (<<y, x>> \in Less)
    BY <1>1, NatLessThanWellFounded, WFMin DEF Less
<1>4. \E x \in S : \A y \in S : ~ (y < x)
    BY <1>1, <1>2, <1>3, Zenon
<1>5. \E x \in S : \A y \in S : x <= y
    BY <1>1, <1>4
<1> QED
    BY <1>5 DEF First

--------------------------------------------------------------------------------
(* One delivery moves. *)

LEMMA OverFits ==
    ASSUME NEW d, NEW b, NEW s, NEW where \in {"coming"} \cup Ended
    PROVE  Fits(d, [Coming EXCEPT !.at = where], b, s)
    BY DEF Fits, Coming, Job, Early, Late, Ended, Renewed, Keeping, RuleAssumption

(* The others are not disturbed by a step that leaves their keys alone. *)
LEMMA MovesFit ==
    ASSUME AllFit, NEW d \in Deliveries, NEW to, Goes(d, to),
           to.at \in Ended \/ Fits(d, to, busy', seen'),
           \A e \in Deliveries \ {d} : \A r \in Rules :
               /\ busy[r] = e => busy'[r] = e
               /\ Key(r, e) \in seen => Key(r, e) \in seen'
    PROVE  AllFit'
<1> DEFINE new == IF to.at \in Ended THEN [Coming EXCEPT !.at = to.at] ELSE to
<1>1. Fits(d, new, busy', seen')
    BY OverFits
<1>2. new \in Job
    BY <1>1 DEF Fits
<1>3. job' = [job EXCEPT ![d] = new] /\ job \in [Deliveries -> Job]
    BY DEF Goes, AllFit
<1> HIDE DEF new
<1>4. job' \in [Deliveries -> Job] /\ job'[d] = new
    BY <1>2, <1>3
<1>5. ASSUME NEW e \in Deliveries \ {d}
      PROVE  Fits(e, job'[e], busy', seen')
    <2>1. job'[e] = job[e] /\ Fits(e, job[e], busy, seen)
        BY <1>3, <1>5 DEF AllFit
    <2>2. job[e].claims \subseteq Rules
        BY <2>1 DEF Fits, Job
    <2> QED
        BY <2>1, <2>2, <1>5 DEF Fits
<1> QED
    BY <1>1, <1>4, <1>5 DEF AllFit

(* A queue that stays as it is holds what it held, if none of it moves. *)
LEMMA MovesOutsideQueue ==
    ASSUME TypeOK, QueueHolds, NEW d \in Deliveries, NEW to, Goes(d, to), UNCHANGED queue,
           job[d].at # "queued"
    PROVE  QueueHolds'
<1>1. \A i \in 1 .. Len(queue) : queue[i] \in Deliveries /\ queue[i] # d
    BY DEF TypeOK, QueueHolds
<1>2. \A e \in Deliveries \ {d} : job'[e] = job[e]
    BY DEF Goes, TypeOK
<1> QED
    BY <1>1, <1>2 DEF QueueHolds

(* Nor does what was run lose its key to a job that has not run. *)
LEMMA MovesKeepRuns ==
    ASSUME TypeOK, RunsSeen, NEW d \in Deliveries, NEW to, Goes(d, to), UNCHANGED runs,
           job[d].at \notin HasRun \/ to.at \in HasRun,
           \A e \in Deliveries, r \in Rules :
               e # d \/ job[d].at \in HasRun => (Key(r, e) \in seen => Key(r, e) \in seen')
    PROVE  RunsSeen'
<1> SUFFICES ASSUME NEW x \in runs
             PROVE  Key(x.rule, x.delivery) \in seen' /\ job'[x.delivery].at \in HasRun
    BY DEF RunsSeen
<1>1. x.rule \in Rules /\ x.delivery \in Deliveries
    BY DEF TypeOK
<1>2. Key(x.rule, x.delivery) \in seen /\ job[x.delivery].at \in HasRun
    BY DEF RunsSeen
<1>3. CASE x.delivery = d
    <2>1. job'[d].at = to.at
        BY DEF Goes, TypeOK, Coming
    <2> QED
        BY <1>1, <1>2, <1>3, <2>1
<1>4. CASE x.delivery # d
    <2>1. job'[x.delivery] = job[x.delivery]
        BY <1>1, <1>4 DEF Goes, TypeOK
    <2> QED
        BY <1>1, <1>2, <1>4, <2>1
<1> QED
    BY <1>3, <1>4

--------------------------------------------------------------------------------
(* The initial states. *)

LEMMA InitEstablishes ==
    ASSUME Init, RuleAssumption
    PROVE  IInv
<1>2. \A d \in Deliveries : Fits(d, Coming, busy, seen)
    BY DEF Fits, Coming, Job, Early, Late, Ended, Renewed, Keeping, RuleAssumption
<1>3. AllFit
    BY <1>2 DEF Init, AllFit, Fits
<1>4. TypeOK
    <2>1. entry \in [Rules -> Entry]
        BY DEF Init, Entry, Statuses, RuleAssumption
    <2>2. form \in [People -> [open : BOOLEAN, rule : Rules \cup {NoRule}, revision : Nat]]
        BY DEF Init, NoForm
    <2>3. queue \in Seq(Deliveries) /\ Len(queue) <= QUEUE_MAX_SIZE
        BY DEF Init, RuleAssumption
    <2>4. edits \in 0 .. MaxEdits
        BY DEF Init, RuleAssumption
    <2> QED
        BY <1>3, <2>1, <2>2, <2>3, <2>4 DEF Init, TypeOK, AllFit
<1>5. QueueHolds /\ SeenOnce /\ RunsSeen
    BY DEF Init, QueueHolds, SeenOnce, RunsSeen
<1> QED
    BY <1>3, <1>4, <1>5 DEF IInv

--------------------------------------------------------------------------------
(* Steps that leave the jobs and their keys alone. *)

LEMMA UpsetTyped ==
    ASSUME TypeOK, NEW kind, Smoothly \/ Upset(kind)
    PROVE  upsets' \subseteq Upsets
    BY DEF TypeOK, Smoothly, Upset

LEMMA UpdateTyped ==
    ASSUME TypeOK, NEW r, NEW status \in Statuses, Update(r, status)
    PROVE  entry' \in [Rules -> Entry]
<1>1. CASE r \in Rules
    <2>1. [status |-> status, revision |-> entry[r].revision + 1] \in Entry
        BY <1>1 DEF TypeOK, Entry
    <2> QED
        BY <2>1 DEF Update, TypeOK
<1>2. CASE r \notin Rules
    BY <1>2 DEF Update, TypeOK
<1> QED
    BY <1>1, <1>2

LEMMA ElsewhereKept ==
    ASSUME IInv, UNCHANGED <<keyVars, job, queue, runs>>
    PROVE  AllFit' /\ QueueHolds' /\ SeenOnce' /\ RunsSeen'
    BY DEF IInv, AllFit, QueueHolds, SeenOnce, RunsSeen, keyVars

LEMMA OpensKeeps ==
    ASSUME IInv, RuleAssumption, NEW p \in People, Opens(p)
    PROVE  IInv'
<1>1. form' \in [People -> [open : BOOLEAN, rule : Rules \cup {NoRule}, revision : Nat]]
    <2>1. PICK r \in Active \cup {NoRule} :
              form' = [form EXCEPT ![p] =
                  [open |-> TRUE, rule |-> r,
                   revision |-> IF r = NoRule THEN 0 ELSE entry[r].revision]]
        BY DEF Opens
    <2>2. r = NoRule \/ (r \in Rules /\ entry[r].revision \in Nat)
        BY DEF Active, IInv, TypeOK, Entry
    <2> QED
        BY <2>1, <2>2 DEF IInv, TypeOK
<1>2. edits' \in 0 .. MaxEdits
    BY DEF Opens, IInv, TypeOK, RuleAssumption
<1>3. TypeOK'
    BY <1>1, <1>2 DEF Opens, IInv, TypeOK, keyVars
<1> QED
    BY <1>3, ElsewhereKept DEF Opens, IInv

LEMMA SubmitsKeeps ==
    ASSUME IInv, RuleAssumption, NEW p \in People, Submits(p)
    PROVE  IInv'
<1>1. form' \in [People -> [open : BOOLEAN, rule : Rules \cup {NoRule}, revision : Nat]]
    BY DEF Submits, NoForm, IInv, TypeOK
<1>2. entry' \in [Rules -> Entry]
    <2> DEFINE r == form[p].rule
    <2>1. CASE r = NoRule
        <3> DEFINE first == First({n \in Rules : MayCreate(n)})
                   made == [status |-> "enabled", revision |-> 1]
        <3>1. UNCHANGED entry \/ entry' = [entry EXCEPT ![first] = made]
            BY <2>1 DEF Submits
        <3>2. made \in Entry /\ entry \in [Rules -> Entry]
            BY DEF Entry, Statuses, IInv, TypeOK
        <3> HIDE DEF first, made
        <3> QED
            BY <3>1, <3>2
    <2>2. CASE r # NoRule
        <3>1. entry[r].status \in Statuses
            BY <2>2 DEF IInv, TypeOK, Entry
        <3>2. UNCHANGED entry \/ \E status \in Statuses : Update(r, status)
            BY <2>2, <3>1 DEF Submits, Statuses
        <3> QED
            BY <3>2, UpdateTyped DEF IInv, TypeOK
    <2> QED
        BY <2>1, <2>2
<1>3. TypeOK'
    BY <1>1, <1>2 DEF Submits, IInv, TypeOK, keyVars
<1> QED
    BY <1>3, ElsewhereKept DEF Submits, IInv

LEMMA QuietKeeps ==
    ASSUME IInv, RuleAssumption,
           JoinCall \/ LeaveCall \/ UNCHANGED vars \/ \E r \in Rules : CooldownEnds(r)
    PROVE  IInv'
<1>1. UNCHANGED <<entry, seen, busy, form, job, queue, runs, edits>>
    BY DEF JoinCall, LeaveCall, CooldownEnds, vars, keyVars
<1>2. in_call' \in BOOLEAN /\ upsets' \subseteq Upsets
      /\ cooldown' \in [Rules -> Deliveries \cup {Nobody}]
    BY UpsetTyped DEF JoinCall, LeaveCall, CooldownEnds, vars, keyVars, IInv, TypeOK
<1>3. TypeOK'
    BY <1>1, <1>2 DEF IInv, TypeOK
<1>4. AllFit' /\ QueueHolds' /\ SeenOnce' /\ RunsSeen'
    BY <1>1 DEF IInv, AllFit, QueueHolds, SeenOnce, RunsSeen
<1> QED
    BY <1>3, <1>4 DEF IInv

--------------------------------------------------------------------------------
(* match_message(). *)

LEMMA MatchesKeeps ==
    ASSUME IInv, RuleAssumption, NEW d \in Deliveries, Matches(d)
    PROVE  IInv'
<1> DEFINE rows == {r \in Rules : entry[r].status = "enabled" /\ <<r, MessageOf[d]>> \in Matching}
           admitted == [Coming EXCEPT !.at = "claiming", !.todo = rows,
                           !.rows = [r \in Rules |-> IF r \in rows THEN entry[r].revision ELSE 0]]
           over == [Coming EXCEPT !.at = "over"]
<1>1. job[d].at = "coming" /\ UNCHANGED <<entry, keyVars, form, queue, in_call, runs, edits>>
    BY DEF Matches
<1>2. /\ \/ rows # {} /\ Goes(d, admitted)
         \/ Goes(d, over)
      /\ upsets' \subseteq Upsets
    BY UpsetTyped DEF Matches, IInv
<1>3. rows # {} => Fits(d, admitted, busy', seen')
    <2>1. [r \in Rules |-> IF r \in rows THEN entry[r].revision ELSE 0] \in [Rules -> Nat]
        BY DEF IInv, TypeOK, Entry
    <2>2. rows \in SUBSET Rules
        OBVIOUS
    <2> HIDE DEF rows
    <2> QED
        BY <2>1, <2>2 DEF Fits, Coming, Job, Early, Late, Renewed
<1>4. over.at \in Ended /\ over.at \in HasRun
    BY DEF Coming, Ended, HasRun
<1>5. UNCHANGED <<busy, seen, cooldown>>
    BY <1>1 DEF keyVars
<1> HIDE DEF admitted, over, rows
<1>6. AllFit'
    BY <1>2, <1>3, <1>4, <1>5, MovesFit DEF IInv
<1>7. QueueHolds'
    BY <1>1, <1>2, MovesOutsideQueue DEF IInv
<1>8. RunsSeen'
    BY <1>1, <1>2, <1>5, MovesKeepRuns DEF IInv, HasRun, Ended
<1>9. TypeOK'
    BY <1>1, <1>2, <1>6, <1>5 DEF IInv, TypeOK, AllFit
<1> QED
    BY <1>5, <1>6, <1>7, <1>8, <1>9 DEF IInv, SeenOnce

LEMMA ClaimsKeeps ==
    ASSUME IInv, RuleAssumption, NEW d \in Deliveries, Claims(d)
    PROVE  IInv'
<1> DEFINE r == First(job[d].todo)
           after == Next1(d, r, "claiming", "queueing")
           claimed == [after EXCEPT !.claims = job[d].claims \cup {r}]
           passed == IF after.at = "queueing" /\ after.claims = {}
                     THEN [after EXCEPT !.at = "over"] ELSE after
           over == [job[d] EXCEPT !.at = "over"]
           left == [job[d] EXCEPT !.todo = @ \ {r},
                                  !.at = IF job[d].todo = {r} THEN "queueing" ELSE "claiming"]
<1>1. job[d].at = "claiming" /\ UNCHANGED <<entry, form, queue, in_call, runs, edits>>
    BY DEF Claims
<1>2. /\ job[d] \in Job /\ Fits(d, job[d], busy, seen) /\ job[d].todo # {}
      /\ job[d].todo \subseteq Rules /\ ~job[d].renewing
    BY <1>1 DEF IInv, AllFit, Fits, Renewed, Job
<1>3. r \in job[d].todo /\ r \in Rules
    BY <1>2, FirstIsOne
<1>4. after = left
    BY <1>1, <1>2 DEF Next1, Job
<1> HIDE DEF r
<1>5. /\ left \in Job /\ left.claims = job[d].claims /\ left.live = job[d].live
      /\ left.at \in {"claiming", "queueing"} /\ left.renewing = job[d].renewing
      /\ left.at = "claiming" => left.todo # {}
    <2>1. job[d].todo \ {r} \in SUBSET Rules
        BY <1>2
    <2>2. job[d].todo # {r} => job[d].todo \ {r} # {}
        BY <1>3
    <2>3. left.todo = job[d].todo \ {r} /\ left.at = (IF job[d].todo = {r} THEN "queueing" ELSE "claiming")
          /\ left.claims = job[d].claims /\ left.live = job[d].live /\ left.renewing = job[d].renewing
        BY <1>2 DEF Job
    <2>4. left \in Job
        BY <1>2, <2>1 DEF Job, Early
    <2> QED
        BY <2>2, <2>3, <2>4
<1>6. CASE /\ Claimable(d, r)
           /\ seen' = seen \cup {Key(r, d)}
           /\ busy' = [busy EXCEPT ![r] = d]
           /\ cooldown' = [cooldown EXCEPT ![r] = d]
           /\ Goes(d, claimed)
           /\ Smoothly
    <2>1. busy[r] = Nobody /\ Nobody \notin Deliveries /\ busy \in [Rules -> Deliveries \cup {Nobody}]
        BY <1>6 DEF Claimable, RuleAssumption, IInv, TypeOK
    <2>2. /\ claimed \in Job /\ claimed.claims = job[d].claims \cup {r} /\ claimed.live = job[d].live
          /\ claimed.at = left.at /\ claimed.renewing = job[d].renewing /\ claimed.todo = left.todo
        BY <1>2, <1>3, <1>4, <1>5 DEF Job
    <2>3. \A q \in job[d].claims \cup {r} : busy'[q] = d /\ Key(q, d) \in seen'
        BY <1>1, <1>2, <1>3, <1>6, <2>1 DEF Fits, Keeping, Job
    <2>4. Fits(d, claimed, busy', seen')
        <3> HIDE DEF claimed, left
        <3> QED
            BY <1>2, <1>5, <2>2, <2>3 DEF Fits
    <2>5. AllFit'
        <3>1. \A e \in Deliveries \ {d} : \A q \in Rules :
                  /\ busy[q] = e => busy'[q] = e
                  /\ Key(q, e) \in seen => Key(q, e) \in seen'
            BY <1>3, <1>6, <2>1
        <3> QED
            BY <1>6, <2>4, <3>1, MovesFit DEF IInv
    <2>6. QueueHolds'
        BY <1>1, <1>6, MovesOutsideQueue DEF IInv
    <2>7. RunsSeen'
        BY <1>1, <1>6, MovesKeepRuns DEF IInv, HasRun, Ended
    <2>8. SeenOnce'
        <3>1. \A k \in seen : k.rule = r => MessageOf[k.token] # MessageOf[d]
            BY <1>6 DEF Claimable
        <3>2. Key(r, d).rule = r /\ Key(r, d).token = d
            BY DEF Key
        <3> HIDE DEF claimed
        <3> QED
            BY <1>6, <3>1, <3>2 DEF IInv, SeenOnce
    <2>9. TypeOK'
        <3>1. Key(r, d) \in [rule : Rules, token : Deliveries]
            BY <1>3 DEF Key
        <3>2. upsets' \subseteq Upsets
            BY <1>6 DEF Smoothly, IInv, TypeOK
        <3> QED
            BY <1>1, <1>6, <2>5, <3>1, <3>2 DEF IInv, TypeOK, AllFit
    <2> QED
        BY <2>5, <2>6, <2>7, <2>8, <2>9 DEF IInv
<1>7. CASE /\ Goes(d, passed) \/ Goes(d, over)
           /\ UNCHANGED keyVars
           /\ Smoothly \/ Upset("redis")
    <2>1. UNCHANGED <<seen, busy, cooldown>> /\ upsets' \subseteq Upsets
        BY <1>7, UpsetTyped DEF keyVars, IInv
    <2>2. over.at = "over" /\ (passed.at = "over" \/ Fits(d, passed, busy', seen'))
        <3>1. over.at = "over" /\ [after EXCEPT !.at = "over"].at = "over"
            BY <1>2, <1>4, <1>5 DEF Job
        <3>2. ~(left.at = "queueing" /\ left.claims = {}) => Fits(d, left, busy', seen')
            <4> HIDE DEF left
            <4> QED
                BY <1>1, <1>2, <1>5, <2>1 DEF Fits, Keeping
        <3> QED
            BY <1>4, <3>1, <3>2
    <2> HIDE DEF passed, over
    <2>3. AllFit'
        BY <1>7, <2>1, <2>2, MovesFit DEF IInv, Ended
    <2>4. QueueHolds'
        BY <1>1, <1>7, MovesOutsideQueue DEF IInv
    <2>5. RunsSeen'
        BY <1>1, <1>7, <2>1, MovesKeepRuns DEF IInv, HasRun, Ended
    <2>6. TypeOK'
        BY <1>1, <2>1, <2>3 DEF IInv, TypeOK, AllFit
    <2> QED
        BY <2>1, <2>3, <2>4, <2>5, <2>6 DEF IInv, SeenOnce
<1> QED
    BY <1>6, <1>7 DEF Claims, r, Key

(* From one stage of a job to the next. *)
StagesGo(more, last) == more \in Early \cup Late /\ last \in Early \cup Late \cup Ended

(* n is job d after the round for r of a loop over its claims. *)
Round(n, d, r, more, last) ==
    /\ n \in Job
    /\ n.todo = job[d].todo \ {r}
    /\ n.at = (IF job[d].todo = {r} THEN last ELSE more)
    /\ n.claims = job[d].claims /\ n.live = job[d].live
    /\ n.renewing = job[d].renewing

(* The next round of a loop over the claims, or what follows it. *)
LEMMA NextRound ==
    ASSUME NEW d \in Deliveries, job[d] \in Job, NEW r,
           NEW more, NEW last, StagesGo(more, last), job[d].at = more
    PROVE  Round(Next1(d, r, more, last), d, r, more, last)
<1> DEFINE left == [job[d] EXCEPT !.todo = @ \ {r}, !.at = IF job[d].todo = {r} THEN last ELSE more]
<1>1. Next1(d, r, more, last) = left
    BY DEF Next1, Job
<1>2. job[d].todo \ {r} \in SUBSET Rules
    BY DEF Job
<1>3. left \in Job /\ left.todo = job[d].todo \ {r}
      /\ left.at = (IF job[d].todo = {r} THEN last ELSE more)
      /\ left.claims = job[d].claims /\ left.live = job[d].live /\ left.renewing = job[d].renewing
    BY <1>2 DEF Job, StagesGo, Early, Late, Ended
<1> HIDE DEF left
<1> QED
    BY <1>1, <1>3 DEF Round

LEMMA QueuesKeeps ==
    ASSUME IInv, RuleAssumption, NEW d \in Deliveries, Queues(d)
    PROVE  IInv'
<1> DEFINE queued == [job[d] EXCEPT !.at = "queued", !.renewing = TRUE]
           back == [job[d] EXCEPT !.at = "refunding", !.todo = job[d].claims]
<1>1. job[d].at = "queueing" /\ UNCHANGED <<entry, keyVars, form, in_call, runs, upsets, edits>>
    BY DEF Queues
<1>2. job[d] \in Job /\ Fits(d, job[d], busy, seen) /\ ~job[d].renewing
    BY <1>1 DEF IInv, AllFit, Fits, Renewed
<1>3. UNCHANGED <<seen, busy, cooldown>>
    BY <1>1 DEF keyVars
<1>4. /\ queued \in Job /\ queued.at = "queued" /\ queued.claims = job[d].claims
      /\ queued.live = job[d].live
    BY <1>2 DEF Job, Late
<1>5. /\ back \in Job /\ back.at = "refunding" /\ back.claims = job[d].claims
      /\ back.live = job[d].live /\ ~back.renewing
    BY <1>2 DEF Job, Early
<1> HIDE DEF queued, back
<1>6. Fits(d, queued, busy', seen') /\ Fits(d, back, busy', seen')
    BY <1>1, <1>2, <1>3, <1>4, <1>5 DEF Fits, Renewed, Keeping
<1>7. Goes(d, queued) \/ Goes(d, back)
    BY DEF Queues, queued, back
<1>8. AllFit'
    BY <1>3, <1>6, <1>7, MovesFit DEF IInv
<1>9. RunsSeen'
    BY <1>1, <1>3, <1>7, MovesKeepRuns DEF IInv, HasRun, Ended
<1>10. CASE queue' = Append(queue, d) /\ Len(queue) < QUEUE_MAX_SIZE /\ Goes(d, queued)
    <2>1. queue \in Seq(Deliveries) /\ QUEUE_MAX_SIZE \in Nat
        BY DEF IInv, TypeOK, RuleAssumption
    <2>2. queue' \in Seq(Deliveries) /\ Len(queue') <= QUEUE_MAX_SIZE
        BY <1>10, <2>1
    <2>3. job'[d].at = "queued" /\ \A e \in Deliveries \ {d} : job'[e] = job[e]
        BY <1>4, <1>10 DEF Goes, IInv, TypeOK, Ended
    <2>4. \A i \in 1 .. Len(queue) : queue[i] \in Deliveries \ {d} /\ job[queue[i]].at = "queued"
        BY <1>1, <2>1 DEF IInv, QueueHolds
    <2>5. Len(queue') = Len(queue) + 1 /\ queue'[Len(queue) + 1] = d
          /\ \A i \in 1 .. Len(queue) : queue'[i] = queue[i]
        BY <1>10, <2>1
    <2>6. QueueHolds'
        <3>1. \A i \in 1 .. Len(queue') : i \in 1 .. Len(queue) \/ i = Len(queue) + 1
            BY <2>1, <2>5
        <3>2. \A i \in 1 .. Len(queue') : job'[queue'[i]].at = "queued"
            BY <2>3, <2>4, <2>5, <3>1
        <3>3. \A i, k \in 1 .. Len(queue') : queue'[k] = queue'[i] => k = i
            BY <2>4, <2>5, <3>1 DEF IInv, QueueHolds
        <3> QED
            BY <3>2, <3>3 DEF QueueHolds
    <2>7. TypeOK'
        BY <1>1, <1>3, <1>8, <2>2 DEF IInv, TypeOK, AllFit
    <2> QED
        BY <1>3, <1>8, <1>9, <2>6, <2>7 DEF IInv, SeenOnce
<1>11. CASE UNCHANGED queue /\ Goes(d, back)
    <2>1. QueueHolds'
        BY <1>1, <1>11, MovesOutsideQueue DEF IInv
    <2>2. TypeOK'
        BY <1>1, <1>3, <1>8, <1>11 DEF IInv, TypeOK, AllFit
    <2> QED
        BY <1>3, <1>8, <1>9, <2>1, <2>2 DEF IInv, SeenOnce
<1> QED
    BY <1>10, <1>11 DEF Queues, queued, back

(* Refunds() and Discards(): claims are cancelled one after another. *)
LEMMA GivingBackKeeps ==
    ASSUME IInv, RuleAssumption, NEW d \in Deliveries, Refunds(d) \/ Discards(d)
    PROVE  IInv'
<1> DEFINE r == First(job[d].todo)
           stage == job[d].at
           rest == Next1(d, r, stage, "returned")
           over == [job[d] EXCEPT !.at = "over"]
<1>1. stage \in {"refunding", "discarding"} /\ UNCHANGED <<entry, form, queue, in_call, runs, edits>>
    BY DEF Refunds, Discards
<1>2. job[d] \in Job /\ ~job[d].renewing /\ job[d].live \subseteq job[d].claims
    BY <1>1 DEF IInv, AllFit, Fits, Renewed
<1>3. (Goes(d, rest) \/ Goes(d, over)) /\ (CancelsClaim(r, d) \/ UNCHANGED keyVars)
    BY DEF Refunds, Discards
<1>4. upsets' \subseteq Upsets
    BY UpsetTyped DEF Refunds, Discards, IInv
<1>5. /\ rest \in Job /\ rest.at \in {stage, "returned"} /\ rest.live = job[d].live
      /\ rest.claims = job[d].claims /\ ~rest.renewing
    <2>1. StagesGo(stage, "returned") /\ job[d].at = stage /\ job[d] \in Job
        BY <1>1, <1>2 DEF StagesGo, Early, Late, Ended
    <2>2. Round(rest, d, r, stage, "returned")
        BY <2>1, NextRound
    <2> HIDE DEF rest
    <2> QED
        BY <1>1, <1>2, <2>2 DEF Round
<1>6. over.at = "over"
    BY <1>2 DEF Job
<1>7. rest.at = "returned" \/ Fits(d, rest, busy', seen')
    <2> HIDE DEF rest
    <2> QED
        BY <1>1, <1>2, <1>5 DEF Fits, Keeping, Renewed
<1> HIDE DEF rest, over, r
<1>8. /\ seen' \subseteq seen /\ \A k \in seen : k.token # d => k \in seen'
      /\ busy' \in [Rules -> Deliveries \cup {Nobody}]
      /\ \A q \in Rules : busy[q] # d => busy'[q] = busy[q]
      /\ cooldown' \in [Rules -> Deliveries \cup {Nobody}]
    <2>1. CASE UNCHANGED keyVars
        BY <2>1 DEF keyVars, IInv, TypeOK
    <2>2. CASE CancelsClaim(r, d)
        <3>1. seen' = seen \ {[rule |-> r, token |-> d]}
            BY <2>2 DEF CancelsClaim
        <3>2. busy' = Frees(busy, r, d) /\ cooldown' = Frees(cooldown, r, d)
            BY <2>2 DEF CancelsClaim
        <3>3. /\ busy' \in [Rules -> Deliveries \cup {Nobody}]
              /\ cooldown' \in [Rules -> Deliveries \cup {Nobody}]
            BY <3>2 DEF Frees, IInv, TypeOK
        <3>4. \A q \in Rules : busy[q] # d => busy'[q] = busy[q]
            BY <3>2 DEF Frees, IInv, TypeOK
        <3> QED
            BY <3>1, <3>3, <3>4
    <2> QED
        BY <1>3, <2>1, <2>2
<1>9. AllFit'
    <2>1. \A e \in Deliveries \ {d} : \A q \in Rules :
              /\ busy[q] = e => busy'[q] = e
              /\ Key(q, e) \in seen => Key(q, e) \in seen'
        BY <1>8 DEF Key
    <2> QED
        BY <1>3, <1>5, <1>6, <1>7, <2>1, MovesFit DEF IInv, Ended
<1>10. QueueHolds'
    BY <1>1, <1>3, MovesOutsideQueue DEF IInv
<1>11. RunsSeen'
    <2>1. job[d].at \notin HasRun
        BY <1>1 DEF HasRun, Ended
    <2>2. \A e \in Deliveries, q \in Rules : e # d => (Key(q, e) \in seen => Key(q, e) \in seen')
        BY <1>8 DEF Key
    <2> QED
        BY <1>1, <1>3, <2>1, <2>2, MovesKeepRuns DEF IInv
<1>12. TypeOK'
    BY <1>1, <1>4, <1>8, <1>9 DEF IInv, TypeOK, AllFit
<1> QED
    BY <1>8, <1>9, <1>10, <1>11, <1>12 DEF IInv, SeenOnce

--------------------------------------------------------------------------------
(* The worker. *)

LEMMA DequeueKeeps ==
    ASSUME IInv, RuleAssumption, Dequeue
    PROVE  IInv'
<1> DEFINE d == Head(queue)
           to == [job[d] EXCEPT !.at = IF in_call THEN "discarding" ELSE "reading",
                                !.todo = job[d].claims,
                                !.renewing = ~in_call /\ job[d].renewing]
<1>1. /\ queue \in Seq(Deliveries) /\ queue # <<>> /\ queue' = Tail(queue) /\ Goes(d, to)
      /\ UNCHANGED <<entry, seen, busy, cooldown, form, in_call, runs, upsets, edits>>
    BY DEF Dequeue, keyVars, IInv, TypeOK
<1>2. d \in Deliveries /\ d = queue[1] /\ 1 \in 1 .. Len(queue)
    BY <1>1
<1>3. job[d].at = "queued"
    BY <1>2 DEF IInv, QueueHolds
<1>4. job[d] \in Job /\ Fits(d, job[d], busy, seen)
    BY <1>2 DEF IInv, AllFit, Fits
<1>5. /\ to \in Job /\ to.at = (IF in_call THEN "discarding" ELSE "reading")
      /\ to.todo = job[d].claims /\ to.claims = job[d].claims /\ to.live = job[d].live
      /\ to.renewing = (~in_call /\ job[d].renewing)
    <2>1. job[d].renewing \in BOOLEAN /\ in_call \in BOOLEAN
        BY <1>4 DEF Job, IInv, TypeOK
    <2>2. (~in_call /\ job[d].renewing) \in BOOLEAN
        BY <2>1
    <2> QED
        BY <1>4, <2>2 DEF Job, Late
<1> HIDE DEF to, d
<1>6. Fits(d, to, busy', seen')
    <2>1. CASE in_call
        BY <1>1, <1>4, <1>5, <2>1 DEF Fits, Keeping, Renewed
    <2>2. CASE ~in_call
        BY <1>1, <1>3, <1>4, <1>5, <2>2 DEF Fits, Keeping, Renewed
    <2> QED
        BY <2>1, <2>2
<1>7. AllFit'
    BY <1>1, <1>2, <1>6, MovesFit DEF IInv
<1>8. RunsSeen'
    BY <1>1, <1>2, <1>3, MovesKeepRuns DEF IInv, HasRun, Ended
<1>9. /\ queue' \in Seq(Deliveries) /\ Len(queue') = Len(queue) - 1
      /\ \A i \in 1 .. Len(queue') : queue'[i] = queue[i + 1] /\ i + 1 \in 1 .. Len(queue)
    BY <1>1
<1>10. QueueHolds'
    <2>1. \A i \in 1 .. Len(queue') : queue'[i] \in Deliveries \ {d}
        BY <1>1, <1>2, <1>9 DEF IInv, QueueHolds
    <2>2. \A e \in Deliveries \ {d} : job'[e] = job[e]
        BY <1>1 DEF Goes, IInv, TypeOK
    <2>3. ASSUME NEW i \in 1 .. Len(queue')
          PROVE  job'[queue'[i]].at = "queued"
        <3>1. queue'[i] = queue[i + 1] /\ i + 1 \in 1 .. Len(queue)
            BY <1>9
        <3>2. job[queue[i + 1]].at = "queued"
            BY <3>1 DEF IInv, QueueHolds
        <3>3. job'[queue'[i]] = job[queue'[i]]
            BY <2>1, <2>2
        <3> QED
            BY <3>1, <3>2, <3>3
    <2>4. \A i, k \in 1 .. Len(queue') : queue'[k] = queue'[i] => k = i
        <3> SUFFICES ASSUME NEW i \in 1 .. Len(queue'), NEW k \in 1 .. Len(queue'),
                            queue'[k] = queue'[i]
                     PROVE  k = i
            OBVIOUS
        <3>1. queue[k + 1] = queue[i + 1] /\ k + 1 \in 1 .. Len(queue) /\ i + 1 \in 1 .. Len(queue)
            BY <1>9
        <3>2. k + 1 = i + 1
            BY <3>1 DEF IInv, QueueHolds
        <3> QED
            BY <3>2
    <2> QED
        BY <2>3, <2>4 DEF QueueHolds
<1>11. TypeOK'
    <2>1. Len(queue') <= QUEUE_MAX_SIZE
        BY <1>1, <1>9 DEF IInv, TypeOK, RuleAssumption
    <2> QED
        BY <1>1, <1>7, <1>9, <2>1 DEF IInv, TypeOK, AllFit
<1> QED
    BY <1>1, <1>7, <1>8, <1>10, <1>11 DEF IInv, SeenOnce

Executing == {"reading", "suspending", "running", "recording", "releasing"}

(* A job that is executed keeps its claims, and never renews again.         *)
LEMMA ExecutingFits ==
    ASSUME NEW d \in Deliveries, NEW b, Fits(d, job[d], busy, seen), job[d].at \in Executing,
           NEW to \in Job, to.at \in Executing, to.claims = job[d].claims,
           to.live \subseteq to.claims,
           to.at = "reading" => to.todo # {} /\ to.todo \subseteq to.claims,
           to.renewing => job[d].renewing /\ to.at # "releasing",
           to.renewing => b = busy
    PROVE  Fits(d, to, b, seen)
    BY DEF Fits, Executing, Renewed, Keeping

(* What one step of execute() makes of the job: it goes on, or ends. *)
LEMMA ExecutingKeeps ==
    ASSUME IInv, RuleAssumption, NEW d \in Deliveries, NEW to, Goes(d, to),
           job[d].at \in Executing, to.at = "over" \/ Fits(d, to, busy', seen),
           to.at \in Executing \cup {"over"}, job[d].at \in HasRun => to.at \in HasRun,
           UNCHANGED <<seen, cooldown, form, queue, in_call, runs, edits>>,
           entry' \in [Rules -> Entry], upsets' \subseteq Upsets,
           busy' \in [Rules -> Deliveries \cup {Nobody}],
           \A q \in Rules : busy[q] # d => busy'[q] = busy[q]
    PROVE  IInv'
<1>1. AllFit'
    BY MovesFit DEF IInv, Ended
<1>2. QueueHolds'
    BY MovesOutsideQueue DEF IInv, Executing
<1>3. RunsSeen'
    BY MovesKeepRuns DEF IInv
<1>4. TypeOK'
    BY <1>1 DEF IInv, TypeOK, AllFit
<1> QED
    BY <1>1, <1>2, <1>3, <1>4 DEF IInv, SeenOnce

(* finally: the claims are released. *)
LEMMA FinallyFits ==
    ASSUME NEW d \in Deliveries, Fits(d, job[d], busy, seen), job[d].at \in Executing,
           NEW before \in Job, before.claims = job[d].claims, before.live \subseteq before.claims
    PROVE  Finally(d, before).at = "releasing" /\ Fits(d, Finally(d, before), busy, seen)
<1> DEFINE to == Finally(d, before)
<1>1. job[d].claims \in SUBSET Rules
    BY DEF Fits, Job
<1>2. /\ to \in Job /\ to.at = "releasing" /\ to.claims = before.claims /\ to.live = before.live
      /\ ~to.renewing
    BY <1>1 DEF Finally, ToRelease, Job, Late
<1> HIDE DEF to
<1>3. Fits(d, to, busy, seen)
    BY <1>2, ExecutingFits DEF Executing
<1> QED
    BY <1>2, <1>3 DEF to

LEMMA ReadsKeeps ==
    ASSUME IInv, RuleAssumption, NEW d \in Deliveries, Reads(d)
    PROVE  IInv'
<1> DEFINE r == First(job[d].todo)
           live == IF entry[r].status = "enabled" /\ entry[r].revision = job[d].rows[r]
                   THEN job[d].live \cup {r} ELSE job[d].live
           round == Next1(d, r, "reading", "running")
           rest == [round EXCEPT !.live = live]
           failed == [job[d] EXCEPT !.at = "recording", !.todo = job[d].live]
           lost == [rest EXCEPT !.at = "suspending", !.todo = live]
<1>1. /\ job[d].at = "reading" /\ upsets' \subseteq Upsets
      /\ UNCHANGED <<entry, seen, busy, cooldown, form, queue, in_call, runs, edits>>
    BY UpsetTyped DEF Reads, keyVars, IInv
<1>2. /\ job[d] \in Job /\ Fits(d, job[d], busy, seen) /\ job[d].todo # {}
      /\ job[d].todo \subseteq job[d].claims /\ job[d].live \subseteq job[d].claims
    BY <1>1 DEF IInv, AllFit, Fits
<1>3. r \in job[d].todo
    BY <1>2, FirstIsOne DEF Job
<1>4. live \in SUBSET job[d].claims /\ job[d].claims \in SUBSET Rules
    BY <1>2, <1>3 DEF Job
<1>5. /\ round \in Job /\ round.todo = job[d].todo \ {r} /\ round.claims = job[d].claims
      /\ round.at = (IF job[d].todo = {r} THEN "running" ELSE "reading")
      /\ round.renewing = job[d].renewing
    <2>1. StagesGo("reading", "running") /\ job[d].at = "reading" /\ job[d] \in Job
        BY <1>1, <1>2 DEF StagesGo, Early, Late, Ended
    <2>2. Round(round, d, r, "reading", "running")
        BY <2>1, NextRound
    <2> HIDE DEF round
    <2> QED
        BY <1>1, <1>2, <2>2 DEF Round
<1> HIDE DEF live, round, r
<1>6. /\ rest \in Job /\ rest.todo = round.todo /\ rest.claims = job[d].claims /\ rest.live = live
      /\ rest.at = round.at /\ rest.renewing = job[d].renewing
    BY <1>4, <1>5 DEF Job
<1> HIDE DEF rest
<1>7. Fits(d, rest, busy, seen) /\ rest.at \in Executing
    BY <1>1, <1>2, <1>3, <1>4, <1>5, <1>6, ExecutingFits DEF Executing
<1>8. Fits(d, failed, busy, seen) /\ failed.at = "recording"
    <2>1. /\ failed \in Job /\ failed.at = "recording" /\ failed.claims = job[d].claims
          /\ failed.live = job[d].live /\ failed.renewing = job[d].renewing
        BY <1>2, <1>4 DEF Job, Late
    <2> HIDE DEF failed
    <2> QED
        BY <1>1, <1>2, <2>1, ExecutingFits DEF Executing
<1>9. Fits(d, lost, busy, seen) /\ lost.at = "suspending"
    <2>1. /\ lost \in Job /\ lost.at = "suspending" /\ lost.claims = job[d].claims
          /\ lost.live = live /\ lost.renewing = job[d].renewing
        BY <1>4, <1>6 DEF Job, Late
    <2> HIDE DEF lost
    <2> QED
        BY <1>1, <1>2, <1>4, <2>1, ExecutingFits DEF Executing
<1>10. /\ Fits(d, Finally(d, rest), busy, seen) /\ Finally(d, rest).at = "releasing"
       /\ Fits(d, Finally(d, job[d]), busy, seen) /\ Finally(d, job[d]).at = "releasing"
    BY <1>1, <1>2, <1>4, <1>6, FinallyFits DEF Executing
<1>11. PICK to : /\ Goes(d, to)
                 /\ to \in {rest, failed, lost, Finally(d, rest), Finally(d, job[d])}
    BY DEF Reads, r, live, round, rest
<1>12. Fits(d, to, busy', seen) /\ to.at \in Executing
    BY <1>1, <1>7, <1>8, <1>9, <1>10, <1>11 DEF Executing
<1> HIDE DEF failed, lost
<1> QED
    BY <1>1, <1>11, <1>12, ExecutingKeeps DEF Executing, HasRun, Ended, IInv, TypeOK

LEMMA SuspendsKeeps ==
    ASSUME IInv, RuleAssumption, NEW d \in Deliveries, Suspends(d)
    PROVE  IInv'
<1> DEFINE r == First(job[d].todo)
           rest == Next1(d, r, "suspending", "releasing")
<1>1. /\ job[d].at = "suspending" /\ upsets' \subseteq Upsets
      /\ UNCHANGED <<seen, busy, cooldown, form, queue, in_call, runs, edits>>
    BY UpsetTyped DEF Suspends, keyVars, IInv
<1>2. job[d] \in Job /\ Fits(d, job[d], busy, seen) /\ job[d].live \subseteq job[d].claims
    BY <1>1 DEF IInv, AllFit, Fits
<1>3. entry' \in [Rules -> Entry]
    BY UpdateTyped DEF Suspends, Statuses, IInv, TypeOK
<1>4. /\ rest \in Job /\ rest.claims = job[d].claims /\ rest.live = job[d].live
      /\ rest.at \in {"suspending", "releasing"} /\ rest.renewing = job[d].renewing
    <2>1. StagesGo("suspending", "releasing") /\ job[d].at = "suspending" /\ job[d] \in Job
        BY <1>1, <1>2 DEF StagesGo, Early, Late, Ended
    <2>2. Round(rest, d, r, "suspending", "releasing")
        BY <2>1, NextRound
    <2> HIDE DEF rest
    <2> QED
        BY <1>1, <1>2, <2>2 DEF Round
<1>5. Goes(d, IF rest.at = "releasing" THEN Finally(d, rest) ELSE rest)
    BY DEF Suspends
<1> HIDE DEF rest, r
<1>6. Fits(d, Finally(d, rest), busy, seen) /\ Finally(d, rest).at = "releasing"
    BY <1>1, <1>2, <1>4, FinallyFits DEF Executing
<1>7. rest.at # "releasing" => Fits(d, rest, busy, seen)
    BY <1>1, <1>2, <1>4, ExecutingFits DEF Executing
<1>8. PICK to : /\ Goes(d, to) /\ to.at \in {"suspending", "releasing"} /\ Fits(d, to, busy, seen)
    BY <1>4, <1>5, <1>6, <1>7
<1> QED
    BY <1>1, <1>3, <1>8, ExecutingKeeps DEF Executing, HasRun, Ended, IInv, TypeOK

LEMMA RunsKeeps ==
    ASSUME IInv, RuleAssumption, NEW d \in Deliveries, Runs(d)
    PROVE  IInv'
<1> DEFINE to == [job[d] EXCEPT !.at = "recording", !.todo = job[d].live]
<1>1. /\ job[d].at = "running" /\ Goes(d, to) /\ runs' = runs \cup [rule : job[d].live, delivery : {d}]
      /\ UNCHANGED <<entry, seen, busy, cooldown, form, queue, in_call, upsets, edits>>
    BY DEF Runs, keyVars
<1>2. /\ job[d] \in Job /\ Fits(d, job[d], busy, seen) /\ job[d].live \subseteq job[d].claims
      /\ \A r \in job[d].claims : Key(r, d) \in seen
    BY <1>1 DEF IInv, AllFit, Fits, Keeping
<1>3. /\ to \in Job /\ to.at = "recording" /\ to.claims = job[d].claims /\ to.live = job[d].live
      /\ to.renewing = job[d].renewing
    BY <1>2 DEF Job, Late
<1> HIDE DEF to
<1>4. Fits(d, to, busy', seen')
    BY <1>1, <1>2, <1>3, ExecutingFits DEF Executing
<1>5. AllFit'
    BY <1>1, <1>4, MovesFit DEF IInv
<1>6. QueueHolds'
    BY <1>1, MovesOutsideQueue DEF IInv
<1>7. job'[d].at = "recording" /\ \A e \in Deliveries \ {d} : job'[e] = job[e]
    BY <1>1, <1>3 DEF Goes, IInv, TypeOK, Ended
<1>8. RunsSeen'
    <2>1. ASSUME NEW x \in runs
          PROVE  Key(x.rule, x.delivery) \in seen' /\ job'[x.delivery].at \in HasRun
        BY <1>1, <1>7, <2>1 DEF IInv, TypeOK, RunsSeen, HasRun, Ended
    <2>2. ASSUME NEW x \in [rule : job[d].live, delivery : {d}]
          PROVE  Key(x.rule, x.delivery) \in seen' /\ job'[x.delivery].at \in HasRun
        BY <1>1, <1>2, <1>7, <2>2 DEF HasRun
    <2> QED
        BY <1>1, <2>1, <2>2 DEF RunsSeen
<1>9. TypeOK'
    <2>1. job[d].live \subseteq Rules
        BY <1>2 DEF Job
    <2>2. runs' \subseteq [rule : Rules, delivery : Deliveries]
        BY <1>1, <2>1 DEF IInv, TypeOK
    <2> QED
        BY <1>1, <1>5, <2>2 DEF IInv, TypeOK, AllFit
<1> QED
    BY <1>1, <1>5, <1>6, <1>8, <1>9 DEF IInv, SeenOnce

LEMMA RecordsKeeps ==
    ASSUME IInv, RuleAssumption, NEW d \in Deliveries, Records(d)
    PROVE  IInv'
<1> DEFINE r == First(job[d].todo)
           rest == Next1(d, r, "recording", "releasing")
           again == [job[d] EXCEPT !.todo = job[d].live]
<1>1. /\ job[d].at = "recording" /\ upsets' \subseteq Upsets
      /\ UNCHANGED <<entry, seen, busy, cooldown, form, queue, in_call, runs, edits>>
    BY UpsetTyped DEF Records, keyVars, IInv
<1>2. job[d] \in Job /\ Fits(d, job[d], busy, seen) /\ job[d].live \subseteq job[d].claims
    BY <1>1 DEF IInv, AllFit, Fits
<1>3. /\ rest \in Job /\ rest.claims = job[d].claims /\ rest.live = job[d].live
      /\ rest.at \in {"recording", "releasing"} /\ rest.renewing = job[d].renewing
    <2>1. StagesGo("recording", "releasing") /\ job[d].at = "recording" /\ job[d] \in Job
        BY <1>1, <1>2 DEF StagesGo, Early, Late, Ended
    <2>2. Round(rest, d, r, "recording", "releasing")
        BY <2>1, NextRound
    <2> HIDE DEF rest
    <2> QED
        BY <1>1, <1>2, <2>2 DEF Round
<1>4. /\ again \in Job /\ again.claims = job[d].claims /\ again.live = job[d].live
      /\ again.at = "recording" /\ again.renewing = job[d].renewing
    BY <1>1, <1>2 DEF Job
<1>5. Goes(d, IF rest.at = "releasing" THEN Finally(d, rest) ELSE rest) \/ Goes(d, again)
    BY DEF Records
<1> HIDE DEF rest, r, again
<1>6. Fits(d, Finally(d, rest), busy, seen) /\ Finally(d, rest).at = "releasing"
    BY <1>1, <1>2, <1>3, FinallyFits DEF Executing
<1>7. (rest.at # "releasing" => Fits(d, rest, busy, seen)) /\ Fits(d, again, busy, seen)
    BY <1>1, <1>2, <1>3, <1>4, ExecutingFits DEF Executing
<1>8. PICK to : /\ Goes(d, to) /\ to.at \in {"recording", "releasing"} /\ Fits(d, to, busy, seen)
    BY <1>3, <1>4, <1>5, <1>6, <1>7
<1> QED
    BY <1>1, <1>8, ExecutingKeeps DEF Executing, HasRun, Ended, IInv, TypeOK

LEMMA ReleasesKeeps ==
    ASSUME IInv, RuleAssumption, NEW d \in Deliveries, Releases(d)
    PROVE  IInv'
<1> DEFINE r == First(job[d].todo)
           rest == Next1(d, r, "releasing", "over")
           over == [job[d] EXCEPT !.at = "over"]
<1>1. /\ job[d].at = "releasing" /\ upsets' \subseteq Upsets
      /\ UNCHANGED <<entry, seen, cooldown, form, queue, in_call, runs, edits>>
    BY UpsetTyped DEF Releases, IInv
<1>2. job[d] \in Job /\ Fits(d, job[d], busy, seen) /\ job[d].live \subseteq job[d].claims
      /\ ~job[d].renewing
    BY <1>1 DEF IInv, AllFit, Fits, Renewed
<1>3. /\ rest \in Job /\ rest.claims = job[d].claims /\ rest.live = job[d].live
      /\ rest.at \in {"releasing", "over"} /\ rest.renewing = job[d].renewing
    <2>1. StagesGo("releasing", "over") /\ job[d].at = "releasing" /\ job[d] \in Job
        BY <1>1, <1>2 DEF StagesGo, Early, Late, Ended
    <2>2. Round(rest, d, r, "releasing", "over")
        BY <2>1, NextRound
    <2> HIDE DEF rest
    <2> QED
        BY <1>1, <1>2, <2>2 DEF Round
<1>4. over.at = "over"
    BY <1>2 DEF Job
<1>5. (Goes(d, rest) \/ Goes(d, over)) /\ (busy' = Frees(busy, r, d) \/ UNCHANGED busy)
    BY DEF Releases
<1> HIDE DEF rest, r, over
<1>6. rest.at = "over" \/ Fits(d, rest, busy', seen)
    BY <1>1, <1>2, <1>3, ExecutingFits DEF Executing
<1>7. /\ busy' \in [Rules -> Deliveries \cup {Nobody}]
      /\ \A q \in Rules : busy[q] # d => busy'[q] = busy[q]
    BY <1>5 DEF Frees, IInv, TypeOK
<1>8. PICK to : /\ Goes(d, to) /\ to.at \in {"releasing", "over"}
                /\ to.at = "over" \/ Fits(d, to, busy', seen)
    BY <1>3, <1>4, <1>5, <1>6
<1> QED
    BY <1>1, <1>7, <1>8, ExecutingKeeps DEF Executing, HasRun, Ended, IInv, TypeOK

--------------------------------------------------------------------------------
(* Keys that run out, and restarts. *)

LEMMA BusyEndsKeeps ==
    ASSUME IInv, RuleAssumption, NEW r \in Rules, BusyEnds(r)
    PROVE  IInv'
<1> DEFINE d == busy[r]
<1>1. /\ busy' = [busy EXCEPT ![r] = Nobody] /\ d \in Deliveries
      /\ job[d].at \in Ended \cup (Late \ {"discarding", "releasing"})
      /\ job[d].at \in Ended \/ ~job[d].renewing
      /\ UNCHANGED <<entry, seen, cooldown, form, job, queue, in_call, runs, upsets, edits>>
    BY DEF BusyEnds, IInv, TypeOK, Ended
<1>2. ~job[d].renewing
    BY <1>1 DEF IInv, AllFit, Fits, Renewed, Ended
<1>3. AllFit'
    <2>1. ASSUME NEW e \in Deliveries
          PROVE  Fits(e, job[e], busy', seen)
        <3>1. Fits(e, job[e], busy, seen) /\ job[e].claims \subseteq Rules
            BY DEF IInv, AllFit, Fits, Job
        <3>2. CASE e = d
            <4>1. job[e].at \notin {"claiming", "queueing"}
                BY <1>1, <3>2 DEF Ended, Late
            <4> QED
                BY <1>2, <3>1, <3>2, <4>1 DEF Fits
        <3>3. CASE e # d
            <4>1. \A q \in Rules : busy[q] = e => busy'[q] = e
                BY <1>1, <3>3 DEF IInv, TypeOK
            <4> QED
                BY <3>1, <4>1 DEF Fits
        <3> QED
            BY <3>2, <3>3
    <2> QED
        BY <1>1, <2>1 DEF IInv, AllFit
<1>4. TypeOK'
    BY <1>1 DEF IInv, TypeOK
<1> QED
    BY <1>1, <1>3, <1>4 DEF IInv, QueueHolds, SeenOnce, RunsSeen

LEMMA LosesClaimKeeps ==
    ASSUME IInv, RuleAssumption, NEW r \in Rules, LosesClaim(r)
    PROVE  IInv'
<1> DEFINE d == busy[r]
           to == [job[d] EXCEPT !.renewing = FALSE]
<1>1. /\ busy' = [busy EXCEPT ![r] = Nobody] /\ d \in Deliveries /\ job[d].renewing /\ Goes(d, to)
      /\ upsets' \subseteq Upsets
      /\ UNCHANGED <<entry, seen, cooldown, form, queue, in_call, runs, edits>>
    BY UpsetTyped DEF LosesClaim, IInv, TypeOK
<1>2. job[d] \in Job /\ Fits(d, job[d], busy, seen) /\ job[d].at \in Renewed
    BY <1>1 DEF IInv, AllFit, Fits
<1>3. /\ to \in Job /\ to.at = job[d].at /\ to.todo = job[d].todo /\ to.claims = job[d].claims
      /\ to.live = job[d].live /\ ~to.renewing
    BY <1>2 DEF Job
<1>4. \A q \in Rules : busy[q] # d => busy'[q] = busy[q]
    BY <1>1 DEF IInv, TypeOK
<1> HIDE DEF to, d
<1>5. Fits(d, to, busy', seen')
    BY <1>1, <1>2, <1>3 DEF Fits, Renewed
<1>6. AllFit'
    BY <1>1, <1>4, <1>5, MovesFit DEF IInv
<1>7. \A e \in Deliveries : job'[e].at = job[e].at
    BY <1>1, <1>2, <1>3 DEF Goes, IInv, TypeOK, Ended, Renewed
<1>8. QueueHolds'
    <2>1. \A i \in 1 .. Len(queue) : queue[i] \in Deliveries
        BY DEF IInv, TypeOK
    <2>2. \A i \in 1 .. Len(queue) : job'[queue[i]].at = job[queue[i]].at
        BY <1>7, <2>1
    <2>3. queue' = queue
        BY <1>1
    <2> QED
        BY <2>2, <2>3 DEF IInv, QueueHolds
<1>9. RunsSeen'
    BY <1>1, <1>7 DEF IInv, TypeOK, RunsSeen
<1>10. TypeOK'
    BY <1>1, <1>6 DEF IInv, TypeOK, AllFit
<1> QED
    BY <1>1, <1>6, <1>8, <1>9, <1>10 DEF IInv, SeenOnce

LEMMA RestartKeeps ==
    ASSUME IInv, RuleAssumption, Restart
    PROVE  IInv'
<1>1. /\ job' = [d \in Deliveries |-> IF job[d].at \in {"coming"} \cup Ended THEN job[d]
                                      ELSE [Coming EXCEPT !.at = "over"]]
      /\ queue' = <<>> /\ form' = [p \in People |-> NoForm] /\ in_call' = FALSE
      /\ upsets' \subseteq Upsets /\ UNCHANGED <<entry, seen, busy, cooldown, runs, edits>>
    BY UpsetTyped DEF Restart, keyVars, IInv
<1>2. ASSUME NEW d \in Deliveries
      PROVE  Fits(d, job'[d], busy', seen')
    <2>1. Fits(d, [Coming EXCEPT !.at = "over"], busy, seen)
        BY OverFits DEF Ended
    <2>2. Fits(d, job[d], busy, seen)
        BY DEF IInv, AllFit
    <2> QED
        BY <1>1, <2>1, <2>2
<1>3. AllFit'
    <2>1. \A d \in Deliveries : job'[d] \in Job
        BY <1>2 DEF Fits
    <2> QED
        BY <1>1, <1>2, <2>1 DEF AllFit
<1>4. \A d \in Deliveries : job[d].at \in HasRun => job'[d].at \in HasRun
    BY <1>1 DEF HasRun, Ended, Coming
<1>5. RunsSeen'
    BY <1>1, <1>4 DEF IInv, TypeOK, RunsSeen
<1>6. QueueHolds'
    BY <1>1 DEF QueueHolds
<1>7. TypeOK'
    <2>1. queue' \in Seq(Deliveries) /\ Len(queue') <= QUEUE_MAX_SIZE
        BY <1>1 DEF RuleAssumption
    <2>2. form' \in [People -> [open : BOOLEAN, rule : Rules \cup {NoRule}, revision : Nat]]
        BY <1>1 DEF NoForm
    <2> QED
        BY <1>1, <1>3, <2>1, <2>2 DEF IInv, TypeOK, AllFit
<1> QED
    BY <1>1, <1>3, <1>5, <1>6, <1>7 DEF IInv, SeenOnce

--------------------------------------------------------------------------------
(* The theorems. *)

LEMMA NextKeeps ==
    ASSUME IInv, RuleAssumption, [Next]_vars
    PROVE  IInv'
<1>1. ASSUME NEW p \in People, Manages(p)
      PROVE  IInv'
    BY <1>1, OpensKeeps, SubmitsKeeps DEF Manages
<1>2. ASSUME NEW d \in Deliveries, Delivers(d)
      PROVE  IInv'
    BY <1>2, MatchesKeeps, ClaimsKeeps, QueuesKeeps, GivingBackKeeps DEF Delivers
<1>3. ASSUME NEW d \in Deliveries, Works(d)
      PROVE  IInv'
    BY <1>3, GivingBackKeeps, ReadsKeeps, SuspendsKeeps, RunsKeeps, RecordsKeeps, ReleasesKeeps
    DEF Works
<1>4. ASSUME NEW r \in Rules, CooldownEnds(r) \/ BusyEnds(r) \/ LosesClaim(r)
      PROVE  IInv'
    BY <1>4, QuietKeeps, BusyEndsKeeps, LosesClaimKeeps
<1>5. CASE Dequeue \/ JoinCall \/ LeaveCall \/ Restart \/ UNCHANGED vars
    BY <1>5, DequeueKeeps, QuietKeeps, RestartKeeps
<1> QED
    BY <1>1, <1>2, <1>3, <1>4, <1>5 DEF Next

(* IInv is an inductive invariant of the rules, their keys and the jobs. *)
THEOREM Invariance == Spec => []IInv
<1> USE RuleAssumption
<1>1. Init => IInv
    BY InitEstablishes
<1>2. IInv /\ [Next]_vars => IInv'
    BY NextKeeps
<1> QED
    BY <1>1, <1>2, PTL DEF Spec

(* Every reachable state is well typed. *)
THEOREM TypeCorrect == Spec => []TypeOK
<1>1. IInv => TypeOK
    BY DEF IInv
<1> QED
    BY <1>1, Invariance, PTL

(* A rule runs at most once for a message, however often it is delivered,    *)
(* restarts, lost claims and jobs that were sent back included               *)
(* (automation_store.py:269-279).                                            *)
THEOREM RunsOnce == Spec => []OncePerMessage
<1>1. IInv => OncePerMessage
    <2> SUFFICES ASSUME IInv, NEW a \in runs, NEW b \in runs, a.rule = b.rule,
                        MessageOf[a.delivery] = MessageOf[b.delivery]
                 PROVE  a = b
        BY DEF OncePerMessage
    <2>1. Key(a.rule, a.delivery) \in seen /\ Key(b.rule, b.delivery) \in seen
        BY DEF IInv, RunsSeen
    <2>2. Key(a.rule, a.delivery) = Key(b.rule, b.delivery)
        BY <2>1 DEF IInv, SeenOnce, Key
    <2>3. a.delivery = b.delivery
        BY <2>2 DEF Key
    <2>4. runs \subseteq [rule : Rules, delivery : Deliveries]
        BY DEF IInv, TypeOK
    <2> QED
        BY <2>3, <2>4
<1> QED
    BY <1>1, Invariance, PTL

(* Two jobs hold a claim on one rule only after one of them lost the claims  *)
(* it was renewing (automation_store.py:273, automation_runner.py:37-47).    *)
THEOREM RulesDoNotOverlap == Spec => []NoRuleOverlap
<1>1. IInv => NoRuleOverlap
    <2> SUFFICES ASSUME IInv, NEW d \in Deliveries, NEW e \in Deliveries, NEW r \in Rules,
                        d # e, Holds(d, r), Holds(e, r)
                 PROVE  \E j \in {d, e} : job[j].at \in Late /\ ~job[j].renewing
        BY DEF NoRuleOverlap
    <2>1. ASSUME NEW j \in {d, e}, ~(job[j].at \in Late /\ ~job[j].renewing)
          PROVE  busy[r] = j
        <3>1. r \in job[j].claims /\ (job[j].at = "queueing" \/ job[j].renewing)
            BY <2>1 DEF Holds
        <3> QED
            BY <3>1 DEF IInv, AllFit, Fits
    <2> QED
        BY <2>1
<1> QED
    BY <1>1, Invariance, PTL

--------------------------------------------------------------------------------
(* What was sent back is undone.  Owed(j): the rules on which job j may still *)
(* have a key of its own.                                                    *)

Owed(j) ==
    IF j.at \in {"coming", "returned"} THEN {}
    ELSE IF j.at \in {"claiming", "queueing", "queued"} THEN j.claims
    ELSE IF j.at \in {"refunding", "discarding"} THEN j.todo
    ELSE Rules

Marked(d, r) == busy[r] = d \/ cooldown[r] = d \/ Key(r, d) \in seen

KeysAreOwed ==
    "redis" \notin upsets => \A d \in Deliveries, r \in Rules : Marked(d, r) => r \in Owed(job[d])

(* One delivery moves, and no other gets a key. *)
LEMMA MovesOwe ==
    ASSUME TypeOK, KeysAreOwed, NEW d \in Deliveries, NEW to, Goes(d, to),
           \A e \in Deliveries \ {d}, r \in Rules : Marked(e, r)' => Marked(e, r),
           "redis" \notin upsets' =>
               "redis" \notin upsets /\ \A r \in Rules : Marked(d, r)' => r \in Owed(to)
    PROVE  KeysAreOwed'
<1> DEFINE new == IF to.at \in Ended THEN [Coming EXCEPT !.at = to.at] ELSE to
<1>1. job' = [job EXCEPT ![d] = new] /\ job \in [Deliveries -> Job]
    BY DEF Goes, TypeOK
<1>2. Owed(new) = Owed(to)
    BY DEF Owed, Ended, Coming
<1> HIDE DEF new
<1>3. job'[d] = new /\ \A e \in Deliveries \ {d} : job'[e] = job[e]
    BY <1>1
<1> SUFFICES ASSUME "redis" \notin upsets', NEW e \in Deliveries, NEW r \in Rules, Marked(e, r)'
             PROVE  r \in Owed(job'[e])
    BY DEF KeysAreOwed, Owed
<1>4. CASE e = d
    BY <1>2, <1>3, <1>4
<1>5. CASE e # d
    BY <1>3, <1>5 DEF KeysAreOwed
<1> QED
    BY <1>4, <1>5

LEMMA CalmBefore ==
    ASSUME NEW kind, Smoothly \/ Upset(kind), "redis" \notin upsets'
    PROVE  "redis" \notin upsets /\ (kind = "redis" => Smoothly)
    BY DEF Smoothly, Upset

LEMMA ClaimsOwe ==
    ASSUME IInv, RuleAssumption, KeysAreOwed, NEW d \in Deliveries, Claims(d)
    PROVE  KeysAreOwed'
<1> DEFINE r == First(job[d].todo)
           after == Next1(d, r, "claiming", "queueing")
           claimed == [after EXCEPT !.claims = job[d].claims \cup {r}]
           passed == IF after.at = "queueing" /\ after.claims = {}
                     THEN [after EXCEPT !.at = "over"] ELSE after
           over == [job[d] EXCEPT !.at = "over"]
<1>1. job[d].at = "claiming" /\ job[d] \in Job /\ TypeOK
    BY DEF Claims, IInv, TypeOK
<1>2. /\ after \in Job /\ after.claims = job[d].claims /\ after.at \in {"claiming", "queueing"}
    <2>1. StagesGo("claiming", "queueing")
        BY DEF StagesGo, Early
    <2>2. Round(after, d, r, "claiming", "queueing")
        BY <1>1, <2>1, NextRound
    <2> HIDE DEF after
    <2> QED
        BY <2>2 DEF Round
<1>3. /\ claimed.claims = job[d].claims \cup {r} /\ claimed.at \in {"claiming", "queueing"}
      /\ over.at = "over"
      /\ passed.at = "over" \/ (passed.claims = job[d].claims /\ passed.at \in {"claiming", "queueing"})
    <2> HIDE DEF after, r
    <2> QED
        BY <1>1, <1>2 DEF Job
<1>4. CASE /\ seen' = seen \cup {Key(r, d)}
           /\ busy' = [busy EXCEPT ![r] = d]
           /\ cooldown' = [cooldown EXCEPT ![r] = d]
           /\ Goes(d, claimed)
           /\ Smoothly
    <2> HIDE DEF r, claimed
    <2>1. \A e \in Deliveries, q \in Rules : Marked(e, q)' => Marked(e, q) \/ (e = d /\ q = r)
        BY <1>1, <1>4 DEF Marked, Key, TypeOK
    <2>2. Owed(claimed) = job[d].claims \cup {r} /\ Owed(job[d]) = job[d].claims
        BY <1>1, <1>3 DEF Owed
    <2>3. upsets' = upsets
        BY <1>4 DEF Smoothly
    <2> QED
        BY <1>1, <1>4, <2>1, <2>2, <2>3, MovesOwe DEF KeysAreOwed
<1>5. CASE /\ Goes(d, passed) \/ Goes(d, over)
           /\ UNCHANGED keyVars
           /\ Smoothly \/ Upset("redis")
    <2> HIDE DEF passed, over
    <2>1. \A e \in Deliveries, q \in Rules : Marked(e, q)' => Marked(e, q)
        BY <1>5 DEF Marked, keyVars
    <2>2. Owed(over) = Rules /\ Owed(job[d]) = job[d].claims
          /\ (Owed(passed) = Rules \/ Owed(passed) = job[d].claims)
        BY <1>1, <1>3 DEF Owed
    <2>3. "redis" \notin upsets' => "redis" \notin upsets
        BY <1>5, CalmBefore
    <2> QED
        BY <1>1, <1>5, <2>1, <2>2, <2>3, MovesOwe DEF KeysAreOwed
<1> QED
    BY <1>4, <1>5 DEF Claims, Key

LEMMA GivingBackOwes ==
    ASSUME IInv, RuleAssumption, KeysAreOwed, NEW d \in Deliveries, Refunds(d) \/ Discards(d)
    PROVE  KeysAreOwed'
<1> DEFINE r == First(job[d].todo)
           stage == job[d].at
           rest == Next1(d, r, stage, "returned")
           over == [job[d] EXCEPT !.at = "over"]
<1>1. stage \in {"refunding", "discarding"} /\ job[d] \in Job /\ TypeOK
    BY DEF Refunds, Discards, IInv, TypeOK
<1>2. rest.todo = job[d].todo \ {r} /\ rest.at = (IF job[d].todo = {r} THEN "returned" ELSE stage)
    <2>1. StagesGo(stage, "returned") /\ job[d].at = stage /\ job[d] \in Job
        BY <1>1 DEF StagesGo, Early, Late, Ended
    <2>2. Round(rest, d, r, stage, "returned")
        BY <2>1, NextRound
    <2> HIDE DEF rest
    <2> QED
        BY <2>2 DEF Round
<1>3. /\ Goes(d, rest) \/ Goes(d, over)
      /\ \/ CancelsClaim(r, d) /\ Goes(d, rest) /\ Smoothly
         \/ UNCHANGED keyVars /\ Upset("redis")
    BY DEF Refunds, Discards
<1> HIDE DEF rest, over, r
<1>4. \A e \in Deliveries \ {d}, q \in Rules : Marked(e, q)' => Marked(e, q)
    <2>1. CASE UNCHANGED keyVars
        BY <2>1 DEF keyVars, Marked
    <2>2. CASE CancelsClaim(r, d)
        BY <1>1, <2>2 DEF CancelsClaim, Frees, Marked, TypeOK, RuleAssumption
    <2> QED
        BY <1>3, <2>1, <2>2
<1>5. ASSUME "redis" \notin upsets'
      PROVE  /\ "redis" \notin upsets /\ Goes(d, rest)
             /\ \A q \in Rules : Marked(d, q)' => q \in Owed(rest)
    <2>1. CancelsClaim(r, d) /\ Goes(d, rest) /\ "redis" \notin upsets
        BY <1>3, <1>5 DEF Upset, Smoothly
    <2>2. \A q \in Rules : Marked(d, q)' => Marked(d, q) /\ q # r
        BY <1>1, <2>1 DEF CancelsClaim, Frees, Marked, Key, TypeOK, RuleAssumption
    <2>3. Owed(job[d]) = job[d].todo
        BY <1>1 DEF Owed
    <2>4. Owed(rest) = job[d].todo \ {r}
        BY <1>1, <1>2 DEF Owed
    <2> QED
        BY <2>1, <2>2, <2>3, <2>4 DEF KeysAreOwed
<1>6. "redis" \in upsets' => KeysAreOwed'
    BY DEF KeysAreOwed
<1> QED
    BY <1>1, <1>4, <1>5, <1>6, MovesOwe

LEMMA DequeueOwes ==
    ASSUME IInv, RuleAssumption, KeysAreOwed, Dequeue
    PROVE  KeysAreOwed'
<1> DEFINE d == Head(queue)
           to == [job[d] EXCEPT !.at = IF in_call THEN "discarding" ELSE "reading",
                                !.todo = job[d].claims,
                                !.renewing = ~in_call /\ job[d].renewing]
<1>1. /\ queue \in Seq(Deliveries) /\ queue # <<>> /\ Goes(d, to)
      /\ UNCHANGED <<seen, busy, cooldown, upsets>>
    BY DEF Dequeue, keyVars, IInv, TypeOK
<1>2. d \in Deliveries /\ d = queue[1] /\ 1 \in 1 .. Len(queue)
    BY <1>1
<1>3. job[d].at = "queued" /\ job[d] \in Job /\ TypeOK
    BY <1>2 DEF IInv, QueueHolds, TypeOK
<1>4. to.at \in {"discarding", "reading"} /\ to.todo = job[d].claims
    BY <1>3 DEF Job
<1> HIDE DEF to, d
<1>5. Owed(to) \in {job[d].claims, Rules} /\ Owed(job[d]) = job[d].claims
    BY <1>3, <1>4 DEF Owed
<1>6. \A e \in Deliveries, q \in Rules : Marked(e, q)' => Marked(e, q)
    BY <1>1 DEF Marked
<1> QED
    BY <1>1, <1>2, <1>3, <1>5, <1>6, MovesOwe DEF KeysAreOwed

(* Every other step of a delivery ends where any key may be left, or leaves  *)
(* its keys where they were claimed.                                         *)
LEMMA OthersOwe ==
    ASSUME IInv, RuleAssumption, KeysAreOwed, NEW d \in Deliveries,
           \/ Matches(d) \/ Queues(d)
           \/ Reads(d) \/ Suspends(d) \/ Runs(d) \/ Records(d) \/ Releases(d)
    PROVE  KeysAreOwed'
<1>1. TypeOK /\ job[d] \in Job
    BY DEF IInv, TypeOK
<1>2. \A e \in Deliveries, q \in Rules : Marked(e, q)' => Marked(e, q)
    <2>1. UNCHANGED <<seen, cooldown>> /\ (UNCHANGED busy \/ \E r : busy' = Frees(busy, r, d))
        BY DEF Matches, Queues, Reads, Suspends, Runs, Records, Releases, keyVars
    <2>2. \A e \in Deliveries, q \in Rules : busy'[q] = e => busy[q] = e
        BY <1>1, <2>1 DEF Frees, TypeOK, RuleAssumption
    <2> QED
        BY <2>1, <2>2 DEF Marked
<1>3. "redis" \notin upsets' => "redis" \notin upsets
    BY DEF Matches, Queues, Reads, Suspends, Runs, Records, Releases, Smoothly, Upset
<1>4. ASSUME NEW to, Goes(d, to), Owed(job[d]) \subseteq Owed(to)
      PROVE  KeysAreOwed'
    BY <1>1, <1>2, <1>3, <1>4, MovesOwe DEF KeysAreOwed
<1>5. CASE Matches(d)
    <2>1. Owed(job[d]) = {}
        BY <1>5 DEF Matches, Owed
    <2> QED
        BY <1>4, <1>5, <2>1 DEF Matches
<1>6. CASE Queues(d)
    <2> DEFINE queued == [job[d] EXCEPT !.at = "queued", !.renewing = TRUE]
               back == [job[d] EXCEPT !.at = "refunding", !.todo = job[d].claims]
    <2>1. Goes(d, queued) \/ Goes(d, back)
        BY <1>6 DEF Queues
    <2>2. queued.at = "queued" /\ queued.claims = job[d].claims
          /\ back.at = "refunding" /\ back.todo = job[d].claims
        BY <1>1 DEF Job
    <2> HIDE DEF queued, back
    <2>3. Owed(queued) = job[d].claims /\ Owed(back) = job[d].claims /\ Owed(job[d]) = job[d].claims
        BY <1>6, <2>2 DEF Queues, Owed
    <2> QED
        BY <1>4, <2>1, <2>3
<1>7. ASSUME NEW to, Goes(d, to),
             to.at \in {"reading", "suspending", "running", "recording", "releasing", "over"}
      PROVE  KeysAreOwed'
    <2>1. Owed(to) = Rules
        BY <1>7 DEF Owed
    <2>2. Owed(job[d]) \subseteq Rules
        BY <1>1 DEF Owed, Job
    <2> QED
        BY <1>4, <1>7, <2>1, <2>2
<1>8. ASSUME NEW more, NEW last, NEW r, job[d].at = more,
             more \in {"reading", "suspending", "recording", "releasing"},
             last \in {"running", "releasing", "over"}
      PROVE  Next1(d, r, more, last) \in Job /\ Next1(d, r, more, last).at \in {more, last}
    <2>1. StagesGo(more, last)
        BY <1>8 DEF StagesGo, Early, Late, Ended
    <2>2. Round(Next1(d, r, more, last), d, r, more, last)
        BY <1>1, <1>8, <2>1, NextRound
    <2> QED
        BY <2>2 DEF Round
<1>9. \A j \in Job : Finally(d, j).at = "releasing"
    BY DEF Finally, Job
<1> DEFINE r == First(job[d].todo)
<1>10. CASE Reads(d)
    <2> DEFINE n    == Next1(d, r, "reading", "running")
               live == IF entry[r].status = "enabled" /\ entry[r].revision = job[d].rows[r]
                       THEN job[d].live \cup {r} ELSE job[d].live
               rest == [n EXCEPT !.live = live]
               fails == [job[d] EXCEPT !.at = "recording", !.todo = job[d].live]
               stops == [rest EXCEPT !.at = "suspending", !.todo = live]
    <2>1. \/ Goes(d, rest) \/ Goes(d, Finally(d, rest)) \/ Goes(d, fails)
          \/ Goes(d, Finally(d, job[d])) \/ Goes(d, stops)
        BY <1>10 DEF Reads
    <2>2. n \in Job /\ n.at \in {"reading", "running"}
        BY <1>8, <1>10 DEF Reads
    <2> HIDE DEF n, live
    <2>3. /\ rest.at = n.at /\ stops.at = "suspending" /\ fails.at = "recording"
          /\ Finally(d, rest).at = "releasing" /\ Finally(d, job[d]).at = "releasing"
        BY <1>1, <2>2 DEF Job, Finally
    <2> HIDE DEF rest, stops, fails
    <2> QED
        BY <1>7, <2>1, <2>2, <2>3
<1>11. CASE Suspends(d)
    <2> DEFINE rest == Next1(d, r, "suspending", "releasing")
    <2>1. Goes(d, rest) \/ Goes(d, Finally(d, rest))
        BY <1>11 DEF Suspends
    <2>2. rest \in Job /\ rest.at \in {"suspending", "releasing"}
        BY <1>8, <1>11 DEF Suspends
    <2> HIDE DEF rest
    <2> QED
        BY <1>7, <1>9, <2>1, <2>2
<1>12. CASE Runs(d)
    <2> DEFINE to == [job[d] EXCEPT !.at = "recording", !.todo = job[d].live]
    <2>1. Goes(d, to) /\ to.at = "recording"
        BY <1>1, <1>12 DEF Runs, Job
    <2> HIDE DEF to
    <2> QED
        BY <1>7, <2>1
<1>13. CASE Records(d)
    <2> DEFINE rest == Next1(d, r, "recording", "releasing")
               again == [job[d] EXCEPT !.todo = job[d].live]
    <2>1. Goes(d, rest) \/ Goes(d, Finally(d, rest)) \/ Goes(d, again)
        BY <1>13 DEF Records
    <2>2. rest \in Job /\ rest.at \in {"recording", "releasing"}
        BY <1>8, <1>13 DEF Records
    <2>3. again.at = "recording"
        BY <1>1, <1>13 DEF Records, Job
    <2> HIDE DEF rest, again
    <2> QED
        BY <1>7, <1>9, <2>1, <2>2, <2>3
<1>14. CASE Releases(d)
    <2> DEFINE rest == Next1(d, r, "releasing", "over")
               over == [job[d] EXCEPT !.at = "over"]
    <2>1. Goes(d, rest) \/ Goes(d, over)
        BY <1>14 DEF Releases
    <2>2. rest.at \in {"releasing", "over"}
        BY <1>8, <1>14 DEF Releases
    <2>3. over.at = "over"
        BY <1>1 DEF Job
    <2> HIDE DEF rest, over
    <2> QED
        BY <1>7, <2>1, <2>2, <2>3
<1> QED
    BY <1>5, <1>6, <1>10, <1>11, <1>12, <1>13, <1>14

LEMMA SurroundingsOwe ==
    ASSUME IInv, RuleAssumption, KeysAreOwed,
           \/ \E p \in People : Manages(p)
           \/ \E r \in Rules : CooldownEnds(r) \/ BusyEnds(r) \/ LosesClaim(r)
           \/ JoinCall \/ LeaveCall \/ Restart \/ UNCHANGED vars
    PROVE  KeysAreOwed'
<1>1. TypeOK
    BY DEF IInv
<1>2. "redis" \notin upsets' => "redis" \notin upsets
    BY DEF Manages, Opens, Submits, CooldownEnds, BusyEnds, LosesClaim, JoinCall, LeaveCall, Restart,
           Upset, vars
<1>3. \A e \in Deliveries, q \in Rules : Marked(e, q)' => Marked(e, q)
    BY <1>1 DEF Manages, Opens, Submits, CooldownEnds, BusyEnds, LosesClaim, JoinCall, LeaveCall, Restart,
           keyVars, vars, Marked, TypeOK, RuleAssumption
<1>4. CASE UNCHANGED job
    BY <1>2, <1>3, <1>4 DEF KeysAreOwed
<1>5. ASSUME NEW r \in Rules, LosesClaim(r) PROVE KeysAreOwed'
    <2> DEFINE d == busy[r]
               to == [job[d] EXCEPT !.renewing = FALSE]
    <2>1. d \in Deliveries /\ Goes(d, to)
        BY <1>1, <1>5 DEF LosesClaim, TypeOK
    <2>2. /\ to.at = job[d].at /\ to.claims = job[d].claims /\ to.todo = job[d].todo
        BY <1>1, <2>1 DEF TypeOK, Job
    <2> HIDE DEF to, d
    <2>3. Owed(to) = Owed(job[d])
        BY <2>2 DEF Owed
    <2> QED
        BY <1>1, <1>2, <1>3, <2>1, <2>3, MovesOwe DEF KeysAreOwed
<1>6. CASE Restart
    <2>1. job' = [d \in Deliveries |-> IF job[d].at \in {"coming"} \cup Ended THEN job[d]
                                       ELSE [Coming EXCEPT !.at = "over"]]
        BY <1>6 DEF Restart
    <2>2. Owed([Coming EXCEPT !.at = "over"]) = Rules
        BY DEF Owed, Coming
    <2>3. \A d \in Deliveries : Owed(job[d]) \subseteq Rules
        BY <1>1 DEF Owed, TypeOK, Job
    <2>4. \A d \in Deliveries : Owed(job[d]) \subseteq Owed(job'[d])
        BY <2>1, <2>2, <2>3
    <2> QED
        BY <1>2, <1>3, <2>4 DEF KeysAreOwed
<1> QED
    BY <1>4, <1>5, <1>6 DEF Manages, Opens, Submits, CooldownEnds, BusyEnds, JoinCall, LeaveCall, vars

(* A job the full queue or a call sent back leaves its message and its rules *)
(* as if it had never matched, unless Redis failed: every key it had is      *)
(* owed until it is cancelled, the cooldown included                         *)
(* (automation_runner.py:137-141).                                           *)
THEOREM SentBackLeavesNothing == Spec => []SentBackIsUndone
<1> USE RuleAssumption
<1>1. Init => KeysAreOwed
    BY DEF Init, KeysAreOwed, Marked, RuleAssumption
<1>2. IInv /\ KeysAreOwed /\ [Next]_vars => KeysAreOwed'
    BY ClaimsOwe, GivingBackOwes, DequeueOwes, OthersOwe, SurroundingsOwe DEF Next, Delivers, Works
<1>3. IInv /\ KeysAreOwed => SentBackIsUndone
    BY DEF KeysAreOwed, SentBackIsUndone, Owed, Marked, Key
<1> QED
    BY <1>1, <1>2, <1>3, Invariance, PTL DEF Spec

--------------------------------------------------------------------------------
(* How many rules there are. *)

FewRules == IsFiniteSet(Active) /\ QuotaKept

LEMMA FewStayFew ==
    ASSUME FewRules, Active' \subseteq Active
    PROVE  FewRules'
<1>1. IsFiniteSet(Active') /\ Cardinality(Active') <= Cardinality(Active)
    BY FS_Subset DEF FewRules
<1>2. Cardinality(Active') \in Nat /\ Cardinality(Active) \in Nat
    BY <1>1, FS_CardinalityType DEF FewRules
<1> QED
    BY <1>1, <1>2, RuleAssumption DEF FewRules, QuotaKept

(* A server never has more rules than it may, however many forms were opened *)
(* while there was room: the quota is looked at again when a form is sent    *)
(* (automation_store.py:81-90, 135).                                         *)
THEOREM ServerKeepsItsQuota == Spec => []QuotaKept
<1> USE RuleAssumption
<1>1. ASSUME Init PROVE FewRules
    <2>1. Active \subseteq 1 .. RULE_MAX_PER_GUILD - 1
        BY <1>1 DEF Init, Active, NoRule
    <2>2. RULE_MAX_PER_GUILD - 1 \in Nat
        OBVIOUS
    <2>3. /\ IsFiniteSet(1 .. RULE_MAX_PER_GUILD - 1)
          /\ Cardinality(1 .. RULE_MAX_PER_GUILD - 1) <= RULE_MAX_PER_GUILD
        <3>1. 1 \in Int /\ RULE_MAX_PER_GUILD - 1 \in Int
            OBVIOUS
        <3> DEFINE n == RULE_MAX_PER_GUILD - 1
        <3> HIDE DEF n
        <3>2. /\ IsFiniteSet(1 .. n)
              /\ Cardinality(1 .. n) = IF 1 > n THEN 0 ELSE n - 1 + 1
            BY <3>1, FS_Interval DEF n
        <3> QED
            BY <3>2 DEF n
    <2>4. IsFiniteSet(Active) /\ Cardinality(Active) <= Cardinality(1 .. RULE_MAX_PER_GUILD - 1)
        BY <2>1, <2>3, FS_Subset
    <2>5. Cardinality(Active) \in Nat /\ Cardinality(1 .. RULE_MAX_PER_GUILD - 1) \in Nat
        BY <2>3, <2>4, FS_CardinalityType
    <2> QED
        BY <2>3, <2>4, <2>5 DEF FewRules, QuotaKept
<1>2. ASSUME IInv, FewRules, [Next]_vars PROVE FewRules'
    <2>u. ASSUME UNCHANGED entry PROVE FewRules'
        BY <1>2, <2>u DEF FewRules, QuotaKept, Active
    <2>t. DOMAIN entry = Rules /\ entry = [n \in Rules |-> entry[n]]
        BY <1>2 DEF IInv, TypeOK
    <2>m. ASSUME NEW r, NEW revision, NEW status, MayUpdate(r, revision), Update(r, status)
          PROVE  FewRules'
        <3>1. \A n \in Rules \ {r} : entry'[n] = entry[n]
            BY <2>t, <2>m DEF Update
        <3>2. r \in Rules => r \in Active
            BY <2>m DEF MayUpdate, Active
        <3>3. Active' \subseteq Active
            BY <3>1, <3>2 DEF Active
        <3> QED
            BY <1>2, <3>3, FewStayFew
    <2>1. CASE \E p \in People : Submits(p)
        <3>1. PICK p \in People : Submits(p)
            BY <2>1
        <3> DEFINE r == form[p].rule
                   new == {n \in Rules : MayCreate(n)}
        <3>2. CASE r = NoRule /\ new # {}
            <4>1. entry' = [entry EXCEPT ![First(new)] = [status |-> "enabled", revision |-> 1]]
                BY <3>1, <3>2 DEF Submits, MayUpdate
            <4>2. HasRoom
                BY <3>2 DEF MayCreate
            <4>3. Active' \subseteq Active \cup {First(new)}
                BY <2>t, <4>1 DEF Active
            <4>4. /\ IsFiniteSet(Active \cup {First(new)})
                  /\ Cardinality(Active \cup {First(new)}) <= Cardinality(Active) + 1
                <5>1. /\ IsFiniteSet(Active \cup {First(new)})
                      /\ Cardinality(Active \cup {First(new)}) =
                           IF First(new) \in Active THEN Cardinality(Active) ELSE Cardinality(Active) + 1
                    BY <1>2, FS_AddElement DEF FewRules
                <5>2. Cardinality(Active) \in Nat
                    BY <1>2, FS_CardinalityType DEF FewRules
                <5> QED
                    BY <5>1, <5>2
            <4>5. /\ IsFiniteSet(Active')
                  /\ Cardinality(Active') <= Cardinality(Active \cup {First(new)})
                BY <4>3, <4>4, FS_Subset
            <4>6. /\ Cardinality(Active') \in Nat /\ Cardinality(Active) \in Nat
                  /\ Cardinality(Active \cup {First(new)}) \in Nat
                BY <1>2, <4>4, <4>5, FS_CardinalityType DEF FewRules
            <4>7. Cardinality(Active') <= RULE_MAX_PER_GUILD
                BY <4>2, <4>4, <4>5, <4>6 DEF HasRoom
            <4> QED
                BY <4>5, <4>7 DEF FewRules, QuotaKept
        <3>3. CASE r # NoRule /\ MayUpdate(r, form[p].revision)
            <4>1. PICK status : Update(r, status)
                BY <3>1, <3>3 DEF Submits
            <4> QED
                BY <2>m, <3>3, <4>1
        <3>4. CASE \/ r = NoRule /\ new = {}
                   \/ r # NoRule /\ ~MayUpdate(r, form[p].revision)
            BY <2>u, <3>1, <3>4 DEF Submits
        <3> QED
            BY <3>2, <3>3, <3>4
    <2>2. CASE \E d \in Deliveries : Suspends(d)
        <3>1. PICK d \in Deliveries : Suspends(d)
            BY <2>2
        <3> DEFINE r == First(job[d].todo)
        <3>2. \/ MayUpdate(r, job[d].rows[r]) /\ Update(r, "suspended")
              \/ UNCHANGED entry
            BY <3>1 DEF Suspends
        <3> QED
            BY <2>u, <2>m, <3>2
    <2>3. CASE ~(\E p \in People : Submits(p)) /\ ~(\E d \in Deliveries : Suspends(d))
        <3>1. UNCHANGED entry
            BY <1>2, <2>3
            DEF Next, Manages, Delivers, Works, Opens, Matches, Claims, Queues, Refunds, Discards, Reads,
                Runs, Records, Releases, CooldownEnds, BusyEnds, LosesClaim, Dequeue, JoinCall,
                LeaveCall, Restart, vars
        <3> QED
            BY <2>u, <3>1
    <2> QED
        BY <2>1, <2>2, <2>3
<1> QED
    BY <1>1, <1>2, Invariance, PTL DEF Spec, FewRules
================================================================================
