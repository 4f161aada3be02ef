-------------------------------- MODULE RuleRuns -------------------------------
(***************************************************************************)
(* Message rules, from the forms people fill in to the runs they start:    *)
(* core/classes/automation_commands.py, automation_store.py and            *)
(* automation_runner.py, with main.py's on_message() and worker.           *)
(*                                                                         *)
(* A message that matches rules claims each of them, one script after      *)
(* another, and becomes one job.  Discord may deliver a message again      *)
(* after a reconnect, so the actors are deliveries, the workers that take  *)
(* their jobs, and people.  Each step is one Redis command, script or      *)
(* transaction and the code up to the next await; a transaction under      *)
(* WATCH is retried until nothing changed meanwhile, so it is one step.    *)
(***************************************************************************)
EXTENDS Integers, Sequences, FiniteSets

CONSTANTS
    Rules,          \* ids of rules, numbered as they are created
    People,         \* who manages them
    Deliveries,     \* calls of on_message()
    MessageOf,      \* the message each one delivers
    Nobody,         \* in a key that is not there
    Matching,       \* which rules match which messages
    RULE_MAX_PER_GUILD,
    QUEUE_MAX_SIZE,
    Upsets,         \* what may go wrong, see UpsetKinds
    MaxUpsets,      \* bound of the model: how many of them do
    MaxEdits        \* bound of the model: how many forms are opened

UpsetKinds == {
    "redis",    \* a command raises
    "lost",     \* Redis loses the busy key of a job that is alive
    "access",   \* the last editor or the bot lost access to the channel
    "call",     \* the bot joins a voice call in this server
    "restart"}  \* the process stops and starts again

NoRule == 0

ASSUME RuleAssumption ==
    /\ Rules \subseteq Nat \ {NoRule} /\ Nobody \notin Deliveries
    /\ Matching \subseteq Rules \X {MessageOf[d] : d \in Deliveries}
    /\ {RULE_MAX_PER_GUILD, QUEUE_MAX_SIZE, MaxUpsets, MaxEdits} \subseteq Nat \ {0}
    /\ Upsets \subseteq UpsetKinds

VARIABLES
    entry,      \* Redis: the record of each rule
    seen,       \* Redis: rule-message keys
    busy,       \* Redis: the busy key of each rule: whose claim it is
    cooldown,   \* Redis: its cooldown key, the same
    form,       \* what each person has open
    job,        \* where each delivery is, and what it claimed
    queue,      \* jobs waiting for a worker
    in_call,    \* whether the bot is in a voice call in this server
    runs,       \* history: what was run
    upsets,     \* what went wrong
    edits       \* how many forms were opened

keyVars == <<seen, busy, cooldown>>
vars    == <<entry, keyVars, form, job, queue, in_call, runs, upsets, edits>>

Statuses == {"none", "enabled", "paused", "suspended", "deleted"}
Entry    == [status : Statuses, revision : Nat]

(* What a delivery awaits.  After put_nowait() it is a job; "returned" are  *)
(* the jobs the full queue or a call sent back.                             *)
Early  == {"coming", "claiming", "queueing", "refunding"}
Late   == {"queued", "discarding", "reading", "suspending", "running", "recording", "releasing"}
Ended  == {"over", "returned"}

Job == [at : Early \cup Late \cup Ended,
        rows : [Rules -> Nat],      \* the revision it was admitted with
        todo : SUBSET Rules,        \* the rest of the loop it is in
        claims : SUBSET Rules,
        live : SUBSET Rules,        \* execute()'s rows
        renewing : BOOLEAN]

TypeOK ==
    /\ entry \in [Rules -> Entry]
    /\ seen \subseteq [rule : Rules, token : Deliveries]
    /\ busy \in [Rules -> Deliveries \cup {Nobody}]
    /\ cooldown \in [Rules -> Deliveries \cup {Nobody}]
    /\ form \in [People -> [open : BOOLEAN, rule : Rules \cup {NoRule}, revision : Nat]]
    /\ job \in [Deliveries -> Job]
    /\ queue \in Seq(Deliveries) /\ Len(queue) <= QUEUE_MAX_SIZE
    /\ in_call \in BOOLEAN
    /\ runs \subseteq [rule : Rules, delivery : Deliveries]
    /\ upsets \subseteq Upsets /\ edits \in 0..MaxEdits

--------------------------------------------------------------------------------

NoForm == [open |-> FALSE, rule |-> NoRule, revision |-> 0]
Coming == [at |-> "coming", rows |-> [r \in Rules |-> 0], todo |-> {}, claims |-> {},
           live |-> {}, renewing |-> FALSE]

(* The server has room for one more rule. *)
Init ==
    /\ entry = [r \in Rules |-> IF r < RULE_MAX_PER_GUILD
                                THEN [status |-> "enabled", revision |-> 1]
                                ELSE [status |-> "none", revision |-> 0]]
    /\ seen = {} /\ busy = [r \in Rules |-> Nobody] /\ cooldown = [r \in Rules |-> Nobody]
    /\ form = [p \in People |-> NoForm]
    /\ job = [d \in Deliveries |-> Coming]
    /\ queue = <<>> /\ in_call = FALSE /\ runs = {}
    /\ upsets = {} /\ edits = 0

Upset(kind) ==
    /\ kind \in Upsets \ upsets /\ Cardinality(upsets) < MaxUpsets
    /\ upsets' = upsets \cup {kind}
Smoothly    == UNCHANGED upsets

First(S) == CHOOSE r \in S : \A q \in S : r <= q

--------------------------------------------------------------------------------
(* The records: automation_store.py. *)

(* _active_count() and check_quota(): every rule that is not deleted counts. *)
Active     == {r \in Rules : entry[r].status \notin {"none", "deleted"}}
HasRoom    == Cardinality(Active) < RULE_MAX_PER_GUILD

(* create() checks again in its transaction. *)
MayCreate(r) == entry[r].status = "none" /\ HasRoom

(* update() refuses a stale revision and what was deleted. *)
MayUpdate(r, revision) ==
    entry[r].revision = revision /\ entry[r].status \notin {"none", "deleted"}

Update(r, status) ==
    entry' = [entry EXCEPT ![r] = [status |-> status, revision |-> entry[r].revision + 1]]

--------------------------------------------------------------------------------
(* The commands: automation_commands.py. *)

(* /rule create looks at the quota before it opens the form; /rule edit and *)
(* the others read the record they will update.                             *)
Opens(p) ==
    /\ ~form[p].open /\ edits < MaxEdits
    /\ \E r \in Active \cup {NoRule} :
           /\ r = NoRule => HasRoom
           /\ form' = [form EXCEPT ![p] =
                  [open |-> TRUE, rule |-> r,
                   revision |-> IF r = NoRule THEN 0 ELSE entry[r].revision]]
    /\ edits' = edits + 1
    /\ UNCHANGED <<entry, keyVars, job, queue, in_call, runs, upsets>>

(* on_submit() and _set_status(): a stale revision or a full server is      *)
(* refused.  The form of an edit leaves the status as it is.                *)
Submits(p) ==
    /\ form[p].open
    /\ LET r == form[p].rule
           new == {n \in Rules : MayCreate(n)}
       IN \/ /\ r = NoRule
             /\ IF new = {} THEN UNCHANGED entry
                ELSE entry' = [entry EXCEPT ![First(new)] = [status |-> "enabled", revision |-> 1]]
          \/ /\ r # NoRule
             /\ IF MayUpdate(r, form[p].revision)
                THEN \E status \in {"enabled", "paused", "deleted", entry[r].status} :
                         Update(r, status)
                ELSE UNCHANGED entry
    /\ form' = [form EXCEPT ![p] = NoForm]
    /\ UNCHANGED <<keyVars, job, queue, in_call, runs, upsets, edits>>

--------------------------------------------------------------------------------
(* match_message(). *)

(* What has ended is forgotten. *)
Goes(d, to) ==
    job' = [job EXCEPT ![d] = IF to.at \in Ended THEN [Coming EXCEPT !.at = to.at] ELSE to]

(* The loop over todo is done with rule r; then: after it the last. *)
Next1(d, r, more, last) ==
    [job[d] EXCEPT !.todo = @ \ {r}, !.at = IF @ = more /\ job[d].todo = {r} THEN last ELSE @]

(* on_message() returns early in a call; rules are listed, then the queue    *)
(* is looked at.  list() reads one record after another; the rules are      *)
(* independent, so it is one step.                                          *)
Matches(d) ==
    /\ job[d].at = "coming"
    /\ LET m    == MessageOf[d]
           rows == {r \in Rules : entry[r].status = "enabled" /\ <<r, m>> \in Matching}
       IN \/ /\ ~in_call /\ rows # {} /\ Len(queue) < QUEUE_MAX_SIZE
             /\ Goes(d, [Coming EXCEPT !.at = "claiming", !.todo = rows,
                            !.rows = [r \in Rules |-> IF r \in rows THEN entry[r].revision ELSE 0]])
             /\ Smoothly
          \/ /\ in_call \/ rows = {} \/ Len(queue) >= QUEUE_MAX_SIZE
             /\ Goes(d, [Coming EXCEPT !.at = "over"]) /\ Smoothly
          \/ Goes(d, [Coming EXCEPT !.at = "over"]) /\ Upset("redis")
    /\ UNCHANGED <<entry, keyVars, form, queue, in_call, runs, edits>>

(* Mutants: the script does not look at the message key, or the busy key. *)
ClaimableTwice(d, r) == busy[r] = Nobody /\ cooldown[r] = Nobody
ClaimableBusy(d, r)  ==
    /\ cooldown[r] = Nobody
    /\ ~\E k \in seen : k.rule = r /\ MessageOf[k.token] = MessageOf[d]

(* claim_rule(): one script looks at three keys and sets the three. *)
Claimable(d, r) ==
    /\ ~\E k \in seen : k.rule = r /\ MessageOf[k.token] = MessageOf[d]
    /\ busy[r] = Nobody /\ cooldown[r] = Nobody

(* When it raises, what was claimed before stays until it runs out. *)
Claims(d) ==
    LET r     == First(job[d].todo)
        taken == job[d].claims \cup {r}
        after == Next1(d, r, "claiming", "queueing")
    IN  /\ job[d].at = "claiming"
        /\ \/ /\ Claimable(d, r)
              /\ seen' = seen \cup {[rule |-> r, token |-> d]}
              /\ busy' = [busy EXCEPT ![r] = d]
              /\ cooldown' = [cooldown EXCEPT ![r] = d]
              /\ Goes(d, [after EXCEPT !.claims = taken])
              /\ Smoothly
           \/ /\ ~Claimable(d, r)
              /\ Goes(d, IF after.at = "queueing" /\ after.claims = {}
                         THEN [after EXCEPT !.at = "over"] ELSE after)
              /\ UNCHANGED keyVars /\ Smoothly
           \/ Goes(d, [job[d] EXCEPT !.at = "over"]) /\ UNCHANGED keyVars /\ Upset("redis")
        /\ UNCHANGED <<entry, form, queue, in_call, runs, edits>>

(* put_nowait(), then the renewal task. *)
Queues(d) ==
    /\ job[d].at = "queueing"
    /\ IF Len(queue) < QUEUE_MAX_SIZE
       THEN /\ queue' = Append(queue, d)
            /\ Goes(d, [job[d] EXCEPT !.at = "queued", !.renewing = TRUE])
       ELSE /\ Goes(d, [job[d] EXCEPT !.at = "refunding", !.todo = job[d].claims])
            /\ UNCHANGED queue
    /\ UNCHANGED <<entry, keyVars, form, in_call, runs, upsets, edits>>

Frees(key, r, d) == IF key[r] = d THEN [key EXCEPT ![r] = Nobody] ELSE key

(* Mutant: a rule's claim is cancelled the way a schedule's is. *)
CancelsTwoKeys(r, d) ==
    /\ seen' = seen \ {[rule |-> r, token |-> d]}
    /\ busy' = Frees(busy, r, d)
    /\ UNCHANGED cooldown

(* cancel_claim(rule=True): the three keys, where they hold its token. *)
CancelsClaim(r, d) ==
    /\ seen' = seen \ {[rule |-> r, token |-> d]}
    /\ busy' = Frees(busy, r, d)
    /\ cooldown' = Frees(cooldown, r, d)

(* The queue filled up: a failure ends the loop. *)
Refunds(d) ==
    /\ job[d].at = "refunding"
    /\ LET r == First(job[d].todo) IN
       \/ CancelsClaim(r, d) /\ Goes(d, Next1(d, r, "refunding", "returned")) /\ Smoothly
       \/ Goes(d, [job[d] EXCEPT !.at = "over"]) /\ UNCHANGED keyVars /\ Upset("redis")
    /\ UNCHANGED <<entry, form, queue, in_call, runs, edits>>

--------------------------------------------------------------------------------
(* The worker: process_messages(), discard() and execute(). *)

Dequeue ==
    /\ queue # <<>>
    /\ LET d == Head(queue) IN
       Goes(d, [job[d] EXCEPT !.at = IF in_call THEN "discarding" ELSE "reading",
                              !.todo = job[d].claims,
                              !.renewing = ~in_call /\ job[d].renewing])
    /\ queue' = Tail(queue)
    /\ UNCHANGED <<entry, keyVars, form, in_call, runs, upsets, edits>>

(* discard(): a failure is logged, the other claims are still cancelled. *)
Discards(d) ==
    /\ job[d].at = "discarding"
    /\ LET r == First(job[d].todo) IN
       /\ \/ CancelsClaim(r, d) /\ Smoothly
          \/ UNCHANGED keyVars /\ Upset("redis")
       /\ Goes(d, Next1(d, r, "discarding", "returned"))
    /\ UNCHANGED <<entry, form, queue, in_call, runs, edits>>

(* finally: every claim of the job is released, whatever was run. *)
ToRelease(d) == job[d].claims

Finally(d, before) == [before EXCEPT !.at = "releasing", !.todo = ToRelease(d), !.renewing = FALSE]

(* Those still enabled with the revision they were admitted with are run,   *)
(* each read by itself.                                                     *)
Reads(d) ==
    /\ job[d].at = "reading"
    /\ LET r    == First(job[d].todo)
           live == IF entry[r].status = "enabled" /\ entry[r].revision = job[d].rows[r]
                   THEN job[d].live \cup {r} ELSE job[d].live
           rest == [Next1(d, r, "reading", "running") EXCEPT !.live = live]
           none == rest.at = "running" /\ live = {}
       IN \/ Goes(d, IF none THEN Finally(d, rest) ELSE rest) /\ Smoothly /\ UNCHANGED runs
          \/ Goes(d, [job[d] EXCEPT !.at = "recording", !.todo = job[d].live])
             /\ job[d].live # {} /\ Upset("redis") /\ UNCHANGED runs
          \/ Goes(d, Finally(d, job[d])) /\ job[d].live = {} /\ Upset("redis") /\ UNCHANGED runs
          \/ /\ rest.at = "running" /\ ~none /\ Upset("access")
             /\ Goes(d, [rest EXCEPT !.at = "suspending", !.todo = live]) /\ UNCHANGED runs
    /\ UNCHANGED <<entry, keyVars, form, queue, in_call, edits>>

(* AccessLost: each rule is suspended, if its revision is still that. *)
Suspends(d) ==
    /\ job[d].at = "suspending"
    /\ LET r == First(job[d].todo)
           rest == Next1(d, r, "suspending", "releasing")
       IN /\ \/ MayUpdate(r, job[d].rows[r]) /\ Update(r, "suspended") /\ Smoothly
             \/ ~MayUpdate(r, job[d].rows[r]) /\ UNCHANGED entry /\ Smoothly
             \/ UNCHANGED entry /\ Upset("redis")
          /\ Goes(d, IF rest.at = "releasing" THEN Finally(d, rest) ELSE rest)
    /\ UNCHANGED <<keyVars, form, queue, in_call, runs, edits>>

(* The model runs and its answer is sent.  When either fails the outcome is *)
(* another, and it is recorded the same way.                                *)
Runs(d) ==
    /\ job[d].at = "running"
    /\ runs' = runs \cup [rule : job[d].live, delivery : {d}]
    /\ Goes(d, [job[d] EXCEPT !.at = "recording", !.todo = job[d].live])
    /\ UNCHANGED <<entry, keyVars, form, queue, in_call, upsets, edits>>

(* finish() of a rule only writes down the result.  The first failure        *)
(* records them all again, as uncertain; the next are logged.               *)
Records(d) ==
    /\ job[d].at = "recording"
    /\ LET r == First(job[d].todo)
           rest == Next1(d, r, "recording", "releasing")
       IN \/ Goes(d, IF rest.at = "releasing" THEN Finally(d, rest) ELSE rest) /\ Smoothly
          \/ Goes(d, [job[d] EXCEPT !.todo = job[d].live]) /\ Upset("redis")
    /\ UNCHANGED <<entry, keyVars, form, queue, in_call, runs, edits>>

(* release(): the busy key, where it holds its token.  The message keys and  *)
(* the cooldown stay.                                                       *)
Releases(d) ==
    /\ job[d].at = "releasing"
    /\ IF job[d].todo = {}
       THEN Goes(d, [job[d] EXCEPT !.at = "over"]) /\ UNCHANGED busy /\ Smoothly
       ELSE LET r == First(job[d].todo) IN
            /\ Goes(d, Next1(d, r, "releasing", "over"))
            /\ \/ busy' = Frees(busy, r, d) /\ Smoothly
               \/ UNCHANGED busy /\ Upset("redis")
    /\ UNCHANGED <<entry, seen, cooldown, form, queue, in_call, runs, edits>>

--------------------------------------------------------------------------------
(* Time, voice calls and restarts. *)

(* RULE_COOLDOWN_SECONDS have passed, however long its run takes. *)
CooldownEnds(r) ==
    /\ cooldown[r] # Nobody
    /\ cooldown' = [cooldown EXCEPT ![r] = Nobody]
    /\ UNCHANGED <<entry, seen, busy, form, job, queue, in_call, runs, upsets, edits>>

(* A busy key nobody renews any more runs out.  Claiming, queueing and       *)
(* releasing are short next to its 900 seconds.                             *)
BusyEnds(r) ==
    /\ busy[r] # Nobody
    /\ LET d == busy[r] IN
       \/ job[d].at \in Ended
       \/ ~job[d].renewing /\ job[d].at \in Late \ {"discarding", "releasing"}
    /\ busy' = [busy EXCEPT ![r] = Nobody]
    /\ UNCHANGED <<entry, seen, cooldown, form, job, queue, in_call, runs, upsets, edits>>

(* _renew() finds one claim gone: it returns, and the job's other claims are *)
(* not renewed either.                                                      *)
LosesClaim(r) ==
    /\ busy[r] # Nobody /\ job[busy[r]].renewing
    /\ Upset("lost")
    /\ busy' = [busy EXCEPT ![r] = Nobody]
    /\ Goes(busy[r], [job[busy[r]] EXCEPT !.renewing = FALSE])
    /\ UNCHANGED <<entry, seen, cooldown, form, queue, in_call, runs, edits>>

(* Joining: the gate opens; leaving: it closes. *)
JoinCall ==
    /\ ~in_call /\ Upset("call") /\ in_call' = TRUE
    /\ UNCHANGED <<entry, keyVars, form, job, queue, runs, edits>>

LeaveCall ==
    /\ in_call /\ in_call' = FALSE
    /\ UNCHANGED <<entry, keyVars, form, job, queue, runs, upsets, edits>>

(* The queue and the forms are in memory; the keys are in Redis. *)
Restart ==
    /\ Upset("restart")
    /\ job' = [d \in Deliveries |-> IF job[d].at \in {"coming"} \cup Ended THEN job[d]
                                    ELSE [Coming EXCEPT !.at = "over"]]
    /\ queue' = <<>> /\ form' = [p \in People |-> NoForm] /\ in_call' = FALSE
    /\ UNCHANGED <<entry, keyVars, runs, edits>>

Manages(p)  == Opens(p) \/ Submits(p)
Delivers(d) == Matches(d) \/ Claims(d) \/ Queues(d) \/ Refunds(d)
Works(d)    == Discards(d) \/ Reads(d) \/ Suspends(d) \/ Runs(d) \/ Records(d) \/ Releases(d)

Next ==
    \/ \E p \in People : Manages(p)
    \/ \E d \in Deliveries : Delivers(d) \/ Works(d)
    \/ \E r \in Rules : CooldownEnds(r) \/ BusyEnds(r) \/ LosesClaim(r)
    \/ Dequeue \/ JoinCall \/ LeaveCall \/ Restart

Spec == Init /\ [][Next]_vars

--------------------------------------------------------------------------------
(* Properties. *)

Holds(d, r) == job[d].at \in Late \cup {"queueing"} /\ r \in job[d].claims

(* A rule is not run for two messages at once: two jobs hold a claim on it  *)
(* only after one of them has lost the claims it was renewing               *)
(* (automation_store.py:273, automation_runner.py:37-47).                   *)
NoRuleOverlap ==
    \A d, e \in Deliveries, r \in Rules :
        d # e /\ Holds(d, r) /\ Holds(e, r) =>
            \E j \in {d, e} : job[j].at \in Late /\ ~job[j].renewing

(* However often Discord delivers a message, a rule runs at most once for   *)
(* it, restarts, lost claims and jobs that were sent back included          *)
(* (automation_store.py:269-279).                                           *)
OncePerMessage ==
    \A a, b \in runs :
        a.rule = b.rule /\ MessageOf[a.delivery] = MessageOf[b.delivery] => a = b

(* A job the full queue or a call sent back leaves its message and its      *)
(* rules as if it had never matched (automation_runner.py:137-141), unless  *)
(* Redis failed or lost its keys.                                           *)
SentBackIsUndone ==
    \A d \in Deliveries :
        job[d].at = "returned" /\ "redis" \notin upsets =>
            \A r \in Rules : busy[r] # d /\ cooldown[r] # d /\ [rule |-> r, token |-> d] \notin seen

(* However many forms are open at once, a server never has more rules than  *)
(* it may (automation_store.py:81-90, 135).                                 *)
QuotaKept == Cardinality(Active) <= RULE_MAX_PER_GUILD
================================================================================
