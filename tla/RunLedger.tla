------------------------------- MODULE RunLedger -------------------------------
(***************************************************************************)
(* The ledger of one sandbox run: core/classes/sandbox_thread_inbox.py.    *)
(*                                                                         *)
(* While a run is claimed in a Discord thread, every message posted there  *)
(* becomes an event of this ledger.  The module has one action per         *)
(* mutating method of RunLedger; each method is synchronous, and the bot   *)
(* is one asyncio event loop, so each is one atomic step.  LedgerNext lets *)
(* any caller make any call its documentation allows, in any order: the    *)
(* invariants below do not rely on the coordinator being well behaved.     *)
(***************************************************************************)
EXTENDS Integers, Sequences, FiniteSets, FiniteSetsExt

CONSTANTS
    Messages,               \* what people may post in the thread
    FromRequester,          \* those written by the person who asked for the run
    WithId,                 \* those with a real Discord id (0 and None never dedupe)
    TextLength,             \* characters of text of each message, 0 when it has none
    MAX_PENDING_MESSAGES,
    MAX_PENDING_CHARS,
    MAX_MESSAGE_CHARS,
    MAX_RETAINED_EVENTS,
    MAX_FOLLOW_UPS,
    MaxRevision,            \* bound of the model: accepted messages in one run
    MaxQuestions,           \* bound of the model: questions asked in one run
    MaxChanges,             \* bound of the model: decisions that bump change_revision
    MaxItems,               \* bound of the model: positions in the model's input
    DecisionsMade                 \* the decisions the modelled model takes

(* What the model can decide about a message, and the stage it moves to. *)
RECEIVED  == "received"
PRESENTED == "presented"
ADDRESSED == "addressed"
RESOLVED  == "resolved"
Stages    == {RECEIVED, PRESENTED, ADDRESSED, RESOLVED}

Outcomes  == {"done", "answered", "noted", "declined", "superseded", "deferred"}
DECISIONS == [d \in {"will_apply"} \cup Outcomes |->
                 IF d = "will_apply" THEN ADDRESSED ELSE RESOLVED]
UNACKNOWLEDGED == "unacknowledged"
NoOutcome      == "none"

(* The verdicts of deliver(); EMPTY stands for ATTACHMENT_ONLY as well. *)
ACCEPTED  == "accepted"
DUPLICATE == "duplicate"
NO_RUN    == "no_run"
EMPTY     == "empty"
TOO_LONG  == "too_long"
FULL      == "full"
FINISHING == "finishing"

SETUP      == "setup"
RUNNING    == "running"
FINALIZING == "finalizing"
CLOSED     == "closed"
States     == {SETUP, RUNNING, FINALIZING, CLOSED}

ASSUME MessagesAssumption ==
    /\ IsFiniteSet(Messages)
    /\ FromRequester \subseteq Messages
    /\ WithId \subseteq Messages
    /\ TextLength \in [Messages -> Nat]
    /\ DecisionsMade \subseteq DOMAIN DECISIONS

ASSUME LimitsAssumption ==
    /\ MAX_PENDING_MESSAGES \in Nat
    /\ MAX_PENDING_CHARS \in Nat
    /\ MAX_MESSAGE_CHARS \in Nat
    /\ MAX_RETAINED_EVENTS \in Nat
    /\ MAX_FOLLOW_UPS \in Nat
    /\ MaxRevision \in Nat
    /\ MaxQuestions \in Nat
    /\ MaxChanges \in Nat
    /\ MaxItems \in Nat

VARIABLES
    state,            \* the run's lifecycle
    events,           \* seq -> event; the list of the code, which is in seq order
    follow_ups,       \* messages that arrived after the finalization boundary
    revision,         \* seq of the newest accepted event
    change_revision,  \* changes the model accepted or completed
    question,         \* the open question, or NoQuestion
    next_qid

ledgerVars == <<state, events, follow_ups, revision, change_revision, question, next_qid>>

NoQuestion == [qid |-> 0, blocking |-> FALSE, after_seq |-> 0,
               posted |-> FALSE, waiting |-> FALSE, timed_out |-> FALSE]
NoAnchor   == -1

Event == [message : Messages, stage : Stages, anchor : Int, question_id : Nat,
          outcome : {NoOutcome, UNACKNOWLEDGED} \cup DOMAIN DECISIONS]
Question == [qid : Nat, blocking : BOOLEAN, after_seq : Nat,
             posted : BOOLEAN, waiting : BOOLEAN, timed_out : BOOLEAN]

LedgerTypeOK ==
    /\ state \in States
    /\ revision \in Nat
    /\ DOMAIN events \subseteq 1..revision
    /\ events \in [DOMAIN events -> Event]
    /\ follow_ups \in Seq(Messages)
    /\ change_revision \in Nat
    /\ question \in Question
    /\ next_qid \in Nat \ {0}

LedgerInit ==
    /\ state = SETUP
    /\ events = [s \in {} |-> s]
    /\ follow_ups = <<>>
    /\ revision = 0
    /\ change_revision = 0
    /\ question = NoQuestion
    /\ next_qid = 1

--------------------------------------------------------------------------------
(* Queries. *)

unpresented == {s \in DOMAIN events : events[s].stage = RECEIVED}

(* Received or presented, and not given up on: what still needs the model. *)
unaddressed == {s \in DOMAIN events :
                   /\ events[s].stage \in {RECEIVED, PRESENTED}
                   /\ events[s].outcome # UNACKNOWLEDGED}

unresolved == {s \in DOMAIN events : events[s].stage # RESOLVED}

has_input_after(seq) == \E s \in DOMAIN events : s > seq

(* Mutant: de-duplication that forgets the messages already put aside. *)
SeenAsEvent(m) == m \in WithId /\ \E s \in DOMAIN events : events[s].message = m

SeenMessage(m) ==
    /\ m \in WithId
    /\ \/ \E s \in DOMAIN events : events[s].message = m
       \/ \E i \in DOMAIN follow_ups : follow_ups[i] = m

(* The characters of the messages that wait, counted one by one. *)
PendingText  == UNION {{s} \X (1..TextLength[events[s].message]) : s \in unaddressed}
PendingChars == Cardinality(PendingText)

(* Mutant: the character cap checked without the new message. *)
HasRoomBefore(m) ==
    /\ Cardinality(unaddressed) < MAX_PENDING_MESSAGES
    /\ PendingChars <= MAX_PENDING_CHARS
    /\ \/ Cardinality(DOMAIN events) < MAX_RETAINED_EVENTS
       \/ \E s \in DOMAIN events : events[s].stage = RESOLVED

HasRoomFor(m) ==
    /\ Cardinality(unaddressed) < MAX_PENDING_MESSAGES
    /\ PendingChars + TextLength[m] <= MAX_PENDING_CHARS
    /\ \/ Cardinality(DOMAIN events) < MAX_RETAINED_EVENTS
       \/ \E s \in DOMAIN events : events[s].stage = RESOLVED

(* Mutant: delivery that does not look at the finalization boundary. *)
VerdictAnyState(m) ==
    IF state = CLOSED THEN NO_RUN
    ELSE IF SeenMessage(m) THEN DUPLICATE
    ELSE IF TextLength[m] = 0 THEN EMPTY
    ELSE IF TextLength[m] > MAX_MESSAGE_CHARS THEN TOO_LONG
    ELSE IF HasRoomFor(m) THEN ACCEPTED ELSE FULL

(* What deliver() answers, in the order the code makes its checks. *)
Verdict(m) ==
    IF state = CLOSED THEN NO_RUN
    ELSE IF SeenMessage(m) THEN DUPLICATE
    ELSE IF TextLength[m] = 0 THEN EMPTY
    ELSE IF TextLength[m] > MAX_MESSAGE_CHARS THEN TOO_LONG
    ELSE IF state = FINALIZING
         THEN IF Len(follow_ups) >= MAX_FOLLOW_UPS THEN FULL ELSE FINISHING
    ELSE IF HasRoomFor(m) THEN ACCEPTED ELSE FULL

(* What outcomes() says of an event in the run's report. *)
StatusOf(e) ==
    CASE e.outcome = UNACKNOWLEDGED                        -> "unacknowledged"
      [] e.outcome # UNACKNOWLEDGED /\ e.stage = RECEIVED  -> "unseen"
      [] e.outcome # UNACKNOWLEDGED /\ e.stage = PRESENTED -> "unacknowledged"
      [] OTHER -> IF e.outcome = "will_apply" THEN "accepted" ELSE e.outcome

(* How that report is put.  The chat model is told to treat these as part of *)
(* what was asked, and to claim no other was applied; the closing message    *)
(* names (or counts, beyond a few) those to the people in the thread.        *)
HANDLED_STATUSES  == {"done", "answered", "noted", "accepted"}
UNRESOLVED_LABELS == {"unacknowledged", "unseen", "late", "deferred"}

sandbox_steering_note   == {s \in DOMAIN events : StatusOf(events[s]) \in HANDLED_STATUSES}
sandbox_unresolved_note == {s \in DOMAIN events : StatusOf(events[s]) \in UNRESOLVED_LABELS}

--------------------------------------------------------------------------------
(* Intake: deliver(). *)

(* Mutants: nothing is compacted; the oldest go, resolved or not. *)
EverySurvives(evs) == DOMAIN evs
NewestSurvive(evs) ==
    {s \in DOMAIN evs : Cardinality({t \in DOMAIN evs : t <= s})
                            > Cardinality(DOMAIN evs) - MAX_RETAINED_EVENTS}

(* _compact: the oldest RESOLVED events beyond the cap go, nothing else does. *)
Surviving(evs) ==
    LET excess == Cardinality(DOMAIN evs) - MAX_RETAINED_EVENTS
        done   == {s \in DOMAIN evs : evs[s].stage = RESOLVED}
    IN  {s \in DOMAIN evs : s \in done => Cardinality({t \in done : t <= s}) > excess}

(* A message may answer the open question when the requester wrote it, or  *)
(* when it is a Discord reply to the question's own message.               *)
MayAnswer(m, isReply) ==
    /\ question # NoQuestion
    /\ m \in FromRequester \/ (question.posted /\ isReply)

NewEvent(m, isReply) ==
    [message |-> m, stage |-> RECEIVED, anchor |-> NoAnchor, outcome |-> NoOutcome,
     question_id |-> IF MayAnswer(m, isReply) THEN question.qid ELSE 0]

(* Mutant: the revision is read, not bumped. *)
LastSeq == revision

NextSeq == revision + 1

Accept(m, isReply) ==
    LET seq   == NextSeq
        grown == [s \in DOMAIN events \cup {seq} |->
                      IF s = seq THEN NewEvent(m, isReply) ELSE events[s]]
    IN  /\ Verdict(m) = ACCEPTED
        /\ revision < MaxRevision
        /\ revision' = seq
        /\ events' = [s \in Surviving(grown) |-> grown[s]]
        /\ UNCHANGED <<state, follow_ups, change_revision, question, next_qid>>

FileFollowUp(m) ==
    /\ Verdict(m) = FINISHING
    /\ follow_ups' = Append(follow_ups, m)
    /\ UNCHANGED <<state, events, revision, change_revision, question, next_qid>>

(* Every other verdict tells the author why and leaves the ledger alone. *)
Deliver(m, isReply) == Accept(m, isReply) \/ FileFollowUp(m)

--------------------------------------------------------------------------------
(* Transitions made for the coordinator. *)

(* Mutant: the anchor counts the response of the call as well. *)
MarkPresentedLate(seqs, at) ==
    /\ events' = [s \in DOMAIN events |->
                     IF s \in seqs /\ events[s].stage = RECEIVED
                     THEN [events[s] EXCEPT !.stage = PRESENTED, !.anchor = at + 1]
                     ELSE events[s]]
    /\ UNCHANGED <<state, follow_ups, revision, change_revision, question, next_qid>>

MarkPresented(seqs, at) ==
    /\ events' = [s \in DOMAIN events |->
                     IF s \in seqs /\ events[s].stage = RECEIVED
                     THEN [events[s] EXCEPT !.stage = PRESENTED, !.anchor = at]
                     ELSE events[s]]
    /\ UNCHANGED <<state, follow_ups, revision, change_revision, question, next_qid>>

(* The ids the model may decide about: those it has been shown. *)
Known(seqs) == {s \in seqs \cap DOMAIN events : events[s].stage # RECEIVED}

(* Mutant: the first outcome of a message is kept. *)
SettledOnce(e, decision) ==
    [e EXCEPT !.stage = DECISIONS[decision],
              !.outcome = IF e.outcome = NoOutcome THEN decision ELSE e.outcome]

(* A later decision replaces an earlier one, "unacknowledged" included. *)
Settled(e, decision) == [e EXCEPT !.stage = DECISIONS[decision], !.outcome = decision]

(* Mutant: only a promised or finished change closes the question. *)
AnswersWhenApplied(seqs, decision) ==
    /\ decision \in {"will_apply", "done"}
    /\ \E s \in Known(seqs) : events[s].question_id = question.qid

(* Whatever the decision was: the model has looked at a candidate answer. *)
Answers(seqs, decision) == \E s \in Known(seqs) : events[s].question_id = question.qid

RecordDecision(seqs, decision) ==
    /\ events' = [s \in DOMAIN events |->
                     IF s \in Known(seqs) THEN Settled(events[s], decision)
                     ELSE events[s]]
    /\ change_revision' = IF Known(seqs) # {} /\ decision \in {"will_apply", "done"}
                          THEN change_revision + 1 ELSE change_revision
    /\ change_revision' <= MaxChanges
    /\ question' = IF Answers(seqs, decision) THEN NoQuestion ELSE question
    /\ UNCHANGED <<state, follow_ups, revision, next_qid>>

GiveUpOn(seqs) ==
    /\ events' = [s \in DOMAIN events |->
                     IF s \in seqs THEN [events[s] EXCEPT !.outcome = UNACKNOWLEDGED]
                     ELSE events[s]]
    /\ UNCHANGED <<state, follow_ups, revision, change_revision, question, next_qid>>

OpenQuestion(isBlocking) ==
    /\ next_qid <= MaxQuestions
    /\ question' = [qid |-> next_qid, blocking |-> isBlocking, after_seq |-> revision,
                    posted |-> FALSE, waiting |-> FALSE, timed_out |-> FALSE]
    /\ next_qid' = next_qid + 1
    /\ UNCHANGED <<state, events, follow_ups, revision, change_revision>>

CloseQuestion(qid) ==
    /\ question' = IF question.qid = qid THEN NoQuestion ELSE question
    /\ UNCHANGED <<state, events, follow_ups, revision, change_revision, next_qid>>

(* What ask() writes on its own question object.  Once record_decision has  *)
(* dropped that object from the ledger, nothing reads it any more.          *)
UpdateQuestion(qid, updated) ==
    /\ question' = IF qid # 0 /\ question.qid = qid THEN updated ELSE question
    /\ UNCHANGED <<state, events, follow_ups, revision, change_revision, next_qid>>

QuestionPosted(qid)     == UpdateQuestion(qid, [question EXCEPT !.posted = TRUE])
QuestionWaits(qid)      == UpdateQuestion(qid, [question EXCEPT !.posted = TRUE,
                                                               !.waiting = TRUE])
QuestionWaitEnds(qid, late) == UpdateQuestion(qid, [question EXCEPT !.waiting = FALSE,
                                                                   !.timed_out = late])

Start ==
    /\ state' = RUNNING
    /\ UNCHANGED <<events, follow_ups, revision, change_revision, question, next_qid>>

Finalize ==
    /\ state' = IF state \in {SETUP, RUNNING} THEN FINALIZING ELSE state
    /\ UNCHANGED <<events, follow_ups, revision, change_revision, question, next_qid>>

(* release_run, or get_run finding that the owner's task is done. *)
Close ==
    /\ state' = CLOSED
    /\ UNCHANGED <<events, follow_ups, revision, change_revision, question, next_qid>>

--------------------------------------------------------------------------------
(* Any documented call, in any order. *)

LedgerNext ==
    \/ \E m \in Messages, isReply \in BOOLEAN : Deliver(m, isReply)
    \/ \E seqs \in SUBSET unpresented, at \in 0..MaxItems : MarkPresented(seqs, at)
    \/ \E seqs \in SUBSET (1..revision), d \in DecisionsMade : RecordDecision(seqs, d)
    \/ \E seqs \in SUBSET (unaddressed \ unpresented) : GiveUpOn(seqs)
    \/ \E isBlocking \in BOOLEAN : OpenQuestion(isBlocking)
    \/ CloseQuestion(question.qid)
    \/ QuestionPosted(question.qid)
    \/ question.blocking /\ QuestionWaits(question.qid)
    \/ \E late \in BOOLEAN : question.waiting /\ QuestionWaitEnds(question.qid, late)
    \/ state = SETUP /\ Start
    \/ Finalize
    \/ Close

LedgerSpec == LedgerInit /\ [][LedgerNext]_ledgerVars

--------------------------------------------------------------------------------
(* Properties. *)

(* The retained record never outgrows MAX_RETAINED_EVENTS: deliver() drops *)
(* one resolved event for each it adds beyond the cap, or refuses.         *)
RetainedBound == Cardinality(DOMAIN events) <= MAX_RETAINED_EVENTS

(* What is pasted into the next model call stays within both caps, because *)
(* nothing ever makes an event unaddressed again.                          *)
BacklogBound ==
    /\ Cardinality(unaddressed) <= MAX_PENDING_MESSAGES
    /\ PendingChars <= MAX_PENDING_CHARS
    /\ Len(follow_ups) <= MAX_FOLLOW_UPS

(* A Discord message has one entry at most, be it an event or a follow-up, *)
(* also when it is delivered on both sides of the finalization boundary.   *)
OneEntryPerMessage ==
    \A m \in WithId :
        Cardinality({s \in DOMAIN events : events[s].message = m})
        + Cardinality({i \in DOMAIN follow_ups : follow_ups[i] = m}) <= 1

(* An open question has no candidate answer the model already decided on,  *)
(* and every candidate arrived after it was asked: record_decision closes  *)
(* the question with the first candidate it settles.                       *)
OpenQuestionUnanswered ==
    \A s \in DOMAIN events :
        question # NoQuestion /\ events[s].question_id = question.qid =>
            /\ events[s].stage \in {RECEIVED, PRESENTED}
            /\ s > question.after_seq

(* The report tells done from promised from never answered: a message is    *)
(* given an outcome exactly when the model settled it, "accepted" when it    *)
(* only promised, "unseen" exactly when no completed call showed it.  Only   *)
(* what the model promised or settled is claimed as handled, and what it did *)
(* neither with is named ("acknowledged input must never silently disappear  *)
(* when a run ends").                                                        *)
HonestReport ==
    \A s \in DOMAIN events :
        /\ StatusOf(events[s]) \in Outcomes <=> events[s].stage = RESOLVED
        /\ StatusOf(events[s]) = "accepted" <=> events[s].stage = ADDRESSED
        /\ StatusOf(events[s]) = "unseen" <=> events[s].stage = RECEIVED
        /\ s \in sandbox_steering_note => events[s].stage \in {ADDRESSED, RESOLVED}
        /\ events[s].stage \in {RECEIVED, PRESENTED} => s \in sandbox_unresolved_note

(* Unresolved guidance is never evicted, and no event moves back: what was  *)
(* shown stays shown, what was answered never needs an answer again, and    *)
(* nothing is answered before it was shown.                                 *)
GuidanceKept ==
    [][/\ \A s \in DOMAIN events \ DOMAIN events' : events[s].stage = RESOLVED
       /\ \A s \in DOMAIN events \cap DOMAIN events' :
              /\ events'[s].stage = RECEIVED => events[s].stage = RECEIVED
              /\ events'[s].stage = PRESENTED => events[s].stage \in {RECEIVED, PRESENTED}
              /\ events[s].stage = RECEIVED => events'[s].stage \in {RECEIVED, PRESENTED}
      ]_ledgerVars

(* Past the finalization boundary nothing is accepted into the run again,   *)
(* and the boundary is never crossed back.                                  *)
BoundaryHolds ==
    [][ /\ state \in {FINALIZING, CLOSED} =>
               state' \in {FINALIZING, CLOSED} /\ revision' = revision
        /\ state = CLOSED => state' = CLOSED /\ follow_ups' = follow_ups
      ]_ledgerVars

(* The ledger keeps the promises of ThreadPromises: every accepted message   *)
(* stays owed until a decision settles it, compaction included, and follow-  *)
(* ups are only filed once the run takes nothing more.                       *)
Promises == INSTANCE ThreadPromises WITH
    open    <- state \in {SETUP, RUNNING},
    issued  <- revision,
    owed    <- unresolved,
    carried <- Len(follow_ups)

KeepsPromises == Promises!PromiseSpec

================================================================================
