------------------------- MODULE SandboxConversation_Proofs -------------------------
(***************************************************************************)
(* What RunLedger promises, for any number of messages and any caps; and   *)
(* what SandboxConversation keeps for every budget, every batch of tool    *)
(* calls and every order of posts: the run makes only the calls on its     *)
(* ledger that RunLedger allows, so what is proved of the ledger holds of  *)
(* every run; and what a run promises of its own questions, refusals,      *)
(* replies and end.                                                        *)
(***************************************************************************)
EXTENDS SandboxConversation, TLAPS, FiniteSetTheorems, WellFoundedInduction

(***************************************************************************)
(* The ledger by itself                                                    *)
(***************************************************************************)

(* The stage an event is in restricts what its outcome can be. *)
OutcomeFits ==
    \A s \in DOMAIN events :
        /\ events[s].stage = RECEIVED => events[s].outcome = NoOutcome
        /\ events[s].stage = PRESENTED => events[s].outcome \in {NoOutcome, UNACKNOWLEDGED}
        /\ events[s].stage = ADDRESSED => events[s].outcome = "will_apply"
        /\ events[s].stage = RESOLVED => events[s].outcome \in Outcomes

LEMMA DecisionStages ==
    \A d \in DecisionsMade :
        /\ d \in {"will_apply"} \cup Outcomes
        /\ DECISIONS[d] \in {ADDRESSED, RESOLVED}
        /\ d = "will_apply" => DECISIONS[d] = ADDRESSED
        /\ d # "will_apply" => DECISIONS[d] = RESOLVED
BY MessagesAssumption DEF DECISIONS

LEMMA TypeInit == LedgerInit => LedgerTypeOK
BY DEF LedgerInit, LedgerTypeOK, States, NoQuestion, Question, SETUP

LEMMA TypeStep == LedgerTypeOK /\ [LedgerNext]_ledgerVars => LedgerTypeOK'
<1> SUFFICES ASSUME LedgerTypeOK, [LedgerNext]_ledgerVars PROVE LedgerTypeOK'
  OBVIOUS
<1> USE DEF LedgerTypeOK
<1>1. ASSUME NEW m \in Messages, NEW isReply \in BOOLEAN, Accept(m, isReply)
      PROVE  LedgerTypeOK'
  <2> DEFINE grown == [s \in DOMAIN events \cup {revision + 1} |->
                          IF s = revision + 1 THEN NewEvent(m, isReply) ELSE events[s]]
  <2>1. NewEvent(m, isReply) \in Event
    BY DEF NewEvent, Event, Question, Stages, RECEIVED, NoAnchor
  <2>2. revision' = revision + 1 /\ events' = [s \in Surviving(grown) |-> grown[s]]
    BY <1>1 DEF Accept, NextSeq
  <2>3. Surviving(grown) \subseteq DOMAIN events \cup {revision + 1}
    BY DEF Surviving
  <2>4. \A s \in DOMAIN events \cup {revision + 1} : grown[s] \in Event
    BY <2>1
  <2>5. events' \in [Surviving(grown) -> Event] /\ DOMAIN events' = Surviving(grown)
    BY <2>2, <2>3, <2>4
  <2> HIDE DEF grown
  <2>6. DOMAIN events' \subseteq 1..revision' /\ revision' \in Nat
    BY <2>2, <2>3, <2>5
  <2>7. events' \in [DOMAIN events' -> Event]
    BY <2>5
  <2> QED
    BY <1>1, <2>6, <2>7 DEF Accept
<1>2. ASSUME NEW m \in Messages, FileFollowUp(m)
      PROVE  LedgerTypeOK'
  BY <1>2 DEF FileFollowUp
<1>3. ASSUME NEW seqs \in SUBSET unpresented, NEW at \in 0..MaxItems, MarkPresented(seqs, at)
      PROVE  LedgerTypeOK'
  <2>1. \A e \in Event : [e EXCEPT !.stage = PRESENTED, !.anchor = at] \in Event
    <3>1. at \in Int /\ PRESENTED \in Stages
      BY LimitsAssumption DEF Stages
    <3> QED
      BY <3>1 DEF Event
  <2>2. events' \in [DOMAIN events -> Event] /\ DOMAIN events' = DOMAIN events
    BY <1>3, <2>1 DEF MarkPresented
  <2> QED
    BY <1>3, <2>2 DEF MarkPresented
<1>4. ASSUME NEW seqs \in SUBSET (1..revision), NEW d \in DecisionsMade,
             RecordDecision(seqs, d)
      PROVE  LedgerTypeOK'
  <2>1. DECISIONS[d] \in Stages /\ d \in DOMAIN DECISIONS
    BY DecisionStages, MessagesAssumption DEF Stages
  <2>2. \A s \in DOMAIN events : events[s] \in Event /\ Settled(events[s], d) \in Event
    BY <2>1 DEF Event, Settled
  <2>3. events' \in [DOMAIN events -> Event] /\ DOMAIN events' = DOMAIN events
    BY <1>4, <2>2 DEF RecordDecision
  <2>4. change_revision' \in Nat /\ question' \in Question
    BY <1>4 DEF RecordDecision, NoQuestion, Question
  <2> QED
    BY <1>4, <2>3, <2>4 DEF RecordDecision
<1>5. ASSUME NEW seqs \in SUBSET (unaddressed \ unpresented), GiveUpOn(seqs)
      PROVE  LedgerTypeOK'
  <2>1. \A s \in DOMAIN events :
            events[s] \in Event /\ [events[s] EXCEPT !.outcome = UNACKNOWLEDGED] \in Event
    BY DEF Event
  <2>2. events' \in [DOMAIN events -> Event] /\ DOMAIN events' = DOMAIN events
    BY <1>5, <2>1 DEF GiveUpOn
  <2> QED
    BY <1>5, <2>2 DEF GiveUpOn
<1>6. ASSUME NEW isBlocking \in BOOLEAN, OpenQuestion(isBlocking)
      PROVE  LedgerTypeOK'
  BY <1>6 DEF OpenQuestion, Question
<1>7. ASSUME CloseQuestion(question.qid)
      PROVE  LedgerTypeOK'
  BY <1>7 DEF CloseQuestion, NoQuestion, Question
<1>8. ASSUME NEW updated \in Question, UpdateQuestion(question.qid, updated)
      PROVE  LedgerTypeOK'
  BY <1>8 DEF UpdateQuestion
<1>9. ASSUME state' \in States,
             UNCHANGED <<events, follow_ups, revision, change_revision, question, next_qid>>
      PROVE  LedgerTypeOK'
  BY <1>9
<1>10. CASE UNCHANGED ledgerVars
  BY <1>10 DEF ledgerVars
<1>11. \A late \in BOOLEAN :
          /\ [question EXCEPT !.posted = TRUE] \in Question
          /\ [question EXCEPT !.posted = TRUE, !.waiting = TRUE] \in Question
          /\ [question EXCEPT !.waiting = FALSE, !.timed_out = late] \in Question
  BY DEF Question
<1> QED
  BY <1>1, <1>2, <1>3, <1>4, <1>5, <1>6, <1>7, <1>8, <1>9, <1>10, <1>11
     DEF LedgerNext, Deliver, QuestionPosted, QuestionWaits, QuestionWaitEnds,
         Start, Finalize, Close, States

(* Every reachable ledger is well formed, whatever order the calls come in. *)
THEOREM TypeCorrect == LedgerSpec => []LedgerTypeOK
BY TypeInit, TypeStep, PTL DEF LedgerSpec

--------------------------------------------------------------------------------
(* What a call does to the stage of an event, and which calls add one. *)

(* Each accepted message gets the next number, and only events that are     *)
(* resolved make room for it.                                                *)
LEMMA Accepting ==
    ASSUME LedgerTypeOK, NEW m \in Messages, NEW isReply \in BOOLEAN, Accept(m, isReply)
    PROVE  /\ revision' = revision + 1 /\ revision + 1 \notin DOMAIN events
           /\ revision + 1 \in DOMAIN events'
           /\ events'[revision + 1] = NewEvent(m, isReply)
           /\ DOMAIN events' \subseteq DOMAIN events \cup {revision + 1}
           /\ \A s \in DOMAIN events :
                  \/ s \in DOMAIN events' /\ events'[s] = events[s]
                  \/ s \notin DOMAIN events' /\ events[s].stage = RESOLVED
<1> DEFINE grown == [s \in DOMAIN events \cup {revision + 1} |->
                        IF s = revision + 1 THEN NewEvent(m, isReply) ELSE events[s]]
<1>1. revision' = revision + 1 /\ events' = [s \in Surviving(grown) |-> grown[s]]
  BY DEF Accept, NextSeq
<1>2. revision + 1 \notin DOMAIN events
  BY DEF LedgerTypeOK
<1>3. Surviving(grown) \subseteq DOMAIN events \cup {revision + 1}
  BY DEF Surviving
<1>4. \A s \in DOMAIN events \cup {revision + 1} :
          grown[s].stage # RESOLVED => s \in Surviving(grown)
  BY DEF Surviving
<1>5. grown[revision + 1] = NewEvent(m, isReply) /\ NewEvent(m, isReply).stage # RESOLVED
  BY DEF NewEvent, RECEIVED, RESOLVED
<1>6. \A s \in DOMAIN events : grown[s] = events[s]
  BY <1>2
<1> HIDE DEF grown
<1> QED
  BY <1>1, <1>2, <1>3, <1>4, <1>5, <1>6

LEMMA OutcomeInit == LedgerInit => OutcomeFits
BY DEF LedgerInit, OutcomeFits

LEMMA OutcomeStep ==
    LedgerTypeOK /\ OutcomeFits /\ [LedgerNext]_ledgerVars => OutcomeFits'
<1> SUFFICES ASSUME LedgerTypeOK, OutcomeFits, [LedgerNext]_ledgerVars PROVE OutcomeFits'
  OBVIOUS
<1> DEFINE Fits(e) ==
        /\ e.stage = RECEIVED => e.outcome = NoOutcome
        /\ e.stage = PRESENTED => e.outcome \in {NoOutcome, UNACKNOWLEDGED}
        /\ e.stage = ADDRESSED => e.outcome = "will_apply"
        /\ e.stage = RESOLVED => e.outcome \in Outcomes
<1>0. \A s \in DOMAIN events : events[s] \in Event /\ Fits(events[s])
  BY DEF LedgerTypeOK, OutcomeFits
<1>1. ASSUME NEW m \in Messages, NEW isReply \in BOOLEAN, Accept(m, isReply)
      PROVE  OutcomeFits'
  <2>1. Fits(NewEvent(m, isReply))
    BY DEF NewEvent, RECEIVED, PRESENTED, ADDRESSED, RESOLVED
  <2> QED
    BY <1>0, <1>1, <2>1, Accepting DEF OutcomeFits
<1>2. ASSUME NEW seqs \in SUBSET unpresented, NEW at \in 0..MaxItems, MarkPresented(seqs, at)
      PROVE  OutcomeFits'
  <2>1. ASSUME NEW e \in Event, Fits(e), e.stage = RECEIVED
        PROVE  Fits([e EXCEPT !.stage = PRESENTED, !.anchor = at])
    BY <2>1 DEF Event, RECEIVED, PRESENTED, ADDRESSED, RESOLVED
  <2> HIDE DEF Fits
  <2>2. DOMAIN events' = DOMAIN events /\ \A s \in DOMAIN events' : Fits(events'[s])
    BY <1>0, <1>2, <2>1 DEF MarkPresented
  <2> QED
    BY <2>2 DEF OutcomeFits, Fits
<1>3. ASSUME NEW seqs \in SUBSET (1..revision), NEW d \in DecisionsMade,
             RecordDecision(seqs, d)
      PROVE  OutcomeFits'
  <2>1. ASSUME NEW e \in Event
        PROVE  Fits(Settled(e, d))
    BY DecisionStages DEF Event, Settled, RECEIVED, PRESENTED, ADDRESSED, RESOLVED
  <2> HIDE DEF Fits
  <2>2. DOMAIN events' = DOMAIN events /\ \A s \in DOMAIN events' : Fits(events'[s])
    BY <1>0, <1>3, <2>1 DEF RecordDecision
  <2> QED
    BY <2>2 DEF OutcomeFits, Fits
<1>4. ASSUME NEW seqs \in SUBSET (unaddressed \ unpresented), GiveUpOn(seqs)
      PROVE  OutcomeFits'
  <2>1. ASSUME NEW e \in Event, Fits(e), e.stage = PRESENTED
        PROVE  Fits([e EXCEPT !.outcome = UNACKNOWLEDGED])
    BY <2>1 DEF Event, RECEIVED, PRESENTED, ADDRESSED, RESOLVED
  <2> HIDE DEF Fits
  <2>2. \A s \in seqs : events[s].stage = PRESENTED
    BY DEF unaddressed, unpresented
  <2>3. DOMAIN events' = DOMAIN events /\ \A s \in DOMAIN events' : Fits(events'[s])
    BY <1>0, <1>4, <2>1, <2>2 DEF GiveUpOn
  <2> QED
    BY <2>3 DEF OutcomeFits, Fits
<1>5. CASE UNCHANGED events
  BY <1>5 DEF OutcomeFits
<1> QED
  BY <1>1, <1>2, <1>3, <1>4, <1>5
     DEF LedgerNext, Deliver, FileFollowUp, OpenQuestion, CloseQuestion, QuestionPosted,
         QuestionWaits, QuestionWaitEnds, UpdateQuestion, Start, Finalize, Close, ledgerVars

LEMMA OutcomesFitReport == LedgerTypeOK /\ OutcomeFits => HonestReport
<1> SUFFICES ASSUME LedgerTypeOK, OutcomeFits, NEW s \in DOMAIN events
             PROVE  /\ StatusOf(events[s]) \in Outcomes <=> events[s].stage = RESOLVED
                    /\ StatusOf(events[s]) = "accepted" <=> events[s].stage = ADDRESSED
                    /\ StatusOf(events[s]) = "unseen" <=> events[s].stage = RECEIVED
                    /\ s \in sandbox_steering_note =>
                           events[s].stage \in {ADDRESSED, RESOLVED}
                    /\ events[s].stage \in {RECEIVED, PRESENTED} => s \in sandbox_unresolved_note
  BY DEF HonestReport
<1> USE DEF sandbox_steering_note, sandbox_unresolved_note, HANDLED_STATUSES, UNRESOLVED_LABELS
<1>1. events[s].stage \in Stages
  BY DEF LedgerTypeOK, Event
<1>2. CASE events[s].stage = RECEIVED
  BY <1>2 DEF OutcomeFits, StatusOf, RECEIVED, PRESENTED, ADDRESSED, RESOLVED, Outcomes,
              NoOutcome, UNACKNOWLEDGED
<1>3. CASE events[s].stage = PRESENTED
  BY <1>3 DEF OutcomeFits, StatusOf, RECEIVED, PRESENTED, ADDRESSED, RESOLVED, Outcomes,
              NoOutcome, UNACKNOWLEDGED
<1>4. CASE events[s].stage = ADDRESSED
  BY <1>4 DEF OutcomeFits, StatusOf, RECEIVED, PRESENTED, ADDRESSED, RESOLVED, Outcomes,
              NoOutcome, UNACKNOWLEDGED
<1>5. CASE events[s].stage = RESOLVED
  BY <1>5 DEF OutcomeFits, StatusOf, RECEIVED, PRESENTED, ADDRESSED, RESOLVED, Outcomes,
              NoOutcome, UNACKNOWLEDGED
<1> QED
  BY <1>1, <1>2, <1>3, <1>4, <1>5 DEF Stages

(* The report of any run tells done from promised from never seen. *)
THEOREM HonestlyReported == LedgerSpec => []HonestReport
<1>1. LedgerInit => LedgerTypeOK /\ OutcomeFits
  BY TypeInit, OutcomeInit
<1>2. (LedgerTypeOK /\ OutcomeFits) /\ [LedgerNext]_ledgerVars
          => (LedgerTypeOK /\ OutcomeFits)'
  BY TypeStep, OutcomeStep
<1> QED
  BY <1>1, <1>2, OutcomesFitReport, PTL DEF LedgerSpec

--------------------------------------------------------------------------------
(* Guidance, the boundary and the promises. *)

(* The step of GuidanceKept. *)
NothingLost ==
    /\ \A s \in DOMAIN events \ DOMAIN events' : events[s].stage = RESOLVED
    /\ \A s \in DOMAIN events \cap DOMAIN events' :
           /\ events'[s].stage = RECEIVED => events[s].stage = RECEIVED
           /\ events'[s].stage = PRESENTED => events[s].stage \in {RECEIVED, PRESENTED}
           /\ events[s].stage = RECEIVED => events'[s].stage \in {RECEIVED, PRESENTED}

LEMMA GuidanceStep == LedgerTypeOK /\ [LedgerNext]_ledgerVars => NothingLost
<1> SUFFICES ASSUME LedgerTypeOK, [LedgerNext]_ledgerVars PROVE NothingLost
  OBVIOUS
<1>0. \A s \in DOMAIN events : events[s] \in Event
  BY DEF LedgerTypeOK
<1>1. ASSUME NEW m \in Messages, NEW isReply \in BOOLEAN, Accept(m, isReply)
      PROVE  NothingLost
  BY <1>1, Accepting DEF NothingLost
<1>2. ASSUME NEW seqs \in SUBSET unpresented, NEW at \in 0..MaxItems, MarkPresented(seqs, at)
      PROVE  NothingLost
  BY <1>0, <1>2 DEF MarkPresented, NothingLost, Event
<1>3. ASSUME NEW seqs \in SUBSET (1..revision), NEW d \in DecisionsMade,
             RecordDecision(seqs, d)
      PROVE  NothingLost
  <2>1. DECISIONS[d] \in {ADDRESSED, RESOLVED}
    BY DecisionStages
  <2>2. \A s \in DOMAIN events : Settled(events[s], d).stage = DECISIONS[d]
    BY <1>0 DEF Settled, Event
  <2>3. \A s \in Known(seqs) : s \in DOMAIN events /\ events[s].stage # RECEIVED
    BY DEF Known
  <2> QED
    BY <1>3, <2>1, <2>2, <2>3
       DEF RecordDecision, NothingLost, RECEIVED, PRESENTED, ADDRESSED, RESOLVED
<1>4. ASSUME NEW seqs \in SUBSET (unaddressed \ unpresented), GiveUpOn(seqs)
      PROVE  NothingLost
  BY <1>0, <1>4 DEF GiveUpOn, NothingLost, Event
<1>5. CASE UNCHANGED events
  BY <1>5 DEF NothingLost
<1> QED
  BY <1>1, <1>2, <1>3, <1>4, <1>5
     DEF LedgerNext, Deliver, FileFollowUp, OpenQuestion, CloseQuestion, QuestionPosted,
         QuestionWaits, QuestionWaitEnds, UpdateQuestion, Start, Finalize, Close, ledgerVars

(* Compaction never evicts what is unresolved, and no message moves back. *)
THEOREM GuidanceIsKept == LedgerSpec => GuidanceKept
<1>1. LedgerTypeOK /\ [LedgerNext]_ledgerVars => [NothingLost]_ledgerVars
  BY GuidanceStep
<1> QED
  BY TypeCorrect, <1>1, PTL DEF LedgerSpec, GuidanceKept, NothingLost

(* The step of BoundaryHolds. *)
StaysOut ==
    /\ state \in {FINALIZING, CLOSED} =>
           state' \in {FINALIZING, CLOSED} /\ revision' = revision
    /\ state = CLOSED => state' = CLOSED /\ follow_ups' = follow_ups

LEMMA BoundaryStep == [LedgerNext]_ledgerVars => StaysOut
<1> SUFFICES ASSUME [LedgerNext]_ledgerVars PROVE StaysOut
  OBVIOUS
<1> USE DEF StaysOut, SETUP, RUNNING, FINALIZING, CLOSED
<1>1. ASSUME NEW m \in Messages, NEW isReply \in BOOLEAN, Accept(m, isReply)
      PROVE  StaysOut
  <2>1. state \notin {FINALIZING, CLOSED}
    BY <1>1 DEF Accept, Verdict, ACCEPTED, DUPLICATE, NO_RUN, EMPTY, TOO_LONG, FULL, FINISHING
  <2> QED
    BY <2>1
<1>2. ASSUME NEW m \in Messages, FileFollowUp(m)
      PROVE  StaysOut
  <2>1. state = FINALIZING
    BY <1>2 DEF FileFollowUp, Verdict, ACCEPTED, DUPLICATE, NO_RUN, EMPTY, TOO_LONG, FULL,
                FINISHING
  <2> QED
    BY <1>2, <2>1 DEF FileFollowUp
<1>3. CASE UNCHANGED <<state, revision, follow_ups>>
  BY <1>3
<1>4. CASE (state = SETUP /\ Start) \/ Finalize \/ Close
  BY <1>4 DEF Start, Finalize, Close
<1> QED
  BY <1>1, <1>2, <1>3, <1>4
     DEF LedgerNext, Deliver, MarkPresented, RecordDecision, GiveUpOn, OpenQuestion,
         CloseQuestion, QuestionPosted, QuestionWaits, QuestionWaitEnds, UpdateQuestion,
         ledgerVars

(* Once a run is finalizing, nothing is accepted into it again. *)
THEOREM BoundaryIsFinal == LedgerSpec => BoundaryHolds
<1>1. [LedgerNext]_ledgerVars => [StaysOut]_ledgerVars
  BY BoundaryStep
<1> QED
  BY <1>1, PTL DEF LedgerSpec, BoundaryHolds, StaysOut

LEMMA PromiseInitial == LedgerInit => Promises!PromiseInit
BY DEF LedgerInit, Promises!PromiseInit, unresolved, SETUP

LEMMA PromiseStep ==
    LedgerTypeOK /\ [LedgerNext]_ledgerVars => [Promises!PromiseNext]_(Promises!promiseVars)
<1> SUFFICES ASSUME LedgerTypeOK, [LedgerNext]_ledgerVars
             PROVE  Promises!PromiseNext \/ UNCHANGED Promises!promiseVars
  OBVIOUS
<1> USE DEF SETUP, RUNNING, FINALIZING, CLOSED
<1>0. \A s \in DOMAIN events : events[s] \in Event /\ s \in 1..revision
  BY DEF LedgerTypeOK
<1>1. ASSUME NEW m \in Messages, NEW isReply \in BOOLEAN, Accept(m, isReply)
      PROVE  Promises!Promise
  <2>1. state \in {SETUP, RUNNING}
    BY <1>1 DEF Accept, Verdict, ACCEPTED, DUPLICATE, NO_RUN, EMPTY, TOO_LONG, FULL, FINISHING,
                LedgerTypeOK, States
  <2>2. /\ revision + 1 \notin DOMAIN events /\ revision + 1 \in DOMAIN events'
        /\ DOMAIN events' \subseteq DOMAIN events \cup {revision + 1}
        /\ events'[revision + 1].stage # RESOLVED
        /\ \A s \in DOMAIN events :
               \/ s \in DOMAIN events' /\ events'[s] = events[s]
               \/ s \notin DOMAIN events' /\ events[s].stage = RESOLVED
    <3>1. NewEvent(m, isReply).stage # RESOLVED
      BY DEF NewEvent, RECEIVED, RESOLVED
    <3> QED
      BY <1>1, <3>1, Accepting
  <2>3. \A s \in DOMAIN events \cup {revision + 1} :
            s \in unresolved' <=> s \in unresolved \/ s = revision + 1
    BY <2>2 DEF unresolved
  <2>4. unresolved' = unresolved \cup {revision + 1}
    BY <2>2, <2>3 DEF unresolved
  <2> QED
    BY <1>1, <2>1, <2>4 DEF Accept, NextSeq, Promises!Promise
<1>2. ASSUME NEW m \in Messages, FileFollowUp(m)
      PROVE  Promises!CarryOver
  <2>1. state = FINALIZING
    BY <1>2 DEF FileFollowUp, Verdict, ACCEPTED, DUPLICATE, NO_RUN, EMPTY, TOO_LONG, FULL,
                FINISHING
  <2>2. Len(follow_ups') = Len(follow_ups) + 1
    BY <1>2 DEF FileFollowUp, LedgerTypeOK
  <2> QED
    BY <1>2, <2>1, <2>2 DEF FileFollowUp, unresolved, Promises!CarryOver
<1>3. ASSUME NEW seqs \in SUBSET unpresented, NEW at \in 0..MaxItems, MarkPresented(seqs, at)
      PROVE  UNCHANGED Promises!promiseVars
  <2>1. unresolved' = unresolved
    BY <1>0, <1>3 DEF MarkPresented, unresolved, Event, RECEIVED, PRESENTED, RESOLVED
  <2> QED
    BY <1>3, <2>1 DEF MarkPresented, Promises!promiseVars
<1>4. ASSUME NEW seqs \in SUBSET (1..revision), NEW d \in DecisionsMade,
             RecordDecision(seqs, d)
      PROVE  Promises!Settle \/ Promises!Reopen
  <2>1. \A s \in DOMAIN events : Settled(events[s], d).stage = DECISIONS[d]
    BY <1>0 DEF Settled, Event
  <2>2. DOMAIN events' = DOMAIN events
    BY <1>4 DEF RecordDecision
  <2>3. CASE DECISIONS[d] = RESOLVED
    <3>1. unresolved' \subseteq unresolved
      BY <1>4, <2>1, <2>2, <2>3 DEF RecordDecision, unresolved, Known
    <3> QED
      BY <1>4, <3>1 DEF RecordDecision, Promises!Settle
  <2>4. CASE DECISIONS[d] = ADDRESSED
    <3>1. unresolved \subseteq unresolved' /\ unresolved' \subseteq 1..revision
      BY <1>0, <1>4, <2>1, <2>2, <2>4 DEF RecordDecision, unresolved, Known, ADDRESSED, RESOLVED
    <3> QED
      BY <1>4, <3>1 DEF RecordDecision, Promises!Reopen
  <2> QED
    BY <2>3, <2>4, DecisionStages
<1>5. ASSUME NEW seqs \in SUBSET (unaddressed \ unpresented), GiveUpOn(seqs)
      PROVE  UNCHANGED Promises!promiseVars
  <2>1. unresolved' = unresolved
    BY <1>0, <1>5 DEF GiveUpOn, unresolved, Event
  <2> QED
    BY <1>5, <2>1 DEF GiveUpOn, Promises!promiseVars
<1>6. CASE UNCHANGED <<state, events, follow_ups, revision>>
  BY <1>6 DEF Promises!promiseVars, unresolved
<1>7. CASE state = SETUP /\ Start
  BY <1>7 DEF Start, Promises!promiseVars, unresolved
<1>8. CASE Finalize \/ Close
  <2>1. unresolved' = unresolved /\ revision' = revision /\ follow_ups' = follow_ups
    BY <1>8 DEF Finalize, Close, unresolved
  <2>2. state' \in {FINALIZING, CLOSED}
    BY <1>8 DEF Finalize, Close, LedgerTypeOK, States
  <2> QED
    BY <2>1, <2>2 DEF Promises!PromiseNext, Promises!StopTaking
<1> QED
  BY <1>1, <1>2, <1>3, <1>4, <1>5, <1>6, <1>7, <1>8
     DEF LedgerNext, Deliver, OpenQuestion, CloseQuestion, QuestionPosted, QuestionWaits,
         QuestionWaitEnds, UpdateQuestion, ledgerVars, Promises!PromiseNext

(* The ledger implements ThreadPromises: what was accepted stays owed until  *)
(* a decision settles it.                                                    *)
THEOREM PromisesKept == LedgerSpec => KeepsPromises
BY PromiseInitial, PromiseStep, TypeCorrect, PTL
   DEF LedgerSpec, KeepsPromises, Promises!PromiseSpec

--------------------------------------------------------------------------------
(* The caps, the entries and the questions of the ledger. *)

(* The calls that add no event leave every event its message, its number    *)
(* and the question it may answer, and make none of them wait again.         *)
Stay ==
    /\ DOMAIN events' = DOMAIN events /\ revision' = revision
    /\ unaddressed' \subseteq unaddressed
    /\ \A s \in DOMAIN events : /\ events'[s].message = events[s].message
                                /\ events'[s].question_id = events[s].question_id
Files(m) == /\ m \in Messages /\ ~SeenMessage(m) /\ Len(follow_ups) < MAX_FOLLOW_UPS
            /\ follow_ups' = Append(follow_ups, m)

LEMMA MarkingStays ==
    ASSUME LedgerTypeOK, NEW seqs \in SUBSET unpresented, NEW at \in 0..MaxItems,
           MarkPresented(seqs, at)
    PROVE  Stay
<1>1. \A s \in DOMAIN events :
         /\ events'[s].message = events[s].message /\ events'[s].outcome = events[s].outcome
         /\ events'[s].question_id = events[s].question_id
         /\ events[s].stage \notin {RECEIVED, PRESENTED} => events'[s].stage = events[s].stage
  BY DEF LedgerTypeOK, MarkPresented, Event, RECEIVED, PRESENTED
<1> QED
  BY <1>1 DEF MarkPresented, Stay, unaddressed

LEMMA DecidingStays ==
    ASSUME LedgerTypeOK, NEW seqs \in SUBSET (1..revision), NEW d \in DecisionsMade,
           RecordDecision(seqs, d)
    PROVE  Stay
<1>1. \A s \in DOMAIN events :
         /\ events'[s].message = events[s].message
         /\ events'[s].question_id = events[s].question_id
         /\ events'[s] = events[s] \/ events'[s].stage \in {ADDRESSED, RESOLVED}
  BY DecisionStages DEF LedgerTypeOK, RecordDecision, Settled, Event
<1> QED
  BY <1>1 DEF RecordDecision, Stay, unaddressed, RECEIVED, PRESENTED, ADDRESSED, RESOLVED

LEMMA GivingUpStays ==
    ASSUME LedgerTypeOK, NEW seqs \in SUBSET (unaddressed \ unpresented), GiveUpOn(seqs)
    PROVE  Stay
<1>1. \A s \in DOMAIN events :
         /\ events'[s].message = events[s].message
         /\ events'[s].question_id = events[s].question_id
         /\ events'[s] = events[s] \/ events'[s].outcome = UNACKNOWLEDGED
  BY DEF LedgerTypeOK, GiveUpOn, Event
<1> QED
  BY <1>1 DEF GiveUpOn, Stay, unaddressed

LEMMA EventsStay ==
    ASSUME LedgerTypeOK, [LedgerNext]_ledgerVars
    PROVE  \/ \E m \in Messages, isReply \in BOOLEAN : Accept(m, isReply)
           \/ Stay /\ (follow_ups' = follow_ups \/ \E m \in Messages : Files(m))
<1>1. ASSUME UNCHANGED <<events, revision>> PROVE Stay
  BY <1>1 DEF Stay, unaddressed
<1>2. ASSUME NEW m \in Messages, FileFollowUp(m) PROVE Files(m)
  <2>1. ~SeenMessage(m) /\ ~(Len(follow_ups) >= MAX_FOLLOW_UPS)
    BY <1>2 DEF FileFollowUp, Verdict, ACCEPTED, DUPLICATE, NO_RUN, EMPTY, TOO_LONG, FULL,
                FINISHING
  <2>2. Len(follow_ups) \in Nat /\ MAX_FOLLOW_UPS \in Nat
    BY LimitsAssumption DEF LedgerTypeOK
  <2> QED
    BY <1>2, <2>1, <2>2 DEF FileFollowUp, Files
<1>3. CASE \E m \in Messages : FileFollowUp(m)
  BY <1>1, <1>2, <1>3 DEF FileFollowUp
<1>4. CASE UNCHANGED <<events, revision, follow_ups>>
  BY <1>1, <1>4
<1> QED
  BY <1>3, <1>4, MarkingStays, DecidingStays, GivingUpStays
     DEF LedgerNext, Deliver, MarkPresented, RecordDecision, GiveUpOn, OpenQuestion,
         CloseQuestion, QuestionPosted, QuestionWaits, QuestionWaitEnds, UpdateQuestion, Start,
         Finalize, Close, ledgerVars

(* An accepted message was no duplicate, and there was room for it.         *)
LEMMA AcceptedFits ==
    ASSUME NEW m \in Messages, NEW isReply \in BOOLEAN, Accept(m, isReply)
    PROVE  ~SeenMessage(m) /\ HasRoomFor(m)
BY DEF Accept, Verdict, ACCEPTED, DUPLICATE, NO_RUN, EMPTY, TOO_LONG, FULL, FINISHING

LEMMA LedgerFinite ==
    ASSUME LedgerTypeOK
    PROVE  /\ IsFiniteSet(DOMAIN events) /\ IsFiniteSet(unaddressed) /\ IsFiniteSet(PendingText)
           /\ Cardinality(DOMAIN events) \in Nat /\ Cardinality(unaddressed) \in Nat
           /\ PendingChars \in Nat
<1>1. revision \in Int /\ 1 \in Int
  BY DEF LedgerTypeOK
<1>2. IsFiniteSet(1..revision)
  BY <1>1, FS_Interval
<1>3. DOMAIN events \in SUBSET (1..revision) /\ unaddressed \in SUBSET (DOMAIN events)
  BY DEF LedgerTypeOK, unaddressed
<1>4. IsFiniteSet(DOMAIN events)
  BY <1>2, <1>3, FS_Subset
<1>5. IsFiniteSet(unaddressed)
  BY <1>3, <1>4, FS_Subset
<1>6. \A s \in unaddressed : TextLength[events[s].message] \in Nat
  BY MessagesAssumption DEF LedgerTypeOK, unaddressed, Event
<1>7. \A s \in unaddressed : IsFiniteSet({s} \X (1..TextLength[events[s].message]))
  <2> TAKE s \in unaddressed
  <2>1. 1 \in Int /\ TextLength[events[s].message] \in Int
    BY <1>6
  <2>2. IsFiniteSet({s}) /\ IsFiniteSet(1..TextLength[events[s].message])
    BY <2>1, FS_Singleton, FS_Interval
  <2> QED
    BY <2>2, FS_Product
<1>8. IsFiniteSet({{s} \X (1..TextLength[events[s].message]) : s \in unaddressed})
  <2> DEFINE texts == {{s} \X (1..TextLength[events[s].message]) : s \in unaddressed}
             text  == [s \in unaddressed |-> {s} \X (1..TextLength[events[s].message])]
  <2>1. text \in Surjection(unaddressed, texts)
    BY DEF Surjection
  <2> HIDE DEF texts, text
  <2>2. IsFiniteSet(texts)
    BY <1>5, <2>1, FS_Surjection
  <2> QED
    BY <2>2 DEF texts
<1>9. IsFiniteSet(PendingText)
  BY <1>7, <1>8, FS_UNION DEF PendingText
<1> QED
  BY <1>4, <1>5, <1>9, FS_CardinalityType DEF PendingChars

LEMMA BacklogStep ==
    ASSUME LedgerTypeOK, BacklogBound, [LedgerNext]_ledgerVars
    PROVE  BacklogBound'
<1>f. /\ IsFiniteSet(unaddressed) /\ Cardinality(unaddressed) \in Nat
      /\ IsFiniteSet(PendingText) /\ PendingChars \in Nat
  BY LedgerFinite
<1>n. /\ MAX_PENDING_MESSAGES \in Nat /\ MAX_PENDING_CHARS \in Nat /\ MAX_FOLLOW_UPS \in Nat
      /\ Len(follow_ups) \in Nat
  BY LimitsAssumption DEF LedgerTypeOK
<1>1. ASSUME NEW m \in Messages, NEW isReply \in BOOLEAN, Accept(m, isReply)
      PROVE  BacklogBound'
  <2> DEFINE seq == revision + 1
             text == {seq} \X (1..TextLength[m])
  <2>1. /\ DOMAIN events' \subseteq DOMAIN events \cup {seq}
        /\ events'[seq].message = m
        /\ \A s \in DOMAIN events : s \in DOMAIN events' => events'[s] = events[s]
        /\ seq \notin DOMAIN events
    <3>1. NewEvent(m, isReply).message = m
      BY DEF NewEvent
    <3> QED
      BY <1>1, <3>1, Accepting
  <2>2. unaddressed' \subseteq unaddressed \cup {seq}
    BY <2>1 DEF unaddressed
  <2>3. PendingText' \subseteq PendingText \cup text
    BY <2>1, <2>2 DEF PendingText, unaddressed
  <2>4. TextLength[m] \in Nat
    BY MessagesAssumption
  <2>5. IsFiniteSet(text) /\ Cardinality(text) = TextLength[m]
    <3>1. IsFiniteSet({seq}) /\ Cardinality({seq}) = 1
      BY FS_Singleton
    <3>2. /\ IsFiniteSet(1..TextLength[m])
          /\ Cardinality(1..TextLength[m]) = TextLength[m]
      <4>1. 1 \in Int /\ TextLength[m] \in Int
        BY <2>4
      <4>2. /\ IsFiniteSet(1..TextLength[m])
            /\ Cardinality(1..TextLength[m])
                  = IF 1 > TextLength[m] THEN 0 ELSE TextLength[m] - 1 + 1
        BY <4>1, FS_Interval, Zenon
      <4> QED
        BY <2>4, <4>2
    <3>3. IsFiniteSet(text) /\ Cardinality(text) = 1 * TextLength[m]
      BY <3>1, <3>2, FS_Product
    <3> QED
      BY <2>4, <3>3
  <2> HIDE DEF text, seq
  <2>6. Cardinality(unaddressed') <= Cardinality(unaddressed) + 1
    <3>1. /\ IsFiniteSet(unaddressed \cup {seq})
          /\ Cardinality(unaddressed \cup {seq}) =
                IF seq \in unaddressed THEN Cardinality(unaddressed)
                ELSE Cardinality(unaddressed) + 1
      BY <1>f, FS_AddElement
    <3>2. /\ IsFiniteSet(unaddressed')
          /\ Cardinality(unaddressed') <= Cardinality(unaddressed \cup {seq})
      BY <2>2, <3>1, FS_Subset
    <3>3. Cardinality(unaddressed') \in Nat
      BY <3>2, FS_CardinalityType
    <3> QED
      BY <1>f, <3>1, <3>2, <3>3
  <2>7. PendingChars' <= PendingChars + TextLength[m]
    <3>1. /\ IsFiniteSet(PendingText \cup text)
          /\ Cardinality(PendingText \cup text)
                = PendingChars + TextLength[m] - Cardinality(PendingText \cap text)
      BY <1>f, <2>5, FS_Union DEF PendingChars
    <3>2. Cardinality(PendingText \cap text) \in Nat /\ Cardinality(PendingText \cup text) \in Nat
      <4>1. IsFiniteSet(PendingText \cap text)
        BY <1>f, FS_Intersection
      <4> QED
        BY <3>1, <4>1, FS_CardinalityType
    <3>3. /\ IsFiniteSet(PendingText')
          /\ PendingChars' <= Cardinality(PendingText \cup text)
      BY <2>3, <3>1, FS_Subset DEF PendingChars
    <3>4. PendingChars' \in Nat
      BY <3>3, FS_CardinalityType DEF PendingChars
    <3> QED
      BY <1>f, <2>4, <3>1, <3>2, <3>3, <3>4
  <2>8. /\ Cardinality(unaddressed) < MAX_PENDING_MESSAGES
        /\ PendingChars + TextLength[m] <= MAX_PENDING_CHARS
    BY <1>1, AcceptedFits DEF HasRoomFor
  <2>9. follow_ups' = follow_ups
    BY <1>1 DEF Accept
  <2>10. Cardinality(unaddressed') \in Nat /\ PendingChars' \in Nat
    <3>1. IsFiniteSet(unaddressed \cup {seq}) /\ IsFiniteSet(PendingText \cup text)
      BY <1>f, <2>5, FS_AddElement, FS_Union
    <3>2. IsFiniteSet(unaddressed') /\ IsFiniteSet(PendingText')
      BY <2>2, <2>3, <3>1, FS_Subset
    <3> QED
      BY <3>2, FS_CardinalityType DEF PendingChars
  <2> QED
    BY <1>f, <1>n, <2>4, <2>6, <2>7, <2>8, <2>9, <2>10 DEF BacklogBound
<1>2. ASSUME Stay PROVE Cardinality(unaddressed') <= MAX_PENDING_MESSAGES
                        /\ PendingChars' <= MAX_PENDING_CHARS
  <2>1. PendingText' \subseteq PendingText
    BY <1>2 DEF Stay, PendingText, unaddressed
  <2>2. /\ IsFiniteSet(unaddressed') /\ Cardinality(unaddressed') <= Cardinality(unaddressed)
        /\ IsFiniteSet(PendingText') /\ PendingChars' <= PendingChars
    BY <1>2, <1>f, <2>1, FS_Subset DEF Stay, PendingChars
  <2>3. Cardinality(unaddressed') \in Nat /\ PendingChars' \in Nat
    BY <2>2, FS_CardinalityType DEF PendingChars
  <2> QED
    BY <1>f, <1>n, <2>2, <2>3 DEF BacklogBound
<1>3. ASSUME NEW m \in Messages, Files(m) PROVE Len(follow_ups') <= MAX_FOLLOW_UPS
  <2>1. Len(follow_ups') = Len(follow_ups) + 1
    BY <1>3 DEF Files, LedgerTypeOK
  <2> QED
    BY <1>3, <1>n, <2>1 DEF Files
<1>4. CASE follow_ups' = follow_ups /\ Stay
  BY <1>2, <1>4 DEF BacklogBound
<1> QED
  BY <1>1, <1>2, <1>3, <1>4, EventsStay DEF BacklogBound

Less == OpToRel(<, Nat)

LEMMA LeastIsOne ==
    ASSUME NEW S \in SUBSET Nat, S # {} PROVE \E x \in S : \A y \in S : x <= y
<1>1. \A x, y \in Nat : x < y => <<x, y>> \in Less
  BY SMT DEF Less, OpToRel
<1>2. \E x \in S : \A y \in S : ~ (<<y, x>> \in Less)
  BY NatLessThanWellFounded, WFMin DEF Less
<1>3. \E x \in S : \A y \in S : ~ (y < x)
  BY <1>1, <1>2, Zenon
<1> QED
  BY <1>3

(* One event over the cap, and one of them resolved: the oldest resolved    *)
(* one goes.                                                                 *)
LEMMA CompactionMakesRoom ==
    ASSUME NEW evs, IsFiniteSet(DOMAIN evs), DOMAIN evs \subseteq Nat,
           Cardinality(DOMAIN evs) <= MAX_RETAINED_EVENTS + 1,
           \/ Cardinality(DOMAIN evs) <= MAX_RETAINED_EVENTS
           \/ \E s \in DOMAIN evs : evs[s].stage = RESOLVED
    PROVE  Cardinality(Surviving(evs)) <= MAX_RETAINED_EVENTS
<1>1. Surviving(evs) \subseteq DOMAIN evs
  BY DEF Surviving
<1>2. /\ Cardinality(DOMAIN evs) \in Nat /\ MAX_RETAINED_EVENTS \in Nat
      /\ IsFiniteSet(Surviving(evs)) /\ Cardinality(Surviving(evs)) \in Nat
      /\ Cardinality(Surviving(evs)) <= Cardinality(DOMAIN evs)
  BY <1>1, LimitsAssumption, FS_Subset, FS_CardinalityType
<1>3. CASE Cardinality(DOMAIN evs) <= MAX_RETAINED_EVENTS
  BY <1>2, <1>3
<1>4. CASE Cardinality(DOMAIN evs) = MAX_RETAINED_EVENTS + 1
  <2> DEFINE done == {s \in DOMAIN evs : evs[s].stage = RESOLVED}
  <2>1. done \subseteq Nat /\ done # {}
    BY <1>2, <1>4
  <2>2. PICK first \in done : \A t \in done : first <= t
    BY <2>1, LeastIsOne
  <2>3. {t \in done : t <= first} = {first}
    BY <2>1, <2>2
  <2>4. Cardinality({t \in done : t <= first}) = 1
    BY <2>3, FS_Singleton
  <2>5. Cardinality(DOMAIN evs) - MAX_RETAINED_EVENTS = 1
    BY <1>2, <1>4
  <2>6. first \notin Surviving(evs)
    BY <2>4, <2>5 DEF Surviving
  <2>7. Surviving(evs) \subseteq DOMAIN evs \ {first} /\ first \in DOMAIN evs
    BY <1>1, <2>6
  <2>8. /\ IsFiniteSet(DOMAIN evs \ {first})
        /\ Cardinality(DOMAIN evs \ {first}) = Cardinality(DOMAIN evs) - 1
    BY <2>7, FS_RemoveElement
  <2>9. Cardinality(Surviving(evs)) <= Cardinality(DOMAIN evs \ {first})
    BY <2>7, <2>8, FS_Subset
  <2> QED
    BY <1>2, <1>4, <2>8, <2>9
<1> QED
  BY <1>2, <1>3, <1>4

LEMMA RetainedStep ==
    ASSUME LedgerTypeOK, RetainedBound, [LedgerNext]_ledgerVars PROVE RetainedBound'
<1>1. ASSUME NEW m \in Messages, NEW isReply \in BOOLEAN, Accept(m, isReply)
      PROVE  RetainedBound'
  <2> DEFINE grown == [s \in DOMAIN events \cup {revision + 1} |->
                          IF s = revision + 1 THEN NewEvent(m, isReply) ELSE events[s]]
  <2>1. events' = [s \in Surviving(grown) |-> grown[s]]
    BY <1>1 DEF Accept, NextSeq
  <2>2. DOMAIN grown = DOMAIN events \cup {revision + 1} /\ revision + 1 \notin DOMAIN events
    BY DEF LedgerTypeOK
  <2>3. \A s \in DOMAIN events : grown[s] = events[s]
    BY <2>2
  <2>4. /\ IsFiniteSet(DOMAIN events) /\ Cardinality(DOMAIN events) \in Nat
        /\ MAX_RETAINED_EVENTS \in Nat
    BY LedgerFinite, LimitsAssumption
  <2> HIDE DEF grown
  <2>5. IsFiniteSet(DOMAIN grown) /\ Cardinality(DOMAIN grown) = Cardinality(DOMAIN events) + 1
    BY <2>2, <2>4, FS_AddElement
  <2>6. \/ Cardinality(DOMAIN grown) <= MAX_RETAINED_EVENTS
        \/ \E s \in DOMAIN grown : grown[s].stage = RESOLVED
    <3>1. \/ Cardinality(DOMAIN events) < MAX_RETAINED_EVENTS
          \/ \E s \in DOMAIN events : events[s].stage = RESOLVED
      BY <1>1, AcceptedFits DEF HasRoomFor
    <3> QED
      BY <2>2, <2>3, <2>4, <2>5, <3>1
  <2>7. DOMAIN grown \subseteq Nat
    BY <2>2 DEF LedgerTypeOK
  <2>8. Cardinality(DOMAIN grown) <= MAX_RETAINED_EVENTS + 1
    BY <2>4, <2>5 DEF RetainedBound
  <2> QED
    BY <2>1, <2>5, <2>6, <2>7, <2>8, CompactionMakesRoom DEF RetainedBound
<1>2. CASE Stay
  BY <1>2 DEF Stay, RetainedBound
<1> QED
  BY <1>1, <1>2, EventsStay

(* No two entries are of one message with an id, be they events or not.     *)
EntriesFit ==
    /\ \A s, t \in DOMAIN events :
           events[s].message \in WithId /\ events[s].message = events[t].message => s = t
    /\ \A i, j \in DOMAIN follow_ups :
           follow_ups[i] \in WithId /\ follow_ups[i] = follow_ups[j] => i = j
    /\ \A s \in DOMAIN events, i \in DOMAIN follow_ups :
           events[s].message = follow_ups[i] => follow_ups[i] \notin WithId

LEMMA EntriesStep ==
    ASSUME LedgerTypeOK, EntriesFit, [LedgerNext]_ledgerVars PROVE EntriesFit'
<1>1. ASSUME NEW m \in Messages, NEW isReply \in BOOLEAN, Accept(m, isReply)
      PROVE  EntriesFit'
  <2>1. /\ DOMAIN events' \subseteq DOMAIN events \cup {revision + 1}
        /\ events'[revision + 1].message = m
        /\ \A s \in DOMAIN events : s \in DOMAIN events' => events'[s] = events[s]
        /\ revision + 1 \notin DOMAIN events
    <3>1. NewEvent(m, isReply).message = m
      BY DEF NewEvent
    <3> QED
      BY <1>1, <3>1, Accepting
  <2>2. follow_ups' = follow_ups /\ ~SeenMessage(m)
    BY <1>1, AcceptedFits DEF Accept
  <2> QED
    BY <2>1, <2>2 DEF EntriesFit, SeenMessage
<1>2. ASSUME NEW m \in Messages, Files(m), Stay PROVE EntriesFit'
  <2>1. /\ DOMAIN follow_ups' = DOMAIN follow_ups \cup {Len(follow_ups) + 1}
        /\ follow_ups'[Len(follow_ups) + 1] = m
        /\ \A i \in DOMAIN follow_ups : follow_ups'[i] = follow_ups[i]
        /\ Len(follow_ups) + 1 \notin DOMAIN follow_ups
    BY <1>2 DEF Files, LedgerTypeOK
  <2>2. ~SeenMessage(m)
    BY <1>2 DEF Files
  <2> QED
    BY <1>2, <2>1, <2>2 DEF EntriesFit, SeenMessage, Stay
<1>3. CASE Stay /\ follow_ups' = follow_ups
  BY <1>3 DEF EntriesFit, Stay
<1> QED
  BY <1>1, <1>2, <1>3, EventsStay

LEMMA EntriesAreSingle == ASSUME LedgerTypeOK, EntriesFit PROVE OneEntryPerMessage
<1> SUFFICES ASSUME NEW m \in WithId
             PROVE  Cardinality({s \in DOMAIN events : events[s].message = m})
                    + Cardinality({i \in DOMAIN follow_ups : follow_ups[i] = m}) <= 1
  BY DEF OneEntryPerMessage
<1> DEFINE A == {s \in DOMAIN events : events[s].message = m}
           B == {i \in DOMAIN follow_ups : follow_ups[i] = m}
<1>1. \A x, y \in A : x = y
  BY DEF EntriesFit
<1>2. \A x, y \in B : x = y
  BY DEF EntriesFit
<1>3. A = {} \/ B = {}
  BY DEF EntriesFit
<1> HIDE DEF A, B
<1>4. A = {} \/ \E x : A = {x}
  BY <1>1
<1>5. B = {} \/ \E x : B = {x}
  BY <1>2
<1>6. Cardinality(A) \in {0, 1} /\ Cardinality(B) \in {0, 1}
      /\ (A = {} => Cardinality(A) = 0) /\ (B = {} => Cardinality(B) = 0)
  BY <1>4, <1>5, FS_EmptySet, FS_Singleton
<1> QED
  BY <1>3, <1>6 DEF A, B

(* Questions are numbered from one on, and an event that may answer one     *)
(* names a question that was open when it came.                             *)
QuestionsFit ==
    /\ question.after_seq <= revision /\ question.qid < next_qid
    /\ question = NoQuestion \/ question.qid # 0
    /\ \A s \in DOMAIN events : events[s].question_id < next_qid
    /\ OpenQuestionUnanswered

LEMMA QuestionsStep ==
    ASSUME LedgerTypeOK, QuestionsFit, [LedgerNext]_ledgerVars PROVE QuestionsFit'
<1>0. /\ \A s \in DOMAIN events : events[s] \in Event /\ s \in 1..revision
      /\ question \in Question /\ revision \in Nat /\ next_qid \in Nat \ {0}
      /\ question.qid \in Nat /\ question.after_seq \in Nat
      /\ NoQuestion.qid = 0 /\ NoQuestion.after_seq = 0
      /\ \A s \in DOMAIN events : events[s].question_id \in Nat
  BY DEF LedgerTypeOK, Event, Question, NoQuestion
<1> DEFINE Same == \/ question' = question \/ question' = NoQuestion
                   \/ /\ question # NoQuestion /\ question'.qid = question.qid
                      /\ question'.after_seq = question.after_seq
<1>1. ASSUME NEW m \in Messages, NEW isReply \in BOOLEAN, Accept(m, isReply)
      PROVE  QuestionsFit'
  <2>1. /\ DOMAIN events' \subseteq DOMAIN events \cup {revision + 1}
        /\ events'[revision + 1] = NewEvent(m, isReply)
        /\ \A s \in DOMAIN events : s \in DOMAIN events' => events'[s] = events[s]
        /\ revision' = revision + 1
    BY <1>1, Accepting
  <2>2. question' = question /\ next_qid' = next_qid
    BY <1>1 DEF Accept
  <2>3. /\ NewEvent(m, isReply).stage = RECEIVED
        /\ NewEvent(m, isReply).question_id \in {0, question.qid}
    BY DEF NewEvent
  <2>4. \A s \in DOMAIN events' :
           \/ s = revision + 1
           \/ s \in DOMAIN events /\ events'[s] = events[s]
    BY <2>1
  <2>5. OpenQuestionUnanswered'
    BY <1>0, <2>1, <2>2, <2>3, <2>4 DEF QuestionsFit, OpenQuestionUnanswered
  <2>6. \A s \in DOMAIN events' : events'[s].question_id < next_qid'
    BY <1>0, <2>1, <2>2, <2>3, <2>4 DEF QuestionsFit
  <2> QED
    BY <1>0, <2>1, <2>2, <2>5, <2>6 DEF QuestionsFit
<1>2. ASSUME Stay, Same, next_qid' = next_qid,
             \A s \in DOMAIN events :
                 question' # NoQuestion /\ events[s].question_id = question.qid
                     /\ events[s].stage \in {RECEIVED, PRESENTED}
                     => events'[s].stage \in {RECEIVED, PRESENTED}
      PROVE  QuestionsFit'
  <2>1. question' # NoQuestion =>
            /\ question # NoQuestion /\ question'.qid = question.qid
            /\ question'.after_seq = question.after_seq
    BY <1>2
  <2>2. OpenQuestionUnanswered'
    BY <1>2, <2>1 DEF Stay, QuestionsFit, OpenQuestionUnanswered
  <2>3. \A s \in DOMAIN events' : events'[s].question_id < next_qid'
    BY <1>2 DEF Stay, QuestionsFit
  <2>4. /\ question'.after_seq <= revision' /\ question'.qid < next_qid'
        /\ question' = NoQuestion \/ question'.qid # 0
    BY <1>0, <1>2, <2>1 DEF Stay, QuestionsFit
  <2> QED
    BY <2>2, <2>3, <2>4 DEF QuestionsFit
<1>3. ASSUME NEW seqs \in SUBSET unpresented, NEW at \in 0..MaxItems, MarkPresented(seqs, at)
      PROVE  QuestionsFit'
  <2>1. \A s \in DOMAIN events : events[s].stage \in {RECEIVED, PRESENTED}
                                    => events'[s].stage \in {RECEIVED, PRESENTED}
    BY <1>0, <1>3 DEF MarkPresented, Event
  <2>2. question' = question /\ next_qid' = next_qid
    BY <1>3 DEF MarkPresented
  <2> QED
    BY <1>2, <1>3, <2>1, <2>2, MarkingStays
<1>4. ASSUME NEW seqs \in SUBSET (1..revision), NEW d \in DecisionsMade, RecordDecision(seqs, d)
      PROVE  QuestionsFit'
  <2>1. CASE Answers(seqs, d)
    <3>1. question' = NoQuestion /\ next_qid' = next_qid
      BY <1>4, <2>1 DEF RecordDecision
    <3> QED
      BY <1>2, <1>4, <3>1, DecidingStays
  <2>2. CASE ~Answers(seqs, d)
    <3>1. \A s \in DOMAIN events : events[s].question_id = question.qid => events'[s] = events[s]
      BY <1>4, <2>2 DEF RecordDecision, Answers
    <3>2. question' = question /\ next_qid' = next_qid
      BY <1>4, <2>2 DEF RecordDecision
    <3> QED
      BY <1>2, <1>4, <3>1, <3>2, DecidingStays
  <2> QED
    BY <2>1, <2>2
<1>5. ASSUME NEW seqs \in SUBSET (unaddressed \ unpresented), GiveUpOn(seqs)
      PROVE  QuestionsFit'
  <2>1. \A s \in DOMAIN events : events'[s].stage = events[s].stage
    BY <1>0, <1>5 DEF GiveUpOn, Event
  <2>2. question' = question /\ next_qid' = next_qid
    BY <1>5 DEF GiveUpOn
  <2> QED
    BY <1>2, <1>5, <2>1, <2>2, GivingUpStays
<1>6. ASSUME NEW isBlocking \in BOOLEAN, OpenQuestion(isBlocking) PROVE QuestionsFit'
  <2>1. /\ question'.qid = next_qid /\ question'.after_seq = revision
        /\ next_qid' = next_qid + 1 /\ UNCHANGED <<events, revision>>
    BY <1>6 DEF OpenQuestion
  <2>2. \A s \in DOMAIN events : events[s].question_id # question'.qid
    BY <1>0, <2>1 DEF QuestionsFit
  <2>3. OpenQuestionUnanswered'
    BY <2>1, <2>2 DEF OpenQuestionUnanswered
  <2>4. \A s \in DOMAIN events' : events'[s].question_id < next_qid'
    BY <1>0, <2>1 DEF QuestionsFit
  <2> QED
    BY <1>0, <2>1, <2>3, <2>4 DEF QuestionsFit
<1>7. ASSUME UNCHANGED <<events, revision, next_qid>>, Same PROVE QuestionsFit'
  BY <1>2, <1>7 DEF Stay, unaddressed
<1>8. CASE UNCHANGED <<events, revision, next_qid, question>>
  BY <1>7, <1>8
<1>9. CASE CloseQuestion(question.qid)
  BY <1>7, <1>9 DEF CloseQuestion
<1>10. ASSUME NEW q, q.qid = question.qid, q.after_seq = question.after_seq,
              UpdateQuestion(question.qid, q)
       PROVE  QuestionsFit'
  <2>1. Same
    <3>1. CASE question = NoQuestion
      BY <1>0, <1>10, <3>1 DEF UpdateQuestion
    <3>2. CASE question # NoQuestion
      BY <1>10, <3>2 DEF UpdateQuestion
    <3> QED
      BY <3>1, <3>2
  <2> QED
    BY <1>7, <1>10, <2>1 DEF UpdateQuestion
<1>11. CASE \/ QuestionPosted(question.qid) \/ QuestionWaits(question.qid)
            \/ \E late \in BOOLEAN : QuestionWaitEnds(question.qid, late)
  <2>1. question \in [qid : Nat, blocking : BOOLEAN, after_seq : Nat,
                      posted : BOOLEAN, waiting : BOOLEAN, timed_out : BOOLEAN]
    BY <1>0 DEF Question
  <2>2. CASE QuestionPosted(question.qid)
    BY <1>10, <2>1, <2>2 DEF QuestionPosted
  <2>3. CASE QuestionWaits(question.qid)
    BY <1>10, <2>1, <2>3 DEF QuestionWaits
  <2>4. ASSUME NEW late \in BOOLEAN, QuestionWaitEnds(question.qid, late) PROVE QuestionsFit'
    BY <1>10, <2>1, <2>4 DEF QuestionWaitEnds
  <2> QED
    BY <1>11, <2>2, <2>3, <2>4
<1> QED
  BY <1>1, <1>3, <1>4, <1>5, <1>6, <1>8, <1>9, <1>11
     DEF LedgerNext, Deliver, FileFollowUp, Start, Finalize, Close, ledgerVars

LedgerFits == LedgerTypeOK /\ RetainedBound /\ BacklogBound /\ EntriesFit /\ QuestionsFit

LEMMA LedgerFitsInit == LedgerInit => LedgerFits
<1> SUFFICES ASSUME LedgerInit PROVE LedgerFits
  OBVIOUS
<1>1. DOMAIN events = {} /\ unaddressed = {} /\ PendingText = {}
  BY DEF LedgerInit, unaddressed, PendingText
<1>2. Cardinality({}) = 0
  BY FS_EmptySet
<1>3. RetainedBound /\ BacklogBound
  BY <1>1, <1>2, LimitsAssumption DEF LedgerInit, RetainedBound, BacklogBound, PendingChars
<1>4. EntriesFit /\ QuestionsFit
  BY <1>1 DEF LedgerInit, EntriesFit, QuestionsFit, OpenQuestionUnanswered, NoQuestion
<1> QED
  BY <1>3, <1>4, TypeInit DEF LedgerFits

LEMMA LedgerFitsHolds == LedgerSpec => []LedgerFits
<1>1. LedgerFits /\ [LedgerNext]_ledgerVars => LedgerFits'
  <2> SUFFICES ASSUME LedgerFits, [LedgerNext]_ledgerVars PROVE LedgerFits'
    OBVIOUS
  <2>1. LedgerTypeOK'
    BY TypeStep DEF LedgerFits
  <2> QED
    BY <2>1, RetainedStep, BacklogStep, EntriesStep, QuestionsStep DEF LedgerFits
<1> QED
  BY <1>1, LedgerFitsInit, PTL DEF LedgerSpec

(* The record of a run stays within its cap: whatever is accepted beyond it *)
(* pushes one resolved event out, and is refused when there is none.         *)
THEOREM RecordBounded == LedgerSpec => []RetainedBound
<1>1. LedgerFits => RetainedBound
  BY DEF LedgerFits
<1> QED
  BY <1>1, LedgerFitsHolds, PTL

(* What waits for the model stays within the caps of messages and of        *)
(* characters, whatever is decided, taken back or given up on in between.    *)
THEOREM BacklogBounded == LedgerSpec => []BacklogBound
<1>1. LedgerFits => BacklogBound
  BY DEF LedgerFits
<1> QED
  BY <1>1, LedgerFitsHolds, PTL

(* A Discord message has one entry at most, however often it is delivered   *)
(* and on whichever side of the finalization boundary.                       *)
THEOREM OneEntryEach == LedgerSpec => []OneEntryPerMessage
<1>1. LedgerFits => OneEntryPerMessage
  BY EntriesAreSingle DEF LedgerFits
<1> QED
  BY <1>1, LedgerFitsHolds, PTL

(* While a question is open, no candidate answer to it has been decided on,  *)
(* and each came after it was asked.                                         *)
THEOREM OpenMeansUnanswered == LedgerSpec => []OpenQuestionUnanswered
<1>1. LedgerFits => OpenQuestionUnanswered
  BY DEF LedgerFits, QuestionsFit
<1> QED
  BY <1>1, LedgerFitsHolds, PTL


(***************************************************************************)
(* The ledger in a run                                                     *)
(***************************************************************************)

Ats   == {"queued", "running", "waiting", "done"}
ACall == [kind : Kinds, ids : SUBSET Nat, blocking : BOOLEAN, qid : Nat, after_seq : Nat,
          at : Ats]

(* The ledger and the calls are well typed; calls name messages of the      *)
(* ledger, and only the tools stage has any.                                *)
CallsFit ==
    /\ calls \in Seq(ACall)
    /\ \A i \in DOMAIN calls : calls[i].ids \subseteq 1..revision
    /\ pc # "tools" => calls = <<>>
(* The lock is held by a gated call that runs.                              *)
LockFits ==
    tool_lock # 0 =>
        /\ tool_lock \in DOMAIN calls
        /\ calls[tool_lock].kind \in Gated /\ calls[tool_lock].at = "running"
Typed == LedgerTypeOK /\ revision <= MaxRevision /\ CallsFit

(* Where the run is, and what that says of the ledger.                      *)
Placement ==
    /\ pc = "setup" => state = SETUP
    /\ pc = "inflight" => staged \subseteq unpresented
    /\ exit # "none" <=> pc = "over"

(* What is spent and what is left of the turns is the budget.               *)
Active == {"setup", "ready", "inflight", "tools", "final"}
Budget ==
    /\ model_calls \in Nat /\ pass_calls \in Nat /\ continuations \in Nat /\ turns_left \in Nat
    /\ items = 1 + model_calls + continuations
    /\ model_calls <= SANDBOX_MAX_TURNS /\ continuations <= MAX_CONTINUATIONS
    /\ pc \in Active =>
         model_calls + turns_left = SANDBOX_MAX_TURNS + pass_calls /\ pass_calls <= turns_left
    /\ pc = "inflight" => pass_calls < turns_left

(* A question that is being sent or waited on is the open one; the ledger   *)
(* has no answer to it that any response has seen.                          *)
Asks(i) == calls[i].kind = "ask" /\ calls[i].at \in {"running", "waiting"}
Unanswered(qid) ==
    \A s \in DOMAIN events : events[s].question_id = qid => events[s].stage = RECEIVED
QuestionsNumbered ==
    /\ question.qid < next_qid
    /\ \A s \in DOMAIN events : events[s].question_id < next_qid
AskerOwns ==
    \A i \in DOMAIN calls : Asks(i) =>
        /\ calls[i].qid = question.qid /\ question.qid # 0
        /\ ~question.timed_out /\ question.blocking = calls[i].blocking
        /\ calls[i].at = "waiting" => question.waiting /\ question.blocking
        /\ Unanswered(question.qid)
OneAsker == \A i, j \in DOMAIN calls : Asks(i) /\ Asks(j) => i = j
OnlyAsksWait == \A i \in DOMAIN calls : calls[i].at = "waiting" => calls[i].kind = "ask"
AsksFit == QuestionsNumbered /\ AskerOwns /\ OneAsker /\ OnlyAsksWait

Base == Typed /\ LockFits /\ Placement /\ Budget /\ AsksFit

--------------------------------------------------------------------------------
(* Calls that move. *)

Moved(i, at) ==
    /\ calls' \in Seq(ACall) /\ DOMAIN calls' = DOMAIN calls
    /\ calls'[i].at = at /\ calls'[i].kind = calls[i].kind /\ calls'[i].ids = calls[i].ids
    /\ calls'[i].blocking = calls[i].blocking /\ calls'[i].qid = calls[i].qid
    /\ \A j \in DOMAIN calls \ {i} : calls'[j] = calls[j]

LEMMA OneCallChanges ==
    ASSUME NEW i \in DOMAIN calls, calls \in Seq(ACall), NEW c \in ACall,
           calls' = [calls EXCEPT ![i] = c]
    PROVE  /\ calls' \in Seq(ACall) /\ DOMAIN calls' = DOMAIN calls /\ calls'[i] = c
           /\ \A j \in DOMAIN calls \ {i} : calls'[j] = calls[j]
    OBVIOUS

LEMMA CallsMove ==
    ASSUME NEW i \in DOMAIN calls, calls \in Seq(ACall), NEW at \in Ats, CallMoves(i, at)
    PROVE  Moved(i, at)
<1> DEFINE c == [calls[i] EXCEPT !.at = at]
<1>1. calls[i] \in ACall
    OBVIOUS
<1>2. /\ c \in ACall /\ c.at = at /\ c.kind = calls[i].kind /\ c.ids = calls[i].ids
      /\ c.blocking = calls[i].blocking /\ c.qid = calls[i].qid
    BY <1>1 DEF ACall
<1>3. calls' = [calls EXCEPT ![i] = c]
    BY DEF CallMoves
<1> HIDE DEF c
<1> QED
    BY <1>2, <1>3, OneCallChanges DEF Moved

(* What the model answers names only messages of the ledger. *)
LEMMA BatchTyped ==
    ASSUME Typed, ConversationAssumption, NEW kinds \in Responses \cup {<<>>},
           NEW batch \in Batches(kinds)
    PROVE  /\ batch \in Seq(ACall) /\ DOMAIN batch = DOMAIN kinds
           /\ \A i \in DOMAIN batch : batch[i].at = "queued" /\ batch[i].ids \subseteq DOMAIN events
<1>1. kinds \in Seq(Kinds)
    <2>1. <<>> \in Seq(Kinds)
        OBVIOUS
    <2>2. Responses \subseteq Seq(Kinds)
        BY ConversationAssumption
    <2> QED
        BY <2>1, <2>2
<1>2. PICK ids \in [DOMAIN kinds -> SUBSET DOMAIN events], isBlocking \in [DOMAIN kinds -> BOOLEAN] :
          batch = [i \in DOMAIN kinds |-> NewCall(kinds[i], ids[i], isBlocking[i])]
    BY DEF Batches
<1>3. DOMAIN events \subseteq Nat
    BY DEF Typed, LedgerTypeOK
<1>4. ASSUME NEW i \in DOMAIN kinds
      PROVE  /\ batch[i] \in ACall /\ batch[i].at = "queued"
             /\ batch[i].ids \subseteq DOMAIN events
    <2>1. kinds[i] \in Kinds /\ ids[i] \in SUBSET DOMAIN events /\ isBlocking[i] \in BOOLEAN
        BY <1>1
    <2> QED
        BY <1>2, <1>3, <2>1 DEF NewCall, ACall, Ats
<1>5. PICK n \in Nat : DOMAIN kinds = 1..n
    BY <1>1
<1>6. DOMAIN batch = 1..n /\ batch = [i \in 1..n |-> batch[i]]
    BY <1>2, <1>5
<1>7. \A i \in 1..n : batch[i] \in ACall
    BY <1>4, <1>5
<1>8. batch \in [1..n -> ACall]
    BY <1>6, <1>7
<1>9. batch \in Seq(ACall)
    BY <1>5, <1>8
<1> QED
    BY <1>4, <1>5, <1>6, <1>9

--------------------------------------------------------------------------------
(* Each step makes at most one of the ledger's calls. *)

LEMMA ToolShape ==
    ASSUME NEW i \in DOMAIN calls, ToolStep(i)
    PROVE  pc = "tools" /\ UNCHANGED runVars
BY DEF ToolStep, GateHolds, GateRefuses, GateOpens, CanCheckGate, ShellReturns, AttachReturns,
       GatedReturns, respond_to_updates, RespondRecords, RespondUnrecognised, Starts, ReplyEnds,
       ask_user, AskOpens, AskRefused, AskSent, AskSendFails, AskWakes, AskTimesOut, Asking

LEMMA TargetsKnown ==
    ASSUME Typed, NEW i \in DOMAIN calls, NEW d \in DecisionsMade
    PROVE  Targets(i, d) \in SUBSET (1..revision)
BY DEF Targets, Typed, CallsFit, LedgerTypeOK

LEMMA HopelessWereShown == hopeless \in SUBSET (unaddressed \ unpresented)
BY DEF hopeless, ignored

LEMMA ToolLedgerStep ==
    ASSUME Base, NEW i \in DOMAIN calls, ToolStep(i)
    PROVE  [LedgerNext]_ledgerVars
<1>1. CASE GateRefuses(i) \/ GateOpens(i)
    BY <1>1, HopelessWereShown DEF GateRefuses, GateOpens, LedgerNext
<1>2. ASSUME NEW d \in DecisionsMade, RespondRecords(i, d)
      PROVE  LedgerNext
    BY <1>2, TargetsKnown DEF RespondRecords, Base, LedgerNext
<1>3. CASE AskOpens(i)
    <2>1. calls[i] \in ACall
        BY DEF Base, Typed, CallsFit
    <2> QED
        BY <1>3, <2>1 DEF AskOpens, LedgerNext, ACall
<1>4. CASE AskSent(i)
    <2>1. calls[i].qid = question.qid /\ question.blocking = calls[i].blocking
        BY <1>4 DEF AskSent, Asking, Base, AsksFit, AskerOwns, Asks
    <2> QED
        BY <1>4, <2>1 DEF AskSent, LedgerNext
<1>5. CASE AskSendFails(i)
    <2>1. calls[i].qid = question.qid
        BY <1>5 DEF AskSendFails, Asking, Base, AsksFit, AskerOwns, Asks
    <2> QED
        BY <1>5, <2>1 DEF AskSendFails, LedgerNext
<1>6. CASE AskWakes(i) \/ AskTimesOut(i)
    <2>1. calls[i].qid = question.qid /\ question.waiting
        BY <1>6 DEF AskWakes, AskTimesOut, Asking, Base, AsksFit, AskerOwns, Asks
    <2> QED
        BY <1>6, <2>1 DEF AskWakes, AskTimesOut, LedgerNext
<1>7. CASE UNCHANGED ledgerVars
    BY <1>7
<1> QED
    BY <1>1, <1>2, <1>3, <1>4, <1>5, <1>6, <1>7
       DEF ToolStep, GateHolds, ShellReturns, AttachReturns, GatedReturns, respond_to_updates,
           RespondUnrecognised, ReplyEnds, ask_user, AskRefused

LEMMA LedgerStep ==
    ASSUME Base, [Next]_vars
    PROVE  [LedgerNext]_ledgerVars
<1>1. ASSUME NEW i \in DOMAIN calls, ToolStep(i)
      PROVE  [LedgerNext]_ledgerVars
    BY <1>1, ToolLedgerStep
<1>2. CASE ModelReturns
    <2>1. MarkPresented(staged, items) /\ pc = "inflight"
        BY <1>2 DEF ModelReturns, ModelAnswers
    <2>2. staged \in SUBSET unpresented
        BY <2>1 DEF Base, Placement
    <2>3. items \in 0..MaxItems
        BY RunFitsBound, ConversationAssumption, LimitsAssumption DEF Base, Budget
    <2> QED
        BY <2>1, <2>2, <2>3 DEF LedgerNext
<1>3. CASE StartRun
    BY <1>3 DEF StartRun, Base, Placement, LedgerNext
<1>4. CASE FinishRun \/ PassFails \/ Cancelled \/ InfraFails
    BY <1>4 DEF FinishRun, PassFails, Cancelled, InfraFails, Ends, LedgerNext
<1>5. CASE TimeOut
    BY <1>5 DEF TimeOut, LedgerNext
<1>6. CASE Release \/ Post
    BY <1>6 DEF Release, Post, LedgerNext
<1>7. CASE UNCHANGED ledgerVars
    BY <1>7
<1> QED
    BY <1>1, <1>2, <1>3, <1>4, <1>5, <1>6, <1>7
       DEF Next, RunStep, StageInput, ToolsReturn, Continue, SetupFails, vars

--------------------------------------------------------------------------------
(* What a step of the ledger leaves alone. *)

(* A new message is the only event a ledger step adds, and it is unread. *)
LEMMA EventsStep ==
    ASSUME LedgerTypeOK, revision <= MaxRevision, [LedgerNext]_ledgerVars
    PROVE  /\ revision' \in Nat /\ revision <= revision' /\ revision' <= MaxRevision
           /\ DOMAIN events' \subseteq 1..revision'
           /\ \A s \in DOMAIN events' : s \in DOMAIN events \/ s > revision
           /\ UNCHANGED next_qid \/ next_qid' = next_qid + 1
<1>1. ASSUME NEW m \in Messages, NEW isReply \in BOOLEAN, Accept(m, isReply)
      PROVE  /\ revision' \in Nat /\ revision <= revision' /\ revision' <= MaxRevision
             /\ \A s \in DOMAIN events' : s \in DOMAIN events \/ s > revision
             /\ UNCHANGED next_qid
    <2>1. revision' = revision + 1 /\ DOMAIN events' \subseteq DOMAIN events \cup {revision + 1}
        BY <1>1, Accepting
    <2>2. revision < MaxRevision /\ UNCHANGED next_qid
        BY <1>1 DEF Accept
    <2>3. revision \in Nat /\ MaxRevision \in Nat
        BY LimitsAssumption DEF LedgerTypeOK
    <2> QED
        BY <2>1, <2>2, <2>3
<1>2. \/ \E m \in Messages, isReply \in BOOLEAN : Accept(m, isReply)
      \/ /\ UNCHANGED revision /\ DOMAIN events' = DOMAIN events
         /\ UNCHANGED next_qid \/ next_qid' = next_qid + 1
    BY DEF LedgerNext, Deliver, FileFollowUp, MarkPresented,
           RecordDecision, GiveUpOn, OpenQuestion, CloseQuestion, QuestionPosted,
           QuestionWaits, QuestionWaitEnds, UpdateQuestion, Start, Finalize, Close, ledgerVars
<1>3. LedgerTypeOK'
    BY TypeStep
<1> QED
    BY <1>1, <1>2, <1>3 DEF LedgerTypeOK

(* One call goes on, and its ids stay within the ledger. *)
LEMMA ToolCalls ==
    ASSUME Base, NEW i \in DOMAIN calls, ToolStep(i)
    PROVE  /\ calls' \in Seq(ACall) /\ DOMAIN calls' = DOMAIN calls
           /\ \A j \in DOMAIN calls \ {i} : calls'[j] = calls[j]
           /\ calls'[i].kind = calls[i].kind /\ calls'[i].ids \subseteq 1..revision
           /\ calls'[i].blocking = calls[i].blocking
<1> USE DEF Base, Typed, CallsFit
<1>0. calls[i] \in ACall /\ calls[i].ids \subseteq 1..revision
    OBVIOUS
<1>1. ASSUME NEW at \in Ats, CallMoves(i, at)
      PROVE  /\ calls' \in Seq(ACall) /\ DOMAIN calls' = DOMAIN calls
             /\ \A j \in DOMAIN calls \ {i} : calls'[j] = calls[j]
             /\ calls'[i].kind = calls[i].kind /\ calls'[i].ids \subseteq 1..revision
             /\ calls'[i].blocking = calls[i].blocking
    BY <1>0, <1>1, CallsMove DEF Moved
<1>2. ASSUME NEW ids \in SUBSET (1..revision),
             calls' = [calls EXCEPT ![i].at = "running", ![i].ids = ids]
      PROVE  /\ calls' \in Seq(ACall) /\ DOMAIN calls' = DOMAIN calls
             /\ \A j \in DOMAIN calls \ {i} : calls'[j] = calls[j]
             /\ calls'[i].kind = calls[i].kind /\ calls'[i].ids \subseteq 1..revision
             /\ calls'[i].blocking = calls[i].blocking
    <2> DEFINE c == [calls[i] EXCEPT !.at = "running", !.ids = ids]
    <2>1. ids \in SUBSET Nat
        BY DEF LedgerTypeOK
    <2>2. /\ c \in ACall /\ c.kind = calls[i].kind /\ c.ids = ids
          /\ c.blocking = calls[i].blocking
        BY <1>0, <2>1 DEF ACall, Ats
    <2>3. calls' = [calls EXCEPT ![i] = c]
        BY <1>2
    <2> HIDE DEF c
    <2> QED
        BY <2>2, <2>3, OneCallChanges
<1>3. ASSUME NEW qid \in Nat, NEW after_seq \in Nat,
             calls' = [calls EXCEPT ![i].at = "running", ![i].qid = qid,
                                    ![i].after_seq = after_seq]
      PROVE  /\ calls' \in Seq(ACall) /\ DOMAIN calls' = DOMAIN calls
             /\ \A j \in DOMAIN calls \ {i} : calls'[j] = calls[j]
             /\ calls'[i].kind = calls[i].kind /\ calls'[i].ids \subseteq 1..revision
             /\ calls'[i].blocking = calls[i].blocking
    <2> DEFINE c == [calls[i] EXCEPT !.at = "running", !.qid = qid, !.after_seq = after_seq]
    <2>2. /\ c \in ACall /\ c.kind = calls[i].kind /\ c.ids = calls[i].ids
          /\ c.blocking = calls[i].blocking
        BY <1>0 DEF ACall, Ats
    <2>3. calls' = [calls EXCEPT ![i] = c]
        BY <1>3
    <2> HIDE DEF c
    <2> QED
        BY <1>0, <2>2, <2>3, OneCallChanges
<1>4. ASSUME NEW d \in DecisionsMade, RespondRecords(i, d)
      PROVE  \/ CallMoves(i, "done")
             \/ \E ids \in SUBSET (1..revision) :
                    calls' = [calls EXCEPT ![i].at = "running", ![i].ids = ids]
    <2>1. Known(Targets(i, d)) \in SUBSET (1..revision)
        BY TargetsKnown DEF Known
    <2> QED
        BY <1>4, <2>1 DEF RespondRecords, CallMoves
<1>5. CASE AskOpens(i)
    <2>1. next_qid \in Nat /\ revision \in Nat
        BY DEF LedgerTypeOK
    <2> QED
        BY <1>3, <1>5, <2>1 DEF AskOpens
<1>6. {"running", "waiting", "done"} \subseteq Ats
    BY DEF Ats
<1> QED
    BY <1>1, <1>2, <1>4, <1>5, <1>6
       DEF ToolStep, GateHolds, GateRefuses, GateOpens, ShellReturns, AttachReturns, GatedReturns,
           respond_to_updates, RespondUnrecognised, ReplyEnds, ask_user, AskRefused, AskSent,
           AskSendFails, AskWakes, AskTimesOut

--------------------------------------------------------------------------------
(* The base of the invariants holds throughout. *)

LEMMA TypedStep ==
    ASSUME Base, [Next]_vars
    PROVE  Typed'
<1>1. [LedgerNext]_ledgerVars
    BY LedgerStep
<1>2. LedgerTypeOK' /\ revision' <= MaxRevision /\ 1..revision \subseteq 1..revision'
    BY <1>1, TypeStep, EventsStep DEF Base, Typed, LedgerTypeOK
<1>3. ASSUME NEW i \in DOMAIN calls, ToolStep(i)
      PROVE  CallsFit'
    <2>1. pc' = "tools"
        BY <1>3, ToolShape DEF runVars
    <2>2. /\ calls' \in Seq(ACall) /\ DOMAIN calls' = DOMAIN calls
          /\ \A j \in DOMAIN calls \ {i} : calls'[j] = calls[j]
          /\ calls'[i].ids \subseteq 1..revision
        BY <1>3, ToolCalls
    <2>3. \A j \in DOMAIN calls' : calls'[j].ids \subseteq 1..revision
        BY <2>2 DEF Base, Typed, CallsFit
    <2> QED
        BY <1>2, <2>1, <2>2, <2>3 DEF CallsFit
<1>4. ASSUME ModelReturns
      PROVE  CallsFit'
    <2>1. PICK kinds \in Responses \cup {<<>>} : \E batch \in Batches(kinds) : ModelAnswers(batch)
        BY <1>4 DEF ModelReturns
    <2>2. PICK batch \in Batches(kinds) : ModelAnswers(batch)
        BY <2>1
    <2>3. batch \in Seq(ACall) /\ \A i \in DOMAIN batch : batch[i].ids \subseteq DOMAIN events
        BY BatchTyped, ConversationAssumption DEF Base
    <2>4. DOMAIN events \subseteq 1..revision
        BY DEF Base, Typed, LedgerTypeOK
    <2>5. calls' = batch /\ (pc' # "tools" => batch = <<>>)
        BY <2>2 DEF ModelAnswers
    <2> QED
        BY <1>2, <2>3, <2>4, <2>5 DEF CallsFit
<1>5. ASSUME ToolsReturn \/ TimeOut
      PROVE  CallsFit'
    <2>1. calls' = <<>>
        BY <1>5 DEF ToolsReturn, TimeOut
    <2> QED
        BY <2>1 DEF CallsFit
<1>6. ASSUME UNCHANGED calls, UNCHANGED pc \/ pc # "tools"
      PROVE  CallsFit'
    BY <1>2, <1>6 DEF Base, Typed, CallsFit
<1>7. \/ \E i \in DOMAIN calls : ToolStep(i)
      \/ ModelReturns \/ ToolsReturn \/ TimeOut
      \/ UNCHANGED calls /\ (UNCHANGED pc \/ pc # "tools")
    BY DEF Next, RunStep, StartRun, StageInput, FinishRun, Continue, PassEnds, PassFails,
           Cancelled, Ends, Release, SetupFails, InfraFails, Post, vars, toolVars, runVars
<1> QED
    BY <1>2, <1>3, <1>4, <1>5, <1>6, <1>7 DEF Typed

LEMMA PlacementStep ==
    ASSUME Base, [Next]_vars
    PROVE  Placement'
<1> USE DEF Base, Placement
<1>1. ASSUME NEW i \in DOMAIN calls, ToolStep(i)
      PROVE  Placement'
    BY <1>1, ToolShape DEF runVars
<1>2. CASE Post
    <2>1. UNCHANGED <<pc, staged, exit>>
        BY <1>2 DEF Post, runVars
    <2>2. UNCHANGED state
        BY <1>2 DEF Post, Deliver, Accept, FileFollowUp
    <2>3. unpresented \subseteq unpresented'
        <3>1. ASSUME NEW m \in Messages, NEW isReply \in BOOLEAN, Accept(m, isReply)
              PROVE  unpresented \subseteq unpresented'
            <4>1. \A s \in DOMAIN events :
                      \/ s \in DOMAIN events' /\ events'[s] = events[s]
                      \/ s \notin DOMAIN events' /\ events[s].stage = RESOLVED
                BY <3>1, Accepting DEF Typed
            <4> QED
                BY <4>1 DEF unpresented, RECEIVED, RESOLVED
        <3>2. ASSUME NEW m \in Messages, FileFollowUp(m)
              PROVE  unpresented \subseteq unpresented'
            BY <3>2 DEF FileFollowUp, unpresented
        <3> QED
            BY <1>2, <3>1, <3>2 DEF Post, Deliver
    <2> QED
        BY <2>1, <2>2, <2>3
<1>3. CASE StageInput
    BY <1>3 DEF StageInput, ledgerVars, unpresented
<1>4. CASE StartRun \/ ModelReturns \/ ToolsReturn \/ Continue \/ TimeOut
    BY <1>4 DEF StartRun, ModelReturns, ModelAnswers, ToolsReturn, Continue, PassEnds, TimeOut
<1>5. CASE SetupFails \/ FinishRun \/ PassFails \/ Cancelled \/ InfraFails
    BY <1>5 DEF SetupFails, FinishRun, PassFails, Cancelled, InfraFails, Ends, Fallback
<1>6. CASE Release
    BY <1>6 DEF Release, runVars
<1>7. CASE UNCHANGED vars
    BY <1>7 DEF vars, runVars, ledgerVars, unpresented
<1> QED
    BY <1>1, <1>2, <1>3, <1>4, <1>5, <1>6, <1>7 DEF Next, RunStep

LEMMA BudgetStep ==
    ASSUME Base, [Next]_vars
    PROVE  Budget'
<1> USE ConversationAssumption DEF Base, Budget, Active
<1>1. ASSUME NEW i \in DOMAIN calls, ToolStep(i)
      PROVE  Budget'
    BY <1>1, ToolShape DEF runVars, ToolStep
<1>2. ASSUME UNCHANGED <<items, model_calls, pass_calls, turns_left, continuations>>,
             pc' \in Active => pc \in Active, pc' = "inflight" => pass_calls < turns_left
      PROVE  Budget'
    BY <1>2
<1>3. CASE ModelReturns
    <2>1. /\ pc = "inflight" /\ pc' \in {"final", "tools"}
          /\ model_calls' = model_calls + 1 /\ pass_calls' = pass_calls + 1
          /\ items' = items + 1 /\ UNCHANGED <<turns_left, continuations>>
        BY <1>3 DEF ModelReturns, ModelAnswers
    <2> QED
        BY <2>1
<1>4. CASE Continue
    <2>1. /\ pc = "final" /\ pc' = "ready" /\ pass_calls' = 0
          /\ turns_left' = turns_left - pass_calls /\ continuations < MAX_CONTINUATIONS
          /\ continuations' = continuations + 1 /\ items' = items + 1
          /\ UNCHANGED model_calls
        BY <1>4 DEF Continue, PassEnds, TurnsLeft, MayContinue
    <2> QED
        BY <2>1
<1>5. CASE FinishRun
    <2>1. /\ pc = "final" /\ pc' = "over" /\ turns_left' = turns_left - pass_calls
          /\ UNCHANGED <<items, model_calls, pass_calls, continuations>>
        BY <1>5 DEF FinishRun, PassEnds, Ends, TurnsLeft
    <2> QED
        BY <2>1
<1>6. \/ \E i \in DOMAIN calls : ToolStep(i)
      \/ ModelReturns \/ Continue \/ FinishRun
      \/ /\ UNCHANGED <<items, model_calls, pass_calls, turns_left, continuations>>
         /\ pc' \in Active => pc \in Active
         /\ pc' = "inflight" => pass_calls < turns_left
    BY DEF Next, RunStep, StartRun, StageInput, ToolsReturn, PassFails, Cancelled, Ends,
           Release, SetupFails, InfraFails, TimeOut, Post, vars, runVars
<1> QED
    BY <1>1, <1>2, <1>3, <1>4, <1>5, <1>6

--------------------------------------------------------------------------------
(* A question belongs to the call that asks it. *)

LEMMA NumberedStep ==
    ASSUME LedgerTypeOK, QuestionsNumbered, [LedgerNext]_ledgerVars
    PROVE  QuestionsNumbered'
<1> USE DEF QuestionsNumbered
<1>0. /\ next_qid \in Nat \ {0} /\ question \in Question
      /\ \A s \in DOMAIN events : events[s] \in Event
    BY DEF LedgerTypeOK
<1>1. ASSUME NEW m \in Messages, NEW isReply \in BOOLEAN, Accept(m, isReply)
      PROVE  QuestionsNumbered'
    <2>1. NewEvent(m, isReply).question_id < next_qid
        BY <1>0 DEF NewEvent, Question
    <2>2. UNCHANGED <<question, next_qid>>
        BY <1>1 DEF Accept
    <2>3. \A s \in DOMAIN events' :
              events'[s] = NewEvent(m, isReply) \/ (s \in DOMAIN events /\ events'[s] = events[s])
        BY <1>1, Accepting
    <2> QED
        BY <2>1, <2>2, <2>3
<1>2. ASSUME DOMAIN events' = DOMAIN events,
             \A s \in DOMAIN events : events'[s].question_id = events[s].question_id,
             question'.qid < next_qid', next_qid <= next_qid', next_qid' \in Nat
      PROVE  QuestionsNumbered'
    <2>1. \A s \in DOMAIN events : events[s].question_id \in Nat
        BY <1>0 DEF Event
    <2> QED
        BY <1>0, <1>2, <2>1
<1>3. ASSUME NEW seqs, NEW at, MarkPresented(seqs, at)
      PROVE  QuestionsNumbered'
    BY <1>0, <1>2, <1>3 DEF MarkPresented, Event
<1>4. ASSUME NEW seqs, NEW d, RecordDecision(seqs, d)
      PROVE  QuestionsNumbered'
    <2>1. \A s \in DOMAIN events : Settled(events[s], d).question_id = events[s].question_id
        BY <1>0 DEF Settled, Event
    <2> QED
        BY <1>0, <1>2, <1>4, <2>1 DEF RecordDecision, NoQuestion
<1>5. ASSUME NEW seqs, GiveUpOn(seqs)
      PROVE  QuestionsNumbered'
    BY <1>0, <1>2, <1>5 DEF GiveUpOn, Event
<1>6. ASSUME NEW isBlocking, OpenQuestion(isBlocking)
      PROVE  QuestionsNumbered'
    BY <1>0, <1>2, <1>6 DEF OpenQuestion
<1>7. ASSUME UNCHANGED <<events, next_qid>>, question'.qid \in {question.qid, 0}
      PROVE  QuestionsNumbered'
    BY <1>0, <1>2, <1>7
<1>8. ASSUME NEW updated, updated.qid \in {question.qid, 0},
             question' = updated \/ UNCHANGED question, UNCHANGED <<events, next_qid>>
      PROVE  QuestionsNumbered'
    BY <1>7, <1>8
<1>10. /\ NoQuestion.qid = 0
       /\ [question EXCEPT !.posted = TRUE].qid = question.qid
       /\ [question EXCEPT !.posted = TRUE, !.waiting = TRUE].qid = question.qid
       /\ \A late : [question EXCEPT !.waiting = FALSE, !.timed_out = late].qid = question.qid
    BY <1>0 DEF NoQuestion, Question
<1>11. CASE CloseQuestion(question.qid)
    BY <1>8, <1>10, <1>11 DEF CloseQuestion
<1>12. CASE QuestionPosted(question.qid)
    BY <1>8, <1>10, <1>12 DEF QuestionPosted, UpdateQuestion
<1>13. CASE QuestionWaits(question.qid)
    BY <1>8, <1>10, <1>13 DEF QuestionWaits, UpdateQuestion
<1>14. CASE \E late \in BOOLEAN : QuestionWaitEnds(question.qid, late)
    BY <1>8, <1>10, <1>14 DEF QuestionWaitEnds, UpdateQuestion
<1>9. CASE UNCHANGED <<events, question, next_qid>>
    BY <1>9
<1> QED
    BY <1>1, <1>3, <1>4, <1>5, <1>6, <1>9, <1>11, <1>12, <1>13, <1>14
       DEF LedgerNext, Deliver, FileFollowUp, Start, Finalize, Close, ledgerVars

NoAsker == \A i \in DOMAIN calls : ~Asks(i)
Owned   == AskerOwns /\ OneAsker

(* What keeps an asker's claim on its question: the question stays, and what *)
(* may answer it is unread, or was there before.                             *)
LEMMA AskersStay ==
    ASSUME Owned, UNCHANGED question,
           \A j \in DOMAIN calls' :
               calls'[j].kind = "ask" /\ calls'[j].at \in {"running", "waiting"} =>
                   j \in DOMAIN calls /\ calls'[j] = calls[j],
           \A s \in DOMAIN events' :
               \/ events'[s].stage = RECEIVED
               \/ events'[s].question_id # question.qid
               \/ /\ s \in DOMAIN events /\ events'[s].stage = events[s].stage
                  /\ events'[s].question_id = events[s].question_id
    PROVE  Owned'
BY DEF Owned, AskerOwns, OneAsker, Asks, Unanswered

LEMMA OwnedToolStep ==
    ASSUME Base, NEW i \in DOMAIN calls, ToolStep(i)
    PROVE  Owned' /\ OnlyAsksWait'
<1> USE DEF Base, Typed, CallsFit
<1>0. /\ calls[i] \in ACall /\ Owned
      /\ question \in Question /\ next_qid \in Nat \ {0}
      /\ \A s \in DOMAIN events : events[s] \in Event
    BY DEF AsksFit, Owned, LedgerTypeOK
<1>1. ASSUME calls[i].kind # "ask", UNCHANGED question,
             DOMAIN events' = DOMAIN events,
             \A s \in DOMAIN events :
                 /\ events'[s].stage = events[s].stage
                 /\ events'[s].question_id = events[s].question_id
      PROVE  Owned'
    <2>1. /\ DOMAIN calls' = DOMAIN calls /\ calls'[i].kind = calls[i].kind
          /\ \A j \in DOMAIN calls \ {i} : calls'[j] = calls[j]
        BY ToolCalls
    <2>2. \A j \in DOMAIN calls' :
              calls'[j].kind = "ask" /\ calls'[j].at \in {"running", "waiting"} =>
                  j \in DOMAIN calls /\ calls'[j] = calls[j]
        BY <1>1, <2>1
    <2> QED
        BY <1>0, <1>1, <2>2, AskersStay
<1>2. ASSUME GateRefuses(i) \/ GateOpens(i)
      PROVE  Owned'
    <2>1. calls[i].kind # "ask" /\ GiveUpOn(hopeless)
        BY <1>2 DEF GateRefuses, GateOpens, CanCheckGate, Gated
    <2>2. \A s \in DOMAIN events :
              /\ events'[s].stage = events[s].stage
              /\ events'[s].question_id = events[s].question_id
        BY <1>0, <2>1 DEF GiveUpOn, Event
    <2> QED
        BY <1>1, <2>1, <2>2 DEF GiveUpOn
<1>3. ASSUME calls[i].kind # "ask", UNCHANGED ledgerVars
      PROVE  Owned'
    BY <1>1, <1>3 DEF ledgerVars
<1>4. ASSUME NEW d \in DecisionsMade, RespondRecords(i, d)
      PROVE  Owned'
    <2>1. RecordDecision(Targets(i, d), d) /\ calls[i].kind = "respond"
        BY <1>4 DEF RespondRecords, Starts
    <2>2. /\ DOMAIN calls' = DOMAIN calls /\ calls'[i].kind = calls[i].kind
          /\ \A j \in DOMAIN calls \ {i} : calls'[j] = calls[j]
        BY ToolCalls
    <2>3. CASE NoAsker
        <3>1. NoAsker'
            BY <2>1, <2>2, <2>3 DEF NoAsker, Asks
        <3> QED
            BY <3>1 DEF NoAsker, Owned, AskerOwns, OneAsker
    <2>4. CASE ~NoAsker
        <3>1. Unanswered(question.qid)
            BY <1>0, <2>4 DEF NoAsker, Owned, AskerOwns
        <3>2. \A s \in Known(Targets(i, d)) : events[s].question_id # question.qid
            BY <3>1 DEF Unanswered, Known
        <3>3. UNCHANGED question /\ DOMAIN events' = DOMAIN events
            BY <2>1, <3>2 DEF RecordDecision, Answers
        <3>4. \A s \in DOMAIN events : Settled(events[s], d).question_id = events[s].question_id
            BY <1>0 DEF Settled, Event
        <3>5. \A s \in DOMAIN events' :
                  \/ events'[s].question_id # question.qid
                  \/ s \in DOMAIN events /\ events'[s] = events[s]
            BY <2>1, <3>2, <3>3, <3>4 DEF RecordDecision
        <3>6. \A j \in DOMAIN calls' :
                  calls'[j].kind = "ask" /\ calls'[j].at \in {"running", "waiting"} =>
                      j \in DOMAIN calls /\ calls'[j] = calls[j]
            BY <2>1, <2>2
        <3> QED
            BY <1>0, <3>3, <3>5, <3>6, AskersStay
    <2> QED
        BY <2>3, <2>4
<1>5. ASSUME AskOpens(i)
      PROVE  Owned'
    <2>1. NoAsker
        BY <1>0, <1>5 DEF NoAsker, AskOpens, Owned, AskerOwns, NoQuestion
    <2>2. /\ question' = [qid |-> next_qid, blocking |-> calls[i].blocking,
                          after_seq |-> revision, posted |-> FALSE, waiting |-> FALSE,
                          timed_out |-> FALSE]
          /\ UNCHANGED events
        BY <1>5 DEF AskOpens, OpenQuestion
    <2>3. /\ DOMAIN calls' = DOMAIN calls
          /\ \A j \in DOMAIN calls \ {i} : calls'[j] = calls[j]
        BY ToolCalls
    <2>4. calls'[i].qid = next_qid /\ calls'[i].at = "running"
          /\ calls'[i].blocking = calls[i].blocking
        BY <1>0, <1>5 DEF AskOpens, ACall
    <2>5. \A j \in DOMAIN calls' : Asks(j)' => j = i
        BY <2>1, <2>3 DEF NoAsker, Asks
    <2>6. \A s \in DOMAIN events' : events'[s].question_id # question'.qid
        <3>1. \A s \in DOMAIN events : events[s].question_id # next_qid
            BY <1>0 DEF AsksFit, QuestionsNumbered, Event
        <3> QED
            BY <2>2, <3>1
    <2>7. AskerOwns'
        BY <1>0, <2>2, <2>4, <2>5, <2>6 DEF AskerOwns, Unanswered
    <2> QED
        BY <2>5, <2>7 DEF Owned, OneAsker
<1>6. ASSUME AskRefused(i)
      PROVE  Owned'
    <2>1. UNCHANGED <<question, events>> /\ CallMoves(i, "done")
        BY <1>6 DEF AskRefused, ledgerVars
    <2>2. calls'[i].at = "done" /\ DOMAIN calls' = DOMAIN calls
          /\ \A j \in DOMAIN calls \ {i} : calls'[j] = calls[j]
        BY <2>1, CallsMove DEF Ats, Moved
    <2>3. \A j \in DOMAIN calls' :
              calls'[j].kind = "ask" /\ calls'[j].at \in {"running", "waiting"} =>
                  j \in DOMAIN calls /\ calls'[j] = calls[j]
        BY <2>2
    <2> QED
        BY <1>0, <2>1, <2>3, AskersStay
<1>7. ASSUME Asks(i), CallMoves(i, "done")
      PROVE  Owned'
    <2>1. calls'[i].at = "done" /\ DOMAIN calls' = DOMAIN calls
          /\ \A j \in DOMAIN calls \ {i} : calls'[j] = calls[j]
        BY <1>7, CallsMove DEF Ats, Moved
    <2>2. \A j \in DOMAIN calls' : ~Asks(j)'
        BY <1>0, <1>7, <2>1 DEF Owned, OneAsker, Asks
    <2> QED
        BY <2>2 DEF Owned, AskerOwns, OneAsker
<1>8. ASSUME AskSent(i), CallMoves(i, "waiting")
      PROVE  Owned'
    <2>1. /\ calls[i].kind = "ask" /\ calls[i].at = "running" /\ calls[i].blocking
          /\ QuestionWaits(calls[i].qid)
        <3>1. calls'[i].at = "waiting"
            BY <1>8, CallsMove DEF Ats, Moved
        <3>2. ~CallMoves(i, "done")
            <4>1. CallMoves(i, "done") => calls'[i].at = "done"
                BY CallsMove DEF Ats, Moved
            <4> QED
                BY <3>1, <4>1
        <3> QED
            BY <1>8, <3>2 DEF AskSent, Asking
    <2>2. Asks(i) /\ calls[i].qid = question.qid /\ question.qid # 0 /\ ~question.timed_out
          /\ question.blocking /\ Unanswered(question.qid)
        BY <1>0, <2>1 DEF Asks, Owned, AskerOwns
    <2>3. question' = [question EXCEPT !.posted = TRUE, !.waiting = TRUE] /\ UNCHANGED events
        BY <2>1, <2>2 DEF QuestionWaits, UpdateQuestion
    <2>4. /\ question'.qid = question.qid /\ question'.timed_out = question.timed_out
          /\ question'.blocking = question.blocking /\ question'.waiting
        BY <1>0, <2>3 DEF Question
    <2>5. /\ calls'[i].qid = calls[i].qid /\ calls'[i].blocking = calls[i].blocking
          /\ DOMAIN calls' = DOMAIN calls
          /\ \A j \in DOMAIN calls \ {i} : calls'[j] = calls[j]
        BY <1>8, CallsMove DEF Ats, Moved
    <2>6. \A j \in DOMAIN calls' : Asks(j)' => j = i
        BY <1>0, <2>2, <2>5 DEF Owned, OneAsker, Asks
    <2>7. \A s \in DOMAIN events' :
              events'[s].question_id = question'.qid => events'[s].stage = RECEIVED
        BY <2>2, <2>3, <2>4 DEF Unanswered
    <2>8. AskerOwns'
        BY <2>1, <2>2, <2>4, <2>5, <2>6, <2>7 DEF AskerOwns, Unanswered
    <2> QED
        BY <2>6, <2>8 DEF Owned, OneAsker
<1>9. OnlyAsksWait'
    <2>1. /\ DOMAIN calls' = DOMAIN calls /\ calls'[i].kind = calls[i].kind
          /\ \A j \in DOMAIN calls \ {i} : calls'[j] = calls[j]
        BY ToolCalls
    <2>2. calls'[i].at = "waiting" => calls[i].kind = "ask"
        <3>1. ASSUME NEW at \in Ats, CallMoves(i, at)
              PROVE  calls'[i].at = at
            BY <3>1, CallsMove DEF Moved
        <3>2. CASE \E d \in DecisionsMade : RespondRecords(i, d)
            BY <1>0, <3>2 DEF RespondRecords, ACall
        <3>3. {"running", "done"} \subseteq Ats
            BY DEF Ats
        <3> QED
            BY <3>1, <3>2, <3>3
               DEF ToolStep, GateHolds, GateRefuses, GateOpens, ShellReturns, AttachReturns,
                   GatedReturns, respond_to_updates, RespondUnrecognised, ReplyEnds, ask_user,
                   AskOpens, AskRefused, AskSent, AskSendFails, AskWakes, AskTimesOut, Asking,
                   Starts
    <2> QED
        BY <2>1, <2>2 DEF AsksFit, OnlyAsksWait
<1>10. CASE GateHolds(i) \/ ShellReturns(i) \/ AttachReturns(i) \/ ReplyEnds(i)
            \/ RespondUnrecognised(i)
    <2>1. UNCHANGED ledgerVars
        BY <1>10 DEF GateHolds, ShellReturns, AttachReturns, GatedReturns, ReplyEnds,
                     RespondUnrecognised
    <2>2. calls[i].kind # "ask"
        <3>1. GatedReturns(i) => calls[i].kind \in Gated
            BY DEF GatedReturns, LockFits, CallsFit
        <3> QED
            BY <1>10, <3>1 DEF GateHolds, CanCheckGate, Gated, ShellReturns, AttachReturns,
                               ReplyEnds, RespondUnrecognised, Starts
    <2> QED
        BY <1>3, <1>9, <2>1, <2>2
<1>11. CASE AskSent(i) \/ AskSendFails(i) \/ AskWakes(i) \/ AskTimesOut(i)
    <2>1. Asks(i)
        BY <1>11 DEF AskSent, AskSendFails, AskWakes, AskTimesOut, Asking, Asks
    <2>2. CallMoves(i, "done") \/ (AskSent(i) /\ CallMoves(i, "waiting"))
        BY <1>11 DEF AskSent, AskSendFails, AskWakes, AskTimesOut
    <2> QED
        BY <1>7, <1>8, <1>9, <2>1, <2>2
<1> QED
    BY <1>2, <1>4, <1>5, <1>6, <1>9, <1>10, <1>11 DEF ToolStep, respond_to_updates, ask_user

LEMMA LockStep ==
    ASSUME Base, [Next]_vars
    PROVE  LockFits'
<1> USE DEF Base, Typed, CallsFit
<1>0. 0 \notin DOMAIN calls
    OBVIOUS
<1>1. ASSUME NEW i \in DOMAIN calls, ToolStep(i)
      PROVE  LockFits'
    <2>1. /\ DOMAIN calls' = DOMAIN calls /\ calls'[i].kind = calls[i].kind
          /\ \A j \in DOMAIN calls \ {i} : calls'[j] = calls[j]
        BY <1>1, ToolCalls
    <2>2. CASE ShellReturns(i) \/ AttachReturns(i)
        BY <2>2 DEF ShellReturns, AttachReturns, GatedReturns, LockFits
    <2>3. CASE GateOpens(i)
        <3>1. /\ tool_lock' = i /\ calls[i].kind \in Gated /\ CallMoves(i, "running")
            BY <2>3 DEF GateOpens, CanCheckGate
        <3>2. calls'[i].at = "running"
            BY <3>1, CallsMove DEF Ats, Moved
        <3> QED
            BY <2>1, <3>1, <3>2 DEF LockFits
    <2>4. CASE UNCHANGED tool_lock /\ (calls[i].kind \notin Gated \/ tool_lock = 0)
        BY <2>1, <2>4 DEF LockFits
    <2> QED
        BY <1>1, <2>2, <2>3, <2>4
           DEF ToolStep, GateHolds, GateRefuses, CanCheckGate, respond_to_updates, RespondRecords,
               RespondUnrecognised, Starts, ReplyEnds, ask_user, AskOpens, AskRefused, AskSent,
               AskSendFails, AskWakes, AskTimesOut, Asking, Gated
<1>2. CASE ModelReturns
    <2>1. pc = "inflight" /\ UNCHANGED tool_lock
        BY <1>2 DEF ModelReturns, ModelAnswers
    <2>2. calls = <<>>
        BY <2>1
    <2> QED
        BY <2>1, <2>2 DEF LockFits
<1>3. CASE ToolsReturn
    BY <1>3 DEF ToolsReturn, AllReturned, LockFits
<1>4. CASE TimeOut
    BY <1>4 DEF TimeOut, LockFits
<1>5. CASE UNCHANGED toolVars
    BY <1>5 DEF toolVars, LockFits
<1> QED
    BY <1>1, <1>2, <1>3, <1>4, <1>5
       DEF Next, RunStep, StartRun, StageInput, FinishRun, Continue, PassEnds, PassFails,
           Cancelled, Ends, Release, SetupFails, InfraFails, Post, vars

LEMMA AsksStep ==
    ASSUME Base, [Next]_vars
    PROVE  AsksFit'
<1> USE DEF Base, Typed
<1>0. QuestionsNumbered' /\ Owned /\ OnlyAsksWait
    BY NumberedStep, LedgerStep DEF AsksFit, Owned
<1>1. ASSUME NEW i \in DOMAIN calls, ToolStep(i)
      PROVE  Owned' /\ OnlyAsksWait'
    BY <1>1, OwnedToolStep
<1>2. ASSUME ModelReturns
      PROVE  Owned' /\ OnlyAsksWait'
    <2>1. PICK kinds \in Responses \cup {<<>>} : \E batch \in Batches(kinds) : ModelAnswers(batch)
        BY <1>2 DEF ModelReturns
    <2>2. PICK batch \in Batches(kinds) : ModelAnswers(batch)
        BY <2>1
    <2>3. \A i \in DOMAIN batch : batch[i].at = "queued"
        BY BatchTyped, ConversationAssumption
    <2>4. calls' = batch
        BY <2>2 DEF ModelAnswers
    <2> QED
        BY <2>3, <2>4 DEF Owned, AskerOwns, OneAsker, Asks, OnlyAsksWait
<1>3. ASSUME calls' = <<>>
      PROVE  Owned' /\ OnlyAsksWait'
    BY <1>3 DEF Owned, AskerOwns, OneAsker, Asks, OnlyAsksWait
<1>4. ASSUME Post
      PROVE  Owned' /\ OnlyAsksWait'
    <2>1. UNCHANGED <<calls, question>>
        BY <1>4 DEF Post, Deliver, Accept, FileFollowUp, toolVars
    <2>2. ASSUME NEW m \in Messages, NEW isReply \in BOOLEAN, Accept(m, isReply)
          PROVE  \A s \in DOMAIN events' :
                     events'[s].stage = RECEIVED \/ (s \in DOMAIN events /\ events'[s] = events[s])
        <3>1. /\ DOMAIN events' \subseteq DOMAIN events \cup {revision + 1}
              /\ events'[revision + 1].stage = RECEIVED
            <4>1. NewEvent(m, isReply).stage = RECEIVED
                BY DEF NewEvent
            <4> QED
                BY <2>2, <4>1, Accepting
        <3>2. \A s \in DOMAIN events : s \in DOMAIN events' => events'[s] = events[s]
            BY <2>2, Accepting
        <3> QED
            BY <3>1, <3>2
    <2>3. ASSUME NEW m \in Messages, FileFollowUp(m)
          PROVE  UNCHANGED events
        BY <2>3 DEF FileFollowUp
    <2>4. \A s \in DOMAIN events' :
              events'[s].stage = RECEIVED \/ (s \in DOMAIN events /\ events'[s] = events[s])
        BY <1>4, <2>2, <2>3 DEF Post, Deliver
    <2> QED
        BY <1>0, <2>1, <2>4, AskersStay DEF OnlyAsksWait
<1>5. ASSUME UNCHANGED <<calls, question, events>>
      PROVE  Owned' /\ OnlyAsksWait'
    BY <1>0, <1>5, AskersStay DEF OnlyAsksWait
<1>6. \/ \E i \in DOMAIN calls : ToolStep(i)
      \/ ModelReturns \/ Post \/ calls' = <<>>
      \/ UNCHANGED <<calls, question, events>>
    BY DEF Next, RunStep, StartRun, Start, StageInput, ToolsReturn, FinishRun, Continue, PassEnds,
           PassFails, Cancelled, Ends, Finalize, Release, Close, SetupFails, InfraFails, TimeOut,
           vars, toolVars, ledgerVars
<1> QED
    BY <1>0, <1>1, <1>2, <1>3, <1>4, <1>5, <1>6 DEF AsksFit, Owned

LEMMA BaseInit == Init => Base
<1> SUFFICES ASSUME Init PROVE Base
    OBVIOUS
<1> USE ConversationAssumption, RunFitsBound, LimitsAssumption DEF Init, LedgerInit
<1>1. Typed /\ LockFits
    BY TypeInit DEF Typed, CallsFit, LockFits
<1>2. Placement /\ Budget
    BY DEF Placement, Budget, Active
<1>3. AsksFit
    BY DEF AsksFit, QuestionsNumbered, AskerOwns, OneAsker, OnlyAsksWait, Asks, NoQuestion
<1> QED
    BY <1>1, <1>2, <1>3 DEF Base

LEMMA BaseStep == Base /\ [Next]_vars => Base'
BY TypedStep, LockStep, PlacementStep, BudgetStep, AsksStep DEF Base

LEMMA BaseHolds == Spec => []Base
BY BaseInit, BaseStep, PTL DEF Spec

(* A run makes only the calls on its ledger that the ledger allows, whatever *)
(* the model answers and whenever people post.                               *)
THEOREM LedgerImplemented == Spec => LedgerSpec
<1>1. Init => LedgerInit
    BY DEF Init
<1>2. Base /\ [Next]_vars => [LedgerNext]_ledgerVars
    BY LedgerStep
<1> QED
    BY <1>1, <1>2, BaseHolds, PTL DEF Spec, LedgerSpec

(* The report at the end of a run is honest. *)
THEOREM RunsReportHonestly == Spec => []HonestReport
BY LedgerImplemented, HonestlyReported, PTL

(* No run loses guidance it has not settled, compaction included. *)
THEOREM RunsKeepGuidance == Spec => GuidanceKept
BY LedgerImplemented, GuidanceIsKept, PTL

(* Every run keeps the promises made in its thread. *)
THEOREM RunsKeepPromises == Spec => KeepsPromises
BY LedgerImplemented, PromisesKept, PTL

(* All passes of a run together stay within one budget of turns. *)
THEOREM TurnsBounded == Spec => []OneBudget
<1>1. Base => OneBudget
    BY DEF Base, Budget, OneBudget
<1> QED
    BY <1>1, BaseHolds, PTL

(* A run's record stays within its caps, with an entry for a message and an  *)
(* open question that nobody has answered.                                   *)
THEOREM RunsKeepTheirLedger ==
    Spec => []/\ RetainedBound /\ BacklogBound
              /\ OneEntryPerMessage /\ OpenQuestionUnanswered
BY LedgerImplemented, RecordBounded, BacklogBounded, OneEntryEach, OpenMeansUnanswered, PTL

--------------------------------------------------------------------------------
(* While a question is waited on, no gated call starts. *)

GatesStayShut ==
    \A i, j \in DOMAIN calls : calls[j].at = "waiting" => ~GatedCallStarts(i)

LEMMA GatedStart ==
    ASSUME Base, NEW i \in DOMAIN calls, [Next]_vars, GatedCallStarts(i)
    PROVE  GateOpens(i)
<1> USE DEF Base, Typed, CallsFit
<1>0. calls[i].at = "queued" /\ calls[i].kind \in Gated /\ calls'[i].at = "running"
    BY DEF GatedCallStarts
<1>1. ASSUME NEW k \in DOMAIN calls, ToolStep(k)
      PROVE  GateOpens(i)
    <2>1. k = i
        BY <1>0, <1>1, ToolCalls
    <2>2. ~CallMoves(i, "done")
        <3>1. CallMoves(i, "done") => calls'[i].at = "done"
            BY CallsMove DEF Ats, Moved
        <3> QED
            BY <1>0, <3>1
    <2> QED
        BY <1>0, <1>1, <2>1, <2>2
           DEF ToolStep, GateHolds, GateRefuses, ShellReturns, AttachReturns, GatedReturns,
               respond_to_updates, RespondRecords, RespondUnrecognised, Starts, ReplyEnds,
               ask_user, AskOpens, AskRefused, AskSent, AskSendFails, AskWakes, AskTimesOut,
               Asking, Gated
<1>2. CASE ModelReturns
    BY <1>2 DEF ModelReturns, ModelAnswers
<1>3. CASE calls' = <<>> \/ UNCHANGED calls
    BY <1>0, <1>3 DEF GatedCallStarts
<1>4. \/ \E k \in DOMAIN calls : ToolStep(k)
      \/ ModelReturns \/ calls' = <<>> \/ UNCHANGED calls
    BY DEF Next, RunStep, StartRun, StageInput, ToolsReturn, FinishRun, Continue, PassEnds,
           PassFails, Cancelled, Ends, Release, SetupFails, InfraFails, TimeOut, Post,
           vars, toolVars
<1> QED
    BY <1>1, <1>2, <1>3, <1>4

(* A blocking question that is waited on pauses every gated call of its     *)
(* response, for any batch.                                                 *)
THEOREM WaitingPauses == Spec => WaitingPausesGatedCalls
<1>1. ASSUME Base, [Next]_vars, NEW i \in DOMAIN calls, NEW j \in DOMAIN calls,
             calls[j].at = "waiting", GatedCallStarts(i)
      PROVE  FALSE
    <2>1. GateOpens(i)
        BY <1>1, GatedStart
    <2>2. Asks(j)
        BY <1>1 DEF Base, AsksFit, OnlyAsksWait, Asks
    <2>3. question.waiting /\ question.blocking
        BY <1>1, <2>2 DEF Base, AsksFit, AskerOwns
    <2> QED
        BY <2>1, <2>3 DEF GateOpens, AwaitsAnswer
<1>2. Base /\ [Next]_vars => [GatesStayShut]_vars
    BY <1>1 DEF GatesStayShut
<1> QED
    BY <1>2, BaseHolds, PTL DEF Spec, WaitingPausesGatedCalls, GatesStayShut

--------------------------------------------------------------------------------
(* The end of a run. *)

CleanFits ==
    exit = "clean" =>
        /\ state \in {FINALIZING, CLOSED}
        /\ unaddressed = {} /\ (FilesDisagree => nudged_files)

LEMMA CleanStep == Base /\ CleanFits /\ [Next]_vars => CleanFits'
<1> SUFFICES ASSUME Base, CleanFits, [Next]_vars PROVE CleanFits'
    OBVIOUS
<1>1. ASSUME FinishRun
      PROVE  CleanFits'
    <2>1. /\ exit' = "clean" => ~Nudged
          /\ UNCHANGED <<events, change_revision, deliverables>>
          /\ nudged_files' = (nudged_files \/ NudgeFiles)
        BY <1>1 DEF FinishRun, PassEnds, Ends, Finalize
    <2>2. state' \in {FINALIZING, CLOSED}
        BY <1>1 DEF FinishRun, Ends, Finalize, Base, Typed, LedgerTypeOK, States
    <2>3. unaddressed' = unaddressed /\ (FilesDisagree' <=> FilesDisagree)
        BY <2>1 DEF unaddressed, FilesDisagree
    <2> QED
        BY <2>1, <2>2, <2>3 DEF CleanFits, Nudged, NudgeFiles
<1>2. ASSUME pc = "over", UNCHANGED exit, Release \/ Post \/ UNCHANGED vars
      PROVE  CleanFits'
    <2>1. UNCHANGED <<change_revision, deliverables, nudged_files>>
        BY <1>2 DEF Release, Close, Post, Deliver, Accept, FileFollowUp, fileVars, vars, ledgerVars
    <2>2. state' \in {FINALIZING, CLOSED} \/ state \notin {FINALIZING, CLOSED}
        BY <1>2 DEF Release, Close, Post, Deliver, Accept, FileFollowUp, vars, ledgerVars
    <2>3. state \in {FINALIZING, CLOSED} => UNCHANGED events
        <3>1. ASSUME NEW m \in Messages, NEW isReply \in BOOLEAN, Accept(m, isReply)
              PROVE  state \notin {FINALIZING, CLOSED}
            BY <3>1 DEF Accept, Verdict, ACCEPTED, DUPLICATE, NO_RUN, EMPTY, TOO_LONG, FULL,
                        FINISHING, FINALIZING, CLOSED
        <3> QED
            BY <1>2, <3>1 DEF Release, Close, Post, Deliver, FileFollowUp, vars, ledgerVars
    <2> QED
        BY <1>2, <2>1, <2>2, <2>3 DEF CleanFits, unaddressed, FilesDisagree
<1>3. ASSUME exit' # "clean"
      PROVE  CleanFits'
    BY <1>3 DEF CleanFits
<1>4. \/ FinishRun \/ exit' # "clean"
      \/ pc = "over" /\ UNCHANGED exit /\ (Release \/ Post \/ UNCHANGED vars)
    <2>1. ASSUME NEW i \in DOMAIN calls, ToolStep(i)
          PROVE  exit' # "clean"
        BY <2>1, ToolShape DEF runVars, Base, Placement
    <2>2. exit = "clean" => pc = "over"
        BY DEF Base, Placement
    <2> QED
        BY <2>1, <2>2
           DEF Next, RunStep, StartRun, StageInput, ModelReturns, ModelAnswers, ToolsReturn,
               Continue, PassEnds, PassFails, Cancelled, Ends, Fallback, Release, SetupFails,
               InfraFails, TimeOut, Post, vars, runVars
<1> QED
    BY <1>1, <1>2, <1>3, <1>4

(* A run that ends of its own accord leaves no message unanswered, and asked *)
(* about files that disagree, for any number of messages, files and passes.  *)
THEOREM CleanEnds == Spec => []CleanEndAnswersAll
<1>1. Init => CleanFits
    BY DEF Init, CleanFits
<1>2. CleanFits => CleanEndAnswersAll
    BY DEF CleanFits, CleanEndAnswersAll
<1> QED
    BY <1>1, <1>2, CleanStep, BaseHolds, PTL DEF Spec

(* A run that failed had finished no answer: completed is only set with the   *)
(* end of a pass, and no pass ends once the run is over.                      *)
THEOREM AnswersSurvive == Spec => []FinishedAnswerKept
<1>1. ASSUME Base, FinishedAnswerKept, [Next]_vars
      PROVE  FinishedAnswerKept'
    <2>1. exit # "none" <=> pc = "over"
        BY <1>1 DEF Base, Placement
    <2>2. ASSUME NEW i \in DOMAIN calls, ToolStep(i)
          PROVE  UNCHANGED <<exit, completed>>
        BY <2>2, ToolShape DEF runVars
    <2>3. \/ UNCHANGED <<exit, completed>>
          \/ exit' = Fallback /\ UNCHANGED completed
          \/ exit' \notin {"failed"}
        BY <1>1, <2>1, <2>2
           DEF Next, RunStep, StartRun, StageInput, ModelReturns, ModelAnswers, ToolsReturn,
               FinishRun, Continue, PassEnds, PassFails, Cancelled, Ends, Release, SetupFails,
               InfraFails, TimeOut, Post, vars, runVars
    <2> QED
        BY <1>1, <2>3 DEF FinishedAnswerKept, Fallback
<1>2. Init => FinishedAnswerKept
    BY DEF Init, FinishedAnswerKept
<1>3. Base /\ FinishedAnswerKept /\ [Next]_vars => FinishedAnswerKept'
    BY <1>1
<1> QED
    BY <1>2, <1>3, BaseHolds, PTL DEF Spec

(* A message that was decided about has its reply posted, queued, or in the *)
(* hands of the respond_to_updates that decided.                            *)
Answering(s) ==
    \E i \in DOMAIN calls :
        calls[i].kind = "respond" /\ calls[i].at = "running" /\ s \in calls[i].ids
Decided(s) == s \in DOMAIN events /\ events[s].stage \in {ADDRESSED, RESOLVED}
RepliesFit ==
    pc = "cancelling" \/ exit \in {"fallback", "failed", "infra"}
        \/ \A s \in DOMAIN events : Decided(s) => s \in visible \cup unsent_replies \/ Answering(s)

LEMMA RepliesStep == Base /\ RepliesFit /\ [Next]_vars => RepliesFit'
<1> SUFFICES ASSUME Base, RepliesFit, [Next]_vars PROVE RepliesFit'
    OBVIOUS
<1> USE DEF Base, Typed, CallsFit
<1>0. \A s \in DOMAIN events : events[s] \in Event
    BY DEF LedgerTypeOK
<1>1. ASSUME UNCHANGED <<visible, unsent_replies>>, pc # "cancelling",
             exit \notin {"fallback", "failed", "infra"},
             \A s \in DOMAIN events' : Decided(s)' => Decided(s),
             \A s \in DOMAIN events : Answering(s) => Answering(s)'
      PROVE  RepliesFit'
    BY <1>1 DEF RepliesFit, Decided
<1>2. ASSUME NEW i \in DOMAIN calls, ToolStep(i)
      PROVE  RepliesFit'
    <2>1. /\ pc = "tools" /\ UNCHANGED <<pc, exit>>
        BY <1>2, ToolShape DEF runVars
    <2>2. /\ calls' \in Seq(ACall) /\ DOMAIN calls' = DOMAIN calls
          /\ \A j \in DOMAIN calls \ {i} : calls'[j] = calls[j]
          /\ calls'[i].kind = calls[i].kind
        BY <1>2, ToolCalls
    <2>3. exit = "none"
        BY <2>1 DEF Placement
    <2>4. ASSUME calls[i].kind # "respond" \/ calls[i].at # "running", NEW s, Answering(s)
          PROVE  Answering(s)'
        BY <2>2, <2>4 DEF Answering
    <2>5. CASE GateRefuses(i) \/ GateOpens(i)
        <3>1. GiveUpOn(hopeless) /\ UNCHANGED <<visible, unsent_replies>> /\ calls[i].at = "queued"
            BY <2>5 DEF GateRefuses, GateOpens, CanCheckGate, replyVars
        <3>2. \A s \in DOMAIN events' : Decided(s)' => Decided(s)
            BY <1>0, <3>1 DEF GiveUpOn, Decided, Event
        <3> QED
            BY <1>1, <2>1, <2>3, <2>4, <3>1, <3>2
    <2>6. ASSUME NEW d \in DecisionsMade, RespondRecords(i, d)
          PROVE  RepliesFit'
        <3> DEFINE ids == Known(Targets(i, d))
        <3>1. /\ RecordDecision(Targets(i, d), d) /\ calls[i].kind = "respond"
              /\ calls[i].at = "queued" /\ UNCHANGED <<visible, unsent_replies>>
            BY <2>6 DEF RespondRecords, Starts, replyVars
        <3>2. \A s \in DOMAIN events' : Decided(s)' => Decided(s) \/ s \in ids
            BY <3>1 DEF RecordDecision, Decided
        <3>3. ASSUME ids # {}
              PROVE  calls'[i].at = "running" /\ calls'[i].ids = ids
            <4>1. calls[i] \in ACall
                OBVIOUS
            <4> QED
                BY <2>6, <3>3, <4>1 DEF RespondRecords, ACall
        <3> HIDE DEF ids
        <3>4. \A s \in ids : Answering(s)'
            BY <2>2, <3>1, <3>3 DEF Answering
        <3>5. DOMAIN events' = DOMAIN events
            BY <3>1 DEF RecordDecision
        <3> QED
            BY <2>1, <2>3, <2>4, <3>1, <3>2, <3>4, <3>5 DEF RepliesFit
    <2>7. CASE ReplyEnds(i)
        <3>1. /\ visible' \cup unsent_replies' = visible \cup unsent_replies \cup calls[i].ids
              /\ UNCHANGED events
            BY <2>7 DEF ReplyEnds, KeepForClosing, ledgerVars
        <3>2. \A s : Answering(s) => Answering(s)' \/ s \in calls[i].ids
            BY <2>2 DEF Answering
        <3>3. \A s : Decided(s)' <=> Decided(s)
            BY <3>1 DEF Decided
        <3> QED
            BY <2>1, <2>3, <3>1, <3>2, <3>3 DEF RepliesFit
    <2>8. ASSUME UNCHANGED <<events, visible, unsent_replies>>,
                 calls[i].kind # "respond" \/ calls[i].at # "running"
          PROVE  RepliesFit'
        BY <1>1, <2>1, <2>3, <2>4, <2>8 DEF Decided
    <2>9. CASE GateHolds(i) \/ RespondUnrecognised(i) \/ ask_user(i)
        BY <2>8, <2>9 DEF GateHolds, CanCheckGate, Gated, RespondUnrecognised, Starts, ask_user,
                          AskOpens, OpenQuestion, AskRefused, ledgerVars, replyVars
    <2>10. CASE ShellReturns(i) \/ AttachReturns(i)
        <3>1. calls[i].kind # "respond"
            BY <2>10 DEF ShellReturns, AttachReturns, GatedReturns, LockFits, Gated
        <3> QED
            BY <2>8, <2>10, <3>1 DEF ShellReturns, AttachReturns, GatedReturns, ledgerVars, replyVars
    <2>11. CASE AskSent(i) \/ AskSendFails(i) \/ AskWakes(i) \/ AskTimesOut(i)
        BY <2>8, <2>11
           DEF AskSent, AskSendFails, AskWakes, AskTimesOut, Asking, QuestionWaits, QuestionPosted,
               QuestionWaitEnds, UpdateQuestion, CloseQuestion, replyVars
    <2> QED
        BY <1>2, <2>5, <2>6, <2>7, <2>9, <2>10, <2>11 DEF ToolStep, respond_to_updates
<1>3. ASSUME UNCHANGED <<pc, exit>>,
             pc = "cancelling" \/ exit \in {"fallback", "failed", "infra"}
      PROVE  RepliesFit'
    BY <1>3 DEF RepliesFit
<1>4. ASSUME UNCHANGED <<events, calls, visible, unsent_replies>>, pc # "cancelling",
             exit \notin {"fallback", "failed", "infra"}
      PROVE  RepliesFit'
    BY <1>1, <1>4 DEF Decided, Answering
<1>5. CASE ModelReturns
    <2>1. pc = "inflight" /\ MarkPresented(staged, items) /\ UNCHANGED <<visible, unsent_replies>>
        BY <1>5 DEF ModelReturns, ModelAnswers, replyVars
    <2>2. \A s \in DOMAIN events' : Decided(s)' => Decided(s)
        <3>1. \A s \in DOMAIN events :
                  [events[s] EXCEPT !.stage = PRESENTED, !.anchor = items].stage = PRESENTED
            BY <1>0 DEF Event
        <3>2. DOMAIN events' = DOMAIN events
            BY <2>1 DEF MarkPresented
        <3>3. \A s \in DOMAIN events : events'[s].stage = PRESENTED \/ events'[s] = events[s]
            BY <2>1, <3>1 DEF MarkPresented
        <3> QED
            BY <3>2, <3>3 DEF Decided, PRESENTED, ADDRESSED, RESOLVED
    <2>3. \A s : ~Answering(s)
        BY <2>1 DEF Answering
    <2> QED
        BY <1>1, <2>1, <2>2, <2>3 DEF Placement
<1>6. CASE ToolsReturn
    <2>1. \A s : ~Answering(s)
        BY <1>6 DEF ToolsReturn, AllReturned, Answering
    <2> QED
        BY <1>1, <1>6, <2>1 DEF ToolsReturn, Placement, Decided, ledgerVars, replyVars
<1>7. CASE Post
    <2>1. UNCHANGED <<pc, exit, calls, visible, unsent_replies>>
        BY <1>7 DEF Post, runVars, toolVars, replyVars
    <2>2. ASSUME NEW m \in Messages, NEW isReply \in BOOLEAN, Accept(m, isReply)
          PROVE  \A s \in DOMAIN events' : Decided(s)' => Decided(s)
        <3>1. NewEvent(m, isReply).stage = RECEIVED
            BY DEF NewEvent
        <3>2. /\ DOMAIN events' \subseteq DOMAIN events \cup {revision + 1}
              /\ events'[revision + 1].stage = RECEIVED
            BY <2>2, <3>1, Accepting
        <3>3. \A s \in DOMAIN events : s \in DOMAIN events' => events'[s] = events[s]
            BY <2>2, Accepting
        <3> QED
            BY <3>2, <3>3 DEF Decided, RECEIVED, ADDRESSED, RESOLVED
    <2>3. ASSUME NEW m \in Messages, FileFollowUp(m)
          PROVE  \A s \in DOMAIN events' : Decided(s)' => Decided(s)
        BY <2>3 DEF FileFollowUp, Decided
    <2>4. \A s \in DOMAIN events' : Decided(s)' => Decided(s)
        BY <1>7, <2>2, <2>3 DEF Post, Deliver
    <2>5. \A s : Answering(s)' <=> Answering(s)
        BY <2>1 DEF Answering
    <2> QED
        BY <1>1, <1>3, <2>1, <2>4, <2>5
<1>8. CASE StartRun \/ StageInput \/ FinishRun \/ Continue
    BY <1>4, <1>8 DEF StartRun, Start, StageInput, FinishRun, Continue, PassEnds, Ends, Finalize,
                      Placement, ledgerVars, toolVars, replyVars
<1>9. CASE TimeOut
    BY <1>9 DEF TimeOut, RepliesFit
<1>10. CASE SetupFails \/ PassFails \/ Cancelled \/ InfraFails
    BY <1>10 DEF SetupFails, PassFails, Cancelled, InfraFails, Ends, Fallback, RepliesFit
<1>11. CASE Release \/ UNCHANGED vars
    BY <1>3, <1>4, <1>11 DEF Release, Close, vars, ledgerVars, runVars, toolVars, replyVars
<1> QED
    BY <1>2, <1>5, <1>6, <1>7, <1>8, <1>9, <1>10, <1>11 DEF Next, RunStep

(* Between model calls every decision is visible in the thread or kept for  *)
(* the closing message, for any order of replies that post or fail.         *)
THEOREM RepliesReachPeople == Spec => []DecisionsAreVisible
<1>1. Init => RepliesFit
    BY DEF Init, LedgerInit, RepliesFit
<1>2. Base /\ RepliesFit => DecisionsAreVisible
    <2> SUFFICES ASSUME Base, RepliesFit,
                        pc \in {"ready", "inflight", "final"} \/ exit \in {"clean", "bounded"},
                        NEW s \in DOMAIN events, events[s].stage \in {ADDRESSED, RESOLVED}
                 PROVE  s \in visible \cup unsent_replies
        BY DEF DecisionsAreVisible
    <2>1. calls = <<>> /\ pc # "cancelling" /\ exit \notin {"fallback", "failed", "infra"}
        BY DEF Base, Typed, CallsFit, Placement
    <2> QED
        BY <2>1 DEF RepliesFit, Decided, Answering
<1> QED
    BY <1>1, <1>2, RepliesStep, BaseHolds, PTL DEF Spec

--------------------------------------------------------------------------------
(* Giving up on a message. *)

(* What may still be refused over: unanswered, or not posted yet. *)
Tracked(s) == s \in unaddressed \/ s > revision

(* For what may still be refused over, the count is the number of responses *)
(* it was refused in, and the mark is the last of them.                     *)
RefusalsFit ==
    /\ gate_refusals \in [Seqs -> Nat] /\ last_refused_call \in [Seqs -> Nat]
    /\ refused_in \in [Seqs -> SUBSET Nat]
    /\ pc = "tools" => model_calls >= 1
    /\ \A s \in Seqs : refused_in[s] \subseteq 1..model_calls
    /\ \A s \in Seqs : Tracked(s) =>
          /\ gate_refusals[s] = Cardinality(refused_in[s])
          /\ last_refused_call[s] \in refused_in[s] \cup {0}
          /\ \A k \in refused_in[s] : k <= last_refused_call[s]
    /\ GivesUpAfterRefusals

LEMMA RefusalsKept ==
    ASSUME RefusalsFit, UNCHANGED gateVars, model_calls \in Nat, model_calls' \in Nat,
           model_calls <= model_calls', pc' = "tools" => model_calls' >= 1,
           \A s \in Seqs : Tracked(s)' => Tracked(s),
           \A s \in DOMAIN events' : events'[s].outcome = UNACKNOWLEDGED =>
               s \in DOMAIN events /\ events[s].outcome = UNACKNOWLEDGED
    PROVE  RefusalsFit'
<1>1. UNCHANGED <<gate_refusals, last_refused_call, refused_in>>
    BY DEF gateVars
<1>2. \A s \in Seqs : refused_in'[s] \subseteq 1..model_calls'
    BY <1>1 DEF RefusalsFit
<1>3. GivesUpAfterRefusals'
    BY <1>1 DEF RefusalsFit, GivesUpAfterRefusals
<1> QED
    BY <1>1, <1>2, <1>3 DEF RefusalsFit

(* One refusal more, for a message refused over in this response. *)
LEMMA OneMoreRefusal ==
    ASSUME NEW R, NEW n \in Nat, n >= 1, R \subseteq 1..n, NEW last \in R \cup {0},
           \A k \in R : k <= last
    PROVE  /\ IsFiniteSet(R) /\ Cardinality(R) \in Nat
           /\ last = n => R \cup {n} = R
           /\ last # n => Cardinality(R \cup {n}) = Cardinality(R) + 1
<1>1. IsFiniteSet(R)
    <2>1. IsFiniteSet(1..n)
        BY FS_Interval
    <2> QED
        BY <2>1, FS_Subset
<1>2. Cardinality(R) \in Nat
    BY <1>1, FS_CardinalityType
<1>3. ASSUME last # n
      PROVE  n \notin R
    BY <1>3
<1> QED
    BY <1>1, <1>2, <1>3, FS_AddElement

LEMMA GateStep ==
    ASSUME Base, RefusalsFit, NEW i \in DOMAIN calls, GateRefuses(i) \/ GateOpens(i)
    PROVE  RefusalsFit'
<1> USE DEF Base, Typed
<1>0. /\ pc = "tools" /\ UNCHANGED <<pc, model_calls, revision>>
      /\ CountRefusals /\ GiveUpOn(hopeless)
    BY DEF GateRefuses, GateOpens, CanCheckGate, runVars, GiveUpOn
<1>1. model_calls \in Nat /\ model_calls >= 1
    BY <1>0 DEF RefusalsFit, Budget
<1>2. /\ ignored \subseteq Seqs /\ hopeless \subseteq ignored
      /\ \A s \in ignored : s \in unaddressed /\ s <= revision
    BY LimitsAssumption DEF ignored, hopeless, unaddressed, Seqs, LedgerTypeOK
<1>3. refused_in' = [s \in Seqs |-> IF s \in ignored \ hopeless
                                    THEN refused_in[s] \cup {model_calls} ELSE refused_in[s]]
    <2>1. CASE GateRefuses(i)
        BY <2>1 DEF GateRefuses
    <2>2. CASE GateOpens(i)
        <3>1. ignored \ hopeless = {} /\ UNCHANGED refused_in
            BY <2>2 DEF GateOpens
        <3>2. refused_in = [s \in Seqs |-> refused_in[s]]
            BY DEF RefusalsFit
        <3> QED
            BY <3>1, <3>2
    <2> QED
        BY <2>1, <2>2
<1>4. \A s \in ignored :
          /\ refused_in[s] \subseteq 1..model_calls
          /\ gate_refusals[s] = Cardinality(refused_in[s])
          /\ last_refused_call[s] \in refused_in[s] \cup {0}
          /\ \A k \in refused_in[s] : k <= last_refused_call[s]
    BY <1>2 DEF RefusalsFit, Tracked
<1>5. ASSUME NEW s \in ignored
      PROVE  /\ Cardinality(refused_in[s]) \in Nat
             /\ RefusalsWith(s) = Cardinality(refused_in[s] \cup {model_calls})
             /\ RefusalsWith(s) <= Cardinality(refused_in[s]) + 1
    <2>1. /\ Cardinality(refused_in[s]) \in Nat
          /\ last_refused_call[s] = model_calls =>
                 refused_in[s] \cup {model_calls} = refused_in[s]
          /\ last_refused_call[s] # model_calls =>
                 Cardinality(refused_in[s] \cup {model_calls}) = Cardinality(refused_in[s]) + 1
        BY <1>1, <1>4, OneMoreRefusal
    <2>2. CASE last_refused_call[s] = model_calls
        <3>1. RefusalsWith(s) = Cardinality(refused_in[s])
            BY <1>4, <2>2 DEF RefusalsWith
        <3>2. Cardinality(refused_in[s] \cup {model_calls}) = Cardinality(refused_in[s])
            BY <2>1, <2>2
        <3>3. Cardinality(refused_in[s]) \in Nat
            BY <2>1
        <3> QED
            BY <3>1, <3>2, <3>3
    <2>3. CASE last_refused_call[s] # model_calls
        <3>1. RefusalsWith(s) = Cardinality(refused_in[s]) + 1
            BY <1>4, <2>3 DEF RefusalsWith
        <3> QED
            BY <2>1, <2>3, <3>1
    <2> QED
        BY <2>2, <2>3
<1>6. /\ DOMAIN events' = DOMAIN events
      /\ \A s \in DOMAIN events :
             events'[s] = IF s \in hopeless THEN [events[s] EXCEPT !.outcome = UNACKNOWLEDGED]
                          ELSE events[s]
    BY <1>0 DEF GiveUpOn
<1>7. \A s : s \in unaddressed' => s \in unaddressed /\ s \notin hopeless
    <2>1. \A s \in DOMAIN events : events[s] \in Event
        BY DEF LedgerTypeOK
    <2>2. \A s \in hopeless : s \in DOMAIN events => events'[s].outcome = UNACKNOWLEDGED
        BY <1>6, <2>1 DEF Event
    <2> QED
        BY <1>6, <2>2 DEF unaddressed
<1>8. /\ gate_refusals' \in [Seqs -> Nat] /\ last_refused_call' \in [Seqs -> Nat]
      /\ refused_in' \in [Seqs -> SUBSET Nat]
    <2>1. \A s \in Seqs : RefusalsWith(s) \in Nat
        BY DEF RefusalsWith, RefusalsFit
    <2> QED
        BY <1>0, <1>1, <1>3, <2>1 DEF CountRefusals, RefusalsFit
<1>9. \A s \in Seqs : refused_in'[s] \subseteq 1..model_calls'
    BY <1>0, <1>1, <1>3 DEF RefusalsFit
<1>10. ASSUME NEW s \in Seqs, Tracked(s)'
       PROVE  /\ gate_refusals'[s] = Cardinality(refused_in'[s])
              /\ last_refused_call'[s] \in refused_in'[s] \cup {0}
              /\ \A k \in refused_in'[s] : k <= last_refused_call'[s]
    <2>1. Tracked(s) /\ s \notin hopeless
        BY <1>0, <1>2, <1>7, <1>10 DEF Tracked, LedgerTypeOK, Seqs
    <2>2. CASE s \in ignored
        BY <1>0, <1>1, <1>3, <1>4, <1>5, <2>1, <2>2 DEF CountRefusals
    <2>3. CASE s \notin ignored
        BY <1>0, <1>3, <2>1, <2>3 DEF CountRefusals, RefusalsFit
    <2> QED
        BY <2>2, <2>3
<1>11. GivesUpAfterRefusals'
    <2> SUFFICES ASSUME NEW s \in DOMAIN events', events'[s].outcome = UNACKNOWLEDGED
                 PROVE  Cardinality(refused_in'[s]) >= MAX_GATE_REFUSALS
        BY DEF GivesUpAfterRefusals
    <2>1. s \in Seqs
        BY <1>6, LimitsAssumption DEF LedgerTypeOK, Seqs
    <2>2. CASE s \in hopeless
        <3>1. refused_in'[s] = refused_in[s] /\ RefusalsWith(s) > MAX_GATE_REFUSALS /\ s \in ignored
            BY <1>3, <2>1, <2>2 DEF hopeless
        <3>2. RefusalsWith(s) \in Nat
            BY <2>1, <1>1 DEF RefusalsWith, RefusalsFit
        <3>3. /\ Cardinality(refused_in[s]) \in Nat
              /\ RefusalsWith(s) <= Cardinality(refused_in[s]) + 1
            BY <1>5, <3>1
        <3>4. MAX_GATE_REFUSALS \in Nat
            BY ConversationAssumption
        <3>5. Cardinality(refused_in[s]) >= MAX_GATE_REFUSALS
            BY <3>1, <3>2, <3>3, <3>4
        <3> QED
            BY <3>1, <3>5
    <2>3. CASE s \notin hopeless
        <3>1. s \in DOMAIN events /\ events[s].outcome = UNACKNOWLEDGED
            BY <1>6, <2>3
        <3>2. s \notin ignored
            BY <3>1 DEF ignored, unaddressed
        <3> QED
            BY <1>3, <2>1, <3>1, <3>2 DEF RefusalsFit, GivesUpAfterRefusals
    <2> QED
        BY <2>2, <2>3
<1> QED
    BY <1>0, <1>1, <1>8, <1>9, <1>10, <1>11 DEF RefusalsFit

LEMMA RefusalsStep == Base /\ RefusalsFit /\ [Next]_vars => RefusalsFit'
<1> SUFFICES ASSUME Base, RefusalsFit, [Next]_vars PROVE RefusalsFit'
    OBVIOUS
<1> USE DEF Base, Typed
<1>0. model_calls \in Nat /\ \A s \in DOMAIN events : events[s] \in Event
    BY DEF Budget, LedgerTypeOK
<1>2. ASSUME UNCHANGED <<gateVars, events, revision, model_calls>>, UNCHANGED pc \/ pc' # "tools"
      PROVE  RefusalsFit'
    <2>1. \A s \in Seqs : Tracked(s)' => Tracked(s)
        BY <1>2 DEF Tracked, unaddressed
    <2>2. pc' = "tools" => model_calls' >= 1
        BY <1>2 DEF RefusalsFit
    <2> QED
        BY <1>0, <1>2, <2>1, <2>2, RefusalsKept
<1>3. CASE ModelReturns
    <2>1. /\ MarkPresented(staged, items) /\ UNCHANGED gateVars
          /\ model_calls' = model_calls + 1
        BY <1>3 DEF ModelReturns, ModelAnswers
    <2>2. \A s \in DOMAIN events :
              LET e == [events[s] EXCEPT !.stage = PRESENTED, !.anchor = items]
              IN  e.stage = PRESENTED /\ e.outcome = events[s].outcome
        BY <1>0 DEF Event
    <2>3. DOMAIN events' = DOMAIN events /\ UNCHANGED revision
        BY <2>1 DEF MarkPresented
    <2>4. \A s \in DOMAIN events :
              /\ events'[s].outcome = events[s].outcome
              /\ events'[s] = events[s] \/ events[s].stage = RECEIVED
        BY <2>1, <2>2 DEF MarkPresented
    <2>5. \A s \in Seqs : Tracked(s)' => Tracked(s)
        BY <2>3, <2>4 DEF Tracked, unaddressed
    <2> QED
        BY <1>0, <2>1, <2>3, <2>4, <2>5, RefusalsKept
<1>4. ASSUME NEW i \in DOMAIN calls, NEW d \in DecisionsMade, RespondRecords(i, d)
      PROVE  RefusalsFit'
    <2>1. RecordDecision(Targets(i, d), d) /\ UNCHANGED <<gateVars, pc, model_calls>>
        BY <1>4 DEF RespondRecords, runVars
    <2>2. \A s \in DOMAIN events :
              /\ Settled(events[s], d).stage \in {ADDRESSED, RESOLVED}
              /\ Settled(events[s], d).outcome # UNACKNOWLEDGED
        <3>1. DECISIONS[d] \in {ADDRESSED, RESOLVED} /\ d # UNACKNOWLEDGED
            BY DecisionStages DEF Outcomes, UNACKNOWLEDGED
        <3> QED
            BY <1>0, <3>1 DEF Settled, Event
    <2>3. DOMAIN events' = DOMAIN events /\ UNCHANGED revision
        BY <2>1 DEF RecordDecision
    <2>4. \A s \in DOMAIN events :
              \/ events'[s] = events[s]
              \/ /\ events'[s].stage \in {ADDRESSED, RESOLVED}
                 /\ events'[s].outcome # UNACKNOWLEDGED
        BY <2>1, <2>2 DEF RecordDecision
    <2>5. \A s \in Seqs : Tracked(s)' => Tracked(s)
        BY <2>3, <2>4 DEF Tracked, unaddressed, RECEIVED, PRESENTED, ADDRESSED, RESOLVED
    <2>6. pc' = "tools" => model_calls' >= 1
        BY <2>1 DEF RefusalsFit
    <2> QED
        BY <1>0, <2>1, <2>3, <2>4, <2>5, <2>6, RefusalsKept
<1>5. CASE Post
    <2>1. UNCHANGED <<gateVars, pc, model_calls>>
        BY <1>5 DEF Post, runVars
    <2>2. ASSUME NEW m \in Messages, NEW isReply \in BOOLEAN, Accept(m, isReply)
          PROVE  RefusalsFit'
        <3>1. NewEvent(m, isReply).outcome # UNACKNOWLEDGED
            BY DEF NewEvent, NoOutcome, UNACKNOWLEDGED
        <3>2. /\ revision' = revision + 1
              /\ DOMAIN events' \subseteq DOMAIN events \cup {revision + 1}
              /\ events'[revision + 1].outcome # UNACKNOWLEDGED
            BY <2>2, <3>1, Accepting
        <3>3. \A s \in DOMAIN events : s \in DOMAIN events' => events'[s] = events[s]
            BY <2>2, Accepting
        <3>4. revision \in Nat
            BY DEF LedgerTypeOK
        <3>5. \A s \in Seqs : Tracked(s)' => Tracked(s)
            BY <3>2, <3>3, <3>4 DEF Tracked, unaddressed, Seqs
        <3>6. pc' = "tools" => model_calls' >= 1
            BY <2>1 DEF RefusalsFit
        <3> QED
            BY <1>0, <2>1, <3>2, <3>3, <3>5, <3>6, RefusalsKept
    <2>3. ASSUME NEW m \in Messages, FileFollowUp(m)
          PROVE  RefusalsFit'
        BY <1>2, <2>1, <2>3 DEF FileFollowUp
    <2> QED
        BY <1>5, <2>2, <2>3 DEF Post, Deliver
<1>6. ASSUME NEW i \in DOMAIN calls, ToolStep(i)
      PROVE  RefusalsFit'
    <2>1. UNCHANGED <<pc, model_calls>>
        BY <1>6, ToolShape DEF runVars
    <2>2. CASE GateRefuses(i) \/ GateOpens(i)
        BY <2>2, GateStep
    <2>3. CASE UNCHANGED <<gateVars, events, revision>>
        BY <1>2, <2>1, <2>3
    <2>4. \/ GateRefuses(i) \/ GateOpens(i)
          \/ \E d \in DecisionsMade : RespondRecords(i, d)
          \/ UNCHANGED <<gateVars, events, revision>>
        BY <1>6
           DEF ToolStep, GateHolds, ShellReturns, AttachReturns, GatedReturns, respond_to_updates,
               RespondUnrecognised, ReplyEnds, ask_user, AskOpens, OpenQuestion, AskRefused,
               AskSent, QuestionWaits, QuestionPosted, UpdateQuestion, AskSendFails, CloseQuestion,
               AskWakes, AskTimesOut, QuestionWaitEnds, Asking, ledgerVars
    <2> QED
        BY <1>4, <2>2, <2>3, <2>4
<1>7. \/ \E i \in DOMAIN calls : ToolStep(i)
      \/ ModelReturns \/ Post
      \/ UNCHANGED <<gateVars, events, revision, model_calls>> /\ (UNCHANGED pc \/ pc' # "tools")
    BY DEF Next, RunStep, StartRun, Start, StageInput, ToolsReturn, FinishRun, Continue, PassEnds,
           PassFails, Cancelled, Ends, Finalize, Release, Close, SetupFails, InfraFails, TimeOut,
           QuestionWaitEnds, UpdateQuestion, vars, runVars, ledgerVars
<1> QED
    BY <1>2, <1>3, <1>5, <1>6, <1>7

(* The gate gives up on a message only after the model had that many        *)
(* responses refused over it, for any limit and any batches.                *)
THEOREM GivingUpIsEarned == Spec => []GivesUpAfterRefusals
<1>1. Init => RefusalsFit
    <2> SUFFICES ASSUME Init PROVE RefusalsFit
        OBVIOUS
    <2>1. Cardinality({}) = 0
        BY FS_EmptySet
    <2>2. GivesUpAfterRefusals
        BY DEF Init, LedgerInit, GivesUpAfterRefusals
    <2>3. \A s \in Seqs : refused_in[s] = {} /\ gate_refusals[s] = 0 /\ last_refused_call[s] = 0
        BY DEF Init
    <2> QED
        BY <2>1, <2>2, <2>3 DEF Init, RefusalsFit
<1>2. RefusalsFit => GivesUpAfterRefusals
    BY DEF RefusalsFit
<1> QED
    BY <1>1, <1>2, RefusalsStep, BaseHolds, PTL DEF Spec

(***************************************************************************)
(* The input in order                                                      *)
(***************************************************************************)

(* R orders S: nothing comes before itself, and of any two one is first.    *)
Orders(R, S) ==
    /\ \A x \in S : <<x, x>> \notin R
    /\ \A x, y, z \in S : <<x, y>> \in R /\ <<y, z>> \in R => <<x, z>> \in R
    /\ \A x, y \in S : x # y => <<x, y>> \in R \/ <<y, x>> \in R

Before(R, S, x) == {y \in S : <<y, x>> \in R}

(* How many come before an element of a finite set tells it apart.          *)
LEMMA RankTellsApart ==
    ASSUME NEW S, IsFiniteSet(S), NEW R, Orders(R, S), NEW x \in S, NEW y \in S, <<x, y>> \in R
    PROVE  /\ Cardinality(Before(R, S, x)) \in Nat /\ Cardinality(Before(R, S, y)) \in Nat
           /\ Cardinality(Before(R, S, x)) < Cardinality(Before(R, S, y))
<1>1. Before(R, S, y) \in SUBSET S
    BY DEF Before
<1>2. IsFiniteSet(Before(R, S, y))
    BY <1>1, FS_Subset
<1>3. Before(R, S, x) \in SUBSET Before(R, S, y)
    BY DEF Before, Orders
<1>4. x \in Before(R, S, y) /\ x \notin Before(R, S, x)
    BY DEF Before, Orders
<1>5. /\ IsFiniteSet(Before(R, S, x))
      /\ Cardinality(Before(R, S, x)) <= Cardinality(Before(R, S, y))
      /\ Cardinality(Before(R, S, y)) # Cardinality(Before(R, S, x))
    BY <1>2, <1>3, <1>4, FS_Subset
<1>6. Cardinality(Before(R, S, x)) \in Nat /\ Cardinality(Before(R, S, y)) \in Nat
    BY <1>2, <1>5, FS_CardinalityType
<1> QED
    BY <1>5, <1>6

LEMMA RankBelowSize ==
    ASSUME NEW S, IsFiniteSet(S), NEW R, Orders(R, S), NEW x \in S
    PROVE  /\ Cardinality(S) \in Nat /\ Cardinality(Before(R, S, x)) \in Nat
           /\ Cardinality(Before(R, S, x)) + 1 \in 1..Cardinality(S)
<1>1. Before(R, S, x) \in SUBSET S /\ x \notin Before(R, S, x)
    BY DEF Before, Orders
<1>2. /\ IsFiniteSet(Before(R, S, x))
      /\ Cardinality(Before(R, S, x)) <= Cardinality(S)
      /\ Cardinality(S) # Cardinality(Before(R, S, x))
    BY <1>1, FS_Subset
<1>3. Cardinality(Before(R, S, x)) \in Nat /\ Cardinality(S) \in Nat
    BY <1>2, FS_CardinalityType
<1> QED
    BY <1>2, <1>3

(* So every number up to the size is the rank of some element.              *)
LEMMA EachRankTaken ==
    ASSUME NEW S, IsFiniteSet(S), NEW R, Orders(R, S)
    PROVE  \A k \in 1..Cardinality(S) : \E x \in S : Cardinality(Before(R, S, x)) = k - 1
<1> DEFINE N == 1..Cardinality(S)
           place == [x \in S |-> Cardinality(Before(R, S, x)) + 1]
<1>1. Cardinality(S) \in Nat
    BY FS_CardinalityType
<1>2. IsFiniteSet(N) /\ Cardinality(N) = Cardinality(S)
    <2>1. 1 \in Int /\ Cardinality(S) \in Int
        BY <1>1
    <2>2. IsFiniteSet(N)
          /\ Cardinality(N) = IF 1 > Cardinality(S) THEN 0 ELSE Cardinality(S) - 1 + 1
        BY <2>1, FS_Interval, Zenon
    <2> QED
        BY <1>1, <2>2
<1>3. place \in [S -> N]
    BY RankBelowSize
<1>4. \A x, y \in S : place[x] = place[y] => x = y
    <2> SUFFICES ASSUME NEW x \in S, NEW y \in S, <<x, y>> \in R
                 PROVE  place[x] # place[y]
        BY DEF Orders
    <2> DEFINE a == Cardinality(Before(R, S, x))
               b == Cardinality(Before(R, S, y))
    <2>1. a \in Nat /\ b \in Nat /\ a < b
        BY RankTellsApart
    <2>2. place[x] = a + 1 /\ place[y] = b + 1
        OBVIOUS
    <2> HIDE DEF a, b, place
    <2> QED
        BY <2>1, <2>2
<1>5. place \in Surjection(S, N)
    <2> HIDE DEF place, N
    <2>1. place \in Injection(S, N)
        BY <1>3, <1>4 DEF Injection, IsInjective
    <2> QED
        BY <1>2, <2>1, FS_Injection
<1>6. \A k \in N : \E x \in S : place[x] = k
    <2> HIDE DEF place, N
    <2> QED
        BY <1>5 DEF Surjection
<1> SUFFICES ASSUME NEW k \in N
             PROVE  \E x \in S : Cardinality(Before(R, S, x)) = k - 1
    OBVIOUS
<1>7. PICK x \in S : place[x] = k
    BY <1>6
<1>8. Cardinality(Before(R, S, x)) + 1 = k /\ Cardinality(Before(R, S, x)) \in Nat
    BY <1>7, RankBelowSize
<1> QED
    BY <1>8

Ranked(R, S, t) ==
    /\ t \in [1..Cardinality(S) -> S]
    /\ \A k \in 1..Cardinality(S) : Cardinality(Before(R, S, t[k])) = k - 1
Sorted(R, S, t) ==
    /\ \A i, j \in 1..Cardinality(S) : i < j => <<t[i], t[j]>> \in R
    /\ \A x \in S : \E k \in 1..Cardinality(S) : t[k] = x

(* Listed by rank, a finite set is all there, once, and in order.           *)
LEMMA RanksSort ==
    ASSUME NEW S, IsFiniteSet(S), NEW R, Orders(R, S),
           NEW t, Ranked(R, S, t)
    PROVE  Sorted(R, S, t)
<1> USE DEF Ranked
<1>0. Cardinality(S) \in Nat
    BY FS_CardinalityType
<1> DEFINE N == 1..Cardinality(S)
<1>1. ASSUME NEW i \in N, NEW j \in N, i < j
      PROVE  <<t[i], t[j]>> \in R
    <2>1. t[i] \in S /\ t[j] \in S
          /\ Cardinality(Before(R, S, t[i])) = i - 1 /\ Cardinality(Before(R, S, t[j])) = j - 1
        OBVIOUS
    <2>2. i \in Int /\ j \in Int
        OBVIOUS
    <2>3. t[i] # t[j]
        BY <1>1, <2>1, <2>2
    <2>4. <<t[j], t[i]>> \notin R
        <3> SUFFICES ASSUME <<t[j], t[i]>> \in R
                     PROVE  FALSE
            OBVIOUS
        <3>1. j - 1 < i - 1
            BY <2>1, RankTellsApart
        <3> QED
            BY <1>1, <2>2, <3>1
    <2> QED
        BY <2>1, <2>3, <2>4 DEF Orders
<1>2. ASSUME NEW x \in S
      PROVE  \E k \in N : t[k] = x
    <2> DEFINE k == Cardinality(Before(R, S, x)) + 1
    <2>1. k \in N /\ Cardinality(Before(R, S, x)) = k - 1
        BY RankBelowSize
    <2>2. t[k] \in S /\ Cardinality(Before(R, S, t[k])) = k - 1
        BY <2>1
    <2> HIDE DEF k
    <2>3. <<t[k], x>> \notin R
        <3> SUFFICES ASSUME <<t[k], x>> \in R
                     PROVE  FALSE
            OBVIOUS
        <3>1. k - 1 < k - 1
            BY <2>1, <2>2, RankTellsApart
        <3> QED
            BY <2>1, <3>1
    <2>4. <<x, t[k]>> \notin R
        <3> SUFFICES ASSUME <<x, t[k]>> \in R
                     PROVE  FALSE
            OBVIOUS
        <3>1. k - 1 < k - 1
            BY <2>1, <2>2, RankTellsApart
        <3> QED
            BY <2>1, <3>1
    <2> QED
        BY <2>1, <2>2, <2>3, <2>4 DEF Orders
<1> QED
    BY <1>1, <1>2 DEF Sorted

(* The input holds every item and every event once, each in its place.      *)
LEMMA PlacedSorts ==
    ASSUME items \in Nat, NEW at, IsFiniteSet(DOMAIN at), DOMAIN at \subseteq Nat \ {0},
           \A s \in DOMAIN at : at[s] \in Nat
    PROVE  LET input == Items \cup DOMAIN at
               t     == Placed(at)
           IN  /\ t \in Seq(input) /\ ToSet(t) = input
               /\ \A i, j \in DOMAIN t : i < j =>
                      Precedes(at, t[i], t[j]) /\ ~Precedes(at, t[j], t[i]) /\ t[i] # t[j]
<1> DEFINE input == Items \cup DOMAIN at
           n == Cardinality(input)
           t == Placed(at)
           R == {p \in input \X input : Precedes(at, p[1], p[2])}
<1>1. \A x \in input : x \in Int /\ PlaceOf(at, x) \in Int
    <2>1. \A x \in Items : x \in Int /\ x < 0
        BY DEF Items
    <2>2. \A x \in DOMAIN at : x \in Int /\ ~(x < 0) /\ at[x] \in Int
        OBVIOUS
    <2> QED
        BY <2>1, <2>2 DEF PlaceOf
<1>2. IsFiniteSet(input)
    <2>1. IsFiniteSet(1..items)
        BY FS_Interval
    <2>2. IsFiniteSet({-i : i \in 1..items})
        <3> DEFINE f == [i \in 1..items |-> -i]
        <3>1. f \in Surjection(1..items, {-i : i \in 1..items})
            BY DEF Surjection
        <3> QED
            BY <2>1, <3>1, FS_Surjection
    <2> QED
        BY <2>2, FS_Union DEF Items
<1>3. n \in Nat
    BY <1>2, FS_CardinalityType
<1>4. \A x, y \in input : <<x, y>> \in R <=> Precedes(at, x, y)
    OBVIOUS
<1>5. /\ \A x \in input : ~Precedes(at, x, x)
      /\ \A x, y, z \in input : Precedes(at, x, y) /\ Precedes(at, y, z) => Precedes(at, x, z)
      /\ \A x, y \in input : x # y => Precedes(at, x, y) \/ Precedes(at, y, x)
    <2> HIDE DEF input
    <2> QED
        BY <1>1 DEF Precedes
<1> HIDE DEF R
<1>6. Orders(R, input)
    BY <1>4, <1>5 DEF Orders
<1>7. \A x \in input : Before(R, input, x) = {y \in input : Precedes(at, y, x)}
    BY <1>4 DEF Before
<1>8. t = [k \in 1..n |-> CHOOSE x \in input :
                              Cardinality({y \in input : Precedes(at, y, x)}) = k - 1]
    BY DEF Placed
<1> HIDE DEF t, input
<1>9. \A k \in 1..n : /\ t[k] \in input
                      /\ Cardinality({y \in input : Precedes(at, y, t[k])}) = k - 1
    <2> TAKE k \in 1..n
    <2>1. PICK x \in input : Cardinality(Before(R, input, x)) = k - 1
        BY <1>2, <1>6, EachRankTaken
    <2>2. Cardinality({y \in input : Precedes(at, y, x)}) = k - 1
        BY <1>7, <2>1
    <2> QED
        BY <1>8, <2>2
<1>10. t \in [1..n -> input]
    BY <1>8, <1>9
<1>11. \A k \in 1..n : Cardinality(Before(R, input, t[k])) = k - 1
    BY <1>7, <1>9
<1>12. /\ \A i, j \in 1..n : i < j => <<t[i], t[j]>> \in R
       /\ \A x \in input : \E k \in 1..n : t[k] = x
    <2>1. Ranked(R, input, t)
        BY <1>10, <1>11 DEF Ranked
    <2>2. Sorted(R, input, t)
        BY <1>2, <1>6, <2>1, RanksSort
    <2> QED
        BY <2>2 DEF Sorted
<1>13. t \in Seq(input) /\ DOMAIN t = 1..n
    BY <1>3, <1>10
<1>14. ToSet(t) = input
    BY <1>10, <1>12, <1>13 DEF ToSet
<1>15. ASSUME NEW i \in 1..n, NEW j \in 1..n, i < j
       PROVE  Precedes(at, t[i], t[j]) /\ ~Precedes(at, t[j], t[i]) /\ t[i] # t[j]
    <2>1. t[i] \in input /\ t[j] \in input /\ Precedes(at, t[i], t[j])
        BY <1>4, <1>10, <1>12, <1>15
    <2> QED
        BY <1>5, <2>1
<1> QED
    BY <1>13, <1>14, <1>15 DEF input, t

--------------------------------------------------------------------------------
(* What the latest call was sent, and what it commits the next one to. *)

(* What has been shown, or will have been when the call in flight completes. *)
Shown == presented \cup (IF pc = "inflight" THEN staged ELSE {})

(* The item each thing in the input comes after, as far as that is decided.  *)
Spot(x) == IF x < 0 THEN -x ELSE IF x \in presented THEN events[x].anchor ELSE items

Earlier(x, y) == Spot(x) < Spot(y) \/ (Spot(x) = Spot(y) /\ x < y)

Sending == {"setup", "ready", "inflight", "tools", "final"}

(* Everything shown is anchored before the end, so what comes later comes    *)
(* after it.                                                                 *)
AnchorsFit == \A s \in presented : events[s].anchor \in 0..(items - 1)
SentTyped ==
    \A n \in DOMAIN sent : sent[n] \in Int /\ 0 <= sent[n] + items /\ sent[n] <= revision
(* While the run goes on, what is shown and what was sent are the same.      *)
ShownSent == Shown \subseteq ToSet(sent)
SentShown == pc \in Sending => ToSet(sent) \cap DOMAIN events \subseteq Shown
(* And it was sent in the order in which it will be sent again.              *)
SentInOrder ==
    \A n \in DOMAIN sent, y \in Items \cup Shown :
        sent[n] \in Items \cup Shown /\ Earlier(y, sent[n]) => \E m \in 1..(n - 1) : sent[m] = y

InputFits == AnchorsFit /\ SentTyped /\ ShownSent /\ SentShown /\ SentInOrder

(* Nothing is shown, nor taken back, but by a model's answer.                *)
Unread ==
    /\ revision <= revision'
    /\ \A s \in DOMAIN events' :
          \/ /\ s \in DOMAIN events /\ events'[s].anchor = events[s].anchor
             /\ events'[s].stage = RECEIVED <=> events[s].stage = RECEIVED
          \/ s > revision /\ events'[s].stage = RECEIVED

LEMMA UnreadWhen ==
    ASSUME Base,
           \/ \E m \in Messages, isReply \in BOOLEAN : Deliver(m, isReply)
           \/ \E seqs \in SUBSET (1..revision), d \in DecisionsMade : RecordDecision(seqs, d)
           \/ \E seqs \in SUBSET (unaddressed \ unpresented) : GiveUpOn(seqs)
           \/ UNCHANGED <<revision, events>>
    PROVE  Unread
<1>0. LedgerTypeOK /\ revision \in Nat /\ \A s \in DOMAIN events : events[s] \in Event
    BY DEF Base, Typed, LedgerTypeOK
<1>1. ASSUME NEW m \in Messages, NEW isReply \in BOOLEAN, Accept(m, isReply)
      PROVE  Unread
    <2>1. NewEvent(m, isReply).stage = RECEIVED
        BY DEF NewEvent
    <2> QED
        BY <1>0, <1>1, <2>1, Accepting DEF Unread
<1>2. ASSUME NEW m \in Messages, FileFollowUp(m)
      PROVE  Unread
    BY <1>0, <1>2 DEF FileFollowUp, Unread
<1>3. ASSUME NEW seqs \in SUBSET (1..revision), NEW d \in DecisionsMade, RecordDecision(seqs, d)
      PROVE  Unread
    <2>1. ASSUME NEW e \in Event
          PROVE  /\ Settled(e, d).anchor = e.anchor /\ Settled(e, d).stage # RECEIVED
        BY DecisionStages DEF Event, Settled, RECEIVED, ADDRESSED, RESOLVED
    <2>2. \A s \in Known(seqs) : events[s].stage # RECEIVED
        BY DEF Known
    <2>3. UNCHANGED revision /\ events' = [s \in DOMAIN events |->
              IF s \in Known(seqs) THEN Settled(events[s], d) ELSE events[s]]
        BY <1>3 DEF RecordDecision
    <2> QED
        BY <1>0, <2>1, <2>2, <2>3 DEF Unread
<1>4. ASSUME NEW seqs \in SUBSET (unaddressed \ unpresented), GiveUpOn(seqs)
      PROVE  Unread
    <2>1. ASSUME NEW e \in Event
          PROVE  LET f == [e EXCEPT !.outcome = UNACKNOWLEDGED]
                 IN  f.anchor = e.anchor /\ f.stage = e.stage
        BY DEF Event
    <2>2. UNCHANGED revision /\ events' = [s \in DOMAIN events |->
              IF s \in seqs THEN [events[s] EXCEPT !.outcome = UNACKNOWLEDGED] ELSE events[s]]
        BY <1>4 DEF GiveUpOn
    <2> QED
        BY <1>0, <2>1, <2>2 DEF Unread
<1>5. CASE UNCHANGED <<revision, events>>
    BY <1>0, <1>5 DEF Unread
<1> QED
    BY <1>1, <1>2, <1>3, <1>4, <1>5 DEF Deliver

LEMMA UnreadStep ==
    ASSUME Base, [Next]_vars, ~ModelReturns
    PROVE  Unread
<1>1. ASSUME NEW i \in DOMAIN calls, ToolStep(i)
      PROVE  Unread
    <2>1. CASE GateRefuses(i) \/ GateOpens(i)
        BY <2>1, UnreadWhen, HopelessWereShown DEF GateRefuses, GateOpens
    <2>2. ASSUME NEW d \in DecisionsMade, RespondRecords(i, d)
          PROVE  Unread
        BY <2>2, TargetsKnown, UnreadWhen DEF RespondRecords, Base
    <2>3. CASE UNCHANGED <<revision, events>>
        BY <2>3, UnreadWhen
    <2> QED
        BY <1>1, <2>1, <2>2, <2>3
           DEF ToolStep, GateHolds, ShellReturns, AttachReturns, GatedReturns, respond_to_updates,
               RespondUnrecognised, ReplyEnds, ask_user, AskOpens, AskRefused, AskSent, Asking,
               AskSendFails, AskWakes, AskTimesOut, OpenQuestion, CloseQuestion, QuestionWaits,
               QuestionPosted, QuestionWaitEnds, UpdateQuestion, ledgerVars
<1>2. CASE Post
    BY <1>2, UnreadWhen DEF Post
<1>3. CASE UNCHANGED <<revision, events>>
    BY <1>3, UnreadWhen
<1> QED
    BY <1>1, <1>2, <1>3
       DEF Next, RunStep, StartRun, StageInput, ToolsReturn, FinishRun, Continue, PassEnds,
           PassFails, Cancelled, Ends, Release, SetupFails, InfraFails, TimeOut, Start, Finalize,
           Close, QuestionWaitEnds, UpdateQuestion, vars, ledgerVars

(* Types the steps below keep needing. *)
LEMMA InputTypes ==
    ASSUME Base
    PROVE  /\ items \in Nat \ {0} /\ revision \in Nat
           /\ \A x \in Items : x \in Int /\ x < 0 /\ -x \in 1..items
           /\ \A x \in DOMAIN events : x \in 1..revision
           /\ presented \subseteq DOMAIN events /\ unpresented \subseteq DOMAIN events
           /\ Shown \subseteq DOMAIN events
           /\ pc = "inflight" => staged \subseteq unpresented
           /\ \A s \in DOMAIN events : s \in presented <=> events[s].stage # RECEIVED
<1>1. items \in Nat \ {0}
    BY DEF Base, Budget
<1>2. revision \in Nat /\ DOMAIN events \subseteq 1..revision
    BY DEF Base, Typed, LedgerTypeOK
<1>3. pc = "inflight" => staged \subseteq unpresented
    BY DEF Base, Placement
<1>4. \A x \in Items : x \in Int /\ x < 0 /\ -x \in 1..items
    BY <1>1 DEF Items
<1> QED
    BY <1>1, <1>2, <1>3, <1>4 DEF Shown, presented, unpresented

(* Everything that is shown, and every item, has its place by the end. *)
LEMMA SpotsFit ==
    ASSUME Base, AnchorsFit
    PROVE  /\ \A x \in Items \cup DOMAIN events : Spot(x) \in 0..items /\ x \in Int
           /\ \A x \in unpresented : Spot(x) = items
           /\ \A x \in presented : Spot(x) < items
<1>1. \A x \in Items : Spot(x) \in 0..items /\ x \in Int
    BY InputTypes DEF Spot
<1>2. \A x \in presented : Spot(x) \in 0..items /\ Spot(x) < items /\ x \in Int
    BY InputTypes DEF Spot, AnchorsFit
<1>3. \A x \in unpresented : Spot(x) = items /\ Spot(x) \in 0..items /\ x \in Int
    BY InputTypes DEF Spot, presented
<1> QED
    BY <1>1, <1>2, <1>3 DEF presented

(* The anchors a call is staged with. *)
Anchored == [s \in DOMAIN events |-> IF s \in presented THEN events[s].anchor ELSE items]

(* The input staged for a call holds everything there is, by its spot. *)
LEMMA Staging ==
    ASSUME Base, AnchorsFit
    PROVE  LET t == Placed(Anchored)
           IN  /\ t \in Seq(Items \cup DOMAIN events) /\ ToSet(t) = Items \cup DOMAIN events
               /\ \A i, j \in DOMAIN t : i < j =>
                      Earlier(t[i], t[j]) /\ ~Earlier(t[j], t[i]) /\ t[i] # t[j]
<1> DEFINE at == Anchored
           t == Placed(Anchored)
<1>1. DOMAIN at = DOMAIN events
    BY DEF Anchored
<1>2. IsFiniteSet(DOMAIN events)
    <2>1. IsFiniteSet(1..revision)
        BY InputTypes, FS_Interval
    <2>2. DOMAIN events \in SUBSET (1..revision)
        BY InputTypes
    <2> QED
        BY <2>1, <2>2, FS_Subset
<1>3. /\ DOMAIN events \subseteq Nat \ {0} /\ items \in Nat
      /\ \A s \in DOMAIN events : at[s] \in Nat /\ at[s] <= items
    BY InputTypes DEF Anchored, AnchorsFit
<1>4. \A x \in Items \cup DOMAIN events : PlaceOf(at, x) = Spot(x)
    <2>1. ASSUME NEW x \in Items
          PROVE  PlaceOf(at, x) = Spot(x)
        BY InputTypes DEF PlaceOf, Spot
    <2>2. ASSUME NEW x \in DOMAIN events
          PROVE  PlaceOf(at, x) = Spot(x)
        <3>1. ~(x < 0) /\ ~(at[x] > items)
            BY <1>3
        <3>2. at[x] = IF x \in presented THEN events[x].anchor ELSE items
            BY DEF Anchored
        <3> QED
            BY <3>1, <3>2 DEF PlaceOf, Spot
    <2> QED
        BY <2>1, <2>2
<1>5. /\ t \in Seq(Items \cup DOMAIN events) /\ ToSet(t) = Items \cup DOMAIN events
      /\ \A i, j \in DOMAIN t : i < j =>
             Precedes(at, t[i], t[j]) /\ ~Precedes(at, t[j], t[i]) /\ t[i] # t[j]
    <2> HIDE DEF at
    <2>1. IsFiniteSet(DOMAIN at) /\ DOMAIN at \subseteq Nat \ {0}
          /\ \A s \in DOMAIN at : at[s] \in Nat
        BY <1>1, <1>2, <1>3
    <2>2. t = Placed(at)
        BY DEF at
    <2> QED
        BY <1>1, <1>3, <2>1, <2>2, PlacedSorts
<1> HIDE DEF at, t
<1>6. \A x, y \in Items \cup DOMAIN events : Precedes(at, x, y) <=> Earlier(x, y)
    BY <1>4 DEF Precedes, Earlier
<1>7. \A i \in DOMAIN t : t[i] \in Items \cup DOMAIN events
    BY <1>5
<1> QED
    BY <1>5, <1>6, <1>7 DEF t

(* What is staged continues what the call before was sent. *)
LEMMA StagingExtends ==
    ASSUME Base, InputFits, pc = "ready"
    PROVE  Extends(sent, Placed(Anchored), Items \cup DOMAIN events)
<1> DEFINE t == Placed(Anchored)
           here == Items \cup DOMAIN events
<1> USE DEF InputFits
<1>1. /\ t \in Seq(here) /\ ToSet(t) = here
      /\ \A i, j \in DOMAIN t : i < j =>
             Earlier(t[i], t[j]) /\ ~Earlier(t[j], t[i]) /\ t[i] # t[j]
    BY Staging
<1> HIDE DEF t
<1>2. \A i \in DOMAIN t : i \in Int /\ t[i] \in here
    BY <1>1
<1>3. \A i, j \in DOMAIN t : t[i] = t[j] => i = j
    BY <1>1, <1>2
<1>4. ToSet(sent) \cap here \subseteq ToSet(t)
    BY <1>1
<1>5. ASSUME NEW n \in DOMAIN sent, NEW j \in DOMAIN t, t[j] = sent[n], NEW i \in 1..(j - 1)
      PROVE  \E m \in 1..(n - 1) : sent[m] = t[i]
    <2>1. i \in DOMAIN t /\ i < j
        BY <1>1
    <2>2. Earlier(t[i], sent[n]) /\ t[i] \in here /\ sent[n] \in here
        BY <1>1, <1>2, <1>5, <2>1
    <2>3. sent[n] \in Items \cup Shown
        BY <2>2 DEF SentShown, Sending, ToSet
    <2>4. t[i] \in Items \cup presented \cup unpresented
        BY <2>2 DEF presented
    <2>5. CASE t[i] \in Items \cup Shown
        BY <2>2, <2>3, <2>5 DEF SentInOrder
    <2>6. CASE t[i] \in unpresented /\ sent[n] \in Items
        BY <2>2, <2>6, SpotsFit, InputTypes DEF Earlier
    <2>7. CASE t[i] \in unpresented /\ sent[n] \in presented
        BY <2>2, <2>7, SpotsFit, InputTypes DEF Earlier
    <2> QED
        BY <2>3, <2>4, <2>5, <2>6, <2>7 DEF Shown
<1> QED
    BY <1>3, <1>4, <1>5 DEF Extends, t

LEMMA InputInit == Init => InputFits
<1> SUFFICES ASSUME Init PROVE InputFits
    OBVIOUS
<1>1. /\ DOMAIN events = {} /\ sent = <<>> /\ staged = {} /\ revision = 0 /\ pc = "setup"
    BY DEF Init, LedgerInit
<1>2. presented = {} /\ Shown = {}
    BY <1>1 DEF presented, Shown
<1> QED
    BY <1>1, <1>2 DEF InputFits, AnchorsFit, SentTyped, ShownSent, SentShown, SentInOrder, ToSet

LEMMA StagedFits == ASSUME Base, InputFits, StageInput PROVE InputFits'
<1> DEFINE t == Placed(Anchored)
           here == Items \cup DOMAIN events
<1>1. /\ sent' = t /\ staged' = unpresented /\ pc' = "inflight"
      /\ UNCHANGED <<events, revision, items>>
    BY DEF StageInput, ledgerVars, Anchored
<1>2. /\ t \in Seq(here) /\ ToSet(t) = here
      /\ \A i, j \in DOMAIN t : i < j =>
             Earlier(t[i], t[j]) /\ ~Earlier(t[j], t[i]) /\ t[i] # t[j]
    BY Staging DEF InputFits
<1> HIDE DEF t
<1>3. UNCHANGED <<presented, unpresented, Items>>
    BY <1>1 DEF presented, unpresented, Items
<1>4. \A x, y : Earlier(x, y)' <=> Earlier(x, y)
    BY <1>1, <1>3 DEF Earlier, Spot
<1>5. Shown' = DOMAIN events
    BY <1>1, <1>3, InputTypes DEF Shown, presented
<1>6. AnchorsFit'
    BY <1>1, <1>3 DEF AnchorsFit, InputFits
<1>7. \A n \in DOMAIN t : n \in 1..Len(t) /\ t[n] \in here
    BY <1>2
<1>8. SentTyped'
    <2>1. \A x \in here : x \in Int /\ 0 <= x + items /\ x <= revision
        BY InputTypes
    <2> QED
        BY <1>1, <1>7, <2>1 DEF SentTyped
<1>9. ShownSent' /\ SentShown'
    BY <1>1, <1>2, <1>5 DEF ShownSent, SentShown
<1>10. ASSUME NEW n \in DOMAIN t, NEW y \in here, Earlier(y, t[n])
       PROVE  \E m \in 1..(n - 1) : t[m] = y
    <2>1. PICK m \in DOMAIN t : t[m] = y
        BY <1>2 DEF ToSet
    <2>2. m \in 1..Len(t) /\ n \in 1..Len(t)
        BY <1>7
    <2>3. ~(n < m)
        BY <1>2, <1>10, <2>1
    <2>4. m # n
        <3>1. ~Earlier(t[n], t[n])
            BY <1>7, SpotsFit DEF Earlier, InputFits
        <3> QED
            BY <1>10, <2>1, <3>1
    <2> QED
        BY <2>1, <2>2, <2>3, <2>4
<1>11. SentInOrder'
    BY <1>1, <1>3, <1>4, <1>5, <1>10 DEF SentInOrder
<1> QED
    BY <1>6, <1>8, <1>9, <1>11 DEF InputFits

LEMMA AnsweredFits == ASSUME Base, InputFits, ModelReturns PROVE InputFits'
<1> USE DEF InputFits
<1>1. /\ pc = "inflight" /\ pc' # "inflight" /\ items' = items + 1
      /\ UNCHANGED <<sent, revision>>
      /\ events' = [s \in DOMAIN events |->
                        IF s \in staged /\ events[s].stage = RECEIVED
                        THEN [events[s] EXCEPT !.stage = PRESENTED, !.anchor = items]
                        ELSE events[s]]
    BY DEF ModelReturns, ModelAnswers, MarkPresented
<1>2. items \in Nat \ {0} /\ staged \subseteq unpresented /\ \A s \in DOMAIN events : events[s] \in Event
    BY <1>1, InputTypes DEF Base, Typed, LedgerTypeOK
<1>0. items \in Nat \ {0} /\ items' = items + 1
    BY <1>1, <1>2
<1>3. DOMAIN events' = DOMAIN events
    BY <1>1
<1>4. \A s \in staged : s \in DOMAIN events /\ s \notin presented
                        /\ events'[s].stage # RECEIVED /\ events'[s].anchor = items
    BY <1>1, <1>2 DEF presented, unpresented, Event, RECEIVED, PRESENTED
<1>5. \A s \in DOMAIN events \ staged : events'[s] = events[s]
    BY <1>1
<1>6. unpresented' = unpresented \ staged
    BY <1>3, <1>4, <1>5 DEF unpresented
<1>7. presented' = presented \cup staged /\ Shown' = Shown /\ Shown = presented \cup staged
    BY <1>1, <1>2, <1>3, <1>6 DEF presented, Shown, unpresented
<1>8. Items' = Items \cup {-(items + 1)}
    <2>1. 1..(items + 1) = 1..items \cup {items + 1}
        BY <1>2
    <2> QED
        BY <1>1, <2>1 DEF Items
<1>9. AnchorsFit'
    <2>1. ASSUME NEW s \in presented'
          PROVE  events'[s].anchor \in 0..(items' - 1)
        <3>1. CASE s \in staged
            <4>1. events'[s].anchor = items
                BY <1>4, <3>1
            <4> QED
                BY <1>0, <4>1
        <3>2. CASE s \in presented /\ s \notin staged
            <4>1. events'[s].anchor = events[s].anchor
                BY <1>5, <3>2 DEF presented
            <4>2. events[s].anchor \in 0..(items - 1)
                BY <3>2 DEF AnchorsFit
            <4> QED
                BY <1>0, <4>1, <4>2
        <3> QED
            BY <1>7, <2>1, <3>1, <3>2
    <2> QED
        BY <2>1 DEF AnchorsFit
<1>10. SentTyped'
    <2>1. UNCHANGED <<sent, revision>>
        BY <1>1
    <2>2. \A x \in Int : 0 <= x + items => 0 <= x + items'
        BY <1>0
    <2> QED
        BY <2>1, <2>2 DEF SentTyped
<1>11. ShownSent' /\ SentShown'
    BY <1>1, <1>3, <1>7 DEF ShownSent, SentShown, Sending
<1>12. \A x \in Items \cup Shown : (Spot(x))' = Spot(x)
    <2>1. ASSUME NEW x \in Items
          PROVE  (Spot(x))' = Spot(x)
        BY InputTypes DEF Spot
    <2>2. ASSUME NEW x \in staged
          PROVE  (Spot(x))' = Spot(x)
        <3>1. ~(x < 0) /\ x \notin presented /\ x \in presented' /\ events'[x].anchor = items
            BY <1>2, <1>4, <1>7, InputTypes
        <3> QED
            BY <3>1 DEF Spot
    <2>3. ASSUME NEW x \in presented
          PROVE  (Spot(x))' = Spot(x)
        <3>1. ~(x < 0) /\ x \in presented' /\ events'[x].anchor = events[x].anchor
            BY <1>4, <1>5, <1>7, InputTypes DEF presented
        <3> QED
            BY <3>1 DEF Spot
    <2> QED
        BY <1>7, <2>1, <2>2, <2>3
<1>13. ASSUME NEW n \in DOMAIN sent, NEW x, x = sent[n], x \in Items' \cup Shown',
              NEW y \in Items' \cup Shown', Earlier(y, x)'
       PROVE  \E m \in 1..(n - 1) : sent[m] = y
    <2>1. x \in Items \cup Shown
        <3>1. x \in Int /\ 0 <= x + items /\ x <= revision
            BY <1>13 DEF SentTyped
        <3> QED
            BY <1>2, <1>7, <1>8, <1>13, <3>1, InputTypes
    <2>2. Spot(x) \in 0..items /\ (Spot(x))' = Spot(x)
        <3>1. x \in Items \cup DOMAIN events
            BY <2>1, InputTypes
        <3> QED
            BY <1>12, <2>1, <3>1, SpotsFit
    <2>3. y # -(items + 1)
        <3> SUFFICES ASSUME y = -(items + 1)
                     PROVE  FALSE
            OBVIOUS
        <3>1. (Spot(y))' = items + 1
            BY <1>2 DEF Spot
        <3> QED
            BY <1>2, <1>13, <2>2, <3>1 DEF Earlier
    <2>4. y \in Items \cup Shown
        BY <1>7, <1>8, <1>13, <2>3
    <2>5. Earlier(y, x)
        BY <1>12, <1>13, <2>1, <2>4 DEF Earlier
    <2> QED
        BY <1>13, <2>1, <2>4, <2>5 DEF SentInOrder
<1>14. SentInOrder'
    BY <1>1, <1>13 DEF SentInOrder
<1> QED
    BY <1>9, <1>10, <1>11, <1>14

LEMMA SentStaysTyped ==
    ASSUME SentTyped, UNCHANGED sent, items \in Int, items' \in {items, items + 1},
           revision \in Int, revision' \in Int, revision <= revision'
    PROVE  SentTyped'
BY DEF SentTyped

(* Every other step leaves what was sent as it was. *)
LEMMA QuietFits ==
    ASSUME Base, Base', InputFits, Unread, UNCHANGED sent, items' \in {items, items + 1},
           items' # items => UNCHANGED events /\ pc' # "inflight",
           pc' = "inflight" => pc = "inflight" /\ UNCHANGED staged,
           pc' \in Sending => pc \in Sending /\ (pc = "inflight" => pc' = "inflight")
    PROVE  InputFits'
<1> USE DEF InputFits
<1>1. items \in Nat \ {0} /\ revision \in Nat /\ revision' \in Nat /\ revision <= revision'
    BY InputTypes DEF Unread, Base, Typed, LedgerTypeOK
<1>2. \A s \in DOMAIN events' :
          \/ /\ s \in DOMAIN events /\ events'[s].anchor = events[s].anchor
             /\ s \in presented' <=> s \in presented
          \/ s > revision /\ s \notin presented'
    BY DEF Unread, presented, unpresented
<1>3. presented' \subseteq presented /\ \A s \in presented' : events'[s].anchor = events[s].anchor
    BY <1>2 DEF presented
<1>4. Shown' \subseteq Shown
    BY <1>3 DEF Shown
<1>5. /\ Items \subseteq Items' /\ Items' \subseteq Items \cup {-(items + 1)}
      /\ items' # items => Items' = Items \cup {-(items + 1)}
      /\ items' = items => Items' = Items
    <2>1. 1..(items + 1) = 1..items \cup {items + 1}
        BY <1>1
    <2> QED
        BY <2>1 DEF Items
<1>6. AnchorsFit'
    <2>1. ASSUME NEW s \in presented'
          PROVE  events'[s].anchor \in 0..(items' - 1)
        <3>1. events'[s].anchor = events[s].anchor /\ events[s].anchor \in 0..(items - 1)
            BY <1>3 DEF AnchorsFit
        <3> QED
            BY <1>1, <3>1
    <2> QED
        BY <2>1 DEF AnchorsFit
<1>7. SentTyped'
    BY <1>1, SentStaysTyped
<1>8. \A s \in DOMAIN events : s <= revision
    BY InputTypes
<1>9. \A n \in DOMAIN sent : sent[n] <= revision /\ sent[n] \in Int
    BY <1>1 DEF SentTyped
<1>10. ShownSent'
    BY <1>4 DEF ShownSent
<1>11. SentShown'
    <2> SUFFICES ASSUME pc' \in Sending, NEW n \in DOMAIN sent, sent[n] \in DOMAIN events'
                 PROVE  sent[n] \in Shown'
        BY DEF SentShown, ToSet
    <2>1. ~(sent[n] > revision)
        BY <1>1, <1>9
    <2>2. sent[n] \in DOMAIN events /\ (sent[n] \in presented' <=> sent[n] \in presented)
        BY <1>2, <2>1
    <2>3. sent[n] \in Shown
        BY <2>2 DEF SentShown, ToSet
    <2>4. CASE sent[n] \in presented
        BY <2>2, <2>4 DEF Shown
    <2>5. CASE pc = "inflight" /\ sent[n] \in staged /\ pc' = "inflight"
        BY <2>5 DEF Shown
    <2> QED
        BY <2>3, <2>4, <2>5 DEF Shown
<1>12. \A x \in Items \cup Shown' : x \in Items \cup Shown /\ (Spot(x))' = Spot(x)
    <2>1. ASSUME NEW x \in Items
          PROVE  (Spot(x))' = Spot(x)
        BY InputTypes DEF Spot
    <2>2. ASSUME NEW x \in presented'
          PROVE  (Spot(x))' = Spot(x)
        <3>1. ~(x < 0) /\ x \in presented /\ events'[x].anchor = events[x].anchor
            BY <1>3, InputTypes
        <3> QED
            BY <3>1 DEF Spot
    <2>3. ASSUME NEW x \in Shown', x \notin presented'
          PROVE  (Spot(x))' = Spot(x)
        <3>1. x \in staged /\ pc = "inflight" /\ pc' = "inflight" /\ UNCHANGED items
            BY <2>3 DEF Shown
        <3>2. ~(x < 0) /\ x \notin presented
            BY <3>1, InputTypes DEF presented
        <3> QED
            BY <2>3, <3>1, <3>2 DEF Spot
    <2> QED
        BY <1>4, <2>1, <2>2, <2>3
<1>13. ASSUME NEW n \in DOMAIN sent, NEW x, x = sent[n], x \in Items' \cup Shown',
              NEW y \in Items' \cup Shown', Earlier(y, x)'
       PROVE  \E m \in 1..(n - 1) : sent[m] = y
    <2>1. x \in Items \cup Shown'
        BY <1>1, <1>5, <1>9, <1>13 DEF SentTyped
    <2>2. x \in Items \cup Shown /\ (Spot(x))' = Spot(x) /\ Spot(x) \in 0..items
        <3>1. x \in Items \cup Shown /\ (Spot(x))' = Spot(x)
            BY <1>12, <2>1
        <3>2. x \in Items \cup DOMAIN events
            BY <3>1, InputTypes
        <3> QED
            BY <3>1, <3>2, SpotsFit
    <2>3. y # -(items + 1)
        <3> SUFFICES ASSUME y = -(items + 1)
                     PROVE  FALSE
            OBVIOUS
        <3>1. (Spot(y))' = items + 1
            BY <1>1 DEF Spot
        <3> QED
            BY <1>1, <1>13, <2>2, <3>1 DEF Earlier
    <2>4. y \in Items \cup Shown /\ (Spot(y))' = Spot(y)
        BY <1>5, <1>12, <1>13, <2>3
    <2>5. Earlier(y, x)
        BY <1>13, <2>2, <2>4 DEF Earlier
    <2> QED
        BY <1>13, <2>2, <2>4, <2>5 DEF SentInOrder
<1>14. SentInOrder'
    BY <1>13 DEF SentInOrder
<1> QED
    BY <1>6, <1>7, <1>10, <1>11, <1>14

LEMMA InputStep == Base /\ InputFits /\ [Next]_vars => InputFits'
<1> SUFFICES ASSUME Base, InputFits, [Next]_vars PROVE InputFits'
    OBVIOUS
<1>1. Base'
    BY BaseStep
<1>2. CASE StageInput
    BY <1>2, StagedFits
<1>3. CASE ModelReturns
    BY <1>3, AnsweredFits
<1>4. ASSUME ~StageInput, ~ModelReturns
      PROVE  /\ UNCHANGED sent /\ items' \in {items, items + 1}
             /\ items' # items => UNCHANGED events /\ pc' # "inflight"
             /\ pc' = "inflight" => pc = "inflight" /\ UNCHANGED staged
             /\ pc' \in Sending => pc \in Sending /\ (pc = "inflight" => pc' = "inflight")
    <2>1. ASSUME NEW i \in DOMAIN calls, ToolStep(i)
          PROVE  UNCHANGED <<sent, items, pc, staged>>
        BY <2>1, ToolShape DEF runVars
    <2>2. CASE Continue
        BY <2>2 DEF Continue, PassEnds, ledgerVars, Sending
    <2>3. CASE ToolsReturn \/ StartRun
        BY <2>3 DEF ToolsReturn, StartRun, Sending
    <2>4. CASE FinishRun \/ PassFails \/ Cancelled \/ InfraFails \/ SetupFails \/ TimeOut
        BY <2>4 DEF FinishRun, PassFails, Cancelled, InfraFails, SetupFails, TimeOut, Ends, Sending
    <2>5. CASE Release \/ Post \/ UNCHANGED vars
        BY <2>5 DEF Release, Post, vars, runVars
    <2> QED
        BY <1>4, <2>1, <2>2, <2>3, <2>4, <2>5 DEF Next, RunStep
<1>5. CASE ~StageInput /\ ~ModelReturns
    BY <1>1, <1>4, <1>5, UnreadStep, QuietFits
<1> QED
    BY <1>2, <1>3, <1>5

LEMMA InputHolds == Spec => [](Base /\ InputFits)
<1>1. Base /\ InputFits /\ [Next]_vars => InputFits'
    BY InputStep
<1> QED
    BY <1>1, BaseHolds, InputInit, PTL DEF Spec

(* For any number of messages, in any order of posts and calls, what a model *)
(* call is sent continues what the call before it was sent.                  *)
THEOREM TranscriptGrows == Spec => TranscriptStable
<1>1. ASSUME Base, InputFits, [Next]_vars, sent' # sent
      PROVE  Extends(sent, sent', Items \cup DOMAIN events)
    <2>1. StageInput
        BY <1>1, ToolShape
           DEF Next, RunStep, StartRun, ModelReturns, ModelAnswers, ToolsReturn, FinishRun,
               Continue, PassEnds, PassFails, Cancelled, Ends, Release, SetupFails, InfraFails,
               TimeOut, Post, vars, runVars
    <2>2. pc = "ready" /\ sent' = Placed(Anchored)
        BY <2>1 DEF StageInput, Anchored
    <2> QED
        BY <1>1, <2>2, StagingExtends
<1>2. Base /\ InputFits /\ [Next]_vars
          => [sent' # sent => Extends(sent, sent', Items \cup DOMAIN events)]_sent
    BY <1>1
<1> QED
    BY <1>2, InputHolds, PTL DEF Spec, TranscriptStable

(* No gated call starts with a message in the ledger that the response it    *)
(* belongs to was not shown.                                                 *)
THEOREM ActingIsInformed == Spec => ActsOnWhatItSaw
<1>1. ASSUME Base, OutcomeFits, InputFits, [Next]_vars, NEW i \in DOMAIN calls, GatedCallStarts(i)
      PROVE  DOMAIN events \subseteq ToSet(sent)
    <2>1. unseen = {}
        BY <1>1, GatedStart DEF GateOpens
    <2>2. unpresented = {}
        <3>1. \A s \in unpresented : s \in unaddressed
            BY <1>1 DEF OutcomeFits, unpresented, unaddressed, NoOutcome, UNACKNOWLEDGED
        <3> QED
            BY <2>1, <3>1 DEF unseen
    <2> QED
        BY <1>1, <2>2 DEF InputFits, ShownSent, Shown, presented
<1>2. Base /\ OutcomeFits /\ InputFits /\ [Next]_vars
          => [\A i \in DOMAIN calls : GatedCallStarts(i) => DOMAIN events \subseteq ToSet(sent)]_vars
    BY <1>1
<1>3. Spec => []OutcomeFits
    BY OutcomeInit, OutcomeStep, TypeCorrect, LedgerImplemented, PTL DEF LedgerSpec
<1> QED
    BY <1>2, <1>3, InputHolds, PTL DEF Spec, ActsOnWhatItSaw
--------------------------------------------------------------------------------
(* A gated call acts with its answer: what the model was shown and leaves   *)
(* unanswered is in the acknowledgement of this very response, and stays in  *)
(* the call that names it until that call has recorded it.                   *)
Names(j, s) == calls[j].kind = "respond" /\ (calls[j].ids = {} \/ s \in calls[j].ids)
AnswersFit ==
    pc = "tools" =>
        \A s \in (unaddressed \ unpresented) \cap batch_ack :
            \E j \in DOMAIN calls : Names(j, s)

(* Between two responses nothing joins what was shown and is unanswered. *)
LEMMA StillWaiting ==
    ASSUME Base, [Next]_vars, ~ModelReturns
    PROVE  (unaddressed \ unpresented)' \subseteq unaddressed \ unpresented
<1>1. Unread
    BY UnreadStep
<1>2. LedgerTypeOK /\ revision \in Nat /\ DOMAIN events \subseteq 1..revision
    BY DEF Base, Typed, LedgerTypeOK
<1>3. ASSUME NEW m \in Messages, NEW isReply \in BOOLEAN, Accept(m, isReply)
      PROVE  \A s \in DOMAIN events : s \in DOMAIN events' => events'[s] = events[s]
    BY <1>2, <1>3, Accepting
<1>4. \/ \A s \in DOMAIN events : s \in DOMAIN events' => events'[s] = events[s]
      \/ unaddressed' \subseteq unaddressed
    BY <1>2, <1>3, LedgerStep, EventsStay DEF Stay
<1>5. ASSUME NEW s \in (unaddressed \ unpresented)'
      PROVE  s \in unaddressed \ unpresented
    <2>1. s \in DOMAIN events' /\ events'[s].stage # RECEIVED
        BY <1>5 DEF unaddressed, unpresented
    <2>2. s \in DOMAIN events /\ events[s].stage # RECEIVED
        BY <1>1, <2>1 DEF Unread
    <2> QED
        BY <1>4, <1>5, <2>1, <2>2 DEF unaddressed, unpresented
<1> QED
    BY <1>5

(* Only a decision that is recorded changes which messages a call names, and *)
(* none of those it named before is left waiting by it.                      *)
LEMMA NamesStay ==
    ASSUME Base, NEW i \in DOMAIN calls, ToolStep(i), NEW s \in unaddressed \ unpresented,
           s \in unaddressed', Names(i, s)
    PROVE  Names(i, s)'
<1> USE DEF Base, Typed, CallsFit
<1>0. calls[i] \in ACall /\ calls[i].kind = "respond"
    BY DEF Names
<1>1. ASSUME NEW at \in Ats, CallMoves(i, at)
      PROVE  Names(i, s)'
    BY <1>1, CallsMove DEF Moved, Names
<1>2. ASSUME NEW d \in DecisionsMade, RespondRecords(i, d)
      PROVE  Names(i, s)'
    <2>1. CASE Known(Targets(i, d)) = {}
        <3>1. CallMoves(i, "done")
            BY <1>2, <2>1 DEF RespondRecords, CallMoves
        <3> QED
            BY <1>1, <3>1 DEF Ats
    <2>2. s \in DOMAIN events /\ events[s].stage = PRESENTED /\ events[s].outcome # UNACKNOWLEDGED
        BY DEF unaddressed, unpresented
    <2>3. s \in Known(Targets(i, d))
        BY <2>2 DEF Names, Targets, Known, RECEIVED, PRESENTED
    <2>4. events'[s] = Settled(events[s], d) /\ events[s] \in Event
        BY <1>2, <2>2, <2>3 DEF RespondRecords, RecordDecision, LedgerTypeOK
    <2>5. events'[s].stage \in {ADDRESSED, RESOLVED}
        BY <2>4, DecisionStages DEF Settled, Event
    <2> QED
        BY <2>5 DEF unaddressed, RECEIVED, PRESENTED, ADDRESSED, RESOLVED
<1>3. {"running", "waiting", "done"} \subseteq Ats
    BY DEF Ats
<1> QED
    BY <1>0, <1>1, <1>2, <1>3
       DEF ToolStep, GateHolds, GateRefuses, GateOpens, CanCheckGate, Gated, ShellReturns,
           AttachReturns, GatedReturns, respond_to_updates, RespondUnrecognised, ReplyEnds,
           ask_user, AskOpens, AskRefused, Starts, AskSent, AskSendFails, AskWakes, AskTimesOut,
           Asking

LEMMA AnswersStep == Base /\ AnswersFit /\ [Next]_vars => AnswersFit'
<1> SUFFICES ASSUME Base, AnswersFit, [Next]_vars PROVE AnswersFit'
    OBVIOUS
<1>1. ASSUME NEW i \in DOMAIN calls, ToolStep(i)
      PROVE  AnswersFit'
    <2>1. pc = "tools" /\ UNCHANGED <<pc, batch_ack>>
        BY <1>1, ToolShape DEF runVars
    <2>2. (unaddressed \ unpresented)' \subseteq unaddressed \ unpresented
        <3>1. ~ModelReturns
            BY <2>1 DEF ModelReturns, ModelAnswers
        <3> QED
            BY <3>1, StillWaiting
    <2>3. /\ DOMAIN calls' = DOMAIN calls
          /\ \A j \in DOMAIN calls \ {i} : calls'[j] = calls[j]
        BY <1>1, ToolCalls
    <2>4. ASSUME NEW s \in ((unaddressed \ unpresented) \cap batch_ack)'
          PROVE  \E j \in DOMAIN calls' : Names(j, s)'
        <3>1. s \in (unaddressed \ unpresented) \cap batch_ack /\ s \in unaddressed'
            BY <2>1, <2>2, <2>4
        <3>2. PICK j \in DOMAIN calls : Names(j, s)
            BY <2>1, <3>1 DEF AnswersFit
        <3>3. CASE j = i
            BY <1>1, <2>3, <3>1, <3>2, <3>3, NamesStay
        <3>4. CASE j # i
            BY <2>3, <3>2, <3>4 DEF Names
        <3> QED
            BY <3>3, <3>4
    <2> QED
        BY <2>4 DEF AnswersFit
<1>2. CASE ModelReturns
    <2>1. PICK kinds \in Responses \cup {<<>>} : \E batch \in Batches(kinds) : ModelAnswers(batch)
        BY <1>2 DEF ModelReturns
    <2>2. PICK batch \in Batches(kinds) : ModelAnswers(batch)
        BY <2>1
    <2>3. calls' = batch /\ batch_ack' = UNION {Acked(batch[i]) : i \in DOMAIN batch}
        BY <2>2 DEF ModelAnswers, AckedBy
    <2>4. ASSUME NEW s \in batch_ack'
          PROVE  \E j \in DOMAIN calls' : Names(j, s)'
        <3>1. PICK j \in DOMAIN batch : s \in Acked(batch[j])
            BY <2>3, <2>4
        <3>2. batch[j].kind = "respond" /\ (batch[j].ids = {} \/ s \in batch[j].ids)
            BY <3>1 DEF Acked
        <3> QED
            BY <2>3, <3>2 DEF Names
    <2> QED
        BY <2>4 DEF AnswersFit
<1>3. CASE UNCHANGED <<pc, calls, batch_ack>> /\ ~ModelReturns
    BY <1>3, StillWaiting DEF AnswersFit, Names
<1>4. CASE pc' # "tools"
    BY <1>4 DEF AnswersFit
<1> QED
    BY <1>1, <1>2, <1>3, <1>4
       DEF Next, RunStep, StartRun, StageInput, ToolsReturn, FinishRun, Continue, PassFails,
           Cancelled, Ends, Release, SetupFails, InfraFails, TimeOut, Post, vars, runVars, toolVars

(* What is still unanswered when a gated tool runs is named by an answer of  *)
(* the very response that asked for the tool, for any batch of calls.        *)
THEOREM ActingIsAnswered == Spec => ActsWithItsAnswer
<1>1. ASSUME Base, AnswersFit, [Next]_vars, NEW i \in DOMAIN calls, GatedCallStarts(i),
             NEW s \in unaddressed'
      PROVE  \E j \in DOMAIN calls :
                 calls[j].kind = "respond" /\ (calls[j].ids = {} \/ s \in calls[j].ids)
    <2>1. GateOpens(i)
        BY <1>1, GatedStart
    <2>2. pc = "tools" /\ unseen = {} /\ ignored \subseteq hopeless /\ GiveUpOn(hopeless)
        BY <2>1 DEF GateOpens, CanCheckGate
    <2>3. s \in unaddressed \ hopeless
        <3>1. /\ DOMAIN events' = DOMAIN events
              /\ \A r \in DOMAIN events : events[r] \in Event
              /\ \A r \in DOMAIN events :
                    events'[r] = IF r \in hopeless THEN [events[r] EXCEPT !.outcome = UNACKNOWLEDGED]
                                 ELSE events[r]
            BY <1>1, <2>2 DEF GiveUpOn, Base, Typed, LedgerTypeOK
        <3>2. \A r \in hopeless \cap DOMAIN events : events'[r].outcome = UNACKNOWLEDGED
            BY <3>1 DEF Event
        <3> QED
            BY <1>1, <3>1, <3>2 DEF unaddressed
    <2>4. s \in (unaddressed \ unpresented) \cap batch_ack
        BY <2>2, <2>3 DEF unseen, ignored
    <2> QED
        BY <1>1, <2>2, <2>4 DEF AnswersFit, Names
<1>2. Base /\ AnswersFit /\ [Next]_vars
          => [\A i \in DOMAIN calls : GatedCallStarts(i) =>
                 \A s \in unaddressed' : \E j \in DOMAIN calls :
                     calls[j].kind = "respond" /\ (calls[j].ids = {} \/ s \in calls[j].ids)]_vars
    BY <1>1
<1>3. Init => AnswersFit
    BY DEF Init, AnswersFit
<1> QED
    BY <1>2, <1>3, AnswersStep, BaseHolds, PTL DEF Spec, ActsWithItsAnswer
================================================================================
