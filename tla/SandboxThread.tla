----------------------------- MODULE SandboxThread -----------------------------
(***************************************************************************)
(* The sandbox runs of one Discord thread, one after the other and at the  *)
(* same time: run_code_sandbox (core/classes/tool_functions.py), the claim *)
(* of the thread, the container and its workspace snapshot                 *)
(* (sandbox_agent.py, sandbox_snapshot_store.py) and the record of loose   *)
(* ends (sandbox_conversation_store.py).                                   *)
(*                                                                         *)
(* A run is split at its awaits: between two of them nothing else runs.    *)
(* What happens while the model works is the subject of                    *)
(* SandboxConversation; here it only settles messages and asks questions.  *)
(***************************************************************************)
EXTENDS Integers, Sequences, FiniteSets, FiniteSetsExt, SequencesExt

CONSTANTS
    Runs,               \* calls of run_code_sandbox; a call's task is an item too
    Posts,              \* messages people post in the thread
    Size,               \* how much of MAX_RECORD_BYTES an item takes, once saved
    MAX_FOLLOW_UPS,
    MAX_RECORD_ITEMS,
    MAX_RECORD_BYTES,
    SAVE_ATTEMPTS,      \* _CONVERSATION_SAVE_ATTEMPTS
    Faults              \* what may go wrong, see FaultKinds

Items == Runs \cup Posts

FaultKinds == {
    "redis",            \* a call to Redis raises
    "expiry",           \* a key reaches its TTL
    "embed",            \* Discord refuses the message that announces the run
    "create", "start",  \* creating or starting a container raises
    "delete",           \* deleting one does, or takes too long
    "run",              \* the run raises an infrastructure error
    "corrupt",          \* a saved workspace cannot be unpacked again
    "cancel",           \* the bot shuts down and cancels the call
    "crash"}            \* the process dies

NoRun == "no run"

ASSUME ThreadAssumption ==
    /\ Runs \cap Posts = {}
    /\ Size \in [Items -> Nat]
    /\ {MAX_FOLLOW_UPS, MAX_RECORD_ITEMS, MAX_RECORD_BYTES} \subseteq Nat
    /\ SAVE_ATTEMPTS \in Nat \ {0}
    /\ Faults \subseteq FaultKinds
    /\ NoRun \notin Items

VARIABLES
    claim,        \* the run the thread is claimed by (_RUNS), or NoRun
    pc,           \* where each call is
    resumed,      \* what the call believes about the workspace it started from
    base,         \* the version of the workspace it really started from, 0 if empty
    offered,      \* loose ends of earlier runs put before its task, or Unread
    finalized,    \* whether its ledger has passed the finalization boundary
    said,         \* its messages that are not settled, in order of arrival
    late,         \* its follow-ups: messages that came after the boundary
    question,     \* whether it has an open question
    ending,       \* how it ends: "ok", "infra" (an exception) or "cancelled"
    writing,      \* the save in progress: what is written, how many were made before
    posted,       \* messages posted so far
    containers,   \* runs that have a container on the Docker daemon
    snapshot,     \* Redis: the saved workspace
    record,       \* Redis: the record of loose ends
    shown         \* items some later model was shown as a loose end

callVars   == <<pc, resumed, base, offered, finalized, ending, writing>>
ledgerVars == <<said, late, question, posted>>
storeVars  == <<containers, snapshot, record>>
vars       == <<claim, callVars, ledgerVars, storeVars, shown>>

NoSnapshot == [version |-> 0, good |-> TRUE]
NoRecord   == [carry |-> <<>>, question |-> FALSE]
(* A record that is there and could not be loaded offers nothing. *)
Unread     == <<NoRun>>
NoWrite    == [what |-> NoRecord, made |-> 0]

(* The awaits of a call, by what it waits for. *)
Waits == {"looking",      \* the new thread's notice, sandbox_snapshot_exists
          "loading",      \* the input files, the conversation record
          "creating", "starting",                          \* _create_sandbox_session
          "dropping", "forgetting", "recreating", "restarting", \* its recovery path
          "preparing",    \* output directory, marker, inputs
          "working",      \* _converse, _deliver
          "persisting", "removing",                        \* run_sandbox_task's finally
          "closing",      \* files, replies, the closing note
          "saving"}       \* SandboxConversationStore.save
Over  == {"forwarded", "ended", "dead"}

TypeOK ==
    /\ claim \in Runs \cup {NoRun}
    /\ pc \in [Runs -> {"idle"} \cup Waits \cup Over]
    /\ resumed \in [Runs -> BOOLEAN] /\ base \in [Runs -> Nat]
    /\ offered \in [Runs -> Seq(Items) \cup {Unread}]
    /\ finalized \in [Runs -> BOOLEAN] /\ ending \in [Runs -> {"ok", "infra", "cancelled"}]
    /\ said \in [Runs -> Seq(Items)] /\ late \in [Runs -> Seq(Items)]
    /\ question \in [Runs -> BOOLEAN]
    /\ posted \subseteq Posts
    /\ containers \subseteq Runs
    /\ snapshot \in [version : Nat, good : BOOLEAN]
    /\ record \in [carry : Seq(Items), question : BOOLEAN]
    /\ writing \in [Runs -> [what : [carry : Seq(Items), question : BOOLEAN],
                             made : 0..(SAVE_ATTEMPTS - 1)]]
    /\ shown \subseteq Items

Init ==
    /\ claim = NoRun
    /\ pc = [r \in Runs |-> "idle"]
    /\ resumed = [r \in Runs |-> FALSE] /\ base = [r \in Runs |-> 0]
    /\ offered = [r \in Runs |-> <<>>]
    /\ finalized = [r \in Runs |-> FALSE] /\ ending = [r \in Runs |-> "ok"]
    /\ said = [r \in Runs |-> <<>>] /\ late = [r \in Runs |-> <<>>]
    /\ question = [r \in Runs |-> FALSE]
    /\ posted = {}
    /\ containers = {}
    /\ snapshot = NoSnapshot /\ record = NoRecord
    /\ writing = [r \in Runs |-> NoWrite]
    /\ shown = {}

Goes(r, to) == pc' = [pc EXCEPT ![r] = to]

(* The claim is held through delivery, the closing note and the record. *)
Released(r) == claim' = NoRun /\ Goes(r, "ended")

--------------------------------------------------------------------------------
(* The ledger of the claimed run, as people in the thread see it. *)

(* deliver(): accepted while the run can still see it, noted for the next *)
(* run once it cannot.  Its other verdicts leave nothing behind.          *)
Deliver(r, item) ==
    \/ /\ ~finalized[r]
       /\ said' = [said EXCEPT ![r] = Append(@, item)]
       /\ UNCHANGED late
    \/ /\ finalized[r]
       /\ late' = [late EXCEPT ![r] = IF Len(@) < MAX_FOLLOW_UPS THEN Append(@, item) ELSE @]
       /\ UNCHANGED said

(* on_message, route_to_sandbox.  Without a claim the message is the bot's. *)
Post(m) ==
    /\ claim # NoRun
    /\ m \notin posted
    /\ Deliver(claim, m)
    /\ posted' = posted \cup {m}
    /\ UNCHANGED <<claim, callVars, question, storeVars, shown>>

(* Mutant: the claim is taken without looking whether there is one. *)
AlwaysFree == TRUE

Unclaimed == claim = NoRun

(* claim_run, and everything run_code_sandbox does before its next await. *)
Call(r) ==
    /\ pc[r] = "idle"
    /\ Unclaimed
    /\ claim' = r
    /\ Goes(r, "looking")
    /\ UNCHANGED <<resumed, base, offered, finalized, ending, writing,
                   ledgerVars, storeVars, shown>>

(* The thread is claimed: the task is delivered to the run in flight. *)
Forward(r) ==
    /\ pc[r] = "idle"
    /\ claim # NoRun
    /\ Deliver(claim, r)
    /\ Goes(r, "forwarded")
    /\ UNCHANGED <<claim, resumed, base, offered, finalized, ending, writing,
                   question, posted, storeVars, shown>>

--------------------------------------------------------------------------------
(* Before the container. *)

(* sandbox_snapshot_exists: a Redis error answers FALSE. *)
Look(r) ==
    /\ pc[r] = "looking"
    /\ \/ resumed' = [resumed EXCEPT ![r] = snapshot # NoSnapshot]
       \/ "redis" \in Faults /\ resumed' = [resumed EXCEPT ![r] = FALSE]
    /\ Goes(r, "loading")
    /\ UNCHANGED <<claim, base, offered, finalized, ending, writing,
                   ledgerVars, storeVars, shown>>

(* resume_preamble(load()): a Redis error offers nothing. *)
LoadRecord(r) ==
    /\ pc[r] = "loading"
    /\ \/ offered' = [offered EXCEPT ![r] = record.carry]
       \/ "redis" \in Faults /\ record # NoRecord
          /\ offered' = [offered EXCEPT ![r] = Unread]
    /\ Goes(r, "creating")
    /\ UNCHANGED <<claim, resumed, base, finalized, ending, writing,
                   ledgerVars, storeVars, shown>>

(* Without a live card the run is announced by a message of its own, which   *)
(* nothing guards: the exception ends the call with neither closing note nor *)
(* record, and what was posted meanwhile goes with the ledger.               *)
CannotAnnounce(r) ==
    /\ pc[r] = "loading" /\ "embed" \in Faults
    /\ Released(r)
    /\ UNCHANGED <<resumed, base, offered, finalized, ending, writing, ledgerVars,
                   storeVars, shown>>

(* Any exception leaving run_sandbox_task: the caller posts a closing note. *)
Fails(r) == Goes(r, "closing") /\ ending' = [ending EXCEPT ![r] = "infra"]

--------------------------------------------------------------------------------
(* _create_sandbox_session. *)

CreateContainer(r, from, to) ==
    /\ pc[r] = from
    /\ \/ containers' = containers \cup {r} /\ Goes(r, to) /\ UNCHANGED ending
       \/ "create" \in Faults /\ Fails(r) /\ UNCHANGED containers
    /\ UNCHANGED <<claim, resumed, base, offered, finalized, writing, ledgerVars,
                   snapshot, record, shown>>

Create(r)   == CreateContainer(r, "creating", "starting")
Recreate(r) == CreateContainer(r, "recreating", "restarting")

(* session.start() unpacks the saved workspace, if there is one. *)
CanStart == snapshot.good
StartBreaks == ~snapshot.good \/ "start" \in Faults

Started(r, believes) ==
    /\ CanStart
    /\ base' = [base EXCEPT ![r] = snapshot.version]
    /\ resumed' = [resumed EXCEPT ![r] = believes]
    /\ Goes(r, "preparing")
    /\ UNCHANGED <<claim, offered, finalized, ending, writing, ledgerVars, storeVars, shown>>

(* It raised where no saved workspace was expected: the exception leaves    *)
(* _create_sandbox_session, which run_sandbox_task calls outside its try.   *)
StartRaises(r) ==
    /\ StartBreaks
    /\ Fails(r)
    /\ UNCHANGED <<claim, resumed, base, offered, finalized, writing, ledgerVars,
                   storeVars, shown>>

Start(r) ==
    /\ pc[r] = "starting"
    /\ \/ Started(r, resumed[r])
       \/ ~resumed[r] /\ StartRaises(r)
       \/ /\ resumed[r] /\ StartBreaks
          /\ Goes(r, "dropping")
          /\ UNCHANGED <<claim, resumed, base, offered, finalized, ending, writing,
                         ledgerVars, storeVars, shown>>

Restart(r) ==
    /\ pc[r] = "restarting"
    /\ Started(r, FALSE) \/ StartRaises(r)

(* _delete_sandbox_session: a failure, or its timeout, is only logged. *)
DeletesContainer(r) ==
    \/ containers' = containers \ {r}
    \/ "delete" \in Faults /\ UNCHANGED containers

Drop(r) ==
    /\ pc[r] = "dropping"
    /\ DeletesContainer(r)
    /\ Goes(r, "forgetting")
    /\ UNCHANGED <<claim, resumed, base, offered, finalized, ending, writing, ledgerVars,
                   snapshot, record, shown>>

(* Mutant: the recovery retries without deleting the bad key. *)
ForgetNothing(r) ==
    /\ pc[r] = "forgetting"
    /\ Goes(r, "recreating")
    /\ UNCHANGED <<claim, resumed, base, offered, finalized, ending, writing, ledgerVars,
                   storeVars, shown>>

(* _delete_sandbox_snapshot: a failure is only logged. *)
Forget(r) ==
    /\ pc[r] = "forgetting"
    /\ snapshot' = NoSnapshot \/ ("redis" \in Faults /\ UNCHANGED snapshot)
    /\ Goes(r, "recreating")
    /\ UNCHANGED <<claim, resumed, base, offered, finalized, ending, writing, ledgerVars,
                   containers, record, shown>>

--------------------------------------------------------------------------------
(* The run and its teardown. *)

(* The first model call: its input has the loose ends in front of the task. *)
ModelStarts(r) ==
    /\ pc[r] = "preparing"
    /\ shown' = shown \cup (ToSet(offered[r]) \cap Items)
    /\ Goes(r, "working")
    /\ UNCHANGED <<claim, resumed, base, offered, finalized, ending, writing,
                   ledgerVars, storeVars>>

(* The model settles a message, or opens or closes its question. *)
Settles(r) ==
    /\ pc[r] = "working" /\ ~finalized[r]
    /\ \/ \E i \in DOMAIN said[r] : said' = [said EXCEPT ![r] = RemoveAt(@, i)]
          /\ UNCHANGED question
       \/ question' = [question EXCEPT ![r] = ~@] /\ UNCHANGED said
    /\ UNCHANGED <<claim, callVars, late, posted, storeVars, shown>>

(* The boundary is committed by _converse, then the files are collected. *)
Concludes(r) ==
    /\ pc[r] = "working" /\ ~finalized[r]
    /\ finalized' = [finalized EXCEPT ![r] = TRUE]
    /\ UNCHANGED <<claim, pc, resumed, base, offered, ending, writing, ledgerVars,
                   storeVars, shown>>

(* Out of run_sandbox_task's try, with an exception or without: finalize(), *)
(* then the workspace is persisted.                                         *)
LeavesTry(r) ==
    /\ \/ pc[r] = "working" /\ finalized[r] /\ UNCHANGED ending
       \/ /\ pc[r] \in {"preparing", "working"} /\ "run" \in Faults
          /\ ending' = [ending EXCEPT ![r] = "infra"]
    /\ finalized' = [finalized EXCEPT ![r] = TRUE]
    /\ Goes(r, "persisting")
    /\ UNCHANGED <<claim, resumed, base, offered, writing, ledgerVars, storeVars, shown>>

(* _persist_sandbox_snapshot: too large, too slow or a Redis error is logged. *)
Persist(r) ==
    /\ pc[r] = "persisting"
    /\ \/ \E good \in IF "corrupt" \in Faults THEN BOOLEAN ELSE {TRUE} :
              snapshot' = [version |-> base[r] + 1, good |-> good]
       \/ "redis" \in Faults /\ UNCHANGED snapshot
    /\ Goes(r, "removing")
    /\ UNCHANGED <<claim, resumed, base, offered, finalized, ending, writing, ledgerVars,
                   containers, record, shown>>

(* Mutant: the claim ends with the container, before anything is delivered. *)
TeardownAndRelease(r) ==
    /\ pc[r] = "removing"
    /\ DeletesContainer(r)
    /\ claim' = NoRun
    /\ Goes(r, IF ending[r] = "cancelled" THEN "ended" ELSE "closing")
    /\ UNCHANGED <<resumed, base, offered, finalized, ending, writing, ledgerVars,
                   snapshot, record, shown>>

Teardown(r) ==
    /\ pc[r] = "removing"
    /\ DeletesContainer(r)
    /\ IF ending[r] = "cancelled" THEN Released(r) ELSE Goes(r, "closing") /\ UNCHANGED claim
    /\ UNCHANGED <<resumed, base, offered, finalized, ending, writing, ledgerVars,
                   snapshot, record, shown>>

--------------------------------------------------------------------------------
(* The record of loose ends. *)

(* What _save_conversation_record reads from the live ledger. *)
Current(r) == [carry |-> said[r] \o late[r], question |-> question[r]]

LastOf(s, n) == SubSeq(s, Max({1, Len(s) - n + 1}), Len(s))

Weight(s) == MapThenSumSet(LAMBDA i : Size[s[i]], DOMAIN s)

(* save(): the oldest items go until the rest fits in MAX_RECORD_BYTES. *)
Fitting(s) == LastOf(s, Max({n \in 0..Len(s) : Weight(LastOf(s, n)) <= MAX_RECORD_BYTES}))

(* build_record: the last MAX_RECORD_ITEMS, follow-ups coming last. *)
Carried(s) == LastOf(s, MAX_RECORD_ITEMS)

Kept(current) == [carry |-> Fitting(Carried(current.carry)), question |-> current.question]

Writes(r, made) == writing' = [writing EXCEPT ![r] = [what |-> Current(r), made |-> made]]

(* Everything is delivered and the closing note is out. *)
BeginSave(r) ==
    /\ pc[r] = "closing"
    /\ Writes(r, 0)
    /\ Goes(r, "saving")
    /\ UNCHANGED <<claim, resumed, base, offered, finalized, ending, ledgerVars,
                   storeVars, shown>>

(* Mutant: the record is saved once, whatever is said meanwhile. *)
NeverAgain(r) == FALSE

(* Mutant: the loop without its attempt cap. *)
SaveUntilSettled(r) == Current(r) # writing[r].what

(* The ledger is read again after each save. *)
SaveAgain(r) == Current(r) # writing[r].what /\ writing[r].made + 1 < SAVE_ATTEMPTS

(* From the last comparison to release_run there is no await. *)
SaveLands(r) ==
    /\ pc[r] = "saving"
    /\ record' = Kept(writing[r].what)
    /\ IF SaveAgain(r)
       THEN Writes(r, writing[r].made + 1) /\ UNCHANGED <<claim, pc>>
       ELSE Released(r) /\ UNCHANGED writing
    /\ UNCHANGED <<resumed, base, offered, finalized, ending, ledgerVars, containers,
                   snapshot, shown>>

SaveFails(r) ==
    /\ pc[r] = "saving" /\ "redis" \in Faults
    /\ Released(r)
    /\ UNCHANGED <<resumed, base, offered, finalized, ending, writing, ledgerVars,
                   storeVars, shown>>

--------------------------------------------------------------------------------
(* Shutdown, crashes, expiry. *)

(* CancelledError passes every `except Exception`: the finally of            *)
(* run_sandbox_task still persists and deletes, the one of run_code_sandbox  *)
(* releases, and neither the closing note nor the record is written.         *)
CancelledInRun(r) ==
    /\ pc[r] \in {"preparing", "working"}
    /\ finalized' = [finalized EXCEPT ![r] = TRUE]
    /\ Goes(r, "persisting")
    /\ UNCHANGED <<claim, containers, record>>

(* Elsewhere the call ends at once.  What it was waiting for may have       *)
(* happened all the same: a container created, deleted, or a record saved.  *)
CancelledOutside(r) ==
    /\ pc[r] \in Waits \ {"preparing", "working"}
    /\ Released(r)
    /\ \/ UNCHANGED <<containers, record>>
       \/ pc[r] \in {"creating", "recreating"} /\ containers' = containers \cup {r}
          /\ UNCHANGED record
       \/ pc[r] \in {"dropping", "removing"} /\ containers' = containers \ {r}
          /\ UNCHANGED record
       \/ pc[r] = "saving" /\ record' = Kept(writing[r].what) /\ UNCHANGED containers
    /\ UNCHANGED finalized

Cancel(r) ==
    /\ "cancel" \in Faults /\ ending[r] # "cancelled"
    /\ CancelledInRun(r) \/ CancelledOutside(r)
    /\ ending' = [ending EXCEPT ![r] = "cancelled"]
    /\ UNCHANGED <<resumed, base, offered, writing, ledgerVars, snapshot, shown>>

(* _RUNS and the ledgers are in memory; containers and Redis are not. *)
Crash ==
    /\ "crash" \in Faults /\ claim # NoRun
    /\ claim' = NoRun
    /\ pc' = [r \in Runs |-> IF pc[r] \in Waits THEN "dead" ELSE pc[r]]
    /\ UNCHANGED <<resumed, base, offered, finalized, ending, writing, ledgerVars,
                   storeVars, shown>>

(* Both keys are written with the same TTL, at different moments. *)
Expire ==
    /\ "expiry" \in Faults
    /\ \/ snapshot # NoSnapshot /\ snapshot' = NoSnapshot /\ UNCHANGED record
       \/ record # NoRecord /\ record' = NoRecord /\ UNCHANGED snapshot
    /\ UNCHANGED <<claim, callVars, ledgerVars, containers, shown>>

Step(r) ==
    \/ Look(r) \/ LoadRecord(r) \/ CannotAnnounce(r)
    \/ Create(r) \/ Start(r) \/ Drop(r) \/ Forget(r) \/ Recreate(r) \/ Restart(r)
    \/ ModelStarts(r) \/ Settles(r) \/ Concludes(r) \/ LeavesTry(r)
    \/ Persist(r) \/ Teardown(r)
    \/ BeginSave(r) \/ SaveLands(r) \/ SaveFails(r)
    \/ Cancel(r)

Next ==
    \/ \E r \in Runs : Call(r) \/ Forward(r) \/ Step(r)
    \/ \E m \in Posts : Post(m)
    \/ Crash \/ Expire

Spec == Init /\ [][Next]_vars

--------------------------------------------------------------------------------
(* Properties. *)

(* The thread is claimed from the call to the end of its delivery, by one   *)
(* call: a message posted while files are still sent is the run's, and no   *)
(* second container is ever started beside it.                              *)
ClaimCoversRun == \A r \in Runs : pc[r] \in Waits <=> claim = r

(* A run only replaces the saved workspace it started from, never one that  *)
(* another run of the thread saved meanwhile.                               *)
NoClobber ==
    \A r \in Runs : pc[r] = "persisting" =>
        snapshot = NoSnapshot \/ snapshot.version = base[r]

(* The record is only replaced by a run that was offered what it said, or   *)
(* has already replaced it.  A run that could not load the record at all    *)
(* starts without one, and replaces it all the same.                        *)
NoBlindOverwrite ==
    [][\A r \in Runs :
           pc[r] = "saving" /\ writing[r].made = 0 /\ record' # record =>
               \/ record = NoRecord
               \/ record.carry = offered[r]
               \/ offered[r] = Unread]_vars

(* A run that stops saving because nothing changed has saved the ledger as  *)
(* it is when the claim ends: nothing is filed between the two.             *)
NothingSlipsBy ==
    [][\A r \in Runs :
           pc[r] = "saving" /\ pc'[r] = "ended" /\ ending'[r] # "cancelled" =>
               \/ record' = Kept(Current(r))
               \/ "redis" \in Faults /\ record' = record
               \/ writing[r].made + 1 = SAVE_ATTEMPTS]_vars

(* Every follow-up of a run that was saved is in the record the next run    *)
(* loads: neither cap drops it in favour of an older message.               *)
FollowUpsKept ==
    [][\A r \in Runs :
           /\ pc[r] = "saving" /\ pc'[r] = "ended" /\ record' = Kept(Current(r))
           /\ ending'[r] # "cancelled"
           => ToSet(late[r]) \subseteq ToSet(record'.carry)]_vars

(* A saved workspace that cannot be unpacked, or expires on the way, never  *)
(* fails the run: each one reaches its model.  (Checked without Docker and  *)
(* Redis errors.)                                                           *)
RestoreNeverFatal == \A r \in Runs : ending[r] = "infra" => finalized[r]

(* What the documentation says. *)

(* run_sandbox_task: "the value that comes back on SandboxResult.resumed is *)
(* the ground truth".                                                       *)
ResumedIsTruth ==
    \A r \in Runs : pc[r] \in {"persisting", "removing", "closing", "saving"} /\ resumed[r] =>
        base[r] # 0

(* run_sandbox_task: "the container is always deleted in `finally`,         *)
(* including on timeout or any other error".                                *)
ContainersRemoved == \A r \in Runs : pc[r] = "ended" => r \notin containers

(* _save_conversation_record: "Follow-ups are capped (MAX_FOLLOW_UPS), so   *)
(* this settles; the attempt cap is only a backstop".                       *)
SaveSettles ==
    [][\A r \in Runs : pc[r] = "saving" /\ pc'[r] = "ended" => record' = Kept(Current(r))]_vars

(* deliver(): kept "so the next run in this thread is offered it — never    *)
(* silently dropped".                                                       *)
NotedIsNotForgotten ==
    \A r \in Runs : pc[r] = "ended" =>
        ToSet(late[r]) \subseteq ToSet(record.carry) \cup shown

================================================================================
