------------------------------ MODULE RunOutput ------------------------------
(***************************************************************************)
(* What people see of a sandbox run: its card, the files it attaches or    *)
(* leaves in out/, and its closing message (run_sandbox_task, attach_file, *)
(* _deliver in core/classes/sandbox_agent.py; _run_claimed_sandbox in      *)
(* core/classes/tool_functions.py).  One thread, one run after the other,  *)
(* each resuming the workspace of the one before if it can be restored.    *)
(***************************************************************************)
EXTENDS ProgressCard, RunInputs

CONSTANTS
    MAX_RUNS,           \* BOUND: runs of the thread
    Workloads,          \* BOUND: the sets of tool calls its runs make together
    Attaches,           \* calls of attach_file
    Files,
    OutFiles,           \* the files that are in out/; one in in/ is a name of RunInputs
    Offers,             \* BOUND: what a request comes with, and asks for
    Outputs,            \* BOUND: what each command may write: files of a size, some
                        \* with an old time
    MAX_ARTIFACT_FILES,
    MAX_ARTIFACT_BYTES

AllCalls == Calls \cup Attaches

ASSUME OutputAssumption ==
    /\ MAX_RUNS \in Nat \ {0}
    /\ Attaches \cap (Calls \cup {Card, NoCall}) = {}
    /\ Workloads \subseteq SUBSET AllCalls
    /\ OutFiles \subseteq Files
    /\ Outputs \in [Calls -> SUBSET SUBSET [path : Files, size : Nat \ {0}, old : BOOLEAN]]
    /\ {MAX_ARTIFACT_FILES, MAX_ARTIFACT_BYTES} \subseteq Nat

VARIABLES
    run,            \* which run of the thread
    phase,          \* where it is
    live,           \* whether its card is the live one (/sandbox_progress_updates)
    turn,           \* in a run: "idle", "model" or "tools"
    at,             \* where each tool call is
    disk,           \* the files of the workspace: size (0: none), the run that put it
                    \* there, and the run its modification time falls into
    marker,         \* whether the run could touch its marker
    touched,        \* the run that touched the marker file of the workspace last
    statted,        \* the file an attach_file call looked at, and its size
    inputs,         \* files of the chat that are still to be put into in/
    deliverables,   \* what the model attached
    artifacts,      \* place -> the file that is sent: of which run, chosen by the model
    ok,             \* the run ended with an answer of its own
    lead,           \* the answer is still to be posted
    text,           \* the answer says something
    told,           \* its posts: whether the send came back, or raised nonetheless
    landed          \* a file was sent

runVars  == <<run, phase, live, turn>>
toolVars == <<at, statted>>
markVars == <<marker, touched>>
fileVars == <<disk, markVars, inputs, deliverables>>
sendVars == <<artifacts, ok, lead, text, told, landed>>
outputVars == <<cardVars, runVars, toolVars, fileVars, sendVars>>

NoFile   == [size |-> 0, run |-> 0, time |-> 0]
Exists(f) == disk[f].size # 0
NoStat   == [file |-> "none", size |-> 0]

Phases == {"idle", "opening", "preparing", "running", "stopped", "broken",
           "collecting", "failing", "closing", "sending", "over"}

OutputTypeOK ==
    /\ CardTypeOK
    /\ run \in 0..MAX_RUNS /\ phase \in Phases
    /\ {live, marker, ok, lead, text, landed} \subseteq BOOLEAN
    /\ turn \in {"idle", "model", "tools"}
    /\ at \in [AllCalls -> {"new", "called", "announcing", "working", "checking",
                            "reporting", "done"}]
    /\ disk \in [Files -> [size : Nat, run : 0..MAX_RUNS, time : 0..MAX_RUNS]]
    /\ touched \in 0..MAX_RUNS
    /\ \A i \in DOMAIN deliverables : deliverables[i].path \in Files
    /\ \A i \in inputs : i.path \in Files
    /\ told \in Seq(BOOLEAN)

OutputInit ==
    /\ CardInit
    /\ run = 0 /\ phase = "idle" /\ live = FALSE /\ turn = "idle"
    /\ \E W \in Workloads : at = [c \in AllCalls |-> IF c \in W THEN "new" ELSE "done"]
    /\ statted = [c \in Attaches |-> NoStat]
    /\ disk = [f \in Files |-> NoFile] /\ marker = FALSE /\ touched = 0
    /\ inputs = {} /\ deliverables = << >>
    /\ artifacts = << >> /\ ok = FALSE /\ lead = FALSE /\ text = FALSE
    /\ told = << >> /\ landed = FALSE

--------------------------------------------------------------------------------
(* Opening a run. *)

(* The live card is sent before anything else, if the server has it         *)
(* switched on; the files are downloaded even before that.                  *)
Open(is_live) ==
    /\ phase \in {"idle", "over"} /\ run < MAX_RUNS
    /\ run' = run + 1 /\ phase' = "opening"
    /\ live' = is_live
    /\ CardStarts(is_live)
    /\ \E o \in Offers : \E unread \in SUBSET {c.id : c \in Members(o.given \o o.recent)} :
         inputs' = input_files(o.given, o.recent, o.requested, unread)
    /\ deliverables' = << >> /\ statted' = [c \in Attaches |-> NoStat]
    /\ artifacts' = << >> /\ ok' = FALSE /\ lead' = FALSE /\ text' = FALSE
    /\ told' = << >> /\ landed' = FALSE
    /\ UNCHANGED <<turn, at, disk, markVars>>

Opened ==
    /\ phase = "opening" /\ ~IsFlushing(Card)
    /\ phase' = "preparing"
    /\ UNCHANGED <<cardVars, run, live, turn, toolVars, fileVars, sendVars>>

(* _create_sandbox_session restores the files of earlier runs, with the     *)
(* times they had, or starts empty; then out/ is made, the marker is        *)
(* touched beside it, and the inputs are written, over what an earlier run  *)
(* had under their names.                                                   *)
Restored(f, restored) == IF restored THEN disk[f] ELSE NoFile

FileOf(size, time) == [size |-> size, run |-> run, time |-> time]

Written(f, inputs_written, otherwise) ==
    IF \E i \in inputs_written : i.path = f
    THEN FileOf((CHOOSE i \in inputs_written : i.path = f).size, run) ELSE otherwise

(* Mutant: a marker that is there already is left as it is. *)
FirstRunStart(restored, touch) ==
    /\ marker' = touch
    /\ touched' = IF restored /\ touched # 0 THEN touched ELSE IF touch THEN run ELSE 0
(* The marker an earlier run left is touched again.                         *)
MarkRunStart(restored, touch) ==
    /\ marker' = touch
    /\ touched' = IF touch THEN run ELSE IF restored THEN touched ELSE 0

(* Without an out/, whose place cannot be told, there is no marker and      *)
(* nothing is written; or the touch fails.                                  *)
Prepare(restored, out_dir, touch, inputs_written) ==
    /\ phase = "preparing" /\ phase' = "running"
    /\ out_dir \/ (inputs_written = {} /\ ~touch)
    /\ disk' = [f \in Files |-> Written(f, inputs_written, Restored(f, restored))]
    /\ MarkRunStart(restored, touch) /\ inputs' = {}
    /\ UNCHANGED <<cardVars, run, live, turn, toolVars, deliverables, sendVars>>

(* No container, or no shell in it. *)
CannotPrepare ==
    /\ phase = "preparing" /\ phase' = "failing"
    /\ UNCHANGED <<cardVars, run, live, turn, toolVars, fileVars, sendVars>>

--------------------------------------------------------------------------------
(* The run: the model answers with tool calls, which run concurrently. *)

Hook(A) == IF live THEN A ELSE UNCHANGED cardVars

ModelIsCalled ==
    /\ phase = "running" /\ turn = "idle" /\ turn' = "model"
    /\ Hook(LlmStarts)
    /\ UNCHANGED <<run, phase, live, toolVars, fileVars, sendVars>>

ModelAnswers(S) ==
    /\ phase = "running" /\ turn = "model" /\ turn' = "tools"
    /\ S # {} /\ \A c \in S : at[c] = "new"
    /\ at' = [c \in AllCalls |-> IF c \in S THEN "called" ELSE at[c]]
    /\ Hook(LlmEnds)
    /\ UNCHANGED <<run, phase, live, statted, fileVars, sendVars>>

ToolsAreDone ==
    /\ phase = "running" /\ turn = "tools" /\ turn' = "idle"
    /\ \A c \in AllCalls : at[c] \in {"new", "done"}
    /\ UNCHANGED <<cardVars, run, phase, live, toolVars, fileVars, sendVars>>

(* A hook that updates the card makes its call wait for Discord. *)
GoesOn(c, waiting, on) ==
    at' = [at EXCEPT ![c] = IF flushing'[c].on THEN waiting ELSE on]

CallStarts(c) ==
    /\ phase = "running" /\ c \in Calls /\ at[c] = "called"
    /\ Hook(ToolStarts(c))
    /\ GoesOn(c, "announcing", "working")
    /\ UNCHANGED <<runVars, statted, fileVars, sendVars>>

(* A command, or input to one, may write files, or bring some there with    *)
(* the time they had elsewhere (cp -p, unzip); it ends, or goes on behind   *)
(* the call's back.                                                         *)
WritesFiles(c) ==
    \E O \in Outputs[c] :
        disk' = [f \in Files |-> IF \E o \in O : o.path = f
                   THEN LET o == CHOOSE x \in O : x.path = f
                        IN  FileOf(o.size, IF o.old THEN 0 ELSE run)
                   ELSE disk[f]]

CommandRuns(c) ==
    /\ phase = "running" /\ c \in Calls /\ at[c] = "working"
    /\ Hook(ToolEnds(c))
    /\ GoesOn(c, "reporting", "done")
    /\ UNCHANGED disk \/ WritesFiles(c)
    /\ UNCHANGED <<runVars, statted, markVars, inputs, deliverables, sendVars>>

CommandSaysNothing(c) ==
    /\ phase = "running" /\ c \in Polls /\ at[c] = "working"
    /\ Hook(ToolSaysNothing(c))
    /\ at' = [at EXCEPT ![c] = "done"]
    /\ UNCHANGED <<runVars, statted, fileVars, sendVars>>

(* The gate refuses a command or an attachment. *)
IsRefused(c) ==
    /\ phase = "running"
    /\ \/ /\ c \in Execs /\ at[c] = "working"
          /\ Hook(ToolIsRefused(c))
          /\ GoesOn(c, "reporting", "done")
       \/ /\ c \in Attaches /\ at[c] = "called"
          /\ at' = [at EXCEPT ![c] = "done"]
          /\ UNCHANGED cardVars
    /\ UNCHANGED <<runVars, statted, fileVars, sendVars>>

--------------------------------------------------------------------------------
(* attach_file *)

Entry(path, size) == [path |-> path, size |-> size]
IsAttached(path) == \E i \in DOMAIN deliverables : deliverables[i].path = path

(* It asks for the size of the file, and waits; or the file is not there,   *)
(* or too large.                                                            *)
AttachChecks(c, f) ==
    /\ phase = "running" /\ c \in Attaches /\ at[c] = "called"
    /\ IF Exists(f) /\ disk[f].size <= MAX_ARTIFACT_BYTES
       THEN /\ at' = [at EXCEPT ![c] = "checking"]
            /\ statted' = [statted EXCEPT ![c] = [file |-> f, size |-> disk[f].size]]
       ELSE at' = [at EXCEPT ![c] = "done"] /\ UNCHANGED statted
    /\ UNCHANGED <<cardVars, runVars, fileVars, sendVars>>

(* A path attached again is replaced; a new one is added while there is     *)
(* room.                                                                    *)
Attached(path, size) ==
    CASE IsAttached(path) ->
           [i \in DOMAIN deliverables |-> IF deliverables[i].path = path
                THEN Entry(path, size) ELSE deliverables[i]]
      [] ~IsAttached(path) /\ Len(deliverables) < MAX_ARTIFACT_FILES ->
           Append(deliverables, Entry(path, size))
      [] OTHER -> deliverables

AttachRecords(c) ==
    /\ phase = "running" /\ c \in Attaches /\ at[c] = "checking"
    /\ deliverables' = Attached(statted[c].file, statted[c].size)
    /\ at' = [at EXCEPT ![c] = "done"]
    /\ statted' = [statted EXCEPT ![c] = NoStat]
    /\ UNCHANGED <<cardVars, runVars, disk, markVars, inputs, sendVars>>

Removes(c, f) ==
    /\ phase = "running" /\ c \in Attaches /\ at[c] = "called"
    /\ deliverables' = SelectSeq(deliverables, LAMBDA e : e.path # f)
    /\ at' = [at EXCEPT ![c] = "done"]
    /\ UNCHANGED <<cardVars, runVars, statted, disk, markVars, inputs, sendVars>>

--------------------------------------------------------------------------------
(* The end of a run. *)

(* The model's answer calls no tool: the run has an answer, and is over     *)
(* unless people wrote meanwhile and the model is called again.             *)
Finishes(over) ==
    /\ phase = "running" /\ turn = "model" /\ turn' = "idle"
    /\ phase' = IF over THEN "collecting" ELSE phase
    /\ ok' = TRUE
    /\ Hook(LlmEnds)
    /\ UNCHANGED <<run, live, toolVars, fileVars, artifacts, lead, text, told, landed>>

(* Out of time, out of turns, a model that misbehaves ("stopped"), or the   *)
(* sandbox itself ("broken"): whatever still runs is cancelled.             *)
Stops(how) ==
    /\ phase = "running" /\ phase' = how
    /\ turn' = "idle"
    /\ at' = [c \in AllCalls |-> IF at[c] = "new" THEN "new" ELSE "done"]
    /\ UNCHANGED <<cardVars, run, live, statted, fileVars, sendVars>>

Cancelling == phase \in {"stopped", "broken"}

HookIsCancelled(c) ==
    /\ Cancelling /\ FlushIsCancelled(c)
    /\ UNCHANGED <<runVars, toolVars, fileVars, sendVars>>

(* An answer from before stands if it was the time that ran out.            *)
Stopped ==
    /\ Cancelling /\ \A f \in Flushers : ~IsFlushing(f)
    /\ IF phase = "stopped"
       THEN phase' = "collecting" /\ ok' \in {ok, FALSE}
       ELSE phase' = "failing" /\ ok' = FALSE
    /\ UNCHANGED <<cardVars, run, live, turn, toolVars, fileVars, artifacts, lead, text,
                   told, landed>>

(* The caps, over sizes known beforehand: the total may leave out a file    *)
(* and still take a smaller one after it.                                   *)
Fits(taken, entry) ==
    taken.files < MAX_ARTIFACT_FILES /\ taken.bytes + entry.size <= MAX_ARTIFACT_BYTES

(* The places of the entries that are taken, each after those before it.    *)
WithinCaps(entries) ==
    LET Taken[i \in 0 .. Len(entries)] ==
          CASE i = 0 -> [files |-> 0, bytes |-> 0]
            [] i > 0 /\ Fits(Taken[i - 1], entries[i]) ->
                 [files |-> Taken[i - 1].files + 1, bytes |-> Taken[i - 1].bytes + entries[i].size]
            [] OTHER -> Taken[i - 1]
    IN  {i \in DOMAIN entries : Fits(Taken[i - 1], entries[i])}

(* What find lists: with a marker, only what is newer than it is.           *)
FoundOutput(f) == Exists(f) /\ (marker => disk[f].time >= touched)

Found == {f \in OutFiles : FoundOutput(f)}

(* In whatever order; or nothing, without an out/ or an answer. *)
Orders(S) == {s \in [1 .. Cardinality(S) -> S] : \A i, j \in DOMAIN s : s[i] = s[j] => i = j}
Listings == {<< >>} \cup
    {[i \in DOMAIN s |-> Entry(s[i], disk[s[i]].size)] : s \in Orders(Found)}

(* _deliver: what was attached, or else a sweep of out/, by its place among  *)
(* the entries.  A file that cannot be read is left out.                    *)
There(entries, unreadable) ==
    {i \in WithinCaps(entries) : Exists(entries[i].path) /\ entries[i].path \notin unreadable}

Read(entries, chosen, unreadable) ==
    [i \in There(entries, unreadable) |->
        [chosen |-> chosen, run |-> disk[entries[i].path].run]]

collect_deliverables(unreadable) == {Read(deliverables, TRUE, unreadable)}
collect_artifacts(unreadable) == {Read(listing, FALSE, unreadable) : listing \in Listings}

Collects(unreadable) ==
    /\ phase = "collecting" /\ phase' = "closing"
    /\ artifacts' \in IF deliverables # << >> THEN collect_deliverables(unreadable)
                      ELSE collect_artifacts(unreadable)
    /\ Hook(CardEnds)
    /\ text' \in {FALSE, ok} /\ lead' = text'
    /\ UNCHANGED <<run, live, turn, toolVars, fileVars, ok, told, landed>>

(* A collection that fails as a whole makes the run a failed one, answer or *)
(* not; that and a sandbox that failed send nothing.                        *)
CollectsNothing ==
    /\ phase \in {"collecting", "failing"}
    /\ phase' = "closing" /\ artifacts' = << >> /\ ok' = FALSE
    /\ Hook(CardEnds)
    /\ UNCHANGED <<run, live, turn, toolVars, fileVars, lead, text, told, landed>>

Closed ==
    /\ phase = "closing" /\ ~IsFlushing(Card) /\ phase' = "sending"
    /\ UNCHANGED <<cardVars, run, live, turn, toolVars, fileVars, sendVars>>

(* Mutant: the answer counts as posted when it is handed over. *)
ForgottenWhenTried(sent) == FALSE
(* The answer rides on a file, and is still due if that one fails. *)
StillDue(sent) == lead /\ ~sent

Unsent == DOMAIN artifacts
Foremost == CHOOSE i \in Unsent : \A j \in Unsent : i <= j

(* A send that comes back was posted; of one that raises nobody can tell:   *)
(* a timeout or a server error may follow the post.  The code takes it for  *)
(* not posted.                                                              *)
Tells(sent) == told' = Append(told, sent)
MayTell(sent) == Tells(sent) \/ (~sent /\ UNCHANGED told)

SendsFile(sent) ==
    /\ phase = "sending" /\ Unsent # {}
    /\ artifacts' = [i \in Unsent \ {Foremost} |-> artifacts[i]]
    /\ landed' = (landed \/ sent)
    /\ IF lead THEN MayTell(sent) ELSE UNCHANGED told
    /\ lead' = StillDue(sent)
    /\ UNCHANGED <<cardVars, runVars, toolVars, fileVars, ok, text>>

(* No file took the answer along. *)
SendsAnswer(sent) ==
    /\ phase = "sending" /\ Unsent = {} /\ lead
    /\ MayTell(sent)
    /\ lead' = FALSE /\ phase' = "over"
    /\ UNCHANGED <<cardVars, run, live, turn, toolVars, fileVars, artifacts, ok, text, landed>>

Ends ==
    /\ phase = "sending" /\ Unsent = {} /\ ~lead
    /\ phase' = "over"
    /\ UNCHANGED <<cardVars, run, live, turn, toolVars, fileVars, sendVars>>

(* What the chat model is told.  Of a run that is "delivered" it is told     *)
(* that the user has already read the message of the run; of one that is     *)
(* "finished", what the message says, for it to pass on.                     *)
sandbox_tool_result ==
    CASE ok /\ landed   -> "delivered"
      [] ok /\ ~landed  -> "finished"
      [] ~ok /\ landed  -> "recovered"
      [] OTHER          -> "unfinished"

--------------------------------------------------------------------------------
(* Discord answers updates of the card whenever it likes, and the call that *)
(* waited for one goes on.                                                  *)
After(waiting) == IF waiting = "announcing" THEN "working" ELSE "done"

Discord(f) ==
    /\ ~Cancelling
    /\ FlushLands(f) \/ FlushFindsNothing(f) \/ FlushFails(f)
    /\ at' = IF f \in Calls THEN [at EXCEPT ![f] = After(at[f])] ELSE at
    /\ UNCHANGED <<runVars, statted, fileVars, sendVars>>

SomebodyDeletes ==
    /\ DeletesTheMessage
    /\ UNCHANGED <<runVars, toolVars, fileVars, sendVars>>

OutputNext ==
    \/ \E is_live \in BOOLEAN : Open(is_live)
    \/ Opened
    \/ \E restored, out_dir, touch \in BOOLEAN, inputs_written \in SUBSET inputs :
         Prepare(restored, out_dir, touch, inputs_written)
    \/ CannotPrepare \/ ModelIsCalled \/ ToolsAreDone
    \/ \E S \in SUBSET AllCalls : ModelAnswers(S)
    \/ \E c \in AllCalls :
         \/ CallStarts(c)
         \/ CommandRuns(c) \/ CommandSaysNothing(c) \/ IsRefused(c)
    \/ \E c \in Attaches :
         \/ AttachRecords(c)
         \/ \E f \in Files : AttachChecks(c, f) \/ Removes(c, f)
    \/ Stopped
    \/ \E over \in BOOLEAN : Finishes(over)
    \/ \E how \in {"stopped", "broken"} : Stops(how)
    \/ \E f \in Flushers : HookIsCancelled(f) \/ Discord(f)
    \/ \E unreadable \in SUBSET Files : Collects(unreadable)
    \/ CollectsNothing \/ Closed
    \/ \E sent \in BOOLEAN : SendsFile(sent) \/ SendsAnswer(sent)
    \/ Ends \/ SomebodyDeletes

OutputSpec == OutputInit /\ [][OutputNext]_outputVars

--------------------------------------------------------------------------------
(* Properties *)

(* A run that could mark its start sends no file of an earlier run unless   *)
(* its model attached it ("without the filter run #2 re-delivers run #1's   *)
(* files alongside its own"): the times find compares tell the runs apart,  *)
(* whatever was restored and whoever touched the marker before.             *)
OldFilesStay ==
    marker => \A i \in DOMAIN artifacts : artifacts[i].chosen \/ artifacts[i].run = run

(* The closing message of a run is posted again only after a post whose     *)
(* send raised; and if the chat model is told "the user has already read    *)
(* it", a send of it came back.                                             *)
AnswerIsSaidOnce ==
    phase = "over" =>
        /\ \A i \in DOMAIN told : i < Len(told) => ~told[i]
        /\ sandbox_tool_result = "delivered" /\ text => told # << >> /\ told[Len(told)]

(* The closing message is never in the thread twice.  Not so: a send may    *)
(* raise after Discord took it, and the message rides on the next file too. *)
NeverSaidTwice == Len(told) <= 1
===============================================================================
