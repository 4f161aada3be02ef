------------------------------ MODULE RunInputs ------------------------------
(***************************************************************************)
(* Which files of the chat a sandbox run is given, and under which names   *)
(* (core/classes/sandbox_inputs.py; _sandbox_input_files in                *)
(* core/classes/tool_functions.py).  A file name is a sequence: <<"x">> is *)
(* "x", <<"x", 2>> is "x-2"; names that a shell or a change of case makes  *)
(* the same are the same.  A candidate is a record of name, size and id.   *)
(***************************************************************************)
EXTENDS Naturals, Sequences
LOCAL INSTANCE SequencesExt
LOCAL INSTANCE FiniteSetsExt

CONSTANTS MAX_INPUT_FILES, MAX_INPUT_BYTES

ASSUME InputAssumption == {MAX_INPUT_FILES, MAX_INPUT_BYTES} \subseteq Nat

Members(s) == {s[i] : i \in DOMAIN s}
Names(candidates) == [i \in DOMAIN candidates |-> candidates[i].name]

(* A name that is taken gets the first number, from 2 on, that is not.      *)
unique_names(names) ==
    LET Free(out, name) == Min({n \in 2 .. Len(names) + 1 : Append(name, n) \notin Members(out)})
        Fresh(out, name) == IF name \in Members(out) THEN Append(name, Free(out, name)) ELSE name
    IN  FoldLeft(LAMBDA out, name : Append(out, Fresh(out, name)), << >>, names)

(* What comes with the request is always wanted; a name asked for that it   *)
(* does not hold is looked up in the channel, newest first.                 *)
Wanted(given, recent, requested) ==
    LET Add(wanted, c) == IF c \in Members(wanted) THEN wanted ELSE Append(wanted, c)
        Called(name) == SelectSeq(recent, LAMBDA c : c.name = name)
        Find(wanted, name) ==
            IF name \in Members(Names(wanted)) \/ Called(name) = << >>
            THEN wanted ELSE Append(wanted, Head(Called(name)))
    IN  FoldLeft(Find, FoldLeft(Add, << >>, given), requested)

TotalSize(candidates) == FoldLeft(LAMBDA total, c : total + c.size, 0, candidates)

(* The caps: one that is too large is passed over, and a later one may fit. *)
select(given, recent, requested) ==
    FoldLeft(LAMBDA chosen, c :
               IF /\ Len(chosen) < MAX_INPUT_FILES
                  /\ TotalSize(chosen) + c.size <= MAX_INPUT_BYTES
               THEN Append(chosen, c) ELSE chosen,
             << >>, Wanted(given, recent, requested))

(* The files the run is given, as they will be in in/. Names are given out  *)
(* before those that cannot be downloaded are left out.                     *)
input_files(given, recent, requested, unread) ==
    LET chosen == select(given, recent, requested)
        names == unique_names(Names(chosen))
    IN  {[path |-> names[i], size |-> chosen[i].size] : i \in {i \in DOMAIN chosen : chosen[i].id \notin unread}}
==============================================================================
