----------------------------- MODULE MCRunOutput -----------------------------
(* Small instance of RunOutput. *)
EXTENDS RunOutput, TLC

CONSTANTS c, d, e, w, x, y, f, g

Upload == [name |-> <<"u">>, size |-> 1, id |-> 1]

\* A request that comes with a file, which may turn out unreadable.
ChatFiles == {[given |-> <<Upload>>, recent |-> << >>, requested |-> << >>]}

Workspace == {f, g, <<"u">>}

\* Only e writes: two files of out/ of which one is older than the run, or two
\* that are too large together.
Output(path, size, old) == [path |-> path, size |-> size, old |-> old]
CommandOutputs ==
    [call \in {c, d, w} |-> {}] @@
        (e :> {{Output(f, 1, FALSE), Output(g, 1, TRUE)}, {Output(f, 2, FALSE), Output(g, 1, FALSE)}})

\* c and d are alike.
Alike == Permutations({c, d})

\* Two commands next to each other; one with input to it; one that writes the
\* file that is attached; and a file that is attached twice.
CallSets == {{c, d}, {e, w}, {e, x}, {x, y}}

(* What the selection of files promises, for every small request.           *)
Upto(n, S) == UNION {[1 .. k -> S] : k \in 0 .. n}
SomeNames == {<<"a">>, <<"a", 2>>, <<"b">>}
InChat == {[name |-> <<"a">>, size |-> 1, id |-> 1], [name |-> <<"a">>, size |-> 2, id |-> 2],
           [name |-> <<"b">>, size |-> 1, id |-> 3]}

\* No two files of a run share a name, not even one that a user had numbered.
ASSUME NamesAreDistinct ==
    \A names \in Upto(4, SomeNames) :
        LET out == unique_names(names)
        IN  Len(out) = Len(names) /\ \A i, j \in DOMAIN out : i # j => out[i] # out[j]

\* A file is chosen at most once and within the caps; one that is left out
\* would not have fitted beside those chosen.
ASSUME ChosenWithinCaps ==
    \A given, recent \in Upto(2, InChat), requested \in Upto(2, {<<"a">>, <<"b">>, <<"z">>}) :
        LET chosen == select(given, recent, requested)
        IN  /\ Len(chosen) <= MAX_INPUT_FILES /\ TotalSize(chosen) <= MAX_INPUT_BYTES
            /\ \A i, j \in DOMAIN chosen : i # j => chosen[i].id # chosen[j].id
            /\ \A k \in Members(given) \ Members(chosen) :
                 Len(chosen) = MAX_INPUT_FILES \/ TotalSize(chosen) + k.size > MAX_INPUT_BYTES
===============================================================================
