---------------------------- MODULE MCSandboxThread ----------------------------
(* Calls, posts and sizes for the runs of SandboxThread. *)
EXTENDS SandboxThread, TLC

CONSTANTS r1, r2, p1, p2

TwoRuns  == {r1, r2}
TwoPosts == {p1, p2}

(* Calls are interchangeable, and so are messages. *)
AllAlike == Permutations(TwoRuns) \cup Permutations(TwoPosts)

(* Two items fill a record, as ten of MAX_RECORD_ITEMS do in plain text. *)
Plain == [i \in Items |-> 1]

================================================================================
