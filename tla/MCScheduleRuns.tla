----------------------------- MODULE MCScheduleRuns -----------------------------
(* Timings for ScheduleRuns: the minimum gap is 3 units, the grace 1. *)
EXTENDS ScheduleRuns

OneOff(t)     == [once |-> TRUE,  start |-> t, every |-> 9]
Every(n, t)   == [once |-> FALSE, start |-> t, every |-> n]

(* Every minimum gap, the shortest timetable the form allows. *)
Shortest == Every(3, 1)

(* A timetable with no start, a later one-off, and a slower timetable. *)
Edits == {Every(3, NoTime), OneOff(2), Every(4, 1)}
NoEdits == {}
================================================================================
