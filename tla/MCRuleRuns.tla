------------------------------ MODULE MCRuleRuns -------------------------------
(* A small server: message m1 is delivered twice and matches every rule, m2 *)
(* matches the first.                                                       *)
EXTENDS RuleRuns, TLC

CONSTANTS d1, d2, d3, m1, m2

(* People are alike, and so are the two deliveries of m1. *)
AllAlike == Permutations(People) \cup Permutations({d1, d2})

Delivered == (d1 :> m1) @@ (d2 :> m1) @@ (d3 :> m2)
Matched   == {<<1, m1>>, <<2, m1>>, <<3, m1>>, <<1, m2>>}
================================================================================
