---------------------------- MODULE MCPromptBuild ----------------------------
EXTENDS PromptBuild, TLC

CONSTANTS w1, w2, Free
WorkerSymmetry == Permutations({w1, w2})

MCMessages == 1 .. 5
MCKeys == {<<1, 1>>, <<3, 1>>}
MCSizeOf == (<<1, 1>> :> 2) @@ (<<3, 1>> :> 1)
MCTokensOf == [m \in MCMessages |-> IF m = 3 THEN 2 ELSE 1]
==============================================================================
