-------------------------- MODULE MCMessagePipeline --------------------------
EXTENDS MessagePipeline, TLC
CONSTANTS m1, m2, m3, w1, w2, chat, thread
MCChannelOf == [m \in Messages |-> IF m = m3 THEN thread ELSE chat]
Alike == Permutations(Workers) \cup Permutations({m1, m2})
==============================================================================
