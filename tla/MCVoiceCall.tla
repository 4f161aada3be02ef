------------------------------ MODULE MCVoiceCall ------------------------------
EXTENDS VoiceCall, TLC
CONSTANTS s1, s2, a, b
MCAlike == Permutations(Sessions) \cup Permutations(Channels)
================================================================================
