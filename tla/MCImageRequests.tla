---------------------------- MODULE MCImageRequests ----------------------------
EXTENDS ImageRequests
CONSTANTS a, edit, slash, reply
MCReplyOf == [c \in Calls \ Slash |-> reply]
================================================================================
