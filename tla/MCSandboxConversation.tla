------------------------- MODULE MCSandboxConversation -------------------------
(* Small runs for TLC: m1 is from the requester, m2 and m3 are not. *)
EXTENDS SandboxConversation
CONSTANTS m1, m2, m3

MCTextLength == [m \in Messages |-> 1]

(* Acting, acting with an answer, acting twice in one response. *)
SteeringResponses == {<<"respond">>, <<"respond", "shell">>, <<"shell", "shell">>}

(* Asking beside a gated call and alone, attaching a file with an answer or none. *)
AskingResponses ==
    {<<"ask", "shell">>, <<"respond", "shell">>, <<"ask">>, <<"attach">>, <<"respond", "attach">>}
================================================================================
