----------------------------- MODULE ThreadPromises ----------------------------
(***************************************************************************)
(* What the ledger of a run promises to the people in its thread, without  *)
(* any of its machinery.  Each accepted message is a promise, numbered in  *)
(* order of arrival.  A promise is kept by being settled; until then it    *)
(* stays owed, whatever else happens.  Once the run is finishing it takes  *)
(* no new promise: what still comes is carried over to a later run.        *)
(***************************************************************************)
EXTENDS Integers

VARIABLES
    open,      \* whether the run still takes messages
    issued,    \* the number of the last promise
    owed,      \* promises made and not settled
    carried    \* how many messages were put aside for a later run

promiseVars == <<open, issued, owed, carried>>

PromiseInit == open = TRUE /\ issued = 0 /\ owed = {} /\ carried = 0

(* A message is accepted; nothing already owed is dropped to make room. *)
Promise ==
    /\ open
    /\ issued' = issued + 1
    /\ owed' = owed \cup {issued + 1}
    /\ UNCHANGED <<open, carried>>

Settle ==
    /\ owed' \in SUBSET owed
    /\ UNCHANGED <<open, issued, carried>>

(* The model takes back "done": it will apply the change after all. *)
Reopen ==
    /\ owed' \in SUBSET (1..issued)
    /\ owed \subseteq owed'
    /\ UNCHANGED <<open, issued, carried>>

StopTaking ==
    /\ open' = FALSE
    /\ UNCHANGED <<issued, owed, carried>>

CarryOver ==
    /\ ~open
    /\ carried' = carried + 1
    /\ UNCHANGED <<open, issued, owed>>

PromiseNext == Promise \/ Settle \/ Reopen \/ StopTaking \/ CarryOver

PromiseSpec == PromiseInit /\ [][PromiseNext]_promiseVars

================================================================================
