---------------------------- MODULE HistoryPolicy ----------------------------
(***************************************************************************)
(* Which messages go into a prompt: the decisions of history_policy.py in  *)
(* anchored mode. A message is its id, and ids grow. The anchor is the     *)
(* lower bound of the window and the trigger it was last refreshed at;     *)
(* between refreshes every prompt is the one before it plus a tail, which  *)
(* is what the LLM server's prompt cache can use again.                    *)
(***************************************************************************)
EXTENDS Integers, Sequences, FiniteSets, SequencesExt, FiniteSetsExt

CONSTANTS
    TokensOf,           \* message id -> its estimated tokens
    Resets,             \* the ids that are a !reset_history
    Limit,              \* MSG_HISTORY_LIMIT
    RefreshEvery,       \* MSG_HISTORY_REFRESH_MESSAGES
    Reserve             \* MSG_HISTORY_RESERVE_TOKENS

ASSUME PolicyAssumption == {Limit, RefreshEvery, Reserve} \subseteq Nat \ {0}

NoAnchor == [after |-> 0, trigger |-> 0]
Unknown == 0        \* no slot context has been read yet

KEEP == "keep"
REFRESH == "refresh"
SNAPSHOT == "snapshot"

max_window == IF Limit + RefreshEvery >= 2 THEN Limit + RefreshEvery - 2 ELSE 0

\* What can be decided before anything is fetched; KEEP stands for "go and see".
initial_decision(state, trigger) ==
    IF state = NoAnchor THEN REFRESH
    ELSE IF trigger < state.trigger THEN SNAPSHOT
    ELSE KEEP

\* Messages since the last refresh, counting this trigger.
New(state, fetched) == Len(SelectSeq(fetched, LAMBDA m : m > state.trigger)) + 1

Burst(fetched) == Len(fetched) > max_window
HasReset(fetched) == ToSet(fetched) \cap Resets # {}

window_decision(state, fetched) ==
    IF Burst(fetched) \/ HasReset(fetched) \/ New(state, fetched) >= RefreshEvery
    THEN REFRESH ELSE KEEP

\* Mutant: the window's lower bound excludes the message it begins with.
state_at_oldest(included, trigger) ==
    [after |-> Min(ToSet(included) \cup {trigger}), trigger |-> trigger]

\* One below the oldest included message, or below the trigger.
state_after_refresh(included, trigger) ==
    [after |-> Min(ToSet(included) \cup {trigger}) - 1, trigger |-> trigger]

\* HistoryStore.commit: an anchor never moves to an older trigger.
Committed(current, state) ==
    IF current # NoAnchor /\ state.trigger <= current.trigger THEN current ELSE state

Tokens(s) == FoldSeq(LAMBDA m, sum : TokensOf[m] + sum, 0, s)

\* Tokens for history and trigger. A reserve that would eat the whole slot
\* leaves half of it.
history_budget(slot) == IF Reserve >= slot THEN slot \div 2 ELSE slot - Reserve

Fits(s, trigger, slot) == slot = Unknown \/ TokensOf[trigger] + Tokens(s) <= history_budget(slot)

\* The oldest messages go until the rest fits; the trigger never goes.
Trimmed(s, trigger, slot) ==
    LET drop == Min({Len(s)} \cup
                    {d \in 0 .. Len(s) : Fits(SubSeq(s, d + 1, Len(s)), trigger, slot)})
    IN  SubSeq(s, drop + 1, Len(s))

(***************************************************************************)
(* Reads of channel.history, given the messages there are                  *)
(***************************************************************************)
\* Oldest first: the k-th has k - 1 before it.
InOrder(S) ==
    [k \in 1 .. Cardinality(S) |-> CHOOSE m \in S : Cardinality({n \in S : n < m}) = k - 1]

\* _fetch_after: up to max_window + 1 messages after the bound, oldest first.
fetch_after(present, state, trigger) ==
    LET all == InOrder({m \in present : state.after < m /\ m < trigger})
    IN  SubSeq(all, 1, Min({Len(all), max_window + 1}))

\* _fetch_recent: the newest Limit - 1 before the trigger, and nothing from
\* the last reset back.
fetch_recent(present, trigger) ==
    LET before == InOrder({m \in present : m < trigger})
        newest == SubSeq(before, Max({1, Len(before) - (Limit - 2)}), Len(before))
        cut    == Max({0} \cup {i \in DOMAIN newest : newest[i] \in Resets})
    IN  SubSeq(newest, cut + 1, Len(newest))
==============================================================================
