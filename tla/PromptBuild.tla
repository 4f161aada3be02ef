----------------------------- MODULE PromptBuild -----------------------------
(***************************************************************************)
(* Building a prompt: MessageHandler.select_messages under the channel     *)
(* lock, prepare_messages outside it. Workers take triggers in the order   *)
(* of the queue and reach the lock in any order. People delete messages    *)
(* and edit attachments away meanwhile; the events that tell the cache     *)
(* arrive later and in any order.                                          *)
(***************************************************************************)
EXTENDS HistoryPolicy, AttachmentCache

CONSTANTS
    Workers,
    Nobody,
    Triggers,       \* the messages the bot answers
    Slots,          \* slot contexts the LLM server may report
    Deletable,      \* messages people may delete
    MaxBuild,       \* how long a prompt build may take
    MaxReads        \* bound on changes of the slot context

ASSUME PromptAssumption ==
    /\ Nobody \notin Workers
    /\ Triggers \subseteq Messages \ Resets
    /\ MaxBuild \in Nat /\ MaxBuild <= TTL

\* A channel has finitely many messages, and an id is a positive number.
ASSUME MessagesAssumption == IsFiniteSet(Messages) /\ Messages \subseteq Nat \ {0}

VARIABLES
    present,        \* messages Discord has
    attached,       \* attachments Discord has
    events,         \* <<message, deleted>> on their way to the bot
    slot,           \* the slot context last read
    reads,
    anchor,         \* HistoryStore, this channel's entry
    lock,           \* the worker that holds the channel lock
    builds,         \* worker -> its build
    picked,         \* the last trigger taken from the queue
    last            \* history: last prompt of this anchor

prompt_vars == <<present, attached, events, slot, reads, anchor, lock, builds, picked, last>>
vars == <<cache_vars, prompt_vars>>

Idle == [phase |-> "idle"]
InPhase(w, phase) == builds[w].phase = phase
Images(m) == {k \in Keys : k[1] = m}

TypeOK ==
    /\ CacheTypeOK
    /\ present \subseteq Messages /\ attached \subseteq Keys
    /\ events \subseteq Messages \X BOOLEAN
    /\ slot \in Slots \cup {Unknown}
    /\ lock \in Workers \cup {Nobody}
    /\ \A w \in Workers :
         builds[w].phase \in {"idle", "queued", "after", "recent", "prepare", "ready"}

Init ==
    /\ CacheInit
    /\ present = Messages /\ attached = Keys /\ events = {}
    /\ slot = Unknown /\ reads = 0
    /\ anchor = NoAnchor /\ lock = Nobody
    /\ builds = [w \in Workers |-> Idle]
    /\ picked = 0 /\ last = << >>

(***************************************************************************)
(* select_messages                                                         *)
(***************************************************************************)
Pick(w) ==
    /\ InPhase(w, "idle")
    /\ \E t \in Triggers :
         /\ t > picked /\ t \in present
         /\ picked' = t
         /\ builds' = [builds EXCEPT ![w] = [phase |-> "queued", trigger |-> t]]
    /\ UNCHANGED <<cache_vars, present, attached, events, slot, reads, anchor, lock, last>>

\* The lock is taken; the cache's generation and the budget are read and the
\* first decision made before the first await.
BeginSelect(w) ==
    LET t == builds[w].trigger
        d == initial_decision(anchor, t)
    IN  /\ InPhase(w, "queued") /\ lock = Nobody
        /\ lock' = w
        /\ builds' = [builds EXCEPT ![w] =
             [phase |-> IF d = KEEP THEN "after" ELSE "recent", trigger |-> t, decision |-> d,
              state |-> anchor, slot |-> slot, generation |-> generation, began |-> clock]]
        /\ UNCHANGED <<cache_vars, present, attached, events, slot, reads, anchor, picked, last>>

\* The window is chosen: a refresh commits the anchor, the lock is released.
Selected(w, decision, window) ==
    LET b == builds[w]
    IN  /\ anchor' = IF decision = REFRESH
                     THEN Committed(anchor, state_after_refresh(window, b.trigger)) ELSE anchor
        /\ last' = IF decision = SNAPSHOT THEN last ELSE Append(window, b.trigger)
        /\ lock' = Nobody
        /\ LET wanted == UNION {Images(m) \cap attached : m \in ToSet(window) \cup {b.trigger}}
           IN  builds' = [builds EXCEPT ![w] =
                 [phase |-> "prepare", trigger |-> b.trigger, decision |-> decision, slot |-> b.slot,
                  generation |-> b.generation, began |-> b.began, window |-> window,
                  wanted |-> wanted, waiting |-> {}]]
        /\ UNCHANGED <<cache_vars, present, attached, events, slot, reads, picked>>

FetchAfter(w) ==
    LET b == builds[w]
        fetched == fetch_after(present, b.state, b.trigger)
        keep == window_decision(b.state, fetched) = KEEP /\ Fits(fetched, b.trigger, b.slot)
    IN  /\ InPhase(w, "after")
        /\ IF keep
           THEN Selected(w, KEEP, fetched)
           ELSE /\ builds' = [builds EXCEPT ![w].phase = "recent", ![w].decision = REFRESH]
                /\ UNCHANGED <<cache_vars, present, attached, events, slot, reads, anchor, lock, picked, last>>

FetchRecent(w) ==
    LET b == builds[w]
    IN  /\ InPhase(w, "recent")
        /\ Selected(w, b.decision, Trimmed(fetch_recent(present, b.trigger), b.trigger, b.slot))

(***************************************************************************)
(* prepare_messages and image_parts                                        *)
(***************************************************************************)
RestUnchanged == UNCHANGED <<present, attached, events, slot, reads, anchor, lock, picked, last>>

AskCache(w) ==
    /\ InPhase(w, "prepare")
    /\ \E k \in builds[w].wanted :
         \/ /\ Hit(k)
            /\ builds' = [builds EXCEPT ![w].wanted = @ \ {k}]
         \/ /\ Coalesced(k) \/ Miss(k)
            /\ builds' = [builds EXCEPT ![w].wanted = @ \ {k}, ![w].waiting = @ \cup {k}]
    /\ RestUnchanged

\* A load ends for everyone who waits for it.
LoadEnds ==
    /\ \E k \in Loading :
         /\ LoadSucceeds(k) \/ LoadFails(k)
         /\ builds' = [w \in Workers |->
              IF InPhase(w, "prepare") THEN [builds[w] EXCEPT !.waiting = @ \ {k}] ELSE builds[w]]
    /\ RestUnchanged

\* What is sent of the window, in the window's order.
History(b) == ToSet(b.window) \ DeletedSince(b.generation, ToSet(b.window))

\* The trigger follows with its images, whatever became of it since.
Prompt(b) == History(b) \cup {b.trigger}

Assemble(w) ==
    LET b == builds[w]
    IN  /\ InPhase(w, "prepare") /\ b.wanted = {} /\ b.waiting = {}
        /\ builds' = [builds EXCEPT ![w] =
                        [phase |-> "ready", trigger |-> b.trigger, prompt |-> Prompt(b)]]
        /\ UNCHANGED cache_vars /\ RestUnchanged

\* Shutdown cancels a worker: the load it waited for goes on for the others.
Done(w) ==
    /\ builds[w].phase \in {"prepare", "ready"}
    /\ builds' = [builds EXCEPT ![w] = Idle]
    /\ UNCHANGED cache_vars /\ RestUnchanged

(***************************************************************************)
(* Everything else                                                         *)
(***************************************************************************)
Delete(m) ==
    /\ m \in Deletable \cap present
    /\ present' = present \ {m} /\ attached' = attached \ Images(m)
    /\ events' = events \cup {<<m, TRUE>>}
    /\ UNCHANGED <<cache_vars, slot, reads, anchor, lock, builds, picked, last>>

RemoveAttachment(k) ==
    /\ k \in attached /\ k[1] \in Deletable
    /\ attached' = attached \ {k}
    /\ events' = events \cup {<<k[1], FALSE>>}
    /\ UNCHANGED <<cache_vars, present, slot, reads, anchor, lock, builds, picked, last>>

\* on_raw_message_delete, on_raw_bulk_message_delete, on_raw_message_edit
EventArrives ==
    /\ \E e \in events :
         /\ Invalidate(e[1], e[2])
         /\ events' = events \ {e}
    /\ UNCHANGED <<present, attached, slot, reads, anchor, lock, builds, picked, last>>

\* refresh_slot_context_forever
ReadSlot ==
    /\ reads < MaxReads /\ reads' = reads + 1
    /\ slot' \in Slots
    /\ UNCHANGED <<cache_vars, present, attached, events, anchor, lock, builds, picked, last>>

\* The store keeps MAX_CHANNELS channels: others push this one out.
Evict ==
    /\ lock = Nobody /\ anchor # NoAnchor
    /\ reads < MaxReads /\ reads' = reads + 1
    /\ anchor' = NoAnchor
    /\ UNCHANGED <<cache_vars, present, attached, events, slot, lock, builds, picked, last>>

Tick ==
    /\ CacheTick
    /\ \A w \in Workers : builds[w].phase \in {"after", "recent", "prepare"} =>
         clock < builds[w].began + MaxBuild
    /\ UNCHANGED prompt_vars

Next ==
    \/ \E w \in Workers : \/ Pick(w) \/ BeginSelect(w) \/ FetchAfter(w) \/ FetchRecent(w)
                          \/ AskCache(w) \/ Assemble(w) \/ Done(w)
    \/ LoadEnds
    \/ \E m \in Messages : Delete(m)
    \/ \E k \in Keys : RemoveAttachment(k)
    \/ EventArrives \/ ReadSlot \/ Evict \/ Tick

Spec == Init /\ [][Next]_vars

(***************************************************************************)
(* Properties                                                              *)
(***************************************************************************)
\* A selected window holds nothing from before a !reset_history that is still
\* there, no more than an anchored window may grow to, and fits the budget.
WindowSound ==
    \A w \in Workers : InPhase(w, "prepare") =>
      LET b == builds[w] IN
      /\ \A i \in DOMAIN b.window : \A r \in Resets \cap present :
           ~(b.window[i] <= r /\ r < b.trigger)
      /\ Len(b.window) <= max_window
      /\ b.window # << >> => Fits(b.window, b.trigger, b.slot)

Ascending(s) == \A i, j \in DOMAIN s : i < j => s[i] < s[j]
Reaches(s, m) == \E n \in ToSet(s) : m <= n

\* Both in the order of the channel, and as far as both reach the same
\* messages of those there still are: one is the other and a tail.
ContinueOneAnother(s, t) ==
    /\ Ascending(s) /\ Ascending(t)
    /\ \A m \in present : Reaches(s, m) /\ Reaches(t, m) => (m \in ToSet(s) <=> m \in ToSet(t))

\* "Between refreshes each prompt is the previous one plus a tail": a kept
\* window and the prompt before it continue one another, whatever order the
\* triggers were picked in, but for what was deleted since.
PrefixKept ==
    [][\A w \in Workers :
         builds[w].phase = "after" /\ builds'[w].phase = "prepare" =>
           ContinueOneAnother(last, Append(builds'[w].window, builds'[w].trigger))]_vars

\* "A history message deleted since select_messages is left out": a prompt is
\* finished without any message before its trigger that the bot has been told
\* is deleted, in whatever order deletions and edits were reported.
DeletedNotSent ==
    [][\A w \in Workers : builds[w].phase = "prepare" /\ builds'[w].phase = "ready" =>
         \A m \in builds'[w].prompt \ {builds'[w].trigger} :
           m \in present \/ <<m, TRUE>> \in events]_vars

\* "so a deleted image is neither kept in memory nor sent to the model again":
\* the same of the whole prompt. Not so: prepare_messages appends the trigger
\* with the images it has loaded even when its deletion is known, and only
\* asks deleted_since of the history.
NothingDeletedSent ==
    [][\A w \in Workers : builds[w].phase = "prepare" /\ builds'[w].phase = "ready" =>
         \A m \in builds'[w].prompt : m \in present \/ <<m, TRUE>> \in events]_vars

\* Whoever waits for a load waits for one that is under way.
WaitersHaveALoad ==
    \A w \in Workers : InPhase(w, "prepare") => builds[w].waiting \subseteq Loading

\* "so a deleted image is neither kept in memory nor sent to the model again"
DeletedNotKept ==
    \A k \in DOMAIN entries : k[1] \in present \/ <<k[1], TRUE>> \in events
==============================================================================
