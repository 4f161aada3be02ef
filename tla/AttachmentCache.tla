--------------------------- MODULE AttachmentCache ---------------------------
(***************************************************************************)
(* The cache of encoded image attachments, attachment_cache.py: byte       *)
(* bounded, least recently used first, with a time to live. Callers that   *)
(* want the same attachment share one load, and the events of Discord      *)
(* that a message was edited or deleted may arrive while a load runs.      *)
(* A key is a message of one channel and the number of the attachment.     *)
(***************************************************************************)
EXTENDS Integers, FiniteSets

CONSTANTS
    Messages,           \* the messages of the channel
    Keys,               \* <<message, attachment>>
    SizeOf,             \* bytes of each encoded image
    MaxBytes,
    TTL,
    MaxLoad,            \* how long a download and its encoding may take
    MaxClock,           \* bound on time
    MaxInvalidations    \* bound on edit and delete events

ASSUME CacheAssumption ==
    /\ Keys \subseteq Messages \X Nat
    /\ SizeOf \in [Keys -> Nat \ {0}]
    /\ {MaxBytes, TTL, MaxLoad, MaxClock, MaxInvalidations} \subseteq Nat

\* "none lasts anywhere near the TTL": downloads are given up after 30 s.
ASSUME LoadsAreShort == MaxLoad <= TTL

VARIABLES
    entries,        \* key -> when it expires, and the generation its load began in
    uses,           \* <<j, k>>: j was last used before k, the order of the entries
    bytes,          \* the counter of retained bytes
    inflight,       \* key -> the load under way
    generation,
    invalidated,    \* message -> its last event, pruned after the TTL
    clock,
    forgotten       \* history: generation of each message's last event, never pruned

cache_vars == <<entries, uses, bytes, inflight, generation, invalidated, clock, forgotten>>

Loading == DOMAIN inflight

\* Sizes are added up by counting bytes.
BytesOf(S)   == UNION {{k} \X (1 .. SizeOf[k]) : k \in S}
TotalSize(S) == Cardinality(BytesOf(S))

Only(f, S) == [x \in S |-> f[x]]

\* The entry get() answers with.
Live(k) == k \in DOMAIN entries /\ clock < entries[k].expires

CacheTypeOK ==
    /\ entries \in [DOMAIN entries -> [expires : Nat, began : Nat]]
    /\ DOMAIN entries \subseteq Keys
    /\ inflight \in [Loading -> [generation : Nat, began : Nat]]
    /\ Loading \subseteq Keys
    /\ generation \in Nat
    /\ invalidated \in [DOMAIN invalidated -> [generation : Nat, deleted : BOOLEAN, at : Nat]]
    /\ DOMAIN invalidated \subseteq Messages
    /\ clock \in Nat
    /\ forgotten \in [Messages -> Nat]

CacheInit ==
    /\ entries = << >> /\ uses = {} /\ bytes = 0
    /\ inflight = << >>
    /\ generation = 0 /\ invalidated = << >>
    /\ clock = 0
    /\ forgotten = [m \in Messages |-> 0]

(***************************************************************************)
(* get_or_load                                                             *)
(***************************************************************************)
\* Who goes leaves the order, and who is used goes to its end.
Among(S)      == uses \cap (S \X S)
Touched(k, S) == Among(S \ {k}) \cup ((S \ {k}) \X {k})

\* The first look: an entry that has expired goes at once.
DropExpired(k) ==
    IF k \in DOMAIN entries
    THEN /\ entries' = Only(entries, DOMAIN entries \ {k})
         /\ uses' = Among(DOMAIN entries \ {k})
         /\ bytes' = bytes - SizeOf[k]
    ELSE UNCHANGED <<entries, uses, bytes>>

Hit(k) ==
    /\ Live(k)
    /\ uses' = Touched(k, DOMAIN entries)
    /\ UNCHANGED <<entries, bytes, inflight, generation, invalidated, clock, forgotten>>

\* Another caller's load is under way: wait for it.
Coalesced(k) ==
    /\ ~Live(k) /\ k \in Loading
    /\ DropExpired(k)
    /\ UNCHANGED <<inflight, generation, invalidated, clock, forgotten>>

Miss(k) ==
    /\ ~Live(k) /\ k \notin Loading
    /\ DropExpired(k)
    /\ inflight' = [x \in Loading \cup {k} |->
                        IF x = k THEN [generation |-> generation, began |-> clock] ELSE inflight[x]]
    /\ UNCHANGED <<generation, invalidated, clock, forgotten>>

(***************************************************************************)
(* The end of a load                                                       *)
(***************************************************************************)
\* Mutant: what was loaded is always stored.
NeverOutdated(k) == FALSE

\* An event arrived since the load began.
Outdated(k) ==
    /\ k[1] \in DOMAIN invalidated
    /\ invalidated[k[1]].generation > inflight[k].generation

\* What is kept when k is added: an entry survives if it and everything used
\* after it fit, since the oldest go first.
Candidates(k)  == {x \in DOMAIN entries : Live(x)} \cup {k}
From(x, order) == {x} \cup {p[2] : p \in {q \in order : q[1] = x}}
Survives(x, k) == TotalSize(From(x, Touched(k, Candidates(k)))) <= MaxBytes
Kept(k)        == {x \in Candidates(k) : Survives(x, k)}

Store(k) ==
    /\ entries' = [x \in Kept(k) |->
                      IF x = k THEN [expires |-> clock + TTL, began |-> inflight[k].generation]
                      ELSE entries[x]]
    /\ uses' = Touched(k, Kept(k))
    /\ bytes' = bytes + SizeOf[k] - TotalSize((DOMAIN entries \cup {k}) \ Kept(k))
                      - (IF k \in DOMAIN entries THEN SizeOf[k] ELSE 0)

LoadSucceeds(k) ==
    /\ k \in Loading
    /\ inflight' = Only(inflight, Loading \ {k})
    /\ IF Outdated(k) \/ SizeOf[k] > MaxBytes
       THEN UNCHANGED <<entries, uses, bytes>>
       ELSE Store(k)
    /\ UNCHANGED <<generation, invalidated, clock, forgotten>>

\* A download that fails or is no image leaves nothing behind.
LoadFails(k) ==
    /\ k \in Loading
    /\ inflight' = Only(inflight, Loading \ {k})
    /\ UNCHANGED <<entries, uses, bytes, generation, invalidated, clock, forgotten>>

(***************************************************************************)
(* invalidate_message                                                      *)
(***************************************************************************)
Remembered == {m \in DOMAIN invalidated : clock - invalidated[m].at <= TTL}

\* Mutant: the last event is all that is known of a message.
LastEventOnly(m) == FALSE

\* An edit after a deletion leaves the message deleted.
WasDeleted(m) == m \in Remembered /\ invalidated[m].deleted

Invalidate(m, deleted) ==
    /\ generation < MaxInvalidations
    /\ generation' = generation + 1
    /\ invalidated' = [x \in Remembered \cup {m} |->
                          IF x = m
                          THEN [generation |-> generation + 1, deleted |-> deleted \/ WasDeleted(m),
                                at |-> clock]
                          ELSE invalidated[x]]
    /\ entries' = Only(entries, {k \in DOMAIN entries : k[1] # m})
    /\ uses' = Among({k \in DOMAIN entries : k[1] # m})
    /\ bytes' = bytes - TotalSize({k \in DOMAIN entries : k[1] = m})
    /\ forgotten' = [forgotten EXCEPT ![m] = generation + 1]
    /\ UNCHANGED <<inflight, clock>>

DeletedSince(g, S) ==
    {m \in S \cap DOMAIN invalidated : invalidated[m].deleted /\ invalidated[m].generation > g}

\* Time passes, but no load outlives its timeout.
CacheTick ==
    /\ clock < MaxClock
    /\ \A k \in Loading : clock < inflight[k].began + MaxLoad
    /\ clock' = clock + 1
    /\ UNCHANGED <<entries, uses, bytes, inflight, generation, invalidated, forgotten>>

CacheNext ==
    \/ \E k \in Keys : Hit(k) \/ Coalesced(k) \/ Miss(k) \/ LoadSucceeds(k) \/ LoadFails(k)
    \/ \E m \in Messages, deleted \in BOOLEAN : Invalidate(m, deleted)
    \/ CacheTick

CacheSpec == CacheInit /\ [][CacheNext]_cache_vars

(***************************************************************************)
(* Properties                                                              *)
(***************************************************************************)
\* The byte counter, adjusted in five places, is the size of what is kept,
\* what is kept fits, and one of any two entries is the next to go.
ByteCountExact ==
    /\ bytes = TotalSize(DOMAIN entries)
    /\ bytes <= MaxBytes
    /\ uses \subseteq (DOMAIN entries) \X (DOMAIN entries)
    /\ \A j, k \in DOMAIN entries : j # k => (<<j, k>> \in uses <=> <<k, j>> \notin uses)

\* A late download does not put a forgotten image back: whatever is kept was
\* loaded after its message's last edit or deletion.
NoLateStore == \A k \in DOMAIN entries : forgotten[k[1]] <= entries[k].began
==============================================================================
