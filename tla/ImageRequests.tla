----------------------------- MODULE ImageRequests -----------------------------
(***************************************************************************)
(* Making pictures: the calls of generate_image and /generate_image, each  *)
(* of which may generate, look at the result and try again; the side       *)
(* model's thinking-off latch, which the looks share; and the diffusion    *)
(* service with its bounded queue and single worker, which may restart as  *)
(* another model.                                                          *)
(***************************************************************************)
EXTENDS Integers, Sequences, FiniteSets

CONSTANTS
    Calls,              \* pictures asked for, each once
    Slash,              \* those asked for with /generate_image
    Edits,              \* those that change an earlier picture
    ReplyOf,            \* call of the tool -> the reply it is made in
    MAX_IMAGE_CALLS,
    Retries,            \* IMAGE_REVIEW_RETRIES
    QUEUE_SIZE,
    Models,             \* "natural" takes reference pictures, "sdxl" does not
    MaxMissing,         \* bound on the things a look finds missing
    None,
    Failures,           \* "generation", "timeout", "health", "request", "look", "post", "picture"
    MaxRestarts         \* bound

ASSUME ImageAssumption ==
    /\ Slash \subseteq Calls /\ Edits \subseteq Calls \ Slash
    /\ {MAX_IMAGE_CALLS, Retries, QUEUE_SIZE, MaxMissing, MaxRestarts} \subseteq Nat
    /\ Models \subseteq {"natural", "sdxl"} /\ None \notin Models \cup Calls

VARIABLES
    service,        \* [model, ready]: what the service is, or is loading
    queue,          \* requests that wait: <<call, attempt>>
    generating,     \* the request the worker is at
    restarts,
    cached,         \* _capabilities: the model they describe
    at,             \* call -> how far it has come
    image_calls,    \* reply -> calls of the tool
    reviews,        \* call -> what was missing in each attempt, None if unchecked
    best,           \* call -> the attempt kept so far
    looks,          \* call -> its looks at the newest attempt
    send_no_thinking,
    rejects,        \* the side model's server rejects the option
    generated       \* history: call -> requests the service took

serviceVars == <<service, queue, generating, restarts>>
callVars == <<at, image_calls, reviews, best, generated>>
lookVars == <<looks, send_no_thinking, rejects>>
vars == <<serviceVars, cached, callVars, lookVars>>

Replies == {ReplyOf[c] : c \in Calls \ Slash}
Unchecked == -1
Reviews == {Unchecked} \cup 0 .. MaxMissing
Look(bad) == [sent |-> FALSE, bad |-> bad, at |-> "begins", found |-> Unchecked]
Over == {"posted", "failed", "too_many", "cannot_edit", "nothing_to_edit", "not_sent"}

TypeOK ==
    /\ service \in [model : Models, ready : BOOLEAN]
    /\ queue \in Seq(Calls \X Nat) /\ Len(queue) <= QUEUE_SIZE
    /\ generating = None \/ generating \in Calls \X Nat
    /\ cached \in Models \cup {None}
    /\ at \in [Calls -> {"new", "source", "capabilities", "prompt", "waiting", "looking", "posting"}
                        \cup Over]
    /\ image_calls \in [Replies -> Nat]
    /\ \A c \in Calls : reviews[c] \in Seq(Reviews) /\ best[c] \in 0 .. Len(reviews[c])
    /\ \A c \in Calls : \A k \in DOMAIN looks[c] :
         looks[c][k].at \in {"begins", "asks", "asks_again", "over"} /\ looks[c][k].found \in Reviews
    /\ send_no_thinking \in BOOLEAN /\ rejects \in BOOLEAN

Init ==
    /\ service \in [model : Models, ready : {TRUE}]
    /\ queue = << >> /\ generating = None /\ restarts = 0
    /\ cached = None
    /\ at = [c \in Calls |-> "new"]
    /\ image_calls = [r \in Replies |-> 0]
    /\ reviews = [c \in Calls |-> << >>] /\ best = [c \in Calls |-> 0]
    /\ looks = [c \in Calls |-> << >>]
    /\ send_no_thinking = TRUE /\ rejects \in BOOLEAN
    /\ generated = [c \in Calls |-> 0]

Goes(c, place) == at' = [at EXCEPT ![c] = place]

(***************************************************************************)
(* service_capabilities()                                                  *)
(***************************************************************************)
\* What a service that cannot say is taken for: it cannot edit.
FALLBACK_CAPABILITIES == "sdxl"

\* Only what a ready service said is kept, for CAPABILITIES_TTL_SECONDS. The
\* read may fail although the service is ready.
Capabilities(model) ==
    \/ cached # None /\ model = cached /\ UNCHANGED cached
    \/ cached = None /\ service.ready /\ model = service.model /\ cached' = model
    \/ /\ cached = None /\ (~service.ready \/ "health" \in Failures)
       /\ model = FALLBACK_CAPABILITIES /\ UNCHANGED cached

Known == {"natural", "sdxl"}
edits(model) == model = "natural"

Expires ==
    /\ cached # None /\ cached' = None
    /\ UNCHANGED <<serviceVars, callVars, lookVars>>

(***************************************************************************)
(* The tool and the command                                                *)
(***************************************************************************)
\* Mutant: one call more.
TooManyLater(n) == n > MAX_IMAGE_CALLS + 1

TooMany(n) == n > MAX_IMAGE_CALLS

\* The call is counted before anything is awaited, so that calls made at once
\* are counted too.
Ask(c) ==
    /\ at[c] = "new"
    /\ IF c \in Slash
       THEN Goes(c, "capabilities") /\ UNCHANGED image_calls
       ELSE /\ image_calls' = [image_calls EXCEPT ![ReplyOf[c]] = @ + 1]
            /\ Goes(c, IF TooMany(image_calls'[ReplyOf[c]]) THEN "too_many"
                       ELSE IF c \in Edits THEN "source" ELSE "capabilities")
    /\ UNCHANGED <<serviceVars, cached, reviews, best, generated, lookVars>>

\* An edit needs a model that can, and a picture of the bot's in the channel.
FindSource(c) ==
    /\ at[c] = "source"
    /\ \E model \in Known, found \in {TRUE} \cup (IF "picture" \in Failures THEN {FALSE} ELSE {}) :
         /\ Capabilities(model)
         /\ Goes(c, IF ~edits(model) THEN "cannot_edit"
                 ELSE IF ~found THEN "nothing_to_edit" ELSE "capabilities")
    /\ UNCHANGED <<serviceVars, image_calls, reviews, best, generated, lookVars>>

\* create_image() asks again what the model wants, for the prompt's wording,
\* which is left out.
BeginImage(c) ==
    /\ at[c] = "capabilities"
    /\ \E model \in Known : Capabilities(model)
    /\ Goes(c, "prompt")
    /\ UNCHANGED <<serviceVars, image_calls, reviews, best, generated, lookVars>>

\* The first generation that fails fails the call; a later one keeps the best.
Refused(c) == Goes(c, IF best[c] = 0 THEN "failed" ELSE "posting")

\* generate(): an edit for a model that cannot is refused, and so is what the
\* queue has no room for.
Post(c) ==
    LET attempt == Len(reviews[c]) + 1
        taken == /\ service.ready
                 /\ c \in Edits => edits(service.model)
                 /\ Len(queue) < QUEUE_SIZE
    IN  /\ at[c] = "prompt"
        /\ IF taken
           THEN /\ queue' = Append(queue, <<c, attempt>>) /\ Goes(c, "waiting")
                /\ generated' = [generated EXCEPT ![c] = @ + 1]
           ELSE Refused(c) /\ UNCHANGED <<queue, generated>>
        /\ UNCHANGED <<service, generating, restarts, cached, image_calls, reviews, best,
                       lookVars>>

\* GENERATION_TIMEOUT: the service is not told, and goes on.
GiveUp(c) ==
    /\ "timeout" \in Failures /\ at[c] = "waiting"
    /\ Refused(c)
    /\ UNCHANGED <<serviceVars, cached, image_calls, reviews, best, generated, lookVars>>

(***************************************************************************)
(* The service                                                             *)
(***************************************************************************)
Take ==
    /\ service.ready /\ generating = None /\ queue # << >>
    /\ generating' = Head(queue) /\ queue' = Tail(queue)
    /\ UNCHANGED <<service, restarts, cached, callVars, lookVars>>

Awaits(c, attempt) == at[c] = "waiting" /\ attempt = Len(reviews[c]) + 1

\* The picture is looked at: an edit twice, alone and next to the original. A
\* request may be one the server takes exception to whatever its options.
LooksAt(c, bad) == [k \in 1 .. (IF c \in Edits THEN 2 ELSE 1) |-> Look(bad[k])]

Generated ==
    LET c == generating[1]
    IN  /\ generating # None /\ generating' = None
        /\ \E fails \in {FALSE} \cup (IF "generation" \in Failures THEN {TRUE} ELSE {}) :
             IF ~Awaits(c, generating[2]) THEN UNCHANGED <<at, looks>>
             ELSE IF fails THEN Refused(c) /\ UNCHANGED looks
             ELSE /\ Goes(c, "looking")
                  /\ \E bad \in [{1, 2} -> {FALSE} \cup {b \in {TRUE} : "request" \in Failures}] :
                       looks' = [looks EXCEPT ![c] = LooksAt(c, bad)]
        /\ UNCHANGED <<service, queue, restarts, cached, image_calls, reviews, best,
                       generated, send_no_thinking, rejects>>

\* Whoever waits gets an error; the next model is loaded.
Restart ==
    /\ restarts < MaxRestarts /\ restarts' = restarts + 1
    /\ service' \in [model : Models, ready : {FALSE}]
    /\ queue' = << >> /\ generating' = None
    /\ at' = [c \in Calls |-> IF at[c] # "waiting" THEN at[c]
                              ELSE IF best[c] = 0 THEN "failed" ELSE "posting"]
    /\ UNCHANGED <<cached, image_calls, reviews, best, generated, lookVars>>

Loaded ==
    /\ ~service.ready /\ service' = [service EXCEPT !.ready = TRUE]
    /\ UNCHANGED <<queue, generating, restarts, cached, callVars, lookVars>>

(***************************************************************************)
(* SideLLM.complete(), as the looks use it                                 *)
(***************************************************************************)
\* Whether this call sent the option decides what its rejection means; the
\* shared latch may have changed since.
SentOption(look) == look.sent

\* Mutant: the latch is set at the first rejection.
LatchOnRejection == send_no_thinking' = FALSE

\* The latch is set once the call without the option has worked, and not when
\* the server rejected the one with it.
OnRejection      == UNCHANGED send_no_thinking

LookEnds(c, k, result) ==
    looks' = [looks EXCEPT ![c][k].at = "over", ![c][k].found = result]

\* The pictures are encoded in a thread of their own; then the latch is read.
LookAsks(c, k) ==
    /\ at[c] = "looking" /\ looks[c][k].at = "begins"
    /\ looks' = [looks EXCEPT ![c][k].at = "asks", ![c][k].sent = send_no_thinking]
    /\ UNCHANGED <<serviceVars, cached, callVars, send_no_thinking, rejects>>

\* The server refuses the request, for the option or for another reason.
LookRejected(c, k) ==
    /\ at[c] = "looking" /\ looks[c][k].at = "asks" /\ looks[c][k].sent
    /\ rejects \/ looks[c][k].bad
    /\ IF SentOption(looks[c][k])
       THEN looks' = [looks EXCEPT ![c][k].at = "asks_again"] /\ OnRejection
       ELSE LookEnds(c, k, Unchecked) /\ UNCHANGED send_no_thinking
    /\ UNCHANGED <<serviceVars, cached, callVars, rejects>>

LookAnswered(c, k) ==
    /\ at[c] = "looking" /\ ~looks[c][k].bad
    /\ \/ looks[c][k].at = "asks" /\ ~(looks[c][k].sent /\ rejects) /\ UNCHANGED send_no_thinking
       \/ looks[c][k].at = "asks_again" /\ send_no_thinking' = FALSE
    /\ \E found \in 0 .. MaxMissing : LookEnds(c, k, found)
    /\ UNCHANGED <<serviceVars, cached, callVars, rejects>>

\* The server is down or slow, its answer is not the JSON asked for, or it
\* refuses the request without the option too.
LookFails(c, k) ==
    /\ at[c] = "looking" /\ looks[c][k].at # "over"
    /\ \/ "look" \in Failures
       \/ looks[c][k].bad /\ looks[c][k].at = "asks_again"
       \/ looks[c][k].bad /\ looks[c][k].at = "asks" /\ ~looks[c][k].sent
    /\ LookEnds(c, k, Unchecked)
    /\ UNCHANGED <<serviceVars, cached, callVars, send_no_thinking, rejects>>

\* One verdict from the looks: all that any of them misses.
merge_reviews(ls) ==
    LET found == {ls[k].found : k \in DOMAIN ls} \ {Unchecked}
    IN  IF found = {} THEN Unchecked ELSE CHOOSE m \in found : \A n \in found : n <= m

\* Mutant: the newest attempt is kept.
PreferNewest(first, second) == TRUE

\* A checked attempt beats an unchecked one; otherwise the one that misses less,
\* and the second when they miss as much.
prefer_second(first, second) ==
    IF second = Unchecked THEN first = Unchecked
    ELSE first = Unchecked \/ second <= first

Reviewed(c) ==
    LET review == merge_reviews(looks[c])
        n == Len(reviews[c]) + 1
    IN  /\ at[c] = "looking" /\ \A k \in DOMAIN looks[c] : looks[c][k].at = "over"
        /\ reviews' = [reviews EXCEPT ![c] = Append(@, review)]
        /\ best' = [best EXCEPT ![c] =
                       IF @ = 0 \/ prefer_second(reviews[c][@], review) THEN n ELSE @]
        /\ looks' = [looks EXCEPT ![c] = << >>]
        /\ Goes(c, IF review \in {Unchecked, 0} \/ n > Retries THEN "posting" ELSE "prompt")
        /\ UNCHANGED <<serviceVars, cached, image_calls, generated, send_no_thinking,
                       rejects>>

Show(c) ==
    /\ at[c] = "posting"
    /\ Goes(c, "posted") \/ ("post" \in Failures /\ Goes(c, "not_sent"))
    /\ UNCHANGED <<serviceVars, cached, image_calls, reviews, best, generated, lookVars>>

Step(c) ==
    \/ Ask(c) \/ FindSource(c) \/ BeginImage(c) \/ Post(c) \/ Reviewed(c) \/ Show(c)
    \/ \E k \in DOMAIN looks[c] :
         LookAsks(c, k) \/ LookRejected(c, k) \/ LookAnswered(c, k) \/ LookFails(c, k)

Next ==
    \/ \E c \in Calls : Step(c) \/ GiveUp(c)
    \/ Take \/ Generated \/ Restart \/ Loaded \/ Expires

Spec == Init /\ [][Next]_vars

(***************************************************************************)
(* Properties                                                              *)
(***************************************************************************)
\* The picture that is posted is the one of its call that misses least, and
\* one nobody looked at only if nobody looked at any of them: what the model
\* is told of it is true of it.
BestIsPosted ==
    \A c \in Calls : at[c] = "posted" =>
        LET kept == reviews[c][best[c]]
        IN  \A k \in DOMAIN reviews[c] :
              reviews[c][k] # Unchecked => kept # Unchecked /\ kept <= reviews[c][k]

\* What the service was made to generate for the tool's calls in a reply.
Asked(r) == {c \in Calls \ Slash : ReplyOf[c] = r}
Pictures(r) == UNION {{c} \X (1 .. generated[c]) : c \in Asked(r)}

\* However many calls a model makes at once, a reply has the service make at
\* most MAX_IMAGE_CALLS pictures and their retries.
ReplyIsBounded ==
    \A r \in Replies : Cardinality(Pictures(r)) <= MAX_IMAGE_CALLS * (1 + Retries)

\* A look whose option the server rejects is made again without it, whatever
\* other looks found out in between: rejecting the option alone never leaves a
\* picture unchecked.
RejectionIsRetried ==
    [][\A c \in Calls : \A k \in DOMAIN looks[c] :
         /\ looks[c][k].at = "asks" /\ looks[c][k].sent /\ ~looks[c][k].bad
         /\ k \in DOMAIN looks'[c] /\ looks'[c][k].at = "over"
         => looks'[c][k].found # Unchecked]_vars

\* A request that is bad whatever its options never turns thinking back on:
\* only a server that rejects the option does.
LatchIsDeserved == ~send_no_thinking => rejects
================================================================================
