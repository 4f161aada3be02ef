------------------------------- MODULE VoiceCall -------------------------------
(***************************************************************************)
(* The life of voice calls in one guild: start() and end() of a session,   *)
(* the gate that silences the guild's text, discord.py's voice client and  *)
(* its protocol, the bridge to the voice sidecar, the sidecar's connection *)
(* and Discord's own idea of where the bot is.  Two message queues, one    *)
(* each way, join core and sidecar; they are lost with the link.           *)
(***************************************************************************)
EXTENDS Naturals, Sequences

CONSTANTS
    Sessions,       \* calls somebody may start, each once
    Channels,       \* the guild's voice channels
    None,
    Faults,         \* "link", "network", "kick", "slow", "settings": what may go wrong
    MaxTroubles     \* bound on kicks, lost links and dropped connections

ASSUME CallAssumption ==
    /\ None \notin Sessions \cup Channels /\ MaxTroubles \in Nat
    /\ Faults \subseteq {"link", "network", "kick", "slow", "settings"}

VARIABLES
    gate,           \* voice_gate: the session that silences the guild
    stage,          \* session -> how far its start() has come
    channel,        \* session -> its voice channel
    ended,          \* sessions whose end() was called
    leaving,        \* session whose end() waits for -> the protocol it disconnects
    worker, idle,   \* sessions that answer turns; that are about to leave, alone
    client,         \* guild.voice_client: the session whose protocol it is
    protocol,       \* the bridge's protocol of the guild
    ready, gone,    \* protocols that were told so by the sidecar
    link,           \* the bridge's WebSocket is up
    from_core, from_sidecar,
    sidecar,        \* the sidecar's connection
    in_channel,     \* where Discord shows the bot
    told,           \* Discord is about to tell core that the bot left
    people,         \* somebody is in the call
    troubles,
    early           \* history: sessions ended while start() sought their text channel

sessionVars == <<gate, stage, channel, ended, leaving, worker, idle, client, protocol, ready,
                 gone, early>>
wireVars == <<link, from_core, from_sidecar, sidecar>>
worldVars == <<in_channel, told, people, troubles>>
callVars == <<sessionVars, wireVars, worldVars>>

NotThere == [channel |-> None, status |-> "none"]

CallTypeOK ==
    /\ gate \in Sessions \cup {None} /\ client \in Sessions \cup {None}
    /\ protocol \in Sessions \cup {None}
    /\ stage \in [Sessions -> {"new", "text_channel", "connecting", "backing_out", "settings",
                            "posting", "begun", "failed"}]
    /\ channel \in [Sessions -> Channels \cup {None}]
    /\ leaving \in [Sessions -> Sessions \cup {None}]
    /\ {ended, worker, idle, ready, gone, early} \subseteq SUBSET Sessions
    /\ sidecar.channel \in Channels \cup {None}
    /\ sidecar.status \in {"none", "joining", "ready", "dropped"}
    /\ in_channel \in Channels \cup {None}
    /\ {link, told, people} \subseteq BOOLEAN /\ troubles \in 0 .. MaxTroubles

CallInit ==
    /\ gate = None /\ client = None /\ protocol = None
    /\ stage = [s \in Sessions |-> "new"] /\ channel = [s \in Sessions |-> None]
    /\ leaving = [s \in Sessions |-> None]
    /\ ended = {} /\ worker = {} /\ idle = {} /\ ready = {} /\ gone = {} /\ early = {}
    /\ link = TRUE /\ from_core = << >> /\ from_sidecar = << >> /\ sidecar = NotThere
    /\ in_channel = None /\ told = FALSE /\ people = TRUE /\ troubles = 0

ToSidecar(q) == from_core' = IF link THEN from_core \o q ELSE from_core
\* What the sidecar sends; nobody hears it while the link is down.
ToCore(q) == from_sidecar' = IF link THEN from_sidecar \o q ELSE from_sidecar

(***************************************************************************)
(* The gate, and the protocol's cleanup                                    *)
(***************************************************************************)
\* Mutant: leave(guild).
LeaveGateWhoever(s) == gate' = None

\* leave(guild, session): only if that is still the one there.
LeaveGate(s) == gate' = IF gate = s THEN None ELSE gate

\* Mutant: a call that could not start keeps the gate.
KeepGate(s) == UNCHANGED gate

\* An exception on the way to the channel leaves the gate.
LeaveAfterFailure(s) == LeaveGate(s)

\* Registered is what the bridge routes to; discord.py drops whatever voice
\* client the guild has.
Cleanup(p) ==
    /\ protocol' = IF protocol = p THEN None ELSE protocol
    /\ client' = IF client = p THEN None ELSE client

\* disconnect() also leaves the channel itself, should the sidecar be gone.
LeaveDiscord ==
    /\ in_channel' = None
    /\ told' = (told \/ in_channel # None)

(***************************************************************************)
(* end()                                                                   *)
(***************************************************************************)
\* Up to its first await, which is the one of disconnect(). c is the voice
\* client it finds, and sent says that a leave goes to the sidecar.
EndsWith(s, c) ==
    /\ ended' = ended \cup {s}
    /\ LeaveGate(s)
    /\ worker' = worker \ {s} /\ idle' = idle \ {s}
    /\ leaving' = [leaving EXCEPT ![s] = c]
    /\ early' = IF stage[s] = "text_channel" THEN early \cup {s} ELSE early

AsksSidecar(c) == c # None /\ c \notin gone

\* /voice leave, "leave" said aloud, or the leave tool once its turn is spoken.
AskedToLeave ==
    /\ gate # None
    /\ EndsWith(gate, client)
    /\ ToSidecar(IF AsksSidecar(client) THEN <<[type |-> "leave"]>> ELSE << >>)
    /\ UNCHANGED <<stage, channel, client, protocol, ready, gone, link, from_sidecar, sidecar,
                   worldVars>>

\* The sidecar confirmed, it took more than LEAVE_TIMEOUT, or there was
\* nobody to ask.
Disconnected(s) ==
    LET p == leaving[s]
    IN  /\ p # None
        /\ p \in gone \/ ~link \/ "slow" \in Faults
        /\ LeaveDiscord /\ Cleanup(p)
        /\ leaving' = [leaving EXCEPT ![s] = None]
        /\ UNCHANGED <<gate, stage, channel, ended, worker, idle, ready, gone, early, wireVars,
                       people, troubles>>

(***************************************************************************)
(* start()                                                                 *)
(***************************************************************************)
Start(s, c) ==
    /\ stage[s] = "new" /\ link /\ gate = None /\ client = None
    /\ gate' = s
    /\ stage' = [stage EXCEPT ![s] = "text_channel"] /\ channel' = [channel EXCEPT ![s] = c]
    /\ UNCHANGED <<ended, leaving, worker, idle, client, protocol, ready, gone, early, wireVars,
                   worldVars>>

\* _session_channel returned: connect() registers the protocol and asks the
\* sidecar to join.
Connect(s) ==
    /\ stage[s] = "text_channel"
    /\ IF client = None /\ link
       THEN /\ client' = s /\ protocol' = s
            /\ stage' = [stage EXCEPT ![s] = "connecting"]
            /\ ToSidecar(<<[type |-> "join", channel |-> channel[s]]>>)
            /\ UNCHANGED gate
       ELSE /\ stage' = [stage EXCEPT ![s] = "failed"]
            /\ LeaveAfterFailure(s)
            /\ UNCHANGED <<client, protocol, from_core>>
    /\ UNCHANGED <<channel, ended, leaving, worker, idle, ready, gone, early, link, from_sidecar,
                   sidecar, worldVars>>

Connected(s) ==
    /\ stage[s] = "connecting" /\ s \in ready
    /\ stage' = [stage EXCEPT ![s] = "settings"]
    /\ UNCHANGED <<gate, channel, ended, leaving, worker, idle, client, protocol, ready, gone,
                   early, wireVars, worldVars>>

ConnectFails(s) ==
    /\ stage[s] = "connecting" /\ s \in gone \ ready
    /\ ToSidecar(<<[type |-> "leave"]>>)
    /\ Cleanup(s) /\ LeaveAfterFailure(s)
    /\ stage' = [stage EXCEPT ![s] = "failed"]
    /\ UNCHANGED <<channel, ended, leaving, worker, idle, ready, gone, early, link, from_sidecar,
                   sidecar, worldVars>>

\* After CONNECT_TIMEOUT discord.py disconnects the protocol.
ConnectTimesOut(s) ==
    /\ stage[s] = "connecting" /\ s \notin ready \cup gone
    /\ ToSidecar(<<[type |-> "leave"]>>)
    /\ stage' = [stage EXCEPT ![s] = "backing_out"]
    /\ UNCHANGED <<gate, channel, ended, leaving, worker, idle, client, protocol, ready, gone,
                   early, link, from_sidecar, sidecar, worldVars>>

BackedOut(s) ==
    /\ stage[s] = "backing_out"
    /\ s \in gone \/ ~link \/ "slow" \in Faults
    /\ LeaveDiscord /\ Cleanup(s) /\ LeaveAfterFailure(s)
    /\ stage' = [stage EXCEPT ![s] = "failed"]
    /\ UNCHANGED <<channel, ended, leaving, worker, idle, ready, gone, early, wireVars,
                   people, troubles>>

\* begin(): the settings are read, and the worker started.
Begin(s) ==
    /\ stage[s] = "settings"
    /\ \/ /\ stage' = [stage EXCEPT ![s] = "posting"] /\ worker' = worker \cup {s}
       \/ /\ "settings" \in Faults
          /\ stage' = [stage EXCEPT ![s] = "failed"] /\ UNCHANGED worker
    /\ UNCHANGED <<gate, channel, ended, leaving, idle, client, protocol, ready, gone, early,
                   wireVars, worldVars>>

\* members_changed(): alone, a call leaves after idle_leave_seconds.
MembersChanged(s, somebody) ==
    idle' = IF s \in ended \cup {None} THEN idle
            ELSE IF somebody THEN idle \ {s} ELSE idle \cup {s}

\* The call's first message is posted, the greeting is under way.
Posted(s) ==
    /\ stage[s] = "posting"
    /\ stage' = [stage EXCEPT ![s] = "begun"]
    /\ MembersChanged(s, people)
    /\ UNCHANGED <<gate, channel, ended, leaving, worker, client, protocol, ready, gone, early,
                   wireVars, worldVars>>

(***************************************************************************)
(* People                                                                  *)
(***************************************************************************)
PeopleComeOrGo ==
    /\ people' = ~people
    /\ MembersChanged(gate, people')
    /\ UNCHANGED <<gate, stage, channel, ended, leaving, worker, client, protocol, ready, gone,
                   early, wireVars, in_channel, told, troubles>>

LeaveWhenAlone(s) ==
    /\ s \in idle
    /\ IF people
       THEN /\ idle' = idle \ {s}
            /\ UNCHANGED <<gate, ended, leaving, worker, early, from_core>>
       ELSE /\ EndsWith(s, client)
            /\ ToSidecar(IF AsksSidecar(client) THEN <<[type |-> "leave"]>> ELSE << >>)
    /\ UNCHANGED <<stage, channel, client, protocol, ready, gone, link, from_sidecar, sidecar,
                   worldVars>>

(***************************************************************************)
(* The sidecar                                                             *)
(***************************************************************************)
\* destroy(): the leave that core is to send on its gateway, then the news.
Farewell == <<[type |-> "payload", channel |-> None], [type |-> "disconnected"]>>

SidecarTakes ==
    /\ from_core # << >>
    /\ from_core' = Tail(from_core)
    /\ LET m == Head(from_core)
           Joins == [channel |-> m.channel, status |-> "joining"]
           Asks == <<[type |-> "payload", channel |-> m.channel]>>
       IN  CASE m.type = "join" /\ sidecar.channel = None ->
                    sidecar' = Joins /\ ToCore(Asks)
             [] m.type = "join" /\ sidecar.channel = m.channel ->
                    /\ UNCHANGED sidecar
                    /\ ToCore(IF sidecar.status = "ready" THEN <<[type |-> "ready"]>> ELSE << >>)
             [] m.type = "join" /\ sidecar.channel \notin {None, m.channel} ->
                    sidecar' = Joins /\ ToCore(Farewell \o Asks)
             [] m.type = "leave" ->
                    /\ sidecar' = NotThere
                    /\ ToCore(IF sidecar = NotThere THEN Tail(Farewell) ELSE Farewell)
    /\ UNCHANGED <<sessionVars, link, worldVars>>

\* The voice handshake of a channel Discord shows the bot in, whose events
\* core passes on as long as the guild has a voice client; also the recovery
\* of a dropped connection.
SidecarReady ==
    /\ sidecar.status \in {"joining", "dropped"}
    /\ in_channel = sidecar.channel /\ client # None /\ link
    /\ sidecar' = [sidecar EXCEPT !.status = "ready"]
    /\ ToCore(<<[type |-> "ready"]>>)
    /\ UNCHANGED <<sessionVars, link, from_core, worldVars>>

\* Without the channel the voice connection dies; the network may cut it too.
SidecarDrops ==
    /\ sidecar.status = "ready"
    /\ \/ in_channel # sidecar.channel /\ UNCHANGED troubles
       \/ "network" \in Faults /\ troubles < MaxTroubles /\ troubles' = troubles + 1
    /\ sidecar' = [sidecar EXCEPT !.status = "dropped"]
    /\ UNCHANGED <<sessionVars, link, from_core, from_sidecar, in_channel, told, people>>

\* It did not come back within RECONNECT_MS.
SidecarGivesUp ==
    /\ sidecar.status = "dropped"
    /\ sidecar' = NotThere
    /\ ToCore(Farewell)
    /\ UNCHANGED <<sessionVars, link, from_core, worldVars>>

(***************************************************************************)
(* The bridge in core                                                      *)
(***************************************************************************)
CoreTakes ==
    /\ from_sidecar # << >>
    /\ from_sidecar' = Tail(from_sidecar)
    /\ LET m == Head(from_sidecar)
       IN  CASE m.type = "payload" ->
                    /\ in_channel' = m.channel
                    /\ told' = (told \/ (m.channel = None /\ in_channel # None))
                    /\ UNCHANGED <<sessionVars, from_core>>
             [] m.type = "ready" ->
                    /\ ready' = ready \cup ({protocol} \ {None})
                    /\ UNCHANGED <<gate, stage, channel, ended, leaving, worker, idle, client,
                                   protocol, gone, early, from_core, in_channel, told>>
             [] m.type = "disconnected" ->
                    /\ gone' = gone \cup ({protocol} \ {None})
                    /\ IF gate # None
                       THEN /\ EndsWith(gate, client)
                            /\ ToSidecar(IF client \notin gone' \cup {None}
                                         THEN <<[type |-> "leave"]>> ELSE << >>)
                       ELSE UNCHANGED <<gate, ended, leaving, worker, idle, early, from_core>>
                    /\ UNCHANGED <<stage, channel, client, protocol, ready, in_channel, told>>
    /\ UNCHANGED <<link, sidecar, people, troubles>>

\* Every call ends with the link; the sidecar leaves its channels, and what
\* it says of it is not heard.
LinkDrops ==
    /\ "link" \in Faults /\ link /\ troubles < MaxTroubles
    /\ link' = FALSE /\ from_core' = << >> /\ from_sidecar' = << >> /\ sidecar' = NotThere
    /\ gone' = gone \cup ({protocol} \ {None})
    /\ IF gate # None THEN EndsWith(gate, client)
       ELSE UNCHANGED <<gate, ended, leaving, worker, idle, early>>
    /\ troubles' = troubles + 1
    /\ UNCHANGED <<stage, channel, client, protocol, ready, in_channel, told, people>>

LinkReturns ==
    /\ ~link /\ link' = TRUE
    /\ UNCHANGED <<sessionVars, from_core, from_sidecar, sidecar, worldVars>>

(***************************************************************************)
(* Discord                                                                 *)
(***************************************************************************)
Kick ==
    /\ "kick" \in Faults /\ in_channel # None /\ troubles < MaxTroubles
    /\ in_channel' = None /\ told' = TRUE /\ troubles' = troubles + 1
    /\ UNCHANGED <<sessionVars, wireVars, people>>

\* VOICE_STATE_UPDATE without a channel: the protocol cleans up, and then
\* on_voice_state_update ends the call, which finds no voice client any more.
DiscordSaysLeft ==
    /\ told /\ told' = FALSE
    /\ client' = None /\ protocol' = IF protocol = client THEN None ELSE protocol
    /\ IF gate # None THEN EndsWith(gate, None)
       ELSE UNCHANGED <<gate, ended, leaving, worker, idle, early>>
    /\ UNCHANGED <<stage, channel, ready, gone, wireVars, in_channel, people, troubles>>

CallNext ==
    \/ \E s \in Sessions :
         \/ \E c \in Channels : Start(s, c)
         \/ Connect(s) \/ Connected(s) \/ ConnectFails(s) \/ ConnectTimesOut(s) \/ BackedOut(s)
         \/ Begin(s) \/ Posted(s) \/ LeaveWhenAlone(s) \/ Disconnected(s)
    \/ AskedToLeave \/ PeopleComeOrGo
    \/ SidecarTakes \/ SidecarReady \/ SidecarDrops \/ SidecarGivesUp
    \/ CoreTakes \/ LinkDrops \/ LinkReturns
    \/ Kick \/ DiscordSaysLeft

CallSpec == CallInit /\ [][CallNext]_callVars

\* Awaits return and timers fire: what core, the sidecar and Discord have to
\* do they do. People and mishaps come as they like.
FairCallSpec ==
    /\ CallSpec
    /\ \A s \in Sessions :
         /\ WF_callVars(Connect(s)) /\ WF_callVars(Connected(s)) /\ WF_callVars(ConnectFails(s))
         /\ WF_callVars(ConnectTimesOut(s)) /\ WF_callVars(BackedOut(s))
         /\ WF_callVars(Begin(s)) /\ WF_callVars(Posted(s))
         /\ WF_callVars(LeaveWhenAlone(s)) /\ WF_callVars(Disconnected(s))
    /\ WF_callVars(SidecarTakes) /\ WF_callVars(SidecarDrops) /\ WF_callVars(SidecarGivesUp)
    /\ WF_callVars(CoreTakes) /\ WF_callVars(LinkReturns) /\ WF_callVars(DiscordSaysLeft)

(***************************************************************************)
(* Properties                                                              *)
(***************************************************************************)
\* Nothing is on its way and nobody is waiting for anything.
Quiet ==
    /\ link /\ from_core = << >> /\ from_sidecar = << >> /\ ~told
    /\ sidecar.status \in {"none", "ready"} /\ sidecar.channel = in_channel
    /\ \A s \in Sessions : stage[s] \in {"new", "begun", "failed"} /\ leaving[s] = None

\* No guild stays silent in text over a call that is not there: whoever is in
\* the gate is connected, in core, in the sidecar and in Discord.
GateMeansCall ==
    Quiet /\ gate # None =>
        client = gate /\ sidecar.status = "ready" /\ in_channel = channel[gate]

\* The other way round, "the two never disagree": a voice client in a guild
\* whose gate is open could be ended by nobody and lets no call start. A
\* session ended before it looked for its voice client is left out.
CallMeansGate == Quiet /\ client # None => gate = client \/ client \in early

\* The module's own words: end() "clears the voice gate and the discord.py
\* voice client together, so the two never disagree".
NeverDisagree == Quiet /\ client # None => gate = client

\* A call in which everybody left ends, whatever came in between.
LeftAloneEnds ==
    \A s \in Sessions : (gate = s /\ ~people) ~> (people \/ gate # s)
================================================================================
