------------------------------- MODULE MapSync -------------------------------
(***************************************************************************)
(* The map-sync channel: handshake.rs, state.rs, the event handlers of     *)
(* lib.rs, and who a correction request comes from.                        *)
(*                                                                         *)
(* A client says HELLO with an offer of capabilities and is answered with  *)
(* the frames of build_reply; anything else is a strike.  Positions are    *)
(* streamed to the clients that negotiated them.  All of it is kept by     *)
(* player name until the player leaves.  The host makes one call at a time.*)
(* The counters and lists that only /cfm status and hello show are left    *)
(* out.                                                                    *)
(***************************************************************************)
EXTENDS Naturals, Sequences

CONSTANTS
  Players,
  Bedrock,     \* the players without a Java side, to whom nothing can be sent
  MaxStrikes,  \* the strike that mutes
  MaxPending,  \* bound: how many frames may be on their way to one client
  NotOpen      \* in place of a session

ASSUME SyncNumbers == MaxStrikes \in Nat \ {0} /\ MaxPending \in Nat
ASSUME SyncPlayers == Bedrock \subseteq Players

Capabilities == {"view distance", "instance", "positions"}

\* What parse_offer makes of a HELLO: without a caps2 marker nothing is offered.
Offers == {o \in [caps2 : BOOLEAN, caps : SUBSET Capabilities] : o.caps2 \/ o.caps = {}}

\* The frames properties speak of; errors and patches change nothing in a client.
Frames ==
  [type : {"capabilities"}, caps : SUBSET Capabilities] \union
  [type : Capabilities \union {"policy"}]

VARIABLES
  allow_entity_radar,  \* of CONFIG
  claimed,             \* LATE_ANNOUNCED
  strikes, muted,      \* STRIKES, MUTED
  radar,               \* RADAR_SUBSCRIBERS
  online,              \* the host's players
  outbox,              \* per player: frames on their way to its client
  client               \* per player: what its client has made of them

kept == <<claimed, strikes, muted, radar>>
vars == <<allow_entity_radar, kept, online, outbox, client>>

(***************************************************************************)
(* build_reply.                                                            *)
(***************************************************************************)
Granted(offer) == {k \in offer.caps : k = "positions" => allow_entity_radar}

CapabilityFrames(offer) ==
  IF ~offer.caps2 THEN <<>>
  ELSE <<[type |-> "capabilities", caps |-> Granted(offer)]>>
       \o (IF "view distance" \in offer.caps THEN <<[type |-> "view distance"]>> ELSE <<>>)
       \o (IF "instance" \in offer.caps THEN <<[type |-> "instance"]>> ELSE <<>>)

\* Seeded fault: the policy is sent first.
PolicyFirst(offer) == <<[type |-> "policy"]>> \o CapabilityFrames(offer)
BuildReply(offer) == CapabilityFrames(offer) \o <<[type |-> "policy"]>>

(***************************************************************************)
(* The handlers of events.                                                 *)
(***************************************************************************)
NewClient ==
  [selected |-> {}, session |-> NotOpen,
   lost |-> {},     \* history: what it was granted and then no longer
   refused |-> {},  \* history: the gated messages that came while not selected
   late |-> 0,      \* history: late announcements since it connected
   honest |-> TRUE] \* history: it has only sent well-formed messages since then

Init ==
  /\ allow_entity_radar \in BOOLEAN
  /\ claimed = {} /\ muted = {} /\ radar = {} /\ online = {}
  /\ strikes = [p \in Players |-> 0]
  /\ outbox = [p \in Players |-> <<>>]
  /\ client = [p \in Players |-> NewClient]

\* DeclareOnLoginHandler, for a new connection.  Seeded fault: the claim of the last
\* one is kept.
ClaimKept(p) == claimed
ClaimReset(p) == claimed \ {p}

Login(p) ==
  /\ p \notin online
  /\ online' = online \union {p}
  /\ claimed' = ClaimReset(p)
  /\ UNCHANGED <<allow_entity_radar, strikes, muted, radar, outbox, client>>

\* RegisterChannelHandler, for a channel that is not this one.
RegisterForeign(p) ==
  /\ p \in online \ claimed
  /\ claimed' = claimed \union {p}
  /\ client' = [client EXCEPT ![p].late = IF p \in Bedrock THEN @ ELSE @ + 1]
  /\ UNCHANGED <<allow_entity_radar, strikes, muted, radar, online, outbox>>

\* Seeded fault: nobody looks who is muted.
HeardAnyway(p) == TRUE
Heard(p) == p \notin muted

\* Seeded fault: the radar is subscribed to as offered.
SubscribesAsOffered(offer) == "positions" \in offer.caps
Subscribes(offer) == "positions" \in offer.caps /\ allow_entity_radar

\* handle_payload, for a HELLO.  One of a Bedrock player only leaves a line in the log.
Hello(p, offer) ==
  /\ p \in online \ Bedrock /\ Heard(p)
  /\ Len(outbox[p]) < MaxPending
  /\ outbox' = [outbox EXCEPT ![p] = @ \o BuildReply(offer)]
  /\ radar' = IF Subscribes(offer) THEN radar \union {p} ELSE radar
  /\ UNCHANGED <<allow_entity_radar, claimed, strikes, muted, online, client>>

\* record_malformed_strike.
StruckOut(n) == n >= MaxStrikes

\* handle_payload, for anything else: garbage, or a request for corrections, which
\* is answered all the same.
NotHello(p, wellFormed) ==
  /\ p \in online /\ Heard(p)
  /\ strikes' = [strikes EXCEPT ![p] = @ + 1]
  /\ muted' = IF StruckOut(strikes'[p]) THEN muted \union {p} ELSE muted
  /\ client' = [client EXCEPT ![p].honest = @ /\ wellFormed]
  /\ UNCHANGED <<allow_entity_radar, claimed, radar, online, outbox>>

\* clean_player_session.  Seeded fault: the mute stays.
MuteKept(p) ==
  /\ radar' = radar \ {p}
  /\ strikes' = [strikes EXCEPT ![p] = 0]
  /\ UNCHANGED muted
Cleaned(p) ==
  /\ radar' = radar \ {p}
  /\ strikes' = [strikes EXCEPT ![p] = 0]
  /\ muted' = muted \ {p}

\* PlayerLeaveHandler; the connection and what was on its way are gone.
Leave(p) ==
  /\ p \in online
  /\ online' = online \ {p}
  /\ Cleaned(p)
  /\ outbox' = [outbox EXCEPT ![p] = <<>>]
  /\ client' = [client EXCEPT ![p] = NewClient]
  /\ UNCHANGED <<allow_entity_radar, claimed>>

(***************************************************************************)
(* The tick, the console, and the clients.                                 *)
(***************************************************************************)
\* broadcast_player_positions.
BroadcastPositions ==
  LET listeners == (online \intersect radar) \ Bedrock IN
  /\ allow_entity_radar /\ listeners # {}
  /\ \A p \in listeners : Len(outbox[p]) < MaxPending
  /\ outbox' = [p \in Players |->
                  IF p \in listeners THEN Append(outbox[p], [type |-> "positions"])
                  ELSE outbox[p]]
  /\ UNCHANGED <<allow_entity_radar, kept, online, client>>

\* ReloadHandler.
Reload ==
  /\ allow_entity_radar' \in BOOLEAN \ {allow_entity_radar}
  /\ UNCHANGED <<kept, online, outbox, client>>

\* A client, as handshake.rs describes it: it selects what a frame of capabilities
\* grants, opens its session on a policy with what it has selected by then, and refuses
\* a gated message it has not selected.
Taken(c, frame) ==
  CASE frame.type = "capabilities" ->
         [c EXCEPT !.selected = frame.caps, !.lost = @ \union (c.selected \ frame.caps)]
    [] frame.type = "policy" -> [c EXCEPT !.session = c.selected]
    [] OTHER -> [c EXCEPT !.refused = @ \union ({frame.type} \ c.selected)]

Take(p) ==
  /\ outbox[p] # <<>>
  /\ outbox' = [outbox EXCEPT ![p] = Tail(@)]
  /\ client' = [client EXCEPT ![p] = Taken(@, Head(outbox[p]))]
  /\ UNCHANGED <<allow_entity_radar, kept, online>>

Next ==
  \/ \E p \in Players :
       \/ Login(p) \/ RegisterForeign(p) \/ Leave(p) \/ Take(p)
       \/ \E offer \in Offers : Hello(p, offer)
       \/ \E wellFormed \in BOOLEAN : NotHello(p, wellFormed)
  \/ BroadcastPositions \/ Reload

Spec == Init /\ [][Next]_vars

(***************************************************************************)
(* Properties.                                                             *)
(***************************************************************************)
Clients ==
  [selected : SUBSET Capabilities, session : {NotOpen} \union SUBSET Capabilities,
   lost : SUBSET Capabilities, refused : SUBSET Capabilities, late : 0..1, honest : BOOLEAN]

\* The variables have their types, and whoever is muted has struck out.
TypeOK ==
  /\ allow_entity_radar \in BOOLEAN
  /\ claimed \subseteq Players /\ radar \subseteq Players /\ online \subseteq Players
  /\ strikes \in [Players -> 0..MaxStrikes]
  /\ muted = {p \in Players : StruckOut(strikes[p])}
  /\ outbox \in [Players -> Seq(Frames)]
  /\ client \in [Players -> Clients]

\* A player who has left leaves nothing to the next connection of that name: no
\* strike, no mute, no stream of positions.
DepartedForgotten ==
  \A p \in Players \ online :
    strikes[p] = 0 /\ p \notin muted /\ p \notin radar

\* No client ever has to refuse a gated message, except positions once the answer to a
\* later HELLO has left them out: nothing comes ahead of the frame that grants it, is
\* left over from an earlier connection or follows from a configuration that no longer
\* holds.
NothingEarly ==
  \A p \in Players : client[p].refused \subseteq client[p].lost \intersect {"positions"}

\* A client whose frames have all arrived has opened its session on the capabilities
\* it was last granted: the policy comes last.
SessionKnowsGrants ==
  \A p \in Players :
    (outbox[p] = <<>> /\ client[p].session # NotOpen) => client[p].session = client[p].selected

\* A muted player stays muted for the rest of the connection, and nothing it sends
\* changes what is kept of it; all that still reaches its client is the positions it
\* had negotiated.
MutedIsIgnored ==
  [][\A p \in muted \intersect online :
       p \in online' =>
         /\ p \in muted' /\ strikes'[p] = strikes[p]
         /\ p \in radar' <=> p \in radar
         /\ outbox'[p] \in {outbox[p], SubSeq(outbox[p], 2, Len(outbox[p])),
                            Append(outbox[p], [type |-> "positions"])}]_vars

\* A connection gets at most one late announcement, and has had it once its player has
\* registered a foreign channel.
LateOnce ==
  \A p \in online \ Bedrock : client[p].late = IF p \in claimed THEN 1 ELSE 0

\* README: corrections are answered, and three malformed packets mute.  A client that
\* sends nothing malformed is not muted.
HonestNeverMuted == \A p \in muted : ~client[p].honest
==============================================================================
