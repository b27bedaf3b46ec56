----------------------------- MODULE WaypointHub -----------------------------
(***************************************************************************)
(* The hub of the shared waypoints, waypoints/mod.rs: the sessions of      *)
(* waypoints/session.rs and the catalog behind one lock, and the calls     *)
(* that take the lock, compute, release it and only then send.             *)
(*                                                                         *)
(* A call into the plugin occupies one of Threads from the event to its    *)
(* last frame.  With one thread the host makes one call at a time; with    *)
(* more, calls overlap wherever no lock is held, which is what the module  *)
(* documentation prepares for.                                             *)
(*                                                                         *)
(* A point is known here by its id and the revision that stamped it: under *)
(* one stamp nothing else of it changes (Catalog).  What the service       *)
(* answers a mutation with - applied, replayed or rejected, and why - is   *)
(* WaypointService's; here it is any of them.  The host (who is online, at *)
(* which level) and the clients are external.                              *)
(***************************************************************************)
EXTENDS Naturals, FiniteSets, Sequences

CONSTANTS
  Players, WaypointIds,
  Threads,          \* the calls the host can have in progress at once
  MaxRevision,      \* the last revision
  MaxSessions,      \* MAX_TRACKED_SESSIONS
  MaxStrikes,       \* MAX_MALFORMED_STRIKES
  ControlBurst,     \* CONTROL_REQUEST_BURST
  ProtoMinor,       \* PROTO_MINOR
  ClientMinors,     \* the minors clients speak
  Unprovoked,       \* the kinds of message clients also send without a reason
  Commands,         \* what is done on the console: "clear", "reload", "unload", "op"
  StartPoints,      \* the catalogs the file may hold when the plugin is first loaded
  Idle, NoSession, NoCache, NotTold

ASSUME HubBounds ==
  /\ MaxRevision \in Nat /\ ProtoMinor \in Nat
  /\ MaxSessions \in Nat \ {0} /\ MaxStrikes \in Nat \ {0} /\ ControlBurst \in Nat \ {0}
ASSUME HubInputs ==
  /\ ClientMinors \subseteq Nat /\ IsFiniteSet(Unprovoked)
  /\ Commands \subseteq {"clear", "reload", "unload", "op"}
ASSUME HubIdsFinite == IsFiniteSet(WaypointIds)
ASSUME HubThreadsFinite == IsFiniteSet(Threads)

Revisions == 0..MaxRevision

\* Id -> the revision that stamped the point listed under it, 0 for none.
Stamps == [WaypointIds -> Revisions]
NoPoints == [i \in WaypointIds |-> 0]
Live(c) == {i \in WaypointIds : c[i] # 0}

ASSUME StartPointsStamped == StartPoints \subseteq Stamps

VARIABLES
  revision, points,  \* the catalog, as its service has it
  past,              \* history: the catalog at each revision
  loaded,            \* Hub::service is there
  enabled,           \* Settings::enabled
  refresh,           \* Hub::refresh_status
  pendingDeltas,     \* Hub::pending_deltas
  sessions,          \* Sessions::map
  running,           \* the plugin is loaded
  shared,            \* share_waypoints, as the configuration was last read
  online, level,     \* the host: who is connected, and who is an operator
  calls,             \* the calls in progress
  told, cache        \* each client: the last status it was sent, and its copy

catalogVars == <<revision, points, past>>
settingVars == <<loaded, enabled, running, shared>>
hostVars == <<online, level>>
clientVars == <<told, cache>>
vars == <<catalogVars, settingVars, hostVars, clientVars,
          refresh, pendingDeltas, sessions, calls>>

(***************************************************************************)
(* Sessions.                                                               *)
(***************************************************************************)
NewSession ==
  [compatible |-> FALSE, minor |-> 0, subscribed |-> FALSE, operator |-> FALSE,
   strikes |-> 0, muted |-> FALSE, tokens |-> ControlBurst]

SessionRecords ==
  [compatible : BOOLEAN, minor : 0..ProtoMinor, subscribed : BOOLEAN, operator : BOOLEAN,
   strikes : 0..MaxStrikes, muted : BOOLEAN, tokens : 0..ControlBurst]

Has(p) == sessions[p] # NoSession

\* Session::is_compatible.
Compatible(p) == Has(p) /\ sessions[p].compatible /\ ~sessions[p].muted

Subscribers == {p \in Players : Compatible(p) /\ sessions[p].subscribed}

\* Session::effective_minor.
MinorOf(p) == IF Compatible(p) THEN sessions[p].minor ELSE 0

\* Session::record_malformed.  Seeded fault: the strikes start again after a mute.
StruckAfresh(s) ==
  LET n == IF s.muted THEN 1 ELSE s.strikes + 1
  IN  [s EXCEPT !.strikes = n, !.muted = (n >= MaxStrikes)]
Struck(s) ==
  LET n == IF s.strikes < MaxStrikes THEN s.strikes + 1 ELSE MaxStrikes
  IN  [s EXCEPT !.strikes = n, !.muted = (n >= MaxStrikes)]

\* Session::accept_hello, once charged.
Greeted(s, m, operator) ==
  [s EXCEPT !.subscribed = FALSE, !.compatible = m.major, !.operator = operator,
            !.tokens = @ - 1,
            !.minor = IF m.minor < ProtoMinor THEN m.minor ELSE ProtoMinor]

(***************************************************************************)
(* Frames, and the calls that send them.                                   *)
(***************************************************************************)
StatusFrame(operator, minor, supported) ==
  [kind |-> "STATUS", minor |-> minor, supported |-> supported,
   enabled |-> supported /\ enabled, operator |-> operator]
SnapshotFrame(operator, minor) ==
  [kind |-> "SNAPSHOT", minor |-> minor, operator |-> operator,
   revision |-> revision, points |-> points]
ResultFrame(minor) == [kind |-> "RESULT", minor |-> minor]
DeltaFrame(kind, minor, i, rev) ==
  [kind |-> kind, minor |-> minor, id |-> i, revision |-> rev]

\* What clients send.
Hellos == [kind : {"HELLO"}, major : BOOLEAN, minor : ClientMinors]
Messages == Hellos \union [kind : {"SUBSCRIBE", "MUTATE", "LOCK", "MALFORMED"}]

NoBatch == [q \in {} |-> Idle]

\* The batches with frames left.
Unsent(out) == {n \in DOMAIN out : DOMAIN out[n] # {}}

\* A call that sends: batches of frames, one per addressee, whose handles it
\* holds, and a broadcast whose addressees it has still to look up.
Sending(out, fanout) ==
  IF Unsent(out) # {} THEN [stage |-> "sending", out |-> out, fanout |-> fanout]
  ELSE IF DOMAIN fanout # {} THEN [stage |-> "sending", out |-> <<>>, fanout |-> fanout]
  ELSE Idle

Without(batch, p) == [q \in DOMAIN batch \ {p} |-> batch[q]]

\* What is left of a call when p's connection closes: its handle is dead.
WithoutPlayer(c, p) ==
  IF c = Idle THEN Idle
  ELSE IF c.stage # "sending" THEN [c EXCEPT !.handles = @ \ {p}]
  ELSE Sending([n \in DOMAIN c.out |-> Without(c.out[n], p)], c.fanout)

\* What a handler answers the player whose payload it is.
Answer(t, p, frames) ==
  calls' = [calls EXCEPT ![t] =
              IF p \in calls[t].handles
              THEN Sending([n \in DOMAIN frames |-> [q \in {p} |-> frames[n]]], NoBatch)
              ELSE Idle]

Nothing(t) == calls' = [calls EXCEPT ![t] = Idle]

(***************************************************************************)
(* The start: the first configure.                                         *)
(***************************************************************************)
\* A catalog of a newer schema is left alone, and the feature is off.
EnabledIf(ok, flag) == ok /\ flag

Known(rev, c) == [r \in Revisions |-> IF r = rev THEN c ELSE NoPoints]

LastStamp(c) == CHOOSE r \in Revisions : /\ \A i \in WaypointIds : c[i] <= r
                                         /\ r = 0 \/ \E i \in WaypointIds : c[i] = r

Init ==
  /\ loaded \in BOOLEAN
  /\ points \in IF loaded THEN StartPoints ELSE {NoPoints}
  /\ revision = LastStamp(points)
  /\ past = Known(revision, points)
  /\ shared \in BOOLEAN
  /\ enabled = EnabledIf(loaded, shared)
  /\ refresh = loaded
  /\ pendingDeltas = <<>>
  /\ sessions = [p \in Players |-> NoSession]
  /\ running = TRUE
  /\ online = {}
  /\ level = [p \in Players |-> FALSE]
  /\ calls = [t \in Threads |-> Idle]
  /\ told = [p \in Players |-> NotTold]
  /\ cache = [p \in Players |-> NoCache]

(***************************************************************************)
(* The clients and the host (external).                                    *)
(***************************************************************************)
\* A client greets once, subscribes when it is served and has no copy to
\* follow, and otherwise may ask for a change.
Due(p, m) ==
  CASE m.kind = "HELLO" -> told[p] = NotTold
    [] m.kind = "SUBSCRIBE" -> told[p] # NotTold /\ told[p].enabled /\ cache[p] = NoCache
    [] m.kind = "MUTATE" -> told[p] # NotTold /\ told[p].supported
    [] OTHER -> FALSE

\* on_payload begins: peer_of reads the player's level before the lock.
Receive(t, p, m) ==
  /\ running /\ calls[t] = Idle
  /\ p \in online
  /\ m.kind \in Unprovoked \/ Due(p, m)
  /\ calls' = [calls EXCEPT ![t] = [stage |-> "received", from |-> p, handles |-> {p},
                                    message |-> m, operator |-> level[p]]]
  /\ UNCHANGED <<catalogVars, settingVars, hostVars, clientVars,
                 refresh, pendingDeltas, sessions>>

Join(p) ==
  /\ p \notin online
  /\ online' = online \union {p}
  /\ UNCHANGED <<catalogVars, settingVars, level, clientVars,
                 refresh, pendingDeltas, sessions, calls>>

ChangeLevel(p) ==
  /\ "op" \in Commands
  /\ p \in online
  /\ level' = [level EXCEPT ![p] = ~@]
  /\ UNCHANGED <<catalogVars, settingVars, online, clientVars,
                 refresh, pendingDeltas, sessions, calls>>

\* How a client takes a frame.  It follows its copy one revision at a time, and
\* drops it, to subscribe again, when one is missing.
Apply(c, f) ==
  IF f.kind = "SNAPSHOT" THEN [revision |-> f.revision, points |-> f.points]
  ELSE IF f.kind = "STATUS" THEN (IF f.enabled THEN c ELSE NoCache)
  ELSE IF f.kind = "RESULT" \/ c = NoCache \/ f.revision <= c.revision THEN c
  ELSE IF f.revision > c.revision + 1 THEN NoCache
  ELSE [revision |-> f.revision,
        points |-> [c.points EXCEPT ![f.id] = IF f.kind = "UPSERT" THEN f.revision ELSE 0]]

Take(p, f) ==
  /\ cache' = [cache EXCEPT ![p] = Apply(@, f)]
  /\ told' = [told EXCEPT ![p] =
                IF f.kind = "STATUS"
                THEN [supported |-> f.supported, enabled |-> f.enabled,
                      operator |-> f.operator, minor |-> f.minor]
                ELSE IF f.kind = "SNAPSHOT" /\ @ # NotTold
                THEN [@ EXCEPT !.operator = f.operator]
                ELSE @]

(***************************************************************************)
(* Hub::handle, under the lock: one action per message.                    *)
(***************************************************************************)
Received(t, kind) ==
  /\ calls[t] # Idle
  /\ calls[t].stage = "received"
  /\ calls[t].message.kind = kind

\* Hub::note_malformed.
HandleMalformed(t) ==
  /\ Received(t, "MALFORMED")
  /\ LET p == calls[t].from
     IN  sessions' = IF Has(p) THEN [sessions EXCEPT ![p] = Struck(@)] ELSE sessions
  /\ Nothing(t)
  /\ UNCHANGED <<catalogVars, settingVars, hostVars, clientVars, refresh, pendingDeltas>>

SessionsFull == Cardinality({p \in Players : Has(p)}) >= MaxSessions

\* Sessions::ensure and Sessions::hello: the session a greeting is taken up in.
Opened(p) == IF Has(p) THEN sessions[p] ELSE NewSession

GreetingTaken(p) ==
  /\ Has(p) \/ ~SessionsFull
  /\ ~Opened(p).muted
  /\ Opened(p).tokens > 0

HandleHello(t) ==
  /\ Received(t, "HELLO")
  /\ LET p == calls[t].from
         s == Greeted(Opened(p), calls[t].message, calls[t].operator)
     IN  \/ /\ ~GreetingTaken(p)
            /\ Nothing(t)
            /\ UNCHANGED sessions
         \/ /\ GreetingTaken(p)
            /\ sessions' = [sessions EXCEPT ![p] = s]
            /\ Answer(t, p, <<StatusFrame(calls[t].operator,
                                          IF s.compatible THEN s.minor ELSE 0,
                                          s.compatible)>>)
  /\ UNCHANGED <<catalogVars, settingVars, hostVars, clientVars, refresh, pendingDeltas>>

Charged(s) == [s EXCEPT !.tokens = @ - 1]

\* A control request is answered while the connection has tokens.  Seeded fault:
\* it is charged whatever is left.
ServedUncounted(p) == Compatible(p)
Served(p) == Compatible(p) /\ sessions[p].tokens > 0

Subscribed(s, operator) == [Charged(s) EXCEPT !.subscribed = enabled, !.operator = operator]

HandleSubscribe(t) ==
  /\ Received(t, "SUBSCRIBE")
  /\ LET p == calls[t].from
         operator == calls[t].operator
     IN  \/ /\ ~Served(p)
            /\ Nothing(t)
            /\ UNCHANGED sessions
         \/ /\ Served(p)
            /\ sessions' = [sessions EXCEPT ![p] = Subscribed(@, operator)]
            /\ Answer(t, p, <<IF enabled THEN SnapshotFrame(operator, MinorOf(p))
                              ELSE StatusFrame(operator, MinorOf(p), TRUE)>>)
  /\ UNCHANGED <<catalogVars, settingVars, hostVars, clientVars, refresh, pendingDeltas>>

\* Hub::disabled, for a mutation or a lock while the feature is off.
AnswerDisabled(t, p) ==
  \/ /\ sessions[p].tokens = 0
     /\ Answer(t, p, <<ResultFrame(MinorOf(p))>>)
     /\ UNCHANGED sessions
  \/ /\ sessions[p].tokens > 0
     /\ sessions' = [sessions EXCEPT ![p] = [Charged(@) EXCEPT !.operator = calls[t].operator]]
     /\ Answer(t, p, <<ResultFrame(MinorOf(p)),
                       StatusFrame(calls[t].operator, MinorOf(p), TRUE)>>)

HandleLock(t) ==
  /\ Received(t, "LOCK")
  /\ LET p == calls[t].from
     IN  \/ /\ ~Compatible(p)
            /\ Nothing(t)
            /\ UNCHANGED sessions
         \/ /\ Compatible(p) /\ ~enabled
            /\ AnswerDisabled(t, p)
         \/ /\ Compatible(p) /\ enabled
            /\ Answer(t, p, <<ResultFrame(MinorOf(p))>>)
            /\ UNCHANGED sessions
  /\ UNCHANGED <<catalogVars, settingVars, hostVars, clientVars, refresh, pendingDeltas>>

\* A mutation that changes nothing: it is replayed or refused, or the feature is
\* off, or its sender never agreed on anything.
HandleUnapplied(t) ==
  /\ Received(t, "MUTATE")
  /\ LET p == calls[t].from
     IN  \/ /\ ~Compatible(p) \/ (enabled /\ ~loaded)
            /\ Nothing(t)
            /\ UNCHANGED sessions
         \/ /\ Compatible(p) /\ ~enabled
            /\ AnswerDisabled(t, p)
         \/ /\ Compatible(p) /\ enabled /\ loaded
            /\ Answer(t, p, <<ResultFrame(MinorOf(p))>>)
            /\ UNCHANGED sessions
  /\ UNCHANGED <<catalogVars, settingVars, hostVars, clientVars, refresh, pendingDeltas>>

\* Whom a broadcast is for, each at the minor it agreed on (Hub::recipients).
\* Seeded faults: at the author's; without the author, who has its result.
RecipientsButAuthor(author) == [q \in Subscribers \ {author} |-> MinorOf(q)]
RecipientsAtAuthors(author) == [q \in Subscribers |-> MinorOf(author)]
Recipients(author) == [q \in Subscribers |-> MinorOf(q)]

\* A mutation that changes the catalog: its author is sent the result, then every
\* subscriber the delta.
HandleApplied(t) ==
  /\ Received(t, "MUTATE")
  /\ revision < MaxRevision
  /\ LET p == calls[t].from
         to == Recipients(p)
     IN  /\ Compatible(p) /\ enabled /\ loaded
         /\ \E i \in WaypointIds, kind \in {"UPSERT", "REMOVE"} :
              /\ kind = "REMOVE" => points[i] # 0
              /\ points' = [points EXCEPT ![i] = IF kind = "UPSERT" THEN revision + 1 ELSE 0]
              /\ calls' = [calls EXCEPT ![t] =
                   Sending(<<[q \in {p} \intersect @.handles |-> ResultFrame(MinorOf(p))]>>,
                           [q \in DOMAIN to |-> DeltaFrame(kind, to[q], i, revision + 1)])]
  /\ revision' = revision + 1
  /\ past' = [past EXCEPT ![revision + 1] = points']
  /\ UNCHANGED <<settingVars, hostVars, clientVars, refresh, pendingDeltas, sessions>>

(***************************************************************************)
(* Sending, with no lock held.                                             *)
(***************************************************************************)
\* The next frame goes out, and its addressee takes it.
Deliver(t) ==
  /\ calls[t] # Idle
  /\ calls[t].stage = "sending"
  /\ LET out == calls[t].out
     IN  \E n \in Unsent(out) :
           /\ \A k \in Unsent(out) : n <= k
           /\ \E p \in DOMAIN out[n] :
                /\ Take(p, out[n][p])
                /\ calls' = [calls EXCEPT ![t] =
                     Sending([out EXCEPT ![n] = Without(@, p)], @.fanout)]
  /\ UNCHANGED <<catalogVars, settingVars, hostVars, refresh, pendingDeltas, sessions>>

\* The result sent, on_payload asks the host who is online.
LookUp(t) ==
  /\ calls[t] # Idle
  /\ calls[t].stage = "sending" /\ Unsent(calls[t].out) = {}
  /\ LET present == [q \in DOMAIN calls[t].fanout \intersect online |-> calls[t].fanout[q]]
     IN  calls' = [calls EXCEPT ![t] =
           Sending(<<present>>, NoBatch)]
  /\ UNCHANGED <<catalogVars, settingVars, hostVars, clientVars,
                 refresh, pendingDeltas, sessions>>

(***************************************************************************)
(* on_tick.                                                                *)
(***************************************************************************)
\* The levels are read before the lock.
BeginTick(t) ==
  /\ running /\ calls[t] = Idle
  /\ calls' = [calls EXCEPT ![t] = [stage |-> "ticking", handles |-> online,
                                    levels |-> [p \in online |-> level[p]]]]
  /\ UNCHANGED <<catalogVars, settingVars, hostVars, clientVars,
                 refresh, pendingDeltas, sessions>>

\* Whose level moved (Sessions::refresh_operator).
Moved(levels) == {p \in DOMAIN levels : Compatible(p) /\ sessions[p].operator # levels[p]}

\* Everyone, when the settings changed; else whoever's level moved.  Seeded fault:
\* a level that moves is noted and told nobody.
InformedOnRefresh(levels) == IF refresh THEN {p \in Players : Compatible(p)} ELSE {}
Informed(levels) == IF refresh THEN {p \in Players : Compatible(p)} ELSE Moved(levels)

Tick(t) ==
  /\ calls[t] # Idle
  /\ calls[t].stage = "ticking"
  /\ LET levels == calls[t].levels
         handles == calls[t].handles
         operator(p) == IF p \in DOMAIN levels THEN levels[p] ELSE sessions[p].operator
         statuses == [p \in Informed(levels) \intersect handles |->
                        StatusFrame(operator(p), MinorOf(p), loaded)]
         deltas == [n \in DOMAIN pendingDeltas |->
                      [p \in Subscribers \intersect handles |->
                         DeltaFrame("REMOVE", MinorOf(p), pendingDeltas[n].id,
                                    pendingDeltas[n].revision)]]
     IN  /\ sessions' = [p \in Players |-> IF p \in Moved(levels)
                                           THEN [sessions[p] EXCEPT !.operator = levels[p]]
                                           ELSE sessions[p]]
         /\ calls' = [calls EXCEPT ![t] =
              Sending(<<statuses>> \o deltas, NoBatch)]
  /\ refresh' = FALSE
  /\ pendingDeltas' = <<>>
  /\ UNCHANGED <<catalogVars, settingVars, hostVars, clientVars>>

(***************************************************************************)
(* What the server's operator does, and connections that close.            *)
(***************************************************************************)
\* Hub::clear: every point goes at a revision of its own, in the order listed.
\* Seeded fault: the deltas are numbered from the revision before.
ClearedFrom(order) ==
  [n \in DOMAIN order |-> [id |-> order[n], revision |-> revision + n - 1]]
Cleared(order) == [n \in DOMAIN order |-> [id |-> order[n], revision |-> revision + n]]

\* The revision of the emptied catalog.  Seeded fault: an empty catalog is a new one.
ClearedAnew(n) == 0
ClearedAt(n) == revision + n

Orders == {f \in [1..Cardinality(Live(points)) -> Live(points)] :
             \A i, j \in DOMAIN f : f[i] = f[j] => i = j}

Clear(t) ==
  /\ "clear" \in Commands
  /\ running /\ calls[t] = Idle
  /\ loaded /\ Live(points) # {}
  /\ revision + Cardinality(Live(points)) <= MaxRevision
  /\ \E order \in Orders :
       /\ pendingDeltas' = Cleared(order)
       /\ past' = [r \in Revisions |->
                     IF r \in revision + 1..revision + Len(order)
                     THEN [i \in WaypointIds |->
                             IF \E n \in 1..r - revision : order[n] = i THEN 0 ELSE points[i]]
                     ELSE past[r]]
       /\ revision' = ClearedAt(Len(order))
  /\ points' = NoPoints
  /\ UNCHANGED <<settingVars, hostVars, clientVars, refresh, sessions, calls>>

\* /cfm reload: the configuration is read again.
Reload(t) ==
  /\ "reload" \in Commands
  /\ running /\ calls[t] = Idle
  /\ shared' \in BOOLEAN
  /\ UNCHANGED <<catalogVars, loaded, enabled, running, hostVars, clientVars,
                 refresh, pendingDeltas, sessions, calls>>

\* on_unload forgets the sessions; the rest of the hub stays.
Unload ==
  /\ "unload" \in Commands
  /\ running /\ \A t \in Threads : calls[t] = Idle
  /\ running' = FALSE
  /\ sessions' = [p \in Players |-> NoSession]
  /\ UNCHANGED <<catalogVars, loaded, enabled, shared, hostVars, clientVars,
                 refresh, pendingDeltas, calls>>

\* Sessions::clear_subscriptions.
Unsubscribed ==
  [p \in Players |-> IF Has(p) THEN [sessions[p] EXCEPT !.subscribed = FALSE] ELSE NoSession]

\* on_load reads the configuration and configures the hub: in place if it has a
\* catalog, else by reading the file again.
Load ==
  /\ ~running
  /\ running' = TRUE
  /\ shared' \in BOOLEAN
  /\ \/ /\ loaded
        /\ enabled' = shared'
        /\ refresh' \in {b \in BOOLEAN : (refresh \/ enabled # shared') => b}
        /\ sessions' = IF enabled /\ ~shared' THEN Unsubscribed ELSE sessions
        /\ UNCHANGED <<catalogVars, loaded>>
     \/ /\ ~loaded
        /\ loaded' \in BOOLEAN
        /\ points' \in IF loaded' THEN StartPoints ELSE {NoPoints}
        /\ revision' = LastStamp(points')
        /\ past' = Known(revision', points')
        /\ enabled' = EnabledIf(loaded', shared')
        /\ refresh' = (refresh \/ loaded')
        /\ UNCHANGED sessions
  /\ UNCHANGED <<hostVars, clientVars, pendingDeltas, calls>>

\* The connection closes and on_leave drops the session.
SessionsLeft(p) == [sessions EXCEPT ![p] = NoSession]

Leave(t, p) ==
  /\ calls[t] = Idle
  /\ p \in online
  /\ online' = online \ {p}
  /\ sessions' = SessionsLeft(p)
  /\ calls' = [u \in Threads |-> WithoutPlayer(calls[u], p)]
  /\ told' = [told EXCEPT ![p] = NotTold]
  /\ cache' = [cache EXCEPT ![p] = NoCache]
  /\ UNCHANGED <<catalogVars, settingVars, level, refresh, pendingDeltas>>

\* The time one control token takes.
Refill(p) ==
  /\ Has(p)
  /\ sessions[p].tokens < ControlBurst
  /\ sessions' = [sessions EXCEPT ![p].tokens = @ + 1]
  /\ UNCHANGED <<catalogVars, settingVars, hostVars, clientVars,
                 refresh, pendingDeltas, calls>>

Handle(t) ==
  \/ HandleMalformed(t)
  \/ HandleHello(t)
  \/ HandleSubscribe(t)
  \/ HandleLock(t)
  \/ HandleUnapplied(t)
  \/ HandleApplied(t)

Proceed(t) == Handle(t) \/ Tick(t) \/ LookUp(t) \/ Deliver(t)

Next ==
  \/ \E t \in Threads, p \in Players, m \in Messages : Receive(t, p, m)
  \/ \E t \in Threads : Proceed(t)
  \/ \E t \in Threads : BeginTick(t)
  \/ \E t \in Threads : Clear(t)
  \/ \E t \in Threads : Reload(t)
  \/ Unload
  \/ Load
  \/ \E p \in Players : Join(p)
  \/ \E t \in Threads, p \in Players : Leave(t, p)
  \/ \E p \in Players : ChangeLevel(p)
  \/ \E p \in Players : Refill(p)

Spec == Init /\ [][Next]_vars

\* A call once begun ends; the host delivers what a client has reason to send,
\* runs the tick every second, and time passes.
ReceiveDue(t, p, messages) == \E m \in messages : Due(p, m) /\ Receive(t, p, m)

Fairness ==
  /\ \A t \in Threads : WF_vars(Proceed(t))
  /\ \A t \in Threads : SF_vars(BeginTick(t))
  /\ \A p \in Players : SF_vars(\E t \in Threads : ReceiveDue(t, p, Hellos))
  /\ \A p \in Players : SF_vars(\E t \in Threads : ReceiveDue(t, p, {[kind |-> "SUBSCRIBE"]}))
  /\ \A p \in Players : WF_vars(Refill(p))

FairSpec == Spec /\ Fairness

(***************************************************************************)
(* Types.                                                                  *)
(***************************************************************************)
Minors == 0..ProtoMinor
Copies == [revision : Revisions, points : Stamps]
Statuses == [supported : BOOLEAN, enabled : BOOLEAN, operator : BOOLEAN, minor : Minors]

Frames ==
  [kind : {"STATUS"}, minor : Minors, supported : BOOLEAN, enabled : BOOLEAN, operator : BOOLEAN]
    \union [kind : {"SNAPSHOT"}, minor : Minors, operator : BOOLEAN,
            revision : Revisions, points : Stamps]
    \union [kind : {"RESULT"}, minor : Minors]
    \union [kind : {"UPSERT", "REMOVE"}, minor : Minors, id : WaypointIds, revision : Revisions]
Batches == UNION {[S -> Frames] : S \in SUBSET Players}

ReceivedCalls ==
  [stage : {"received"}, from : Players, handles : SUBSET Players,
   message : Messages, operator : BOOLEAN]
TickingCalls ==
  [stage : {"ticking"}, handles : SUBSET Players,
   levels : UNION {[S -> BOOLEAN] : S \in SUBSET Players}]
SendingCalls == [stage : {"sending"}, out : Seq(Batches), fanout : Batches]
Calls == ReceivedCalls \union TickingCalls \union SendingCalls

\* What stands for nothing is none of the things it stands in for.
ASSUME HubNulls ==
  /\ NoSession \notin SessionRecords /\ NoCache \notin Copies /\ NotTold \notin Statuses
  /\ Idle \notin Calls

(***************************************************************************)
(* Properties.                                                             *)
(***************************************************************************)
TypeOK ==
  /\ revision \in Revisions /\ points \in Stamps /\ past \in [Revisions -> Stamps]
  /\ loaded \in BOOLEAN /\ enabled \in BOOLEAN /\ refresh \in BOOLEAN
  /\ running \in BOOLEAN /\ shared \in BOOLEAN
  /\ pendingDeltas \in Seq([id : WaypointIds, revision : Revisions])
  /\ sessions \in [Players -> SessionRecords \union {NoSession}]
  /\ online \subseteq Players /\ level \in [Players -> BOOLEAN]
  /\ calls \in [Threads -> Calls \union {Idle}]
  /\ told \in [Players -> Statuses \union {NotTold}]
  /\ cache \in [Players -> Copies \union {NoCache}]

\* The frames a call has still to send to p.
ToBeSent(c, p) ==
  IF c = Idle THEN {}
  ELSE IF c.stage # "sending" THEN {}
  ELSE {c.out[n][p] : n \in {k \in DOMAIN c.out : p \in DOMAIN c.out[k]}}
         \union {c.fanout[q] : q \in DOMAIN c.fanout \intersect {p}}

Outgoing(p) == UNION {ToBeSent(calls[t], p) : t \in Threads}

\* Whatever copy a client has is the catalog as it was at the revision the copy
\* names: no delta is missing from it, applied twice or to the wrong base, however
\* snapshots, broadcasts, wipes and ticks overlap.
CopiesAreCatalogs ==
  \A p \in Players : cache[p] # NoCache =>
    /\ cache[p].revision <= revision
    /\ cache[p].points = past[cache[p].revision]

\* While the host makes one call at a time, a client is sent only what it agreed
\* to on this connection: nothing once muted, nothing but a status before a
\* compatible greeting, every frame at the minor its last status named, and the
\* deltas only if it subscribed.
OnlyWhatWasAgreed ==
  Cardinality(Threads) = 1 =>
    \A p \in Players : \A f \in Outgoing(p) :
      /\ Has(p) /\ ~sessions[p].muted
      /\ f.kind # "STATUS" =>
           /\ sessions[p].compatible
           /\ told[p] # NotTold /\ f.minor = told[p].minor
      /\ f.kind \in {"UPSERT", "REMOVE"} => sessions[p].subscribed

\* While the host makes one call at a time: between calls, with nothing queued for
\* the tick, a subscriber that has a copy has the catalog as it is.
SubscribersAreCurrent ==
  (/\ Cardinality(Threads) = 1
   /\ \A t \in Threads : calls[t] = Idle
   /\ pendingDeltas = <<>>) =>
     \A p \in Subscribers :
       cache[p] # NoCache => cache[p] = [revision |-> revision, points |-> points]

\* Three malformed payloads and the connection is muted until it closes, whatever
\* it sends meanwhile.
MutedUntilDisconnect ==
  [][\A p \in Players : (Has(p) /\ sessions[p].muted) =>
       \/ sessions'[p] # NoSession /\ sessions'[p].muted
       \/ p \notin online' \/ ~running']_vars

\* While the host makes one call at a time, a client's copy never goes back.
CopiesNeverGoBack ==
  [][\A p \in Players :
       (Cardinality(Threads) = 1 /\ cache[p] # NoCache /\ cache'[p] # NoCache) =>
         cache'[p].revision >= cache[p].revision]_vars

\* The plugin stays loaded, and the client speaks its major and is not muted.
Undisturbed(p) == running /\ (Has(p) => Compatible(p))

\* A client that stays connected to a catalog that is served ends with a copy of
\* it, as it is, whatever was published and wiped meanwhile.
Converges ==
  \A p \in Players :
    ([]Undisturbed(p) /\ <>[](p \in online /\ enabled)) =>
      <>[](cache[p] = [revision |-> revision, points |-> points])

\* A client that greeted, and whose level no longer changes, is told its level.
LevelsAreTold ==
  \A p \in Players, b \in BOOLEAN :
    <>[](running /\ p \in online /\ Compatible(p) /\ level[p] = b) =>
      <>[](told[p] # NotTold /\ told[p].operator = b)

(***************************************************************************)
(* What the documentation says and the code does not do.                   *)
(***************************************************************************)
\* configure's documentation has /cfm reload apply the new flags.
FlagsFollowConfig == (running /\ loaded) => enabled = shared
==============================================================================
