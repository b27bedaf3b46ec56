-------------------------- MODULE WaypointHubProofs --------------------------
(***************************************************************************)
(* What the hub keeps through every call, for every set of players,        *)
(* points, commands and messages and every value of the limits: its types, *)
(* and that what is about to be sent, what waits for the tick and what     *)
(* clients hold are catalogs there have been; that a mute lasts; and,      *)
(* while the host makes one call at a time, that clients are sent what     *)
(* they agreed to and have the catalog as it is.                           *)
(***************************************************************************)
EXTENDS WaypointHub, FiniteSetTheorems, WellFoundedInduction, TLAPS

(***************************************************************************)
(* The inductive invariant of the calls, however many are in progress.     *)
(***************************************************************************)
\* A frame with data says what the history says.
SoundDelta(kind, i, r) ==
  /\ loaded /\ r \in 1..revision
  /\ past[r] = [past[r - 1] EXCEPT ![i] = IF kind = "UPSERT" THEN r ELSE 0]

SoundFrame(f) ==
  /\ f.kind = "SNAPSHOT" =>
       loaded /\ f.revision <= revision /\ f.points = past[f.revision]
  /\ f.kind \in {"UPSERT", "REMOVE"} => SoundDelta(f.kind, f.id, f.revision)

\* The history ends with the catalog; what is served was loaded.
History == past[revision] = points
ServedIfLoaded == enabled => loaded
\* So for all that is about to be sent, waits for the tick or was taken in.
FramesSound == \A t \in Threads, p \in Players : \A f \in ToBeSent(calls[t], p) : SoundFrame(f)
PendingSound ==
  \A n \in DOMAIN pendingDeltas :
    SoundDelta("REMOVE", pendingDeltas[n].id, pendingDeltas[n].revision)
CopiesSound ==
  \A p \in Players : cache[p] # NoCache =>
    loaded /\ cache[p].revision <= revision /\ cache[p].points = past[cache[p].revision]

HubInv == TypeOK /\ History /\ ServedIfLoaded /\ FramesSound /\ PendingSound /\ CopiesSound

\* Nobody is muted who has strikes left.
MutesCounted ==
  \A p \in Players : Has(p) /\ sessions[p].muted => sessions[p].strikes = MaxStrikes

(***************************************************************************)
(* The inductive invariant while the host makes one call at a time.        *)
(***************************************************************************)
OneCall == Cardinality(Threads) = 1

\* A call addresses its player, who is online, or a tick everyone with a session.
CallKnown(t) ==
  /\ calls[t] \in ReceivedCalls =>
       calls[t].handles = {calls[t].from} /\ calls[t].from \in online
  /\ calls[t] \in TickingCalls => \A p \in Players : Has(p) => p \in calls[t].handles
  /\ calls[t] # Idle => running

SessionsConnected == \A p \in Players : Has(p) => p \in online

\* Frame f is what p agreed to, and a snapshot is of the catalog as it is.
FrameAgreed(p, f) ==
  /\ Has(p) /\ ~sessions[p].muted
  /\ f.minor = MinorOf(p)
  /\ f.kind # "STATUS" => Compatible(p)
  /\ f.kind \in {"UPSERT", "REMOVE"} => sessions[p].subscribed
  /\ f.kind = "SNAPSHOT" => f.revision = revision

FramesAgreed(t) == \A p \in Players : \A f \in ToBeSent(calls[t], p) : FrameAgreed(p, f)

\* A compatible client knows its minor, or a status says it before anything else.
ToldItsMinor(p) == told[p] # NotTold /\ told[p].minor = sessions[p].minor

ToldOrAboutTo(t) ==
  \A p \in Players : Compatible(p) =>
    \/ ToldItsMinor(p)
    \/ /\ ToBeSent(calls[t], p) # {}
       /\ \A f \in ToBeSent(calls[t], p) : f.kind = "STATUS"

\* What brings p's copy to the last revision is still to come.
StillToCome(t, p) ==
  \/ \E f \in ToBeSent(calls[t], p) :
       f.kind \in {"SNAPSHOT", "UPSERT", "REMOVE"} /\ f.revision = revision
  \/ \E n \in DOMAIN pendingDeltas : pendingDeltas[n].revision = revision

CopiesFollow(t) ==
  \A p \in Subscribers : cache[p] # NoCache =>
    cache[p].revision = revision \/ StillToCome(t, p)

\* Call t, the only one, leaves every client in order.
Orderly(t) ==
  /\ CallKnown(t) /\ SessionsConnected
  /\ FramesAgreed(t) /\ ToldOrAboutTo(t) /\ CopiesFollow(t)

OneCallInv == OneCall => \A t \in Threads : Orderly(t)

(***************************************************************************)
(* Batches and calls.                                                      *)
(***************************************************************************)
FramesIn(out, fanout, p) ==
  {out[n][p] : n \in {k \in DOMAIN out : p \in DOMAIN out[k]}}
    \union {fanout[q] : q \in DOMAIN fanout \intersect {p}}

LEMMA BatchFacts ==
  ASSUME NEW b \in Batches
  PROVE  /\ DOMAIN b \subseteq Players
         /\ \A q \in DOMAIN b : b[q] \in Frames
         /\ b = [q \in DOMAIN b |-> b[q]]
BY DEF Batches

LEMMA BatchMade ==
  ASSUME NEW b, DOMAIN b \subseteq Players, b = [q \in DOMAIN b |-> b[q]],
         \A q \in DOMAIN b : b[q] \in Frames
  PROVE  b \in Batches
<1>1. b \in [DOMAIN b -> Frames]
  OBVIOUS
<1> QED BY <1>1 DEF Batches

LEMMA NoBatchFacts == NoBatch \in Batches /\ DOMAIN NoBatch = {}
<1>1. NoBatch = [q \in DOMAIN NoBatch |-> NoBatch[q]] /\ DOMAIN NoBatch = {}
  BY DEF NoBatch
<1> QED BY <1>1, BatchMade

LEMMA CallFacts ==
  ASSUME NEW c \in Calls \union {Idle}
  PROVE  /\ c # Idle <=> c \in Calls
         /\ (c # Idle /\ c.stage = "received") <=> c \in ReceivedCalls
         /\ (c # Idle /\ c.stage = "ticking") <=> c \in TickingCalls
         /\ (c # Idle /\ c.stage = "sending") <=> c \in SendingCalls
<1>1. Idle \notin Calls
  BY HubNulls
<1> QED BY <1>1 DEF Calls, ReceivedCalls, TickingCalls, SendingCalls

LEMMA ToBeSentFacts ==
  ASSUME NEW c \in Calls \union {Idle}, NEW p \in Players
  PROVE  /\ c \in SendingCalls => ToBeSent(c, p) = FramesIn(c.out, c.fanout, p)
         /\ c \notin SendingCalls => ToBeSent(c, p) = {}
         /\ ToBeSent(c, p) \subseteq Frames
<1>1. CASE c \in SendingCalls
  <2>1. ToBeSent(c, p) = FramesIn(c.out, c.fanout, p)
    BY <1>1, CallFacts DEF ToBeSent, FramesIn
  <2>2. c.out \in Seq(Batches) /\ c.fanout \in Batches
    BY <1>1 DEF SendingCalls
  <2>3. \A n \in DOMAIN c.out : c.out[n] \in Batches
    BY <2>2
  <2>4. FramesIn(c.out, c.fanout, p) \subseteq Frames
    BY <2>2, <2>3, BatchFacts DEF FramesIn
  <2> QED BY <1>1, <2>1, <2>4
<1>2. CASE c \notin SendingCalls
  BY <1>2, CallFacts DEF ToBeSent
<1> QED BY <1>1, <1>2

LEMMA SendingFacts ==
  ASSUME NEW out \in Seq(Batches), NEW fanout \in Batches
  PROVE  /\ Sending(out, fanout) \in Calls \union {Idle}
         /\ Sending(out, fanout) \in SendingCalls \union {Idle}
         /\ \A p \in Players :
              ToBeSent(Sending(out, fanout), p) = FramesIn(out, fanout, p)
<1> DEFINE c == Sending(out, fanout)
<1>1. CASE Unsent(out) # {}
  <2>1. c = [stage |-> "sending", out |-> out, fanout |-> fanout]
    BY <1>1 DEF Sending
  <2>2. c \in SendingCalls
    BY <2>1 DEF SendingCalls
  <2> QED BY <2>1, <2>2, ToBeSentFacts DEF Calls
<1>2. CASE Unsent(out) = {} /\ DOMAIN fanout # {}
  <2>1. c = [stage |-> "sending", out |-> <<>>, fanout |-> fanout]
    BY <1>2 DEF Sending
  <2>2. c \in SendingCalls
    BY <2>1 DEF SendingCalls
  <2>3. \A p : FramesIn(out, fanout, p) = FramesIn(<<>>, fanout, p)
    BY <1>2 DEF FramesIn, Unsent
  <2> QED BY <2>1, <2>2, <2>3, ToBeSentFacts DEF Calls
<1>3. CASE Unsent(out) = {} /\ DOMAIN fanout = {}
  <2>1. c = Idle
    BY <1>3 DEF Sending
  <2>2. \A p : FramesIn(out, fanout, p) = {}
    BY <1>3 DEF FramesIn, Unsent
  <2> QED BY <2>1, <2>2 DEF ToBeSent
<1> QED BY <1>1, <1>2, <1>3

LEMMA WithoutFacts ==
  ASSUME NEW b \in Batches, NEW p \in Players
  PROVE  /\ Without(b, p) \in Batches
         /\ DOMAIN Without(b, p) = DOMAIN b \ {p}
         /\ \A q \in DOMAIN b \ {p} : Without(b, p)[q] = b[q]
<1>1. /\ DOMAIN Without(b, p) = DOMAIN b \ {p}
      /\ \A q \in DOMAIN b \ {p} : Without(b, p)[q] = b[q]
      /\ Without(b, p) = [q \in DOMAIN Without(b, p) |-> Without(b, p)[q]]
  BY DEF Without
<1> QED BY <1>1, BatchFacts, BatchMade

LEMMA LessHandles ==
  ASSUME NEW p
  PROVE  /\ \A c \in ReceivedCalls : [c EXCEPT !.handles = @ \ {p}] \in ReceivedCalls
         /\ \A c \in TickingCalls : [c EXCEPT !.handles = @ \ {p}] \in TickingCalls
<1>1. ASSUME NEW c \in ReceivedCalls PROVE [c EXCEPT !.handles = @ \ {p}] \in ReceivedCalls
  <2>1. c.handles \ {p} \in SUBSET Players
    BY DEF ReceivedCalls
  <2> QED BY <2>1 DEF ReceivedCalls
<1>2. ASSUME NEW c \in TickingCalls PROVE [c EXCEPT !.handles = @ \ {p}] \in TickingCalls
  <2> DEFINE L == UNION {[S -> BOOLEAN] : S \in SUBSET Players}
  <2>1. c.handles \ {p} \in SUBSET Players
    BY DEF TickingCalls
  <2>2. TickingCalls = [stage : {"ticking"}, handles : SUBSET Players, levels : L]
    BY DEF TickingCalls
  <2> HIDE DEF L
  <2> QED BY <2>1, <2>2
<1> QED BY <1>1, <1>2

\* What is left of a call has nothing new to send.
LEMMA WithoutPlayerFacts ==
  ASSUME NEW c \in Calls \union {Idle}, NEW p \in Players
  PROVE  /\ WithoutPlayer(c, p) \in Calls \union {Idle}
         /\ \A q \in Players : ToBeSent(WithoutPlayer(c, p), q) \subseteq ToBeSent(c, q)
         /\ c = Idle => WithoutPlayer(c, p) = Idle
<1>1. CASE c = Idle
  BY <1>1 DEF WithoutPlayer
<1>2. CASE c \in SendingCalls
  <2> DEFINE left == [n \in DOMAIN c.out |-> Without(c.out[n], p)]
  <2>1. c.out \in Seq(Batches) /\ c.fanout \in Batches
    BY <1>2 DEF SendingCalls
  <2>2. \A n \in DOMAIN c.out : c.out[n] \in Batches
    BY <2>1
  <2>3. \A n \in DOMAIN c.out :
          /\ left[n] \in Batches
          /\ DOMAIN left[n] \subseteq DOMAIN c.out[n]
          /\ \A q \in DOMAIN left[n] : left[n][q] = c.out[n][q]
    <3> TAKE n \in DOMAIN c.out
    <3>1. left[n] = Without(c.out[n], p) /\ c.out[n] \in Batches
      BY <2>2
    <3> DEFINE w == Without(c.out[n], p)
    <3>2. /\ w \in Batches
          /\ DOMAIN w = DOMAIN c.out[n] \ {p}
          /\ \A q \in DOMAIN c.out[n] \ {p} : w[q] = c.out[n][q]
      BY <3>1, WithoutFacts
    <3>3. left[n] = w
      BY <3>1
    <3> HIDE DEF left, w
    <3> QED BY <3>2, <3>3
  <2>7. DOMAIN left = DOMAIN c.out
    OBVIOUS
  <2>8. left \in Seq(Batches)
    <3>1. DOMAIN c.out = 1..Len(c.out) /\ Len(c.out) \in Nat
      BY <2>1
    <3>2. left \in [1..Len(c.out) -> Batches]
      BY <2>3, <3>1
    <3> QED BY <3>1, <3>2
  <2>4. WithoutPlayer(c, p) = Sending(left, c.fanout)
    BY <1>2, CallFacts DEF WithoutPlayer
  <2> HIDE DEF left
  <2>5. \A q : FramesIn(left, c.fanout, q) \subseteq FramesIn(c.out, c.fanout, q)
    BY <2>3, <2>7 DEF FramesIn
  <2>6. \A q \in Players : ToBeSent(WithoutPlayer(c, p), q) \subseteq ToBeSent(c, q)
    BY <1>2, <2>1, <2>8, <2>4, <2>5, SendingFacts, ToBeSentFacts
  <2> QED BY <1>2, <2>1, <2>8, <2>4, <2>6, SendingFacts, CallFacts
<1>3. CASE c \in ReceivedCalls \union TickingCalls
  <2>1. WithoutPlayer(c, p) = [c EXCEPT !.handles = @ \ {p}]
    BY <1>3, CallFacts DEF WithoutPlayer, Calls, ReceivedCalls, TickingCalls
  <2>2. WithoutPlayer(c, p) \in ReceivedCalls \union TickingCalls
    BY <1>3, <2>1, LessHandles
  <2>3. WithoutPlayer(c, p) \notin SendingCalls
    BY <2>2 DEF ReceivedCalls, TickingCalls, SendingCalls
  <2> QED BY <1>3, <2>2, <2>3, CallFacts, ToBeSentFacts DEF Calls
<1> QED BY <1>1, <1>2, <1>3 DEF Calls

\* Frames to one player, one after the other.
LEMMA SentTo ==
  ASSUME NEW p \in Players, NEW frames \in Seq(Frames)
  PROVE  LET c == Sending([n \in DOMAIN frames |-> [q \in {p} |-> frames[n]]], NoBatch)
         IN  /\ c \in SendingCalls \union {Idle}
             /\ \A q \in Players :
                  ToBeSent(c, q) = IF q = p THEN {frames[n] : n \in DOMAIN frames} ELSE {}
<1> DEFINE out == [n \in DOMAIN frames |-> [q \in {p} |-> frames[n]]]
<1>1. \A n \in DOMAIN frames : out[n] = [q \in {p} |-> frames[n]] /\ frames[n] \in Frames
  OBVIOUS
<1>2. \A n \in DOMAIN frames : out[n] \in Batches
  <2> TAKE n \in DOMAIN frames
  <2> DEFINE b == [q \in {p} |-> frames[n]]
  <2>1. DOMAIN b = {p} /\ b = [q \in DOMAIN b |-> b[q]] /\ b[p] = frames[n]
    OBVIOUS
  <2>2. b \in Batches
    <3> HIDE DEF b
    <3> QED BY <2>1, <1>1, BatchMade
  <2> QED BY <2>2
<1>3. out \in Seq(Batches)
  <2>1. DOMAIN frames = 1..Len(frames) /\ Len(frames) \in Nat
    OBVIOUS
  <2>2. out \in [1..Len(frames) -> Batches]
    BY <1>2, <2>1
  <2> QED BY <2>1, <2>2
<1>4. DOMAIN out = DOMAIN frames
  OBVIOUS
<1>5. \A n \in DOMAIN frames : DOMAIN out[n] = {p} /\ out[n][p] = frames[n]
  BY <1>1
<1> HIDE DEF out
<1>6. ASSUME NEW q \in Players
      PROVE  FramesIn(out, NoBatch, q) = IF q = p THEN {frames[n] : n \in DOMAIN frames} ELSE {}
  BY <1>4, <1>5, NoBatchFacts DEF FramesIn
<1> QED BY <1>3, <1>6, SendingFacts, NoBatchFacts DEF out

\* A call that ends, or has only to answer, changes nothing of the others.
CallMoves(t) ==
  /\ calls' \in [Threads -> Calls \union {Idle}]
  /\ \A u \in Threads \ {t} : calls'[u] = calls[u]

LEMMA NothingFacts ==
  ASSUME TypeOK, NEW t \in Threads, Nothing(t)
  PROVE  CallMoves(t) /\ calls'[t] = Idle /\ \A q \in Players : ToBeSent(calls'[t], q) = {}
BY DEF TypeOK, Nothing, CallMoves, ToBeSent

LEMMA AnswerFacts ==
  ASSUME TypeOK, NEW t \in Threads, NEW p \in Players, NEW frames \in Seq(Frames),
         Answer(t, p, frames)
  PROVE  /\ CallMoves(t)
         /\ calls'[t] \in SendingCalls \union {Idle}
         /\ \A q \in Players \ {p} : ToBeSent(calls'[t], q) = {}
         /\ \A f \in ToBeSent(calls'[t], p) : \E n \in DOMAIN frames : f = frames[n]
         /\ p \in calls[t].handles =>
              \A n \in DOMAIN frames : frames[n] \in ToBeSent(calls'[t], p)
<1> DEFINE c == Sending([n \in DOMAIN frames |-> [q \in {p} |-> frames[n]]], NoBatch)
<1>1. /\ c \in SendingCalls \union {Idle}
      /\ \A q \in Players :
           ToBeSent(c, q) = IF q = p THEN {frames[n] : n \in DOMAIN frames} ELSE {}
  BY SentTo
<1>2. calls' = [calls EXCEPT ![t] = IF p \in calls[t].handles THEN c ELSE Idle]
  BY DEF Answer
<1> HIDE DEF c
<1>3. calls' \in [Threads -> Calls \union {Idle}] /\ calls'[t] \in {c, Idle}
      /\ \A u \in Threads \ {t} : calls'[u] = calls[u]
  BY <1>1, <1>2 DEF TypeOK, Calls
<1>4. ToBeSent(Idle, p) = {} /\ \A q \in Players : ToBeSent(Idle, q) = {}
  BY DEF ToBeSent
<1>5. p \in calls[t].handles => calls'[t] = c
  BY <1>2 DEF TypeOK
<1>6. ToBeSent(c, p) = {frames[n] : n \in DOMAIN frames}
  BY <1>1
<1>7. \A f \in ToBeSent(calls'[t], p) : \E n \in DOMAIN frames : f = frames[n]
  BY <1>3, <1>4, <1>6
<1>8. p \in calls[t].handles => \A n \in DOMAIN frames : frames[n] \in ToBeSent(calls'[t], p)
  BY <1>5, <1>6
<1> QED BY <1>1, <1>3, <1>4, <1>7, <1>8 DEF CallMoves

LEMMA AnswerOneFacts ==
  ASSUME TypeOK, NEW t \in Threads, NEW p \in Players, NEW f \in Frames, Answer(t, p, <<f>>)
  PROVE  /\ CallMoves(t)
         /\ calls'[t] \in SendingCalls \union {Idle}
         /\ \A q \in Players \ {p} : ToBeSent(calls'[t], q) = {}
         /\ ToBeSent(calls'[t], p) \subseteq {f}
         /\ p \in calls[t].handles => ToBeSent(calls'[t], p) # {}
<1>1. <<f>> \in Seq(Frames) /\ DOMAIN <<f>> = {1} /\ <<f>>[1] = f
  OBVIOUS
<1> DEFINE frames == <<f>>
<1>2. Answer(t, p, frames) /\ frames \in Seq(Frames)
  BY <1>1
<1>3. DOMAIN frames = {1} /\ frames[1] = f
  BY <1>1
<1> HIDE DEF frames
<1>4. /\ CallMoves(t)
      /\ calls'[t] \in SendingCalls \union {Idle}
      /\ \A q \in Players \ {p} : ToBeSent(calls'[t], q) = {}
      /\ \A g \in ToBeSent(calls'[t], p) : \E n \in DOMAIN frames : g = frames[n]
      /\ p \in calls[t].handles => \A n \in DOMAIN frames : frames[n] \in ToBeSent(calls'[t], p)
  BY <1>2, AnswerFacts
<1> QED BY <1>3, <1>4

\* The frames the hub makes.
LEMMA FrameFacts ==
  ASSUME NEW operator \in BOOLEAN, NEW minor \in Minors, NEW supported \in BOOLEAN, TypeOK
  PROVE  /\ StatusFrame(operator, minor, supported) \in Frames
         /\ SnapshotFrame(operator, minor) \in Frames
         /\ ResultFrame(minor) \in Frames
         /\ \A kind \in {"UPSERT", "REMOVE"}, i \in WaypointIds, r \in Revisions :
              DeltaFrame(kind, minor, i, r) \in Frames
BY DEF StatusFrame, SnapshotFrame, ResultFrame, DeltaFrame, Frames, TypeOK

LEMMA MinorFacts ==
  ASSUME TypeOK
  PROVE  \A p \in Players : MinorOf(p) \in Minors
BY HubBounds DEF MinorOf, TypeOK, Compatible, Has, SessionRecords, Minors

LEMMA SessionFacts ==
  ASSUME TypeOK
  PROVE  \A p \in Players : Has(p) <=> sessions[p] \in SessionRecords
BY HubNulls DEF TypeOK, Has

\* The next frame leaves its call, and only that one.
LEMMA DeliverFacts ==
  ASSUME TypeOK, NEW t \in Threads, Deliver(t)
  PROVE  /\ CallMoves(t)
         /\ calls[t] \in SendingCalls /\ calls'[t] \in SendingCalls \union {Idle}
         /\ \E p \in Players : \E f \in ToBeSent(calls[t], p) :
              /\ Take(p, f)
              /\ \A q \in Players \ {p} : ToBeSent(calls'[t], q) = ToBeSent(calls[t], q)
              /\ ToBeSent(calls'[t], p) \subseteq ToBeSent(calls[t], p)
              /\ ToBeSent(calls[t], p) \subseteq ToBeSent(calls'[t], p) \union {f}
<1> DEFINE out == calls[t].out
           fanout == calls[t].fanout
<1>1. calls[t] \in SendingCalls
  BY CallFacts DEF Deliver, TypeOK
<1>2. out \in Seq(Batches) /\ fanout \in Batches
  BY <1>1 DEF SendingCalls
<1>0. PICK n \in Unsent(out) :
        \E p \in DOMAIN out[n] :
          /\ Take(p, out[n][p])
          /\ calls' = [calls EXCEPT ![t] = Sending([out EXCEPT ![n] = Without(@, p)], @.fanout)]
  BY DEF Deliver
<1>3. PICK p \in DOMAIN out[n] :
        /\ Take(p, out[n][p])
        /\ calls' = [calls EXCEPT ![t] = Sending([out EXCEPT ![n] = Without(@, p)], @.fanout)]
  BY <1>0
<1>4. n \in DOMAIN out /\ out[n] \in Batches /\ p \in Players
  BY <1>2, <1>3, BatchFacts DEF Unsent
<1> DEFINE left == [out EXCEPT ![n] = Without(@, p)]
           w == Without(out[n], p)
<1>5. /\ w \in Batches /\ DOMAIN w = DOMAIN out[n] \ {p}
      /\ \A q \in DOMAIN out[n] \ {p} : w[q] = out[n][q]
  BY <1>4, WithoutFacts
<1>6. /\ left[n] = w /\ DOMAIN left = DOMAIN out
      /\ \A k \in DOMAIN out \ {n} : left[k] = out[k]
  BY <1>4
<1>7. left \in Seq(Batches)
  <2>1. DOMAIN out = 1..Len(out) /\ Len(out) \in Nat /\ \A k \in DOMAIN out : out[k] \in Batches
    BY <1>2
  <2>2. left \in [1..Len(out) -> Batches]
    <3>1. left = [k \in DOMAIN out |-> IF k = n THEN w ELSE out[k]]
      OBVIOUS
    <3> HIDE DEF left, out, w
    <3> QED BY <2>1, <3>1, <1>5
  <2> HIDE DEF left, out
  <2> QED BY <2>1, <2>2
<1>8. calls'[t] = Sending(left, fanout) /\ \A u \in Threads \ {t} : calls'[u] = calls[u]
  BY <1>3 DEF TypeOK
<1>9. calls' = [calls EXCEPT ![t] = Sending(left, fanout)]
  BY <1>3
<1>10. ASSUME NEW q \in Players
       PROVE  ToBeSent(calls[t], q) = FramesIn(out, fanout, q)
  BY <1>1, ToBeSentFacts DEF Calls
<1>11. out[n][p] \in FramesIn(out, fanout, p)
  <2> HIDE DEF out, fanout
  <2> QED BY <1>3, <1>4 DEF FramesIn
<1>12. /\ \A q \in Players \ {p} : FramesIn(left, fanout, q) = FramesIn(out, fanout, q)
       /\ FramesIn(left, fanout, p) \subseteq FramesIn(out, fanout, p)
       /\ FramesIn(out, fanout, p) \subseteq FramesIn(left, fanout, p) \union {out[n][p]}
  <2> HIDE DEF out, fanout, left, w
  <2>1. ASSUME NEW q \in Players \ {p}
        PROVE  FramesIn(left, fanout, q) = FramesIn(out, fanout, q)
    <3>1. \A k \in DOMAIN out : q \in DOMAIN left[k] <=> q \in DOMAIN out[k]
      BY <1>4, <1>5, <1>6
    <3>2. \A k \in DOMAIN out : q \in DOMAIN out[k] => left[k][q] = out[k][q]
      BY <1>4, <1>5, <1>6
    <3> QED BY <1>6, <3>1, <3>2 DEF FramesIn
  <2>2. \A k \in DOMAIN left : p \in DOMAIN left[k] => p \in DOMAIN out[k] /\ left[k][p] = out[k][p]
    BY <1>4, <1>5, <1>6
  <2>3. \A k \in DOMAIN out : p \in DOMAIN out[k] =>
          k = n \/ (k \in DOMAIN left /\ p \in DOMAIN left[k] /\ left[k][p] = out[k][p])
    BY <1>4, <1>5, <1>6
  <2>4. FramesIn(left, fanout, p) \subseteq FramesIn(out, fanout, p)
    BY <1>6, <2>2 DEF FramesIn
  <2>5. FramesIn(out, fanout, p) \subseteq FramesIn(left, fanout, p) \union {out[n][p]}
    BY <1>6, <2>3 DEF FramesIn
  <2> QED BY <2>1, <2>4, <2>5
<1>13. /\ Sending(left, fanout) \in SendingCalls \union {Idle}
       /\ \A q \in Players : ToBeSent(Sending(left, fanout), q) = FramesIn(left, fanout, q)
  <2> HIDE DEF left, fanout, out
  <2> QED BY <1>7, <1>2, SendingFacts
<1>14. CallMoves(t)
  <2> HIDE DEF left, fanout, out
  <2> QED BY <1>8, <1>9, <1>13 DEF CallMoves, TypeOK, Calls
<1> DEFINE f == out[n][p]
<1>15. f \in ToBeSent(calls[t], p) /\ Take(p, f)
  <2> HIDE DEF left, fanout, out
  <2> QED BY <1>3, <1>4, <1>10, <1>11
<1>16. \A q \in Players : ToBeSent(calls'[t], q) = FramesIn(left, fanout, q)
  <2> HIDE DEF left, fanout, out
  <2> QED BY <1>8, <1>13
<1>17. calls'[t] \in SendingCalls \union {Idle}
  <2> HIDE DEF left, fanout, out
  <2> QED BY <1>8, <1>13
<1> HIDE DEF left, fanout, out, f
<1>18. /\ \A q \in Players \ {p} : ToBeSent(calls'[t], q) = ToBeSent(calls[t], q)
       /\ ToBeSent(calls'[t], p) \subseteq ToBeSent(calls[t], p)
       /\ ToBeSent(calls[t], p) \subseteq ToBeSent(calls'[t], p) \union {f}
  BY <1>4, <1>10, <1>12, <1>16 DEF f
<1> QED BY <1>1, <1>4, <1>14, <1>15, <1>17, <1>18

\* The broadcast goes to those of its addressees who are still there.
LEMMA LookUpFacts ==
  ASSUME TypeOK, NEW t \in Threads, LookUp(t)
  PROVE  /\ CallMoves(t)
         /\ calls[t] \in SendingCalls /\ calls'[t] \in SendingCalls \union {Idle}
         /\ \A q \in Players :
              ToBeSent(calls'[t], q) = IF q \in online THEN ToBeSent(calls[t], q) ELSE {}
<1> DEFINE out == calls[t].out
           fanout == calls[t].fanout
           present == [q \in DOMAIN fanout \intersect online |-> fanout[q]]
<1>1. calls[t] \in SendingCalls /\ Unsent(out) = {}
  BY CallFacts DEF LookUp, TypeOK
<1>2. out \in Seq(Batches) /\ fanout \in Batches
  BY <1>1 DEF SendingCalls
<1>3. present \in Batches
  <2>1. /\ DOMAIN present = DOMAIN fanout \intersect online
        /\ present = [q \in DOMAIN present |-> present[q]]
        /\ \A q \in DOMAIN present : present[q] = fanout[q]
    OBVIOUS
  <2> HIDE DEF present, fanout
  <2> QED BY <1>2, <2>1, BatchFacts, BatchMade
<1>4. calls' = [calls EXCEPT ![t] = Sending(<<present>>, NoBatch)]
  BY DEF LookUp
<1>5. <<present>> \in Seq(Batches)
  BY <1>3
<1>6. ASSUME NEW q \in Players
      PROVE  FramesIn(<<present>>, NoBatch, q) =
               IF q \in online THEN FramesIn(out, fanout, q) ELSE {}
  <2>1. /\ DOMAIN <<present>> = {1} /\ <<present>>[1] = present
        /\ DOMAIN present = DOMAIN fanout \intersect online
        /\ \A r \in DOMAIN present : present[r] = fanout[r]
    OBVIOUS
  <2>2. FramesIn(out, fanout, q) = {fanout[r] : r \in DOMAIN fanout \intersect {q}}
    BY <1>1 DEF FramesIn, Unsent
  <2> HIDE DEF present, fanout, out
  <2>3. FramesIn(<<present>>, NoBatch, q) = {present[r] : r \in DOMAIN present \intersect {q}}
    BY <2>1, NoBatchFacts DEF FramesIn
  <2> QED BY <2>1, <2>2, <2>3
<1>7. /\ Sending(<<present>>, NoBatch) \in SendingCalls \union {Idle}
      /\ \A q \in Players :
           ToBeSent(Sending(<<present>>, NoBatch), q) = FramesIn(<<present>>, NoBatch, q)
  <2> HIDE DEF present
  <2> QED BY <1>5, NoBatchFacts, SendingFacts
<1>8. ASSUME NEW q \in Players
      PROVE  ToBeSent(calls[t], q) = FramesIn(out, fanout, q)
  BY <1>1, ToBeSentFacts DEF Calls
<1> HIDE DEF present, out, fanout
<1>9. calls'[t] = Sending(<<present>>, NoBatch) /\ \A u \in Threads \ {t} : calls'[u] = calls[u]
  BY <1>4 DEF TypeOK
<1>10. CallMoves(t)
  BY <1>4, <1>7, <1>9 DEF CallMoves, TypeOK, Calls
<1> QED BY <1>1, <1>6, <1>7, <1>8, <1>9, <1>10

\* A call with one batch and a broadcast.
LEMMA SentAndBroadcast ==
  ASSUME NEW first \in Batches, NEW fanout \in Batches
  PROVE  /\ Sending(<<first>>, fanout) \in SendingCalls \union {Idle}
         /\ \A q \in Players :
              /\ \A f \in ToBeSent(Sending(<<first>>, fanout), q) :
                   \/ q \in DOMAIN first /\ f = first[q]
                   \/ q \in DOMAIN fanout /\ f = fanout[q]
              /\ q \in DOMAIN fanout => fanout[q] \in ToBeSent(Sending(<<first>>, fanout), q)
<1>1. <<first>> \in Seq(Batches) /\ DOMAIN <<first>> = {1} /\ <<first>>[1] = first
  OBVIOUS
<1>2. \A q : /\ \A f \in FramesIn(<<first>>, fanout, q) :
                  \/ q \in DOMAIN first /\ f = first[q]
                  \/ q \in DOMAIN fanout /\ f = fanout[q]
             /\ q \in DOMAIN fanout => fanout[q] \in FramesIn(<<first>>, fanout, q)
  BY <1>1 DEF FramesIn
<1> QED BY <1>1, <1>2, SendingFacts

LEMMA AppliedFacts ==
  ASSUME TypeOK, NEW t \in Threads, HandleApplied(t)
  PROVE  /\ CallMoves(t)
         /\ calls[t] \in ReceivedCalls /\ calls'[t] \in SendingCalls \union {Idle}
         /\ \E i \in WaypointIds, kind \in {"UPSERT", "REMOVE"} :
              /\ points' = [points EXCEPT ![i] = IF kind = "UPSERT" THEN revision + 1 ELSE 0]
              /\ \A q \in Players : \A f \in ToBeSent(calls'[t], q) :
                   \/ q = calls[t].from /\ f = ResultFrame(MinorOf(q))
                   \/ q \in Subscribers /\ f = DeltaFrame(kind, MinorOf(q), i, revision + 1)
              /\ \A q \in Subscribers :
                   DeltaFrame(kind, MinorOf(q), i, revision + 1) \in ToBeSent(calls'[t], q)
<1> DEFINE p == calls[t].from
           first == [q \in {p} \intersect calls[t].handles |-> ResultFrame(MinorOf(p))]
           fanout(kind, i) == [q \in Subscribers |-> DeltaFrame(kind, MinorOf(q), i, revision + 1)]
<1>1. calls[t] \in ReceivedCalls
  BY CallFacts DEF HandleApplied, Received, TypeOK
<1>2. p \in Players /\ revision + 1 \in Revisions /\ Subscribers \subseteq Players
  BY <1>1, HubBounds DEF ReceivedCalls, HandleApplied, TypeOK, Revisions, Subscribers
<1>3. PICK i \in WaypointIds, kind \in {"UPSERT", "REMOVE"} :
        /\ points' = [points EXCEPT ![i] = IF kind = "UPSERT" THEN revision + 1 ELSE 0]
        /\ calls' = [calls EXCEPT ![t] = Sending(<<first>>, fanout(kind, i))]
  BY DEF HandleApplied, Recipients
<1> DEFINE bc == fanout(kind, i)
<1>4. first \in Batches
  <2>1. /\ DOMAIN first \subseteq {p} /\ first = [q \in DOMAIN first |-> first[q]]
        /\ \A q \in DOMAIN first : first[q] = ResultFrame(MinorOf(p))
    OBVIOUS
  <2>2. ResultFrame(MinorOf(p)) \in Frames
    BY <1>2, MinorFacts, FrameFacts
  <2> HIDE DEF first
  <2> QED BY <1>2, <2>1, <2>2, BatchMade
<1>5. /\ DOMAIN bc = Subscribers /\ bc = [q \in DOMAIN bc |-> bc[q]]
      /\ \A q \in Subscribers : bc[q] = DeltaFrame(kind, MinorOf(q), i, revision + 1)
  OBVIOUS
<1>6. \A q \in Subscribers : DeltaFrame(kind, MinorOf(q), i, revision + 1) \in Frames
  BY <1>2, MinorFacts, FrameFacts
<1>7. bc \in Batches
  <2> HIDE DEF bc
  <2> QED BY <1>2, <1>5, <1>6, BatchMade
<1>8. DOMAIN first \subseteq {p} /\ \A q \in DOMAIN first : first[q] = ResultFrame(MinorOf(q))
  OBVIOUS
<1>9. /\ Sending(<<first>>, bc) \in SendingCalls \union {Idle}
      /\ calls'[t] = Sending(<<first>>, bc)
      /\ \A u \in Threads \ {t} : calls'[u] = calls[u]
      /\ calls' = [calls EXCEPT ![t] = Sending(<<first>>, bc)]
  <2>1. calls' = [calls EXCEPT ![t] = Sending(<<first>>, bc)]
    BY <1>3
  <2> HIDE DEF first, bc
  <2> QED BY <1>4, <1>7, <2>1, SentAndBroadcast DEF TypeOK
<1>10. CallMoves(t)
  <2> HIDE DEF first, bc
  <2> QED BY <1>9 DEF CallMoves, TypeOK, Calls
<1>11. \A q \in Players : \A f \in ToBeSent(calls'[t], q) :
         \/ q = p /\ f = ResultFrame(MinorOf(q))
         \/ q \in Subscribers /\ f = DeltaFrame(kind, MinorOf(q), i, revision + 1)
  <2> HIDE DEF first, bc
  <2> QED BY <1>4, <1>5, <1>7, <1>8, <1>9, SentAndBroadcast
<1>12. \A q \in Subscribers :
         DeltaFrame(kind, MinorOf(q), i, revision + 1) \in ToBeSent(calls'[t], q)
  <2> HIDE DEF first, bc
  <2> QED BY <1>2, <1>4, <1>5, <1>7, <1>9, SentAndBroadcast
<1>13. calls'[t] \in SendingCalls \union {Idle}
  <2> HIDE DEF first, bc
  <2> QED BY <1>9
<1> QED BY <1>1, <1>3, <1>10, <1>11, <1>12, <1>13

LEMMA PendingFacts ==
  ASSUME TypeOK
  PROVE  /\ DOMAIN pendingDeltas = 1..Len(pendingDeltas) /\ Len(pendingDeltas) \in Nat
         /\ \A n \in DOMAIN pendingDeltas :
              pendingDeltas[n].id \in WaypointIds /\ pendingDeltas[n].revision \in Revisions
<1> DEFINE D == [id : WaypointIds, revision : Revisions]
<1>1. pendingDeltas \in Seq(D)
  BY DEF TypeOK
<1>2. /\ DOMAIN pendingDeltas = 1..Len(pendingDeltas) /\ Len(pendingDeltas) \in Nat
      /\ \A n \in DOMAIN pendingDeltas : pendingDeltas[n] \in D
  <2> HIDE DEF D
  <2> QED BY <1>1
<1> QED BY <1>2

LEMMA TickFacts ==
  ASSUME TypeOK, NEW t \in Threads, Tick(t)
  PROVE  /\ CallMoves(t)
         /\ calls[t] \in TickingCalls /\ calls'[t] \in SendingCalls \union {Idle}
         /\ \A q \in Players : \A f \in ToBeSent(calls'[t], q) :
              \/ /\ Compatible(q)
                 /\ \E operator \in BOOLEAN : f = StatusFrame(operator, MinorOf(q), loaded)
              \/ /\ q \in Subscribers
                 /\ \E n \in DOMAIN pendingDeltas :
                      f = DeltaFrame("REMOVE", MinorOf(q), pendingDeltas[n].id,
                                     pendingDeltas[n].revision)
         /\ \A q \in Subscribers \intersect calls[t].handles, n \in DOMAIN pendingDeltas :
              DeltaFrame("REMOVE", MinorOf(q), pendingDeltas[n].id, pendingDeltas[n].revision)
                \in ToBeSent(calls'[t], q)
<1> DEFINE levels == calls[t].levels
           handles == calls[t].handles
           operator(p) == IF p \in DOMAIN levels THEN levels[p] ELSE sessions[p].operator
           delta(p, n) == DeltaFrame("REMOVE", MinorOf(p), pendingDeltas[n].id,
                                     pendingDeltas[n].revision)
           statuses == [p \in Informed(levels) \intersect handles |->
                          StatusFrame(operator(p), MinorOf(p), loaded)]
           deltas == [n \in DOMAIN pendingDeltas |->
                        [p \in Subscribers \intersect handles |-> delta(p, n)]]
           out == <<statuses>> \o deltas
<1>1. calls[t] \in TickingCalls
  BY CallFacts DEF Tick, TypeOK
<1>2. /\ handles \subseteq Players /\ Subscribers \subseteq Players
      /\ \A p \in DOMAIN levels : p \in Players /\ levels[p] \in BOOLEAN
  BY <1>1 DEF TickingCalls, Subscribers
<1>3. \A p \in Informed(levels) : p \in Players /\ Compatible(p) /\ operator(p) \in BOOLEAN
  <2> TAKE p \in Informed(levels)
  <2>1. p \in Players /\ Compatible(p)
    BY <1>2 DEF Informed, Moved
  <2>2. sessions[p].operator \in BOOLEAN
    BY <2>1, SessionFacts DEF Compatible, SessionRecords
  <2> QED BY <1>2, <2>1, <2>2
<1>4. /\ DOMAIN statuses = Informed(levels) \intersect handles
      /\ statuses = [p \in DOMAIN statuses |-> statuses[p]]
      /\ \A p \in DOMAIN statuses : statuses[p] = StatusFrame(operator(p), MinorOf(p), loaded)
  OBVIOUS
<1>5. statuses \in Batches
  <2>1. \A p \in DOMAIN statuses : p \in Players /\ statuses[p] \in Frames
    <3> HIDE DEF statuses, operator
    <3> TAKE p \in DOMAIN statuses
    <3>1. p \in Players /\ operator(p) \in BOOLEAN /\ MinorOf(p) \in Minors /\ loaded \in BOOLEAN
      BY <1>3, <1>4, MinorFacts DEF TypeOK
    <3>2. StatusFrame(operator(p), MinorOf(p), loaded) \in Frames
      BY <3>1, FrameFacts
    <3> QED BY <1>4, <3>1, <3>2
  <2> HIDE DEF statuses
  <2> QED BY <1>4, <2>1, BatchMade
<1>6. /\ DOMAIN pendingDeltas = 1..Len(pendingDeltas) /\ Len(pendingDeltas) \in Nat
      /\ \A n \in DOMAIN pendingDeltas :
           pendingDeltas[n].id \in WaypointIds /\ pendingDeltas[n].revision \in Revisions
  BY PendingFacts
<1>7. \A n \in DOMAIN pendingDeltas :
        /\ DOMAIN deltas[n] = Subscribers \intersect handles
        /\ deltas[n] = [p \in DOMAIN deltas[n] |-> deltas[n][p]]
        /\ \A p \in DOMAIN deltas[n] : deltas[n][p] = delta(p, n)
  OBVIOUS
<1>8. \A n \in DOMAIN pendingDeltas : deltas[n] \in Batches
  <2> TAKE n \in DOMAIN pendingDeltas
  <2>1. \A p \in Subscribers \intersect handles : delta(p, n) \in Frames
    BY <1>2, <1>6, MinorFacts, FrameFacts
  <2> HIDE DEF deltas, delta, handles
  <2>2. \A p \in DOMAIN deltas[n] : p \in Players /\ deltas[n][p] \in Frames
    BY <1>2, <1>7, <2>1
  <2>3. deltas[n] = [p \in DOMAIN deltas[n] |-> deltas[n][p]]
    BY <1>7
  <2> QED BY <2>2, <2>3, BatchMade
<1>9. deltas \in Seq(Batches) /\ DOMAIN deltas = DOMAIN pendingDeltas
  <2>1. DOMAIN deltas = DOMAIN pendingDeltas
    OBVIOUS
  <2>2. deltas = [n \in DOMAIN pendingDeltas |-> deltas[n]]
    OBVIOUS
  <2> HIDE DEF deltas
  <2>3. deltas \in [1..Len(pendingDeltas) -> Batches]
    BY <1>6, <1>8, <2>2
  <2> QED BY <1>6, <2>1, <2>3
<1>10. /\ out \in Seq(Batches)
       /\ \A k \in DOMAIN out : out[k] = statuses \/ \E n \in DOMAIN deltas : out[k] = deltas[n]
       /\ \A n \in DOMAIN deltas : n + 1 \in DOMAIN out /\ out[n + 1] = deltas[n]
  <2> HIDE DEF statuses, deltas
  <2>1. <<statuses>> \in Seq(Batches) /\ Len(<<statuses>>) = 1 /\ <<statuses>>[1] = statuses
    BY <1>5
  <2>2. /\ out \in Seq(Batches) /\ Len(out) = 1 + Len(deltas)
        /\ DOMAIN out = 1..Len(out) /\ Len(deltas) \in Nat /\ DOMAIN deltas = 1..Len(deltas)
    BY <1>9, <2>1
  <2>3. \A k \in DOMAIN out : out[k] = IF k = 1 THEN statuses ELSE deltas[k - 1]
    BY <1>9, <2>1, <2>2
  <2> QED BY <2>2, <2>3
<1>11. calls' = [calls EXCEPT ![t] = Sending(out, NoBatch)]
  BY DEF Tick
<1>12. ASSUME NEW q \in Players, NEW f \in FramesIn(out, NoBatch, q)
       PROVE  \/ /\ Compatible(q)
                 /\ \E op \in BOOLEAN : f = StatusFrame(op, MinorOf(q), loaded)
              \/ /\ q \in Subscribers
                 /\ \E n \in DOMAIN pendingDeltas : f = delta(q, n)
  <2>1. PICK k \in DOMAIN out : q \in DOMAIN out[k] /\ f = out[k][q]
    <3> HIDE DEF out
    <3> QED BY <1>12, NoBatchFacts DEF FramesIn
  <2>2. CASE out[k] = statuses
    <3> HIDE DEF out, statuses, operator
    <3> QED BY <1>3, <1>4, <2>1, <2>2
  <2>3. ASSUME NEW n \in DOMAIN deltas, out[k] = deltas[n]
        PROVE  q \in Subscribers /\ f = delta(q, n)
    <3> HIDE DEF out, deltas, delta
    <3> QED BY <1>7, <1>9, <2>1, <2>3
  <2> HIDE DEF out, deltas, delta, statuses
  <2> QED BY <1>9, <1>10, <2>2, <2>3
<1>13. ASSUME NEW q \in Subscribers \intersect handles, NEW n \in DOMAIN pendingDeltas
       PROVE  delta(q, n) \in FramesIn(out, NoBatch, q)
  <2> HIDE DEF out, deltas, delta, statuses, handles
  <2>1. n + 1 \in DOMAIN out /\ q \in DOMAIN out[n + 1] /\ out[n + 1][q] = delta(q, n)
    BY <1>7, <1>9, <1>10
  <2> QED BY <2>1 DEF FramesIn
<1>14. /\ Sending(out, NoBatch) \in SendingCalls \union {Idle}
       /\ \A q \in Players : ToBeSent(Sending(out, NoBatch), q) = FramesIn(out, NoBatch, q)
  <2> HIDE DEF out
  <2> QED BY <1>10, NoBatchFacts, SendingFacts
<1>15. /\ calls'[t] = Sending(out, NoBatch) /\ \A u \in Threads \ {t} : calls'[u] = calls[u]
       /\ CallMoves(t)
  <2> HIDE DEF out
  <2> QED BY <1>11, <1>14 DEF TypeOK, CallMoves, Calls
<1>16. \A q \in Players : ToBeSent(calls'[t], q) = FramesIn(out, NoBatch, q)
  <2> HIDE DEF out
  <2> QED BY <1>14, <1>15
<1>17. calls'[t] \in SendingCalls \union {Idle}
  <2> HIDE DEF out
  <2> QED BY <1>14, <1>15
<1>18. \A q \in Subscribers \intersect handles, n \in DOMAIN pendingDeltas :
         delta(q, n) \in ToBeSent(calls'[t], q)
  <2> HIDE DEF out, delta, handles
  <2> QED BY <1>2, <1>13, <1>16
<1>19. \A q \in Players : \A f \in ToBeSent(calls'[t], q) :
         \/ /\ Compatible(q)
            /\ \E op \in BOOLEAN : f = StatusFrame(op, MinorOf(q), loaded)
         \/ /\ q \in Subscribers
            /\ \E n \in DOMAIN pendingDeltas : f = delta(q, n)
  <2> HIDE DEF out, delta
  <2> QED BY <1>12, <1>16
<1> QED BY <1>1, <1>15, <1>17, <1>18, <1>19

(***************************************************************************)
(* The catalog.                                                            *)
(***************************************************************************)
\* A set of naturals has a least element.
LEMMA Least ==
  ASSUME NEW D \in SUBSET Nat, D # {}
  PROVE  \E m \in D : \A k \in D : m <= k
<1> DEFINE R == StrictSubsetOrdering(Nat)
           F == FiniteSubsetsOf(Nat)
           T == {1..n : n \in D}
<1>1. IsWellFoundedOn(R, F)
  BY FS_StrictSubsetOrderingWellFounded
<1>2. T \subseteq F /\ T # {}
  <2>1. \A n \in Nat : IsFiniteSet(1..n) /\ 1..n \in SUBSET Nat
    BY FS_Interval
  <2> QED BY <2>1 DEF FiniteSubsetsOf
<1>3. PICK x \in T : \A y \in T : ~ (<<y, x>> \in R)
  <2> HIDE DEF R, F, T
  <2> QED BY <1>1, <1>2, WFMin
<1>4. PICK m \in D : x = 1..m
  OBVIOUS
<1>5. ASSUME NEW k \in D, k < m PROVE FALSE
  <2>1. 1..k \in T /\ <<1..k, x>> \notin R
    BY <1>3
  <2>2. 1..k \in SUBSET Nat /\ 1..m \in SUBSET Nat
    BY <1>5
  <2>3. 1..k \subseteq 1..m /\ m \in 1..m /\ m \notin 1..k
    BY <1>5
  <2>4. 1..k # 1..m
    BY <2>3
  <2> QED BY <2>1, <2>2, <2>3, <2>4, <1>4 DEF StrictSubsetOrdering
<1> QED BY <1>4, <1>5

LEMMA LastStampFacts ==
  ASSUME NEW c \in Stamps
  PROVE  LastStamp(c) \in Revisions
<1> DEFINE D == {r \in Revisions : \A i \in WaypointIds : c[i] <= r}
           P(r) == /\ \A i \in WaypointIds : c[i] <= r
                   /\ r = 0 \/ \E i \in WaypointIds : c[i] = r
<1>1. MaxRevision \in D /\ D \subseteq Nat
  BY HubBounds DEF Stamps, Revisions
<1>2. PICK m \in D : \A k \in D : m <= k
  <2> HIDE DEF D
  <2> QED BY <1>1, Least
<1>3. m = 0 \/ \E i \in WaypointIds : c[i] = m
  <2> SUFFICES ASSUME m # 0, \A i \in WaypointIds : c[i] # m PROVE FALSE
    OBVIOUS
  <2>1. m - 1 \in D
    BY HubBounds DEF Stamps, Revisions
  <2> QED BY <1>1, <1>2, <2>1
<1>4. \E r \in Revisions : P(r)
  BY <1>2, <1>3
<1>5. LastStamp(c) = CHOOSE r \in Revisions : P(r)
  BY DEF LastStamp
<1> HIDE DEF P
<1> QED BY <1>4, <1>5

\* A wipe lists every point, once.
LEMMA OrderFacts ==
  ASSUME TypeOK, NEW order \in Orders, Live(points) # {}
  PROVE  /\ order \in Seq(WaypointIds) /\ Len(order) = Cardinality(Live(points))
         /\ DOMAIN order = 1..Len(order) /\ Len(order) \in Nat \ {0}
         /\ \A i \in Live(points) : \E n \in 1..Len(order) : order[n] = i
<1> DEFINE L == Live(points)
           N == Cardinality(L)
<1>1. L \subseteq WaypointIds
  BY DEF Live
<1>2. IsFiniteSet(L)
  BY <1>1, HubIdsFinite, FS_Subset
<1>3. N \in Nat /\ N # 0
  BY <1>2, FS_CardinalityType, FS_EmptySet
<1>4. order \in [1..N -> L] /\ \A i, j \in 1..N : order[i] = order[j] => i = j
  BY DEF Orders
<1> HIDE DEF L, N
<1>5. order \in Injection(1..N, L)
  BY <1>4 DEF Injection, IsInjective
<1>6. Cardinality(1..N) = N
  BY <1>3, FS_Interval
<1>7. order \in Surjection(1..N, L)
  BY <1>2, <1>5, <1>6, FS_Injection DEF N
<1>8. \A i \in L : \E n \in 1..N : order[n] = i
  BY <1>7 DEF Surjection
<1>9. order \in Seq(WaypointIds) /\ Len(order) = N /\ DOMAIN order = 1..N
  BY <1>1, <1>3, <1>4
<1> QED BY <1>3, <1>8, <1>9 DEF L, N

(***************************************************************************)
(* Types.                                                                  *)
(***************************************************************************)
\* A strike counts, the last one mutes, and the terms stay (record_malformed).
LEMMA StruckFacts ==
  ASSUME NEW s \in SessionRecords
  PROVE  /\ Struck(s) \in SessionRecords
         /\ Struck(s).muted => Struck(s).strikes = MaxStrikes
         /\ s.muted /\ s.strikes = MaxStrikes => Struck(s).muted
         /\ Struck(s).compatible = s.compatible /\ Struck(s).minor = s.minor
         /\ Struck(s).subscribed = s.subscribed
<1> DEFINE n == IF s.strikes < MaxStrikes THEN s.strikes + 1 ELSE MaxStrikes
<1>1. s.strikes \in 0..MaxStrikes
  BY DEF SessionRecords
<1>2. n \in 0..MaxStrikes /\ (n >= MaxStrikes) \in BOOLEAN
      /\ (n >= MaxStrikes => n = MaxStrikes)
      /\ (s.strikes = MaxStrikes => n >= MaxStrikes)
  BY <1>1, HubBounds
<1>3. Struck(s) = [s EXCEPT !.strikes = n, !.muted = (n >= MaxStrikes)]
  BY DEF Struck
<1> HIDE DEF n
<1> QED BY <1>2, <1>3 DEF SessionRecords

\* A greeting lifts neither strikes nor the mute (accept_hello).
LEMMA GreetedFacts ==
  ASSUME NEW s \in SessionRecords, NEW m \in Hellos, NEW operator \in BOOLEAN, s.tokens > 0
  PROVE  /\ Greeted(s, m, operator) \in SessionRecords
         /\ Greeted(s, m, operator).muted = s.muted
         /\ Greeted(s, m, operator).strikes = s.strikes
         /\ ~Greeted(s, m, operator).subscribed
<1> DEFINE n == IF m.minor < ProtoMinor THEN m.minor ELSE ProtoMinor
<1>1. m.major \in BOOLEAN /\ m.minor \in Nat
  BY HubInputs DEF Hellos
<1>2. n \in 0..ProtoMinor
  BY <1>1, HubBounds
<1>3. s.tokens - 1 \in 0..ControlBurst
  BY HubBounds DEF SessionRecords
<1>4. Greeted(s, m, operator) =
        [s EXCEPT !.subscribed = FALSE, !.compatible = m.major, !.operator = operator,
                  !.tokens = s.tokens - 1, !.minor = n]
  BY DEF Greeted
<1> HIDE DEF n
<1> QED BY <1>1, <1>2, <1>3, <1>4 DEF SessionRecords

\* A session that pays a token keeps what was agreed.
SameTerms(s, r) ==
  /\ s.compatible = r.compatible /\ s.minor = r.minor
  /\ s.muted = r.muted /\ s.strikes = r.strikes

Paid(s, operator) == [Charged(s) EXCEPT !.operator = operator]

LEMMA PaidFacts ==
  ASSUME NEW s \in SessionRecords, NEW operator \in BOOLEAN, s.tokens > 0
  PROVE  /\ Paid(s, operator) \in SessionRecords /\ SameTerms(Paid(s, operator), s)
         /\ Paid(s, operator).subscribed = s.subscribed
<1>1. s.tokens - 1 \in 0..ControlBurst
  BY HubBounds DEF SessionRecords
<1>2. Charged(s) = [s EXCEPT !.tokens = s.tokens - 1]
  BY DEF Charged
<1> QED BY <1>1, <1>2 DEF SessionRecords, SameTerms, Paid

LEMMA SubscribedFacts ==
  ASSUME NEW s \in SessionRecords, NEW operator \in BOOLEAN, s.tokens > 0, TypeOK
  PROVE  /\ Subscribed(s, operator) \in SessionRecords
         /\ SameTerms(Subscribed(s, operator), s)
         /\ Subscribed(s, operator).subscribed = enabled
<1>1. s.tokens - 1 \in 0..ControlBurst
  BY HubBounds DEF SessionRecords
<1>2. Charged(s) = [s EXCEPT !.tokens = s.tokens - 1]
  BY DEF Charged
<1>3. enabled \in BOOLEAN
  BY DEF TypeOK
<1> QED BY <1>1, <1>2, <1>3 DEF SessionRecords, SameTerms, Subscribed

LEMMA NewSessionFacts == NewSession \in SessionRecords /\ ~NewSession.muted /\ NewSession.strikes = 0
BY HubBounds DEF NewSession, SessionRecords

LEMMA UnsubscribedFacts ==
  ASSUME TypeOK
  PROVE  /\ Unsubscribed \in [Players -> SessionRecords \union {NoSession}]
         /\ \A p \in Players : ~Has(p) => Unsubscribed[p] = NoSession
         /\ \A p \in Players : Has(p) =>
              /\ Unsubscribed[p] \in SessionRecords
              /\ SameTerms(Unsubscribed[p], sessions[p])
              /\ ~Unsubscribed[p].subscribed
<1>1. \A p \in Players : Has(p) =>
        /\ [sessions[p] EXCEPT !.subscribed = FALSE] \in SessionRecords
        /\ SameTerms([sessions[p] EXCEPT !.subscribed = FALSE], sessions[p])
        /\ ~[sessions[p] EXCEPT !.subscribed = FALSE].subscribed
  BY SessionFacts DEF SessionRecords, SameTerms
<1> QED BY <1>1 DEF Unsubscribed

LEMMA ReceivedFacts ==
  ASSUME TypeOK, NEW t \in Threads, NEW kind, Received(t, kind)
  PROVE  /\ calls[t] \in ReceivedCalls
         /\ calls[t].from \in Players /\ calls[t].operator \in BOOLEAN
         /\ calls[t].message.kind = kind
         /\ kind = "HELLO" => calls[t].message \in Hellos
<1>1. calls[t] \in ReceivedCalls
  BY CallFacts DEF Received, TypeOK
<1>2. calls[t].message \in Messages /\ calls[t].message.kind = kind
  BY <1>1 DEF Received, ReceivedCalls
<1>3. kind = "HELLO" => calls[t].message \in Hellos
  BY <1>2 DEF Messages
<1> QED BY <1>1, <1>2, <1>3 DEF ReceivedCalls

LEMMA ApplyFacts ==
  ASSUME NEW c \in Copies \union {NoCache}, NEW f \in Frames
  PROVE  Apply(c, f) \in Copies \union {NoCache}
<1>1. CASE f.kind = "SNAPSHOT"
  <2>1. f.revision \in Revisions /\ f.points \in Stamps
    BY <1>1 DEF Frames
  <2> QED BY <1>1, <2>1 DEF Apply, Copies
<1>2. CASE f.kind \in {"STATUS", "RESULT"}
  BY <1>2 DEF Apply
<1>3. CASE f.kind \in {"UPSERT", "REMOVE"}
  <2>1. f.revision \in Revisions /\ f.id \in WaypointIds
    BY <1>3 DEF Frames
  <2>2. CASE c = NoCache
    BY <1>3, <2>2 DEF Apply
  <2>3. CASE c \in Copies
    <3>1. c.points \in Stamps
      BY <2>3 DEF Copies
    <3> DEFINE x == IF f.kind = "UPSERT" THEN f.revision ELSE 0
    <3>2. x \in Revisions
      BY <2>1, HubBounds DEF Revisions
    <3>3. [c.points EXCEPT ![f.id] = x] \in Stamps
      <4> HIDE DEF x
      <4> QED BY <3>1, <3>2, <2>1 DEF Stamps
    <3>4. [revision |-> f.revision, points |-> [c.points EXCEPT ![f.id] = x]] \in Copies
      <4> HIDE DEF x
      <4> QED BY <2>1, <3>3 DEF Copies
    <3>5. Apply(c, f) \in {c, NoCache, [revision |-> f.revision, points |-> [c.points EXCEPT ![f.id] = x]]}
      BY <1>3 DEF Apply
    <3> QED BY <2>3, <3>4, <3>5
  <2> QED BY <2>2, <2>3
<1> QED BY <1>1, <1>2, <1>3 DEF Frames

LEMMA TakeFacts ==
  ASSUME TypeOK, NEW p \in Players, NEW f \in Frames, Take(p, f)
  PROVE  /\ cache' \in [Players -> Copies \union {NoCache}]
         /\ told' \in [Players -> Statuses \union {NotTold}]
         /\ cache'[p] = Apply(cache[p], f)
         /\ \A q \in Players \ {p} : cache'[q] = cache[q] /\ told'[q] = told[q]
         /\ f.kind = "STATUS" => told'[p] # NotTold /\ told'[p].minor = f.minor
         /\ f.kind # "STATUS" /\ told[p] # NotTold =>
              told'[p] # NotTold /\ told'[p].minor = told[p].minor
<1>1. Apply(cache[p], f) \in Copies \union {NoCache}
  BY ApplyFacts DEF TypeOK
<1>2. cache' = [cache EXCEPT ![p] = Apply(cache[p], f)]
  BY DEF Take
<1>3. CASE f.kind = "STATUS"
  <2> DEFINE s == [supported |-> f.supported, enabled |-> f.enabled,
                   operator |-> f.operator, minor |-> f.minor]
  <2>1. s \in Statuses /\ s.minor = f.minor
    BY <1>3 DEF Frames, Statuses
  <2>2. told' = [told EXCEPT ![p] = s]
    BY <1>3 DEF Take
  <2> HIDE DEF s
  <2> QED BY <1>1, <1>2, <1>3, <2>1, <2>2, HubNulls DEF TypeOK
<1>4. CASE f.kind = "SNAPSHOT" /\ told[p] # NotTold
  <2> DEFINE s == [told[p] EXCEPT !.operator = f.operator]
  <2>1. told[p] \in Statuses /\ f.operator \in BOOLEAN
    BY <1>4 DEF TypeOK, Frames
  <2>2. s \in Statuses /\ s.minor = told[p].minor
    BY <2>1 DEF Statuses
  <2>3. told' = [told EXCEPT ![p] = s]
    BY <1>4 DEF Take
  <2> HIDE DEF s
  <2> QED BY <1>1, <1>2, <1>4, <2>2, <2>3, HubNulls DEF TypeOK
<1>5. CASE f.kind # "STATUS" /\ ~(f.kind = "SNAPSHOT" /\ told[p] # NotTold)
  <2>1. told' = [told EXCEPT ![p] = told[p]]
    BY <1>5 DEF Take
  <2> QED BY <1>1, <1>2, <1>5, <2>1 DEF TypeOK
<1> QED BY <1>3, <1>4, <1>5

(***************************************************************************)
(* What handling a message that leaves the catalog alone comes to.         *)
(***************************************************************************)
StruckOnly(t, p) ==
  /\ ToBeSent(calls'[t], p) = {}
  /\ sessions'[p] = IF Has(p) THEN Struck(sessions[p]) ELSE sessions[p]

TurnedAway(t, p) == ToBeSent(calls'[t], p) = {} /\ sessions'[p] = sessions[p]

GreetedBack(t, p) ==
  /\ Has(p) => ~sessions[p].muted
  /\ sessions'[p] \in SessionRecords /\ ~sessions'[p].muted /\ ~sessions'[p].subscribed
  /\ \A f \in ToBeSent(calls'[t], p) :
       f.kind = "STATUS" /\ f.minor = IF sessions'[p].compatible THEN sessions'[p].minor ELSE 0
  /\ p \in calls[t].handles => ToBeSent(calls'[t], p) # {}

Answered(t, p) ==
  /\ Compatible(p)
  /\ sessions'[p] \in SessionRecords /\ SameTerms(sessions'[p], sessions[p])
  /\ sessions'[p].subscribed = sessions[p].subscribed
  /\ \A f \in ToBeSent(calls'[t], p) : f.kind \in {"STATUS", "RESULT"} /\ f.minor = MinorOf(p)

GivenSnapshot(t, p) ==
  /\ Compatible(p)
  /\ sessions'[p] \in SessionRecords /\ SameTerms(sessions'[p], sessions[p])
  /\ sessions'[p].subscribed = enabled
  /\ \A f \in ToBeSent(calls'[t], p) :
       /\ f.minor = MinorOf(p)
       /\ IF enabled THEN f.kind = "SNAPSHOT" /\ f.revision = revision /\ f.points = points
          ELSE f.kind = "STATUS"
  /\ p \in calls[t].handles => ToBeSent(calls'[t], p) # {}

HandledQuietly(t) ==
  /\ CallMoves(t)
  /\ calls[t] \in ReceivedCalls /\ calls'[t] \in SendingCalls \union {Idle}
  /\ sessions' \in [Players -> SessionRecords \union {NoSession}]
  /\ \A q \in Players \ {calls[t].from} :
       ToBeSent(calls'[t], q) = {} /\ sessions'[q] = sessions[q]
  /\ \/ StruckOnly(t, calls[t].from)
     \/ TurnedAway(t, calls[t].from)
     \/ GreetedBack(t, calls[t].from)
     \/ Answered(t, calls[t].from)
     \/ GivenSnapshot(t, calls[t].from)
  /\ UNCHANGED <<catalogVars, settingVars, hostVars, clientVars, refresh, pendingDeltas>>

LEMMA SessionSet ==
  ASSUME TypeOK, NEW p \in Players, NEW s \in SessionRecords,
         sessions' = [sessions EXCEPT ![p] = s]
  PROVE  /\ sessions' \in [Players -> SessionRecords \union {NoSession}]
         /\ sessions'[p] = s /\ \A q \in Players \ {p} : sessions'[q] = sessions[q]
BY DEF TypeOK

LEMMA TurnedAwayFacts ==
  ASSUME TypeOK, NEW t \in Threads, calls[t] \in ReceivedCalls, Nothing(t), UNCHANGED sessions,
         UNCHANGED <<catalogVars, settingVars, hostVars, clientVars, refresh, pendingDeltas>>
  PROVE  HandledQuietly(t)
<1>1. calls[t].from \in Players
  BY DEF ReceivedCalls
<1>2. CallMoves(t) /\ calls'[t] = Idle /\ \A q \in Players : ToBeSent(calls'[t], q) = {}
  BY NothingFacts
<1>3. sessions' \in [Players -> SessionRecords \union {NoSession}]
  BY DEF TypeOK
<1>4. TurnedAway(t, calls[t].from)
  BY <1>1, <1>2 DEF TurnedAway
<1> QED BY <1>1, <1>2, <1>3, <1>4 DEF HandledQuietly

LEMMA MalformedFacts ==
  ASSUME TypeOK, NEW t \in Threads, HandleMalformed(t)
  PROVE  HandledQuietly(t)
<1> DEFINE p == calls[t].from
<1>1. calls[t] \in ReceivedCalls /\ p \in Players
  BY ReceivedFacts DEF HandleMalformed
<1>2. CallMoves(t) /\ calls'[t] = Idle /\ \A q \in Players : ToBeSent(calls'[t], q) = {}
  BY NothingFacts DEF HandleMalformed
<1>3. CASE Has(p)
  <2>1. sessions' = [sessions EXCEPT ![p] = Struck(sessions[p])]
    BY <1>3 DEF HandleMalformed
  <2>2. Struck(sessions[p]) \in SessionRecords
    BY <1>1, <1>3, SessionFacts, StruckFacts
  <2>3. /\ sessions' \in [Players -> SessionRecords \union {NoSession}]
        /\ sessions'[p] = Struck(sessions[p])
        /\ \A q \in Players \ {p} : sessions'[q] = sessions[q]
    BY <1>1, <2>1, <2>2, SessionSet
  <2>4. StruckOnly(t, p)
    BY <1>1, <1>2, <1>3, <2>3 DEF StruckOnly
  <2> QED BY <1>1, <1>2, <2>3, <2>4 DEF HandledQuietly, HandleMalformed
<1>4. CASE ~Has(p)
  BY <1>1, <1>4, TurnedAwayFacts DEF HandleMalformed
<1> QED BY <1>3, <1>4

LEMMA HelloFacts ==
  ASSUME TypeOK, NEW t \in Threads, HandleHello(t)
  PROVE  HandledQuietly(t)
<1> DEFINE p == calls[t].from
           op == calls[t].operator
           s == Greeted(Opened(p), calls[t].message, op)
           f == StatusFrame(op, IF s.compatible THEN s.minor ELSE 0, s.compatible)
<1>1. calls[t] \in ReceivedCalls /\ p \in Players /\ op \in BOOLEAN /\ calls[t].message \in Hellos
  BY ReceivedFacts DEF HandleHello
<1>2. CASE ~GreetingTaken(p)
  <2>1. Nothing(t) /\ UNCHANGED sessions
    BY <1>2 DEF HandleHello
  <2> QED BY <1>1, <2>1, TurnedAwayFacts DEF HandleHello
<1>3. CASE GreetingTaken(p)
  <2>1. sessions' = [sessions EXCEPT ![p] = s] /\ Answer(t, p, <<f>>)
    BY <1>3 DEF HandleHello
  <2>2. Opened(p) \in SessionRecords /\ ~Opened(p).muted /\ Opened(p).tokens > 0
    BY <1>1, <1>3, SessionFacts, NewSessionFacts DEF GreetingTaken, Opened
  <2>3. s \in SessionRecords /\ ~s.muted /\ ~s.subscribed
    BY <1>1, <2>2, GreetedFacts
  <2>4. s.compatible \in BOOLEAN /\ (IF s.compatible THEN s.minor ELSE 0) \in Minors
    <3> HIDE DEF s
    <3> QED BY <2>3, HubBounds DEF SessionRecords, Minors
  <2>5. f \in Frames /\ f.kind = "STATUS" /\ f.minor = IF s.compatible THEN s.minor ELSE 0
    <3> HIDE DEF s
    <3> QED BY <1>1, <2>4, FrameFacts DEF StatusFrame
  <2>6. Has(p) => ~sessions[p].muted
    BY <2>2 DEF Opened
  <2> HIDE DEF s, f
  <2>7. /\ sessions' \in [Players -> SessionRecords \union {NoSession}]
        /\ sessions'[p] = s /\ \A q \in Players \ {p} : sessions'[q] = sessions[q]
    BY <1>1, <2>1, <2>3, SessionSet
  <2>9. /\ CallMoves(t)
        /\ calls'[t] \in SendingCalls \union {Idle}
        /\ \A q \in Players \ {p} : ToBeSent(calls'[t], q) = {}
        /\ ToBeSent(calls'[t], p) \subseteq {f}
        /\ p \in calls[t].handles => ToBeSent(calls'[t], p) # {}
    BY <1>1, <2>1, <2>5, AnswerOneFacts
  <2>10. GreetedBack(t, p)
    BY <1>1, <2>3, <2>5, <2>6, <2>7, <2>9 DEF GreetedBack
  <2> QED BY <1>1, <2>7, <2>9, <2>10 DEF HandledQuietly, HandleHello
<1> QED BY <1>2, <1>3

LEMMA SubscribeFacts ==
  ASSUME TypeOK, NEW t \in Threads, HandleSubscribe(t)
  PROVE  HandledQuietly(t)
<1> DEFINE p == calls[t].from
           op == calls[t].operator
           s == Subscribed(sessions[p], op)
           f == IF enabled THEN SnapshotFrame(op, MinorOf(p)) ELSE StatusFrame(op, MinorOf(p), TRUE)
<1>1. calls[t] \in ReceivedCalls /\ p \in Players /\ op \in BOOLEAN
  BY ReceivedFacts DEF HandleSubscribe
<1>2. CASE ~Served(p)
  <2>1. Nothing(t) /\ UNCHANGED sessions
    BY <1>2 DEF HandleSubscribe
  <2> QED BY <1>1, <2>1, TurnedAwayFacts DEF HandleSubscribe
<1>3. CASE Served(p)
  <2>1. sessions' = [sessions EXCEPT ![p] = s] /\ Answer(t, p, <<f>>)
    BY <1>3 DEF HandleSubscribe
  <2>2. Compatible(p) /\ sessions[p] \in SessionRecords /\ sessions[p].tokens > 0
    BY <1>1, <1>3, SessionFacts DEF Served, Compatible
  <2>3. s \in SessionRecords /\ SameTerms(s, sessions[p]) /\ s.subscribed = enabled
    BY <1>1, <2>2, SubscribedFacts
  <2>4. MinorOf(p) \in Minors
    BY <1>1, MinorFacts
  <2>5. /\ f \in Frames /\ f.minor = MinorOf(p)
        /\ IF enabled THEN f.kind = "SNAPSHOT" /\ f.revision = revision /\ f.points = points
           ELSE f.kind = "STATUS"
    BY <1>1, <2>4, FrameFacts DEF StatusFrame, SnapshotFrame
  <2> HIDE DEF s, f
  <2>7. /\ sessions' \in [Players -> SessionRecords \union {NoSession}]
        /\ sessions'[p] = s /\ \A q \in Players \ {p} : sessions'[q] = sessions[q]
    BY <1>1, <2>1, <2>3, SessionSet
  <2>9. /\ CallMoves(t)
        /\ calls'[t] \in SendingCalls \union {Idle}
        /\ \A q \in Players \ {p} : ToBeSent(calls'[t], q) = {}
        /\ ToBeSent(calls'[t], p) \subseteq {f}
        /\ p \in calls[t].handles => ToBeSent(calls'[t], p) # {}
    BY <1>1, <2>1, <2>5, AnswerOneFacts
  <2>10. GivenSnapshot(t, p)
    BY <1>1, <2>2, <2>3, <2>5, <2>7, <2>9 DEF GivenSnapshot
  <2> QED BY <1>1, <2>7, <2>9, <2>10 DEF HandledQuietly, HandleSubscribe
<1> QED BY <1>2, <1>3

\* A result, alone or before a status.
AnswersAt(frames, minor) ==
  \A n \in DOMAIN frames : frames[n].kind \in {"STATUS", "RESULT"} /\ frames[n].minor = minor

LEMMA ResultFacts ==
  ASSUME TypeOK, NEW t \in Threads, NEW p \in Players,
         NEW frames \in Seq(Frames), Answer(t, p, frames),
         AnswersAt(frames, MinorOf(p)),
         calls[t] \in ReceivedCalls, p = calls[t].from, Compatible(p),
         sessions' \in [Players -> SessionRecords \union {NoSession}],
         sessions'[p] \in SessionRecords, SameTerms(sessions'[p], sessions[p]),
         sessions'[p].subscribed = sessions[p].subscribed,
         \A q \in Players \ {p} : sessions'[q] = sessions[q],
         UNCHANGED <<catalogVars, settingVars, hostVars, clientVars, refresh, pendingDeltas>>
  PROVE  HandledQuietly(t)
<1>1. /\ CallMoves(t)
      /\ calls'[t] \in SendingCalls \union {Idle}
      /\ \A q \in Players \ {p} : ToBeSent(calls'[t], q) = {}
      /\ \A f \in ToBeSent(calls'[t], p) : \E n \in DOMAIN frames : f = frames[n]
  BY AnswerFacts
<1>2. Answered(t, p)
  BY <1>1 DEF Answered, AnswersAt
<1> QED BY <1>1, <1>2 DEF HandledQuietly

LEMMA PlainResultFacts ==
  ASSUME TypeOK, NEW t \in Threads, NEW p \in Players,
         Answer(t, p, <<ResultFrame(MinorOf(p))>>), UNCHANGED sessions,
         calls[t] \in ReceivedCalls, p = calls[t].from, Compatible(p),
         UNCHANGED <<catalogVars, settingVars, hostVars, clientVars, refresh, pendingDeltas>>
  PROVE  HandledQuietly(t)
<1> DEFINE f == ResultFrame(MinorOf(p))
<1>1. f \in Frames /\ f.kind = "RESULT" /\ f.minor = MinorOf(p)
  <2>1. MinorOf(p) \in Minors
    BY MinorFacts
  <2> QED BY <2>1, FrameFacts DEF ResultFrame
<1>2. Answer(t, p, <<f>>)
  OBVIOUS
<1> HIDE DEF f
<1>3. <<f>> \in Seq(Frames) /\ AnswersAt(<<f>>, MinorOf(p))
  BY <1>1 DEF AnswersAt
<1>4. /\ sessions' \in [Players -> SessionRecords \union {NoSession}]
      /\ sessions'[p] \in SessionRecords /\ SameTerms(sessions'[p], sessions[p])
      /\ sessions'[p].subscribed = sessions[p].subscribed
      /\ \A q \in Players \ {p} : sessions'[q] = sessions[q]
  BY SessionFacts DEF TypeOK, SameTerms, Compatible
<1> QED BY <1>2, <1>3, <1>4, ResultFacts

LEMMA DisabledFacts ==
  ASSUME TypeOK, NEW t \in Threads, NEW p \in Players, AnswerDisabled(t, p),
         calls[t] \in ReceivedCalls, p = calls[t].from, Compatible(p),
         UNCHANGED <<catalogVars, settingVars, hostVars, clientVars, refresh, pendingDeltas>>
  PROVE  HandledQuietly(t)
<1> DEFINE op == calls[t].operator
           s == Paid(sessions[p], op)
           f == ResultFrame(MinorOf(p))
           g == StatusFrame(op, MinorOf(p), TRUE)
<1>1. op \in BOOLEAN /\ MinorOf(p) \in Minors
  BY MinorFacts DEF ReceivedCalls
<1>2. CASE Answer(t, p, <<f>>) /\ UNCHANGED sessions
  BY <1>2, PlainResultFacts
<1>3. CASE /\ sessions[p].tokens > 0 /\ sessions' = [sessions EXCEPT ![p] = s]
           /\ Answer(t, p, <<f, g>>)
  <2>1. sessions[p] \in SessionRecords
    BY SessionFacts DEF Compatible
  <2>2. s \in SessionRecords /\ SameTerms(s, sessions[p]) /\ s.subscribed = sessions[p].subscribed
    BY <1>1, <1>3, <2>1, PaidFacts
  <2>3. /\ f \in Frames /\ f.kind = "RESULT" /\ f.minor = MinorOf(p)
        /\ g \in Frames /\ g.kind = "STATUS" /\ g.minor = MinorOf(p)
    BY <1>1, FrameFacts DEF ResultFrame, StatusFrame
  <2> HIDE DEF s, f, g
  <2>4. /\ sessions' \in [Players -> SessionRecords \union {NoSession}]
        /\ sessions'[p] = s /\ \A q \in Players \ {p} : sessions'[q] = sessions[q]
    BY <1>3, <2>2, SessionSet
  <2>5. <<f, g>> \in Seq(Frames) /\ AnswersAt(<<f, g>>, MinorOf(p))
    BY <2>3 DEF AnswersAt
  <2> DEFINE frames == <<f, g>>
  <2>6. frames \in Seq(Frames) /\ Answer(t, p, frames) /\ AnswersAt(frames, MinorOf(p))
    BY <1>3, <2>5
  <2> HIDE DEF frames
  <2> QED BY <2>2, <2>4, <2>6, ResultFacts
<1> QED BY <1>2, <1>3 DEF AnswerDisabled, Paid

LEMMA LockFacts ==
  ASSUME TypeOK, NEW t \in Threads, HandleLock(t)
  PROVE  HandledQuietly(t)
<1> DEFINE p == calls[t].from
<1>1. calls[t] \in ReceivedCalls /\ p \in Players
  BY ReceivedFacts DEF HandleLock
<1>2. UNCHANGED <<catalogVars, settingVars, hostVars, clientVars, refresh, pendingDeltas>>
  BY DEF HandleLock
<1>3. \/ Nothing(t) /\ UNCHANGED sessions
      \/ Compatible(p) /\ AnswerDisabled(t, p)
      \/ Compatible(p) /\ Answer(t, p, <<ResultFrame(MinorOf(p))>>) /\ UNCHANGED sessions
  BY DEF HandleLock
<1> QED BY <1>1, <1>2, <1>3, TurnedAwayFacts, DisabledFacts, PlainResultFacts

LEMMA UnappliedFacts ==
  ASSUME TypeOK, NEW t \in Threads, HandleUnapplied(t)
  PROVE  HandledQuietly(t)
<1> DEFINE p == calls[t].from
<1>1. calls[t] \in ReceivedCalls /\ p \in Players
  BY ReceivedFacts DEF HandleUnapplied
<1>2. UNCHANGED <<catalogVars, settingVars, hostVars, clientVars, refresh, pendingDeltas>>
  BY DEF HandleUnapplied
<1>3. \/ Nothing(t) /\ UNCHANGED sessions
      \/ Compatible(p) /\ AnswerDisabled(t, p)
      \/ Compatible(p) /\ Answer(t, p, <<ResultFrame(MinorOf(p))>>) /\ UNCHANGED sessions
  BY DEF HandleUnapplied
<1> QED BY <1>1, <1>2, <1>3, TurnedAwayFacts, DisabledFacts, PlainResultFacts

LEMMA HandleFacts ==
  ASSUME TypeOK, NEW t \in Threads, Handle(t)
  PROVE  HandledQuietly(t) \/ HandleApplied(t)
BY MalformedFacts, HelloFacts, SubscribeFacts, LockFacts, UnappliedFacts DEF Handle

(***************************************************************************)
(* The types are kept.                                                     *)
(***************************************************************************)
LEMMA CallSet ==
  ASSUME TypeOK, NEW t \in Threads, NEW c \in Calls, calls' = [calls EXCEPT ![t] = c]
  PROVE  /\ CallMoves(t) /\ calls'[t] = c
         /\ c \notin SendingCalls => \A q \in Players : ToBeSent(calls'[t], q) = {}
BY ToBeSentFacts DEF TypeOK, CallMoves

LEMMA ReceiveFacts ==
  ASSUME TypeOK, NEW t \in Threads, NEW p \in Players, NEW m \in Messages, Receive(t, p, m)
  PROVE  /\ CallMoves(t) /\ calls'[t] \in ReceivedCalls
         /\ calls[t] = Idle /\ running /\ p \in online
         /\ calls'[t].handles = {p} /\ calls'[t].from = p
         /\ \A q \in Players : ToBeSent(calls'[t], q) = {}
         /\ UNCHANGED <<catalogVars, settingVars, hostVars, clientVars,
                        refresh, pendingDeltas, sessions>>
<1> DEFINE c == [stage |-> "received", from |-> p, handles |-> {p},
                 message |-> m, operator |-> level[p]]
<1>1. c \in ReceivedCalls /\ c.handles = {p} /\ c.from = p
  BY DEF ReceivedCalls, TypeOK
<1>2. c \in Calls /\ c \notin SendingCalls
  BY <1>1 DEF Calls, SendingCalls
<1>3. calls' = [calls EXCEPT ![t] = c]
  BY DEF Receive
<1> HIDE DEF c
<1> QED BY <1>1, <1>2, <1>3, CallSet DEF Receive

LEMMA BeginTickFacts ==
  ASSUME TypeOK, NEW t \in Threads, BeginTick(t)
  PROVE  /\ CallMoves(t) /\ calls'[t] \in TickingCalls
         /\ calls[t] = Idle /\ running
         /\ calls'[t].handles = online
         /\ \A q \in Players : ToBeSent(calls'[t], q) = {}
         /\ UNCHANGED <<catalogVars, settingVars, hostVars, clientVars,
                        refresh, pendingDeltas, sessions>>
<1> DEFINE l == [p \in online |-> level[p]]
           L == UNION {[S -> BOOLEAN] : S \in SUBSET Players}
           c == [stage |-> "ticking", handles |-> online, levels |-> l]
<1>1. l \in L
  <2>1. l \in [online -> BOOLEAN] /\ online \in SUBSET Players
    BY DEF TypeOK
  <2> HIDE DEF l
  <2> QED BY <2>1
<1>2. TickingCalls = [stage : {"ticking"}, handles : SUBSET Players, levels : L]
  BY DEF TickingCalls
<1>3. c \in TickingCalls /\ c.handles = online
  <2>1. online \in SUBSET Players
    BY DEF TypeOK
  <2> HIDE DEF l, L
  <2> QED BY <1>1, <1>2, <2>1
<1>4. c \in Calls /\ c \notin SendingCalls
  BY <1>3 DEF Calls, SendingCalls, TickingCalls
<1>5. calls' = [calls EXCEPT ![t] = c]
  BY DEF BeginTick
<1> HIDE DEF c
<1> QED BY <1>3, <1>4, <1>5, CallSet DEF BeginTick

LEMMA LeaveFacts ==
  ASSUME TypeOK, NEW t \in Threads, NEW p \in Players, Leave(t, p)
  PROVE  /\ calls' \in [Threads -> Calls \union {Idle}]
         /\ \A u \in Threads : calls[u] = Idle => calls'[u] = Idle
         /\ \A u \in Threads, q \in Players : ToBeSent(calls'[u], q) \subseteq ToBeSent(calls[u], q)
         /\ sessions' \in [Players -> SessionRecords \union {NoSession}]
         /\ sessions'[p] = NoSession /\ \A q \in Players \ {p} : sessions'[q] = sessions[q]
         /\ told' \in [Players -> Statuses \union {NotTold}]
         /\ told'[p] = NotTold /\ \A q \in Players \ {p} : told'[q] = told[q]
         /\ cache' \in [Players -> Copies \union {NoCache}]
         /\ cache'[p] = NoCache /\ \A q \in Players \ {p} : cache'[q] = cache[q]
         /\ online' = online \ {p}
         /\ UNCHANGED <<catalogVars, settingVars, level, refresh, pendingDeltas>>
<1>1. calls' = [u \in Threads |-> WithoutPlayer(calls[u], p)]
  BY DEF Leave
<1>2. \A u \in Threads : calls[u] \in Calls \union {Idle}
  BY DEF TypeOK
<1>3. \A u \in Threads :
        /\ WithoutPlayer(calls[u], p) \in Calls \union {Idle}
        /\ \A q \in Players : ToBeSent(WithoutPlayer(calls[u], p), q) \subseteq ToBeSent(calls[u], q)
        /\ calls[u] = Idle => WithoutPlayer(calls[u], p) = Idle
  BY <1>2, WithoutPlayerFacts
<1>4. /\ calls' \in [Threads -> Calls \union {Idle}]
      /\ \A u \in Threads : calls[u] = Idle => calls'[u] = Idle
      /\ \A u \in Threads, q \in Players : ToBeSent(calls'[u], q) \subseteq ToBeSent(calls[u], q)
  BY <1>1, <1>3
<1>5. /\ sessions' \in [Players -> SessionRecords \union {NoSession}]
      /\ sessions'[p] = NoSession /\ \A q \in Players \ {p} : sessions'[q] = sessions[q]
  BY DEF Leave, SessionsLeft, TypeOK
<1>6. /\ told' \in [Players -> Statuses \union {NotTold}]
      /\ told'[p] = NotTold /\ \A q \in Players \ {p} : told'[q] = told[q]
      /\ cache' \in [Players -> Copies \union {NoCache}]
      /\ cache'[p] = NoCache /\ \A q \in Players \ {p} : cache'[q] = cache[q]
  BY DEF Leave, TypeOK
<1> QED BY <1>4, <1>5, <1>6 DEF Leave

LEMMA RefillFacts ==
  ASSUME TypeOK, NEW p \in Players, Refill(p)
  PROVE  /\ sessions' \in [Players -> SessionRecords \union {NoSession}]
         /\ Has(p) /\ sessions'[p] \in SessionRecords
         /\ SameTerms(sessions'[p], sessions[p]) /\ sessions'[p].subscribed = sessions[p].subscribed
         /\ \A q \in Players \ {p} : sessions'[q] = sessions[q]
         /\ UNCHANGED <<catalogVars, settingVars, hostVars, clientVars,
                        refresh, pendingDeltas, calls>>
<1> DEFINE s == [sessions[p] EXCEPT !.tokens = sessions[p].tokens + 1]
<1>1. sessions[p] \in SessionRecords /\ Has(p) /\ sessions[p].tokens < ControlBurst
  BY SessionFacts DEF Refill
<1>2. sessions[p].tokens + 1 \in 0..ControlBurst
  BY <1>1, HubBounds DEF SessionRecords
<1>3. s \in SessionRecords /\ SameTerms(s, sessions[p]) /\ s.subscribed = sessions[p].subscribed
  BY <1>1, <1>2 DEF SessionRecords, SameTerms
<1>4. sessions' = [sessions EXCEPT ![p] = s]
  BY DEF Refill
<1> HIDE DEF s
<1> QED BY <1>1, <1>3, <1>4, SessionSet DEF Refill

\* The tick changes nobody's terms.
LEMMA TickSessions ==
  ASSUME TypeOK, NEW t \in Threads, Tick(t)
  PROVE  /\ sessions' \in [Players -> SessionRecords \union {NoSession}]
         /\ \A q \in Players : ~Has(q) => sessions'[q] = sessions[q]
         /\ \A q \in Players : Has(q) =>
              /\ sessions'[q] \in SessionRecords /\ SameTerms(sessions'[q], sessions[q])
              /\ sessions'[q].subscribed = sessions[q].subscribed
         /\ pendingDeltas' = <<>> /\ refresh' = FALSE
         /\ UNCHANGED <<catalogVars, settingVars, hostVars, clientVars>>
<1> DEFINE levels == calls[t].levels
           s(q) == [sessions[q] EXCEPT !.operator = levels[q]]
<1>1. \A q \in Moved(levels) : Has(q) /\ levels[q] \in BOOLEAN
  BY TickFacts DEF Moved, Compatible, TickingCalls
<1>2. \A q \in Players : q \in Moved(levels) =>
        /\ s(q) \in SessionRecords /\ SameTerms(s(q), sessions[q])
        /\ s(q).subscribed = sessions[q].subscribed
  <2> TAKE q \in Players
  <2> HAVE q \in Moved(levels)
  <2>1. sessions[q] \in SessionRecords /\ levels[q] \in BOOLEAN
    BY <1>1, SessionFacts
  <2> HIDE DEF levels
  <2> QED BY <2>1 DEF SessionRecords, SameTerms
<1>3. /\ sessions' = [q \in Players |-> IF q \in Moved(levels) THEN s(q) ELSE sessions[q]]
      /\ pendingDeltas' = <<>> /\ refresh' = FALSE
      /\ UNCHANGED <<catalogVars, settingVars, hostVars, clientVars>>
  BY DEF Tick
<1> HIDE DEF s, levels
<1>4. \A q \in Players : sessions[q] \in SessionRecords \union {NoSession}
  BY DEF TypeOK
<1>5. \A q \in Players : Has(q) =>
        /\ sessions'[q] \in SessionRecords /\ SameTerms(sessions'[q], sessions[q])
        /\ sessions'[q].subscribed = sessions[q].subscribed
  BY <1>2, <1>3, SessionFacts DEF SameTerms
<1>6. \A q \in Players : ~Has(q) => sessions'[q] = sessions[q]
  BY <1>1, <1>3
<1>7. sessions' \in [Players -> SessionRecords \union {NoSession}]
  BY <1>2, <1>3, <1>4
<1> QED BY <1>3, <1>5, <1>6, <1>7

\* The catalog goes on from where it was.
GoesOn ==
  /\ revision' \in Revisions /\ points' \in Stamps /\ past' \in [Revisions -> Stamps]
  /\ revision <= revision' /\ \A r \in 0..revision : past'[r] = past[r]
  /\ past'[revision'] = points'
  /\ loaded' = loaded

LEMMA AppliedCatalog ==
  ASSUME TypeOK, History, NEW t \in Threads, HandleApplied(t),
         NEW i \in WaypointIds, NEW kind \in {"UPSERT", "REMOVE"}, NEW r, r = revision + 1,
         points' = [points EXCEPT ![i] = IF kind = "UPSERT" THEN revision + 1 ELSE 0]
  PROVE  /\ GoesOn /\ revision' = revision + 1
         /\ SoundDelta(kind, i, r)'
<1>1. /\ revision + 1 \in Revisions /\ revision \in Nat /\ revision \in Revisions
      /\ revision' = revision + 1 /\ past' = [past EXCEPT ![revision + 1] = points']
      /\ loaded /\ loaded' = loaded
  BY HubBounds DEF TypeOK, Revisions, HandleApplied, settingVars
<1> DEFINE x == IF kind = "UPSERT" THEN revision + 1 ELSE 0
<1>2. x \in Revisions
  BY <1>1, HubBounds DEF Revisions
<1>3. points' \in Stamps
  <2>1. points' = [points EXCEPT ![i] = x]
    OBVIOUS
  <2> HIDE DEF x
  <2> QED BY <1>2, <2>1 DEF Stamps, TypeOK
<1>4. /\ past' \in [Revisions -> Stamps] /\ past'[revision + 1] = points'
      /\ \A k \in 0..revision : past'[k] = past[k]
  <2>1. past \in [Revisions -> Stamps]
    BY DEF TypeOK
  <2>2. \A k \in 0..revision : k \in Revisions /\ k # revision + 1
    BY <1>1, HubBounds DEF Revisions
  <2> QED BY <1>1, <1>3, <2>1, <2>2
<1>5. past'[revision] = points
  BY <1>1, <1>4 DEF History
<1>6. (revision + 1) - 1 = revision /\ revision + 1 \in 1..(revision + 1)
  BY <1>1
<1>7. SoundDelta(kind, i, r)'
  <2>1. past'[r] = [past'[r - 1] EXCEPT ![i] = IF kind = "UPSERT" THEN r ELSE 0]
    BY <1>4, <1>5, <1>6
  <2> QED BY <1>1, <1>6, <2>1 DEF SoundDelta
<1> QED BY <1>1, <1>3, <1>4, <1>7 DEF GoesOn

LEMMA ClearFacts ==
  ASSUME TypeOK, History, NEW t \in Threads, Clear(t)
  PROVE  /\ calls[t] = Idle /\ running /\ loaded
         /\ GoesOn /\ revision < revision'
         /\ pendingDeltas' \in Seq([id : WaypointIds, revision : Revisions])
         /\ PendingSound'
         /\ \E n \in DOMAIN pendingDeltas' : pendingDeltas'[n].revision = revision'
         /\ UNCHANGED <<settingVars, hostVars, clientVars, refresh, sessions, calls>>
<1>1. PICK order \in Orders :
        /\ pendingDeltas' = Cleared(order)
        /\ past' = [r \in Revisions |->
                     IF r \in revision + 1..revision + Len(order)
                     THEN [i \in WaypointIds |->
                             IF \E n \in 1..r - revision : order[n] = i THEN 0 ELSE points[i]]
                     ELSE past[r]]
        /\ revision' = ClearedAt(Len(order))
  BY DEF Clear
<1> DEFINE N == Len(order)
           wiped(k) == [i \in WaypointIds |->
                          IF \E n \in 1..k : order[n] = i THEN 0 ELSE points[i]]
<1>2. /\ order \in Seq(WaypointIds) /\ N = Cardinality(Live(points))
      /\ DOMAIN order = 1..N /\ N \in Nat \ {0}
      /\ \A i \in Live(points) : \E n \in 1..N : order[n] = i
  BY OrderFacts DEF Clear
<1>3. /\ revision' = revision + N /\ revision + N <= MaxRevision /\ points' = NoPoints
      /\ calls[t] = Idle /\ running /\ loaded
      /\ UNCHANGED <<settingVars, hostVars, clientVars, refresh, sessions, calls>>
  BY <1>1, <1>2 DEF Clear, ClearedAt
<1>4. /\ revision \in Revisions /\ revision \in Nat /\ MaxRevision \in Nat
      /\ past \in [Revisions -> Stamps] /\ points \in Stamps
  BY HubBounds DEF TypeOK, Revisions
<1>5. past' = [r \in Revisions |-> IF r \in revision + 1..revision + N
                                   THEN wiped(r - revision) ELSE past[r]]
  BY <1>1
<1>6. NoPoints \in Stamps /\ \A k \in 1..N : wiped(k) \in Stamps
  BY <1>4 DEF NoPoints, Stamps, Revisions
<1> HIDE DEF N
<1>7. \A k \in 1..N : revision + k \in Revisions /\ past'[revision + k] = wiped(k)
  <2> TAKE k \in 1..N
  <2>1. /\ revision + k \in Revisions /\ revision + k \in revision + 1..revision + N
        /\ (revision + k) - revision = k
    BY <1>2, <1>3, <1>4 DEF Revisions
  <2> HIDE DEF wiped
  <2> QED BY <1>5, <2>1
<1>8. \A r \in 0..revision : r \in Revisions /\ past'[r] = past[r]
  <2> TAKE r \in 0..revision
  <2>1. r \in Revisions /\ r \notin revision + 1..revision + N
    BY <1>4 DEF Revisions
  <2> HIDE DEF wiped
  <2> QED BY <1>5, <2>1
<1>9. past' \in [Revisions -> Stamps]
  <2>1. \A r \in Revisions : r \in revision + 1..revision + N => r - revision \in 1..N
    BY <1>2, <1>4 DEF Revisions
  <2> HIDE DEF wiped
  <2> QED BY <1>4, <1>5, <1>6, <2>1
<1>10. wiped(N) = NoPoints
  <2>1. \A i \in WaypointIds : (\E n \in 1..N : order[n] = i) \/ points[i] = 0
    BY <1>2 DEF Live
  <2> QED BY <2>1 DEF NoPoints
<1>11. GoesOn /\ revision < revision'
  <2>1. past'[revision'] = points'
    <3> HIDE DEF wiped
    <3> QED BY <1>2, <1>3, <1>7, <1>10
  <2>2. revision' \in Revisions /\ revision < revision'
    BY <1>2, <1>3, <1>4 DEF Revisions
  <2>3. loaded' = loaded /\ points' \in Stamps
    BY <1>3, <1>6 DEF settingVars
  <2> QED BY <1>4, <1>8, <1>9, <2>1, <2>2, <2>3 DEF GoesOn, Revisions
<1>12. ASSUME NEW k \in 1..N
       PROVE  past'[revision + k] = [past'[(revision + k) - 1] EXCEPT ![order[k]] = 0]
  <2>1. order[k] \in WaypointIds
    BY <1>2
  <2>2. past'[revision + k] = wiped(k)
    BY <1>7
  <2>3. CASE k = 1
    <3>1. past'[(revision + k) - 1] = points
      <4>1. (revision + k) - 1 = revision
        BY <2>3, <1>4
      <4> QED BY <1>4, <1>8, <4>1 DEF History
    <3>2. wiped(1) = [points EXCEPT ![order[1]] = 0]
      <4>1. \A i \in WaypointIds : (\E n \in 1..1 : order[n] = i) <=> i = order[1]
        OBVIOUS
      <4> QED BY <4>1, <2>1, <2>3, <1>4 DEF Stamps
    <3> QED BY <2>2, <2>3, <3>1, <3>2
  <2>4. CASE k # 1
    <3>1. k - 1 \in 1..N /\ revision + (k - 1) = (revision + k) - 1
      BY <2>4, <1>2, <1>4
    <3>2. past'[(revision + k) - 1] = wiped(k - 1)
      <4> HIDE DEF wiped
      <4> QED BY <1>7, <3>1
    <3>3. wiped(k) = [wiped(k - 1) EXCEPT ![order[k]] = 0]
      <4>1. \A i \in WaypointIds : (\E n \in 1..k : order[n] = i) <=>
              (i = order[k] \/ \E n \in 1..(k - 1) : order[n] = i)
        <5>1. \A n \in 1..k : n = k \/ n \in 1..(k - 1)
          BY <1>2
        <5>2. k \in 1..k /\ \A n \in 1..(k - 1) : n \in 1..k
          BY <1>2
        <5> QED BY <5>1, <5>2
      <4> QED BY <4>1, <2>1
    <3> QED BY <2>2, <3>2, <3>3
  <2> QED BY <2>3, <2>4
<1>13. /\ DOMAIN pendingDeltas' = 1..N
       /\ \A n \in 1..N : pendingDeltas'[n].id = order[n] /\ pendingDeltas'[n].revision = revision + n
  <2> DEFINE d(n) == [id |-> order[n], revision |-> revision + n]
  <2>1. pendingDeltas' = [n \in DOMAIN order |-> d(n)]
    BY <1>1 DEF Cleared
  <2>2. DOMAIN pendingDeltas' = 1..N /\ \A n \in 1..N : pendingDeltas'[n] = d(n)
    <3> HIDE DEF d
    <3> QED BY <1>2, <2>1
  <2>3. \A n : d(n).id = order[n] /\ d(n).revision = revision + n
    OBVIOUS
  <2> HIDE DEF d
  <2> QED BY <2>2, <2>3
<1>14. pendingDeltas' \in Seq([id : WaypointIds, revision : Revisions])
  <2> DEFINE D == [id : WaypointIds, revision : Revisions]
             d(n) == [id |-> order[n], revision |-> revision + n]
  <2>1. \A n \in 1..N : order[n] \in WaypointIds /\ revision + n \in Revisions
    <3>1. \A n \in 1..N : order[n] \in WaypointIds
      BY <1>2
    <3>2. \A n \in 1..N : revision + n \in Revisions
      BY <1>7
    <3> QED BY <3>1, <3>2
  <2>2. \A n \in 1..N : d(n) \in D
    BY <2>1
  <2>3. pendingDeltas' = [n \in 1..N |-> d(n)]
    BY <1>1, <1>2 DEF Cleared
  <2> HIDE DEF D, d
  <2>4. pendingDeltas' \in [1..N -> D]
    BY <2>2, <2>3
  <2>5. pendingDeltas' \in Seq(D)
    BY <1>2, <2>4
  <2> QED BY <2>5 DEF D
<1>15. PendingSound'
  <2>1. ASSUME NEW n \in 1..N, NEW r, r = revision + n
        PROVE  SoundDelta("REMOVE", order[n], r)'
    <3>1. revision + n \in 1..(revision + N)
      BY <1>2, <1>4
    <3>2. loaded' /\ revision' = revision + N
      BY <1>3 DEF settingVars
    <3>3. past'[r] = [past'[r - 1] EXCEPT ![order[n]] = 0]
      BY <1>12, <2>1
    <3> QED BY <2>1, <3>1, <3>2, <3>3 DEF SoundDelta
  <2>2. ASSUME NEW n \in 1..N
        PROVE  pendingDeltas'[n].id = order[n] /\ pendingDeltas'[n].revision = revision + n
    BY <1>13
  <2>3. ASSUME NEW n \in DOMAIN pendingDeltas'
        PROVE  /\ loaded' /\ pendingDeltas'[n].revision \in 1..revision'
               /\ past'[pendingDeltas'[n].revision] =
                    [past'[pendingDeltas'[n].revision - 1] EXCEPT ![pendingDeltas'[n].id] = 0]
    BY <1>13, <2>1, <2>2 DEF SoundDelta
  <2> QED BY <2>3 DEF PendingSound, SoundDelta
<1>16. \E n \in DOMAIN pendingDeltas' : pendingDeltas'[n].revision = revision'
  <2>1. N \in 1..N /\ pendingDeltas'[N].revision = revision + N
    BY <1>2, <1>13
  <2> QED BY <1>3, <1>13, <2>1
<1> QED BY <1>3, <1>11, <1>14, <1>15, <1>16

LEMMA LoadFacts ==
  ASSUME TypeOK, Load
  PROVE  /\ ~running /\ running'
         /\ loaded' \in BOOLEAN /\ enabled' \in BOOLEAN /\ refresh' \in BOOLEAN
         /\ shared' \in BOOLEAN
         /\ sessions' = sessions \/ sessions' = Unsubscribed
         /\ \/ loaded /\ loaded' /\ UNCHANGED catalogVars
            \/ /\ ~loaded
               /\ revision' \in Revisions /\ points' \in Stamps /\ past' \in [Revisions -> Stamps]
               /\ past'[revision'] = points'
               /\ enabled' => loaded'
         /\ UNCHANGED <<hostVars, clientVars, pendingDeltas, calls>>
<1>1. CASE loaded
  <2>1. /\ enabled' = shared' /\ shared' \in BOOLEAN /\ refresh' \in BOOLEAN
        /\ sessions' = IF enabled /\ ~shared' THEN Unsubscribed ELSE sessions
        /\ UNCHANGED <<catalogVars, loaded>>
    BY <1>1 DEF Load
  <2> QED BY <1>1, <2>1 DEF Load, catalogVars
<1>2. CASE ~loaded
  <2>1. /\ loaded' \in BOOLEAN
        /\ points' \in IF loaded' THEN StartPoints ELSE {NoPoints}
        /\ revision' = LastStamp(points')
        /\ past' = Known(revision', points')
        /\ enabled' = EnabledIf(loaded', shared')
        /\ refresh' = (refresh \/ loaded')
        /\ UNCHANGED sessions
        /\ shared' \in BOOLEAN
    BY <1>2 DEF Load
  <2>2. NoPoints \in Stamps
    BY HubBounds DEF NoPoints, Stamps, Revisions
  <2>3. points' \in Stamps
    BY <2>1, <2>2, StartPointsStamped
  <2>4. revision' \in Revisions
    BY <2>1, <2>3, LastStampFacts
  <2>5. past' \in [Revisions -> Stamps] /\ past'[revision'] = points'
    BY <2>1, <2>2, <2>3, <2>4 DEF Known
  <2>6. enabled' \in BOOLEAN /\ refresh' \in BOOLEAN /\ (enabled' => loaded')
    BY <2>1 DEF EnabledIf, TypeOK
  <2> QED BY <1>2, <2>1, <2>3, <2>4, <2>5, <2>6 DEF Load
<1> QED BY <1>1, <1>2

LEMMA InitTypes == Init => TypeOK
<1> SUFFICES ASSUME Init PROVE TypeOK
  OBVIOUS
<1>1. NoPoints \in Stamps
  BY HubBounds DEF NoPoints, Stamps, Revisions
<1>2. points \in Stamps
  BY <1>1, StartPointsStamped DEF Init
<1>3. revision \in Revisions
  BY <1>2, LastStampFacts DEF Init
<1>4. past \in [Revisions -> Stamps]
  BY <1>1, <1>2 DEF Init, Known
<1>5. loaded \in BOOLEAN /\ enabled \in BOOLEAN /\ refresh \in BOOLEAN /\ running \in BOOLEAN
      /\ shared \in BOOLEAN
  BY DEF Init, EnabledIf
<1>6. /\ sessions \in [Players -> SessionRecords \union {NoSession}]
      /\ online \subseteq Players /\ level \in [Players -> BOOLEAN]
      /\ calls \in [Threads -> Calls \union {Idle}]
      /\ told \in [Players -> Statuses \union {NotTold}]
      /\ cache \in [Players -> Copies \union {NoCache}]
  BY DEF Init
<1>7. pendingDeltas \in Seq([id : WaypointIds, revision : Revisions])
  BY DEF Init
<1> QED BY <1>2, <1>3, <1>4, <1>5, <1>6, <1>7 DEF TypeOK

LEMMA TypeStep ==
  ASSUME TypeOK, History, [Next]_vars
  PROVE  TypeOK'
<1> USE DEF catalogVars, settingVars, hostVars, clientVars
<1>1. ASSUME NEW t \in Threads, NEW p \in Players, NEW m \in Messages, Receive(t, p, m)
      PROVE  TypeOK'
  <2>1. CallMoves(t) /\ UNCHANGED <<catalogVars, settingVars, hostVars, clientVars,
                                    refresh, pendingDeltas, sessions>>
    BY <1>1, ReceiveFacts
  <2> QED BY <2>1 DEF TypeOK, CallMoves
<1>2. ASSUME NEW t \in Threads, HandledQuietly(t)
      PROVE  TypeOK'
  BY <1>2 DEF TypeOK, CallMoves, HandledQuietly
<1>3. ASSUME NEW t \in Threads, HandleApplied(t)
      PROVE  TypeOK'
  <2>1. CallMoves(t)
    BY <1>3, AppliedFacts
  <2>2. PICK i \in WaypointIds, kind \in {"UPSERT", "REMOVE"} :
          points' = [points EXCEPT ![i] = IF kind = "UPSERT" THEN revision + 1 ELSE 0]
    BY <1>3, AppliedFacts
  <2>3. GoesOn
    BY <1>3, <2>2, AppliedCatalog
  <2>4. UNCHANGED <<settingVars, hostVars, clientVars, refresh, pendingDeltas, sessions>>
    BY <1>3 DEF HandleApplied
  <2> QED BY <2>1, <2>3, <2>4 DEF TypeOK, CallMoves, GoesOn
<1>4. ASSUME NEW t \in Threads, Tick(t)
      PROVE  TypeOK'
  <2>1. CallMoves(t)
    BY <1>4, TickFacts
  <2>2. /\ sessions' \in [Players -> SessionRecords \union {NoSession}]
        /\ pendingDeltas' = <<>> /\ refresh' = FALSE
        /\ UNCHANGED <<catalogVars, settingVars, hostVars, clientVars>>
    BY <1>4, TickSessions
  <2>3. pendingDeltas' \in Seq([id : WaypointIds, revision : Revisions])
    BY <2>2
  <2>4. refresh' \in BOOLEAN
    BY <2>2
  <2> QED BY <2>1, <2>2, <2>3, <2>4 DEF TypeOK, CallMoves
<1>5. ASSUME NEW t \in Threads, LookUp(t)
      PROVE  TypeOK'
  <2>1. CallMoves(t)
    BY <1>5, LookUpFacts
  <2>2. UNCHANGED <<catalogVars, settingVars, hostVars, clientVars, refresh, pendingDeltas, sessions>>
    BY <1>5 DEF LookUp
  <2> QED BY <2>1, <2>2 DEF TypeOK, CallMoves
<1>6. ASSUME NEW t \in Threads, Deliver(t)
      PROVE  TypeOK'
  <2>1. CallMoves(t)
    BY <1>6, DeliverFacts
  <2>2. PICK p \in Players : \E f \in ToBeSent(calls[t], p) : Take(p, f)
    BY <1>6, DeliverFacts
  <2>3. PICK f \in ToBeSent(calls[t], p) : Take(p, f)
    BY <2>2
  <2>4. f \in Frames
    BY ToBeSentFacts DEF TypeOK
  <2>5. /\ cache' \in [Players -> Copies \union {NoCache}]
        /\ told' \in [Players -> Statuses \union {NotTold}]
    BY <2>3, <2>4, TakeFacts
  <2>6. UNCHANGED <<catalogVars, settingVars, hostVars, refresh, pendingDeltas, sessions>>
    BY <1>6 DEF Deliver
  <2> QED BY <2>1, <2>5, <2>6 DEF TypeOK, CallMoves
<1>7. ASSUME NEW t \in Threads, BeginTick(t)
      PROVE  TypeOK'
  <2>1. CallMoves(t) /\ UNCHANGED <<catalogVars, settingVars, hostVars, clientVars,
                                    refresh, pendingDeltas, sessions>>
    BY <1>7, BeginTickFacts
  <2> QED BY <2>1 DEF TypeOK, CallMoves
<1>8. ASSUME NEW t \in Threads, Clear(t)
      PROVE  TypeOK'
  <2>1. /\ GoesOn /\ pendingDeltas' \in Seq([id : WaypointIds, revision : Revisions])
        /\ UNCHANGED <<settingVars, hostVars, clientVars, refresh, sessions, calls>>
    BY <1>8, ClearFacts
  <2> QED BY <2>1 DEF TypeOK, GoesOn
<1>9. ASSUME NEW t \in Threads, Reload(t)
      PROVE  TypeOK'
  BY <1>9 DEF TypeOK, Reload
<1>10. CASE Unload
  <2>1. sessions' \in [Players -> SessionRecords \union {NoSession}]
    BY <1>10 DEF Unload
  <2> QED BY <1>10, <2>1 DEF TypeOK, Unload
<1>11. CASE Load
  <2>1. sessions' \in [Players -> SessionRecords \union {NoSession}]
    BY <1>11, LoadFacts, UnsubscribedFacts DEF TypeOK
  <2>2. /\ loaded' \in BOOLEAN /\ enabled' \in BOOLEAN /\ refresh' \in BOOLEAN
        /\ shared' \in BOOLEAN /\ running' \in BOOLEAN
        /\ UNCHANGED <<hostVars, clientVars, pendingDeltas, calls>>
    BY <1>11, LoadFacts
  <2>3. revision' \in Revisions /\ points' \in Stamps /\ past' \in [Revisions -> Stamps]
    BY <1>11, LoadFacts DEF TypeOK
  <2> QED BY <2>1, <2>2, <2>3 DEF TypeOK
<1>12. ASSUME NEW p \in Players, Join(p)
       PROVE  TypeOK'
  <2>1. online' \subseteq Players
    BY <1>12 DEF Join, TypeOK
  <2> QED BY <1>12, <2>1 DEF TypeOK, Join
<1>13. ASSUME NEW t \in Threads, NEW p \in Players, Leave(t, p)
       PROVE  TypeOK'
  <2>1. /\ calls' \in [Threads -> Calls \union {Idle}]
        /\ sessions' \in [Players -> SessionRecords \union {NoSession}]
        /\ told' \in [Players -> Statuses \union {NotTold}]
        /\ cache' \in [Players -> Copies \union {NoCache}]
        /\ online' = online \ {p}
        /\ UNCHANGED <<catalogVars, settingVars, level, refresh, pendingDeltas>>
    BY <1>13, LeaveFacts
  <2> QED BY <2>1 DEF TypeOK
<1>14. ASSUME NEW p \in Players, ChangeLevel(p)
       PROVE  TypeOK'
  <2>1. level' \in [Players -> BOOLEAN]
    BY <1>14 DEF ChangeLevel, TypeOK
  <2> QED BY <1>14, <2>1 DEF TypeOK, ChangeLevel
<1>15. ASSUME NEW p \in Players, Refill(p)
       PROVE  TypeOK'
  <2>1. /\ sessions' \in [Players -> SessionRecords \union {NoSession}]
        /\ UNCHANGED <<catalogVars, settingVars, hostVars, clientVars,
                       refresh, pendingDeltas, calls>>
    BY <1>15, RefillFacts
  <2> QED BY <2>1 DEF TypeOK
<1>16. CASE UNCHANGED vars
  BY <1>16 DEF TypeOK, vars
<1> QED
  BY <1>1, <1>2, <1>3, <1>4, <1>5, <1>6, <1>7, <1>8, <1>9, <1>10, <1>11, <1>12, <1>13, <1>14,
     <1>15, <1>16, HandleFacts DEF Next, Proceed

(***************************************************************************)
(* What is about to be sent, what waits for the tick and what clients hold *)
(* is sound.                                                               *)
(***************************************************************************)
LEMMA Stays ==
  ASSUME TypeOK, History, UNCHANGED catalogVars, loaded' = loaded
  PROVE  GoesOn
BY DEF TypeOK, History, GoesOn, catalogVars, Revisions

LEMMA DeltaKept ==
  ASSUME TypeOK, GoesOn, NEW kind, NEW i, NEW r, SoundDelta(kind, i, r)
  PROVE  SoundDelta(kind, i, r)'
<1>1. /\ loaded /\ r \in 1..revision
      /\ past[r] = [past[r - 1] EXCEPT ![i] = IF kind = "UPSERT" THEN r ELSE 0]
  BY DEF SoundDelta
<1>2. revision \in Nat /\ revision' \in Nat /\ revision <= revision'
  BY HubBounds DEF TypeOK, GoesOn, Revisions
<1>3. r \in 0..revision /\ r - 1 \in 0..revision /\ r \in 1..revision'
  BY <1>1, <1>2
<1>4. past'[r] = past[r] /\ past'[r - 1] = past[r - 1] /\ loaded'
  BY <1>1, <1>3 DEF GoesOn
<1> QED BY <1>1, <1>3, <1>4 DEF SoundDelta

LEMMA FrameKept ==
  ASSUME TypeOK, GoesOn, NEW f \in Frames, SoundFrame(f)
  PROVE  SoundFrame(f)'
<1>1. CASE f.kind = "SNAPSHOT"
  <2>1. loaded /\ f.revision <= revision /\ f.points = past[f.revision] /\ f.revision \in Revisions
    BY <1>1 DEF SoundFrame, Frames
  <2>2. revision \in Nat /\ revision' \in Nat /\ revision <= revision' /\ f.revision \in Nat
    BY <2>1, HubBounds DEF TypeOK, GoesOn, Revisions
  <2>3. f.revision \in 0..revision /\ f.revision <= revision'
    BY <2>1, <2>2
  <2>4. loaded' /\ f.points = past'[f.revision]
    BY <2>1, <2>3 DEF GoesOn
  <2> QED BY <1>1, <2>3, <2>4 DEF SoundFrame
<1>2. CASE f.kind \in {"UPSERT", "REMOVE"}
  <2>1. SoundDelta(f.kind, f.id, f.revision)
    BY <1>2 DEF SoundFrame
  <2>2. SoundDelta(f.kind, f.id, f.revision)'
    BY <2>1, DeltaKept
  <2> QED BY <1>2, <2>2 DEF SoundFrame
<1>3. CASE f.kind \in {"STATUS", "RESULT"}
  BY <1>3 DEF SoundFrame
<1> QED BY <1>1, <1>2, <1>3 DEF Frames

LEMMA SentFrames ==
  ASSUME TypeOK
  PROVE  \A t \in Threads, p \in Players : ToBeSent(calls[t], p) \subseteq Frames
BY ToBeSentFacts DEF TypeOK

LEMMA FramesKept ==
  ASSUME TypeOK, FramesSound, GoesOn,
         \A u \in Threads, q \in Players : ToBeSent(calls'[u], q) \subseteq ToBeSent(calls[u], q)
  PROVE  FramesSound'
<1> SUFFICES ASSUME NEW u \in Threads, NEW q \in Players, NEW f \in ToBeSent(calls'[u], q)
             PROVE  SoundFrame(f)'
  BY DEF FramesSound
<1>1. f \in ToBeSent(calls[u], q) /\ f \in Frames
  BY SentFrames
<1> QED BY <1>1, FrameKept DEF FramesSound

\* Only the call that moves has something new to send.
LEMMA FramesMoved ==
  ASSUME TypeOK, FramesSound, GoesOn, NEW t \in Threads, CallMoves(t),
         \A q \in Players : \A f \in ToBeSent(calls'[t], q) : SoundFrame(f)'
  PROVE  FramesSound'
<1> SUFFICES ASSUME NEW u \in Threads, NEW q \in Players, NEW f \in ToBeSent(calls'[u], q)
             PROVE  SoundFrame(f)'
  BY DEF FramesSound
<1>1. CASE u = t
  BY <1>1
<1>2. CASE u # t
  <2>1. f \in ToBeSent(calls[u], q) /\ f \in Frames
    BY <1>2, SentFrames DEF CallMoves
  <2> QED BY <2>1, FrameKept DEF FramesSound
<1> QED BY <1>1, <1>2

LEMMA PendingKept ==
  ASSUME TypeOK, GoesOn, PendingSound, UNCHANGED pendingDeltas
  PROVE  PendingSound'
<1> SUFFICES ASSUME NEW n \in DOMAIN pendingDeltas
             PROVE  SoundDelta("REMOVE", pendingDeltas[n].id, pendingDeltas[n].revision)'
  BY DEF PendingSound
<1>1. ASSUME NEW i, NEW r, i = pendingDeltas[n].id, r = pendingDeltas[n].revision
      PROVE  SoundDelta("REMOVE", i, r)'
  BY <1>1, DeltaKept DEF PendingSound
<1> QED BY <1>1 DEF SoundDelta

LEMMA CopyKept ==
  ASSUME TypeOK, GoesOn, CopiesSound, NEW p \in Players, cache'[p] = cache[p], cache[p] # NoCache
  PROVE  /\ loaded' /\ cache'[p].revision <= revision'
         /\ cache'[p].points = past'[cache'[p].revision]
<1>1. loaded /\ cache[p].revision <= revision /\ cache[p].points = past[cache[p].revision]
  BY DEF CopiesSound
<1>2. cache[p].revision \in Nat /\ revision \in Nat /\ revision' \in Nat
  BY HubBounds DEF TypeOK, GoesOn, Copies, Revisions
<1>3. cache[p].revision \in 0..revision /\ cache[p].revision <= revision'
  BY <1>1, <1>2 DEF GoesOn
<1> QED BY <1>1, <1>3 DEF GoesOn

LEMMA CopiesKept ==
  ASSUME TypeOK, GoesOn, CopiesSound, \A p \in Players : cache'[p] \in {cache[p], NoCache}
  PROVE  CopiesSound'
<1> SUFFICES ASSUME NEW p \in Players, cache'[p] # NoCache
             PROVE  /\ loaded' /\ cache'[p].revision <= revision'
                    /\ cache'[p].points = past'[cache'[p].revision]
  BY DEF CopiesSound
<1>1. cache'[p] = cache[p] /\ cache[p] # NoCache
  OBVIOUS
<1> QED BY <1>1, CopyKept

\* A copy that takes a sound frame is a catalog of the history.
LEMMA ApplySound ==
  ASSUME TypeOK, NEW c \in Copies \union {NoCache}, NEW f \in Frames, SoundFrame(f),
         c # NoCache => c.revision <= revision /\ c.points = past[c.revision],
         Apply(c, f) # NoCache, c # NoCache => loaded
  PROVE  /\ loaded /\ Apply(c, f).revision <= revision
         /\ Apply(c, f).points = past[Apply(c, f).revision]
<1>1. CASE f.kind = "SNAPSHOT"
  <2>1. Apply(c, f) = [revision |-> f.revision, points |-> f.points]
    BY <1>1 DEF Apply
  <2> QED BY <1>1, <2>1 DEF SoundFrame
<1>2. CASE Apply(c, f) = c
  BY <1>2
<1>3. CASE f.kind \in {"UPSERT", "REMOVE"} /\ Apply(c, f) # c
  <2>1. /\ loaded /\ f.revision \in 1..revision
        /\ past[f.revision] = [past[f.revision - 1] EXCEPT ![f.id] =
                                IF f.kind = "UPSERT" THEN f.revision ELSE 0]
    BY <1>3 DEF SoundFrame, SoundDelta
  <2>2. /\ c # NoCache /\ f.revision > c.revision /\ ~(f.revision > c.revision + 1)
        /\ Apply(c, f) = [revision |-> f.revision,
                          points |-> [c.points EXCEPT ![f.id] =
                                        IF f.kind = "UPSERT" THEN f.revision ELSE 0]]
    <3> DEFINE new == [revision |-> f.revision,
                       points |-> [c.points EXCEPT ![f.id] =
                                     IF f.kind = "UPSERT" THEN f.revision ELSE 0]]
    <3>1. f.kind # "SNAPSHOT" /\ f.kind # "STATUS" /\ f.kind # "RESULT"
      BY <1>3
    <3>2. Apply(c, f) = IF c = NoCache \/ f.revision <= c.revision THEN c
                        ELSE IF f.revision > c.revision + 1 THEN NoCache ELSE new
      BY <3>1 DEF Apply
    <3> HIDE DEF new
    <3>3. /\ c # NoCache /\ ~(f.revision <= c.revision) /\ ~(f.revision > c.revision + 1)
          /\ Apply(c, f) = new
      BY <1>3, <3>2
    <3>4. f.revision \in Int /\ c.revision \in Int
      BY <2>1, <3>3, HubBounds DEF Copies, Revisions, TypeOK
    <3> QED BY <3>3, <3>4 DEF new
  <2>3. c.revision \in Nat /\ c.points = past[c.revision]
    BY <2>2, HubBounds DEF Copies, Revisions
  <2>4. f.revision - 1 = c.revision /\ f.revision <= revision
    BY <2>1, <2>2, <2>3, HubBounds DEF TypeOK, Revisions
  <2>5. Apply(c, f).revision = f.revision /\ Apply(c, f).points = past[f.revision]
    BY <2>1, <2>2, <2>3, <2>4
  <2> QED BY <2>1, <2>4, <2>5
<1>4. f.kind \in {"STATUS", "RESULT"} => Apply(c, f) \in {c, NoCache}
  BY DEF Apply
<1> QED BY <1>1, <1>2, <1>3, <1>4 DEF Frames

LEMMA InitHub == Init => HubInv
<1> SUFFICES ASSUME Init PROVE HubInv
  OBVIOUS
<1>1. TypeOK
  BY InitTypes
<1>2. past[revision] = points
  BY <1>1 DEF Init, Known, TypeOK
<1>3. \A t \in Threads, p \in Players : ToBeSent(calls[t], p) = {}
  BY DEF Init, ToBeSent
<1>4. pendingDeltas = <<>> /\ \A p \in Players : cache[p] = NoCache
  BY DEF Init
<1>5. enabled => loaded
  BY DEF Init, EnabledIf
<1>6. History /\ ServedIfLoaded
  BY <1>2, <1>5 DEF History, ServedIfLoaded
<1>7. FramesSound
  BY <1>3 DEF FramesSound
<1>8. PendingSound
  BY <1>4 DEF PendingSound
<1>9. CopiesSound
  BY <1>4 DEF CopiesSound
<1> QED BY <1>1, <1>6, <1>7, <1>8, <1>9 DEF HubInv

\* An action that leaves the catalog alone, and what waits for the tick.
LEMMA QuietStep ==
  ASSUME HubInv, UNCHANGED <<catalogVars, loaded, enabled, pendingDeltas>>, FramesSound',
         \A p \in Players : cache'[p] \in {cache[p], NoCache}
  PROVE  (History /\ ServedIfLoaded /\ FramesSound /\ PendingSound /\ CopiesSound)'
<1>1. TypeOK /\ History /\ PendingSound /\ CopiesSound /\ ServedIfLoaded
  BY DEF HubInv
<1>2. GoesOn
  BY <1>1, Stays
<1>3. CopiesSound' /\ PendingSound'
  BY <1>1, <1>2, CopiesKept, PendingKept
<1>4. History' /\ ServedIfLoaded'
  BY <1>1 DEF History, ServedIfLoaded, catalogVars
<1> QED BY <1>3, <1>4

\* The same when no call has anything new to send.
LEMMA SilentStep ==
  ASSUME HubInv, UNCHANGED <<catalogVars, loaded, enabled, pendingDeltas>>,
         \A p \in Players : cache'[p] \in {cache[p], NoCache},
         \A u \in Threads, q \in Players : ToBeSent(calls'[u], q) \subseteq ToBeSent(calls[u], q)
  PROVE  (History /\ ServedIfLoaded /\ FramesSound /\ PendingSound /\ CopiesSound)'
<1>1. FramesSound'
  BY FramesKept, Stays DEF HubInv
<1> QED BY <1>1, QuietStep

LEMMA CallMovesSilently ==
  ASSUME NEW t \in Threads, CallMoves(t),
         \A q \in Players : ToBeSent(calls'[t], q) \subseteq ToBeSent(calls[t], q)
  PROVE  \A u \in Threads, q \in Players : ToBeSent(calls'[u], q) \subseteq ToBeSent(calls[u], q)
BY DEF CallMoves

LEMMA HandledFrames ==
  ASSUME HubInv, NEW t \in Threads, HandledQuietly(t)
  PROVE  \A q \in Players : \A f \in ToBeSent(calls'[t], q) : SoundFrame(f)'
<1> DEFINE p == calls[t].from
<1> SUFFICES ASSUME NEW q \in Players, NEW f \in ToBeSent(calls'[t], q)
             PROVE  SoundFrame(f)'
  OBVIOUS
<1>1. q = p
  BY DEF HandledQuietly
<1>2. loaded' = loaded /\ UNCHANGED <<revision, points, past>>
  BY DEF HandledQuietly, settingVars, catalogVars
<1>3. CASE f.kind \in {"STATUS", "RESULT"}
  BY <1>3 DEF SoundFrame
<1>4. CASE f.kind = "SNAPSHOT" /\ f.revision = revision /\ f.points = points /\ enabled
  <2>1. loaded /\ past[revision] = points /\ revision \in Nat
    BY <1>4, HubBounds DEF HubInv, History, ServedIfLoaded, TypeOK, Revisions
  <2> QED BY <1>2, <1>4, <2>1 DEF SoundFrame
<1>5. f.kind \in {"STATUS", "RESULT"}
      \/ (f.kind = "SNAPSHOT" /\ f.revision = revision /\ f.points = points /\ enabled)
  BY <1>1 DEF HandledQuietly, StruckOnly, TurnedAway, GreetedBack, Answered, GivenSnapshot
<1> QED BY <1>3, <1>4, <1>5

LEMMA AppliedStep ==
  ASSUME HubInv, NEW t \in Threads, HandleApplied(t)
  PROVE  (History /\ ServedIfLoaded /\ FramesSound /\ PendingSound /\ CopiesSound)'
<1>0. TypeOK /\ History /\ ServedIfLoaded /\ FramesSound /\ PendingSound /\ CopiesSound
  BY DEF HubInv
<1>1. PICK i \in WaypointIds, kind \in {"UPSERT", "REMOVE"} :
        /\ points' = [points EXCEPT ![i] = IF kind = "UPSERT" THEN revision + 1 ELSE 0]
        /\ \A q \in Players : \A f \in ToBeSent(calls'[t], q) :
             \/ f = ResultFrame(MinorOf(q))
             \/ f = DeltaFrame(kind, MinorOf(q), i, revision + 1)
  BY <1>0, AppliedFacts
<1>2. PICK r : r = revision + 1
  OBVIOUS
<1>3. GoesOn /\ SoundDelta(kind, i, r)'
  BY <1>0, <1>1, <1>2, AppliedCatalog
<1>4. /\ CallMoves(t)
      /\ UNCHANGED <<settingVars, hostVars, clientVars, refresh, pendingDeltas, sessions>>
  BY <1>0, AppliedFacts DEF HandleApplied
<1>5. ASSUME NEW q \in Players, NEW f \in ToBeSent(calls'[t], q)
      PROVE  SoundFrame(f)'
  <2>1. CASE f.kind = "RESULT"
    BY <2>1 DEF SoundFrame
  <2>2. CASE f.kind = kind /\ f.id = i /\ f.revision = r
    BY <1>3, <2>2 DEF SoundFrame
  <2>3. f.kind = "RESULT" \/ (f.kind = kind /\ f.id = i /\ f.revision = r)
    BY <1>1, <1>2 DEF ResultFrame, DeltaFrame
  <2> QED BY <2>1, <2>2, <2>3
<1>6. FramesSound'
  BY <1>0, <1>3, <1>4, <1>5, FramesMoved
<1>7. PendingSound' /\ CopiesSound'
  BY <1>0, <1>3, <1>4, PendingKept, CopiesKept DEF clientVars
<1>8. History' /\ ServedIfLoaded'
  BY <1>0, <1>3, <1>4 DEF History, GoesOn, ServedIfLoaded, settingVars
<1> QED BY <1>6, <1>7, <1>8

LEMMA TickStep ==
  ASSUME HubInv, NEW t \in Threads, Tick(t)
  PROVE  (History /\ ServedIfLoaded /\ FramesSound /\ PendingSound /\ CopiesSound)'
<1>0. TypeOK /\ History /\ ServedIfLoaded /\ FramesSound /\ PendingSound /\ CopiesSound
  BY DEF HubInv
<1>1. /\ pendingDeltas' = <<>> /\ UNCHANGED <<catalogVars, settingVars, clientVars>>
  BY <1>0, TickSessions
<1>2. GoesOn
  BY <1>0, <1>1, Stays DEF settingVars
<1>3. CallMoves(t)
  BY <1>0, TickFacts
<1>4. ASSUME NEW q \in Players, NEW f \in ToBeSent(calls'[t], q)
      PROVE  SoundFrame(f)'
  <2>1. CASE f.kind = "STATUS"
    BY <2>1 DEF SoundFrame
  <2>2. ASSUME NEW n \in DOMAIN pendingDeltas, f.kind = "REMOVE", f.id = pendingDeltas[n].id,
               f.revision = pendingDeltas[n].revision
        PROVE  SoundFrame(f)'
    <3>1. SoundDelta("REMOVE", f.id, f.revision)
      BY <1>0, <2>2 DEF PendingSound
    <3>2. SoundDelta("REMOVE", f.id, f.revision)'
      BY <1>0, <1>2, <3>1, DeltaKept
    <3> QED BY <2>2, <3>2 DEF SoundFrame
  <2>3. f.kind = "STATUS" \/ \E n \in DOMAIN pendingDeltas :
          f.kind = "REMOVE" /\ f.id = pendingDeltas[n].id /\ f.revision = pendingDeltas[n].revision
    <3>1. \/ \E op \in BOOLEAN : f = StatusFrame(op, MinorOf(q), loaded)
          \/ \E n \in DOMAIN pendingDeltas :
               f = DeltaFrame("REMOVE", MinorOf(q), pendingDeltas[n].id, pendingDeltas[n].revision)
      BY <1>0, <1>4, TickFacts
    <3> QED BY <3>1 DEF StatusFrame, DeltaFrame
  <2> QED BY <2>1, <2>2, <2>3
<1>5. FramesSound'
  BY <1>0, <1>2, <1>3, <1>4, FramesMoved
<1>6. CopiesSound'
  BY <1>0, <1>1, <1>2, CopiesKept DEF clientVars
<1>7. PendingSound'
  BY <1>1 DEF PendingSound
<1>8. History' /\ ServedIfLoaded'
  BY <1>0, <1>1 DEF History, ServedIfLoaded, settingVars, catalogVars
<1> QED BY <1>5, <1>6, <1>7, <1>8

LEMMA DeliverStep ==
  ASSUME HubInv, NEW t \in Threads, Deliver(t)
  PROVE  (History /\ ServedIfLoaded /\ FramesSound /\ PendingSound /\ CopiesSound)'
<1>0. TypeOK /\ History /\ ServedIfLoaded /\ FramesSound /\ PendingSound /\ CopiesSound
  BY DEF HubInv
<1>1. UNCHANGED <<catalogVars, settingVars, hostVars, refresh, pendingDeltas, sessions>>
  BY DEF Deliver
<1>2. GoesOn
  BY <1>0, <1>1, Stays DEF settingVars
<1>3. PICK p \in Players :
        \E f \in ToBeSent(calls[t], p) :
          /\ Take(p, f)
          /\ \A q \in Players \ {p} : ToBeSent(calls'[t], q) = ToBeSent(calls[t], q)
          /\ ToBeSent(calls'[t], p) \subseteq ToBeSent(calls[t], p)
  BY <1>0, DeliverFacts
<1>4. PICK f \in ToBeSent(calls[t], p) : Take(p, f)
  BY <1>3
<1>5. CallMoves(t) /\ \A q \in Players : ToBeSent(calls'[t], q) \subseteq ToBeSent(calls[t], q)
  BY <1>0, <1>3, DeliverFacts
<1>6. FramesSound'
  BY <1>0, <1>2, <1>5, CallMovesSilently, FramesKept
<1>7. f \in Frames /\ SoundFrame(f)
  BY <1>0, SentFrames DEF FramesSound
<1>8. /\ cache'[p] = Apply(cache[p], f)
      /\ \A q \in Players \ {p} : cache'[q] = cache[q]
  BY <1>0, <1>4, <1>7, TakeFacts
<1>9. CopiesSound'
  <2> SUFFICES ASSUME NEW q \in Players, cache'[q] # NoCache
               PROVE  /\ loaded' /\ cache'[q].revision <= revision'
                      /\ cache'[q].points = past'[cache'[q].revision]
    BY DEF CopiesSound
  <2>1. CASE q = p
    <3>1. cache[p] \in Copies \union {NoCache}
      BY <1>0 DEF TypeOK
    <3>2. cache[p] # NoCache => /\ loaded /\ cache[p].revision <= revision
                                /\ cache[p].points = past[cache[p].revision]
      BY <1>0 DEF CopiesSound
    <3>3. /\ loaded /\ cache'[p].revision <= revision
          /\ cache'[p].points = past[cache'[p].revision]
      BY <1>0, <1>7, <1>8, <2>1, <3>1, <3>2, ApplySound
    <3> QED BY <1>1, <2>1, <3>3 DEF catalogVars, settingVars
  <2>2. CASE q # p
    BY <1>0, <1>2, <1>8, <2>2, CopyKept
  <2> QED BY <2>1, <2>2
<1>10. PendingSound'
  BY <1>0, <1>1, <1>2, PendingKept
<1>11. History' /\ ServedIfLoaded'
  BY <1>0, <1>1 DEF History, ServedIfLoaded, settingVars, catalogVars
<1> QED BY <1>6, <1>9, <1>10, <1>11

LEMMA LoadStep ==
  ASSUME HubInv, Load
  PROVE  (History /\ ServedIfLoaded /\ FramesSound /\ PendingSound /\ CopiesSound)'
<1>0. TypeOK /\ History /\ ServedIfLoaded /\ FramesSound /\ PendingSound /\ CopiesSound
  BY DEF HubInv
<1>1. UNCHANGED <<hostVars, clientVars, pendingDeltas, calls>>
  BY <1>0, LoadFacts
<1>2. CASE loaded
  <2>1. loaded' /\ UNCHANGED catalogVars
    BY <1>0, <1>2, LoadFacts
  <2>2. GoesOn
    BY <1>0, <1>2, <2>1, Stays DEF TypeOK
  <2>3. \A u \in Threads, q \in Players : ToBeSent(calls'[u], q) \subseteq ToBeSent(calls[u], q)
    BY <1>1
  <2>4. FramesSound'
    BY <1>0, <2>2, <2>3, FramesKept
  <2>5. PendingSound' /\ CopiesSound'
    BY <1>0, <1>1, <2>2, PendingKept, CopiesKept DEF clientVars
  <2> QED BY <1>0, <2>1, <2>4, <2>5 DEF History, ServedIfLoaded, catalogVars
<1>3. CASE ~loaded
  <2>1. /\ revision' \in Revisions /\ points' \in Stamps /\ past'[revision'] = points'
        /\ enabled' => loaded'
    BY <1>0, <1>3, LoadFacts
  <2>2. \A p \in Players : cache[p] = NoCache
    BY <1>0, <1>3 DEF CopiesSound
  <2>3. DOMAIN pendingDeltas = {}
    BY <1>0, <1>3 DEF PendingSound, SoundDelta
  <2>4. FramesSound'
    <3> SUFFICES ASSUME NEW u \in Threads, NEW q \in Players, NEW f \in ToBeSent(calls'[u], q)
                 PROVE  SoundFrame(f)'
      BY DEF FramesSound
    <3>1. f \in ToBeSent(calls[u], q) /\ SoundFrame(f)
      BY <1>0, <1>1 DEF FramesSound
    <3>2. f.kind # "SNAPSHOT" /\ f.kind \notin {"UPSERT", "REMOVE"}
      BY <1>3, <3>1 DEF SoundFrame, SoundDelta
    <3> QED BY <3>2 DEF SoundFrame
  <2>5. PendingSound' /\ CopiesSound'
    BY <1>1, <2>2, <2>3 DEF PendingSound, CopiesSound, clientVars
  <2> QED BY <2>1, <2>4, <2>5 DEF History, ServedIfLoaded
<1> QED BY <1>2, <1>3

LEMMA HubStep ==
  ASSUME HubInv, [Next]_vars
  PROVE  HubInv'
<1>0. TypeOK /\ History /\ ServedIfLoaded /\ FramesSound /\ PendingSound /\ CopiesSound
  BY DEF HubInv
<1>t. TypeOK'
  BY <1>0, TypeStep
<1> DEFINE Rest == History /\ ServedIfLoaded /\ FramesSound /\ PendingSound /\ CopiesSound
<1> SUFFICES Rest'
  BY <1>t DEF HubInv
<1> HIDE DEF Rest
<1> USE DEF clientVars, settingVars
<1>1. ASSUME NEW t \in Threads, NEW p \in Players, NEW m \in Messages, Receive(t, p, m)
      PROVE  Rest'
  <2>1. /\ CallMoves(t) /\ \A q \in Players : ToBeSent(calls'[t], q) = {}
        /\ UNCHANGED <<catalogVars, settingVars, hostVars, clientVars,
                       refresh, pendingDeltas, sessions>>
    BY <1>0, <1>1, ReceiveFacts
  <2>2. \A u \in Threads, q \in Players : ToBeSent(calls'[u], q) \subseteq ToBeSent(calls[u], q)
    BY <2>1, CallMovesSilently
  <2> QED BY <2>1, <2>2, SilentStep DEF Rest
<1>2. ASSUME NEW t \in Threads, HandledQuietly(t)
      PROVE  Rest'
  <2>1. CallMoves(t) /\ UNCHANGED <<catalogVars, settingVars, clientVars, pendingDeltas>>
    BY <1>2 DEF HandledQuietly
  <2>2. GoesOn
    BY <1>0, <2>1, Stays
  <2>3. FramesSound'
    BY <1>0, <1>2, <2>1, <2>2, HandledFrames, FramesMoved
  <2> QED BY <2>1, <2>3, QuietStep DEF Rest
<1>3. ASSUME NEW t \in Threads, HandleApplied(t)
      PROVE  Rest'
  BY <1>3, AppliedStep DEF Rest
<1>4. ASSUME NEW t \in Threads, Tick(t)
      PROVE  Rest'
  BY <1>4, TickStep DEF Rest
<1>5. ASSUME NEW t \in Threads, LookUp(t)
      PROVE  Rest'
  <2>1. CallMoves(t) /\ \A q \in Players : ToBeSent(calls'[t], q) \subseteq ToBeSent(calls[t], q)
    BY <1>0, <1>5, LookUpFacts
  <2>2. \A u \in Threads, q \in Players : ToBeSent(calls'[u], q) \subseteq ToBeSent(calls[u], q)
    BY <2>1, CallMovesSilently
  <2>3. UNCHANGED <<catalogVars, settingVars, clientVars, pendingDeltas>>
    BY <1>5 DEF LookUp
  <2> QED BY <2>2, <2>3, SilentStep DEF Rest
<1>6. ASSUME NEW t \in Threads, Deliver(t)
      PROVE  Rest'
  BY <1>6, DeliverStep DEF Rest
<1>7. ASSUME NEW t \in Threads, BeginTick(t)
      PROVE  Rest'
  <2>1. /\ CallMoves(t) /\ \A q \in Players : ToBeSent(calls'[t], q) = {}
        /\ UNCHANGED <<catalogVars, settingVars, hostVars, clientVars,
                       refresh, pendingDeltas, sessions>>
    BY <1>0, <1>7, BeginTickFacts
  <2>2. \A u \in Threads, q \in Players : ToBeSent(calls'[u], q) \subseteq ToBeSent(calls[u], q)
    BY <2>1, CallMovesSilently
  <2> QED BY <2>1, <2>2, SilentStep DEF Rest
<1>8. ASSUME NEW t \in Threads, Clear(t)
      PROVE  Rest'
  <2>1. /\ GoesOn /\ PendingSound'
        /\ UNCHANGED <<settingVars, hostVars, clientVars, refresh, sessions, calls>>
    BY <1>0, <1>8, ClearFacts
  <2>2. FramesSound'
    BY <1>0, <2>1, FramesKept
  <2>3. CopiesSound'
    BY <1>0, <2>1, CopiesKept
  <2>4. History' /\ ServedIfLoaded'
    BY <1>0, <2>1 DEF History, ServedIfLoaded, GoesOn
  <2> QED BY <2>1, <2>2, <2>3, <2>4 DEF Rest
<1>9. ASSUME NEW t \in Threads, Reload(t)
      PROVE  Rest'
  <2>1. UNCHANGED <<catalogVars, loaded, enabled, clientVars, pendingDeltas, calls>>
    BY <1>9 DEF Reload
  <2> QED BY <2>1, SilentStep DEF Rest
<1>10. CASE Unload
  <2>1. UNCHANGED <<catalogVars, loaded, enabled, clientVars, pendingDeltas, calls>>
    BY <1>10 DEF Unload
  <2> QED BY <2>1, SilentStep DEF Rest
<1>11. CASE Load
  BY <1>11, LoadStep DEF Rest
<1>12. ASSUME NEW p \in Players, Join(p)
       PROVE  Rest'
  <2>1. UNCHANGED <<catalogVars, settingVars, clientVars, pendingDeltas, calls>>
    BY <1>12 DEF Join
  <2> QED BY <2>1, SilentStep DEF Rest
<1>13. ASSUME NEW t \in Threads, NEW p \in Players, Leave(t, p)
       PROVE  Rest'
  <2>1. /\ \A u \in Threads, q \in Players : ToBeSent(calls'[u], q) \subseteq ToBeSent(calls[u], q)
        /\ cache'[p] = NoCache /\ \A q \in Players \ {p} : cache'[q] = cache[q]
        /\ UNCHANGED <<catalogVars, settingVars, pendingDeltas>>
    BY <1>0, <1>13, LeaveFacts
  <2> QED BY <2>1, SilentStep DEF Rest
<1>14. ASSUME NEW p \in Players, ChangeLevel(p)
       PROVE  Rest'
  <2>1. UNCHANGED <<catalogVars, settingVars, clientVars, pendingDeltas, calls>>
    BY <1>14 DEF ChangeLevel
  <2> QED BY <2>1, SilentStep DEF Rest
<1>15. ASSUME NEW p \in Players, Refill(p)
       PROVE  Rest'
  <2>1. UNCHANGED <<catalogVars, settingVars, clientVars, pendingDeltas, calls>>
    BY <1>0, <1>15, RefillFacts
  <2> QED BY <2>1, SilentStep DEF Rest
<1>16. CASE UNCHANGED vars
  <2>1. UNCHANGED <<catalogVars, settingVars, clientVars, pendingDeltas, calls>>
    BY <1>16 DEF vars
  <2> QED BY <2>1, SilentStep DEF Rest
<1> QED
  BY <1>0, <1>1, <1>2, <1>3, <1>4, <1>5, <1>6, <1>7, <1>8, <1>9, <1>10, <1>11, <1>12, <1>13, <1>14,
     <1>15, <1>16, HandleFacts DEF Next, Proceed

\* Whatever calls overlap, every frame about to be sent, every delta that waits
\* for the tick and every client's copy says what the catalog said at the revision
\* it names (on_payload, on_tick and clear, which send after they let go of the lock).
THEOREM HubInvariant == Spec => []HubInv
<1>1. HubInv /\ [Next]_vars => HubInv'
  BY HubStep
<1> QED BY <1>1, InitHub, PTL DEF Spec

\* Every piece of the hub's state has the values the code can give it: no strike,
\* token or revision is out of range, and no call is left half described.
THEOREM HubTypes == Spec => []TypeOK
<1>1. HubInv => TypeOK
  BY DEF HubInv
<1> QED BY <1>1, HubInvariant, PTL

\* What a client makes of the frames it was sent is the catalog as it was at the
\* revision it names, in whatever order the host lets concurrent calls send
\* (on_payload and on_tick let go of the lock before they send).
THEOREM HubCopiesAreCatalogs == Spec => []CopiesAreCatalogs
<1>1. HubInv => CopiesAreCatalogs
  BY DEF HubInv, CopiesSound, CopiesAreCatalogs
<1> QED BY <1>1, HubInvariant, PTL

(***************************************************************************)
(* A mute lasts.                                                           *)
(***************************************************************************)
\* What a step can make of a session.
SessionMoves(p) ==
  \/ sessions'[p] = sessions[p]
  \/ /\ sessions[p] \in SessionRecords /\ sessions'[p] \in SessionRecords
     /\ SameTerms(sessions'[p], sessions[p])
  \/ sessions[p] \in SessionRecords /\ sessions'[p] = Struck(sessions[p])
  \/ /\ Has(p) => ~sessions[p].muted
     /\ sessions'[p] \in SessionRecords /\ ~sessions'[p].muted
  \/ sessions'[p] = NoSession /\ (p \notin online' \/ ~running')

LEMMA SessionStep ==
  ASSUME TypeOK, [Next]_vars, NEW p \in Players
  PROVE  SessionMoves(p)
<1>1. ASSUME NEW t \in Threads, HandledQuietly(t)
      PROVE  SessionMoves(p)
  <2>1. CASE p # calls[t].from
    BY <1>1, <2>1 DEF HandledQuietly, SessionMoves
  <2>2. CASE p = calls[t].from
    <3>1. Has(p) <=> sessions[p] \in SessionRecords
      BY SessionFacts
    <3>2. CASE StruckOnly(t, p)
      BY <3>1, <3>2 DEF StruckOnly, SessionMoves
    <3>3. CASE TurnedAway(t, p)
      BY <3>3 DEF TurnedAway, SessionMoves
    <3>4. CASE GreetedBack(t, p)
      BY <3>4 DEF GreetedBack, SessionMoves
    <3>5. CASE Answered(t, p) \/ GivenSnapshot(t, p)
      BY <3>1, <3>5 DEF Answered, GivenSnapshot, SessionMoves, Compatible
    <3> QED BY <1>1, <2>2, <3>2, <3>3, <3>4, <3>5 DEF HandledQuietly
  <2> QED BY <2>1, <2>2
<1>2. ASSUME NEW t \in Threads, Tick(t)
      PROVE  SessionMoves(p)
  BY <1>2, TickSessions, SessionFacts DEF SessionMoves
<1>3. CASE Unload
  BY <1>3 DEF Unload, SessionMoves
<1>4. CASE Load
  <2>1. sessions' = sessions \/ sessions' = Unsubscribed
    BY <1>4, LoadFacts
  <2>2. CASE sessions' = sessions
    BY <2>2 DEF SessionMoves
  <2>3. CASE sessions' = Unsubscribed
    <3>1. CASE Has(p)
      BY <2>3, <3>1, UnsubscribedFacts, SessionFacts DEF SessionMoves
    <3>2. CASE ~Has(p)
      BY <2>3, <3>2, UnsubscribedFacts DEF SessionMoves, Has
    <3> QED BY <3>1, <3>2
  <2> QED BY <2>1, <2>2, <2>3
<1>5. ASSUME NEW t \in Threads, NEW q \in Players, Leave(t, q)
      PROVE  SessionMoves(p)
  BY <1>5, LeaveFacts DEF SessionMoves
<1>6. ASSUME NEW q \in Players, Refill(q)
      PROVE  SessionMoves(p)
  BY <1>6, RefillFacts, SessionFacts DEF SessionMoves
<1>7. CASE UNCHANGED sessions
  BY <1>7 DEF SessionMoves
<1>8. ASSUME NEW t \in Threads,
             Clear(t) \/ Reload(t) \/ BeginTick(t) \/ LookUp(t) \/ Deliver(t) \/ HandleApplied(t)
      PROVE  SessionMoves(p)
  <2>1. UNCHANGED sessions
    BY <1>8 DEF Clear, Reload, BeginTick, LookUp, Deliver, HandleApplied
  <2> QED BY <1>7, <2>1
<1>9. ASSUME NEW t \in Threads, NEW q \in Players, NEW m \in Messages,
             Receive(t, q, m) \/ Join(q) \/ ChangeLevel(q)
      PROVE  SessionMoves(p)
  <2>1. UNCHANGED sessions
    BY <1>9 DEF Receive, Join, ChangeLevel
  <2> QED BY <1>7, <2>1
<1>10. ASSUME NEW q \in Players, Join(q) \/ ChangeLevel(q)
       PROVE  SessionMoves(p)
  <2>1. UNCHANGED sessions
    BY <1>10 DEF Join, ChangeLevel
  <2> QED BY <1>7, <2>1
<1>11. CASE UNCHANGED vars
  BY <1>7, <1>11 DEF vars
<1> QED
  BY <1>1, <1>2, <1>3, <1>4, <1>5, <1>6, <1>8, <1>9, <1>10, <1>11, HandleFacts DEF Next, Proceed

LEMMA MutesStep ==
  ASSUME TypeOK, MutesCounted, [Next]_vars
  PROVE  /\ MutesCounted'
         /\ \A p \in Players : (Has(p) /\ sessions[p].muted) =>
              \/ sessions'[p] # NoSession /\ sessions'[p].muted
              \/ p \notin online' \/ ~running'
<1> SUFFICES ASSUME NEW p \in Players
             PROVE  /\ Has(p)' /\ sessions'[p].muted => sessions'[p].strikes = MaxStrikes
                    /\ Has(p) /\ sessions[p].muted =>
                         \/ sessions'[p] # NoSession /\ sessions'[p].muted
                         \/ p \notin online' \/ ~running'
  BY DEF MutesCounted
<1>0. /\ Has(p) /\ sessions[p].muted => sessions[p].strikes = MaxStrikes
      /\ Has(p) <=> sessions[p] \in SessionRecords
      /\ NoSession \notin SessionRecords
  BY SessionFacts, HubNulls DEF MutesCounted
<1>1. CASE sessions'[p] = sessions[p]
  BY <1>0, <1>1 DEF Has
<1>2. CASE /\ sessions[p] \in SessionRecords /\ sessions'[p] \in SessionRecords
           /\ SameTerms(sessions'[p], sessions[p])
  BY <1>0, <1>2 DEF SameTerms, Has
<1>3. CASE sessions[p] \in SessionRecords /\ sessions'[p] = Struck(sessions[p])
  <2>1. /\ Struck(sessions[p]) \in SessionRecords
        /\ Struck(sessions[p]).muted => Struck(sessions[p]).strikes = MaxStrikes
        /\ sessions[p].muted /\ sessions[p].strikes = MaxStrikes => Struck(sessions[p]).muted
    BY <1>3, StruckFacts
  <2> QED BY <1>0, <1>3, <2>1 DEF Has
<1>4. CASE /\ Has(p) => ~sessions[p].muted
           /\ sessions'[p] \in SessionRecords /\ ~sessions'[p].muted
  BY <1>4
<1>5. CASE sessions'[p] = NoSession /\ (p \notin online' \/ ~running')
  BY <1>5 DEF Has
<1> QED BY <1>1, <1>2, <1>3, <1>4, <1>5, SessionStep DEF SessionMoves

\* A connection that used up its strikes stays muted until it closes or the plugin
\* is unloaded: a HELLO, a tick and a reload lift nothing (record_malformed).
THEOREM HubMutedUntilDisconnect == Spec => MutedUntilDisconnect
<1> DEFINE A == \A p \in Players : (Has(p) /\ sessions[p].muted) =>
                  \/ sessions'[p] # NoSession /\ sessions'[p].muted
                  \/ p \notin online' \/ ~running'
<1>1. Init => MutesCounted
  BY DEF Init, MutesCounted, Has
<1>2. TypeOK /\ MutesCounted /\ [Next]_vars => MutesCounted' /\ [A]_vars
  BY MutesStep
<1>3. MutedUntilDisconnect <=> [][A]_vars
  BY DEF MutedUntilDisconnect
<1> HIDE DEF A
<1> QED BY <1>1, <1>2, <1>3, HubTypes, PTL DEF Spec

(***************************************************************************)
(* One call at a time.                                                     *)
(***************************************************************************)
\* With one call at a time, two calls are the same call.
LEMMA OneThread ==
  ASSUME OneCall
  PROVE  \A t, u \in Threads : t = u
<1>1. \E t : Threads = {t}
  BY HubThreadsFinite, FS_Singleton DEF OneCall
<1> QED BY <1>1

SameSession(p) ==
  /\ Has(p)' <=> Has(p)
  /\ Has(p) => /\ SameTerms(sessions'[p], sessions[p])
               /\ sessions'[p].subscribed = sessions[p].subscribed

LEMMA SameSessionFacts ==
  ASSUME NEW p \in Players, SameSession(p)
  PROVE  /\ Compatible(p)' <=> Compatible(p)
         /\ MinorOf(p)' = MinorOf(p)
         /\ p \in Subscribers' <=> p \in Subscribers
         /\ ToldItsMinor(p) /\ told'[p] = told[p] /\ Compatible(p) => ToldItsMinor(p)'
         /\ \A f : FrameAgreed(p, f) /\ revision' = revision => FrameAgreed(p, f)'
<1>1. Compatible(p)' <=> Compatible(p)
  BY DEF SameSession, SameTerms, Compatible, Has
<1>2. MinorOf(p)' = MinorOf(p)
  BY <1>1 DEF SameSession, SameTerms, MinorOf, Compatible
<1>3. p \in Subscribers' <=> p \in Subscribers
  BY <1>1 DEF SameSession, Subscribers, Compatible
<1>4. ToldItsMinor(p) /\ told'[p] = told[p] /\ Compatible(p) => ToldItsMinor(p)'
  BY DEF SameSession, SameTerms, ToldItsMinor, Compatible
<1>5. \A f : FrameAgreed(p, f) /\ revision' = revision => FrameAgreed(p, f)'
  BY <1>1, <1>2 DEF FrameAgreed, SameSession, SameTerms
<1> QED BY <1>1, <1>2, <1>3, <1>4, <1>5

\* Nothing is sent and nobody's terms change.
LEMMA OrderlyQuiet ==
  ASSUME TypeOK, TypeOK', NEW t \in Threads, Orderly(t),
         \A p \in Players : SameSession(p),
         UNCHANGED <<told, cache, revision, pendingDeltas, running>>, online \subseteq online',
         calls'[t] = calls[t]
  PROVE  Orderly(t)'
<1>1. CallKnown(t)'
  <2>1. calls'[t] \in ReceivedCalls =>
          calls'[t].handles = {calls'[t].from} /\ calls'[t].from \in online'
    BY DEF Orderly, CallKnown
  <2>2. calls'[t] \in TickingCalls => \A p \in Players : Has(p)' => p \in calls'[t].handles
    BY DEF Orderly, CallKnown, SameSession
  <2>3. calls'[t] # Idle => running'
    BY DEF Orderly, CallKnown
  <2> QED BY <2>1, <2>2, <2>3 DEF CallKnown
<1>2. SessionsConnected'
  BY DEF Orderly, SessionsConnected, SameSession
<1>3. FramesAgreed(t)'
  BY SameSessionFacts DEF Orderly, FramesAgreed
<1>4. ToldOrAboutTo(t)'
  <2> SUFFICES ASSUME NEW p \in Players, Compatible(p)'
               PROVE  \/ ToldItsMinor(p)'
                      \/ /\ ToBeSent(calls'[t], p) # {}
                         /\ \A f \in ToBeSent(calls'[t], p) : f.kind = "STATUS"
    BY DEF ToldOrAboutTo
  <2>1. Compatible(p)
    BY SameSessionFacts
  <2> QED BY <2>1, SameSessionFacts DEF Orderly, ToldOrAboutTo
<1>5. CopiesFollow(t)'
  <2> SUFFICES ASSUME NEW p \in Subscribers', cache'[p] # NoCache
               PROVE  cache'[p].revision = revision' \/ StillToCome(t, p)'
    BY DEF CopiesFollow
  <2>1. p \in Subscribers
    BY SameSessionFacts DEF Subscribers
  <2>2. StillToCome(t, p)' <=> StillToCome(t, p)
    BY DEF StillToCome
  <2> QED BY <2>1, <2>2 DEF Orderly, CopiesFollow
<1> QED BY <1>1, <1>2, <1>3, <1>4, <1>5 DEF Orderly

\* A call with nothing to send begins.
LEMMA OrderlyBegins ==
  ASSUME TypeOK, TypeOK', NEW t \in Threads, Orderly(t),
         UNCHANGED <<sessions, told, cache, revision, pendingDeltas, running, online>>,
         calls[t] = Idle, CallKnown(t)', \A q \in Players : ToBeSent(calls'[t], q) = {}
  PROVE  Orderly(t)'
<1>0. \A q \in Players : SameSession(q) /\ ToBeSent(calls[t], q) = {}
  BY DEF SameSession, Has, SameTerms, ToBeSent
<1>1. SessionsConnected'
  BY DEF Orderly, SessionsConnected, Has
<1>2. FramesAgreed(t)'
  BY DEF FramesAgreed
<1>3. ToldOrAboutTo(t)'
  BY <1>0, SameSessionFacts DEF Orderly, ToldOrAboutTo
<1>4. CopiesFollow(t)'
  <2> SUFFICES ASSUME NEW p \in Subscribers', cache'[p] # NoCache
               PROVE  cache'[p].revision = revision' \/ StillToCome(t, p)'
    BY DEF CopiesFollow
  <2>1. p \in Subscribers /\ p \in Players
    BY <1>0, SameSessionFacts DEF Subscribers
  <2>2. StillToCome(t, p) => StillToCome(t, p)'
    BY <1>0, <2>1 DEF StillToCome
  <2> QED BY <2>1, <2>2 DEF Orderly, CopiesFollow
<1> QED BY <1>1, <1>2, <1>3, <1>4 DEF Orderly

\* Before a call sends, everyone knows the minor agreed on.
LEMMA AllTold ==
  ASSUME TypeOK, NEW t \in Threads, Orderly(t), calls[t] \notin SendingCalls
  PROVE  /\ \A q \in Players : ToBeSent(calls[t], q) = {}
         /\ \A q \in Players : Compatible(q) => ToldItsMinor(q)
         /\ \A q \in Subscribers : cache[q] # NoCache =>
              \/ cache[q].revision = revision
              \/ \E n \in DOMAIN pendingDeltas : pendingDeltas[n].revision = revision
<1>1. \A q \in Players : ToBeSent(calls[t], q) = {}
  BY ToBeSentFacts DEF TypeOK
<1>2. \A q \in Subscribers : q \in Players
  BY DEF Subscribers
<1> QED BY <1>1, <1>2 DEF Orderly, ToldOrAboutTo, CopiesFollow, StillToCome

LEMMA NotReceived ==
  ASSUME NEW c \in SendingCalls \union {Idle}
  PROVE  c \notin ReceivedCalls /\ c \notin TickingCalls
<1>1. Idle \notin ReceivedCalls /\ Idle \notin TickingCalls
  BY HubNulls DEF Calls
<1>2. \A d \in SendingCalls : d \notin ReceivedCalls /\ d \notin TickingCalls
  BY DEF SendingCalls, ReceivedCalls, TickingCalls
<1> QED BY <1>1, <1>2

LEMMA CallKnownAfter ==
  ASSUME NEW t \in Threads, calls'[t] \in SendingCalls \union {Idle}, running'
  PROVE  CallKnown(t)'
BY NotReceived DEF CallKnown

\* A strike takes nothing from the terms, unless it mutes.
LEMMA StruckTerms ==
  ASSUME TypeOK, MutesCounted, NEW p \in Players, Has(p), sessions'[p] = Struck(sessions[p])
  PROVE  /\ Has(p)'
         /\ Compatible(p)' => /\ Compatible(p) /\ sessions'[p].minor = sessions[p].minor
                              /\ sessions'[p].subscribed = sessions[p].subscribed
<1>1. sessions[p] \in SessionRecords
  BY SessionFacts
<1>2. /\ Struck(sessions[p]) \in SessionRecords
      /\ sessions[p].muted => Struck(sessions[p]).muted
      /\ Struck(sessions[p]).compatible = sessions[p].compatible
      /\ Struck(sessions[p]).minor = sessions[p].minor
      /\ Struck(sessions[p]).subscribed = sessions[p].subscribed
  BY <1>1, StruckFacts DEF MutesCounted
<1> QED BY <1>2, HubNulls DEF Has, Compatible

\* The terms of a greeted session and the minor of the status agree.
LEMMA GreetedTerms ==
  ASSUME TypeOK', NEW p \in Players, sessions'[p] \in SessionRecords, ~sessions'[p].muted
  PROVE  Has(p)' /\ MinorOf(p)' = IF sessions'[p].compatible THEN sessions'[p].minor ELSE 0
BY HubNulls DEF Has, MinorOf, Compatible

LEMMA SameTermsSession ==
  ASSUME TypeOK, TypeOK', NEW p \in Players, Compatible(p), sessions'[p] \in SessionRecords,
         SameTerms(sessions'[p], sessions[p])
  PROVE  /\ Has(p)' /\ Compatible(p)' /\ MinorOf(p)' = MinorOf(p)
         /\ ToldItsMinor(p) /\ told'[p] = told[p] => ToldItsMinor(p)'
BY HubNulls DEF Has, Compatible, MinorOf, SameTerms, ToldItsMinor

LEMMA OrderlyHandled ==
  ASSUME TypeOK, TypeOK', MutesCounted, NEW t \in Threads, Orderly(t), HandledQuietly(t)
  PROVE  Orderly(t)'
<1>0. calls[t] \in ReceivedCalls
  BY DEF HandledQuietly
<1>00. calls[t].from \in Players
  BY <1>0 DEF ReceivedCalls
<1> PICK p \in Players : p = calls[t].from
  BY <1>00
<1>1. /\ calls[t] \in ReceivedCalls /\ calls'[t] \in SendingCalls \union {Idle}
      /\ \A q \in Players \ {p} : ToBeSent(calls'[t], q) = {} /\ sessions'[q] = sessions[q]
      /\ UNCHANGED <<revision, online, running, told, cache, pendingDeltas>>
  BY DEF HandledQuietly, catalogVars, settingVars, hostVars, clientVars
<1>2. p \in Players /\ calls[t].handles = {p} /\ p \in online /\ running
  <2>1. calls[t] # Idle
    BY <1>1, HubNulls DEF Calls
  <2> QED BY <1>1, <2>1 DEF Orderly, CallKnown, ReceivedCalls
<1>3. /\ \A q \in Players : Compatible(q) => ToldItsMinor(q)
      /\ \A q \in Subscribers : cache[q] # NoCache =>
           \/ cache[q].revision = revision
           \/ \E n \in DOMAIN pendingDeltas : pendingDeltas[n].revision = revision
  <2>1. calls[t] \notin SendingCalls
    BY <1>1 DEF ReceivedCalls, SendingCalls
  <2> QED BY <2>1, AllTold
<1>4. \A q \in Players \ {p} : SameSession(q)
  BY <1>1 DEF SameSession, Has, SameTerms
<1>5. CallKnown(t)'
  BY <1>1, <1>2, CallKnownAfter
<1>6. SessionsConnected'
  BY <1>1, <1>2 DEF Orderly, SessionsConnected, Has
<1> DEFINE Agreed == \A f \in ToBeSent(calls'[t], p) : FrameAgreed(p, f)'
           Told == Compatible(p)' =>
                     \/ ToldItsMinor(p)'
                     \/ /\ ToBeSent(calls'[t], p) # {}
                        /\ \A f \in ToBeSent(calls'[t], p) : f.kind = "STATUS"
           Follows == p \in Subscribers' /\ cache[p] # NoCache =>
                        cache[p].revision = revision \/ StillToCome(t, p)'
<1>7. (\E n \in DOMAIN pendingDeltas : pendingDeltas[n].revision = revision) =>
        StillToCome(t, p)' /\ \A q \in Players : StillToCome(t, q)'
  BY <1>1, <1>2 DEF StillToCome
<1>8. Agreed /\ Told /\ Follows
  <2>1. CASE StruckOnly(t, p)
    <3>1. Agreed
      BY <2>1 DEF StruckOnly
    <3>2. CASE Has(p)
      <4>1. Compatible(p)' => /\ Compatible(p) /\ sessions'[p].minor = sessions[p].minor
                              /\ sessions'[p].subscribed = sessions[p].subscribed
        BY <1>2, <2>1, <3>2, StruckTerms DEF StruckOnly
      <4>2. Told
        BY <1>1, <1>2, <1>3, <4>1 DEF ToldItsMinor
      <4>3. p \in Subscribers' => p \in Subscribers
        BY <1>2, <4>1 DEF Subscribers
      <4> QED BY <1>3, <1>7, <3>1, <4>2, <4>3
    <3>3. CASE ~Has(p)
      <4>1. SameSession(p)
        BY <2>1, <3>3 DEF StruckOnly, SameSession, Has
      <4>2. Told
        BY <1>1, <1>2, <1>3, <4>1, SameSessionFacts
      <4>3. p \in Subscribers' => p \in Subscribers
        BY <1>2, <4>1, SameSessionFacts
      <4> QED BY <1>3, <1>7, <3>1, <4>2, <4>3
    <3> QED BY <3>2, <3>3
  <2>2. CASE TurnedAway(t, p)
    <3>1. SameSession(p)
      BY <2>2 DEF TurnedAway, SameSession, Has, SameTerms
    <3>2. Told
      BY <1>1, <1>2, <1>3, <3>1, SameSessionFacts
    <3>3. p \in Subscribers' => p \in Subscribers
      BY <1>2, <3>1, SameSessionFacts
    <3> QED BY <1>3, <1>7, <2>2, <3>2, <3>3 DEF TurnedAway
  <2>3. CASE GreetedBack(t, p)
    <3>1. /\ sessions'[p] \in SessionRecords /\ ~sessions'[p].muted /\ ~sessions'[p].subscribed
          /\ \A f \in ToBeSent(calls'[t], p) :
               f.kind = "STATUS" /\ f.minor = IF sessions'[p].compatible THEN sessions'[p].minor ELSE 0
          /\ ToBeSent(calls'[t], p) # {}
      BY <1>2, <2>3 DEF GreetedBack
    <3>2. Has(p)' /\ MinorOf(p)' = IF sessions'[p].compatible THEN sessions'[p].minor ELSE 0
      BY <1>2, <3>1, GreetedTerms
    <3>3. Agreed
      BY <3>1, <3>2 DEF FrameAgreed
    <3>4. Told
      BY <3>1
    <3>5. p \notin Subscribers'
      BY <3>1 DEF Subscribers
    <3> QED BY <3>3, <3>4, <3>5
  <2>4. CASE Answered(t, p)
    <3>1. /\ Compatible(p) /\ sessions'[p] \in SessionRecords /\ SameTerms(sessions'[p], sessions[p])
          /\ sessions'[p].subscribed = sessions[p].subscribed
          /\ \A f \in ToBeSent(calls'[t], p) :
               f.kind \in {"STATUS", "RESULT"} /\ f.minor = MinorOf(p)
      BY <2>4 DEF Answered
    <3>2. Has(p)' /\ Compatible(p)' /\ MinorOf(p)' = MinorOf(p) /\ ToldItsMinor(p)'
      BY <1>1, <1>2, <1>3, <3>1, SameTermsSession
    <3>3. Agreed
      BY <3>1, <3>2 DEF FrameAgreed, Compatible
    <3>4. p \in Subscribers' => p \in Subscribers
      BY <1>2, <3>1 DEF Subscribers
    <3> QED BY <1>3, <1>7, <3>2, <3>3, <3>4
  <2>5. CASE GivenSnapshot(t, p)
    <3>1. /\ Compatible(p) /\ sessions'[p] \in SessionRecords /\ SameTerms(sessions'[p], sessions[p])
          /\ sessions'[p].subscribed = enabled
          /\ \A f \in ToBeSent(calls'[t], p) :
               /\ f.minor = MinorOf(p)
               /\ IF enabled THEN f.kind = "SNAPSHOT" /\ f.revision = revision ELSE f.kind = "STATUS"
          /\ ToBeSent(calls'[t], p) # {}
      BY <1>2, <2>5 DEF GivenSnapshot
    <3>2. Has(p)' /\ Compatible(p)' /\ MinorOf(p)' = MinorOf(p) /\ ToldItsMinor(p)'
      BY <1>1, <1>2, <1>3, <3>1, SameTermsSession
    <3>3. Agreed
      BY <1>1, <3>1, <3>2 DEF FrameAgreed, Compatible
    <3>4. Follows
      BY <1>1, <3>1 DEF Subscribers, StillToCome
    <3> QED BY <3>2, <3>3, <3>4
  <2> QED BY <2>1, <2>2, <2>3, <2>4, <2>5 DEF HandledQuietly
<1> HIDE DEF Agreed, Told, Follows
<1>9. FramesAgreed(t)'
  BY <1>1, <1>8 DEF FramesAgreed, Agreed
<1>10. ToldOrAboutTo(t)'
  <2> SUFFICES ASSUME NEW q \in Players, Compatible(q)'
               PROVE  \/ ToldItsMinor(q)'
                      \/ /\ ToBeSent(calls'[t], q) # {}
                         /\ \A f \in ToBeSent(calls'[t], q) : f.kind = "STATUS"
    BY DEF ToldOrAboutTo
  <2>1. CASE q = p
    BY <1>8, <2>1 DEF Told
  <2>2. CASE q # p
    BY <1>1, <1>3, <1>4, <2>2, SameSessionFacts
  <2> QED BY <2>1, <2>2
<1>11. CopiesFollow(t)'
  <2> SUFFICES ASSUME NEW q \in Subscribers', cache'[q] # NoCache
               PROVE  cache'[q].revision = revision' \/ StillToCome(t, q)'
    BY DEF CopiesFollow
  <2>0. q \in Players
    BY DEF Subscribers
  <2>1. CASE q = p
    BY <1>1, <1>8, <2>1 DEF Follows
  <2>2. CASE q # p
    <3>1. q \in Subscribers
      BY <1>4, <2>0, <2>2, SameSessionFacts
    <3> QED BY <1>1, <1>3, <1>7, <2>0, <3>1
  <2> QED BY <2>1, <2>2
<1> QED BY <1>5, <1>6, <1>9, <1>10, <1>11 DEF Orderly

\* A call that changes the catalog tells its author the result and every
\* subscriber the delta.
LEMMA OrderlyApplied ==
  ASSUME TypeOK, TypeOK', NEW t \in Threads, Orderly(t), HandleApplied(t)
  PROVE  Orderly(t)'
<1>1. /\ UNCHANGED <<online, running, told, cache, pendingDeltas, sessions>>
      /\ revision' = revision + 1 /\ Compatible(calls[t].from)
  BY DEF HandleApplied, settingVars, hostVars, clientVars
<1>2. PICK i \in WaypointIds, kind \in {"UPSERT", "REMOVE"} :
        /\ \A q \in Players : \A f \in ToBeSent(calls'[t], q) :
             \/ q = calls[t].from /\ f = ResultFrame(MinorOf(q))
             \/ q \in Subscribers /\ f = DeltaFrame(kind, MinorOf(q), i, revision + 1)
        /\ \A q \in Subscribers :
             DeltaFrame(kind, MinorOf(q), i, revision + 1) \in ToBeSent(calls'[t], q)
  BY AppliedFacts
<1>3. calls[t] \in ReceivedCalls /\ calls'[t] \in SendingCalls \union {Idle} /\ running
  <2>1. calls[t] \in ReceivedCalls /\ calls'[t] \in SendingCalls \union {Idle}
    BY AppliedFacts
  <2> QED BY <2>1, HubNulls DEF Orderly, CallKnown, Calls
<1>4. \A q \in Players : Compatible(q) => ToldItsMinor(q)
  <2>1. calls[t] \notin SendingCalls
    BY <1>3 DEF ReceivedCalls, SendingCalls
  <2> QED BY <2>1, AllTold
<1>5. \A q \in Players : SameSession(q)
  BY <1>1 DEF SameSession, Has, SameTerms
<1>6. CallKnown(t)'
  BY <1>1, <1>3, CallKnownAfter
<1>7. SessionsConnected'
  BY <1>1 DEF Orderly, SessionsConnected, Has
<1>8. FramesAgreed(t)'
  <2> SUFFICES ASSUME NEW q \in Players, NEW f \in ToBeSent(calls'[t], q)
               PROVE  FrameAgreed(q, f)'
    BY DEF FramesAgreed
  <2>1. /\ Has(q)' <=> Has(q)
        /\ Compatible(q)' <=> Compatible(q)
        /\ MinorOf(q)' = MinorOf(q)
    BY <1>5, SameSessionFacts DEF SameSession
  <2>2. sessions'[q] = sessions[q]
    BY <1>1
  <2>3. CASE q = calls[t].from /\ f = ResultFrame(MinorOf(q))
    BY <1>1, <2>1, <2>2, <2>3 DEF FrameAgreed, ResultFrame, Compatible
  <2>4. CASE q \in Subscribers /\ f = DeltaFrame(kind, MinorOf(q), i, revision + 1)
    BY <2>1, <2>2, <2>4 DEF FrameAgreed, DeltaFrame, Compatible, Subscribers
  <2> QED BY <1>2, <2>3, <2>4
<1>9. ToldOrAboutTo(t)'
  BY <1>1, <1>4, <1>5, SameSessionFacts DEF ToldOrAboutTo
<1>10. CopiesFollow(t)'
  <2> SUFFICES ASSUME NEW q \in Subscribers' PROVE StillToCome(t, q)'
    BY DEF CopiesFollow
  <2>1. q \in Subscribers
    BY <1>5, SameSessionFacts DEF Subscribers
  <2> DEFINE f == DeltaFrame(kind, MinorOf(q), i, revision + 1)
  <2>2. f \in ToBeSent(calls'[t], q) /\ f.kind = kind /\ f.revision = revision'
    BY <1>1, <1>2, <2>1 DEF DeltaFrame
  <2> HIDE DEF f
  <2> QED BY <2>2 DEF StillToCome
<1> QED BY <1>6, <1>7, <1>8, <1>9, <1>10 DEF Orderly

\* The tick sends what the wipes left to send, to everyone it holds a handle of.
LEMMA OrderlyTick ==
  ASSUME TypeOK, TypeOK', NEW t \in Threads, Orderly(t), Tick(t)
  PROVE  Orderly(t)'
<1>1. /\ UNCHANGED <<online, running, told, cache, revision, loaded>>
      /\ \A q \in Players : ~Has(q) => sessions'[q] = sessions[q]
      /\ \A q \in Players : Has(q) =>
           /\ sessions'[q] \in SessionRecords /\ SameTerms(sessions'[q], sessions[q])
           /\ sessions'[q].subscribed = sessions[q].subscribed
  BY TickSessions DEF catalogVars, settingVars, hostVars, clientVars
<1>2. /\ calls[t] \in TickingCalls /\ calls'[t] \in SendingCalls \union {Idle}
      /\ \A q \in Players : \A f \in ToBeSent(calls'[t], q) :
           \/ /\ Compatible(q)
              /\ \E operator \in BOOLEAN : f = StatusFrame(operator, MinorOf(q), loaded)
           \/ /\ q \in Subscribers
              /\ \E n \in DOMAIN pendingDeltas :
                   f = DeltaFrame("REMOVE", MinorOf(q), pendingDeltas[n].id,
                                  pendingDeltas[n].revision)
      /\ \A q \in Subscribers \intersect calls[t].handles, n \in DOMAIN pendingDeltas :
           DeltaFrame("REMOVE", MinorOf(q), pendingDeltas[n].id, pendingDeltas[n].revision)
             \in ToBeSent(calls'[t], q)
  BY TickFacts
<1>3. calls[t] # Idle /\ running /\ \A q \in Players : Has(q) => q \in calls[t].handles
  BY <1>2, HubNulls DEF Orderly, CallKnown, Calls
<1>4. /\ \A q \in Players : Compatible(q) => ToldItsMinor(q)
      /\ \A q \in Subscribers : cache[q] # NoCache =>
           \/ cache[q].revision = revision
           \/ \E n \in DOMAIN pendingDeltas : pendingDeltas[n].revision = revision
  <2>1. calls[t] \notin SendingCalls
    BY <1>2 DEF TickingCalls, SendingCalls
  <2> QED BY <2>1, AllTold
<1>5. \A q \in Players : SameSession(q)
  BY <1>1, HubNulls DEF SameSession, Has
<1>6. CallKnown(t)'
  BY <1>1, <1>2, <1>3, CallKnownAfter
<1>7. SessionsConnected'
  BY <1>1, <1>5 DEF Orderly, SessionsConnected, SameSession
<1>8. FramesAgreed(t)'
  <2> SUFFICES ASSUME NEW q \in Players, NEW f \in ToBeSent(calls'[t], q)
               PROVE  FrameAgreed(q, f)'
    BY DEF FramesAgreed
  <2>1. CASE Compatible(q) /\ \E operator \in BOOLEAN : f = StatusFrame(operator, MinorOf(q), loaded)
    <3>1. FrameAgreed(q, f)
      BY <2>1 DEF FrameAgreed, StatusFrame, Compatible
    <3> QED BY <1>1, <1>5, <3>1, SameSessionFacts
  <2>2. CASE /\ q \in Subscribers
             /\ \E n \in DOMAIN pendingDeltas :
                  f = DeltaFrame("REMOVE", MinorOf(q), pendingDeltas[n].id,
                                 pendingDeltas[n].revision)
    <3>1. FrameAgreed(q, f)
      BY <2>2 DEF FrameAgreed, DeltaFrame, Compatible, Subscribers
    <3> QED BY <1>1, <1>5, <3>1, SameSessionFacts
  <2> QED BY <1>2, <2>1, <2>2
<1>9. ToldOrAboutTo(t)'
  BY <1>1, <1>4, <1>5, SameSessionFacts DEF ToldOrAboutTo
<1>10. CopiesFollow(t)'
  <2> SUFFICES ASSUME NEW q \in Subscribers', cache'[q] # NoCache
               PROVE  cache'[q].revision = revision' \/ StillToCome(t, q)'
    BY DEF CopiesFollow
  <2>1. q \in Subscribers /\ q \in calls[t].handles
    BY <1>3, <1>5, SameSessionFacts DEF Subscribers, Compatible
  <2>2. CASE cache[q].revision = revision
    BY <1>1, <2>2
  <2>3. ASSUME NEW n \in DOMAIN pendingDeltas, pendingDeltas[n].revision = revision
        PROVE  StillToCome(t, q)'
    <3> DEFINE f == DeltaFrame("REMOVE", MinorOf(q), pendingDeltas[n].id,
                               pendingDeltas[n].revision)
    <3>1. f \in ToBeSent(calls'[t], q) /\ f.kind = "REMOVE" /\ f.revision = revision'
      BY <1>1, <1>2, <2>1, <2>3 DEF DeltaFrame
    <3> HIDE DEF f
    <3> QED BY <3>1 DEF StillToCome
  <2> QED BY <1>1, <1>4, <2>1, <2>2, <2>3
<1> QED BY <1>6, <1>7, <1>8, <1>9, <1>10 DEF Orderly

\* Whoever has a session is online: the broadcast passes nobody over.
LEMMA OrderlyLookUp ==
  ASSUME TypeOK, TypeOK', NEW t \in Threads, Orderly(t), LookUp(t)
  PROVE  Orderly(t)'
<1>1. UNCHANGED <<online, running, told, cache, revision, pendingDeltas, sessions>>
  BY DEF LookUp, catalogVars, settingVars, hostVars, clientVars
<1>2. /\ calls[t] \in SendingCalls /\ calls'[t] \in SendingCalls \union {Idle}
      /\ \A q \in Players :
           ToBeSent(calls'[t], q) = IF q \in online THEN ToBeSent(calls[t], q) ELSE {}
  BY LookUpFacts
<1>3. running
  BY <1>2, HubNulls DEF Orderly, CallKnown, Calls
<1>4. \A q \in Players : Has(q) => ToBeSent(calls'[t], q) = ToBeSent(calls[t], q)
  BY <1>2 DEF Orderly, SessionsConnected
<1>5. \A q \in Players : SameSession(q)
  BY <1>1 DEF SameSession, Has, SameTerms
<1>6. CallKnown(t)'
  BY <1>1, <1>2, <1>3, CallKnownAfter
<1>7. SessionsConnected'
  BY <1>1 DEF Orderly, SessionsConnected, Has
<1>8. FramesAgreed(t)'
  <2> SUFFICES ASSUME NEW q \in Players, NEW f \in ToBeSent(calls'[t], q)
               PROVE  FrameAgreed(q, f)'
    BY DEF FramesAgreed
  <2>1. FrameAgreed(q, f)
    BY <1>2 DEF Orderly, FramesAgreed
  <2> QED BY <1>1, <1>5, <2>1, SameSessionFacts
<1>9. ToldOrAboutTo(t)'
  <2> SUFFICES ASSUME NEW q \in Players, Compatible(q)'
               PROVE  \/ ToldItsMinor(q)'
                      \/ /\ ToBeSent(calls'[t], q) # {}
                         /\ \A f \in ToBeSent(calls'[t], q) : f.kind = "STATUS"
    BY DEF ToldOrAboutTo
  <2>1. Compatible(q) /\ Has(q)
    BY <1>5, SameSessionFacts DEF Compatible
  <2>2. CASE ToldItsMinor(q)
    BY <1>1, <1>5, <2>1, <2>2, SameSessionFacts
  <2>3. CASE ~ToldItsMinor(q)
    <3>1. /\ ToBeSent(calls[t], q) # {}
          /\ \A f \in ToBeSent(calls[t], q) : f.kind = "STATUS"
      BY <2>1, <2>3 DEF Orderly, ToldOrAboutTo
    <3> QED BY <1>4, <2>1, <3>1
  <2> QED BY <2>2, <2>3
<1>10. CopiesFollow(t)'
  <2> SUFFICES ASSUME NEW q \in Subscribers', cache'[q] # NoCache
               PROVE  cache'[q].revision = revision' \/ StillToCome(t, q)'
    BY DEF CopiesFollow
  <2>1. q \in Subscribers /\ q \in Players /\ Has(q)
    BY <1>5, SameSessionFacts DEF Subscribers, Compatible
  <2>2. cache[q].revision = revision \/ StillToCome(t, q)
    BY <1>1, <2>1 DEF Orderly, CopiesFollow
  <2>3. ToBeSent(calls'[t], q) = ToBeSent(calls[t], q)
    BY <1>4, <2>1
  <2> QED BY <1>1, <2>2, <2>3 DEF StillToCome
<1> QED BY <1>6, <1>7, <1>8, <1>9, <1>10 DEF Orderly

\* What a client's copy has become, when it still has one.
LEMMA ApplyRevision ==
  ASSUME NEW c \in Copies \union {NoCache}, NEW f \in Frames, Apply(c, f) # NoCache
  PROVE  /\ f.kind = "SNAPSHOT" => Apply(c, f).revision = f.revision
         /\ f.kind \in {"STATUS", "RESULT"} => Apply(c, f) = c
         /\ f.kind \in {"UPSERT", "REMOVE"} =>
              /\ c # NoCache
              /\ \/ Apply(c, f) = c /\ f.revision <= c.revision
                 \/ Apply(c, f).revision = f.revision /\ c.revision < f.revision
         /\ f.kind \in {"SNAPSHOT", "STATUS", "RESULT", "UPSERT", "REMOVE"}
<1>1. f.kind \in {"SNAPSHOT", "STATUS", "RESULT", "UPSERT", "REMOVE"}
  BY DEF Frames
<1>2. f.kind = "SNAPSHOT" => Apply(c, f).revision = f.revision
  BY DEF Apply
<1>3. f.kind \in {"STATUS", "RESULT"} => Apply(c, f) = c
  BY DEF Apply
<1>4. ASSUME f.kind \in {"UPSERT", "REMOVE"}
      PROVE  /\ c # NoCache
             /\ \/ Apply(c, f) = c /\ f.revision <= c.revision
                \/ Apply(c, f).revision = f.revision /\ c.revision < f.revision
  <2>1. c # NoCache
    BY <1>4 DEF Apply
  <2>2. f.revision \in Nat
    BY <1>4, HubBounds DEF Frames, Revisions
  <2>3. c.revision \in Nat
    BY <2>1, HubBounds DEF Copies, Revisions
  <2>4. CASE f.revision <= c.revision
    BY <1>4, <2>1, <2>4 DEF Apply
  <2>5. CASE c.revision < f.revision
    <3>1. ~(f.revision <= c.revision)
      BY <2>2, <2>3, <2>5
    <3>2. Apply(c, f) # NoCache
      OBVIOUS
    <3>3. Apply(c, f).revision = f.revision
      BY <1>4, <2>1, <3>1, <3>2 DEF Apply
    <3> QED BY <2>1, <2>5, <3>3
  <2> QED BY <2>2, <2>3, <2>4, <2>5
<1> QED BY <1>1, <1>2, <1>3, <1>4

\* With one call in progress a copy that takes a frame does not go back, and is
\* then the last revision, or what leads there is still to come.
LEMMA DeliveredCopy ==
  ASSUME HubInv, NEW t \in Threads, NEW p \in Players, NEW f \in ToBeSent(calls[t], p),
         FramesAgreed(t), Apply(cache[p], f) # NoCache
  PROVE  /\ cache[p] # NoCache => Apply(cache[p], f).revision >= cache[p].revision
         /\ \/ Apply(cache[p], f).revision = revision
            \/ Apply(cache[p], f) = cache[p] /\ f.kind \in {"STATUS", "RESULT"}
            \/ /\ cache[p] # NoCache /\ cache[p].revision # revision
               /\ f.kind \in {"UPSERT", "REMOVE"} /\ f.revision # revision
<1>1. TypeOK /\ FramesSound /\ CopiesSound
  BY DEF HubInv
<1>2. f \in Frames /\ cache[p] \in Copies \union {NoCache} /\ revision \in Nat
  BY <1>1, SentFrames, HubBounds DEF TypeOK, Revisions
<1>3. SoundFrame(f) /\ FrameAgreed(p, f)
  BY <1>1 DEF FramesSound, FramesAgreed
<1>4. cache[p] # NoCache => cache[p].revision \in Nat /\ cache[p].revision <= revision
  BY <1>1, <1>2, HubBounds DEF CopiesSound, Copies, Revisions
<1>5. CASE f.kind = "SNAPSHOT"
  <2>1. Apply(cache[p], f).revision = revision
    BY <1>2, <1>3, <1>5, ApplyRevision DEF FrameAgreed
  <2> QED BY <1>2, <1>4, <2>1
<1>6. CASE f.kind \in {"STATUS", "RESULT"}
  BY <1>2, <1>4, <1>6, ApplyRevision
<1>7. CASE f.kind \in {"UPSERT", "REMOVE"}
  <2>1. f.revision \in Nat /\ f.revision <= revision
    BY <1>2, <1>3, <1>7 DEF SoundFrame, SoundDelta
  <2>2. /\ cache[p] # NoCache
        /\ \/ Apply(cache[p], f) = cache[p] /\ f.revision <= cache[p].revision
           \/ Apply(cache[p], f).revision = f.revision /\ cache[p].revision < f.revision
    BY <1>2, <1>7, ApplyRevision
  <2> QED BY <1>2, <1>4, <1>7, <2>1, <2>2
<1> QED BY <1>2, <1>5, <1>6, <1>7, ApplyRevision

LEMMA OrderlyDeliver ==
  ASSUME HubInv, TypeOK', NEW t \in Threads, Orderly(t), Deliver(t)
  PROVE  Orderly(t)'
<1>0. TypeOK
  BY DEF HubInv
<1>1. UNCHANGED <<online, running, revision, pendingDeltas, sessions>>
  BY DEF Deliver, catalogVars, settingVars, hostVars
<1>2. calls[t] \in SendingCalls /\ calls'[t] \in SendingCalls \union {Idle}
  BY <1>0, DeliverFacts
<1>3. PICK p \in Players : \E f \in ToBeSent(calls[t], p) :
        /\ Take(p, f)
        /\ \A q \in Players \ {p} : ToBeSent(calls'[t], q) = ToBeSent(calls[t], q)
        /\ ToBeSent(calls'[t], p) \subseteq ToBeSent(calls[t], p)
        /\ ToBeSent(calls[t], p) \subseteq ToBeSent(calls'[t], p) \union {f}
  BY <1>0, DeliverFacts
<1>4. PICK f \in ToBeSent(calls[t], p) :
        /\ Take(p, f)
        /\ \A q \in Players \ {p} : ToBeSent(calls'[t], q) = ToBeSent(calls[t], q)
        /\ ToBeSent(calls'[t], p) \subseteq ToBeSent(calls[t], p)
        /\ ToBeSent(calls[t], p) \subseteq ToBeSent(calls'[t], p) \union {f}
  BY <1>3
<1>5. f \in Frames
  BY <1>0, SentFrames
<1>6. /\ cache'[p] = Apply(cache[p], f)
      /\ \A q \in Players \ {p} : cache'[q] = cache[q] /\ told'[q] = told[q]
      /\ f.kind = "STATUS" => told'[p] # NotTold /\ told'[p].minor = f.minor
      /\ f.kind # "STATUS" /\ told[p] # NotTold =>
           told'[p] # NotTold /\ told'[p].minor = told[p].minor
  BY <1>0, <1>4, <1>5, TakeFacts
<1>7. \A q \in Players : SameSession(q)
  BY <1>1 DEF SameSession, Has, SameTerms
<1>8. CallKnown(t)'
  <2>1. running
    BY <1>2, HubNulls DEF Orderly, CallKnown, Calls
  <2> QED BY <1>1, <1>2, <2>1, CallKnownAfter
<1>9. SessionsConnected'
  BY <1>1 DEF Orderly, SessionsConnected, Has
<1>10. FramesAgreed(t)'
  <2> SUFFICES ASSUME NEW q \in Players, NEW g \in ToBeSent(calls'[t], q)
               PROVE  FrameAgreed(q, g)'
    BY DEF FramesAgreed
  <2>1. g \in ToBeSent(calls[t], q)
    BY <1>4
  <2>2. FrameAgreed(q, g)
    BY <2>1 DEF Orderly, FramesAgreed
  <2> QED BY <1>1, <1>7, <2>2, SameSessionFacts
<1>11. FrameAgreed(p, f)
  BY <1>4 DEF Orderly, FramesAgreed
<1>12. ToldOrAboutTo(t)'
  <2> SUFFICES ASSUME NEW q \in Players, Compatible(q)'
               PROVE  \/ ToldItsMinor(q)'
                      \/ /\ ToBeSent(calls'[t], q) # {}
                         /\ \A g \in ToBeSent(calls'[t], q) : g.kind = "STATUS"
    BY DEF ToldOrAboutTo
  <2>1. Compatible(q)
    BY <1>7, SameSessionFacts
  <2>2. \/ ToldItsMinor(q)
        \/ /\ ToBeSent(calls[t], q) # {}
           /\ \A g \in ToBeSent(calls[t], q) : g.kind = "STATUS"
    BY <2>1 DEF Orderly, ToldOrAboutTo
  <2>3. CASE q # p
    <3>1. told'[q] = told[q] /\ ToBeSent(calls'[t], q) = ToBeSent(calls[t], q)
      BY <1>4, <1>6, <2>3
    <3> QED BY <1>7, <2>1, <2>2, <3>1, SameSessionFacts
  <2>4. CASE q = p
    <3>1. f.kind = "STATUS" => told'[p] # NotTold /\ told'[p].minor = sessions[p].minor
      BY <1>6, <1>11, <2>1, <2>4 DEF FrameAgreed, MinorOf
    <3>2. f.kind # "STATUS" => told'[p] # NotTold /\ told'[p].minor = sessions[p].minor
      BY <1>4, <1>6, <2>2, <2>4 DEF ToldItsMinor
    <3>3. told'[p] # NotTold /\ told'[p].minor = sessions'[p].minor
      BY <1>1, <3>1, <3>2
    <3> QED BY <2>4, <3>3 DEF ToldItsMinor
  <2> QED BY <2>3, <2>4
<1>13. CopiesFollow(t)'
  <2> SUFFICES ASSUME NEW q \in Subscribers', cache'[q] # NoCache
               PROVE  cache'[q].revision = revision' \/ StillToCome(t, q)'
    BY DEF CopiesFollow
  <2>1. q \in Subscribers /\ q \in Players
    BY <1>7, SameSessionFacts DEF Subscribers
  <2>2. cache[q] # NoCache => cache[q].revision = revision \/ StillToCome(t, q)
    BY <2>1 DEF Orderly, CopiesFollow
  <2>3. CASE q # p
    <3>1. cache'[q] = cache[q] /\ ToBeSent(calls'[t], q) = ToBeSent(calls[t], q)
      BY <1>4, <1>6, <2>1, <2>3
    <3> QED BY <1>1, <2>2, <3>1 DEF StillToCome
  <2>4. CASE q = p
    <3>1. /\ Apply(cache[p], f) # NoCache
          /\ \/ Apply(cache[p], f).revision = revision
             \/ Apply(cache[p], f) = cache[p] /\ f.kind \in {"STATUS", "RESULT"}
             \/ /\ cache[p] # NoCache /\ cache[p].revision # revision
                /\ f.kind \in {"UPSERT", "REMOVE"} /\ f.revision # revision
      BY <1>4, <1>6, <2>4, DeliveredCopy DEF Orderly
    <3>2. StillToCome(t, p) /\ (f.kind \in {"STATUS", "RESULT"} \/ f.revision # revision) =>
            StillToCome(t, p)'
      BY <1>1, <1>4 DEF StillToCome
    <3> QED BY <1>1, <1>6, <2>2, <2>4, <3>1, <3>2
  <2> QED BY <2>3, <2>4
<1> QED BY <1>8, <1>9, <1>10, <1>12, <1>13 DEF Orderly

\* No call is in progress, and none begins.
LEMMA OrderlyAtRest ==
  ASSUME TypeOK', NEW t \in Threads, calls'[t] = Idle, SessionsConnected',
         \A q \in Players : Compatible(q)' => ToldItsMinor(q)',
         \A q \in Subscribers' : cache'[q] # NoCache =>
           \/ cache'[q].revision = revision'
           \/ \E n \in DOMAIN pendingDeltas' : pendingDeltas'[n].revision = revision'
  PROVE  Orderly(t)'
<1>1. \A q \in Players : ToBeSent(calls'[t], q) = {}
  BY DEF ToBeSent
<1>2. CallKnown(t)'
  BY HubNulls DEF CallKnown, Calls
<1>3. FramesAgreed(t)'
  BY <1>1 DEF FramesAgreed
<1>4. ToldOrAboutTo(t)'
  BY DEF ToldOrAboutTo
<1>5. CopiesFollow(t)'
  BY DEF CopiesFollow, StillToCome
<1> QED BY <1>2, <1>3, <1>4, <1>5 DEF Orderly

LEMMA OrderlyClear ==
  ASSUME TypeOK, TypeOK', History, NEW t \in Threads, Orderly(t), Clear(t)
  PROVE  Orderly(t)'
<1>1. /\ calls'[t] = Idle /\ calls[t] = Idle
      /\ \E n \in DOMAIN pendingDeltas' : pendingDeltas'[n].revision = revision'
      /\ UNCHANGED <<sessions, online, told>>
  BY ClearFacts DEF hostVars, clientVars
<1>2. \A q \in Players : SameSession(q)
  BY <1>1 DEF SameSession, Has, SameTerms
<1>3. SessionsConnected'
  BY <1>1 DEF Orderly, SessionsConnected, Has
<1>4. \A q \in Players : Compatible(q) => ToldItsMinor(q)
  BY <1>1, AllTold, CallFacts DEF TypeOK
<1>5. \A q \in Players : Compatible(q)' => ToldItsMinor(q)'
  BY <1>1, <1>2, <1>4, SameSessionFacts
<1> QED BY <1>1, <1>3, <1>5, OrderlyAtRest

LEMMA OrderlyUnload ==
  ASSUME TypeOK', NEW t \in Threads, Unload
  PROVE  Orderly(t)'
<1>1. calls'[t] = Idle /\ \A q \in Players : ~Has(q)'
  BY DEF Unload, Has
<1> QED BY <1>1, OrderlyAtRest DEF SessionsConnected, Compatible, Subscribers

\* A catalog that is read again, when there was none, has no copies to follow it.
LEMMA OrderlyLoad ==
  ASSUME HubInv, TypeOK', NEW t \in Threads, Orderly(t), Load
  PROVE  Orderly(t)'
<1>0. TypeOK /\ CopiesSound
  BY DEF HubInv
<1>1. /\ ~running /\ UNCHANGED <<online, told, cache, pendingDeltas, calls>>
      /\ sessions' = sessions \/ sessions' = Unsubscribed
      /\ loaded => revision' = revision
  BY <1>0, LoadFacts DEF hostVars, clientVars, catalogVars
<1>2. calls[t] = Idle /\ calls'[t] = Idle
  BY <1>1 DEF Orderly, CallKnown
<1>3. /\ \A q \in Players : Compatible(q) => ToldItsMinor(q)
      /\ \A q \in Subscribers : cache[q] # NoCache =>
           \/ cache[q].revision = revision
           \/ \E n \in DOMAIN pendingDeltas : pendingDeltas[n].revision = revision
  BY <1>0, <1>2, AllTold, CallFacts
<1>4. ASSUME NEW q \in Players
      PROVE  /\ Has(q)' <=> Has(q)
             /\ Compatible(q)' => Compatible(q) /\ sessions'[q].minor = sessions[q].minor
             /\ q \in Subscribers' => q \in Subscribers
  <2>1. CASE sessions' = sessions
    BY <2>1 DEF Has, Compatible, Subscribers
  <2>2. CASE sessions' = Unsubscribed /\ Has(q)
    <3>1. /\ Unsubscribed[q] \in SessionRecords /\ SameTerms(Unsubscribed[q], sessions[q])
          /\ ~Unsubscribed[q].subscribed
      BY <1>0, <2>2, UnsubscribedFacts
    <3> QED BY <2>2, <3>1, HubNulls DEF Has, Compatible, Subscribers, SameTerms
  <2>3. CASE sessions' = Unsubscribed /\ ~Has(q)
    <3>1. sessions'[q] = NoSession
      BY <2>3 DEF Unsubscribed, Has
    <3> QED BY <2>3, <3>1 DEF Has, Compatible, Subscribers
  <2> QED BY <1>1, <2>1, <2>2, <2>3
<1>5. SessionsConnected'
  BY <1>1, <1>4 DEF Orderly, SessionsConnected
<1>6. \A q \in Players : Compatible(q)' => ToldItsMinor(q)'
  BY <1>1, <1>3, <1>4 DEF ToldItsMinor
<1>7. \A q \in Subscribers' : cache'[q] # NoCache =>
        \/ cache'[q].revision = revision'
        \/ \E n \in DOMAIN pendingDeltas' : pendingDeltas'[n].revision = revision'
  <2> TAKE q \in Subscribers'
  <2> HAVE cache'[q] # NoCache
  <2>1. q \in Players /\ q \in Subscribers
    BY <1>4 DEF Subscribers
  <2>2. loaded
    BY <1>0, <1>1, <2>1 DEF CopiesSound
  <2> QED BY <1>1, <1>3, <2>1, <2>2
<1> QED BY <1>2, <1>5, <1>6, <1>7, OrderlyAtRest

LEMMA OrderlyLeave ==
  ASSUME TypeOK, TypeOK', NEW t \in Threads, Orderly(t), NEW p \in Players, Leave(t, p)
  PROVE  Orderly(t)'
<1>1. /\ calls[t] = Idle /\ calls'[t] = Idle
      /\ sessions'[p] = NoSession /\ online' = online \ {p}
      /\ \A q \in Players \ {p} :
           sessions'[q] = sessions[q] /\ told'[q] = told[q] /\ cache'[q] = cache[q]
      /\ UNCHANGED <<revision, pendingDeltas>>
  <2>1. calls[t] = Idle
    BY DEF Leave
  <2> QED BY <2>1, LeaveFacts DEF catalogVars
<1>2. /\ \A q \in Players : Compatible(q) => ToldItsMinor(q)
      /\ \A q \in Subscribers : cache[q] # NoCache =>
           \/ cache[q].revision = revision
           \/ \E n \in DOMAIN pendingDeltas : pendingDeltas[n].revision = revision
  BY <1>1, AllTold, CallFacts DEF TypeOK
<1>3. ~Has(p)' /\ ~Compatible(p)' /\ p \notin Subscribers'
  BY <1>1 DEF Has, Compatible, Subscribers
<1>4. \A q \in Players \ {p} : SameSession(q)
  BY <1>1 DEF SameSession, Has, SameTerms
<1>5. SessionsConnected'
  BY <1>1, <1>3, <1>4 DEF Orderly, SessionsConnected, SameSession
<1>6. \A q \in Players : Compatible(q)' => ToldItsMinor(q)'
  BY <1>1, <1>2, <1>3, <1>4, SameSessionFacts
<1>7. \A q \in Subscribers' : cache'[q] # NoCache =>
        \/ cache'[q].revision = revision'
        \/ \E n \in DOMAIN pendingDeltas' : pendingDeltas'[n].revision = revision'
  <2> TAKE q \in Subscribers'
  <2>1. q \in Players \ {p}
    BY <1>3 DEF Subscribers
  <2>2. q \in Subscribers
    BY <1>4, <2>1, SameSessionFacts
  <2> QED BY <1>1, <1>2, <2>1, <2>2
<1> QED BY <1>1, <1>5, <1>6, <1>7, OrderlyAtRest

LEMMA OrderlyBegun ==
  ASSUME TypeOK, TypeOK', NEW t \in Threads, Orderly(t),
         \/ \E p \in Players, m \in Messages : Receive(t, p, m)
         \/ BeginTick(t)
  PROVE  Orderly(t)'
<1>1. ASSUME NEW p \in Players, NEW m \in Messages, Receive(t, p, m)
      PROVE  Orderly(t)'
  <2>1. /\ calls'[t] \in ReceivedCalls
        /\ calls[t] = Idle /\ running /\ p \in online
        /\ calls'[t].handles = {p} /\ calls'[t].from = p
        /\ \A q \in Players : ToBeSent(calls'[t], q) = {}
        /\ UNCHANGED <<sessions, told, cache, revision, pendingDeltas, running, online>>
    BY <1>1, ReceiveFacts DEF catalogVars, settingVars, hostVars, clientVars
  <2>2. calls'[t] \notin TickingCalls
    BY <2>1 DEF ReceivedCalls, TickingCalls
  <2>3. CallKnown(t)'
    BY <2>1, <2>2 DEF CallKnown
  <2> QED BY <2>1, <2>3, OrderlyBegins
<1>2. CASE BeginTick(t)
  <2>1. /\ calls'[t] \in TickingCalls
        /\ calls[t] = Idle /\ running
        /\ calls'[t].handles = online
        /\ \A q \in Players : ToBeSent(calls'[t], q) = {}
        /\ UNCHANGED <<sessions, told, cache, revision, pendingDeltas, running, online>>
    BY <1>2, BeginTickFacts DEF catalogVars, settingVars, hostVars, clientVars
  <2>2. calls'[t] \notin ReceivedCalls
    BY <2>1 DEF ReceivedCalls, TickingCalls
  <2>3. \A p \in Players : Has(p)' => p \in calls'[t].handles
    BY <2>1 DEF Has, Orderly, SessionsConnected
  <2>4. CallKnown(t)'
    BY <2>1, <2>2, <2>3 DEF CallKnown
  <2> QED BY <2>1, <2>4, OrderlyBegins
<1> QED BY <1>1, <1>2

LEMMA OrderlyUntouched ==
  ASSUME TypeOK, TypeOK', NEW t \in Threads, Orderly(t),
         \/ Reload(t) \/ UNCHANGED vars
         \/ \E p \in Players : Join(p) \/ ChangeLevel(p) \/ Refill(p)
  PROVE  Orderly(t)'
<1>1. ASSUME UNCHANGED <<sessions, told, cache, revision, pendingDeltas, running, calls>>,
             online \subseteq online'
      PROVE  Orderly(t)'
  <2>1. \A q \in Players : SameSession(q)
    BY <1>1 DEF SameSession, Has, SameTerms
  <2> QED BY <1>1, <2>1, OrderlyQuiet
<1>2. CASE Reload(t) \/ UNCHANGED vars \/ \E p \in Players : Join(p) \/ ChangeLevel(p)
  <2>1. /\ UNCHANGED <<sessions, told, cache, revision, pendingDeltas, running, calls>>
        /\ online \subseteq online'
    BY <1>2 DEF Reload, Join, ChangeLevel, vars, catalogVars, settingVars, hostVars, clientVars
  <2> QED BY <1>1, <2>1
<1>3. ASSUME NEW p \in Players, Refill(p)
      PROVE  Orderly(t)'
  <2>1. /\ Has(p) /\ sessions'[p] \in SessionRecords
        /\ SameTerms(sessions'[p], sessions[p]) /\ sessions'[p].subscribed = sessions[p].subscribed
        /\ \A q \in Players \ {p} : sessions'[q] = sessions[q]
        /\ UNCHANGED <<told, cache, revision, pendingDeltas, running, calls, online>>
    BY <1>3, RefillFacts DEF catalogVars, settingVars, hostVars, clientVars
  <2>2. \A q \in Players : SameSession(q)
    BY <2>1, HubNulls DEF SameSession, Has, SameTerms
  <2> QED BY <2>1, <2>2, OrderlyQuiet
<1> QED BY <1>2, <1>3

LEMMA OneCallStep ==
  ASSUME HubInv, HubInv', MutesCounted, OneCallInv, [Next]_vars
  PROVE  OneCallInv'
<1> SUFFICES ASSUME OneCall, NEW t \in Threads
             PROVE  Orderly(t)'
  BY DEF OneCallInv, OneCall
<1>0. TypeOK /\ TypeOK' /\ History /\ Orderly(t) /\ \A u \in Threads : u = t
  BY OneThread DEF HubInv, OneCallInv
<1>1. CASE \E p \in Players, m \in Messages : Receive(t, p, m)
  BY <1>0, <1>1, OrderlyBegun
<1>2. CASE Handle(t)
  BY <1>0, <1>2, HandleFacts, OrderlyHandled, OrderlyApplied
<1>3. CASE Tick(t)
  BY <1>0, <1>3, OrderlyTick
<1>4. CASE LookUp(t)
  BY <1>0, <1>4, OrderlyLookUp
<1>5. CASE Deliver(t)
  BY <1>0, <1>5, OrderlyDeliver
<1>6. CASE BeginTick(t)
  BY <1>0, <1>6, OrderlyBegun
<1>7. CASE Clear(t)
  BY <1>0, <1>7, OrderlyClear
<1>8. CASE Unload
  BY <1>0, <1>8, OrderlyUnload
<1>9. CASE Load
  BY <1>0, <1>9, OrderlyLoad
<1>10. CASE \E p \in Players : Leave(t, p)
  BY <1>0, <1>10, OrderlyLeave
<1>11. CASE Reload(t) \/ UNCHANGED vars \/ \E p \in Players : Join(p) \/ ChangeLevel(p) \/ Refill(p)
  BY <1>0, <1>11, OrderlyUntouched
<1> QED
  <2>1. \/ \E p \in Players, m \in Messages : Receive(t, p, m)
        \/ Proceed(t) \/ BeginTick(t) \/ Clear(t) \/ Reload(t) \/ Unload \/ Load
        \/ \E p \in Players : Leave(t, p)
        \/ \E p \in Players : Join(p) \/ ChangeLevel(p) \/ Refill(p)
        \/ UNCHANGED vars
    BY <1>0 DEF Next
  <2> QED
    BY <2>1, <1>1, <1>2, <1>3, <1>4, <1>5, <1>6, <1>7, <1>8, <1>9, <1>10, <1>11 DEF Proceed

LEMMA InitOneCall == Init => MutesCounted /\ OneCallInv
<1> SUFFICES ASSUME Init PROVE MutesCounted /\ \A t \in Threads : Orderly(t)
  BY DEF OneCallInv
<1>1. \A p \in Players : ~Has(p)
  BY DEF Init, Has
<1>2. ASSUME NEW t \in Threads
      PROVE  Orderly(t)
  <2>1. calls[t] = Idle /\ \A q \in Players : ToBeSent(calls[t], q) = {}
    BY DEF Init, ToBeSent
  <2>2. CallKnown(t)
    BY <2>1, HubNulls DEF CallKnown, Calls
  <2> QED BY <1>1, <2>1, <2>2
          DEF Orderly, SessionsConnected, FramesAgreed, ToldOrAboutTo, CopiesFollow,
              Compatible, Subscribers
<1> QED BY <1>1, <1>2 DEF MutesCounted

\* The same, and while the host makes one call at a time: whoever has a session is
\* online, everything about to be sent is on the terms its player agreed to, and
\* each subscriber's copy is current or what makes it so is still to come.
THEOREM HubOneCallInvariant == Spec => [](HubInv /\ MutesCounted /\ OneCallInv)
<1> DEFINE I == HubInv /\ MutesCounted /\ OneCallInv
<1>1. Init => I
  BY InitHub, InitOneCall
<1>2. I /\ [Next]_vars => I'
  <2> SUFFICES ASSUME I, [Next]_vars PROVE I'
    OBVIOUS
  <2>1. HubInv'
    BY HubStep
  <2>2. MutesCounted'
    BY MutesStep DEF HubInv
  <2>3. OneCallInv'
    BY <2>1, OneCallStep
  <2> QED BY <2>1, <2>2, <2>3
<1> QED BY <1>1, <1>2, PTL DEF Spec

\* While the host makes one call at a time, nothing goes to a muted connection, data
\* only to a compatible one, at the minor it was last told, and deltas only to a
\* subscriber (recipients, peer_of and the addressees of handle).
THEOREM HubOnlyWhatWasAgreed == Spec => []OnlyWhatWasAgreed
<1>1. ASSUME HubInv, OneCallInv PROVE OnlyWhatWasAgreed
  <2> SUFFICES ASSUME OneCall, NEW p \in Players, NEW f \in Outgoing(p)
               PROVE  /\ Has(p) /\ ~sessions[p].muted
                      /\ f.kind # "STATUS" =>
                           /\ sessions[p].compatible
                           /\ told[p] # NotTold /\ f.minor = told[p].minor
                      /\ f.kind \in {"UPSERT", "REMOVE"} => sessions[p].subscribed
    BY DEF OnlyWhatWasAgreed, OneCall
  <2>1. PICK t \in Threads : f \in ToBeSent(calls[t], p)
    BY DEF Outgoing
  <2>2. FrameAgreed(p, f) /\ ToldOrAboutTo(t)
    BY <1>1, <2>1 DEF OneCallInv, Orderly, FramesAgreed
  <2>3. f.kind # "STATUS" => Compatible(p) /\ ToldItsMinor(p) /\ f.minor = sessions[p].minor
    BY <2>1, <2>2 DEF FrameAgreed, ToldOrAboutTo, MinorOf
  <2> QED BY <2>2, <2>3 DEF FrameAgreed, Compatible, ToldItsMinor
<1> QED BY <1>1, HubOneCallInvariant, PTL

\* While the host makes one call at a time: between calls, with nothing left for the
\* tick, a subscriber's copy is the catalog as it is (SUBSCRIBE's snapshot, the
\* deltas of a mutation, and the removals of a wipe that the tick sends).
THEOREM HubSubscribersAreCurrent == Spec => []SubscribersAreCurrent
<1>1. ASSUME HubInv, OneCallInv PROVE SubscribersAreCurrent
  <2> SUFFICES ASSUME OneCall, \A t \in Threads : calls[t] = Idle, pendingDeltas = <<>>,
                      NEW p \in Subscribers, cache[p] # NoCache
               PROVE  cache[p] = [revision |-> revision, points |-> points]
    BY DEF SubscribersAreCurrent, OneCall
  <2>1. PICK t \in Threads : TRUE
    BY HubThreadsFinite, FS_Singleton DEF OneCall
  <2>2. p \in Players /\ ToBeSent(calls[t], p) = {}
    BY DEF Subscribers, ToBeSent
  <2>3. cache[p].revision = revision
    BY <1>1, <2>2 DEF OneCallInv, Orderly, CopiesFollow, StillToCome
  <2>4. cache[p] \in Copies /\ cache[p].points = points
    BY <1>1, <2>2, <2>3 DEF HubInv, TypeOK, CopiesSound, History
  <2> QED BY <2>3, <2>4 DEF Copies
<1> QED BY <1>1, HubOneCallInvariant, PTL

\* While the host makes one call at a time, no frame takes a client's copy back to
\* an earlier revision.
THEOREM HubCopiesNeverGoBack == Spec => CopiesNeverGoBack
<1> DEFINE A == \A p \in Players :
                  (Cardinality(Threads) = 1 /\ cache[p] # NoCache /\ cache'[p] # NoCache) =>
                    cache'[p].revision >= cache[p].revision
           I == HubInv /\ MutesCounted /\ OneCallInv
<1>1. I /\ [Next]_vars => [A]_vars
  <2> SUFFICES ASSUME I, Next, NEW q \in Players, OneCall, cache[q] # NoCache, cache'[q] # NoCache
               PROVE  cache'[q].revision >= cache[q].revision
    BY DEF OneCall
  <2>0. TypeOK /\ cache[q].revision \in Nat
    BY HubBounds DEF HubInv, TypeOK, Copies, Revisions
  <2>1. CASE cache'[q] = cache[q]
    BY <2>0, <2>1
  <2>2. ASSUME NEW t \in Threads, NEW p \in Players, Leave(t, p)
        PROVE  cache'[q] = cache[q]
    BY <2>0, <2>2, LeaveFacts
  <2>3. ASSUME NEW t \in Threads, Deliver(t)
        PROVE  cache'[q].revision >= cache[q].revision
    <3>1. PICK p \in Players : \E f \in ToBeSent(calls[t], p) : Take(p, f)
      BY <2>0, <2>3, DeliverFacts
    <3>2. PICK f \in ToBeSent(calls[t], p) : Take(p, f)
      BY <3>1
    <3>3. cache'[p] = Apply(cache[p], f) /\ \A r \in Players \ {p} : cache'[r] = cache[r]
      BY <2>0, <3>2, SentFrames, TakeFacts
    <3>4. FramesAgreed(t)
      BY DEF OneCallInv, Orderly
    <3>5. CASE q = p
      BY <3>2, <3>3, <3>4, <3>5, DeliveredCopy
    <3> QED BY <2>1, <3>3, <3>5
  <2>4. CASE UNCHANGED cache
    BY <2>1, <2>4
  <2>5. ASSUME NEW t \in Threads, Handle(t) \/ Tick(t)
        PROVE  UNCHANGED cache
    <3>1. CASE Handle(t)
      BY <2>0, <3>1, HandleFacts DEF HandledQuietly, HandleApplied, clientVars
    <3>2. CASE Tick(t)
      BY <3>2 DEF Tick, clientVars
    <3> QED BY <2>5, <3>1, <3>2
  <2> USE DEF clientVars
  <2>6. ASSUME NEW t \in Threads,
               LookUp(t) \/ BeginTick(t) \/ Clear(t) \/ Reload(t) \/ Unload \/ Load
        PROVE  UNCHANGED cache
    BY <2>6 DEF LookUp, BeginTick, Clear, Reload, Unload, Load
  <2>7. ASSUME NEW p \in Players, Join(p) \/ ChangeLevel(p) \/ Refill(p)
        PROVE  UNCHANGED cache
    BY <2>7 DEF Join, ChangeLevel, Refill
  <2>8. ASSUME NEW t \in Threads, NEW p \in Players, NEW m \in Messages, Receive(t, p, m)
        PROVE  UNCHANGED cache
    BY <2>8 DEF Receive
  <2>9. ASSUME Unload \/ Load
        PROVE  UNCHANGED cache
    BY <2>9 DEF Unload, Load
  <2> QED BY <2>1, <2>2, <2>3, <2>4, <2>5, <2>6, <2>7, <2>8, <2>9 DEF Next, Proceed
<1>2. CopiesNeverGoBack <=> [][A]_vars
  BY DEF CopiesNeverGoBack
<1> HIDE DEF A, I
<1>3. Spec => []I
  BY HubOneCallInvariant DEF I
<1> QED BY <1>1, <1>2, <1>3, PTL DEF Spec
==============================================================================
