---------------------------- MODULE MapSyncProofs ----------------------------
(***************************************************************************)
(* What holds of the map-sync channel for any players, and any number of   *)
(* strikes, HELLOs, connections and frames on their way.                   *)
(*                                                                         *)
(* None of what a client sees is inductive by itself: it depends on what is*)
(* still on its way.  WellOrdered says what a line of frames must be like  *)
(* for the client that will take them, and every action keeps it.          *)
(***************************************************************************)
EXTENDS MapSync, SequenceTheorems, TLAPS

\* What a frame grants.
Grants(frame) == IF frame.type = "capabilities" THEN frame.caps ELSE {}

\* The capability k is granted to client c before it takes the n-th frame of line o.
Before(o, c, k, n) ==
  k \in c.selected \union c.lost \/ \E j \in 1..Len(o) : j < n /\ k \in Grants(o[j])

\* Gated frames come after their grants, and so will the positions streamed to a
\* client that listens.
GatedAfterGrant(o, c, listens) ==
  /\ \A i \in 1..Len(o) : o[i].type \in Capabilities => Before(o, c, o[i].type, i)
  /\ listens => Before(o, c, "positions", Len(o) + 1)

\* The capability k is in the selection when client c takes the n-th frame of line o.
Then(o, c, k, n) ==
  \/ /\ k \in c.selected
     /\ \A m \in 1..Len(o) : m < n => o[m].type # "capabilities"
  \/ \E j \in 1..Len(o) :
       /\ j < n /\ k \in Grants(o[j])
       /\ \A m \in 1..Len(o) : (j < m /\ m < n) => o[m].type # "capabilities"

\* The frames that are only sent in a reply are selected when they are taken.
Replied == {"view distance", "instance"}
SelectedWhenTaken(o, c) ==
  \A i \in 1..Len(o) : o[i].type \in Replied => Then(o, c, o[i].type, i)

\* A policy follows whatever changes the selection, and without one on its way the
\* session is on the selection.
PolicyFollows(o, c) ==
  /\ \A i \in 1..Len(o) :
       o[i].type = "capabilities" => \E j \in 1..Len(o) : i < j /\ o[j].type = "policy"
  /\ (\A i \in 1..Len(o) : o[i].type # "policy") => c.session \in {NotOpen, c.selected}

WellOrdered(o, c, listens) ==
  GatedAfterGrant(o, c, listens) /\ SelectedWhenTaken(o, c) /\ PolicyFollows(o, c)

Lines == \A p \in Players : WellOrdered(outbox[p], client[p], p \in radar)

\* A player who is not connected has no client and nothing on its way.
Disconnected ==
  \A p \in Players \ online : client[p] = NewClient /\ outbox[p] = <<>>

\* What NothingEarly asks of a client.
Excused(c) == c.refused \subseteq c.lost \intersect {"positions"}

\* A Bedrock player's client is told nothing.
ToldNothing == \A p \in Players \intersect Bedrock : client[p].late = 0

SyncInv ==
  /\ TypeOK /\ DepartedForgotten /\ NothingEarly /\ LateOnce
  /\ Lines /\ Disconnected /\ ToldNothing

USE SyncNumbers, SyncPlayers

(***************************************************************************)
(* Frames and lines of frames.                                             *)
(***************************************************************************)
\* What a frame is.
LEMMA FrameKinds ==
  /\ \A f \in Frames : /\ f.type \in Capabilities \union {"capabilities", "policy"}
                       /\ f.type = "capabilities" => f.caps \subseteq Capabilities
  /\ \A caps \in SUBSET Capabilities : [type |-> "capabilities", caps |-> caps] \in Frames
  /\ \A t \in Capabilities \union {"policy"} : [type |-> t] \in Frames
  BY DEF Frames, Capabilities

\* A reply opens with what it grants and grants nothing after it, sends nothing gated
\* that it does not grant, and ends with the policy.
Proper(r, listens) ==
  /\ r \in Seq(Frames) /\ Len(r) \in Nat \ {0}
  /\ r[Len(r)].type = "policy"
  /\ \A i \in 1..Len(r) : r[i].type \in Capabilities => i > 1 /\ r[i].type \in Grants(r[1])
  /\ \A i \in 1..Len(r) : i > 1 => r[i].type # "capabilities"
  /\ listens => "positions" \in Grants(r[1])

\* A frame alone, and a line with one more.
LEMMA OneFrame ==
  ASSUME NEW f \in Frames
  PROVE  <<f>> \in Seq(Frames) /\ Len(<<f>>) = 1 /\ <<f>>[1] = f
  OBVIOUS

LEMMA OneMore ==
  ASSUME NEW r \in Seq(Frames), NEW f \in Frames
  PROVE  LET q == r \o <<f>> IN
         /\ q \in Seq(Frames) /\ Len(r) \in Nat /\ Len(q) = Len(r) + 1
         /\ \A i \in 1..Len(r) : q[i] = r[i]
         /\ q[Len(q)] = f
<1>1. r \o <<f>> = Append(r, f)
  BY AppendIsConcat
<1>. QED  BY <1>1, AppendProperties, LenProperties

\* The beginning of a reply: it grants g, and goes on with what is in g.
Opening(r, g) ==
  /\ r \in Seq(Frames) /\ Len(r) \in Nat \ {0}
  /\ r[1].type = "capabilities" /\ Grants(r[1]) = g
  /\ \A i \in 1..Len(r) : i > 1 => r[i].type \in g

LEMMA OpeningGoesOn ==
  ASSUME NEW r, NEW g, Opening(r, g), NEW t \in Capabilities, NEW wanted \in BOOLEAN,
         wanted => t \in g
  PROVE  Opening(r \o (IF wanted THEN <<[type |-> t]>> ELSE <<>>), g)
<1>1. CASE wanted
  <2>. DEFINE f == [type |-> t]
  <2>1. f \in Frames /\ f.type = t
    BY FrameKinds
  <2>. HIDE DEF f
  <2>2. Opening(r \o <<f>>, g)
    BY <1>1, <2>1, OneMore DEF Opening
  <2>. QED  BY <1>1, <2>2 DEF f
<1>2. CASE ~wanted
  BY <1>2, ConcatEmptySeq DEF Opening
<1>. QED  BY <1>1, <1>2

LEMMA ReplyFrames ==
  ASSUME NEW offer \in Offers
  PROVE  Proper(BuildReply(offer), Subscribes(offer))
<1>. DEFINE pol == [type |-> "policy"]
            fs  == CapabilityFrames(offer)
            r   == fs \o <<pol>>
<1>1. /\ pol \in Frames /\ pol.type = "policy" /\ "policy" \notin Capabilities
      /\ "capabilities" \notin Capabilities
  BY FrameKinds DEF Capabilities
<1>2. BuildReply(offer) = r
  BY DEF BuildReply
<1>3. CASE ~offer.caps2
  <2>1. fs = <<>> /\ ~Subscribes(offer)
    BY <1>3 DEF CapabilityFrames, Subscribes, Offers
  <2>. HIDE DEF pol, fs
  <2>2. r = <<pol>>
    BY <1>1, <2>1, ConcatEmptySeq, OneFrame
  <2>. HIDE DEF r
  <2>3. r \in Seq(Frames) /\ Len(r) = 1 /\ r[1] = pol
    BY <1>1, <2>2, OneFrame
  <2>4. \A i \in 1..Len(r) : i = 1
    BY <2>3
  <2>. QED  BY <1>1, <1>2, <2>1, <2>3, <2>4 DEF Proper
<1>4. CASE offer.caps2
  <2>. DEFINE g == Granted(offer)
              caps == [type |-> "capabilities", caps |-> g]
  <2>1. caps \in Frames /\ caps.type = "capabilities" /\ Grants(caps) = g
    <3>1. g \in SUBSET Capabilities
      BY DEF Granted, Offers
    <3>. QED  BY <3>1, FrameKinds DEF Grants
  <2>2. /\ Subscribes(offer) => "positions" \in g
        /\ "view distance" \in offer.caps => "view distance" \in g
        /\ "instance" \in offer.caps => "instance" \in g
        /\ g \subseteq Capabilities
        /\ "view distance" \in Capabilities /\ "instance" \in Capabilities
    BY DEF Subscribes, Granted, Offers, Capabilities
  <2>3. fs = <<caps>> \o (IF "view distance" \in offer.caps
                          THEN <<[type |-> "view distance"]>> ELSE <<>>)
                     \o (IF "instance" \in offer.caps THEN <<[type |-> "instance"]>> ELSE <<>>)
    BY <1>4 DEF CapabilityFrames
  <2>. HIDE DEF caps, fs, g
  <2>4. Opening(<<caps>>, g)
    BY <2>1, OneFrame DEF Opening
  <2>5. Opening(<<caps>> \o (IF "view distance" \in offer.caps
                             THEN <<[type |-> "view distance"]>> ELSE <<>>), g)
    BY <2>2, <2>4, OpeningGoesOn
  <2>6. Opening(fs, g)
    BY <2>2, <2>3, <2>5, OpeningGoesOn
  <2>. HIDE DEF pol
  <2>7. /\ r \in Seq(Frames) /\ Len(fs) \in Nat \ {0} /\ Len(r) = Len(fs) + 1
        /\ \A i \in 1..Len(fs) : r[i] = fs[i]
        /\ r[Len(r)] = pol
    BY <1>1, <2>6, OneMore DEF Opening
  <2>. HIDE DEF r
  <2>8. r[1] = fs[1] /\ Grants(r[1]) = g /\ r[1].type = "capabilities"
    BY <2>6, <2>7 DEF Opening
  <2>9. ASSUME NEW i \in 1..Len(r), r[i].type \in Capabilities
        PROVE  i > 1 /\ r[i].type \in g
    <3>1. i \in 1..Len(fs) /\ r[i] = fs[i]
      BY <1>1, <2>7, <2>9
    <3>2. i # 1
      BY <1>1, <2>8, <2>9
    <3>. QED  BY <2>6, <3>1, <3>2 DEF Opening
  <2>10. Len(r) \in Nat \ {0} /\ r[Len(r)].type = "policy"
    BY <1>1, <2>7
  <2>11. Subscribes(offer) => "positions" \in Grants(r[1])
    BY <2>2, <2>8
  <2>12. ASSUME NEW i \in 1..Len(r), i > 1
         PROVE  r[i].type # "capabilities"
    <3>1. CASE i \in 1..Len(fs)
      BY <1>1, <2>2, <2>6, <2>7, <2>12, <3>1 DEF Opening
    <3>2. CASE i = Len(r)
      BY <2>10, <3>2
    <3>. QED  BY <2>7, <3>1, <3>2
  <2>13. Proper(r, Subscribes(offer))
    BY <2>7, <2>8, <2>9, <2>10, <2>11, <2>12, Zenon DEF Proper
  <2>. QED  BY <1>2, <2>13
<1>. QED  BY <1>3, <1>4

\* A line stays in order when a reply joins it, also for a client that listens from
\* then on.
LEMMA GreetedLine ==
  ASSUME NEW o \in Seq(Frames), NEW c \in Clients, NEW listens \in BOOLEAN,
         WellOrdered(o, c, listens), NEW offer \in Offers
  PROVE  LET q == o \o BuildReply(offer) IN
         /\ q \in Seq(Frames)
         /\ WellOrdered(q, c, listens \/ Subscribes(offer))
<1>. DEFINE r == BuildReply(offer)
            q == o \o r
<1>1. /\ r \in Seq(Frames) /\ Len(r) \in Nat \ {0}
      /\ r[Len(r)].type = "policy"
      /\ \A i \in 1..Len(r) : r[i].type \in Capabilities =>
           i > 1 /\ r[i].type \in Grants(r[1])
      /\ Subscribes(offer) => "positions" \in Grants(r[1])
  BY ReplyFrames DEF Proper
<1>7. \A i \in 1..Len(r) : i > 1 => r[i].type # "capabilities"
  BY ReplyFrames DEF Proper
<1>. HIDE DEF r
<1>2. /\ q \in Seq(Frames) /\ Len(o) \in Nat /\ Len(q) = Len(o) + Len(r)
      /\ \A i \in 1..Len(o) : q[i] = o[i]
      /\ \A i \in 1..Len(r) : q[Len(o) + i] = r[i]
  BY <1>1, ConcatProperties
<1>. HIDE DEF q
<1>3. \A k, n : Before(o, c, k, n) => Before(q, c, k, n)
  BY <1>1, <1>2 DEF Before
<1>4. GatedAfterGrant(q, c, listens \/ Subscribes(offer))
  <2>1. ASSUME NEW i \in 1..Len(q), q[i].type \in Capabilities
        PROVE  Before(q, c, q[i].type, i)
    <3>1. CASE i <= Len(o)
      BY <1>2, <1>3, <2>1, <3>1 DEF WellOrdered, GatedAfterGrant
    <3>2. CASE i > Len(o)
      <4>1. i - Len(o) \in 1..Len(r) /\ q[i] = r[i - Len(o)]
        BY <1>1, <1>2, <3>2
      <4>2. Len(o) + 1 < i /\ q[i].type \in Grants(q[Len(o) + 1])
        BY <1>1, <1>2, <2>1, <4>1
      <4>. QED  BY <1>1, <1>2, <4>2 DEF Before
    <3>. QED  BY <1>2, <3>1, <3>2
  <2>2. ASSUME listens PROVE Before(q, c, "positions", Len(q) + 1)
    <3>1. Before(q, c, "positions", Len(o) + 1)
      BY <1>3, <2>2 DEF WellOrdered, GatedAfterGrant
    <3>2. Len(o) \in Nat /\ Len(q) \in Nat /\ Len(o) < Len(q)
      BY <1>1, <1>2
    <3>. QED  BY <3>1, <3>2 DEF Before
  <2>3. ASSUME Subscribes(offer) PROVE Before(q, c, "positions", Len(q) + 1)
    <3>1. "positions" \in Grants(q[Len(o) + 1])
      BY <1>1, <1>2, <2>3
    <3>. QED  BY <1>1, <1>2, <3>1 DEF Before
  <2>. QED  BY <2>1, <2>2, <2>3 DEF GatedAfterGrant
<1>5. PolicyFollows(q, c)
  <2>1. q[Len(q)].type = "policy" /\ Len(q) \in 1..Len(q)
    BY <1>1, <1>2
  <2>2. \A i \in 1..Len(q) : q[i].type = "capabilities" => i < Len(q)
    <3>1. SUFFICES ASSUME NEW i \in 1..Len(q), q[i].type = "capabilities"
                   PROVE  i # Len(q)
      BY <2>1
    <3>. QED  BY <2>1, <3>1
  <2>. QED  BY <2>1, <2>2 DEF PolicyFollows
<1>6. SelectedWhenTaken(q, c)
  <2>1. SUFFICES ASSUME NEW i \in 1..Len(q), q[i].type \in Replied
                 PROVE  Then(q, c, q[i].type, i)
    BY DEF SelectedWhenTaken
  <2>2. CASE i \in 1..Len(o)
    <3>1. q[i] = o[i] /\ Then(o, c, q[i].type, i)
      BY <1>2, <2>1, <2>2 DEF WellOrdered, SelectedWhenTaken
    <3>2. \A m \in 1..Len(q) : m < i => m \in 1..Len(o) /\ q[m] = o[m]
      BY <1>2, <2>2
    <3>3. \A m \in 1..Len(o) : m \in 1..Len(q) /\ q[m] = o[m]
      BY <1>1, <1>2
    <3>. HIDE DEF q
    <3>. QED  BY <3>1, <3>2, <3>3 DEF Then
  <2>3. CASE i \notin 1..Len(o)
    <3>1. i - Len(o) \in 1..Len(r) /\ q[i] = r[i - Len(o)]
      BY <1>1, <1>2, <2>3
    <3>2. q[i].type \in Capabilities
      BY <2>1 DEF Replied, Capabilities
    <3>3. Len(o) + 1 < i /\ q[i].type \in Grants(q[Len(o) + 1]) /\ Len(o) + 1 \in 1..Len(q)
      BY <1>1, <1>2, <3>1, <3>2
    <3>4. ASSUME NEW m \in 1..Len(q), Len(o) + 1 < m
          PROVE  q[m].type # "capabilities"
      <4>1. m - Len(o) \in 1..Len(r) /\ m - Len(o) > 1
        BY <1>1, <1>2, <3>4
      <4>2. q[Len(o) + (m - Len(o))] = r[m - Len(o)]
        BY <1>2, <4>1
      <4>3. q[m] = r[m - Len(o)]
        BY <1>2, <4>2
      <4>. QED  BY <1>7, <4>1, <4>3
    <3>. QED  BY <3>3, <3>4 DEF Then
  <2>. QED  BY <2>2, <2>3
<1>. QED  BY <1>2, <1>4, <1>5, <1>6 DEF WellOrdered, q, r

\* A line stays in order when a position frame joins it, for a client that listens.
LEMMA StreamedLine ==
  ASSUME NEW o \in Seq(Frames), NEW c \in Clients, WellOrdered(o, c, TRUE)
  PROVE  LET q == Append(o, [type |-> "positions"]) IN
         /\ q \in Seq(Frames)
         /\ WellOrdered(q, c, TRUE)
<1>. DEFINE f == [type |-> "positions"]
            q == Append(o, f)
<1>1. f \in Frames /\ f.type = "positions" /\ Grants(f) = {}
  BY FrameKinds DEF Capabilities, Grants
<1>. HIDE DEF f
<1>2. /\ q \in Seq(Frames) /\ Len(o) \in Nat /\ Len(q) = Len(o) + 1
      /\ \A i \in 1..Len(o) : q[i] = o[i]
      /\ q[Len(q)] = f
  BY <1>1, AppendProperties, LenProperties
<1>. HIDE DEF q
<1>3. \A k, n : Before(o, c, k, n) => Before(q, c, k, n)
  BY <1>2 DEF Before
<1>4. Before(q, c, "positions", Len(o) + 1) /\ Before(q, c, "positions", Len(q) + 1)
  <2>1. Before(o, c, "positions", Len(o) + 1)
    BY DEF WellOrdered, GatedAfterGrant
  <2>. QED  BY <1>2, <1>3, <2>1 DEF Before
<1>5. GatedAfterGrant(q, c, TRUE)
  <2>1. ASSUME NEW i \in 1..Len(q), q[i].type \in Capabilities
        PROVE  Before(q, c, q[i].type, i)
    <3>1. CASE i \in 1..Len(o)
      BY <1>2, <1>3, <2>1, <3>1 DEF WellOrdered, GatedAfterGrant
    <3>2. CASE i = Len(q)
      BY <1>1, <1>2, <1>4, <3>2
    <3>. QED  BY <1>2, <3>1, <3>2
  <2>. QED  BY <1>4, <2>1 DEF GatedAfterGrant
<1>6. PolicyFollows(q, c)
  <2>1. ASSUME NEW i \in 1..Len(q), q[i].type = "capabilities"
        PROVE  \E j \in 1..Len(q) : i < j /\ q[j].type = "policy"
    <3>1. i \in 1..Len(o) /\ o[i].type = "capabilities"
      BY <1>1, <1>2, <2>1
    <3>2. PICK j \in 1..Len(o) : i < j /\ o[j].type = "policy"
      BY <3>1 DEF WellOrdered, PolicyFollows
    <3>. QED  BY <1>2, <3>2
  <2>2. (\A i \in 1..Len(q) : q[i].type # "policy") => c.session \in {NotOpen, c.selected}
    BY <1>2 DEF WellOrdered, PolicyFollows
  <2>. QED  BY <2>1, <2>2 DEF PolicyFollows
<1>7. SelectedWhenTaken(q, c)
  <2>1. SUFFICES ASSUME NEW i \in 1..Len(q), q[i].type \in Replied
                 PROVE  Then(q, c, q[i].type, i)
    BY DEF SelectedWhenTaken
  <2>2. i \in 1..Len(o)
    <3>1. i # Len(q)
      BY <1>1, <1>2, <2>1 DEF Replied
    <3>. QED  BY <1>2, <3>1
  <2>3. q[i] = o[i] /\ Then(o, c, q[i].type, i)
    BY <1>2, <2>1, <2>2 DEF WellOrdered, SelectedWhenTaken
  <2>4. \A m \in 1..Len(q) : m < i => m \in 1..Len(o) /\ q[m] = o[m]
    BY <1>2, <2>2
  <2>5. \A m \in 1..Len(o) : m \in 1..Len(q) /\ q[m] = o[m]
    BY <1>2
  <2>. QED  BY <2>3, <2>4, <2>5 DEF Then
<1>. QED  BY <1>2, <1>5, <1>6, <1>7 DEF WellOrdered, q, f

\* What a client makes of the frame it takes.
LEMMA TakenType ==
  ASSUME NEW c \in Clients, NEW f \in Frames
  PROVE  LET d == Taken(c, f) IN
         /\ d \in Clients /\ d.late = c.late /\ d.honest = c.honest
         /\ d.selected \union d.lost = c.selected \union c.lost \union Grants(f)
         /\ c.lost \subseteq d.lost
         /\ f.type = "capabilities" => d.selected = Grants(f)
         /\ f.type = "policy" => d.session = d.selected
         /\ f.type # "policy" => d.session = c.session
         /\ f.type # "capabilities" => d.selected = c.selected
         /\ d.refused \subseteq
              c.refused \union (({f.type} \intersect Capabilities) \ c.selected)
<1>1. CASE f.type = "capabilities"
  BY <1>1, FrameKinds DEF Taken, Clients, Grants, Capabilities
<1>2. CASE f.type = "policy"
  BY <1>2 DEF Taken, Clients, Grants, Capabilities
<1>3. CASE f.type \in Capabilities
  BY <1>3 DEF Taken, Clients, Grants, Capabilities
<1>. QED  BY <1>1, <1>2, <1>3, FrameKinds

\* A line stays in order when its first frame is taken, and that frame is not refused
\* without an excuse.
LEMMA TakenLine ==
  ASSUME NEW o \in Seq(Frames), o # <<>>, NEW c \in Clients, Excused(c),
         NEW listens \in BOOLEAN, WellOrdered(o, c, listens)
  PROVE  LET d == Taken(c, Head(o)) IN
         /\ Tail(o) \in Seq(Frames) /\ Excused(d)
         /\ WellOrdered(Tail(o), d, listens)
<1>. DEFINE f == Head(o)
            q == Tail(o)
            d == Taken(c, f)
<1>1. /\ f \in Frames /\ f = o[1]
      /\ q \in Seq(Frames) /\ Len(o) \in Nat \ {0} /\ Len(q) = Len(o) - 1
      /\ \A i \in 1..Len(q) : q[i] = o[i + 1]
  BY HeadTailProperties, LenProperties, EmptySeq
<1>. HIDE DEF f, q
<1>2. /\ d \in Clients
      /\ d.selected \union d.lost = c.selected \union c.lost \union Grants(f)
      /\ c.lost \subseteq d.lost
      /\ f.type = "capabilities" => d.selected = Grants(f)
      /\ f.type = "policy" => d.session = d.selected
      /\ f.type # "policy" => d.session = c.session
      /\ f.type # "capabilities" => d.selected = c.selected
      /\ d.refused \subseteq
           c.refused \union (({f.type} \intersect Capabilities) \ c.selected)
  BY <1>1, TakenType
<1>. HIDE DEF d
<1>3. ASSUME NEW k, NEW n \in Nat, Before(o, c, k, n + 1)
      PROVE  Before(q, d, k, n)
  <2>1. CASE k \in c.selected \union c.lost
    BY <1>2, <2>1 DEF Before
  <2>2. ASSUME NEW j \in 1..Len(o), j < n + 1, k \in Grants(o[j])
        PROVE  Before(q, d, k, n)
    <3>1. CASE j = 1
      BY <1>1, <1>2, <2>2, <3>1 DEF Before
    <3>2. CASE j # 1
      <4>1. j - 1 \in 1..Len(q) /\ q[j - 1] = o[j] /\ j - 1 < n
        BY <1>1, <2>2, <3>2
      <4>. QED  BY <2>2, <4>1 DEF Before
    <3>. QED  BY <3>1, <3>2
  <2>. QED  BY <1>3, <2>1, <2>2 DEF Before
<1>4. Excused(d)
  <2>1. ASSUME NEW t \in Capabilities, t = f.type, t \notin c.selected
        PROVE  t \in c.lost /\ t = "positions"
    <3>1. Before(o, c, t, 1) /\ (t \in Replied => Then(o, c, t, 1))
      BY <1>1, <2>1 DEF WellOrdered, GatedAfterGrant, SelectedWhenTaken
    <3>2. \A n \in 1..Len(o) : ~(n < 1)
      OBVIOUS
    <3>3. t \in c.lost /\ t \notin Replied
      BY <2>1, <3>1, <3>2 DEF Before, Then
    <3>. QED  BY <2>1, <3>3 DEF Capabilities, Replied
  <2>. QED  BY <1>2, <2>1 DEF Excused
<1>5. GatedAfterGrant(q, d, listens)
  <2>1. ASSUME NEW i \in 1..Len(q), q[i].type \in Capabilities
        PROVE  Before(q, d, q[i].type, i)
    <3>1. i + 1 \in 1..Len(o) /\ o[i + 1] = q[i]
      BY <1>1
    <3>2. Before(o, c, q[i].type, i + 1)
      BY <2>1, <3>1 DEF WellOrdered, GatedAfterGrant
    <3>. QED  BY <1>3, <3>2
  <2>2. ASSUME listens PROVE Before(q, d, "positions", Len(q) + 1)
    <3>1. Before(o, c, "positions", Len(o) + 1)
      BY <2>2 DEF WellOrdered, GatedAfterGrant
    <3>2. Len(q) + 1 \in Nat /\ (Len(q) + 1) + 1 = Len(o) + 1
      BY <1>1
    <3>. QED  BY <1>1, <1>3, <3>1, <3>2
  <2>. QED  BY <2>1, <2>2 DEF GatedAfterGrant
<1>6. PolicyFollows(q, d)
  <2>1. ASSUME NEW i \in 1..Len(o), o[i].type = "capabilities"
        PROVE  \E j \in 1..Len(q) : i < j + 1 /\ q[j].type = "policy"
    <3>1. PICK j \in 1..Len(o) : i < j /\ o[j].type = "policy"
      BY <2>1 DEF WellOrdered, PolicyFollows
    <3>2. j - 1 \in 1..Len(q) /\ q[j - 1] = o[j] /\ i < (j - 1) + 1
      BY <1>1, <3>1
    <3>. QED  BY <3>1, <3>2
  <2>2. ASSUME NEW i \in 1..Len(q), q[i].type = "capabilities"
        PROVE  \E j \in 1..Len(q) : i < j /\ q[j].type = "policy"
    <3>1. i + 1 \in 1..Len(o) /\ o[i + 1].type = "capabilities"
      BY <1>1, <2>2
    <3>2. PICK j \in 1..Len(q) : i + 1 < j + 1 /\ q[j].type = "policy"
      BY <2>1, <3>1
    <3>. QED  BY <3>2
  <2>3. ASSUME \A i \in 1..Len(q) : q[i].type # "policy"
        PROVE  d.session \in {NotOpen, d.selected}
    <3>1. f.type # "capabilities"
      BY <1>1, <2>1, <2>3
    <3>2. CASE f.type = "policy"
      BY <1>2, <3>2
    <3>3. CASE f.type # "policy"
      <4>1. ASSUME NEW i \in 1..Len(o) PROVE o[i].type # "policy"
        <5>1. CASE i = 1
          BY <1>1, <3>3, <5>1
        <5>2. CASE i # 1
          <6>1. i - 1 \in 1..Len(q) /\ q[i - 1] = o[i]
            BY <1>1, <5>2
          <6>. QED  BY <2>3, <6>1
        <5>. QED  BY <5>1, <5>2
      <4>2. c.session \in {NotOpen, c.selected}
        BY <4>1 DEF WellOrdered, PolicyFollows
      <4>. QED  BY <1>2, <3>1, <3>3, <4>2
    <3>. QED  BY <3>2, <3>3
  <2>. QED  BY <2>2, <2>3 DEF PolicyFollows
<1>7. SelectedWhenTaken(q, d)
  <2>1. SUFFICES ASSUME NEW i \in 1..Len(q), q[i].type \in Replied
                 PROVE  Then(q, d, q[i].type, i)
    BY DEF SelectedWhenTaken
  <2>2. i + 1 \in 1..Len(o) /\ o[i + 1] = q[i] /\ Then(o, c, q[i].type, i + 1)
    BY <1>1, <2>1 DEF WellOrdered, SelectedWhenTaken
  <2>3. ASSUME NEW m \in 1..Len(q)
        PROVE  m + 1 \in 1..Len(o) /\ q[m] = o[m + 1]
    BY <1>1
  <2>4. CASE /\ q[i].type \in c.selected
             /\ \A m \in 1..Len(o) : m < i + 1 => o[m].type # "capabilities"
    <3>1. f.type # "capabilities" /\ \A m \in 1..Len(q) : m < i => q[m].type # "capabilities"
      <4>1. 1 \in 1..Len(o) /\ 1 < i + 1
        BY <1>1
      <4>2. ASSUME NEW m \in 1..Len(q), m < i
            PROVE  q[m].type # "capabilities"
        <5>1. m + 1 \in 1..Len(o) /\ q[m] = o[m + 1] /\ m + 1 < i + 1
          BY <2>3, <4>2
        <5>. QED  BY <2>4, <5>1
      <4>. QED  BY <1>1, <2>4, <4>1, <4>2
    <3>. QED  BY <1>2, <2>4, <3>1 DEF Then
  <2>5. ASSUME NEW j \in 1..Len(o), j < i + 1, q[i].type \in Grants(o[j]),
               \A m \in 1..Len(o) : (j < m /\ m < i + 1) => o[m].type # "capabilities"
        PROVE  Then(q, d, q[i].type, i)
    <3>1. \A m \in 1..Len(q) : (j < m + 1 /\ m < i) => q[m].type # "capabilities"
      BY <2>3, <2>5
    <3>2. CASE j = 1
      <4>1. \A m \in 1..Len(q) : m < i => q[m].type # "capabilities"
        BY <3>1, <3>2
      <4>2. q[i].type \in Grants(f)
        BY <1>1, <2>5, <3>2
      <4>3. d.selected = Grants(f)
        BY <1>2, <4>2 DEF Grants
      <4>. QED  BY <4>1, <4>2, <4>3 DEF Then
    <3>3. CASE j # 1
      <4>1. j - 1 \in 1..Len(q) /\ q[j - 1] = o[j] /\ j - 1 < i
        BY <1>1, <2>5, <3>3
      <4>2. \A m \in 1..Len(q) : (j - 1 < m /\ m < i) => q[m].type # "capabilities"
        BY <3>1
      <4>. QED  BY <2>5, <4>1, <4>2 DEF Then
    <3>. QED  BY <3>2, <3>3
  <2>. QED  BY <2>2, <2>4, <2>5 DEF Then
<1>. QED  BY <1>1, <1>4, <1>5, <1>6, <1>7 DEF WellOrdered, q, d, f

(***************************************************************************)
(* The invariant, action by action.                                        *)
(***************************************************************************)
LEMMA NewClientType ==
  /\ NewClient \in Clients /\ Excused(NewClient) /\ NewClient.late = 0
  /\ WellOrdered(<<>>, NewClient, FALSE)
  BY DEF NewClient, Clients, WellOrdered, GatedAfterGrant, SelectedWhenTaken, PolicyFollows,
     Excused

LEMMA SyncInit == Init => SyncInv
<1>. SUFFICES ASSUME Init PROVE SyncInv
  OBVIOUS
<1>1. TypeOK
  BY NewClientType, EmptySeq DEF Init, TypeOK, StruckOut
<1>2. Lines
  BY NewClientType DEF Init, Lines, WellOrdered, GatedAfterGrant
<1>3. DepartedForgotten /\ NothingEarly /\ LateOnce /\ Disconnected /\ ToldNothing
  BY NewClientType DEF Excused, Init, DepartedForgotten, NothingEarly, LateOnce, Disconnected, ToldNothing
<1>. QED  BY <1>1, <1>2, <1>3 DEF SyncInv

LEMMA LoginStep ==
  ASSUME SyncInv, NEW p \in Players, Login(p)
  PROVE  SyncInv'
<1>. USE DEF SyncInv, Login
<1>1. TypeOK'
  BY DEF TypeOK, ClaimReset
<1>2. DepartedForgotten' /\ NothingEarly' /\ Disconnected' /\ ToldNothing'
  BY DEF DepartedForgotten, NothingEarly, Disconnected, ToldNothing
<1>3. Lines'
  BY DEF Lines
<1>4. LateOnce'
  BY NewClientType DEF LateOnce, Disconnected, ClaimReset
<1>. QED  BY <1>1, <1>2, <1>3, <1>4

LEMMA RegisterStep ==
  ASSUME SyncInv, NEW p \in Players, RegisterForeign(p)
  PROVE  SyncInv'
<1>. USE DEF SyncInv
<1>. DEFINE d == [client[p] EXCEPT !.late = IF p \in Bedrock THEN @ ELSE @ + 1]
<1>1. /\ client' = [client EXCEPT ![p] = d]
      /\ p \in online \ claimed /\ claimed' = claimed \union {p}
      /\ UNCHANGED <<allow_entity_radar, strikes, muted, radar, online, outbox>>
  BY DEF RegisterForeign
<1>2. /\ client \in [Players -> Clients] /\ client[p] \in Clients
      /\ client[p].late = 0
  BY <1>1 DEF TypeOK, LateOnce, ToldNothing
<1>3. /\ d \in Clients /\ d.late = (IF p \in Bedrock THEN 0 ELSE 1)
      /\ d.refused = client[p].refused /\ d.session = client[p].session
      /\ d.selected = client[p].selected /\ d.lost = client[p].lost
  BY <1>2 DEF Clients
<1>. HIDE DEF d
<1>4. client' \in [Players -> Clients]
      /\ client'[p] = d /\ \A q \in Players \ {p} : client'[q] = client[q]
  BY <1>1, <1>2, <1>3
<1>5. TypeOK'
  BY <1>1, <1>4 DEF TypeOK
<1>6. DepartedForgotten' /\ NothingEarly' /\ Disconnected' /\ ToldNothing' /\ LateOnce'
  BY <1>1, <1>3, <1>4 DEF DepartedForgotten, NothingEarly, Disconnected, ToldNothing, LateOnce
<1>7. Lines'
  <2>1. ASSUME NEW q \in Players
        PROVE  WellOrdered(outbox[q], client'[q], q \in radar)
    <3>1. WellOrdered(outbox[q], client[q], q \in radar)
      BY DEF Lines
    <3>. QED
      BY <1>3, <1>4, <3>1
         DEF WellOrdered, GatedAfterGrant, SelectedWhenTaken, PolicyFollows, Before, Then
  <2>. QED  BY <1>1, <2>1 DEF Lines
<1>. QED  BY <1>5, <1>6, <1>7

LEMMA HelloStep ==
  ASSUME SyncInv, NEW p \in Players, NEW offer \in Offers, Hello(p, offer)
  PROVE  SyncInv'
<1>. USE DEF SyncInv
<1>1. /\ p \in online \ Bedrock
      /\ outbox' = [outbox EXCEPT ![p] = outbox[p] \o BuildReply(offer)]
      /\ radar' = IF Subscribes(offer) THEN radar \union {p} ELSE radar
      /\ UNCHANGED <<allow_entity_radar, claimed, strikes, muted, online, client>>
  BY DEF Hello
<1>2. /\ outbox \in [Players -> Seq(Frames)] /\ client[p] \in Clients
      /\ (p \in radar) \in BOOLEAN /\ WellOrdered(outbox[p], client[p], p \in radar)
  BY DEF TypeOK, Lines
<1>3. /\ outbox[p] \o BuildReply(offer) \in Seq(Frames)
      /\ WellOrdered(outbox[p] \o BuildReply(offer), client[p], p \in radar \/ Subscribes(offer))
  BY <1>2, GreetedLine
<1>4. /\ outbox' \in [Players -> Seq(Frames)]
      /\ outbox'[p] = outbox[p] \o BuildReply(offer)
      /\ \A q \in Players \ {p} : outbox'[q] = outbox[q]
  BY <1>1, <1>2, <1>3
<1>5. TypeOK'
  BY <1>1, <1>4 DEF TypeOK
<1>6. DepartedForgotten' /\ NothingEarly' /\ Disconnected' /\ ToldNothing' /\ LateOnce'
  BY <1>1, <1>4 DEF DepartedForgotten, NothingEarly, Disconnected, ToldNothing, LateOnce
<1>7. Lines'
  <2>1. ASSUME NEW q \in Players
        PROVE  WellOrdered(outbox'[q], client[q], q \in radar')
    <3>1. CASE q = p
      <4>1. p \in radar' <=> (p \in radar \/ Subscribes(offer))
        BY <1>1
      <4>. QED  BY <1>3, <1>4, <3>1, <4>1 DEF WellOrdered, GatedAfterGrant
    <3>2. CASE q # p
      <4>1. q \in radar' <=> q \in radar
        BY <1>1, <3>2
      <4>. QED  BY <1>4, <3>2, <4>1 DEF Lines, WellOrdered, GatedAfterGrant
    <3>. QED  BY <3>1, <3>2
  <2>. QED  BY <1>1, <2>1 DEF Lines
<1>. QED  BY <1>5, <1>6, <1>7

LEMMA NotHelloStep ==
  ASSUME SyncInv, NEW p \in Players, NEW wellFormed \in BOOLEAN, NotHello(p, wellFormed)
  PROVE  SyncInv'
<1>. USE DEF SyncInv
<1>. DEFINE d == [client[p] EXCEPT !.honest = @ /\ wellFormed]
<1>1. /\ p \in online /\ p \notin muted
      /\ strikes' = [strikes EXCEPT ![p] = strikes[p] + 1]
      /\ muted' = IF strikes'[p] >= MaxStrikes THEN muted \union {p} ELSE muted
      /\ client' = [client EXCEPT ![p] = d]
      /\ UNCHANGED <<allow_entity_radar, claimed, radar, online, outbox>>
  BY DEF NotHello, Heard, StruckOut
<1>2. /\ strikes \in [Players -> 0..MaxStrikes]
      /\ muted = {q \in Players : strikes[q] >= MaxStrikes}
      /\ client \in [Players -> Clients] /\ client[p] \in Clients
  BY DEF TypeOK, StruckOut
<1>3. /\ d \in Clients /\ d.late = client[p].late
      /\ d.refused = client[p].refused /\ d.session = client[p].session
      /\ d.selected = client[p].selected /\ d.lost = client[p].lost
  BY <1>2 DEF Clients
<1>. HIDE DEF d
<1>4. /\ client' \in [Players -> Clients]
      /\ client'[p] = d /\ \A q \in Players \ {p} : client'[q] = client[q]
  BY <1>1, <1>2, <1>3
<1>5. /\ strikes' \in [Players -> 0..MaxStrikes]
      /\ \A q \in Players \ {p} : strikes'[q] = strikes[q]
      /\ muted' = {q \in Players : strikes'[q] >= MaxStrikes}
  <2>1. strikes[p] + 1 \in 0..MaxStrikes
    BY <1>1, <1>2
  <2>2. strikes' \in [Players -> 0..MaxStrikes] /\ \A q \in Players \ {p} : strikes'[q] = strikes[q]
    BY <1>1, <1>2, <2>1
  <2>3. ASSUME NEW q \in Players
        PROVE  q \in muted' <=> strikes'[q] >= MaxStrikes
    BY <1>1, <1>2, <2>2
  <2>4. muted' \subseteq Players
    BY <1>1, <1>2
  <2>. QED  BY <2>2, <2>3, <2>4
<1>6. TypeOK'
  BY <1>1, <1>4, <1>5 DEF TypeOK, StruckOut
<1>7. DepartedForgotten' /\ NothingEarly' /\ Disconnected' /\ ToldNothing' /\ LateOnce'
  BY <1>1, <1>3, <1>4, <1>5
     DEF DepartedForgotten, NothingEarly, Disconnected, ToldNothing, LateOnce
<1>8. Lines'
  <2>1. ASSUME NEW q \in Players
        PROVE  WellOrdered(outbox[q], client'[q], q \in radar)
    <3>1. WellOrdered(outbox[q], client[q], q \in radar)
      BY DEF Lines
    <3>. QED
      BY <1>3, <1>4, <3>1
         DEF WellOrdered, GatedAfterGrant, SelectedWhenTaken, PolicyFollows, Before, Then
  <2>. QED  BY <1>1, <2>1 DEF Lines
<1>. QED  BY <1>6, <1>7, <1>8

LEMMA LeaveStep ==
  ASSUME SyncInv, NEW p \in Players, Leave(p)
  PROVE  SyncInv'
<1>. USE DEF SyncInv, Leave, Cleaned
<1>1. TypeOK'
  <2>1. strikes' \in [Players -> 0..MaxStrikes]
    BY DEF TypeOK
  <2>2. muted' = {q \in Players : StruckOut(strikes'[q])}
    BY DEF TypeOK, StruckOut
  <2>3. outbox' \in [Players -> Seq(Frames)] /\ client' \in [Players -> Clients]
    BY NewClientType, EmptySeq DEF TypeOK
  <2>. QED  BY <2>1, <2>2, <2>3 DEF TypeOK
<1>2. DepartedForgotten' /\ Disconnected'
  BY DEF TypeOK, DepartedForgotten, Disconnected
<1>3. NothingEarly' /\ ToldNothing' /\ LateOnce'
  BY NewClientType DEF Excused, TypeOK, NothingEarly, ToldNothing, LateOnce
<1>4. Lines'
  <2>1. ASSUME NEW q \in Players
        PROVE  WellOrdered(outbox'[q], client'[q], q \in radar')
    <3>1. CASE q = p
      <4>1. outbox'[p] = <<>> /\ client'[p] = NewClient /\ (p \in radar') = FALSE
        BY DEF TypeOK
      <4>. QED  BY <3>1, <4>1, NewClientType DEF WellOrdered, GatedAfterGrant
    <3>2. CASE q # p
      <4>1. /\ outbox'[q] = outbox[q] /\ client'[q] = client[q]
            /\ q \in radar' <=> q \in radar
        BY <3>2 DEF TypeOK
      <4>. QED  BY <4>1 DEF Lines, WellOrdered, GatedAfterGrant
    <3>. QED  BY <3>1, <3>2
  <2>. QED  BY <2>1 DEF Lines
<1>. QED  BY <1>1, <1>2, <1>3, <1>4

LEMMA BroadcastStep ==
  ASSUME SyncInv, BroadcastPositions
  PROVE  SyncInv'
<1>. USE DEF SyncInv
<1>. DEFINE listeners == (online \intersect radar) \ Bedrock
            f == [type |-> "positions"]
<1>1. /\ outbox' = [q \in Players |-> IF q \in listeners THEN Append(outbox[q], f) ELSE outbox[q]]
      /\ UNCHANGED <<allow_entity_radar, claimed, strikes, muted, radar, online, client>>
  BY DEF BroadcastPositions, kept
<1>2. \A q \in Players :
        outbox'[q] = IF q \in listeners THEN Append(outbox[q], f) ELSE outbox[q]
  BY <1>1
<1>3. ASSUME NEW q \in Players
      PROVE  outbox'[q] \in Seq(Frames) /\ WellOrdered(outbox'[q], client[q], q \in radar)
  <2>1. /\ outbox[q] \in Seq(Frames) /\ client[q] \in Clients
        /\ WellOrdered(outbox[q], client[q], q \in radar)
    BY DEF TypeOK, Lines
  <2>2. CASE q \in listeners
    <3>1. (q \in radar) = TRUE
      BY <2>2
    <3>2. WellOrdered(outbox[q], client[q], TRUE)
      BY <2>1, <3>1
    <3>3. Append(outbox[q], f) \in Seq(Frames) /\ WellOrdered(Append(outbox[q], f), client[q], TRUE)
      BY <2>1, <3>2, StreamedLine
    <3>. QED  BY <1>2, <2>2, <3>1, <3>3
  <2>3. CASE q \notin listeners
    BY <1>2, <2>1, <2>3
  <2>. QED  BY <2>2, <2>3
<1>. HIDE DEF f
<1>4. TypeOK'
  BY <1>1, <1>3 DEF TypeOK
<1>5. DepartedForgotten' /\ NothingEarly' /\ Disconnected' /\ ToldNothing' /\ LateOnce'
  BY <1>1, <1>2 DEF DepartedForgotten, NothingEarly, Disconnected, ToldNothing, LateOnce
<1>6. Lines'
  BY <1>1, <1>3 DEF Lines
<1>. QED  BY <1>4, <1>5, <1>6

LEMMA ReloadStep ==
  ASSUME SyncInv, Reload
  PROVE  SyncInv'
<1>. USE DEF SyncInv, Reload, kept
<1>1. TypeOK'
  BY DEF TypeOK
<1>2. DepartedForgotten' /\ NothingEarly' /\ LateOnce' /\ Disconnected' /\ ToldNothing'
  BY DEF DepartedForgotten, NothingEarly, LateOnce, Disconnected, ToldNothing
<1>3. Lines'
  BY DEF Lines
<1>. QED  BY <1>1, <1>2, <1>3

LEMMA TakeStep ==
  ASSUME SyncInv, NEW p \in Players, Take(p)
  PROVE  SyncInv'
<1>. USE DEF SyncInv
<1>. DEFINE d == Taken(client[p], Head(outbox[p]))
<1>1. /\ outbox[p] # <<>>
      /\ outbox' = [outbox EXCEPT ![p] = Tail(outbox[p])]
      /\ client' = [client EXCEPT ![p] = d]
      /\ UNCHANGED <<allow_entity_radar, claimed, strikes, muted, radar, online>>
  BY DEF Take, kept
<1>2. /\ outbox \in [Players -> Seq(Frames)] /\ client \in [Players -> Clients]
      /\ outbox[p] \in Seq(Frames) /\ client[p] \in Clients /\ Excused(client[p])
      /\ (p \in radar) \in BOOLEAN /\ WellOrdered(outbox[p], client[p], p \in radar)
  BY DEF TypeOK, Lines, NothingEarly, Excused
<1>3. /\ Tail(outbox[p]) \in Seq(Frames) /\ Excused(d)
      /\ WellOrdered(Tail(outbox[p]), d, p \in radar)
  BY <1>1, <1>2, TakenLine
<1>4. d \in Clients /\ d.late = client[p].late
  BY <1>1, <1>2, HeadTailProperties, TakenType
<1>. HIDE DEF d
<1>5. /\ outbox' \in [Players -> Seq(Frames)] /\ outbox'[p] = Tail(outbox[p])
      /\ client' \in [Players -> Clients] /\ client'[p] = d
      /\ \A q \in Players \ {p} : outbox'[q] = outbox[q] /\ client'[q] = client[q]
  BY <1>1, <1>2, <1>3, <1>4
<1>6. TypeOK'
  BY <1>1, <1>5 DEF TypeOK
<1>7. NothingEarly' /\ ToldNothing' /\ LateOnce' /\ DepartedForgotten'
  BY <1>1, <1>3, <1>4, <1>5 DEF Excused, NothingEarly, ToldNothing, LateOnce, DepartedForgotten
<1>8. Disconnected'
  <2>1. p \in online
    BY <1>1 DEF Disconnected
  <2>. QED  BY <1>1, <1>5, <2>1 DEF Disconnected
<1>9. Lines'
  <2>1. ASSUME NEW q \in Players
        PROVE  WellOrdered(outbox'[q], client'[q], q \in radar)
    BY <1>3, <1>5 DEF Lines
  <2>. QED  BY <1>1, <2>1 DEF Lines
<1>. QED  BY <1>6, <1>7, <1>8, <1>9

LEMMA SyncStep == SyncInv /\ [Next]_vars => SyncInv'
<1>. SUFFICES ASSUME SyncInv, [Next]_vars PROVE SyncInv'
  OBVIOUS
<1>1. CASE UNCHANGED vars
  <2>. USE <1>1 DEF vars, kept, SyncInv
  <2>1. TypeOK'
    BY DEF TypeOK
  <2>2. DepartedForgotten' /\ NothingEarly' /\ LateOnce' /\ Disconnected' /\ ToldNothing'
    BY DEF DepartedForgotten, NothingEarly, LateOnce, Disconnected, ToldNothing
  <2>3. Lines'
    BY DEF Lines
  <2>. QED  BY <2>1, <2>2, <2>3
<1>2. CASE Next
  BY <1>2, LoginStep, RegisterStep, HelloStep, NotHelloStep, LeaveStep, BroadcastStep,
     ReloadStep, TakeStep
     DEF Next
<1>. QED  BY <1>1, <1>2

(***************************************************************************)
(* The theorems.                                                           *)
(***************************************************************************)
LEMMA SyncInvariant == Spec => []SyncInv
  BY SyncInit, SyncStep, PTL DEF Spec

\* Every reachable state is well typed, and whoever is muted has struck out.
THEOREM SyncTypeOK == Spec => []TypeOK
<1>1. SyncInv => TypeOK
  BY DEF SyncInv
<1>. QED  BY SyncInvariant, <1>1, PTL

\* Nothing is left to the next connection of a player's name.
THEOREM SyncDepartedForgotten == Spec => []DepartedForgotten
<1>1. SyncInv => DepartedForgotten
  BY DEF SyncInv
<1>. QED  BY SyncInvariant, <1>1, PTL

\* No gated message comes ahead of the grant of its own connection.
THEOREM SyncNothingEarly == Spec => []NothingEarly
<1>1. SyncInv => NothingEarly
  BY DEF SyncInv
<1>. QED  BY SyncInvariant, <1>1, PTL

\* A client with nothing on its way has its session on what it was last granted.
THEOREM SyncSessionKnowsGrants == Spec => []SessionKnowsGrants
<1>1. SyncInv => SessionKnowsGrants
  <2>1. ASSUME SyncInv, NEW p \in Players, outbox[p] = <<>>
        PROVE  client[p].session \in {NotOpen, client[p].selected}
    <3>1. \A i \in 1..Len(outbox[p]) : outbox[p][i].type # "policy"
      BY <2>1
    <3>. QED  BY <2>1, <3>1 DEF SyncInv, Lines, WellOrdered, PolicyFollows
  <2>. QED  BY <2>1 DEF SessionKnowsGrants
<1>. QED  BY SyncInvariant, <1>1, PTL

\* A connection is announced to late once, on its first foreign channel.
THEOREM SyncLateOnce == Spec => []LateOnce
<1>1. SyncInv => LateOnce
  BY DEF SyncInv
<1>. QED  BY SyncInvariant, <1>1, PTL

\* A muted player stays muted while it is connected, and what it sends changes nothing
\* and is not answered.
THEOREM SyncMutedIsIgnored == Spec => MutedIsIgnored
<1>. DEFINE Same(p) == p \in muted' /\ strikes'[p] = strikes[p] /\ (p \in radar' <=> p \in radar)
            Sent(p) == outbox'[p] \in {outbox[p], SubSeq(outbox[p], 2, Len(outbox[p])),
                                       Append(outbox[p], [type |-> "positions"])}
            Ignored ==
              \A p \in muted \intersect online :
                p \in online' =>
                  /\ p \in muted' /\ strikes'[p] = strikes[p]
                  /\ p \in radar' <=> p \in radar
                  /\ outbox'[p] \in {outbox[p], SubSeq(outbox[p], 2, Len(outbox[p])),
                                     Append(outbox[p], [type |-> "positions"])}
<1>1. SyncInv /\ [Next]_vars => [Ignored]_vars
  <2>. SUFFICES ASSUME SyncInv, Next, NEW p \in muted, p \in online, p \in online'
                PROVE  Same(p) /\ Sent(p)
    OBVIOUS
  <2>1. /\ p \in Players /\ outbox \in [Players -> Seq(Frames)] /\ outbox[p] \in Seq(Frames)
        /\ strikes \in [Players -> 0..MaxStrikes]
    BY DEF SyncInv, TypeOK
  <2>2. ASSUME UNCHANGED <<strikes, muted, radar, outbox>> PROVE Same(p) /\ Sent(p)
    BY <2>2
  <2>3. ASSUME NEW q \in Players, Login(q) \/ RegisterForeign(q) PROVE Same(p) /\ Sent(p)
    BY <2>2, <2>3 DEF Login, RegisterForeign
  <2>4. ASSUME NEW q \in Players, NEW offer \in Offers, Hello(q, offer)
        PROVE  Same(p) /\ Sent(p)
    <3>1. q # p
      BY <2>4 DEF Hello, Heard
    <3>. QED  BY <2>1, <2>4, <3>1 DEF Hello
  <2>5. ASSUME NEW q \in Players, NEW wellFormed \in BOOLEAN, NotHello(q, wellFormed)
        PROVE  Same(p) /\ Sent(p)
    <3>1. q # p
      BY <2>5 DEF NotHello, Heard
    <3>. QED  BY <2>1, <2>5, <3>1 DEF NotHello
  <2>6. ASSUME NEW q \in Players, Leave(q) PROVE Same(p) /\ Sent(p)
    <3>1. q # p
      BY <2>6 DEF Leave
    <3>. QED  BY <2>1, <2>6, <3>1 DEF Leave, Cleaned
  <2>7. CASE BroadcastPositions
    BY <2>1, <2>7 DEF BroadcastPositions, kept
  <2>8. CASE Reload
    BY <2>2, <2>8 DEF Reload, kept
  <2>9. ASSUME NEW q \in Players, Take(q) PROVE Same(p) /\ Sent(p)
    <3>1. UNCHANGED <<strikes, muted, radar>> /\ outbox' = [outbox EXCEPT ![q] = Tail(@)]
          /\ outbox[q] # <<>>
      BY <2>9 DEF Take, kept
    <3>2. CASE q = p
      BY <2>1, <3>1, <3>2, TailIsSubSeq
    <3>3. CASE q # p
      BY <2>1, <3>1, <3>3
    <3>. QED  BY <3>2, <3>3
  <2>. QED  BY <2>3, <2>4, <2>5, <2>6, <2>7, <2>8, <2>9 DEF Next
<1>. QED  BY <1>1, SyncInvariant, PTL DEF Spec, MutedIsIgnored
==============================================================================
