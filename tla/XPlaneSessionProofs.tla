-------------------------- MODULE XPlaneSessionProofs --------------------------
(***************************************************************************)
(* The X-Plane session, for every burst, queue, evidence and number of     *)
(* resets and mishaps.  Samples reach the board in the order the bridge    *)
(* sent them, and a world announces itself with its first sample: all      *)
(* three properties rest on that (OrderInv, ChainInv, CountInv).           *)
(***************************************************************************)
EXTENDS XPlaneSession, SequenceTheorems, TLAPS

(* The samples between the bridge and the board, oldest first.             *)
Flow == sensors \o wire

-----------------------------------------------------------------------------
(* The inductive invariant                                                 *)

(* A sample, or the bridge's next one, comes after a sample of world w: in *)
(* a later world if it is the first of its own.                            *)
Ahead(s, w) == s.world >= w /\ (s.first => s.world > w)

(* A stream f whose next sample is b never goes back, neither in itself    *)
(* nor behind the worlds seen before.                                      *)
Ordered(f, b, seen) ==
    /\ \A w \in seen : Ahead(b, w) /\ \A i \in DOMAIN f : Ahead(f[i], w)
    /\ \A i \in DOMAIN f : Ahead(b, f[i].world)
    /\ \A i, j \in DOMAIN f : i < j => Ahead(f[j], f[i].world)

(* A reset mark is on a first sample only.                                 *)
Heralds(f, b) ==
    /\ b.flag => b.first
    /\ \A i \in DOMAIN f : f[i].reset => f[i].first

(* Samples arrive in order, and a mark means a new world.                  *)
OrderInv == Heralds(Flow, bridge) /\ Ordered(Flow, bridge, {answer.world, before})

(* What is on its way, and what will be, is of worlds after w.             *)
Beyond(f, b, w) == b.world > w /\ \A i \in DOMAIN f : f[i].world > w

(* Once a reset is acknowledged, only worlds after it are on their way.    *)
GenerationInv ==
    /\ reset_pending => answer = NoAnswer
    /\ ~reset_pending /\ before # NoWorld => Beyond(Flow, bridge, before)

(* A sample of the same world follows, or the first one of another.        *)
Follows(s, w) == s.first \/ s.world = w

(* No sample is missing between two that follow each other.                *)
Chained(f) == \A i \in DOMAIN f : i + 1 \in DOMAIN f => Follows(f[i + 1], f[i].world)

(* On an open stream the bridge's next sample is one of the chain.         *)
Unbroken(f, b, open) == Chained(f) /\ (open /\ f # <<>> => Follows(b, f[Len(f)].world))

(* The next sample the board will see follows world w.                     *)
NextFollows(f, b, open, w) ==
    /\ f # <<>> => Follows(f[1], w)
    /\ open /\ f = <<>> => Follows(b, w)

(* What comes next follows the last sample the gate observed.              *)
ChainInv ==
    /\ Unbroken(Flow, bridge, link = "up")
    /\ reset_pending => home = NoWorld
    /\ home # NoWorld => gate.last # NoWorld
    /\ home # NoWorld /\ ~gate.failed =>
          gate.last = home /\ NextFollows(Flow, bridge, link = "up", home)

(* A sample on its way is unanswered, but for one a reset; and the bridge  *)
(* never waits for as many answers more than are due as it may wait for.   *)
CountInv ==
    /\ Len(Flow) <= bridge.unanswered + session.generation - 1
    /\ link = "up" /\ ~unheard => bridge.unanswered < Len(Flow) + BURST

(* The board keeps a flight it authorized only while the gate stands by    *)
(* its evidence, and an armed answer is of the step that gave it.          *)
FlightInv ==
    /\ gate.verified => gate.last # NoWorld
    /\ gate.last # NoWorld => gate.accepted
    /\ kernel = "Armed" /\ via = "board" => is_verified(gate)
    /\ answer.armed => kernel # "Ready"
    /\ answered = 0 => ~answer.armed

SessionSafe ==
    /\ TypeOK /\ OrderInv /\ GenerationInv /\ ChainInv /\ CountInv /\ FlightInv
    /\ ArmedAnswersOneWorld /\ GenerationIsANewWorld

-----------------------------------------------------------------------------
(* The stream                                                              *)

Bridges == [world : Nat \ {0}, first : BOOLEAN, flag : BOOLEAN, unanswered : 0..BURST]

(* g is what is left of f when its d oldest samples are gone, and perhaps  *)
(* its newest.                                                             *)
Segment(f, g, d) == Len(g) + d <= Len(f) /\ \A i \in DOMAIN g : g[i] = f[i + d]

(* The bridge stays in its world or begins the next.                       *)
Moves(b, c) ==
    \/ c.world = b.world /\ c.first = b.first /\ c.flag = b.flag
    \/ c.world = b.world + 1 /\ c.first = TRUE

LEMMA FlowFacts ==
    ASSUME NEW s \in Seq(Samples), NEW w \in Seq(Samples)
    PROVE  /\ s \o w \in Seq(Samples) /\ DOMAIN (s \o w) = 1..Len(s \o w)
           /\ Len(s \o w) \in Nat /\ Len(s) \in Nat /\ Len(w) \in Nat
           /\ Len(s \o w) = Len(s) + Len(w)
           /\ \A i \in 1..Len(s) : (s \o w)[i] = s[i]
           /\ \A i \in 1..Len(w) : (s \o w)[Len(s) + i] = w[i]
           /\ \A i \in DOMAIN (s \o w) : (s \o w)[i] \in Samples
<1>1. /\ s \o w \in Seq(Samples) /\ Len(s \o w) = Len(s) + Len(w)
      /\ \A i \in 1..Len(s \o w) : (s \o w)[i] = IF i <= Len(s) THEN s[i] ELSE w[i - Len(s)]
  BY ConcatProperties
<1>2. /\ DOMAIN (s \o w) = 1..Len(s \o w) /\ Len(s) \in Nat /\ Len(w) \in Nat
      /\ Len(s \o w) \in Nat
  BY <1>1, LenProperties
<1>3. \A i \in 1..Len(s \o w) : (s \o w)[i] \in Samples
  BY <1>1, ElementOfSeq
<1> QED
  BY <1>1, <1>2, <1>3

(* The oldest sample is taken: by the board, or for good.                  *)
LEMMA TakeOldest ==
    ASSUME NEW s \in Seq(Samples), NEW w \in Seq(Samples), s # <<>>
    PROVE  /\ Tail(s) \in Seq(Samples) /\ Head(s) = (s \o w)[1] /\ Len(s) >= 1
           /\ Len(Tail(s) \o w) + 1 = Len(s \o w)
           /\ Segment(s \o w, Tail(s) \o w, 1)
<1>1. /\ Tail(s) \in Seq(Samples) /\ Len(Tail(s)) = Len(s) - 1 /\ Head(s) = s[1]
      /\ \A i \in 1..Len(Tail(s)) : Tail(s)[i] = s[i + 1]
  BY HeadTailProperties
<1>2. Len(s) \in Nat \ {0} /\ Len(Tail(s)) \in Nat
  BY <1>1, EmptySeq, LenProperties
<1>3. /\ Len(s \o w) = Len(s) + Len(w) /\ Len(Tail(s) \o w) = Len(Tail(s)) + Len(w)
      /\ Len(w) \in Nat /\ DOMAIN (Tail(s) \o w) = 1..Len(Tail(s) \o w)
  BY <1>1, FlowFacts
<1>4. ASSUME NEW i \in 1..Len(Tail(s) \o w)
      PROVE  (Tail(s) \o w)[i] = (s \o w)[i + 1]
  BY <1>1, <1>2, <1>3, ConcatProperties
<1>5. (s \o w)[1] = s[1]
  BY <1>2, FlowFacts
<1> QED
  BY <1>1, <1>2, <1>3, <1>4, <1>5 DEF Segment

(* A prefix of what arrived, when the stream is dropped.                   *)
LEMMA KeepPrefix ==
    ASSUME NEW s \in Seq(Samples), NEW w \in Seq(Samples), NEW r \in Prefixes(s)
    PROVE  r \in Seq(Samples) /\ r \o <<>> = r /\ Segment(s \o w, r, 0)
<1>1. PICK l \in 0..Len(s) : r = SubSeq(s, 1, l)
  BY DEF Prefixes
<1>2. /\ Len(s) \in Nat /\ Len(w) \in Nat /\ Len(s \o w) = Len(s) + Len(w)
      /\ \A i \in 1..Len(s) : (s \o w)[i] = s[i] /\ s[i] \in Samples
  BY FlowFacts, ElementOfSeq
<1>3. r \in Seq(Samples) /\ Len(r) = l /\ \A i \in 1..l : r[i] = s[i]
  BY <1>1, <1>2, SubSeqProperties
<1>4. DOMAIN r = 1..l
  BY <1>3, LenProperties
<1>5. r \o <<>> = r
  BY <1>3, ConcatEmptySeq
<1> QED
  BY <1>2, <1>3, <1>4, <1>5 DEF Segment

(* A sample arrives: the stream between bridge and board stays the same.   *)
LEMMA FlowArrives ==
    ASSUME NEW s \in Seq(Samples), NEW w \in Seq(Samples), w # <<>>
    PROVE  /\ Append(s, Head(w)) \o Tail(w) = s \o w
           /\ Append(s, Head(w)) \in Seq(Samples) /\ Tail(w) \in Seq(Samples)
           /\ Len(s) < Len(s \o w)
<1>1. /\ Head(w) \in Samples /\ Head(w) = w[1] /\ Tail(w) \in Seq(Samples)
      /\ Len(Tail(w)) = Len(w) - 1 /\ \A i \in 1..Len(Tail(w)) : Tail(w)[i] = w[i + 1]
  BY HeadTailProperties
<1>2. /\ Append(s, Head(w)) \in Seq(Samples) /\ Len(Append(s, Head(w))) = Len(s) + 1
      /\ \A i \in 1..Len(s) : Append(s, Head(w))[i] = s[i]
      /\ Append(s, Head(w))[Len(s) + 1] = Head(w)
  BY <1>1, AppendProperties
<1>3. Len(s) \in Nat /\ Len(w) \in Nat \ {0} /\ Len(s \o w) = Len(s) + Len(w)
  BY FlowFacts, EmptySeq
<1> DEFINE t == Append(s, Head(w)) \o Tail(w)
<1>4. /\ t \in Seq(Samples) /\ Len(t) = Len(s \o w) /\ s \o w \in Seq(Samples)
      /\ \A i \in 1..Len(t) :
           t[i] = IF i <= Len(s) + 1 THEN Append(s, Head(w))[i] ELSE Tail(w)[i - Len(s) - 1]
      /\ \A i \in 1..Len(t) : (s \o w)[i] = IF i <= Len(s) THEN s[i] ELSE w[i - Len(s)]
  BY <1>1, <1>2, <1>3, ConcatProperties
<1>5. \A i \in 1..Len(t) : t[i] = (s \o w)[i]
  <2> HIDE DEF t
  <2> SUFFICES ASSUME NEW i \in 1..Len(t) PROVE t[i] = (s \o w)[i]
    OBVIOUS
  <2>1. CASE i <= Len(s)
    BY <1>2, <1>3, <1>4, <2>1
  <2>2. CASE i = Len(s) + 1
    BY <1>1, <1>2, <1>3, <1>4, <2>2
  <2>3. CASE i > Len(s) + 1
    <3>1. i - Len(s) - 1 \in 1..Len(Tail(w))
      BY <1>1, <1>3, <1>4, <2>3
    <3> QED
      BY <1>1, <1>3, <1>4, <2>3, <3>1
  <2>4. i <= Len(s) \/ i = Len(s) + 1 \/ i > Len(s) + 1
    BY <1>3
  <2> QED
    BY <2>1, <2>2, <2>3, <2>4, Zenon
<1>6. t = s \o w
  BY <1>4, <1>5, SeqEqual
<1> QED
  BY <1>1, <1>2, <1>3, <1>6

(* The bridge sends: the stream grows at its young end.                    *)
LEMMA FlowGrows ==
    ASSUME NEW s \in Seq(Samples), NEW w \in Seq(Samples), NEW x \in Samples
    PROVE  s \o Append(w, x) = Append(s \o w, x) /\ Append(w, x) \in Seq(Samples)
<1>1. <<x>> \in Seq(Samples)
  OBVIOUS
<1>2. Append(w, x) = w \o <<x>> /\ s \o w \in Seq(Samples) /\ Append(w, x) \in Seq(Samples)
  BY AppendIsConcat, ConcatProperties, AppendProperties
<1>3. Append(s \o w, x) = (s \o w) \o <<x>>
  BY <1>2, AppendIsConcat
<1>4. (s \o w) \o <<x>> = s \o (w \o <<x>>)
  BY <1>1, ConcatAssociative
<1> QED
  BY <1>2, <1>3, <1>4

(* What arrived is discarded.                                              *)
LEMMA FlowDiscarded ==
    ASSUME NEW s \in Seq(Samples), NEW w \in Seq(Samples)
    PROVE  <<>> \o w = w /\ Len(<<>> \o w) + Len(s) = Len(s \o w) /\ Segment(s \o w, w, Len(s))
<1>1. <<>> \o w = w
  BY ConcatEmptySeq
<1>2. DOMAIN w = 1..Len(w)
  BY LenProperties
<1> QED
  BY <1>1, <1>2, FlowFacts DEF Segment

-----------------------------------------------------------------------------
(* Order on the stream                                                     *)

LEMMA OrderedSegment ==
    ASSUME NEW f \in Seq(Samples), NEW g \in Seq(Samples), NEW d \in Nat, Segment(f, g, d),
           NEW b \in Bridges, NEW c \in Bridges, Moves(b, c),
           NEW seen \in SUBSET Nat, Ordered(f, b, seen)
    PROVE  Ordered(g, c, seen)
<1>1. /\ DOMAIN f = 1..Len(f) /\ DOMAIN g = 1..Len(g) /\ Len(f) \in Nat /\ Len(g) \in Nat
      /\ \A i \in DOMAIN f : f[i] \in Samples
  BY LenProperties, ElementOfSeq
<1>2. \A i \in DOMAIN g : i \in Nat /\ i + d \in DOMAIN f /\ g[i] = f[i + d]
  BY <1>1 DEF Segment
<1>3. \A w \in Nat : Ahead(b, w) => Ahead(c, w)
  BY DEF Moves, Ahead, Bridges
<1>4. \A i \in DOMAIN g : g[i].world \in Nat
  BY <1>1, <1>2 DEF Samples
<1>5. ASSUME NEW i \in DOMAIN g, NEW j \in DOMAIN g, i < j
      PROVE  Ahead(g[j], g[i].world)
  <2>1. i + d \in DOMAIN f /\ j + d \in DOMAIN f /\ i + d < j + d
    BY <1>2, <1>5
  <2> QED
    BY <1>2, <2>1 DEF Ordered
<1>6. \A i \in DOMAIN g : Ahead(c, g[i].world)
  BY <1>2, <1>3, <1>4 DEF Ordered
<1>7. \A w \in seen : Ahead(c, w) /\ \A i \in DOMAIN g : Ahead(g[i], w)
  BY <1>2, <1>3 DEF Ordered
<1> QED
  BY <1>5, <1>6, <1>7, Zenon DEF Ordered

(* What is left comes after each sample that was taken.                    *)
LEMMA OrderedTaken ==
    ASSUME NEW f \in Seq(Samples), NEW g \in Seq(Samples), Segment(f, g, 1), f # <<>>,
           NEW b \in Bridges, NEW c \in Bridges, Moves(b, c),
           NEW seen \in SUBSET Nat, Ordered(f, b, seen)
    PROVE  /\ f[1] \in Samples /\ \A w \in seen : Ahead(f[1], w)
           /\ Ordered(g, c, seen \cup {f[1].world})
<1>1. /\ DOMAIN f = 1..Len(f) /\ DOMAIN g = 1..Len(g) /\ Len(f) \in Nat \ {0} /\ Len(g) \in Nat
      /\ \A i \in DOMAIN f : f[i] \in Samples
  BY LenProperties, ElementOfSeq, EmptySeq
<1>2. 1 \in DOMAIN f /\ f[1] \in Samples /\ f[1].world \in Nat
  BY <1>1 DEF Samples
<1>3. Ordered(g, c, seen)
  BY OrderedSegment
<1>4. \A i \in DOMAIN g : Ahead(g[i], f[1].world)
  <2>1. \A i \in DOMAIN g : i + 1 \in DOMAIN f /\ 1 < i + 1 /\ g[i] = f[i + 1]
    BY <1>1 DEF Segment
  <2> QED
    BY <1>2, <2>1 DEF Ordered
<1>5. Ahead(c, f[1].world)
  <2>1. Ahead(b, f[1].world)
    BY <1>2 DEF Ordered
  <2> QED
    BY <1>2, <2>1 DEF Moves, Ahead, Bridges
<1> QED
  BY <1>2, <1>3, <1>4, <1>5, Zenon DEF Ordered

(* The bridge's next sample joins the stream, and the one after it is of   *)
(* the same world.                                                         *)
LEMMA OrderedSent ==
    ASSUME NEW f \in Seq(Samples), NEW b \in Bridges, NEW c \in Bridges, NEW x \in Samples,
           x.world = b.world, x.first = b.first, c.world = b.world, c.first = FALSE,
           NEW seen \in SUBSET Nat, Ordered(f, b, seen)
    PROVE  Ordered(Append(f, x), c, seen)
<1> DEFINE g == Append(f, x)
<1>1. /\ DOMAIN f = 1..Len(f) /\ DOMAIN g = 1..(Len(f) + 1) /\ Len(f) \in Nat
      /\ g[Len(f) + 1] = x /\ \A i \in DOMAIN f : g[i] = f[i] /\ f[i] \in Samples
  BY LenProperties, ElementOfSeq, AppendProperties
<1> HIDE DEF g
<1>2. \A w \in Nat : Ahead(b, w) => Ahead(x, w) /\ Ahead(c, w)
  BY DEF Ahead, Bridges
<1>3. Ahead(c, x.world)
  BY DEF Ahead, Bridges
<1>4. \A i \in DOMAIN g : i \in DOMAIN f \/ i = Len(f) + 1
  BY <1>1
<1>5. \A i \in DOMAIN f : Ahead(x, f[i].world) /\ Ahead(c, f[i].world)
  BY <1>1, <1>2 DEF Ordered, Samples
<1>6. ASSUME NEW i \in DOMAIN g, NEW j \in DOMAIN g, i < j
      PROVE  Ahead(g[j], g[i].world)
  <2>1. i \in DOMAIN f
    BY <1>1, <1>6
  <2>2. CASE j \in DOMAIN f
    BY <1>1, <1>6, <2>1, <2>2 DEF Ordered
  <2>3. CASE j = Len(f) + 1
    BY <1>1, <1>5, <2>1, <2>3
  <2> QED
    BY <1>4, <2>2, <2>3
<1>7. \A i \in DOMAIN g : Ahead(c, g[i].world)
  BY <1>1, <1>3, <1>4, <1>5, Zenon
<1>8. ASSUME NEW w \in seen
      PROVE  Ahead(c, w) /\ \A i \in DOMAIN g : Ahead(g[i], w)
  BY <1>1, <1>2, <1>4 DEF Ordered
<1> QED
  BY <1>6, <1>7, <1>8, Zenon DEF Ordered, g

LEMMA ChainedSegment ==
    ASSUME NEW f \in Seq(Samples), NEW g \in Seq(Samples), NEW d \in Nat, Segment(f, g, d),
           Chained(f)
    PROVE  Chained(g)
<1>1. /\ DOMAIN f = 1..Len(f) /\ DOMAIN g = 1..Len(g) /\ Len(f) \in Nat /\ Len(g) \in Nat
  BY LenProperties
<1>2. \A i \in DOMAIN g : i + d \in DOMAIN f /\ g[i] = f[i + d]
  BY <1>1 DEF Segment
<1> SUFFICES ASSUME NEW i \in DOMAIN g, i + 1 \in DOMAIN g
             PROVE  Follows(g[i + 1], g[i].world)
  BY DEF Chained
<1>3. i + d \in DOMAIN f /\ (i + d) + 1 \in DOMAIN f /\ (i + 1) + d = (i + d) + 1
  BY <1>1, <1>2
<1> QED
  BY <1>2, <1>3 DEF Chained

LEMMA ChainedSent ==
    ASSUME NEW f \in Seq(Samples), NEW x \in Samples,
           Chained(f), f # <<>> => Follows(x, f[Len(f)].world)
    PROVE  /\ Chained(Append(f, x)) /\ Append(f, x) # <<>>
           /\ Append(f, x)[Len(Append(f, x))] = x
           /\ Append(f, x)[1] = IF f = <<>> THEN x ELSE f[1]
<1> DEFINE g == Append(f, x)
<1>1. /\ DOMAIN f = 1..Len(f) /\ DOMAIN g = 1..(Len(f) + 1) /\ Len(f) \in Nat
      /\ g[Len(f) + 1] = x /\ \A i \in DOMAIN f : g[i] = f[i]
      /\ Len(g) = Len(f) + 1 /\ g # <<>>
  BY LenProperties, AppendProperties
<1>2. f # <<>> <=> Len(f) # 0
  BY EmptySeq
<1> HIDE DEF g
<1>3. ASSUME NEW i \in DOMAIN g, i + 1 \in DOMAIN g
      PROVE  Follows(g[i + 1], g[i].world)
  <2>1. i \in DOMAIN f
    BY <1>1, <1>3
  <2>2. CASE i + 1 \in DOMAIN f
    BY <1>1, <2>1, <2>2 DEF Chained
  <2>3. CASE i = Len(f)
    BY <1>1, <1>2, <2>1, <2>3
  <2> QED
    BY <1>1, <2>1, <2>2, <2>3
<1>4. g[1] = IF f = <<>> THEN x ELSE f[1]
  BY <1>1, <1>2
<1> QED
  BY <1>1, <1>3, <1>4 DEF Chained, g

(* Seen less, or no world at all.                                          *)
LEMMA OrderedSeen ==
    ASSUME NEW f \in Seq(Samples), NEW b \in Bridges, NEW seen, NEW less,
           Ordered(f, b, seen), less \subseteq seen \cup {0}
    PROVE  Ordered(f, b, less)
<1>1. \A i \in DOMAIN f : f[i] \in Samples
  BY ElementOfSeq, LenProperties
<1>2. Ahead(b, 0) /\ \A i \in DOMAIN f : Ahead(f[i], 0)
  BY <1>1 DEF Ahead, Bridges, Samples
<1> QED
  BY <1>2 DEF Ordered

LEMMA HeraldsSegment ==
    ASSUME NEW f \in Seq(Samples), NEW g \in Seq(Samples), NEW d \in Nat, Segment(f, g, d),
           NEW b \in Bridges, NEW c \in Bridges, Moves(b, c), Heralds(f, b)
    PROVE  Heralds(g, c)
<1>1. \A i \in DOMAIN g : i + d \in DOMAIN f /\ g[i] = f[i + d]
  BY LenProperties DEF Segment
<1> QED
  BY <1>1 DEF Heralds, Moves

LEMMA HeraldsSent ==
    ASSUME NEW f \in Seq(Samples), NEW b, NEW c, NEW x \in Samples,
           x.first = b.first, x.reset = b.flag, c.flag = FALSE, Heralds(f, b)
    PROVE  Heralds(Append(f, x), c)
<1>1. \A i \in DOMAIN Append(f, x) :
        \/ i \in DOMAIN f /\ Append(f, x)[i] = f[i]
        \/ Append(f, x)[i] = x
  BY LenProperties, AppendProperties
<1> QED
  BY <1>1 DEF Heralds

LEMMA BeyondSegment ==
    ASSUME NEW f \in Seq(Samples), NEW g \in Seq(Samples), NEW d \in Nat, Segment(f, g, d),
           NEW b \in Bridges, NEW c \in Bridges, Moves(b, c), NEW w \in Nat, Beyond(f, b, w)
    PROVE  Beyond(g, c, w)
<1>1. \A i \in DOMAIN g : i + d \in DOMAIN f /\ g[i] = f[i + d]
  BY LenProperties DEF Segment
<1>2. c.world > w
  BY DEF Beyond, Moves, Bridges
<1> QED
  BY <1>1, <1>2 DEF Beyond

LEMMA BeyondSent ==
    ASSUME NEW f \in Seq(Samples), NEW b, NEW c, NEW x \in Samples, NEW w,
           x.world = b.world, c.world = b.world, Beyond(f, b, w)
    PROVE  Beyond(Append(f, x), c, w)
<1>1. \A i \in DOMAIN Append(f, x) :
        \/ i \in DOMAIN f /\ Append(f, x)[i] = f[i]
        \/ Append(f, x)[i] = x
  BY LenProperties, AppendProperties
<1> QED
  BY <1>1 DEF Beyond

(* Behind a world that is later than w everything is later than w.         *)
LEMMA BeyondOrdered ==
    ASSUME NEW f \in Seq(Samples), NEW b \in Bridges, NEW seen, Ordered(f, b, seen),
           NEW v \in seen, v \in Nat, NEW w \in Nat, v > w
    PROVE  Beyond(f, b, w)
<1>1. \A i \in DOMAIN f : f[i] \in Samples /\ Ahead(f[i], v)
  BY ElementOfSeq, LenProperties DEF Ordered
<1>2. Ahead(b, v)
  BY DEF Ordered
<1> QED
  BY <1>1, <1>2 DEF Ahead, Beyond, Bridges, Samples

(* Both ends of what is left.                                              *)
LEMMA SegmentEnds ==
    ASSUME NEW f \in Seq(Samples), NEW g \in Seq(Samples), NEW d \in Nat, Segment(f, g, d)
    PROVE  /\ g # <<>> => f # <<>> /\ 1 \in DOMAIN f /\ 1 + d \in DOMAIN f /\ g[1] = f[1 + d]
           /\ g # <<>> /\ Len(g) + d = Len(f) => g[Len(g)] = f[Len(f)]
           /\ g = <<>> /\ Len(g) + d = Len(f) => Len(f) = d /\ (d = 0 => f = <<>>)
<1>1. DOMAIN f = 1..Len(f) /\ DOMAIN g = 1..Len(g) /\ Len(f) \in Nat /\ Len(g) \in Nat
  BY LenProperties
<1>2. (f = <<>> <=> Len(f) = 0) /\ (g = <<>> <=> Len(g) = 0)
  BY EmptySeq
<1>3. \A i \in DOMAIN g : g[i] = f[i + d]
  BY DEF Segment
<1>4. Len(g) + d <= Len(f)
  BY DEF Segment
<1>5. ASSUME g # <<>>
      PROVE  /\ 1 \in DOMAIN g /\ Len(g) \in DOMAIN g
             /\ 1 \in DOMAIN f /\ 1 + d \in DOMAIN f /\ f # <<>>
  <2>1. Len(g) >= 1 /\ Len(f) >= 1 + d /\ Len(f) # 0
    BY <1>1, <1>2, <1>4, <1>5
  <2> QED
    BY <1>1, <1>2, <2>1
<1>6. g # <<>> => g[1] = f[1 + d] /\ g[Len(g)] = f[Len(g) + d]
  BY <1>3, <1>5
<1>7. ASSUME g = <<>>, Len(g) + d = Len(f)
      PROVE  Len(f) = d /\ (d = 0 => f = <<>>)
  <2>1. Len(g) = 0 /\ Len(g) + d = Len(f)
    BY <1>2, <1>7, Zenon
  <2>2. \A m, n \in Nat : n = 0 /\ n + d = m => m = d
    OBVIOUS
  <2>3. Len(f) = d
    BY <1>1, <2>1, <2>2, Zenon
  <2> QED
    BY <1>2, <2>3, Zenon
<1> QED
  BY <1>5, <1>6, <1>7

(* The chain holds while it loses its oldest samples; on a stream that is  *)
(* still open it has lost no more.                                         *)
LEMMA ChainMoved ==
    ASSUME NEW f \in Seq(Samples), NEW g \in Seq(Samples), NEW d \in Nat, Segment(f, g, d),
           NEW b \in Bridges, NEW c \in Bridges, Moves(b, c),
           NEW open, NEW after, after => open /\ Len(g) + d = Len(f),
           Unbroken(f, b, open)
    PROVE  /\ Unbroken(g, c, after)
           /\ \A w : d = 0 /\ NextFollows(f, b, open, w) => NextFollows(g, c, after, w)
           /\ d = 1 /\ f # <<>> => NextFollows(g, c, after, f[1].world)
<1>1. /\ g # <<>> => f # <<>> /\ 1 \in DOMAIN f /\ 1 + d \in DOMAIN f /\ g[1] = f[1 + d]
      /\ g # <<>> /\ Len(g) + d = Len(f) => g[Len(g)] = f[Len(f)]
      /\ g = <<>> /\ Len(g) + d = Len(f) => Len(f) = d /\ (d = 0 => f = <<>>)
  BY SegmentEnds
<1>2. 1 + 0 = 1
  OBVIOUS
<1>3. \A w : Follows(b, w) => Follows(c, w)
  BY DEF Follows, Moves
<1>4. Unbroken(g, c, after)
  <2>1. Chained(g)
    BY ChainedSegment DEF Unbroken
  <2>2. ASSUME after, g # <<>> PROVE Follows(c, g[Len(g)].world)
    BY <1>1, <1>3, <2>2, Zenon DEF Unbroken
  <2> QED
    BY <2>1, <2>2, Zenon DEF Unbroken
<1>5. ASSUME NEW w, d = 0, NextFollows(f, b, open, w)
      PROVE  NextFollows(g, c, after, w)
  BY <1>1, <1>2, <1>3, <1>5, Zenon DEF NextFollows
<1>6. ASSUME d = 1, f # <<>>
      PROVE  NextFollows(g, c, after, f[1].world)
  <2>1. g # <<>> => Follows(g[1], f[1].world)
    BY <1>1, <1>6, Zenon DEF Unbroken, Chained
  <2>2. after /\ g = <<>> => open /\ f[1] = f[Len(f)]
    BY <1>1, <1>6, Zenon
  <2> QED
    BY <1>3, <1>6, <2>1, <2>2, Zenon DEF NextFollows, Unbroken
<1> QED
  BY <1>4, <1>5, <1>6, Zenon

-----------------------------------------------------------------------------
(* What a step does to the stream                                          *)

(* It loses its d oldest samples; only a dropped stream loses more.        *)
Moved(d) ==
    /\ d \in Nat /\ Segment(Flow, Flow', d) /\ Moves(bridge, bridge')
    /\ Len(Flow') + d <= Len(Flow)
    /\ link' = "up" => link = "up" /\ Len(Flow') + d = Len(Flow)

StreamTypes ==
    /\ bridge \in Bridges /\ link \in {"up", "closed", "down"}
    /\ wire \in Seq(Samples) /\ sensors \in Seq(Samples)

(* A world that begins, with its first sample marked or not.               *)
LEMMA WorldBegins ==
    ASSUME NEW b \in Bridges, NEW v \in BOOLEAN,
           NEW c, c = [b EXCEPT !.world = @ + 1, !.first = TRUE, !.flag = v]
    PROVE  /\ c \in Bridges /\ c.world = b.world + 1 /\ c.first = TRUE
           /\ c.unanswered = b.unanswered
<1>1. PICK x : x = [b EXCEPT !.world = @ + 1]
  OBVIOUS
<1>2. x \in Bridges /\ x.world = b.world + 1 /\ x.unanswered = b.unanswered
  BY <1>1 DEF Bridges
<1>3. PICK y : y = [x EXCEPT !.first = TRUE]
  OBVIOUS
<1>4. y \in Bridges /\ y.world = b.world + 1 /\ y.unanswered = b.unanswered /\ y.first = TRUE
  BY <1>2, <1>3 DEF Bridges
<1>5. c = [y EXCEPT !.flag = v]
  BY <1>1, <1>3
<1> QED
  BY <1>4, <1>5 DEF Bridges

(* The bridge after it sent a sample.                                      *)
LEMMA WorldGoesOn ==
    ASSUME NEW b \in Bridges, b.unanswered < BURST,
           NEW c, c = [b EXCEPT !.first = FALSE, !.flag = FALSE, !.unanswered = @ + 1]
    PROVE  /\ c \in Bridges /\ c.world = b.world /\ c.first = FALSE /\ c.flag = FALSE
           /\ c.unanswered = b.unanswered + 1
<1>0. b.unanswered + 1 \in 0..BURST
  BY SizesAssumption DEF Bridges
<1>1. PICK x : x = [b EXCEPT !.first = FALSE]
  OBVIOUS
<1>2. x \in Bridges /\ x.world = b.world /\ x.first = FALSE /\ x.unanswered = b.unanswered
  BY <1>1 DEF Bridges
<1>3. PICK y : y = [x EXCEPT !.flag = FALSE]
  OBVIOUS
<1>4. /\ y \in Bridges /\ y.world = b.world /\ y.first = FALSE /\ y.flag = FALSE
      /\ y.unanswered = b.unanswered
  BY <1>2, <1>3 DEF Bridges
<1>5. c = [y EXCEPT !.unanswered = b.unanswered + 1]
  BY <1>1, <1>2, <1>3, <1>4
<1> QED
  BY <1>0, <1>4, <1>5 DEF Bridges

LEMMA HearsFacts ==
    ASSUME NEW b \in Bridges, NEW flying, NEW request \in BOOLEAN,
           NEW c \in Hears(b, flying, request)
    PROVE  /\ c \in Bridges /\ Moves(b, c)
           /\ c.unanswered = IF b.unanswered = 0 THEN 0 ELSE b.unanswered - 1
<1>1. PICK u, counted, reborn :
        /\ u = IF b.unanswered = 0 THEN 0 ELSE b.unanswered - 1
        /\ counted = [b EXCEPT !.unanswered = u]
        /\ reborn = [counted EXCEPT !.world = @ + 1, !.first = TRUE, !.flag = TRUE]
        /\ c = counted \/ c = reborn
  BY Zenon DEF Hears
<1>2. u \in 0..BURST
  BY <1>1, SizesAssumption DEF Bridges
<1>3. /\ counted \in Bridges /\ counted.unanswered = u
      /\ counted.world = b.world /\ counted.first = b.first /\ counted.flag = b.flag
  <2>1. counted = [b EXCEPT !.unanswered = u]
    BY <1>1
  <2> QED
    BY <1>2, <2>1 DEF Bridges
<1>4. /\ reborn \in Bridges /\ reborn.unanswered = u
      /\ reborn.world = b.world + 1 /\ reborn.first = TRUE
  <2>1. PICK x : x = [counted EXCEPT !.world = @ + 1]
    OBVIOUS
  <2>2. x \in Bridges /\ x.world = b.world + 1 /\ x.unanswered = u
    BY <1>3, <2>1 DEF Bridges
  <2>3. PICK y : y = [x EXCEPT !.first = TRUE]
    OBVIOUS
  <2>4. y \in Bridges /\ y.world = b.world + 1 /\ y.unanswered = u /\ y.first = TRUE
    BY <2>2, <2>3 DEF Bridges
  <2>5. reborn = [y EXCEPT !.flag = TRUE]
    BY <1>1, <2>1, <2>3, Zenon
  <2> QED
    BY <2>4, <2>5 DEF Bridges
<1> QED
  BY <1>1, <1>3, <1>4 DEF Moves

(* send_message: what is left of the samples that arrived is rest.         *)
LEMMA SentFacts ==
    ASSUME StreamTypes, unheard \in BOOLEAN,
           NEW rest, NEW request \in BOOLEAN, NEW ok \in BOOLEAN, NEW d \in Nat,
           Sent(rest, request, ok),
           \/ rest = <<>> /\ d = Len(sensors)
           \/ sensors # <<>> /\ rest = Tail(sensors) /\ d = 1
    PROVE  /\ StreamTypes' /\ unheard' \in BOOLEAN /\ Moved(d)
           /\ ~ok => bridge' = bridge
           /\ bridge'.unanswered + 1 >= bridge.unanswered
           /\ link' = "up" /\ ~unheard' =>
                 /\ ~unheard
                 /\ bridge'.unanswered = IF bridge.unanswered = 0 THEN 0 ELSE bridge.unanswered - 1
<1>1. /\ rest \in Seq(Samples) /\ Segment(Flow, rest \o wire, d)
      /\ Len(rest \o wire) + d = Len(Flow)
  <2>1. CASE rest = <<>> /\ d = Len(sensors)
    BY <2>1, FlowDiscarded, EmptySeq DEF StreamTypes, Flow
  <2>2. CASE sensors # <<>> /\ rest = Tail(sensors) /\ d = 1
    BY <2>2, TakeOldest DEF StreamTypes, Flow
  <2> QED
    BY <2>1, <2>2
<1>2. Moves(bridge, bridge)
  BY DEF Moves
<1>3. bridge.unanswered \in Nat
  BY SizesAssumption DEF StreamTypes, Bridges
<1>4. CASE /\ ok /\ link = "up"
           /\ bridge' \in Hears(bridge, wire \o rest, request)
           /\ sensors' = rest
           /\ UNCHANGED <<link, wire, unheard>>
  <2>1. /\ bridge' \in Bridges /\ Moves(bridge, bridge')
        /\ bridge'.unanswered = IF bridge.unanswered = 0 THEN 0 ELSE bridge.unanswered - 1
    BY <1>4, HearsFacts DEF StreamTypes
  <2>2. Flow' = rest \o wire
    BY <1>4 DEF Flow
  <2> QED
    BY <1>1, <1>3, <1>4, <2>1, <2>2 DEF StreamTypes, Moved
<1>5. CASE /\ link = IF ok THEN "closed" ELSE "up"
           /\ sensors' = rest /\ unheard' = TRUE
           /\ UNCHANGED <<bridge, link, wire>>
  <2>1. Flow' = rest \o wire
    BY <1>5 DEF Flow
  <2>2. ~ok => link = "up"
    BY <1>5
  <2> QED
    BY <1>1, <1>2, <1>3, <1>5, <2>1 DEF StreamTypes, Moved
<1>6. CASE /\ ~ok /\ link # "down"
           /\ link' = "down" /\ wire' = <<>> /\ sensors' \in Prefixes(rest)
           /\ unheard' = TRUE
           /\ UNCHANGED bridge
  <2>1. /\ sensors' \in Seq(Samples) /\ Flow' = sensors' /\ Segment(rest \o wire, sensors', 0)
        /\ <<>> \in Seq(Samples)
    BY <1>1, <1>6, KeepPrefix, EmptySeq DEF StreamTypes, Flow
  <2>2. Segment(Flow, Flow', d) /\ Len(Flow') + d <= Len(Flow)
    <3>1. /\ Len(sensors') \in Nat /\ Len(rest \o wire) \in Nat /\ Len(Flow) \in Nat
          /\ DOMAIN sensors' = 1..Len(sensors') /\ DOMAIN (rest \o wire) = 1..Len(rest \o wire)
      BY <1>1, <2>1, FlowFacts, LenProperties DEF StreamTypes, Flow
    <3>2. /\ Len(sensors') <= Len(rest \o wire)
          /\ \A i \in DOMAIN sensors' : sensors'[i] = (rest \o wire)[i]
      BY <2>1, <3>1 DEF Segment
    <3>3. \A i \in DOMAIN (rest \o wire) : (rest \o wire)[i] = Flow[i + d]
      BY <1>1 DEF Segment
    <3>4. \A i \in DOMAIN sensors' : i \in DOMAIN (rest \o wire)
      BY <3>1, <3>2
    <3>5. \A i \in DOMAIN sensors' : sensors'[i] = Flow[i + d]
      BY <3>2, <3>3, <3>4
    <3>6. Len(sensors') + d <= Len(Flow)
      BY <1>1, <3>1, <3>2
    <3> QED
      BY <2>1, <3>5, <3>6 DEF Segment
  <2> QED
    BY <1>2, <1>3, <1>6, <2>1, <2>2 DEF StreamTypes, Moved
<1>7. CASE /\ ~ok /\ link = "down"
           /\ sensors' = rest
           /\ UNCHANGED <<bridge, link, wire, unheard>>
  <2>1. Flow' = rest \o wire
    BY <1>7 DEF Flow
  <2> QED
    BY <1>1, <1>2, <1>3, <1>7, <2>1 DEF StreamTypes, Moved
<1> QED
  BY <1>4, <1>5, <1>6, <1>7 DEF Sent

-----------------------------------------------------------------------------
(* The gate and the runner                                                 *)

Gates == [accepted : BOOLEAN, last : Nat, intervals : 0..EVIDENCE_INTERVALS,
          verified : BOOLEAN, failed : BOOLEAN]
Kernels == {"Init", "Ready", "Armed"}

(* observe_timestamp: failure and the handshake are for good, a clock that *)
(* goes back is a failure, and otherwise the sample is the last one seen.  *)
LEMMA GateFacts ==
    ASSUME gate \in Gates, NEW s \in Samples, NEW regressed \in BOOLEAN, NEW rate_ok \in BOOLEAN,
           NEW g, g = observe_timestamp(s, regressed, rate_ok)
    PROVE  /\ g \in Gates /\ g.accepted = gate.accepted
           /\ gate.failed \/ ~gate.accepted => g = gate
           /\ ~gate.failed /\ gate.accepted /\ regressed => g.failed /\ g.last = gate.last
           /\ ~gate.failed /\ gate.accepted /\ ~regressed =>
                 /\ g.last = s.world
                 /\ gate.verified => g.verified /\ ~g.failed
<1> DEFINE n == IF gate.last = NoWorld THEN gate.intervals
                ELSE IF gate.intervals < EVIDENCE_INTERVALS THEN gate.intervals + 1
                ELSE gate.intervals
           seen == [gate EXCEPT !.last = s.world]
           on == [seen EXCEPT !.intervals = n]
           out == [gate EXCEPT !.failed = TRUE]
<1>1. /\ n \in 0..EVIDENCE_INTERVALS /\ s.world \in Nat
  BY SizesAssumption DEF Gates, Samples
<1>2. /\ seen \in Gates /\ seen.last = s.world /\ seen.accepted = gate.accepted
      /\ seen.verified = gate.verified /\ seen.failed = gate.failed
  BY <1>1 DEF Gates
<1>3. /\ on \in Gates /\ on.last = s.world /\ on.accepted = gate.accepted
      /\ on.verified = gate.verified /\ on.failed = gate.failed
  <2> HIDE DEF seen, n
  <2> QED
    BY <1>1, <1>2 DEF Gates
<1>4. /\ [on EXCEPT !.verified = TRUE] \in Gates /\ [on EXCEPT !.verified = TRUE].verified
      /\ [on EXCEPT !.verified = TRUE].last = on.last
      /\ [on EXCEPT !.verified = TRUE].failed = on.failed
      /\ [on EXCEPT !.verified = TRUE].accepted = on.accepted
  <2> HIDE DEF on
  <2> QED
    BY <1>3 DEF Gates
<1>5. /\ [on EXCEPT !.failed = TRUE] \in Gates
      /\ [on EXCEPT !.failed = TRUE].last = on.last
      /\ [on EXCEPT !.failed = TRUE].accepted = on.accepted
  <2> HIDE DEF on
  <2> QED
    BY <1>3 DEF Gates
<1>6. /\ out \in Gates /\ out.failed /\ out.last = gate.last /\ out.accepted = gate.accepted
  BY DEF Gates
<1>7. /\ [out EXCEPT !.verified = FALSE] \in Gates /\ [out EXCEPT !.verified = FALSE].failed
      /\ [out EXCEPT !.verified = FALSE].last = out.last
      /\ [out EXCEPT !.verified = FALSE].accepted = out.accepted
  <2> HIDE DEF out
  <2> QED
    BY <1>6 DEF Gates
<1>8. g = IF gate.failed \/ ~gate.accepted THEN gate
          ELSE IF regressed THEN [out EXCEPT !.verified = FALSE]
          ELSE IF gate.verified \/ n < EVIDENCE_INTERVALS THEN on
          ELSE IF rate_ok THEN [on EXCEPT !.verified = TRUE]
          ELSE [on EXCEPT !.failed = TRUE]
  BY DEF observe_timestamp
<1> HIDE DEF on, out, n, seen
<1> QED
  BY <1>3, <1>4, <1>5, <1>6, <1>7, <1>8

(* A pass: only an authorized Arm makes a vehicle Armed that was not.      *)
LEMMA PassFacts ==
    ASSUME NEW k \in Kernels, NEW authorized \in BOOLEAN, NEW artifact_ok \in BOOLEAN,
           NEW pass \in RunnerPass(k, authorized, artifact_ok)
    PROVE  /\ pass[1] \in Kernels /\ pass[2] \in BOOLEAN /\ pass[3] \in BOOLEAN /\ pass[4] \in BOOLEAN
           /\ pass[2] <=> pass[1] = "Armed"
           /\ pass[1] = "Armed" => k = "Armed" \/ pass[4]
           /\ pass[4] => authorized
<1> DEFINE Advanced(s) == IF s = "Init" THEN {"Init", "Ready"} ELSE {s}
           Pass(s, changed, armed) == {<<a, a = "Armed", changed, armed>> : a \in Advanced(s)}
<1>1. \/ \E changed \in BOOLEAN : pass \in Pass(k, changed, FALSE)
      \/ pass \in Pass("Init", FALSE, FALSE)
      \/ authorized /\ k = "Ready" /\ pass \in Pass("Armed", FALSE, TRUE)
  BY DEF RunnerPass
<1>2. ASSUME NEW s \in Kernels, NEW changed \in BOOLEAN, NEW armed \in BOOLEAN,
             pass \in Pass(s, changed, armed)
      PROVE  /\ pass[1] \in Kernels /\ pass[2] \in BOOLEAN /\ pass[3] \in BOOLEAN
             /\ pass[4] = armed
             /\ pass[2] <=> pass[1] = "Armed"
             /\ pass[1] = "Armed" => s = "Armed"
  <2>1. PICK a \in Advanced(s) : pass = <<a, a = "Armed", changed, armed>>
    BY <1>2
  <2>2. a \in Kernels /\ (a = "Armed" => s = "Armed")
    BY DEF Kernels
  <2>3. pass[1] = a /\ pass[2] = (a = "Armed") /\ pass[3] = changed /\ pass[4] = armed
    BY <2>1
  <2> QED
    BY <2>2, <2>3
<1> HIDE DEF Pass
<1>3. "Init" \in Kernels /\ "Armed" \in Kernels
  BY DEF Kernels
<1>4. CASE \E changed \in BOOLEAN : pass \in Pass(k, changed, FALSE)
  BY <1>2, <1>4
<1>5. CASE pass \in Pass("Init", FALSE, FALSE)
  BY <1>2, <1>3, <1>5
<1>6. CASE authorized /\ k = "Ready" /\ pass \in Pass("Armed", FALSE, TRUE)
  BY <1>2, <1>3, <1>6
<1> QED
  BY <1>1, <1>4, <1>5, <1>6

(* process_sample: an answer is armed, and a kernel flies on, only if it   *)
(* flew before and the gate did not fail, or if the gate let it arm.       *)
StillFlies(g) == kernel = "Armed" /\ via = "board" /\ ~(g.failed /\ ~gate.failed)

LEMMA ProcessFacts ==
    ASSUME TypeOK, NEW s \in Samples,
           NEW ok \in BOOLEAN, NEW sensor_ok \in BOOLEAN, NEW actuator_ok \in BOOLEAN,
           NEW artifact_ok \in BOOLEAN,
           process_sample(s, ok, sensor_ok, actuator_ok, artifact_ok)
    PROVE  /\ gate' \in Gates /\ failures' \subseteq {"perturbation", "artifact"}
           /\ kernel' \in Kernels /\ via' \in {"board", "nobody"}
           /\ answer' \in [world : Nat, armed : BOOLEAN] /\ answer'.world = s.world
           /\ home' = IF gate.last = NoWorld /\ gate'.last # NoWorld THEN s.world ELSE home
           /\ \E regressed \in Regressions(s), rate_ok \in BOOLEAN :
                gate' = observe_timestamp(s, regressed, rate_ok)
           /\ answer'.armed => kernel' # "Ready"
           /\ (kernel' = "Armed" \/ answer'.armed) /\ via' = "board" =>
                is_verified(gate') \/ StillFlies(gate')
<1>1. PICK regressed \in Regressions(s), rate_ok \in BOOLEAN :
        LET g  == observe_timestamp(s, regressed, rate_ok)
            f  == IF sensor_ok THEN failures ELSE failures \cup {"perturbation"}
            k  == IF (g.failed /\ ~gate.failed) \/ ~sensor_ok THEN "Init" ELSE kernel
        IN  \E pass \in RunnerPass(k, Authorized(g, f), artifact_ok) :
              LET fs == UNION {f, IF pass[3] THEN {"artifact"} ELSE {},
                               IF perturbed /\ "perturbation" \notin f /\ ~(ok /\ actuator_ok)
                               THEN {"perturbation"} ELSE {}}
              IN  /\ gate' = g
                  /\ failures' = fs
                  /\ kernel' = IF "artifact" \in fs \/ ~ok \/ fs # f THEN "Init" ELSE pass[1]
                  /\ via' = IF pass[4] THEN "board" ELSE via
                  /\ answer' = [world |-> s.world, armed |-> pass[2] /\ actuator_ok]
                  /\ home' = IF gate.last = NoWorld /\ g.last # NoWorld THEN s.world ELSE home
  BY DEF process_sample
<1>2. PICK g, f, k, fs :
        /\ g = observe_timestamp(s, regressed, rate_ok)
        /\ f = IF sensor_ok THEN failures ELSE failures \cup {"perturbation"}
        /\ k = IF (g.failed /\ ~gate.failed) \/ ~sensor_ok THEN "Init" ELSE kernel
        /\ gate' = g /\ failures' = fs
        /\ home' = IF gate.last = NoWorld /\ g.last # NoWorld THEN s.world ELSE home
        /\ \E pass \in RunnerPass(k, Authorized(g, f), artifact_ok) :
              /\ fs = UNION {f, IF pass[3] THEN {"artifact"} ELSE {},
                             IF perturbed /\ "perturbation" \notin f /\ ~(ok /\ actuator_ok)
                             THEN {"perturbation"} ELSE {}}
              /\ kernel' = IF "artifact" \in fs \/ ~ok \/ fs # f THEN "Init" ELSE pass[1]
              /\ via' = IF pass[4] THEN "board" ELSE via
              /\ answer' = [world |-> s.world, armed |-> pass[2] /\ actuator_ok]
  BY <1>1, Zenon
<1>3. PICK pass \in RunnerPass(k, Authorized(g, f), artifact_ok) :
        /\ fs = UNION {f, IF pass[3] THEN {"artifact"} ELSE {},
                       IF perturbed /\ "perturbation" \notin f /\ ~(ok /\ actuator_ok)
                       THEN {"perturbation"} ELSE {}}
        /\ kernel' = IF "artifact" \in fs \/ ~ok \/ fs # f THEN "Init" ELSE pass[1]
        /\ via' = IF pass[4] THEN "board" ELSE via
        /\ answer' = [world |-> s.world, armed |-> pass[2] /\ actuator_ok]
  BY <1>2
<1>4. /\ gate \in Gates /\ kernel \in Kernels /\ via \in {"board", "nobody"}
      /\ failures \subseteq {"perturbation", "artifact"} /\ regressed \in BOOLEAN
  BY DEF TypeOK, Gates, Kernels, Regressions
<1>5. g \in Gates
  BY <1>2, <1>4, GateFacts
<1>6. k \in Kernels /\ Authorized(g, f) \in BOOLEAN
  BY <1>2, <1>4 DEF Kernels, Authorized
<1>7. /\ pass[1] \in Kernels /\ pass[2] \in BOOLEAN /\ pass[3] \in BOOLEAN /\ pass[4] \in BOOLEAN
      /\ pass[2] <=> pass[1] = "Armed"
      /\ pass[1] = "Armed" => k = "Armed" \/ pass[4]
      /\ pass[4] => Authorized(g, f)
  BY <1>6, PassFacts
<1>8. failures' \subseteq {"perturbation", "artifact"}
  <2>1. f \subseteq {"perturbation", "artifact"}
    BY <1>2, <1>4
  <2> QED
    BY <1>2, <1>3, <2>1
<1>9. kernel' \in {"Init", pass[1]}
  BY <1>3
<1>10. kernel' \in Kernels /\ via' \in {"board", "nobody"}
  BY <1>3, <1>4, <1>7, <1>9 DEF Kernels
<1>11. /\ answer' \in [world : Nat, armed : BOOLEAN] /\ answer'.world = s.world
       /\ answer'.armed => pass[1] = "Armed"
  BY <1>3, <1>7 DEF Samples
<1>12. answer'.armed => kernel' # "Ready"
  BY <1>9, <1>11
<1>13. pass[1] = "Armed" /\ via' = "board" => is_verified(gate') \/ StillFlies(gate')
  <2>1. CASE pass[4]
    BY <1>2, <1>7, <2>1 DEF Authorized
  <2>2. CASE ~pass[4]
    BY <1>2, <1>3, <1>7, <2>2 DEF StillFlies
  <2> QED
    BY <1>7, <2>1, <2>2
<1>14. kernel' = "Armed" => pass[1] = "Armed"
  BY <1>9
<1>15. \E r \in Regressions(s), q \in BOOLEAN : gate' = observe_timestamp(s, r, q)
  BY <1>2
<1> QED
  BY <1>2, <1>5, <1>8, <1>10, <1>11, <1>12, <1>13, <1>14, <1>15, Zenon

(* step_ends: the last pass of a step arms for nobody.                     *)
LEMMA EndFacts ==
    ASSUME TypeOK, step_ends
    PROVE  /\ answered' = NoStep /\ kernel' \in Kernels /\ via' \in {"board", "nobody"}
           /\ session' \in [lifecycle : {"Converging", "Ready", "Resetting", "Stopped"},
                            generation : 1..(MaxResets + 1)]
           /\ session'.generation = session.generation
           /\ UNCHANGED <<gate, perturbed, failures, before, answer>>
           /\ kernel' = "Armed" /\ via' = "board" => kernel = "Armed" /\ via = "board"
           /\ via' = "board" => via = "board"
           /\ answered # 0 => kernel' = kernel
<1>1. PICK pass \in IF answered = 0 /\ session.lifecycle # "Resetting"
                    THEN RunnerPass(kernel, TRUE, TRUE) ELSE {<<kernel, FALSE, FALSE, FALSE>>} :
        /\ kernel' = pass[1]
        /\ via' = IF pass[4] THEN "nobody" ELSE via
        /\ observe_health(pass[1])
  BY DEF step_ends
<1>2. kernel \in Kernels /\ via \in {"board", "nobody"}
  BY DEF TypeOK, Kernels
<1>3. /\ pass[1] \in Kernels /\ pass[4] \in BOOLEAN
      /\ pass[1] = "Armed" => kernel = "Armed" \/ pass[4]
      /\ answered # 0 => pass[1] = kernel
  <2>1. CASE answered = 0 /\ session.lifecycle # "Resetting"
    BY <1>1, <1>2, <2>1, PassFacts
  <2>2. CASE ~(answered = 0 /\ session.lifecycle # "Resetting")
    <3>1. pass = <<kernel, FALSE, FALSE, FALSE>>
      BY <1>1, <2>2
    <3>2. pass[1] = kernel /\ pass[4] = FALSE
      BY <3>1
    <3> QED
      BY <1>2, <3>2
  <2> QED
    BY <2>1, <2>2
<1>4. /\ session' \in [lifecycle : {"Converging", "Ready", "Resetting", "Stopped"},
                       generation : 1..(MaxResets + 1)]
      /\ session'.generation = session.generation
  <2>1. PICK l \in {"Converging", "Ready", "Resetting", "Stopped"} :
          session' = [session EXCEPT !.lifecycle = l]
    <3>1. session.lifecycle \in {"Converging", "Ready", "Resetting", "Stopped"}
      BY DEF TypeOK
    <3> QED
      BY <1>1, <3>1 DEF observe_health
  <2> QED
    BY <2>1 DEF TypeOK
<1> QED
  BY <1>1, <1>2, <1>3, <1>4 DEF step_ends

-----------------------------------------------------------------------------
(* Types                                                                   *)

(* All but the stream's.                                                   *)
BoardTypes ==
    /\ reset_pending \in BOOLEAN /\ perturbed \in BOOLEAN
    /\ gate \in Gates /\ kernel \in Kernels /\ failures \subseteq {"perturbation", "artifact"}
    /\ session \in [lifecycle : {"Converging", "Ready", "Resetting", "Stopped"},
                    generation : 1..(MaxResets + 1)]
    /\ answered \in NoStep..MAX_SAMPLES /\ mishaps \in 0..MaxMishaps
    /\ via \in {"board", "nobody"} /\ unheard \in BOOLEAN
    /\ home \in Nat /\ before \in Nat /\ answer \in [world : Nat, armed : BOOLEAN]

LEMMA Types == TypeOK <=> StreamTypes /\ BoardTypes
  BY DEF TypeOK, StreamTypes, BoardTypes, Bridges, Gates, Kernels

LEMMA InitHolds == Init => SessionSafe
<1> SUFFICES ASSUME Init PROVE SessionSafe
  OBVIOUS
<1>1. Flow = <<>> /\ DOMAIN Flow = {} /\ Len(Flow) = 0
  BY DEF Init, Flow
<1>2. gate \in Gates /\ gate.last = NoWorld /\ gate.verified = FALSE
  BY SizesAssumption DEF Init, NoEvidence, Gates, NoWorld
<1>3. bridge \in Bridges /\ bridge.world = 1 /\ bridge.flag = FALSE
  BY SizesAssumption DEF Init, Bridges
<1>4. answer = NoAnswer /\ NoAnswer.armed = FALSE /\ NoAnswer.world = 0 /\ before = 0 /\ home = 0
  BY DEF Init, NoAnswer, NoWorld
<1>5. StreamTypes
  BY <1>3, EmptySeq DEF Init, StreamTypes
<1>6. BoardTypes
  <2>1. perturbed \in BOOLEAN
    BY DEF Init
  <2>2. answer \in [world : Nat, armed : BOOLEAN]
    BY <1>4 DEF NoAnswer
  <2> QED
    <3>1. 1 \in 1..(MaxResets + 1) /\ 0 \in 0..MaxMishaps /\ NoStep \in NoStep..MAX_SAMPLES
      BY SizesAssumption DEF NoStep
    <3> QED
      BY <1>2, <1>4, <2>1, <2>2, <3>1 DEF Init, BoardTypes, Kernels
<1>7. OrderInv
  <2>1. Ordered(Flow, bridge, {answer.world, before})
    BY <1>1, <1>3, <1>4 DEF Ordered, Ahead
  <2> QED
    BY <1>1, <1>3, <2>1 DEF OrderInv, Heralds
<1>8. GenerationInv /\ ChainInv
  BY <1>1, <1>4 DEF Init, GenerationInv, ChainInv, Unbroken, Chained, NoWorld
<1>9. CountInv
  <2>1. bridge.unanswered = 0 /\ session.generation = 1
    BY DEF Init
  <2> QED
    BY <1>1, <2>1, SizesAssumption DEF CountInv
<1>10. FlightInv /\ ArmedAnswersOneWorld /\ GenerationIsANewWorld
  BY <1>2, <1>4 DEF Init, FlightInv, ArmedAnswersOneWorld, GenerationIsANewWorld
<1> QED
  BY <1>5, <1>6, <1>7, <1>8, <1>9, <1>10, Types DEF SessionSafe

(* Each action, as far as types and the stream are concerned.              *)
LEMMA WorldTypes ==
    ASSUME StreamTypes, BoardTypes, World
    PROVE  StreamTypes' /\ BoardTypes'
<1>1. CASE BridgeSends
  <2>1. [world |-> bridge.world, first |-> bridge.first, reset |-> bridge.flag] \in Samples
    BY DEF StreamTypes, Bridges, Samples
  <2>2. wire' \in Seq(Samples)
    BY <1>1, <2>1, AppendProperties DEF BridgeSends, StreamTypes
  <2>3. bridge' \in Bridges
    BY <1>1, WorldGoesOn, Zenon DEF BridgeSends, StreamTypes
  <2> QED
    BY <1>1, <2>2, <2>3 DEF BridgeSends, StreamTypes, BoardTypes, histVars
<1>2. CASE BridgeReloads
  <2>1. bridge' \in Bridges
    BY <1>2, WorldBegins, Zenon DEF BridgeReloads, StreamTypes
  <2> QED
    BY <1>2, <2>1 DEF BridgeReloads, StreamTypes, BoardTypes, histVars, Mishaps
<1>3. CASE BridgeCloses
  BY <1>3 DEF BridgeCloses, StreamTypes, BoardTypes, histVars, Mishaps
<1>4. CASE Arrive
  <2>1. Head(wire) \in Samples /\ wire' \in Seq(Samples)
    BY <1>4, HeadTailProperties DEF Arrive, StreamTypes
  <2>2. sensors' \in Seq(Samples)
    <3> DEFINE kept == IF Len(sensors) = SENSOR_QUEUE_DEPTH THEN Tail(sensors) ELSE sensors
    <3>1. kept \in Seq(Samples)
      <4>1. Len(sensors) = SENSOR_QUEUE_DEPTH => sensors # <<>>
        BY EmptySeq, SizesAssumption
      <4> QED
        BY <4>1, HeadTailProperties DEF StreamTypes
    <3>2. sensors' = Append(kept, Head(wire))
      BY <1>4 DEF Arrive
    <3> HIDE DEF kept
    <3> QED
      BY <2>1, <3>1, <3>2, AppendProperties
  <2> QED
    BY <1>4, <2>1, <2>2 DEF Arrive, StreamTypes, BoardTypes, histVars
<1> QED
  BY <1>1, <1>2, <1>3, <1>4 DEF World

LEMMA OperatorTypes ==
    ASSUME StreamTypes, BoardTypes, Operator
    PROVE  StreamTypes' /\ BoardTypes'
<1>1. CASE accept
  <2>1. gate' \in Gates
    BY <1>1 DEF accept, BoardTypes, Gates
  <2> QED
    BY <1>1, <2>1 DEF accept, StreamTypes, BoardTypes, linkVars, histVars
<1>2. CASE arm
  <2>1. /\ kernel' \in Kernels /\ via' \in {"board", "nobody"}
        /\ failures' \subseteq {"perturbation", "artifact"} /\ mishaps' \in 0..MaxMishaps
    <3>1. mishaps + 1 <= MaxMishaps => mishaps + 1 \in 0..MaxMishaps
      BY SizesAssumption DEF BoardTypes
    <3>2. mishaps' = mishaps \/ (mishaps + 1 <= MaxMishaps /\ mishaps' = mishaps + 1)
      BY <1>2 DEF arm, Mishaps
    <3>3. mishaps' \in 0..MaxMishaps
      BY <3>1, <3>2 DEF BoardTypes
    <3> QED
      BY <1>2, <3>3 DEF arm, BoardTypes, Kernels
  <2> QED
    BY <1>2, <2>1 DEF arm, StreamTypes, BoardTypes, linkVars
<1>3. CASE disarm
  BY <1>3 DEF disarm, StreamTypes, BoardTypes, linkVars, histVars, Kernels
<1>4. CASE start_session
  <2>1. session' \in [lifecycle : {"Converging", "Ready", "Resetting", "Stopped"},
                      generation : 1..(MaxResets + 1)]
    BY <1>4 DEF start_session, BoardTypes
  <2> QED
    BY <1>4, <2>1 DEF start_session, StreamTypes, BoardTypes, linkVars, histVars
<1>5. CASE stop_session
  <2>1. session' \in [lifecycle : {"Converging", "Ready", "Resetting", "Stopped"},
                      generation : 1..(MaxResets + 1)]
    BY <1>5 DEF stop_session, BoardTypes
  <2> QED
    BY <1>5, <2>1 DEF stop_session, StreamTypes, BoardTypes, linkVars, histVars, Kernels
<1>6. CASE begin_reset
  <2>1. PICK ok \in BOOLEAN :
          /\ Sent(<<>>, TRUE, ok) /\ Mishaps(Unsent(ok))
          /\ reset_pending' = ok
          /\ session' = [lifecycle |-> "Resetting", generation |-> session.generation + If(ok)]
          /\ before' = IF ok THEN answer.world ELSE before
    BY <1>6 DEF begin_reset
  <2>2. StreamTypes' /\ unheard' \in BOOLEAN
    <3>1. Len(sensors) \in Nat
      BY LenProperties DEF StreamTypes
    <3> QED
      BY <2>1, <3>1, SentFacts DEF BoardTypes
  <2>3. gate' \in Gates
    <3>1. gate.accepted \in BOOLEAN
      BY DEF BoardTypes, Gates
    <3> QED
      BY <1>6, <3>1, SizesAssumption DEF begin_reset, NoEvidence, Gates, NoWorld
  <2>4. session' \in [lifecycle : {"Converging", "Ready", "Resetting", "Stopped"},
                      generation : 1..(MaxResets + 1)]
    <3>1. session.generation + If(ok) \in 1..(MaxResets + 1)
      BY <1>6, SizesAssumption DEF begin_reset, BoardTypes, If
    <3> QED
      BY <2>1, <3>1
  <2>5. mishaps' \in 0..MaxMishaps
    BY <2>1, SizesAssumption DEF Mishaps, Unsent, If, BoardTypes
  <2>6. before' \in Nat /\ answer' \in [world : Nat, armed : BOOLEAN] /\ home' \in Nat
    BY <1>6, <2>1 DEF begin_reset, BoardTypes, NoAnswer, NoWorld
  <2> QED
    BY <1>6, <2>1, <2>2, <2>3, <2>4, <2>5, <2>6 DEF begin_reset, BoardTypes, Kernels
<1> QED
  BY <1>1, <1>2, <1>3, <1>4, <1>5, <1>6 DEF Operator

LEMMA StepTypes ==
    ASSUME StreamTypes, BoardTypes, Step
    PROVE  StreamTypes' /\ BoardTypes'
<1>0. TypeOK
  BY Types
<1>1. CASE step_begins
  <2>1. kernel' \in Kernels /\ via' \in {"board", "nobody"}
    BY <1>1 DEF step_begins, BoardTypes, Kernels
  <2>2. answer' \in [world : Nat, armed : BOOLEAN]
    BY <1>1 DEF step_begins, BoardTypes
  <2>3. answered' \in NoStep..MAX_SAMPLES
    BY <1>1, SizesAssumption DEF step_begins, NoStep
  <2> QED
    BY <1>1, <2>1, <2>2, <2>3 DEF step_begins, StreamTypes, BoardTypes, linkVars
<1>2. CASE poll_ends_stream
  BY <1>2 DEF poll_ends_stream, EndOfStream, StreamTypes, BoardTypes
<1>3. ASSUME step_ends
      PROVE  /\ answered' \in NoStep..MAX_SAMPLES /\ kernel' \in Kernels
             /\ via' \in {"board", "nobody"}
             /\ session' \in [lifecycle : {"Converging", "Ready", "Resetting", "Stopped"},
                              generation : 1..(MaxResets + 1)]
             /\ UNCHANGED <<gate, perturbed, failures, before, answer>>
  <2>1. NoStep \in NoStep..MAX_SAMPLES
    BY SizesAssumption DEF NoStep
  <2> QED
    BY <1>0, <1>3, <2>1, EndFacts
<1>4. CASE poll_connects
  <2>1. bridge' \in Bridges
    <3>1. bridge' = [bridge EXCEPT !.unanswered = 0] /\ 0 \in 0..BURST
      BY <1>4, SizesAssumption DEF poll_connects, try_connect
    <3> QED
      BY <3>1 DEF StreamTypes, Bridges
  <2>2. <<>> \in Seq(Samples) /\ NoWorld \in Nat
    BY EmptySeq DEF NoWorld
  <2> QED
    BY <1>3, <1>4, <2>1, <2>2 DEF poll_connects, try_connect, StreamTypes, BoardTypes
<1>5. CASE poll_finds_nothing \/ step_is_full
  BY <1>3, <1>5 DEF poll_finds_nothing, step_is_full, StreamTypes, BoardTypes, linkVars
<1>6. CASE poll_asks_again
  <2>1. PICK ok \in BOOLEAN, whole \in BOOLEAN :
          /\ Sent(Tail(sensors), TRUE, ok)
          /\ Mishaps(Unsent(ok) + If(Acknowledges(Head(sensors))))
    BY <1>6 DEF poll_asks_again
  <2>2. StreamTypes' /\ unheard' \in BOOLEAN
    BY <1>6, <2>1, SentFacts DEF poll_asks_again, BoardTypes
  <2>3. mishaps' \in 0..MaxMishaps
    BY <2>1, SizesAssumption DEF Mishaps, Unsent, If, BoardTypes
  <2> QED
    BY <1>3, <1>6, <2>2, <2>3 DEF poll_asks_again, BoardTypes
<1>7. CASE poll_sample
  <2>1. PICK ok \in BOOLEAN, sensor_ok \in BOOLEAN, actuator_ok \in BOOLEAN, artifact_ok \in BOOLEAN :
          /\ Sent(Tail(sensors), FALSE, ok)
          /\ Mishaps(Unsent(ok) + If(~sensor_ok /\ "perturbation" \notin failures)
                                + If(~actuator_ok) + If(~artifact_ok))
          /\ process_sample(Head(sensors), ok, sensor_ok, actuator_ok, artifact_ok)
    BY <1>7, Zenon DEF poll_sample
  <2>2. StreamTypes' /\ unheard' \in BOOLEAN
    BY <1>7, <2>1, SentFacts DEF poll_sample, BoardTypes
  <2>3. mishaps' \in 0..MaxMishaps
    BY <2>1, SizesAssumption DEF Mishaps, Unsent, If, BoardTypes
  <2>4. Head(sensors) \in Samples
    BY <1>7, HeadTailProperties DEF poll_sample, StreamTypes
  <2>5. /\ gate' \in Gates /\ failures' \subseteq {"perturbation", "artifact"}
        /\ kernel' \in Kernels /\ via' \in {"board", "nobody"}
        /\ answer' \in [world : Nat, armed : BOOLEAN]
        /\ home' = IF gate.last = NoWorld /\ gate'.last # NoWorld THEN Head(sensors).world ELSE home
    BY <1>0, <2>1, <2>4, ProcessFacts
  <2>6. home' \in Nat
    BY <2>4, <2>5 DEF Samples, BoardTypes
  <2>7. session' \in [lifecycle : {"Converging", "Ready", "Resetting", "Stopped"},
                      generation : 1..(MaxResets + 1)]
    BY <1>7 DEF poll_sample, BoardTypes
  <2>8. answered' \in NoStep..MAX_SAMPLES
    BY <1>7, SizesAssumption DEF poll_sample, Polls, NoStep
  <2> QED
    BY <1>7, <2>2, <2>3, <2>5, <2>6, <2>7, <2>8 DEF poll_sample, BoardTypes
<1> QED
  BY <1>1, <1>2, <1>4, <1>5, <1>6, <1>7 DEF Step

LEMMA TypeStep == TypeOK /\ [Next]_vars => TypeOK'
<1> SUFFICES ASSUME StreamTypes, BoardTypes, [Next]_vars PROVE StreamTypes' /\ BoardTypes'
  <2>1. StreamTypes' /\ BoardTypes' => TypeOK'
    BY DEF TypeOK, StreamTypes, BoardTypes, Bridges, Gates, Kernels
  <2> QED
    BY <2>1, Types
<1>1. CASE Next
  BY <1>1, WorldTypes, OperatorTypes, StepTypes DEF Next
<1>2. CASE UNCHANGED vars
  BY <1>2 DEF vars, linkVars, histVars, StreamTypes, BoardTypes
<1> QED
  BY <1>1, <1>2

-----------------------------------------------------------------------------
(* The kinds of step                                                       *)

(* What neither sends, takes, discards nor begins a stream.                *)
Quiet ==
    \/ BridgeReloads \/ BridgeCloses \/ Arrive
    \/ accept \/ arm \/ disarm \/ start_session \/ stop_session
    \/ step_begins \/ poll_ends_stream \/ poll_finds_nothing \/ step_is_full
    \/ UNCHANGED vars

LEMMA KindsOfStep ==
    ASSUME [Next]_vars
    PROVE  Quiet \/ BridgeSends \/ poll_connects \/ poll_asks_again \/ poll_sample \/ begin_reset
  BY DEF Next, Step, Operator, World, Quiet

(* A burst and the samples that resets left behind fit the queue: nothing  *)
(* that arrives is lost.                                                   *)
LEMMA ArriveKeeps ==
    ASSUME TypeOK, CountInv, Arrive
    PROVE  Flow' = Flow
<1>1. /\ sensors \in Seq(Samples) /\ wire \in Seq(Samples) /\ wire # <<>>
  BY DEF Arrive, TypeOK
<1>2. Len(sensors) < Len(Flow) /\ Len(sensors) \in Nat /\ Len(Flow) \in Nat
  BY <1>1, FlowArrives, FlowFacts DEF Flow
<1>3. Len(Flow) <= BURST + MaxResets
  <2>1. bridge.unanswered \in 0..BURST /\ session.generation \in 1..(MaxResets + 1)
    BY DEF TypeOK
  <2> QED
    BY <1>2, <2>1, SizesAssumption DEF CountInv
<1>4. Len(sensors) # SENSOR_QUEUE_DEPTH
  BY <1>2, <1>3, QueueAssumption, SizesAssumption
<1>5. sensors' = Append(sensors, Head(wire)) /\ wire' = Tail(wire)
  BY <1>4 DEF Arrive
<1> QED
  BY <1>1, <1>5, FlowArrives DEF Flow

LEMMA QuietFacts ==
    ASSUME TypeOK, CountInv, Quiet
    PROVE  /\ Flow' = Flow /\ Moves(bridge, bridge') /\ bridge'.unanswered = bridge.unanswered
           /\ link' = "up" => link = "up"
           /\ answer'.world = answer.world /\ (answer = NoAnswer => answer' = NoAnswer)
           /\ answer' = NoAnswer \/ answer # NoAnswer
           /\ UNCHANGED <<reset_pending, before, home, unheard>>
           /\ gate'.last = gate.last /\ gate'.failed = gate.failed
           /\ session'.generation = session.generation
<1>0. Moves(bridge, bridge)
  BY DEF Moves
<1>1. CASE BridgeReloads
  <2>1. bridge \in Bridges
    BY DEF TypeOK, Bridges
  <2>2. bridge' = [bridge EXCEPT !.world = @ + 1, !.first = TRUE, !.flag = FALSE]
    BY <1>1 DEF BridgeReloads
  <2>3. /\ bridge'.world = bridge.world + 1 /\ bridge'.first = TRUE
        /\ bridge'.unanswered = bridge.unanswered
    BY <2>1, <2>2, WorldBegins, Zenon
  <2> QED
    BY <1>1, <2>3 DEF BridgeReloads, Moves, Flow, histVars
<1>2. CASE BridgeCloses
  BY <1>0, <1>2 DEF BridgeCloses, Flow, histVars
<1>3. CASE Arrive
  BY <1>0, <1>3, ArriveKeeps DEF Arrive, histVars
<1>4. CASE accept
  <2>1. gate'.last = gate.last /\ gate'.failed = gate.failed
    BY <1>4 DEF accept, TypeOK
  <2> QED
    BY <1>0, <1>4, <2>1 DEF accept, linkVars, histVars, Flow
<1>5. CASE arm \/ disarm
  BY <1>0, <1>5 DEF arm, disarm, linkVars, histVars, Flow
<1>6. CASE start_session \/ stop_session
  <2>1. session'.generation = session.generation
    BY <1>6 DEF start_session, stop_session, TypeOK
  <2> QED
    BY <1>0, <1>6, <2>1 DEF start_session, stop_session, linkVars, histVars, Flow
<1>7. CASE step_begins
  <2>1. answer' = [answer EXCEPT !.armed = FALSE]
    BY <1>7 DEF step_begins
  <2>2. answer'.world = answer.world /\ (answer = NoAnswer => answer' = NoAnswer)
    <3>1. answer'.world = answer.world
      BY <2>1 DEF TypeOK
    <3>2. ASSUME answer = NoAnswer PROVE answer' = NoAnswer
      <4>1. answer' = [NoAnswer EXCEPT !.armed = FALSE]
        BY <2>1, <3>2
      <4> QED
        BY <4>1 DEF NoAnswer
    <3> QED
      BY <3>1, <3>2
  <2>3. answer' = NoAnswer \/ answer # NoAnswer
    BY <2>2
  <2> QED
    BY <1>0, <1>7, <2>2, <2>3 DEF step_begins, linkVars, Flow
<1>8. CASE poll_ends_stream
  BY <1>0, <1>8 DEF poll_ends_stream, EndOfStream, Flow
<1>9. CASE poll_finds_nothing \/ step_is_full
  <2>1. /\ session'.generation = session.generation
        /\ UNCHANGED <<gate, perturbed, failures, before, answer>>
    BY <1>9, EndFacts DEF poll_finds_nothing, step_is_full
  <2> QED
    BY <1>0, <1>9, <2>1 DEF poll_finds_nothing, step_is_full, linkVars, Flow
<1>10. CASE UNCHANGED vars
  BY <1>0, <1>10 DEF vars, linkVars, histVars, Flow
<1> QED
  BY <1>1, <1>2, <1>3, <1>4, <1>5, <1>6, <1>7, <1>8, <1>9, <1>10 DEF Quiet

(* The bridge's next sample goes out.                                      *)
LEMMA SendFacts ==
    ASSUME TypeOK, BridgeSends
    PROVE  \E x \in Samples :
             /\ x.world = bridge.world /\ x.first = bridge.first /\ x.reset = bridge.flag
             /\ Flow' = Append(Flow, x)
             /\ bridge'.world = bridge.world /\ bridge'.first = FALSE /\ bridge'.flag = FALSE
             /\ bridge'.unanswered = bridge.unanswered + 1 /\ bridge'.unanswered <= BURST
             /\ link = "up"
             /\ UNCHANGED <<link, answer, before, home, unheard, reset_pending, gate, session>>
<1>1. PICK x : x = [world |-> bridge.world, first |-> bridge.first, reset |-> bridge.flag]
  OBVIOUS
<1>2. x \in Samples /\ x.world = bridge.world /\ x.first = bridge.first /\ x.reset = bridge.flag
  BY <1>1 DEF TypeOK, Samples
<1>3. wire' = Append(wire, x) /\ sensors' = sensors
  BY <1>1 DEF BridgeSends
<1>4. Flow' = Append(Flow, x)
  BY <1>2, <1>3, FlowGrows DEF TypeOK, Flow
<1>5. bridge \in Bridges /\ bridge.unanswered < BURST
  BY DEF TypeOK, Bridges, BridgeSends
<1>6. bridge' = [bridge EXCEPT !.first = FALSE, !.flag = FALSE, !.unanswered = @ + 1]
  BY DEF BridgeSends
<1>7. /\ bridge'.world = bridge.world /\ bridge'.first = FALSE /\ bridge'.flag = FALSE
      /\ bridge'.unanswered = bridge.unanswered + 1
  BY <1>5, <1>6, WorldGoesOn, Zenon
<1>8. bridge'.unanswered <= BURST
  BY <1>5, <1>7, SizesAssumption DEF Bridges
<1> QED
  BY <1>2, <1>4, <1>7, <1>8 DEF BridgeSends, histVars

(* Dialling begins an empty stream, of which nothing is evidence yet.      *)
LEMMA ConnectFacts ==
    ASSUME TypeOK, poll_connects
    PROVE  /\ Flow' = <<>> /\ Moves(bridge, bridge') /\ bridge'.unanswered = 0
           /\ home' = NoWorld
           /\ UNCHANGED <<reset_pending, answer, before, gate>>
           /\ session'.generation = session.generation
<1>1. Flow' = <<>>
  BY ConcatEmptySeq, EmptySeq DEF poll_connects, try_connect, Flow
<1>2. Moves(bridge, bridge') /\ bridge'.unanswered = 0
  BY DEF poll_connects, try_connect, Moves, TypeOK
<1> QED
  BY <1>1, <1>2, EndFacts DEF poll_connects, try_connect

(* A sample that does not end the reset is answered by the request.        *)
LEMMA AskFacts ==
    ASSUME TypeOK, poll_asks_again
    PROVE  /\ Moved(1) /\ Flow # <<>> /\ reset_pending
           /\ bridge'.unanswered + 1 >= bridge.unanswered
           /\ link' = "up" /\ ~unheard' =>
                 /\ ~unheard
                 /\ bridge'.unanswered = IF bridge.unanswered = 0 THEN 0 ELSE bridge.unanswered - 1
           /\ UNCHANGED <<reset_pending, answer, before, home, gate>>
           /\ session'.generation = session.generation
<1>1. PICK ok \in BOOLEAN : Sent(Tail(sensors), TRUE, ok)
  BY DEF poll_asks_again
<1>2. StreamTypes /\ unheard \in BOOLEAN /\ sensors # <<>>
  BY Types DEF BoardTypes, poll_asks_again
<1>3. Flow # <<>>
  BY <1>2, ConcatEqualIffEmpty DEF StreamTypes, Flow
<1> QED
  BY <1>1, <1>2, <1>3, SentFacts, EndFacts DEF poll_asks_again

(* A sample is processed and answered.                                     *)
LEMMA TakeFacts ==
    ASSUME TypeOK, poll_sample
    PROVE  /\ Moved(1) /\ Flow # <<>> /\ Head(sensors) = Flow[1] /\ Flow[1] \in Samples
           /\ reset_pending => Flow[1].reset
           /\ bridge'.unanswered + 1 >= bridge.unanswered
           /\ link' = "up" /\ ~unheard' =>
                 /\ ~unheard
                 /\ bridge'.unanswered = IF bridge.unanswered = 0 THEN 0 ELSE bridge.unanswered - 1
           /\ reset_pending' = FALSE /\ before' = before /\ answered' = answered + 1
           /\ session'.generation = session.generation
           /\ \E ok, sensor_ok, actuator_ok, artifact_ok \in BOOLEAN :
                process_sample(Flow[1], ok, sensor_ok, actuator_ok, artifact_ok)
<1>1. PICK ok \in BOOLEAN, sensor_ok \in BOOLEAN, actuator_ok \in BOOLEAN, artifact_ok \in BOOLEAN :
        /\ Sent(Tail(sensors), FALSE, ok)
        /\ process_sample(Head(sensors), ok, sensor_ok, actuator_ok, artifact_ok)
  BY Zenon DEF poll_sample
<1>2. StreamTypes /\ unheard \in BOOLEAN /\ sensors # <<>>
  BY Types DEF BoardTypes, poll_sample
<1>3. Flow # <<>> /\ Head(sensors) = Flow[1] /\ Head(sensors) \in Samples
  BY <1>2, ConcatEqualIffEmpty, TakeOldest, HeadTailProperties DEF StreamTypes, Flow
<1>4. session'.generation = session.generation
  BY DEF poll_sample, TypeOK
<1>5. /\ Moved(1)
      /\ bridge'.unanswered + 1 >= bridge.unanswered
      /\ link' = "up" /\ ~unheard' =>
            /\ ~unheard
            /\ bridge'.unanswered = IF bridge.unanswered = 0 THEN 0 ELSE bridge.unanswered - 1
  BY <1>1, <1>2, SentFacts
<1>6. process_sample(Flow[1], ok, sensor_ok, actuator_ok, artifact_ok)
  BY <1>1, <1>3
<1>7. reset_pending => Flow[1].reset
  BY <1>3 DEF poll_sample, Acknowledges
<1> HIDE DEF Flow
<1> QED
  BY <1>3, <1>4, <1>5, <1>6, <1>7, Zenon DEF poll_sample

(* What arrived is discarded and the reset is requested.                   *)
LEMMA ResetFacts ==
    ASSUME TypeOK, begin_reset
    PROVE  /\ Moved(Len(sensors))
           /\ bridge'.unanswered + 1 >= bridge.unanswered
           /\ link' = "up" /\ ~unheard' =>
                 /\ ~unheard
                 /\ bridge'.unanswered = IF bridge.unanswered = 0 THEN 0 ELSE bridge.unanswered - 1
           /\ ~reset_pending /\ home' = NoWorld /\ answer' = NoAnswer
           /\ gate'.last = NoWorld
           /\ \/ /\ reset_pending' /\ before' = answer.world
                 /\ session'.generation = session.generation + 1
              \/ /\ ~reset_pending' /\ before' = before
                 /\ session'.generation = session.generation /\ bridge' = bridge
<1>1. PICK ok \in BOOLEAN :
        /\ Sent(<<>>, TRUE, ok)
        /\ reset_pending' = ok
        /\ session' = [lifecycle |-> "Resetting", generation |-> session.generation + If(ok)]
        /\ before' = IF ok THEN answer.world ELSE before
  BY DEF begin_reset
<1>2. StreamTypes /\ unheard \in BOOLEAN /\ Len(sensors) \in Nat
  BY Types, LenProperties DEF BoardTypes, StreamTypes
<1>3. session.generation \in Nat
  BY SizesAssumption DEF TypeOK
<1>4. session'.generation = IF ok THEN session.generation + 1 ELSE session.generation
  BY <1>1, <1>3 DEF If
<1>5. gate'.last = NoWorld
  BY DEF begin_reset, NoEvidence
<1> QED
  BY <1>1, <1>2, <1>4, <1>5, SentFacts DEF begin_reset

-----------------------------------------------------------------------------
(* The stream, step by step                                                *)

StreamSteps == /\ bridge \in Bridges /\ bridge' \in Bridges
               /\ Flow \in Seq(Samples) /\ Flow' \in Seq(Samples)

LEMMA StreamStepTypes ==
    ASSUME TypeOK, TypeOK'
    PROVE  StreamSteps
<1>1. bridge \in Bridges /\ Flow \in Seq(Samples)
  BY ConcatProperties DEF TypeOK, Bridges, Flow
<1>2. bridge' \in Bridges /\ Flow' \in Seq(Samples)
  BY ConcatProperties DEF TypeOK, Bridges, Flow
<1> QED
  BY <1>1, <1>2 DEF StreamSteps

(* All steps but a sending bridge only shorten the stream.                 *)
Shortens == \E d \in Nat : Segment(Flow, Flow', d) /\ Moves(bridge, bridge')

LEMMA ShortensFacts ==
    ASSUME TypeOK, TypeOK', CountInv,
           Quiet \/ poll_connects \/ poll_asks_again \/ poll_sample \/ begin_reset
    PROVE  Shortens
<1>1. CASE Quiet
  <2>1. Segment(Flow, Flow', 0)
    <3>1. Flow' = Flow /\ Flow \in Seq(Samples)
      BY <1>1, QuietFacts, StreamStepTypes DEF StreamSteps
    <3>2. Segment(Flow, Flow, 0)
      BY <3>1, LenProperties DEF Segment
    <3> QED
      BY <3>1, <3>2
  <2> QED
    BY <1>1, <2>1, QuietFacts DEF Shortens
<1>2. CASE poll_connects
  <2>1. Flow' = <<>> /\ Moves(bridge, bridge') /\ Flow \in Seq(Samples)
    BY <1>2, ConnectFacts, StreamStepTypes DEF StreamSteps
  <2>2. Segment(Flow, <<>>, 0)
    BY <2>1, LenProperties DEF Segment
  <2> QED
    BY <2>1, <2>2 DEF Shortens
<1>3. CASE poll_asks_again \/ poll_sample
  BY <1>3, AskFacts, TakeFacts DEF Shortens, Moved
<1>4. CASE begin_reset
  BY <1>4, ResetFacts DEF Shortens, Moved
<1> QED
  BY <1>1, <1>2, <1>3, <1>4

(* Order holds as long as the board sees nothing new.                      *)
LEMMA OrderKept ==
    ASSUME StreamSteps, Shortens, OrderInv, {answer.world, before} \in SUBSET Nat,
           {(answer.world)', before'} \subseteq {answer.world, before} \cup {0}
    PROVE  OrderInv'
<1>1. PICK f, g, b, c, seen, less :
        /\ f = Flow /\ g = Flow' /\ b = bridge /\ c = bridge'
        /\ seen = {answer.world, before} /\ less = {(answer.world)', before'}
  OBVIOUS
<1>2. /\ f \in Seq(Samples) /\ g \in Seq(Samples) /\ b \in Bridges /\ c \in Bridges
      /\ seen \in SUBSET Nat /\ less \subseteq seen \cup {0}
      /\ Heralds(f, b) /\ Ordered(f, b, seen) /\ Moves(b, c)
  BY <1>1 DEF StreamSteps, OrderInv, Shortens
<1>3. PICK d \in Nat : Segment(f, g, d)
  BY <1>1 DEF Shortens
<1>4. Heralds(g, c) /\ Ordered(g, c, seen)
  BY <1>2, <1>3, HeraldsSegment, OrderedSegment
<1>5. Ordered(g, c, less)
  BY <1>2, <1>4, OrderedSeen
<1> QED
  BY <1>1, <1>4, <1>5 DEF OrderInv

LEMMA OrderStep ==
    ASSUME TypeOK, TypeOK', OrderInv, CountInv, [Next]_vars
    PROVE  OrderInv'
<1>0. StreamSteps /\ answer.world \in Nat /\ before \in Nat
  BY StreamStepTypes DEF TypeOK
<1>1. CASE Quiet \/ poll_connects \/ poll_asks_again \/ begin_reset
  <2>1. Shortens
    BY <1>1, ShortensFacts
  <2>2. (answer.world)' \in {answer.world, 0} /\ before' \in {answer.world, before}
    BY <1>1, QuietFacts, ConnectFacts, AskFacts, ResetFacts DEF NoAnswer, NoWorld
  <2> QED
    BY <1>0, <2>1, <2>2, OrderKept
<1>2. CASE BridgeSends
  <2>1. PICK x \in Samples :
          /\ x.world = bridge.world /\ x.first = bridge.first /\ x.reset = bridge.flag
          /\ Flow' = Append(Flow, x)
          /\ bridge'.world = bridge.world /\ bridge'.first = FALSE /\ bridge'.flag = FALSE
          /\ UNCHANGED <<answer, before>>
    BY <1>2, SendFacts
  <2>2. PICK f, b, c, seen :
          f = Flow /\ b = bridge /\ c = bridge' /\ seen = {answer.world, before}
    OBVIOUS
  <2>3. /\ f \in Seq(Samples) /\ b \in Bridges /\ c \in Bridges /\ seen \in SUBSET Nat
        /\ Heralds(f, b) /\ Ordered(f, b, seen)
    BY <1>0, <2>2 DEF StreamSteps, OrderInv
  <2>4. Heralds(Append(f, x), c) /\ Ordered(Append(f, x), c, seen)
    BY <2>1, <2>2, <2>3, HeraldsSent, OrderedSent
  <2> QED
    BY <2>1, <2>2, <2>4 DEF OrderInv
<1>3. CASE poll_sample
  <2>1. PICK f, g, b, c, seen :
          /\ f = Flow /\ g = Flow' /\ b = bridge /\ c = bridge'
          /\ seen = {answer.world, before}
    OBVIOUS
  <2>2. /\ f \in Seq(Samples) /\ g \in Seq(Samples) /\ b \in Bridges /\ c \in Bridges
        /\ seen \in SUBSET Nat /\ Heralds(f, b) /\ Ordered(f, b, seen)
    BY <1>0, <2>1 DEF StreamSteps, OrderInv
  <2>3. Segment(f, g, 1) /\ Moves(b, c) /\ f # <<>> /\ before' = before
    BY <1>3, <2>1, TakeFacts DEF Moved
  <2>4. (answer.world)' = f[1].world
    BY <1>3, <2>1, TakeFacts, ProcessFacts
  <2>5. Heralds(g, c) /\ Ordered(g, c, seen \cup {f[1].world}) /\ f[1].world \in Nat
    <3>1. Heralds(g, c)
      BY <2>2, <2>3, HeraldsSegment
    <3>2. f[1] \in Samples /\ Ordered(g, c, seen \cup {f[1].world})
      BY <2>2, <2>3, OrderedTaken
    <3> QED
      BY <3>1, <3>2 DEF Samples
  <2>6. {(answer.world)', before'} \subseteq (seen \cup {f[1].world}) \cup {0}
    BY <2>1, <2>3, <2>4
  <2>7. Ordered(g, c, {(answer.world)', before'})
    BY <2>2, <2>5, <2>6, OrderedSeen
  <2> QED
    BY <2>1, <2>5, <2>7 DEF OrderInv
<1> QED
  BY <1>1, <1>2, <1>3, KindsOfStep

(* A reset begins behind what was on its way when it was requested.        *)
LEMMA GenerationStep ==
    ASSUME TypeOK, TypeOK', OrderInv, CountInv, GenerationInv, GenerationIsANewWorld, [Next]_vars
    PROVE  GenerationInv' /\ GenerationIsANewWorld'
<1>0. StreamSteps /\ before \in Nat
  BY StreamStepTypes DEF TypeOK
<1>1. ASSUME Shortens, before' = before, reset_pending' = reset_pending,
             answer = NoAnswer => answer' = NoAnswer,
             answer' # NoAnswer => (answer.world)' = answer.world
      PROVE  GenerationInv' /\ GenerationIsANewWorld'
  <2>1. PICK f, g, b, c : f = Flow /\ g = Flow' /\ b = bridge /\ c = bridge'
    OBVIOUS
  <2>2. PICK d \in Nat : Segment(f, g, d) /\ Moves(b, c)
    BY <1>1, <2>1 DEF Shortens
  <2>3. /\ f \in Seq(Samples) /\ g \in Seq(Samples) /\ b \in Bridges /\ c \in Bridges
    BY <1>0, <2>1 DEF StreamSteps
  <2>4. Beyond(f, b, before) => Beyond(g, c, before)
    BY <1>0, <2>2, <2>3, BeyondSegment
  <2>5. GenerationInv'
    BY <1>1, <2>1, <2>4 DEF GenerationInv
  <2>6. GenerationIsANewWorld'
    BY <1>1 DEF GenerationIsANewWorld
  <2> QED
    BY <2>5, <2>6
<1>2. CASE Quiet \/ poll_connects \/ poll_asks_again
  BY <1>1, <1>2, ShortensFacts, QuietFacts, ConnectFacts, AskFacts
<1>3. CASE begin_reset
  <2>1. ~reset_pending /\ answer' = NoAnswer
    BY <1>3, ResetFacts
  <2>2. CASE reset_pending'
    BY <2>1, <2>2 DEF GenerationInv, GenerationIsANewWorld
  <2>3. CASE ~reset_pending'
    <3>1. Shortens /\ before' = before
      BY <1>3, <2>3, ShortensFacts, ResetFacts
    <3>2. reset_pending' = reset_pending
      BY <2>1, <2>3 DEF TypeOK
    <3> QED
      BY <1>1, <2>1, <3>1, <3>2
  <2> QED
    BY <2>2, <2>3
<1>4. CASE BridgeSends
  <2>1. PICK x \in Samples :
          /\ x.world = bridge.world
          /\ Flow' = Append(Flow, x) /\ bridge'.world = bridge.world
          /\ UNCHANGED <<answer, before, reset_pending>>
    BY <1>4, SendFacts
  <2>2. PICK f, b, c : f = Flow /\ b = bridge /\ c = bridge'
    OBVIOUS
  <2>3. Beyond(f, b, before) => Beyond(Append(f, x), c, before)
    BY <1>0, <2>1, <2>2, BeyondSent DEF StreamSteps
  <2> QED
    BY <2>1, <2>2, <2>3 DEF GenerationInv, GenerationIsANewWorld
<1>5. CASE poll_sample
  <2>1. PICK f, g, b, c, seen :
          /\ f = Flow /\ g = Flow' /\ b = bridge /\ c = bridge'
          /\ seen = {answer.world, before}
    OBVIOUS
  <2>2. /\ f \in Seq(Samples) /\ g \in Seq(Samples) /\ b \in Bridges /\ c \in Bridges
        /\ seen \in SUBSET Nat /\ before \in seen /\ Heralds(f, b) /\ Ordered(f, b, seen)
    BY <1>0, <2>1 DEF StreamSteps, OrderInv, TypeOK
  <2>3. /\ Segment(f, g, 1) /\ Moves(b, c) /\ f # <<>> /\ before' = before
        /\ reset_pending' = FALSE
        /\ reset_pending => f[1].reset
    BY <1>5, <2>1, TakeFacts DEF Moved
  <2>4. (answer.world)' = f[1].world
    BY <1>5, <2>1, TakeFacts, ProcessFacts
  <2>5. /\ f[1] \in Samples /\ f[1].world \in Nat /\ Ahead(f[1], before)
        /\ Ordered(g, c, seen \cup {f[1].world}) /\ 1 \in DOMAIN f
    <3>1. /\ f[1] \in Samples /\ \A w \in seen : Ahead(f[1], w)
          /\ Ordered(g, c, seen \cup {f[1].world})
      BY <2>2, <2>3, OrderedTaken
    <3>2. 1 \in DOMAIN f
      BY <2>2, <2>3, EmptySeq, LenProperties
    <3> QED
      BY <2>2, <3>1, <3>2 DEF Samples
  <2>6. before # NoWorld => f[1].world > before
    <3>1. CASE reset_pending
      <4>1. f[1].first
        BY <2>2, <2>3, <2>5, <3>1, Zenon DEF Heralds
      <4>2. f[1].first => f[1].world > before
        BY <2>5, Zenon DEF Ahead
      <4> QED
        BY <4>1, <4>2, Zenon
    <3>2. CASE ~reset_pending
      BY <2>1, <2>5, <3>2 DEF GenerationInv, Beyond
    <3> QED
      BY <3>1, <3>2
  <2>7. before # NoWorld => Beyond(g, c, before)
    BY <1>0, <2>2, <2>5, <2>6, BeyondOrdered
  <2> QED
    <3>1. GenerationInv'
      <4>1. ~reset_pending' /\ before' = before /\ g = Flow' /\ c = bridge'
        BY <2>1, <2>3, Zenon
      <4> QED
        BY <2>7, <4>1, Zenon DEF GenerationInv
    <3>2. GenerationIsANewWorld'
      BY <2>3, <2>4, <2>6 DEF GenerationIsANewWorld
    <3> QED
      BY <3>1, <3>2
<1> QED
  BY <1>2, <1>3, <1>4, <1>5, KindsOfStep

(* Samples are counted from the bridge to the board and back.              *)
LEMMA CountStep ==
    ASSUME TypeOK, TypeOK', CountInv, [Next]_vars
    PROVE  CountInv'
<1>0. /\ bridge.unanswered \in 0..BURST /\ bridge'.unanswered \in Nat
      /\ session.generation \in Nat /\ BURST \in Nat \ {0}
      /\ Len(Flow) \in Nat /\ (Len(Flow))' \in Nat /\ unheard \in BOOLEAN
  <2>1. StreamSteps
    BY StreamStepTypes
  <2>2. Len(Flow) \in Nat /\ Len(Flow') \in Nat
    BY <2>1, LenProperties DEF StreamSteps
  <2> QED
    <3>1. bridge.unanswered \in 0..BURST /\ unheard \in BOOLEAN
      BY DEF TypeOK
    <3>4. session.generation \in Nat
      <4>1. session.generation \in 1..(MaxResets + 1)
        BY DEF TypeOK
      <4> QED
        BY <4>1, SizesAssumption
    <3>2. bridge'.unanswered \in 0..BURST /\ BURST \in Nat \ {0}
      BY SizesAssumption DEF TypeOK
    <3>3. bridge'.unanswered \in Nat
      BY <3>2
    <3> QED
      BY <2>2, <3>1, <3>2, <3>3, <3>4
<1>1. PICK u, v, n, m, g, h :
        /\ u = bridge.unanswered /\ v = bridge'.unanswered
        /\ n = Len(Flow) /\ m = (Len(Flow))'
        /\ g = session.generation /\ h = (session.generation)'
  OBVIOUS
<1>2. SUFFICES /\ m <= v + h - 1
               /\ link' = "up" /\ ~unheard' => v < m + BURST
  BY <1>1 DEF CountInv
<1>3. /\ u \in Nat /\ u <= BURST /\ v \in Nat /\ n \in Nat /\ m \in Nat /\ g \in Nat
      /\ BURST \in Nat \ {0}
  BY <1>0, <1>1
<1>4. /\ n <= u + g - 1
      /\ link = "up" /\ ~unheard => u < n + BURST
  BY <1>1 DEF CountInv
<1>5. CASE Quiet
  <2>1. /\ m = n /\ v = u /\ h = g
        /\ link' = "up" /\ ~unheard' => link = "up" /\ ~unheard
    BY <1>1, <1>5, QuietFacts
  <2> QED
    BY <1>4, <2>1
<1>6. CASE BridgeSends
  <2>1. /\ m = n + 1 /\ v = u + 1 /\ h = g
        /\ link' = link /\ unheard' = unheard
    <3>1. PICK x \in Samples : Flow' = Append(Flow, x)
      BY <1>6, SendFacts
    <3>2. Len(Flow') = Len(Flow) + 1
      BY <3>1, StreamStepTypes, AppendProperties DEF StreamSteps
    <3> QED
      BY <1>1, <1>6, <3>2, SendFacts
  <2> QED
    BY <1>3, <1>4, <2>1
<1>7. CASE poll_connects
  <2>1. m = 0 /\ v = 0 /\ h = g
    BY <1>1, <1>7, ConnectFacts, EmptySeq
  <2>2. g >= 1
    BY <1>1, SizesAssumption DEF TypeOK
  <2> QED
    BY <1>3, <2>1, <2>2
<1>8. CASE poll_asks_again \/ poll_sample
  <2>1. /\ m + 1 <= n /\ v + 1 >= u /\ h = g
        /\ link' = "up" /\ ~unheard' =>
              link = "up" /\ ~unheard /\ m + 1 = n /\ v = IF u = 0 THEN 0 ELSE u - 1
    BY <1>1, <1>8, AskFacts, TakeFacts DEF Moved
  <2>2. m <= v + h - 1
    BY <1>3, <1>4, <2>1
  <2>3. ASSUME link' = "up", ~unheard' PROVE v < m + BURST
    <3>1. u < n + BURST /\ m + 1 = n /\ v = IF u = 0 THEN 0 ELSE u - 1
      BY <1>4, <2>1, <2>3
    <3> QED
      BY <1>3, <3>1
  <2> QED
    BY <2>2, <2>3
<1>9. CASE begin_reset
  <2>1. PICK d \in Nat : d = Len(sensors)
    BY LenProperties DEF TypeOK
  <2>2. /\ m + d <= n /\ v + 1 >= u
        /\ link' = "up" /\ ~unheard' => v = IF u = 0 THEN 0 ELSE u - 1
        /\ h = g + 1 \/ (h = g /\ v = u)
    BY <1>1, <1>9, <2>1, ResetFacts DEF Moved
  <2>3. m <= v + h - 1
    BY <1>3, <1>4, <2>1, <2>2
  <2>4. ASSUME link' = "up", ~unheard' PROVE v < m + BURST
    <3>1. v = IF u = 0 THEN 0 ELSE u - 1
      BY <2>2, <2>4
    <3> QED
      BY <1>3, <3>1
  <2> QED
    BY <2>3, <2>4
<1> QED
  BY <1>5, <1>6, <1>7, <1>8, <1>9, KindsOfStep

-----------------------------------------------------------------------------
(* The gate and the flight, step by step                                   *)

(* A gate that stands after a sample has observed it, and has seen no      *)
(* first sample of another world since its last stamp.                     *)
LEMMA Observed ==
    ASSUME gate \in Gates, NEW s \in Samples,
           NEW regressed \in Regressions(s), NEW rate_ok \in BOOLEAN,
           gate' = observe_timestamp(s, regressed, rate_ok)
    PROVE  /\ gate'.accepted = gate.accepted
           /\ gate'.last = gate.last \/ (gate'.last = s.world /\ gate.accepted)
           /\ gate.last # NoWorld => gate'.last # NoWorld
           /\ ~gate'.failed /\ gate.accepted =>
                 /\ ~gate.failed /\ gate'.last = s.world
                 /\ gate.verified => gate'.verified
                 /\ gate.last # NoWorld /\ s.world # gate.last => ~s.first
           /\ (gate.verified => gate.last # NoWorld) => (gate'.verified => gate'.last # NoWorld)
<1>1. regressed \in BOOLEAN /\ s.world \in Nat \ {0}
  BY DEF Regressions, Samples
<1>2. PICK g, h : g = gate /\ h = gate'
  OBVIOUS
<1>3. /\ g \in Gates /\ h \in Gates /\ h.accepted = g.accepted
      /\ g.failed \/ ~g.accepted => h = g
      /\ ~g.failed /\ g.accepted /\ regressed => h.failed /\ h.last = g.last
      /\ ~g.failed /\ g.accepted /\ ~regressed =>
            /\ h.last = s.world
            /\ g.verified => h.verified /\ ~h.failed
  BY <1>1, <1>2, GateFacts
<1>4. /\ regressed => g.last # NoWorld
      /\ g.last # NoWorld /\ s.world # g.last /\ s.first => regressed
  BY <1>2 DEF Regressions
<1>5. s.world # NoWorld
  BY <1>1 DEF NoWorld
<1> SUFFICES
      /\ h.accepted = g.accepted
      /\ h.last = g.last \/ (h.last = s.world /\ g.accepted)
      /\ g.last # NoWorld => h.last # NoWorld
      /\ ~h.failed /\ g.accepted =>
            /\ ~g.failed /\ h.last = s.world
            /\ g.verified => h.verified
            /\ g.last # NoWorld /\ s.world # g.last => ~s.first
      /\ (g.verified => g.last # NoWorld) => (h.verified => h.last # NoWorld)
  BY <1>2
<1>6. CASE g.failed \/ ~g.accepted
  BY <1>3, <1>6, Zenon
<1>7. CASE ~g.failed /\ g.accepted /\ regressed
  BY <1>3, <1>4, <1>7, Zenon
<1>8. CASE ~g.failed /\ g.accepted /\ ~regressed
  BY <1>3, <1>4, <1>5, <1>8, Zenon
<1> QED
  BY <1>6, <1>7, <1>8, Zenon

LEMMA ChainStep ==
    ASSUME TypeOK, TypeOK', CountInv, ChainInv, FlightInv, [Next]_vars
    PROVE  ChainInv'
<1>0. StreamSteps
  BY StreamStepTypes
<1>1. PICK f, g, b, c, open, after :
        /\ f = Flow /\ g = Flow' /\ b = bridge /\ c = bridge'
        /\ open = (link = "up") /\ after = (link = "up")'
  OBVIOUS
<1>2. /\ f \in Seq(Samples) /\ g \in Seq(Samples) /\ b \in Bridges /\ c \in Bridges
      /\ Unbroken(f, b, open)
      /\ home # NoWorld /\ ~gate.failed => gate.last = home /\ NextFollows(f, b, open, home)
  BY <1>0, <1>1 DEF StreamSteps, ChainInv
<1>3. ASSUME Unbroken(g, c, after), home' = NoWorld PROVE ChainInv'
  BY <1>1, <1>3 DEF ChainInv
<1>4. ASSUME NEW d \in Nat, Segment(f, g, d), Moves(b, c), after => open /\ Len(g) + d = Len(f)
      PROVE  /\ Unbroken(g, c, after)
             /\ \A w : d = 0 /\ NextFollows(f, b, open, w) => NextFollows(g, c, after, w)
             /\ d = 1 /\ f # <<>> => NextFollows(g, c, after, f[1].world)
  BY <1>2, <1>4, ChainMoved
<1>5. CASE Quiet
  <2>1. /\ g = f /\ Moves(b, c)
        /\ after => open
        /\ UNCHANGED <<reset_pending, home>>
        /\ gate'.last = gate.last /\ gate'.failed = gate.failed
    BY <1>1, <1>5, QuietFacts
  <2>2. Segment(f, g, 0) /\ Len(g) + 0 = Len(f)
    <3>1. f \in Seq(Samples)
      BY <1>2
    <3>2. Segment(f, f, 0) /\ Len(f) + 0 = Len(f)
      BY <3>1, LenProperties DEF Segment
    <3> QED
      BY <2>1, <3>2
  <2>3. /\ Unbroken(g, c, after)
        /\ NextFollows(f, b, open, home) => NextFollows(g, c, after, home)
    <3>1. 0 \in Nat /\ (after => open /\ Len(g) + 0 = Len(f))
      BY <2>1, <2>2, Zenon
    <3> QED
      BY <1>4, <2>1, <2>2, <3>1, Zenon
  <2> QED
    BY <1>1, <1>2, <2>1, <2>3, Zenon DEF ChainInv
<1>6. CASE BridgeSends
  <2>1. PICK x \in Samples :
          /\ x.world = b.world /\ x.first = b.first
          /\ g = Append(f, x) /\ c.world = b.world
          /\ open /\ after
          /\ UNCHANGED <<home, reset_pending, gate>>
    BY <1>1, <1>6, SendFacts
  <2>2. \A w : Follows(b, w) <=> Follows(x, w)
    BY <2>1 DEF Follows
  <2>3. Chained(f) /\ (f # <<>> => Follows(x, f[Len(f)].world))
    BY <1>2, <2>1, <2>2 DEF Unbroken
  <2>4. /\ Chained(g) /\ g # <<>> /\ g[Len(g)] = x
        /\ g[1] = IF f = <<>> THEN x ELSE f[1]
    BY <1>2, <2>1, <2>3, ChainedSent
  <2>5. Follows(c, x.world)
    BY <2>1 DEF Follows
  <2>6. Unbroken(g, c, after)
    BY <2>4, <2>5 DEF Unbroken
  <2>7. NextFollows(f, b, open, home) => NextFollows(g, c, after, home)
    BY <2>1, <2>2, <2>4, Zenon DEF NextFollows
  <2> QED
    BY <1>1, <1>2, <2>1, <2>6, <2>7, Zenon DEF ChainInv
<1>7. CASE poll_connects
  <2>1. g = <<>> /\ home' = NoWorld
    BY <1>1, <1>7, ConnectFacts
  <2>2. Unbroken(g, c, after)
    BY <2>1 DEF Unbroken, Chained
  <2> QED
    BY <1>3, <2>1, <2>2
<1>8. CASE poll_asks_again \/ begin_reset
  <2>1. home' = NoWorld
    BY <1>8, AskFacts, ResetFacts DEF ChainInv
  <2>2. PICK d \in Nat : Segment(f, g, d) /\ Moves(b, c) /\ (after => open /\ Len(g) + d = Len(f))
    BY <1>1, <1>8, AskFacts, ResetFacts DEF Moved
  <2>3. Unbroken(g, c, after)
    BY <1>4, <2>2
  <2> QED
    BY <1>3, <2>1, <2>3
<1>9. CASE poll_sample
  <2>1. /\ Segment(f, g, 1) /\ Moves(b, c) /\ (after => open /\ Len(g) + 1 = Len(f))
        /\ f # <<>> /\ f[1] \in Samples /\ reset_pending' = FALSE
    BY <1>1, <1>9, TakeFacts DEF Moved
  <2>2. Unbroken(g, c, after) /\ NextFollows(g, c, after, f[1].world)
    BY <1>4, <2>1
  <2>3. PICK s \in Samples : s = f[1]
    BY <2>1
  <2>4. PICK ok \in BOOLEAN, sensor_ok \in BOOLEAN, actuator_ok \in BOOLEAN, artifact_ok \in BOOLEAN :
          process_sample(s, ok, sensor_ok, actuator_ok, artifact_ok)
    BY <1>1, <1>9, <2>3, TakeFacts
  <2>5. /\ home' = IF gate.last = NoWorld /\ gate'.last # NoWorld THEN s.world ELSE home
        /\ \E regressed \in Regressions(s), rate_ok \in BOOLEAN :
             gate' = observe_timestamp(s, regressed, rate_ok)
    BY <2>4, ProcessFacts
  <2>6. gate \in Gates
    BY DEF TypeOK, Gates
  <2>7. /\ gate'.last = gate.last \/ (gate'.last = s.world /\ gate.accepted)
        /\ gate.last # NoWorld => gate'.last # NoWorld
        /\ ~gate'.failed /\ gate.accepted =>
              /\ ~gate.failed /\ gate'.last = s.world
              /\ gate.last # NoWorld /\ s.world # gate.last => ~s.first
        /\ gate.last # NoWorld => gate.accepted
    BY <2>5, <2>6, Observed, Zenon DEF FlightInv
  <2>8. NextFollows(g, c, after, s.world)
    BY <2>2, <2>3
  <2>9. CASE gate.last = NoWorld /\ gate'.last # NoWorld
    <3>1. home' = s.world /\ gate'.last = s.world
      BY <2>5, <2>7, <2>9, Zenon
    <3> QED
      BY <1>1, <2>1, <2>2, <2>8, <2>9, <3>1, Zenon DEF ChainInv
  <2>10. CASE ~(gate.last = NoWorld /\ gate'.last # NoWorld)
    <3>1. home' = home
      BY <2>5, <2>10, Zenon
    <3>2. home # NoWorld => gate'.last # NoWorld
      BY <2>7, Zenon DEF ChainInv
    <3>3. ASSUME home # NoWorld, ~gate'.failed
          PROVE  gate'.last = home /\ NextFollows(g, c, after, home)
      <4>1. gate.last # NoWorld /\ gate.accepted
        BY <2>7, <3>3, Zenon DEF ChainInv
      <4>2. /\ ~gate.failed /\ gate'.last = s.world
            /\ s.world # gate.last => ~s.first
        BY <2>7, <3>3, <4>1, Zenon
      <4>3. gate.last = home /\ Follows(s, home)
        BY <1>2, <2>1, <2>3, <3>3, <4>2, Zenon DEF NextFollows
      <4>4. s.world = home
        BY <4>2, <4>3, Zenon DEF Follows
      <4> QED
        BY <2>8, <4>2, <4>4, Zenon
    <3> QED
      BY <1>1, <2>1, <2>2, <3>1, <3>2, <3>3, Zenon DEF ChainInv
  <2> QED
    BY <2>9, <2>10, Zenon
<1> QED
  BY <1>5, <1>6, <1>7, <1>8, <1>9, KindsOfStep

(* A flight the board authorized is one its gate stands by.                *)
LEMMA FlightStep ==
    ASSUME TypeOK, TypeOK', CountInv, ChainInv, ChainInv', FlightInv, ArmedAnswersOneWorld,
           [Next]_vars
    PROVE  FlightInv' /\ ArmedAnswersOneWorld'
<1>1. CASE \/ BridgeReloads \/ BridgeCloses \/ Arrive \/ BridgeSends
           \/ start_session \/ poll_ends_stream \/ UNCHANGED vars
  <2>1. UNCHANGED <<gate, kernel, via, answer, answered, home>>
    BY <1>1 DEF BridgeReloads, BridgeCloses, Arrive, BridgeSends, start_session,
                poll_ends_stream, EndOfStream, vars, linkVars, histVars
  <2> QED
    BY <2>1 DEF FlightInv, ArmedAnswersOneWorld
<1>2. CASE accept
  <2>1. PICK g : g = gate'
    OBVIOUS
  <2>2. /\ g.last = gate.last /\ g.verified = gate.verified /\ g.failed = gate.failed
        /\ g.accepted = TRUE
    BY <1>2, <2>1 DEF accept, TypeOK
  <2>3. UNCHANGED <<kernel, via, answer, answered, home>>
    BY <1>2 DEF accept, histVars
  <2> QED
    BY <2>1, <2>2, <2>3, Zenon DEF FlightInv, ArmedAnswersOneWorld, is_verified
<1>3. CASE arm
  <2>1. /\ UNCHANGED <<gate, answer, home>>
        /\ answered' # 0 /\ kernel = "Ready"
    BY <1>3 DEF arm, NoStep
  <2>2. ~answer.armed
    BY <2>1, Zenon DEF FlightInv
  <2>3. kernel' = "Armed" /\ via' = "board" => is_verified(gate)
    BY <1>3, <2>1 DEF arm, Authorized
  <2> QED
    BY <2>1, <2>2, <2>3, Zenon DEF FlightInv, ArmedAnswersOneWorld
<1>4. CASE disarm \/ stop_session
  <2>1. UNCHANGED <<gate, answer, answered, via, home>> /\ kernel' = "Init"
    BY <1>4 DEF disarm, stop_session, histVars
  <2>2. kernel' # "Armed" /\ kernel' # "Ready"
    BY <2>1
  <2> QED
    BY <2>1, <2>2, Zenon DEF FlightInv, ArmedAnswersOneWorld
<1>5. CASE step_begins
  <2>1. UNCHANGED gate /\ ~answer'.armed
    BY <1>5 DEF step_begins, TypeOK
  <2>2. kernel' = "Armed" /\ via' = "board" => kernel = "Armed" /\ via = "board"
    BY <1>5 DEF step_begins
  <2> QED
    BY <2>1, <2>2, Zenon DEF FlightInv, ArmedAnswersOneWorld
<1>6. CASE poll_connects \/ poll_finds_nothing \/ poll_asks_again \/ step_is_full
  <2>1. step_ends
    BY <1>6 DEF poll_connects, poll_finds_nothing, poll_asks_again, step_is_full
  <2>2. /\ answered' # 0
        /\ UNCHANGED <<gate, answer>>
        /\ kernel' = "Armed" /\ via' = "board" => kernel = "Armed" /\ via = "board"
        /\ via' = "board" => via = "board"
        /\ answered # 0 => kernel' = kernel
    BY <2>1, EndFacts DEF NoStep
  <2>3. home' = home \/ home' = NoWorld
    BY <1>6 DEF poll_connects, try_connect, poll_finds_nothing, poll_asks_again, step_is_full
  <2>4. FlightInv'
    BY <2>2, Zenon DEF FlightInv
  <2>5. ArmedAnswersOneWorld'
    BY <2>2, <2>3, Zenon DEF ArmedAnswersOneWorld
  <2> QED
    BY <2>4, <2>5
<1>7. CASE begin_reset
  <2>1. PICK g : g = gate'
    OBVIOUS
  <2>2. g.last = NoWorld /\ g.verified = FALSE
    BY <1>7, <2>1 DEF begin_reset, NoEvidence
  <2>3. /\ kernel' = "Init" /\ answer' = NoAnswer /\ home' = NoWorld
    BY <1>7 DEF begin_reset
  <2>4. kernel' # "Armed" /\ kernel' # "Ready" /\ ~answer'.armed
    BY <2>3 DEF NoAnswer
  <2> QED
    BY <2>1, <2>2, <2>3, <2>4, Zenon DEF FlightInv, ArmedAnswersOneWorld
<1>8. CASE poll_sample
  <2>1. PICK s \in Samples, ok \in BOOLEAN, sensor_ok \in BOOLEAN,
             actuator_ok \in BOOLEAN, artifact_ok \in BOOLEAN :
          process_sample(s, ok, sensor_ok, actuator_ok, artifact_ok)
    BY <1>8, TakeFacts
  <2>2. answered' # 0
    BY <1>8 DEF poll_sample, Polls
  <2>3. /\ answer'.world = s.world
        /\ \E regressed \in Regressions(s), rate_ok \in BOOLEAN :
             gate' = observe_timestamp(s, regressed, rate_ok)
        /\ answer'.armed => kernel' # "Ready"
        /\ (kernel' = "Armed" \/ answer'.armed) /\ via' = "board" =>
             is_verified(gate') \/ StillFlies(gate')
    BY <2>1, ProcessFacts
  <2>4. gate \in Gates
    BY DEF TypeOK, Gates
  <2>5. /\ gate'.accepted = gate.accepted
        /\ gate'.last = gate.last \/ (gate'.last = s.world /\ gate.accepted)
        /\ ~gate'.failed /\ gate.accepted =>
              gate'.last = s.world /\ (gate.verified => gate'.verified)
        /\ (gate.verified => gate.last # NoWorld) => (gate'.verified => gate'.last # NoWorld)
    BY <2>3, <2>4, Observed, Zenon
  <2>6. /\ gate'.verified => gate'.last # NoWorld
        /\ gate'.last # NoWorld => gate'.accepted
    BY <2>5, Zenon DEF FlightInv
  <2>7. StillFlies(gate') => is_verified(gate')
    <3>1. ASSUME StillFlies(gate')
          PROVE  gate.verified /\ ~gate.failed /\ ~gate'.failed /\ gate.accepted
      BY <3>1, Zenon DEF StillFlies, FlightInv, is_verified
    <3> QED
      BY <2>5, <3>1, Zenon DEF is_verified
  <2>8. FlightInv'
    BY <2>2, <2>3, <2>6, <2>7, Zenon DEF FlightInv
  <2>9. ASSUME answer'.armed, via' = "board", home' # NoWorld
        PROVE  answer'.world = home'
    <3>1. gate'.verified /\ ~gate'.failed
      BY <2>3, <2>7, <2>9, Zenon DEF is_verified
    <3>2. gate'.last = s.world
      BY <2>5, <2>6, <3>1, Zenon
    <3>3. gate'.last = home'
      BY <2>9, <3>1, Zenon DEF ChainInv
    <3> QED
      BY <2>3, <3>2, <3>3, Zenon
  <2> QED
    BY <2>8, <2>9, Zenon DEF ArmedAnswersOneWorld
<1> QED
  BY <1>1, <1>2, <1>3, <1>4, <1>5, <1>6, <1>7, <1>8, KindsOfStep, Zenon DEF Quiet

-----------------------------------------------------------------------------
(* The theorems                                                            *)

LEMMA SessionStep == SessionSafe /\ [Next]_vars => SessionSafe'
<1> SUFFICES ASSUME SessionSafe, [Next]_vars PROVE SessionSafe'
  OBVIOUS
<1>1. /\ TypeOK /\ OrderInv /\ GenerationInv /\ ChainInv /\ CountInv /\ FlightInv
      /\ ArmedAnswersOneWorld /\ GenerationIsANewWorld
  BY DEF SessionSafe
<1>2. TypeOK'
  BY <1>1, TypeStep
<1>3. OrderInv' /\ CountInv'
  BY <1>1, <1>2, OrderStep, CountStep
<1>4. GenerationInv' /\ GenerationIsANewWorld'
  BY <1>1, <1>2, GenerationStep
<1>5. ChainInv'
  BY <1>1, <1>2, ChainStep
<1>6. FlightInv' /\ ArmedAnswersOneWorld'
  BY <1>1, <1>2, <1>5, FlightStep
<1> QED
  BY <1>2, <1>3, <1>4, <1>5, <1>6 DEF SessionSafe

(* SessionSafe is inductive, and holds of every session: with any burst    *)
(* and any queue that takes it, for any number of resets, reloads, broken  *)
(* streams and failures.                                                   *)
THEOREM SessionCorrect == Spec => []SessionSafe
<1>1. Init => SessionSafe
  BY InitHolds
<1>2. SessionSafe /\ [Next]_vars => SessionSafe'
  BY SessionStep
<1> QED
  BY <1>1, <1>2, PTL DEF Spec

(* Board and bridge never wait for each other: when nothing is on its way  *)
(* and every message of the stream was sent, the bridge may send, however  *)
(* many samples a reset discarded (answer_sample, poll_reset_ack,          *)
(* request_reset).                                                         *)
THEOREM NeitherWaitsForTheOther == Spec => []SessionInv
<1>1. SessionSafe => SessionInv
  <2> SUFFICES ASSUME SessionSafe PROVE SessionInv
    OBVIOUS
  <2>1. TypeOK /\ CountInv
    BY DEF SessionSafe
  <2>2. ASSUME link = "up", ~unheard, wire = <<>>, sensors = <<>>
        PROVE  bridge.unanswered < BURST
    <3>1. Len(Flow) = 0
      BY <2>2, ConcatEmptySeq, EmptySeq DEF Flow
    <3>2. bridge.unanswered < Len(Flow) + BURST
      BY <2>1, <2>2 DEF CountInv
    <3> QED
      BY <2>1, <3>1, <3>2, SizesAssumption DEF TypeOK
  <2> QED
    BY <2>1, <2>2 DEF SessionInv, NoMutualWait
<1> QED
  BY <1>1, SessionCorrect, PTL

(* A flight the board authorized stays in the world its identity gate has  *)
(* evidence of: on one stream no armed answer goes to a sample of another  *)
(* world, whenever the simulator is reloaded (observe_timestamp,           *)
(* process_sample).                                                        *)
THEOREM ArmedInOneWorld == Spec => []ArmedAnswersOneWorld
<1>1. SessionSafe => ArmedAnswersOneWorld
  BY DEF SessionSafe
<1> QED
  BY <1>1, SessionCorrect, PTL

(* A generation whose reset was requested begins in a world no sample of   *)
(* an earlier generation came from (begin_reset, poll_reset_ack).          *)
THEOREM GenerationsAreNewWorlds == Spec => []GenerationIsANewWorld
<1>1. SessionSafe => GenerationIsANewWorld
  BY DEF SessionSafe
<1> QED
  BY <1>1, SessionCorrect, PTL

=============================================================================
