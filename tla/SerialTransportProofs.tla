------------------------- MODULE SerialTransportProofs -------------------------
(***************************************************************************)
(* The serial transport, for any ring, packet and chunk size, any frames   *)
(* whose checksums are unique and any number of items.                     *)
(*                                                                         *)
(* Accounts is the invariant.  Of the bytes no parser has seen yet, the    *)
(* Outstanding ones, it says that they follow in the stream                *)
(*   - the bytes that brought the dialogue to where it stands (Trail);     *)
(*   - the checksums of the frames of the commands delivered: a checksum   *)
(*     is unique, so it stands for its frame (Mark) and its command        *)
(*     (Order);                                                            *)
(*   - without a loss, all items but the one they, with what the parser    *)
(*     holds, are the end of: none is missing (Explains).                  *)
(* With it go the type and the clocks of the dialogue.                     *)
(*                                                                         *)
(* The sequences are of any length, so most of this is induction: over the *)
(* bytes of a chunk and over the items sent.  The induction principle used *)
(* here is about sets of naturals and follows from their well-foundedness. *)
(***************************************************************************)
EXTENDS SerialTransport, SequenceTheorems, WellFoundedInduction, TLAPS

-----------------------------------------------------------------------------
(* Induction.  The order of the naturals is well founded, so a set of        *)
(* naturals that has a member has a least one.                               *)

LEMMA LeastNatural ==
  ASSUME NEW T \in SUBSET Nat, T # {}
  PROVE  \E x \in T : \A y \in T : x <= y
<1>1. \E x \in T : \A y \in T : ~ (<<y, x>> \in OpToRel(<, Nat))
  <2>1. IsWellFoundedOn(OpToRel(<, Nat), Nat)
    BY NatLessThanWellFounded
  <2> QED
    BY <2>1, WFMin, Zenon
<1>2. PICK x \in T : \A y \in T : ~ (<<y, x>> \in OpToRel(<, Nat))
  BY <1>1, Zenon
<1>3. ASSUME NEW y \in T PROVE x <= y
  <2>1. ~ (<<y, x>> \in OpToRel(<, Nat))
    BY <1>2, Zenon
  <2>2. x \in Nat /\ y \in Nat
    OBVIOUS
  <2>3. ~ (y < x)
    BY <2>1, <2>2, Zenon DEF OpToRel
  <2> QED
    BY <2>2, <2>3
<1> QED
  BY <1>3

LEMMA Induction ==
  ASSUME NEW S \in SUBSET Nat, 0 \in S, \A n \in S : n + 1 \in S
  PROVE  S = Nat
<1> SUFFICES ASSUME S # Nat PROVE FALSE
  OBVIOUS
<1> DEFINE T == Nat \ S
<1>1. PICK m \in T : \A y \in T : m <= y
  <2>1. T \in SUBSET Nat /\ T # {}
    OBVIOUS
  <2> HIDE DEF T
  <2> QED
    BY <2>1, LeastNatural
<1>2. m \in Nat /\ m # 0 /\ m - 1 \in Nat /\ ~ (m <= m - 1)
  BY <1>1
<1>3. m - 1 \in S
  BY <1>1, <1>2
<1> QED
  BY <1>1, <1>2, <1>3

(* A function defined by recursion over an interval exists.                  *)
Recursive(f, m, n, base, G) ==
  \A k \in m..n : f[k] = IF k = m THEN base ELSE G[f[k - 1]][k]

LEMMA RecursionExists ==
  ASSUME NEW m \in Nat, NEW n \in Nat, m <= n, NEW T, NEW base \in T,
         NEW G \in [T -> [m..n -> T]]
  PROVE  \E f \in [m..n -> T] : Recursive(f, m, n, base, G)
<1> DEFINE Holds(f, d) ==
             /\ f \in [m..(m + d) -> T]
             /\ f[m] = base
             /\ \A k \in (m + 1)..(m + d) : f[k] = G[f[k - 1]][k]
           Good == {d \in Nat : m + d <= n => \E f : Holds(f, d)}
<1>1. 0 \in Good
  <2> DEFINE f == [k \in m..(m + 0) |-> base]
  <2>1. Holds(f, 0)
    OBVIOUS
  <2> HIDE DEF f, Holds
  <2> QED
    BY <2>1
<1>2. ASSUME NEW d \in Good PROVE d + 1 \in Good
  <2> SUFFICES ASSUME m + (d + 1) <= n PROVE \E f : Holds(f, d + 1)
    <3>1. d + 1 \in Nat
      OBVIOUS
    <3> HIDE DEF Holds
    <3> QED
      BY <3>1, Zenon
  <2>0. d \in Nat /\ m + d <= n
    OBVIOUS
  <2>1. PICK f : Holds(f, d)
    BY <2>0
  <2> DEFINE e == m + (d + 1)
             g == [k \in m..e |-> IF k = e THEN G[f[e - 1]][e] ELSE f[k]]
  <2>2. e \in m..n /\ e - 1 = m + d /\ e - 1 \in m..(m + d) /\ e \notin m..(m + d) /\ m # e
    BY <2>0
  <2>3. f[e - 1] \in T /\ G[f[e - 1]][e] \in T
    BY <2>1, <2>2
  <2>4. g \in [m..e -> T]
    <3> SUFFICES ASSUME NEW k \in m..e PROVE (IF k = e THEN G[f[e - 1]][e] ELSE f[k]) \in T
      OBVIOUS
    <3>1. k # e => k \in m..(m + d)
      BY <2>0
    <3> QED
      BY <3>1, <2>1, <2>3
  <2>5. g[m] = base
    BY <2>0, <2>1, <2>2
  <2>6. ASSUME NEW k \in (m + 1)..e PROVE g[k] = G[g[k - 1]][k]
    <3>1. k \in m..e /\ k - 1 \in m..e /\ k - 1 # e
      BY <2>0
    <3>2. g[k - 1] = f[k - 1]
      BY <3>1
    <3>3. CASE k = e
      BY <3>1, <3>2, <3>3
    <3>4. CASE k # e
      <4>1. k \in (m + 1)..(m + d) /\ g[k] = f[k]
        BY <2>0, <3>1, <3>4
      <4> QED
        BY <4>1, <3>2, <2>1
    <3> QED
      BY <3>3, <3>4
  <2> HIDE DEF g
  <2>7. Holds(g, d + 1)
    BY <2>4, <2>5, <2>6
  <2> QED
    BY <2>7
<1>3. n - m \in Good
  <2>1. Good \in SUBSET Nat
    OBVIOUS
  <2> HIDE DEF Good
  <2>2. Good = Nat
    BY <1>1, <1>2, <2>1, Induction
  <2> QED
    BY <2>2
<1>4. m + (n - m) = n
  OBVIOUS
<1>5. PICK f : Holds(f, n - m)
  <2> HIDE DEF Holds
  <2>1. m + (n - m) <= n
    BY <1>4
  <2> QED
    BY <1>3, <2>1, Zenon
<1>6. f \in [m..n -> T] /\ f[m] = base /\ \A k \in (m + 1)..n : f[k] = G[f[k - 1]][k]
  BY <1>4, <1>5
<1>7. \A k \in m..n : k # m => k \in (m + 1)..n
  OBVIOUS
<1> QED
  BY <1>6, <1>7 DEF Recursive

-----------------------------------------------------------------------------
(* Subsequences.  Embeds(s, t): the elements of s are found in t, in order.  *)

Ascends(h, n) == \A i \in 1..n, j \in 1..n : i < j => h[i] < h[j]

Embeds(s, t) ==
  \E h \in [1..Len(s) -> 1..Len(t)] :
    Ascends(h, Len(s)) /\ \A i \in 1..Len(s) : s[i] = t[h[i]]

LEMMA EmbedsRefl ==
  ASSUME NEW S, NEW s \in Seq(S)
  PROVE  Embeds(s, s)
<1> DEFINE h == [i \in 1..Len(s) |-> i]
<1>1. h \in [1..Len(s) -> 1..Len(s)] /\ Ascends(h, Len(s)) /\ \A i \in 1..Len(s) : s[i] = s[h[i]]
  BY DEF Ascends
<1> HIDE DEF h
<1> QED
  BY <1>1, Zenon DEF Embeds

LEMMA EmptyEmbeds ==
  ASSUME NEW S, NEW t \in Seq(S)
  PROVE  Embeds(<<>>, t)
<1> DEFINE h == [i \in 1..0 |-> 1]
<1>1. Len(<<>>) = 0
  OBVIOUS
<1>2. h \in [1..0 -> 1..Len(t)] /\ Ascends(h, 0) /\ \A i \in 1..0 : <<>>[i] = t[h[i]]
  BY DEF Ascends
<1> HIDE DEF h
<1> QED
  BY <1>1, <1>2, Zenon DEF Embeds

LEMMA EmbedsTrans ==
  ASSUME NEW S, NEW s \in Seq(S), NEW t \in Seq(S), NEW u \in Seq(S), Embeds(s, t), Embeds(t, u)
  PROVE  Embeds(s, u)
<1>1. PICK g \in [1..Len(s) -> 1..Len(t)] :
        Ascends(g, Len(s)) /\ \A i \in 1..Len(s) : s[i] = t[g[i]]
  BY DEF Embeds
<1>2. PICK h \in [1..Len(t) -> 1..Len(u)] :
        Ascends(h, Len(t)) /\ \A i \in 1..Len(t) : t[i] = u[h[i]]
  BY DEF Embeds
<1> DEFINE k == [i \in 1..Len(s) |-> h[g[i]]]
<1>3. k \in [1..Len(s) -> 1..Len(u)] /\ Ascends(k, Len(s)) /\ \A i \in 1..Len(s) : s[i] = u[k[i]]
  BY <1>1, <1>2 DEF Ascends
<1> HIDE DEF k
<1> QED
  BY <1>3, Zenon DEF Embeds

LEMMA EmbedsConcat ==
  ASSUME NEW S, NEW s \in Seq(S), NEW t \in Seq(S), NEW u \in Seq(S), NEW v \in Seq(S),
         Embeds(s, t), Embeds(u, v)
  PROVE  Embeds(s \o u, t \o v)
<1>1. PICK g \in [1..Len(s) -> 1..Len(t)] :
        Ascends(g, Len(s)) /\ \A i \in 1..Len(s) : s[i] = t[g[i]]
  BY DEF Embeds
<1>2. PICK h \in [1..Len(u) -> 1..Len(v)] :
        Ascends(h, Len(u)) /\ \A i \in 1..Len(u) : u[i] = v[h[i]]
  BY DEF Embeds
<1>3. PICK a \in Nat, b \in Nat, c \in Nat, d \in Nat :
        a = Len(s) /\ b = Len(t) /\ c = Len(u) /\ d = Len(v)
  OBVIOUS
<1> DEFINE k == [i \in 1..(a + c) |-> IF i <= a THEN g[i] ELSE b + h[i - a]]
<1>4. /\ Len(s \o u) = a + c
      /\ Len(t \o v) = b + d
      /\ \A i \in 1..(a + c) : (s \o u)[i] = IF i <= a THEN s[i] ELSE u[i - a]
      /\ \A i \in 1..(b + d) : (t \o v)[i] = IF i <= b THEN t[i] ELSE v[i - b]
  BY <1>3
<1>5. \A i \in 1..(a + c) : /\ i <= a => i \in 1..Len(s)
                            /\ ~ (i <= a) => i - a \in 1..Len(u)
  BY <1>3
<1>6. /\ \A i \in 1..Len(s) : g[i] \in 1..b
      /\ \A i \in 1..Len(u) : h[i] \in 1..d
  BY <1>1, <1>2, <1>3
<1>7. \A i \in 1..(a + c) :
        /\ i <= a => k[i] = g[i] /\ g[i] \in 1..b
        /\ ~ (i <= a) => k[i] = b + h[i - a] /\ h[i - a] \in 1..d
  BY <1>5, <1>6
<1>8. k \in [1..(a + c) -> 1..(b + d)]
  <2>1. \A i \in 1..(a + c) : k[i] \in 1..(b + d)
    BY <1>3, <1>7
  <2> QED
    BY <2>1
<1>9. Ascends(k, a + c)
  <2> SUFFICES ASSUME NEW i \in 1..(a + c), NEW j \in 1..(a + c), i < j PROVE k[i] < k[j]
    BY DEF Ascends
  <2> HIDE DEF k
  <2>1. CASE j <= a
    <3>1. i \in 1..Len(s) /\ j \in 1..Len(s) /\ i <= a
      BY <2>1, <1>3
    <3> QED
      BY <3>1, <2>1, <1>1, <1>7 DEF Ascends
  <2>2. CASE i <= a /\ ~ (j <= a)
    BY <2>2, <1>3, <1>7
  <2>3. CASE ~ (i <= a)
    <3>1. ~ (j <= a) /\ i - a \in 1..Len(u) /\ j - a \in 1..Len(u) /\ i - a < j - a
      BY <2>3, <1>3
    <3>2. h[i - a] < h[j - a]
      BY <3>1, <1>2 DEF Ascends
    <3>3. k[i] = b + h[i - a] /\ k[j] = b + h[j - a] /\ h[i - a] \in 1..d /\ h[j - a] \in 1..d
      BY <2>3, <3>1, <1>7
    <3>4. PICK x \in Int, y \in Int : x = h[i - a] /\ y = h[j - a]
      BY <3>3, <1>3
    <3>5. x < y /\ k[i] = b + x /\ k[j] = b + y
      BY <3>2, <3>3, <3>4, Zenon
    <3> QED
      BY <3>5, <1>3
  <2> QED
    BY <2>1, <2>2, <2>3, <1>3
<1>10. ASSUME NEW i \in 1..(a + c) PROVE (s \o u)[i] = (t \o v)[k[i]]
  <2> HIDE DEF k
  <2>1. CASE i <= a
    <3>1. i \in 1..Len(s) /\ k[i] \in 1..(b + d) /\ k[i] <= b /\ k[i] = g[i]
      BY <2>1, <1>3, <1>5, <1>7
    <3>2. (t \o v)[k[i]] = t[g[i]]
      BY <3>1, <1>4
    <3> QED
      BY <2>1, <3>1, <3>2, <1>1, <1>4
  <2>2. CASE ~ (i <= a)
    <3>1. i - a \in 1..Len(u) /\ k[i] \in 1..(b + d) /\ ~ (k[i] <= b) /\ k[i] - b = h[i - a]
      BY <2>2, <1>3, <1>5, <1>7
    <3>2. (t \o v)[k[i]] = v[h[i - a]]
      BY <3>1, <1>4
    <3> QED
      BY <2>2, <3>1, <3>2, <1>2, <1>4
  <2> QED
    BY <2>1, <2>2
<1> HIDE DEF k
<1> QED
  BY <1>4, <1>8, <1>9, <1>10, ZenonT(40) DEF Embeds

(* What is embedded in a concatenation falls into two parts.                 *)
LEMMA EmbedsSplit ==
  ASSUME NEW S, NEW s \in Seq(S), NEW t \in Seq(S), NEW u \in Seq(S), Embeds(s, t \o u)
  PROVE  \E n \in 0..Len(s) : Embeds(SubSeq(s, 1, n), t) /\ Embeds(SubSeq(s, n + 1, Len(s)), u)
<1>1. PICK a \in Nat, b \in Nat, c \in Nat : a = Len(s) /\ b = Len(t) /\ c = Len(u)
  OBVIOUS
<1>2. /\ Len(t \o u) = b + c
      /\ \A i \in 1..(b + c) : (t \o u)[i] = IF i <= b THEN t[i] ELSE u[i - b]
  BY <1>1
<1>3. PICK h \in [1..a -> 1..(b + c)] :
        Ascends(h, a) /\ \A i \in 1..a : s[i] = (t \o u)[h[i]]
  BY <1>1, <1>2 DEF Embeds
<1> DEFINE T == {n \in 0..a : \A i \in 1..a : i > n => h[i] > b}
<1>4. PICK n \in T : \A y \in T : n <= y
  <2>1. T \in SUBSET Nat /\ a \in T
    OBVIOUS
  <2> HIDE DEF T
  <2> QED
    BY <2>1, LeastNatural
<1>5. n \in 0..a /\ \A i \in 1..a : i > n => h[i] > b
  OBVIOUS
<1>6. \A i \in 1..n : h[i] <= b
  <2>1. CASE n = 0
    BY <2>1
  <2>2. CASE n # 0
    <3>1. n - 1 \in 0..a /\ n - 1 \notin T
      <4>1. n - 1 \in 0..a /\ ~ (n <= n - 1)
        BY <1>5, <2>2
      <4> HIDE DEF T
      <4> QED
        BY <4>1, <1>4
    <3>2. PICK i \in 1..a : i > n - 1 /\ ~ (h[i] > b)
      BY <3>1
    <3>3. i = n /\ n \in 1..a /\ h[n] <= b
      BY <3>2, <1>3, <1>5
    <3> QED
      BY <3>3, <1>3, <1>5 DEF Ascends
  <2> QED
    BY <2>1, <2>2
<1> HIDE DEF T
<1> DEFINE p == SubSeq(s, 1, n)
           q == SubSeq(s, n + 1, a)
<1>7. /\ Len(p) = n /\ \A i \in 1..n : p[i] = s[i]
      /\ Len(q) = a - n /\ \A i \in 1..(a - n) : q[i] = s[n + i]
  <2>1. p \in Seq(S) /\ Len(p) = n /\ \A i \in 1..n : p[i] = s[i]
    <3>1. \A i \in 1..n : s[i] \in S
      BY <1>1, <1>5
    <3> QED
      BY <3>1, <1>5, SubSeqProperties
  <2>2. Len(q) = a - n /\ \A i \in 1..(a - n) : q[i] = s[n + i]
    <3>1. \A i \in (n + 1)..a : s[i] \in S
      BY <1>1, <1>5
    <3>2. /\ Len(q) = IF n + 1 <= a THEN a - (n + 1) + 1 ELSE 0
          /\ \A i \in 1..(a - (n + 1) + 1) : q[i] = s[n + 1 + i - 1]
      BY <3>1, <1>5, SubSeqProperties
    <3> HIDE DEF q
    <3>3. \A i \in 1..(a - n) : i \in 1..(a - (n + 1) + 1) /\ n + 1 + i - 1 = n + i
      BY <1>5
    <3> QED
      BY <3>2, <3>3, <1>5
  <2> QED
    BY <2>1, <2>2
<1>8. Embeds(p, t)
  <2> DEFINE g == [i \in 1..n |-> h[i]]
  <2>0. \A i \in 1..n : i \in 1..a /\ h[i] \in 1..(b + c) /\ h[i] <= b
    <3>1. \A i \in 1..n : i \in 1..a
      BY <1>5
    <3> QED
      BY <3>1, <1>3, <1>6
  <2>1. g \in [1..n -> 1..Len(t)]
    <3>1. \A i \in 1..n : h[i] \in 1..b
      BY <2>0
    <3> QED
      BY <3>1, <1>1
  <2>2. Ascends(g, n)
    BY <1>3, <1>5 DEF Ascends
  <2>3. \A i \in 1..n : p[i] = t[g[i]]
    <3> SUFFICES ASSUME NEW i \in 1..n PROVE p[i] = t[g[i]]
      OBVIOUS
    <3> HIDE DEF p, q
    <3>1. p[i] = s[i] /\ g[i] = h[i]
      BY <1>7
    <3>2. s[i] = (t \o u)[h[i]]
      BY <2>0, <1>3
    <3>3. (t \o u)[h[i]] = t[h[i]]
      BY <2>0, <1>2
    <3> QED
      BY <3>1, <3>2, <3>3
  <2> HIDE DEF g, p, q
  <2> QED
    BY <1>7, <2>1, <2>2, <2>3, Zenon DEF Embeds
<1>9. Embeds(q, u)
  <2> DEFINE g == [i \in 1..(a - n) |-> h[n + i] - b]
  <2>1. \A i \in 1..(a - n) : n + i \in 1..a /\ h[n + i] \in 1..(b + c) /\ h[n + i] > b
    <3>1. \A i \in 1..(a - n) : n + i \in 1..a /\ n + i > n
      BY <1>5
    <3> QED
      BY <3>1, <1>3, <1>5
  <2>2. \A i \in 1..(a - n) : g[i] \in 1..c
    BY <2>1
  <2>3. g \in [1..(a - n) -> 1..Len(u)]
    BY <2>2, <1>1
  <2>4. Ascends(g, a - n)
    <3> SUFFICES ASSUME NEW i \in 1..(a - n), NEW j \in 1..(a - n), i < j PROVE g[i] < g[j]
      BY DEF Ascends
    <3>1. h[n + i] < h[n + j]
      BY <2>1, <1>3, <1>5 DEF Ascends
    <3> QED
      BY <3>1, <2>1
  <2>5. ASSUME NEW i \in 1..(a - n) PROVE q[i] = u[g[i]]
    <3>1. q[i] = s[n + i]
      <4> HIDE DEF p, q
      <4> QED
        BY <1>7
    <3>2. s[n + i] = u[h[n + i] - b]
      <4>1. s[n + i] = (t \o u)[h[n + i]]
        BY <2>1, <1>3
      <4>2. ~ (h[n + i] <= b)
        BY <2>1
      <4> QED
        BY <4>1, <4>2, <2>1, <1>2
    <3> QED
      BY <3>1, <3>2
  <2> HIDE DEF g, p, q
  <2> QED
    <3>1. Len(q) = a - n
      BY <1>7
    <3>2. g \in [1..Len(q) -> 1..Len(u)] /\ Ascends(g, Len(q))
      BY <3>1, <2>3, <2>4, Zenon
    <3>3. \A i \in 1..Len(q) : q[i] = u[g[i]]
      BY <3>1, <2>5, Zenon
    <3> QED
      BY <3>2, <3>3, Zenon DEF Embeds
<1> HIDE DEF p, q
<1> QED
  BY <1>1, <1>5, <1>8, <1>9 DEF p, q

(* The greedy match of the specification finds every embedding.              *)
LEMMA EmbedsIsSubsequence ==
  ASSUME NEW S, NEW s \in Seq(S), NEW t \in Seq(S), Embeds(s, t)
  PROVE  IsSubsequence(s, t)
<1>1. PICK a \in Nat, b \in Nat : a = Len(s) /\ b = Len(t)
  OBVIOUS
<1> DEFINE Step(n, e) == IF n < Len(s) /\ e = s[n + 1] THEN n + 1 ELSE n
           Rec(f) == f = [k \in 0..Len(t) |-> IF k = 0 THEN 0 ELSE Step(f[k - 1], t[k])]
           f0 == CHOOSE f : Rec(f)
<1>2. Rec(f0)
  <2> DEFINE G == [n \in 0..a |-> [k \in 0..b |-> Step(n, t[k])]]
  <2>1. G \in [0..a -> [0..b -> 0..a]]
    <3>1. \A n \in 0..a, k \in 0..b : Step(n, t[k]) \in 0..a
      BY <1>1
    <3> HIDE DEF Step
    <3> QED
      BY <3>1
  <2>2. 0 \in Nat /\ 0 \in 0..a /\ 0 <= b
    OBVIOUS
  <2>3. PICK f \in [0..b -> 0..a] : \A k \in 0..b : f[k] = IF k = 0 THEN 0 ELSE G[f[k - 1]][k]
    <3> HIDE DEF G
    <3>1. \E f \in [0..b -> 0..a] : Recursive(f, 0, b, 0, G)
      BY <2>1, <2>2, RecursionExists, Zenon
    <3> QED
      BY <3>1, Zenon DEF Recursive
  <2>4. \A k \in 0..b : k # 0 => k - 1 \in 0..b /\ f[k - 1] \in 0..a
    <3>1. \A k \in 0..b : k # 0 => k - 1 \in 0..b
      OBVIOUS
    <3> QED
      BY <3>1
  <2>5. \A k \in 0..b : k # 0 => G[f[k - 1]][k] = Step(f[k - 1], t[k])
    <3> HIDE DEF Step
    <3> QED
      BY <2>4
  <2>6. Rec(f)
    <3>1. \A k \in 0..b : f[k] = IF k = 0 THEN 0 ELSE Step(f[k - 1], t[k])
      <4> HIDE DEF Step, G
      <4> QED
        BY <2>3, <2>5
    <3>2. f = [k \in 0..b |-> f[k]]
      OBVIOUS
    <3> HIDE DEF Step, G
    <3> QED
      BY <3>1, <3>2, <1>1, Zenon
  <2> HIDE DEF Rec
  <2> QED
    BY <2>6, Zenon
<1>3. IsSubsequence(s, t) <=> f0[Len(t)] = Len(s)
  BY Zenon DEF IsSubsequence
<1> HIDE DEF f0
<1>4. PICK h \in [1..a -> 1..b] : Ascends(h, a) /\ \A i \in 1..a : s[i] = t[h[i]]
  BY <1>1 DEF Embeds
<1>5. f0[0] = 0 /\ \A k \in 0..b : k + 1 \in 0..b => f0[k + 1] = Step(f0[k], t[k + 1])
  <2>1. \A k \in 0..b : f0[k] = IF k = 0 THEN 0 ELSE Step(f0[k - 1], t[k])
    <3> HIDE DEF Step
    <3> QED
      BY <1>2, <1>1
  <2> HIDE DEF Step, Rec
  <2>2. 0 \in 0..b /\ \A k \in 0..b : k + 1 # 0 /\ (k + 1) - 1 = k
    OBVIOUS
  <2> QED
    BY <2>1, <2>2
<1> HIDE DEF Rec
<1> DEFINE P(k) == f0[k] \in 0..a /\ \A i \in 1..a : h[i] <= k => i <= f0[k]
           Good == {k \in Nat : k <= b => P(k)}
<1>6. 0 \in Good
  <2>1. \A i \in 1..a : ~ (h[i] <= 0)
    BY <1>4
  <2> QED
    BY <2>1, <1>5
<1>7. ASSUME NEW k \in Good PROVE k + 1 \in Good
  <2> SUFFICES ASSUME k + 1 <= b PROVE P(k + 1)
    OBVIOUS
  <2>1. k \in 0..b /\ k + 1 \in 0..b /\ P(k)
    OBVIOUS
  <2>2. PICK n \in 0..a : n = f0[k]
    BY <2>1
  <2>3. f0[k + 1] = Step(n, t[k + 1])
    BY <2>1, <2>2, <1>5
  <2>4. Step(n, t[k + 1]) \in 0..a /\ Step(n, t[k + 1]) >= n
    BY <1>1
  <2>5. ASSUME NEW i \in 1..a, h[i] <= k + 1 PROVE i <= Step(n, t[k + 1])
    <3>1. CASE i <= n
      BY <3>1, <2>4
    <3>2. CASE ~ (i <= n)
      <4>1. h[i] = k + 1
        BY <3>2, <2>1, <2>2, <2>5, <1>4
      <4>2. n + 1 \in 1..a
        BY <3>2
      <4>3. n + 1 = i
        <5>1. CASE n + 1 < i
          <6>1. h[n + 1] < h[i] /\ h[n + 1] \in 1..b
            BY <5>1, <4>2, <1>4 DEF Ascends
          <6>2. h[n + 1] <= k
            BY <6>1, <4>1, <2>1
          <6>3. n + 1 <= n
            BY <6>2, <4>2, <2>1, <2>2
          <6> QED
            BY <6>3
        <5> QED
          BY <5>1, <3>2
      <4>4. s[n + 1] = t[k + 1]
        <5>1. s[i] = t[h[i]]
          BY <1>4
        <5> QED
          BY <5>1, <4>1, <4>3, Zenon
      <4> QED
        BY <4>2, <4>3, <4>4, <1>1
    <3> QED
      BY <3>1, <3>2
  <2> HIDE DEF Step
  <2> QED
    BY <2>3, <2>4, <2>5
<1>8. P(b)
  <2>1. Good \in SUBSET Nat
    OBVIOUS
  <2> HIDE DEF Good
  <2>2. Good = Nat
    BY <1>6, <1>7, <2>1, Induction
  <2> HIDE DEF P
  <2>3. b \in Good /\ b <= b
    BY <2>2
  <2> QED
    BY <2>3, Zenon DEF Good
<1>9. \A i \in 1..a : h[i] <= b
  BY <1>4
<1>10. f0[b] = a
  <2>1. CASE a = 0
    BY <1>8, <2>1
  <2>2. CASE a # 0
    <3>1. a \in 1..a
      BY <2>2
    <3> QED
      BY <1>8, <1>9, <3>1
  <2> QED
    BY <2>1, <2>2
<1> QED
  BY <1>1, <1>3, <1>10

-----------------------------------------------------------------------------
(* Pieces of a sequence.                                                     *)

LEMMA Piece ==
  ASSUME NEW S, NEW s \in Seq(S), NEW i \in 1..(Len(s) + 1), NEW j \in 0..Len(s), i <= j + 1
  PROVE  /\ SubSeq(s, i, j) \in Seq(S)
         /\ Len(SubSeq(s, i, j)) = j + 1 - i
         /\ \A k \in 1..(j + 1 - i) : SubSeq(s, i, j)[k] = s[i + k - 1]
<1>1. \A k \in i..j : s[k] \in S
  OBVIOUS
<1>2. /\ SubSeq(s, i, j) \in Seq(S)
      /\ Len(SubSeq(s, i, j)) = IF i <= j THEN j - i + 1 ELSE 0
      /\ \A k \in 1..(j - i + 1) : SubSeq(s, i, j)[k] = s[i + k - 1]
  BY <1>1, SubSeqProperties
<1>3. /\ \A k \in 1..(j + 1 - i) : k \in 1..(j - i + 1)
      /\ j + 1 - i = IF i <= j THEN j - i + 1 ELSE 0
  OBVIOUS
<1> QED
  BY <1>2, <1>3

LEMMA PieceOfOne ==
  ASSUME NEW S, NEW s \in Seq(S), NEW i \in 1..Len(s)
  PROVE  SubSeq(s, i, i) = <<s[i]>>
<1> DEFINE p == SubSeq(s, i, i)
<1>1. p \in Seq(S) /\ Len(p) = 1 /\ p[1] = s[i]
  <2>1. i \in 1..(Len(s) + 1) /\ i \in 0..Len(s) /\ i <= i + 1 /\ i + 1 - i = 1 /\ i + 1 - 1 = i
    OBVIOUS
  <2>2. /\ p \in Seq(S) /\ Len(p) = i + 1 - i
        /\ \A k \in 1..(i + 1 - i) : p[k] = s[i + k - 1]
    BY <2>1, Piece
  <2> HIDE DEF p
  <2> QED
    BY <2>1, <2>2
<1>2. <<s[i]>> \in Seq(S) /\ Len(<<s[i]>>) = 1 /\ <<s[i]>>[1] = s[i]
  OBVIOUS
<1> HIDE DEF p
<1>3. \A k \in 1..Len(p) : k = 1
  BY <1>1
<1>4. p = <<s[i]>>
  BY <1>1, <1>2, <1>3, SeqEqual
<1> QED
  BY <1>4 DEF p

LEMMA PieceAppend ==
  ASSUME NEW S, NEW s \in Seq(S), NEW i \in 1..(Len(s) + 1), NEW j \in 0..Len(s),
         i <= j + 1, j + 1 <= Len(s)
  PROVE  SubSeq(s, i, j + 1) = Append(SubSeq(s, i, j), s[j + 1])
<1>1. PICK e \in S : e = s[j + 1]
  OBVIOUS
<1>2. PICK p \in Seq(S) : /\ p = SubSeq(s, i, j) /\ Len(p) = j + 1 - i
                          /\ \A k \in 1..(j + 1 - i) : p[k] = s[i + k - 1]
  <2> DEFINE x == SubSeq(s, i, j)
  <2>1. /\ x \in Seq(S) /\ Len(x) = j + 1 - i
        /\ \A k \in 1..(j + 1 - i) : x[k] = s[i + k - 1]
    BY Piece
  <2> HIDE DEF x
  <2> QED
    BY <2>1, Zenon DEF x
<1>3. PICK q \in Seq(S) : /\ q = SubSeq(s, i, j + 1) /\ Len(q) = j + 1 + 1 - i
                          /\ \A k \in 1..(j + 1 + 1 - i) : q[k] = s[i + k - 1]
  <2>1. j + 1 \in 0..Len(s) /\ i <= j + 1 + 1
    OBVIOUS
  <2> DEFINE x == SubSeq(s, i, j + 1)
  <2>2. /\ x \in Seq(S) /\ Len(x) = j + 1 + 1 - i
        /\ \A k \in 1..(j + 1 + 1 - i) : x[k] = s[i + k - 1]
    BY <2>1, Piece
  <2> HIDE DEF x
  <2> QED
    BY <2>2, Zenon DEF x
<1>4. /\ Append(p, e) \in Seq(S) /\ Len(Append(p, e)) = j + 1 + 1 - i
      /\ \A k \in 1..Len(p) : Append(p, e)[k] = p[k]
      /\ Append(p, e)[Len(p) + 1] = e
  BY <1>2, AppendProperties
<1>5. \A k \in 1..(j + 1 + 1 - i) : q[k] = Append(p, e)[k]
  <2>1. \A k \in 1..(j + 1 + 1 - i) : k \in 1..Len(p) \/ (k = Len(p) + 1 /\ i + k - 1 = j + 1)
    BY <1>2
  <2> QED
    BY <2>1, <1>1, <1>2, <1>3, <1>4
<1>6. q = Append(p, e)
  BY <1>3, <1>4, <1>5, SeqEqual
<1> QED
  BY <1>1, <1>2, <1>3, <1>6

-----------------------------------------------------------------------------
(* Concatenation of a sequence of sequences (SequencesExt).                  *)

Partial(f, s) ==
  f[1] = s[1] /\ \A k \in 1..Len(s) : k # 1 => f[k] = f[k - 1] \o s[k]

LEMMA FlattenFunction ==
  ASSUME NEW B, NEW s \in Seq(Seq(B)), Len(s) # 0
  PROVE  \E f : Partial(f, s) /\ FlattenSeq(s) = f[Len(s)] /\ FlattenSeq(s) \in Seq(B)
<1>1. PICK n \in Nat : n = Len(s) /\ n # 0 /\ 1 <= n
  OBVIOUS
<1> DEFINE Rec(f) == f = [i \in 1..Len(s) |-> IF i = 1 THEN s[i] ELSE f[i - 1] \o s[i]]
           f0 == CHOOSE f : Rec(f)
<1>2. \A k \in 1..n : s[k] \in Seq(B)
  BY <1>1
<1>3. PICK f : Rec(f) /\ f \in [1..n -> Seq(B)]
  <2> DEFINE G == [p \in Seq(B) |-> [k \in 1..n |-> p \o s[k]]]
  <2>1. G \in [Seq(B) -> [1..n -> Seq(B)]]
    <3>1. \A p \in Seq(B), k \in 1..n : p \o s[k] \in Seq(B)
      BY <1>2
    <3> QED
      BY <3>1
  <2>2. 1 \in Nat /\ n \in Nat /\ 1 <= n /\ s[1] \in Seq(B)
    BY <1>1, <1>2
  <2>3. PICK f \in [1..n -> Seq(B)] : \A k \in 1..n : f[k] = IF k = 1 THEN s[1] ELSE G[f[k - 1]][k]
    <3> HIDE DEF G
    <3>1. \E f \in [1..n -> Seq(B)] : Recursive(f, 1, n, s[1], G)
      BY <2>1, <2>2, RecursionExists, Zenon
    <3> QED
      BY <3>1, Zenon DEF Recursive
  <2>4. \A k \in 1..n : k # 1 => k - 1 \in 1..n /\ f[k - 1] \in Seq(B)
    <3>1. \A k \in 1..n : k # 1 => k - 1 \in 1..n
      OBVIOUS
    <3> QED
      BY <3>1
  <2>5. \A k \in 1..n : k # 1 => G[f[k - 1]][k] = f[k - 1] \o s[k]
    BY <2>4
  <2> HIDE DEF G
  <2>6. \A k \in 1..n : f[k] = IF k = 1 THEN s[k] ELSE f[k - 1] \o s[k]
    BY <2>3, <2>5, Zenon
  <2>7. f = [k \in 1..n |-> f[k]]
    OBVIOUS
  <2>8. Rec(f)
    BY <2>6, <2>7, <1>1, Zenon
  <2> HIDE DEF Rec
  <2> QED
    BY <2>8
<1>4. Rec(f0)
  <2> HIDE DEF Rec
  <2> QED
    BY <1>3, Zenon
<1>5. FlattenSeq(s) = f0[Len(s)]
  BY <1>1, Zenon DEF FlattenSeq
<1> HIDE DEF f0
<1>6. /\ f0[1] = s[1]
      /\ \A k \in 1..n : k # 1 => f0[k] = f0[k - 1] \o s[k]
  <2>1. 1 \in 1..n
    BY <1>1
  <2>2. \A k \in 1..n : f0[k] = IF k = 1 THEN s[k] ELSE f0[k - 1] \o s[k]
    BY <1>4, <1>1, Zenon
  <2> HIDE DEF Rec
  <2> QED
    BY <2>1, <2>2, Zenon
<1> HIDE DEF Rec
<1>7. f0[n] \in Seq(B)
  <2> DEFINE Good == {d \in Nat : 1 + d <= n => f0[1 + d] \in Seq(B)}
  <2>1. 0 \in Good
    <3>1. 1 \in 1..n
      BY <1>1
    <3> QED
      BY <3>1, <1>2, <1>6
  <2>2. ASSUME NEW d \in Good PROVE d + 1 \in Good
    <3> SUFFICES ASSUME 1 + (d + 1) <= n PROVE f0[1 + (d + 1)] \in Seq(B)
      OBVIOUS
    <3>1. /\ 1 + (d + 1) \in 1..n /\ 1 + (d + 1) # 1 /\ (1 + (d + 1)) - 1 = 1 + d
          /\ f0[1 + d] \in Seq(B)
      OBVIOUS
    <3>2. PICK p \in Seq(B), q \in Seq(B) : p = f0[1 + d] /\ q = s[1 + (d + 1)]
      BY <3>1, <1>2
    <3>3. f0[1 + (d + 1)] = p \o q
      BY <3>1, <3>2, <1>6, Zenon
    <3> QED
      BY <3>3
  <2>3. Good \in SUBSET Nat /\ n - 1 \in Nat /\ 1 + (n - 1) = n /\ n <= n
    BY <1>1
  <2> HIDE DEF Good
  <2>4. Good = Nat
    BY <2>1, <2>2, <2>3, Induction
  <2> QED
    BY <2>3, <2>4 DEF Good
<1> QED
  BY <1>1, <1>5, <1>6, <1>7 DEF Partial

(* Whatever obeys the recursion is that function.                            *)
LEMMA FlattenDetermined ==
  ASSUME NEW B, NEW s \in Seq(Seq(B)), Len(s) # 0, NEW f, Partial(f, s)
  PROVE  FlattenSeq(s) = f[Len(s)]
<1>1. PICK n \in Nat : n = Len(s) /\ n # 0 /\ 1 <= n
  OBVIOUS
<1>2. PICK g : Partial(g, s) /\ FlattenSeq(s) = g[Len(s)]
  BY FlattenFunction
<1> DEFINE Good == {d \in Nat : 1 + d <= n => f[1 + d] = g[1 + d]}
<1>3. 0 \in Good
  BY <1>1, <1>2 DEF Partial
<1>4. ASSUME NEW d \in Good PROVE d + 1 \in Good
  <2> SUFFICES ASSUME 1 + (d + 1) <= n PROVE f[1 + (d + 1)] = g[1 + (d + 1)]
    OBVIOUS
  <2>1. /\ 1 + (d + 1) \in 1..n /\ 1 + (d + 1) # 1 /\ (1 + (d + 1)) - 1 = 1 + d
        /\ f[1 + d] = g[1 + d]
    OBVIOUS
  <2> QED
    BY <2>1, <1>1, <1>2 DEF Partial
<1>5. Good \in SUBSET Nat /\ n - 1 \in Nat /\ 1 + (n - 1) = n /\ n <= n
  BY <1>1
<1> HIDE DEF Good
<1>6. Good = Nat
  BY <1>3, <1>4, <1>5, Induction
<1>7. f[n] = g[n]
  BY <1>5, <1>6 DEF Good
<1> QED
  BY <1>1, <1>2, <1>7

LEMMA FlattenEmpty == FlattenSeq(<<>>) = <<>>
  BY DEF FlattenSeq

LEMMA FlattenType ==
  ASSUME NEW B, NEW s \in Seq(Seq(B))
  PROVE  FlattenSeq(s) \in Seq(B)
<1>1. CASE Len(s) = 0
  <2>1. s = <<>> /\ <<>> \in Seq(B)
    BY <1>1
  <2> QED
    BY <2>1, FlattenEmpty
<1>2. CASE Len(s) # 0
  BY <1>2, FlattenFunction
<1> QED
  BY <1>1, <1>2

LEMMA FlattenOne ==
  ASSUME NEW B, NEW e \in Seq(B)
  PROVE  FlattenSeq(<<e>>) = e
<1>1. <<e>> \in Seq(Seq(B)) /\ Len(<<e>>) = 1 /\ Len(<<e>>) # 0 /\ <<e>>[1] = e
  OBVIOUS
<1>2. PICK f : Partial(f, <<e>>) /\ FlattenSeq(<<e>>) = f[Len(<<e>>)]
  BY <1>1, FlattenFunction, Zenon
<1> QED
  BY <1>1, <1>2, Zenon DEF Partial

LEMMA FlattenAppend ==
  ASSUME NEW B, NEW s \in Seq(Seq(B)), NEW e \in Seq(B)
  PROVE  FlattenSeq(Append(s, e)) = FlattenSeq(s) \o e
<1>1. CASE Len(s) = 0
  <2>1. s = <<>> /\ Append(s, e) = <<e>> /\ <<>> \o e = e
    BY <1>1
  <2> QED
    BY <2>1, FlattenEmpty, FlattenOne
<1>2. CASE Len(s) # 0
  <2>1. PICK n \in Nat : n = Len(s) /\ n # 0 /\ 1 <= n
    BY <1>2
  <2>2. PICK t \in Seq(Seq(B)) : t = Append(s, e)
    BY AppendProperties
  <2>3. Len(t) = n + 1 /\ Len(t) # 0 /\ t[n + 1] = e /\ \A k \in 1..n : t[k] = s[k]
    BY <2>1, <2>2
  <2>4. PICK f : Partial(f, t) /\ FlattenSeq(t) = f[n + 1]
    BY <2>3, FlattenFunction, Zenon
  <2>5. /\ 1 \in 1..n /\ \A k \in 1..n : k \in 1..(n + 1)
        /\ n + 1 \in 1..(n + 1) /\ n + 1 # 1 /\ (n + 1) - 1 = n
    BY <2>1
  <2>6. Partial(f, s)
    BY <2>1, <2>3, <2>4, <2>5 DEF Partial
  <2>7. FlattenSeq(s) = f[n]
    BY <2>1, <2>6, FlattenDetermined
  <2>8. f[n + 1] = f[n] \o e
    BY <2>3, <2>4, <2>5 DEF Partial
  <2> QED
    BY <2>2, <2>4, <2>7, <2>8
<1> QED
  BY <1>1, <1>2

Associates(p, q, r) == (p \o q) \o r = p \o (q \o r)

LEMMA Association ==
  ASSUME NEW B, NEW p \in Seq(B), NEW q \in Seq(B), NEW r \in Seq(B)
  PROVE  Associates(p, q, r)
<1>1. (p \o q) \o r = p \o (q \o r)
  BY ConcatAssociative
<1> QED
  BY <1>1, Zenon DEF Associates

(* The first of the sequences comes off the front.                           *)
LEMMA FlattenFirst ==
  ASSUME NEW B, NEW s \in Seq(Seq(B)), NEW m \in 1..Len(s)
  PROVE  FlattenSeq(SubSeq(s, m, Len(s))) = s[m] \o FlattenSeq(SubSeq(s, m + 1, Len(s)))
<1>1. PICK n \in Nat : n = Len(s) /\ m <= n
  OBVIOUS
<1> DEFINE A(d) == SubSeq(s, m, m + d)
           C(d) == SubSeq(s, m + 1, m + d)
           Holds(d) == FlattenSeq(A(d)) = s[m] \o FlattenSeq(C(d))
           Good == {d \in Nat : m + d <= n => Holds(d)}
<1>2. 0 \in Good
  <2>1. s[m] \in Seq(B) /\ m \in m..m
    OBVIOUS
  <2>2. A(0) = <<s[m]>>
    <3>1. m + 0 = m
      OBVIOUS
    <3> QED
      BY <3>1, PieceOfOne
  <2>3. C(0) = <<>> /\ s[m] \o <<>> = s[m]
    BY <2>1, <1>1, SubSeqEmpty
  <2> HIDE DEF A, C
  <2>4. Holds(0)
    BY <2>1, <2>2, <2>3, FlattenEmpty, FlattenOne
  <2> HIDE DEF Holds
  <2> QED
    BY <2>4
<1>3. ASSUME NEW d \in Good PROVE d + 1 \in Good
  <2> SUFFICES ASSUME m + (d + 1) <= n PROVE Holds(d + 1)
    <3> HIDE DEF Holds
    <3> QED
      OBVIOUS
  <2>1. d \in Nat /\ m + d <= n /\ Holds(d)
    <3> HIDE DEF Holds
    <3> QED
      OBVIOUS
  <2>2. PICK e \in Seq(B) : e = s[m + (d + 1)]
    BY <1>1, <2>1
  <2>3. s[m] \in Seq(B)
    OBVIOUS
  <2>4. A(d) \in Seq(Seq(B)) /\ A(d + 1) = Append(A(d), e)
    BY <1>1, <2>1, <2>2
  <2>5. C(d) \in Seq(Seq(B)) /\ C(d + 1) = Append(C(d), e)
    <3>1. /\ m + 1 \in 1..(Len(s) + 1) /\ m + d \in 0..Len(s) /\ m + 1 <= m + d + 1
          /\ m + d + 1 <= Len(s) /\ m + (d + 1) = m + d + 1
      BY <1>1, <2>1
    <3>2. C(d) \in Seq(Seq(B))
      BY <3>1, Piece
    <3>3. SubSeq(s, m + 1, m + d + 1) = Append(C(d), s[m + d + 1])
      BY <3>1, PieceAppend
    <3> HIDE DEF C
    <3>4. C(d + 1) = SubSeq(s, m + 1, m + d + 1)
      BY <3>1, Zenon DEF C
    <3> QED
      BY <2>2, <3>1, <3>2, <3>3, <3>4, Zenon
  <2> HIDE DEF A, C
  <2>6. FlattenSeq(C(d)) \in Seq(B)
    BY <2>5, FlattenType
  <2>7. FlattenSeq(A(d + 1)) = (s[m] \o FlattenSeq(C(d))) \o e
    BY <2>1, <2>4, FlattenAppend
  <2>8. FlattenSeq(C(d + 1)) = FlattenSeq(C(d)) \o e
    BY <2>5, FlattenAppend
  <2>9. (s[m] \o FlattenSeq(C(d))) \o e = s[m] \o (FlattenSeq(C(d)) \o e)
    <3>1. PICK x \in Seq(B), y \in Seq(B) : x = s[m] /\ y = FlattenSeq(C(d))
      BY <2>3, <2>6
    <3>2. Associates(x, y, e)
      BY Association, Zenon
    <3> QED
      BY <3>1, <3>2, Zenon DEF Associates
  <2> QED
    BY <2>7, <2>8, <2>9, Zenon
<1> HIDE DEF Holds
<1>4. Good \in SUBSET Nat /\ n - m \in Nat /\ m + (n - m) = n /\ n <= n
  BY <1>1
<1> HIDE DEF Good
<1>5. Good = Nat
  BY <1>2, <1>3, <1>4, Induction
<1>6. Holds(n - m)
  BY <1>4, <1>5, Zenon DEF Good
<1>7. A(n - m) = SubSeq(s, m, n) /\ C(n - m) = SubSeq(s, m + 1, n)
  BY <1>4
<1> HIDE DEF A, C
<1> QED
  BY <1>1, <1>6, <1>7, Zenon DEF Holds

-----------------------------------------------------------------------------
(* The receive ring.  Every index is below twice the size of the ring.       *)

LEMMA Wrap ==
  ASSUME NEW N \in Nat \ {0}, NEW x \in 0..(2 * N - 1)
  PROVE  x % N = IF x < N THEN x ELSE x - N
<1>1. PICK q \in Int, r \in 0..(N - 1) : q = x \div N /\ r = x % N /\ x = N * q + r
  <2>1. x \div N \in Int /\ x % N \in 0..(N - 1) /\ x = N * (x \div N) + (x % N)
    OBVIOUS
  <2> QED
    BY <2>1, Zenon
<1>2. q = 0 \/ q = 1
  <2>1. CASE q < 0
    <3>1. N * q <= N * (0 - 1)
      BY <2>1
    <3> QED
      BY <3>1, <1>1
  <2>2. CASE q > 1
    <3>1. N * q >= N * 2
      BY <2>2
    <3> QED
      BY <3>1, <1>1
  <2> QED
    BY <2>1, <2>2
<1> QED
  BY <1>1, <1>2

LEMMA WrapDifference ==
  ASSUME NEW N \in Nat \ {0}, NEW h \in 0..(N - 1), NEW i \in 0..(N - 1)
  PROVE  (i + N - h) % N = IF i < h THEN i + N - h ELSE i - h
<1>1. PICK x \in 0..(2 * N - 1) : x = i + N - h
  OBVIOUS
<1>2. x % N = IF x < N THEN x ELSE x - N
  BY Wrap
<1> QED
  BY <1>1, <1>2

LEMMA WrapSum ==
  ASSUME NEW N \in Nat \ {0}, NEW h \in 0..(N - 1), NEW k \in 0..(N - 1)
  PROVE  /\ (h + k) % N = IF h + k < N THEN h + k ELSE h + k - N
         /\ (h + k) % N \in 0..(N - 1)
<1>1. PICK x \in 0..(2 * N - 1) : x = h + k
  OBVIOUS
<1>2. x % N = IF x < N THEN x ELSE x - N
  BY Wrap
<1> QED
  BY <1>1, <1>2

Rings == [buf : [0..(RX_SIZE - 1) -> Bytes], head : 0..(RX_SIZE - 1), tail : 0..(RX_SIZE - 1)]

DepthOf(r) == (r.head + RX_SIZE - r.tail) % RX_SIZE

Content(r) == [j \in 1..DepthOf(r) |-> r.buf[(r.tail + j - 1) % RX_SIZE]]

LEMMA BufferedIsContent == rx_depth = DepthOf(rx) /\ Buffered = Content(rx)
  BY DEF rx_depth, DepthOf, Buffered, Content

LEMMA Depth ==
  ASSUME NEW r \in Rings
  PROVE  /\ DepthOf(r) \in 0..(RX_SIZE - 1)
         /\ DepthOf(r) = IF r.head >= r.tail THEN r.head - r.tail ELSE r.head + RX_SIZE - r.tail
<1>1. PICK N \in Nat \ {0, 1}, h \in 0..(RX_SIZE - 1), t \in 0..(RX_SIZE - 1) :
        N = RX_SIZE /\ h = r.head /\ t = r.tail
  BY SizesAssumption DEF Rings
<1>2. PICK x \in 0..(2 * N - 1) : x = h + N - t
  BY <1>1
<1>3. x % N = IF x < N THEN x ELSE x - N
  BY Wrap
<1>4. DepthOf(r) = x % N
  BY <1>1, <1>2 DEF DepthOf
<1> QED
  BY <1>1, <1>2, <1>3, <1>4

LEMMA ContentType ==
  ASSUME NEW r \in Rings
  PROVE  /\ Content(r) \in Seq(Bytes)
         /\ Len(Content(r)) = DepthOf(r)
         /\ \A j \in 1..DepthOf(r) : Content(r)[j] = r.buf[(r.tail + j - 1) % RX_SIZE]
<1>1. PICK N \in Nat \ {0, 1}, t \in 0..(RX_SIZE - 1), d \in 0..(RX_SIZE - 1) :
        N = RX_SIZE /\ t = r.tail /\ d = DepthOf(r)
  BY SizesAssumption, Depth DEF Rings
<1>2. ASSUME NEW j \in 1..d PROVE r.buf[(t + j - 1) % N] \in Bytes
  <2>1. t + j - 1 \in Nat /\ (t + j - 1) % N \in 0..(N - 1)
    BY <1>1
  <2> QED
    BY <1>1, <2>1 DEF Rings
<1>3. [j \in 1..d |-> r.buf[(t + j - 1) % N]] \in Seq(Bytes)
  BY <1>1, <1>2
<1>4. Content(r) = [j \in 1..d |-> r.buf[(t + j - 1) % N]]
  BY <1>1, Zenon DEF Content
<1> QED
  BY <1>1, <1>3, <1>4

Offset(N, h, i) == (i + N - h) % N

Gap(N, h, t) == IF h >= t THEN h - t ELSE h + N - t

SlotCase(N, h, t, n, d, j, i) ==
  /\ N \in Nat \ {0} /\ h \in 0..(N - 1) /\ t \in 0..(N - 1) /\ n \in Nat
  /\ d \in Nat /\ d + n <= N - 1 /\ d = Gap(N, h, t)
  /\ j \in 1..(d + n) /\ i = (t + j - 1) % N

SlotFact(N, h, n, d, j, i) ==
  /\ i \in 0..(N - 1)
  /\ j <= d => ~ (Offset(N, h, i) < n)
  /\ ~ (j <= d) => Offset(N, h, i) < n /\ Offset(N, h, i) + 1 = j - d

(* Where the j-th byte behind the tail is, seen from the head.              *)
LEMMA SlotOf ==
  ASSUME NEW N, NEW h, NEW t, NEW n, NEW d, NEW j, NEW i, SlotCase(N, h, t, n, d, j, i)
  PROVE  SlotFact(N, h, n, d, j, i)
<1>0. /\ N \in Nat \ {0} /\ h \in 0..(N - 1) /\ t \in 0..(N - 1) /\ n \in Nat
      /\ d \in Nat /\ d + n <= N - 1 /\ d = Gap(N, h, t)
      /\ j \in 1..(d + n) /\ i = (t + j - 1) % N
  BY DEF SlotCase
<1>1. PICK k \in 0..(N - 1) : k = j - 1 /\ t + j - 1 = t + k
  BY <1>0
<1>2. i \in 0..(N - 1) /\ i = IF t + k < N THEN t + k ELSE t + k - N
  BY <1>0, <1>1, WrapSum
<1>3. Offset(N, h, i) = IF i < h THEN i + N - h ELSE i - h
  BY <1>0, <1>2, WrapDifference DEF Offset
<1>4. CASE j <= d
  BY <1>0, <1>1, <1>2, <1>3, <1>4 DEF Gap, SlotFact
<1>5. CASE ~ (j <= d)
  BY <1>0, <1>1, <1>2, <1>3, <1>5 DEF Gap, SlotFact
<1> QED
  BY <1>4, <1>5

LEMMA DepthAfter ==
  ASSUME NEW N \in Nat \ {0}, NEW h \in 0..(N - 1), NEW t \in 0..(N - 1), NEW n \in Nat,
         NEW d \in Nat, d + n <= N - 1, d = Gap(N, h, t),
         NEW g \in 0..(N - 1), g = (h + n) % N
  PROVE  d + n = Gap(N, g, t)
<1>1. n \in 0..(N - 1)
  OBVIOUS
<1>2. g = IF h + n < N THEN h + n ELSE h + n - N
  BY <1>1, WrapSum
<1> QED
  BY <1>1, <1>2 DEF Gap

Pushed(r, data, n) ==
  [buf  |-> [i \in 0..(RX_SIZE - 1) |->
               LET j == (i + RX_SIZE - r.head) % RX_SIZE
               IN  IF j < n THEN data[j + 1] ELSE r.buf[i]],
   head |-> (r.head + n) % RX_SIZE,
   tail |-> r.tail]

(* Bytes go in behind what is there, if there is room (rx_push).             *)
LEMMA RingPush ==
  ASSUME NEW r \in Rings, NEW data \in Seq(Bytes), NEW n \in 0..Len(data),
         DepthOf(r) + n <= RX_SIZE - 1
  PROVE  /\ Pushed(r, data, n) \in Rings
         /\ Content(Pushed(r, data, n)) = Content(r) \o SubSeq(data, 1, n)
<1>1. PICK N \in Nat \ {0}, h \in 0..(RX_SIZE - 1), t \in 0..(RX_SIZE - 1), d \in Nat,
           b \in [0..(RX_SIZE - 1) -> Bytes] :
        /\ N = RX_SIZE /\ h = r.head /\ t = r.tail /\ d = DepthOf(r) /\ b = r.buf
        /\ d + n <= N - 1
  <2>1. RX_SIZE \in Nat \ {0}
    BY SizesAssumption
  <2>2. /\ r.head \in 0..(RX_SIZE - 1) /\ r.tail \in 0..(RX_SIZE - 1)
        /\ r.buf \in [0..(RX_SIZE - 1) -> Bytes]
    BY Zenon DEF Rings
  <2>3. DepthOf(r) \in 0..(RX_SIZE - 1)
    BY Depth
  <2>4. DepthOf(r) \in Nat
    BY <2>1, <2>3
  <2> QED
    BY <2>1, <2>2, <2>4, Zenon
<1>2. d = Gap(N, h, t)
  BY <1>1, Depth DEF Gap
<1>3. n \in Nat /\ n \in 0..(N - 1) /\ h \in 0..(N - 1) /\ t \in 0..(N - 1)
  BY <1>1
<1>4. (h + n) % N \in 0..(N - 1)
  BY <1>3, WrapSum
<1> DEFINE J(i) == Offset(N, h, i)
           c == [i \in 0..(N - 1) |-> IF J(i) < n THEN data[J(i) + 1] ELSE b[i]]
<1>5. PICK q : /\ q = Pushed(r, data, n) /\ q.buf = c /\ q.head = (h + n) % N /\ q.tail = t
               /\ q = [buf |-> c, head |-> (h + n) % N, tail |-> t]
  BY <1>1 DEF Pushed, Offset
<1>6. \A i \in 0..(N - 1) : J(i) \in Nat
  BY <1>3, WrapDifference DEF Offset
<1>7. \A i \in 0..(N - 1) : c[i] = IF J(i) < n THEN data[J(i) + 1] ELSE b[i]
  OBVIOUS
<1>8. c \in [0..(N - 1) -> Bytes]
  <2> SUFFICES ASSUME NEW i \in 0..(N - 1)
               PROVE  (IF J(i) < n THEN data[J(i) + 1] ELSE b[i]) \in Bytes
    OBVIOUS
  <2>1. PICK j \in Nat : j = J(i)
    BY <1>6
  <2>2. j < n => data[j + 1] \in Bytes
    BY <1>3
  <2>3. b[i] \in Bytes
    BY <1>1
  <2> QED
    BY <2>1, <2>2, <2>3
<1> HIDE DEF c, J
<1>9. q \in Rings
  BY <1>1, <1>3, <1>4, <1>5, <1>8, Zenon DEF Rings
<1>10. DepthOf(q) = d + n
  <2>1. PICK g \in 0..(N - 1) : g = (h + n) % N
    BY <1>4
  <2>2. d + n = Gap(N, g, t)
    BY <1>1, <1>2, <1>3, <2>1, DepthAfter
  <2>3. DepthOf(q) = Gap(N, g, t)
    BY <1>1, <1>5, <1>9, <2>1, Depth DEF Gap
  <2> QED
    BY <2>2, <2>3
<1>11. PICK s \in Seq(Bytes) : /\ s = Content(r) /\ Len(s) = d
                               /\ \A j \in 1..d : s[j] = b[(t + j - 1) % N]
  BY <1>1, ContentType
<1>12. PICK u \in Seq(Bytes) : /\ u = Content(q) /\ Len(u) = d + n
                               /\ \A j \in 1..(d + n) : u[j] = c[(t + j - 1) % N]
  <2>1. /\ Content(q) \in Seq(Bytes) /\ Len(Content(q)) = DepthOf(q)
        /\ \A j \in 1..DepthOf(q) : Content(q)[j] = q.buf[(q.tail + j - 1) % RX_SIZE]
    BY <1>9, ContentType
  <2> QED
    <3>1. \A j \in 1..(d + n) : Content(q)[j] = c[(t + j - 1) % N]
      BY <1>1, <1>5, <1>10, <2>1, Zenon
    <3>2. Content(q) \in Seq(Bytes) /\ Len(Content(q)) = d + n
      BY <1>10, <2>1, Zenon
    <3> QED
      BY <3>1, <3>2, Zenon
<1>13. PICK p \in Seq(Bytes) : /\ p = SubSeq(data, 1, n) /\ Len(p) = n
                               /\ \A k \in 1..n : p[k] = data[k]
  <2> DEFINE x == SubSeq(data, 1, n)
  <2>1. 1 \in 1..(Len(data) + 1) /\ n \in 0..Len(data) /\ 1 <= n + 1 /\ n + 1 - 1 = n
    BY <1>3
  <2>2. x \in Seq(Bytes) /\ Len(x) = n + 1 - 1 /\ \A k \in 1..(n + 1 - 1) : x[k] = data[1 + k - 1]
    BY <2>1, Piece
  <2>3. \A k \in 1..n : 1 + k - 1 = k
    OBVIOUS
  <2> HIDE DEF x
  <2>4. x \in Seq(Bytes) /\ Len(x) = n /\ \A k \in 1..n : x[k] = data[k]
    BY <2>1, <2>2, <2>3, Zenon
  <2> QED
    BY <2>4, Zenon DEF x
<1>14. ASSUME NEW j \in 1..(d + n) PROVE u[j] = (s \o p)[j]
  <2>1. PICK i \in Nat : i = (t + j - 1) % N
    BY <1>1, <1>3
  <2>2. /\ i \in 0..(N - 1)
        /\ j <= d => ~ (J(i) < n)
        /\ ~ (j <= d) => J(i) < n /\ J(i) + 1 = j - d
    <3>1. SlotCase(N, h, t, n, d, j, i)
      BY <1>1, <1>2, <1>3, <2>1, Zenon DEF SlotCase
    <3>2. SlotFact(N, h, n, d, j, i)
      BY <3>1, SlotOf, Zenon
    <3> QED
      BY <3>2, Zenon DEF J, SlotFact
  <2>3. u[j] = c[i]
    BY <1>12, <2>1
  <2>4. CASE j <= d
    <3>1. c[i] = b[i]
      BY <1>7, <2>2, <2>4
    <3>2. j \in 1..d
      BY <2>4
    <3>3. s[j] = b[i]
      BY <1>11, <2>1, <3>2
    <3>4. (s \o p)[j] = s[j]
      BY <1>11, <1>13, <3>2
    <3> QED
      BY <2>3, <3>1, <3>3, <3>4
  <2>5. CASE ~ (j <= d)
    <3>1. c[i] = data[j - d]
      BY <1>7, <2>2, <2>5
    <3>2. j - d \in 1..n
      BY <1>3, <2>5
    <3>3. (s \o p)[j] = p[j - d]
      BY <1>11, <1>13, <2>5, <3>2
    <3>4. p[j - d] = data[j - d]
      BY <3>2, <1>13
    <3> QED
      BY <2>3, <3>1, <3>3, <3>4
  <2> QED
    BY <2>4, <2>5
<1>15. s \o p \in Seq(Bytes) /\ Len(s \o p) = d + n
  BY <1>11, <1>13, ConcatProperties
<1>16. u = s \o p
  BY <1>12, <1>14, <1>15, SeqEqual
<1> QED
  BY <1>5, <1>9, <1>11, <1>12, <1>13, <1>16, Zenon

(* Bytes come out in front.                                                  *)
LEMMA RingPop ==
  ASSUME NEW r \in Rings, NEW n \in 0..DepthOf(r)
  PROVE  LET q == [r EXCEPT !.tail = (@ + n) % RX_SIZE]
         IN  /\ q \in Rings
             /\ Content(q) \in Seq(Bytes)
             /\ Content(r) = SubSeq(Content(r), 1, n) \o Content(q)
<1>1. PICK N \in Nat \ {0}, h \in 0..(RX_SIZE - 1), t \in 0..(RX_SIZE - 1),
           d \in 0..(RX_SIZE - 1), b \in [0..(RX_SIZE - 1) -> Bytes] :
        /\ N = RX_SIZE /\ h = r.head /\ t = r.tail /\ d = DepthOf(r) /\ b = r.buf
  BY SizesAssumption, Depth DEF Rings
<1>2. d = IF h >= t THEN h - t ELSE h + N - t
  BY <1>1, Depth
<1>3. /\ n \in Nat /\ n \in 0..(N - 1) /\ h \in 0..(N - 1) /\ t \in 0..(N - 1)
      /\ n <= d /\ d <= N - 1 /\ d \in Nat
  BY <1>1
<1>4. PICK g \in 0..(N - 1) : g = (t + n) % N /\ g = IF t + n < N THEN t + n ELSE t + n - N
  BY <1>3, WrapSum
<1>5. PICK q : /\ q = [r EXCEPT !.tail = (@ + n) % RX_SIZE] /\ q.buf = b /\ q.head = h /\ q.tail = g
               /\ q = [buf |-> b, head |-> h, tail |-> g]
  <2>1. r = [buf |-> b, head |-> h, tail |-> t]
    BY <1>1 DEF Rings
  <2>2. PICK q : q = [buf |-> b, head |-> h, tail |-> g]
    OBVIOUS
  <2>3. q = [r EXCEPT !.tail = g]
    BY <2>1, <2>2
  <2>4. r.tail = t /\ (t + n) % RX_SIZE = g
    BY <1>1, <1>4, Zenon
  <2>5. q = [r EXCEPT !.tail = (@ + n) % RX_SIZE]
    BY <2>3, <2>4, Zenon
  <2>6. q.buf = b /\ q.head = h /\ q.tail = g
    BY <2>2
  <2> QED
    BY <2>2, <2>5, <2>6, Zenon
<1>6. q \in Rings
  BY <1>1, <1>3, <1>4, <1>5, Zenon DEF Rings
<1>7. DepthOf(q) = d - n
  <2>1. DepthOf(q) = IF h >= g THEN h - g ELSE h + N - g
    BY <1>1, <1>5, <1>6, Depth
  <2> QED
    BY <1>2, <1>3, <1>4, <2>1
<1>8. PICK s \in Seq(Bytes) : /\ s = Content(r) /\ Len(s) = d
                              /\ \A j \in 1..d : s[j] = b[(t + j - 1) % N]
  BY <1>1, ContentType
<1>9. PICK u \in Seq(Bytes) : /\ u = Content(q) /\ Len(u) = d - n
                              /\ \A j \in 1..(d - n) : u[j] = b[(g + j - 1) % N]
  <2>1. /\ Content(q) \in Seq(Bytes) /\ Len(Content(q)) = DepthOf(q)
        /\ \A j \in 1..DepthOf(q) : Content(q)[j] = q.buf[(q.tail + j - 1) % RX_SIZE]
    BY <1>6, ContentType
  <2> QED
    <3>1. \A j \in 1..(d - n) : Content(q)[j] = b[(g + j - 1) % N]
      BY <1>1, <1>5, <1>7, <2>1, Zenon
    <3>2. Content(q) \in Seq(Bytes) /\ Len(Content(q)) = d - n
      BY <1>7, <2>1, Zenon
    <3> QED
      BY <3>1, <3>2, Zenon
<1>10. PICK p \in Seq(Bytes) : p = SubSeq(s, 1, n) /\ Len(p) = n /\ \A k \in 1..n : p[k] = s[k]
  <2> DEFINE x == SubSeq(s, 1, n)
  <2>1. 1 \in 1..(Len(s) + 1) /\ n \in 0..Len(s) /\ 1 <= n + 1 /\ n + 1 - 1 = n
    BY <1>3, <1>8
  <2>2. x \in Seq(Bytes) /\ Len(x) = n + 1 - 1 /\ \A k \in 1..(n + 1 - 1) : x[k] = s[1 + k - 1]
    BY <2>1, Piece
  <2>3. \A k \in 1..n : 1 + k - 1 = k
    OBVIOUS
  <2> HIDE DEF x
  <2>4. x \in Seq(Bytes) /\ Len(x) = n /\ \A k \in 1..n : x[k] = s[k]
    BY <2>1, <2>2, <2>3, Zenon
  <2> QED
    BY <2>4, Zenon DEF x
<1>11. p \o u \in Seq(Bytes) /\ Len(p \o u) = d
  BY <1>3, <1>9, <1>10
<1>12. ASSUME NEW j \in 1..d PROVE s[j] = (p \o u)[j]
  <2>1. CASE j <= n
    <3>1. j \in 1..n
      BY <2>1
    <3> QED
      BY <3>1, <1>9, <1>10
  <2>2. CASE ~ (j <= n)
    <3>1. j - n \in 1..(d - n)
      BY <1>3, <2>2
    <3>2. (p \o u)[j] = u[j - n]
      BY <1>3, <1>9, <1>10, <2>2, <3>1
    <3>3. (t + j - 1) % N = (g + (j - n) - 1) % N
      <4>1. PICK k \in 0..(N - 1), m \in 0..(N - 1) :
              k = m + n /\ t + j - 1 = t + k /\ g + (j - n) - 1 = g + m
        BY <1>3, <1>4, <2>2
      <4>2. (t + k) % N = IF t + k < N THEN t + k ELSE t + k - N
        BY <1>3, WrapSum
      <4>3. (g + m) % N = IF g + m < N THEN g + m ELSE g + m - N
        BY <1>3, WrapSum
      <4>4. (t + k) % N = (g + m) % N
        <5>1. PICK y \in Int, z \in Int : y = (t + k) % N /\ z = (g + m) % N
          BY <4>2, <4>3
        <5>2. y = IF t + k < N THEN t + k ELSE t + k - N
          BY <4>2, <5>1, Zenon
        <5>3. z = IF g + m < N THEN g + m ELSE g + m - N
          BY <4>3, <5>1, Zenon
        <5>4. k = m + n /\ g = IF t + n < N THEN t + n ELSE t + n - N
          BY <4>1, <1>4, Zenon
        <5>5. y = z
          BY <5>2, <5>3, <5>4, <1>3
        <5> QED
          BY <5>1, <5>5, Zenon
      <4> QED
        BY <4>1, <4>4, Zenon
    <3> QED
      BY <1>8, <1>9, <3>1, <3>2, <3>3, Zenon
  <2> QED
    BY <2>1, <2>2
<1>13. s = p \o u
  BY <1>8, <1>11, <1>12, SeqEqual
<1> QED
  BY <1>5, <1>6, <1>8, <1>9, <1>10, <1>13, Zenon

-----------------------------------------------------------------------------
(* The DFU dialogue.                                                         *)

Ticks == 0..(TICK_RANGE - 1)

Dialogues ==
  {d \in [state : {"Idle", "WaitDfu", "WaitConfirm"}, idx : 0..2, code : Codes \cup {<<>>},
          got : Seq(Digits), last_sent : Ticks, start_tick : Ticks] :
     /\ d.state = "WaitDfu" => d.idx \in {1, 2}
     /\ d.state = "WaitConfirm" => d.code \in Codes
     /\ Len(d.got) <= 2}

Word == <<"d", "f", "u">>

\* The bytes that brought the dialogue where it is.
Trail(d) ==
  CASE d.state = "Idle"        -> <<>>
    [] d.state = "WaitDfu"     -> IF d.idx = 1 THEN <<"d">> ELSE <<"d", "f">>
    [] d.state = "WaitConfirm" -> Word \o d.got

(* A reset forgets every byte.                                               *)
LEMMA IdleDialogue ==
  Idle \in Dialogues /\ Idle.state = "Idle" /\ Trail(Idle) = <<>>
<1>1. 0 \in Ticks /\ 0 \in 0..2 /\ <<>> \in Seq(Digits) /\ Len(<<>>) <= 2
  BY TicksAssumption DEF Ticks
<1>2. Idle \in Dialogues
  BY <1>1 DEF Idle, Dialogues
<1> QED
  BY <1>2 DEF Idle, Trail

(* One more letter of the word.                                              *)
LEMMA MatchingDialogue ==
  ASSUME NEW i \in {1, 2}
  PROVE  /\ WaitDfu(i) \in Dialogues /\ WaitDfu(i).state = "WaitDfu"
         /\ Trail(WaitDfu(i)) = IF i = 1 THEN <<"d">> ELSE <<"d", "f">>
<1>1. WaitDfu(i) = [state |-> "WaitDfu", idx |-> i, code |-> <<>>, got |-> <<>>,
                    last_sent |-> 0, start_tick |-> 0]
  <2>1. PICK e : e = [Idle EXCEPT !.state = "WaitDfu"]
    OBVIOUS
  <2>2. e = [state |-> "WaitDfu", idx |-> 0, code |-> <<>>, got |-> <<>>,
             last_sent |-> 0, start_tick |-> 0]
    BY <2>1 DEF Idle
  <2>3. WaitDfu(i) = [e EXCEPT !.idx = i]
    BY <2>1, Zenon DEF WaitDfu
  <2> QED
    BY <2>2, <2>3
<1>2. 0 \in Ticks /\ i \in 0..2 /\ <<>> \in Seq(Digits) /\ Len(<<>>) <= 2
  BY TicksAssumption DEF Ticks
<1>3. WaitDfu(i) \in Dialogues
  BY <1>1, <1>2 DEF Dialogues
<1> QED
  BY <1>1, <1>3 DEF Trail

(* A challenge starts its clock.                                             *)
LEMMA OpenDialogue ==
  ASSUME NEW c \in Codes, tick_counter \in Ticks
  PROVE  /\ WaitConfirm(c) \in Dialogues /\ WaitConfirm(c).state = "WaitConfirm"
         /\ WaitConfirm(c).start_tick = tick_counter
         /\ Trail(WaitConfirm(c)) = Word
<1>1. WaitConfirm(c) = [state |-> "WaitConfirm", idx |-> 0, code |-> c, got |-> <<>>,
                        last_sent |-> tick_counter, start_tick |-> tick_counter]
  <2>1. PICK e : e = [Idle EXCEPT !.state = "WaitConfirm"]
    OBVIOUS
  <2>2. e = [state |-> "WaitConfirm", idx |-> 0, code |-> <<>>, got |-> <<>>,
             last_sent |-> 0, start_tick |-> 0]
    BY <2>1 DEF Idle
  <2>3. PICK g : g = [e EXCEPT !.code = c]
    OBVIOUS
  <2>4. g = [state |-> "WaitConfirm", idx |-> 0, code |-> c, got |-> <<>>,
             last_sent |-> 0, start_tick |-> 0]
    BY <2>2, <2>3
  <2>5. PICK j : j = [g EXCEPT !.last_sent = tick_counter]
    OBVIOUS
  <2>6. j = [state |-> "WaitConfirm", idx |-> 0, code |-> c, got |-> <<>>,
             last_sent |-> tick_counter, start_tick |-> 0]
    BY <2>4, <2>5
  <2>7. WaitConfirm(c) = [j EXCEPT !.start_tick = tick_counter]
    BY <2>1, <2>3, <2>5, Zenon DEF WaitConfirm
  <2> QED
    BY <2>6, <2>7
<1>2. 0 \in 0..2 /\ <<>> \in Seq(Digits) /\ Len(<<>>) <= 2
  OBVIOUS
<1>3. WaitConfirm(c) \in Dialogues
  BY <1>1, <1>2 DEF Dialogues
<1>4. Word \o <<>> = Word
  BY DEF Word
<1> QED
  BY <1>1, <1>3, <1>4 DEF Trail

(* A digit is put behind those that came before it.                          *)
LEMMA AnsweringDialogue ==
  ASSUME NEW d \in Dialogues, NEW byte \in Digits, d.state = "WaitConfirm",
         Len(d.got) < Len(d.code)
  PROVE  LET e == [d EXCEPT !.got = Append(@, byte)]
         IN  /\ e \in Dialogues /\ e.state = "WaitConfirm" /\ e.start_tick = d.start_tick
             /\ Trail(e) = Append(Trail(d), byte)
<1>1. PICK e : e = [d EXCEPT !.got = Append(@, byte)]
  OBVIOUS
<1>2. d.code \in Codes /\ Len(d.code) = 2
  BY CodesAssumption DEF Dialogues
<1>3. PICK g \in Seq(Digits) : g = d.got /\ Len(g) < 2
  BY <1>2 DEF Dialogues
<1>4. Append(g, byte) \in Seq(Digits) /\ Len(Append(g, byte)) <= 2
  BY <1>3
<1>5. /\ e.got = Append(g, byte) /\ e.state = "WaitConfirm" /\ e.start_tick = d.start_tick
      /\ e \in Dialogues
  BY <1>1, <1>3, <1>4 DEF Dialogues
<1>6. Word \o Append(g, byte) = Append(Word \o g, byte)
  <2>1. Word \in Seq(Bytes) /\ g \in Seq(Bytes) /\ byte \in Bytes
    BY <1>3 DEF Word, Bytes, Digits
  <2> QED
    BY <2>1
<1> QED
  BY <1>1, <1>3, <1>5, <1>6 DEF Trail

\* What one byte may do to a dialogue.
Follows(d, e, byte) ==
  /\ e \in Dialogues
  /\ Trail(e) \in {<<>>, Trail(d), Append(Trail(d), byte)}
  /\ e.state = "WaitConfirm" =>
       e.start_tick = IF d.state = "WaitConfirm" THEN d.start_tick ELSE tick_counter

(* A byte extends the trail, leaves it alone or wipes it out.                *)
LEMMA DialogueStep ==
  ASSUME NEW d \in Dialogues, NEW byte \in Bytes, NEW c \in Codes, tick_counter \in Ticks
  PROVE  /\ Follows(d, handle_dfu_protocol(d, byte, c).dfu, byte)
         /\ handle_dfu_protocol(d, byte, c).eaten \in BOOLEAN
<1>1. \A e : Eaten(e).dfu = e /\ Eaten(e).eaten = TRUE /\ PassedOn(e).dfu = e /\ PassedOn(e).eaten = FALSE
  BY DEF Eaten, PassedOn
<1>2. Follows(d, Idle, byte)
  BY IdleDialogue DEF Follows
<1>3. Follows(d, d, byte)
  BY DEF Follows
<1>4. \A e : /\ Follows(d, e, byte) => /\ Follows(d, Eaten(e).dfu, byte)
                                       /\ Follows(d, PassedOn(e).dfu, byte)
             /\ Eaten(e).eaten \in BOOLEAN /\ PassedOn(e).eaten \in BOOLEAN
  BY <1>1, Zenon
<1>5. d.state \in {"Idle", "WaitDfu", "WaitConfirm"} /\ d.idx \in 0..2
  BY DEF Dialogues
<1>6. CASE d.state = "Idle"
  <2>1. handle_dfu_protocol(d, byte, c) = DfuIdle(d, byte)
    BY <1>6 DEF handle_dfu_protocol
  <2>2. CASE byte = "d"
    <3>1. Follows(d, WaitDfu(1), byte)
      <4>1. Trail(d) = <<>>
        BY <1>6 DEF Trail
      <4>2. Trail(WaitDfu(1)) = Append(Trail(d), byte)
        BY <4>1, <2>2, MatchingDialogue
      <4> QED
        BY <4>2, MatchingDialogue DEF Follows
    <3>2. DfuIdle(d, byte) = Eaten(WaitDfu(1))
      BY <2>2, Zenon DEF DfuIdle
    <3> QED
      BY <2>1, <3>1, <3>2, <1>4, Zenon
  <2>3. CASE byte # "d"
    <3>1. DfuIdle(d, byte) = PassedOn(d)
      BY <2>3, Zenon DEF DfuIdle
    <3> QED
      BY <2>1, <3>1, <1>3, <1>4, Zenon
  <2> QED
    BY <2>2, <2>3
<1>7. CASE d.state = "WaitDfu"
  <2>1. handle_dfu_protocol(d, byte, c) = DfuMatching(d, byte, c)
    BY <1>7 DEF handle_dfu_protocol
  <2>2. d.idx \in {1, 2}
    BY <1>7 DEF Dialogues
  <2>3. Trail(d) = IF d.idx = 1 THEN <<"d">> ELSE <<"d", "f">>
    BY <1>7 DEF Trail
  <2>4. CASE byte # <<"d", "f", "u">>[d.idx + 1]
    <3>1. DfuMatching(d, byte, c) = PassedOn(Idle)
      BY <2>4, Zenon DEF DfuMatching
    <3> QED
      BY <2>1, <3>1, <1>2, <1>4, Zenon
  <2>5. CASE byte = <<"d", "f", "u">>[d.idx + 1] /\ d.idx = 2
    <3>1. byte = "u"
      BY <2>5
    <3>2. Append(Trail(d), byte) = Word
      <4>1. Trail(d) = <<"d", "f">>
        BY <2>3, <2>5
      <4>2. Append(<<"d", "f">>, "u") = <<"d", "f", "u">>
        <5>0. /\ <<"d", "f">> \in Seq({"d", "f", "u"}) /\ Len(<<"d", "f">>) = 2
              /\ <<"d", "f">>[1] = "d" /\ <<"d", "f">>[2] = "f"
              /\ <<"d", "f", "u">> \in Seq({"d", "f", "u"}) /\ Len(<<"d", "f", "u">>) = 3
              /\ <<"d", "f", "u">>[1] = "d" /\ <<"d", "f", "u">>[2] = "f"
              /\ <<"d", "f", "u">>[3] = "u"
          OBVIOUS
        <5>1. PICK s \in Seq({"d", "f", "u"}) : s = <<"d", "f">> /\ Len(s) = 2 /\ s[1] = "d" /\ s[2] = "f"
          BY <5>0, Zenon
        <5>2. PICK t \in Seq({"d", "f", "u"}) :
                t = <<"d", "f", "u">> /\ Len(t) = 3 /\ t[1] = "d" /\ t[2] = "f" /\ t[3] = "u"
          BY <5>0, Zenon
        <5>3. /\ Append(s, "u") \in Seq({"d", "f", "u"}) /\ Len(Append(s, "u")) = Len(t)
              /\ \A i \in 1..Len(t) : Append(s, "u")[i] = t[i]
          BY <5>1, <5>2
        <5>4. Append(s, "u") = t
          BY <5>3, SeqEqual
        <5> QED
          BY <5>1, <5>2, <5>4, Zenon
      <4> QED
        BY <3>1, <4>1, <4>2, Zenon DEF Word
    <3>3. Follows(d, WaitConfirm(c), byte)
      BY <3>2, <1>7, OpenDialogue DEF Follows
    <3>4. DfuMatching(d, byte, c) = Eaten(WaitConfirm(c))
      BY <2>5, Zenon DEF DfuMatching
    <3> QED
      BY <2>1, <3>3, <3>4, <1>4, Zenon
  <2>6. CASE byte = <<"d", "f", "u">>[d.idx + 1] /\ d.idx # 2
    <3>1. d.idx = 1 /\ d.idx + 1 = 2
      BY <2>2, <2>6
    <3>2. byte = "f"
      BY <3>1, <2>6
    <3>3. Trail(WaitDfu(2)) = Append(Trail(d), byte)
      BY <3>1, <3>2, <2>3, MatchingDialogue
    <3>4. Follows(d, WaitDfu(2), byte)
      BY <3>3, MatchingDialogue DEF Follows
    <3>5. DfuMatching(d, byte, c) = Eaten(WaitDfu(2))
      BY <2>6, <3>1, Zenon DEF DfuMatching
    <3> QED
      BY <2>1, <3>4, <3>5, <1>4, Zenon
  <2> QED
    BY <2>4, <2>5, <2>6
<1>8. CASE d.state = "WaitConfirm"
  <2>1. handle_dfu_protocol(d, byte, c) = DfuConfirming(d, byte)
    BY <1>8 DEF handle_dfu_protocol
  <2>2. PICK e : e = [d EXCEPT !.got = Append(@, byte)]
    OBVIOUS
  <2>3. byte \in Digits /\ Len(d.got) < Len(d.code) => Follows(d, e, byte)
    BY <1>8, <2>2, AnsweringDialogue DEF Follows
  <2>4. \/ DfuConfirming(d, byte) = Eaten(d)
        \/ DfuConfirming(d, byte) = Eaten(Idle)
        \/ DfuConfirming(d, byte) = PassedOn(d)
        \/ byte \in Digits /\ Len(d.got) < Len(d.code) /\ DfuConfirming(d, byte) = Eaten(e)
    BY <2>2, Zenon DEF DfuConfirming
  <2> QED
    BY <2>1, <2>3, <2>4, <1>2, <1>3, <1>4, Zenon
<1> QED
  BY <1>5, <1>6, <1>7, <1>8

(* A challenge that is too old is taken back, and nothing else ends it here. *)
LEMMA DialogueUpdated ==
  ASSUME dfu \in Dialogues, tick_counter \in Ticks
  PROVE  /\ update_dfu_state \in Dialogues
         /\ Trail(update_dfu_state) \in {<<>>, Trail(dfu)}
         /\ update_dfu_state.state = "WaitConfirm" =>
              /\ dfu.state = "WaitConfirm" /\ update_dfu_state.start_tick = dfu.start_tick
              /\ ~ (Elapsed(dfu.start_tick) > DFU_TIMEOUT_TICKS)
<1>1. CASE TimedOut
  BY <1>1, IdleDialogue DEF update_dfu_state
<1>2. CASE ~ TimedOut /\ DueAgain
  <2>1. PICK d \in Dialogues, t \in Ticks : d = dfu /\ t = tick_counter /\ d.state = "WaitConfirm"
    BY <1>2 DEF DueAgain
  <2>2. PICK e : e = [d EXCEPT !.last_sent = t]
    OBVIOUS
  <2>3. /\ e \in Dialogues /\ e.state = "WaitConfirm" /\ e.start_tick = d.start_tick
        /\ e.got = d.got
    BY <2>1, <2>2 DEF Dialogues
  <2>4. Trail(e) = Trail(d)
    BY <2>1, <2>3 DEF Trail
  <2>5. update_dfu_state = e
    BY <1>2, <2>1, <2>2 DEF update_dfu_state, Retransmitted
  <2>6. ~ (Elapsed(dfu.start_tick) > DFU_TIMEOUT_TICKS)
    BY <1>2, <2>1 DEF TimedOut
  <2> QED
    BY <2>1, <2>3, <2>4, <2>5, <2>6
<1>3. CASE ~ TimedOut /\ ~ DueAgain
  BY <1>3, Zenon DEF update_dfu_state, TimedOut
<1> QED
  BY <1>1, <1>2, <1>3

LEMMA ElapsedNow ==
  ASSUME NEW N \in Nat \ {0}, NEW t \in 0..(N - 1)
  PROVE  (t + N - t) % N = 0
<1>1. (t + N - t) % N = IF t < t THEN t + N - t ELSE t - t
  BY WrapDifference
<1> QED
  BY <1>1

LEMMA ElapsedLater ==
  ASSUME NEW N \in Nat \ {0}, NEW t \in 0..(N - 1), NEW s \in 0..(N - 1),
         NEW e \in Nat, e = (t + N - s) % N, e + 1 < N, NEW u, u = (t + 1) % N
  PROVE  u \in 0..(N - 1) /\ (u + N - s) % N = e + 1
<1>1. e = IF t < s THEN t + N - s ELSE t - s
  BY WrapDifference
<1>2. 1 \in 0..(N - 1)
  OBVIOUS
<1>3. u \in 0..(N - 1) /\ u = IF t + 1 < N THEN t + 1 ELSE t + 1 - N
  BY <1>2, WrapSum
<1>4. (u + N - s) % N = IF u < s THEN u + N - s ELSE u - s
  BY <1>3, WrapDifference
<1>5. (IF u < s THEN u + N - s ELSE u - s) = e + 1
  BY <1>1, <1>3
<1> QED
  BY <1>3, <1>4, <1>5

-----------------------------------------------------------------------------
(* The frame parser.                                                         *)

Parsers ==
  {p \in Seq(Bytes) : ~ Complete(p) /\ (p # <<>> => p[1] = "STX")}

LEMMA EmptyParser == <<>> \in Parsers
<1>1. <<>> \in Seq(Bytes) /\ ~ (Len(<<>>) > HEADER)
  BY SizesAssumption
<1> QED
  BY <1>1 DEF Parsers, Complete

LEMMA ParserLength ==
  ASSUME NEW p \in Parsers
  PROVE  Len(p) < HEADER + 3
<1>1. HEADER \in Nat /\ Len(p) \in Nat
  BY SizesAssumption DEF Parsers
<1> QED
  BY <1>1 DEF Parsers, Complete, ExpectedLen

(* A byte is skipped outside a frame or kept inside one, and a frame is      *)
(* taken as soon as it is as long as its header says.                        *)
LEMMA ParserStep ==
  ASSUME NEW p \in Parsers, NEW byte \in Bytes
  PROVE  LET q == feed(p, byte)
         IN  /\ q \in Seq(Bytes)
             /\ q = <<>> => p = <<>> /\ byte # "STX"
             /\ q # <<>> => q = Append(p, byte) /\ q[1] = "STX"
             /\ ~ Complete(q) => q \in Parsers
             /\ Complete(q) => q # <<>> /\ Len(q) = ExpectedLen(q) /\ Len(q) > HEADER
<1>0. HEADER \in Nat \ {0} /\ p \in Seq(Bytes) /\ Len(p) \in Nat
  BY SizesAssumption DEF Parsers
<1>1. CASE p = <<>> /\ byte # "STX"
  <2>1. feed(p, byte) = <<>>
    BY <1>1, Zenon DEF feed
  <2> QED
    BY <2>1, <1>1, EmptyParser DEF Parsers
<1>2. CASE ~ (p = <<>> /\ byte # "STX")
  <2>1. PICK q \in Seq(Bytes) : q = Append(p, byte) /\ Len(q) = Len(p) + 1
    <3>1. Append(p, byte) \in Seq(Bytes) /\ Len(Append(p, byte)) = Len(p) + 1
      BY <1>0
    <3> QED
      BY <3>1, Zenon
  <2>2. feed(p, byte) = q
    BY <1>2, <2>1, Zenon DEF feed
  <2>3. q # <<>> /\ q[1] = "STX"
    <3>1. CASE p = <<>>
      BY <3>1, <1>0, <1>2, <2>1
    <3>2. CASE p # <<>>
      BY <3>2, <1>0, <2>1 DEF Parsers
    <3> QED
      BY <3>1, <3>2
  <2>4. ~ Complete(q) => q \in Parsers
    BY <2>3, Zenon DEF Parsers
  <2>5. ASSUME Complete(q) PROVE Len(q) = ExpectedLen(q) /\ Len(q) > HEADER
    <3>1. Len(q) > HEADER /\ Len(q) >= ExpectedLen(q)
      BY <2>5 DEF Complete
    <3>2. ExpectedLen(q) \in {HEADER + 2, HEADER + 3}
      BY <1>0 DEF ExpectedLen
    <3>3. Len(p) > HEADER
      BY <1>0, <2>1, <3>1, <3>2
    <3>4. q[HEADER] = p[HEADER]
      BY <1>0, <2>1, <3>3
    <3>5. ExpectedLen(q) = ExpectedLen(p)
      BY <3>4, Zenon DEF ExpectedLen
    <3>6. ~ (Len(p) >= ExpectedLen(p))
      BY <3>3, Zenon DEF Parsers, Complete
    <3> QED
      BY <1>0, <2>1, <3>1, <3>2, <3>5, <3>6
  <2> QED
    BY <2>1, <2>2, <2>3, <2>4, <2>5, Zenon
<1> QED
  BY <1>1, <1>2

-----------------------------------------------------------------------------
(* One byte of a chunk.                                                      *)

Commands == {CommandOf[f] : f \in Frames} \cup {NoCommand}

Losses == {"eaten", "behind", "overrun"}

Progress == [dfu : Dialogues, parser : Parsers, command : Commands, rebooted : BOOLEAN,
             lost : SUBSET Losses, waiting : Nat]

\* The byte is kept from the parser, and that is written down.
Unread(a, b) == b.parser = a.parser /\ b.command = a.command /\ b.lost # {}

\* The byte goes into the parser.
Read(a, b, byte) ==
  LET q == feed(a.parser, byte)
  IN  /\ a.command = NoCommand /\ b.lost = a.lost
      /\ ~ Complete(q) => b.parser = q /\ b.command = NoCommand
      /\ Complete(q) => /\ b.parser = <<>>
                        /\ b.command = IF q \in Frames THEN CommandOf[q] ELSE NoCommand

\* The clock of a challenge starts with it and is left alone afterwards.
ClockKept(a, b) ==
  b.dfu.state = "WaitConfirm" =>
    \/ /\ a.dfu.state = "WaitConfirm" /\ b.dfu.start_tick = a.dfu.start_tick
       /\ b.waiting = a.waiting
    \/ b.dfu.start_tick = tick_counter /\ b.waiting = 0

ByteRead(a, b, byte) ==
  /\ b \in Progress
  /\ Follows(a.dfu, b.dfu, byte)
  /\ ClockKept(a, b)
  /\ (a.rebooted => Confirmed(a.dfu)) => (b.rebooted => Confirmed(b.dfu))
  /\ Unread(a, b) \/ Read(a, b, byte)

(* What OneByte does, and nothing else.                                      *)
LEMMA OneByteReads ==
  ASSUME NEW a \in Progress, NEW byte \in Bytes, NEW c \in Codes, tick_counter \in Ticks
  PROVE  ByteRead(a, OneByte(a, byte, c), byte)
<1>0. /\ a.dfu \in Dialogues /\ a.parser \in Parsers /\ a.command \in Commands
      /\ a.lost \in SUBSET Losses /\ a.waiting \in Nat
  BY Zenon DEF Progress
<1>1. CASE ~ Running(a)
  <2>1. PICK l : l = a.lost \cup {"behind"}
    OBVIOUS
  <2>2. l \in SUBSET Losses /\ l # {}
    BY <1>0, <2>1 DEF Losses
  <2>3. PICK b : b = [a EXCEPT !.lost = l]
    OBVIOUS
  <2>4. /\ b \in Progress /\ b.dfu = a.dfu /\ b.parser = a.parser /\ b.command = a.command
        /\ b.waiting = a.waiting /\ b.lost = l /\ b.rebooted = a.rebooted
    BY <2>2, <2>3 DEF Progress
  <2>5. OneByte(a, byte, c) = b
    BY <1>1, <2>1, <2>3, Zenon DEF OneByte
  <2>6. Follows(a.dfu, b.dfu, byte)
    BY <1>0, <2>4 DEF Follows
  <2>7. ClockKept(a, b) /\ ((a.rebooted => Confirmed(a.dfu)) => (b.rebooted => Confirmed(b.dfu)))
    BY <2>4, Zenon DEF ClockKept
  <2> QED
    BY <2>2, <2>4, <2>5, <2>6, <2>7, Zenon DEF ByteRead, Unread
<1>2. CASE Running(a)
  <2>1. PICK h : h = handle_dfu_protocol(a.dfu, byte, c)
    OBVIOUS
  <2>2. Follows(a.dfu, h.dfu, byte)
    BY <1>0, <2>1, DialogueStep
  <2>3. PICK d \in Dialogues, r \in BOOLEAN, w \in Nat :
          /\ d = h.dfu /\ (r <=> Confirmed(d)) /\ r = Confirmed(h.dfu)
          /\ w = IF a.dfu.state = "WaitConfirm" THEN a.waiting ELSE 0
    <3>1. h.dfu \in Dialogues
      BY <2>2, Zenon DEF Follows
    <3>2. Confirmed(h.dfu) \in BOOLEAN
      BY Zenon DEF Confirmed
    <3>3. (IF a.dfu.state = "WaitConfirm" THEN a.waiting ELSE 0) \in Nat
      BY <1>0
    <3> QED
      BY <3>1, <3>2, <3>3, Zenon
  <2>4. PICK e : e = [a EXCEPT !.dfu = d, !.rebooted = r, !.waiting = w]
    OBVIOUS
  <2>5. /\ e \in Progress /\ e.dfu = d /\ e.parser = a.parser /\ e.command = a.command
        /\ e.waiting = w /\ e.lost = a.lost /\ e.rebooted = r
    BY <2>3, <2>4 DEF Progress
  <2>6. e = [a EXCEPT !.dfu = h.dfu, !.rebooted = Confirmed(h.dfu),
                      !.waiting = IF a.dfu.state = "WaitConfirm" THEN @ ELSE 0]
    BY <2>3, <2>4, Zenon
  <2>7. OneByte(a, byte, c) = IF h.eaten THEN [e EXCEPT !.lost = @ \cup {"eaten"}] ELSE Parsed(e, byte)
    BY <1>2, <2>1, <2>6, Zenon DEF OneByte, Sniffed
  <2>8. \A b : b.dfu = d /\ b.waiting = w /\ b.rebooted = r =>
          /\ Follows(a.dfu, b.dfu, byte) /\ ClockKept(a, b)
          /\ (a.rebooted => Confirmed(a.dfu)) => (b.rebooted => Confirmed(b.dfu))
    <3>1. d.state = "WaitConfirm" =>
            d.start_tick = IF a.dfu.state = "WaitConfirm" THEN a.dfu.start_tick ELSE tick_counter
      BY <2>2, <2>3, Zenon DEF Follows
    <3>2. \A b : b.dfu = d /\ b.waiting = w => ClockKept(a, b)
      BY <2>3, <3>1, Zenon DEF ClockKept
    <3> QED
      BY <2>2, <2>3, <3>2, Zenon
  <2>9. CASE h.eaten
    <3>1. PICK l : l = e.lost \cup {"eaten"}
      OBVIOUS
    <3>2. l \in SUBSET Losses /\ l # {}
      BY <1>0, <2>5, <3>1 DEF Losses
    <3>3. PICK b : b = [e EXCEPT !.lost = l]
      OBVIOUS
    <3>4. /\ b \in Progress /\ b.dfu = d /\ b.parser = a.parser /\ b.command = a.command
          /\ b.waiting = w /\ b.lost = l /\ b.rebooted = r
      BY <2>5, <3>2, <3>3 DEF Progress
    <3>5. OneByte(a, byte, c) = b
      BY <2>7, <2>9, <3>1, <3>3, Zenon
    <3> QED
      BY <2>8, <3>2, <3>4, <3>5, Zenon DEF ByteRead, Unread
  <2>10. CASE ~ h.eaten
    <3>1. OneByte(a, byte, c) = Parsed(e, byte)
      BY <2>7, <2>10, Zenon
    <3>2. PICK q \in Seq(Bytes) : q = feed(a.parser, byte) /\ (~ Complete(q) => q \in Parsers)
      BY <1>0, ParserStep
    <3>3. a.command = NoCommand
      BY <1>2, Zenon DEF Running
    <3>4. CASE ~ Complete(q)
      <4>1. PICK b : b = [e EXCEPT !.parser = q]
        OBVIOUS
      <4>2. /\ b \in Progress /\ b.dfu = d /\ b.parser = q /\ b.command = a.command
            /\ b.waiting = w /\ b.lost = a.lost /\ b.rebooted = r
        BY <2>5, <3>2, <3>4, <4>1 DEF Progress
      <4>3. Parsed(e, byte) = b
        BY <2>5, <3>2, <3>4, <4>1, Zenon DEF Parsed
      <4>4. Read(a, b, byte)
        BY <3>2, <3>3, <3>4, <4>2, Zenon DEF Read
      <4> QED
        BY <2>8, <3>1, <4>2, <4>3, <4>4, Zenon DEF ByteRead
    <3>5. CASE Complete(q)
      <4>1. PICK m \in Commands : m = IF q \in Frames THEN CommandOf[q] ELSE NoCommand
        BY Zenon DEF Commands
      <4>2. PICK b : b = [e EXCEPT !.parser = <<>>, !.command = m]
        OBVIOUS
      <4>3. /\ b \in Progress /\ b.dfu = d /\ b.parser = <<>> /\ b.command = m
            /\ b.waiting = w /\ b.lost = a.lost /\ b.rebooted = r
        BY <2>5, <4>1, <4>2, EmptyParser DEF Progress
      <4>4. Parsed(e, byte) = b
        BY <2>5, <3>2, <3>5, <4>1, <4>2, Zenon DEF Parsed
      <4>5. Read(a, b, byte)
        BY <3>2, <3>3, <3>5, <4>1, <4>3, Zenon DEF Read
      <4> QED
        BY <2>8, <3>1, <4>3, <4>4, <4>5, Zenon DEF ByteRead
    <3> QED
      BY <3>4, <3>5
  <2> QED
    BY <2>9, <2>10
<1> QED
  BY <1>1, <1>2

-----------------------------------------------------------------------------
(* A chunk, byte by byte.                                                    *)

(* try_read takes the chunk from the front of the ring.                      *)
LEMMA ChunkTaken ==
  ASSUME rx \in Rings
  PROVE  /\ Chunk \in Seq(Bytes) /\ Drained \in Rings
         /\ Content(Drained) \in Seq(Bytes)
         /\ Content(rx) = Chunk \o Content(Drained)
<1>1. PICK r \in Rings : r = rx
  OBVIOUS
<1>2. PICK d \in 0..(RX_SIZE - 1) : d = DepthOf(r)
  BY Depth
<1>3. PICK n \in 0..d : n = Min2(RX_CHUNK, d)
  <2>1. Min2(RX_CHUNK, d) \in 0..d
    BY SizesAssumption DEF Min2
  <2> QED
    BY <2>1, Zenon
<1>4. Readable = n
  BY <1>1, <1>2, <1>3, BufferedIsContent, Zenon DEF Readable
<1>5. Drained = [r EXCEPT !.tail = (@ + n) % RX_SIZE]
  BY <1>1, <1>4, Zenon DEF Drained
<1>6. PICK s \in Seq(Bytes) : /\ s = Content(r) /\ Len(s) = d
                              /\ \A j \in 1..d : s[j] = r.buf[(r.tail + j - 1) % RX_SIZE]
  BY <1>2, ContentType
<1>7. PICK p \in Seq(Bytes) : p = SubSeq(s, 1, n) /\ Len(p) = n /\ \A k \in 1..n : p[k] = s[k]
  <2> DEFINE x == SubSeq(s, 1, n)
  <2>1. /\ n \in Nat /\ d \in Nat
        /\ 1 \in 1..(Len(s) + 1) /\ n \in 0..Len(s) /\ 1 <= n + 1 /\ n + 1 - 1 = n
    BY <1>6
  <2>2. x \in Seq(Bytes) /\ Len(x) = n + 1 - 1 /\ \A k \in 1..(n + 1 - 1) : x[k] = s[1 + k - 1]
    BY <2>1, Piece
  <2>3. \A k \in 1..n : 1 + k - 1 = k
    OBVIOUS
  <2> HIDE DEF x
  <2>4. x \in Seq(Bytes) /\ Len(x) = n /\ \A k \in 1..n : x[k] = s[k]
    BY <2>1, <2>2, <2>3, Zenon
  <2> QED
    BY <2>4, Zenon DEF x
<1>8. Chunk = p
  <2>1. Chunk = [j \in 1..n |-> r.buf[(r.tail + j - 1) % RX_SIZE]]
    BY <1>1, <1>4, Zenon DEF Chunk
  <2>2. \A j \in 1..n : j \in 1..d
    OBVIOUS
  <2>3. \A j \in 1..n : r.buf[(r.tail + j - 1) % RX_SIZE] = p[j]
    BY <1>6, <1>7, <2>2, Zenon
  <2>4. p = [j \in 1..n |-> p[j]]
    BY <1>7
  <2> QED
    BY <2>1, <2>3, <2>4, Zenon
<1>9. n \in 0..DepthOf(r)
  BY <1>2
<1>10. PICK q : q = [r EXCEPT !.tail = (@ + n) % RX_SIZE]
  OBVIOUS
<1>11. q \in Rings /\ Content(q) \in Seq(Bytes) /\ Content(r) = SubSeq(Content(r), 1, n) \o Content(q)
  BY <1>9, <1>10, RingPop, Zenon
<1> QED
  BY <1>1, <1>5, <1>6, <1>7, <1>8, <1>10, <1>11, Zenon

Beginning == [dfu |-> update_dfu_state, parser |-> parser, command |-> NoCommand,
              rebooted |-> FALSE, lost |-> lost, waiting |-> waiting]

LEMMA ChunkRead ==
  ASSUME rx \in Rings, dfu \in Dialogues, parser \in Parsers, lost \in SUBSET Losses,
         waiting \in Nat, tick_counter \in Ticks, NEW c \in Codes
  PROVE  /\ Beginning \in Progress
         /\ \E after \in [0..Len(Chunk) -> Progress] :
              /\ after[0] = Beginning
              /\ \A k \in 1..Len(Chunk) : ByteRead(after[k - 1], after[k], Chunk[k])
              /\ AfterChunk(c) = after[Len(Chunk)]
<1>1. PICK s \in Seq(Bytes), n \in Nat : s = Chunk /\ n = Len(s)
  BY ChunkTaken
<1>2. Beginning \in Progress
  <2>1. PICK d \in Dialogues : d = update_dfu_state
    BY DialogueUpdated
  <2>2. NoCommand \in Commands
    BY DEF Commands
  <2> QED
    BY <2>1, <2>2 DEF Beginning, Progress
<1>3. PICK b \in Progress : b = Beginning
  BY <1>2
<1>4. PICK t \in Ticks : t = tick_counter
  OBVIOUS
<1> DEFINE Rec(f) == f = [k \in 0..Len(Chunk) |->
                            IF k = 0
                            THEN [dfu |-> update_dfu_state, parser |-> parser, command |-> NoCommand,
                                  rebooted |-> FALSE, lost |-> lost, waiting |-> waiting]
                            ELSE OneByte(f[k - 1], Chunk[k], c)]
           f0 == CHOOSE f : Rec(f)
           G == [p \in Progress |-> [k \in 0..n |-> IF k = 0 THEN p ELSE OneByte(p, s[k], c)]]
<1>5. \A p \in Progress, byte \in Bytes : ByteRead(p, OneByte(p, byte, c), byte)
  BY OneByteReads
<1>6. G \in [Progress -> [0..n -> Progress]]
  <2>1. \A p \in Progress, k \in 0..n : (IF k = 0 THEN p ELSE OneByte(p, s[k], c)) \in Progress
    <3> SUFFICES ASSUME NEW p \in Progress, NEW k \in 0..n, k # 0
                 PROVE  OneByte(p, s[k], c) \in Progress
      OBVIOUS
    <3>1. s[k] \in Bytes
      BY <1>1
    <3> QED
      BY <3>1, <1>5, Zenon DEF ByteRead
  <2> QED
    BY <2>1, Zenon
<1>7. PICK f \in [0..n -> Progress] : \A k \in 0..n : f[k] = IF k = 0 THEN b ELSE G[f[k - 1]][k]
  <2> HIDE DEF G
  <2>1. 0 \in Nat /\ 0 <= n
    OBVIOUS
  <2>2. \E f \in [0..n -> Progress] : Recursive(f, 0, n, b, G)
    BY <1>6, <2>1, RecursionExists, Zenon
  <2> QED
    BY <2>2, Zenon DEF Recursive
<1>8. \A k \in 0..n : k # 0 => k - 1 \in 0..n /\ f[k - 1] \in Progress
  <2>1. \A k \in 0..n : k # 0 => k - 1 \in 0..n
    OBVIOUS
  <2> QED
    BY <2>1
<1>9. \A k \in 0..n : k # 0 => G[f[k - 1]][k] = OneByte(f[k - 1], s[k], c)
  BY <1>8, Zenon
<1> HIDE DEF G
<1>10. Rec(f)
  <2>1. \A k \in 0..n : f[k] = IF k = 0 THEN b ELSE OneByte(f[k - 1], s[k], c)
    BY <1>7, <1>9, Zenon
  <2>2. f = [k \in 0..n |-> f[k]]
    OBVIOUS
  <2>3. f = [k \in 0..n |-> IF k = 0 THEN b ELSE OneByte(f[k - 1], s[k], c)]
    BY <2>1, <2>2, Zenon
  <2> QED
    BY <2>3, <1>1, <1>3, Zenon DEF Beginning
<1>11. Rec(f0)
  <2> HIDE DEF Rec
  <2> QED
    BY <1>10, Zenon
<1>12. AfterChunk(c) = f0[Len(Chunk)]
  BY Zenon DEF AfterChunk
<1>13. PICK g : Rec(g) /\ g = f0
  BY <1>11, Zenon
<1> HIDE DEF f0
<1>14. \A k \in 0..n : g[k] = IF k = 0 THEN b ELSE OneByte(g[k - 1], s[k], c)
  <2>1. g = [k \in 0..n |-> IF k = 0 THEN b ELSE OneByte(g[k - 1], s[k], c)]
    BY <1>1, <1>3, <1>13, Zenon DEF Beginning
  <2> QED
    BY <2>1, Zenon
<1>15. g = [k \in 0..n |-> g[k]]
  <2>1. g = [k \in 0..n |-> IF k = 0 THEN b ELSE OneByte(g[k - 1], s[k], c)]
    BY <1>1, <1>3, <1>13, Zenon DEF Beginning
  <2> QED
    BY <2>1
<1> HIDE DEF Rec
<1>16. \A k \in 0..n : g[k] \in Progress
  <2> DEFINE Good == {k \in Nat : k <= n => g[k] \in Progress}
  <2>1. 0 \in Good
    BY <1>14
  <2>2. ASSUME NEW k \in Good PROVE k + 1 \in Good
    <3> SUFFICES ASSUME k + 1 <= n PROVE g[k + 1] \in Progress
      OBVIOUS
    <3>1. /\ g[k] \in Progress /\ k + 1 \in 0..n /\ k + 1 # 0 /\ (k + 1) - 1 = k
          /\ s[k + 1] \in Bytes
      BY <1>1
    <3>2. g[k + 1] = OneByte(g[k], s[k + 1], c)
      BY <3>1, <1>14, Zenon
    <3> QED
      BY <3>1, <3>2, <1>5, Zenon DEF ByteRead
  <2>3. Good \in SUBSET Nat
    OBVIOUS
  <2>4. Good = Nat
    <3> HIDE DEF Good
    <3> QED
      BY <2>1, <2>2, <2>3, Induction
  <2>5. \A k \in 0..n : k \in Good /\ k <= n
    <3> HIDE DEF Good
    <3> QED
      BY <2>4
  <2> QED
    BY <2>5
<1>17. g \in [0..n -> Progress]
  BY <1>15, <1>16, Zenon
<1>18. g[0] = b
  BY <1>14
<1>19. ASSUME NEW k \in 1..n PROVE ByteRead(g[k - 1], g[k], s[k])
  <2>1. k \in 0..n /\ k - 1 \in 0..n /\ k # 0 /\ s[k] \in Bytes
    BY <1>1
  <2>2. g[k] = OneByte(g[k - 1], s[k], c) /\ g[k - 1] \in Progress
    BY <2>1, <1>14, <1>16, Zenon
  <2> QED
    BY <2>1, <2>2, <1>5, Zenon
<1> QED
  BY <1>1, <1>2, <1>3, <1>12, <1>13, <1>17, <1>18, <1>19, Zenon

-----------------------------------------------------------------------------
(* What the host sends.                                                      *)

Letters == {"d", "f", "u", "cr"} \cup Digits

LEMMA FrameBytes ==
  ASSUME NEW f \in Frames
  PROVE  /\ f \in Seq(Bytes) /\ Len(f) > HEADER /\ Len(f) \in Nat /\ f[1] = "STX"
         /\ Checksum(f) \notin Letters /\ Checksum(f) \in Bytes
<1>1. f \in Seq(ToSet(f)) /\ f[1] = "STX" /\ Len(f) > HEADER /\ HEADER \in Nat \ {0}
  BY FramesAssumption, SizesAssumption, Zenon
<1>2. ToSet(f) \in {ToSet(g) : g \in Frames}
  OBVIOUS
<1>3. ToSet(f) \subseteq Bytes
  <2>1. ASSUME NEW x \in ToSet(f) PROVE x \in Bytes
    <3>1. x \in UNION {ToSet(g) : g \in Frames}
      BY <1>2
    <3> QED
      BY <3>1, Zenon DEF Bytes
  <2> QED
    BY <2>1
<1>4. PICK T : T = ToSet(f)
  OBVIOUS
<1>5. f \in Seq(T) /\ T \subseteq Bytes
  BY <1>1, <1>3, <1>4, Zenon
<1>6. f \in Seq(Bytes)
  BY <1>5
<1>7. Len(f) \in Nat /\ Len(f) \in 1..Len(f)
  BY <1>1, <1>6
<1>8. Checksum(f) \in Bytes
  BY <1>6, <1>7 DEF Checksum
<1>9. Checksum(f) \notin Letters
  BY FramesAssumption, Zenon DEF Letters
<1> QED
  BY <1>1, <1>6, <1>7, <1>8, <1>9

LEMMA ItemBytes ==
  ASSUME NEW item \in Items
  PROVE  /\ item \in Seq(Bytes) /\ Len(item) \in Nat \ {0}
         /\ item \notin Frames => \A i \in 1..Len(item) : item[i] \in Letters
<1>1. CASE item \in Frames
  <2>1. HEADER \in Nat
    BY SizesAssumption
  <2> QED
    BY <1>1, <2>1, FrameBytes
<1>2. CASE item = <<"d", "f", "u">>
  <2>1. /\ <<"d", "f", "u">> \in Seq(Letters) /\ Len(<<"d", "f", "u">>) = 3
    BY DEF Letters
  <2>2. Letters \subseteq Bytes
    BY DEF Letters, Bytes
  <2> QED
    BY <1>2, <2>1, <2>2
<1>3. CASE item \in {Answer(c) : c \in Codes}
  <2>1. PICK c \in Codes : item = Answer(c)
    BY <1>3
  <2>2. PICK e \in Seq(Letters) : e = c /\ Len(e) = 2
    BY CodesAssumption DEF Letters
  <2>3. /\ <<"cr">> \in Seq(Letters) /\ Len(<<"cr">>) = 1
    BY DEF Letters
  <2>4. PICK z \in Seq(Letters) : z = <<"cr">> /\ Len(z) = 1
    BY <2>3, Zenon
  <2>5. e \o z \in Seq(Letters) /\ Len(e \o z) = 3
    <3>1. e \o z \in Seq(Letters) /\ Len(e \o z) = Len(e) + Len(z)
      BY ConcatProperties
    <3> QED
      BY <2>2, <2>4, <3>1
  <2>6. item = e \o z
    BY <2>1, <2>2, <2>4, Zenon DEF Answer
  <2>7. Letters \subseteq Bytes
    BY DEF Letters, Bytes
  <2> QED
    BY <2>5, <2>6, <2>7
<1> QED
  BY <1>1, <1>2, <1>3 DEF Items

LEMMA ItemsAreBytes ==
  ASSUME NEW sq \in Seq(Items)
  PROVE  sq \in Seq(Seq(Bytes))
<1>1. Items \subseteq Seq(Bytes)
  BY ItemBytes
<1>2. PICK T : T = Seq(Bytes)
  OBVIOUS
<1>3. Items \subseteq T
  BY <1>1, <1>2, Zenon
<1>4. sq \in Seq(T)
  BY <1>3
<1> QED
  BY <1>2, <1>4, Zenon

-----------------------------------------------------------------------------
(* The commands among the items.                                             *)

Reply(i) == IF IsCommand(i) THEN <<CommandOf[i]>> ELSE <<>>

Replies(items) == [k \in 1..Len(items) |-> Reply(items[k])]

LEMMA ReplyType ==
  ASSUME NEW i
  PROVE  Reply(i) \in Seq(Commands)
<1>1. CASE IsCommand(i)
  <2>1. CommandOf[i] \in Commands
    BY <1>1 DEF IsCommand, Commands
  <2> QED
    BY <2>1, <1>1 DEF Reply
<1>2. CASE ~ IsCommand(i)
  BY <1>2 DEF Reply
<1> QED
  BY <1>1, <1>2

LEMMA RepliesType ==
  ASSUME NEW items \in Seq(Items)
  PROVE  /\ Replies(items) \in Seq(Seq(Commands))
         /\ CommandsOf(items) = FlattenSeq(Replies(items))
         /\ CommandsOf(items) \in Seq(Commands)
<1>1. PICK n \in Nat : n = Len(items)
  OBVIOUS
<1>2. \A k \in 1..n : Reply(items[k]) \in Seq(Commands)
  BY ReplyType
<1>3. PICK T : T = Seq(Commands)
  OBVIOUS
<1>4. [k \in 1..n |-> Reply(items[k])] \in Seq(T)
  <2>1. \A k \in 1..n : Reply(items[k]) \in T
    BY <1>2, <1>3, Zenon
  <2> QED
    BY <2>1
<1>5. Replies(items) \in Seq(Seq(Commands))
  BY <1>1, <1>3, <1>4, Zenon DEF Replies
<1>6. CommandsOf(items) = FlattenSeq(Replies(items))
  BY Zenon DEF CommandsOf, Replies, Reply
<1>7. FlattenSeq(Replies(items)) \in Seq(Commands)
  BY <1>5, FlattenType
<1> QED
  BY <1>5, <1>6, <1>7, Zenon

LEMMA CommandsOfNothing == CommandsOf(<<>>) = <<>>
<1>1. Replies(<<>>) = <<>>
  BY DEF Replies
<1>2. CommandsOf(<<>>) = FlattenSeq(Replies(<<>>))
  BY Zenon DEF CommandsOf, Replies, Reply
<1> QED
  BY <1>1, <1>2, FlattenEmpty, Zenon

(* One more item is one more command, or none.                               *)
LEMMA CommandsOfAppend ==
  ASSUME NEW items \in Seq(Items), NEW e \in Items
  PROVE  CommandsOf(Append(items, e)) = CommandsOf(items) \o Reply(e)
<1>1. PICK all \in Seq(Items), n \in Nat :
        all = Append(items, e) /\ n = Len(items) /\ Len(all) = n + 1
  <2>1. Append(items, e) \in Seq(Items) /\ Len(Append(items, e)) = Len(items) + 1 /\ Len(items) \in Nat
    OBVIOUS
  <2> QED
    BY <2>1, Zenon
<1>2. \A k \in 1..n : all[k] = items[k]
  BY <1>1
<1>3. all[n + 1] = e
  BY <1>1
<1>4. PICK s \in Seq(Seq(Commands)), v \in Seq(Commands), t \in Seq(Seq(Commands)) :
        s = Replies(items) /\ v = Reply(e) /\ t = Replies(all)
  BY RepliesType, ReplyType, Zenon
<1>5. Len(s) = n /\ Len(t) = n + 1
  BY <1>1, <1>4 DEF Replies
<1>6. \A k \in 1..(n + 1) : t[k] = Append(s, v)[k]
  <2>1. ASSUME NEW k \in 1..(n + 1) PROVE t[k] = Append(s, v)[k]
    <3>1. t[k] = Reply(all[k])
      BY <1>1, <1>4, Zenon DEF Replies
    <3>2. CASE k \in 1..n
      <4>1. s[k] = Reply(items[k])
        BY <1>1, <1>4, <3>2, Zenon DEF Replies
      <4>2. Append(s, v)[k] = s[k]
        BY <1>5, <3>2
      <4> QED
        BY <1>2, <3>1, <3>2, <4>1, <4>2, Zenon
    <3>3. CASE k = n + 1
      <4>1. Append(s, v)[k] = v
        BY <1>5, <3>3
      <4> QED
        BY <1>3, <1>4, <3>1, <3>3, <4>1, Zenon
    <3>4. k \in 1..n \/ k = n + 1
      OBVIOUS
    <3> QED
      BY <3>2, <3>3, <3>4, Zenon
  <2> QED
    BY <2>1
<1>7. t = Append(s, v)
  <2>1. Append(s, v) \in Seq(Seq(Commands)) /\ Len(Append(s, v)) = n + 1
    BY <1>5
  <2> QED
    BY <1>5, <1>6, <2>1, SeqEqual
<1>8. FlattenSeq(Append(s, v)) = FlattenSeq(s) \o v
  BY FlattenAppend
<1> QED
  BY <1>1, <1>4, <1>7, <1>8, RepliesType, Zenon

-----------------------------------------------------------------------------
(* A function applied to every element.                                      *)

Through(F, s) == [i \in 1..Len(s) |-> F[s[i]]]

ThroughFact(F, s, B) ==
  /\ Through(F, s) \in Seq(B) /\ Len(Through(F, s)) = Len(s)
  /\ \A i \in 1..Len(s) : Through(F, s)[i] = F[s[i]]

LEMMA ThroughType ==
  ASSUME NEW A, NEW B, NEW F \in [A -> B], NEW s \in Seq(A)
  PROVE  ThroughFact(F, s, B)
<1>1. PICK n \in Nat : n = Len(s)
  OBVIOUS
<1>2. \A i \in 1..n : F[s[i]] \in B
  BY <1>1
<1> QED
  BY <1>1, <1>2 DEF Through, ThroughFact

ThroughCut(F, s, i, j) == Through(F, SubSeq(s, i, j)) = SubSeq(Through(F, s), i, j)

LEMMA ThroughPiece ==
  ASSUME NEW A, NEW B, NEW F \in [A -> B], NEW s \in Seq(A),
         NEW i \in 1..(Len(s) + 1), NEW j \in 0..Len(s), i <= j + 1
  PROVE  ThroughCut(F, s, i, j)
<1>0. /\ Through(F, s) \in Seq(B) /\ Len(Through(F, s)) = Len(s)
      /\ \A k \in 1..Len(s) : Through(F, s)[k] = F[s[k]]
  <2>1. ThroughFact(F, s, B)
    BY ThroughType
  <2> QED
    BY <2>1, Zenon DEF ThroughFact
<1>1. PICK p \in Seq(A) : /\ p = SubSeq(s, i, j) /\ Len(p) = j + 1 - i
                          /\ \A k \in 1..(j + 1 - i) : p[k] = s[i + k - 1]
  <2>1. /\ SubSeq(s, i, j) \in Seq(A) /\ Len(SubSeq(s, i, j)) = j + 1 - i
        /\ \A k \in 1..(j + 1 - i) : SubSeq(s, i, j)[k] = s[i + k - 1]
    BY Piece
  <2> QED
    BY <2>1, Zenon
<1>2. PICK t \in Seq(B) : t = Through(F, s) /\ Len(t) = Len(s) /\ \A k \in 1..Len(s) : t[k] = F[s[k]]
  BY <1>0, Zenon
<1>3. PICK q \in Seq(B) : /\ q = SubSeq(t, i, j) /\ Len(q) = j + 1 - i
                          /\ \A k \in 1..(j + 1 - i) : q[k] = t[i + k - 1]
  <2>1. i \in 1..(Len(t) + 1) /\ j \in 0..Len(t)
    BY <1>2
  <2>2. /\ SubSeq(t, i, j) \in Seq(B) /\ Len(SubSeq(t, i, j)) = j + 1 - i
        /\ \A k \in 1..(j + 1 - i) : SubSeq(t, i, j)[k] = t[i + k - 1]
    BY <2>1, Piece
  <2> QED
    BY <2>2, Zenon
<1>4. PICK u \in Seq(B) : u = Through(F, p) /\ Len(u) = Len(p) /\ \A k \in 1..Len(p) : u[k] = F[p[k]]
  <2>1. /\ Through(F, p) \in Seq(B) /\ Len(Through(F, p)) = Len(p)
        /\ \A k \in 1..Len(p) : Through(F, p)[k] = F[p[k]]
    <3>1. ThroughFact(F, p, B)
      BY ThroughType
    <3> QED
      BY <3>1, Zenon DEF ThroughFact
  <2> QED
    BY <2>1, Zenon
<1>5. PICK n \in Nat, m \in Nat : n = Len(s) /\ m = j + 1 - i
  OBVIOUS
<1>6. \A k \in 1..m : i + k - 1 \in 1..n
  BY <1>5
<1>7. \A k \in 1..m : u[k] = q[k]
  <2>1. ASSUME NEW k \in 1..m PROVE u[k] = q[k]
    <3>1. i + k - 1 \in 1..Len(s) /\ k \in 1..Len(p) /\ k \in 1..(j + 1 - i)
      BY <1>1, <1>5, <1>6, Zenon
    <3>2. u[k] = F[p[k]] /\ p[k] = s[i + k - 1]
      BY <1>1, <1>4, <3>1, Zenon
    <3>3. q[k] = t[i + k - 1] /\ t[i + k - 1] = F[s[i + k - 1]]
      BY <1>2, <1>3, <3>1, Zenon
    <3> QED
      BY <3>2, <3>3, Zenon
  <2> QED
    BY <2>1
<1>8. u = q
  <2>1. Len(u) = m /\ Len(q) = m
    BY <1>1, <1>3, <1>4, <1>5, Zenon
  <2>2. Len(u) = Len(q) /\ \A k \in 1..Len(u) : u[k] = q[k]
    BY <2>1, <1>7, Zenon
  <2> QED
    BY <2>2, SeqEqual, Zenon
<1> QED
  BY <1>1, <1>2, <1>3, <1>4, <1>8, Zenon DEF ThroughCut

ThroughHalves(F, s, m) ==
  /\ Through(F, SubSeq(s, 1, m)) = SubSeq(Through(F, s), 1, m)
  /\ Through(F, SubSeq(s, m + 1, Len(s))) = SubSeq(Through(F, s), m + 1, Len(s))

LEMMA ThroughSplit ==
  ASSUME NEW A, NEW B, NEW F \in [A -> B], NEW s \in Seq(A), NEW m \in 0..Len(s)
  PROVE  ThroughHalves(F, s, m)
<1>1. /\ 1 \in 1..(Len(s) + 1) /\ m \in 0..Len(s) /\ 1 <= m + 1
      /\ m + 1 \in 1..(Len(s) + 1) /\ Len(s) \in 0..Len(s) /\ m + 1 <= Len(s) + 1
  OBVIOUS
<1>2. ThroughCut(F, s, 1, m)
  BY <1>1, ThroughPiece
<1>3. ThroughCut(F, s, m + 1, Len(s))
  BY <1>1, ThroughPiece
<1> QED
  BY <1>2, <1>3, Zenon DEF ThroughHalves, ThroughCut

ThroughOneMore(F, s, e) == Through(F, Append(s, e)) = Append(Through(F, s), F[e])

LEMMA ThroughAppend ==
  ASSUME NEW A, NEW B, NEW F \in [A -> B], NEW s \in Seq(A), NEW e \in A
  PROVE  ThroughOneMore(F, s, e)
<1>0. /\ Through(F, s) \in Seq(B) /\ Len(Through(F, s)) = Len(s)
      /\ \A k \in 1..Len(s) : Through(F, s)[k] = F[s[k]]
  <2>1. ThroughFact(F, s, B)
    BY ThroughType
  <2> QED
    BY <2>1, Zenon DEF ThroughFact
<1>1. PICK n \in Nat : n = Len(s)
  OBVIOUS
<1>2. PICK p \in Seq(A) : /\ p = Append(s, e) /\ Len(p) = n + 1 /\ p[n + 1] = e
                          /\ \A k \in 1..n : p[k] = s[k]
  <2>1. /\ Append(s, e) \in Seq(A) /\ Len(Append(s, e)) = n + 1 /\ Append(s, e)[n + 1] = e
        /\ \A k \in 1..n : Append(s, e)[k] = s[k]
    BY <1>1
  <2> QED
    BY <2>1, Zenon
<1>3. PICK t \in Seq(B) : t = Through(F, s) /\ Len(t) = n /\ \A k \in 1..n : t[k] = F[s[k]]
  BY <1>0, <1>1, Zenon
<1>4. PICK u \in Seq(B) : u = Through(F, p) /\ Len(u) = n + 1 /\ \A k \in 1..(n + 1) : u[k] = F[p[k]]
  <2>1. /\ Through(F, p) \in Seq(B) /\ Len(Through(F, p)) = Len(p)
        /\ \A k \in 1..Len(p) : Through(F, p)[k] = F[p[k]]
    <3>1. ThroughFact(F, p, B)
      BY ThroughType
    <3> QED
      BY <3>1, Zenon DEF ThroughFact
  <2> QED
    BY <2>1, <1>2, Zenon
<1>5. PICK x \in B : x = F[e]
  OBVIOUS
<1>6. /\ Append(t, x) \in Seq(B) /\ Len(Append(t, x)) = n + 1 /\ Append(t, x)[n + 1] = x
      /\ \A k \in 1..n : Append(t, x)[k] = t[k]
  BY <1>3
<1>7. \A k \in 1..(n + 1) : k \in 1..n \/ k = n + 1
  OBVIOUS
<1>8. \A k \in 1..(n + 1) : u[k] = Append(t, x)[k]
  <2>1. ASSUME NEW k \in 1..(n + 1) PROVE u[k] = Append(t, x)[k]
    <3>1. CASE k \in 1..n
      <4>1. u[k] = F[p[k]]
        BY <1>4, Zenon
      <4>2. p[k] = s[k] /\ t[k] = F[s[k]] /\ Append(t, x)[k] = t[k]
        BY <1>2, <1>3, <1>6, <3>1, Zenon
      <4> QED
        BY <4>1, <4>2, Zenon
    <3>2. CASE k = n + 1
      <4>1. u[k] = F[p[k]] /\ p[k] = e
        BY <1>2, <1>4, <3>2
      <4>2. Append(t, x)[k] = x
        BY <1>6, <3>2, Zenon
      <4> QED
        BY <4>1, <4>2, <1>5, Zenon
    <3>3. k \in 1..n \/ k = n + 1
      OBVIOUS
    <3> QED
      BY <3>1, <3>2, <3>3, Zenon
  <2> QED
    BY <2>1
<1>9. u = Append(t, x)
  BY <1>4, <1>6, <1>8, SeqEqual
<1> QED
  BY <1>2, <1>3, <1>4, <1>5, <1>9, Zenon DEF ThroughOneMore

LEMMA Halves ==
  ASSUME NEW S, NEW s \in Seq(S), NEW m \in 0..Len(s)
  PROVE  /\ SubSeq(s, 1, m) \in Seq(S) /\ SubSeq(s, m + 1, Len(s)) \in Seq(S)
         /\ s = SubSeq(s, 1, m) \o SubSeq(s, m + 1, Len(s))
<1>1. PICK n \in Nat : n = Len(s) /\ m \in 0..n /\ m \in Nat
  OBVIOUS
<1>2. PICK p \in Seq(S) : p = SubSeq(s, 1, m) /\ Len(p) = m /\ \A k \in 1..m : p[k] = s[k]
  <2>1. SubSeq(s, 1, m) \in Seq(S) /\ Len(SubSeq(s, 1, m)) = m /\ \A k \in 1..m : SubSeq(s, 1, m)[k] = s[k]
    BY <1>1
  <2> QED
    BY <2>1, Zenon
<1>3. PICK q \in Seq(S) : /\ q = SubSeq(s, m + 1, n) /\ Len(q) = n - m
                          /\ \A k \in 1..(n - m) : q[k] = s[m + k]
  <2>1. /\ SubSeq(s, m + 1, n) \in Seq(S) /\ Len(SubSeq(s, m + 1, n)) = n - m
        /\ \A k \in 1..(n - m) : SubSeq(s, m + 1, n)[k] = s[m + k]
    BY <1>1
  <2> QED
    BY <2>1, Zenon
<1>4. /\ p \o q \in Seq(S) /\ Len(p \o q) = n
      /\ \A k \in 1..m : (p \o q)[k] = p[k]
      /\ \A k \in (m + 1)..n : (p \o q)[k] = q[k - m]
  <2>1. p \o q \in Seq(S) /\ Len(p \o q) = Len(p) + Len(q)
    BY ConcatProperties
  <2>2. \A k \in 1..(Len(p) + Len(q)) : (p \o q)[k] = IF k <= Len(p) THEN p[k] ELSE q[k - Len(p)]
    BY ConcatProperties
  <2>3. Len(p) + Len(q) = n
    BY <1>1, <1>2, <1>3
  <2>4. \A k \in 1..m : k \in 1..n /\ k <= m
    BY <1>1
  <2>5. \A k \in (m + 1)..n : k \in 1..n /\ ~ (k <= m)
    BY <1>1
  <2> QED
    BY <1>2, <2>1, <2>2, <2>3, <2>4, <2>5, Zenon
<1>5. \A k \in 1..n : (p \o q)[k] = s[k]
  <2>1. ASSUME NEW k \in 1..n PROVE (p \o q)[k] = s[k]
    <3>1. CASE k <= m
      <4>1. k \in 1..m
        BY <3>1, <1>1
      <4> QED
        BY <4>1, <1>2, <1>4, Zenon
    <3>2. CASE ~ (k <= m)
      <4>1. k \in (m + 1)..n /\ k - m \in 1..(n - m) /\ m + (k - m) = k
        BY <3>2, <1>1
      <4> QED
        BY <4>1, <1>3, <1>4, Zenon
    <3> QED
      BY <3>1, <3>2
  <2> QED
    BY <2>1
<1>6. p \o q = s
  BY <1>1, <1>4, <1>5, SeqEqual
<1> QED
  BY <1>1, <1>2, <1>3, <1>6, Zenon

-----------------------------------------------------------------------------
(* A command stands for the checksum of its frame, and checksums are unique, *)
(* so frames can be recovered from what is left of the stream.               *)

CommandFrames == {f \in Frames : CommandOf[f] # NoCommand}

Mark  == [f \in CommandFrames |-> Checksum(f)]
Order == [f \in CommandFrames |-> CommandOf[f]]

LEMMA MarkOrderType ==
  /\ Mark \in [CommandFrames -> Bytes] /\ Order \in [CommandFrames -> Commands]
  /\ \A f \in CommandFrames : Mark[f] = Checksum(f) /\ Order[f] = CommandOf[f]
<1>1. \A f \in CommandFrames : Checksum(f) \in Bytes
  BY FrameBytes DEF CommandFrames
<1>2. \A f \in CommandFrames : CommandOf[f] \in Commands
  BY DEF CommandFrames, Commands
<1> QED
  BY <1>1, <1>2 DEF Mark, Order

(* An item holds at most one checksum, and the command it belongs to.        *)
LEMMA MarksOfItem ==
  ASSUME NEW fs \in Seq(CommandFrames), NEW item \in Items, Embeds(Through(Mark, fs), item)
  PROVE  Embeds(Through(Order, fs), Reply(item))
<1>0. ThroughFact(Mark, fs, Bytes) /\ ThroughFact(Order, fs, Commands)
  <2>1. PICK F \in [CommandFrames -> Bytes], G \in [CommandFrames -> Commands] : F = Mark /\ G = Order
    BY MarkOrderType
  <2>2. ThroughFact(F, fs, Bytes)
    BY ThroughType
  <2>3. ThroughFact(G, fs, Commands)
    BY ThroughType
  <2> QED
    BY <2>1, <2>2, <2>3, Zenon
<1>1. PICK m \in Seq(Bytes), n \in Nat :
        /\ m = Through(Mark, fs) /\ n = Len(fs) /\ Len(m) = n
        /\ \A i \in 1..n : m[i] = Mark[fs[i]]
  <2>1. /\ Through(Mark, fs) \in Seq(Bytes) /\ Len(Through(Mark, fs)) = Len(fs)
        /\ \A i \in 1..Len(fs) : Through(Mark, fs)[i] = Mark[fs[i]]
    BY <1>0, Zenon DEF ThroughFact
  <2>2. Len(fs) \in Nat
    OBVIOUS
  <2> QED
    BY <2>1, <2>2, Zenon
<1>2. PICK o \in Seq(Commands) :
        o = Through(Order, fs) /\ Len(o) = n /\ \A i \in 1..n : o[i] = Order[fs[i]]
  <2>1. /\ Through(Order, fs) \in Seq(Commands) /\ Len(Through(Order, fs)) = Len(fs)
        /\ \A i \in 1..Len(fs) : Through(Order, fs)[i] = Order[fs[i]]
    BY <1>0, Zenon DEF ThroughFact
  <2> QED
    BY <1>1, <2>1, Zenon
<1>3. PICK h \in [1..n -> 1..Len(item)] :
        Ascends(h, n) /\ \A i \in 1..n : m[i] = item[h[i]]
  BY <1>1, Zenon DEF Embeds
<1>4. ASSUME NEW i \in 1..n PROVE fs[i] = item /\ h[i] = Len(item) /\ fs[i] \in CommandFrames
  <2>1. fs[i] \in CommandFrames /\ fs[i] \in Frames /\ h[i] \in 1..Len(item)
    BY <1>1, <1>3 DEF CommandFrames
  <2>2. item[h[i]] = Checksum(fs[i])
    BY <1>1, <1>3, <2>1, MarkOrderType, Zenon
  <2>3. item[h[i]] \notin Letters
    BY <2>1, <2>2, FrameBytes, Zenon
  <2>4. item \in Frames
    BY <2>1, <2>3, ItemBytes, Zenon
  <2>5. DOMAIN item = 1..Len(item)
    BY ItemBytes
  <2>6. fs[i] = item /\ h[i] = Len(item)
    BY <2>1, <2>2, <2>4, <2>5, FramesAssumption, Zenon
  <2> QED
    BY <2>1, <2>6
<1>5. n = 0 \/ n = 1
  <2> SUFFICES ASSUME n > 1 PROVE FALSE
    BY <1>1
  <2>1. 1 \in 1..n /\ 2 \in 1..n /\ 1 < 2
    OBVIOUS
  <2>2. h[1] < h[2] /\ h[1] = h[2] /\ h[1] \in 1..Len(item) /\ Len(item) \in Nat
    BY <2>1, <1>3, <1>4, ItemBytes, Zenon DEF Ascends
  <2> QED
    BY <2>2
<1>6. PICK r \in Seq(Commands) : r = Reply(item)
  BY ReplyType
<1>7. CASE n = 0
  <2>1. o = <<>>
    BY <1>2, <1>7
  <2> QED
    BY <1>2, <1>6, <2>1, EmptyEmbeds
<1>8. CASE n = 1
  <2>1. 1 \in 1..n
    BY <1>8
  <2>2. fs[1] = item /\ item \in CommandFrames
    BY <1>4, <2>1, Zenon
  <2>3. o[1] = CommandOf[item]
    BY <1>2, <2>1, <2>2, MarkOrderType, Zenon
  <2>4. r = <<CommandOf[item]>>
    BY <1>6, <2>2 DEF Reply, IsCommand, CommandFrames
  <2>5. r = o
    <3>1. Len(r) = 1 /\ r[1] = CommandOf[item]
      BY <2>4
    <3>2. Len(r) = Len(o) /\ \A i \in 1..Len(r) : r[i] = o[i]
      BY <1>2, <1>8, <2>3, <3>1
    <3> QED
      BY <3>2, SeqEqual
  <2> QED
    BY <1>2, <1>6, <2>5, EmbedsRefl
<1> QED
  BY <1>5, <1>7, <1>8

(* So the commands of frames whose checksums come up in the stream, in that  *)
(* order, come up among the commands that were sent.                         *)
LEMMA MarksOfStream ==
  ASSUME NEW sq \in Seq(Items), NEW fs \in Seq(CommandFrames),
         Embeds(Through(Mark, fs), FlattenSeq(sq))
  PROVE  Embeds(Through(Order, fs), CommandsOf(sq))
<1>0. PICK F \in [CommandFrames -> Bytes], G \in [CommandFrames -> Commands] : F = Mark /\ G = Order
  BY MarkOrderType
<1>1. PICK len \in Nat : len = Len(sq)
  OBVIOUS
<1> DEFINE Upto(n) == SubSeq(sq, 1, n)
           Holds(n) == \A g \in Seq(CommandFrames) :
                         Embeds(Through(F, g), FlattenSeq(Upto(n))) => Embeds(Through(G, g), CommandsOf(Upto(n)))
           Good == {n \in Nat : n <= len => Holds(n)}
<1>2. 0 \in Good
  <2> SUFFICES ASSUME NEW g \in Seq(CommandFrames), Embeds(Through(F, g), FlattenSeq(Upto(0)))
               PROVE  Embeds(Through(G, g), CommandsOf(Upto(0)))
    OBVIOUS
  <2>1. Upto(0) = <<>>
    OBVIOUS
  <2>2. FlattenSeq(Upto(0)) = <<>> /\ CommandsOf(Upto(0)) = <<>>
    BY <2>1, FlattenEmpty, CommandsOfNothing, Zenon
  <2>3. ThroughFact(F, g, Bytes) /\ ThroughFact(G, g, Commands)
    BY ThroughType
  <2>4. Embeds(Through(F, g), <<>>)
    BY <2>2, Zenon
  <2>5. Len(Through(F, g)) = Len(g) /\ Len(Through(G, g)) = Len(g) /\ Through(G, g) \in Seq(Commands)
    BY <2>3, Zenon DEF ThroughFact
  <2>6. PICK m \in Nat : m = Len(g)
    OBVIOUS
  <2>7. PICK h \in [1..m -> 1..Len(<<>>)] : TRUE
    BY <2>4, <2>5, <2>6, Zenon DEF Embeds
  <2>8. m = 0
    <3> SUFFICES ASSUME m # 0 PROVE FALSE
      OBVIOUS
    <3>1. 1 \in 1..m
      OBVIOUS
    <3>2. h[1] \in 1..0
      BY <3>1, <2>7
    <3> QED
      BY <3>2
  <2>9. PICK o \in Seq(Commands) : o = Through(G, g) /\ Len(o) = 0
    BY <2>5, <2>6, <2>8, Zenon
  <2>10. o = <<>> /\ <<>> \in Seq(Commands)
    BY <2>9
  <2> QED
    BY <2>2, <2>9, <2>10, EmptyEmbeds
<1>3. ASSUME NEW n \in Good PROVE n + 1 \in Good
  <2> SUFFICES ASSUME n + 1 <= len, NEW g \in Seq(CommandFrames),
                      Embeds(Through(F, g), FlattenSeq(Upto(n + 1)))
               PROVE  Embeds(Through(G, g), CommandsOf(Upto(n + 1)))
    OBVIOUS
  <2>1. n \in Nat /\ n <= len /\ Holds(n)
    OBVIOUS
  <2>2. PICK front \in Seq(Items), item \in Items :
          front = Upto(n) /\ item = sq[n + 1] /\ Upto(n + 1) = Append(front, item)
    <3>1. Upto(n) \in Seq(Items) /\ sq[n + 1] \in Items
      BY <1>1, <2>1
    <3>2. 1 \in 1..(Len(sq) + 1) /\ n \in 0..Len(sq) /\ 1 <= n + 1 /\ n + 1 <= Len(sq)
      BY <1>1, <2>1
    <3>3. SubSeq(sq, 1, n + 1) = Append(SubSeq(sq, 1, n), sq[n + 1])
      BY <3>2, PieceAppend
    <3> QED
      BY <3>1, <3>3, Zenon
  <2> HIDE DEF Upto, Holds
  <2>3. PICK t \in Seq(Bytes), u \in Seq(Bytes) :
          t = FlattenSeq(front) /\ u = item /\ FlattenSeq(Upto(n + 1)) = t \o u
    <3>1. front \in Seq(Seq(Bytes)) /\ item \in Seq(Bytes)
      BY ItemsAreBytes, ItemBytes
    <3>2. FlattenSeq(front) \in Seq(Bytes)
      BY <3>1, FlattenType
    <3>3. FlattenSeq(Append(front, item)) = FlattenSeq(front) \o item
      BY <3>1, FlattenAppend
    <3> QED
      BY <3>1, <3>2, <3>3, <2>2, Zenon
  <2>4. PICK v \in Seq(Commands), r \in Seq(Commands) :
          v = CommandsOf(front) /\ r = Reply(item) /\ CommandsOf(Upto(n + 1)) = v \o r
    <3>1. CommandsOf(front) \in Seq(Commands) /\ Reply(item) \in Seq(Commands)
      BY RepliesType, ReplyType
    <3>2. CommandsOf(Append(front, item)) = CommandsOf(front) \o Reply(item)
      BY CommandsOfAppend
    <3> QED
      BY <2>2, <3>1, <3>2, Zenon
  <2>5. PICK m \in Seq(Bytes) : m = Through(F, g) /\ Len(m) = Len(g)
    <3>1. ThroughFact(F, g, Bytes)
      BY ThroughType
    <3> QED
      BY <3>1, Zenon DEF ThroughFact
  <2>6. PICK k \in 0..Len(m) : Embeds(SubSeq(m, 1, k), t) /\ Embeds(SubSeq(m, k + 1, Len(m)), u)
    <3>1. Embeds(m, t \o u)
      BY <2>3, <2>5, Zenon
    <3> QED
      BY <3>1, EmbedsSplit
  <2>7. PICK g1 \in Seq(CommandFrames), g2 \in Seq(CommandFrames) :
          g1 = SubSeq(g, 1, k) /\ g2 = SubSeq(g, k + 1, Len(g))
    <3>1. k \in 0..Len(g)
      BY <2>5, <2>6, Zenon
    <3> QED
      BY <3>1, Halves, Zenon
  <2>8. k \in 0..Len(g)
    BY <2>5, <2>6
  <2>9. Through(F, g1) = SubSeq(m, 1, k) /\ Through(F, g2) = SubSeq(m, k + 1, Len(m))
    <3>1. ThroughHalves(F, g, k)
      BY <2>8, ThroughSplit
    <3>2. /\ Through(F, SubSeq(g, 1, k)) = SubSeq(Through(F, g), 1, k)
          /\ Through(F, SubSeq(g, k + 1, Len(g))) = SubSeq(Through(F, g), k + 1, Len(g))
      BY <3>1, Zenon DEF ThroughHalves
    <3> QED
      BY <2>5, <2>7, <3>2, Zenon
  <2>10. PICK o \in Seq(Commands), o1 \in Seq(Commands), o2 \in Seq(Commands) :
           /\ o = Through(G, g) /\ o1 = Through(G, g1) /\ o2 = Through(G, g2) /\ Len(o) = Len(g)
    <3>1. ThroughFact(G, g, Commands)
      BY ThroughType
    <3>2. ThroughFact(G, g1, Commands)
      BY ThroughType
    <3>3. ThroughFact(G, g2, Commands)
      BY ThroughType
    <3> QED
      BY <3>1, <3>2, <3>3, Zenon DEF ThroughFact
  <2>11. o = o1 \o o2
    <3>1. ThroughHalves(G, g, k)
      BY <2>8, ThroughSplit
    <3>2. /\ Through(G, SubSeq(g, 1, k)) = SubSeq(Through(G, g), 1, k)
          /\ Through(G, SubSeq(g, k + 1, Len(g))) = SubSeq(Through(G, g), k + 1, Len(g))
      BY <3>1, Zenon DEF ThroughHalves
    <3>3. k \in 0..Len(o)
      BY <2>8, <2>10, Zenon
    <3>4. o = SubSeq(o, 1, k) \o SubSeq(o, k + 1, Len(o))
      BY <3>3, Halves
    <3> QED
      BY <2>7, <2>10, <3>2, <3>4, Zenon
  <2>12. Embeds(o1, v)
    BY <2>1, <2>2, <2>3, <2>4, <2>6, <2>7, <2>9, <2>10, Zenon DEF Holds
  <2>13. Embeds(o2, r)
    <3>1. Embeds(Through(Mark, g2), item)
      BY <1>0, <2>3, <2>6, <2>9, Zenon
    <3>2. Embeds(Through(Order, g2), Reply(item))
      BY <3>1, MarksOfItem
    <3> QED
      BY <1>0, <2>4, <2>10, <3>2, Zenon
  <2>14. Embeds(o1 \o o2, v \o r)
    BY <2>12, <2>13, EmbedsConcat
  <2> QED
    BY <2>4, <2>10, <2>11, <2>14, Zenon
<1> HIDE DEF Holds
<1>4. Good \in SUBSET Nat
  OBVIOUS
<1>5. len \in Good /\ len <= len
  <2> HIDE DEF Good
  <2>1. Good = Nat
    BY <1>2, <1>3, <1>4, Induction
  <2> QED
    BY <2>1
<1>6. Holds(len)
  BY <1>5
<1>7. Upto(len) = sq
  BY <1>1
<1> QED
  BY <1>0, <1>6, <1>7, Zenon DEF Holds

-----------------------------------------------------------------------------
(* The end of what was sent, from inside one of its items on.                *)

LEMMA Cancel ==
  ASSUME NEW S, NEW p \in Seq(S), NEW q \in Seq(S), NEW s \in Seq(S), NEW t \in Seq(S),
         Len(p) = Len(q), p \o s = q \o t
  PROVE  p = q /\ s = t
<1>1. PICK m \in Nat, n \in Nat : m = Len(p) /\ m = Len(q) /\ n = Len(s)
  OBVIOUS
<1>2. PICK r \in Seq(S) : r = p \o s /\ r = q \o t
  <2>1. p \o s \in Seq(S)
    BY ConcatProperties
  <2> QED
    BY <2>1, Zenon
<1>3. Len(r) = m + n /\ \A i \in 1..(m + n) : r[i] = IF i <= m THEN p[i] ELSE s[i - m]
  <2>1. /\ Len(p \o s) = Len(p) + Len(s)
        /\ \A i \in 1..(Len(p) + Len(s)) : (p \o s)[i] = IF i <= Len(p) THEN p[i] ELSE s[i - Len(p)]
    BY ConcatProperties
  <2> QED
    BY <1>1, <1>2, <2>1, Zenon
<1>4. /\ Len(r) = m + Len(t)
      /\ \A i \in 1..(m + Len(t)) : r[i] = IF i <= m THEN q[i] ELSE t[i - m]
  <2>1. /\ Len(q \o t) = Len(q) + Len(t)
        /\ \A i \in 1..(Len(q) + Len(t)) : (q \o t)[i] = IF i <= Len(q) THEN q[i] ELSE t[i - Len(q)]
    BY ConcatProperties
  <2> QED
    BY <1>1, <1>2, <2>1, Zenon
<1>5. Len(t) = n
  <2>1. Len(t) \in Nat
    OBVIOUS
  <2> QED
    BY <1>3, <1>4, <2>1
<1>6. \A i \in 1..(m + n) : (IF i <= m THEN p[i] ELSE s[i - m]) = (IF i <= m THEN q[i] ELSE t[i - m])
  BY <1>3, <1>4, <1>5, Zenon
<1>7. \A i \in 1..m : p[i] = q[i]
  <2>1. \A i \in 1..m : i \in 1..(m + n) /\ i <= m
    OBVIOUS
  <2> QED
    BY <1>6, <2>1, Zenon
<1>8. \A i \in 1..n : s[i] = t[i]
  <2>1. \A i \in 1..n : i + m \in 1..(m + n) /\ ~ (i + m <= m) /\ (i + m) - m = i
    OBVIOUS
  <2> QED
    BY <1>6, <2>1, Zenon
<1>9. p = q
  BY <1>1, <1>7, SeqEqual
<1>10. s = t
  BY <1>1, <1>5, <1>8, SeqEqual
<1> QED
  BY <1>9, <1>10

Behind(sq, k) == FlattenSeq(SubSeq(sq, k + 2, Len(sq)))

Openings(item) ==
  IF item \in Frames THEN {item} ELSE {SubSeq(item, j, Len(item)) : j \in 1..Len(item)}

RemaindersOf(sq, k) ==
  IF k = Len(sq) THEN {<<>>} ELSE {x \o Behind(sq, k) : x \in Openings(sq[k + 1])}

LEMMA RemaindersAre ==
  ASSUME NEW k
  PROVE  Remainders(k) = RemaindersOf(sent, k)
BY DEF Remainders, RemaindersOf, Behind, Openings

\* The commands handed on are those in front of what is left.
Explains(sq, commands, r) ==
  \E k \in 0..Len(sq) : commands = CommandsOf(SubSeq(sq, 1, k)) /\ r \in RemaindersOf(sq, k)

LEMMA OpeningFacts ==
  ASSUME NEW item \in Items
  PROVE  /\ item \in Openings(item)
         /\ \A x \in Openings(item) :
              /\ x \in Seq(Bytes) /\ Len(x) \in Nat \ {0}
              /\ item \notin Frames =>
                   /\ x[1] \in Letters
                   /\ SubSeq(x, 2, Len(x)) = <<>> \/ SubSeq(x, 2, Len(x)) \in Openings(item)
<1>1. PICK s \in Seq(Bytes), n \in Nat \ {0} : s = item /\ n = Len(s)
  BY ItemBytes
<1>2. CASE item \in Frames
  BY <1>1, <1>2 DEF Openings
<1>3. CASE item \notin Frames
  <2>1. Openings(item) = {SubSeq(s, j, n) : j \in 1..n}
    BY <1>1, <1>3, Zenon DEF Openings
  <2>2. SubSeq(s, 1, n) = s
    BY <1>1
  <2>3. item \in Openings(item)
    <3>1. 1 \in 1..n
      OBVIOUS
    <3> QED
      BY <1>1, <2>1, <2>2, <3>1, Zenon
  <2>4. ASSUME NEW j \in 1..n
        PROVE  /\ SubSeq(s, j, n) \in Seq(Bytes) /\ Len(SubSeq(s, j, n)) \in Nat \ {0}
               /\ SubSeq(s, j, n)[1] \in Letters
               /\ LET x == SubSeq(s, j, n)
                  IN  SubSeq(x, 2, Len(x)) = <<>> \/ SubSeq(x, 2, Len(x)) \in Openings(item)
    <3>1. PICK x \in Seq(Bytes) : /\ x = SubSeq(s, j, n) /\ Len(x) = n + 1 - j
                                  /\ \A k \in 1..(n + 1 - j) : x[k] = s[j + k - 1]
      <4>1. j \in 1..(Len(s) + 1) /\ n \in 0..Len(s) /\ j <= n + 1
        BY <1>1
      <4>2. /\ SubSeq(s, j, n) \in Seq(Bytes) /\ Len(SubSeq(s, j, n)) = n + 1 - j
            /\ \A k \in 1..(n + 1 - j) : SubSeq(s, j, n)[k] = s[j + k - 1]
        BY <4>1, Piece
      <4> QED
        BY <4>2, Zenon
    <3>2. Len(x) \in Nat \ {0} /\ 1 \in 1..(n + 1 - j) /\ j + 1 - 1 = j
      BY <3>1
    <3>3. x[1] = s[j]
      BY <3>1, <3>2, Zenon
    <3>4. s[j] \in Letters
      BY <1>1, <1>3, ItemBytes, Zenon
    <3>5. CASE j = n
      <4>1. Len(x) = 1
        BY <3>1, <3>5
      <4>2. SubSeq(x, 2, Len(x)) = <<>>
        BY <4>1
      <4> QED
        BY <3>1, <3>2, <3>3, <3>4, <4>2, Zenon
    <3>6. CASE j # n
      <4>1. j + 1 \in 1..n /\ Len(x) \in Nat /\ 2 \in 1..(Len(x) + 1) /\ 2 <= Len(x) + 1
        BY <3>1, <3>6
      <4>2. PICK y \in Seq(Bytes) : /\ y = SubSeq(x, 2, Len(x)) /\ Len(y) = Len(x) + 1 - 2
                                    /\ \A k \in 1..(Len(x) + 1 - 2) : y[k] = x[2 + k - 1]
        <5>1. PICK i \in 1..(Len(x) + 1), l \in 0..Len(x) : i = 2 /\ l = Len(x) /\ i <= l + 1
          BY <4>1
        <5>2. /\ SubSeq(x, i, l) \in Seq(Bytes) /\ Len(SubSeq(x, i, l)) = l + 1 - i
              /\ \A k \in 1..(l + 1 - i) : SubSeq(x, i, l)[k] = x[i + k - 1]
          BY <5>1, Piece
        <5> QED
          BY <5>1, <5>2, Zenon
      <4>3. PICK z \in Seq(Bytes) : /\ z = SubSeq(s, j + 1, n) /\ Len(z) = n + 1 - (j + 1)
                                    /\ \A k \in 1..(n + 1 - (j + 1)) : z[k] = s[(j + 1) + k - 1]
        <5>1. j + 1 \in 1..(Len(s) + 1) /\ n \in 0..Len(s) /\ j + 1 <= n + 1
          BY <1>1, <4>1
        <5>2. /\ SubSeq(s, j + 1, n) \in Seq(Bytes) /\ Len(SubSeq(s, j + 1, n)) = n + 1 - (j + 1)
              /\ \A k \in 1..(n + 1 - (j + 1)) : SubSeq(s, j + 1, n)[k] = s[(j + 1) + k - 1]
          BY <5>1, Piece
        <5> QED
          BY <5>2, Zenon
      <4>4. Len(y) = n - j /\ Len(z) = n - j
        BY <3>1, <4>2, <4>3
      <4>5. ASSUME NEW k \in 1..(n - j) PROVE y[k] = z[k]
        <5>1. /\ k \in 1..(Len(x) + 1 - 2) /\ 2 + k - 1 \in 1..(n + 1 - j)
              /\ k \in 1..(n + 1 - (j + 1)) /\ j + (2 + k - 1) - 1 = (j + 1) + k - 1
          BY <3>1
        <5>2. y[k] = x[2 + k - 1] /\ x[2 + k - 1] = s[j + (2 + k - 1) - 1]
          BY <3>1, <4>2, <5>1, Zenon
        <5>3. z[k] = s[(j + 1) + k - 1]
          BY <4>3, <5>1, Zenon
        <5> QED
          BY <5>1, <5>2, <5>3, Zenon
      <4>6. y = z
        BY <4>4, <4>5, SeqEqual
      <4>7. y \in Openings(item)
        BY <2>1, <4>1, <4>3, <4>6, Zenon
      <4> QED
        BY <3>1, <3>2, <3>3, <3>4, <4>2, <4>7, Zenon
    <3> QED
      BY <3>5, <3>6
  <2> QED
    BY <2>1, <2>3, <2>4, Zenon
<1> QED
  BY <1>2, <1>3

LEMMA BehindType ==
  ASSUME NEW sq \in Seq(Items), NEW k \in Nat, k < Len(sq)
  PROVE  Behind(sq, k) \in Seq(Bytes)
<1>1. PICK t \in Seq(Items) : t = SubSeq(sq, k + 2, Len(sq))
  <2>1. SubSeq(sq, k + 2, Len(sq)) \in Seq(Items)
    OBVIOUS
  <2> QED
    BY <2>1, Zenon
<1>2. FlattenSeq(t) \in Seq(Bytes)
  BY ItemsAreBytes, FlattenType
<1> QED
  BY <1>1, <1>2, Zenon DEF Behind

(* Behind an item is the next one, whole, or nothing.                        *)
LEMMA NextItem ==
  ASSUME NEW sq \in Seq(Items), NEW k \in Nat, k < Len(sq)
  PROVE  Behind(sq, k) \in RemaindersOf(sq, k + 1)
<1>1. PICK n \in Nat, m \in Nat : n = Len(sq) /\ m = k + 1 /\ k + 2 = m + 1
  OBVIOUS
<1>2. CASE m = n
  <2>1. SubSeq(sq, m + 1, n) = <<>>
    BY <1>1, <1>2
  <2>2. Behind(sq, k) = <<>>
    BY <1>1, <2>1, FlattenEmpty, Zenon DEF Behind
  <2> QED
    BY <1>1, <1>2, <2>2, Zenon DEF RemaindersOf
<1>3. CASE m # n
  <2>1. m + 1 \in 1..n /\ (m + 1) + 1 = m + 2
    BY <1>1, <1>3
  <2>2. PICK s \in Seq(Seq(Bytes)), i \in 1..n : s = sq /\ n = Len(s) /\ i = m + 1 /\ i + 1 = m + 2
    BY <1>1, <2>1, ItemsAreBytes
  <2>3. FlattenSeq(SubSeq(s, i, Len(s))) = s[i] \o FlattenSeq(SubSeq(s, i + 1, Len(s)))
    BY <2>2, FlattenFirst
  <2>4. Behind(sq, k) = sq[m + 1] \o Behind(sq, m)
    BY <1>1, <2>2, <2>3, Zenon DEF Behind
  <2>5. sq[m + 1] \in Items
    BY <1>1, <2>1
  <2>6. sq[m + 1] \in Openings(sq[m + 1])
    BY <2>5, OpeningFacts
  <2> QED
    BY <1>1, <1>3, <2>4, <2>6, Zenon DEF RemaindersOf
<1> QED
  BY <1>2, <1>3

LEMMA FrontCommands ==
  ASSUME NEW sq \in Seq(Items), NEW k \in Nat, k < Len(sq)
  PROVE  /\ sq[k + 1] \in Items
         /\ CommandsOf(SubSeq(sq, 1, k)) \in Seq(Commands)
         /\ CommandsOf(SubSeq(sq, 1, k + 1)) = CommandsOf(SubSeq(sq, 1, k)) \o Reply(sq[k + 1])
<1>1. PICK t \in Seq(Items), e \in Items : t = SubSeq(sq, 1, k) /\ e = sq[k + 1]
  <2>1. SubSeq(sq, 1, k) \in Seq(Items) /\ sq[k + 1] \in Items
    OBVIOUS
  <2> QED
    BY <2>1, Zenon
<1>2. SubSeq(sq, 1, k + 1) = Append(t, e)
  <2>1. 1 \in 1..(Len(sq) + 1) /\ k \in 0..Len(sq) /\ 1 <= k + 1 /\ k + 1 <= Len(sq)
    OBVIOUS
  <2>2. SubSeq(sq, 1, k + 1) = Append(SubSeq(sq, 1, k), sq[k + 1])
    BY <2>1, PieceAppend
  <2> QED
    BY <1>1, <2>2, Zenon
<1>3. CommandsOf(Append(t, e)) = CommandsOf(t) \o Reply(e)
  BY CommandsOfAppend
<1>4. CommandsOf(t) \in Seq(Commands)
  BY RepliesType
<1> QED
  BY <1>1, <1>2, <1>3, <1>4, Zenon

(* The parser skips a byte of a line that is no frame.                       *)
LEMMA ExplainSkip ==
  ASSUME NEW sq \in Seq(Items), NEW commands, NEW byte \in Bytes, NEW rest \in Seq(Bytes),
         byte # "STX", Explains(sq, commands, <<byte>> \o rest)
  PROVE  Explains(sq, commands, rest)
<1>1. PICK k \in 0..Len(sq) :
        commands = CommandsOf(SubSeq(sq, 1, k)) /\ <<byte>> \o rest \in RemaindersOf(sq, k)
  BY Zenon DEF Explains
<1>2. PICK one \in Seq(Bytes) : one = <<byte>> /\ Len(one) = 1 /\ one[1] = byte
  <2>1. <<byte>> \in Seq(Bytes) /\ Len(<<byte>>) = 1 /\ <<byte>>[1] = byte
    OBVIOUS
  <2> QED
    BY <2>1, Zenon
<1>3. k \in Nat /\ k < Len(sq) /\ k # Len(sq) /\ k + 1 \in 0..Len(sq)
  <2>1. k # Len(sq)
    <3> SUFFICES ASSUME k = Len(sq) PROVE FALSE
      OBVIOUS
    <3>1. one \o rest = <<>>
      BY <1>1, <1>2, Zenon DEF RemaindersOf
    <3>2. Len(one \o rest) = Len(one) + Len(rest)
      BY ConcatProperties
    <3>3. Len(rest) \in Nat
      OBVIOUS
    <3> QED
      BY <1>2, <3>1, <3>2, <3>3
  <2> QED
    BY <2>1
<1>4. PICK item \in Items, w \in Seq(Bytes) : item = sq[k + 1] /\ w = Behind(sq, k)
  BY <1>3, FrontCommands, BehindType
<1>5. PICK x \in Openings(item) : one \o rest = x \o w
  BY <1>1, <1>2, <1>3, <1>4, Zenon DEF RemaindersOf
<1>6. x \in Seq(Bytes) /\ Len(x) \in Nat \ {0}
  BY OpeningFacts
<1>7. PICK a \in Seq(Bytes), y \in Seq(Bytes) :
        a = SubSeq(x, 1, 1) /\ y = SubSeq(x, 2, Len(x)) /\ x = a \o y /\ Len(a) = 1 /\ a[1] = x[1]
  <2>1. PICK m \in 0..Len(x) : m = 1
    BY <1>6
  <2>2. /\ SubSeq(x, 1, m) \in Seq(Bytes) /\ SubSeq(x, m + 1, Len(x)) \in Seq(Bytes)
        /\ x = SubSeq(x, 1, m) \o SubSeq(x, m + 1, Len(x))
    BY <1>6, Halves
  <2>3. m + 1 = 2
    BY <2>1
  <2>4. Len(SubSeq(x, 1, 1)) = 1 /\ SubSeq(x, 1, 1)[1] = x[1]
    BY <1>6
  <2> QED
    BY <2>1, <2>2, <2>3, <2>4, Zenon
<1>8. one = a /\ rest = y \o w
  <2>1. (a \o y) \o w = a \o (y \o w)
    <3>1. Associates(a, y, w)
      BY Association, Zenon
    <3> QED
      BY <3>1, Zenon DEF Associates
  <2>2. one \o rest = a \o (y \o w)
    BY <1>5, <1>7, <2>1, Zenon
  <2>3. PICK z \in Seq(Bytes) : z = y \o w
    <3>1. y \o w \in Seq(Bytes)
      BY ConcatProperties
    <3> QED
      BY <3>1, Zenon
  <2>4. Len(one) = Len(a) /\ one \o rest = a \o z
    BY <1>2, <1>7, <2>2, <2>3, Zenon
  <2>5. one = a /\ rest = z
    BY <2>4, Cancel
  <2> QED
    BY <2>3, <2>5, Zenon
<1>9. x[1] = byte
  BY <1>2, <1>7, <1>8, Zenon
<1>10. item \notin Frames
  <2> SUFFICES ASSUME item \in Frames PROVE FALSE
    OBVIOUS
  <2>1. x = item
    BY Zenon DEF Openings
  <2>2. item[1] = "STX"
    BY FrameBytes
  <2> QED
    BY <1>9, <2>1, <2>2, Zenon
<1>11. y = <<>> \/ y \in Openings(item)
  BY <1>7, <1>10, OpeningFacts
<1>12. CASE y \in Openings(item)
  <2>1. rest \in RemaindersOf(sq, k)
    BY <1>3, <1>4, <1>8, <1>12, Zenon DEF RemaindersOf
  <2> QED
    BY <1>1, <2>1, Zenon DEF Explains
<1>13. CASE y = <<>>
  <2>1. rest = w
    <3>1. <<>> \o w = w
      BY ConcatEmptySeq
    <3> QED
      BY <1>8, <1>13, <3>1, Zenon
  <2>2. rest \in RemaindersOf(sq, k + 1)
    BY <1>3, <1>4, <2>1, NextItem
  <2>3. commands = CommandsOf(SubSeq(sq, 1, k + 1))
    <3>1. PICK v \in Seq(Commands) : v = CommandsOf(SubSeq(sq, 1, k))
      BY <1>3, FrontCommands
    <3>2. Reply(item) = <<>>
      BY <1>10, Zenon DEF Reply, IsCommand
    <3>3. v \o <<>> = v
      BY ConcatEmptySeq
    <3>4. CommandsOf(SubSeq(sq, 1, k + 1)) = v \o Reply(item)
      BY <1>3, <1>4, <3>1, FrontCommands
    <3> QED
      BY <1>1, <3>1, <3>2, <3>3, <3>4, Zenon
  <2> QED
    BY <1>3, <2>2, <2>3, Zenon DEF Explains
<1> QED
  BY <1>11, <1>12, <1>13

(* The parser takes a frame, and what is left begins behind it.              *)
LEMMA ExplainFrame ==
  ASSUME NEW sq \in Seq(Items), NEW commands, NEW q \in Seq(Bytes), NEW rest \in Seq(Bytes),
         q[1] = "STX", Len(q) = ExpectedLen(q), Len(q) > HEADER,
         Explains(sq, commands, q \o rest)
  PROVE  /\ q \in Frames
         /\ Explains(sq, commands \o Reply(q), rest)
<1>0. HEADER \in Nat \ {0} /\ Len(q) \in Nat
  BY SizesAssumption
<1>1. PICK k \in 0..Len(sq) :
        commands = CommandsOf(SubSeq(sq, 1, k)) /\ q \o rest \in RemaindersOf(sq, k)
  BY Zenon DEF Explains
<1>2. PICK r \in Seq(Bytes) :
        /\ r = q \o rest /\ Len(r) = Len(q) + Len(rest)
        /\ \A i \in 1..Len(q) : r[i] = q[i]
  <2>1. q \o rest \in Seq(Bytes) /\ Len(q \o rest) = Len(q) + Len(rest)
    BY ConcatProperties
  <2>2. \A i \in 1..(Len(q) + Len(rest)) : (q \o rest)[i] = IF i <= Len(q) THEN q[i] ELSE rest[i - Len(q)]
    BY ConcatProperties
  <2>3. \A i \in 1..Len(q) : i \in 1..(Len(q) + Len(rest)) /\ i <= Len(q)
    BY <1>0
  <2>4. \A i \in 1..Len(q) : (q \o rest)[i] = q[i]
    BY <2>2, <2>3, Zenon
  <2> QED
    BY <2>1, <2>4, Zenon
<1>3. k \in Nat /\ k < Len(sq) /\ k # Len(sq) /\ k + 1 \in 0..Len(sq)
  <2>1. k # Len(sq)
    <3> SUFFICES ASSUME k = Len(sq) PROVE FALSE
      OBVIOUS
    <3>1. r = <<>>
      BY <1>1, <1>2, Zenon DEF RemaindersOf
    <3>2. Len(rest) \in Nat
      OBVIOUS
    <3> QED
      BY <1>0, <1>2, <3>1, <3>2
  <2> QED
    BY <2>1
<1>4. PICK item \in Items, w \in Seq(Bytes) : item = sq[k + 1] /\ w = Behind(sq, k)
  BY <1>3, FrontCommands, BehindType
<1>5. PICK x \in Openings(item) : r = x \o w
  BY <1>1, <1>2, <1>3, <1>4, Zenon DEF RemaindersOf
<1>6. x \in Seq(Bytes) /\ Len(x) \in Nat \ {0}
  BY OpeningFacts
<1>7. \A i \in 1..Len(x) : r[i] = x[i]
  <2>1. \A i \in 1..(Len(x) + Len(w)) : (x \o w)[i] = IF i <= Len(x) THEN x[i] ELSE w[i - Len(x)]
    BY <1>6, ConcatProperties
  <2>2. \A i \in 1..Len(x) : i \in 1..(Len(x) + Len(w)) /\ i <= Len(x)
    BY <1>6
  <2> QED
    BY <1>5, <2>1, <2>2, Zenon
<1>8. item \in Frames
  <2> SUFFICES ASSUME item \notin Frames PROVE FALSE
    OBVIOUS
  <2>1. x[1] \in Letters
    BY OpeningFacts
  <2>2. 1 \in 1..Len(x) /\ 1 \in 1..Len(q)
    BY <1>0, <1>6
  <2>3. x[1] = "STX"
    BY <1>2, <1>7, <2>2, Zenon
  <2> QED
    BY <2>1, <2>3 DEF Letters, Digits
<1>9. x = item
  BY <1>8, Zenon DEF Openings
<1>10. Len(x) = Len(q)
  <2>1. Len(x) > HEADER
    BY <1>8, <1>9, FrameBytes
  <2>2. HEADER \in 1..Len(x) /\ HEADER \in 1..Len(q)
    BY <1>0, <1>6, <2>1
  <2>3. x[HEADER] = q[HEADER]
    BY <1>2, <1>7, <2>2, Zenon
  <2>4. ExpectedLen(x) = ExpectedLen(q)
    BY <2>3, Zenon DEF ExpectedLen
  <2>5. Len(x) = ExpectedLen(x)
    BY <1>8, <1>9, LengthAssumption, Zenon
  <2> QED
    BY <2>4, <2>5
<1>11. x = q /\ w = rest
  <2>1. x \o w = q \o rest
    BY <1>2, <1>5, Zenon
  <2> QED
    BY <1>6, <1>10, <2>1, Cancel
<1>12. rest \in RemaindersOf(sq, k + 1)
  BY <1>3, <1>4, <1>11, NextItem
<1>13. commands \o Reply(q) = CommandsOf(SubSeq(sq, 1, k + 1))
  <2>1. CommandsOf(SubSeq(sq, 1, k + 1)) = CommandsOf(SubSeq(sq, 1, k)) \o Reply(sq[k + 1])
    BY <1>3, FrontCommands
  <2> QED
    BY <1>1, <1>4, <1>9, <1>11, <2>1, Zenon
<1> QED
  BY <1>3, <1>8, <1>9, <1>11, <1>12, <1>13, Zenon DEF Explains

(* What the host sends is put behind everything that is left.                *)
LEMMA ExplainSend ==
  ASSUME NEW sq \in Seq(Items), NEW commands, NEW r \in Seq(Bytes), NEW item \in Items,
         Explains(sq, commands, r)
  PROVE  Explains(Append(sq, item), commands, r \o item)
<1>1. PICK k \in 0..Len(sq) : commands = CommandsOf(SubSeq(sq, 1, k)) /\ r \in RemaindersOf(sq, k)
  BY Zenon DEF Explains
<1>2. PICK all \in Seq(Items), n \in Nat :
        /\ all = Append(sq, item) /\ n = Len(sq) /\ Len(all) = n + 1 /\ all[n + 1] = item
        /\ \A i \in 1..n : all[i] = sq[i]
  <2>1. /\ Append(sq, item) \in Seq(Items) /\ Len(sq) \in Nat /\ Len(Append(sq, item)) = Len(sq) + 1
        /\ Append(sq, item)[Len(sq) + 1] = item
        /\ \A i \in 1..Len(sq) : Append(sq, item)[i] = sq[i]
    OBVIOUS
  <2> QED
    BY <2>1, Zenon
<1>3. k \in 0..n /\ k \in Nat /\ k \in 0..Len(all) /\ k # Len(all) /\ k < Len(all)
  BY <1>2
<1>4. SubSeq(all, 1, k) = SubSeq(sq, 1, k)
  <2>1. \A i \in 1..k : i \in 1..n
    BY <1>3
  <2>2. \A i \in 1..k : all[i] = sq[i]
    BY <1>2, <2>1, Zenon
  <2>3. PICK s \in Seq(Items) : s = SubSeq(sq, 1, k) /\ Len(s) = k /\ \A i \in 1..k : s[i] = sq[i]
    <3>1. SubSeq(sq, 1, k) \in Seq(Items) /\ Len(SubSeq(sq, 1, k)) = k /\ \A i \in 1..k : SubSeq(sq, 1, k)[i] = sq[i]
      BY <1>2, <1>3
    <3> QED
      BY <3>1, Zenon
  <2>4. PICK t \in Seq(Items) : t = SubSeq(all, 1, k) /\ Len(t) = k /\ \A i \in 1..k : t[i] = all[i]
    <3>1. SubSeq(all, 1, k) \in Seq(Items) /\ Len(SubSeq(all, 1, k)) = k /\ \A i \in 1..k : SubSeq(all, 1, k)[i] = all[i]
      BY <1>2, <1>3
    <3> QED
      BY <3>1, Zenon
  <2>5. \A i \in 1..k : s[i] = t[i]
    BY <2>2, <2>3, <2>4, Zenon
  <2>6. s = t
    BY <2>3, <2>4, <2>5, SeqEqual
  <2> QED
    BY <2>3, <2>4, <2>6, Zenon
<1>5. PICK e \in Seq(Bytes) : e = item
  BY ItemBytes
<1>6. CASE k = n
  <2>1. r = <<>>
    BY <1>1, <1>2, <1>6, Zenon DEF RemaindersOf
  <2>2. SubSeq(all, k + 2, Len(all)) = <<>>
    BY <1>2, <1>6
  <2>3. Behind(all, k) = <<>>
    BY <2>2, FlattenEmpty, Zenon DEF Behind
  <2>4. <<>> \o e = e /\ e \o <<>> = e
    BY ConcatEmptySeq
  <2>5. item \in Openings(item)
    BY OpeningFacts
  <2>6. r \o item = item \o Behind(all, k)
    BY <1>5, <2>1, <2>3, <2>4, Zenon
  <2>7. r \o item \in RemaindersOf(all, k)
    BY <1>2, <1>3, <1>6, <2>5, <2>6, Zenon DEF RemaindersOf
  <2> QED
    BY <1>1, <1>2, <1>3, <1>4, <2>7, Zenon DEF Explains
<1>7. CASE k # n
  <2>1. k < Len(sq) /\ k + 1 \in 1..n
    BY <1>2, <1>3, <1>7
  <2>2. PICK i \in Items, w \in Seq(Bytes) : i = sq[k + 1] /\ i = all[k + 1] /\ w = Behind(sq, k)
    BY <1>2, <1>3, <2>1, FrontCommands, BehindType
  <2>3. PICK x \in Openings(i) : r = x \o w
    BY <1>1, <1>2, <1>7, <2>2, Zenon DEF RemaindersOf
  <2>4. x \in Seq(Bytes)
    BY OpeningFacts
  <2>5. Behind(all, k) = w \o e
    <3>1. PICK s \in Seq(Items) : s = SubSeq(sq, k + 2, n)
      <4>1. SubSeq(sq, k + 2, n) \in Seq(Items)
        BY <1>2, <1>3
      <4> QED
        BY <4>1, Zenon
    <3>2. SubSeq(all, k + 2, n + 1) = Append(s, item)
      <4>1. PICK a \in 1..(n + 1), b \in 0..n : a = k + 2 /\ b = n /\ a <= b + 1
        BY <1>3, <2>1
      <4>2. a \in 1..(Len(all) + 1) /\ b \in 0..Len(all) /\ b + 1 <= Len(all)
        BY <1>2, <4>1
      <4>3. SubSeq(all, a, b + 1) = Append(SubSeq(all, a, b), all[b + 1])
        BY <4>1, <4>2, PieceAppend
      <4>4. SubSeq(all, a, b) = SubSeq(sq, a, b)
        BY <1>2, <4>1
      <4> QED
        BY <1>2, <3>1, <4>1, <4>3, <4>4, Zenon
    <3>3. s \in Seq(Seq(Bytes))
      BY ItemsAreBytes
    <3>4. FlattenSeq(Append(s, e)) = FlattenSeq(s) \o e
      BY <3>3, FlattenAppend
    <3> QED
      BY <1>2, <1>5, <2>2, <3>1, <3>2, <3>4, Zenon DEF Behind
  <2>6. r \o e = x \o (w \o e)
    <3>1. Associates(x, w, e)
      BY <2>4, Association, Zenon
    <3> QED
      BY <2>3, <3>1, Zenon DEF Associates
  <2>7. r \o item \in RemaindersOf(all, k)
    BY <1>2, <1>3, <1>5, <2>2, <2>5, <2>6, Zenon DEF RemaindersOf
  <2> QED
    BY <1>1, <1>2, <1>3, <1>4, <2>7, Zenon DEF Explains
<1> QED
  BY <1>6, <1>7

LEMMA ExplainNothing == Explains(<<>>, <<>>, <<>>)
<1>1. 0 \in 0..Len(<<>>) /\ SubSeq(<<>>, 1, 0) = <<>> /\ Len(<<>>) = 0
  OBVIOUS
<1>2. <<>> \in RemaindersOf(<<>>, 0)
  BY <1>1, Zenon DEF RemaindersOf
<1>3. <<>> = CommandsOf(SubSeq(<<>>, 1, 0))
  BY <1>1, CommandsOfNothing, Zenon
<1> QED
  BY <1>1, <1>2, <1>3, Zenon DEF Explains

-----------------------------------------------------------------------------
(* What is left of the stream and what was made of it.                       *)

LEMMA KeepAtMostOne ==
  ASSUME NEW m \in Seq(Bytes), NEW byte \in Bytes, NEW k \in {<<>>, m, Append(m, byte)},
         NEW rest \in Seq(Bytes), NEW all \in Seq(Bytes), Embeds(m \o (<<byte>> \o rest), all)
  PROVE  Embeds(k \o rest, all)
<1>1. PICK one \in Seq(Bytes), none \in Seq(Bytes) : one = <<byte>> /\ none = <<>>
  <2>1. <<byte>> \in Seq(Bytes) /\ <<>> \in Seq(Bytes)
    OBVIOUS
  <2> QED
    BY <2>1, Zenon
<1>2. PICK g \in Seq(Bytes) : g = m \o one
  <2>1. m \o one \in Seq(Bytes)
    BY ConcatProperties
  <2> QED
    BY <2>1, Zenon
<1>3. Append(m, byte) = g
  <2>1. Append(m, byte) = m \o <<byte>>
    OBVIOUS
  <2> QED
    BY <1>1, <1>2, <2>1, Zenon
<1>4. Embeds(m, g) /\ Embeds(none, g) /\ Embeds(g, g)
  <2>1. Embeds(m, m) /\ Embeds(none, one)
    BY <1>1, EmbedsRefl, EmptyEmbeds
  <2>2. Embeds(m \o none, m \o one)
    BY <2>1, EmbedsConcat
  <2>3. m \o <<>> = m
    BY ConcatEmptySeq
  <2>4. Embeds(m, g)
    BY <1>1, <1>2, <2>2, <2>3, Zenon
  <2>5. Embeds(none, g) /\ Embeds(g, g)
    BY <1>1, EmbedsRefl, EmptyEmbeds
  <2> QED
    BY <2>4, <2>5
<1>5. k \in Seq(Bytes) /\ Embeds(k, g)
  BY <1>1, <1>3, <1>4
<1>6. Embeds(rest, rest)
  BY EmbedsRefl
<1>7. Embeds(k \o rest, g \o rest)
  BY <1>5, <1>6, EmbedsConcat
<1>8. g \o rest = m \o (one \o rest)
  <2>1. Associates(m, one, rest)
    BY Association, Zenon
  <2> QED
    BY <1>2, <2>1, Zenon DEF Associates
<1>9. PICK u \in Seq(Bytes), v \in Seq(Bytes) : u = k \o rest /\ v = g \o rest
  <2>1. k \o rest \in Seq(Bytes)
    BY <1>5, ConcatProperties
  <2>2. g \o rest \in Seq(Bytes)
    BY ConcatProperties
  <2> QED
    BY <2>1, <2>2, Zenon
<1>10. Embeds(u, v) /\ Embeds(v, all)
  BY <1>1, <1>7, <1>8, <1>9, Zenon
<1>11. Embeds(u, all)
  BY <1>10, EmbedsTrans
<1> QED
  BY <1>9, <1>11, Zenon

LEMMA TrailType ==
  ASSUME NEW d \in Dialogues
  PROVE  Trail(d) \in Seq(Bytes)
<1>1. <<>> \in Seq(Bytes) /\ <<"d">> \in Seq(Bytes) /\ <<"d", "f">> \in Seq(Bytes) /\ Word \in Seq(Bytes)
  BY DEF Bytes, Word
<1>2. Digits \subseteq Bytes
  BY DEF Bytes
<1>3. d.got \in Seq(Digits) /\ d.state \in {"Idle", "WaitDfu", "WaitConfirm"}
  BY DEF Dialogues
<1>4. d.got \in Seq(Bytes)
  BY <1>2, <1>3
<1>5. Word \o d.got \in Seq(Bytes)
  BY <1>1, <1>4, ConcatProperties
<1> QED
  BY <1>1, <1>3, <1>5 DEF Trail

(* The dialogue stands where the bytes of the word and of the answer that    *)
(* were sent have brought it.                                                *)
DialogueTraced(d, rest, sq) == Embeds(Trail(d) \o rest, FlattenSeq(sq))

(* Every command handed on has its frame in the stream, in order.            *)
OrdersTraced(commands, rest, sq) ==
  \E fs \in Seq(CommandFrames) :
    commands = Through(Order, fs) /\ Embeds(Through(Mark, fs) \o rest, FlattenSeq(sq))

(* Without a loss, what is left is the end of the stream.                    *)
LossTraced(commands, p, l, rest, sq) == l = {} => Explains(sq, commands, p \o rest)

Traced(d, p, commands, l, rest, sq) ==
  /\ DialogueTraced(d, rest, sq)
  /\ OrdersTraced(commands, rest, sq)
  /\ LossTraced(commands, p, l, rest, sq)

LEMMA SentBytes ==
  ASSUME NEW sq \in Seq(Items)
  PROVE  FlattenSeq(sq) \in Seq(Bytes)
BY ItemsAreBytes, FlattenType

LEMMA MarksAreBytes ==
  ASSUME NEW fs \in Seq(CommandFrames)
  PROVE  Through(Mark, fs) \in Seq(Bytes) /\ Through(Order, fs) \in Seq(Commands)
<1>1. PICK F \in [CommandFrames -> Bytes], G \in [CommandFrames -> Commands] : F = Mark /\ G = Order
  BY MarkOrderType
<1>2. ThroughFact(F, fs, Bytes)
  BY ThroughType
<1>3. ThroughFact(G, fs, Commands)
  BY ThroughType
<1> QED
  BY <1>1, <1>2, <1>3, Zenon DEF ThroughFact

(* Bytes that are dropped on the way change nothing.                         *)
LEMMA PrefixKept ==
  ASSUME NEW m \in Seq(Bytes), NEW rest \in Seq(Bytes), NEW less \in Seq(Bytes),
         NEW all \in Seq(Bytes), Embeds(m \o rest, all), Embeds(less, rest)
  PROVE  Embeds(m \o less, all)
<1>1. Embeds(m, m)
  BY EmbedsRefl
<1>2. Embeds(m \o less, m \o rest)
  BY <1>1, EmbedsConcat
<1>3. PICK u \in Seq(Bytes), v \in Seq(Bytes) : u = m \o less /\ v = m \o rest
  <2>1. m \o less \in Seq(Bytes)
    BY ConcatProperties
  <2>2. m \o rest \in Seq(Bytes)
    BY ConcatProperties
  <2> QED
    BY <2>1, <2>2, Zenon
<1>4. Embeds(u, v) /\ Embeds(v, all)
  BY <1>2, <1>3, Zenon
<1>5. Embeds(u, all)
  BY <1>4, EmbedsTrans
<1> QED
  BY <1>3, <1>5, Zenon

LEMMA TracedDrop ==
  ASSUME NEW d \in Dialogues, NEW p, NEW commands, NEW l, NEW m, NEW rest \in Seq(Bytes),
         NEW less \in Seq(Bytes), NEW sq \in Seq(Items),
         Traced(d, p, commands, l, rest, sq), Embeds(less, rest),
         m = {} => l = {} /\ less = rest
  PROVE  Traced(d, p, commands, m, less, sq)
<1>1. PICK all \in Seq(Bytes), t \in Seq(Bytes) : all = FlattenSeq(sq) /\ t = Trail(d)
  BY SentBytes, TrailType
<1>2. Embeds(t \o rest, all)
  BY <1>1, Zenon DEF Traced, DialogueTraced
<1>3. Embeds(t \o less, all)
  BY <1>2, PrefixKept
<1>4. PICK fs \in Seq(CommandFrames) :
        commands = Through(Order, fs) /\ Embeds(Through(Mark, fs) \o rest, all)
  BY <1>1, Zenon DEF Traced, OrdersTraced
<1>5. PICK k \in Seq(Bytes) : k = Through(Mark, fs)
  BY MarksAreBytes
<1>6. Embeds(k \o rest, all)
  BY <1>4, <1>5, Zenon
<1>7. Embeds(k \o less, all)
  BY <1>6, PrefixKept
<1> QED
  BY <1>1, <1>3, <1>4, <1>5, <1>7, Zenon DEF Traced, DialogueTraced, OrdersTraced, LossTraced

\* The commands the runner has been given once a chunk is read this far.
Handed(commands, a) == IF a.command = NoCommand THEN commands ELSE Append(commands, a.command)

(* One byte of a chunk: it is used up, and everything is still accounted for.*)
LEMMA TracedByte ==
  ASSUME NEW a \in Progress, NEW b, NEW byte \in Bytes, NEW commands \in Seq(Commands),
         NEW rest \in Seq(Bytes), NEW sq \in Seq(Items), ByteRead(a, b, byte),
         Traced(a.dfu, a.parser, Handed(commands, a), a.lost, <<byte>> \o rest, sq)
  PROVE  Traced(b.dfu, b.parser, Handed(commands, b), b.lost, rest, sq)
<1>1. PICK all \in Seq(Bytes), t \in Seq(Bytes), p \in Parsers :
        all = FlattenSeq(sq) /\ t = Trail(a.dfu) /\ p = a.parser
  <2>1. a.dfu \in Dialogues /\ a.parser \in Parsers
    BY Zenon DEF Progress
  <2> QED
    BY <2>1, SentBytes, TrailType
<1>2. PICK q \in Seq(Bytes) :
        /\ q = feed(p, byte)
        /\ q = <<>> => p = <<>> /\ byte # "STX"
        /\ q # <<>> => q = Append(p, byte) /\ q[1] = "STX"
        /\ Complete(q) => q # <<>> /\ Len(q) = ExpectedLen(q) /\ Len(q) > HEADER
  BY ParserStep
<1>3. DialogueTraced(b.dfu, rest, sq)
  <2>1. PICK k : k = Trail(b.dfu) /\ k \in {<<>>, t, Append(t, byte)}
    BY <1>1, Zenon DEF ByteRead, Follows
  <2>2. Embeds(t \o (<<byte>> \o rest), all)
    BY <1>1, Zenon DEF Traced, DialogueTraced
  <2>3. Embeds(k \o rest, all)
    BY <2>1, <2>2, KeepAtMostOne
  <2> QED
    BY <1>1, <2>1, <2>3, Zenon DEF DialogueTraced
<1>4. \/ b.command = a.command
      \/ a.command = NoCommand /\ b.command # NoCommand /\ Complete(q) /\ q \in Frames /\ b.command = CommandOf[q]
  BY <1>1, <1>2, Zenon DEF ByteRead, Unread, Read
<1>5. OrdersTraced(Handed(commands, b), rest, sq)
  <2>1. PICK fs \in Seq(CommandFrames) :
          /\ Handed(commands, a) = Through(Order, fs)
          /\ Embeds(Through(Mark, fs) \o (<<byte>> \o rest), all)
    BY <1>1, Zenon DEF Traced, OrdersTraced
  <2>2. PICK m \in Seq(Bytes) : m = Through(Mark, fs)
    BY MarksAreBytes
  <2>3. Embeds(m \o (<<byte>> \o rest), all)
    BY <2>1, <2>2, Zenon
  <2>4. CASE b.command = a.command
    <3>1. Embeds(m \o rest, all)
      BY <2>3, KeepAtMostOne
    <3>2. Handed(commands, b) = Handed(commands, a)
      BY <2>4, Zenon DEF Handed
    <3> QED
      BY <1>1, <2>1, <2>2, <3>1, <3>2, Zenon DEF OrdersTraced
  <2>5. CASE /\ a.command = NoCommand /\ b.command # NoCommand
             /\ Complete(q) /\ q \in Frames /\ b.command = CommandOf[q]
    <3>1. PICK f \in CommandFrames : f = q
      BY <2>5 DEF CommandFrames
    <3>2. Checksum(f) = byte
      <4>1. q = Append(p, byte) /\ p \in Seq(Bytes)
        BY <1>2, <2>5, Zenon DEF Parsers
      <4>2. Len(q) = Len(p) + 1 /\ q[Len(p) + 1] = byte
        BY <4>1
      <4> QED
        BY <3>1, <4>2, Zenon DEF Checksum
    <3>3. PICK F \in [CommandFrames -> Bytes], G \in [CommandFrames -> Commands] :
            F = Mark /\ G = Order /\ F[f] = byte /\ G[f] = CommandOf[q]
      BY <3>1, <3>2, MarkOrderType
    <3>4. PICK gs \in Seq(CommandFrames) : gs = Append(fs, f)
      BY AppendProperties
    <3>5. ThroughOneMore(F, fs, f)
      BY ThroughAppend
    <3>6. ThroughOneMore(G, fs, f)
      BY ThroughAppend
    <3>7. Through(Mark, gs) = Append(m, byte)
      BY <2>2, <3>3, <3>4, <3>5, Zenon DEF ThroughOneMore
    <3>8. Embeds(Append(m, byte) \o rest, all)
      BY <2>3, KeepAtMostOne
    <3>9. Handed(commands, b) = Through(Order, gs)
      BY <2>1, <2>5, <3>3, <3>4, <3>6, Zenon DEF Handed, ThroughOneMore
    <3> QED
      BY <1>1, <3>7, <3>8, <3>9, Zenon DEF OrdersTraced
  <2> QED
    BY <1>4, <2>4, <2>5
<1>6. LossTraced(Handed(commands, b), b.parser, b.lost, rest, sq)
  <2> SUFFICES ASSUME b.lost = {} PROVE Explains(sq, Handed(commands, b), b.parser \o rest)
    BY Zenon DEF LossTraced
  <2>1. /\ a.command = NoCommand /\ b.lost = a.lost
        /\ ~ Complete(q) => b.parser = q /\ b.command = NoCommand
        /\ Complete(q) => /\ b.parser = <<>>
                          /\ b.command = IF q \in Frames THEN CommandOf[q] ELSE NoCommand
    BY <1>1, <1>2, Zenon DEF ByteRead, Unread, Read
  <2>2. Explains(sq, commands, p \o (<<byte>> \o rest))
    <3>1. Handed(commands, a) = commands
      BY <2>1, Zenon DEF Handed
    <3> QED
      BY <1>1, <2>1, <3>1, Zenon DEF Traced, LossTraced
  <2>3. <<>> \o rest = rest
    BY ConcatEmptySeq
  <2>4. CASE q = <<>>
    <3>1. p = <<>> /\ byte # "STX" /\ ~ Complete(q)
      BY <1>2, <2>4, Zenon
    <3>2. PICK s \in Seq(Bytes) : s = <<byte>> \o rest
      <4>1. <<byte>> \in Seq(Bytes)
        OBVIOUS
      <4>2. <<byte>> \o rest \in Seq(Bytes)
        BY <4>1, ConcatProperties
      <4> QED
        BY <4>2, Zenon
    <3>3. <<>> \o s = s
      BY ConcatEmptySeq
    <3>4. Explains(sq, commands, <<byte>> \o rest)
      BY <2>2, <3>1, <3>2, <3>3, Zenon
    <3>5. Explains(sq, commands, rest)
      BY <3>1, <3>4, ExplainSkip
    <3>6. Handed(commands, b) = commands
      BY <2>1, <3>1, Zenon DEF Handed
    <3> QED
      BY <2>1, <2>3, <2>4, <3>1, <3>5, <3>6, Zenon
  <2>5. CASE q # <<>>
    <3>1. q = Append(p, byte) /\ q[1] = "STX" /\ p \in Seq(Bytes)
      BY <1>2, <2>5, Zenon DEF Parsers
    <3>2. q \o rest = p \o (<<byte>> \o rest)
      <4>1. PICK one \in Seq(Bytes) : one = <<byte>>
        <5>1. <<byte>> \in Seq(Bytes)
          OBVIOUS
        <5> QED
          BY <5>1, Zenon
      <4>2. Append(p, byte) = p \o <<byte>>
        BY <3>1, AppendIsConcat
      <4>3. Associates(p, one, rest)
        BY <3>1, Association, Zenon
      <4> QED
        BY <3>1, <4>1, <4>2, <4>3, Zenon DEF Associates
    <3>3. Explains(sq, commands, q \o rest)
      BY <2>2, <3>2, Zenon
    <3>4. CASE ~ Complete(q)
      <4>1. Handed(commands, b) = commands /\ b.parser = q
        BY <2>1, <3>4, Zenon DEF Handed
      <4> QED
        BY <3>3, <4>1, Zenon
    <3>5. CASE Complete(q)
      <4>1. Len(q) = ExpectedLen(q) /\ Len(q) > HEADER
        BY <1>2, <3>5, Zenon
      <4>2. q \in Frames /\ Explains(sq, commands \o Reply(q), rest)
        BY <3>1, <3>3, <4>1, ExplainFrame
      <4>3. b.parser = <<>> /\ b.command = CommandOf[q]
        BY <2>1, <3>5, <4>2, Zenon
      <4>4. Handed(commands, b) = commands \o Reply(q)
        <5>1. CASE CommandOf[q] = NoCommand
          <6>1. Reply(q) = <<>>
            BY <5>1, Zenon DEF Reply, IsCommand
          <6>2. commands \o <<>> = commands
            BY ConcatEmptySeq
          <6>3. Handed(commands, b) = commands
            BY <4>3, <5>1, Zenon DEF Handed
          <6> QED
            BY <6>1, <6>2, <6>3, Zenon
        <5>2. CASE CommandOf[q] # NoCommand
          <6>1. Reply(q) = <<CommandOf[q]>>
            BY <4>2, <5>2, Zenon DEF Reply, IsCommand
          <6>2. PICK c \in Commands : c = CommandOf[q]
            BY <4>2 DEF Commands
          <6>3. Append(commands, c) = commands \o <<c>>
            BY AppendIsConcat
          <6>4. Handed(commands, b) = Append(commands, c)
            BY <4>3, <5>2, <6>2, Zenon DEF Handed
          <6> QED
            BY <6>1, <6>2, <6>3, <6>4, Zenon
        <5> QED
          BY <5>1, <5>2
      <4> QED
        BY <2>3, <4>2, <4>3, <4>4, Zenon
    <3> QED
      BY <3>4, <3>5
  <2> QED
    BY <2>4, <2>5
<1> QED
  BY <1>3, <1>5, <1>6, Zenon DEF Traced

-----------------------------------------------------------------------------
(* A whole chunk.                                                            *)

LEMMA SuffixStep ==
  ASSUME NEW s \in Seq(Bytes), NEW k \in Nat, k < Len(s)
  PROVE  /\ s[k + 1] \in Bytes /\ SubSeq(s, k + 2, Len(s)) \in Seq(Bytes)
         /\ SubSeq(s, k + 1, Len(s)) = <<s[k + 1]>> \o SubSeq(s, k + 2, Len(s))
<1>1. PICK n \in Nat, x \in Bytes : n = Len(s) /\ x = s[k + 1]
  OBVIOUS
<1>2. PICK t \in Seq(Bytes) : /\ t = SubSeq(s, k + 1, n) /\ Len(t) = n - k
                              /\ \A i \in 1..(n - k) : t[i] = s[k + i]
  <2>1. PICK a \in 1..(Len(s) + 1), b \in 0..Len(s) : a = k + 1 /\ b = n /\ a <= b + 1
    <3>1. k + 1 \in 1..(Len(s) + 1) /\ n \in 0..Len(s) /\ k + 1 <= n + 1
      BY <1>1
    <3> QED
      BY <3>1, Zenon
  <2>2. /\ SubSeq(s, a, b) \in Seq(Bytes) /\ Len(SubSeq(s, a, b)) = b + 1 - a
        /\ \A i \in 1..(b + 1 - a) : SubSeq(s, a, b)[i] = s[a + i - 1]
    BY <2>1, Piece
  <2>3. PICK r \in Seq(Bytes) : r = SubSeq(s, k + 1, n) /\ r = SubSeq(s, a, b)
    BY <2>1, <2>2, Zenon
  <2>4. b + 1 - a = n - k
    BY <1>1, <2>1
  <2>5. ASSUME NEW i \in 1..(n - k) PROVE r[i] = s[k + i]
    <3>1. i \in 1..(b + 1 - a) /\ a + i - 1 = k + i
      BY <1>1, <2>1
    <3>2. r[i] = s[a + i - 1]
      BY <2>2, <2>3, <3>1, Zenon
    <3> QED
      BY <3>1, <3>2, Zenon
  <2>6. Len(r) = n - k
    BY <2>2, <2>3, <2>4, Zenon
  <2> QED
    BY <2>3, <2>5, <2>6, Zenon
<1>3. PICK u \in Seq(Bytes) : /\ u = SubSeq(s, k + 2, n) /\ Len(u) = n - k - 1
                              /\ \A i \in 1..(n - k - 1) : u[i] = s[k + 1 + i]
  <2>1. PICK a \in 1..(Len(s) + 1), b \in 0..Len(s) : a = k + 2 /\ b = n /\ a <= b + 1
    <3>1. k + 2 \in 1..(Len(s) + 1) /\ n \in 0..Len(s) /\ k + 2 <= n + 1
      BY <1>1
    <3> QED
      BY <3>1, Zenon
  <2>2. /\ SubSeq(s, a, b) \in Seq(Bytes) /\ Len(SubSeq(s, a, b)) = b + 1 - a
        /\ \A i \in 1..(b + 1 - a) : SubSeq(s, a, b)[i] = s[a + i - 1]
    BY <2>1, Piece
  <2>3. PICK r \in Seq(Bytes) : r = SubSeq(s, k + 2, n) /\ r = SubSeq(s, a, b)
    BY <2>1, <2>2, Zenon
  <2>4. b + 1 - a = n - k - 1
    BY <1>1, <2>1
  <2>5. ASSUME NEW i \in 1..(n - k - 1) PROVE r[i] = s[k + 1 + i]
    <3>1. i \in 1..(b + 1 - a) /\ a + i - 1 = k + 1 + i
      BY <1>1, <2>1
    <3>2. r[i] = s[a + i - 1]
      BY <2>2, <2>3, <3>1, Zenon
    <3> QED
      BY <3>1, <3>2, Zenon
  <2>6. Len(r) = n - k - 1
    BY <2>2, <2>3, <2>4, Zenon
  <2> QED
    BY <2>3, <2>5, <2>6, Zenon
<1>4. PICK one \in Seq(Bytes) : one = <<x>> /\ Len(one) = 1 /\ one[1] = x
  <2>1. <<x>> \in Seq(Bytes) /\ Len(<<x>>) = 1 /\ <<x>>[1] = x
    OBVIOUS
  <2> QED
    BY <2>1, Zenon
<1>5. /\ one \o u \in Seq(Bytes) /\ Len(one \o u) = n - k
      /\ \A i \in 1..(n - k) : (one \o u)[i] = IF i <= 1 THEN one[i] ELSE u[i - 1]
  <2>1. /\ one \o u \in Seq(Bytes) /\ Len(one \o u) = Len(one) + Len(u)
        /\ \A i \in 1..(Len(one) + Len(u)) : (one \o u)[i] = IF i <= Len(one) THEN one[i] ELSE u[i - Len(one)]
    BY ConcatProperties
  <2>2. Len(one) + Len(u) = n - k /\ Len(one) = 1
    BY <1>1, <1>3, <1>4
  <2> QED
    BY <2>1, <2>2, Zenon
<1>6. ASSUME NEW i \in 1..(n - k) PROVE t[i] = (one \o u)[i]
  <2>1. CASE i = 1
    BY <1>1, <1>2, <1>4, <1>5, <2>1
  <2>2. CASE i # 1
    <3>1. i - 1 \in 1..(n - k - 1) /\ k + 1 + (i - 1) = k + i /\ ~ (i <= 1)
      BY <1>1, <2>2
    <3> QED
      BY <1>2, <1>3, <1>5, <3>1, Zenon
  <2> QED
    BY <2>1, <2>2
<1>7. t = one \o u
  BY <1>2, <1>5, <1>6, SeqEqual
<1> QED
  BY <1>1, <1>2, <1>3, <1>4, <1>7, Zenon

\* A challenge is as old as the polls since it was put, and not too old.
Timely(d, w) ==
  d.state = "WaitConfirm" => w = Elapsed(d.start_tick) /\ w <= DFU_TIMEOUT_TICKS

\* Everything is accounted for when a chunk has been read as far as a.
Accounted(a, commands, rest, sq) ==
  /\ Traced(a.dfu, a.parser, Handed(commands, a), a.lost, rest, sq)
  /\ Timely(a.dfu, a.waiting)
  /\ a.rebooted => Confirmed(a.dfu)

LEMMA AccountedByte ==
  ASSUME NEW a \in Progress, NEW b, NEW byte \in Bytes, NEW commands \in Seq(Commands),
         NEW rest \in Seq(Bytes), NEW sq \in Seq(Items), tick_counter \in Ticks,
         ByteRead(a, b, byte), Accounted(a, commands, <<byte>> \o rest, sq)
  PROVE  Accounted(b, commands, rest, sq)
<1>1. Traced(b.dfu, b.parser, Handed(commands, b), b.lost, rest, sq)
  <2>1. Traced(a.dfu, a.parser, Handed(commands, a), a.lost, <<byte>> \o rest, sq)
    BY Zenon DEF Accounted
  <2> QED
    BY <2>1, TracedByte
<1>2. Timely(b.dfu, b.waiting)
  <2>1. PICK N \in Nat \ {0}, t \in 0..(TICK_RANGE - 1) : N = TICK_RANGE /\ t = tick_counter
    BY TicksAssumption DEF Ticks
  <2>2. (t + N - t) % N = 0
    BY <2>1, ElapsedNow
  <2>3. Elapsed(tick_counter) = 0
    BY <2>1, <2>2, Zenon DEF Elapsed
  <2>4. 0 <= DFU_TIMEOUT_TICKS
    BY TicksAssumption
  <2> QED
    BY <2>3, <2>4, Zenon DEF Accounted, Timely, ByteRead, ClockKept
<1>3. b.rebooted => Confirmed(b.dfu)
  BY Zenon DEF Accounted, ByteRead
<1> QED
  BY <1>1, <1>2, <1>3, Zenon DEF Accounted

(* Byte after byte, to the end of the chunk.                                 *)
LEMMA AccountedChunk ==
  ASSUME NEW s \in Seq(Bytes), NEW after \in [0..Len(s) -> Progress],
         \A k \in 1..Len(s) : ByteRead(after[k - 1], after[k], s[k]),
         NEW commands \in Seq(Commands), NEW rest \in Seq(Bytes), NEW sq \in Seq(Items),
         tick_counter \in Ticks, Accounted(after[0], commands, s \o rest, sq)
  PROVE  Accounted(after[Len(s)], commands, rest, sq)
<1>1. PICK n \in Nat : n = Len(s)
  OBVIOUS
<1> DEFINE Left(k) == SubSeq(s, k + 1, n) \o rest
           Holds(k) == Accounted(after[k], commands, Left(k), sq)
           Good == {k \in Nat : k <= n => Holds(k)}
<1>2. SubSeq(s, 1, n) = s /\ SubSeq(s, n + 1, n) = <<>>
  BY <1>1
<1>3. Left(0) = s \o rest /\ Left(n) = rest
  <2>1. 0 + 1 = 1
    OBVIOUS
  <2>2. <<>> \o rest = rest
    BY ConcatEmptySeq
  <2> QED
    BY <1>2, <2>1, <2>2, Zenon
<1>4. ASSUME NEW k \in Nat, k < n
      PROVE  /\ s[k + 1] \in Bytes /\ Left(k + 1) \in Seq(Bytes)
             /\ Left(k) = <<s[k + 1]>> \o Left(k + 1)
  <2>1. /\ s[k + 1] \in Bytes /\ SubSeq(s, k + 2, n) \in Seq(Bytes)
        /\ SubSeq(s, k + 1, n) = <<s[k + 1]>> \o SubSeq(s, k + 2, n)
    BY <1>1, <1>4, SuffixStep
  <2>2. (k + 1) + 1 = k + 2
    OBVIOUS
  <2>3. PICK u \in Seq(Bytes) : u = SubSeq(s, k + 2, n) /\ u = SubSeq(s, (k + 1) + 1, n)
    BY <2>1, <2>2, Zenon
  <2>4. u \o rest \in Seq(Bytes)
    BY ConcatProperties
  <2>5. PICK one \in Seq(Bytes) : one = <<s[k + 1]>>
    <3>1. <<s[k + 1]>> \in Seq(Bytes)
      BY <2>1
    <3> QED
      BY <3>1, Zenon
  <2>6. Associates(one, u, rest)
    BY Association, Zenon
  <2> QED
    BY <2>1, <2>3, <2>4, <2>5, <2>6, Zenon DEF Associates
<1>5. 0 \in Good
  BY <1>3, Zenon
<1>6. ASSUME NEW k \in Good PROVE k + 1 \in Good
  <2> SUFFICES ASSUME k + 1 <= n PROVE Holds(k + 1)
    OBVIOUS
  <2>1. /\ k \in Nat /\ k < n /\ k \in 0..n /\ k + 1 \in 1..n /\ k + 1 \in 0..n
        /\ (k + 1) - 1 = k /\ Holds(k)
    OBVIOUS
  <2> HIDE DEF Left
  <2>2. PICK a \in Progress, byte \in Bytes, r \in Seq(Bytes) :
          /\ a = after[k] /\ byte = s[k + 1] /\ r = Left(k + 1)
          /\ Left(k) = <<byte>> \o r
    <3>1. after[k] \in Progress
      BY <1>1, <2>1
    <3>2. /\ s[k + 1] \in Bytes /\ Left(k + 1) \in Seq(Bytes)
          /\ Left(k) = <<s[k + 1]>> \o Left(k + 1)
      BY <1>4, <2>1
    <3> QED
      BY <3>1, <3>2, Zenon
  <2> DEFINE b == after[k + 1]
  <2>3. ByteRead(a, b, byte)
    BY <1>1, <2>1, <2>2, Zenon
  <2> HIDE DEF b
  <2>4. Accounted(a, commands, <<byte>> \o r, sq)
    BY <2>1, <2>2, Zenon
  <2>5. Accounted(b, commands, r, sq)
    BY <2>3, <2>4, AccountedByte
  <2> QED
    BY <2>2, <2>5, Zenon DEF b
<1> HIDE DEF Holds
<1>7. Good \in SUBSET Nat /\ n <= n
  BY <1>1
<1>8. n \in Good
  <2> HIDE DEF Good
  <2>1. Good = Nat
    BY <1>5, <1>6, <1>7, Induction
  <2> QED
    BY <2>1
<1>9. Holds(n)
  BY <1>7, <1>8
<1> HIDE DEF Left
<1> QED
  BY <1>1, <1>3, <1>9, Zenon DEF Holds

-----------------------------------------------------------------------------
(* The invariant.                                                            *)

\* The bytes no parser has seen yet.
Outstanding == Buffered \o wire

Typed ==
  /\ wire \in Seq(Bytes) /\ rx \in Rings /\ parser \in Parsers /\ dfu \in Dialogues
  /\ tick_counter \in Ticks /\ polls \in 0..MaxPolls /\ rebooted \in BOOLEAN
  /\ sent \in Seq(Items) /\ delivered \in Seq(Commands)
  /\ lost \in SUBSET Losses /\ waiting \in Nat

Traces == Traced(dfu, parser, delivered, lost, Outstanding, sent)

Clock ==
  dfu.state = "WaitConfirm" =>
    waiting = Elapsed(dfu.start_tick) /\ waiting <= DFU_TIMEOUT_TICKS + polls

Answered == rebooted => Confirmed(dfu) /\ Elapsed(dfu.start_tick) <= DFU_TIMEOUT_TICKS

Accounts == Typed /\ Traces /\ Clock /\ Answered

LEMMA OutstandingIs ==
  ASSUME rx \in Rings, wire \in Seq(Bytes)
  PROVE  /\ Outstanding = Content(rx) \o wire /\ Content(rx) \in Seq(Bytes)
         /\ Outstanding \in Seq(Bytes)
<1>1. PICK r \in Rings, c \in Seq(Bytes) : r = rx /\ c = Content(rx)
  <2>1. PICK r \in Rings : r = rx
    OBVIOUS
  <2>2. Content(r) \in Seq(Bytes)
    BY ContentType
  <2> QED
    BY <2>1, <2>2, Zenon
<1>2. Outstanding = c \o wire
  BY <1>1, BufferedIsContent, Zenon DEF Outstanding
<1>3. c \o wire \in Seq(Bytes)
  BY ConcatProperties
<1> QED
  BY <1>1, <1>2, <1>3, Zenon

LEMMA InitTyped == Init => Typed
<1> SUFFICES ASSUME Init PROVE Typed
  OBVIOUS
<1>1. wire \in Seq(Bytes) /\ sent \in Seq(Items) /\ delivered \in Seq(Commands)
  BY DEF Init
<1>2. rx \in Rings
  <2>1. "cr" \in Bytes /\ 0 \in 0..(RX_SIZE - 1)
    BY SizesAssumption DEF Bytes
  <2> QED
    BY <2>1 DEF Init, Rings
<1>3. parser \in Parsers /\ dfu \in Dialogues
  BY EmptyParser, IdleDialogue DEF Init
<1>4. tick_counter \in Ticks /\ polls \in 0..MaxPolls /\ waiting \in Nat
  BY TicksAssumption DEF Init, Ticks
<1>5. lost \in SUBSET Losses
  BY DEF Init
<1>6. rebooted \in BOOLEAN
  BY Zenon DEF Init
<1> QED
  BY <1>1, <1>2, <1>3, <1>4, <1>5, <1>6 DEF Typed

LEMMA InitTraced == Init => Traces
<1> SUFFICES ASSUME Init PROVE Traces
  OBVIOUS
<1>1. Typed
  BY InitTyped
<1>2. Outstanding = <<>>
  <2>1. PICK N \in Nat \ {0}, t \in 0..(RX_SIZE - 1) : N = RX_SIZE /\ t = 0
    BY SizesAssumption
  <2>2. (t + N - t) % N = 0
    BY <2>1, ElapsedNow
  <2>3. rx.head = 0 /\ rx.tail = 0
    BY DEF Init
  <2>4. DepthOf(rx) = 0
    BY <2>1, <2>2, <2>3, Zenon DEF DepthOf
  <2>5. Content(rx) = <<>>
    BY <2>4 DEF Content
  <2>6. <<>> \o wire = wire /\ wire = <<>>
    BY DEF Init
  <2> QED
    BY <1>1, <2>5, <2>6, OutstandingIs, Zenon DEF Typed
<1>3. parser = <<>> /\ dfu = Idle /\ sent = <<>> /\ delivered = <<>> /\ lost = {}
  BY Zenon DEF Init
<1>4. PICK none \in Seq(Bytes) : none = <<>> /\ none \o none = none
  <2>1. <<>> \in Seq(Bytes) /\ <<>> \o <<>> = <<>>
    OBVIOUS
  <2> QED
    BY <2>1, Zenon
<1>5. Embeds(none, none)
  BY EmbedsRefl
<1>6. FlattenSeq(<<>>) = <<>>
  BY FlattenEmpty
<1>7. DialogueTraced(dfu, Outstanding, sent)
  BY <1>2, <1>3, <1>4, <1>5, <1>6, IdleDialogue, Zenon DEF DialogueTraced
<1>8. OrdersTraced(delivered, Outstanding, sent)
  <2>1. <<>> \in Seq(CommandFrames) /\ Through(Order, <<>>) = <<>> /\ Through(Mark, <<>>) = <<>>
    BY DEF Through
  <2> QED
    BY <1>2, <1>3, <1>4, <1>5, <1>6, <2>1, Zenon DEF OrdersTraced
<1>9. LossTraced(delivered, parser, lost, Outstanding, sent)
  BY <1>2, <1>3, <1>4, ExplainNothing, Zenon DEF LossTraced
<1> QED
  BY <1>7, <1>8, <1>9, Zenon DEF Traces, Traced

LEMMA InitAccounts == Init => Accounts
<1> SUFFICES ASSUME Init PROVE Accounts
  OBVIOUS
<1>1. dfu.state = "Idle" /\ rebooted = FALSE
  BY IdleDialogue, Zenon DEF Init
<1> QED
  BY <1>1, InitTyped, InitTraced DEF Accounts, Clock, Answered

-----------------------------------------------------------------------------
(* The host sends.                                                           *)

LEMMA TracedSend ==
  ASSUME NEW d \in Dialogues, NEW p \in Parsers, NEW commands, NEW l, NEW rest \in Seq(Bytes),
         NEW sq \in Seq(Items), NEW item \in Items, Traced(d, p, commands, l, rest, sq)
  PROVE  Traced(d, p, commands, l, rest \o item, Append(sq, item))
<1>1. PICK all \in Seq(Bytes), e \in Seq(Bytes), t \in Seq(Bytes) :
        all = FlattenSeq(sq) /\ e = item /\ t = Trail(d)
  BY SentBytes, ItemBytes, TrailType
<1>2. FlattenSeq(Append(sq, item)) = all \o e
  <2>1. sq \in Seq(Seq(Bytes))
    BY ItemsAreBytes
  <2>2. FlattenSeq(Append(sq, e)) = FlattenSeq(sq) \o e
    BY <2>1, FlattenAppend
  <2> QED
    BY <1>1, <2>2, Zenon
<1>3. Embeds(e, e)
  BY EmbedsRefl
<1>4. ASSUME NEW m \in Seq(Bytes), Embeds(m \o rest, all)
      PROVE  Embeds(m \o (rest \o e), all \o e)
  <2>1. PICK u \in Seq(Bytes) : u = m \o rest
    <3>1. m \o rest \in Seq(Bytes)
      BY ConcatProperties
    <3> QED
      BY <3>1, Zenon
  <2>2. Embeds(u, all)
    BY <1>4, <2>1, Zenon
  <2>3. Embeds(u \o e, all \o e)
    BY <1>3, <2>2, EmbedsConcat
  <2>4. Associates(m, rest, e)
    BY Association, Zenon
  <2> QED
    BY <2>1, <2>3, <2>4, Zenon DEF Associates
<1>5. DialogueTraced(d, rest \o item, Append(sq, item))
  <2>1. Embeds(t \o rest, all)
    BY <1>1, Zenon DEF Traced, DialogueTraced
  <2>2. Embeds(t \o (rest \o e), all \o e)
    BY <1>4, <2>1, Zenon
  <2> QED
    BY <1>1, <1>2, <2>2, Zenon DEF DialogueTraced
<1>6. OrdersTraced(commands, rest \o item, Append(sq, item))
  <2>1. PICK fs \in Seq(CommandFrames) :
          commands = Through(Order, fs) /\ Embeds(Through(Mark, fs) \o rest, all)
    BY <1>1, Zenon DEF Traced, OrdersTraced
  <2>2. Through(Mark, fs) \in Seq(Bytes)
    BY MarksAreBytes
  <2>3. Embeds(Through(Mark, fs) \o (rest \o e), all \o e)
    BY <1>4, <2>1, <2>2, Zenon
  <2> QED
    BY <1>1, <1>2, <2>1, <2>3, Zenon DEF OrdersTraced
<1>7. LossTraced(commands, p, l, rest \o item, Append(sq, item))
  <2> SUFFICES ASSUME l = {} PROVE Explains(Append(sq, item), commands, p \o (rest \o item))
    BY Zenon DEF LossTraced
  <2>1. PICK q \in Seq(Bytes) : q = p
    BY DEF Parsers
  <2>2. PICK r \in Seq(Bytes) : r = q \o rest
    <3>1. q \o rest \in Seq(Bytes)
      BY ConcatProperties
    <3> QED
      BY <3>1, Zenon
  <2>3. Explains(sq, commands, r)
    BY <2>1, <2>2, Zenon DEF Traced, LossTraced
  <2>4. Explains(Append(sq, item), commands, r \o item)
    BY <2>3, ExplainSend
  <2>5. Associates(q, rest, e)
    BY Association, Zenon
  <2> QED
    BY <1>1, <2>1, <2>2, <2>4, <2>5, Zenon DEF Associates
<1> QED
  BY <1>5, <1>6, <1>7, Zenon DEF Traced

LEMMA SendAccounts ==
  ASSUME Accounts, HostSends
  PROVE  Accounts'
<1>1. PICK item \in Items : sent' = Append(sent, item) /\ wire' = wire \o item
  BY Zenon DEF HostSends
<1>2. UNCHANGED <<rx, parser, dfu, tick_counter, polls, rebooted, delivered, lost, waiting>>
  BY Zenon DEF HostSends
<1>3. PICK w \in Seq(Bytes), e \in Seq(Bytes), sq \in Seq(Items), r \in Rings :
        w = wire /\ e = item /\ sq = sent /\ r = rx
  BY ItemBytes DEF Accounts, Typed
<1>4. wire' \in Seq(Bytes) /\ sent' \in Seq(Items)
  <2>1. w \o e \in Seq(Bytes)
    BY ConcatProperties
  <2>2. Append(sq, item) \in Seq(Items)
    OBVIOUS
  <2> QED
    BY <1>1, <1>3, <2>1, <2>2, Zenon
<1>5. Typed'
  BY <1>2, <1>4, Zenon DEF Accounts, Typed
<1>6. PICK c \in Seq(Bytes), rest \in Seq(Bytes) :
        c = Content(r) /\ rest = Outstanding /\ rest = c \o w /\ Outstanding' = c \o (w \o e)
  <2>1. Content(r) \in Seq(Bytes) /\ Outstanding = Content(r) \o w /\ Outstanding \in Seq(Bytes)
    BY <1>3, OutstandingIs
  <2>2. Outstanding' = Content(r) \o wire'
    <3>1. Buffered' = Buffered
      BY <1>2, Zenon DEF Buffered, rx_depth
    <3>2. Buffered = Content(r)
      BY <1>3, BufferedIsContent, Zenon
    <3> QED
      BY <3>1, <3>2, Zenon DEF Outstanding
  <2> QED
    BY <1>1, <1>3, <2>1, <2>2, Zenon
<1>7. Outstanding' = rest \o item
  <2>1. Associates(c, w, e)
    BY Association, Zenon
  <2> QED
    BY <1>3, <1>6, <2>1, Zenon DEF Associates
<1>8. Traces'
  <2>1. PICK d \in Dialogues, p \in Parsers : d = dfu /\ p = parser
    BY DEF Accounts, Typed
  <2>2. Traced(d, p, delivered, lost, rest, sq)
    BY <1>3, <1>6, <2>1, Zenon DEF Accounts, Traces
  <2>3. Traced(d, p, delivered, lost, rest \o item, Append(sq, item))
    BY <2>2, TracedSend
  <2> QED
    BY <1>1, <1>2, <1>3, <1>7, <2>1, <2>3, Zenon DEF Traces
<1>9. Clock' /\ Answered'
  <2>1. Clock /\ Answered
    BY Zenon DEF Accounts
  <2> QED
    BY <1>2, <2>1, Zenon DEF Clock, Answered, Elapsed, Confirmed
<1> QED
  BY <1>5, <1>8, <1>9, Zenon DEF Accounts

-----------------------------------------------------------------------------
(* A packet goes into the ring.                                              *)

(* What the ring has no room for is missing from the middle of the stream.   *)
PacketMoved(c, w, n, k) ==
  LET data == SubSeq(w, 1, n)
      less == (c \o SubSeq(data, 1, k)) \o SubSeq(w, n + 1, Len(w))
  IN  /\ data \in Seq(Bytes) /\ Len(data) = n /\ SubSeq(w, n + 1, Len(w)) \in Seq(Bytes)
      /\ less \in Seq(Bytes) /\ Embeds(less, c \o w)
      /\ k = n => less = c \o w

LEMMA PacketMoves ==
  ASSUME NEW c \in Seq(Bytes), NEW w \in Seq(Bytes), NEW n \in 0..Len(w), NEW k \in 0..n
  PROVE  PacketMoved(c, w, n, k)
<1>1. PICK data \in Seq(Bytes), tail \in Seq(Bytes) :
        /\ data = SubSeq(w, 1, n) /\ tail = SubSeq(w, n + 1, Len(w)) /\ w = data \o tail
        /\ Len(data) = n
  <2>1. /\ SubSeq(w, 1, n) \in Seq(Bytes) /\ SubSeq(w, n + 1, Len(w)) \in Seq(Bytes)
        /\ w = SubSeq(w, 1, n) \o SubSeq(w, n + 1, Len(w))
    BY Halves
  <2>2. Len(SubSeq(w, 1, n)) = n
    OBVIOUS
  <2> QED
    BY <2>1, <2>2, Zenon
<1>2. PICK x \in Seq(Bytes), y \in Seq(Bytes) : x = SubSeq(data, 1, k) /\ data = x \o y
  <2>1. k \in 0..Len(data)
    BY <1>1
  <2>2. /\ SubSeq(data, 1, k) \in Seq(Bytes) /\ SubSeq(data, k + 1, Len(data)) \in Seq(Bytes)
        /\ data = SubSeq(data, 1, k) \o SubSeq(data, k + 1, Len(data))
    BY <2>1, Halves
  <2> QED
    BY <2>2, Zenon
<1>3. Embeds(x, data)
  <2>1. PICK none \in Seq(Bytes) : none = <<>> /\ x \o none = x
    <3>1. <<>> \in Seq(Bytes) /\ x \o <<>> = x
      BY ConcatEmptySeq
    <3> QED
      BY <3>1, Zenon
  <2>2. Embeds(x, x) /\ Embeds(none, y)
    BY <2>1, EmbedsRefl, EmptyEmbeds
  <2>3. Embeds(x \o none, x \o y)
    BY <2>2, EmbedsConcat
  <2> QED
    BY <1>2, <2>1, <2>3, Zenon
<1>4. (c \o x) \o tail = c \o (x \o tail)
  <2>1. Associates(c, x, tail)
    BY Association, Zenon
  <2> QED
    BY <2>1, Zenon DEF Associates
<1>5. PICK z \in Seq(Bytes) : z = x \o tail
  <2>1. x \o tail \in Seq(Bytes)
    BY ConcatProperties
  <2> QED
    BY <2>1, Zenon
<1>6. Embeds(z, w)
  <2>1. Embeds(tail, tail)
    BY EmbedsRefl
  <2>2. Embeds(x \o tail, data \o tail)
    BY <1>3, <2>1, EmbedsConcat
  <2> QED
    BY <1>1, <1>5, <2>2, Zenon
<1>7. Embeds(c \o z, c \o w)
  <2>1. Embeds(c, c)
    BY EmbedsRefl
  <2> QED
    BY <1>6, <2>1, EmbedsConcat
<1>8. c \o z \in Seq(Bytes)
  BY ConcatProperties
<1>9. k = n => x = data
  <2> SUFFICES ASSUME k = n PROVE x = data
    OBVIOUS
  <2>1. SubSeq(data, 1, Len(data)) = data
    OBVIOUS
  <2>2. Len(data) = k
    BY <1>1, Zenon
  <2> QED
    BY <1>2, <2>1, <2>2, Zenon
<1> QED
  BY <1>1, <1>2, <1>4, <1>5, <1>7, <1>8, <1>9, Zenon DEF PacketMoved

\* What a poll accepts of n bytes leaves one slot free.
LEMMA AcceptedFits ==
  ASSUME rx \in Rings, NEW n \in Nat
  PROVE  Accepted(n) \in 0..n /\ DepthOf(rx) + Accepted(n) <= RX_SIZE - 1
<1>1. PICK r \in Rings : r = rx
  OBVIOUS
<1>2. PICK d \in 0..(RX_SIZE - 1), N \in Nat \ {0} : d = DepthOf(rx) /\ d = rx_depth /\ N = RX_SIZE
  <2>1. DepthOf(r) \in 0..(RX_SIZE - 1)
    BY Depth
  <2>2. RX_SIZE \in Nat \ {0}
    BY SizesAssumption
  <2> QED
    BY <1>1, <2>1, <2>2, BufferedIsContent, Zenon
<1>3. Accepted(n) = IF n < N - 1 - d THEN n ELSE N - 1 - d
  BY <1>2, Zenon DEF Accepted, Min2
<1>4. d <= N - 1
  BY <1>2
<1> HIDE DEF Accepted
<1>5. Accepted(n) \in 0..n /\ d + Accepted(n) <= N - 1
  BY <1>2, <1>3, <1>4
<1> QED
  BY <1>2, <1>5, Zenon

\* The state of the ring and of the wire behind a packet.
LEMMA PollMoves ==
  ASSUME Accounts, poll
  PROVE  /\ wire' \in Seq(Bytes) /\ rx' \in Rings /\ lost' \in SUBSET Losses
         /\ Embeds(Outstanding', Outstanding)
         /\ lost' = {} => lost = {} /\ Outstanding' = Outstanding
<1>1. PICK w \in Seq(Bytes), r \in Rings : w = wire /\ r = rx
  BY DEF Accounts, Typed
<1>2. PICK n \in {0, Min2(PACKET, Len(wire))} :
        /\ wire' = SubSeq(wire, n + 1, Len(wire))
        /\ rx' = rx_push_slice(SubSeq(wire, 1, n))
        /\ lost' = IF Accepted(n) < n THEN lost \cup {"overrun"} ELSE lost
  BY Zenon DEF poll
<1>3. n \in 0..Len(w)
  <2>1. PICK m \in Nat, q \in Nat : m = Len(w) /\ q = PACKET
    BY SizesAssumption
  <2>2. Min2(q, m) \in 0..m /\ 0 \in 0..m
    BY DEF Min2
  <2>3. n = 0 \/ n = Min2(q, m)
    BY <1>1, <1>2, <2>1, Zenon
  <2> QED
    BY <2>1, <2>2, <2>3, Zenon
<1>4. PICK k \in 0..n : k = Accepted(n) /\ DepthOf(r) + k <= RX_SIZE - 1
  <2>1. n \in Nat
    BY <1>3
  <2>2. Accepted(n) \in 0..n /\ DepthOf(rx) + Accepted(n) <= RX_SIZE - 1
    BY <1>1, <2>1, AcceptedFits
  <2> QED
    BY <1>1, <2>2, Zenon
<1>5. PICK c \in Seq(Bytes) : c = Content(r)
  BY ContentType
<1>6. PacketMoved(c, w, n, k)
  BY <1>3, <1>4, PacketMoves
<1>7. PICK data \in Seq(Bytes), tail \in Seq(Bytes) :
        /\ data = SubSeq(w, 1, n) /\ Len(data) = n /\ tail = SubSeq(w, n + 1, Len(w))
        /\ (c \o SubSeq(data, 1, k)) \o tail \in Seq(Bytes)
        /\ Embeds((c \o SubSeq(data, 1, k)) \o tail, c \o w)
        /\ k = n => (c \o SubSeq(data, 1, k)) \o tail = c \o w
  BY <1>6, Zenon DEF PacketMoved
<1>8. PICK q \in Rings : q = rx' /\ Content(q) = c \o SubSeq(data, 1, k)
  <2>1. k \in 0..Len(data)
    BY <1>4, <1>7
  <2>2. Pushed(r, data, k) \in Rings /\ Content(Pushed(r, data, k)) = Content(r) \o SubSeq(data, 1, k)
    BY <1>4, <2>1, RingPush
  <2>3. rx' = Pushed(r, data, k)
    BY <1>1, <1>2, <1>4, <1>7, Zenon DEF rx_push_slice, Pushed
  <2> QED
    BY <1>5, <2>2, <2>3, Zenon
<1>9. Outstanding' = (c \o SubSeq(data, 1, k)) \o tail
  <2>1. Buffered' = Content(q)
    BY <1>8, Zenon DEF Buffered, rx_depth, Content, DepthOf
  <2>2. wire' = tail
    BY <1>1, <1>2, <1>7, Zenon
  <2> QED
    BY <1>8, <2>1, <2>2, Zenon DEF Outstanding
<1>10. Outstanding = c \o w
  <2>1. Buffered = c
    BY <1>1, <1>5, BufferedIsContent, Zenon
  <2> QED
    BY <1>1, <2>1, Zenon DEF Outstanding
<1>11. lost' \in SUBSET Losses
  <2>1. lost \in SUBSET Losses
    BY Zenon DEF Accounts, Typed
  <2> QED
    BY <1>2, <2>1 DEF Losses
<1>12. lost' = {} => lost = {} /\ k = n
  <2>1. k < n => lost' # {}
    BY <1>2, <1>4
  <2>2. ~ (k < n) => k = n /\ lost' = lost
    BY <1>2, <1>3, <1>4
  <2> QED
    BY <2>1, <2>2, Zenon
<1> QED
  BY <1>1, <1>2, <1>7, <1>8, <1>9, <1>10, <1>11, <1>12, Zenon

LEMMA PollAccounts ==
  ASSUME Accounts, poll
  PROVE  Accounts'
<1>1. /\ tick_counter' = (tick_counter + 1) % TICK_RANGE /\ polls' = polls + 1 /\ polls < MaxPolls
      /\ waiting' = (IF dfu.state = "WaitConfirm" THEN waiting + 1 ELSE 0)
      /\ ~ rebooted
      /\ UNCHANGED <<parser, dfu, rebooted, sent, delivered>>
  BY Zenon DEF poll
<1>2. /\ wire' \in Seq(Bytes) /\ rx' \in Rings /\ lost' \in SUBSET Losses
      /\ Embeds(Outstanding', Outstanding)
      /\ lost' = {} => lost = {} /\ Outstanding' = Outstanding
  BY PollMoves
<1>0. PICK N \in Nat \ {0}, m \in Nat, v \in Nat :
        N = TICK_RANGE /\ m = MaxPolls /\ v = DFU_TIMEOUT_TICKS /\ N > v + m
  BY TicksAssumption
<1>3. PICK t \in 0..(N - 1), p \in 0..m, w \in Nat : t = tick_counter /\ p = polls /\ w = waiting
  BY <1>0 DEF Accounts, Typed, Ticks
<1>4. PICK d \in Dialogues : d = dfu
  BY DEF Accounts, Typed
<1>5. PICK u \in 0..(N - 1) : u = (t + 1) % N
  BY <1>0, <1>3
<1>6. tick_counter' = u
  BY <1>0, <1>1, <1>3, <1>5, Zenon
<1>7. Typed'
  <2>1. tick_counter' \in Ticks
    BY <1>0, <1>3, <1>5, <1>6 DEF Ticks
  <2>2. polls' \in 0..MaxPolls
    BY <1>0, <1>1, <1>3
  <2>3. waiting' \in Nat
    BY <1>0, <1>1, <1>3
  <2> QED
    BY <1>1, <1>2, <2>1, <2>2, <2>3, Zenon DEF Accounts, Typed
<1>8. Traces'
  <2>1. PICK rest \in Seq(Bytes), less \in Seq(Bytes), sq \in Seq(Items), l \in {lost}, j \in {lost'} :
          rest = Outstanding /\ less = Outstanding' /\ sq = sent /\ l = lost /\ j = lost'
    <3>1. Outstanding \in Seq(Bytes)
      BY OutstandingIs, Zenon DEF Accounts, Typed
    <3>2. Outstanding' \in Seq(Bytes)
      <4>1. PICK q \in Rings, x \in Seq(Bytes) : q = rx' /\ x = wire'
        BY <1>2
      <4>2. Content(q) \in Seq(Bytes)
        BY ContentType
      <4>3. Buffered' = Content(q)
        BY <4>1, Zenon DEF Buffered, rx_depth, Content, DepthOf
      <4>4. Content(q) \o x \in Seq(Bytes)
        BY <4>2, ConcatProperties
      <4> QED
        BY <4>1, <4>3, <4>4, Zenon DEF Outstanding
    <3> QED
      BY <3>1, <3>2, Zenon DEF Accounts, Typed
  <2>2. Traced(d, parser, delivered, l, rest, sq)
    BY <1>4, <2>1, Zenon DEF Accounts, Traces
  <2>3. Embeds(less, rest)
    BY <1>2, <2>1, Zenon
  <2>4. j = {} => l = {} /\ less = rest
    BY <1>2, <2>1, Zenon
  <2>5. Traced(d, parser, delivered, j, less, sq)
    BY <2>2, <2>3, <2>4, TracedDrop
  <2> QED
    BY <1>1, <1>4, <2>1, <2>5, Zenon DEF Traces
<1>9. Clock'
  <2> SUFFICES ASSUME dfu'.state = "WaitConfirm"
               PROVE  waiting' = Elapsed(dfu.start_tick)' /\ waiting' <= DFU_TIMEOUT_TICKS + polls'
    BY Zenon DEF Clock
  <2>1. dfu.state = "WaitConfirm" /\ w = Elapsed(dfu.start_tick) /\ w <= v + p
    BY <1>0, <1>1, <1>3, Zenon DEF Accounts, Clock
  <2>2. PICK s \in 0..(N - 1) : s = dfu.start_tick
    BY <1>0, <1>3, <1>4 DEF Dialogues, Ticks
  <2>3. w = (t + N - s) % N
    BY <1>0, <1>3, <2>1, <2>2, Zenon DEF Elapsed
  <2>4. w + 1 < N /\ w + 1 <= v + (p + 1)
    BY <1>0, <1>1, <1>3, <2>1
  <2>5. (u + N - s) % N = w + 1
    BY <1>5, <2>3, <2>4, ElapsedLater
  <2>6. Elapsed(dfu.start_tick)' = w + 1
    BY <1>0, <1>1, <1>3, <1>6, <2>2, <2>5, Zenon DEF Elapsed
  <2> QED
    BY <1>0, <1>1, <1>3, <2>1, <2>4, <2>6, Zenon
<1>10. Answered'
  BY <1>1, Zenon DEF Answered
<1> QED
  BY <1>7, <1>8, <1>9, <1>10, Zenon DEF Accounts

-----------------------------------------------------------------------------
(* A chunk is read.                                                          *)

\* The dialogue after its clock was looked at, before the first byte.
LEMMA BeginningAccounted ==
  ASSUME Accounts, ~ rebooted, NEW s \in Seq(Bytes), NEW rest \in Seq(Bytes),
         Outstanding = s \o rest
  PROVE  Accounted(Beginning, delivered, s \o rest, sent)
<1>1. /\ Beginning.dfu = update_dfu_state /\ Beginning.parser = parser
      /\ Beginning.command = NoCommand /\ Beginning.rebooted = FALSE
      /\ Beginning.lost = lost /\ Beginning.waiting = waiting
  BY DEF Beginning
<1>2. dfu \in Dialogues /\ tick_counter \in Ticks /\ sent \in Seq(Items)
  BY Zenon DEF Accounts, Typed
<1>3. PICK d \in Dialogues : d = update_dfu_state
  BY <1>2, DialogueUpdated
<1>4. Traced(dfu, parser, delivered, lost, s \o rest, sent)
  BY Zenon DEF Accounts, Traces
<1>5. DialogueTraced(d, s \o rest, sent)
  <2>1. PICK t \in Seq(Bytes), k \in Seq(Bytes), all \in Seq(Bytes), r \in Seq(Bytes) :
          t = Trail(dfu) /\ k = Trail(d) /\ all = FlattenSeq(sent) /\ r = s \o rest
    <3>1. Trail(dfu) \in Seq(Bytes) /\ Trail(d) \in Seq(Bytes) /\ FlattenSeq(sent) \in Seq(Bytes)
      BY <1>2, TrailType, SentBytes
    <3>2. s \o rest \in Seq(Bytes)
      BY ConcatProperties
    <3> QED
      BY <3>1, <3>2, Zenon
  <2>2. Embeds(t \o r, all)
    BY <1>4, <2>1, Zenon DEF Traced, DialogueTraced
  <2>3. CASE k = t
    BY <2>1, <2>2, <2>3, Zenon DEF DialogueTraced
  <2>4. CASE k = <<>>
    <3>1. Embeds(k, t) /\ Embeds(r, r)
      BY <2>4, EmptyEmbeds, EmbedsRefl
    <3>2. Embeds(k \o r, t \o r)
      BY <3>1, EmbedsConcat
    <3>3. PICK x \in Seq(Bytes), y \in Seq(Bytes) : x = k \o r /\ y = t \o r
      <4>1. k \o r \in Seq(Bytes)
        BY ConcatProperties
      <4>2. t \o r \in Seq(Bytes)
        BY ConcatProperties
      <4> QED
        BY <4>1, <4>2, Zenon
    <3>4. Embeds(x, all)
      <4>1. Embeds(x, y) /\ Embeds(y, all)
        BY <2>2, <3>2, <3>3, Zenon
      <4> QED
        BY <4>1, EmbedsTrans
    <3> QED
      BY <2>1, <3>3, <3>4, Zenon DEF DialogueTraced
  <2>5. Trail(update_dfu_state) \in {<<>>, Trail(dfu)}
    BY <1>2, DialogueUpdated
  <2>6. k = <<>> \/ k = t
    BY <1>3, <2>1, <2>5, Zenon
  <2> QED
    BY <2>3, <2>4, <2>6
<1>6. Traced(update_dfu_state, parser, delivered, lost, s \o rest, sent)
  BY <1>3, <1>4, <1>5, Zenon DEF Traced
<1>7. Timely(update_dfu_state, waiting)
  <2> SUFFICES ASSUME update_dfu_state.state = "WaitConfirm"
               PROVE  /\ waiting = Elapsed(update_dfu_state.start_tick)
                      /\ waiting <= DFU_TIMEOUT_TICKS
    BY Zenon DEF Timely
  <2>1. /\ dfu.state = "WaitConfirm" /\ update_dfu_state.start_tick = dfu.start_tick
        /\ ~ (Elapsed(dfu.start_tick) > DFU_TIMEOUT_TICKS)
    BY <1>2, DialogueUpdated
  <2>2. waiting = Elapsed(dfu.start_tick) /\ waiting \in Nat
    BY <2>1, Zenon DEF Accounts, Typed, Clock
  <2>3. PICK w \in Nat, v \in Nat : w = waiting /\ v = DFU_TIMEOUT_TICKS
    BY <2>2, TicksAssumption
  <2>4. ~ (w > v)
    BY <2>1, <2>2, <2>3, Zenon
  <2>5. w <= v
    BY <2>4
  <2> QED
    BY <2>1, <2>2, <2>3, <2>5, Zenon
<1>8. Handed(delivered, Beginning) = delivered
  BY <1>1, Zenon DEF Handed
<1> QED
  BY <1>1, <1>6, <1>7, <1>8, Zenon DEF Accounted

LEMMA ReceiveAccounts ==
  ASSUME Accounts, try_recv_command
  PROVE  Accounts'
<1>1. PICK c \in Codes :
        /\ dfu' = AfterChunk(c).dfu /\ parser' = AfterChunk(c).parser
        /\ rebooted' = AfterChunk(c).rebooted /\ lost' = AfterChunk(c).lost
        /\ waiting' = AfterChunk(c).waiting
        /\ delivered' = IF AfterChunk(c).command = NoCommand THEN delivered
                        ELSE Append(delivered, AfterChunk(c).command)
  BY Zenon DEF try_recv_command
<1>2. /\ ~ rebooted /\ rx' = Drained /\ polls' = 0
      /\ UNCHANGED <<wire, tick_counter, sent>>
  BY Zenon DEF try_recv_command
<1>3. Typed
  BY Zenon DEF Accounts
<1>4. PICK s \in Seq(Bytes), q \in Rings, w \in Seq(Bytes), h \in Seq(Bytes) :
        /\ s = Chunk /\ q = Drained /\ w = wire /\ h = Content(q)
        /\ Content(rx) = s \o h
  <2>1. /\ Chunk \in Seq(Bytes) /\ Drained \in Rings /\ Content(Drained) \in Seq(Bytes)
        /\ Content(rx) = Chunk \o Content(Drained)
    BY <1>3, ChunkTaken, Zenon DEF Typed
  <2> QED
    BY <1>3, <2>1, Zenon DEF Typed
<1>5. PICK rest \in Seq(Bytes) : rest = h \o w
  <2>1. h \o w \in Seq(Bytes)
    BY ConcatProperties
  <2> QED
    BY <2>1, Zenon
<1>6. Outstanding = s \o rest
  <2>1. Outstanding = Content(rx) \o wire
    BY <1>3, OutstandingIs, Zenon DEF Typed
  <2>2. Associates(s, h, w)
    BY Association, Zenon
  <2> QED
    BY <1>4, <1>5, <2>1, <2>2, Zenon DEF Associates
<1>7. Outstanding' = rest
  <2>1. Buffered' = Content(q)
    BY <1>2, <1>4, Zenon DEF Buffered, rx_depth, Content, DepthOf
  <2> QED
    BY <1>2, <1>4, <1>5, <2>1, Zenon DEF Outstanding
<1>8. PICK after \in [0..Len(s) -> Progress] :
        /\ after[0] = Beginning
        /\ \A k \in 1..Len(s) : ByteRead(after[k - 1], after[k], s[k])
        /\ AfterChunk(c) = after[Len(s)]
  <2>1. \E after \in [0..Len(Chunk) -> Progress] :
          /\ after[0] = Beginning
          /\ \A k \in 1..Len(Chunk) : ByteRead(after[k - 1], after[k], Chunk[k])
          /\ AfterChunk(c) = after[Len(Chunk)]
    BY <1>3, ChunkRead, Zenon DEF Typed
  <2> QED
    BY <1>4, <2>1, Zenon
<1>9. PICK a \in Progress : a = AfterChunk(c) /\ a = after[Len(s)]
  <2>1. after[Len(s)] \in Progress
    <3>1. PICK n \in Nat : n = Len(s)
      OBVIOUS
    <3>2. PICK f \in [0..n -> Progress] : f = after
      BY <3>1
    <3>3. n \in 0..n
      BY <3>1
    <3>4. f[n] \in Progress
      BY <3>3
    <3> QED
      BY <3>1, <3>2, <3>4, Zenon
  <2> QED
    BY <1>8, <2>1, Zenon
<1>10. Accounted(Beginning, delivered, s \o rest, sent)
  BY <1>2, <1>6, BeginningAccounted
<1>11. PICK sq \in Seq(Items), commands \in Seq(Commands) : sq = sent /\ commands = delivered
  BY <1>3 DEF Typed
<1>12. tick_counter \in Ticks
  BY <1>3, Zenon DEF Typed
<1>13. Accounted(after[Len(s)], commands, rest, sq)
  <2>1. Accounted(after[0], commands, s \o rest, sq)
    BY <1>8, <1>10, <1>11, Zenon
  <2> QED
    BY <1>8, <1>12, <2>1, AccountedChunk
<1>14. Accounted(a, commands, rest, sq)
  BY <1>9, <1>13, Zenon
<1>15. /\ dfu' = a.dfu /\ parser' = a.parser /\ rebooted' = a.rebooted /\ lost' = a.lost
       /\ waiting' = a.waiting /\ delivered' = Handed(commands, a)
  BY <1>1, <1>9, <1>11, Zenon DEF Handed
<1>16. /\ a.dfu \in Dialogues /\ a.parser \in Parsers /\ a.rebooted \in BOOLEAN
       /\ a.lost \in SUBSET Losses /\ a.waiting \in Nat /\ a.command \in Commands
  BY DEF Progress
<1>17. Typed'
  <2>1. Handed(commands, a) \in Seq(Commands)
    BY <1>16 DEF Handed
  <2>2. 0 \in 0..MaxPolls
    BY TicksAssumption
  <2> QED
    BY <1>2, <1>3, <1>4, <1>15, <1>16, <2>1, <2>2, Zenon DEF Typed
<1>18. Traces'
  BY <1>2, <1>7, <1>11, <1>14, <1>15, Zenon DEF Traces, Accounted
<1>19. Elapsed(dfu.start_tick)' = Elapsed(a.dfu.start_tick)
  BY <1>2, <1>15, Zenon DEF Elapsed
<1>20. Timely(a.dfu, a.waiting)
  BY <1>14, Zenon DEF Accounted
<1>21. Clock'
  <2>1. PICK v \in Nat : v = DFU_TIMEOUT_TICKS /\ v + 0 = v
    BY TicksAssumption
  <2> QED
    BY <1>2, <1>15, <1>19, <1>20, <2>1, Zenon DEF Clock, Timely
<1>22. Answered'
  <2> SUFFICES ASSUME rebooted' PROVE Confirmed(dfu)' /\ Elapsed(dfu.start_tick)' <= DFU_TIMEOUT_TICKS
    BY Zenon DEF Answered
  <2>1. Confirmed(a.dfu)
    BY <1>14, <1>15, Zenon DEF Accounted
  <2>2. a.waiting = Elapsed(a.dfu.start_tick) /\ a.waiting <= DFU_TIMEOUT_TICKS
    BY <1>20, <2>1, Zenon DEF Timely, Confirmed
  <2> QED
    BY <1>15, <1>19, <2>1, <2>2, Zenon DEF Confirmed
<1> QED
  BY <1>17, <1>18, <1>21, <1>22, Zenon DEF Accounts

-----------------------------------------------------------------------------
(* The invariant holds, and what it says.                                    *)

LEMMA NextAccounts ==
  Accounts /\ [Next]_vars => Accounts'
<1> SUFFICES ASSUME Accounts, [Next]_vars PROVE Accounts'
  OBVIOUS
<1>1. CASE poll
  BY <1>1, PollAccounts
<1>2. CASE try_recv_command
  BY <1>2, ReceiveAccounts
<1>3. CASE HostSends
  BY <1>3, SendAccounts
<1>4. CASE UNCHANGED vars
  <2>1. /\ wire' = wire /\ rx' = rx /\ parser' = parser /\ dfu' = dfu
        /\ tick_counter' = tick_counter /\ polls' = polls /\ rebooted' = rebooted
        /\ sent' = sent /\ delivered' = delivered /\ lost' = lost /\ waiting' = waiting
    BY <1>4 DEF vars
  <2>2. Typed'
    BY <2>1, Zenon DEF Accounts, Typed
  <2>3. Traces'
    BY <2>1, Zenon DEF Accounts, Traces, Outstanding, Buffered, rx_depth
  <2>4. Clock' /\ Answered'
    BY <2>1, Zenon DEF Accounts, Clock, Answered, Elapsed, Confirmed
  <2> QED
    BY <2>2, <2>3, <2>4, Zenon DEF Accounts
<1> QED
  BY <1>1, <1>2, <1>3, <1>4 DEF Next

LEMMA AccountsAlways == Spec => []Accounts
<1>1. Init => Accounts
  BY InitAccounts
<1>2. Accounts /\ [Next]_vars => Accounts'
  BY NextAccounts
<1> QED
  BY <1>1, <1>2, PTL DEF Spec

\* A sequence can be had from itself with something behind it.
LEMMA FrontEmbeds ==
  ASSUME NEW m \in Seq(Bytes), NEW rest \in Seq(Bytes), NEW all \in Seq(Bytes),
         Embeds(m \o rest, all)
  PROVE  Embeds(m, all)
<1>1. PICK none \in Seq(Bytes) : none = <<>> /\ m \o none = m
  <2>1. <<>> \in Seq(Bytes) /\ m \o <<>> = m
    BY ConcatEmptySeq
  <2> QED
    BY <2>1, Zenon
<1>2. Embeds(none, rest)
  BY <1>1, EmptyEmbeds
<1>3. Embeds(m \o none, all)
  BY <1>2, PrefixKept
<1> QED
  BY <1>1, <1>3, Zenon

LEMMA AccountsTypeOK == Accounts => TypeOK
<1> SUFFICES ASSUME Accounts PROVE TypeOK
  OBVIOUS
<1>1. Typed
  BY Zenon DEF Accounts
<1>2. /\ rx.buf \in [0..(RX_SIZE - 1) -> Bytes]
      /\ rx.head \in 0..(RX_SIZE - 1) /\ rx.tail \in 0..(RX_SIZE - 1)
  BY <1>1 DEF Typed, Rings
<1>3. Len(parser) < HEADER + 3
  BY <1>1, ParserLength, Zenon DEF Typed
<1>4. /\ dfu.state \in {"Idle", "WaitDfu", "WaitConfirm"}
      /\ dfu.idx \in 0..2 /\ Len(dfu.got) <= 2
  BY <1>1 DEF Typed, Dialogues
<1>5. tick_counter \in 0..(TICK_RANGE - 1) /\ lost \subseteq {"eaten", "behind", "overrun"}
  BY <1>1 DEF Typed, Ticks, Losses
<1> QED
  BY <1>1, <1>2, <1>3, <1>4, <1>5, Zenon DEF Typed, TypeOK

LEMMA AccountsDelivered == Accounts => DeliveredWasSent
<1> SUFFICES ASSUME Accounts PROVE DeliveredWasSent
  OBVIOUS
<1>1. PICK sq \in Seq(Items), rest \in Seq(Bytes) : sq = sent /\ rest = Outstanding
  <2>1. Outstanding \in Seq(Bytes)
    BY OutstandingIs, Zenon DEF Accounts, Typed
  <2> QED
    BY <2>1, Zenon DEF Accounts, Typed
<1>2. PICK fs \in Seq(CommandFrames) :
        /\ delivered = Through(Order, fs)
        /\ Embeds(Through(Mark, fs) \o rest, FlattenSeq(sq))
  BY <1>1, Zenon DEF Accounts, Traces, Traced, OrdersTraced
<1>3. PICK m \in Seq(Bytes), all \in Seq(Bytes) : m = Through(Mark, fs) /\ all = FlattenSeq(sq)
  BY MarksAreBytes, SentBytes
<1>4. Embeds(m, all)
  <2>1. Embeds(m \o rest, all)
    BY <1>2, <1>3, Zenon
  <2> QED
    BY <2>1, FrontEmbeds
<1>5. Embeds(Through(Order, fs), CommandsOf(sq))
  <2>1. Embeds(Through(Mark, fs), FlattenSeq(sq))
    BY <1>3, <1>4, Zenon
  <2> QED
    BY <2>1, MarksOfStream
<1>6. PICK given \in Seq(Commands), orders \in Seq(Commands) :
        given = Through(Order, fs) /\ orders = CommandsOf(sq)
  BY MarksAreBytes, RepliesType
<1>7. IsSubsequence(given, orders)
  <2>1. Embeds(given, orders)
    BY <1>5, <1>6, Zenon
  <2> QED
    BY <2>1, EmbedsIsSubsequence
<1> QED
  BY <1>1, <1>2, <1>6, <1>7, Zenon DEF DeliveredWasSent

LEMMA AccountsExplained == Accounts => LossIsExplained
<1> SUFFICES ASSUME Accounts, lost = {}
             PROVE  \E k \in 0..Len(sent) : /\ delivered = CommandsOf(SubSeq(sent, 1, k))
                                            /\ InFlight \in Remainders(k)
  BY Zenon DEF LossIsExplained
<1>1. Explains(sent, delivered, parser \o Outstanding)
  BY Zenon DEF Accounts, Traces, Traced, LossTraced
<1>2. InFlight = parser \o Outstanding
  <2>1. PICK p \in Seq(Bytes), b \in Seq(Bytes), w \in Seq(Bytes) :
          p = parser /\ b = Buffered /\ w = wire
    <3>1. parser \in Seq(Bytes) /\ wire \in Seq(Bytes)
      BY DEF Accounts, Typed, Parsers
    <3>2. Content(rx) \in Seq(Bytes)
      BY OutstandingIs, Zenon DEF Accounts, Typed
    <3> QED
      BY <3>1, <3>2, BufferedIsContent, Zenon
  <2>2. Associates(p, b, w)
    BY Association, Zenon
  <2> QED
    BY <2>1, <2>2, Zenon DEF Associates, InFlight, Outstanding
<1>3. PICK k \in 0..Len(sent) : /\ delivered = CommandsOf(SubSeq(sent, 1, k))
                                /\ parser \o Outstanding \in RemaindersOf(sent, k)
  BY <1>1, Zenon DEF Explains
<1>4. Remainders(k) = RemaindersOf(sent, k)
  BY RemaindersAre
<1> QED
  BY <1>2, <1>3, <1>4, Zenon

LEMMA AccountsReboot == Accounts => RebootDialogue
<1> SUFFICES ASSUME Accounts PROVE RebootDialogue
  OBVIOUS
<1>1. RebootWasConfirmed
  <2> SUFFICES ASSUME rebooted
               PROVE  /\ IsSubsequence(<<"d", "f", "u">> \o dfu.code, FlattenSeq(sent))
                      /\ Elapsed(dfu.start_tick) <= DFU_TIMEOUT_TICKS
    BY Zenon DEF RebootWasConfirmed
  <2>1. Confirmed(dfu) /\ Elapsed(dfu.start_tick) <= DFU_TIMEOUT_TICKS
    BY Zenon DEF Accounts, Answered
  <2>2. Trail(dfu) = <<"d", "f", "u">> \o dfu.code
    BY <2>1 DEF Confirmed, Trail, Word
  <2>3. PICK t \in Seq(Bytes), rest \in Seq(Bytes), all \in Seq(Bytes) :
          t = Trail(dfu) /\ rest = Outstanding /\ all = FlattenSeq(sent)
    <3>1. Outstanding \in Seq(Bytes)
      BY OutstandingIs, Zenon DEF Accounts, Typed
    <3>2. Trail(dfu) \in Seq(Bytes) /\ FlattenSeq(sent) \in Seq(Bytes)
      BY TrailType, SentBytes, Zenon DEF Accounts, Typed
    <3> QED
      BY <3>1, <3>2, Zenon
  <2>4. Embeds(t \o rest, all)
    BY <2>3, Zenon DEF Accounts, Traces, Traced, DialogueTraced
  <2>5. Embeds(t, all)
    BY <2>4, FrontEmbeds
  <2>6. IsSubsequence(t, all)
    BY <2>5, EmbedsIsSubsequence
  <2> QED
    BY <2>1, <2>2, <2>3, <2>6, Zenon
<1>2. ChallengeEnds
  <2> SUFFICES ASSUME dfu.state = "WaitConfirm" PROVE waiting <= DFU_TIMEOUT_TICKS + MaxPolls
    BY Zenon DEF ChallengeEnds
  <2>1. waiting <= DFU_TIMEOUT_TICKS + polls
    BY Zenon DEF Accounts, Clock
  <2>2. waiting \in Nat /\ polls \in 0..MaxPolls
    BY Zenon DEF Accounts, Typed
  <2> QED
    BY <2>1, <2>2, TicksAssumption
<1> QED
  BY <1>1, <1>2, Zenon DEF RebootDialogue

(* The runner is given commands the host sent, each at most once and in      *)
(* order, however the ring overflows, the dialogue eats into a frame or a    *)
(* command cuts off the chunk behind it; and while none of the three has     *)
(* happened nothing is missing (rx_push_slice, feed, try_parse_command).     *)
THEOREM StreamCorrect == Spec => []StreamInv
<1>1. Accounts => StreamInv
  BY AccountsTypeOK, AccountsDelivered, AccountsExplained, Zenon DEF StreamInv
<1> QED
  BY <1>1, AccountsAlways, PTL

(* The board reboots only behind the word and the digits of the code that    *)
(* answers the open challenge, and before that challenge is too old; no      *)
(* challenge stays open (handle_dfu_protocol, update_dfu_state).             *)
THEOREM RebootAnswersChallenge == Spec => []RebootDialogue
<1>1. Accounts => RebootDialogue
  BY AccountsReboot
<1> QED
  BY <1>1, AccountsAlways, PTL

=============================================================================
