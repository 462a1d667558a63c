--------------------------- MODULE QueueTheorems ---------------------------
(***************************************************************************)
(* What the operators of Queues do, for any queue.  What filtering a queue   *)
(* leaves is exactly what is in the set, in its old order, each as often as   *)
(* before.  What one after the other in a queue means, and how it is with a   *)
(* queue that is appended to, joined to another, cut or filtered.  The proofs *)
(* go by the least prefix of the queue of which the claim would fail.         *)
(***************************************************************************)
EXTENDS Queues, SequenceTheorems, WellFoundedInduction, TLAPS

\* Every set of numbers that is not empty has a least element.
LEMMA Least ==
  ASSUME NEW N, N \subseteq Nat, N # {}
  PROVE  \E n \in N : \A m \in N : n <= m
<1>. DEFINE R == OpToRel(<, Nat)
<1>1. IsWellFoundedOn(R, Nat)
  BY NatLessThanWellFounded
<1>2. PICK n \in N : \A m \in N : ~(<<m, n>> \in R)
  <2>. HIDE DEF R
  <2>. QED BY <1>1, WFMin
<1>3. \A m \in N : ~(m < n)
  BY <1>2 DEF OpToRel
<1>. QED BY <1>3

\* A set of numbers with a that has, with any n < m, n + 1 too, has all from a to m.
LEMMA UpwardsFrom ==
  ASSUME NEW N, NEW a \in Nat, NEW m \in Nat, a \in N,
         \A n \in a .. m - 1 : n \in N => n + 1 \in N
  PROVE  a .. m \subseteq N
<1>. DEFINE missing == (a .. m) \ N
<1>1. SUFFICES ASSUME missing # {} PROVE FALSE
  OBVIOUS
<1>2. PICK n \in missing : \A k \in missing : n <= k
  <2>. missing \subseteq Nat
    OBVIOUS
  <2>. HIDE DEF missing
  <2>. QED BY <1>1, Least
<1>3. n # a /\ n - 1 \in a .. m - 1
  OBVIOUS
<1>4. n - 1 \in N
  BY <1>2, <1>3
<1>5. (n - 1) + 1 \in N
  BY <1>3, <1>4
<1>. QED BY <1>5

LEMMA Upwards ==
  ASSUME NEW N, NEW m \in Nat, 0 \in N,
         \A n \in 0 .. m - 1 : n \in N => n + 1 \in N
  PROVE  0 .. m \subseteq N
<1>1. 0 \in Nat
  OBVIOUS
<1>. QED BY <1>1, UpwardsFrom

\* f follows s up to its m-th element.
Follows(f, s, keep, m) ==
  f = [n \in 0 .. m |-> IF n = 0 THEN << >>
                        ELSE IF s[n] \in keep THEN Append(f[n - 1], s[n])
                        ELSE f[n - 1]]

LEMMA FollowsAt ==
  ASSUME NEW f, NEW s, NEW keep, NEW m, Follows(f, s, keep, m), NEW k \in 0 .. m
  PROVE  f[k] = IF k = 0 THEN << >>
                ELSE IF s[k] \in keep THEN Append(f[k - 1], s[k]) ELSE f[k - 1]
<1>. DEFINE g == [n \in 0 .. m |-> IF n = 0 THEN << >>
                                  ELSE IF s[n] \in keep THEN Append(f[n - 1], s[n])
                                  ELSE f[n - 1]]
<1>1. f = g
  BY DEF Follows
<1>2. g[k] = IF k = 0 THEN << >>
             ELSE IF s[k] \in keep THEN Append(f[k - 1], s[k]) ELSE f[k - 1]
  OBVIOUS
<1>. HIDE DEF g
<1>. QED BY <1>1, <1>2

LEMMA Follower ==
  ASSUME NEW s, NEW keep, NEW m \in Nat
  PROVE  \E f : Follows(f, s, keep, m)
<1>. DEFINE N == {n \in Nat : \E f : Follows(f, s, keep, n)}
<1>1. 0 \in N
  <2>. DEFINE f == [n \in 0 .. 0 |-> << >>]
  <2>1. Follows(f, s, keep, 0)
    BY DEF Follows
  <2>. QED BY <2>1
<1>2. ASSUME NEW n \in 0 .. m - 1, n \in N PROVE n + 1 \in N
  <2>1. PICK f : Follows(f, s, keep, n)
    BY <1>2
  <2>. DEFINE g == [k \in 0 .. n + 1 |->
                      IF k <= n THEN f[k]
                      ELSE IF s[k] \in keep THEN Append(f[n], s[k]) ELSE f[n]]
  <2>2. ASSUME NEW k \in 0 .. n + 1
        PROVE  g[k] = IF k = 0 THEN << >>
                      ELSE IF s[k] \in keep THEN Append(g[k - 1], s[k]) ELSE g[k - 1]
    <3>1. CASE k = 0
      BY <2>1, <3>1 DEF Follows
    <3>2. CASE k \in 1 .. n
      <4>1. g[k] = f[k] /\ g[k - 1] = f[k - 1]
        BY <3>2
      <4>2. f[k] = IF k = 0 THEN << >>
                   ELSE IF s[k] \in keep THEN Append(f[k - 1], s[k]) ELSE f[k - 1]
        <5>. k \in 0 .. n
          BY <3>2
        <5>. QED BY <2>1, FollowsAt
      <4>. QED BY <4>1, <4>2
    <3>3. CASE k = n + 1
      BY <3>3
    <3>. QED BY <3>1, <3>2, <3>3
  <2>3. Follows(g, s, keep, n + 1)
    <3>. HIDE DEF g
    <3>1. g = [k \in 0 .. n + 1 |-> g[k]]
      BY DEF g
    <3>. QED BY <2>2, <3>1 DEF Follows
  <2>. QED BY <2>3
<1>3. m \in N
  <2>. HIDE DEF N
  <2>. QED BY <1>1, <1>2, Upwards
<1>. QED BY <1>3

\* f is followed to the end, so SelectIn is some such f at the end.
LEMMA SelectFollows ==
  ASSUME NEW S, NEW s \in Seq(S), NEW keep
  PROVE  \E f : Follows(f, s, keep, Len(s)) /\ SelectIn(s, keep) = f[Len(s)]
<1>. DEFINE f == CHOOSE f : Follows(f, s, keep, Len(s))
<1>1. Follows(f, s, keep, Len(s))
  <2>. Len(s) \in Nat
    OBVIOUS
  <2>. QED BY Follower
<1>2. SelectIn(s, keep) = f[Len(s)]
  BY DEF SelectIn, Follows
<1>. QED BY <1>1, <1>2

\* q holds the elements that the first m elements of s have in keep, at the places
\* e, which go up: in the same order and as often.
Embeds(q, e, s, keep, m) ==
  /\ e \in [1 .. Len(q) -> 1 .. m]
  /\ \A i \in 1 .. Len(q) : q[i] = s[e[i]] /\ q[i] \in keep
  /\ \A i, j \in 1 .. Len(q) : i < j => e[i] < e[j]
  /\ \A k \in 1 .. m : s[k] \in keep => \E i \in 1 .. Len(q) : e[i] = k

\* One more element of s.
LEMMA EmbedsNext ==
  ASSUME NEW S, NEW s \in Seq(S), NEW keep, NEW n \in 0 .. Len(s) - 1,
         NEW q \in Seq(S), NEW e, Embeds(q, e, s, keep, n)
  PROVE  LET r == IF s[n + 1] \in keep THEN Append(q, s[n + 1]) ELSE q
         IN  r \in Seq(S) /\ \E d : Embeds(r, d, s, keep, n + 1)
<1>1. CASE s[n + 1] \notin keep
  <2>1. e \in [1 .. Len(q) -> 1 .. n + 1]
    BY DEF Embeds
  <2>2. \A k \in 1 .. n + 1 : s[k] \in keep => \E i \in 1 .. Len(q) : e[i] = k
    <3>. SUFFICES ASSUME NEW k \in 1 .. n + 1, s[k] \in keep
                  PROVE  \E i \in 1 .. Len(q) : e[i] = k
      OBVIOUS
    <3>1. k \in 1 .. n
      BY <1>1
    <3>. QED BY <3>1 DEF Embeds
  <2>3. Embeds(q, e, s, keep, n + 1)
    BY <2>1, <2>2 DEF Embeds
  <2>. QED BY <1>1, <2>3
<1>2. CASE s[n + 1] \in keep
  <2>. DEFINE r == Append(q, s[n + 1])
              d == [i \in 1 .. Len(q) + 1 |-> IF i <= Len(q) THEN e[i] ELSE n + 1]
  <2>1. s[n + 1] \in S /\ Len(q) \in Nat
    OBVIOUS
  <2>2. /\ r \in Seq(S) /\ Len(r) = Len(q) + 1
        /\ r[Len(q) + 1] = s[n + 1]
        /\ \A i \in 1 .. Len(q) : r[i] = q[i]
    BY <2>1, AppendProperties
  <2>3. /\ d \in [1 .. Len(r) -> 1 .. n + 1]
        /\ d[Len(q) + 1] = n + 1
        /\ \A i \in 1 .. Len(q) : d[i] = e[i] /\ d[i] \in 1 .. n
    <3>1. \A i \in 1 .. Len(q) : e[i] \in 1 .. n
      BY DEF Embeds
    <3>2. d \in [1 .. Len(r) -> 1 .. n + 1]
      BY <2>1, <2>2, <3>1
    <3>3. d[Len(q) + 1] = n + 1
      BY <2>1
    <3>4. \A i \in 1 .. Len(q) : d[i] = e[i]
      BY <2>1
    <3>. QED BY <3>1, <3>2, <3>3, <3>4
  <2>. HIDE DEF r, d
  <2>4. \A i \in 1 .. Len(r) : r[i] = s[d[i]] /\ r[i] \in keep
    <3>. TAKE i \in 1 .. Len(r)
    <3>1. CASE i = Len(q) + 1
      BY <1>2, <2>2, <2>3, <3>1
    <3>2. CASE i \in 1 .. Len(q)
      BY <2>2, <2>3, <3>2 DEF Embeds
    <3>. QED BY <2>1, <2>2, <3>1, <3>2
  <2>5. \A i, j \in 1 .. Len(r) : i < j => d[i] < d[j]
    <3>. SUFFICES ASSUME NEW i \in 1 .. Len(r), NEW j \in 1 .. Len(r), i < j
                  PROVE  d[i] < d[j]
      OBVIOUS
    <3>0. i \in 1 .. Len(q)
      BY <2>1, <2>2
    <3>1. CASE j = Len(q) + 1
      BY <2>3, <3>0, <3>1
    <3>2. CASE j \in 1 .. Len(q)
      BY <2>3, <3>0, <3>2 DEF Embeds
    <3>. QED BY <2>1, <2>2, <3>1, <3>2
  <2>6. \A k \in 1 .. n + 1 : s[k] \in keep => \E i \in 1 .. Len(r) : d[i] = k
    <3>. SUFFICES ASSUME NEW k \in 1 .. n + 1, s[k] \in keep
                  PROVE  \E i \in 1 .. Len(r) : d[i] = k
      OBVIOUS
    <3>1. CASE k = n + 1
      <4>. Len(q) + 1 \in 1 .. Len(r)
        BY <2>1, <2>2
      <4>. QED BY <2>3, <3>1
    <3>2. CASE k \in 1 .. n
      <4>1. PICK i \in 1 .. Len(q) : e[i] = k
        BY <3>2 DEF Embeds
      <4>. i \in 1 .. Len(r)
        BY <2>1, <2>2
      <4>. QED BY <2>3, <4>1
    <3>. QED BY <3>1, <3>2
  <2>7. Embeds(r, d, s, keep, n + 1)
    BY <2>3, <2>4, <2>5, <2>6 DEF Embeds
  <2>8. r = IF s[n + 1] \in keep THEN Append(q, s[n + 1]) ELSE q
    BY <1>2 DEF r
  <2>. QED BY <2>2, <2>7, <2>8
<1>. QED BY <1>1, <1>2

\* The filtered queue is the part of s that is in keep.
LEMMA SelectEmbeds ==
  ASSUME NEW S, NEW s \in Seq(S), NEW keep
  PROVE  SelectIn(s, keep) \in Seq(S) /\ \E e : Embeds(SelectIn(s, keep), e, s, keep, Len(s))
<1>1. PICK f : Follows(f, s, keep, Len(s)) /\ SelectIn(s, keep) = f[Len(s)]
  BY SelectFollows
<1>. DEFINE N == {n \in 0 .. Len(s) : f[n] \in Seq(S) /\ \E e : Embeds(f[n], e, s, keep, n)}
<1>2. 0 \in N
  <2>1. f[0] = << >>
    BY <1>1, FollowsAt
  <2>2. Embeds(<< >>, << >>, s, keep, 0)
    BY DEF Embeds
  <2>3. 0 \in 0 .. Len(s) /\ << >> \in Seq(S)
    BY EmptySeq
  <2>. QED BY <2>1, <2>2, <2>3
<1>3. ASSUME NEW n \in 0 .. Len(s) - 1, n \in N PROVE n + 1 \in N
  <2>1. PICK e : f[n] \in Seq(S) /\ Embeds(f[n], e, s, keep, n)
    BY <1>3
  <2>2. f[n + 1] = IF s[n + 1] \in keep THEN Append(f[n], s[n + 1]) ELSE f[n]
    <3>1. n + 1 \in 0 .. Len(s) /\ n + 1 # 0 /\ (n + 1) - 1 = n
      OBVIOUS
    <3>2. f[n + 1] = IF n + 1 = 0 THEN << >>
                     ELSE IF s[n + 1] \in keep THEN Append(f[(n + 1) - 1], s[n + 1])
                     ELSE f[(n + 1) - 1]
      BY <1>1, <3>1, FollowsAt
    <3>. QED BY <3>1, <3>2
  <2>3. f[n + 1] \in Seq(S) /\ \E d : Embeds(f[n + 1], d, s, keep, n + 1)
    <3>. HIDE DEF N
    <3>. QED BY <2>1, <2>2, EmbedsNext
  <2>. QED BY <2>3
<1>4. Len(s) \in N
  <2>1. Len(s) \in Nat /\ Len(s) \in 0 .. Len(s)
    OBVIOUS
  <2>. HIDE DEF N
  <2>2. 0 .. Len(s) \subseteq N
    BY <1>2, <1>3, <2>1, Upwards
  <2>. QED BY <2>1, <2>2
<1>. QED BY <1>1, <1>4

----------------------------------------------------------------------------
(* What the proofs about the services use. *)

LEMMA SelectSet ==
  ASSUME NEW S, NEW s \in Seq(S), NEW keep
  PROVE  /\ SelectIn(s, keep) \in Seq(S)
         /\ ToSet(SelectIn(s, keep)) = ToSet(s) \intersect keep
<1>. DEFINE q == SelectIn(s, keep)
<1>1. PICK e : q \in Seq(S) /\ Embeds(q, e, s, keep, Len(s))
  BY SelectEmbeds
<1>. HIDE DEF q
<1>2. DOMAIN q = 1 .. Len(q) /\ DOMAIN s = 1 .. Len(s)
  BY <1>1
<1>3. ToSet(q) \subseteq ToSet(s) \intersect keep
  BY <1>1, <1>2 DEF Embeds, ToSet
<1>4. ASSUME NEW x \in ToSet(s) \intersect keep PROVE x \in ToSet(q)
  <2>1. PICK k \in 1 .. Len(s) : s[k] = x
    BY <1>2, <1>4 DEF ToSet
  <2>2. PICK i \in 1 .. Len(q) : e[i] = k
    BY <1>1, <1>4, <2>1 DEF Embeds
  <2>. QED BY <1>1, <1>2, <2>1, <2>2 DEF Embeds, ToSet
<1>. QED BY <1>1, <1>3, <1>4 DEF q

LEMMA SelectInjective ==
  ASSUME NEW S, NEW s \in Seq(S), NEW keep, IsInjective(s)
  PROVE  IsInjective(SelectIn(s, keep))
<1>. DEFINE q == SelectIn(s, keep)
<1>1. PICK e : q \in Seq(S) /\ Embeds(q, e, s, keep, Len(s))
  BY SelectEmbeds
<1>. HIDE DEF q
<1>2. ASSUME NEW i \in 1 .. Len(q), NEW j \in 1 .. Len(q), q[i] = q[j] PROVE i = j
  <2>1. e[i] = e[j]
    BY <1>1, <1>2 DEF Embeds, IsInjective
  <2>. QED BY <1>1, <2>1 DEF Embeds
<1>. QED BY <1>1, <1>2 DEF q, IsInjective

\* x is somewhere before y.
Before(s, x, y) == \E i, j \in DOMAIN s : i < j /\ s[i] = x /\ s[j] = y

LEMMA SelectOrder ==
  ASSUME NEW S, NEW s \in Seq(S), NEW keep, NEW x, NEW y, Before(SelectIn(s, keep), x, y)
  PROVE  Before(s, x, y)
<1>. DEFINE q == SelectIn(s, keep)
<1>1. PICK e : q \in Seq(S) /\ Embeds(q, e, s, keep, Len(s))
  BY SelectEmbeds
<1>2. PICK i \in 1 .. Len(q), j \in 1 .. Len(q) : i < j /\ q[i] = x /\ q[j] = y
  BY <1>1 DEF Before
<1>. HIDE DEF q
<1>3. e[i] < e[j] /\ s[e[i]] = x /\ s[e[j]] = y
  BY <1>1, <1>2 DEF Embeds
<1>4. e[i] \in DOMAIN s /\ e[j] \in DOMAIN s
  BY <1>1, <1>2 DEF Embeds
<1>. QED BY <1>3, <1>4 DEF Before

LEMMA SelectHead ==
  ASSUME NEW S, NEW s \in Seq(S), NEW keep, s # << >>, Head(s) \in keep
  PROVE  SelectIn(s, keep) # << >> /\ Head(SelectIn(s, keep)) = Head(s)
<1>. DEFINE q == SelectIn(s, keep)
<1>1. PICK e : q \in Seq(S) /\ Embeds(q, e, s, keep, Len(s))
  BY SelectEmbeds
<1>. HIDE DEF q
<1>2. Head(s) = s[1] /\ 1 \in 1 .. Len(s) /\ Len(q) \in Nat
  BY <1>1
<1>3. PICK i \in 1 .. Len(q) : e[i] = 1
  BY <1>1, <1>2 DEF Embeds
<1>4. i = 1
  BY <1>1, <1>2, <1>3 DEF Embeds
<1>5. q # << >> /\ Head(q) = q[1]
  BY <1>1, <1>3
<1>. QED BY <1>1, <1>2, <1>3, <1>4, <1>5 DEF Embeds, q

LEMMA EmptySet == ToSet(<< >>) = {}
  BY DEF ToSet

LEMMA AppendSet ==
  ASSUME NEW S, NEW s \in Seq(S), NEW x \in S
  PROVE  /\ Append(s, x) \in Seq(S)
         /\ ToSet(Append(s, x)) = ToSet(s) \union {x}
         /\ IsInjective(s) /\ x \notin ToSet(s) => IsInjective(Append(s, x))
<1>. DEFINE q == Append(s, x)
<1>1. /\ q \in Seq(S) /\ DOMAIN q = 1 .. Len(s) + 1 /\ q[Len(s) + 1] = x
      /\ \A i \in 1 .. Len(s) : q[i] = s[i]
      /\ DOMAIN s = 1 .. Len(s) /\ Len(s) \in Nat
  BY AppendProperties
<1>. HIDE DEF q
<1>2. ToSet(q) = ToSet(s) \union {x}
  <2>1. ToSet(s) \union {x} \subseteq ToSet(q)
    <3>1. Len(s) + 1 \in DOMAIN q /\ \A i \in DOMAIN s : i \in DOMAIN q
      BY <1>1
    <3>. QED BY <1>1, <3>1 DEF ToSet
  <2>2. \A i \in DOMAIN q : q[i] \in ToSet(s) \union {x}
    <3>1. \A i \in DOMAIN q : i \in DOMAIN s \/ i = Len(s) + 1
      BY <1>1
    <3>. QED BY <1>1, <3>1 DEF ToSet
  <2>. QED BY <2>1, <2>2 DEF ToSet
<1>3. ASSUME IsInjective(s), x \notin ToSet(s),
             NEW i \in DOMAIN q, NEW j \in DOMAIN q, q[i] = q[j]
      PROVE  i = j
  <2>1. \A k \in 1 .. Len(s) : q[k] # x
    BY <1>1, <1>3 DEF ToSet
  <2>2. i \in 1 .. Len(s) <=> j \in 1 .. Len(s)
    BY <1>1, <1>3, <2>1
  <2>. QED BY <1>1, <1>3, <2>2 DEF IsInjective
<1>. QED BY <1>1, <1>2, <1>3 DEF q, IsInjective

LEMMA ConcatSet ==
  ASSUME NEW S, NEW s \in Seq(S), NEW t \in Seq(S)
  PROVE  s \o t \in Seq(S) /\ ToSet(s \o t) = ToSet(s) \union ToSet(t)
<1>. DEFINE q == s \o t
<1>1. /\ q \in Seq(S) /\ DOMAIN q = 1 .. Len(s) + Len(t)
      /\ \A i \in 1 .. Len(s) + Len(t) : q[i] = IF i <= Len(s) THEN s[i] ELSE t[i - Len(s)]
      /\ DOMAIN s = 1 .. Len(s) /\ DOMAIN t = 1 .. Len(t) /\ Len(s) \in Nat /\ Len(t) \in Nat
  BY ConcatProperties
<1>. HIDE DEF q
<1>2. \A i \in DOMAIN q : q[i] \in ToSet(s) \union ToSet(t)
  <2>. TAKE i \in DOMAIN q
  <2>1. CASE i <= Len(s)
    BY <1>1, <2>1 DEF ToSet
  <2>2. CASE i > Len(s)
    <3>1. i - Len(s) \in DOMAIN t /\ q[i] = t[i - Len(s)]
      BY <1>1, <2>2
    <3>. QED BY <3>1 DEF ToSet
  <2>. QED BY <1>1, <2>1, <2>2
<1>3. ToSet(s) \subseteq ToSet(q)
  BY <1>1 DEF ToSet
<1>4. ToSet(t) \subseteq ToSet(q)
  <2>1. \A i \in DOMAIN t : i + Len(s) \in DOMAIN q /\ q[i + Len(s)] = t[i]
    BY <1>1
  <2>. QED BY <2>1 DEF ToSet
<1>. QED BY <1>1, <1>2, <1>3, <1>4 DEF ToSet, q

LEMMA TailSet ==
  ASSUME NEW S, NEW s \in Seq(S), s # << >>
  PROVE  /\ Head(s) \in S /\ Tail(s) \in Seq(S)
         /\ ToSet(s) = {Head(s)} \union ToSet(Tail(s))
         /\ IsInjective(s) => IsInjective(Tail(s)) /\ Head(s) \notin ToSet(Tail(s))
<1>. DEFINE q == Tail(s)
<1>1. /\ q \in Seq(S) /\ DOMAIN q = 1 .. Len(s) - 1 /\ Head(s) \in S /\ Head(s) = s[1]
      /\ \A i \in 1 .. Len(s) - 1 : q[i] = s[i + 1]
      /\ DOMAIN s = 1 .. Len(s) /\ Len(s) \in Nat \ {0}
  BY HeadTailProperties
<1>. HIDE DEF q
<1>2. \A i \in DOMAIN s : s[i] = Head(s) \/ s[i] \in ToSet(q)
  <2>. TAKE i \in DOMAIN s
  <2>1. CASE i = 1
    BY <1>1, <2>1
  <2>2. CASE i # 1
    <3>1. i - 1 \in DOMAIN q /\ q[i - 1] = s[i]
      BY <1>1, <2>2
    <3>. QED BY <3>1 DEF ToSet
  <2>. QED BY <2>1, <2>2
<1>3. {Head(s)} \union ToSet(q) \subseteq ToSet(s)
  <2>1. 1 \in DOMAIN s /\ \A i \in DOMAIN q : i + 1 \in DOMAIN s /\ q[i] = s[i + 1]
    BY <1>1
  <2>. QED BY <1>1, <2>1 DEF ToSet
<1>4. ASSUME IsInjective(s) PROVE IsInjective(q) /\ Head(s) \notin ToSet(q)
  <2>1. \A i \in DOMAIN q : q[i] # Head(s)
    BY <1>1, <1>4 DEF IsInjective
  <2>2. \A i, j \in DOMAIN q : q[i] = q[j] => i = j
    <3>. SUFFICES ASSUME NEW i \in DOMAIN q, NEW j \in DOMAIN q, q[i] = q[j]
                  PROVE  i = j
      OBVIOUS
    <3>1. i + 1 \in DOMAIN s /\ j + 1 \in DOMAIN s /\ s[i + 1] = s[j + 1]
      BY <1>1
    <3>2. i + 1 = j + 1
      BY <1>4, <3>1 DEF IsInjective
    <3>. QED BY <1>1, <3>2
  <2>. QED BY <2>1, <2>2 DEF IsInjective, ToSet
<1>. QED BY <1>1, <1>2, <1>3, <1>4 DEF ToSet, q

\* Removing the i-th entry of a queue, as pendingTurns.splice(i, 1) does.
LEMMA RemoveProperties ==
  ASSUME NEW S, NEW s \in Seq(S), NEW i \in 1 .. Len(s)
  PROVE  LET r == SubSeq(s, 1, i - 1) \o SubSeq(s, i + 1, Len(s))
         IN  /\ r \in Seq(S)
             /\ Len(r) = Len(s) - 1
             /\ \A j \in 1 .. (Len(s) - 1) : r[j] = IF j < i THEN s[j] ELSE s[j + 1]
<1> DEFINE a == SubSeq(s, 1, i - 1)
           b == SubSeq(s, i + 1, Len(s))
<1>1. Len(s) \in Nat /\ \A j \in 1 .. Len(s) : s[j] \in S
  BY LenProperties
<1>2. a \in Seq(S) /\ Len(a) = i - 1 /\ \A j \in 1 .. (i - 1) : a[j] = s[j]
  <2>1. /\ a \in Seq(S)
        /\ Len(a) = IF 1 <= i - 1 THEN (i - 1) - 1 + 1 ELSE 0
        /\ \A j \in 1 .. ((i - 1) - 1 + 1) : a[j] = s[1 + j - 1]
    BY <1>1, SubSeqProperties, \A j \in 1 .. (i - 1) : s[j] \in S
  <2> QED
    BY <1>1, <2>1
<1>3. b \in Seq(S) /\ Len(b) = Len(s) - i /\ \A j \in 1 .. (Len(s) - i) : b[j] = s[i + j]
  <2>1. /\ b \in Seq(S)
        /\ Len(b) = IF i + 1 <= Len(s) THEN Len(s) - (i + 1) + 1 ELSE 0
        /\ \A j \in 1 .. (Len(s) - (i + 1) + 1) : b[j] = s[(i + 1) + j - 1]
    BY <1>1, SubSeqProperties, \A j \in (i + 1) .. Len(s) : s[j] \in S
  <2> QED
    BY <1>1, <2>1
<1> HIDE DEF a, b
<1>4. /\ a \o b \in Seq(S)
      /\ Len(a \o b) = Len(a) + Len(b)
      /\ \A j \in 1 .. (Len(a) + Len(b)) :
           (a \o b)[j] = IF j <= Len(a) THEN a[j] ELSE b[j - Len(a)]
  BY <1>2, <1>3, ConcatProperties
<1>5. Len(a) + Len(b) = Len(s) - 1
  BY <1>1, <1>2, <1>3
<1>6. ASSUME NEW j \in 1 .. (Len(s) - 1)
      PROVE  (a \o b)[j] = IF j < i THEN s[j] ELSE s[j + 1]
  <2>1. (a \o b)[j] = IF j <= i - 1 THEN a[j] ELSE b[j - (i - 1)]
    BY <1>2, <1>4, <1>5
  <2>2. CASE j < i
    <3>1. j \in 1 .. (i - 1)
      BY <1>1, <2>2
    <3> QED
      BY <1>2, <2>1, <2>2, <3>1
  <2>3. CASE ~(j < i)
    <3>1. j - (i - 1) \in 1 .. (Len(s) - i) /\ i + (j - (i - 1)) = j + 1
      BY <1>1, <2>3
    <3>2. b[j - (i - 1)] = s[j + 1]
      BY <1>3, <3>1
    <3> QED
      BY <1>1, <2>1, <2>3, <3>2
  <2> QED
    BY <2>2, <2>3
<1> QED
  BY <1>4, <1>5, <1>6 DEF a, b

LEMMA RemoveSet ==
  ASSUME NEW S, NEW s \in Seq(S), IsInjective(s), NEW i \in 1 .. Len(s)
  PROVE  LET r == SubSeq(s, 1, i - 1) \o SubSeq(s, i + 1, Len(s))
         IN  r \in Seq(S) /\ IsInjective(r) /\ ToSet(r) = ToSet(s) \ {s[i]}
<1>. DEFINE r == SubSeq(s, 1, i - 1) \o SubSeq(s, i + 1, Len(s))
<1>1. /\ r \in Seq(S) /\ Len(r) = Len(s) - 1
      /\ \A j \in 1 .. (Len(s) - 1) : r[j] = IF j < i THEN s[j] ELSE s[j + 1]
  BY RemoveProperties
<1>. HIDE DEF r
<1>2. /\ DOMAIN r = 1 .. Len(s) - 1 /\ DOMAIN s = 1 .. Len(s) /\ Len(s) \in Nat \ {0}
  BY <1>1
<1>3. IsInjective(r)
  <2>. SUFFICES ASSUME NEW j \in DOMAIN r, NEW k \in DOMAIN r, r[j] = r[k]
                PROVE  j = k
    BY DEF IsInjective
  <2>. DEFINE old(m) == IF m < i THEN m ELSE m + 1
  <2>1. r[j] = s[old(j)] /\ old(j) \in DOMAIN s
    BY <1>1, <1>2
  <2>2. r[k] = s[old(k)] /\ old(k) \in DOMAIN s
    BY <1>1, <1>2
  <2>3. old(j) = old(k)
    <3>. HIDE DEF old
    <3>. QED BY <2>1, <2>2 DEF IsInjective
  <2>. QED BY <1>2, <2>3
<1>4. \A j \in DOMAIN r : r[j] \in ToSet(s) \ {s[i]}
  <2>. TAKE j \in DOMAIN r
  <2>1. PICK k \in DOMAIN s : k # i /\ r[j] = s[k]
    <3>1. CASE j < i
      BY <1>1, <1>2, <3>1
    <3>2. CASE ~(j < i)
      <4>1. j + 1 \in DOMAIN s /\ j + 1 # i /\ r[j] = s[j + 1]
        BY <1>1, <1>2, <3>2
      <4>. QED BY <4>1
    <3>. QED BY <3>1, <3>2
  <2>. QED BY <1>2, <2>1 DEF IsInjective, ToSet
<1>5. \A k \in DOMAIN s : k # i => s[k] \in ToSet(r)
  <2>. SUFFICES ASSUME NEW k \in DOMAIN s, k # i PROVE \E j \in DOMAIN r : r[j] = s[k]
    BY DEF ToSet
  <2>1. CASE k < i
    BY <1>1, <1>2, <2>1
  <2>2. CASE i < k
    <3>1. k - 1 \in DOMAIN r /\ r[k - 1] = s[k]
      BY <1>1, <1>2, <2>2
    <3>. QED BY <3>1
  <2>. QED BY <1>2, <2>1, <2>2
<1>6. ToSet(r) \subseteq ToSet(s) \ {s[i]} /\ ToSet(s) \ {s[i]} \subseteq ToSet(r)
  BY <1>2, <1>4, <1>5 DEF ToSet
<1>. QED BY <1>1, <1>3, <1>6 DEF r

----------------------------------------------------------------------------
(* The order of a queue. *)

LEMMA BeforeIsAntisymmetric ==
  ASSUME NEW S, NEW s \in Seq(S), IsInjective(s), NEW x, NEW y, Before(s, x, y)
  PROVE  ~Before(s, y, x)
<1>1. SUFFICES ASSUME Before(s, y, x) PROVE FALSE
  OBVIOUS
<1>2. PICK i \in DOMAIN s, j \in DOMAIN s : i < j /\ s[i] = x /\ s[j] = y
  BY DEF Before
<1>3. PICK k \in DOMAIN s, m \in DOMAIN s : k < m /\ s[k] = y /\ s[m] = x
  BY <1>1 DEF Before
<1>4. i = m /\ j = k
  BY <1>2, <1>3 DEF IsInjective
<1>. QED BY <1>2, <1>3, <1>4

LEMMA BeforeAppend ==
  ASSUME NEW S, NEW s \in Seq(S), NEW z \in S, NEW x, NEW y
  PROVE  Before(Append(s, z), x, y) <=> Before(s, x, y) \/ (y = z /\ x \in ToSet(s))
<1>. DEFINE q == Append(s, z)
<1>1. /\ DOMAIN q = 1 .. Len(s) + 1 /\ q[Len(s) + 1] = z
      /\ \A i \in 1 .. Len(s) : q[i] = s[i]
      /\ DOMAIN s = 1 .. Len(s) /\ Len(s) \in Nat
  BY AppendProperties
<1>. HIDE DEF q
<1>2. ASSUME Before(q, x, y) PROVE Before(s, x, y) \/ (y = z /\ x \in ToSet(s))
  <2>1. PICK i \in DOMAIN q, j \in DOMAIN q : i < j /\ q[i] = x /\ q[j] = y
    BY <1>2 DEF Before
  <2>2. i \in DOMAIN s /\ s[i] = x
    BY <1>1, <2>1
  <2>3. CASE j \in DOMAIN s
    <3>1. s[j] = y
      BY <1>1, <2>1, <2>3
    <3>. QED BY <2>1, <2>2, <2>3, <3>1 DEF Before
  <2>4. CASE j = Len(s) + 1
    BY <1>1, <2>1, <2>2, <2>4 DEF ToSet
  <2>. QED BY <1>1, <2>3, <2>4
<1>3. ASSUME Before(s, x, y) PROVE Before(q, x, y)
  <2>1. PICK i \in DOMAIN s, j \in DOMAIN s : i < j /\ s[i] = x /\ s[j] = y
    BY <1>3 DEF Before
  <2>2. i \in DOMAIN q /\ j \in DOMAIN q /\ q[i] = x /\ q[j] = y
    BY <1>1, <2>1
  <2>. QED BY <2>1, <2>2 DEF Before
<1>4. ASSUME y = z, x \in ToSet(s) PROVE Before(q, x, y)
  <2>1. PICK i \in DOMAIN s : s[i] = x
    BY <1>4 DEF ToSet
  <2>2. i \in DOMAIN q /\ Len(s) + 1 \in DOMAIN q /\ i < Len(s) + 1 /\ q[i] = x /\ q[Len(s) + 1] = y
    BY <1>1, <1>4, <2>1
  <2>. QED BY <2>2 DEF Before
<1>. QED BY <1>2, <1>3, <1>4 DEF q

LEMMA BeforeTail ==
  ASSUME NEW S, NEW s \in Seq(S), s # << >>
  PROVE  /\ \A x, y : Before(Tail(s), x, y) => Before(s, x, y)
         /\ \A y \in ToSet(Tail(s)) : Before(s, Head(s), y)
<1>. DEFINE q == Tail(s)
<1>1. /\ DOMAIN q = 1 .. Len(s) - 1 /\ Head(s) = s[1]
      /\ \A i \in 1 .. Len(s) - 1 : q[i] = s[i + 1]
      /\ DOMAIN s = 1 .. Len(s) /\ Len(s) \in Nat \ {0}
  BY HeadTailProperties
<1>. HIDE DEF q
<1>2. ASSUME NEW x, NEW y, Before(q, x, y) PROVE Before(s, x, y)
  <2>1. PICK i \in DOMAIN q, j \in DOMAIN q : i < j /\ q[i] = x /\ q[j] = y
    BY <1>2 DEF Before
  <2>2. /\ i + 1 \in DOMAIN s /\ j + 1 \in DOMAIN s /\ i + 1 < j + 1
        /\ s[i + 1] = x /\ s[j + 1] = y
    BY <1>1, <2>1
  <2>. QED BY <2>2 DEF Before
<1>3. ASSUME NEW y \in ToSet(q) PROVE Before(s, Head(s), y)
  <2>1. PICK i \in DOMAIN q : q[i] = y
    BY <1>3 DEF ToSet
  <2>2. 1 \in DOMAIN s /\ i + 1 \in DOMAIN s /\ 1 < i + 1 /\ s[i + 1] = y
    BY <1>1, <2>1
  <2>. QED BY <1>1, <2>2 DEF Before
<1>. QED BY <1>2, <1>3 DEF q

LEMMA NothingBefore == \A x, y : ~Before(<< >>, x, y)
  BY DEF Before

\* What comes first in a queue that is joined from two.
LEMMA BeforeConcat ==
  ASSUME NEW S, NEW s \in Seq(S), NEW t \in Seq(S), NEW x, NEW y
  PROVE  Before(s \o t, x, y) <=> \/ Before(s, x, y) \/ Before(t, x, y)
                                  \/ x \in ToSet(s) /\ y \in ToSet(t)
<1>. DEFINE q == s \o t
<1>1. /\ DOMAIN q = 1 .. Len(s) + Len(t)
      /\ \A i \in 1 .. Len(s) + Len(t) : q[i] = IF i <= Len(s) THEN s[i] ELSE t[i - Len(s)]
      /\ DOMAIN s = 1 .. Len(s) /\ DOMAIN t = 1 .. Len(t) /\ Len(s) \in Nat /\ Len(t) \in Nat
  <2>1. q \in Seq(S) /\ Len(q) = Len(s) + Len(t)
    BY ConcatProperties
  <2>2. \A i \in 1 .. Len(s) + Len(t) : q[i] = IF i <= Len(s) THEN s[i] ELSE t[i - Len(s)]
    BY ConcatProperties
  <2>. HIDE DEF q
  <2>. QED BY <2>1, <2>2
<1>. HIDE DEF q
<1>2. ASSUME Before(q, x, y)
      PROVE  Before(s, x, y) \/ Before(t, x, y) \/ (x \in ToSet(s) /\ y \in ToSet(t))
  <2>1. PICK i \in DOMAIN q, j \in DOMAIN q : i < j /\ q[i] = x /\ q[j] = y
    BY <1>2 DEF Before
  <2>2. CASE j <= Len(s)
    <3>1. i \in DOMAIN s /\ j \in DOMAIN s /\ s[i] = x /\ s[j] = y
      BY <1>1, <2>1, <2>2
    <3>. QED BY <2>1, <3>1 DEF Before
  <2>3. CASE Len(s) < i
    <3>1. i - Len(s) \in DOMAIN t /\ j - Len(s) \in DOMAIN t /\ i - Len(s) < j - Len(s)
      BY <1>1, <2>1, <2>3
    <3>2. t[i - Len(s)] = x /\ t[j - Len(s)] = y
      BY <1>1, <2>1, <2>3
    <3>. QED BY <3>1, <3>2 DEF Before
  <2>4. CASE i <= Len(s) /\ Len(s) < j
    <3>1. i \in DOMAIN s /\ s[i] = x /\ j - Len(s) \in DOMAIN t /\ t[j - Len(s)] = y
      BY <1>1, <2>1, <2>4
    <3>. QED BY <3>1 DEF ToSet
  <2>. QED BY <1>1, <2>1, <2>2, <2>3, <2>4
<1>3. ASSUME Before(s, x, y) PROVE Before(q, x, y)
  <2>1. PICK i \in DOMAIN s, j \in DOMAIN s : i < j /\ s[i] = x /\ s[j] = y
    BY <1>3 DEF Before
  <2>2. i \in DOMAIN q /\ j \in DOMAIN q /\ q[i] = x /\ q[j] = y
    BY <1>1, <2>1
  <2>. QED BY <2>1, <2>2 DEF Before
<1>4. ASSUME Before(t, x, y) PROVE Before(q, x, y)
  <2>1. PICK i \in DOMAIN t, j \in DOMAIN t : i < j /\ t[i] = x /\ t[j] = y
    BY <1>4 DEF Before
  <2>2. /\ Len(s) + i \in DOMAIN q /\ Len(s) + j \in DOMAIN q /\ Len(s) + i < Len(s) + j
        /\ q[Len(s) + i] = x /\ q[Len(s) + j] = y
    BY <1>1, <2>1
  <2>. QED BY <2>2 DEF Before
<1>5. ASSUME x \in ToSet(s), y \in ToSet(t) PROVE Before(q, x, y)
  <2>1. PICK i \in DOMAIN s, j \in DOMAIN t : s[i] = x /\ t[j] = y
    BY <1>5 DEF ToSet
  <2>2. /\ i \in DOMAIN q /\ Len(s) + j \in DOMAIN q /\ i < Len(s) + j
        /\ q[i] = x /\ q[Len(s) + j] = y
    BY <1>1, <2>1
  <2>. QED BY <2>2 DEF Before
<1>. QED BY <1>2, <1>3, <1>4, <1>5 DEF q

\* Of two elements of a queue without repetitions one comes first.
LEMMA BeforeIsTotal ==
  ASSUME NEW S, NEW s \in Seq(S), NEW x \in ToSet(s), NEW y \in ToSet(s), x # y
  PROVE  Before(s, x, y) \/ Before(s, y, x)
<1>1. PICK i \in DOMAIN s, j \in DOMAIN s : s[i] = x /\ s[j] = y
  BY DEF ToSet
<1>2. i \in Nat /\ j \in Nat /\ i # j
  BY <1>1
<1>3. i < j \/ j < i
  BY <1>2
<1>. QED BY <1>1, <1>3 DEF Before

LEMMA BeforeIsOfElements ==
  ASSUME NEW s, NEW x, NEW y, Before(s, x, y)
  PROVE  x \in ToSet(s) /\ y \in ToSet(s)
  BY DEF Before, ToSet

\* What is kept of a queue keeps its order.
LEMMA SelectKeepsOrder ==
  ASSUME NEW S, NEW s \in Seq(S), NEW keep, NEW x \in keep, NEW y \in keep, Before(s, x, y)
  PROVE  Before(SelectIn(s, keep), x, y)
<1>. DEFINE q == SelectIn(s, keep)
<1>1. PICK e : q \in Seq(S) /\ Embeds(q, e, s, keep, Len(s))
  BY SelectEmbeds
<1>. HIDE DEF q
<1>2. PICK i \in 1 .. Len(s), j \in 1 .. Len(s) : i < j /\ s[i] = x /\ s[j] = y
  BY DEF Before
<1>3. PICK a \in 1 .. Len(q), b \in 1 .. Len(q) : e[a] = i /\ e[b] = j
  BY <1>1, <1>2 DEF Embeds
<1>4. q[a] = x /\ q[b] = y
  BY <1>1, <1>2, <1>3 DEF Embeds
<1>5. a < b
  <2>1. a # b
    BY <1>2, <1>3
  <2>2. ~(b < a)
    <3>1. b < a => j < i
      BY <1>1, <1>3 DEF Embeds
    <3>. QED BY <1>2, <3>1
  <2>. QED BY <2>1, <2>2
<1>6. a \in DOMAIN q /\ b \in DOMAIN q
  BY <1>1
<1>7. Before(q, x, y)
  BY <1>4, <1>5, <1>6 DEF Before
<1>. QED BY <1>7 DEF q

\* Two sets that agree on the queue keep the same of it.
LEMMA SelectSame ==
  ASSUME NEW S, NEW s \in Seq(S), NEW keep, NEW also,
         \A x \in ToSet(s) : x \in keep <=> x \in also
  PROVE  SelectIn(s, keep) = SelectIn(s, also)
<1>1. PICK f : Follows(f, s, keep, Len(s)) /\ SelectIn(s, keep) = f[Len(s)]
  BY SelectFollows
<1>2. PICK g : Follows(g, s, also, Len(s)) /\ SelectIn(s, also) = g[Len(s)]
  BY SelectFollows
<1>. DEFINE N == {n \in Nat : f[n] = g[n]}
<1>3. f[0] = << >> /\ g[0] = << >>
  <2>1. 0 \in 0 .. Len(s)
    OBVIOUS
  <2>. QED BY <1>1, <1>2, <2>1, FollowsAt
<1>4. ASSUME NEW n \in 0 .. Len(s) - 1, n \in N PROVE n + 1 \in N
  <2>1. n + 1 \in 0 .. Len(s) /\ n + 1 # 0 /\ (n + 1) - 1 = n /\ n + 1 \in Nat /\ n + 1 \in DOMAIN s
    OBVIOUS
  <2>2. f[n + 1] = IF s[n + 1] \in keep THEN Append(f[n], s[n + 1]) ELSE f[n]
    BY <1>1, <2>1, FollowsAt
  <2>3. g[n + 1] = IF s[n + 1] \in also THEN Append(g[n], s[n + 1]) ELSE g[n]
    BY <1>2, <2>1, FollowsAt
  <2>4. s[n + 1] \in ToSet(s)
    BY <2>1 DEF ToSet
  <2>. QED BY <1>4, <2>1, <2>2, <2>3, <2>4
<1>5. Len(s) \in Nat /\ 0 \in N /\ Len(s) \in 0 .. Len(s)
  BY <1>3
<1>6. 0 .. Len(s) \subseteq N
  <2>. HIDE DEF N
  <2>. QED BY <1>4, <1>5, Upwards
<1>. QED BY <1>1, <1>2, <1>5, <1>6

\* Every bounded set of numbers that is not empty has a greatest element.
LEMMA Greatest ==
  ASSUME NEW N, NEW b \in Nat, N \subseteq 0 .. b, N # {}
  PROVE  \E n \in N : \A m \in N : n >= m
<1>. DEFINE M == {b - n : n \in N}
<1>1. (\A n \in N : n \in Nat /\ b - n \in Nat) /\ M # {}
  <2>1. \A n \in N : n \in 0 .. b
    OBVIOUS
  <2>2. PICK n \in N : TRUE
    OBVIOUS
  <2>3. b - n \in M
    OBVIOUS
  <2>. QED BY <2>1, <2>3
<1>2. PICK d \in M : \A e \in M : d <= e
  <2>1. M \subseteq Nat
    BY <1>1
  <2>. HIDE DEF M
  <2>. QED BY <1>1, <2>1, Least
<1>3. PICK n \in N : d = b - n
  OBVIOUS
<1>4. ASSUME NEW m \in N PROVE n >= m
  <2>1. b - n <= b - m
    BY <1>2, <1>3
  <2>. QED BY <1>1, <2>1
<1>. QED BY <1>4

----------------------------------------------------------------------------
(* The first elements of a queue, and the others. *)

LEMMA PrefixProperties ==
  ASSUME NEW S, NEW s \in Seq(S), NEW n \in 0 .. Len(s)
  PROVE  /\ SubSeq(s, 1, n) \in Seq(S) /\ Len(SubSeq(s, 1, n)) = n
         /\ \A i \in 1 .. n : SubSeq(s, 1, n)[i] = s[i]
<1>1. \A i \in 1 .. n : s[i] \in S
  OBVIOUS
<1>. QED BY <1>1, SubSeqProperties

LEMMA SuffixProperties ==
  ASSUME NEW S, NEW s \in Seq(S), NEW n \in 0 .. Len(s)
  PROVE  /\ SubSeq(s, n + 1, Len(s)) \in Seq(S) /\ Len(SubSeq(s, n + 1, Len(s))) = Len(s) - n
         /\ \A i \in 1 .. Len(s) - n : SubSeq(s, n + 1, Len(s))[i] = s[n + i]
<1>1. \A i \in n + 1 .. Len(s) : s[i] \in S
  OBVIOUS
<1>. QED BY <1>1, SubSeqProperties

\* A queue is its first elements and the others.
LEMMA SplitSet ==
  ASSUME NEW S, NEW s \in Seq(S), NEW n \in 0 .. Len(s)
  PROVE  ToSet(s) = ToSet(SubSeq(s, 1, n)) \union ToSet(SubSeq(s, n + 1, Len(s)))
<1>. DEFINE a == SubSeq(s, 1, n)
            b == SubSeq(s, n + 1, Len(s))
<1>1. /\ a \in Seq(S) /\ DOMAIN a = 1 .. n /\ \A i \in 1 .. n : a[i] = s[i]
      /\ b \in Seq(S) /\ DOMAIN b = 1 .. Len(s) - n /\ \A i \in 1 .. Len(s) - n : b[i] = s[n + i]
      /\ DOMAIN s = 1 .. Len(s) /\ Len(s) \in Nat
  BY PrefixProperties, SuffixProperties
<1>. HIDE DEF a, b
<1>2. \A i \in DOMAIN s : i \in DOMAIN a \/ (i - n \in DOMAIN b /\ b[i - n] = s[i])
  BY <1>1
<1>3. ToSet(s) \subseteq ToSet(a) \union ToSet(b)
  BY <1>1, <1>2 DEF ToSet
<1>4. \A i \in DOMAIN a : i \in DOMAIN s /\ a[i] = s[i]
  BY <1>1
<1>5. \A i \in DOMAIN b : n + i \in DOMAIN s /\ b[i] = s[n + i]
  BY <1>1
<1>6. ToSet(a) \union ToSet(b) \subseteq ToSet(s)
  BY <1>4, <1>5 DEF ToSet
<1>. QED BY <1>3, <1>6 DEF a, b

LEMMA SplitInjective ==
  ASSUME NEW S, NEW s \in Seq(S), IsInjective(s), NEW n \in 0 .. Len(s)
  PROVE  /\ IsInjective(SubSeq(s, n + 1, Len(s)))
         /\ ToSet(SubSeq(s, 1, n)) \intersect ToSet(SubSeq(s, n + 1, Len(s))) = {}
<1>. DEFINE a == SubSeq(s, 1, n)
            b == SubSeq(s, n + 1, Len(s))
<1>1. /\ DOMAIN a = 1 .. n /\ \A i \in 1 .. n : a[i] = s[i]
      /\ DOMAIN b = 1 .. Len(s) - n /\ \A i \in 1 .. Len(s) - n : b[i] = s[n + i]
      /\ DOMAIN s = 1 .. Len(s) /\ Len(s) \in Nat
  BY PrefixProperties, SuffixProperties
<1>. HIDE DEF a, b
<1>2. \A i, j \in DOMAIN s : s[i] = s[j] => i = j
  BY DEF IsInjective
<1>3. ASSUME NEW i \in DOMAIN b, NEW j \in DOMAIN b, b[i] = b[j] PROVE i = j
  <2>1. n + i \in DOMAIN s /\ n + j \in DOMAIN s /\ s[n + i] = s[n + j]
    BY <1>1, <1>3
  <2>2. n + i = n + j
    BY <1>2, <2>1
  <2>. QED BY <1>1, <2>2
<1>4. ASSUME NEW i \in DOMAIN a, NEW j \in DOMAIN b, a[i] = b[j] PROVE FALSE
  <2>1. i \in DOMAIN s /\ n + j \in DOMAIN s /\ s[i] = s[n + j]
    BY <1>1, <1>4
  <2>2. i = n + j
    BY <1>2, <2>1
  <2>. QED BY <1>1, <2>2
<1>5. IsInjective(b)
  BY <1>3 DEF IsInjective
<1>6. ToSet(a) \intersect ToSet(b) = {}
  BY <1>4 DEF ToSet
<1>. QED BY <1>5, <1>6 DEF a, b

\* The same of a queue that goes on.
LEMMA CutConcat ==
  ASSUME NEW S, NEW s \in Seq(S), NEW t \in Seq(S), NEW n \in 0 .. Len(s)
  PROVE  /\ n \in 0 .. Len(s \o t)
         /\ SubSeq(s \o t, 1, n) = SubSeq(s, 1, n)
         /\ SubSeq(s \o t, n + 1, Len(s \o t)) = SubSeq(s, n + 1, Len(s)) \o t
<1>. DEFINE q == s \o t
            a == SubSeq(q, 1, n)
            b == SubSeq(q, n + 1, Len(q))
            c == SubSeq(s, 1, n)
            d == SubSeq(s, n + 1, Len(s))
            e == d \o t
<1>1. /\ Len(s) \in Nat /\ Len(t) \in Nat
      /\ q \in Seq(S) /\ Len(q) = Len(s) + Len(t)
      /\ \A i \in 1 .. Len(s) + Len(t) : q[i] = IF i <= Len(s) THEN s[i] ELSE t[i - Len(s)]
  BY ConcatProperties
<1>2. /\ c \in Seq(S) /\ Len(c) = n /\ \A i \in 1 .. n : c[i] = s[i]
      /\ d \in Seq(S) /\ Len(d) = Len(s) - n /\ \A i \in 1 .. Len(s) - n : d[i] = s[n + i]
  BY PrefixProperties, SuffixProperties
<1>3. /\ e \in Seq(S) /\ Len(e) = Len(d) + Len(t)
      /\ \A i \in 1 .. Len(d) + Len(t) : e[i] = IF i <= Len(d) THEN d[i] ELSE t[i - Len(d)]
  <2>. HIDE DEF d
  <2>. QED BY <1>2, ConcatProperties
<1>. HIDE DEF q
<1>4. n \in 0 .. Len(q)
  BY <1>1
<1>5. /\ a \in Seq(S) /\ Len(a) = n /\ \A i \in 1 .. n : a[i] = q[i]
      /\ b \in Seq(S) /\ Len(b) = Len(q) - n /\ \A i \in 1 .. Len(q) - n : b[i] = q[n + i]
  BY <1>1, <1>4, PrefixProperties, SuffixProperties
<1>. HIDE DEF a, b, c, d, e
<1>6. a = c
  <2>1. \A i \in 1 .. Len(a) : a[i] = c[i]
    BY <1>1, <1>2, <1>5
  <2>. QED BY <1>2, <1>5, <2>1, SeqEqual
<1>7. b = e
  <2>1. Len(b) = Len(e)
    BY <1>1, <1>2, <1>3, <1>5
  <2>2. ASSUME NEW i \in 1 .. Len(b) PROVE b[i] = e[i]
    <3>1. b[i] = IF n + i <= Len(s) THEN s[n + i] ELSE t[n + i - Len(s)]
      BY <1>1, <1>5
    <3>2. e[i] = IF i <= Len(s) - n THEN s[n + i] ELSE t[i - (Len(s) - n)]
      BY <1>1, <1>2, <1>3, <2>1
    <3>3. n + i - Len(s) = i - (Len(s) - n) /\ (n + i <= Len(s) <=> i <= Len(s) - n)
      BY <1>1, <1>5
    <3>. QED BY <3>1, <3>2, <3>3
  <2>. QED BY <1>3, <1>5, <2>1, <2>2, SeqEqual
<1>. QED BY <1>4, <1>6, <1>7 DEF q, a, b, c, d, e

----------------------------------------------------------------------------
(* The queues of several buffers, one behind the other. *)

\* f joins the queues of q that come after the a-th, up to the m-th.
JoinsUpTo(f, q, a, m) ==
  f[a] = << >> /\ \A n \in a + 1 .. m : f[n] = f[n - 1] \o q[n]

LEMMA Joiner ==
  ASSUME NEW q, NEW a \in Nat, NEW m \in Nat, a <= m
  PROVE  \E f : JoinsUpTo(f, q, a, m)
<1>. DEFINE N == {n \in Nat : \E f : JoinsUpTo(f, q, a, n)}
<1>1. a \in N
  <2>. DEFINE f == [n \in a .. a |-> << >>]
  <2>1. f[a] = << >> /\ a + 1 .. a = {}
    OBVIOUS
  <2>. HIDE DEF f
  <2>2. JoinsUpTo(f, q, a, a)
    BY <2>1 DEF JoinsUpTo
  <2>. QED BY <2>2
<1>2. ASSUME NEW n \in a .. m - 1, n \in N PROVE n + 1 \in N
  <2>1. PICK f : JoinsUpTo(f, q, a, n)
    BY <1>2
  <2>. DEFINE g == [k \in a .. n + 1 |-> IF k <= n THEN f[k] ELSE f[n] \o q[k]]
  <2>2. g[a] = << >>
    BY <2>1 DEF JoinsUpTo
  <2>3. ASSUME NEW k \in a + 1 .. n + 1
        PROVE  g[k] = g[k - 1] \o q[k]
    <3>1. CASE k \in a + 1 .. n
      <4>1. g[k] = f[k] /\ g[k - 1] = f[k - 1]
        BY <3>1
      <4>2. f[k] = f[k - 1] \o q[k]
        BY <2>1, <3>1 DEF JoinsUpTo
      <4>. HIDE DEF g
      <4>. QED BY <4>1, <4>2
    <3>2. CASE k = n + 1
      <4>1. k \in a .. n + 1 /\ k - 1 \in a .. n + 1 /\ k - 1 = n /\ ~(k <= n) /\ n <= n
        BY <3>2
      <4>2. g[k] = f[n] \o q[k]
        BY <4>1
      <4>3. g[k - 1] = f[n]
        BY <4>1
      <4>. HIDE DEF g
      <4>. QED BY <4>2, <4>3
    <3>3. k \in a + 1 .. n \/ k = n + 1
      OBVIOUS
    <3>. HIDE DEF g
    <3>. QED BY ONLY <3>1, <3>2, <3>3
  <2>4. JoinsUpTo(g, q, a, n + 1)
    <3>. HIDE DEF g
    <3>. QED BY <2>2, <2>3 DEF JoinsUpTo
  <2>. QED BY <2>4
<1>3. m \in N
  <2>. HIDE DEF N
  <2>. QED BY <1>1, <1>2, UpwardsFrom
<1>. QED BY <1>3

\* What is joined is a queue, and empty if all of its parts are.
LEMMA JoinsQueues ==
  ASSUME NEW S, NEW q, NEW a \in Nat, NEW m \in Nat, a <= m, NEW f, JoinsUpTo(f, q, a, m),
         \A i \in a + 1 .. m : q[i] \in Seq(S)
  PROVE  \A n \in a .. m : f[n] \in Seq(S)
<1>. DEFINE N == {n \in Nat : f[n] \in Seq(S)}
<1>1. ASSUME NEW n \in a .. m - 1, n \in N PROVE n + 1 \in N
  <2>1. n + 1 \in a + 1 .. m /\ (n + 1) - 1 = n
    OBVIOUS
  <2>2. f[n + 1] = f[n] \o q[n + 1]
    BY <2>1 DEF JoinsUpTo
  <2>3. q[n + 1] \in Seq(S) /\ f[n] \in Seq(S)
    BY <1>1
  <2>4. f[n] \o q[n + 1] \in Seq(S)
    BY <2>3, ConcatProperties
  <2>5. f[n + 1] \in Seq(S)
    BY ONLY <2>2, <2>4
  <2>. QED BY <2>5
<1>2. a \in N
  <2>1. f[a] \in Seq(S)
    BY DEF JoinsUpTo
  <2>. QED BY <2>1
<1>3. a .. m \subseteq N
  <2>. HIDE DEF N
  <2>. QED BY <1>1, <1>2, UpwardsFrom
<1>. QED BY <1>3

LEMMA JoinsNothing ==
  ASSUME NEW q, NEW a \in Nat, NEW m \in Nat, a <= m, NEW f, JoinsUpTo(f, q, a, m),
         \A i \in a + 1 .. m : q[i] = << >>
  PROVE  f[m] = << >>
<1>. DEFINE N == {n \in Nat : f[n] = << >>}
<1>1. ASSUME NEW n \in a .. m - 1, n \in N PROVE n + 1 \in N
  <2>1. n + 1 \in a + 1 .. m /\ (n + 1) - 1 = n
    OBVIOUS
  <2>2. f[n + 1] = f[n] \o q[n + 1]
    BY <2>1 DEF JoinsUpTo
  <2>3. q[n + 1] = << >> /\ f[n] = << >>
    BY <1>1
  <2>4. << >> \o << >> = << >>
    BY ConcatEmptySeq, EmptySeq
  <2>5. f[n + 1] = << >>
    BY ONLY <2>2, <2>3, <2>4
  <2>. QED BY <2>5
<1>2. a \in N
  BY DEF JoinsUpTo
<1>3. a .. m \subseteq N
  <2>. HIDE DEF N
  <2>. QED BY <1>1, <1>2, UpwardsFrom
<1>4. m \in N
  <2>. HIDE DEF N
  <2>. QED BY <1>3
<1>. QED BY <1>4

\* FlattenSeq is such a join of all the queues.
LEMMA FlattenJoins ==
  ASSUME NEW S, NEW m \in Nat \ {0}, NEW q \in [1 .. m -> Seq(S)], NEW f, JoinsUpTo(f, q, 0, m)
  PROVE  FlattenSeq(q) = f[m]
<1>. DEFINE Flattens(h) == h = [i \in 1 .. m |-> IF i = 1 THEN q[i] ELSE h[i - 1] \o q[i]]
<1>1. Len(q) = m /\ m # 0
  OBVIOUS
<1>2. ASSUME NEW k \in 1 .. m PROVE f[k] = IF k = 1 THEN q[k] ELSE f[k - 1] \o q[k]
  <2>1. f[k] = f[k - 1] \o q[k]
    <3>1. k \in 0 + 1 .. m
      OBVIOUS
    <3>. QED BY <3>1 DEF JoinsUpTo
  <2>2. f[0] = << >>
    BY DEF JoinsUpTo
  <2>3. q[k] \in Seq(S)
    OBVIOUS
  <2>4. CASE k = 1
    <3>1. << >> \o q[k] = q[k]
      BY <2>3, ConcatEmptySeq
    <3>. QED BY <2>1, <2>2, <2>4, <3>1
  <2>. QED BY <2>1, <2>4
<1>3. \E h : Flattens(h)
  <2>. DEFINE h == [i \in 1 .. m |-> f[i]]
  <2>1. ASSUME NEW i \in 1 .. m PROVE h[i] = IF i = 1 THEN q[i] ELSE h[i - 1] \o q[i]
    BY <1>2
  <2>2. h = [i \in 1 .. m |-> h[i]]
    OBVIOUS
  <2>3. Flattens(h)
    <3>. HIDE DEF h
    <3>. QED BY <2>1, <2>2
  <2>. QED BY <2>3
<1>. DEFINE h == CHOOSE h : Flattens(h)
<1>4. FlattenSeq(q) = h[m]
  BY <1>1 DEF FlattenSeq
<1>5. ASSUME NEW k \in 1 .. m PROVE h[k] = IF k = 1 THEN q[k] ELSE h[k - 1] \o q[k]
  <2>. HIDE DEF h
  <2>1. Flattens(h)
    BY <1>3 DEF h
  <2>. DEFINE g == [i \in 1 .. m |-> IF i = 1 THEN q[i] ELSE h[i - 1] \o q[i]]
  <2>2. h = g
    BY <2>1
  <2>3. g[k] = IF k = 1 THEN q[k] ELSE h[k - 1] \o q[k]
    OBVIOUS
  <2>. HIDE DEF g, Flattens
  <2>. QED BY <2>2, <2>3
<1>. HIDE DEF h
<1>6. h[m] = f[m]
  <2>. DEFINE N == {n \in Nat : h[n] = f[n]}
  <2>1. 1 \in N
    <3>1. h[1] = q[1] /\ f[1] = q[1]
      BY <1>2, <1>5
    <3>. QED BY <3>1
  <2>2. ASSUME NEW n \in 1 .. m - 1, n \in N PROVE n + 1 \in N
    <3>1. n + 1 \in 1 .. m /\ n + 1 # 1 /\ (n + 1) - 1 = n
      OBVIOUS
    <3>2. h[n + 1] = h[n] \o q[n + 1] /\ f[n + 1] = f[n] \o q[n + 1]
      BY <1>2, <1>5, <3>1
    <3>3. h[n + 1] = f[n + 1]
      BY <2>2, <3>2
    <3>. QED BY <3>3
  <2>3. m \in N
    <3>. HIDE DEF N
    <3>1. 1 .. m \subseteq N
      <4>. 1 \in Nat
        OBVIOUS
      <4>. QED BY <2>1, <2>2, UpwardsFrom
    <3>. QED BY <3>1
  <2>. QED BY <2>3
<1>. QED BY <1>4, <1>6

\* Joining is associative.
Associates(s, t, u) == s \o (t \o u) = (s \o t) \o u

LEMMA JoiningAssociates ==
  ASSUME NEW S, NEW s \in Seq(S), NEW t \in Seq(S), NEW u \in Seq(S)
  PROVE  Associates(s, t, u)
<1>1. (s \o t) \o u = s \o (t \o u)
  BY ConcatAssociative
<1>. QED BY <1>1 DEF Associates

\* Of the queues of q joined, l comes before that of g and r behind it.
Around(S, q, m, g, l, r) ==
  /\ l \in Seq(S) /\ r \in Seq(S)
  /\ \A s \in Seq(S) : FlattenSeq([q EXCEPT ![g] = s]) = l \o (s \o r)
  /\ FlattenSeq(q) = l \o (q[g] \o r)
  /\ (\A h \in 1 .. g - 1 : q[h] = << >>) => l = << >>
  /\ (\A h \in g + 1 .. m : q[h] = << >>) => r = << >>

LEMMA FlattenSplit ==
  ASSUME NEW S, NEW m \in Nat \ {0}, NEW q \in [1 .. m -> Seq(S)], NEW g \in 1 .. m
  PROVE  \E l, r : Around(S, q, m, g, l, r)
<1>. g \in Nat /\ g - 1 \in Nat /\ 0 \in Nat /\ 0 <= g - 1 /\ m \in Nat /\ g <= m
  OBVIOUS
<1>1. PICK a : JoinsUpTo(a, q, 0, g - 1)
  BY Joiner
<1>2. PICK b : JoinsUpTo(b, q, g, m)
  BY Joiner
<1>0. /\ a[0] = << >> /\ \A k \in 1 .. g - 1 : a[k] = a[k - 1] \o q[k]
      /\ b[g] = << >> /\ \A k \in g + 1 .. m : b[k] = b[k - 1] \o q[k]
  <2>1. a[0] = << >> /\ \A k \in 1 .. g - 1 : a[k] = a[k - 1] \o q[k]
    <3>1. a[0] = << >> /\ \A k \in 0 + 1 .. g - 1 : a[k] = a[k - 1] \o q[k]
      BY ONLY <1>1 DEF JoinsUpTo
    <3>2. 0 + 1 = 1
      OBVIOUS
    <3>. QED BY ONLY <3>1, <3>2
  <2>2. b[g] = << >> /\ \A k \in g + 1 .. m : b[k] = b[k - 1] \o q[k]
    BY ONLY <1>2 DEF JoinsUpTo
  <2>. QED BY ONLY <2>1, <2>2
<1>3. /\ \A n \in 0 .. g - 1 : a[n] \in Seq(S)
      /\ (\A h \in 1 .. g - 1 : q[h] = << >>) => a[g - 1] = << >>
  <2>1. \A i \in 0 + 1 .. g - 1 : q[i] \in Seq(S)
    OBVIOUS
  <2>2. \A n \in 0 .. g - 1 : a[n] \in Seq(S)
    BY <1>1, <2>1, JoinsQueues
  <2>3. ASSUME \A h \in 1 .. g - 1 : q[h] = << >> PROVE a[g - 1] = << >>
    <3>1. \A h \in 0 + 1 .. g - 1 : q[h] = << >>
      BY <2>3
    <3>. QED BY <1>1, <3>1, JoinsNothing
  <2>. QED BY <2>2, <2>3
<1>4. /\ \A n \in g .. m : b[n] \in Seq(S)
      /\ (\A h \in g + 1 .. m : q[h] = << >>) => b[m] = << >>
  <2>1. \A i \in g + 1 .. m : q[i] \in Seq(S)
    OBVIOUS
  <2>2. \A n \in g .. m : b[n] \in Seq(S)
    BY <1>2, <2>1, JoinsQueues
  <2>3. ASSUME \A h \in g + 1 .. m : q[h] = << >> PROVE b[m] = << >>
    BY <1>2, <2>3, JoinsNothing
  <2>. QED BY <2>2, <2>3
<1>5. ASSUME NEW s \in Seq(S)
      PROVE  FlattenSeq([q EXCEPT ![g] = s]) = a[g - 1] \o (s \o b[m])
  <2>. DEFINE p == [q EXCEPT ![g] = s]
              f == [n \in 0 .. m |-> IF n < g THEN a[n] ELSE a[g - 1] \o (s \o b[n])]
  <2>1. /\ p \in [1 .. m -> Seq(S)] /\ p[g] = s
        /\ \A k \in 1 .. m : k # g => p[k] = q[k]
    OBVIOUS
  <2>2. ASSUME NEW k \in 0 .. m
        PROVE  f[k] = IF k = 0 THEN << >> ELSE f[k - 1] \o p[k]
    <3>. HIDE DEF p
    <3>1. CASE k = 0
      BY <1>0, <3>1
    <3>2. CASE k \in 1 .. g - 1
      <4>1. k \in 0 .. g - 1 /\ k # 0 /\ k \in 1 .. m /\ k # g /\ k < g /\ k - 1 < g /\ k - 1 \in 0 .. m
        BY <3>2
      <4>2. f[k] = a[k] /\ f[k - 1] = a[k - 1] /\ p[k] = q[k]
        BY <2>1, <4>1
      <4>3. a[k] = a[k - 1] \o q[k]
        BY <1>0, <3>2
      <4>. HIDE DEF f
      <4>. QED BY <4>1, <4>2, <4>3
    <3>3. CASE k = g
      <4>1. k # 0 /\ ~(g < g) /\ g - 1 < g /\ g - 1 \in 0 .. m /\ g \in 0 .. m /\ g \in g .. m
        BY <3>3
      <4>2. f[g] = a[g - 1] \o (s \o b[g]) /\ f[g - 1] = a[g - 1]
        BY <4>1
      <4>3. b[g] = << >> /\ s \o << >> = s
        BY <1>0, <4>1, ConcatEmptySeq
      <4>. HIDE DEF f
      <4>. QED BY <2>1, <3>3, <4>1, <4>2, <4>3
    <3>4. CASE k \in g + 1 .. m
      <4>1. /\ k # 0 /\ k \in 1 .. m /\ k # g /\ ~(k < g) /\ ~(k - 1 < g) /\ k - 1 \in 0 .. m
            /\ k \in g .. m /\ k - 1 \in g .. m /\ g - 1 \in 0 .. g - 1
        BY <3>4
      <4>2. f[k] = a[g - 1] \o (s \o b[k]) /\ f[k - 1] = a[g - 1] \o (s \o b[k - 1])
        BY <4>1
      <4>3. b[k] = b[k - 1] \o q[k] /\ p[k] = q[k]
        BY <1>0, <2>1, <3>4, <4>1
      <4>4. PICK l \in Seq(S), c \in Seq(S), d \in Seq(S) : l = a[g - 1] /\ c = b[k - 1] /\ d = q[k]
        BY <1>3, <1>4, <4>1
      <4>5. PICK u \in Seq(S) : u = s \o c
        BY ConcatProperties
      <4>. HIDE DEF f
      <4>6. Associates(s, c, d) /\ Associates(l, u, d)
        BY JoiningAssociates
      <4>7. f[k] = l \o (s \o (c \o d)) /\ f[k - 1] = l \o (s \o c) /\ p[k] = d
        BY ONLY <4>2, <4>3, <4>4
      <4>8. f[k] = f[k - 1] \o p[k]
        BY ONLY <4>5, <4>6, <4>7 DEF Associates
      <4>. QED BY ONLY <4>1, <4>8
    <3>. QED BY <3>1, <3>2, <3>3, <3>4
  <2>3. JoinsUpTo(f, p, 0, m)
    <3>. HIDE DEF f, p
    <3>1. f[0] = << >>
      BY <2>2
    <3>2. ASSUME NEW k \in 0 + 1 .. m PROVE f[k] = f[k - 1] \o p[k]
      <4>1. k \in 0 .. m /\ k # 0
        OBVIOUS
      <4>. QED BY <2>2, <4>1
    <3>. QED BY <3>1, <3>2 DEF JoinsUpTo
  <2>4. FlattenSeq(p) = f[m]
    <3>. HIDE DEF f, p
    <3>. QED BY <2>1, <2>3, FlattenJoins
  <2>5. f[m] = a[g - 1] \o (s \o b[m])
    <3>1. m \in 0 .. m /\ ~(m < g)
      OBVIOUS
    <3>. QED BY <3>1
  <2>. HIDE DEF f
  <2>. QED BY <2>4, <2>5
<1>6. FlattenSeq(q) = a[g - 1] \o (q[g] \o b[m])
  <2>1. [q EXCEPT ![g] = q[g]] = q /\ q[g] \in Seq(S)
    OBVIOUS
  <2>. QED BY <1>5, <2>1
<1>7. a[g - 1] \in Seq(S) /\ b[m] \in Seq(S)
  BY <1>3, <1>4
<1>8. Around(S, q, m, g, a[g - 1], b[m])
  BY <1>3, <1>4, <1>5, <1>6, <1>7 DEF Around
<1>. QED BY <1>8

\* The queues of q with x at the end of that of g.
Longer(q, g, x) == [q EXCEPT ![g] = Append(q[g], x)]

\* What goes to the last queue that is not empty goes to the end.
LEMMA FlattenAppend ==
  ASSUME NEW S, NEW m \in Nat \ {0}, NEW q \in [1 .. m -> Seq(S)], NEW g \in 1 .. m, NEW x \in S,
         \A h \in g + 1 .. m : q[h] = << >>
  PROVE  FlattenSeq(Longer(q, g, x)) = Append(FlattenSeq(q), x)
<1>0. PICK l, r : Around(S, q, m, g, l, r)
  BY FlattenSplit
<1>1. /\ l \in Seq(S) /\ r = << >>
      /\ \A s \in Seq(S) : FlattenSeq([q EXCEPT ![g] = s]) = l \o (s \o r)
      /\ FlattenSeq(q) = l \o (q[g] \o r)
  BY <1>0 DEF Around
<1>2. PICK w \in Seq(S) : w = q[g]
  OBVIOUS
<1>3. Append(w, x) = w \o <<x>> /\ Append(w, x) \in Seq(S) /\ <<x>> \in Seq(S)
  BY AppendIsConcat, AppendProperties
<1>4. FlattenSeq([q EXCEPT ![g] = Append(w, x)]) = l \o (w \o <<x>>)
  <2>1. (w \o <<x>>) \o << >> = w \o <<x>>
    BY <1>3, ConcatEmptySeq
  <2>2. FlattenSeq([q EXCEPT ![g] = Append(w, x)]) = l \o (Append(w, x) \o r)
    BY <1>1, <1>3
  <2>. QED BY <1>1, <1>3, <2>1, <2>2
<1>5. FlattenSeq(q) = l \o w /\ l \o w \in Seq(S)
  BY <1>1, <1>2, ConcatEmptySeq, ConcatProperties
<1>6. Append(l \o w, x) = (l \o w) \o <<x>>
  BY <1>5, AppendIsConcat
<1>7. (l \o w) \o <<x>> = l \o (w \o <<x>>)
  <2>1. PICK u \in Seq(S) : u = <<x>>
    BY <1>3
  <2>2. Associates(l, w, u)
    BY <1>1, JoiningAssociates
  <2>. QED BY ONLY <2>1, <2>2 DEF Associates
<1>. QED BY <1>2, <1>4, <1>5, <1>6, <1>7 DEF Longer

LEMMA FlattenQueues ==
  ASSUME NEW S, NEW m \in Nat \ {0}, NEW q \in [1 .. m -> Seq(S)]
  PROVE  FlattenSeq(q) \in Seq(S)
<1>. 0 \in Nat /\ 0 <= m
  OBVIOUS
<1>1. PICK f : JoinsUpTo(f, q, 0, m)
  BY Joiner
<1>2. \A i \in 0 + 1 .. m : q[i] \in Seq(S)
  OBVIOUS
<1>3. \A n \in 0 .. m : f[n] \in Seq(S)
  BY <1>1, <1>2, JoinsQueues
<1>4. f[m] \in Seq(S)
  <2>1. m \in 0 .. m
    OBVIOUS
  <2>. QED BY <1>3, <2>1
<1>. QED BY <1>1, <1>4, FlattenJoins

\* The first n of all are those of s, and the others are rest.
Begins(all, s, n, rest) ==
  /\ n \in 0 .. Len(all) /\ SubSeq(all, 1, n) = SubSeq(s, 1, n)
  /\ SubSeq(all, n + 1, Len(all)) = rest

\* What leaves the first queue that is not empty leaves the front.
LEMMA FlattenDrop ==
  ASSUME NEW S, NEW m \in Nat \ {0}, NEW q \in [1 .. m -> Seq(S)], NEW g \in 1 .. m,
         \A h \in 1 .. g - 1 : q[h] = << >>, NEW n \in 0 .. Len(q[g])
  PROVE  Begins(FlattenSeq(q), q[g], n,
                FlattenSeq([q EXCEPT ![g] = SubSeq(q[g], n + 1, Len(q[g]))]))
<1>0. PICK l, r : Around(S, q, m, g, l, r)
  BY FlattenSplit
<1>1. /\ l = << >> /\ r \in Seq(S)
      /\ \A s \in Seq(S) : FlattenSeq([q EXCEPT ![g] = s]) = l \o (s \o r)
      /\ FlattenSeq(q) = l \o (q[g] \o r)
  BY <1>0 DEF Around
<1>2. ASSUME NEW s \in Seq(S) PROVE l \o (s \o r) = s \o r /\ s \o r \in Seq(S)
  <2>1. s \o r \in Seq(S)
    BY <1>1, <1>2, ConcatProperties
  <2>2. << >> \o (s \o r) = s \o r
    BY <2>1, ConcatEmptySeq
  <2>. QED BY <1>1, <2>1, <2>2
<1>3. PICK w \in Seq(S) : w = q[g]
  OBVIOUS
<1>4. FlattenSeq(q) = w \o r /\ w \o r \in Seq(S)
  BY <1>1, <1>2, <1>3
<1>5. Begins(w \o r, w, n, FlattenSeq([q EXCEPT ![g] = SubSeq(w, n + 1, Len(w))]))
  <2>0. n \in 0 .. Len(w)
    BY <1>3
  <2>1. SubSeq(w, n + 1, Len(w)) \in Seq(S)
    BY <2>0, SuffixProperties
  <2>2. FlattenSeq([q EXCEPT ![g] = SubSeq(w, n + 1, Len(w))]) = SubSeq(w, n + 1, Len(w)) \o r
    BY <1>1, <1>2, <2>1
  <2>3. /\ n \in 0 .. Len(w \o r)
        /\ SubSeq(w \o r, 1, n) = SubSeq(w, 1, n)
        /\ SubSeq(w \o r, n + 1, Len(w \o r)) = SubSeq(w, n + 1, Len(w)) \o r
    <3>1. w \in Seq(S) /\ r \in Seq(S)
      BY <1>1
    <3>. QED BY ONLY <2>0, <3>1, CutConcat
  <2>. QED BY <2>2, <2>3 DEF Begins
<1>. QED BY <1>3, <1>4, <1>5

\* Empty queues add nothing.
LEMMA FlattenOne ==
  ASSUME NEW S, NEW m \in Nat \ {0}, NEW q \in [1 .. m -> Seq(S)], NEW g \in 1 .. m,
         \A h \in 1 .. m : h # g => q[h] = << >>
  PROVE  FlattenSeq(q) = q[g]
<1>1. PICK l, r : Around(S, q, m, g, l, r)
  BY FlattenSplit
<1>2. (\A h \in 1 .. g - 1 : q[h] = << >>) /\ (\A h \in g + 1 .. m : q[h] = << >>)
  OBVIOUS
<1>3. FlattenSeq(q) = l \o (q[g] \o r) /\ l = << >> /\ r = << >>
  BY <1>1, <1>2 DEF Around
<1>4. PICK w \in Seq(S) : w = q[g]
  OBVIOUS
<1>5. << >> \o (w \o << >>) = w
  BY ConcatEmptySeq
<1>. QED BY ONLY <1>3, <1>4, <1>5

LEMMA FlattenEmpty ==
  ASSUME NEW S, NEW m \in Nat \ {0}, NEW q \in [1 .. m -> Seq(S)], \A h \in 1 .. m : q[h] = << >>
  PROVE  FlattenSeq(q) = << >>
<1>1. 1 \in 1 .. m /\ q[1] = << >>
  OBVIOUS
<1>. QED BY <1>1, FlattenOne

----------------------------------------------------------------------------
(* A queue of which the first elements stay. *)

LEMMA SelectPrefix ==
  ASSUME NEW S, NEW s \in Seq(S), NEW keep, NEW n \in 0 .. Len(s),
         \A i \in 1 .. n : s[i] \in keep,
         \A i \in n + 1 .. Len(s) : s[i] \notin keep
  PROVE  SelectIn(s, keep) = SubSeq(s, 1, n)
<1>1. PICK f : Follows(f, s, keep, Len(s)) /\ SelectIn(s, keep) = f[Len(s)]
  BY SelectFollows
<1>2. Len(s) \in Nat
  OBVIOUS
<1>3. \A k \in 0 .. Len(s) : f[k] = IF k = 0 THEN << >>
                                    ELSE IF s[k] \in keep THEN Append(f[k - 1], s[k])
                                    ELSE f[k - 1]
  BY <1>1, FollowsAt
<1>. DEFINE N == {k \in Nat : f[k] = SubSeq(s, 1, k)}
<1>4. f[n] = SubSeq(s, 1, n)
  <2>1. 0 \in N
    <3>1. SubSeq(s, 1, 0) = << >>
      BY SubSeqEmpty
    <3>2. f[0] = << >>
      BY <1>2, <1>3
    <3>. QED BY <3>1, <3>2
  <2>2. ASSUME NEW k \in 0 .. n - 1, k \in N PROVE k + 1 \in N
    <3>1. k + 1 \in 1 .. Len(s) /\ s[k + 1] \in keep /\ s[k + 1] \in S
      BY <1>2
    <3>2. f[k + 1] = Append(SubSeq(s, 1, k), s[k + 1])
      <4>1. k + 1 \in 0 .. Len(s) /\ k + 1 # 0 /\ (k + 1) - 1 = k
        BY <1>2
      <4>2. f[k + 1] = Append(f[k], s[k + 1])
        BY <1>3, <3>1, <4>1
      <4>. QED BY <2>2, <4>2
    <3>3. SubSeq(s, 1, k + 1) = SubSeq(s, 1, k) \o <<s[k + 1]>>
      <4>1. 1 \in 1 .. Len(s) /\ k + 1 \in 1 .. Len(s) /\ (k + 1) - 1 = k
        BY <1>2, <3>1
      <4>. QED BY <4>1, SubSeqRecursiveSecond
    <3>4. SubSeq(s, 1, k) \in Seq(S)
      <4>. k \in 0 .. Len(s)
        BY <1>2
      <4>. QED BY PrefixProperties
    <3>5. Append(SubSeq(s, 1, k), s[k + 1]) = SubSeq(s, 1, k) \o <<s[k + 1]>>
      BY <3>1, <3>4, AppendIsConcat
    <3>6. f[k + 1] = SubSeq(s, 1, k + 1)
      BY ONLY <3>2, <3>3, <3>5
    <3>7. k + 1 \in Nat
      OBVIOUS
    <3>. QED BY ONLY <3>6, <3>7
  <2>3. n \in N
    <3>1. n \in Nat
      OBVIOUS
    <3>. HIDE DEF N
    <3>2. 0 .. n \subseteq N
      BY <2>1, <2>2, <3>1, Upwards
    <3>. QED BY <3>1, <3>2
  <2>. QED BY <2>3
<1>. DEFINE M == {k \in Nat : f[k] = f[n]}
<1>5. f[Len(s)] = f[n]
  <2>1. n \in M
    OBVIOUS
  <2>2. ASSUME NEW k \in n .. Len(s) - 1, k \in M PROVE k + 1 \in M
    <3>1. k + 1 \in n + 1 .. Len(s) /\ k + 1 \in 0 .. Len(s) /\ k + 1 # 0 /\ (k + 1) - 1 = k
      BY <1>2
    <3>2. f[k + 1] = f[k]
      BY <1>3, <3>1
    <3>. QED BY <2>2, <3>2
  <2>3. n \in Nat /\ Len(s) \in Nat /\ Len(s) \in n .. Len(s)
    BY <1>2
  <2>4. Len(s) \in M
    <3>. HIDE DEF M
    <3>. QED BY <2>1, <2>2, <2>3, UpwardsFrom
  <2>. QED BY <2>4
<1>. QED BY <1>1, <1>4, <1>5
============================================================================
