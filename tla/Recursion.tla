----------------------------- MODULE Recursion ------------------------------
(***************************************************************************)
(* Facts about recursion that the proofs about the components use.  The    *)
(* induction theorems of the library take the induction hypothesis as an   *)
(* operator; here it is a set, the numbers for which the hypothesis holds, *)
(* and a step of a recursion is a function.                                *)
(***************************************************************************)
EXTENDS SequencesExt, Integers, WellFoundedInduction, TLAPS

-----------------------------------------------------------------------------
(* Induction.                                                              *)

(* A set of natural numbers that is not empty has a smallest element. *)
LEMMA SmallestNat ==
  ASSUME NEW T, T \subseteq Nat, T # {}
  PROVE  \E x \in T : \A y \in T : x <= y
<1> DEFINE R == OpToRel(<, Nat)
<1>1. IsWellFoundedOn(R, Nat)
  BY NatLessThanWellFounded
<1>2. \A y, x \in Nat : y < x => <<y, x>> \in R
  BY DEF OpToRel
<1> HIDE DEF R
<1>3. PICK x \in T : \A y \in T : ~(<<y, x>> \in R)
  BY <1>1, WFMin
<1>4. ASSUME NEW y \in T PROVE x <= y
  <2>1. ~(y < x)
    BY <1>2, <1>3
  <2>2. x \in Nat /\ y \in Nat
    OBVIOUS
  <2> QED  BY <2>1, <2>2
<1> QED  BY <1>4

(* What holds of 0, and of n + 1 if of n, holds of every number. *)
LEMMA Induction ==
  ASSUME NEW T, 0 \in T, \A n \in Nat : n \in T => n + 1 \in T
  PROVE  Nat \subseteq T
<1> SUFFICES ASSUME NEW n \in Nat, n \notin T PROVE FALSE
  OBVIOUS
<1>1. PICK x \in Nat \ T : \A y \in Nat \ T : x <= y
  <2> DEFINE U == Nat \ T
  <2>1. U \subseteq Nat /\ U # {}
    OBVIOUS
  <2> HIDE DEF U
  <2>2. \E x \in U : \A y \in U : x <= y
    BY <2>1, SmallestNat
  <2> QED  BY <2>2 DEF U
<1>2. x # 0 /\ x - 1 \in Nat
  OBVIOUS
<1>3. x - 1 \in T
  BY <1>1, <1>2
<1> QED  BY <1>2, <1>3

(* The same for the numbers up to N. *)
LEMMA InductionUpTo ==
  ASSUME NEW N \in Nat, NEW T, 0 \in T, \A n \in 0..(N - 1) : n \in T => n + 1 \in T
  PROVE  0..N \subseteq T
<1> DEFINE U == {n \in Nat : n <= N => n \in T}
<1>1. 0 \in U
  OBVIOUS
<1>2. ASSUME NEW n \in Nat, n \in U PROVE n + 1 \in U
  <2>1. CASE n + 1 <= N
    <3>1. n \in 0..(N - 1) /\ n \in T
      BY <1>2, <2>1
    <3> QED  BY <3>1
  <2>2. CASE ~(n + 1 <= N)
    BY <2>2
  <2> QED  BY <2>1, <2>2
<1> HIDE DEF U
<1>3. Nat \subseteq U
  BY <1>1, <1>2, Induction
<1> QED  BY <1>3 DEF U

(* What holds of the empty sequence, and of a sequence with an element     *)
(* appended if of the sequence, holds of every sequence.                   *)
LEMMA SeqInduction ==
  ASSUME NEW S, NEW T, <<>> \in T,
         \A t \in Seq(S), e \in S : t \in T => Append(t, e) \in T
  PROVE  Seq(S) \subseteq T
<1> SUFFICES ASSUME NEW s \in Seq(S) PROVE s \in T
  OBVIOUS
<1> DEFINE U == {n \in 0..Len(s) : SubSeq(s, 1, n) \in T}
<1>1. Len(s) \in Nat
  OBVIOUS
<1>2. 0 \in U
  <2>1. SubSeq(s, 1, 0) = <<>> /\ 0 \in 0..Len(s)
    BY <1>1
  <2> QED  BY <2>1
<1>3. ASSUME NEW n \in 0..(Len(s) - 1), n \in U PROVE n + 1 \in U
  <2>1. n + 1 \in 0..Len(s) /\ SubSeq(s, 1, n) \in Seq(S) /\ s[n + 1] \in S
    OBVIOUS
  <2>2. SubSeq(s, 1, n + 1) = Append(SubSeq(s, 1, n), s[n + 1])
    OBVIOUS
  <2> QED  BY <1>3, <2>1, <2>2
<1> HIDE DEF U
<1>4. 0..Len(s) \subseteq U
  BY <1>1, <1>2, <1>3, InductionUpTo
<1>5. SubSeq(s, 1, Len(s)) \in T
  BY <1>1, <1>4 DEF U
<1>6. SubSeq(s, 1, Len(s)) = s
  OBVIOUS
<1> QED  BY <1>5, <1>6

-----------------------------------------------------------------------------
(* Sequences.                                                              *)

LEMMA SameElements ==
  ASSUME NEW S, NEW s \in Seq(S), NEW t \in Seq(S), Len(s) = Len(t),
         \A k \in 1..Len(s) : s[k] = t[k]
  PROVE  s = t
OBVIOUS

LEMMA CatProperties ==
  ASSUME NEW S, NEW s \in Seq(S), NEW t \in Seq(S)
  PROVE  /\ s \o t \in Seq(S) /\ Len(s \o t) = Len(s) + Len(t)
         /\ \A k \in 1..Len(s) : (s \o t)[k] = s[k]
         /\ \A k \in 1..Len(t) : (s \o t)[Len(s) + k] = t[k]
         /\ s \o <<>> = s /\ <<>> \o s = s
OBVIOUS

LEMMA CatAssociative ==
  ASSUME NEW S, NEW s \in Seq(S), NEW t \in Seq(S), NEW u \in Seq(S)
  PROVE  (s \o t) \o u = s \o (t \o u)
OBVIOUS

LEMMA SplitSeq ==
  ASSUME NEW S, NEW s \in Seq(S), NEW m \in 0..Len(s)
  PROVE  LET front == SubSeq(s, 1, m)
             rest == SubSeq(s, m + 1, Len(s))
         IN  /\ front \in Seq(S) /\ Len(front) = m
             /\ rest \in Seq(S) /\ Len(rest) = Len(s) - m
             /\ front \o rest = s
<1> DEFINE front == SubSeq(s, 1, m)
           rest == SubSeq(s, m + 1, Len(s))
<1>1. front \in Seq(S) /\ Len(front) = m /\ \A k \in 1..m : front[k] = s[k]
  OBVIOUS
<1>2. /\ rest \in Seq(S) /\ Len(rest) = Len(s) - m
      /\ \A k \in 1..(Len(s) - m) : rest[k] = s[m + k]
  OBVIOUS
<1> HIDE DEF front, rest
<1>3. front \o rest \in Seq(S) /\ Len(front \o rest) = Len(s)
  <2>1. front \o rest \in Seq(S) /\ Len(front \o rest) = Len(front) + Len(rest)
    BY <1>1, <1>2, CatProperties
  <2> QED  BY <1>1, <1>2, <2>1
<1>4. ASSUME NEW k \in 1..Len(s) PROVE (front \o rest)[k] = s[k]
  <2>1. CASE k <= m
    BY <1>1, <1>2, <2>1
  <2>2. CASE ~(k <= m)
    <3>1. k - m \in 1..Len(rest) /\ m + (k - m) = k
      BY <1>2, <2>2
    <3>2. (front \o rest)[m + (k - m)] = rest[k - m]
      BY <1>1, <1>2, <3>1, CatProperties
    <3> QED  BY <1>2, <3>1, <3>2
  <2> QED  BY <2>1, <2>2
<1>5. front \o rest = s
  BY <1>3, <1>4, SameElements
<1> QED  BY <1>1, <1>2, <1>5 DEF front, rest

LEMMA CatElements ==
  ASSUME NEW S, NEW s \in Seq(S), NEW t \in Seq(S)
  PROVE  ToSet(s \o t) = ToSet(s) \cup ToSet(t)
<1> DEFINE u == s \o t
           n == Len(s)
           m == Len(t)
<1>1. /\ DOMAIN s = 1..n /\ DOMAIN t = 1..m /\ n \in Nat /\ m \in Nat
      /\ DOMAIN u = 1..(n + m) 
  BY CatProperties
<1>2. /\ \A k \in 1..n : u[k] = s[k]
      /\ \A k \in 1..m : u[n + k] = t[k]
  BY CatProperties
<1> HIDE DEF u, n, m
<1>3. ASSUME NEW x \in ToSet(u) PROVE x \in ToSet(s) \cup ToSet(t)
  <2>1. PICK k \in 1..(n + m) : x = u[k]
    BY <1>1 DEF ToSet
  <2>2. CASE k <= n
    BY <1>1, <1>2, <2>1, <2>2 DEF ToSet
  <2>3. CASE k > n
    <3>1. k - n \in 1..m /\ k = n + (k - n)
      BY <1>1, <2>3
    <3> QED  BY <1>1, <1>2, <2>1, <3>1 DEF ToSet
  <2> QED  BY <1>1, <2>2, <2>3
<1>4. ASSUME NEW k \in 1..n PROVE s[k] \in ToSet(u)
  BY <1>1, <1>2 DEF ToSet
<1>5. ASSUME NEW k \in 1..m PROVE t[k] \in ToSet(u)
  <2>1. n + k \in 1..(n + m)
    BY <1>1
  <2> QED  BY <1>1, <1>2, <2>1 DEF ToSet
<1>6. ToSet(s) \subseteq ToSet(u) /\ ToSet(t) \subseteq ToSet(u)
  BY <1>1, <1>4, <1>5 DEF ToSet
<1> QED  BY <1>3, <1>6 DEF u

(* No element twice. *)
Distinct(s) == \A i, j \in DOMAIN s : s[i] = s[j] => i = j

LEMMA CatDistinct ==
  ASSUME NEW S, NEW s \in Seq(S), NEW t \in Seq(S), Distinct(s), Distinct(t),
         \A x \in ToSet(s) : x \notin ToSet(t)
  PROVE  Distinct(s \o t)
<1> DEFINE u == s \o t
           n == Len(s)
           m == Len(t)
<1>1. /\ DOMAIN s = 1..n /\ DOMAIN t = 1..m /\ n \in Nat /\ m \in Nat
      /\ DOMAIN u = 1..(n + m) 
  BY CatProperties
<1>2. /\ \A k \in 1..n : u[k] = s[k]
      /\ \A k \in 1..m : u[n + k] = t[k]
  BY CatProperties
<1> HIDE DEF u, n, m
<1>3. \A k \in (n + 1)..(n + m) : k - n \in 1..m /\ u[k] = t[k - n]
  <2> SUFFICES ASSUME NEW k \in (n + 1)..(n + m) PROVE k - n \in 1..m /\ u[k] = t[k - n]
    OBVIOUS
  <2>1. k - n \in 1..m /\ n + (k - n) = k
    BY <1>1
  <2> QED  BY <1>2, <2>1
<1>4. \A k \in 1..n, l \in (n + 1)..(n + m) : u[k] # u[l]
  BY <1>1, <1>2, <1>3 DEF ToSet
<1>5. \A k, l \in 1..n : u[k] = u[l] => k = l
  BY <1>1, <1>2 DEF Distinct
<1>6. \A k, l \in (n + 1)..(n + m) : u[k] = u[l] => k = l
  <2> SUFFICES ASSUME NEW k \in (n + 1)..(n + m), NEW l \in (n + 1)..(n + m), u[k] = u[l]
               PROVE  k = l
    OBVIOUS
  <2>1. k - n \in DOMAIN t /\ l - n \in DOMAIN t /\ t[k - n] = t[l - n]
    BY <1>1, <1>3
  <2>2. k - n = l - n
    BY <2>1 DEF Distinct
  <2> QED  BY <1>1, <2>2
<1>7. DOMAIN u = (1..n) \cup ((n + 1)..(n + m))
  BY <1>1
<1> QED  BY <1>4, <1>5, <1>6, <1>7 DEF Distinct, u

-----------------------------------------------------------------------------
(* Recursive functions: there is one for every first value and every step. *)

UpTo(N, V) == [0..N -> V]
Steps(N, V) == [V \X (1..N) -> V]

(* f starts with base, and f[k] is what step makes of f[k - 1].            *)
Recurs(f, N, base, step) ==
  \A k \in 0..N : f[k] = IF k = 0 THEN base ELSE step[<<f[k - 1], k>>]

(* A recursion defines a function. *)
LEMMA RecursionExists ==
  ASSUME NEW N \in Nat, NEW V, NEW base \in V, NEW step \in Steps(N, V)
  PROVE  \E f \in UpTo(N, V) : Recurs(f, N, base, step)
<1> USE DEF UpTo, Steps, Recurs
<1> DEFINE Good(f, n) == \A k \in 0..n : f[k] = IF k = 0 THEN base ELSE step[<<f[k - 1], k>>]
           T == {n \in 0..N : \E f \in [0..n -> V] : Good(f, n)}
<1>1. 0 \in T
  <2> DEFINE g == [k \in 0..0 |-> base]
  <2>1. g \in [0..0 -> V] /\ Good(g, 0)
    OBVIOUS
  <2> HIDE DEF g
  <2>2. 0 \in 0..N
    OBVIOUS
  <2>3. \E f \in [0..0 -> V] : Good(f, 0)
    BY <2>1
  <2> QED  BY <2>2, <2>3
<1>2. ASSUME NEW n \in 0..(N - 1), n \in T PROVE n + 1 \in T
  <2>1. PICK f \in [0..n -> V] : Good(f, n)
    BY <1>2
  <2> DEFINE g == [k \in 0..(n + 1) |-> IF k = n + 1 THEN step[<<f[n], n + 1>>] ELSE f[k]]
  <2>2. <<f[n], n + 1>> \in V \X (1..N)
    OBVIOUS
  <2>3. g \in [0..(n + 1) -> V]
    BY <2>2
  <2>4. ASSUME NEW k \in 0..(n + 1)
        PROVE  g[k] = IF k = 0 THEN base ELSE step[<<g[k - 1], k>>]
    <3>1. CASE k = n + 1
      <4>1. g[k - 1] = f[n] /\ g[k] = step[<<f[n], n + 1>>] /\ k # 0
        BY <3>1
      <4> QED  BY <4>1, <3>1
    <3>2. CASE k # n + 1
      <4>1. k \in 0..n /\ g[k] = f[k]
        BY <3>2
      <4>2. k # 0 => g[k - 1] = f[k - 1]
        BY <4>1
      <4> HIDE DEF g
      <4> QED  BY <4>1, <4>2, <2>1
    <3> QED  BY <3>1, <3>2
  <2> HIDE DEF g
  <2>5. Good(g, n + 1)
    BY <2>4
  <2>6. n + 1 \in 0..N
    OBVIOUS
  <2> QED  BY <2>3, <2>5, <2>6
<1> HIDE DEF T
<1>3. N \in T
  <2>1. 0..N \subseteq T
    BY <1>1, <1>2, InductionUpTo
  <2> QED  BY <2>1
<1> QED  BY <1>3 DEF T

(* A chain leads from every element of D over others to end: no element of *)
(* it is deeper than N, and the next is deeper.                            *)
Chain(D, end, next, depth, N) ==
  /\ end \notin D /\ next \in [D -> D \cup {end}] /\ depth \in [D -> 0..N]
  /\ \A x \in D : next[x] # end => depth[next[x]] > depth[x]

LEMMA ChainInduction ==
  ASSUME NEW D, NEW end, NEW next, NEW depth, NEW N \in Nat, Chain(D, end, next, depth, N),
         NEW T, end \in T, \A x \in D : next[x] \in T => x \in T
  PROVE  D \subseteq T
<1> DEFINE U == {k \in 0..(N + 1) : \A x \in D : depth[x] >= N + 1 - k => x \in T}
<1>1. 0 \in U
  BY DEF Chain
<1>2. ASSUME NEW k \in 0..N, k \in U PROVE k + 1 \in U
  <2> SUFFICES ASSUME NEW x \in D, depth[x] >= N + 1 - (k + 1) PROVE x \in T
    OBVIOUS
  <2>1. CASE next[x] = end
    BY <2>1
  <2>2. CASE next[x] # end
    <3>1. next[x] \in D /\ depth[next[x]] > depth[x] /\ depth[next[x]] \in 0..N /\ depth[x] \in 0..N
      BY <2>2 DEF Chain
    <3>2. depth[next[x]] >= N + 1 - k
      BY <3>1
    <3>3. next[x] \in T
      BY <1>2, <3>1, <3>2
    <3> QED  BY <3>3
  <2> QED  BY <2>1, <2>2
<1> HIDE DEF U
<1>3. N + 1 \in U
  <2>1. N + 1 \in Nat /\ N = N + 1 - 1 /\ N + 1 \in 0..(N + 1)
    OBVIOUS
  <2>2. 0..(N + 1) \subseteq U
    BY <1>1, <1>2, <2>1, InductionUpTo
  <2> QED  BY <2>1, <2>2
<1>4. ASSUME NEW x \in D PROVE x \in T
  <2>1. depth[x] >= N + 1 - (N + 1)
    BY DEF Chain
  <2> QED  BY <1>3, <2>1 DEF U
<1> QED  BY <1>4

OnChain(D, end, V) == [D \cup {end} -> V]
ChainSteps(D, V) == [D \X V -> V]

(* f is base at the end, and f[x] is what step makes of x and f[next[x]].  *)
RecursAlong(f, D, end, next, base, step) ==
  f[end] = base /\ \A x \in D : f[x] = step[<<x, f[next[x]]>>]

(* A recursion along chains defines a function. *)
LEMMA ChainExists ==
  ASSUME NEW D, NEW end, NEW next, NEW depth, NEW N \in Nat, Chain(D, end, next, depth, N),
         NEW V, NEW base \in V, NEW step \in ChainSteps(D, V)
  PROVE  \E f \in OnChain(D, end, V) : RecursAlong(f, D, end, next, base, step)
<1> USE DEF OnChain, ChainSteps, RecursAlong
<1> DEFINE E == D \cup {end}
           W == [E -> V]
           M == N + 2
           first == [x \in E |-> base]
           Again(g) == [x \in E |-> IF x = end THEN base ELSE step[<<x, g[next[x]]>>]]
           again == [p \in W \X (1..M) |-> Again(p[1])]
<1>1. /\ M \in Nat /\ 0 \in 0..M /\ first \in W
      /\ \A x \in D : x \in E /\ x # end /\ next[x] \in E
  BY DEF Chain
<1>2. ASSUME NEW g \in W PROVE Again(g) \in W
  <2>1. ASSUME NEW x \in D PROVE step[<<x, g[next[x]]>>] \in V
    <3>1. g[next[x]] \in V
      BY <1>1
    <3> QED  BY <3>1
  <2> QED  BY <2>1
<1>3. again \in Steps(M, W)
  <2> HIDE DEF W, M, Again
  <2> QED  BY <1>2 DEF Steps
<1>4. \A g \in W, k \in 1..M : again[<<g, k>>] = Again(g)
  <2> HIDE DEF W, M, Again
  <2> QED  OBVIOUS
<1> HIDE DEF again, first
<1>5. PICK G \in UpTo(M, W) : Recurs(G, M, first, again)
  <2> HIDE DEF W, M
  <2> QED  BY <1>1, <1>3, RecursionExists
<1>6. \A k \in 0..(N + 1) : G[k] \in W /\ G[k + 1] \in W /\ G[k + 1] = Again(G[k])
  <2> HIDE DEF W, Again
  <2> TAKE k \in 0..(N + 1)
  <2>1. k \in 0..M /\ k + 1 \in 0..M /\ k + 1 \in 1..M /\ k + 1 # 0 /\ (k + 1) - 1 = k
    OBVIOUS
  <2>2. G[k] \in W /\ G[k + 1] \in W
    BY <1>5, <2>1 DEF UpTo
  <2>3. G[k + 1] = again[<<G[k], k + 1>>]
    BY <1>5, <2>1 DEF Recurs
  <2> QED  BY <1>4, <2>1, <2>2, <2>3
<1>7. \A g \in W : Again(g)[end] = base /\ \A x \in D : Again(g)[x] = step[<<x, g[next[x]]>>]
  BY <1>1
<1> DEFINE Settled(k) == G[k + 1][end] = G[k][end]
                         /\ \A x \in D : depth[x] >= N + 1 - k => G[k + 1][x] = G[k][x]
           U == {k \in 0..(N + 1) : Settled(k)}
<1> HIDE DEF Again, W
<1>8. 0 \in U
  <2>1. G[0] = first /\ G[0][end] = base
    BY <1>1, <1>5 DEF Recurs, first
  <2>2. G[0 + 1] = Again(G[0]) /\ G[0] \in W
    BY <1>6
  <2>3. G[0 + 1][end] = base
    BY <1>7, <2>2
  <2>4. \A x \in D : ~(depth[x] >= N + 1 - 0)
    BY DEF Chain
  <2> QED  BY <2>1, <2>3, <2>4
<1>9. ASSUME NEW k \in 0..N, k \in U PROVE k + 1 \in U
  <2>1. k \in 0..(N + 1) /\ k + 1 \in 0..(N + 1) /\ Settled(k)
    BY <1>9
  <2>2. /\ G[k + 1] = Again(G[k]) /\ G[k] \in W
        /\ G[(k + 1) + 1] = Again(G[k + 1]) /\ G[k + 1] \in W
    BY <1>6, <2>1
  <2>3. G[(k + 1) + 1][end] = G[k + 1][end]
    BY <1>7, <2>2
  <2>4. ASSUME NEW x \in D, depth[x] >= N + 1 - (k + 1) PROVE G[(k + 1) + 1][x] = G[k + 1][x]
    <3>1. G[k + 1][x] = step[<<x, G[k][next[x]]>>]
          /\ G[(k + 1) + 1][x] = step[<<x, G[k + 1][next[x]]>>]
      BY <1>7, <2>2
    <3>2. G[k + 1][next[x]] = G[k][next[x]]
      <4>1. CASE next[x] = end
        BY <2>1, <4>1
      <4>2. CASE next[x] # end
        <5>1. next[x] \in D /\ depth[next[x]] > depth[x] /\ depth[next[x]] \in 0..N
              /\ depth[x] \in 0..N
          BY <4>2 DEF Chain
        <5>2. depth[next[x]] >= N + 1 - k
          BY <2>4, <5>1
        <5> QED  BY <2>1, <5>1, <5>2
      <4> QED  BY <4>1, <4>2
    <3> QED  BY <3>1, <3>2
  <2> QED  BY <2>1, <2>3, <2>4
<1> HIDE DEF U
<1>10. N + 1 \in U
  <2>1. N + 1 \in Nat /\ N = N + 1 - 1 /\ N + 1 \in 0..(N + 1)
    OBVIOUS
  <2>2. 0..(N + 1) \subseteq U
    BY <1>8, <1>9, <2>1, InductionUpTo
  <2> QED  BY <2>1, <2>2
<1> DEFINE f == G[N + 1]
           h == G[(N + 1) + 1]
<1>11. f \in W /\ h = Again(f)
  BY <1>6
<1>12. ASSUME NEW x \in D PROVE h[x] = f[x]
  <2>1. depth[x] >= N + 1 - (N + 1)
    BY DEF Chain
  <2> QED  BY <1>10, <2>1 DEF U
<1>13. h[end] = f[end]
  BY <1>10 DEF U
<1> HIDE DEF f, h
<1>14. f[end] = base /\ \A x \in D : f[x] = step[<<x, f[next[x]]>>]
  BY <1>7, <1>11, <1>12, <1>13
<1> QED  BY <1>11, <1>14 DEF W
-----------------------------------------------------------------------------
(* FlattenSeq of SequencesExt.                                             *)

(* f[k] is the concatenation of the first k sequences of ss.               *)
Concats(f, ss) ==
  \A k \in 0..Len(ss) : f[k] = IF k = 0 THEN <<>> ELSE f[k - 1] \o ss[k]

LEMMA ConcatsExists ==
  ASSUME NEW S, NEW ss \in Seq(Seq(S))
  PROVE  \E f \in UpTo(Len(ss), Seq(S)) : Concats(f, ss)
<1> DEFINE N == Len(ss)
           V == Seq(S)
           base == <<>>
           step == [p \in V \X (1..N) |-> p[1] \o ss[p[2]]]
<1>1. step \in Steps(N, V) /\ base \in V /\ N \in Nat
  BY DEF Steps
<1>2. \A v \in V, k \in 1..N : step[<<v, k>>] = v \o ss[k]
  OBVIOUS
<1> HIDE DEF N, V, step
<1>3. PICK f \in UpTo(N, V) : Recurs(f, N, base, step)
  BY <1>1, RecursionExists
<1>4. ASSUME NEW k \in 0..N PROVE f[k] = IF k = 0 THEN <<>> ELSE f[k - 1] \o ss[k]
  <2>1. k # 0 => k \in 1..N /\ k - 1 \in 0..N /\ f[k - 1] \in V
    BY <1>1, <1>3 DEF UpTo
  <2> QED  BY <1>2, <1>3, <2>1 DEF Recurs
<1> QED  BY <1>3, <1>4 DEF N, V, Concats

LEMMA FlattenEmpty == FlattenSeq(<<>>) = <<>>
BY DEF FlattenSeq

(* What FlattenSeq returns is the last of these concatenations. *)
LEMMA FlattenIs ==
  ASSUME NEW S, NEW ss \in Seq(Seq(S)), NEW f \in UpTo(Len(ss), Seq(S)), Concats(f, ss)
  PROVE  FlattenSeq(ss) = f[Len(ss)]
<1> DEFINE n == Len(ss)
           Obeys(g) == g = [i \in 1..n |-> IF i = 1 THEN ss[i] ELSE g[i - 1] \o ss[i]]
           h == CHOOSE g : Obeys(g)
           e == [i \in 1..n |-> f[i]]
<1>1. FlattenSeq(ss) = IF n = 0 THEN ss ELSE h[n]
  BY DEF FlattenSeq
<1>2. /\ n \in Nat /\ 0 \in 0..n /\ \A i \in 1..n : ss[i] \in Seq(S)
      /\ n = 0 => ss = <<>>
  OBVIOUS
<1>3. \A k \in 0..n : f[k] = IF k = 0 THEN <<>> ELSE f[k - 1] \o ss[k]
  BY DEF Concats
<1> HIDE DEF n
<1>4. f[0] = <<>>
  BY <1>2, <1>3
<1>5. ASSUME NEW i \in 1..n
      PROVE  f[i] = IF i = 1 THEN ss[i] ELSE f[i - 1] \o ss[i]
  <2>1. i \in 0..n /\ i # 0 /\ ss[i] \in Seq(S)
    BY <1>2
  <2>2. f[i] = f[i - 1] \o ss[i]
    BY <1>3, <2>1
  <2>3. CASE i = 1
    <3>1. f[i - 1] = <<>>
      BY <1>4, <2>3
    <3>2. <<>> \o ss[i] = ss[i]
      BY <2>1
    <3> QED  BY <2>2, <2>3, <3>1, <3>2
  <2>4. CASE i # 1
    BY <2>2, <2>4
  <2> QED  BY <2>3, <2>4
<1>6. CASE n = 0
  BY <1>1, <1>2, <1>4, <1>6 DEF n
<1>7. CASE n # 0
  <2>1. Obeys(e)
    <3>1. ASSUME NEW i \in 1..n
          PROVE  e[i] = IF i = 1 THEN ss[i] ELSE e[i - 1] \o ss[i]
      <4>1. e[i] = f[i] /\ (i # 1 => e[i - 1] = f[i - 1])
        BY <1>2
      <4> HIDE DEF e
      <4> QED  BY <1>5, <4>1
    <3>2. e = [i \in 1..n |-> e[i]]
      OBVIOUS
    <3> HIDE DEF e
    <3> QED  BY <3>1, <3>2
  <2> HIDE DEF e
  <2>2. Obeys(h)
    BY <2>1
  <2> HIDE DEF h
  <2> DEFINE T == {k \in 0..n : k # 0 => h[k] = f[k]}
  <2>3. 0 \in T
    BY <1>2
  <2>4. ASSUME NEW k \in 0..(n - 1), k \in T PROVE k + 1 \in T
    <3>1. k + 1 \in 1..n /\ k + 1 \in 0..n /\ (k + 1) - 1 = k /\ (k + 1 = 1 <=> k = 0)
      BY <1>2
    <3>2. f[k + 1] = IF k + 1 = 1 THEN ss[k + 1] ELSE f[k] \o ss[k + 1]
      BY <1>5, <3>1
    <3>3. h[k + 1] = IF k + 1 = 1 THEN ss[k + 1] ELSE h[k] \o ss[k + 1]
      BY <2>2, <3>1
    <3> QED  BY <2>4, <3>1, <3>2, <3>3
  <2> HIDE DEF T
  <2>5. 0..n \subseteq T
    BY <1>2, <2>3, <2>4, InductionUpTo
  <2>6. n \in T
    BY <1>2, <2>5
  <2> QED  BY <1>1, <1>7, <2>6 DEF T, n
<1> QED  BY <1>6, <1>7 DEF n

LEMMA FlattenType ==
  ASSUME NEW S, NEW ss \in Seq(Seq(S))
  PROVE  FlattenSeq(ss) \in Seq(S)
<1>1. PICK f \in UpTo(Len(ss), Seq(S)) : Concats(f, ss)
  BY ConcatsExists
<1>2. FlattenSeq(ss) = f[Len(ss)]
  BY <1>1, FlattenIs
<1> QED  BY <1>2 DEF UpTo

(* One sequence more is one more at the end. *)
LEMMA FlattenAppend ==
  ASSUME NEW S, NEW ss \in Seq(Seq(S)), NEW s \in Seq(S)
  PROVE  FlattenSeq(Append(ss, s)) = FlattenSeq(ss) \o s
<1> DEFINE n == Len(ss)
           tt == Append(ss, s)
<1>1. tt \in Seq(Seq(S)) /\ Len(tt) = n + 1 /\ n \in Nat /\ tt[n + 1] = s
  OBVIOUS
<1>2. \A k \in 1..n : tt[k] = ss[k]
  OBVIOUS
<1> HIDE DEF tt
<1>3. PICK f \in UpTo(Len(tt), Seq(S)) : Concats(f, tt)
  BY <1>1, ConcatsExists
<1>4. FlattenSeq(tt) = f[n + 1]
  BY <1>1, <1>3, FlattenIs
<1> DEFINE g == [k \in 0..n |-> f[k]]
<1>5. g \in UpTo(n, Seq(S)) /\ Concats(g, ss)
  <2>1. g \in UpTo(n, Seq(S))
    BY <1>1, <1>3 DEF UpTo
  <2>2. ASSUME NEW k \in 0..n PROVE g[k] = IF k = 0 THEN <<>> ELSE g[k - 1] \o ss[k]
    <3>1. f[k] = IF k = 0 THEN <<>> ELSE f[k - 1] \o tt[k]
      BY <1>1, <1>3 DEF Concats
    <3>2. g[k] = f[k] /\ (k # 0 => g[k - 1] = f[k - 1] /\ tt[k] = ss[k])
      BY <1>1, <1>2
    <3> HIDE DEF g
    <3> QED  BY <3>1, <3>2
  <2> HIDE DEF g
  <2> QED  BY <2>1, <2>2 DEF Concats
<1>6. g[n] = f[n]
  BY <1>1
<1> HIDE DEF g
<1>7. FlattenSeq(ss) = g[n]
  BY <1>5, FlattenIs
<1>8. f[n + 1] = f[n] \o s
  <2>1. n + 1 \in 0..Len(tt) /\ n + 1 # 0 /\ (n + 1) - 1 = n
    BY <1>1
  <2> QED  BY <1>1, <1>3, <2>1 DEF Concats
<1> QED  BY <1>4, <1>6, <1>7, <1>8 DEF tt

LEMMA FlattenSingle ==
  ASSUME NEW S, NEW s \in Seq(S)
  PROVE  FlattenSeq(<<s>>) = s
<1>1. <<>> \in Seq(Seq(S)) /\ Append(<<>>, s) = <<s>> /\ <<>> \o s = s
  OBVIOUS
<1> QED  BY <1>1, FlattenAppend, FlattenEmpty

LEMMA FlattenCat ==
  ASSUME NEW S, NEW ss \in Seq(Seq(S)), NEW tt \in Seq(Seq(S))
  PROVE  FlattenSeq(ss \o tt) = FlattenSeq(ss) \o FlattenSeq(tt)
<1> DEFINE V == Seq(S)
           T == {uu \in Seq(V) : FlattenSeq(ss \o uu) = FlattenSeq(ss) \o FlattenSeq(uu)}
<1>1. <<>> \in T
  <2>1. FlattenSeq(ss) \in Seq(S)
    BY FlattenType
  <2>2. ss \o <<>> = ss /\ FlattenSeq(ss) \o <<>> = FlattenSeq(ss)
    BY <2>1
  <2>3. <<>> \in Seq(V)
    OBVIOUS
  <2> HIDE DEF V
  <2> QED  BY <2>2, <2>3, FlattenEmpty
<1>2. ASSUME NEW uu \in Seq(V), NEW s \in V, uu \in T PROVE Append(uu, s) \in T
  <2>1. ss \o Append(uu, s) = Append(ss \o uu, s) /\ ss \o uu \in Seq(V)
    OBVIOUS
  <2>2. FlattenSeq(ss \o Append(uu, s)) = FlattenSeq(ss \o uu) \o s
    BY <2>1, FlattenAppend
  <2>3. FlattenSeq(Append(uu, s)) = FlattenSeq(uu) \o s
    BY FlattenAppend
  <2>4. FlattenSeq(ss) \in Seq(S) /\ FlattenSeq(uu) \in Seq(S)
    BY FlattenType
  <2>5. (FlattenSeq(ss) \o FlattenSeq(uu)) \o s = FlattenSeq(ss) \o (FlattenSeq(uu) \o s)
    BY <2>4
  <2>6. Append(uu, s) \in Seq(V) /\ FlattenSeq(ss \o uu) = FlattenSeq(ss) \o FlattenSeq(uu)
    BY <1>2
  <2> HIDE DEF V
  <2> QED  BY <2>2, <2>3, <2>5, <2>6
<1>3. tt \in Seq(V)
  OBVIOUS
<1> HIDE DEF T, V
<1>4. Seq(V) \subseteq T
  BY <1>1, <1>2, SeqInduction
<1>5. tt \in T
  BY <1>3, <1>4
<1> QED  BY <1>5 DEF T

(* What the flattened sequence contains. *)
LEMMA FlattenElements ==
  ASSUME NEW S, NEW ss \in Seq(Seq(S))
  PROVE  \A x : x \in ToSet(FlattenSeq(ss)) <=> \E i \in DOMAIN ss : x \in ToSet(ss[i])
<1> DEFINE V == Seq(S)
           T == {tt \in Seq(V) : \A x : x \in ToSet(FlattenSeq(tt))
                                          <=> \E i \in DOMAIN tt : x \in ToSet(tt[i])}
<1>1. <<>> \in T
  <2>1. \A x : x \notin ToSet(FlattenSeq(<<>>))
    BY FlattenEmpty DEF ToSet
  <2> QED  BY <2>1
<1>2. ASSUME NEW tt \in Seq(V), NEW s \in V, tt \in T PROVE Append(tt, s) \in T
  <2> DEFINE uu == Append(tt, s)
             n == Len(tt)
  <2>1. /\ n \in Nat /\ uu \in Seq(V) /\ DOMAIN uu = 1..(n + 1) /\ DOMAIN tt = 1..n
        /\ uu[n + 1] = s
    OBVIOUS
  <2>2. \A i \in 1..n : uu[i] = tt[i]
    OBVIOUS
  <2>3. ToSet(FlattenSeq(uu)) = ToSet(FlattenSeq(tt)) \cup ToSet(s)
    <3>1. FlattenSeq(uu) = FlattenSeq(tt) \o s
      BY FlattenAppend
    <3>2. FlattenSeq(tt) \in Seq(S) /\ s \in Seq(S)
      BY FlattenType
    <3> HIDE DEF uu
    <3> QED  BY <3>1, <3>2, CatElements
  <2> HIDE DEF uu, n
  <2>4. ASSUME NEW x, x \in ToSet(FlattenSeq(uu)) PROVE \E i \in DOMAIN uu : x \in ToSet(uu[i])
    <3>1. CASE x \in ToSet(s)
      <4>1. n + 1 \in DOMAIN uu
        BY <2>1
      <4> QED  BY <2>1, <3>1, <4>1
    <3>2. CASE x \in ToSet(FlattenSeq(tt))
      <4>1. PICK i \in 1..n : x \in ToSet(tt[i])
        BY <1>2, <2>1, <3>2
      <4>2. i \in DOMAIN uu /\ uu[i] = tt[i]
        BY <2>1, <2>2
      <4> QED  BY <4>1, <4>2
    <3> QED  BY <2>3, <2>4, <3>1, <3>2
  <2>5. ASSUME NEW x, NEW i \in DOMAIN uu, x \in ToSet(uu[i]) PROVE x \in ToSet(FlattenSeq(uu))
    <3>1. CASE i = n + 1
      BY <2>1, <2>3, <2>5, <3>1
    <3>2. CASE i \in 1..n
      <4>1. x \in ToSet(tt[i])
        BY <2>2, <2>5, <3>2
      <4>2. x \in ToSet(FlattenSeq(tt))
        BY <1>2, <2>1, <3>2, <4>1
      <4> QED  BY <2>3, <4>2
    <3> QED  BY <2>1, <3>1, <3>2
  <2> HIDE DEF V
  <2> QED  BY <2>1, <2>4, <2>5 DEF uu
<1>3. ss \in Seq(V)
  OBVIOUS
<1> HIDE DEF V, T
<1>4. ss \in T
  BY <1>1, <1>2, <1>3, SeqInduction
<1> QED  BY <1>4 DEF T

(* If they have no element twice and none in common, it has none twice. *)
LEMMA FlattenDistinct ==
  ASSUME NEW S, NEW ss \in Seq(Seq(S)),
         \A i \in DOMAIN ss : Distinct(ss[i]),
         \A i, j \in DOMAIN ss : i # j => \A x \in ToSet(ss[i]) : x \notin ToSet(ss[j])
  PROVE  Distinct(FlattenSeq(ss))
<1> DEFINE V == Seq(S)
           Apart(tt) == /\ \A i \in DOMAIN tt : Distinct(tt[i])
                        /\ \A i, j \in DOMAIN tt :
                             i # j => \A x \in ToSet(tt[i]) : x \notin ToSet(tt[j])
           T == {tt \in Seq(V) : Apart(tt) => Distinct(FlattenSeq(tt))}
<1>1. <<>> \in T
  BY FlattenEmpty DEF Distinct
<1>2. ASSUME NEW tt \in Seq(V), NEW s \in V, tt \in T PROVE Append(tt, s) \in T
  <2> DEFINE uu == Append(tt, s)
             n == Len(tt)
  <2>1. /\ n \in Nat /\ uu \in Seq(V) /\ DOMAIN uu = 1..(n + 1) /\ DOMAIN tt = 1..n
        /\ uu[n + 1] = s
    OBVIOUS
  <2>2. \A i \in 1..n : uu[i] = tt[i]
    OBVIOUS
  <2>3. FlattenSeq(uu) = FlattenSeq(tt) \o s /\ FlattenSeq(tt) \in Seq(S)
    BY FlattenAppend, FlattenType
  <2>4. \A x : x \in ToSet(FlattenSeq(tt)) => \E i \in DOMAIN tt : x \in ToSet(tt[i])
    BY FlattenElements
  <2> HIDE DEF uu, n
  <2> SUFFICES ASSUME Apart(uu) PROVE Distinct(FlattenSeq(uu))
    BY <2>1 DEF uu
  <2>5. Apart(tt)
    <3>1. \A i \in DOMAIN tt : i \in DOMAIN uu /\ uu[i] = tt[i]
      BY <2>1, <2>2
    <3>2. ASSUME NEW i \in DOMAIN tt PROVE Distinct(tt[i])
      BY <3>1
    <3>3. ASSUME NEW i \in DOMAIN tt, NEW j \in DOMAIN tt, i # j, NEW x \in ToSet(tt[i])
          PROVE  x \notin ToSet(tt[j])
      BY <3>1, <3>3
    <3> QED  BY <3>2, <3>3
  <2>6. Distinct(s) /\ Distinct(FlattenSeq(tt))
    BY <1>2, <2>1, <2>5
  <2>7. ASSUME NEW x \in ToSet(FlattenSeq(tt)) PROVE x \notin ToSet(s)
    <3>1. PICK i \in 1..n : x \in ToSet(tt[i])
      BY <2>1, <2>4
    <3>2. x \in ToSet(uu[i]) /\ i # n + 1 /\ i \in DOMAIN uu /\ n + 1 \in DOMAIN uu
      BY <2>1, <2>2, <3>1
    <3> QED  BY <2>1, <3>2
  <2>8. s \in Seq(S)
    OBVIOUS
  <2> QED  BY <2>3, <2>6, <2>7, <2>8, CatDistinct
<1>3. ss \in Seq(V) /\ Apart(ss)
  OBVIOUS
<1> HIDE DEF V, T, Apart
<1>4. ss \in T
  BY <1>1, <1>2, <1>3, SeqInduction
<1> QED  BY <1>3, <1>4 DEF T
=============================================================================
