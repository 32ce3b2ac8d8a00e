-------------------------- MODULE ReplayLoopProofs --------------------------
(***************************************************************************)
(* What the replay loop keeps true on every input list, for every pool of  *)
(* events: the accepted events form one legal history, settled decisions   *)
(* are final, and the loop stops at a fixed point. And that it is the loop *)
(* of replayEvents as a function, which comes first: the events of a list  *)
(* have one arrangement in replay order, whichever order they arrived in,  *)
(* and the function's two folds are what a loop computes that takes one    *)
(* event and one pass at a time.                                           *)
(*                                                                         *)
(* Induction is by least counterexample, from the well-foundedness of < on *)
(* Nat; what is proved by it is given as a set of numbers.                 *)
(***************************************************************************)
EXTENDS ReplayLoop, FiniteSetTheorems, SequenceTheorems, WellFoundedInduction, TLAPS

-----------------------------------------------------------------------------
(* The function *)

LEMMA LeastNumber ==
  ASSUME NEW S \in SUBSET Nat, S # {}
  PROVE  \E n \in S : \A m \in S : n <= m
<1> DEFINE R == OpToRel(<, Nat)
<1>1. IsWellFoundedOn(R, Nat)
  BY NatLessThanWellFounded
<1> HIDE DEF R
<1>2. PICK n \in S : \A m \in S : ~(<<m, n>> \in R)
  BY <1>1, WFMin
<1>3. \A m, k \in Nat : m < k => <<m, k>> \in R
  BY DEF R, OpToRel
<1>4. \A m \in S : ~(m < n)
  BY <1>2, <1>3
<1> QED BY <1>4

LEMMA Induction ==
  ASSUME NEW S, NEW n \in Nat, 0 \in S,
         \A i \in 0..n - 1 : i \in S => i + 1 \in S
  PROVE  0..n \subseteq S
<1> DEFINE Bad == (0..n) \ S
<1> SUFFICES ASSUME Bad # {} PROVE FALSE
  OBVIOUS
<1>1. PICK i \in Bad : \A j \in Bad : i <= j
  <2>1. Bad \in SUBSET Nat
    OBVIOUS
  <2> QED BY <2>1, LeastNumber
<1>2. i \in 1..n /\ i - 1 \notin Bad
  BY <1>1
<1>3. i - 1 \in 0..n - 1 /\ i - 1 \in S /\ (i - 1) + 1 = i
  BY <1>2
<1> QED BY <1>1, <1>3

-----------------------------------------------------------------------------
(* Replay order *)

\* Lists of events as the sort sees them.
Lists(E) == {s \in Seq(E) : \A i \in DOMAIN s : s[i].at \in Nat /\ s[i].id \in Nat}

LEMMA BeforeIsTotal ==
  ASSUME NEW E, NEW s \in Lists(E)
  PROVE  /\ \A i \in DOMAIN s : ~Before(s, i, i)
         /\ \A i, j \in DOMAIN s : i # j => Before(s, i, j) \/ Before(s, j, i)
         /\ \A i, j \in DOMAIN s : ~(Before(s, i, j) /\ Before(s, j, i))
<1>1. \A i \in DOMAIN s : i \in Nat /\ s[i].at \in Nat /\ s[i].id \in Nat
  BY DEF Lists
<1> QED BY <1>1 DEF Before, Precedes

\* A placing of the scoped events in replay order.
Places(s, scope) ==
  {p \in [1..Cardinality(InScope(s, scope)) -> InScope(s, scope)] :
     \A i, j \in 1..Cardinality(InScope(s, scope)) :
       i < j => Before(s, p[i], p[j])}

LEMMA ScopeIsFinite ==
  ASSUME NEW E, NEW s \in Lists(E), NEW scope
  PROVE  /\ IsFiniteSet(InScope(s, scope))
         /\ Cardinality(InScope(s, scope)) \in Nat
         /\ InScope(s, scope) \subseteq DOMAIN s
<1>1. InScope(s, scope) \subseteq 1..Len(s) /\ Len(s) \in Nat
  BY DEF InScope, Lists
<1>2. IsFiniteSet(1..Len(s))
  BY <1>1, FS_Interval
<1>3. IsFiniteSet(InScope(s, scope))
  BY <1>1, <1>2, FS_Subset
<1> QED BY <1>1, <1>3, FS_CardinalityType

\* A placing leaves no scoped event out.
LEMMA PlacesAreOnto ==
  ASSUME NEW E, NEW s \in Lists(E), NEW scope, NEW p \in Places(s, scope)
  PROVE  /\ \A i, j \in 1..Cardinality(InScope(s, scope)) : p[i] = p[j] => i = j
         /\ \A x \in InScope(s, scope) :
              \E i \in 1..Cardinality(InScope(s, scope)) : p[i] = x
<1> DEFINE S == InScope(s, scope)
           n == Cardinality(S)
           D == 1..n
<1>1. IsFiniteSet(S) /\ n \in Nat /\ S \subseteq DOMAIN s
  BY ScopeIsFinite
<1>2. p \in [D -> S] /\ \A i, j \in D : i < j => Before(s, p[i], p[j])
  BY DEF Places
<1>3. IsFiniteSet(D) /\ Cardinality(D) = n
  BY <1>1, FS_Interval
<1> HIDE DEF S, n
<1>4. \A i, j \in D : p[i] = p[j] => i = j
  <2> SUFFICES ASSUME NEW i \in D, NEW j \in D, i < j PROVE p[i] # p[j]
    BY <1>1
  <2>1. Before(s, p[i], p[j]) /\ p[i] \in DOMAIN s
    BY <1>1, <1>2
  <2> QED BY <2>1, BeforeIsTotal
<1>5. p \in Injection(D, S)
  BY <1>2, <1>4 DEF Injection, IsInjective
<1>6. p \in Surjection(D, S)
  BY <1>1, <1>3, <1>5, FS_Injection DEF n
<1> QED BY <1>4, <1>6 DEF Surjection, S, n

LEMMA PlaceIsUnique ==
  ASSUME NEW E, NEW s \in Lists(E), NEW scope,
         NEW p \in Places(s, scope), NEW q \in Places(s, scope)
  PROVE  p = q
<1> DEFINE S == InScope(s, scope)
           n == Cardinality(S)
           D == 1..n
           Off == {i \in D : p[i] # q[i]}
<1>1. /\ n \in Nat /\ S \subseteq DOMAIN s
      /\ p \in [D -> S] /\ \A i, j \in D : i < j => Before(s, p[i], p[j])
      /\ q \in [D -> S] /\ \A i, j \in D : i < j => Before(s, q[i], q[j])
      /\ \A i, j \in D : p[i] = p[j] => i = j
      /\ \A i, j \in D : q[i] = q[j] => i = j
      /\ \A x \in S : (\E i \in D : p[i] = x) /\ (\E i \in D : q[i] = x)
  BY ScopeIsFinite, PlacesAreOnto, SMTT(40) DEF Places
<1> HIDE DEF S, n
<1> SUFFICES ASSUME Off # {} PROVE FALSE
  <2>1. (\A i \in D : p[i] = q[i]) => p = q
    BY <1>1
  <2> QED BY <2>1
<1>2. PICK i \in Off : \A j \in Off : i <= j
  <2>1. Off \in SUBSET Nat
    BY <1>1
  <2> QED BY <2>1, LeastNumber
<1>3. \A j \in D : j < i => p[j] = q[j]
  BY <1>1, <1>2
<1>4. PICK j \in D : q[j] = p[i]
  BY <1>1, <1>2
<1>5. PICK k \in D : p[k] = q[i]
  BY <1>1, <1>2
<1>6. i < j /\ i < k
  <2>1. i # j /\ i # k
    BY <1>2, <1>4, <1>5
  <2>2. ~(j < i)
    BY <1>1, <1>2, <1>3, <1>4, <2>1
  <2>3. ~(k < i)
    BY <1>1, <1>2, <1>3, <1>5, <2>1
  <2>4. i \in Nat /\ j \in Nat /\ k \in Nat
    BY <1>1
  <2> QED BY <2>1, <2>2, <2>3, <2>4
<1>7. Before(s, q[i], p[i]) /\ Before(s, p[i], q[i])
  BY <1>1, <1>2, <1>4, <1>5, <1>6
<1> QED BY <1>1, <1>2, <1>7, BeforeIsTotal

\* There is one arrangement of a list in replay order at most.
LEMMA OrderingIsUnique ==
  ASSUME NEW E, NEW s \in Lists(E), NEW scope, NEW t \in Orderings(s, scope)
  PROVE  t = orderWebhookEvents(s, scope)
<1>1. \A u \in Orderings(s, scope) :
        \E p \in Places(s, scope) :
          u = [k \in 1..Cardinality(InScope(s, scope)) |-> s[p[k]]]
  BY DEF Orderings, Places
<1>2. ASSUME NEW u \in Orderings(s, scope), NEW v \in Orderings(s, scope)
      PROVE  u = v
  <2>1. PICK p \in Places(s, scope) :
          u = [k \in 1..Cardinality(InScope(s, scope)) |-> s[p[k]]]
    BY <1>1
  <2>2. PICK q \in Places(s, scope) :
          v = [k \in 1..Cardinality(InScope(s, scope)) |-> s[q[k]]]
    BY <1>1
  <2>3. p = q
    BY PlaceIsUnique
  <2> QED BY <2>1, <2>2, <2>3
<1>3. orderWebhookEvents(s, scope) \in Orderings(s, scope)
  BY DEF orderWebhookEvents
<1> QED BY <1>2, <1>3

\* Two neighbours change places in the list.
Exchange(s, t, i) ==
  /\ i \in 1..Len(s) - 1 /\ s[i].id # s[i + 1].id
  /\ DOMAIN t = DOMAIN s
  /\ t[i] = s[i + 1] /\ t[i + 1] = s[i]
  /\ \A x \in DOMAIN s \ {i, i + 1} : t[x] = s[x]

\* Which of two neighbours arrived first has no part in the arrangement, unless
\* they are versions of one identity.
LEMMA ExchangeKeepsOrdering ==
  ASSUME NEW E, NEW s \in Lists(E), NEW t \in Lists(E), NEW scope,
         NEW i, Exchange(s, t, i)
  PROVE  Orderings(s, scope) \subseteq Orderings(t, scope)
<1> DEFINE to == [x \in DOMAIN s |-> IF x = i THEN i + 1
                                     ELSE IF x = i + 1 THEN i ELSE x]
           S == InScope(s, scope)
           T == InScope(t, scope)
<1>1. /\ DOMAIN s = 1..Len(s) /\ Len(s) \in Nat /\ DOMAIN t = DOMAIN s
      /\ i \in DOMAIN s /\ i + 1 \in DOMAIN s /\ i \in Nat
      /\ s[i].id # s[i + 1].id
      /\ \A x \in DOMAIN s : /\ x \in Nat /\ s[x].at \in Nat /\ s[x].id \in Nat
                             /\ t[x].at \in Nat /\ t[x].id \in Nat
  BY DEF Lists, Exchange
<1>2. \A x \in DOMAIN s : to[x] \in DOMAIN s /\ t[to[x]] = s[x]
  BY <1>1 DEF Exchange
<1>3. \A x, y \in DOMAIN s : to[x] = to[y] => x = y
  BY <1>1
<1>4. \A y \in DOMAIN s : \E x \in DOMAIN s : to[x] = y
  <2> TAKE y \in DOMAIN s
  <2>1. to[to[y]] = y
    BY <1>1
  <2> QED BY <1>2, <2>1
<1>5. \A x, y \in DOMAIN s : x < y /\ ~(x = i /\ y = i + 1) => to[x] < to[y]
  BY <1>1
<1>6. to \in [DOMAIN s -> DOMAIN s]
  BY <1>2
<1> HIDE DEF to
<1>7. \A x \in DOMAIN s : x \in S <=> to[x] \in T
  BY <1>1, <1>2 DEF InScope
<1>8. S \subseteq DOMAIN s /\ T \subseteq DOMAIN s
  BY <1>1 DEF InScope
<1>9. Cardinality(T) = Cardinality(S)
  <2> DEFINE f == [x \in S |-> to[x]]
  <2>1. f \in [S -> T]
    BY <1>7, <1>8
  <2>2. \A x, y \in S : f[x] = f[y] => x = y
    BY <1>3, <1>8
  <2>3. \A y \in T : \E x \in S : f[x] = y
    BY <1>4, <1>7, <1>8
  <2> HIDE DEF f, S, T
  <2>4. f \in Bijection(S, T)
    BY <2>1, <2>2, <2>3 DEF Bijection, Injection, IsInjective, Surjection
  <2>5. IsFiniteSet(S)
    BY ScopeIsFinite DEF S
  <2> QED BY <2>4, <2>5, FS_Bijection DEF ExistsBijection
<1>10. \A x, y \in DOMAIN s : Before(s, x, y) => Before(t, to[x], to[y])
  <2> SUFFICES ASSUME NEW x \in DOMAIN s, NEW y \in DOMAIN s, Before(s, x, y)
               PROVE  Before(t, to[x], to[y])
    OBVIOUS
  <2>1. t[to[x]] = s[x] /\ t[to[y]] = s[y]
    BY <1>2
  <2>2. CASE Precedes(s[x], s[y])
    BY <2>1, <2>2 DEF Before
  <2>3. CASE ~Precedes(s[x], s[y])
    <3>1. ~Precedes(s[y], s[x]) /\ x < y
      BY <2>3 DEF Before
    <3>2. s[x].id = s[y].id
      BY <1>1, <2>3, <3>1 DEF Precedes
    <3>3. to[x] < to[y]
      BY <1>1, <1>5, <3>1, <3>2
    <3> QED BY <2>1, <3>1, <3>3 DEF Before
  <2> QED BY <2>2, <2>3
<1>11. SUFFICES ASSUME NEW u \in Orderings(s, scope) PROVE u \in Orderings(t, scope)
  OBVIOUS
<1> DEFINE D == 1..Cardinality(S)
<1>12. PICK p \in [D -> S] :
         /\ \A k, l \in D : k < l => Before(s, p[k], p[l])
         /\ u = [k \in D |-> s[p[k]]]
  BY DEF Orderings
<1> DEFINE q == [k \in D |-> to[p[k]]]
<1>13. q \in [D -> T] /\ \A k \in D : q[k] = to[p[k]] /\ p[k] \in DOMAIN s
  BY <1>7, <1>8, <1>12
<1> HIDE DEF q, D, S, T
<1>14. \A k, l \in D : k < l => Before(t, q[k], q[l])
  BY <1>10, <1>12, <1>13
<1>15. u = [k \in D |-> t[q[k]]]
  BY <1>2, <1>12, <1>13
<1> QED BY <1>9, <1>13, <1>14, <1>15 DEF Orderings, D, S, T

-----------------------------------------------------------------------------
(* The folds *)

LEMMA MaxOfInterval ==
  /\ \A k \in Nat \ {0} : Max(1..k) = k
  /\ \A m \in Nat : \A S \in SUBSET (1..m + 1) : m + 1 \in S => Max(S) = m + 1
<1>1. ASSUME NEW m \in Nat, NEW S \in SUBSET (1..m + 1), m + 1 \in S
      PROVE  Max(S) = m + 1
  <2>1. \A y \in S : m + 1 >= y
    OBVIOUS
  <2>2. /\ Max(S) \in S
        /\ \A y \in S : Max(S) >= y
    BY <1>1, <2>1 DEF Max
  <2>3. Max(S) \in 1..m + 1 /\ Max(S) >= m + 1
    BY <1>1, <2>2
  <2> QED BY <2>3
<1>2. ASSUME NEW k \in Nat \ {0} PROVE Max(1..k) = k
  <2>1. k - 1 \in Nat /\ (k - 1) + 1 = k /\ k \in 1..k
    OBVIOUS
  <2> QED BY <2>1, <1>1
<1> QED BY <1>1, <1>2

\* What one pass over a list comes to, an event at a time.
IsPass(F, run, s) ==
  /\ F[0] = [run EXCEPT !.progress = FALSE]
  /\ \A k \in 1..Len(s) : F[k] = Offer(F[k - 1], s[k], k)
  /\ Pass(run, s) = F[Len(s)]

LEMMA PassUnrolled ==
  ASSUME NEW run, NEW E, NEW s \in Seq(E)
  PROVE  \E F : IsPass(F, run, s)
<1> DEFINE n == Len(s)
           idx == [k \in DOMAIN s |-> k]
           base == [run EXCEPT !.progress = FALSE]
           Body(F, S) == IF S = {} THEN base
                         ELSE Offer(F[S \ {Max(S)}], s[idx[Max(S)]], idx[Max(S)])
           Iter == CHOOSE F : F = [S \in SUBSET DOMAIN idx |-> Body(F, S)]
           Good == {m \in Nat : \E F : F = [S \in SUBSET (1..m) |-> Body(F, S)]}
<1>1. Pass(run, s) = Iter[DOMAIN idx]
  BY DEF Pass, FoldLeft, MapThenFoldSet
<1>2. n \in Nat /\ DOMAIN s = 1..n /\ DOMAIN idx = 1..n /\ \A k \in 1..n : idx[k] = k
  OBVIOUS
<1> HIDE DEF n, idx, base
<1>3. 0 \in Good
  <2>1. \A S \in SUBSET (1..0) : S = {}
    OBVIOUS
  <2> DEFINE F == [S \in SUBSET (1..0) |-> base]
  <2>2. \A S \in SUBSET (1..0) : base = Body(F, S)
    BY <2>1
  <2>3. F = [S \in SUBSET (1..0) |-> Body(F, S)]
    BY <2>2
  <2> QED BY <2>3
<1>4. ASSUME NEW m \in 0..n - 1, m \in Good PROVE m + 1 \in Good
  <2>1. PICK F : F = [S \in SUBSET (1..m) |-> Body(F, S)]
    BY <1>4
  <2> DEFINE G == [S \in SUBSET (1..m + 1) |->
                     IF m + 1 \in S
                     THEN Offer(F[S \ {m + 1}], s[idx[m + 1]], idx[m + 1])
                     ELSE F[S]]
  <2>2. ASSUME NEW S \in SUBSET (1..m + 1) PROVE G[S] = Body(G, S)
    <3>1. CASE m + 1 \in S
      <4>1. Max(S) = m + 1 /\ S # {}
        BY <3>1, MaxOfInterval
      <4>2. S \ {m + 1} \in SUBSET (1..m + 1) /\ m + 1 \notin S \ {m + 1}
        OBVIOUS
      <4>3. G[S \ {m + 1}] = F[S \ {m + 1}]
        BY <4>2
      <4>4. G[S] = Offer(F[S \ {m + 1}], s[idx[m + 1]], idx[m + 1])
        BY <3>1
      <4> HIDE DEF G
      <4> QED BY <4>1, <4>3, <4>4
    <3>2. CASE m + 1 \notin S
      <4>1. S \in SUBSET (1..m) /\ S \ {Max(S)} \in SUBSET (1..m)
        <5>1. \A x \in S : x \in 1..m
          <6> TAKE x \in S
          <6>1. x \in 1..m + 1 /\ x # m + 1
            BY <3>2
          <6> QED BY <6>1
        <5> QED BY <5>1
      <4>2. G[S] = F[S] /\ G[S \ {Max(S)}] = F[S \ {Max(S)}]
        <5>1. S \ {Max(S)} \in SUBSET (1..m + 1) /\ m + 1 \notin S \ {Max(S)}
          BY <3>2
        <5> QED BY <3>2, <5>1
      <4>3. F[S] = Body(F, S)
        <5> HIDE DEF Body
        <5> QED BY <2>1, <4>1
      <4> HIDE DEF G
      <4> QED BY <4>2, <4>3
    <3> QED BY <3>1, <3>2
  <2>3. G = [S \in SUBSET (1..m + 1) |-> Body(G, S)]
    <3>1. G = [S \in SUBSET (1..m + 1) |-> G[S]]
      OBVIOUS
    <3> HIDE DEF G, Body
    <3> QED BY <2>2, <3>1
  <2> HIDE DEF G, Body
  <2> QED BY <2>3
<1>5. n \in Good
  <2> HIDE DEF Good
  <2>1. 0..n \subseteq Good
    BY <1>2, <1>3, <1>4, Induction
  <2> QED BY <1>2, <2>1
<1>6. Iter = [S \in SUBSET (1..n) |-> Body(Iter, S)]
  <2> HIDE DEF Body
  <2>1. \E F : F = [S \in SUBSET (1..n) |-> Body(F, S)]
    BY <1>5
  <2> QED BY <1>2, <2>1
<1> HIDE DEF Iter
<1> DEFINE F == [k \in 0..n |-> Iter[1..k]]
<1>7. F[0] = base
  <2>1. 1..0 = {} /\ {} \in SUBSET (1..n) /\ 0 \in 0..n
    BY <1>2
  <2>2. Iter[{}] = Body(Iter, {})
    <3> HIDE DEF Body
    <3> QED BY <1>6, <2>1
  <2> QED BY <2>1, <2>2
<1>8. ASSUME NEW k \in 1..n PROVE F[k] = Offer(F[k - 1], s[k], k)
  <2>1. /\ Max(1..k) = k /\ (1..k) \ {k} = 1..k - 1 /\ 1..k # {}
        /\ 1..k \in SUBSET (1..n) /\ idx[k] = k
        /\ k \in 0..n /\ k - 1 \in 0..n
    <3>1. k \in Nat \ {0} /\ n \in Nat /\ k <= n
      BY <1>2
    <3>2. (1..k) \ {k} = 1..k - 1
      BY <3>1
    <3>3. k \in 1..k /\ \A x \in 1..k : x \in 1..n
      BY <3>1
    <3>4. Max(1..k) = k
      BY <3>1, MaxOfInterval
    <3>5. 1..k \in SUBSET (1..n) /\ 1..k # {}
      BY <3>3
    <3>6. k \in 0..n /\ k - 1 \in 0..n
      BY <3>1
    <3> QED BY <1>2, <3>2, <3>4, <3>5, <3>6
  <2>2. Iter[1..k] = Body(Iter, 1..k)
    <3> HIDE DEF Body
    <3> QED BY <1>6, <2>1
  <2> QED BY <2>1, <2>2
<1>9. Pass(run, s) = F[n]
  BY <1>1, <1>2
<1> HIDE DEF F
<1> QED BY <1>7, <1>8, <1>9 DEF IsPass, base, n


\* The coordinator before its first pass.
Started(s) ==
  [payment |-> NoPayment, history |-> << >>,
   verdict |-> [k \in DOMAIN s |-> Open], progress |-> TRUE]

\* What a replay comes to, a pass at a time.
IsReplay(F, events, scope, s) ==
  /\ F[0] = Started(s)
  /\ \A k \in 1..Len(s) + 1 :
       F[k] = IF F[k - 1].progress THEN Pass(F[k - 1], s) ELSE F[k - 1]
  /\ replayEvents(events, scope) =
       [payment   |-> F[Len(s) + 1].payment,
        ordered   |-> s,
        decisions |-> Reported(F[Len(s) + 1].verdict, F[Len(s) + 1].payment)]

LEMMA ReplayUnrolled ==
  ASSUME NEW events, NEW scope, NEW E, NEW s \in Seq(E),
         s = orderWebhookEvents(events, scope)
  PROVE  \E F : IsReplay(F, events, scope, s)
<1> DEFINE n == Len(s) + 1
           idx == [k \in 1..Len(s) + 1 |-> k]
           base == Started(s)
           On(run) == IF run.progress THEN Pass(run, s) ELSE run
           Body(F, S) == IF S = {} THEN base ELSE On(F[S \ {Max(S)}])
           Iter == CHOOSE F : F = [S \in SUBSET DOMAIN idx |-> Body(F, S)]
           Good == {m \in Nat : \E F : F = [S \in SUBSET (1..m) |-> Body(F, S)]}
<1>1. replayEvents(events, scope) =
        [payment   |-> Iter[DOMAIN idx].payment,
         ordered   |-> s,
         decisions |-> Reported(Iter[DOMAIN idx].verdict, Iter[DOMAIN idx].payment)]
  BY DEF replayEvents, FoldLeft, MapThenFoldSet, Started
<1>2. n \in Nat /\ DOMAIN idx = 1..n
  OBVIOUS
<1> HIDE DEF n, idx, base, On
<1>3. 0 \in Good
  <2>1. \A S \in SUBSET (1..0) : S = {}
    OBVIOUS
  <2> DEFINE F == [S \in SUBSET (1..0) |-> base]
  <2>2. \A S \in SUBSET (1..0) : base = Body(F, S)
    BY <2>1
  <2>3. F = [S \in SUBSET (1..0) |-> Body(F, S)]
    BY <2>2
  <2> QED BY <2>3
<1>4. ASSUME NEW m \in 0..n - 1, m \in Good PROVE m + 1 \in Good
  <2>1. PICK F : F = [S \in SUBSET (1..m) |-> Body(F, S)]
    BY <1>4
  <2> DEFINE G == [S \in SUBSET (1..m + 1) |->
                     IF m + 1 \in S
                     THEN On(F[S \ {m + 1}])
                     ELSE F[S]]
  <2>2. ASSUME NEW S \in SUBSET (1..m + 1) PROVE G[S] = Body(G, S)
    <3>1. CASE m + 1 \in S
      <4>1. Max(S) = m + 1 /\ S # {}
        BY <3>1, MaxOfInterval
      <4>2. S \ {m + 1} \in SUBSET (1..m + 1) /\ m + 1 \notin S \ {m + 1}
        OBVIOUS
      <4>3. G[S \ {m + 1}] = F[S \ {m + 1}]
        BY <4>2
      <4>4. G[S] = On(F[S \ {m + 1}])
        BY <3>1
      <4> HIDE DEF G
      <4> QED BY <4>1, <4>3, <4>4
    <3>2. CASE m + 1 \notin S
      <4>1. S \in SUBSET (1..m) /\ S \ {Max(S)} \in SUBSET (1..m)
        <5>1. \A x \in S : x \in 1..m
          <6> TAKE x \in S
          <6>1. x \in 1..m + 1 /\ x # m + 1
            BY <3>2
          <6> QED BY <6>1
        <5> QED BY <5>1
      <4>2. G[S] = F[S] /\ G[S \ {Max(S)}] = F[S \ {Max(S)}]
        <5>1. S \ {Max(S)} \in SUBSET (1..m + 1) /\ m + 1 \notin S \ {Max(S)}
          BY <3>2
        <5> QED BY <3>2, <5>1
      <4>3. F[S] = Body(F, S)
        <5> HIDE DEF Body
        <5> QED BY <2>1, <4>1
      <4> HIDE DEF G
      <4> QED BY <4>2, <4>3
    <3> QED BY <3>1, <3>2
  <2>3. G = [S \in SUBSET (1..m + 1) |-> Body(G, S)]
    <3>1. G = [S \in SUBSET (1..m + 1) |-> G[S]]
      OBVIOUS
    <3> HIDE DEF G, Body
    <3> QED BY <2>2, <3>1
  <2> HIDE DEF G, Body
  <2> QED BY <2>3
<1>5. n \in Good
  <2> HIDE DEF Good
  <2>1. 0..n \subseteq Good
    BY <1>2, <1>3, <1>4, Induction
  <2> QED BY <1>2, <2>1
<1>6. Iter = [S \in SUBSET (1..n) |-> Body(Iter, S)]
  <2> HIDE DEF Body
  <2>1. \E F : F = [S \in SUBSET (1..n) |-> Body(F, S)]
    BY <1>5
  <2> QED BY <1>2, <2>1
<1> HIDE DEF Iter
<1> DEFINE F == [k \in 0..n |-> Iter[1..k]]
<1>7. F[0] = base
  <2>1. 1..0 = {} /\ {} \in SUBSET (1..n) /\ 0 \in 0..n
    BY <1>2
  <2>2. Iter[{}] = Body(Iter, {})
    <3> HIDE DEF Body
    <3> QED BY <1>6, <2>1
  <2> QED BY <2>1, <2>2
<1>8. ASSUME NEW k \in 1..n PROVE F[k] = On(F[k - 1])
  <2>1. /\ Max(1..k) = k /\ (1..k) \ {k} = 1..k - 1 /\ 1..k # {}
        /\ 1..k \in SUBSET (1..n)
        /\ k \in 0..n /\ k - 1 \in 0..n
    <3>1. k \in Nat \ {0} /\ n \in Nat /\ k <= n
      BY <1>2
    <3>2. (1..k) \ {k} = 1..k - 1
      BY <3>1
    <3>3. k \in 1..k /\ \A x \in 1..k : x \in 1..n
      BY <3>1
    <3>4. Max(1..k) = k
      BY <3>1, MaxOfInterval
    <3>5. 1..k \in SUBSET (1..n) /\ 1..k # {}
      BY <3>3
    <3>6. k \in 0..n /\ k - 1 \in 0..n
      BY <3>1
    <3> QED BY <1>2, <3>2, <3>4, <3>5, <3>6
  <2>2. Iter[1..k] = Body(Iter, 1..k)
    <3> HIDE DEF Body
    <3> QED BY <1>6, <2>1
  <2> QED BY <2>1, <2>2
<1>9. Iter[DOMAIN idx] = F[n]
  BY <1>2
<1> HIDE DEF F
<1> QED BY <1>1, <1>7, <1>8, <1>9 DEF IsReplay, base, n, On

-----------------------------------------------------------------------------
(* Facts about the operators *)

\* Every event type has one target state, wherever the table allows it.
LEMMA TargetIsState ==
  ASSUME NEW t \in EventTypes
  PROVE  Target(t) \in PaymentStates
<1>1. PICK row \in TransitionTable : row.type = t
  BY DEF TransitionTable, EventTypes
<1>2. \A r \in TransitionTable : r.to \in PaymentStates
  BY DEF TransitionTable, PaymentStates
<1> QED BY <1>1, <1>2 DEF Target

LEMMA TransitionTarget ==
  ASSUME NEW s \in RecordStates, NEW t \in EventTypes,
         lookupTransition(s, t) # "NONE"
  PROVE  lookupTransition(s, t) = Target(t)
<1>1. PICK row \in TransitionTable : row.from = s /\ row.type = t
  BY DEF lookupTransition, Allowed
<1>2. \A r1, r2 \in TransitionTable : r1.type = r2.type => r1.to = r2.to
  BY DEF TransitionTable
<1>3. PICK r \in TransitionTable :
        r.type = t /\ lookupTransition(s, t) = r.to
  BY <1>1 DEF lookupTransition, Allowed
<1>4. PICK q \in TransitionTable : q.type = t /\ Target(t) = q.to
  BY <1>1 DEF Target
<1> QED BY <1>2, <1>3, <1>4

\* What processEvent has checked when the coordinator accepts an event, and
\* what it reports otherwise.
LEMMA AcceptedMeans ==
  ASSUME NEW p, NEW e, NEW h, Attempt(p, e, h).decision = "ACCEPTED"
  PROVE  /\ ~Known(h, e.id)
         /\ p.state # "NONE" => p.pay = e.pay /\ ~(e.at < p.last)
         /\ lookupTransition(p.state, e.type) # "NONE"
         /\ Attempt(p, e, h)
              = decisionRecord(p.state, createPayment(p, e).state, "ACCEPTED")
<1>1. classifyAttempt(processEvent(p, e, h), p.state, e.type) = "ACCEPTED"
  BY DEF Attempt, decisionRecord
<1>2. processEvent(p, e, h) = "ACCEPTED"
  BY <1>1 DEF classifyAttempt, processEvent
<1> QED BY <1>1, <1>2 DEF processEvent, Attempt, decisionRecord

LEMMA NotAcceptedMeans ==
  ASSUME NEW p, NEW e, NEW h, Attempt(p, e, h).decision # "ACCEPTED"
  PROVE  /\ processEvent(p, e, h) # "ACCEPTED"
         /\ Attempt(p, e, h).decision \in DecisionKinds
         /\ Attempt(p, e, h).from = p.state
         /\ Attempt(p, e, h).to = p.state
  BY DEF Attempt, decisionRecord, classifyAttempt, DecisionKinds

\* Replay order rearranges the scoped events and adds none.
LEMMA OrderingType ==
  ASSUME NEW events \in Seq(Event), NEW scope,
         NEW s \in Orderings(events, scope)
  PROVE  /\ s \in Seq(Event)
         /\ \A k \in DOMAIN s : s[k].pay = scope
<1> DEFINE S == InScope(events, scope)
           D == 1..Cardinality(S)
<1>1. IsFiniteSet(S)
  <2>1. S \subseteq 1..Len(events) /\ Len(events) \in Nat
    BY DEF InScope
  <2>2. IsFiniteSet(1..Len(events))
    BY <2>1, FS_Interval
  <2> QED BY <2>1, <2>2, FS_Subset
<1>2. Cardinality(S) \in Nat
  BY <1>1, FS_CardinalityType
<1>3. PICK p \in [D -> S] : s = [k \in D |-> events[p[k]]]
  BY DEF Orderings
<1>4. \A k \in D : events[p[k]] \in Event /\ events[p[k]].pay = scope
  BY <1>3 DEF InScope
<1> QED BY <1>2, <1>3, <1>4
-----------------------------------------------------------------------------
(* The inductive invariant *)

\* Before the sort nothing has happened.
Fresh ==
  pc = "start" =>
    ordered = << >> /\ index = 1 /\ history = << >> /\ ~progress

\* The pass has found nothing to accept so far: no open event it has been over
\* could be accepted now, as nothing has moved since it was offered.
Barren ==
  /\ ~progress =>
       \A k \in 1..index - 1 :
         verdict[k] = Open =>
           processEvent(payment, ordered[k], history) # "ACCEPTED"
  /\ pc = "done" => ~progress /\ index = Len(ordered) + 1

\* Everything in the loop belongs to the payment asked for.
Scoped ==
  /\ \A k \in DOMAIN ordered : ordered[k].pay = Scope
  /\ payment.state # "NONE" => payment.pay = Scope

IInv == TypeOK /\ Fresh /\ LegalHistory /\ Barren /\ Scoped /\ NeverRejected

LEMMA InitInv == Init => IInv
<1> SUFFICES ASSUME Init PROVE IInv
  OBVIOUS
<1> USE DEF Init
<1>1. TypeOK
  <2>1. input \in Seq(Event)
    BY EventAssumption
  <2>2. ordered \in Seq(Event) /\ Len(ordered) = 0 /\ history \in Seq(Event)
    OBVIOUS
  <2>3. index \in 1..Len(ordered) + 1
    BY <2>2
  <2>4. DOMAIN ordered = {} /\ verdict = [k \in {} |-> Open]
    BY <2>2
  <2>5. payment.state \in RecordStates /\ payment.last \in Nat
    BY DEF NoPayment, RecordStates
  <2> QED BY <2>1, <2>2, <2>3, <2>4, <2>5 DEF TypeOK
<1>2. LegalHistory
  BY DEF LegalHistory, StateAfter, NoPayment
<1>3. Fresh /\ Barren /\ Scoped /\ NeverRejected
  BY DEF Fresh, Barren, Scoped, NeverRejected, NoPayment
<1> QED BY <1>1, <1>2, <1>3 DEF IInv

\* An accepted event extends the legal history.
LEMMA AcceptLegal ==
  ASSUME TypeOK, LegalHistory, Accept
  PROVE  LegalHistory'
<1> DEFINE e == ordered[index]
           n == Len(history)
<1>1. /\ e \in Event /\ e.type \in EventTypes /\ e.at \in Nat
      /\ n \in Nat
      /\ \A k \in DOMAIN history : /\ history[k] \in Event
                                  /\ history[k].at \in Nat
                                  /\ history[k].type \in EventTypes
  <2>1. ordered \in Seq(Event) /\ history \in Seq(Event)
    BY DEF TypeOK
  <2>2. e \in Event
    BY <2>1 DEF Accept, InPass
  <2>3. n \in Nat /\ \A k \in DOMAIN history : history[k] \in Event
    BY <2>1
  <2> QED BY <2>2, <2>3, EventAssumption
<1>2. /\ ~Known(history, e.id)
      /\ payment.state # "NONE" => payment.pay = e.pay /\ ~(e.at < payment.last)
      /\ lookupTransition(payment.state, e.type) # "NONE"
  BY AcceptedMeans DEF Accept, Current
<1>3. lookupTransition(payment.state, e.type) = Target(e.type)
  BY <1>1, <1>2, TransitionTarget DEF TypeOK
<1>4. /\ history' = Append(history, e)
      /\ Len(history') = n + 1
      /\ DOMAIN history' = 1..n + 1
      /\ \A k \in 1..n : history'[k] = history[k]
      /\ history'[n + 1] = e
  BY <1>1 DEF Accept, TypeOK
<1>5. /\ payment'.state = Target(e.type)
      /\ payment'.last = e.at
      /\ payment'.body = IF payment.state = "NONE" THEN e.body ELSE payment.body
  BY <1>3 DEF Accept, createPayment
<1>6. \A k \in 0..n : StateAfter(history', k) = StateAfter(history, k)
  BY <1>1, <1>4 DEF StateAfter
<1>7. StateAfter(history', n + 1) = Target(e.type)
  BY <1>1, <1>4 DEF StateAfter
<1>8. payment.state = "NONE" <=> n = 0
  BY <1>1, TargetIsState DEF LegalHistory, StateAfter, PaymentStates
<1>9. \A k \in 1..n + 1 :
        lookupTransition(StateAfter(history', k - 1), history'[k].type)
          = StateAfter(history', k)
  <2> SUFFICES ASSUME NEW k \in 1..n + 1
               PROVE  lookupTransition(StateAfter(history', k - 1), history'[k].type)
                        = StateAfter(history', k)
    OBVIOUS
  <2>1. CASE k \in 1..n
    BY <2>1, <1>1, <1>4, <1>6 DEF LegalHistory
  <2>2. CASE k = n + 1
    <3>1. StateAfter(history', k - 1) = payment.state
      BY <2>2, <1>1, <1>6 DEF LegalHistory
    <3> QED BY <2>2, <3>1, <1>3, <1>4, <1>7
  <2> QED BY <2>1, <2>2, <1>1
<1>10. payment'.state = StateAfter(history', Len(history'))
  BY <1>4, <1>5, <1>7
<1>11. \A i, j \in 1..n + 1 :
         i < j => /\ history'[i].at <= history'[j].at
                  /\ history'[i].id # history'[j].id
  <2> SUFFICES ASSUME NEW i \in 1..n + 1, NEW j \in 1..n + 1, i < j
               PROVE  /\ history'[i].at <= history'[j].at
                      /\ history'[i].id # history'[j].id
    OBVIOUS
  <2>0. \A k, m \in 1..n :
          k < m => history[k].at <= history[m].at /\ history[k].id # history[m].id
    BY SMTT(30) DEF LegalHistory
  <2>1. CASE j \in 1..n
    <3>1. i \in 1..n
      BY <2>1, <1>1
    <3> QED BY <3>1, <2>0, <2>1, <1>4
  <2>2. CASE j = n + 1
    <3>1. i \in 1..n /\ n # 0 /\ history # << >>
      BY <2>2, <1>1
    <3>2. history[i].id # e.id
      BY <3>1, <1>1, <1>2 DEF Known
    <3>3. history[i].at <= history[n].at
      <4>1. n \in 1..n /\ (i < n \/ i = n) /\ history[n].at \in Nat
        BY <3>1, <1>1
      <4> QED BY <4>1, <3>1, <2>0
    <3>4. history[n].at <= e.at
      BY <3>1, <1>1, <1>2, <1>8 DEF LegalHistory
    <3> QED BY <2>2, <3>1, <3>2, <3>3, <3>4, <1>1, <1>4
  <2> QED BY <2>1, <2>2, <1>1
<1>12. payment'.last = history'[Len(history')].at
  BY <1>4, <1>5
<1>13. payment'.body = history'[1].body
  BY <1>1, <1>4, <1>5, <1>8 DEF LegalHistory
<1>14. /\ \A k \in DOMAIN history' :
            lookupTransition(StateAfter(history', k - 1), history'[k].type)
              = StateAfter(history', k)
       /\ \A i, j \in DOMAIN history' :
            i < j => /\ history'[i].at <= history'[j].at
                     /\ history'[i].id # history'[j].id
  BY <1>4, <1>9, <1>11, SMTT(40)
<1> QED BY <1>10, <1>12, <1>13, <1>14 DEF LegalHistory

\* The decision an accepted, settled or delayed event gets is a record of the
\* declared kinds, never Open.
LEMMA CurrentType ==
  ASSUME TypeOK, InPass
  PROVE  /\ Current \in [from : RecordStates, to : RecordStates,
                         decision : DecisionKinds]
         /\ Current # Open
<1>1. ordered[index] \in Event /\ ordered[index].type \in EventTypes
  BY EventAssumption DEF TypeOK, InPass
<1>2. CASE Current.decision = "ACCEPTED"
  <2>1. Current = decisionRecord(payment.state,
                    createPayment(payment, ordered[index]).state, "ACCEPTED")
    BY <1>2, AcceptedMeans DEF Current
  <2>2. createPayment(payment, ordered[index]).state \in RecordStates
    BY <1>1, <1>2, AcceptedMeans, TransitionTarget, TargetIsState
       DEF Current, createPayment, TypeOK, RecordStates
  <2> QED
    BY <2>1, <2>2 DEF decisionRecord, Open, TypeOK, DecisionKinds
<1>3. CASE Current.decision # "ACCEPTED"
  <2>1. /\ Current.decision \in DecisionKinds
        /\ Current.from = payment.state
        /\ Current.to = payment.state
    BY <1>3, NotAcceptedMeans DEF Current
  <2>2. Current = [from |-> Current.from, to |-> Current.to,
                   decision |-> Current.decision]
    BY DEF Current, Attempt, decisionRecord
  <2> QED
    BY <2>1, <2>2 DEF Open, decisionRecord, TypeOK, DecisionKinds
<1> QED BY <1>2, <1>3

LEMMA TypeStep == ASSUME TypeOK, Fresh, [Next]_vars PROVE TypeOK'
<1> USE DEF TypeOK
<1>1. CASE ReturnEmpty
  BY <1>1 DEF ReturnEmpty
<1>2. CASE Sort
  <2>1. ordered' \in Seq(Event)
    BY <1>2, OrderingType DEF Sort
  <2>2. index = 1 /\ index' = 1 /\ 1 \in 1..Len(ordered') + 1
    BY <1>2, <2>1 DEF Sort, Fresh
  <2>3. Open \in [from : RecordStates, to : RecordStates,
                  decision : DecisionKinds \cup {"OPEN"}]
    BY DEF Open, decisionRecord, RecordStates
  <2> QED BY <1>2, <2>1, <2>2, <2>3 DEF Sort
<1>3. ASSUME InPass, index' = index + 1, ordered' = ordered
      PROVE  index' \in 1..Len(ordered') + 1
  BY <1>3 DEF InPass
<1>4. CASE SkipSettled
  BY <1>3, <1>4 DEF SkipSettled
<1>5. CASE Accept
  <2>1. /\ ordered[index] \in Event
        /\ ordered[index].type \in EventTypes
        /\ ordered[index].at \in Nat
    <3>1. ordered \in Seq(Event) /\ index \in DOMAIN ordered
      BY <1>5 DEF Accept, InPass
    <3>2. ordered[index] \in Event
      BY ONLY <3>1
    <3> QED BY <3>2, EventAssumption
  <2>2. payment'.state \in RecordStates /\ payment'.last \in Nat
    BY <1>5, <2>1, AcceptedMeans, TransitionTarget, TargetIsState
       DEF Accept, Current, createPayment, RecordStates
  <2>3. history' \in Seq(Event)
    BY <1>5, <2>1 DEF Accept
  <2>4. verdict' \in [DOMAIN ordered' ->
                       [from : RecordStates, to : RecordStates,
                        decision : DecisionKinds \cup {"OPEN"}]]
    BY <1>5, CurrentType DEF Accept
  <2> QED BY <1>3, <1>5, <2>2, <2>3, <2>4 DEF Accept
<1>6. CASE Settle
  <2>1. verdict' \in [DOMAIN ordered' ->
                       [from : RecordStates, to : RecordStates,
                        decision : DecisionKinds \cup {"OPEN"}]]
    BY <1>6, CurrentType DEF Settle
  <2> QED BY <1>3, <1>6, <2>1 DEF Settle
<1>7. CASE LeaveDelayed
  BY <1>3, <1>7 DEF LeaveDelayed
<1>8. CASE NextPass
  <2>1. index' = 1 /\ ordered' = ordered /\ 1 \in 1..Len(ordered) + 1
    BY <1>8 DEF NextPass
  <2> QED BY <1>8, <2>1 DEF NextPass
<1>9. CASE Return
  BY <1>9 DEF Return
<1>10. CASE UNCHANGED vars
  BY <1>10 DEF vars
<1> QED
  BY <1>1, <1>2, <1>4, <1>5, <1>6, <1>7, <1>8, <1>9, <1>10 DEF Next

LEMMA LegalStep == ASSUME TypeOK, LegalHistory, [Next]_vars PROVE LegalHistory'
<1>1. CASE Accept
  BY <1>1, AcceptLegal
<1>2. CASE ~Accept
  <2>1. UNCHANGED <<history, payment>>
    BY <1>2 DEF Next, ReturnEmpty, Sort, SkipSettled, Settle, LeaveDelayed,
                NextPass, Return, vars
  <2> QED BY <2>1 DEF LegalHistory
<1> QED BY <1>1, <1>2

LEMMA BarrenStep ==
  ASSUME TypeOK, Fresh, Barren, [Next]_vars
  PROVE  Barren'
<1> USE DEF Barren
<1>1. CASE ReturnEmpty
  BY <1>1 DEF ReturnEmpty, Fresh, TypeOK
<1>2. CASE Sort
  BY <1>2 DEF Sort, Fresh
<1>3. CASE SkipSettled
  BY <1>3 DEF SkipSettled, InPass, TypeOK
<1>4. CASE Accept
  BY <1>4 DEF Accept, InPass
<1>5. CASE Settle
  <2>1. /\ pc' = "pass"
        /\ \A k \in 1..index' - 1 : k = index \/ k \in 1..index - 1
        /\ verdict'[index] # Open
        /\ \A k \in 1..index - 1 : verdict'[k] = verdict[k]
    BY <1>5, CurrentType DEF Settle, InPass, TypeOK
  <2> QED BY <1>5, <2>1 DEF Settle
<1>6. CASE LeaveDelayed
  <2>1. processEvent(payment, ordered[index], history) # "ACCEPTED"
    BY <1>6, NotAcceptedMeans DEF LeaveDelayed, Current
  <2>2. \A k \in 1..index' - 1 : k = index \/ k \in 1..index - 1
    BY <1>6 DEF LeaveDelayed, InPass, TypeOK
  <2> QED BY <1>6, <2>1, <2>2 DEF LeaveDelayed, InPass
<1>7. CASE NextPass
  BY <1>7 DEF NextPass
<1>8. CASE Return
  BY <1>8 DEF Return
<1>9. CASE UNCHANGED vars
  BY <1>9 DEF vars
<1> QED
  BY <1>1, <1>2, <1>3, <1>4, <1>5, <1>6, <1>7, <1>8, <1>9 DEF Next

LEMMA ScopeStep ==
  ASSUME TypeOK, Fresh, Scoped, NeverRejected, [Next]_vars
  PROVE  Fresh' /\ Scoped' /\ NeverRejected'
<1>1. CASE Sort
  <2>1. \A k \in DOMAIN ordered' : ordered'[k].pay = Scope
    BY <1>1, OrderingType DEF Sort, TypeOK
  <2> QED
    BY <1>1, <2>1 DEF Sort, Fresh, Scoped, NeverRejected, Open, decisionRecord
<1>2. ASSUME InPass
      PROVE  Current.decision # "REJECTED"
  <2>1. payment.state # "NONE" => payment.pay = ordered[index].pay
    BY <1>2 DEF Scoped, InPass
  <2>2. processEvent(payment, ordered[index], history) # "PAYMENT_ID_MISMATCH"
    BY <2>1 DEF processEvent
  <2> QED BY <2>2 DEF Current, Attempt, decisionRecord, classifyAttempt
<1>3. CASE Accept
  <2>1. payment'.pay = Scope
    BY <1>3 DEF Accept, createPayment, Scoped, InPass
  <2> QED
    BY <1>2, <1>3, <2>1 DEF Accept, Fresh, Scoped, NeverRejected, InPass, TypeOK
<1>4. CASE Settle
  BY <1>2, <1>4 DEF Settle, Fresh, Scoped, NeverRejected, InPass, TypeOK
<1>5. CASE ~(Sort \/ Accept \/ Settle)
  BY <1>5 DEF Next, ReturnEmpty, SkipSettled, LeaveDelayed, NextPass, Return,
              vars, Fresh, Scoped, NeverRejected, InPass
<1> QED BY <1>1, <1>3, <1>4, <1>5

LEMMA NextInv == IInv /\ [Next]_vars => IInv'
BY TypeStep, LegalStep, BarrenStep, ScopeStep DEF IInv

-----------------------------------------------------------------------------
(* Theorems *)

LEMMA Invariance == Spec => []IInv
BY InitInv, NextInv, PTL DEF Spec

\* The loop's variables keep to the types replay.ts declares for them.
THEOREM TypeCorrect == Spec => []TypeOK
<1>1. IInv => TypeOK
  BY DEF IInv
<1> QED BY <1>1, Invariance, PTL

\* Whatever list of events is replayed, what was accepted is one legal history
\* of the payment: a walk of the table, forward in provider time, with no
\* identity counted twice and the creating event's money.
THEOREM AcceptedHistoryIsLegal == Spec => []LegalHistory
<1>1. IInv => LegalHistory
  BY DEF IInv
<1> QED BY <1>1, Invariance, PTL

\* When the loop returns, no event it leaves waiting could have been accepted.
THEOREM StopsAtFixedPoint == Spec => []FixedPoint
<1>1. IInv => FixedPoint
  BY DEF IInv, TypeOK, Barren, FixedPoint
<1> QED BY <1>1, Invariance, PTL

\* A replay within a scope rejects nothing.
THEOREM ReplayNeverRejects == Spec => []NeverRejected
<1>1. IInv => NeverRejected
  BY DEF IInv
<1> QED BY <1>1, Invariance, PTL

\* No pass revises the decision an earlier pass settled.
THEOREM SettledStaysSettled == Spec => DecisionsAreFinal
<1> DEFINE Kept ==
      \A k \in DOMAIN verdict : verdict[k] # Open => verdict'[k] = verdict[k]
<1>1. IInv /\ [Next]_vars => [Kept]_vars
  <2> SUFFICES ASSUME IInv, Next PROVE Kept
    BY DEF Kept
  <2>1. CASE Sort
    BY <2>1 DEF Sort, IInv, Fresh, TypeOK
  <2>2. CASE Accept
    BY <2>2 DEF Accept, IInv, TypeOK
  <2>3. CASE Settle
    BY <2>3 DEF Settle, IInv, TypeOK
  <2>4. CASE ~(Sort \/ Accept \/ Settle)
    BY <2>4 DEF Next, ReturnEmpty, SkipSettled, LeaveDelayed, NextPass, Return
  <2> QED BY <2>1, <2>2, <2>3, <2>4
<1> QED BY <1>1, Invariance, PTL DEF Spec, DecisionsAreFinal

-----------------------------------------------------------------------------
(* The loop and the function *)

\* A run that has accepted an event in its pass, and one that has not.
Moved(p, h, v) ==
  [payment |-> p, history |-> h, verdict |-> v, progress |-> TRUE]

Idle(p, h, v) ==
  [payment |-> p, history |-> h, verdict |-> v, progress |-> FALSE]

\* The verdicts with one more event settled.
Decided(v, k, d) == [v EXCEPT ![k] = d]

LEMMA OfferSkips ==
  ASSUME NEW p, NEW h, NEW v, NEW e, NEW k,
         v[k] # Open \/ Attempt(p, e, h).decision = "DELAYED"
  PROVE  /\ Offer(Moved(p, h, v), e, k) = Moved(p, h, v)
         /\ Offer(Idle(p, h, v), e, k) = Idle(p, h, v)
<1>1. /\ Moved(p, h, v).payment = p /\ Idle(p, h, v).payment = p
      /\ Moved(p, h, v).history = h /\ Idle(p, h, v).history = h
      /\ Moved(p, h, v).verdict = v /\ Idle(p, h, v).verdict = v
  BY DEF Moved, Idle
<1> QED BY <1>1 DEF Offer

LEMMA OfferAccepts ==
  ASSUME NEW p, NEW h, NEW v, NEW e, NEW k, NEW run,
         run \in {Moved(p, h, v), Idle(p, h, v)},
         v[k] = Open, Attempt(p, e, h).decision = "ACCEPTED"
  PROVE  Offer(run, e, k) =
           Moved(createPayment(p, e), Append(h, e), Decided(v, k, Attempt(p, e, h)))
<1> DEFINE d == Attempt(p, e, h)
<1>1. run.payment = p /\ run.history = h /\ run.verdict = v
  BY DEF Moved, Idle
<1>2. d = Attempt(run.payment, e, run.history)
  BY <1>1
<1> QED BY <1>1, <1>2 DEF Offer, Moved, Decided

LEMMA OfferSettles ==
  ASSUME NEW p, NEW h, NEW v, NEW e, NEW k, NEW run,
         run \in {Moved(p, h, v), Idle(p, h, v)},
         v[k] = Open, Attempt(p, e, h).decision \notin {"ACCEPTED", "DELAYED"}
  PROVE  Offer(run, e, k) =
           IF run = Moved(p, h, v) THEN Moved(p, h, Decided(v, k, Attempt(p, e, h)))
                                   ELSE Idle(p, h, Decided(v, k, Attempt(p, e, h)))
<1> DEFINE d == Attempt(p, e, h)
           w == Decided(v, k, d)
           On(x) == [payment |-> p, history |-> h, verdict |-> v, progress |-> x]
<1>1. /\ \A x : [On(x) EXCEPT !.verdict[k] = d] = [On(x) EXCEPT !.verdict = w]
      /\ \A x : [On(x) EXCEPT !.verdict = w] =
                  [payment |-> p, history |-> h, verdict |-> w, progress |-> x]
  <2> HIDE DEF d
  <2>1. w = [v EXCEPT ![k] = d]
    BY DEF Decided
  <2> HIDE DEF w
  <2> QED BY <2>1
<1>2. run.payment = p /\ run.history = h /\ run.verdict = v
  BY DEF Moved, Idle
<1>3. d = Attempt(run.payment, e, run.history)
  BY <1>2
<1>4. Offer(run, e, k) = [run EXCEPT !.verdict[k] = d]
  BY <1>2, <1>3 DEF Offer
<1> HIDE DEF w, d
<1> QED BY <1>1, <1>4 DEF Moved, Idle, w, d

LEMMA RunParts ==
  ASSUME NEW p, NEW h, NEW v
  PROVE  /\ Moved(p, h, v).progress /\ ~Idle(p, h, v).progress
         /\ \A F, s : IsPass(F, Moved(p, h, v), s) \/ IsPass(F, Idle(p, h, v), s)
                     => F[0] = Idle(p, h, v)
         /\ Idle(p, h, v).payment = p /\ Idle(p, h, v).verdict = v
<1>1. \A x : /\ [Moved(p, h, v) EXCEPT !.progress = x] =
                  [payment |-> p, history |-> h, verdict |-> v, progress |-> x]
             /\ [Idle(p, h, v) EXCEPT !.progress = x] =
                  [payment |-> p, history |-> h, verdict |-> v, progress |-> x]
  BY DEF Moved, Idle
<1>2. ASSUME NEW F, NEW s, IsPass(F, Moved(p, h, v), s) \/ IsPass(F, Idle(p, h, v), s)
      PROVE  F[0] = Idle(p, h, v)
  <2>1. \/ F[0] = [Moved(p, h, v) EXCEPT !.progress = FALSE]
        \/ F[0] = [Idle(p, h, v) EXCEPT !.progress = FALSE]
    BY <1>2 DEF IsPass
  <2> QED BY <1>1, <2>1 DEF Idle
<1> QED BY <1>2 DEF Moved, Idle

\* Where the loop stands, as a run of the function's folds.
Snapshot == IF progress THEN Moved(payment, history, verdict)
                        ELSE Idle(payment, history, verdict)

\* The run before each pass of the function, and within a pass begun in run.
RoundsOf(events, s) == CHOOSE F : IsReplay(F, events, Scope, s)

Rounds == RoundsOf(input, ordered)

Within(run, s) == CHOOSE F : IsPass(F, run, s)

\* The list is in replay order, and nothing has been done before it is.
Placed ==
  /\ pc = "start" => payment = NoPayment
  /\ pc # "start" => ordered \in Orderings(input, Scope)

\* An accepted event is in the history once.
Counted ==
  /\ Cardinality({k \in DOMAIN ordered : verdict[k].decision = "ACCEPTED"})
       = Len(history)

\* The loop is where the function is after some passes and a part of one, of
\* which each but the last has accepted an event.
Tracked ==
  /\ pc = "pass" =>
       \E j \in 0..Len(ordered) :
         /\ Rounds[j].progress
         /\ Snapshot = Within(Rounds[j], ordered)[index - 1]
         /\ j + (IF progress THEN 1 ELSE 0) <= Len(history)
  /\ pc = "done" =>
       \E j \in 0..Len(ordered) :
         /\ j <= Len(history)
         /\ \A m \in j + 1..Len(ordered) + 1 : Rounds[m] = Snapshot

LEMMA EventsAreLists == Seq(Event) = Lists(Event)
  BY EventAssumption DEF Lists

LEMMA EmptyIsOrdering ==
  ASSUME NEW events, NEW scope, InScope(events, scope) = {}
  PROVE  << >> \in Orderings(events, scope)
<1> DEFINE D == 1..Cardinality(InScope(events, scope))
           p == [k \in D |-> 0]
<1>1. D = {}
  BY FS_EmptySet
<1> HIDE DEF D
<1>2. p \in [D -> InScope(events, scope)]
  BY <1>1
<1>3. << >> = [k \in D |-> events[p[k]]]
  BY <1>1
<1>4. \A i, j \in D : i < j => Before(events, p[i], p[j])
  BY <1>1
<1> HIDE DEF p
<1> QED BY <1>2, <1>3, <1>4 DEF Orderings, D

LEMMA UpTo == \A m \in Nat : IsFiniteSet(1..m) /\ Cardinality(1..m) = m
<1> TAKE m \in Nat
<1>1. 1 \in Int /\ m \in Int /\ (IF 1 > m THEN 0 ELSE m - 1 + 1) = m
  OBVIOUS
<1> QED BY <1>1, FS_Interval

LEMMA PlacedStep ==
  ASSUME TypeOK, Fresh, Placed, [Next]_vars
  PROVE  Placed'
<1>1. CASE ReturnEmpty
  BY <1>1, EmptyIsOrdering DEF ReturnEmpty, Placed, Fresh
<1>2. CASE Sort
  BY <1>2 DEF Sort, Placed
<1>3. CASE ~(ReturnEmpty \/ Sort)
  <2>1. input' = input /\ ordered' = ordered /\ (pc' = "start" <=> pc = "start")
    BY <1>3 DEF Next, SkipSettled, Accept, Settle, LeaveDelayed, NextPass, Return,
                InPass, vars
  <2>2. pc = "start" => payment' = payment
    BY <1>3 DEF Next, SkipSettled, Accept, Settle, LeaveDelayed, NextPass, Return,
                InPass, vars
  <2> QED BY <2>1, <2>2 DEF Placed
<1> QED BY <1>1, <1>2, <1>3

LEMMA CountedStep ==
  ASSUME TypeOK, Fresh, Counted, [Next]_vars
  PROVE  Counted'
<1> DEFINE Won == {k \in DOMAIN ordered : verdict[k].decision = "ACCEPTED"}
<1>1. IsFiniteSet(Won) /\ Len(history) \in Nat
  <2>1. Won \subseteq 1..Len(ordered) /\ Len(ordered) \in Nat
    BY DEF TypeOK
  <2>2. IsFiniteSet(1..Len(ordered))
    BY <2>1, UpTo
  <2> QED BY <2>1, <2>2, FS_Subset DEF TypeOK
<1>2. CASE Sort
  <2>1. Won' = {}
    BY <1>2 DEF Sort, Open, decisionRecord
  <2> QED BY <1>2, <2>1, FS_EmptySet DEF Counted, Sort, Fresh
<1>3. CASE Accept
  <2>1. Current.decision = "ACCEPTED" /\ verdict[index].decision = "OPEN"
    BY <1>3 DEF Accept, Open, decisionRecord
  <2>2. index \in DOMAIN ordered /\ index \notin Won
    BY <1>3, <2>1 DEF Accept, InPass
  <2>3. Won' = Won \cup {index}
    BY <1>3, <2>1, <2>2 DEF Accept, TypeOK
  <2>4. Cardinality(Won') = Cardinality(Won) + 1
    <3> HIDE DEF Won
    <3> QED BY <1>1, <2>2, <2>3, FS_AddElement
  <2>5. Len(history') = Len(history) + 1
    BY <1>3 DEF Accept, TypeOK
  <2> QED BY <2>4, <2>5 DEF Counted
<1>4. CASE Settle
  <2>1. Current.decision # "ACCEPTED" /\ verdict[index].decision = "OPEN"
    BY <1>4 DEF Settle, Open, decisionRecord
  <2>2. Won' = Won
    BY <1>4, <2>1 DEF Settle, InPass, TypeOK
  <2> QED BY <1>4, <2>2 DEF Counted, Settle
<1>5. CASE ~(Sort \/ Accept \/ Settle)
  <2>1. ordered' = ordered /\ verdict' = verdict /\ history' = history
    BY <1>5 DEF Next, ReturnEmpty, SkipSettled, LeaveDelayed, NextPass, Return, vars
  <2> QED BY <2>1 DEF Counted
<1> QED BY <1>2, <1>3, <1>4, <1>5

\* No more is accepted than there is, and all of it only if every verdict is
\* ACCEPTED.
LEMMA HistoryBounded ==
  ASSUME TypeOK, Counted
  PROVE  /\ Len(history) <= Len(ordered)
         /\ Len(history) = Len(ordered) =>
              \A k \in DOMAIN ordered : verdict[k].decision = "ACCEPTED"
<1> DEFINE Won == {k \in DOMAIN ordered : verdict[k].decision = "ACCEPTED"}
<1>1. /\ Won \in SUBSET (1..Len(ordered)) /\ DOMAIN ordered = 1..Len(ordered)
      /\ Len(ordered) \in Nat /\ Len(history) \in Nat
  BY DEF TypeOK
<1>2. IsFiniteSet(1..Len(ordered)) /\ Cardinality(1..Len(ordered)) = Len(ordered)
  BY <1>1, UpTo
<1>3. Cardinality(Won) = Len(history)
  BY DEF Counted
<1>4. /\ Cardinality(Won) <= Cardinality(1..Len(ordered))
      /\ Cardinality(1..Len(ordered)) = Cardinality(Won) => 1..Len(ordered) = Won
  <2> HIDE DEF Won
  <2> QED BY <1>1, <1>2, FS_Subset
<1> QED BY <1>1, <1>2, <1>3, <1>4

LEMMA RoundsAre ==
  ASSUME NEW events \in Seq(Event), NEW s \in Orderings(events, Scope)
  PROVE  /\ s \in Seq(Event) /\ s = orderWebhookEvents(events, Scope)
         /\ IsReplay(RoundsOf(events, s), events, Scope, s)
<1>1. s \in Seq(Event)
  BY OrderingType
<1>2. s = orderWebhookEvents(events, Scope)
  BY EventsAreLists, OrderingIsUnique
<1>3. \E F : IsReplay(F, events, Scope, s)
  BY <1>1, <1>2, ReplayUnrolled
<1> QED BY <1>1, <1>2, <1>3 DEF RoundsOf

LEMMA WithinIs ==
  ASSUME NEW run, NEW s \in Seq(Event)
  PROVE  IsPass(Within(run, s), run, s)
<1>1. \E F : IsPass(F, run, s)
  BY PassUnrolled
<1> QED BY <1>1 DEF Within

\* An iteration of the loop is an offer of the function.
LEMMA StepIsOffer ==
  ASSUME progress \in BOOLEAN, SkipSettled \/ Accept \/ Settle \/ LeaveDelayed
  PROVE  /\ InPass /\ UNCHANGED <<input, ordered, pc>> /\ index' = index + 1
         /\ Snapshot' = Offer(Snapshot, ordered[index], index)
         /\ \/ progress' = progress /\ history' = history
            \/ progress' = TRUE /\ history' = Append(history, ordered[index])
<1>0. PICK e : e = ordered[index]
  OBVIOUS
<1>1. Snapshot \in {Moved(payment, history, verdict), Idle(payment, history, verdict)}
  BY DEF Snapshot
<1>2. CASE SkipSettled \/ LeaveDelayed
  <2>1. /\ InPass /\ index' = index + 1
        /\ verdict[index] # Open \/ Attempt(payment, e, history).decision = "DELAYED"
        /\ UNCHANGED <<input, ordered, payment, history, verdict, progress, pc>>
    BY <1>0, <1>2, Zenon DEF SkipSettled, LeaveDelayed, Current
  <2>2. /\ Offer(Moved(payment, history, verdict), e, index) = Moved(payment, history, verdict)
        /\ Offer(Idle(payment, history, verdict), e, index) = Idle(payment, history, verdict)
    BY <2>1, OfferSkips
  <2> QED BY <1>0, <2>1, <2>2 DEF Snapshot
<1>3. CASE Accept
  <2>1. /\ verdict[index] = Open /\ Attempt(payment, e, history).decision = "ACCEPTED"
        /\ verdict' = Decided(verdict, index, Attempt(payment, e, history))
    BY <1>0, <1>3, Zenon DEF Accept, Current, Decided
  <2>2. Offer(Snapshot, e, index) =
          Moved(createPayment(payment, e), Append(history, e), verdict')
    BY <1>1, <2>1, OfferAccepts
  <2>3. /\ InPass /\ index' = index + 1
        /\ payment' = createPayment(payment, e) /\ history' = Append(history, e)
        /\ progress' = TRUE /\ UNCHANGED <<input, ordered, pc>>
    BY <1>0, <1>3, Zenon DEF Accept
  <2> QED BY <1>0, <2>2, <2>3 DEF Snapshot
<1>4. CASE Settle
  <2>1. /\ verdict[index] = Open
        /\ Attempt(payment, e, history).decision \notin {"ACCEPTED", "DELAYED"}
        /\ verdict' = Decided(verdict, index, Attempt(payment, e, history))
    BY <1>0, <1>4, Zenon DEF Settle, Current, Decided
  <2>2. Offer(Snapshot, e, index) =
          IF Snapshot = Moved(payment, history, verdict)
          THEN Moved(payment, history, verdict') ELSE Idle(payment, history, verdict')
    BY <1>1, <2>1, OfferSettles
  <2>3. /\ InPass /\ index' = index + 1
        /\ UNCHANGED <<input, ordered, payment, history, progress, pc>>
    BY <1>0, <1>4, Zenon DEF Settle
  <2>4. Snapshot = Moved(payment, history, verdict) <=> progress
    BY RunParts DEF Snapshot
  <2> QED BY <1>0, <2>2, <2>3, <2>4 DEF Snapshot
<1> QED BY <1>2, <1>3, <1>4

LEMMA TrackedStep ==
  ASSUME TypeOK, Fresh, Placed, Placed', Counted, Tracked, [Next]_vars
  PROVE  Tracked'
<1>0. /\ input \in Seq(Event) /\ ordered \in Seq(Event) /\ history \in Seq(Event)
      /\ Len(history) \in Nat /\ Len(ordered) \in Nat
      /\ DOMAIN ordered = 1..Len(ordered) /\ progress \in BOOLEAN
  BY DEF TypeOK
<1>1. CASE Sort
  <2>1. /\ input' = input /\ ordered' \in Orderings(input, Scope)
        /\ verdict' = [k \in DOMAIN ordered' |-> Open]
        /\ index' = 1 /\ payment' = NoPayment /\ history' = << >>
        /\ progress' = FALSE /\ pc' = "pass"
    BY <1>1 DEF Sort, Fresh, Placed, TypeOK
  <2>2. ordered' \in Seq(Event) /\ IsReplay(Rounds', input, Scope, ordered')
    BY <1>0, <2>1, RoundsAre DEF Rounds
  <2>3. Rounds'[0] = Moved(NoPayment, << >>, verdict')
    BY <2>1, <2>2 DEF IsReplay, Started, Moved
  <2>4. IsPass(Within(Rounds'[0], ordered'), Rounds'[0], ordered')
    BY <2>2, WithinIs
  <2>5. Within(Rounds'[0], ordered')[0] = Idle(NoPayment, << >>, verdict')
    BY <2>3, <2>4, RunParts
  <2>6. /\ Snapshot' = Within(Rounds'[0], ordered')[index' - 1]
        /\ Rounds'[0].progress
    BY <2>1, <2>3, <2>5, RunParts DEF Snapshot
  <2>7. 0 \in 0..Len(ordered') /\ 0 <= Len(history')
    BY <2>1, <2>2
  <2> QED BY <2>1, <2>6, <2>7 DEF Tracked
<1>2. CASE ReturnEmpty
  <2>1. /\ input' = input /\ ordered' = << >> /\ ordered = << >>
        /\ verdict' = verdict /\ payment' = NoPayment /\ history' = << >>
        /\ progress' = FALSE /\ pc' = "done"
    BY <1>2 DEF ReturnEmpty, Fresh, Placed, TypeOK
  <2>2. IsReplay(Rounds', input, Scope, << >>)
    BY <1>0, <2>1, RoundsAre DEF Rounds, Placed
  <2>3. verdict' = [k \in DOMAIN << >> |-> Open]
    BY <2>1 DEF TypeOK
  <2>4. Rounds'[0] = Moved(NoPayment, << >>, verdict')
    BY <2>2, <2>3 DEF IsReplay, Started, Moved
  <2>5. IsPass(Within(Rounds'[0], << >>), Rounds'[0], << >>)
    <3>1. << >> \in Seq(Event)
      OBVIOUS
    <3> QED BY <3>1, WithinIs
  <2>6. Pass(Rounds'[0], << >>) = Idle(NoPayment, << >>, verdict')
    <3>1. Within(Rounds'[0], << >>)[0] = Idle(NoPayment, << >>, verdict')
      BY <2>4, <2>5, RunParts
    <3>2. Pass(Rounds'[0], << >>) = Within(Rounds'[0], << >>)[Len(<< >>)] /\ Len(<< >>) = 0
      BY <2>5 DEF IsPass
    <3> QED BY <3>1, <3>2
  <2>7. Rounds'[1] = IF Rounds'[0].progress THEN Pass(Rounds'[0], << >>) ELSE Rounds'[0]
    <3>1. 1 \in 1..Len(<< >>) + 1 /\ 1 - 1 = 0
      OBVIOUS
    <3> QED BY <2>2, <3>1 DEF IsReplay
  <2>8. Rounds'[1] = Snapshot'
    BY <2>1, <2>4, <2>6, <2>7, RunParts DEF Snapshot
  <2>9. 0 \in 0..Len(ordered') /\ 0 <= Len(history')
        /\ \A m \in 0 + 1..Len(ordered') + 1 : m = 1
    BY <2>1
  <2> QED BY <2>1, <2>8, <2>9 DEF Tracked
<1>3. ASSUME pc = "pass"
      PROVE  IsReplay(Rounds, input, Scope, ordered)
  BY <1>0, <1>3, RoundsAre DEF Placed, Rounds
<1>4. CASE SkipSettled \/ Accept \/ Settle \/ LeaveDelayed
  <2>1. /\ pc = "pass" /\ pc' = "pass" /\ index \in 1..Len(ordered)
        /\ input' = input /\ ordered' = ordered /\ index' = index + 1
        /\ Snapshot' = Offer(Snapshot, ordered[index], index)
        /\ \/ progress' = progress /\ history' = history
           \/ progress' = TRUE /\ history' = Append(history, ordered[index])
    BY <1>0, <1>4, StepIsOffer DEF InPass
  <2>2. PICK j \in 0..Len(ordered) :
          /\ Rounds[j].progress
          /\ Snapshot = Within(Rounds[j], ordered)[index - 1]
          /\ j + (IF progress THEN 1 ELSE 0) <= Len(history)
    BY <2>1 DEF Tracked
  <2>3. IsPass(Within(Rounds[j], ordered), Rounds[j], ordered)
    BY <1>0, WithinIs
  <2>4. Within(Rounds[j], ordered)[index] = Snapshot'
    BY <2>1, <2>2, <2>3 DEF IsPass
  <2>5. j + (IF progress' THEN 1 ELSE 0) <= Len(history')
    <3>1. CASE progress' = progress /\ history' = history
      BY <2>2, <3>1
    <3>2. CASE progress' = TRUE /\ history' = Append(history, ordered[index])
      <4>1. Len(history') = Len(history) + 1
        BY <1>0, <2>1, <3>2
      <4> QED BY <1>0, <2>2, <3>2, <4>1
    <3> QED BY <2>1, <3>1, <3>2
  <2>6. Rounds' = Rounds /\ index' - 1 = index
    BY <2>1 DEF Rounds
  <2> QED BY <2>1, <2>2, <2>4, <2>5, <2>6 DEF Tracked
<1>5. ASSUME pc = "pass", index = Len(ordered) + 1
      PROVE  \E j \in 0..Len(ordered) :
               /\ Rounds[j + 1] = Snapshot
               /\ j + (IF progress THEN 1 ELSE 0) <= Len(history)
  <2>1. PICK j \in 0..Len(ordered) :
          /\ Rounds[j].progress
          /\ Snapshot = Within(Rounds[j], ordered)[index - 1]
          /\ j + (IF progress THEN 1 ELSE 0) <= Len(history)
    BY <1>5 DEF Tracked
  <2>2. Snapshot = Pass(Rounds[j], ordered)
    <3>1. IsPass(Within(Rounds[j], ordered), Rounds[j], ordered)
      BY <1>0, WithinIs
    <3>2. index - 1 = Len(ordered)
      BY <1>0, <1>5
    <3> QED BY <2>1, <3>1, <3>2 DEF IsPass
  <2>3. Rounds[j + 1] = IF Rounds[j].progress THEN Pass(Rounds[j], ordered)
                                              ELSE Rounds[j]
    <3>1. j + 1 \in 1..Len(ordered) + 1 /\ (j + 1) - 1 = j
      BY <1>0
    <3> QED BY <1>3, <1>5, <3>1 DEF IsReplay
  <2> QED BY <2>1, <2>2, <2>3
<1>6. CASE NextPass
  <2>1. PICK j \in 0..Len(ordered) : Rounds[j + 1] = Snapshot /\ j + 1 <= Len(history)
    BY <1>5, <1>6 DEF NextPass
  <2>2. /\ pc' = "pass" /\ index' = 1 /\ progress' = FALSE /\ progress
        /\ UNCHANGED <<input, ordered, payment, history, verdict>>
    BY <1>6 DEF NextPass
  <2>3. j + 1 \in 0..Len(ordered)
    BY <1>0, <2>1, HistoryBounded
  <2>4. IsPass(Within(Snapshot, ordered), Snapshot, ordered)
    BY <1>0, WithinIs
  <2>5. Within(Snapshot, ordered)[0] = Snapshot'
    BY <2>2, <2>4, RunParts DEF Snapshot
  <2>6. Snapshot.progress
    BY <2>2, RunParts DEF Snapshot
  <2>7. Rounds' = Rounds /\ index' - 1 = 0
    BY <2>2 DEF Rounds
  <2>8. /\ Rounds'[j + 1].progress
        /\ Snapshot' = Within(Rounds'[j + 1], ordered')[index' - 1]
        /\ (j + 1) + (IF progress' THEN 1 ELSE 0) <= Len(history')
    BY <2>1, <2>2, <2>5, <2>6, <2>7
  <2> QED BY <2>2, <2>3, <2>8 DEF Tracked
<1>7. CASE Return
  <2>1. PICK j \in 0..Len(ordered) : Rounds[j + 1] = Snapshot /\ j <= Len(history)
    BY <1>5, <1>7 DEF Return
  <2>2. /\ pc' = "done" /\ ~progress
        /\ UNCHANGED <<input, ordered, index, payment, history, verdict, progress>>
    BY <1>7 DEF Return
  <2>3. ~Snapshot.progress
    BY <2>2, RunParts DEF Snapshot
  <2> DEFINE Still == {i \in Nat : j + 1 + i <= Len(ordered) + 1 =>
                                     Rounds[j + 1 + i] = Snapshot}
  <2>4. 0 \in Still
    BY <2>1
  <2>5. ASSUME NEW i \in 0..Len(ordered) - 1, i \in Still PROVE i + 1 \in Still
    <3> SUFFICES ASSUME j + 1 + (i + 1) <= Len(ordered) + 1
                 PROVE  Rounds[j + 1 + (i + 1)] = Snapshot
      OBVIOUS
    <3>1. Rounds[j + 1 + i] = Snapshot
      BY <1>0, <2>5
    <3>2. /\ j + 1 + (i + 1) \in 1..Len(ordered) + 1
          /\ (j + 1 + (i + 1)) - 1 = j + 1 + i
      BY <1>0
    <3>3. Rounds[j + 1 + (i + 1)] =
            IF Rounds[j + 1 + i].progress THEN Pass(Rounds[j + 1 + i], ordered)
                                          ELSE Rounds[j + 1 + i]
      BY <1>3, <1>7, <3>2 DEF IsReplay, Return
    <3> QED BY <2>3, <3>1, <3>3
  <2>6. 0..Len(ordered) \subseteq Still
    <3> HIDE DEF Still
    <3> QED BY <1>0, <2>4, <2>5, Induction
  <2>7. \A m \in j + 1..Len(ordered) + 1 : Rounds[m] = Snapshot
    <3> TAKE m \in j + 1..Len(ordered) + 1
    <3>1. m - (j + 1) \in 0..Len(ordered) /\ j + 1 + (m - (j + 1)) = m
      BY <1>0
    <3>2. m - (j + 1) \in Still
      BY <2>6, <3>1
    <3> QED BY <3>1, <3>2
  <2>8. Rounds' = Rounds /\ Snapshot' = Snapshot
    BY <2>2 DEF Rounds, Snapshot
  <2> QED BY <2>1, <2>2, <2>7, <2>8 DEF Tracked
<1>8. CASE UNCHANGED vars
  <2>1. Rounds' = Rounds /\ Snapshot' = Snapshot
    BY <1>8 DEF vars, Rounds, Snapshot
  <2> QED BY <1>8, <2>1 DEF vars, Tracked
<1> QED BY <1>1, <1>2, <1>4, <1>6, <1>7, <1>8 DEF Next

-----------------------------------------------------------------------------
(* What arrived first *)

Whole == IInv /\ Placed /\ Counted /\ Tracked

LEMMA InitWhole == Init => Whole
<1> SUFFICES ASSUME Init PROVE Whole
  OBVIOUS
<1>1. IInv
  BY InitInv
<1>2. Placed /\ Tracked
  BY DEF Init, Placed, Tracked
<1>3. Counted
  <2>1. {k \in DOMAIN ordered : verdict[k].decision = "ACCEPTED"} = {}
        /\ Len(history) = 0
    BY DEF Init
  <2> QED BY <2>1, FS_EmptySet DEF Counted
<1> QED BY <1>1, <1>2, <1>3 DEF Whole

LEMMA NextWhole == Whole /\ [Next]_vars => Whole'
<1> SUFFICES ASSUME Whole, [Next]_vars PROVE Whole'
  OBVIOUS
<1>1. TypeOK /\ Fresh
  BY DEF Whole, IInv
<1>2. IInv' /\ Placed' /\ Counted'
  BY <1>1, NextInv, PlacedStep, CountedStep DEF Whole
<1>3. Tracked'
  BY <1>1, <1>2, TrackedStep DEF Whole
<1> QED BY <1>2, <1>3 DEF Whole

LEMMA WholeInvariance == Spec => []Whole
BY InitWhole, NextWhole, PTL DEF Spec

\* What the loop returns is what the function says.
LEMMA LoopIsReplay ==
  ASSUME Whole, pc = "done"
  PROVE  /\ replayEvents(input, Scope).payment = payment
         /\ replayEvents(input, Scope).decisions = Reported(verdict, payment)
<1>1. /\ input \in Seq(Event) /\ ordered \in Orderings(input, Scope)
      /\ Len(ordered) \in Nat
  BY DEF Whole, IInv, TypeOK, Placed
<1>2. IsReplay(Rounds, input, Scope, ordered)
  BY <1>1, RoundsAre DEF Rounds
<1>3. Rounds[Len(ordered) + 1] = Snapshot
  <2>1. PICK j \in 0..Len(ordered) :
          \A m \in j + 1..Len(ordered) + 1 : Rounds[m] = Snapshot
    BY DEF Whole, Tracked
  <2> QED BY <1>1, <2>1
<1>4. Snapshot.payment = payment /\ Snapshot.verdict = verdict
  BY DEF Snapshot, Moved, Idle
<1> QED BY <1>2, <1>3, <1>4 DEF IsReplay

\* What a replay comes to is a matter of the arrangement only.
LEMMA ReplayIsOfOrdering ==
  ASSUME NEW x \in Seq(Event), NEW y \in Seq(Event),
         NEW s \in Orderings(x, Scope), s \in Orderings(y, Scope)
  PROVE  replayEvents(x, Scope) = replayEvents(y, Scope)
<1> DEFINE n == Len(s) + 1
           F == RoundsOf(x, s)
           G == RoundsOf(y, s)
           Good == {m \in Nat : m <= n => F[m] = G[m]}
<1>1. IsReplay(F, x, Scope, s) /\ IsReplay(G, y, Scope, s) /\ n \in Nat
  BY RoundsAre
<1> HIDE DEF F, G
<1>2. /\ F[0] = G[0]
      /\ \A m \in 1..n : /\ F[m] = IF F[m - 1].progress THEN Pass(F[m - 1], s) ELSE F[m - 1]
                         /\ G[m] = IF G[m - 1].progress THEN Pass(G[m - 1], s) ELSE G[m - 1]
  BY <1>1 DEF IsReplay
<1>3. ASSUME NEW m \in 0..n - 1, m \in Good PROVE m + 1 \in Good
  <2>1. m + 1 \in 1..n /\ (m + 1) - 1 = m /\ m <= n
    BY <1>1
  <2>2. F[m] = G[m]
    BY <1>3, <2>1
  <2>3. F[m + 1] = G[m + 1]
    BY <1>2, <2>1, <2>2
  <2> QED BY <2>3
<1>4. 0..n \subseteq Good
  <2>1. 0 \in Good
    BY <1>2
  <2> HIDE DEF Good, n
  <2> QED BY <1>1, <1>3, <2>1, Induction
<1>5. F[n] = G[n]
  BY <1>1, <1>4
<1> QED BY <1>1, <1>5 DEF IsReplay

\* Whichever order the log's events arrived in, short of two versions of one
\* identity, the replay of it comes to the same payment and the same decisions,
\* and these are what the loop returns.
THEOREM ArrivalOrderDoesNotMatter == Spec => []ArrivalOrderIrrelevant
<1>1. ASSUME Whole, pc = "done",
             NEW i \in {j \in 1..Len(input) - 1 : input[j].id # input[j + 1].id}
      PROVE  replayEvents(Swapped(input, i), Scope) = replayEvents(input, Scope)
  <2>1. input \in Seq(Event)
    BY <1>1 DEF Whole, IInv, TypeOK
  <2>2. Swapped(input, i) \in Seq(Event) /\ Exchange(input, Swapped(input, i), i)
    BY <2>1 DEF Swapped, Exchange
  <2>3. Orderings(input, Scope) \subseteq Orderings(Swapped(input, i), Scope)
    BY <2>1, <2>2, EventsAreLists, ExchangeKeepsOrdering
  <2>4. ordered \in Orderings(input, Scope)
    BY <1>1 DEF Whole, Placed
  <2> QED BY <2>1, <2>2, <2>3, <2>4, ReplayIsOfOrdering
<1>2. Whole => ArrivalOrderIrrelevant
  BY <1>1, LoopIsReplay DEF ArrivalOrderIrrelevant
<1> QED BY <1>2, WholeInvariance, PTL

-----------------------------------------------------------------------------
(* What was not accepted *)

\* Position i of a list without its element k, as a position of the list.
Past(k, i) == IF i < k THEN i ELSE i + 1

\* The run has accepted event k of n.
Won(k, n, r) ==
  \E p, h, v : /\ r = Moved(p, h, v) \/ r = Idle(p, h, v)
               /\ DOMAIN v = 1..n /\ v[k].decision = "ACCEPTED"

\* Two runs that differ in this alone, that one knows event k of n, which it
\* has not accepted, and the other does not.
Same(k, n, r, q) ==
  \E p, h, v, w : /\ \/ r = Moved(p, h, v) /\ q = Moved(p, h, w)
                     \/ r = Idle(p, h, v) /\ q = Idle(p, h, w)
                  /\ DOMAIN v = 1..n /\ DOMAIN w = 1..n - 1
                  /\ \A i \in 1..n - 1 : w[i] = v[Past(k, i)]
                  /\ v[k].decision # "ACCEPTED"

LEMMA DecidedIs ==
  ASSUME NEW v, NEW n, DOMAIN v = 1..n, NEW k \in 1..n, NEW d
  PROVE  /\ DOMAIN Decided(v, k, d) = 1..n /\ Decided(v, k, d)[k] = d
         /\ \A i \in 1..n : i # k => Decided(v, k, d)[i] = v[i]
BY DEF Decided

LEMMA PastIs ==
  ASSUME NEW n \in Nat, NEW k \in 1..n
  PROVE  /\ \A i \in 1..n - 1 : Past(k, i) \in 1..n /\ Past(k, i) # k
         /\ \A i, j \in 1..n - 1 : Past(k, i) = Past(k, j) => i = j
BY DEF Past

\* An offer in which the two runs take part alike.
LEMMA OfferOthers ==
  ASSUME NEW n \in Nat, NEW k \in 1..n, NEW r, NEW q, Same(k, n, r, q),
         NEW i \in 1..n - 1, NEW e
  PROVE  Same(k, n, Offer(r, e, Past(k, i)), Offer(q, e, i))
<1>1. PICK p, h, v, w :
        /\ \/ r = Moved(p, h, v) /\ q = Moved(p, h, w)
           \/ r = Idle(p, h, v) /\ q = Idle(p, h, w)
        /\ DOMAIN v = 1..n /\ DOMAIN w = 1..n - 1
        /\ \A x \in 1..n - 1 : w[x] = v[Past(k, x)]
        /\ v[k].decision # "ACCEPTED"
  BY DEF Same
<1> DEFINE y == Past(k, i)
           d == Attempt(p, e, h)
           v1 == Decided(v, y, d)
           w1 == Decided(w, i, d)
<1>2. y \in 1..n /\ y # k /\ w[i] = v[y]
  BY <1>1, PastIs
<1>3. CASE v[y] # Open \/ d.decision = "DELAYED"
  <2>1. Offer(r, e, y) = r /\ Offer(q, e, i) = q
    BY <1>1, <1>2, <1>3, OfferSkips
  <2> QED BY <2>1
<1>4. CASE v[y] = Open /\ d.decision # "DELAYED"
  <2>1. /\ DOMAIN v1 = 1..n /\ DOMAIN w1 = 1..n - 1
        /\ \A x \in 1..n - 1 : w1[x] = v1[Past(k, x)]
        /\ v1[k].decision # "ACCEPTED"
    <3>1. /\ DOMAIN v1 = 1..n /\ v1[y] = d
          /\ \A x \in 1..n : x # y => v1[x] = v[x]
      BY <1>1, <1>2, DecidedIs
    <3>2. /\ DOMAIN w1 = 1..n - 1 /\ w1[i] = d
          /\ \A x \in 1..n - 1 : x # i => w1[x] = w[x]
      BY <1>1, DecidedIs
    <3>3. \A x \in 1..n - 1 : x # i => Past(k, x) \in 1..n /\ Past(k, x) # y
      BY PastIs
    <3> HIDE DEF v1, w1
    <3> QED BY <1>1, <1>2, <3>1, <3>2, <3>3
  <2>2. CASE d.decision = "ACCEPTED"
    <3>1. /\ Offer(r, e, y) = Moved(createPayment(p, e), Append(h, e), v1)
          /\ Offer(q, e, i) = Moved(createPayment(p, e), Append(h, e), w1)
      BY <1>1, <1>2, <1>4, <2>2, OfferAccepts
    <3> HIDE DEF v1, w1, y
    <3> QED BY <2>1, <3>1 DEF Same, y
  <2>3. CASE d.decision # "ACCEPTED"
    <3>1. /\ Offer(r, e, y) = IF r = Moved(p, h, v) THEN Moved(p, h, v1) ELSE Idle(p, h, v1)
          /\ Offer(q, e, i) = IF q = Moved(p, h, w) THEN Moved(p, h, w1) ELSE Idle(p, h, w1)
      BY <1>1, <1>2, <1>4, <2>3, OfferSettles
    <3>2. r = Moved(p, h, v) <=> q = Moved(p, h, w)
      BY <1>1, RunParts
    <3> HIDE DEF v1, w1, y
    <3> QED BY <1>1, <2>1, <3>1, <3>2, SMTT(40) DEF Same, y
  <2> QED BY <2>2, <2>3
<1> QED BY <1>3, <1>4

\* The offer of event k itself.
LEMMA OfferOfIt ==
  ASSUME NEW n \in Nat, NEW k \in 1..n, NEW r, NEW q, Same(k, n, r, q), NEW e
  PROVE  Same(k, n, Offer(r, e, k), q) \/ Won(k, n, Offer(r, e, k))
<1>1. PICK p, h, v, w :
        /\ \/ r = Moved(p, h, v) /\ q = Moved(p, h, w)
           \/ r = Idle(p, h, v) /\ q = Idle(p, h, w)
        /\ DOMAIN v = 1..n /\ DOMAIN w = 1..n - 1
        /\ \A x \in 1..n - 1 : w[x] = v[Past(k, x)]
        /\ v[k].decision # "ACCEPTED"
  BY DEF Same
<1> DEFINE d == Attempt(p, e, h)
           v1 == Decided(v, k, d)
<1>2. /\ DOMAIN v1 = 1..n /\ v1[k] = d
      /\ \A x \in 1..n : x # k => v1[x] = v[x]
  BY <1>1, DecidedIs
<1>3. CASE v[k] # Open \/ d.decision = "DELAYED"
  <2>1. Offer(r, e, k) = r
    BY <1>1, <1>3, OfferSkips
  <2> QED BY <2>1
<1>4. CASE v[k] = Open /\ d.decision = "ACCEPTED"
  <2>1. Offer(r, e, k) = Moved(createPayment(p, e), Append(h, e), v1)
    BY <1>1, <1>4, OfferAccepts
  <2> HIDE DEF v1
  <2> QED BY <1>2, <1>4, <2>1 DEF Won
<1>5. CASE v[k] = Open /\ d.decision \notin {"ACCEPTED", "DELAYED"}
  <2>1. Offer(r, e, k) = IF r = Moved(p, h, v) THEN Moved(p, h, v1) ELSE Idle(p, h, v1)
    BY <1>1, <1>5, OfferSettles
  <2>2. r = Moved(p, h, v) <=> q = Moved(p, h, w)
    BY <1>1, RunParts
  <2>3. \A x \in 1..n - 1 : w[x] = v1[Past(k, x)]
    <3> HIDE DEF v1
    <3> QED BY <1>1, <1>2, PastIs
  <2>4. DOMAIN v1 = 1..n /\ v1[k].decision # "ACCEPTED"
    BY <1>2, <1>5, Zenon
  <2>5. \/ Offer(r, e, k) = Moved(p, h, v1) /\ q = Moved(p, h, w)
        \/ Offer(r, e, k) = Idle(p, h, v1) /\ q = Idle(p, h, w)
    BY <1>1, <2>1, <2>2
  <2> HIDE DEF v1
  <2> QED BY <1>1, <2>3, <2>4, <2>5, SMTT(40) DEF Same
<1> QED BY <1>3, <1>4, <1>5

\* An accepted event stays accepted.
LEMMA OfferKeepsWon ==
  ASSUME NEW n \in Nat, NEW k \in 1..n, NEW r, Won(k, n, r), NEW x \in 1..n, NEW e
  PROVE  Won(k, n, Offer(r, e, x))
<1>1. PICK p, h, v : /\ r \in {Moved(p, h, v), Idle(p, h, v)}
                     /\ DOMAIN v = 1..n /\ v[k].decision = "ACCEPTED"
  BY DEF Won
<1> DEFINE d == Attempt(p, e, h)
           v1 == Decided(v, x, d)
<1>2. DOMAIN v1 = 1..n /\ \A y \in 1..n : y # x => v1[y] = v[y]
  BY <1>1, DecidedIs
<1>3. CASE v[x] # Open \/ d.decision = "DELAYED"
  <2>1. Offer(r, e, x) = r
    BY <1>1, <1>3, OfferSkips
  <2> QED BY <2>1
<1>4. CASE v[x] = Open /\ d.decision # "DELAYED"
  <2>1. v1[k].decision = "ACCEPTED"
    <3>1. x # k
      BY <1>1, <1>4 DEF Open, decisionRecord
    <3> HIDE DEF v1
    <3> QED BY <1>1, <1>2, <3>1
  <2>2. CASE d.decision = "ACCEPTED"
    <3>1. Offer(r, e, x) = Moved(createPayment(p, e), Append(h, e), v1)
      BY <1>1, <1>4, <2>2, OfferAccepts
    <3> HIDE DEF v1
    <3> QED BY <1>2, <2>1, <3>1 DEF Won
  <2>3. CASE d.decision # "ACCEPTED"
    <3>1. Offer(r, e, x) = IF r = Moved(p, h, v) THEN Moved(p, h, v1) ELSE Idle(p, h, v1)
      BY <1>1, <1>4, <2>3, OfferSettles
    <3> HIDE DEF v1
    <3> QED BY <1>2, <2>1, <3>1 DEF Won
  <2> QED BY <2>2, <2>3
<1> QED BY <1>3, <1>4

\* A run that rests with event k accepted.
LEMMA IdleWon ==
  ASSUME NEW n, NEW k, NEW p, NEW h, NEW v, DOMAIN v = 1..n, v[k].decision = "ACCEPTED"
  PROVE  Won(k, n, Idle(p, h, v))
BY Zenon DEF Won

\* A pass keeps what is accepted, and takes the two runs to runs that differ in
\* event k alone, unless it accepts it.
LEMMA PassKeepsWon ==
  ASSUME NEW s \in Seq(Event), NEW k \in 1..Len(s), NEW r, Won(k, Len(s), r)
  PROVE  Won(k, Len(s), Pass(r, s))
<1> DEFINE n == Len(s)
           F == Within(r, s)
           Good == {i \in Nat : i <= n => Won(k, n, F[i])}
<1>1. n \in Nat
  OBVIOUS
<1>2. IsPass(F, r, s)
  BY WithinIs
<1>3. /\ \A i \in 1..n : F[i] = Offer(F[i - 1], s[i], i)
      /\ Pass(r, s) = F[n]
  BY <1>2 DEF IsPass
<1>4. PICK p, h, v : /\ r \in {Moved(p, h, v), Idle(p, h, v)}
                     /\ DOMAIN v = 1..n /\ v[k].decision = "ACCEPTED"
  BY DEF Won
<1> HIDE DEF F, n
<1>5. 0 \in Good
  <2>1. F[0] = Idle(p, h, v)
    BY <1>2, <1>4, RunParts
  <2>2. Won(k, n, F[0])
    <3>1. Won(k, n, Idle(p, h, v))
      BY <1>4, IdleWon
    <3> QED BY <2>1, <3>1, Zenon
  <2> QED BY <2>2
<1>6. ASSUME NEW i \in 0..n - 1, i \in Good PROVE i + 1 \in Good
  <2>1. i + 1 \in 1..n /\ (i + 1) - 1 = i /\ i <= n
    BY <1>1
  <2>2. Won(k, n, F[i]) /\ F[i + 1] = Offer(F[i], s[i + 1], i + 1)
    BY <1>3, <1>6, <2>1
  <2>3. Won(k, n, Offer(F[i], s[i + 1], i + 1))
    BY <1>1, <2>1, <2>2, OfferKeepsWon DEF n
  <2> QED BY <1>1, <2>2, <2>3
<1>7. 0..n \subseteq Good
  <2> HIDE DEF Good
  <2> QED BY <1>1, <1>5, <1>6, Induction
<1>8. Won(k, n, F[n])
  BY <1>1, <1>7
<1> QED BY <1>3, <1>8 DEF n

\* The list t is the list s without its element k.
Without(s, k, t) ==
  /\ Len(t) = Len(s) - 1
  /\ \A i \in 1..Len(s) - 1 : t[i] = s[Past(k, i)]

LEMMA PassKeepsSame ==
  ASSUME NEW s \in Seq(Event), NEW k \in 1..Len(s), NEW t \in Seq(Event),
         Without(s, k, t), NEW r, NEW q, Same(k, Len(s), r, q)
  PROVE  Same(k, Len(s), Pass(r, s), Pass(q, t)) \/ Won(k, Len(s), Pass(r, s))
<1> DEFINE n == Len(s)
           F == Within(r, s)
           H == Within(q, t)
           B(i) == IF i < k THEN i ELSE i - 1
           Good == {i \in Nat : i <= n => Same(k, n, F[i], H[B(i)]) \/ Won(k, n, F[i])}
<1>1. n \in Nat /\ Len(t) = n - 1
  BY DEF Without
<1>2. IsPass(F, r, s) /\ IsPass(H, q, t)
  BY WithinIs
<1>3. /\ \A i \in 1..n : F[i] = Offer(F[i - 1], s[i], i)
      /\ \A i \in 1..n - 1 : H[i] = Offer(H[i - 1], s[Past(k, i)], i)
      /\ Pass(r, s) = F[n] /\ Pass(q, t) = H[n - 1]
  BY <1>1, <1>2 DEF IsPass, Without
<1>4. PICK p, h, v, w :
        /\ \/ r = Moved(p, h, v) /\ q = Moved(p, h, w)
           \/ r = Idle(p, h, v) /\ q = Idle(p, h, w)
        /\ DOMAIN v = 1..n /\ DOMAIN w = 1..n - 1
        /\ \A x \in 1..n - 1 : w[x] = v[Past(k, x)]
        /\ v[k].decision # "ACCEPTED"
  BY DEF Same
<1>5. k \in 1..n
  OBVIOUS
<1> HIDE DEF F, H, n
<1>6. 0 \in Good
  <2>1. F[0] = Idle(p, h, v) /\ H[0] = Idle(p, h, w)
    BY <1>2, <1>4, RunParts
  <2>2. B(0) = 0
    BY <1>1, <1>5
  <2>3. Same(k, n, F[0], H[0])
    <3>1. \E p1, h1, v1, w1 :
            /\ \/ Idle(p, h, v) = Moved(p1, h1, v1) /\ Idle(p, h, w) = Moved(p1, h1, w1)
               \/ Idle(p, h, v) = Idle(p1, h1, v1) /\ Idle(p, h, w) = Idle(p1, h1, w1)
            /\ DOMAIN v1 = 1..n /\ DOMAIN w1 = 1..n - 1
            /\ \A i \in 1..n - 1 : w1[i] = v1[Past(k, i)]
            /\ v1[k].decision # "ACCEPTED"
      <4> WITNESS p, h, v, w
      <4> QED BY <1>4, Zenon
    <3>2. Same(k, n, Idle(p, h, v), Idle(p, h, w))
      BY <3>1, Zenon DEF Same
    <3> QED BY <2>1, <3>2, Zenon
  <2> QED BY <2>2, <2>3
<1>7. ASSUME NEW i \in 0..n - 1, i \in Good PROVE i + 1 \in Good
  <2>1. i + 1 \in 1..n /\ (i + 1) - 1 = i /\ i <= n
    BY <1>1
  <2>2. F[i + 1] = Offer(F[i], s[i + 1], i + 1)
    BY <1>3, <2>1
  <2>3. CASE Won(k, n, F[i])
    <3>1. Won(k, n, Offer(F[i], s[i + 1], i + 1))
      BY <1>1, <1>5, <2>1, <2>3, OfferKeepsWon
    <3> QED BY <1>1, <2>2, <3>1
  <2>4. CASE Same(k, n, F[i], H[B(i)])
    <3>1. CASE i + 1 = k
      <4>1. B(i) = i /\ B(i + 1) = i
        BY <1>1, <1>5, <3>1
      <4>2. Same(k, n, Offer(F[i], s[i + 1], k), H[i]) \/ Won(k, n, Offer(F[i], s[i + 1], k))
        BY <1>1, <1>5, <2>4, <4>1, OfferOfIt
      <4> QED BY <1>1, <2>2, <3>1, <4>1, <4>2
    <3>2. CASE i + 1 # k
      <4> DEFINE j == B(i + 1)
      <4>1. j \in 1..n - 1 /\ j - 1 = B(i) /\ Past(k, j) = i + 1
        BY <1>1, <1>5, <2>1, <3>2 DEF Past
      <4> HIDE DEF j
      <4>2. H[j] = Offer(H[B(i)], s[i + 1], j)
        BY <1>3, <4>1
      <4>3. Same(k, n, Offer(F[i], s[i + 1], Past(k, j)), Offer(H[B(i)], s[i + 1], j))
        BY <1>1, <1>5, <2>4, <4>1, OfferOthers
      <4>4. Same(k, n, F[i + 1], H[j])
        BY <2>2, <4>1, <4>2, <4>3
      <4> QED BY <1>1, <4>4 DEF j
    <3> QED BY <3>1, <3>2
  <2> QED BY <1>1, <1>7, <2>3, <2>4
<1>8. 0..n \subseteq Good
  <2> HIDE DEF Good
  <2> QED BY <1>1, <1>6, <1>7, Induction
<1>9. Same(k, n, F[n], H[n - 1]) \/ Won(k, n, F[n])
  <2>1. n \in Good /\ B(n) = n - 1
    BY <1>1, <1>5, <1>8
  <2> QED BY <1>1, <2>1
<1> QED BY <1>3, <1>9 DEF n

\* After as many passes, too, the runs differ in event k alone, unless it has
\* been accepted.
LEMMA RoundsKeepSame ==
  ASSUME NEW s \in Seq(Event), NEW k \in 1..Len(s), NEW t \in Seq(Event),
         Without(s, k, t), NEW F, NEW G, NEW x, NEW y,
         IsReplay(F, x, Scope, s), IsReplay(G, y, Scope, t)
  PROVE  Same(k, Len(s), F[Len(s)], G[Len(s)]) \/ Won(k, Len(s), F[Len(s)])
<1> DEFINE n == Len(s)
           Good == {m \in Nat : m <= n => Same(k, n, F[m], G[m]) \/ Won(k, n, F[m])}
<1>1. n \in Nat /\ Len(t) = n - 1 /\ k \in 1..n /\ DOMAIN s = 1..n /\ DOMAIN t = 1..n - 1
  BY DEF Without
<1>2. /\ F[0] = Started(s) /\ G[0] = Started(t)
      /\ \A m \in 1..n : /\ F[m] = IF F[m - 1].progress THEN Pass(F[m - 1], s) ELSE F[m - 1]
                         /\ G[m] = IF G[m - 1].progress THEN Pass(G[m - 1], t) ELSE G[m - 1]
  BY <1>1 DEF IsReplay
<1> HIDE DEF n
<1>3. 0 \in Good
  <2> DEFINE v == [i \in 1..n |-> Open]
             w == [i \in 1..n - 1 |-> Open]
  <2>1. F[0] = Moved(NoPayment, << >>, v) /\ G[0] = Moved(NoPayment, << >>, w)
    BY <1>1, <1>2 DEF Started, Moved
  <2>2. /\ DOMAIN v = 1..n /\ DOMAIN w = 1..n - 1
        /\ \A i \in 1..n - 1 : w[i] = v[Past(k, i)]
        /\ v[k].decision # "ACCEPTED"
    BY <1>1, PastIs DEF Open, decisionRecord
  <2> HIDE DEF v, w
  <2> QED BY <2>1, <2>2 DEF Same
<1>4. ASSUME NEW m \in 0..n - 1, m \in Good PROVE m + 1 \in Good
  <2>1. m + 1 \in 1..n /\ (m + 1) - 1 = m /\ m <= n
    BY <1>1
  <2>2. /\ F[m + 1] = IF F[m].progress THEN Pass(F[m], s) ELSE F[m]
        /\ G[m + 1] = IF G[m].progress THEN Pass(G[m], t) ELSE G[m]
    BY <1>2, <2>1
  <2>3. CASE Won(k, n, F[m])
    <3>1. Won(k, n, Pass(F[m], s))
      BY <2>3, PassKeepsWon DEF n
    <3> QED BY <1>1, <2>2, <2>3, <3>1
  <2>4. CASE Same(k, n, F[m], G[m])
    <3>1. F[m].progress <=> G[m].progress
      BY <2>4, RunParts DEF Same
    <3>2. Same(k, n, Pass(F[m], s), Pass(G[m], t)) \/ Won(k, n, Pass(F[m], s))
      BY <2>4, PassKeepsSame DEF n
    <3> QED BY <1>1, <2>2, <2>4, <3>1, <3>2
  <2> QED BY <1>1, <1>4, <2>3, <2>4
<1>5. 0..n \subseteq Good
  <2> HIDE DEF Good
  <2> QED BY <1>1, <1>3, <1>4, Induction
<1>6. Same(k, n, F[n], G[n]) \/ Won(k, n, F[n])
  BY <1>1, <1>5
<1> QED BY <1>6 DEF n

\* A list of the payment's events in replay order is its own arrangement.
InOrder(s) == \A i, j \in DOMAIN s : i < j => ~Precedes(s[j], s[i])

LEMMA SortedIsOrdering ==
  ASSUME NEW s \in Seq(Event), \A k \in DOMAIN s : s[k].pay = Scope, InOrder(s)
  PROVE  s \in Orderings(s, Scope)
<1> DEFINE D == 1..Cardinality(InScope(s, Scope))
           p == [i \in D |-> i]
<1>1. InScope(s, Scope) = 1..Len(s) /\ Len(s) \in Nat /\ DOMAIN s = 1..Len(s)
  BY DEF InScope
<1>2. D = DOMAIN s /\ D = InScope(s, Scope)
  BY <1>1, UpTo
<1> HIDE DEF D
<1>3. p \in [D -> InScope(s, Scope)]
  BY <1>2
<1>4. \A i, j \in D : i < j => Before(s, p[i], p[j])
  <2> TAKE i, j \in D
  <2>1. p[i] = i /\ p[j] = j /\ i \in DOMAIN s /\ j \in DOMAIN s
    BY <1>2
  <2> QED BY <2>1 DEF InOrder, Before
<1>5. s = [i \in D |-> s[p[i]]]
  <2>1. s = [i \in D |-> s[i]]
    <3>1. s \in [1..Len(s) -> Event]
      BY SeqDef
    <3>2. s \in [D -> Event]
      BY <1>1, <1>2, <3>1
    <3> QED BY <3>2
  <2>2. \A i \in D : p[i] = i
    OBVIOUS
  <2> HIDE DEF p
  <2> QED BY <2>1, <2>2
<1> HIDE DEF p
<1>6. p \in {q \in [D -> InScope(s, Scope)] :
              \A i, j \in D : i < j => Before(s, q[i], q[j])}
  BY <1>3, <1>4
<1>7. \E q \in {q \in [D -> InScope(s, Scope)] :
              \A i, j \in D : i < j => Before(s, q[i], q[j])} :
        s = [i \in D |-> s[q[i]]]
  BY <1>5, <1>6, Zenon
<1> QED BY <1>7, Zenon DEF Orderings, D

LEMMA OrderingIsSorted ==
  ASSUME NEW events \in Seq(Event), NEW s \in Orderings(events, Scope)
  PROVE  InOrder(s)
<1> DEFINE S == InScope(events, Scope)
           D == 1..Cardinality(S)
<1>1. PICK p \in [D -> S] : /\ \A i, j \in D : i < j => Before(events, p[i], p[j])
                            /\ s = [k \in D |-> events[p[k]]]
  BY DEF Orderings
<1>2. \A i \in S : events[i].at \in Nat /\ events[i].id \in Nat
  BY EventAssumption DEF InScope
<1> HIDE DEF S, D
<1>3. ASSUME NEW i \in D, NEW j \in D, i < j PROVE ~Precedes(s[j], s[i])
  <2>1. Before(events, p[i], p[j]) /\ s[i] = events[p[i]] /\ s[j] = events[p[j]]
    BY <1>1, <1>3
  <2>2. s[i].at \in Nat /\ s[i].id \in Nat /\ s[j].at \in Nat /\ s[j].id \in Nat
    BY <1>1, <1>2, <2>1
  <2> QED BY <2>1, <2>2 DEF Before, Precedes
<1>4. DOMAIN s = D
  BY <1>1
<1> QED BY <1>3, <1>4 DEF InOrder

LEMMA RemovedIs ==
  ASSUME NEW s \in Seq(Event), NEW k \in DOMAIN s
  PROVE  RemoveAt(s, k) \in Seq(Event) /\ Without(s, k, RemoveAt(s, k))
<1> DEFINE a == SubSeq(s, 1, k - 1)
           b == SubSeq(s, k + 1, Len(s))
<1>1. Len(s) \in Nat /\ k \in 1..Len(s)
  OBVIOUS
<1>2. /\ a \in Seq(Event) /\ Len(a) = k - 1
      /\ \A i \in 1..k - 1 : a[i] = s[i]
  BY <1>1
<1>3. /\ b \in Seq(Event) /\ Len(b) = Len(s) - k
      /\ \A i \in 1..Len(s) - k : b[i] = s[k + i]
  BY <1>1
<1>4. RemoveAt(s, k) = a \o b
  BY DEF RemoveAt
<1> HIDE DEF a, b
<1>5. /\ a \o b \in Seq(Event) /\ Len(a \o b) = Len(s) - 1
      /\ \A i \in 1..Len(s) - 1 : (a \o b)[i] = IF i < k THEN a[i] ELSE b[i - (k - 1)]
  <2>1. a \o b \in Seq(Event) /\ Len(a \o b) = Len(a) + Len(b)
    BY <1>2, <1>3, ConcatProperties
  <2>2. \A i \in 1..Len(a) + Len(b) :
          (a \o b)[i] = IF i <= Len(a) THEN a[i] ELSE b[i - Len(a)]
    BY <1>2, <1>3, ConcatProperties
  <2> QED BY <1>1, <1>2, <1>3, <2>1, <2>2, SMTT(40)
<1>6. ASSUME NEW i \in 1..Len(s) - 1 PROVE (a \o b)[i] = s[Past(k, i)]
  <2>1. CASE i < k
    BY <1>1, <1>2, <1>5, <2>1 DEF Past
  <2>2. CASE ~(i < k)
    <3>1. i - (k - 1) \in 1..Len(s) - k /\ k + (i - (k - 1)) = i + 1
      BY <1>1, <2>2
    <3> QED BY <1>1, <1>3, <1>5, <2>2, <3>1 DEF Past
  <2> QED BY <2>1, <2>2
<1> QED BY <1>4, <1>5, <1>6 DEF Without

\* The payment is what it would be had the events that were not accepted never
\* been there, any one of them: they are leftovers, duplicates or conflicts,
\* and no later decision rests on them.
THEOREM UnacceptedLeaveNoTrace == Spec => []UnacceptedEventsInert
<1>1. ASSUME Whole, pc = "done", NEW k \in DOMAIN ordered,
             verdict[k].decision # "ACCEPTED"
      PROVE  replayEvents(RemoveAt(ordered, k), Scope).payment = payment
  <2> DEFINE n == Len(ordered)
             t == RemoveAt(ordered, k)
             G == RoundsOf(t, t)
  <2>1. /\ input \in Seq(Event) /\ ordered \in Seq(Event) /\ n \in Nat /\ k \in 1..n
        /\ ordered \in Orderings(input, Scope) /\ TypeOK /\ Counted
        /\ \A x \in DOMAIN ordered : ordered[x].pay = Scope
    BY <1>1 DEF Whole, IInv, TypeOK, Placed, Scoped
  <2>2. t \in Seq(Event) /\ Without(ordered, k, t)
    BY <2>1, RemovedIs
  <2> HIDE DEF t
  <2>3. t \in Orderings(t, Scope)
    <3>1. /\ Len(t) = n - 1 /\ DOMAIN t = 1..n - 1
          /\ \A i \in 1..n - 1 : t[i] = ordered[Past(k, i)] /\ Past(k, i) \in 1..n
      BY <2>1, <2>2, PastIs, SMTT(40) DEF Without
    <3>2. InOrder(ordered)
      BY <2>1, OrderingIsSorted
    <3>3. \A i, j \in 1..n - 1 : i < j => Past(k, i) < Past(k, j)
      BY <2>1 DEF Past
    <3>4. DOMAIN ordered = 1..n
      BY <2>1
    <3>5. InOrder(t)
      BY <3>1, <3>2, <3>3, <3>4 DEF InOrder
    <3>6. \A i \in DOMAIN t : t[i].pay = Scope
      BY <2>1, <3>1, <3>4
    <3> QED BY <2>2, <3>5, <3>6, SortedIsOrdering
  <2>4. /\ IsReplay(Rounds, input, Scope, ordered)
        /\ IsReplay(G, t, Scope, t)
    BY <2>1, <2>2, <2>3, RoundsAre DEF Rounds
  <2>5. Rounds[n] = Snapshot
    <3>1. PICK j \in 0..n : /\ j <= Len(history)
                            /\ \A m \in j + 1..n + 1 : Rounds[m] = Snapshot
      BY <1>1 DEF Whole, Tracked
    <3>2. Len(history) < n
      <4>1. Len(history) <= n /\ Len(history) # n
        BY <1>1, <2>1, HistoryBounded
      <4>2. Len(history) \in Nat
        BY <2>1 DEF TypeOK
      <4> QED BY <2>1, <4>1, <4>2
    <3>3. n \in j + 1..n + 1
      <4>1. Len(history) \in Nat
        BY <2>1 DEF TypeOK
      <4> QED BY <2>1, <3>1, <3>2, <4>1
    <3> QED BY <3>1, <3>3
  <2>6. Same(k, n, Rounds[n], G[n]) \/ Won(k, n, Rounds[n])
    BY <2>1, <2>2, <2>4, RoundsKeepSame
  <2>7. ~Won(k, n, Snapshot)
    <3>1. Snapshot.verdict = verdict
      BY DEF Snapshot, Moved, Idle
    <3>2. \A p, h, v : Snapshot \in {Moved(p, h, v), Idle(p, h, v)} => Snapshot.verdict = v
      BY DEF Moved, Idle
    <3> QED BY <1>1, <3>1, <3>2 DEF Won
  <2>8. G[n].payment = payment
    <3>1. Same(k, n, Snapshot, G[n])
      BY <2>5, <2>6, <2>7
    <3>2. G[n].payment = Snapshot.payment
      BY <3>1 DEF Same, Moved, Idle
    <3>3. Snapshot.payment = payment
      BY DEF Snapshot, Moved, Idle
    <3> QED BY <3>2, <3>3
  <2>9. Len(t) + 1 = n
    BY <2>1, <2>2 DEF Without
  <2> QED BY <2>4, <2>8, <2>9 DEF IsReplay, t
<1>2. Whole => UnacceptedEventsInert
  BY <1>1 DEF UnacceptedEventsInert
<1> QED BY <1>2, WholeInvariance, PTL
=============================================================================
