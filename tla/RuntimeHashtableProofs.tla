----------------------- MODULE RuntimeHashtableProofs -----------------------
(***************************************************************************)
(* Proofs about module RuntimeHashtable, for every hash function and any   *)
(* number of pairs: where the pairs are, how many there are, when the      *)
(* table grows, and that it is a multimap.                                 *)
(***************************************************************************)
EXTENDS RuntimeHashtable, FiniteSetTheorems, FunctionTheorems, TLAPS
-----------------------------------------------------------------------------
(* The order in which the places of a table are visited. *)
Place == Nat \X Nat
FinitePlaces(P) == P \in SUBSET Place /\ IsFiniteSet(P)

(* The order is total. *)
LEMMA OrderTotal ==
  /\ \A p \in Place : NotAfter(p, p)
  /\ \A p, q \in Place : NotAfter(p, q) \/ NotAfter(q, p)
  /\ \A p, q \in Place : NotAfter(p, q) /\ NotAfter(q, p) => p = q
<1>1. \A p \in Place : p = <<p[1], p[2]>> /\ p[1] \in Nat /\ p[2] \in Nat
  BY DEF Place
<1> QED BY <1>1 DEF NotAfter

(* The order of the places is transitive. *)
LEMMA OrderTransitive ==
  ASSUME NEW p \in Place, NEW q \in Place, NEW r \in Place,
         NotAfter(p, q), NotAfter(q, r)
  PROVE  NotAfter(p, r)
<1>1. p[1] \in Nat /\ q[1] \in Nat /\ r[1] \in Nat
  BY DEF Place
<1>2. p[2] \in Nat /\ q[2] \in Nat /\ r[2] \in Nat
  BY DEF Place
<1> QED BY <1>1, <1>2 DEF NotAfter

(* A turn is one of as many numbers as there are places. *)
LEMMA TurnRange ==
  ASSUME NEW P, FinitePlaces(P), NEW p \in P
  PROVE  Turn(P, p) \in 1 .. Cardinality(P) /\ Cardinality(P) \in Nat
<1> DEFINE Q == {q \in P : NotAfter(q, p)}
<1>1. Q \in SUBSET P /\ p \in Q
  BY OrderTotal DEF FinitePlaces
<1>2. Turn(P, p) = Cardinality(Q)
  BY DEF Turn
<1> HIDE DEF Q
<1>3. IsFiniteSet(Q) /\ Cardinality(Q) <= Cardinality(P)
  BY <1>1, FS_Subset DEF FinitePlaces
<1>4. Cardinality(Q) \in Nat /\ Cardinality(P) \in Nat
  BY <1>3, FS_CardinalityType DEF FinitePlaces
<1>5. Cardinality(Q) # 0
  BY <1>1, <1>3, FS_EmptySet
<1> QED BY <1>2, <1>3, <1>4, <1>5

(* The turns follow the order. *)
LEMMA TurnGrows ==
  ASSUME NEW P, FinitePlaces(P), NEW p \in P, NEW q \in P, ~NotAfter(q, p)
  PROVE  Turn(P, p) < Turn(P, q)
<1> DEFINE A == {r \in P : NotAfter(r, p)}
<1> DEFINE B == {r \in P : NotAfter(r, q)}
<1>1. p \in Place /\ q \in Place /\ P \in SUBSET Place
  BY DEF FinitePlaces
<1>2. NotAfter(p, q) /\ NotAfter(q, q)
  BY <1>1, OrderTotal
<1>3. ASSUME NEW r \in A
      PROVE  r \in B
  BY <1>1, <1>2, OrderTransitive
<1>4. A \in SUBSET B /\ q \in B /\ q \notin A /\ B \in SUBSET P
  BY <1>2, <1>3
<1>5. Turn(P, p) = Cardinality(A) /\ Turn(P, q) = Cardinality(B)
  BY DEF Turn
<1> HIDE DEF A, B
<1>6. IsFiniteSet(B)
  BY <1>4, FS_Subset DEF FinitePlaces
<1>7. IsFiniteSet(A) /\ Cardinality(A) <= Cardinality(B) /\ Cardinality(A) # Cardinality(B)
  BY <1>4, <1>6, FS_Subset
<1>8. Cardinality(A) \in Nat /\ Cardinality(B) \in Nat
  BY <1>6, <1>7, FS_CardinalityType
<1> QED BY <1>5, <1>7, <1>8

(* The turns are in the order of the places, and no two places have one    *)
(* turn.                                                                   *)
LEMMA TurnOrder ==
  ASSUME NEW P, FinitePlaces(P), NEW p \in P, NEW q \in P
  PROVE  /\ NotAfter(p, q) <=> Turn(P, p) <= Turn(P, q)
         /\ Turn(P, p) = Turn(P, q) => p = q
<1>1. p \in Place /\ q \in Place
  BY DEF FinitePlaces
<1>2. Turn(P, p) \in Nat /\ Turn(P, q) \in Nat
  BY TurnRange
<1>3. ~NotAfter(q, p) => Turn(P, p) < Turn(P, q)
  BY TurnGrows
<1>4. ~NotAfter(p, q) => Turn(P, q) < Turn(P, p)
  BY TurnGrows
<1>5. (NotAfter(p, q) \/ NotAfter(q, p)) /\ (NotAfter(p, q) /\ NotAfter(q, p) => p = q)
  BY <1>1, OrderTotal
<1> QED BY <1>2, <1>3, <1>4, <1>5

(* Every number has its place. *)
LEMMA TurnOnto ==
  ASSUME NEW P, FinitePlaces(P), NEW n \in 1 .. Cardinality(P)
  PROVE  \E p \in P : Turn(P, p) = n
<1> DEFINE N == Cardinality(P)
<1> DEFINE f == [p \in P |-> Turn(P, p)]
<1>1. N \in Nat
  BY FS_CardinalityType DEF FinitePlaces
<1>2. \A p \in P : f[p] = Turn(P, p) /\ f[p] \in 1 .. N
  BY TurnRange
<1>3. f \in [P -> 1 .. N]
  BY <1>2
<1>4. \A p, q \in P : f[p] = f[q] => p = q
  BY <1>2, TurnOrder
<1> HIDE DEF f
<1>5. f \in Injection(P, 1 .. N)
  BY <1>3, <1>4, Fun_IsInj
<1> HIDE DEF N
<1>6. IsFiniteSet(1 .. N) /\ Cardinality(1 .. N) = N
  BY <1>1, FS_Interval
<1>7. f \in Surjection(P, 1 .. N)
  BY <1>5, <1>6, FS_Injection DEF N
<1>8. \A m \in 1 .. N : \E p \in P : f[p] = m
  BY <1>7, Fun_SurjectionProperties
<1> QED BY <1>2, <1>8 DEF N

(* The n-th place is the one whose turn is n. *)
LEMMA NthIs ==
  ASSUME NEW P, FinitePlaces(P)
  PROVE  /\ \A n \in 1 .. Cardinality(P) : Nth(P, n) \in P /\ Turn(P, Nth(P, n)) = n
         /\ \A p \in P : Nth(P, Turn(P, p)) = p
<1>1. ASSUME NEW n \in 1 .. Cardinality(P)
      PROVE  Nth(P, n) \in P /\ Turn(P, Nth(P, n)) = n
  BY TurnOnto DEF Nth
<1>2. ASSUME NEW p \in P
      PROVE  Nth(P, Turn(P, p)) = p
  <2>1. Turn(P, p) \in 1 .. Cardinality(P)
    BY TurnRange
  <2>2. Nth(P, Turn(P, p)) \in P /\ Turn(P, Nth(P, Turn(P, p))) = Turn(P, p)
    BY <1>1, <2>1
  <2> QED BY <2>2, TurnOrder
<1> QED BY <1>1, <1>2
-----------------------------------------------------------------------------
(* Sets that are counted, and ordered, alike. *)
LEMMA SameCount ==
  ASSUME NEW S, NEW T, IsFiniteSet(S), NEW f \in [S -> T],
         \A x, y \in S : f[x] = f[y] => x = y,
         \A y \in T : \E x \in S : f[x] = y
  PROVE  IsFiniteSet(T) /\ Cardinality(T) = Cardinality(S)
<1>1. f \in Bijection(S, T)
  BY Fun_IsBij
<1>2. ExistsBijection(S, T)
  BY <1>1 DEF ExistsBijection
<1> QED BY <1>2, FS_Bijection

(* A map onto that keeps the order both ways keeps the turns. *)
LEMMA SameOrder ==
  ASSUME NEW P, NEW Q, FinitePlaces(P), FinitePlaces(Q), NEW f \in [P -> Q],
         \A y \in Q : \E x \in P : f[x] = y,
         \A p, q \in P : NotAfter(p, q) => NotAfter(f[p], f[q]),
         \A p, q \in P : NotAfter(f[p], f[q]) => NotAfter(p, q)
  PROVE  /\ Cardinality(Q) = Cardinality(P)
         /\ \A n \in 1 .. Cardinality(P) : Nth(Q, n) = f[Nth(P, n)]
<1>1. ASSUME NEW p \in P, NEW q \in P, f[p] = f[q]
      PROVE  p = q
  <2>1. p \in Place /\ q \in Place /\ f[p] \in Place
    BY DEF FinitePlaces
  <2>2. NotAfter(f[p], f[q]) /\ NotAfter(f[q], f[p])
    BY <1>1, <2>1, OrderTotal
  <2> QED BY <2>1, <2>2, OrderTotal
<1>2. Cardinality(Q) = Cardinality(P)
  BY <1>1, SameCount DEF FinitePlaces
<1>3. ASSUME NEW p \in P
      PROVE  Turn(Q, f[p]) = Turn(P, p)
  <2> DEFINE A == {r \in P : NotAfter(r, p)}
  <2> DEFINE B == {r \in Q : NotAfter(r, f[p])}
  <2> DEFINE g == [r \in A |-> f[r]]
  <2>1. IsFiniteSet(A)
    BY FS_Subset DEF FinitePlaces
  <2>2. \A r \in A : g[r] = f[r] /\ g[r] \in B
    OBVIOUS
  <2>3. g \in [A -> B]
    BY <2>2
  <2>4. \A x, y \in A : g[x] = g[y] => x = y
    BY <1>1, <2>2
  <2>5. ASSUME NEW y \in B
        PROVE  \E x \in A : g[x] = y
    <3>1. PICK x \in P : f[x] = y
      OBVIOUS
    <3>2. x \in A
      BY <3>1
    <3> QED BY <2>2, <3>1, <3>2
  <2>6. Turn(P, p) = Cardinality(A) /\ Turn(Q, f[p]) = Cardinality(B)
    BY DEF Turn
  <2> HIDE DEF A, B, g
  <2>7. Cardinality(B) = Cardinality(A)
    BY <2>1, <2>3, <2>4, <2>5, SameCount, ZenonT(60)
  <2> QED BY <2>6, <2>7
<1>4. ASSUME NEW n \in 1 .. Cardinality(P)
      PROVE  Nth(Q, n) = f[Nth(P, n)]
  <2>1. Nth(P, n) \in P /\ Turn(P, Nth(P, n)) = n
    BY NthIs
  <2>2. Turn(Q, f[Nth(P, n)]) = n /\ f[Nth(P, n)] \in Q
    BY <1>3, <2>1
  <2>3. Nth(Q, Turn(Q, f[Nth(P, n)])) = f[Nth(P, n)]
    BY <2>2, NthIs
  <2> QED BY <2>2, <2>3
<1> QED BY <1>2, <1>4

(* A place behind all others has the last turn. *)
LEMMA LastPlace ==
  ASSUME NEW P, FinitePlaces(P), NEW x \in Place, x \notin P,
         \A p \in P : NotAfter(p, x)
  PROVE  /\ FinitePlaces(P \cup {x}) /\ Cardinality(P) \in Nat
         /\ Cardinality(P \cup {x}) = Cardinality(P) + 1
         /\ \A n \in 1 .. Cardinality(P) : Nth(P \cup {x}, n) = Nth(P, n)
         /\ Nth(P \cup {x}, Cardinality(P) + 1) = x
<1> DEFINE Q == P \cup {x}
<1>1. FinitePlaces(Q) /\ Cardinality(Q) = Cardinality(P) + 1 /\ Cardinality(P) \in Nat
  BY FS_AddElement, FS_CardinalityType DEF FinitePlaces
<1>2. ASSUME NEW p \in P
      PROVE  Turn(Q, p) = Turn(P, p)
  <2>1. p \in Place
    BY DEF FinitePlaces
  <2>2. ~NotAfter(x, p)
    BY <2>1, OrderTotal
  <2>3. {q \in Q : NotAfter(q, p)} = {q \in P : NotAfter(q, p)}
    BY <2>2
  <2> QED BY <2>3 DEF Turn
<1>3. Turn(Q, x) = Cardinality(Q)
  <2>1. {q \in Q : NotAfter(q, x)} = Q
    BY OrderTotal
  <2> QED BY <2>1 DEF Turn
<1>4. x \in Q /\ P \subseteq Q
  OBVIOUS
<1> HIDE DEF Q
<1>5. Nth(Q, Turn(Q, x)) = x
  BY <1>1, <1>4, NthIs
<1>6. ASSUME NEW n \in 1 .. Cardinality(P)
      PROVE  Nth(Q, n) = Nth(P, n)
  <2>1. Nth(P, n) \in P /\ Turn(P, Nth(P, n)) = n
    BY NthIs
  <2>2. Nth(P, n) \in Q /\ Turn(Q, Nth(P, n)) = n
    BY <1>2, <1>4, <2>1
  <2>3. Nth(Q, Turn(Q, Nth(P, n))) = Nth(P, n)
    BY <1>1, <2>2, NthIs
  <2> QED BY <2>2, <2>3
<1> QED BY <1>1, <1>3, <1>5, <1>6 DEF Q
-----------------------------------------------------------------------------
(* Tables, and the places in them. *)
IsCapacity(cap) == cap \in Nat \ {0}
IsTable(t, cap) == IsCapacity(cap) /\ t \in [0 .. (cap - 1) -> Seq(Pair)]

(* The pairs of a table are where their keys belong. *)
IsFiled(t, cap) ==
  \A p \in Places(t, cap) : HashIndex(cap, PairAt(t, p).key) = p[1]

(* Every key has its bucket among those there are. *)
LEMMA HashInRange ==
  ASSUME NEW cap, IsCapacity(cap), NEW key \in Keys
  PROVE  HashIndex(cap, key) \in 0 .. (cap - 1) /\ HashIndex(cap, key) \in Nat
<1>1. Hash[key] \in Nat
  BY HashtableAssumption
<1> DEFINE h == Hash[key]
<1>2. h \in Nat
  BY <1>1
<1> HIDE DEF h
<1>3. h % cap \in 0 .. (cap - 1)
  BY <1>2 DEF IsCapacity
<1>4. h % cap \in Nat
  BY <1>3 DEF IsCapacity
<1> QED BY <1>3, <1>4 DEF HashIndex, h

(* The fields of a pair. *)
LEMMA PairFields ==
  ASSUME NEW p \in Pair
  PROVE  p.key \in Keys /\ p.val \in Values
BY DEF Pair

(* The parts of a place in a table. *)
LEMMA PlaceFields ==
  ASSUME NEW t, NEW cap, IsTable(t, cap), NEW p \in Places(t, cap)
  PROVE  /\ p[1] \in 0 .. (cap - 1) /\ p[2] \in 1 .. Len(t[p[1]])
         /\ p[2] \in DOMAIN t[p[1]]
         /\ p = <<p[1], p[2]>> /\ p \in Place
         /\ PairAt(t, p) \in Pair
<1>1. PICK b \in 0 .. (cap - 1) : p \in {b} \X DOMAIN t[b]
  BY DEF Places
<1>2. p[1] = b /\ p[2] \in DOMAIN t[b] /\ p = <<p[1], p[2]>>
  BY <1>1
<1>3. t[b] \in Seq(Pair) /\ b \in Nat
  BY DEF IsTable, IsCapacity
<1>4. DOMAIN t[b] = 1 .. Len(t[b]) /\ Len(t[b]) \in Nat
      /\ \A i \in 1 .. Len(t[b]) : t[b][i] \in Pair
  BY <1>3
<1>5. p[2] \in 1 .. Len(t[b]) /\ p[2] \in Nat
  BY <1>2, <1>4
<1>6. PairAt(t, p) \in Pair
  BY <1>2, <1>4, <1>5 DEF PairAt
<1>7. p \in Place
  BY <1>2, <1>3, <1>5 DEF Place
<1> QED BY <1>2, <1>5, <1>6, <1>7

(* What makes a place of a bucket and an index. *)
LEMMA PlaceMade ==
  ASSUME NEW t, NEW cap, IsTable(t, cap),
         NEW b \in 0 .. (cap - 1), NEW i \in 1 .. Len(t[b])
  PROVE  /\ <<b, i>> \in Places(t, cap) /\ <<b, i>>[1] = b /\ <<b, i>>[2] = i
         /\ PairAt(t, <<b, i>>) = t[b][i]
<1>1. t[b] \in Seq(Pair)
  BY DEF IsTable
<1>2. i \in DOMAIN t[b]
  BY <1>1
<1>3. <<b, i>> \in {b} \X DOMAIN t[b]
  BY <1>2
<1>4. <<b, i>> \in Places(t, cap)
  BY <1>3 DEF Places
<1> QED BY <1>4 DEF PairAt

(* A table has finitely many places. *)
LEMMA PlacesFinite ==
  ASSUME NEW t, NEW cap, IsTable(t, cap)
  PROVE  FinitePlaces(Places(t, cap))
<1> DEFINE B == 0 .. (cap - 1)
<1> DEFINE S == {{b} \X DOMAIN t[b] : b \in B}
<1> DEFINE f == [b \in B |-> {b} \X DOMAIN t[b]]
<1>1. IsFiniteSet(B)
  BY FS_Interval DEF IsTable, IsCapacity
<1>2. f \in [B -> S] /\ \A y \in S : \E b \in B : f[b] = y
  OBVIOUS
<1>3. f \in Surjection(B, S)
  BY <1>2, Fun_IsSurj
<1>4. ASSUME NEW y \in S
      PROVE  IsFiniteSet(y)
  <2>1. PICK b \in B : y = {b} \X DOMAIN t[b]
    OBVIOUS
  <2>2. t[b] \in Seq(Pair)
    BY DEF IsTable
  <2>3. DOMAIN t[b] = 1 .. Len(t[b]) /\ Len(t[b]) \in Nat
    BY <2>2
  <2> DEFINE l == Len(t[b])
  <2>4. DOMAIN t[b] = 1 .. l /\ l \in Int
    BY <2>3
  <2> HIDE DEF l
  <2>5. IsFiniteSet(1 .. l)
    BY <2>4, FS_Interval
  <2>6. IsFiniteSet({b})
    BY FS_Singleton
  <2>7. IsFiniteSet({b} \X (1 .. l))
    BY <2>5, <2>6, FS_Product
  <2> QED BY <2>1, <2>4, <2>7
<1>5. Places(t, cap) = UNION S
  BY DEF Places
<1> HIDE DEF B, S, f
<1>6. IsFiniteSet(S)
  BY <1>1, <1>3, FS_Surjection
<1>7. IsFiniteSet(Places(t, cap))
  BY <1>4, <1>5, <1>6, FS_UNION
<1> QED BY <1>7, PlaceFields DEF FinitePlaces

(* Part of the places of a table. *)
LEMMA PartFinite ==
  ASSUME NEW t, NEW cap, IsTable(t, cap), NEW P \in SUBSET Places(t, cap)
  PROVE  FinitePlaces(P) /\ Cardinality(P) \in Nat
<1>1. FinitePlaces(Places(t, cap))
  BY PlacesFinite
<1>2. P \in SUBSET Place
  BY <1>1 DEF FinitePlaces
<1>3. IsFiniteSet(P)
  BY <1>1, FS_Subset DEF FinitePlaces
<1> QED BY <1>2, <1>3, FS_CardinalityType DEF FinitePlaces

(* The pairs at some places are a chain. *)
LEMMA VisitedChain ==
  ASSUME NEW t, NEW cap, IsTable(t, cap), NEW P \in SUBSET Places(t, cap)
  PROVE  /\ Visited(t, P) \in Seq(Pair) /\ Len(Visited(t, P)) = Cardinality(P)
         /\ \A n \in 1 .. Cardinality(P) : Visited(t, P)[n] = PairAt(t, Nth(P, n))
<1> DEFINE N == Cardinality(P)
<1> DEFINE F(n) == PairAt(t, Nth(P, n))
<1>1. FinitePlaces(P) /\ N \in Nat
  BY PartFinite
<1>2. \A n \in 1 .. N : F(n) \in Pair
  BY <1>1, NthIs, PlaceFields
<1>3. Visited(t, P) = [n \in 1 .. N |-> F(n)]
  BY DEF Visited
<1> HIDE DEF N, F
<1>4. [n \in 1 .. N |-> F(n)] \in Seq(Pair) /\ Len([n \in 1 .. N |-> F(n)]) = N
  BY <1>1, <1>2
<1> QED BY <1>3, <1>4 DEF N, F
-----------------------------------------------------------------------------
(* Rehashing: where each pair goes. *)
Home(t, cap, p) == HashIndex(cap, PairAt(t, p).key)
MovedTo(t, oldCap, newCap, b) == Moved(t, Places(t, oldCap), newCap, b)
PlaceAfter(t, oldCap, newCap, p) ==
  <<Home(t, newCap, p), Turn(MovedTo(t, oldCap, newCap, Home(t, newCap, p)), p)>>

(* The pairs that a rehash moves to one bucket. *)
LEMMA MovedPart ==
  ASSUME NEW t, NEW oldCap, IsTable(t, oldCap), NEW newCap, NEW b
  PROVE  /\ MovedTo(t, oldCap, newCap, b) \in SUBSET Places(t, oldCap)
         /\ FinitePlaces(MovedTo(t, oldCap, newCap, b))
         /\ Cardinality(MovedTo(t, oldCap, newCap, b)) \in Nat
         /\ \A p : p \in MovedTo(t, oldCap, newCap, b) <=>
                     p \in Places(t, oldCap) /\ Home(t, newCap, p) = b
<1>1. \A p : p \in MovedTo(t, oldCap, newCap, b) <=>
               p \in Places(t, oldCap) /\ Home(t, newCap, p) = b
  BY DEF MovedTo, Moved, Home
<1>2. MovedTo(t, oldCap, newCap, b) \in SUBSET Places(t, oldCap)
  BY <1>1
<1> QED BY <1>1, <1>2, PartFinite

(* The home of a pair is among the buckets. *)
LEMMA HomeInRange ==
  ASSUME NEW t, NEW oldCap, IsTable(t, oldCap), NEW newCap, IsCapacity(newCap),
         NEW p \in Places(t, oldCap)
  PROVE  Home(t, newCap, p) \in 0 .. (newCap - 1) /\ Home(t, newCap, p) \in Nat
<1>1. PairAt(t, p).key \in Keys
  BY PlaceFields, PairFields
<1> QED BY <1>1, HashInRange DEF Home

(* The new chains. *)
LEMMA RebuiltChains ==
  ASSUME NEW t, NEW oldCap, IsTable(t, oldCap), NEW newCap, IsCapacity(newCap)
  PROVE  /\ IsTable(Rebuilt(t, oldCap, newCap), newCap)
         /\ \A b \in 0 .. (newCap - 1) :
              LET c == Rebuilt(t, oldCap, newCap)[b]
                  P == MovedTo(t, oldCap, newCap, b)
              IN /\ Len(c) = Cardinality(P)
                 /\ \A n \in 1 .. Cardinality(P) : c[n] = PairAt(t, Nth(P, n))
<1> DEFINE u == Rebuilt(t, oldCap, newCap)
<1> DEFINE C(b) == Visited(t, MovedTo(t, oldCap, newCap, b))
<1>1. u = [b \in 0 .. (newCap - 1) |-> C(b)]
  BY DEF Rebuilt, MovedTo
<1>2. \A b : /\ C(b) \in Seq(Pair)
             /\ Len(C(b)) = Cardinality(MovedTo(t, oldCap, newCap, b))
             /\ \A n \in 1 .. Cardinality(MovedTo(t, oldCap, newCap, b)) :
                  C(b)[n] = PairAt(t, Nth(MovedTo(t, oldCap, newCap, b), n))
  BY MovedPart, VisitedChain
<1> HIDE DEF u, C
<1>3. \A b \in 0 .. (newCap - 1) : u[b] = C(b)
  BY <1>1
<1>4. u \in [0 .. (newCap - 1) -> Seq(Pair)]
  BY <1>1, <1>2
<1> QED BY <1>2, <1>3, <1>4 DEF IsTable, u

(* Each pair has a new place, in the bucket its key hashes to now. *)
LEMMA NewPlace ==
  ASSUME NEW t, NEW oldCap, IsTable(t, oldCap), NEW newCap, IsCapacity(newCap),
         NEW p \in Places(t, oldCap)
  PROVE  /\ PlaceAfter(t, oldCap, newCap, p) \in Places(Rebuilt(t, oldCap, newCap), newCap)
         /\ PlaceAfter(t, oldCap, newCap, p)[1] = Home(t, newCap, p)
         /\ PlaceAfter(t, oldCap, newCap, p)[2]
              = Turn(MovedTo(t, oldCap, newCap, Home(t, newCap, p)), p)
         /\ p \in MovedTo(t, oldCap, newCap, Home(t, newCap, p))
         /\ PairAt(Rebuilt(t, oldCap, newCap), PlaceAfter(t, oldCap, newCap, p)) = PairAt(t, p)
<1> DEFINE u == Rebuilt(t, oldCap, newCap)
<1> DEFINE b == Home(t, newCap, p)
<1> DEFINE P == MovedTo(t, oldCap, newCap, b)
<1> DEFINE n == Turn(P, p)
<1>1. b \in 0 .. (newCap - 1)
  BY HomeInRange
<1>2. FinitePlaces(P) /\ p \in P
  BY MovedPart
<1>3. PlaceAfter(t, oldCap, newCap, p) = <<b, n>>
  BY DEF PlaceAfter
<1>4. IsTable(u, newCap)
  BY RebuiltChains
<1>5. Len(u[b]) = Cardinality(P)
      /\ \A m \in 1 .. Cardinality(P) : u[b][m] = PairAt(t, Nth(P, m))
  BY <1>1, RebuiltChains
<1> HIDE DEF u, b, P
<1>6. n \in 1 .. Cardinality(P) /\ Nth(P, n) = p
  BY <1>2, TurnRange, NthIs
<1> HIDE DEF n
<1>7. n \in 1 .. Len(u[b]) /\ u[b][n] = PairAt(t, p)
  BY <1>5, <1>6
<1>8. <<b, n>> \in Places(u, newCap) /\ <<b, n>>[1] = b /\ <<b, n>>[2] = n
      /\ PairAt(u, <<b, n>>) = u[b][n]
  BY <1>1, <1>4, <1>7, PlaceMade
<1>9. /\ <<b, n>> \in Places(u, newCap) /\ <<b, n>>[1] = b /\ <<b, n>>[2] = n
      /\ PairAt(u, <<b, n>>) = PairAt(t, p)
  BY <1>7, <1>8
<1> QED BY <1>2, <1>3, <1>9 DEF u, b, P, n

(* Every new place is taken by a pair. *)
LEMMA NewPlaceTaken ==
  ASSUME NEW t, NEW oldCap, IsTable(t, oldCap), NEW newCap, IsCapacity(newCap),
         NEW q \in Places(Rebuilt(t, oldCap, newCap), newCap)
  PROVE  \E p \in Places(t, oldCap) : PlaceAfter(t, oldCap, newCap, p) = q
<1> DEFINE u == Rebuilt(t, oldCap, newCap)
<1> DEFINE b == q[1]
<1> DEFINE n == q[2]
<1> DEFINE P == MovedTo(t, oldCap, newCap, b)
<1> DEFINE p == Nth(P, n)
<1>1. IsTable(u, newCap)
  BY RebuiltChains
<1>2. b \in 0 .. (newCap - 1) /\ n \in 1 .. Len(u[b]) /\ q = <<b, n>>
  BY <1>1, PlaceFields
<1>3. Len(u[b]) = Cardinality(P)
  BY <1>2, RebuiltChains
<1>4. FinitePlaces(P)
  BY MovedPart
<1>5. p \in P /\ Turn(P, p) = n
  BY <1>2, <1>3, <1>4, NthIs
<1>6. p \in Places(t, oldCap) /\ Home(t, newCap, p) = b
  BY <1>5, MovedPart
<1>7. PlaceAfter(t, oldCap, newCap, p) = <<b, n>>
  BY <1>5, <1>6 DEF PlaceAfter
<1> QED BY <1>2, <1>6, <1>7

(* Pairs that go to one bucket keep their order, and no two go to one place. *)
LEMMA NewOrder ==
  ASSUME NEW t, NEW oldCap, IsTable(t, oldCap), NEW newCap, IsCapacity(newCap),
         NEW p \in Places(t, oldCap), NEW q \in Places(t, oldCap)
  PROVE  /\ Home(t, newCap, p) = Home(t, newCap, q) =>
              (NotAfter(p, q) <=>
                NotAfter(PlaceAfter(t, oldCap, newCap, p), PlaceAfter(t, oldCap, newCap, q)))
         /\ PlaceAfter(t, oldCap, newCap, p) = PlaceAfter(t, oldCap, newCap, q) => p = q
<1> DEFINE f(r) == PlaceAfter(t, oldCap, newCap, r)
<1> DEFINE H(r) == Home(t, newCap, r)
<1> DEFINE P(r) == MovedTo(t, oldCap, newCap, H(r))
<1>1. /\ f(p)[1] = H(p) /\ f(p)[2] = Turn(P(p), p) /\ p \in P(p)
      /\ f(q)[1] = H(q) /\ f(q)[2] = Turn(P(q), q) /\ q \in P(q)
  BY NewPlace
<1>2. H(p) = H(q) => P(p) = P(q)
  OBVIOUS
<1>3. FinitePlaces(P(p))
  BY MovedPart
<1> HIDE DEF P
<1>4. H(p) = H(q) => /\ NotAfter(p, q) <=> Turn(P(p), p) <= Turn(P(p), q)
                     /\ Turn(P(p), p) = Turn(P(p), q) => p = q
  BY <1>1, <1>2, <1>3, TurnOrder
<1> HIDE DEF f, H
<1>5. H(p) = H(q) => (NotAfter(p, q) <=> NotAfter(f(p), f(q)))
  BY <1>1, <1>2, <1>4 DEF NotAfter
<1>6. f(p) = f(q) => p = q
  BY <1>1, <1>2, <1>4
<1> QED BY <1>5, <1>6 DEF f, H

(* Rehashing neither loses a pair nor makes one, and files each. *)
LEMMA RebuiltTable ==
  ASSUME NEW t, NEW oldCap, IsTable(t, oldCap), NEW newCap, IsCapacity(newCap)
  PROVE  /\ IsTable(Rebuilt(t, oldCap, newCap), newCap)
         /\ IsFiled(Rebuilt(t, oldCap, newCap), newCap)
         /\ Cardinality(Places(Rebuilt(t, oldCap, newCap), newCap))
              = Cardinality(Places(t, oldCap))
<1> DEFINE u == Rebuilt(t, oldCap, newCap)
<1> DEFINE P == Places(t, oldCap)
<1> DEFINE Q == Places(u, newCap)
<1> DEFINE f == [p \in P |-> PlaceAfter(t, oldCap, newCap, p)]
<1>1. IsTable(u, newCap)
  BY RebuiltChains
<1>2. IsFiled(u, newCap)
  <2>1. ASSUME NEW q \in Q
        PROVE  HashIndex(newCap, PairAt(u, q).key) = q[1]
    <3>1. PICK p \in P : PlaceAfter(t, oldCap, newCap, p) = q
      BY NewPlaceTaken
    <3>2. q[1] = Home(t, newCap, p) /\ PairAt(u, q) = PairAt(t, p)
      BY <3>1, NewPlace
    <3> QED BY <3>2 DEF Home
  <2> QED BY <2>1 DEF IsFiled
<1>3. Cardinality(Q) = Cardinality(P)
  <2>1. \A p \in P : f[p] = PlaceAfter(t, oldCap, newCap, p) /\ f[p] \in Q
    BY NewPlace
  <2>2. f \in [P -> Q]
    BY <2>1
  <2>3. \A x, y \in P : f[x] = f[y] => x = y
    BY <2>1, NewOrder
  <2>4. \A y \in Q : \E x \in P : f[x] = y
    BY <2>1, NewPlaceTaken
  <2>5. IsFiniteSet(P)
    BY PlacesFinite DEF FinitePlaces
  <2> HIDE DEF f, P, Q
  <2> QED BY <2>2, <2>3, <2>4, <2>5, SameCount
<1> QED BY <1>1, <1>2, <1>3
-----------------------------------------------------------------------------
(* The values of a key, in the order in which they are visited. *)
LEMMA PlacesOfKey ==
  ASSUME NEW t, NEW cap, IsTable(t, cap), NEW key \in Keys
  PROVE  /\ PlacesOf(t, cap, key) \in SUBSET Places(t, cap)
         /\ FinitePlaces(PlacesOf(t, cap, key))
         /\ Cardinality(PlacesOf(t, cap, key)) \in Nat
         /\ \A p : p \in PlacesOf(t, cap, key) <=>
                     /\ p \in Places(t, cap)
                     /\ p[1] = HashIndex(cap, key) /\ PairAt(t, p).key = key
<1> DEFINE h == HashIndex(cap, key)
<1>1. h \in 0 .. (cap - 1)
  BY HashInRange DEF IsTable
<1>2. PlacesOf(t, cap, key) = {p \in {h} \X DOMAIN t[h] : PairAt(t, p).key = key}
  BY DEF PlacesOf
<1> HIDE DEF h
<1>3. {h} \X DOMAIN t[h] \subseteq Places(t, cap)
  BY <1>1 DEF Places
<1>4. ASSUME NEW p \in Places(t, cap), p[1] = h
      PROVE  p \in {h} \X DOMAIN t[h]
  <2>1. p[2] \in DOMAIN t[h] /\ p = <<p[1], p[2]>>
    BY <1>4, PlaceFields
  <2> QED BY <1>4, <2>1
<1>5. \A p \in {h} \X DOMAIN t[h] : p[1] = h
  OBVIOUS
<1>6. \A p : p \in PlacesOf(t, cap, key) <=>
               /\ p \in Places(t, cap)
               /\ p[1] = h /\ PairAt(t, p).key = key
  BY <1>2, <1>3, <1>4, <1>5
<1>7. PlacesOf(t, cap, key) \in SUBSET Places(t, cap)
  BY <1>6
<1> QED BY <1>6, <1>7, PartFinite DEF h

(* Entries are as many as their places. *)
LEMMA EntriesAre ==
  ASSUME NEW t, NEW cap, IsTable(t, cap), NEW key \in Keys
  PROVE  LET N == Cardinality(PlacesOf(t, cap, key))
         IN /\ Entries(t, cap, key) \in Seq(Values) /\ Len(Entries(t, cap, key)) = N
            /\ N \in Nat
            /\ \A n \in 1 .. N : Entries(t, cap, key)[n]
                                   = PairAt(t, Nth(PlacesOf(t, cap, key), n)).val
<1> DEFINE N == Cardinality(PlacesOf(t, cap, key))
<1> DEFINE F(n) == PairAt(t, Nth(PlacesOf(t, cap, key), n)).val
<1>1. Entries(t, cap, key) = [n \in 1 .. N |-> F(n)]
  BY DEF Entries
<1>2. ASSUME NEW n \in 1 .. N
      PROVE  F(n) \in Values
  <2>1. Nth(PlacesOf(t, cap, key), n) \in PlacesOf(t, cap, key)
    BY PlacesOfKey, NthIs
  <2>2. PairAt(t, Nth(PlacesOf(t, cap, key), n)) \in Pair
    BY <2>1, PlacesOfKey, PlaceFields
  <2> QED BY <2>2, PairFields
<1>3. N \in Nat
  BY PlacesOfKey
<1> HIDE DEF F, N
<1>4. [n \in 1 .. N |-> F(n)] \in Seq(Values) /\ Len([n \in 1 .. N |-> F(n)]) = N
  BY <1>2, <1>3
<1>5. \A n \in 1 .. N : Entries(t, cap, key)[n] = F(n)
  BY <1>1
<1> QED BY <1>1, <1>3, <1>4, <1>5 DEF F, N

(* Entries are the same when their places correspond in order. *)
LEMMA SameEntries ==
  ASSUME NEW t, NEW cap, IsTable(t, cap), NEW u, NEW new, IsTable(u, new),
         NEW key \in Keys, NEW f \in [PlacesOf(t, cap, key) -> PlacesOf(u, new, key)],
         \A q \in PlacesOf(u, new, key) : \E p \in PlacesOf(t, cap, key) : f[p] = q,
         \A p, q \in PlacesOf(t, cap, key) : NotAfter(p, q) => NotAfter(f[p], f[q]),
         \A p, q \in PlacesOf(t, cap, key) : NotAfter(f[p], f[q]) => NotAfter(p, q),
         \A p \in PlacesOf(t, cap, key) : PairAt(u, f[p]) = PairAt(t, p)
  PROVE  Entries(u, new, key) = Entries(t, cap, key)
<1> DEFINE P == PlacesOf(t, cap, key)
<1> DEFINE Q == PlacesOf(u, new, key)
<1> DEFINE N == Cardinality(P)
<1>1. FinitePlaces(P) /\ FinitePlaces(Q) /\ N \in Nat
  BY PlacesOfKey
<1>2. Cardinality(Q) = N /\ \A n \in 1 .. N : Nth(Q, n) = f[Nth(P, n)]
  BY <1>1, SameOrder
<1>3. \A n \in 1 .. N : Nth(P, n) \in P
  BY <1>1, NthIs
<1>4. \A n \in 1 .. N : PairAt(u, Nth(Q, n)) = PairAt(t, Nth(P, n))
  BY <1>2, <1>3
<1>5. Entries(t, cap, key) = [n \in 1 .. N |-> PairAt(t, Nth(P, n)).val]
  BY DEF Entries
<1>6. Entries(u, new, key) = [n \in 1 .. N |-> PairAt(u, Nth(Q, n)).val]
  BY <1>2 DEF Entries
<1> HIDE DEF P, Q, N
<1> QED BY <1>4, <1>5, <1>6

(* Growing keeps every value and the order of the values of a key. *)
LEMMA RebuiltEntries ==
  ASSUME NEW t, NEW oldCap, IsTable(t, oldCap), IsFiled(t, oldCap),
         NEW newCap, IsCapacity(newCap), NEW key \in Keys
  PROVE  Entries(Rebuilt(t, oldCap, newCap), newCap, key) = Entries(t, oldCap, key)
<1> DEFINE u == Rebuilt(t, oldCap, newCap)
<1> DEFINE P == PlacesOf(t, oldCap, key)
<1> DEFINE Q == PlacesOf(u, newCap, key)
<1> DEFINE A(p) == PlaceAfter(t, oldCap, newCap, p)
<1> DEFINE f == [p \in P |-> A(p)]
<1>1. IsTable(u, newCap)
  BY RebuiltTable
<1>2. ASSUME NEW p \in P
      PROVE  /\ p \in Places(t, oldCap) /\ A(p) \in Q
             /\ PairAt(u, A(p)) = PairAt(t, p)
             /\ Home(t, newCap, p) = HashIndex(newCap, key)
  <2>1. p \in Places(t, oldCap) /\ PairAt(t, p).key = key
    BY PlacesOfKey
  <2>2. Home(t, newCap, p) = HashIndex(newCap, key)
    BY <2>1 DEF Home
  <2>3. /\ A(p) \in Places(u, newCap) /\ A(p)[1] = HashIndex(newCap, key)
        /\ PairAt(u, A(p)) = PairAt(t, p)
    BY <2>1, <2>2, NewPlace
  <2>4. A(p) \in Q
    BY <1>1, <2>1, <2>3, PlacesOfKey
  <2> QED BY <2>1, <2>2, <2>3, <2>4
<1>3. ASSUME NEW q \in Q
      PROVE  \E p \in P : A(p) = q
  <2>1. q \in Places(u, newCap) /\ PairAt(u, q).key = key
    BY <1>1, PlacesOfKey
  <2>2. PICK p \in Places(t, oldCap) : A(p) = q
    BY <2>1, NewPlaceTaken
  <2>3. PairAt(t, p).key = key
    BY <2>1, <2>2, NewPlace
  <2>4. p[1] = HashIndex(oldCap, key)
    BY <2>3 DEF IsFiled
  <2>5. p \in P
    BY <2>3, <2>4, PlacesOfKey
  <2> QED BY <2>2, <2>5
<1>4. ASSUME NEW p \in P, NEW q \in P
      PROVE  NotAfter(p, q) <=> NotAfter(A(p), A(q))
  BY <1>2, NewOrder
<1> HIDE DEF A
<1>5. \A p \in P : f[p] = A(p) /\ f[p] \in Q
  BY <1>2
<1>6. f \in [P -> Q]
  BY <1>5
<1> HIDE DEF f
<1>7. /\ \A q \in Q : \E p \in P : f[p] = q
      /\ \A p, q \in P : NotAfter(p, q) => NotAfter(f[p], f[q])
      /\ \A p, q \in P : NotAfter(f[p], f[q]) => NotAfter(p, q)
      /\ \A p \in P : PairAt(u, f[p]) = PairAt(t, p)
  BY <1>2, <1>3, <1>4, <1>5
<1> HIDE DEF u
<1> QED BY <1>1, <1>6, <1>7, SameEntries DEF u
-----------------------------------------------------------------------------
(* A chain that changes, and the others that do not. *)
WithChain(t, b, c, u) == u = [t EXCEPT ![b] = c]
WithPair(t, b, x, u) == WithChain(t, b, Append(t[b], x), u)

(* The place behind the chain of bucket b. *)
Behind(t, b) == <<b, Len(t[b]) + 1>>

(* A table in which one chain is another. *)
LEMMA ChainChanged ==
  ASSUME NEW t, NEW cap, IsTable(t, cap), NEW b \in 0 .. (cap - 1),
         NEW c \in Seq(Pair), NEW u, WithChain(t, b, c, u)
  PROVE  /\ IsTable(u, cap) /\ u[b] = c
         /\ \A a \in 0 .. (cap - 1) : a # b => u[a] = t[a]
BY DEF IsTable, WithChain

(* A place keeps its pair when its chain does. *)
LEMMA OtherPlaces ==
  ASSUME NEW t, NEW u, NEW cap, IsTable(t, cap), IsTable(u, cap),
         NEW b \in 0 .. (cap - 1),
         \A a \in 0 .. (cap - 1) : a # b => u[a] = t[a]
  PROVE  \A p : p[1] # b =>
           /\ p \in Places(t, cap) <=> p \in Places(u, cap)
           /\ p \in Places(t, cap) => PairAt(u, p) = PairAt(t, p)
<1>1. SUFFICES ASSUME NEW p, p[1] # b
               PROVE  /\ p \in Places(t, cap) <=> p \in Places(u, cap)
                      /\ p \in Places(t, cap) => PairAt(u, p) = PairAt(t, p)
  OBVIOUS
<1>2. ASSUME p \in Places(t, cap)
      PROVE  p \in Places(u, cap) /\ PairAt(u, p) = PairAt(t, p)
  <2>1. /\ p[1] \in 0 .. (cap - 1) /\ p[2] \in 1 .. Len(t[p[1]])
        /\ p = <<p[1], p[2]>>
    BY <1>2, PlaceFields
  <2>2. u[p[1]] = t[p[1]]
    BY <1>1, <2>1
  <2>3. p[2] \in 1 .. Len(u[p[1]])
    BY <2>1, <2>2
  <2>4. <<p[1], p[2]>> \in Places(u, cap)
    BY <2>1, <2>3, PlaceMade
  <2> QED BY <2>1, <2>2, <2>4 DEF PairAt
<1>3. ASSUME p \in Places(u, cap)
      PROVE  p \in Places(t, cap)
  <2>1. /\ p[1] \in 0 .. (cap - 1) /\ p[2] \in 1 .. Len(u[p[1]])
        /\ p = <<p[1], p[2]>>
    BY <1>3, PlaceFields
  <2>2. p[2] \in 1 .. Len(t[p[1]])
    BY <1>1, <2>1
  <2>3. <<p[1], p[2]>> \in Places(t, cap)
    BY <2>1, <2>2, PlaceMade
  <2> QED BY <2>1, <2>3
<1> QED BY <1>2, <1>3

(* A pair at the tail of a chain has a place of its own behind the others. *)
LEMMA PlacesAppended ==
  ASSUME NEW t, NEW cap, IsTable(t, cap), NEW b \in 0 .. (cap - 1), NEW x \in Pair,
         NEW u, WithPair(t, b, x, u)
  PROVE  /\ IsTable(u, cap)
         /\ Behind(t, b) \in Place /\ Behind(t, b)[1] = b
         /\ Behind(t, b) \notin Places(t, cap)
         /\ Places(u, cap) = Places(t, cap) \cup {Behind(t, b)}
         /\ PairAt(u, Behind(t, b)) = x
         /\ \A p \in Places(t, cap) :
              PairAt(u, p) = PairAt(t, p) /\ (p[1] = b => NotAfter(p, Behind(t, b)))
<1> DEFINE n == Behind(t, b)
<1> DEFINE c == t[b]
<1> DEFINE l == Len(c)
<1> DEFINE d == Append(c, x)
<1>1. c \in Seq(Pair) /\ b \in Nat
  BY DEF IsTable, IsCapacity
<1>2. l \in Nat
  BY <1>1
<1>3. d \in Seq(Pair) /\ Len(d) = l + 1 /\ d[l + 1] = x /\ \A i \in 1 .. l : d[i] = c[i]
  BY <1>1
<1>4. WithChain(t, b, d, u) /\ n = <<b, l + 1>>
  BY DEF WithPair, Behind
<1> HIDE DEF d, l, n
<1>5. IsTable(u, cap) /\ u[b] = d /\ \A a \in 0 .. (cap - 1) : a # b => u[a] = t[a]
  BY <1>3, <1>4, ChainChanged
<1>6. n \in Place /\ n[1] = b /\ n[2] = l + 1
  BY <1>1, <1>2, <1>4 DEF Place
<1>7. n \notin Places(t, cap)
  <2>1. ASSUME n \in Places(t, cap)
        PROVE  FALSE
    <3>1. n[2] \in 1 .. Len(t[n[1]])
      BY <2>1, PlaceFields
    <3>2. l + 1 \in 1 .. l
      BY <1>6, <3>1 DEF l
    <3> QED BY <1>2, <3>2
  <2> QED BY <2>1
<1>8. n \in Places(u, cap) /\ PairAt(u, n) = x
  <2> DEFINE m == l + 1
  <2>1. m \in 1 .. Len(u[b]) /\ u[b][m] = x /\ n = <<b, m>>
    BY <1>2, <1>3, <1>4, <1>5
  <2> HIDE DEF m
  <2>2. <<b, m>> \in Places(u, cap) /\ PairAt(u, <<b, m>>) = u[b][m]
    BY <1>5, <2>1, PlaceMade
  <2> QED BY <2>1, <2>2
<1>9. \A p : p[1] # b =>
        /\ p \in Places(t, cap) <=> p \in Places(u, cap)
        /\ p \in Places(t, cap) => PairAt(u, p) = PairAt(t, p)
  BY <1>5, OtherPlaces
<1>10. ASSUME NEW p \in Places(t, cap)
      PROVE  /\ p \in Places(u, cap) /\ PairAt(u, p) = PairAt(t, p)
             /\ p[1] = b => NotAfter(p, n)
  <2>1. CASE p[1] # b
    BY <1>9, <2>1
  <2>2. CASE p[1] = b
    <3>1. p[2] \in 1 .. l /\ p = <<b, p[2]>>
      BY <2>2, PlaceFields DEF l
    <3>2. p[2] \in 1 .. Len(u[b]) /\ d[p[2]] = c[p[2]]
      BY <1>2, <1>3, <1>5, <3>1
    <3>3. <<b, p[2]>> \in Places(u, cap)
      BY <1>5, <3>2, PlaceMade
    <3>4. PairAt(u, p) = PairAt(t, p)
      BY <1>5, <2>2, <3>2 DEF PairAt
    <3>5. NotAfter(p, n)
      BY <1>2, <1>6, <2>2, <3>1 DEF NotAfter
    <3> QED BY <3>1, <3>3, <3>4, <3>5
  <2> QED BY <2>1, <2>2
<1>11. ASSUME NEW p \in Places(u, cap), p # n
       PROVE  p \in Places(t, cap)
  <2>1. CASE p[1] # b
    BY <1>9, <2>1
  <2>2. CASE p[1] = b
    <3>1. p[2] \in 1 .. Len(u[b]) /\ p = <<b, p[2]>>
      BY <1>5, <2>2, PlaceFields
    <3>2. p[2] # l + 1
      BY <1>4, <1>11, <3>1
    <3>3. p[2] \in 1 .. l
      BY <1>2, <1>3, <1>5, <3>1, <3>2
    <3>4. <<b, p[2]>> \in Places(t, cap)
      BY <3>3, PlaceMade DEF l
    <3> QED BY <3>1, <3>4
  <2> QED BY <2>1, <2>2
<1>12. Places(u, cap) = Places(t, cap) \cup {n}
  BY <1>8, <1>10, <1>11
<1> QED BY <1>5, <1>6, <1>7, <1>8, <1>10, <1>12 DEF n

(* The table after a pair has been added to its bucket. *)
LEMMA AppendedTable ==
  ASSUME NEW t, NEW cap, IsTable(t, cap), IsFiled(t, cap), NEW x \in Pair,
         NEW b, b = HashIndex(cap, x.key), NEW u, WithPair(t, b, x, u)
  PROVE  /\ IsTable(u, cap) /\ IsFiled(u, cap)
         /\ Cardinality(Places(u, cap)) = Cardinality(Places(t, cap)) + 1
<1> DEFINE n == Behind(t, b)
<1>1. b \in 0 .. (cap - 1)
  BY HashInRange, PairFields DEF IsTable
<1>2. /\ IsTable(u, cap) /\ n \in Place /\ n[1] = b /\ n \notin Places(t, cap)
      /\ Places(u, cap) = Places(t, cap) \cup {n} /\ PairAt(u, n) = x
      /\ \A p \in Places(t, cap) : PairAt(u, p) = PairAt(t, p)
  BY <1>1, PlacesAppended
<1> HIDE DEF n
<1>3. IsFiled(u, cap)
  BY <1>2 DEF IsFiled
<1>4. Cardinality(Places(u, cap)) = Cardinality(Places(t, cap)) + 1
  BY <1>2, PlacesFinite, FS_AddElement DEF FinitePlaces
<1> QED BY <1>2, <1>3, <1>4

(* The value is the last of its key, and the other keys keep theirs. *)
LEMMA AppendedEntries ==
  ASSUME NEW t, NEW cap, IsTable(t, cap), NEW x \in Pair,
         NEW b, b = HashIndex(cap, x.key), NEW u, WithPair(t, b, x, u),
         NEW key \in Keys
  PROVE  Entries(u, cap, key) = IF key = x.key THEN Append(Entries(t, cap, key), x.val)
                                ELSE Entries(t, cap, key)
<1> DEFINE n == Behind(t, b)
<1> DEFINE P == PlacesOf(t, cap, key)
<1> DEFINE Q == PlacesOf(u, cap, key)
<1> DEFINE N == Cardinality(P)
<1>1. b \in 0 .. (cap - 1)
  BY HashInRange, PairFields DEF IsTable
<1>2. /\ IsTable(u, cap) /\ n \in Place /\ n[1] = b /\ n \notin Places(t, cap)
      /\ Places(u, cap) = Places(t, cap) \cup {n} /\ PairAt(u, n) = x
      /\ \A p \in Places(t, cap) :
           PairAt(u, p) = PairAt(t, p) /\ (p[1] = b => NotAfter(p, n))
  BY <1>1, PlacesAppended
<1> HIDE DEF n
<1>3. /\ FinitePlaces(P) /\ N \in Nat
      /\ \A p : p \in P <=> /\ p \in Places(t, cap)
                            /\ p[1] = HashIndex(cap, key) /\ PairAt(t, p).key = key
  BY PlacesOfKey
<1>4. \A p : p \in Q <=> /\ p \in Places(u, cap)
                         /\ p[1] = HashIndex(cap, key) /\ PairAt(u, p).key = key
  BY <1>2, PlacesOfKey
<1>5. \A p \in P : PairAt(u, p) = PairAt(t, p)
  BY <1>2, <1>3
<1>6. Entries(t, cap, key) \in Seq(Values) /\ Len(Entries(t, cap, key)) = N
      /\ \A i \in 1 .. N : Entries(t, cap, key)[i] = PairAt(t, Nth(P, i)).val
  BY <1>3, EntriesAre
<1>7. Entries(t, cap, key) = [i \in 1 .. N |-> PairAt(t, Nth(P, i)).val]
  BY DEF Entries
<1>8. \A i \in 1 .. N : Nth(P, i) \in P
  BY <1>3, NthIs
<1>9. Entries(u, cap, key) = [i \in 1 .. Cardinality(Q) |-> PairAt(u, Nth(Q, i)).val]
  BY DEF Entries
<1>10. CASE key # x.key
  <2>1. \A p : p \in Q <=> p \in P
    BY <1>2, <1>3, <1>4, <1>10
  <2>2. Q = P
    BY <2>1
  <2>3. Entries(u, cap, key) = [i \in 1 .. N |-> PairAt(u, Nth(Q, i)).val]
    BY <1>9, <2>2
  <2> HIDE DEF P, Q, N
  <2>4. \A i \in 1 .. N : PairAt(u, Nth(Q, i)).val = PairAt(t, Nth(P, i)).val
    BY <1>5, <1>8, <2>2
  <2>5. Entries(u, cap, key) = Entries(t, cap, key)
    BY <1>7, <2>3, <2>4
  <2> QED BY <1>10, <2>5
<1>11. CASE key = x.key
  <2>1. \A p : p \in Q <=> p \in P \/ p = n
    BY <1>2, <1>3, <1>4, <1>11
  <2>2. Q = P \cup {n} /\ n \notin P /\ \A p \in P : NotAfter(p, n)
    BY <1>2, <1>3, <1>11, <2>1
  <2>3. /\ Cardinality(Q) = N + 1 /\ \A i \in 1 .. N : Nth(Q, i) = Nth(P, i)
        /\ Nth(Q, N + 1) = n
    <3>1. /\ Cardinality(P \cup {n}) = N + 1
          /\ \A i \in 1 .. N : Nth(P \cup {n}, i) = Nth(P, i)
          /\ Nth(P \cup {n}, N + 1) = n
      BY <1>2, <1>3, <2>2, LastPlace
    <3> QED BY <2>2, <3>1
  <2>4. Entries(u, cap, key) = [i \in 1 .. (N + 1) |-> PairAt(u, Nth(Q, i)).val]
    BY <1>9, <2>3
  <2> HIDE DEF P, Q, N
  <2>5. \A i \in 1 .. N : PairAt(u, Nth(Q, i)).val = Entries(t, cap, key)[i]
    BY <1>5, <1>6, <1>8, <2>3
  <2>6. PairAt(u, Nth(Q, N + 1)).val = x.val
    BY <1>2, <2>3
  <2> DEFINE e == Entries(t, cap, key)
  <2> DEFINE F(i) == PairAt(u, Nth(Q, i)).val
  <2>7. /\ Entries(u, cap, key) = [i \in 1 .. (N + 1) |-> F(i)]
        /\ e \in Seq(Values) /\ Len(e) = N /\ N \in Nat
        /\ F(N + 1) = x.val /\ \A i \in 1 .. N : F(i) = e[i]
    BY <1>3, <1>6, <2>4, <2>5, <2>6
  <2> HIDE DEF e, F
  <2>8. Append(e, x.val) = [i \in 1 .. (N + 1) |-> IF i = N + 1 THEN x.val ELSE e[i]]
    BY <2>7
  <2>9. \A i \in 1 .. (N + 1) : F(i) = IF i = N + 1 THEN x.val ELSE e[i]
    BY <2>7
  <2>10. Entries(u, cap, key) = Append(e, x.val)
    BY <2>7, <2>8, <2>9
  <2> QED BY <1>11, <2>10 DEF e
<1> QED BY <1>10, <1>11
-----------------------------------------------------------------------------
(* Every non-empty set of numbers has a least element. *)
LEMMA Least ==
  ASSUME NEW T, T \subseteq Nat, T # {}
  PROVE  \E n \in T : \A k \in T : n <= k
<1> DEFINE R == OpToRel(<, Nat)
<1>1. \A x, y \in Nat : y < x => <<y, x>> \in R
  BY DEF OpToRel
<1> HIDE DEF R
<1>2. IsWellFoundedOn(R, Nat)
  BY NatLessThanWellFounded DEF R
<1>3. PICK x \in T : \A y \in T : ~ (<<y, x>> \in R)
  BY <1>2, WFMin
<1>4. \A y \in T : ~ (y < x)
  BY <1>1, <1>3
<1> QED BY <1>4

(* A chain that loses its head: a pair less, and none in a wrong bucket. *)
LEMMA TailTable ==
  ASSUME NEW t, NEW cap, IsTable(t, cap), IsFiled(t, cap), NEW b \in 0 .. (cap - 1),
         t[b] # <<>>, NEW u, WithChain(t, b, Tail(t[b]), u)
  PROVE  /\ IsTable(u, cap) /\ IsFiled(u, cap) /\ Len(u[b]) = Len(t[b]) - 1
         /\ Cardinality(Places(u, cap)) = Cardinality(Places(t, cap)) - 1
<1> DEFINE c == t[b]
<1> DEFINE l == Len(c)
<1> DEFINE d == Tail(c)
<1> DEFINE n == <<b, l>>
<1>1. c \in Seq(Pair) /\ c # <<>> /\ b \in Nat
  BY DEF IsTable, IsCapacity
<1>2. l \in Nat /\ l >= 1
  BY <1>1
<1>3. d \in Seq(Pair) /\ Len(d) = l - 1 /\ \A i \in 1 .. (l - 1) : d[i] = c[i + 1]
  BY <1>1
<1>4. WithChain(t, b, d, u)
  OBVIOUS
<1> HIDE DEF d
<1>5. IsTable(u, cap) /\ u[b] = d /\ \A a \in 0 .. (cap - 1) : a # b => u[a] = t[a]
  BY <1>3, <1>4, ChainChanged
<1>6. \A p : p[1] # b =>
        /\ p \in Places(t, cap) <=> p \in Places(u, cap)
        /\ p \in Places(t, cap) => PairAt(u, p) = PairAt(t, p)
  BY <1>5, OtherPlaces
<1>7. \A i \in 1 .. l : /\ <<b, i>> \in Places(t, cap) /\ <<b, i>>[1] = b
                        /\ PairAt(t, <<b, i>>) = c[i]
  BY PlaceMade
<1>8. ASSUME NEW p \in Places(u, cap)
      PROVE  /\ p \in Places(t, cap) /\ p # n
             /\ HashIndex(cap, PairAt(u, p).key) = p[1]
  <2>1. CASE p[1] # b
    <3>1. p \in Places(t, cap) /\ PairAt(u, p) = PairAt(t, p)
      BY <1>6, <2>1
    <3> QED BY <2>1, <3>1 DEF IsFiled
  <2>2. CASE p[1] = b
    <3> DEFINE i == p[2]
    <3>1. i \in 1 .. Len(u[b]) /\ p = <<b, i>> /\ PairAt(u, p) = u[b][i]
      BY <1>5, <2>2, PlaceFields DEF PairAt
    <3>2. i \in 1 .. (l - 1)
      BY <1>3, <1>5, <3>1
    <3> HIDE DEF i
    <3>3. i \in 1 .. l /\ i + 1 \in 1 .. l /\ i # l
      BY <1>2, <3>2
    <3>4. PairAt(u, p) = c[i + 1]
      BY <1>3, <1>5, <3>1, <3>2
    <3> DEFINE j == i + 1
    <3>5. j \in 1 .. l /\ PairAt(u, p) = c[j]
      BY <3>3, <3>4
    <3> HIDE DEF j
    <3>6. PairAt(t, <<b, j>>) = PairAt(u, p) /\ HashIndex(cap, PairAt(t, <<b, j>>).key) = b
      BY <1>7, <3>5 DEF IsFiled
    <3>7. p # n
      BY <3>1, <3>3
    <3> QED BY <1>7, <2>2, <3>1, <3>3, <3>6, <3>7
  <2> QED BY <2>1, <2>2
<1>9. ASSUME NEW p \in Places(t, cap), p # n
      PROVE  p \in Places(u, cap)
  <2>1. CASE p[1] # b
    BY <1>6, <2>1
  <2>2. CASE p[1] = b
    <3> DEFINE i == p[2]
    <3>1. i \in 1 .. l /\ p = <<b, i>>
      BY <2>2, PlaceFields
    <3> HIDE DEF i
    <3>2. i # l
      BY <1>9, <3>1
    <3>3. i \in 1 .. Len(u[b])
      BY <1>2, <1>3, <1>5, <3>1, <3>2
    <3> QED BY <1>5, <3>1, <3>3, PlaceMade
  <2> QED BY <2>1, <2>2
<1>10. n \in Places(t, cap)
  BY <1>2, <1>7
<1>11. Places(u, cap) = Places(t, cap) \ {n}
  BY <1>8, <1>9
<1>12. IsFiniteSet(Places(t, cap))
  BY PlacesFinite DEF FinitePlaces
<1> HIDE DEF n
<1>13. Cardinality(Places(u, cap)) = Cardinality(Places(t, cap)) - 1
  BY <1>10, <1>11, <1>12, FS_RemoveElement
<1> QED BY <1>3, <1>5, <1>8, <1>13 DEF IsFiled

(* A key without a place has no entries; an empty table has none at all. *)
LEMMA NoEntries ==
  ASSUME NEW t, NEW cap, NEW key, PlacesOf(t, cap, key) = {}
  PROVE  Entries(t, cap, key) = <<>>
<1>1. Cardinality(PlacesOf(t, cap, key)) = 0
  BY FS_EmptySet
<1>2. Entries(t, cap, key) = [n \in 1 .. Cardinality(PlacesOf(t, cap, key)) |->
                                PairAt(t, Nth(PlacesOf(t, cap, key), n)).val]
  BY DEF Entries
<1>3. 1 .. 0 = {}
  OBVIOUS
<1> QED BY <1>1, <1>2, <1>3

(* The empty table. *)
LEMMA EmptyTableFacts ==
  ASSUME NEW cap, IsCapacity(cap)
  PROVE  /\ IsTable(EmptyTable(cap), cap) /\ IsFiled(EmptyTable(cap), cap)
         /\ Cardinality(Places(EmptyTable(cap), cap)) = 0
         /\ \A key \in Keys : Entries(EmptyTable(cap), cap, key) = <<>>
<1> DEFINE t == EmptyTable(cap)
<1>1. IsTable(t, cap) /\ \A b \in 0 .. (cap - 1) : t[b] = <<>>
  BY DEF IsTable, EmptyTable
<1> HIDE DEF t
<1>2. ASSUME NEW p \in Places(t, cap)
      PROVE  FALSE
  <2>1. p[1] \in 0 .. (cap - 1) /\ p[2] \in 1 .. Len(t[p[1]])
    BY <1>1, PlaceFields
  <2>2. Len(t[p[1]]) = 0
    BY <1>1, <2>1
  <2> QED BY <2>1, <2>2
<1>3. Places(t, cap) = {}
  BY <1>2
<1>4. Cardinality(Places(t, cap)) = 0
  BY <1>3, FS_EmptySet
<1>5. ASSUME NEW key \in Keys
      PROVE  Entries(t, cap, key) = <<>>
  <2>1. PlacesOf(t, cap, key) = {}
    BY <1>1, <1>3, PlacesOfKey
  <2> QED BY <2>1, NoEntries
<1> QED BY <1>1, <1>3, <1>4, <1>5 DEF t, IsFiled

(* The entry at the first of its places is the oldest. *)
LEMMA FirstEntry ==
  ASSUME NEW t, NEW cap, IsTable(t, cap), NEW key \in Keys,
         NEW p \in PlacesOf(t, cap, key),
         \A q \in PlacesOf(t, cap, key) : NotAfter(p, q)
  PROVE  /\ Entries(t, cap, key) # <<>>
         /\ Head(Entries(t, cap, key)) = PairAt(t, p).val
<1> DEFINE P == PlacesOf(t, cap, key)
<1> DEFINE N == Cardinality(P)
<1> DEFINE e == Entries(t, cap, key)
<1>1. FinitePlaces(P) /\ N \in Nat
  BY PlacesOfKey
<1>2. e \in Seq(Values) /\ Len(e) = N
      /\ \A n \in 1 .. N : e[n] = PairAt(t, Nth(P, n)).val
  BY <1>1, EntriesAre
<1> HIDE DEF N, e
<1>3. Turn(P, p) \in 1 .. N
  BY <1>1, TurnRange DEF N
<1>4. 1 \in 1 .. N
  BY <1>1, <1>3
<1>5. Nth(P, 1) \in P /\ Turn(P, Nth(P, 1)) = 1
  BY <1>1, <1>4, NthIs DEF N
<1>6. NotAfter(p, Nth(P, 1))
  BY <1>5
<1>7. Turn(P, p) <= 1
  BY <1>1, <1>5, <1>6, TurnOrder
<1>8. Turn(P, p) = 1
  BY <1>1, <1>3, <1>7
<1>9. Nth(P, 1) = p
  BY <1>1, <1>8, NthIs
<1>10. e[1] = PairAt(t, p).val
  BY <1>2, <1>4, <1>9
<1>11. e # <<>> /\ Head(e) = e[1]
  BY <1>2, <1>4
<1> QED BY <1>10, <1>11 DEF e
-----------------------------------------------------------------------------
(* What the operations make of the entries, for a client that keeps their  *)
(* contracts.                                                              *)

(* The places of a key in a chain. *)
LEMMA PlaceInChain ==
  ASSUME NEW t, NEW cap, IsTable(t, cap), NEW key \in Keys,
         NEW c, c = t[HashIndex(cap, key)]
  PROVE  /\ c \in Seq(Pair)
         /\ \A i \in 1 .. Len(c) : c[i].key = key =>
              /\ <<HashIndex(cap, key), i>> \in PlacesOf(t, cap, key)
              /\ PairAt(t, <<HashIndex(cap, key), i>>) = c[i]
         /\ \A p \in PlacesOf(t, cap, key) :
              /\ p[2] \in 1 .. Len(c) /\ p[1] = HashIndex(cap, key)
              /\ p = <<HashIndex(cap, key), p[2]>>
              /\ c[p[2]].key = key /\ PairAt(t, p) = c[p[2]]
<1> DEFINE h == HashIndex(cap, key)
<1>1. h \in 0 .. (cap - 1)
  BY HashInRange DEF IsTable
<1>2. c = t[h]
  OBVIOUS
<1>3. \A p : p \in PlacesOf(t, cap, key) <=>
               p \in Places(t, cap) /\ p[1] = h /\ PairAt(t, p).key = key
  BY PlacesOfKey
<1> HIDE DEF h
<1>4. c \in Seq(Pair)
  BY <1>1, <1>2 DEF IsTable
<1>5. ASSUME NEW i \in 1 .. Len(c), c[i].key = key
      PROVE  <<h, i>> \in PlacesOf(t, cap, key) /\ PairAt(t, <<h, i>>) = c[i]
  <2>1. /\ <<h, i>> \in Places(t, cap) /\ <<h, i>>[1] = h
        /\ PairAt(t, <<h, i>>) = c[i]
    BY <1>1, <1>2, PlaceMade
  <2> QED BY <1>3, <1>5, <2>1
<1>6. ASSUME NEW p \in PlacesOf(t, cap, key)
      PROVE  /\ p[2] \in 1 .. Len(c) /\ p[1] = h /\ p = <<h, p[2]>>
             /\ c[p[2]].key = key /\ PairAt(t, p) = c[p[2]]
  <2>1. p \in Places(t, cap) /\ p[1] = h /\ PairAt(t, p).key = key
    BY <1>3
  <2>2. p[2] \in 1 .. Len(t[p[1]]) /\ p = <<p[1], p[2]>>
    BY <2>1, PlaceFields
  <2>3. PairAt(t, p) = c[p[2]]
    BY <1>2, <2>1 DEF PairAt
  <2> QED BY <1>2, <2>1, <2>2, <2>3
<1> QED BY <1>4, <1>5, <1>6 DEF h

(* at() answers with the oldest value. *)
LEMMA FoundIsOldest ==
  ASSUME NEW t, NEW cap, IsTable(t, cap), NEW key \in Keys,
         NEW c, c = t[HashIndex(cap, key)],
         c # <<>> => IF Len(c) = 1 THEN c[1].key = key ELSE c[1].key # key
  PROVE  Found(c, key) = M!Oldest(Entries(t, cap, key))
<1> DEFINE h == HashIndex(cap, key)
<1> DEFINE P == PlacesOf(t, cap, key)
<1> DEFINE e == Entries(t, cap, key)
<1>1. /\ c \in Seq(Pair)
      /\ \A i \in 1 .. Len(c) : c[i].key = key =>
           <<h, i>> \in P /\ PairAt(t, <<h, i>>) = c[i]
      /\ \A p \in P : /\ p[2] \in 1 .. Len(c) /\ p[1] = h /\ p = <<h, p[2]>>
                      /\ c[p[2]].key = key /\ PairAt(t, p) = c[p[2]]
  BY PlaceInChain
<1>2. Len(c) \in Nat /\ (c = <<>> <=> Len(c) = 0)
  BY <1>1
<1>3. P = {} => e = <<>>
  BY NoEntries
<1>4. \A p \in P : (\A q \in P : NotAfter(p, q)) =>
                     e # <<>> /\ Head(e) = PairAt(t, p).val
  BY FirstEntry
<1>5. h \in Nat
  BY HashInRange DEF IsTable
<1> HIDE DEF h, P, e
<1>6. ASSUME NEW i \in 1 .. Len(c), c[i].key = key,
             \A j \in 1 .. Len(c) : c[j].key = key => i <= j
      PROVE  e # <<>> /\ Head(e) = c[i].val
  <2>1. <<h, i>> \in P /\ PairAt(t, <<h, i>>) = c[i]
    BY <1>1, <1>6
  <2>2. ASSUME NEW q \in P
        PROVE  NotAfter(<<h, i>>, q)
    <3>1. q[1] = h /\ i <= q[2]
      BY <1>1, <1>6
    <3> QED BY <3>1 DEF NotAfter
  <2> QED BY <1>4, <2>1, <2>2
<1>7. CASE c = <<>>
  <2>1. P = {}
    BY <1>1, <1>2, <1>7
  <2> QED BY <1>3, <1>7, <2>1 DEF Found, M!Oldest, e
<1>8. CASE Len(c) = 1
  <2>1. c # <<>> /\ c[1].key = key /\ 1 \in 1 .. Len(c)
    BY <1>2, <1>8
  <2>2. e # <<>> /\ Head(e) = c[1].val
    BY <1>6, <1>8, <2>1
  <2> QED BY <1>8, <2>1, <2>2 DEF Found, M!Oldest, e
<1>9. CASE c # <<>> /\ Len(c) # 1
  <2> DEFINE K == Matches(c, key)
  <2>1. c[1].key # key
    BY <1>9
  <2>2. K = {i \in 1 .. Len(c) : c[i].key = key}
    BY <1>2, <2>1 DEF Matches
  <2>3. Found(c, key) = IF K = {} THEN Null
                        ELSE c[CHOOSE i \in K : \A j \in K : i <= j].val
    BY <1>9 DEF Found
  <2> HIDE DEF K
  <2>4. CASE K = {}
    <3>1. P = {}
      BY <1>1, <2>2, <2>4
    <3> QED BY <1>3, <2>3, <2>4, <3>1 DEF M!Oldest, e
  <2>5. CASE K # {}
    <3> DEFINE m == CHOOSE i \in K : \A j \in K : i <= j
    <3>1. \E i \in K : \A j \in K : i <= j
      <4>1. K \subseteq Nat
        BY <2>2
      <4> QED BY <2>5, <4>1, Least
    <3>2. m \in K /\ \A j \in K : m <= j
      BY <3>1
    <3> HIDE DEF m
    <3>3. e # <<>> /\ Head(e) = c[m].val
      BY <1>6, <2>2, <3>2
    <3>4. Found(c, key) = c[m].val
      BY <2>3, <2>5 DEF m
    <3> QED BY <3>3, <3>4 DEF M!Oldest, e
  <2> QED BY <2>4, <2>5
<1> QED BY <1>7, <1>8, <1>9

(* A chain of one pair without it. *)
LEMMA TailOfOne ==
  ASSUME NEW S, NEW s \in Seq(S), Len(s) = 1
  PROVE  s # <<>> /\ Tail(s) = <<>> /\ Tail(s) \in Seq(S)
<1>1. s # <<>>
  OBVIOUS
<1>2. Tail(s) \in Seq(S) /\ Len(Tail(s)) = Len(s) - 1
  BY <1>1
<1> DEFINE r == Tail(s)
<1>3. r \in Seq(S) /\ Len(r) = 0
  BY <1>2
<1> HIDE DEF r
<1>4. r = <<>>
  BY <1>3
<1> QED BY <1>1, <1>3, <1>4 DEF r

(* Erasing a pair that is alone in its bucket takes out the only value. *)
LEMMA ErasedEntries ==
  ASSUME NEW t, NEW cap, IsTable(t, cap), NEW k \in Keys,
         NEW b \in 0 .. (cap - 1), b = HashIndex(cap, k),
         Len(t[b]) = 1, t[b][1].key = k,
         NEW u, WithChain(t, b, Tail(t[b]), u), NEW key \in Keys
  PROVE  Entries(u, cap, key) = IF key = k THEN M!WithoutOldest(Entries(t, cap, key))
                                ELSE Entries(t, cap, key)
<1> DEFINE h == HashIndex(cap, key)
<1> DEFINE P == PlacesOf(t, cap, key)
<1> DEFINE Q == PlacesOf(u, cap, key)
<1>1. h \in 0 .. (cap - 1)
  BY HashInRange DEF IsTable
<1>2. t[b] \in Seq(Pair)
  BY <1>1 DEF IsTable
<1> DEFINE d == Tail(t[b])
<1>3. d = <<>>
  BY <1>2, TailOfOne
<1>4. d \in Seq(Pair) /\ WithChain(t, b, d, u)
  BY <1>2, TailOfOne
<1> HIDE DEF d
<1>5. /\ IsTable(u, cap) /\ u[b] = <<>>
      /\ \A a \in 0 .. (cap - 1) : a # b => u[a] = t[a]
  <2>1. /\ IsTable(u, cap) /\ u[b] = d
        /\ \A a \in 0 .. (cap - 1) : a # b => u[a] = t[a]
    BY <1>4, ChainChanged
  <2> QED BY <1>3, <2>1
<1>6. /\ \A p \in Q : p[2] \in 1 .. Len(u[h]) /\ u[h][p[2]].key = key
      /\ \A p \in P : /\ p[2] \in 1 .. Len(t[h]) /\ p = <<h, p[2]>>
                      /\ t[h][p[2]].key = key
      /\ \A i \in 1 .. Len(t[h]) : t[h][i].key = key => <<h, i>> \in P
  BY <1>5, PlaceInChain
<1>7. CASE h # b
  <2>1. u[h] = t[h]
    BY <1>1, <1>5, <1>7
  <2>2. Q = P /\ \A p \in P : PairAt(u, p) = PairAt(t, p)
    BY <2>1 DEF PlacesOf, PairAt
  <2>3. \A n \in 1 .. Cardinality(P) : Nth(P, n) \in P
    BY PlacesOfKey, NthIs
  <2>4. /\ Entries(u, cap, key) = [n \in 1 .. Cardinality(Q) |-> PairAt(u, Nth(Q, n)).val]
        /\ Entries(t, cap, key) = [n \in 1 .. Cardinality(P) |-> PairAt(t, Nth(P, n)).val]
    BY DEF Entries
  <2> HIDE DEF P, Q
  <2>5. Entries(u, cap, key) = Entries(t, cap, key)
    BY <2>2, <2>3, <2>4
  <2> QED BY <1>7, <2>5
<1>8. CASE h = b
  <2>1. Q = {}
    BY <1>5, <1>6, <1>8
  <2>2. Entries(u, cap, key) = <<>>
    BY <2>1, NoEntries
  <2>3. CASE key # k
    <3>1. P = {}
      BY <1>6, <1>8, <2>3
    <3> QED BY <2>2, <2>3, <3>1, NoEntries
  <2>4. CASE key = k
    <3>1. P = {<<h, 1>>}
      <4>1. <<h, 1>> \in P
        BY <1>6, <1>8, <2>4
      <4>2. \A p \in P : p = <<h, 1>>
        BY <1>6, <1>8
      <4> QED BY <4>1, <4>2
    <3>2. Cardinality(P) = 1 /\ 1 \in Nat
      BY <3>1, FS_Singleton
    <3>3. Entries(t, cap, key) \in Seq(Values) /\ Len(Entries(t, cap, key)) = 1
      <4>1. /\ Entries(t, cap, key) \in Seq(Values)
            /\ Len(Entries(t, cap, key)) = Cardinality(P)
        BY <3>2, EntriesAre
      <4> QED BY <3>2, <4>1
    <3>4. Tail(Entries(t, cap, key)) = <<>> /\ Entries(t, cap, key) # <<>>
      BY <3>3, TailOfOne
    <3> QED BY <2>2, <2>4, <3>4 DEF M!WithoutOldest
  <2> QED BY <2>3, <2>4
<1> QED BY <1>7, <1>8
-----------------------------------------------------------------------------
(* The invariant: every pair is filed, and size counts them. *)
Filed == IsFiled(table, capacity)
Counted == size = Cardinality(Places(table, capacity))
Inv == TypeOK /\ Filed /\ Counted

(* A careful client never leaves a bucket dangling. *)
CarefulInv == "erase" \notin Careless => dangling = {}

(* What the invariant says of the table. *)
LEMMA InvTable ==
  ASSUME Inv
  PROVE  /\ IsTable(table, capacity) /\ IsFiled(table, capacity)
         /\ IsCapacity(capacity) /\ size = Cardinality(Places(table, capacity))
BY DEF Inv, TypeOK, Filed, Counted, IsTable, IsCapacity

(* The truncated product of a capacity and a factor. *)
LEMMA ScaledIsNat ==
  ASSUME NEW cap \in Nat, NEW quarters \in Nat
  PROVE  Scaled(cap, quarters) \in Nat
<1>1. cap * quarters \in Nat
  OBVIOUS
<1> DEFINE n == cap * quarters
<1> HIDE DEF n
<1>2. n \in Nat => n \div 4 \in Nat
  OBVIOUS
<1> QED BY <1>1, <1>2 DEF Scaled, n

(* What insert does, once it has grown the table if it is full. *)
Inserted(key, val, t, cap) ==
  /\ IsTable(t, cap) /\ IsFiled(t, cap)
  /\ Cardinality(Places(t, cap)) = size
  /\ \A k \in Keys : Entries(t, cap, k) = Entries(table, capacity, k)
  /\ cap = capacity \/ dangling = {}
  /\ WithPair(t, HashIndex(cap, key), [key |-> key, val |-> val], table')
  /\ capacity' = cap /\ size' = size + 1
  /\ UNCHANGED <<growBy, maxUsage, dangling, fault, answer>>

(* Nothing but fault and answer changes. *)
Quiet == UNCHANGED <<table, capacity, size, growBy, maxUsage, dangling>>

(* insert faults, or rehashes if it must and appends the pair to its       *)
(* chain.                                                                  *)
LEMMA InsertDoes ==
  ASSUME Inv, NEW key \in Keys, NEW val \in Values, Insert(key, val)
  PROVE  \/ Quiet /\ fault' = TRUE /\ answer' = answer /\ dangling # {}
         \/ \E t, cap : Inserted(key, val, t, cap)
<1> DEFINE cap == IF IsFull THEN Scaled(capacity, growBy) ELSE capacity
<1> DEFINE t == IF IsFull THEN Rebuilt(table, capacity, cap) ELSE table
<1> DEFINE b == HashIndex(cap, key)
<1> DEFINE faults == (IsFull /\ dangling # {}) \/ (~IsFull /\ b \in dangling)
<1>1. cap # 0 /\ IF faults THEN Fault
                 ELSE /\ table' = [t EXCEPT ![b] = Append(@, [key |-> key, val |-> val])]
                      /\ capacity' = cap
                      /\ size' = size + 1
                      /\ UNCHANGED <<dangling, factors, fault, answer>>
  BY DEF Insert
<1>2. capacity \in Nat /\ growBy \in Nat
  BY DEF Inv, TypeOK
<1>3. IsCapacity(cap)
  BY <1>1, <1>2, ScaledIsNat DEF IsCapacity
<1>4. /\ IsTable(t, cap) /\ IsFiled(t, cap) /\ Cardinality(Places(t, cap)) = size
      /\ \A k \in Keys : Entries(t, cap, k) = Entries(table, capacity, k)
  BY <1>3, InvTable, RebuiltTable, RebuiltEntries
<1>5. cap = capacity \/ IsFull
  OBVIOUS
<1>6. CASE faults
  <2>1. dangling # {}
    BY <1>6
  <2> HIDE DEF faults, cap, t, b
  <2> QED BY <1>1, <1>6, <2>1 DEF Fault, factors, Quiet
<1>7. CASE ~faults
  <2>1. cap = capacity \/ dangling = {}
    BY <1>5, <1>7
  <2> HIDE DEF faults, cap, t
  <2>2. WithPair(t, b, [key |-> key, val |-> val], table')
    BY <1>1, <1>7 DEF WithPair, WithChain
  <2>3. /\ capacity' = cap /\ size' = size + 1
        /\ UNCHANGED <<growBy, maxUsage, dangling, fault, answer>>
    BY <1>1, <1>7 DEF factors
  <2>4. Inserted(key, val, t, cap)
    BY <1>4, <2>1, <2>2, <2>3 DEF Inserted
  <2> QED BY <2>4
<1> QED BY <1>6, <1>7

(* What erase does. *)
LEMMA EraseDoes ==
  ASSUME Inv, NEW key \in Keys, Erase(key)
  PROVE  \/ Quiet /\ fault' = TRUE /\ answer' = answer /\ dangling # {}
         \/ LET b == HashIndex(capacity, key)
            IN /\ b \in 0 .. (capacity - 1)
               /\ table[b] # <<>> /\ WithChain(table, b, Tail(table[b]), table')
               /\ dangling' = IF Tail(table[b]) = <<>> THEN dangling
                              ELSE dangling \cup {b}
               /\ size' = size - 1
               /\ UNCHANGED <<capacity, growBy, maxUsage, fault, answer>>
<1> DEFINE b == HashIndex(capacity, key)
<1>1. IF b \in dangling THEN Fault
      ELSE /\ table[b] # <<>>
           /\ table' = [table EXCEPT ![b] = Tail(table[b])]
           /\ dangling' = IF Tail(table[b]) = <<>> THEN dangling ELSE dangling \cup {b}
           /\ size' = size - 1
           /\ UNCHANGED <<capacity, factors, fault, answer>>
  BY DEF Erase
<1>2. b \in 0 .. (capacity - 1)
  BY InvTable, HashInRange
<1> HIDE DEF b
<1>3. CASE b \in dangling
  BY <1>1, <1>3 DEF Fault, factors, Quiet
<1>4. CASE b \notin dangling
  BY <1>1, <1>2, <1>4 DEF factors, WithChain, b
<1> QED BY <1>3, <1>4

(* at() returns a value or null, whatever the chain. *)
LEMMA FoundType ==
  ASSUME NEW c \in Seq(Pair), NEW key
  PROVE  Found(c, key) \in Values \cup {Null}
<1> DEFINE K == Matches(c, key)
<1> DEFINE m == CHOOSE i \in K : \A j \in K : i <= j
<1>1. \A i \in 1 .. Len(c) : c[i].val \in Values
  BY PairFields
<1>2. K \subseteq 1 .. Len(c) /\ Len(c) \in Nat
  BY DEF Matches
<1>3. Found(c, key) = IF c = <<>> THEN Null
                      ELSE IF Len(c) = 1 THEN c[1].val
                      ELSE IF K = {} THEN Null ELSE c[m].val
  BY DEF Found
<1>4. K # {} => m \in K
  <2>1. K # {} => \E i \in K : \A j \in K : i <= j
    <3>1. K \subseteq Nat
      BY <1>2
    <3> HIDE DEF K
    <3> QED BY <3>1, Least
  <2> QED BY <2>1
<1> DEFINE L == Len(c)
<1>5. CASE c = <<>>
  <2> HIDE DEF K, m
  <2> QED BY <1>3, <1>5
<1>6. CASE c # <<>> /\ L = 1
  <2>1. 1 \in 1 .. L
    BY <1>6
  <2>2. c[1].val \in Values
    BY <1>1, <2>1
  <2> HIDE DEF K, m
  <2> QED BY <1>3, <1>6, <2>2 DEF L
<1>7. CASE c # <<>> /\ L # 1
  <2>1. K # {} => m \in 1 .. Len(c)
    <3> HIDE DEF K, m
    <3> QED BY <1>2, <1>4
  <2>2. K # {} => c[m].val \in Values
    <3> HIDE DEF K, m
    <3> QED BY <1>1, <2>1
  <2> HIDE DEF K, m
  <2> QED BY <1>3, <1>7, <2>2 DEF L
<1> QED BY <1>5, <1>6, <1>7
-----------------------------------------------------------------------------
(* The invariant holds after every operation. *)

(* What has to be shown of a state for the invariant to hold in it. *)
LEMMA InvAfter ==
  ASSUME IsTable(table', capacity'), IsFiled(table', capacity'),
         size' = Cardinality(Places(table', capacity')),
         growBy' \in Nat, maxUsage' \in Nat, dangling' \subseteq 0 .. (capacity' - 1),
         fault' \in BOOLEAN, answer' \in Values \cup {Null}
  PROVE  Inv'
<1>1. size' \in Nat
  BY PlacesFinite, FS_CardinalityType DEF FinitePlaces
<1>2. TypeOK'
  BY <1>1 DEF TypeOK, IsTable, IsCapacity
<1>3. Filed' /\ Counted'
  BY DEF Filed, Counted
<1> QED BY <1>2, <1>3 DEF Inv

(* An operation that leaves the table alone. *)
LEMMA QuietInv ==
  ASSUME Inv, Quiet, fault' \in BOOLEAN, answer' \in Values \cup {Null}
  PROVE  Inv'
<1>1. TypeOK' /\ Filed' /\ Counted'
  BY DEF Inv, TypeOK, Filed, Counted, Quiet
<1> QED BY <1>1 DEF Inv

(* The table that is constructed. *)
LEMMA InitInv == Init => Inv /\ CarefulInv
<1> SUFFICES ASSUME Init
             PROVE  Inv /\ CarefulInv
  OBVIOUS
<1>1. IsCapacity(capacity) /\ table = EmptyTable(capacity) /\ size = 0
  BY HashtableAssumption DEF Init, IsCapacity
<1>2. /\ IsTable(table, capacity) /\ IsFiled(table, capacity)
      /\ size = Cardinality(Places(table, capacity))
  BY <1>1, EmptyTableFacts
<1>3. TypeOK
  <2>1. /\ capacity \in Nat \ {0} /\ size \in Nat
        /\ table \in [0 .. (capacity - 1) -> Seq(Pair)]
    BY <1>1, <1>2 DEF IsTable, IsCapacity
  <2>2. /\ growBy \in Nat /\ maxUsage \in Nat /\ dangling = {}
        /\ fault \in BOOLEAN /\ answer = Null
    BY DEF Init
  <2> QED BY <2>1, <2>2 DEF TypeOK
<1> QED BY <1>2, <1>3 DEF Init, Inv, Filed, Counted, CarefulInv

(* insert keeps the invariant. *)
LEMMA InsertInv ==
  ASSUME Inv, NEW key \in Keys, NEW val \in Values, Insert(key, val)
  PROVE  Inv'
<1>1. growBy \in Nat /\ maxUsage \in Nat /\ fault \in BOOLEAN
      /\ answer \in Values \cup {Null} /\ dangling \subseteq 0 .. (capacity - 1)
  BY DEF Inv, TypeOK
<1>2. CASE Quiet /\ fault' = TRUE /\ answer' = answer
  BY <1>1, <1>2, QuietInv
<1>3. ASSUME NEW t, NEW cap, Inserted(key, val, t, cap)
      PROVE  Inv'
  <2> DEFINE x == [key |-> key, val |-> val]
  <2>1. x \in Pair /\ x.key = key
    BY DEF Pair
  <2> HIDE DEF x
  <2>2. /\ IsTable(t, cap) /\ IsFiled(t, cap) /\ Cardinality(Places(t, cap)) = size
        /\ WithPair(t, HashIndex(cap, x.key), x, table')
        /\ capacity' = cap /\ size' = size + 1
    BY <1>3, <2>1 DEF Inserted, x
  <2>3. /\ IsTable(table', cap) /\ IsFiled(table', cap)
        /\ Cardinality(Places(table', cap)) = Cardinality(Places(t, cap)) + 1
    BY <2>1, <2>2, AppendedTable
  <2>4. dangling' \subseteq 0 .. (capacity' - 1)
    BY <1>1, <1>3 DEF Inserted
  <2>5. growBy' = growBy /\ maxUsage' = maxUsage /\ fault' = fault /\ answer' = answer
    BY <1>3 DEF Inserted
  <2> QED BY <1>1, <2>2, <2>3, <2>4, <2>5, InvAfter
<1> QED BY <1>2, <1>3, InsertDoes

(* erase keeps the invariant. *)
LEMMA EraseInv ==
  ASSUME Inv, NEW key \in Keys, Erase(key)
  PROVE  Inv'
<1>1. growBy \in Nat /\ maxUsage \in Nat /\ fault \in BOOLEAN
      /\ answer \in Values \cup {Null} /\ dangling \subseteq 0 .. (capacity - 1)
  BY DEF Inv, TypeOK
<1>2. CASE Quiet /\ fault' = TRUE /\ answer' = answer
  BY <1>1, <1>2, QuietInv
<1>3. CASE ~(Quiet /\ fault' = TRUE /\ answer' = answer)
  <2> DEFINE b == HashIndex(capacity, key)
  <2>1. /\ b \in 0 .. (capacity - 1)
        /\ table[b] # <<>> /\ WithChain(table, b, Tail(table[b]), table')
        /\ dangling' = IF Tail(table[b]) = <<>> THEN dangling ELSE dangling \cup {b}
        /\ size' = size - 1
        /\ UNCHANGED <<capacity, growBy, maxUsage, fault, answer>>
    BY <1>3, EraseDoes
  <2> HIDE DEF b
  <2>2. /\ IsTable(table', capacity) /\ IsFiled(table', capacity)
        /\ Cardinality(Places(table', capacity)) = Cardinality(Places(table, capacity)) - 1
    BY <2>1, InvTable, TailTable
  <2>3. size' = Cardinality(Places(table', capacity'))
    BY <2>1, <2>2, InvTable
  <2>4. dangling' \subseteq 0 .. (capacity' - 1)
    BY <1>1, <2>1
  <2> QED BY <1>1, <2>1, <2>2, <2>3, <2>4, InvAfter
<1> QED BY <1>2, <1>3

(* at keeps the invariant. *)
LEMMA AtInv ==
  ASSUME Inv, NEW key \in Keys, At(key)
  PROVE  Inv'
<1>1. fault \in BOOLEAN /\ answer \in Values \cup {Null}
  BY DEF Inv, TypeOK
<1>2. CASE HashIndex(capacity, key) \in dangling
  BY <1>1, <1>2, QuietInv DEF At, Fault, Quiet, factors
<1>3. CASE HashIndex(capacity, key) \notin dangling
  <2>1. answer' = Found(ChainOf(key), key) /\ Quiet /\ fault' = fault
    BY <1>3 DEF At, Quiet, store, factors
  <2>2. HashIndex(capacity, key) \in 0 .. (capacity - 1)
    BY InvTable, HashInRange
  <2>3. ChainOf(key) \in Seq(Pair)
    BY <2>2, InvTable DEF ChainOf, IsTable
  <2> QED BY <1>1, <2>1, <2>3, FoundType, QuietInv
<1> QED BY <1>2, <1>3

(* Growing, shrinking or clearing a table none of whose buckets dangles. *)
LEMMA NewTableInv ==
  ASSUME Inv, NEW t, NEW cap, IsTable(t, cap), IsFiled(t, cap),
         table' = t, capacity' = cap, size' = Cardinality(Places(t, cap)),
         dangling = {}, UNCHANGED <<dangling, growBy, maxUsage, fault, answer>>
  PROVE  Inv'
<1>1. growBy \in Nat /\ maxUsage \in Nat /\ fault \in BOOLEAN
      /\ answer \in Values \cup {Null}
  BY DEF Inv, TypeOK
<1> QED BY <1>1, InvAfter

(* set_capacity keeps the invariant. *)
LEMMA SetCapacityInv ==
  ASSUME Inv, NEW cap \in 1 .. MaxCapacity, SetCapacity(cap)
  PROVE  Inv'
<1>1. IsCapacity(cap)
  BY HashtableAssumption DEF IsCapacity
<1>2. fault \in BOOLEAN /\ answer \in Values \cup {Null}
  BY DEF Inv, TypeOK
<1>3. CASE dangling # {}
  BY <1>2, <1>3, QuietInv DEF SetCapacity, Fault, Quiet, factors
<1>4. CASE dangling = {}
  <2> DEFINE t == Rebuilt(table, capacity, cap)
  <2>1. table' = t /\ capacity' = cap
        /\ UNCHANGED <<size, dangling, growBy, maxUsage, fault, answer>>
    BY <1>4 DEF SetCapacity, factors
  <2>2. IsTable(t, cap) /\ IsFiled(t, cap)
        /\ Cardinality(Places(t, cap)) = Cardinality(Places(table, capacity))
    BY <1>1, InvTable, RebuiltTable
  <2> HIDE DEF t
  <2>3. size' = Cardinality(Places(t, cap))
    BY <2>1, <2>2, InvTable
  <2> QED BY <1>4, <2>1, <2>2, <2>3, NewTableInv
<1> QED BY <1>3, <1>4

(* clear keeps the invariant. *)
LEMMA ClearInv ==
  ASSUME Inv, Clear
  PROVE  Inv'
<1>1. fault \in BOOLEAN /\ answer \in Values \cup {Null}
  BY DEF Inv, TypeOK
<1>2. CASE dangling # {}
  BY <1>1, <1>2, QuietInv DEF Clear, Fault, Quiet, factors
<1>3. CASE dangling = {}
  <2> DEFINE t == EmptyTable(capacity)
  <2>1. table' = t /\ size' = 0
        /\ UNCHANGED <<capacity, dangling, growBy, maxUsage, fault, answer>>
    BY <1>3 DEF Clear, factors
  <2>2. IsTable(t, capacity) /\ IsFiled(t, capacity)
        /\ Cardinality(Places(t, capacity)) = 0
    BY InvTable, EmptyTableFacts
  <2> HIDE DEF t
  <2> QED BY <1>3, <2>1, <2>2, NewTableInv
<1> QED BY <1>2, <1>3

(* Setting a factor keeps the invariant. *)
LEMMA SetFactorInv ==
  ASSUME Inv, SetFactor
  PROVE  Inv'
<1>1. UNCHANGED <<table, capacity, size, dangling, fault, answer>>
      /\ growBy' \in Nat /\ maxUsage' \in Nat
  BY HashtableAssumption DEF SetFactor, store, Inv, TypeOK
<1>2. TypeOK' /\ Filed' /\ Counted'
  BY <1>1 DEF Inv, TypeOK, Filed, Counted
<1> QED BY <1>2 DEF Inv

(* Every step keeps the invariant. *)
LEMMA NextInv ==
  ASSUME Inv, [Next]_vars
  PROVE  Inv'
<1>1. CASE Next
  BY <1>1, InsertInv, EraseInv, AtInv, SetCapacityInv, SetFactorInv, ClearInv DEF Next
<1>2. CASE UNCHANGED vars
  <2>1. Quiet /\ fault' = fault /\ answer' = answer
    BY <1>2 DEF vars, Quiet
  <2>2. fault \in BOOLEAN /\ answer \in Values \cup {Null}
    BY DEF Inv, TypeOK
  <2> QED BY <2>1, <2>2, QuietInv
<1> QED BY <1>1, <1>2

(* Only erase makes a bucket dangle, and not in the hands of a client that *)
(* erases nothing but the only pair of a bucket, whatever else it does.    *)
LEMMA NextCareful ==
  ASSUME Inv, CarefulInv, [Next]_vars
  PROVE  CarefulInv'
<1>1. CASE \E k \in Keys : Erase(k)
  <2>1. PICK k \in Keys : Erase(k)
    BY <1>1
  <2> DEFINE b == HashIndex(capacity, k)
  <2>2. b \in 0 .. (capacity - 1)
    BY InvTable, HashInRange
  <2>3. table[b] \in Seq(Pair)
    BY <2>2, InvTable DEF IsTable
  <2>4. "erase" \notin Careless => Tail(table[b]) = <<>>
    <3>1. "erase" \notin Careless => Len(table[b]) = 1
      BY <2>1 DEF Erase, Keeps, EraseContract, ChainOf
    <3> QED BY <2>3, <3>1, TailOfOne
  <2>5. "erase" \notin Careless => dangling' = dangling
    BY <2>1, <2>4 DEF Erase, Fault
  <2> QED BY <2>5 DEF CarefulInv
<1>2. CASE \E k \in Keys, v \in Values : Insert(k, v)
  BY <1>2 DEF Insert, Fault, CarefulInv
<1>3. CASE \E k \in Keys : At(k)
  BY <1>3 DEF At, Fault, store, CarefulInv
<1>4. CASE \E c \in 1 .. MaxCapacity : SetCapacity(c)
  BY <1>4 DEF SetCapacity, Fault, CarefulInv
<1>5. CASE SetFactor
  BY <1>5 DEF SetFactor, store, CarefulInv
<1>6. CASE Clear
  BY <1>6 DEF Clear, Fault, CarefulInv
<1>7. CASE UNCHANGED vars
  BY <1>7 DEF vars, CarefulInv
<1> QED BY <1>1, <1>2, <1>3, <1>4, <1>5, <1>6, <1>7 DEF Next

(* Every state of the hashtable has the type TypeOK, for every hash        *)
(* function and every client: the chains hold pairs only, there are as     *)
(* many chains as capacity says, and size never becomes negative.          *)
THEOREM TypeCorrect == Spec => []TypeOK
<1>1. Inv => TypeOK
  BY DEF Inv
<1> QED BY <1>1, InitInv, NextInv, PTL DEF Spec

(* After any sequence of inserts, erasures and rehashes, and whatever the  *)
(* client does, every pair is in the bucket its key hashes to.             *)
THEOREM FiledAtHome == Spec => []InHomeBucket
<1>1. ASSUME Inv
      PROVE  InHomeBucket
  <2>1. DOMAIN table = 0 .. (capacity - 1)
    BY <1>1, InvTable DEF IsTable
  <2>2. ASSUME NEW b \in 0 .. (capacity - 1), NEW i \in DOMAIN table[b]
        PROVE  HashIndex(capacity, table[b][i].key) = b
    <3>1. table[b] \in Seq(Pair)
      BY <1>1, InvTable DEF IsTable
    <3>2. i \in 1 .. Len(table[b])
      BY <3>1
    <3>3. /\ <<b, i>> \in Places(table, capacity) /\ <<b, i>>[1] = b
          /\ PairAt(table, <<b, i>>) = table[b][i]
      BY <1>1, <3>2, InvTable, PlaceMade
    <3> QED BY <1>1, <3>3, InvTable DEF IsFiled
  <2> QED BY <2>1, <2>2 DEF InHomeBucket
<1> QED BY <1>1, InitInv, NextInv, PTL DEF Spec

(* size is the number of pairs in the table, whatever the client does.     *)
THEOREM SizeCounts == Spec => []SizeIsCount
<1>1. Inv => SizeIsCount
  BY DEF Inv, Counted, SizeIsCount
<1> QED BY <1>1, InitInv, NextInv, PTL DEF Spec

(* A fault is an operation on a bucket that dangles. *)
LEMMA NextFault ==
  ASSUME NoUseAfterFree, dangling = {}, [Next]_vars
  PROVE  NoUseAfterFree'
<1>1. CASE \E k \in Keys : Erase(k)
  BY <1>1 DEF Erase, NoUseAfterFree
<1>2. CASE \E k \in Keys, v \in Values : Insert(k, v)
  BY <1>2 DEF Insert, NoUseAfterFree
<1>3. CASE \E k \in Keys : At(k)
  BY <1>3 DEF At, NoUseAfterFree
<1>4. CASE \E c \in 1 .. MaxCapacity : SetCapacity(c)
  BY <1>4 DEF SetCapacity, NoUseAfterFree
<1>5. CASE SetFactor
  BY <1>5 DEF SetFactor, NoUseAfterFree
<1>6. CASE Clear
  BY <1>6 DEF Clear, NoUseAfterFree
<1>7. CASE UNCHANGED vars
  BY <1>7 DEF vars, NoUseAfterFree
<1> QED BY <1>1, <1>2, <1>3, <1>4, <1>5, <1>6, <1>7 DEF Next

(* A client that erases only pairs that are alone in their bucket never    *)
(* has the table touch a pair that was freed, however it grows, shrinks,   *)
(* is looked up in or cleared: erase is the only source of stale chains.   *)
THEOREM OnlyEraseLeavesStale ==
  ASSUME "erase" \notin Careless
  PROVE  Spec => []NoUseAfterFree
<1>1. Init => NoUseAfterFree
  BY DEF Init, NoUseAfterFree
<1>2. CarefulInv => dangling = {}
  BY DEF CarefulInv
<1>3. NoUseAfterFree /\ CarefulInv /\ [Next]_vars => NoUseAfterFree'
  BY <1>2, NextFault
<1>4. Init => Inv /\ CarefulInv
  BY InitInv
<1>5. Inv /\ CarefulInv /\ [Next]_vars => Inv' /\ CarefulInv'
  BY NextInv, NextCareful
<1> QED BY <1>1, <1>3, <1>4, <1>5, PTL DEF Spec
-----------------------------------------------------------------------------
(* When the table grows. *)

(* With a capacity of at least 2, growing by a half makes room for one     *)
(* pair more than three quarters of the old capacity.                      *)
LEMMA GrowthSuffices ==
  ASSUME NEW cap \in Nat, cap >= 2
  PROVE  Scaled(cap, 3) + 1 <= Scaled(Scaled(cap, 6), 3)
BY DEF Scaled

(* Only insert makes the table larger, and it grows in time. *)
LEMMA InsertLoad ==
  ASSUME Inv, Next, Defaults, capacity >= 2, LoadWithin, size' > size
  PROVE  LoadWithin'
<1>1. size \in Nat /\ capacity \in Nat \ {0} /\ growBy \in Nat /\ maxUsage \in Nat
  BY DEF Inv, TypeOK
<1> USE <1>1
<1>2. CASE \E k \in Keys, v \in Values : Insert(k, v)
  <2>1. size' = size + 1 /\ capacity' = IF IsFull THEN Scaled(capacity, 6) ELSE capacity
    BY <1>2 DEF Insert, Fault, Defaults
  <2>2. Scaled(capacity, 3) \in Nat /\ Scaled(capacity, 6) \in Nat
    BY ScaledIsNat
  <2>3. CASE IsFull
    <3>1. size = Scaled(capacity, 3)
      BY <2>2, <2>3 DEF IsFull, LoadWithin, Defaults
    <3> QED BY <2>1, <2>3, <3>1, GrowthSuffices DEF LoadWithin
  <2>4. CASE ~IsFull
    <3>1. size + 1 <= Scaled(capacity, 3)
      BY <2>2, <2>4 DEF IsFull, Defaults
    <3> QED BY <2>1, <2>4, <3>1 DEF LoadWithin
  <2> QED BY <2>3, <2>4
<1>3. CASE \E k \in Keys : Erase(k)
  BY <1>3 DEF Erase, Fault
<1>4. CASE \E k \in Keys : At(k)
  BY <1>4 DEF At, Fault, store
<1>5. CASE \E c \in 1 .. MaxCapacity : SetCapacity(c)
  BY <1>5 DEF SetCapacity, Fault
<1>6. CASE SetFactor
  BY <1>6 DEF SetFactor, store
<1>7. CASE Clear
  <2>1. ~(0 > size) => ~(size' > size)
    BY <1>7 DEF Clear, Fault
  <2>2. 0 > size => LoadWithin'
    <3>1. Scaled(capacity, 3) \in Nat
      BY ScaledIsNat
    <3>2. capacity' = capacity /\ size' \in {0, size}
      BY <1>7 DEF Clear, Fault
    <3> QED BY <3>1, <3>2 DEF LoadWithin
  <2> QED BY <2>1, <2>2
<1> QED BY <1>2, <1>3, <1>4, <1>5, <1>6, <1>7 DEF Next

(* With the default factors and a capacity of at least 2, no insert fills  *)
(* a table that is at most three quarters full beyond that, for every      *)
(* hash function, every capacity and every client, careless or not.        *)
THEOREM LoadStaysBounded == Spec => LoadBounded
<1> DEFINE Bounded ==
      Defaults /\ capacity >= 2 /\ LoadWithin /\ size' > size => LoadWithin'
<1>1. Inv /\ [Next]_vars => [Bounded]_vars
  BY InsertLoad
<1>2. Inv /\ [Next]_vars => Inv'
  BY NextInv
<1> QED BY <1>1, <1>2, InitInv, PTL DEF Spec, LoadBounded
-----------------------------------------------------------------------------
(* A client that keeps every contract sees a multimap. *)

Safe == Inv /\ dangling = {}

(* The table of a client that keeps the contracts. *)
LEMMA SafeTable ==
  ASSUME Safe
  PROVE  /\ IsTable(table, capacity) /\ IsFiled(table, capacity)
         /\ IsCapacity(capacity) /\ dangling = {}
         /\ \A k \in Keys : HashIndex(capacity, k) \in 0 .. (capacity - 1)
BY InvTable, HashInRange DEF Safe

(* insert adds a value to the multimap. *)
LEMMA InsertPromise ==
  ASSUME Safe, NEW key \in Keys, NEW val \in Values, Insert(key, val)
  PROVE  M!Next
<1>1. PICK t, cap : Inserted(key, val, t, cap)
  BY InsertDoes, SafeTable DEF Safe
<1> DEFINE x == [key |-> key, val |-> val]
<1>2. x \in Pair /\ x.key = key /\ x.val = val
  BY DEF Pair
<1> HIDE DEF x
<1>3. /\ IsTable(t, cap) /\ WithPair(t, HashIndex(cap, x.key), x, table')
      /\ capacity' = cap /\ answer' = answer
      /\ \A k \in Keys : Entries(t, cap, k) = Entries(table, capacity, k)
  BY <1>1, <1>2 DEF Inserted, x
<1>4. \A k \in Keys : Entries(table', capacity', k)
                        = IF k = key THEN Append(Entries(table, capacity, k), val)
                          ELSE Entries(table, capacity, k)
  BY <1>2, <1>3, AppendedEntries
<1>5. Contents' = [Contents EXCEPT ![key] = Append(@, val)]
  BY <1>4 DEF Contents
<1>6. /\ call' = [op |-> "insert", key |-> key, val |-> val]
      /\ call'.op = "insert" /\ call'.key = key /\ call'.val = val
  BY DEF Insert
<1>7. call' \in Calls
  BY <1>6 DEF Calls
<1>8. Contents' = M!Effect(call', Contents)
  BY <1>5, <1>6 DEF M!Effect
<1> QED BY <1>3, <1>6, <1>7, <1>8 DEF M!Next

(* erase removes the oldest value of its key. *)
LEMMA ErasePromise ==
  ASSUME Safe, Careless = {}, NEW key \in Keys, Erase(key)
  PROVE  M!Next
<1> DEFINE b == HashIndex(capacity, key)
<1>1. b \in 0 .. (capacity - 1) /\ b \notin dangling /\ IsTable(table, capacity)
  BY SafeTable
<1>2. Len(table[b]) = 1 /\ table[b][1].key = key
  BY DEF Erase, Keeps, EraseContract, ChainOf
<1>3. WithChain(table, b, Tail(table[b]), table') /\ capacity' = capacity
      /\ answer' = answer
  BY <1>1 DEF Erase, WithChain
<1>4. b = HashIndex(capacity, key)
  OBVIOUS
<1> HIDE DEF b
<1>5. \A k \in Keys : Entries(table', capacity', k)
                        = IF k = key THEN M!WithoutOldest(Entries(table, capacity, k))
                          ELSE Entries(table, capacity, k)
  BY <1>1, <1>2, <1>3, <1>4, ErasedEntries
<1>6. Contents' = [Contents EXCEPT ![key] = M!WithoutOldest(@)]
  BY <1>5 DEF Contents
<1>7. call' = [op |-> "erase", key |-> key] /\ call'.op = "erase" /\ call'.key = key
  BY DEF Erase
<1>8. call' \in Calls
  BY <1>7 DEF Calls
<1>9. Contents' = M!Effect(call', Contents)
  BY <1>6, <1>7 DEF M!Effect
<1> QED BY <1>3, <1>7, <1>8, <1>9 DEF M!Next

(* at answers with the oldest value of its key. *)
LEMMA AtPromise ==
  ASSUME Safe, Careless = {}, NEW key \in Keys, At(key)
  PROVE  M!Next
<1> DEFINE b == HashIndex(capacity, key)
<1>1. b \notin dangling /\ IsTable(table, capacity)
  BY SafeTable
<1>2. table[b] # <<>> => IF Len(table[b]) = 1 THEN table[b][1].key = key
                         ELSE table[b][1].key # key
  BY DEF At, Keeps, AtContract, ChainOf
<1>3. answer' = Found(table[b], key) /\ UNCHANGED <<table, capacity>>
  BY <1>1 DEF At, ChainOf, store
<1>4. Found(table[b], key) = M!Oldest(Entries(table, capacity, key))
  BY <1>1, <1>2, FoundIsOldest
<1>5. answer' = M!Oldest(Contents[key]) /\ Contents' = Contents
  BY <1>3, <1>4 DEF Contents
<1>6. call' = [op |-> "at", key |-> key] /\ call'.op = "at" /\ call'.key = key
  BY DEF At
<1>7. call' \in Calls
  BY <1>6 DEF Calls
<1>8. Contents' = M!Effect(call', Contents)
  BY <1>5, <1>6 DEF M!Effect
<1> QED BY <1>5, <1>6, <1>7, <1>8 DEF M!Next

(* set_capacity leaves the multimap alone. *)
LEMMA SetCapacityPromise ==
  ASSUME Safe, NEW cap \in 1 .. MaxCapacity, SetCapacity(cap)
  PROVE  M!Next
<1>1. table' = Rebuilt(table, capacity, cap) /\ capacity' = cap /\ answer' = answer
  BY SafeTable DEF SetCapacity
<1>2. IsCapacity(cap)
  BY HashtableAssumption DEF IsCapacity
<1>3. \A k \in Keys : Entries(table', capacity', k) = Entries(table, capacity, k)
  BY <1>1, <1>2, SafeTable, RebuiltEntries
<1>4. Contents' = Contents
  BY <1>3 DEF Contents
<1>5. call' = [op |-> "setCapacity", n |-> cap] /\ call'.op = "setCapacity"
  BY DEF SetCapacity
<1>6. call' \in Calls
  BY <1>5 DEF Calls
<1>7. Contents' = M!Effect(call', Contents)
  BY <1>4, <1>5 DEF M!Effect
<1> QED BY <1>1, <1>5, <1>6, <1>7 DEF M!Next

(* Setting a factor leaves the multimap alone. *)
LEMMA SetFactorPromise ==
  ASSUME SetFactor
  PROVE  M!Next
<1>1. UNCHANGED <<table, capacity, answer>>
  BY DEF SetFactor, store
<1>2. Contents' = Contents
  BY <1>1 DEF Contents
<1>3. call' = [op |-> "setFactor"] /\ call'.op = "setFactor"
  BY DEF SetFactor
<1>4. call' \in Calls
  BY <1>3 DEF Calls
<1>5. Contents' = M!Effect(call', Contents)
  BY <1>2, <1>3 DEF M!Effect
<1> QED BY <1>1, <1>3, <1>4, <1>5 DEF M!Next

(* clear empties the multimap. *)
LEMMA ClearPromise ==
  ASSUME Safe, Clear
  PROVE  M!Next
<1>1. table' = EmptyTable(capacity) /\ capacity' = capacity /\ answer' = answer
  BY SafeTable DEF Clear
<1>2. \A k \in Keys : Entries(table', capacity', k) = <<>>
  BY <1>1, SafeTable, EmptyTableFacts
<1>3. Contents' = M!Nothing
  BY <1>2 DEF Contents, M!Nothing
<1>4. call' = [op |-> "clear"] /\ call'.op = "clear"
  BY DEF Clear
<1>5. call' \in Calls
  BY <1>4 DEF Calls
<1>6. Contents' = M!Effect(call', Contents)
  BY <1>3, <1>4 DEF M!Effect
<1> QED BY <1>1, <1>4, <1>5, <1>6 DEF M!Next

(* Every step is one of the multimap, or leaves it alone. *)
LEMMA PromiseKept ==
  ASSUME Inv, CarefulInv, Careless = {}, [Next]_vars
  PROVE  [M!Next]_(M!mvars)
<1>1. Safe
  BY DEF Safe, CarefulInv
<1>2. CASE Next
  <2>1. M!Next
    BY <1>1, <1>2, InsertPromise, ErasePromise, AtPromise, SetCapacityPromise,
       SetFactorPromise, ClearPromise DEF Next
  <2> QED BY <2>1
<1>3. CASE UNCHANGED vars
  <2>1. UNCHANGED <<call, answer, table, capacity>>
    BY <1>3 DEF vars
  <2>2. UNCHANGED M!mvars
    BY <2>1 DEF M!mvars, Contents
  <2> QED BY <2>2
<1> QED BY <1>2, <1>3

(* For a client that keeps the contract of every operation, the hashtable  *)
(* is a multimap: at answers with the oldest value of the key, insert adds *)
(* a value behind the others of its key, and neither a rehash nor an       *)
(* operation on another key loses or reorders a value - for every hash     *)
(* function, every capacity and all factors.                               *)
THEOREM TableIsMultimap ==
  ASSUME Careless = {}
  PROVE  Spec => IsMultimap
<1>1. Init => M!Init
  <2> SUFFICES ASSUME Init
               PROVE  M!Init
    OBVIOUS
  <2>1. IsCapacity(InitCapacity)
    BY HashtableAssumption DEF IsCapacity
  <2>2. \A k \in Keys : Entries(table, capacity, k) = <<>>
    BY <2>1, EmptyTableFacts DEF Init
  <2>3. Contents = M!Nothing
    BY <2>2 DEF Contents, M!Nothing
  <2> QED BY <2>3 DEF Init, M!Init
<1>2. Inv /\ CarefulInv /\ [Next]_vars => [M!Next]_(M!mvars)
  BY PromiseKept
<1>3. Init => Inv /\ CarefulInv
  BY InitInv
<1>4. Inv /\ CarefulInv /\ [Next]_vars => Inv' /\ CarefulInv'
  BY NextInv, NextCareful
<1> QED BY <1>1, <1>2, <1>3, <1>4, PTL DEF Spec, IsMultimap, M!Spec
=============================================================================
