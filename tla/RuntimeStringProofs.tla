------------------------ MODULE RuntimeStringProofs ------------------------
(***************************************************************************)
(* Proofs about module RuntimeString, for any memory, any number of        *)
(* strings and any texts.                                                  *)
(***************************************************************************)
EXTENDS RuntimeString, SequenceTheorems, FiniteSetTheorems, WellFoundedInduction, TLAPS

(* A text. *)
IsText(s) == s \in Seq(Chars)

(* The blocks that are not free. *)
Used(m) == {a \in Addresses : Live(m, a)}

(* A block that has a size, and one that is as large as another. *)
HasSize(b) == b.size \in Int
AsLarge(b, c) == b # NoBlock /\ c # NoBlock /\ b.size = c.size

(* Every block has a size. *)
Sized(m) == \A a \in Addresses : HasSize(m.heap[a])

(* A record with the fields of a memory, its heap a function, its total    *)
(* the bytes of the blocks that are not free.                              *)
IsMem(m) ==
  /\ m \in [heap : {m.heap}, total : {m.total}]
  /\ m.heap = [a \in Addresses |-> m.heap[a]]
  /\ Sized(m) /\ m.total = Bytes(m, Used(m))

(* What a block adds to the total. *)
Weight(b) == IF b = NoBlock THEN 0 ELSE b.size + InfoBytes

(* Nothing has happened to the memory but in the blocks A. *)
Same(m, n, A) == \A c \in Addresses : c \in A \/ n.heap[c] = m.heap[c]

(* The array x with the elements s, in the block d. *)
ArrayAt(m, x, d, s) ==
  /\ x \in Addresses /\ m.heap[x] = Header(Len(s), d)
  /\ IF s = <<>> THEN d = Null ELSE d \in Addresses /\ m.heap[d] = Data(Padded(s))

(* The string a with the array x and the text s. *)
StringAt(m, a, x, d, s, hash) ==
  /\ a \in Addresses /\ m.heap[a] = String(x, hash)
  /\ ArrayAt(m, x, d, s)
-----------------------------------------------------------------------------
(* Every non-empty set of numbers has a least element. *)
LEMMA Least ==
  ASSUME NEW T, T \subseteq Nat, T # {}
  PROVE  \E n \in T : \A k \in T : n <= k
<1> DEFINE below == {p \in Nat \X Nat : p[1] < p[2]}
<1>1. IsWellFoundedOn(below, Nat)
  <2>1. below = OpToRel(<, Nat)
    BY DEF OpToRel
  <2> QED BY <2>1, NatLessThanWellFounded
<1> HIDE DEF below
<1>2. PICK n \in T : \A k \in T : ~ (<<k, n>> \in below)
  BY <1>1, WFMin
<1>3. ASSUME NEW k \in T PROVE n <= k
  <2>1. n \in Nat /\ k \in Nat
    OBVIOUS
  <2>2. k < n => <<k, n>> \in below
    BY <2>1 DEF below
  <2> QED BY <1>2, <2>1, <2>2
<1> QED BY <1>3

-----------------------------------------------------------------------------
(***************************************************************************)
(* Sums.  That a sum exists, and does not depend on the order in which its *)
(* elements are added, is shown for the smallest set that is an exception. *)
(***************************************************************************)

(* The element that is added first. *)
First(s) == CHOOSE x \in s : TRUE

(* f sums the weights w of the subsets of S. *)
Sums(f, w, S) ==
  f = [s \in SUBSET S |-> IF s = {} THEN 0 ELSE w[First(s)] + f[s \ {First(s)}]]

Weights(m) == [a \in Addresses |-> m.heap[a].size + InfoBytes]

LEMMA BytesIs ==
  ASSUME NEW m, NEW S \in SUBSET Addresses
  PROVE  Bytes(m, S) = (CHOOSE f : Sums(f, Weights(m), S))[S]
<1> DEFINE it(f) == f = [s \in SUBSET S |->
                           IF s = {} THEN 0
                           ELSE (m.heap[First(s)].size + InfoBytes) + f[s \ {First(s)}]]
<1>1. Bytes(m, S) = (CHOOSE f : it(f))[S]
  BY DEF Bytes, MapThenSumSet, MapThenFoldSet, First
<1>2. \A f : it(f) <=> Sums(f, Weights(m), S)
  <2>1. \A s \in SUBSET S : s # {} => First(s) \in s
    BY DEF First
  <2> QED BY <2>1 DEF Sums, Weights
<1>3. (CHOOSE f : it(f)) = (CHOOSE f : Sums(f, Weights(m), S))
  BY <1>2
<1> QED BY <1>1, <1>3
(* The subsets of a finite set are finite. *)
LEMMA Subsets ==
  ASSUME NEW S, IsFiniteSet(S)
  PROVE  /\ \A s \in SUBSET S : IsFiniteSet(s) /\ Cardinality(s) \in Nat
                                /\ Cardinality(s) <= Cardinality(S)
         /\ \A s \in SUBSET S : \A x \in s :
              /\ s \ {x} \in SUBSET S
              /\ Cardinality(s \ {x}) = Cardinality(s) - 1
<1>1. ASSUME NEW s \in SUBSET S
      PROVE  /\ IsFiniteSet(s) /\ Cardinality(s) \in Nat
             /\ Cardinality(s) <= Cardinality(S)
             /\ \A x \in s : Cardinality(s \ {x}) = Cardinality(s) - 1
  <2>1. IsFiniteSet(s) /\ Cardinality(s) <= Cardinality(S)
    BY FS_Subset
  <2>2. Cardinality(s) \in Nat
    BY <2>1, FS_CardinalityType
  <2>3. \A x \in s : Cardinality(s \ {x}) = Cardinality(s) - 1
    BY <2>1, <2>2, FS_RemoveElement
  <2> QED BY <2>1, <2>2, <2>3
<1> QED BY <1>1

(* A set that is not empty has a first element. *)
LEMMA FirstIs ==
  ASSUME NEW s, s # {}
  PROVE  First(s) \in s
BY DEF First

(* What the sum is, set by set. *)
LEMMA SumsIs ==
  ASSUME NEW f, NEW w, NEW S, Sums(f, w, S)
  PROVE  /\ f[{}] = 0
         /\ \A s \in SUBSET S : s # {} =>
              First(s) \in s /\ f[s] = w[First(s)] + f[s \ {First(s)}]
<1>1. \A s \in SUBSET S :
        f[s] = IF s = {} THEN 0 ELSE w[First(s)] + f[s \ {First(s)}]
  BY DEF Sums
<1>2. {} \in SUBSET S
  OBVIOUS
<1> QED BY <1>1, <1>2, FirstIs

(* A smallest set that has no property given as a set. *)
LEMMA Smallest ==
  ASSUME NEW S, IsFiniteSet(S), NEW Bad, Bad \subseteq SUBSET S, Bad # {}
  PROVE  \E s \in Bad : \A t \in SUBSET S :
           Cardinality(t) < Cardinality(s) => t \notin Bad
<1> DEFINE T == {Cardinality(s) : s \in Bad}
<1>1. T \subseteq Nat /\ T # {}
  BY Subsets
<1>2. PICK n \in T : \A k \in T : n <= k
  BY <1>1, Least
<1>3. PICK s \in Bad : n = Cardinality(s)
  BY <1>2
<1>4. ASSUME NEW t \in SUBSET S, Cardinality(t) < Cardinality(s) PROVE t \notin Bad
  <2>1. Cardinality(t) \in Nat /\ Cardinality(s) \in Nat
    BY Subsets
  <2>2. t \in Bad => Cardinality(s) <= Cardinality(t)
    BY <1>2, <1>3
  <2> QED BY <1>4, <2>1, <2>2
<1> QED BY <1>4

(* Sums of the same weights are the same. *)
LEMMA SameSums ==
  ASSUME NEW S, IsFiniteSet(S), NEW T, IsFiniteSet(T),
         NEW f, NEW g, NEW v, NEW w, Sums(f, v, S), Sums(g, w, T),
         NEW U, U \subseteq S, U \subseteq T, \A x \in U : v[x] = w[x]
  PROVE  f[U] = g[U]
<1> DEFINE Bad == {s \in SUBSET U : f[s] # g[s]}
<1>1. IsFiniteSet(U)
  BY FS_Subset
<1>2. CASE Bad # {}
  <2>1. PICK s \in Bad : \A t \in SUBSET U : Cardinality(t) < Cardinality(s) => t \notin Bad
    <3>1. Bad \subseteq SUBSET U
      OBVIOUS
    <3> HIDE DEF Bad
    <3> QED BY <1>1, <1>2, <3>1, Smallest
  <2>2. s \in SUBSET S /\ s \in SUBSET T /\ f[s] # g[s] /\ s \in SUBSET U
    BY <2>1
  <2> HIDE DEF Bad
  <2>3. s # {}
    BY <2>2, SumsIs
  <2>4. PICK x \in s : f[s] = v[x] + f[s \ {x}] /\ g[s] = w[x] + g[s \ {x}]
    <3>1. \A t \in SUBSET S : t # {} =>
            First(t) \in t /\ f[t] = v[First(t)] + f[t \ {First(t)}]
      BY SumsIs
    <3>2. \A t \in SUBSET T : t # {} => g[t] = w[First(t)] + g[t \ {First(t)}]
      BY SumsIs
    <3> QED BY <2>2, <2>3, <3>1, <3>2
  <2> DEFINE r == s \ {x}
  <2>5. /\ Cardinality(r) = Cardinality(s) - 1 /\ Cardinality(s) \in Nat
        /\ r \in SUBSET U
    BY <1>1, <2>2, <2>4, Subsets
  <2> HIDE DEF r
  <2>6. f[r] = g[r]
    <3>1. Cardinality(r) < Cardinality(s)
      BY <2>5
    <3> QED BY <2>1, <2>5, <3>1 DEF Bad
  <2> QED BY <2>2, <2>4, <2>6 DEF r
<1>3. CASE Bad = {}
  BY <1>3
<1> QED BY <1>2, <1>3

(* Every finite set has a sum. *)
LEMMA SumsExist ==
  ASSUME NEW S, IsFiniteSet(S), NEW w
  PROVE  \E f : Sums(f, w, S)
<1> DEFINE Small(n) == {s \in SUBSET S : Cardinality(s) <= n}
<1> DEFINE Upto(f, n) ==
             f = [s \in Small(n) |-> IF s = {} THEN 0 ELSE w[First(s)] + f[s \ {First(s)}]]
<1> DEFINE Bad == {n \in Nat : \A f : ~ Upto(f, n)}
<1>1. CASE Bad # {}
  <2>1. PICK n \in Bad : \A k \in Bad : n <= k
    <3>1. Bad \subseteq Nat
      OBVIOUS
    <3> HIDE DEF Bad
    <3> QED BY <1>1, <3>1, Least
  <2>2. n # 0
    <3> SUFFICES ASSUME n = 0 PROVE FALSE
      OBVIOUS
    <3>1. Small(0) = {{}}
      <4>1. ASSUME NEW s \in SUBSET S, Cardinality(s) <= 0 PROVE s = {}
        BY <4>1, Subsets, FS_EmptySet
      <4>2. Cardinality({}) = 0
        BY FS_EmptySet
      <4> QED BY <4>1, <4>2
    <3>2. Upto([s \in {{}} |-> 0], 0)
      <4>1. [s \in {{}} |-> 0] = [s \in {{}} |-> IF s = {} THEN 0 ELSE
               w[First(s)] + [t \in {{}} |-> 0][s \ {First(s)}]]
        OBVIOUS
      <4> HIDE DEF Small
      <4> QED BY <3>1, <4>1
    <3> HIDE DEF Upto
    <3> QED BY <3>2
  <2>3. PICK f : Upto(f, n - 1)
    <3>1. n \in Nat /\ n - 1 \in Nat /\ n - 1 < n
      BY <2>2
    <3>2. n - 1 \notin Bad
      <4> HIDE DEF Bad
      <4> QED BY <2>1, <3>1
    <3> HIDE DEF Upto
    <3> QED BY <3>1, <3>2
  <2> DEFINE g == [s \in Small(n) |-> IF s = {} THEN 0 ELSE w[First(s)] + f[s \ {First(s)}]]
  <2>4. ASSUME NEW s \in Small(n), s # {}
        PROVE  f[s \ {First(s)}] = g[s \ {First(s)}]
    <3> DEFINE r == s \ {First(s)}
    <3>1. First(s) \in s
      BY <2>4, FirstIs
    <3>2. /\ Cardinality(r) = Cardinality(s) - 1 /\ Cardinality(s) \in Nat
          /\ r \in SUBSET S /\ Cardinality(s) <= n
      BY <3>1, Subsets
    <3> HIDE DEF r
    <3>3. r \in Small(n - 1) /\ r \in Small(n)
      BY <3>2
    <3>4. f[r] = IF r = {} THEN 0 ELSE w[First(r)] + f[r \ {First(r)}]
      <4> HIDE DEF Small, g
      <4> QED BY <2>3, <3>3
    <3>5. g[r] = IF r = {} THEN 0 ELSE w[First(r)] + f[r \ {First(r)}]
      <4> HIDE DEF Small, Upto
      <4> QED BY <3>3
    <3> HIDE DEF g
    <3> QED BY <3>4, <3>5 DEF r
  <2>5. Upto(g, n)
    <3> DEFINE h == [s \in Small(n) |-> IF s = {} THEN 0 ELSE w[First(s)] + g[s \ {First(s)}]]
    <3>1. \A s \in Small(n) : g[s] = h[s]
      <4> SUFFICES ASSUME NEW s \in Small(n) PROVE g[s] = h[s]
        OBVIOUS
      <4>1. g[s] = IF s = {} THEN 0 ELSE w[First(s)] + f[s \ {First(s)}]
        <5> HIDE DEF Small, Upto, h
        <5> QED OBVIOUS
      <4> HIDE DEF g
      <4>2. h[s] = IF s = {} THEN 0 ELSE w[First(s)] + g[s \ {First(s)}]
        <5> HIDE DEF Small, Upto
        <5> QED OBVIOUS
      <4> HIDE DEF h, Small, Upto
      <4> QED BY <2>4, <4>1, <4>2
    <3>2. DOMAIN g = Small(n) /\ DOMAIN h = Small(n)
      <4> HIDE DEF Small, Upto
      <4> QED OBVIOUS
    <3>3. g = [s \in Small(n) |-> g[s]] /\ h = [s \in Small(n) |-> h[s]]
      <4> HIDE DEF Small, Upto
      <4> QED OBVIOUS
    <3>4. g = h
      <4> HIDE DEF g, h, Small, Upto
      <4> QED BY <3>1, <3>3
    <3> HIDE DEF g, Small
    <3> QED BY <3>4
  <2> HIDE DEF Upto, g
  <2> QED BY <2>1, <2>5
<1>2. CASE Bad = {}
  <2> DEFINE n == Cardinality(S)
  <2>1. n \in Nat /\ Small(n) = SUBSET S
    BY Subsets, FS_CardinalityType
  <2> HIDE DEF n, Small
  <2>2. PICK f : Upto(f, n)
    <3> HIDE DEF Upto
    <3> QED BY <1>2, <2>1
  <2>3. Sums(f, w, S)
    BY <2>1, <2>2 DEF Sums
  <2> QED BY <2>3
<1> QED BY <1>1, <1>2

(* In whatever order its elements are added, a sum is the same. *)
LEMMA SumAdds ==
  ASSUME NEW S, IsFiniteSet(S), NEW f, NEW w, Sums(f, w, S), \A x \in S : w[x] \in Int
  PROVE  \A s \in SUBSET S : f[s] \in Int /\ \A a \in s : f[s] = w[a] + f[s \ {a}]
<1> DEFINE Bad == {s \in SUBSET S : ~ (f[s] \in Int /\ \A a \in s : f[s] = w[a] + f[s \ {a}])}
<1>1. CASE Bad # {}
  <2>1. PICK s \in Bad : \A t \in SUBSET S : Cardinality(t) < Cardinality(s) => t \notin Bad
    <3>1. Bad \subseteq SUBSET S
      OBVIOUS
    <3> HIDE DEF Bad
    <3> QED BY <1>1, <3>1, Smallest
  <2>2. s \in SUBSET S
    BY <2>1
  <2>3. s # {}
    <3>1. f[{}] = 0
      BY SumsIs
    <3> QED BY <2>1, <3>1
  <2>4. PICK x \in s : f[s] = w[x] + f[s \ {x}]
    <3>1. First(s) \in s /\ f[s] = w[First(s)] + f[s \ {First(s)}]
      BY <2>2, <2>3, SumsIs
    <3> QED BY <3>1
  <2>5. ASSUME NEW t \in SUBSET S, Cardinality(t) < Cardinality(s)
        PROVE  f[t] \in Int /\ \A a \in t : f[t] = w[a] + f[t \ {a}]
    BY <2>1, <2>5
  <2> HIDE DEF Bad
  <2>6. ASSUME NEW a \in s
        PROVE  s \ {a} \in SUBSET S /\ Cardinality(s \ {a}) < Cardinality(s)
    <3>1. Cardinality(s) \in Nat
      BY <2>2, Subsets
    <3> QED BY <2>2, <3>1, Subsets
  <2>7. f[s \ {x}] \in Int /\ w[x] \in Int
    BY <2>2, <2>4, <2>5, <2>6
  <2>8. ASSUME NEW a \in s PROVE f[s] = w[a] + f[s \ {a}]
    <3>1. CASE a = x
      BY <2>4, <3>1
    <3>2. CASE a # x
      <4> DEFINE r == s \ {a, x}
      <4>1. r = (s \ {a}) \ {x} /\ r = (s \ {x}) \ {a} /\ x \in s \ {a} /\ a \in s \ {x}
        BY <2>4, <3>2
      <4>2. f[s \ {a}] = w[x] + f[r]
        <5>1. s \ {a} \in SUBSET S /\ Cardinality(s \ {a}) < Cardinality(s)
          BY <2>6
        <5> HIDE DEF r
        <5> QED BY <2>5, <4>1, <5>1
      <4>3. f[s \ {x}] = w[a] + f[r]
        <5>1. s \ {x} \in SUBSET S /\ Cardinality(s \ {x}) < Cardinality(s)
          BY <2>6
        <5> HIDE DEF r
        <5> QED BY <2>5, <4>1, <5>1
      <4>4. f[r] \in Int
        <5>1. r \in SUBSET S /\ Cardinality(r) < Cardinality(s)
          <6>1. r \in SUBSET S /\ Cardinality(r) = Cardinality(s \ {a}) - 1
            <7>1. s \ {a} \in SUBSET S
              BY <2>6
            <7> HIDE DEF r
            <7> QED BY <4>1, <7>1, Subsets
          <6>2. Cardinality(s \ {a}) \in Nat /\ Cardinality(s) \in Nat
            BY <2>2, <2>6, Subsets
          <6> QED BY <2>6, <6>1, <6>2
        <5> QED BY <2>5, <5>1
      <4>5. w[a] \in Int /\ w[x] \in Int
        BY <2>2, <2>4
      <4> HIDE DEF r
      <4> QED BY <2>4, <4>2, <4>3, <4>4, <4>5
    <3> QED BY <3>1, <3>2
  <2>9. f[s] \in Int
    BY <2>4, <2>7
  <2> QED BY <2>1, <2>8, <2>9 DEF Bad
<1>2. CASE Bad = {}
  BY <1>2
<1> QED BY <1>1, <1>2

(* A sum over two sets with nothing in common. *)
LEMMA SumSplits ==
  ASSUME NEW S, IsFiniteSet(S), NEW f, NEW w, Sums(f, w, S), \A x \in S : w[x] \in Int,
         NEW U \in SUBSET S, NEW V \in SUBSET S, U \cap V = {}
  PROVE  f[U \cup V] = f[U] + f[V]
<1> DEFINE Bad == {s \in SUBSET U : f[s \cup V] # f[s] + f[V]}
<1>1. IsFiniteSet(U)
  BY FS_Subset
<1>2. CASE Bad # {}
  <2>1. PICK s \in Bad : \A t \in SUBSET U : Cardinality(t) < Cardinality(s) => t \notin Bad
    <3>1. Bad \subseteq SUBSET U
      OBVIOUS
    <3> HIDE DEF Bad
    <3> QED BY <1>1, <1>2, <3>1, Smallest
  <2>2. s \in SUBSET U /\ f[s \cup V] # f[s] + f[V]
    BY <2>1
  <2>3. f[V] \in Int /\ f[{}] = 0
    <3>1. {} \in SUBSET S
      OBVIOUS
    <3> QED BY <3>1, SumAdds, SumsIs
  <2>4. s # {}
    <3> SUFFICES ASSUME s = {} PROVE FALSE
      OBVIOUS
    <3>1. {} \cup V = V
      OBVIOUS
    <3>2. f[{} \cup V] # f[{}] + f[V]
      BY <2>2
    <3> HIDE DEF Bad
    <3> QED BY <2>3, <3>1, <3>2
  <2>5. PICK a \in s : TRUE
    BY <2>4
  <2> DEFINE r == s \ {a}
  <2>6. f[r \cup V] = f[r] + f[V]
    <3>1. r \in SUBSET U /\ Cardinality(r) = Cardinality(s) - 1 /\ Cardinality(s) \in Nat
      BY <1>1, <2>2, Subsets
    <3> HIDE DEF r
    <3>2. Cardinality(r) < Cardinality(s)
      BY <3>1
    <3> QED BY <2>1, <3>1, <3>2
  <2>7. f[s] = w[a] + f[r] /\ f[r] \in Int /\ w[a] \in Int
    <3>1. s \in SUBSET S /\ r \in SUBSET S /\ a \in S
      BY <2>2
    <3> QED BY <3>1, SumAdds
  <2>8. f[s \cup V] = w[a] + f[r \cup V]
    <3>1. s \cup V \in SUBSET S /\ a \in s \cup V
      BY <2>2
    <3>2. (s \cup V) \ {a} = r \cup V
      BY <2>2
    <3> HIDE DEF r
    <3> QED BY <3>1, <3>2, SumAdds
  <2> HIDE DEF r
  <2> QED BY <2>2, <2>3, <2>6, <2>7, <2>8
<1>3. CASE Bad = {}
  BY <1>3
<1> QED BY <1>2, <1>3

(* The bytes of blocks, whatever others there are. *)
LEMMA BytesOf ==
  ASSUME NEW m, NEW T \in SUBSET Addresses, NEW f, Sums(f, Weights(m), T),
         NEW S \in SUBSET T
  PROVE  Bytes(m, S) = f[S]
<1> DEFINE g == CHOOSE h : Sums(h, Weights(m), S)
<1>1. IsFiniteSet(S) /\ IsFiniteSet(T)
  BY AddressAssumption, FS_Subset
<1>2. \E h : Sums(h, Weights(m), S)
  BY <1>1, SumsExist
<1>3. Sums(g, Weights(m), S)
  BY <1>2
<1>4. Bytes(m, S) = g[S]
  BY BytesIs
<1> HIDE DEF g
<1>5. g[S] = f[S]
  BY <1>1, <1>3, SameSums
<1> QED BY <1>4, <1>5

(* How the bytes of blocks add up. *)
LEMMA BytesAdd ==
  ASSUME NEW m, Sized(m)
  PROVE  /\ Bytes(m, {}) = 0
         /\ \A S \in SUBSET Addresses :
              /\ Bytes(m, S) \in Int
              /\ \A a \in S : Bytes(m, S) = m.heap[a].size + InfoBytes + Bytes(m, S \ {a})
         /\ \A S, T \in SUBSET Addresses :
              S \cap T = {} => Bytes(m, S \cup T) = Bytes(m, S) + Bytes(m, T)
<1> DEFINE w == Weights(m)
<1>1. IsFiniteSet(Addresses)
  BY AddressAssumption
<1>2. PICK f : Sums(f, w, Addresses)
  BY <1>1, SumsExist
<1>3. \A a \in Addresses : w[a] = m.heap[a].size + InfoBytes /\ w[a] \in Int
  BY DEF Weights, Sized, HasSize, InfoBytes
<1>4. \A S \in SUBSET Addresses : Bytes(m, S) = f[S]
  BY <1>2, BytesOf
<1> HIDE DEF w
<1>5. f[{}] = 0
  BY <1>2, SumsIs
<1>6. \A S \in SUBSET Addresses : f[S] \in Int /\ \A a \in S : f[S] = w[a] + f[S \ {a}]
  BY <1>1, <1>2, <1>3, SumAdds
<1>7. \A S, T \in SUBSET Addresses : S \cap T = {} => f[S \cup T] = f[S] + f[T]
  BY <1>1, <1>2, <1>3, SumSplits
<1>8. ASSUME NEW S \in SUBSET Addresses
      PROVE  /\ Bytes(m, S) \in Int
             /\ \A a \in S : Bytes(m, S) = m.heap[a].size + InfoBytes + Bytes(m, S \ {a})
  <2>1. ASSUME NEW a \in S
        PROVE  Bytes(m, S) = m.heap[a].size + InfoBytes + Bytes(m, S \ {a})
    <3>1. S \ {a} \in SUBSET Addresses /\ a \in Addresses
      OBVIOUS
    <3> QED BY <1>3, <1>4, <1>6, <3>1
  <2> QED BY <1>4, <1>6, <2>1
<1>9. ASSUME NEW S \in SUBSET Addresses, NEW T \in SUBSET Addresses, S \cap T = {}
      PROVE  Bytes(m, S \cup T) = Bytes(m, S) + Bytes(m, T)
  <2>1. S \cup T \in SUBSET Addresses
    OBVIOUS
  <2>2. f[S \cup T] = f[S] + f[T]
    BY <1>7, <1>9
  <2>3. Bytes(m, S) = f[S] /\ Bytes(m, T) = f[T] /\ Bytes(m, S \cup T) = f[S \cup T]
    BY <1>4, <2>1
  <2> QED BY <2>2, <2>3
<1>10. Bytes(m, {}) = 0
  <2>1. {} \in SUBSET Addresses
    OBVIOUS
  <2> QED BY <1>4, <1>5, <2>1
<1> QED BY <1>8, <1>9, <1>10

(* Blocks of the same sizes have as many bytes. *)
LEMMA BytesSame ==
  ASSUME NEW m, NEW n, NEW S \in SUBSET Addresses,
         \A a \in S : m.heap[a].size = n.heap[a].size
  PROVE  Bytes(m, S) = Bytes(n, S)
<1>1. IsFiniteSet(S)
  BY AddressAssumption, FS_Subset
<1>2. PICK f : Sums(f, Weights(m), S)
  BY <1>1, SumsExist
<1>3. PICK g : Sums(g, Weights(n), S)
  BY <1>1, SumsExist
<1>4. \A a \in S : Weights(m)[a] = Weights(n)[a]
  BY DEF Weights
<1>5. f[S] = g[S]
  BY <1>1, <1>2, <1>3, <1>4, SameSums
<1>6. Bytes(m, S) = f[S] /\ Bytes(n, S) = g[S]
  BY <1>2, <1>3, BytesOf
<1> QED BY <1>5, <1>6
-----------------------------------------------------------------------------
(* The memory. *)

(* While there is a free block, it is a free one that is taken. *)
LEMMA FreshIsFree ==
  ASSUME NEW m, Free(m) # {}
  PROVE  Fresh(m) \in Free(m)
<1>1. Free(m) \subseteq Nat
  BY AddressAssumption DEF Free
<1>2. \E n \in Free(m) : \A k \in Free(m) : n <= k
  BY <1>1, Least
<1> QED BY <1>2 DEF Fresh, Min

(* The block a has become b, and the total what it was with b for a. *)
Replaced(m, n, a, b) ==
  n = [heap |-> [m.heap EXCEPT ![a] = b],
       total |-> m.total - Weight(m.heap[a]) + Weight(b)]

(* Replacing a block, and its share of the total. *)
LEMMA PutIs ==
  ASSUME NEW m, IsMem(m), NEW a \in Addresses, NEW b, HasSize(b), NEW n,
         Replaced(m, n, a, b)
  PROVE  IsMem(n) /\ n.heap[a] = b /\ Same(m, n, {a})
<1> DEFINE rest == Used(m) \ {a}
<1>1. /\ n \in [heap : {n.heap}, total : {n.total}]
      /\ n.heap = [c \in Addresses |-> n.heap[c]]
      /\ n.heap[a] = b /\ \A c \in Addresses \ {a} : n.heap[c] = m.heap[c]
      /\ n.total = m.total - Weight(m.heap[a]) + Weight(b)
  BY DEF IsMem, Replaced
<1>2. Sized(m) /\ Sized(n) /\ m.total = Bytes(m, Used(m))
  BY <1>1 DEF IsMem, Sized
<1>3. /\ rest \in SUBSET Addresses /\ Used(m) \in SUBSET Addresses
      /\ Used(n) \in SUBSET Addresses
      /\ a \in Used(m) <=> m.heap[a] # NoBlock
      /\ a \in Used(n) <=> b # NoBlock
      /\ Used(n) \ {a} = rest
  BY <1>1 DEF Used, Live
<1>4. Bytes(n, rest) = Bytes(m, rest)
  <2>1. \A c \in rest : n.heap[c].size = m.heap[c].size
    BY <1>1, <1>3
  <2>2. rest \in SUBSET Addresses
    BY <1>3
  <2> HIDE DEF rest
  <2> QED BY ONLY <2>1, <2>2, BytesSame
<1>5. Bytes(m, Used(m)) = Weight(m.heap[a]) + Bytes(m, rest)
  <2>1. CASE a \in Used(m)
    BY <1>2, <1>3, <2>1, BytesAdd DEF Weight
  <2>2. CASE a \notin Used(m)
    <3>1. rest = Used(m) /\ Bytes(m, rest) \in Int
      BY <1>2, <1>3, <2>2, BytesAdd
    <3> HIDE DEF rest
    <3>2. Weight(m.heap[a]) = 0
      BY <1>3, <2>2 DEF Weight
    <3> QED BY <3>1, <3>2
  <2> QED BY <2>1, <2>2
<1>6. Bytes(n, Used(n)) = Weight(b) + Bytes(n, rest)
  <2>1. CASE a \in Used(n)
    BY <1>1, <1>2, <1>3, <2>1, BytesAdd DEF Weight
  <2>2. CASE a \notin Used(n)
    <3>1. rest = Used(n) /\ Bytes(n, rest) \in Int
      BY <1>2, <1>3, <2>2, BytesAdd
    <3> HIDE DEF rest
    <3>2. Weight(b) = 0
      BY <1>3, <2>2 DEF Weight
    <3> QED BY <3>1, <3>2
  <2> QED BY <2>1, <2>2
<1>7. /\ Weight(b) \in Int /\ Weight(m.heap[a]) \in Int /\ Bytes(m, rest) \in Int
  BY <1>2, <1>3, BytesAdd DEF Weight, Sized, HasSize, InfoBytes
<1> HIDE DEF rest
<1>8. n.total = Bytes(n, Used(n))
  BY <1>1, <1>2, <1>4, <1>5, <1>6, <1>7
<1> QED BY <1>1, <1>2, <1>8 DEF IsMem, Same

(* What a memory counts is a number. *)
LEMMA TotalIs ==
  ASSUME NEW m, IsMem(m)
  PROVE  m.total \in Int /\ \A a \in Addresses : Weight(m.heap[a]) \in Int
<1>1. Used(m) \in SUBSET Addresses
  BY DEF Used
<1>2. m.total \in Int
  BY <1>1, BytesAdd DEF IsMem
<1> QED BY <1>2 DEF IsMem, Sized, HasSize, Weight, InfoBytes

(* Allocating a block. *)
LEMMA AllocIs ==
  ASSUME NEW m, IsMem(m), Free(m) # {}, NEW b, b # NoBlock, HasSize(b)
  PROVE  /\ Fresh(m) \in Free(m) /\ Fresh(m) \in Addresses
         /\ IsMem(Alloc(m, b)) /\ Alloc(m, b).heap[Fresh(m)] = b
         /\ Same(m, Alloc(m, b), {Fresh(m)})
<1>1. Fresh(m) \in Free(m) /\ Fresh(m) \in Addresses /\ m.heap[Fresh(m)] = NoBlock
  BY FreshIsFree DEF Free
<1>2. m.total + b.size + InfoBytes = m.total - Weight(m.heap[Fresh(m)]) + Weight(b)
  BY <1>1, TotalIs DEF Weight, InfoBytes, HasSize
<1> DEFINE n == Alloc(m, b)
<1> DEFINE t == m.total + b.size + InfoBytes
<1>3. n = [heap |-> [m.heap EXCEPT ![Fresh(m)] = b], total |-> t]
  BY DEF Alloc
<1>4. Replaced(m, n, Fresh(m), b)
  BY <1>2, <1>3 DEF Replaced
<1> HIDE DEF n, t
<1>5. IsMem(n) /\ n.heap[Fresh(m)] = b /\ Same(m, n, {Fresh(m)})
  BY <1>1, <1>4, PutIs
<1> QED BY <1>1, <1>5 DEF n

(* Freeing a block. *)
LEMMA FreedIs ==
  ASSUME NEW m, IsMem(m), NEW a \in Addresses, m.heap[a] # NoBlock
  PROVE  IsMem(Freed(m, a)) /\ Freed(m, a).heap[a] = NoBlock /\ Same(m, Freed(m, a), {a})
<1>1. Freed(m, a) = [heap |-> [m.heap EXCEPT ![a] = NoBlock],
                     total |-> m.total - (m.heap[a].size + InfoBytes)]
  BY DEF Freed, Live
<1>2. m.total - (m.heap[a].size + InfoBytes) =
        m.total - Weight(m.heap[a]) + Weight(NoBlock)
  <2>1. Weight(NoBlock) = 0 /\ Weight(m.heap[a]) = m.heap[a].size + InfoBytes
    BY DEF Weight
  <2> QED BY <2>1, TotalIs
<1>3. HasSize(NoBlock)
  BY DEF NoBlock, HasSize
<1> DEFINE n == Freed(m, a)
<1> DEFINE t == m.total - (m.heap[a].size + InfoBytes)
<1>4. n = [heap |-> [m.heap EXCEPT ![a] = NoBlock], total |-> t]
  BY <1>1
<1>5. Replaced(m, n, a, NoBlock)
  BY <1>2, <1>4 DEF Replaced
<1> HIDE DEF n, t
<1>6. IsMem(n) /\ n.heap[a] = NoBlock /\ Same(m, n, {a})
  BY <1>3, <1>5, PutIs
<1> QED BY <1>6 DEF n

(* Assigning to a block in place. *)
LEMMA ExceptIs ==
  ASSUME NEW m, IsMem(m), NEW a \in Addresses,
         NEW b, AsLarge(b, m.heap[a])
  PROVE  LET n == [m EXCEPT !.heap[a] = b]
         IN IsMem(n) /\ n.heap[a] = b /\ Same(m, n, {a})
<1>1. [m EXCEPT !.heap[a] = b] = [heap |-> [m.heap EXCEPT ![a] = b], total |-> m.total]
  BY DEF IsMem
<1> DEFINE n == [m EXCEPT !.heap[a] = b]
<1> HIDE DEF n
<1>2. n = [heap |-> [m.heap EXCEPT ![a] = b], total |-> m.total]
  BY <1>1 DEF n
<1>3. m.total = m.total - Weight(m.heap[a]) + Weight(b)
  <2>1. Weight(b) = Weight(m.heap[a])
    BY DEF Weight, AsLarge
  <2> QED BY <2>1, TotalIs
<1>4. HasSize(b)
  BY DEF IsMem, Sized, HasSize, AsLarge
<1>5. Replaced(m, n, a, b)
  BY <1>2, <1>3 DEF Replaced
<1>6. IsMem(n) /\ n.heap[a] = b /\ Same(m, n, {a})
  BY <1>4, <1>5, PutIs
<1> QED BY <1>6 DEF n

(* One change after another. *)
LEMMA SameTwice ==
  ASSUME NEW m, NEW n, NEW o, NEW A, NEW B, Same(m, n, A), Same(n, o, B)
  PROVE  Same(m, o, A \cup B)
BY DEF Same

(* What is free is free still. *)
LEMMA FreeStill ==
  ASSUME NEW m, NEW n, NEW A, Same(m, n, A)
  PROVE  Free(m) \ A \subseteq Free(n) /\ Free(n) \subseteq Free(m) \cup A
BY DEF Same, Free

(* How much is free. *)
LEMMA Room ==
  ASSUME NEW m
  PROVE  /\ Cardinality(Free(m)) >= 2 => \A a : Free(m) \ {a} # {}
         /\ Cardinality(Free(m)) >= 3 => \A a, b : Free(m) \ {a, b} # {}
<1>1. IsFiniteSet(Free(m))
  BY AddressAssumption, FS_Subset DEF Free
<1>2. \A S : IsFiniteSet(S) => Cardinality(S) \in Nat
  BY FS_CardinalityType
<1>3. ASSUME NEW S, IsFiniteSet(S), NEW a
      PROVE  IsFiniteSet(S \ {a}) /\ Cardinality(S \ {a}) >= Cardinality(S) - 1
  BY <1>2, <1>3, FS_RemoveElement
<1>4. \A S : IsFiniteSet(S) /\ Cardinality(S) >= 1 => S # {}
  BY FS_EmptySet
<1>5. ASSUME NEW a, Cardinality(Free(m)) >= 2 PROVE Free(m) \ {a} # {}
  <2>1. Cardinality(Free(m) \ {a}) >= 1
    BY <1>1, <1>2, <1>3, <1>5
  <2> QED BY <1>1, <1>3, <1>4, <2>1
<1>6. ASSUME NEW a, NEW b, Cardinality(Free(m)) >= 3 PROVE Free(m) \ {a, b} # {}
  <2> DEFINE S == Free(m) \ {a}
  <2>1. /\ IsFiniteSet(S) /\ Cardinality(S) >= Cardinality(Free(m)) - 1
        /\ Cardinality(S) \in Nat /\ Cardinality(Free(m)) \in Nat
    BY <1>1, <1>2, <1>3
  <2> HIDE DEF S
  <2>2. IsFiniteSet(S \ {b}) /\ Cardinality(S \ {b}) >= 1
    <3>1. /\ IsFiniteSet(S \ {b}) /\ Cardinality(S \ {b}) >= Cardinality(S) - 1
          /\ Cardinality(S \ {b}) \in Nat
      BY <1>2, <1>3, <2>1
    <3> QED BY <1>6, <2>1, <3>1
  <2>3. S \ {b} # {}
    BY <1>4, <2>2
  <2> QED BY <2>3 DEF S
<1> QED BY <1>5, <1>6
-----------------------------------------------------------------------------
(* Blocks: what they are told apart by, and what is in them. *)
LEMMA Fields ==
  /\ NoBlock.type = "none" /\ NoBlock.size = 0
  /\ \A n, d : /\ Header(n, d).type = "array" /\ Header(n, d).size = 48
               /\ Header(n, d).length = n /\ Header(n, d).data = d
               /\ \A e : [Header(n, d) EXCEPT !.data = e] = Header(n, e)
  /\ \A b : Data(b).type = "chars" /\ Data(b).bytes = b /\ Data(b).size = Len(b)
  /\ \A x, hash : /\ String(x, hash).type = "string" /\ String(x, hash).size = 24
                  /\ String(x, hash).array = x /\ String(x, hash).hash = hash
                  /\ \A y : [String(x, hash) EXCEPT !.array = y] = String(y, hash)
                  /\ \A g : [String(x, hash) EXCEPT !.hash = g] = String(x, g)
BY DEF NoBlock, Header, Data, String

(* Sequences of the same length with the same elements are the same. *)
LEMMA SameElements ==
  ASSUME NEW S, NEW p \in Seq(S), NEW q \in Seq(S), Len(p) = Len(q),
         \A i \in 1 .. Len(p) : p[i] = q[i]
  PROVE  p = q
<1>1. p = [i \in 1 .. Len(p) |-> p[i]] /\ q = [i \in 1 .. Len(q) |-> q[i]]
  OBVIOUS
<1> QED BY <1>1

(* The memory of an array is longer than the array. *)
LEMMA PaddedIs ==
  ASSUME NEW s \in Seq(Chars)
  PROVE  /\ Capacity(Len(s)) \in Nat /\ Capacity(Len(s)) >= Len(s)
         /\ Padded(s) \in Seq(Chars) /\ Len(Padded(s)) = Capacity(Len(s))
         /\ \A i \in 1 .. Len(s) : Padded(s)[i] = s[i]
         /\ SubSeq(Padded(s), 1, Len(s)) = s
<1>1. Len(s) \in Nat /\ \A i \in 1 .. Len(s) : s[i] \in Chars
  OBVIOUS
<1>2. Capacity(Len(s)) \in Nat /\ Capacity(Len(s)) >= Len(s)
  BY <1>1 DEF Capacity
<1>3. Padded(s) \in [1 .. Capacity(Len(s)) -> Chars]
  BY <1>1, StringAssumption DEF Padded
<1>4. Padded(s) \in Seq(Chars) /\ Len(Padded(s)) = Capacity(Len(s))
  BY <1>2, <1>3
<1>5. \A i \in 1 .. Len(s) : Padded(s)[i] = s[i]
  BY <1>1, <1>2 DEF Padded
<1>6. /\ SubSeq(Padded(s), 1, Len(s)) \in Seq(Chars)
      /\ Len(SubSeq(Padded(s), 1, Len(s))) = Len(s)
      /\ \A i \in 1 .. Len(s) : SubSeq(Padded(s), 1, Len(s))[i] = s[i]
  <2>1. /\ SubSeq(Padded(s), 1, Len(s)) \in Seq(Chars)
        /\ Len(SubSeq(Padded(s), 1, Len(s))) =
             IF 1 <= Len(s) THEN Len(s) - 1 + 1 ELSE 0
        /\ \A i \in 1 .. Len(s) - 1 + 1 :
             SubSeq(Padded(s), 1, Len(s))[i] = Padded(s)[1 + i - 1]
    BY <1>1, <1>5, SubSeqProperties
  <2> QED BY <1>1, <1>5, <2>1
<1>7. SubSeq(Padded(s), 1, Len(s)) = s
  BY <1>6, SameElements
<1> QED BY <1>2, <1>4, <1>5, <1>7

(* What is read from a string. *)
LEMMA StringReads ==
  ASSUME NEW m, NEW a, NEW x, NEW d, NEW s \in Seq(Chars), NEW hash,
         StringAt(m, a, x, d, s, hash)
  PROVE  /\ Array(m, a) = x /\ m.heap[x].data = d /\ m.heap[a].hash = hash
         /\ Text(m, a) = s
         /\ m.heap[a] # NoBlock /\ m.heap[x] # NoBlock /\ a # x
         /\ s # <<>> => m.heap[d] # NoBlock /\ m.heap[d].bytes = Padded(s)
                        /\ d # x /\ d # a
<1>1. /\ Array(m, a) = x /\ m.heap[x].data = d /\ m.heap[a].hash = hash
      /\ m.heap[x].length = Len(s)
      /\ m.heap[a].type = "string" /\ m.heap[x].type = "array"
      /\ s # <<>> => m.heap[d].bytes = Padded(s) /\ m.heap[d].type = "chars"
  BY Fields DEF StringAt, ArrayAt, Array
<1>2. Text(m, a) = s
  <2>1. Len(s) = 0 <=> s = <<>>
    OBVIOUS
  <2> QED BY <1>1, <2>1, PaddedIs DEF Text, Elements
<1> QED BY <1>1, <1>2, Fields

(* The blocks of a string are three, and not free. *)
LEMMA StringBlocks ==
  ASSUME NEW m, NEW a, NEW x, NEW d, NEW s, NEW hash, StringAt(m, a, x, d, s, hash)
  PROVE  /\ a \in Addresses /\ x \in Addresses /\ a # x
         /\ m.heap[a] # NoBlock /\ m.heap[x] # NoBlock
         /\ s # <<>> => d \in Addresses /\ m.heap[d] # NoBlock /\ d # x /\ d # a
         /\ s = <<>> => d = Null
         /\ Null \notin Addresses
<1>1. Null \notin Addresses
  BY AddressAssumption DEF Null
<1> QED BY <1>1, Fields DEF StringAt, ArrayAt

(* A string that is not touched stays as it is. *)
LEMMA Untouched ==
  ASSUME NEW m, NEW n, NEW A, Same(m, n, A),
         NEW a, NEW x, NEW d, NEW s, NEW hash, StringAt(m, a, x, d, s, hash),
         a \notin A, x \notin A, s # <<>> => d \notin A
  PROVE  StringAt(n, a, x, d, s, hash)
BY DEF StringAt, ArrayAt, Same
-----------------------------------------------------------------------------
(* Blocks that are made have a size. *)
LEMMA Sizes ==
  /\ \A n, d : Header(n, d) # NoBlock /\ HasSize(Header(n, d))
  /\ \A n, d, k, e : AsLarge(Header(n, d), Header(k, e))
  /\ \A x, hash : String(x, hash) # NoBlock /\ HasSize(String(x, hash))
  /\ \A x, hash, y, g : AsLarge(String(x, hash), String(y, g))
  /\ \A s \in Seq(Chars) : Data(Padded(s)) # NoBlock /\ HasSize(Data(Padded(s)))
  /\ \A s, t \in Seq(Chars) : Len(s) = Len(t) => AsLarge(Data(Padded(s)), Data(Padded(t)))
<1>1. \A n, d : Header(n, d) # NoBlock /\ Header(n, d).size = 48
  BY Fields
<1>2. \A x, hash : String(x, hash) # NoBlock /\ String(x, hash).size = 24
  BY Fields
<1>3. \A b : Data(b) # NoBlock /\ Data(b).size = Len(b)
  BY Fields
<1>4. \A s \in Seq(Chars) : Len(Padded(s)) \in Int /\ Len(Padded(s)) = Capacity(Len(s))
  BY PaddedIs
<1> QED BY <1>1, <1>2, <1>3, <1>4 DEF HasSize, AsLarge

(* Making an array. *)
LEMMA WithArrayIs ==
  ASSUME NEW m, IsMem(m), NEW s \in Seq(Chars), \A a : Free(m) \ {a} # {}
  PROVE  \E d : /\ IsMem(WithArray(m, s)) /\ ArrayAt(WithArray(m, s), Fresh(m), d, s)
                /\ Fresh(m) \in Free(m)
                /\ s # <<>> => d \in Free(m) \ {Fresh(m)}
                /\ s = <<>> => d = Null
                /\ Same(m, WithArray(m, s), {Fresh(m), d})
<1> DEFINE x == Fresh(m)
<1>1. Free(m) # {}
  OBVIOUS
<1>2. CASE s = <<>>
  <2>1. WithArray(m, s) = Alloc(m, Header(0, Null)) /\ Len(s) = 0
    BY <1>2 DEF WithArray
  <2> DEFINE b == Header(0, Null)
  <2> DEFINE n == Alloc(m, b)
  <2>2. b # NoBlock /\ HasSize(b)
    BY Sizes
  <2> HIDE DEF b
  <2>3. /\ Fresh(m) \in Free(m) /\ Fresh(m) \in Addresses /\ IsMem(n)
        /\ n.heap[Fresh(m)] = b /\ Same(m, n, {Fresh(m)})
    BY <1>1, <2>2, AllocIs
  <2> HIDE DEF n
  <2>4. ArrayAt(n, Fresh(m), Null, s) /\ Same(m, n, {Fresh(m), Null})
    BY <1>2, <2>1, <2>3 DEF ArrayAt, Same, b
  <2> QED BY <1>2, <2>1, <2>3, <2>4 DEF n, b
<1>3. CASE s # <<>>
  <2> DEFINE h == Alloc(m, Header(Len(s), Null))
  <2> DEFINE d == Fresh(h)
  <2> DEFINE k == Alloc(h, Data(Padded(s)))
  <2> DEFINE n == [k EXCEPT !.heap[x] = Header(Len(s), d)]
  <2>1. /\ x \in Free(m) /\ x \in Addresses /\ IsMem(h)
        /\ h.heap[x] = Header(Len(s), Null) /\ Same(m, h, {x})
    BY <1>1, AllocIs, Sizes
  <2>2. Free(h) # {} /\ Free(h) \subseteq Free(m) \cup {x}
    BY <2>1, FreeStill
  <2>3. /\ d \in Free(h) /\ d \in Addresses /\ IsMem(k)
        /\ k.heap[d] = Data(Padded(s)) /\ Same(h, k, {d})
    BY <2>1, <2>2, AllocIs, Sizes
  <2>4. d # x
    BY <2>1, <2>3, Fields DEF Free
  <2>5. k.heap[x] = Header(Len(s), Null)
    BY <2>1, <2>3, <2>4 DEF Same
  <2>6. WithArray(m, s) = n
    <3>1. WithArray(m, s) = [k EXCEPT !.heap[x].data = d]
      BY <1>3 DEF WithArray
    <3> HIDE DEF k, d
    <3>2. [k EXCEPT !.heap[x].data = d] = [k EXCEPT !.heap[x] = [k.heap[x] EXCEPT !.data = d]]
      OBVIOUS
    <3> QED BY <2>5, <3>1, <3>2, Fields
  <2> HIDE DEF h, k, d, x
  <2>7. IsMem(n) /\ n.heap[x] = Header(Len(s), d) /\ Same(k, n, {x})
    <3>1. AsLarge(Header(Len(s), d), k.heap[x])
      BY <2>5, Sizes
    <3> QED BY <2>1, <2>3, <3>1, ExceptIs
  <2> HIDE DEF n
  <2>8. n.heap[d] = Data(Padded(s))
    BY <2>3, <2>4, <2>7 DEF Same
  <2>9. Same(m, n, {x, d})
    BY <2>1, <2>3, <2>7 DEF Same
  <2>10. ArrayAt(n, x, d, s)
    BY <1>3, <2>1, <2>3, <2>7, <2>8 DEF ArrayAt
  <2> QED BY <1>3, <2>1, <2>2, <2>3, <2>4, <2>6, <2>7, <2>9, <2>10 DEF x
<1> QED BY <1>2, <1>3

(* Making a string. *)
LEMMA WithStringIs ==
  ASSUME NEW m, IsMem(m), NEW s \in Seq(Chars), NEW hash,
         Cardinality(Free(m)) >= 3
  PROVE  \E x, d : /\ IsMem(WithString(m, s, hash))
                   /\ StringAt(WithString(m, s, hash), Fresh(m), x, d, s, hash)
                   /\ {Fresh(m), x} \subseteq Free(m)
                   /\ s # <<>> => d \in Free(m)
                   /\ s = <<>> => d = Null
                   /\ Same(m, WithString(m, s, hash), {Fresh(m), x, d})
<1> DEFINE a == Fresh(m)
<1> DEFINE e == Alloc(m, String(Null, NoHash))
<1> DEFINE x == Fresh(e)
<1> DEFINE w == WithArray(e, s)
<1> DEFINE n == [w EXCEPT !.heap[a] = String(x, hash)]
<1>1. \A b, c : Free(m) \ {b, c} # {}
  BY Room
<1>2. /\ a \in Free(m) /\ a \in Addresses /\ IsMem(e)
      /\ e.heap[a] = String(Null, NoHash) /\ Same(m, e, {a})
  BY <1>1, AllocIs, Sizes
<1>3. Free(m) \ {a} \subseteq Free(e) /\ Free(e) \subseteq Free(m) \ {a}
  <2>1. a \notin Free(e)
    BY <1>2, Fields DEF Free
  <2> QED BY <1>2, <2>1, FreeStill
<1>4. ASSUME NEW b PROVE Free(e) \ {b} # {}
  <2>1. Free(m) \ {a, b} # {}
    BY <1>1
  <2> HIDE DEF a, e
  <2> QED BY <1>3, <2>1
<1> HIDE DEF e, a
<1>5. PICK d : /\ IsMem(w) /\ ArrayAt(w, x, d, s) /\ x \in Free(e)
               /\ s # <<>> => d \in Free(e) \ {x}
               /\ s = <<>> => d = Null
               /\ Same(e, w, {x, d})
  BY <1>2, <1>4, WithArrayIs
<1>6. WithString(m, s, hash) = n
  BY DEF WithString, e, a
<1> HIDE DEF w, x
<1>7. IsMem(n) /\ n.heap[a] = String(x, hash) /\ Same(w, n, {a})
  <2>1. a # x /\ a # d
    BY <1>2, <1>3, <1>5, AddressAssumption DEF Null
  <2>2. w.heap[a] = String(Null, NoHash)
    BY <1>2, <1>5, <2>1 DEF Same
  <2>3. AsLarge(String(x, hash), w.heap[a])
    BY <2>2, Sizes
  <2> QED BY <1>2, <1>5, <2>3, ExceptIs
<1> HIDE DEF n
<1>8. Same(m, n, {a, x, d})
  BY <1>2, <1>5, <1>7 DEF Same
<1>9. a # x /\ (s # <<>> => a # d)
  BY <1>3, <1>5
<1>10. ArrayAt(n, x, d, s)
  BY <1>5, <1>7, <1>9 DEF ArrayAt, Same
<1>11. StringAt(n, a, x, d, s, hash)
  BY <1>2, <1>7, <1>10 DEF StringAt
<1> QED BY <1>2, <1>3, <1>5, <1>6, <1>7, <1>8, <1>11 DEF a

(* The array x had the elements s in the block d, and has none now. *)
Emptied(m, n, x, d, s) ==
  /\ IsMem(n) /\ n.heap[x] = Header(0, Null) /\ Same(m, n, {x, d})
  /\ s # <<>> => n.heap[d] = NoBlock

(* Clearing an array, which gives its elements back. *)
LEMMA ArrayClearedIs ==
  ASSUME NEW m, IsMem(m), NEW x, NEW d, NEW s, IsText(s), ArrayAt(m, x, d, s)
  PROVE  Emptied(m, ArrayCleared(m, x), x, d, s)
<1> DEFINE n == ArrayCleared(m, x)
<1> DEFINE k == [m EXCEPT !.heap[x] = Header(0, Null)]
<1>1. m.heap[x].length = Len(s) /\ m.heap[x].data = d /\ x \in Addresses
  BY Fields DEF ArrayAt
<1>2. CASE s = <<>>
  <2>1. Len(s) = 0
    BY <1>2
  <2>2. n = m /\ m.heap[x] = Header(0, Null)
    BY <1>1, <1>2, <2>1 DEF ArrayCleared, ArrayAt
  <2> QED BY <1>2, <2>2 DEF Same, Emptied
<1>3. CASE s # <<>>
  <2>1. Len(s) # 0
    BY <1>3 DEF IsText
  <2>2. n = Freed(k, d)
    BY <1>1, <2>1 DEF ArrayCleared
  <2>3. IsMem(k) /\ k.heap[x] = Header(0, Null) /\ Same(m, k, {x})
    <3>1. m.heap[x] = Header(Len(s), d)
      BY DEF ArrayAt
    <3>2. AsLarge(Header(0, Null), m.heap[x])
      BY <3>1, Sizes
    <3> QED BY <1>1, <3>2, ExceptIs
  <2> HIDE DEF k
  <2>4. d \in Addresses /\ m.heap[d] = Data(Padded(s)) /\ d # x /\ k.heap[d] # NoBlock
    <3>1. d \in Addresses /\ m.heap[d] = Data(Padded(s)) /\ m.heap[x] = Header(Len(s), d)
      BY <1>3 DEF ArrayAt
    <3>2. d # x
      BY <3>1, Fields
    <3>3. k.heap[d] = m.heap[d]
      BY <2>3, <3>1, <3>2 DEF Same
    <3> QED BY <3>1, <3>2, <3>3, Fields
  <2>5. IsMem(n) /\ n.heap[d] = NoBlock /\ Same(k, n, {d})
    BY <2>2, <2>3, <2>4, FreedIs
  <2> HIDE DEF n
  <2>6. n.heap[x] = Header(0, Null)
    BY <1>1, <2>3, <2>4, <2>5 DEF Same
  <2>7. Same(m, n, {x, d})
    BY <2>3, <2>5 DEF Same
  <2>8. IsMem(n) /\ n.heap[x] = Header(0, Null) /\ Same(m, n, {x, d})
        /\ n.heap[d] = NoBlock
    BY <2>5, <2>6, <2>7
  <2> QED BY <2>8 DEF n, Emptied
<1> QED BY <1>2, <1>3

(* Clearing a string. *)
LEMMA ClearedIs ==
  ASSUME NEW m, IsMem(m), NEW a, NEW x, NEW d, NEW s \in Seq(Chars), NEW hash,
         StringAt(m, a, x, d, s, hash)
  PROVE  LET n == Cleared(m, a)
         IN /\ IsMem(n) /\ StringAt(n, a, x, Null, <<>>, NoHash)
            /\ Same(m, n, {a, x, d})
            /\ s # <<>> => n.heap[d] = NoBlock
<1> DEFINE k == ArrayCleared(m, x)
<1> DEFINE n == [k EXCEPT !.heap[a] = String(x, NoHash)]
<1>1. /\ Array(m, a) = x /\ a # x /\ (s # <<>> => d # a)
      /\ m.heap[a] = String(x, hash) /\ a \in Addresses /\ x \in Addresses
      /\ ArrayAt(m, x, d, s)
  BY StringReads DEF StringAt, ArrayAt
<1>2. /\ IsMem(k) /\ k.heap[x] = Header(0, Null)
      /\ Same(m, k, {x, d})
      /\ s # <<>> => k.heap[d] = NoBlock
  <2> HIDE DEF n
  <2>1. ArrayAt(m, x, d, s) /\ IsText(s)
    BY <1>1 DEF IsText
  <2>2. Emptied(m, k, x, d, s)
    BY <2>1, ArrayClearedIs
  <2> HIDE DEF k
  <2> QED BY <2>2 DEF Emptied
<1>3. k.heap[a] = String(x, hash)
  <2>1. s = <<>> => d = Null /\ a # Null
    BY <1>1, AddressAssumption DEF ArrayAt, Null
  <2> QED BY <1>1, <1>2, <2>1 DEF Same
<1>4. Cleared(m, a) = n
  <2>1. Cleared(m, a) = [k EXCEPT !.heap[a].hash = NoHash]
    BY <1>1 DEF Cleared
  <2> HIDE DEF k
  <2>2. [k EXCEPT !.heap[a].hash = NoHash] =
          [k EXCEPT !.heap[a] = [k.heap[a] EXCEPT !.hash = NoHash]]
    OBVIOUS
  <2> QED BY <1>3, <2>1, <2>2, Fields
<1> HIDE DEF k
<1>5. IsMem(n) /\ n.heap[a] = String(x, NoHash) /\ Same(k, n, {a})
  <2>1. AsLarge(String(x, NoHash), k.heap[a])
    BY <1>3, Sizes
  <2> QED BY <1>1, <1>2, <2>1, ExceptIs
<1> HIDE DEF n
<1>6. n.heap[x] = Header(0, Null) /\ (s # <<>> => n.heap[d] = NoBlock)
  BY <1>1, <1>2, <1>5 DEF Same, ArrayAt
<1>7. ArrayAt(n, x, Null, <<>>)
  BY <1>1, <1>6 DEF ArrayAt
<1>8. StringAt(n, a, x, Null, <<>>, NoHash)
  BY <1>1, <1>5, <1>7 DEF StringAt
<1>9. Same(m, n, {a, x, d})
  BY <1>2, <1>5 DEF Same
<1> QED BY <1>4, <1>5, <1>6, <1>8, <1>9

(* The string a with the array x in the block d has been given the text s  *)
(* and a new array y in the block e; the old one is lost, but its block.   *)
Renewed(m, n, a, x, d, y, e, s) ==
  /\ IsMem(n) /\ StringAt(n, a, y, e, s, NoHash)
  /\ y \in Free(m) \cup {d}
  /\ s # <<>> => e \in Free(m) \cup {d}
  /\ s = <<>> => e = Null
  /\ Same(m, n, {a, x, d, y, e})
  /\ x \notin {a, y, e} /\ n.heap[x] = Header(0, Null)
  /\ d \in Addresses \ {y, e} => n.heap[d] = NoBlock

(* Assigning to a string: its block stays, and gets a new array. *)
LEMMA AssignedIs ==
  ASSUME NEW m, IsMem(m), NEW a, NEW x, NEW d, NEW t \in Seq(Chars), NEW hash,
         StringAt(m, a, x, d, t, hash),
         NEW s \in Seq(Chars), Cardinality(Free(m)) >= 2
  PROVE  \E y, e : Renewed(m, Assigned(m, a, s), a, x, d, y, e, s)
<1> DEFINE c == Cleared(m, a)
<1> DEFINE y == Fresh(c)
<1> DEFINE w == WithArray(c, s)
<1> DEFINE n == [w EXCEPT !.heap[a] = String(y, NoHash)]
<1>1. /\ IsMem(c) /\ StringAt(c, a, x, Null, <<>>, NoHash)
      /\ Same(m, c, {a, x, d}) /\ (t # <<>> => c.heap[d] = NoBlock)
  BY ClearedIs
<1>2. /\ a \in Addresses /\ c.heap[a] = String(x, NoHash)
      /\ a \notin Free(c) /\ x \notin Free(c)
      /\ a \notin Free(m) /\ x \notin Free(m)
      /\ t # <<>> => d \notin Free(m) /\ d \in Addresses
      /\ t = <<>> => d \notin Free(m)
  <2>1. c.heap[a] # NoBlock /\ c.heap[x] # NoBlock
    <3> HIDE DEF c, y, w, n
    <3>1. StringAt(c, a, x, Null, <<>>, NoHash)
      BY <1>1
    <3> QED BY <3>1, StringBlocks
  <2>2. m.heap[a] # NoBlock /\ m.heap[x] # NoBlock /\ (t # <<>> => m.heap[d] # NoBlock)
    BY StringBlocks
  <2>3. t = <<>> => d = Null
    BY DEF StringAt, ArrayAt
  <2>4. t # <<>> => d \in Addresses
    BY DEF StringAt, ArrayAt
  <2>5. Null \notin Addresses
    BY AddressAssumption DEF Null
  <2>6. a \in Addresses /\ c.heap[a] = String(x, NoHash)
    BY <1>1 DEF StringAt
  <2> HIDE DEF c
  <2> QED BY <2>1, <2>2, <2>3, <2>4, <2>5, <2>6 DEF Free
<1> HIDE DEF c
<1>3. Free(m) \subseteq Free(c) /\ Free(c) \subseteq Free(m) \cup {d}
  <2>1. Free(m) \ {a, x, d} \subseteq Free(c) /\ Free(c) \subseteq Free(m) \cup {a, x, d}
    BY <1>1, FreeStill
  <2> QED BY <1>2, <2>1
<1>4. \A b : Free(c) \ {b} # {}
  BY <1>3, Room, SMTT(40)
<1>5. PICK e : /\ IsMem(w) /\ ArrayAt(w, y, e, s) /\ y \in Free(c)
               /\ s # <<>> => e \in Free(c) \ {y}
               /\ s = <<>> => e = Null
               /\ Same(c, w, {y, e})
  BY <1>1, <1>4, WithArrayIs
<1>6. w.heap[a] = String(x, NoHash)
  <2>1. a # y /\ a # e
    BY <1>2, <1>5, AddressAssumption DEF Null
  <2> HIDE DEF w, y
  <2> QED BY <1>2, <1>5, <2>1 DEF Same
<1>7. Assigned(m, a, s) = n
  <2>1. Assigned(m, a, s) = [w EXCEPT !.heap[a].array = y]
    BY DEF Assigned, c
  <2> HIDE DEF w, y
  <2>2. [w EXCEPT !.heap[a].array = y] =
          [w EXCEPT !.heap[a] = [w.heap[a] EXCEPT !.array = y]]
    OBVIOUS
  <2> QED BY <1>6, <2>1, <2>2, Fields
<1> HIDE DEF w, y
<1>8. IsMem(n) /\ n.heap[a] = String(y, NoHash) /\ Same(w, n, {a})
  <2>1. AsLarge(String(y, NoHash), w.heap[a])
    BY <1>6, Sizes
  <2> QED BY <1>2, <1>5, <2>1, ExceptIs
<1> HIDE DEF n
<1>9. Same(m, n, {a, x, d, y, e})
  BY <1>1, <1>5, <1>8 DEF Same
<1>10. a # y /\ (s # <<>> => a # e)
  BY <1>2, <1>5
<1>11. StringAt(n, a, y, e, s, NoHash)
  BY <1>2, <1>5, <1>8, <1>10 DEF StringAt, ArrayAt, Same
<1>12. y \in Free(m) \cup {d} /\ (s # <<>> => e \in Free(m) \cup {d})
  BY <1>3, <1>5
<1>13. x \notin {a, y, e}
  <2>1. x # a /\ x # d /\ x \in Addresses
    <3>1. a # x /\ x \in Addresses /\ (t # <<>> => d # x) /\ (t = <<>> => d = Null)
      BY StringBlocks
    <3> QED BY <3>1, AddressAssumption DEF Null
  <2> QED BY <1>2, <1>5, <2>1, AddressAssumption DEF Null
<1>14. n.heap[x] = Header(0, Null)
  <2>1. c.heap[x] = Header(0, Null) /\ x \in Addresses
    BY <1>1 DEF StringAt, ArrayAt
  <2> QED BY <1>5, <1>8, <1>13, <2>1 DEF Same
<1>15. ASSUME d \in Addresses \ {y, e} PROVE n.heap[d] = NoBlock
  <2>1. t # <<>>
    BY <1>15, AddressAssumption DEF StringAt, ArrayAt, Null
  <2>2. c.heap[d] = NoBlock /\ d # a
    BY <1>1, <2>1, StringBlocks
  <2> QED BY <1>5, <1>8, <1>15, <2>2 DEF Same
<1>16. Renewed(m, n, a, x, d, y, e, s)
  BY <1>5, <1>8, <1>9, <1>11, <1>12, <1>13, <1>14, <1>15 DEF Renewed
<1> QED BY <1>7, <1>16

(* The blocks A have been given back, and no others touched. *)
GivenBack(m, n, A) ==
  IsMem(n) /\ Same(m, n, A) /\ \A c \in A : c \in Addresses => n.heap[c] = NoBlock

(* Deleting a string. *)
LEMMA DeletedIs ==
  ASSUME NEW m, IsMem(m), NEW a, NEW x, NEW d, NEW s \in Seq(Chars), NEW hash,
         StringAt(m, a, x, d, s, hash)
  PROVE  GivenBack(m, Freed(ArrayDeleted(m, x), a), {a, x, d})
<1> DEFINE k == ArrayCleared(m, x)
<1> DEFINE o == Freed(k, x)
<1> DEFINE n == Freed(o, a)
<1> HIDE DEF k, o, n
<1>1. /\ a # x /\ (s # <<>> => d # a) /\ m.heap[a] # NoBlock
      /\ a \in Addresses /\ x \in Addresses /\ ArrayAt(m, x, d, s)
      /\ s = <<>> => d = Null
  BY StringBlocks DEF StringAt
<1>2. /\ IsMem(k) /\ k.heap[x] = Header(0, Null) /\ Same(m, k, {x, d})
      /\ s # <<>> => k.heap[d] = NoBlock
  <2>1. IsText(s)
    BY DEF IsText
  <2>2. Emptied(m, k, x, d, s)
    BY <1>1, <2>1, ArrayClearedIs DEF k
  <2> QED BY <2>2 DEF Emptied
<1>3. IsMem(o) /\ Same(k, o, {x}) /\ o.heap[x] = NoBlock
  <2>1. k.heap[x] # NoBlock
    BY <1>2, Fields
  <2> QED BY <1>1, <1>2, <2>1, FreedIs DEF o
<1>4. o.heap[a] # NoBlock
  BY <1>1, <1>2, <1>3, AddressAssumption DEF Same, Null
<1>5. IsMem(n) /\ Same(o, n, {a}) /\ n.heap[a] = NoBlock
  BY <1>1, <1>3, <1>4, FreedIs DEF n
<1>6. Freed(ArrayDeleted(m, x), a) = n
  BY DEF ArrayDeleted, k, o, n
<1>7. Same(m, n, {a, x, d})
  BY <1>2, <1>3, <1>5 DEF Same
<1>8. ASSUME NEW c \in {a, x, d}, c \in Addresses PROVE n.heap[c] = NoBlock
  <2>1. CASE c = a
    BY <1>5, <2>1
  <2>2. CASE c = x
    BY <1>1, <1>3, <1>5, <2>2 DEF Same
  <2>3. CASE c = d /\ c # a /\ c # x
    <3>1. s # <<>>
      BY <1>1, <1>8, <2>3, AddressAssumption DEF Null
    <3> QED BY <1>2, <1>3, <1>5, <1>8, <2>3, <3>1 DEF Same
  <2> QED BY <1>8, <2>1, <2>2, <2>3
<1>9. GivenBack(m, n, {a, x, d})
  BY <1>5, <1>7, <1>8 DEF GivenBack
<1> QED BY <1>6, <1>9
-----------------------------------------------------------------------------
(***************************************************************************)
(* The state.                                                              *)
(***************************************************************************)

(* A string with all that belongs to it. *)
Whole(m, a) ==
  LET x == Array(m, a)
  IN /\ Text(m, a) \in Seq(Chars)
     /\ StringAt(m, a, x, m.heap[x].data, Text(m, a), m.heap[a].hash)

(* Every string has blocks of its own. *)
Apart == \A g, h \in Handles : g # h => BlocksOf(g) \cap BlocksOf(h) = {}

(* What is lost are empty headers, one for every assignment. *)
LostHeaders ==
  Cardinality(Lost) = headers /\ \A a \in Lost : mem.heap[a] = Header(0, Null)

(* The inductive invariant. *)
Inv ==
  /\ IsMem(mem) /\ held = [h \in Handles |-> held[h]]
  /\ phase = "off" => /\ mem = NoMemory /\ headers = 0
                      /\ \A h \in Handles : held[h] = Null
  /\ \A h \in Handles : held[h] # Null => Whole(mem, held[h])
  /\ Apart /\ HashIsOfText /\ LostHeaders

(* The text of every string, as StringStore has it. *)
Contents == [h \in Handles |-> IF held[h] = Null THEN None ELSE Text(mem, held[h])]

(* What a client holds are strings. *)
LEMMA HeldString ==
  ASSUME Inv, NEW h \in Handles, held[h] # Null
  PROVE  \E x, d : \E t \in Seq(Chars) :
           LET hash == mem.heap[held[h]].hash
           IN /\ StringAt(mem, held[h], x, d, t, hash)
              /\ Text(mem, held[h]) = t /\ Contents[h] = t /\ t # None
              /\ Array(mem, held[h]) = x /\ mem.heap[x].data = d
              /\ BlocksOf(h) = {held[h], x} \cup ({d} \ {Null})
              /\ BlocksOf(h) \subseteq Addresses /\ BlocksOf(h) \cap Free(mem) = {}
              /\ h \notin retouched => hash \in {NoHash, HashOf(Padded(t))}
<1> DEFINE a == held[h]
<1> DEFINE x == Array(mem, a)
<1> DEFINE d == mem.heap[x].data
<1> DEFINE t == Text(mem, a)
<1>1. t \in Seq(Chars) /\ StringAt(mem, a, x, d, t, mem.heap[a].hash)
  BY DEF Inv, Whole
<1>2. Contents[h] = t
  BY DEF Contents
<1>3. t # None
  BY <1>1, StringAssumption
<1>4. BlocksOf(h) = {a, x} \cup ({d} \ {Null})
  BY DEF BlocksOf
<1>5. h \notin retouched => mem.heap[a].hash \in {NoHash, HashOf(Padded(t))}
  BY DEF Inv, HashIsOfText
<1> HIDE DEF d, x, t, a
<1>6. BlocksOf(h) \subseteq Addresses /\ BlocksOf(h) \cap Free(mem) = {}
  BY <1>1, <1>4, StringBlocks DEF Free
<1> QED BY <1>1, <1>2, <1>3, <1>4, <1>5, <1>6 DEF d, x, t, a

(* A string that the client made, or changed, makes sense. *)
LEMMA NowWhole ==
  ASSUME NEW m, NEW a, NEW x, NEW d, NEW t \in Seq(Chars), NEW hash,
         StringAt(m, a, x, d, t, hash)
  PROVE  Whole(m, a) /\ Text(m, a) = t /\ Array(m, a) = x /\ m.heap[x].data = d
         /\ m.heap[a].hash = hash /\ a # Null
<1>1. Text(m, a) = t /\ Array(m, a) = x /\ m.heap[x].data = d /\ m.heap[a].hash = hash
  BY StringReads
<1>2. a # Null
  BY AddressAssumption DEF StringAt, Null
<1> QED BY <1>1, <1>2 DEF Whole

(* The others are not touched by what happens in the blocks of one string, *)
(* or in free ones.                                                        *)
LEMMA Others ==
  ASSUME Inv, NEW h \in Handles, NEW A, Same(mem, mem', A),
         A \subseteq BlocksOf(h) \cup Free(mem) \cup {Null},
         \A k \in Handles : k # h => held'[k] = held[k],
         NEW g \in Handles, g # h
  PROVE  /\ BlocksOf(g)' = BlocksOf(g) /\ BlocksOf(g) \cap A = {}
         /\ Contents'[g] = Contents[g]
         /\ held'[g] = held[g]
         /\ held[g] # Null => /\ Whole(mem', held[g])
                              /\ Text(mem', held[g]) = Text(mem, held[g])
                              /\ mem'.heap[held[g]].hash = mem.heap[held[g]].hash
<1>1. CASE held[g] = Null
  BY <1>1 DEF BlocksOf, Contents
<1>2. CASE held[g] # Null
  <2>1. PICK x, d : \E t \in Seq(Chars) :
              /\ StringAt(mem, held[g], x, d, t, mem.heap[held[g]].hash)
              /\ Text(mem, held[g]) = t /\ Contents[g] = t
              /\ BlocksOf(g) = {held[g], x} \cup ({d} \ {Null})
              /\ BlocksOf(g) \subseteq Addresses /\ BlocksOf(g) \cap Free(mem) = {}
    BY <1>2, HeldString
  <2>2. PICK t \in Seq(Chars) :
              /\ StringAt(mem, held[g], x, d, t, mem.heap[held[g]].hash)
              /\ Text(mem, held[g]) = t /\ Contents[g] = t
    BY <2>1
  <2>3. BlocksOf(g) \cap A = {}
    <3>1. BlocksOf(g) \cap BlocksOf(h) = {}
      BY DEF Inv, Apart
    <3>2. Null \notin BlocksOf(g)
      BY <2>1, AddressAssumption DEF Null
    <3> QED BY <2>1, <3>1, <3>2
  <2>4. StringAt(mem', held[g], x, d, t, mem.heap[held[g]].hash)
    <3>1. t # <<>> => d # Null
      BY <2>2, StringBlocks
    <3> QED BY <2>1, <2>2, <2>3, <3>1, Untouched
  <2>5. /\ Whole(mem', held[g]) /\ Text(mem', held[g]) = t /\ Array(mem', held[g]) = x
        /\ mem'.heap[x].data = d
        /\ mem'.heap[held[g]].hash = mem.heap[held[g]].hash
    BY <2>4, NowWhole
  <2>6. BlocksOf(g)' = {held[g], x} \cup ({d} \ {Null})
    BY <1>2, <2>5 DEF BlocksOf
  <2>7. Contents'[g] = t
    BY <1>2, <2>5 DEF Contents
  <2> QED BY <1>2, <2>1, <2>2, <2>3, <2>5, <2>6, <2>7
<1> QED BY <1>1, <1>2

(* An operation that writes into the blocks A leaves the string h with the *)
(* blocks B, and headers L that nothing leads to.                          *)
Leaves(h, A, B, L) ==
  /\ A \subseteq BlocksOf(h) \cup Free(mem) \cup {Null}
  /\ B \subseteq BlocksOf(h) \cup Free(mem) \cup {Null}
  /\ BlocksOf(h) \subseteq A \cup B
  /\ \A c \in A \cap Addresses : c \in B \cup L \/ mem'.heap[c] = NoBlock
  /\ L \subseteq BlocksOf(h) \ B
  /\ \A c \in L : mem'.heap[c] = Header(0, Null)
  /\ IsFiniteSet(L) /\ headers' = headers + Cardinality(L)

(* How many blocks are lost is a number. *)
LEMMA LostIs == IsFiniteSet(Lost) /\ Cardinality(Lost) \in Nat
<1>1. Lost \subseteq Addresses
  BY DEF Lost
<1> QED BY <1>1, AddressAssumption, FS_Subset, FS_CardinalityType

(* What is lost, block by block. *)
LEMMA LostAre ==
  ASSUME NEW c
  PROVE  c \in Lost <=> /\ c \in Addresses /\ mem.heap[c] # NoBlock
                        /\ mem.heap[c] \notin {Instance, ArrayInfos, HashtableInfos}
                        /\ \A g \in Handles : c \notin BlocksOf(g)
BY DEF Lost, Live, RuntimeBlocks

(* An operation loses the headers it leaves behind, and no other block. *)
LEMMA LosesOnly ==
  ASSUME Inv, NEW h \in Handles, NEW A, NEW B, NEW L, Leaves(h, A, B, L),
         Same(mem, mem', A), BlocksOf(h)' \cap Addresses = B \cap Addresses,
         \A g \in Handles : g # h => BlocksOf(g)' = BlocksOf(g),
         BlocksOf(h) \subseteq Addresses
  PROVE  LostHeaders'
<1>1. \A c : c \in Lost' <=>
        /\ c \in Addresses /\ mem'.heap[c] # NoBlock
        /\ mem'.heap[c] \notin {Instance, ArrayInfos, HashtableInfos}
        /\ \A g \in Handles : c \notin BlocksOf(g)'
  BY DEF Lost, Live, RuntimeBlocks
<1>2. \A c : c \in Lost <=>
        /\ c \in Addresses /\ mem.heap[c] # NoBlock
        /\ mem.heap[c] \notin {Instance, ArrayInfos, HashtableInfos}
        /\ \A g \in Handles : c \notin BlocksOf(g)
  BY LostAre
<1>3. \A c \in Lost : c \notin A /\ c \notin B /\ c \notin L
  <2> SUFFICES ASSUME NEW c \in Lost PROVE c \notin BlocksOf(h) \cup Free(mem) \cup {Null}
    BY DEF Leaves
  <2> QED BY <1>2, AddressAssumption DEF Free, Null
<1>4. \A c \in Lost : c \in Lost' /\ mem'.heap[c] = mem.heap[c]
  <2> SUFFICES ASSUME NEW c \in Lost PROVE c \in Lost' /\ mem'.heap[c] = mem.heap[c]
    OBVIOUS
  <2>1. c \in Addresses /\ mem'.heap[c] = mem.heap[c]
    BY <1>2, <1>3 DEF Same
  <2>2. \A g \in Handles : c \notin BlocksOf(g)'
    BY <1>2, <1>3, <2>1
  <2> QED BY <1>1, <1>2, <2>1, <2>2
<1>5. \A c \in L : c \in Lost'
  <2> SUFFICES ASSUME NEW c \in L PROVE c \in Lost'
    OBVIOUS
  <2>1. c \in BlocksOf(h) /\ c \notin B /\ c \in Addresses /\ mem'.heap[c] = Header(0, Null)
    BY DEF Leaves
  <2>2. mem'.heap[c] \notin {NoBlock, Instance, ArrayInfos, HashtableInfos}
    BY <2>1, Fields DEF Instance, ArrayInfos, HashtableInfos
  <2>3. \A g \in Handles : c \notin BlocksOf(g)'
    BY <2>1 DEF Inv, Apart
  <2> QED BY <1>1, <2>1, <2>2, <2>3
<1>6. \A c \in Lost' : c \in Lost \cup L
  <2> SUFFICES ASSUME NEW c \in Lost', c \notin L PROVE c \in Lost
    OBVIOUS
  <2>1. c \in Addresses /\ mem'.heap[c] # NoBlock /\ c \notin B
    BY <1>1
  <2>2. c \notin A
    BY <2>1 DEF Leaves
  <2>3. mem'.heap[c] = mem.heap[c] /\ c \notin BlocksOf(h)
    BY <2>1, <2>2 DEF Same, Leaves
  <2>4. \A g \in Handles : c \notin BlocksOf(g)
    BY <1>1, <2>3
  <2> QED BY <1>1, <1>2, <2>3, <2>4
<1>7. Lost' = Lost \cup L /\ Lost \cap L = {}
  BY <1>3, <1>4, <1>5, <1>6
<1>8. Cardinality(Lost \cup L) = Cardinality(Lost) + Cardinality(L)
  <2>1. IsFiniteSet(L) /\ IsFiniteSet(Lost) /\ Cardinality(L) \in Nat /\ Cardinality(Lost) \in Nat
    BY LostIs, FS_CardinalityType DEF Leaves
  <2>2. Cardinality(Lost \cup L) =
          Cardinality(Lost) + Cardinality(L) - Cardinality(Lost \cap L)
    BY <2>1, FS_Union
  <2>3. Cardinality(Lost \cap L) = 0
    BY <1>7, FS_EmptySet
  <2> QED BY <2>1, <2>2, <2>3
<1>9. Cardinality(Lost') = headers'
  BY <1>7, <1>8 DEF Leaves, Inv, LostHeaders
<1>10. ASSUME NEW c \in Lost' PROVE mem'.heap[c] = Header(0, Null)
  BY <1>4, <1>6 DEF Leaves, Inv, LostHeaders
<1> QED BY <1>9, <1>10 DEF LostHeaders

(* Nothing is lost of what is kept or given back. *)
LEMMA NoneLost ==
  ASSUME NEW h, NEW A, NEW B, A \subseteq BlocksOf(h) \cup Free(mem) \cup {Null},
         B \subseteq BlocksOf(h) \cup Free(mem) \cup {Null},
         BlocksOf(h) \subseteq A \cup B, headers \in Nat, headers' = headers,
         \A c \in A \cap Addresses : c \in B \/ mem'.heap[c] = NoBlock
  PROVE  Leaves(h, A, B, {})
BY FS_EmptySet DEF Leaves

(* The string h is at a, with the array x in the block d, and has a text t *)
(* and a hash; what is asked of the hash of others is not more than it was.*)
Becomes(h, A, B, L, a, x, d, t, hash) ==
  /\ IsMem(mem') /\ Same(mem, mem', A)
  /\ B = {a, x, d} /\ Leaves(h, A, B, L)
  /\ held' = [held EXCEPT ![h] = a] /\ phase' # "off"
  /\ \A g \in Handles : g # h /\ g \notin retouched' => g \notin retouched
  /\ t \in Seq(Chars) /\ StringAt(mem', a, x, d, t, hash)
  /\ h \notin retouched' => hash \in {NoHash, HashOf(Padded(t))}

(* An operation that leaves the string h with the text t. *)
LEMMA OneString ==
  ASSUME Inv, NEW h \in Handles, NEW A, NEW B, NEW L, NEW a, NEW x, NEW d, NEW t,
         NEW hash, Becomes(h, A, B, L, a, x, d, t, hash)
  PROVE  Inv' /\ Contents' = [Contents EXCEPT ![h] = t]
<1> USE DEF Becomes
<1> DEFINE all == BlocksOf(h) \cup Free(mem) \cup {Null}
<1>1. /\ A \subseteq BlocksOf(h) \cup Free(mem) \cup {Null}
      /\ {a, x, d} \subseteq BlocksOf(h) \cup Free(mem) \cup {Null}
  BY DEF Leaves
<1>2. held'[h] = a /\ \A k \in Handles : k # h => held'[k] = held[k]
  BY DEF Inv
<1>3. /\ Whole(mem', held'[h]) /\ Text(mem', held'[h]) = t /\ Array(mem', held'[h]) = x
      /\ mem'.heap[x].data = d /\ mem'.heap[held'[h]].hash = hash /\ held'[h] # Null
  BY <1>2, NowWhole
<1>4. \A c \in Addresses : c \in all \/ mem'.heap[c] = mem.heap[c]
  BY <1>1 DEF Same
<1> HIDE DEF all
<1>5. ASSUME NEW g \in Handles, g # h
      PROVE  /\ BlocksOf(g)' = BlocksOf(g) /\ BlocksOf(g) \cap all = {}
             /\ Contents'[g] = Contents[g]
             /\ held'[g] = held[g]
             /\ held[g] # Null => /\ Whole(mem', held[g])
                                  /\ Text(mem', held[g]) = Text(mem, held[g])
                                  /\ mem'.heap[held[g]].hash = mem.heap[held[g]].hash
  <2>1. Same(mem, mem', all) /\ all \subseteq BlocksOf(h) \cup Free(mem) \cup {Null}
    BY <1>4 DEF Same, all
  <2> QED BY <1>2, <1>5, <2>1, Others
<1>6. /\ BlocksOf(h)' \subseteq all
      /\ BlocksOf(h)' \cap Addresses = {a, x, d} \cap Addresses
  <2>1. BlocksOf(h)' = {a, x} \cup ({d} \ {Null})
    BY <1>2, <1>3 DEF BlocksOf
  <2> QED BY <1>1, <2>1, AddressAssumption DEF all, Null
<1>7. Apart'
  BY <1>5, <1>6 DEF Apart, Inv
<1>8. held' = [k \in Handles |-> held'[k]]
  BY DEF Inv
<1>9. ASSUME NEW g \in Handles, held'[g] # Null PROVE Whole(mem', held'[g])
  BY <1>3, <1>5, <1>9 DEF Inv
<1>10. HashIsOfText'
  <2> SUFFICES ASSUME NEW g \in Handles, held'[g] # Null, g \notin retouched'
               PROVE  mem'.heap[held'[g]].hash \in
                        {NoHash, HashOf(Padded(Text(mem', held'[g])))}
    BY DEF HashIsOfText
  <2>1. CASE g = h
    BY <1>3, <2>1
  <2>2. CASE g # h
    BY <1>5, <2>2 DEF Inv, HashIsOfText
  <2> QED BY <2>1, <2>2
<1>11. LostHeaders'
  <2>1. BlocksOf(h) \subseteq Addresses
    BY HeldString DEF BlocksOf
  <2> QED BY <1>5, <1>6, <2>1, LosesOnly
<1>12. Inv'
  BY <1>7, <1>8, <1>9, <1>10, <1>11 DEF Inv
<1>13. Contents' = [Contents EXCEPT ![h] = t]
  <2>1. Contents'[h] = t
    BY <1>3 DEF Contents
  <2>2. \A g \in Handles : Contents'[g] = IF g = h THEN t ELSE Contents[g]
    BY <1>5, <2>1
  <2>3. Contents' = [g \in Handles |-> Contents'[g]] /\ DOMAIN Contents = Handles
    BY DEF Contents
  <2> QED BY <2>2, <2>3
<1> QED BY <1>12, <1>13

(* An operation that deletes the string h. *)
LEMMA NoString ==
  ASSUME Inv, NEW h \in Handles, IsMem(mem'), NEW A, Same(mem, mem', A),
         NEW B, B = {}, NEW L, Leaves(h, A, B, L),
         held' = [held EXCEPT ![h] = Null], phase' # "off",
         \A g \in Handles : g # h /\ g \notin retouched' => g \notin retouched
  PROVE  Inv' /\ Contents' = [Contents EXCEPT ![h] = None]
<1>1. A \subseteq BlocksOf(h) \cup Free(mem) \cup {Null}
  BY DEF Leaves
<1>2. held'[h] = Null /\ \A k \in Handles : k # h => held'[k] = held[k]
  BY DEF Inv
<1>3. ASSUME NEW g \in Handles, g # h
      PROVE  /\ BlocksOf(g)' = BlocksOf(g)
             /\ Contents'[g] = Contents[g]
             /\ held'[g] = held[g]
             /\ held[g] # Null => /\ Whole(mem', held[g])
                                  /\ Text(mem', held[g]) = Text(mem, held[g])
                                  /\ mem'.heap[held[g]].hash = mem.heap[held[g]].hash
  BY <1>1, <1>2, <1>3, Others
<1>4. BlocksOf(h)' = {}
  BY <1>2 DEF BlocksOf
<1>5. Apart'
  BY <1>3, <1>4 DEF Apart, Inv
<1>6. held' = [k \in Handles |-> held'[k]]
  BY DEF Inv
<1>7. ASSUME NEW g \in Handles, held'[g] # Null PROVE Whole(mem', held'[g])
  BY <1>2, <1>3, <1>7 DEF Inv
<1>8. HashIsOfText'
  BY <1>2, <1>3 DEF Inv, HashIsOfText
<1>9. LostHeaders'
  <2>1. BlocksOf(h) \subseteq Addresses
    BY HeldString DEF BlocksOf
  <2> QED BY <1>3, <1>4, <2>1, LosesOnly
<1>10. Inv'
  BY <1>5, <1>6, <1>7, <1>8, <1>9 DEF Inv
<1>11. Contents' = [Contents EXCEPT ![h] = None]
  <2>1. Contents'[h] = None
    BY <1>2 DEF Contents
  <2>2. \A g \in Handles : Contents'[g] = IF g = h THEN None ELSE Contents[g]
    BY <1>3, <2>1
  <2>3. Contents' = [g \in Handles |-> Contents'[g]] /\ DOMAIN Contents = Handles
    BY DEF Contents
  <2> QED BY <2>2, <2>3
<1> QED BY <1>10, <1>11
-----------------------------------------------------------------------------
(* The operations. *)

(* A new string has the text it was made with. *)
LEMMA CreateStep ==
  ASSUME Inv, NEW h \in Handles, NEW s \in Seq(Chars), NEW hash,
         Creates(h, WithString(mem, s, hash)),
         \A g \in Handles : g # h /\ g \notin retouched' => g \notin retouched,
         h \notin retouched' => hash \in {NoHash, HashOf(Padded(s))}
  PROVE  Inv' /\ Contents[h] = None /\ Contents' = [Contents EXCEPT ![h] = s]
<1> DEFINE a == Fresh(mem)
<1>1. /\ phase' # "off" /\ held[h] = Null /\ mem' = WithString(mem, s, hash)
      /\ Cardinality(Free(mem)) >= 3 /\ held' = [held EXCEPT ![h] = a]
      /\ headers' = headers
  BY DEF Creates
<1>2. PICK x, d : /\ IsMem(mem') /\ StringAt(mem', a, x, d, s, hash)
                  /\ {a, x} \subseteq Free(mem)
                  /\ s # <<>> => d \in Free(mem)
                  /\ s = <<>> => d = Null
                  /\ Same(mem, mem', {a, x, d})
  BY <1>1, WithStringIs DEF Inv
<1> HIDE DEF a
<1>3. Leaves(h, {a, x, d}, {a, x, d}, {})
  <2>1. BlocksOf(h) = {} /\ headers \in Nat
    BY <1>1, LostIs DEF BlocksOf, Inv, LostHeaders
  <2>2. {a, x, d} \subseteq BlocksOf(h) \cup Free(mem) \cup {Null}
    BY <1>2
  <2> QED BY <1>1, <2>1, <2>2, NoneLost
<1> DEFINE A == {a, x, d}
<1> DEFINE B == {a, x, d}
<1> DEFINE L == {}
<1>4. Same(mem, mem', A) /\ B = {a, x, d} /\ Leaves(h, A, B, L)
  BY <1>2, <1>3
<1> HIDE DEF A, B, L
<1>5. phase' # "off" /\ held' = [held EXCEPT ![h] = a]
  BY <1>1
<1>6. Contents[h] = None
  BY <1>1 DEF Contents
<1>7. Becomes(h, A, B, L, a, x, d, s, hash)
  BY <1>2, <1>4, <1>5 DEF Becomes
<1>8. Inv' /\ Contents' = [Contents EXCEPT ![h] = s]
  BY <1>7, OneString
<1> QED BY <1>6, <1>8

(* An assigned string has the text it was assigned. *)
LEMMA AssignStep ==
  ASSUME Inv, NEW h \in Handles, NEW s \in Seq(Chars), Assigns(h, s)
  PROVE  Inv' /\ Contents[h] # None /\ Contents' = [Contents EXCEPT ![h] = s]
<1> DEFINE a == held[h]
<1>1. /\ phase' # "off" /\ a # Null /\ mem' = Assigned(mem, a, s)
      /\ Cardinality(Free(mem)) >= 2 /\ held' = held /\ retouched' = retouched \ {h}
      /\ headers' = headers + 1
  BY DEF Assigns, Exists
<1>2. PICK x, d : \E t \in Seq(Chars) :
           /\ StringAt(mem, a, x, d, t, mem.heap[a].hash)
           /\ Contents[h] = t /\ t # None
           /\ BlocksOf(h) = {a, x} \cup ({d} \ {Null})
  BY <1>1, HeldString
<1>3. PICK y, e : /\ IsMem(mem') /\ StringAt(mem', a, y, e, s, NoHash)
                  /\ y \in Free(mem) \cup {d}
                  /\ s # <<>> => e \in Free(mem) \cup {d}
                  /\ s = <<>> => e = Null
                  /\ Same(mem, mem', {a, x, d, y, e})
                  /\ x \notin {a, y, e} /\ mem'.heap[x] = Header(0, Null)
                  /\ d \in Addresses \ {y, e} => mem'.heap[d] = NoBlock
  <2>1. IsMem(mem)
    BY DEF Inv
  <2>2. PICK t \in Seq(Chars) : StringAt(mem, a, x, d, t, mem.heap[a].hash)
    BY <1>2
  <2> DEFINE g == mem.heap[a].hash
  <2>3. StringAt(mem, a, x, d, t, g) /\ Cardinality(Free(mem)) >= 2
    BY <1>1, <2>2
  <2> HIDE DEF a, g
  <2>4. PICK y, e : Renewed(mem, Assigned(mem, a, s), a, x, d, y, e, s)
    BY <2>1, <2>3, AssignedIs
  <2>5. Renewed(mem, mem', a, x, d, y, e, s)
    BY <1>1, <2>4
  <2> QED BY <2>5 DEF Renewed
<1>4. Leaves(h, {a, x, d, y, e}, {a, y, e}, {x})
  <2> HIDE DEF a
  <2>1. /\ {a, x, d, y, e} \subseteq BlocksOf(h) \cup Free(mem) \cup {Null}
        /\ {a, y, e} \subseteq BlocksOf(h) \cup Free(mem) \cup {Null}
    BY <1>2, <1>3
  <2>2. BlocksOf(h) \subseteq {a, x, d, y, e} /\ x \in BlocksOf(h) \ {a, y, e}
    BY <1>2, <1>3
  <2>3. IsFiniteSet({x}) /\ Cardinality({x}) = 1
    BY FS_Singleton
  <2> QED BY <1>1, <1>3, <2>1, <2>2, <2>3 DEF Leaves
<1>5. held' = [held EXCEPT ![h] = a]
  BY <1>1 DEF Inv
<1> HIDE DEF a
<1> DEFINE A == {a, x, d, y, e}
<1> DEFINE B == {a, y, e}
<1> DEFINE L == {x}
<1>6. Same(mem, mem', A) /\ B = {a, y, e} /\ Leaves(h, A, B, L)
  BY <1>3, <1>4
<1> DEFINE hash == NoHash
<1>7. phase' # "off" /\ IsMem(mem')
  BY <1>1, <1>3
<1>8. /\ StringAt(mem', a, y, e, s, hash)
      /\ h \notin retouched' => hash \in {NoHash, HashOf(Padded(s))}
      /\ \A g \in Handles : g # h /\ g \notin retouched' => g \notin retouched
  BY <1>1, <1>3
<1> HIDE DEF A, B, L, hash
<1>9. Becomes(h, A, B, L, a, y, e, s, hash)
  BY <1>5, <1>6, <1>8, <1>7 DEF Becomes
<1>10. Inv' /\ Contents' = [Contents EXCEPT ![h] = s]
  BY <1>9, OneString
<1> QED BY <1>2, <1>10

(* A deleted string is gone. *)
LEMMA DeleteStep ==
  ASSUME Inv, NEW h \in Handles, Delete(h)
  PROVE  Inv' /\ Contents[h] # None /\ Contents' = [Contents EXCEPT ![h] = None]
<1> DEFINE a == held[h]
<1>1. /\ phase' # "off" /\ a # Null
      /\ mem' = Freed(ArrayDeleted(mem, Array(mem, a)), a)
      /\ held' = [held EXCEPT ![h] = Null] /\ retouched' = retouched \ {h}
      /\ headers' = headers
  BY DEF Delete, Exists
<1>2. PICK x, d : \E t \in Seq(Chars) :
           /\ StringAt(mem, a, x, d, t, mem.heap[a].hash) /\ Array(mem, a) = x
           /\ Contents[h] = t /\ t # None
           /\ BlocksOf(h) = {a, x} \cup ({d} \ {Null})
  BY <1>1, HeldString
<1>3. /\ IsMem(mem') /\ Same(mem, mem', {a, x, d})
      /\ \A c \in {a, x, d} : c \in Addresses => mem'.heap[c] = NoBlock
  <2>1. PICK t \in Seq(Chars) : StringAt(mem, a, x, d, t, mem.heap[a].hash)
    BY <1>2
  <2> DEFINE g == mem.heap[a].hash
  <2>2. StringAt(mem, a, x, d, t, g) /\ IsMem(mem)
    BY <2>1 DEF Inv
  <2> HIDE DEF a, g
  <2>3. GivenBack(mem, Freed(ArrayDeleted(mem, x), a), {a, x, d})
    BY <2>2, DeletedIs
  <2>4. GivenBack(mem, mem', {a, x, d})
    BY <1>1, <1>2, <2>3
  <2> QED BY <2>4 DEF GivenBack
<1>4. Leaves(h, {a, x, d}, {}, {})
  <2> HIDE DEF a
  <2>1. /\ {a, x, d} \subseteq BlocksOf(h) \cup Free(mem) \cup {Null}
        /\ BlocksOf(h) \subseteq {a, x, d}
    BY <1>2
  <2>2. headers \in Nat
    BY LostIs DEF Inv, LostHeaders
  <2> QED BY <1>1, <1>3, <2>1, <2>2, NoneLost
<1> DEFINE A == {a, x, d}
<1> DEFINE B == {}
<1> DEFINE L == {}
<1>5. Same(mem, mem', A) /\ B = {} /\ Leaves(h, A, B, L)
  BY <1>3, <1>4
<1> HIDE DEF a, A, B, L
<1>6. Inv' /\ Contents' = [Contents EXCEPT ![h] = None]
  BY <1>1, <1>3, <1>5, NoString
<1> QED BY <1>2, <1>6

(* A cleared string has no text, and exists. *)
LEMMA ClearStep ==
  ASSUME Inv, NEW h \in Handles, Clear(h)
  PROVE  Inv' /\ Contents[h] # None /\ Contents' = [Contents EXCEPT ![h] = <<>>]
<1> DEFINE a == held[h]
<1>1. /\ phase' # "off" /\ a # Null /\ mem' = Cleared(mem, a)
      /\ held' = held /\ retouched' = retouched \ {h} /\ headers' = headers
  BY DEF Clear, Exists
<1>2. PICK x, d : \E t \in Seq(Chars) :
           /\ StringAt(mem, a, x, d, t, mem.heap[a].hash)
           /\ Contents[h] = t /\ t # None
           /\ BlocksOf(h) = {a, x} \cup ({d} \ {Null})
  BY <1>1, HeldString
<1>3. PICK t \in Seq(Chars) : /\ StringAt(mem, a, x, d, t, mem.heap[a].hash)
                              /\ Contents[h] = t /\ t # None
  BY <1>2
<1>4. /\ IsMem(mem') /\ StringAt(mem', a, x, Null, <<>>, NoHash)
      /\ Same(mem, mem', {a, x, d}) /\ (t # <<>> => mem'.heap[d] = NoBlock)
  <2> DEFINE n == Cleared(mem, a)
  <2>1. mem' = n /\ IsMem(mem)
    BY <1>1 DEF Inv
  <2> HIDE DEF a
  <2>2. /\ IsMem(n) /\ StringAt(n, a, x, Null, <<>>, NoHash)
        /\ Same(mem, n, {a, x, d}) /\ (t # <<>> => n.heap[d] = NoBlock)
    BY <1>3, <2>1, ClearedIs
  <2> HIDE DEF n
  <2> QED BY <2>1, <2>2
<1>5. Leaves(h, {a, x, d}, {a, x, Null}, {})
  <2>1. t = <<>> => d = Null
    BY <1>3 DEF StringAt, ArrayAt
  <2> HIDE DEF a
  <2>2. /\ {a, x, d} \subseteq BlocksOf(h) \cup Free(mem) \cup {Null}
        /\ {a, x, Null} \subseteq BlocksOf(h) \cup Free(mem) \cup {Null}
        /\ BlocksOf(h) \subseteq {a, x, d}
    BY <1>2
  <2>3. headers \in Nat
    BY LostIs DEF Inv, LostHeaders
  <2>4. \A c \in {a, x, d} \cap Addresses : c \in {a, x, Null} \/ mem'.heap[c] = NoBlock
    BY <1>4, <2>1
  <2> QED BY <1>1, <2>2, <2>3, <2>4, NoneLost
<1>6. held' = [held EXCEPT ![h] = a] /\ <<>> \in Seq(Chars)
  BY <1>1 DEF Inv
<1> DEFINE A == {a, x, d}
<1> DEFINE B == {a, x, Null}
<1> DEFINE L == {}
<1>7. Same(mem, mem', A) /\ B = {a, x, Null} /\ Leaves(h, A, B, L)
  BY <1>4, <1>5
<1> DEFINE s == <<>>
<1> DEFINE hash == NoHash
<1> DEFINE e == Null
<1>8. phase' # "off" /\ IsMem(mem')
  BY <1>1, <1>4
<1>9. /\ StringAt(mem', a, x, e, s, hash) /\ s \in Seq(Chars) /\ B = {a, x, e}
      /\ h \notin retouched' => hash \in {NoHash, HashOf(Padded(s))}
      /\ \A g \in Handles : g # h /\ g \notin retouched' => g \notin retouched
  BY <1>1, <1>4, <1>7
<1> HIDE DEF a, A, B, L, hash, s, e
<1>10. Becomes(h, A, B, L, a, x, e, s, hash)
  BY <1>6, <1>7, <1>9, <1>8 DEF Becomes
<1>11. Inv' /\ Contents' = [Contents EXCEPT ![h] = s]
  BY <1>10, OneString
<1>12. Inv' /\ Contents' = [Contents EXCEPT ![h] = <<>>]
  BY <1>11 DEF s
<1> QED BY <1>12, <1>3

(* Setting a character of a text, in the memory of its array. *)
LEMMA PaddedSet ==
  ASSUME NEW t \in Seq(Chars), NEW i \in DOMAIN t, NEW ch \in Chars
  PROVE  /\ [t EXCEPT ![i] = ch] \in Seq(Chars)
         /\ Len([t EXCEPT ![i] = ch]) = Len(t)
         /\ [Data(Padded(t)) EXCEPT !.bytes = [@ EXCEPT ![i] = ch]] =
              Data(Padded([t EXCEPT ![i] = ch]))
<1> DEFINE s == [t EXCEPT ![i] = ch]
<1>1. s \in Seq(Chars) /\ Len(s) = Len(t) /\ Len(t) \in Nat /\ i \in 1 .. Len(t)
      /\ s[i] = ch /\ \A j \in 1 .. Len(t) : j # i => s[j] = t[j]
  OBVIOUS
<1> HIDE DEF s
<1>2. [Padded(t) EXCEPT ![i] = ch] = Padded(s)
  <2> DEFINE n == Capacity(Len(t))
  <2>1. /\ n \in Nat /\ n >= Len(t)
        /\ Padded(t) = [j \in 1 .. n |-> IF j <= Len(t) THEN t[j] ELSE 0]
        /\ Padded(s) = [j \in 1 .. n |-> IF j <= Len(t) THEN s[j] ELSE 0]
    BY <1>1, PaddedIs DEF Padded
  <2> HIDE DEF n
  <2>2. \A j \in 1 .. n : (IF j <= Len(t) THEN s[j] ELSE 0) =
                           IF j = i THEN ch ELSE IF j <= Len(t) THEN t[j] ELSE 0
    BY <1>1, <2>1
  <2>3. i \in 1 .. n
    BY <1>1, <2>1
  <2> QED BY <2>1, <2>2, <2>3
<1>3. Len(Padded(t)) = Len(Padded(s))
  BY <1>1, PaddedIs
<1>4. [Data(Padded(t)) EXCEPT !.bytes = [@ EXCEPT ![i] = ch]] = Data(Padded(s))
  BY <1>2, <1>3, SMTT(40) DEF Data
<1> QED BY <1>1, <1>4 DEF s

(* Setting a character sets it in the text. *)
LEMMA SetStep ==
  ASSUME Inv, NEW h \in Handles, NEW i, NEW ch \in Chars, Set(h, i, ch)
  PROVE  /\ Inv' /\ Contents[h] # None
         /\ Contents' = [Contents EXCEPT ![h] = [Contents[h] EXCEPT ![i] = ch]]
<1> DEFINE a == held[h]
<1>1. /\ phase' # "off" /\ a # Null /\ i \in DOMAIN Text(mem, a)
      /\ mem' = [mem EXCEPT !.heap[mem.heap[Array(mem, a)].data].bytes[i] = ch]
      /\ held' = held /\ headers' = headers
      /\ retouched' = IF mem.heap[a].hash = NoHash THEN retouched ELSE retouched \cup {h}
  BY SMTT(40) DEF Set, Exists
<1>2. PICK x, d : \E t \in Seq(Chars) :
           /\ StringAt(mem, a, x, d, t, mem.heap[a].hash) /\ Text(mem, a) = t
           /\ Contents[h] = t /\ t # None /\ Array(mem, a) = x /\ mem.heap[x].data = d
           /\ BlocksOf(h) = {a, x} \cup ({d} \ {Null})
  BY <1>1, HeldString
<1>3. PICK t \in Seq(Chars) :
           /\ StringAt(mem, a, x, d, t, mem.heap[a].hash) /\ Text(mem, a) = t
           /\ Contents[h] = t /\ t # None
  BY <1>2
<1> DEFINE s == [t EXCEPT ![i] = ch]
<1>4. /\ s \in Seq(Chars) /\ Len(s) = Len(t) /\ s # <<>>
      /\ [Data(Padded(t)) EXCEPT !.bytes = [@ EXCEPT ![i] = ch]] = Data(Padded(s))
  <2>1. i \in DOMAIN t
    BY <1>1, <1>3
  <2> HIDE DEF a
  <2>2. /\ s \in Seq(Chars) /\ Len(s) = Len(t)
        /\ [Data(Padded(t)) EXCEPT !.bytes = [@ EXCEPT ![i] = ch]] = Data(Padded(s))
    BY <2>1, PaddedSet
  <2> HIDE DEF s
  <2>3. s # <<>>
    BY <2>1, <2>2
  <2> QED BY <2>2, <2>3, SMTT(40)
<1>5. t # <<>>
  <2>1. i \in DOMAIN t
    BY <1>1, <1>3
  <2> HIDE DEF a, s
  <2> QED BY <2>1
<1>6. mem.heap[d] = Data(Padded(t)) /\ d \in Addresses /\ d # a /\ d # x
  <2> HIDE DEF a, s
  <2>1. ArrayAt(mem, x, d, t) /\ d # a /\ d # x /\ d \in Addresses
    BY <1>3, <1>5, StringBlocks DEF StringAt
  <2> QED BY <1>5, <2>1 DEF ArrayAt
<1> DEFINE new == Data(Padded(s))
<1>7. mem' = [mem EXCEPT !.heap[d] = new]
  <2>1. mem' = [mem EXCEPT !.heap[d] = [mem.heap[d] EXCEPT !.bytes = [@ EXCEPT ![i] = ch]]]
    BY <1>1, <1>2
  <2> QED BY <1>4, <1>6, <2>1
<1> HIDE DEF s, new
<1>8. IsMem(mem') /\ mem'.heap[d] = new /\ Same(mem, mem', {d})
  <2>1. IsMem(mem) /\ d \in Addresses /\ mem' = [mem EXCEPT !.heap[d] = new]
    BY <1>6, <1>7 DEF Inv
  <2>2. AsLarge(new, mem.heap[d])
    BY <1>4, <1>6, Sizes DEF new
  <2> HIDE DEF a
  <2> DEFINE n == [mem EXCEPT !.heap[d] = new]
  <2>3. IsMem(n) /\ n.heap[d] = new /\ Same(mem, n, {d})
    BY <2>1, <2>2, ExceptIs
  <2>4. mem' = n
    BY <2>1
  <2> HIDE DEF n
  <2> QED BY <2>3, <2>4
<1> HIDE DEF a
<1>9. StringAt(mem', a, x, d, s, mem.heap[a].hash)
  BY <1>3, <1>4, <1>5, <1>6, <1>8 DEF StringAt, ArrayAt, Same, new
<1>10. Leaves(h, {d}, {a, x, d}, {})
  <2>1. /\ {d} \subseteq BlocksOf(h) \cup Free(mem) \cup {Null}
        /\ {a, x, d} \subseteq BlocksOf(h) \cup Free(mem) \cup {Null}
        /\ BlocksOf(h) \subseteq {a, x, d}
    BY <1>2 DEF a
  <2>2. headers \in Nat
    BY LostIs, SMTT(40) DEF Inv, LostHeaders
  <2> QED BY <1>1, <2>1, <2>2, NoneLost
<1>11. held' = [held EXCEPT ![h] = a]
  BY <1>1 DEF Inv, a
<1>12. h \notin retouched' => mem.heap[a].hash \in {NoHash, HashOf(Padded(s))}
  BY <1>1
<1>13. /\ phase' # "off" /\ s \in Seq(Chars)
       /\ \A g \in Handles : g # h /\ g \notin retouched' => g \notin retouched
  BY <1>1, <1>4
<1> DEFINE hash == mem.heap[a].hash
<1>14. /\ StringAt(mem', a, x, d, s, hash)
       /\ h \notin retouched' => hash \in {NoHash, HashOf(Padded(s))}
  BY <1>9, <1>12
<1> HIDE DEF hash
<1> DEFINE A == {d}
<1> DEFINE B == {a, x, d}
<1> DEFINE L == {}
<1>15. Same(mem, mem', A) /\ B = {a, x, d} /\ Leaves(h, A, B, L)
  BY <1>8, <1>10
<1> HIDE DEF A, B, L
<1>16. Becomes(h, A, B, L, a, x, d, s, hash)
  BY <1>8, <1>11, <1>13, <1>14, <1>15 DEF Becomes
<1>17. Inv' /\ Contents' = [Contents EXCEPT ![h] = s]
  BY <1>16, OneString
<1> QED BY <1>3, <1>17 DEF s

(* Asking for a hash changes no text. *)
LEMMA HashStep ==
  ASSUME Inv, NEW h \in Handles, Hash(h)
  PROVE  Inv' /\ Contents' = Contents
<1> DEFINE a == held[h]
<1>1. /\ phase' # "off" /\ a # Null /\ Text(mem, a) # <<>>
      /\ held' = held /\ retouched' = retouched /\ headers' = headers
      /\ mem' = IF mem.heap[a].hash # NoHash THEN mem
                ELSE [mem EXCEPT !.heap[a].hash =
                        HashOf(mem.heap[mem.heap[Array(mem, a)].data].bytes)]
  BY DEF Hash, Exists
<1>2. PICK x, d : \E t \in Seq(Chars) :
           /\ StringAt(mem, a, x, d, t, mem.heap[a].hash) /\ Text(mem, a) = t
           /\ Contents[h] = t /\ t # None /\ Array(mem, a) = x /\ mem.heap[x].data = d
           /\ BlocksOf(h) = {a, x} \cup ({d} \ {Null})
           /\ h \notin retouched => mem.heap[a].hash \in {NoHash, HashOf(Padded(t))}
  BY <1>1, HeldString
<1>3. PICK t \in Seq(Chars) :
           /\ StringAt(mem, a, x, d, t, mem.heap[a].hash) /\ Text(mem, a) = t
           /\ Contents[h] = t
           /\ h \notin retouched => mem.heap[a].hash \in {NoHash, HashOf(Padded(t))}
  BY <1>2
<1>4. /\ mem.heap[d].bytes = Padded(t) /\ a \in Addresses /\ x # a /\ d # a
      /\ mem.heap[a] = String(x, mem.heap[a].hash) /\ ArrayAt(mem, x, d, t)
  <2>1. t # <<>>
    BY <1>1, <1>3
  <2> HIDE DEF a
  <2>2. mem.heap[d].bytes = Padded(t)
    <3>1. mem.heap[d] = Data(Padded(t))
      BY <1>3, <2>1 DEF StringAt, ArrayAt
    <3> QED BY <3>1, Fields
  <2>3. a \in Addresses /\ x # a /\ d # a
    BY <1>3, <2>1, StringBlocks
  <2> QED BY <1>3, <2>2, <2>3 DEF StringAt
<1>5. held' = [held EXCEPT ![h] = a]
  BY <1>1 DEF Inv
<1> DEFINE hash == IF mem.heap[a].hash # NoHash THEN mem.heap[a].hash ELSE HashOf(Padded(t))
<1>6. IsMem(mem') /\ Same(mem, mem', {a}) /\ StringAt(mem', a, x, d, t, hash)
  <2>1. CASE mem.heap[a].hash # NoHash
    BY <1>1, <1>3, <2>1 DEF Inv, Same
  <2>2. CASE mem.heap[a].hash = NoHash
    <3> DEFINE new == HashOf(Padded(t))
    <3>1. mem' = [mem EXCEPT !.heap[a].hash = new]
      BY <1>1, <1>2, <1>4, <2>2
    <3> HIDE DEF new
    <3>2. mem' = [mem EXCEPT !.heap[a] = String(x, new)]
      <4>1. [mem EXCEPT !.heap[a].hash = new] =
              [mem EXCEPT !.heap[a] = [mem.heap[a] EXCEPT !.hash = new]]
        OBVIOUS
      <4>2. [mem.heap[a] EXCEPT !.hash = new] = String(x, new)
        BY <1>4, Fields
      <4> QED BY <3>1, <4>1, <4>2
    <3> HIDE DEF a, hash
    <3>3. IsMem(mem') /\ mem'.heap[a] = String(x, new) /\ Same(mem, mem', {a})
      <4> DEFINE b == String(x, new)
      <4>1. IsMem(mem) /\ mem' = [mem EXCEPT !.heap[a] = b] /\ a \in Addresses
        BY <1>4, <3>2 DEF Inv
      <4>2. AsLarge(b, mem.heap[a])
        BY <1>4, Sizes
      <4> HIDE DEF b
      <4> DEFINE n == [mem EXCEPT !.heap[a] = b]
      <4>3. IsMem(n) /\ n.heap[a] = b /\ Same(mem, n, {a})
        BY <4>1, <4>2, ExceptIs
      <4>4. mem' = n
        BY <4>1
      <4> HIDE DEF n
      <4> QED BY <4>3, <4>4 DEF b
    <3>4. ArrayAt(mem', x, d, t)
      BY <1>4, <3>3 DEF ArrayAt, Same
    <3> QED BY <1>4, <2>2, <3>3, <3>4 DEF StringAt, new, hash
  <2> QED BY <2>1, <2>2
<1>7. h \notin retouched' => hash \in {NoHash, HashOf(Padded(t))}
  BY <1>1, <1>3
<1> HIDE DEF hash, a
<1>8. Leaves(h, {a}, {a, x, d}, {})
  <2>1. /\ {a} \subseteq BlocksOf(h) \cup Free(mem) \cup {Null}
        /\ {a, x, d} \subseteq BlocksOf(h) \cup Free(mem) \cup {Null}
        /\ BlocksOf(h) \subseteq {a, x, d}
    BY <1>2 DEF a
  <2>2. headers \in Nat
    BY LostIs DEF Inv, LostHeaders
  <2> QED BY <1>1, <2>1, <2>2, NoneLost
<1> DEFINE A == {a}
<1> DEFINE B == {a, x, d}
<1> DEFINE L == {}
<1>9. Same(mem, mem', A) /\ B = {a, x, d} /\ Leaves(h, A, B, L)
  BY <1>6, <1>8
<1>10. /\ phase' # "off"
       /\ \A g \in Handles : g # h /\ g \notin retouched' => g \notin retouched
  BY <1>1
<1> HIDE DEF A, B, L
<1>11. Becomes(h, A, B, L, a, x, d, t, hash)
  BY <1>5, <1>6, <1>7, <1>9, <1>10 DEF Becomes
<1>12. Inv' /\ Contents' = [Contents EXCEPT ![h] = t]
  BY <1>11, OneString
<1>13. [Contents EXCEPT ![h] = t] = Contents
  BY <1>3 DEF Contents
<1> QED BY <1>12, <1>13
-----------------------------------------------------------------------------
(***************************************************************************)
(* The steps, as StringStore sees them.                                    *)
(***************************************************************************)

(* The text of a string that was created, seen from there. *)
LEMMA StoreCreates ==
  ASSUME NEW h \in Handles, NEW t,
         Contents[h] = None, Contents' = [Contents EXCEPT ![h] = t], call'.h = h,
         \/ call'.op \in {"new", "newCharCount"} /\ t = Append(call'.s, 0)
         \/ call'.op = "newCopy" /\ t = Contents[call'.from]
  PROVE  Store!Next
<1>1. /\ Contents[h] = None
      /\ \/ /\ call'.op \in {"new", "newCharCount"}
            /\ Contents' = [Contents EXCEPT ![h] = Append(call'.s, 0)]
         \/ /\ call'.op = "newCopy"
            /\ Contents' = [Contents EXCEPT ![h] = Contents[call'.from]]
  OBVIOUS
<1>2. Store!Created(h)
  BY <1>1 DEF Store!Created, Store!Becomes, Contents
<1> QED BY <1>2 DEF Store!Next

(* The text of a string that existed. *)
LEMMA StoreChanges ==
  ASSUME NEW h \in Handles, NEW t,
         Contents[h] # None, Contents' = [Contents EXCEPT ![h] = t], call'.h = h,
         \/ call'.op \in {"assign", "assignCharCount"} /\ t = Append(call'.s, 0)
         \/ call'.op = "assignCopy" /\ t = Contents[call'.from]
         \/ call'.op = "clear" /\ t = <<>>
         \/ call'.op = "set" /\ t = [Contents[h] EXCEPT ![call'.i] = call'.ch]
         \/ call'.op = "delete" /\ t = None
  PROVE  Store!Next
<1>1. /\ Contents[h] # None
      /\ \/ /\ call'.op \in {"assign", "assignCharCount"}
            /\ Contents' = [Contents EXCEPT ![h] = Append(call'.s, 0)]
         \/ /\ call'.op = "assignCopy"
            /\ Contents' = [Contents EXCEPT ![h] = Contents[call'.from]]
         \/ call'.op = "clear" /\ Contents' = [Contents EXCEPT ![h] = <<>>]
         \/ /\ call'.op = "set"
            /\ Contents' = [Contents EXCEPT ![h] = [Contents[h] EXCEPT ![call'.i] = call'.ch]]
         \/ call'.op = "delete" /\ Contents' = [Contents EXCEPT ![h] = None]
  OBVIOUS
<1>2. Store!Changed(h)
  BY <1>1 DEF Store!Changed, Store!Becomes, Contents
<1> QED BY <1>2 DEF Store!Next

(* Texts, with the 0 at their end. *)
LEMMA Ended ==
  /\ \A s \in Texts : Append(s, 0) \in Seq(Chars)
  /\ \A ch \in Chars, n \in Lengths : Append([i \in 1 .. n |-> ch], 0) \in Seq(Chars)
<1>1. \A s \in Texts : s \in Seq(Chars)
  BY StringAssumption
<1>2. ASSUME NEW ch \in Chars, NEW n \in Lengths
      PROVE  [i \in 1 .. n |-> ch] \in Seq(Chars)
  <2>1. n \in Nat
    BY <1>1 DEF Lengths
  <2> QED BY <2>1
<1> QED BY <1>1, <1>2, StringAssumption

(* Making a string. *)
LEMMA NewSteps ==
  ASSUME Inv, NEW h \in Handles, NEW s, Append(s, 0) \in Seq(Chars),
         Creates(h, WithString(mem, Append(s, 0), NoHash)), retouched' = retouched,
         call'.op \in {"new", "newCharCount"}, call'.h = h, call'.s = s
  PROVE  Inv' /\ Store!Next
<1>1. Inv' /\ Contents[h] = None /\ Contents' = [Contents EXCEPT ![h] = Append(s, 0)]
  BY CreateStep
<1> QED BY <1>1, StoreCreates

(* Copying a string. *)
LEMMA NewCopyStep ==
  ASSUME Inv, NEW h \in Handles, NEW from \in Handles, NewCopy(h, from)
  PROVE  Inv' /\ Store!Next
<1> DEFINE t == Text(mem, held[from])
<1> DEFINE hash == mem.heap[held[from]].hash
<1>1. /\ held[from] # Null /\ Creates(h, WithString(mem, t, hash))
      /\ call'.op = "newCopy" /\ call'.h = h /\ call'.from = from
      /\ retouched' = IF from \in retouched THEN retouched \cup {h} ELSE retouched
  BY DEF NewCopy, WithCopy, Exists, Called
<1>2. /\ t \in Seq(Chars) /\ Contents[from] = t
      /\ from \notin retouched => hash \in {NoHash, HashOf(Padded(t))}
  BY <1>1, HeldString
<1> HIDE DEF t, hash
<1>3. Inv' /\ Contents[h] = None /\ Contents' = [Contents EXCEPT ![h] = t]
  <2>1. /\ h \notin retouched' => hash \in {NoHash, HashOf(Padded(t))}
        /\ \A g \in Handles : g # h /\ g \notin retouched' => g \notin retouched
    BY <1>1, <1>2
  <2> QED BY <1>1, <1>2, <2>1, CreateStep
<1> QED BY <1>1, <1>2, <1>3, StoreCreates

(* Assigning to a string. *)
LEMMA AssignSteps ==
  ASSUME Inv, NEW h \in Handles, NEW s, Append(s, 0) \in Seq(Chars),
         Assigns(h, Append(s, 0)),
         call'.op \in {"assign", "assignCharCount"}, call'.h = h, call'.s = s
  PROVE  Inv' /\ Store!Next
<1>1. Inv' /\ Contents[h] # None /\ Contents' = [Contents EXCEPT ![h] = Append(s, 0)]
  BY AssignStep
<1> QED BY <1>1, StoreChanges

(* Assigning a string that exists. *)
LEMMA AssignCopyStep ==
  ASSUME Inv, NEW h \in Handles, NEW from \in Handles, AssignCopy(h, from)
  PROVE  Inv' /\ Store!Next
<1> DEFINE t == Text(mem, held[from])
<1>1. /\ held[from] # Null /\ Assigns(h, t)
      /\ call'.op = "assignCopy" /\ call'.h = h /\ call'.from = from
  BY DEF AssignCopy, Exists, Called
<1>2. t \in Seq(Chars) /\ Contents[from] = t
  BY <1>1, HeldString
<1> HIDE DEF t
<1>3. Inv' /\ Contents[h] # None /\ Contents' = [Contents EXCEPT ![h] = t]
  BY <1>1, <1>2, AssignStep
<1> QED BY <1>1, <1>2, <1>3, StoreChanges

(* Beginning to use the runtime. *)
LEMMA StartStep ==
  ASSUME Inv, Start
  PROVE  Inv' /\ Store!Next
<1> DEFINE one == Alloc(NoMemory, Instance)
<1> DEFINE two == Alloc(one, ArrayInfos)
<1> DEFINE three == Alloc(two, HashtableInfos)
<1>1. /\ phase' = "on" /\ mem' = three /\ held' = held /\ headers' = headers
      /\ call'.op = "start" /\ mem = NoMemory /\ headers = 0
      /\ \A h \in Handles : held[h] = Null
  BY DEF Start, Called, Inv, Started
<1>2. /\ \A b \in {Instance, ArrayInfos, HashtableInfos} : b # NoBlock /\ HasSize(b)
      /\ IsMem(NoMemory)
  BY <1>1 DEF HasSize, NoBlock, Instance, ArrayInfos, HashtableInfos, Inv
<1>3. \A a, b : Free(NoMemory) \ {a, b} # {}
  <2>1. Free(NoMemory) = Addresses
    BY DEF Free, NoMemory
  <2> QED BY <2>1, AddressAssumption, Room
<1>4. /\ Fresh(NoMemory) \in Addresses /\ IsMem(one)
      /\ one.heap[Fresh(NoMemory)] = Instance /\ Same(NoMemory, one, {Fresh(NoMemory)})
  BY <1>2, <1>3, AllocIs
<1> DEFINE a == Fresh(NoMemory)
<1> HIDE DEF one, a
<1>5. \A b : Free(one) \ {b} # {}
  <2>1. Free(NoMemory) \ {a} \subseteq Free(one)
    BY <1>4, FreeStill DEF a
  <2> SUFFICES ASSUME NEW b PROVE Free(one) \ {b} # {}
    OBVIOUS
  <2>2. Free(NoMemory) \ {a, b} # {}
    BY <1>3
  <2> QED BY <2>1, <2>2
<1>6. /\ Fresh(one) \in Addresses /\ IsMem(two)
      /\ two.heap[Fresh(one)] = ArrayInfos /\ Same(one, two, {Fresh(one)})
  BY <1>2, <1>4, <1>5, AllocIs
<1> DEFINE c == Fresh(one)
<1> HIDE DEF two, c
<1>7. Free(two) # {}
  <2>1. Free(one) \ {c} \subseteq Free(two)
    BY <1>6, FreeStill DEF c
  <2> QED BY <1>5, <2>1
<1>8. /\ Fresh(two) \in Addresses /\ IsMem(three)
      /\ three.heap[Fresh(two)] = HashtableInfos /\ Same(two, three, {Fresh(two)})
  BY <1>2, <1>6, <1>7, AllocIs
<1> HIDE DEF three
<1>9. \A k \in Addresses :
        three.heap[k] \in {NoBlock, Instance, ArrayInfos, HashtableInfos}
  <2> SUFFICES ASSUME NEW k \in Addresses
               PROVE  three.heap[k] \in {NoBlock, Instance, ArrayInfos, HashtableInfos}
    OBVIOUS
  <2>1. NoMemory.heap[k] = NoBlock
    BY DEF NoMemory
  <2>2. one.heap[k] \in {NoBlock, Instance}
    BY <1>4, <2>1 DEF Same
  <2>3. two.heap[k] \in {NoBlock, Instance, ArrayInfos}
    BY <1>6, <2>2 DEF Same
  <2> QED BY <1>8, <2>3 DEF Same
<1>10. Lost' = {}
  <2> SUFFICES ASSUME NEW k \in Lost' PROVE FALSE
    OBVIOUS
  <2>1. /\ k \in Addresses /\ mem'.heap[k] # NoBlock
        /\ mem'.heap[k] \notin {Instance, ArrayInfos, HashtableInfos}
    BY DEF Lost, Live, RuntimeBlocks
  <2> QED BY <1>1, <1>9, <2>1
<1>11. LostHeaders'
  BY <1>1, <1>10, FS_EmptySet DEF LostHeaders
<1>12. Apart' /\ HashIsOfText'
  BY <1>1 DEF Apart, BlocksOf, HashIsOfText
<1>13. Inv'
  BY <1>1, <1>8, <1>11, <1>12 DEF Inv
<1>14. Store!Next
  BY <1>1 DEF Store!Next
<1> QED BY <1>13, <1>14

(* Ending to use it: what is freed is no part of a string. *)
LEMMA TerminateStep ==
  ASSUME Inv, Terminate
  PROVE  Inv' /\ Store!Next
<1> DEFINE blocks == RuntimeBlocks(mem)
<1>1. /\ phase' # "off" /\ held' = held /\ retouched' = retouched /\ headers' = headers
      /\ call'.op = "terminate"
      /\ mem' = [heap |-> [a \in Addresses |-> IF a \in blocks THEN NoBlock ELSE mem.heap[a]],
                 total |-> mem.total - Bytes(mem, blocks)]
  BY DEF Terminate, Called
<1>2. \A a \in blocks : /\ mem.heap[a].type \notin {"string", "array", "chars"}
                          /\ a \in Addresses /\ mem.heap[a] # NoBlock
  BY DEF RuntimeBlocks, Instance, ArrayInfos, HashtableInfos, NoBlock
<1>3. \A a \in Addresses :
         a \in blocks <=> mem.heap[a] \in {Instance, ArrayInfos, HashtableInfos}
  BY DEF RuntimeBlocks
<1> HIDE DEF blocks
<1>4. /\ \A a \in blocks : mem'.heap[a] = NoBlock
      /\ \A a \in Addresses \ blocks : mem'.heap[a] = mem.heap[a]
      /\ mem'.total = mem.total - Bytes(mem, blocks)
  <2> DEFINE heap == [a \in Addresses |-> IF a \in blocks THEN NoBlock ELSE mem.heap[a]]
             total == mem.total - Bytes(mem, blocks)
  <2>1. /\ \A a \in Addresses \cap blocks : heap[a] = NoBlock
        /\ \A a \in Addresses \ blocks : heap[a] = mem.heap[a]
    OBVIOUS
  <2>2. mem' = [heap |-> heap, total |-> total]
    BY <1>1
  <2> HIDE DEF heap, total
  <2>3. mem'.heap = heap /\ mem'.total = total
    BY <2>2
  <2> QED BY <1>2, <2>1, <2>3 DEF total
<1>5. mem'.total = Bytes(mem', Used(mem'))
  <2>1. /\ Used(mem) = blocks \cup Used(mem') /\ blocks \cap Used(mem') = {}
        /\ blocks \in SUBSET Addresses /\ Used(mem') \in SUBSET Addresses
    BY <1>2, <1>4 DEF Used, Live
  <2>2. /\ Bytes(mem, Used(mem)) = Bytes(mem, blocks) + Bytes(mem, Used(mem'))
        /\ Bytes(mem, blocks) \in Int /\ Bytes(mem, Used(mem')) \in Int
    BY <2>1, BytesAdd DEF Inv, IsMem
  <2>3. \A a \in Used(mem') : mem.heap[a].size = mem'.heap[a].size
    BY <1>4, <2>1
  <2>4. Bytes(mem, Used(mem')) = Bytes(mem', Used(mem'))
    BY <2>1, <2>3, BytesSame
  <2>5. mem.total = Bytes(mem, Used(mem))
    BY DEF Inv, IsMem
  <2> QED BY <1>4, <2>2, <2>4, <2>5
<1>6. Sized(mem')
  BY <1>4 DEF Inv, IsMem, Sized, HasSize, NoBlock
<1>7. IsMem(mem') /\ Same(mem, mem', blocks)
  BY <1>1, <1>5, <1>6 DEF IsMem, Same
<1>8. ASSUME NEW g \in Handles, held[g] # Null
      PROVE  /\ BlocksOf(g)' = BlocksOf(g) /\ Contents'[g] = Contents[g]
             /\ Whole(mem', held[g])
             /\ Text(mem', held[g]) = Text(mem, held[g])
             /\ mem'.heap[held[g]].hash = mem.heap[held[g]].hash
  <2>1. PICK x, d : \E t \in Seq(Chars) :
              /\ StringAt(mem, held[g], x, d, t, mem.heap[held[g]].hash)
              /\ Text(mem, held[g]) = t /\ Contents[g] = t
              /\ BlocksOf(g) = {held[g], x} \cup ({d} \ {Null})
    BY <1>8, HeldString
  <2>2. PICK t \in Seq(Chars) :
              /\ StringAt(mem, held[g], x, d, t, mem.heap[held[g]].hash)
              /\ Text(mem, held[g]) = t /\ Contents[g] = t
    BY <2>1
  <2>3. held[g] \notin blocks /\ x \notin blocks /\ (t # <<>> => d \notin blocks)
    BY <1>2, <2>2, Fields DEF StringAt, ArrayAt
  <2>4. StringAt(mem', held[g], x, d, t, mem.heap[held[g]].hash)
    BY <1>7, <2>2, <2>3, Untouched
  <2>5. /\ Whole(mem', held[g]) /\ Text(mem', held[g]) = t /\ Array(mem', held[g]) = x
        /\ mem'.heap[x].data = d
        /\ mem'.heap[held[g]].hash = mem.heap[held[g]].hash
    BY <2>4, NowWhole
  <2>6. BlocksOf(g)' = {held[g], x} \cup ({d} \ {Null})
    BY <1>1, <1>8, <2>5 DEF BlocksOf
  <2>7. Contents'[g] = t
    BY <1>1, <1>8, <2>5 DEF Contents
  <2> QED BY <2>1, <2>2, <2>5, <2>6, <2>7
<1>9. ASSUME NEW g \in Handles, held[g] = Null
      PROVE  BlocksOf(g)' = BlocksOf(g) /\ Contents'[g] = Contents[g]
  BY <1>1, <1>9 DEF BlocksOf, Contents
<1>10. Apart'
  BY <1>8, <1>9 DEF Apart, Inv
<1>11. HashIsOfText'
  BY <1>1, <1>8 DEF HashIsOfText, Inv
<1>12. Lost' = Lost
  <2> SUFFICES ASSUME NEW k PROVE k \in Lost' <=> k \in Lost
    OBVIOUS
  <2>1. k \in Lost' <=> /\ k \in Addresses /\ mem'.heap[k] # NoBlock
                        /\ mem'.heap[k] \notin {Instance, ArrayInfos, HashtableInfos}
                        /\ \A g \in Handles : k \notin BlocksOf(g)'
    BY DEF Lost, Live, RuntimeBlocks
  <2>2. \A g \in Handles : BlocksOf(g)' = BlocksOf(g)
    BY <1>8, <1>9
  <2> QED BY <1>3, <1>4, <2>1, <2>2, LostAre
<1>13. LostHeaders'
  <2> SUFFICES ASSUME NEW k \in Lost PROVE mem'.heap[k] = mem.heap[k]
    BY <1>1, <1>12 DEF Inv, LostHeaders
  <2> QED BY <1>3, <1>4, LostAre
<1>14. Inv'
  BY <1>1, <1>7, <1>8, <1>10, <1>11, <1>13 DEF Inv
<1>15. Contents' = Contents
  <2>1. \A g \in Handles : Contents'[g] = Contents[g]
    BY <1>8, <1>9
  <2>2. /\ Contents' = [g \in Handles |-> Contents'[g]]
        /\ Contents = [g \in Handles |-> Contents[g]]
    BY DEF Contents
  <2> QED BY <2>1, <2>2
<1>16. Store!Next
  BY <1>1, <1>15 DEF Store!Next, Contents
<1> QED BY <1>14, <1>16

(* Every step keeps the invariant, and is one of StringStore. *)
LEMMA Step ==
  ASSUME Inv, [Next]_vars
  PROVE  Inv' /\ [Store!Next]_(Store!vars)
<1>1. CASE Start
  BY <1>1, StartStep
<1>2. CASE Terminate
  BY <1>2, TerminateStep
<1>3. ASSUME NEW h \in Handles, Delete(h) PROVE Inv' /\ Store!Next
  <2>1. call'.op = "delete" /\ call'.h = h
    BY <1>3 DEF Delete, Called
  <2> QED BY <1>3, <2>1, DeleteStep, StoreChanges
<1>4. ASSUME NEW h \in Handles, Clear(h) PROVE Inv' /\ Store!Next
  <2>1. call'.op = "clear" /\ call'.h = h
    BY <1>4 DEF Clear, Called
  <2> QED BY <1>4, <2>1, ClearStep, StoreChanges
<1>5. ASSUME NEW h \in Handles, Hash(h) PROVE Inv' /\ Store!Next
  <2>1. call'.op = "hash"
    BY <1>5 DEF Hash, Called
  <2>2. Inv' /\ Contents' = Contents
    BY <1>5, HashStep
  <2> QED BY <2>1, <2>2 DEF Store!Next, Contents
<1>6. ASSUME NEW h \in Handles, NEW s \in Texts, New(h, s) \/ Assign(h, s)
      PROVE  Inv' /\ Store!Next
  <2>1. Append(s, 0) \in Seq(Chars)
    BY Ended
  <2>2. CASE New(h, s)
    BY <2>1, <2>2, NewSteps DEF New, Called
  <2>3. CASE Assign(h, s)
    BY <2>1, <2>3, AssignSteps DEF Assign, Called
  <2> QED BY <1>6, <2>2, <2>3
<1>7. ASSUME NEW h \in Handles, NEW ch \in Chars, NEW n \in Lengths,
             NewCharCount(h, ch, n) \/ AssignCharCount(h, ch, n)
      PROVE  Inv' /\ Store!Next
  <2> DEFINE s == [i \in 1 .. n |-> ch]
  <2>1. Append(s, 0) \in Seq(Chars)
    BY Ended
  <2>2. CASE NewCharCount(h, ch, n)
    <3>1. /\ Creates(h, WithString(mem, Append(s, 0), NoHash)) /\ retouched' = retouched
          /\ call' = [op |-> "newCharCount", h |-> h, s |-> s]
      BY <2>2 DEF NewCharCount, Called
    <3> HIDE DEF s
    <3> QED BY <2>1, <3>1, NewSteps
  <2>3. CASE AssignCharCount(h, ch, n)
    <3>1. /\ Assigns(h, Append(s, 0))
          /\ call' = [op |-> "assignCharCount", h |-> h, s |-> s]
      BY <2>3 DEF AssignCharCount, Called
    <3> HIDE DEF s
    <3> QED BY <2>1, <3>1, AssignSteps
  <2> QED BY <1>7, <2>2, <2>3
<1>8. ASSUME NEW h \in Handles, NEW from \in Handles, NewCopy(h, from) \/ AssignCopy(h, from)
      PROVE  Inv' /\ Store!Next
  BY <1>8, NewCopyStep, AssignCopyStep
<1>9. ASSUME NEW h \in Handles, NEW ch \in Chars, NEW i, Set(h, i, ch)
      PROVE  Inv' /\ Store!Next
  <2>1. call'.op = "set" /\ call'.h = h /\ call'.i = i /\ call'.ch = ch
    BY <1>9 DEF Set, Called
  <2> DEFINE t == [Contents[h] EXCEPT ![i] = ch]
  <2>2. Inv' /\ Contents[h] # None /\ Contents' = [Contents EXCEPT ![h] = t]
    BY <1>9, SetStep
  <2>3. t = [Contents[h] EXCEPT ![call'.i] = call'.ch]
    BY <2>1
  <2> HIDE DEF t
  <2> QED BY <2>1, <2>2, <2>3, StoreChanges
<1>10. CASE UNCHANGED vars
  <2>1. (\A g \in Handles : BlocksOf(g)' = BlocksOf(g)) /\ Lost' = Lost
    BY <1>10 DEF vars, BlocksOf, Lost
  <2>2. Apart' /\ HashIsOfText'
    BY <1>10, <2>1 DEF vars, Inv, Apart, HashIsOfText
  <2>3. LostHeaders'
    BY <1>10, <2>1 DEF vars, Inv, LostHeaders
  <2>4. Inv'
    BY <1>10, <2>2, <2>3 DEF vars, Inv
  <2>5. UNCHANGED Store!vars
    BY <1>10 DEF vars, Store!vars
  <2> QED BY <2>4, <2>5
<1>11. CASE Next
  BY <1>1, <1>2, <1>3, <1>4, <1>5, <1>6, <1>7, <1>8, <1>9, <1>11 DEF Next
<1> QED BY <1>10, <1>11

(* Before the runtime is started there are no strings. *)
LEMMA Beginning ==
  ASSUME Init
  PROVE  Inv /\ Store!Init
<1>1. \A a \in Addresses : mem.heap[a] = NoBlock
  BY DEF Init, NoMemory
<1>2. Used(mem) = {} /\ Sized(mem)
  BY <1>1 DEF Used, Live, Sized, HasSize, NoBlock
<1>3. mem.total = Bytes(mem, Used(mem))
  <2>1. Bytes(mem, {}) = 0
    BY <1>2, BytesAdd
  <2> QED BY <1>2, <2>1 DEF Init, NoMemory
<1>4. IsMem(mem)
  BY <1>2, <1>3 DEF Init, IsMem, NoMemory
<1>5. Lost = {}
  BY <1>1 DEF Lost, Live
<1>6. LostHeaders
  BY <1>5, FS_EmptySet DEF Init, LostHeaders
<1>7. Inv
  BY <1>4, <1>6 DEF Init, Inv, Apart, BlocksOf, HashIsOfText
<1>8. Store!Init
  BY DEF Init, Store!Init
<1> QED BY <1>7, <1>8

(* Strings are texts of their own: no operation of the runtime touches a   *)
(* string it was not given, in whichever blocks the memory put them.       *)
THEOREM StringsAreTexts == Spec => IsStringStore
<1>1. Init => Inv /\ Store!Init
  BY Beginning
<1>2. Inv /\ [Next]_vars => Inv' /\ [Store!Next]_(Store!vars)
  BY Step
<1> QED BY <1>1, <1>2, PTL DEF Spec, IsStringStore, Store!Spec

(* A hash that was computed is that of the text, for every string that was *)
(* not set since, through copies, clears and assignments.                  *)
THEOREM HashesAreOfTexts == Spec => []HashIsOfText
<1>1. Init => Inv
  BY Beginning
<1>2. Inv /\ [Next]_vars => Inv'
  BY Step
<1>3. Inv => HashIsOfText
  BY DEF Inv
<1> QED BY <1>1, <1>2, <1>3, PTL DEF Spec

(* No string is in a block that was freed, or in one of another string, in *)
(* any memory and after any calls: an assignment frees the characters it   *)
(* replaces and nothing that is still in use.                              *)
LEMMA Owned ==
  ASSUME Inv
  PROVE  OwnBlocks
<1> SUFFICES ASSUME NEW h \in Handles, held[h] # Null
             PROVE  /\ \A a \in BlocksOf(h) : Live(mem, a)
                    /\ \A g \in Handles \ {h} : BlocksOf(g) \cap BlocksOf(h) = {}
  BY DEF OwnBlocks
<1>1. BlocksOf(h) \subseteq Addresses /\ BlocksOf(h) \cap Free(mem) = {}
  BY HeldString
<1>2. \A a \in BlocksOf(h) : Live(mem, a)
  BY <1>1 DEF Live, Free
<1>3. \A g \in Handles \ {h} : BlocksOf(g) \cap BlocksOf(h) = {}
  BY DEF Inv, Apart
<1> QED BY <1>2, <1>3

(* The memory is accounted for to the byte, after any calls and whatever   *)
(* the texts: strings have blocks of their own, each assignment has lost   *)
(* one empty header and nothing else is lost, and the bytes the runtime    *)
(* counts, and reports at its end, are those of the blocks not freed.      *)
THEOREM MemoryIsAccounted == Spec => []Accounted
<1>1. Init => Inv
  BY Beginning
<1>2. Inv /\ [Next]_vars => Inv'
  BY Step
<1>3. Inv => Accounted
  BY Owned DEF Accounted, Inv, LostHeaders, IsMem, Used
<1> QED BY <1>1, <1>2, <1>3, PTL DEF Spec
====
