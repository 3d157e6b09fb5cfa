------------------------- MODULE CompilerWalkProofs -------------------------
(***************************************************************************)
(* Proofs about the walk of module CompilerScopes, for files nested at     *)
(* will: scopes, namespaces and blocks are pushed and popped in step,      *)
(* types are correct, and what a send leaves to the nodes that follow it   *)
(* is there when they have been visited.                                   *)
(***************************************************************************)
EXTENDS CompilerScopesProofs, FiniteSetTheorems, SequenceTheorems
-----------------------------------------------------------------------------
(* Places in a sequence. *)

(* A set of numbers up to n, and n + 1: the ranks do not change. *)
LEMMA RankGrown ==
  ASSUME NEW n \in Nat, NEW S \in SUBSET (1 .. n)
  PROVE  /\ IsFiniteSet(S) /\ Cardinality(S) \in Nat
         /\ Cardinality(S \cup {n + 1}) = Cardinality(S) + 1
         /\ \A i \in S : Rank(S \cup {n + 1}, i) = Rank(S, i)
         /\ Rank(S \cup {n + 1}, n + 1) = Cardinality(S) + 1
<1>1. IsFiniteSet(S) /\ Cardinality(S) \in Nat
  <2>1. IsFiniteSet(1 .. n)
    BY FS_Interval
  <2> QED BY <2>1, FS_Subset, FS_CardinalityType
<1>2. n + 1 \notin S /\ S \subseteq Nat
  OBVIOUS
<1>3. Cardinality(S \cup {n + 1}) = Cardinality(S) + 1
  BY <1>1, <1>2, FS_AddElement
<1>4. ASSUME NEW i \in S
      PROVE  Rank(S \cup {n + 1}, i) = Rank(S, i)
  <2>1. i \in 1 .. n /\ ~ (n + 1 <= i)
    OBVIOUS
  <2>2. {j \in S \cup {n + 1} : j <= i} = {j \in S : j <= i}
    BY <2>1
  <2> QED BY <2>2 DEF Rank
<1>5. Rank(S \cup {n + 1}, n + 1) = Cardinality(S) + 1
  <2>1. \A j \in S \cup {n + 1} : j <= n + 1
    OBVIOUS
  <2>2. {j \in S \cup {n + 1} : j <= n + 1} = S \cup {n + 1}
    BY <2>1
  <2> QED BY <1>3, <2>2 DEF Rank
<1> QED BY <1>1, <1>3, <1>4, <1>5

(* A rank is one of as many numbers as there are. *)
LEMMA RankBounds ==
  ASSUME NEW n \in Nat, NEW S \in SUBSET (1 .. n), NEW i \in S
  PROVE  Rank(S, i) \in 1 .. Cardinality(S)
<1> DEFINE T == {j \in S : j <= i}
<1>1. IsFiniteSet(S) /\ Cardinality(S) \in Nat
  BY RankGrown
<1>2. T \in SUBSET S /\ i \in T
  OBVIOUS
<1> HIDE DEF T
<1>3. IsFiniteSet(T) /\ Cardinality(T) <= Cardinality(S) /\ Cardinality(T) \in Nat
  BY <1>1, <1>2, FS_Subset, FS_CardinalityType
<1>4. Cardinality(T) # 0
  BY <1>2, <1>3, FS_EmptySet
<1>5. Rank(S, i) = Cardinality(T)
  BY DEF Rank, T
<1> QED BY <1>1, <1>3, <1>4, <1>5

(* Sequences that a new element is appended to. *)
LEMMA Appended ==
  ASSUME NEW S, NEW q \in Seq(S), NEW x \in S
  PROVE  /\ Append(q, x) \in Seq(S) /\ Len(q) \in Nat
         /\ Len(Append(q, x)) = Len(q) + 1
         /\ DOMAIN q = 1 .. Len(q) /\ DOMAIN Append(q, x) = 1 .. (Len(q) + 1)
         /\ Append(q, x)[Len(q) + 1] = x
         /\ \A i \in 1 .. Len(q) : Append(q, x)[i] = q[i]
BY AppendProperties

(* Sequences without their last element. *)
LEMMA Fronts ==
  ASSUME NEW S, NEW q \in Seq(S), q # <<>>
  PROVE  /\ Front(q) \in Seq(S) /\ Len(q) \in Nat /\ Len(q) >= 1
         /\ Len(Front(q)) = Len(q) - 1
         /\ DOMAIN q = 1 .. Len(q) /\ DOMAIN Front(q) = 1 .. (Len(q) - 1)
         /\ \A i \in 1 .. (Len(q) - 1) : Front(q)[i] = q[i]
<1>1. Len(q) \in Nat /\ Len(q) # 0 /\ DOMAIN q = 1 .. Len(q)
  BY EmptySeq
<1>2. Len(q) - 1 \in Nat /\ \A i \in 1 .. (Len(q) - 1) : q[i] \in S
  BY <1>1
<1>3. /\ SubSeq(q, 1, Len(q) - 1) \in Seq(S)
      /\ Len(SubSeq(q, 1, Len(q) - 1)) = Len(q) - 1
      /\ \A i \in 1 .. (Len(q) - 1) : SubSeq(q, 1, Len(q) - 1)[i] = q[i]
  BY <1>1, <1>2, SubSeqProperties
<1> DEFINE f == Front(q)
<1>4. /\ f \in Seq(S) /\ Len(f) = Len(q) - 1
      /\ \A i \in 1 .. (Len(q) - 1) : f[i] = q[i]
  BY <1>3 DEF Front
<1> HIDE DEF f
<1>5. DOMAIN f = 1 .. (Len(q) - 1)
  BY <1>4
<1> QED BY <1>1, <1>4, <1>5 DEF f
-----------------------------------------------------------------------------
(* Blocks and scopes, side by side. *)

Kinds == {"module", "file", "fileBody", "record"} \cup ScopedBlocks
FileBlocks == {"file", "fileBody"}
Bottom(q) == IF q[1] = "module" THEN 2 ELSE 1

(* Above the block of the file, inside the one of the module if there is   *)
(* one, are only blocks that may be left.                                  *)
BlocksFine(q) ==
  /\ q \in Seq(Kinds) /\ Bottom(q) <= Len(q) /\ q[Bottom(q)] \in FileBlocks
  /\ \A i \in 1 .. Len(q) : i > Bottom(q) => q[i] \in ScopedBlocks \cup {"record"}

ScopedIn(q) == {i \in DOMAIN q : q[i] \in ScopedBlocks}
Base(path, q) == Len(path) - Cardinality(ScopedIn(q))

(* The scopes of a chain stand for the open blocks. *)
Fits(sc, path, q) ==
  /\ Base(path, q) \in {1, 2}
  /\ \A i \in ScopedIn(q) :
       (q[i] \in NamespaceBlocks) <=>
         (sc[path[Base(path, q) + Rank(ScopedIn(q), i)]].of # NoName)

(* The places of a chain that are namespaces. *)
NamedIn(sc, path) == {i \in DOMAIN path : sc[path[i]].of # NoName}
Names(sc, path, ns) ==
  /\ Len(ns) = Cardinality(NamedIn(sc, path))
  /\ \A i \in NamedIn(sc, path) : ns[Rank(NamedIn(sc, path), i)] = sc[path[i]].of

(* Two kinds of block for which the same may come and go. *)
Alike(k, l) ==
  /\ k \in FileBlocks <=> l \in FileBlocks
  /\ k \in ScopedBlocks <=> l \in ScopedBlocks
  /\ k \in NamespaceBlocks <=> l \in NamespaceBlocks
  /\ k = "module" <=> l = "module"
  /\ k = "record" <=> l = "record"

(* Which blocks have scopes is a question of their kinds only. *)
LEMMA AlikeBlocks ==
  ASSUME NEW q, BlocksFine(q), NEW r \in Seq(Kinds), Len(r) = Len(q),
         \A i \in 1 .. Len(q) : Alike(q[i], r[i])
  PROVE  /\ BlocksFine(r) /\ ScopedIn(r) = ScopedIn(q) /\ Bottom(r) = Bottom(q)
         /\ \A i \in ScopedIn(q) : q[i] \in NamespaceBlocks <=> r[i] \in NamespaceBlocks
<1>1. /\ q \in Seq(Kinds) /\ Len(q) \in Nat
      /\ DOMAIN q = 1 .. Len(q) /\ DOMAIN r = 1 .. Len(q)
  BY DEF BlocksFine
<1>2. Bottom(q) \in {1, 2} /\ Bottom(q) <= Len(q)
  BY DEF Bottom, BlocksFine
<1>3. Bottom(r) = Bottom(q)
  <2>1. Alike(q[1], r[1])
    BY <1>1, <1>2
  <2> QED BY <2>1 DEF Bottom, Alike
<1>4. ScopedIn(r) = ScopedIn(q)
  BY <1>1 DEF ScopedIn, Alike
<1>5. BlocksFine(r)
  <2>1. r[Bottom(q)] \in FileBlocks
    BY <1>1, <1>2 DEF Alike, BlocksFine
  <2>2. ASSUME NEW i \in 1 .. Len(q), i > Bottom(q)
        PROVE  r[i] \in ScopedBlocks \cup {"record"}
    <3>1. q[i] \in ScopedBlocks \cup {"record"} /\ Alike(q[i], r[i])
      BY <2>2 DEF BlocksFine
    <3> QED BY <3>1 DEF Alike
  <2> QED BY <1>2, <1>3, <2>1, <2>2 DEF BlocksFine
<1>6. \A i \in ScopedIn(q) : q[i] \in NamespaceBlocks <=> r[i] \in NamespaceBlocks
  BY <1>1 DEF ScopedIn, Alike
<1> QED BY <1>3, <1>4, <1>5, <1>6

(* The block on top may be followed in its place by one like it. *)
LEMMA TopAlike ==
  ASSUME NEW q, BlocksFine(q), NEW k \in Kinds, Alike(Last(q), k)
  PROVE  LET r == [q EXCEPT ![Len(q)] = k]
         IN /\ BlocksFine(r) /\ ScopedIn(r) = ScopedIn(q) /\ Bottom(r) = Bottom(q)
            /\ Len(r) = Len(q)
            /\ \A i \in ScopedIn(q) : q[i] \in NamespaceBlocks <=> r[i] \in NamespaceBlocks
<1> DEFINE r == [q EXCEPT ![Len(q)] = k]
<1>1. q \in Seq(Kinds) /\ Len(q) \in 1 .. Len(q)
  BY DEF BlocksFine, Bottom
<1>2. /\ r \in Seq(Kinds) /\ Len(r) = Len(q)
      /\ \A i \in 1 .. Len(q) : r[i] = IF i = Len(q) THEN k ELSE q[i]
  BY <1>1, ExceptSeq
<1> HIDE DEF r
<1>4. \A i \in 1 .. Len(q) : Alike(q[i], r[i])
  BY <1>2 DEF Alike, Last
<1>5. /\ BlocksFine(r) /\ ScopedIn(r) = ScopedIn(q) /\ Bottom(r) = Bottom(q)
      /\ \A i \in ScopedIn(q) : q[i] \in NamespaceBlocks <=> r[i] \in NamespaceBlocks
  BY <1>2, <1>4, AlikeBlocks
<1> QED BY <1>2, <1>5 DEF r

(* A block is entered. *)
LEMMA BlockPushed ==
  ASSUME NEW q, BlocksFine(q), NEW k \in ScopedBlocks \cup {"record"}
  PROVE  /\ BlocksFine(Append(q, k)) /\ Bottom(Append(q, k)) = Bottom(q)
         /\ k \in ScopedBlocks =>
              ScopedIn(Append(q, k)) = ScopedIn(q) \cup {Len(q) + 1}
         /\ k \notin ScopedBlocks => ScopedIn(Append(q, k)) = ScopedIn(q)
<1> DEFINE r == Append(q, k)
<1>1. q \in Seq(Kinds) /\ k \in Kinds /\ Bottom(q) \in {1, 2} /\ Bottom(q) <= Len(q)
  BY DEF BlocksFine, Bottom, Kinds
<1>2. /\ r \in Seq(Kinds) /\ Len(q) \in Nat /\ Len(r) = Len(q) + 1
      /\ DOMAIN q = 1 .. Len(q) /\ DOMAIN r = 1 .. (Len(q) + 1)
      /\ r[Len(q) + 1] = k /\ \A i \in 1 .. Len(q) : r[i] = q[i]
  BY <1>1, Appended
<1> HIDE DEF r
<1>3. Bottom(r) = Bottom(q) /\ r[Bottom(q)] \in FileBlocks
  <2>1. r[1] = q[1] /\ r[Bottom(q)] = q[Bottom(q)]
    BY <1>1, <1>2
  <2> QED BY <2>1 DEF Bottom, BlocksFine
<1>4. ASSUME NEW i \in 1 .. Len(r), i > Bottom(q)
      PROVE  r[i] \in ScopedBlocks \cup {"record"}
  <2>1. CASE i = Len(q) + 1
    BY <1>2, <2>1
  <2>2. CASE i # Len(q) + 1
    <3>1. i \in 1 .. Len(q) /\ r[i] = q[i]
      BY <1>2, <2>2
    <3> QED BY <1>4, <3>1 DEF BlocksFine
  <2> QED BY <2>1, <2>2
<1>5. BlocksFine(r)
  BY <1>1, <1>2, <1>3, <1>4 DEF BlocksFine
<1>6. \A i \in 1 .. (Len(q) + 1) : i \in 1 .. Len(q) \/ i = Len(q) + 1
  BY <1>2
<1>7. 1 .. Len(q) \subseteq 1 .. (Len(q) + 1) /\ Len(q) + 1 \in 1 .. (Len(q) + 1)
  BY <1>2
<1>8. k \in ScopedBlocks => ScopedIn(r) = ScopedIn(q) \cup {Len(q) + 1}
  BY <1>2, <1>6, <1>7 DEF ScopedIn
<1>9. k \notin ScopedBlocks => ScopedIn(r) = ScopedIn(q)
  BY <1>2, <1>6, <1>7 DEF ScopedIn
<1> QED BY <1>3, <1>5, <1>8, <1>9 DEF r

(* A block is left. *)
LEMMA BlockPopped ==
  ASSUME NEW q, BlocksFine(q), Last(q) \in ScopedBlocks \cup {"record"}
  PROVE  /\ BlocksFine(Front(q)) /\ Bottom(Front(q)) = Bottom(q)
         /\ Len(Front(q)) = Len(q) - 1 /\ Len(q) \in Nat /\ Len(q) > 1
         /\ Last(q) \in ScopedBlocks => ScopedIn(q) = ScopedIn(Front(q)) \cup {Len(q)}
         /\ Last(q) \notin ScopedBlocks => ScopedIn(q) = ScopedIn(Front(q))
         /\ \A i \in ScopedIn(Front(q)) : Front(q)[i] = q[i]
<1> DEFINE r == Front(q)
<1>1. q \in Seq(Kinds) /\ Bottom(q) \in {1, 2} /\ Bottom(q) <= Len(q)
  BY DEF BlocksFine, Bottom
<1>2. q # <<>>
  BY <1>1
<1>3. /\ r \in Seq(Kinds) /\ Len(q) \in Nat /\ Len(q) >= 1 /\ Len(r) = Len(q) - 1
      /\ DOMAIN q = 1 .. Len(q) /\ DOMAIN r = 1 .. (Len(q) - 1)
      /\ \A i \in 1 .. (Len(q) - 1) : r[i] = q[i]
  BY <1>1, <1>2, Fronts
<1> HIDE DEF r
<1>4. Bottom(q) < Len(q)
  <2>1. q[Bottom(q)] \in FileBlocks
    BY DEF BlocksFine
  <2>2. FileBlocks \cap (ScopedBlocks \cup {"record"}) = {}
    BY DEF FileBlocks, ScopedBlocks, NamespaceBlocks
  <2>3. Bottom(q) # Len(q)
    BY <2>1, <2>2 DEF Last
  <2> QED BY <1>1, <1>3, <2>3
<1>5. Bottom(r) = Bottom(q) /\ r[Bottom(q)] \in FileBlocks
  <2>1. r[1] = q[1] /\ r[Bottom(q)] = q[Bottom(q)]
    BY <1>1, <1>3, <1>4
  <2> QED BY <2>1 DEF Bottom, BlocksFine
<1>6. ASSUME NEW i \in 1 .. Len(r), i > Bottom(q)
      PROVE  r[i] \in ScopedBlocks \cup {"record"}
  <2>1. i \in 1 .. Len(q) /\ r[i] = q[i]
    BY <1>3
  <2> QED BY <1>6, <2>1 DEF BlocksFine
<1>7. BlocksFine(r)
  BY <1>1, <1>3, <1>4, <1>5, <1>6 DEF BlocksFine
<1>8. \A i \in 1 .. Len(q) : i \in 1 .. (Len(q) - 1) \/ i = Len(q)
  BY <1>3
<1>9. 1 .. (Len(q) - 1) \subseteq 1 .. Len(q) /\ Len(q) \in 1 .. Len(q)
  BY <1>3
<1>10. Last(q) = q[Len(q)]
  BY DEF Last
<1>11. Last(q) \in ScopedBlocks => ScopedIn(q) = ScopedIn(r) \cup {Len(q)}
  BY <1>3, <1>8, <1>9, <1>10 DEF ScopedIn
<1>12. Last(q) \notin ScopedBlocks => ScopedIn(q) = ScopedIn(r)
  BY <1>3, <1>8, <1>9, <1>10 DEF ScopedIn
<1>13. \A i \in ScopedIn(r) : r[i] = q[i]
  BY <1>3 DEF ScopedIn
<1> QED BY <1>1, <1>3, <1>4, <1>5, <1>7, <1>11, <1>12, <1>13 DEF r
-----------------------------------------------------------------------------
(* The scope of a block is on the chain. *)
LEMMA FitsPlace ==
  ASSUME NEW sc, NEW path \in Seq(Nat), NEW q \in Seq(Kinds), Fits(sc, path, q)
  PROVE  /\ Cardinality(ScopedIn(q)) \in Nat /\ ScopedIn(q) \in SUBSET (1 .. Len(q))
         /\ Len(path) = Base(path, q) + Cardinality(ScopedIn(q))
         /\ \A i \in ScopedIn(q) :
              Base(path, q) + Rank(ScopedIn(q), i) \in 1 .. Len(path)
<1>1. Len(q) \in Nat /\ ScopedIn(q) \in SUBSET (1 .. Len(q)) /\ Len(path) \in Nat
  BY DEF ScopedIn
<1>2. Cardinality(ScopedIn(q)) \in Nat
  BY <1>1, RankGrown
<1>3. \A i \in ScopedIn(q) : Rank(ScopedIn(q), i) \in 1 .. Cardinality(ScopedIn(q))
  BY <1>1, RankBounds
<1>4. Base(path, q) \in {1, 2} /\ Base(path, q) = Len(path) - Cardinality(ScopedIn(q))
  BY DEF Fits, Base
<1> DEFINE n == Cardinality(ScopedIn(q))
<1> DEFINE l == Len(path)
<1> DEFINE b == Base(path, q)
<1>5. n \in Nat /\ l \in Nat /\ b \in {1, 2} /\ b = l - n
  BY <1>1, <1>2, <1>4
<1>6. \A i \in ScopedIn(q) : Rank(ScopedIn(q), i) \in 1 .. n
  BY <1>3
<1> HIDE DEF n, l, b
<1>7. l = b + n
  BY <1>5
<1>8. ASSUME NEW i \in ScopedIn(q)
      PROVE  b + Rank(ScopedIn(q), i) \in 1 .. l
  <2> DEFINE j == Rank(ScopedIn(q), i)
  <2>1. j \in 1 .. n
    BY <1>6
  <2> HIDE DEF j
  <2>2. b + j \in 1 .. l
    BY <1>5, <2>1
  <2> QED BY <2>2 DEF j
<1> QED BY <1>1, <1>2, <1>7, <1>8, Zenon DEF n, l, b

(* Nothing but the kinds of the blocks and of the scopes matters. *)
LEMMA FitsAgree ==
  ASSUME NEW sc, NEW sd, NEW path \in Seq(Nat), NEW q \in Seq(Kinds), NEW r,
         Fits(sc, path, q), ScopedIn(r) = ScopedIn(q),
         \A i \in ScopedIn(q) : q[i] \in NamespaceBlocks <=> r[i] \in NamespaceBlocks,
         \A i \in ToSet(path) : sd[i].of = sc[i].of
  PROVE  Fits(sd, path, r) /\ Base(path, r) = Base(path, q)
<1>1. Base(path, r) = Base(path, q)
  BY DEF Base
<1>2. ASSUME NEW i \in ScopedIn(q)
      PROVE  r[i] \in NamespaceBlocks <=>
               sd[path[Base(path, q) + Rank(ScopedIn(q), i)]].of # NoName
  <2> DEFINE p == Base(path, q) + Rank(ScopedIn(q), i)
  <2>1. p \in 1 .. Len(path)
    BY FitsPlace
  <2>2. q[i] \in NamespaceBlocks <=> sc[path[p]].of # NoName
    BY DEF Fits
  <2> HIDE DEF p
  <2>3. path[p] \in ToSet(path)
    BY <2>1 DEF ToSet
  <2> QED BY <2>2, <2>3 DEF p
<1> QED BY <1>1, <1>2 DEF Fits

(* A block k and its scope, new, are entered: r follows q and p path. *)
Entered(sc, path, q, new, k, sd, p, r) ==
  /\ path \in Seq(Nat) /\ BlocksFine(q) /\ Fits(sc, path, q)
  /\ new \in Nat /\ k \in ScopedBlocks /\ p = Append(path, new) /\ r = Append(q, k)
  /\ \A i \in ToSet(path) : sd[i].of = sc[i].of
  /\ k \in NamespaceBlocks <=> sd[new].of # NoName

(* Chain and blocks stay side by side. *)
LEMMA FitsPushed ==
  ASSUME NEW sc, NEW path, NEW q, NEW new, NEW k, NEW sd, NEW p, NEW r,
         Entered(sc, path, q, new, k, sd, p, r)
  PROVE  Fits(sd, p, r) /\ Base(p, r) = Base(path, q)
<1>0. /\ path \in Seq(Nat) /\ BlocksFine(q) /\ Fits(sc, path, q)
      /\ new \in Nat /\ k \in ScopedBlocks /\ p = Append(path, new) /\ r = Append(q, k)
      /\ \A i \in ToSet(path) : sd[i].of = sc[i].of
      /\ k \in NamespaceBlocks <=> sd[new].of # NoName
  BY DEF Entered
<1> DEFINE S == ScopedIn(q)
<1> DEFINE T == ScopedIn(r)
<1>1. q \in Seq(Kinds) /\ k \in Kinds /\ Len(q) \in Nat
  BY <1>0 DEF BlocksFine, Kinds
<1>2. /\ Len(p) = Len(path) + 1 /\ p[Len(path) + 1] = new /\ Len(path) \in Nat
      /\ \A i \in 1 .. Len(path) : p[i] = path[i]
  BY <1>0, Appended
<1>3. r[Len(q) + 1] = k /\ \A i \in 1 .. Len(q) : r[i] = q[i]
  BY <1>0, <1>1, Appended
<1>4. T = S \cup {Len(q) + 1}
  BY <1>0, BlockPushed
<1>5. /\ Cardinality(S) \in Nat /\ S \in SUBSET (1 .. Len(q))
      /\ Len(path) = Base(path, q) + Cardinality(S)
      /\ \A i \in S : Base(path, q) + Rank(S, i) \in 1 .. Len(path)
  BY <1>0, <1>1, FitsPlace
<1> HIDE DEF S, T
<1>6. /\ Cardinality(T) = Cardinality(S) + 1 /\ Rank(T, Len(q) + 1) = Cardinality(S) + 1
      /\ \A i \in S : Rank(T, i) = Rank(S, i)
  BY <1>1, <1>4, <1>5, RankGrown
<1>7. Base(path, q) \in {1, 2}
  BY <1>0 DEF Fits
<1>8. Base(p, r) = Base(path, q)
  BY <1>2, <1>5, <1>6, <1>7 DEF Base, S, T
<1>9. ASSUME NEW i \in T
      PROVE  r[i] \in NamespaceBlocks <=>
               sd[p[Base(path, q) + Rank(T, i)]].of # NoName
  <2>1. CASE i = Len(q) + 1
    <3>1. Base(path, q) + Rank(T, i) = Len(path) + 1
      BY <1>5, <1>6, <1>7, <2>1
    <3> QED BY <1>0, <1>2, <1>3, <2>1, <3>1
  <2>2. CASE i \in S
    <3> DEFINE n == Base(path, q) + Rank(S, i)
    <3>1. n \in 1 .. Len(path) /\ Base(path, q) + Rank(T, i) = n
      BY <1>5, <1>6, <2>2
    <3>2. q[i] \in NamespaceBlocks <=> sc[path[n]].of # NoName
      BY <1>0, <2>2 DEF Fits, S
    <3> HIDE DEF n
    <3>3. p[n] = path[n] /\ path[n] \in ToSet(path)
      BY <1>2, <3>1 DEF ToSet
    <3>4. r[i] = q[i]
      BY <1>3, <1>5, <2>2
    <3> QED BY <1>0, <3>1, <3>2, <3>3, <3>4
  <2> QED BY <1>4, <2>1, <2>2
<1>10. Fits(sd, p, r)
  BY <1>7, <1>8, <1>9 DEF Fits, T
<1> QED BY <1>8, <1>10

(* A block and its scope are left: they are of one kind. *)
LEMMA FitsPopped ==
  ASSUME NEW sc, NEW path \in Seq(Nat), NEW q, BlocksFine(q), Fits(sc, path, q),
         Last(q) \in ScopedBlocks
  PROVE  /\ Len(path) > 1 /\ Fits(sc, Front(path), Front(q))
         /\ Base(Front(path), Front(q)) = Base(path, q)
         /\ Last(q) \in NamespaceBlocks <=> sc[Last(path)].of # NoName
<1> DEFINE p == Front(path)
<1> DEFINE r == Front(q)
<1> DEFINE S == ScopedIn(r)
<1> DEFINE T == ScopedIn(q)
<1>1. q \in Seq(Kinds)
  BY DEF BlocksFine
<1>2. /\ Len(r) = Len(q) - 1 /\ Len(q) \in Nat /\ Len(q) > 1
      /\ T = S \cup {Len(q)} /\ \A i \in S : r[i] = q[i]
      /\ BlocksFine(r)
  BY BlockPopped
<1>3. /\ Cardinality(T) \in Nat /\ Len(path) = Base(path, q) + Cardinality(T)
      /\ \A i \in T : Base(path, q) + Rank(T, i) \in 1 .. Len(path)
  BY <1>1, FitsPlace
<1>4. S \in SUBSET (1 .. (Len(q) - 1)) /\ Len(q) - 1 \in Nat /\ (Len(q) - 1) + 1 = Len(q)
  <2>1. r \in Seq(Kinds) /\ DOMAIN r = 1 .. Len(r)
    BY <1>2 DEF BlocksFine
  <2> QED BY <1>2, <2>1 DEF ScopedIn
<1> HIDE DEF S, T
<1>5. /\ Cardinality(T) = Cardinality(S) + 1 /\ Cardinality(S) \in Nat
      /\ Rank(T, Len(q)) = Cardinality(S) + 1
      /\ \A i \in S : Rank(T, i) = Rank(S, i) /\ Rank(S, i) \in 1 .. Cardinality(S)
  <2> DEFINE n == Len(q) - 1
  <2>1. n \in Nat /\ S \in SUBSET (1 .. n) /\ T = S \cup {n + 1}
    BY <1>2, <1>4
  <2>2. n + 1 = Len(q)
    BY <1>2
  <2> HIDE DEF n
  <2>3. /\ Cardinality(T) = Cardinality(S) + 1 /\ Cardinality(S) \in Nat
        /\ Rank(T, n + 1) = Cardinality(S) + 1
        /\ \A i \in S : Rank(T, i) = Rank(S, i)
    BY <2>1, RankGrown
  <2> QED BY <2>1, <2>2, <2>3, RankBounds
<1>6. Base(path, q) \in {1, 2} /\ Len(path) \in Nat /\ Len(path) > 1
  BY <1>3, <1>5 DEF Fits
<1>7. path # <<>>
  BY <1>6
<1>8. Len(p) = Len(path) - 1 /\ \A i \in 1 .. (Len(path) - 1) : p[i] = path[i]
  BY <1>7, Fronts
<1> HIDE DEF p, r
<1>9. Base(p, r) = Base(path, q)
  BY <1>3, <1>5, <1>6, <1>8 DEF Base, S, T
<1>10. \A i \in T : q[i] \in NamespaceBlocks <=>
               sc[path[Base(path, q) + Rank(T, i)]].of # NoName
  BY DEF Fits, T
<1>11. ASSUME NEW i \in S
       PROVE  r[i] \in NamespaceBlocks <=>
               sc[p[Base(path, q) + Rank(S, i)]].of # NoName
  <2> DEFINE n == Base(path, q) + Rank(S, i)
  <2>1. n \in 1 .. (Len(path) - 1) /\ Base(path, q) + Rank(T, i) = n
    <3>1. /\ Rank(S, i) \in 1 .. Cardinality(S) /\ Rank(T, i) = Rank(S, i)
          /\ Cardinality(S) \in Nat
      BY <1>5
    <3>2. Len(path) = Base(path, q) + Cardinality(S) + 1 /\ Base(path, q) \in {1, 2}
      BY <1>3, <1>5, <1>6
    <3> DEFINE a == Rank(S, i)
    <3> DEFINE c == Cardinality(S)
    <3> DEFINE l == Len(path)
    <3> DEFINE b == Base(path, q)
    <3>3. a \in 1 .. c /\ c \in Nat /\ l = b + c + 1 /\ b \in {1, 2}
      BY <3>1, <3>2
    <3> HIDE DEF a, c, l, b
    <3>4. b + a \in 1 .. (l - 1)
      BY <3>3
    <3> QED BY <3>1, <3>4 DEF a, l, b
  <2>2. i \in T /\ r[i] = q[i]
    BY <1>2
  <2> HIDE DEF n
  <2>3. q[i] \in NamespaceBlocks <=> sc[path[n]].of # NoName
    BY <1>10, <2>1, <2>2
  <2>4. p[n] = path[n]
    BY <1>8, <2>1
  <2> QED BY <2>2, <2>3, <2>4 DEF n
<1>12. Fits(sc, p, r)
  BY <1>6, <1>9, <1>11 DEF Fits, S
<1>13. Last(q) \in NamespaceBlocks <=> sc[Last(path)].of # NoName
  <2>1. Len(q) \in T /\ Base(path, q) + Rank(T, Len(q)) = Len(path)
    BY <1>2, <1>3, <1>5
  <2> QED BY <1>10, <2>1 DEF Last
<1> QED BY <1>6, <1>9, <1>12, <1>13 DEF p, r
-----------------------------------------------------------------------------
(* Namespaces and scopes, side by side. *)

(* The named places of a chain. *)
LEMMA NamedPlaces ==
  ASSUME NEW sc, NEW path \in Seq(Nat)
  PROVE  /\ NamedIn(sc, path) \in SUBSET (1 .. Len(path)) /\ Len(path) \in Nat
         /\ Cardinality(NamedIn(sc, path)) \in Nat
         /\ \A i \in NamedIn(sc, path) :
              Rank(NamedIn(sc, path), i) \in 1 .. Cardinality(NamedIn(sc, path))
<1>1. NamedIn(sc, path) \in SUBSET (1 .. Len(path)) /\ Len(path) \in Nat
  BY DEF NamedIn
<1> QED BY <1>1, RankGrown, RankBounds

(* Nothing but the names of the scopes matters. *)
LEMMA NamesAgree ==
  ASSUME NEW sc, NEW sd, NEW path \in Seq(Nat), NEW ns, Names(sc, path, ns),
         \A i \in ToSet(path) : sd[i].of = sc[i].of
  PROVE  Names(sd, path, ns)
<1>1. \A i \in DOMAIN path : sd[path[i]].of = sc[path[i]].of
  BY DEF ToSet
<1>2. NamedIn(sd, path) = NamedIn(sc, path)
  BY <1>1 DEF NamedIn
<1>3. NamedIn(sc, path) \subseteq DOMAIN path
  BY DEF NamedIn
<1> QED BY <1>1, <1>2, <1>3 DEF Names

(* A scope is entered: with its name, if it has one. *)
LEMMA NamesPushed ==
  ASSUME NEW sc, NEW sd, NEW path \in Seq(Nat), NEW new \in Nat,
         NEW S, NEW ns \in Seq(S), Names(sc, path, ns),
         \A i \in ToSet(path) : sd[i].of = sc[i].of
  PROVE  /\ sd[new].of = NoName => Names(sd, Append(path, new), ns)
         /\ sd[new].of # NoName /\ sd[new].of \in S =>
              Names(sd, Append(path, new), Append(ns, sd[new].of))
<1> DEFINE p == Append(path, new)
<1> DEFINE T == NamedIn(sd, p)
<1> DEFINE A == NamedIn(sd, path)
<1>1. Names(sd, path, ns)
  BY NamesAgree
<1>2. /\ Len(path) \in Nat /\ DOMAIN path = 1 .. Len(path)
      /\ DOMAIN p = 1 .. (Len(path) + 1)
      /\ p[Len(path) + 1] = new
      /\ \A i \in 1 .. Len(path) : p[i] = path[i]
  BY Appended
<1>3. A \in SUBSET (1 .. Len(path)) /\ \A i \in A : Rank(A, i) \in 1 .. Cardinality(A)
  BY NamedPlaces
<1>4. \A i \in 1 .. (Len(path) + 1) : i \in 1 .. Len(path) \/ i = Len(path) + 1
  BY <1>2
<1>5. 1 .. Len(path) \subseteq 1 .. (Len(path) + 1)
      /\ Len(path) + 1 \in 1 .. (Len(path) + 1)
  BY <1>2
<1> HIDE DEF p
<1>6. /\ sd[new].of = NoName => T = A
      /\ sd[new].of # NoName => T = A \cup {Len(path) + 1}
  BY <1>2, <1>4, <1>5 DEF NamedIn
<1> HIDE DEF T, A
<1>7. Len(ns) = Cardinality(A) /\ \A i \in A : ns[Rank(A, i)] = sd[path[i]].of
  BY <1>1 DEF Names, A
<1>8. CASE sd[new].of = NoName
  <2>1. \A i \in T : ns[Rank(T, i)] = sd[p[i]].of
    BY <1>2, <1>3, <1>6, <1>7, <1>8
  <2>2. Names(sd, p, ns)
    BY <1>6, <1>7, <1>8, <2>1 DEF Names, T
  <2> QED BY <1>8, <2>2 DEF p
<1>9. CASE sd[new].of # NoName /\ sd[new].of \in S
  <2> DEFINE ms == Append(ns, sd[new].of)
  <2>1. /\ Cardinality(T) = Cardinality(A) + 1
        /\ \A i \in A : Rank(T, i) = Rank(A, i)
        /\ Rank(T, Len(path) + 1) = Cardinality(A) + 1
    <3>1. T = A \cup {Len(path) + 1}
      BY <1>6, <1>9
    <3> QED BY <1>2, <1>3, <3>1, RankGrown
  <2>2. /\ Len(ms) = Len(ns) + 1 /\ ms[Len(ns) + 1] = sd[new].of
        /\ \A i \in 1 .. Len(ns) : ms[i] = ns[i]
    BY <1>9, Appended
  <2> HIDE DEF ms
  <2>3. ASSUME NEW i \in T PROVE ms[Rank(T, i)] = sd[p[i]].of
    <3>1. CASE i \in A
      <4>1. ms[Rank(A, i)] = ns[Rank(A, i)]
        BY <1>3, <1>7, <2>2, <3>1
      <4> QED BY <1>2, <1>3, <1>7, <2>1, <3>1, <4>1
    <3>2. CASE i = Len(path) + 1
      BY <1>2, <1>7, <2>1, <2>2, <3>2
    <3> QED BY <1>6, <1>9, <3>1, <3>2
  <2>4. Names(sd, p, ms)
    BY <1>7, <2>1, <2>2, <2>3 DEF Names, T
  <2> QED BY <1>9, <2>4 DEF p, ms
<1> QED BY <1>8, <1>9

(* A scope is left: with its name, if it has one. *)
LEMMA NamesPopped ==
  ASSUME NEW sc, NEW path \in Seq(Nat), path # <<>>,
         NEW S, NEW ns \in Seq(S), Names(sc, path, ns)
  PROVE  /\ sc[Last(path)].of = NoName => Names(sc, Front(path), ns)
         /\ sc[Last(path)].of # NoName =>
              Front(ns) \in Seq(S) /\ Names(sc, Front(path), Front(ns))
<1> DEFINE p == Front(path)
<1> DEFINE n == Len(path) - 1
<1> DEFINE T == NamedIn(sc, path)
<1> DEFINE A == NamedIn(sc, p)
<1>1. /\ p \in Seq(Nat) /\ Len(path) \in Nat /\ Len(path) >= 1 /\ Len(p) = Len(path) - 1
      /\ DOMAIN path = 1 .. Len(path) /\ DOMAIN p = 1 .. n
      /\ \A i \in 1 .. n : p[i] = path[i]
  BY Fronts
<1>2. n \in Nat /\ Len(path) = n + 1
  BY <1>1
<1>3. A \in SUBSET (1 .. n) /\ Cardinality(A) \in Nat
      /\ \A i \in A : Rank(A, i) \in 1 .. Cardinality(A)
  BY <1>1, NamedPlaces
<1> HIDE DEF p, n
<1>4. \A i \in 1 .. (n + 1) : i \in 1 .. n \/ i = n + 1
  BY <1>2
<1>5. 1 .. n \subseteq 1 .. (n + 1) /\ n + 1 \in 1 .. (n + 1)
  BY <1>2
<1>6. /\ sc[path[n + 1]].of = NoName => T = A
      /\ sc[path[n + 1]].of # NoName => T = A \cup {n + 1}
  BY <1>1, <1>2, <1>4, <1>5 DEF NamedIn
<1>7. Last(path) = path[n + 1]
  BY <1>2 DEF Last
<1> HIDE DEF T, A
<1>8. Len(ns) = Cardinality(T) /\ \A i \in T : ns[Rank(T, i)] = sc[path[i]].of
  BY DEF Names, T
<1>9. CASE sc[path[n + 1]].of = NoName
  <2>1. \A i \in A : ns[Rank(A, i)] = sc[p[i]].of
    BY <1>1, <1>3, <1>6, <1>8, <1>9
  <2>2. Names(sc, p, ns)
    BY <1>6, <1>8, <1>9, <2>1 DEF Names, A
  <2> QED BY <1>7, <1>9, <2>2 DEF p
<1>10. CASE sc[path[n + 1]].of # NoName
  <2> DEFINE ms == Front(ns)
  <2>1. /\ Cardinality(T) = Cardinality(A) + 1
        /\ \A i \in A : Rank(T, i) = Rank(A, i)
    <3>1. T = A \cup {n + 1}
      BY <1>6, <1>10
    <3> QED BY <1>2, <1>3, <3>1, RankGrown
  <2>2. ns # <<>>
    BY <1>3, <1>8, <2>1
  <2>3. /\ ms \in Seq(S) /\ Len(ms) = Len(ns) - 1
        /\ \A i \in 1 .. (Len(ns) - 1) : ms[i] = ns[i]
    BY <2>2, Fronts
  <2> HIDE DEF ms
  <2>4. Len(ms) = Cardinality(A)
    BY <1>3, <1>8, <2>1, <2>3
  <2>5. ASSUME NEW i \in A PROVE ms[Rank(A, i)] = sc[p[i]].of
    <3>1. Rank(A, i) \in 1 .. (Len(ns) - 1)
      BY <1>3, <1>8, <2>1
    <3>2. ms[Rank(A, i)] = ns[Rank(T, i)]
      BY <2>1, <2>3, <3>1
    <3>3. i \in T /\ p[i] = path[i]
      BY <1>1, <1>3, <1>6, <1>10
    <3> QED BY <1>8, <3>2, <3>3
  <2>6. Names(sc, p, ms)
    BY <2>4, <2>5 DEF Names, A
  <2> QED BY <1>7, <1>10, <2>3, <2>6 DEF p, ms
<1> QED BY <1>9, <1>10

(* A chain without a name has no namespace. *)
LEMMA NoNames ==
  ASSUME NEW sc, NEW path \in Seq(Nat), \A i \in DOMAIN path : sc[path[i]].of = NoName,
         NEW S, NEW ns \in Seq(S)
  PROVE  Names(sc, path, ns) <=> ns = <<>>
<1>1. NamedIn(sc, path) = {}
  BY DEF NamedIn
<1>2. Len(ns) = 0 <=> ns = <<>>
  BY EmptySeq
<1> QED BY <1>1, <1>2, FS_EmptySet DEF Names
-----------------------------------------------------------------------------
(***************************************************************************)
(* The state of the walk.                                                  *)
(***************************************************************************)

(* The chain of a scope is that of its parent and the scope itself, which  *)
(* came later.                                                             *)
InTree(sc, s) ==
  LET path == sc[s].path
  IN /\ path \in Seq(Nat) /\ path # <<>> /\ path[1] = Root /\ Last(path) = s
     /\ \A i \in 1 .. Len(path) - 1 : path[i] \in 1 .. path[i + 1] - 1
     /\ Len(path) > 1 => sc[path[Len(path) - 1]].path = Front(path)
Tree(sc) == \A s \in DOMAIN sc : InTree(sc, s)

(* The scope of a module is one below that of the compiler. *)
GlobalFine(g) ==
  g # Root /\ scopes[g].path = <<Root, g>> /\ scopes[g].of = NoName
GlobalsFine ==
  /\ scopes[Root].of = NoName
  /\ \A m \in DOMAIN modules : GlobalFine(modules[m].global)

(* A module in which no file is walked is where a file left it. *)
AtRest(m) ==
  modules[m].scope \in {Root, modules[m].global} /\ modules[m].namespace = <<>>
RestFine ==
  \A m \in DOMAIN modules :
    phase = "ready" \/ (Walking /\ m # current) => AtRest(m)

Path == scopes[Scope].path

(* The open blocks and the chain of the current scope. *)
BlocksMatch ==
  Walking =>
    /\ BlocksFine(open) /\ Fits(scopes, Path, open)
    /\ Base(Path, open) = 2 => Path[2] = modules[current].global
    /\ open[1] = "module" => Base(Path, open) = 2

(* The namespaces of the modules and the chains of their scopes. *)
NamesMatch ==
  \A m \in DOMAIN modules :
    /\ modules[m].namespace \in Seq(NamespaceNames)
    /\ Names(scopes, scopes[modules[m].scope].path, modules[m].namespace)

(* The inductive invariant of the walk. *)
WalkInv == Tree(scopes) /\ GlobalsFine /\ RestFine /\ BlocksMatch /\ NamesMatch
-----------------------------------------------------------------------------
(* Scopes that are there keep their chains and names. *)
Keeps(sc, sd) ==
  /\ DOMAIN sc \subseteq DOMAIN sd
  /\ \A s \in DOMAIN sc : sd[s].path = sc[s].path /\ sd[s].of = sc[s].of

(* The chain of a scope is made of scopes, the last of them its own. *)
LEMMA TreeChains ==
  ASSUME NEW sc, WellFormed(sc), Tree(sc), NEW s \in DOMAIN sc
  PROVE  /\ InTree(sc, s) /\ sc[s].path \in Seq(Nat) /\ sc[s].path # <<>>
         /\ ToSet(sc[s].path) \subseteq DOMAIN sc
         /\ Len(sc[s].path) \in Nat /\ Len(sc[s].path) >= 1
         /\ DOMAIN sc[s].path = 1 .. Len(sc[s].path)
<1>1. InTree(sc, s) /\ sc[s].path \in Seq(Nat) /\ sc[s].path # <<>>
  BY DEF Tree, InTree
<1>2. ToSet(sc[s].path) \subseteq DOMAIN sc
  BY ChainsHoldScopes DEF Chain
<1>3. Len(sc[s].path) \in Nat /\ Len(sc[s].path) # 0
      /\ DOMAIN sc[s].path = 1 .. Len(sc[s].path)
  BY <1>1, EmptySeq
<1> QED BY <1>1, <1>2, <1>3

(* A scope that is kept stays in the tree. *)
LEMMA InTreeKept ==
  ASSUME NEW sc, WellFormed(sc), Tree(sc), NEW sd, Keeps(sc, sd), NEW s \in DOMAIN sc
  PROVE  InTree(sd, s)
<1> DEFINE path == sc[s].path
<1>1. /\ path \in Seq(Nat) /\ path # <<>> /\ path[1] = Root /\ Last(path) = s
      /\ \A i \in 1 .. Len(path) - 1 : path[i] \in 1 .. path[i + 1] - 1
      /\ Len(path) > 1 => sc[path[Len(path) - 1]].path = Front(path)
  BY DEF Tree, InTree
<1>2. sd[s].path = path
  BY DEF Keeps
<1>3. Len(path) > 1 => sd[path[Len(path) - 1]].path = Front(path)
  <2> SUFFICES ASSUME Len(path) > 1
               PROVE  sd[path[Len(path) - 1]].path = Front(path)
    OBVIOUS
  <2>1. Len(path) - 1 \in DOMAIN path
    <3>1. Len(path) \in Nat /\ DOMAIN path = 1 .. Len(path)
      BY <1>1
    <3> HIDE DEF path
    <3> QED BY <3>1
  <2>2. path[Len(path) - 1] \in DOMAIN sc
    <3>1. ToSet(path) \subseteq DOMAIN sc
      BY TreeChains
    <3> QED BY <2>1, <3>1 DEF ToSet
  <2> QED BY <1>1, <2>2 DEF Keeps
<1> HIDE DEF path
<1> QED BY <1>1, <1>2, <1>3 DEF InTree

(* A tree with the same scopes is one still. *)
LEMMA TreeKept ==
  ASSUME NEW sc, WellFormed(sc), Tree(sc), NEW sd, Keeps(sc, sd), DOMAIN sd = DOMAIN sc
  PROVE  Tree(sd)
BY InTreeKept DEF Tree

(* A scope grows below another one. *)
LEMMA TreeGrown ==
  ASSUME NEW sc, WellFormed(sc), Tree(sc), NEW s \in DOMAIN sc,
         NEW r, r.path = Append(sc[s].path, Len(sc) + 1)
  PROVE  Tree(Append(sc, r)) /\ Keeps(sc, Append(sc, r))
<1> DEFINE sd == Append(sc, r)
<1> DEFINE new == Len(sc) + 1
<1> DEFINE path == sc[s].path
<1>1. /\ Len(sc) \in Nat /\ DOMAIN sc = 1 .. Len(sc) /\ sc \in Seq(ToSet(sc))
  BY DEF WellFormed
<1>2. /\ DOMAIN sd = 1 .. new /\ sd[new] = r /\ new \in Nat
      /\ \A i \in DOMAIN sc : i \in DOMAIN sd /\ sd[i] = sc[i]
  BY <1>1
<1>3. \A i \in DOMAIN sd : i = new \/ i \in DOMAIN sc
  BY <1>1, <1>2
<1> HIDE DEF sd
<1>4. Keeps(sc, sd)
  BY <1>2 DEF Keeps
<1>5. /\ path \in Seq(Nat) /\ Len(path) \in Nat /\ Len(path) >= 1
      /\ path[1] = Root /\ path[Len(path)] = s
      /\ \A i \in 1 .. Len(path) - 1 : path[i] \in 1 .. path[i + 1] - 1
  BY TreeChains DEF InTree, Last
<1>6. s \in 1 .. new - 1
  BY <1>1
<1>7. sd[s].path = path
  BY <1>2
<1> DEFINE p == Append(path, new)
<1>8. sd[new].path = p
  BY <1>2
<1> HIDE DEF path, new
<1>9. /\ p \in Seq(Nat) /\ Len(p) = Len(path) + 1 /\ p[Len(path) + 1] = new
      /\ DOMAIN p = 1 .. (Len(path) + 1)
      /\ \A i \in 1 .. Len(path) : p[i] = path[i]
  BY <1>2, <1>5, Appended
<1> HIDE DEF p
<1>10. p # <<>> /\ p[1] = Root /\ Last(p) = new
  BY <1>5, <1>9 DEF Last
<1>11. ASSUME NEW i \in 1 .. Len(p) - 1
       PROVE  p[i] \in 1 .. p[i + 1] - 1
  <2>1. CASE i = Len(path)
    BY <1>5, <1>6, <1>9, <2>1
  <2>2. CASE i # Len(path)
    <3>1. i \in 1 .. Len(path) - 1 /\ i \in 1 .. Len(path) /\ i + 1 \in 1 .. Len(path)
      BY <1>5, <1>9, <2>2
    <3> QED BY <1>5, <1>9, <3>1
  <2> QED BY <2>1, <2>2
<1>12. sd[p[Len(p) - 1]].path = Front(p)
  <2>1. Len(p) - 1 = Len(path) /\ p[Len(p) - 1] = s
    <3>1. Len(p) - 1 = Len(path)
      BY <1>5, <1>9
    <3>2. Len(path) \in 1 .. Len(path)
      BY <1>5
    <3>3. p[Len(path)] = s
      BY <1>5, <1>9, <3>2
    <3> QED BY <3>1, <3>3
  <2>2. Front(p) = path
    <3>1. Len(p) - 1 = Len(path)
      BY <2>1
    <3>2. /\ Front(p) \in Seq(Nat) /\ Len(Front(p)) = Len(p) - 1
          /\ \A i \in 1 .. (Len(p) - 1) : Front(p)[i] = p[i]
      BY <1>9, <1>10, Fronts
    <3>3. /\ Front(p) \in Seq(Nat) /\ Len(Front(p)) = Len(path)
          /\ \A i \in 1 .. Len(path) : Front(p)[i] = path[i]
      BY <1>9, <3>1, <3>2
    <3> QED BY <1>5, <3>3, SeqEqual
  <2> QED BY <1>7, <2>1, <2>2
<1>13. InTree(sd, new)
  BY <1>8, <1>9, <1>10, <1>11, <1>12 DEF InTree
<1>14. Tree(sd)
  BY <1>3, <1>4, <1>13, InTreeKept DEF Tree
<1> QED BY <1>4, <1>14 DEF sd

(* What is known while a file is walked. *)
LEMMA WalkFacts ==
  ASSUME Inv, WalkInv, Walking
  PROVE  /\ current \in DOMAIN modules /\ Scope \in DOMAIN scopes
         /\ Path \in Seq(Nat) /\ Path # <<>> /\ Len(Path) \in Nat /\ Len(Path) >= 1
         /\ Path[1] = Root /\ Last(Path) = Scope /\ ToSet(Path) \subseteq DOMAIN scopes
         /\ BlocksFine(open) /\ Fits(scopes, Path, open)
         /\ Namespace \in Seq(NamespaceNames) /\ Names(scopes, Path, Namespace)
         /\ WellFormed(scopes)
<1>1. current \in DOMAIN modules /\ Scope \in DOMAIN scopes /\ WellFormed(scopes)
  BY CurrentScope DEF Inv
<1>2. InTree(scopes, Scope) /\ ToSet(Path) \subseteq DOMAIN scopes
      /\ Path \in Seq(Nat) /\ Path # <<>> /\ Len(Path) \in Nat /\ Len(Path) >= 1
  BY <1>1, TreeChains DEF WalkInv, Path
<1>3. Path[1] = Root /\ Last(Path) = Scope
  BY <1>2 DEF InTree, Path
<1>4. BlocksFine(open) /\ Fits(scopes, Path, open)
  BY DEF WalkInv, BlocksMatch
<1>5. Namespace \in Seq(NamespaceNames) /\ Names(scopes, Path, Namespace)
  BY <1>1 DEF WalkInv, NamesMatch, Namespace, Path, Scope
<1> QED BY <1>1, <1>2, <1>3, <1>4, <1>5

(* Only the current module moves, and it stays the same module. *)
LEMMA Moved ==
  ASSUME Inv, Walking, NEW s, NEW n, MoveTo(s, n)
  PROVE  /\ DOMAIN modules' = DOMAIN modules
         /\ \A m \in DOMAIN modules : modules'[m].global = modules[m].global
         /\ \A m \in DOMAIN modules : m # current => modules'[m] = modules[m]
         /\ modules'[current].scope = s /\ modules'[current].namespace = n
<1>1. /\ current \in DOMAIN modules
      /\ modules[current] \in [global : DOMAIN scopes, scope : DOMAIN scopes,
                               namespace : {modules[current].namespace}]
  BY CurrentScope DEF Inv, ModulesFine
<1>2. DOMAIN modules' = DOMAIN modules
      /\ \A m \in DOMAIN modules : m # current => modules'[m] = modules[m]
  BY DEF MoveTo
<1>3. modules'[current] = [[modules[current] EXCEPT !.scope = s] EXCEPT !.namespace = n]
  BY <1>1 DEF MoveTo
<1>4. ASSUME NEW r \in [global : DOMAIN scopes, scope : DOMAIN scopes,
                        namespace : {modules[current].namespace}]
      PROVE  LET q == [[r EXCEPT !.scope = s] EXCEPT !.namespace = n]
             IN q.global = r.global /\ q.scope = s /\ q.namespace = n
  OBVIOUS
<1>5. /\ modules'[current].global = modules[current].global
      /\ modules'[current].scope = s /\ modules'[current].namespace = n
  BY <1>1, <1>3, <1>4
<1> QED BY <1>2, <1>5
-----------------------------------------------------------------------------
(***************************************************************************)
(* What a step may do to the walk.                                         *)
(***************************************************************************)

(* The same blocks have scopes. *)
SameBlocks(q, r) ==
  /\ BlocksFine(r) /\ Bottom(r) = Bottom(q) /\ ScopedIn(r) = ScopedIn(q)
  /\ \A i \in ScopedIn(q) : q[i] \in NamespaceBlocks <=> r[i] \in NamespaceBlocks

(* The scopes of the modules are kept. *)
LEMMA GlobalsKept ==
  ASSUME Inv, WalkInv, Keeps(scopes, scopes'), DOMAIN modules' = DOMAIN modules,
         \A m \in DOMAIN modules : modules'[m].global = modules[m].global
  PROVE  GlobalsFine'
<1>1. Root \in DOMAIN scopes
  BY DEF Inv, WellFormed
<1>2. \A m \in DOMAIN modules : modules[m].global \in DOMAIN scopes
  BY DEF Inv, ModulesFine
<1>3. /\ scopes'[Root].of = scopes[Root].of
      /\ \A m \in DOMAIN modules :
           /\ scopes'[modules[m].global].path = scopes[modules[m].global].path
           /\ scopes'[modules[m].global].of = scopes[modules[m].global].of
  BY <1>1, <1>2 DEF Keeps
<1> QED BY <1>3, ZenonT(60) DEF WalkInv, GlobalsFine, GlobalFine

(* The namespaces of modules that stay where they are. *)
LEMMA NamesKept ==
  ASSUME Inv, WalkInv, Keeps(scopes, scopes'), NEW m \in DOMAIN modules,
         modules'[m] = modules[m]
  PROVE  /\ modules'[m].namespace \in Seq(NamespaceNames)
         /\ Names(scopes', scopes'[modules'[m].scope].path, modules'[m].namespace)
<1> DEFINE path == scopes[modules[m].scope].path
<1>1. modules[m].scope \in DOMAIN scopes /\ WellFormed(scopes) /\ Tree(scopes)
  BY DEF Inv, ModulesFine, WalkInv
<1>2. path \in Seq(Nat) /\ ToSet(path) \subseteq DOMAIN scopes
  BY <1>1, TreeChains
<1>3. Names(scopes, path, modules[m].namespace)
  BY DEF WalkInv, NamesMatch
<1>4. scopes'[modules[m].scope].path = path
  BY <1>1 DEF Keeps
<1> HIDE DEF path
<1>5. \A i \in ToSet(path) : scopes'[i].of = scopes[i].of
  BY <1>2 DEF Keeps
<1>6. Names(scopes', path, modules[m].namespace)
  BY <1>2, <1>3, <1>5, NamesAgree
<1> QED BY <1>4, <1>6 DEF WalkInv, NamesMatch

(* The modules and the chains stay as they are. *)
LEMMA StaysKeeps ==
  ASSUME Inv, WalkInv, Keeps(scopes, scopes'), DOMAIN scopes' = DOMAIN scopes,
         modules' = modules
  PROVE  Tree(scopes)' /\ GlobalsFine' /\ NamesMatch'
<1>1. Tree(scopes')
  BY TreeKept DEF Inv, WalkInv
<1>2. GlobalsFine'
  BY GlobalsKept
<1>3. NamesMatch'
  BY NamesKept DEF NamesMatch
<1> QED BY <1>1, <1>2, <1>3

(* A node is visited, or a block without a scope comes or goes. *)
LEMMA VisitWalks ==
  ASSUME Inv, WalkInv, Walking, phase' = "walking", Keeps(scopes, scopes'),
         DOMAIN scopes' = DOMAIN scopes, UNCHANGED <<modules, current>>,
         SameBlocks(open, open')
  PROVE  WalkInv'
<1>1. /\ Scope \in DOMAIN scopes /\ Path \in Seq(Nat) /\ ToSet(Path) \subseteq DOMAIN scopes
      /\ BlocksFine(open) /\ Fits(scopes, Path, open)
  BY WalkFacts
<1>2. Path' = Path
  BY <1>1 DEF Path, Scope, Keeps
<1>3. \A i \in ToSet(Path) : scopes'[i].of = scopes[i].of
  BY <1>1 DEF Keeps
<1>4. open \in Seq(Kinds)
  BY <1>1 DEF BlocksFine
<1>5. Fits(scopes', Path, open') /\ Base(Path, open') = Base(Path, open)
  BY <1>1, <1>3, <1>4, FitsAgree DEF SameBlocks
<1>6. (open'[1] = "module") <=> (open[1] = "module")
  BY DEF SameBlocks, Bottom
<1>7. BlocksMatch'
  BY <1>2, <1>5, <1>6 DEF WalkInv, BlocksMatch, SameBlocks
<1>8. RestFine'
  BY DEF WalkInv, RestFine, AtRest, Walking
<1> QED BY <1>7, <1>8, StaysKeeps DEF WalkInv

(* The walk is over. *)
LEMMA OverWalks ==
  ASSUME Inv, WalkInv, phase' \notin {"ready", "walking"}, Keeps(scopes, scopes'),
         DOMAIN scopes' = DOMAIN scopes, modules' = modules
  PROVE  WalkInv'
<1>1. RestFine' /\ BlocksMatch'
  BY DEF RestFine, BlocksMatch, Walking
<1> QED BY <1>1, StaysKeeps DEF WalkInv

(* A block is entered with its scope. *)
LEMMA PushWalks ==
  ASSUME Inv, WalkInv, Walking, phase' = "walking", current' = current,
         NEW sc, WellFormed(sc), Keeps(scopes, sc), Len(sc) = Len(scopes),
         DOMAIN sc = DOMAIN scopes,
         NEW r, r.path = Append(Path, NextId), scopes' = Append(sc, r),
         NEW q, SameBlocks(open, q), NEW k \in ScopedBlocks, open' = Append(q, k),
         k \in NamespaceBlocks <=> r.of # NoName,
         NEW ns, MoveTo(NextId, ns),
         \/ r.of = NoName /\ ns = Namespace
         \/ r.of \in NamespaceNames /\ r.of # NoName /\ ns = Append(Namespace, r.of)
  PROVE  WalkInv'
<1>1. /\ Scope \in DOMAIN scopes /\ Path \in Seq(Nat) /\ ToSet(Path) \subseteq DOMAIN scopes
      /\ BlocksFine(open) /\ Fits(scopes, Path, open) /\ current \in DOMAIN modules
      /\ Namespace \in Seq(NamespaceNames) /\ Names(scopes, Path, Namespace)
      /\ Path[1] = Root /\ Len(Path) \in Nat /\ Len(Path) >= 1
  BY WalkFacts
<1>2. sc[Scope].path = Path
  BY <1>1 DEF Keeps, Path
<1>3. Tree(sc)
  BY TreeKept DEF Inv, WalkInv
<1>4. Tree(scopes') /\ Keeps(sc, scopes')
  BY <1>1, <1>2, <1>3, TreeGrown DEF NextId
<1>5. Keeps(scopes, scopes')
  BY <1>4 DEF Keeps
<1>6. /\ DOMAIN modules' = DOMAIN modules
      /\ \A m \in DOMAIN modules : modules'[m].global = modules[m].global
      /\ \A m \in DOMAIN modules : m # current => modules'[m] = modules[m]
      /\ modules'[current].scope = NextId /\ modules'[current].namespace = ns
  BY Moved
<1>7. GlobalsFine'
  BY <1>5, <1>6, GlobalsKept
<1>8. RestFine'
  BY <1>6 DEF WalkInv, RestFine, AtRest, Walking
<1>9. scopes'[NextId] = r /\ NextId \in Nat /\ NextId \in DOMAIN scopes'
  BY DEF NextId, Inv, WellFormed
<1>10. Path' = Append(Path, NextId)
  BY <1>6, <1>9 DEF Path, Scope
<1>11. \A i \in ToSet(Path) : scopes'[i].of = scopes[i].of
  BY <1>1, <1>5 DEF Keeps
<1>12. BlocksFine(q) /\ Fits(scopes, Path, q) /\ Base(Path, q) = Base(Path, open)
  <2>1. /\ BlocksFine(q) /\ ScopedIn(q) = ScopedIn(open)
        /\ \A i \in ScopedIn(open) : open[i] \in NamespaceBlocks <=> q[i] \in NamespaceBlocks
    BY DEF SameBlocks
  <2>2. Base(Path, q) = Base(Path, open)
    BY <2>1 DEF Base
  <2>3. Fits(scopes, Path, q)
    BY <1>1, <2>1, <2>2 DEF Fits
  <2> QED BY <2>1, <2>2, <2>3
<1>13. Fits(scopes', Path', open') /\ Base(Path', open') = Base(Path, q)
  <2> DEFINE sd == scopes'
  <2>1. k \in NamespaceBlocks <=> sd[NextId].of # NoName
    BY <1>9
  <2>2. \A i \in ToSet(Path) : sd[i].of = scopes[i].of
    BY <1>11
  <2> HIDE DEF sd
  <2>3. Entered(scopes, Path, q, NextId, k, sd, Path', open')
    BY <1>1, <1>9, <1>10, <1>12, <2>1, <2>2 DEF Entered
  <2>4. Fits(sd, Path', open') /\ Base(Path', open') = Base(Path, q)
    BY <2>3, FitsPushed
  <2> QED BY <2>4 DEF sd
<1>14. BlocksFine(Append(q, k)) /\ Bottom(Append(q, k)) = Bottom(q)
  BY <1>12, BlockPushed
<1>15. (open'[1] = "module") <=> (open[1] = "module")
  BY <1>14 DEF SameBlocks, Bottom
<1>16. BlocksMatch'
  <2>1. BlocksFine(open') /\ Fits(scopes', Path', open')
    BY <1>13, <1>14
  <2>2. Base(Path', open') = Base(Path, open)
    BY <1>12, <1>13
  <2>3. Base(Path, open) = 2 => Len(Path) >= 2
    <3>1. open \in Seq(Kinds)
      BY <1>1 DEF BlocksFine
    <3>2. Cardinality(ScopedIn(open)) \in Nat
          /\ Len(Path) = Base(Path, open) + Cardinality(ScopedIn(open))
      BY <1>1, <3>1, FitsPlace
    <3> QED BY <3>2
  <2>4. Base(Path, open) = 2 => Path'[2] = Path[2]
    <3>1. Len(Path) >= 2 => 2 \in 1 .. Len(Path)
      BY <1>1
    <3> QED BY <1>1, <1>9, <1>10, <2>3, <3>1, Appended
  <2> QED BY <1>6, <1>15, <2>1, <2>2, <2>4, <1>1 DEF WalkInv, BlocksMatch
<1>17. Names(scopes', Path', ns) /\ ns \in Seq(NamespaceNames)
  <2> DEFINE p == Append(Path, NextId)
  <2>1. /\ scopes'[NextId].of = NoName => Names(scopes', p, Namespace)
        /\ scopes'[NextId].of # NoName /\ scopes'[NextId].of \in NamespaceNames =>
             Names(scopes', p, Append(Namespace, scopes'[NextId].of))
    BY <1>1, <1>9, <1>11, NamesPushed
  <2> HIDE DEF p
  <2>2. Path' = p
    BY <1>10 DEF p
  <2>3. CASE r.of = NoName /\ ns = Namespace
    BY <1>1, <1>9, <2>1, <2>2, <2>3
  <2>4. CASE r.of \in NamespaceNames /\ r.of # NoName /\ ns = Append(Namespace, r.of)
    BY <1>1, <1>9, <2>1, <2>2, <2>4
  <2> QED BY <2>3, <2>4
<1>18. NamesMatch'
  <2>1. ASSUME NEW m \in DOMAIN modules
        PROVE  /\ modules'[m].namespace \in Seq(NamespaceNames)
               /\ Names(scopes', scopes'[modules'[m].scope].path, modules'[m].namespace)
    <3>1. CASE m # current
      BY <1>5, <1>6, <3>1, NamesKept
    <3>2. CASE m = current
      BY <1>6, <1>17, <3>2 DEF Path, Scope
    <3> QED BY <3>1, <3>2
  <2> QED BY <1>6, <2>1 DEF NamesMatch
<1> QED BY <1>4, <1>7, <1>8, <1>16, <1>18 DEF WalkInv

(* A block is left with its scope. *)
LEMMA PopWalks ==
  ASSUME Inv, WalkInv, Walking, phase' = "walking", UNCHANGED <<scopes, current>>,
         Top \in ScopedBlocks, open' = Front(open), NEW ns, MoveTo(Popped(current), ns),
         \/ Top \in NamespaceBlocks /\ ns = Front(Namespace)
         \/ Top \notin NamespaceBlocks /\ ns = Namespace
  PROVE  WalkInv'
<1> DEFINE out == Popped(current)
<1>1. /\ Scope \in DOMAIN scopes /\ Path \in Seq(Nat) /\ Path # <<>>
      /\ BlocksFine(open) /\ Fits(scopes, Path, open) /\ current \in DOMAIN modules
      /\ Namespace \in Seq(NamespaceNames) /\ Names(scopes, Path, Namespace)
      /\ Path[1] = Root /\ Last(Path) = Scope /\ Len(Path) \in Nat
  BY WalkFacts
<1>2. /\ Len(Path) > 1 /\ Fits(scopes, Front(Path), Front(open))
      /\ Base(Front(Path), Front(open)) = Base(Path, open)
      /\ Top \in NamespaceBlocks <=> scopes[Last(Path)].of # NoName
  BY <1>1, FitsPopped DEF Top
<1>3. out = Path[Len(Path) - 1]
  <2> DEFINE n == Len(Path)
  <2>1. n # 1
    <3>1. n \in Nat /\ n > 1
      BY <1>1, <1>2
    <3> HIDE DEF n
    <3> QED BY <3>1
  <2> QED BY <2>1 DEF Popped, Path, Scope
<1>4. scopes[out].path = Front(Path)
  <2>1. InTree(scopes, Scope)
    BY <1>1 DEF WalkInv, Tree
  <2> QED BY <1>2, <1>3, <2>1 DEF InTree, Path
<1> HIDE DEF out
<1>5. /\ DOMAIN modules' = DOMAIN modules
      /\ \A m \in DOMAIN modules : modules'[m].global = modules[m].global
      /\ \A m \in DOMAIN modules : m # current => modules'[m] = modules[m]
      /\ modules'[current].scope = out /\ modules'[current].namespace = ns
  BY Moved DEF out
<1>6. Keeps(scopes, scopes')
  BY DEF Keeps
<1>7. GlobalsFine'
  BY <1>5, <1>6, GlobalsKept
<1>8. RestFine'
  BY <1>5 DEF WalkInv, RestFine, AtRest, Walking
<1>9. Path' = Front(Path)
  BY <1>4, <1>5 DEF Path, Scope
<1>10. BlocksFine(Front(open)) /\ Bottom(Front(open)) = Bottom(open)
  BY <1>1, BlockPopped DEF Top
<1>11. (open'[1] = "module") <=> (open[1] = "module")
  BY <1>10 DEF Bottom
<1>12. BlocksMatch'
  <2>1. BlocksFine(open') /\ Fits(scopes', Path', open')
    BY <1>2, <1>9, <1>10
  <2>2. Base(Path', open') = Base(Path, open)
    BY <1>2, <1>9
  <2>3. Base(Path, open) = 2 => Path'[2] = Path[2]
    <3> SUFFICES ASSUME Base(Path, open) = 2 PROVE Path'[2] = Path[2]
      OBVIOUS
    <3>1. open' \in Seq(Kinds) /\ open \in Seq(Kinds)
      BY <1>1, <2>1 DEF BlocksFine
    <3>2. Path' \in Seq(Nat) /\ Len(Path') = Len(Path) - 1 /\ Len(Path) \in Nat
          /\ \A i \in 1 .. Len(Path) - 1 : Path'[i] = Path[i]
      BY <1>1, <1>9, Fronts
    <3>3. Len(Path) - 1 >= 2
      <4>1. Cardinality(ScopedIn(Front(open))) \in Nat
            /\ Len(Front(Path)) = Base(Front(Path), Front(open))
                                    + Cardinality(ScopedIn(Front(open)))
        BY <1>2, <1>9, <3>1, <3>2, FitsPlace
      <4> QED BY <1>2, <1>9, <3>2, <4>1
    <3>4. 2 \in 1 .. Len(Path) - 1
      BY <3>2, <3>3
    <3> QED BY <3>2, <3>4
  <2> QED BY <1>1, <1>5, <1>11, <2>1, <2>2, <2>3 DEF WalkInv, BlocksMatch
<1>13. Names(scopes', Path', ns) /\ ns \in Seq(NamespaceNames)
  <2>1. /\ scopes[Last(Path)].of = NoName => Names(scopes, Front(Path), Namespace)
        /\ scopes[Last(Path)].of # NoName =>
             /\ Front(Namespace) \in Seq(NamespaceNames)
             /\ Names(scopes, Front(Path), Front(Namespace))
    BY <1>1, NamesPopped
  <2> QED BY <1>1, <1>2, <1>9, <2>1
<1>14. NamesMatch'
  <2>1. ASSUME NEW m \in DOMAIN modules
        PROVE  /\ modules'[m].namespace \in Seq(NamespaceNames)
               /\ Names(scopes', scopes'[modules'[m].scope].path, modules'[m].namespace)
    <3>1. CASE m # current
      BY <1>5, <1>6, <3>1, NamesKept
    <3>2. CASE m = current
      BY <1>5, <1>13, <3>2 DEF Path, Scope
    <3> QED BY <3>1, <3>2
  <2> QED BY <1>5, <2>1 DEF NamesMatch
<1>15. Tree(scopes')
  BY DEF WalkInv
<1> QED BY <1>7, <1>8, <1>12, <1>14, <1>15 DEF WalkInv

(* A module at the foot of its chain has no namespace. *)
LEMMA RestNames ==
  ASSUME NEW sc, NEW g, NEW s, NEW ns \in Seq(NamespaceNames), sc[Root].of = NoName,
         sc[Root].path = <<Root>>, sc[g].path = <<Root, g>>, sc[g].of = NoName,
         s \in {Root, g}
  PROVE  Names(sc, sc[s].path, ns) <=> ns = <<>>
<1>1. CASE s = Root
  <2> DEFINE p == <<Root>>
  <2>1. p \in Seq(Nat) /\ DOMAIN p = {1} /\ p[1] = Root
    BY DEF Root
  <2> HIDE DEF p
  <2>2. \A i \in DOMAIN p : sc[p[i]].of = NoName
    BY <2>1
  <2>3. Names(sc, p, ns) <=> ns = <<>>
    BY <2>1, <2>2, NoNames
  <2> QED BY <1>1, <2>3 DEF p
<1>2. CASE s = g
  <2> DEFINE p == <<Root, g>>
  <2>1. DOMAIN p = {1, 2} /\ p[1] = Root /\ p[2] = g
    OBVIOUS
  <2>2. sc[s].path = p
    BY <1>2
  <2> HIDE DEF p
  <2>3. \A i \in DOMAIN p : sc[p[i]].of = NoName
    BY <2>1
  <2>4. NamedIn(sc, p) = {}
    BY <2>3 DEF NamedIn
  <2>5. Len(ns) = 0 <=> ns = <<>>
    BY EmptySeq
  <2> QED BY <2>2, <2>4, <2>5, FS_EmptySet DEF Names
<1> QED BY <1>1, <1>2

(* When only the block of the file is open, the walk is at the foot of the *)
(* chain, and outside of all namespaces.                                   *)
LEMMA AtFoot ==
  ASSUME Inv, WalkInv, Walking, Top \in FileBlocks
  PROVE  /\ Popped(current) \in {Root, modules[current].global}
         /\ Namespace = <<>>
<1> DEFINE g == modules[current].global
<1>1. /\ Scope \in DOMAIN scopes /\ BlocksFine(open) /\ Fits(scopes, Path, open)
      /\ current \in DOMAIN modules /\ Path[1] = Root /\ Last(Path) = Scope
      /\ Namespace \in Seq(NamespaceNames) /\ Names(scopes, Path, Namespace)
  BY WalkFacts
<1>2. /\ open \in Seq(Kinds) /\ Len(open) \in Nat /\ Bottom(open) \in {1, 2}
      /\ Bottom(open) <= Len(open) /\ open[Bottom(open)] \in FileBlocks
      /\ DOMAIN open = 1 .. Len(open)
  BY <1>1 DEF BlocksFine, Bottom
<1>3. Len(open) = Bottom(open)
  <2>1. Top \notin ScopedBlocks \cup {"record"}
    BY DEF FileBlocks, ScopedBlocks, NamespaceBlocks
  <2>2. Len(open) > Bottom(open) => Top \in ScopedBlocks \cup {"record"}
    BY <1>1, <1>2 DEF BlocksFine, Top, Last
  <2> QED BY <1>2, <2>1, <2>2
<1>4. ScopedIn(open) = {}
  <2>1. ASSUME NEW i \in 1 .. Len(open) PROVE open[i] \notin ScopedBlocks
    <3>1. i = Bottom(open) \/ (i = 1 /\ Bottom(open) = 2)
      BY <1>2, <1>3
    <3>2. open[i] \in FileBlocks \cup {"module"}
      BY <1>2, <3>1 DEF Bottom
    <3> QED BY <3>2 DEF FileBlocks, ScopedBlocks, NamespaceBlocks
  <2> QED BY <1>2, <2>1 DEF ScopedIn
<1>5. Len(Path) \in {1, 2} /\ (Len(Path) = 2 => Path[2] = g)
  <2>1. Cardinality(ScopedIn(open)) = 0 /\ Path \in Seq(Nat) /\ Len(Path) \in Nat
    BY <1>4, FS_EmptySet, WalkFacts
  <2>2. Base(Path, open) = Len(Path)
    BY <2>1 DEF Base
  <2> QED BY <1>1, <2>2 DEF Fits, WalkInv, BlocksMatch
<1>6. Scope \in {Root, g} /\ Popped(current) \in {Root, g}
  <2>1. CASE Len(Path) = 1
    <3>1. Popped(current) = g
      BY <2>1 DEF Popped, Path, Scope
    <3> QED BY <1>1, <2>1, <3>1 DEF Last
  <2>2. CASE Len(Path) = 2
    <3>1. Popped(current) = Path[1]
      <4>1. Popped(current) = Path[Len(Path) - 1]
        BY <2>2 DEF Popped, Path, Scope
      <4> QED BY <2>2, <4>1
    <3> QED BY <1>1, <1>5, <2>2, <3>1 DEF Last
  <2> QED BY <1>5, <2>1, <2>2
<1>7. /\ scopes[Root].of = NoName /\ scopes[Root].path = <<Root>>
      /\ scopes[g].path = <<Root, g>> /\ scopes[g].of = NoName
  BY <1>1 DEF WalkInv, GlobalsFine, GlobalFine, Inv, WellFormed
<1> HIDE DEF g
<1>8. Namespace = <<>>
  BY <1>1, <1>6, <1>7, RestNames DEF Path
<1> QED BY <1>6, <1>8 DEF g

(* A file ends where it may have begun. *)
LEMMA EndWalks ==
  ASSUME Inv, WalkInv, EndFile
  PROVE  WalkInv'
<1> DEFINE g == modules[current].global
<1> DEFINE out == Popped(current)
<1>1. /\ Walking /\ Top \in FileBlocks /\ MoveTo(out, Namespace) /\ phase' = "ready"
      /\ UNCHANGED <<scopes, current>>
  BY DEF EndFile, Between, FileBlocks
<1>2. out \in {Root, g} /\ Namespace = <<>>
  BY <1>1, AtFoot
<1>3. /\ DOMAIN modules' = DOMAIN modules /\ current \in DOMAIN modules
      /\ \A m \in DOMAIN modules : modules'[m].global = modules[m].global
      /\ \A m \in DOMAIN modules : m # current => modules'[m] = modules[m]
      /\ modules'[current].scope = out /\ modules'[current].namespace = Namespace
  BY <1>1, Moved, WalkFacts
<1>4. Keeps(scopes, scopes')
  BY <1>1 DEF Keeps
<1>5. GlobalsFine'
  BY <1>3, <1>4, GlobalsKept
<1>6. RestFine'
  <2>1. ASSUME NEW m \in DOMAIN modules PROVE AtRest(m)'
    <3>1. CASE m = current
      BY <1>2, <1>3, <3>1 DEF AtRest, Root
    <3>2. CASE m # current
      BY <1>1, <1>3, <3>2 DEF WalkInv, RestFine, AtRest, Root
    <3> QED BY <3>1, <3>2
  <2> QED BY <1>3, <2>1 DEF RestFine
<1>7. /\ scopes[Root].of = NoName /\ scopes[Root].path = <<Root>>
      /\ scopes[g].path = <<Root, g>> /\ scopes[g].of = NoName
      /\ Namespace \in Seq(NamespaceNames)
  BY <1>1, <1>3, WalkFacts DEF WalkInv, GlobalsFine, GlobalFine, Inv, WellFormed
<1> HIDE DEF g, out
<1>8. Names(scopes, scopes[out].path, Namespace)
  BY <1>2, <1>7, RestNames
<1>9. NamesMatch'
  <2>1. ASSUME NEW m \in DOMAIN modules
        PROVE  /\ modules'[m].namespace \in Seq(NamespaceNames)
               /\ Names(scopes', scopes'[modules'[m].scope].path, modules'[m].namespace)
    <3>1. CASE m # current
      BY <1>3, <1>4, <3>1, NamesKept
    <3>2. CASE m = current
      BY <1>1, <1>3, <1>7, <1>8, <3>2
    <3> QED BY <3>1, <3>2
  <2> QED BY <1>3, <2>1 DEF NamesMatch
<1>10. BlocksMatch'
  BY <1>1 DEF BlocksMatch, Walking
<1>11. Tree(scopes')
  BY <1>1 DEF WalkInv
<1> QED BY <1>5, <1>6, <1>9, <1>10, <1>11 DEF WalkInv

(* The scopes of the modules a file brings. *)
LEMMA GlobalsAdded ==
  ASSUME Inv, NEW names \in Seq(ModuleNames), scopes' = scopes \o GlobalScopes(names)
  PROVE  /\ Keeps(scopes, scopes') /\ Len(scopes) \in Nat /\ Len(names) \in Nat
         /\ DOMAIN scopes = 1 .. Len(scopes) /\ DOMAIN names = 1 .. Len(names)
         /\ DOMAIN scopes' = 1 .. (Len(scopes) + Len(names))
         /\ \A i \in 1 .. Len(scopes) : scopes'[i] = scopes[i]
         /\ \A i \in DOMAIN names :
              /\ scopes'[Len(scopes) + i] =
                   NewScope(<<Root>>, Len(scopes) + i, names[i], NoName)
              /\ scopes'[Len(scopes) + i].path = <<Root, Len(scopes) + i>>
              /\ scopes'[Len(scopes) + i].of = NoName
<1> DEFINE G == GlobalScopes(names)
<1> DEFINE S == ToSet(scopes) \cup {G[i] : i \in DOMAIN names}
<1>1. Len(names) \in Nat /\ DOMAIN names = 1 .. Len(names)
  OBVIOUS
<1>2. /\ Len(scopes) \in Nat /\ DOMAIN scopes = 1 .. Len(scopes)
      /\ scopes \in Seq(ToSet(scopes))
  BY DEF Inv, WellFormed
<1>3. \A i \in DOMAIN names :
         G[i] = NewScope(<<Root>>, Len(scopes) + i, names[i], NoName)
  BY DEF GlobalScopes
<1>4. G \in Seq({G[i] : i \in DOMAIN names}) /\ Len(G) = Len(names)
  <2>1. G = [i \in 1 .. Len(names) |-> G[i]]
    BY <1>1 DEF GlobalScopes
  <2> HIDE DEF G
  <2> DEFINE R == {G[i] : i \in DOMAIN names}
  <2>2. G \in [1 .. Len(names) -> R]
    BY <1>1, <2>1
  <2> HIDE DEF R
  <2>3. G \in Seq(R) /\ Len(G) = Len(names)
    BY <1>1, <2>2
  <2> QED BY <2>3 DEF R
<1> HIDE DEF G
<1>5. scopes \in Seq(S) /\ G \in Seq(S)
  <2>1. ToSet(scopes) \subseteq S /\ {G[i] : i \in DOMAIN names} \subseteq S
    OBVIOUS
  <2> HIDE DEF S
  <2> QED BY <1>2, <1>4, <2>1
<1> HIDE DEF S
<1> DEFINE sd == scopes \o G
<1>6. /\ sd \in Seq(S) /\ Len(sd) = Len(scopes) + Len(G)
      /\ \A i \in 1 .. Len(scopes) : sd[i] = scopes[i]
      /\ \A i \in 1 .. Len(G) : sd[Len(scopes) + i] = G[i]
  BY <1>5, Concatenated
<1>7. scopes' = sd
  BY DEF G
<1> HIDE DEF sd
<1>8. DOMAIN sd = 1 .. (Len(scopes) + Len(names))
  <2>1. DOMAIN sd = 1 .. Len(sd)
    BY <1>6
  <2> QED BY <1>4, <1>6, <2>1
<1>9. Keeps(scopes, sd)
  <2>1. \A i \in 1 .. Len(scopes) : i \in 1 .. (Len(scopes) + Len(names))
    BY <1>1, <1>2
  <2> QED BY <1>2, <1>6, <1>8, <2>1 DEF Keeps
<1>10. ASSUME NEW i \in DOMAIN names
       PROVE  /\ sd[Len(scopes) + i] =
                   NewScope(<<Root>>, Len(scopes) + i, names[i], NoName)
              /\ sd[Len(scopes) + i].path = <<Root, Len(scopes) + i>>
              /\ sd[Len(scopes) + i].of = NoName
  <2> DEFINE n == Len(scopes) + i
  <2>1. sd[n] = NewScope(<<Root>>, n, names[i], NoName)
    <3>1. G[i] = NewScope(<<Root>>, n, names[i], NoName)
      BY <1>3
    <3>2. i \in 1 .. Len(G)
      BY <1>1, <1>4
    <3> QED BY <1>6, <3>1, <3>2
  <2> HIDE DEF n
  <2>2. sd[n].path = Append(<<Root>>, n) /\ sd[n].of = NoName
    BY <2>1 DEF NewScope
  <2>3. Append(<<Root>>, n) = <<Root, n>>
    <3> DEFINE p == <<Root>>
    <3> DEFINE q == <<Root, n>>
    <3>1. p \in Seq({Root, n}) /\ Len(p) = 1 /\ p[1] = Root
      OBVIOUS
    <3>2. q \in Seq({Root, n}) /\ Len(q) = 2 /\ q[1] = Root /\ q[2] = n
      OBVIOUS
    <3> HIDE DEF p, q
    <3> DEFINE E == {Root, n}
    <3>3. p \in Seq(E) /\ n \in E
      BY <3>1
    <3> HIDE DEF E
    <3> DEFINE r == Append(p, n)
    <3>4. /\ r \in Seq(E) /\ Len(r) = Len(p) + 1 /\ r[Len(p) + 1] = n
          /\ \A j \in 1 .. Len(p) : r[j] = p[j]
      BY <3>3, Appended
    <3> HIDE DEF r
    <3>5. Len(r) = 2 /\ r[1] = Root /\ r[2] = n
      BY <3>1, <3>4
    <3>6. \A j \in 1 .. 2 : j = 1 \/ j = 2
      OBVIOUS
    <3>7. r = q
      BY <3>2, <3>4, <3>5, <3>6, SameElements DEF E
    <3> QED BY <3>7 DEF p, q, r
  <2> QED BY <2>1, <2>2, <2>3 DEF n
<1> QED BY <1>1, <1>2, <1>6, <1>7, <1>8, <1>9, <1>10

(* The blocks a file begins with. *)
LEMMA FirstBlocks ==
  ASSUME NEW name, NEW q, q = (IF name = NoName THEN <<>> ELSE <<"module">>) \o <<"file">>
  PROVE  /\ BlocksFine(q) /\ ScopedIn(q) = {} /\ Len(q) \in {1, 2}
         /\ q[1] = "module" => name # NoName
<1>1. CASE name = NoName
  <2>1. q = <<"file">>
    <3>1. <<>> \o <<"file">> = <<"file">>
      OBVIOUS
    <3> QED BY <1>1, <3>1
  <2>2. q \in Seq(Kinds) /\ Len(q) = 1 /\ q[1] = "file" /\ DOMAIN q = {1}
    BY <2>1 DEF Kinds
  <2>3. Bottom(q) = 1 /\ \A i \in 1 .. Len(q) : ~ (i > Bottom(q))
    BY <2>2 DEF Bottom
  <2>4. BlocksFine(q)
    BY <2>2, <2>3 DEF BlocksFine, FileBlocks
  <2> QED BY <2>2, <2>4 DEF ScopedIn, ScopedBlocks, NamespaceBlocks
<1>2. CASE name # NoName
  <2> DEFINE p == <<"module">>
  <2> DEFINE r == <<"file">>
  <2>1. /\ p \in Seq(Kinds) /\ r \in Seq(Kinds) /\ Len(p) = 1 /\ Len(r) = 1
        /\ p[1] = "module" /\ r[1] = "file"
    BY DEF Kinds
  <2>2. q = p \o r
    BY <1>2
  <2> HIDE DEF p, r
  <2>3. /\ q \in Seq(Kinds) /\ Len(q) = Len(p) + Len(r)
        /\ \A i \in 1 .. Len(p) : q[i] = p[i]
        /\ \A i \in 1 .. Len(r) : q[Len(p) + i] = r[i]
    BY <2>1, <2>2, Concatenated
  <2>4. Len(q) = 2 /\ q[1] = "module" /\ q[2] = "file"
    BY <2>1, <2>3
  <2>5. DOMAIN q = {1, 2}
    <3>1. DOMAIN q = 1 .. Len(q)
      BY <2>3
    <3> QED BY <2>4, <3>1
  <2>6. Bottom(q) = 2 /\ \A i \in 1 .. Len(q) : ~ (i > Bottom(q))
    BY <2>4 DEF Bottom
  <2>7. BlocksFine(q)
    BY <2>3, <2>4, <2>6 DEF BlocksFine, FileBlocks
  <2> QED BY <1>2, <2>4, <2>5, <2>7 DEF ScopedIn, ScopedBlocks, NamespaceBlocks
<1> QED BY <1>1, <1>2

(* A file begins: in the global scope of its module, if it names one, and  *)
(* all other modules are at rest.                                          *)
LEMMA StartModules ==
  ASSUME Inv, WalkInv, NEW name \in ModuleNames \cup {NoName}, StartFile(name),
         NEW m \in DOMAIN modules'
  PROVE  /\ modules'[m].global \in DOMAIN scopes' /\ GlobalFine(modules[m].global)'
         /\ AtRest(m)' /\ modules'[m].scope \in DOMAIN scopes'
         /\ m = name => modules'[m].scope = modules'[m].global
         /\ m \in DOMAIN modules => modules'[m].global = modules[m].global
<1> DEFINE names == Missing(name)
<1>1. names \in Seq(ModuleNames)
  BY MissingNames
<1>2. scopes' = scopes \o GlobalScopes(names)
  BY DEF StartFile
<1> HIDE DEF names
<1>3. /\ Keeps(scopes, scopes') /\ Len(scopes) \in Nat /\ Len(names) \in Nat
      /\ DOMAIN scopes = 1 .. Len(scopes) /\ DOMAIN names = 1 .. Len(names)
      /\ DOMAIN scopes' = 1 .. (Len(scopes) + Len(names))
      /\ \A i \in DOMAIN names :
           /\ scopes'[Len(scopes) + i].path = <<Root, Len(scopes) + i>>
           /\ scopes'[Len(scopes) + i].of = NoName
  BY <1>1, <1>2, GlobalsAdded
<1>4. /\ DOMAIN modules' = DOMAIN modules \cup ToSet(names) /\ phase = "ready"
      /\ m \in DOMAIN modules => modules'[m] = Found(m, name)
      /\ m \notin DOMAIN modules => modules'[m] = Created(names, m)
  BY DEF StartFile, names
<1>5. Root \in DOMAIN scopes
  BY DEF Inv, WellFormed
<1>6. CASE m \in DOMAIN modules
  <2> DEFINE g == modules[m].global
  <2>1. /\ modules[m] \in [global : DOMAIN scopes, scope : DOMAIN scopes,
                           namespace : {modules[m].namespace}]
        /\ GlobalFine(g) /\ AtRest(m)
    BY <1>4, <1>6 DEF WalkInv, GlobalsFine, RestFine, Inv, ModulesFine
  <2>2. modules'[m] = IF m = name THEN [modules[m] EXCEPT !.scope = modules[m].global]
                      ELSE modules[m]
    BY <1>4, <1>6 DEF Found
  <2>3. ASSUME NEW r \in [global : DOMAIN scopes, scope : DOMAIN scopes,
                           namespace : {modules[m].namespace}]
        PROVE  LET q == [r EXCEPT !.scope = r.global]
               IN q.global = r.global /\ q.scope = r.global /\ q.namespace = r.namespace
    OBVIOUS
  <2>4. /\ modules'[m].global = g /\ modules'[m].namespace = modules[m].namespace
        /\ modules'[m].scope \in {modules[m].scope, g}
        /\ m = name => modules'[m].scope = g
    BY <2>1, <2>2, <2>3
  <2>5. g \in DOMAIN scopes /\ g \in DOMAIN scopes'
    BY <1>3, <2>1 DEF Keeps
  <2>6. scopes'[g].path = scopes[g].path /\ scopes'[g].of = scopes[g].of
    BY <1>3, <2>5 DEF Keeps
  <2> HIDE DEF g
  <2>7. GlobalFine(modules[m].global)'
    BY <2>1, <2>4, <2>6 DEF GlobalFine, Root
  <2>8. AtRest(m)'
    BY <2>1, <2>4 DEF AtRest, Root, g
  <2>9. modules'[m].scope \in DOMAIN scopes'
    BY <1>3, <1>5, <2>5, <2>8, <2>4 DEF AtRest, Keeps, Root
  <2> QED BY <2>4, <2>5, <2>7, <2>8, <2>9 DEF g
<1>7. CASE m \notin DOMAIN modules
  <2> DEFINE i == CHOOSE j \in DOMAIN names : names[j] = m
  <2> DEFINE n == Len(scopes) + i
  <2>1. i \in DOMAIN names
    BY <1>4, <1>7 DEF ToSet
  <2>2. modules'[m] = [global |-> n, scope |-> n, namespace |-> <<>>]
    BY <1>4, <1>7 DEF Created
  <2> HIDE DEF i
  <2>3. scopes'[n].path = <<Root, n>> /\ scopes'[n].of = NoName
    BY <1>3, <2>1
  <2>4. n \in DOMAIN scopes' /\ n # Root
    <3> DEFINE l == Len(names)
    <3> DEFINE k == Len(scopes)
    <3>1. i \in 1 .. l /\ l \in Nat /\ k \in Nat /\ k >= 1
      BY <1>3, <1>5, <2>1 DEF Root
    <3>2. DOMAIN scopes' = 1 .. (k + l)
      BY <1>3
    <3> HIDE DEF l, k
    <3>3. k + i \in 1 .. (k + l) /\ k + i # 1
      BY <3>1
    <3> QED BY <3>2, <3>3 DEF k, Root
  <2> HIDE DEF n
  <2>5. modules'[m].global = n /\ modules'[m].scope = n /\ modules'[m].namespace = <<>>
    BY <2>2
  <2>6. GlobalFine(modules[m].global)' /\ AtRest(m)'
    BY <2>3, <2>4, <2>5 DEF GlobalFine, AtRest, Root
  <2> QED BY <1>7, <2>4, <2>5, <2>6
<1> QED BY <1>6, <1>7

(* A chain of two. *)
LEMMA PairInTree ==
  ASSUME NEW sc, NEW s \in Nat, s > Root, sc[s].path = <<Root, s>>,
         sc[Root].path = <<Root>>
  PROVE  InTree(sc, s) /\ Len(sc[s].path) = 2 /\ sc[s].path[2] = s
<1> DEFINE p == <<Root, s>>
<1>1. p \in Seq(Nat) /\ Len(p) = 2 /\ p[1] = Root /\ p[2] = s /\ p # <<>>
  BY DEF Root
<1>2. sc[s].path = p
  OBVIOUS
<1> HIDE DEF p
<1>3. Front(p) = <<Root>>
  <2> DEFINE f == Front(p)
  <2> DEFINE r == <<Root>>
  <2>1. f \in Seq(Nat) /\ Len(f) = Len(p) - 1 /\ \A i \in 1 .. Len(p) - 1 : f[i] = p[i]
    BY <1>1, Fronts
  <2>2. r \in Seq(Nat) /\ Len(r) = 1 /\ r[1] = Root
    BY DEF Root
  <2> HIDE DEF f, r
  <2>3. Len(f) = 1 /\ f[1] = Root
    BY <1>1, <2>1
  <2>4. \A i \in 1 .. 1 : i = 1
    OBVIOUS
  <2>5. f = r
    BY <2>1, <2>2, <2>3, <2>4, SameElements
  <2> QED BY <2>5 DEF f, r
<1>4. \A i \in 1 .. Len(p) - 1 : p[i] \in 1 .. p[i + 1] - 1
  <2>1. \A i \in 1 .. Len(p) - 1 : i = 1
    BY <1>1
  <2>2. Root \in 1 .. s - 1
    BY DEF Root
  <2> QED BY <1>1, <2>1, <2>2
<1>5. Last(p) = s /\ sc[p[Len(p) - 1]].path = Front(p)
  <2>1. Len(p) - 1 = 1
    BY <1>1
  <2> QED BY <1>1, <1>3, <2>1 DEF Last
<1> QED BY <1>1, <1>2, <1>4, <1>5 DEF InTree

(* The file begins in its module. *)
LEMMA StartWalks ==
  ASSUME Inv, WalkInv, NEW name \in ModuleNames \cup {NoName}, StartFile(name)
  PROVE  WalkInv'
<1> DEFINE names == Missing(name)
<1>1. names \in Seq(ModuleNames)
      /\ (name # NoName => name \in DOMAIN modules \cup ToSet(names))
  BY MissingNames
<1>2. scopes' = scopes \o GlobalScopes(names) /\ phase' = "walking"
  BY DEF StartFile
<1> HIDE DEF names
<1>3. /\ Keeps(scopes, scopes') /\ Len(scopes) \in Nat /\ Len(names) \in Nat
      /\ DOMAIN scopes = 1 .. Len(scopes) /\ DOMAIN names = 1 .. Len(names)
      /\ DOMAIN scopes' = 1 .. (Len(scopes) + Len(names))
      /\ \A i \in DOMAIN names :
           scopes'[Len(scopes) + i].path = <<Root, Len(scopes) + i>>
  BY <1>1, <1>2, GlobalsAdded
<1>4. /\ Root \in DOMAIN scopes /\ scopes'[Root].path = <<Root>>
      /\ scopes'[Root].of = NoName
  <2>1. Root \in DOMAIN scopes /\ scopes[Root].path = <<Root>> /\ scopes[Root].of = NoName
    BY DEF Inv, WellFormed, WalkInv, GlobalsFine
  <2> QED BY <1>3, <2>1 DEF Keeps
<1>5. Inv'
  BY StartFileStep, BuildsKeeps
<1>6. \A m \in DOMAIN modules' :
        /\ modules'[m].global \in DOMAIN scopes' /\ GlobalFine(modules[m].global)'
        /\ AtRest(m)'
        /\ m = name => modules'[m].scope = modules'[m].global
  BY StartModules
<1>7. GlobalsFine' /\ RestFine'
  BY <1>4, <1>6 DEF GlobalsFine, RestFine, Root
<1>8. NamesMatch'
  <2>1. ASSUME NEW m \in DOMAIN modules'
        PROVE  /\ modules'[m].namespace \in Seq(NamespaceNames)
               /\ Names(scopes', scopes'[modules'[m].scope].path, modules'[m].namespace)
    <3> DEFINE sd == scopes'
    <3> DEFINE g == modules'[m].global
    <3> DEFINE s == modules'[m].scope
    <3> DEFINE ns == modules'[m].namespace
    <3>1. s \in {Root, g} /\ ns = <<>> /\ sd[g].path = <<Root, g>> /\ sd[g].of = NoName
      BY <1>6 DEF AtRest, GlobalFine, Root
    <3>2. sd[Root].of = NoName /\ sd[Root].path = <<Root>>
      BY <1>4
    <3>3. ns \in Seq(NamespaceNames)
      BY <3>1
    <3> HIDE DEF sd, g, s, ns
    <3>4. Names(sd, sd[s].path, ns)
      BY <3>1, <3>2, <3>3, RestNames
    <3> QED BY <3>3, <3>4 DEF sd, s, ns
  <2> QED BY <2>1 DEF NamesMatch
<1>9. Tree(scopes')
  <2> SUFFICES ASSUME NEW s \in DOMAIN scopes' PROVE InTree(scopes', s)
    BY DEF Tree
  <2>1. CASE s \in DOMAIN scopes
    BY <1>3, <2>1, InTreeKept DEF Inv, WalkInv
  <2>2. CASE s \notin DOMAIN scopes
    <3> DEFINE k == Len(scopes)
    <3> DEFINE i == s - k
    <3>1. s \in 1 .. (k + Len(names)) /\ s \notin 1 .. k /\ k \in Nat /\ k >= 1
      BY <1>3, <1>4, <2>2 DEF Root
    <3> DEFINE l == Len(names)
    <3>2. l \in Nat
      BY <1>3
    <3> HIDE DEF k, l
    <3>3. i \in 1 .. l /\ k + i = s /\ s \in Nat /\ s > 1
      <4>1. s \in 1 .. (k + l)
        BY <3>1 DEF l
      <4> QED BY <3>1, <3>2, <4>1
    <3> HIDE DEF i
    <3>4. scopes'[s].path = <<Root, s>>
      BY <1>3, <3>3 DEF k, l
    <3> DEFINE sd == scopes'
    <3>5. sd[s].path = <<Root, s>> /\ sd[Root].path = <<Root>> /\ s > Root
      BY <1>4, <3>3, <3>4 DEF Root
    <3> HIDE DEF sd
    <3>6. InTree(sd, s)
      BY <3>3, <3>5, PairInTree
    <3> QED BY <3>6 DEF sd
  <2> QED BY <2>1, <2>2
<1>10. BlocksMatch'
  <2> DEFINE m == current'
  <2> DEFINE g == modules'[m].global
  <2> DEFINE q == open'
  <2> DEFINE path == Path'
  <2> DEFINE sd == scopes'
  <2>1. m \in DOMAIN modules'
    <3>1. Walking'
      BY <1>2 DEF Walking
    <3> QED BY <1>5, <3>1 DEF Inv, ModulesFine
  <2>2. name # NoName => m = name
    BY DEF StartFile
  <2>3. /\ BlocksFine(q) /\ ScopedIn(q) = {}
        /\ q[1] = "module" => name # NoName
    BY FirstBlocks DEF StartFile
  <2>4. /\ path = sd[modules'[m].scope].path /\ modules'[m].scope \in {Root, g}
        /\ name # NoName => modules'[m].scope = g
    BY <1>6, <2>1, <2>2 DEF Path, Scope, AtRest, Root
  <2>5. sd[g].path = <<Root, g>> /\ sd[Root].path = <<Root>>
    BY <1>4, <1>6, <2>1 DEF GlobalFine, Root
  <2> HIDE DEF m, q, path, sd
  <2>6. \/ Len(path) = 1 /\ name = NoName
        \/ Len(path) = 2 /\ path[2] = g
    <3>1. CASE modules'[m].scope = g
      <4>1. path = <<Root, g>>
        BY <2>4, <2>5, <3>1
      <4> HIDE DEF g
      <4> QED BY <4>1
    <3>2. CASE modules'[m].scope # g
      <4>1. path = <<Root>> /\ name = NoName
        BY <2>4, <2>5, <3>2
      <4> QED BY <4>1
    <3> QED BY <3>1, <3>2
  <2> HIDE DEF g
  <2>7. Base(path, q) = Len(path)
    <3>1. Cardinality(ScopedIn(q)) = 0
      BY <2>3, FS_EmptySet
    <3> QED BY <2>6, <3>1 DEF Base
  <2>8. Fits(sd, path, q)
    BY <2>3, <2>6, <2>7 DEF Fits
  <2>9. /\ BlocksFine(q) /\ Fits(sd, path, q)
        /\ Base(path, q) = 2 => path[2] = g
        /\ q[1] = "module" => Base(path, q) = 2
    BY <2>3, <2>6, <2>7, <2>8
  <2> QED BY <2>9 DEF BlocksMatch, m, g, q, path, sd
<1> QED BY <1>7, <1>8, <1>9, <1>10 DEF WalkInv
-----------------------------------------------------------------------------
(***************************************************************************)
(* What the handlers do to the walk.                                       *)
(***************************************************************************)

(* A scope with other things in it. *)
LEMMA ReplaceKeeps ==
  ASSUME NEW sc, NEW s, NEW r, r.path = sc[s].path, r.of = sc[s].of
  PROVE  Keeps(sc, [sc EXCEPT ![s] = r]) /\ DOMAIN [sc EXCEPT ![s] = r] = DOMAIN sc
<1> DEFINE sd == [sc EXCEPT ![s] = r]
<1>1. DOMAIN sd = DOMAIN sc /\ \A i \in DOMAIN sc : sd[i] = IF i = s THEN r ELSE sc[i]
  OBVIOUS
<1> HIDE DEF sd
<1>2. Keeps(sc, sd)
  BY <1>1 DEF Keeps
<1> QED BY <1>1, <1>2 DEF sd

(* The block on top goes on. *)
LEMMA TopSame ==
  ASSUME BlocksFine(open), NEW k \in Kinds, Alike(Top, k)
  PROVE  SameBlocks(open, [open EXCEPT ![Len(open)] = k])
BY TopAlike DEF Top, SameBlocks

(* The block on top after a node. *)
LEMMA BegunAlike ==
  ASSUME BlocksFine(open)
  PROVE  Begun \in Kinds /\ Alike(Top, Begun) /\ Top \in Kinds
<1>1. open \in Seq(Kinds) /\ Len(open) \in 1 .. Len(open)
  BY DEF BlocksFine, Bottom
<1>2. Top \in Kinds
  BY <1>1 DEF Top, Last
<1>3. \/ Top = "file" /\ Begun = "fileBody"
      \/ Top = "namespace" /\ Begun = "namespaceBody"
      \/ Begun = Top
  BY DEF Begun
<1> QED BY <1>2, <1>3 DEF Kinds, Alike, FileBlocks, ScopedBlocks, NamespaceBlocks

(* A record has no scope. *)
LEMMA RecordSame ==
  ASSUME NEW q, SameBlocks(open, q)
  PROVE  SameBlocks(open, Append(q, "record"))
<1> DEFINE r == Append(q, "record")
<1>1. BlocksFine(q) /\ "record" \notin ScopedBlocks
  BY DEF SameBlocks, ScopedBlocks, NamespaceBlocks
<1>2. BlocksFine(r) /\ Bottom(r) = Bottom(q) /\ ScopedIn(r) = ScopedIn(q)
  BY <1>1, BlockPushed
<1>3. /\ DOMAIN q = 1 .. Len(q) /\ "record" \in Kinds /\ q \in Seq(Kinds)
  BY <1>1 DEF BlocksFine, Kinds
<1>4. \A i \in 1 .. Len(q) : r[i] = q[i]
  BY <1>3, Appended
<1> HIDE DEF r
<1>5. \A i \in ScopedIn(q) : r[i] = q[i]
  BY <1>3, <1>4 DEF ScopedIn
<1> QED BY <1>2, <1>5 DEF SameBlocks, r

(* Declarations, sends and nodes that are no blocks. *)
LEMMA NodeWalks ==
  ASSUME Inv, WalkInv, Walking, NEW r, r.path = scopes[Scope].path,
         r.of = scopes[Scope].of, scopes' = [scopes EXCEPT ![Scope] = r],
         Node \/ open' = open, UNCHANGED <<modules, current, phase>>
  PROVE  WalkInv'
<1>1. Keeps(scopes, scopes') /\ DOMAIN scopes' = DOMAIN scopes
  BY ReplaceKeeps
<1>2. SameBlocks(open, open')
  <2>1. BlocksFine(open)
    BY WalkFacts
  <2>2. CASE open' = open
    BY <2>1, <2>2 DEF SameBlocks
  <2>3. CASE Node
    BY <2>1, <2>3, BegunAlike, TopSame DEF Node
  <2> QED BY <2>2, <2>3
<1> QED BY <1>1, <1>2, VisitWalks DEF Walking

(* The build is over. *)
LEMMA StopWalks ==
  ASSUME Inv, WalkInv, Throw \/ Crash
  PROVE  WalkInv'
<1>1. Keeps(scopes, scopes') /\ UNCHANGED <<scopes, modules>>
  BY DEF Throw, Crash, Keeps
<1>2. phase' \notin {"ready", "walking"}
  BY DEF Throw, Crash
<1> QED BY <1>1, <1>2, OverWalks

(* A variable is declared. *)
LEMMA VariableWalks ==
  ASSUME Inv, WalkInv, NEW v, NEW t, Variable(v, t)
  PROVE  WalkInv'
<1>1. Walking
  BY DEF Variable, Between
<1>2. CASE Throw \/ Crash
  BY <1>2, StopWalks
<1>3. CASE /\ scopes' = [scopes EXCEPT ![Scope] =
                           WithVar(scopes[Scope], v, TypeOf(Scope, t))]
           /\ Node /\ UNCHANGED <<modules, current, phase>>
  <2> DEFINE r == WithVar(scopes[Scope], v, TypeOf(Scope, t))
  <2>1. r.path = scopes[Scope].path /\ r.of = scopes[Scope].of
    BY <1>1, CurrentScope, WithVarFields
  <2>2. scopes' = [scopes EXCEPT ![Scope] = r]
    BY <1>3
  <2> HIDE DEF r
  <2> QED BY <1>1, <1>3, <2>1, <2>2, NodeWalks
<1> QED BY <1>2, <1>3 DEF Variable

(* A message is sent. *)
LEMMA SendWalks ==
  ASSUME Inv, WalkInv, Walking, NEW to, NEW msg, NEW args, Send(to, msg, args)
  PROVE  WalkInv'
<1>1. PICK i, type, x :
        /\ scopes' = [scopes EXCEPT ![Scope] =
                        [WithInst(scopes[Scope], i, type) EXCEPT !.sends = x]]
        /\ Node /\ UNCHANGED <<modules, current, phase>>
  BY DEF Send, WithSend
<1> DEFINE r == [WithInst(scopes[Scope], i, type) EXCEPT !.sends = x]
<1>2. r.path = scopes[Scope].path /\ r.of = scopes[Scope].of
  BY CurrentScope, WithInstFields, SendsFields
<1> QED BY <1>1, <1>2, NodeWalks

(* An instance, a literal or another node is visited. *)
LEMMA VisitsWalk ==
  ASSUME Inv, WalkInv, Instance \/ Literal \/ VisitOther
  PROVE  WalkInv'
<1>1. Walking
  BY DEF Instance, Literal, VisitOther, Visits
<1>2. CASE Throw \/ Crash
  BY <1>2, StopWalks
<1>3. ASSUME NEW i, NEW type,
             scopes' = [scopes EXCEPT ![Scope] = WithInst(scopes[Scope], i, type)],
             UNCHANGED <<modules, current, open, phase>>
      PROVE  WalkInv'
  <2> DEFINE r == WithInst(scopes[Scope], i, type)
  <2>1. r.path = scopes[Scope].path /\ r.of = scopes[Scope].of
    BY <1>1, CurrentScope, WithInstFields
  <2>2. scopes' = [scopes EXCEPT ![Scope] = r]
    BY <1>3
  <2> HIDE DEF r
  <2> QED BY <1>1, <1>3, <2>1, <2>2, NodeWalks
<1>4. ASSUME NEW v, NEW i, NEW type, NEW of,
             scopes' = [scopes EXCEPT ![Scope] =
                WithVar(WithInst(scopes[Scope], i, type), v, of)],
             UNCHANGED <<modules, current, open, phase>>
      PROVE  WalkInv'
  <2> DEFINE new == WithInst(scopes[Scope], i, type)
  <2>1. IsScope(new) /\ new.path = scopes[Scope].path /\ new.of = scopes[Scope].of
    BY <1>1, CurrentScope, WithInstFields
  <2> HIDE DEF new
  <2> DEFINE r == WithVar(new, v, of)
  <2>2. r.path = scopes[Scope].path /\ r.of = scopes[Scope].of
    BY <2>1, WithVarFields
  <2>3. scopes' = [scopes EXCEPT ![Scope] = r]
    BY <1>4 DEF new
  <2> HIDE DEF r
  <2> QED BY <1>1, <1>4, <2>2, <2>3, NodeWalks
<1>5. CASE VisitOther
  <2>1. UNCHANGED <<scopes, modules, current, open, phase>>
    BY <1>5 DEF VisitOther
  <2>2. Keeps(scopes, scopes') /\ SameBlocks(open, open')
    BY <1>1, <2>1, WalkFacts DEF Keeps, SameBlocks
  <2> QED BY <1>1, <2>1, <2>2, VisitWalks DEF Walking
<1>6. CASE Instance
  <2>1. CASE Crash
    BY <1>2, <2>1
  <2>2. CASE ~Crash
    <3>1. PICK v, type :
            /\ \/ scopes' = [scopes EXCEPT ![Scope] = WithInst(scopes[Scope], v, type)]
               \/ scopes' = [scopes EXCEPT ![Scope] =
                               WithVar(WithInst(scopes[Scope], v, type), v, type)]
            /\ UNCHANGED <<modules, current, open, phase>>
      BY <1>6, <2>2 DEF Instance
    <3> QED BY <1>3, <1>4, <3>1, SMTT(40)
  <2> QED BY <2>1, <2>2
<1>7. CASE Literal
  BY <1>2, <1>3, <1>7 DEF Literal
<1> QED BY <1>5, <1>6, <1>7

(* A block with a scope is entered. *)
LEMMA EnterWalks ==
  ASSUME Inv, WalkInv, Walking, NEW sc, WellFormed(sc), Keeps(scopes, sc),
         Len(sc) = Len(scopes), DOMAIN sc = DOMAIN scopes,
         NEW r, r.path = Append(Path, NextId), Push(<<sc, r>>),
         NEW t \in Kinds, Alike(Top, t), NEW k \in ScopedBlocks, Enter(k, t),
         k \in NamespaceBlocks <=> r.of # NoName,
         NEW ns, MoveTo(NextId, ns),
         \/ r.of = NoName /\ ns = Namespace
         \/ r.of \in NamespaceNames /\ r.of # NoName /\ ns = Append(Namespace, r.of)
  PROVE  WalkInv'
<1> DEFINE q == [open EXCEPT ![Len(open)] = t]
<1>1. /\ scopes' = Append(sc, r) /\ current' = current /\ phase' = "walking"
      /\ open' = Append(q, k)
  BY DEF Push, Enter, Walking
<1>2. SameBlocks(open, q)
  BY TopSame, WalkFacts
<1> HIDE DEF q
<1> QED BY <1>1, <1>2, PushWalks

(* A namespace is entered. *)
LEMMA EnterNamespaceWalks ==
  ASSUME Inv, WalkInv, NEW n \in NamespaceNames, EnterNamespace(n)
  PROVE  WalkInv'
<1> DEFINE r == Inner(n)
<1> DEFINE t == IF Top = "file" THEN "file" ELSE "full"
<1> DEFINE k == "namespace"
<1> DEFINE ns == Append(Namespace, n)
<1>1. Walking
  BY DEF EnterNamespace, Between
<1>2. r.path = Append(Path, NextId) /\ r.of = n
  BY <1>1, InnerFields DEF Path
<1>3. n # NoName
  BY ScopesAssumption
<1>4. t \in Kinds /\ Alike(Top, t)
  BY DEF EnterNamespace, Kinds, Alike, FileBlocks, ScopedBlocks, NamespaceBlocks
<1>5. k \in NamespaceBlocks /\ k \in ScopedBlocks
  BY DEF NamespaceBlocks, ScopedBlocks
<1>6. Push(<<scopes, r>>) /\ Enter(k, t) /\ MoveTo(NextId, ns)
  BY DEF EnterNamespace
<1>7. WellFormed(scopes) /\ Keeps(scopes, scopes)
  BY DEF Inv, Keeps
<1>8. ns = Append(Namespace, r.of) /\ r.of \in NamespaceNames /\ r.of # NoName
  BY <1>2, <1>3
<1> HIDE DEF r, t, k, ns
<1>9. k \in NamespaceBlocks <=> r.of # NoName
  BY <1>5, <1>8
<1> QED BY <1>1, <1>2, <1>4, <1>5, <1>6, <1>7, <1>8, <1>9, EnterWalks

(* A block without a name is entered. *)
LEMMA PlainWalks ==
  ASSUME Inv, WalkInv, Walking, NEW sc, WellFormed(sc), Keeps(scopes, sc),
         Len(sc) = Len(scopes), DOMAIN sc = DOMAIN scopes,
         NEW r, r.path = Append(Path, NextId), r.of = NoName, Push(<<sc, r>>),
         NEW t \in Kinds, Alike(Top, t), NEW k \in {"class", "message"}, Enter(k, t),
         MoveTo(NextId, Namespace)
  PROVE  WalkInv'
<1>1. k \in ScopedBlocks /\ k \notin NamespaceBlocks
  BY DEF NamespaceBlocks, ScopedBlocks
<1>2. k \in NamespaceBlocks <=> r.of # NoName
  BY <1>1
<1> DEFINE ns == Namespace
<1>3. MoveTo(NextId, ns) /\ r.of = NoName /\ ns = Namespace
  OBVIOUS
<1> HIDE DEF ns
<1> QED BY <1>1, <1>2, <1>3, EnterWalks

(* A type is declared. *)
LEMMA WithTypeKeeps ==
  ASSUME Inv, Walking, NEW t
  PROVE  Keeps(scopes, WithType(t)) /\ DOMAIN WithType(t) = DOMAIN scopes
<1> DEFINE r == [scopes[Scope] EXCEPT !.types = scopes[Scope].types \cup {t}]
<1>1. r.path = scopes[Scope].path /\ r.of = scopes[Scope].of
  BY CurrentScope, TypesFields
<1>2. WithType(t) = [scopes EXCEPT ![Scope] = r]
  BY DEF WithType
<1> HIDE DEF r
<1>3. /\ Keeps(scopes, [scopes EXCEPT ![Scope] = r])
      /\ DOMAIN [scopes EXCEPT ![Scope] = r] = DOMAIN scopes
  BY <1>1, ReplaceKeeps
<1> QED BY <1>2, <1>3

(* A class is entered. *)
LEMMA EnterClassWalks ==
  ASSUME Inv, WalkInv, NEW t, EnterClass(t)
  PROVE  WalkInv'
<1>1. Walking
  BY DEF EnterClass, Between
<1>2. CASE Throw
  BY <1>2, StopWalks
<1>3. CASE ~Throw
  <2> DEFINE sc == WithType(t)
  <2> DEFINE r == Inner(NoName)
  <2> DEFINE k == "class"
  <2>1. Push(<<sc, r>>) /\ MoveTo(NextId, Namespace) /\ Enter(k, Begun)
    BY <1>3 DEF EnterClass
  <2>2. r.path = Append(Path, NextId) /\ r.of = NoName
    BY <1>1, InnerFields DEF Path
  <2>3. WellFormed(sc) /\ Len(sc) = Len(scopes)
    BY <1>1, WithTypeFine
  <2>4. Keeps(scopes, sc) /\ DOMAIN sc = DOMAIN scopes
    BY <1>1, WithTypeKeeps
  <2>5. Begun \in Kinds /\ Alike(Top, Begun)
    BY <1>1, BegunAlike, WalkFacts
  <2>6. k \in {"class", "message"}
    OBVIOUS
  <2> HIDE DEF sc, r, k
  <2> QED BY <1>1, <2>1, <2>2, <2>3, <2>4, <2>5, <2>6, PlainWalks
<1> QED BY <1>2, <1>3

(* A record is entered, and left. *)
LEMMA RecordWalks ==
  ASSUME Inv, WalkInv, (\E t \in TypeNames : EnterRecord(t)) \/ LeaveRecord
  PROVE  WalkInv'
<1>1. CASE \E t \in TypeNames : EnterRecord(t)
  <2>1. PICK t \in TypeNames : EnterRecord(t)
    BY <1>1
  <2>2. Walking
    BY <2>1 DEF EnterRecord, Between
  <2>3. CASE Throw
    BY <2>3, StopWalks
  <2>4. CASE ~Throw
    <3> DEFINE q == [open EXCEPT ![Len(open)] = Begun]
    <3>1. /\ scopes' = WithType(t) /\ open' = Append(q, "record")
          /\ UNCHANGED <<modules, current, phase>>
      BY <2>1, <2>4 DEF EnterRecord, Enter
    <3>2. Keeps(scopes, scopes') /\ DOMAIN scopes' = DOMAIN scopes
      BY <2>2, <3>1, WithTypeKeeps
    <3>3. SameBlocks(open, q)
      BY <2>2, BegunAlike, TopSame, WalkFacts
    <3> HIDE DEF q
    <3>4. SameBlocks(open, open')
      BY <3>1, <3>3, RecordSame
    <3> QED BY <2>2, <3>1, <3>2, <3>4, VisitWalks DEF Walking
  <2> QED BY <2>3, <2>4
<1>2. CASE LeaveRecord
  <2>1. /\ Walking /\ Top = "record" /\ open' = Front(open)
        /\ UNCHANGED <<scopes, modules, current, phase>>
    BY <1>2 DEF LeaveRecord, Between, Leave
  <2>2. Keeps(scopes, scopes')
    BY <2>1 DEF Keeps
  <2>3. /\ BlocksFine(Front(open)) /\ Bottom(Front(open)) = Bottom(open)
        /\ ScopedIn(open) = ScopedIn(Front(open))
        /\ \A i \in ScopedIn(Front(open)) : Front(open)[i] = open[i]
    <3>1. BlocksFine(open) /\ Last(open) = "record" /\ "record" \notin ScopedBlocks
      BY <2>1, WalkFacts DEF Top, ScopedBlocks, NamespaceBlocks
    <3> QED BY <3>1, BlockPopped
  <2>4. SameBlocks(open, open')
    BY <2>1, <2>3 DEF SameBlocks
  <2> QED BY <2>1, <2>2, <2>4, VisitWalks DEF Walking
<1> QED BY <1>1, <1>2

(* The block of a message is entered. *)
LEMMA EnterBlockWalks ==
  ASSUME Inv, WalkInv, Walking, NEW sc, WellFormed(sc), Keeps(scopes, sc),
         Len(sc) = Len(scopes), DOMAIN sc = DOMAIN scopes,
         NEW params, EnterBlock(sc, params)
  PROVE  WalkInv'
<1>1. CASE Throw
  BY <1>1, StopWalks
<1>2. CASE ~Throw
  <2> DEFINE held == [v \in {params[i].name : i \in DOMAIN params} |->
                  TypeOf(Scope, (CHOOSE p \in ToSet(params) : p.name = v).type)]
  <2> DEFINE r == [Inner(NoName) EXCEPT !.vars = held]
  <2> DEFINE k == "message"
  <2> DEFINE t == IF Top = "class" THEN "classMessages" ELSE Begun
  <2>1. Push(<<sc, r>>) /\ MoveTo(NextId, Namespace) /\ Enter(k, t)
    BY <1>2 DEF EnterBlock
  <2> HIDE DEF held
  <2>2. r.path = Append(Path, NextId) /\ r.of = NoName
    <3>1. /\ IsScope(Inner(NoName)) /\ Inner(NoName).path = Append(Path, NextId)
          /\ Inner(NoName).of = NoName
      BY InnerFields DEF Path
    <3> HIDE DEF k, t
    <3>2. /\ [Inner(NoName) EXCEPT !.vars = held].path = Inner(NoName).path
          /\ [Inner(NoName) EXCEPT !.vars = held].of = Inner(NoName).of
      BY <3>1, VarsFields
    <3> QED BY <3>1, <3>2
  <2>3. t \in Kinds /\ Alike(Top, t)
    <3>1. Top = "class" => "classMessages" \in Kinds /\ Alike(Top, "classMessages")
      BY DEF Kinds, Alike, FileBlocks, ScopedBlocks, NamespaceBlocks
    <3> QED BY <3>1, BegunAlike, WalkFacts
  <2>4. k \in {"class", "message"}
    OBVIOUS
  <2> HIDE DEF r, k, t
  <2> QED BY <2>1, <2>2, <2>3, <2>4, PlainWalks
<1> QED BY <1>1, <1>2

(* A message of a class, or a closure, is entered. *)
LEMMA EnterMessagesWalk ==
  ASSUME Inv, WalkInv, NEW params, EnterMessage(params) \/ EnterClosure(params)
  PROVE  WalkInv'
<1>1. CASE EnterMessage(params)
  <2>1. Walking /\ EnterBlock(scopes, params)
    BY <1>1 DEF EnterMessage, Between
  <2>2. WellFormed(scopes) /\ Keeps(scopes, scopes)
    BY DEF Inv, Keeps
  <2> QED BY <2>1, <2>2, EnterBlockWalks
<1>2. CASE EnterClosure(params)
  <2> DEFINE r == WithInst(scopes[Scope], NoName, Global("message"))
  <2> DEFINE sc == [scopes EXCEPT ![Scope] = r]
  <2>1. Walking /\ EnterBlock(sc, params)
    BY <1>2 DEF EnterClosure, Visits
  <2>2. /\ IsScope(r) /\ r.path = scopes[Scope].path /\ r.of = scopes[Scope].of
        /\ r.types = scopes[Scope].types /\ r.vars = scopes[Scope].vars
    BY <2>1, CurrentScope, WithInstFields
  <2> HIDE DEF r
  <2>3. WellFormed(sc)
    BY <2>1, <2>2, CurrentScope, Replace DEF Inv
  <2>4. Len(sc) = Len(scopes)
    BY DEF Inv, WellFormed
  <2>5. Keeps(scopes, sc) /\ DOMAIN sc = DOMAIN scopes
    BY <2>2, ReplaceKeeps
  <2> HIDE DEF sc
  <2> QED BY <2>1, <2>3, <2>4, <2>5, EnterBlockWalks
<1> QED BY <1>1, <1>2

(* A namespace, a class or a message is left. *)
LEMMA LeaveWalks ==
  ASSUME Inv, WalkInv, LeaveNamespace \/ LeaveScope
  PROVE  WalkInv'
<1>1. Walking /\ phase' = "walking" /\ UNCHANGED <<scopes, current>> /\ open' = Front(open)
  BY DEF LeaveNamespace, LeaveScope, Between, Leave, Walking
<1>2. CASE LeaveNamespace
  <2> DEFINE ns == Front(Namespace)
  <2>1. Top \in NamespaceBlocks /\ Top \in ScopedBlocks /\ MoveTo(Popped(current), ns)
    BY <1>2 DEF LeaveNamespace, NamespaceBlocks, ScopedBlocks
  <2>2. ns = Front(Namespace)
    OBVIOUS
  <2> HIDE DEF ns
  <2> QED BY <1>1, <2>1, <2>2, PopWalks
<1>3. CASE LeaveScope
  <2> DEFINE ns == Namespace
  <2>1. /\ Top \notin NamespaceBlocks /\ Top \in ScopedBlocks
        /\ MoveTo(Popped(current), ns)
    BY <1>3 DEF LeaveScope, NamespaceBlocks, ScopedBlocks
  <2>2. ns = Namespace
    OBVIOUS
  <2> HIDE DEF ns
  <2> QED BY <1>1, <2>1, <2>2, PopWalks
<1> QED BY <1>2, <1>3

(* The later stages leave the scopes and the modules where they are. *)
LEMMA StagesWalk ==
  ASSUME Inv, WalkInv, Resolve \/ Generate
  PROVE  WalkInv'
<1>1. CASE Resolve
  <2> DEFINE new(s) == [v \in DOMAIN scopes[s].vars |-> Resolved(s, scopes[s].vars[v])]
  <2>1. /\ scopes' = [s \in DOMAIN scopes |->
              IF ~InModule(s) THEN scopes[s] ELSE [scopes[s] EXCEPT !.vars = new(s)]]
        /\ modules' = modules /\ phase' \notin {"ready", "walking"}
    BY <1>1 DEF Resolve
  <2> HIDE DEF new
  <2>2. ASSUME NEW s \in DOMAIN scopes
        PROVE  scopes'[s].path = scopes[s].path /\ scopes'[s].of = scopes[s].of
    <3>1. IsScope(scopes[s])
      BY DEF Inv, WellFormed, Chained
    <3>2. scopes'[s] = IF ~InModule(s) THEN scopes[s]
                       ELSE [scopes[s] EXCEPT !.vars = new(s)]
      BY <2>1
    <3> QED BY <3>1, <3>2, VarsFields
  <2>3. DOMAIN scopes' = DOMAIN scopes
    BY <2>1
  <2>4. Keeps(scopes, scopes')
    BY <2>2, <2>3 DEF Keeps
  <2> QED BY <2>1, <2>3, <2>4, OverWalks
<1>2. CASE Generate
  <2>1. UNCHANGED <<scopes, modules>> /\ phase' \notin {"ready", "walking"}
    BY <1>2 DEF Generate
  <2>2. Keeps(scopes, scopes')
    BY <2>1 DEF Keeps
  <2> QED BY <2>1, <2>2, OverWalks
<1> QED BY <1>1, <1>2

(* Before the first file there is one scope and no module. *)
LEMMA InitWalk == Init => WalkInv
<1> SUFFICES ASSUME Init PROVE WalkInv
  OBVIOUS
<1> DEFINE q == NewScope(<<>>, Root, NoName, NoName)
<1> DEFINE r == [q EXCEPT !.types = Primitives]
<1>1. scopes = <<r>> /\ DOMAIN modules = {} /\ phase = "ready"
  BY DEF Init
<1>2. IsScope(q) /\ q.of = NoName
  <2>1. <<>> \in Seq(Nat) /\ Root \in Nat
    BY DEF Root
  <2> HIDE DEF q
  <2>2. q = NewScope(<<>>, Root, NoName, NoName)
    BY DEF q
  <2>3. q.of = NoName
    BY <2>2, NewScopeNames
  <2> QED BY <2>1, <2>2, <2>3, NewScopeFields
<1> HIDE DEF q
<1>3. r.of = NoName
  BY <1>2, TypesFields
<1> HIDE DEF r
<1>4. DOMAIN scopes = {Root} /\ scopes[Root].of = NoName
  BY <1>1, <1>3 DEF Root
<1>5. scopes[Root].path = <<Root>>
  BY InitInv DEF Inv, WellFormed
<1>6. InTree(scopes, Root)
  <2> DEFINE p == <<Root>>
  <2>1. p \in Seq(Nat) /\ Len(p) = 1 /\ p[1] = Root /\ p # <<>>
    BY DEF Root
  <2>2. scopes[Root].path = p
    BY <1>5
  <2> HIDE DEF p
  <2>3. \A i \in 1 .. Len(p) - 1 : FALSE
    BY <2>1
  <2>4. Last(p) = Root /\ ~ (Len(p) > 1)
    BY <2>1 DEF Last
  <2>5. /\ scopes[Root].path \in Seq(Nat) /\ scopes[Root].path # <<>>
        /\ scopes[Root].path[1] = Root /\ Last(scopes[Root].path) = Root
    BY <2>1, <2>2, <2>4
  <2>6. /\ \A i \in 1 .. Len(scopes[Root].path) - 1 : FALSE
        /\ ~ (Len(scopes[Root].path) > 1)
    BY <2>2, <2>3, <2>4
  <2> QED BY <2>5, <2>6 DEF InTree
<1>7. Tree(scopes)
  BY <1>4, <1>6 DEF Tree
<1>8. GlobalsFine /\ RestFine /\ NamesMatch /\ BlocksMatch
  BY <1>1, <1>4 DEF GlobalsFine, RestFine, NamesMatch, BlocksMatch, Walking
<1> QED BY <1>7, <1>8 DEF WalkInv

(* Every step keeps scopes, namespaces and blocks in step. *)
LEMMA NextWalk ==
  ASSUME Inv, WalkInv, [Next]_vars
  PROVE  WalkInv'
<1>1. CASE UNCHANGED vars
  BY <1>1 DEF vars, WalkInv, Tree, InTree, GlobalsFine, GlobalFine, RestFine, AtRest,
              BlocksMatch, NamesMatch, Walking, Path, Scope
<1>2. CASE \E m \in ModuleNames \cup {NoName} : StartFile(m)
  BY <1>2, StartWalks
<1>3. CASE \E n \in NamespaceNames : EnterNamespace(n)
  BY <1>3, EnterNamespaceWalks
<1>4. CASE \E t \in TypeNames : EnterClass(t) \/ EnterRecord(t)
  BY <1>4, EnterClassWalks, RecordWalks
<1>5. CASE \E ps \in Params : EnterMessage(ps) \/ EnterClosure(ps)
  BY <1>5, EnterMessagesWalk
<1>6. CASE \E v \in VarNames, t \in TypeNames : Variable(v, t)
  BY <1>6, VariableWalks
<1>7. CASE MaySend /\ \E to \in Nodes, msg \in Messages, args \in Arguments :
                        Send(to, msg, args)
  <2>1. Walking
    BY <1>7 DEF MaySend
  <2> QED BY <1>7, <2>1, SendWalks
<1>8. CASE Instance \/ Literal \/ VisitOther
  BY <1>8, VisitsWalk
<1>9. CASE LeaveNamespace \/ LeaveScope
  BY <1>9, LeaveWalks
<1>10. CASE LeaveRecord
  BY <1>10, RecordWalks
<1>11. CASE EndFile
  BY <1>11, EndWalks
<1>12. CASE Resolve \/ Generate
  BY <1>12, StagesWalk
<1> QED
  BY <1>1, <1>2, <1>3, <1>4, <1>5, <1>6, <1>7, <1>8, <1>9, <1>10, <1>11, <1>12 DEF Next

(* The invariant of the walk holds in every build. *)
THEOREM Walks == Spec => []WalkInv
<1>1. Inv /\ WalkInv /\ [Next]_vars => WalkInv'
  BY NextWalk
<1> QED BY <1>1, InitWalk, Invariant, PTL DEF Spec

(* However namespaces, classes, records, messages and closures are nested, *)
(* the scopes above the current one are those of the blocks still open:    *)
(* what the visitor pops is what it pushed.                                *)
THEOREM ScopesAreBlocks == Spec => []ScopeMatchesBlocks
<1>1. Inv /\ WalkInv => ScopeMatchesBlocks
  <2> SUFFICES ASSUME Inv, WalkInv, Walking
               PROVE  LET path == scopes[Scope].path
                          base == Len(path) - Cardinality(Scoped)
                      IN /\ base \in {1, 2}
                         /\ base = 2 => path[2] = modules[current].global
                         /\ \A i \in Scoped :
                              (open[i] \in NamespaceBlocks) <=>
                                (scopes[path[base + Rank(Scoped, i)]].of # NoName)
    BY DEF ScopeMatchesBlocks
  <2>1. Scoped = ScopedIn(open)
    BY DEF Scoped, ScopedIn
  <2>2. Fits(scopes, Path, open)
        /\ (Base(Path, open) = 2 => Path[2] = modules[current].global)
    BY DEF WalkInv, BlocksMatch
  <2> QED BY <2>1, <2>2 DEF Fits, Base, Path
<1> QED BY <1>1, Invariant, Walks, PTL

(* The namespace of every module, kept apart from its scope, is the one    *)
(* the chain of its scope spells.                                          *)
THEOREM NamespacesAreScopes == Spec => []NamespaceMatchesScope
<1>1. WalkInv => NamespaceMatchesScope
  BY DEF WalkInv, NamesMatch, Names, NamedIn, NamespaceMatchesScope
<1> QED BY <1>1, Walks, PTL

(* A file that names its module is walked inside the scope of that module, *)
(* whatever files came before.                                             *)
THEOREM BlocksWalkTheirModule == Spec => []BlockWalksItsModule
<1>1. Inv /\ WalkInv => BlockWalksItsModule
  <2> SUFFICES ASSUME Inv, WalkInv, Walking, open[1] = "module"
               PROVE  modules[current].global \in ToSet(scopes[Scope].path)
    BY DEF BlockWalksItsModule
  <2>1. Base(Path, open) = 2 /\ Path[2] = modules[current].global
    BY DEF WalkInv, BlocksMatch
  <2>2. Len(Path) >= 2 /\ Len(Path) \in Nat /\ DOMAIN Path = 1 .. Len(Path)
    <3>1. open \in Seq(Kinds) /\ Path \in Seq(Nat) /\ Fits(scopes, Path, open)
          /\ Len(Path) \in Nat
      BY WalkFacts DEF BlocksFine
    <3>2. Cardinality(ScopedIn(open)) \in Nat
          /\ Len(Path) = Base(Path, open) + Cardinality(ScopedIn(open))
      BY <3>1, FitsPlace
    <3> DEFINE n == Len(Path)
    <3>3. n >= 2 /\ n \in Nat
      BY <2>1, <3>1, <3>2
    <3>4. DOMAIN Path = 1 .. n
      BY <3>1
    <3> QED BY <3>3, <3>4
  <2>3. 2 \in DOMAIN Path
    BY <2>2
  <2> QED BY <2>1, <2>3 DEF Path, ToSet
<1> QED BY <1>1, Invariant, Walks, PTL
-----------------------------------------------------------------------------
(***************************************************************************)
(* What the scopes hold, and what a send leaves to the nodes after it.     *)
(***************************************************************************)

TypeRecords == [name : TypeNames \cup {NoName}, in : Nat]

(* The fields of a scope but for its chain. *)
FieldsFine(r) ==
  /\ r.module \in ModuleNames \cup {NoName} /\ r.of \in NamespaceNames \cup {NoName}
  /\ r.types \subseteq TypeNames /\ DOMAIN r.vars \subseteq VarNames
  /\ \A v \in DOMAIN r.vars : r.vars[v] \in TypeRecords
Fields(sc) == \A s \in DOMAIN sc : FieldsFine(sc[s])

(* A node that waits to be visited. *)
Waiting ==
  [kind : {"instance"}, name : VarNames, temp : ToSet(Temps)]
    \cup [kind : {"literal", "closure", "send", "other"}, name : {NoName},
          temp : ToSet(Temps)]

(* A closure is the last of the nodes that wait. *)
ClosureLast(q) == \A i \in 1 .. Len(q) : q[i].kind = "closure" => i = Len(q)
TodoFine ==
  /\ todo \in Seq(Waiting)
  /\ phase \in {"ready", "done", "built"} => todo = <<>>
  /\ ClosureLast(todo)

(* The instance of v in scope s stands for a variable in sight. *)
Stands(sc, s, v) ==
  \E i \in Chain(sc, s) :
    /\ v \in DOMAIN sc[i].vars
    /\ sc[s].insts[v].in = 0 \/ sc[s].insts[v] = sc[i].vars[v]

(* An instance waits for its node, or a literal for its. *)
HasName(q, v) == \E n \in ToSet(q) : n.kind = "instance" /\ n.name = v
HasTemp(q, t) == \E n \in ToSet(q) : n.kind = "literal" /\ n.temp = t
AwaitsName(s, v) == s = Scope /\ HasName(todo, v)
AwaitsTemp(s, t) == s = Scope /\ HasTemp(todo, t)

InstancesFine ==
  \A s \in DOMAIN scopes : \A v \in DOMAIN scopes[s].insts \cap VarNames :
    \/ Stands(scopes, s, v)
    \/ scopes[s].insts[v].in = 0 /\ AwaitsName(s, v)
LiteralsFine ==
  \A s \in DOMAIN scopes : \A params \in Sent(s) : \A i \in DOMAIN params :
    params[i].kind = "literal" =>
      params[i].temp \in DOMAIN scopes[s].insts \/ AwaitsTemp(s, params[i].temp)

StateFine ==
  /\ DOMAIN modules \subseteq ModuleNames /\ files \in 0 .. MaxFiles
  /\ phase \in {"ready", "walking", "done", "built", "failed", "crashed", "undefined"}

(* The inductive invariant of what is declared and sent. *)
DataInv ==
  StateFine /\ Fields(scopes) /\ TodoFine /\ InstancesFine /\ LiteralsFine
-----------------------------------------------------------------------------
(* Scopes hold the instances and the sends they held. *)
Quiet(sc, sd) ==
  /\ \A s \in DOMAIN sc :
       /\ sd[s].sends = sc[s].sends /\ DOMAIN sc[s].insts \subseteq DOMAIN sd[s].insts
       /\ \A v \in DOMAIN sd[s].insts \cap VarNames :
            v \in DOMAIN sc[s].insts /\ sd[s].insts[v] = sc[s].insts[v]
  /\ \A s \in DOMAIN sd \ DOMAIN sc : DOMAIN sd[s].insts = {} /\ DOMAIN sd[s].sends = {}

(* The instances and literals that wait go on waiting. *)
StillAwaited ==
  \A s, x : /\ AwaitsName(s, x) => AwaitsName(s, x)'
            /\ AwaitsTemp(s, x) => AwaitsTemp(s, x)'

(* What stands for a variable does so when the scopes have grown. *)
LEMMA StandsKept ==
  ASSUME NEW sc, WellFormed(sc), NEW sd, Extends(sc, sd), NEW s \in DOMAIN sc,
         NEW v, Stands(sc, s, v), sd[s].insts[v] = sc[s].insts[v]
  PROVE  Stands(sd, s, v)
<1>1. PICK i \in Chain(sc, s) :
        /\ v \in DOMAIN sc[i].vars
        /\ sc[s].insts[v].in = 0 \/ sc[s].insts[v] = sc[i].vars[v]
  BY DEF Stands
<1>2. i \in DOMAIN sc /\ i \in Chain(sd, s)
  BY ChainsHoldScopes DEF Extends, Chain
<1>3. /\ v \in DOMAIN sd[i].vars
      /\ sc[i].vars[v].in # 0 => sd[i].vars[v] = sc[i].vars[v]
  BY <1>1, <1>2 DEF Extends
<1> QED BY <1>1, <1>2, <1>3 DEF Stands

(* Steps that touch no instance and no send. *)
LEMMA QuietKeeps ==
  ASSUME Inv, DataInv, Extends(scopes, scopes'), Quiet(scopes, scopes'), StillAwaited
  PROVE  InstancesFine' /\ LiteralsFine'
<1>1. ASSUME NEW s \in DOMAIN scopes', NEW v \in DOMAIN scopes'[s].insts \cap VarNames
      PROVE  \/ Stands(scopes', s, v)
             \/ scopes'[s].insts[v].in = 0 /\ AwaitsName(s, v)'
  <2>1. /\ s \in DOMAIN scopes /\ v \in DOMAIN scopes[s].insts
        /\ scopes'[s].insts[v] = scopes[s].insts[v]
    BY DEF Quiet
  <2>2. \/ Stands(scopes, s, v)
        \/ scopes[s].insts[v].in = 0 /\ AwaitsName(s, v)
    BY <2>1 DEF DataInv, InstancesFine
  <2>3. Stands(scopes, s, v) => Stands(scopes', s, v)
    BY <2>1, StandsKept DEF Inv
  <2>4. AwaitsName(s, v) => AwaitsName(s, v)'
    BY DEF StillAwaited
  <2> QED BY <2>1, <2>2, <2>3, <2>4
<1>2. ASSUME NEW s \in DOMAIN scopes', NEW params \in Sent(s)', NEW i \in DOMAIN params,
             params[i].kind = "literal"
      PROVE  params[i].temp \in DOMAIN scopes'[s].insts \/ AwaitsTemp(s, params[i].temp)'
  <2>1. /\ s \in DOMAIN scopes /\ scopes'[s].sends = scopes[s].sends
        /\ DOMAIN scopes[s].insts \subseteq DOMAIN scopes'[s].insts
    BY DEF Quiet, Sent
  <2>2. params[i].temp \in DOMAIN scopes[s].insts \/ AwaitsTemp(s, params[i].temp)
    BY <1>2, <2>1 DEF DataInv, LiteralsFine, Sent
  <2>3. AwaitsTemp(s, params[i].temp) => AwaitsTemp(s, params[i].temp)'
    BY DEF StillAwaited
  <2> QED BY <2>1, <2>2, <2>3
<1>3. InstancesFine'
  BY <1>1 DEF InstancesFine
<1>4. LiteralsFine'
  BY <1>2 DEF LiteralsFine
<1> QED BY <1>3, <1>4

(* Nothing waits. *)
LEMMA NothingAwaited ==
  ASSUME \A i \in DOMAIN todo : todo[i].kind \notin {"instance", "literal"}
  PROVE  StillAwaited
BY DEF StillAwaited, AwaitsName, AwaitsTemp, HasName, HasTemp, ToSet

(* Nothing is visited. *)
LEMMA SameAwaited ==
  ASSUME UNCHANGED <<todo, modules, current>>
  PROVE  StillAwaited
BY DEF StillAwaited, AwaitsName, AwaitsTemp, Scope

(* Sequences without their first element. *)
LEMMA Tails ==
  ASSUME NEW S, NEW q \in Seq(S), q # <<>>
  PROVE  /\ Tail(q) \in Seq(S) /\ Head(q) \in S /\ ToSet(q) = {Head(q)} \cup ToSet(Tail(q))
         /\ Len(q) \in Nat /\ Len(Tail(q)) = Len(q) - 1
         /\ \A i \in 1 .. Len(Tail(q)) : i + 1 \in 1 .. Len(q) /\ Tail(q)[i] = q[i + 1]
<1> DEFINE n == Len(q)
<1> DEFINE p == Tail(q)
<1>1. n \in Nat /\ n # 0 /\ DOMAIN q = 1 .. n
  BY EmptySeq
<1>2. Head(q) = q[1] /\ p \in Seq(S) /\ Len(p) = n - 1
  BY HeadTailProperties
<1>3. \A i \in 1 .. (n - 1) : p[i] = q[i + 1]
  BY <1>2, HeadTailProperties
<1>4. DOMAIN p = 1 .. (n - 1)
  BY <1>1, <1>2
<1>5. q[1] \in S
  BY <1>2, HeadTailProperties
<1> HIDE DEF n, p
<1>6. \A i \in 1 .. (n - 1) : i + 1 \in 1 .. n
  BY <1>1
<1>7. \A i \in 1 .. n : i = 1 \/ (i - 1 \in 1 .. (n - 1) /\ (i - 1) + 1 = i)
  BY <1>1
<1>8. 1 \in 1 .. n
  BY <1>1
<1>9. ToSet(q) = {q[1]} \cup ToSet(p)
  <2>1. ASSUME NEW i \in DOMAIN q
        PROVE  q[i] \in {q[1]} \cup ToSet(p)
    <3>1. i = 1 \/ (i - 1 \in DOMAIN p /\ p[i - 1] = q[i])
      BY <1>1, <1>3, <1>4, <1>7
    <3> QED BY <3>1 DEF ToSet
  <2>2. ASSUME NEW i \in DOMAIN p
        PROVE  p[i] \in ToSet(q)
    <3>1. i + 1 \in DOMAIN q /\ p[i] = q[i + 1]
      BY <1>1, <1>3, <1>4, <1>6
    <3> QED BY <3>1 DEF ToSet
  <2>3. q[1] \in ToSet(q)
    BY <1>1, <1>8 DEF ToSet
  <2> QED BY <2>1, <2>2, <2>3 DEF ToSet
<1> QED BY <1>1, <1>2, <1>3, <1>5, <1>6, <1>9 DEF n, p

(* A node that is visited waits no more. *)
LEMMA TailTodo ==
  ASSUME DataInv, todo # <<>>
  PROVE  /\ todo \in Seq(Waiting) /\ Head(todo) \in Waiting /\ Tail(todo) \in Seq(Waiting)
         /\ ToSet(todo) = {Head(todo)} \cup ToSet(Tail(todo))
         /\ ClosureLast(Tail(todo))
<1> DEFINE p == Tail(todo)
<1>1. todo \in Seq(Waiting) /\ ClosureLast(todo)
  BY DEF DataInv, TodoFine
<1>2. /\ p \in Seq(Waiting) /\ Head(todo) \in Waiting
      /\ ToSet(todo) = {Head(todo)} \cup ToSet(p)
      /\ Len(todo) \in Nat /\ Len(p) = Len(todo) - 1
      /\ \A i \in 1 .. Len(p) : i + 1 \in 1 .. Len(todo) /\ p[i] = todo[i + 1]
  <2> HIDE DEF Waiting
  <2> QED BY <1>1, Tails
<1> HIDE DEF p
<1>3. ASSUME NEW i \in 1 .. Len(p), p[i].kind = "closure"
      PROVE  i = Len(p)
  <2>1. i + 1 = Len(todo)
    BY <1>1, <1>2, <1>3 DEF ClosureLast
  <2> QED BY <1>2, <2>1
<1>4. ClosureLast(p)
  BY <1>3 DEF ClosureLast
<1> QED BY <1>1, <1>2, <1>4 DEF p

(* The kinds of nodes but instances and literals. *)
LEMMA VisitAwaited ==
  ASSUME DataInv, todo # <<>>, todo' = Tail(todo), UNCHANGED <<modules, current>>,
         Head(todo).kind \notin {"instance", "literal"}
  PROVE  StillAwaited
<1>1. ToSet(todo) = {Head(todo)} \cup ToSet(todo')
  BY TailTodo
<1>2. ASSUME NEW x
      PROVE  /\ HasName(todo, x) => HasName(todo', x)
             /\ HasTemp(todo, x) => HasTemp(todo', x)
  BY <1>1 DEF HasName, HasTemp
<1> QED BY <1>2 DEF StillAwaited, AwaitsName, AwaitsTemp, Scope

(* A step that changes the instances and sends of the current scope. *)
LEMMA Replaced ==
  ASSUME Inv, DataInv, Walking, Extends(scopes, scopes'), UNCHANGED <<modules, current>>,
         NEW r, scopes' = [scopes EXCEPT ![Scope] = r],
         \A v \in DOMAIN r.insts \cap VarNames :
            Stands(scopes', Scope, v) \/ (r.insts[v].in = 0 /\ HasName(todo', v)),
         \A params \in {r.sends[k] : k \in DOMAIN r.sends} : \A i \in DOMAIN params :
            params[i].kind = "literal" =>
              params[i].temp \in DOMAIN r.insts \/ HasTemp(todo', params[i].temp)
  PROVE  InstancesFine' /\ LiteralsFine'
<1>1. /\ DOMAIN scopes' = DOMAIN scopes /\ Scope \in DOMAIN scopes /\ Scope' = Scope
      /\ \A s \in DOMAIN scopes : scopes'[s] = IF s = Scope THEN r ELSE scopes[s]
  BY CurrentScope DEF Scope
<1>2. ASSUME NEW s \in DOMAIN scopes', NEW v \in DOMAIN scopes'[s].insts \cap VarNames
      PROVE  \/ Stands(scopes', s, v)
             \/ scopes'[s].insts[v].in = 0 /\ AwaitsName(s, v)'
  <2>1. CASE s = Scope
    BY <1>1, <2>1 DEF AwaitsName
  <2>2. CASE s # Scope
    <3>1. scopes'[s] = scopes[s] /\ s \in DOMAIN scopes
      BY <1>1, <2>2
    <3>2. Stands(scopes, s, v)
      BY <2>2, <3>1 DEF DataInv, InstancesFine, AwaitsName
    <3> QED BY <3>1, <3>2, StandsKept DEF Inv
  <2> QED BY <2>1, <2>2
<1>3. ASSUME NEW s \in DOMAIN scopes', NEW params \in Sent(s)', NEW i \in DOMAIN params,
             params[i].kind = "literal"
      PROVE  params[i].temp \in DOMAIN scopes'[s].insts \/ AwaitsTemp(s, params[i].temp)'
  <2>1. CASE s = Scope
    BY <1>1, <1>3, <2>1 DEF AwaitsTemp, Sent
  <2>2. CASE s # Scope
    <3>1. scopes'[s] = scopes[s] /\ s \in DOMAIN scopes /\ params \in Sent(s)
      BY <1>1, <2>2 DEF Sent
    <3> QED BY <1>3, <2>2, <3>1 DEF DataInv, LiteralsFine, AwaitsTemp
  <2> QED BY <2>1, <2>2
<1>4. InstancesFine'
  BY <1>2 DEF InstancesFine
<1>5. LiteralsFine'
  BY <1>3 DEF LiteralsFine
<1> QED BY <1>4, <1>5
-----------------------------------------------------------------------------
(* What is found for a type is a type. *)
LEMMA TypeOfRecord ==
  ASSUME WellFormed(scopes), NEW s \in DOMAIN scopes, NEW t \in TypeNames \cup {NoName}
  PROVE  TypeOf(s, t) \in TypeRecords
<1> DEFINE type == TypeOf(s, t)
<1>1. type \in [name : {t}, in : {type.in}]
  BY DEF TypeOf, Unknown
<1>2. InSight(scopes, s, type)
  BY TypeOfInSight
<1> HIDE DEF type
<1>3. type.in \in Nat
  <2>1. type.in # 0 => type.in \in DOMAIN scopes
    BY <1>2, ChainsHoldScopes DEF InSight
  <2>2. DOMAIN scopes = 1 .. Len(scopes) /\ Len(scopes) \in Nat
    BY DEF WellFormed
  <2> QED BY <2>1, <2>2
<1>4. type \in TypeRecords
  BY <1>1, <1>3 DEF TypeRecords
<1> QED BY <1>4 DEF type

(* Another scope for one that is there. *)
LEMMA FieldsReplaced ==
  ASSUME NEW sc, Fields(sc), NEW s, NEW r, FieldsFine(r)
  PROVE  Fields([sc EXCEPT ![s] = r])
<1> DEFINE sd == [sc EXCEPT ![s] = r]
<1>1. DOMAIN sd = DOMAIN sc /\ \A i \in DOMAIN sc : sd[i] = IF i = s THEN r ELSE sc[i]
  OBVIOUS
<1> HIDE DEF sd
<1>2. Fields(sd)
  BY <1>1 DEF Fields
<1> QED BY <1>2 DEF sd

(* One scope more. *)
LEMMA FieldsAdded ==
  ASSUME NEW S, NEW sc \in Seq(S), Fields(sc), NEW r, FieldsFine(r)
  PROVE  Fields(Append(sc, r))
<1> DEFINE sd == Append(sc, r)
<1>1. /\ DOMAIN sd = 1 .. (Len(sc) + 1) /\ DOMAIN sc = 1 .. Len(sc) /\ Len(sc) \in Nat
      /\ sd[Len(sc) + 1] = r /\ \A i \in 1 .. Len(sc) : sd[i] = sc[i]
  OBVIOUS
<1>2. \A i \in 1 .. (Len(sc) + 1) : i \in 1 .. Len(sc) \/ i = Len(sc) + 1
  BY <1>1
<1> HIDE DEF sd
<1>3. Fields(sd)
  BY <1>1, <1>2 DEF Fields
<1> QED BY <1>3 DEF sd

(* A scope with another variable, or with what has no type. *)
LEMMA VariableFine ==
  ASSUME NEW r, FieldsFine(r), IsScope(r), NEW v \in VarNames, NEW type \in TypeRecords
  PROVE  FieldsFine(WithVar(r, v, type))
<1> DEFINE q == WithVar(r, v, type)
<1>1. /\ q.types = r.types /\ q.vars = Put(r.vars, v, type)
      /\ q.of = r.of /\ q.module = r.module
  BY WithVarFields
<1> HIDE DEF q
<1>2. FieldsFine(q)
  BY <1>1 DEF FieldsFine, Put
<1> QED BY <1>2 DEF q

(* What is not about variables and types. *)
LEMMA FieldsSame ==
  ASSUME NEW r, FieldsFine(r), NEW q, q.types = r.types, q.vars = r.vars,
         q.of = r.of, q.module = r.module
  PROVE  FieldsFine(q)
BY DEF FieldsFine
-----------------------------------------------------------------------------
(* Steps that touch no instance and no send. *)
Phases == {"ready", "walking", "done", "built", "failed", "crashed", "undefined"}
Undisturbed ==
  /\ Extends(scopes, scopes') /\ Quiet(scopes, scopes') /\ StillAwaited /\ Fields(scopes')
  /\ DOMAIN modules' = DOMAIN modules /\ files' = files /\ phase' \in Phases
  /\ todo' \in {todo, <<>>}
  /\ phase' \in {"ready", "done", "built"} => todo' = <<>>

(* A step that leaves what is sent alone. *)
LEMMA QuietData ==
  ASSUME Inv, DataInv, Undisturbed
  PROVE  DataInv'
<1>1. InstancesFine' /\ LiteralsFine'
  BY QuietKeeps DEF Undisturbed
<1>2. StateFine'
  BY DEF Undisturbed, Phases, DataInv, StateFine
<1>3. ClosureLast(<<>>) /\ <<>> \in Seq(Waiting)
  BY DEF ClosureLast
<1>4. todo \in Seq(Waiting) /\ ClosureLast(todo)
  BY DEF DataInv, TodoFine
<1>5. todo' \in Seq(Waiting) /\ ClosureLast(todo')
  BY <1>3, <1>4 DEF Undisturbed
<1>6. phase' \in {"ready", "done", "built"} => todo' = <<>>
  BY DEF Undisturbed
<1>7. TodoFine'
  BY <1>5, <1>6 DEF TodoFine
<1> QED BY <1>1, <1>2, <1>7 DEF Undisturbed, DataInv

(* The scopes stay as they are. *)
LEMMA QuietSame == ASSUME NEW sc PROVE Quiet(sc, sc)
BY DEF Quiet

(* The current scope gets other variables or types, or an instance that is *)
(* not one of a variable.                                                  *)
LEMMA QuietReplaced ==
  ASSUME NEW s, NEW r, r.sends = scopes[s].sends,
         DOMAIN scopes[s].insts \subseteq DOMAIN r.insts,
         \A v \in DOMAIN r.insts \cap VarNames :
           v \in DOMAIN scopes[s].insts /\ r.insts[v] = scopes[s].insts[v]
  PROVE  Quiet(scopes, [scopes EXCEPT ![s] = r])
<1> DEFINE sd == [scopes EXCEPT ![s] = r]
<1>1. /\ DOMAIN sd = DOMAIN scopes
      /\ \A i \in DOMAIN scopes : sd[i] = IF i = s THEN r ELSE scopes[i]
  OBVIOUS
<1> HIDE DEF sd
<1>2. Quiet(scopes, sd)
  BY <1>1 DEF Quiet
<1> QED BY <1>2 DEF sd

(* A new scope is empty. *)
LEMMA QuietAdded ==
  ASSUME NEW S, NEW sc \in Seq(S), Quiet(scopes, sc), DOMAIN sc = DOMAIN scopes,
         NEW r, DOMAIN r.insts = {}, DOMAIN r.sends = {}
  PROVE  Quiet(scopes, Append(sc, r))
<1> DEFINE sd == Append(sc, r)
<1>1. /\ DOMAIN sd = 1 .. (Len(sc) + 1) /\ DOMAIN sc = 1 .. Len(sc) /\ Len(sc) \in Nat
      /\ sd[Len(sc) + 1] = r /\ \A i \in 1 .. Len(sc) : sd[i] = sc[i]
  OBVIOUS
<1>2. \A i \in 1 .. (Len(sc) + 1) : i \in 1 .. Len(sc) \/ i = Len(sc) + 1
  BY <1>1
<1> HIDE DEF sd
<1>3. Quiet(scopes, sd)
  BY <1>1, <1>2 DEF Quiet
<1> QED BY <1>3 DEF sd

(* The build is over, or a node without an instance is visited. *)
LEMMA StopData ==
  ASSUME Inv, DataInv, Throw \/ Crash \/ VisitOther \/ Generate
  PROVE  DataInv'
<1>1. /\ UNCHANGED <<scopes, modules, current, files>>
      /\ Extends(scopes, scopes') /\ Quiet(scopes, scopes') /\ Fields(scopes')
      /\ DOMAIN modules' = DOMAIN modules
  BY QuietSame, ExtendsSame DEF Throw, Crash, VisitOther, Generate, DataInv
<1>2. CASE Throw \/ Crash
  <2>1. todo' = todo /\ phase' \in {"failed", "crashed"}
    BY <1>2 DEF Throw, Crash
  <2>2. StillAwaited
    BY <1>1, <2>1, SameAwaited
  <2> QED BY <1>1, <2>1, <2>2, QuietData DEF Undisturbed, Phases
<1>3. CASE Generate
  <2>1. todo' = todo /\ phase = "done" /\ phase' \in {"failed", "undefined", "built"}
    BY <1>3 DEF Generate
  <2>2. StillAwaited
    BY <1>1, <2>1, SameAwaited
  <2>3. todo = <<>>
    BY <2>1 DEF DataInv, TodoFine
  <2> QED BY <1>1, <2>1, <2>2, <2>3, QuietData DEF Undisturbed, Phases
<1>4. CASE VisitOther
  <2>1. /\ todo # <<>> /\ Head(todo).kind = "other" /\ todo' = Tail(todo)
        /\ phase = "walking" /\ phase' = phase
    BY <1>4 DEF VisitOther, Visits, Walking
  <2>2. StillAwaited
    BY <1>1, <2>1, VisitAwaited
  <2>3. todo' \in Seq(Waiting) /\ ClosureLast(todo')
    BY <2>1, TailTodo
  <2>4. TodoFine' /\ StateFine'
    BY <1>1, <2>1, <2>3 DEF TodoFine, StateFine, DataInv
  <2>5. InstancesFine' /\ LiteralsFine'
    BY <1>1, <2>2, QuietKeeps
  <2> QED BY <1>1, <2>4, <2>5 DEF DataInv
<1> QED BY <1>2, <1>3, <1>4

(* Between two statements nothing waits. *)
LEMMA BetweenAwaited ==
  ASSUME todo = <<>>
  PROVE  StillAwaited
<1>1. DOMAIN todo = {}
  OBVIOUS
<1> QED BY <1>1, NothingAwaited

(* A variable is declared. *)
LEMMA VariableData ==
  ASSUME Inv, DataInv, Extends(scopes, scopes'), NEW v \in VarNames, NEW t \in TypeNames,
         Variable(v, t)
  PROVE  DataInv'
<1>1. Walking /\ todo = <<>>
  BY DEF Variable, Between
<1>2. CASE Throw \/ Crash
  BY <1>2, StopData
<1>3. CASE ~ (Throw \/ Crash)
  <2> DEFINE r == WithVar(scopes[Scope], v, TypeOf(Scope, t))
  <2>1. /\ scopes' = [scopes EXCEPT ![Scope] = r]
        /\ UNCHANGED <<modules, todo, files, phase>>
    BY <1>3 DEF Variable
  <2>2. /\ IsScope(scopes[Scope]) /\ Scope \in DOMAIN scopes
        /\ FieldsFine(scopes[Scope]) /\ Fields(scopes)
    BY <1>1, CurrentScope DEF DataInv, Fields
  <2>3. TypeOf(Scope, t) \in TypeRecords
    BY <2>2, TypeOfRecord DEF Inv
  <2>4. FieldsFine(r)
    BY <2>2, <2>3, VariableFine
  <2>5. r.insts = scopes[Scope].insts /\ r.sends = scopes[Scope].sends
    BY <2>2, WithVarFields
  <2> HIDE DEF r
  <2>6. Quiet(scopes, scopes')
    BY <2>1, <2>5, QuietReplaced
  <2>7. Fields(scopes')
    BY <2>1, <2>2, <2>4, FieldsReplaced
  <2>8. StillAwaited
    BY <1>1, BetweenAwaited
  <2> QED BY <1>1, <2>1, <2>6, <2>7, <2>8, QuietData DEF Undisturbed, Phases, Walking
<1> QED BY <1>2, <1>3

(* A type is declared. *)
LEMMA WithTypeData ==
  ASSUME Inv, DataInv, Walking, NEW t \in TypeNames
  PROVE  Quiet(scopes, WithType(t)) /\ Fields(WithType(t))
<1> DEFINE r == [scopes[Scope] EXCEPT !.types = scopes[Scope].types \cup {t}]
<1>1. /\ IsScope(scopes[Scope]) /\ Scope \in DOMAIN scopes
      /\ FieldsFine(scopes[Scope]) /\ Fields(scopes)
  BY CurrentScope DEF DataInv, Fields
<1>2. /\ r.types = scopes[Scope].types \cup {t} /\ r.vars = scopes[Scope].vars
      /\ r.of = scopes[Scope].of /\ r.module = scopes[Scope].module
      /\ r.insts = scopes[Scope].insts /\ r.sends = scopes[Scope].sends
  BY <1>1, TypesFields
<1>3. WithType(t) = [scopes EXCEPT ![Scope] = r]
  BY DEF WithType
<1> HIDE DEF r
<1>4. FieldsFine(r)
  BY <1>1, <1>2 DEF FieldsFine
<1>5. Quiet(scopes, [scopes EXCEPT ![Scope] = r])
  BY <1>2, QuietReplaced
<1>6. Fields([scopes EXCEPT ![Scope] = r])
  BY <1>1, <1>4, FieldsReplaced
<1> QED BY <1>3, <1>5, <1>6

(* A record is entered. *)
LEMMA EnterRecordData ==
  ASSUME Inv, DataInv, Extends(scopes, scopes'), NEW t \in TypeNames, EnterRecord(t)
  PROVE  DataInv'
<1>1. Walking /\ todo = <<>>
  BY DEF EnterRecord, Between
<1>2. CASE Throw
  BY <1>2, StopData
<1>3. CASE ~Throw
  <2>1. scopes' = WithType(t) /\ UNCHANGED <<modules, todo, files, phase>>
    BY <1>3 DEF EnterRecord
  <2>2. Quiet(scopes, scopes') /\ Fields(scopes') /\ StillAwaited
    BY <1>1, <2>1, WithTypeData, BetweenAwaited
  <2> QED BY <1>1, <2>1, <2>2, QuietData DEF Undisturbed, Phases, Walking
<1> QED BY <1>2, <1>3

(* A block or a file is left. *)
LEMMA LeaveData ==
  ASSUME Inv, DataInv, LeaveNamespace \/ LeaveScope \/ LeaveRecord \/ EndFile
  PROVE  DataInv'
<1>1. /\ Walking /\ todo = <<>> /\ todo' = todo /\ files' = files /\ scopes' = scopes
      /\ phase' \in {"walking", "ready"}
  BY DEF LeaveNamespace, LeaveScope, LeaveRecord, EndFile, Between, Walking
<1>2. DOMAIN modules' = DOMAIN modules
  BY DEF LeaveNamespace, LeaveScope, LeaveRecord, EndFile, MoveTo
<1>3. /\ Extends(scopes, scopes') /\ Quiet(scopes, scopes') /\ Fields(scopes')
      /\ StillAwaited
  BY <1>1, BetweenAwaited, QuietSame, ExtendsSame DEF DataInv
<1> QED BY <1>1, <1>2, <1>3, QuietData DEF Undisturbed, Phases

(* A block with a scope is entered. *)
LEMMA EnterData ==
  ASSUME Inv, DataInv, Walking, Extends(scopes, scopes'), StillAwaited,
         todo' \in {todo, <<>>}, NEW sc, WellFormed(sc), Quiet(scopes, sc), Fields(sc),
         DOMAIN sc = DOMAIN scopes, NEW r, FieldsFine(r), DOMAIN r.insts = {},
         DOMAIN r.sends = {}, Push(<<sc, r>>), NEW s, NEW n, MoveTo(s, n)
  PROVE  DataInv'
<1>1. /\ scopes' = Append(sc, r) /\ files' = files /\ phase' = "walking"
      /\ DOMAIN modules' = DOMAIN modules
  BY DEF Push, MoveTo, Walking
<1>2. sc \in Seq(ToSet(sc))
  BY DEF WellFormed
<1>3. Quiet(scopes, scopes') /\ Fields(scopes')
  BY <1>1, <1>2, QuietAdded, FieldsAdded
<1> QED BY <1>1, <1>3, QuietData DEF Undisturbed, Phases

(* The scope a block brings. *)
LEMMA InnerFine ==
  ASSUME Inv, DataInv, Walking, NEW of \in NamespaceNames \cup {NoName}
  PROVE  /\ FieldsFine(Inner(of)) /\ IsScope(Inner(of))
         /\ DOMAIN Inner(of).insts = {} /\ DOMAIN Inner(of).sends = {}
<1> DEFINE r == Inner(of)
<1>1. /\ r.types = {} /\ DOMAIN r.vars = {} /\ r.of = of /\ r.module = current
      /\ DOMAIN r.insts = {} /\ DOMAIN r.sends = {} /\ IsScope(r)
  BY InnerFields
<1> HIDE DEF r
<1>2. current \in ModuleNames
  BY CurrentScope DEF DataInv, StateFine
<1>3. FieldsFine(r)
  BY <1>1, <1>2 DEF FieldsFine
<1> QED BY <1>1, <1>3 DEF r

(* A namespace is entered. *)
LEMMA EnterNamespaceData ==
  ASSUME Inv, DataInv, Extends(scopes, scopes'), NEW n \in NamespaceNames,
         EnterNamespace(n)
  PROVE  DataInv'
<1> DEFINE r == Inner(n)
<1>1. /\ Walking /\ todo = <<>> /\ todo' = todo /\ Push(<<scopes, r>>)
      /\ MoveTo(NextId, Append(Namespace, n))
  BY DEF EnterNamespace, Between
<1>2. FieldsFine(r) /\ DOMAIN r.insts = {} /\ DOMAIN r.sends = {}
  BY <1>1, InnerFine
<1> HIDE DEF r
<1>3. WellFormed(scopes) /\ Quiet(scopes, scopes) /\ Fields(scopes) /\ StillAwaited
  BY <1>1, QuietSame, BetweenAwaited DEF Inv, DataInv
<1> QED BY <1>1, <1>2, <1>3, EnterData

(* A class is entered. *)
LEMMA EnterClassData ==
  ASSUME Inv, DataInv, Extends(scopes, scopes'), NEW t \in TypeNames, EnterClass(t)
  PROVE  DataInv'
<1>1. Walking /\ todo = <<>>
  BY DEF EnterClass, Between
<1>2. CASE Throw
  BY <1>2, StopData
<1>3. CASE ~Throw
  <2> DEFINE r == Inner(NoName)
  <2> DEFINE sc == WithType(t)
  <2>1. todo' = todo /\ Push(<<sc, r>>) /\ MoveTo(NextId, Namespace)
    BY <1>3 DEF EnterClass
  <2>2. FieldsFine(r) /\ DOMAIN r.insts = {} /\ DOMAIN r.sends = {}
    BY <1>1, InnerFine
  <2>3. WellFormed(sc) /\ DOMAIN sc = DOMAIN scopes /\ Quiet(scopes, sc) /\ Fields(sc)
    BY <1>1, WithTypeFine, WithTypeKeeps, WithTypeData
  <2> HIDE DEF r, sc
  <2>4. StillAwaited
    BY <1>1, BetweenAwaited
  <2> QED BY <1>1, <2>1, <2>2, <2>3, <2>4, EnterData
<1> QED BY <1>2, <1>3

(* The parameters of a message have names and types. *)
LEMMA ParamsFine ==
  ASSUME NEW params \in Params, NEW i \in DOMAIN params
  PROVE  params[i].name \in VarNames /\ params[i].type \in TypeNames
<1>1. CASE params = <<>>
  BY <1>1
<1>2. ASSUME NEW v \in VarNames, NEW t \in TypeNames,
             params = <<[name |-> v, type |-> t]>>
      PROVE  params[i].name \in VarNames /\ params[i].type \in TypeNames
  BY <1>2
<1>3. ASSUME NEW v \in VarNames, NEW w \in VarNames, NEW t \in TypeNames,
             params = <<[name |-> v, type |-> t], [name |-> w, type |-> t]>>
      PROVE  params[i].name \in VarNames /\ params[i].type \in TypeNames
  BY <1>3
<1> QED BY <1>1, <1>2, <1>3 DEF Params

(* The block of a message is entered. *)
LEMMA EnterBlockData ==
  ASSUME Inv, DataInv, Walking, Extends(scopes, scopes'), StillAwaited,
         NEW sc, WellFormed(sc), Quiet(scopes, sc), Fields(sc),
         DOMAIN sc = DOMAIN scopes, NEW params \in Params, EnterBlock(sc, params)
  PROVE  DataInv'
<1>1. CASE Throw
  BY <1>1, StopData
<1>2. CASE ~Throw
  <2> DEFINE chosen(v) == (CHOOSE p \in ToSet(params) : p.name = v).type
  <2> DEFINE held == [v \in {params[i].name : i \in DOMAIN params} |->
                       TypeOf(Scope, chosen(v))]
  <2> DEFINE r == [Inner(NoName) EXCEPT !.vars = held]
  <2>1. Push(<<sc, r>>) /\ MoveTo(NextId, Namespace) /\ todo' = <<>>
    BY <1>2 DEF EnterBlock
  <2>2. ASSUME NEW v \in DOMAIN held
        PROVE  v \in VarNames /\ held[v] \in TypeRecords
    <3>1. PICK i \in DOMAIN params : v = params[i].name
      OBVIOUS
    <3>2. v \in VarNames
      BY <3>1, ParamsFine
    <3>3. chosen(v) \in TypeNames
      <4>1. \A p \in ToSet(params) : p.type \in TypeNames
        BY ParamsFine DEF ToSet
      <4>2. \E p \in ToSet(params) : p.name = v
        BY <3>1 DEF ToSet
      <4> QED BY <4>1, <4>2
    <3> HIDE DEF chosen
    <3>4. TypeOf(Scope, chosen(v)) \in TypeRecords
      BY <3>3, CurrentScope, TypeOfRecord DEF Inv
    <3> QED BY <3>2, <3>4
  <2> HIDE DEF held
  <2> DEFINE q == Inner(NoName)
  <2>3. /\ FieldsFine(q) /\ IsScope(q) /\ DOMAIN q.insts = {} /\ DOMAIN q.sends = {}
    BY InnerFine
  <2> HIDE DEF q
  <2>4. r = [q EXCEPT !.vars = held]
    BY DEF q
  <2> HIDE DEF r
  <2>5. /\ r.types = q.types /\ r.of = q.of /\ r.module = q.module /\ r.vars = held
        /\ r.insts = q.insts /\ r.sends = q.sends
    BY <2>3, <2>4, VarsFields
  <2>6. FieldsFine(r) /\ DOMAIN r.insts = {} /\ DOMAIN r.sends = {}
    BY <2>2, <2>3, <2>5 DEF FieldsFine
  <2> QED BY <2>1, <2>6, EnterData
<1> QED BY <1>1, <1>2

(* A message of a class, or a closure, is entered. *)
LEMMA EnterMessagesData ==
  ASSUME Inv, DataInv, Extends(scopes, scopes'), NEW params \in Params,
         EnterMessage(params) \/ EnterClosure(params)
  PROVE  DataInv'
<1>1. CASE EnterMessage(params)
  <2>1. Walking /\ todo = <<>> /\ EnterBlock(scopes, params)
    BY <1>1 DEF EnterMessage, Between
  <2>2. WellFormed(scopes) /\ Quiet(scopes, scopes) /\ Fields(scopes) /\ StillAwaited
    BY <2>1, QuietSame, BetweenAwaited DEF Inv, DataInv
  <2> QED BY <2>1, <2>2, EnterBlockData
<1>2. CASE EnterClosure(params)
  <2> DEFINE r == WithInst(scopes[Scope], NoName, Global("message"))
  <2> DEFINE sc == [scopes EXCEPT ![Scope] = r]
  <2>1. Walking /\ todo # <<>> /\ Head(todo).kind = "closure" /\ EnterBlock(sc, params)
    BY <1>2 DEF EnterClosure, Visits
  <2>2. /\ IsScope(scopes[Scope]) /\ Scope \in DOMAIN scopes
        /\ FieldsFine(scopes[Scope]) /\ Fields(scopes)
    BY <2>1, CurrentScope DEF DataInv, Fields
  <2>3. /\ IsScope(r) /\ r.path = scopes[Scope].path /\ r.of = scopes[Scope].of
        /\ r.module = scopes[Scope].module /\ r.sends = scopes[Scope].sends
        /\ r.types = scopes[Scope].types /\ r.vars = scopes[Scope].vars
        /\ r.insts = PutNew(scopes[Scope].insts, NoName, Global("message"))
    BY <2>2, WithInstFields
  <2> HIDE DEF r
  <2>4. WellFormed(sc)
    BY <2>2, <2>3, Replace DEF Inv
  <2>5. DOMAIN sc = DOMAIN scopes
    OBVIOUS
  <2>6. FieldsFine(r)
    BY <2>2, <2>3, FieldsSame
  <2>7. Fields(sc)
    BY <2>2, <2>6, FieldsReplaced
  <2>8. Quiet(scopes, sc)
    <3>1. NoName \notin VarNames
      BY ScopesAssumption
    <3>2. /\ DOMAIN scopes[Scope].insts \subseteq DOMAIN r.insts
          /\ \A v \in DOMAIN r.insts \cap VarNames :
               v \in DOMAIN scopes[Scope].insts /\ r.insts[v] = scopes[Scope].insts[v]
      BY <2>3, <3>1 DEF PutNew
    <3> QED BY <2>3, <3>2, QuietReplaced
  <2> HIDE DEF sc
  <2>9. StillAwaited
    <3>1. todo \in Seq(Waiting) /\ todo # <<>> /\ ClosureLast(todo)
      BY <2>1 DEF DataInv, TodoFine
    <3> DEFINE n == Len(todo)
    <3>2. n \in Nat /\ n # 0 /\ DOMAIN todo = 1 .. n /\ Head(todo) = todo[1]
      BY <3>1, EmptySeq, HeadTailProperties
    <3>3. todo[1].kind = "closure"
      BY <2>1, <3>2
    <3>4. 1 \in 1 .. n => n = 1
      BY <3>1, <3>3 DEF ClosureLast
    <3> HIDE DEF n
    <3>5. \A i \in DOMAIN todo : i = 1
      BY <3>2, <3>4
    <3> QED BY <3>3, <3>5, NothingAwaited
  <2> QED BY <2>1, <2>4, <2>5, <2>7, <2>8, <2>9, EnterBlockData
<1> QED BY <1>1, <1>2

(* A file begins: its modules bring empty scopes. *)
LEMMA StartFileData ==
  ASSUME Inv, DataInv, Extends(scopes, scopes'), NEW name \in ModuleNames \cup {NoName},
         StartFile(name)
  PROVE  DataInv'
<1> DEFINE names == Missing(name)
<1>1. names \in Seq(ModuleNames)
  BY MissingNames
<1>2. /\ phase = "ready" /\ files < MaxFiles /\ files' = files + 1 /\ phase' = "walking"
      /\ scopes' = scopes \o GlobalScopes(names) /\ todo' = todo
      /\ DOMAIN modules' = DOMAIN modules \cup ToSet(names)
  BY DEF StartFile
<1> HIDE DEF names
<1>3. todo = <<>>
  BY <1>2 DEF DataInv, TodoFine
<1> DEFINE n == Len(scopes)
<1> DEFINE k == Len(names)
<1>4. /\ n \in Nat /\ k \in Nat /\ DOMAIN scopes = 1 .. n /\ DOMAIN names = 1 .. k
      /\ DOMAIN scopes' = 1 .. (n + k)
      /\ \A i \in 1 .. n : scopes'[i] = scopes[i]
      /\ \A i \in 1 .. k : scopes'[n + i] = NewScope(<<Root>>, n + i, names[i], NoName)
  BY <1>1, <1>2, GlobalsAdded
<1> HIDE DEF n, k
<1>5. \A i \in 1 .. (n + k) : i \in 1 .. n \/ (i - n \in 1 .. k /\ n + (i - n) = i)
  BY <1>4
<1>6. ASSUME NEW i \in 1 .. k
      PROVE  /\ FieldsFine(scopes'[n + i])
             /\ DOMAIN scopes'[n + i].insts = {} /\ DOMAIN scopes'[n + i].sends = {}
  <2> DEFINE path == <<Root>>
  <2> DEFINE id == n + i
  <2> DEFINE m == names[i]
  <2> DEFINE r == NewScope(path, id, m, NoName)
  <2>1. path \in Seq(Nat) /\ id \in Nat
    BY <1>4 DEF Root
  <2> HIDE DEF path, id, m
  <2>2. /\ r.types = {} /\ DOMAIN r.vars = {} /\ r.of = NoName /\ r.module = m
        /\ DOMAIN r.insts = {} /\ DOMAIN r.sends = {}
    BY <2>1, NewScopeFields, NewScopeNames
  <2>3. scopes'[n + i] = r
    BY <1>4 DEF path, id, m
  <2>4. m \in ModuleNames
    BY <1>1, <1>4 DEF m
  <2> HIDE DEF r
  <2> QED BY <2>2, <2>3, <2>4 DEF FieldsFine
<1>7. Fields(scopes')
  <2> SUFFICES ASSUME NEW s \in DOMAIN scopes' PROVE FieldsFine(scopes'[s])
    BY DEF Fields
  <2>1. CASE s \in 1 .. n
    BY <1>4, <2>1 DEF DataInv, Fields
  <2>2. CASE s \notin 1 .. n
    <3>1. s - n \in 1 .. k /\ n + (s - n) = s
      BY <1>4, <1>5, <2>2
    <3> DEFINE i == s - n
    <3>2. i \in 1 .. k /\ n + i = s
      BY <3>1
    <3> HIDE DEF i
    <3> QED BY <1>6, <3>2
  <2> QED BY <2>1, <2>2
<1>8. Quiet(scopes, scopes')
  <2>1. ASSUME NEW s \in DOMAIN scopes' \ DOMAIN scopes
        PROVE  DOMAIN scopes'[s].insts = {} /\ DOMAIN scopes'[s].sends = {}
    <3>1. s - n \in 1 .. k /\ n + (s - n) = s
      BY <1>4, <1>5
    <3> DEFINE i == s - n
    <3>2. i \in 1 .. k /\ n + i = s
      BY <3>1
    <3> HIDE DEF i
    <3> QED BY <1>6, <3>2
  <2> QED BY <1>4, <2>1 DEF Quiet
<1>9. InstancesFine' /\ LiteralsFine'
  BY <1>3, <1>8, BetweenAwaited, QuietKeeps
<1>10. TodoFine'
  BY <1>2, <1>3 DEF DataInv, TodoFine
<1>11. StateFine'
  <2>1. ToSet(names) \subseteq ModuleNames
    BY <1>1 DEF ToSet
  <2>2. files' \in 0 .. MaxFiles
    BY <1>2, ScopesAssumption DEF DataInv, StateFine
  <2> QED BY <1>2, <2>1, <2>2 DEF DataInv, StateFine
<1> QED BY <1>7, <1>9, <1>10, <1>11 DEF DataInv

(* Stage 2 gives variables types. *)
LEMMA ResolveData ==
  ASSUME Inv, DataInv, Extends(scopes, scopes'), Resolve
  PROVE  DataInv'
<1> DEFINE new(s) == [v \in DOMAIN scopes[s].vars |-> Resolved(s, scopes[s].vars[v])]
<1>1. /\ scopes' = [s \in DOMAIN scopes |->
            IF ~InModule(s) THEN scopes[s] ELSE [scopes[s] EXCEPT !.vars = new(s)]]
      /\ UNCHANGED <<modules, todo, files>> /\ phase = "ready"
      /\ phase' \in {"done", "failed"}
  BY DEF Resolve
<1>2. todo = <<>>
  BY <1>1 DEF DataInv, TodoFine
<1>3. ASSUME NEW s \in DOMAIN scopes
      PROVE  /\ FieldsFine(scopes'[s]) /\ scopes'[s].sends = scopes[s].sends
             /\ scopes'[s].insts = scopes[s].insts
  <2>1. IsScope(scopes[s]) /\ FieldsFine(scopes[s])
    BY DEF Inv, WellFormed, Chained, DataInv, Fields
  <2>2. ASSUME NEW v \in DOMAIN scopes[s].vars
        PROVE  Resolved(s, scopes[s].vars[v]) \in TypeRecords
    <3>1. scopes[s].vars[v] \in TypeRecords
      BY <2>1 DEF FieldsFine
    <3>2. scopes[s].vars[v].name \in TypeNames \cup {NoName}
      BY <3>1 DEF TypeRecords
    <3>3. TypeOf(s, scopes[s].vars[v].name) \in TypeRecords
      BY <3>2, TypeOfRecord DEF Inv
    <3> QED BY <3>1, <3>3 DEF Resolved
  <2>3. DOMAIN new(s) = DOMAIN scopes[s].vars
        /\ \A v \in DOMAIN scopes[s].vars : new(s)[v] \in TypeRecords
    BY <2>2
  <2>4. scopes'[s] = IF ~InModule(s) THEN scopes[s]
                     ELSE [scopes[s] EXCEPT !.vars = new(s)]
    BY <1>1
  <2> HIDE DEF new
  <2> DEFINE r == [scopes[s] EXCEPT !.vars = new(s)]
  <2>5. /\ r.vars = new(s) /\ r.types = scopes[s].types /\ r.of = scopes[s].of
        /\ r.module = scopes[s].module /\ r.sends = scopes[s].sends
        /\ r.insts = scopes[s].insts
    BY <2>1, VarsFields
  <2> HIDE DEF r
  <2>6. FieldsFine(r)
    BY <2>1, <2>3, <2>5 DEF FieldsFine
  <2>7. scopes'[s] = scopes[s] \/ scopes'[s] = r
    BY <2>4 DEF r
  <2> QED BY <2>1, <2>5, <2>6, <2>7
<1>4. DOMAIN scopes' = DOMAIN scopes
  BY <1>1
<1>5. Fields(scopes')
  BY <1>3, <1>4 DEF Fields
<1>6. Quiet(scopes, scopes')
  BY <1>3, <1>4 DEF Quiet
<1> HIDE DEF new
<1>7. StillAwaited
  BY <1>2, BetweenAwaited
<1> QED BY <1>1, <1>2, <1>5, <1>6, <1>7, QuietData DEF Undisturbed, Phases
-----------------------------------------------------------------------------
(* The instance of a node is declared. *)
LEMMA InstanceData ==
  ASSUME Inv, DataInv, Extends(scopes, scopes'), Instance
  PROVE  DataInv'
<1> DEFINE v == Head(todo).name
<1> DEFINE known == Holders(Scope, v)
<1> DEFINE near == CHOOSE i \in known : \A j \in known : j <= i
<1> DEFINE held == scopes[near].vars[v]
<1> DEFINE type == IF known # {} /\ held.in # 0 THEN held ELSE Unknown(NoName)
<1> DEFINE new == WithInst(scopes[Scope], v, type)
<1> DEFINE r == IF known = {} THEN WithVar(new, v, type) ELSE new
<1>1. Walking /\ todo # <<>> /\ Head(todo).kind = "instance"
  BY DEF Instance, Visits
<1>2. CASE Crash
  BY <1>2, StopData
<1>3. CASE ~Crash
  <2>1. /\ scopes' = [scopes EXCEPT ![Scope] = r] /\ todo' = Tail(todo)
        /\ UNCHANGED <<modules, current, files, phase>>
    BY <1>3 DEF Instance
  <2>2. /\ IsScope(scopes[Scope]) /\ Scope \in DOMAIN scopes /\ WellFormed(scopes)
        /\ FieldsFine(scopes[Scope]) /\ Fields(scopes)
    BY <1>1, CurrentScope, SMTT(40) DEF DataInv, Fields, Inv
  <2>3. /\ Head(todo) \in Waiting /\ todo' \in Seq(Waiting) /\ ClosureLast(todo')
        /\ ToSet(todo) = {Head(todo)} \cup ToSet(todo')
    BY <1>1, <2>1, TailTodo
  <2>4. known \subseteq Chain(scopes, Scope) /\ \A i \in known : v \in DOMAIN scopes[i].vars
    BY DEF Holders, Chain
  <2>5. known # {} => near \in known
    <3>1. Chain(scopes, Scope) \subseteq 1 .. Scope /\ Scope \in Nat
      BY <2>2 DEF WellFormed, Chained
    <3>2. known \subseteq 1 .. Scope
      BY <2>4, <3>1
    <3> HIDE DEF known
    <3>3. known # {} => \E i \in known : \A j \in known : j <= i
      BY <3>1, <3>2, Greatest
    <3> QED BY <3>3
  <2> HIDE DEF near
  <2>6. known # {} => held \in TypeRecords
    <3>1. known # {} => near \in DOMAIN scopes /\ v \in DOMAIN scopes[near].vars
      BY <2>2, <2>4, <2>5, ChainsHoldScopes
    <3> QED BY <2>2, <3>1 DEF Fields, FieldsFine
  <2>7. type = held \/ type.in = 0
    BY DEF Unknown
  <2>8. known = {} => type = Unknown(NoName)
    BY SMTT(40)
  <2>9. known # {} => \E i \in known : type.in = 0 \/ type = scopes[i].vars[v]
    BY <2>5, <2>7
  <2>10. v \in VarNames
    BY <1>1, <2>3 DEF Waiting
  <2>11. /\ \A x : HasName(todo, x) => x = v \/ HasName(todo', x)
         /\ \A x : HasTemp(todo, x) => HasTemp(todo', x)
    BY <1>1, <2>3 DEF HasName, HasTemp
  <2> HIDE DEF held, known, type
  <2>12. /\ IsScope(new) /\ new.vars = scopes[Scope].vars /\ new.path = scopes[Scope].path
         /\ new.types = scopes[Scope].types
         /\ new.of = scopes[Scope].of /\ new.module = scopes[Scope].module
         /\ new.insts = PutNew(scopes[Scope].insts, v, type)
         /\ new.sends = scopes[Scope].sends
    BY <2>2, WithInstFields
  <2> HIDE DEF new, v
  <2>13. /\ r.insts = PutNew(scopes[Scope].insts, v, type)
         /\ r.sends = scopes[Scope].sends
         /\ r.vars = IF known = {} THEN Put(scopes[Scope].vars, v, type)
                     ELSE scopes[Scope].vars
    BY <2>12, WithVarFields
  <2>14. FieldsFine(r)
    <3>1. FieldsFine(new)
      BY <2>2, <2>12, FieldsSame
    <3>2. Unknown(NoName) \in TypeRecords
      BY DEF Unknown, TypeRecords
    <3>3. known = {} => FieldsFine(WithVar(new, v, type))
      BY <2>8, <2>10, <2>12, <3>1, <3>2, VariableFine
    <3> QED BY <3>1, <3>3
  <2> HIDE DEF r
  <2>15. Fields(scopes')
    BY <2>1, <2>2, <2>14, FieldsReplaced
  <2>16. /\ scopes'[Scope] = r /\ Chain(scopes', Scope) = Chain(scopes, Scope)
         /\ Scope \in Chain(scopes, Scope)
    BY <2>1, <2>2 DEF Extends, Chain, WellFormed, Chained
  <2>17. known = {} => type.in = 0 /\ Scope \in Chain(scopes', Scope)
                       /\ v \in DOMAIN scopes'[Scope].vars
    BY <2>8, <2>13, <2>16 DEF Unknown, Put
  <2>18. ASSUME NEW i \in known
         PROVE  /\ i \in Chain(scopes', Scope) /\ v \in DOMAIN scopes'[i].vars
                /\ type.in # 0 /\ type = scopes[i].vars[v] => type = scopes'[i].vars[v]
    <3>1. i \in DOMAIN scopes
      BY <2>2, <2>4, ChainsHoldScopes
    <3> QED BY <2>4, <2>16, <3>1 DEF Extends
  <2>19. \E i \in Chain(scopes', Scope) :
           /\ v \in DOMAIN scopes'[i].vars
           /\ type.in = 0 \/ type = scopes'[i].vars[v]
    BY <2>9, <2>17, <2>18
  <2>20. ASSUME NEW w \in DOMAIN r.insts \cap VarNames
         PROVE  Stands(scopes', Scope, w) \/ (r.insts[w].in = 0 /\ HasName(todo', w))
    <3>1. CASE w \in DOMAIN scopes[Scope].insts
      <4>1. r.insts[w] = scopes[Scope].insts[w]
        BY <2>13, <3>1 DEF PutNew
      <4>2. CASE Stands(scopes, Scope, w)
        BY <2>2, <2>16, <4>1, <4>2, StandsKept
      <4>3. CASE ~Stands(scopes, Scope, w)
        <5>1. scopes[Scope].insts[w].in = 0 /\ HasName(todo, w)
          BY <2>2, <3>1, <4>3 DEF DataInv, InstancesFine, AwaitsName
        <5>2. w = v => Stands(scopes', Scope, w)
          BY <2>16, <2>19, <4>1, <5>1 DEF Stands
        <5> QED BY <2>11, <4>1, <5>1, <5>2
      <4> QED BY <4>2, <4>3
    <3>2. CASE w \notin DOMAIN scopes[Scope].insts
      <4>1. w = v /\ r.insts[w] = type
        BY <2>13, <3>2 DEF PutNew
      <4> QED BY <2>16, <2>19, <4>1 DEF Stands
    <3> QED BY <3>1, <3>2
  <2>21. ASSUME NEW params \in {r.sends[k] : k \in DOMAIN r.sends}, NEW i \in DOMAIN params,
                params[i].kind = "literal"
         PROVE  params[i].temp \in DOMAIN r.insts \/ HasTemp(todo', params[i].temp)
    <3>1. params \in Sent(Scope)
      BY <2>13 DEF Sent
    <3>2. params[i].temp \in DOMAIN scopes[Scope].insts \/ HasTemp(todo, params[i].temp)
      BY <2>2, <2>21, <3>1 DEF DataInv, LiteralsFine, AwaitsTemp
    <3>3. DOMAIN scopes[Scope].insts \subseteq DOMAIN r.insts
      BY <2>13 DEF PutNew
    <3> QED BY <2>11, <3>2, <3>3
  <2>22. InstancesFine' /\ LiteralsFine'
    BY <1>1, <2>1, <2>20, <2>21, Replaced
  <2>23. TodoFine' /\ StateFine'
    BY <1>1, <2>1, <2>3 DEF DataInv, TodoFine, StateFine, Walking
  <2> QED BY <2>15, <2>22, <2>23, SMTT(40) DEF DataInv
<1> QED BY <1>2, <1>3, SMTT(40)

(* The instance of a literal is declared. *)
LEMMA LiteralData ==
  ASSUME Inv, DataInv, Extends(scopes, scopes'), Literal
  PROVE  DataInv'
<1> DEFINE t == Head(todo).temp
<1> DEFINE type == Global("int32")
<1> DEFINE r == WithInst(scopes[Scope], t, type)
<1>1. Walking /\ todo # <<>> /\ Head(todo).kind = "literal"
  BY DEF Literal, Visits
<1>2. CASE Throw
  BY <1>2, StopData
<1>3. CASE ~Throw
  <2>1. /\ scopes' = [scopes EXCEPT ![Scope] = r] /\ todo' = Tail(todo)
        /\ UNCHANGED <<modules, current, files, phase>>
    BY <1>3 DEF Literal
  <2>2. /\ IsScope(scopes[Scope]) /\ Scope \in DOMAIN scopes /\ WellFormed(scopes)
        /\ FieldsFine(scopes[Scope]) /\ Fields(scopes)
    BY <1>1, CurrentScope DEF DataInv, Fields, Inv
  <2>3. /\ Head(todo) \in Waiting /\ todo' \in Seq(Waiting) /\ ClosureLast(todo')
        /\ ToSet(todo) = {Head(todo)} \cup ToSet(todo')
    BY <1>1, <2>1, TailTodo
  <2>4. t \notin VarNames
    <3>1. t \in ToSet(Temps)
      BY <2>3 DEF Waiting
    <3> QED BY <3>1, ScopesAssumption
  <2>5. /\ \A x : HasName(todo, x) => HasName(todo', x)
        /\ \A x : HasTemp(todo, x) => x = t \/ HasTemp(todo', x)
    BY <1>1, <2>3 DEF HasName, HasTemp
  <2> HIDE DEF t, type
  <2>6. /\ r.vars = scopes[Scope].vars /\ r.types = scopes[Scope].types
        /\ r.of = scopes[Scope].of /\ r.module = scopes[Scope].module
        /\ r.insts = PutNew(scopes[Scope].insts, t, type)
        /\ r.sends = scopes[Scope].sends
    BY <2>2, WithInstFields
  <2> HIDE DEF r
  <2>7. FieldsFine(r)
    BY <2>2, <2>6, FieldsSame
  <2>8. Fields(scopes')
    BY <2>1, <2>2, <2>7, FieldsReplaced
  <2>9. scopes'[Scope] = r
    BY <2>1, <2>2
  <2>10. ASSUME NEW w \in DOMAIN r.insts \cap VarNames
         PROVE  Stands(scopes', Scope, w) \/ (r.insts[w].in = 0 /\ HasName(todo', w))
    <3>1. w \in DOMAIN scopes[Scope].insts /\ r.insts[w] = scopes[Scope].insts[w]
      BY <2>4, <2>6 DEF PutNew
    <3>2. \/ Stands(scopes, Scope, w)
          \/ scopes[Scope].insts[w].in = 0 /\ HasName(todo, w)
      BY <2>2, <3>1 DEF DataInv, InstancesFine, AwaitsName
    <3>3. Stands(scopes, Scope, w) => Stands(scopes', Scope, w)
      BY <2>2, <2>9, <3>1, StandsKept
    <3> QED BY <2>5, <3>1, <3>2, <3>3
  <2>11. ASSUME NEW params \in {r.sends[k] : k \in DOMAIN r.sends}, NEW i \in DOMAIN params,
                params[i].kind = "literal"
         PROVE  params[i].temp \in DOMAIN r.insts \/ HasTemp(todo', params[i].temp)
    <3>1. params \in Sent(Scope)
      BY <2>6 DEF Sent
    <3>2. params[i].temp \in DOMAIN scopes[Scope].insts \/ HasTemp(todo, params[i].temp)
      BY <2>2, <2>11, <3>1 DEF DataInv, LiteralsFine, AwaitsTemp
    <3>3. DOMAIN r.insts = DOMAIN scopes[Scope].insts \cup {t}
      BY <2>6 DEF PutNew
    <3> QED BY <2>5, <3>2, <3>3
  <2>12. InstancesFine' /\ LiteralsFine'
    BY <1>1, <2>1, <2>10, <2>11, Replaced
  <2>13. TodoFine' /\ StateFine'
    BY <1>1, <2>1, <2>3 DEF DataInv, TodoFine, StateFine, Walking
  <2> QED BY <2>8, <2>12, <2>13 DEF DataInv
<1> QED BY <1>2, <1>3
-----------------------------------------------------------------------------
(* The names that are left come from Temps. *)
LEMMA UnusedTemps == Unused \in Seq(ToSet(Temps))
<1> DEFINE params == UNION {UNION {ToSet(p) : p \in Sent(s)} : s \in DOMAIN scopes}
<1> DEFINE used == {x.temp : x \in params \cup ToSet(todo)}
                     \cup UNION {DOMAIN scopes[s].insts : s \in DOMAIN scopes}
<1> DEFINE T == {i \in DOMAIN Temps : Temps[i] \in used}
<1> DEFINE last == Max({0} \cup T)
<1> DEFINE n == Len(Temps)
<1>1. Unused = SubSeq(Temps, last + 1, n)
  BY Zenon DEF Unused
<1> HIDE DEF params, used
<1>2. Temps \in Seq(ToSet(Temps)) /\ n \in Nat /\ DOMAIN Temps = 1 .. n
  BY ScopesAssumption
<1>3. T \subseteq 1 .. n
  BY <1>2
<1> HIDE DEF T, n
<1>4. \E m \in {0} \cup T : \A k \in {0} \cup T : m >= k
  <2>1. CASE T = {}
    BY <2>1
  <2>2. CASE T # {}
    <3>1. PICK m \in T : \A k \in T : k <= m
      BY <1>2, <1>3, <2>2, Greatest
    <3>2. m \in 1 .. n /\ T \subseteq Int
      BY <1>3
    <3> QED BY <1>2, <3>1, <3>2
  <2> QED BY <2>1, <2>2
<1>5. last \in {0} \cup T
  BY <1>4 DEF Max
<1> HIDE DEF last
<1>6. last + 1 \in Int /\ n \in Int /\ \A i \in (last + 1) .. n : i \in 1 .. n
  BY <1>2, <1>3, <1>5
<1>7. \A i \in (last + 1) .. n : Temps[i] \in ToSet(Temps)
  BY <1>2, <1>6 DEF ToSet
<1> QED BY <1>1, <1>6, <1>7, SubSeqProperties

(* The elements of one sequence after the other. *)
LEMMA ConcatElements ==
  ASSUME NEW S, NEW p \in Seq(S), NEW q \in Seq(S)
  PROVE  ToSet(p \o q) = ToSet(p) \cup ToSet(q)
<1> DEFINE r == p \o q
<1> DEFINE m == Len(p)
<1> DEFINE n == Len(q)
<1>1. /\ r \in Seq(S) /\ Len(r) = m + n /\ m \in Nat /\ n \in Nat
      /\ \A i \in 1 .. m : r[i] = p[i]
      /\ \A i \in 1 .. n : r[m + i] = q[i]
  BY Concatenated
<1>2. DOMAIN p = 1 .. m /\ DOMAIN q = 1 .. n
  OBVIOUS
<1> HIDE DEF r, m, n
<1>3. DOMAIN r = 1 .. (m + n)
  BY <1>1
<1>4. \A i \in 1 .. (m + n) : i \in 1 .. m \/ (i - m \in 1 .. n /\ m + (i - m) = i)
  BY <1>1
<1>5. /\ \A i \in 1 .. m : i \in 1 .. (m + n)
      /\ \A i \in 1 .. n : m + i \in 1 .. (m + n)
  BY <1>1
<1>6. ASSUME NEW i \in DOMAIN r
      PROVE  r[i] \in ToSet(p) \cup ToSet(q)
  <2>1. CASE i \in 1 .. m
    BY <1>1, <1>2, <2>1 DEF ToSet
  <2>2. CASE i \notin 1 .. m
    <3>1. i - m \in 1 .. n /\ m + (i - m) = i
      BY <1>3, <1>4, <2>2
    <3>2. r[i] = q[i - m]
      BY <1>1, <3>1
    <3> QED BY <1>2, <3>1, <3>2 DEF ToSet
  <2> QED BY <2>1, <2>2
<1>7. ASSUME NEW i \in DOMAIN p PROVE p[i] \in ToSet(r)
  BY <1>1, <1>2, <1>3, <1>5 DEF ToSet
<1>8. ASSUME NEW i \in DOMAIN q PROVE q[i] \in ToSet(r)
  <2>1. q[i] = r[m + i] /\ m + i \in DOMAIN r
    BY <1>1, <1>2, <1>3, <1>5
  <2> QED BY <2>1 DEF ToSet
<1>9. ToSet(r) = ToSet(p) \cup ToSet(q)
  BY <1>6, <1>7, <1>8 DEF ToSet
<1> QED BY <1>9 DEF r

(* A closure stays the last one. *)
LEMMA ClosureConcat ==
  ASSUME NEW S, NEW p \in Seq(S), NEW q \in Seq(S), ClosureLast(p), ClosureLast(q),
         (\E x \in ToSet(p) : x.kind = "closure") => q = <<>>
  PROVE  ClosureLast(p \o q)
<1> DEFINE r == p \o q
<1> DEFINE m == Len(p)
<1> DEFINE n == Len(q)
<1>1. /\ r \in Seq(S) /\ Len(r) = m + n /\ m \in Nat /\ n \in Nat
      /\ \A i \in 1 .. m : r[i] = p[i]
      /\ \A i \in 1 .. n : r[m + i] = q[i]
  BY Concatenated
<1>2. DOMAIN p = 1 .. m /\ (q = <<>> => n = 0)
  OBVIOUS
<1>3. ClosureLast(p) => \A i \in 1 .. m : p[i].kind = "closure" => i = m
  BY DEF ClosureLast
<1>4. ClosureLast(q) => \A i \in 1 .. n : q[i].kind = "closure" => i = n
  BY DEF ClosureLast
<1> HIDE DEF r, m, n
<1>5. \A i \in 1 .. (m + n) : i \in 1 .. m \/ (i - m \in 1 .. n /\ m + (i - m) = i)
  BY <1>1
<1>6. ASSUME NEW i \in 1 .. (m + n), r[i].kind = "closure"
      PROVE  i = m + n
  <2>1. CASE i \in 1 .. m
    <3>1. p[i].kind = "closure" /\ p[i] \in ToSet(p)
      BY <1>1, <1>2, <1>6, <2>1 DEF ToSet
    <3>2. i = m /\ n = 0
      BY <1>2, <1>3, <2>1, <3>1
    <3> QED BY <1>1, <3>2
  <2>2. CASE i \notin 1 .. m
    <3> DEFINE j == i - m
    <3>1. j \in 1 .. n /\ m + j = i
      BY <1>5, <2>2
    <3> HIDE DEF j
    <3>2. q[j].kind = "closure"
      BY <1>1, <1>6, <3>1
    <3>3. j = n
      BY <1>4, <3>1, <3>2
    <3> QED BY <3>1, <3>3
  <2> QED BY <2>1, <2>2
<1>7. ClosureLast(r)
  BY <1>1, <1>6 DEF ClosureLast
<1> QED BY <1>7 DEF r

(* A message is sent: its receiver and its arguments wait. *)
LEMMA SendData ==
  ASSUME Inv, DataInv, Extends(scopes, scopes'), MaySend, NEW to \in Nodes, NEW msg,
         NEW args \in Arguments, Send(to, msg, args)
  PROVE  DataInv'
<1> DEFINE rest == IF todo = <<>> THEN <<>> ELSE Tail(todo)
<1> DEFINE temps == Unused
<1> DEFINE name == IF to.kind = "instance" THEN to.name ELSE temps[1]
<1> DEFINE params == [i \in DOMAIN args |-> Named(args[i], temps[i + 1])]
<1> DEFINE key == [msg |-> msg, to |-> name, any |-> args # <<>>]
<1> DEFINE type == ReceiverType(name)
<1> DEFINE new == WithInst(scopes[Scope], name, type)
<1> DEFINE r == WithSend(new, key, params)
<1> DEFINE a == Named(to, temps[1])
<1> DEFINE first == <<a>>
<1>1. /\ to.kind # "closure"
      /\ \A i \in DOMAIN args : args[i].kind = "closure" => i = Len(args) /\ rest = <<>>
      /\ Len(temps) > Len(args)
      /\ scopes' = [scopes EXCEPT ![Scope] = r]
      /\ todo' = first \o params \o rest
      /\ UNCHANGED <<modules, current, files, phase>>
  <2>1. /\ to.kind # "closure"
        /\ \A i \in DOMAIN args : args[i].kind = "closure" => i = Len(args) /\ rest = <<>>
    BY Zenon DEF Send
  <2>2. Len(temps) > Len(args)
    BY Zenon DEF Send
  <2>3. scopes' = [scopes EXCEPT ![Scope] = r]
    BY Zenon DEF Send
  <2>4. todo' = first \o params \o rest
    BY Zenon DEF Send
  <2>5. UNCHANGED <<modules, current, files, phase>>
    BY DEF Send
  <2> HIDE DEF rest, temps, params, r
  <2> QED BY <2>1, <2>2, <2>3, <2>4, <2>5
<1>2. Walking /\ (todo # <<>> => Head(todo).kind = "send")
  BY DEF MaySend
<1>3. /\ IsScope(scopes[Scope]) /\ Scope \in DOMAIN scopes /\ WellFormed(scopes)
      /\ FieldsFine(scopes[Scope]) /\ Fields(scopes)
  BY <1>2, CurrentScope DEF DataInv, Fields, Inv
<1>4. /\ rest \in Seq(Waiting) /\ ClosureLast(rest)
      /\ \A n \in ToSet(todo) : n.kind = "send" \/ n \in ToSet(rest)
  <2>1. CASE todo = <<>>
    <3>1. <<>> \in Seq(Waiting) /\ ClosureLast(<<>>) /\ ToSet(<<>>) = {}
      BY DEF ClosureLast, ToSet
    <3> QED BY <2>1, <3>1
  <2>2. CASE todo # <<>>
    BY <1>2, <2>2, TailTodo
  <2> QED BY <2>1, <2>2
<1>5. /\ args \in Seq(Nodes) /\ Len(args) \in Nat /\ DOMAIN args = 1 .. Len(args)
  <2>1. PICK n \in 0 .. MaxArgs : args \in [1 .. n -> Nodes]
    BY DEF Arguments
  <2>2. n \in Nat
    BY ScopesAssumption
  <2> HIDE DEF Nodes
  <2> QED BY <2>1, <2>2
<1>6. /\ temps \in Seq(ToSet(Temps)) /\ Len(temps) \in Nat
      /\ \A i \in 1 .. Len(temps) : temps[i] \in ToSet(Temps)
  BY UnusedTemps
<1> HIDE DEF temps, rest
<1>7. /\ temps[1] \in ToSet(Temps)
      /\ \A i \in 1 .. Len(args) : temps[i + 1] \in ToSet(Temps)
  <2> DEFINE n == Len(args)
  <2> DEFINE m == Len(temps)
  <2>1. n \in Nat /\ m \in Nat /\ m > n /\ \A i \in 1 .. m : temps[i] \in ToSet(Temps)
    BY <1>1, <1>5, <1>6
  <2> HIDE DEF n, m
  <2>2. 1 \in 1 .. m /\ \A i \in 1 .. n : i + 1 \in 1 .. m
    BY <2>1
  <2>3. temps[1] \in ToSet(Temps) /\ \A i \in 1 .. n : temps[i + 1] \in ToSet(Temps)
    BY <2>1, <2>2
  <2> QED BY <2>3 DEF n
<1>8. ASSUME NEW node \in Nodes, NEW temp \in ToSet(Temps)
      PROVE  /\ Named(node, temp) \in Waiting /\ Named(node, temp).kind = node.kind
             /\ Named(node, temp).name = node.name /\ Named(node, temp).temp = temp
  BY DEF Named, Nodes, Waiting
<1>9. \A i \in DOMAIN args : args[i] \in Nodes
  <2> HIDE DEF Nodes
  <2> QED BY <1>5
<1>10. /\ a \in Waiting /\ a.kind = to.kind /\ a.name = to.name
       /\ \A i \in DOMAIN args :
            params[i] \in Waiting /\ params[i].kind = args[i].kind
  BY <1>5, <1>7, <1>8, <1>9
<1>11. params \in Seq(Waiting) /\ DOMAIN params = DOMAIN args /\ Len(params) = Len(args)
  <2> HIDE DEF a
  <2>1. params = [i \in 1 .. Len(args) |-> params[i]]
    BY <1>5
  <2> HIDE DEF params
  <2>2. params \in [1 .. Len(args) -> Waiting]
    BY <1>5, <1>10, <2>1
  <2> HIDE DEF Waiting
  <2> QED BY <1>5, <2>1, <2>2
<1>12. first \in Seq(Waiting) /\ ToSet(first) = {a} /\ ClosureLast(first)
  <2>1. a \in Waiting /\ a.kind # "closure"
    BY <1>1, <1>10
  <2> HIDE DEF a, Waiting
  <2>2. first \in Seq(Waiting) /\ Len(first) = 1 /\ DOMAIN first = {1} /\ first[1] = a
    BY <2>1
  <2> HIDE DEF first
  <2>3. ToSet(first) = {a}
    BY <2>2 DEF ToSet
  <2>4. ClosureLast(first)
    BY <2>2 DEF ClosureLast
  <2> QED BY <2>2, <2>3, <2>4
<1> HIDE DEF params, first
<1>13. /\ first \o params \in Seq(Waiting) /\ first \o params \o rest \in Seq(Waiting)
       /\ ToSet(first \o params) = {a} \cup ToSet(params)
       /\ ToSet(todo') = {a} \cup ToSet(params) \cup ToSet(rest)
  <2> HIDE DEF a, Waiting
  <2>1. first \o params \in Seq(Waiting) /\ ToSet(first \o params) = {a} \cup ToSet(params)
    BY <1>11, <1>12, Concatenated, ConcatElements
  <2> DEFINE P == first \o params
  <2> HIDE DEF P
  <2>2. P \o rest \in Seq(Waiting) /\ ToSet(P \o rest) = ToSet(P) \cup ToSet(rest)
    <3>1. P \in Seq(Waiting)
      BY <2>1 DEF P
    <3> QED BY <1>4, <3>1, Concatenated, ConcatElements
  <2> QED BY <1>1, <2>1, <2>2 DEF P
<1>14. ClosureLast(todo')
  <2>1. ClosureLast(params)
    <3>1. ASSUME NEW i \in 1 .. Len(params), params[i].kind = "closure"
          PROVE  i = Len(params)
      BY <1>1, <1>5, <1>10, <1>11, <3>1 DEF params
    <3> QED BY <3>1 DEF ClosureLast
  <2>2. \A x \in ToSet(first) : x.kind # "closure"
    BY <1>1, <1>10, <1>12
  <2>3. (\E x \in ToSet(params) : x.kind = "closure") => rest = <<>>
    BY <1>1, <1>10, <1>11 DEF ToSet, params
  <2> DEFINE P == first \o params
  <2>4. ClosureLast(P) /\ P \in Seq(Waiting)
    BY <1>11, <1>12, <1>13, <2>1, <2>2, ClosureConcat
  <2>5. (\E x \in ToSet(P) : x.kind = "closure") => rest = <<>>
    BY <1>12, <1>13, <2>2, <2>3
  <2> HIDE DEF P
  <2>6. ClosureLast(P \o rest)
    BY <1>4, <2>4, <2>5, ClosureConcat
  <2> QED BY <1>1, <2>6 DEF P
<1>15. \A x : /\ HasName(todo, x) => HasName(todo', x)
              /\ HasTemp(todo, x) => HasTemp(todo', x)
  BY <1>4, <1>13 DEF HasName, HasTemp
<1> HIDE DEF a
<1>16. /\ name \in VarNames => to.kind = "instance" /\ to.name = name
       /\ name \in VarNames => HasName(todo', name)
  <2>1. temps[1] \notin VarNames
    BY <1>7, ScopesAssumption
  <2> QED BY <1>10, <1>13, <2>1 DEF HasName
<1>17. \/ type.in = 0
       \/ name \in DOMAIN scopes[Scope].vars /\ type = scopes[Scope].vars[name]
  BY DEF ReceiverType, Unknown
<1> HIDE DEF name, type, key
<1>18. /\ IsScope(new) /\ new.vars = scopes[Scope].vars
       /\ new.types = scopes[Scope].types
       /\ new.of = scopes[Scope].of /\ new.module = scopes[Scope].module
       /\ new.insts = PutNew(scopes[Scope].insts, name, type)
       /\ new.sends = scopes[Scope].sends
  BY <1>3, WithInstFields
<1> HIDE DEF new
<1>19. /\ r.vars = scopes[Scope].vars /\ r.types = scopes[Scope].types
       /\ r.of = scopes[Scope].of /\ r.module = scopes[Scope].module
       /\ r.insts = PutNew(scopes[Scope].insts, name, type)
       /\ r.sends = PutNew(scopes[Scope].sends, key, params)
  BY <1>18, SendsFields DEF WithSend
<1> HIDE DEF r
<1>20. Fields(scopes')
  <2>1. FieldsFine(r)
    BY <1>3, <1>19, FieldsSame
  <2> QED BY <1>1, <1>3, <2>1, FieldsReplaced
<1>21. /\ scopes'[Scope] = r /\ Scope \in Chain(scopes', Scope)
  BY <1>1, <1>3 DEF Extends, Chain, WellFormed, Chained
<1>22. ASSUME NEW w \in DOMAIN r.insts \cap VarNames
       PROVE  Stands(scopes', Scope, w) \/ (r.insts[w].in = 0 /\ HasName(todo', w))
  <2>1. CASE w \in DOMAIN scopes[Scope].insts
    <3>1. r.insts[w] = scopes[Scope].insts[w]
      BY <1>19, <2>1 DEF PutNew
    <3>2. \/ Stands(scopes, Scope, w)
          \/ scopes[Scope].insts[w].in = 0 /\ HasName(todo, w)
      BY <1>3, <2>1 DEF DataInv, InstancesFine, AwaitsName
    <3>3. Stands(scopes, Scope, w) => Stands(scopes', Scope, w)
      BY <1>3, <1>21, <3>1, StandsKept
    <3> QED BY <1>15, <3>1, <3>2, <3>3
  <2>2. CASE w \notin DOMAIN scopes[Scope].insts
    <3>1. w = name /\ r.insts[w] = type
      BY <1>19, <2>2 DEF PutNew
    <3>2. CASE type.in = 0
      BY <1>16, <3>1, <3>2
    <3>3. CASE name \in DOMAIN scopes[Scope].vars /\ type = scopes[Scope].vars[name]
      BY <1>19, <1>21, <3>1, <3>3 DEF Stands
    <3> QED BY <1>17, <3>2, <3>3
  <2> QED BY <2>1, <2>2
<1>23. ASSUME NEW ps \in {r.sends[k] : k \in DOMAIN r.sends}, NEW i \in DOMAIN ps,
              ps[i].kind = "literal"
       PROVE  ps[i].temp \in DOMAIN r.insts \/ HasTemp(todo', ps[i].temp)
  <2>1. CASE ps \in Sent(Scope)
    <3>1. ps[i].temp \in DOMAIN scopes[Scope].insts \/ HasTemp(todo, ps[i].temp)
      BY <1>3, <1>23, <2>1 DEF DataInv, LiteralsFine, AwaitsTemp
    <3>2. DOMAIN scopes[Scope].insts \subseteq DOMAIN r.insts
      BY <1>19 DEF PutNew
    <3> QED BY <1>15, <3>1, <3>2
  <2>2. CASE ps \notin Sent(Scope)
    <3>1. ps = params
      BY <1>19, <2>2 DEF PutNew, Sent
    <3>2. ps[i] \in ToSet(todo')
      BY <1>13, <3>1 DEF ToSet
    <3> QED BY <1>23, <3>2 DEF HasTemp
  <2> QED BY <2>1, <2>2
<1>24. InstancesFine' /\ LiteralsFine'
  BY <1>1, <1>2, <1>22, <1>23, Replaced
<1>25. TodoFine' /\ StateFine'
  BY <1>1, <1>2, <1>13, <1>14 DEF DataInv, TodoFine, StateFine, Walking
<1> QED BY <1>20, <1>24, <1>25 DEF DataInv
-----------------------------------------------------------------------------
(* Nothing is declared or sent before the first file. *)
LEMMA InitData == Init => DataInv
<1> SUFFICES ASSUME Init PROVE DataInv
  OBVIOUS
<1> DEFINE q == NewScope(<<>>, Root, NoName, NoName)
<1> DEFINE r == [q EXCEPT !.types = Primitives]
<1>1. /\ scopes = <<r>> /\ DOMAIN modules = {} /\ phase = "ready" /\ files = 0
      /\ todo = <<>>
  BY DEF Init
<1>2. /\ IsScope(q) /\ q.of = NoName /\ q.module = NoName /\ DOMAIN q.vars = {}
      /\ DOMAIN q.insts = {} /\ DOMAIN q.sends = {}
  <2>1. <<>> \in Seq(Nat) /\ Root \in Nat
    BY DEF Root
  <2> HIDE DEF q
  <2>2. q = NewScope(<<>>, Root, NoName, NoName)
    BY DEF q
  <2>3. /\ q.of = NoName /\ q.module = NoName
        /\ DOMAIN q.insts = {} /\ DOMAIN q.sends = {}
    BY <2>2, NewScopeNames
  <2>4. IsScope(q) /\ DOMAIN q.vars = {}
    BY <2>1, <2>2, NewScopeFields
  <2> QED BY <2>3, <2>4
<1> HIDE DEF q
<1>3. /\ r.of = NoName /\ r.module = NoName /\ DOMAIN r.vars = {} /\ r.types = Primitives
      /\ DOMAIN r.insts = {} /\ DOMAIN r.sends = {}
  BY <1>2, TypesFields
<1> HIDE DEF r
<1>4. DOMAIN scopes = {1} /\ scopes[1] = r
  BY <1>1
<1>5. FieldsFine(r)
  BY <1>3, ScopesAssumption DEF FieldsFine
<1>6. Fields(scopes) /\ InstancesFine /\ LiteralsFine
  BY <1>3, <1>4, <1>5 DEF Fields, InstancesFine, LiteralsFine, Sent
<1>7. TodoFine /\ StateFine
  BY <1>1, ScopesAssumption DEF TodoFine, ClosureLast, StateFine
<1> QED BY <1>6, <1>7 DEF DataInv

(* Every step keeps what is declared and sent in order. *)
LEMMA NextData ==
  ASSUME Inv, DataInv, [Next]_vars
  PROVE  DataInv'
<1>0. Extends(scopes, scopes')
  BY NextInv
<1>1. CASE UNCHANGED vars
  <2>1. /\ UNCHANGED <<scopes, modules, current, todo, files, phase>>
        /\ DOMAIN modules' = DOMAIN modules
    BY <1>1 DEF vars
  <2>2. /\ Extends(scopes, scopes') /\ Quiet(scopes, scopes') /\ Fields(scopes')
        /\ StillAwaited
    BY <2>1, SameAwaited, QuietSame, ExtendsSame DEF DataInv
  <2>3. phase \in Phases /\ (phase \in {"ready", "done", "built"} => todo = <<>>)
    BY DEF DataInv, StateFine, TodoFine, Phases
  <2> QED BY <2>1, <2>2, <2>3, QuietData DEF Undisturbed
<1>2. CASE \E m \in ModuleNames \cup {NoName} : StartFile(m)
  BY <1>0, <1>2, StartFileData
<1>3. CASE \E n \in NamespaceNames : EnterNamespace(n)
  BY <1>0, <1>3, EnterNamespaceData
<1>4. CASE \E t \in TypeNames : EnterClass(t) \/ EnterRecord(t)
  BY <1>0, <1>4, EnterClassData, EnterRecordData
<1>5. CASE \E ps \in Params : EnterMessage(ps) \/ EnterClosure(ps)
  BY <1>0, <1>5, EnterMessagesData
<1>6. CASE \E v \in VarNames, t \in TypeNames : Variable(v, t)
  BY <1>0, <1>6, VariableData
<1>7. CASE MaySend /\ \E to \in Nodes, msg \in Messages, args \in Arguments :
                        Send(to, msg, args)
  BY <1>0, <1>7, SendData
<1>8. CASE Instance
  BY <1>0, <1>8, InstanceData
<1>9. CASE Literal
  BY <1>0, <1>9, LiteralData
<1>10. CASE VisitOther \/ Generate
  BY <1>10, StopData
<1>11. CASE LeaveNamespace \/ LeaveScope \/ LeaveRecord \/ EndFile
  BY <1>0, <1>11, LeaveData
<1>12. CASE Resolve
  BY <1>0, <1>12, ResolveData
<1> QED
  BY <1>1, <1>2, <1>3, <1>4, <1>5, <1>6, <1>7, <1>8, <1>9, <1>10, <1>11, <1>12 DEF Next

(* What is declared and sent stays in order in every build. *)
THEOREM Data == Spec => []DataInv
<1>1. Inv /\ DataInv /\ [Next]_vars => DataInv'
  BY NextData
<1> QED BY <1>1, InitData, Invariant, PTL DEF Spec

(* The types of the state: chains of parents that start at the scope of    *)
(* the compiler and end at their own, declarations with types of the build *)
(* and modules in their scopes.                                            *)
THEOREM TypeCorrect == Spec => []TypeOK
<1>1. Inv /\ WalkInv /\ DataInv => TypeOK
  <2> SUFFICES ASSUME Inv, WalkInv, DataInv PROVE TypeOK
    OBVIOUS
  <2>1. ASSUME NEW s \in DOMAIN scopes
        PROVE  /\ scopes[s].path[1] = Root /\ Last(scopes[s].path) = s
               /\ \A i \in 1 .. Len(scopes[s].path) - 1 :
                    scopes[s].path[i] \in 1 .. scopes[s].path[i + 1] - 1
    BY DEF WalkInv, Tree, InTree
  <2>2. ASSUME NEW s \in DOMAIN scopes, NEW v \in DOMAIN scopes[s].vars
        PROVE  scopes[s].vars[v] \in
                 [name : TypeNames \cup {NoName}, in : {0} \cup DOMAIN scopes]
    <3> DEFINE type == scopes[s].vars[v]
    <3>1. type \in TypeRecords
      BY DEF DataInv, Fields, FieldsFine
    <3>2. InSight(scopes, s, type)
      BY DEF Inv, WellFormed, Typed
    <3>3. type.in # 0 => type.in \in DOMAIN scopes
      BY <3>2, ChainsHoldScopes DEF InSight, Inv
    <3> HIDE DEF type
    <3>4. type \in [name : TypeNames \cup {NoName}, in : {0} \cup DOMAIN scopes]
      BY <3>1, <3>3 DEF TypeRecords
    <3> QED BY <3>4 DEF type
  <2>3. ASSUME NEW m \in DOMAIN modules
        PROVE  modules[m] \in [global : DOMAIN scopes, scope : DOMAIN scopes,
                               namespace : Seq(NamespaceNames)]
    <3>1. modules[m] \in [global : DOMAIN scopes, scope : DOMAIN scopes,
                          namespace : {modules[m].namespace}]
      BY DEF Inv, ModulesFine
    <3>2. modules[m].namespace \in Seq(NamespaceNames)
      BY DEF WalkInv, NamesMatch
    <3> DEFINE r == modules[m]
    <3> DEFINE N == Seq(NamespaceNames)
    <3>3. /\ r \in [global : DOMAIN scopes, scope : DOMAIN scopes, namespace : {r.namespace}]
          /\ r.namespace \in N
      BY <3>1, <3>2
    <3> HIDE DEF r, N
    <3>4. r \in [global : DOMAIN scopes, scope : DOMAIN scopes, namespace : N]
      BY <3>3
    <3> QED BY <3>4 DEF r, N
  <2>4. \A i \in DOMAIN todo : todo[i].temp \in ToSet(Temps)
    <3>1. todo \in Seq(Waiting)
      BY DEF DataInv, TodoFine
    <3>2. \A w \in Waiting : w.temp \in ToSet(Temps)
      BY DEF Waiting
    <3> HIDE DEF Waiting
    <3>3. \A i \in DOMAIN todo : todo[i] \in Waiting
      BY <3>1
    <3> QED BY <3>2, <3>3
  <2>5. current \in DOMAIN modules \cup {NoName}
    BY DEF Inv, ModulesFine
  <2>6. /\ DOMAIN modules \subseteq ModuleNames /\ files \in 0 .. MaxFiles
        /\ phase \in {"ready", "walking", "done", "built", "failed", "crashed", "undefined"}
    BY DEF DataInv, StateFine
  <2>7. \A s \in DOMAIN scopes : FieldsFine(scopes[s])
    BY DEF DataInv, Fields
  <2> QED BY <2>1, <2>2, <2>3, <2>4, <2>5, <2>6, <2>7 DEF TypeOK, FieldsFine
<1> QED BY <1>1, Invariant, Walks, Data, PTL

(* When no message is being sent every instance stands for a variable in   *)
(* sight, though the handler of the send and that of the receiver declare  *)
(* them apart.                                                             *)
THEOREM InstancesStand == Spec => []InstancesAreVariables
<1>1. DataInv => InstancesAreVariables
  <2> SUFFICES ASSUME DataInv, todo = <<>>, NEW s \in DOMAIN scopes,
                      NEW v \in DOMAIN scopes[s].insts \cap VarNames
               PROVE  Stands(scopes, s, v)
    BY DEF InstancesAreVariables, Stands, Chain
  <2>1. ~HasName(todo, v)
    BY DEF HasName, ToSet
  <2> QED BY <2>1 DEF DataInv, InstancesFine, AwaitsName
<1> QED BY <1>1, Data, PTL

(* When no message is being sent the literals of every send have their     *)
(* instances in the scope of the send, where stage 3 looks for them.       *)
THEOREM LiteralsStand == Spec => []LiteralsFound
<1>1. DataInv => LiteralsFound
  <2> SUFFICES ASSUME DataInv, todo = <<>>, NEW s \in DOMAIN scopes, NEW params \in Sent(s),
                      NEW i \in DOMAIN params, params[i].kind = "literal"
               PROVE  params[i].temp \in DOMAIN scopes[s].insts
    BY DEF LiteralsFound
  <2>1. ~HasTemp(todo, params[i].temp)
    BY DEF HasTemp, ToSet
  <2> QED BY <2>1 DEF DataInv, LiteralsFine, AwaitsTemp
<1> QED BY <1>1, Data, PTL
=============================================================================
