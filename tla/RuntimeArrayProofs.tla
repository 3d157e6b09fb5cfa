------------------------- MODULE RuntimeArrayProofs -------------------------
(***************************************************************************)
(* Proofs about module RuntimeArray, for clients that keep every contract  *)
(* (Careless = {}) and for arrays of any size over any elements: memory is *)
(* sound after every operation, and the array is a vector.                 *)
(*                                                                         *)
(* Sound with a bound on the size is inductive.  One lemma for each helper *)
(* says what it makes of a memory whose blocks are accounted for, one for  *)
(* each operation that it keeps the invariant and has its effect.          *)
(***************************************************************************)
EXTENDS RuntimeArray, SequenceTheorems, TLAPS

Memory == [data : Seq(Element), blocks : Nat, fault : BOOLEAN]

(* A memory that is accounted for. *)
Good(m) ==
  /\ m \in Memory /\ ~m.fault
  /\ m.blocks = IF m.data = <<>> THEN 0 ELSE 1
-----------------------------------------------------------------------------
(* Growing never shrinks, and grows from two on. *)
LEMMA GrownGrows ==
  ASSUME NEW c \in Nat
  PROVE  /\ Grown(c) \in Nat /\ c <= Grown(c)
         /\ c >= 2 => c < Grown(c)
BY DEF Grown

(* Two capacities together grow to more than the first. *)
LEMMA GrownSum ==
  ASSUME NEW c \in Nat, NEW d \in Nat
  PROVE  Grown(c + d) \in Nat /\ c + d <= Grown(c + d)
BY DEF Grown

(* The first capacity has room for the elements, and is 0 only for none. *)
LEMMA FirstCapacityFits ==
  ASSUME NEW n \in Nat
  PROVE  /\ FirstCapacity(n) \in Nat /\ n <= FirstCapacity(n)
         /\ n = 0 => FirstCapacity(n) = 0
BY GrownGrows DEF FirstCapacity

(* Memory that is zeroed holds elements. *)
LEMMA ZeroIsElement == Zero \in Element
BY ArrayAssumption DEF Zero, Element

(* A sequence is empty when its length is 0. *)
LEMMA EmptyData ==
  ASSUME NEW s \in Seq(Element)
  PROVE  (s = <<>>) <=> (Len(s) = 0)
BY EmptySeq
-----------------------------------------------------------------------------
(* A block that may be replaced is freed. *)
LEMMA FreeDataFrees ==
  ASSUME NEW m, Good(m), NEW sz \in Nat, sz > 0 \/ m.data = <<>>
  PROVE  /\ Good(FreeData(m, sz))
         /\ FreeData(m, sz).data = <<>> /\ FreeData(m, sz).blocks = 0
<1>1. <<>> \in Seq(Element)
  BY EmptySeq
<1> QED BY <1>1 DEF Good, Memory, FreeData

(* An array of size 0 keeps its block. *)
LEMMA FreeDataKeeps ==
  ASSUME NEW m
  PROVE  FreeData(m, 0) = m
BY DEF FreeData

(* A new block has the capacity asked for, the first elements of the old   *)
(* one, and replaces it.                                                   *)
LEMMA ReservedFits ==
  ASSUME NEW m, Good(m), NEW sz \in Nat, NEW cap \in Nat, cap > 0,
         m.data = <<>> \/ (sz > 0 /\ sz <= Len(m.data) /\ sz <= cap)
  PROVE  /\ Good(Reserved(m, sz, cap))
         /\ Len(Reserved(m, sz, cap).data) = cap
         /\ \A i \in 1 .. cap : Reserved(m, sz, cap).data[i] =
              IF i <= sz /\ m.data # <<>> THEN m.data[i] ELSE Zero
<1> DEFINE new == [i \in 1 .. cap |->
                     IF i <= sz /\ i <= Len(m.data) THEN m.data[i] ELSE Zero]
<1>1. Zeros(cap) \in Seq(Element) /\ Len(Zeros(cap)) = cap
  BY ZeroIsElement DEF Zeros
<1>2. m.data \in Seq(Element)
  BY DEF Good, Memory
<1>3. new \in Seq(Element) /\ Len(new) = cap
  BY <1>2, ZeroIsElement
<1>4. Zeros(cap) # <<>> /\ new # <<>>
  BY <1>1, <1>3, EmptyData
<1>5. CASE m.data = <<>>
  <2>1. Reserved(m, sz, cap) =
          [data |-> Zeros(cap), blocks |-> m.blocks + 1, fault |-> m.fault]
    BY <1>5 DEF Reserved
  <2>3. Reserved(m, sz, cap).data = Zeros(cap)
    BY <2>1 DEF Good, Memory
  <2>4. Good(Reserved(m, sz, cap))
    BY <1>1, <1>4, <1>5, <2>1 DEF Good, Memory
  <2> QED BY <1>1, <1>5, <2>3, <2>4 DEF Zeros
<1>6. CASE m.data # <<>>
  <2> DEFINE over == m.fault \/ sz > cap \/ sz > Len(m.data)
  <2>1. Reserved(m, sz, cap) =
          [data |-> new, blocks |-> FreeData(m, sz).blocks + 1, fault |-> over]
    BY <1>6 DEF Reserved
  <2>2. FreeData(m, sz).blocks = 0
    BY FreeDataFrees
  <2>3. over \in BOOLEAN /\ ~over
    BY <1>2, <1>6 DEF Good, Memory
  <2>4. Good(Reserved(m, sz, cap))
    <3> HIDE DEF new, over
    <3> QED BY <1>3, <1>4, <2>1, <2>2, <2>3 DEF Good, Memory
  <2> QED BY <1>3, <1>6, <2>1, <2>4
<1> QED BY <1>5, <1>6

(* Elements are written where there is room, and nowhere else. *)
LEMMA WrittenInPlace ==
  ASSUME NEW m, Good(m), NEW at \in Nat, NEW s \in Seq(Element),
         at + Len(s) <= Len(m.data)
  PROVE  /\ Good(Written(m, at, s))
         /\ Len(Written(m, at, s).data) = Len(m.data)
         /\ \A i \in 1 .. Len(m.data) : Written(m, at, s).data[i] =
              IF i > at /\ i <= at + Len(s) THEN s[i - at] ELSE m.data[i]
<1> DEFINE d == Written(m, at, s).data
<1>1. m.data \in Seq(Element) /\ DOMAIN m.data = 1 .. Len(m.data)
  BY DEF Good, Memory
<1>2. d = [i \in DOMAIN m.data |->
             IF i \in (at + 1) .. (at + Len(s)) THEN s[i - at] ELSE m.data[i]]
  BY DEF Written, Good, Memory
<1>3. \A i \in 1 .. Len(m.data) : d[i] =
        IF i > at /\ i <= at + Len(s) THEN s[i - at] ELSE m.data[i]
  BY <1>1, <1>2
<1>4. \A i \in 1 .. Len(m.data) : d[i] \in Element
  BY <1>1, <1>3
<1>5. d \in Seq(Element) /\ Len(d) = Len(m.data)
  BY <1>1, <1>2, <1>4
<1>6. (d = <<>>) <=> (m.data = <<>>)
  BY <1>1, <1>5, EmptyData
<1>7. /\ Written(m, at, s) \in Memory /\ ~Written(m, at, s).fault
      /\ Written(m, at, s).blocks = m.blocks
  BY <1>5 DEF Written, Good, Memory
<1> QED BY <1>3, <1>5, <1>6, <1>7 DEF Good
-----------------------------------------------------------------------------
(***************************************************************************)
(* The state between two calls.                                            *)
(***************************************************************************)

(* What the conjuncts of Sound say of a memory that is accounted for. *)
LEMMA SoundIsGood ==
  Sound <=>
    /\ live \in BOOLEAN /\ size \in Nat /\ capacity \in Nat /\ Good(mem)
    /\ size <= Len(mem.data) /\ size <= capacity
    /\ mem.data # <<>> => capacity <= Len(mem.data)
    /\ ~live => size = 0 /\ capacity = 0 /\ mem.data = <<>>
BY DEF Sound, TypeOK, InBounds, DataHoldsSize, NoLeak, Good, Memory

(* The elements, when the first of the block are those of s. *)
LEMMA ContentsEqual ==
  ASSUME NEW d \in Seq(Element), NEW n \in Nat, n <= Len(d),
         NEW s \in Seq(Element), Len(s) = n, \A i \in 1 .. n : d[i] = s[i]
  PROVE  SubSeq(d, 1, n) = s
<1>1. \A i \in 1 .. n : d[i] \in Element
  OBVIOUS
<1>2. /\ SubSeq(d, 1, n) \in Seq(Element) /\ Len(SubSeq(d, 1, n)) = n
      /\ \A i \in 1 .. n : SubSeq(d, 1, n)[i] = d[i]
  BY <1>1, SubSeqProperties
<1> QED BY <1>2, SeqEqual

(* A vector has as many elements as the array says, and they are those at  *)
(* the beginning of the block.                                             *)
LEMMA ContentsAre ==
  ASSUME Sound
  PROVE  /\ Contents \in Seq(Element) /\ Len(Contents) = size
         /\ \A i \in 1 .. size : Contents[i] = mem.data[i]
<1>1. /\ mem.data \in Seq(Element) /\ size \in Nat /\ size <= Len(mem.data)
  BY SoundIsGood DEF Good, Memory
<1>2. \A i \in 1 .. size : mem.data[i] \in Element
  BY <1>1
<1> QED BY <1>1, <1>2, SubSeqProperties DEF Contents
(* Sound with the bound on what is asked for: the inductive invariant.     *)
IInv == Sound /\ size <= MaxSize

(* What it takes to show that an operation leaves the vector s.            *)
LEMMA LeavesVector ==
  ASSUME NEW s \in Seq(Element), live' = TRUE, size' = Len(s), size' <= MaxSize,
         capacity' \in Nat, Good(mem'), size' <= capacity', size' <= Len(mem'.data),
         mem'.data # <<>> => capacity' <= Len(mem'.data),
         \A i \in 1 .. Len(s) : mem'.data[i] = s[i]
  PROVE  IInv' /\ Contents' = s
<1>1. Len(s) \in Nat
  OBVIOUS
<1>2. IInv'
  BY <1>1 DEF IInv, Sound, TypeOK, InBounds, DataHoldsSize, NoLeak, Good, Memory
<1>3. mem'.data \in Seq(Element)
  BY DEF Good, Memory
<1>4. Contents' = s
  BY <1>1, <1>3, ContentsEqual DEF Contents
<1> QED BY <1>2, <1>4

(* What is known before an operation. *)
LEMMA BeforeCall ==
  ASSUME IInv
  PROVE  /\ size \in Nat /\ capacity \in Nat /\ Good(mem) /\ MaxSize \in Nat
         /\ mem.data \in Seq(Element) /\ Len(mem.data) \in Nat
         /\ size <= MaxSize /\ size <= Len(mem.data) /\ size <= capacity
         /\ mem.data # <<>> => capacity <= Len(mem.data)
         /\ ~live => mem.data = <<>>
         /\ Contents \in Seq(Element) /\ Len(Contents) = size
         /\ \A i \in 1 .. size : Contents[i] = mem.data[i]
<1>1. Sound /\ size <= MaxSize
  BY DEF IInv
<1>2. Good(mem) => mem.data \in Seq(Element)
  BY DEF Good, Memory
<1> QED BY <1>1, <1>2, SoundIsGood, ContentsAre, ArrayAssumption

(* The step of the vector: the operation has its effect. *)
Effective == call' \in Calls /\ Contents' = V!Effect(call', Contents)
-----------------------------------------------------------------------------
(* Runtime_array_new makes an array of zeroed elements. *)
LEMMA NewStep ==
  ASSUME IInv, NEW n \in 0 .. MaxSize, New(n)
  PROVE  IInv' /\ Effective
<1> DEFINE s == [i \in 1 .. n |-> Zero]
<1> DEFINE cap == FirstCapacity(n)
<1>1. /\ n \in Nat /\ n <= MaxSize /\ Good(mem) /\ mem.data = <<>>
      /\ Len(mem.data) = 0
  BY BeforeCall, EmptySeq DEF New
<1>2. s \in Seq(Element) /\ Len(s) = n
  BY <1>1, ZeroIsElement
<1>3. cap \in Nat /\ n <= cap /\ (n = 0 => cap = 0)
  BY <1>1, FirstCapacityFits
<1>4. /\ live' = TRUE /\ size' = n /\ capacity' = cap
      /\ call' = [op |-> "new", n |-> n]
      /\ mem' = Reserved([mem EXCEPT !.data = <<>>], n, cap)
  BY DEF New
<1>5. [mem EXCEPT !.data = <<>>] = mem
  BY <1>1 DEF Good, Memory
<1>6. call' \in Calls /\ V!Effect(call', Contents) = s
  BY <1>4 DEF Calls, V!Effect
<1>7. CASE cap = 0
  <2>1. mem' = mem
    BY <1>1, <1>4, <1>5, <1>7 DEF Reserved, FreeData
  <2>2. n = 0
    BY <1>1, <1>3, <1>7
  <2>3. /\ live' = TRUE /\ size' = Len(s) /\ size' <= MaxSize /\ capacity' \in Nat
        /\ Good(mem') /\ size' <= capacity' /\ size' <= Len(mem'.data)
        /\ mem'.data # <<>> => capacity' <= Len(mem'.data)
        /\ \A i \in 1 .. Len(s) : mem'.data[i] = s[i]
    <3> HIDE DEF s, cap
    <3> QED BY <1>1, <1>2, <1>3, <1>4, <2>1, <2>2
  <2>4. IInv' /\ Contents' = s
    <3> HIDE DEF s, cap
    <3> QED BY <1>2, <2>3, LeavesVector
  <2> QED BY <1>6, <2>4 DEF Effective
<1>8. CASE cap > 0
  <2>1. /\ Good(mem') /\ Len(mem'.data) = cap
        /\ \A i \in 1 .. cap : mem'.data[i] = Zero
    <3> HIDE DEF cap
    <3> QED BY <1>1, <1>3, <1>4, <1>5, <1>8, ReservedFits
  <2>2. \A i \in 1 .. Len(s) : mem'.data[i] = s[i]
    <3> HIDE DEF cap
    <3> QED BY <1>1, <1>2, <1>3, <2>1
  <2>3. IInv' /\ Contents' = s
    <3>1. /\ live' = TRUE /\ size' = Len(s) /\ size' <= MaxSize /\ capacity' \in Nat
          /\ size' <= capacity' /\ size' <= Len(mem'.data)
          /\ mem'.data # <<>> => capacity' <= Len(mem'.data)
      <4> HIDE DEF s, cap
      <4> QED BY <1>1, <1>2, <1>3, <1>4, <2>1
    <3> HIDE DEF s, cap
    <3> QED BY <1>2, <2>1, <2>2, <3>1, LeavesVector
  <2> QED BY <1>6, <2>3 DEF Effective
<1> QED BY <1>3, <1>7, <1>8

(* A client writes through the pointer to an element. *)
LEMMA StoreStep ==
  ASSUME IInv, NEW i \in 1 .. size, NEW e \in Element, Store(i, e)
  PROVE  IInv' /\ Effective
<1> DEFINE s == [Contents EXCEPT ![i] = e]
<1>1. /\ size \in Nat /\ MaxSize \in Nat /\ size <= MaxSize /\ i - 1 \in Nat
      /\ Contents \in Seq(Element) /\ Len(Contents) = size /\ Good(mem)
      /\ \A j \in 1 .. size : Contents[j] = mem.data[j]
      /\ size <= Len(mem.data) /\ Len(mem.data) \in Nat
  BY BeforeCall
<1>2. s \in Seq(Element) /\ Len(s) = size
  BY <1>1
<1>3. \A j \in 1 .. size : s[j] = IF j = i THEN e ELSE mem.data[j]
  BY <1>1
<1>4. /\ <<e>> \in Seq(Element) /\ Len(<<e>>) = 1 /\ <<e>>[1] = e
      /\ (i - 1) + 1 <= Len(mem.data)
  BY <1>1
<1>5. /\ live' = TRUE /\ size' = size /\ capacity' = capacity
      /\ mem' = Written(mem, i - 1, <<e>>)
      /\ call' = [op |-> "store", at |-> i, e |-> e]
  BY BeforeCall DEF Store, Ready, IInv, Sound, TypeOK
<1>6. /\ Good(mem') /\ Len(mem'.data) = Len(mem.data)
      /\ \A j \in 1 .. Len(mem.data) : mem'.data[j] =
           IF j > i - 1 /\ j <= (i - 1) + 1 THEN <<e>>[j - (i - 1)] ELSE mem.data[j]
  <2> DEFINE one == <<e>>
  <2>1. one \in Seq(Element) /\ Len(one) = 1 /\ (i - 1) + Len(one) <= Len(mem.data)
    BY <1>4
  <2> HIDE DEF one, s
  <2>2. /\ Good(Written(mem, i - 1, one))
        /\ Len(Written(mem, i - 1, one).data) = Len(mem.data)
        /\ \A j \in 1 .. Len(mem.data) : Written(mem, i - 1, one).data[j] =
             IF j > i - 1 /\ j <= (i - 1) + Len(one) THEN one[j - (i - 1)]
             ELSE mem.data[j]
    BY <1>1, <2>1, WrittenInPlace
  <2> QED BY <1>5, <2>1, <2>2 DEF one
<1>7. \A j \in 1 .. Len(s) : mem'.data[j] = s[j]
  BY <1>1, <1>2, <1>3, <1>4, <1>6
<1>8. call' \in Calls /\ V!Effect(call', Contents) = s
  BY <1>1, <1>5 DEF Calls, V!Effect
<1>9. /\ capacity' \in Nat /\ size' <= capacity'
      /\ mem'.data # <<>> => capacity' <= Len(mem'.data)
  <2>1. mem.data \in Seq(Element) /\ mem'.data \in Seq(Element)
    BY <1>1, <1>6 DEF Good, Memory
  <2>2. (mem'.data = <<>>) <=> (mem.data = <<>>)
    BY <1>6, <2>1, EmptyData
  <2> QED BY BeforeCall, <1>5, <1>6, <2>2
<1>10. IInv' /\ Contents' = s
  <2> HIDE DEF s
  <2> QED BY <1>1, <1>2, <1>5, <1>6, <1>7, <1>9, LeavesVector
<1> QED BY <1>8, <1>10 DEF Effective

(* Inserting an element at the end of a sequence appends it. *)
LEMMA InsertedAtEnd ==
  ASSUME NEW s \in Seq(Element), NEW e \in Element
  PROVE  V!Inserted(s, Len(s), e) = Append(s, e)
<1>1. SubSeq(s, 1, Len(s)) = s /\ SubSeq(s, Len(s) + 1, Len(s)) = <<>>
  BY SubSeqFull, SubSeqEmpty
<1>2. s \o <<e>> = Append(s, e) /\ Append(s, e) \in Seq(Element)
  BY AppendIsConcat
<1>3. Append(s, e) \o <<>> = Append(s, e)
  BY <1>2, ConcatEmptySeq
<1> QED BY <1>1, <1>2, <1>3 DEF V!Inserted

(* Runtime_array_insert at the end appends the element: a full block is    *)
(* replaced by a larger one before.                                        *)
LEMMA InsertStep ==
  ASSUME IInv, Careless = {}, NEW at \in 0 .. size, NEW e \in Element, Insert(e, at)
  PROVE  IInv' /\ Effective
<1> DEFINE s == Append(Contents, e)
<1> DEFINE m == IF size = capacity THEN Reserved(mem, size, capacity') ELSE mem
<1>1. /\ size \in Nat /\ capacity \in Nat /\ MaxSize \in Nat /\ size <= capacity
      /\ Contents \in Seq(Element) /\ Len(Contents) = size /\ Good(mem)
      /\ \A j \in 1 .. size : Contents[j] = mem.data[j]
      /\ size <= Len(mem.data) /\ Len(mem.data) \in Nat
      /\ mem.data # <<>> => capacity <= Len(mem.data)
  BY BeforeCall
<1>2. /\ at = size /\ mem.data # <<>> /\ (size < capacity \/ capacity >= 2)
      /\ live' = live /\ live /\ size' = size + 1 /\ size < MaxSize
      /\ capacity' = IF size = capacity THEN Grown(capacity) ELSE capacity
      /\ call' = [op |-> "insert", at |-> at, e |-> e]
  BY DEF Insert, Keeps, GrowContract, Ready
<1>3. mem' = Written(m, size, <<e>>)
  BY <1>2 DEF Insert, Shifted
<1>4. /\ capacity' \in Nat /\ size + 1 <= capacity'
      /\ size = capacity => size > 0
  <2>1. Grown(capacity) \in Nat /\ (capacity >= 2 => capacity < Grown(capacity))
    BY <1>1, GrownGrows
  <2> HIDE DEF s, m
  <2>2. CASE size = capacity
    BY <1>1, <1>2, <2>1, <2>2
  <2>3. CASE size < capacity
    BY <1>1, <1>2, <2>3
  <2> QED BY <1>1, <2>2, <2>3
<1>5. /\ Good(m) /\ capacity' <= Len(m.data) /\ Len(m.data) \in Nat
      /\ \A j \in 1 .. size : m.data[j] = mem.data[j]
  <2>1. CASE size = capacity
    <3>1. m = Reserved(mem, size, capacity')
      BY <2>1
    <3>2. /\ size > 0 /\ size <= Len(mem.data) /\ size <= capacity' /\ capacity' > 0
          /\ 1 .. size \subseteq 1 .. capacity'
      BY <1>1, <1>4, <2>1
    <3> HIDE DEF m, s
    <3>3. /\ Good(m) /\ Len(m.data) = capacity'
          /\ \A j \in 1 .. capacity' : m.data[j] =
               IF j <= size /\ mem.data # <<>> THEN mem.data[j] ELSE Zero
      BY <1>1, <1>4, <3>1, <3>2, ReservedFits
    <3>4. ASSUME NEW j \in 1 .. size
          PROVE  m.data[j] = mem.data[j]
      <4>1. j \in 1 .. capacity' /\ j <= size
        BY <1>1, <3>2
      <4> QED BY <1>2, <3>3, <4>1
    <3> QED BY <1>4, <3>3, <3>4
  <2>2. CASE size # capacity
    BY <1>1, <1>2, <2>2
  <2> QED BY <2>1, <2>2
<1> HIDE DEF m
<1> DEFINE one == <<e>>
<1>6. one \in Seq(Element) /\ Len(one) = 1 /\ one[1] = e
  OBVIOUS
<1>7. /\ Good(mem') /\ Len(mem'.data) = Len(m.data)
      /\ \A j \in 1 .. Len(m.data) : mem'.data[j] =
           IF j > size /\ j <= size + Len(one) THEN one[j - size] ELSE m.data[j]
  <2>1. mem' = Written(m, size, one) /\ size + Len(one) <= Len(m.data)
    BY <1>1, <1>3, <1>4, <1>5, <1>6
  <2> HIDE DEF one, s
  <2>2. size \in Nat /\ Good(m) /\ one \in Seq(Element)
    BY <1>1, <1>5, <1>6
  <2>3. /\ Good(Written(m, size, one))
        /\ Len(Written(m, size, one).data) = Len(m.data)
        /\ \A j \in 1 .. Len(m.data) : Written(m, size, one).data[j] =
             IF j > size /\ j <= size + Len(one) THEN one[j - size] ELSE m.data[j]
    BY <2>1, <2>2, WrittenInPlace
  <2> QED BY <2>1, <2>3
<1>8. /\ s \in Seq(Element) /\ Len(s) = size + 1 /\ s[size + 1] = e
      /\ \A j \in 1 .. size : s[j] = Contents[j]
  BY <1>1
<1>9. \A j \in 1 .. Len(s) : mem'.data[j] = s[j]
  <2> HIDE DEF s, one
  <2>1. 1 .. Len(s) \subseteq 1 .. Len(m.data)
    BY <1>1, <1>4, <1>5, <1>8
  <2>2. mem'.data[size + 1] = s[size + 1]
    BY <1>1, <1>4, <1>5, <1>6, <1>7, <1>8, SMTT(40)
  <2>3. ASSUME NEW j \in 1 .. size
        PROVE  mem'.data[j] = s[j]
    <3>1. j \in 1 .. Len(m.data) /\ ~(j > size)
      BY <1>1, <1>8, <2>1
    <3> QED BY <1>1, <1>5, <1>7, <1>8, <3>1
  <2> QED BY <1>1, <1>8, <2>2, <2>3, SMTT(40)
<1>10. call' \in Calls
  BY <1>1, <1>2 DEF Calls
<1>11. V!Effect(call', Contents) = s
  <2>1. V!Effect(call', Contents) = V!Inserted(Contents, size, e)
    BY <1>2 DEF V!Effect
  <2> QED BY <1>1, <2>1, InsertedAtEnd
<1>12. IInv' /\ Contents' = s
  <2>1. size' = Len(s) /\ size' <= MaxSize /\ live' = TRUE
    BY <1>1, <1>2, <1>8 DEF IInv, Sound, TypeOK
  <2> HIDE DEF s
  <2> QED BY <1>1, <1>2, <1>4, <1>5, <1>7, <1>8, <1>9, <2>1, LeavesVector, SMTT(40)
<1> QED BY <1>10, <1>11, <1>12 DEF Effective

(* The arrays a source may be. *)
LEMMA SourceIsSeq ==
  ASSUME NEW s \in Sources
  PROVE  s \in Seq(Element) /\ Len(s) \in 0 .. MaxSize
BY ArrayAssumption DEF Sources

(* The elements of two sequences one after the other. *)
LEMMA Joined ==
  ASSUME NEW d \in Seq(Element), NEW q \in Seq(Element)
  PROVE  /\ d \o q \in Seq(Element) /\ Len(d \o q) = Len(d) + Len(q)
         /\ \A j \in 1 .. Len(d) : (d \o q)[j] = d[j]
         /\ \A j \in (Len(d) + 1) .. (Len(d) + Len(q)) : (d \o q)[j] = q[j - Len(d)]
OBVIOUS

(* Runtime_array_append_from appends the elements of the source.           *)
LEMMA AppendFromStep ==
  ASSUME IInv, Careless = {}, NEW q \in Sources,
         NEW c \in {0} \cup (Len(q) .. MaxSize), AppendFrom(q, c)
  PROVE  IInv' /\ Effective
<1> DEFINE s == Contents \o q
<1> DEFINE full == size + Len(q) = capacity
<1> DEFINE m == IF full THEN Reserved(mem, size, capacity') ELSE mem
<1>1. /\ size \in Nat /\ capacity \in Nat /\ MaxSize \in Nat /\ size <= capacity
      /\ Contents \in Seq(Element) /\ Len(Contents) = size /\ Good(mem)
      /\ \A j \in 1 .. size : Contents[j] = mem.data[j]
      /\ size <= Len(mem.data) /\ Len(mem.data) \in Nat
      /\ mem.data # <<>> => capacity <= Len(mem.data)
      /\ ~live => mem.data = <<>>
  BY BeforeCall
<1>2. /\ q \in Seq(Element) /\ Len(q) \in Nat /\ c \in Nat /\ Len(q) > 0
  <2>1. q \in Seq(Element) /\ Len(q) \in 0 .. MaxSize
    BY SourceIsSeq
  <2>2. q # <<>>
    BY DEF AppendFrom
  <2>3. c \in Nat
    BY <1>1, <2>1
  <2> QED BY <1>1, <2>1, <2>2, <2>3, EmptyData
<1>3. /\ live' = live /\ live /\ size' = size + Len(q) /\ size + Len(q) <= MaxSize
      /\ capacity' = IF full THEN Grown(capacity + c) ELSE capacity
      /\ call' = [op |-> "appendFrom", s |-> q]
      /\ mem' = Written(m, size, q)
  BY DEF AppendFrom, Ready
<1>4. \/ size + Len(q) < capacity /\ mem.data # <<>>
      \/ full /\ (size > 0 \/ mem.data = <<>>)
  BY <1>2 DEF AppendFrom, Keeps, AppendFromContract, Replaceable
<1>5. capacity' \in Nat /\ size + Len(q) <= capacity' /\ capacity' > 0
  <2> HIDE DEF s, m
  <2>1. Grown(capacity + c) \in Nat /\ capacity + c <= Grown(capacity + c)
    BY <1>1, <1>2, GrownSum
  <2> QED BY <1>1, <1>2, <1>3, <1>4, <2>1
<1>6. /\ Good(m) /\ capacity' <= Len(m.data) /\ Len(m.data) \in Nat
      /\ \A j \in 1 .. size : m.data[j] = mem.data[j]
  <2>1. CASE full
    <3>1. m = Reserved(mem, size, capacity')
      BY <2>1
    <3>2. mem.data = <<>> \/ (size > 0 /\ size <= Len(mem.data) /\ size <= capacity')
      BY <1>1, <1>2, <1>4, <1>5, <2>1
    <3> HIDE DEF m
    <3>3. /\ Good(m) /\ Len(m.data) = capacity'
          /\ \A j \in 1 .. capacity' : m.data[j] =
               IF j <= size /\ mem.data # <<>> THEN mem.data[j] ELSE Zero
      BY <1>1, <1>5, <3>1, <3>2, ReservedFits
    <3>4. mem.data = <<>> => size = 0
      BY <1>1, EmptySeq
    <3>5. \A j \in 1 .. size : j \in 1 .. capacity' /\ mem.data # <<>>
      BY <1>1, <1>2, <1>5, <3>4
    <3>6. \A j \in 1 .. size : m.data[j] = mem.data[j]
      BY <1>1, <3>3, <3>5
    <3> QED BY <1>5, <3>3, <3>6
  <2>2. CASE ~full
    BY <1>1, <1>3, <1>4, <2>2
  <2> QED BY <2>1, <2>2
<1> HIDE DEF m
<1>7. /\ Good(mem') /\ Len(mem'.data) = Len(m.data)
      /\ \A j \in 1 .. Len(m.data) : mem'.data[j] =
           IF j > size /\ j <= size + Len(q) THEN q[j - size] ELSE m.data[j]
  <2> HIDE DEF s, full
  <2>1. size + Len(q) <= Len(m.data)
    BY <1>1, <1>2, <1>5, <1>6
  <2>2. /\ Good(Written(m, size, q)) /\ Len(Written(m, size, q).data) = Len(m.data)
        /\ \A j \in 1 .. Len(m.data) : Written(m, size, q).data[j] =
             IF j > size /\ j <= size + Len(q) THEN q[j - size] ELSE m.data[j]
    BY <1>1, <1>2, <1>6, <2>1, WrittenInPlace
  <2> QED BY <1>3, <2>2
<1>8. /\ s \in Seq(Element) /\ Len(s) = size + Len(q)
      /\ \A j \in 1 .. size : s[j] = Contents[j]
      /\ \A j \in (size + 1) .. (size + Len(q)) : s[j] = q[j - size]
  <2> HIDE DEF full, s
  <2>1. Contents \in Seq(Element) /\ Len(Contents) = size
    BY <1>1
  <2> QED BY <1>2, <2>1, Joined DEF s
<1> HIDE DEF s, full
<1>9. \A j \in 1 .. Len(s) : mem'.data[j] = s[j]
  <2>1. size + Len(q) <= Len(m.data)
    BY <1>1, <1>2, <1>5, <1>6
  <2>2. ASSUME NEW j \in 1 .. size
        PROVE  mem'.data[j] = s[j]
    <3>1. j \in 1 .. Len(m.data) /\ ~(j > size)
      BY <1>1, <1>2, <1>6, <2>1
    <3> QED BY <1>1, <1>6, <1>7, <1>8, <3>1
  <2>3. ASSUME NEW j \in (size + 1) .. (size + Len(q))
        PROVE  mem'.data[j] = s[j]
    <3>1. j \in 1 .. Len(m.data) /\ j > size /\ j <= size + Len(q)
      BY <1>1, <1>2, <1>6, <2>1
    <3> QED BY <1>7, <1>8, <3>1
  <2> QED BY <1>1, <1>2, <1>8, <2>2, <2>3
<1>10. call' \in Calls /\ V!Effect(call', Contents) = s
  BY <1>3 DEF Calls, V!Effect, s
<1>11. IInv' /\ Contents' = s
  <2>1. size' = Len(s) /\ size' <= MaxSize /\ live' = TRUE
    BY <1>1, <1>3, <1>8 DEF IInv, Sound, TypeOK
  <2>2. size' <= capacity' /\ size' <= Len(mem'.data) /\ capacity' <= Len(mem'.data)
    BY <1>1, <1>2, <1>3, <1>5, <1>6, <1>7
  <2> QED BY <1>5, <1>7, <1>8, <1>9, <2>1, <2>2, LeavesVector
<1> QED BY <1>10, <1>11 DEF Effective

(* Runtime_array_copy replaces the elements by those of the source.        *)
LEMMA CopyStep ==
  ASSUME IInv, Careless = {}, NEW q \in Sources,
         NEW c \in {0} \cup (Len(q) .. MaxSize), Copy(q, c)
  PROVE  IInv' /\ Effective
<1> DEFINE full == Len(q) = capacity
<1> DEFINE clear == FreeData(mem, size)
<1> DEFINE m == IF full THEN Reserved(clear, 0, capacity') ELSE clear
<1>1. /\ size \in Nat /\ capacity \in Nat /\ MaxSize \in Nat /\ Good(mem)
      /\ Len(mem.data) \in Nat
      /\ mem.data # <<>> => capacity <= Len(mem.data)
  BY BeforeCall
<1>2. /\ q \in Seq(Element) /\ Len(q) \in 0 .. MaxSize /\ c \in Nat /\ Len(q) > 0
  <2>1. q \in Seq(Element) /\ Len(q) \in 0 .. MaxSize
    BY SourceIsSeq
  <2>2. q # <<>>
    BY DEF Copy
  <2>3. c \in Nat
    BY <1>1, <2>1
  <2> QED BY <1>1, <2>1, <2>2, <2>3, EmptyData
<1>3. /\ live' = live /\ live /\ size' = Len(q)
      /\ capacity' = IF full THEN Grown(capacity + c) ELSE capacity
      /\ call' = [op |-> "copy", s |-> q]
      /\ mem' = Written(m, 0, q)
  BY DEF Copy, Ready
<1>4. \/ full /\ (size > 0 \/ mem.data = <<>>)
      \/ Len(q) < capacity /\ size = 0 /\ mem.data # <<>>
  BY DEF Copy, Keeps, CopyContract, Replaceable
<1>5. capacity' \in Nat /\ Len(q) <= capacity' /\ capacity' > 0
  <2> HIDE DEF m, clear
  <2>1. Grown(capacity + c) \in Nat /\ capacity + c <= Grown(capacity + c)
    BY <1>1, <1>2, GrownSum
  <2> QED BY <1>1, <1>2, <1>3, <1>4, <2>1
<1>6. Good(m) /\ capacity' <= Len(m.data) /\ Len(m.data) \in Nat
  <2>1. CASE full
    <3>1. Good(clear) /\ clear.data = <<>>
      <4>1. size > 0 \/ mem.data = <<>>
        BY <1>1, <1>2, <1>4, <2>1
      <4> HIDE DEF full, m
      <4> QED BY <1>1, <4>1, FreeDataFrees
    <3>2. m = Reserved(clear, 0, capacity')
      BY <2>1
    <3> HIDE DEF m, clear
    <3>3. Good(m) /\ Len(m.data) = capacity'
      BY <1>5, <3>1, <3>2, ReservedFits
    <3> QED BY <1>5, <3>3
  <2>2. CASE ~full
    <3>1. size = 0 /\ mem.data # <<>>
      BY <1>4, <2>2
    <3>2. m = mem
      BY <2>2, <3>1, FreeDataKeeps
    <3> HIDE DEF m, clear
    <3> QED BY <1>1, <1>3, <2>2, <3>1, <3>2
  <2> QED BY <2>1, <2>2
<1> HIDE DEF m, clear
<1>7. /\ Good(mem') /\ Len(mem'.data) = Len(m.data)
      /\ \A j \in 1 .. Len(m.data) : mem'.data[j] =
           IF j > 0 /\ j <= 0 + Len(q) THEN q[j - 0] ELSE m.data[j]
  <2> HIDE DEF full
  <2>1. 0 \in Nat /\ 0 + Len(q) <= Len(m.data)
    BY <1>2, <1>5, <1>6
  <2>2. /\ Good(Written(m, 0, q)) /\ Len(Written(m, 0, q).data) = Len(m.data)
        /\ \A j \in 1 .. Len(m.data) : Written(m, 0, q).data[j] =
             IF j > 0 /\ j <= 0 + Len(q) THEN q[j - 0] ELSE m.data[j]
    BY <1>2, <1>6, <2>1, WrittenInPlace
  <2> QED BY <1>3, <2>2
<1>8. \A j \in 1 .. Len(q) : mem'.data[j] = q[j]
  BY <1>2, <1>5, <1>6, <1>7
<1>9. call' \in Calls /\ V!Effect(call', Contents) = q
  BY <1>3 DEF Calls, V!Effect
<1>10. IInv' /\ Contents' = q
  <2>1. size' = Len(q) /\ size' <= MaxSize /\ live' = TRUE
    BY <1>1, <1>2, <1>3 DEF IInv, Sound, TypeOK
  <2>2. size' <= capacity' /\ size' <= Len(mem'.data) /\ capacity' <= Len(mem'.data)
    BY <1>2, <1>3, <1>5, <1>6, <1>7
  <2> QED BY <1>2, <1>5, <1>7, <1>8, <2>1, <2>2, LeavesVector
<1> QED BY <1>9, <1>10 DEF Effective

(* Runtime_array_reserve keeps the elements.                               *)
LEMMA ReserveStep ==
  ASSUME IInv, Careless = {}, NEW n \in 0 .. MaxSize, Reserve(n)
  PROVE  IInv' /\ Effective
<1>1. /\ size \in Nat /\ capacity \in Nat /\ MaxSize \in Nat /\ size <= capacity
      /\ Contents \in Seq(Element) /\ Len(Contents) = size /\ Good(mem)
      /\ \A j \in 1 .. size : Contents[j] = mem.data[j]
      /\ size <= Len(mem.data) /\ Len(mem.data) \in Nat /\ size <= MaxSize
      /\ mem.data # <<>> => capacity <= Len(mem.data)
  BY BeforeCall
<1>2. /\ n \in Nat /\ n >= size /\ (n > capacity => size > 0 \/ mem.data = <<>>)
      /\ live' = live /\ live /\ size' = size /\ capacity' = n
      /\ call' = [op |-> "reserve", n |-> n]
      /\ mem' = IF n > capacity THEN Reserved(mem, size, n) ELSE mem
  BY DEF Reserve, Ready, Keeps, ReserveContract, Replaceable
<1>3. /\ Good(mem') /\ size <= Len(mem'.data) /\ n >= size
      /\ mem'.data # <<>> => n <= Len(mem'.data)
      /\ \A j \in 1 .. size : mem'.data[j] = Contents[j]
  <2>1. CASE n > capacity
    <3>1. /\ n > 0
          /\ mem.data = <<>> \/ (size > 0 /\ size <= Len(mem.data) /\ size <= n)
      BY <1>1, <1>2, <2>1
    <3>2. mem' = Reserved(mem, size, n)
      BY <1>2, <2>1
    <3>3. /\ Good(mem') /\ Len(mem'.data) = n
          /\ \A j \in 1 .. n : mem'.data[j] =
               IF j <= size /\ mem.data # <<>> THEN mem.data[j] ELSE Zero
      BY <1>1, <1>2, <3>1, <3>2, ReservedFits
    <3>4. mem.data = <<>> => size = 0
      BY <1>1, EmptySeq
    <3>5. \A j \in 1 .. size : j \in 1 .. n /\ mem.data # <<>>
      BY <1>1, <1>2, <3>4
    <3>6. \A j \in 1 .. size : mem'.data[j] = mem.data[j]
      BY <1>1, <3>3, <3>5
    <3> QED BY <1>1, <1>2, <3>3, <3>6
  <2>2. CASE ~(n > capacity)
    BY <1>1, <1>2, <2>2
  <2> QED BY <2>1, <2>2
<1>4. call' \in Calls /\ V!Effect(call', Contents) = Contents
  BY <1>2 DEF Calls, V!Effect
<1>5. IInv' /\ Contents' = Contents
  <2>1. live' = TRUE /\ size' = Len(Contents) /\ size' <= MaxSize
    BY <1>1, <1>2 DEF IInv, Sound, TypeOK
  <2> QED BY <1>1, <1>2, <1>3, <2>1, LeavesVector
<1> QED BY <1>4, <1>5 DEF Effective

(* Runtime_array_resize adds zeroed elements.                              *)
LEMMA ResizeStep ==
  ASSUME IInv, Careless = {}, NEW n \in 0 .. MaxSize, Resize(n)
  PROVE  IInv' /\ Effective
<1> DEFINE s == [i \in 1 .. n |-> IF i <= Len(Contents) THEN Contents[i] ELSE Zero]
<1>1. /\ size \in Nat /\ capacity \in Nat /\ MaxSize \in Nat /\ size <= capacity
      /\ Contents \in Seq(Element) /\ Len(Contents) = size /\ Good(mem)
      /\ \A j \in 1 .. size : Contents[j] = mem.data[j]
      /\ size <= Len(mem.data) /\ Len(mem.data) \in Nat
  BY BeforeCall
<1>2. /\ n \in Nat /\ n <= MaxSize /\ n >= capacity
      /\ n <= Grown(capacity) \/ n > 2 * capacity
      /\ size > 0 \/ mem.data = <<>>
      /\ live' = live /\ live /\ size' = n
      /\ capacity' = Grown(IF n - capacity > capacity THEN n ELSE capacity)
      /\ call' = [op |-> "resize", n |-> n]
      /\ mem' = Reserved(mem, size, capacity')
  BY <1>1 DEF Resize, Ready, Keeps, ResizeContract, Replaceable
<1>3. capacity' \in Nat /\ n <= capacity'
  <2> HIDE DEF s
  <2>1. CASE n - capacity > capacity
    BY <1>1, <1>2, <2>1, GrownGrows
  <2>2. CASE ~(n - capacity > capacity)
    <3>1. capacity' = Grown(capacity) /\ n <= Grown(capacity)
      BY <1>1, <1>2, <2>2
    <3> QED BY <1>1, <3>1, GrownGrows
  <2> QED BY <2>1, <2>2
<1>4. /\ s \in Seq(Element) /\ Len(s) = n
      /\ \A j \in 1 .. n : s[j] = IF j <= size THEN mem.data[j] ELSE Zero
  <2>1. \A j \in 1 .. n : s[j] \in Element
    BY <1>1, <1>2, ZeroIsElement
  <2>2. s \in Seq(Element) /\ Len(s) = n
    BY <1>2, <2>1
  <2> QED BY <1>1, <1>2, <2>2
<1> HIDE DEF s
<1>5. /\ Good(mem') /\ n <= Len(mem'.data)
      /\ mem'.data # <<>> => capacity' <= Len(mem'.data)
      /\ \A j \in 1 .. n : mem'.data[j] = s[j]
  <2>1. CASE capacity' = 0
    <3>1. n = 0 /\ size = 0 /\ mem' = mem
      BY <1>1, <1>2, <1>3, <2>1, FreeDataKeeps DEF Reserved
    <3> QED BY <1>1, <1>3, <2>1, <3>1
  <2>2. CASE capacity' > 0
    <3>1. mem.data = <<>> \/ (size > 0 /\ size <= Len(mem.data) /\ size <= capacity')
      BY <1>1, <1>2, <1>3
    <3>2. /\ Good(mem') /\ Len(mem'.data) = capacity'
          /\ \A j \in 1 .. capacity' : mem'.data[j] =
               IF j <= size /\ mem.data # <<>> THEN mem.data[j] ELSE Zero
      BY <1>1, <1>2, <1>3, <2>2, <3>1, ReservedFits
    <3>3. mem.data = <<>> => size = 0
      BY <1>1, EmptySeq
    <3>4. ASSUME NEW j \in 1 .. n
          PROVE  mem'.data[j] = s[j]
      <4>1. j \in 1 .. capacity' /\ (j <= size => mem.data # <<>>)
        BY <1>1, <1>2, <1>3, <3>3
      <4> QED BY <1>4, <3>2, <4>1
    <3> QED BY <1>2, <1>3, <3>2, <3>4
  <2> QED BY <1>3, <2>1, <2>2
<1>6. call' \in Calls /\ V!Effect(call', Contents) = s
  BY <1>2 DEF Calls, V!Effect, s
<1>7. IInv' /\ Contents' = s
  <2>1. live' = TRUE /\ size' = Len(s) /\ size' <= MaxSize
    BY <1>1, <1>2, <1>4 DEF IInv, Sound, TypeOK
  <2> QED BY <1>2, <1>3, <1>4, <1>5, <2>1, LeavesVector
<1> QED BY <1>6, <1>7 DEF Effective

(* Runtime_array_clear leaves no element. *)
LEMMA ClearStep ==
  ASSUME IInv, Clear
  PROVE  IInv' /\ Effective
<1>1. /\ size \in Nat /\ capacity \in Nat /\ MaxSize \in Nat /\ Good(mem)
      /\ Len(mem.data) \in Nat
      /\ mem.data # <<>> => capacity <= Len(mem.data)
  BY BeforeCall
<1>2. /\ live' = live /\ live /\ size' = 0 /\ capacity' = capacity
      /\ call' = [op |-> "clear"] /\ mem' = FreeData(mem, size)
  BY DEF Clear, Ready
<1>3. Good(mem') /\ (mem'.data # <<>> => capacity <= Len(mem'.data))
  <2>1. CASE size = 0
    BY <1>1, <1>2, <2>1, FreeDataKeeps
  <2>2. CASE size > 0
    BY <1>1, <1>2, <2>2, FreeDataFrees
  <2> QED BY <1>1, <2>1, <2>2
<1>4. call' \in Calls /\ V!Effect(call', Contents) = <<>>
  BY <1>2 DEF Calls, V!Effect
<1>5. <<>> \in Seq(Element) /\ Len(<<>>) = 0
  OBVIOUS
<1>6. Len(mem'.data) \in Nat
  BY <1>3 DEF Good, Memory
<1>7. IInv' /\ Contents' = <<>>
  <2>1. /\ live' = TRUE /\ size' = Len(<<>>) /\ size' <= MaxSize /\ size' <= capacity'
        /\ size' <= Len(mem'.data) /\ capacity' \in Nat
        /\ \A j \in 1 .. Len(<<>>) : mem'.data[j] = <<>>[j]
    BY <1>1, <1>2, <1>5, <1>6 DEF IInv, Sound, TypeOK
  <2> QED BY <1>2, <1>3, <1>5, <2>1, LeavesVector
<1> QED BY <1>4, <1>7 DEF Effective

(* Runtime_array_delete leaves nothing. *)
LEMMA DeleteStep ==
  ASSUME IInv, Careless = {}, Delete
  PROVE  IInv' /\ Effective
<1>1. size \in Nat /\ MaxSize \in Nat /\ Good(mem)
  BY BeforeCall
<1>2. /\ size > 0 \/ mem.data = <<>>
      /\ live' = FALSE /\ size' = 0 /\ capacity' = 0
      /\ call' = [op |-> "delete"] /\ mem' = FreeData(mem, size)
  BY DEF Delete, Keeps, Replaceable
<1>3. Good(mem') /\ mem'.data = <<>>
  BY <1>1, <1>2, FreeDataFrees
<1>4. call' \in Calls /\ V!Effect(call', Contents) = <<>>
  BY <1>2 DEF Calls, V!Effect
<1>5. Len(<<>>) = 0
  OBVIOUS
<1>6. IInv'
  <2>1. /\ mem' \in [data : Seq(Element), blocks : Nat, fault : BOOLEAN]
        /\ ~mem'.fault /\ mem'.blocks = 0
    BY <1>3 DEF Good, Memory
  <2>2. live' \in BOOLEAN
    BY <1>2, Zenon
  <2>3. Len(mem'.data) = 0
    BY <1>3, <1>5
  <2> QED BY <1>1, <1>2, <1>3, <2>1, <2>2, <2>3
          DEF IInv, Sound, TypeOK, InBounds, DataHoldsSize, NoLeak
<1>7. Contents' = <<>>
  BY <1>2, <1>3, <1>5, SubSeqEmpty DEF Contents
<1> QED BY <1>4, <1>6, <1>7 DEF Effective
-----------------------------------------------------------------------------
(* No array exists at first. *)
LEMMA Initially == Init => IInv /\ V!Init
<1> SUFFICES ASSUME Init PROVE IInv /\ V!Init
  OBVIOUS
<1>1. <<>> \in Seq(Element) /\ Len(<<>>) = 0
  OBVIOUS
<1>2. /\ live = FALSE /\ size = 0 /\ capacity = 0 /\ call = [op |-> "none"]
      /\ mem = [data |-> <<>>, blocks |-> 0, fault |-> FALSE]
  BY DEF Init, NoMemory
<1>3. IInv
  <2>1. mem \in [data : Seq(Element), blocks : Nat, fault : BOOLEAN]
    BY <1>1, <1>2
  <2>2. ~mem.fault /\ mem.blocks = 0 /\ mem.data = <<>>
    BY <1>2
  <2>3. live \in BOOLEAN
    BY <1>2, Zenon
  <2>4. Len(mem.data) = 0
    BY <1>1, <2>2
  <2> QED BY <1>2, <2>1, <2>2, <2>3, <2>4, ArrayAssumption
          DEF IInv, Sound, TypeOK, InBounds, DataHoldsSize, NoLeak
<1>4. Contents = <<>>
  BY <1>1, <1>2, SubSeqEmpty DEF Contents
<1> QED BY <1>2, <1>3, <1>4 DEF V!Init

(* Every operation keeps the invariant and has its effect. *)
LEMMA EveryStep ==
  ASSUME IInv, Careless = {}, Next
  PROVE  IInv' /\ Effective
<1>1. ASSUME NEW n \in 0 .. MaxSize, New(n) PROVE IInv' /\ Effective
  BY <1>1, NewStep
<1>2. ASSUME NEW n \in 0 .. MaxSize, Reserve(n) PROVE IInv' /\ Effective
  BY <1>2, ReserveStep
<1>3. ASSUME NEW n \in 0 .. MaxSize, Resize(n) PROVE IInv' /\ Effective
  BY <1>3, ResizeStep
<1>4. ASSUME NEW i \in 1 .. size, NEW e \in Element, Store(i, e)
      PROVE  IInv' /\ Effective
  BY <1>4, StoreStep
<1>5. ASSUME NEW at \in 0 .. size, NEW e \in Element, Insert(e, at)
      PROVE  IInv' /\ Effective
  BY <1>5, InsertStep
<1>6. ASSUME NEW s \in Sources, NEW c \in {0} \cup (Len(s) .. MaxSize),
             AppendFrom(s, c)
      PROVE  IInv' /\ Effective
  BY <1>6, AppendFromStep
<1>7. ASSUME NEW s \in Sources, NEW c \in {0} \cup (Len(s) .. MaxSize), Copy(s, c)
      PROVE  IInv' /\ Effective
  BY <1>7, CopyStep
<1>8. CASE Clear
  BY <1>8, ClearStep
<1>9. CASE Delete
  BY <1>9, DeleteStep
<1> QED BY <1>1, <1>2, <1>3, <1>4, <1>5, <1>6, <1>7, <1>8, <1>9 DEF Next

(* A step that changes nothing leaves the vector alone. *)
LEMMA Stuttering == UNCHANGED vars => UNCHANGED <<call, Contents>> /\ (IInv => IInv')
BY DEF vars, Contents, IInv, Sound, TypeOK, InBounds, DataHoldsSize, NoLeak
-----------------------------------------------------------------------------
(* For clients that keep every contract, memory is sound after every       *)
(* operation of Runtime_array_*: no access outside the block, no block     *)
(* lost, size within capacity and capacity within the block.               *)
THEOREM Soundness ==
  ASSUME Careless = {}
  PROVE  Spec => []Sound
<1>1. Init => IInv
  BY Initially
<1>2. IInv /\ [Next]_vars => IInv'
  BY EveryStep, Stuttering
<1>3. IInv => Sound
  BY DEF IInv
<1> QED BY <1>1, <1>2, <1>3, PTL DEF Spec

(* For these clients the array is a vector: every operation has the effect *)
(* on the elements that its name says, at any size.                        *)
THEOREM ArrayIsVector ==
  ASSUME Careless = {}
  PROVE  Spec => IsVector
<1>1. Init => IInv /\ V!Init
  BY Initially
<1>2. IInv /\ [Next]_vars => IInv' /\ [V!Next]_(V!vvars)
  <2>1. ASSUME IInv, Next PROVE IInv' /\ V!Next
    BY <2>1, EveryStep DEF Effective, V!Next
  <2>2. ASSUME IInv, UNCHANGED vars PROVE IInv' /\ UNCHANGED V!vvars
    BY <2>2, Stuttering DEF V!vvars
  <2> QED BY <2>1, <2>2
<1> QED BY <1>1, <1>2, PTL DEF Spec, IsVector, V!Spec
=============================================================================
