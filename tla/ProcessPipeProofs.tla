-------------------------- MODULE ProcessPipeProofs --------------------------
(***************************************************************************)
(* Proofs about module ProcessPipe, for every size of the pipe and of the  *)
(* read buffer and every length of the output: types, the order in which   *)
(* the three processes start and end, what becomes of the output, that     *)
(* every step of a thread of the parent brings it nearer to its end, and   *)
(* where the threads can be stuck.                                         *)
(***************************************************************************)
EXTENDS ProcessPipe, SequenceTheorems, NaturalsInduction, WellFoundedInduction,
        TLAPS
-----------------------------------------------------------------------------
(* Sequences and C strings. *)

(* Cutting a sequence in two. *)
LEMMA Cut ==
  ASSUME NEW S, NEW s \in Seq(S), NEW k \in 0 .. Len(s)
  PROVE  /\ SubSeq(s, 1, k) \in Seq(S) /\ Len(SubSeq(s, 1, k)) = k
         /\ \A i \in 1 .. k : SubSeq(s, 1, k)[i] = s[i]
         /\ SubSeq(s, k + 1, Len(s)) \in Seq(S)
         /\ Len(SubSeq(s, k + 1, Len(s))) = Len(s) - k
         /\ \A i \in 1 .. (Len(s) - k) : SubSeq(s, k + 1, Len(s))[i] = s[k + i]
<1> DEFINE a == SubSeq(s, 1, k)
           b == SubSeq(s, k + 1, Len(s))
<1>0. Len(s) \in Nat /\ k \in Nat /\ k <= Len(s) /\ \A i \in 1 .. Len(s) : s[i] \in S
  BY LenProperties
<1>1. a \in Seq(S) /\ Len(a) = k /\ \A i \in 1 .. k : a[i] = s[i]
  BY <1>0, SubSeqProperties
<1>2. /\ b \in Seq(S) /\ Len(b) = Len(s) - k
      /\ \A i \in 1 .. (Len(s) - k) : b[i] = s[k + i]
  <2>1. \A i \in (k + 1) .. Len(s) : s[i] \in S
    BY <1>0
  <2>2. /\ b \in Seq(S)
        /\ Len(b) = IF k + 1 <= Len(s) THEN Len(s) - (k + 1) + 1 ELSE 0
        /\ \A i \in 1 .. (Len(s) - (k + 1) + 1) : b[i] = s[k + 1 + i - 1]
    BY <1>0, <2>1, SubSeqProperties
  <2> HIDE DEF b
  <2> QED BY <1>0, <2>2
<1> QED BY <1>1, <1>2

(* A set of numbers that is not empty has a least element. *)
LEMMA LeastNumber ==
  ASSUME NEW T, T \subseteq Nat, T # {}
  PROVE  \E n \in T : \A k \in T : n <= k
<1> DEFINE below == {p \in Nat \X Nat : p[1] < p[2]}
<1>1. IsWellFoundedOn(below, Nat)
  <2>1. below = OpToRel(<, Nat)
    BY DEF OpToRel
  <2> QED BY <2>1, NatLessThanWellFounded
<1>2. \A k, n \in Nat : k < n => <<k, n>> \in below
  OBVIOUS
<1> HIDE DEF below
<1>3. PICK n \in T : \A k \in T : ~ (<<k, n>> \in below)
  BY <1>1, WFMin
<1>4. ASSUME NEW k \in T PROVE n <= k
  <2>1. n \in Nat /\ k \in Nat
    OBVIOUS
  <2>2. k < n => <<k, n>> \in below
    BY <1>2, <2>1
  <2> QED BY <1>3, <2>1, <2>2
<1> QED BY <1>4

(* Every sequence of bytes has a length as a C string, so the callback is  *)
(* always given one.                                                       *)
LEMMA CLengthExists ==
  ASSUME NEW bytes \in Seq(Nat)
  PROVE  \E n \in 0 .. Len(bytes) :
           IsCLength(n, bytes) /\ CString(bytes) = SubSeq(bytes, 1, n)
<1>0. Len(bytes) \in Nat
  BY LenProperties
<1>1. \E n \in 0 .. Len(bytes) : IsCLength(n, bytes)
  <2> DEFINE Ends == {n \in 0 .. Len(bytes) : n < Len(bytes) => bytes[n + 1] \in nuls}
  <2>1. Ends \subseteq Nat /\ Len(bytes) \in Ends
    BY <1>0
  <2>2. PICK n \in Ends : \A k \in Ends : n <= k
    BY <2>1, LeastNumber
  <2>3. ASSUME NEW i \in 1 .. n, bytes[i] \in nuls PROVE FALSE
    <3>1. n \in Nat /\ n <= Len(bytes) /\ i \in Nat /\ (i - 1) + 1 = i
      BY <1>0
    <3>2. i - 1 \in 0 .. Len(bytes) /\ i - 1 < n
      BY <1>0, <3>1
    <3>3. i - 1 \in Ends
      BY <2>3, <3>1, <3>2
    <3> HIDE DEF Ends
    <3>4. n <= i - 1
      BY <2>2, <3>3
    <3> QED BY <3>1, <3>2, <3>4
  <2>4. n \in 0 .. Len(bytes) /\ (n < Len(bytes) => bytes[n + 1] \in nuls)
    BY <2>2
  <2>5. \A i \in 1 .. n : bytes[i] \notin nuls
    BY <2>3
  <2> QED BY <2>4, <2>5 DEF IsCLength
<1> DEFINE n == CHOOSE n \in 0 .. Len(bytes) : IsCLength(n, bytes)
<1>2. n \in 0 .. Len(bytes) /\ IsCLength(n, bytes)
  BY <1>1, Zenon
<1>3. CString(bytes) = SubSeq(bytes, 1, n)
  BY DEF CString
<1> QED BY <1>2, <1>3
-----------------------------------------------------------------------------
(* What one ReadFile takes. *)
LEMMA ChunkFacts ==
  ASSUME TypeOK, pipe # <<>>
  PROVE  Chunk \in 0 .. Len(pipe) /\ Chunk <= BufSize /\ Chunk \in Nat
<1>1. Len(pipe) \in Nat
  BY LenProperties DEF TypeOK
<1> QED BY <1>1, PipeAssumption DEF Chunk

(* ReadFile overfills neither the buffer nor the pipe. *)
LEMMA ReadTypes ==
  ASSUME TypeOK, Read PROVE TypeOK'
<1>1. Chunk \in 0 .. Len(pipe) /\ Chunk <= BufSize
  BY ChunkFacts DEF Read
<1>2. pipe \in Seq(Nat) /\ Len(pipe) \in Nat /\ Len(pipe) <= PipeSize
  BY LenProperties DEF TypeOK
<1>3. /\ readBuffer' \in Seq(Nat) /\ pipe' \in Seq(Nat)
      /\ Len(readBuffer') = Chunk /\ Len(pipe') = Len(pipe) - Chunk
  BY <1>1, <1>2, Cut, SMTT(40) DEF Read
<1>4. Len(readBuffer') <= BufSize /\ Len(pipe') <= PipeSize
  BY <1>1, <1>2, <1>3, PipeAssumption
<1> QED BY <1>3, <1>4 DEF Read, TypeOK

(* A write does not overfill the pipe. *)
LEMMA WriteTypes ==
  ASSUME TypeOK, ChildWrites PROVE TypeOK'
<1>1. pipe \in Seq(Nat) /\ Len(pipe) \in Nat /\ Len(pipe) < PipeSize
  BY LenProperties DEF TypeOK, ChildWrites
<1>2. written' = written + 1 /\ written' \in 0 .. MaxOutput /\ written' \in Nat
  BY PipeAssumption DEF TypeOK, ChildWrites
<1>5. nuls' \subseteq 1 .. written'
  BY <1>2, PipeAssumption DEF TypeOK, ChildWrites
<1>3. pipe' \in Seq(Nat) /\ Len(pipe') = Len(pipe) + 1
  BY <1>1, <1>2, AppendProperties DEF ChildWrites
<1>4. Len(pipe') <= PipeSize
  BY <1>1, <1>3, PipeAssumption
<1> QED BY <1>2, <1>3, <1>4, <1>5 DEF ChildWrites, TypeOK

(* The callback keeps the types. *)
LEMMA CallbackTypes ==
  ASSUME TypeOK, Callback PROVE TypeOK'
<1>1. delivered' \in Seq(Nat)
  <2>1. CString(readBuffer) \in Seq(Nat)
    <3>1. PICK n \in 0 .. Len(readBuffer) : CString(readBuffer) = SubSeq(readBuffer, 1, n)
      BY CLengthExists DEF TypeOK
    <3> QED BY <3>1, Cut DEF TypeOK
  <2> QED BY <2>1, ConcatProperties DEF TypeOK, Callback
<1>2. readBuffer' \in Seq(Nat) /\ Len(readBuffer') <= BufSize
  BY EmptySeq, PipeAssumption DEF Callback
<1> QED BY <1>1, <1>2 DEF Callback, TypeOK

(* Every step keeps the types. *)
LEMMA TypeStep == ASSUME TypeOK, [Next]_vars PROVE TypeOK'
<1>1. CASE ChildStep
  BY <1>1, WriteTypes DEF ChildStep, ChildExits, TypeOK, io
<1>2. CASE ReaderStep
  <2>1. CASE Peek \/ TestProcess \/ ClosePipe
    BY <2>1 DEF Peek, TestProcess, ClosePipe, TypeOK, io
  <2> QED BY <1>2, <2>1, ReadTypes, CallbackTypes DEF ReaderStep
<1>3. CASE MainStep
  <2>1. /\ written' = written /\ nuls' = nuls /\ pipe' = pipe
        /\ readBuffer' = readBuffer /\ delivered' = delivered
    BY <1>3 DEF MainStep, Redirect, RedirectThrows, Refuse, CreateChild, StartReader, StartReaderThrows,
      WaitForChild, CloseChildHandle, RestoreStdout, RestoreThrows, WaitForReader, Unwind, io
  <2>2. /\ main' \in {"create", "startReader", "waitChild", "closeHandle", "restore",
                      "waitReader", "returned", "refused", "unwinding", "threw"}
        /\ reader' \in {reader, "read"} /\ child' \in {child, "running"}
        /\ handle' \in {handle, "open", "closed", "none"} /\ stdout' \in {stdout, "own", "pipe"}
    BY <1>3 DEF MainStep, Redirect, RedirectThrows, Refuse, CreateChild, StartReader, StartReaderThrows,
      WaitForChild, CloseChildHandle, RestoreStdout, RestoreThrows, WaitForReader, Unwind
  <2> QED BY <2>1, <2>2 DEF TypeOK
<1>4. CASE UNCHANGED vars
  BY <1>4 DEF vars, TypeOK
<1> QED BY <1>1, <1>2, <1>3, <1>4 DEF Next

(* Types are correct for every size of the pipe and the buffer; in         *)
(* particular neither is ever overfull.                                    *)
THEOREM TypeCorrect == Spec => []TypeOK
<1>1. Init => TypeOK
  <2>1. <<>> \in Seq(Nat) /\ Len(<<>>) = 0
    BY EmptySeq
  <2> QED BY <2>1, PipeAssumption DEF Init, TypeOK
<1>2. TypeOK /\ [Next]_vars => TypeOK'
  BY TypeStep
<1> QED BY <1>1, <1>2, PTL DEF Spec
-----------------------------------------------------------------------------
(* The order in which the processes start and end. *)

Ordered ==
  /\ StartsInOrder /\ HandleValid /\ ReaderOutlivesChild
  /\ reader # "callback" => readBuffer = <<>>

(* Every step keeps the order in which the processes start and end. *)
LEMMA OrderStep ==
  ASSUME TypeOK, Ordered, [Next]_vars PROVE Ordered'
<1> USE DEF Ordered, StartsInOrder, HandleValid, ReaderOutlivesChild, Failed
<1>1. CASE ChildStep
  BY <1>1 DEF ChildStep, ChildWrites, ChildExits, io
<1>2. CASE ReaderStep
  <2>1. CASE Read \/ Callback \/ Peek \/ ClosePipe
    BY <2>1 DEF Read, Callback, Peek, ClosePipe, io, TypeOK
  <2>2. CASE TestProcess
    (* When the reader gives up, the handle is open and the child is not   *)
    (* running, or the main thread has already seen the child exit.        *)
    <3>1. reader' = "close" => child = "exited"
      BY <2>2 DEF TestProcess, Active, TypeOK
    <3> QED BY <2>2, <3>1 DEF TestProcess, io
  <2> QED BY <1>2, <2>1, <2>2 DEF ReaderStep
<1>3. CASE MainStep
  BY <1>3 DEF MainStep, Redirect, RedirectThrows, Refuse, CreateChild, StartReader,
              StartReaderThrows, WaitForChild, CloseChildHandle, RestoreStdout,
              RestoreThrows, WaitForReader, Unwind, TypeOK, io
<1>4. CASE UNCHANGED vars
  BY <1>4 DEF vars
<1> QED BY <1>1, <1>2, <1>3, <1>4 DEF Next
-----------------------------------------------------------------------------
(* What becomes of the output. *)

(* A byte written is the next one of the output. *)
LEMMA WriteConserves ==
  ASSUME TypeOK, Conserved, ChildWrites PROVE Conserved'
<1>1. /\ pipe \in Seq(Nat) /\ Len(pipe) \in Nat /\ Len(readBuffer) \in Nat
      /\ written \in Nat /\ written + 1 \in Nat
  BY LenProperties, PipeAssumption DEF TypeOK
<1>2. /\ Len(pipe') = Len(pipe) + 1 /\ pipe'[Len(pipe) + 1] = written + 1
      /\ \A i \in 1 .. Len(pipe) : pipe'[i] = pipe[i]
  BY <1>1, AppendProperties DEF ChildWrites
<1>3. Past' = Past /\ Past \in Nat /\ Past <= written
  BY <1>1, <1>2 DEF Past, ChildWrites, Conserved, InTransit
<1>4. InTransit'
  BY <1>1, <1>2, <1>3 DEF InTransit, Past, ChildWrites, Conserved
<1>5. InOrder'
  BY <1>3 DEF InOrder, ChildWrites, Conserved
<1>6. LostToNul'
  <2>1. nuls \subseteq nuls' /\ nuls' \subseteq nuls \cup {written + 1}
    BY DEF ChildWrites
  <2>2. \A k \in 1 .. Len(delivered) : delivered[k] # written + 1
    BY <1>1, <1>3 DEF InOrder, Conserved
  <2> QED BY <1>3, <2>1, <2>2 DEF LostToNul, IsDelivered, ChildWrites, Conserved
<1> QED BY <1>4, <1>5, <1>6 DEF Conserved

(* What ReadFile takes from the pipe is in the buffer. *)
LEMMA ReadConserves ==
  ASSUME TypeOK, Ordered, Conserved, Read PROVE Conserved'
<1>1. /\ pipe \in Seq(Nat) /\ Len(pipe) \in Nat /\ Len(readBuffer) = 0
      /\ Chunk \in 0 .. Len(pipe) /\ written \in Nat
  BY ChunkFacts, LenProperties, EmptySeq, PipeAssumption DEF TypeOK, Ordered, Read
<1>2. /\ Len(readBuffer') = Chunk /\ \A i \in 1 .. Chunk : readBuffer'[i] = pipe[i]
      /\ Len(pipe') = Len(pipe) - Chunk
      /\ \A i \in 1 .. Len(pipe) - Chunk : pipe'[i] = pipe[Chunk + i]
  BY <1>1, Cut DEF Read
<1>3. Past' = Past
  <2>1. written' = written
    BY DEF Read
  <2> QED BY <1>1, <1>2, <2>1 DEF Past
<1>4. InTransit'
  <2>1. Past \in Nat /\ \A i \in 1 .. Len(pipe) : pipe[i] = Past + i
    BY <1>1 DEF InTransit, Conserved
  <2> HIDE DEF Past
  <2> QED BY <1>1, <1>2, <1>3, <2>1, SMTT(40) DEF InTransit
<1>5. InOrder' /\ LostToNul'
  BY <1>3 DEF InOrder, LostToNul, IsDelivered, Read, Conserved
<1> QED BY <1>4, <1>5 DEF Conserved

(* What the callback takes from the buffer is delivered up to the first    *)
(* NUL; that NUL is to blame for the rest.                                 *)
LEMMA CallbackConserves ==
  ASSUME TypeOK, Conserved, Callback PROVE Conserved'
<1> DEFINE D == Len(delivered)
           B == Len(readBuffer)
<1>1. PICK n \in 0 .. B : IsCLength(n, readBuffer) /\ CString(readBuffer) = SubSeq(readBuffer, 1, n)
  BY CLengthExists DEF TypeOK
<1>2. /\ D \in Nat /\ B \in Nat /\ n \in Nat /\ n <= B /\ B <= BufSize
      /\ Len(pipe) \in Nat /\ written \in Nat /\ BufSize \in Nat
  BY LenProperties, PipeAssumption DEF TypeOK
<1>3. /\ Past \in Nat /\ \A i \in 1 .. B : readBuffer[i] = Past + i
      /\ \A i \in 1 .. Len(pipe) : pipe[i] = Past + B + i
  BY DEF Conserved, InTransit
<1>4. /\ Len(delivered') = D + n
      /\ \A k \in 1 .. D : delivered'[k] = delivered[k]
      /\ \A k \in 1 .. n : delivered'[D + k] = Past + k
  <2> DEFINE c == SubSeq(readBuffer, 1, n)
  <2>1. c \in Seq(Nat) /\ Len(c) = n /\ \A k \in 1 .. n : c[k] = readBuffer[k]
    BY <1>2, Cut, SMTT(40) DEF TypeOK
  <2>2. delivered' = delivered \o c /\ delivered \in Seq(Nat)
    BY <1>1 DEF Callback, TypeOK
  <2> HIDE DEF c
  <2>3. /\ Len(delivered \o c) = D + n
        /\ \A k \in 1 .. (D + n) : (delivered \o c)[k] = IF k <= D THEN delivered[k] ELSE c[k - D]
    BY <2>1, <2>2, ConcatProperties
  <2>4. \A k \in 1 .. D : (delivered \o c)[k] = delivered[k]
    BY <1>2, <2>3
  <2>5. ASSUME NEW k \in 1 .. n PROVE (delivered \o c)[D + k] = Past + k
    <3>1. D + k \in 1 .. (D + n) /\ ~(D + k <= D) /\ (D + k) - D = k /\ k \in 1 .. B
      BY <1>2
    <3> QED BY <1>3, <2>1, <2>3, <3>1
  <2> QED BY <2>2, <2>3, <2>4, <2>5
<1>5. Past' = Past + B /\ Len(readBuffer') = 0 /\ pipe' = pipe /\ nuls' = nuls
  BY <1>2, EmptySeq DEF Past, Callback
<1>6. InTransit'
  BY <1>2, <1>3, <1>5 DEF InTransit
<1> DEFINE Old(k) == k \in 1 .. D /\ delivered'[k] = delivered[k] /\ delivered'[k] \in 1 .. Past
           New(k) == k - D \in 1 .. n /\ delivered'[k] = Past + (k - D)
<1>7. ASSUME NEW k \in 1 .. (D + n) PROVE k \in Nat /\ (Old(k) \/ New(k))
  <2>1. CASE k <= D
    BY <1>2, <1>4, <2>1 DEF Conserved, InOrder
  <2>2. CASE k > D
    <3>1. k - D \in 1 .. n /\ D + (k - D) = k
      BY <1>2, <2>2
    <3> QED BY <1>4, <3>1
  <2> QED BY <1>2, <2>1, <2>2
<1>8. InOrder'
  <2>1. ASSUME NEW k \in 1 .. (D + n) PROVE delivered'[k] \in 1 .. Past'
    BY <1>2, <1>3, <1>5, <1>7, SMTT(40)
  <2>2. ASSUME NEW k \in 1 .. (D + n), NEW l \in 1 .. (D + n), k < l
        PROVE  delivered'[k] < delivered'[l]
    <3>1. CASE Old(k) /\ Old(l)
      BY <2>2, <3>1 DEF Conserved, InOrder
    <3>2. CASE Old(k) /\ New(l)
      BY <1>3, <3>2
    <3>3. CASE New(k) /\ New(l)
      BY <1>2, <1>3, <2>2, <3>3
    <3>4. ~(New(k) /\ Old(l))
      BY <1>2, <2>2
    <3> QED BY <1>7, <3>1, <3>2, <3>3, <3>4
  <2> QED BY <1>4, <2>1, <2>2 DEF InOrder
<1>9. LostToNul'
  <2>1. ASSUME NEW k \in 1 .. (D + n) PROVE delivered'[k] \notin nuls
    <3>1. CASE Old(k)
      BY <3>1 DEF Conserved, LostToNul
    <3>2. CASE New(k)
      <4>1. k - D \in 1 .. B
        BY <1>2, <3>2
      <4> QED BY <1>1, <1>3, <3>2, <4>1 DEF IsCLength
    <3> QED BY <1>7, <3>1, <3>2
  <2>2. ASSUME NEW i \in 1 .. Past', ~IsDelivered(i)'
        PROVE  \E m \in nuls : /\ m <= i /\ i - m < BufSize
                               /\ \A j \in m .. i : ~IsDelivered(j)'
    <3>1. CASE i <= Past
      <4>1. i \in 1 .. Past /\ ~IsDelivered(i)
        BY <1>2, <1>3, <1>4, <2>2, <3>1 DEF IsDelivered
      <4>2. PICK m \in nuls : /\ m <= i /\ i - m < BufSize
                              /\ \A j \in m .. i : ~IsDelivered(j)
        BY <4>1 DEF Conserved, LostToNul
      <4>3. ASSUME NEW j \in m .. i, IsDelivered(j)' PROVE FALSE
        <5>1. PICK k \in 1 .. (D + n) : delivered'[k] = j
          BY <1>4, <4>3 DEF IsDelivered
        <5>2. m \in Int /\ j <= Past
          BY <1>3, <3>1 DEF TypeOK
        <5>3. Old(k)
          BY <1>2, <1>3, <1>7, <5>1, <5>2, SMTT(40)
        <5> QED BY <4>2, <5>1, <5>3 DEF IsDelivered
      <4> QED BY <4>2, <4>3
    <3>2. CASE i > Past
      <4>1. i - Past \in 1 .. B /\ i = Past + (i - Past) /\ i \in Nat
        BY <1>2, <1>3, <1>5, <3>2
      <4>2. n < i - Past
        <5> SUFFICES ASSUME i - Past <= n PROVE FALSE
          BY <1>2, <4>1
        <5>1. i - Past \in 1 .. n
          BY <1>2, <4>1
        <5>2. D + (i - Past) \in 1 .. (D + n) /\ delivered'[D + (i - Past)] = i
          BY <1>2, <1>4, <4>1, <5>1
        <5> QED BY <1>4, <2>2, <5>2 DEF IsDelivered
      <4>3. Past + (n + 1) \in nuls
        <5>1. n < B /\ n + 1 \in 1 .. B
          BY <1>2, <4>1, <4>2
        <5> QED BY <1>1, <1>3, <5>1 DEF IsCLength
      <4>4. Past + (n + 1) <= i /\ i - (Past + (n + 1)) < BufSize
        BY <1>2, <1>3, <4>1, <4>2
      <4>5. ASSUME NEW j \in (Past + (n + 1)) .. i, IsDelivered(j)' PROVE FALSE
        <5>1. PICK k \in 1 .. (D + n) : delivered'[k] = j
          BY <1>4, <4>5 DEF IsDelivered
        <5> QED BY <1>2, <1>3, <1>7, <5>1, SMTT(40)
      <4> QED BY <4>3, <4>4, <4>5
    <3> QED BY <1>2, <1>3, <1>5, <3>1, <3>2
  <2> QED BY <1>4, <1>5, <2>1, <2>2 DEF LostToNul
<1> QED BY <1>6, <1>8, <1>9 DEF Conserved

(* Every step conserves the output. *)
LEMMA ConserveStep ==
  ASSUME TypeOK, Ordered, Conserved, [Next]_vars PROVE Conserved'
<1>1. CASE UNCHANGED io
  BY <1>1 DEF io, Conserved, InTransit, InOrder, LostToNul, IsDelivered, Past
<1>2. CASE ~UNCHANGED io
  BY <1>2, WriteConserves, ReadConserves, CallbackConserves
  DEF Next, ChildStep, ReaderStep, ChildExits, Peek, TestProcess, ClosePipe,
      MainStep, Redirect, RedirectThrows, Refuse, CreateChild, StartReader,
              StartReaderThrows, WaitForChild, CloseChildHandle, RestoreStdout,
              RestoreThrows, WaitForReader, Unwind, vars, io
<1> QED BY <1>1, <1>2

(* Inv holds in every reachable state: the main thread's progress tells    *)
(* which processes exist, and the output is in order, with no gaps but     *)
(* those NUL bytes leave.                                                  *)
THEOREM Invariant == Spec => []Inv
<1>1. Init => Ordered /\ Conserved
  <2> SUFFICES ASSUME Init PROVE Ordered /\ Conserved
    OBVIOUS
  <2>1. Ordered
    BY DEF Init, Ordered, StartsInOrder, HandleValid, ReaderOutlivesChild, Failed
  <2>2. Len(pipe) = 0 /\ Len(readBuffer) = 0 /\ Len(delivered) = 0 /\ written = 0
    BY EmptySeq DEF Init
  <2>3. Past = 0
    BY <2>2 DEF Past
  <2>4. Conserved
    BY <2>2, <2>3 DEF Conserved, InTransit, InOrder, LostToNul
  <2> QED BY <2>1, <2>4
<1>2. TypeOK /\ Ordered /\ Conserved /\ [Next]_vars => Ordered' /\ Conserved'
  BY OrderStep, ConserveStep
<1>3. Ordered /\ Conserved => Inv
  BY DEF Ordered, Inv
<1> QED BY <1>1, <1>2, <1>3, TypeCorrect, PTL DEF Spec

(* The callback receives the child's output in order, without repetition;  *)
(* all it misses of what the reader has taken from the pipe is what a NUL  *)
(* byte cuts off, which is the NUL and less than a buffer after it.        *)
THEOREM OutputConserved == Spec => []Conserved
BY Invariant, PTL DEF Inv

(* The reader never gives up on a running child. *)
THEOREM ReaderWaits == Spec => []ReaderOutlivesChild
BY Invariant, PTL DEF Inv
-----------------------------------------------------------------------------
(***************************************************************************)
(* Why createProcess returns or hangs.  Each step of a thread of the       *)
(* parent brings the threads nearer to their end (Distance), and where     *)
(* neither thread can take one both are done, the child is awaited with    *)
(* the pipe empty, or the reader waits for output nobody writes.  Fairness *)
(* of the threads turns the two into the liveness properties.              *)
(***************************************************************************)

(* How far the main thread is from its end, and the reader from its end  *)
(* if it finds nothing more to read.                                       *)
MainDistance ==
  CASE main = "redirect" -> 7    [] main = "create" -> 6  [] main = "startReader" -> 5
    [] main = "waitChild" -> 4   [] main = "closeHandle" -> 3
    [] main = "restore" -> 2     [] main \in {"waitReader", "unwinding"} -> 1
    [] OTHER -> 0
ReaderDistance ==
  CASE reader = "unborn" -> 4    [] reader = "callback" -> 6  [] reader = "peek" -> 5
    [] reader = "test" -> 4      [] reader = "read" -> 3      [] reader = "close" -> 2
    [] OTHER -> 0
Distance == MainDistance + ReaderDistance + 4 * Len(pipe)

(* The steps a thread of the parent can take: neither is blocked in a      *)
(* system call, nor at its end.                                            *)
ReaderCanStep == reader \in {"callback", "peek", "test", "close"}
                   \/ (reader = "read" /\ pipe # <<>>)
MainCanStep ==
  \/ main \in {"redirect", "create", "startReader", "closeHandle", "restore"}
  \/ main = "waitChild" /\ child = "exited"
  \/ main = "waitReader" /\ reader = "done"
  \/ main = "unwinding" /\ reader \in {"unborn", "done"}

(* While main has not restored the standard output it is the pipe. *)
Redirected ==
  main # "unwinding" /\ main # "threw" =>
    stdout = IF main \in {"redirect", "waitReader", "returned"} THEN "own" ELSE "pipe"

(* Neither a return nor an exception leaves a reader at work. *)
ReaderAwaited == main \in {"returned", "threw"} => reader \in {"unborn", "done"}

(* The distance is a number. *)
LEMMA DistanceType == ASSUME TypeOK PROVE Distance \in Nat
<1>1. Len(pipe) \in Nat
  BY LenProperties DEF TypeOK
<1>2. MainDistance \in Nat /\ ReaderDistance \in Nat
  BY DEF MainDistance, ReaderDistance
<1> QED BY <1>1, <1>2 DEF Distance

(* A read takes something out of the pipe. *)
LEMMA ReadShortens ==
  ASSUME TypeOK, Read
  PROVE  Len(pipe') \in Nat /\ Len(pipe) \in Nat /\ Len(pipe') <= Len(pipe) - 1
<1>1. pipe \in Seq(Nat) /\ pipe # <<>> /\ Len(pipe) \in Nat \ {0}
  BY EmptySeq, LenProperties DEF TypeOK, Read
<1>2. Chunk \in 1 .. Len(pipe)
  BY <1>1, PipeAssumption DEF Chunk
<1>3. Len(SubSeq(pipe, Chunk + 1, Len(pipe))) = Len(pipe) - Chunk
  BY <1>1, <1>2, Cut
<1> QED BY <1>1, <1>2, <1>3 DEF Read

(* A step of the reader thread lowers the distance. *)
LEMMA ReaderNearer ==
  ASSUME TypeOK, ReaderStep
  PROVE  Distance' < Distance
<1>1. Len(pipe) \in Nat
  BY LenProperties DEF TypeOK
<1>2. MainDistance' = MainDistance /\ MainDistance \in Nat
  BY DEF ReaderStep, Read, Callback, Peek, TestProcess, ClosePipe, MainDistance
<1>3. CASE Read
  <2>1. ReaderDistance = 3 /\ ReaderDistance' = 6
    BY <1>3 DEF Read, ReaderDistance
  <2> QED BY <1>2, <1>3, <2>1, ReadShortens DEF Distance
<1>4. CASE Callback \/ Peek \/ TestProcess \/ ClosePipe
  <2>1. pipe' = pipe
    BY <1>4 DEF Callback, Peek, TestProcess, ClosePipe, io
  <2>2. ReaderDistance' \in Nat /\ ReaderDistance \in Nat /\ ReaderDistance' < ReaderDistance
    BY <1>4 DEF Callback, Peek, TestProcess, ClosePipe, ReaderDistance
  <2> QED BY <1>1, <1>2, <2>1, <2>2 DEF Distance
<1> QED BY <1>3, <1>4 DEF ReaderStep

(* A step of the main thread lowers the distance: a reader that is started *)
(* has not run before.                                                     *)
LEMMA MainNearer ==
  ASSUME TypeOK, StartsInOrder, MainStep
  PROVE  Distance' < Distance
<1>1. Len(pipe) \in Nat /\ pipe' = pipe
  BY LenProperties DEF TypeOK, MainStep, Redirect, RedirectThrows, Refuse, CreateChild,
     StartReader, StartReaderThrows, WaitForChild, CloseChildHandle, RestoreStdout, RestoreThrows, WaitForReader, Unwind, io
<1>2. MainDistance' \in Nat /\ MainDistance \in Nat /\ MainDistance' < MainDistance
  BY DEF MainStep, Redirect, RedirectThrows, Refuse, CreateChild, StartReader, StartReaderThrows,
     WaitForChild, CloseChildHandle, RestoreStdout, RestoreThrows, WaitForReader, Unwind, MainDistance
<1>3. ReaderDistance' \in Nat /\ ReaderDistance \in Nat /\ ReaderDistance' <= ReaderDistance
  <2>1. CASE StartReader
    <3>1. reader = "unborn" /\ reader' = "read"
      BY <2>1 DEF StartReader, StartsInOrder, Failed
    <3> QED BY <3>1 DEF ReaderDistance
  <2>2. CASE ~StartReader
    <3>1. reader' = reader
      BY <2>2 DEF MainStep, Redirect, RedirectThrows, Refuse, CreateChild, StartReaderThrows,
         WaitForChild, CloseChildHandle, RestoreStdout, RestoreThrows, WaitForReader, Unwind
    <3> QED BY <3>1 DEF ReaderDistance
  <2> QED BY <2>1, <2>2
<1> QED BY <1>1, <1>2, <1>3 DEF Distance

(* Each step of the two threads of the parent brings them nearer to their  *)
(* end: the loop of readPipe comes round again only for bytes it has taken *)
(* out of the pipe, though testProcess may tell it that a child which is   *)
(* gone is active.                                                         *)
THEOREM ThreadsGetNearer ==
  Spec => [][ReaderStep \/ MainStep => Distance \in Nat /\ Distance' < Distance]_vars
<1>1. TypeOK /\ Inv /\ [Next]_vars
        => [ReaderStep \/ MainStep => Distance \in Nat /\ Distance' < Distance]_vars
  BY DistanceType, ReaderNearer, MainNearer DEF Inv
<1> QED BY <1>1, TypeCorrect, Invariant, PTL DEF Spec

(* If neither thread of the parent can take a step, one of three things is *)
(* the case.                                                               *)
StuckOnlyIf ==
  ~ReaderCanStep /\ ~MainCanStep =>
    \/ main = "returned" /\ stdout = "own" /\ child = "exited" /\ reader = "done"
    \/ main = "refused" /\ stdout = "pipe" /\ child = "unborn"
    \/ main = "threw" /\ reader = "done" /\ child = "exited"
    \/ main = "threw" /\ reader = "unborn"
    \/ main = "waitChild" /\ reader = "read" /\ child = "running" /\ pipe = <<>>
    \/ Hung

(* The threads are stuck in these ways only: createProcess has returned,   *)
(* the standard output is restored, and child and reader are gone; it has  *)
(* returned false, with the standard output redirected and no child; it    *)
(* has thrown, and the reader is done or was never there; the child runs,  *)
(* and the reader has taken all it has written; or the reader waits for    *)
(* output nobody can write any more.  In particular a child that waits for *)
(* room never waits for a thread that is stuck, unless that is a thread    *)
(* that could not be started.                                              *)
THEOREM StuckStates == Spec => []StuckOnlyIf
<1>1. Init => Redirected /\ ReaderAwaited
  BY DEF Init, Redirected, ReaderAwaited
<1>2. TypeOK /\ Inv /\ Redirected /\ ReaderAwaited /\ [Next]_vars => Redirected' /\ ReaderAwaited'
  <2> SUFFICES ASSUME TypeOK, Inv, Redirected, ReaderAwaited, [Next]_vars
               PROVE  Redirected' /\ ReaderAwaited'
    OBVIOUS
  <2>1. CASE MainStep
    BY <2>1 DEF MainStep, Redirect, RedirectThrows, Refuse, CreateChild, StartReader,
       StartReaderThrows, WaitForChild, CloseChildHandle, RestoreStdout, RestoreThrows,
       WaitForReader, Unwind, Redirected, ReaderAwaited
  <2>2. CASE ChildStep \/ ReaderStep \/ UNCHANGED vars
    BY <2>2 DEF ChildStep, ChildWrites, ChildExits, ReaderStep, Read, Callback, Peek,
       TestProcess, ClosePipe, vars, Redirected, ReaderAwaited
  <2> QED BY <2>1, <2>2 DEF Next
<1>3. TypeOK /\ Inv /\ Redirected /\ ReaderAwaited => StuckOnlyIf
  <2> SUFFICES ASSUME TypeOK, Inv, Redirected, ReaderAwaited, ~ReaderCanStep, ~MainCanStep
               PROVE  StuckOnlyIf
    BY DEF StuckOnlyIf
  <2>1. /\ main \in {"waitChild", "waitReader", "returned", "refused", "unwinding", "threw"}
        /\ main = "waitChild" => child # "exited"
        /\ main = "waitReader" => reader # "done"
        /\ main = "unwinding" => reader \notin {"unborn", "done"}
    BY DEF MainCanStep, TypeOK
  <2>2. /\ reader \in {"unborn", "read", "done"}
        /\ reader = "read" => pipe = <<>>
    BY DEF ReaderCanStep, TypeOK
  <2>3. /\ main \in {"waitChild", "waitReader", "returned"}
             => reader # "unborn" /\ child \in {"running", "exited"}
        /\ main = "refused" => child = "unborn"
    BY DEF Inv, StartsInOrder, Failed, TypeOK
  <2>4. /\ main \in {"waitReader", "returned"} => child = "exited"
        /\ main \in {"unwinding", "threw"} /\ reader # "unborn" => child = "exited"
        /\ reader = "done" => child = "exited"
    BY DEF Inv, HandleValid, ReaderOutlivesChild, Failed
  <2>5. CASE main = "waitChild"
    BY <2>1, <2>2, <2>3, <2>4, <2>5 DEF StuckOnlyIf
  <2>6. CASE main \in {"waitReader", "unwinding"}
    BY <2>1, <2>2, <2>3, <2>4, <2>6 DEF Hung, StuckOnlyIf
  <2>7. CASE main = "threw"
    BY <2>4, <2>7 DEF ReaderAwaited, StuckOnlyIf
  <2>8. CASE main = "returned"
    BY <2>3, <2>4, <2>8 DEF Redirected, ReaderAwaited, StuckOnlyIf
  <2>9. CASE main = "refused"
    BY <2>3, <2>9 DEF Redirected, StuckOnlyIf
  <2> QED BY <2>1, <2>5, <2>6, <2>7, <2>8, <2>9
<1> QED BY <1>1, <1>2, <1>3, TypeCorrect, Invariant, PTL DEF Spec
=============================================================================
