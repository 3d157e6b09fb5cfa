---------------------------- MODULE ParserProofs ----------------------------
(***************************************************************************)
(* Proofs about module Parser, for every set of files: the variables keep  *)
(* their types, no ParseStateGuard throws, and in the files the parser is  *)
(* exact about a class, a message, a closure and the file itself end at    *)
(* the brace that ends them.                                               *)
(*                                                                         *)
(* Nearly every action is one of five steps: it goes on with other entries *)
(* of todo, enters a function with a guard, leaves one, throws, or ends.   *)
(* What matters of the entries an action puts into todo is only that none  *)
(* is a guard.                                                             *)
(***************************************************************************)
EXTENDS Parser, SequenceTheorems, FiniteSetTheorems, TLAPS

(* The entries of todo: plain steps, and guards. *)
Names ==
  {"again", "begin", "class", "classMember", "closeParen", "closureContext",
   "comment", "definitionOrExpression", "expression", "expressionOfGroup",
   "firstStatement", "flag", "flagList", "flags", "fragment",
   "fragmentBody", "fragmentFlags", "group", "inherits", "instance", "lhs",
   "message", "messageBlock", "messageColon", "messageDecl", "messageName",
   "messageParam", "messageParams", "messageReturns", "messageStatements",
   "module", "moreNamespaces", "moreReturnTypes", "moreStatements",
   "msgInstance", "nameComponent", "namespace", "namespaceBody",
   "nextNamespace", "nextStatement", "nextToken", "param", "paramComma",
   "record", "recordMember", "returnExpression", "returnTypes", "returns",
   "scopeMember", "send", "sendToGroup", "start", "statement",
   "statementKind", "statements", "type", "typeDot", "variableDef",
   "variableName", "verifyLast", "version"}

Steps ==
  [do : Names]
    \cup [do : {"verify"}, kinds : SUBSET Kinds]
    \cup [do : {"argument", "addParam"}, first : BOOLEAN, named : BOOLEAN,
          group : BOOLEAN]
Guards ==
  [do : {"leave"}, state : States, depth : Nat, from : Nat,
   result : Kinds \cup {None, "null", "same"}]
Entries == Steps \cup Guards
StackStates == States \cup {"NONE", "ERROR"}

Typed ==
  /\ file \in Seq(Kinds)
  /\ cur \in 1 .. Len(file) + 1 /\ saved \in 1 .. Len(file) + 1
  /\ stack \in Seq(StackStates)
  /\ todo \in Seq(Entries)
  /\ node \in Kinds \cup {None, "null"}
  /\ phase \in {"parsing", "unwinding", "failed", "accepted", "fault", "crashed"}

NoGuard(t, i, j) == \A k \in i + 1 .. j - 1 : t[k] \notin Guards

(* The guards of a parser that has met no error: the first has the state   *)
(* on top of the stack, every other the one below that of the guard before *)
(* it.                                                                     *)
Matches(t, st) ==
  /\ \A i \in 1 .. Len(t) : t[i] \in Guards =>
       /\ t[i].depth \in 1 .. Len(st) /\ st[t[i].depth] = t[i].state
       /\ NoGuard(t, 0, i) => t[i].depth = Len(st)
  /\ \A i, j \in 1 .. Len(t) : i < j /\ t[i] \in Guards /\ t[j] \in Guards =>
       /\ t[j].depth < t[i].depth
       /\ NoGuard(t, i, j) => t[j].depth = t[i].depth - 1

(* While an error is on its way up, the state on top belongs to no guard.  *)
ErrorOnTop == stack # <<>> /\ Last(stack) = "ERROR"

IInv ==
  /\ Typed
  /\ phase = "parsing" => Matches(todo, stack)
  /\ phase = "unwinding" => ErrorOnTop
-----------------------------------------------------------------------------
(***************************************************************************)
(* Entries and sequences of them.                                          *)
(***************************************************************************)
LEMMA CallIsStep ==
  ASSUME NEW f \in Names
  PROVE  Call(f) \in Steps
BY DEF Call, Steps

(* A verification is a step. *)
LEMMA VerifyIsStep ==
  ASSUME NEW kinds \in SUBSET Kinds
  PROVE  Verify(kinds) \in Steps
BY DEF Verify, Steps

(* The loop over arguments is a step. *)
LEMMA ArgumentsIsStep ==
  ASSUME NEW f \in {"argument", "addParam"}, NEW first \in BOOLEAN,
         NEW named \in BOOLEAN, NEW group \in BOOLEAN
  PROVE  Arguments(f, first, named, group) \in Steps
BY DEF Arguments, Steps

(* Moving on is a step. *)
LEMMA NextIsStep == Next_ \in Steps
BY CallIsStep DEF Next_, Names

(* What an entry is, by its name. *)
LEMMA EntryKinds ==
  /\ \A e \in Steps : e.do # "leave" /\ e \notin Guards /\ e \in Entries
  /\ \A e \in Guards : e.do = "leave" /\ e \in Entries
BY DEF Steps, Guards, Entries, Names



(* The kinds of tokens that are verified. *)
LEMMA VerifyFacts ==
  /\ Verify(Keywords \cup {"{"}) \in Steps
  /\ Verify(Operators \cup {"x", "(", "@"}) \in Steps
  /\ Verify({"("}) \in Steps
  /\ Verify({")"}) \in Steps
  /\ Verify({"1.2.3"}) \in Steps
  /\ Verify({":"}) \in Steps
  /\ Verify({";"}) \in Steps
  /\ Verify({"@"}) \in Steps
  /\ Verify({"["}) \in Steps
  /\ Verify({"]"}) \in Steps
  /\ Verify({"class"}) \in Steps
  /\ Verify({"module"}) \in Steps
  /\ Verify({"msg"}) \in Steps
  /\ Verify({"namespace"}) \in Steps
  /\ Verify({"record"}) \in Steps
  /\ Verify({"x", "("}) \in Steps
  /\ Verify({"x"}) \in Steps
  /\ Verify({"{", "@"}) \in Steps
  /\ Verify({"{"}) \in Steps
  /\ Verify({"}"}) \in Steps
<1>1. \A k \in Kinds : {k} \in SUBSET Kinds
  OBVIOUS
<1>2. {"(", ")", "1.2.3", ":", ";", "@", "[", "]", "class", "module", "msg",
       "namespace", "record", "x", "{", "}"} \subseteq Kinds
  BY DEF Kinds, Keywords
<1>3. Keywords \cup {"{"} \subseteq Kinds /\ Operators \cup {"x", "(", "@"} \subseteq Kinds
  BY DEF Kinds
<1> QED BY <1>1, <1>2, <1>3, VerifyIsStep

(* The functions that are called. *)
LEMMA CallFacts ==
  /\ Call("again") \in Steps
  /\ Call("begin") \in Steps
  /\ Call("class") \in Steps
  /\ Call("classMember") \in Steps
  /\ Call("closeParen") \in Steps
  /\ Call("closureContext") \in Steps
  /\ Call("comment") \in Steps
  /\ Call("definitionOrExpression") \in Steps
  /\ Call("expression") \in Steps
  /\ Call("expressionOfGroup") \in Steps
  /\ Call("firstStatement") \in Steps
  /\ Call("flag") \in Steps
  /\ Call("flagList") \in Steps
  /\ Call("flags") \in Steps
  /\ Call("fragment") \in Steps
  /\ Call("fragmentBody") \in Steps
  /\ Call("fragmentFlags") \in Steps
  /\ Call("group") \in Steps
  /\ Call("inherits") \in Steps
  /\ Call("instance") \in Steps
  /\ Call("lhs") \in Steps
  /\ Call("message") \in Steps
  /\ Call("messageBlock") \in Steps
  /\ Call("messageColon") \in Steps
  /\ Call("messageDecl") \in Steps
  /\ Call("messageName") \in Steps
  /\ Call("messageParam") \in Steps
  /\ Call("messageParams") \in Steps
  /\ Call("messageReturns") \in Steps
  /\ Call("messageStatements") \in Steps
  /\ Call("module") \in Steps
  /\ Call("moreNamespaces") \in Steps
  /\ Call("moreReturnTypes") \in Steps
  /\ Call("moreStatements") \in Steps
  /\ Call("msgInstance") \in Steps
  /\ Call("nameComponent") \in Steps
  /\ Call("namespace") \in Steps
  /\ Call("namespaceBody") \in Steps
  /\ Call("nextNamespace") \in Steps
  /\ Call("nextStatement") \in Steps
  /\ Call("nextToken") \in Steps
  /\ Call("param") \in Steps
  /\ Call("paramComma") \in Steps
  /\ Call("record") \in Steps
  /\ Call("recordMember") \in Steps
  /\ Call("returnExpression") \in Steps
  /\ Call("returnTypes") \in Steps
  /\ Call("returns") \in Steps
  /\ Call("scopeMember") \in Steps
  /\ Call("send") \in Steps
  /\ Call("sendToGroup") \in Steps
  /\ Call("start") \in Steps
  /\ Call("statement") \in Steps
  /\ Call("statementKind") \in Steps
  /\ Call("statements") \in Steps
  /\ Call("type") \in Steps
  /\ Call("typeDot") \in Steps
  /\ Call("variableDef") \in Steps
  /\ Call("variableName") \in Steps
  /\ Call("verifyLast") \in Steps
  /\ Call("version") \in Steps
BY CallIsStep DEF Names

(* What guarded functions return. *)
LEMMA ResultFacts == {"class", "record", "x", "7", "nil", "msg", "(", "namespace"} \subseteq Kinds
BY DEF Kinds, Keywords

(* Short sequences of steps are sequences of steps. *)
LEMMA SequencesOfSteps ==
  /\ <<>> \in Seq(Steps)
  /\ \A a \in Steps : <<a>> \in Seq(Steps)
  /\ \A a, b \in Steps : <<a, b>> \in Seq(Steps)
  /\ \A a, b, c \in Steps : <<a, b, c>> \in Seq(Steps)
  /\ \A a, b, c, d \in Steps : <<a, b, c, d>> \in Seq(Steps)
  /\ \A a, b, c, d, e \in Steps : <<a, b, c, d, e>> \in Seq(Steps)
  /\ \A a, b, c, d, e, f \in Steps : <<a, b, c, d, e, f>> \in Seq(Steps)
  /\ \A a, b, c, d, e, f, g \in Steps : <<a, b, c, d, e, f, g>> \in Seq(Steps)
  /\ \A a, b, c, d, e, f, g, h \in Steps : <<a, b, c, d, e, f, g, h>> \in Seq(Steps)
  /\ \A s, t \in Seq(Steps) : s \o t \in Seq(Steps)
OBVIOUS

-----------------------------------------------------------------------------
(***************************************************************************)
(* What becomes of the guards when todo and the stack change.              *)
(***************************************************************************)
LEMMA StepsBefore ==
  ASSUME NEW t \in Seq(Entries), NEW st, NEW entries \in Seq(Steps), Matches(t, st)
  PROVE  entries \o t \in Seq(Entries) /\ Matches(entries \o t, st)
<1> DEFINE n == Len(entries)
           u == entries \o t
<1>1. entries \in Seq(Entries)
  BY SeqMonotonic DEF Entries
<1>2. n \in Nat /\ Len(t) \in Nat
  BY LenProperties
<1>3. /\ u \in Seq(Entries) /\ Len(u) = n + Len(t)
      /\ \A i \in 1 .. Len(u) : u[i] = IF i <= n THEN entries[i] ELSE t[i - n]
  BY <1>1, ConcatProperties
<1>4. \A i \in 1 .. n : entries[i] \notin Guards
  BY ElementOfSeq, EntryKinds
<1> HIDE DEF u, n
<1>5. \A i \in 1 .. Len(u) : u[i] \in Guards =>
        i > n /\ i - n \in 1 .. Len(t) /\ u[i] = t[i - n]
  BY <1>2, <1>3, <1>4
<1>6. \A i \in 0 .. Len(t), j \in 1 .. Len(t) :
        NoGuard(u, i + n, j + n) => NoGuard(t, i, j)
  <2> SUFFICES ASSUME NEW i \in 0 .. Len(t), NEW j \in 1 .. Len(t), NoGuard(u, i + n, j + n),
                      NEW k \in i + 1 .. j - 1
               PROVE  t[k] \notin Guards
    BY DEF NoGuard
  <2>1. k + n \in (i + n) + 1 .. (j + n) - 1 /\ k + n \in 1 .. Len(u) /\ ~(k + n <= n)
    BY <1>2, <1>3
  <2>2. u[k + n] = t[(k + n) - n] /\ (k + n) - n = k
    BY <1>2, <1>3, <2>1
  <2> QED BY <2>1, <2>2 DEF NoGuard
<1>7. \A j \in 1 .. Len(t) : NoGuard(u, 0, j + n) => NoGuard(t, 0, j)
  <2> SUFFICES ASSUME NEW j \in 1 .. Len(t), NoGuard(u, 0, j + n) PROVE NoGuard(t, 0, j)
    OBVIOUS
  <2>1. NoGuard(u, 0 + n, j + n)
    BY <1>2 DEF NoGuard
  <2> QED BY <1>2, <1>6, <2>1
<1>8. Matches(u, st)
  <2>1. ASSUME NEW i \in 1 .. Len(u), u[i] \in Guards
        PROVE  /\ u[i].depth \in 1 .. Len(st) /\ st[u[i].depth] = u[i].state
               /\ NoGuard(u, 0, i) => u[i].depth = Len(st)
    <3>1. i - n \in 1 .. Len(t) /\ u[i] = t[i - n] /\ (i - n) + n = i
      BY <2>1, <1>2, <1>5
    <3> QED BY <3>1, <2>1, <1>7 DEF Matches
  <2>2. ASSUME NEW i \in 1 .. Len(u), NEW j \in 1 .. Len(u), i < j, u[i] \in Guards, u[j] \in Guards
        PROVE  /\ u[j].depth < u[i].depth
               /\ NoGuard(u, i, j) => u[j].depth = u[i].depth - 1
    <3>1. /\ i - n \in 1 .. Len(t) /\ u[i] = t[i - n] /\ (i - n) + n = i
          /\ j - n \in 1 .. Len(t) /\ u[j] = t[j - n] /\ (j - n) + n = j
          /\ i - n < j - n
      BY <2>2, <1>2, <1>3, <1>5, SMTT(40)
    <3>2. NoGuard(u, i, j) => NoGuard(t, i - n, j - n)
      BY <3>1, <1>6
    <3> QED BY <3>1, <3>2, <2>2 DEF Matches
  <2> QED BY <2>1, <2>2 DEF Matches
<1> QED BY <1>3, <1>8 DEF u

(* What is left to do without its first step. *)
LEMMA WithoutHead ==
  ASSUME NEW t \in Seq(Entries), NEW st, t # <<>>, Head(t) \in Steps, Matches(t, st)
  PROVE  Tail(t) \in Seq(Entries) /\ Matches(Tail(t), st)
<1> DEFINE u == Tail(t)
<1>1. /\ Len(t) \in Nat \ {0} /\ u \in Seq(Entries) /\ Len(u) = Len(t) - 1
      /\ \A i \in 1 .. Len(u) : u[i] = t[i + 1]
      /\ Head(t) = t[1]
  BY LenProperties, EmptySeq, HeadTailProperties
<1>2. t[1] \notin Guards
  BY <1>1, EntryKinds
<1> HIDE DEF u
<1>3. \A i, j \in 1 .. Len(u) : NoGuard(u, i, j) => NoGuard(t, i + 1, j + 1)
  <2> SUFFICES ASSUME NEW i \in 1 .. Len(u), NEW j \in 1 .. Len(u), NoGuard(u, i, j),
                      NEW k \in (i + 1) + 1 .. (j + 1) - 1
               PROVE  t[k] \notin Guards
    BY DEF NoGuard
  <2>1. k - 1 \in i + 1 .. j - 1 /\ k - 1 \in 1 .. Len(u) /\ (k - 1) + 1 = k
    BY <1>1
  <2> QED BY <1>1, <2>1 DEF NoGuard
<1>4. \A j \in 1 .. Len(u) : NoGuard(u, 0, j) => NoGuard(t, 0, j + 1)
  <2> SUFFICES ASSUME NEW j \in 1 .. Len(u), NoGuard(u, 0, j), NEW k \in 0 + 1 .. (j + 1) - 1
               PROVE  t[k] \notin Guards
    BY DEF NoGuard
  <2>1. CASE k = 1
    BY <2>1, <1>2
  <2>2. CASE k # 1
    <3>1. k - 1 \in 0 + 1 .. j - 1 /\ k - 1 \in 1 .. Len(u) /\ (k - 1) + 1 = k
      BY <1>1, <2>2
    <3> QED BY <1>1, <3>1 DEF NoGuard
  <2> QED BY <2>1, <2>2
<1>5. Matches(u, st)
  <2>1. ASSUME NEW i \in 1 .. Len(u), u[i] \in Guards
        PROVE  /\ u[i].depth \in 1 .. Len(st) /\ st[u[i].depth] = u[i].state
               /\ NoGuard(u, 0, i) => u[i].depth = Len(st)
    <3>1. i + 1 \in 1 .. Len(t) /\ u[i] = t[i + 1]
      BY <1>1
    <3> QED BY <3>1, <2>1, <1>4 DEF Matches
  <2>2. ASSUME NEW i \in 1 .. Len(u), NEW j \in 1 .. Len(u), i < j, u[i] \in Guards, u[j] \in Guards
        PROVE  /\ u[j].depth < u[i].depth
               /\ NoGuard(u, i, j) => u[j].depth = u[i].depth - 1
    <3>1. /\ i + 1 \in 1 .. Len(t) /\ u[i] = t[i + 1]
          /\ j + 1 \in 1 .. Len(t) /\ u[j] = t[j + 1] /\ i + 1 < j + 1
      BY <1>1, <2>2
    <3> QED BY <3>1, <2>2, <1>3, SMTT(40) DEF Matches
  <2> QED BY <2>1, <2>2 DEF Matches
<1> QED BY <1>1, <1>5 DEF u

(* The guards of what is left to do when a guard is put in front. *)
LEMMA GuardBefore ==
  ASSUME NEW t \in Seq(Entries), NEW st \in Seq(StackStates), NEW g \in Guards,
         g.depth = Len(st) + 1, Matches(t, st)
  PROVE  <<g>> \o t \in Seq(Entries) /\ Matches(<<g>> \o t, Append(st, g.state))
<1> DEFINE u == <<g>> \o t
           w == Append(st, g.state)
<1>1. /\ Len(t) \in Nat /\ u \in Seq(Entries) /\ Len(u) = Len(t) + 1
      /\ u[1] = g /\ \A i \in 1 .. Len(t) : u[i + 1] = t[i]
  <2>1. g \in Entries
    BY EntryKinds
  <2> QED BY <2>1, SMT
<1>2. /\ Len(st) \in Nat /\ Len(w) = Len(st) + 1 /\ w[Len(st) + 1] = g.state
      /\ \A i \in 1 .. Len(st) : w[i] = st[i]
  OBVIOUS
<1> HIDE DEF u, w
<1>3. \A i \in 1 .. Len(u) : i # 1 => i - 1 \in 1 .. Len(t) /\ u[i] = t[i - 1]
  BY <1>1
<1>4. \A j \in 1 .. Len(u) : j # 1 => ~NoGuard(u, 0, j)
  <2> SUFFICES ASSUME NEW j \in 1 .. Len(u), j # 1 PROVE ~NoGuard(u, 0, j)
    OBVIOUS
  <2>1. 1 \in 0 + 1 .. j - 1
    BY <1>1
  <2> QED BY <2>1, <1>1 DEF NoGuard
<1>5. \A i, j \in 2 .. Len(u) : NoGuard(u, i, j) => NoGuard(t, i - 1, j - 1)
  <2> SUFFICES ASSUME NEW i \in 2 .. Len(u), NEW j \in 2 .. Len(u), NoGuard(u, i, j),
                      NEW k \in (i - 1) + 1 .. (j - 1) - 1
               PROVE  t[k] \notin Guards
    BY DEF NoGuard
  <2>1. k + 1 \in i + 1 .. j - 1 /\ k \in 1 .. Len(t)
    BY <1>1
  <2> QED BY <1>1, <2>1 DEF NoGuard
<1>6. \A j \in 2 .. Len(u) : NoGuard(u, 1, j) => NoGuard(t, 0, j - 1)
  <2> SUFFICES ASSUME NEW j \in 2 .. Len(u), NoGuard(u, 1, j),
                      NEW k \in 0 + 1 .. (j - 1) - 1
               PROVE  t[k] \notin Guards
    BY DEF NoGuard
  <2>1. k + 1 \in 1 + 1 .. j - 1 /\ k \in 1 .. Len(t)
    BY <1>1
  <2> QED BY <1>1, <2>1 DEF NoGuard
<1>7. ASSUME NEW i \in 1 .. Len(u), u[i] \in Guards
      PROVE  /\ u[i].depth \in 1 .. Len(w) /\ w[u[i].depth] = u[i].state
             /\ NoGuard(u, 0, i) => u[i].depth = Len(w)
  <2>1. CASE i = 1
    BY <2>1, <1>1, <1>2
  <2>2. CASE i # 1
    <3>1. i - 1 \in 1 .. Len(t) /\ u[i] = t[i - 1] /\ ~NoGuard(u, 0, i)
      BY <2>2, <1>3, <1>4
    <3> QED BY <3>1, <1>7, <1>2, SMTT(40) DEF Matches
  <2> QED BY <2>1, <2>2
<1>8. ASSUME NEW i \in 1 .. Len(u), NEW j \in 1 .. Len(u), i < j, u[i] \in Guards, u[j] \in Guards
      PROVE  /\ u[j].depth < u[i].depth
             /\ NoGuard(u, i, j) => u[j].depth = u[i].depth - 1
  <2>1. j \in 2 .. Len(u) /\ j - 1 \in 1 .. Len(t) /\ u[j] = t[j - 1]
    BY <1>8, <1>1, <1>3
  <2>2. CASE i = 1
    <3>1. u[i].depth = Len(st) + 1 /\ (NoGuard(u, i, j) => NoGuard(t, 0, j - 1))
      BY <2>1, <2>2, <1>1, <1>6
    <3>2. u[j].depth \in 1 .. Len(st) /\ (NoGuard(t, 0, j - 1) => u[j].depth = Len(st))
      BY <2>1, <1>8 DEF Matches
    <3> QED BY <3>1, <3>2, <1>2, SMTT(40)
  <2>3. CASE i # 1
    <3>1. i \in 2 .. Len(u) /\ i - 1 \in 1 .. Len(t) /\ u[i] = t[i - 1] /\ i - 1 < j - 1
      BY <2>1, <2>3, <1>8, <1>1, <1>3, SMTT(40)
    <3> QED BY <2>1, <3>1, <1>5, <1>8, SMTT(40) DEF Matches
  <2> QED BY <2>2, <2>3
<1>9. Matches(u, w)
  BY <1>7, <1>8 DEF Matches
<1> QED BY <1>1, <1>9 DEF u, w

(* PopState of the stack st. *)
Popped(st) == IF Len(st) = 1 THEN <<"NONE">> ELSE Front(st)

(* popState leaves a stack. *)
LEMMA PoppedType ==
  ASSUME NEW st \in Seq(StackStates), st # <<>>
  PROVE  Popped(st) \in Seq(StackStates)
<1>1. Len(st) \in Nat /\ \A i \in 1 .. Len(st) - 1 : st[i] \in StackStates
  BY LenProperties
<1>2. Front(st) \in Seq(StackStates)
  BY <1>1, SubSeqProperties DEF Front
<1>3. <<"NONE">> \in Seq(StackStates)
  BY DEF StackStates
<1> QED BY <1>2, <1>3 DEF Popped

(* The guard on top has the state on top, and is left. *)
LEMMA GuardLeft ==
  ASSUME NEW t \in Seq(Entries), NEW st \in Seq(StackStates), t # <<>>, Head(t) \in Guards,
         Matches(t, st)
  PROVE  /\ Head(t).depth = Len(st) /\ Last(st) = Head(t).state /\ st # <<>>
         /\ Tail(t) \in Seq(Entries) /\ Matches(Tail(t), Popped(st))
<1> DEFINE u == Tail(t)
           w == Popped(st)
<1>1. /\ Len(t) \in Nat \ {0} /\ u \in Seq(Entries) /\ Len(u) = Len(t) - 1
      /\ \A i \in 1 .. Len(u) : u[i] = t[i + 1]
      /\ Head(t) = t[1] /\ 1 \in 1 .. Len(t)
  BY LenProperties, EmptySeq, HeadTailProperties
<1>2. NoGuard(t, 0, 1)
  BY DEF NoGuard
<1>3. t[1] \in Guards /\ t[1].depth = Len(st) /\ t[1].depth \in 1 .. Len(st)
      /\ st[Len(st)] = t[1].state /\ Len(st) \in Nat
  BY <1>1, <1>2 DEF Matches
<1>4. Last(st) = Head(t).state /\ st # <<>>
  BY <1>1, <1>3 DEF Last
<1> HIDE DEF u, w
<1>5. \A i \in 1 .. Len(u) : u[i] \in Guards =>
        u[i].depth \in 1 .. Len(st) - 1 /\ st[u[i].depth] = u[i].state
  <2> SUFFICES ASSUME NEW i \in 1 .. Len(u), u[i] \in Guards
               PROVE  u[i].depth \in 1 .. Len(st) - 1 /\ st[u[i].depth] = u[i].state
    OBVIOUS
  <2>1. i + 1 \in 1 .. Len(t) /\ u[i] = t[i + 1] /\ 1 < i + 1
    BY <1>1
  <2>2. t[i + 1].depth < t[1].depth /\ t[i + 1].depth \in 1 .. Len(st)
        /\ st[t[i + 1].depth] = t[i + 1].state
    BY <2>1, <1>1, <1>3 DEF Matches
  <2> QED BY <2>1, <2>2, <1>3
<1>6. \A i, j \in 1 .. Len(u) : NoGuard(u, i, j) => NoGuard(t, i + 1, j + 1)
  <2> SUFFICES ASSUME NEW i \in 1 .. Len(u), NEW j \in 1 .. Len(u), NoGuard(u, i, j),
                      NEW k \in (i + 1) + 1 .. (j + 1) - 1
               PROVE  t[k] \notin Guards
    BY DEF NoGuard
  <2>1. k - 1 \in i + 1 .. j - 1 /\ k - 1 \in 1 .. Len(u) /\ (k - 1) + 1 = k
    BY <1>1
  <2> QED BY <1>1, <2>1 DEF NoGuard
<1>7. \A j \in 1 .. Len(u) : NoGuard(u, 0, j) => NoGuard(t, 1, j + 1)
  <2> SUFFICES ASSUME NEW j \in 1 .. Len(u), NoGuard(u, 0, j), NEW k \in 1 + 1 .. (j + 1) - 1
               PROVE  t[k] \notin Guards
    BY DEF NoGuard
  <2>1. k - 1 \in 0 + 1 .. j - 1 /\ k - 1 \in 1 .. Len(u) /\ (k - 1) + 1 = k
    BY <1>1
  <2> QED BY <1>1, <2>1 DEF NoGuard
<1>8. Len(st) # 1 => Len(w) = Len(st) - 1 /\ \A i \in 1 .. Len(st) - 1 : w[i] = st[i]
  <2>1. \A i \in 1 .. Len(st) - 1 : st[i] \in StackStates
    BY <1>3, LenProperties
  <2>2. /\ Len(SubSeq(st, 1, Len(st) - 1)) = IF 1 <= Len(st) - 1 THEN Len(st) - 1 - 1 + 1 ELSE 0
        /\ \A i \in 1 .. (Len(st) - 1) - 1 + 1 : SubSeq(st, 1, Len(st) - 1)[i] = st[1 + i - 1]
    BY <2>1, <1>3, SubSeqProperties
  <2>3. /\ Len(Front(st)) = IF 1 <= Len(st) - 1 THEN Len(st) - 1 ELSE 0
        /\ \A i \in 1 .. Len(st) - 1 : Front(st)[i] = st[i]
    BY <2>2, <1>3 DEF Front
  <2>4. Len(st) # 1 => w = Front(st)
    BY DEF w, Popped
  <2>5. Len(st) \in Nat \ {0}
    BY <1>4, EmptySeq
  <2> QED BY <2>3, <2>4, <2>5, <1>3
<1>9. ASSUME NEW i \in 1 .. Len(u), u[i] \in Guards
      PROVE  /\ u[i].depth \in 1 .. Len(w) /\ w[u[i].depth] = u[i].state
             /\ NoGuard(u, 0, i) => u[i].depth = Len(w)
  <2>1. u[i].depth \in 1 .. Len(st) - 1 /\ st[u[i].depth] = u[i].state /\ Len(st) # 1
    BY <1>5, <1>9, <1>3
  <2>2. i + 1 \in 1 .. Len(t) /\ u[i] = t[i + 1] /\ 1 < i + 1
    BY <1>1
  <2>3. NoGuard(u, 0, i) => u[i].depth = Len(st) - 1
    BY <2>2, <1>1, <1>3, <1>7, <1>9 DEF Matches
  <2> QED BY <2>1, <2>3, <1>8
<1>10. ASSUME NEW i \in 1 .. Len(u), NEW j \in 1 .. Len(u), i < j, u[i] \in Guards, u[j] \in Guards
       PROVE  /\ u[j].depth < u[i].depth
              /\ NoGuard(u, i, j) => u[j].depth = u[i].depth - 1
  <2>1. /\ i + 1 \in 1 .. Len(t) /\ u[i] = t[i + 1]
        /\ j + 1 \in 1 .. Len(t) /\ u[j] = t[j + 1] /\ i + 1 < j + 1
    BY <1>1, <1>10
  <2> QED BY <2>1, <1>10, <1>6, SMTT(40) DEF Matches
<1>11. Matches(u, w)
  BY <1>9, <1>10 DEF Matches
<1> QED BY <1>1, <1>3, <1>4, <1>11 DEF u, w
-----------------------------------------------------------------------------
(***************************************************************************)
(* The steps of the parser.                                                *)
(***************************************************************************)
Running == phase = "parsing" /\ todo # <<>> /\ Head(todo) \in Steps

(* A function that is due runs while the parser parses. *)
LEMMA PendingRuns ==
  ASSUME IInv, NEW f, f # "leave", Pending(f)
  PROVE  Running /\ Head(todo).do = f
BY HeadTailProperties, EntryKinds DEF IInv, Typed, Pending, Running, Entries

(* A function that reads has a token to read. *)
LEMMA AtRuns ==
  ASSUME IInv, NEW f, f # "leave", At(f)
  PROVE  /\ Running /\ Head(todo).do = f
         /\ cur \in 1 .. Len(file) /\ Kind \in Kinds
         /\ Peek \in Kinds \cup {None}
<1>1. Running /\ Head(todo).do = f
  BY PendingRuns DEF At
<1>2. cur \in 1 .. Len(file) /\ Len(file) \in Nat
  BY LenProperties DEF At, HasTokensLeft, End, IInv, Typed
<1>3. Kind \in Kinds
  BY <1>2, ElementOfSeq DEF Kind, IInv, Typed
<1>4. Peek \in Kinds \cup {None}
  BY <1>2, ElementOfSeq DEF Peek, PeekNext, IInv, Typed
<1> QED BY <1>1, <1>2, <1>3, <1>4

(* What becomes of todo when its head is replaced. *)
LEMMA HeadReplaced ==
  ASSUME IInv, Running, NEW entries \in Seq(Steps)
  PROVE  /\ entries \o Tail(todo) \in Seq(Entries)
         /\ Matches(entries \o Tail(todo), stack)
<1>1. todo \in Seq(Entries) /\ Matches(todo, stack)
  BY DEF IInv, Typed, Running
<1>2. Tail(todo) \in Seq(Entries) /\ Matches(Tail(todo), stack)
  BY <1>1, WithoutHead DEF Running
<1> QED BY <1>2, StepsBefore

(* A call that is replaced by the steps of its function. *)
LEMMA Replaces ==
  ASSUME IInv, Running, NEW entries \in Seq(Steps), todo' = entries \o Tail(todo),
         cur' \in 1 .. Len(file) + 1, saved' \in 1 .. Len(file) + 1,
         node' \in Kinds \cup {None, "null"}, UNCHANGED <<file, stack, phase>>
  PROVE  IInv'
<1>1. /\ entries \o Tail(todo) \in Seq(Entries)
      /\ Matches(entries \o Tail(todo), stack) /\ phase = "parsing"
  BY HeadReplaced DEF Running
<1>2. Typed'
  BY <1>1 DEF IInv, Typed
<1>3. Matches(todo, stack)'
  BY <1>1 DEF Matches, NoGuard
<1> QED BY <1>1, <1>2, <1>3 DEF IInv

(* A function that does more, with the cursor where it left it. *)
LEMMA GoesOn ==
  ASSUME IInv, Running, NEW entries \in Seq(Steps), NEW c \in 1 .. Len(file) + 1,
         Goes(entries, c)
  PROVE  IInv'
BY Replaces DEF Goes, IInv, Typed

(* The end of a parse. *)
LEMMA Ends ==
  ASSUME IInv, UNCHANGED <<file, cur, saved, stack, todo, node>>,
         phase' \in {"failed", "accepted", "fault", "crashed"}
  PROVE  IInv'
BY DEF IInv, Typed

(* A function that does more, with the cursor where it is. *)
LEMMA Thens ==
  ASSUME IInv, Running, NEW entries \in Seq(Steps), Then(entries)
  PROVE  IInv'
BY GoesOn DEF Then, IInv, Typed

(* A function that enters a state, which its guard leaves. *)
LEMMA Enters ==
  ASSUME IInv, Running, NEW s \in States, NEW entries \in Seq(Steps),
         NEW result \in Kinds \cup {None, "null", "same"}, Enter(s, entries, result)
  PROVE  IInv'
<1> DEFINE g == Leave(s, result)
           t == entries \o <<g>> \o Tail(todo)
           st == Append(stack, s)
<1>1. /\ todo' = t /\ stack' = st /\ UNCHANGED <<file, cur, saved, node, phase>>
      /\ phase = "parsing"
  BY DEF Enter, Running
<1>2. stack \in Seq(StackStates) /\ todo \in Seq(Entries) /\ Matches(todo, stack)
  BY <1>1 DEF IInv, Typed
<1>3. g \in Guards /\ g.depth = Len(stack) + 1 /\ g.state = s
  BY <1>2, LenProperties DEF Leave, Guards, IInv, Typed
<1>4. Tail(todo) \in Seq(Entries) /\ Matches(Tail(todo), stack)
  BY <1>2, WithoutHead DEF Running
<1> HIDE DEF g
<1>5. <<g>> \o Tail(todo) \in Seq(Entries) /\ Matches(<<g>> \o Tail(todo), st)
  BY <1>2, <1>3, <1>4, GuardBefore
<1>6. t = entries \o (<<g>> \o Tail(todo))
  <2>1. entries \in Seq(Entries) /\ <<g>> \in Seq(Entries)
    BY <1>3, SeqMonotonic, EntryKinds DEF Entries
  <2> QED BY <2>1, <1>4, ConcatAssociative, SMTT(40)
<1>7. t \in Seq(Entries) /\ Matches(t, st)
  BY <1>5, <1>6, StepsBefore
<1>8. st \in Seq(StackStates)
  BY <1>2 DEF StackStates
<1> HIDE DEF t, st
<1>9. Typed'
  BY <1>1, <1>7, <1>8 DEF IInv, Typed
<1>10. Matches(todo, stack)'
  BY <1>1, <1>7 DEF Matches, NoGuard
<1> QED BY <1>1, <1>9, <1>10 DEF IInv

(* Stepping back stays in the file. *)
LEMMA StepBackType ==
  ASSUME IInv
  PROVE  StepBack(cur) \in 1 .. Len(file) + 1
BY LenProperties DEF StepBack, IInv, Typed

(* A step that changes nothing. *)
LEMMA NothingChanged ==
  ASSUME IInv, UNCHANGED vars
  PROVE  IInv'
<1>1. Typed'
  BY DEF vars, IInv, Typed
<1>2. (phase = "parsing" => Matches(todo, stack))'
  BY DEF vars, IInv, Matches, NoGuard
<1>3. (phase = "unwinding" => ErrorOnTop)'
  BY DEF vars, IInv, ErrorOnTop
<1> QED BY <1>1, <1>2, <1>3 DEF IInv

(* Giving calls up leaves entries that were there before. *)
LEMMA GivenUpType ==
  ASSUME NEW entries \in Seq(Entries), GivenUp(entries)
  PROVE  todo' \in Seq(Entries)
<1>1. PICK n \in 0 .. Len(entries) : todo' = SubSeq(entries, n + 1, Len(entries))
  BY DEF GivenUp
<1>2. Len(entries) \in Nat /\ \A i \in n + 1 .. Len(entries) : entries[i] \in Entries
  BY LenProperties, ElementOfSeq
<1> QED BY <1>1, <1>2, SubSeqProperties

(* A stack with ERROR on top. *)
LEMMA ErrorPushed ==
  ASSUME NEW st \in Seq(StackStates)
  PROVE  /\ Append(st, "ERROR") \in Seq(StackStates)
         /\ Append(st, "ERROR") # <<>> /\ Last(Append(st, "ERROR")) = "ERROR"
BY DEF StackStates, Last

(* An error goes up. *)
LEMMA Unwinds ==
  ASSUME IInv, Unwind, NEW st \in Seq(StackStates), stack' = Append(st, "ERROR")
  PROVE  IInv'
<1>1. todo' \in Seq(Entries)
  BY GivenUpType DEF Unwind, IInv, Typed
<1>2. UNCHANGED <<file, cur, saved, node>> /\ phase' = "unwinding"
  BY DEF Unwind
<1>3. stack' \in Seq(StackStates) /\ ErrorOnTop'
  BY ErrorPushed DEF ErrorOnTop
<1>4. Typed'
  BY <1>1, <1>2, <1>3 DEF IInv, Typed
<1> QED BY <1>2, <1>3, <1>4 DEF IInv

(* An error without a pop. *)
LEMMA Throws ==
  ASSUME IInv, Throw
  PROVE  IInv'
BY Unwinds DEF Throw, IInv, Typed

(* An error that pops first. *)
LEMMA Fails ==
  ASSUME IInv, Fail
  PROVE  IInv'
<1>1. CASE stack = <<>>
  BY <1>1 DEF Fail, IInv, Typed
<1>2. CASE stack # <<>>
  <2>1. PopState \in Seq(StackStates)
    BY <1>2, PoppedType DEF Popped, PopState, IInv, Typed
  <2> QED BY <1>2, <2>1, Unwinds DEF Fail
<1> QED BY <1>1, <1>2

(* Classes, records and their members. *)
LEMMA TypesStep ==
  ASSUME IInv, Types
  PROVE  IInv'
<1> USE NextIsStep, VerifyFacts, CallFacts, ResultFacts, SequencesOfSteps, PendingRuns, AtRuns
<1>1. CASE ClassBlock
  BY <1>1, Enters DEF ClassBlock, States, BlockHead
<1>2. CASE ClassMember
  BY <1>2, Thens DEF ClassMember
<1>3. CASE ClassLoop
  BY <1>3, NothingChanged DEF ClassLoop
<1>4. CASE ScopeMember
  BY <1>4, Thens DEF ScopeMember, MemberVariable
<1>5. CASE RecordBlock
  BY <1>5, Enters DEF RecordBlock, States, BlockHead
<1>6. CASE RecordMember
  BY <1>6, Thens DEF RecordMember, MemberVariable
<1>7. CASE Inherits
  BY <1>7, Thens DEF Inherits
<1> QED BY <1>1, <1>2, <1>3, <1>4, <1>5, <1>6, <1>7 DEF Types

(* Declarations of variables and messages. *)
LEMMA DeclarationsStep ==
  ASSUME IInv, Declarations
  PROVE  IInv'
<1> USE NextIsStep, VerifyFacts, CallFacts, ResultFacts, SequencesOfSteps, PendingRuns, AtRuns
<1>1. CASE VariableDef
  BY <1>1, Enters DEF VariableDef, States
<1>2. CASE VariableName
  BY <1>2, Thens DEF VariableName
<1>3. CASE NameComponent
  BY <1>3, Thens DEF NameComponent
<1>4. CASE TypeDeclaration
  BY <1>4, Enters DEF TypeDeclaration, States
<1>5. CASE TypeDot
  BY <1>5, Thens DEF TypeDot
<1>6. CASE MessageParamDecl
  BY <1>6, Enters DEF MessageParamDecl, States
<1>7. CASE ReturnDeclaration
  BY <1>7, Enters DEF ReturnDeclaration, States
<1>8. CASE ReturnTypes
  BY <1>8, Thens DEF ReturnTypes
<1>9. CASE MoreReturnTypes
  BY <1>9, Thens DEF MoreReturnTypes
<1>10. CASE MessageDecl
  BY <1>10, Enters DEF MessageDecl, States
<1>11. CASE MessageName
  BY <1>11, Thens DEF MessageName
<1>12. CASE MessageParams
  BY <1>12, Thens DEF MessageParams
<1>13. CASE MessageParam
  BY <1>13, GoesOn, Thens, StepBackType DEF MessageParam
<1>14. CASE ParamComma
  BY <1>14, Thens DEF ParamComma
<1>15. CASE MessageReturns
  BY <1>15, Thens DEF MessageReturns
<1>16. CASE MessageBlock
  BY <1>16, Enters DEF MessageBlock, States
<1>17. CASE MessageStatements
  BY <1>17, Thens DEF MessageStatements
<1> QED BY <1>1, <1>2, <1>3, <1>4, <1>5, <1>6, <1>7, <1>8, <1>9, <1>10, <1>11, <1>12, <1>13,
           <1>14, <1>15, <1>16, <1>17 DEF Declarations

(* Expressions. *)
LEMMA AnyExpressionStep ==
  ASSUME IInv, NEW f, f # "leave", NEW message \in Seq(Steps), Expression(f, message)
  PROVE  IInv'
<1>1. At(f)
  BY DEF Expression
<1>2. Running
  BY <1>1, AtRuns
<1> QED BY <1>2, Enters, CallFacts, SequencesOfSteps DEF Expression, States

(* The loop of buildRhsExpression keeps what it knows of the arguments. *)
LEMMA ArgumentTypes ==
  ASSUME IInv, Running, Head(todo).do \in {"argument", "addParam"}
  PROVE  /\ Head(todo).first \in BOOLEAN /\ Head(todo).named \in BOOLEAN
         /\ Head(todo).group \in BOOLEAN
<1>1. Head(todo) \in Steps
  BY DEF Running
<1>2. Head(todo).do \notin Names \cup {"verify"}
  BY DEF Names
<1> QED BY <1>1, <1>2 DEF Steps

(* One argument. *)
LEMMA ArgumentStep ==
  ASSUME IInv, Running, Head(todo).do = "argument", NEW isGroup \in BOOLEAN,
         Argument(Head(todo), isGroup)
  PROVE  IInv'
<1> USE DEF Argument
<1>1. \E call \in {"instance", "expressionOfGroup", "expression"}, group \in BOOLEAN,
         c \in {StepBack(cur), cur} :
        Goes(<<Call(call), Arguments("addParam", Head(todo).first, Head(todo).named, group)>>, c)
  OBVIOUS
<1>2. PICK call \in {"instance", "expressionOfGroup", "expression"}, group \in BOOLEAN,
           c \in {StepBack(cur), cur} :
        Goes(<<Call(call), Arguments("addParam", Head(todo).first, Head(todo).named, group)>>, c)
  BY <1>1
<1>3. c \in 1 .. Len(file) + 1
  BY StepBackType DEF IInv, Typed
<1>4. Call(call) \in Steps
  BY CallFacts
<1>5. Arguments("addParam", Head(todo).first, Head(todo).named, group) \in Steps
  BY ArgumentTypes, ArgumentsIsStep
<1> QED BY <1>2, <1>3, <1>4, <1>5, GoesOn, SequencesOfSteps

(* The loop over arguments. *)
LEMMA BuildRhsExpressionStep ==
  ASSUME IInv, BuildRhsExpression
  PROVE  IInv'
<1> DEFINE args == Head(todo)
           semicolon == Goes(<<>>, StepBack(cur))
           parameter == Then(<<Next_, Verify({"x"}), Next_, Verify({":"}), Next_,
                               Arguments("argument", args.first, TRUE, args.group)>>)
           skip == Then(<<Next_, args>>)
<1> USE NextIsStep, VerifyFacts, SequencesOfSteps
<1>1. Running /\ args.do = "argument" /\ args \in Steps
  BY AtRuns DEF BuildRhsExpression, Running
<1>2. \/ semicolon \/ Then(<<>>) \/ parameter \/ Throw \/ skip \/ Fail
      \/ \E isGroup \in BOOLEAN : Argument(args, isGroup)
  BY DEF BuildRhsExpression
<1>3. CASE semicolon
  BY <1>1, <1>3, GoesOn, StepBackType
<1>4. CASE Then(<<>>)
  BY <1>1, <1>4, Thens
<1>5. CASE parameter
  BY <1>1, <1>5, Thens, ArgumentTypes, ArgumentsIsStep
<1>6. CASE Throw
  BY <1>6, Throws
<1>7. CASE skip
  BY <1>1, <1>7, Thens
<1>8. CASE Fail
  BY <1>8, Fails
<1>9. CASE \E isGroup \in BOOLEAN : Argument(args, isGroup)
  BY <1>1, <1>9, ArgumentStep
<1> QED BY <1>2, <1>3, <1>4, <1>5, <1>6, <1>7, <1>8, <1>9

(* The parts of expressions. *)
LEMMA ExpressionsStep ==
  ASSUME IInv, Expressions
  PROVE  IInv'
<1> USE NextIsStep, VerifyFacts, CallFacts, ResultFacts, SequencesOfSteps, PendingRuns, AtRuns
<1>1. CASE AnyExpression
  BY <1>1, AnyExpressionStep DEF AnyExpression
<1>2. CASE ReturnExpression
  BY <1>2, Enters DEF ReturnExpression, States
<1>3. CASE GroupedExpression
  BY <1>3, Enters DEF GroupedExpression, States
<1>4. CASE CloseParen
  BY <1>4, Thens DEF CloseParen
<1>5. CASE BuildLhsExpression
  BY <1>5, Thens, Fails DEF BuildLhsExpression
<1>6. CASE SendMessage
  BY <1>6, Enters DEF SendMessage, States
<1>7. CASE Instance
  BY <1>7, Enters DEF Instance, States
<1>8. CASE MsgInstance
  BY <1>8, Enters DEF MsgInstance, States
<1>9. CASE ClosureContext
  BY <1>9, Thens, Fails DEF ClosureContext
<1>10. CASE Message
  BY <1>10, Enters DEF Message, States
<1>11. CASE MessageColon
  BY <1>11, Thens, ArgumentsIsStep DEF MessageColon
<1>12. CASE BuildRhsExpression
  BY <1>12, BuildRhsExpressionStep
<1>13. CASE AddParam
  BY <1>13, GoesOn, Thens, StepBackType, ArgumentTypes, ArgumentsIsStep DEF AddParam
<1> QED BY <1>1, <1>2, <1>3, <1>4, <1>5, <1>6, <1>7, <1>8, <1>9, <1>10, <1>11, <1>12, <1>13 DEF
           Expressions

(* The kinds of statements. *)
LEMMA StatementKindStep ==
  ASSUME IInv, StatementKind
  PROVE  IInv'
<1> USE NextIsStep, VerifyFacts, CallFacts, SequencesOfSteps
<1>1. Running /\ cur \in 1 .. Len(file) + 1
  BY AtRuns DEF StatementKind, IInv, Typed
<1>2. EndOfStatement \in Seq(Steps)
  BY DEF EndOfStatement
<1>3. <<Next_, Call("definitionOrExpression")>> \o EndOfStatement \in Seq(Steps)
  BY <1>2
<1>4. CASE /\ Kind = "x" /\ saved' = cur
           /\ todo' = <<Next_, Call("definitionOrExpression")>> \o EndOfStatement \o Tail(todo)
           /\ UNCHANGED <<file, cur, stack, node, phase>>
  BY <1>1, <1>3, <1>4, Replaces DEF IInv, Typed
<1>5. CASE Kind = "return" /\ Then(<<Call("returnExpression")>> \o EndOfStatement)
  BY <1>1, <1>2, <1>5, Thens
<1>6. CASE Kind = "(" /\ Then(<<Call("expression")>> \o EndOfStatement)
  BY <1>1, <1>2, <1>6, Thens
<1>7. CASE /\ Kind = "}" /\ node' = "null"
           /\ todo' = (IF EmptyBlock THEN <<>> ELSE EndOfStatement) \o Tail(todo)
           /\ UNCHANGED <<file, cur, saved, stack, phase>>
  <2>1. (IF EmptyBlock THEN <<>> ELSE EndOfStatement) \in Seq(Steps)
    BY <1>2
  <2> QED BY <1>1, <1>7, <2>1, Replaces DEF IInv, Typed
<1>8. CASE Kind \notin {"x", "return", "(", "}"} /\ Fail
  BY <1>8, Fails
<1> QED BY <1>4, <1>5, <1>6, <1>7, <1>8 DEF StatementKind

(* A definition or an expression. *)
LEMMA DefinitionOrExpressionStep ==
  ASSUME IInv, DefinitionOrExpression
  PROVE  IInv'
<1>1. Running /\ End(file) \in 1 .. Len(file) + 1
  BY AtRuns, LenProperties DEF DefinitionOrExpression, End, IInv, Typed
<1>2. <<Call(IF Kind = ":" THEN "variableDef" ELSE "expression")>> \in Seq(Steps)
  BY CallFacts, SequencesOfSteps
<1> QED BY <1>1, <1>2, Replaces DEF DefinitionOrExpression, IInv, Typed

(* A comment that may be due. *)
LEMMA IfCommentType ==
  ASSUME NEW c
  PROVE  IfComment(c) \in Seq(Steps) /\ IfComment(c) \o <<Call("start")>> \in Seq(Steps)
BY CallFacts, SequencesOfSteps DEF IfComment

(* The loop over a file begins. *)
LEMMA BeginStep ==
  ASSUME IInv, Begin
  PROVE  IInv'
<1>1. Running
  BY PendingRuns DEF Begin
<1> QED BY <1>1, IfCommentType, GoesOn DEF Begin, IInv, Typed

(* The loop over a file goes on. *)
LEMMA AgainStep ==
  ASSUME IInv, Again
  PROVE  IInv'
<1>1. Running
  BY PendingRuns DEF Again
<1>2. CASE cur + 1 < End(file) /\ Goes(IfComment(cur + 1) \o <<Call("start")>>, cur + 1)
  <2>1. cur + 1 \in 1 .. Len(file) + 1
    BY <1>2, LenProperties DEF End, IInv, Typed
  <2> QED BY <1>1, <1>2, <2>1, IfCommentType, GoesOn
<1>3. CASE phase' = "accepted" /\ UNCHANGED <<file, cur, saved, stack, todo, node>>
  BY <1>3, Ends
<1> QED BY <1>2, <1>3 DEF Again

(* One round of the loop over a file. *)
LEMMA StartStep ==
  ASSUME IInv, Start
  PROVE  IInv'
<1> USE CallFacts, SequencesOfSteps
<1>1. Running
  BY PendingRuns DEF Start
<1>2. \/ phase' = "accepted" /\ UNCHANGED <<file, cur, saved, stack, todo, node>>
      \/ Then(<<Call("fragment"), Call("again")>>) \/ Then(<<Call("module"), Call("again")>>)
      \/ Then(<<Call("again")>>) \/ Throw
  BY DEF Start
<1>3. CASE phase' = "accepted" /\ UNCHANGED <<file, cur, saved, stack, todo, node>>
  BY <1>3, Ends
<1>4. CASE Then(<<Call("fragment"), Call("again")>>)
  BY <1>1, <1>4, Thens
<1>5. CASE Then(<<Call("module"), Call("again")>>)
  BY <1>1, <1>5, Thens
<1>6. CASE Then(<<Call("again")>>)
  BY <1>1, <1>6, Thens
<1>7. CASE Throw
  BY <1>7, Throws
<1> QED BY <1>2, <1>3, <1>4, <1>5, <1>6, <1>7

(* Statements, blocks, namespaces and flags. *)
LEMMA BlocksStep ==
  ASSUME IInv, Blocks
  PROVE  IInv'
<1> USE NextIsStep, VerifyFacts, CallFacts, ResultFacts, SequencesOfSteps, PendingRuns, AtRuns
<1>1. CASE Statement
  BY <1>1, Enters DEF Statement, States
<1>2. CASE StatementKind
  BY <1>2, StatementKindStep
<1>3. CASE DefinitionOrExpression
  BY <1>3, DefinitionOrExpressionStep
<1>4. CASE Statements
  BY <1>4, Enters DEF Statements, States
<1>5. CASE FirstStatement
  BY <1>5, Thens DEF FirstStatement, AnyStatement
<1>6. CASE MoreStatements
  BY <1>6, Thens DEF MoreStatements
<1>7. CASE NextStatement
  BY <1>7, Thens DEF NextStatement, AnyStatement
<1>8. CASE CompilerFlags
  BY <1>8, Enters DEF CompilerFlags, States
<1>9. CASE FlagList
  BY <1>9, Thens, Fails DEF FlagList
<1>10. CASE Flag
  BY <1>10, Thens, Fails DEF Flag
<1>11. CASE NamespaceBlock
  BY <1>11, Enters DEF NamespaceBlock, States
<1>12. CASE NamespaceBody
  BY <1>12, Thens DEF NamespaceBody
<1>13. CASE CodeFragmentBlock
  BY <1>13, Enters DEF CodeFragmentBlock, States
<1>14. CASE FragmentFlags
  BY <1>14, Thens DEF FragmentFlags
<1>15. CASE FragmentBody
  BY <1>15, Thens DEF FragmentBody
<1>16. CASE MoreNamespaces
  BY <1>16, Thens DEF MoreNamespaces
<1>17. CASE NextNamespace
  BY <1>17, Thens DEF NextNamespace
<1>18. CASE ModuleBlock
  BY <1>18, Enters, ZenonT(60) DEF ModuleBlock, States
<1>19. CASE Version
  BY <1>19, Thens DEF Version
<1>20. CASE Begin
  BY <1>20, BeginStep
<1>21. CASE Start
  BY <1>21, StartStep
<1>22. CASE Again
  BY <1>22, AgainStep
<1> QED BY <1>1, <1>2, <1>3, <1>4, <1>5, <1>6, <1>7, <1>8, <1>9, <1>10, <1>11, <1>12, <1>13,
           <1>14, <1>15, <1>16, <1>17, <1>18, <1>19, <1>20, <1>21, <1>22 DEF Blocks

(* Block comments. *)
LEMMA BlockCommentStep ==
  ASSUME IInv, BlockComment
  PROVE  IInv'
<1>1. Running /\ cur \in 1 .. Len(file)
  BY AtRuns DEF BlockComment
<1>2. Throw \/ Fail \/ (cur + 2 < End(file) /\ Goes(<<>>, BehindComment(cur)))
  BY DEF BlockComment
<1>3. CASE cur + 2 < End(file) /\ Goes(<<>>, BehindComment(cur))
  <2>1. BehindComment(cur) \in 1 .. Len(file) + 1
    BY <1>1, <1>3, LenProperties DEF BehindComment, End, IInv, Typed
  <2> QED BY <1>1, <1>3, <2>1, GoesOn, SequencesOfSteps
<1> QED BY <1>2, <1>3, Throws, Fails

(* Moving on, comments and verifications. *)
LEMMA CursorStep ==
  ASSUME IInv, Cursor
  PROVE  IInv'
<1>1. CASE NextToken
  <2>1. Running
    BY <1>1, PendingRuns DEF NextToken
  <2>2. Advanced(file, cur) \in 1 .. Len(file) + 1
    BY LenProperties DEF Advanced, HasTokensLeft, End, IInv, Typed
  <2> QED BY <1>1, <2>1, <2>2, IfCommentType, GoesOn DEF NextToken
<1>2. CASE LineComment
  <2>1. Running /\ cur + 1 \in 1 .. Len(file) + 1
    BY <1>2, AtRuns, LenProperties DEF LineComment, IInv, Typed
  <2> QED BY <1>2, <2>1, GoesOn, SequencesOfSteps DEF LineComment
<1>3. CASE VerifyTokenOrFail
  <2>1. Head(todo).do = "verify" /\ phase = "parsing" /\ todo # <<>>
    BY <1>3 DEF VerifyTokenOrFail, At, Pending
  <2>2. Running
    BY <2>1, HeadTailProperties, EntryKinds DEF Running, IInv, Typed, Entries
  <2> QED BY <1>3, <2>2, Thens, Fails, SequencesOfSteps DEF VerifyTokenOrFail
<1>4. CASE VerifyLastToken
  BY <1>4, AtRuns, Thens, Fails, SequencesOfSteps DEF VerifyLastToken
<1> QED BY <1>1, <1>2, <1>3, <1>4, BlockCommentStep DEF Cursor

(* A guard is left: on return it finds its state, and when an error is on  *)
(* its way up it finds the ERROR.                                          *)
LEMMA LeaveGuardStep ==
  ASSUME IInv, LeaveGuard
  PROVE  IInv'
<1> DEFINE g == Head(todo)
           intact == Len(stack) = g.depth /\ Last(stack) = g.state
<1>1. /\ todo \in Seq(Entries) /\ todo # <<>> /\ g \in Entries /\ g.do = "leave"
      /\ Tail(todo) \in Seq(Entries) /\ stack \in Seq(StackStates)
  BY HeadTailProperties DEF LeaveGuard, IInv, Typed
<1>2. g \in Guards
  BY <1>1, EntryKinds DEF Entries
<1>3. node' \in Kinds \cup {None, "null"}
  BY <1>2 DEF LeaveGuard, Guards, IInv, Typed
<1>4. CASE phase = "parsing"
  <2>1. intact /\ Matches(Tail(todo), Popped(stack)) /\ stack # <<>>
    BY <1>1, <1>2, <1>4, GuardLeft DEF IInv
  <2>2. /\ stack' = Popped(stack) /\ phase' = phase /\ todo' = Tail(todo)
        /\ UNCHANGED <<file, cur, saved>>
    BY <2>1, <1>4 DEF LeaveGuard, Popped, PopState
  <2>3. stack' \in Seq(StackStates)
    BY <2>1, <2>2, <1>1, PoppedType
  <2>4. Typed'
    BY <1>1, <1>3, <2>2, <2>3 DEF IInv, Typed
  <2>5. Matches(todo, stack)'
    BY <2>1, <2>2 DEF Matches, NoGuard
  <2> QED BY <1>4, <2>2, <2>4, <2>5 DEF IInv
<1>5. CASE phase = "unwinding"
  <2>1. ErrorOnTop
    BY <1>5 DEF IInv
  <2>2. ~intact
    BY <1>2, <2>1 DEF ErrorOnTop, Guards, States
  <2>3. /\ stack' = stack /\ phase' = phase /\ GivenUp(Tail(todo))
        /\ UNCHANGED <<file, cur, saved>>
    BY <2>1, <2>2, <1>5 DEF LeaveGuard, ErrorOnTop
  <2>4. Typed'
    BY <1>1, <1>3, <2>3, GivenUpType DEF IInv, Typed
  <2> QED BY <1>5, <2>1, <2>3, <2>4 DEF IInv, ErrorOnTop
<1> QED BY <1>4, <1>5 DEF LeaveGuard
-----------------------------------------------------------------------------
(* The parser of a file that has not begun. *)
LEMMA InitIInv == Init => IInv
<1> SUFFICES ASSUME Init PROVE IInv
  OBVIOUS
<1>1. file \in Seq(Kinds) /\ Len(file) \in Nat
  BY ParserAssumption, LenProperties DEF Init
<1>2. todo \in Seq(Steps) /\ todo = <<Call("begin")>>
  BY CallFacts, SequencesOfSteps DEF Init, Call
<1>3. todo \in Seq(Entries)
  BY <1>2, SeqMonotonic DEF Entries
<1>4. \A i \in 1 .. Len(todo) : todo[i] \notin Guards
  BY <1>2, ElementOfSeq, EntryKinds
<1>5. Matches(todo, stack)
  BY <1>4 DEF Matches
<1> QED BY <1>1, <1>3, <1>5 DEF Init, IInv, Typed, End

(* Every step keeps the invariant. *)
LEMMA NextIInv == IInv /\ [Next]_vars => IInv'
<1> SUFFICES ASSUME IInv, [Next]_vars PROVE IInv'
  OBVIOUS
<1>1. CASE LeaveGuard
  BY <1>1, LeaveGuardStep
<1>2. CASE Caught
  BY <1>2, Ends DEF Caught
<1>3. CASE ReadPastEnd
  BY <1>3, Ends DEF ReadPastEnd
<1>4. CASE Cursor
  BY <1>4, CursorStep
<1>5. CASE Types
  BY <1>5, TypesStep
<1>6. CASE Declarations
  BY <1>6, DeclarationsStep
<1>7. CASE Expressions
  BY <1>7, ExpressionsStep
<1>8. CASE Blocks
  BY <1>8, BlocksStep
<1>9. CASE UNCHANGED vars
  BY <1>9, NothingChanged
<1> QED BY <1>1, <1>2, <1>3, <1>4, <1>5, <1>6, <1>7, <1>8, <1>9 DEF Next

(* The states of the parser are what its functions take them for, whatever *)
(* the tokens of a file: every guard finds the state it has pushed on top  *)
(* of the stack, or an error.                                              *)
THEOREM Invariant == Spec => []IInv
BY InitIInv, NextIInv, PTL DEF Spec

(* Types, for every set of files: the cursor never leaves the tokens of    *)
(* the file but for the place behind the last.                             *)
THEOREM TypeCorrect == Spec => []TypeOK
<1>1. IInv => TypeOK
  BY LenProperties DEF IInv, Typed, TypeOK, End, StackStates
<1> QED BY <1>1, Invariant, PTL

(* No destructor of a ParseStateGuard throws, whatever the tokens of a     *)
(* file, errors included.                                                  *)
THEOREM GuardsHold == Spec => []GuardsNeverThrow
<1>1. IInv => GuardsNeverThrow
  BY DEF IInv, Typed, GuardsNeverThrow
<1> QED BY <1>1, Invariant, PTL

-----------------------------------------------------------------------------
(***************************************************************************)
(* Braces.  The nesting of a file f behind its first n tokens, and levels: *)
(* a level is a set of such n between which no block opens or ends but     *)
(* whole blocks.                                                           *)
(***************************************************************************)
Opening(f, n) == f[n] = "{"
Closing(f, n) == f[n] = "}"
Openings(f, n) == {i \in 1 .. n : Opening(f, i)}
Closings(f, n) == {i \in 1 .. n : Closing(f, i)}
Nest(f, n) == Cardinality(Openings(f, n)) - Cardinality(Closings(f, n))
Others == Kinds \ Braces

(* The brace at p is closed by the one at q (Closes, of the file f). *)
Matched(f, p, q) ==
  /\ Opening(f, p) /\ Closing(f, q) /\ Nest(f, q) = Nest(f, p) - 1
  /\ \A i \in p .. q - 1 : Nest(f, i) >= Nest(f, p)

(* A token that is no brace leads from c to c. *)
Forward(f, c) ==
  /\ c \subseteq 0 .. Len(f)
  /\ \A n \in c : n < Len(f) /\ f[n + 1] \notin Braces => n + 1 \in c
Level(f, c) ==
  /\ Forward(f, c)
  /\ \A n \in 1 .. Len(f) : n \in c /\ f[n] \notin Braces => n - 1 \in c
  /\ \A p, q \in 1 .. Len(f) : p - 1 \in c /\ p < q /\ Matched(f, p, q) => q \in c

Deep(f, c, d) == \A n \in c : Nest(f, n) >= d
Inner(f, c) == Level(f, c) /\ Deep(f, c, 1)

Outside(f) == {n \in 0 .. Len(f) : Nest(f, n) = 0 /\ \A i \in 0 .. n : Nest(f, i) >= 0}

(* Within a block that opens from c, and what of c is behind h with no     *)
(* block opened since.                                                     *)
Opens(f, c, p, n) ==
  /\ p - 1 \in c /\ p <= n /\ Opening(f, p) /\ Nest(f, n) = Nest(f, p)
  /\ \A i \in p .. n : Nest(f, i) >= Nest(f, p)
Opened(f, c) == {n \in 1 .. Len(f) : \E p \in 1 .. Len(f) : Opens(f, c, p, n)}
Headed(f, c, h) == {n \in c : h <= n + 1 /\ \A i \in h .. n : ~Opening(f, i)}

(* Blocks of the level c end in o. *)
Encloses(f, c, o) == \A n \in 1 .. Len(f) : n - 1 \in c /\ Closing(f, n) => n \in o

-----------------------------------------------------------------------------
(* A brace opens or closes. *)
LEMMA BraceKinds ==
  ASSUME NEW f, NEW n
  PROVE  /\ f[n] \in Braces <=> Opening(f, n) \/ Closing(f, n)
         /\ ~(Opening(f, n) /\ Closing(f, n))
BY Zenon DEF Braces, Opening, Closing

(* What a token adds to the nesting. *)
LEMMA NestStep ==
  ASSUME NEW f, NEW n \in Nat
  PROVE  /\ Nest(f, 0) = 0 /\ Nest(f, n) \in Int
         /\ Opening(f, n + 1) => Nest(f, n + 1) = Nest(f, n) + 1
         /\ Closing(f, n + 1) => Nest(f, n + 1) = Nest(f, n) - 1
         /\ f[n + 1] \notin Braces => Nest(f, n + 1) = Nest(f, n)
<1>1. ASSUME NEW k \in Nat
      PROVE  /\ IsFiniteSet(Openings(f, k)) /\ IsFiniteSet(Closings(f, k))
             /\ Cardinality(Openings(f, k)) \in Nat /\ Cardinality(Closings(f, k)) \in Nat
  <2>1. IsFiniteSet(1 .. k)
    BY FS_Interval
  <2>2. IsFiniteSet(Openings(f, k)) /\ IsFiniteSet(Closings(f, k))
    BY <2>1, FS_Subset DEF Openings, Closings
  <2> QED BY <2>2, FS_CardinalityType
<1>2. Openings(f, 0) = {} /\ Closings(f, 0) = {}
  BY DEF Openings, Closings
<1>3. Nest(f, 0) = 0
  BY <1>2, FS_EmptySet DEF Nest
<1>4. Nest(f, n) \in Int
  BY <1>1 DEF Nest
<1>5. /\ n + 1 \notin Openings(f, n) /\ n + 1 \notin Closings(f, n)
      /\ 1 .. n + 1 = (1 .. n) \cup {n + 1}
  <2>1. n + 1 \notin 1 .. n /\ 1 .. n + 1 = (1 .. n) \cup {n + 1}
    OBVIOUS
  <2> QED BY <2>1 DEF Openings, Closings
<1>6. CASE Opening(f, n + 1)
  <2>1. /\ Openings(f, n + 1) = Openings(f, n) \cup {n + 1}
        /\ Closings(f, n + 1) = Closings(f, n)
    BY <1>5, <1>6, BraceKinds DEF Openings, Closings
  <2>2. Cardinality(Openings(f, n + 1)) = Cardinality(Openings(f, n)) + 1
    BY <1>1, <1>5, <2>1, FS_AddElement
  <2>3. Nest(f, n + 1) = Nest(f, n) + 1
    BY <1>1, <2>1, <2>2 DEF Nest
  <2> QED BY <1>3, <1>4, <1>6, <2>3, BraceKinds
<1>7. CASE Closing(f, n + 1)
  <2>1. /\ Closings(f, n + 1) = Closings(f, n) \cup {n + 1}
        /\ Openings(f, n + 1) = Openings(f, n)
    BY <1>5, <1>7, BraceKinds DEF Openings, Closings
  <2>2. Cardinality(Closings(f, n + 1)) = Cardinality(Closings(f, n)) + 1
    BY <1>1, <1>5, <2>1, FS_AddElement
  <2>3. Nest(f, n + 1) = Nest(f, n) - 1
    BY <1>1, <2>1, <2>2 DEF Nest
  <2> QED BY <1>3, <1>4, <1>7, <2>3, BraceKinds
<1>8. CASE f[n + 1] \notin Braces
  <2>1. Openings(f, n + 1) = Openings(f, n) /\ Closings(f, n + 1) = Closings(f, n)
    BY <1>5, <1>8, BraceKinds DEF Openings, Closings
  <2> QED BY <1>3, <1>4, <1>8, <2>1, BraceKinds DEF Nest
<1> QED BY <1>6, <1>7, <1>8, BraceKinds

(* The nesting before a token, from that behind it. *)
LEMMA NestBack ==
  ASSUME NEW f, NEW n \in Nat \ {0}
  PROVE  /\ Nest(f, n) \in Int /\ Nest(f, n - 1) \in Int
         /\ Opening(f, n) => Nest(f, n) = Nest(f, n - 1) + 1
         /\ Closing(f, n) => Nest(f, n) = Nest(f, n - 1) - 1
         /\ f[n] \notin Braces => Nest(f, n) = Nest(f, n - 1)
<1>1. n - 1 \in Nat /\ (n - 1) + 1 = n
  OBVIOUS
<1> QED BY <1>1, NestStep

(* A block opens. *)
LEMMA BlockOpens ==
  ASSUME NEW f \in Seq(Kinds), NEW c, NEW n \in 1 .. Len(f), n - 1 \in c, Opening(f, n)
  PROVE  n \in Opened(f, c)
<1> n \in Nat
  BY LenProperties
<1>1. Nest(f, n) \in Int
  BY NestStep
<1>2. Opens(f, c, n, n)
  BY <1>1 DEF Opens
<1> QED BY <1>2 DEF Opened

(* The tokens within a block that opens from c are a level of their own,   *)
(* one deeper.                                                             *)
LEMMA OpenedIsLevel ==
  ASSUME NEW f \in Seq(Kinds), NEW c, NEW d \in Int, Deep(f, c, d)
  PROVE  Level(f, Opened(f, c)) /\ Deep(f, Opened(f, c), d + 1)
<1> DEFINE o == Opened(f, c)
<1>1. Len(f) \in Nat
  BY LenProperties
<1>2. ASSUME NEW n \in o
      PROVE  n \in 1 .. Len(f) /\ \E p \in 1 .. Len(f) : Opens(f, c, p, n)
  BY DEF Opened
<1>3. ASSUME NEW n \in 1 .. Len(f), NEW p \in 1 .. Len(f), Opens(f, c, p, n)
      PROVE  n \in o
  BY <1>3 DEF Opened
<1>4. ASSUME NEW n \in Nat, NEW m \in Nat, NEW p \in 1 .. Len(f), Opens(f, c, p, n),
             m > n, Nest(f, m) = Nest(f, n), \A i \in n + 1 .. m : Nest(f, i) >= Nest(f, n)
      PROVE  Opens(f, c, p, m)
  <2>1. \A i \in p .. m : i \in p .. n \/ i \in n + 1 .. m
    BY <1>1
  <2> QED BY <1>1, <1>4, <2>1 DEF Opens
<1> HIDE DEF o
<1>5. o \subseteq 0 .. Len(f)
  BY <1>1, <1>2
<1>6. ASSUME NEW n \in o, n < Len(f), f[n + 1] \notin Braces
      PROVE  n + 1 \in o
  <2>1. PICK p \in 1 .. Len(f) : Opens(f, c, p, n)
    BY <1>2
  <2>2. n \in Nat /\ n + 1 \in 1 .. Len(f)
    BY <1>1, <1>2, <1>6
  <2>3. Nest(f, n + 1) = Nest(f, n) /\ Nest(f, n) \in Int
    BY <2>2, <1>6, NestStep
  <2>4. \A i \in n + 1 .. n + 1 : Nest(f, i) >= Nest(f, n)
    BY <2>2, <2>3
  <2>5. Opens(f, c, p, n + 1)
    BY <2>1, <2>2, <2>3, <2>4, <1>4
  <2> QED BY <2>2, <2>5, <1>3
<1>7. ASSUME NEW n \in 1 .. Len(f), n \in o, f[n] \notin Braces
      PROVE  n - 1 \in o
  <2>1. PICK p \in 1 .. Len(f) : Opens(f, c, p, n)
    BY <1>2, <1>7
  <2>2. p # n
    BY <2>1, <1>7, BraceKinds DEF Opens
  <2>3. p <= n - 1 /\ n - 1 \in 1 .. Len(f)
    BY <2>1, <2>2, <1>1 DEF Opens
  <2>4. Nest(f, n - 1) = Nest(f, n)
    BY <1>7, <1>1, NestBack, SMTT(40)
  <2>5. Opens(f, c, p, n - 1)
    BY <2>1, <2>3, <2>4 DEF Opens
  <2> QED BY <2>3, <2>5, <1>3
<1>8. ASSUME NEW p \in 1 .. Len(f), NEW q \in 1 .. Len(f), p - 1 \in o, p < q, Matched(f, p, q)
      PROVE  q \in o
  <2>1. p - 1 \in 1 .. Len(f) /\ \E r \in 1 .. Len(f) : Opens(f, c, r, p - 1)
    BY <1>2, <1>8
  <2>2. PICK r \in 1 .. Len(f) : Opens(f, c, r, p - 1)
    BY <2>1
  <2>3. Nest(f, p) = Nest(f, p - 1) + 1 /\ Nest(f, p - 1) \in Int
    BY <1>8, <1>1, NestBack DEF Matched
  <2>4. Nest(f, q) = Nest(f, p - 1)
    BY <1>8, <2>3 DEF Matched
  <2>5. ASSUME NEW i \in (p - 1) + 1 .. q
        PROVE  Nest(f, i) >= Nest(f, p - 1)
    <3>1. CASE i = q
      BY <3>1, <2>3, <2>4
    <3>2. CASE i # q
      <4>1. i \in p .. q - 1 /\ i \in Nat
        BY <3>2, <1>1
      <4>2. Nest(f, i) \in Int
        BY <4>1, NestStep
      <4> QED BY <4>1, <4>2, <2>3, <1>8 DEF Matched
    <3> QED BY <3>1, <3>2
  <2>6. Opens(f, c, r, q)
    BY <2>1, <2>2, <2>4, <2>5, <1>1, <1>4, <1>8
  <2> QED BY <2>6, <1>3
<1>9. ASSUME NEW n \in o
      PROVE  Nest(f, n) >= d + 1
  <2>1. PICK p \in 1 .. Len(f) : Opens(f, c, p, n)
    BY <1>2
  <2>2. Nest(f, p) = Nest(f, p - 1) + 1 /\ Nest(f, p - 1) \in Int /\ Nest(f, n) = Nest(f, p)
    BY <2>1, NestBack, <1>1 DEF Opens
  <2>3. Nest(f, p - 1) >= d
    BY <2>1 DEF Opens, Deep
  <2> QED BY <2>2, <2>3
<1>10. Level(f, o)
  BY <1>5, <1>6, <1>7, <1>8 DEF Level, Forward
<1> QED BY <1>9, <1>10 DEF o, Deep

(* A block that opens from a part of c ends in c, at the brace that closes *)
(* its first.                                                              *)
LEMMA BlockEnds ==
  ASSUME NEW f \in Seq(Kinds), NEW c, NEW h, Level(f, c), h \subseteq c,
         NEW n \in 1 .. Len(f), n - 1 \in Opened(f, h), Closing(f, n)
  PROVE  n \in c /\ \E p \in 1 .. Len(f) : p - 1 \in h /\ p < n /\ Matched(f, p, n)
<1>1. Len(f) \in Nat
  BY LenProperties
<1>2. PICK p \in 1 .. Len(f) : Opens(f, h, p, n - 1)
  BY DEF Opened
<1>3. p - 1 \in h /\ p < n /\ Opening(f, p)
  BY <1>1, <1>2 DEF Opens
<1>4. Nest(f, n) = Nest(f, n - 1) - 1 /\ Nest(f, n - 1) = Nest(f, p)
  BY <1>1, <1>2, NestBack DEF Opens
<1>5. Matched(f, p, n)
  BY <1>2, <1>3, <1>4 DEF Matched, Opens
<1> QED BY <1>3, <1>5 DEF Level

(* So levels enclose the blocks that open from them. *)
LEMMA OpenedIsEnclosed ==
  ASSUME NEW f \in Seq(Kinds), NEW c, NEW h, Level(f, c), h \subseteq c
  PROVE  Encloses(f, Opened(f, h), c)
BY BlockEnds DEF Encloses

(* No block has been opened since the head began. *)
LEMMA HeadIsForward ==
  ASSUME NEW f \in Seq(Kinds), NEW c, NEW h \in Nat, Level(f, c)
  PROVE  Forward(f, Headed(f, c, h)) /\ Headed(f, c, h) \subseteq c
<1>1. Len(f) \in Nat /\ c \subseteq 0 .. Len(f)
  BY LenProperties DEF Level, Forward
<1>2. ASSUME NEW n \in c, h <= n + 1, \A i \in h .. n : ~Opening(f, i),
             n < Len(f), f[n + 1] \notin Braces
      PROVE  n + 1 \in Headed(f, c, h)
  <2>1. n + 1 \in c /\ n \in Nat
    BY <1>1, <1>2 DEF Level, Forward
  <2>2. \A i \in h .. n + 1 : i \in h .. n \/ i = n + 1
    BY <2>1
  <2>3. ~Opening(f, n + 1)
    BY <1>2, BraceKinds
  <2>4. h <= n + 1 + 1
    BY <1>2, <2>1
  <2>5. \A i \in h .. n + 1 : ~Opening(f, i)
    BY <2>2, <2>3, <1>2
  <2> QED BY <2>1, <2>4, <2>5 DEF Headed
<1> QED BY <1>1, <1>2 DEF Forward, Headed

(* Outside of all blocks is a level. *)
LEMMA OutsideIsLevel ==
  ASSUME NEW f \in Seq(Kinds)
  PROVE  Level(f, Outside(f)) /\ Deep(f, Outside(f), 0) /\ 0 \in Outside(f)
<1> DEFINE c == Outside(f)
<1>1. Len(f) \in Nat
  BY LenProperties
<1>2. c \subseteq 0 .. Len(f) /\ 0 \in c
  BY <1>1, NestStep DEF Outside
<1>3. ASSUME NEW n \in 0 .. Len(f), NEW m \in 0 .. Len(f), n \in c, n <= m,
             Nest(f, m) = 0, \A i \in n + 1 .. m : Nest(f, i) >= 0
      PROVE  m \in c
  <2>1. \A i \in 0 .. m : i \in 0 .. n \/ i \in n + 1 .. m
    BY <1>1
  <2> QED BY <1>3, <2>1 DEF Outside
<1>4. ASSUME NEW n \in c, n < Len(f), f[n + 1] \notin Braces
      PROVE  n + 1 \in c
  <2>1. n \in 0 .. Len(f) /\ n + 1 \in 0 .. Len(f)
    BY <1>1, <1>2, <1>4
  <2>2. Nest(f, n + 1) = 0
    BY <2>1, <1>4, NestStep DEF Outside
  <2>3. \A i \in n + 1 .. n + 1 : i = n + 1
    BY <2>1
  <2>4. \A i \in n + 1 .. n + 1 : Nest(f, i) >= 0
    BY <2>2, <2>3
  <2> QED BY <2>1, <2>2, <2>4, <1>3, <1>1
<1>5. ASSUME NEW n \in 1 .. Len(f), n \in c, f[n] \notin Braces
      PROVE  n - 1 \in c
  <2>1. Nest(f, n - 1) = 0
    BY <1>5, <1>1, NestBack DEF Outside
  <2>2. n - 1 \in 0 .. Len(f) /\ \A i \in 0 .. n - 1 : i \in 0 .. n
    BY <1>1
  <2> QED BY <2>1, <2>2, <1>5 DEF Outside
<1>6. ASSUME NEW p \in 1 .. Len(f), NEW q \in 1 .. Len(f), p - 1 \in c, p < q, Matched(f, p, q)
      PROVE  q \in c
  <2>1. Nest(f, p - 1) = 0
    BY <1>6 DEF Outside
  <2>2. Nest(f, p) = 1 /\ Nest(f, q) = 0
    BY <1>6, <2>1, <1>1, NestBack DEF Matched
  <2>3. ASSUME NEW i \in (p - 1) + 1 .. q
        PROVE  Nest(f, i) >= 0
    <3>1. CASE i = q
      BY <3>1, <2>2
    <3>2. CASE i # q
      <4>1. i \in p .. q - 1 /\ i \in Nat
        BY <3>2, <1>1
      <4>2. Nest(f, i) \in Int
        BY <4>1, NestStep
      <4> QED BY <4>1, <4>2, <2>2, <1>6 DEF Matched
    <3> QED BY <3>1, <3>2
  <2>4. p - 1 \in 0 .. Len(f) /\ q \in 0 .. Len(f) /\ p - 1 <= q
    BY <1>1, <1>6
  <2> QED BY <2>2, <2>3, <2>4, <1>3, <1>6
<1>7. Deep(f, c, 0)
  BY DEF Deep, Outside
<1> QED BY <1>2, <1>4, <1>5, <1>6, <1>7 DEF Level, Forward

-----------------------------------------------------------------------------
(***************************************************************************)
(* Where the parser may be, as sets of <<cur, saved, node>>: To(f, c) is   *)
(* before a token that is still to be counted, On(f, c) on one that has    *)
(* been; the others say more of the token, of the one before it, of the    *)
(* one saved, or of the node.                                              *)
(***************************************************************************)
Marks == {"@", "."}
Comments == {"#", "#{", "}#"}
Starts == {"#", "#{"}
Openers == {"{", "]"}   \* behind which a block may be empty

Space(f) == (1 .. Len(f) + 1) \X (1 .. Len(f) + 1) \X (Kinds \cup {None, "null"})
Moved(s, n) == <<n, s[2], s[3]>>

To(f, c) == {s \in Space(f) : s[1] - 1 \in c}
On(f, c) == {s \in Space(f) : s[1] \in c}
Either(f, c) == To(f, c) \cup On(f, c)
Reads(f, kinds) == {s \in Space(f) : s[1] <= Len(f) /\ f[s[1]] \in kinds}
Behind(f, kinds) == {s \in Space(f) : s[1] > 1 /\ f[s[1] - 1] \in kinds}
Valued(f) == {s \in Space(f) : s[3] # "null"}
Saved(f, c) == {s \in Space(f) : s[2] <= Len(f) /\ f[s[2]] = "x" /\ s[2] - 1 \in c}
First(f) ==
  {s \in Space(f) : s[1] <= Len(f) /\ Closing(f, s[1]) =>
                      s[1] > 1 /\ f[s[1] - 1] \in Openers \cup Comments}

OnOther(f, c) == On(f, c) \cap Reads(f, Others)
ToOther(f, c) == To(f, c) \cap Behind(f, Others)
EitherOther(f, c) == OnOther(f, c) \cup ToOther(f, c)
OnMark(f, c) == On(f, c) \cap Reads(f, Marks)
ToMarked(f, c) == To(f, c) \cap Behind(f, Marks)
OnFirst(f, c) == On(f, c) \cap Reads(f, Openers)
ToFirst(f, c) == To(f, c) \cap First(f)
OnBracket(f, c) == On(f, c) \cap Reads(f, {"]"})
OnNode(f, c) == On(f, c) \cap Valued(f)
ToNode(f, c) == To(f, c) \cap Valued(f)
ToSaved(f, c) == To(f, c) \cap Saved(f, c)
AtEnd(f, c) == To(f, c) \cap Reads(f, {"}"})

(* The end of a block of the level c within the level o: its brace, or the *)
(* semicolon that is asked for behind an empty block with a comment.       *)
Odd(f) ==
  \E i \in 1 .. Len(f) :
    \/ Closing(f, i) /\ PeekPrev(f, i) \in {"#", "}#", "]"}
    \/ f[i] = "#{" /\ (PeekNext(f, i) # "#" \/ PeekNext(f, i + 1) # "}#")
Stray(f) == {s \in Space(f) : s[3] = "null" /\ Odd(f)}
OnStray(f, o) == On(f, o) \cap Stray(f)
ToStray(f, o) == To(f, o) \cap Stray(f)
Ending(f, c, o) == AtEnd(f, c) \cup (On(f, o) \cap Reads(f, {";"}))
Done(f, c, o) == OnNode(f, c) \cup (Ending(f, c, o) \ Valued(f))

(* Before the brace of a block, unless there is none. *)
ToBrace(f, c) ==
  {s \in Space(f) : /\ Nest(f, s[1] - 1) >= 1
                    /\ s[1] <= Len(f) /\ Opening(f, s[1]) => s[1] - 1 \in c}

(* A file that ends with a brace and whose braces balance is not read past *)
(* its end from l.                                                         *)
Broken(f) == Nest(f, Len(f)) # 0 \/ ~Closing(f, Len(f)) \/ Odd(f)
Safe(f, l) == \A s \in l : s[1] = Len(f) + 1 => Broken(f)

Regular(f) ==
  \A i \in 1 .. Len(f) :
    /\ f[i] # "namespace"
    /\ f[i] \in Marks => PeekNext(f, i) \notin Braces \cup Starts
    /\ \A j \in i + 1 .. Len(f) :
         f[i] \in Braces /\ Opening(f, j) /\ (\A k \in i + 1 .. j - 1 : f[k] \in Comments)
         => Nest(f, i) = 0
-----------------------------------------------------------------------------
(* nextToken passes over a comment. *)
LineCommentAt(f, n) == n <= Len(f) /\ f[n] = "#"
BlockCommentAt(f, n) == n <= Len(f) /\ f[n] = "#{"
WholeCommentAt(f, n) ==
  n + 2 <= Len(f) /\ f[n] = "#{" /\ f[n + 1] = "#" /\ f[n + 2] = "}#"
Landing(f, n) ==
  {m \in {n, n + 1, n + 3} :
     /\ m = n => ~LineCommentAt(f, n) /\ ~BlockCommentAt(f, n)
     /\ m = n + 1 => LineCommentAt(f, n)
     /\ m = n + 3 => WholeCommentAt(f, n)}
Lands(f, s, n, k) == \A m \in Landing(f, n) : Moved(s, m) \in k
Moves(f, l, k) ==
  \A s \in l : IF s[1] <= Len(f) THEN Lands(f, s, s[1] + 1, k) ELSE s \in k

(* Kinds of tokens. *)
LEMMA OtherKinds ==
  /\ Braces \cap Others = {} /\ Kinds = Braces \cup Others
  /\ Comments \subseteq Others /\ Marks \subseteq Others
  /\ {"]"} \subseteq Others /\ {"]"} \subseteq Openers
  /\ "x" \in Others /\ ";" \in Others
<1>1. Braces \subseteq Kinds
  BY Zenon DEF Braces, Kinds
<1>2. Braces \cap Others = {} /\ Kinds = Braces \cup Others
  BY <1>1, Zenon DEF Others
<1>3. Comments \subseteq Others /\ Marks \subseteq Others
  BY Zenon DEF Comments, Marks, Others, Kinds, Braces
<1>4. "]" \in Others /\ "]" \in Openers /\ "x" \in Others /\ ";" \in Others
  BY Zenon DEF Others, Openers, Kinds, Braces
<1> QED BY <1>2, <1>3, <1>4

(* Where nextToken comes to. *)
LEMMA Landed ==
  ASSUME NEW f \in Seq(Kinds), NEW n \in 1 .. Len(f) + 1, NEW m \in Landing(f, n)
  PROVE  /\ m \in n .. Len(f) + 1 /\ m \in {n, n + 1, n + 3}
         /\ \A i \in n .. m - 1 : f[i] \in Comments
<1>1. Len(f) \in Nat
  BY LenProperties
<1>2. /\ LineCommentAt(f, n) => n <= Len(f) /\ f[n] \in Comments
      /\ WholeCommentAt(f, n) => n + 2 <= Len(f) /\ f[n] \in Comments
                                 /\ f[n + 1] \in Comments /\ f[n + 2] \in Comments
  BY Zenon DEF LineCommentAt, WholeCommentAt, Comments
<1>3. CASE m = n
  BY <1>1, <1>3
<1>4. CASE m = n + 1
  <2>1. LineCommentAt(f, n)
    BY <1>4 DEF Landing
  <2>2. \A i \in n .. m - 1 : i = n
    BY <1>4
  <2> QED BY <1>1, <1>2, <1>4, <2>1, <2>2
<1>5. CASE m = n + 3
  <2>1. WholeCommentAt(f, n)
    BY <1>5 DEF Landing
  <2>2. \A i \in n .. m - 1 : i = n \/ i = n + 1 \/ i = n + 2
    BY <1>5
  <2> QED BY <1>1, <1>2, <1>5, <2>1, <2>2
<1> QED BY <1>3, <1>4, <1>5 DEF Landing

(* A comment leads from c to c. *)
LEMMA LandsForward ==
  ASSUME NEW f \in Seq(Kinds), NEW c, Forward(f, c), NEW n \in 1 .. Len(f) + 1,
         n - 1 \in c, NEW m \in Landing(f, n)
  PROVE  m - 1 \in c
<1>1. Len(f) \in Nat /\ m \in n .. Len(f) + 1 /\ m \in {n, n + 1, n + 3}
      /\ \A i \in n .. m - 1 : f[i] \in Comments
  BY LenProperties, Landed
<1>2. ASSUME NEW i \in n .. m - 1, i - 1 \in c
      PROVE  i \in c
  <2>1. i - 1 < Len(f) /\ (i - 1) + 1 = i
    BY <1>1
  <2>2. f[i] \notin Braces
    BY <1>1, OtherKinds
  <2>3. \A j \in c : j < Len(f) /\ f[j + 1] \notin Braces => j + 1 \in c
    BY DEF Forward
  <2> QED BY <1>2, <2>1, <2>2, <2>3
<1>3. CASE m = n
  BY <1>3
<1>4. CASE m = n + 1
  BY <1>2, <1>4
<1>5. CASE m = n + 3
  <2>1. n \in c
    BY <1>2, <1>5
  <2>2. n + 1 \in c
    BY <1>2, <1>5, <2>1
  <2>3. n + 2 \in c
    BY <1>2, <1>5, <2>2
  <2> QED BY <1>5, <2>3
<1> QED BY <1>1, <1>3, <1>4, <1>5

(* What is before the place nextToken comes to. *)
LEMMA LandsBehind ==
  ASSUME NEW f \in Seq(Kinds), NEW n \in 1 .. Len(f) + 1, NEW m \in Landing(f, n),
         NEW kinds, n > 1 => f[n - 1] \in kinds
  PROVE  m > 1 => f[m - 1] \in kinds \cup Comments
<1>1. CASE m = n
  BY <1>1
<1>2. CASE m # n
  <2>1. m - 1 \in n .. m - 1
    BY Landed, <1>2, LenProperties
  <2> QED BY <2>1, Landed
<1> QED BY <1>1, <1>2

(* The parts of a state. *)
LEMMA StateParts ==
  ASSUME NEW f, NEW s \in Space(f)
  PROVE  /\ s[1] \in 1 .. Len(f) + 1 /\ s[2] \in 1 .. Len(f) + 1
         /\ s[3] \in Kinds \cup {None, "null"}
BY DEF Space

(* A state that has moved. *)
LEMMA MovedState ==
  ASSUME NEW f \in Seq(Kinds), NEW s \in Space(f), NEW n \in 1 .. Len(f) + 1
  PROVE  /\ Moved(s, n) \in Space(f) /\ Moved(s, s[1]) = s
         /\ Moved(s, n)[1] = n /\ Moved(s, n)[2] = s[2] /\ Moved(s, n)[3] = s[3]
BY DEF Moved, Space

(* Moving on from a token that has been counted. *)
LEMMA MovesOn ==
  ASSUME NEW f \in Seq(Kinds), NEW c, Forward(f, c)
  PROVE  Moves(f, On(f, c), To(f, c))
<1> SUFFICES ASSUME NEW s \in On(f, c)
             PROVE  s[1] <= Len(f) /\ \A m \in Landing(f, s[1] + 1) : Moved(s, m) \in To(f, c)
  BY Zenon DEF Moves, Lands
<1>1. s \in Space(f) /\ s[1] \in c /\ Len(f) \in Nat /\ s[1] \in 1 .. Len(f) + 1
      /\ s[1] \in 0 .. Len(f)
  BY LenProperties, StateParts DEF On, Forward
<1> DEFINE n == s[1] + 1
<1>2. n \in 1 .. Len(f) + 1 /\ n - 1 \in c
  BY <1>1
<1> HIDE DEF n
<1>3. ASSUME NEW m \in Landing(f, n)
      PROVE  Moved(s, m) \in To(f, c)
  <2>1. m - 1 \in c /\ m \in 1 .. Len(f) + 1
    BY <1>1, <1>2, LandsForward, Landed
  <2>2. Moved(s, m) \in Space(f) /\ Moved(s, m)[1] = m
    BY <1>1, <2>1, MovedState
  <2> QED BY <2>1, <2>2 DEF To
<1> QED BY <1>1, <1>3 DEF n

(* The token that was current is before the new one, or a comment is. *)
LEMMA MovesBehind ==
  ASSUME NEW f \in Seq(Kinds), NEW l, NEW k, NEW kinds, Moves(f, l, k),
         l \subseteq Reads(f, kinds)
  PROVE  Moves(f, l, k \cap Behind(f, kinds \cup Comments))
<1> SUFFICES ASSUME NEW s \in l
             PROVE  /\ s[1] <= Len(f)
                    /\ \A m \in Landing(f, s[1] + 1) :
                         Moved(s, m) \in k \cap Behind(f, kinds \cup Comments)
  BY Zenon DEF Moves, Lands
<1>1. s \in Space(f) /\ s[1] <= Len(f) /\ f[s[1]] \in kinds /\ Len(f) \in Nat
      /\ s[1] \in 1 .. Len(f) + 1
  BY LenProperties, StateParts DEF Reads
<1> DEFINE n == s[1] + 1
<1>2. n \in 1 .. Len(f) + 1 /\ f[n - 1] \in kinds /\ n > 1
  BY <1>1
<1>3. \A m \in Landing(f, n) : Moved(s, m) \in k
  BY <1>1 DEF Moves, Lands
<1> HIDE DEF n
<1>4. ASSUME NEW m \in Landing(f, n)
      PROVE  Moved(s, m) \in Behind(f, kinds \cup Comments)
  <2>1. m \in 1 .. Len(f) + 1 /\ m > 1
    BY <1>1, <1>2, Landed
  <2>2. f[m - 1] \in kinds \cup Comments
    BY <1>2, <2>1, LandsBehind
  <2>3. Moved(s, m) \in Space(f) /\ Moved(s, m)[1] = m
    BY <1>1, <2>1, MovedState
  <2> QED BY <2>1, <2>2, <2>3 DEF Behind
<1> QED BY <1>1, <1>3, <1>4 DEF n

(* What does not depend on the cursor stays. *)
Fixed(f, x) == \A s \in x : s \in Space(f) /\ \A n \in 1 .. Len(f) + 1 : Moved(s, n) \in x
(* What was saved, the last node and whether it is stray are not the cursor's business. *)
LEMMA FixedSets ==
  ASSUME NEW f \in Seq(Kinds), NEW c
  PROVE  Fixed(f, Valued(f)) /\ Fixed(f, Saved(f, c)) /\ Fixed(f, Stray(f))
<1>1. Fixed(f, Valued(f))
  BY MovedState DEF Fixed, Valued
<1>2. Fixed(f, Saved(f, c))
  BY MovedState DEF Fixed, Saved
<1>3. Fixed(f, Stray(f))
  BY MovedState DEF Fixed, Stray
<1> QED BY <1>1, <1>2, <1>3

(* A move of the cursor keeps what does not depend on it. *)
LEMMA MovesFixed ==
  ASSUME NEW f \in Seq(Kinds), NEW l, NEW k, NEW x, Moves(f, l, k), Fixed(f, x)
  PROVE  Moves(f, l \cap x, k \cap x)
<1> SUFFICES ASSUME NEW s \in l \cap x
             PROVE  IF s[1] <= Len(f) THEN \A m \in Landing(f, s[1] + 1) : Moved(s, m) \in k \cap x
                    ELSE s \in k \cap x
  BY Zenon DEF Moves, Lands
<1>1. s \in Space(f) /\ s[1] \in 1 .. Len(f) + 1 /\ Len(f) \in Nat
  BY LenProperties, StateParts DEF Fixed
<1>2. ASSUME s[1] <= Len(f), NEW m \in Landing(f, s[1] + 1)
      PROVE  Moved(s, m) \in k \cap x
  <2> DEFINE n == s[1] + 1
  <2>1. n \in 1 .. Len(f) + 1
    BY <1>1, <1>2
  <2>2. m \in Landing(f, n)
    BY <1>2
  <2> HIDE DEF n
  <2>3. m \in 1 .. Len(f) + 1
    BY <1>1, <2>1, <2>2, Landed
  <2>4. Moved(s, m) \in k
    BY <1>2 DEF Moves, Lands
  <2> QED BY <2>3, <2>4 DEF Fixed
<1>3. s[1] > Len(f) => s \in k
  BY <1>1 DEF Moves
<1> QED BY <1>1, <1>2, <1>3

(* Less to start from, more to come to. *)
LEMMA MovesWeaker ==
  ASSUME NEW f, NEW l, NEW k, NEW x, NEW y, Moves(f, l, k), x \subseteq l, k \subseteq y
  PROVE  Moves(f, x, y)
BY DEF Moves, Lands

(* nextToken, from where a function of the parser may leave the cursor. *)
LEMMA NextTokens ==
  ASSUME NEW f \in Seq(Kinds), NEW c, Forward(f, c)
  PROVE  /\ Moves(f, On(f, c), To(f, c))
         /\ Moves(f, OnOther(f, c), ToOther(f, c))
         /\ Moves(f, OnFirst(f, c), ToFirst(f, c))
         /\ Moves(f, OnNode(f, c), ToNode(f, c))
         /\ Moves(f, On(f, c) \cap Saved(f, c), ToSaved(f, c))
         /\ Moves(f, OnStray(f, c), ToStray(f, c))
<1>1. Moves(f, On(f, c), To(f, c))
  BY MovesOn
<1>2. Moves(f, OnOther(f, c), ToOther(f, c))
  <2>1. Moves(f, OnOther(f, c), To(f, c))
    BY <1>1, MovesWeaker DEF OnOther
  <2>2. Moves(f, OnOther(f, c), To(f, c) \cap Behind(f, Others \cup Comments))
    BY <2>1, MovesBehind DEF OnOther
  <2>3. Others \cup Comments = Others
    BY OtherKinds
  <2> QED BY <2>2, <2>3 DEF ToOther
<1>3. Moves(f, OnFirst(f, c), ToFirst(f, c))
  <2>1. Moves(f, OnFirst(f, c), To(f, c))
    BY <1>1, MovesWeaker DEF OnFirst
  <2>2. Moves(f, OnFirst(f, c), To(f, c) \cap Behind(f, Openers \cup Comments))
    BY <2>1, MovesBehind DEF OnFirst
  <2>3. Behind(f, Openers \cup Comments) \subseteq First(f)
    BY DEF Behind, First
  <2>4. To(f, c) \cap Behind(f, Openers \cup Comments) \subseteq ToFirst(f, c)
    BY <2>3 DEF ToFirst
  <2> QED BY <2>2, <2>4, MovesWeaker, ZenonT(60)
<1>4. Moves(f, OnNode(f, c), ToNode(f, c))
  BY <1>1, FixedSets, MovesFixed DEF OnNode, ToNode
<1>5. Moves(f, On(f, c) \cap Saved(f, c), ToSaved(f, c))
  BY <1>1, FixedSets, MovesFixed DEF ToSaved
<1>6. Moves(f, OnStray(f, c), ToStray(f, c))
  BY <1>1, FixedSets, MovesFixed DEF OnStray, ToStray
<1> QED BY <1>1, <1>2, <1>3, <1>4, <1>5, <1>6

(* The parser has looked at the token it comes to. *)
LEMMA NextPeeked ==
  ASSUME NEW f \in Seq(Kinds), NEW c, Level(f, c), NEW s \in On(f, c), NEW kinds,
         PeekNext(f, s[1]) \in kinds, kinds \subseteq Others \ Starts
  PROVE  Moves(f, {s}, OnOther(f, c) \cap Reads(f, kinds))
<1>1. s \in Space(f) /\ s[1] \in c /\ Len(f) \in Nat /\ s[1] \in 1 .. Len(f) + 1
      /\ s[1] \in 0 .. Len(f) /\ None \notin kinds
  <2>1. None \notin Kinds
    BY Zenon DEF Kinds, None, Keywords, Operators
  <2> QED BY <2>1, LenProperties, StateParts DEF On, Level, Forward, Others
<1> DEFINE n == s[1] + 1
<1>2. n \in 1 .. Len(f) /\ f[n] \in kinds
  BY <1>1 DEF PeekNext
<1>3. n - 1 \in c
  BY <1>1
<1> HIDE DEF n
<1>4. ~LineCommentAt(f, n) /\ ~BlockCommentAt(f, n) /\ ~WholeCommentAt(f, n)
  BY <1>2, Zenon DEF LineCommentAt, BlockCommentAt, WholeCommentAt, Starts
<1>5. \A m \in Landing(f, n) : m = n
  BY <1>4 DEF Landing
<1>6. n \in c
  <2>1. f[n] \notin Braces
    BY <1>2, OtherKinds
  <2>2. \A j \in c : j < Len(f) /\ f[j + 1] \notin Braces => j + 1 \in c
    BY DEF Level, Forward
  <2>3. n - 1 < Len(f) /\ (n - 1) + 1 = n
    BY <1>1, <1>2
  <2> QED BY <1>3, <2>1, <2>2, <2>3
<1>7. n \in 1 .. Len(f) + 1 /\ n <= Len(f)
  BY <1>1, <1>2
<1>8. Moved(s, n) \in Space(f) /\ Moved(s, n)[1] = n
  BY <1>1, <1>7, MovedState
<1>9. Moved(s, n) \in OnOther(f, c) \cap Reads(f, kinds)
  BY <1>2, <1>6, <1>7, <1>8 DEF OnOther, On, Reads
<1> QED BY <1>1, <1>5, <1>9 DEF Moves, Lands, n

(* No brace and no comment follows a dot or the sign of flags. *)
LEMMA NextMarked ==
  ASSUME NEW f \in Seq(Kinds), NEW c, Forward(f, c), Regular(f)
  PROVE  Moves(f, OnMark(f, c), ToMarked(f, c) \ Reads(f, Braces))
<1> SUFFICES ASSUME NEW s \in OnMark(f, c)
             PROVE  /\ s[1] <= Len(f)
                    /\ \A m \in Landing(f, s[1] + 1) :
                         Moved(s, m) \in ToMarked(f, c) \ Reads(f, Braces)
  BY Zenon DEF Moves, Lands
<1>1. s \in Space(f) /\ s[1] <= Len(f) /\ f[s[1]] \in Marks /\ Len(f) \in Nat
      /\ s[1] \in 1 .. Len(f) + 1 /\ s[1] \in c
  BY LenProperties, StateParts DEF OnMark, On, Reads
<1> DEFINE n == s[1] + 1
<1>2. n \in 1 .. Len(f) + 1 /\ f[n - 1] \in Marks /\ n - 1 \in c /\ n > 1
  BY <1>1
<1>3. s[1] \in 1 .. Len(f) /\ PeekNext(f, s[1]) \notin Braces \cup Starts
  BY <1>1 DEF Regular
<1>4. n <= Len(f) => f[n] \notin Braces \cup Starts
  <2>1. n <= Len(f) => PeekNext(f, s[1]) = f[n]
    BY <1>1 DEF PeekNext
  <2> QED BY <1>3, <2>1, Zenon
<1> HIDE DEF n
<1>5. ~LineCommentAt(f, n) /\ ~BlockCommentAt(f, n)
  BY <1>4, Zenon DEF LineCommentAt, BlockCommentAt, Starts
<1>6. ~WholeCommentAt(f, n)
  <2>1. n + 2 <= Len(f) => n <= Len(f)
    BY <1>1, <1>2
  <2> QED BY <1>4, <2>1, Zenon DEF WholeCommentAt, Starts
<1>7. \A m \in Landing(f, n) : m = n
  BY <1>5, <1>6 DEF Landing
<1>8. Moved(s, n) \in Space(f) /\ Moved(s, n)[1] = n
  BY <1>1, <1>2, MovedState
<1>9. n <= Len(f) => f[n] \notin Braces
  BY <1>4, Zenon
<1>10. Moved(s, n) \in ToMarked(f, c) \ Reads(f, Braces)
  BY <1>2, <1>8, <1>9 DEF ToMarked, To, Behind, Reads
<1> QED BY <1>1, <1>7, <1>10 DEF n

(* Behind the head of a method: if nextToken passes over a brace, no block *)
(* opens at the next token.                                                *)
LEMMA NextBrace ==
  ASSUME NEW f \in Seq(Kinds), NEW c, Level(f, c), Deep(f, c, 2), Regular(f)
  PROVE  Moves(f, EitherOther(f, c), ToBrace(f, c))
<1> SUFFICES ASSUME NEW s \in EitherOther(f, c)
             PROVE  IF s[1] <= Len(f)
                    THEN \A m \in Landing(f, s[1] + 1) : Moved(s, m) \in ToBrace(f, c)
                    ELSE s \in ToBrace(f, c)
  BY Zenon DEF Moves, Lands
<1>1. Len(f) \in Nat /\ s \in Space(f) /\ s[1] \in 1 .. Len(f) + 1 /\ c \subseteq 0 .. Len(f)
  BY LenProperties, StateParts DEF EitherOther, OnOther, ToOther, On, To, Level, Forward
<1>2. To(f, c) \subseteq ToBrace(f, c)
  <2> SUFFICES ASSUME NEW t \in To(f, c) PROVE t \in ToBrace(f, c)
    OBVIOUS
  <2>0. t \in Space(f) /\ t[1] - 1 \in c
    BY DEF To
  <2>1. t[1] - 1 \in Nat
    <3> DEFINE n == t[1] - 1
    <3>1. n \in c
      BY <2>0
    <3> HIDE DEF n
    <3>2. n \in Nat
      BY <3>1, <1>1
    <3> QED BY <3>2 DEF n
  <2>2. Nest(f, t[1] - 1) >= 2 /\ Nest(f, t[1] - 1) \in Int
    BY <2>0, <2>1, NestStep DEF Deep
  <2> QED BY <2>0, <2>2 DEF ToBrace
<1>3. CASE s \in On(f, c)
  <2>1. \A m \in Landing(f, s[1] + 1) : Moved(s, m) \in To(f, c)
    <3>1. s[1] <= Len(f)
      BY <1>1, <1>3 DEF On
    <3>2. Moves(f, On(f, c), To(f, c))
      BY MovesOn DEF Level
    <3> QED BY <3>1, <3>2, <1>3 DEF Moves, Lands
  <2>2. s[1] <= Len(f)
    BY <1>1, <1>3 DEF On
  <2> QED BY <1>2, <2>1, <2>2
<1>4. CASE s \in To(f, c) /\ s[1] > Len(f)
  BY <1>2, <1>4, <1>1
<1>5. CASE s \in To(f, c) /\ s[1] <= Len(f) /\ f[s[1]] \notin Braces
  <2>1. s[1] - 1 \in c /\ s[1] - 1 < Len(f) /\ (s[1] - 1) + 1 = s[1]
    BY <1>1, <1>5 DEF To
  <2>2. \A j \in c : j < Len(f) /\ f[j + 1] \notin Braces => j + 1 \in c
    BY DEF Level, Forward
  <2>3. s[1] \in c
    BY <2>1, <2>2, <1>5
  <2> QED BY <1>1, <1>3, <2>3 DEF On
<1>6. CASE s \in To(f, c) /\ s[1] <= Len(f) /\ f[s[1]] \in Braces
  <2> DEFINE n == s[1]
             e == {i \in 0 .. Len(f) : Nest(f, i) >= 1}
  <2>1. n \in 1 .. Len(f) /\ n - 1 \in c /\ f[n] \in Braces /\ n + 1 \in 1 .. Len(f) + 1
        /\ (n + 1) - 1 = n /\ n \in Nat \ {0}
    BY <1>1, <1>6 DEF To
  <2>2. Forward(f, e)
    <3>1. ASSUME NEW i \in e, i < Len(f), f[i + 1] \notin Braces
          PROVE  i + 1 \in e
      <4>1. i \in Nat /\ i + 1 \in 0 .. Len(f) /\ Nest(f, i) >= 1
        BY <1>1, <3>1
      <4>2. Nest(f, i + 1) = Nest(f, i)
        BY <4>1, <3>1, NestStep
      <4> QED BY <4>1, <4>2
    <3> QED BY <3>1 DEF Forward
  <2> HIDE DEF n
  <2>3. Nest(f, n) >= 1
    <3>1. Nest(f, n - 1) >= 2
      BY <2>1 DEF Deep
    <3>2. Opening(f, n) \/ Closing(f, n)
      BY <2>1, BraceKinds
    <3> QED BY <2>1, <3>1, <3>2, NestBack
  <2>4. n \in e
    BY <2>1, <2>3
  <2> HIDE DEF e
  <2>5. ASSUME NEW m \in Landing(f, n + 1)
        PROVE  Moved(s, m) \in ToBrace(f, c)
    <3>1. /\ m - 1 \in e /\ m \in n + 1 .. Len(f) + 1
          /\ \A i \in n + 1 .. m - 1 : f[i] \in Comments
      BY <2>1, <2>2, <2>4, LandsForward, Landed
    <3>2. m \in 1 .. Len(f) + 1
      BY <2>1, <3>1, <1>1
    <3>3. Moved(s, m) \in Space(f) /\ Moved(s, m)[1] = m
      BY <1>1, <3>2, MovedState
    <3>4. ASSUME m <= Len(f), Opening(f, m)
          PROVE  FALSE
      <4>1. m \in n + 1 .. Len(f)
        BY <3>1, <3>4, <1>1
      <4>2. Nest(f, n) = 0
        BY <2>1, <3>1, <3>4, <4>1 DEF Regular
      <4> QED BY <4>2, <2>3
    <3>5. Nest(f, m - 1) >= 1
      BY <3>1 DEF e
    <3> QED BY <3>3, <3>4, <3>5 DEF ToBrace
  <2> QED BY <1>6, <2>5 DEF n
<1>7. s \in On(f, c) \/ s \in To(f, c)
  BY Zenon DEF EitherOther, OnOther, ToOther
<1>8. s[1] > Len(f) \/ s[1] <= Len(f)
  BY <1>1
<1> QED BY <1>3, <1>4, <1>5, <1>6, <1>7, <1>8

(* Which of these sets contain which, within a level. *)
LEMMA Inclusions ==
  ASSUME NEW f \in Seq(Kinds), NEW c, Level(f, c)
  PROVE  /\ On(f, c) \subseteq Either(f, c) /\ To(f, c) \subseteq Either(f, c)
         /\ OnOther(f, c) \subseteq On(f, c) /\ OnOther(f, c) \subseteq To(f, c)
         /\ OnOther(f, c) \subseteq Either(f, c) /\ OnOther(f, c) \subseteq EitherOther(f, c)
         /\ ToOther(f, c) \subseteq To(f, c) /\ ToOther(f, c) \subseteq Either(f, c)
         /\ ToOther(f, c) \subseteq EitherOther(f, c)
         /\ EitherOther(f, c) \subseteq Either(f, c)
         /\ OnMark(f, c) \subseteq OnOther(f, c) /\ ToMarked(f, c) \subseteq ToOther(f, c)
         /\ OnBracket(f, c) \subseteq OnOther(f, c) /\ OnBracket(f, c) \subseteq OnFirst(f, c)
         /\ OnBracket(f, c) \subseteq On(f, c)
         /\ OnNode(f, c) \subseteq On(f, c) /\ ToNode(f, c) \subseteq To(f, c)
         /\ OnFirst(f, c) \subseteq On(f, c) /\ ToFirst(f, c) \subseteq To(f, c)
         /\ OnNode(f, c) \subseteq Either(f, c)
         /\ ToSaved(f, c) \subseteq To(f, c)
<1>1. OnOther(f, c) \subseteq To(f, c)
  <2> SUFFICES ASSUME NEW s \in OnOther(f, c) PROVE s \in To(f, c)
    OBVIOUS
  <2>0. s \in Space(f) /\ s[1] \in c /\ s[1] <= Len(f) /\ f[s[1]] \in Others
    BY DEF OnOther, On, Reads
  <2>1. s[1] \in 1 .. Len(f) /\ f[s[1]] \notin Braces
    <3>1. s[1] \in 1 .. Len(f)
      BY <2>0, LenProperties, StateParts
    <3>2. f[s[1]] \notin Braces
      BY <2>0, OtherKinds, Zenon
    <3> QED BY <3>1, <3>2
  <2>2. s[1] - 1 \in c
    BY <2>0, <2>1 DEF Level
  <2> QED BY <2>0, <2>1, <2>2 DEF To
<1>2. \A j, k : j \subseteq k =>
        Reads(f, j) \subseteq Reads(f, k) /\ Behind(f, j) \subseteq Behind(f, k)
  BY DEF Reads, Behind
<1>3. /\ Reads(f, Marks) \subseteq Reads(f, Others)
      /\ Behind(f, Marks) \subseteq Behind(f, Others)
      /\ Reads(f, {"]"}) \subseteq Reads(f, Others) /\ Reads(f, {"]"}) \subseteq Reads(f, Openers)
  BY <1>2, OtherKinds, Zenon
<1> QED BY <1>1, <1>3, Zenon DEF Either, OnOther, ToOther, EitherOther, OnMark, ToMarked,
           OnBracket,
     OnNode, ToNode, OnFirst, ToFirst, ToSaved

(* A token that is no brace, and is asked for. *)
LEMMA PassesOther ==
  ASSUME NEW f \in Seq(Kinds), NEW c, NEW kinds, kinds \subseteq Others
  PROVE  /\ Forward(f, c) => To(f, c) \cap Reads(f, kinds) \subseteq OnOther(f, c)
         /\ Level(f, c) => /\ Either(f, c) \cap Reads(f, kinds) \subseteq OnOther(f, c)
                           /\ Either(f, c) \cap Reads(f, kinds) \subseteq To(f, c)
<1>1. ASSUME Forward(f, c), NEW s \in To(f, c), s \in Reads(f, kinds)
      PROVE  s \in OnOther(f, c)
  <2>1. s \in Space(f) /\ s[1] - 1 \in c /\ s[1] <= Len(f) /\ f[s[1]] \in Others
        /\ s[1] \in 1 .. Len(f) + 1 /\ Len(f) \in Nat
    BY <1>1, StateParts, LenProperties DEF To, Reads
  <2>2. \A j \in c : j < Len(f) /\ f[j + 1] \notin Braces => j + 1 \in c
    BY <1>1 DEF Forward
  <2>3. (s[1] - 1) + 1 = s[1] /\ s[1] - 1 < Len(f) /\ f[s[1]] \notin Braces
    <3>1. f[s[1]] \notin Braces
      BY <2>1, OtherKinds, Zenon
    <3> QED BY <2>1, <3>1
  <2>4. s[1] \in c
    BY <2>1, <2>2, <2>3
  <2> QED BY <2>1, <2>4 DEF OnOther, On, Reads
<1>2. ASSUME NEW s \in On(f, c), s \in Reads(f, kinds)
      PROVE  s \in OnOther(f, c)
  BY <1>2 DEF OnOther, Reads
<1>3. ASSUME Level(f, c)
      PROVE  Either(f, c) \cap Reads(f, kinds) \subseteq OnOther(f, c)
  BY <1>1, <1>2, <1>3 DEF Either, Level
<1> QED BY <1>1, <1>3, Inclusions

(* A brace that is asked for. *)
LEMMA PassesOpening ==
  ASSUME NEW f \in Seq(Kinds), NEW c
  PROVE  /\ To(f, c) \cap Reads(f, {"{"}) \subseteq OnFirst(f, Opened(f, c))
         /\ Level(f, c) => EitherOther(f, c) \cap Reads(f, {"{"}) \subseteq To(f, c)
         /\ ToBrace(f, c) \cap Reads(f, {"{"}) \subseteq To(f, c)
<1> DEFINE r == Reads(f, {"{"})
<1>1. ASSUME NEW s \in r
      PROVE  /\ s \in Space(f) /\ Opening(f, s[1])
             /\ s \in Reads(f, Openers) /\ s \notin Reads(f, Others)
             /\ s[1] <= Len(f) /\ s[1] \in 1 .. Len(f)
  <2>1. s \in Space(f) /\ s[1] <= Len(f) /\ f[s[1]] = "{"
    BY Zenon DEF Reads
  <2>2. Opening(f, s[1]) /\ f[s[1]] \in Openers /\ f[s[1]] \notin Others
    BY <2>1, Zenon DEF Opening, Openers, Others, Braces
  <2>3. s[1] \in 1 .. Len(f) + 1
    BY <2>1, StateParts
  <2>4. s[1] \in 1 .. Len(f)
    <3>1. Len(f) \in Nat /\ s[1] <= Len(f)
      BY <2>1, LenProperties, Zenon
    <3> HIDE DEF r
    <3> QED BY <3>1, <2>3, SMT
  <2> QED BY <2>1, <2>2, <2>4, Zenon DEF Reads
<1> HIDE DEF r
<1>2. ASSUME NEW s \in r, s \in To(f, c)
      PROVE  s \in OnFirst(f, Opened(f, c))
  <2>1. s[1] - 1 \in c
    BY <1>2 DEF To
  <2>2. s[1] \in Opened(f, c)
    BY <1>1, <2>1, BlockOpens
  <2> QED BY <1>1, <2>2 DEF OnFirst, On
<1>3. ASSUME NEW s \in r, s \in EitherOther(f, c)
      PROVE  s \in To(f, c)
  BY <1>1, <1>3, Zenon DEF EitherOther, OnOther, ToOther
<1>4. ASSUME NEW s \in r, s \in ToBrace(f, c)
      PROVE  s \in To(f, c)
  BY <1>1, <1>4 DEF ToBrace, To
<1>5. r = Reads(f, {"{"})
  BY DEF r
<1> QED BY <1>2, <1>3, <1>4, <1>5, Zenon

(* The end of a block. *)
LEMMA PassesClosing ==
  ASSUME NEW f \in Seq(Kinds), NEW c, NEW o, Encloses(f, c, o)
  PROVE  /\ AtEnd(f, c) \subseteq On(f, o) /\ Ending(f, c, o) \subseteq On(f, o)
         /\ Ending(f, c, o) \cap Reads(f, {"}"}) \subseteq AtEnd(f, c)
<1>1. ASSUME NEW s \in AtEnd(f, c)
      PROVE  s \in On(f, o)
  <2>1. s \in Space(f) /\ s[1] - 1 \in c /\ s[1] <= Len(f) /\ Closing(f, s[1])
    BY Zenon DEF AtEnd, To, Reads, Closing
  <2>2. s[1] \in 1 .. Len(f)
    BY <2>1, StateParts, LenProperties
  <2> QED BY <2>1, <2>2 DEF Encloses, On
<1>2. Reads(f, {";"}) \cap Reads(f, {"}"}) = {}
  BY Zenon DEF Reads
<1> QED BY <1>1, <1>2, Zenon DEF Ending, AtEnd

(* The end of a statement. *)
LEMMA PassesSemicolon ==
  ASSUME NEW f \in Seq(Kinds), NEW c, NEW o, Level(f, c), Level(f, o)
  PROVE  /\ ToNode(f, c) \cap Reads(f, {";"}) \subseteq OnNode(f, c)
         /\ ToStray(f, o) \cap Reads(f, {";"}) \subseteq Done(f, c, o)
<1>1. {";"} \subseteq Others
  BY OtherKinds, Zenon
<1>2. /\ To(f, c) \cap Reads(f, {";"}) \subseteq On(f, c)
      /\ To(f, o) \cap Reads(f, {";"}) \subseteq On(f, o)
  BY <1>1, PassesOther, Inclusions, Zenon DEF Level
<1>3. Stray(f) \cap Valued(f) = {}
  BY Zenon DEF Stray, Valued
<1> QED BY <1>2, <1>3, Zenon DEF ToNode, OnNode, ToStray, Done, Ending

(* Where the end of the tokens is not read. *)
LEMMA SafeSets ==
  ASSUME NEW f \in Seq(Kinds), NEW c, c \subseteq 0 .. Len(f)
  PROVE  /\ Deep(f, c, 1) => Safe(f, Either(f, c))
         /\ Safe(f, On(f, c)) /\ Safe(f, ToOther(f, c)) /\ Safe(f, ToBrace(f, c))
         /\ Safe(f, ToStray(f, c)) /\ \A kinds : Safe(f, Reads(f, kinds))
<1>1. Len(f) \in Nat
  BY LenProperties
<1>2. \A kinds : Safe(f, Reads(f, kinds))
  BY <1>1 DEF Safe, Reads
<1>3. Safe(f, On(f, c))
  BY <1>1 DEF Safe, On
<1>4. ASSUME Deep(f, c, 1)
      PROVE  Safe(f, Either(f, c))
  <2> SUFFICES ASSUME NEW s \in To(f, c), s[1] = Len(f) + 1 PROVE Broken(f)
    BY <1>3 DEF Safe, Either
  <2>1. Len(f) \in c
    <3>1. s[1] - 1 \in c
      BY DEF To
    <3> QED BY <3>1, <1>1
  <2>2. Nest(f, Len(f)) >= 1
    BY <2>1, <1>4 DEF Deep
  <2> QED BY <2>2 DEF Broken
<1>5. Safe(f, ToOther(f, c))
  <2> SUFFICES ASSUME NEW s \in ToOther(f, c), s[1] = Len(f) + 1 PROVE Broken(f)
    BY DEF Safe
  <2>1. f[s[1] - 1] \in Others
    BY DEF ToOther, Behind
  <2>2. s[1] - 1 = Len(f)
    BY <1>1
  <2>3. ~Closing(f, Len(f))
    BY <2>1, <2>2, OtherKinds, BraceKinds
  <2> QED BY <2>3 DEF Broken
<1>6. Safe(f, ToBrace(f, c))
  <2> SUFFICES ASSUME NEW s \in ToBrace(f, c), s[1] = Len(f) + 1 PROVE Broken(f)
    BY DEF Safe
  <2>1. Nest(f, s[1] - 1) >= 1
    BY DEF ToBrace
  <2>2. s[1] - 1 = Len(f)
    BY <1>1
  <2> QED BY <2>1, <2>2 DEF Broken
<1>7. Safe(f, ToStray(f, c))
  BY DEF Safe, ToStray, Stray, Broken
<1> QED BY <1>2, <1>3, <1>4, <1>5, <1>6, <1>7

-----------------------------------------------------------------------------
(***************************************************************************)
(* What an entry of todo needs of where the parser is, l, and what it      *)
(* makes sure of in return, k.  Within a level c of its own an entry that  *)
(* calls a function may begin anywhere in the set that is named first and  *)
(* ends in the set that is named last.                                     *)
(***************************************************************************)
EitherToOn == {"instance", "msgInstance", "message", "argument", "lhs"}
OnToOn == {"addParam", "messageColon", "returnTypes", "moreReturnTypes",
           "expressionOfGroup", "variableName"}
OnToNode == {"send", "sendToGroup", "returnExpression"}
EitherToNode == {"group", "variableDef"}
EitherToOther == {"param", "returns"}
ToOtherToOther == {"messageName", "paramComma"}
ToOtherToEither == {"messageParams", "messageParam"}
FirstToEnding == {"messageStatements", "fragmentBody", "statements", "firstStatement"}
FirstToDone == {"statement", "statementKind"}
NamespaceNames == {"namespace", "namespaceBody", "moreNamespaces", "nextNamespace"}
BlockStates == {"CLASS", "RECORD", "MESSAGE_BLOCK"}

ToBlock(f, c) == To(f, c) \cap Reads(f, {"{", "@"})
Result(s, d) == <<s[1], s[2], IF d = "same" THEN s[3] ELSE d>>
EndsBlock(f, h, q) ==
  \E p \in h .. q : Matched(f, p, q) /\ \A i \in h .. p - 1 : ~Opening(f, i)
Leads(l, pre, post, k) == l \subseteq pre /\ post \subseteq k

FitsWithin(f, c, d, l, k) ==
  /\ d \in EitherToOn => Leads(l, Either(f, c), On(f, c), k)
  /\ d = "expression" => \/ Leads(l, Either(f, c), On(f, c), k)
                         \/ Leads(l, Either(f, c) \cap Reads(f, {"x", "("}), OnNode(f, c), k)
  /\ d \in OnToOn => Leads(l, On(f, c), On(f, c), k)
  /\ d \in OnToNode => Leads(l, On(f, c), OnNode(f, c), k)
  /\ d \in EitherToNode => Leads(l, Either(f, c), OnNode(f, c), k)
  /\ d \in EitherToOther => Leads(l, Either(f, c), OnOther(f, c), k)
  /\ d \in ToOtherToOther => Leads(l, ToOther(f, c), ToOther(f, c), k)
  /\ d \in ToOtherToEither => Leads(l, ToOther(f, c), EitherOther(f, c), k)
  /\ d = "messageDecl" => Leads(l, Either(f, c), EitherOther(f, c), k)
  /\ d = "messageReturns" => Leads(l, EitherOther(f, c), EitherOther(f, c), k)
  /\ d = "messageBlock" => Leads(l, To(f, c), On(f, c), k)
  /\ d = "type" => Leads(l, On(f, c), OnOther(f, c), k)
  /\ d = "typeDot" => Leads(l, OnOther(f, c), OnOther(f, c), k)
  /\ d = "nameComponent" => Leads(l, ToMarked(f, c) \ Reads(f, Braces), On(f, c), k)
  /\ d = "closeParen" => Leads(l, On(f, c), Either(f, c), k)
  /\ d = "definitionOrExpression" => Leads(l, ToSaved(f, c), OnNode(f, c), k)
  /\ d \in {"class", "record"} => Leads(l, To(f, c), OnNode(f, c), k)
  /\ d = "recordMember" => Leads(l, To(f, c), AtEnd(f, c), k)
  /\ d = "classMember" => Deep(f, c, 2) /\ Leads(l, To(f, c), AtEnd(f, c), k)

FitsBlock(f, c, o, d, l, k) ==
  /\ d = "scopeMember" => Leads(l, To(f, c), To(f, o), k)
  /\ d \in FirstToEnding => Leads(l, ToFirst(f, c), Ending(f, c, o), k)
  /\ d \in FirstToDone => Leads(l, ToFirst(f, c), Done(f, c, o), k)
  /\ d = "moreStatements" => Leads(l, Done(f, c, o), Ending(f, c, o), k)
  /\ d = "nextStatement" => Leads(l, To(f, c), Ending(f, c, o), k)

FitsFlags(f, c, d, l, k) ==
  /\ d = "flags" => Leads(l, To(f, c), OnBracket(f, c), k)
  /\ d = "flagList" => Leads(l, ToMarked(f, c) \ Reads(f, Braces), OnBracket(f, c), k)
  /\ d = "flag" => Leads(l, ToOther(f, c), OnBracket(f, c), k)

FitsOutside(f, c, d, l, k) ==
  /\ d \in {"fragment", "module"} => Leads(l, To(f, c), On(f, c), k)
  /\ d = "version" => Leads(l, ToOther(f, c), ToOther(f, c), k)
  /\ d = "fragmentFlags" =>
       Leads(l, ToBlock(f, c), OnFirst(f, Opened(f, c)), k)
  /\ d = "begin" => l \subseteq To(f, c) /\ \A s \in l : s[1] = 1
  /\ d = "start" => l \subseteq To(f, c)
  /\ d = "again" => l \subseteq On(f, c)

WithinNames ==
  EitherToOn \cup OnToOn \cup OnToNode \cup EitherToNode \cup EitherToOther
    \cup ToOtherToOther \cup ToOtherToEither
    \cup {"expression", "messageDecl", "messageReturns", "messageBlock", "type", "typeDot",
          "nameComponent", "closeParen", "definitionOrExpression", "class", "record",
          "recordMember", "classMember"}
BlockNames == FirstToEnding \cup FirstToDone \cup {"scopeMember", "moreStatements",
                                                   "nextStatement"}
FlagNames == {"flags", "flagList", "flag"}
OutsideNames == {"fragment", "module", "version", "fragmentFlags", "begin", "start", "again"}

Nested(f, c, o) == Inner(f, c) /\ Level(f, o) /\ Encloses(f, c, o)

Fits(f, e, l, k) ==
  /\ e.do \notin ReadsNothing => Safe(f, l)
  /\ e.do \notin NamespaceNames
  /\ e.do = "nextToken" => Moves(f, l, k)
  /\ e.do = "comment" => \A s \in l : s[1] <= Len(f) /\ Lands(f, s, s[1], k)
  /\ e.do = "verify" => l \cap Reads(f, e.kinds) \subseteq k
  /\ e.do \in {"verifyLast", "closureContext"} => l \subseteq k
  /\ e.do = "leave" => \A s \in l : /\ Result(s, e.result) \in k
                                    /\ e.state \in BlockStates => EndsBlock(f, e.from, s[1])
  /\ e.do \in WithinNames => \E c : Inner(f, c) /\ FitsWithin(f, c, e.do, l, k)
  /\ e.do = "inherits" => \E c : /\ Forward(f, c) /\ Deep(f, c, 1)
                                   /\ Leads(l, To(f, c), To(f, c), k)
  /\ e.do \in BlockNames => \E c, o : Nested(f, c, o) /\ FitsBlock(f, c, o, e.do, l, k)
  /\ e.do \in FlagNames => \E c : Level(f, c) /\ FitsFlags(f, c, e.do, l, k)
  /\ e.do \in OutsideNames => FitsOutside(f, Outside(f), e.do, l, k)

(* A way through the entries t that begins in l and ends in k. *)
Run(f, t, l, k) ==
  \E g : /\ l \subseteq g[1] /\ g[Len(t) + 1] \subseteq k
         /\ \A i \in 1 .. Len(t) : Fits(f, t[i], g[i], g[i + 1])
-----------------------------------------------------------------------------
(* More to start from and less to come to is not needed. *)
LEMMA RunWeaker ==
  ASSUME NEW f, NEW t, NEW l, NEW k, NEW x, NEW y, Run(f, t, l, k), x \subseteq l, k \subseteq y
  PROVE  Run(f, t, x, y)
BY DEF Run

(* The same of one entry. *)
LEMMA LeadsWeaker ==
  ASSUME NEW l, NEW k, NEW x, NEW y, x \subseteq l, k \subseteq y, NEW pre, NEW post,
         Leads(l, pre, post, k)
  PROVE  Leads(x, pre, post, y)
BY DEF Leads

(* An entry fits from less, and ensures what is weaker. *)
LEMMA FitsWeaker ==
  ASSUME NEW f, NEW e, NEW l, NEW k, NEW x, NEW y, Fits(f, e, l, k), x \subseteq l,
         k \subseteq y
  PROVE  Fits(f, e, x, y)
<1>1. \A c, d : FitsWithin(f, c, d, l, k) => FitsWithin(f, c, d, x, y)
  BY LeadsWeaker DEF FitsWithin
<1>2. \A c, o, d : FitsBlock(f, c, o, d, l, k) => FitsBlock(f, c, o, d, x, y)
  BY LeadsWeaker DEF FitsBlock
<1>3. \A c, d : FitsFlags(f, c, d, l, k) => FitsFlags(f, c, d, x, y)
  BY LeadsWeaker DEF FitsFlags
<1>4. ASSUME NEW c, NEW d, FitsOutside(f, c, d, l, k)
      PROVE  FitsOutside(f, c, d, x, y)
  BY <1>4, LeadsWeaker DEF FitsOutside
<1>5. /\ \A c : Leads(l, To(f, c), To(f, c), k) => Leads(x, To(f, c), To(f, c), y)
      /\ Safe(f, l) => Safe(f, x)
      /\ Moves(f, l, k) => Moves(f, x, y)
      /\ \A s, n : Lands(f, s, n, k) => Lands(f, s, n, y)
      /\ \A kinds : l \cap Reads(f, kinds) \subseteq k => x \cap Reads(f, kinds) \subseteq y
      /\ l \subseteq k => x \subseteq y
  BY LeadsWeaker, MovesWeaker DEF Safe, Lands
<1> QED BY <1>1, <1>2, <1>3, <1>4, <1>5, ZenonT(60) DEF Fits

(* Nothing to do. *)
LEMMA RunNone ==
  ASSUME NEW f, NEW l
  PROVE  Run(f, <<>>, l, l)
<1> DEFINE g == [i \in {1} |-> l]
<1>1. l \subseteq g[1] /\ g[Len(<<>>) + 1] \subseteq l
  OBVIOUS
<1>2. \A i \in 1 .. Len(<<>>) : Fits(f, (<<>>)[i], g[i], g[i + 1])
  OBVIOUS
<1> QED BY <1>1, <1>2 DEF Run

(* One thing to do. *)
LEMMA RunOne ==
  ASSUME NEW f, NEW e, NEW l, NEW k, Fits(f, e, l, k)
  PROVE  Run(f, <<e>>, l, k)
<1> DEFINE g == [i \in {1, 2} |-> IF i = 1 THEN l ELSE k]
<1>1. g[1] = l /\ g[2] = k /\ Len(<<e>>) = 1 /\ (<<e>>)[1] = e
  OBVIOUS
<1> HIDE DEF g
<1>2. \A i \in 1 .. Len(<<e>>) : i = 1
  OBVIOUS
<1>3. \A i \in 1 .. Len(<<e>>) : Fits(f, (<<e>>)[i], g[i], g[i + 1])
  BY <1>1, <1>2
<1>4. l \subseteq g[1] /\ g[Len(<<e>>) + 1] \subseteq k
  BY <1>1
<1> QED BY <1>3, <1>4 DEF Run

(* One after the other. *)
LEMMA RunJoined ==
  ASSUME NEW f, NEW s \in Seq(Entries), NEW t \in Seq(Entries), NEW l, NEW m, NEW k,
         Run(f, s, l, m), Run(f, t, m, k)
  PROVE  Run(f, s \o t, l, k)
<1>1. PICK g : /\ l \subseteq g[1] /\ g[Len(s) + 1] \subseteq m
               /\ \A i \in 1 .. Len(s) : Fits(f, s[i], g[i], g[i + 1])
  BY DEF Run
<1>2. PICK h : /\ m \subseteq h[1] /\ h[Len(t) + 1] \subseteq k
               /\ \A i \in 1 .. Len(t) : Fits(f, t[i], h[i], h[i + 1])
  BY DEF Run
<1> DEFINE n == Len(s)
           j == [i \in 1 .. n + Len(t) + 1 |-> IF i <= n THEN g[i] ELSE h[i - n]]
<1>3. /\ n \in Nat /\ Len(t) \in Nat /\ Len(s \o t) = n + Len(t)
      /\ \A i \in 1 .. n : (s \o t)[i] = s[i]
      /\ \A i \in 1 .. Len(t) : (s \o t)[i + n] = t[i]
  BY LenProperties, ConcatProperties
<1>4. /\ \A i \in 1 .. n : j[i] = g[i]
      /\ \A i \in 1 .. Len(t) + 1 : j[i + n] = h[i]
  BY <1>3
<1> HIDE DEF j
<1>5. ASSUME NEW i \in 1 .. n
      PROVE  Fits(f, (s \o t)[i], j[i], j[i + 1])
  <2>1. Fits(f, s[i], g[i], g[i + 1])
    BY <1>1
  <2>2. CASE i = n
    <3>1. j[i + 1] = h[1] /\ g[i + 1] \subseteq m
      BY <1>1, <1>3, <1>4, <2>2
    <3>2. g[i + 1] \subseteq j[i + 1]
      BY <1>2, <3>1
    <3> QED BY <1>3, <1>4, <2>1, <3>2, FitsWeaker
  <2>3. CASE i # n
    <3>1. i + 1 \in 1 .. n
      BY <1>3, <2>3
    <3> QED BY <1>3, <1>4, <2>1, <3>1
  <2> QED BY <2>2, <2>3
<1>6. ASSUME NEW i \in 1 .. Len(t)
      PROVE  Fits(f, (s \o t)[i + n], j[i + n], j[(i + n) + 1])
  <2>1. i + 1 \in 1 .. Len(t) + 1 /\ (i + n) + 1 = (i + 1) + n /\ i \in 1 .. Len(t) + 1
    BY <1>3
  <2>2. Fits(f, t[i], h[i], h[i + 1])
    BY <1>2
  <2> QED BY <1>3, <1>4, <2>1, <2>2, SMTT(40)
<1>7. ASSUME NEW i \in 1 .. Len(s \o t)
      PROVE  Fits(f, (s \o t)[i], j[i], j[i + 1])
  <2>1. CASE i <= n
    BY <1>3, <1>5, <2>1
  <2>2. CASE i > n
    <3>1. i - n \in 1 .. Len(t) /\ (i - n) + n = i
      BY <1>3, <2>2
    <3> QED BY <1>6, <3>1
  <2> QED BY <1>3, <2>1, <2>2
<1>8. l \subseteq j[1] /\ j[Len(s \o t) + 1] \subseteq k
  <2>1. CASE n = 0
    <3>1. j[1] = h[1] /\ g[1] \subseteq m
      BY <1>1, <1>3, <1>4, <2>1
    <3> QED BY <1>1, <1>2, <1>3, <1>4, <2>1, <3>1
  <2>2. CASE n # 0
    <3>1. 1 \in 1 .. n /\ (n + Len(t)) + 1 = (Len(t) + 1) + n
      BY <1>3, <2>2
    <3> QED BY <1>1, <1>2, <1>3, <1>4, <3>1
  <2> QED BY <2>1, <2>2
<1> QED BY <1>7, <1>8 DEF Run

(* The first thing to do, and the others. *)
LEMMA RunFirst ==
  ASSUME NEW f, NEW t \in Seq(Entries), t # <<>>, NEW l, NEW k, Run(f, t, l, k)
  PROVE  \E m : Fits(f, Head(t), l, m) /\ Run(f, Tail(t), m, k)
<1>1. PICK g : /\ l \subseteq g[1] /\ g[Len(t) + 1] \subseteq k
               /\ \A i \in 1 .. Len(t) : Fits(f, t[i], g[i], g[i + 1])
  BY DEF Run
<1> DEFINE u == Tail(t)
           n == Len(t)
           h == [i \in 1 .. n |-> g[i + 1]]
<1>2. /\ n \in Nat \ {0} /\ Head(t) = t[1] /\ Len(u) = n - 1
      /\ \A i \in 1 .. n - 1 : u[i] = t[i + 1]
  BY LenProperties, EmptySeq, HeadTailProperties
<1>3. Fits(f, Head(t), l, g[2])
  <2>1. Fits(f, t[1], g[1], g[2])
    BY <1>1, <1>2
  <2> QED BY <1>1, <1>2, <2>1, FitsWeaker
<1> HIDE DEF u
<1>4. ASSUME NEW i \in 1 .. Len(u)
      PROVE  Fits(f, u[i], h[i], h[i + 1])
  <2>1. i + 1 \in 1 .. n /\ i \in 1 .. n
    BY <1>2
  <2>2. Fits(f, t[i + 1], g[i + 1], g[(i + 1) + 1])
    BY <1>1, <2>1
  <2> QED BY <1>2, <2>1, <2>2
<1>5. g[2] \subseteq h[1] /\ h[Len(u) + 1] \subseteq k
  <2>1. 1 \in 1 .. n /\ Len(u) + 1 = n /\ n \in 1 .. n
    BY <1>2
  <2> QED BY <1>1, <2>1
<1> HIDE DEF h, n
<1>6. Run(f, u, g[2], k)
  BY <1>4, <1>5 DEF Run
<1> QED BY <1>3, <1>6 DEF u
(* Two things to do. *)
LEMMA RunTwo ==
  ASSUME NEW f, NEW l, NEW k, NEW m1,
         NEW a, NEW b,
         Fits(f, a, l, m1), Fits(f, b, m1, k)
  PROVE  Run(f, <<a, b>>, l, k)
<1> DEFINE t == <<a, b>>
           g == <<l, m1, k>>
<1>1. Len(t) = 2 /\ t[1] = a /\ t[2] = b
  OBVIOUS
<1>2. g[1] = l /\ g[2] = m1 /\ g[3] = k
  OBVIOUS
<1> HIDE DEF t, g
<1>3. \A x \in 1 .. Len(t) : x = 1 \/ x = 2
  BY <1>1
<1>4. \A x \in 1 .. Len(t) : Fits(f, t[x], g[x], g[x + 1])
  BY <1>1, <1>2, <1>3
<1>5. l \subseteq g[1] /\ g[Len(t) + 1] \subseteq k
  BY <1>1, <1>2
<1>6. Run(f, t, l, k)
  BY <1>4, <1>5 DEF Run
<1> QED BY <1>6 DEF t

(* Three things to do. *)
LEMMA RunThree ==
  ASSUME NEW f, NEW l, NEW k, NEW m1, NEW m2,
         NEW a, NEW b, NEW c,
         Fits(f, a, l, m1), Fits(f, b, m1, m2), Fits(f, c, m2, k)
  PROVE  Run(f, <<a, b, c>>, l, k)
<1> DEFINE t == <<a, b, c>>
           g == <<l, m1, m2, k>>
<1>1. Len(t) = 3 /\ t[1] = a /\ t[2] = b /\ t[3] = c
  OBVIOUS
<1>2. g[1] = l /\ g[2] = m1 /\ g[3] = m2 /\ g[4] = k
  OBVIOUS
<1> HIDE DEF t, g
<1>3. \A x \in 1 .. Len(t) : x = 1 \/ x = 2 \/ x = 3
  BY <1>1
<1>4. \A x \in 1 .. Len(t) : Fits(f, t[x], g[x], g[x + 1])
  BY <1>1, <1>2, <1>3
<1>5. l \subseteq g[1] /\ g[Len(t) + 1] \subseteq k
  BY <1>1, <1>2
<1>6. Run(f, t, l, k)
  BY <1>4, <1>5 DEF Run
<1> QED BY <1>6 DEF t

(* Four. *)
LEMMA RunFour ==
  ASSUME NEW f, NEW l, NEW k, NEW m1, NEW m2, NEW m3,
         NEW a, NEW b, NEW c, NEW d,
         Fits(f, a, l, m1), Fits(f, b, m1, m2), Fits(f, c, m2, m3),
         Fits(f, d, m3, k)
  PROVE  Run(f, <<a, b, c, d>>, l, k)
<1> DEFINE t == <<a, b, c, d>>
           g == <<l, m1, m2, m3, k>>
<1>1. Len(t) = 4 /\ t[1] = a /\ t[2] = b /\ t[3] = c /\ t[4] = d
  OBVIOUS
<1>2. g[1] = l /\ g[2] = m1 /\ g[3] = m2 /\ g[4] = m3 /\ g[5] = k
  OBVIOUS
<1> HIDE DEF t, g
<1>3. \A x \in 1 .. Len(t) : x = 1 \/ x = 2 \/ x = 3 \/ x = 4
  BY <1>1
<1>4. \A x \in 1 .. Len(t) : Fits(f, t[x], g[x], g[x + 1])
  BY <1>1, <1>2, <1>3
<1>5. l \subseteq g[1] /\ g[Len(t) + 1] \subseteq k
  BY <1>1, <1>2
<1>6. Run(f, t, l, k)
  BY <1>4, <1>5 DEF Run
<1> QED BY <1>6 DEF t

(* Five. *)
LEMMA RunFive ==
  ASSUME NEW f, NEW l, NEW k, NEW m1, NEW m2, NEW m3, NEW m4,
         NEW a, NEW b, NEW c, NEW d, NEW e,
         Fits(f, a, l, m1), Fits(f, b, m1, m2), Fits(f, c, m2, m3),
         Fits(f, d, m3, m4), Fits(f, e, m4, k)
  PROVE  Run(f, <<a, b, c, d, e>>, l, k)
<1> DEFINE t == <<a, b, c, d, e>>
           g == <<l, m1, m2, m3, m4, k>>
<1>1. Len(t) = 5 /\ t[1] = a /\ t[2] = b /\ t[3] = c /\ t[4] = d /\ t[5] = e
  OBVIOUS
<1>2. g[1] = l /\ g[2] = m1 /\ g[3] = m2 /\ g[4] = m3 /\ g[5] = m4 /\ g[6] = k
  OBVIOUS
<1> HIDE DEF t, g
<1>3. \A x \in 1 .. Len(t) : x = 1 \/ x = 2 \/ x = 3 \/ x = 4 \/ x = 5
  BY <1>1
<1>4. \A x \in 1 .. Len(t) : Fits(f, t[x], g[x], g[x + 1])
  BY <1>1, <1>2, <1>3
<1>5. l \subseteq g[1] /\ g[Len(t) + 1] \subseteq k
  BY <1>1, <1>2
<1>6. Run(f, t, l, k)
  BY <1>4, <1>5 DEF Run
<1> QED BY <1>6 DEF t

(* Six. *)
LEMMA RunSix ==
  ASSUME NEW f, NEW l, NEW k, NEW m1, NEW m2, NEW m3, NEW m4, NEW m5,
         NEW a, NEW b, NEW c, NEW d, NEW e, NEW i,
         Fits(f, a, l, m1), Fits(f, b, m1, m2), Fits(f, c, m2, m3),
         Fits(f, d, m3, m4), Fits(f, e, m4, m5), Fits(f, i, m5, k)
  PROVE  Run(f, <<a, b, c, d, e, i>>, l, k)
<1> DEFINE t == <<a, b, c, d, e, i>>
           g == <<l, m1, m2, m3, m4, m5, k>>
<1>1. Len(t) = 6 /\ t[1] = a /\ t[2] = b /\ t[3] = c /\ t[4] = d /\ t[5] = e /\ t[6] = i
  OBVIOUS
<1>2. g[1] = l /\ g[2] = m1 /\ g[3] = m2 /\ g[4] = m3 /\ g[5] = m4 /\ g[6] = m5 /\ g[7] = k
  OBVIOUS
<1> HIDE DEF t, g
<1>3. \A x \in 1 .. Len(t) : x = 1 \/ x = 2 \/ x = 3 \/ x = 4 \/ x = 5 \/ x = 6
  BY <1>1
<1>4. \A x \in 1 .. Len(t) : Fits(f, t[x], g[x], g[x + 1])
  BY <1>1, <1>2, <1>3
<1>5. l \subseteq g[1] /\ g[Len(t) + 1] \subseteq k
  BY <1>1, <1>2
<1>6. Run(f, t, l, k)
  BY <1>4, <1>5 DEF Run
<1> QED BY <1>6 DEF t

(* Seven. *)
LEMMA RunSeven ==
  ASSUME NEW f, NEW l, NEW k, NEW m1, NEW m2, NEW m3, NEW m4, NEW m5, NEW m6,
         NEW a, NEW b, NEW c, NEW d, NEW e, NEW i, NEW j,
         Fits(f, a, l, m1), Fits(f, b, m1, m2), Fits(f, c, m2, m3),
         Fits(f, d, m3, m4), Fits(f, e, m4, m5), Fits(f, i, m5, m6),
         Fits(f, j, m6, k)
  PROVE  Run(f, <<a, b, c, d, e, i, j>>, l, k)
<1> DEFINE t == <<a, b, c, d, e, i, j>>
           g == <<l, m1, m2, m3, m4, m5, m6, k>>
<1>1. /\ Len(t) = 7 /\ t[1] = a /\ t[2] = b /\ t[3] = c /\ t[4] = d /\ t[5] = e /\ t[6] = i
      /\ t[7] = j
  OBVIOUS
<1>2. /\ g[1] = l /\ g[2] = m1 /\ g[3] = m2 /\ g[4] = m3 /\ g[5] = m4 /\ g[6] = m5
      /\ g[7] = m6 /\ g[8] = k
  OBVIOUS
<1> HIDE DEF t, g
<1>3. \A x \in 1 .. Len(t) : x = 1 \/ x = 2 \/ x = 3 \/ x = 4 \/ x = 5 \/ x = 6 \/ x = 7
  BY <1>1
<1>4. \A x \in 1 .. Len(t) : Fits(f, t[x], g[x], g[x + 1])
  BY <1>1, <1>2, <1>3
<1>5. l \subseteq g[1] /\ g[Len(t) + 1] \subseteq k
  BY <1>1, <1>2
<1>6. Run(f, t, l, k)
  BY <1>4, <1>5 DEF Run
<1> QED BY <1>6 DEF t
-----------------------------------------------------------------------------
(***************************************************************************)
(* What it takes for an entry to fit, by its name.                         *)
(***************************************************************************)
(* The entries of a body fit as FitsWithin says: which of the cases of Fits is theirs. *)
LEMMA WithinFits ==
  ASSUME NEW f \in Seq(Kinds), NEW e, NEW l, NEW k, e.do \in WithinNames
  PROVE  Fits(f, e, l, k) <=> /\ e.do \notin ReadsNothing => Safe(f, l)
                              /\ \E c : Inner(f, c) /\ FitsWithin(f, c, e.do, l, k)
<1>1. e.do \notin NamespaceNames \cup BlockNames \cup FlagNames \cup OutsideNames
                  \cup {"nextToken", "comment", "verify", "verifyLast", "closureContext",
                        "leave", "inherits"}
  BY DEF WithinNames, EitherToOn, OnToOn, OnToNode, EitherToNode, EitherToOther, ToOtherToOther,
         ToOtherToEither, NamespaceNames, BlockNames, FirstToEnding, FirstToDone, FlagNames,
         OutsideNames
<1> QED BY <1>1 DEF Fits

(* Where the end of the tokens is not read, within an inner level. *)
LEMMA SafeWithin ==
  ASSUME NEW f \in Seq(Kinds), NEW c, Inner(f, c), NEW l
  PROVE  /\ l \subseteq Either(f, c) => Safe(f, l)
         /\ l \subseteq EitherOther(f, c) => Safe(f, l)
<1>1. Safe(f, Either(f, c))
  BY SafeSets DEF Inner, Level, Forward
<1>2. EitherOther(f, c) \subseteq Either(f, c)
  BY Inclusions DEF EitherOther, Inner
<1> QED BY <1>1, <1>2 DEF Safe

(* The functions that may begin on a token or before one. *)
LEMMA EitherFits ==
  ASSUME NEW f \in Seq(Kinds), NEW e, NEW l, NEW k
  PROVE  /\ e.do \in EitherToOn =>
              (Fits(f, e, l, k) <=> \E c : Inner(f, c) /\ Leads(l, Either(f, c), On(f, c), k))
         /\ e.do = "expression" =>
              (Fits(f, e, l, k) <=>
                 \E c : /\ Inner(f, c)
                        /\ \/ Leads(l, Either(f, c), On(f, c), k)
                           \/ Leads(l, Either(f, c) \cap Reads(f, {"x", "("}), OnNode(f, c), k))
         /\ e.do \in EitherToNode =>
              (Fits(f, e, l, k) <=> \E c : /\ Inner(f, c)
                                           /\ Leads(l, Either(f, c), OnNode(f, c), k))
         /\ e.do \in EitherToOther =>
              (Fits(f, e, l, k) <=> \E c : /\ Inner(f, c)
                                           /\ Leads(l, Either(f, c), OnOther(f, c), k))
         /\ e.do = "messageDecl" =>
              (Fits(f, e, l, k) <=>
                 \E c : Inner(f, c) /\ Leads(l, Either(f, c), EitherOther(f, c), k))
         /\ e.do = "messageReturns" =>
              (Fits(f, e, l, k) <=>
                 \E c : Inner(f, c) /\ Leads(l, EitherOther(f, c), EitherOther(f, c), k))
<1> USE DEF FitsWithin, WithinNames, EitherToOn, OnToOn, OnToNode, EitherToNode, EitherToOther,
            ToOtherToOther, ToOtherToEither
<1>1. \A c : Inner(f, c) /\ l \subseteq Either(f, c) => Safe(f, l)
  BY SafeWithin
<1>2. \A c : Inner(f, c) /\ l \subseteq EitherOther(f, c) => Safe(f, l)
  BY SafeWithin
<1>3. e.do \in EitherToOn =>
        (Fits(f, e, l, k) <=> \E c : Inner(f, c) /\ Leads(l, Either(f, c), On(f, c), k))
  BY <1>1, WithinFits DEF Leads
<1>4. e.do = "expression" =>
        (Fits(f, e, l, k) <=>
           \E c : /\ Inner(f, c)
                  /\ \/ Leads(l, Either(f, c), On(f, c), k)
                     \/ Leads(l, Either(f, c) \cap Reads(f, {"x", "("}), OnNode(f, c), k))
  BY <1>1, WithinFits DEF Leads
<1>5. e.do \in EitherToNode =>
        (Fits(f, e, l, k) <=> \E c : Inner(f, c) /\ Leads(l, Either(f, c), OnNode(f, c), k))
  BY <1>1, WithinFits DEF Leads
<1>6. e.do \in EitherToOther =>
        (Fits(f, e, l, k) <=> \E c : Inner(f, c) /\ Leads(l, Either(f, c), OnOther(f, c), k))
  BY <1>1, WithinFits DEF Leads
<1>7. e.do = "messageDecl" =>
        (Fits(f, e, l, k) <=>
           \E c : Inner(f, c) /\ Leads(l, Either(f, c), EitherOther(f, c), k))
  BY <1>1, WithinFits DEF Leads
<1>8. e.do = "messageReturns" =>
        (Fits(f, e, l, k) <=>
           \E c : Inner(f, c) /\ Leads(l, EitherOther(f, c), EitherOther(f, c), k))
  BY <1>2, WithinFits DEF Leads
<1> HIDE DEF FitsWithin, WithinNames, EitherToOn, OnToOn, OnToNode, EitherToNode, EitherToOther,
            ToOtherToOther, ToOtherToEither
<1> QED BY <1>3, <1>4, <1>5, <1>6, <1>7, <1>8
(* The functions that begin on a token. *)
LEMMA OnFits ==
  ASSUME NEW f \in Seq(Kinds), NEW e, NEW l, NEW k
  PROVE  /\ e.do \in OnToOn =>
              (Fits(f, e, l, k) <=> \E c : Inner(f, c) /\ Leads(l, On(f, c), On(f, c), k))
         /\ e.do \in OnToNode =>
              (Fits(f, e, l, k) <=> \E c : Inner(f, c) /\ Leads(l, On(f, c), OnNode(f, c), k))
         /\ e.do = "type" =>
              (Fits(f, e, l, k) <=> \E c : Inner(f, c) /\ Leads(l, On(f, c), OnOther(f, c), k))
         /\ e.do = "typeDot" =>
              (Fits(f, e, l, k) <=> \E c : /\ Inner(f, c)
                                           /\ Leads(l, OnOther(f, c), OnOther(f, c), k))
         /\ e.do = "closeParen" =>
              (Fits(f, e, l, k) <=> \E c : Inner(f, c) /\ Leads(l, On(f, c), Either(f, c), k))
<1> USE DEF FitsWithin, WithinNames, EitherToOn, OnToOn, OnToNode, EitherToNode, EitherToOther,
            ToOtherToOther, ToOtherToEither
<1>1. \A c : Inner(f, c) /\ (l \subseteq On(f, c) \/ l \subseteq OnOther(f, c)) => Safe(f, l)
  BY SafeWithin, Inclusions DEF Inner
<1>2. e.do \in OnToOn =>
        (Fits(f, e, l, k) <=> \E c : Inner(f, c) /\ Leads(l, On(f, c), On(f, c), k))
  BY <1>1, WithinFits DEF Leads, ReadsNothing
<1>3. e.do \in OnToNode =>
        (Fits(f, e, l, k) <=> \E c : Inner(f, c) /\ Leads(l, On(f, c), OnNode(f, c), k))
  BY <1>1, WithinFits DEF Leads, ReadsNothing
<1>4. e.do = "type" =>
        (Fits(f, e, l, k) <=> \E c : Inner(f, c) /\ Leads(l, On(f, c), OnOther(f, c), k))
  BY <1>1, WithinFits DEF Leads, ReadsNothing
<1>5. e.do = "typeDot" =>
        (Fits(f, e, l, k) <=> \E c : Inner(f, c) /\ Leads(l, OnOther(f, c), OnOther(f, c), k))
  BY <1>1, WithinFits DEF Leads, ReadsNothing
<1>6. e.do = "closeParen" =>
        (Fits(f, e, l, k) <=> \E c : Inner(f, c) /\ Leads(l, On(f, c), Either(f, c), k))
  BY <1>1, WithinFits DEF Leads, ReadsNothing
<1> HIDE DEF FitsWithin, WithinNames, EitherToOn, OnToOn, OnToNode, EitherToNode, EitherToOther,
            ToOtherToOther, ToOtherToEither
<1> QED BY <1>2, <1>3, <1>4, <1>5, <1>6

(* The functions that begin before a token. *)
LEMMA ToFits ==
  ASSUME NEW f \in Seq(Kinds), NEW e, NEW l, NEW k
  PROVE  /\ e.do \in ToOtherToOther =>
              (Fits(f, e, l, k) <=> \E c : /\ Inner(f, c)
                                           /\ Leads(l, ToOther(f, c), ToOther(f, c), k))
         /\ e.do \in ToOtherToEither =>
              (Fits(f, e, l, k) <=> \E c : /\ Inner(f, c)
                                           /\ Leads(l, ToOther(f, c), EitherOther(f, c), k))
         /\ e.do = "messageBlock" =>
              (Fits(f, e, l, k) <=> \E c : Inner(f, c) /\ Leads(l, To(f, c), On(f, c), k))
         /\ e.do = "nameComponent" =>
              (Fits(f, e, l, k) <=>
                 \E c : /\ Inner(f, c)
                        /\ Leads(l, ToMarked(f, c) \ Reads(f, Braces), On(f, c), k))
         /\ e.do = "definitionOrExpression" =>
              (Fits(f, e, l, k) <=> \E c : /\ Inner(f, c)
                                           /\ Leads(l, ToSaved(f, c), OnNode(f, c), k))
         /\ e.do \in {"class", "record"} =>
              (Fits(f, e, l, k) <=> \E c : Inner(f, c) /\ Leads(l, To(f, c), OnNode(f, c), k))
         /\ e.do = "recordMember" =>
              (Fits(f, e, l, k) <=> \E c : Inner(f, c) /\ Leads(l, To(f, c), AtEnd(f, c), k))
         /\ e.do = "classMember" =>
              (Fits(f, e, l, k) <=> \E c : /\ Inner(f, c) /\ Deep(f, c, 2)
                                           /\ Leads(l, To(f, c), AtEnd(f, c), k))
<1> USE DEF FitsWithin, WithinNames, EitherToOn, OnToOn, OnToNode, EitherToNode, EitherToOther,
            ToOtherToOther, ToOtherToEither
<1>1. \A c : /\ Inner(f, c)
             /\ \/ l \subseteq To(f, c) \/ l \subseteq ToOther(f, c)
                \/ l \subseteq ToSaved(f, c) \/ l \subseteq ToMarked(f, c) \ Reads(f, Braces)
             => Safe(f, l)
  BY SafeWithin, Inclusions DEF Inner
<1>2. e.do \in ToOtherToOther =>
        (Fits(f, e, l, k) <=> \E c : Inner(f, c) /\ Leads(l, ToOther(f, c), ToOther(f, c), k))
  BY <1>1, WithinFits DEF Leads, ReadsNothing
<1>3. e.do \in ToOtherToEither =>
        (Fits(f, e, l, k) <=> \E c : /\ Inner(f, c)
                                     /\ Leads(l, ToOther(f, c), EitherOther(f, c), k))
  BY <1>1, WithinFits DEF Leads, ReadsNothing
<1>4. e.do = "messageBlock" =>
        (Fits(f, e, l, k) <=> \E c : Inner(f, c) /\ Leads(l, To(f, c), On(f, c), k))
  BY <1>1, WithinFits DEF Leads, ReadsNothing
<1>5. e.do = "nameComponent" =>
        (Fits(f, e, l, k) <=> \E c : /\ Inner(f, c)
                                     /\ Leads(l, ToMarked(f, c) \ Reads(f, Braces), On(f, c), k))
  BY <1>1, WithinFits DEF Leads, ReadsNothing
<1>6. e.do = "definitionOrExpression" =>
        (Fits(f, e, l, k) <=> \E c : Inner(f, c) /\ Leads(l, ToSaved(f, c), OnNode(f, c), k))
  BY <1>1, WithinFits DEF Leads, ReadsNothing
<1>7. e.do \in {"class", "record"} =>
        (Fits(f, e, l, k) <=> \E c : Inner(f, c) /\ Leads(l, To(f, c), OnNode(f, c), k))
  BY <1>1, WithinFits DEF Leads, ReadsNothing
<1>8. e.do = "recordMember" =>
        (Fits(f, e, l, k) <=> \E c : Inner(f, c) /\ Leads(l, To(f, c), AtEnd(f, c), k))
  BY <1>1, WithinFits DEF Leads, ReadsNothing
<1>9. e.do = "classMember" =>
        (Fits(f, e, l, k) <=> \E c : /\ Inner(f, c) /\ Deep(f, c, 2)
                                     /\ Leads(l, To(f, c), AtEnd(f, c), k))
  BY <1>1, WithinFits DEF Leads, ReadsNothing
<1> HIDE DEF FitsWithin, WithinNames, EitherToOn, OnToOn, OnToNode, EitherToNode, EitherToOther,
            ToOtherToOther, ToOtherToEither
<1> QED BY <1>2, <1>3, <1>4, <1>5, <1>6, <1>7, <1>8, <1>9
(* The functions of a block within another. *)
LEMMA BlockFits ==
  ASSUME NEW f \in Seq(Kinds), NEW e, NEW l, NEW k
  PROVE  /\ e.do = "scopeMember" =>
              (Fits(f, e, l, k) <=>
                 \E c, o : Nested(f, c, o) /\ Leads(l, To(f, c), To(f, o), k))
         /\ e.do \in FirstToEnding =>
              (Fits(f, e, l, k) <=>
                 \E c, o : Nested(f, c, o) /\ Leads(l, ToFirst(f, c), Ending(f, c, o), k))
         /\ e.do \in FirstToDone =>
              (Fits(f, e, l, k) <=>
                 \E c, o : Nested(f, c, o) /\ Leads(l, ToFirst(f, c), Done(f, c, o), k))
         /\ e.do = "moreStatements" =>
              (Fits(f, e, l, k) <=>
                 \E c, o : Nested(f, c, o) /\ Leads(l, Done(f, c, o), Ending(f, c, o), k))
         /\ e.do = "nextStatement" =>
              (Fits(f, e, l, k) <=>
                 \E c, o : Nested(f, c, o) /\ Leads(l, To(f, c), Ending(f, c, o), k))
<1>1. e.do \in BlockNames =>
        (Fits(f, e, l, k) <=> /\ e.do \notin ReadsNothing => Safe(f, l)
                              /\ \E c, o : Nested(f, c, o) /\ FitsBlock(f, c, o, e.do, l, k))
  <2> SUFFICES ASSUME e.do \in BlockNames
               PROVE  e.do \notin NamespaceNames \cup WithinNames \cup FlagNames \cup OutsideNames
                        \cup {"nextToken", "comment", "verify", "verifyLast", "closureContext",
                              "leave", "inherits"}
    BY DEF Fits
  <2> QED BY DEF WithinNames, EitherToOn, OnToOn, OnToNode, EitherToNode, EitherToOther,
        ToOtherToOther, ToOtherToEither, NamespaceNames, BlockNames, FirstToEnding, FirstToDone,
        FlagNames, OutsideNames
<1>2. \A c, o : /\ Nested(f, c, o)
                /\ l \subseteq To(f, c) \/ l \subseteq ToFirst(f, c)
                => Safe(f, l)
  BY SafeWithin, Inclusions DEF Inner, Nested
<1> USE DEF FitsBlock, BlockNames, FirstToEnding, FirstToDone
<1>3. e.do = "scopeMember" =>
        (Fits(f, e, l, k) <=> \E c, o : Nested(f, c, o) /\ Leads(l, To(f, c), To(f, o), k))
  BY <1>1, <1>2 DEF Leads
<1>4. e.do \in FirstToEnding =>
        (Fits(f, e, l, k) <=>
           \E c, o : Nested(f, c, o) /\ Leads(l, ToFirst(f, c), Ending(f, c, o), k))
  BY <1>1, <1>2 DEF Leads
<1>5. e.do \in FirstToDone =>
        (Fits(f, e, l, k) <=>
           \E c, o : Nested(f, c, o) /\ Leads(l, ToFirst(f, c), Done(f, c, o), k))
  BY <1>1, <1>2 DEF Leads
<1>6. e.do = "moreStatements" =>
        (Fits(f, e, l, k) <=>
           \E c, o : Nested(f, c, o) /\ Leads(l, Done(f, c, o), Ending(f, c, o), k))
  BY <1>1 DEF Leads, ReadsNothing
<1>7. e.do = "nextStatement" =>
        (Fits(f, e, l, k) <=>
           \E c, o : Nested(f, c, o) /\ Leads(l, To(f, c), Ending(f, c, o), k))
  BY <1>1, <1>2 DEF Leads
<1> HIDE DEF FitsBlock, BlockNames, FirstToEnding, FirstToDone
<1> QED BY <1>3, <1>4, <1>5, <1>6, <1>7

(* Flags, and what is outside of all blocks. *)
LEMMA OuterFits ==
  ASSUME NEW f \in Seq(Kinds), NEW e, NEW l, NEW k
  PROVE  /\ e.do \in FlagNames =>
              (Fits(f, e, l, k) <=>
                 Safe(f, l) /\ \E c : Level(f, c) /\ FitsFlags(f, c, e.do, l, k))
         /\ e.do \in OutsideNames =>
              (Fits(f, e, l, k) <=> /\ e.do \notin ReadsNothing => Safe(f, l)
                                    /\ FitsOutside(f, Outside(f), e.do, l, k))
         /\ e.do = "inherits" =>
              (Fits(f, e, l, k) <=>
                 /\ Safe(f, l)
                 /\ \E c : Forward(f, c) /\ Deep(f, c, 1) /\ Leads(l, To(f, c), To(f, c), k))
<1> USE DEF WithinNames, EitherToOn, OnToOn, OnToNode, EitherToNode, EitherToOther,
            ToOtherToOther, ToOtherToEither, NamespaceNames, BlockNames, FirstToEnding,
            FirstToDone,
            FlagNames, OutsideNames, ReadsNothing
<1>1. e.do \in FlagNames =>
        (Fits(f, e, l, k) <=>
           Safe(f, l) /\ \E c : Level(f, c) /\ FitsFlags(f, c, e.do, l, k))
  BY DEF Fits
<1>2. e.do \in OutsideNames =>
        (Fits(f, e, l, k) <=> /\ e.do \notin ReadsNothing => Safe(f, l)
                              /\ FitsOutside(f, Outside(f), e.do, l, k))
  BY DEF Fits
<1>3. e.do = "inherits" =>
        (Fits(f, e, l, k) <=>
           /\ Safe(f, l)
           /\ \E c : Forward(f, c) /\ Deep(f, c, 1) /\ Leads(l, To(f, c), To(f, c), k))
  BY DEF Fits
<1> HIDE DEF WithinNames, EitherToOn, OnToOn, OnToNode, EitherToNode, EitherToOther,
            ToOtherToOther, ToOtherToEither, NamespaceNames, BlockNames, FirstToEnding,
            FirstToDone,
            FlagNames, OutsideNames, ReadsNothing
<1> QED BY <1>1, <1>2, <1>3

(* What moves the cursor, looks at a token or returns. *)
LEMMA PlainFits ==
  ASSUME NEW f \in Seq(Kinds), NEW e, NEW l, NEW k
  PROVE  /\ e.do = "nextToken" => (Fits(f, e, l, k) <=> Moves(f, l, k))
         /\ e.do = "verify" =>
              (Fits(f, e, l, k) <=> Safe(f, l) /\ l \cap Reads(f, e.kinds) \subseteq k)
         /\ e.do \in {"verifyLast", "closureContext"} =>
              (Fits(f, e, l, k) <=> Safe(f, l) /\ l \subseteq k)
         /\ e.do = "comment" =>
              (Fits(f, e, l, k) <=>
                 Safe(f, l) /\ \A s \in l : s[1] <= Len(f) /\ Lands(f, s, s[1], k))
         /\ e.do = "leave" =>
              (Fits(f, e, l, k) <=>
                 \A s \in l : /\ Result(s, e.result) \in k
                              /\ e.state \in BlockStates => EndsBlock(f, e.from, s[1]))
         /\ e.do \in NamespaceNames => ~Fits(f, e, l, k)
<1> DEFINE names == WithinNames \cup BlockNames \cup FlagNames \cup OutsideNames
<1>1. names \cap {"nextToken", "verify", "verifyLast", "closureContext", "comment",
                  "leave"} = {}
      /\ NamespaceNames \cap {"nextToken", "verify", "verifyLast", "closureContext", "comment",
                              "leave"} = {}
  BY DEF WithinNames, EitherToOn, OnToOn, OnToNode, EitherToNode, EitherToOther,
         ToOtherToOther, ToOtherToEither, NamespaceNames, BlockNames, FirstToEnding,
         FirstToDone,
         FlagNames, OutsideNames
<1> HIDE DEF names
<1>2. ASSUME e.do \notin names
      PROVE  e.do \notin WithinNames /\ e.do \notin BlockNames /\ e.do \notin FlagNames
             /\ e.do \notin OutsideNames
  BY <1>2 DEF names
<1>3. e.do = "nextToken" => (Fits(f, e, l, k) <=> Moves(f, l, k))
  BY <1>1, <1>2 DEF Fits, ReadsNothing
<1>4. e.do = "verify" =>
        (Fits(f, e, l, k) <=> Safe(f, l) /\ l \cap Reads(f, e.kinds) \subseteq k)
  BY <1>1, <1>2 DEF Fits, ReadsNothing
<1>5. e.do \in {"verifyLast", "closureContext"} =>
        (Fits(f, e, l, k) <=> Safe(f, l) /\ l \subseteq k)
  BY <1>1, <1>2 DEF Fits, ReadsNothing
<1>6. e.do = "comment" =>
        (Fits(f, e, l, k) <=>
           Safe(f, l) /\ \A s \in l : s[1] <= Len(f) /\ Lands(f, s, s[1], k))
  BY <1>1, <1>2 DEF Fits, ReadsNothing
<1>7. e.do = "leave" =>
        (Fits(f, e, l, k) <=>
           \A s \in l : /\ Result(s, e.result) \in k
                        /\ e.state \in BlockStates => EndsBlock(f, e.from, s[1]))
  BY <1>1, <1>2 DEF Fits, ReadsNothing
<1>8. e.do \in NamespaceNames => ~Fits(f, e, l, k)
  BY DEF Fits
<1> QED BY <1>3, <1>4, <1>5, <1>6, <1>7, <1>8
-----------------------------------------------------------------------------
(***************************************************************************)
(* The parser is where what is left to do expects it.                      *)
(***************************************************************************)
State == <<cur, saved, node>>
Walks == \E k : Run(file, todo, {State}, k)

Even(f) == Nest(f, Len(f)) = 0 /\ \A n \in 1 .. Len(f) : Nest(f, n) >= 0
Results ==
  /\ phase = "parsing" => Walks
  /\ phase = "accepted" => Even(file)
  /\ phase = "fault" => Broken(file)
  /\ phase = "crashed" => Odd(file)

(* Before the first block there is no state to leave. *)
FreshNames == {"begin", "start", "again", "comment", "fragment", "module"}
Fresh ==
  phase = "parsing" /\ stack = <<>> => \A i \in 1 .. Len(todo) : todo[i].do \in FreshNames

BInv == Fresh /\ (Regular(file) => Results)

(* What is the case when a function begins. *)
Here ==
  /\ Running /\ Head(todo) \in Entries /\ Tail(todo) \in Seq(Entries)
  /\ file \in Seq(Kinds) /\ Len(file) \in Nat
  /\ State \in Space(file) /\ State[1] = cur /\ State[2] = saved /\ State[3] = node
  /\ cur \in 1 .. Len(file) + 1
  /\ Head(todo).do \notin FreshNames => stack # <<>>
  /\ Regular(file) => Walks

(* An entry that is pending is the one at the head, and the parser stands where it may. *)
LEMMA BeginsHere ==
  ASSUME IInv, BInv, NEW d, d # "leave", Pending(d)
  PROVE  Here /\ Head(todo).do = d
<1>1. Running /\ Head(todo).do = d
  BY PendingRuns
<1>2. /\ todo \in Seq(Entries) /\ todo # <<>> /\ phase = "parsing"
      /\ file \in Seq(Kinds) /\ Len(file) \in Nat /\ cur \in 1 .. Len(file) + 1
      /\ saved \in 1 .. Len(file) + 1 /\ node \in Kinds \cup {None, "null"}
  BY <1>1, LenProperties DEF Running, IInv, Typed
<1>3. /\ Head(todo) \in Entries /\ Tail(todo) \in Seq(Entries) /\ Head(todo) = todo[1]
      /\ 1 \in 1 .. Len(todo)
  BY <1>2, HeadTailProperties, EmptySeq, LenProperties
<1>4. State \in Space(file) /\ State[1] = cur /\ State[2] = saved /\ State[3] = node
  BY <1>2 DEF State, Space
<1>5. Head(todo).do \notin FreshNames => stack # <<>>
  BY <1>2, <1>3 DEF BInv, Fresh
<1>6. Regular(file) => Walks
  BY <1>2 DEF BInv, Results
<1> QED BY <1>1, <1>2, <1>3, <1>4, <1>5, <1>6 DEF Here

(* The same, of a function that looks at the current token. *)
LEMMA ReadsHere ==
  ASSUME IInv, BInv, NEW d, d # "leave", At(d)
  PROVE  /\ Here /\ Head(todo).do = d /\ cur \in 1 .. Len(file)
         /\ \A kinds : State \in Reads(file, kinds) <=> Kind \in kinds
<1>1. Here /\ Head(todo).do = d
  BY BeginsHere DEF At
<1>2. cur \in 1 .. Len(file)
  BY AtRuns
<1> QED BY <1>1, <1>2 DEF Here, Reads, Kind

(* A call is replaced by the steps of its function. *)
LEMMA StepsReplace ==
  ASSUME IInv, Here, NEW entries \in Seq(Steps), todo' = entries \o Tail(todo),
         UNCHANGED <<file, stack, phase>>,
         stack # <<>> \/ \A i \in 1 .. Len(entries) : entries[i].do \in FreshNames,
         BInv,
         Regular(file) => \A k : Fits(file, Head(todo), {State}, k) => Run(file, entries,
                                                                           {State'}, k)
  PROVE  BInv'
<1>1. /\ entries \in Seq(Entries) /\ Tail(todo) \in Seq(Entries) /\ todo \in Seq(Entries)
      /\ todo # <<>> /\ phase = "parsing"
  BY SeqMonotonic DEF Entries, Here, Running, IInv, Typed
<1>2. ASSUME Regular(file)
      PROVE  Walks'
  <2>1. PICK z : Run(file, todo, {State}, z)
    BY <1>2 DEF Here, Walks
  <2>2. PICK m : Fits(file, Head(todo), {State}, m) /\ Run(file, Tail(todo), m, z)
    BY <1>1, <2>1, RunFirst
  <2>3. Run(file, entries, {State'}, m)
    BY <1>2, <2>2
  <2>4. Run(file, entries \o Tail(todo), {State'}, z)
    BY <1>1, <2>2, <2>3, RunJoined
  <2>5. file' = file /\ todo' = entries \o Tail(todo)
    OBVIOUS
  <2>6. Run(file', todo', {State'}, z)
    BY <2>4, <2>5
  <2> QED BY <2>6 DEF Walks
<1>3. ASSUME stack = <<>>
      PROVE  \A i \in 1 .. Len(todo') : todo'[i].do \in FreshNames
  <2>1. \A i \in 1 .. Len(entries) : entries[i].do \in FreshNames
    BY <1>3
  <2>2. \A i \in 1 .. Len(todo) : todo[i].do \in FreshNames
    BY <1>1, <1>3 DEF BInv, Fresh
  <2>3. /\ Len(entries) \in Nat /\ Len(Tail(todo)) \in Nat /\ Len(todo) \in Nat
        /\ Len(Tail(todo)) = Len(todo) - 1
        /\ \A i \in 1 .. Len(todo) - 1 : Tail(todo)[i] = todo[i + 1]
    BY <1>1, LenProperties, HeadTailProperties
  <2>4. /\ Len(todo') = Len(entries) + Len(Tail(todo))
        /\ \A i \in 1 .. Len(todo') :
             todo'[i] = IF i <= Len(entries) THEN entries[i] ELSE Tail(todo)[i - Len(entries)]
    BY <1>1, ConcatProperties
  <2> SUFFICES ASSUME NEW i \in 1 .. Len(todo')
               PROVE  todo'[i].do \in FreshNames
    OBVIOUS
  <2>5. CASE i <= Len(entries)
    BY <2>1, <2>3, <2>4, <2>5
  <2>6. CASE i > Len(entries)
    <3>1. i - Len(entries) \in 1 .. Len(todo) - 1 /\ (i - Len(entries)) + 1 \in 1 .. Len(todo)
      BY <2>3, <2>4, <2>6
    <3>2. todo'[i] = todo[(i - Len(entries)) + 1]
      BY <2>3, <2>4, <2>6, <3>1
    <3> QED BY <2>2, <3>1, <3>2
  <2> QED BY <2>3, <2>5, <2>6
<1>4. Fresh'
  BY <1>3 DEF Fresh
<1> QED BY <1>1, <1>2, <1>4 DEF BInv, Results

(* A function that goes on with the cursor where it left it, or where it   *)
(* is.                                                                     *)
LEMMA GoesFits ==
  ASSUME IInv, BInv, Here, stack # <<>>, NEW entries \in Seq(Steps), NEW c, Goes(entries, c),
         Regular(file) =>
           \A k : Fits(file, Head(todo), {State}, k) => Run(file, entries, {Moved(State, c)}, k)
  PROVE  BInv'
<1>1. State' = Moved(State, c)
  BY DEF Goes, State, Moved, Here
<1> QED BY <1>1, StepsReplace DEF Goes

(* A step that leaves the cursor alone and puts entries that fit in front keeps BInv. *)
LEMMA ThenFits ==
  ASSUME IInv, BInv, Here, stack # <<>>, NEW entries \in Seq(Steps), Then(entries),
         Regular(file) =>
           \A k : Fits(file, Head(todo), {State}, k) => Run(file, entries, {State}, k)
  PROVE  BInv'
<1>1. State' = State
  BY DEF Goes, Then, State
<1> QED BY <1>1, StepsReplace DEF Goes, Then

(* A function with a guard. *)
LEMMA EnterFits ==
  ASSUME IInv, BInv, Here, NEW s \in States, NEW entries \in Seq(Steps),
         NEW result \in Kinds \cup {None, "null", "same"}, Enter(s, entries, result),
         Regular(file) =>
           \A k : Fits(file, Head(todo), {State}, k) =>
             \E m : /\ Run(file, entries, {State}, m)
                    /\ \A x \in m : /\ Result(x, result) \in k
                                    /\ s \in BlockStates => EndsBlock(file, cur, x[1])
  PROVE  BInv'
<1> DEFINE g == Leave(s, result)
<1>1. /\ entries \in Seq(Entries) /\ Tail(todo) \in Seq(Entries) /\ todo \in Seq(Entries)
      /\ todo # <<>> /\ phase = "parsing" /\ g \in Entries /\ <<g>> \in Seq(Entries)
      /\ stack \in Seq(StackStates)
  <2>1. g \in Guards
    BY LenProperties DEF Leave, Guards, IInv, Typed
  <2>2. g \in Entries
    BY <2>1 DEF Entries
  <2>3. entries \in Seq(Entries)
    BY SeqMonotonic DEF Entries
  <2> QED BY <2>2, <2>3 DEF Here, Running, IInv, Typed
<1>2. /\ todo' = entries \o <<g>> \o Tail(todo) /\ stack' = Append(stack, s)
      /\ UNCHANGED <<file, cur, saved, node, phase>>
  BY DEF Enter
<1>3. g.do = "leave" /\ g.state = s /\ g.from = cur /\ g.result = result
  BY DEF Leave
<1> HIDE DEF g
<1>4. ASSUME Regular(file)
      PROVE  Walks'
  <2>1. PICK z : Run(file, todo, {State}, z)
    BY <1>4 DEF Here, Walks
  <2>2. PICK k : Fits(file, Head(todo), {State}, k) /\ Run(file, Tail(todo), k, z)
    BY <1>1, <2>1, RunFirst
  <2>3. PICK m : /\ Run(file, entries, {State}, m)
                 /\ \A x \in m : /\ Result(x, result) \in k
                                 /\ s \in BlockStates => EndsBlock(file, cur, x[1])
    BY <1>4, <2>2
  <2>4. Fits(file, g, m, k)
    BY <1>3, <2>3, PlainFits DEF Here
  <2>5. Run(file, <<g>>, m, k)
    BY <2>4, RunOne
  <2>6. Run(file, entries \o <<g>>, {State}, k)
    BY <1>1, <2>3, <2>5, RunJoined
  <2>7. entries \o <<g>> \in Seq(Entries)
    BY <1>1, ConcatProperties
  <2>8. Run(file, entries \o <<g>> \o Tail(todo), {State}, z)
    BY <1>1, <2>2, <2>6, <2>7, RunJoined
  <2>9. State' = State /\ file' = file
    BY <1>2 DEF State
  <2>10. Run(file', todo', {State'}, z)
    BY <1>2, <2>8, <2>9
  <2> QED BY <2>10 DEF Walks
<1>5. stack' # <<>>
  <2>1. Len(Append(stack, s)) = Len(stack) + 1 /\ Len(stack) \in Nat
    BY <1>1, LenProperties DEF StackStates
  <2> QED BY <1>2, <2>1
<1>6. Fresh'
  BY <1>5 DEF Fresh
<1> QED BY <1>1, <1>2, <1>4, <1>6 DEF BInv, Results

(* An error. *)
LEMMA ErrorFits ==
  ASSUME IInv, BInv, Throw \/ (Fail /\ (stack # <<>> \/ Odd(file)))
  PROVE  BInv'
<1>1. CASE phase' = "unwinding" /\ file' = file
  BY <1>1 DEF BInv, Fresh, Results
<1>2. CASE phase' = "crashed" /\ UNCHANGED file /\ Odd(file)
  BY <1>2 DEF BInv, Fresh, Results
<1>3. (phase' = "unwinding" /\ file' = file) \/ (phase' = "crashed" /\ UNCHANGED file /\ Odd(file))
  BY DEF Throw, Fail, Unwind
<1> QED BY <1>1, <1>2, <1>3
-----------------------------------------------------------------------------
(***************************************************************************)
(* What nextToken and the verifications do.                                *)
(***************************************************************************)
Brace_ == Verify({"{"})
EndBrace_ == Verify({"}"})
Semicolon_ == Verify({";"})

(* nextToken, from each kind of place the parser stands at. *)
LEMMA NextFits ==
  ASSUME NEW f \in Seq(Kinds), NEW c, Forward(f, c)
  PROVE  /\ Fits(f, Next_, On(f, c), To(f, c))
         /\ Fits(f, Next_, OnOther(f, c), ToOther(f, c))
         /\ Fits(f, Next_, OnFirst(f, c), ToFirst(f, c))
         /\ Fits(f, Next_, OnNode(f, c), ToNode(f, c))
         /\ Fits(f, Next_, On(f, c) \cap Saved(f, c), ToSaved(f, c))
         /\ Fits(f, Next_, OnStray(f, c), ToStray(f, c))
         /\ Regular(f) => Fits(f, Next_, OnMark(f, c), ToMarked(f, c) \ Reads(f, Braces))
         /\ Regular(f) /\ Level(f, c) /\ Deep(f, c, 2) =>
              Fits(f, Next_, EitherOther(f, c), ToBrace(f, c))
<1>1. \A l, k : Moves(f, l, k) => Fits(f, Next_, l, k)
  BY PlainFits DEF Next_, Call
<1> QED BY <1>1, NextTokens, NextMarked, NextBrace

(* The same, when the parser has looked at the token it comes to. *)
LEMMA PeekFits ==
  ASSUME NEW f \in Seq(Kinds), NEW c, Level(f, c), NEW s \in On(f, c)
  PROVE  /\ PeekNext(f, s[1]) = "." => Fits(f, Next_, {s}, OnMark(f, c))
         /\ PeekNext(f, s[1]) = "," => Fits(f, Next_, {s}, OnOther(f, c))
<1>1. \A l, k : Moves(f, l, k) => Fits(f, Next_, l, k)
  BY PlainFits DEF Next_, Call
<1>2. /\ {"."} \subseteq Others \ Starts /\ {","} \subseteq Others \ Starts
      /\ {"."} \subseteq Marks
  BY Zenon DEF Others, Starts, Marks, Kinds, Braces
<1>3. ASSUME NEW kind, PeekNext(f, s[1]) = kind, {kind} \subseteq Others \ Starts
      PROVE  Fits(f, Next_, {s}, OnOther(f, c) \cap Reads(f, {kind}))
  <2>1. PeekNext(f, s[1]) \in {kind}
    BY <1>3
  <2> QED BY <1>1, <1>3, <2>1, NextPeeked
<1>4. Reads(f, {"."}) \subseteq Reads(f, Marks)
  BY <1>2 DEF Reads
<1>5. OnOther(f, c) \cap Reads(f, {"."}) \subseteq OnMark(f, c)
  BY <1>4 DEF OnOther, OnMark
<1>6. PeekNext(f, s[1]) = "." => Fits(f, Next_, {s}, OnMark(f, c))
  BY <1>2, <1>3, <1>5, FitsWeaker, ZenonT(60)
<1>7. PeekNext(f, s[1]) = "," => Fits(f, Next_, {s}, OnOther(f, c))
  <2>1. \A kind : PeekNext(f, s[1]) = kind /\ {kind} \subseteq Others \ Starts =>
                    Fits(f, Next_, {s}, OnOther(f, c))
    <3> SUFFICES ASSUME NEW kind, PeekNext(f, s[1]) = kind, {kind} \subseteq Others \ Starts
                 PROVE  Fits(f, Next_, {s}, OnOther(f, c))
      OBVIOUS
    <3>1. Fits(f, Next_, {s}, OnOther(f, c) \cap Reads(f, {kind}))
      BY <1>3
    <3>2. OnOther(f, c) \cap Reads(f, {kind}) \subseteq OnOther(f, c) /\ {s} \subseteq {s}
      OBVIOUS
    <3> QED BY <3>1, <3>2, FitsWeaker
  <2> QED BY <1>2, <2>1, Zenon
<1> QED BY <1>6, <1>7, Zenon

(* A verification. *)
LEMMA VerifyFits ==
  ASSUME NEW f \in Seq(Kinds), NEW kinds, NEW l, NEW k, Safe(f, l),
         l \cap Reads(f, kinds) \subseteq k
  PROVE  Fits(f, Verify(kinds), l, k)
BY PlainFits DEF Verify

(* Kinds that are no braces. *)
LEMMA OtherFacts ==
  /\ {"x"} \subseteq Others /\ {"("} \subseteq Others /\ {")"} \subseteq Others
  /\ {":"} \subseteq Others /\ {"["} \subseteq Others /\ {"]"} \subseteq Others
  /\ {"@"} \subseteq Others /\ {"."} \subseteq Others /\ {"x", "("} \subseteq Others
  /\ {"7"} \subseteq Others /\ {"1.2.3"} \subseteq Others /\ {";"} \subseteq Others
  /\ Operators \cup {"x", "(", "@"} \subseteq Others /\ Keywords \subseteq Others
  /\ {"class"} \subseteq Others /\ {"record"} \subseteq Others /\ {"msg"} \subseteq Others
  /\ {"module"} \subseteq Others
<1>1. Keywords \cap Braces = {} /\ Operators \cap Braces = {}
  BY Zenon DEF Keywords, Operators, Braces
<1>2. Keywords \subseteq Others /\ Operators \subseteq Others
  BY <1>1, Zenon DEF Others, Kinds
<1>3. {"x", "(", ")", ":", "[", "]", "@", ".", "7", "1.2.3"} \subseteq Others
  BY Zenon DEF Others, Kinds, Braces
<1>4. {"class", "record", "msg", "module"} \subseteq Keywords
  BY DEF Keywords
<1>5. {";"} \subseteq Others
  BY Zenon DEF Others, Kinds, Braces
<1> HIDE DEF Keywords
<1> QED BY <1>2, <1>3, <1>4, <1>5, Zenon

(* A token that is no brace is asked for. *)
LEMMA OtherFits ==
  ASSUME NEW f \in Seq(Kinds), NEW kinds \in SUBSET Others, NEW c
  PROVE  /\ Inner(f, c) => Fits(f, Verify(kinds), Either(f, c), OnOther(f, c))
         /\ Inner(f, c) => Fits(f, Verify(kinds), OnOther(f, c), OnOther(f, c))
         /\ Inner(f, c) => Fits(f, Verify(kinds), ToOther(f, c), ToOther(f, c))
         /\ Forward(f, c) /\ Deep(f, c, 1) => Fits(f, Verify(kinds), To(f, c), OnOther(f, c))
         /\ Forward(f, c) => Fits(f, Verify(kinds), ToOther(f, c), OnOther(f, c))
<1>1. ASSUME Inner(f, c)
      PROVE  Fits(f, Verify(kinds), Either(f, c), OnOther(f, c))
             /\ Fits(f, Verify(kinds), OnOther(f, c), OnOther(f, c))
             /\ Fits(f, Verify(kinds), ToOther(f, c), ToOther(f, c))
  <2>1. Safe(f, Either(f, c)) /\ Safe(f, ToOther(f, c)) /\ Safe(f, OnOther(f, c))
    BY <1>1, SafeWithin, Inclusions DEF Inner
  <2> QED BY <1>1, <2>1, VerifyFits, PassesOther DEF Inner
<1>2. ASSUME Forward(f, c), Deep(f, c, 1)
      PROVE  Fits(f, Verify(kinds), To(f, c), OnOther(f, c))
  <2>1. Safe(f, To(f, c))
    BY <1>2, SafeSets DEF Forward, Either, Safe
  <2> QED BY <1>2, <2>1, VerifyFits, PassesOther
<1>3. ASSUME Forward(f, c)
      PROVE  Fits(f, Verify(kinds), ToOther(f, c), OnOther(f, c))
  <2>1. Safe(f, ToOther(f, c))
    BY <1>3, SafeSets DEF Forward
  <2>2. ToOther(f, c) \cap Reads(f, kinds) \subseteq OnOther(f, c)
    BY <1>3, PassesOther DEF ToOther
  <2> QED BY <2>1, <2>2, VerifyFits
<1> QED BY <1>1, <1>2, <1>3

(* The brace of a block is asked for. *)
LEMMA BlockFitsBrace ==
  ASSUME NEW f \in Seq(Kinds), NEW c, NEW l, Safe(f, l), l \subseteq To(f, c)
  PROVE  Fits(f, Brace_, l, OnFirst(f, Opened(f, c)))
<1>1. l \cap Reads(f, {"{"}) \subseteq OnFirst(f, Opened(f, c))
  BY PassesOpening, Zenon
<1> QED BY <1>1, VerifyFits, Zenon DEF Brace_

(* A brace or a semicolon is asked for. *)
LEMMA BraceFits ==
  ASSUME NEW f \in Seq(Kinds), NEW c, Level(f, c)
  PROVE  /\ Inner(f, c) => Fits(f, Brace_, EitherOther(f, c), To(f, c))
         /\ Fits(f, Brace_, ToBrace(f, c), To(f, c))
         /\ Inner(f, c) => Fits(f, Semicolon_, ToNode(f, c), OnNode(f, c))
<1>1. \A l, k : Safe(f, l) /\ l \cap Reads(f, {"{"}) \subseteq k => Fits(f, Brace_, l, k)
  BY VerifyFits, Zenon DEF Brace_
<1>2. \A l, k : Safe(f, l) /\ l \cap Reads(f, {";"}) \subseteq k => Fits(f, Semicolon_, l, k)
  BY VerifyFits, Zenon DEF Semicolon_
<1>3. Inner(f, c) => /\ Safe(f, EitherOther(f, c))
                     /\ Safe(f, ToNode(f, c))
  BY SafeWithin, Inclusions
<1>4. Safe(f, ToBrace(f, c))
  BY SafeSets DEF Level, Forward
<1>5. Fits(f, Brace_, ToBrace(f, c), To(f, c))
  BY <1>1, <1>4, PassesOpening, Zenon
<1>6. Inner(f, c) => Fits(f, Brace_, EitherOther(f, c), To(f, c))
  BY <1>1, <1>3, PassesOpening, Zenon
<1>7. Inner(f, c) => Fits(f, Semicolon_, ToNode(f, c), OnNode(f, c))
  BY <1>2, <1>3, PassesSemicolon, Zenon
<1> QED BY <1>5, <1>6, <1>7, Zenon

(* The ends of blocks. *)
LEMMA EndFits ==
  ASSUME NEW f \in Seq(Kinds), NEW c, NEW o, Nested(f, c, o)
  PROVE  /\ Fits(f, EndBrace_, Ending(f, c, o), AtEnd(f, c))
         /\ Fits(f, Semicolon_, ToStray(f, o), Done(f, c, o))
<1>1. AtEnd(f, c) \subseteq On(f, o) /\ Ending(f, c, o) \subseteq On(f, o)
      /\ Ending(f, c, o) \cap Reads(f, {"}"}) \subseteq AtEnd(f, c)
  BY PassesClosing, Zenon DEF Nested
<1>2. Safe(f, On(f, o)) /\ Safe(f, ToStray(f, o))
  BY SafeSets DEF Nested, Level, Forward
<1>3. Safe(f, Ending(f, c, o))
  BY <1>1, <1>2 DEF Safe
<1>4. Fits(f, EndBrace_, Ending(f, c, o), AtEnd(f, c))
  BY <1>1, <1>3, VerifyFits, Zenon DEF EndBrace_
<1>5. Fits(f, Semicolon_, ToStray(f, o), Done(f, c, o))
  BY <1>2, VerifyFits, PassesSemicolon, Zenon DEF Semicolon_, Nested, Inner
<1> QED BY <1>4, <1>5
-----------------------------------------------------------------------------
(***************************************************************************)
(* What the functions of the parser call, one after the other.             *)
(***************************************************************************)

(* Declarations. *)
LEMMA DeclarationRuns ==
  ASSUME NEW f \in Seq(Kinds), NEW c, Inner(f, c)
  PROVE  /\ Run(f, <<Verify({"x"}), Call("variableName"), Next_, Verify({":"}), Next_,
                     Verify({"x"})>>,
                         Either(f, c), OnOther(f, c))
         /\ Run(f, <<Next_, Verify({"x"}), Call("typeDot")>>, On(f, c), OnOther(f, c))
         /\ Run(f, <<Verify({"x"}), Next_, Verify({":"}), Call("type")>>,
                         Either(f, c), OnOther(f, c))
         /\ Run(f, <<Verify({"["}), Call("returnTypes"), Next_, Verify({"]"})>>,
                         Either(f, c), OnOther(f, c))
         /\ Run(f, <<Call("type"), Call("moreReturnTypes")>>, On(f, c), On(f, c))
         /\ Run(f, <<Verify({"msg"}), Next_, Verify({"x", "("}), Call("messageName"),
                     Call("messageParams"), Call("messageReturns")>>,
                         Either(f, c), EitherOther(f, c))
         /\ Run(f, <<Next_, Call("messageParam")>>, OnOther(f, c), EitherOther(f, c))
         /\ Run(f, <<Call("param"), Next_, Call("paramComma"), Call("messageParam")>>,
                         ToOther(f, c), EitherOther(f, c))
         /\ Run(f, <<Call("returns"), Verify({"]"})>>, EitherOther(f, c), OnOther(f, c))
<1>1. Run(f, <<Verify({"x"}), Call("variableName"), Next_, Verify({":"}), Next_,
               Verify({"x"})>>,
            Either(f, c), OnOther(f, c))
  <2>1. Fits(f, Verify({"x"}), Either(f, c), OnOther(f, c))
    BY OtherFits, OtherFacts DEF Inner, Level
  <2>2. Fits(f, Call("variableName"), OnOther(f, c), On(f, c))
    BY OnFits, Inclusions DEF Call, Leads, OnToOn, Inner
  <2>3. Fits(f, Next_, On(f, c), To(f, c))
    BY NextFits DEF Inner, Level
  <2>4. Fits(f, Verify({":"}), To(f, c), OnOther(f, c))
    BY OtherFits, OtherFacts DEF Inner, Level
  <2>5. Fits(f, Next_, OnOther(f, c), ToOther(f, c))
    BY NextFits DEF Inner, Level
  <2>6. Fits(f, Verify({"x"}), ToOther(f, c), OnOther(f, c))
    BY OtherFits, OtherFacts DEF Inner, Level
  <2> QED BY <2>1, <2>2, <2>3, <2>4, <2>5, <2>6, RunSix
<1>2. Run(f, <<Next_, Verify({"x"}), Call("typeDot")>>, On(f, c), OnOther(f, c))
  <2>1. Fits(f, Next_, On(f, c), To(f, c))
    BY NextFits DEF Inner, Level
  <2>2. Fits(f, Verify({"x"}), To(f, c), OnOther(f, c))
    BY OtherFits, OtherFacts DEF Inner, Level
  <2>3. Fits(f, Call("typeDot"), OnOther(f, c), OnOther(f, c))
    BY OnFits, Inclusions DEF Call, Leads, Inner
  <2> QED BY <2>1, <2>2, <2>3, RunThree
<1>3. Run(f, <<Verify({"x"}), Next_, Verify({":"}), Call("type")>>,
            Either(f, c), OnOther(f, c))
  <2>1. Fits(f, Verify({"x"}), Either(f, c), OnOther(f, c))
    BY OtherFits, OtherFacts DEF Inner, Level
  <2>2. Fits(f, Next_, OnOther(f, c), ToOther(f, c))
    BY NextFits DEF Inner, Level
  <2>3. Fits(f, Verify({":"}), ToOther(f, c), OnOther(f, c))
    BY OtherFits, OtherFacts DEF Inner, Level
  <2>4. Fits(f, Call("type"), OnOther(f, c), OnOther(f, c))
    BY OnFits, Inclusions DEF Call, Leads, Inner
  <2> QED BY <2>1, <2>2, <2>3, <2>4, RunFour
<1>4. Run(f, <<Verify({"["}), Call("returnTypes"), Next_, Verify({"]"})>>,
            Either(f, c), OnOther(f, c))
  <2>1. Fits(f, Verify({"["}), Either(f, c), OnOther(f, c))
    BY OtherFits, OtherFacts DEF Inner, Level
  <2>2. Fits(f, Call("returnTypes"), OnOther(f, c), On(f, c))
    BY OnFits, Inclusions DEF Call, Leads, OnToOn, Inner
  <2>3. Fits(f, Next_, On(f, c), To(f, c))
    BY NextFits DEF Inner, Level
  <2>4. Fits(f, Verify({"]"}), To(f, c), OnOther(f, c))
    BY OtherFits, OtherFacts DEF Inner, Level
  <2> QED BY <2>1, <2>2, <2>3, <2>4, RunFour
<1>5. Run(f, <<Call("type"), Call("moreReturnTypes")>>, On(f, c), On(f, c))
  <2>1. Fits(f, Call("type"), On(f, c), OnOther(f, c))
    BY OnFits, Inclusions DEF Call, Leads, Inner
  <2>2. Fits(f, Call("moreReturnTypes"), OnOther(f, c), On(f, c))
    BY OnFits, Inclusions DEF Call, Leads, OnToOn, Inner
  <2> QED BY <2>1, <2>2, RunTwo
<1>6. Run(f, <<Verify({"msg"}), Next_, Verify({"x", "("}), Call("messageName"),
               Call("messageParams"), Call("messageReturns")>>,
            Either(f, c), EitherOther(f, c))
  <2>1. Fits(f, Verify({"msg"}), Either(f, c), OnOther(f, c))
    BY OtherFits, OtherFacts DEF Inner, Level
  <2>2. Fits(f, Next_, OnOther(f, c), ToOther(f, c))
    BY NextFits DEF Inner, Level
  <2>3. Fits(f, Verify({"x", "("}), ToOther(f, c), ToOther(f, c))
    BY OtherFits, OtherFacts DEF Inner, Level
  <2>4. Fits(f, Call("messageName"), ToOther(f, c), ToOther(f, c))
    BY ToFits, Inclusions DEF Call, Leads, ToOtherToOther, Inner
  <2>5. Fits(f, Call("messageParams"), ToOther(f, c), EitherOther(f, c))
    BY ToFits, Inclusions DEF Call, Leads, ToOtherToEither, Inner
  <2>6. Fits(f, Call("messageReturns"), EitherOther(f, c), EitherOther(f, c))
    BY EitherFits, Inclusions DEF Call, Leads, Inner
  <2> QED BY <2>1, <2>2, <2>3, <2>4, <2>5, <2>6, RunSix
<1>7. Run(f, <<Next_, Call("messageParam")>>, OnOther(f, c), EitherOther(f, c))
  <2>1. Fits(f, Next_, OnOther(f, c), ToOther(f, c))
    BY NextFits DEF Inner, Level
  <2>2. Fits(f, Call("messageParam"), ToOther(f, c), EitherOther(f, c))
    BY ToFits, Inclusions DEF Call, Leads, ToOtherToEither, Inner
  <2> QED BY <2>1, <2>2, RunTwo
<1>8. Run(f, <<Call("param"), Next_, Call("paramComma"), Call("messageParam")>>,
            ToOther(f, c), EitherOther(f, c))
  <2>1. Fits(f, Call("param"), ToOther(f, c), OnOther(f, c))
    BY EitherFits, Inclusions DEF Call, Leads, EitherToOther, Inner
  <2>2. Fits(f, Next_, OnOther(f, c), ToOther(f, c))
    BY NextFits DEF Inner, Level
  <2>3. Fits(f, Call("paramComma"), ToOther(f, c), ToOther(f, c))
    BY ToFits, Inclusions DEF Call, Leads, ToOtherToOther, Inner
  <2>4. Fits(f, Call("messageParam"), ToOther(f, c), EitherOther(f, c))
    BY ToFits, Inclusions DEF Call, Leads, ToOtherToEither, Inner
  <2> QED BY <2>1, <2>2, <2>3, <2>4, RunFour
<1>9. Run(f, <<Call("returns"), Verify({"]"})>>, EitherOther(f, c), OnOther(f, c))
  <2>1. Fits(f, Call("returns"), EitherOther(f, c), OnOther(f, c))
    BY EitherFits, Inclusions DEF Call, Leads, EitherToOther, Inner
  <2>2. Fits(f, Verify({"]"}), OnOther(f, c), OnOther(f, c))
    BY OtherFits, OtherFacts DEF Inner, Level
  <2> QED BY <2>1, <2>2, RunTwo
<1> QED BY <1>1, <1>2, <1>3, <1>4, <1>5, <1>6, <1>7, <1>8, <1>9

(* Expressions. *)
LEMMA ExpressionRuns ==
  ASSUME NEW f \in Seq(Kinds), NEW c, Inner(f, c), NEW a, NEW b, NEW d
  PROVE  /\ Run(f, <<Call("lhs"), Call("send")>>, Either(f, c), OnNode(f, c))
         /\ Run(f, <<Next_, Call("expression")>>, On(f, c), On(f, c))
         /\ Run(f, <<Verify({"("}), Next_, Call("expression"), Call("closeParen"),
                     Verify({")"})>>,
                         Either(f, c), OnOther(f, c))
         /\ Run(f, <<Next_, Call("message")>>, On(f, c), On(f, c))
         /\ Run(f, <<Verify(Operators \cup {"x", "(", "@"}), Call("messageColon")>>,
                         Either(f, c), On(f, c))
         /\ Run(f, <<Next_, Arguments("argument", a, b, d)>>, On(f, c), On(f, c))
         /\ Run(f, <<Next_, Verify({":"}), Next_, Arguments("argument", a, b, d)>>,
                         On(f, c), On(f, c))
         /\ Run(f, <<Next_, Verify({"x"}), Next_, Verify({":"}), Next_,
                     Arguments("argument", a, b, d)>>,
                         On(f, c), On(f, c))
         /\ Run(f, <<Call("instance"), Arguments("addParam", a, b, d)>>, Either(f, c), On(f, c))
         /\ Run(f, <<Call("expression"), Arguments("addParam", a, b, d)>>,
                         Either(f, c), On(f, c))
         /\ Run(f, <<Call("expressionOfGroup"), Arguments("addParam", a, b, d)>>,
                         On(f, c), On(f, c))
<1>1. Run(f, <<Call("lhs"), Call("send")>>, Either(f, c), OnNode(f, c))
  <2>1. Fits(f, Call("lhs"), Either(f, c), On(f, c))
    BY EitherFits, Inclusions DEF Call, Leads, EitherToOn, Inner
  <2>2. Fits(f, Call("send"), On(f, c), OnNode(f, c))
    BY OnFits, Inclusions DEF Call, Leads, OnToNode, Inner
  <2> QED BY <2>1, <2>2, RunTwo
<1>2. Run(f, <<Next_, Call("expression")>>, On(f, c), On(f, c))
  <2>1. Fits(f, Next_, On(f, c), To(f, c))
    BY NextFits DEF Inner, Level
  <2>2. Fits(f, Call("expression"), To(f, c), On(f, c))
    BY EitherFits, Inclusions DEF Call, Leads, Inner
  <2> QED BY <2>1, <2>2, RunTwo
<1>3. Run(f, <<Verify({"("}), Next_, Call("expression"), Call("closeParen"), Verify({")"})>>,
            Either(f, c), OnOther(f, c))
  <2>1. Fits(f, Verify({"("}), Either(f, c), OnOther(f, c))
    BY OtherFits, OtherFacts DEF Inner, Level
  <2>2. Fits(f, Next_, OnOther(f, c), ToOther(f, c))
    BY NextFits DEF Inner, Level
  <2>3. Fits(f, Call("expression"), ToOther(f, c), On(f, c))
    BY EitherFits, Inclusions DEF Call, Leads, Inner
  <2>4. Fits(f, Call("closeParen"), On(f, c), Either(f, c))
    BY OnFits, Inclusions DEF Call, Leads, Inner
  <2>5. Fits(f, Verify({")"}), Either(f, c), OnOther(f, c))
    BY OtherFits, OtherFacts DEF Inner, Level
  <2> QED BY <2>1, <2>2, <2>3, <2>4, <2>5, RunFive
<1>4. Run(f, <<Next_, Call("message")>>, On(f, c), On(f, c))
  <2>1. Fits(f, Next_, On(f, c), To(f, c))
    BY NextFits DEF Inner, Level
  <2>2. Fits(f, Call("message"), To(f, c), On(f, c))
    BY EitherFits, Inclusions DEF Call, Leads, EitherToOn, Inner
  <2> QED BY <2>1, <2>2, RunTwo
<1>5. Run(f, <<Verify(Operators \cup {"x", "(", "@"}), Call("messageColon")>>,
            Either(f, c), On(f, c))
  <2>1. Fits(f, Verify(Operators \cup {"x", "(", "@"}), Either(f, c), OnOther(f, c))
    BY OtherFits, OtherFacts DEF Inner, Level
  <2>2. Fits(f, Call("messageColon"), OnOther(f, c), On(f, c))
    BY OnFits, Inclusions DEF Call, Leads, OnToOn, Inner
  <2> QED BY <2>1, <2>2, RunTwo
<1>6. Run(f, <<Next_, Arguments("argument", a, b, d)>>, On(f, c), On(f, c))
  <2>1. Fits(f, Next_, On(f, c), To(f, c))
    BY NextFits DEF Inner, Level
  <2>2. Fits(f, Arguments("argument", a, b, d), To(f, c), On(f, c))
    BY EitherFits, Inclusions DEF Arguments, Leads, EitherToOn, Inner
  <2> QED BY <2>1, <2>2, RunTwo
<1>7. Run(f, <<Next_, Verify({":"}), Next_, Arguments("argument", a, b, d)>>,
            On(f, c), On(f, c))
  <2>1. Fits(f, Next_, On(f, c), To(f, c))
    BY NextFits DEF Inner, Level
  <2>2. Fits(f, Verify({":"}), To(f, c), OnOther(f, c))
    BY OtherFits, OtherFacts DEF Inner, Level
  <2>3. Fits(f, Next_, OnOther(f, c), ToOther(f, c))
    BY NextFits DEF Inner, Level
  <2>4. Fits(f, Arguments("argument", a, b, d), ToOther(f, c), On(f, c))
    BY EitherFits, Inclusions DEF Arguments, Leads, EitherToOn, Inner
  <2> QED BY <2>1, <2>2, <2>3, <2>4, RunFour
<1>8. Run(f, <<Next_, Verify({"x"}), Next_, Verify({":"}), Next_,
               Arguments("argument", a, b, d)>>,
            On(f, c), On(f, c))
  <2>1. Fits(f, Next_, On(f, c), To(f, c))
    BY NextFits DEF Inner, Level
  <2>2. Fits(f, Verify({"x"}), To(f, c), OnOther(f, c))
    BY OtherFits, OtherFacts DEF Inner, Level
  <2>3. Fits(f, Next_, OnOther(f, c), ToOther(f, c))
    BY NextFits DEF Inner, Level
  <2>4. Fits(f, Verify({":"}), ToOther(f, c), OnOther(f, c))
    BY OtherFits, OtherFacts DEF Inner, Level
  <2>5. Fits(f, Next_, OnOther(f, c), ToOther(f, c))
    BY NextFits DEF Inner, Level
  <2>6. Fits(f, Arguments("argument", a, b, d), ToOther(f, c), On(f, c))
    BY EitherFits, Inclusions DEF Arguments, Leads, EitherToOn, Inner
  <2> QED BY <2>1, <2>2, <2>3, <2>4, <2>5, <2>6, RunSix
<1>9. Run(f, <<Call("instance"), Arguments("addParam", a, b, d)>>, Either(f, c), On(f, c))
  <2>1. Fits(f, Call("instance"), Either(f, c), On(f, c))
    BY EitherFits, Inclusions DEF Call, Leads, EitherToOn, Inner
  <2>2. Fits(f, Arguments("addParam", a, b, d), On(f, c), On(f, c))
    BY OnFits, Inclusions DEF Arguments, Leads, OnToOn, Inner
  <2> QED BY <2>1, <2>2, RunTwo
<1>10. Run(f, <<Call("expression"), Arguments("addParam", a, b, d)>>,
            Either(f, c), On(f, c))
  <2>1. Fits(f, Call("expression"), Either(f, c), On(f, c))
    BY EitherFits, Inclusions DEF Call, Leads, Inner
  <2>2. Fits(f, Arguments("addParam", a, b, d), On(f, c), On(f, c))
    BY OnFits, Inclusions DEF Arguments, Leads, OnToOn, Inner
  <2> QED BY <2>1, <2>2, RunTwo
<1>11. Run(f, <<Call("expressionOfGroup"), Arguments("addParam", a, b, d)>>,
            On(f, c), On(f, c))
  <2>1. Fits(f, Call("expressionOfGroup"), On(f, c), On(f, c))
    BY OnFits, Inclusions DEF Call, Leads, OnToOn, Inner
  <2>2. Fits(f, Arguments("addParam", a, b, d), On(f, c), On(f, c))
    BY OnFits, Inclusions DEF Arguments, Leads, OnToOn, Inner
  <2> QED BY <2>1, <2>2, RunTwo
<1> QED BY <1>1, <1>2, <1>3, <1>4, <1>5, <1>6, <1>7, <1>8, <1>9, <1>10, <1>11
(* The level within a block, of a level c or of the head of a block in it. *)
LEMMA BlockLevels ==
  ASSUME NEW f \in Seq(Kinds), NEW c, Level(f, c), NEW h, h \subseteq c
  PROVE  /\ Deep(f, c, 0) => Nested(f, Opened(f, h), c)
         /\ Deep(f, c, 1) => Deep(f, Opened(f, h), 2)
<1>1. \A d \in Int : Deep(f, c, d) => Deep(f, h, d)
  BY DEF Deep
<1>2. Deep(f, c, 0) => Level(f, Opened(f, h)) /\ Deep(f, Opened(f, h), 1)
  <2>1. ASSUME Deep(f, h, 0)
        PROVE  Level(f, Opened(f, h)) /\ Deep(f, Opened(f, h), 0 + 1)
    BY <2>1, OpenedIsLevel
  <2> QED BY <1>1, <2>1
<1>3. Deep(f, c, 1) => Deep(f, Opened(f, h), 2)
  <2>1. ASSUME Deep(f, h, 1)
        PROVE  Deep(f, Opened(f, h), 1 + 1)
    BY <2>1, OpenedIsLevel
  <2> QED BY <1>1, <2>1
<1>4. Encloses(f, Opened(f, h), c)
  BY OpenedIsEnclosed
<1> QED BY <1>2, <1>3, <1>4 DEF Nested, Inner

(* Within an inner level. *)
LEMMA InnerLevels ==
  ASSUME NEW f \in Seq(Kinds), NEW c, Inner(f, c), NEW h, h \subseteq c
  PROVE  Nested(f, Opened(f, h), c) /\ Inner(f, Opened(f, h)) /\ Deep(f, Opened(f, h), 2)
<1>1. Level(f, c) /\ Deep(f, c, 1)
  BY DEF Inner
<1>2. c \subseteq 0 .. Len(f) /\ Len(f) \in Nat
  BY <1>1, LenProperties DEF Level, Forward
<1>3. \A n \in c : Nest(f, n) \in Int
  BY <1>2, NestStep
<1>4. Deep(f, c, 0)
  BY <1>1, <1>3 DEF Deep
<1> QED BY <1>1, <1>4, BlockLevels DEF Nested

(* A block that began at the token n ends at the brace of its first.       *)
LEMMA HeadedEnds ==
  ASSUME NEW f \in Seq(Kinds), NEW c, Level(f, c), NEW n \in 1 .. Len(f) + 1, n - 1 \in c,
         NEW s \in AtEnd(f, Opened(f, Headed(f, c, n)))
  PROVE  EndsBlock(f, n, s[1])
<1> DEFINE h == Headed(f, c, n)
<1>1. h \subseteq c
  BY DEF Headed
<1>2. s[1] \in 1 .. Len(f) /\ s[1] - 1 \in Opened(f, h) /\ Closing(f, s[1])
  <2>1. s \in Space(f) /\ s[1] - 1 \in Opened(f, h) /\ s[1] <= Len(f) /\ Closing(f, s[1])
    BY Zenon DEF AtEnd, To, Reads, Closing
  <2> HIDE DEF h
  <2> QED BY <2>1, StateParts, LenProperties
<1>3. PICK p \in 1 .. Len(f) : p - 1 \in h /\ p < s[1] /\ Matched(f, p, s[1])
  <2> HIDE DEF h
  <2> QED BY <1>1, <1>2, BlockEnds
<1>4. n <= p /\ \A i \in n .. p - 1 : ~Opening(f, i)
  BY <1>3 DEF Headed
<1>5. p \in n .. s[1]
  BY <1>2, <1>3, <1>4, LenProperties
<1> QED BY <1>3, <1>4, <1>5 DEF EndsBlock

(* It begins in its head, which is no less deep. *)
LEMMA HeadBegins ==
  ASSUME NEW f \in Seq(Kinds), NEW c, Inner(f, c), NEW n \in 1 .. Len(f) + 1, n - 1 \in c
  PROVE  /\ n - 1 \in Headed(f, c, n) /\ Headed(f, c, n) \subseteq c
         /\ Forward(f, Headed(f, c, n)) /\ Deep(f, Headed(f, c, n), 1)
<1>1. n \in Nat /\ n - 1 \in Headed(f, c, n)
  BY LenProperties DEF Headed
<1>2. Forward(f, Headed(f, c, n)) /\ Headed(f, c, n) \subseteq c
  BY <1>1, HeadIsForward DEF Inner
<1> QED BY <1>1, <1>2 DEF Inner, Deep
(* The sequences of steps that have a name. *)
LEMMA NamedSteps ==
  /\ EndOfStatement = <<Next_, Semicolon_>>
  /\ MemberVariable = <<Call("variableDef"), Next_, Semicolon_, Next_>>
  /\ BlockHead = <<Next_, Verify({"x"}), Next_, Verify(Keywords \cup {"{"}), Call("inherits"),
                   Brace_, Next_>>
  /\ Brace_ \in Steps /\ EndBrace_ \in Steps /\ Semicolon_ \in Steps
  /\ EndOfStatement \in Seq(Steps) /\ MemberVariable \in Seq(Steps) /\ BlockHead \in Seq(Steps)
<1>1. /\ EndOfStatement = <<Next_, Semicolon_>>
      /\ MemberVariable = <<Call("variableDef"), Next_, Semicolon_, Next_>>
      /\ BlockHead = <<Next_, Verify({"x"}), Next_, Verify(Keywords \cup {"{"}),
                       Call("inherits"),
                       Brace_, Next_>>
  BY Zenon DEF EndOfStatement, MemberVariable, BlockHead, Brace_, Semicolon_
<1>2. Brace_ \in Steps /\ EndBrace_ \in Steps /\ Semicolon_ \in Steps
  BY VerifyFacts, Zenon DEF Brace_, EndBrace_, Semicolon_
<1> DEFINE keys == Verify(Keywords \cup {"{"})
<1>3. keys \in Steps /\ Next_ \in Steps /\ Verify({"x"}) \in Steps
      /\ Call("variableDef") \in Steps /\ Call("inherits") \in Steps
  BY VerifyFacts, NextIsStep, CallFacts, Zenon
<1>4. /\ BlockHead = <<Next_, Verify({"x"}), Next_, keys, Call("inherits"), Brace_, Next_>>
      /\ EndOfStatement = <<Next_, Semicolon_>>
      /\ MemberVariable = <<Call("variableDef"), Next_, Semicolon_, Next_>>
  BY <1>1, Zenon
<1> HIDE DEF keys
<1>5. /\ EndOfStatement \in Seq(Steps) /\ MemberVariable \in Seq(Steps)
      /\ BlockHead \in Seq(Steps)
  BY <1>2, <1>3, <1>4
<1> QED BY <1>1, <1>2, <1>5, Zenon

(* The head of a class or a record. *)
LEMMA HeadRuns ==
  ASSUME NEW f \in Seq(Kinds), NEW h, Forward(f, h), Deep(f, h, 1), Forward(f, Opened(f, h))
  PROVE  Run(f, BlockHead, OnOther(f, h), ToFirst(f, Opened(f, h)))
<1> DEFINE keys == Verify(Keywords \cup {"{"})
<1>1. Safe(f, To(f, h))
  BY SafeSets DEF Forward, Safe, Either
<1>2. Fits(f, Next_, OnOther(f, h), ToOther(f, h))
  BY NextFits
<1>3. Fits(f, Verify({"x"}), ToOther(f, h), On(f, h))
  <2>1. Fits(f, Verify({"x"}), ToOther(f, h), OnOther(f, h))
    BY OtherFits, OtherFacts
  <2> QED BY <2>1, FitsWeaker DEF OnOther
<1>4. Fits(f, Next_, On(f, h), To(f, h))
  BY NextFits
<1>5. Fits(f, keys, To(f, h), To(f, h))
  BY <1>1, VerifyFits, Zenon
<1>6. Fits(f, Call("inherits"), To(f, h), To(f, h))
  BY <1>1, OuterFits DEF Call, Leads
<1>7. Fits(f, Brace_, To(f, h), OnFirst(f, Opened(f, h)))
  BY <1>1, BlockFitsBrace
<1>8. Fits(f, Next_, OnFirst(f, Opened(f, h)), ToFirst(f, Opened(f, h)))
  BY NextFits
<1> HIDE DEF keys
<1>9. Run(f, <<Next_, Verify({"x"}), Next_, keys, Call("inherits"), Brace_, Next_>>,
          OnOther(f, h), ToFirst(f, Opened(f, h)))
  BY <1>2, <1>3, <1>4, <1>5, <1>6, <1>7, <1>8, RunSeven
<1>10. BlockHead = <<Next_, Verify({"x"}), Next_, keys, Call("inherits"), Brace_, Next_>>
  BY NamedSteps, Zenon DEF keys
<1> QED BY <1>9, <1>10

(* The members of classes and records, with what follows them. *)
LEMMA MemberRuns ==
  ASSUME NEW f \in Seq(Kinds), NEW c, Inner(f, c), Regular(f), NEW e \in Steps, NEW k,
         Fits(f, e, To(f, c), k)
  PROVE  /\ Run(f, MemberVariable \o <<e>>, To(f, c), k)
         /\ Run(f, <<Next_, Brace_, Next_, Call("scopeMember"), e>>, OnOther(f, c), k)
         /\ Run(f, <<Call("flags"), Next_, e>>, To(f, c), k)
         /\ Deep(f, c, 2) =>
              Run(f, <<Call("messageDecl"), Next_, Brace_, Call("messageBlock"), Next_, e>>,
                  To(f, c), k)
<1> DEFINE i == Opened(f, c)
<1>1. Nested(f, i, c) /\ Level(f, c) /\ Forward(f, c) /\ Level(f, i) /\ Forward(f, i)
  BY InnerLevels DEF Nested, Inner, Level
<1> HIDE DEF i
<1>2. Run(f, MemberVariable \o <<e>>, To(f, c), k)
  <2>1. Fits(f, Call("variableDef"), To(f, c), OnNode(f, c))
    BY EitherFits, Inclusions DEF Call, Leads, EitherToNode, Inner
  <2>2. Fits(f, Next_, OnNode(f, c), ToNode(f, c))
    BY <1>1, NextFits
  <2>3. Fits(f, Semicolon_, ToNode(f, c), OnNode(f, c))
    BY <1>1, BraceFits
  <2>4. Fits(f, Next_, OnNode(f, c), To(f, c))
    BY <2>2, <1>1, Inclusions, FitsWeaker
  <2>5. Run(f, MemberVariable, To(f, c), To(f, c))
    BY <2>1, <2>2, <2>3, <2>4, RunFour, NamedSteps
  <2>6. Run(f, <<e>>, To(f, c), k)
    BY RunOne
  <2>7. MemberVariable \in Seq(Entries) /\ <<e>> \in Seq(Entries)
    BY NamedSteps, SeqMonotonic, SequencesOfSteps DEF Entries
  <2> QED BY <2>5, <2>6, <2>7, RunJoined
<1>3. Run(f, <<Next_, Brace_, Next_, Call("scopeMember"), e>>, OnOther(f, c), k)
  <2>1. Fits(f, Next_, OnOther(f, c), ToOther(f, c))
    BY <1>1, NextFits
  <2>2. Fits(f, Brace_, ToOther(f, c), OnFirst(f, i))
    BY <1>1, BlockFitsBrace, SafeSets, Inclusions DEF i, Forward
  <2>3. Fits(f, Next_, OnFirst(f, i), ToFirst(f, i))
    BY <1>1, NextFits
  <2>4. Fits(f, Call("scopeMember"), ToFirst(f, i), To(f, c))
    BY <1>1, BlockFits, Inclusions DEF Call, Leads
  <2> QED BY <2>1, <2>2, <2>3, <2>4, RunFive
<1>4. Run(f, <<Call("flags"), Next_, e>>, To(f, c), k)
  <2>1. Fits(f, Call("flags"), To(f, c), OnBracket(f, c))
    BY <1>1, OuterFits, SafeWithin, Inclusions DEF Call, Leads, FitsFlags, FlagNames
  <2>2. Fits(f, Next_, OnBracket(f, c), To(f, c))
    BY <1>1, NextFits, FitsWeaker, Inclusions
  <2> QED BY <2>1, <2>2, RunThree
<1>5. ASSUME Deep(f, c, 2)
      PROVE  Run(f, <<Call("messageDecl"), Next_, Brace_, Call("messageBlock"), Next_, e>>,
                 To(f, c), k)
  <2>1. Fits(f, Call("messageDecl"), To(f, c), EitherOther(f, c))
    BY EitherFits, Inclusions DEF Call, Leads, Inner
  <2>2. Fits(f, Next_, EitherOther(f, c), ToBrace(f, c))
    BY <1>1, <1>5, NextFits
  <2>3. Fits(f, Brace_, ToBrace(f, c), To(f, c))
    BY <1>1, BraceFits
  <2>4. Fits(f, Call("messageBlock"), To(f, c), On(f, c))
    BY ToFits DEF Call, Leads
  <2>5. Fits(f, Next_, On(f, c), To(f, c))
    BY <1>1, NextFits
  <2> QED BY <2>1, <2>2, <2>3, <2>4, <2>5, RunSix
<1> QED BY <1>2, <1>3, <1>4, <1>5

(* Statements. *)
LEMMA StatementRuns ==
  ASSUME NEW f \in Seq(Kinds), NEW c, NEW o, Nested(f, c, o), Regular(f)
  PROVE  /\ Run(f, EndOfStatement, OnNode(f, c), OnNode(f, c))
         /\ Run(f, EndOfStatement, OnStray(f, o), Done(f, c, o))
         /\ Run(f, <<Next_, Call("definitionOrExpression")>>, On(f, c) \cap Saved(f, c),
                OnNode(f, c))
         /\ Run(f, <<Call("returnExpression")>>, On(f, c), OnNode(f, c))
         /\ Run(f, <<Call("expression")>>, Either(f, c) \cap Reads(f, {"x", "("}), OnNode(f, c))
         /\ Run(f, <<Call("flags"), Next_, Call("statementKind")>>, ToFirst(f, c),
                Done(f, c, o))
         /\ Run(f, <<Next_, Call("nextStatement")>>, OnNode(f, c), Ending(f, c, o))
         /\ \A d \in {"class", "record", "statement"} :
              Run(f, <<Call(d), Call("moreStatements")>>, ToFirst(f, c), Ending(f, c, o))
<1>1. Inner(f, c) /\ Level(f, c) /\ Forward(f, c) /\ Level(f, o) /\ Forward(f, o)
  BY DEF Nested, Inner, Level
<1>2. OnNode(f, c) \subseteq Done(f, c, o)
  BY DEF Done
<1>3. Run(f, EndOfStatement, OnNode(f, c), OnNode(f, c))
  <2>1. Fits(f, Next_, OnNode(f, c), ToNode(f, c))
    BY <1>1, NextFits
  <2>2. Fits(f, Semicolon_, ToNode(f, c), OnNode(f, c))
    BY <1>1, BraceFits
  <2> QED BY <2>1, <2>2, RunTwo, NamedSteps
<1>4. Run(f, EndOfStatement, OnStray(f, o), Done(f, c, o))
  <2>1. Fits(f, Next_, OnStray(f, o), ToStray(f, o))
    BY <1>1, NextFits
  <2>2. Fits(f, Semicolon_, ToStray(f, o), Done(f, c, o))
    BY EndFits
  <2> QED BY <2>1, <2>2, RunTwo, NamedSteps
<1>5. Run(f, <<Next_, Call("definitionOrExpression")>>, On(f, c) \cap Saved(f, c), OnNode(f, c))
  <2>1. Fits(f, Next_, On(f, c) \cap Saved(f, c), ToSaved(f, c))
    BY <1>1, NextFits
  <2>2. Fits(f, Call("definitionOrExpression"), ToSaved(f, c), OnNode(f, c))
    BY <1>1, ToFits DEF Call, Leads
  <2> QED BY <2>1, <2>2, RunTwo
<1>6. Run(f, <<Call("returnExpression")>>, On(f, c), OnNode(f, c))
  <2>1. Fits(f, Call("returnExpression"), On(f, c), OnNode(f, c))
    BY <1>1, OnFits DEF Call, Leads, OnToNode
  <2> QED BY <2>1, RunOne
<1>7. Run(f, <<Call("expression")>>, Either(f, c) \cap Reads(f, {"x", "("}), OnNode(f, c))
  <2>1. Fits(f, Call("expression"), Either(f, c) \cap Reads(f, {"x", "("}), OnNode(f, c))
    BY <1>1, EitherFits DEF Call, Leads
  <2> QED BY <2>1, RunOne
<1>8. Run(f, <<Call("flags"), Next_, Call("statementKind")>>, ToFirst(f, c), Done(f, c, o))
  <2>1. Fits(f, Call("flags"), ToFirst(f, c), OnBracket(f, c))
    BY <1>1, OuterFits, SafeWithin, Inclusions DEF Call, Leads, FitsFlags, FlagNames
  <2>2. Fits(f, Next_, OnBracket(f, c), ToFirst(f, c))
    BY <1>1, NextFits, FitsWeaker, Inclusions
  <2>3. Fits(f, Call("statementKind"), ToFirst(f, c), Done(f, c, o))
    BY BlockFits DEF Call, Leads, FirstToDone
  <2> QED BY <2>1, <2>2, <2>3, RunThree
<1>9. Run(f, <<Next_, Call("nextStatement")>>, OnNode(f, c), Ending(f, c, o))
  <2>1. Fits(f, Next_, OnNode(f, c), To(f, c))
    BY <1>1, NextFits, FitsWeaker, Inclusions
  <2>2. Fits(f, Call("nextStatement"), To(f, c), Ending(f, c, o))
    BY BlockFits DEF Call, Leads
  <2> QED BY <2>1, <2>2, RunTwo
<1>10. ASSUME NEW d \in {"class", "record", "statement"}
       PROVE  Run(f, <<Call(d), Call("moreStatements")>>, ToFirst(f, c), Ending(f, c, o))
  <2>1. Call(d).do = d
    BY DEF Call
  <2>2. Fits(f, Call(d), ToFirst(f, c), Done(f, c, o))
    <3>1. CASE d = "statement"
      BY <2>1, <3>1, BlockFits DEF Leads, FirstToDone
    <3>2. CASE d \in {"class", "record"}
      BY <1>1, <1>2, <2>1, <3>2, ToFits, Inclusions DEF Leads
    <3> QED BY <3>1, <3>2
  <2>3. Fits(f, Call("moreStatements"), Done(f, c, o), Ending(f, c, o))
    BY BlockFits DEF Call, Leads
  <2> QED BY <2>2, <2>3, RunTwo
<1> QED BY <1>3, <1>4, <1>5, <1>6, <1>7, <1>8, <1>9, <1>10
-----------------------------------------------------------------------------
(***************************************************************************)
(* The steps of the parser, one function after the other.                  *)
(***************************************************************************)
(* A run from a set of states is one from each of them. *)
LEMMA RunFrom ==
  ASSUME NEW f, NEW t, NEW l, NEW m, NEW k, NEW s, Run(f, t, l, m), s \in l, m \subseteq k
  PROVE  Run(f, t, {s}, k)
BY RunWeaker

(* Nothing more to do. *)
LEMMA RunSkip ==
  ASSUME NEW f, NEW k, NEW s, s \in k
  PROVE  Run(f, <<>>, {s}, k)
BY RunNone, RunWeaker

(* The parser looks at a token that is no brace. *)
LEMMA OtherHere ==
  ASSUME NEW f \in Seq(Kinds), NEW c, Level(f, c), NEW s \in Either(f, c),
         s \in Reads(f, Others)
  PROVE  s \in OnOther(f, c) /\ s \in On(f, c) /\ s \in To(f, c) /\ s \in EitherOther(f, c)
BY PassesOther, Inclusions

(* What a guarded function returns. *)
LEMMA Returned ==
  ASSUME NEW f \in Seq(Kinds), NEW c, NEW d \in Kinds \cup {None, "null"}
  PROVE  /\ \A s \in On(f, c) : Result(s, d) \in On(f, c)
         /\ d # "null" => \A s \in On(f, c) : Result(s, d) \in OnNode(f, c)
         /\ \A s \in Space(f) : Result(s, "same") = s
<1>1. "same" \notin Kinds \cup {None, "null"}
  BY Zenon DEF Kinds, None, Keywords, Operators
<1>2. \A s \in Space(f) : Result(s, d) = <<s[1], s[2], d>> /\ Result(s, d) \in Space(f)
  BY <1>1 DEF Result, Space
<1>3. \A s \in Space(f) : Result(s, "same") = s
  BY DEF Result, Space
<1> QED BY <1>2, <1>3 DEF On, OnNode, Valued

(* A guarded function that returns what its last call has returned. *)
LEMMA EnterSame ==
  ASSUME IInv, BInv, Here, NEW s \in States \ BlockStates, NEW entries \in Seq(Steps),
         Enter(s, entries, "same"),
         Regular(file) =>
           \A k : Fits(file, Head(todo), {State}, k) =>
             \E m : Run(file, entries, {State}, m) /\ m \subseteq Space(file) /\ m \subseteq k
  PROVE  BInv'
<1>1. file \in Seq(Kinds)
  BY DEF Here
<1>2. \A x \in Space(file) : Result(x, "same") = x
  BY <1>1, Returned
<1>3. ASSUME Regular(file), NEW k, Fits(file, Head(todo), {State}, k)
      PROVE  \E m : /\ Run(file, entries, {State}, m)
                    /\ \A x \in m : /\ Result(x, "same") \in k
                                    /\ s \in BlockStates => EndsBlock(file, cur, x[1])
  <2>1. PICK m : Run(file, entries, {State}, m) /\ m \subseteq Space(file) /\ m \subseteq k
    BY <1>3
  <2>2. \A x \in m : Result(x, "same") \in k
    BY <1>2, <2>1
  <2> QED BY <2>1, <2>2
<1> QED BY <1>3, EnterFits

(* One that returns a node of its own. *)
LEMMA EnterNode ==
  ASSUME IInv, BInv, Here, NEW s \in States \ BlockStates, NEW entries \in Seq(Steps),
         NEW d \in Kinds \cup {None}, Enter(s, entries, d),
         Regular(file) =>
           \A k : Fits(file, Head(todo), {State}, k) =>
             \E c : Run(file, entries, {State}, On(file, c)) /\ OnNode(file, c) \subseteq k
  PROVE  BInv'
<1>1. file \in Seq(Kinds) /\ d # "null"
  <2>1. "null" \notin Kinds \cup {None}
    BY Zenon DEF Kinds, None, Keywords, Operators
  <2> QED BY <2>1 DEF Here
<1>2. \A c : \A x \in On(file, c) : Result(x, d) \in OnNode(file, c)
  BY <1>1, Returned
<1> QED BY <1>2, EnterFits
(* Behind a name there is a dot. *)
LEMMA DotRuns ==
  ASSUME NEW f \in Seq(Kinds), NEW c, Inner(f, c), Regular(f), NEW s \in On(f, c),
         PeekNext(f, s[1]) = "."
  PROVE  Run(f, <<Next_, Next_, Call("nameComponent")>>, {s}, On(f, c))
<1>1. Fits(f, Next_, {s}, OnMark(f, c))
  BY PeekFits DEF Inner
<1>2. Fits(f, Next_, OnMark(f, c), ToMarked(f, c) \ Reads(f, Braces))
  BY NextFits DEF Inner, Level
<1>3. Fits(f, Call("nameComponent"), ToMarked(f, c) \ Reads(f, Braces), On(f, c))
  BY ToFits DEF Call, Leads
<1> QED BY <1>1, <1>2, <1>3, RunThree

(* The current token is of some kind. *)
LEMMA ReadsKind ==
  ASSUME Here, cur \in 1 .. Len(file)
  PROVE  Kind \in Kinds
BY DEF Here, Kind

(* The parser steps back to a token that has been counted. *)
LEMMA StepsBack ==
  ASSUME NEW f \in Seq(Kinds), NEW c, Inner(f, c), NEW s \in To(f, c)
  PROVE  /\ Moved(s, StepBack(s[1])) \in On(f, c)
         /\ s \in ToOther(f, c) => Moved(s, StepBack(s[1])) \in OnOther(f, c)
<1> DEFINE n == s[1] - 1
<1>1. s \in Space(f) /\ n \in c /\ s[1] \in 1 .. Len(f) + 1 /\ Len(f) \in Nat
  BY StateParts, LenProperties DEF To
<1>2. n \in Nat /\ Nest(f, n) >= 1
  <2> HIDE DEF n
  <2> QED BY <1>1 DEF Inner, Level, Forward, Deep
<1>3. n # 0 /\ StepBack(s[1]) = n /\ n \in 1 .. Len(f)
  <2>1. n # 0
    BY <1>2, NestStep
  <2> QED BY <1>1, <1>2, <2>1 DEF StepBack
<1>4. s \in ToOther(f, c) => f[n] \in Others
  BY <1>1, <1>3 DEF ToOther, Behind
<1> HIDE DEF n
<1>5. Moved(s, n) \in Space(f) /\ Moved(s, n)[1] = n
  BY <1>1, <1>3, MovedState
<1> QED BY <1>1, <1>3, <1>4, <1>5 DEF On, OnOther, Reads

(* Verifications are steps. *)
LEMMA OtherSteps == \A kinds \in SUBSET Others : Verify(kinds) \in Steps
BY VerifyIsStep DEF Others

(* A variable. *)
LEMMA VariableDefKeeps ==
  ASSUME IInv, BInv, VariableDef
  PROVE  BInv'
<1>1. Here /\ Head(todo).do = "variableDef" /\ stack # <<>>
      /\ cur \in 1 .. Len(file) /\ \A kinds : State \in Reads(file, kinds) <=> Kind \in kinds
  <2>1. At("variableDef")
    BY Zenon DEF VariableDef
  <2> QED BY <2>1, ReadsHere DEF Here, FreshNames
<1>2. ASSUME NEW k, Fits(file, Head(todo), {State}, k)
      PROVE  \E c : Inner(file, c) /\ State \in Either(file, c) /\ OnNode(file, c) \subseteq k
  BY <1>1, <1>2, EitherFits DEF Here, Leads, EitherToNode
<1>3. CASE Enter("VARIABLE_DEFINITION",
                 <<Verify({"x"}), Call("variableName"), Next_, Verify({":"}), Next_,
                   Verify({"x"})>>, "x")
  <2>2. ASSUME Regular(file), NEW k, Fits(file, Head(todo), {State}, k)
        PROVE  \E c : /\ Run(file, <<Verify({"x"}), Call("variableName"), Next_,
                                     Verify({":"}), Next_, Verify({"x"})>>, {State},
                                     On(file, c))
                    /\ OnNode(file, c) \subseteq k
    <3>1. PICK c : Inner(file, c) /\ State \in Either(file, c) /\ OnNode(file, c) \subseteq k
      BY <1>2, <2>2
    <3>2. Run(file, <<Verify({"x"}), Call("variableName"), Next_, Verify({":"}), Next_,
                      Verify({"x"})>>, Either(file, c), OnOther(file, c))
      BY <1>1, <2>2, <3>1, DeclarationRuns DEF Here
    <3> QED BY <1>1, <3>1, <3>2, RunFrom, Inclusions DEF Here, Inner
  <2>3. "x" \in Kinds \cup {None}
    BY ResultFacts
  <2> QED BY <1>1, <1>3, <2>2, <2>3, EnterNode, NextIsStep, CallFacts, OtherSteps,
             OtherFacts, SequencesOfSteps DEF States, BlockStates
<1> QED BY <1>3 DEF VariableDef

(* The name of a variable. *)
LEMMA VariableNameKeeps ==
  ASSUME IInv, BInv, VariableName
  PROVE  BInv'
<1>1. Here /\ Head(todo).do = "variableName" /\ stack # <<>>
      /\ cur \in 1 .. Len(file) /\ \A kinds : State \in Reads(file, kinds) <=> Kind \in kinds
  <2>1. At("variableName")
    BY Zenon DEF VariableName
  <2> QED BY <2>1, ReadsHere DEF Here, FreshNames
<1>2. ASSUME NEW k, Fits(file, Head(todo), {State}, k)
      PROVE  \E c : Inner(file, c) /\ State \in On(file, c) /\ On(file, c) \subseteq k
  BY <1>1, <1>2, OnFits, SMTT(40) DEF Here, Leads, OnToOn
<1>3. CASE Peek = "."
  <2>1. Then(<<Next_, Next_, Call("nameComponent")>>)
    BY <1>3 DEF VariableName
  <2>2. ASSUME Regular(file), NEW k, Fits(file, Head(todo), {State}, k)
        PROVE  Run(file, <<Next_, Next_, Call("nameComponent")>>, {State}, k)
    <3>1. PICK c : Inner(file, c) /\ State \in On(file, c) /\ On(file, c) \subseteq k
      BY <1>2, <2>2
    <3>2. Run(file, <<Next_, Next_, Call("nameComponent")>>, {State}, On(file, c))
      BY <1>1, <1>3, <2>2, <3>1, DotRuns DEF Here, Peek
    <3> QED BY <3>1, <3>2, RunWeaker
  <2> QED BY <1>1, <2>1, <2>2, ThenFits, NextIsStep, CallFacts, SequencesOfSteps
<1>4. CASE Peek # "."
  <2>1. Then(<<>>)
    BY <1>4 DEF VariableName
  <2>2. ASSUME Regular(file), NEW k, Fits(file, Head(todo), {State}, k)
        PROVE  Run(file, <<>>, {State}, k)
    <3>1. PICK c : Inner(file, c) /\ State \in On(file, c) /\ On(file, c) \subseteq k
      BY <1>2, <2>2
    <3> QED BY <3>1, RunSkip
  <2> QED BY <1>1, <2>1, <2>2, ThenFits, SequencesOfSteps
<1> QED BY <1>3, <1>4 DEF VariableName

(* What follows a dot. *)
LEMMA NameComponentKeeps ==
  ASSUME IInv, BInv, NameComponent
  PROVE  BInv'
<1>1. Here /\ Head(todo).do = "nameComponent" /\ stack # <<>>
      /\ cur \in 1 .. Len(file) /\ \A kinds : State \in Reads(file, kinds) <=> Kind \in kinds
  <2>1. At("nameComponent")
    BY Zenon DEF NameComponent
  <2> QED BY <2>1, ReadsHere DEF Here, FreshNames
<1>2. ASSUME NEW k, Fits(file, Head(todo), {State}, k)
      PROVE  \E c : /\ Inner(file, c) /\ State \in ToMarked(file, c) \ Reads(file, Braces)
                    /\ On(file, c) \subseteq k
  BY <1>1, <1>2, ToFits, SMTT(40) DEF Here, Leads
<1>3. CASE Kind = "x" /\ Peek = "."
  <2>1. Then(<<Next_, Next_, Call("nameComponent")>>)
    BY <1>3 DEF NameComponent
  <2>2. ASSUME Regular(file), NEW k, Fits(file, Head(todo), {State}, k)
        PROVE  Run(file, <<Next_, Next_, Call("nameComponent")>>, {State}, k)
    <3>1. PICK c : /\ Inner(file, c) /\ State \in ToMarked(file, c) \ Reads(file, Braces)
                   /\ On(file, c) \subseteq k
      BY <1>2, <2>2
    <3>2. State \in On(file, c)
      BY <1>1, <1>3, <3>1, OtherHere, OtherFacts, Inclusions DEF Here, Inner
    <3>3. Run(file, <<Next_, Next_, Call("nameComponent")>>, {State}, On(file, c))
      BY <1>1, <1>3, <2>2, <3>1, <3>2, DotRuns DEF Here, Peek
    <3> QED BY <3>1, <3>3, RunWeaker
  <2> QED BY <1>1, <2>1, <2>2, ThenFits, NextIsStep, CallFacts, SequencesOfSteps
<1>4. CASE ~(Kind = "x" /\ Peek = ".")
  <2>1. Then(<<>>)
    BY <1>4 DEF NameComponent
  <2>2. ASSUME Regular(file), NEW k, Fits(file, Head(todo), {State}, k)
        PROVE  Run(file, <<>>, {State}, k)
    <3>1. PICK c : /\ Inner(file, c) /\ State \in ToMarked(file, c) \ Reads(file, Braces)
                   /\ On(file, c) \subseteq k
      BY <1>2, <2>2
    <3>2. State \in Reads(file, Others)
      BY <1>1, <3>1, OtherKinds, ReadsKind
    <3>3. State \in On(file, c)
      BY <1>1, <3>1, <3>2, OtherHere, Inclusions DEF Here, Inner
    <3> QED BY <3>1, <3>3, RunSkip
  <2> QED BY <1>1, <2>1, <2>2, ThenFits, SequencesOfSteps
<1> QED BY <1>3, <1>4 DEF NameComponent

(* A type. *)
LEMMA TypeDeclarationKeeps ==
  ASSUME IInv, BInv, TypeDeclaration
  PROVE  BInv'
<1>1. Here /\ Head(todo).do = "type" /\ stack # <<>>
  <2>1. Pending("type")
    BY Zenon DEF TypeDeclaration
  <2> QED BY <2>1, BeginsHere DEF Here, FreshNames
<1>2. ASSUME NEW k, Fits(file, Head(todo), {State}, k)
      PROVE  \E c : Inner(file, c) /\ State \in On(file, c) /\ OnOther(file, c) \subseteq k
  BY <1>1, <1>2, OnFits, SMTT(40) DEF Here, Leads
<1>3. CASE Enter("TYPE_DECLARATION", <<Next_, Verify({"x"}), Call("typeDot")>>, "same")
  <2>2. ASSUME Regular(file), NEW k, Fits(file, Head(todo), {State}, k)
        PROVE  \E m : /\ Run(file, <<Next_, Verify({"x"}), Call("typeDot")>>, {State}, m)
                    /\ m \subseteq Space(file) /\ m \subseteq k
    <3>1. PICK c : Inner(file, c) /\ State \in On(file, c) /\ OnOther(file, c) \subseteq k
      BY <1>2, <2>2
    <3>2. Run(file, <<Next_, Verify({"x"}), Call("typeDot")>>, On(file, c), OnOther(file, c))
      BY <1>1, <2>2, <3>1, DeclarationRuns DEF Here
    <3>3. OnOther(file, c) \subseteq Space(file) /\ EitherOther(file, c) \subseteq Space(file)
           /\ On(file, c) \subseteq Space(file)
      BY DEF OnOther, EitherOther, ToOther, On, To
    <3> QED BY <3>1, <3>2, <3>3, RunFrom, Inclusions DEF Inner
  <2> QED BY <1>1, <1>3, <2>2, EnterSame, NextIsStep, CallFacts, OtherSteps, OtherFacts,
             SequencesOfSteps DEF States, BlockStates
<1> QED BY <1>3 DEF TypeDeclaration

(* The parts of the name of a type. *)
LEMMA TypeDotKeeps ==
  ASSUME IInv, BInv, TypeDot
  PROVE  BInv'
<1>1. Here /\ Head(todo).do = "typeDot" /\ stack # <<>>
      /\ cur \in 1 .. Len(file) /\ \A kinds : State \in Reads(file, kinds) <=> Kind \in kinds
  <2>1. At("typeDot")
    BY Zenon DEF TypeDot
  <2> QED BY <2>1, ReadsHere DEF Here, FreshNames
<1>2. ASSUME NEW k, Fits(file, Head(todo), {State}, k)
      PROVE  \E c : Inner(file, c) /\ State \in OnOther(file, c) /\ OnOther(file, c) \subseteq k
  BY <1>1, <1>2, OnFits, SMTT(40) DEF Here, Leads
<1>3. CASE Peek = "."
  <2>1. Then(<<Next_, Next_, Verify({"x"}), Call("typeDot")>>)
    BY <1>3 DEF TypeDot
  <2>2. ASSUME Regular(file), NEW k, Fits(file, Head(todo), {State}, k)
        PROVE  Run(file, <<Next_, Next_, Verify({"x"}), Call("typeDot")>>, {State}, k)
    <3>1. PICK c : Inner(file, c) /\ State \in OnOther(file, c) /\ OnOther(file, c) \subseteq k
      BY <1>2, <2>2
    <3>2. State \in On(file, c) /\ Level(file, c) /\ Forward(file, c)
      BY <1>1, <3>1, Inclusions DEF Here, Inner, Level
    <3>3. Fits(file, Next_, {State}, OnMark(file, c))
      BY <1>1, <1>3, <3>2, PeekFits DEF Here, Peek
    <3>4. Fits(file, Next_, OnMark(file, c), Either(file, c))
      BY <1>1, <2>2, <3>2, NextFits, FitsWeaker, Inclusions DEF Here
    <3>5. Fits(file, Verify({"x"}), Either(file, c), OnOther(file, c))
      BY <1>1, <3>1, OtherFits, OtherFacts DEF Here
    <3>6. Fits(file, Call("typeDot"), OnOther(file, c), OnOther(file, c))
      BY <1>1, <3>1, OnFits DEF Call, Leads, Here
    <3>7. Run(file, <<Next_, Next_, Verify({"x"}), Call("typeDot")>>, {State}, OnOther(file, c))
      BY <3>3, <3>4, <3>5, <3>6, RunFour
    <3> QED BY <3>1, <3>7, RunWeaker
  <2> QED BY <1>1, <2>1, <2>2, ThenFits, NextIsStep, CallFacts, OtherSteps, OtherFacts,
             SequencesOfSteps
<1>4. CASE Peek # "."
  <2>1. Then(<<>>)
    BY <1>4 DEF TypeDot
  <2>2. ASSUME Regular(file), NEW k, Fits(file, Head(todo), {State}, k)
        PROVE  Run(file, <<>>, {State}, k)
    <3>1. PICK c : Inner(file, c) /\ State \in OnOther(file, c) /\ OnOther(file, c) \subseteq k
      BY <1>2, <2>2
    <3> QED BY <3>1, RunSkip
  <2> QED BY <1>1, <2>1, <2>2, ThenFits, SequencesOfSteps
<1> QED BY <1>3, <1>4 DEF TypeDot

(* A parameter. *)
LEMMA MessageParamDeclKeeps ==
  ASSUME IInv, BInv, MessageParamDecl
  PROVE  BInv'
<1>1. Here /\ Head(todo).do = "param" /\ stack # <<>>
      /\ cur \in 1 .. Len(file) /\ \A kinds : State \in Reads(file, kinds) <=> Kind \in kinds
  <2>1. At("param")
    BY Zenon DEF MessageParamDecl
  <2> QED BY <2>1, ReadsHere DEF Here, FreshNames
<1>2. ASSUME NEW k, Fits(file, Head(todo), {State}, k)
      PROVE  \E c : Inner(file, c) /\ State \in Either(file, c) /\ OnOther(file, c) \subseteq k
  BY <1>1, <1>2, EitherFits, SMTT(40) DEF Here, Leads, EitherToOther
<1>3. CASE Enter("PARAM_DECLARATION", <<Verify({"x"}), Next_, Verify({":"}), Call("type")>>,
                 "same")
  <2>2. ASSUME Regular(file), NEW k, Fits(file, Head(todo), {State}, k)
        PROVE  \E m : /\ Run(file, <<Verify({"x"}), Next_, Verify({":"}), Call("type")>>,
                             {State}, m)
                    /\ m \subseteq Space(file) /\ m \subseteq k
    <3>1. PICK c : Inner(file, c) /\ State \in Either(file, c) /\ OnOther(file, c) \subseteq k
      BY <1>2, <2>2
    <3>2. Run(file, <<Verify({"x"}), Next_, Verify({":"}), Call("type")>>, Either(file, c),
              OnOther(file, c))
      BY <1>1, <2>2, <3>1, DeclarationRuns DEF Here
    <3>3. OnOther(file, c) \subseteq Space(file) /\ EitherOther(file, c) \subseteq Space(file)
           /\ On(file, c) \subseteq Space(file)
      BY DEF OnOther, EitherOther, ToOther, On, To
    <3> QED BY <3>1, <3>2, <3>3, RunFrom, Inclusions DEF Inner
  <2> QED BY <1>1, <1>3, <2>2, EnterSame, NextIsStep, CallFacts, OtherSteps, OtherFacts,
             SequencesOfSteps DEF States, BlockStates
<1> QED BY <1>3 DEF MessageParamDecl

(* The types a message returns. *)
LEMMA ReturnDeclarationKeeps ==
  ASSUME IInv, BInv, ReturnDeclaration
  PROVE  BInv'
<1>1. Here /\ Head(todo).do = "returns" /\ stack # <<>>
      /\ cur \in 1 .. Len(file) /\ \A kinds : State \in Reads(file, kinds) <=> Kind \in kinds
  <2>1. At("returns")
    BY Zenon DEF ReturnDeclaration
  <2> QED BY <2>1, ReadsHere DEF Here, FreshNames
<1>2. ASSUME NEW k, Fits(file, Head(todo), {State}, k)
      PROVE  \E c : Inner(file, c) /\ State \in Either(file, c) /\ OnOther(file, c) \subseteq k
  BY <1>1, <1>2, EitherFits, SMTT(40) DEF Here, Leads, EitherToOther
<1>3. CASE Enter("RETURN_DECLARATION",
                 <<Verify({"["}), Call("returnTypes"), Next_, Verify({"]"})>>, "same")
  <2>2. ASSUME Regular(file), NEW k, Fits(file, Head(todo), {State}, k)
        PROVE  \E m : /\ Run(file, <<Verify({"["}), Call("returnTypes"), Next_,
                                     Verify({"]"})>>, {State}, m)
                    /\ m \subseteq Space(file) /\ m \subseteq k
    <3>1. PICK c : Inner(file, c) /\ State \in Either(file, c) /\ OnOther(file, c) \subseteq k
      BY <1>2, <2>2
    <3>2. Run(file, <<Verify({"["}), Call("returnTypes"), Next_, Verify({"]"})>>,
              Either(file, c), OnOther(file, c))
      BY <1>1, <2>2, <3>1, DeclarationRuns DEF Here
    <3>3. OnOther(file, c) \subseteq Space(file) /\ EitherOther(file, c) \subseteq Space(file)
           /\ On(file, c) \subseteq Space(file)
      BY DEF OnOther, EitherOther, ToOther, On, To
    <3> QED BY <3>1, <3>2, <3>3, RunFrom, Inclusions DEF Inner
  <2> QED BY <1>1, <1>3, <2>2, EnterSame, NextIsStep, CallFacts, OtherSteps, OtherFacts,
             SequencesOfSteps DEF States, BlockStates
<1> QED BY <1>3 DEF ReturnDeclaration

(* None, or the first. *)
LEMMA ReturnTypesKeeps ==
  ASSUME IInv, BInv, ReturnTypes
  PROVE  BInv'
<1>1. Here /\ Head(todo).do = "returnTypes" /\ stack # <<>>
      /\ cur \in 1 .. Len(file) /\ \A kinds : State \in Reads(file, kinds) <=> Kind \in kinds
  <2>1. At("returnTypes")
    BY Zenon DEF ReturnTypes
  <2> QED BY <2>1, ReadsHere DEF Here, FreshNames
<1>2. ASSUME NEW k, Fits(file, Head(todo), {State}, k)
      PROVE  \E c : Inner(file, c) /\ State \in On(file, c) /\ On(file, c) \subseteq k
  BY <1>1, <1>2, OnFits, SMTT(40) DEF Here, Leads, OnToOn
<1>3. CASE Peek = "]"
  <2>1. Then(<<>>)
    BY <1>3 DEF ReturnTypes
  <2>2. ASSUME Regular(file), NEW k, Fits(file, Head(todo), {State}, k)
        PROVE  Run(file, <<>>, {State}, k)
    <3>1. PICK c : Inner(file, c) /\ State \in On(file, c) /\ On(file, c) \subseteq k
      BY <1>2, <2>2
    <3> QED BY <3>1, RunSkip
  <2> QED BY <1>1, <2>1, <2>2, ThenFits, SequencesOfSteps
<1>4. CASE Peek # "]"
  <2>1. Then(<<Call("type"), Call("moreReturnTypes")>>)
    BY <1>4 DEF ReturnTypes
  <2>2. ASSUME Regular(file), NEW k, Fits(file, Head(todo), {State}, k)
        PROVE  Run(file, <<Call("type"), Call("moreReturnTypes")>>, {State}, k)
    <3>1. PICK c : Inner(file, c) /\ State \in On(file, c) /\ On(file, c) \subseteq k
      BY <1>2, <2>2
    <3>2. Run(file, <<Call("type"), Call("moreReturnTypes")>>, On(file, c), On(file, c))
      BY <1>1, <2>2, <3>1, DeclarationRuns DEF Here
    <3> QED BY <1>1, <3>1, <3>2, RunFrom, Inclusions DEF Here, Inner
  <2> QED BY <1>1, <2>1, <2>2, ThenFits, CallFacts, SequencesOfSteps
<1> QED BY <1>3, <1>4 DEF ReturnTypes

(* The others. *)
LEMMA MoreReturnTypesKeeps ==
  ASSUME IInv, BInv, MoreReturnTypes
  PROVE  BInv'
<1>1. Here /\ Head(todo).do = "moreReturnTypes" /\ stack # <<>>
      /\ cur \in 1 .. Len(file) /\ \A kinds : State \in Reads(file, kinds) <=> Kind \in kinds
  <2>1. At("moreReturnTypes")
    BY Zenon DEF MoreReturnTypes
  <2> QED BY <2>1, ReadsHere DEF Here, FreshNames
<1>2. ASSUME NEW k, Fits(file, Head(todo), {State}, k)
      PROVE  \E c : Inner(file, c) /\ State \in On(file, c) /\ On(file, c) \subseteq k
  BY <1>1, <1>2, OnFits, SMTT(40) DEF Here, Leads, OnToOn
<1>3. CASE Peek = "]"
  <2>1. Then(<<>>)
    BY <1>3, Zenon DEF MoreReturnTypes
  <2>2. ASSUME Regular(file), NEW k, Fits(file, Head(todo), {State}, k)
        PROVE  Run(file, <<>>, {State}, k)
    <3>1. PICK c : Inner(file, c) /\ State \in On(file, c) /\ On(file, c) \subseteq k
      BY <1>2, <2>2
    <3> QED BY <3>1, RunSkip
  <2> QED BY <1>1, <2>1, <2>2, ThenFits, SequencesOfSteps
<1>4. CASE Peek = ","
  <2>1. Then(<<Next_, Call("type"), Call("moreReturnTypes")>>)
    BY <1>4, Zenon DEF MoreReturnTypes
  <2>2. ASSUME Regular(file), NEW k, Fits(file, Head(todo), {State}, k)
        PROVE  Run(file, <<Next_, Call("type"), Call("moreReturnTypes")>>, {State}, k)
    <3>1. PICK c : Inner(file, c) /\ State \in On(file, c) /\ On(file, c) \subseteq k
      BY <1>2, <2>2
    <3>2. Level(file, c) /\ file \in Seq(Kinds)
      BY <1>1, <3>1 DEF Here, Inner
    <3>3. State[1] = cur
      BY <1>1 DEF Here
    <3>4. PeekNext(file, State[1]) = ","
      BY <1>4, <3>3, Zenon DEF Peek
    <3>5. Fits(file, Next_, {State}, OnOther(file, c))
      BY <3>1, <3>2, <3>4, PeekFits, Zenon
    <3>6. Fits(file, Call("type"), OnOther(file, c), OnOther(file, c))
      BY <3>1, <3>2, OnFits, Inclusions DEF Call, Leads
    <3>7. Fits(file, Call("moreReturnTypes"), OnOther(file, c), On(file, c))
      BY <3>1, <3>2, OnFits, Inclusions DEF Call, Leads, OnToOn
    <3>8. Run(file, <<Next_, Call("type"), Call("moreReturnTypes")>>, {State}, On(file, c))
      BY <3>5, <3>6, <3>7, RunThree
    <3> QED BY <3>1, <3>8, RunWeaker
  <2> QED BY <1>1, <2>1, <2>2, ThenFits, NextIsStep, CallFacts, SequencesOfSteps
<1>5. CASE Peek \notin {"]", ","}
  <2>1. Then(<<Call("type"), Call("moreReturnTypes")>>)
    BY <1>5, Zenon DEF MoreReturnTypes
  <2>2. ASSUME Regular(file), NEW k, Fits(file, Head(todo), {State}, k)
        PROVE  Run(file, <<Call("type"), Call("moreReturnTypes")>>, {State}, k)
    <3>1. PICK c : Inner(file, c) /\ State \in On(file, c) /\ On(file, c) \subseteq k
      BY <1>2, <2>2
    <3>2. Run(file, <<Call("type"), Call("moreReturnTypes")>>, On(file, c), On(file, c))
      BY <1>1, <2>2, <3>1, DeclarationRuns DEF Here
    <3> QED BY <1>1, <3>1, <3>2, RunFrom, Inclusions DEF Here, Inner
  <2> QED BY <1>1, <2>1, <2>2, ThenFits, CallFacts, SequencesOfSteps
<1> QED BY <1>3, <1>4, <1>5, Zenon DEF MoreReturnTypes

(* The head of a message. *)
LEMMA MessageDeclKeeps ==
  ASSUME IInv, BInv, MessageDecl
  PROVE  BInv'
<1>1. Here /\ Head(todo).do = "messageDecl" /\ stack # <<>>
      /\ cur \in 1 .. Len(file) /\ \A kinds : State \in Reads(file, kinds) <=> Kind \in kinds
  <2>1. At("messageDecl")
    BY Zenon DEF MessageDecl
  <2> QED BY <2>1, ReadsHere DEF Here, FreshNames
<1>2. ASSUME NEW k, Fits(file, Head(todo), {State}, k)
      PROVE  \E c : /\ Inner(file, c) /\ State \in Either(file, c)
                    /\ EitherOther(file, c) \subseteq k
  BY <1>1, <1>2, EitherFits DEF Here, Leads
<1>3. CASE Enter("MESSAGE_DECL",
                 <<Verify({"msg"}), Next_, Verify({"x", "("}), Call("messageName"),
                   Call("messageParams"), Call("messageReturns")>>, "same")
  <2>2. ASSUME Regular(file), NEW k, Fits(file, Head(todo), {State}, k)
        PROVE  \E m : /\ Run(file, <<Verify({"msg"}), Next_, Verify({"x", "("}),
                                     Call("messageName"), Call("messageParams"),
                                     Call("messageReturns")>>, {State}, m)
                    /\ m \subseteq Space(file) /\ m \subseteq k
    <3>1. PICK c : /\ Inner(file, c) /\ State \in Either(file, c)
                   /\ EitherOther(file, c) \subseteq k
      BY <1>2, <2>2
    <3>2. Run(file, <<Verify({"msg"}), Next_, Verify({"x", "("}), Call("messageName"),
                      Call("messageParams"), Call("messageReturns")>>, Either(file, c),
                      EitherOther(file, c))
      BY <1>1, <2>2, <3>1, DeclarationRuns DEF Here
    <3>3. OnOther(file, c) \subseteq Space(file) /\ EitherOther(file, c) \subseteq Space(file)
           /\ On(file, c) \subseteq Space(file)
      BY DEF OnOther, EitherOther, ToOther, On, To
    <3> QED BY <3>1, <3>2, <3>3, RunFrom, Inclusions DEF Inner
  <2> QED BY <1>1, <1>3, <2>2, EnterSame, NextIsStep, CallFacts, OtherSteps, OtherFacts,
             SequencesOfSteps DEF States, BlockStates
<1> QED BY <1>3 DEF MessageDecl

(* A message may have a name. *)
LEMMA MessageNameKeeps ==
  ASSUME IInv, BInv, MessageName
  PROVE  BInv'
<1>1. Here /\ Head(todo).do = "messageName" /\ stack # <<>>
      /\ cur \in 1 .. Len(file) /\ \A kinds : State \in Reads(file, kinds) <=> Kind \in kinds
  <2>1. At("messageName")
    BY Zenon DEF MessageName
  <2> QED BY <2>1, ReadsHere DEF Here, FreshNames
<1>2. ASSUME NEW k, Fits(file, Head(todo), {State}, k)
      PROVE  \E c : Inner(file, c) /\ State \in ToOther(file, c) /\ ToOther(file, c) \subseteq k
  BY <1>1, <1>2, ToFits, SMTT(40) DEF Here, Leads, ToOtherToOther
<1>3. CASE Kind = "x"
  <2>1. Then(<<Next_>>)
    BY <1>3 DEF MessageName
  <2>2. ASSUME Regular(file), NEW k, Fits(file, Head(todo), {State}, k)
        PROVE  Run(file, <<Next_>>, {State}, k)
    <3>1. PICK c : Inner(file, c) /\ State \in ToOther(file, c) /\ ToOther(file, c) \subseteq k
      BY <1>2, <2>2
    <3>2. State \in OnOther(file, c) /\ Forward(file, c)
      BY <1>1, <1>3, <3>1, OtherHere, OtherFacts, Inclusions DEF Here, Inner, Level
    <3>3. Run(file, <<Next_>>, OnOther(file, c), ToOther(file, c))
      BY <1>1, <3>2, NextFits, RunOne DEF Here
    <3> QED BY <3>1, <3>2, <3>3, RunFrom
  <2> QED BY <1>1, <2>1, <2>2, ThenFits, NextIsStep, SequencesOfSteps
<1>4. CASE Kind # "x"
  <2>1. Then(<<>>)
    BY <1>4 DEF MessageName
  <2>2. ASSUME Regular(file), NEW k, Fits(file, Head(todo), {State}, k)
        PROVE  Run(file, <<>>, {State}, k)
    <3>1. PICK c : Inner(file, c) /\ State \in ToOther(file, c) /\ ToOther(file, c) \subseteq k
      BY <1>2, <2>2
    <3> QED BY <3>1, RunSkip
  <2> QED BY <1>1, <2>1, <2>2, ThenFits, SequencesOfSteps
<1> QED BY <1>3, <1>4 DEF MessageName

(* It may have parameters. *)
LEMMA MessageParamsKeeps ==
  ASSUME IInv, BInv, MessageParams
  PROVE  BInv'
<1>1. Here /\ Head(todo).do = "messageParams" /\ stack # <<>>
      /\ cur \in 1 .. Len(file) /\ \A kinds : State \in Reads(file, kinds) <=> Kind \in kinds
  <2>1. At("messageParams")
    BY Zenon DEF MessageParams
  <2> QED BY <2>1, ReadsHere DEF Here, FreshNames
<1>2. ASSUME NEW k, Fits(file, Head(todo), {State}, k)
      PROVE  \E c : /\ Inner(file, c) /\ State \in ToOther(file, c)
                    /\ EitherOther(file, c) \subseteq k
  BY <1>1, <1>2, ToFits, SMTT(40) DEF Here, Leads, ToOtherToEither
<1>3. CASE Kind \in {":", "("}
  <2>1. Then(<<Next_, Call("messageParam")>>)
    BY <1>3 DEF MessageParams
  <2>2. ASSUME Regular(file), NEW k, Fits(file, Head(todo), {State}, k)
        PROVE  Run(file, <<Next_, Call("messageParam")>>, {State}, k)
    <3>1. PICK c : /\ Inner(file, c) /\ State \in ToOther(file, c)
                   /\ EitherOther(file, c) \subseteq k
      BY <1>2, <2>2
    <3>2. State \in OnOther(file, c)
      BY <1>1, <1>3, <3>1, OtherHere, OtherFacts, Inclusions DEF Here, Inner
    <3>3. Run(file, <<Next_, Call("messageParam")>>, OnOther(file, c), EitherOther(file, c))
      BY <1>1, <2>2, <3>1, DeclarationRuns DEF Here
    <3> QED BY <3>1, <3>2, <3>3, RunFrom
  <2> QED BY <1>1, <2>1, <2>2, ThenFits, NextIsStep, CallFacts, SequencesOfSteps
<1>4. CASE Kind \notin {":", "("}
  <2>1. Then(<<>>)
    BY <1>4 DEF MessageParams
  <2>2. ASSUME Regular(file), NEW k, Fits(file, Head(todo), {State}, k)
        PROVE  Run(file, <<>>, {State}, k)
    <3>1. PICK c : /\ Inner(file, c) /\ State \in ToOther(file, c)
                   /\ EitherOther(file, c) \subseteq k
      BY <1>2, <2>2
    <3>2. State \in EitherOther(file, c)
      BY <1>1, <3>1, Inclusions DEF Here, Inner
    <3> QED BY <3>1, <3>2, RunSkip
  <2> QED BY <1>1, <2>1, <2>2, ThenFits, SequencesOfSteps
<1> QED BY <1>3, <1>4 DEF MessageParams

(* A parameter, or what is behind the last. *)
LEMMA MessageParamKeeps ==
  ASSUME IInv, BInv, MessageParam
  PROVE  BInv'
<1>1. Here /\ Head(todo).do = "messageParam" /\ stack # <<>>
      /\ cur \in 1 .. Len(file) /\ \A kinds : State \in Reads(file, kinds) <=> Kind \in kinds
  <2>1. At("messageParam")
    BY Zenon DEF MessageParam
  <2> QED BY <2>1, ReadsHere DEF Here, FreshNames
<1>2. ASSUME NEW k, Fits(file, Head(todo), {State}, k)
      PROVE  \E c : /\ Inner(file, c) /\ State \in ToOther(file, c)
                    /\ EitherOther(file, c) \subseteq k
  BY <1>1, <1>2, ToFits, SMTT(40) DEF Here, Leads, ToOtherToEither
<1>3. CASE Kind = "{"
  <2>1. Goes(<<>>, StepBack(cur))
    BY <1>3, Zenon DEF MessageParam
  <2>2. ASSUME Regular(file), NEW k, Fits(file, Head(todo), {State}, k)
        PROVE  Run(file, <<>>, {Moved(State, StepBack(cur))}, k)
    <3>1. PICK c : /\ Inner(file, c) /\ State \in ToOther(file, c)
                   /\ EitherOther(file, c) \subseteq k
      BY <1>2, <2>2
    <3>2. Moved(State, StepBack(cur)) \in OnOther(file, c)
      BY <1>1, <3>1, StepsBack, Inclusions DEF Here, Inner
    <3>3. Moved(State, StepBack(cur)) \in EitherOther(file, c)
      BY <1>1, <3>1, <3>2, Inclusions DEF Here, Inner
    <3> QED BY <3>1, <3>3, RunSkip
  <2> QED BY <1>1, <2>1, <2>2, GoesFits, SequencesOfSteps
<1>4. CASE Kind = "["
  <2>1. Then(<<>>)
    BY <1>4, Zenon DEF MessageParam
  <2>2. ASSUME Regular(file), NEW k, Fits(file, Head(todo), {State}, k)
        PROVE  Run(file, <<>>, {State}, k)
    <3>1. PICK c : /\ Inner(file, c) /\ State \in ToOther(file, c)
                   /\ EitherOther(file, c) \subseteq k
      BY <1>2, <2>2
    <3>2. State \in EitherOther(file, c)
      BY <1>1, <3>1, Inclusions DEF Here, Inner
    <3> QED BY <3>1, <3>2, RunSkip
  <2> QED BY <1>1, <2>1, <2>2, ThenFits, SequencesOfSteps
<1>5. CASE Kind = ")"
  <2>1. Then(<<Next_>>)
    BY <1>5, Zenon DEF MessageParam
  <2>2. ASSUME Regular(file), NEW k, Fits(file, Head(todo), {State}, k)
        PROVE  Run(file, <<Next_>>, {State}, k)
    <3>1. PICK c : /\ Inner(file, c) /\ State \in ToOther(file, c)
                   /\ EitherOther(file, c) \subseteq k
      BY <1>2, <2>2
    <3>2. State \in OnOther(file, c) /\ Level(file, c) /\ Forward(file, c)
      BY <1>1, <1>5, <3>1, OtherHere, OtherFacts, Inclusions DEF Here, Inner, Level
    <3>3. Run(file, <<Next_>>, OnOther(file, c), ToOther(file, c))
      BY <1>1, <3>2, NextFits, RunOne DEF Here
    <3>4. ToOther(file, c) \subseteq k
      BY <1>1, <3>1, <3>2, Inclusions DEF Here
    <3> QED BY <3>2, <3>3, <3>4, RunFrom
  <2> QED BY <1>1, <2>1, <2>2, ThenFits, NextIsStep, SequencesOfSteps
<1>6. CASE Kind \notin {"{", "[", ")"}
  <2>1. Then(<<Call("param"), Next_, Call("paramComma"), Call("messageParam")>>)
    BY <1>6, Zenon DEF MessageParam
  <2>2. ASSUME Regular(file), NEW k, Fits(file, Head(todo), {State}, k)
        PROVE  Run(file, <<Call("param"), Next_, Call("paramComma"), Call("messageParam")>>,
                   {State}, k)
    <3>1. PICK c : /\ Inner(file, c) /\ State \in ToOther(file, c)
                   /\ EitherOther(file, c) \subseteq k
      BY <1>2, <2>2
    <3>2. Run(file, <<Call("param"), Next_, Call("paramComma"), Call("messageParam")>>,
              ToOther(file, c), EitherOther(file, c))
      BY <1>1, <2>2, <3>1, DeclarationRuns DEF Here
    <3> QED BY <3>1, <3>2, RunFrom
  <2> QED BY <1>1, <2>1, <2>2, ThenFits, NextIsStep, CallFacts, SequencesOfSteps
<1> QED BY <1>3, <1>4, <1>5, <1>6, Zenon DEF MessageParam

(* A comma behind a parameter. *)
LEMMA ParamCommaKeeps ==
  ASSUME IInv, BInv, ParamComma
  PROVE  BInv'
<1>1. Here /\ Head(todo).do = "paramComma" /\ stack # <<>>
      /\ cur \in 1 .. Len(file) /\ \A kinds : State \in Reads(file, kinds) <=> Kind \in kinds
  <2>1. At("paramComma")
    BY Zenon DEF ParamComma
  <2> QED BY <2>1, ReadsHere DEF Here, FreshNames
<1>2. ASSUME NEW k, Fits(file, Head(todo), {State}, k)
      PROVE  \E c : Inner(file, c) /\ State \in ToOther(file, c) /\ ToOther(file, c) \subseteq k
  BY <1>1, <1>2, ToFits, SMTT(40) DEF Here, Leads, ToOtherToOther
<1>3. CASE Kind = ","
  <2>1. Then(<<Next_>>)
    BY <1>3, Zenon DEF ParamComma
  <2>2. ASSUME Regular(file), NEW k, Fits(file, Head(todo), {State}, k)
        PROVE  Run(file, <<Next_>>, {State}, k)
    <3>1. PICK c : Inner(file, c) /\ State \in ToOther(file, c) /\ ToOther(file, c) \subseteq k
      BY <1>2, <2>2
    <3>2. State \in Reads(file, Others)
      BY <1>1, <1>3, Zenon DEF Others, Kinds, Braces
    <3>3. State \in OnOther(file, c) /\ Forward(file, c)
      BY <1>1, <3>1, <3>2, OtherHere, Inclusions DEF Here, Inner, Level
    <3>4. Run(file, <<Next_>>, OnOther(file, c), ToOther(file, c))
      BY <1>1, <3>3, NextFits, RunOne DEF Here
    <3> QED BY <3>1, <3>3, <3>4, RunFrom
  <2> QED BY <1>1, <2>1, <2>2, ThenFits, NextIsStep, SequencesOfSteps
<1>4. CASE Kind # ","
  <2>1. Then(<<>>)
    BY <1>4, Zenon DEF ParamComma
  <2>2. ASSUME Regular(file), NEW k, Fits(file, Head(todo), {State}, k)
        PROVE  Run(file, <<>>, {State}, k)
    <3>1. PICK c : Inner(file, c) /\ State \in ToOther(file, c) /\ ToOther(file, c) \subseteq k
      BY <1>2, <2>2
    <3> QED BY <3>1, RunSkip
  <2> QED BY <1>1, <2>1, <2>2, ThenFits, SequencesOfSteps
<1> QED BY <1>3, <1>4, Zenon DEF ParamComma

(* It may return something. *)
LEMMA MessageReturnsKeeps ==
  ASSUME IInv, BInv, MessageReturns
  PROVE  BInv'
<1>1. Here /\ Head(todo).do = "messageReturns" /\ stack # <<>>
      /\ cur \in 1 .. Len(file) /\ \A kinds : State \in Reads(file, kinds) <=> Kind \in kinds
  <2>1. At("messageReturns")
    BY Zenon DEF MessageReturns
  <2> QED BY <2>1, ReadsHere DEF Here, FreshNames
<1>2. ASSUME NEW k, Fits(file, Head(todo), {State}, k)
      PROVE  \E c : /\ Inner(file, c) /\ State \in EitherOther(file, c)
                    /\ EitherOther(file, c) \subseteq k
  <2>1. \E c : Inner(file, c) /\ Leads({State}, EitherOther(file, c), EitherOther(file, c), k)
    BY <1>1, <1>2, EitherFits DEF Here
  <2> QED BY <2>1 DEF Leads
<1>3. CASE Kind = "["
  <2>1. Then(<<Call("returns"), Verify({"]"})>>)
    BY <1>3 DEF MessageReturns
  <2>2. ASSUME Regular(file), NEW k, Fits(file, Head(todo), {State}, k)
        PROVE  Run(file, <<Call("returns"), Verify({"]"})>>, {State}, k)
    <3>1. PICK c : /\ Inner(file, c) /\ State \in EitherOther(file, c)
                   /\ EitherOther(file, c) \subseteq k
      BY <1>2, <2>2
    <3>2. Run(file, <<Call("returns"), Verify({"]"})>>, EitherOther(file, c), OnOther(file, c))
      BY <1>1, <2>2, <3>1, DeclarationRuns DEF Here
    <3> QED BY <1>1, <3>1, <3>2, RunFrom, Inclusions DEF Here, Inner
  <2> QED BY <1>1, <2>1, <2>2, ThenFits, CallFacts, OtherSteps, OtherFacts, SequencesOfSteps
<1>4. CASE Kind # "["
  <2>1. Then(<<>>)
    BY <1>4 DEF MessageReturns
  <2>2. ASSUME Regular(file), NEW k, Fits(file, Head(todo), {State}, k)
        PROVE  Run(file, <<>>, {State}, k)
    <3>1. PICK c : /\ Inner(file, c) /\ State \in EitherOther(file, c)
                   /\ EitherOther(file, c) \subseteq k
      BY <1>2, <2>2
    <3> QED BY <3>1, RunSkip
  <2> QED BY <1>1, <2>1, <2>2, ThenFits, SequencesOfSteps
<1> QED BY <1>3, <1>4 DEF MessageReturns
(* The block of a message. *)
LEMMA MessageBlockKeeps ==
  ASSUME IInv, BInv, MessageBlock
  PROVE  BInv'
<1> DEFINE entries == <<Brace_, Next_, Call("messageStatements"), EndBrace_>>
<1>1. Here /\ Head(todo).do = "messageBlock" /\ stack # <<>>
  <2>1. At("messageBlock")
    BY Zenon DEF MessageBlock
  <2> QED BY <2>1, ReadsHere DEF Here, FreshNames
<1>2. Enter("MESSAGE_BLOCK", entries, "same")
  BY Zenon DEF MessageBlock, Brace_, EndBrace_
<1>3. entries \in Seq(Steps)
  BY NamedSteps, NextIsStep, CallFacts, SequencesOfSteps
<1>4. ASSUME Regular(file), NEW k, Fits(file, Head(todo), {State}, k)
      PROVE  \E m : /\ Run(file, entries, {State}, m)
                    /\ \A x \in m : Result(x, "same") \in k /\ EndsBlock(file, cur, x[1])
  <2>1. PICK c : Inner(file, c) /\ State \in To(file, c) /\ On(file, c) \subseteq k
    BY <1>1, <1>4, ToFits DEF Here, Leads
  <2> DEFINE h == Headed(file, c, cur)
             i == Opened(file, h)
  <2>2. file \in Seq(Kinds) /\ cur \in 1 .. Len(file) + 1 /\ cur - 1 \in c /\ Level(file, c)
        /\ State \in Space(file) /\ State[1] = cur
    BY <1>1, <2>1 DEF Here, To, Inner
  <2>3. cur - 1 \in h /\ h \subseteq c
    BY <2>1, <2>2, HeadBegins
  <2>4. {State} \subseteq To(file, h) /\ Safe(file, {State})
    <3>1. Safe(file, {State})
      BY <2>1, <2>2, SafeWithin, Inclusions
    <3> QED BY <2>2, <2>3, <3>1 DEF To
  <2>5. Nested(file, i, c) /\ Forward(file, i)
    BY <2>1, <2>2, <2>3, InnerLevels DEF Nested, Inner, Level
  <2>6. \A x \in AtEnd(file, i) : EndsBlock(file, cur, x[1])
    BY <2>2, HeadedEnds
  <2>7. Run(file, entries, {State}, AtEnd(file, i))
    <3>1. Fits(file, Brace_, {State}, OnFirst(file, i))
      BY <2>2, <2>4, BlockFitsBrace
    <3> HIDE DEF i
    <3>2. Fits(file, Next_, OnFirst(file, i), ToFirst(file, i))
      BY <2>2, <2>5, NextFits
    <3>3. Fits(file, Call("messageStatements"), ToFirst(file, i), Ending(file, i, c))
      BY <2>2, <2>5, BlockFits DEF Call, Leads, FirstToEnding
    <3>4. Fits(file, EndBrace_, Ending(file, i, c), AtEnd(file, i))
      BY <2>2, <2>5, EndFits
    <3> QED BY <3>1, <3>2, <3>3, <3>4, RunFour
  <2> HIDE DEF i
  <2>8. AtEnd(file, i) \subseteq On(file, c) /\ On(file, c) \subseteq Space(file)
    <3>1. Encloses(file, i, c)
      BY <2>5 DEF Nested
    <3> QED BY <2>2, <3>1, PassesClosing DEF On
  <2>9. \A x \in AtEnd(file, i) : Result(x, "same") \in k
    BY <2>1, <2>2, <2>8, Returned
  <2> QED BY <2>6, <2>7, <2>9
<1> QED BY <1>1, <1>2, <1>3, <1>4, EnterFits DEF States

(* Its statements, if there are any. *)
LEMMA MessageStatementsKeeps ==
  ASSUME IInv, BInv, MessageStatements
  PROVE  BInv'
<1>1. Here /\ Head(todo).do = "messageStatements" /\ stack # <<>>
      /\ cur \in 1 .. Len(file) /\ \A kinds : State \in Reads(file, kinds) <=> Kind \in kinds
  <2>1. At("messageStatements")
    BY Zenon DEF MessageStatements
  <2> QED BY <2>1, ReadsHere DEF Here, FreshNames
<1>2. ASSUME NEW k, Fits(file, Head(todo), {State}, k)
      PROVE  \E c, o : /\ Nested(file, c, o) /\ State \in ToFirst(file, c)
                       /\ Ending(file, c, o) \subseteq k
  BY <1>1, <1>2, BlockFits, SMTT(40) DEF Here, Leads, FirstToEnding
<1>3. CASE Kind = "}"
  <2>1. Then(<<>>)
    BY <1>3, Zenon DEF MessageStatements
  <2>2. ASSUME Regular(file), NEW k, Fits(file, Head(todo), {State}, k)
        PROVE  Run(file, <<>>, {State}, k)
    <3>1. PICK c, o : /\ Nested(file, c, o) /\ State \in ToFirst(file, c)
                      /\ Ending(file, c, o) \subseteq k
      BY <1>2, <2>2
    <3>2. State \in AtEnd(file, c)
      BY <1>1, <1>3, <3>1, Inclusions, Zenon DEF Here, Nested, Inner, AtEnd
    <3> QED BY <3>1, <3>2, RunSkip DEF Ending
  <2> QED BY <1>1, <2>1, <2>2, ThenFits, SequencesOfSteps
<1>4. CASE Kind # "}"
  <2>1. Then(<<Call("statements")>>)
    BY <1>4, Zenon DEF MessageStatements
  <2>2. ASSUME Regular(file), NEW k, Fits(file, Head(todo), {State}, k)
        PROVE  Run(file, <<Call("statements")>>, {State}, k)
    <3>1. PICK c, o : /\ Nested(file, c, o) /\ State \in ToFirst(file, c)
                      /\ Ending(file, c, o) \subseteq k
      BY <1>2, <2>2
    <3>2. Fits(file, Call("statements"), {State}, k)
      BY <1>1, <3>1, BlockFits, SMTT(40) DEF Here, Call, Leads, FirstToEnding
    <3> QED BY <3>2, RunOne
  <2> QED BY <1>1, <2>1, <2>2, ThenFits, CallFacts, SequencesOfSteps
<1> QED BY <1>3, <1>4
(* Expressions.  A keyword other than return is none.                      *)
LEMMA ExpressionKeeps ==
  ASSUME IInv, BInv, NEW d, d # "leave", d \notin FreshNames, NEW message \in Seq(Steps),
         Expression(d, message),
         Here /\ Head(todo).do = d /\ Regular(file) =>
           \A k : Fits(file, Head(todo), {State}, k) =>
             \E c : /\ Inner(file, c) /\ State \in Either(file, c)
                    /\ OnNode(file, c) \subseteq k
                    /\ On(file, c) \subseteq k \/ State \in Reads(file, {"x", "("})
                    /\ Run(file, message, {State}, OnNode(file, c))
  PROVE  BInv'
<1>1. Here /\ Head(todo).do = d /\ stack # <<>> /\ file \in Seq(Kinds)
      /\ cur \in 1 .. Len(file) /\ \A kinds : State \in Reads(file, kinds) <=> Kind \in kinds
  <2>1. At(d)
    BY DEF Expression
  <2> QED BY <2>1, ReadsHere DEF Here
<1>2. ASSUME Regular(file), NEW k, Fits(file, Head(todo), {State}, k)
      PROVE  \E c : /\ Inner(file, c) /\ State \in Either(file, c)
                    /\ OnNode(file, c) \subseteq k
                    /\ On(file, c) \subseteq k \/ State \in Reads(file, {"x", "("})
                    /\ Run(file, message, {State}, OnNode(file, c))
  BY <1>1, <1>2
<1>3. \A c : OnNode(file, c) \subseteq Space(file) /\ OnNode(file, c) \subseteq On(file, c)
  BY DEF OnNode, On
<1>4. "EXPRESSION" \in States \ BlockStates
  BY DEF States, BlockStates
<1>5. Keywords \cap {"x", "("} = {}
  BY DEF Keywords
<1>6. CASE Kind = "return" /\ Enter("EXPRESSION", <<Call("returnExpression")>>, "same")
  <2>1. ASSUME Regular(file), NEW k, Fits(file, Head(todo), {State}, k)
        PROVE  \E m : /\ Run(file, <<Call("returnExpression")>>, {State}, m)
                      /\ m \subseteq Space(file) /\ m \subseteq k
    <3>1. PICK c : Inner(file, c) /\ State \in Either(file, c) /\ OnNode(file, c) \subseteq k
      BY <1>2, <2>1
    <3>2. Kind \in Others
      BY <1>6, OtherFacts DEF Keywords
    <3>3. State \in On(file, c)
      BY <1>1, <3>1, <3>2, OtherHere DEF Inner
    <3>4. Fits(file, Call("returnExpression"), {State}, OnNode(file, c))
      BY <1>1, <3>1, <3>3, OnFits DEF Call, Leads, OnToNode
    <3> QED BY <1>3, <3>1, <3>4, RunOne
  <2> QED BY <1>1, <1>4, <1>6, <2>1, EnterSame, CallFacts, SequencesOfSteps
<1>7. CASE Kind \in Keywords \ {"return"} /\ Enter("EXPRESSION", <<>>, "null")
  <2>1. ASSUME Regular(file), NEW k, Fits(file, Head(todo), {State}, k)
        PROVE  Result(State, "null") \in k
    <3>1. PICK c : /\ Inner(file, c) /\ State \in Either(file, c)
                   /\ On(file, c) \subseteq k \/ State \in Reads(file, {"x", "("})
      BY <1>2, <2>1
    <3>2. Kind \in Others /\ On(file, c) \subseteq k
      BY <1>1, <1>5, <1>7, <3>1, OtherFacts
    <3>3. State \in On(file, c)
      BY <1>1, <3>1, <3>2, OtherHere DEF Inner
    <3> QED BY <1>1, <3>2, <3>3, Returned
  <2>2. ASSUME Regular(file), NEW k, Fits(file, Head(todo), {State}, k)
        PROVE  \E m : /\ Run(file, <<>>, {State}, m)
                      /\ \A x \in m : /\ Result(x, "null") \in k
                                      /\ "EXPRESSION" \in BlockStates => EndsBlock(file, cur, x[1])
    <3>1. Run(file, <<>>, {State}, {State})
      BY RunNone
    <3>2. \A x \in {State} : Result(x, "null") \in k
      BY <2>1, <2>2
    <3> QED BY <1>4, <3>1, <3>2
  <2> QED BY <1>1, <1>4, <1>7, <2>2, EnterFits, SequencesOfSteps
<1>8. CASE Kind = "(" /\ Enter("EXPRESSION", <<Call("group")>>, "same")
  <2>1. ASSUME Regular(file), NEW k, Fits(file, Head(todo), {State}, k)
        PROVE  \E m : /\ Run(file, <<Call("group")>>, {State}, m)
                      /\ m \subseteq Space(file) /\ m \subseteq k
    <3>1. PICK c : Inner(file, c) /\ State \in Either(file, c) /\ OnNode(file, c) \subseteq k
      BY <1>2, <2>1
    <3>2. Fits(file, Call("group"), {State}, OnNode(file, c))
      BY <1>1, <3>1, EitherFits DEF Call, Leads, EitherToNode
    <3> QED BY <1>3, <3>1, <3>2, RunOne
  <2> QED BY <1>1, <1>4, <1>8, <2>1, EnterSame, CallFacts, SequencesOfSteps
<1>9. CASE Enter("EXPRESSION", message, "same")
  <2>1. ASSUME Regular(file), NEW k, Fits(file, Head(todo), {State}, k)
        PROVE  \E m : /\ Run(file, message, {State}, m)
                      /\ m \subseteq Space(file) /\ m \subseteq k
    BY <1>2, <1>3, <2>1
  <2> QED BY <1>1, <1>4, <1>9, <2>1, EnterSame
<1> QED BY <1>6, <1>7, <1>8, <1>9 DEF Expression

(* With a message behind it, or behind a group. *)
LEMMA AnyExpressionKeeps ==
  ASSUME IInv, BInv, AnyExpression
  PROVE  BInv'
<1>1. CASE Expression("expression", <<Call("lhs"), Call("send")>>)
  <2> DEFINE message == <<Call("lhs"), Call("send")>>
  <2>1. ASSUME Here, Head(todo).do = "expression", Regular(file),
               NEW k, Fits(file, Head(todo), {State}, k)
        PROVE  \E c : /\ Inner(file, c) /\ State \in Either(file, c)
                      /\ OnNode(file, c) \subseteq k
                      /\ On(file, c) \subseteq k \/ State \in Reads(file, {"x", "("})
                      /\ Run(file, message, {State}, OnNode(file, c))
    <3>1. PICK c : /\ Inner(file, c)
                   /\ \/ Leads({State}, Either(file, c), On(file, c), k)
                      \/ Leads({State}, Either(file, c) \cap Reads(file, {"x", "("}),
                               OnNode(file, c), k)
      BY <2>1, EitherFits DEF Here
    <3>2. /\ State \in Either(file, c) /\ OnNode(file, c) \subseteq k
          /\ On(file, c) \subseteq k \/ State \in Reads(file, {"x", "("})
      BY <3>1 DEF Leads, OnNode
    <3>3. Run(file, <<Call("lhs"), Call("send")>>, Either(file, c), OnNode(file, c))
      BY <2>1, <3>1, ExpressionRuns DEF Here
    <3>4. Run(file, message, {State}, OnNode(file, c))
      BY <3>2, <3>3, RunFrom
    <3> QED BY <3>1, <3>2, <3>4
  <2>2. message \in Seq(Steps)
    BY CallFacts, SequencesOfSteps
  <2>3. "expression" # "leave" /\ "expression" \notin FreshNames
    BY DEF FreshNames
  <2>4. Expression("expression", message)
    BY <1>1
  <2> HIDE DEF message
  <2> QED BY <2>1, <2>2, <2>3, <2>4, ExpressionKeeps
<1>2. CASE Expression("expressionOfGroup", <<Call("sendToGroup")>>)
  <2> DEFINE message == <<Call("sendToGroup")>>
  <2>1. ASSUME Here, Head(todo).do = "expressionOfGroup", Regular(file),
               NEW k, Fits(file, Head(todo), {State}, k)
        PROVE  \E c : /\ Inner(file, c) /\ State \in Either(file, c)
                      /\ OnNode(file, c) \subseteq k
                      /\ On(file, c) \subseteq k \/ State \in Reads(file, {"x", "("})
                      /\ Run(file, message, {State}, OnNode(file, c))
    <3>1. PICK c : Inner(file, c) /\ State \in On(file, c) /\ On(file, c) \subseteq k
      BY <2>1, OnFits DEF Here, Leads, OnToOn
    <3>2. State \in Either(file, c) /\ OnNode(file, c) \subseteq k
      BY <3>1 DEF Either, OnNode
    <3>3. Fits(file, Call("sendToGroup"), {State}, OnNode(file, c))
      BY <2>1, <3>1, OnFits DEF Here, Call, Leads, OnToNode
    <3> QED BY <3>1, <3>2, <3>3, RunOne
  <2>2. message \in Seq(Steps)
    BY CallFacts, SequencesOfSteps
  <2>3. "expressionOfGroup" # "leave" /\ "expressionOfGroup" \notin FreshNames
    BY DEF FreshNames
  <2>4. Expression("expressionOfGroup", message)
    BY <1>2
  <2> HIDE DEF message
  <2> QED BY <2>1, <2>2, <2>3, <2>4, ExpressionKeeps
<1> QED BY <1>1, <1>2 DEF AnyExpression
(* What is returned. *)
LEMMA ReturnExpressionKeeps ==
  ASSUME IInv, BInv, ReturnExpression
  PROVE  BInv'
<1>1. Here /\ Head(todo).do = "returnExpression" /\ stack # <<>>
  <2>1. Pending("returnExpression")
    BY Zenon DEF ReturnExpression
  <2> QED BY <2>1, BeginsHere DEF Here, FreshNames
<1>2. ASSUME NEW k, Fits(file, Head(todo), {State}, k)
      PROVE  \E c : Inner(file, c) /\ State \in On(file, c) /\ OnNode(file, c) \subseteq k
  BY <1>1, <1>2, OnFits, SMTT(40) DEF Here, Leads, OnToNode
<1>3. CASE Enter("RETURN_EXPRESSION", <<Next_, Call("expression")>>, None)
  <2>2. ASSUME Regular(file), NEW k, Fits(file, Head(todo), {State}, k)
        PROVE  \E c : /\ Run(file, <<Next_, Call("expression")>>, {State}, On(file, c))
                    /\ OnNode(file, c) \subseteq k
    <3>1. PICK c : Inner(file, c) /\ State \in On(file, c) /\ OnNode(file, c) \subseteq k
      BY <1>2, <2>2
    <3>2. Run(file, <<Next_, Call("expression")>>, On(file, c), On(file, c))
      BY <1>1, <2>2, <3>1, ExpressionRuns DEF Here
    <3> QED BY <3>1, <3>2, RunFrom
  <2>3. None \in Kinds \cup {None}
    OBVIOUS
  <2> QED BY <1>1, <1>3, <2>2, <2>3, EnterNode, NextIsStep, CallFacts, SequencesOfSteps
             DEF States, BlockStates
<1> QED BY <1>3 DEF ReturnExpression

(* An expression in parentheses. *)
LEMMA GroupedExpressionKeeps ==
  ASSUME IInv, BInv, GroupedExpression
  PROVE  BInv'
<1>1. Here /\ Head(todo).do = "group" /\ stack # <<>>
      /\ cur \in 1 .. Len(file) /\ \A kinds : State \in Reads(file, kinds) <=> Kind \in kinds
  <2>1. At("group")
    BY Zenon DEF GroupedExpression
  <2> QED BY <2>1, ReadsHere DEF Here, FreshNames
<1>2. ASSUME NEW k, Fits(file, Head(todo), {State}, k)
      PROVE  \E c : Inner(file, c) /\ State \in Either(file, c) /\ OnNode(file, c) \subseteq k
  BY <1>1, <1>2, EitherFits DEF Here, Leads, EitherToNode
<1>3. CASE Enter("GROUPED_EXPRESSION",
                 <<Verify({"("}), Next_, Call("expression"), Call("closeParen"),
                   Verify({")"})>>, "(")
  <2>2. ASSUME Regular(file), NEW k, Fits(file, Head(todo), {State}, k)
        PROVE  \E c : /\ Run(file, <<Verify({"("}), Next_, Call("expression"),
                                     Call("closeParen"), Verify({")"})>>, {State},
                                     On(file, c))
                    /\ OnNode(file, c) \subseteq k
    <3>1. PICK c : Inner(file, c) /\ State \in Either(file, c) /\ OnNode(file, c) \subseteq k
      BY <1>2, <2>2
    <3>2. Run(file, <<Verify({"("}), Next_, Call("expression"), Call("closeParen"),
                      Verify({")"})>>, Either(file, c), OnOther(file, c))
      BY <1>1, <2>2, <3>1, ExpressionRuns DEF Here
    <3> QED BY <1>1, <3>1, <3>2, RunFrom, Inclusions DEF Here, Inner
  <2>3. "(" \in Kinds \cup {None}
    BY ResultFacts
  <2> QED BY <1>1, <1>3, <2>2, <2>3, EnterNode, NextIsStep, CallFacts, OtherSteps,
             OtherFacts, SequencesOfSteps DEF States, BlockStates
<1> QED BY <1>3 DEF GroupedExpression

(* Before a closing parenthesis. *)
LEMMA CloseParenKeeps ==
  ASSUME IInv, BInv, CloseParen
  PROVE  BInv'
<1>1. Here /\ Head(todo).do = "closeParen" /\ stack # <<>>
      /\ cur \in 1 .. Len(file) /\ \A kinds : State \in Reads(file, kinds) <=> Kind \in kinds
  <2>1. At("closeParen")
    BY Zenon DEF CloseParen
  <2> QED BY <2>1, ReadsHere DEF Here, FreshNames
<1>2. ASSUME NEW k, Fits(file, Head(todo), {State}, k)
      PROVE  \E c : Inner(file, c) /\ State \in On(file, c) /\ Either(file, c) \subseteq k
  BY <1>1, <1>2, OnFits, SMTT(40) DEF Here, Leads
<1>3. CASE Kind # ")" /\ Peek = ")"
  <2>1. Then(<<Next_>>)
    BY <1>3 DEF CloseParen
  <2>2. ASSUME Regular(file), NEW k, Fits(file, Head(todo), {State}, k)
        PROVE  Run(file, <<Next_>>, {State}, k)
    <3>1. PICK c : Inner(file, c) /\ State \in On(file, c) /\ Either(file, c) \subseteq k
      BY <1>2, <2>2
    <3>2. Run(file, <<Next_>>, On(file, c), To(file, c))
      BY <1>1, <3>1, NextFits, RunOne DEF Here, Inner, Level
    <3>3. To(file, c) \subseteq k
      BY <1>1, <3>1, Inclusions DEF Here, Inner
    <3> QED BY <3>1, <3>2, <3>3, RunFrom
  <2> QED BY <1>1, <2>1, <2>2, ThenFits, NextIsStep, SequencesOfSteps
<1>4. CASE ~(Kind # ")" /\ Peek = ")")
  <2>1. Then(<<>>)
    BY <1>4 DEF CloseParen
  <2>2. ASSUME Regular(file), NEW k, Fits(file, Head(todo), {State}, k)
        PROVE  Run(file, <<>>, {State}, k)
    <3>1. PICK c : Inner(file, c) /\ State \in On(file, c) /\ Either(file, c) \subseteq k
      BY <1>2, <2>2
    <3>2. State \in Either(file, c)
      BY <1>1, <3>1, Inclusions DEF Here, Inner
    <3> QED BY <3>1, <3>2, RunSkip
  <2> QED BY <1>1, <2>1, <2>2, ThenFits, SequencesOfSteps
<1> QED BY <1>3, <1>4 DEF CloseParen

(* The left hand side of an expression. *)
LEMMA BuildLhsExpressionKeeps ==
  ASSUME IInv, BInv, BuildLhsExpression
  PROVE  BInv'
<1>1. Here /\ Head(todo).do = "lhs" /\ stack # <<>>
      /\ cur \in 1 .. Len(file) /\ \A kinds : State \in Reads(file, kinds) <=> Kind \in kinds
  <2>1. At("lhs")
    BY Zenon DEF BuildLhsExpression
  <2> QED BY <2>1, ReadsHere DEF Here, FreshNames
<1>2. ASSUME NEW k, Fits(file, Head(todo), {State}, k)
      PROVE  \E c : Inner(file, c) /\ State \in Either(file, c) /\ On(file, c) \subseteq k
  BY <1>1, <1>2, EitherFits, SMTT(40) DEF Here, Leads, EitherToOn
<1>3. CASE Then(<<Call("instance")>>)
  <2>2. ASSUME Regular(file), NEW k, Fits(file, Head(todo), {State}, k)
        PROVE  Run(file, <<Call("instance")>>, {State}, k)
    <3>1. PICK c : Inner(file, c) /\ State \in Either(file, c) /\ On(file, c) \subseteq k
      BY <1>2, <2>2
    <3>2. Fits(file, Call("instance"), {State}, k)
      BY <1>1, <3>1, EitherFits, SMTT(40) DEF Here, Call, Leads, EitherToOn
    <3> QED BY <3>2, RunOne
  <2> QED BY <1>1, <1>3, <2>2, ThenFits, CallFacts, SequencesOfSteps
<1>4. CASE Then(<<Call("variableDef")>>)
  <2>2. ASSUME Regular(file), NEW k, Fits(file, Head(todo), {State}, k)
        PROVE  Run(file, <<Call("variableDef")>>, {State}, k)
    <3>1. PICK c : Inner(file, c) /\ State \in Either(file, c) /\ On(file, c) \subseteq k
      BY <1>2, <2>2
    <3>2. OnNode(file, c) \subseteq k
      BY <3>1 DEF OnNode
    <3>3. Fits(file, Call("variableDef"), {State}, k)
      BY <1>1, <3>1, <3>2, EitherFits, SMTT(40) DEF Here, Call, Leads, EitherToNode
    <3> QED BY <3>3, RunOne
  <2> QED BY <1>1, <1>4, <2>2, ThenFits, CallFacts, SequencesOfSteps
<1>5. CASE Fail
  BY <1>1, <1>5, ErrorFits
<1> QED BY <1>3, <1>4, <1>5 DEF BuildLhsExpression

(* A message is sent. *)
LEMMA SendMessageKeeps ==
  ASSUME IInv, BInv, SendMessage
  PROVE  BInv'
<1>1. PICK d \in {"send", "sendToGroup"}, kind \in {Kind, Peek} :
        At(d) /\ Enter("SEND_MESSAGE", <<Next_, Call("message")>>, kind)
  BY DEF SendMessage
<1>2. Here /\ Head(todo).do = d /\ stack # <<>> /\ cur \in 1 .. Len(file)
      /\ file \in Seq(Kinds) /\ Len(file) \in Nat
  BY <1>1, ReadsHere DEF Here, FreshNames
<1>3. kind \in Kinds \cup {None}
  <2>1. Peek \in Kinds \cup {None}
    BY <1>2 DEF Peek, PeekNext
  <2> QED BY <1>2, <2>1, ReadsKind
<1>4. ASSUME Regular(file), NEW k, Fits(file, Head(todo), {State}, k)
      PROVE  \E c : /\ Run(file, <<Next_, Call("message")>>, {State}, On(file, c))
                    /\ OnNode(file, c) \subseteq k
  <2>1. PICK c : Inner(file, c) /\ State \in On(file, c) /\ OnNode(file, c) \subseteq k
    BY <1>2, <1>4, OnFits DEF Leads, OnToNode
  <2>2. Run(file, <<Next_, Call("message")>>, On(file, c), On(file, c))
    BY <1>2, <2>1, ExpressionRuns
  <2> QED BY <2>1, <2>2, RunFrom
<1> QED BY <1>1, <1>2, <1>3, <1>4, EnterNode, NextIsStep, CallFacts, SequencesOfSteps
        DEF States, BlockStates

(* An instance. *)
LEMMA InstanceKeeps ==
  ASSUME IInv, BInv, Instance
  PROVE  BInv'
<1>1. Here /\ Head(todo).do = "instance" /\ stack # <<>>
      /\ cur \in 1 .. Len(file) /\ \A kinds : State \in Reads(file, kinds) <=> Kind \in kinds
  <2>1. At("instance")
    BY Zenon DEF Instance
  <2> QED BY <2>1, ReadsHere DEF Here, FreshNames
<1>2. ASSUME NEW k, Fits(file, Head(todo), {State}, k)
      PROVE  \E c : Inner(file, c) /\ State \in Either(file, c) /\ On(file, c) \subseteq k
  BY <1>1, <1>2, EitherFits, SMTT(40) DEF Here, Leads, EitherToOn
<1>3. CASE Kind = "7" /\ Enter("INSTANCE", <<>>, "7")
  <2>1. Enter("INSTANCE", <<>>, "7")
    BY <1>3 DEF Instance
  <2>2. ASSUME Regular(file), NEW k, Fits(file, Head(todo), {State}, k)
        PROVE  \E c : /\ Run(file, <<>>, {State}, On(file, c))
                    /\ OnNode(file, c) \subseteq k
    <3>1. PICK c : Inner(file, c) /\ State \in Either(file, c) /\ On(file, c) \subseteq k
      BY <1>2, <2>2
    <3>2. State \in OnOther(file, c) /\ State \in On(file, c) /\ State \in To(file, c)
      BY <1>1, <1>3, <3>1, OtherHere, OtherFacts, Inclusions DEF Here, Inner
    <3>3. OnNode(file, c) \subseteq k
      BY <3>1 DEF OnNode
    <3> QED BY <3>2, <3>3, RunSkip
  <2>3. "7" \in Kinds \cup {None}
    BY ResultFacts
  <2> QED BY <1>1, <2>1, <2>2, <2>3, EnterNode, SequencesOfSteps DEF States, BlockStates
<1>4. CASE Kind = "x" /\ Enter("INSTANCE", <<Call("variableName")>>, "x")
  <2>1. Enter("INSTANCE", <<Call("variableName")>>, "x")
    BY <1>4 DEF Instance
  <2>2. ASSUME Regular(file), NEW k, Fits(file, Head(todo), {State}, k)
        PROVE  \E c : /\ Run(file, <<Call("variableName")>>, {State}, On(file, c))
                    /\ OnNode(file, c) \subseteq k
    <3>1. PICK c : Inner(file, c) /\ State \in Either(file, c) /\ On(file, c) \subseteq k
      BY <1>2, <2>2
    <3>2. State \in OnOther(file, c) /\ State \in On(file, c) /\ State \in To(file, c)
      BY <1>1, <1>4, <3>1, OtherHere, OtherFacts, Inclusions DEF Here, Inner
    <3>3. OnNode(file, c) \subseteq k
      BY <3>1 DEF OnNode
    <3>4. Fits(file, Call("variableName"), {State}, On(file, c))
      BY <1>1, <3>1, <3>2, OnFits DEF Here, Call, Leads, OnToOn
    <3> QED BY <3>3, <3>4, RunOne
  <2>3. "x" \in Kinds \cup {None}
    BY ResultFacts
  <2> QED BY <1>1, <2>1, <2>2, <2>3, EnterNode, CallFacts, SequencesOfSteps DEF States,
             BlockStates
<1>5. CASE Kind = "nil" /\ Enter("INSTANCE", <<>>, "nil")
  <2>1. Enter("INSTANCE", <<>>, "nil")
    BY <1>5 DEF Instance
  <2>2. ASSUME Regular(file), NEW k, Fits(file, Head(todo), {State}, k)
        PROVE  \E c : /\ Run(file, <<>>, {State}, On(file, c))
                    /\ OnNode(file, c) \subseteq k
    <3>1. PICK c : Inner(file, c) /\ State \in Either(file, c) /\ On(file, c) \subseteq k
      BY <1>2, <2>2
    <3>2. Kind \in Others
      BY <1>5, OtherFacts DEF Keywords
    <3>3. State \in On(file, c)
      BY <1>1, <3>1, <3>2, OtherHere DEF Here, Inner
    <3>4. OnNode(file, c) \subseteq k
      BY <3>1 DEF OnNode
    <3> QED BY <3>3, <3>4, RunSkip
  <2>3. "nil" \in Kinds \cup {None}
    BY ResultFacts
  <2> QED BY <1>1, <2>1, <2>2, <2>3, EnterNode, SequencesOfSteps DEF States, BlockStates
<1>6. CASE Kind = "msg" /\ Enter("INSTANCE", <<Call("msgInstance")>>, "msg")
  <2>1. Enter("INSTANCE", <<Call("msgInstance")>>, "msg")
    BY <1>6 DEF Instance
  <2>2. ASSUME Regular(file), NEW k, Fits(file, Head(todo), {State}, k)
        PROVE  \E c : /\ Run(file, <<Call("msgInstance")>>, {State}, On(file, c))
                    /\ OnNode(file, c) \subseteq k
    <3>1. PICK c : Inner(file, c) /\ State \in Either(file, c) /\ On(file, c) \subseteq k
      BY <1>2, <2>2
    <3>2. OnNode(file, c) \subseteq k
      BY <3>1 DEF OnNode
    <3>3. Fits(file, Call("msgInstance"), {State}, On(file, c))
      BY <1>1, <3>1, EitherFits DEF Here, Call, Leads, EitherToOn
    <3> QED BY <3>2, <3>3, RunOne
  <2>3. "msg" \in Kinds \cup {None}
    BY ResultFacts
  <2> QED BY <1>1, <2>1, <2>2, <2>3, EnterNode, CallFacts, SequencesOfSteps DEF States,
             BlockStates
<1> QED BY <1>3, <1>4, <1>5, <1>6 DEF Instance

(* A closure. *)
LEMMA MsgInstanceKeeps ==
  ASSUME IInv, BInv, MsgInstance
  PROVE  BInv'
<1>1. Here /\ Head(todo).do = "msgInstance" /\ stack # <<>>
      /\ cur \in 1 .. Len(file) /\ \A kinds : State \in Reads(file, kinds) <=> Kind \in kinds
  <2>1. At("msgInstance")
    BY Zenon DEF MsgInstance
  <2> QED BY <2>1, ReadsHere DEF Here, FreshNames
<1>2. ASSUME NEW k, Fits(file, Head(todo), {State}, k)
      PROVE  \E c : Inner(file, c) /\ State \in Either(file, c) /\ On(file, c) \subseteq k
  BY <1>1, <1>2, EitherFits, SMTT(40) DEF Here, Leads, EitherToOn
<1>3. CASE TRUE
  <2>1. Enter("MSG_INSTANCE",
              <<Call("closureContext"), Call("messageDecl"), Brace_, Call("messageBlock")>>,
              "same")
    BY <1>3, Zenon DEF MsgInstance, Brace_
  <2>2. ASSUME Regular(file), NEW k, Fits(file, Head(todo), {State}, k)
        PROVE  \E m : /\ Run(file, <<Call("closureContext"), Call("messageDecl"), Brace_,
                                     Call("messageBlock")>>, {State}, m)
                    /\ m \subseteq Space(file) /\ m \subseteq k
    <3>1. PICK c : Inner(file, c) /\ State \in Either(file, c) /\ On(file, c) \subseteq k
      BY <1>2, <2>2
    <3>2. Safe(file, Either(file, c)) /\ On(file, c) \subseteq Space(file)
      BY <1>1, <3>1, SafeWithin DEF Here, On
    <3>3. Fits(file, Call("closureContext"), Either(file, c), Either(file, c))
      BY <1>1, <3>2, PlainFits DEF Here, Call
    <3>4. Fits(file, Call("messageDecl"), Either(file, c), EitherOther(file, c))
      BY <1>1, <3>1, EitherFits DEF Here, Call, Leads
    <3>5. Fits(file, Brace_, EitherOther(file, c), To(file, c))
      BY <1>1, <3>1, BraceFits DEF Here, Inner
    <3>6. Fits(file, Call("messageBlock"), To(file, c), On(file, c))
      BY <1>1, <3>1, ToFits DEF Here, Call, Leads
    <3>7. Run(file, <<Call("closureContext"), Call("messageDecl"), Brace_,
                      Call("messageBlock")>>, Either(file, c), On(file, c))
      BY <3>3, <3>4, <3>5, <3>6, RunFour
    <3> QED BY <3>1, <3>2, <3>7, RunFrom
  <2> QED BY <1>1, <2>1, <2>2, EnterSame, CallFacts, NamedSteps, SequencesOfSteps DEF States,
             BlockStates
<1> QED BY <1>3, Zenon

(* The context of a closure. *)
LEMMA ClosureContextKeeps ==
  ASSUME IInv, BInv, ClosureContext
  PROVE  BInv'
<1>1. Here /\ Head(todo).do = "closureContext" /\ stack # <<>>
  <2>1. At("closureContext")
    BY DEF ClosureContext
  <2> QED BY <2>1, ReadsHere DEF Here, FreshNames
<1>2. CASE Then(<<>>)
  <2>1. ASSUME Regular(file), NEW k, Fits(file, Head(todo), {State}, k)
        PROVE  Run(file, <<>>, {State}, k)
    <3>1. State \in k
      BY <1>1, <2>1, PlainFits DEF Here
    <3> QED BY <3>1, RunSkip
  <2> QED BY <1>1, <1>2, <2>1, ThenFits, SequencesOfSteps
<1>3. CASE Fail
  BY <1>1, <1>3, ErrorFits
<1> QED BY <1>2, <1>3 DEF ClosureContext

(* Short sequences are joined. *)
LEMMA ShortJoined ==
  /\ \A a, b \in Steps : <<a>> \o <<b>> = <<a, b>>
  /\ \A a, b, d \in Steps : <<a, b>> \o <<d>> = <<a, b, d>>
  /\ \A a, b, c, d \in Steps : <<a, b, c>> \o <<d>> = <<a, b, c, d>>
<1> DEFINE S == Steps
<1> HIDE DEF S
<1>1. ASSUME NEW s \in Seq(S), NEW d \in S, NEW t \in Seq(S),
             Len(t) = Len(s) + 1, \A i \in 1 .. Len(s) : t[i] = s[i], t[Len(s) + 1] = d
      PROVE  s \o <<d>> = t
  <2>1. <<d>> \in Seq(S) /\ Len(<<d>>) = 1 /\ Len(s) \in Nat
    BY LenProperties
  <2>2. /\ s \o <<d>> \in Seq(S) /\ Len(s \o <<d>>) = Len(t)
        /\ \A i \in 1 .. Len(t) :
             (s \o <<d>>)[i] = IF i <= Len(s) THEN s[i] ELSE <<d>>[i - Len(s)]
    BY <1>1, <2>1, ConcatProperties
  <2>3. \A i \in 1 .. Len(t) : (s \o <<d>>)[i] = t[i]
    BY <1>1, <2>1, <2>2
  <2> QED BY <2>2, <2>3, SeqEqual
<1>2. ASSUME NEW a \in S, NEW b \in S
      PROVE  <<a>> \o <<b>> = <<a, b>>
  <2> DEFINE s == <<a>>
             t == <<a, b>>
  <2>1. /\ s \in Seq(S) /\ t \in Seq(S) /\ Len(t) = Len(s) + 1
        /\ \A i \in 1 .. Len(s) : t[i] = s[i]
        /\ t[Len(s) + 1] = b
    OBVIOUS
  <2> HIDE DEF s, t
  <2>2. s \o <<b>> = t
    BY <1>1, <2>1
  <2> QED BY <2>2 DEF s, t
<1>3. ASSUME NEW a \in S, NEW b \in S, NEW c \in S, NEW d \in S
      PROVE  <<a, b, c>> \o <<d>> = <<a, b, c, d>>
  <2> DEFINE s == <<a, b, c>>
             t == <<a, b, c, d>>
  <2>1. /\ s \in Seq(S) /\ t \in Seq(S) /\ Len(t) = Len(s) + 1
        /\ \A i \in 1 .. Len(s) : t[i] = s[i]
        /\ t[Len(s) + 1] = d
    OBVIOUS
  <2> HIDE DEF s, t
  <2>2. s \o <<d>> = t
    BY <1>1, <2>1
  <2> QED BY <2>2 DEF s, t
<1>4. ASSUME NEW a \in S, NEW b \in S, NEW d \in S
      PROVE  <<a, b>> \o <<d>> = <<a, b, d>>
  <2> DEFINE s == <<a, b>>
             t == <<a, b, d>>
  <2>1. /\ s \in Seq(S) /\ t \in Seq(S) /\ Len(t) = Len(s) + 1
        /\ \A i \in 1 .. Len(s) : t[i] = s[i]
        /\ t[Len(s) + 1] = d
    OBVIOUS
  <2> HIDE DEF s, t
  <2>2. s \o <<d>> = t
    BY <1>1, <2>1
  <2> QED BY <2>2 DEF s, t
<1> QED BY <1>2, <1>3, <1>4 DEF S

(* The name of a message, and its arguments. *)
LEMMA MessageKeeps ==
  ASSUME IInv, BInv, Message
  PROVE  BInv'
<1>1. Here /\ Head(todo).do = "message" /\ stack # <<>>
      /\ cur \in 1 .. Len(file) /\ \A kinds : State \in Reads(file, kinds) <=> Kind \in kinds
  <2>1. At("message")
    BY Zenon DEF Message
  <2> QED BY <2>1, ReadsHere DEF Here, FreshNames
<1>2. ASSUME NEW k, Fits(file, Head(todo), {State}, k)
      PROVE  \E c : Inner(file, c) /\ State \in Either(file, c) /\ On(file, c) \subseteq k
  BY <1>1, <1>2, EitherFits, SMTT(40) DEF Here, Leads, EitherToOn
<1>3. CASE Enter("MESSAGE", <<Verify(Operators \cup {"x", "(", "@"}), Call("messageColon")>>,
                 "same")
  <2>2. ASSUME Regular(file), NEW k, Fits(file, Head(todo), {State}, k)
        PROVE  \E m : /\ Run(file, <<Verify(Operators \cup {"x", "(", "@"}),
                                     Call("messageColon")>>, {State}, m)
                    /\ m \subseteq Space(file) /\ m \subseteq k
    <3>1. PICK c : Inner(file, c) /\ State \in Either(file, c) /\ On(file, c) \subseteq k
      BY <1>2, <2>2
    <3>2. Run(file, <<Verify(Operators \cup {"x", "(", "@"}), Call("messageColon")>>,
              Either(file, c), On(file, c))
      BY <1>1, <2>2, <3>1, ExpressionRuns DEF Here
    <3>3. On(file, c) \subseteq Space(file)
      BY DEF On
    <3> QED BY <3>1, <3>2, <3>3, RunFrom
  <2> QED BY <1>1, <1>3, <2>2, EnterSame, CallFacts, OtherSteps, OtherFacts,
             SequencesOfSteps DEF States, BlockStates
<1> QED BY <1>3 DEF Message

(* An operator needs no colon. *)
LEMMA MessageColonKeeps ==
  ASSUME IInv, BInv, MessageColon
  PROVE  BInv'
<1>1. Here /\ Head(todo).do = "messageColon" /\ stack # <<>>
      /\ cur \in 1 .. Len(file) /\ \A kinds : State \in Reads(file, kinds) <=> Kind \in kinds
  <2>1. At("messageColon")
    BY Zenon DEF MessageColon
  <2> QED BY <2>1, ReadsHere DEF Here, FreshNames
<1>2. ASSUME NEW k, Fits(file, Head(todo), {State}, k)
      PROVE  \E c : Inner(file, c) /\ State \in On(file, c) /\ On(file, c) \subseteq k
  BY <1>1, <1>2, OnFits, SMTT(40) DEF Here, Leads, OnToOn
<1>3. CASE Kind \in Operators
  <2>1. Then(<<Next_, Arguments("argument", TRUE, FALSE, FALSE)>>)
    <3>1. <<Next_>> \o <<Arguments("argument", TRUE, FALSE, FALSE)>>
            = <<Next_, Arguments("argument", TRUE, FALSE, FALSE)>>
      BY ShortJoined, NextIsStep, ArgumentsIsStep
    <3> QED BY <1>3, <3>1 DEF MessageColon
  <2>2. ASSUME Regular(file), NEW k, Fits(file, Head(todo), {State}, k)
        PROVE  Run(file, <<Next_, Arguments("argument", TRUE, FALSE, FALSE)>>, {State}, k)
    <3>1. PICK c : Inner(file, c) /\ State \in On(file, c) /\ On(file, c) \subseteq k
      BY <1>2, <2>2
    <3>2. Run(file, <<Next_, Arguments("argument", TRUE, FALSE, FALSE)>>, On(file, c),
              On(file, c))
      BY <1>1, <2>2, <3>1, ExpressionRuns DEF Here
    <3> QED BY <3>1, <3>2, RunFrom
  <2> QED BY <1>1, <2>1, <2>2, ThenFits, NextIsStep, SequencesOfSteps, ArgumentsIsStep
<1>4. CASE Kind \notin Operators
  <2>1. Then(<<Next_, Verify({":"}), Next_, Arguments("argument", TRUE, FALSE, FALSE)>>)
    <3>1. <<Next_, Verify({":"}), Next_>> \o <<Arguments("argument", TRUE, FALSE, FALSE)>>
            = <<Next_, Verify({":"}), Next_, Arguments("argument", TRUE, FALSE, FALSE)>>
      <4>1. Verify({":"}) \in Steps /\ Next_ \in Steps
        BY NextIsStep, OtherSteps, OtherFacts
      <4>2. Arguments("argument", TRUE, FALSE, FALSE) \in Steps
        BY ArgumentsIsStep
      <4> QED BY <4>1, <4>2, ShortJoined, ZenonT(60)
    <3> QED BY <1>4, <3>1 DEF MessageColon
  <2>2. ASSUME Regular(file), NEW k, Fits(file, Head(todo), {State}, k)
        PROVE  Run(file, <<Next_, Verify({":"}), Next_,
                           Arguments("argument", TRUE, FALSE, FALSE)>>, {State}, k)
    <3>1. PICK c : Inner(file, c) /\ State \in On(file, c) /\ On(file, c) \subseteq k
      BY <1>2, <2>2
    <3>2. Run(file, <<Next_, Verify({":"}), Next_,
                      Arguments("argument", TRUE, FALSE, FALSE)>>, On(file, c), On(file, c))
      BY <1>1, <2>2, <3>1, ExpressionRuns DEF Here
    <3> QED BY <3>1, <3>2, RunFrom
  <2> QED BY <1>1, <2>1, <2>2, ThenFits, NextIsStep, OtherSteps, OtherFacts,
             SequencesOfSteps, ArgumentsIsStep
<1> QED BY <1>3, <1>4 DEF MessageColon
(* One argument. *)
LEMMA ArgumentKeeps ==
  ASSUME IInv, BInv, Here, stack # <<>>, Head(todo).do = "argument", Kind \in Others,
         \A kinds : State \in Reads(file, kinds) <=> Kind \in kinds,
         NEW isGroup \in BOOLEAN, Argument(Head(todo), isGroup)
  PROVE  BInv'
<1>1. \E call \in {"instance", "expressionOfGroup", "expression"}, group \in BOOLEAN,
         n \in {StepBack(cur), cur} :
        Goes(<<Call(call),
               Arguments("addParam", Head(todo).first, Head(todo).named, group)>>, n)
  <2>1. Running
    BY DEF Here
  <2> QED BY <2>1, ArgumentTypes DEF Argument
<1>2. PICK call \in {"instance", "expressionOfGroup", "expression"}, group \in BOOLEAN,
           n \in {StepBack(cur), cur} :
        Goes(<<Call(call),
               Arguments("addParam", Head(todo).first, Head(todo).named, group)>>, n)
  BY <1>1
<1> DEFINE add == Arguments("addParam", Head(todo).first, Head(todo).named, group)
<1>3. <<Call(call), add>> \in Seq(Steps)
  <2>1. Call(call) \in Steps
    BY CallFacts
  <2>2. add \in Steps
    BY ArgumentTypes, ArgumentsIsStep DEF Here
  <2> QED BY <2>1, <2>2, SequencesOfSteps
<1>4. ASSUME Regular(file), NEW k, Fits(file, Head(todo), {State}, k)
      PROVE  Run(file, <<Call(call), add>>, {Moved(State, n)}, k)
  <2>1. PICK c : Inner(file, c) /\ State \in Either(file, c) /\ On(file, c) \subseteq k
    BY <1>4, EitherFits, SMTT(40) DEF Here, Leads, EitherToOn
  <2>2. State \in On(file, c) /\ State \in To(file, c)
    BY <2>1, OtherHere DEF Here, Inner
  <2>3. Moved(State, n) \in On(file, c)
    <3>1. Moved(State, StepBack(cur)) \in On(file, c)
      BY <2>1, <2>2, StepsBack DEF Here
    <3>2. Moved(State, cur) = State
      BY MovedState DEF Here
    <3> QED BY <2>2, <3>1, <3>2
  <2>4. /\ Run(file, <<Call("instance"), add>>, Either(file, c), On(file, c))
        /\ Run(file, <<Call("expression"), add>>, Either(file, c), On(file, c))
        /\ Run(file, <<Call("expressionOfGroup"), add>>, On(file, c), On(file, c))
    BY <2>1, ExpressionRuns DEF Here
  <2>5. On(file, c) \subseteq Either(file, c)
    BY DEF Either
  <2> HIDE DEF add
  <2>6. Run(file, <<Call(call), add>>, {Moved(State, n)}, On(file, c))
    <3>1. CASE call = "instance"
      BY <2>3, <2>4, <2>5, <3>1, RunFrom
    <3>2. CASE call = "expression"
      BY <2>3, <2>4, <2>5, <3>2, RunFrom
    <3>3. CASE call = "expressionOfGroup"
      BY <2>3, <2>4, <3>3, RunFrom
    <3> QED BY <3>1, <3>2, <3>3
  <2> QED BY <2>1, <2>6, RunWeaker
<1> QED BY <1>2, <1>3, <1>4, GoesFits

(* The loop over the arguments. *)
LEMMA BuildRhsExpressionKeeps ==
  ASSUME IInv, BInv, BuildRhsExpression
  PROVE  BInv'
<1> DEFINE args == Head(todo)
           semicolon == Kind = ";" /\ Goes(<<>>, StepBack(cur))
           parenthesis == Kind = ")" /\ Then(<<>>)
           named == Arguments("argument", args.first, TRUE, args.group)
           parameter == Kind = "@" /\ Then(<<Next_, Verify({"x"}), Next_, Verify({":"}),
                                             Next_, named>>)
           skip == Kind \in Keywords /\ Then(<<Next_, args>>)
<1>1. Here /\ args.do = "argument" /\ stack # <<>> /\ file \in Seq(Kinds)
      /\ cur \in 1 .. Len(file) /\ \A kinds : State \in Reads(file, kinds) <=> Kind \in kinds
  <2>1. At("argument")
    BY DEF BuildRhsExpression
  <2> QED BY <2>1, ReadsHere DEF Here, FreshNames
<1>2. ASSUME NEW k, Fits(file, args, {State}, k)
      PROVE  \E c : Inner(file, c) /\ State \in Either(file, c) /\ On(file, c) \subseteq k
  BY <1>1, <1>2, EitherFits DEF Leads, EitherToOn
<1>3. \/ semicolon \/ parenthesis \/ parameter \/ Throw \/ skip \/ Fail
      \/ Kind \in Others /\ \E isGroup \in BOOLEAN : Argument(args, isGroup)
  <2>1. {"x", "7", "nil", "msg", "("} \subseteq Others
    BY OtherFacts DEF Keywords
  <2> QED BY <2>1, Zenon DEF BuildRhsExpression
<1>4. CASE semicolon
  <2>1. ASSUME Regular(file), NEW k, Fits(file, args, {State}, k)
        PROVE  Run(file, <<>>, {Moved(State, StepBack(cur))}, k)
    <3>1. PICK c : Inner(file, c) /\ State \in Either(file, c) /\ On(file, c) \subseteq k
      BY <1>2, <2>1
    <3>2. Kind \in Others
      BY <1>4, OtherKinds, Zenon
    <3>3. State \in To(file, c)
      BY <1>1, <3>1, <3>2, OtherHere DEF Inner
    <3>4. Moved(State, StepBack(cur)) \in On(file, c)
      BY <1>1, <3>1, <3>3, StepsBack DEF Here
    <3> QED BY <3>1, <3>4, RunSkip
  <2>2. Goes(<<>>, StepBack(cur))
    BY <1>4
  <2> QED BY <1>1, <2>1, <2>2, GoesFits, SequencesOfSteps
<1>5. CASE parenthesis
  <2>1. ASSUME Regular(file), NEW k, Fits(file, args, {State}, k)
        PROVE  Run(file, <<>>, {State}, k)
    <3>1. PICK c : Inner(file, c) /\ State \in Either(file, c) /\ On(file, c) \subseteq k
      BY <1>2, <2>1
    <3>2. State \in On(file, c)
      BY <1>1, <1>5, <3>1, OtherHere, OtherFacts DEF Inner
    <3> QED BY <3>1, <3>2, RunSkip
  <2> QED BY <1>1, <1>5, <2>1, ThenFits, SequencesOfSteps
<1>6. CASE parameter
  <2>1. named \in Steps
    BY <1>1, ArgumentTypes, ArgumentsIsStep DEF Here
  <2>2. ASSUME Regular(file), NEW k, Fits(file, args, {State}, k)
        PROVE  Run(file, <<Next_, Verify({"x"}), Next_, Verify({":"}), Next_, named>>,
                   {State}, k)
    <3>1. PICK c : Inner(file, c) /\ State \in Either(file, c) /\ On(file, c) \subseteq k
      BY <1>2, <2>2
    <3>2. State \in On(file, c)
      BY <1>1, <1>6, <3>1, OtherHere, OtherFacts DEF Inner
    <3>3. Run(file, <<Next_, Verify({"x"}), Next_, Verify({":"}), Next_, named>>,
              On(file, c), On(file, c))
      BY <1>1, <3>1, ExpressionRuns
    <3> QED BY <3>1, <3>2, <3>3, RunFrom
  <2>3. <<Next_, Verify({"x"}), Next_, Verify({":"}), Next_, named>> \in Seq(Steps)
    BY <2>1, NextIsStep, OtherSteps, OtherFacts, SequencesOfSteps
  <2> HIDE DEF named
  <2> QED BY <1>1, <1>6, <2>2, <2>3, ThenFits
<1>7. CASE skip
  <2>1. args \in Steps
    BY <1>1 DEF Here, Running
  <2>2. ASSUME Regular(file), NEW k, Fits(file, args, {State}, k)
        PROVE  Run(file, <<Next_, args>>, {State}, k)
    <3>1. PICK c : Inner(file, c) /\ State \in Either(file, c) /\ On(file, c) \subseteq k
      BY <1>2, <2>2
    <3>2. State \in On(file, c)
      BY <1>1, <1>7, <3>1, OtherHere, OtherFacts DEF Inner
    <3>3. Fits(file, Next_, On(file, c), To(file, c))
      BY <1>1, <3>1, NextFits DEF Inner, Level
    <3>4. Fits(file, args, To(file, c), On(file, c))
      BY <1>1, <3>1, EitherFits, Inclusions DEF Leads, EitherToOn, Inner
    <3>5. Run(file, <<Next_, args>>, On(file, c), On(file, c))
      BY <3>3, <3>4, RunTwo
    <3> QED BY <3>1, <3>2, <3>5, RunFrom
  <2> QED BY <1>1, <1>7, <2>1, <2>2, ThenFits, NextIsStep, SequencesOfSteps
<1>8. CASE Throw \/ Fail
  BY <1>1, <1>8, ErrorFits
<1>9. CASE Kind \in Others /\ \E isGroup \in BOOLEAN : Argument(args, isGroup)
  BY <1>1, <1>9, ArgumentKeeps
<1> QED BY <1>3, <1>4, <1>5, <1>6, <1>7, <1>8, <1>9

(* The argument has been parsed. *)
LEMMA AddParamKeeps ==
  ASSUME IInv, BInv, AddParam
  PROVE  BInv'
<1> DEFINE semicolon == Kind = ";" /\ Goes(<<>>, StepBack(cur))
<1>1. Here /\ Head(todo).do = "addParam" /\ stack # <<>> /\ file \in Seq(Kinds)
      /\ cur \in 1 .. Len(file) /\ \A kinds : State \in Reads(file, kinds) <=> Kind \in kinds
  <2>1. At("addParam")
    BY DEF AddParam
  <2> QED BY <2>1, ReadsHere DEF Here, FreshNames
<1>2. ASSUME NEW k, Fits(file, Head(todo), {State}, k)
      PROVE  \E c : Inner(file, c) /\ State \in On(file, c) /\ On(file, c) \subseteq k
  BY <1>1, <1>2, OnFits, SMTT(40) DEF Leads, OnToOn
<1>3. \/ semicolon \/ Then(<<>>)
      \/ \E first \in BOOLEAN, named \in BOOLEAN, group \in BOOLEAN :
           Then(<<Next_, Arguments("argument", first, named, group)>>)
  <2>1. /\ Head(todo).first \in BOOLEAN /\ Head(todo).named \in BOOLEAN
        /\ Head(todo).group \in BOOLEAN
    BY <1>1, ArgumentTypes DEF Here
  <2> QED BY <2>1 DEF AddParam
<1>4. CASE semicolon
  <2>1. ASSUME Regular(file), NEW k, Fits(file, Head(todo), {State}, k)
        PROVE  Run(file, <<>>, {Moved(State, StepBack(cur))}, k)
    <3>1. PICK c : Inner(file, c) /\ State \in On(file, c) /\ On(file, c) \subseteq k
      BY <1>2, <2>1
    <3>2. Kind \in Others
      BY <1>4, OtherKinds, Zenon
    <3>3. State \in To(file, c)
      BY <1>1, <3>1, <3>2, OtherHere DEF Inner, Either
    <3>4. Moved(State, StepBack(cur)) \in On(file, c)
      BY <1>1, <3>1, <3>3, StepsBack DEF Here
    <3> QED BY <3>1, <3>4, RunSkip
  <2>2. Goes(<<>>, StepBack(cur))
    BY <1>4
  <2> QED BY <1>1, <2>1, <2>2, GoesFits, SequencesOfSteps
<1>5. CASE Then(<<>>)
  BY <1>1, <1>2, <1>5, RunSkip, ThenFits, SequencesOfSteps
<1>6. ASSUME NEW first \in BOOLEAN, NEW named \in BOOLEAN, NEW group \in BOOLEAN,
             Then(<<Next_, Arguments("argument", first, named, group)>>)
      PROVE  BInv'
  <2> DEFINE a == Arguments("argument", first, named, group)
  <2>1. a \in Steps
    BY ArgumentsIsStep
  <2>2. ASSUME Regular(file), NEW k, Fits(file, Head(todo), {State}, k)
        PROVE  Run(file, <<Next_, a>>, {State}, k)
    <3>1. PICK c : Inner(file, c) /\ State \in On(file, c) /\ On(file, c) \subseteq k
      BY <1>2, <2>2
    <3>2. Run(file, <<Next_, a>>, On(file, c), On(file, c))
      BY <1>1, <3>1, ExpressionRuns
    <3> QED BY <3>1, <3>2, RunFrom
  <2>3. <<Next_, a>> \in Seq(Steps)
    BY <2>1, NextIsStep, SequencesOfSteps
  <2>4. Then(<<Next_, a>>)
    BY <1>6
  <2> HIDE DEF a
  <2> QED BY <1>1, <2>2, <2>3, <2>4, ThenFits
<1> QED BY <1>3, <1>4, <1>5, <1>6
(* A class or a record: its head, and its members up to its brace.         *)
LEMMA HeadedRuns ==
  ASSUME NEW f \in Seq(Kinds), NEW c, Inner(f, c), NEW s \in To(f, c),
         NEW kinds \in SUBSET Others, NEW d \in {"classMember", "recordMember"}
  PROVE  \E m : /\ Run(f, <<Verify(kinds)>> \o BlockHead \o <<Call(d)>>, {s}, m)
                /\ m \subseteq On(f, c)
                /\ \A x \in m : EndsBlock(f, s[1], x[1])
<1> DEFINE h == Headed(f, c, s[1])
           i == Opened(f, h)
<1>1. s \in Space(f) /\ s[1] \in 1 .. Len(f) + 1 /\ s[1] - 1 \in c /\ Level(f, c)
  BY StateParts DEF To, Inner
<1>2. s[1] - 1 \in h /\ h \subseteq c /\ Forward(f, h) /\ Deep(f, h, 1)
  BY <1>1, HeadBegins
<1>3. s \in To(f, h)
  BY <1>1, <1>2 DEF To
<1>4. Nested(f, i, c) /\ Inner(f, i) /\ Deep(f, i, 2) /\ Forward(f, i)
  BY <1>2, InnerLevels DEF Inner, Level
<1>5. \A x \in AtEnd(f, i) : EndsBlock(f, s[1], x[1])
  BY <1>1, HeadedEnds
<1>6. Run(f, BlockHead, OnOther(f, h), ToFirst(f, i))
  BY <1>2, <1>4, HeadRuns
<1> HIDE DEF h, i
<1>7. AtEnd(f, i) \subseteq On(f, c)
  <2>1. Encloses(f, i, c)
    BY <1>4 DEF Nested
  <2> QED BY <2>1, PassesClosing
<1>8. Run(f, <<Verify(kinds)>>, {s}, OnOther(f, h))
  <2>1. Fits(f, Verify(kinds), To(f, h), OnOther(f, h))
    BY <1>2, OtherFits
  <2>2. Run(f, <<Verify(kinds)>>, To(f, h), OnOther(f, h))
    BY <2>1, RunOne
  <2> QED BY <1>3, <2>2, RunFrom
<1>9. Run(f, <<Call(d)>>, ToFirst(f, i), AtEnd(f, i))
  <2>1. Call(d).do = d
    BY DEF Call
  <2>2. Fits(f, Call(d), To(f, i), AtEnd(f, i))
    BY <1>4, <2>1, ToFits DEF Leads
  <2>3. Run(f, <<Call(d)>>, To(f, i), AtEnd(f, i))
    BY <2>2, RunOne
  <2>4. ToFirst(f, i) \subseteq To(f, i)
    BY DEF ToFirst
  <2> QED BY <2>3, <2>4, RunWeaker
<1>10. /\ <<Verify(kinds)>> \in Seq(Entries) /\ BlockHead \in Seq(Entries)
       /\ <<Call(d)>> \in Seq(Entries)
  <2>1. Verify(kinds) \in Steps /\ Call(d) \in Steps
    BY OtherSteps, CallFacts
  <2> QED BY <2>1, NamedSteps, SequencesOfSteps, SeqMonotonic DEF Entries
<1>11. /\ <<Verify(kinds)>> \o BlockHead \in Seq(Entries)
       /\ Run(f, <<Verify(kinds)>> \o BlockHead, {s}, ToFirst(f, i))
  BY <1>6, <1>8, <1>10, RunJoined, ConcatProperties
<1>12. Run(f, <<Verify(kinds)>> \o BlockHead \o <<Call(d)>>, {s}, AtEnd(f, i))
  BY <1>9, <1>10, <1>11, RunJoined
<1> QED BY <1>5, <1>7, <1>12

(* Either of them. *)
LEMMA HeadedKeeps ==
  ASSUME IInv, BInv, NEW d \in {"class", "record"}, At(d),
         NEW member \in {"classMember", "recordMember"}, NEW s \in {"CLASS", "RECORD"},
         Enter(s, <<Verify({d})>> \o BlockHead \o <<Call(member)>>, d)
  PROVE  BInv'
<1> DEFINE entries == <<Verify({d})>> \o BlockHead \o <<Call(member)>>
<1>1. Here /\ Head(todo).do = d /\ stack # <<>> /\ file \in Seq(Kinds) /\ State[1] = cur
  BY ReadsHere DEF Here, FreshNames
<1>2. {d} \in SUBSET Others
  BY OtherFacts
<1>3. entries \in Seq(Steps)
  <2>1. Verify({d}) \in Steps /\ Call(member) \in Steps
    BY <1>2, OtherSteps, CallFacts
  <2>2. /\ <<Verify({d})>> \in Seq(Steps) /\ <<Call(member)>> \in Seq(Steps)
        /\ BlockHead \in Seq(Steps)
    BY <2>1, NamedSteps, SequencesOfSteps
  <2> QED BY <2>2, ConcatProperties
<1>4. d \in Kinds /\ d # "null"
  BY ResultFacts
<1>5. ASSUME Regular(file), NEW k, Fits(file, Head(todo), {State}, k)
      PROVE  \E m : /\ Run(file, entries, {State}, m)
                    /\ \A x \in m : Result(x, d) \in k /\ EndsBlock(file, cur, x[1])
  <2>1. PICK c : Inner(file, c) /\ State \in To(file, c) /\ OnNode(file, c) \subseteq k
    BY <1>1, <1>5, ToFits DEF Leads
  <2>2. PICK m : /\ Run(file, entries, {State}, m)
                 /\ m \subseteq On(file, c)
                 /\ \A x \in m : EndsBlock(file, cur, x[1])
    BY <1>1, <1>2, <2>1, HeadedRuns
  <2>3. \A x \in m : Result(x, d) \in k
    BY <1>1, <1>4, <2>1, <2>2, Returned
  <2> QED BY <2>2, <2>3
<1>6. Enter(s, entries, d)
  OBVIOUS
<1> HIDE DEF entries
<1> QED BY <1>1, <1>3, <1>4, <1>5, <1>6, EnterFits DEF States

(* The block of a class keeps BInv. *)
LEMMA ClassBlockKeeps ==
  ASSUME IInv, BInv, ClassBlock
  PROVE  BInv'
BY HeadedKeeps DEF ClassBlock

(* The block of a record keeps BInv. *)
LEMMA RecordBlockKeeps ==
  ASSUME IInv, BInv, RecordBlock
  PROVE  BInv'
BY HeadedKeeps DEF RecordBlock

(* A step that changes nothing. *)
LEMMA SameKeeps ==
  ASSUME BInv, UNCHANGED vars
  PROVE  BInv'
BY DEF vars, BInv, Fresh, Results, Walks, State

(* The name of a class or a record that is inherited from. *)
LEMMA InheritsKeeps ==
  ASSUME IInv, BInv, Inherits
  PROVE  BInv'
<1>1. Here /\ Head(todo).do = "inherits" /\ stack # <<>> /\ file \in Seq(Kinds)
      /\ cur \in 1 .. Len(file) /\ \A kinds : State \in Reads(file, kinds) <=> Kind \in kinds
  <2>1. At("inherits")
    BY DEF Inherits
  <2> QED BY <2>1, ReadsHere DEF Here, FreshNames
<1>2. ASSUME NEW k, Fits(file, Head(todo), {State}, k)
      PROVE  \E c : Forward(file, c) /\ State \in To(file, c) /\ To(file, c) \subseteq k
  BY <1>1, <1>2, OuterFits DEF Leads
<1>3. \A c : /\ OnOther(file, c) \subseteq On(file, c)
             /\ Forward(file, c) /\ State \in To(file, c) /\ Kind \in Others =>
                  State \in OnOther(file, c)
  <2>1. \A c : Forward(file, c) => To(file, c) \cap Reads(file, Others) \subseteq OnOther(file, c)
    BY <1>1, PassesOther
  <2> QED BY <1>1, <2>1 DEF OnOther
<1>4. CASE Kind = "inherits" /\ Then(<<Next_, Verify({"x"}), Next_>>)
  <2>1. ASSUME Regular(file), NEW k, Fits(file, Head(todo), {State}, k)
        PROVE  Run(file, <<Next_, Verify({"x"}), Next_>>, {State}, k)
    <3>1. PICK c : Forward(file, c) /\ State \in To(file, c) /\ To(file, c) \subseteq k
      BY <1>2, <2>1
    <3>2. State \in OnOther(file, c)
      BY <1>3, <1>4, <3>1, OtherFacts DEF Keywords
    <3>3. Fits(file, Next_, OnOther(file, c), ToOther(file, c))
      BY <1>1, <3>1, NextFits
    <3>4. Fits(file, Verify({"x"}), ToOther(file, c), OnOther(file, c))
      BY <1>1, <3>1, OtherFits, OtherFacts
    <3>5. Fits(file, Next_, OnOther(file, c), To(file, c))
      BY <1>1, <1>3, <3>1, NextFits, FitsWeaker
    <3>6. Run(file, <<Next_, Verify({"x"}), Next_>>, OnOther(file, c), To(file, c))
      BY <3>3, <3>4, <3>5, RunThree
    <3> QED BY <3>1, <3>2, <3>6, RunFrom
  <2> QED BY <1>1, <1>4, <2>1, ThenFits, NextIsStep, OtherSteps, OtherFacts, SequencesOfSteps
<1>5. CASE Kind \in Keywords \ {"inherits"} /\ Then(<<Next_>>)
  <2>1. ASSUME Regular(file), NEW k, Fits(file, Head(todo), {State}, k)
        PROVE  Run(file, <<Next_>>, {State}, k)
    <3>1. PICK c : Forward(file, c) /\ State \in To(file, c) /\ To(file, c) \subseteq k
      BY <1>2, <2>1
    <3>2. State \in OnOther(file, c)
      BY <1>3, <1>5, <3>1, OtherFacts
    <3>3. Run(file, <<Next_>>, OnOther(file, c), To(file, c))
      BY <1>1, <1>3, <3>1, NextFits, FitsWeaker, RunOne
    <3> QED BY <3>1, <3>2, <3>3, RunFrom
  <2> QED BY <1>1, <1>5, <2>1, ThenFits, NextIsStep, SequencesOfSteps
<1>6. CASE Then(<<>>)
  BY <1>1, <1>2, <1>6, RunSkip, ThenFits, SequencesOfSteps
<1> QED BY <1>4, <1>5, <1>6 DEF Inherits

(* The members of a class. *)
LEMMA ClassMemberKeeps ==
  ASSUME IInv, BInv, ClassMember
  PROVE  BInv'
<1> DEFINE e == Call("classMember")
           public == <<Next_, Brace_, Next_, Call("scopeMember"), e>>
           flags == <<Call("flags"), Next_, e>>
           msg == <<Call("messageDecl"), Next_, Brace_, Call("messageBlock"), Next_, e>>
<1>1. Here /\ Head(todo).do = "classMember" /\ stack # <<>> /\ file \in Seq(Kinds)
      /\ cur \in 1 .. Len(file) /\ \A kinds : State \in Reads(file, kinds) <=> Kind \in kinds
  <2>1. At("classMember")
    BY Zenon DEF ClassMember
  <2> QED BY <2>1, ReadsHere DEF Here, FreshNames
<1>2. ASSUME NEW k, Fits(file, Head(todo), {State}, k)
      PROVE  \E c : /\ Inner(file, c) /\ Deep(file, c, 2) /\ State \in To(file, c)
                    /\ AtEnd(file, c) \subseteq k
  BY <1>1, <1>2, ToFits DEF Leads
<1>3. \/ Kind = "}" /\ Then(<<>>)
      \/ Kind = "public" /\ Then(public)
      \/ Kind = "@" /\ Then(flags)
      \/ Kind = "msg" /\ Then(msg)
  BY Zenon DEF ClassMember, Brace_
<1>4. ASSUME NEW c, Inner(file, c)
      PROVE  e \in Steps /\ (Deep(file, c, 2) => Fits(file, e, To(file, c), AtEnd(file, c)))
  BY <1>1, <1>4, CallFacts, ToFits DEF Call, Leads
<1>5. public \in Seq(Steps) /\ flags \in Seq(Steps) /\ msg \in Seq(Steps)
  BY NextIsStep, CallFacts, NamedSteps, SequencesOfSteps
<1> HIDE DEF e
<1>6. CASE Kind = "}" /\ Then(<<>>)
  <2>1. ASSUME Regular(file), NEW k, Fits(file, Head(todo), {State}, k)
        PROVE  Run(file, <<>>, {State}, k)
    <3>1. PICK c : State \in To(file, c) /\ AtEnd(file, c) \subseteq k
      BY <1>2, <2>1
    <3>2. State \in AtEnd(file, c)
      BY <1>1, <1>6, <3>1, Zenon DEF AtEnd
    <3> QED BY <3>1, <3>2, RunSkip
  <2>2. Then(<<>>)
    BY <1>6
  <2> QED BY <1>1, <2>1, <2>2, ThenFits, SequencesOfSteps
<1>7. CASE Kind = "public" /\ Then(public)
  <2>1. ASSUME Regular(file), NEW k, Fits(file, Head(todo), {State}, k)
        PROVE  Run(file, public, {State}, k)
    <3>1. PICK c : /\ Inner(file, c) /\ Deep(file, c, 2) /\ State \in To(file, c)
                   /\ AtEnd(file, c) \subseteq k
      BY <1>2, <2>1
    <3>2. Kind \in Others
      BY <1>7, OtherFacts DEF Keywords
    <3>3. State \in OnOther(file, c)
      BY <1>1, <3>1, <3>2, OtherHere DEF Inner, Either
    <3>4. Run(file, public, OnOther(file, c), AtEnd(file, c))
      BY <1>1, <1>4, <2>1, <3>1, MemberRuns
    <3> HIDE DEF public
    <3> QED BY <3>1, <3>3, <3>4, RunFrom
  <2> HIDE DEF public
  <2> QED BY <1>1, <1>5, <1>7, <2>1, ThenFits
<1>8. CASE Kind = "@" /\ Then(flags)
  <2>1. ASSUME Regular(file), NEW k, Fits(file, Head(todo), {State}, k)
        PROVE  Run(file, flags, {State}, k)
    <3>1. PICK c : /\ Inner(file, c) /\ Deep(file, c, 2) /\ State \in To(file, c)
                   /\ AtEnd(file, c) \subseteq k
      BY <1>2, <2>1
    <3>2. Run(file, flags, To(file, c), AtEnd(file, c))
      BY <1>1, <1>4, <2>1, <3>1, MemberRuns
    <3> HIDE DEF flags
    <3> QED BY <3>1, <3>2, RunFrom
  <2> HIDE DEF flags
  <2> QED BY <1>1, <1>5, <1>8, <2>1, ThenFits
<1>9. CASE Kind = "msg" /\ Then(msg)
  <2>1. ASSUME Regular(file), NEW k, Fits(file, Head(todo), {State}, k)
        PROVE  Run(file, msg, {State}, k)
    <3>1. PICK c : /\ Inner(file, c) /\ Deep(file, c, 2) /\ State \in To(file, c)
                   /\ AtEnd(file, c) \subseteq k
      BY <1>2, <2>1
    <3>2. Run(file, msg, To(file, c), AtEnd(file, c))
      BY <1>1, <1>4, <2>1, <3>1, MemberRuns
    <3> HIDE DEF msg
    <3> QED BY <3>1, <3>2, RunFrom
  <2> HIDE DEF msg
  <2> QED BY <1>1, <1>5, <1>9, <2>1, ThenFits
<1> QED BY <1>3, <1>6, <1>7, <1>8, <1>9, Zenon

(* A member variable and then the next member. *)
LEMMA VariableRuns ==
  ASSUME NEW f \in Seq(Kinds), NEW c, Inner(f, c), Regular(f), NEW s \in To(f, c), NEW k,
         NEW d \in {"scopeMember", "recordMember"}, Fits(f, Call(d), To(f, c), k)
  PROVE  Run(f, MemberVariable \o <<Call(d)>>, {s}, k)
<1>1. Call(d) \in Steps
  BY CallFacts
<1>2. Run(f, MemberVariable \o <<Call(d)>>, To(f, c), k)
  BY <1>1, MemberRuns
<1> QED BY <1>2, RunFrom

(* What a member variable puts into todo are steps. *)
LEMMA VariableSteps ==
  ASSUME NEW d \in {"scopeMember", "recordMember"}
  PROVE  MemberVariable \o <<Call(d)>> \in Seq(Steps)
<1>1. <<Call(d)>> \in Seq(Steps) /\ MemberVariable \in Seq(Steps)
  BY CallFacts, NamedSteps, SequencesOfSteps
<1> QED BY <1>1, ConcatProperties

(* The members of a scope of a class. *)
LEMMA ScopeMemberKeeps ==
  ASSUME IInv, BInv, ScopeMember
  PROVE  BInv'
<1>1. Here /\ Head(todo).do = "scopeMember" /\ stack # <<>> /\ file \in Seq(Kinds)
      /\ cur \in 1 .. Len(file) /\ \A kinds : State \in Reads(file, kinds) <=> Kind \in kinds
  <2>1. At("scopeMember")
    BY Zenon DEF ScopeMember
  <2> QED BY <2>1, ReadsHere DEF Here, FreshNames
<1>2. ASSUME NEW k, Fits(file, Head(todo), {State}, k)
      PROVE  \E c, o : Nested(file, c, o) /\ State \in To(file, c) /\ To(file, o) \subseteq k
  BY <1>1, <1>2, BlockFits DEF Leads
<1>3. CASE Kind = "}" /\ Then(<<Next_>>)
  <2>1. ASSUME Regular(file), NEW k, Fits(file, Head(todo), {State}, k)
        PROVE  Run(file, <<Next_>>, {State}, k)
    <3>1. PICK c, o : Nested(file, c, o) /\ State \in To(file, c) /\ To(file, o) \subseteq k
      BY <1>2, <2>1
    <3>2. Encloses(file, c, o) /\ Forward(file, o)
      BY <3>1 DEF Nested, Level
    <3>3. State \in AtEnd(file, c)
      BY <1>1, <1>3, <3>1, Zenon DEF AtEnd
    <3>4. State \in On(file, o)
      BY <1>1, <3>2, <3>3, PassesClosing
    <3>5. Run(file, <<Next_>>, On(file, o), To(file, o))
      BY <1>1, <3>2, NextFits, RunOne
    <3> QED BY <3>1, <3>4, <3>5, RunFrom
  <2>2. Then(<<Next_>>)
    BY <1>3
  <2> QED BY <1>1, <2>1, <2>2, ThenFits, NextIsStep, SequencesOfSteps
<1>4. CASE Then(MemberVariable \o <<Call("scopeMember")>>)
  <2>1. ASSUME Regular(file), NEW k, Fits(file, Head(todo), {State}, k)
        PROVE  Run(file, MemberVariable \o <<Call("scopeMember")>>, {State}, k)
    <3>1. PICK c, o : Nested(file, c, o) /\ State \in To(file, c) /\ To(file, o) \subseteq k
      BY <1>2, <2>1
    <3>2. Fits(file, Call("scopeMember"), To(file, c), k)
      BY <1>1, <3>1, BlockFits DEF Call, Leads
    <3> QED BY <1>1, <2>1, <3>1, <3>2, VariableRuns DEF Nested
  <2> QED BY <1>1, <1>4, <2>1, ThenFits, VariableSteps
<1> QED BY <1>3, <1>4, Zenon DEF ScopeMember

(* The members of a record. *)
LEMMA RecordMemberKeeps ==
  ASSUME IInv, BInv, RecordMember
  PROVE  BInv'
<1>1. Here /\ Head(todo).do = "recordMember" /\ stack # <<>> /\ file \in Seq(Kinds)
      /\ cur \in 1 .. Len(file) /\ \A kinds : State \in Reads(file, kinds) <=> Kind \in kinds
  <2>1. At("recordMember")
    BY Zenon DEF RecordMember
  <2> QED BY <2>1, ReadsHere DEF Here, FreshNames
<1>2. ASSUME NEW k, Fits(file, Head(todo), {State}, k)
      PROVE  \E c : Inner(file, c) /\ State \in To(file, c) /\ AtEnd(file, c) \subseteq k
  BY <1>1, <1>2, ToFits DEF Leads
<1>3. CASE Kind = "}" /\ Then(<<>>)
  <2>1. ASSUME Regular(file), NEW k, Fits(file, Head(todo), {State}, k)
        PROVE  Run(file, <<>>, {State}, k)
    <3>1. PICK c : State \in To(file, c) /\ AtEnd(file, c) \subseteq k
      BY <1>2, <2>1
    <3>2. State \in AtEnd(file, c)
      BY <1>1, <1>3, <3>1, Zenon DEF AtEnd
    <3> QED BY <3>1, <3>2, RunSkip
  <2>2. Then(<<>>)
    BY <1>3
  <2> QED BY <1>1, <2>1, <2>2, ThenFits, SequencesOfSteps
<1>4. CASE Then(MemberVariable \o <<Call("recordMember")>>)
  <2>1. ASSUME Regular(file), NEW k, Fits(file, Head(todo), {State}, k)
        PROVE  Run(file, MemberVariable \o <<Call("recordMember")>>, {State}, k)
    <3>1. PICK c : Inner(file, c) /\ State \in To(file, c) /\ AtEnd(file, c) \subseteq k
      BY <1>2, <2>1
    <3>2. Fits(file, Call("recordMember"), To(file, c), k)
      BY <1>1, <3>1, ToFits DEF Call, Leads
    <3> QED BY <1>1, <2>1, <3>1, <3>2, VariableRuns
  <2> QED BY <1>1, <1>4, <2>1, ThenFits, VariableSteps
<1> QED BY <1>3, <1>4, Zenon DEF RecordMember

(* Classes, records and their members. *)
LEMMA TypesKeep ==
  ASSUME IInv, BInv, Types
  PROVE  BInv'
BY ClassBlockKeeps, RecordBlockKeeps, SameKeeps, InheritsKeeps, ClassMemberKeeps,
   ScopeMemberKeeps, RecordMemberKeeps DEF Types, ClassLoop
(* Declarations and expressions. *)
LEMMA DeclarationsKeep ==
  ASSUME IInv, BInv, Declarations
  PROVE  BInv'
BY VariableDefKeeps, VariableNameKeeps, NameComponentKeeps, TypeDeclarationKeeps, TypeDotKeeps,
   MessageParamDeclKeeps, ReturnDeclarationKeeps, ReturnTypesKeeps, MoreReturnTypesKeeps,
   MessageDeclKeeps, MessageNameKeeps, MessageParamsKeeps, MessageParamKeeps, ParamCommaKeeps,
   MessageReturnsKeeps, MessageBlockKeeps, MessageStatementsKeeps DEF Declarations

(* The functions of expressions keep BInv. *)
LEMMA ExpressionsKeep ==
  ASSUME IInv, BInv, Expressions
  PROVE  BInv'
BY AnyExpressionKeeps, ReturnExpressionKeeps, GroupedExpressionKeeps, CloseParenKeeps,
   BuildLhsExpressionKeeps, SendMessageKeeps, InstanceKeeps, MsgInstanceKeeps,
   ClosureContextKeeps, MessageKeeps, MessageColonKeeps, BuildRhsExpressionKeeps,
   AddParamKeeps DEF Expressions

(* What nextToken does about a comment. *)
LEMMA CommentRuns ==
  ASSUME file \in Seq(Kinds), NEW s \in Space(file), NEW n \in 1 .. Len(file) + 1, NEW k,
         Lands(file, s, n, k)
  PROVE  Run(file, IfComment(n), {Moved(s, n)}, k)
<1>1. Len(file) \in Nat /\ DOMAIN file = 1 .. Len(file)
  BY LenProperties
<1>2. /\ IfComment(n) = IF n \in DOMAIN file /\ file[n] \in Starts
                        THEN <<Call("comment")>> ELSE <<>>
      /\ LineCommentAt(file, n) \/ BlockCommentAt(file, n) => n <= Len(file) /\ file[n] \in Starts
  BY Zenon DEF IfComment, Starts, LineCommentAt, BlockCommentAt
<1>3. CASE n \in DOMAIN file /\ file[n] \in Starts
  <2>1. Moved(s, n)[1] = n /\ \A m : Moved(Moved(s, n), m) = Moved(s, m)
    BY DEF Moved
  <2>2. n <= Len(file) /\ n # Len(file) + 1
    BY <1>1, <1>3
  <2>3. Lands(file, Moved(s, n), n, k) /\ Safe(file, {Moved(s, n)})
    BY <2>1, <2>2 DEF Lands, Safe
  <2>4. Fits(file, Call("comment"), {Moved(s, n)}, k)
    BY <2>1, <2>2, <2>3, PlainFits DEF Call
  <2> QED BY <1>2, <1>3, <2>4, RunOne
<1>4. CASE ~(n \in DOMAIN file /\ file[n] \in Starts)
  <2>1. ~LineCommentAt(file, n) /\ ~BlockCommentAt(file, n)
    BY <1>1, <1>2, <1>4
  <2>2. n # n + 1 /\ n # n + 3
    BY <1>1
  <2>3. n \in Landing(file, n)
    BY <2>1, <2>2 DEF Landing
  <2>4. Moved(s, n) \in k
    BY <2>3 DEF Lands
  <2> QED BY <1>2, <1>4, <2>4, RunSkip
<1> QED BY <1>3, <1>4

(* A comment that is passed is a step, and needs no state on the stack. *)
LEMMA CommentSteps ==
  ASSUME NEW n
  PROVE  /\ IfComment(n) \in Seq(Steps)
         /\ \A i \in 1 .. Len(IfComment(n)) : IfComment(n)[i].do \in FreshNames
<1>1. IfComment(n) \in {<<>>, <<Call("comment")>>}
  BY Zenon DEF IfComment
<1>2. Call("comment").do \in FreshNames
  BY DEF Call, FreshNames
<1>3. CASE IfComment(n) = <<>>
  BY <1>3, SequencesOfSteps
<1>4. CASE IfComment(n) = <<Call("comment")>>
  <2> DEFINE e == Call("comment")
  <2>1. e \in Steps /\ e.do \in FreshNames
    BY <1>2, CallFacts
  <2>2. IfComment(n) = <<e>>
    BY <1>4
  <2> HIDE DEF e
  <2> QED BY <2>1, <2>2
<1> QED BY <1>1, <1>3, <1>4

(* nextToken. *)
LEMMA NextTokenKeeps ==
  ASSUME IInv, BInv, NextToken
  PROVE  BInv'
<1>1. Here /\ Head(todo).do = "nextToken" /\ stack # <<>> /\ file \in Seq(Kinds)
      /\ State \in Space(file) /\ State[1] = cur /\ cur \in 1 .. Len(file) + 1
      /\ Len(file) \in Nat
  <2>1. Pending("nextToken")
    BY DEF NextToken
  <2> QED BY <2>1, BeginsHere DEF Here, FreshNames
<1> DEFINE n == Advanced(file, cur)
<1>2. Goes(IfComment(n), n)
  BY DEF NextToken
<1>3. ASSUME Regular(file), NEW k, Fits(file, Head(todo), {State}, k)
      PROVE  Run(file, IfComment(n), {Moved(State, n)}, k)
  <2>1. Moves(file, {State}, k)
    BY <1>1, <1>3, PlainFits
  <2>2. CASE cur <= Len(file)
    <3>1. n = cur + 1 /\ n \in 1 .. Len(file) + 1
      BY <1>1, <2>2 DEF Advanced, HasTokensLeft, End
    <3>2. Lands(file, State, n, k)
      BY <1>1, <2>1, <2>2, <3>1 DEF Moves
    <3> HIDE DEF n
    <3> QED BY <1>1, <3>1, <3>2, CommentRuns
  <2>3. CASE ~(cur <= Len(file))
    <3>1. n = cur /\ n \notin DOMAIN file
      BY <1>1, <2>3 DEF Advanced, HasTokensLeft, End
    <3>2. State \in k
      BY <1>1, <2>1, <2>3 DEF Moves
    <3>3. Moved(State, n) = State
      BY <1>1, <3>1, MovedState
    <3> HIDE DEF n
    <3>4. IfComment(n) = <<>>
      BY <3>1, Zenon DEF IfComment
    <3> QED BY <3>2, <3>3, <3>4, RunSkip
  <2> QED BY <2>2, <2>3
<1> HIDE DEF n
<1> QED BY <1>1, <1>2, <1>3, GoesFits, CommentSteps

(* A comment that is passed over, before the first block or behind it. *)
LEMMA PassedKeeps ==
  ASSUME IInv, BInv, At("comment"), NEW n \in Landing(file, cur), Goes(<<>>, n)
  PROVE  BInv'
<1>1. Here /\ Head(todo).do = "comment" /\ file \in Seq(Kinds)
      /\ State \in Space(file) /\ State[1] = cur /\ State[2] = saved /\ State[3] = node
  BY ReadsHere DEF Here
<1>2. ASSUME Regular(file), NEW k, Fits(file, Head(todo), {State}, k)
      PROVE  Run(file, <<>>, {State'}, k)
  <2>1. Lands(file, State, cur, k)
    BY <1>1, <1>2, PlainFits
  <2>2. Moved(State, n) \in k
    BY <2>1 DEF Lands
  <2>3. State' = Moved(State, n)
    BY <1>1 DEF Goes, State, Moved
  <2> QED BY <2>2, <2>3, RunSkip
<1>3. <<>> \in Seq(Steps) /\ \A i \in 1 .. Len(<<>>) : (<<>>)[i].do \in FreshNames
  BY SequencesOfSteps
<1>4. todo' = <<>> \o Tail(todo) /\ UNCHANGED <<file, stack, phase>>
  BY DEF Goes
<1> QED BY <1>1, <1>2, <1>3, <1>4, StepsReplace

(* A line comment that is passed keeps BInv. *)
LEMMA LineCommentKeeps ==
  ASSUME IInv, BInv, LineComment
  PROVE  BInv'
<1>1. At("comment") /\ cur \in 1 .. Len(file) /\ file[cur] = "#"
  <2>1. At("comment") /\ file[cur] = "#"
    BY DEF LineComment, Kind
  <2> QED BY <2>1, ReadsHere
<1>2. LineCommentAt(file, cur) /\ Len(file) \in Nat
  BY <1>1, LenProperties DEF LineCommentAt, IInv, Typed
<1>3. cur + 1 \in Landing(file, cur)
  BY <1>1, <1>2 DEF Landing
<1> QED BY <1>1, <1>3, PassedKeeps DEF LineComment

(* A block comment that is passed, or has no end, keeps BInv. *)
LEMMA BlockCommentKeeps ==
  ASSUME IInv, BInv, BlockComment
  PROVE  BInv'
<1> DEFINE start == "#{"
           text == "#"
           end == "}#"
<1>1. /\ At("comment") /\ file[cur] = start
      /\ \/ Throw
         \/ cur + 1 < End(file) /\ file[cur + 1] # text /\ Fail
         \/ cur + 2 < End(file) /\ file[cur + 2] # end /\ Fail
         \/ /\ cur + 2 < End(file) /\ file[cur + 1] = text /\ file[cur + 2] = end
            /\ Goes(<<>>, cur + 3)
  BY Zenon DEF BlockComment, BehindComment, Kind
<1>2. /\ /\ cur + 2 <= Len(file) /\ file[cur] = start
         /\ file[cur + 1] = text /\ file[cur + 2] = end
         => WholeCommentAt(file, cur)
      /\ \A i \in 1 .. Len(file) :
           file[i] = start /\ (PeekNext(file, i) # text \/ PeekNext(file, i + 1) # end)
             => Odd(file)
  BY Zenon DEF WholeCommentAt, Odd
<1> HIDE DEF start, text, end
<1>3. cur \in 1 .. Len(file) /\ Len(file) \in Nat
  BY <1>1, ReadsHere, LenProperties DEF IInv, Typed
<1>4. CASE Throw
  BY <1>4, ErrorFits
<1>5. CASE cur + 1 < End(file) /\ file[cur + 1] # text /\ Fail
  <2>1. PeekNext(file, cur) # text
    BY <1>3, <1>5 DEF PeekNext, End
  <2>2. Odd(file)
    BY <1>1, <1>2, <1>3, <2>1
  <2> QED BY <1>5, <2>2, ErrorFits
<1>6. CASE cur + 2 < End(file) /\ file[cur + 2] # end /\ Fail
  <2>1. PeekNext(file, cur + 1) # end
    BY <1>3, <1>6 DEF PeekNext, End
  <2>2. Odd(file)
    BY <1>1, <1>2, <1>3, <2>1
  <2> QED BY <1>6, <2>2, ErrorFits
<1>7. CASE /\ cur + 2 < End(file) /\ file[cur + 1] = text /\ file[cur + 2] = end
           /\ Goes(<<>>, cur + 3)
  <2>1. WholeCommentAt(file, cur)
    BY <1>1, <1>2, <1>3, <1>7 DEF End
  <2>2. cur + 3 \in Landing(file, cur)
    BY <1>3, <2>1 DEF Landing
  <2> QED BY <1>1, <1>7, <2>2, PassedKeeps
<1> QED BY <1>1, <1>4, <1>5, <1>6, <1>7

(* The verifications. *)
LEMMA VerifyKeeps ==
  ASSUME IInv, BInv, VerifyTokenOrFail \/ VerifyLastToken
  PROVE  BInv'
<1>1. ASSUME VerifyTokenOrFail
      PROVE  BInv'
  <2>1. Here /\ Head(todo).do = "verify" /\ stack # <<>> /\ file \in Seq(Kinds)
        /\ \A kinds : State \in Reads(file, kinds) <=> Kind \in kinds
    <3>1. At("verify")
      BY <1>1 DEF VerifyTokenOrFail
    <3> QED BY <3>1, ReadsHere DEF Here, FreshNames
  <2>2. CASE Kind \in Head(todo).kinds /\ Then(<<>>)
    <3>1. ASSUME Regular(file), NEW k, Fits(file, Head(todo), {State}, k)
          PROVE  Run(file, <<>>, {State}, k)
      <4>1. State \in k
        BY <2>1, <2>2, <3>1, PlainFits
      <4> QED BY <4>1, RunSkip
    <3> QED BY <2>1, <2>2, <3>1, ThenFits, SequencesOfSteps
  <2>3. CASE Fail
    BY <2>1, <2>3, ErrorFits
  <2> QED BY <1>1, <2>2, <2>3 DEF VerifyTokenOrFail
<1>2. ASSUME VerifyLastToken
      PROVE  BInv'
  <2>1. Here /\ Head(todo).do = "verifyLast" /\ stack # <<>> /\ file \in Seq(Kinds)
    <3>1. At("verifyLast")
      BY <1>2, Zenon DEF VerifyLastToken
    <3> QED BY <3>1, ReadsHere DEF Here, FreshNames
  <2>2. CASE Then(<<>>)
    <3>1. ASSUME Regular(file), NEW k, Fits(file, Head(todo), {State}, k)
          PROVE  Run(file, <<>>, {State}, k)
      <4>1. State \in k
        BY <2>1, <3>1, PlainFits
      <4> QED BY <4>1, RunSkip
    <3> QED BY <2>1, <2>2, <3>1, ThenFits, SequencesOfSteps
  <2>3. CASE Fail
    BY <2>1, <2>3, ErrorFits
  <2> QED BY <1>2, <2>2, <2>3, Zenon DEF VerifyLastToken
<1> QED BY <1>1, <1>2

(* The moves of the cursor keep BInv. *)
LEMMA CursorKeeps ==
  ASSUME IInv, BInv, Cursor
  PROVE  BInv'
BY NextTokenKeeps, LineCommentKeeps, BlockCommentKeeps, VerifyKeeps DEF Cursor

(* A guard is left. *)
LEMMA LeaveGuardKeeps ==
  ASSUME IInv, BInv, LeaveGuard
  PROVE  BInv'
<1>1. /\ todo \in Seq(Entries) /\ todo # <<>> /\ Head(todo).do = "leave"
      /\ file \in Seq(Kinds) /\ stack \in Seq(StackStates) /\ Head(todo) = todo[1]
      /\ 1 \in 1 .. Len(todo)
  BY HeadTailProperties, EmptySeq, LenProperties DEF LeaveGuard, IInv, Typed
<1>2. phase' \in {phase, "terminated"} /\ phase \in {"parsing", "unwinding"}
  BY DEF LeaveGuard
<1>3. CASE phase = "unwinding"
  BY <1>2, <1>3 DEF BInv, Fresh, Results
<1>4. CASE phase = "parsing"
  <2>1. stack # <<>>
    BY <1>1, <1>4 DEF BInv, Fresh, FreshNames
  <2>2. stack' # <<>>
    <3>1. stack' = PopState \/ stack' = stack
      BY DEF LeaveGuard
    <3>2. PopState # <<>>
      <4>1. CASE Len(stack) = 1
        BY <4>1 DEF PopState
      <4>2. CASE Len(stack) # 1
        <5>1. Len(stack) \in Nat /\ Len(stack) # 0
          BY <1>1, <2>1, LenProperties, EmptySeq
        <5>2. \A i \in 1 .. Len(stack) - 1 : stack[i] \in StackStates
          BY <1>1
        <5>3. \A n \in Nat : n # 0 /\ n # 1 =>
                /\ 1 <= n - 1 /\ n - 1 # 0
                /\ (IF 1 <= n - 1 THEN n - 1 - 1 + 1 ELSE 0) # 0
          OBVIOUS
        <5>4. Len(SubSeq(stack, 1, Len(stack) - 1))
                = IF 1 <= Len(stack) - 1 THEN Len(stack) - 1 - 1 + 1 ELSE 0
          BY <5>1, <5>2, SubSeqProperties
        <5>5. Len(Front(stack)) # 0
          BY <4>2, <5>1, <5>3, <5>4, Zenon DEF Front
        <5>6. Front(stack) # <<>>
          <6>1. Len(<<>>) = 0
            OBVIOUS
          <6> QED BY <5>5, <6>1, Zenon
        <5> QED BY <4>2, <5>6, Zenon DEF PopState
      <4> QED BY <4>1, <4>2
    <3> QED BY <2>1, <3>1, <3>2
  <2>3. todo' = Tail(todo) /\ UNCHANGED <<file, cur, saved>>
        /\ node' = IF Head(todo).result = "same" THEN node ELSE Head(todo).result
    BY <1>4 DEF LeaveGuard
  <2>4. ASSUME Regular(file)
        PROVE  Walks'
    <3>1. PICK z : Run(file, todo, {State}, z)
      BY <1>4, <2>4 DEF BInv, Results, Walks
    <3>2. PICK m : Fits(file, Head(todo), {State}, m) /\ Run(file, Tail(todo), m, z)
      BY <1>1, <3>1, RunFirst
    <3>3. Result(State, Head(todo).result) \in m
      BY <1>1, <3>2, PlainFits
    <3>4. State' = Result(State, Head(todo).result)
      BY <2>3 DEF State, Result
    <3>5. Run(file, Tail(todo), {State'}, z)
      BY <3>2, <3>3, <3>4, RunWeaker
    <3>6. Run(file', todo', {State'}, z)
      BY <2>3, <3>5
    <3> QED BY <3>6 DEF Walks
  <2>5. Fresh'
    BY <2>2 DEF Fresh
  <2> QED BY <1>2, <1>4, <2>3, <2>4, <2>5 DEF BInv, Results
<1> QED BY <1>2, <1>3, <1>4

(* The tokens have been read past their end. *)
LEMMA ReadPastEndKeeps ==
  ASSUME IInv, BInv, ReadPastEnd
  PROVE  BInv'
<1>1. /\ todo \in Seq(Entries) /\ todo # <<>> /\ Head(todo).do \notin ReadsNothing
      /\ phase = "parsing" /\ cur = Len(file) + 1 /\ phase' = "fault" /\ UNCHANGED file
  BY DEF ReadPastEnd, HasTokensLeft, End, IInv, Typed
<1>2. ASSUME Regular(file)
      PROVE  Broken(file)
  <2>1. PICK z : Run(file, todo, {State}, z)
    BY <1>1, <1>2 DEF BInv, Results, Walks
  <2>2. PICK m : Fits(file, Head(todo), {State}, m)
    BY <1>1, <2>1, RunFirst
  <2>3. Safe(file, {State})
    BY <1>1, <2>2 DEF Fits
  <2> QED BY <1>1, <2>3 DEF Safe, State
<1> QED BY <1>1, <1>2 DEF BInv, Fresh, Results

(* The error has been caught. *)
LEMMA CaughtKeeps ==
  ASSUME IInv, BInv, Caught
  PROVE  BInv'
BY DEF Caught, BInv, Fresh, Results
(* A statement, with flags or without.                                     *)
LEMMA StatementKeeps ==
  ASSUME IInv, BInv, Statement
  PROVE  BInv'
<1>1. Here /\ Head(todo).do = "statement" /\ stack # <<>> /\ file \in Seq(Kinds)
      /\ cur \in 1 .. Len(file) /\ \A kinds : State \in Reads(file, kinds) <=> Kind \in kinds
  <2>1. At("statement")
    BY Zenon DEF Statement
  <2> QED BY <2>1, ReadsHere DEF Here, FreshNames
<1>2. ASSUME NEW k, Fits(file, Head(todo), {State}, k)
      PROVE  \E c, o : /\ Nested(file, c, o) /\ State \in ToFirst(file, c)
                       /\ Done(file, c, o) \subseteq k
  BY <1>1, <1>2, BlockFits DEF Leads, FirstToDone
<1>3. \A c, o : Done(file, c, o) \subseteq Space(file)
  BY DEF Done, OnNode, Ending, AtEnd, On, To
<1>4. "STATEMENT" \in States \ BlockStates
  BY DEF States, BlockStates
<1>5. ASSUME NEW entries \in Seq(Steps), Enter("STATEMENT", entries, "same"),
             \A c, o : Nested(file, c, o) /\ Regular(file) =>
                         Run(file, entries, ToFirst(file, c), Done(file, c, o))
      PROVE  BInv'
  <2>1. ASSUME Regular(file), NEW k, Fits(file, Head(todo), {State}, k)
        PROVE  \E m : Run(file, entries, {State}, m) /\ m \subseteq Space(file) /\ m \subseteq k
    <3>1. PICK c, o : /\ Nested(file, c, o) /\ State \in ToFirst(file, c)
                      /\ Done(file, c, o) \subseteq k
      BY <1>2, <2>1
    <3>2. Run(file, entries, {State}, Done(file, c, o))
      BY <1>5, <2>1, <3>1, RunFrom
    <3> QED BY <1>3, <3>1, <3>2
  <2> QED BY <1>1, <1>4, <1>5, <2>1, EnterSame
<1>6. CASE Kind = "@"
  <2> DEFINE entries == <<Call("flags"), Next_, Call("statementKind")>>
  <2>1. <<Call("flags"), Next_>> \o <<Call("statementKind")>> = entries
    BY ShortJoined, NextIsStep, CallFacts, SMTT(40)
  <2>2. Enter("STATEMENT", entries, "same")
    BY <1>6, <2>1 DEF Statement
  <2>3. entries \in Seq(Steps)
    BY NextIsStep, CallFacts, SequencesOfSteps
  <2>4. \A c, o : Nested(file, c, o) /\ Regular(file) =>
                    Run(file, entries, ToFirst(file, c), Done(file, c, o))
    BY <1>1, StatementRuns
  <2> HIDE DEF entries
  <2> QED BY <1>5, <2>2, <2>3, <2>4
<1>7. CASE Kind # "@"
  <2> DEFINE entries == <<Call("statementKind")>>
  <2>1. <<>> \o <<Call("statementKind")>> = entries
    BY SequencesOfSteps, CallFacts, ConcatEmptySeq
  <2>2. Enter("STATEMENT", entries, "same")
    BY <1>7, <2>1 DEF Statement
  <2>3. entries \in Seq(Steps)
    BY NextIsStep, CallFacts, SequencesOfSteps
  <2>4. ASSUME NEW c, NEW o, Nested(file, c, o)
        PROVE  Run(file, entries, ToFirst(file, c), Done(file, c, o))
    <3>1. Fits(file, Call("statementKind"), ToFirst(file, c), Done(file, c, o))
      BY <1>1, <2>4, BlockFits DEF Call, Leads, FirstToDone
    <3> QED BY <3>1, RunOne
  <2> HIDE DEF entries
  <2> QED BY <1>5, <2>2, <2>3, <2>4
<1> QED BY <1>6, <1>7

(* The statements of a block.                                              *)
LEMMA StatementsKeeps ==
  ASSUME IInv, BInv, Statements
  PROVE  BInv'
<1>1. Here /\ Head(todo).do = "statements" /\ stack # <<>> /\ file \in Seq(Kinds)
  <2>1. Pending("statements")
    BY Zenon DEF Statements
  <2> QED BY <2>1, BeginsHere DEF Here, FreshNames
<1>2. Enter("STATEMENTS_BLOCK", <<Call("firstStatement")>>, "same")
  BY DEF Statements
<1>3. ASSUME Regular(file), NEW k, Fits(file, Head(todo), {State}, k)
      PROVE  \E m : /\ Run(file, <<Call("firstStatement")>>, {State}, m)
                    /\ m \subseteq Space(file) /\ m \subseteq k
  <2>1. PICK c, o : /\ Nested(file, c, o) /\ State \in ToFirst(file, c)
                    /\ Ending(file, c, o) \subseteq k
    BY <1>1, <1>3, BlockFits DEF Leads, FirstToEnding
  <2>2. Fits(file, Call("firstStatement"), {State}, Ending(file, c, o))
    BY <1>1, <2>1, BlockFits DEF Call, Leads, FirstToEnding
  <2>3. Ending(file, c, o) \subseteq Space(file)
    BY DEF Ending, AtEnd, On, To
  <2> QED BY <2>1, <2>2, <2>3, RunOne
<1>4. "STATEMENTS_BLOCK" \in States \ BlockStates
  BY DEF States, BlockStates
<1> QED BY <1>1, <1>2, <1>3, <1>4, EnterSame, CallFacts, SequencesOfSteps

(* Any statement, and those that follow it. *)
LEMMA AnyStatementRuns ==
  ASSUME NEW c, NEW o, file \in Seq(Kinds), Nested(file, c, o), Regular(file)
  PROVE  Run(file, AnyStatement, ToFirst(file, c), Ending(file, c, o))
<1> DEFINE d == IF Kind \in {"class", "record"} THEN Kind ELSE "statement"
<1>1. d \in {"class", "record", "statement"} /\ AnyStatement = <<Call(d),
                                                                 Call("moreStatements")>>
  BY DEF AnyStatement
<1> HIDE DEF d
<1>2. Run(file, <<Call(d), Call("moreStatements")>>, ToFirst(file, c), Ending(file, c, o))
  BY <1>1, StatementRuns
<1> QED BY <1>1, <1>2

(* They are steps. *)
LEMMA AnyStatementSteps == AnyStatement \in Seq(Steps)
<1>1. CASE Kind = "class"
  BY <1>1, CallFacts, SequencesOfSteps DEF AnyStatement
<1>2. CASE Kind = "record"
  BY <1>2, CallFacts, SequencesOfSteps DEF AnyStatement
<1>3. CASE Kind \notin {"class", "record"}
  BY <1>3, CallFacts, SequencesOfSteps DEF AnyStatement
<1> QED BY <1>1, <1>2, <1>3

(* The first statement of a block.                                         *)
LEMMA FirstStatementKeeps ==
  ASSUME IInv, BInv, FirstStatement
  PROVE  BInv'
<1>1. Here /\ Head(todo).do = "firstStatement" /\ stack # <<>> /\ file \in Seq(Kinds)
      /\ cur \in 1 .. Len(file) /\ \A kinds : State \in Reads(file, kinds) <=> Kind \in kinds
  <2>1. At("firstStatement")
    BY Zenon DEF FirstStatement
  <2> QED BY <2>1, ReadsHere DEF Here, FreshNames
<1>2. Then(AnyStatement)
  BY DEF FirstStatement
<1>3. ASSUME Regular(file), NEW k, Fits(file, Head(todo), {State}, k)
      PROVE  Run(file, AnyStatement, {State}, k)
  <2>1. PICK c, o : /\ Nested(file, c, o) /\ State \in ToFirst(file, c)
                    /\ Ending(file, c, o) \subseteq k
    BY <1>1, <1>3, BlockFits DEF Leads, FirstToEnding
  <2>2. Run(file, AnyStatement, ToFirst(file, c), Ending(file, c, o))
    BY <1>1, <1>3, <2>1, AnyStatementRuns
  <2> QED BY <2>1, <2>2, RunFrom
<1> QED BY <1>1, <1>2, <1>3, AnyStatementSteps, ThenFits

(* Behind a statement.                                                     *)
LEMMA MoreStatementsKeeps ==
  ASSUME IInv, BInv, MoreStatements
  PROVE  BInv'
<1>1. Here /\ Head(todo).do = "moreStatements" /\ stack # <<>> /\ file \in Seq(Kinds)
  <2>1. Pending("moreStatements")
    BY Zenon DEF MoreStatements
  <2> QED BY <2>1, BeginsHere DEF Here, FreshNames
<1>2. ASSUME NEW k, Fits(file, Head(todo), {State}, k)
      PROVE  \E c, o : /\ Nested(file, c, o) /\ State \in Done(file, c, o)
                       /\ Ending(file, c, o) \subseteq k
  BY <1>1, <1>2, BlockFits DEF Leads
<1>3. CASE node = "null" /\ Then(<<>>)
  <2>1. ASSUME Regular(file), NEW k, Fits(file, Head(todo), {State}, k)
        PROVE  Run(file, <<>>, {State}, k)
    <3>1. PICK c, o : State \in Done(file, c, o) /\ Ending(file, c, o) \subseteq k
      BY <1>2, <2>1
    <3>2. State \notin Valued(file)
      BY <1>1, <1>3 DEF Valued, Here
    <3>3. State \in Ending(file, c, o)
      BY <3>1, <3>2 DEF Done, OnNode
    <3> QED BY <3>1, <3>3, RunSkip
  <2> QED BY <1>1, <1>3, <2>1, ThenFits, SequencesOfSteps
<1>4. CASE node # "null" /\ Then(<<Next_, Call("nextStatement")>>)
  <2>1. ASSUME Regular(file), NEW k, Fits(file, Head(todo), {State}, k)
        PROVE  Run(file, <<Next_, Call("nextStatement")>>, {State}, k)
    <3>1. PICK c, o : /\ Nested(file, c, o) /\ State \in Done(file, c, o)
                      /\ Ending(file, c, o) \subseteq k
      BY <1>2, <2>1
    <3>2. State \in Valued(file)
      BY <1>1, <1>4 DEF Valued, Here
    <3>3. State \in OnNode(file, c)
      BY <3>1, <3>2 DEF Done
    <3>4. Run(file, <<Next_, Call("nextStatement")>>, OnNode(file, c), Ending(file, c, o))
      BY <1>1, <2>1, <3>1, StatementRuns
    <3> QED BY <3>1, <3>3, <3>4, RunFrom
  <2> QED BY <1>1, <1>4, <2>1, ThenFits, NextIsStep, CallFacts, SequencesOfSteps
<1> QED BY <1>3, <1>4 DEF MoreStatements

(* The next statement, or the end of the block.                            *)
LEMMA NextStatementKeeps ==
  ASSUME IInv, BInv, NextStatement
  PROVE  BInv'
<1>1. Here /\ Head(todo).do = "nextStatement" /\ stack # <<>> /\ file \in Seq(Kinds)
      /\ cur \in 1 .. Len(file) /\ \A kinds : State \in Reads(file, kinds) <=> Kind \in kinds
  <2>1. At("nextStatement")
    BY Zenon DEF NextStatement
  <2> QED BY <2>1, ReadsHere DEF Here, FreshNames
<1>2. ASSUME NEW k, Fits(file, Head(todo), {State}, k)
      PROVE  \E c, o : /\ Nested(file, c, o) /\ State \in To(file, c)
                       /\ Ending(file, c, o) \subseteq k
  BY <1>1, <1>2, BlockFits DEF Leads
<1>3. CASE Kind = "}"
  <2>1. Then(<<>>)
    BY <1>3, Zenon DEF NextStatement
  <2>2. ASSUME Regular(file), NEW k, Fits(file, Head(todo), {State}, k)
        PROVE  Run(file, <<>>, {State}, k)
    <3>1. PICK c, o : State \in To(file, c) /\ Ending(file, c, o) \subseteq k
      BY <1>2, <2>2
    <3>2. State \in Ending(file, c, o)
      BY <1>1, <1>3, <3>1, Zenon DEF AtEnd, Ending
    <3> QED BY <3>1, <3>2, RunSkip
  <2> QED BY <1>1, <2>1, <2>2, ThenFits, SequencesOfSteps
<1>4. CASE Kind # "}"
  <2>1. Then(AnyStatement)
    BY <1>4, Zenon DEF NextStatement
  <2>2. State \in First(file)
    <3>1. ~Closing(file, cur)
      BY <1>4, Zenon DEF Kind, Closing
    <3> QED BY <1>1, <3>1 DEF First, Here
  <2>3. ASSUME Regular(file), NEW k, Fits(file, Head(todo), {State}, k)
        PROVE  Run(file, AnyStatement, {State}, k)
    <3>1. PICK c, o : /\ Nested(file, c, o) /\ State \in To(file, c)
                      /\ Ending(file, c, o) \subseteq k
      BY <1>2, <2>3
    <3>2. Run(file, AnyStatement, ToFirst(file, c), Ending(file, c, o))
      BY <1>1, <2>3, <3>1, AnyStatementRuns
    <3>3. State \in ToFirst(file, c)
      BY <2>2, <3>1 DEF ToFirst
    <3> QED BY <3>1, <3>2, <3>3, RunFrom
  <2> QED BY <1>1, <2>1, <2>3, AnyStatementSteps, ThenFits
<1> QED BY <1>3, <1>4

(* What a statement begins with, and its semicolon. *)
LEMMA StatementJoined ==
  ASSUME NEW f \in Seq(Kinds), NEW c, NEW o, Nested(f, c, o), Regular(f), NEW s, NEW l,
         NEW entries \in Seq(Steps), Run(f, entries, l, OnNode(f, c)), s \in l
  PROVE  Run(f, entries \o EndOfStatement, {s}, Done(f, c, o))
<1>1. Run(f, EndOfStatement, OnNode(f, c), OnNode(f, c)) /\ OnNode(f, c) \subseteq Done(f, c, o)
  BY StatementRuns DEF Done
<1>2. entries \in Seq(Entries) /\ EndOfStatement \in Seq(Entries)
  BY NamedSteps, SeqMonotonic DEF Entries
<1>3. Run(f, entries \o EndOfStatement, l, OnNode(f, c))
  BY <1>1, <1>2, RunJoined
<1> QED BY <1>1, <1>3, RunFrom

(* A closing brace where a statement may begin: unless it ends an empty    *)
(* block, it is behind a comment or behind flags.                          *)
LEMMA StrayBrace ==
  ASSUME NEW f \in Seq(Kinds), NEW s \in First(f), s[1] <= Len(f), Closing(f, s[1]),
         s[1] > 1 => ~Opening(f, s[1] - 1)
  PROVE  Odd(f)
<1> DEFINE n == s[1]
           start == "#{"
           text == "#"
<1>1. n \in 1 .. Len(f) + 1 /\ n <= Len(f) /\ Closing(f, n) /\ n - 1 > 0
      /\ f[n - 1] \in Openers \cup Comments /\ Len(f) \in Nat /\ n \in 1 .. Len(f)
      /\ PeekPrev(f, n) = f[n - 1] /\ ~Opening(f, n - 1) /\ n - 1 \in 1 .. Len(f)
  <2>1. s \in Space(f) /\ n <= Len(f) /\ Closing(f, n)
    BY DEF First
  <2>2. n > 1 /\ f[n - 1] \in Openers \cup Comments
    BY <2>1 DEF First
  <2>3. n \in 1 .. Len(f) + 1 /\ Len(f) \in Nat
    BY <2>1, StateParts, LenProperties
  <2> HIDE DEF n
  <2> QED BY <2>1, <2>2, <2>3 DEF PeekPrev, n
<1>2. f[n - 1] \in {"]", "#", "#{", "}#"}
  BY <1>1, Zenon DEF Openers, Comments, Opening
<1>3. CASE f[n - 1] = start
  <2>1. Closing(f, n) => f[n] # text
    BY Zenon DEF Closing
  <2>2. PeekNext(f, n - 1) # text
    <3> HIDE DEF n, start, text
    <3> QED BY <1>1, <2>1 DEF PeekNext
  <2> QED BY <1>1, <1>3, <2>2, Zenon DEF Odd
<1>4. CASE f[n - 1] # start
  <2>1. PeekPrev(f, n) \in {"#", "}#", "]"}
    BY <1>1, <1>2, <1>4, Zenon
  <2> QED BY <1>1, <2>1, Zenon DEF Odd
<1> QED BY <1>3, <1>4

(* What a statement is.                                                    *)
LEMMA StatementKindKeeps ==
  ASSUME IInv, BInv, StatementKind
  PROVE  BInv'
<1>1. Here /\ Head(todo).do = "statementKind" /\ stack # <<>> /\ file \in Seq(Kinds)
      /\ cur \in 1 .. Len(file) /\ \A kinds : State \in Reads(file, kinds) <=> Kind \in kinds
  <2>1. At("statementKind")
    BY Zenon DEF StatementKind
  <2> QED BY <2>1, ReadsHere DEF Here, FreshNames
<1>2. ASSUME NEW k, Fits(file, Head(todo), {State}, k)
      PROVE  \E c, o : /\ Nested(file, c, o) /\ State \in ToFirst(file, c)
                       /\ Done(file, c, o) \subseteq k
  BY <1>1, <1>2, BlockFits DEF Leads, FirstToDone
<1>3. ASSUME NEW c, NEW o, Nested(file, c, o), State \in ToFirst(file, c)
      PROVE  /\ Level(file, c) /\ Encloses(file, c, o) /\ State \in To(file, c)
             /\ State \in Either(file, c) /\ State \in First(file)
             /\ Kind \in Others => State \in On(file, c)
  <2>1. Level(file, c) /\ Encloses(file, c, o) /\ State \in To(file, c) /\ State \in First(file)
    BY <1>3 DEF Nested, Inner, ToFirst
  <2>2. State \in Either(file, c)
    BY <2>1 DEF Either
  <2> QED BY <1>1, <2>1, <2>2, OtherHere
<1>4. CASE /\ Kind = "x" /\ saved' = cur
           /\ todo' = <<Next_, Call("definitionOrExpression")>> \o EndOfStatement \o Tail(todo)
           /\ UNCHANGED <<file, cur, stack, node, phase>>
  <2> DEFINE entries == <<Next_, Call("definitionOrExpression")>>
  <2>1. State' = <<cur, cur, node>> /\ State = <<cur, saved, node>>
    BY <1>4 DEF State
  <2>2. ASSUME Regular(file), NEW k, Fits(file, Head(todo), {State}, k)
        PROVE  Run(file, entries \o EndOfStatement, {State'}, k)
    <3>1. PICK c, o : /\ Nested(file, c, o) /\ State \in ToFirst(file, c)
                      /\ Done(file, c, o) \subseteq k
      BY <1>2, <2>2
    <3>2. State \in On(file, c) /\ State \in To(file, c)
      <4>1. Kind \in Others
        BY <1>4, OtherFacts
      <4> QED BY <1>3, <3>1, <4>1
    <3>3. State' \in On(file, c) \cap Saved(file, c)
      <4>1. /\ State' \in Space(file) /\ State'[1] = cur /\ State'[2] = cur
            /\ State[1] = cur /\ cur \in c /\ cur - 1 \in c
        BY <1>1, <2>1, <3>2 DEF On, To, Here, Space
      <4>2. file[cur] = "x"
        BY <1>4 DEF Kind
      <4>3. cur <= Len(file)
        BY <1>1
      <4> HIDE DEF State
      <4> QED BY <4>1, <4>2, <4>3 DEF On, Saved
    <3>4. Run(file, entries, On(file, c) \cap Saved(file, c), OnNode(file, c))
      BY <1>1, <2>2, <3>1, StatementRuns
    <3>5. entries \in Seq(Steps)
      BY NextIsStep, CallFacts, SequencesOfSteps
    <3> HIDE DEF entries
    <3>6. Run(file, entries \o EndOfStatement, {State'}, Done(file, c, o))
      BY <1>1, <2>2, <3>1, <3>3, <3>4, <3>5, StatementJoined
    <3> QED BY <3>1, <3>6, RunWeaker
  <2>3. entries \in Seq(Steps)
    BY NextIsStep, CallFacts, SequencesOfSteps
  <2>4. todo' = entries \o EndOfStatement \o Tail(todo) /\ UNCHANGED <<file, stack, phase>>
    BY <1>4
  <2> HIDE DEF entries
  <2>5. entries \o EndOfStatement \in Seq(Steps)
    BY <2>3, NamedSteps, ConcatProperties
  <2> QED BY <1>1, <2>2, <2>4, <2>5, StepsReplace
<1>5. CASE Kind = "return" /\ Then(<<Call("returnExpression")>> \o EndOfStatement)
  <2> DEFINE entries == <<Call("returnExpression")>>
  <2>1. ASSUME Regular(file), NEW k, Fits(file, Head(todo), {State}, k)
        PROVE  Run(file, entries \o EndOfStatement, {State}, k)
    <3>1. PICK c, o : /\ Nested(file, c, o) /\ State \in ToFirst(file, c)
                      /\ Done(file, c, o) \subseteq k
      BY <1>2, <2>1
    <3>2. State \in On(file, c)
      <4>1. Kind \in Others
        BY <1>5, OtherFacts DEF Keywords
      <4> QED BY <1>3, <3>1, <4>1
    <3>3. entries \in Seq(Steps) /\ Run(file, entries, On(file, c), OnNode(file, c))
      BY <1>1, <2>1, <3>1, StatementRuns, CallFacts, SequencesOfSteps
    <3> HIDE DEF entries
    <3>4. Run(file, entries \o EndOfStatement, {State}, Done(file, c, o))
      BY <1>1, <2>1, <3>1, <3>2, <3>3, StatementJoined
    <3> QED BY <3>1, <3>4, RunWeaker
  <2>2. entries \in Seq(Steps)
    BY CallFacts, SequencesOfSteps
  <2>3. Then(entries \o EndOfStatement)
    BY <1>5
  <2> HIDE DEF entries
  <2>4. entries \o EndOfStatement \in Seq(Steps)
    BY <2>2, NamedSteps, ConcatProperties
  <2> QED BY <1>1, <2>1, <2>3, <2>4, ThenFits
<1>6. CASE Kind = "(" /\ Then(<<Call("expression")>> \o EndOfStatement)
  <2> DEFINE entries == <<Call("expression")>>
  <2>1. ASSUME Regular(file), NEW k, Fits(file, Head(todo), {State}, k)
        PROVE  Run(file, entries \o EndOfStatement, {State}, k)
    <3>1. PICK c, o : /\ Nested(file, c, o) /\ State \in ToFirst(file, c)
                      /\ Done(file, c, o) \subseteq k
      BY <1>2, <2>1
    <3>2. State \in Either(file, c) \cap Reads(file, {"x", "("})
      BY <1>1, <1>3, <1>6, <3>1
    <3>3. entries \in Seq(Steps) /\ Run(file, entries,
                                        Either(file, c) \cap Reads(file, {"x", "("}),
                                        OnNode(file, c))
      BY <1>1, <2>1, <3>1, StatementRuns, CallFacts, SequencesOfSteps
    <3> HIDE DEF entries
    <3>4. Run(file, entries \o EndOfStatement, {State}, Done(file, c, o))
      BY <1>1, <2>1, <3>1, <3>2, <3>3, StatementJoined
    <3> QED BY <3>1, <3>4, RunWeaker
  <2>2. entries \in Seq(Steps)
    BY CallFacts, SequencesOfSteps
  <2>3. Then(entries \o EndOfStatement)
    BY <1>6
  <2> HIDE DEF entries
  <2>4. entries \o EndOfStatement \in Seq(Steps)
    BY <2>2, NamedSteps, ConcatProperties
  <2> QED BY <1>1, <2>1, <2>3, <2>4, ThenFits
<1>7. CASE /\ Kind = "}" /\ node' = "null"
           /\ todo' = (IF EmptyBlock THEN <<>> ELSE EndOfStatement) \o Tail(todo)
           /\ UNCHANGED <<file, cur, saved, stack, phase>>
  <2>1. State' = Result(State, "null") /\ UNCHANGED <<file, stack, phase>>
    BY <1>7 DEF State, Result
  <2>2. State' \in Space(file) /\ State'[1] = cur /\ State'[3] = "null"
    BY <1>1, <1>7 DEF State, Here, Space
  <2>3. /\ State \in Reads(file, {"}"})
        /\ \A kinds : State' \in Reads(file, kinds) <=> Kind \in kinds
    <3>1. State \in Reads(file, {"}"})
      BY <1>1, <1>7, Zenon
    <3>2. \A kinds : State' \in Reads(file, kinds) <=> Kind \in kinds
      BY <1>1, <2>2 DEF Reads, Kind
    <3> QED BY <3>1, <3>2, Zenon
  <2>4. ASSUME NEW c, NEW o, Nested(file, c, o), State \in ToFirst(file, c)
        PROVE  State' \in AtEnd(file, c) \ Valued(file) /\ State' \in On(file, o)
    <3>1. cur - 1 \in c
      BY <1>1, <1>3, <2>4 DEF To, Here
    <3>2. State' \in To(file, c)
      BY <2>2, <3>1 DEF To
    <3>3. State' \in AtEnd(file, c)
      BY <1>7, <2>3, <3>2, Zenon DEF AtEnd
    <3>4. State' \in On(file, o)
      BY <1>1, <1>3, <2>4, <3>3, PassesClosing
    <3> QED BY <2>2, <3>3, <3>4 DEF Valued
  <2>5. CASE EmptyBlock
    <3>1. todo' = <<>> \o Tail(todo)
      BY <1>7, <2>5
    <3>2. ASSUME Regular(file), NEW k, Fits(file, Head(todo), {State}, k)
          PROVE  Run(file, <<>>, {State'}, k)
      <4>1. PICK c, o : /\ Nested(file, c, o) /\ State \in ToFirst(file, c)
                        /\ Done(file, c, o) \subseteq k
        BY <1>2, <3>2
      <4>2. State' \in Done(file, c, o)
        BY <2>4, <4>1 DEF Done, Ending
      <4> QED BY <4>1, <4>2, RunSkip
    <3> QED BY <1>1, <2>1, <3>1, <3>2, StepsReplace, SequencesOfSteps
  <2>6. CASE ~EmptyBlock
    <3>1. todo' = EndOfStatement \o Tail(todo)
      BY <1>7, <2>6
    <3>2. ASSUME Regular(file), NEW k, Fits(file, Head(todo), {State}, k)
          PROVE  Run(file, EndOfStatement, {State'}, k)
      <4>1. PICK c, o : /\ Nested(file, c, o) /\ State \in ToFirst(file, c)
                        /\ Done(file, c, o) \subseteq k
        BY <1>2, <3>2
      <4>2. cur > 1 => ~Opening(file, cur - 1)
        BY <2>6, Zenon DEF EmptyBlock, Opening, PeekPrev
      <4>3. Closing(file, cur)
        BY <1>7, Zenon DEF Closing, Kind
      <4>4. State[1] = cur /\ cur <= Len(file) /\ State \in First(file)
        BY <1>1, <1>3, <4>1 DEF Here
      <4>5. Odd(file)
        BY <1>1, <4>2, <4>3, <4>4, StrayBrace
      <4>6. State' \in OnStray(file, o)
        BY <2>2, <2>4, <4>1, <4>5 DEF OnStray, Stray
      <4>7. Run(file, EndOfStatement, OnStray(file, o), Done(file, c, o))
        BY <1>1, <3>2, <4>1, StatementRuns
      <4> QED BY <4>1, <4>6, <4>7, RunFrom
    <3> QED BY <1>1, <2>1, <3>1, <3>2, StepsReplace, NamedSteps
  <2> QED BY <2>5, <2>6
<1>8. CASE Fail
  BY <1>1, <1>8, ErrorFits
<1> QED BY <1>4, <1>5, <1>6, <1>7, <1>8, Zenon DEF StatementKind

(* A statement that begins with a name: the parser goes back to it.        *)
LEMMA DefinitionOrExpressionKeeps ==
  ASSUME IInv, BInv, DefinitionOrExpression
  PROVE  BInv'
<1>1. Here /\ Head(todo).do = "definitionOrExpression" /\ stack # <<>> /\ file \in Seq(Kinds)
      /\ cur \in 1 .. Len(file) /\ \A kinds : State \in Reads(file, kinds) <=> Kind \in kinds
  <2>1. At("definitionOrExpression")
    BY Zenon DEF DefinitionOrExpression
  <2> QED BY <2>1, ReadsHere DEF Here, FreshNames
<1> DEFINE d == IF Kind = ":" THEN "variableDef" ELSE "expression"
           entries == <<Call(d)>>
<1>2. /\ todo' = entries \o Tail(todo) /\ UNCHANGED <<file, stack, phase>>
      /\ State' = <<saved, Len(file) + 1, node>>
  BY DEF DefinitionOrExpression, State, End
<1>3. d \in {"variableDef", "expression"}
  OBVIOUS
<1> HIDE DEF d
<1>4. entries \in Seq(Steps)
  BY <1>3, CallFacts, SequencesOfSteps
<1>5. ASSUME Regular(file), NEW k, Fits(file, Head(todo), {State}, k)
      PROVE  Run(file, entries, {State'}, k)
  <2>1. PICK c : Inner(file, c) /\ State \in ToSaved(file, c) /\ OnNode(file, c) \subseteq k
    BY <1>1, <1>5, ToFits DEF Leads
  <2>2. /\ saved \in 1 .. Len(file) + 1 /\ saved <= Len(file) /\ file[saved] = "x"
        /\ saved - 1 \in c
    BY <1>1, <2>1, StateParts DEF ToSaved, Saved, Here
  <2>3. State' \in Space(file) /\ State'[1] = saved
    BY <1>1, <1>2, <2>2, StateParts DEF Space, Here
  <2>4. State' \in Either(file, c) \cap Reads(file, {"x", "("})
    BY <2>2, <2>3 DEF Either, To, Reads
  <2>5. Fits(file, Call(d), {State'}, k)
    <3>1. CASE d = "variableDef"
      BY <1>1, <2>1, <2>4, <3>1, EitherFits DEF Call, Leads, EitherToNode
    <3>2. CASE d = "expression"
      BY <1>1, <2>1, <2>4, <3>2, EitherFits DEF Call, Leads
    <3> QED BY <1>3, <3>1, <3>2
  <2> QED BY <2>5, RunOne
<1> HIDE DEF entries
<1> QED BY <1>1, <1>2, <1>4, <1>5, StepsReplace

(* Flags.                                                                  *)
LEMMA CompilerFlagsKeeps ==
  ASSUME IInv, BInv, CompilerFlags
  PROVE  BInv'
<1>1. Here /\ Head(todo).do = "flags" /\ stack # <<>> /\ file \in Seq(Kinds)
      /\ cur \in 1 .. Len(file) /\ \A kinds : State \in Reads(file, kinds) <=> Kind \in kinds
  <2>1. At("flags")
    BY Zenon DEF CompilerFlags
  <2> QED BY <2>1, ReadsHere DEF Here, FreshNames
<1>2. Enter("COMPILER_FLAGS", <<Verify({"@"}), Next_, Call("flagList")>>, "same")
  BY DEF CompilerFlags
<1>3. ASSUME Regular(file), NEW k, Fits(file, Head(todo), {State}, k)
      PROVE  \E m : /\ Run(file, <<Verify({"@"}), Next_, Call("flagList")>>, {State}, m)
                    /\ m \subseteq Space(file) /\ m \subseteq k
  <2>1. PICK c : Level(file, c) /\ State \in To(file, c) /\ OnBracket(file, c) \subseteq k
    BY <1>1, <1>3, OuterFits DEF FitsFlags, Leads, FlagNames
  <2>2. Safe(file, {State}) /\ Forward(file, c)
    BY <1>1, <1>3, <2>1, OuterFits DEF FlagNames, Level
  <2>3. Fits(file, Verify({"@"}), {State}, OnMark(file, c))
    <3>1. {State} \cap Reads(file, {"@"}) \subseteq OnOther(file, c)
      BY <1>1, <2>1, <2>2, PassesOther, OtherFacts
    <3>2. Reads(file, {"@"}) \subseteq Reads(file, Marks)
      BY DEF Reads, Marks
    <3>3. {State} \cap Reads(file, {"@"}) \subseteq OnMark(file, c)
      BY <3>1, <3>2 DEF OnOther, OnMark
    <3> QED BY <1>1, <2>2, <3>3, VerifyFits
  <2>4. Fits(file, Next_, OnMark(file, c), ToMarked(file, c) \ Reads(file, Braces))
    BY <1>1, <1>3, <2>2, NextFits
  <2>5. Fits(file, Call("flagList"), ToMarked(file, c) \ Reads(file, Braces),
             OnBracket(file, c))
    <3>1. Safe(file, ToMarked(file, c) \ Reads(file, Braces))
      BY <1>1, <2>1, <2>2, SafeSets, Inclusions DEF Forward, Safe
    <3> QED BY <1>1, <2>1, <3>1, OuterFits DEF Call, Leads, FitsFlags, FlagNames
  <2>6. Run(file, <<Verify({"@"}), Next_, Call("flagList")>>, {State}, OnBracket(file, c))
    BY <2>3, <2>4, <2>5, RunThree
  <2> QED BY <2>1, <2>6 DEF OnBracket, On
<1>4. "COMPILER_FLAGS" \in States \ BlockStates
  BY DEF States, BlockStates
<1>5. Verify({"@"}) \in Steps
  BY OtherSteps, OtherFacts
<1> QED BY <1>1, <1>2, <1>3, <1>4, <1>5, EnterSame, NextIsStep, CallFacts, SequencesOfSteps

(* The flag that is next in brackets. *)
LEMMA FlagRuns ==
  ASSUME NEW f \in Seq(Kinds), NEW c, Level(f, c), NEW s \in OnOther(f, c)
  PROVE  Run(f, <<Next_, Call("flag")>>, {s}, OnBracket(f, c))
<1>1. Fits(f, Next_, OnOther(f, c), ToOther(f, c))
  BY NextFits DEF Level
<1>2. Safe(f, ToOther(f, c))
  BY SafeSets DEF Level, Forward
<1>3. Fits(f, Call("flag"), ToOther(f, c), OnBracket(f, c))
  BY <1>2, OuterFits DEF Call, Leads, FitsFlags, FlagNames
<1> QED BY <1>1, <1>3, RunTwo, RunFrom

(* The brackets flags are in.                                              *)
LEMMA FlagListKeeps ==
  ASSUME IInv, BInv, FlagList
  PROVE  BInv'
<1>1. Here /\ Head(todo).do = "flagList" /\ stack # <<>> /\ file \in Seq(Kinds)
      /\ cur \in 1 .. Len(file) /\ \A kinds : State \in Reads(file, kinds) <=> Kind \in kinds
  <2>1. At("flagList")
    BY Zenon DEF FlagList
  <2> QED BY <2>1, ReadsHere DEF Here, FreshNames
<1>2. ASSUME NEW k, Fits(file, Head(todo), {State}, k)
      PROVE  \E c : /\ Level(file, c) /\ State \in ToMarked(file, c) \ Reads(file, Braces)
                    /\ OnBracket(file, c) \subseteq k
  BY <1>1, <1>2, OuterFits DEF FitsFlags, Leads, FlagNames
<1>3. \/ Kind \in Braces /\ Then(<<>>)
      \/ Kind \in {"["} /\ Then(<<Next_, Call("flag")>>)
      \/ Fail
  BY Zenon DEF FlagList, Braces
<1>4. CASE Kind \in Braces /\ Then(<<>>)
  BY <1>1, <1>2, <1>4, ThenFits, SequencesOfSteps
<1>5. CASE Kind \in {"["} /\ Then(<<Next_, Call("flag")>>)
  <2>1. ASSUME Regular(file), NEW k, Fits(file, Head(todo), {State}, k)
        PROVE  Run(file, <<Next_, Call("flag")>>, {State}, k)
    <3>1. PICK c : /\ Level(file, c) /\ State \in ToMarked(file, c)
                   /\ OnBracket(file, c) \subseteq k
      BY <1>2, <2>1
    <3>2. State \in Either(file, c) /\ State \in Reads(file, Others)
      BY <1>1, <1>5, <3>1, OtherFacts DEF ToMarked, Either
    <3>3. State \in OnOther(file, c)
      BY <1>1, <3>1, <3>2, OtherHere
    <3> QED BY <1>1, <3>1, <3>3, FlagRuns, RunWeaker
  <2> QED BY <1>1, <1>5, <2>1, ThenFits, NextIsStep, CallFacts, SequencesOfSteps
<1>6. CASE Fail
  BY <1>1, <1>6, ErrorFits
<1> QED BY <1>3, <1>4, <1>5, <1>6

(* One flag.                                                               *)
LEMMA FlagKeeps ==
  ASSUME IInv, BInv, Flag
  PROVE  BInv'
<1>1. Here /\ Head(todo).do = "flag" /\ stack # <<>> /\ file \in Seq(Kinds)
      /\ cur \in 1 .. Len(file) /\ \A kinds : State \in Reads(file, kinds) <=> Kind \in kinds
  <2>1. At("flag")
    BY Zenon DEF Flag
  <2> QED BY <2>1, ReadsHere DEF Here, FreshNames
<1>2. ASSUME NEW k, Fits(file, Head(todo), {State}, k)
      PROVE  \E c : /\ Level(file, c) /\ State \in To(file, c)
                    /\ OnBracket(file, c) \subseteq k
  BY <1>1, <1>2, OuterFits DEF FitsFlags, Leads, FlagNames, ToOther
<1>3. \/ Kind \in Others /\ Then(<<Next_, Call("flag")>>)
      \/ Kind \in {"]"} /\ Then(<<>>)
      \/ Fail
  <2>1. "x" \in Others /\ "," \in Others
    BY Zenon DEF Others, Kinds, Braces
  <2> QED BY <2>1, Zenon DEF Flag
<1>4. CASE Kind \in Others /\ Then(<<Next_, Call("flag")>>)
  <2>1. ASSUME Regular(file), NEW k, Fits(file, Head(todo), {State}, k)
        PROVE  Run(file, <<Next_, Call("flag")>>, {State}, k)
    <3>1. PICK c : Level(file, c) /\ State \in To(file, c) /\ OnBracket(file, c) \subseteq k
      BY <1>2, <2>1
    <3>2. State \in OnOther(file, c)
      BY <1>1, <1>4, <3>1, OtherHere DEF Either
    <3> QED BY <1>1, <3>1, <3>2, FlagRuns, RunWeaker
  <2> QED BY <1>1, <1>4, <2>1, ThenFits, NextIsStep, CallFacts, SequencesOfSteps
<1>5. CASE Kind \in {"]"} /\ Then(<<>>)
  <2>1. ASSUME Regular(file), NEW k, Fits(file, Head(todo), {State}, k)
        PROVE  Run(file, <<>>, {State}, k)
    <3>1. PICK c : Level(file, c) /\ State \in To(file, c) /\ OnBracket(file, c) \subseteq k
      BY <1>2, <2>1
    <3>2. State \in On(file, c)
      <4>1. Kind \in Others
        BY <1>5, OtherFacts
      <4> QED BY <1>1, <3>1, <4>1, OtherHere DEF Either
    <3>3. State \in OnBracket(file, c)
      BY <1>1, <1>5, <3>2 DEF OnBracket
    <3> QED BY <3>1, <3>3, RunSkip
  <2> QED BY <1>1, <1>5, <2>1, ThenFits, SequencesOfSteps
<1>6. CASE Fail
  BY <1>1, <1>6, ErrorFits
<1> QED BY <1>3, <1>4, <1>5, <1>6

(* Namespaces: a regular file has none. *)
LEMMA NamespaceThen ==
  ASSUME IInv, BInv, Here, stack # <<>>, Head(todo).do \in NamespaceNames,
         NEW entries \in Seq(Steps), Then(entries)
  PROVE  BInv'
<1>1. ASSUME NEW k
      PROVE  ~Fits(file, Head(todo), {State}, k)
  BY PlainFits DEF Here
<1> QED BY <1>1, ThenFits

(* The head of a namespace.                                                *)
LEMMA NamespaceBlockKeeps ==
  ASSUME IInv, BInv, NamespaceBlock
  PROVE  BInv'
<1> DEFINE first == Verify({"namespace"})
           entries == <<first, Next_, Next_, Brace_, Next_, Call("namespaceBody")>>
<1>1. Here /\ Head(todo).do = "namespace" /\ stack # <<>> /\ file \in Seq(Kinds)
      /\ cur \in 1 .. Len(file) /\ \A kinds : State \in Reads(file, kinds) <=> Kind \in kinds
  <2>1. At("namespace")
    BY Zenon DEF NamespaceBlock
  <2> QED BY <2>1, ReadsHere DEF Here, FreshNames
<1>2. \A k : ~Fits(file, Head(todo), {State}, k)
  BY <1>1, PlainFits DEF NamespaceNames
<1>3. Enter("NAMESPACE_BLOCK", <<>>, "null") \/ Enter("NAMESPACE_BLOCK", entries, "namespace")
  BY Zenon DEF NamespaceBlock, Brace_
<1>4. first \in Steps
  BY VerifyFacts, Zenon
<1> HIDE DEF first
<1>5. entries \in Seq(Steps)
  BY <1>4, NamedSteps, NextIsStep, CallFacts, SequencesOfSteps
<1> HIDE DEF entries
<1>6. "NAMESPACE_BLOCK" \in States /\ "namespace" \in Kinds
  BY ResultFacts DEF States
<1> QED BY <1>1, <1>2, <1>3, <1>5, <1>6, EnterFits, SequencesOfSteps

(* What is in it.                                                          *)
LEMMA NamespaceBodyKeeps ==
  ASSUME IInv, BInv, NamespaceBody
  PROVE  BInv'
<1>1. Here /\ Head(todo).do = "namespaceBody" /\ stack # <<>> /\ file \in Seq(Kinds)
      /\ cur \in 1 .. Len(file) /\ \A kinds : State \in Reads(file, kinds) <=> Kind \in kinds
  <2>1. At("namespaceBody")
    BY Zenon DEF NamespaceBody
  <2> QED BY <2>1, ReadsHere DEF Here, FreshNames
<1>2. \/ Then(<<Call("namespace"), EndBrace_>>) \/ Then(<<>>)
      \/ Then(<<Call("statements"), Next_, EndBrace_>>)
  BY Zenon DEF NamespaceBody, EndBrace_
<1>3. Head(todo).do \in NamespaceNames
  BY <1>1 DEF NamespaceNames
<1>4. /\ <<Call("namespace"), EndBrace_>> \in Seq(Steps) /\ <<>> \in Seq(Steps)
      /\ <<Call("statements"), Next_, EndBrace_>> \in Seq(Steps)
  BY NamedSteps, NextIsStep, CallFacts, SequencesOfSteps
<1> QED BY <1>1, <1>2, <1>3, <1>4, NamespaceThen

(* What is behind it.                                                      *)
LEMMA MoreNamespacesKeeps ==
  ASSUME IInv, BInv, MoreNamespaces
  PROVE  BInv'
<1>1. Here /\ Head(todo).do = "moreNamespaces" /\ stack # <<>> /\ file \in Seq(Kinds)
  <2>1. Pending("moreNamespaces")
    BY Zenon DEF MoreNamespaces
  <2> QED BY <2>1, BeginsHere, SMTT(40) DEF Here, FreshNames
<1>2. Then(<<Call("statements")>>) \/ Then(<<Next_, Call("nextNamespace")>>)
  BY DEF MoreNamespaces
<1>3. Head(todo).do \in NamespaceNames
  BY <1>1 DEF NamespaceNames
<1> QED BY <1>1, <1>2, <1>3, NamespaceThen, NextIsStep, CallFacts, SequencesOfSteps

(* The next one.                                                           *)
LEMMA NextNamespaceKeeps ==
  ASSUME IInv, BInv, NextNamespace
  PROVE  BInv'
<1>1. Here /\ Head(todo).do = "nextNamespace" /\ stack # <<>> /\ file \in Seq(Kinds)
  <2>1. Pending("nextNamespace")
    BY Zenon DEF NextNamespace
  <2> QED BY <2>1, BeginsHere, SMTT(40) DEF Here, FreshNames
<1>2. \/ Then(<<>>) \/ Then(<<Call("statements")>>)
      \/ Then(<<Call("namespace"), Call("moreNamespaces")>>)
  BY Zenon DEF NextNamespace
<1>3. Head(todo).do \in NamespaceNames
  BY <1>1 DEF NamespaceNames
<1> QED BY <1>1, <1>2, <1>3, NamespaceThen, CallFacts, SequencesOfSteps

(* Eight. *)
LEMMA RunEight ==
  ASSUME NEW f, NEW l, NEW k, NEW m1, NEW m2, NEW m3, NEW m4, NEW m5, NEW m6, NEW m7,
         NEW a, NEW b, NEW c, NEW d, NEW e, NEW i, NEW j, NEW p,
         Fits(f, a, l, m1), Fits(f, b, m1, m2), Fits(f, c, m2, m3),
         Fits(f, d, m3, m4), Fits(f, e, m4, m5), Fits(f, i, m5, m6),
         Fits(f, j, m6, m7), Fits(f, p, m7, k)
  PROVE  Run(f, <<a, b, c, d, e, i, j, p>>, l, k)
<1> DEFINE t == <<a, b, c, d, e, i, j, p>>
           g == <<l, m1, m2, m3, m4, m5, m6, m7, k>>
<1>1. /\ Len(t) = 8 /\ t[1] = a /\ t[2] = b /\ t[3] = c /\ t[4] = d /\ t[5] = e
      /\ t[6] = i /\ t[7] = j /\ t[8] = p
  OBVIOUS
<1>2. /\ g[1] = l /\ g[2] = m1 /\ g[3] = m2 /\ g[4] = m3 /\ g[5] = m4 /\ g[6] = m5
      /\ g[7] = m6 /\ g[8] = m7 /\ g[9] = k
  OBVIOUS
<1> HIDE DEF t, g
<1>3. \A x \in 1 .. Len(t) : \/ x = 1 \/ x = 2 \/ x = 3 \/ x = 4 \/ x = 5 \/ x = 6
                             \/ x = 7 \/ x = 8
  BY <1>1
<1>4. \A x \in 1 .. Len(t) : Fits(f, t[x], g[x], g[x + 1])
  BY <1>1, <1>2, <1>3
<1>5. l \subseteq g[1] /\ g[Len(t) + 1] \subseteq k
  BY <1>1, <1>2
<1>6. Run(f, t, l, k)
  BY <1>4, <1>5 DEF Run
<1> QED BY <1>6 DEF t

(* The level within a block that is in no other. *)
LEMMA OutsideLevels ==
  ASSUME NEW f \in Seq(Kinds)
  PROVE  /\ Level(f, Outside(f)) /\ Forward(f, Outside(f)) /\ Outside(f) \subseteq 0 .. Len(f)
         /\ Nested(f, Opened(f, Outside(f)), Outside(f))
         /\ Inner(f, Opened(f, Outside(f))) /\ Forward(f, Opened(f, Outside(f)))
         /\ Encloses(f, Opened(f, Outside(f)), Outside(f))
<1>1. Level(f, Outside(f)) /\ Deep(f, Outside(f), 0)
  BY OutsideIsLevel
<1>2. Nested(f, Opened(f, Outside(f)), Outside(f))
  BY <1>1, BlockLevels
<1> QED BY <1>1, <1>2 DEF Nested, Inner, Level, Forward

(* The head of a block outside of all others. *)
LEMMA OutsideRuns ==
  ASSUME NEW f \in Seq(Kinds), Regular(f), NEW c, c = Outside(f)
  PROVE  /\ \A s : Safe(f, {s}) /\ s \in To(f, c) =>
              Run(f, <<Call("flags"), Next_, Brace_>>, {s}, OnFirst(f, Opened(f, c)))
         /\ Run(f, <<Next_, Verify({"1.2.3"}), Next_>>, OnOther(f, c), ToOther(f, c))
<1>1. /\ Level(f, c) /\ Forward(f, c) /\ c \subseteq 0 .. Len(f)
      /\ Safe(f, ToOther(f, c)) /\ Safe(f, On(f, c))
  BY OutsideLevels, SafeSets
<1>2. Fits(f, Next_, OnOther(f, c), ToOther(f, c))
  BY <1>1, NextFits
<1>3. ASSUME NEW s, Safe(f, {s}), s \in To(f, c)
      PROVE  Run(f, <<Call("flags"), Next_, Brace_>>, {s}, OnFirst(f, Opened(f, c)))
  <2>1. Fits(f, Call("flags"), {s}, OnBracket(f, c))
    BY <1>1, <1>3, OuterFits DEF Call, Leads, FitsFlags, FlagNames
  <2>2. Fits(f, Next_, OnBracket(f, c), ToOther(f, c))
    BY <1>1, <1>2, Inclusions, FitsWeaker
  <2>3. Fits(f, Brace_, ToOther(f, c), OnFirst(f, Opened(f, c)))
    BY <1>1, Inclusions, BlockFitsBrace
  <2> QED BY <2>1, <2>2, <2>3, RunThree
<1>4. Run(f, <<Next_, Verify({"1.2.3"}), Next_>>, OnOther(f, c), ToOther(f, c))
  <2>1. Fits(f, Verify({"1.2.3"}), ToOther(f, c), OnOther(f, c))
    BY <1>1, OtherFits, OtherFacts
  <2> QED BY <1>2, <2>1, RunThree
<1> QED BY <1>3, <1>4

(* The flags of a block that is in no other.                               *)
LEMMA FragmentFlagsKeeps ==
  ASSUME IInv, BInv, FragmentFlags
  PROVE  BInv'
<1>1. Here /\ Head(todo).do = "fragmentFlags" /\ stack # <<>> /\ file \in Seq(Kinds)
      /\ cur \in 1 .. Len(file) /\ \A kinds : State \in Reads(file, kinds) <=> Kind \in kinds
  <2>1. At("fragmentFlags")
    BY Zenon DEF FragmentFlags
  <2> QED BY <2>1, ReadsHere DEF Here, FreshNames
<1> DEFINE c == Outside(file)
<1>2. ASSUME NEW k, Fits(file, Head(todo), {State}, k)
      PROVE  /\ Safe(file, {State}) /\ State \in ToBlock(file, c)
             /\ OnFirst(file, Opened(file, c)) \subseteq k
  BY <1>1, <1>2, OuterFits DEF FitsOutside, Leads, OutsideNames, ReadsNothing
<1> HIDE DEF c
<1>3. CASE Kind = "@"
  <2> DEFINE entries == <<Call("flags"), Next_, Brace_>>
  <2>1. Then(entries)
    BY <1>3, Zenon DEF FragmentFlags, Brace_
  <2>2. ASSUME Regular(file), NEW k, Fits(file, Head(todo), {State}, k)
        PROVE  Run(file, entries, {State}, k)
    <3>1. /\ Safe(file, {State}) /\ State \in To(file, c)
          /\ OnFirst(file, Opened(file, c)) \subseteq k
      BY <1>2, <2>2 DEF ToBlock
    <3> QED BY <1>1, <2>2, <3>1, OutsideRuns, RunWeaker DEF c
  <2>3. entries \in Seq(Steps)
    BY NamedSteps, NextIsStep, CallFacts, SequencesOfSteps
  <2> HIDE DEF entries
  <2> QED BY <1>1, <2>1, <2>2, <2>3, ThenFits
<1>4. CASE Kind # "@"
  <2>1. Then(<<>>)
    BY <1>4, Zenon DEF FragmentFlags
  <2>2. ASSUME Regular(file), NEW k, Fits(file, Head(todo), {State}, k)
        PROVE  Run(file, <<>>, {State}, k)
    <3>1. State \in ToBlock(file, c) /\ OnFirst(file, Opened(file, c)) \subseteq k
      BY <1>2, <2>2
    <3>2. State \in To(file, c) /\ State \in Reads(file, {"{", "@"})
      BY <3>1, Zenon DEF ToBlock
    <3>3. Kind \in {"{"}
      <4>1. Kind \in {"{", "@"}
        BY <1>1, <3>2, Zenon
      <4> QED BY <1>4, <4>1, Zenon
    <3>4. State \in Reads(file, {"{"})
      BY <1>1, <3>3, Zenon
    <3>5. State \in OnFirst(file, Opened(file, c))
      BY <1>1, <3>2, <3>4, PassesOpening, Zenon
    <3>6. State \in k
      BY <3>1, <3>5, Zenon
    <3> QED BY <3>6, RunSkip
  <2> QED BY <1>1, <2>1, <2>2, ThenFits, SequencesOfSteps
<1> QED BY <1>3, <1>4

(* What is in it.                                                          *)
LEMMA FragmentBodyKeeps ==
  ASSUME IInv, BInv, FragmentBody
  PROVE  BInv'
<1>1. Here /\ Head(todo).do = "fragmentBody" /\ stack # <<>> /\ file \in Seq(Kinds)
      /\ cur \in 1 .. Len(file) /\ \A kinds : State \in Reads(file, kinds) <=> Kind \in kinds
  <2>1. At("fragmentBody")
    BY Zenon DEF FragmentBody
  <2> QED BY <2>1, ReadsHere DEF Here, FreshNames
<1>2. \/ Kind = "namespace" /\ Then(<<Call("namespace"), Call("moreNamespaces")>>)
      \/ Then(<<Call("statements")>>)
  BY Zenon DEF FragmentBody
<1>3. ASSUME Regular(file)
      PROVE  Kind # "namespace"
  BY <1>1, <1>3, Zenon DEF Regular, Kind
<1>4. CASE Kind = "namespace" /\ Then(<<Call("namespace"), Call("moreNamespaces")>>)
  BY <1>1, <1>3, <1>4, ThenFits, CallFacts, SequencesOfSteps
<1>5. CASE Then(<<Call("statements")>>)
  <2>1. ASSUME NEW k, Fits(file, Head(todo), {State}, k)
        PROVE  Run(file, <<Call("statements")>>, {State}, k)
    <3>1. PICK c, o : /\ Nested(file, c, o)
                      /\ Leads({State}, ToFirst(file, c), Ending(file, c, o), k)
      BY <1>1, <2>1, BlockFits DEF FirstToEnding
    <3>2. Fits(file, Call("statements"), {State}, k)
      BY <1>1, <3>1, BlockFits DEF Call, FirstToEnding
    <3> QED BY <3>2, RunOne
  <2> QED BY <1>1, <1>5, <2>1, ThenFits, CallFacts, SequencesOfSteps
<1> QED BY <1>2, <1>4, <1>5

(* A block that is in no other.                                            *)
LEMMA CodeFragmentBlockKeeps ==
  ASSUME IInv, BInv, CodeFragmentBlock
  PROVE  BInv'
<1>1. Here /\ Head(todo).do = "fragment" /\ file \in Seq(Kinds)
      /\ cur \in 1 .. Len(file) /\ \A kinds : State \in Reads(file, kinds) <=> Kind \in kinds
  <2>1. At("fragment")
    BY Zenon DEF CodeFragmentBlock
  <2> QED BY <2>1, ReadsHere DEF Here, FreshNames
<1> DEFINE c == Outside(file)
           i == Opened(file, c)
           first == Verify({"{", "@"})
           entries == <<first, Call("verifyLast"), Call("fragmentFlags"), Next_,
                        Call("fragmentBody")>>
<1>2. ASSUME NEW k, Fits(file, Head(todo), {State}, k)
      PROVE  Safe(file, {State}) /\ State \in To(file, c) /\ On(file, c) \subseteq k
  BY <1>1, <1>2, OuterFits DEF FitsOutside, Leads, OutsideNames, ReadsNothing
<1>3. Nested(file, i, c) /\ Forward(file, i) /\ Encloses(file, i, c)
  BY <1>1, OutsideLevels
<1>4. first \in Steps
  BY VerifyFacts, Zenon
<1>5. ASSUME Safe(file, {State}), State \in To(file, c)
      PROVE  Fits(file, first, {State}, ToBlock(file, c))
  <2>1. {State} \cap Reads(file, {"{", "@"}) \subseteq ToBlock(file, c)
    BY <1>5, Zenon DEF ToBlock
  <2> QED BY <1>1, <1>5, <2>1, VerifyFits, Zenon
<1>6. Safe(file, ToBlock(file, c))
  <2>1. \A kinds : Safe(file, Reads(file, kinds))
    BY <1>1, OutsideLevels, SafeSets
  <2>2. Safe(file, Reads(file, {"{", "@"}))
    BY <2>1, Zenon
  <2> QED BY <2>2, Zenon DEF ToBlock, Safe
<1>7. Enter("CODE_FRAGMENT_BLOCK", entries, "same")
  BY Zenon DEF CodeFragmentBlock
<1> HIDE DEF first
<1>8. Fits(file, Call("fragmentFlags"), ToBlock(file, c), OnFirst(file, i))
  BY <1>1, <1>6, OuterFits DEF Call, FitsOutside, Leads, OutsideNames
<1> HIDE DEF c
<1>9. ASSUME Safe(file, {State}), State \in To(file, c)
      PROVE  Run(file, entries, {State}, On(file, c))
  <2>1. Fits(file, Call("verifyLast"), ToBlock(file, c), ToBlock(file, c))
    BY <1>1, <1>6, PlainFits DEF Call
  <2>2. Fits(file, Next_, OnFirst(file, i), ToFirst(file, i))
    BY <1>1, <1>3, NextFits
  <2>3. Fits(file, Call("fragmentBody"), ToFirst(file, i), On(file, c))
    <3>1. Ending(file, i, c) \subseteq On(file, c)
      BY <1>1, <1>3, PassesClosing
    <3> QED BY <1>1, <1>3, <3>1, BlockFits DEF Call, Leads, FirstToEnding
  <2> QED BY <1>5, <1>8, <1>9, <2>1, <2>2, <2>3, RunFive
<1>10. entries \in Seq(Steps)
  BY <1>4, NextIsStep, CallFacts, SequencesOfSteps
<1>11. "CODE_FRAGMENT_BLOCK" \in States \ BlockStates
  BY DEF States, BlockStates
<1>12. On(file, c) \subseteq Space(file)
  BY DEF On
<1> HIDE DEF entries
<1> QED BY <1>1, <1>2, <1>7, <1>9, <1>10, <1>11, <1>12, EnterSame

(* A module.                                                               *)
LEMMA ModuleBlockKeeps ==
  ASSUME IInv, BInv, ModuleBlock
  PROVE  BInv'
<1>1. Here /\ Head(todo).do = "module" /\ file \in Seq(Kinds)
      /\ cur \in 1 .. Len(file) /\ \A kinds : State \in Reads(file, kinds) <=> Kind \in kinds
  <2>1. At("module")
    BY Zenon DEF ModuleBlock
  <2> QED BY <2>1, ReadsHere DEF Here, FreshNames
<1> DEFINE c == Outside(file)
           first == Verify({"module"})
           name == Verify({"x"})
           entries == <<first, Next_, name, Next_, Call("version"), Brace_,
                        Call("verifyLast"), Call("fragment")>>
<1>2. ASSUME NEW k, Fits(file, Head(todo), {State}, k)
      PROVE  Safe(file, {State}) /\ State \in To(file, c) /\ On(file, c) \subseteq k
  BY <1>1, <1>2, OuterFits DEF FitsOutside, Leads, OutsideNames, ReadsNothing
<1>3. first \in Steps /\ name \in Steps
  BY OtherSteps, OtherFacts
<1>4. /\ Level(file, c) /\ Forward(file, c) /\ c \subseteq 0 .. Len(file)
      /\ Safe(file, ToOther(file, c)) /\ Safe(file, On(file, c))
  BY <1>1, OutsideLevels, SafeSets
<1>5. Enter("MODULE_BLOCK", entries, "same")
  BY Zenon DEF ModuleBlock, Brace_
<1>6. Fits(file, Call("version"), ToOther(file, c), ToOther(file, c))
  BY <1>1, <1>4, OuterFits DEF Call, FitsOutside, Leads, OutsideNames
<1>7. Fits(file, Call("fragment"), ToOther(file, c), On(file, c))
  <2>1. ToOther(file, c) \subseteq To(file, c)
    BY <1>1, <1>4, Inclusions
  <2> QED BY <1>1, <1>4, <2>1, OuterFits DEF Call, FitsOutside, Leads, OutsideNames
<1>8. Fits(file, name, ToOther(file, c), OnOther(file, c))
  BY <1>1, <1>4, OtherFits, OtherFacts
<1>9. ASSUME Safe(file, {State}), State \in To(file, c)
      PROVE  Fits(file, first, {State}, OnOther(file, c))
  <2>1. {State} \cap Reads(file, {"module"}) \subseteq OnOther(file, c)
    BY <1>1, <1>4, <1>9, PassesOther, OtherFacts
  <2> QED BY <1>1, <1>9, <2>1, VerifyFits
<1>10. Fits(file, Brace_, ToOther(file, c), ToOther(file, c))
  <2> DEFINE l == ToOther(file, c)
  <2>1. l \cap Reads(file, {"{"}) \subseteq l
    OBVIOUS
  <2> QED BY <1>1, <1>4, <2>1, VerifyFits, Zenon DEF Brace_
<1> HIDE DEF c, first, name
<1>11. ASSUME Safe(file, {State}), State \in To(file, c)
       PROVE  Run(file, entries, {State}, On(file, c))
  <2>1. Fits(file, Next_, OnOther(file, c), ToOther(file, c))
    BY <1>1, <1>4, NextFits
  <2>2. Fits(file, Call("verifyLast"), ToOther(file, c), ToOther(file, c))
    BY <1>1, <1>4, PlainFits DEF Call
  <2> QED BY <1>6, <1>7, <1>8, <1>9, <1>10, <1>11, <2>1, <2>2, RunEight
<1>12. entries \in Seq(Steps)
  BY <1>3, NamedSteps, NextIsStep, CallFacts, SequencesOfSteps
<1>13. "MODULE_BLOCK" \in States \ BlockStates
  BY DEF States, BlockStates
<1>14. On(file, c) \subseteq Space(file)
  BY DEF On
<1> HIDE DEF entries
<1> QED BY <1>1, <1>2, <1>5, <1>11, <1>12, <1>13, <1>14, EnterSame

(* Its version.                                                            *)
LEMMA VersionKeeps ==
  ASSUME IInv, BInv, Version
  PROVE  BInv'
<1>1. Here /\ Head(todo).do = "version" /\ stack # <<>> /\ file \in Seq(Kinds)
      /\ cur \in 1 .. Len(file) /\ \A kinds : State \in Reads(file, kinds) <=> Kind \in kinds
  <2>1. At("version")
    BY Zenon DEF Version
  <2> QED BY <2>1, ReadsHere DEF Here, FreshNames
<1> DEFINE c == Outside(file)
<1>2. ASSUME NEW k, Fits(file, Head(todo), {State}, k)
      PROVE  State \in ToOther(file, c) /\ ToOther(file, c) \subseteq k
  BY <1>1, <1>2, OuterFits DEF FitsOutside, Leads, OutsideNames
<1> HIDE DEF c
<1>3. \/ Kind \in Others /\ Then(<<Next_, Verify({"1.2.3"}), Next_>>)
      \/ Then(<<>>)
  <2>1. "," \in Others
    BY Zenon DEF Others, Kinds, Braces
  <2> QED BY <2>1, Zenon DEF Version
<1>4. CASE Kind \in Others /\ Then(<<Next_, Verify({"1.2.3"}), Next_>>)
  <2>1. Verify({"1.2.3"}) \in Steps
    BY OtherSteps, OtherFacts
  <2>2. ASSUME Regular(file), NEW k, Fits(file, Head(todo), {State}, k)
        PROVE  Run(file, <<Next_, Verify({"1.2.3"}), Next_>>, {State}, k)
    <3>1. Level(file, c)
      BY <1>1, OutsideLevels DEF c
    <3>2. State \in ToOther(file, c) /\ ToOther(file, c) \subseteq k
      BY <1>2, <2>2
    <3>3. State \in OnOther(file, c)
      BY <1>1, <1>4, <3>1, <3>2, OtherHere, Inclusions
    <3> QED BY <1>1, <2>2, <3>2, <3>3, OutsideRuns, RunFrom DEF c
  <2> QED BY <1>1, <1>4, <2>1, <2>2, ThenFits, NextIsStep, SequencesOfSteps
<1>5. CASE Then(<<>>)
  <2>1. ASSUME NEW k, Fits(file, Head(todo), {State}, k)
        PROVE  Run(file, <<>>, {State}, k)
    <3>1. State \in k
      BY <1>2, <2>1
    <3> QED BY <3>1, RunSkip
  <2> QED BY <1>1, <1>5, <2>1, ThenFits, SequencesOfSteps
<1> QED BY <1>3, <1>4, <1>5
(* Behind the last token, and outside of all blocks. *)
LEMMA OutsideIsEven ==
  ASSUME NEW f \in Seq(Kinds), Len(f) \in Outside(f)
  PROVE  Even(f)
<1>1. Len(f) \in Nat
  BY LenProperties
<1> QED BY <1>1 DEF Outside, Even

(* What is next to do can be done where the parser is. *)
LEMMA HereFits ==
  ASSUME IInv, Here, Regular(file)
  PROVE  \E m : Fits(file, Head(todo), {State}, m)
<1>1. todo \in Seq(Entries) /\ todo # <<>>
  BY DEF Here, Running, IInv, Typed
<1>2. PICK z : Run(file, todo, {State}, z)
  BY DEF Here, Walks
<1> QED BY <1>1, <1>2, RunFirst

(* Between blocks there may be no state on the stack.                      *)
LEMMA FreshFits ==
  ASSUME IInv, BInv, Here, NEW entries \in Seq(Steps), NEW c, Goes(entries, c),
         \A i \in 1 .. Len(entries) : entries[i].do \in FreshNames,
         Regular(file) =>
           \A k : Fits(file, Head(todo), {State}, k) => Run(file, entries, {Moved(State, c)}, k)
  PROVE  BInv'
<1>1. State' = Moved(State, c)
  BY DEF Goes, State, Moved, Here
<1> QED BY <1>1, StepsReplace DEF Goes

(* The next block, with the comment before it. *)
LEMMA StartRuns ==
  ASSUME file \in Seq(Kinds), NEW s \in Space(file), NEW n \in 1 .. Len(file) + 1,
         n - 1 \in Outside(file), NEW k
  PROVE  Run(file, IfComment(n) \o <<Call("start")>>, {Moved(s, n)}, k)
<1> DEFINE c == Outside(file)
<1>1. ASSUME NEW m \in Landing(file, n)
      PROVE  Moved(s, m) \in To(file, c)
  <2>1. m - 1 \in c
    BY OutsideLevels, LandsForward
  <2>2. m \in 1 .. Len(file) + 1
    BY Landed, LenProperties
  <2> QED BY <2>1, <2>2, MovedState DEF To
<1>2. Run(file, IfComment(n), {Moved(s, n)}, To(file, c))
  BY <1>1, CommentRuns DEF Lands
<1>3. Fits(file, Call("start"), To(file, c), k)
  BY OuterFits DEF Call, FitsOutside, OutsideNames, ReadsNothing
<1>4. Run(file, <<Call("start")>>, To(file, c), k)
  BY <1>3, RunOne
<1>5. IfComment(n) \in Seq(Entries) /\ <<Call("start")>> \in Seq(Entries)
  BY CommentSteps, CallFacts, SequencesOfSteps, SeqMonotonic DEF Entries
<1> HIDE DEF c
<1> QED BY <1>2, <1>4, <1>5, RunJoined

(* What the start of a file puts into todo are steps, and need no state on the stack. *)
LEMMA StartSteps ==
  ASSUME NEW n
  PROVE  LET entries == IfComment(n) \o <<Call("start")>>
         IN /\ entries \in Seq(Steps)
            /\ \A i \in 1 .. Len(entries) : entries[i].do \in FreshNames
<1> DEFINE s == IfComment(n)
           t == <<Call("start")>>
<1>1. t \in Seq(Steps) /\ Len(t) = 1 /\ t[1].do \in FreshNames
  BY CallFacts, SequencesOfSteps DEF Call, FreshNames
<1>2. s \in Seq(Steps) /\ \A i \in 1 .. Len(s) : s[i].do \in FreshNames
  BY CommentSteps
<1> HIDE DEF s, t
<1>3. /\ s \o t \in Seq(Steps) /\ Len(s) \in Nat /\ Len(s \o t) = Len(s) + 1
      /\ \A i \in 1 .. Len(s \o t) : (s \o t)[i] = IF i <= Len(s) THEN s[i] ELSE t[i - Len(s)]
  <2>1. s \o t \in Seq(Steps) /\ Len(s) \in Nat
    BY <1>1, <1>2, LenProperties, SequencesOfSteps
  <2>2. /\ Len(s \o t) = Len(s) + Len(t)
        /\ \A i \in 1 .. Len(s) + Len(t) :
             (s \o t)[i] = IF i <= Len(s) THEN s[i] ELSE t[i - Len(s)]
    BY <1>1, <1>2, ConcatProperties
  <2> QED BY <1>1, <2>1, <2>2
<1>4. ASSUME NEW i \in 1 .. Len(s \o t)
      PROVE  (s \o t)[i].do \in FreshNames
  <2>1. CASE i <= Len(s)
    BY <1>2, <1>3, <2>1
  <2>2. CASE i > Len(s)
    <3>1. i - Len(s) = 1
      BY <1>3, <2>2
    <3> QED BY <1>1, <1>3, <2>2, <3>1
  <2> QED BY <1>3, <2>1, <2>2
<1> QED BY <1>3, <1>4 DEF s, t

(* The beginning of a file. *)
LEMMA BeginKeeps ==
  ASSUME IInv, BInv, Begin
  PROVE  BInv'
<1>1. Here /\ Head(todo).do = "begin" /\ file \in Seq(Kinds)
      /\ State \in Space(file) /\ State[1] = cur /\ 1 \in 1 .. Len(file) + 1
  <2>1. Pending("begin")
    BY DEF Begin
  <2> QED BY <2>1, BeginsHere DEF Here
<1> DEFINE entries == IfComment(1) \o <<Call("start")>>
<1>2. Goes(entries, cur)
  BY DEF Begin
<1>3. ASSUME NEW k, Fits(file, Head(todo), {State}, k)
      PROVE  Run(file, entries, {Moved(State, cur)}, k)
  <2>1. State[1] = 1
    BY <1>1, <1>3, OuterFits DEF FitsOutside, OutsideNames
  <2>2. 1 - 1 \in Outside(file)
    BY <1>1, OutsideIsLevel
  <2> QED BY <1>1, <2>1, <2>2, StartRuns
<1>4. entries \in Seq(Steps) /\ \A i \in 1 .. Len(entries) : entries[i].do \in FreshNames
  BY StartSteps
<1> HIDE DEF entries
<1> QED BY <1>1, <1>2, <1>3, <1>4, FreshFits

(* A file is accepted. *)
LEMMA AcceptKeeps ==
  ASSUME IInv, BInv, Here, phase' = "accepted", file' = file,
         Regular(file) =>
           \A k : Fits(file, Head(todo), {State}, k) => Len(file) \in Outside(file)
  PROVE  BInv'
<1>1. ASSUME Regular(file)
      PROVE  Even(file)
  <2>1. Len(file) \in Outside(file)
    BY <1>1, HereFits
  <2> QED BY <2>1, OutsideIsEven DEF Here
<1>2. Regular(file)' => Even(file)'
  BY <1>1
<1> QED BY <1>2 DEF BInv, Fresh, Results

(* A block begins, or a token is passed over. *)
LEMMA StartKeeps ==
  ASSUME IInv, BInv, Start
  PROVE  BInv'
<1> DEFINE c == Outside(file)
           accepts == /\ ~HasTokensLeft(file, cur) /\ phase' = "accepted"
                      /\ UNCHANGED <<file, cur, saved, stack, todo, node>>
           fragment == At("start") /\ Then(<<Call("fragment"), Call("again")>>)
           module == At("start") /\ Then(<<Call("module"), Call("again")>>)
           skips == At("start") /\ Kind \in Others /\ Then(<<Call("again")>>)
<1>1. Here /\ Head(todo).do = "start" /\ file \in Seq(Kinds) /\ Len(file) \in Nat
      /\ State \in Space(file) /\ State[1] = cur /\ cur \in 1 .. Len(file) + 1
      /\ Level(file, c)
  <2>1. Pending("start")
    BY Zenon DEF Start
  <2> QED BY <2>1, BeginsHere, OutsideLevels DEF Here
<1>2. accepts \/ fragment \/ module \/ skips \/ Throw
  <2>1. Keywords \subseteq Others /\ {"@"} \subseteq Others
    BY OtherFacts
  <2>2. "program" \in Keywords
    BY Zenon DEF Keywords
  <2> QED BY <2>1, <2>2, Zenon DEF Start
<1>3. ASSUME NEW k, Fits(file, Head(todo), {State}, k)
      PROVE  State \in To(file, c)
  BY <1>1, <1>3, OuterFits DEF FitsOutside, OutsideNames
<1>4. Moved(State, cur) = State
  BY <1>1, MovedState
<1> HIDE DEF c, accepts, fragment, module, skips
<1>5. ASSUME NEW d \in {"fragment", "module"}, At("start"), Then(<<Call(d), Call("again")>>)
      PROVE  BInv'
  <2> DEFINE entries == <<Call(d), Call("again")>>
  <2>1. Safe(file, {State})
    <3>1. cur \in 1 .. Len(file)
      BY <1>5, ReadsHere
    <3> QED BY <1>1, <3>1 DEF Safe
  <2>2. ASSUME NEW k, Fits(file, Head(todo), {State}, k)
        PROVE  Run(file, entries, {State}, k)
    <3>1. Fits(file, Call(d), {State}, On(file, c))
      BY <1>1, <1>3, <2>1, <2>2, OuterFits DEF Call, Leads, FitsOutside, OutsideNames, c
    <3>2. Fits(file, Call("again"), On(file, c), k)
      BY <1>1, OuterFits DEF Call, FitsOutside, OutsideNames, ReadsNothing, c
    <3> QED BY <3>1, <3>2, RunTwo
  <2>3. entries \in Seq(Steps)
    BY CallFacts, SequencesOfSteps
  <2>4. \A i \in 1 .. Len(entries) : entries[i].do \in FreshNames
    <3>1. Len(entries) = 2 /\ entries[1] = Call(d) /\ entries[2] = Call("again")
      OBVIOUS
    <3>2. Call(d).do \in FreshNames /\ Call("again").do \in FreshNames
      BY DEF Call, FreshNames
    <3> HIDE DEF entries
    <3>3. \A i \in 1 .. Len(entries) : i = 1 \/ i = 2
      BY <3>1
    <3> QED BY <3>1, <3>2, <3>3
  <2>5. Goes(entries, cur)
    BY <1>5 DEF Then
  <2> HIDE DEF entries
  <2> QED BY <1>1, <1>4, <2>2, <2>3, <2>4, <2>5, FreshFits
<1>6. CASE accepts
  <2>1. cur = Len(file) + 1 /\ phase' = "accepted" /\ file' = file
    BY <1>1, <1>6 DEF accepts, HasTokensLeft, End
  <2>2. ASSUME NEW k, Fits(file, Head(todo), {State}, k)
        PROVE  Len(file) \in Outside(file)
    BY <1>1, <1>3, <2>1, <2>2 DEF To, c
  <2> QED BY <1>1, <2>1, <2>2, AcceptKeeps
<1>7. CASE fragment
  BY <1>5, <1>7 DEF fragment
<1>8. CASE module
  BY <1>5, <1>8 DEF module
<1>9. CASE skips
  <2>1. ASSUME NEW k, Fits(file, Head(todo), {State}, k)
        PROVE  Run(file, <<Call("again")>>, {State}, k)
    <3>1. State \in To(file, c)
      BY <1>3, <2>1
    <3>2. State \in Reads(file, Others)
      BY <1>9, ReadsHere DEF skips
    <3>3. State \in On(file, c)
      BY <1>1, <3>1, <3>2, OtherHere DEF Either
    <3>4. Fits(file, Call("again"), {State}, k)
      BY <1>1, <3>3, OuterFits DEF Call, FitsOutside, OutsideNames, ReadsNothing, c
    <3> QED BY <3>4, RunOne
  <2> DEFINE entries == <<Call("again")>>
  <2>2. entries \in Seq(Steps) /\ \A i \in 1 .. Len(entries) : entries[i].do \in FreshNames
    <3>1. Len(entries) = 1 /\ entries[1] = Call("again")
      OBVIOUS
    <3>2. Call("again").do \in FreshNames /\ entries \in Seq(Steps)
      BY CallFacts, SequencesOfSteps DEF Call, FreshNames
    <3> HIDE DEF entries
    <3> QED BY <3>1, <3>2
  <2>3. Goes(entries, cur)
    BY <1>9 DEF skips, Then
  <2> HIDE DEF entries
  <2> QED BY <1>1, <1>4, <2>1, <2>2, <2>3, FreshFits DEF entries
<1>10. CASE Throw
  BY <1>10, ErrorFits
<1> QED BY <1>2, <1>6, <1>7, <1>8, <1>9, <1>10

(* Behind a block. *)
LEMMA AgainKeeps ==
  ASSUME IInv, BInv, Again
  PROVE  BInv'
<1>1. Here /\ Head(todo).do = "again" /\ file \in Seq(Kinds) /\ Len(file) \in Nat
      /\ State \in Space(file) /\ State[1] = cur /\ cur \in 1 .. Len(file) + 1
  <2>1. Pending("again")
    BY DEF Again
  <2> QED BY <2>1, BeginsHere DEF Here
<1>2. ASSUME NEW k, Fits(file, Head(todo), {State}, k)
      PROVE  cur \in Outside(file) /\ cur <= Len(file)
  <2>1. State \in On(file, Outside(file))
    BY <1>1, <1>2, OuterFits DEF FitsOutside, OutsideNames
  <2> QED BY <1>1, <2>1, OutsideLevels DEF On
<1> DEFINE entries == IfComment(cur + 1) \o <<Call("start")>>
<1>3. CASE Goes(entries, cur + 1)
  <2>1. ASSUME NEW k, Fits(file, Head(todo), {State}, k)
        PROVE  Run(file, entries, {Moved(State, cur + 1)}, k)
    <3>1. cur + 1 \in 1 .. Len(file) + 1 /\ (cur + 1) - 1 \in Outside(file)
      BY <1>1, <1>2, <2>1
    <3> QED BY <1>1, <3>1, StartRuns
  <2>2. entries \in Seq(Steps) /\ \A i \in 1 .. Len(entries) : entries[i].do \in FreshNames
    BY StartSteps
  <2> HIDE DEF entries
  <2> QED BY <1>1, <1>3, <2>1, <2>2, FreshFits
<1>4. CASE cur + 1 >= End(file) /\ phase' = "accepted" /\ file' = file
  <2>1. ASSUME NEW k, Fits(file, Head(todo), {State}, k)
        PROVE  Len(file) \in Outside(file)
    <3>1. cur = Len(file)
      BY <1>1, <1>2, <1>4, <2>1 DEF End
    <3> QED BY <1>2, <2>1, <3>1
  <2> QED BY <1>1, <1>4, <2>1, AcceptKeeps
<1> QED BY <1>3, <1>4 DEF Again
(* Blocks. *)
LEMMA BlocksKeep ==
  ASSUME IInv, BInv, Blocks
  PROVE  BInv'
BY StatementKeeps, StatementKindKeeps, DefinitionOrExpressionKeeps, StatementsKeeps,
   FirstStatementKeeps, MoreStatementsKeeps, NextStatementKeeps, CompilerFlagsKeeps,
   FlagListKeeps, FlagKeeps, NamespaceBlockKeeps, NamespaceBodyKeeps,
   CodeFragmentBlockKeeps, FragmentFlagsKeeps, FragmentBodyKeeps, MoreNamespacesKeeps,
   NextNamespaceKeeps, ModuleBlockKeeps, VersionKeeps, BeginKeeps, StartKeeps, AgainKeeps
   DEF Blocks

-----------------------------------------------------------------------------
(* A parser that has not begun is before the first token. *)
LEMMA InitBInv == Init => BInv
<1> SUFFICES ASSUME Init PROVE BInv
  OBVIOUS
<1> DEFINE e == Call("begin")
<1>1. file \in Seq(Kinds) /\ Len(file) \in Nat
  BY ParserAssumption, LenProperties DEF Init
<1>2. /\ todo = <<e>> /\ e.do = "begin" /\ phase = "parsing" /\ stack = <<>>
      /\ cur = 1 /\ saved = Len(file) + 1 /\ node = "null"
  BY DEF Init, Call, End
<1>3. State \in To(file, Outside(file)) /\ State[1] = 1
  BY <1>1, <1>2, OutsideIsLevel DEF State, To, Space
<1> HIDE DEF e
<1>4. Fits(file, e, {State}, {})
  BY <1>1, <1>2, <1>3, OuterFits DEF FitsOutside, OutsideNames, ReadsNothing
<1>5. Walks
  BY <1>2, <1>4, RunOne DEF Walks
<1>6. Fresh
  <2>1. Len(todo) = 1 /\ todo[1] = e
    BY <1>2
  <2>2. \A i \in 1 .. Len(todo) : todo[i] = e
    BY <2>1
  <2> QED BY <1>2, <2>2 DEF Fresh, FreshNames
<1> QED BY <1>2, <1>5, <1>6 DEF BInv, Results

(* Every step of it leads on. *)
LEMMA NextBInv == IInv /\ BInv /\ [Next]_vars => BInv'
<1> SUFFICES ASSUME IInv, BInv, [Next]_vars PROVE BInv'
  OBVIOUS
<1>1. CASE UNCHANGED vars
  BY <1>1 DEF vars, BInv, Fresh, Results, Walks, State
<1> QED BY <1>1, LeaveGuardKeeps, CaughtKeeps, ReadPastEndKeeps, CursorKeeps, TypesKeep,
           DeclarationsKeep, ExpressionsKeep, BlocksKeep DEF Next

(* The parser is always where what is left to do expects it. *)
THEOREM ParserWalks == Spec => []BInv
BY Invariant, InitBInv, NextBInv, PTL DEF Spec

(* The names the properties give to these things. *)
LEMMA BraceNames ==
  ASSUME IInv
  PROVE  /\ file \in Seq(Kinds) /\ Len(file) \in Nat /\ DOMAIN file = 1 .. Len(file)
         /\ \A n \in Nat : Nesting(n) = Nest(file, n)
         /\ \A p, q \in Nat : Closes(p, q) <=> Matched(file, p, q)
         /\ Plain => Regular(file)
         /\ Balanced <=> Even(file)
         /\ OddComment <=> Odd(file)
<1>1. file \in Seq(Kinds) /\ Len(file) \in Nat /\ DOMAIN file = 1 .. Len(file)
  BY LenProperties DEF IInv, Typed
<1>2. ASSUME NEW n \in Nat
      PROVE  Nesting(n) = Nest(file, n)
  BY Zenon DEF Nesting, Nest, Openings, Closings, Opening, Closing
<1>3. ASSUME NEW p \in Nat, NEW q \in Nat
      PROVE  Closes(p, q) <=> Matched(file, p, q)
  <2>1. /\ Nesting(p) = Nest(file, p) /\ Nesting(q) = Nest(file, q)
        /\ \A i \in p .. q - 1 : Nesting(i) = Nest(file, i)
    BY <1>2
  <2> QED BY <2>1, Zenon DEF Closes, Matched, Opening, Closing
<1>4. ASSUME Plain
      PROVE  Regular(file)
  <2>1. ASSUME NEW i \in 1 .. Len(file), NEW j \in i + 1 .. Len(file)
        PROVE  /\ file[i] # "namespace"
               /\ file[i] \in Marks => PeekNext(file, i) \notin Braces \cup Starts
               /\ /\ file[i] \in Braces /\ Opening(file, j)
                  /\ \A k \in i + 1 .. j - 1 : file[k] \in Comments
                  => Nest(file, i) = 0
    <3>1. Nesting(i) = Nest(file, i)
      BY <1>2, <1>1
    <3> QED BY <1>1, <1>4, <3>1, Zenon DEF Plain, Marks, Starts, Comments, Opening
  <2>2. ASSUME NEW i \in 1 .. Len(file)
        PROVE  /\ file[i] # "namespace"
               /\ file[i] \in Marks => PeekNext(file, i) \notin Braces \cup Starts
    BY <1>1, <1>4, Zenon DEF Plain, Marks, Starts
  <2> QED BY <2>1, <2>2 DEF Regular
<1>5. Balanced <=> Even(file)
  <2>1. \A n \in 1 .. Len(file) : n \in Nat
    BY <1>1
  <2>2. /\ Nesting(Len(file)) = Nest(file, Len(file))
        /\ \A n \in 1 .. Len(file) : Nesting(n) = Nest(file, n)
    BY <1>1, <1>2, <2>1
  <2> QED BY <1>1, <2>2, Zenon DEF Balanced, Even
<1>6. OddComment <=> Odd(file)
  BY <1>1, Zenon DEF OddComment, Odd, Closing
<1> QED BY <1>1, <1>2, <1>3, <1>4, <1>5, <1>6, Zenon

(* Nothing is behind the braces of a file that start accepts, and none is  *)
(* missing.                                                                *)
THEOREM AcceptedBalances == Spec => []AcceptedIsBalanced
<1>1. IInv /\ BInv => AcceptedIsBalanced
  BY BraceNames DEF AcceptedIsBalanced, BInv, Results
<1> QED BY <1>1, Invariant, ParserWalks, PTL

(* The guard of a class, a record or the block of a message is left at the *)
(* brace that closes the first one behind where the function began.        *)
THEOREM BlocksEnd == Spec => []BlocksEndAtTheirBrace
<1>1. ASSUME IInv, BInv, Pending("leave"), Head(todo).state \in BlockStates, Plain
      PROVE  \E p \in Head(todo).from .. cur :
               /\ Closes(p, cur)
               /\ \A i \in Head(todo).from .. p - 1 : file[i] # "{"
  <2>1. /\ todo \in Seq(Entries) /\ todo # <<>> /\ Head(todo).do = "leave"
        /\ file \in Seq(Kinds) /\ phase = "parsing" /\ Regular(file)
        /\ State[1] = cur
    BY <1>1, BraceNames DEF Pending, IInv, Typed, State
  <2>2. PICK z : Run(file, todo, {State}, z)
    BY <1>1, <2>1 DEF BInv, Results, Walks
  <2>3. PICK m : Fits(file, Head(todo), {State}, m)
    BY <2>1, <2>2, RunFirst
  <2>4. EndsBlock(file, Head(todo).from, cur)
    BY <1>1, <2>1, <2>3, PlainFits
  <2>5. PICK p \in Head(todo).from .. cur :
          Matched(file, p, cur) /\ \A i \in Head(todo).from .. p - 1 : ~Opening(file, i)
    BY <2>4 DEF EndsBlock
  <2>6. Head(todo) \in Guards
    BY <2>1, HeadTailProperties, EntryKinds DEF Entries
  <2>7. Head(todo).from \in Nat /\ cur \in Nat /\ p \in Nat
    BY <1>1, <2>6, LenProperties DEF Guards, IInv, Typed
  <2>8. Closes(p, cur)
    BY <1>1, <2>5, <2>7, BraceNames
  <2>9. \A i \in Head(todo).from .. p - 1 : file[i] # "{"
    BY <2>5, Zenon DEF Opening
  <2> QED BY <2>5, <2>8, <2>9, Zenon
<1>2. IInv /\ BInv => BlocksEndAtTheirBrace
  BY <1>1, Zenon DEF BlocksEndAtTheirBrace, BlockStates
<1> QED BY <1>2, Invariant, ParserWalks, PTL

(* A parser that has read the token behind the last, or popped a stack     *)
(* that was empty, was given a file whose braces do not balance, that has  *)
(* something behind the last, or a comment or flags before one.            *)
THEOREM UndefinedIsUnbalanced == Spec => []UndefinedMeansUnbalanced
<1>1. ASSUME IInv, BInv, phase \in {"fault", "crashed"}, Plain, Balanced, LastToken(file) = "}"
      PROVE  OddComment
  <2>1. Regular(file) /\ Even(file) /\ Closing(file, Len(file))
    BY <1>1, BraceNames, Zenon DEF LastToken, Closing
  <2>2. Odd(file)
    BY <1>1, <2>1 DEF BInv, Results, Broken, Even
  <2> QED BY <1>1, <2>2, BraceNames
<1>2. IInv /\ BInv => UndefinedMeansUnbalanced
  BY <1>1, Zenon DEF UndefinedMeansUnbalanced
<1> QED BY <1>2, Invariant, ParserWalks, PTL
=============================================================================
