------------------------ MODULE CompilerScopesProofs ------------------------
(***************************************************************************)
(* Proofs about module CompilerScopes, for builds of any number of files   *)
(* with scopes nested at will: what is looked up along the chain of scopes *)
(* is still there, and means the same, when the build is over.             *)
(*                                                                         *)
(* The scopes only grow (Extends) and stay well-formed: the chain of a     *)
(* scope on a chain is part of that chain, and a type is in sight of the   *)
(* variables it was given to.  One lemma for each way scopes change says   *)
(* so, one for each handler which way is its.                              *)
(***************************************************************************)
EXTENDS CompilerScopes, WellFoundedInduction, TLAPS

(* A record with the fields of a scope. *)
IsScope(r) ==
  r \in [path : Seq(Nat), module : {r.module}, of : {r.of}, types : {r.types},
         vars : {r.vars}, insts : {r.insts}, sends : {r.sends}]

Chain(sc, s) == ToSet(sc[s].path)

(* A type that was found stands in a scope of the chain. *)
InSight(sc, s, type) ==
  type.in # 0 => type.in \in Chain(sc, s) /\ type.name \in sc[type.in].types

Chained(sc) ==
  \A s \in DOMAIN sc :
    /\ IsScope(sc[s])
    /\ Chain(sc, s) \subseteq 1 .. s /\ s \in Chain(sc, s)
    /\ \A i \in Chain(sc, s) : Chain(sc, i) \subseteq Chain(sc, s)

Typed(sc) ==
  \A s \in DOMAIN sc : \A v \in DOMAIN sc[s].vars : InSight(sc, s, sc[s].vars[v])

WellFormed(sc) ==
  /\ Len(sc) \in Nat /\ sc \in Seq(ToSet(sc))
  /\ Root \in DOMAIN sc /\ sc[Root].path = <<Root>>
  /\ Chained(sc) /\ Typed(sc)

(* Scopes are added to, and what is found stays. *)
Extends(sc, sd) ==
  /\ DOMAIN sc \subseteq DOMAIN sd
  /\ \A s \in DOMAIN sc :
       /\ sd[s].path = sc[s].path
       /\ sc[s].types \subseteq sd[s].types
       /\ \A v \in DOMAIN sc[s].vars :
            /\ v \in DOMAIN sd[s].vars
            /\ sc[s].vars[v].in # 0 => sd[s].vars[v] = sc[s].vars[v]
-----------------------------------------------------------------------------
(* Every non-empty set of numbers has a least element. *)
LEMMA Least ==
  ASSUME NEW T, T \subseteq Nat, T # {}
  PROVE  \E n \in T : \A k \in T : n <= k
<1> DEFINE R == {ss \in Nat \X Nat : ss[1] < ss[2]}
<1>1. R = OpToRel(<, Nat)
  BY DEF OpToRel
<1>2. IsWellFoundedOn(R, Nat)
  BY <1>1, NatLessThanWellFounded
<1>3. \E x \in T : \A y \in T : ~ (<<y, x>> \in R)
  <2> HIDE DEF R
  <2> QED BY <1>2, WFMin
<1>4. PICK x \in T : \A y \in T : ~ (<<y, x>> \in R)
  BY <1>3
<1>5. ASSUME NEW y \in T PROVE x <= y
  <2>1. x \in Nat /\ y \in Nat
    OBVIOUS
  <2>2. y < x => <<y, x>> \in R
    BY <2>1
  <2> QED BY <1>4, <2>1, <2>2
<1> QED BY <1>5

(* Every bounded one has a greatest. *)
LEMMA Greatest ==
  ASSUME NEW n \in Nat, NEW T, T \subseteq 1 .. n, T # {}
  PROVE  \E m \in T : \A k \in T : k <= m
<1> DEFINE U == {n - k : k \in T}
<1>1. U # {} /\ \A u \in U : u \in Nat
  <2>1. \A k \in T : n - k \in Nat
    OBVIOUS
  <2> QED BY <2>1
<1>2. PICK u \in U : \A k \in U : u <= k
  <2> HIDE DEF U
  <2>1. U \subseteq Nat
    BY <1>1
  <2> QED BY <1>1, <2>1, Least
<1>3. PICK m \in T : u = n - m
  BY <1>2
<1>4. \A k \in T : n - k \in U
  OBVIOUS
<1>5. ASSUME NEW k \in T PROVE k <= m
  <2>1. n - m <= n - k
    BY <1>2, <1>3, <1>4
  <2>2. k \in 1 .. n /\ m \in 1 .. n
    OBVIOUS
  <2> QED BY <2>1, <2>2
<1> QED BY <1>5

(* A sequence is one of its own elements. *)
LEMMA OwnElements ==
  ASSUME NEW S, NEW q \in Seq(S)
  PROVE  Len(q) \in Nat /\ q \in Seq(ToSet(q))
<1> DEFINE T == {q[i] : i \in DOMAIN q}
<1>1. Len(q) \in Nat /\ DOMAIN q = 1 .. Len(q) /\ q = [i \in 1 .. Len(q) |-> q[i]]
  OBVIOUS
<1>2. \A i \in 1 .. Len(q) : q[i] \in T
  BY <1>1
<1> HIDE DEF T
<1>3. q \in [1 .. Len(q) -> T]
  BY <1>1, <1>2
<1>4. q \in Seq(T)
  BY <1>1, <1>3
<1> QED BY <1>1, <1>4 DEF T, ToSet

(* The elements of a sequence with one appended. *)
LEMMA AppendedElements ==
  ASSUME NEW S, NEW q \in Seq(S), NEW x
  PROVE  ToSet(Append(q, x)) = ToSet(q) \cup {x}
<1> DEFINE p == Append(q, x)
<1>1. /\ DOMAIN p = 1 .. (Len(q) + 1) /\ DOMAIN q = 1 .. Len(q) /\ Len(q) \in Nat
      /\ p[Len(q) + 1] = x /\ \A i \in 1 .. Len(q) : p[i] = q[i]
  OBVIOUS
<1> HIDE DEF p
<1>2. \A i \in 1 .. (Len(q) + 1) : i \in 1 .. Len(q) \/ i = Len(q) + 1
  BY <1>1
<1>3. /\ \A i \in 1 .. Len(q) : i \in 1 .. (Len(q) + 1)
      /\ Len(q) + 1 \in 1 .. (Len(q) + 1)
  BY <1>1
<1>4. ToSet(p) = ToSet(q) \cup {x}
  BY <1>1, <1>2, <1>3 DEF ToSet
<1> QED BY <1>4 DEF p
-----------------------------------------------------------------------------
(* Records: what the changes of a scope leave alone.  A variable more. *)
LEMMA WithVarFields ==
  ASSUME NEW r, IsScope(r), NEW v, NEW type
  PROVE  /\ IsScope(WithVar(r, v, type)) /\ WithVar(r, v, type).path = r.path
         /\ WithVar(r, v, type).types = r.types
         /\ WithVar(r, v, type).vars = Put(r.vars, v, type)
         /\ WithVar(r, v, type).of = r.of /\ WithVar(r, v, type).module = r.module
         /\ WithVar(r, v, type).insts = r.insts /\ WithVar(r, v, type).sends = r.sends
BY DEF WithVar, IsScope

(* An instance more. *)
LEMMA WithInstFields ==
  ASSUME NEW r, IsScope(r), NEW i, NEW type
  PROVE  /\ IsScope(WithInst(r, i, type)) /\ WithInst(r, i, type).path = r.path
         /\ WithInst(r, i, type).types = r.types
         /\ WithInst(r, i, type).vars = r.vars
         /\ WithInst(r, i, type).of = r.of /\ WithInst(r, i, type).module = r.module
         /\ WithInst(r, i, type).insts = PutNew(r.insts, i, type)
         /\ WithInst(r, i, type).sends = r.sends
BY DEF WithInst, IsScope

(* Other sends. *)
LEMMA SendsFields ==
  ASSUME NEW r, IsScope(r), NEW x
  PROVE  /\ IsScope([r EXCEPT !.sends = x]) /\ [r EXCEPT !.sends = x].path = r.path
         /\ [r EXCEPT !.sends = x].types = r.types
         /\ [r EXCEPT !.sends = x].vars = r.vars
         /\ [r EXCEPT !.sends = x].of = r.of /\ [r EXCEPT !.sends = x].module = r.module
         /\ [r EXCEPT !.sends = x].insts = r.insts /\ [r EXCEPT !.sends = x].sends = x
BY DEF IsScope

(* Other types. *)
LEMMA TypesFields ==
  ASSUME NEW r, IsScope(r), NEW x
  PROVE  /\ IsScope([r EXCEPT !.types = x]) /\ [r EXCEPT !.types = x].path = r.path
         /\ [r EXCEPT !.types = x].types = x
         /\ [r EXCEPT !.types = x].vars = r.vars
         /\ [r EXCEPT !.types = x].of = r.of /\ [r EXCEPT !.types = x].module = r.module
         /\ [r EXCEPT !.types = x].insts = r.insts /\ [r EXCEPT !.types = x].sends = r.sends
BY DEF IsScope

(* Other variables. *)
LEMMA VarsFields ==
  ASSUME NEW r, IsScope(r), NEW x
  PROVE  /\ IsScope([r EXCEPT !.vars = x]) /\ [r EXCEPT !.vars = x].path = r.path
         /\ [r EXCEPT !.vars = x].types = r.types
         /\ [r EXCEPT !.vars = x].vars = x
         /\ [r EXCEPT !.vars = x].of = r.of /\ [r EXCEPT !.vars = x].module = r.module
         /\ [r EXCEPT !.vars = x].insts = r.insts /\ [r EXCEPT !.vars = x].sends = r.sends
BY DEF IsScope
-----------------------------------------------------------------------------
(* What the chain of a scope holds are scopes. *)
LEMMA ChainsHoldScopes ==
  ASSUME NEW sc, WellFormed(sc), NEW s \in DOMAIN sc, NEW i \in Chain(sc, s)
  PROVE  i \in DOMAIN sc /\ s \in Nat
<1>1. DOMAIN sc = 1 .. Len(sc) /\ Len(sc) \in Nat
  BY DEF WellFormed
<1>2. i \in 1 .. s
  BY DEF WellFormed, Chained
<1> QED BY <1>1, <1>2

(* What is in sight stays in sight. *)
LEMMA SightKept ==
  ASSUME NEW sc, WellFormed(sc), NEW sd, Extends(sc, sd),
         NEW s \in DOMAIN sc, NEW type, InSight(sc, s, type)
  PROVE  InSight(sd, s, type)
<1> SUFFICES ASSUME type.in # 0
             PROVE  type.in \in Chain(sd, s) /\ type.name \in sd[type.in].types
  BY DEF InSight
<1>1. type.in \in Chain(sc, s) /\ type.name \in sc[type.in].types
  BY DEF InSight
<1>2. type.in \in DOMAIN sc
  BY <1>1, ChainsHoldScopes
<1>3. Chain(sd, s) = Chain(sc, s)
  BY DEF Extends, Chain
<1> QED BY <1>1, <1>2, <1>3 DEF Extends

(* A scope may be replaced by one with more in it. *)
LEMMA Replace ==
  ASSUME NEW sc, WellFormed(sc), NEW s \in DOMAIN sc,
         NEW r, IsScope(r), r.path = sc[s].path, sc[s].types \subseteq r.types,
         \A v \in DOMAIN sc[s].vars : v \in DOMAIN r.vars /\ r.vars[v] = sc[s].vars[v],
         \A v \in DOMAIN r.vars : v \in DOMAIN sc[s].vars \/ InSight(sc, s, r.vars[v])
  PROVE  WellFormed([sc EXCEPT ![s] = r]) /\ Extends(sc, [sc EXCEPT ![s] = r])
<1> DEFINE sd == [sc EXCEPT ![s] = r]
<1>1. /\ Len(sc) \in Nat /\ DOMAIN sc = 1 .. Len(sc)
      /\ sc \in Seq(ToSet(sc))
  BY DEF WellFormed
<1>2. /\ DOMAIN sd = DOMAIN sc /\ sd[s] = r
      /\ \A i \in DOMAIN sc : i # s => sd[i] = sc[i]
  BY <1>1
<1>3. Len(sd) \in Nat /\ sd \in Seq(ToSet(sd))
  <2>1. sd \in Seq(ToSet(sc) \cup {r})
    BY <1>1
  <2> HIDE DEF sd
  <2> QED BY <2>1, OwnElements
<1> HIDE DEF sd
<1>4. Extends(sc, sd)
  BY <1>2 DEF Extends
<1>5. \A i \in DOMAIN sc : Chain(sd, i) = Chain(sc, i) /\ IsScope(sd[i])
  <2>1. \A i \in DOMAIN sc : IsScope(sc[i])
    BY DEF WellFormed, Chained
  <2>2. \A i \in DOMAIN sc : sd[i].path = sc[i].path
    BY <1>2
  <2> QED BY <1>2, <2>1, <2>2 DEF Chain
<1>6. Chained(sd)
  <2> SUFFICES ASSUME NEW i \in DOMAIN sd
               PROVE  /\ IsScope(sd[i])
                      /\ Chain(sd, i) \subseteq 1 .. i /\ i \in Chain(sd, i)
                      /\ \A j \in Chain(sd, i) : Chain(sd, j) \subseteq Chain(sd, i)
    BY DEF Chained
  <2>1. /\ Chain(sc, i) \subseteq 1 .. i /\ i \in Chain(sc, i)
        /\ \A j \in Chain(sc, i) : Chain(sc, j) \subseteq Chain(sc, i)
    BY <1>2 DEF WellFormed, Chained
  <2>2. \A j \in Chain(sc, i) : j \in DOMAIN sc
    BY <1>2, ChainsHoldScopes
  <2> QED BY <1>2, <1>5, <2>1, <2>2
<1>7. Typed(sd)
  <2> SUFFICES ASSUME NEW i \in DOMAIN sc, NEW v \in DOMAIN sd[i].vars
               PROVE  InSight(sd, i, sd[i].vars[v])
    BY <1>2 DEF Typed
  <2>1. CASE v \in DOMAIN sc[i].vars
    <3>1. sd[i].vars[v] = sc[i].vars[v]
      BY <1>2, <2>1
    <3>2. InSight(sc, i, sc[i].vars[v])
      BY <2>1 DEF WellFormed, Typed
    <3> QED BY <1>4, <3>1, <3>2, SightKept
  <2>2. CASE v \notin DOMAIN sc[i].vars
    <3>1. i = s /\ InSight(sc, s, sd[i].vars[v])
      BY <1>2, <2>2
    <3> QED BY <1>4, <3>1, SightKept
  <2> QED BY <2>1, <2>2
<1>8. Root \in DOMAIN sd /\ sd[Root].path = <<Root>>
  BY <1>2 DEF WellFormed
<1> QED BY <1>3, <1>4, <1>6, <1>7, <1>8 DEF WellFormed, sd

(* A scope may be added below another one. *)
LEMMA Add ==
  ASSUME NEW sc, WellFormed(sc), NEW s \in DOMAIN sc,
         NEW r, IsScope(r), r.path = Append(sc[s].path, Len(sc) + 1),
         \A v \in DOMAIN r.vars : InSight(sc, s, r.vars[v])
  PROVE  WellFormed(Append(sc, r)) /\ Extends(sc, Append(sc, r))
<1> DEFINE sd == Append(sc, r)
<1> DEFINE new == Len(sc) + 1
<1>1. /\ Len(sc) \in Nat /\ DOMAIN sc = 1 .. Len(sc)
      /\ sc \in Seq(ToSet(sc))
  BY DEF WellFormed
<1>2. /\ DOMAIN sd = 1 .. new /\ sd[new] = r /\ Len(sd) = new /\ new \in Nat
      /\ \A i \in DOMAIN sc : i \in DOMAIN sd /\ i # new /\ sd[i] = sc[i]
  BY <1>1
<1>3. Len(sd) \in Nat /\ sd \in Seq(ToSet(sd))
  <2>1. sd \in Seq(ToSet(sc) \cup {r})
    BY <1>1
  <2> HIDE DEF sd
  <2> QED BY <2>1, OwnElements
<1>4. \A i \in DOMAIN sd : i = new \/ i \in DOMAIN sc
  BY <1>1, <1>2
<1> HIDE DEF sd, new
<1>5. Extends(sc, sd)
  BY <1>2 DEF Extends
<1>6. \A i \in DOMAIN sc : Chain(sd, i) = Chain(sc, i)
  BY <1>2 DEF Chain
<1>7. Chain(sd, new) = Chain(sc, s) \cup {new}
  <2>1. sc[s].path \in Seq(Nat)
    BY DEF WellFormed, Chained, IsScope
  <2>2. sd[new].path = Append(sc[s].path, new)
    BY <1>2 DEF new
  <2> QED BY <2>1, <2>2, AppendedElements DEF Chain
<1>8. Chained(sd)
  <2> SUFFICES ASSUME NEW i \in DOMAIN sd
               PROVE  /\ IsScope(sd[i])
                      /\ Chain(sd, i) \subseteq 1 .. i /\ i \in Chain(sd, i)
                      /\ \A j \in Chain(sd, i) : Chain(sd, j) \subseteq Chain(sd, i)
    BY DEF Chained
  <2>1. ASSUME NEW j \in DOMAIN sc
        PROVE  /\ IsScope(sc[j])
               /\ Chain(sc, j) \subseteq 1 .. j /\ j \in Chain(sc, j)
               /\ \A k \in Chain(sc, j) :
                    k \in DOMAIN sc /\ Chain(sc, k) \subseteq Chain(sc, j)
    BY ChainsHoldScopes DEF WellFormed, Chained
  <2>2. CASE i \in DOMAIN sc
    BY <1>2, <1>6, <2>1, <2>2
  <2>3. CASE i = new
    <3>1. IsScope(sd[i])
      BY <1>2, <2>3
    <3>2. Chain(sd, i) \subseteq 1 .. i /\ i \in Chain(sd, i)
      BY <1>1, <1>2, <1>7, <2>1, <2>3 DEF new
    <3>3. ASSUME NEW j \in Chain(sd, i)
          PROVE  Chain(sd, j) \subseteq Chain(sd, i)
      BY <1>6, <1>7, <2>1, <2>3, <3>3
    <3> QED BY <3>1, <3>2, <3>3
  <2> QED BY <1>4, <2>2, <2>3
<1>9. Typed(sd)
  <2> SUFFICES ASSUME NEW i \in DOMAIN sd, NEW v \in DOMAIN sd[i].vars
               PROVE  InSight(sd, i, sd[i].vars[v])
    BY DEF Typed
  <2>1. CASE i \in DOMAIN sc
    <3>1. sd[i] = sc[i] /\ InSight(sc, i, sc[i].vars[v])
      BY <1>2, <2>1 DEF WellFormed, Typed
    <3> QED BY <1>5, <2>1, <3>1, SightKept
  <2>2. CASE i = new
    <3>1. InSight(sd, s, sd[i].vars[v])
      BY <1>2, <1>5, <2>2, SightKept
    <3>2. Chain(sd, s) \subseteq Chain(sd, i)
      BY <1>6, <1>7, <2>2
    <3> QED BY <3>1, <3>2 DEF InSight
  <2> QED BY <1>4, <2>1, <2>2
<1>10. Root \in DOMAIN sd /\ sd[Root].path = <<Root>>
  BY <1>2 DEF WellFormed
<1> QED BY <1>3, <1>5, <1>8, <1>9, <1>10 DEF WellFormed, sd
-----------------------------------------------------------------------------
(***************************************************************************)
(* The state.                                                              *)
(***************************************************************************)

(* Every module is in a scope, and a file in a module. *)
ModulesFine ==
  /\ \A m \in DOMAIN modules : modules[m] \in
       [global : DOMAIN scopes, scope : DOMAIN scopes, namespace : {modules[m].namespace}]
  /\ DOMAIN modules # {} => "a" \in DOMAIN modules
  /\ current \in DOMAIN modules \cup {NoName}
  /\ Walking => current \in DOMAIN modules

Building == phase \in {"ready", "walking"}

(* Only the end of stage 2 reports errors. *)
StagesFine ==
  /\ errors # {} => phase = "failed"
  /\ SuccessMeansTyped /\ ErrorsAreReal

(* The inductive invariant. *)
Inv == WellFormed(scopes) /\ ModulesFine /\ StagesFine

(* A step of stage 1. *)
Builds ==
  /\ Building /\ phase' \in {"ready", "walking", "failed", "crashed"}
  /\ errors' = errors
  /\ WellFormed(scopes') /\ Extends(scopes, scopes') /\ ModulesFine'

(* Whatever stage 1 does, the invariant survives. *)
LEMMA BuildsKeeps ==
  ASSUME Inv, Builds
  PROVE  Inv' /\ Extends(scopes, scopes')
<1>1. errors = {} /\ errors' = {}
  BY DEF Inv, StagesFine, Builds, Building
<1>2. phase' \notin {"done", "built"}
  BY DEF Builds
<1>3. SuccessMeansTyped'
  BY <1>2 DEF SuccessMeansTyped
<1>4. ErrorsAreReal'
  BY <1>1 DEF ErrorsAreReal
<1> QED BY <1>1, <1>3, <1>4 DEF Inv, StagesFine, Builds

(* Nothing happened. *)
LEMMA ExtendsSame == ASSUME NEW sc PROVE Extends(sc, sc)
BY DEF Extends

(* One extension after the other. *)
LEMMA ExtendsTwice ==
  ASSUME NEW sc, NEW sd, NEW se, Extends(sc, sd), Extends(sd, se)
  PROVE  Extends(sc, se)
BY DEF Extends

(* The build stops here. *)
LEMMA StopStep ==
  ASSUME Inv, Building, Throw \/ Crash
  PROVE  Builds
<1>1. /\ scopes' = scopes /\ modules' = modules /\ current' = current
      /\ errors' = errors /\ phase' \in {"failed", "crashed"}
  BY DEF Throw, Crash
<1>2. ModulesFine'
  BY <1>1 DEF Inv, ModulesFine, Walking
<1> QED BY <1>1, <1>2, ExtendsSame DEF Builds, Inv

(* The current scope of a file that is walked. *)
LEMMA CurrentScope ==
  ASSUME Inv, Walking
  PROVE  /\ Building /\ current \in DOMAIN modules
         /\ Scope \in DOMAIN scopes /\ IsScope(scopes[Scope])
         /\ modules[current] \in
              [global : DOMAIN scopes, scope : DOMAIN scopes,
               namespace : {modules[current].namespace}]
<1>1. /\ current \in DOMAIN modules
      /\ modules[current] \in
              [global : DOMAIN scopes, scope : DOMAIN scopes,
               namespace : {modules[current].namespace}]
  BY DEF Inv, ModulesFine
<1>2. Scope \in DOMAIN scopes
  BY <1>1 DEF Scope
<1>3. IsScope(scopes[Scope])
  BY <1>2 DEF Inv, WellFormed, Chained
<1> QED BY <1>1, <1>2, <1>3 DEF Building, Walking

(* Modules that stay where they are. *)
LEMMA ModulesStay ==
  ASSUME Inv, Walking, Extends(scopes, scopes'), UNCHANGED <<modules, current>>
  PROVE  ModulesFine'
BY CurrentScope DEF Inv, ModulesFine, Extends, Walking

(* A module that moves to a scope. *)
LEMMA ModuleMoves ==
  ASSUME Inv, Walking, Extends(scopes, scopes'), current' = current,
         NEW s \in DOMAIN scopes', NEW n, MoveTo(s, n)
  PROVE  ModulesFine'
<1>1. /\ current \in DOMAIN modules
      /\ \A m \in DOMAIN modules : modules[m] \in
           [global : DOMAIN scopes, scope : DOMAIN scopes,
            namespace : {modules[m].namespace}]
  BY CurrentScope DEF Inv, ModulesFine
<1>2. DOMAIN modules' = DOMAIN modules
  BY DEF MoveTo
<1>3. \A m \in DOMAIN modules : m # current => modules'[m] = modules[m]
  BY DEF MoveTo
<1>4. modules'[current] = [[modules[current] EXCEPT !.scope = s] EXCEPT !.namespace = n]
  BY <1>1 DEF MoveTo
<1>5. ASSUME NEW r \in [global : DOMAIN scopes, scope : DOMAIN scopes,
                        namespace : {modules[current].namespace}]
      PROVE  [[r EXCEPT !.scope = s] EXCEPT !.namespace = n] \in
               [global : DOMAIN scopes', scope : DOMAIN scopes',
                namespace : {[[r EXCEPT !.scope = s] EXCEPT !.namespace = n].namespace}]
  <2>1. DOMAIN scopes \subseteq DOMAIN scopes'
    BY DEF Extends
  <2> QED BY <2>1, Zenon
<1>6. \A m \in DOMAIN modules : modules'[m] \in
           [global : DOMAIN scopes', scope : DOMAIN scopes',
            namespace : {modules'[m].namespace}]
  <2>1. DOMAIN scopes \subseteq DOMAIN scopes'
    BY DEF Extends
  <2>2. ASSUME NEW m \in DOMAIN modules, m # current
        PROVE  modules'[m] \in
                 [global : DOMAIN scopes', scope : DOMAIN scopes',
                  namespace : {modules'[m].namespace}]
    BY <1>1, <1>3, <2>1, <2>2
  <2>3. modules'[current] \in
          [global : DOMAIN scopes', scope : DOMAIN scopes',
           namespace : {modules'[current].namespace}]
    BY <1>1, <1>4, <1>5
  <2> QED BY <2>2, <2>3
<1> QED BY <1>1, <1>2, <1>6 DEF Inv, ModulesFine
-----------------------------------------------------------------------------
(* getType finds a type in sight, if there is one. *)
LEMMA TypeOfInSight ==
  ASSUME WellFormed(scopes), NEW s \in DOMAIN scopes, NEW t
  PROVE  /\ InSight(scopes, s, TypeOf(s, t)) /\ TypeOf(s, t).name = t
         /\ TypeOf(s, t).in = 0 <=> Visible(s, t) = {}
<1>1. CASE Visible(s, t) = {}
  <2>1. TypeOf(s, t) = [name |-> t, in |-> 0]
    BY <1>1 DEF TypeOf, Unknown
  <2> QED BY <1>1, <2>1 DEF InSight
<1>2. CASE Visible(s, t) # {}
  <2> DEFINE near == CHOOSE i \in Visible(s, t) : \A j \in Visible(s, t) : j <= i
  <2>1. Visible(s, t) \subseteq Chain(scopes, s) /\ Chain(scopes, s) \subseteq 1 .. s
    BY DEF Visible, Chain, WellFormed, Chained
  <2>2. s \in Nat
    BY DEF WellFormed
  <2>3. \E i \in Visible(s, t) : \A j \in Visible(s, t) : j <= i
    <3>1. Visible(s, t) \subseteq 1 .. s
      BY <2>1
    <3> QED BY <1>2, <2>2, <3>1, Greatest
  <2>4. near \in Visible(s, t)
    BY <2>3
  <2>5. TypeOf(s, t) = [name |-> t, in |-> near]
    BY <1>2 DEF TypeOf
  <2> HIDE DEF near
  <2>6. near \in Chain(scopes, s) /\ t \in scopes[near].types /\ near # 0
    BY <2>1, <2>2, <2>4 DEF Visible
  <2> QED BY <1>2, <2>5, <2>6 DEF InSight
<1> QED BY <1>1, <1>2

(* A handler that adds to the current scope. *)
LEMMA ReplaceStep ==
  ASSUME Inv, Walking, NEW r, IsScope(r), r.path = scopes[Scope].path,
         scopes[Scope].types \subseteq r.types,
         \A v \in DOMAIN scopes[Scope].vars :
           v \in DOMAIN r.vars /\ r.vars[v] = scopes[Scope].vars[v],
         \A v \in DOMAIN r.vars :
           v \in DOMAIN scopes[Scope].vars \/ InSight(scopes, Scope, r.vars[v]),
         scopes' = [scopes EXCEPT ![Scope] = r],
         UNCHANGED <<modules, current, errors, phase>>
  PROVE  Builds
<1>1. WellFormed(scopes) /\ Scope \in DOMAIN scopes
  BY CurrentScope DEF Inv
<1>2. WellFormed(scopes') /\ Extends(scopes, scopes')
  BY <1>1, Replace
<1>3. ModulesFine'
  BY <1>2, ModulesStay
<1> QED BY <1>2, <1>3 DEF Builds, Building, Walking

(* A handler that adds a scope below the current one and enters it. *)
LEMMA AddStep ==
  ASSUME Inv, Walking, NEW sc, WellFormed(sc), Extends(scopes, sc),
         Len(sc) = Len(scopes), NEW r, IsScope(r),
         r.path = Append(scopes[Scope].path, NextId),
         \A v \in DOMAIN r.vars : InSight(scopes, Scope, r.vars[v]),
         scopes' = Append(sc, r), NEW n, MoveTo(NextId, n),
         UNCHANGED <<current, errors, phase>>
  PROVE  Builds
<1>1. /\ Scope \in DOMAIN scopes /\ Scope \in DOMAIN sc
      /\ sc[Scope].path = scopes[Scope].path
  BY CurrentScope DEF Extends
<1>2. \A v \in DOMAIN r.vars : InSight(sc, Scope, r.vars[v])
  BY <1>1, SightKept DEF Inv
<1>3. WellFormed(scopes') /\ Extends(sc, scopes')
  BY <1>1, <1>2, Add DEF NextId
<1>4. Extends(scopes, scopes')
  BY <1>3, ExtendsTwice
<1>5. NextId \in DOMAIN scopes'
  BY DEF NextId, WellFormed
<1>6. ModulesFine'
  BY <1>4, <1>5, ModuleMoves
<1> QED BY <1>3, <1>4, <1>6 DEF Builds, Building, Walking

(* A new scope is empty. *)
LEMMA NewScopeFields ==
  ASSUME NEW path \in Seq(Nat), NEW id \in Nat, NEW m, NEW of
  PROVE  LET r == NewScope(path, id, m, of)
         IN /\ IsScope(r) /\ r.path = Append(path, id)
            /\ r.types = {} /\ DOMAIN r.vars = {}
<1>1. Append(path, id) \in Seq(Nat)
  OBVIOUS
<1> QED BY <1>1 DEF NewScope, IsScope, Nothing

(* It has a name and a module, no instances and no sends. *)
LEMMA NewScopeNames ==
  ASSUME NEW path, NEW id, NEW m, NEW of
  PROVE  /\ NewScope(path, id, m, of).of = of /\ NewScope(path, id, m, of).module = m
         /\ DOMAIN NewScope(path, id, m, of).insts = {}
         /\ DOMAIN NewScope(path, id, m, of).sends = {}
BY DEF NewScope, Nothing
-----------------------------------------------------------------------------
(* The handlers of stage 1.                                                *)

(* A new variable gets the type getType finds. *)
LEMMA VariableStep ==
  ASSUME Inv, NEW v, NEW t, Variable(v, t)
  PROVE  Builds
<1> DEFINE r == WithVar(scopes[Scope], v, TypeOf(Scope, t))
<1>1. Walking
  BY DEF Variable, Between
<1>2. CASE Throw \/ Crash
  BY <1>1, <1>2, CurrentScope, StopStep
<1>3. CASE /\ v \notin DOMAIN scopes[Scope].vars
           /\ scopes' = [scopes EXCEPT ![Scope] = r]
           /\ UNCHANGED <<modules, current, errors, phase>>
  <2>1. /\ IsScope(r) /\ r.path = scopes[Scope].path /\ r.types = scopes[Scope].types
        /\ r.vars = Put(scopes[Scope].vars, v, TypeOf(Scope, t))
    BY <1>1, CurrentScope, WithVarFields
  <2>2. InSight(scopes, Scope, TypeOf(Scope, t))
    BY <1>1, CurrentScope, TypeOfInSight DEF Inv
  <2> HIDE DEF r
  <2>3. \A w \in DOMAIN scopes[Scope].vars :
           w \in DOMAIN r.vars /\ r.vars[w] = scopes[Scope].vars[w]
    BY <1>3, <2>1 DEF Put
  <2>4. \A w \in DOMAIN r.vars :
           w \in DOMAIN scopes[Scope].vars \/ InSight(scopes, Scope, r.vars[w])
    BY <2>1, <2>2 DEF Put
  <2> QED BY <1>1, <1>3, <2>1, <2>3, <2>4, ReplaceStep
<1> QED BY <1>2, <1>3 DEF Variable

(* Instances and sends are no matter of types. *)
LEMMA InstanceOnly ==
  ASSUME Inv, Walking, NEW r, IsScope(r), r.path = scopes[Scope].path,
         r.types = scopes[Scope].types, r.vars = scopes[Scope].vars,
         scopes' = [scopes EXCEPT ![Scope] = r],
         UNCHANGED <<modules, current, errors, phase>>
  PROVE  Builds
BY ReplaceStep

(* A send leaves an instance and itself. *)
LEMMA SendStep ==
  ASSUME Inv, Walking, NEW to, NEW msg, NEW args, Send(to, msg, args)
  PROVE  Builds
<1>1. PICK i, type, x :
        /\ scopes' = [scopes EXCEPT ![Scope] =
                        [WithInst(scopes[Scope], i, type) EXCEPT !.sends = x]]
        /\ UNCHANGED <<modules, current, errors, phase>>
  BY DEF Send, WithSend
<1> DEFINE r == [WithInst(scopes[Scope], i, type) EXCEPT !.sends = x]
<1>2. /\ IsScope(r) /\ r.path = scopes[Scope].path
      /\ r.types = scopes[Scope].types /\ r.vars = scopes[Scope].vars
  BY CurrentScope, WithInstFields, SendsFields
<1> QED BY <1>1, <1>2, InstanceOnly

(* A literal leaves an instance, or ends the build. *)
LEMMA LiteralStep ==
  ASSUME Inv, Literal
  PROVE  Builds
<1>1. Walking
  BY DEF Literal, Visits
<1>2. CASE Throw
  BY <1>1, <1>2, CurrentScope, StopStep
<1>3. ASSUME NEW i, NEW type,
             scopes' = [scopes EXCEPT ![Scope] = WithInst(scopes[Scope], i, type)],
             UNCHANGED <<modules, current, errors, phase>>
      PROVE  Builds
  BY <1>1, <1>3, CurrentScope, WithInstFields, InstanceOnly
<1> QED BY <1>2, <1>3 DEF Literal

(* An instance that is not known is a new variable without a type. *)
LEMMA InstanceStep ==
  ASSUME Inv, Instance
  PROVE  Builds
<1>1. Walking
  BY DEF Instance, Visits
<1>2. CASE Crash
  BY <1>1, <1>2, CurrentScope, StopStep
<1>3. ASSUME NEW i, NEW type,
             scopes' = [scopes EXCEPT ![Scope] = WithInst(scopes[Scope], i, type)],
             UNCHANGED <<modules, current, errors, phase>>
      PROVE  Builds
  BY <1>1, <1>3, CurrentScope, WithInstFields, InstanceOnly
<1>4. ASSUME NEW v, Holders(Scope, v) = {},
             scopes' = [scopes EXCEPT ![Scope] =
                WithVar(WithInst(scopes[Scope], v, Unknown(NoName)), v, Unknown(NoName))],
             UNCHANGED <<modules, current, errors, phase>>
      PROVE  Builds
  <2> DEFINE new == WithInst(scopes[Scope], v, Unknown(NoName))
  <2> DEFINE r == WithVar(new, v, Unknown(NoName))
  <2>1. /\ IsScope(new) /\ new.path = scopes[Scope].path
        /\ new.types = scopes[Scope].types /\ new.vars = scopes[Scope].vars
    BY <1>1, CurrentScope, WithInstFields
  <2> HIDE DEF new
  <2>2. /\ IsScope(r) /\ r.path = scopes[Scope].path /\ r.types = scopes[Scope].types
        /\ r.vars = Put(scopes[Scope].vars, v, Unknown(NoName))
    BY <2>1, WithVarFields
  <2>3. v \notin DOMAIN scopes[Scope].vars
    BY <1>1, <1>4, CurrentScope DEF Holders, Inv, WellFormed, Chained, Chain
  <2>4. InSight(scopes, Scope, Unknown(NoName))
    BY DEF InSight, Unknown
  <2>5. scopes' = [scopes EXCEPT ![Scope] = r]
    BY <1>4 DEF new
  <2> HIDE DEF r
  <2>6. \A w \in DOMAIN scopes[Scope].vars :
           w \in DOMAIN r.vars /\ r.vars[w] = scopes[Scope].vars[w]
    BY <2>2, <2>3 DEF Put
  <2>7. \A w \in DOMAIN r.vars :
           w \in DOMAIN scopes[Scope].vars \/ InSight(scopes, Scope, r.vars[w])
    BY <2>2, <2>4 DEF Put
  <2> QED BY <1>1, <1>4, <2>2, <2>5, <2>6, <2>7, ReplaceStep
<1> QED BY <1>2, <1>3, <1>4, SMTT(40) DEF Instance

(* The scope a block brings. *)
LEMMA InnerFields ==
  ASSUME Inv, Walking, NEW of
  PROVE  /\ IsScope(Inner(of)) /\ Inner(of).path = Append(scopes[Scope].path, NextId)
         /\ Inner(of).types = {} /\ DOMAIN Inner(of).vars = {}
         /\ Inner(of).of = of /\ Inner(of).module = current
         /\ DOMAIN Inner(of).insts = {} /\ DOMAIN Inner(of).sends = {}
<1>1. scopes[Scope].path \in Seq(Nat)
  BY CurrentScope DEF IsScope
<1>2. NextId \in Nat
  BY DEF Inv, WellFormed, NextId
<1> QED BY <1>1, <1>2, NewScopeFields, NewScopeNames, SMTT(40) DEF Inner

(* A namespace is an empty scope below the current one. *)
LEMMA EnterNamespaceStep ==
  ASSUME Inv, NEW n, EnterNamespace(n)
  PROVE  Builds
<1>1. Walking
  BY DEF EnterNamespace, Between
<1>2. /\ scopes' = Append(scopes, Inner(n)) /\ UNCHANGED <<current, errors, phase>>
      /\ MoveTo(NextId, Append(Namespace, n))
  BY DEF EnterNamespace, Push
<1>3. WellFormed(scopes) /\ Extends(scopes, scopes)
  BY ExtendsSame DEF Inv
<1> QED BY <1>1, <1>2, <1>3, InnerFields, AddStep

(* Declaring a type in the current scope. *)
LEMMA WithTypeFine ==
  ASSUME Inv, Walking, NEW t
  PROVE  /\ WellFormed(WithType(t)) /\ Extends(scopes, WithType(t))
         /\ Len(WithType(t)) = Len(scopes)
<1> DEFINE r == [scopes[Scope] EXCEPT !.types = scopes[Scope].types \cup {t}]
<1>1. /\ IsScope(r) /\ r.path = scopes[Scope].path
      /\ scopes[Scope].types \subseteq r.types /\ r.vars = scopes[Scope].vars
  BY CurrentScope, TypesFields
<1>2. WithType(t) = [scopes EXCEPT ![Scope] = r]
  BY DEF WithType
<1> HIDE DEF r
<1>3. WellFormed(WithType(t)) /\ Extends(scopes, WithType(t))
  <2>1. /\ \A v \in DOMAIN scopes[Scope].vars :
              v \in DOMAIN r.vars /\ r.vars[v] = scopes[Scope].vars[v]
        /\ \A v \in DOMAIN r.vars : v \in DOMAIN scopes[Scope].vars
    BY <1>1
  <2>2. Scope \in DOMAIN scopes /\ WellFormed(scopes)
    BY CurrentScope DEF Inv
  <2>3. /\ WellFormed([scopes EXCEPT ![Scope] = r])
        /\ Extends(scopes, [scopes EXCEPT ![Scope] = r])
    BY <1>1, <2>1, <2>2, Replace
  <2> QED BY <1>2, <2>3
<1>4. Len(WithType(t)) = Len(scopes)
  BY <1>2 DEF Inv, WellFormed
<1> QED BY <1>3, <1>4

(* A class is a type and a scope. *)
LEMMA EnterClassStep ==
  ASSUME Inv, NEW t, EnterClass(t)
  PROVE  Builds
<1>1. Walking
  BY DEF EnterClass, Between
<1>2. CASE Throw
  BY <1>1, <1>2, CurrentScope, StopStep
<1>3. CASE /\ scopes' = Append(WithType(t), Inner(NoName))
           /\ MoveTo(NextId, Namespace) /\ UNCHANGED <<current, errors, phase>>
  BY <1>1, <1>3, InnerFields, WithTypeFine, AddStep
<1> QED BY <1>2, <1>3 DEF EnterClass, Push

(* A record is a type only. *)
LEMMA EnterRecordStep ==
  ASSUME Inv, NEW t, EnterRecord(t)
  PROVE  Builds
<1>1. Walking
  BY DEF EnterRecord, Between
<1>2. CASE Throw
  BY <1>1, <1>2, CurrentScope, StopStep
<1>3. CASE scopes' = WithType(t) /\ UNCHANGED <<modules, current, errors, phase>>
  <2>1. WellFormed(scopes') /\ Extends(scopes, scopes')
    BY <1>1, <1>3, WithTypeFine
  <2>2. ModulesFine'
    BY <1>1, <1>3, <2>1, ModulesStay
  <2> QED BY <1>1, <1>3, <2>1, <2>2 DEF Builds, Building, Walking
<1> QED BY <1>2, <1>3 DEF EnterRecord

(* The block of a message: its parameters get types that are in sight. *)
LEMMA EnterBlockStep ==
  ASSUME Inv, Walking, NEW sc, WellFormed(sc), Extends(scopes, sc),
         Len(sc) = Len(scopes), NEW params, EnterBlock(sc, params)
  PROVE  Builds
<1>1. CASE Throw
  BY <1>1, CurrentScope, StopStep
<1>2. CASE ~Throw
  <2> DEFINE chosen(v) == (CHOOSE p \in ToSet(params) : p.name = v).type
  <2> DEFINE held == [v \in {params[i].name : i \in DOMAIN params} |->
                       TypeOf(Scope, chosen(v))]
  <2> DEFINE r == [Inner(NoName) EXCEPT !.vars = held]
  <2>1. /\ scopes' = Append(sc, r) /\ UNCHANGED <<current, errors, phase>>
        /\ MoveTo(NextId, Namespace)
    BY <1>2 DEF EnterBlock, Push
  <2>2. \A v \in DOMAIN held : InSight(scopes, Scope, held[v])
    <3> HIDE DEF chosen
    <3> QED BY CurrentScope, TypeOfInSight DEF Inv
  <2> HIDE DEF held
  <2>3. /\ IsScope(r) /\ r.path = Append(scopes[Scope].path, NextId) /\ r.vars = held
    <3>1. /\ IsScope(Inner(NoName))
          /\ Inner(NoName).path = Append(scopes[Scope].path, NextId)
      BY InnerFields
    <3> QED BY <3>1, VarsFields, ZenonT(60)
  <2> HIDE DEF r
  <2> QED BY <2>1, <2>2, <2>3, AddStep
<1> QED BY <1>1, <1>2

(* A message of a class is a block. *)
LEMMA EnterMessageStep ==
  ASSUME Inv, NEW params, EnterMessage(params)
  PROVE  Builds
<1>1. Walking /\ EnterBlock(scopes, params)
  BY DEF EnterMessage, Between
<1>2. WellFormed(scopes) /\ Extends(scopes, scopes)
  BY ExtendsSame DEF Inv
<1> QED BY <1>1, <1>2, EnterBlockStep

(* A closure is an instance without a name, and a block. *)
LEMMA EnterClosureStep ==
  ASSUME Inv, NEW params, EnterClosure(params)
  PROVE  Builds
<1> DEFINE r == WithInst(scopes[Scope], NoName, Global("message"))
<1> DEFINE sc == [scopes EXCEPT ![Scope] = r]
<1>1. Walking /\ EnterBlock(sc, params)
  BY DEF EnterClosure, Visits
<1>2. /\ IsScope(r) /\ r.path = scopes[Scope].path
      /\ r.types = scopes[Scope].types /\ r.vars = scopes[Scope].vars
  BY <1>1, CurrentScope, WithInstFields
<1> HIDE DEF r
<1>3. WellFormed(sc) /\ Extends(scopes, sc)
  BY <1>1, <1>2, CurrentScope, Replace DEF Inv
<1>4. Len(sc) = Len(scopes)
  BY DEF Inv, WellFormed
<1> HIDE DEF sc
<1> QED BY <1>1, <1>3, <1>4, EnterBlockStep
-----------------------------------------------------------------------------
(* A pop ends at a scope. *)
LEMMA PoppedIsScope ==
  ASSUME Inv, Walking
  PROVE  Popped(current) \in DOMAIN scopes
<1> DEFINE path == scopes[Scope].path
<1>1. path \in Seq(Nat) /\ Chain(scopes, Scope) = ToSet(path)
  BY CurrentScope DEF IsScope, Chain
<1>2. CASE Len(path) = 1
  BY <1>2, CurrentScope DEF Popped, Scope
<1>3. CASE Len(path) # 1
  <2>1. Scope \in ToSet(path)
    BY <1>1, CurrentScope DEF Inv, WellFormed, Chained
  <2>2. Len(path) # 0
    BY <1>1, <2>1 DEF ToSet
  <2>3. Len(path) - 1 \in DOMAIN path
    <3>1. Len(path) \in Nat /\ DOMAIN path = 1 .. Len(path)
      BY <1>1
    <3> HIDE DEF path
    <3> QED BY <1>3, <2>2, <3>1
  <2>4. path[Len(path) - 1] \in Chain(scopes, Scope)
    BY <1>1, <2>3 DEF ToSet
  <2>5. path[Len(path) - 1] \in DOMAIN scopes
    BY <2>4, CurrentScope, ChainsHoldScopes DEF Inv
  <2>6. Popped(current) = path[Len(path) - 1]
    BY <1>3 DEF Popped, Scope
  <2> QED BY <2>5, <2>6
<1> QED BY <1>2, <1>3

(* Leaving a block, or a file. *)
LEMMA LeaveStep ==
  ASSUME Inv, Walking, NEW n, MoveTo(Popped(current), n),
         UNCHANGED <<scopes, current, errors>>, phase' \in {"walking", "ready"}
  PROVE  Builds
<1>1. WellFormed(scopes') /\ Extends(scopes, scopes')
  BY ExtendsSame DEF Inv
<1>2. Popped(current) \in DOMAIN scopes'
  BY PoppedIsScope
<1>3. ModulesFine'
  BY <1>1, <1>2, ModuleMoves
<1> QED BY <1>1, <1>3 DEF Builds, Building, Walking

(* The ends of blocks and files. *)
LEMMA LeaveSteps ==
  ASSUME Inv, LeaveNamespace \/ LeaveScope \/ LeaveRecord \/ EndFile
  PROVE  Builds
<1>1. CASE LeaveNamespace
  <2>1. Walking /\ phase' = "walking"
    BY <1>1 DEF LeaveNamespace, Between, Walking
  <2> QED BY <1>1, <2>1, LeaveStep DEF LeaveNamespace
<1>2. CASE LeaveScope
  <2>1. Walking /\ phase' = "walking"
    BY <1>2 DEF LeaveScope, Between, Walking
  <2> QED BY <1>2, <2>1, LeaveStep DEF LeaveScope
<1>3. CASE LeaveRecord
  <2>1. Walking /\ UNCHANGED <<scopes, modules, current, errors, phase>>
    BY <1>3 DEF LeaveRecord, Between
  <2>2. WellFormed(scopes') /\ Extends(scopes, scopes')
    BY <2>1, ExtendsSame DEF Inv
  <2>3. ModulesFine'
    BY <2>1, <2>2, ModulesStay
  <2> QED BY <2>1, <2>2, <2>3 DEF Builds, Building, Walking
<1>4. CASE EndFile
  <2>1. Walking
    BY <1>4 DEF EndFile, Between
  <2> QED BY <1>4, <2>1, LeaveStep DEF EndFile
<1> QED BY <1>1, <1>2, <1>3, <1>4
-----------------------------------------------------------------------------
(* Sequences of the same length with the same elements are the same. *)
LEMMA SameElements ==
  ASSUME NEW S, NEW p \in Seq(S), NEW q \in Seq(S), Len(p) = Len(q),
         \A i \in 1 .. Len(p) : p[i] = q[i]
  PROVE  p = q
<1>1. p = [i \in 1 .. Len(p) |-> p[i]] /\ q = [i \in 1 .. Len(q) |-> q[i]]
  OBVIOUS
<1> QED BY <1>1

(* One sequence after the other. *)
LEMMA Concatenated ==
  ASSUME NEW S, NEW p \in Seq(S), NEW q \in Seq(S)
  PROVE  /\ p \o q \in Seq(S) /\ Len(p \o q) = Len(p) + Len(q)
         /\ Len(p) \in Nat /\ Len(q) \in Nat
         /\ \A i \in 1 .. Len(p) : (p \o q)[i] = p[i]
         /\ \A i \in 1 .. Len(q) : (p \o q)[Len(p) + i] = q[i]
OBVIOUS

(* A sequence of at most two, appended one after the other. *)
LEMMA OneOrTwo ==
  ASSUME NEW S, NEW p \in Seq(S), NEW q \in Seq(S)
  PROVE  /\ Len(q) = 0 => p \o q = p
         /\ Len(q) = 1 => p \o q = Append(p, q[1])
         /\ Len(q) = 2 => p \o q = Append(Append(p, q[1]), q[2])
<1>1. /\ p \o q \in Seq(S) /\ Len(p \o q) = Len(p) + Len(q)
      /\ Len(p) \in Nat /\ Len(q) \in Nat
      /\ \A i \in 1 .. Len(p) : (p \o q)[i] = p[i]
      /\ \A i \in 1 .. Len(q) : (p \o q)[Len(p) + i] = q[i]
  BY Concatenated
<1>2. CASE Len(q) = 0
  BY <1>1, <1>2, SameElements
<1>3. ASSUME Len(q) \in {1, 2}
      PROVE  LET one == Append(p, q[1])
             IN /\ one \in Seq(S) /\ Len(one) = Len(p) + 1 /\ one[Len(p) + 1] = q[1]
                /\ \A i \in 1 .. Len(p) : one[i] = p[i]
  <2>1. q[1] \in S
    BY <1>3
  <2> QED BY <2>1
<1>4. CASE Len(q) = 1
  <2> DEFINE one == Append(p, q[1])
  <2> DEFINE all == p \o q
  <2>1. /\ one \in Seq(S) /\ Len(one) = Len(p) + 1 /\ one[Len(p) + 1] = q[1]
        /\ \A i \in 1 .. Len(p) : one[i] = p[i]
    BY <1>3, <1>4
  <2>2. /\ all \in Seq(S) /\ Len(all) = Len(p) + 1 /\ all[Len(p) + 1] = q[1]
        /\ \A i \in 1 .. Len(p) : all[i] = p[i]
    BY <1>1, <1>4
  <2> HIDE DEF one, all
  <2>3. all = one
    BY <1>1, <2>1, <2>2, SameElements
  <2> QED BY <1>4, <2>3 DEF one, all
<1>5. Len(q) = 2 => q[2] \in S
  <2>1. q \in [1 .. Len(q) -> S]
    OBVIOUS
  <2> QED BY <2>1
<1>6. CASE Len(q) = 2
  <2> DEFINE one == Append(p, q[1])
  <2> DEFINE two == Append(one, q[2])
  <2> DEFINE all == p \o q
  <2>1. /\ one \in Seq(S) /\ Len(one) = Len(p) + 1 /\ one[Len(p) + 1] = q[1]
        /\ \A i \in 1 .. Len(p) : one[i] = p[i]
    BY <1>3, <1>6
  <2>2. /\ all \in Seq(S) /\ Len(all) = Len(p) + 2
        /\ all[Len(p) + 1] = q[1] /\ all[Len(p) + 2] = q[2]
        /\ \A i \in 1 .. Len(p) : all[i] = p[i]
    BY <1>1, <1>6
  <2> HIDE DEF one, all
  <2>3. /\ two \in Seq(S) /\ Len(two) = Len(one) + 1 /\ two[Len(one) + 1] = q[2]
        /\ \A i \in 1 .. Len(one) : two[i] = one[i]
    BY <1>5, <1>6, <2>1
  <2> HIDE DEF two
  <2>4. all = two
    BY <1>1, <2>1, <2>2, <2>3, SameElements, SMTT(40)
  <2> QED BY <1>6, <2>4 DEF one, two, all
<1> QED BY <1>2, <1>4, <1>6

(* A new file: at most two sequences of one name. *)
LEMMA MissingNames ==
  ASSUME Inv, NEW name \in ModuleNames \cup {NoName}
  PROVE  /\ Missing(name) \in Seq(ModuleNames) /\ Len(Missing(name)) \in 0 .. 2
         /\ "a" \in DOMAIN modules \cup ToSet(Missing(name))
         /\ name # NoName => name \in DOMAIN modules \cup ToSet(Missing(name))
<1>1. "a" \in ModuleNames
  BY ScopesAssumption
<1>2. DOMAIN modules # {} => "a" \in DOMAIN modules
  BY DEF Inv, ModulesFine
<1>3. CASE DOMAIN modules = {} /\ name \in {"a", NoName}
  <2>1. Missing(name) = <<"a">>
    BY <1>3 DEF Missing
  <2> QED BY <1>1, <1>3, <2>1 DEF ToSet
<1>4. CASE DOMAIN modules = {} /\ name \notin {"a", NoName}
  <2>1. Missing(name) = <<"a">> \o <<name>>
    BY <1>4 DEF Missing
  <2> DEFINE p == <<"a">>
  <2> DEFINE q == <<name>>
  <2>2. /\ p \in Seq(ModuleNames) /\ q \in Seq(ModuleNames)
        /\ Len(p) = 1 /\ Len(q) = 1 /\ p[1] = "a" /\ q[1] = name
    BY <1>1, <1>4
  <2> HIDE DEF p, q
  <2> DEFINE all == p \o q
  <2>3. /\ all \in Seq(ModuleNames) /\ Len(all) = Len(p) + Len(q)
        /\ \A i \in 1 .. Len(p) : all[i] = p[i]
        /\ \A i \in 1 .. Len(q) : all[Len(p) + i] = q[i]
    BY <2>2, Concatenated
  <2> HIDE DEF all
  <2>4. Len(all) = 2 /\ all[1] = "a" /\ all[2] = name
    BY <2>2, <2>3
  <2>5. DOMAIN all = 1 .. 2
    <3>1. DOMAIN all = 1 .. Len(all)
      BY <2>3
    <3> QED BY <2>4, <3>1
  <2>6. "a" \in ToSet(all) /\ name \in ToSet(all)
    BY <2>4, <2>5 DEF ToSet
  <2> QED BY <2>1, <2>3, <2>4, <2>6 DEF p, q, all
<1>5. CASE DOMAIN modules # {} /\ name \in DOMAIN modules \cup {NoName}
  <2>1. Missing(name) = <<>>
    BY <1>5 DEF Missing
  <2> QED BY <1>2, <1>5, <2>1 DEF ToSet
<1>6. CASE DOMAIN modules # {} /\ name \notin DOMAIN modules \cup {NoName}
  <2>1. Missing(name) = <<>> \o <<name>>
    BY <1>2, <1>6 DEF Missing
  <2>2. <<>> \o <<name>> = <<name>>
    OBVIOUS
  <2> QED BY <1>2, <1>6, <2>1, <2>2 DEF ToSet
<1> QED BY <1>3, <1>4, <1>5, <1>6

(* The scope of a module is below the one of the compiler. *)
LEMMA AddGlobal ==
  ASSUME NEW sc, WellFormed(sc), NEW m
  PROVE  LET r == NewScope(<<Root>>, Len(sc) + 1, m, NoName)
         IN /\ WellFormed(Append(sc, r)) /\ Extends(sc, Append(sc, r))
            /\ Len(Append(sc, r)) = Len(sc) + 1
<1> DEFINE r == NewScope(<<Root>>, Len(sc) + 1, m, NoName)
<1>1. <<Root>> \in Seq(Nat) /\ Len(sc) + 1 \in Nat /\ sc \in Seq(ToSet(sc))
  BY DEF Root, WellFormed
<1>2. IsScope(r) /\ r.path = Append(<<Root>>, Len(sc) + 1) /\ DOMAIN r.vars = {}
  BY <1>1, NewScopeFields
<1> HIDE DEF r
<1>3. Root \in DOMAIN sc /\ sc[Root].path = <<Root>>
  BY DEF WellFormed
<1>4. WellFormed(Append(sc, r)) /\ Extends(sc, Append(sc, r))
  BY <1>2, <1>3, Add
<1> QED BY <1>1, <1>4 DEF r

(* The scopes of the modules a file brings. *)
LEMMA AddGlobals ==
  ASSUME Inv, NEW names \in Seq(ModuleNames), Len(names) \in 0 .. 2
  PROVE  LET sc == scopes \o GlobalScopes(names)
         IN WellFormed(sc) /\ Extends(scopes, sc) /\ Len(sc) = Len(scopes) + Len(names)
<1> DEFINE g(i, m) == NewScope(<<Root>>, Len(scopes) + i, m, NoName)
<1> DEFINE G == GlobalScopes(names)
<1> DEFINE S == ToSet(scopes) \cup {g(i, names[i]) : i \in DOMAIN names}
<1>1. WellFormed(scopes) /\ scopes \in Seq(ToSet(scopes)) /\ Len(scopes) \in Nat
  BY DEF Inv, WellFormed
<1>2. DOMAIN names = 1 .. Len(names) /\ Len(names) \in Nat
  OBVIOUS
<1>3. G = [i \in 1 .. Len(names) |-> g(i, names[i])]
  BY <1>2 DEF GlobalScopes
<1>4. \A i \in 1 .. Len(names) : g(i, names[i]) \in S
  BY <1>2
<1> HIDE DEF g, S
<1>5. G \in Seq(S) /\ Len(G) = Len(names) /\ \A i \in 1 .. Len(names) : G[i] = g(i, names[i])
  BY <1>2, <1>3, <1>4
<1>6. scopes \in Seq(S)
  BY <1>1 DEF S
<1> HIDE DEF G
<1>7. CASE Len(names) = 0
  <2>1. scopes \o G = scopes
    BY <1>5, <1>6, <1>7, OneOrTwo
  <2> QED BY <1>1, <1>7, <2>1, ExtendsSame DEF G
<1>8. CASE Len(names) = 1
  <2>1. scopes \o G = Append(scopes, g(1, names[1]))
    BY <1>5, <1>6, <1>8, OneOrTwo
  <2> QED BY <1>1, <1>8, <2>1, AddGlobal DEF G, g
<1>9. CASE Len(names) = 2
  <2> DEFINE sd == Append(scopes, g(1, names[1]))
  <2>1. scopes \o G = Append(sd, g(2, names[2]))
    BY <1>5, <1>6, <1>9, OneOrTwo
  <2>2. WellFormed(sd) /\ Extends(scopes, sd) /\ Len(sd) = Len(scopes) + 1
    BY <1>1, AddGlobal DEF g
  <2> HIDE DEF sd
  <2>3. g(2, names[2]) = NewScope(<<Root>>, Len(sd) + 1, names[2], NoName)
    BY <1>1, <2>2 DEF g
  <2>4. /\ WellFormed(scopes \o G) /\ Extends(sd, scopes \o G)
        /\ Len(scopes \o G) = Len(sd) + 1
    BY <2>1, <2>2, <2>3, AddGlobal
  <2> QED BY <1>1, <1>9, <2>2, <2>4, ExtendsTwice DEF G
<1> QED BY <1>7, <1>8, <1>9

(* A file brings its modules, or finds them, and is walked in one. *)
LEMMA StartFileStep ==
  ASSUME Inv, NEW name \in ModuleNames \cup {NoName}, StartFile(name)
  PROVE  Builds
<1> DEFINE names == Missing(name)
<1> DEFINE found(m) == [[modules[m] EXCEPT !.scope = modules[m].global]
                          EXCEPT !.namespace = modules[m].namespace]
<1>1. /\ names \in Seq(ModuleNames) /\ Len(names) \in 0 .. 2
      /\ "a" \in DOMAIN modules \cup ToSet(names)
      /\ name # NoName => name \in DOMAIN modules \cup ToSet(names)
  BY MissingNames
<1>2. /\ WellFormed(scopes') /\ Extends(scopes, scopes')
      /\ Len(scopes') = Len(scopes) + Len(names)
  BY <1>1, AddGlobals DEF StartFile
<1>3. /\ DOMAIN modules' = DOMAIN modules \cup ToSet(names)
      /\ \A m \in DOMAIN modules : modules'[m] = Found(m, name)
      /\ \A m \in ToSet(names) : m \notin DOMAIN modules =>
           modules'[m] = Created(names, m)
  BY DEF StartFile
<1>4. /\ DOMAIN scopes' = 1 .. (Len(scopes) + Len(names)) /\ Len(scopes) \in Nat
      /\ DOMAIN scopes \subseteq DOMAIN scopes'
  BY <1>2 DEF WellFormed, Inv, Extends
<1>5. ASSUME NEW m \in DOMAIN modules
      PROVE  modules'[m] \in [global : DOMAIN scopes', scope : DOMAIN scopes',
                              namespace : {modules'[m].namespace}]
  <2>1. modules[m] \in [global : DOMAIN scopes, scope : DOMAIN scopes,
                        namespace : {modules[m].namespace}]
    BY DEF Inv, ModulesFine
  <2>2. modules'[m] = modules[m] \/ modules'[m] = [modules[m] EXCEPT !.scope = modules[m].global]
    BY <1>3 DEF Found
  <2>3. ASSUME NEW r \in [global : DOMAIN scopes, scope : DOMAIN scopes,
                          namespace : {modules[m].namespace}]
        PROVE  /\ r \in [global : DOMAIN scopes', scope : DOMAIN scopes',
                         namespace : {r.namespace}]
               /\ [r EXCEPT !.scope = r.global] \in
                     [global : DOMAIN scopes', scope : DOMAIN scopes',
                      namespace : {[r EXCEPT !.scope = r.global].namespace}]
    BY <1>4
  <2> QED BY <2>1, <2>2, <2>3
<1>6. ASSUME NEW m \in ToSet(names), m \notin DOMAIN modules
      PROVE  modules'[m] \in [global : DOMAIN scopes', scope : DOMAIN scopes',
                              namespace : {modules'[m].namespace}]
  <2> DEFINE i == CHOOSE j \in DOMAIN names : names[j] = m
  <2>1. i \in DOMAIN names
    BY DEF ToSet
  <2>2. modules'[m] = [global |-> Len(scopes) + i, scope |-> Len(scopes) + i,
                       namespace |-> <<>>]
    BY <1>3, <1>6 DEF Created
  <2> HIDE DEF i
  <2>3. Len(scopes) + i \in DOMAIN scopes'
    <3> DEFINE n == Len(names)
    <3>1. i \in 1 .. n /\ n \in Nat
      BY <1>1, <2>1
    <3> HIDE DEF n
    <3>2. DOMAIN scopes' = 1 .. (Len(scopes) + n)
      BY <1>4 DEF n
    <3> QED BY <1>4, <3>1, <3>2
  <2> QED BY <2>2, <2>3
<1>7. current' \in DOMAIN modules'
  <2>1. current \in DOMAIN modules \cup {NoName}
    BY DEF Inv, ModulesFine
  <2> QED BY <1>1, <1>3, <2>1 DEF StartFile
<1>8. ModulesFine'
  BY <1>1, <1>3, <1>5, <1>6, <1>7 DEF ModulesFine
<1>9. Building /\ phase' = "walking" /\ errors' = errors
  BY DEF StartFile, Building
<1> QED BY <1>2, <1>8, <1>9 DEF Builds
-----------------------------------------------------------------------------
(* Stage 2 gives types that are in sight, and reports what has none. *)
LEMMA ResolveStep ==
  ASSUME Inv, Resolve
  PROVE  Inv' /\ Extends(scopes, scopes')
<1> DEFINE new(s) == [v \in DOMAIN scopes[s].vars |-> Resolved(s, scopes[s].vars[v])]
<1>1. /\ WellFormed(scopes) /\ DOMAIN scopes = 1 .. Len(scopes) /\ Len(scopes) \in Nat
      /\ phase = "ready" /\ UNCHANGED <<modules, current>>
  BY DEF Inv, WellFormed, Resolve
<1>2. /\ scopes' = [s \in DOMAIN scopes |->
           IF ~InModule(s) THEN scopes[s] ELSE [scopes[s] EXCEPT !.vars = new(s)]]
      /\ errors' = UNION {{<<s, v>> : v \in {w \in DOMAIN scopes[s].vars :
                             Resolved(s, scopes[s].vars[w]).in = 0}} :
                           s \in {i \in DOMAIN scopes : InModule(i)}}
      /\ phase' = IF errors' = {} THEN "done" ELSE "failed"
  BY DEF Resolve
<1>3. ASSUME NEW s \in DOMAIN scopes
      PROVE  /\ IsScope(scopes'[s]) /\ scopes'[s].path = scopes[s].path
             /\ scopes'[s].types = scopes[s].types
             /\ scopes'[s].vars = IF InModule(s) THEN new(s) ELSE scopes[s].vars
  <2>1. IsScope(scopes[s])
    BY <1>1 DEF WellFormed, Chained
  <2> HIDE DEF new
  <2>2. scopes'[s] = IF ~InModule(s) THEN scopes[s]
                     ELSE [scopes[s] EXCEPT !.vars = new(s)]
    BY <1>2
  <2>3. CASE InModule(s)
    BY <2>1, <2>2, <2>3, VarsFields
  <2>4. CASE ~InModule(s)
    BY <2>1, <2>2, <2>4
  <2> QED BY <2>3, <2>4
<1>4. DOMAIN scopes' = DOMAIN scopes
  BY <1>2
<1>5. Len(scopes') \in Nat /\ scopes' \in Seq(ToSet(scopes'))
  <2> DEFINE S == {scopes'[s] : s \in DOMAIN scopes}
  <2>1. scopes' = [s \in DOMAIN scopes |-> scopes'[s]]
    BY <1>2
  <2>2. scopes' \in [1 .. Len(scopes) -> S]
    BY <1>1, <2>1
  <2>3. scopes' \in Seq(S)
    <3> HIDE DEF S
    <3> QED BY <1>1, <2>2
  <2> HIDE DEF S
  <2> QED BY <2>3, OwnElements
<1>6. ASSUME NEW s \in DOMAIN scopes
      PROVE  /\ Chain(scopes', s) = Chain(scopes, s)
             /\ \A i \in Chain(scopes, s) :
                  i \in DOMAIN scopes /\ scopes'[i].types = scopes[i].types
  BY <1>1, <1>3, ChainsHoldScopes DEF Chain
<1>7. ASSUME NEW s \in DOMAIN scopes, NEW v \in DOMAIN scopes[s].vars
      PROVE  LET old == scopes[s].vars[v]
                 type == Resolved(s, old)
             IN /\ InSight(scopes, s, old) /\ InSight(scopes, s, type)
                /\ old.in # 0 => type = old
                /\ type.in = 0 => type.name = old.name /\ Visible(s, old.name) = {}
  <2>1. InSight(scopes, s, scopes[s].vars[v])
    BY <1>1 DEF WellFormed, Typed
  <2>2. \A t : /\ InSight(scopes, s, TypeOf(s, t)) /\ TypeOf(s, t).name = t
               /\ TypeOf(s, t).in = 0 <=> Visible(s, t) = {}
    BY <1>1, TypeOfInSight
  <2> QED BY <2>1, <2>2 DEF Resolved
<1>8. ASSUME NEW s \in DOMAIN scopes, NEW type, InSight(scopes, s, type)
      PROVE  InSight(scopes', s, type)
  BY <1>6, <1>8 DEF InSight
<1>9. Chained(scopes')
  BY <1>1, <1>3, <1>4, <1>6 DEF WellFormed, Chained
<1>10. Typed(scopes')
  <2> SUFFICES ASSUME NEW s \in DOMAIN scopes, NEW v \in DOMAIN scopes'[s].vars
               PROVE  InSight(scopes', s, scopes'[s].vars[v])
    BY <1>4 DEF Typed
  <2>1. /\ v \in DOMAIN scopes[s].vars
        /\ scopes'[s].vars[v] \in {scopes[s].vars[v], Resolved(s, scopes[s].vars[v])}
    BY <1>3
  <2>2. InSight(scopes, s, scopes'[s].vars[v])
    <3>1. /\ InSight(scopes, s, scopes[s].vars[v])
          /\ InSight(scopes, s, Resolved(s, scopes[s].vars[v]))
      BY <1>7, <2>1
    <3> QED BY <2>1, <3>1
  <2> QED BY <1>8, <2>2
<1>11. WellFormed(scopes')
  BY <1>1, <1>3, <1>4, <1>5, <1>9, <1>10 DEF WellFormed
<1>12. Extends(scopes, scopes')
  <2>1. ASSUME NEW s \in DOMAIN scopes, NEW v \in DOMAIN scopes[s].vars
        PROVE  /\ v \in DOMAIN scopes'[s].vars
               /\ scopes[s].vars[v].in # 0 => scopes'[s].vars[v] = scopes[s].vars[v]
    BY <1>3, <1>7, ZenonT(60)
  <2> QED BY <1>3, <1>4, <2>1 DEF Extends
<1>13. ModulesFine'
  BY <1>1, <1>2, <1>4 DEF Inv, ModulesFine, Walking
<1>14. \A s \in DOMAIN scopes : InModule(s)' <=> InModule(s)
  BY <1>1, <1>3 DEF InModule
<1>15. SuccessMeansTyped'
  <2> SUFFICES ASSUME phase' \in {"done", "built"}, NEW s \in DOMAIN scopes, InModule(s),
                      NEW v \in DOMAIN scopes'[s].vars
               PROVE  /\ scopes'[s].vars[v].in \in ToSet(scopes'[s].path)
                      /\ scopes'[s].vars[v].name \in
                           scopes'[scopes'[s].vars[v].in].types
    BY <1>4, <1>14 DEF SuccessMeansTyped
  <2>1. v \in DOMAIN scopes[s].vars /\ scopes'[s].vars[v] = Resolved(s, scopes[s].vars[v])
    BY <1>3
  <2>2. <<s, v>> \notin errors'
    BY <1>2
  <2>3. Resolved(s, scopes[s].vars[v]).in # 0
    BY <1>2, <2>1, <2>2
  <2>4. InSight(scopes', s, scopes'[s].vars[v])
    BY <1>7, <1>8, <2>1
  <2> QED BY <2>1, <2>3, <2>4 DEF InSight, Chain
<1>16. ErrorsAreReal'
  <2> SUFFICES ASSUME NEW s \in DOMAIN scopes, InModule(s), NEW v \in DOMAIN scopes[s].vars,
                      Resolved(s, scopes[s].vars[v]).in = 0
               PROVE  ~ \E i \in ToSet(scopes'[s].path) :
                          scopes'[s].vars[v].name \in scopes'[i].types
    <3>1. \A e \in errors' : \E s \in DOMAIN scopes : \E v \in DOMAIN scopes[s].vars :
            /\ InModule(s) /\ e = <<s, v>> /\ Resolved(s, scopes[s].vars[v]).in = 0
      BY <1>2
    <3> QED BY <3>1 DEF ErrorsAreReal
  <2>1. scopes'[s].vars[v] = Resolved(s, scopes[s].vars[v])
    BY <1>3
  <2>2. Visible(s, scopes'[s].vars[v].name) = {}
    BY <1>7, <2>1
  <2> QED BY <1>6, <2>2 DEF Visible, Chain
<1> QED BY <1>2, <1>11, <1>12, <1>13, <1>15, <1>16 DEF Inv, StagesFine

(* Stage 3 goes on from what passed, and declares nothing. *)
LEMMA GenerateStep ==
  ASSUME Inv, Generate
  PROVE  Inv' /\ Extends(scopes, scopes')
<1>1. /\ phase = "done" /\ phase' \in {"undefined", "failed", "built"}
      /\ UNCHANGED <<scopes, modules, current, errors>>
  BY DEF Generate
<1>2. errors = {}
  BY <1>1 DEF Inv, StagesFine
<1>3. SuccessMeansTyped' /\ ErrorsAreReal'
  BY <1>1, <1>2 DEF Inv, StagesFine, SuccessMeansTyped, ErrorsAreReal, InModule
<1>4. ModulesFine'
  BY <1>1 DEF Inv, ModulesFine, Walking
<1> QED BY <1>1, <1>2, <1>3, <1>4, ExtendsSame DEF Inv, StagesFine
-----------------------------------------------------------------------------
(* The compiler starts with the basic types alone. *)
LEMMA InitInv == Init => Inv
<1> SUFFICES ASSUME Init PROVE Inv
  OBVIOUS
<1> DEFINE r == [NewScope(<<>>, Root, NoName, NoName) EXCEPT !.types = Primitives]
<1>1. scopes = <<r>>
  BY DEF Init
<1>2. IsScope(r) /\ r.path = <<Root>> /\ DOMAIN r.vars = {}
  <2> DEFINE q == NewScope(<<>>, Root, NoName, NoName)
  <2>1. IsScope(q) /\ q.path = Append(<<>>, Root) /\ DOMAIN q.vars = {}
    <3>1. <<>> \in Seq(Nat) /\ Root \in Nat
      BY DEF Root
    <3> HIDE DEF q
    <3>2. q = NewScope(<<>>, Root, NoName, NoName)
      BY DEF q
    <3> QED BY <3>1, <3>2, NewScopeFields
  <2> HIDE DEF q
  <2>2. IsScope([q EXCEPT !.types = Primitives])
        /\ [q EXCEPT !.types = Primitives].path = q.path
        /\ [q EXCEPT !.types = Primitives].vars = q.vars
    BY <2>1, TypesFields
  <2> QED BY <2>1, <2>2 DEF q
<1> HIDE DEF r
<1>3. Len(scopes) = 1 /\ DOMAIN scopes = {1} /\ scopes[1] = r /\ scopes \in Seq(ToSet(scopes))
  <2>1. scopes \in Seq({r}) /\ Len(scopes) = 1 /\ scopes[1] = r
    BY <1>1
  <2>2. DOMAIN scopes = 1 .. Len(scopes)
    BY <2>1
  <2>3. scopes \in Seq(ToSet(scopes))
    BY <2>1, OwnElements
  <2> QED BY <2>1, <2>2, <2>3
<1>4. Chain(scopes, 1) = {1}
  BY <1>2, <1>3 DEF Chain, ToSet, Root
<1>5. Chained(scopes)
  BY <1>2, <1>3, <1>4 DEF Chained
<1>6. Typed(scopes)
  BY <1>2, <1>3 DEF Typed
<1>7. WellFormed(scopes)
  BY <1>2, <1>3, <1>5, <1>6 DEF WellFormed, Root
<1>8. ModulesFine
  BY DEF Init, ModulesFine, Walking
<1>9. StagesFine
  BY DEF Init, StagesFine, SuccessMeansTyped, ErrorsAreReal
<1> QED BY <1>7, <1>8, <1>9 DEF Inv

(* Every step of the compiler keeps the invariant, and takes nothing back. *)
LEMMA NextInv ==
  ASSUME Inv, [Next]_vars
  PROVE  Inv' /\ Extends(scopes, scopes')
<1>1. CASE UNCHANGED vars
  <2>1. Inv'
    BY <1>1 DEF vars, Inv, ModulesFine, StagesFine, SuccessMeansTyped, ErrorsAreReal,
                InModule, Walking
  <2> QED BY <1>1, <2>1, ExtendsSame DEF vars
<1>2. ASSUME Builds PROVE Inv' /\ Extends(scopes, scopes')
  BY <1>2, BuildsKeeps
<1>3. CASE \E m \in ModuleNames \cup {NoName} : StartFile(m)
  BY <1>2, <1>3, StartFileStep
<1>4. CASE \E n \in NamespaceNames : EnterNamespace(n)
  BY <1>2, <1>4, EnterNamespaceStep
<1>5. CASE \E t \in TypeNames : EnterClass(t) \/ EnterRecord(t)
  BY <1>2, <1>5, EnterClassStep, EnterRecordStep
<1>6. CASE \E ps \in Params : EnterMessage(ps) \/ EnterClosure(ps)
  BY <1>2, <1>6, EnterMessageStep, EnterClosureStep
<1>7. CASE \E v \in VarNames, t \in TypeNames : Variable(v, t)
  BY <1>2, <1>7, VariableStep
<1>8. CASE MaySend /\ \E to \in Nodes, msg \in Messages, args \in Arguments :
                        Send(to, msg, args)
  <2>1. Walking
    BY <1>8 DEF MaySend
  <2> QED BY <1>2, <1>8, <2>1, SendStep
<1>9. CASE Instance \/ Literal
  BY <1>2, <1>9, InstanceStep, LiteralStep
<1>10. CASE LeaveNamespace \/ LeaveScope \/ LeaveRecord \/ EndFile
  BY <1>2, <1>10, LeaveSteps
<1>11. CASE Resolve \/ Generate
  BY <1>11, ResolveStep, GenerateStep
<1>12. CASE VisitOther
  <2>1. Walking /\ UNCHANGED <<scopes, modules, current, errors, phase>>
    BY <1>12 DEF VisitOther, Visits
  <2>2. Extends(scopes, scopes') /\ WellFormed(scopes')
    BY <2>1, ExtendsSame DEF Inv
  <2>3. ModulesFine'
    BY <2>1, <2>2, ModulesStay
  <2> QED BY <1>2, <2>1, <2>2, <2>3 DEF Builds, Building, Walking
<1> QED
  BY <1>1, <1>3, <1>4, <1>5, <1>6, <1>7, <1>8, <1>9, <1>10, <1>11, <1>12 DEF Next
-----------------------------------------------------------------------------
(* The inductive invariant holds in every build. *)
THEOREM Invariant == Spec => []Inv
<1>1. Inv /\ [Next]_vars => Inv'
  BY NextInv
<1> QED BY <1>1, InitInv, PTL DEF Spec

(* A build that passes stage 2 has given every variable declared in a      *)
(* module a type that stands in a scope around it, for any number of files *)
(* and any nesting.                                                        *)
THEOREM VariablesTyped == Spec => []SuccessMeansTyped
<1>1. Inv => SuccessMeansTyped
  BY DEF Inv, StagesFine
<1> QED BY <1>1, Invariant, PTL

(* No scope around a variable that stage 2 reports declares its type.      *)
THEOREM ReportsReal == Spec => []ErrorsAreReal
<1>1. Inv => ErrorsAreReal
  BY DEF Inv, StagesFine
<1> QED BY <1>1, Invariant, PTL

(* No step of any stage takes a declaration back or gives a variable that  *)
(* has a type another one.                                                 *)
THEOREM NothingTakenBack == Spec => TypesStable
<1> DEFINE Kept == \A s \in DOMAIN scopes :
             /\ scopes[s].types \subseteq scopes'[s].types
             /\ \A v \in DOMAIN scopes[s].vars :
                  /\ v \in DOMAIN scopes'[s].vars
                  /\ scopes[s].vars[v].in # 0 =>
                       scopes'[s].vars[v] = scopes[s].vars[v]
<1>1. Inv /\ [Next]_vars => Kept
  BY NextInv DEF Extends
<1>2. Inv /\ [Next]_vars => [Kept]_vars
  BY <1>1
<1> QED BY <1>2, Invariant, PTL DEF Spec, TypesStable
=============================================================================
