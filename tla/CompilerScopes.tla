--------------------------- MODULE CompilerScopes ---------------------------
(***************************************************************************)
(* The stages of the compiler (src/src/compiler.cpp, with the scopes of    *)
(* src/src/compiletime.h and .cpp).  Stage 1 walks the AST of one file     *)
(* after the other and declares what it meets in the current scope of the  *)
(* current module; blocks push a scope when they are entered and pop it    *)
(* when they are left.  Stage 2 gives a type to the variables whose type   *)
(* was not known when they were declared.  Stage 3 looks up the arguments  *)
(* of the messages sent; the LLVM calls in it are left out.                *)
(*                                                                         *)
(* The AST is not built: every action is the handler of one node, and open *)
(* is the place of the walk in the tree, so that only nodes come up which  *)
(* the grammar of the parser allows there.  A send is visited before its   *)
(* receiver and its arguments: they wait in todo.  Left out are array      *)
(* literals, arguments that follow a closure, and literals of strings,     *)
(* whose storage is deleted several times (src/src/datatypes.cpp:80), so   *)
(* that nothing can be said of the build.                                  *)
(*                                                                         *)
(* A scope is known by its place in scopes, in the order of creation.      *)
(***************************************************************************)
EXTENDS Integers, Sequences, FiniteSets, SequencesExt

CONSTANTS
  ModuleNames, NamespaceNames, TypeNames, VarNames,
  Messages,    \* the names of the messages sent, the operator := among them
  Temps,       \* generateTempInstanceName: a name for every node, in order
  NoName,      \* the empty name
  Primitives,  \* the types initBasicTypes puts into the global scope
  MaxArgs,     \* bound on the arguments of a message sent
  MaxFiles,    \* bound on the files of a build
  MaxScopes,   \* bound on the scopes
  MaxSize      \* bound on the files, names and sends of a build, see Room

ASSUME ScopesAssumption ==
  /\ "a" \in ModuleNames
  /\ NoName \notin ModuleNames \cup NamespaceNames \cup TypeNames \cup VarNames
  /\ Primitives \subseteq TypeNames
  /\ ":=" \in Messages
  /\ Temps \in Seq(ToSet(Temps)) /\ IsInjective(Temps)
  /\ ToSet(Temps) \cap (VarNames \cup {NoName}) = {}
  /\ MaxArgs \in Nat /\ MaxFiles \in Nat /\ MaxScopes \in Nat /\ MaxSize \in Nat

VARIABLES
  scopes,   \* the ScopedEnvironments: the chain of parents (itself last),
            \* the name of the module (NoName: none), what the scope is of,
            \* the types, the variables and the instances declared in it,
            \* and the messages sent, by the key of msgSends
  modules,  \* ExecutableFragment::modules: global and current scope, and
            \* the path of the current namespace
  current,  \* currentModule
  open,     \* the kinds of the blocks that are being walked, the module
            \* block of the file and the file itself among them
  todo,     \* the receivers and arguments the walk has not come to yet
  errors,   \* errorListing: where and which variable
  files,    \* how many files have been compiled
  phase     \* "ready", "walking", "done" (stage 2), "built" (stage 3),
            \* "failed" (thrown), "crashed" (in stage 1), "undefined"
            \* (stage 3 read what is not there)

vars == <<scopes, modules, current, open, todo, errors, files, phase>>

Root == 1   \* Compiler::globalEnv

(* A variable's type: its name, and the scope that declares it (0: none). *)
Unknown(name) == [name |-> name, in |-> 0]
Global(name) == [name |-> name, in |-> Root]

Nothing == [x \in {} |-> x]

NewScope(path, id, module, of) ==
  [path |-> Append(path, id), module |-> module, of |-> of, types |-> {},
   vars |-> Nothing, insts |-> Nothing, sends |-> Nothing]

Init ==
  /\ scopes = <<[NewScope(<<>>, Root, NoName, NoName) EXCEPT !.types = Primitives]>>
  /\ modules = [m \in {} |-> 0]
  /\ current = NoName /\ open = <<>> /\ todo = <<>> /\ errors = {} /\ files = 0
  /\ phase = "ready"
-----------------------------------------------------------------------------
(* Scopes *)

Scope == modules[current].scope   \* getCurrentScope

(* Bug: types are looked up in every scope there is. *)
VisibleAnywhere(s, t) == {i \in DOMAIN scopes : t \in scopes[i].types}

(* Bug: the parents are not asked. *)
VisibleLocally(s, t) == {i \in {s} : t \in scopes[i].types}

(* The scopes on the chain of s that declare type t. *)
Visible(s, t) == {i \in ToSet(scopes[s].path) : t \in scopes[i].types}

(* getType(t, true): children come after their parents, so the nearest     *)
(* scope of the chain is the greatest.                                     *)
TypeOf(s, t) ==
  IF Visible(s, t) = {} THEN Unknown(t)
  ELSE [name |-> t, in |-> CHOOSE i \in Visible(s, t) :
                             \A j \in Visible(s, t) : j <= i]

(* Bug: variables are looked up in every scope there is. *)
HoldersAnywhere(s, v) == {i \in DOMAIN scopes : v \in DOMAIN scopes[i].vars}

(* getVariable(v, true) finds the variable in the nearest of these. *)
Holders(s, v) == {i \in ToSet(scopes[s].path) : v \in DOMAIN scopes[i].vars}

(* The map f with y for x: as operator [] and as insert leave it.         *)
Put(f, x, y) == [z \in DOMAIN f \cup {x} |-> IF z = x THEN y ELSE f[z]]
PutNew(f, x, y) == [z \in DOMAIN f \cup {x} |-> IF z \in DOMAIN f THEN f[z] ELSE y]

WithVar(scope, v, type) == [scope EXCEPT !.vars = Put(@, v, type)]

(* addInstance: the instance that is there first is kept. *)
WithInst(scope, i, type) == [scope EXCEPT !.insts = PutNew(@, i, type)]

(* addSendMessage: likewise, by the key of the send. *)
WithSend(scope, key, params) == [scope EXCEPT !.sends = PutNew(@, key, params)]

(* Bug: the module is left without a scope. *)
PoppedToNull(m) ==
  LET path == scopes[modules[m].scope].path
  IN IF Len(path) = 1 THEN 0 ELSE path[Len(path) - 1]

(* popCurrentScope: from the scope without a parent back to the module's.  *)
Popped(m) ==
  LET path == scopes[modules[m].scope].path
  IN IF Len(path) = 1 THEN modules[m].global ELSE path[Len(path) - 1]
-----------------------------------------------------------------------------
(* The walk: which nodes may come next.  A namespace block holds either    *)
(* one namespace or statements; a file, namespaces and then statements; a  *)
(* class, its variables and then its messages.                             *)

Walking == phase = "walking"
Between == Walking /\ todo = <<>>   \* no message is being sent
Top == Last(open)

TakesStatements == {"file", "fileBody", "namespace", "namespaceBody", "message"}

(* The block on top after a node of it that is not a namespace. *)
Begun ==
  CASE Top = "file"      -> "fileBody"
    [] Top = "namespace" -> "namespaceBody"
    [] OTHER             -> Top

Node == open' = [open EXCEPT ![Len(open)] = Begun]
Enter(kind, top) == open' = Append([open EXCEPT ![Len(open)] = top], kind)

(* Bound: as many files, declared names and (twice) sends. *)
Room(n) ==
  LET types == {st \in (DOMAIN scopes) \X TypeNames : st[2] \in scopes[st[1]].types}
      held  == {sv \in (DOMAIN scopes) \X VarNames : sv[2] \in DOMAIN scopes[sv[1]].vars}
      sent  == UNION {{<<s, k>> : k \in DOMAIN scopes[s].sends} : s \in DOMAIN scopes}
  IN n + files + Cardinality(types) + Cardinality(held) + 2 * Cardinality(sent)
       <= MaxSize + Cardinality(Primitives)

(* throw Compiler::Error: the build is over. *)
Throw == phase' = "failed" /\ UNCHANGED <<scopes, modules, current, open, todo, errors, files>>

(* A call through the null module of a scope outside of all modules. *)
Crash == phase' = "crashed" /\ UNCHANGED <<scopes, modules, current, open, todo, errors, files>>

(* stage1Variable: addVariable in the current scope asks the module of the *)
(* scope for its namespace.                                                *)
Variable(v, t) ==
  /\ Between /\ Top \in TakesStatements \cup {"class", "record"}
  /\ IF v \in DOMAIN scopes[Scope].vars THEN Throw
     ELSE IF scopes[Scope].module = NoName THEN Crash
     ELSE /\ Room(1)
          /\ scopes' = [scopes EXCEPT ![Scope] = WithVar(@, v, TypeOf(Scope, t))]
          /\ Node
          /\ UNCHANGED <<modules, current, todo, errors, files, phase>>
-----------------------------------------------------------------------------
(* Messages sent.  A receiver and an argument are nodes: an instance with  *)
(* its name, an integer literal, a closure, an expression that sends a     *)
(* message itself, or another one: nil, or a literal without an instance.  *)

Nodes == [kind : {"instance"}, name : VarNames]
           \cup [kind : {"literal", "closure", "send", "other"}, name : {NoName}]
Sent(s) == {scopes[s].sends[k] : k \in DOMAIN scopes[s].sends}

(* generateTempInstanceName: the address of a node; no tree is ever freed, *)
(* and a name is not given again.                                          *)
Unused ==
  LET params == UNION {UNION {ToSet(p) : p \in Sent(s)} : s \in DOMAIN scopes}
      used   == {n.temp : n \in params \cup ToSet(todo)}
                  \cup UNION {DOMAIN scopes[s].insts : s \in DOMAIN scopes}
      last   == Max({0} \cup {i \in DOMAIN Temps : Temps[i] \in used})
  IN SubSeq(Temps, last + 1, Len(Temps))

Named(node, temp) == [kind |-> node.kind, name |-> node.name, temp |-> temp]

(* The type of a new instance is that of a variable of the current scope,  *)
(* not of one around it: the instance of its receiver, which knows those,  *)
(* comes later and is not taken any more.                                  *)
ReceiverType(v) ==
  IF v \in DOMAIN scopes[Scope].vars THEN scopes[Scope].vars[v] ELSE Unknown(NoName)

MaySend ==
  /\ Walking /\ Top \in TakesStatements
  /\ todo # <<>> => Head(todo).kind = "send"
  /\ Room(2)

(* stage1NewSendMessage.  The key of a send leaves out the arguments, and  *)
(* addSendMessage keeps the send that is there first.  Closures are only   *)
(* the value of an assignment, here of one outside of other expressions.   *)
Send(to, msg, args) ==
  LET rest   == IF todo = <<>> THEN <<>> ELSE Tail(todo)
      temps  == Unused
      name   == IF to.kind = "instance" THEN to.name ELSE temps[1]
      params == [i \in DOMAIN args |-> Named(args[i], temps[i + 1])]
      key    == [msg |-> msg, to |-> name, any |-> args # <<>>]
  IN
  /\ to.kind # "closure"
  /\ \A i \in DOMAIN args : args[i].kind = "closure" =>
       msg = ":=" /\ i = Len(args) /\ rest = <<>>
  /\ Len(temps) > Len(args)
  /\ scopes' = [scopes EXCEPT ![Scope] =
                  WithSend(WithInst(@, name, ReceiverType(name)), key, params)]
  /\ todo' = <<Named(to, temps[1])>> \o params \o rest
  /\ Node
  /\ UNCHANGED <<modules, current, errors, files, phase>>

Visits(kind) == Walking /\ todo # <<>> /\ Head(todo).kind = kind

(* stage1Nil, and stage1Literal of a literal without an instance.          *)
VisitOther ==
  /\ Visits("other")
  /\ todo' = Tail(todo)
  /\ UNCHANGED <<scopes, modules, current, open, errors, files, phase>>

(* stage1Instance of an InstanceNode: a name that is not known yet becomes *)
(* a variable without a type name.                                         *)
Instance ==
  LET v     == Head(todo).name
      known == Holders(Scope, v)
      held  == scopes[CHOOSE i \in known : \A j \in known : j <= i].vars[v]
      type  == IF known # {} /\ held.in # 0 THEN held ELSE Unknown(NoName)
      new   == WithInst(scopes[Scope], v, type)
  IN
  /\ Visits("instance")
  /\ IF known = {} /\ scopes[Scope].module = NoName THEN Crash
     ELSE /\ known = {} => Room(1)
          /\ scopes' = [scopes EXCEPT ![Scope] =
                          IF known = {} THEN WithVar(new, v, type) ELSE new]
          /\ todo' = Tail(todo)
          /\ UNCHANGED <<modules, current, open, errors, files, phase>>

(* Bug: the instance of a literal is declared in the scope of the module.  *)
LiteralInModule ==
  /\ Visits("literal")
  /\ scopes' = [scopes EXCEPT ![modules[current].global] =
                  WithInst(@, Head(todo).temp, Global("int32"))]
  /\ todo' = Tail(todo)
  /\ UNCHANGED <<modules, current, open, errors, files, phase>>

(* stage1Literal of an integer, which std::stoi may find too large.        *)
Literal ==
  /\ Visits("literal")
  /\ \/ Throw
     \/ /\ scopes' = [scopes EXCEPT ![Scope] =
                        WithInst(@, Head(todo).temp, Global("int32"))]
        /\ todo' = Tail(todo)
        /\ UNCHANGED <<modules, current, open, errors, files, phase>>
-----------------------------------------------------------------------------
(* Blocks *)

(* pushNewScope *)
Push(new) ==
  /\ Len(scopes) < MaxScopes
  /\ scopes' = Append(new[1], new[2])
  /\ UNCHANGED <<current, errors, files, phase>>

NextId == Len(scopes) + 1
Inner(of) == NewScope(scopes[Scope].path, NextId, current, of)

MoveTo(scope, namespace) ==
  modules' = [modules EXCEPT ![current].scope = scope,
                             ![current].namespace = namespace]
Namespace == modules[current].namespace

(* stage1NewNamespace *)
EnterNamespace(n) ==
  /\ Between /\ Top \in {"file", "namespace"}
  /\ Push(<<scopes, Inner(n)>>)
  /\ MoveTo(NextId, Append(Namespace, n)) /\ todo' = todo
  /\ Enter("namespace", IF Top = "file" THEN "file" ELSE "full")

(* addType *)
WithType(t) == [scopes EXCEPT ![Scope].types = @ \cup {t}]

(* stage1NewClass *)
EnterClass(t) ==
  /\ Between /\ Top \in TakesStatements
  /\ IF t \in scopes[Scope].types THEN Throw
     ELSE /\ Room(1) /\ Push(<<WithType(t), Inner(NoName)>>)
          /\ MoveTo(NextId, Namespace) /\ todo' = todo
          /\ Enter("class", Begun)

(* stage1NewRecord pushes no scope. *)
EnterRecord(t) ==
  /\ Between /\ Top \in TakesStatements
  /\ IF t \in scopes[Scope].types THEN Throw
     ELSE /\ Room(1) /\ scopes' = WithType(t)
          /\ Enter("record", Begun)
          /\ UNCHANGED <<modules, current, todo, errors, files, phase>>

(* stage1NewMessageBlock, and stage1NewMessageDecl of its parameters: in   *)
(* the scopes sc, with the block on top of open.                           *)
EnterBlock(sc, params) ==
  IF \E i, j \in DOMAIN params : i # j /\ params[i].name = params[j].name
  THEN Throw
  ELSE /\ Room(Len(params))
       /\ Push(<<sc,
            [Inner(NoName) EXCEPT
               !.vars = [v \in {params[i].name : i \in DOMAIN params} |->
                  TypeOf(Scope, (CHOOSE p \in ToSet(params) : p.name = v).type)]]>>)
       /\ MoveTo(NextId, Namespace)
       /\ todo' = <<>>
       /\ Enter("message", IF Top = "class" THEN "classMessages" ELSE Begun)

(* A message of a class. *)
EnterMessage(params) ==
  /\ Between /\ Top \in {"class", "classMessages"}
  /\ EnterBlock(scopes, params)

(* stage1Instance of a MsgInstanceNode, which has no name, and its block.  *)
EnterClosure(params) ==
  /\ Visits("closure")
  /\ EnterBlock([scopes EXCEPT ![Scope] = WithInst(@, NoName, Global("message"))],
                params)

Leave == open' = Front(open)

(* Bug: a namespace is left, but not closed. *)
LeaveScopeOnly ==
  /\ Between /\ Top \in {"namespace", "namespaceBody", "full"}
  /\ MoveTo(Popped(current), Namespace)
  /\ Leave
  /\ UNCHANGED <<scopes, current, todo, errors, files, phase>>

(* stage1CloseNamespace *)
LeaveNamespace ==
  /\ Between /\ Top \in {"namespace", "namespaceBody", "full"}
  /\ MoveTo(Popped(current), Front(Namespace))
  /\ Leave
  /\ UNCHANGED <<scopes, current, todo, errors, files, phase>>

(* stage1CloseClassBlock, stage1CloseMessageBlock *)
LeaveScope ==
  /\ Between /\ Top \in {"class", "classMessages", "message"}
  /\ MoveTo(Popped(current), Namespace)
  /\ Leave
  /\ UNCHANGED <<scopes, current, todo, errors, files, phase>>

(* Bug: leaving a record pops the scope it never pushed. *)
LeaveRecordPops ==
  /\ Between /\ Top = "record"
  /\ MoveTo(Popped(current), Namespace)
  /\ Leave
  /\ UNCHANGED <<scopes, current, todo, errors, files, phase>>

(* stage1CloseRecord *)
LeaveRecord ==
  /\ Between /\ Top = "record"
  /\ Leave
  /\ UNCHANGED <<scopes, modules, current, todo, errors, files, phase>>
-----------------------------------------------------------------------------
(* The build *)

(* The first file of a build creates the program with its module "a"; a    *)
(* module block creates its module or finds it.                            *)
Missing(name) ==
  (IF DOMAIN modules = {} THEN <<"a">> ELSE <<>>)
    \o (IF name \in DOMAIN modules \cup {"a", NoName} THEN <<>> ELSE <<name>>)

GlobalScopes(names) ==
  [i \in DOMAIN names |-> NewScope(<<Root>>, Len(scopes) + i, names[i], NoName)]

Created(names, m) ==
  LET i == CHOOSE j \in DOMAIN names : names[j] = m
  IN [global |-> Len(scopes) + i, scope |-> Len(scopes) + i, namespace |-> <<>>]

(* Bug: a module that is found again goes on where it was left. *)
FoundAsLeft(m, name) == modules[m]

(* stage1NewModule resets the scope of the module it finds. *)
Found(m, name) ==
  IF m = name THEN [modules[m] EXCEPT !.scope = modules[m].global] ELSE modules[m]

(* stage1 of a file with a module block, or (NoName) without one. *)
StartFile(name) ==
  /\ phase = "ready" /\ files < MaxFiles
  /\ Len(scopes) + Len(Missing(name)) <= MaxScopes
  /\ scopes' = scopes \o GlobalScopes(Missing(name))
  /\ modules' = [m \in DOMAIN modules \cup ToSet(Missing(name)) |->
                   IF m \in DOMAIN modules THEN Found(m, name)
                   ELSE Created(Missing(name), m)]
  /\ current' = IF name # NoName THEN name
                ELSE IF current = NoName THEN "a" ELSE current
  /\ open' = (IF name = NoName THEN <<>> ELSE <<"module">>) \o <<"file">>
  /\ files' = files + 1 /\ phase' = "walking"
  /\ UNCHANGED <<todo, errors>>

(* closeCurrentScope at the end of stage1 pops the scope of the module. *)
EndFile ==
  /\ Between /\ Top \in {"file", "fileBody"}
  /\ MoveTo(Popped(current), Namespace)
  /\ open' = <<>>
  /\ phase' = "ready"
  /\ UNCHANGED <<scopes, current, todo, errors, files>>

(* Bug: all variables are given the type that is visible now. *)
ResolvedAgain(s, type) == TypeOf(s, type.name)

(* resolveVariable *)
Resolved(s, type) == IF type.in # 0 THEN type ELSE TypeOf(s, type.name)

(* stage2 visits the scopes below the global scopes of the modules. *)
InModule(s) ==
  \E m \in DOMAIN modules : modules[m].global \in ToSet(scopes[s].path)

(* stage2, and the test of errorListing in compile. *)
Resolve ==
  /\ phase = "ready" /\ files > 0
  /\ scopes' = [s \in DOMAIN scopes |->
       IF ~InModule(s) THEN scopes[s]
       ELSE [scopes[s] EXCEPT !.vars = [v \in DOMAIN @ |-> Resolved(s, @[v])]]]
  /\ errors' = UNION {{<<s, v>> : v \in {w \in DOMAIN scopes[s].vars :
                         Resolved(s, scopes[s].vars[w]).in = 0}} :
                       s \in {i \in DOMAIN scopes : InModule(i)}}
  /\ phase' = IF errors' = {} THEN "done" ELSE "failed"
  /\ UNCHANGED <<modules, current, open, todo, files>>

(* getInstance of an argument whose instance is not in the scope of the    *)
(* send: the end of a map is dereferenced.                                 *)
LooksUpInVain ==
  \E s \in DOMAIN scopes : InModule(s) /\ \E params \in Sent(s) :
    \E i \in DOMAIN params : params[i].temp \notin DOMAIN scopes[s].insts

(* buildFunction throws unless one value is assigned. *)
MisassignsIn(s) ==
  \E k \in DOMAIN scopes[s].sends : k.msg = ":=" /\ Len(scopes[s].sends[k]) # 1
Misassigns == \E s \in DOMAIN scopes : InModule(s) /\ MisassignsIn(s)

(* getFullyQualifiedName follows the parents of the namespace a variable   *)
(* is in, past the global one, whose parent nobody has set.                *)
NamesVariables == \E s \in DOMAIN scopes : InModule(s) /\ DOMAIN scopes[s].vars # {}

(* stage3 names the variables and goes through the sends, in the order of  *)
(* their keys: any of the faults may be met first.  The parent that was    *)
(* never set may also happen to be null, which is what was meant.          *)
Generate ==
  /\ phase = "done"
  /\ \/ (NamesVariables \/ LooksUpInVain) /\ phase' = "undefined"
     \/ Misassigns /\ phase' = "failed"
     \/ ~LooksUpInVain /\ ~Misassigns /\ phase' = "built"
  /\ UNCHANGED <<scopes, modules, current, open, todo, errors, files>>

Params == {<<>>} \cup {<<[name |-> v, type |-> t]>> : v \in VarNames, t \in TypeNames}
            \cup {<<[name |-> v, type |-> t], [name |-> w, type |-> t]>> :
                    v \in VarNames, w \in VarNames, t \in TypeNames}

Arguments == UNION {[1 .. n -> Nodes] : n \in 0 .. MaxArgs}

Next ==
  \/ \E m \in ModuleNames \cup {NoName} : StartFile(m)
  \/ \E n \in NamespaceNames : EnterNamespace(n)
  \/ \E t \in TypeNames : EnterClass(t) \/ EnterRecord(t)
  \/ \E ps \in Params : EnterMessage(ps) \/ EnterClosure(ps)
  \/ \E v \in VarNames, t \in TypeNames : Variable(v, t)
  \/ MaySend /\ \E to \in Nodes, msg \in Messages, args \in Arguments : Send(to, msg, args)
  \/ Instance \/ Literal \/ VisitOther
  \/ LeaveNamespace \/ LeaveScope \/ LeaveRecord
  \/ EndFile \/ Resolve \/ Generate

Spec == Init /\ [][Next]_vars
-----------------------------------------------------------------------------
(* Type correctness: every scope ends its own chain of parents, the chain  *)
(* starts at the scope of the compiler, and every module is in a scope.    *)
TypeOK ==
  /\ \A s \in DOMAIN scopes :
       /\ scopes[s].path[1] = Root /\ Last(scopes[s].path) = s
       /\ \A i \in 1 .. Len(scopes[s].path) - 1 :
            scopes[s].path[i] \in 1 .. scopes[s].path[i + 1] - 1
       /\ scopes[s].module \in ModuleNames \cup {NoName}
       /\ scopes[s].of \in NamespaceNames \cup {NoName}
       /\ scopes[s].types \subseteq TypeNames
       /\ DOMAIN scopes[s].vars \subseteq VarNames
       /\ \A v \in DOMAIN scopes[s].vars : scopes[s].vars[v] \in
            [name : TypeNames \cup {NoName}, in : {0} \cup DOMAIN scopes]
  /\ DOMAIN modules \subseteq ModuleNames
  /\ \A m \in DOMAIN modules : modules[m] \in
       [global : DOMAIN scopes, scope : DOMAIN scopes, namespace : Seq(NamespaceNames)]
  /\ current \in DOMAIN modules \cup {NoName}
  /\ \A i \in DOMAIN todo : todo[i].temp \in ToSet(Temps)
  /\ files \in 0 .. MaxFiles
  /\ phase \in {"ready", "walking", "done", "built", "failed", "crashed",
               "undefined"}

NamespaceBlocks == {"namespace", "namespaceBody", "full"}
ScopedBlocks == NamespaceBlocks \cup {"class", "classMessages", "message"}

(* The place of i among the numbers of S. *)
Rank(S, i) == Cardinality({j \in S : j <= i})

(* The places of the open blocks that have a scope. *)
Scoped == {i \in DOMAIN open : open[i] \in ScopedBlocks}

(* While a file is walked, the scopes above the current one are those of   *)
(* the open blocks, one each and in their order, on top of the scope the   *)
(* file began in: the pops in the visitor balance its pushes, whatever the *)
(* nesting of namespaces, classes, records, messages and closures.         *)
ScopeMatchesBlocks ==
  Walking =>
    LET path == scopes[Scope].path
        base == Len(path) - Cardinality(Scoped)
    IN /\ base \in {1, 2}
       /\ base = 2 => path[2] = modules[current].global
       /\ \A i \in Scoped :
            (open[i] \in NamespaceBlocks) <=>
              (scopes[path[base + Rank(Scoped, i)]].of # NoName)

(* A file with a module block is walked inside the global scope of its     *)
(* module, also when an earlier file of the build has left that module     *)
(* outside of it.                                                          *)
BlockWalksItsModule ==
  Walking /\ open[1] = "module" =>
    modules[current].global \in ToSet(scopes[Scope].path)

(* The current namespace, which is kept apart from the current scope and   *)
(* popped by a call of its own, is the one the scopes say: the namespaces  *)
(* on the chain of the scope, and none between two files.                  *)
NamespaceMatchesScope ==
  \A m \in DOMAIN modules :
    LET path  == scopes[modules[m].scope].path
        named == {i \in DOMAIN path : scopes[path[i]].of # NoName}
    IN /\ Len(modules[m].namespace) = Cardinality(named)
       /\ \A i \in named :
            modules[m].namespace[Rank(named, i)] = scopes[path[i]].of

(* When a build passes stage 2, each variable declared in a module has a   *)
(* type that is declared in a scope around it.                             *)
SuccessMeansTyped ==
  phase \in {"done", "built"} =>
    \A s \in DOMAIN scopes : InModule(s) =>
      \A v \in DOMAIN scopes[s].vars :
        LET type == scopes[s].vars[v]
        IN /\ type.in \in ToSet(scopes[s].path)
           /\ type.name \in scopes[type.in].types

(* What stage 2 reports is wrong: no scope around the variable declares    *)
(* its type, wherever in the files the type stands.                        *)
ErrorsAreReal ==
  \A e \in errors :
    ~ \E i \in ToSet(scopes[e[1]].path) :
        scopes[e[1]].vars[e[2]].name \in scopes[i].types

(* While no message is being sent, an instance stands for a variable that  *)
(* is visible where it is: two handlers declare them, the one of the send  *)
(* before the one of the receiver, and the second must see what the first  *)
(* one left out.  The type of the instance is that of such a variable,     *)
(* unless it was not looked for or not known yet: stage 2 types the        *)
(* variables only.                                                         *)
InstancesAreVariables ==
  todo = <<>> /\ phase # "crashed" =>
    \A s \in DOMAIN scopes : \A v \in DOMAIN scopes[s].insts \cap VarNames :
      \E i \in ToSet(scopes[s].path) :
        /\ v \in DOMAIN scopes[i].vars
        /\ \/ scopes[s].insts[v].in = 0
           \/ scopes[s].insts[v] = scopes[i].vars[v]

(* Stage 3 finds the instances of the literals that are sent: they are in  *)
(* the scope of the send, although the send and the literal are visited    *)
(* apart, with other sends in between.                                     *)
LiteralsFound ==
  todo = <<>> =>
    \A s \in DOMAIN scopes : \A params \in Sent(s) : \A i \in DOMAIN params :
      params[i].kind = "literal" => params[i].temp \in DOMAIN scopes[s].insts

(* No later declaration and no resolution changes the type a variable has  *)
(* got, or takes a declaration back.                                       *)
TypesStable ==
  [][\A s \in DOMAIN scopes :
       /\ scopes[s].types \subseteq scopes'[s].types
       /\ \A v \in DOMAIN scopes[s].vars :
            /\ v \in DOMAIN scopes'[s].vars
            /\ scopes[s].vars[v].in # 0 => scopes'[s].vars[v] = scopes[s].vars[v]]_vars

(* src/src/Compiler.h:165: "if no module is found then create one called   *)
(* a".  All that the files declare is declared in a module; in a scope     *)
(* without one addVariable calls a method of a null pointer, and stage 2   *)
(* does not verify what is declared there.                                 *)
DeclaredInModule ==
  /\ phase # "crashed"
  /\ scopes[Root].types = Primitives
=============================================================================
