------------------------------- MODULE Parser -------------------------------
(***************************************************************************)
(* The recursive descent parser of scratch-lang (src/src/Parser.h, class   *)
(* parser::Parser) over the tokens of one file.  todo is the call stack:   *)
(* what is still to be done, the next thing first.  A function of the      *)
(* parser is an action that replaces the call by what the function does,   *)
(* up to the point where it looks at the tokens again to decide; that      *)
(* point is an entry of todo, and an action, of its own.  A function that  *)
(* declares a ParseStateGuard pushes its state and leaves an entry for the *)
(* destructor behind.                                                      *)
(*                                                                         *)
(* Nodes are not built; node is what is asked about the one that has been  *)
(* returned last.  Functions nothing calls (variable, assignment,          *)
(* instanceExpr, the second messageParamDecl) and branches no token can    *)
(* reach (an array literal, an opening parenthesis in buildLhsExpression)  *)
(* are left out.                                                           *)
(***************************************************************************)
EXTENDS TokenCursor, SequencesExt

CONSTANTS Files  \* the files to be parsed, as sequences of Kinds

ASSUME ParserAssumption == Files \subseteq Seq(Kinds)

States == {"COMPILER_FLAGS", "CODE_FRAGMENT_BLOCK", "MODULE_BLOCK",
           "NAMESPACE_BLOCK", "STATEMENTS_BLOCK", "STATEMENT", "CLASS",
           "RECORD", "EXPRESSION", "GROUPED_EXPRESSION", "RETURN_EXPRESSION",
           "RETURN_DECLARATION", "TYPE_DECLARATION", "PARAM_DECLARATION",
           "VARIABLE_DEFINITION", "INSTANCE", "MSG_INSTANCE", "SEND_MESSAGE",
           "MESSAGE", "MESSAGE_DECL", "MESSAGE_BLOCK"}

VARIABLES
  file,   \* the tokens of currentCtx
  cur,    \* curTokIt
  saved,  \* savedCurTokIt
  stack,  \* stateStack, the current state last
  todo,   \* what the functions being called have still to do
  node,   \* the kind of the token of the node returned last, or "null"
  phase   \* "parsing"; "unwinding" and "failed": an error was thrown;
          \* "accepted"; "fault": the token behind the last was read;
          \* "crashed": the empty stack was popped; "terminated": a
          \* destructor threw

vars == <<file, cur, saved, stack, todo, node, phase>>

Init ==
  /\ file \in Files /\ cur = 1 /\ saved = End(file)
  /\ stack = <<>> /\ todo = <<[do |-> "begin"]>>
  /\ node = "null" /\ phase = "parsing"
-----------------------------------------------------------------------------
(***************************************************************************)
(* Entries of todo.                                                        *)
(***************************************************************************)
Call(f) == [do |-> f]
Next_ == Call("nextToken")
Verify(kinds) == [do |-> "verify", kinds |-> kinds]

(* The destructor of a guard: the state and the depth it has noted, where  *)
(* the function began, and the node it returns ("same": the one its last   *)
(* call has returned).                                                     *)
Leave(s, result) ==
  [do |-> "leave", state |-> s, depth |-> Len(stack) + 1, from |-> cur,
   result |-> result]

Kind == file[cur]
Peek == PeekNext(file, cur)

(* What comes next, and whether it may look at the current token.  Entries *)
(* that begin by reading it are not enabled behind the last token.         *)
ReadsNothing == {"begin", "nextToken", "leave", "again", "start", "type",
                 "returnExpression", "statements", "moreStatements",
                 "moreNamespaces", "nextNamespace"}
Pending(f) == phase = "parsing" /\ todo # <<>> /\ Head(todo).do = f
At(f) == Pending(f) /\ HasTokensLeft(file, cur)

Goes(entries, c) ==
  /\ todo' = entries \o Tail(todo) /\ cur' = c
  /\ UNCHANGED <<file, saved, stack, node, phase>>
Then(entries) == Goes(entries, cur)

Enter(s, entries, result) ==
  /\ todo' = entries \o <<Leave(s, result)>> \o Tail(todo)
  /\ stack' = Append(stack, s)
  /\ UNCHANGED <<file, cur, saved, node, phase>>

(* popState never leaves the stack empty. *)
PopState == IF Len(stack) = 1 THEN <<"NONE">> ELSE Front(stack)

(* When an error is thrown the calls on the way to the next destructor are *)
(* given up.                                                               *)
GivenUp(entries) ==
  \E n \in 0 .. Len(entries) :
    /\ \A i \in 1 .. n : entries[i].do # "leave"
    /\ n < Len(entries) => entries[n + 1].do = "leave"
    /\ todo' = SubSeq(entries, n + 1, Len(entries))

Unwind ==
  /\ GivenUp(todo)
  /\ phase' = "unwinding"
  /\ UNCHANGED <<file, cur, saved, node>>

(* The two overloads of error(): the one that is given a node pops first,  *)
(* which a parser that has not begun a block yet cannot do.                *)
Throw == stack' = Append(stack, "ERROR") /\ Unwind
FailQuietly == stack' = PopState /\ Unwind   \* mutant: no ERROR is pushed
Fail ==
  IF stack = <<>>
  THEN phase' = "crashed" /\ UNCHANGED <<file, cur, saved, stack, todo, node>>
  ELSE stack' = Append(PopState, "ERROR") /\ Unwind

(* The loops "while (nextToken(...))" of typeDeclaration and compilerFlags *)
(* end with the tokens; what their callers do then is to read on.          *)
ReadPastEnd ==
  /\ phase = "parsing" /\ todo # <<>> /\ Head(todo).do \notin ReadsNothing
  /\ ~HasTokensLeft(file, cur)
  /\ phase' = "fault"
  /\ UNCHANGED <<file, cur, saved, stack, todo, node>>

(* ~ParseStateGuard, on return and when an error is thrown.  Throwing in a *)
(* destructor would end the program.                                       *)
LeaveGuard ==
  /\ phase \in {"parsing", "unwinding"} /\ todo # <<>>
  /\ Head(todo).do = "leave"
  /\ LET guard == Head(todo)
         intact == Len(stack) = guard.depth /\ Last(stack) = guard.state
     IN /\ stack' = IF intact THEN PopState ELSE stack
        /\ phase' = IF intact \/ Last(stack) = "ERROR" THEN phase
                    ELSE "terminated"
        /\ node' = IF guard.result = "same" THEN node ELSE guard.result
  /\ \/ phase = "parsing" /\ todo' = Tail(todo)
     \/ phase = "unwinding" /\ GivenUp(Tail(todo))
  /\ UNCHANGED <<file, cur, saved>>

Caught ==
  /\ phase = "unwinding" /\ todo = <<>>
  /\ phase' = "failed"
  /\ UNCHANGED <<file, cur, saved, stack, todo, node>>

VerifyTokenOrFail ==
  /\ At("verify")
  /\ \/ Kind \in Head(todo).kinds /\ Then(<<>>)
     \/ Kind \notin Head(todo).kinds /\ Fail

VerifyLastToken ==
  /\ At("verifyLast")
  /\ \/ LastToken(file) = "}" /\ Then(<<>>)
     \/ LastToken(file) # "}" /\ Fail
-----------------------------------------------------------------------------
(***************************************************************************)
(* nextToken passes over one comment, and one only.                        *)
(***************************************************************************)
IfComment(c) ==
  IF c \in DOMAIN file /\ file[c] \in {"#", "#{"}
  THEN <<Call("comment")>> ELSE <<>>

NextToken ==
  /\ Pending("nextToken")
  /\ LET c == Advanced(file, cur) IN Goes(IfComment(c), c)

LineComment == At("comment") /\ Kind = "#" /\ Goes(<<>>, cur + 1)

OneTooFar(c) == c + 4   \* mutant: the token behind the comment is lost
BehindComment(c) == c + 3
BlockComment ==
  /\ At("comment") /\ Kind = "#{"
  /\ \/ cur + 1 = End(file) /\ Throw
     \/ cur + 1 < End(file) /\ file[cur + 1] # "#" /\ Fail
     \/ cur + 2 = End(file) /\ file[cur + 1] = "#" /\ Throw
     \/ cur + 2 < End(file) /\ file[cur + 1] = "#" /\ file[cur + 2] # "}#" /\ Fail
     \/ /\ cur + 2 < End(file) /\ file[cur + 1] = "#" /\ file[cur + 2] = "}#"
        /\ Goes(<<>>, BehindComment(cur))
-----------------------------------------------------------------------------
(***************************************************************************)
(* Classes and records.                                                    *)
(***************************************************************************)
BlockHead == <<Next_, Verify({"x"}), Next_, Verify(Keywords \cup {"{"}),
               Call("inherits"), Verify({"{"}), Next_>>

Inherits ==
  /\ At("inherits")
  /\ \/ Kind = "inherits" /\ Then(<<Next_, Verify({"x"}), Next_>>)
     \/ Kind \in Keywords \ {"inherits"} /\ Then(<<Next_>>)
     \/ Kind \notin Keywords /\ Then(<<>>)

ClassBlock ==
  /\ At("class")
  /\ Enter("CLASS", <<Verify({"class"})>> \o BlockHead \o <<Call("classMember")>>,
           "class")

(* A token that is none of these is left where it is, and looked at again. *)
ClassMember ==
  /\ At("classMember")
  /\ \/ Kind = "}" /\ Then(<<>>)
     \/ /\ Kind = "public"
        /\ Then(<<Next_, Verify({"{"}), Next_, Call("scopeMember"), Call("classMember")>>)
     \/ Kind = "@" /\ Then(<<Call("flags"), Next_, Call("classMember")>>)
     \/ /\ Kind = "msg"
        /\ Then(<<Call("messageDecl"), Next_, Verify({"{"}), Call("messageBlock"),
                  Next_, Call("classMember")>>)

ClassSpins == At("classMember") /\ Kind \notin {"}", "public", "@", "msg"}
ClassLoop == ClassSpins /\ UNCHANGED vars

MemberVariable == <<Call("variableDef"), Next_, Verify({";"}), Next_>>

ScopeLeavesBrace ==   \* mutant: the brace of the scope is not consumed
  /\ At("scopeMember")
  /\ Then(IF Kind = "}" THEN <<>> ELSE MemberVariable \o <<Call("scopeMember")>>)
ScopeMember ==
  /\ At("scopeMember")
  /\ \/ Kind = "}" /\ Then(<<Next_>>)
     \/ Kind # "}" /\ Then(MemberVariable \o <<Call("scopeMember")>>)

RecordBlock ==
  /\ At("record")
  /\ Enter("RECORD", <<Verify({"record"})>> \o BlockHead \o <<Call("recordMember")>>,
           "record")

RecordMember ==
  /\ At("recordMember")
  /\ \/ Kind = "}" /\ Then(<<>>)
     \/ Kind # "}" /\ Then(MemberVariable \o <<Call("recordMember")>>)
-----------------------------------------------------------------------------
(***************************************************************************)
(* Declarations.                                                           *)
(***************************************************************************)
VariableDef ==
  /\ At("variableDef")
  /\ Enter("VARIABLE_DEFINITION",
           <<Verify({"x"}), Call("variableName"), Next_, Verify({":"}), Next_,
             Verify({"x"})>>, "x")

(* parseVariableName: components and dots; what follows a dot need not be  *)
(* an identifier.                                                          *)
VariableName ==
  /\ At("variableName")
  /\ \/ Peek = "." /\ Then(<<Next_, Next_, Call("nameComponent")>>)
     \/ Peek # "." /\ Then(<<>>)

NameComponentStays ==   \* mutant: the loop does not move on
  /\ At("nameComponent")
  /\ Then(IF Kind = "x" /\ Peek = "." THEN <<Call("nameComponent")>> ELSE <<>>)
NameComponent ==
  /\ At("nameComponent")
  /\ \/ Kind = "x" /\ Peek = "." /\ Then(<<Next_, Next_, Call("nameComponent")>>)
     \/ ~(Kind = "x" /\ Peek = ".") /\ Then(<<>>)

TypeDeclaration ==
  /\ Pending("type")
  /\ Enter("TYPE_DECLARATION", <<Next_, Verify({"x"}), Call("typeDot")>>, "same")

TypeDot ==
  /\ At("typeDot")
  /\ \/ Peek = "." /\ Then(<<Next_, Next_, Verify({"x"}), Call("typeDot")>>)
     \/ Peek # "." /\ Then(<<>>)

MessageParamDecl ==
  /\ At("param")
  /\ Enter("PARAM_DECLARATION",
           <<Verify({"x"}), Next_, Verify({":"}), Call("type")>>, "same")

ReturnDeclaration ==
  /\ At("returns")
  /\ Enter("RETURN_DECLARATION",
           <<Verify({"["}), Call("returnTypes"), Next_, Verify({"]"})>>, "same")

ReturnTypes ==
  /\ At("returnTypes")
  /\ Then(IF Peek = "]" THEN <<>> ELSE <<Call("type"), Call("moreReturnTypes")>>)

(* Types may follow each other with or without a comma. *)
MoreReturnTypes ==
  /\ At("moreReturnTypes")
  /\ \/ Peek = "]" /\ Then(<<>>)
     \/ Peek = "," /\ Then(<<Next_, Call("type"), Call("moreReturnTypes")>>)
     \/ Peek \notin {"]", ","} /\ Then(<<Call("type"), Call("moreReturnTypes")>>)

MessageDecl ==
  /\ At("messageDecl")
  /\ Enter("MESSAGE_DECL",
           <<Verify({"msg"}), Next_, Verify({"x", "("}), Call("messageName"),
             Call("messageParams"), Call("messageReturns")>>, "same")

(* A closure has no name. *)
MessageName ==
  /\ At("messageName")
  /\ Then(IF Kind = "x" THEN <<Next_>> ELSE <<>>)

MessageParams ==
  /\ At("messageParams")
  /\ Then(IF Kind \in {":", "("} THEN <<Next_, Call("messageParam")>> ELSE <<>>)

(* Before a block the cursor goes back by one token, so that the caller's  *)
(* nextToken finds the block.                                              *)
MessageParam ==
  /\ At("messageParam")
  /\ \/ Kind = "{" /\ Goes(<<>>, StepBack(cur))
     \/ Kind = "[" /\ Then(<<>>)
     \/ Kind = ")" /\ Then(<<Next_>>)
     \/ /\ Kind \notin {"{", "[", ")"}
        /\ Then(<<Call("param"), Next_, Call("paramComma"), Call("messageParam")>>)

ParamComma ==
  /\ At("paramComma")
  /\ Then(IF Kind = "," THEN <<Next_>> ELSE <<>>)

MessageReturns ==
  /\ At("messageReturns")
  /\ Then(IF Kind = "[" THEN <<Call("returns"), Verify({"]"})>> ELSE <<>>)

MessageBlock ==
  /\ At("messageBlock")
  /\ Enter("MESSAGE_BLOCK",
           <<Verify({"{"}), Next_, Call("messageStatements"), Verify({"}"})>>, "same")

MessageStatements ==
  /\ At("messageStatements")
  /\ Then(IF Kind = "}" THEN <<>> ELSE <<Call("statements")>>)
-----------------------------------------------------------------------------
(***************************************************************************)
(* Expressions.                                                            *)
(***************************************************************************)
(* A keyword other than return is no expression, and no error either.  An *)
(* expression may have a group for its left hand side that was parsed      *)
(* before it.                                                              *)
Expression(f, message) ==
  /\ At(f)
  /\ \/ Kind = "return" /\ Enter("EXPRESSION", <<Call("returnExpression")>>, "same")
     \/ Kind \in Keywords \ {"return"} /\ Enter("EXPRESSION", <<>>, "null")
     \/ Kind = "(" /\ Enter("EXPRESSION", <<Call("group")>>, "same")
     \/ Kind \notin Keywords \cup {"("} /\ Enter("EXPRESSION", message, "same")

AnyExpression ==
  \/ Expression("expression", <<Call("lhs"), Call("send")>>)
  \/ Expression("expressionOfGroup", <<Call("sendToGroup")>>)

ReturnExpression ==
  /\ Pending("returnExpression")
  /\ Enter("RETURN_EXPRESSION", <<Next_, Call("expression")>>, None)

GroupedExpression ==
  /\ At("group")
  /\ Enter("GROUPED_EXPRESSION",
           <<Verify({"("}), Next_, Call("expression"), Call("closeParen"),
             Verify({")"})>>, "(")

CloseParen ==
  /\ At("closeParen")
  /\ Then(IF Kind # ")" /\ Peek = ")" THEN <<Next_>> ELSE <<>>)

BuildLhsExpression ==
  /\ At("lhs")
  /\ \/ Kind = "7" /\ Then(<<Call("instance")>>)
     \/ Kind = "x" /\ Peek \in Operators \cup {".", "x"} /\ Then(<<Call("instance")>>)
     \/ Kind = "x" /\ Peek = ":" /\ Then(<<Call("variableDef")>>)
     \/ Kind = "x" /\ Peek \notin Operators \cup {".", "x", ":"} /\ Fail
     \/ Kind \notin {"7", "x"} /\ Fail

SendMessage ==
  \/ At("send") /\ Enter("SEND_MESSAGE", <<Next_, Call("message")>>, Kind)
  \/ At("sendToGroup") /\ Enter("SEND_MESSAGE", <<Next_, Call("message")>>, Peek)

Instance ==
  /\ At("instance")
  /\ \/ Kind = "7" /\ Enter("INSTANCE", <<>>, "7")
     \/ Kind = "x" /\ Enter("INSTANCE", <<Call("variableName")>>, "x")
     \/ Kind = "nil" /\ Enter("INSTANCE", <<>>, "nil")
     \/ Kind = "msg" /\ Enter("INSTANCE", <<Call("msgInstance")>>, "msg")

MsgInstance ==
  /\ At("msgInstance")
  /\ Enter("MSG_INSTANCE",
           <<Call("closureContext"), Call("messageDecl"), Verify({"{"}),
             Call("messageBlock")>>, "same")

ClosureContext ==
  /\ At("closureContext")
  /\ \/ Peek = "(" /\ PeekPrev(file, cur) = ":=" /\ Then(<<>>)
     \/ ~(Peek = "(" /\ PeekPrev(file, cur) = ":=") /\ Fail

(* A message that is no operator needs a colon, so it has an argument. *)
Message ==
  /\ At("message")
  /\ Enter("MESSAGE",
           <<Verify(Operators \cup {"x", "(", "@"}), Call("messageColon")>>, "same")

Arguments(f, first, named, group) ==
  [do |-> f, first |-> first, named |-> named, group |-> group]

MessageColon ==
  /\ At("messageColon")
  /\ Then((IF Kind \in Operators THEN <<Next_>> ELSE <<Next_, Verify({":"}), Next_>>)
             \o <<Arguments("argument", TRUE, FALSE, FALSE)>>)

(* What the loop of buildRhsExpression does with an argument: a token      *)
(* followed by an operator, an identifier or, for an identifier, a colon   *)
(* begins an expression; in the last case the expression begins a token    *)
(* earlier.                                                                *)
Argument(args, isGroup) ==
  LET method == Kind = "x" /\ Peek = ":"
      expression == isGroup \/ method \/ Peek \in {"+", "x"}
      call == IF ~expression THEN "instance"
              ELSE IF args.group THEN "expressionOfGroup" ELSE "expression"
  IN Goes(<<Call(call), Arguments("addParam", args.first, args.named,
                                  args.group /\ ~expression)>>,
          IF method THEN StepBack(cur) ELSE cur)

(* One round of the loop.  Keywords that are no argument are skipped. *)
BuildRhsExpression ==
  /\ At("argument")
  /\ LET args == Head(todo)
         unnamed == ~args.first /\ ~args.named /\ Peek # ":"
     IN \/ Kind = ";" /\ Goes(<<>>, StepBack(cur))
        \/ Kind = ")" /\ Then(<<>>)
        \/ /\ Kind = "@"
           /\ Then(<<Next_, Verify({"x"}), Next_, Verify({":"}), Next_,
                     Arguments("argument", args.first, TRUE, args.group)>>)
        \/ Kind = "x" /\ unnamed /\ Throw
        \/ Kind = "x" /\ ~unnamed /\ Argument(args, FALSE)
        \/ Kind \in {"7", "nil", "msg"} /\ Argument(args, FALSE)
        \/ Kind = "(" /\ Argument(args, TRUE)
        \/ Kind \in Keywords \ {"nil", "msg"} /\ Then(<<Next_, args>>)
        \/ Kind \notin Keywords \cup {";", ")", "@", "x", "7", "("} /\ Fail

(* The argument has been parsed: add it, unless there is none, and see     *)
(* whether it was the last.  A group may be what the next one is sent to.  *)
AddParam ==
  /\ At("addParam")
  /\ LET args == Head(todo)
     IN \/ node = "null" /\ Then(<<Next_, Arguments("argument", args.first, args.named, args.group)>>)
        \/ node # "null" /\ Kind = ")" /\ node # "(" /\ Then(<<>>)
        \/ node # "null" /\ Kind = ";" /\ Goes(<<>>, StepBack(cur))
        \/ /\ node # "null" /\ Kind # ";" /\ (Kind = ")" => node = "(")
           /\ Then(<<Next_, Arguments("argument", FALSE, FALSE,
                                      args.group \/ Kind = ")")>>)
-----------------------------------------------------------------------------
(***************************************************************************)
(* Statements.                                                             *)
(***************************************************************************)
Statement ==
  /\ At("statement")
  /\ Enter("STATEMENT",
           (IF Kind = "@" THEN <<Call("flags"), Next_>> ELSE <<>>)
             \o <<Call("statementKind")>>, "same")

EndOfStatement == <<Next_, Verify({";"})>>

(* A closing brace is an empty block if it is next to the opening one. *)
NeverEmpty == FALSE   \* mutant: every statement needs its semicolon
EmptyBlock == PeekPrev(file, cur) = "{"

StatementKind ==
  /\ At("statementKind")
  /\ \/ /\ Kind = "x" /\ saved' = cur
        /\ todo' = <<Next_, Call("definitionOrExpression")>> \o EndOfStatement \o Tail(todo)
        /\ UNCHANGED <<file, cur, stack, node, phase>>
     \/ Kind = "return" /\ Then(<<Call("returnExpression")>> \o EndOfStatement)
     \/ Kind = "(" /\ Then(<<Call("expression")>> \o EndOfStatement)
     \/ /\ Kind = "}" /\ node' = "null"
        /\ todo' = (IF EmptyBlock THEN <<>> ELSE EndOfStatement) \o Tail(todo)
        /\ UNCHANGED <<file, cur, saved, stack, phase>>
     \/ Kind \notin {"x", "return", "(", "}"} /\ Fail

DefinitionOrExpression ==
  /\ At("definitionOrExpression")
  /\ todo' = <<Call(IF Kind = ":" THEN "variableDef" ELSE "expression")>> \o Tail(todo)
  /\ cur' = saved /\ saved' = End(file)
  /\ UNCHANGED <<file, stack, node, phase>>

AnyStatement ==
  <<Call(IF Kind \in {"class", "record"} THEN Kind ELSE "statement"),
    Call("moreStatements")>>

Statements ==
  /\ Pending("statements")
  /\ Enter("STATEMENTS_BLOCK", <<Call("firstStatement")>>, "same")

FirstStatement == At("firstStatement") /\ Then(AnyStatement)

MoreStatements ==
  /\ Pending("moreStatements")
  /\ Then(IF node = "null" THEN <<>> ELSE <<Next_, Call("nextStatement")>>)

NextStatement ==
  /\ At("nextStatement")
  /\ Then(IF Kind = "}" THEN <<>> ELSE AnyStatement)

CompilerFlags ==
  /\ At("flags")
  /\ Enter("COMPILER_FLAGS", <<Verify({"@"}), Next_, Call("flagList")>>, "same")

FlagList ==
  /\ At("flagList")
  /\ \/ Kind = "{" /\ Then(<<>>)
     \/ Kind = "[" /\ Then(<<Next_, Call("flag")>>)
     \/ Kind \notin {"{", "["} /\ Fail

Flag ==
  /\ At("flag")
  /\ \/ Kind \in {"x", ","} /\ Then(<<Next_, Call("flag")>>)
     \/ Kind = "]" /\ Then(<<>>)
     \/ Kind \notin {"x", ",", "]"} /\ Fail
-----------------------------------------------------------------------------
(***************************************************************************)
(* Namespaces, fragments, modules, files.                                  *)
(***************************************************************************)
NamespaceBlock ==
  /\ At("namespace")
  /\ \/ Kind \notin Keywords /\ Enter("NAMESPACE_BLOCK", <<>>, "null")
     \/ /\ Kind \in Keywords
        /\ Enter("NAMESPACE_BLOCK",
                 <<Verify({"namespace"}), Next_, Next_, Verify({"{"}), Next_,
                   Call("namespaceBody")>>, "namespace")

(* A nested or an empty namespace leaves the cursor on the first closing   *)
(* brace; statements end on it, and another one is asked for.              *)
NamespaceBody ==
  /\ At("namespaceBody")
  /\ \/ Kind = "namespace" /\ Then(<<Call("namespace"), Verify({"}"})>>)
     \/ Kind = "}" /\ Then(<<>>)
     \/ /\ Kind \notin {"namespace", "}"}
        /\ Then(<<Call("statements"), Next_, Verify({"}"})>>)

CodeFragmentBlock ==
  /\ At("fragment")
  /\ Enter("CODE_FRAGMENT_BLOCK",
           <<Verify({"{", "@"}), Call("verifyLast"), Call("fragmentFlags"), Next_,
             Call("fragmentBody")>>, "same")

FragmentFlags ==
  /\ At("fragmentFlags")
  /\ Then(IF Kind = "@" THEN <<Call("flags"), Next_, Verify({"{"})>> ELSE <<>>)

FragmentBody ==
  /\ At("fragmentBody")
  /\ \/ Kind = "namespace" /\ Then(<<Call("namespace"), Call("moreNamespaces")>>)
     \/ Kind # "namespace" /\ Then(<<Call("statements")>>)

MoreNamespaces ==
  /\ Pending("moreNamespaces")
  /\ \/ node = "null" /\ Then(<<Call("statements")>>)
     \/ node # "null" /\ Then(<<Next_, Call("nextNamespace")>>)

NextNamespace ==
  /\ Pending("nextNamespace")
  /\ \/ ~HasTokensLeft(file, cur) /\ Then(<<>>)
     \/ At("nextNamespace") /\ Kind = "}" /\ Then(<<Call("statements")>>)
     \/ /\ At("nextNamespace") /\ Kind # "}"
        /\ Then(<<Call("namespace"), Call("moreNamespaces")>>)

ModuleBlock ==
  /\ At("module")
  /\ Enter("MODULE_BLOCK",
           <<Verify({"module"}), Next_, Verify({"x"}), Next_, Call("version"),
             Verify({"{"}), Call("verifyLast"), Call("fragment")>>, "same")

Version ==
  /\ At("version")
  /\ Then(IF Kind = "," THEN <<Next_, Verify({"1.2.3"}), Next_>> ELSE <<>>)

(* start: beginToken, then blocks as long as there are tokens.  A second   *)
(* block replaces the first as the root.                                   *)
Begin == Pending("begin") /\ Goes(IfComment(1) \o <<Call("start")>>, cur)

Start ==
  /\ Pending("start")
  /\ \/ /\ ~HasTokensLeft(file, cur) /\ phase' = "accepted"
        /\ UNCHANGED <<file, cur, saved, stack, todo, node>>
     \/ /\ At("start")
        /\ \/ /\ Kind = "{" \/ (Kind = "@" /\ Peek \in {"{", "["})
              /\ Then(<<Call("fragment"), Call("again")>>)
           \/ Kind = "module" /\ Then(<<Call("module"), Call("again")>>)
           \/ /\ Kind = "program" \/ (Kind = "@" /\ Peek \notin {"{", "["})
              /\ Then(<<Call("again")>>)
           \/ Kind \notin {"{", "@", "module", "program"} /\ Throw

AgainNever ==   \* mutant: the rest of the file is not looked at
  /\ Pending("again") /\ phase' = "accepted"
  /\ UNCHANGED <<file, cur, saved, stack, todo, node>>
Again ==
  /\ Pending("again")
  /\ \/ /\ cur + 1 < End(file)
        /\ Goes(IfComment(cur + 1) \o <<Call("start")>>, cur + 1)
     \/ /\ cur + 1 >= End(file) /\ phase' = "accepted"
        /\ UNCHANGED <<file, cur, saved, stack, todo, node>>
-----------------------------------------------------------------------------
Cursor == NextToken \/ LineComment \/ BlockComment \/ VerifyTokenOrFail \/ VerifyLastToken
Types == ClassBlock \/ ClassMember \/ ClassLoop \/ ScopeMember \/ RecordBlock
           \/ RecordMember \/ Inherits
Declarations ==
  \/ VariableDef \/ VariableName \/ NameComponent \/ TypeDeclaration \/ TypeDot
  \/ MessageParamDecl \/ ReturnDeclaration \/ ReturnTypes \/ MoreReturnTypes
  \/ MessageDecl \/ MessageName \/ MessageParams \/ MessageParam \/ ParamComma
  \/ MessageReturns \/ MessageBlock \/ MessageStatements
Expressions ==
  \/ AnyExpression \/ ReturnExpression \/ GroupedExpression \/ CloseParen
  \/ BuildLhsExpression \/ SendMessage \/ Instance \/ MsgInstance \/ ClosureContext
  \/ Message \/ MessageColon \/ BuildRhsExpression \/ AddParam
Blocks ==
  \/ Statement \/ StatementKind \/ DefinitionOrExpression \/ Statements
  \/ FirstStatement \/ MoreStatements \/ NextStatement \/ CompilerFlags \/ FlagList
  \/ Flag \/ NamespaceBlock \/ NamespaceBody \/ CodeFragmentBlock \/ FragmentFlags
  \/ FragmentBody \/ MoreNamespaces \/ NextNamespace \/ ModuleBlock \/ Version
  \/ Begin \/ Start \/ Again

Next == LeaveGuard \/ Caught \/ ReadPastEnd \/ Cursor \/ Types \/ Declarations
          \/ Expressions \/ Blocks

Spec == Init /\ [][Next]_vars

(* The parser runs on one thread and waits for nothing. *)
FairSpec == Spec /\ WF_vars(Next)
-----------------------------------------------------------------------------
Ended == phase \in {"failed", "accepted", "fault", "crashed", "terminated"}

TypeOK ==
  /\ file \in Seq(Kinds)
  /\ cur \in 1 .. End(file) /\ saved \in 1 .. End(file)
  /\ \A i \in DOMAIN stack : stack[i] \in States \cup {"NONE", "ERROR"}
  /\ node \in Kinds \cup {None, "null"}
  /\ phase \in {"parsing", "unwinding", "failed", "accepted", "fault",
                "crashed", "terminated"}

(* Every way out of every function leaves the stack of states as the guard *)
(* of the function expects it, errors included: no destructor throws       *)
(* (~ParseStateGuard calls error()).                                       *)
GuardsNeverThrow == phase # "terminated"

(***************************************************************************)
(* Braces.  Four shapes make the parser miscount: namespaces share closing *)
(* braces; an "@" before a brace takes it for the start of flags; whatever *)
(* follows a dot is taken for a name; and nextToken is called behind a     *)
(* method that has no return type and no colon, or parentheses, so that    *)
(* the brace it skips is made up for by a second one.  Plain files have    *)
(* none of these: a block does not begin with a block, nor right behind    *)
(* one it is not within.                                                   *)
(***************************************************************************)
Braces == {"{", "}"}
Nesting(n) == Cardinality({i \in 1 .. n : file[i] = "{"})
                - Cardinality({i \in 1 .. n : file[i] = "}"})
Closes(p, q) ==
  /\ file[p] = "{" /\ file[q] = "}"
  /\ Nesting(q) = Nesting(p) - 1
  /\ \A i \in p .. q - 1 : Nesting(i) >= Nesting(p)
Balanced ==
  Nesting(Len(file)) = 0 /\ \A n \in DOMAIN file : Nesting(n) >= 0
Plain ==
  \A i \in DOMAIN file :
    /\ file[i] # "namespace"
    /\ file[i] \in {"@", "."} => PeekNext(file, i) \notin Braces \cup {"#", "#{"}
    /\ \A j \in i + 1 .. Len(file) :
         /\ file[i] \in Braces /\ file[j] = "{"
         /\ \A k \in i + 1 .. j - 1 : file[k] \in {"#", "#{", "}#"}
         => Nesting(i) = 0

(* A class, a record or the block of a message ends at the brace that      *)
(* closes its own first brace, whatever is nested in it.                   *)
BlocksEndAtTheirBrace ==
  /\ Pending("leave") /\ Head(todo).state \in {"CLASS", "RECORD", "MESSAGE_BLOCK"}
  /\ Plain
  => \E p \in Head(todo).from .. cur :
       /\ Closes(p, cur)
       /\ \A i \in Head(todo).from .. p - 1 : file[i] # "{"

(* Nothing behind the braces of a file that is accepted, and none missing. *)
AcceptedIsBalanced == phase = "accepted" /\ Plain => Balanced

(* Callers of nextToken read the current token without asking whether      *)
(* there is one, and an error before the first block pops an empty stack.  *)
(* A file that ends with a brace and whose braces balance gets the parser  *)
(* to neither, but for a closing brace behind a comment or behind flags,   *)
(* which is not taken for the end of an empty block, and for a block       *)
(* comment without its text or its end.                                    *)
OddComment ==
  \E i \in DOMAIN file :
    \/ file[i] = "}" /\ PeekPrev(file, i) \in {"#", "}#", "]"}
    \/ file[i] = "#{" /\ (PeekNext(file, i) # "#" \/ PeekNext(file, i + 1) # "}#")
UndefinedMeansUnbalanced ==
  phase \in {"fault", "crashed"} /\ Plain =>
    ~Balanced \/ LastToken(file) # "}" \/ OddComment

(* A parse ends, with a root or an error, but for two loops that do not    *)
(* consume what they look at: the members of a class, and a keyword before *)
(* a named argument.                                                       *)
RepeatsArgument ==
  /\ At("argument") /\ Kind = "x" /\ Peek = ":"
  /\ PeekPrev(file, cur) \in Keywords \ {"return"}
ParseEnds == <>Ended \/ []<>(ClassSpins \/ RepeatsArgument)
=============================================================================
