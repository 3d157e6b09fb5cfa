----------------------------- MODULE LexerProofs -----------------------------
(***************************************************************************)
(* Proofs about module Lexer, for all files: type correctness, the         *)
(* invariant of the state stack, the two properties that say that the      *)
(* lexer loses and misplaces no character, the line counter, that the text *)
(* of every token is one its type allows, where line comments end, and     *)
(* that no character is processed again and again.                         *)
(***************************************************************************)
EXTENDS Lexer, SequenceTheorems, TLAPS
-----------------------------------------------------------------------------
(* The stacks of the automaton. *)

(* No punctuation state has the name of one of the other states. *)
LEMMA SingleStatesApart ==
  ASSUME NEW s \in SingleStates
  PROVE  s \notin {"NONE", "WHITESPACE", "A_Z", "A_Z_DIGIT", "STRING",
                   "COLON", "ASSIGNMENT", "EQUALS_SIGN", "COMMENTS",
                   "COMMENT_OPEN_BRACE", "COMMENT_CLOSE_BRACE"}
                    \cup NumberStates
BY DEF SingleStates, SingleState, NumberStates

(* popState takes the top off a stack of more than one state. *)
LEMMA PopAppend ==
  ASSUME NEW S, NEW stk \in Seq(S), stk # <<>>, NEW s \in S
  PROVE  Pop(Append(stk, s)) = stk
BY AppendProperties DEF Pop

(* What lies below a state is a stack of states. *)
LEMMA BelowType ==
  ASSUME NEW s \in States
  PROVE  Below(s) \in Seq(States) /\ Below(s) # <<>>
<1>1. {"NONE", "A_Z", "DIGIT", "DECIMAL_DIGIT", "COLON"} \subseteq States
  BY DEF States, NumberStates
<1>2. /\ <<"NONE", "A_Z">> \in Seq(States) /\ <<"NONE", "DIGIT">> \in Seq(States)
      /\ <<"NONE", "COLON">> \in Seq(States) /\ <<"NONE">> \in Seq(States)
      /\ <<"NONE", "DIGIT", "DECIMAL_DIGIT">> \in Seq(States)
  BY <1>1
<1> QED BY <1>2 DEF Below

(* A legal stack is a stack of states with its own state on top. *)
LEMMA LegalStackType ==
  ASSUME NEW s \in States
  PROVE  /\ LegalStack(s) \in Seq(States) /\ LegalStack(s) # <<>>
         /\ Last(LegalStack(s)) = s
<1>1. CASE s = "NONE"
  BY <1>1 DEF LegalStack, Last
<1>2. CASE s # "NONE"
  <2>1. Below(s) \in Seq(States)
    BY BelowType
  <2>2. LegalStack(s) = Append(Below(s), s)
    BY <1>2 DEF LegalStack
  <2> QED BY <2>1, <2>2, AppendProperties DEF Last
<1> QED BY <1>1, <1>2

(* Popping a legal stack uncovers what lies below its state. *)
LEMMA PopLegal ==
  ASSUME NEW s \in States
  PROVE  /\ s # "NONE" => Pop(LegalStack(s)) = Below(s)
         /\ s = "NONE" => Pop(LegalStack(s)) = LegalStack("NONE")
<1>1. CASE s = "NONE"
  BY <1>1 DEF LegalStack, Pop
<1>2. CASE s # "NONE"
  BY <1>2, BelowType, PopAppend DEF LegalStack
<1> QED BY <1>1, <1>2

(* The stacks processCharacter builds by pushing are legal ones. *)
LEMMA PushLegal ==
  ASSUME NEW s \in States, NEW t \in States, t # "NONE",
         LegalStack(s) = Below(t)
  PROVE  Append(LegalStack(s), t) = LegalStack(t)
BY DEF LegalStack

(* What lies below the states of a longer token is the legal stack of the  *)
(* state the token was in before.                                          *)
LEMMA BelowIsLegal ==
  /\ Below("A_Z_DIGIT") = LegalStack("A_Z")
  /\ \A s \in {"DECIMAL_DIGIT", "HEXADECIMAL_DIGIT", "BINARY_DIGIT"} :
       Below(s) = LegalStack("DIGIT")
  /\ Below("VERSION_DIGIT") = LegalStack("DECIMAL_DIGIT")
  /\ Below("ASSIGNMENT") = LegalStack("COLON")
  /\ \A s \in States \ {"A_Z_DIGIT", "DECIMAL_DIGIT", "HEXADECIMAL_DIGIT",
                         "BINARY_DIGIT", "VERSION_DIGIT", "ASSIGNMENT"} :
       Below(s) = LegalStack("NONE")
<1>1. /\ LegalStack("A_Z") = Append(<<"NONE">>, "A_Z")
      /\ LegalStack("DIGIT") = Append(<<"NONE">>, "DIGIT")
      /\ LegalStack("COLON") = Append(<<"NONE">>, "COLON")
      /\ LegalStack("DECIMAL_DIGIT") = Append(<<"NONE", "DIGIT">>, "DECIMAL_DIGIT")
  BY DEF LegalStack, Below
<1> QED BY <1>1 DEF Below, LegalStack
-----------------------------------------------------------------------------
(* Type correctness. *)

TokenRecord == [type : Types, start : Nat, end : Nat, line : Nat]
Lexeme == [start : Nat, end : Nat]

(* The state of a call of processCharacter: a character is left. *)
Busy == TypeOK /\ phase = "lexing" /\ chIndex < Len(text)

(* Inside the text the current character is the one at chIndex, and the    *)
(* previous one the one before it.                                         *)
LEMMA CharIsText ==
  ASSUME TypeOK, chIndex < Len(text)
  PROVE  /\ Ch = text[chIndex + 1] /\ Ch \in Chars
         /\ chIndex > 0 => CurrentCh(-1) = text[chIndex]
BY DEF Ch, CurrentCh, PosFromOffset, TypeOK

(* popState leaves a stack that is not empty. *)
LEMMA PopType ==
  ASSUME NEW stk \in Seq(States), stk # <<>>
  PROVE  Pop(stk) \in Seq(States) /\ Pop(stk) # <<>>
<1>1. CASE Len(stk) <= 1
  BY <1>1 DEF Pop, States
<1>2. CASE Len(stk) > 1
  <2>1. \A i \in 1 .. (Len(stk) - 1) : stk[i] \in States
    OBVIOUS
  <2>2. Len(stk) - 1 \in Nat /\ 1 <= Len(stk) - 1
    BY <1>2
  <2> DEFINE p == SubSeq(stk, 1, Len(stk) - 1)
  <2>3. p \in Seq(States) /\ Len(p) = Len(stk) - 1
    BY <2>1, <2>2, SubSeqProperties
  <2> HIDE DEF p
  <2>4. p # <<>>
    BY <2>2, <2>3, EmptySeq
  <2> USE DEF p
  <2> QED BY <1>2, <2>3, <2>4 DEF Pop
<1> QED BY <1>1, <1>2

(* processToken leaves a stack that is not empty. *)
LEMMA AfterTokenType ==
  ASSUME NEW stk \in Seq(States), stk # <<>>, NEW s
  PROVE  AfterToken(s, stk) \in Seq(States) /\ AfterToken(s, stk) # <<>>
<1>1. <<"NONE">> \in Seq(States) /\ <<"NONE">> # <<>>
  BY DEF States
<1>2. /\ Pop(stk) \in Seq(States) /\ Pop(stk) # <<>>
      /\ Pop(Pop(stk)) \in Seq(States) /\ Pop(Pop(stk)) # <<>>
  BY PopType
<1> QED BY <1>1, <1>2 DEF AfterToken

(* The state on top is a state. *)
LEMMA LastType ==
  ASSUME NEW stk \in Seq(States), stk # <<>>
  PROVE  Last(stk) \in States
BY EmptySeq DEF Last

(* Every state and lexeme gives a token type. *)
LEMMA TokenTypeType == \A s, lx : TokenType(s, lx) \in Types
<1>1. \A lx : WordType(lx) \in {"BOOLEAN_LITERAL", "KEYWORD", "IDENTIFIER"}
  BY DEF WordType
<1> QED BY <1>1 DEF TokenType, Types

(* addToken keeps the types of the tokens and the lexeme. *)
LEMMA AddTokenType ==
  ASSUME TypeOK, NEW lx \in Lexeme, NEW stk, AddToken(lx, stk)
  PROVE  tokens' \in Seq(TokenRecord) /\ lastType' \in Types /\ lexeme' \in Lexeme
<1>1. Token(Last(stk), lx) \in TokenRecord
  BY TokenTypeType DEF Token, TokenRecord, Lexeme, TypeOK
<1>2. tokens \in Seq(TokenRecord)
  BY DEF TypeOK, TokenRecord
<1> QED BY <1>1, <1>2, TokenTypeType DEF AddToken, NoLexeme, Lexeme

(* An extended lexeme is a lexeme. *)
LEMMA ExtendedType ==
  ASSUME TypeOK
  PROVE  Extended \in Lexeme
<1>1. lexeme \in Lexeme /\ chIndex \in Nat /\ chIndex + 1 \in Nat
  BY DEF TypeOK, Lexeme
<1>2. [lexeme EXCEPT !.end = @ + 1] \in Lexeme
  BY <1>1 DEF Lexeme
<1> QED BY <1>1, <1>2 DEF Extended, Lexeme

(* Every outcome of a call of processCharacter keeps the types. *)
LEMMA OutcomeTypes ==
  ASSUME Busy, NEW stk \in Seq(States), stk # <<>>,
         \/ Take(stk) \/ Reprocess(stk) \/ Skip(stk) \/ SkipSpace(stk)
         \/ EmitAndDrop \/ EmitAndReprocess \/ EmitBefore \/ TakeAndEmit(stk)
         \/ Fail
  PROVE  TypeOK'
<1> USE DEF Busy
<1>1. chIndex + 1 \in 0 .. Len(text) /\ chIndex \in Nat
  BY DEF TypeOK
<1>2. stack \in Seq(States) /\ stack # <<>> /\ lexeme \in Lexeme
  BY DEF TypeOK, Lexeme
<1>3. /\ AfterToken(Last(stack), stack) \in Seq(States)
      /\ AfterToken(Last(stack), stack) # <<>>
      /\ AfterToken(Last(stk), stk) \in Seq(States)
      /\ AfterToken(Last(stk), stk) # <<>>
  BY <1>2, AfterTokenType
<1>a. CASE Take(stk)
  BY <1>a, <1>1, ExtendedType
  DEF Take, Consume, tokenVars, lineVars, fileVars, TypeOK, Lexeme
<1>b. CASE Reprocess(stk)
  BY <1>b DEF Reprocess, tokenVars, lineVars, fileVars, TypeOK
<1>c. CASE Skip(stk)
  BY <1>c, <1>1 DEF Skip, Consume, tokenVars, lineVars, fileVars, TypeOK
<1>d. CASE SkipSpace(stk)
  <2>0. newLines \in Seq(Nat) /\ line \in Nat
    BY DEF TypeOK
  <2>1. newLines' \in Seq(Nat) /\ line' \in Nat
    <3>1. Append(newLines, chIndex) \in Seq(Nat) /\ line + 1 \in Nat
      BY <1>1, <2>0, AppendProperties
    <3> QED BY <1>d, <2>0, <3>1 DEF SkipSpace, CountNewLine, lineVars
  <2> QED
    BY <1>d, <1>1, <2>1 DEF SkipSpace, Consume, tokenVars, fileVars, TypeOK
<1>e. CASE EmitAndDrop
  BY <1>e, <1>1, <1>2, <1>3, AddTokenType
  DEF EmitAndDrop, Consume, lineVars, fileVars, TypeOK, TokenRecord, Lexeme
<1>f. CASE EmitAndReprocess
  BY <1>f, <1>1, <1>2, <1>3, AddTokenType
  DEF EmitAndReprocess, lineVars, fileVars, TypeOK, TokenRecord, Lexeme
<1>g. CASE EmitBefore
  BY <1>e, <1>f, <1>g DEF EmitBefore
<1>h. CASE TakeAndEmit(stk)
  BY <1>h, <1>1, <1>3, ExtendedType, AddTokenType
  DEF TakeAndEmit, Consume, lineVars, fileVars, TypeOK, TokenRecord, Lexeme
<1>i. CASE Fail
  <2>1. <<"NONE">> \in Seq(States) /\ <<"NONE">> # <<>>
    BY DEF States
  <2> QED
    BY <1>i, <2>1 DEF Fail, tokenVars, lineVars, TypeOK
<1> QED BY <1>a, <1>b, <1>c, <1>d, <1>e, <1>f, <1>g, <1>h, <1>i

(* A pushed stack is a stack. *)
LEMMA PushType ==
  ASSUME TypeOK, NEW s \in States
  PROVE  Push(s) \in Seq(States) /\ Push(s) # <<>>
<1>1. stack \in Seq(States)
  BY DEF TypeOK
<1> QED BY <1>1, AppendProperties DEF Push

(* The state a character leads to from NONE is a state. *)
LEMMA StartStateType ==
  ASSUME NEW ch \in Alpha \cup Digit \cup Single \cup {"=", ":"}
  PROVE  StartState(ch) \in States
<1>1. CASE ch \in Alpha
  BY <1>1 DEF StartState, Alpha, Digit, States
<1>2. CASE ch \in Digit
  BY <1>2 DEF StartState, Alpha, Digit, States, NumberStates
<1>3. CASE ch \in {"=", ":"}
  BY <1>3 DEF StartState, Alpha, Digit, States
<1>4. CASE ch \in Single
  <2>1. StartState(ch) = SingleState(ch)
    BY <1>4 DEF StartState, Alpha, Digit, Single, Operators, Brackets
  <2> QED BY <1>4, <2>1 DEF SingleStates, States
<1> QED BY <1>1, <1>2, <1>3, <1>4

(* processCharacter keeps the types, whatever the state. *)
LEMMA ScanTypes == ASSUME TypeOK, ProcessCharacter PROVE TypeOK'
<1>1. Busy
  BY DEF Busy, ProcessCharacter, Scanning, ScanNone, ScanWhitespace, ScanWord,
         ScanWordDigit, ScanDigit, ScanDecimal, ScanVersion, ScanHex,
         ScanBinary, ScanString, ScanSingle, ScanColon, ScanAssignment,
         ScanComments, ScanCommentClose, ScanUnhandled
<1>2. stack \in Seq(States) /\ stack # <<>> /\ Pop(stack) \in Seq(States) /\ Pop(stack) # <<>>
  BY PopType DEF TypeOK
<1>3. \A s \in States : Push(s) \in Seq(States) /\ Push(s) # <<>>
  BY PushType
<1>4. {"WHITESPACE", "STRING", "COMMENTS", "A_Z_DIGIT", "ASSIGNMENT",
       "COMMENT_OPEN_BRACE", "COMMENT_CLOSE_BRACE"} \cup NumberStates \subseteq States
  BY DEF States
<1>a. CASE ScanNone
  BY <1>a, <1>1, <1>3, <1>4, StartStateType, OutcomeTypes DEF ScanNone
<1>b. CASE ScanWhitespace
  BY <1>b, <1>1, <1>2, OutcomeTypes DEF ScanWhitespace
<1>c. CASE ScanWord \/ ScanWordDigit
  BY <1>c, <1>1, <1>2, <1>3, <1>4, OutcomeTypes DEF ScanWord, ScanWordDigit
<1>d. CASE ScanDigit \/ ScanDecimal
  BY <1>d, <1>1, <1>2, <1>3, <1>4, OutcomeTypes
  DEF ScanDigit, ScanDecimal, NumberStates
<1>e. CASE ScanVersion \/ ScanHex \/ ScanBinary
  BY <1>e, <1>1, <1>2, OutcomeTypes DEF ScanVersion, ScanHex, ScanBinary
<1>f. CASE ScanString \/ ScanSingle \/ ScanCommentClose \/ ScanUnhandled
  BY <1>f, <1>1, <1>2, OutcomeTypes
  DEF ScanString, ScanSingle, ScanCommentClose, ScanUnhandled
<1>g. CASE ScanColon
  <2>1. CASE Ch = "=" /\ lexeme' = Extended /\ stack' = Push("ASSIGNMENT")
             /\ UNCHANGED <<chIndex, tokenVars, lineVars, fileVars>>
    BY <2>1, <1>3, <1>4, ExtendedType
    DEF tokenVars, lineVars, fileVars, TypeOK, Lexeme
  <2> QED BY <1>g, <1>1, <1>2, <2>1, OutcomeTypes DEF ScanColon
<1>h. CASE ScanAssignment
  BY <1>h, <1>1, <1>2, OutcomeTypes DEF ScanAssignment
<1>i. CASE ScanComments
  <2>1. CASE CommentStart /\ TakeAndEmit(Push("COMMENT_OPEN_BRACE"))
    BY <2>1, <1>1, <1>3, <1>4, OutcomeTypes
  <2>2. CASE /\ tokens' = Append(tokens, Token("COMMENTS", lexeme))
             /\ lastType' = "COMMENT"
             /\ stack' = Append(Pop(stack), "COMMENT_CLOSE_BRACE")
             /\ lexeme' = [start |-> chIndex, end |-> chIndex + 1]
             /\ Consume
             /\ UNCHANGED <<lineVars, fileVars>>
    <3>1. Token("COMMENTS", lexeme) \in TokenRecord
      BY TokenTypeType DEF Token, TokenRecord, TypeOK
    <3>2. tokens' \in Seq(TokenRecord)
      BY <2>2, <3>1, AppendProperties DEF TypeOK, TokenRecord
    <3>3. stack' \in Seq(States) /\ stack' # <<>>
      BY <2>2, <1>2, <1>4, AppendProperties
    <3>4. lexeme' \in [start : Nat, end : Nat] /\ lastType' \in Types
      BY <1>1, <2>2 DEF Busy, TypeOK, Types
    <3>5. /\ chIndex' \in 0 .. Len(text) /\ UNCHANGED <<text, files, phase>>
          /\ UNCHANGED <<line, newLines>>
      BY <1>1, <2>2 DEF Busy, Consume, lineVars, fileVars, TypeOK
    <3> QED BY <3>2, <3>3, <3>4, <3>5 DEF TypeOK, TokenRecord
  <2>3. CASE EmitAndDrop \/ Take(stack)
    BY <2>3, <1>1, <1>2, OutcomeTypes
  <2> QED BY <1>i, <2>1, <2>2, <2>3 DEF ScanComments
<1> QED
  BY <1>a, <1>b, <1>c, <1>d, <1>e, <1>f, <1>g, <1>h, <1>i DEF ProcessCharacter

(* Every step keeps the types. *)
LEMMA TypeStep == ASSUME TypeOK, [Next]_vars PROVE TypeOK'
<1>1. <<"NONE">> \in Seq(States) /\ <<"NONE">> # <<>>
  BY DEF States
<1>2. ASSUME NEW f \in Filenames, NEW t \in Texts, Lex(f, t) PROVE TypeOK'
  BY <1>1, <1>2, LexerAssumption DEF Lex, Clear, TypeOK, NoLexeme
<1>3. ASSUME NEW f \in Filenames, LexDuplicate(f) PROVE TypeOK'
  BY <1>1, <1>3 DEF LexDuplicate, Clear, TypeOK, NoLexeme
<1>4. CASE LexUnreadable
  BY <1>1, <1>4 DEF LexUnreadable, Fail, tokenVars, lineVars, TypeOK
<1>5. CASE ProcessCharacter
  BY <1>5, ScanTypes
<1>6. CASE EndOfText
  BY <1>6 DEF EndOfText, tokenVars, lineVars, TypeOK
<1>7. CASE UNCHANGED vars
  BY <1>7 DEF vars, TypeOK
<1> QED BY <1>2, <1>3, <1>4, <1>5, <1>6, <1>7 DEF Next

(* Types are correct, for all files and keywords. *)
THEOREM TypeCorrect == Spec => []TypeOK
<1>1. Init => TypeOK
  BY DEF Init, TypeOK, NoLexeme, States, Types
<1>2. TypeOK /\ [Next]_vars => TypeOK'
  BY TypeStep
<1> QED BY <1>1, <1>2, PTL DEF Spec
-----------------------------------------------------------------------------
(* What a call of processCharacter comes to when the stack is legal.       *)

LiveStates == States \ {"COMMENT_OPEN_BRACE"}

(* A token leaves a legal stack at the bottom, or in the comment that      *)
(* "#{" opened.                                                            *)
LEMMA AfterTokenLegal ==
  /\ \A s \in LiveStates \ {"NONE"} :
       AfterToken(s, LegalStack(s)) = LegalStack("NONE")
  /\ AfterToken("COMMENT_OPEN_BRACE", Append(LegalStack("COMMENTS"), "COMMENT_OPEN_BRACE"))
       = LegalStack("COMMENTS")
<1>1. ASSUME NEW s \in LiveStates \ {"NONE"}
      PROVE  AfterToken(s, LegalStack(s)) = LegalStack("NONE")
  <2>0. s \in States /\ LegalStack("NONE") = <<"NONE">>
    BY DEF LiveStates, LegalStack
  <2>1. Pop(LegalStack(s)) = Below(s)
    BY <2>0, PopLegal
  <2>2. CASE s \in Clears
    BY <2>0, <2>2 DEF AfterToken
  <2>3. CASE s \in {"DECIMAL_DIGIT", "HEXADECIMAL_DIGIT", "BINARY_DIGIT",
                   "A_Z_DIGIT", "ASSIGNMENT"}
    <3>1. PICK t \in {"DIGIT", "A_Z", "COLON"} : Below(s) = LegalStack(t)
      BY <2>3, BelowIsLegal
    <3>2. t \in States /\ t # "NONE"
      BY DEF States, NumberStates
    <3>3. Pop(LegalStack(t)) = Below(t)
      BY <3>2, PopLegal
    <3>4. Below(t) = LegalStack("NONE")
      BY <3>2, BelowIsLegal
    <3> QED BY <2>1, <2>3, <3>1, <3>3, <3>4 DEF AfterToken, Clears, PopsTwice
  <2>4. CASE s \notin Clears \cup {"DECIMAL_DIGIT", "HEXADECIMAL_DIGIT",
                                  "BINARY_DIGIT", "A_Z_DIGIT", "ASSIGNMENT"}
    <3>1. Below(s) = LegalStack("NONE")
      BY <2>0, <2>4, BelowIsLegal DEF Clears
    <3>2. Pop(LegalStack("NONE")) = LegalStack("NONE")
      BY PopLegal DEF States
    <3> QED BY <2>1, <2>4, <3>1, <3>2 DEF AfterToken
  <2> QED BY <2>2, <2>3, <2>4
<1>2. AfterToken("COMMENT_OPEN_BRACE", Append(LegalStack("COMMENTS"), "COMMENT_OPEN_BRACE"))
        = LegalStack("COMMENTS")
  <2>1. "COMMENTS" \in States /\ "COMMENT_OPEN_BRACE" \in States
    BY DEF States
  <2>2. LegalStack("COMMENTS") \in Seq(States) /\ LegalStack("COMMENTS") # <<>>
    BY <2>1, LegalStackType
  <2> QED BY <2>1, <2>2, PopAppend DEF AfterToken, Clears, PopsTwice
<1> QED BY <1>1, <1>2

InAssignment == Last(stack) = "ASSIGNMENT"

(* The outcomes, with the state they lead to. *)
Taken ==
  \E t \in LiveStates \ {"NONE", "WHITESPACE", "ASSIGNMENT"} :
    Take(LegalStack(t)) /\ (t = "COLON" => Ch = ":")
Reprocessed ==
  \E t \in LiveStates \ {"ASSIGNMENT"} :
    /\ Reprocess(LegalStack(t))
    /\ t # "A_Z_DIGIT" => lexeme = NoLexeme
    /\ t = "COLON" => Ch = ":"
Skipped ==
  /\ Ch \in Dropped /\ lexeme = NoLexeme
  /\ \E t \in LiveStates \ {"COLON", "ASSIGNMENT"} :
       Skip(LegalStack(t)) \/ SkipSpace(LegalStack(t))
EmittedBefore ==
  /\ EmitAndDrop \/ (EmitAndReprocess /\ ~InAssignment)
  /\ stack' = LegalStack("NONE")
  /\ EmitAndDrop => Ch \in Dropped \/ InAssignment
EmittedAfter ==
  \E stk \in Seq(States) :
    /\ TakeAndEmit(stk)
    /\ stack' \in {LegalStack("NONE"), LegalStack("COMMENTS")}
AssignmentFound ==
  /\ Last(stack) = "COLON" /\ Ch = "=" /\ lexeme # NoLexeme /\ AfterColon
  /\ lexeme' = Extended /\ stack' = LegalStack("ASSIGNMENT")
  /\ UNCHANGED <<chIndex, tokenVars, lineVars, fileVars>>
CommentClosed ==
  /\ tokens' = Append(tokens, Token("COMMENTS", lexeme))
  /\ stack' = LegalStack("COMMENT_CLOSE_BRACE")
  /\ lexeme' = [start |-> chIndex, end |-> chIndex + 1]
  /\ Consume
  /\ UNCHANGED <<lineVars, fileVars>>

Outcome ==
  \/ EmittedBefore
  \/ /\ ~InAssignment
     /\ \/ Taken \/ Reprocessed \/ Skipped \/ EmittedAfter
        \/ AssignmentFound \/ CommentClosed \/ Fail

(* The stack is the legal one of its top, so what a state pushes is the    *)
(* legal stack of the state pushed.                                        *)
LEMMA StackFacts ==
  ASSUME Busy, ScanInvariant
  PROVE  /\ stack = LegalStack(Last(stack)) /\ Last(stack) \in LiveStates
         /\ \A s, t \in States :
              Last(stack) = s /\ t # "NONE" /\ LegalStack(s) = Below(t)
                => Push(t) = LegalStack(t)
         /\ Last(stack) # "NONE" =>
              AfterToken(Last(stack), stack) = LegalStack("NONE")
<1>1. stack = LegalStack(Last(stack)) /\ Last(stack) \in LiveStates
  BY DEF Busy, ScanInvariant, StackIsLegal, LiveStates
<1>2. ASSUME NEW s \in States, NEW t \in States, Last(stack) = s, t # "NONE",
             LegalStack(s) = Below(t)
      PROVE  Push(t) = LegalStack(t)
  BY <1>1, <1>2, PushLegal DEF Push
<1>3. Last(stack) # "NONE" =>
        AfterToken(Last(stack), stack) = LegalStack("NONE")
  BY <1>1, AfterTokenLegal
<1> QED BY <1>1, <1>2, <1>3

(* A token ended by the character before is one of the outcomes. *)
LEMMA EmitBeforeOutcome ==
  ASSUME Busy, ScanInvariant, Last(stack) # "NONE", EmitBefore, ~InAssignment
  PROVE  Outcome
<1>1. AfterToken(Last(stack), stack) = LegalStack("NONE")
  BY StackFacts
<1>2. stack' = LegalStack("NONE")
  BY <1>1 DEF EmitBefore, EmitAndDrop, EmitAndReprocess
<1>3. ~(EmitAndReprocess /\ EmitAndDrop)
  BY DEF EmitAndReprocess, EmitAndDrop, Consume, Busy, TypeOK
<1> QED
  BY <1>2, <1>3 DEF EmitBefore, Outcome, EmittedBefore, Dropped

(* Taking a character into a new state is one of the outcomes. *)
LEMMA TakeOutcome ==
  ASSUME Busy, ScanInvariant, ~InAssignment,
         NEW t \in LiveStates \ {"NONE", "WHITESPACE", "ASSIGNMENT"},
         Take(LegalStack(t)), t = "COLON" => Ch = ":"
  PROVE  Outcome
BY DEF Outcome, Taken

(* Taking a character without leaving the state. *)
LEMMA TakeHereOutcome ==
  ASSUME Busy, ScanInvariant,
         Last(stack) \notin {"NONE", "WHITESPACE", "ASSIGNMENT"},
         Take(stack), Last(stack) = "COLON" => Ch = ":"
  PROVE  Outcome
<1>1. stack = LegalStack(Last(stack)) /\ Last(stack) \in LiveStates
  BY StackFacts
<1>2. ~InAssignment
  BY DEF InAssignment
<1> HIDE DEF LiveStates
<1>3. PICK t \in LiveStates : t = Last(stack)
  BY <1>1
<1> QED BY <1>1, <1>2, <1>3, TakeOutcome

(* An error is one of the outcomes. *)
LEMMA FailOutcome ==
  ASSUME Fail, ~InAssignment PROVE Outcome
BY DEF Outcome

(* From NONE a character leads to a state of its own: COLON only for a     *)
(* ":".                                                                    *)
LEMMA StartsAt ==
  ASSUME NEW ch \in Alpha \cup Digit \cup Single \cup {"=", ":"}
  PROVE  /\ StartState(ch) \in {"A_Z", "DIGIT", "EQUALS_SIGN", "COLON"} \cup SingleStates
         /\ StartState(ch) = "COLON" => ch = ":"
<1>1. CASE ch \in Alpha \cup Digit \cup {"=", ":"}
  BY <1>1 DEF StartState, Alpha, Digit
<1>2. CASE ch \in Single
  <2>1. StartState(ch) = SingleState(ch)
    BY <1>2 DEF StartState, Alpha, Digit, Single, Operators, Brackets
  <2>2. SingleState(ch) \in SingleStates
    BY <1>2 DEF SingleStates
  <2> QED BY <2>1, <2>2, SingleStatesApart
<1> QED BY <1>1, <1>2

(* The states between two tokens. *)
LEMMA NoneOutcome ==
  ASSUME Busy, ScanInvariant, ScanNone PROVE Outcome
<1>1. /\ Last(stack) = "NONE" /\ ~InAssignment /\ lexeme = NoLexeme
  BY DEF ScanNone, Scanning, InAssignment, ScanInvariant, Busy
<1>2. \A t \in States : t # "NONE" /\ Below(t) = LegalStack("NONE")
        => Push(t) = LegalStack(t)
  BY <1>1, StackFacts DEF States
<1>3. \A t \in States \ {"NONE", "A_Z_DIGIT", "DECIMAL_DIGIT", "HEXADECIMAL_DIGIT",
                         "BINARY_DIGIT", "VERSION_DIGIT", "ASSIGNMENT"} :
        Push(t) = LegalStack(t)
  BY <1>2, BelowIsLegal
<1>4. /\ Push("WHITESPACE") = LegalStack("WHITESPACE")
      /\ Push("STRING") = LegalStack("STRING")
      /\ Push("COMMENTS") = LegalStack("COMMENTS")
  BY <1>3 DEF States
<1>5. {"WHITESPACE", "STRING", "COMMENTS"} \subseteq LiveStates \ {"COLON", "ASSIGNMENT"}
  BY DEF LiveStates, States
<1>a. CASE SkipSpace(Push("WHITESPACE"))
  BY <1>a, <1>1, <1>4, <1>5 DEF SkipSpace, Outcome, Skipped, Dropped
<1>b. CASE Ch = "\"" /\ Skip(Push("STRING"))
  BY <1>b, <1>1, <1>4, <1>5 DEF Outcome, Skipped, Dropped
<1>c. CASE Ch = "#" /\ Skip(Push("COMMENTS"))
  BY <1>c, <1>1, <1>4, <1>5 DEF Outcome, Skipped, Dropped
<1>d. CASE Ch \in Alpha \cup Digit \cup Single \cup {"=", ":"} /\ Reprocess(Push(StartState(Ch)))
  <2> DEFINE t == StartState(Ch)
  <2>1. t \in {"A_Z", "DIGIT", "EQUALS_SIGN", "COLON"} \cup SingleStates
    BY <1>d, StartsAt
  <2>2. t = "COLON" => Ch = ":"
    BY <1>d, StartsAt
  <2>3. t \in LiveStates \ {"NONE", "A_Z_DIGIT", "DECIMAL_DIGIT", "HEXADECIMAL_DIGIT",
                            "BINARY_DIGIT", "VERSION_DIGIT", "ASSIGNMENT"}
    BY <2>1, SingleStatesApart DEF LiveStates, States, NumberStates
  <2> HIDE DEF t
  <2>4. Push(t) = LegalStack(t)
    BY <1>3, <2>3 DEF LiveStates
  <2> QED BY <1>d, <1>1, <2>2, <2>3, <2>4 DEF t, Outcome, Reprocessed
<1>e. CASE Fail
  BY <1>e, <1>1, FailOutcome
<1> QED BY <1>a, <1>b, <1>c, <1>d, <1>e DEF ScanNone

(* The outcomes of processCharacter in WHITESPACE. *)
LEMMA WhitespaceOutcome ==
  ASSUME Busy, ScanInvariant, ScanWhitespace PROVE Outcome
<1>1. Last(stack) = "WHITESPACE" /\ ~InAssignment /\ lexeme = NoLexeme
  BY DEF ScanWhitespace, Scanning, InAssignment, ScanInvariant, Busy
<1>2. "WHITESPACE" \in LiveStates /\ "NONE" \in LiveStates /\ "WHITESPACE" \in States
  BY DEF LiveStates, States
<1>3. stack = LegalStack("WHITESPACE")
  BY <1>1, StackFacts
<1>4. Pop(stack) = LegalStack("NONE")
  BY <1>2, <1>3, PopLegal, BelowIsLegal
<1>a. CASE SkipSpace(stack)
  BY <1>a, <1>1, <1>2, <1>3 DEF SkipSpace, Outcome, Skipped, Dropped
<1>b. CASE Reprocess(Pop(stack))
  BY <1>b, <1>1, <1>2, <1>4 DEF Outcome, Reprocessed
<1> QED BY <1>a, <1>b DEF ScanWhitespace

(* Words. *)
LEMMA WordOutcome ==
  ASSUME Busy, ScanInvariant, ScanWord \/ ScanWordDigit PROVE Outcome
<1>1. Last(stack) \in {"A_Z", "A_Z_DIGIT"} /\ ~InAssignment
  BY DEF ScanWord, ScanWordDigit, Scanning, InAssignment
<1>2. CASE Take(stack)
  BY <1>1, <1>2, TakeHereOutcome
<1>3. CASE EmitBefore
  BY <1>1, <1>3, EmitBeforeOutcome
<1>4. CASE Last(stack) = "A_Z" /\ Reprocess(Push("A_Z_DIGIT"))
  <2>1. "A_Z_DIGIT" \in LiveStates /\ "A_Z_DIGIT" \in States /\ "A_Z" \in States
    BY DEF LiveStates, States
  <2>2. Push("A_Z_DIGIT") = LegalStack("A_Z_DIGIT")
    BY <1>4, <2>1, StackFacts, BelowIsLegal
  <2> QED BY <1>1, <1>4, <2>1, <2>2 DEF Outcome, Reprocessed
<1>5. CASE Fail
  BY <1>1, <1>5, FailOutcome
<1> QED
  BY <1>2, <1>3, <1>4, <1>5 DEF ScanWord, ScanWordDigit, Scanning
(* Numbers: a digit, a point and the x or b of a prefix each have a state. *)
LEMMA NumberOutcome ==
  ASSUME Busy, ScanInvariant,
         ScanDigit \/ ScanDecimal \/ ScanVersion \/ ScanHex \/ ScanBinary
  PROVE  Outcome
<1>1. Last(stack) \in NumberStates /\ ~InAssignment
  BY DEF ScanDigit, ScanDecimal, ScanVersion, ScanHex, ScanBinary, Scanning,
         InAssignment, NumberStates
<1>2. NumberStates \subseteq LiveStates \ {"NONE", "WHITESPACE", "COLON", "ASSIGNMENT"}
  BY DEF LiveStates, States, NumberStates
<1>3. CASE Take(stack)
  BY <1>1, <1>2, <1>3, TakeHereOutcome
<1>4. CASE EmitBefore
  BY <1>1, <1>2, <1>4, EmitBeforeOutcome
<1>5. CASE Fail
  BY <1>1, <1>5, FailOutcome
<1>6. ASSUME NEW t \in NumberStates, Take(Push(t)),
             LegalStack(Last(stack)) = Below(t)
      PROVE  Outcome
  <2>1. Push(t) = LegalStack(t)
    BY <1>1, <1>2, <1>6, StackFacts DEF LiveStates
  <2> QED BY <1>1, <1>2, <1>6, <2>1, TakeOutcome
<1>7. ASSUME Last(stack) = "DIGIT",
             NEW t \in {"DECIMAL_DIGIT", "HEXADECIMAL_DIGIT", "BINARY_DIGIT"},
             Take(Push(t))
      PROVE  Outcome
  <2>1. t \in NumberStates
    BY DEF NumberStates
  <2> QED BY <1>6, <1>7, <2>1, BelowIsLegal
<1>8. CASE Last(stack) = "DECIMAL_DIGIT" /\ Take(Push("VERSION_DIGIT"))
  <2>1. "VERSION_DIGIT" \in NumberStates
    BY DEF NumberStates
  <2> QED BY <1>6, <1>8, <2>1, BelowIsLegal
<1> QED
  BY <1>3, <1>4, <1>5, <1>7, <1>8
  DEF ScanDigit, ScanDecimal, ScanVersion, ScanHex, ScanBinary, Scanning

(* Strings, punctuation, and the states that only fail or only emit. *)
LEMMA SimpleOutcome ==
  ASSUME Busy, ScanInvariant,
         ScanString \/ ScanSingle \/ ScanCommentClose \/ ScanUnhandled
  PROVE  Outcome
<1>1. /\ Last(stack) \in {"STRING", "COMMENT_CLOSE_BRACE", "EQUALS_SIGN"} \cup SingleStates
      /\ ~InAssignment
      /\ Last(stack) \notin {"NONE", "WHITESPACE", "COLON", "ASSIGNMENT"}
  BY SingleStatesApart
  DEF ScanString, ScanSingle, ScanCommentClose, ScanUnhandled, Scanning, InAssignment
<1>2. AfterToken(Last(stack), stack) = LegalStack("NONE")
  BY <1>1, StackFacts
<1>3. CASE Take(stack)
  BY <1>1, <1>3, TakeHereOutcome
<1>4. CASE EmitAndDrop /\ Ch \in Dropped
  <2>1. stack' = LegalStack("NONE")
    BY <1>2, <1>4 DEF EmitAndDrop
  <2> QED BY <1>4, <2>1 DEF Outcome, EmittedBefore
<1>5. CASE TakeAndEmit(stack)
  <2>1. stack' = LegalStack("NONE") /\ stack \in Seq(States)
    BY <1>2, <1>5 DEF TakeAndEmit, Busy, TypeOK
  <2> QED BY <1>1, <1>5, <2>1 DEF Outcome, EmittedAfter
<1>6. CASE Fail
  BY <1>1, <1>6, FailOutcome
<1> QED
  BY <1>3, <1>4, <1>5, <1>6
  DEF ScanString, ScanSingle, ScanCommentClose, ScanUnhandled, Dropped

(* The outcomes of processCharacter in COLON. *)
LEMMA ColonOutcome ==
  ASSUME Busy, ScanInvariant, ScanColon PROVE Outcome
<1>1. Last(stack) = "COLON" /\ ~InAssignment
  BY DEF ScanColon, Scanning, InAssignment
<1>2. CASE Ch = ":" /\ Take(stack)
  BY <1>1, <1>2, TakeHereOutcome
<1>3. CASE EmitBefore
  BY <1>1, <1>3, EmitBeforeOutcome
<1>4. CASE /\ Ch = "=" /\ lexeme' = Extended /\ stack' = Push("ASSIGNMENT")
           /\ UNCHANGED <<chIndex, tokenVars, lineVars, fileVars>>
  <2>1. "COLON" \in States /\ "ASSIGNMENT" \in States
    BY DEF States
  <2>2. stack' = LegalStack("ASSIGNMENT")
    BY <1>1, <1>4, <2>1, StackFacts, BelowIsLegal
  <2>3. lexeme # NoLexeme /\ AfterColon
    BY <1>1, <1>4 DEF ScanInvariant, Busy
  <2> QED BY <1>1, <1>4, <2>2, <2>3 DEF Outcome, AssignmentFound
<1> QED BY <1>2, <1>3, <1>4 DEF ScanColon

(* The "=" that follows a ":" is the end of the operator, and ASSIGNMENT   *)
(* is never reached on another character.                                  *)
LEMMA AssignmentOutcome ==
  ASSUME Busy, ScanInvariant, ScanAssignment PROVE Outcome
<1>1. Last(stack) = "ASSIGNMENT" /\ InAssignment
  BY DEF ScanAssignment, Scanning, InAssignment
<1>2. Ch = "=" /\ AfterColon
  BY <1>1 DEF ScanInvariant, Busy
<1>3. CurrentCh(-1) = ":"
  BY <1>2, CharIsText DEF Busy, AfterColon
<1>4. EmitAndDrop
  BY <1>2, <1>3 DEF ScanAssignment
<1>5. stack' = LegalStack("NONE")
  BY <1>1, <1>4, StackFacts DEF EmitAndDrop
<1>6. ~EmitAndReprocess
  BY <1>4 DEF EmitAndReprocess, EmitAndDrop, Consume, Busy, TypeOK
<1> QED BY <1>1, <1>4, <1>5, <1>6 DEF Outcome, EmittedBefore

(* The outcomes of processCharacter in COMMENTS. *)
LEMMA CommentsOutcome ==
  ASSUME Busy, ScanInvariant, ScanComments PROVE Outcome
<1>1. Last(stack) = "COMMENTS" /\ ~InAssignment
  BY DEF ScanComments, Scanning, InAssignment
<1>2. {"NONE", "COMMENTS", "COMMENT_OPEN_BRACE", "COMMENT_CLOSE_BRACE"} \subseteq States
  BY DEF States
<1>3. stack = LegalStack("COMMENTS") /\ stack \in Seq(States) /\ stack # <<>>
  BY <1>1, StackFacts DEF Busy, TypeOK
<1>4. CASE TakeAndEmit(Push("COMMENT_OPEN_BRACE"))
  <2> DEFINE stk == Push("COMMENT_OPEN_BRACE")
  <2>1. stk \in Seq(States) /\ Last(stk) = "COMMENT_OPEN_BRACE"
    BY <1>2, <1>3, AppendProperties DEF Push, Last
  <2>2. AfterToken(Last(stk), stk) = LegalStack("COMMENTS")
    BY <1>3, <2>1, AfterTokenLegal DEF Push
  <2>3. stack' = LegalStack("COMMENTS")
    BY <1>4, <2>2 DEF TakeAndEmit
  <2> QED BY <1>1, <1>4, <2>1, <2>3 DEF Outcome, EmittedAfter
<1>5. CASE /\ tokens' = Append(tokens, Token("COMMENTS", lexeme))
           /\ lastType' = "COMMENT"
           /\ stack' = Append(Pop(stack), "COMMENT_CLOSE_BRACE")
           /\ lexeme' = [start |-> chIndex, end |-> chIndex + 1]
           /\ Consume
           /\ UNCHANGED <<lineVars, fileVars>>
  <2>1. Pop(stack) = Below("COMMENTS")
    BY <1>2, <1>3, PopLegal
  <2>2. Below("COMMENTS") = LegalStack("NONE")
    BY <1>2, BelowIsLegal
  <2>3. Below("COMMENT_CLOSE_BRACE") = LegalStack("NONE")
    BY <1>2, BelowIsLegal
  <2>4. stack' = LegalStack("COMMENT_CLOSE_BRACE")
    BY <1>2, <1>5, <2>1, <2>2, <2>3, PushLegal
  <2> QED BY <1>1, <1>5, <2>4 DEF Outcome, CommentClosed
<1>6. CASE IsNewLine /\ EmitAndDrop
  <2>1. Ch \in Dropped
    BY <1>6 DEF IsNewLine, Dropped, Whitespace
  <2>2. stack' = LegalStack("NONE")
    BY <1>1, <1>6, StackFacts DEF EmitAndDrop
  <2> QED BY <1>6, <2>1, <2>2 DEF Outcome, EmittedBefore
<1>7. CASE Take(stack)
  BY <1>1, <1>7, TakeHereOutcome
<1> QED BY <1>4, <1>5, <1>6, <1>7 DEF ScanComments

(* Every call of processCharacter has one of the outcomes. *)
LEMMA Outcomes ==
  ASSUME TypeOK, ScanInvariant, ProcessCharacter
  PROVE  Busy /\ Outcome
<1>1. Busy
  BY DEF Busy, ProcessCharacter, Scanning, ScanNone, ScanWhitespace, ScanWord,
         ScanWordDigit, ScanDigit, ScanDecimal, ScanVersion, ScanHex,
         ScanBinary, ScanString, ScanSingle, ScanColon, ScanAssignment,
         ScanComments, ScanCommentClose, ScanUnhandled
<1> QED
  BY <1>1, NoneOutcome, WhitespaceOutcome, WordOutcome, NumberOutcome,
     SimpleOutcome, ColonOutcome, AssignmentOutcome, CommentsOutcome
  DEF ProcessCharacter
-----------------------------------------------------------------------------
(* Every outcome keeps the invariant. *)

(* The empty lexeme starts and ends at 0. *)
LEMMA NoLexemeNoPending == NoLexeme.start = 0 /\ NoLexeme.end = 0
BY DEF NoLexeme

(* What the lexeme is when a character is taken, and what it was before.   *)
LEMMA ExtendedFacts ==
  ASSUME Busy, Inv
  PROVE  /\ lexeme \in Lexeme /\ Extended \in Lexeme /\ chIndex \in Nat
         /\ Extended # NoLexeme
         /\ lexeme # NoLexeme =>
              /\ Extended.start = lexeme.start /\ Extended.end = lexeme.end + 1
              /\ lexeme.start < lexeme.end
              /\ lexeme.end = IF InAssignment THEN chIndex + 1 ELSE chIndex
         /\ lexeme = NoLexeme =>
              Extended.start = chIndex /\ Extended.end = chIndex + 1
<1>1. lexeme \in Lexeme /\ chIndex \in Nat
  BY DEF Busy, TypeOK, Lexeme
<1>2. Extended \in Lexeme
  BY ExtendedType DEF Busy
<1>3. ASSUME lexeme # NoLexeme
      PROVE  /\ Extended.start = lexeme.start /\ Extended.end = lexeme.end + 1
             /\ lexeme.start < lexeme.end
             /\ lexeme.end = IF InAssignment THEN chIndex + 1 ELSE chIndex
  BY <1>1, <1>3 DEF Extended, Inv, LexemeIsContiguous, Lexeme, InAssignment
<1>4. ASSUME lexeme = NoLexeme
      PROVE  Extended.start = chIndex /\ Extended.end = chIndex + 1
  BY <1>4 DEF Extended
<1>5. Extended # NoLexeme
  BY <1>1, <1>3, <1>4 DEF Lexeme, NoLexeme
<1> QED BY <1>1, <1>2, <1>3, <1>4, <1>5

(* The position of the character being processed, once it is taken.        *)
LEMMA ExtendedCovers ==
  ASSUME Busy, Inv, ~InAssignment
  PROVE  /\ Extended.end = chIndex + 1 /\ Extended.start <= chIndex
         /\ Pending \subseteq Extended.start .. (Extended.end - 1)
         /\ chIndex \in Extended.start .. (Extended.end - 1)
<1>1. CASE lexeme = NoLexeme
  BY <1>1, ExtendedFacts, NoLexemeNoPending DEF Pending
<1>2. CASE lexeme # NoLexeme
  BY <1>2, ExtendedFacts DEF Pending, Lexeme
<1> QED BY <1>1, <1>2

(* Where the next token starts: behind all tokens, and at the start of     *)
(* the extended lexeme.                                                    *)
LEMMA FrontierFacts ==
  ASSUME Busy, Inv
  PROVE  /\ Frontier \in Nat
         /\ \A i \in DOMAIN tokens : tokens[i].end <= Frontier
         /\ Extended.start = Frontier
         /\ lexeme # NoLexeme => lexeme.start = Frontier
BY ExtendedFacts DEF Frontier, Inv, TokensBehind, Lexeme

(* The positions of a token are numbers. *)
LEMMA TokenFields ==
  ASSUME TypeOK, NEW i \in DOMAIN tokens
  PROVE  tokens[i].start \in Nat /\ tokens[i].end \in Nat
<1>1. tokens \in Seq(TokenRecord)
  BY DEF TypeOK, TokenRecord
<1>2. tokens[i] \in TokenRecord
  BY <1>1, ElementOfSeq
<1> QED BY <1>2 DEF TokenRecord

(* No token is added and the frontier does not move back. *)
LEMMA OrderKept ==
  ASSUME TypeOK, TypeOK', Inv, tokens' = tokens, Frontier <= Frontier'
  PROVE  TokensBehind' /\ TokensInOrder'
<1>1. tokens \in Seq(TokenRecord)
  BY DEF TypeOK, TokenRecord
<1>2. Frontier \in Nat /\ Frontier' \in Nat
  BY DEF TypeOK, Frontier
<1>3. \A i \in DOMAIN tokens : tokens[i].end \in Nat /\ tokens[i].start \in Nat
  BY TokenFields
<1>4. TokensBehind'
  <2>1. \A i \in DOMAIN tokens : tokens[i].end <= Frontier
    BY DEF Inv, TokensBehind
  <2>2. \A i \in DOMAIN tokens : tokens[i].end <= Frontier'
    BY <1>2, <1>3, <2>1
  <2> QED BY <2>2 DEF TokensBehind
<1>5. ASSUME NEW i \in DOMAIN tokens PROVE Precedes(Span(tokens[i]), Pending')
  <2>1. CASE lexeme' = NoLexeme
    BY <2>1 DEF Precedes, Pending, NoLexeme
  <2>2. CASE lexeme' # NoLexeme
    <3>1. lexeme'.start = Frontier' /\ lexeme'.start \in Nat /\ lexeme'.end \in Nat
      BY <2>2 DEF Frontier, TypeOK
    <3>2. tokens[i].end <= Frontier'
      BY <1>4 DEF TokensBehind
    <3> QED BY <1>3, <3>1, <3>2 DEF Precedes, Pending, Span
  <2> QED BY <2>1, <2>2
<1> QED BY <1>4, <1>5 DEF Inv, TokensInOrder

(* A token is added that starts at the frontier or has an empty span, and  *)
(* the frontier does not fall behind its end.                              *)
LEMMA OrderExtended ==
  ASSUME TypeOK, TypeOK', Inv, NEW tok \in TokenRecord,
         tokens' = Append(tokens, tok),
         tok.start = Frontier \/ Span(tok) = {},
         tok.end <= Frontier', Frontier <= Frontier'
  PROVE  TokensBehind' /\ TokensInOrder'
<1>1. tokens \in Seq(TokenRecord) /\ DOMAIN tokens = 1 .. Len(tokens)
  BY DEF TypeOK, TokenRecord
<1>2. /\ DOMAIN tokens' = 1 .. (Len(tokens) + 1)
      /\ \A i \in DOMAIN tokens : tokens'[i] = tokens[i]
      /\ tokens'[Len(tokens) + 1] = tok
  BY <1>1, AppendProperties
<1>3. Frontier \in Nat /\ Frontier' \in Nat
  BY DEF TypeOK, Frontier
<1>4. \A i \in DOMAIN tokens : tokens[i].end \in Nat /\ tokens[i].start \in Nat
  BY TokenFields
<1>5. \A i \in DOMAIN tokens : tokens[i].end <= Frontier
  BY DEF Inv, TokensBehind
<1>6. tok.start \in Nat /\ tok.end \in Nat
  BY DEF TokenRecord
<1>7. \A i \in DOMAIN tokens' : tokens'[i].end <= Frontier' /\ tokens'[i].end \in Nat
                                  /\ tokens'[i].start \in Nat
  <2> SUFFICES ASSUME NEW i \in DOMAIN tokens'
               PROVE  tokens'[i].end <= Frontier' /\ tokens'[i].end \in Nat
                        /\ tokens'[i].start \in Nat
    OBVIOUS
  <2>1. CASE i \in DOMAIN tokens
    BY <2>1, <1>2, <1>3, <1>4, <1>5
  <2>2. CASE i = Len(tokens) + 1
    BY <2>2, <1>2, <1>6
  <2> QED BY <2>1, <2>2, <1>1, <1>2
<1>8. TokensBehind'
  BY <1>7 DEF TokensBehind
<1>9. ASSUME NEW i \in DOMAIN tokens' PROVE Precedes(Span(tokens'[i]), Pending')
  <2>1. CASE lexeme' = NoLexeme
    BY <2>1 DEF Precedes, Pending, NoLexeme
  <2>2. CASE lexeme' # NoLexeme
    <3>1. lexeme'.start = Frontier' /\ lexeme'.start \in Nat /\ lexeme'.end \in Nat
      BY <2>2 DEF Frontier, TypeOK
    <3> QED BY <3>1, <1>7, SMTT(40) DEF Precedes, Pending, Span
  <2> QED BY <2>1, <2>2
<1>10. ASSUME NEW i \in DOMAIN tokens', NEW j \in DOMAIN tokens', i < j
       PROVE  Precedes(Span(tokens'[i]), Span(tokens'[j]))
  <2>0. i \in DOMAIN tokens
    BY <1>1, <1>2, <1>10
  <2>1. CASE j \in DOMAIN tokens
    BY <2>0, <2>1, <1>2, <1>10 DEF Inv, TokensInOrder
  <2>2. CASE j = Len(tokens) + 1
    <3>1. tokens'[j] = tok /\ tokens'[i] = tokens[i]
      BY <2>0, <2>2, <1>2
    <3>2. CASE Span(tok) = {}
      BY <3>1, <3>2 DEF Precedes
    <3>3. CASE tok.start = Frontier
      BY <2>0, <3>1, <3>3, <1>3, <1>4, <1>5, <1>6 DEF Precedes, Span
    <3> QED BY <3>2, <3>3
  <2> QED BY <2>1, <2>2, <1>1, <1>2
<1> QED BY <1>8, <1>9, <1>10 DEF TokensInOrder

(* Position p is kept after the step. *)
WillKeep(p) == p \in Pending' \/ \E i \in DOMAIN tokens' : p \in Span(tokens'[i])

(* Nothing is lost when the tokens stay, the pending lexeme stays kept,    *)
(* and the character consumed, if any, is kept or dropped on purpose.      *)
LEMMA NothingLostKept ==
  ASSUME Busy, Inv, text' = text,
         \A i \in DOMAIN tokens : i \in DOMAIN tokens' /\ tokens'[i] = tokens[i],
         \A p \in Pending : WillKeep(p),
         \/ chIndex' = chIndex
         \/ chIndex' = chIndex + 1 /\ (Ch \in Dropped \/ WillKeep(chIndex))
  PROVE  NothingLost'
<1>1. chIndex \in Nat /\ Ch = text[chIndex + 1]
  BY CharIsText DEF Busy, TypeOK
<1>2. ASSUME NEW p \in 0 .. (chIndex - 1) PROVE text[p + 1] \in Dropped \/ WillKeep(p)
  BY DEF Inv, NothingLost, Kept, WillKeep
<1>3. ASSUME NEW p \in 0 .. (chIndex' - 1) PROVE text'[p + 1] \in Dropped \/ WillKeep(p)
  <2>1. CASE p \in 0 .. (chIndex - 1)
    BY <2>1, <1>2
  <2>2. CASE p = chIndex /\ chIndex' = chIndex + 1
    BY <2>2, <1>1
  <2> QED BY <1>1, <2>1, <2>2
<1> QED BY <1>3 DEF NothingLost, Dropped, Whitespace, Kept, WillKeep, Pending

(* Appending a token keeps the others and what they cover. *)
LEMMA AppendKeeps ==
  ASSUME TypeOK, NEW tok \in TokenRecord, tokens' = Append(tokens, tok)
  PROVE  /\ \A i \in DOMAIN tokens : i \in DOMAIN tokens' /\ tokens'[i] = tokens[i]
         /\ \A p \in Span(tok) : WillKeep(p)
<1>1. tokens \in Seq(TokenRecord)
  BY DEF TypeOK, TokenRecord
<1>2. /\ DOMAIN tokens = 1 .. Len(tokens) /\ DOMAIN tokens' = 1 .. (Len(tokens) + 1)
      /\ \A i \in DOMAIN tokens : tokens'[i] = tokens[i]
      /\ tokens'[Len(tokens) + 1] = tok /\ Len(tokens) \in Nat
  BY <1>1, AppendProperties
<1>3. Len(tokens) + 1 \in DOMAIN tokens'
  BY <1>2
<1> QED BY <1>2, <1>3 DEF WillKeep

(* A token has the positions of its lexeme. *)
LEMMA TokenIsRecord ==
  ASSUME TypeOK, NEW s, NEW lx \in Lexeme
  PROVE  /\ Token(s, lx) \in TokenRecord
         /\ Token(s, lx).start = lx.start /\ Token(s, lx).end = lx.end
BY TokenTypeType DEF Token, TokenRecord, Lexeme, TypeOK

(* The states that say nothing about the lexeme. *)
Plain == LiveStates \ {"NONE", "WHITESPACE", "COLON", "ASSIGNMENT"}

(* What ScanInvariant asks of the next state, by the state on top.         *)
LEMMA NextScan ==
  ASSUME NEW t \in LiveStates, stack' = LegalStack(t),
         t \in {"NONE", "WHITESPACE"} => lexeme' = NoLexeme,
         t = "COLON" => IF lexeme' = NoLexeme THEN chIndex' < Len(text') /\ Ch' = ":"
                                              ELSE AfterColon',
         t = "ASSIGNMENT" => lexeme' # NoLexeme /\ chIndex' < Len(text')
                               /\ Ch' = "=" /\ AfterColon'
  PROVE  ScanInvariant' /\ Last(stack') = t
<1>1. Last(stack') = t
  BY LegalStackType DEF LiveStates
<1>2. StackIsLegal'
  BY <1>1 DEF StackIsLegal, LiveStates
<1> QED BY <1>1, <1>2 DEF ScanInvariant

(* Taking a character keeps the invariant. *)
LEMMA TakenKeeps ==
  ASSUME Busy, TypeOK', Inv, ~InAssignment, Taken PROVE Inv'
<1>1. PICK t \in LiveStates \ {"NONE", "WHITESPACE", "ASSIGNMENT"} :
        Take(LegalStack(t)) /\ (t = "COLON" => Ch = ":")
  BY DEF Taken
<1>2. /\ lexeme' = Extended /\ stack' = LegalStack(t) /\ chIndex' = chIndex + 1
      /\ tokens' = tokens /\ text' = text /\ phase' = "lexing"
  BY <1>1 DEF Take, Consume, tokenVars, fileVars, Busy
<1>3. lexeme' # NoLexeme /\ chIndex \in Nat
  BY <1>2, ExtendedFacts
<1>4. t = "COLON" => AfterColon'
  BY <1>1, <1>2, <1>3, CharIsText DEF AfterColon, Busy
<1>5. ScanInvariant' /\ Last(stack') = t
  BY <1>1, <1>2, <1>3, <1>4, NextScan
<1>6. LexemeIsContiguous'
  <2>1. lexeme'.start < lexeme'.end /\ lexeme'.end = chIndex'
    BY <1>2, <1>3, ExtendedFacts, ExtendedCovers DEF Lexeme
  <2> QED BY <1>1, <1>5, <2>1 DEF LexemeIsContiguous
<1>7. Frontier' = Frontier
  BY <1>2, <1>3, FrontierFacts DEF Frontier
<1>8. TokensBehind' /\ TokensInOrder'
  BY <1>2, <1>7, FrontierFacts, OrderKept DEF Busy
<1>9. NothingLost'
  <2>1. \A p \in Pending : WillKeep(p)
    BY <1>2, ExtendedCovers DEF WillKeep, Pending
  <2>2. WillKeep(chIndex)
    BY <1>2, ExtendedCovers DEF WillKeep, Pending
  <2> QED BY <1>2, <2>1, <2>2, NothingLostKept
<1> QED BY <1>2, <1>5, <1>6, <1>8, <1>9 DEF Inv, MayLex

(* Processing a character again in another state keeps the invariant. *)
LEMMA ReprocessedKeeps ==
  ASSUME Busy, TypeOK', Inv, ~InAssignment, Reprocessed PROVE Inv'
<1>1. PICK t \in LiveStates \ {"ASSIGNMENT"} :
        /\ Reprocess(LegalStack(t))
        /\ t # "A_Z_DIGIT" => lexeme = NoLexeme
        /\ t = "COLON" => Ch = ":"
  BY DEF Reprocessed
<1>2. /\ lexeme' = lexeme /\ stack' = LegalStack(t) /\ chIndex' = chIndex
      /\ tokens' = tokens /\ text' = text /\ phase' = "lexing" /\ Ch' = Ch
      /\ chIndex < Len(text)
  BY <1>1 DEF Reprocess, tokenVars, fileVars, Busy, Ch, CurrentCh, PosFromOffset
<1>3. ScanInvariant' /\ Last(stack') = t
  BY <1>1, <1>2, NextScan
<1>4. LexemeIsContiguous'
  BY <1>1, <1>2, <1>3 DEF Inv, LexemeIsContiguous, InAssignment
<1>5. Frontier' = Frontier
  BY <1>2 DEF Frontier
<1>6. TokensBehind' /\ TokensInOrder'
  BY <1>2, <1>5, FrontierFacts, OrderKept DEF Busy
<1>7. NothingLost'
  BY <1>2 DEF Inv, NothingLost, Kept, Pending
<1> QED BY <1>2, <1>3, <1>4, <1>6, <1>7 DEF Inv, MayLex

(* Dropping a delimiter keeps the invariant. *)
LEMMA SkippedKeeps ==
  ASSUME Busy, TypeOK', Inv, ~InAssignment, Skipped PROVE Inv'
<1>1. PICK t \in LiveStates \ {"COLON", "ASSIGNMENT"} :
        Skip(LegalStack(t)) \/ SkipSpace(LegalStack(t))
  BY DEF Skipped
<1>2. /\ lexeme = NoLexeme /\ lexeme' = NoLexeme /\ stack' = LegalStack(t)
      /\ chIndex' = chIndex + 1 /\ chIndex \in Nat /\ Ch \in Dropped
      /\ tokens' = tokens /\ text' = text /\ phase' = "lexing"
  BY <1>1 DEF Skipped, Skip, SkipSpace, Consume, tokenVars, fileVars, Busy, TypeOK
<1>3. ScanInvariant'
  BY <1>1, <1>2, NextScan
<1>4. LexemeIsContiguous'
  BY <1>2 DEF LexemeIsContiguous
<1>5. Frontier <= Frontier'
  BY <1>2 DEF Frontier
<1>6. TokensBehind' /\ TokensInOrder'
  BY <1>2, <1>5, OrderKept DEF Busy
<1>7. NothingLost'
  <2>1. Pending = {}
    BY <1>2 DEF Pending, NoLexeme
  <2> QED BY <1>2, <2>1, NothingLostKept
<1> QED BY <1>2, <1>3, <1>4, <1>6, <1>7 DEF Inv, MayLex

(* A token that ends before the character keeps the invariant. *)
LEMMA EmittedBeforeKeeps ==
  ASSUME Busy, TypeOK', Inv, EmittedBefore PROVE Inv'
<1> DEFINE tok == Token(Last(stack), lexeme)
<1>1. /\ tok \in TokenRecord /\ tok.start = lexeme.start /\ tok.end = lexeme.end
      /\ lexeme \in Lexeme /\ chIndex \in Nat
  BY ExtendedFacts, TokenIsRecord DEF Busy
<1>2. /\ tokens' = Append(tokens, tok) /\ lexeme' = NoLexeme
      /\ stack' = LegalStack("NONE") /\ text' = text /\ phase' = "lexing"
      /\ chIndex' \in {chIndex, chIndex + 1}
      /\ InAssignment => chIndex' = chIndex + 1
      /\ chIndex' = chIndex \/ Ch \in Dropped \/ InAssignment
  BY <1>1 DEF EmittedBefore, EmitAndDrop, EmitAndReprocess, AddToken, Consume,
              fileVars, Busy
<1> HIDE DEF tok
<1>3. ScanInvariant'
  <2>1. "NONE" \in LiveStates
    BY DEF LiveStates, States
  <2> QED BY <1>2, <2>1, NextScan
<1>4. LexemeIsContiguous'
  BY <1>2 DEF LexemeIsContiguous
<1>5. /\ Frontier' = chIndex' /\ Frontier \in Nat
      /\ lexeme # NoLexeme => tok.end <= chIndex'
      /\ lexeme # NoLexeme => tok.start = Frontier
      /\ lexeme = NoLexeme => Span(tok) = {} /\ tok.end = 0
      /\ Frontier <= chIndex'
  <2>1. Frontier' = chIndex' /\ Frontier \in Nat
    BY <1>2, FrontierFacts DEF Frontier
  <2>2. CASE lexeme = NoLexeme
    BY <2>1, <2>2, <1>1, <1>2 DEF Frontier, Span, NoLexeme
  <2>3. CASE lexeme # NoLexeme
    BY <2>1, <2>3, <1>1, <1>2, ExtendedFacts, FrontierFacts DEF Lexeme
  <2> QED BY <2>1, <2>2, <2>3
<1>6. TokensBehind' /\ TokensInOrder'
  <2>1. tok.end <= Frontier' /\ (tok.start = Frontier \/ Span(tok) = {})
    BY <1>1, <1>2, <1>5
  <2> QED BY <1>1, <1>2, <1>5, <2>1, OrderExtended DEF Busy
<1>7. NothingLost'
  <2>1. /\ \A i \in DOMAIN tokens : i \in DOMAIN tokens' /\ tokens'[i] = tokens[i]
        /\ \A p \in Span(tok) : WillKeep(p)
    BY <1>1, <1>2, AppendKeeps DEF Busy
  <2>2. \A p \in Pending : WillKeep(p)
    BY <1>1, <2>1 DEF Pending, Span
  <2>3. InAssignment => WillKeep(chIndex)
    <3>1. ASSUME InAssignment PROVE chIndex \in Span(tok)
      <4>1. lexeme # NoLexeme
        BY <3>1 DEF Inv, ScanInvariant, InAssignment, Busy
      <4>2. lexeme.end = chIndex + 1 /\ lexeme.start < lexeme.end
        BY <3>1, <4>1, ExtendedFacts
      <4> QED BY <4>2, <1>1 DEF Span, Lexeme
    <3> QED BY <3>1, <2>1
  <2> QED BY <1>2, <2>1, <2>2, <2>3, NothingLostKept
<1> QED BY <1>2, <1>3, <1>4, <1>6, <1>7 DEF Inv, MayLex

(* A token that ends with the character keeps the invariant. *)
LEMMA EmittedAfterKeeps ==
  ASSUME Busy, TypeOK', Inv, ~InAssignment, EmittedAfter PROVE Inv'
<1>1. PICK stk \in Seq(States) :
        TakeAndEmit(stk) /\ stack' \in {LegalStack("NONE"), LegalStack("COMMENTS")}
  BY DEF EmittedAfter
<1> DEFINE tok == Token(Last(stk), Extended)
<1>2. /\ tok \in TokenRecord /\ tok.start = Extended.start /\ tok.end = Extended.end
      /\ Extended \in Lexeme /\ chIndex \in Nat
  BY ExtendedFacts, TokenIsRecord DEF Busy
<1>3. /\ tokens' = Append(tokens, tok) /\ lexeme' = NoLexeme
      /\ text' = text /\ phase' = "lexing" /\ chIndex' = chIndex + 1
  BY <1>1 DEF TakeAndEmit, AddToken, Consume, fileVars, Busy
<1> HIDE DEF tok
<1>4. ScanInvariant'
  <2>1. {"NONE", "COMMENTS"} \subseteq LiveStates
    BY DEF LiveStates, States
  <2>2. PICK t \in {"NONE", "COMMENTS"} : stack' = LegalStack(t)
    BY <1>1
  <2> QED BY <1>3, <2>1, <2>2, NextScan
<1>5. LexemeIsContiguous'
  BY <1>3 DEF LexemeIsContiguous
<1>6. TokensBehind' /\ TokensInOrder'
  <2>1. tok.start = Frontier /\ tok.end = chIndex + 1 /\ Frontier <= chIndex
    BY <1>2, FrontierFacts, ExtendedCovers
  <2>2. Frontier' = chIndex + 1
    BY <1>3 DEF Frontier
  <2>3. tok.end <= Frontier' /\ Frontier <= Frontier'
    BY <1>2, <2>1, <2>2, FrontierFacts
  <2> QED BY <1>2, <1>3, <2>1, <2>3, OrderExtended DEF Busy
<1>7. NothingLost'
  <2>1. /\ \A i \in DOMAIN tokens : i \in DOMAIN tokens' /\ tokens'[i] = tokens[i]
        /\ \A p \in Span(tok) : WillKeep(p)
    BY <1>2, <1>3, AppendKeeps DEF Busy
  <2>2. (\A p \in Pending : WillKeep(p)) /\ WillKeep(chIndex)
    BY <1>2, <2>1, ExtendedCovers DEF Span
  <2> QED BY <1>3, <2>1, <2>2, NothingLostKept
<1> QED BY <1>3, <1>4, <1>5, <1>6, <1>7 DEF Inv, MayLex

(* ":=": the "=" is in the lexeme, and still to be processed. *)
LEMMA AssignmentFoundKeeps ==
  ASSUME Busy, TypeOK', Inv, AssignmentFound PROVE Inv'
<1>1. /\ lexeme' = Extended /\ stack' = LegalStack("ASSIGNMENT") /\ chIndex' = chIndex
      /\ tokens' = tokens /\ text' = text /\ phase' = "lexing" /\ lexeme # NoLexeme
      /\ Ch' = Ch /\ Ch = "=" /\ AfterColon /\ AfterColon' /\ chIndex < Len(text)
  BY DEF AssignmentFound, tokenVars, fileVars, Busy, Ch, CurrentCh, PosFromOffset,
         AfterColon
<1>2. ~InAssignment /\ lexeme' # NoLexeme
  BY <1>1, ExtendedFacts DEF AssignmentFound, InAssignment
<1>3. ScanInvariant' /\ Last(stack') = "ASSIGNMENT"
  <2>1. "ASSIGNMENT" \in LiveStates
    BY DEF LiveStates, States
  <2> QED BY <1>1, <1>2, <2>1, NextScan
<1>4. LexemeIsContiguous'
  <2>1. lexeme'.start < lexeme'.end /\ lexeme'.end = chIndex' + 1
    BY <1>1, <1>2, ExtendedFacts, ExtendedCovers DEF Lexeme
  <2> QED BY <1>3, <2>1 DEF LexemeIsContiguous
<1>5. Frontier' = Frontier
  BY <1>1, <1>2, FrontierFacts DEF Frontier
<1>6. TokensBehind' /\ TokensInOrder'
  BY <1>1, <1>5, FrontierFacts, OrderKept DEF Busy
<1>7. NothingLost'
  <2>1. \A p \in Pending : WillKeep(p)
    BY <1>1, <1>2, ExtendedCovers DEF WillKeep, Pending
  <2> QED BY <1>1, <2>1, NothingLostKept
<1> QED BY <1>1, <1>3, <1>4, <1>6, <1>7 DEF Inv, MayLex

(* "}#": the comment is a token and the "}" is the next lexeme. *)
LEMMA CommentClosedKeeps ==
  ASSUME Busy, TypeOK', Inv, ~InAssignment, CommentClosed PROVE Inv'
<1> DEFINE tok == Token("COMMENTS", lexeme)
<1>1. /\ tok \in TokenRecord /\ tok.start = lexeme.start /\ tok.end = lexeme.end
      /\ lexeme \in Lexeme /\ chIndex \in Nat
  BY ExtendedFacts, TokenIsRecord DEF Busy
<1>2. /\ tokens' = Append(tokens, tok) /\ lexeme' = [start |-> chIndex, end |-> chIndex + 1]
      /\ stack' = LegalStack("COMMENT_CLOSE_BRACE")
      /\ text' = text /\ phase' = "lexing" /\ chIndex' = chIndex + 1
  BY DEF CommentClosed, Consume, fileVars, Busy
<1> HIDE DEF tok
<1>3. lexeme' # NoLexeme /\ lexeme'.start = chIndex /\ lexeme'.end = chIndex + 1
  BY <1>1, <1>2 DEF NoLexeme
<1>4. ScanInvariant' /\ Last(stack') = "COMMENT_CLOSE_BRACE"
  <2>1. "COMMENT_CLOSE_BRACE" \in LiveStates
    BY DEF LiveStates, States
  <2> QED BY <1>2, <2>1, NextScan
<1>5. LexemeIsContiguous'
  BY <1>1, <1>2, <1>3, <1>4 DEF LexemeIsContiguous
<1>6. TokensBehind' /\ TokensInOrder'
  <2>1. Frontier' = chIndex /\ Frontier \in Nat
    BY <1>3, FrontierFacts DEF Frontier
  <2>2. CASE lexeme = NoLexeme
    <3>1. Span(tok) = {} /\ tok.end = 0 /\ Frontier = chIndex
      BY <2>2, <1>1 DEF Frontier, Span, NoLexeme
    <3>2. tok.end <= Frontier' /\ Frontier <= Frontier'
      BY <1>1, <2>1, <3>1
    <3> QED BY <1>1, <1>2, <3>1, <3>2, OrderExtended DEF Busy
  <2>3. CASE lexeme # NoLexeme
    <3>1. tok.start = Frontier /\ tok.end = chIndex /\ Frontier < chIndex
      BY <2>3, <1>1, ExtendedFacts, FrontierFacts
    <3>2. tok.end <= Frontier' /\ Frontier <= Frontier'
      BY <1>1, <2>1, <3>1
    <3> QED BY <1>1, <1>2, <3>1, <3>2, OrderExtended DEF Busy
  <2> QED BY <2>2, <2>3
<1>7. NothingLost'
  <2>1. /\ \A i \in DOMAIN tokens : i \in DOMAIN tokens' /\ tokens'[i] = tokens[i]
        /\ \A p \in Span(tok) : WillKeep(p)
    BY <1>1, <1>2, AppendKeeps DEF Busy
  <2>2. \A p \in Pending : WillKeep(p)
    BY <1>1, <2>1 DEF Pending, Span
  <2>3. WillKeep(chIndex)
    BY <1>1, <1>3 DEF WillKeep, Pending
  <2> QED BY <1>2, <2>1, <2>2, <2>3, NothingLostKept
<1> QED BY <1>2, <1>4, <1>5, <1>6, <1>7 DEF Inv, MayLex

(* error() leaves everything but the stack and the phase alone. *)
LEMMA FailKeeps ==
  ASSUME TypeOK, Inv, ~InAssignment, Fail PROVE Inv'
<1>1. /\ UNCHANGED <<text, chIndex, lexeme, tokens>> /\ phase' = "failed"
      /\ stack' = <<"NONE">>
  BY DEF Fail, tokenVars
<1>2. Last(stack') = "NONE"
  BY <1>1 DEF Last
<1>3. LexemeIsContiguous'
  BY <1>1, <1>2 DEF Inv, LexemeIsContiguous, InAssignment
<1>4. NothingLost' /\ TokensInOrder' /\ TokensBehind'
  BY <1>1 DEF Inv, NothingLost, TokensInOrder, TokensBehind, Kept, Pending, Frontier
<1> QED BY <1>1, <1>3, <1>4 DEF Inv, ScanInvariant, MayLex
-----------------------------------------------------------------------------
(* The invariant. *)

(* Every call of processCharacter keeps the invariant. *)
LEMMA ScanKeeps ==
  ASSUME TypeOK, TypeOK', Inv, ProcessCharacter PROVE Inv'
<1>1. Busy /\ Outcome
  BY Outcomes DEF Inv
<1>2. CASE Fail /\ ~InAssignment
  BY <1>2, FailKeeps
<1> QED
  BY <1>1, <1>2, TakenKeeps, ReprocessedKeeps, SkippedKeeps, EmittedBeforeKeeps,
     EmittedAfterKeeps, AssignmentFoundKeeps, CommentClosedKeeps
  DEF Outcome

(* A lexer that starts a file, whatever the one before left behind.        *)
LEMMA FreshKeeps ==
  ASSUME chIndex' = 0, stack' = <<"NONE">>, lexeme' = NoLexeme, tokens' = <<>>,
         phase' # "lexing" => text' = <<>>
  PROVE  Inv'
<1>1. Last(stack') = "NONE" /\ stack' = LegalStack("NONE") /\ "NONE" \in States
  BY DEF Last, LegalStack, States
<1>2. ScanInvariant'
  BY <1>1 DEF ScanInvariant, StackIsLegal
<1>3. LexemeIsContiguous' /\ NothingLost' /\ TokensInOrder' /\ TokensBehind'
  BY DEF LexemeIsContiguous, NothingLost, TokensInOrder, TokensBehind
<1>4. MayLex' => chIndex' = Len(text')
  BY DEF MayLex
<1> QED BY <1>2, <1>3, <1>4 DEF Inv

(* Inv is preserved by every step, so it holds for all files.              *)
THEOREM Invariant == Spec => [](TypeOK /\ Inv)
<1>1. Init => TypeOK /\ Inv
  <2> SUFFICES ASSUME Init PROVE TypeOK /\ Inv
    OBVIOUS
  <2>1. TypeOK
    BY DEF Init, TypeOK, NoLexeme, States, Types
  <2>2. Last(stack) = "NONE" /\ stack = LegalStack("NONE") /\ "NONE" \in States
    BY DEF Init, Last, LegalStack, States
  <2>3. ScanInvariant
    BY <2>2 DEF Init, ScanInvariant, StackIsLegal
  <2>4. LexemeIsContiguous /\ NothingLost /\ TokensInOrder /\ TokensBehind
    BY DEF Init, LexemeIsContiguous, NothingLost, TokensInOrder, TokensBehind
  <2> QED BY <2>1, <2>3, <2>4 DEF Inv, Init, MayLex
<1>2. TypeOK /\ Inv /\ [Next]_vars => TypeOK' /\ Inv'
  <2> SUFFICES ASSUME TypeOK, Inv, [Next]_vars PROVE TypeOK' /\ Inv'
    OBVIOUS
  <2>0. TypeOK'
    BY TypeStep
  <2>1. ASSUME NEW f \in Filenames, NEW t \in Texts, Lex(f, t) PROVE Inv'
    BY <2>1, FreshKeeps DEF Lex, Clear
  <2>2. ASSUME NEW f \in Filenames, LexDuplicate(f) PROVE Inv'
    BY <2>2, FreshKeeps DEF LexDuplicate, Clear
  <2>3. CASE MayLex /\ LexUnreadable
    <3>1. ~InAssignment
      BY <2>3 DEF Inv, ScanInvariant, InAssignment, MayLex, TypeOK
    <3> QED BY <2>0, <2>3, <3>1, FailKeeps DEF LexUnreadable
  <2>4. CASE ProcessCharacter
    BY <2>0, <2>4, ScanKeeps
  <2>5. CASE EndOfText
    <3>1. /\ UNCHANGED <<text, chIndex, stack, lexeme, tokens>>
          /\ phase = "lexing" /\ phase' = "done" /\ chIndex = Len(text)
      BY <2>5 DEF EndOfText, tokenVars
    <3>2. ScanInvariant'
      BY <3>1 DEF Inv, ScanInvariant, StackIsLegal, AfterColon, TypeOK
    <3> QED
      BY <2>0, <3>1, <3>2
      DEF Inv, LexemeIsContiguous, NothingLost, TokensInOrder,
          TokensBehind, Kept, Pending, Frontier, MayLex
  <2>6. CASE UNCHANGED vars
    BY <2>0, <2>6
    DEF vars, Inv, ScanInvariant, StackIsLegal, AfterColon, Ch, CurrentCh,
        PosFromOffset, MayLex, LexemeIsContiguous, NothingLost,
        TokensInOrder, TokensBehind, Kept, Pending, Frontier
  <2> QED BY <2>0, <2>1, <2>2, <2>3, <2>4, <2>5, <2>6 DEF Next
<1> QED BY <1>1, <1>2, PTL DEF Spec

(* Every character of the part of the file that is lexed is in a token or  *)
(* in the pending lexeme, or is one that is dropped on purpose.            *)
THEOREM NoCharacterLost == Spec => []NothingLost
BY Invariant, PTL DEF Inv

(* Tokens do not overlap and come in the order of the file.                *)
THEOREM TokensOrdered == Spec => []TokensInOrder
BY Invariant, PTL DEF Inv

(* The pending lexeme ends where the lexer stands.                         *)
THEOREM LexemeContiguous == Spec => []LexemeIsContiguous
BY Invariant, PTL DEF Inv

(* A stack of two states. *)
LEMMA AppendToOne ==
  ASSUME NEW x, NEW y PROVE Append(<<x>>, y) = <<x, y>>
<1>1. <<x>> \in Seq({x, y}) /\ <<x, y>> \in Seq({x, y})
  OBVIOUS
<1>2. /\ Append(<<x>>, y) \in Seq({x, y}) /\ Len(Append(<<x>>, y)) = 2
      /\ Append(<<x>>, y)[1] = x /\ Append(<<x>>, y)[2] = y
  BY <1>1, AppendProperties
<1>3. Len(<<x, y>>) = 2 /\ <<x, y>>[1] = x /\ <<x, y>>[2] = y
  OBVIOUS
<1>4. \A i \in 1 .. 2 : Append(<<x>>, y)[i] = <<x, y>>[i]
  <2>1. \A i \in 1 .. 2 : i = 1 \/ i = 2
    OBVIOUS
  <2> QED BY <1>2, <1>3, <2>1
<1> QED BY <1>1, <1>2, <1>3, <1>4, SeqEqual

(* After a token the state stack is back at the bottom, or in the comment  *)
(* the token belongs to.                                                   *)
THEOREM StackBalanced == Spec => TokenEndsAtBottom
<1> DEFINE Balanced ==
      (phase = "lexing" /\ tokens' # tokens) =>
        stack' \in {<<"NONE">>, <<"NONE", "COMMENTS">>,
                    <<"NONE", "COMMENT_CLOSE_BRACE">>}
<1>1. TypeOK /\ Inv /\ [Next]_vars => [Balanced]_vars
  <2> SUFFICES ASSUME TypeOK, Inv, Next, phase = "lexing", tokens' # tokens
               PROVE  stack' \in {<<"NONE">>, <<"NONE", "COMMENTS">>,
                                  <<"NONE", "COMMENT_CLOSE_BRACE">>}
    OBVIOUS
  <2>1. ProcessCharacter
    BY DEF Next, MayLex, EndOfText, tokenVars
  <2>2. Outcome
    BY <2>1, Outcomes DEF Inv
  <2>3. /\ ~(\E stk : Take(stk) \/ Reprocess(stk) \/ Skip(stk) \/ SkipSpace(stk))
        /\ ~Fail /\ ~AssignmentFound
    BY DEF Take, Reprocess, Skip, SkipSpace, Fail, AssignmentFound, tokenVars
  <2>4. EmittedBefore \/ EmittedAfter \/ CommentClosed
    BY <2>2, <2>3 DEF Outcome, Taken, Reprocessed, Skipped
  <2>5. stack' \in {LegalStack("NONE"), LegalStack("COMMENTS"),
                    LegalStack("COMMENT_CLOSE_BRACE")}
    BY <2>4 DEF EmittedBefore, EmittedAfter, CommentClosed
  <2>6. /\ LegalStack("NONE") = <<"NONE">>
        /\ LegalStack("COMMENTS") = <<"NONE", "COMMENTS">>
        /\ LegalStack("COMMENT_CLOSE_BRACE") = <<"NONE", "COMMENT_CLOSE_BRACE">>
    <3>1. /\ Append(<<"NONE">>, "COMMENTS") = <<"NONE", "COMMENTS">>
          /\ Append(<<"NONE">>, "COMMENT_CLOSE_BRACE")
               = <<"NONE", "COMMENT_CLOSE_BRACE">>
      BY AppendToOne
    <3>2. Below("COMMENTS") = <<"NONE">> /\ Below("COMMENT_CLOSE_BRACE") = <<"NONE">>
      BY DEF Below
    <3> QED BY <3>1, <3>2 DEF LegalStack
  <2> QED BY <2>5, <2>6
<1> QED BY <1>1, Invariant, PTL DEF Spec, TokenEndsAtBottom
-----------------------------------------------------------------------------
(* The line counter. *)

(* A call of processCharacter that counts no line: it adds at most one     *)
(* token, of the current line.                                             *)
CountsNoLine ==
  /\ UNCHANGED <<lineVars, fileVars>>
  /\ chIndex' \in {chIndex, chIndex + 1}
  /\ \/ tokens' = tokens
     \/ \E t \in TokenRecord : t.line = line /\ tokens' = Append(tokens, t)

(* A token gets the line the lexer is at. *)
LEMMA TokenLine ==
  ASSUME TypeOK, NEW s, NEW lx \in Lexeme
  PROVE  Token(s, lx) \in TokenRecord /\ Token(s, lx).line = line
BY TokenTypeType DEF Token, TokenRecord, Lexeme, TypeOK

(* Only the whitespace a call skips is counted. *)
LEMMA LineOutcomes ==
  ASSUME Busy, NEW stk,
         \/ Take(stk) \/ Reprocess(stk) \/ Skip(stk)
         \/ EmitAndDrop \/ EmitAndReprocess \/ EmitBefore \/ TakeAndEmit(stk)
  PROVE  CountsNoLine
<1>1. lexeme \in Lexeme /\ Extended \in Lexeme
  BY ExtendedType DEF Busy, TypeOK, Lexeme
<1>2. CASE Take(stk) \/ Reprocess(stk) \/ Skip(stk)
  BY <1>2 DEF Take, Reprocess, Skip, Consume, tokenVars, CountsNoLine
<1>3. ASSUME EmitAndDrop \/ EmitAndReprocess PROVE CountsNoLine
  <2>1. tokens' = Append(tokens, Token(Last(stack), lexeme))
    BY <1>3 DEF EmitAndDrop, EmitAndReprocess, AddToken
  <2>2. UNCHANGED <<lineVars, fileVars>> /\ chIndex' \in {chIndex, chIndex + 1}
    BY <1>3 DEF EmitAndDrop, EmitAndReprocess, Consume
  <2> QED BY <1>1, <2>1, <2>2, TokenLine DEF CountsNoLine, Busy
<1>4. CASE EmitBefore
  BY <1>3, <1>4 DEF EmitBefore
<1>5. CASE TakeAndEmit(stk)
  <2>1. tokens' = Append(tokens, Token(Last(stk), Extended))
    BY <1>5 DEF TakeAndEmit, AddToken
  <2>2. UNCHANGED <<lineVars, fileVars>> /\ chIndex' = chIndex + 1
    BY <1>5 DEF TakeAndEmit, Consume
  <2> QED BY <1>1, <2>1, <2>2, TokenLine DEF CountsNoLine, Busy
<1> QED BY <1>2, <1>3, <1>4, <1>5

(* Every call skips a whitespace, counts no line or fails. *)
LEMMA ScanCounts ==
  ASSUME TypeOK, ProcessCharacter
  PROVE  CountsNoLine \/ Fail \/ \E stk : SkipSpace(stk)
<1>1. Busy
  BY DEF Busy, ProcessCharacter, Scanning, ScanNone, ScanWhitespace, ScanWord,
         ScanWordDigit, ScanDigit, ScanDecimal, ScanVersion, ScanHex,
         ScanBinary, ScanString, ScanSingle, ScanColon, ScanAssignment,
         ScanComments, ScanCommentClose, ScanUnhandled
<1>a. CASE ScanNone \/ ScanWhitespace
  BY <1>a, <1>1, LineOutcomes DEF ScanNone, ScanWhitespace
<1>b. CASE ScanWord \/ ScanWordDigit
  BY <1>b, <1>1, LineOutcomes DEF ScanWord, ScanWordDigit
<1>c. CASE ScanDigit \/ ScanDecimal
  BY <1>c, <1>1, LineOutcomes DEF ScanDigit, ScanDecimal
<1>d. CASE ScanVersion \/ ScanHex \/ ScanBinary
  BY <1>d, <1>1, LineOutcomes DEF ScanVersion, ScanHex, ScanBinary
<1>e. CASE ScanString \/ ScanSingle \/ ScanCommentClose \/ ScanUnhandled
  BY <1>e, <1>1, LineOutcomes
  DEF ScanString, ScanSingle, ScanCommentClose, ScanUnhandled
<1>f. CASE ScanColon
  <2>1. CASE Ch = "=" /\ lexeme' = Extended /\ stack' = Push("ASSIGNMENT")
             /\ UNCHANGED <<chIndex, tokenVars, lineVars, fileVars>>
    BY <2>1 DEF tokenVars, CountsNoLine
  <2> QED BY <1>f, <1>1, <2>1, LineOutcomes DEF ScanColon
<1>g. CASE ScanAssignment
  BY <1>g, <1>1, LineOutcomes DEF ScanAssignment
<1>h. CASE ScanComments
  <2>1. CASE CommentStart /\ TakeAndEmit(Push("COMMENT_OPEN_BRACE"))
    BY <2>1, <1>1, LineOutcomes
  <2>2. CASE /\ tokens' = Append(tokens, Token("COMMENTS", lexeme))
             /\ Consume
             /\ UNCHANGED <<lineVars, fileVars>>
    <3>1. lexeme \in Lexeme
      BY DEF TypeOK, Lexeme
    <3> QED BY <2>2, <3>1, TokenLine DEF Consume, CountsNoLine
  <2>3. CASE EmitAndDrop \/ Take(stack)
    BY <2>3, <1>1, LineOutcomes
  <2> QED BY <1>h, <2>1, <2>2, <2>3 DEF ScanComments
<1> QED
  BY <1>a, <1>b, <1>c, <1>d, <1>e, <1>f, <1>g, <1>h DEF ProcessCharacter

(* Counting no line keeps the line counter right. *)
LEMMA UncountedKeeps ==
  ASSUME Busy, LineNeverAhead, CountsNoLine
  PROVE  LineNeverAhead'
<1>1. /\ line' = line /\ newLines' = newLines /\ text' = text
      /\ chIndex \in Nat /\ chIndex' \in {chIndex, chIndex + 1}
      /\ tokens \in Seq(TokenRecord) /\ line \in Nat
  BY DEF CountsNoLine, lineVars, fileVars, Busy, TypeOK, TokenRecord
<1>2. NewLinesSeen \subseteq NewLinesSeen'
  BY <1>1 DEF NewLinesSeen
<1>3. /\ line = Len(newLines) + 1
      /\ \A i \in DOMAIN newLines : newLines[i] \in NewLinesSeen
      /\ \A i, j \in DOMAIN newLines : i < j => newLines[i] < newLines[j]
      /\ \A i \in DOMAIN tokens : tokens[i].line <= line
  BY DEF LineNeverAhead, Busy
<1>4. \A i \in DOMAIN tokens' : tokens'[i].line <= line
  <2>1. CASE tokens' = tokens
    BY <1>3, <2>1
  <2>2. ASSUME NEW t \in TokenRecord, t.line = line, tokens' = Append(tokens, t)
        PROVE  \A i \in DOMAIN tokens' : tokens'[i].line <= line
    <3> SUFFICES ASSUME NEW i \in DOMAIN tokens' PROVE tokens'[i].line <= line
      OBVIOUS
    <3>1. i \in 1 .. (Len(tokens) + 1)
      BY <1>1, <2>2, AppendProperties
    <3>2. CASE i = Len(tokens) + 1
      BY <1>1, <2>2, <3>2, AppendProperties
    <3>3. CASE i # Len(tokens) + 1
      <4>1. i \in 1 .. Len(tokens) /\ tokens'[i] = tokens[i]
        BY <1>1, <2>2, <3>1, <3>3, AppendProperties
      <4>2. i \in DOMAIN tokens
        BY <1>1, <4>1
      <4> QED BY <1>3, <4>1, <4>2
    <3> QED BY <3>2, <3>3
  <2> QED BY <2>1, <2>2 DEF CountsNoLine
<1>5. \A i \in DOMAIN newLines' : newLines'[i] \in NewLinesSeen'
  BY <1>1, <1>2, <1>3
<1> HIDE DEF NewLinesSeen
<1> QED BY <1>1, <1>3, <1>4, <1>5 DEF LineNeverAhead

(* Skipping a whitespace counts it if it is the end of a line. *)
LEMMA CountedKeeps ==
  ASSUME Busy, LineNeverAhead, NEW stk, SkipSpace(stk)
  PROVE  LineNeverAhead'
<1>1. /\ text' = text /\ tokens' = tokens /\ chIndex' = chIndex + 1
      /\ chIndex \in Nat /\ line \in Nat /\ newLines \in Seq(Nat)
      /\ tokens \in Seq(TokenRecord)
  BY DEF SkipSpace, Consume, tokenVars, fileVars, Busy, TypeOK, TokenRecord
<1>2. /\ line = Len(newLines) + 1
      /\ \A i \in DOMAIN newLines : newLines[i] \in NewLinesSeen
      /\ \A i, j \in DOMAIN newLines : i < j => newLines[i] < newLines[j]
      /\ \A i \in DOMAIN tokens : tokens[i].line <= line
  BY DEF LineNeverAhead, Busy
<1>3. NewLinesSeen \subseteq NewLinesSeen'
  BY <1>1 DEF NewLinesSeen
<1>4. CASE Ch # "\n"
  <2>1. line' = line /\ newLines' = newLines
    BY <1>4 DEF SkipSpace, CountNewLine, lineVars
  <2>2. \A i \in DOMAIN newLines' : newLines'[i] \in NewLinesSeen'
    BY <1>2, <1>3, <2>1
  <2> QED BY <1>1, <1>2, <2>1, <2>2 DEF LineNeverAhead
<1>5. CASE Ch = "\n"
  <2>1. newLines' = Append(newLines, chIndex) /\ line' = line + 1
    BY <1>5 DEF SkipSpace, CountNewLine
  <2>2. chIndex \in NewLinesSeen'
    <3>1. text[chIndex + 1] = "\n"
      BY <1>5, CharIsText DEF Busy
    <3> QED BY <1>1, <3>1 DEF NewLinesSeen
  <2>3. \A p \in NewLinesSeen : p \in Nat /\ p < chIndex
    BY <1>1 DEF NewLinesSeen
  <2>4. /\ Len(newLines') = Len(newLines) + 1
        /\ DOMAIN newLines' = 1 .. (Len(newLines) + 1)
        /\ newLines'[Len(newLines) + 1] = chIndex
        /\ \A i \in 1 .. Len(newLines) : newLines'[i] = newLines[i]
    BY <1>1, <2>1, AppendProperties
  <2>5. \A i \in 1 .. Len(newLines) :
          newLines'[i] \in NewLinesSeen /\ newLines'[i] < chIndex
    <3>1. DOMAIN newLines = 1 .. Len(newLines)
      BY <1>1
    <3> QED BY <1>2, <2>3, <2>4, <3>1
  <2>6. \A i \in DOMAIN newLines' : newLines'[i] \in NewLinesSeen'
    <3> SUFFICES ASSUME NEW i \in DOMAIN newLines'
                 PROVE  newLines'[i] \in NewLinesSeen'
      OBVIOUS
    <3>1. CASE i = Len(newLines) + 1
      BY <2>2, <2>4, <3>1
    <3>2. CASE i # Len(newLines) + 1
      <4>1. i \in 1 .. Len(newLines)
        BY <1>1, <2>4, <3>2
      <4> QED BY <1>3, <2>5, <4>1
    <3> QED BY <3>1, <3>2
  <2>7. \A i, j \in DOMAIN newLines' : i < j => newLines'[i] < newLines'[j]
    <3> SUFFICES ASSUME NEW i \in DOMAIN newLines', NEW j \in DOMAIN newLines',
                        i < j
                 PROVE  newLines'[i] < newLines'[j]
      OBVIOUS
    <3>1. i \in 1 .. Len(newLines)
      BY <1>1, <2>4
    <3>2. CASE j = Len(newLines) + 1
      BY <2>4, <2>5, <3>1, <3>2
    <3>3. CASE j # Len(newLines) + 1
      <4>1. j \in 1 .. Len(newLines) /\ DOMAIN newLines = 1 .. Len(newLines)
        BY <1>1, <2>4, <3>3
      <4>2. newLines[i] < newLines[j]
        BY <1>2, <3>1, <4>1
      <4> QED BY <2>4, <3>1, <4>1, <4>2
    <3> QED BY <3>2, <3>3
  <2>8. \A i \in DOMAIN tokens' : tokens'[i].line <= line'
    <3>1. \A i \in DOMAIN tokens : tokens[i] \in TokenRecord
      BY <1>1
    <3>2. \A i \in DOMAIN tokens : tokens[i].line \in Nat
      BY <3>1 DEF TokenRecord
    <3>3. \A n \in Nat : n <= line => n <= line'
      BY <1>1, <2>1
    <3> QED BY <1>1, <1>2, <3>2, <3>3
  <2> QED BY <1>1, <1>2, <2>1, <2>4, <2>6, <2>7, <2>8 DEF LineNeverAhead
<1> QED BY <1>4, <1>5

(* Every step keeps the line counter right. *)
LEMMA LineStep ==
  ASSUME TypeOK, LineNeverAhead, [Next]_vars
  PROVE  LineNeverAhead'
<1>1. ASSUME NEW f, NEW t, Lex(f, t) PROVE LineNeverAhead'
  BY <1>1 DEF Lex, Clear, LineNeverAhead
<1>2. CASE LexUnreadable \/ Fail \/ \E f \in Filenames : LexDuplicate(f)
  BY <1>2 DEF LexUnreadable, Fail, LexDuplicate, LineNeverAhead
<1>3. CASE ProcessCharacter
  <2>1. Busy
    BY <1>3 DEF Busy, ProcessCharacter, Scanning, ScanNone, ScanWhitespace,
                ScanWord, ScanWordDigit, ScanDigit, ScanDecimal, ScanVersion,
                ScanHex, ScanBinary, ScanString, ScanSingle, ScanColon,
                ScanAssignment, ScanComments, ScanCommentClose, ScanUnhandled
  <2> QED BY <1>2, <1>3, <2>1, ScanCounts, UncountedKeeps, CountedKeeps
<1>4. CASE EndOfText
  BY <1>4 DEF EndOfText, tokenVars, lineVars, LineNeverAhead, NewLinesSeen
<1>5. CASE UNCHANGED vars
  BY <1>5 DEF vars, LineNeverAhead, NewLinesSeen
<1> QED BY <1>1, <1>2, <1>3, <1>4, <1>5 DEF Next

(* The line counter counts every "\n" between tokens at most once and in   *)
(* order, and no token has a line the counter has not reached.             *)
THEOREM LinesNeverAhead == Spec => []LineNeverAhead
<1>1. Init => LineNeverAhead
  BY DEF Init, LineNeverAhead
<1>2. TypeOK /\ LineNeverAhead /\ [Next]_vars => LineNeverAhead'
  BY LineStep
<1>3. Spec => []TypeOK
  BY TypeCorrect
<1> QED BY <1>1, <1>2, <1>3, PTL DEF Spec
-----------------------------------------------------------------------------
(* The text of a lexeme. *)

(* The text of a lexeme within the file, character by character. *)
LEMMA LexemeTextIs ==
  ASSUME TypeOK, NEW lx, lx.start \in Nat, lx.end \in Nat, lx.start <= lx.end,
         lx.end <= Len(text)
  PROVE  /\ LexemeText(lx) \in Seq(Chars) /\ Len(LexemeText(lx)) = lx.end - lx.start
         /\ \A i \in 1 .. (lx.end - lx.start) : LexemeText(lx)[i] = text[lx.start + i]
<1> DEFINE b == lx.start
<1> DEFINE e == lx.end
<1> DEFINE m == b + 1
<1>1. /\ b \in Nat /\ e \in Nat /\ b <= e /\ e <= Len(text)
      /\ m \in Nat /\ m = b + 1 /\ text \in Seq(Chars)
  BY DEF TypeOK
<1>2. LexemeText(lx) = SubSeq(text, m, e)
  BY DEF LexemeText
<1> HIDE DEF b, e, m
<1>3. \A i \in m .. e : text[i] \in Chars
  BY <1>1
<1>4. /\ SubSeq(text, m, e) \in Seq(Chars)
      /\ Len(SubSeq(text, m, e)) = IF m <= e THEN e - m + 1 ELSE 0
      /\ \A i \in 1 .. e - m + 1 : SubSeq(text, m, e)[i] = text[m + i - 1]
  BY <1>1, <1>3, SubSeqProperties, SMTT(40)
<1>5. ASSUME NEW i \in 1 .. (e - b)
      PROVE  SubSeq(text, m, e)[i] = text[b + i]
  <2>1. i \in 1 .. e - m + 1 /\ m + i - 1 = b + i
    BY <1>1
  <2>2. SubSeq(text, m, e)[i] = text[m + i - 1]
    BY <1>4, <2>1
  <2> QED BY <2>1, <2>2
<1>6. Len(SubSeq(text, m, e)) = e - b
  BY <1>1, <1>4
<1> QED BY <1>2, <1>4, <1>5, <1>6 DEF b, e

(* Sequences of the same length with the same elements are the same. *)
LEMMA SameElements ==
  ASSUME NEW S, NEW p \in Seq(S), NEW q \in Seq(S), Len(p) = Len(q),
         \A i \in 1 .. Len(p) : p[i] = q[i]
  PROVE  p = q
<1>1. p = [i \in 1 .. Len(p) |-> p[i]] /\ q = [i \in 1 .. Len(q) |-> q[i]]
  OBVIOUS
<1> QED BY <1>1

(* The characters that are taken and not yet a token. *)
Taking == LexemeText(lexeme)

(* What the pending lexeme has taken ends just before the current          *)
(* character.                                                              *)
LEMMA TakingIs ==
  ASSUME Busy, Inv
  PROVE  /\ Taking \in Seq(Chars)
         /\ lexeme = NoLexeme <=> Taking = <<>>
         /\ lexeme # NoLexeme /\ ~InAssignment =>
              chIndex > 0 /\ Taking[Len(Taking)] = text[chIndex]
         /\ ~InAssignment => LexemeText(Extended) = Append(Taking, Ch)
<1>1. /\ lexeme.start \in Nat /\ lexeme.end \in Nat /\ chIndex \in Nat
      /\ chIndex < Len(text) /\ Len(text) \in Nat
      /\ Ch = text[chIndex + 1] /\ Ch \in Chars
  BY CharIsText DEF Busy, TypeOK
<1>2. CASE lexeme = NoLexeme
  <2>1. Taking \in Seq(Chars) /\ Len(Taking) = 0
    BY <1>1, <1>2, NoLexemeNoPending, LexemeTextIs DEF Taking, Busy
  <2>2. Taking = <<>>
    BY <2>1
  <2>3. /\ Extended.start = chIndex /\ Extended.end = chIndex + 1
    BY <1>2, ExtendedFacts
  <2>4. /\ LexemeText(Extended) \in Seq(Chars) /\ Len(LexemeText(Extended)) = 1
        /\ LexemeText(Extended)[1] = Ch
    <3> DEFINE x == Extended
    <3>1. /\ x.start = chIndex /\ x.end = chIndex + 1 /\ x.start \in Nat /\ x.end \in Nat
          /\ x.start <= x.end /\ x.end <= Len(text) /\ x.end - x.start = 1
      BY <1>1, <2>3
    <3> HIDE DEF x
    <3>2. /\ LexemeText(x) \in Seq(Chars) /\ Len(LexemeText(x)) = 1
          /\ \A i \in 1 .. 1 : LexemeText(x)[i] = text[chIndex + i]
      BY <3>1, LexemeTextIs DEF Busy
    <3> QED BY <1>1, <3>2 DEF x
  <2>5. Append(Taking, Ch) \in Seq(Chars) /\ Len(Append(Taking, Ch)) = 1
        /\ Append(Taking, Ch)[1] = Ch
    BY <1>1, <2>1, <2>2, AppendProperties
  <2>6. LexemeText(Extended) = Append(Taking, Ch)
    BY <2>4, <2>5, SameElements
  <2> QED BY <1>2, <2>1, <2>2, <2>6
<1>3. CASE lexeme # NoLexeme
  <2>1. /\ lexeme.start < lexeme.end
        /\ lexeme.end = IF InAssignment THEN chIndex + 1 ELSE chIndex
        /\ Extended.start = lexeme.start /\ Extended.end = lexeme.end + 1
    BY <1>3, ExtendedFacts
  <2> DEFINE n == lexeme.end - lexeme.start
  <2>2. /\ n \in Nat /\ n > 0 /\ Taking \in Seq(Chars) /\ Len(Taking) = n
        /\ \A i \in 1 .. n : Taking[i] = text[lexeme.start + i]
    BY <1>1, <2>1, LexemeTextIs, SMTT(40) DEF Taking, Busy
  <2>3. Taking # <<>>
    BY <2>2
  <2>4. ~InAssignment => chIndex > 0 /\ Taking[Len(Taking)] = text[chIndex]
    BY <1>1, <2>1, <2>2
  <2>5. ~InAssignment => LexemeText(Extended) = Append(Taking, Ch)
    <3> SUFFICES ASSUME ~InAssignment PROVE LexemeText(Extended) = Append(Taking, Ch)
      OBVIOUS
    <3>1. /\ LexemeText(Extended) \in Seq(Chars) /\ Len(LexemeText(Extended)) = n + 1
          /\ \A i \in 1 .. n + 1 : LexemeText(Extended)[i] = text[lexeme.start + i]
      <4> DEFINE x == Extended
      <4>1. /\ x.start = lexeme.start /\ x.end = chIndex + 1
            /\ x.start \in Nat /\ x.end \in Nat
            /\ x.start <= x.end /\ x.end <= Len(text) /\ x.end - x.start = n + 1
        BY <1>1, <2>1
      <4> HIDE DEF x, n
      <4>2. /\ LexemeText(x) \in Seq(Chars) /\ Len(LexemeText(x)) = n + 1
            /\ \A i \in 1 .. n + 1 : LexemeText(x)[i] = text[x.start + i]
        BY <4>1, LexemeTextIs DEF Busy
      <4> QED BY <4>1, <4>2 DEF x
    <3>2. lexeme.start + (n + 1) = chIndex + 1
      BY <1>1, <2>1
    <3> HIDE DEF n
    <3>3. /\ Append(Taking, Ch) \in Seq(Chars) /\ Len(Append(Taking, Ch)) = n + 1
          /\ \A i \in 1 .. n : Append(Taking, Ch)[i] = Taking[i]
          /\ Append(Taking, Ch)[n + 1] = Ch
      BY <1>1, <2>2, AppendProperties
    <3>4. \A i \in 1 .. n + 1 : LexemeText(Extended)[i] = Append(Taking, Ch)[i]
      <4> SUFFICES ASSUME NEW i \in 1 .. n + 1
                   PROVE  LexemeText(Extended)[i] = Append(Taking, Ch)[i]
        OBVIOUS
      <4>1. CASE i \in 1 .. n
        BY <2>2, <3>1, <3>3, <4>1
      <4>2. CASE i = n + 1
        BY <1>1, <3>1, <3>2, <3>3, <4>2
      <4> QED BY <2>2, <4>1, <4>2
    <3> QED BY <3>1, <3>3, <3>4, SameElements
  <2> QED BY <1>3, <2>2, <2>3, <2>4, <2>5
<1> QED BY <1>2, <1>3

(* What WellFormed says of each type. *)
LEMMA TypesApart ==
  ASSUME NEW t \in SingleStates
  PROVE  t \notin {"INTEGER_LITERAL", "DECIMAL_LITERAL", "VERSION_LITERAL",
                   "HEXADECIMAL_LITERAL", "BINARY_LITERAL", "IDENTIFIER", "KEYWORD",
                   "BOOLEAN_LITERAL", "ASSIGMENT_OPERATOR", "COLON", "STRING_LITERAL",
                   "COMMENT_START", "COMMENT_END", "COMMENT", "UNKNOWN"}
BY DEF SingleStates, SingleState

Number(s) == s # <<>> /\ AllIn(s, Digit \cup {"."}) /\ s[1] \in Digit
Word(s) == s # <<>> /\ s[1] \in Alpha /\ AllIn(s, Alpha \cup Digit)
Points(s) == Positions(s, ".")

(* Every clause of WellFormed by itself. *)
LEMMA WellFormedIs ==
  ASSUME NEW s
  PROVE  /\ WellFormed("INTEGER_LITERAL", s) <=> s # <<>> /\ AllIn(s, Digit)
         /\ WellFormed("DECIMAL_LITERAL", s)
              <=> Number(s) /\ \E k \in DOMAIN s : Points(s) = {k}
         /\ WellFormed("VERSION_LITERAL", s)
              <=> /\ Number(s)
                  /\ \E j, k \in DOMAIN s : j # k /\ {j, k} \subseteq Points(s)
         /\ WellFormed("HEXADECIMAL_LITERAL", s) <=> Prefixed(s, "x", HexDigit)
         /\ WellFormed("BINARY_LITERAL", s) <=> Prefixed(s, "b", BinDigit)
         /\ \A t \in {"IDENTIFIER", "KEYWORD", "BOOLEAN_LITERAL"} :
              WellFormed(t, s) <=> Word(s)
         /\ WellFormed("ASSIGMENT_OPERATOR", s)
              <=> Len(s) >= 2 /\ Last(s) = "=" /\ AllIn(Front(s), {":"})
         /\ WellFormed("COLON", s) <=> s # <<>> /\ AllIn(s, {":"})
         /\ WellFormed("STRING_LITERAL", s) <=> Positions(s, "\"") = {}
         /\ WellFormed("COMMENT_START", s) <=> s # <<>> /\ Last(s) = "{"
         /\ WellFormed("COMMENT_END", s) <=> s = <<"}">>
         /\ WellFormed("COMMENT", s)
              <=> \A i \in 1 .. (Len(s) - 1) : s[i] = "}" => s[i + 1] # "#"
         /\ \A t \in SingleStates :
              WellFormed(t, s) <=> \E ch \in Single : s = <<ch>> /\ SingleState(ch) = t
<1> USE DEF WellFormed
<1>1. WellFormed("INTEGER_LITERAL", s) <=> s # <<>> /\ AllIn(s, Digit)
  BY TypesApart
<1>2. WellFormed("DECIMAL_LITERAL", s)
        <=> Number(s) /\ \E k \in DOMAIN s : Points(s) = {k}
  BY TypesApart DEF Number, Points
<1>3. WellFormed("VERSION_LITERAL", s)
        <=> Number(s) /\ \E j, k \in DOMAIN s : j # k /\ {j, k} \subseteq Points(s)
  BY TypesApart DEF Number, Points
<1>4. WellFormed("HEXADECIMAL_LITERAL", s) <=> Prefixed(s, "x", HexDigit)
  BY TypesApart
<1>5. WellFormed("BINARY_LITERAL", s) <=> Prefixed(s, "b", BinDigit)
  BY TypesApart
<1>6. \A t \in {"IDENTIFIER", "KEYWORD", "BOOLEAN_LITERAL"} : WellFormed(t, s) <=> Word(s)
  BY TypesApart DEF Word
<1>7. WellFormed("ASSIGMENT_OPERATOR", s)
        <=> Len(s) >= 2 /\ Last(s) = "=" /\ AllIn(Front(s), {":"})
  BY TypesApart
<1>8. WellFormed("COLON", s) <=> s # <<>> /\ AllIn(s, {":"})
  BY TypesApart
<1>9. WellFormed("STRING_LITERAL", s) <=> Positions(s, "\"") = {}
  BY TypesApart
<1>10. WellFormed("COMMENT_START", s) <=> s # <<>> /\ Last(s) = "{"
  BY TypesApart
<1>11. WellFormed("COMMENT_END", s) <=> s = <<"}">>
  BY TypesApart
<1>12. WellFormed("COMMENT", s)
         <=> \A i \in 1 .. (Len(s) - 1) : s[i] = "}" => s[i + 1] # "#"
  BY TypesApart
<1>13. \A t \in SingleStates :
         WellFormed(t, s) <=> \E ch \in Single : s = <<ch>> /\ SingleState(ch) = t
  BY TypesApart
<1> HIDE DEF WellFormed
<1> QED
  BY <1>1, <1>2, <1>3, <1>4, <1>5, <1>6, <1>7, <1>8, <1>9, <1>10, <1>11, <1>12, <1>13

(* The characters of a text that is one longer. *)
LEMMA AppendIs ==
  ASSUME NEW s \in Seq(Chars), NEW c \in Chars
  PROVE  /\ Append(s, c) \in Seq(Chars) /\ Len(s) \in Nat
         /\ Len(Append(s, c)) = Len(s) + 1 /\ Append(s, c) # <<>>
         /\ DOMAIN Append(s, c) = 1 .. (Len(s) + 1) /\ DOMAIN s = 1 .. Len(s)
         /\ \A i \in 1 .. Len(s) : Append(s, c)[i] = s[i]
         /\ Append(s, c)[Len(s) + 1] = c /\ Last(Append(s, c)) = c
         /\ s # <<>> => 1 \in 1 .. Len(s) /\ Len(s) \in 1 .. Len(s)
BY AppendProperties, EmptySeq DEF Last

(* A text of some characters with one more of them. *)
LEMMA AllInAppend ==
  ASSUME NEW s \in Seq(Chars), NEW c \in Chars, NEW C, AllIn(s, C), c \in C
  PROVE  AllIn(Append(s, c), C)
BY AppendIs DEF AllIn

(* A text of some characters is one of more characters. *)
LEMMA AllInLarger ==
  ASSUME NEW s, NEW B, NEW C, AllIn(s, B), B \subseteq C
  PROVE  AllIn(s, C)
BY DEF AllIn

(* Where a character stands in a text that is one longer. *)
LEMMA PositionsAppend ==
  ASSUME NEW s \in Seq(Chars), NEW c \in Chars, NEW ch
  PROVE  /\ Positions(Append(s, c), ch)
              = Positions(s, ch) \cup (IF c = ch THEN {Len(s) + 1} ELSE {})
         /\ Positions(s, ch) \subseteq 1 .. Len(s)
<1> DEFINE x == Append(s, c)
<1> DEFINE n == Len(s)
<1>1. /\ DOMAIN x = 1 .. (n + 1) /\ DOMAIN s = 1 .. n /\ n \in Nat
      /\ \A i \in 1 .. n : x[i] = s[i]
      /\ x[n + 1] = c
  BY AppendIs
<1> HIDE DEF x, n
<1>2. \A i : i \in 1 .. (n + 1) <=> i \in 1 .. n \/ i = n + 1
  BY <1>1
<1> DEFINE m == n + 1
<1>3. \A i : i \in DOMAIN x <=> i \in 1 .. n \/ i = m
  BY <1>1, <1>2
<1>4. m \notin 1 .. n /\ x[m] = c
  BY <1>1
<1> HIDE DEF m
<1>5. Positions(x, ch) = Positions(s, ch) \cup (IF c = ch THEN {m} ELSE {})
  BY <1>1, <1>3, <1>4 DEF Positions
<1>6. Positions(s, ch) \subseteq 1 .. n
  BY <1>1 DEF Positions
<1> QED BY <1>5, <1>6 DEF x, n, m

(* A prefix: digits that end with a zero, the mark, and digits of its base. *)
LEMMA PrefixedIs ==
  ASSUME NEW s \in Seq(Chars), NEW mark, NEW digits
  PROVE  Prefixed(s, mark, digits) <=>
           \E k \in 2 .. Len(s) :
             /\ s[k] = mark /\ s[k - 1] = "0"
             /\ \A i \in 1 .. (k - 1) : s[i] \in Digit
             /\ \A i \in (k + 1) .. Len(s) : s[i] \in digits
<1>1. \A i \in 1 .. Len(s) : s[i] \in Chars
  OBVIOUS
<1>2. Len(s) \in Nat
  OBVIOUS
<1> DEFINE n == Len(s)
<1>3. ASSUME NEW a \in 1 .. n + 1, NEW b \in 0 .. n, NEW C
      PROVE  AllIn(SubSeq(s, a, b), C) <=> \A i \in a .. b : s[i] \in C
  <2> DEFINE r == SubSeq(s, a, b)
  <2>1. \A i \in a .. b : s[i] \in Chars
    BY <1>1, <1>2
  <2>2. /\ r \in Seq(Chars) /\ Len(r) = IF a <= b THEN b - a + 1 ELSE 0
        /\ \A i \in 1 .. (b - a + 1) : r[i] = s[a + i - 1]
    BY <1>2, <2>1, SubSeqProperties
  <2> HIDE DEF r
  <2>3. DOMAIN r = 1 .. (b - a + 1)
    <3>1. DOMAIN r = 1 .. Len(r)
      BY <2>2
    <3> HIDE DEF n
    <3>2. a > b => 1 .. (b - a + 1) = {} /\ 1 .. 0 = {}
      OBVIOUS
    <3> QED BY <2>2, <3>1, <3>2
  <2>4. ASSUME AllIn(r, C), NEW i \in a .. b
        PROVE  s[i] \in C
    <3> DEFINE j == i - a + 1
    <3>1. j \in 1 .. (b - a + 1) /\ a + j - 1 = i
      BY <1>2
    <3>2. r[j] = s[a + j - 1] /\ r[j] \in C
      BY <2>2, <2>3, <2>4, <3>1 DEF AllIn
    <3> QED BY <3>1, <3>2
  <2>5. ASSUME \A i \in a .. b : s[i] \in C, NEW j \in 1 .. (b - a + 1)
        PROVE  r[j] \in C
    <3>1. a + j - 1 \in a .. b
      BY <1>2
    <3> QED BY <2>2, <2>5, <3>1
  <2> QED BY <2>3, <2>4, <2>5 DEF AllIn, r
<1>4. ASSUME NEW k \in 2 .. n
      PROVE  /\ AllIn(SubSeq(s, 1, k - 1), Digit) <=> \A i \in 1 .. (k - 1) : s[i] \in Digit
             /\ AllIn(SubSeq(s, k + 1, n), digits) <=> \A i \in (k + 1) .. n : s[i] \in digits
  <2>1. 1 \in 1 .. n + 1 /\ k - 1 \in 0 .. n /\ k + 1 \in 1 .. n + 1 /\ n \in 0 .. n
    BY <1>2
  <2> QED BY <1>3, <2>1
<1> QED BY <1>4 DEF Prefixed

(* A prefixed literal with one more digit. *)
LEMMA PrefixedAppend ==
  ASSUME NEW s \in Seq(Chars), NEW c \in Chars, NEW mark, NEW digits,
         Prefixed(s, mark, digits), c \in digits
  PROVE  Prefixed(Append(s, c), mark, digits)
<1> DEFINE x == Append(s, c)
<1> DEFINE n == Len(s)
<1>1. /\ x \in Seq(Chars) /\ Len(x) = n + 1 /\ n \in Nat
      /\ \A i \in 1 .. n : x[i] = s[i]
      /\ x[n + 1] = c
  BY AppendIs
<1>2. PICK k \in 2 .. n : /\ s[k] = mark /\ s[k - 1] = "0"
                          /\ \A i \in 1 .. (k - 1) : s[i] \in Digit
                          /\ \A i \in (k + 1) .. n : s[i] \in digits
  BY PrefixedIs
<1> HIDE DEF x, n
<1>3. k \in 2 .. (n + 1) /\ k \in 1 .. n /\ k - 1 \in 1 .. n
  BY <1>1
<1>4. x[k] = mark /\ x[k - 1] = "0"
  BY <1>1, <1>2, <1>3
<1>5. \A i \in 1 .. (k - 1) : x[i] \in Digit
  <2>1. \A i \in 1 .. (k - 1) : i \in 1 .. n
    BY <1>1
  <2> QED BY <1>1, <1>2, <2>1
<1>6. \A i \in (k + 1) .. (n + 1) : x[i] \in digits
  <2>1. \A i \in (k + 1) .. (n + 1) : (i \in 1 .. n /\ i \in (k + 1) .. n) \/ i = n + 1
    BY <1>1
  <2> QED BY <1>1, <1>2, <2>1
<1>7. Prefixed(x, mark, digits)
  BY <1>1, <1>3, <1>4, <1>5, <1>6, PrefixedIs
<1> QED BY <1>7 DEF x

(* The mark behind a zero begins a prefixed literal. *)
LEMMA PrefixedNew ==
  ASSUME NEW s \in Seq(Chars), NEW mark \in Chars, NEW digits,
         AllIn(s, Digit), s # <<>>, Last(s) = "0"
  PROVE  Prefixed(Append(s, mark), mark, digits)
<1> DEFINE x == Append(s, mark)
<1> DEFINE n == Len(s)
<1>1. /\ x \in Seq(Chars) /\ Len(x) = n + 1 /\ n \in Nat /\ n \in 1 .. n
      /\ \A i \in 1 .. n : x[i] = s[i] /\ s[i] \in Digit
      /\ x[n + 1] = mark /\ s[n] = "0"
  BY AppendIs DEF AllIn, Last
<1> HIDE DEF x, n
<1> DEFINE k == n + 1
<1>2. k \in 2 .. k /\ k - 1 = n /\ (k + 1) .. k = {}
  BY <1>1
<1>3. x[k] = mark /\ x[k - 1] = "0" /\ \A i \in 1 .. (k - 1) : x[i] \in Digit
  BY <1>1, <1>2
<1>4. \A i \in (k + 1) .. k : x[i] \in digits
  BY <1>2
<1>5. Len(x) = k
  BY <1>1
<1> HIDE DEF k
<1>6. Prefixed(x, mark, digits)
  BY <1>1, <1>2, <1>3, <1>4, <1>5, PrefixedIs
<1> QED BY <1>6 DEF x

(* What a state has taken so far: the token it emits, or the beginning of  *)
(* one.                                                                    *)
Fits(state, s) ==
  /\ state \in {"NONE", "WHITESPACE", "EQUALS_SIGN"} \cup SingleStates => s = <<>>
  /\ state = "A_Z" => AllIn(s, Alpha)
  /\ state = "A_Z_DIGIT" => Word(s)
  /\ state = "DIGIT" => AllIn(s, Digit)
  /\ state = "DECIMAL_DIGIT" => WellFormed("DECIMAL_LITERAL", s)
  /\ state = "VERSION_DIGIT" => WellFormed("VERSION_LITERAL", s)
  /\ state = "HEXADECIMAL_DIGIT" => WellFormed("HEXADECIMAL_LITERAL", s)
  /\ state = "BINARY_DIGIT" => WellFormed("BINARY_LITERAL", s)
  /\ state = "STRING" => WellFormed("STRING_LITERAL", s)
  /\ state = "COLON" => AllIn(s, {":"})
  /\ state = "ASSIGNMENT" => WellFormed("ASSIGMENT_OPERATOR", s)
  /\ state = "COMMENTS" => WellFormed("COMMENT", s)
  /\ state = "COMMENT_CLOSE_BRACE" => WellFormed("COMMENT_END", s)

(* The names of the states are apart. *)
LEMMA FitsIs ==
  ASSUME NEW s
  PROVE  /\ \A t \in {"NONE", "WHITESPACE", "EQUALS_SIGN"} \cup SingleStates :
              Fits(t, s) <=> s = <<>>
         /\ Fits("A_Z", s) <=> AllIn(s, Alpha)
         /\ Fits("A_Z_DIGIT", s) <=> Word(s)
         /\ Fits("DIGIT", s) <=> AllIn(s, Digit)
         /\ Fits("DECIMAL_DIGIT", s) <=> WellFormed("DECIMAL_LITERAL", s)
         /\ Fits("VERSION_DIGIT", s) <=> WellFormed("VERSION_LITERAL", s)
         /\ Fits("HEXADECIMAL_DIGIT", s) <=> WellFormed("HEXADECIMAL_LITERAL", s)
         /\ Fits("BINARY_DIGIT", s) <=> WellFormed("BINARY_LITERAL", s)
         /\ Fits("STRING", s) <=> WellFormed("STRING_LITERAL", s)
         /\ Fits("COLON", s) <=> AllIn(s, {":"})
         /\ Fits("ASSIGNMENT", s) <=> WellFormed("ASSIGMENT_OPERATOR", s)
         /\ Fits("COMMENTS", s) <=> WellFormed("COMMENT", s)
         /\ Fits("COMMENT_CLOSE_BRACE", s) <=> WellFormed("COMMENT_END", s)
BY SingleStatesApart DEF Fits, NumberStates

(* Texts with a pair of characters that must not follow each other, and    *)
(* names for three characters whose strings the SMT backend cannot encode. *)
Never(s, a, b) == \A i \in 1 .. (Len(s) - 1) : s[i] = a => s[i + 1] # b
Quote == "\""
Mark == "#"
Brace == "}"

(* What has to fit, in terms of the characters. *)
LEMMA FitsText ==
  ASSUME NEW s
  PROVE  /\ Fits("DECIMAL_DIGIT", s) <=> Number(s) /\ \E k \in DOMAIN s : Points(s) = {k}
         /\ Fits("VERSION_DIGIT", s)
              <=> /\ Number(s)
                  /\ \E j, k \in DOMAIN s : j # k /\ {j, k} \subseteq Points(s)
         /\ Fits("STRING", s) <=> Positions(s, Quote) = {}
         /\ Fits("COMMENTS", s) <=> Never(s, "}", Mark)
<1>1. Fits("DECIMAL_DIGIT", s) <=> WellFormed("DECIMAL_LITERAL", s)
  BY FitsIs
<1>2. Fits("VERSION_DIGIT", s) <=> WellFormed("VERSION_LITERAL", s)
  BY FitsIs
<1>3. Fits("STRING", s) <=> WellFormed("STRING_LITERAL", s)
  BY FitsIs
<1>4. Fits("COMMENTS", s) <=> WellFormed("COMMENT", s)
  BY FitsIs
<1> QED BY <1>1, <1>2, <1>3, <1>4, WellFormedIs DEF Never, Quote, Mark

(* Nothing taken yet. *)
LEMMA EmptyFits ==
  \A t \in {"NONE", "WHITESPACE", "EQUALS_SIGN", "A_Z", "DIGIT", "STRING", "COLON",
            "COMMENTS"} \cup SingleStates : Fits(t, <<>>)
<1>1. AllIn(<<>>, Alpha) /\ AllIn(<<>>, Digit) /\ AllIn(<<>>, {":"})
      /\ Positions(<<>>, "\"") = {}
  BY DEF AllIn, Positions
<1>2. Len(<<>>) = 0 /\ 1 .. (0 - 1) = {}
  OBVIOUS
<1>3. WellFormed("STRING_LITERAL", <<>>) /\ WellFormed("COMMENT", <<>>)
  BY <1>1, <1>2, WellFormedIs
<1> QED BY <1>1, <1>3, FitsIs

(* One character more. *)
LEMMA WordGrows ==
  ASSUME NEW s \in Seq(Chars), NEW c \in Chars
  PROVE  /\ Fits("A_Z", s) /\ c \in Alpha => Fits("A_Z", Append(s, c))
         /\ Fits("A_Z", s) /\ s # <<>> => Fits("A_Z_DIGIT", s)
         /\ Fits("A_Z_DIGIT", s) /\ c \in Alpha \cup Digit => Fits("A_Z_DIGIT", Append(s, c))
<1>1. Fits("A_Z", s) /\ c \in Alpha => Fits("A_Z", Append(s, c))
  BY FitsIs, AllInAppend
<1>2. Fits("A_Z", s) /\ s # <<>> => Word(s)
  BY FitsIs, AppendIs DEF Word, AllIn
<1>3. Word(s) /\ c \in Alpha \cup Digit => Word(Append(s, c))
  BY AppendIs, AllInAppend DEF Word
<1> QED BY <1>1, <1>2, <1>3, FitsIs

(* A number with one more digit or point. *)
LEMMA NumberGrows ==
  ASSUME NEW s \in Seq(Chars), NEW c \in Chars, Number(s), c \in Digit \cup {"."}
  PROVE  Number(Append(s, c))
BY AppendIs, AllInAppend DEF Number

(* What the character after an integer makes of it. *)
LEMMA DigitGrows ==
  ASSUME NEW s \in Seq(Chars), NEW c \in Chars, Fits("DIGIT", s)
  PROVE  /\ c \in Digit => Fits("DIGIT", Append(s, c))
         /\ s # <<>> /\ c = "." => Fits("DECIMAL_DIGIT", Append(s, c))
         /\ s # <<>> /\ Last(s) = "0" =>
              /\ c = "x" => Fits("HEXADECIMAL_DIGIT", Append(s, c))
              /\ c = "b" => Fits("BINARY_DIGIT", Append(s, c))
<1>1. AllIn(s, Digit)
  BY FitsIs
<1>2. c \in Digit => Fits("DIGIT", Append(s, c))
  BY <1>1, FitsIs, AllInAppend
<1>3. ASSUME s # <<>>, c = "."
      PROVE  Fits("DECIMAL_DIGIT", Append(s, c))
  <2>1. Number(s)
    <3>1. s[1] \in Digit
      BY <1>1, <1>3, AppendIs DEF AllIn
    <3>2. AllIn(s, Digit \cup {"."})
      BY <1>1 DEF AllIn
    <3> QED BY <1>3, <3>1, <3>2 DEF Number
  <2>2. Number(Append(s, c))
    BY <1>3, <2>1, NumberGrows
  <2>3. Points(s) = {}
    BY <1>1 DEF Points, Positions, AllIn, Digit
  <2>4. Points(Append(s, c)) = {Len(s) + 1}
    BY <1>3, <2>3, PositionsAppend DEF Points
  <2>5. Len(s) + 1 \in DOMAIN Append(s, c)
    BY AppendIs
  <2> QED BY <2>2, <2>4, <2>5, FitsText
<1>4. ASSUME s # <<>>, Last(s) = "0"
      PROVE  /\ c = "x" => Prefixed(Append(s, c), "x", HexDigit)
             /\ c = "b" => Prefixed(Append(s, c), "b", BinDigit)
  BY <1>1, <1>4, PrefixedNew
<1> QED BY <1>2, <1>3, <1>4, WellFormedIs, FitsIs

(* What the character after a decimal makes of it. *)
LEMMA DecimalGrows ==
  ASSUME NEW s \in Seq(Chars), NEW c \in Chars, Fits("DECIMAL_DIGIT", s)
  PROVE  /\ c \in Digit => Fits("DECIMAL_DIGIT", Append(s, c))
         /\ c = "." => Fits("VERSION_DIGIT", Append(s, c))
<1>1. PICK k \in DOMAIN s : Points(s) = {k} /\ Number(s)
  BY FitsText
<1>2. /\ k \in DOMAIN Append(s, c) /\ k # Len(s) + 1
      /\ Len(s) + 1 \in DOMAIN Append(s, c)
  BY AppendIs
<1>3. ASSUME c \in Digit
      PROVE  Fits("DECIMAL_DIGIT", Append(s, c))
  <2>1. c # "."
    BY <1>3 DEF Digit
  <2>2. Points(Append(s, c)) = {k}
    BY <1>1, <2>1, PositionsAppend DEF Points
  <2> QED BY <1>1, <1>2, <1>3, <2>2, NumberGrows, FitsText
<1>4. ASSUME c = "."
      PROVE  Fits("VERSION_DIGIT", Append(s, c))
  <2>1. {k, Len(s) + 1} \subseteq Points(Append(s, c))
    BY <1>1, <1>4, PositionsAppend DEF Points
  <2>2. Number(Append(s, c))
    BY <1>1, <1>4, NumberGrows
  <2> DEFINE x == Append(s, c)
  <2>3. \E a, b \in DOMAIN x : a # b /\ {a, b} \subseteq Points(x)
    BY <1>2, <2>1
  <2> HIDE DEF x
  <2>4. Number(x)
    BY <2>2 DEF x
  <2>5. Fits("VERSION_DIGIT", x)
    BY <2>3, <2>4, FitsText
  <2> QED BY <2>5 DEF x
<1> QED BY <1>3, <1>4

(* A version with one more digit or point. *)
LEMMA VersionGrows ==
  ASSUME NEW s \in Seq(Chars), NEW c \in Chars, Fits("VERSION_DIGIT", s),
         c \in Digit \cup {"."}
  PROVE  Fits("VERSION_DIGIT", Append(s, c))
<1>1. PICK j \in DOMAIN s, k \in DOMAIN s :
        j # k /\ {j, k} \subseteq Points(s) /\ Number(s)
  BY FitsText
<1>2. /\ j \in DOMAIN Append(s, c) /\ k \in DOMAIN Append(s, c)
  BY AppendIs
<1>3. {j, k} \subseteq Points(Append(s, c))
  BY <1>1, PositionsAppend DEF Points
<1> QED BY <1>1, <1>2, <1>3, NumberGrows, FitsText

(* A hexadecimal or binary literal with one more digit. *)
LEMMA BaseGrows ==
  ASSUME NEW s \in Seq(Chars), NEW c \in Chars
  PROVE  /\ Fits("HEXADECIMAL_DIGIT", s) /\ c \in HexDigit
              => Fits("HEXADECIMAL_DIGIT", Append(s, c))
         /\ Fits("BINARY_DIGIT", s) /\ c \in BinDigit => Fits("BINARY_DIGIT", Append(s, c))
BY PrefixedAppend, WellFormedIs, FitsIs

(* A string with one more character. *)
LEMMA StringGrows ==
  ASSUME NEW s \in Seq(Chars), NEW c \in Chars, Fits("STRING", s), c # Quote
  PROVE  Fits("STRING", Append(s, c))
<1>1. Positions(s, Quote) = {}
  BY FitsText
<1>2. Positions(Append(s, c), Quote) = {}
  BY <1>1, PositionsAppend
<1> QED BY <1>2, FitsText

(* What the character after colons makes of them. *)
LEMMA ColonGrows ==
  ASSUME NEW s \in Seq(Chars), NEW c \in Chars, Fits("COLON", s)
  PROVE  /\ c = ":" => Fits("COLON", Append(s, c))
         /\ s # <<>> /\ c = "=" => Fits("ASSIGNMENT", Append(s, c))
<1>1. AllIn(s, {":"})
  BY FitsIs
<1>2. c = ":" => Fits("COLON", Append(s, c))
  BY <1>1, FitsIs, AllInAppend
<1>3. ASSUME s # <<>>, c = "="
      PROVE  Fits("ASSIGNMENT", Append(s, c))
  <2> DEFINE x == Append(s, c)
  <2>1. Len(x) >= 2 /\ Last(x) = "="
    <3>1. Len(s) \in 1 .. Len(s) /\ Len(x) = Len(s) + 1
      BY <1>3, AppendIs
    <3> QED BY <1>3, <3>1, AppendIs
  <2>2. Front(x) = s
    <3>1. Front(x) = SubSeq(x, 1, Len(x) - 1)
      BY DEF Front
    <3> QED BY <3>1, AppendProperties
  <2> HIDE DEF x
  <2>3. WellFormed("ASSIGMENT_OPERATOR", x)
    BY <1>1, <2>1, <2>2, WellFormedIs
  <2> QED BY <2>3, FitsIs DEF x
<1> QED BY <1>2, <1>3

(* A pair that does not follow each other still does not in a text that    *)
(* is one longer.                                                          *)
LEMMA NeverGrows ==
  ASSUME NEW s \in Seq(Chars), NEW c \in Chars, NEW a, NEW b, Never(s, a, b),
         s # <<>> /\ Last(s) = a => c # b
  PROVE  Never(Append(s, c), a, b)
<1> DEFINE x == Append(s, c)
<1> DEFINE n == Len(s)
<1>1. /\ Len(x) = n + 1 /\ n \in Nat /\ \A i \in 1 .. n : x[i] = s[i]
      /\ x[n + 1] = c
  BY AppendIs
<1>2. (s = <<>> => n = 0) /\ Last(s) = s[n]
  BY DEF Last
<1>3. \A i \in 1 .. (n - 1) : s[i] = a => s[i + 1] # b
  BY DEF Never
<1> HIDE DEF x, n
<1>4. ASSUME NEW i \in 1 .. n, x[i] = a
      PROVE  x[i + 1] # b
  <2>1. CASE i = n
    <3>1. s # <<>> /\ Last(s) = a /\ x[i + 1] = c
      BY <1>1, <1>2, <1>4, <2>1
    <3> QED BY <3>1
  <2>2. CASE i # n
    <3>1. i \in 1 .. (n - 1) /\ i + 1 \in 1 .. n
      BY <1>1, <2>2
    <3> QED BY <1>1, <1>3, <1>4, <3>1
  <2> QED BY <2>1, <2>2
<1>5. Len(x) - 1 = n
  BY <1>1
<1> QED BY <1>4, <1>5 DEF x, Never

(* A comment with one more character. *)
LEMMA CommentGrows ==
  ASSUME NEW s \in Seq(Chars), NEW c \in Chars, Fits("COMMENTS", s),
         s # <<>> /\ Last(s) = "}" => c # Mark
  PROVE  Fits("COMMENTS", Append(s, c))
BY NeverGrows, FitsText

(* The token a state emits is one of its type. *)
Good(state, lx, s) ==
  WellFormed(TokenType(state, lx), s) /\ TokenType(state, lx) # "UNKNOWN"

(* The token of a state whose text fits is well formed. *)
LEMMA FitsGood ==
  ASSUME NEW lx, NEW s, NEW state \in States, Fits(state, s),
         state \in {"A_Z", "DIGIT", "COLON"} => s # <<>>,
         state \notin {"NONE", "WHITESPACE", "EQUALS_SIGN", "COMMENT_OPEN_BRACE"}
           \cup SingleStates
  PROVE  Good(state, lx, s)
<1>1. /\ TokenType("STRING", lx) = "STRING_LITERAL"
      /\ TokenType("DIGIT", lx) = "INTEGER_LITERAL"
      /\ TokenType("DECIMAL_DIGIT", lx) = "DECIMAL_LITERAL"
      /\ TokenType("HEXADECIMAL_DIGIT", lx) = "HEXADECIMAL_LITERAL"
      /\ TokenType("BINARY_DIGIT", lx) = "BINARY_LITERAL"
      /\ TokenType("VERSION_DIGIT", lx) = "VERSION_LITERAL"
      /\ TokenType("ASSIGNMENT", lx) = "ASSIGMENT_OPERATOR"
      /\ TokenType("COLON", lx) = "COLON"
      /\ TokenType("COMMENT_CLOSE_BRACE", lx) = "COMMENT_END"
      /\ TokenType("COMMENTS", lx) = "COMMENT"
  BY SingleStatesApart DEF TokenType, NumberStates
<1>2. \A t \in {"A_Z", "A_Z_DIGIT"} :
        TokenType(t, lx) \in {"IDENTIFIER", "KEYWORD", "BOOLEAN_LITERAL"}
  BY SingleStatesApart DEF TokenType, WordType, NumberStates
<1>3. CASE state \in {"A_Z", "A_Z_DIGIT"}
  <2>1. Word(s)
    <3>1. CASE state = "A_Z"
      <4>1. AllIn(s, Alpha) /\ s # <<>>
        BY <3>1, FitsIs
      <4> QED BY <4>1 DEF AllIn, Word
    <3>2. CASE state = "A_Z_DIGIT"
      BY <3>2, FitsIs
    <3> QED BY <1>3, <3>1, <3>2
  <2>2. \A t \in {"IDENTIFIER", "KEYWORD", "BOOLEAN_LITERAL"} :
          WellFormed(t, s) /\ t # "UNKNOWN"
    BY <2>1, WellFormedIs
  <2> QED BY <1>2, <1>3, <2>2 DEF Good
<1>4. CASE state \in {"DIGIT", "COLON"}
  <2>1. CASE state = "DIGIT"
    <3>1. WellFormed("INTEGER_LITERAL", s)
      BY <2>1, FitsIs, WellFormedIs
    <3> QED BY <1>1, <2>1, <3>1 DEF Good
  <2>2. CASE state = "COLON"
    <3>1. WellFormed("COLON", s)
      BY <2>2, FitsIs, WellFormedIs
    <3> QED BY <1>1, <2>2, <3>1 DEF Good
  <2> QED BY <1>4, <2>1, <2>2
<1>5. CASE state \in {"STRING", "DECIMAL_DIGIT", "HEXADECIMAL_DIGIT", "BINARY_DIGIT",
                      "VERSION_DIGIT", "ASSIGNMENT", "COMMENT_CLOSE_BRACE", "COMMENTS"}
  BY <1>1, <1>5, FitsIs DEF Good
<1> QED BY <1>3, <1>4, <1>5 DEF States, NumberStates

(* A punctuation token is named after its state. *)
LEMMA SingleTokenType ==
  ASSUME NEW lx, NEW state \in SingleStates
  PROVE  TokenType(state, lx) = state
<1>1. /\ state # "STRING" /\ state # "DIGIT" /\ state # "DECIMAL_DIGIT"
      /\ state # "HEXADECIMAL_DIGIT" /\ state # "BINARY_DIGIT"
      /\ state # "VERSION_DIGIT" /\ state \notin {"A_Z", "A_Z_DIGIT"}
      /\ state # "ASSIGNMENT" /\ state # "COLON" /\ state # "COMMENT_OPEN_BRACE"
      /\ state # "COMMENT_CLOSE_BRACE" /\ state # "COMMENTS"
  BY SingleStatesApart DEF NumberStates
<1> QED BY <1>1 DEF TokenType

(* A punctuation token is its character. *)
LEMMA SingleGood ==
  ASSUME NEW lx, NEW ch \in Single, NEW state, state = SingleState(ch)
  PROVE  Good(state, lx, <<ch>>)
<1>1. state \in SingleStates
  BY DEF SingleStates
<1>2. TokenType(state, lx) = state
  BY <1>1, SingleTokenType
<1>3. \E c \in Single : <<ch>> = <<c>> /\ SingleState(c) = state
  OBVIOUS
<1>4. WellFormed(state, <<ch>>)
  BY <1>1, <1>3, WellFormedIs
<1>5. state # "UNKNOWN"
  BY <1>1, TypesApart
<1> QED BY <1>2, <1>4, <1>5 DEF Good
-----------------------------------------------------------------------------
(* What is taken stays fit for the state it is taken in.                   *)

(* What is known of the character that is next. *)
Opened ==
  LET t == Last(stack) IN
  /\ t \in SingleStates => Ch \in Single /\ t = SingleState(Ch)
  /\ t = "A_Z" /\ Taking = <<>> => Ch \in Alpha
  /\ t = "DIGIT" /\ Taking = <<>> => Ch \in Digit
  /\ t = "COMMENTS" /\ Taking # <<>> /\ Last(Taking) = "}" => Ch # Mark
LexemeFits ==
  phase # "failed" =>
    Fits(Last(stack), Taking) /\ (chIndex < Len(text) => Opened)

TextInv == LexemeFits /\ TokensWellFormed
Scans == Busy /\ TypeOK' /\ Inv /\ TextInv

(* What holds when processCharacter is called. *)
LEMMA ScansFacts ==
  ASSUME Scans
  PROVE  /\ Busy /\ ScanInvariant /\ TypeOK' /\ Inv /\ TokensWellFormed
         /\ Fits(Last(stack), Taking) /\ Opened
         /\ Taking \in Seq(Chars) /\ Ch \in Chars
         /\ stack \in Seq(States) /\ stack # <<>> /\ lexeme \in Lexeme
         /\ Last(stack) \in States
<1>1. Busy /\ TypeOK' /\ Inv /\ TextInv
  BY DEF Scans
<1>2. Fits(Last(stack), Taking) /\ Opened
  BY <1>1 DEF Busy, TextInv, LexemeFits
<1>3. Taking \in Seq(Chars) /\ Ch \in Chars
  BY <1>1, TakingIs, CharIsText DEF Busy
<1>4. stack \in Seq(States) /\ stack # <<>> /\ lexeme \in Lexeme
  BY <1>1 DEF Busy, TypeOK, Lexeme
<1> QED BY <1>1, <1>2, <1>3, <1>4, LastType DEF Inv, TextInv

(* Tokens that stay the same stay well formed. *)
LEMMA TokensStay ==
  ASSUME TokensWellFormed, tokens' = tokens, text' = text
  PROVE  TokensWellFormed'
BY DEF TokensWellFormed, LexemeText

(* One more well-formed token. *)
LEMMA TokenAdded ==
  ASSUME TypeOK, TokensWellFormed, NEW state, NEW lx \in Lexeme,
         tokens' = Append(tokens, Token(state, lx)), text' = text,
         Good(state, lx, LexemeText(lx))
  PROVE  TokensWellFormed'
<1> DEFINE tok == Token(state, lx)
<1>1. tok \in TokenRecord /\ tok.start = lx.start /\ tok.end = lx.end
  BY TokenIsRecord
<1>2. tok.type = TokenType(state, lx)
  BY DEF Token
<1>3. LexemeText(tok) = LexemeText(lx)
  BY <1>1 DEF LexemeText
<1>4. WellFormed(tok.type, LexemeText(tok)) /\ tok.type # "UNKNOWN"
  BY <1>2, <1>3 DEF Good
<1> HIDE DEF tok
<1>5. tokens \in Seq(TokenRecord) /\ tokens' = Append(tokens, tok)
  BY DEF TypeOK, TokenRecord, tok
<1>6. ASSUME NEW i \in DOMAIN tokens'
      PROVE  tokens'[i] = tok \/ (i \in DOMAIN tokens /\ tokens'[i] = tokens[i])
  BY <1>1, <1>5, AppendProperties
<1>7. \A lz : LexemeText(lz)' = SubSeq(text, lz'.start + 1, lz'.end)
  BY DEF LexemeText
<1>8. ASSUME NEW i \in DOMAIN tokens'
      PROVE  /\ WellFormed(tokens'[i].type, SubSeq(text, tokens'[i].start + 1, tokens'[i].end))
             /\ tokens'[i].type # "UNKNOWN"
  <2>1. CASE tokens'[i] = tok
    BY <1>4, <2>1 DEF LexemeText
  <2>2. CASE i \in DOMAIN tokens /\ tokens'[i] = tokens[i]
    BY <2>2 DEF TokensWellFormed, LexemeText
  <2> QED BY <1>6, <2>1, <2>2
<1> QED BY <1>8 DEF TokensWellFormed, LexemeText

(* A state that has taken nothing. *)
LEMMA EmptyTaking ==
  ASSUME TypeOK', lexeme' = NoLexeme
  PROVE  Taking' = <<>>
<1>1. Taking' = SubSeq(text', 0 + 1, 0)
  BY NoLexemeNoPending DEF Taking, LexemeText
<1>2. text' \in Seq(Chars)
  BY DEF TypeOK
<1> QED BY <1>1, <1>2

(* A state between two tokens, or one that a delimiter opens, fits. *)
LEMMA NothingTaken ==
  ASSUME TypeOK', lexeme' = NoLexeme,
         Last(stack') \in {"NONE", "WHITESPACE", "STRING", "COMMENTS"}
  PROVE  LexemeFits'
<1>1. Taking' = <<>>
  BY EmptyTaking
<1>2. Fits(Last(stack'), Taking')
  BY <1>1, EmptyFits
<1>3. Last(stack') \notin SingleStates
  BY SingleStatesApart
<1> QED BY <1>1, <1>2, <1>3 DEF LexemeFits, Opened

(* The character after a character that is taken. *)
LEMMA NextCh ==
  ASSUME Busy, Consume, text' = text, chIndex' < Len(text')
  PROVE  Ch' = CurrentCh(1)
<1>1. chIndex \in Nat /\ Len(text) \in Nat /\ chIndex' = chIndex + 1
      /\ chIndex + 1 < Len(text)
  BY DEF Busy, TypeOK, Consume
<1>2. PosFromOffset(1) = chIndex + 1
  BY <1>1 DEF PosFromOffset
<1>3. PosFromOffset(0)' = chIndex'
  BY <1>1 DEF PosFromOffset
<1> QED BY <1>1, <1>2, <1>3 DEF Ch, CurrentCh

(* The text of the lexeme when a character is taken. *)
LEMMA TakenText ==
  ASSUME Busy, Inv, ~InAssignment, lexeme' = Extended, text' = text
  PROVE  Taking' = Append(Taking, Ch)
<1>1. Taking' = LexemeText(Extended)
  BY DEF Taking, LexemeText
<1> QED BY <1>1, TakingIs

(* A character is taken. *)
LEMMA TakeFits ==
  ASSUME Scans, ~InAssignment, NEW stk, Take(stk), Last(stk) \notin SingleStates,
         Fits(Last(stk), Append(Taking, Ch)),
         Last(stk) = "COMMENTS" /\ Ch = "}" => CurrentCh(1) # Mark
  PROVE  TextInv'
<1>1. /\ lexeme' = Extended /\ stack' = stk /\ Consume
      /\ tokens' = tokens /\ text' = text
  BY DEF Take, tokenVars, fileVars
<1>2. Taking' = Append(Taking, Ch) /\ Taking' # <<>> /\ Last(Taking') = Ch
  <2>1. Busy /\ Inv /\ Taking \in Seq(Chars) /\ Ch \in Chars
    BY ScansFacts
  <2>2. Taking' = Append(Taking, Ch)
    BY <1>1, <2>1, TakenText
  <2> QED BY <2>1, <2>2, AppendIs
<1>3. chIndex' < Len(text') => Ch' = CurrentCh(1)
  BY <1>1, ScansFacts, NextCh
<1>4. Fits(Last(stack'), Taking')
  BY <1>1, <1>2
<1>5. chIndex' < Len(text') => Opened'
  BY <1>1, <1>2, <1>3 DEF Opened
<1>6. LexemeFits'
  BY <1>4, <1>5 DEF LexemeFits
<1> QED BY <1>1, <1>6, ScansFacts, TokensStay DEF TextInv

(* A token that ends before the character. *)
LEMMA EmitFits ==
  ASSUME Scans, EmitAndDrop \/ EmitAndReprocess,
         Last(stack) \in {"A_Z", "DIGIT", "COLON"} => Taking # <<>>,
         Last(stack) \notin {"NONE", "WHITESPACE", "EQUALS_SIGN", "COMMENT_OPEN_BRACE"}
           \cup SingleStates
  PROVE  TextInv'
<1>1. /\ tokens' = Append(tokens, Token(Last(stack), lexeme)) /\ text' = text
      /\ lexeme' = NoLexeme /\ stack' = AfterToken(Last(stack), stack)
  BY DEF EmitAndDrop, EmitAndReprocess, AddToken, fileVars
<1>2. stack' = LegalStack("NONE")
  BY <1>1, ScansFacts, StackFacts
<1>3. Last(stack') = "NONE"
  BY <1>2, LegalStackType DEF States
<1>4. LexemeFits'
  BY <1>1, <1>3, ScansFacts, NothingTaken
<1>5. Good(Last(stack), lexeme, Taking)
  BY ScansFacts, FitsGood
<1>6. Good(Last(stack), lexeme, LexemeText(lexeme))
  BY <1>5 DEF Taking
<1>7. TypeOK
  BY ScansFacts DEF Busy
<1>8. TokensWellFormed'
  BY <1>1, <1>6, <1>7, ScansFacts, TokenAdded
<1> QED BY <1>4, <1>8 DEF TextInv

(* A token that ends before the character, which is dropped or not. *)
LEMMA EmitBeforeFits ==
  ASSUME Scans, EmitBefore,
         Last(stack) \in {"A_Z", "DIGIT", "COLON"} => Taking # <<>>,
         Last(stack) \notin {"NONE", "WHITESPACE", "EQUALS_SIGN", "COMMENT_OPEN_BRACE"}
           \cup SingleStates
  PROVE  TextInv'
<1>1. EmitAndDrop \/ EmitAndReprocess
  BY DEF EmitBefore
<1> QED BY <1>1, EmitFits

(* A token that ends with the character. *)
LEMMA TakeAndEmitFits ==
  ASSUME Scans, ~InAssignment, NEW stk, TakeAndEmit(stk),
         Good(Last(stk), Extended, Append(Taking, Ch)),
         Last(AfterToken(Last(stk), stk)) \in {"NONE", "COMMENTS"}
  PROVE  TextInv'
<1>1. /\ tokens' = Append(tokens, Token(Last(stk), Extended)) /\ text' = text
      /\ lexeme' = NoLexeme /\ stack' = AfterToken(Last(stk), stk)
  BY DEF TakeAndEmit, AddToken, fileVars
<1>2. LexemeFits'
  BY <1>1, ScansFacts, NothingTaken
<1>3. TypeOK /\ Extended \in Lexeme
  BY ScansFacts, ExtendedType DEF Busy
<1>4. LexemeText(Extended) = Append(Taking, Ch)
  BY ScansFacts, TakingIs
<1>5. TokensWellFormed'
  BY <1>1, <1>3, <1>4, ScansFacts, TokenAdded
<1> QED BY <1>2, <1>5 DEF TextInv

(* After an error nothing is asked of the lexeme. *)
LEMMA FailFits ==
  ASSUME TokensWellFormed, Fail
  PROVE  TextInv'
<1>1. tokens' = tokens /\ text' = text /\ phase' = "failed"
  BY DEF Fail, tokenVars
<1> QED BY <1>1, TokensStay DEF TextInv, LexemeFits

(* The state pushed is on top. *)
LEMMA LastPush ==
  ASSUME TypeOK, NEW t \in States
  PROVE  Last(Push(t)) = t
BY AppendProperties DEF TypeOK, Push, Last

(* The characters that end a token belong to no word and no number. *)
LEMMA Enders ==
  /\ EndsNumber => Ch \notin Alpha \cup Digit
  /\ EndsWord => Ch \notin Alpha \cup Digit
<1>1. EndsNumber => Ch \notin Alpha \cup Digit
  BY Zenon DEF EndsNumber, Whitespace, ReservedCh, Single, Operators, Brackets,
     IsAssignment, Alpha, Digit
<1>2. ":" \notin Alpha \cup Digit
  BY DEF Alpha, Digit
<1> QED BY <1>1, <1>2 DEF EndsWord

(* Letters are no digits. *)
LEMMA AlphaNotDigit == \A c \in Digit : c \notin Alpha
BY DEF Alpha, Digit

(* The states in turn. *)
LEMMA WordFits ==
  ASSUME Scans, ScanWord \/ ScanWordDigit
  PROVE  TextInv'
<1>1. Last(stack) \in {"A_Z", "A_Z_DIGIT"} /\ ~InAssignment
      /\ Last(stack) \notin SingleStates
  BY SingleStatesApart DEF ScanWord, ScanWordDigit, Scanning, InAssignment
<1>2. /\ Fits(Last(stack), Taking) /\ Taking \in Seq(Chars) /\ Ch \in Chars
      /\ TokensWellFormed /\ TypeOK
  BY ScansFacts DEF Busy
<1>3. Last(stack) = "A_Z" /\ Taking = <<>> => Ch \in Alpha
  BY ScansFacts DEF Opened
<1>4. CASE /\ Take(stack)
           /\ \/ Last(stack) = "A_Z" /\ Ch \in Alpha
              \/ Last(stack) = "A_Z_DIGIT" /\ Ch \in Alpha \cup Digit
  <2>1. Fits(Last(stack), Append(Taking, Ch))
    BY <1>2, <1>4, WordGrows
  <2> QED BY <1>1, <1>4, <2>1, TakeFits
<1>5. CASE EmitBefore /\ EndsWord
  <2>1. Last(stack) = "A_Z" => Taking # <<>>
    BY <1>3, <1>5, Enders
  <2> QED BY <1>1, <1>5, <2>1, EmitBeforeFits
<1>6. CASE Last(stack) = "A_Z" /\ Ch \in Digit /\ Reprocess(Push("A_Z_DIGIT"))
  <2>1. /\ stack' = Push("A_Z_DIGIT") /\ tokens' = tokens /\ text' = text
        /\ lexeme' = lexeme
    BY <1>6 DEF Reprocess, tokenVars, fileVars
  <2>2. Last(stack') = "A_Z_DIGIT"
    BY <1>2, <2>1, LastPush DEF States
  <2>3. Taking' = Taking
    BY <2>1 DEF Taking, LexemeText
  <2>4. Taking # <<>>
    BY <1>3, <1>6, AlphaNotDigit
  <2>5. Fits(Last(stack'), Taking')
    BY <1>2, <1>6, <2>2, <2>3, <2>4, WordGrows
  <2>6. Last(stack') \notin SingleStates
    BY <2>2, SingleStatesApart
  <2>7. LexemeFits'
    BY <2>2, <2>5, <2>6 DEF LexemeFits, Opened
  <2> QED BY <1>2, <2>1, <2>7, TokensStay DEF TextInv
<1>7. CASE Fail
  BY <1>2, <1>7, FailFits
<1> QED
  BY <1>4, <1>5, <1>6, <1>7 DEF ScanWord, ScanWordDigit, Scanning

(* In the states of numbers. *)
LEMMA NumberFits ==
  ASSUME Scans, ScanDigit \/ ScanDecimal \/ ScanVersion \/ ScanHex \/ ScanBinary
  PROVE  TextInv'
<1>1. Last(stack) \in NumberStates /\ ~InAssignment
      /\ Last(stack) \notin SingleStates
  BY SingleStatesApart
  DEF ScanDigit, ScanDecimal, ScanVersion, ScanHex, ScanBinary, Scanning,
      InAssignment, NumberStates
<1>2. /\ Fits(Last(stack), Taking) /\ Taking \in Seq(Chars) /\ Ch \in Chars
      /\ TokensWellFormed /\ TypeOK /\ Busy /\ Inv
  BY ScansFacts DEF Busy
<1>3. Last(stack) = "DIGIT" /\ Taking = <<>> => Ch \in Digit
  BY ScansFacts DEF Opened
<1>4. ASSUME NEW t \in NumberStates, NEW stk, Take(stk), Last(stk) = t,
             Fits(t, Append(Taking, Ch))
      PROVE  TextInv'
  <2>1. t \notin SingleStates /\ t # "COMMENTS"
    BY SingleStatesApart DEF NumberStates
  <2> QED BY <1>1, <1>4, <2>1, TakeFits
<1>5. CASE /\ Take(stack)
           /\ \/ Last(stack) = "DIGIT" /\ Ch \in Digit
              \/ Last(stack) = "DECIMAL_DIGIT" /\ Ch \in Digit
              \/ Last(stack) = "VERSION_DIGIT" /\ Ch \in Digit \cup {"."}
              \/ Last(stack) = "HEXADECIMAL_DIGIT" /\ Ch \in HexDigit
              \/ Last(stack) = "BINARY_DIGIT" /\ Ch \in BinDigit
  <2>1. Fits(Last(stack), Append(Taking, Ch))
    BY <1>2, <1>5, DigitGrows, DecimalGrows, VersionGrows, BaseGrows
  <2> QED BY <1>1, <1>4, <1>5, <2>1
<1>6. CASE Last(stack) = "DIGIT" /\ Ch = "." /\ Take(Push("DECIMAL_DIGIT"))
  <2>1. Taking # <<>>
    BY <1>3, <1>6 DEF Digit
  <2>2. Fits("DECIMAL_DIGIT", Append(Taking, Ch))
    BY <1>2, <1>6, <2>1, DigitGrows
  <2>3. Last(Push("DECIMAL_DIGIT")) = "DECIMAL_DIGIT" /\ "DECIMAL_DIGIT" \in NumberStates
    BY <1>2, LastPush DEF States, NumberStates
  <2> QED BY <1>4, <1>6, <2>2, <2>3
<1>7. CASE Last(stack) = "DECIMAL_DIGIT" /\ Ch = "." /\ Take(Push("VERSION_DIGIT"))
  <2>1. Fits("VERSION_DIGIT", Append(Taking, Ch))
    BY <1>2, <1>7, DecimalGrows
  <2>2. Last(Push("VERSION_DIGIT")) = "VERSION_DIGIT" /\ "VERSION_DIGIT" \in NumberStates
    BY <1>2, LastPush DEF States, NumberStates
  <2> QED BY <1>4, <1>7, <2>1, <2>2
<1>8. ASSUME Last(stack) = "DIGIT", AfterZero, Ch \in {"x", "b"}
      PROVE  Taking # <<>> /\ Last(Taking) = "0"
  <2>1. Taking # <<>>
    BY <1>3, <1>8 DEF Digit
  <2>2. chIndex > 0 /\ Taking[Len(Taking)] = text[chIndex]
    BY <1>1, <1>2, <2>1, TakingIs
  <2>3. CurrentCh(-1) = text[chIndex]
    BY <1>2, <2>2, CharIsText DEF Busy
  <2> QED BY <1>8, <2>1, <2>2, <2>3 DEF AfterZero, Last
<1>9. CASE Last(stack) = "DIGIT" /\ Ch = "x" /\ AfterZero /\ Take(Push("HEXADECIMAL_DIGIT"))
  <2>1. Fits("HEXADECIMAL_DIGIT", Append(Taking, Ch))
    BY <1>2, <1>8, <1>9, DigitGrows
  <2>2. /\ Last(Push("HEXADECIMAL_DIGIT")) = "HEXADECIMAL_DIGIT"
        /\ "HEXADECIMAL_DIGIT" \in NumberStates
    BY <1>2, LastPush DEF States, NumberStates
  <2> QED BY <1>4, <1>9, <2>1, <2>2
<1>10. CASE Last(stack) = "DIGIT" /\ Ch = "b" /\ AfterZero /\ Take(Push("BINARY_DIGIT"))
  <2>1. Fits("BINARY_DIGIT", Append(Taking, Ch))
    BY <1>2, <1>8, <1>10, DigitGrows
  <2>2. Last(Push("BINARY_DIGIT")) = "BINARY_DIGIT" /\ "BINARY_DIGIT" \in NumberStates
    BY <1>2, LastPush DEF States, NumberStates
  <2> QED BY <1>4, <1>10, <2>1, <2>2
<1>11. CASE EndsNumber /\ EmitBefore
  <2>1. Last(stack) = "DIGIT" => Taking # <<>>
    BY <1>3, <1>11, Enders
  <2>2. Last(stack) \notin {"A_Z", "COLON", "NONE", "WHITESPACE", "EQUALS_SIGN",
                            "COMMENT_OPEN_BRACE"}
    BY <1>1 DEF NumberStates
  <2> QED BY <1>1, <1>11, <2>1, <2>2, EmitBeforeFits
<1>12. CASE Fail
  BY <1>2, <1>12, FailFits
<1>13. CASE ScanDigit
  BY <1>5, <1>6, <1>9, <1>10, <1>11, <1>12, <1>13 DEF ScanDigit, Scanning
<1>14. CASE ScanDecimal
  BY <1>5, <1>7, <1>11, <1>12, <1>14 DEF ScanDecimal, Scanning
<1>15. CASE ScanVersion \/ ScanHex \/ ScanBinary
  BY <1>5, <1>11, <1>12, <1>15 DEF ScanVersion, ScanHex, ScanBinary, Scanning
<1> QED BY <1>13, <1>14, <1>15

(* A step that takes nothing between two tokens. *)
LEMMA IdleFits ==
  ASSUME Scans, lexeme = NoLexeme, NEW stk,
         Skip(stk) \/ SkipSpace(stk) \/ Reprocess(stk),
         Last(stk) \in {"NONE", "WHITESPACE", "STRING", "COMMENTS"}
  PROVE  TextInv'
<1>1. stack' = stk /\ lexeme' = NoLexeme /\ tokens' = tokens /\ text' = text
  BY DEF Skip, SkipSpace, Reprocess, tokenVars, fileVars
<1>2. LexemeFits'
  BY <1>1, ScansFacts, NothingTaken
<1> QED BY <1>1, <1>2, ScansFacts, TokensStay DEF TextInv

(* The character that leads from NONE to a state. *)
LEMMA StartsWith ==
  ASSUME NEW ch \in Alpha \cup Digit \cup Single \cup {"=", ":"}, NEW t,
         t = StartState(ch)
  PROVE  /\ t = "A_Z" => ch \in Alpha
         /\ t = "DIGIT" => ch \in Digit
         /\ t \in SingleStates => ch \in Single /\ t = SingleState(ch)
<1>1. CASE ch \in Alpha
  <2>1. t = "A_Z"
    BY <1>1 DEF StartState, Alpha, Digit
  <2> QED BY <1>1, <2>1, SingleStatesApart
<1>2. CASE ch \in Digit
  <2>1. t = "DIGIT"
    BY <1>2 DEF StartState, Alpha, Digit
  <2> QED BY <1>2, <2>1, SingleStatesApart DEF NumberStates
<1>3. CASE ch \in {"=", ":"}
  <2>1. t \in {"EQUALS_SIGN", "COLON"}
    BY <1>3 DEF StartState, Alpha, Digit
  <2> QED BY <2>1, SingleStatesApart
<1>4. CASE ch \in Single
  <2>1. t = SingleState(ch)
    BY <1>4 DEF StartState, Alpha, Digit, Single, Operators, Brackets
  <2>2. t \in SingleStates
    BY <1>4, <2>1 DEF SingleStates
  <2> QED BY <1>4, <2>1, <2>2, SingleStatesApart DEF NumberStates
<1> QED BY <1>1, <1>2, <1>3, <1>4

(* Between two tokens, where a character leads to its state. *)
LEMMA NoneFits ==
  ASSUME Scans, ScanNone PROVE TextInv'
<1>1. /\ Last(stack) = "NONE" /\ lexeme = NoLexeme /\ TypeOK /\ TypeOK'
      /\ TokensWellFormed
  BY ScansFacts DEF ScanNone, Scanning, ScanInvariant, Busy
<1>2. CASE SkipSpace(Push("WHITESPACE"))
  <2>1. Last(Push("WHITESPACE")) = "WHITESPACE"
    BY <1>1, LastPush DEF States
  <2> QED BY <1>1, <1>2, <2>1, IdleFits
<1>3. CASE Skip(Push("STRING"))
  <2>1. Last(Push("STRING")) = "STRING"
    BY <1>1, LastPush DEF States
  <2> QED BY <1>1, <1>3, <2>1, IdleFits
<1>4. CASE Skip(Push("COMMENTS"))
  <2>1. Last(Push("COMMENTS")) = "COMMENTS"
    BY <1>1, LastPush DEF States
  <2> QED BY <1>1, <1>4, <2>1, IdleFits
<1>5. CASE /\ Ch \in Alpha \cup Digit \cup Single \cup {"=", ":"}
           /\ Reprocess(Push(StartState(Ch)))
  <2> DEFINE t == StartState(Ch)
  <2>1. t \in {"A_Z", "DIGIT", "EQUALS_SIGN", "COLON"} \cup SingleStates
    BY <1>5, StartsAt
  <2>2. /\ t = "A_Z" => Ch \in Alpha
        /\ t = "DIGIT" => Ch \in Digit
        /\ t \in SingleStates => Ch \in Single /\ t = SingleState(Ch)
    BY <1>5, StartsWith
  <2>3. /\ stack' = Push(t) /\ lexeme' = NoLexeme /\ tokens' = tokens
        /\ text' = text /\ chIndex' = chIndex
    BY <1>1, <1>5 DEF Reprocess, tokenVars, fileVars
  <2> HIDE DEF t
  <2>4. t \in States
    BY <2>1 DEF States, NumberStates
  <2>5. Last(stack') = t
    BY <1>1, <2>3, <2>4, LastPush
  <2>6. Ch' = Ch
    BY <2>3 DEF Ch, CurrentCh, PosFromOffset
  <2>7. Taking' = <<>>
    BY <1>1, <2>3, EmptyTaking
  <2>8. Fits(t, <<>>)
    BY <2>1, EmptyFits
  <2>9. t # "COMMENTS"
    BY <2>1, SingleStatesApart
  <2>10. LexemeFits'
    BY <2>2, <2>5, <2>6, <2>7, <2>8, <2>9 DEF LexemeFits, Opened
  <2> QED BY <1>1, <2>3, <2>10, TokensStay DEF TextInv
<1>6. CASE Fail
  BY <1>1, <1>6, FailFits
<1> QED BY <1>2, <1>3, <1>4, <1>5, <1>6 DEF ScanNone

(* In whitespace. *)
LEMMA WhitespaceFits ==
  ASSUME Scans, ScanWhitespace PROVE TextInv'
<1>1. /\ Last(stack) = "WHITESPACE" /\ lexeme = NoLexeme
      /\ stack = LegalStack(Last(stack))
  BY ScansFacts, StackFacts DEF ScanWhitespace, Scanning, ScanInvariant, Busy
<1>2. CASE SkipSpace(stack)
  BY <1>1, <1>2, IdleFits
<1>3. CASE Reprocess(Pop(stack))
  <2>1. "WHITESPACE" \in States /\ "NONE" \in States
    BY DEF States
  <2>2. Pop(stack) = LegalStack("NONE")
    BY <1>1, <2>1, PopLegal, BelowIsLegal
  <2>3. Last(Pop(stack)) = "NONE"
    BY <2>1, <2>2, LegalStackType
  <2> QED BY <1>1, <1>3, <2>3, IdleFits
<1> QED BY <1>2, <1>3 DEF ScanWhitespace

(* In a string. *)
LEMMA StringFits ==
  ASSUME Scans, ScanString PROVE TextInv'
<1>1. Last(stack) = "STRING" /\ ~InAssignment /\ Last(stack) \notin SingleStates
  BY SingleStatesApart DEF ScanString, Scanning, InAssignment
<1>2. CASE Ch # Quote /\ Take(stack)
  <2>1. Fits("STRING", Append(Taking, Ch))
    BY <1>1, <1>2, ScansFacts, StringGrows
  <2> QED BY <1>1, <1>2, <2>1, TakeFits
<1>3. CASE EmitAndDrop
  BY <1>1, <1>3, EmitFits
<1>4. (Ch # Quote /\ Take(stack)) \/ EmitAndDrop
  BY Zenon DEF ScanString, Quote
<1> QED BY <1>2, <1>3, <1>4

(* In the states of punctuation. *)
LEMMA SingleFits ==
  ASSUME Scans, ScanSingle PROVE TextInv'
<1>1. Last(stack) \in SingleStates /\ ~InAssignment /\ TakeAndEmit(stack)
  BY SingleStatesApart DEF ScanSingle, Scanning, InAssignment
<1>2. Taking = <<>>
  BY <1>1, ScansFacts, FitsIs
<1>3. Append(Taking, Ch) = <<Ch>>
  <2>1. /\ Append(<<>>, Ch) \in Seq(Chars) /\ Len(Append(<<>>, Ch)) = 1
        /\ Append(<<>>, Ch)[1] = Ch
    BY ScansFacts, <1>2, AppendProperties
  <2>2. <<Ch>> \in Seq(Chars) /\ Len(<<Ch>>) = 1 /\ <<Ch>>[1] = Ch
    BY ScansFacts
  <2> QED BY <1>2, <2>1, <2>2, SameElements
<1>4. Ch \in Single /\ Last(stack) = SingleState(Ch)
  BY <1>1, ScansFacts DEF Opened
<1>5. Good(Last(stack), Extended, Append(Taking, Ch))
  BY <1>3, <1>4, SingleGood
<1>6. Last(stack) # "NONE" /\ "NONE" \in States
  BY <1>1, SingleStatesApart DEF States
<1>7. AfterToken(Last(stack), stack) = LegalStack("NONE")
  BY <1>6, ScansFacts, StackFacts
<1>8. Last(AfterToken(Last(stack), stack)) = "NONE"
  BY <1>6, <1>7, LegalStackType
<1> QED BY <1>1, <1>5, <1>8, TakeAndEmitFits

(* In the states that close a comment or have no case. *)
LEMMA OtherFits ==
  ASSUME Scans, ScanCommentClose \/ ScanUnhandled PROVE TextInv'
<1>1. CASE ScanUnhandled
  BY <1>1, ScansFacts, FailFits DEF ScanUnhandled
<1>2. CASE ScanCommentClose
  <2>1. Last(stack) = "COMMENT_CLOSE_BRACE" /\ Last(stack) \notin SingleStates
    BY <1>2, SingleStatesApart DEF ScanCommentClose, Scanning
  <2>2. EmitAndDrop \/ Fail
    BY <1>2 DEF ScanCommentClose
  <2>3. CASE EmitAndDrop
    BY <2>1, <2>3, EmitFits
  <2>4. CASE Fail
    BY <2>4, ScansFacts, FailFits
  <2> QED BY <2>2, <2>3, <2>4
<1> QED BY <1>1, <1>2

(* Behind a colon. *)
LEMMA ColonFits ==
  ASSUME Scans, ScanColon PROVE TextInv'
<1>1. Last(stack) = "COLON" /\ ~InAssignment /\ Last(stack) \notin SingleStates
  BY SingleStatesApart DEF ScanColon, Scanning, InAssignment
<1>2. /\ Fits("COLON", Taking) /\ Taking \in Seq(Chars) /\ Ch \in Chars /\ TypeOK
      /\ TokensWellFormed /\ Busy /\ Inv
  BY <1>1, ScansFacts DEF Busy
<1>3. Taking = <<>> => Ch = ":"
  BY <1>1, <1>2, ScansFacts, TakingIs DEF ScanInvariant, Busy
<1>4. CASE Ch = ":" /\ Take(stack)
  <2>1. Fits("COLON", Append(Taking, Ch))
    BY <1>2, <1>4, ColonGrows
  <2> QED BY <1>1, <1>4, <2>1, TakeFits
<1>5. CASE EmitBefore /\ Ch \notin {"=", ":"}
  BY <1>1, <1>3, <1>5, EmitBeforeFits
<1>6. CASE /\ Ch = "=" /\ lexeme' = Extended /\ stack' = Push("ASSIGNMENT")
           /\ UNCHANGED <<chIndex, tokenVars, lineVars, fileVars>>
  <2>1. tokens' = tokens /\ text' = text
    BY <1>6 DEF tokenVars, fileVars
  <2>2. Taking' = Append(Taking, Ch)
    BY <1>1, <1>2, <1>6, <2>1, TakenText
  <2>3. Taking # <<>>
    BY <1>3, <1>6
  <2>4. Fits("ASSIGNMENT", Append(Taking, Ch))
    BY <1>2, <1>6, <2>3, ColonGrows
  <2>5. Last(stack') = "ASSIGNMENT"
    BY <1>2, <1>6, LastPush DEF States
  <2>6. Last(stack') \notin SingleStates
    BY <2>5, SingleStatesApart
  <2>7. LexemeFits'
    BY <2>2, <2>4, <2>5, <2>6 DEF LexemeFits, Opened
  <2> QED BY <1>2, <2>1, <2>7, TokensStay DEF TextInv
<1> QED BY <1>4, <1>5, <1>6 DEF ScanColon

(* On the "=" behind a colon. *)
LEMMA AssignmentFits ==
  ASSUME Scans, ScanAssignment PROVE TextInv'
<1>1. Last(stack) = "ASSIGNMENT" /\ Last(stack) \notin SingleStates
  BY SingleStatesApart DEF ScanAssignment, Scanning
<1>2. Ch = "=" /\ AfterColon
  BY <1>1, ScansFacts DEF ScanInvariant, Busy
<1>3. CurrentCh(-1) = ":"
  BY <1>2, ScansFacts, CharIsText DEF Busy, AfterColon
<1>4. EmitAndDrop
  BY <1>2, <1>3 DEF ScanAssignment
<1> QED BY <1>1, <1>4, EmitFits

(* The brace that ends a comment. *)
LEMMA BraceFits == Fits("COMMENT_CLOSE_BRACE", <<Brace>>)
BY FitsIs, WellFormedIs, Zenon DEF Brace

(* In a comment: "#{" opens a block comment, "}#" closes any. *)
LEMMA CommentsFits ==
  ASSUME Scans, ScanComments PROVE TextInv'
<1>1. Last(stack) = "COMMENTS" /\ ~InAssignment /\ Last(stack) \notin SingleStates
  BY SingleStatesApart DEF ScanComments, Scanning, InAssignment
<1>2. /\ Fits("COMMENTS", Taking) /\ Taking \in Seq(Chars) /\ Ch \in Chars /\ TypeOK
      /\ TokensWellFormed /\ Busy /\ Inv /\ TypeOK' /\ lexeme \in Lexeme
      /\ stack = LegalStack("COMMENTS")
  BY <1>1, ScansFacts, StackFacts DEF Busy
<1>3. Taking # <<>> /\ Last(Taking) = "}" => Ch # Mark
  BY <1>1, ScansFacts DEF Opened
<1>4. {"NONE", "COMMENTS", "COMMENT_OPEN_BRACE", "COMMENT_CLOSE_BRACE"} \subseteq States
  BY DEF States
<1>5. CASE Ch = "{" /\ TakeAndEmit(Push("COMMENT_OPEN_BRACE"))
  <2> DEFINE stk == Push("COMMENT_OPEN_BRACE")
  <2>1. Last(stk) = "COMMENT_OPEN_BRACE"
    BY <1>2, <1>4, LastPush
  <2>2. AfterToken(Last(stk), stk) = LegalStack("COMMENTS")
    BY <1>2, <2>1, AfterTokenLegal DEF Push
  <2>3. Last(AfterToken(Last(stk), stk)) = "COMMENTS"
    BY <1>4, <2>2, LegalStackType
  <2>4. TokenType("COMMENT_OPEN_BRACE", Extended) = "COMMENT_START"
    BY SingleStatesApart DEF TokenType
  <2>5. WellFormed("COMMENT_START", Append(Taking, Ch))
    BY <1>2, <1>5, AppendIs, WellFormedIs, ZenonT(60)
  <2>6. Good(Last(stk), Extended, Append(Taking, Ch))
    BY <2>1, <2>4, <2>5 DEF Good
  <2> HIDE DEF stk
  <2>7. TakeAndEmit(stk)
    BY <1>5 DEF stk
  <2> QED BY <1>1, <2>3, <2>6, <2>7, TakeAndEmitFits
<1>6. CASE /\ Ch = Brace
           /\ tokens' = Append(tokens, Token("COMMENTS", lexeme))
           /\ stack' = Append(Pop(stack), "COMMENT_CLOSE_BRACE")
           /\ lexeme' = [start |-> chIndex, end |-> chIndex + 1]
           /\ UNCHANGED <<lineVars, fileVars>>
  <2>1. text' = text
    BY <1>6 DEF fileVars
  <2>2. Good("COMMENTS", lexeme, LexemeText(lexeme))
    BY <1>2, <1>4, SingleStatesApart, FitsGood DEF Taking
  <2>3. TokensWellFormed'
    BY <1>2, <1>6, <2>1, <2>2, TokenAdded
  <2>4. Last(stack') = "COMMENT_CLOSE_BRACE"
    <3>1. Pop(stack) = LegalStack("NONE")
      BY <1>2, <1>4, PopLegal, BelowIsLegal
    <3>2. Pop(stack) \in Seq(States)
      BY <1>4, <3>1, LegalStackType
    <3> QED BY <1>4, <1>6, <3>2, AppendProperties DEF Last
  <2>5. Taking' = <<Brace>>
    <3>0. lexeme'.start = chIndex /\ lexeme'.end = chIndex + 1
      BY <1>6
    <3>1. /\ lexeme'.start = chIndex /\ lexeme'.end = chIndex + 1
          /\ chIndex \in Nat /\ chIndex < Len(text) /\ Len(text) \in Nat
          /\ Ch = text[chIndex + 1]
      <4>1. Busy
        BY <1>2
      <4> QED BY <3>0, <4>1, CharIsText DEF Busy, TypeOK
    <3> DEFINE lx == lexeme'
    <3>2. /\ lx.start \in Nat /\ lx.end \in Nat /\ lx.start <= lx.end
          /\ lx.end <= Len(text) /\ lx.end - lx.start = 1
      BY <3>1
    <3>3. lx.start = chIndex
      BY <3>1
    <3>4. Taking' = SubSeq(text, lx.start + 1, lx.end)
      BY <2>1 DEF Taking, LexemeText
    <3> HIDE DEF lx
    <3>5. /\ LexemeText(lx) \in Seq(Chars) /\ Len(LexemeText(lx)) = 1
          /\ \A i \in 1 .. 1 : LexemeText(lx)[i] = text[chIndex + i]
      BY <1>2, <3>2, <3>3, LexemeTextIs
    <3>6. LexemeText(lx)[1] = Brace
      BY <1>6, <3>1, <3>5
    <3>7. <<Brace>> \in Seq(Chars) /\ Len(<<Brace>>) = 1 /\ <<Brace>>[1] = Brace
      BY <1>2, <1>6
    <3>8. LexemeText(lx) = <<Brace>>
      BY <3>5, <3>6, <3>7, SameElements
    <3> QED BY <3>4, <3>8 DEF LexemeText
  <2>6. Fits(Last(stack'), Taking')
    BY <2>4, <2>5, BraceFits
  <2>7. Last(stack') \notin SingleStates
    BY <2>4, SingleStatesApart
  <2>8. LexemeFits'
    BY <2>4, <2>6, <2>7 DEF LexemeFits, Opened
  <2> QED BY <2>3, <2>8 DEF TextInv
<1>7. CASE EmitAndDrop
  BY <1>1, <1>7, EmitFits
<1>8. CASE (Ch = Brace => CurrentCh(1) # Mark) /\ Take(stack)
  <2>1. Fits("COMMENTS", Append(Taking, Ch))
    BY <1>2, <1>3, CommentGrows
  <2>2. Ch = "}" => CurrentCh(1) # Mark
    BY <1>8, Zenon DEF Brace
  <2> QED BY <1>1, <1>8, <2>1, <2>2, TakeFits
<1>9. \/ Ch = "{" /\ TakeAndEmit(Push("COMMENT_OPEN_BRACE"))
      \/ /\ Ch = Brace
         /\ tokens' = Append(tokens, Token("COMMENTS", lexeme))
         /\ stack' = Append(Pop(stack), "COMMENT_CLOSE_BRACE")
         /\ lexeme' = [start |-> chIndex, end |-> chIndex + 1]
         /\ UNCHANGED <<lineVars, fileVars>>
      \/ EmitAndDrop
      \/ (Ch = Brace => CurrentCh(1) # Mark) /\ Take(stack)
  <2>1. CommentStart => Ch = "{"
    BY Zenon DEF CommentStart
  <2>2. CommentEnd <=> Ch = Brace /\ CurrentCh(1) = Mark
    BY Zenon DEF CommentEnd, Mark, Brace
  <2> QED BY <2>1, <2>2, Zenon DEF ScanComments
<1> QED BY <1>5, <1>6, <1>7, <1>8, <1>9

(* Every call of processCharacter. *)
LEMMA ScanFits ==
  ASSUME TypeOK, TypeOK', Inv, TextInv, ProcessCharacter PROVE TextInv'
<1>1. Scans
  BY Outcomes DEF Inv, Scans
<1> QED
  BY <1>1, NoneFits, WhitespaceFits, WordFits, NumberFits, StringFits, SingleFits,
     ColonFits, AssignmentFits, CommentsFits, OtherFits
  DEF ProcessCharacter

(* A lexer that starts a file has taken nothing. *)
LEMMA FreshFits ==
  ASSUME TypeOK', tokens' = <<>>, stack' = <<"NONE">>, lexeme' = NoLexeme
  PROVE  TextInv'
<1>1. Last(stack') = "NONE"
  BY DEF Last
<1>2. LexemeFits'
  BY <1>1, NothingTaken
<1> QED BY <1>2 DEF TextInv, TokensWellFormed

(* Every step keeps the tokens well formed. *)
LEMMA TextStep ==
  ASSUME TypeOK, Inv, TextInv, [Next]_vars PROVE TextInv'
<1>0. TypeOK'
  BY TypeStep
<1>1. ASSUME NEW f \in Filenames, NEW t \in Texts, Lex(f, t) PROVE TextInv'
  BY <1>0, <1>1, FreshFits DEF Lex, Clear
<1>2. ASSUME NEW f \in Filenames, LexDuplicate(f) PROVE TextInv'
  BY <1>0, <1>2, FreshFits DEF LexDuplicate, Clear
<1>3. CASE LexUnreadable
  BY <1>3, FailFits DEF LexUnreadable, TextInv
<1>4. CASE ProcessCharacter
  BY <1>0, <1>4, ScanFits
<1>5. CASE EndOfText \/ UNCHANGED vars
  <2>1. /\ tokens' = tokens /\ text' = text /\ stack' = stack /\ lexeme' = lexeme
        /\ chIndex' = chIndex /\ (phase = "failed" => phase' = "failed")
    BY <1>5 DEF EndOfText, vars, tokenVars
  <2>2. Taking' = Taking /\ Ch' = Ch
    BY <2>1 DEF Taking, LexemeText, Ch, CurrentCh, PosFromOffset
  <2>3. LexemeFits'
    BY <2>1, <2>2 DEF TextInv, LexemeFits, Opened
  <2> QED BY <2>1, <2>3, TokensStay DEF TextInv
<1> QED BY <1>1, <1>2, <1>3, <1>4, <1>5 DEF Next

(* What every state has taken so far fits. *)
THEOREM TextAlways == Spec => []TextInv
<1>1. Init => TextInv
  <2> SUFFICES ASSUME Init PROVE TextInv
    OBVIOUS
  <2>1. Last(stack) = "NONE"
    BY DEF Init, Last
  <2>2. Taking = <<>>
    BY NoLexemeNoPending DEF Init, Taking, LexemeText
  <2>3. Last(stack) \notin SingleStates
    BY <2>1, SingleStatesApart
  <2> QED
    BY <2>1, <2>2, <2>3, EmptyFits DEF Init, TextInv, LexemeFits, Opened, TokensWellFormed
<1>2. TypeOK /\ Inv /\ TextInv /\ [Next]_vars => TextInv'
  BY TextStep
<1> QED BY <1>1, <1>2, Invariant, PTL DEF Spec

(* The text of every token is one its type allows, and no token is of an   *)
(* unknown type.                                                           *)
THEOREM TextsFit == Spec => []TokensWellFormed
<1>1. TextInv => TokensWellFormed
  BY DEF TextInv
<1> QED BY <1>1, TextAlways, PTL
-----------------------------------------------------------------------------
(* Line comments.                                                          *)

NewLine == "\n"
Breaks(s) == Positions(s, NewLine) # {}

(* A token is emitted; a comment is the text its state has taken. *)
Emits ==
  /\ \E tok \in TokenRecord :
       /\ tokens' = Append(tokens, tok) /\ lastType' = tok.type
       /\ tok.type = "COMMENT" => Last(stack) = "COMMENTS" /\ LexemeText(tok) = Taking
  /\ Last(stack') = "COMMENTS" => lexeme' = NoLexeme

(* No token is emitted; a comment goes on past the end of a line only      *)
(* behind the start of a block comment.                                    *)
GoesOn ==
  /\ tokens' = tokens /\ lastType' = lastType
  /\ Last(stack') = "COMMENTS" /\ lexeme' # NoLexeme =>
       /\ Last(stack) = "COMMENTS" /\ Taking' = Append(Taking, Ch)
       /\ Ch = NewLine => lastType = "COMMENT_START"

(* A comment is the token of its state and of no other. *)
LEMMA CommentType ==
  ASSUME NEW s, NEW lx
  PROVE  /\ TokenType(s, lx) = "COMMENT" => s = "COMMENTS"
         /\ TokenType("COMMENTS", lx) = "COMMENT"
<1>1. WordType(lx) # "COMMENT"
  BY DEF WordType
<1>2. s \in SingleStates => s # "COMMENT"
  BY TypesApart
<1>3. ASSUME s # "COMMENTS", s \notin SingleStates PROVE TokenType(s, lx) # "COMMENT"
  BY <1>1, <1>3 DEF TokenType
<1>4. s \in SingleStates => TokenType(s, lx) = s
  BY SingleTokenType
<1>5. TokenType("COMMENTS", lx) = "COMMENT"
  BY SingleStatesApart DEF TokenType
<1> QED BY <1>2, <1>3, <1>4, <1>5

(* When addToken is called with the lexeme of its state. *)
LEMMA TokenEmitted ==
  ASSUME TypeOK, NEW s, NEW lx \in Lexeme,
         tokens' = Append(tokens, Token(s, lx)), lastType' = TokenType(s, lx),
         s = "COMMENTS" => Last(stack) = "COMMENTS" /\ lx = lexeme,
         Last(stack') = "COMMENTS" => lexeme' = NoLexeme
  PROVE  Emits
<1> DEFINE tok == Token(s, lx)
<1>1. tok \in TokenRecord /\ tok.start = lx.start /\ tok.end = lx.end
  BY TokenIsRecord
<1>2. tok.type = TokenType(s, lx)
  BY DEF Token
<1>3. LexemeText(tok) = LexemeText(lx)
  BY <1>1 DEF LexemeText
<1> HIDE DEF tok
<1>4. tok.type = "COMMENT" => Last(stack) = "COMMENTS" /\ LexemeText(tok) = Taking
  BY <1>2, <1>3, CommentType DEF Taking
<1>5. tokens' = Append(tokens, tok) /\ lastType' = tok.type
  BY <1>2 DEF tok
<1> QED BY <1>1, <1>4, <1>5 DEF Emits

(* What most of the outcomes mean for comments. *)
LEMMA CommentOutcomes ==
  ASSUME Busy, NEW stk,
         \/ Fail
         \/ EmitAndDrop \/ EmitAndReprocess \/ EmitBefore
         \/ TakeAndEmit(stk) /\ Last(stk) # "COMMENTS"
         \/ Take(stk) /\ Last(stk) # "COMMENTS"
         \/ lexeme = NoLexeme /\ (Skip(stk) \/ SkipSpace(stk))
         \/ Reprocess(stk) /\ (lexeme = NoLexeme \/ Last(stk) # "COMMENTS")
  PROVE  Fail \/ Emits \/ GoesOn
<1>1. TypeOK /\ lexeme \in Lexeme /\ Extended \in Lexeme
  BY ExtendedType DEF Busy, TypeOK, Lexeme
<1>2. CASE EmitAndDrop \/ EmitAndReprocess
  <2>1. AddToken(lexeme, stack)
    BY <1>2 DEF EmitAndDrop, EmitAndReprocess
  <2> QED BY <1>1, <2>1, TokenEmitted DEF AddToken
<1>3. CASE EmitBefore
  BY <1>2, <1>3 DEF EmitBefore
<1>4. CASE TakeAndEmit(stk) /\ Last(stk) # "COMMENTS"
  <2>1. AddToken(Extended, stk)
    BY <1>4 DEF TakeAndEmit
  <2> QED BY <1>1, <1>4, <2>1, TokenEmitted DEF AddToken
<1>5. CASE Take(stk) /\ Last(stk) # "COMMENTS"
  BY <1>5 DEF Take, tokenVars, GoesOn
<1>6. CASE lexeme = NoLexeme /\ (Skip(stk) \/ SkipSpace(stk))
  BY <1>6 DEF Skip, SkipSpace, tokenVars, GoesOn
<1>7. CASE Reprocess(stk) /\ (lexeme = NoLexeme \/ Last(stk) # "COMMENTS")
  BY <1>7 DEF Reprocess, tokenVars, GoesOn
<1> QED BY <1>2, <1>3, <1>4, <1>5, <1>6, <1>7

(* Every call of processCharacter, as far as comments are concerned. *)
LEMMA CommentStep ==
  ASSUME TypeOK, TypeOK', Inv, ProcessCharacter
  PROVE  Fail \/ Emits \/ GoesOn
<1>1. Busy /\ ScanInvariant
  BY Outcomes DEF Inv
<1>2. stack \in Seq(States) /\ stack # <<>> /\ lexeme \in Lexeme
  BY DEF TypeOK, Lexeme
<1>3. /\ \A t \in States : Last(Push(t)) = t
      /\ {"COMMENTS", "COMMENT_OPEN_BRACE", "COMMENT_CLOSE_BRACE", "NONE", "A_Z_DIGIT",
          "DECIMAL_DIGIT", "VERSION_DIGIT", "HEXADECIMAL_DIGIT", "BINARY_DIGIT",
          "ASSIGNMENT"} \subseteq States
  BY LastPush DEF States, NumberStates
<1>4. CASE ScanNone \/ ScanWhitespace
  <2>1. lexeme = NoLexeme
    BY <1>1, <1>4 DEF ScanNone, ScanWhitespace, Scanning, ScanInvariant, Busy
  <2> QED BY <1>1, <1>4, <2>1, CommentOutcomes DEF ScanNone, ScanWhitespace
<1>5. CASE ScanWord \/ ScanWordDigit
  <2>1. Last(stack) # "COMMENTS" /\ Last(Push("A_Z_DIGIT")) # "COMMENTS"
    BY <1>3, <1>5 DEF ScanWord, ScanWordDigit, Scanning
  <2> QED BY <1>1, <1>5, <2>1, CommentOutcomes DEF ScanWord, ScanWordDigit
<1>6. CASE ScanDigit \/ ScanDecimal
  <2>1. /\ Last(stack) # "COMMENTS"
        /\ \A t \in {"DECIMAL_DIGIT", "VERSION_DIGIT", "HEXADECIMAL_DIGIT", "BINARY_DIGIT"} :
             Last(Push(t)) # "COMMENTS"
    BY <1>3, <1>6 DEF ScanDigit, ScanDecimal, Scanning
  <2> QED BY <1>1, <1>6, <2>1, CommentOutcomes DEF ScanDigit, ScanDecimal
<1>7. CASE ScanVersion \/ ScanHex \/ ScanBinary
  <2>1. Last(stack) # "COMMENTS"
    BY <1>7 DEF ScanVersion, ScanHex, ScanBinary, Scanning
  <2> QED BY <1>1, <1>7, <2>1, CommentOutcomes DEF ScanVersion, ScanHex, ScanBinary
<1>8. CASE ScanString \/ ScanSingle \/ ScanCommentClose \/ ScanUnhandled
  <2>1. Last(stack) # "COMMENTS"
    BY <1>8, SingleStatesApart
    DEF ScanString, ScanSingle, ScanCommentClose, ScanUnhandled, Scanning
  <2>2. Take(stack) \/ EmitAndDrop \/ TakeAndEmit(stack) \/ Fail
    BY <1>8 DEF ScanString, ScanSingle, ScanCommentClose, ScanUnhandled
  <2> QED BY <1>1, <2>1, <2>2, CommentOutcomes
<1>9. CASE ScanColon
  <2>1. Last(stack) # "COMMENTS"
    BY <1>9 DEF ScanColon, Scanning
  <2>2. CASE stack' = Push("ASSIGNMENT") /\ UNCHANGED tokenVars
    BY <1>3, <2>2 DEF tokenVars, GoesOn
  <2>3. CASE Take(stack) \/ EmitBefore
    BY <1>1, <2>1, <2>3, CommentOutcomes
  <2> QED BY <1>9, <2>2, <2>3 DEF ScanColon
<1>10. CASE ScanAssignment
  <2>1. Last(stack) # "COMMENTS"
    BY <1>10 DEF ScanAssignment, Scanning
  <2> QED BY <1>1, <1>10, <2>1, CommentOutcomes DEF ScanAssignment
<1>11. CASE ScanComments
  <2>1. Last(stack) = "COMMENTS" /\ ~InAssignment
    BY <1>11 DEF ScanComments, Scanning, InAssignment
  <2>2. CASE TakeAndEmit(Push("COMMENT_OPEN_BRACE"))
    BY <1>1, <1>3, <2>2, CommentOutcomes
  <2>3. CASE /\ tokens' = Append(tokens, Token("COMMENTS", lexeme))
             /\ lastType' = "COMMENT"
             /\ stack' = Append(Pop(stack), "COMMENT_CLOSE_BRACE")
    <3>1. Pop(stack) \in Seq(States)
      BY <1>2, PopType
    <3>2. Last(stack') = "COMMENT_CLOSE_BRACE"
      BY <1>3, <2>3, <3>1, AppendProperties DEF Last
    <3> QED BY <1>2, <2>1, <2>3, <3>2, CommentType, TokenEmitted
  <2>4. CASE IsNewLine /\ EmitAndDrop
    BY <1>1, <2>4, CommentOutcomes
  <2>5. CASE Take(stack) /\ ~(IsNewLine /\ lastType # "COMMENT_START")
    <3>1. Ch = NewLine => IsNewLine
      BY Zenon DEF NewLine, IsNewLine
    <3>2. lexeme' = Extended /\ tokens' = tokens /\ lastType' = lastType /\ text' = text
      BY <2>5 DEF Take, tokenVars, fileVars
    <3>3. Taking' = Append(Taking, Ch)
      BY <1>1, <2>1, <3>2, TakenText
    <3> QED BY <2>1, <2>5, <3>1, <3>2, <3>3 DEF GoesOn
  <2> QED BY <1>11, <2>2, <2>3, <2>4, <2>5, Zenon DEF ScanComments
<1> QED
  BY <1>4, <1>5, <1>6, <1>7, <1>8, <1>9, <1>10, <1>11 DEF ProcessCharacter

(* In the first file of a lexer lastType is the type of its last token,    *)
(* and a comment with a newline in it is behind the start of a block       *)
(* comment.                                                                *)
OneFile == \A f, g \in files : f = g
LastTokenType == IF tokens = <<>> THEN "UNKNOWN" ELSE Last(tokens).type
CommentInv ==
  /\ OneFile => LineCommentEndsAtEol
  /\ OneFile /\ phase # "failed" => lastType = LastTokenType
  /\ phase = "idle" => tokens = <<>> /\ files = {} /\ lastType = "UNKNOWN"
  /\ phase = "done" => files # {}
  /\ phase = "lexing" => files # {}
  /\ (OneFile /\ phase # "failed" /\ Last(stack) = "COMMENTS" /\ Breaks(Taking))
       => lastType = "COMMENT_START"

(* The property with its newline named. *)
LEMMA EolIs ==
  LineCommentEndsAtEol <=>
    \A i \in DOMAIN tokens :
      tokens[i].type = "COMMENT" /\ Breaks(LexemeText(tokens[i])) =>
        i > 1 /\ tokens[i - 1].type = "COMMENT_START"
BY Zenon DEF LineCommentEndsAtEol, Breaks, NewLine

(* Tokens that stay the same keep the property. *)
LEMMA EolStays ==
  ASSUME LineCommentEndsAtEol, tokens' = tokens, text' = text
  PROVE  LineCommentEndsAtEol'
BY DEF LineCommentEndsAtEol, LexemeText

(* The empty text has no newline. *)
LEMMA NoBreak == ~Breaks(<<>>)
BY DEF Breaks, Positions

(* A comment with a newline in it is emitted behind the start of a block   *)
(* comment.                                                                *)
LEMMA EmitsEol ==
  ASSUME TypeOK, Emits, text' = text, LineCommentEndsAtEol,
         lastType = LastTokenType,
         Last(stack) = "COMMENTS" /\ Breaks(Taking) => lastType = "COMMENT_START"
  PROVE  LineCommentEndsAtEol' /\ lastType' = LastTokenType'
<1>1. PICK tok \in TokenRecord :
        /\ tokens' = Append(tokens, tok) /\ lastType' = tok.type
        /\ tok.type = "COMMENT" => Last(stack) = "COMMENTS" /\ LexemeText(tok) = Taking
  BY DEF Emits
<1> DEFINE n == Len(tokens)
<1>2. tokens \in Seq(TokenRecord) /\ n \in Nat
  BY DEF TypeOK, TokenRecord
<1>3. /\ tokens' \in Seq(TokenRecord) /\ Len(tokens') = n + 1
      /\ \A i \in 1 .. n : tokens'[i] = tokens[i]
      /\ tokens'[n + 1] = tok /\ DOMAIN tokens' = 1 .. (n + 1) /\ tokens' # <<>>
      /\ DOMAIN tokens = 1 .. n
  BY <1>1, <1>2, AppendProperties
<1>4. lastType' = LastTokenType'
  BY <1>1, <1>3 DEF LastTokenType, Last
<1>5. ASSUME tok.type = "COMMENT", Breaks(LexemeText(tok))
      PROVE  n > 0 /\ tokens[n].type = "COMMENT_START"
  <2>1. LastTokenType = "COMMENT_START"
    BY <1>1, <1>5
  <2>2. tokens # <<>> /\ Last(tokens).type = "COMMENT_START"
    BY <2>1 DEF LastTokenType
  <2> QED BY <1>2, <2>2 DEF Last
<1> HIDE DEF n
<1>6. ASSUME NEW i \in DOMAIN tokens', tokens'[i].type = "COMMENT",
             Breaks(LexemeText(tokens'[i]))
      PROVE  i > 1 /\ tokens'[i - 1].type = "COMMENT_START"
  <2>1. CASE i = n + 1
    <3>1. n > 0 /\ tokens[n].type = "COMMENT_START"
      BY <1>3, <1>5, <1>6, <2>1
    <3>2. n \in 1 .. n /\ i - 1 = n /\ i > 1
      BY <1>2, <2>1, <3>1 DEF n
    <3> QED BY <1>3, <3>1, <3>2
  <2>2. CASE i \in 1 .. n
    <3>1. tokens'[i] = tokens[i] /\ i \in DOMAIN tokens
      BY <1>3, <2>2
    <3>2. i > 1 /\ tokens[i - 1].type = "COMMENT_START"
      BY <1>6, <3>1, EolIs
    <3>3. i - 1 \in 1 .. n
      BY <1>2, <2>2, <3>2 DEF n
    <3> QED BY <1>3, <3>2, <3>3
  <2>3. i = n + 1 \/ i \in 1 .. n
    BY <1>2, <1>3 DEF n
  <2> QED BY <2>1, <2>2, <2>3
<1>7. LineCommentEndsAtEol' <=>
        \A i \in DOMAIN tokens' :
          tokens'[i].type = "COMMENT" /\ Breaks(SubSeq(text', tokens'[i].start + 1, tokens'[i].end)) =>
            i > 1 /\ tokens'[i - 1].type = "COMMENT_START"
  BY Zenon DEF LineCommentEndsAtEol, Breaks, NewLine, LexemeText
<1>8. LineCommentEndsAtEol'
  BY <1>6, <1>7 DEF LexemeText
<1> QED BY <1>4, <1>8

(* A comment gets a newline only behind the start of a block comment. *)
LEMMA GoesOnBreaks ==
  ASSUME Busy, Inv, GoesOn, TypeOK', Last(stack') = "COMMENTS", Breaks(Taking'),
         Last(stack) = "COMMENTS" /\ Breaks(Taking) => lastType = "COMMENT_START"
  PROVE  lastType' = "COMMENT_START"
<1>1. lexeme' # NoLexeme
  BY EmptyTaking, NoBreak
<1>2. /\ Last(stack) = "COMMENTS" /\ Taking' = Append(Taking, Ch)
      /\ Ch = NewLine => lastType = "COMMENT_START"
      /\ lastType' = lastType
  BY <1>1 DEF GoesOn
<1>3. Taking \in Seq(Chars) /\ Ch \in Chars
  BY TakingIs, CharIsText DEF Busy
<1>4. Positions(Append(Taking, Ch), NewLine)
        = Positions(Taking, NewLine) \cup (IF Ch = NewLine THEN {Len(Taking) + 1} ELSE {})
  BY <1>3, PositionsAppend
<1>5. Ch # NewLine => Positions(Append(Taking, Ch), NewLine) = Positions(Taking, NewLine)
  BY <1>4
<1>6. Breaks(Append(Taking, Ch))
  BY <1>2
<1> QED BY <1>2, <1>5, <1>6 DEF Breaks

(* Every step keeps the invariant of comments. *)
LEMMA CommentInvStep ==
  ASSUME TypeOK, Inv, CommentInv, [Next]_vars PROVE CommentInv'
<1>0. TypeOK'
  BY TypeStep
<1>1. ASSUME MayLex, NEW f \in Filenames \ files, NEW t \in Texts, Lex(f, t)
      PROVE  CommentInv'
  <2>1. /\ files' = files \cup {f} /\ tokens' = <<>> /\ lastType' = lastType
        /\ lexeme' = NoLexeme /\ phase' = "lexing" /\ stack' = <<"NONE">>
    BY <1>1 DEF Lex, Clear
  <2>2. Taking' = <<>>
    BY <1>0, <2>1, EmptyTaking
  <2>3. OneFile' => lastType = "UNKNOWN"
    <3>1. phase = "done" => ~OneFile'
      BY <1>1, <2>1 DEF CommentInv, OneFile
    <3> QED BY <1>1, <3>1 DEF MayLex, CommentInv
  <2>4. LineCommentEndsAtEol' /\ LastTokenType' = "UNKNOWN"
    BY <2>1 DEF LineCommentEndsAtEol, LastTokenType
  <2> QED BY <2>1, <2>2, <2>3, <2>4, NoBreak DEF CommentInv
<1>2. ASSUME NEW f \in Filenames, LexDuplicate(f) PROVE CommentInv'
  BY <1>2 DEF LexDuplicate, LineCommentEndsAtEol, CommentInv
<1>3. CASE Fail
  <2>1. /\ tokens' = tokens /\ text' = text /\ phase' = "failed" /\ files' = files
    BY <1>3 DEF Fail, tokenVars
  <2> QED BY <2>1, EolStays DEF CommentInv, OneFile
<1>4. CASE ProcessCharacter /\ ~Fail
  <2>1. Busy /\ (Emits \/ GoesOn)
    BY <1>0, <1>4, CommentStep, Outcomes DEF Inv
  <2>2. files' = files /\ text' = text /\ phase' = phase
    BY <1>4, <2>1, Outcomes
    DEF Inv, Outcome, EmittedBefore, Taken, Reprocessed, Skipped, EmittedAfter,
        AssignmentFound, CommentClosed, EmitAndDrop, EmitAndReprocess, Take, Reprocess,
        Skip, SkipSpace, TakeAndEmit, fileVars
  <2>3. phase = "lexing" /\ (OneFile' <=> OneFile) /\ files # {}
    BY <2>1, <2>2 DEF Busy, OneFile, CommentInv
  <2>4. OneFile => /\ LineCommentEndsAtEol /\ lastType = LastTokenType
                   /\ Last(stack) = "COMMENTS" /\ Breaks(Taking) => lastType = "COMMENT_START"
    BY <2>3 DEF CommentInv
  <2>5. OneFile => LineCommentEndsAtEol' /\ lastType' = LastTokenType'
    <3>1. CASE Emits
      BY <2>2, <2>4, <3>1, EmitsEol
    <3>2. CASE GoesOn
      BY <2>2, <2>4, <3>2, EolStays DEF GoesOn, LastTokenType
    <3> QED BY <2>1, <3>1, <3>2
  <2>6. OneFile /\ Last(stack') = "COMMENTS" /\ Breaks(Taking') => lastType' = "COMMENT_START"
    <3>1. CASE Emits
      BY <1>0, <3>1, EmptyTaking, NoBreak DEF Emits
    <3>2. CASE GoesOn
      BY <1>0, <2>1, <2>4, <3>2, GoesOnBreaks
    <3> QED BY <2>1, <3>1, <3>2
  <2> QED BY <2>2, <2>3, <2>5, <2>6 DEF CommentInv
<1>5. CASE EndOfText
  <2>1. /\ tokens' = tokens /\ text' = text /\ files' = files /\ lastType' = lastType
        /\ stack' = stack /\ lexeme' = lexeme /\ phase = "lexing" /\ phase' = "done"
    BY <1>5 DEF EndOfText, tokenVars
  <2>2. Taking' = Taking /\ LastTokenType' = LastTokenType
    BY <2>1 DEF Taking, LexemeText, LastTokenType
  <2> QED BY <2>1, <2>2, EolStays DEF CommentInv, OneFile
<1>6. CASE UNCHANGED vars
  <2>1. /\ tokens' = tokens /\ text' = text /\ files' = files /\ lastType' = lastType
        /\ stack' = stack /\ lexeme' = lexeme /\ phase' = phase
    BY <1>6 DEF vars
  <2>2. Taking' = Taking /\ LastTokenType' = LastTokenType
    BY <2>1 DEF Taking, LexemeText, LastTokenType
  <2> QED BY <2>1, <2>2, EolStays DEF CommentInv, OneFile
<1> QED
  BY <1>1, <1>2, <1>3, <1>4, <1>5, <1>6 DEF Next, LexUnreadable

(* In the first file that a lexer is given, a line comment ends with its   *)
(* line, whatever the file is.                                             *)
THEOREM FirstFileComments == Spec => [](OneFile => LineCommentEndsAtEol)
<1>1. Init => CommentInv
  <2> SUFFICES ASSUME Init PROVE CommentInv
    OBVIOUS
  <2>1. Last(stack) = "NONE" /\ LastTokenType = "UNKNOWN"
    BY DEF Init, Last, LastTokenType
  <2> QED BY <2>1 DEF Init, CommentInv, LineCommentEndsAtEol
<1>2. TypeOK /\ Inv /\ CommentInv /\ [Next]_vars => CommentInv'
  BY CommentInvStep
<1>3. Spec => [](TypeOK /\ Inv)
  BY Invariant
<1>4. CommentInv => (OneFile => LineCommentEndsAtEol)
  BY DEF CommentInv
<1> QED BY <1>1, <1>2, <1>3, <1>4, PTL DEF Spec
-----------------------------------------------------------------------------
(***************************************************************************)
(* Why lex() returns: each call of processCharacter leaves fewer calls to  *)
(* be made than before (CallsLeft).  A character is handed to at most four *)
(* states, since a state that is entered for a character takes it.         *)
(***************************************************************************)

(* The calls that a state may ask for on one character besides its own,    *)
(* and those that the rest of the file may still take.                     *)
Turns ==
  CASE Last(stack) = "NONE" -> 1
    [] Last(stack) = "WHITESPACE" -> 2
    [] Last(stack) \in {"A_Z", "COLON"} /\ lexeme # NoLexeme -> 3
    [] Last(stack) \in {"A_Z_DIGIT", "ASSIGNMENT"} \cup NumberStates
         /\ lexeme # NoLexeme -> 2
    [] OTHER -> 0
CallsLeft == 4 * (Len(text) - chIndex) + Turns

(* Turns without its cases. *)
LEMMA TurnsIs ==
  /\ Turns \in 0 .. 3
  /\ Last(stack) = "NONE" => Turns = 1
  /\ Last(stack) = "WHITESPACE" => Turns = 2
  /\ Last(stack) \in {"A_Z", "COLON"} /\ lexeme # NoLexeme => Turns = 3
  /\ Last(stack) \in {"A_Z_DIGIT", "ASSIGNMENT"} \cup NumberStates /\ lexeme # NoLexeme
       => Turns = 2
  /\ Last(stack) \notin {"NONE", "WHITESPACE"} /\ lexeme = NoLexeme => Turns = 0
BY DEF Turns, NumberStates

(* The same of the next state. *)
LEMMA TurnsWillBe ==
  /\ Turns' \in 0 .. 3
  /\ Last(stack') = "NONE" => Turns' = 1
  /\ Last(stack') \in {"A_Z_DIGIT", "ASSIGNMENT"} => Turns' <= 2
  /\ Last(stack') \notin {"NONE", "WHITESPACE"} /\ lexeme' = NoLexeme => Turns' = 0
BY DEF Turns, NumberStates

(* A character that is consumed pays for the calls of the next one. *)
LEMMA ConsumeLowers ==
  ASSUME Busy, Consume, text' = text
  PROVE  CallsLeft' < CallsLeft
<1>1. chIndex \in Nat /\ Len(text) \in Nat /\ chIndex' = chIndex + 1
  BY DEF Busy, TypeOK, Consume
<1>2. Turns \in 0 .. 3 /\ Turns' \in 0 .. 3
  BY TurnsIs, TurnsWillBe
<1> QED BY <1>1, <1>2 DEF CallsLeft

(* A character that is looked at again is so in a state with fewer turns.  *)
LEMMA TurnLowers ==
  ASSUME Busy, chIndex' = chIndex, text' = text, Turns' < Turns
  PROVE  CallsLeft' < CallsLeft
<1>1. chIndex \in Nat /\ Len(text) \in Nat
  BY DEF Busy, TypeOK
<1>2. Turns \in 0 .. 3 /\ Turns' \in 0 .. 3
  BY TurnsIs, TurnsWillBe
<1> QED BY <1>1, <1>2 DEF CallsLeft

(* The ways in which processCharacter leaves the character where it is.    *)
StartsAgain ==
  /\ Last(stack) = "NONE"
  /\ Ch \in Alpha \cup Digit \cup Single \cup {"=", ":"}
  /\ Reprocess(Push(StartState(Ch)))
SpaceEnds == Last(stack) = "WHITESPACE" /\ Reprocess(Pop(stack))
DigitInWord == Last(stack) = "A_Z" /\ Ch \in Digit /\ Reprocess(Push("A_Z_DIGIT"))
TokenEnds ==
  /\ EmitAndReprocess
  /\ \/ Last(stack) \in {"A_Z", "A_Z_DIGIT"} /\ EndsWord
     \/ Last(stack) \in NumberStates /\ EndsNumber
     \/ Last(stack) = "COLON" /\ Ch # ":"
ColonEquals ==
  /\ Last(stack) = "COLON" /\ Ch = "=" /\ stack' = Push("ASSIGNMENT")
  /\ UNCHANGED <<chIndex, tokenVars, lineVars, fileVars>>

(* What consumes the character. *)
LEMMA Consumers ==
  ASSUME \/ \E stk : Take(stk) \/ Skip(stk) \/ SkipSpace(stk) \/ TakeAndEmit(stk)
         \/ EmitAndDrop
  PROVE  Consume /\ text' = text
BY DEF Take, Skip, SkipSpace, TakeAndEmit, EmitAndDrop, fileVars

(* A token is ended by a character that is dropped or looked at again. *)
LEMMA EmitBeforeIs ==
  ASSUME EmitBefore
  PROVE  EmitAndReprocess \/ (Consume /\ text' = text)
BY Consumers DEF EmitBefore

(* What a call of processCharacter does with its character. *)
LEMMA Calls ==
  ASSUME ProcessCharacter
  PROVE  \/ Fail
         \/ Consume /\ text' = text
         \/ StartsAgain \/ SpaceEnds \/ DigitInWord \/ TokenEnds \/ ColonEquals
<1>1. CASE ScanNone
  BY <1>1, Consumers, Zenon DEF ScanNone, Scanning, StartsAgain
<1>2. CASE ScanWhitespace
  BY <1>2, Consumers, Zenon DEF ScanWhitespace, Scanning, SpaceEnds
<1>3. CASE ScanWord
  <2>1. Last(stack) = "A_Z" /\ Last(stack) \in {"A_Z", "A_Z_DIGIT"}
    BY <1>3 DEF ScanWord, Scanning
  <2> QED BY <1>3, <2>1, Consumers, EmitBeforeIs, Zenon DEF ScanWord, DigitInWord, TokenEnds
<1>4. CASE ScanWordDigit
  <2>1. Last(stack) \in {"A_Z", "A_Z_DIGIT"}
    BY <1>4 DEF ScanWordDigit, Scanning
  <2> QED BY <1>4, <2>1, Consumers, EmitBeforeIs, Zenon DEF ScanWordDigit, TokenEnds
<1>5. CASE ScanDigit \/ ScanDecimal \/ ScanVersion \/ ScanHex \/ ScanBinary
  <2>1. Last(stack) \in NumberStates
    BY <1>5 DEF ScanDigit, ScanDecimal, ScanVersion, ScanHex, ScanBinary, Scanning,
       NumberStates
  <2>2. Fail \/ (\E stk : Take(stk)) \/ (EndsNumber /\ EmitBefore)
    BY <1>5, Zenon DEF ScanDigit, ScanDecimal, ScanVersion, ScanHex, ScanBinary
  <2> QED BY <2>1, <2>2, Consumers, EmitBeforeIs, Zenon DEF TokenEnds
<1>6. CASE ScanString \/ ScanSingle
  BY <1>6, Consumers, Zenon DEF ScanString, ScanSingle
<1>7. CASE ScanColon
  <2>1. Last(stack) = "COLON"
    BY <1>7 DEF ScanColon, Scanning
  <2>2. CASE Ch \notin {"=", ":"} /\ EmitBefore
    BY <2>1, <2>2, EmitBeforeIs DEF TokenEnds
  <2> QED BY <1>7, <2>1, <2>2, Consumers, Zenon DEF ScanColon, ColonEquals
<1>8. CASE ScanAssignment \/ ScanCommentClose \/ ScanUnhandled
  BY <1>8, Consumers, Zenon DEF ScanAssignment, ScanCommentClose, ScanUnhandled
<1>9. CASE ScanComments
  BY <1>9, Consumers, Zenon DEF ScanComments, fileVars
<1> QED BY <1>1, <1>2, <1>3, <1>4, <1>5, <1>6, <1>7, <1>8, <1>9 DEF ProcessCharacter

(* A token that ends before its last character has one. *)
LEMMA EndedHasText ==
  ASSUME Scans, TokenEnds
  PROVE  lexeme # NoLexeme
<1>1. lexeme = NoLexeme <=> Taking = <<>>
  BY ScansFacts, TakingIs
<1>2. Fits(Last(stack), Taking) /\ Opened /\ ScanInvariant /\ Busy
  BY ScansFacts
<1>3. CASE Last(stack) = "A_Z" /\ EndsWord
  BY <1>1, <1>2, <1>3, Enders DEF Opened
<1>4. CASE Last(stack) = "A_Z_DIGIT"
  BY <1>1, <1>2, <1>4, FitsIs DEF Word
<1>5. CASE Last(stack) = "DIGIT" /\ EndsNumber
  BY <1>1, <1>2, <1>5, Enders DEF Opened
<1>6. CASE Last(stack) \in NumberStates \ {"DIGIT"}
  <2>1. CASE Last(stack) \in {"DECIMAL_DIGIT", "VERSION_DIGIT"}
    BY <1>1, <1>2, <2>1, FitsText DEF Number
  <2>2. CASE Last(stack) \in {"HEXADECIMAL_DIGIT", "BINARY_DIGIT"}
    <3>1. Prefixed(Taking, "x", HexDigit) \/ Prefixed(Taking, "b", BinDigit)
      BY <1>2, <2>2, FitsIs, WellFormedIs, ZenonT(60)
    <3>2. 2 .. Len(Taking) # {}
      BY <3>1 DEF Prefixed
    <3>3. Taking # <<>>
      BY <3>2
    <3> QED BY <1>1, <3>3
  <2> QED BY <1>6, <2>1, <2>2 DEF NumberStates
<1>7. CASE Last(stack) = "COLON" /\ Ch # ":"
  BY <1>2, <1>7 DEF ScanInvariant, Busy
<1> QED BY <1>3, <1>4, <1>5, <1>6, <1>7 DEF TokenEnds

(* Every call of processCharacter that does not throw leaves fewer. *)
LEMMA ScanLowers ==
  ASSUME Scans, ProcessCharacter
  PROVE  phase' = "failed" \/ CallsLeft' < CallsLeft
<1>1. Busy /\ TypeOK /\ ScanInvariant
  BY ScansFacts DEF Busy
<1>2. CASE Fail
  BY <1>2 DEF Fail
<1>3. CASE Consume /\ text' = text
  BY <1>1, <1>3, ConsumeLowers
<1>4. CASE StartsAgain
  <2>1. chIndex' = chIndex /\ text' = text /\ lexeme' = NoLexeme
    BY <1>1, <1>4 DEF StartsAgain, Reprocess, fileVars, ScanInvariant, Busy
  <2>2. StartState(Ch) \in {"A_Z", "DIGIT", "EQUALS_SIGN", "COLON"} \cup SingleStates
    BY <1>4, StartsAt DEF StartsAgain
  <2>3. Last(stack') = StartState(Ch)
    BY <1>1, <1>4, <2>2, LastPush DEF StartsAgain, Reprocess, States, NumberStates
  <2>4. Last(stack') \notin {"NONE", "WHITESPACE"}
    BY <2>2, <2>3, SingleStatesApart
  <2>5. Turns = 1 /\ Turns' = 0
    BY <1>4, <2>1, <2>4, TurnsIs, TurnsWillBe DEF StartsAgain
  <2> QED BY <1>1, <2>1, <2>5, TurnLowers
<1>5. CASE SpaceEnds
  <2>1. chIndex' = chIndex /\ text' = text /\ stack' = Pop(stack)
    BY <1>5 DEF SpaceEnds, Reprocess, fileVars
  <2>2. {"WHITESPACE", "NONE"} \subseteq States
    BY DEF States
  <2>3. Pop(stack) = LegalStack("NONE")
    BY <1>1, <1>5, <2>2, StackFacts, PopLegal, BelowIsLegal DEF SpaceEnds
  <2>4. Last(stack') = "NONE"
    BY <2>1, <2>2, <2>3, LegalStackType
  <2>5. Turns = 2 /\ Turns' = 1
    BY <1>5, <2>4, TurnsIs, TurnsWillBe DEF SpaceEnds
  <2> QED BY <1>1, <2>1, <2>5, TurnLowers
<1>6. CASE DigitInWord
  <2>1. chIndex' = chIndex /\ text' = text /\ stack' = Push("A_Z_DIGIT")
    BY <1>6 DEF DigitInWord, Reprocess, fileVars
  <2>2. lexeme # NoLexeme
    BY <1>6, ScansFacts, TakingIs, AlphaNotDigit DEF DigitInWord, Opened
  <2>3. Last(stack') = "A_Z_DIGIT"
    BY <1>1, <2>1, LastPush DEF States
  <2>4. Turns = 3 /\ Turns' <= 2 /\ Turns' \in 0 .. 3
    BY <1>6, <2>2, <2>3, TurnsIs, TurnsWillBe DEF DigitInWord
  <2> QED BY <1>1, <2>1, <2>4, TurnLowers
<1>7. CASE TokenEnds
  <2>1. /\ chIndex' = chIndex /\ text' = text
        /\ stack' = AfterToken(Last(stack), stack)
    BY <1>7 DEF TokenEnds, EmitAndReprocess, fileVars
  <2>2. Last(stack) \in {"A_Z", "A_Z_DIGIT", "COLON"} \cup NumberStates
    BY <1>7 DEF TokenEnds
  <2>3. Last(stack) # "NONE"
    BY <2>2 DEF NumberStates
  <2>4. Last(stack') = "NONE"
    BY <1>1, <2>1, <2>3, StackFacts, LegalStackType DEF States
  <2>5. Turns >= 2 /\ Turns' = 1 /\ Turns \in 0 .. 3
    BY <1>7, <2>2, <2>4, EndedHasText, TurnsIs, TurnsWillBe
  <2> QED BY <1>1, <2>1, <2>5, TurnLowers
<1>8. CASE ColonEquals
  <2>1. chIndex' = chIndex /\ text' = text /\ stack' = Push("ASSIGNMENT")
    BY <1>8 DEF ColonEquals, fileVars
  <2>2. lexeme # NoLexeme
    BY <1>1, <1>8 DEF ColonEquals, ScanInvariant, Busy
  <2>3. Last(stack') = "ASSIGNMENT"
    BY <1>1, <2>1, LastPush DEF States
  <2>4. Turns = 3 /\ Turns' <= 2 /\ Turns' \in 0 .. 3
    BY <1>8, <2>2, <2>3, TurnsIs, TurnsWillBe DEF ColonEquals
  <2> QED BY <1>1, <2>1, <2>4, TurnLowers
<1> QED BY <1>2, <1>3, <1>4, <1>5, <1>6, <1>7, <1>8, Calls

(* No character is processed again for ever: every call of                 *)
(* processCharacter, recursive or from the loop of lex(), throws or leaves *)
(* fewer calls to be made, of which a file of n characters needs at most   *)
(* 4 * n + 1.  LexReturns follows since the loop is never interrupted.     *)
THEOREM CallsRunOut ==
  Spec => [][ProcessCharacter =>
               /\ CallsLeft \in Nat /\ CallsLeft <= 4 * Len(text) + 3
               /\ phase' = "failed" \/ CallsLeft' < CallsLeft]_vars
<1>1. TypeOK => CallsLeft \in Nat /\ CallsLeft <= 4 * Len(text) + 3
  <2> SUFFICES ASSUME TypeOK
               PROVE  CallsLeft \in Nat /\ CallsLeft <= 4 * Len(text) + 3
    OBVIOUS
  <2>1. chIndex \in 0 .. Len(text) /\ Len(text) \in Nat
    BY DEF TypeOK
  <2> QED BY <2>1, TurnsIs DEF CallsLeft
<1>2. TypeOK /\ Inv /\ TextInv /\ [Next]_vars /\ ProcessCharacter
        => phase' = "failed" \/ CallsLeft' < CallsLeft
  BY TypeStep, Outcomes, ScanLowers DEF Inv, Scans
<1>3. TypeOK /\ Inv /\ TextInv /\ [Next]_vars =>
        [ProcessCharacter =>
           /\ CallsLeft \in Nat /\ CallsLeft <= 4 * Len(text) + 3
           /\ phase' = "failed" \/ CallsLeft' < CallsLeft]_vars
  BY <1>1, <1>2
<1> QED BY <1>3, Invariant, TextAlways, PTL DEF Spec
=============================================================================
