------------------------------- MODULE Lexer -------------------------------
(***************************************************************************)
(* The lexer of scratch-lang (src/src/Lexer.h, class lexer::Lexer): a      *)
(* push-down automaton over the characters of one source file.  The state  *)
(* of the automaton is the top of stateStack; a character is handed to     *)
(* processCharacter, which may push or pop a state, extend the pending     *)
(* lexeme, emit the lexeme as a token, and ask for the same character to   *)
(* be processed again in the new state.  Every (possibly recursive) call   *)
(* of processCharacter is one step here.                                   *)
(*                                                                         *)
(* One Lexer object lexes all the files of a build one after the other     *)
(* (Compiler::build), so what lex() does not reset survives from one file  *)
(* to the next: that is currentToken, of which only the type is ever read  *)
(* (lastType).                                                             *)
(*                                                                         *)
(* Positions are 0-based as in the code: the character at position p is    *)
(* text[p + 1].  Characters are one representative per class the code      *)
(* tells apart; columns and the wording of errors are left out.            *)
(***************************************************************************)
EXTENDS Integers, Sequences, SequencesExt

CONSTANTS
  Filenames,  \* the names lex() may be called with
  Texts,      \* the file contents lex() may read
  Keywords,   \* language::Keywords, as sequences of characters
  Booleans    \* the keywords "true" and "false"

(***************************************************************************)
(* Character classes.  "a" stands for the letters that are hexadecimal     *)
(* digits, "b" for b and B, "x" for x and X, "z" for every other letter,   *)
(* "2" for the digits that are not binary, " " for space and tab, "_" for  *)
(* the characters no state accepts outside a string or a comment.          *)
(***************************************************************************)
Alpha      == {"a", "b", "x", "z"}
Digit      == {"0", "1", "2"}
BinDigit   == {"0", "1"}
HexDigit   == Digit \cup {"a", "b"}
Whitespace == {" ", "\r", "\n"}
Operators  == {"+", "-", "*", "/", "%"}
Brackets   == {"(", ")", "{", "}", "[", "]"}
Single     == Operators \cup Brackets \cup {";", "@", ".", ","}
Other      == {"_"}
Chars      == Alpha \cup Digit \cup Whitespace \cup Single
                \cup {":", "=", "#", "\""} \cup Other

ASSUME LexerAssumption ==
  /\ Texts \subseteq Seq(Chars)
  /\ Keywords \subseteq Seq(Alpha \cup Digit)
  /\ Booleans \subseteq Keywords

(***************************************************************************)
(* Lexer::State.  SingleStates are those whose case in processCharacter    *)
(* appends the character and emits the token at once.                      *)
(***************************************************************************)
SingleState(ch) ==
  CASE ch = "+" -> "ADD_OPERATOR"   [] ch = "-" -> "SUB_OPERATOR"
    [] ch = "*" -> "MULT_OPERATOR"  [] ch = "/" -> "DIV_OPERATOR"
    [] ch = "%" -> "MOD_OPERATOR"   [] ch = ";" -> "END_OF_STATEMENT"
    [] ch = "(" -> "OPEN_PAREN"     [] ch = ")" -> "CLOSE_PAREN"
    [] ch = "{" -> "OPEN_BRACE"     [] ch = "}" -> "CLOSE_BRACE"
    [] ch = "[" -> "OPEN_BRACKET"   [] ch = "]" -> "CLOSE_BRACKET"
    [] ch = "@" -> "AT_SIGN"        [] ch = "." -> "DOT"
    [] OTHER -> "COMMA"

SingleStates == {SingleState(ch) : ch \in Single}

NumberStates == {"DIGIT", "DECIMAL_DIGIT", "HEXADECIMAL_DIGIT",
                 "BINARY_DIGIT", "VERSION_DIGIT"}

States == {"NONE", "WHITESPACE", "A_Z", "A_Z_DIGIT", "STRING", "COLON",
           "ASSIGNMENT", "EQUALS_SIGN", "COMMENTS", "COMMENT_OPEN_BRACE",
           "COMMENT_CLOSE_BRACE"} \cup NumberStates \cup SingleStates

(* Token::Type; a punctuation token is named after the state it comes from. *)
Types == {"UNKNOWN", "STRING_LITERAL", "INTEGER_LITERAL", "DECIMAL_LITERAL",
          "HEXADECIMAL_LITERAL", "BINARY_LITERAL", "VERSION_LITERAL",
          "IDENTIFIER", "KEYWORD", "BOOLEAN_LITERAL", "ASSIGMENT_OPERATOR",
          "COLON", "COMMENT_START", "COMMENT_END", "COMMENT"}
           \cup SingleStates

VARIABLES
  files,     \* the files map: names already lexed
  text,      \* currentText()
  chIndex,   \* currentChIndex
  stack,     \* stateStack, the current state last
  lexeme,    \* [start, end]: currentLexemeStart, currentLexemeEnd
  line,      \* currentLine
  newLines,  \* FileContext::newLines of the current file
  tokens,    \* FileContext::tokens of the current file
  lastType,  \* currentToken.type
  phase      \* "idle" before lex, "lexing", "done" (lex returned), "failed"

vars == <<files, text, chIndex, stack, lexeme, line, newLines, tokens,
          lastType, phase>>
lineVars  == <<line, newLines>>
tokenVars == <<tokens, lastType>>
fileVars  == <<files, text, phase>>

NoLexeme == [start |-> 0, end |-> 0]

Init ==
  /\ files = {} /\ text = <<>> /\ chIndex = 0 /\ stack = <<"NONE">>
  /\ lexeme = NoLexeme /\ line = 0 /\ newLines = <<>> /\ tokens = <<>>
  /\ lastType = "UNKNOWN" /\ phase = "idle"
-----------------------------------------------------------------------------
(* getPosFromOffset clamps to the text, so looking past either end sees    *)
(* the first or the last character.                                        *)
PosFromOffset(offset) ==
  IF offset < 0 /\ -offset >= chIndex THEN 0
  ELSE IF offset > 0 /\ chIndex + offset >= Len(text) THEN Len(text) - 1
  ELSE chIndex + offset

CurrentCh(offset) == text[PosFromOffset(offset) + 1]
Ch == CurrentCh(0)

(* Bug: only "\r\n" ends a line. *)
IsNewLineCRLF == Ch = "\r" /\ CurrentCh(1) = "\n"
IsNewLine == Ch = "\n" \/ (Ch = "\r" /\ CurrentCh(1) = "\n")
IsAssignment == Ch = ":" /\ CurrentCh(1) = "="
ReservedCh == Ch \in Single \cup {"#"} \/ IsAssignment
EndsNumber == Ch \in Whitespace \/ ReservedCh
EndsWord   == EndsNumber \/ Ch = ":"
CommentStart == CurrentCh(-1) = "#" /\ Ch = "{"
CommentEnd   == Ch = "}" /\ CurrentCh(1) = "#"

(* Bugs: the state stack may run empty; a state is looked at, not popped. *)
PopToEmpty(stk) == SubSeq(stk, 1, Len(stk) - 1)
PopNothing(stk) == stk
(* popState never leaves the stack empty. *)
Pop(stk) == IF Len(stk) <= 1 THEN <<"NONE">> ELSE SubSeq(stk, 1, Len(stk) - 1)

(* processToken: the states under which it pops once more than usual, and  *)
(* those under which it clears the stack first.                            *)
(* Bug: one state is forgotten. *)
PopsTwiceNoDecimal == {"HEXADECIMAL_DIGIT", "BINARY_DIGIT", "ASSIGNMENT",
                       "AT_SIGN", "DOT", "A_Z_DIGIT", "COMMA"}
PopsTwice == {"DECIMAL_DIGIT", "HEXADECIMAL_DIGIT", "BINARY_DIGIT",
              "ASSIGNMENT", "AT_SIGN", "DOT", "A_Z_DIGIT", "COMMA"}
Clears    == {"COLON", "VERSION_DIGIT"}

AfterToken(state, stk) ==
  IF state \in Clears THEN <<"NONE">>
  ELSE IF state \in PopsTwice THEN Pop(Pop(stk)) ELSE Pop(stk)

LexemeText(lx) == SubSeq(text, lx.start + 1, lx.end)

WordType(lx) ==
  IF LexemeText(lx) \in Booleans THEN "BOOLEAN_LITERAL"
  ELSE IF LexemeText(lx) \in Keywords THEN "KEYWORD" ELSE "IDENTIFIER"

TokenType(state, lx) ==
  CASE state = "STRING"              -> "STRING_LITERAL"
    [] state = "DIGIT"               -> "INTEGER_LITERAL"
    [] state = "DECIMAL_DIGIT"       -> "DECIMAL_LITERAL"
    [] state = "HEXADECIMAL_DIGIT"   -> "HEXADECIMAL_LITERAL"
    [] state = "BINARY_DIGIT"        -> "BINARY_LITERAL"
    [] state = "VERSION_DIGIT"       -> "VERSION_LITERAL"
    [] state \in {"A_Z", "A_Z_DIGIT"} -> WordType(lx)
    [] state = "ASSIGNMENT"          -> "ASSIGMENT_OPERATOR"
    [] state = "COLON"               -> "COLON"
    [] state = "COMMENT_OPEN_BRACE"  -> "COMMENT_START"
    [] state = "COMMENT_CLOSE_BRACE" -> "COMMENT_END"
    [] state = "COMMENTS"            -> "COMMENT"
    [] state \in SingleStates        -> state
    [] OTHER                         -> "UNKNOWN"

(* The lexeme after currentCh is appended to it. *)
Extended ==
  IF lexeme = NoLexeme THEN [start |-> chIndex, end |-> chIndex + 1]
                       ELSE [lexeme EXCEPT !.end = @ + 1]

Token(state, lx) ==
  [type |-> TokenType(state, lx), start |-> lx.start, end |-> lx.end,
   line |-> line]

(* Bug: the pending lexeme is not reset. *)
AddTokenNoReset(lx, stk) ==
  /\ tokens' = Append(tokens, Token(Last(stk), lx))
  /\ lastType' = TokenType(Last(stk), lx)
  /\ lexeme' = lx
(* addToken: emit lexeme lx as the token of the state on top of stk.       *)
AddToken(lx, stk) ==
  /\ tokens' = Append(tokens, Token(Last(stk), lx))
  /\ lastType' = TokenType(Last(stk), lx)
  /\ lexeme' = NoLexeme
-----------------------------------------------------------------------------
(* What one call of processCharacter can come to. *)

Push(state) == Append(stack, state)
Consume == chIndex' = chIndex + 1     \* result true: lex() calls incrChIdx

Take(stk) ==          \* append the character, no token
  /\ lexeme' = Extended /\ stack' = stk /\ Consume
  /\ UNCHANGED <<tokenVars, lineVars, fileVars>>

Reprocess(stk) ==     \* same character, new state
  /\ stack' = stk
  /\ UNCHANGED <<chIndex, lexeme, tokenVars, lineVars, fileVars>>

Skip(stk) ==          \* the character is a delimiter and belongs to no token
  /\ stack' = stk /\ Consume
  /\ UNCHANGED <<lexeme, tokenVars, lineVars, fileVars>>

EmitAndDrop ==        \* the token ends before the character, which is dropped
  /\ AddToken(lexeme, stack) /\ stack' = AfterToken(Last(stack), stack)
  /\ Consume
  /\ UNCHANGED <<lineVars, fileVars>>

EmitAndReprocess ==   \* the token ends before the character
  /\ AddToken(lexeme, stack) /\ stack' = AfterToken(Last(stack), stack)
  /\ UNCHANGED <<chIndex, lineVars, fileVars>>

TakeAndEmit(stk) ==   \* the token ends with the character
  /\ AddToken(Extended, stk) /\ stack' = AfterToken(Last(stk), stk)
  /\ Consume
  /\ UNCHANGED <<lineVars, fileVars>>

Fail ==               \* error(): clearState and throw
  /\ phase' = "failed" /\ stack' = <<"NONE">>
  /\ UNCHANGED <<files, text, chIndex, lexeme, tokenVars, lineVars>>

(* Bug: both characters of "\r\n" are counted. *)
CountBoth ==
  IF IsNewLine THEN /\ newLines' = Append(newLines, chIndex)
                    /\ line' = line + 1
               ELSE UNCHANGED lineVars
(* processWhiteSpace: the "\r" of "\r\n" is left to the "\n". *)
CountNewLine ==
  IF Ch = "\n" THEN /\ newLines' = Append(newLines, chIndex)
                    /\ line' = line + 1
               ELSE UNCHANGED lineVars
-----------------------------------------------------------------------------
Scanning(state) ==
  phase = "lexing" /\ chIndex < Len(text) /\ Last(stack) = state

(* The states a character that is reprocessed leads to from NONE. *)
StartState(ch) ==
  CASE ch \in Alpha -> "A_Z" [] ch \in Digit -> "DIGIT"
    [] ch = "=" -> "EQUALS_SIGN" [] ch = ":" -> "COLON"
    [] OTHER -> SingleState(ch)

SkipSpace(stk) ==
  /\ Ch \in Whitespace
  /\ CountNewLine
  /\ stack' = stk /\ Consume
  /\ UNCHANGED <<lexeme, tokenVars, fileVars>>

ScanNone ==
  /\ Scanning("NONE")
  /\ \/ SkipSpace(Push("WHITESPACE"))
     \/ Ch = "\"" /\ Skip(Push("STRING"))
     \/ Ch = "#"  /\ Skip(Push("COMMENTS"))
     \/ /\ Ch \in Alpha \cup Digit \cup Single \cup {"=", ":"}
        /\ Reprocess(Push(StartState(Ch)))
     \/ Ch \in Other /\ Fail

ScanWhitespace ==
  /\ Scanning("WHITESPACE")
  /\ \/ SkipSpace(stack)
     \/ Ch \notin Whitespace /\ Reprocess(Pop(stack))

(* Bug: the character that ends a token is always swallowed. *)
EmitBeforeDrops == EmitAndDrop
(* A token ended by whitespace swallows that one character, otherwise the  *)
(* character starts the next token.                                        *)
EmitBefore == IF Ch \in Whitespace THEN EmitAndDrop ELSE EmitAndReprocess

ScanWord ==
  /\ Scanning("A_Z")
  /\ \/ Ch \in Alpha /\ Take(stack)
     \/ Ch \in Digit /\ Reprocess(Push("A_Z_DIGIT"))
     \/ EndsWord /\ EmitBefore
     \/ Ch \notin Alpha \cup Digit /\ ~EndsWord /\ Fail

ScanWordDigit ==
  /\ Scanning("A_Z_DIGIT")
  /\ \/ Ch \in Alpha \cup Digit /\ Take(stack)
     \/ EndsWord /\ EmitBefore
     \/ Ch \notin Alpha \cup Digit /\ ~EndsWord /\ Fail

(* Bug: the prefix is not looked at. *)
AfterAny == TRUE
(* The prefix test looks at the previous character only. *)
AfterZero == CurrentCh(-1) = "0"

ScanDigit ==
  /\ Scanning("DIGIT")
  /\ \/ Ch \in Digit /\ Take(stack)
     \/ Ch = "." /\ Take(Push("DECIMAL_DIGIT"))
     \/ Ch = "x" /\ AfterZero /\ Take(Push("HEXADECIMAL_DIGIT"))
     \/ Ch = "b" /\ AfterZero /\ Take(Push("BINARY_DIGIT"))
     \/ Ch # "." /\ EndsNumber /\ EmitBefore
     \/ /\ Ch \notin Digit /\ ~EndsNumber /\ ~(Ch \in {"x", "b"} /\ AfterZero)
        /\ Fail

ScanDecimal ==
  /\ Scanning("DECIMAL_DIGIT")
  /\ \/ Ch \in Digit /\ Take(stack)
     \/ Ch = "." /\ Take(Push("VERSION_DIGIT"))
     \/ Ch # "." /\ EndsNumber /\ EmitBefore
     \/ Ch \notin Digit /\ ~EndsNumber /\ Fail

ScanVersion ==
  /\ Scanning("VERSION_DIGIT")
  /\ \/ Ch \in Digit \cup {"."} /\ Take(stack)
     \/ Ch # "." /\ EndsNumber /\ EmitBefore
     \/ Ch \notin Digit /\ ~EndsNumber /\ Fail

ScanHex ==
  /\ Scanning("HEXADECIMAL_DIGIT")
  /\ \/ Ch \in HexDigit /\ Take(stack)
     \/ EndsNumber /\ EmitBefore
     \/ Ch \notin HexDigit /\ ~EndsNumber /\ Fail

ScanBinary ==
  /\ Scanning("BINARY_DIGIT")
  /\ \/ Ch \in BinDigit /\ Take(stack)
     \/ EndsNumber /\ EmitBefore
     \/ Ch \notin BinDigit /\ ~EndsNumber /\ Fail

ScanString ==
  /\ Scanning("STRING")
  /\ \/ Ch # "\"" /\ Take(stack)
     \/ Ch = "\"" /\ EmitAndDrop

ScanSingle ==
  /\ \E state \in SingleStates : Scanning(state)
  /\ TakeAndEmit(stack)

(* The "=" of ":=" is appended here and looked at again in ASSIGNMENT.     *)
ScanColon ==
  /\ Scanning("COLON")
  /\ \/ /\ Ch = "="
        /\ lexeme' = Extended /\ stack' = Push("ASSIGNMENT")
        /\ UNCHANGED <<chIndex, tokenVars, lineVars, fileVars>>
     \/ Ch = ":" /\ Take(stack)
     \/ Ch \notin {"=", ":"} /\ EmitBefore

ScanAssignment ==
  /\ Scanning("ASSIGNMENT")
  /\ IF Ch = "=" /\ CurrentCh(-1) = ":" THEN EmitAndDrop
     ELSE IF Ch = ":" THEN Take(stack) ELSE Fail

(* "#{" opens a block comment and "}#" closes any comment; otherwise the   *)
(* line ends the comment, unless the last token was a COMMENT_START.       *)
ScanComments ==
  /\ Scanning("COMMENTS")
  /\ \/ CommentStart /\ TakeAndEmit(Push("COMMENT_OPEN_BRACE"))
     \/ /\ ~CommentStart /\ CommentEnd
        /\ tokens' = Append(tokens, Token("COMMENTS", lexeme))
        /\ lastType' = "COMMENT"
        /\ stack' = Append(Pop(stack), "COMMENT_CLOSE_BRACE")
        /\ lexeme' = [start |-> chIndex, end |-> chIndex + 1]
        /\ Consume
        /\ UNCHANGED <<lineVars, fileVars>>
     \/ /\ ~CommentStart /\ ~CommentEnd
        /\ IF IsNewLine /\ lastType # "COMMENT_START"
           THEN EmitAndDrop ELSE Take(stack)

ScanCommentClose ==
  /\ Scanning("COMMENT_CLOSE_BRACE")
  /\ IF Ch = "#" THEN EmitAndDrop ELSE Fail

(* States without a case in processCharacter. *)
ScanUnhandled ==
  /\ Scanning("EQUALS_SIGN")
  /\ Fail
-----------------------------------------------------------------------------
MayLex == phase \in {"idle", "done"}

(* clear(): everything but files and currentToken starts afresh. *)
Clear ==
  /\ chIndex' = 0 /\ stack' = <<"NONE">> /\ lexeme' = NoLexeme
  /\ line' = 1 /\ lastType' = lastType

(* lex(fileName) of a new file: clear(), then a context with its text.     *)
Lex(f, t) ==
  /\ Clear
  /\ files' = files \cup {f} /\ text' = t /\ phase' = "lexing"
  /\ newLines' = <<>> /\ tokens' = <<>>

(* setCurrentContext throws when the name was lexed before.                *)
LexDuplicate(f) ==
  /\ Clear
  /\ phase' = "failed"
  /\ files' = files /\ text' = <<>> /\ newLines' = <<>> /\ tokens' = <<>>

(* A file that cannot be opened is an error before anything is cleared.    *)
LexUnreadable == Fail

(* The loop ends at the end of the text; whatever is pending stays behind. *)
EndOfText ==
  /\ phase = "lexing" /\ chIndex = Len(text)
  /\ phase' = "done"
  /\ UNCHANGED <<files, text, chIndex, stack, lexeme, tokenVars, lineVars>>

ProcessCharacter ==
  \/ ScanNone \/ ScanWhitespace \/ ScanWord \/ ScanWordDigit
  \/ ScanDigit \/ ScanDecimal \/ ScanVersion \/ ScanHex \/ ScanBinary
  \/ ScanString \/ ScanSingle \/ ScanColon \/ ScanAssignment
  \/ ScanComments \/ ScanCommentClose \/ ScanUnhandled

Next ==
  \/ /\ MayLex
     /\ \/ \E f \in Filenames \ files : \E t \in Texts : Lex(f, t)
        \/ \E f \in Filenames \cap files : LexDuplicate(f)
        \/ LexUnreadable
  \/ ProcessCharacter
  \/ EndOfText

Spec == Init /\ [][Next]_vars

(* lex() runs its loop to the end: nothing can interrupt it.               *)
FairSpec == Spec /\ WF_vars(ProcessCharacter \/ EndOfText)
-----------------------------------------------------------------------------
(* Properties *)

Span(t) == t.start .. (t.end - 1)
Pending == lexeme.start .. (lexeme.end - 1)

(* Every variable has the type of the member it stands for. *)
TypeOK ==
  /\ files \subseteq Filenames
  /\ text \in Seq(Chars)
  /\ chIndex \in 0 .. Len(text)
  /\ stack \in Seq(States) /\ stack # <<>>
  /\ lexeme \in [start : Nat, end : Nat]
  /\ line \in Nat
  /\ newLines \in Seq(Nat)
  /\ tokens \in Seq([type : Types, start : Nat, end : Nat, line : Nat])
  /\ lastType \in Types
  /\ phase \in {"idle", "lexing", "done", "failed"}

(* No character is lost: every character consumed so far lies in a token   *)
(* or in the pending lexeme, or is whitespace or one of the delimiters     *)
(* '"' and '#' that the lexer drops on purpose.  It takes the push, the    *)
(* append, the token and the reprocessing of processCharacter to agree on  *)
(* every character for this to hold.                                       *)
Kept(p) == p \in Pending \/ \E i \in DOMAIN tokens : p \in Span(tokens[i])
Dropped == Whitespace \cup {"\"", "#"}
NothingLost ==
  \A p \in 0 .. (chIndex - 1) : text[p + 1] \in Dropped \/ Kept(p)

(* The tokens of a file do not overlap, come in the order of their         *)
(* positions and before the pending lexeme (an empty string or comment is  *)
(* a token with an empty span, wherever it says it starts).                *)
Precedes(s, t) == \A p \in s, q \in t : p < q
TokensInOrder ==
  /\ \A i, j \in DOMAIN tokens :
       i < j => Precedes(Span(tokens[i]), Span(tokens[j]))
  /\ \A i \in DOMAIN tokens : Precedes(Span(tokens[i]), Pending)

(* The pending lexeme is the run of characters just before the one being   *)
(* processed; only the "=" of ":=" is appended ahead of its own turn.      *)
LexemeIsContiguous ==
  lexeme # NoLexeme =>
    /\ lexeme.start < lexeme.end
    /\ lexeme.end = IF Last(stack) = "ASSIGNMENT" THEN chIndex + 1 ELSE chIndex

(* Why these hold: Inv is preserved by every step.  While the lexer        *)
(* has not failed, the stack is determined by the state on top of it; the  *)
(* states between two tokens have no pending lexeme; COLON has just seen a *)
(* ":" or is about to, and ASSIGNMENT stands on the "=" after a ":".       *)
Below(state) ==
  CASE state = "A_Z_DIGIT"     -> <<"NONE", "A_Z">>
    [] state \in {"DECIMAL_DIGIT", "HEXADECIMAL_DIGIT", "BINARY_DIGIT"}
                               -> <<"NONE", "DIGIT">>
    [] state = "VERSION_DIGIT" -> <<"NONE", "DIGIT", "DECIMAL_DIGIT">>
    [] state = "ASSIGNMENT"    -> <<"NONE", "COLON">>
    [] OTHER                   -> <<"NONE">>
LegalStack(state) ==
  IF state = "NONE" THEN <<"NONE">> ELSE Append(Below(state), state)

StackIsLegal ==
  /\ Last(stack) \in States \ {"COMMENT_OPEN_BRACE"}
  /\ stack = LegalStack(Last(stack))

AfterColon == chIndex > 0 /\ text[chIndex] = ":"

ScanInvariant ==
  phase # "failed" =>
    /\ StackIsLegal
    /\ Last(stack) \in {"NONE", "WHITESPACE"} => lexeme = NoLexeme
    /\ Last(stack) = "COLON" =>
         IF lexeme = NoLexeme THEN chIndex < Len(text) /\ Ch = ":" ELSE AfterColon
    /\ Last(stack) = "ASSIGNMENT" =>
         lexeme # NoLexeme /\ chIndex < Len(text) /\ Ch = "=" /\ AfterColon

(* The next token starts at Frontier, behind all tokens there are.         *)
Frontier == IF lexeme = NoLexeme THEN chIndex ELSE lexeme.start
TokensBehind == \A i \in DOMAIN tokens : tokens[i].end <= Frontier

Inv ==
  /\ ScanInvariant /\ TokensBehind
  /\ MayLex => chIndex = Len(text)
  /\ LexemeIsContiguous /\ NothingLost /\ TokensInOrder

(* The text of each token is one its type allows (the literals and         *)
(* identifiers of the language, checked against the whole lexeme and not   *)
(* character by character as the automaton does).                          *)
AllIn(s, chars) == \A i \in DOMAIN s : s[i] \in chars
Positions(s, ch) == {i \in DOMAIN s : s[i] = ch}
Prefixed(s, mark, digits) ==
  \E k \in 2 .. Len(s) :
    /\ s[k] = mark /\ s[k - 1] = "0"
    /\ AllIn(SubSeq(s, 1, k - 1), Digit)
    /\ AllIn(SubSeq(s, k + 1, Len(s)), digits)

WellFormed(type, s) ==
  /\ type = "INTEGER_LITERAL" => s # <<>> /\ AllIn(s, Digit)
  /\ type \in {"DECIMAL_LITERAL", "VERSION_LITERAL"} =>
       s # <<>> /\ AllIn(s, Digit \cup {"."}) /\ s[1] \in Digit
  /\ type = "DECIMAL_LITERAL" => \E k \in DOMAIN s : Positions(s, ".") = {k}
  /\ type = "VERSION_LITERAL" =>
       \E j, k \in DOMAIN s : j # k /\ {j, k} \subseteq Positions(s, ".")
  /\ type = "HEXADECIMAL_LITERAL" => Prefixed(s, "x", HexDigit)
  /\ type = "BINARY_LITERAL" => Prefixed(s, "b", BinDigit)
  /\ type \in {"IDENTIFIER", "KEYWORD", "BOOLEAN_LITERAL"} =>
       s # <<>> /\ s[1] \in Alpha /\ AllIn(s, Alpha \cup Digit)
  /\ type = "ASSIGMENT_OPERATOR" =>
       Len(s) >= 2 /\ Last(s) = "=" /\ AllIn(Front(s), {":"})
  /\ type = "COLON" => s # <<>> /\ AllIn(s, {":"})
  /\ type = "STRING_LITERAL" => Positions(s, "\"") = {}
  /\ type = "COMMENT_START" => s # <<>> /\ Last(s) = "{"
  /\ type = "COMMENT_END" => s = <<"}">>
  /\ type = "COMMENT" =>
       \A i \in 1 .. (Len(s) - 1) : s[i] = "}" => s[i + 1] # "#"
  /\ type \in SingleStates => \E ch \in Single : s = <<ch>> /\ SingleState(ch) = type

TokensWellFormed ==
  /\ \A i \in DOMAIN tokens : WellFormed(tokens[i].type, LexemeText(tokens[i]))
  /\ \A i \in DOMAIN tokens : tokens[i].type # "UNKNOWN"

(* The line counter never runs ahead of the text: it counts a "\n" at most *)
(* once, "\r\n" included, and newLines names exactly the counted ones in   *)
(* order.                                                                  *)
NewLinesSeen == {p \in 0 .. (chIndex - 1) : text[p + 1] = "\n"}
LineNeverAhead ==
  phase \in {"lexing", "done"} =>
    /\ line = Len(newLines) + 1
    /\ \A i \in DOMAIN newLines : newLines[i] \in NewLinesSeen
    /\ \A i, j \in DOMAIN newLines : i < j => newLines[i] < newLines[j]
    /\ \A i \in DOMAIN tokens : tokens[i].line <= line

(* A step that emits a token leaves the automaton where it started, or in  *)
(* the comment the token belongs to: the extra pops and the clear() calls  *)
(* of processToken undo exactly what the states of the token pushed.       *)
TokenEndsAtBottom ==
  [][ (phase = "lexing" /\ tokens' # tokens) =>
        stack' \in {<<"NONE">>, <<"NONE", "COMMENTS">>,
                    <<"NONE", "COMMENT_CLOSE_BRACE">>} ]_vars

(* lex() returns: no character is reprocessed for ever. *)
LexReturns == phase = "lexing" ~> phase \in {"done", "failed"}

(* A single-line comment ends at the end of its line: the only comment     *)
(* with a newline in it directly follows the start of a block comment.     *)
LineCommentEndsAtEol ==
  \A i \in DOMAIN tokens :
    tokens[i].type = "COMMENT" /\ Positions(LexemeText(tokens[i]), "\n") # {} =>
      i > 1 /\ tokens[i - 1].type = "COMMENT_START"
=============================================================================
