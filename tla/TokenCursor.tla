---------------------------- MODULE TokenCursor ----------------------------
(***************************************************************************)
(* The cursor the parser moves over the tokens of a file (lexer::          *)
(* FileContext in src/src/Lexer.h, with lexer::Token).  A file is the      *)
(* sequence of the kinds of its tokens; the cursor stands on a token or    *)
(* behind the last one, where the code may not read.                       *)
(***************************************************************************)
EXTENDS Integers, Sequences, FiniteSets

(***************************************************************************)
(* What the parser tells apart: Token::Type, and the text of keywords.  A  *)
(* kind is written as a token of it: "x" is an identifier, "7" a literal,  *)
(* "+" a mathematical operator, "1.2.3" a version, "#" a comment, "#{" and *)
(* "}#" the start and the end of a block comment, "program" stands for     *)
(* lib too, "public" for private, and "if" for the keywords the parser     *)
(* never asks for.                                                         *)
(***************************************************************************)
Keywords == {"module", "program", "namespace", "class", "record", "inherits",
             "public", "return", "nil", "msg", "if"}
Operators == {"+", ":="}
Kinds == Keywords \cup Operators \cup
         {"x", "7", "1.2.3", ":", ".", ",", ";", "@", "(", ")", "[", "]",
          "{", "}", "#", "#{", "}#"}
None == "none"   \* a Token nobody has filled in

End(file) == Len(file) + 1
HasTokensLeft(file, cur) == cur # End(file)
Advanced(file, cur) == IF HasTokensLeft(file, cur) THEN cur + 1 ELSE cur
StayPut(cur) == cur   \* mutant: no rewind
StepBack(cur) == IF cur = 1 THEN 1 ELSE cur - 1
PeekNext(file, cur) == IF cur < Len(file) THEN file[cur + 1] ELSE None
PeekPrev(file, cur) == IF cur > 1 THEN file[cur - 1] ELSE None
LastToken(file) == file[Len(file)]
=============================================================================
