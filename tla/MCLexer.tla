------------------------------ MODULE MCLexer ------------------------------
(* Small instances of Lexer: all texts over the characters of one concern  *)
(* up to a length.                                                         *)
EXTENDS Lexer

TextsUpTo(alphabet, maxLen) == UNION {[1 .. n -> alphabet] : n \in 0 .. maxLen}

NumberChars   == {"0", "2", "a", "b", "x", ".", " "}
CommentChars  == {"#", "{", "}", "a", "\"", "\r", "\n"}
OperatorChars == {"a", ":", "=", ",", "@", " ", "\""}

(* Words and numbers, comments and strings, colons and punctuation, and    *)
(* every character class before and after every other.                     *)
OneFile ==
  TextsUpTo(NumberChars, 5) \cup TextsUpTo(CommentChars, 5)
    \cup TextsUpTo(OperatorChars, 4) \cup TextsUpTo(Chars, 2)

WordKeywords == {<<"a", "b">>, <<"x">>}
WordBooleans == {<<"x">>}
=============================================================================
