------------------------------ MODULE MCParser ------------------------------
(* Files for Parser: the samples of src/tests as the lexer hands them      *)
(* over, damaged samples, and all short bodies over a few alphabets.       *)
EXTENDS Parser

Vars1 == <<"{", "x", ":", "x", ";", "x", ":=", "7", ";", "}">>
Msg1 == <<"{", "x", ":", "x", ";", "x", "x", ":", "7", ";",
          "x", "x", ":", "7", "@", "x", ":", "7", ";", "}">>
Msg2 == <<"{", "x", "x", ":", "7", "@", "x", ":", "7", "+", "7", "+",
          "(", "7", "x", ":", "7", "@", "x", ":", "7", ")", ";", "}">>
Test1 == <<"{", "x", ":=", "7", ";", "}">>
Test2 == <<"{", "namespace", "x", "{", "namespace", "x", "{", "namespace", "x",
           "{", "}", "}", "}", "namespace", "x", "{", "}", "}">>
Test3 == <<"{", "x", ":", "x", ";", "x", ":", "x", ":=", "7", ";", "x", ":=", "7", ";",
           "x", ":=", "[", "7", ",", "7", ",", "7", ",", "7", ",", "x", "]", ";",
           "x", ":=", "7", ";", "x", "x", ";", "}">>
Test4 == <<"{", "@", "[", "x", "]", "x", ":=", "(", "7", "+", "x", ")", ";",
           "x", ":=", "nil", ";", "}">>
Test5 == <<"module", "x", ",", "1.2.3", "{", "class", "x", "{", "}",
           "class", "x", "inherits", "x", "{",
             "public", "{", "x", ":", "x", ";", "x", ":", "x", ";", "}",
             "public", "{", "x", ":", "x", ";", "}",
             "msg", "x", ":", "x", ":", "x", "x", ":", "x", "[", "x", "]", "{",
               "return", "7", "+", "x", ";", "}", "}",
           "record", "x", "{", "x", ":", "x", ";", "x", ":", "x", ";", "}",
           "x", ":=", "7", ";", "x", ":", "x", ";", "x", ".", "x", ":=", "7", ";",
           "x", ":", "x", ";", "x", "x", ":", "7", "x", ":", "7", ";", "}">>
Test5b == <<"module", "x", "{", "class", "x", "{",
              "msg", "x", ":", "x", ":", "x", "x", ":", "x", "[", "x", "]", "{",
                "return", "x", "+", "x", "+", "x", "+", "(", "x", "+", "x", ")", ";",
                "#", "}", "}",
            "x", ":=", "7", ";", "x", "x", ":", "7", "x", ":", "x", "+", "7", ";", "}">>
Test6 == <<"module", "x", ",", "1.2.3", "{",
           "x", ".", "x", ":=", "msg", "(", "x", ":", "x", ")", "[", "x", "]", "{",
             "x", ".", "x", "x", ":", "7", ";", "return", "7", ";", "}", ";", "}">>
Main == <<"{", "x", ".", "x", ":=", "msg", "(", "x", ":", "x", ")", "{", "}", ";", "}">>
NoRecvr == <<"#{", "#", "}#", "{", "x", ":", "x", ";", "}">>

Chained == <<"{", "x", "x", ":", "(", "7", "+", "7", ")", "x", ":", "7", ";", "}">>

(* Methods with and without parentheses and return types, and flags. *)
Methods == <<"{", "class", "x", "{", "msg", "x", "(", "x", ":", "x", ")", "[", "x", "]", "{",
               "x", ":", "x", ".", "x", ";", "}",
             "@", "[", "x", "]", "msg", "x", ":", "x", ":", "x", "{", "}", "}",
             "@", "[", "x", "]", "x", ".", "x", ":", "x", ";", "}">>

AllSamples == {<<>>, Vars1, Msg1, Msg2, Test1, Test2, Test3, Test4, Test5, Test5b,
               Test6, Main, NoRecvr}

(* Nested namespaces with an unfinished statement after them, a definition *)
(* with a value, and a closure that returns something.                     *)
Rejected == {Test2, Test3, Test6}

SeqsUpTo(kinds, n) == UNION {[1 .. i -> kinds] : i \in 0 .. n}
Within(before, bodies, after) == {before \o b \o after : b \in bodies}

(* One token missing, one too many, two swapped, or the end missing. *)
Damaged(s) ==
  {RemoveAt(s, i) : i \in DOMAIN s}
    \cup {InsertAt(s, i, k) : i \in DOMAIN s, k \in {"#", "nil", "{", "}", ";", "@"}}
    \cup {SubSeq(s, 1, i) : i \in DOMAIN s}
    \cup {[s EXCEPT ![i] = s[i + 1], ![i + 1] = s[i]] : i \in 1 .. Len(s) - 1}

(* The lexer puts the text of a block comment between its marks. *)
Lexed(f) ==
  /\ \A i \in DOMAIN f : f[i] = "#{" =>
       \/ PeekNext(f, i) \in {None, "#{"}
       \/ PeekNext(f, i) = "#" /\ PeekNext(f, i + 1) \in {None, "}#"}
  /\ \A i \in DOMAIN f : f[i] = "}#" =>
       i > 2 /\ f[i - 1] = "#" /\ f[i - 2] = "#{"

FilesToParse ==
  LET statements == SeqsUpTo({"x", ":", ".", "7", "+", "(", ")", ";"}, 4)
      arguments == SeqsUpTo({"x", ":", "7", "(", ")", "@", "nil", "if"}, 4)
      members == SeqsUpTo({"x", ":", ";", "{", "}", "public", "msg", "@"}, 4)
      heads == SeqsUpTo({"x", ":", "(", ")", "[", "]", "{", "}"}, 4)
      blocks == SeqsUpTo({"{", "}", "@", "[", "]", "namespace", "x", "#"}, 4)
      comments == SeqsUpTo({"{", "}", "#", "#{", "}#", "program"}, 4)
  IN {f \in AllSamples \cup UNION {Damaged(s) : s \in AllSamples \cup {Chained, Methods}}
            \cup Within(<<"{">>, statements, <<";", "}">>)
            \cup Within(<<"{", "x", "x", ":">>, arguments, <<";", "}">>)
            \cup Within(<<"{", "class", "x">>, members, <<"}", "}">>)
            \cup Within(<<"{", "class", "x", "{", "msg", "x">>, heads, <<"{", "}", "}", "}">>)
            \cup blocks \cup comments : Lexed(f)}

(* A sample that is accepted stays so: the parser neither rejects it nor   *)
(* reads past its end, whatever its functions leave the cursor on.         *)
KeepsAccepting == file \in AllSamples \ Rejected => phase \notin {"failed", "fault"}

(* The four definitions that the comment in statement() lists, each as the *)
(* only statement of a block: the name and the type may both be qualified. *)
Definitions ==
  {<<"{">> \o name \o <<":">> \o type \o <<";", "}">> :
     name, type \in {<<"x">>, <<"x", ".", "x">>}}

(* What that comment says: each of the four is a definition, so none of    *)
(* them is an error.                                                       *)
AcceptsDefinitions == file \in Definitions => phase \notin {"failed", "fault"}
=============================================================================
