--------------------------- MODULE MCAddArticle ---------------------------
(***************************************************************************)
(* Instances of AddArticle for TLC: the commands around adding an article. *)
(***************************************************************************)
EXTENDS AddArticle, TLC

CONSTANTS a1, a2, u1, u2, p1

Account == [u \in Uid |-> p1]

\* The way to the editor and back; encode() refuses one line and shortens another.
UserInput == {<<"L", u1, p1>>, <<"SA", "x">>, <<"A", "title">>, <<"A">>, <<"RT">>}

\* Nothing, a word, another in its place, and one key taken back too many.
FewKeys == {<< >>, <<"text">>, <<"text", BACKSPACE, "other">>, <<BACKSPACE>>}

AnyText ==
  {encode(args) : args \in {line \in UserInput : ~refused(line)}}
    \cup {<<"text">>, <<"other">>}

-----------------------------------------------------------------------------
\* Two users straight to the editor, each for one of two words.
TwoInput == {<<"L", u1, p1>>, <<"L", u2, p1>>, <<"SA">>, <<"A", "title">>}
TwoKeys == {<<"text">>, <<"other">>}
TwoText == TwoInput \cup TwoKeys \cup {<<"RT">>}

\* What is typed too early or is overtaken stays an exception of EditedIsStored; and
\* a client sends its RT, three lines and a text.
InSequence == ~overtyped /\ ~gap /\ \A a \in Addr : out[a] <= 5

Alike == Permutations(Addr) \cup Permutations(Uid)
=============================================================================
