-------------------------- MODULE MCClienthandler --------------------------
(***************************************************************************)
(* Instances of Clienthandler for TLC: accounts, and what may arrive.      *)
(***************************************************************************)
EXTENDS Clienthandler, TLC

CONSTANTS a1, a2, u1, u2, p1, p2

Symmetry == Permutations(Addr)

OneAccount == [u \in Uid |-> IF u = u1 THEN p1 ELSE NoPwd]
TwoAccounts == [u \in Uid |-> p1]

\* Everything a session of one user may be told to do, in every position.
SessionInput ==
  {<<"R", u2, p1>>, <<"R", u1, p1>>, <<"R", u1>>, <<"L", u1, p1>>, <<"L", u1, p2>>,
   <<"L", u2, p1>>, <<"L", u1>>, <<"RT">>, <<"V">>, <<"SU">>, <<"SA">>, <<"Y", "text">>, <<"T", u1, "text">>,
   <<"E", 1>>, <<"E", 3>>, <<"A", "title">>, <<"RP", "text">>, <<"AB", u2>>, <<"DB", u2>>, <<"O">>,
   <<"D", "file">>,
   <<"T", u1>>, <<"Y">>, <<"E">>, <<"A">>, <<"RP">>, <<"DB">>}

\* A guest signs up, and signs in.
RegisterInput == {<<"R", u2, p1>>, <<"L", u2, p1>>}

\* A text, and a command that comes in its place.
ShortBody == {<<"text">>, <<"RT">>}
CommandBody == {<<"RT">>}

\* Two users write articles at once, answer one, and keep each other out of it.
BoardInput ==
  {<<"L", u1, p1>>, <<"L", u2, p1>>, <<"RT">>, <<"SA">>, <<"A", "title">>, <<"E", 1>>,
   <<"RP", "text">>, <<"AB", u1>>, <<"AB", u2>>, <<"DB", u2>>}
=============================================================================
