---------------------------- MODULE MCBBSServer ----------------------------
(***************************************************************************)
(* Instances of BBSServer for TLC: what users may type.                    *)
(***************************************************************************)
EXTENDS BBSServer, TLC

CONSTANTS a1, a2, u1, u2, p1, p2

Symmetry == Permutations(Addr)

\* A guest signs up and signs in; a signed-in user asks for the menu.
SessionInput == {<<"R", u1, p1>>, <<"L", u1, p1>>, <<"RT">>}

\* The same, with a listing that may be too long to be sent.
ListingInput == {<<"L", u1, p1>>, <<"SA">>, <<"RT">>}

\* For what the headers say of logging out and of registering.
LogoutInput == {<<"L", u1, p1>>, <<"O">>}
RegisterInput == {<<"R", u1, p1>>}

\* Every command of both tables, with all and with missing arguments, and a
\* command the server does not know.
EveryInput ==
  {<<"R", u1, p1>>, <<"R", u1, p2>>, <<"R", u2, p1>>, <<"R", u1>>, <<"L", u1, p1>>, <<"L", u1, p2>>, <<"L", u1>>,
   <<"E", u1>>, <<"E">>, <<"RT">>, <<"SU">>, <<"SA">>, <<"O">>}
=============================================================================
