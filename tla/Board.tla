------------------------------- MODULE Board -------------------------------
(***************************************************************************)
(* What the legacy server promises of its articles, without menus, files   *)
(* or datagrams: users at addresses draw numbers, publish, enter, answer   *)
(* and black-list.  An article is published once, by who drew its number,  *)
(* and from then on only its answers and its blacklist change, each by a   *)
(* step of somebody who has it open.                                       *)
(*                                                                         *)
(* The server may halt at any time.  All sessions end with it, and of the  *)
(* one operation that was under way a part may remain.                     *)
(***************************************************************************)
EXTENDS Naturals

CONSTANTS
  Addr, Uid,
  Number,    \* the numbers of articles
  Text,      \* what may be published
  Torn,      \* a text that was cut short
  Nothing,   \* "no article has this number"
  Stub,      \* the remains of a publication that show nothing and take its number
  Nobody     \* "no user is signed in here"

VARIABLES
  article,   \* the article of each number
  user,      \* who is signed in at each address
  open,      \* the article each address has open, 0 for none
  drawn      \* the number each address is to publish under, 0 for none

boardVars == <<article, user, open, drawn>>

Published(u, text) == [pid |-> u, text |-> text, answers |-> {}, blacklist |-> {}]

Init ==
  /\ article \in [Number -> {Published(u, text) : u \in Uid, text \in Text} \cup {Nothing}]
  /\ user = [a \in Addr |-> Nobody]
  /\ open = [a \in Addr |-> 0]
  /\ drawn = [a \in Addr |-> 0]

there(n) == n \in Number /\ article[n] \notin {Nothing, Stub}

SignIn(a) ==
  /\ user[a] = Nobody
  /\ \E u \in Uid : user' = [user EXCEPT ![a] = u]
  /\ UNCHANGED <<article, open, drawn>>

SignOut(a) ==
  /\ user[a] # Nobody /\ open[a] = 0 /\ drawn[a] = 0
  /\ user' = [user EXCEPT ![a] = Nobody]
  /\ UNCHANGED <<article, open, drawn>>

Draw(a) ==
  /\ user[a] # Nobody /\ open[a] = 0 /\ drawn[a] = 0
  /\ \E n \in Number : drawn' = [drawn EXCEPT ![a] = n]
  /\ UNCHANGED <<article, user, open>>

\* Nothing is published under a number that is taken.
Publish(a) ==
  /\ drawn[a] # 0
  /\ drawn' = [drawn EXCEPT ![a] = 0]
  /\ \E text \in Text :
       article' = [article EXCEPT ![drawn[a]] = IF @ = Nothing THEN Published(user[a], text) ELSE @]
  /\ UNCHANGED <<user, open>>

Enter(a) ==
  /\ user[a] # Nobody /\ open[a] = 0 /\ drawn[a] = 0
  /\ \E n \in {m \in Number : there(m)} : open' = [open EXCEPT ![a] = n]
  /\ UNCHANGED <<article, user, drawn>>

Leave(a) ==
  /\ open[a] # 0
  /\ open' = [open EXCEPT ![a] = 0]
  /\ UNCHANGED <<article, user, drawn>>

Answer(a) ==
  /\ open[a] # 0
  /\ article' = [article EXCEPT ![open[a]].answers = @ \cup {user[a]}]
  /\ UNCHANGED <<user, open, drawn>>

Black(a) ==
  /\ open[a] # 0
  /\ \E u \in Uid : article' = [article EXCEPT ![open[a]].blacklist = @ \cup {u}]
  /\ UNCHANGED <<user, open, drawn>>

Unblack(a) ==
  /\ open[a] # 0
  /\ \E u \in Uid : article' = [article EXCEPT ![open[a]].blacklist = @ \ {u}]
  /\ UNCHANGED <<user, open, drawn>>

\* What a halt may leave of an operation of address a: less of a blacklist, or
\* of a publication a stub, or an article whose text may be cut short.
Partial(a) ==
  \/ /\ open[a] # 0
     /\ \E kept \in SUBSET article[open[a]].blacklist :
          article' = [article EXCEPT ![open[a]].blacklist = kept]
  \/ /\ drawn[a] # 0 /\ article[drawn[a]] = Nothing
     /\ \E left \in {Published(user[a], text) : text \in Text \cup {Torn}} \cup {Stub} :
          article' = [article EXCEPT ![drawn[a]] = left]

Halt ==
  /\ user' = [a \in Addr |-> Nobody]
  /\ open' = [a \in Addr |-> 0]
  /\ drawn' = [a \in Addr |-> 0]
  /\ \/ UNCHANGED article
     \/ \E a \in Addr : Partial(a)

Next ==
  \/ \E a \in Addr :
       \/ SignIn(a) \/ SignOut(a) \/ Draw(a) \/ Publish(a) \/ Enter(a) \/ Leave(a)
       \/ Answer(a) \/ Black(a) \/ Unblack(a)
  \/ Halt

Spec == Init /\ [][Next]_boardVars
=============================================================================
