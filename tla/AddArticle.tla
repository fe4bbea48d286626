----------------------------- MODULE AddArticle -----------------------------
(***************************************************************************)
(* Adding an article, end to end: the legacy client (src/client.cpp) at    *)
(* its keyboard, the network, and the legacy server.                       *)
(*                                                                         *)
(* Client and server each switch to "article" on their own, with nothing   *)
(* in the messages to say which is which: the client after it has sent A,  *)
(* until the next datagram, whatever that is, opens the editor; the server *)
(* after it has handled A, until the next datagram, whatever that is,      *)
(* becomes the text.                                                       *)
(***************************************************************************)
EXTENDS Clienthandler, Integers

CONSTANTS
  Keys,        \* the keys pressed in the editor before ESC, as sequences: words, and
  BACKSPACE,   \* the key that takes one back
  MaxCommand   \* bound: lines typed in a behaviour

VARIABLES
  cstate,      \* the client's state: "RECV_TEXT" or "SEND_ARTICLE"
  sendbuff,    \* the client's buffer for what it sends, lines and articles alike
  toServer,    \* datagrams in flight to the server
  toClient,    \* datagrams in flight to the clients
  typed,       \* number of lines typed
  out,         \* number of datagrams each client has sent
  in,          \* the number of the last one of each client the server handled
  overtyped,   \* history: a line was typed while the client was due to edit
  written,     \* history: [from, no, text], the screen when from left the editor with
               \* datagram no
  emptied,     \* history: the editor was left with nothing in it
  overerased,  \* history: more was taken back in the editor than had been written
  gap,         \* history: the server handled a datagram other than the next one
  drew,        \* history: [aid, from, no, id], the A of user id that number aid was last
               \* drawn for before there was such an article
  misplaced,   \* history: A was handled where it is not offered
  executed     \* history: an edited text was handled as a command

netVars == <<cstate, sendbuff, toServer, toClient, typed, out, in>>
editVars == <<written, emptied, overerased>>
flags == <<overtyped, editVars, gap, drew, misplaced, executed>>
addVars == <<vars, netVars, flags>>

\* A datagram of a client leaves for the server; what gets lost, in either direction,
\* stays in flight and is never received.  no (its number) and edited (it is from the
\* editor) are not on the wire: history only.
client_send(a, args, edited) ==
  LET d == [from |-> a, args |-> args, no |-> out[a] + 1, edited |-> edited]
  IN  /\ toServer' = toServer \cup {d}
      /\ out' = [out EXCEPT ![a] = @ + 1]

\* Each client has sent its first RT.
AddInit ==
  /\ Init /\ MAXARTICLEID = 0
  /\ cstate = [a \in Addr |-> "RECV_TEXT"]
  /\ sendbuff = [a \in Addr |-> << >>]
  /\ toClient = {} /\ typed = 0
  /\ out = [a \in Addr |-> 1]
  /\ in = [a \in Addr |-> 0]
  /\ toServer = {[from |-> a, args |-> <<"RT">>, no |-> 1, edited |-> FALSE] : a \in Addr}
  /\ written = {} /\ emptied = FALSE /\ overerased = FALSE /\ overtyped = FALSE
  /\ gap = FALSE /\ misplaced = FALSE /\ executed = FALSE
  /\ drew = {}

\* (As in ArticleBase, <operation>_<bug> is a mutated form.)
state_mux_noArticle(op, state) == "RECV_TEXT"

state_mux_fallsThrough(op, state) ==
  IF op \in {"SU", "SA", "A"} THEN "SEND_ARTICLE" ELSE state

\* The client's state after a line: state_mux().
state_mux(op, state) ==
  CASE op \in {"RT", "V", "R", "L"} -> "RECV_TEXT"
    [] op = "A" -> "SEND_ARTICLE"
    [] OTHER -> state

\* encode(): commands have a fixed number of arguments and others are refused;
\* of a command that has none, and of a line that is no command, it is the first
\* word that is sent.
instr_type(op) ==
  IF op \in {"R", "L", "T"} THEN 2
  ELSE IF op \in {"A", "E", "Y", "RP", "D", "U", "AB", "DB"} THEN 1 ELSE 0

refused(args) == instr_type(Head(args)) # 0 /\ Len(args) # instr_type(Head(args)) + 1

encode_anyLength(args) == args

encode(args) == IF instr_type(Head(args)) = 0 THEN <<Head(args)>> ELSE args

\* The state changes before the line is sent, and whether it can be or not.
UserLine(a) ==
  /\ typed < MaxCommand
  /\ typed' = typed + 1
  /\ \E args \in Input :
       \/ /\ refused(args)
          /\ UNCHANGED <<cstate, sendbuff, toServer, out, overtyped>>
       \/ /\ ~refused(args)
          /\ sendbuff' = [sendbuff EXCEPT ![a] = encode(args)]
          /\ client_send(a, encode(args), FALSE)
          /\ cstate' = [cstate EXCEPT ![a] = state_mux(Head(args), @)]
          /\ overtyped' = (overtyped \/ cstate[a] = "SEND_ARTICLE")
  /\ UNCHANGED <<vars, toClient, in, editVars, gap, drew, misplaced, executed>>

\* func_add_article(): the keys go into sendbuff, over what was sent last.  A key
\* taken back moves cnt back, also below 0, where what is typed next goes astray;
\* ESC ends the text at cnt, and what is sent is what sendbuff holds then.
press(e, key) ==
  IF key = BACKSPACE
    THEN [e EXCEPT !.cnt = @ - 1, !.under = @ \/ e.cnt <= 0,
                   !.screen = IF @ = << >> THEN @ ELSE SubSeq(@, 1, Len(@) - 1)]
    ELSE [e EXCEPT !.cnt = @ + 1, !.screen = Append(@, key),
                   !.buff = IF e.cnt < 0 THEN @
                            ELSE SubSeq(@, 1, e.cnt) \o <<key>> \o SubSeq(@, e.cnt + 2, Len(@))]

\* The editor before each key, and after the last.
keystrokes(keys, buff) ==
  LET after[n \in 0..Len(keys)] ==
        IF n = 0 THEN [cnt |-> 0, buff |-> buff, screen |-> << >>, under |-> FALSE]
        ELSE press(after[n - 1], keys[n])
  IN  after

func_add_article(keys, buff) ==
  LET e == keystrokes(keys, buff)[Len(keys)]
  IN  [e EXCEPT !.buff = IF e.cnt < 0 THEN @ ELSE SubSeq(@, 1, e.cnt)]

\* Keys and texts are sequences, and what a client may send is among the texts
\* that an article may have; the names in it are names of users, as in Input.
Key == UNION {{text[i] : i \in 1..Len(text)} : text \in Keys \cup Body}

ASSUME KeysAssumption == Keys \cup Body \subseteq Seq(Key)

ASSUME SentAssumption ==
  /\ <<"RT">> \in Body
  /\ \A line \in Input : ~refused(line) => encode(line) \in Body
  /\ \A keys \in Keys, buff \in Body \cup {<< >>} :
       func_add_article(keys, buff).buff \in Body \cup {<< >>}
  /\ \A text \in Body : NamesUsers(text)

\* handler_recv_mux(): the datagram is displayed; if an article is due the user
\* now writes it, and nothing else happens in the client until it is sent.
ClientRecv(a) ==
  \E m \in toClient :
    /\ m.to = a
    /\ toClient' = toClient \ {m}
    /\ \/ /\ cstate[a] = "SEND_ARTICLE"
          /\ \E keys \in Keys :
               LET e == func_add_article(keys, sendbuff[a])
               IN  /\ sendbuff' = [sendbuff EXCEPT ![a] = e.buff]
                   /\ client_send(a, e.buff, TRUE)
                   /\ written' = written \cup
                        {[from |-> a, no |-> out[a] + 1, text |-> e.screen]}
                   /\ emptied' = (emptied \/ e.screen = << >>)
                   /\ overerased' = (overerased \/ e.under)
          /\ cstate' = [cstate EXCEPT ![a] = "RECV_TEXT"]
       \/ /\ cstate[a] = "RECV_TEXT"
          /\ UNCHANGED <<cstate, sendbuff, toServer, out, editVars>>
    /\ UNCHANGED <<vars, typed, in, overtyped, gap, drew, misplaced, executed>>

\* Datagram d has its sender given a number, or not.
noteDraw(d) ==
  LET n == Drawn'[d.from]
  IN  drew' = IF Drawn[d.from] = NoAid /\ n # NoAid /\ ~exists(n)
                THEN {w \in drew : w.aid # n} \cup
                       {[aid |-> n, from |-> d.from, no |-> d.no, id |-> Users'[d.from]]}
                ELSE drew

\* Udpserver::recv() hands every datagram that is not empty to handler_entry().
ServerRecv ==
  \E d \in toServer :
    LET a == d.from
        due == IF isLogined(a) THEN clihandlers_map[a].pos ELSE "GUEST"
    IN  /\ toServer' = toServer \ {d}
        /\ \/ /\ d.args = << >> /\ alive
              /\ UNCHANGED <<vars, toClient, drew, misplaced, executed>>
           \/ /\ d.args # << >>
              /\ handler_entry(a, d.args) /\ noteDraw(d)
              /\ toClient' = toClient \cup sent'
              /\ misplaced' = (misplaced \/ (Head(d.args) = "A" /\ due # "ARTICLE_LIST"))
              /\ executed' = (executed \/ (d.edited /\ due # "ARTICLE_EDIT"))
        /\ in' = [in EXCEPT ![a] = d.no]
        /\ gap' = (gap \/ d.no # in[a] + 1)
        /\ UNCHANGED <<cstate, sendbuff, typed, out, overtyped, editVars>>

ServerDown == (Crash \/ Restart) /\ UNCHANGED <<netVars, flags>>

AddNext == ServerRecv \/ ServerDown \/ \E a \in Addr : UserLine(a) \/ ClientRecv(a)

AddSpec == AddInit /\ [][AddNext]_addVars

-----------------------------------------------------------------------------
\* The article has the screen its author left right after the A it was drawn for.
AuthorsText(aid) ==
  \E w \in drew :
    /\ w.aid = aid
    /\ folder[aid].info \in {w.id, TornInfo}
    /\ [from |-> w.from, no |-> w.no + 1, text |-> folder[aid].context] \in written

\* An article with a whole text has the text of nobody but its author and of no
\* other article of his: what his client had on the screen when it left the editor
\* it opened for the A which this number was drawn for.  That is, unless a user typed
\* on while the editor was due, left it with nothing in it (the server never sees
\* that datagram and takes the next one for the text) or took back more than he had
\* written (what is sent then is left over from the command), or the network lost or
\* reordered what a client sent.
EditedIsStored ==
  overtyped \/ emptied \/ overerased \/ gap \/
    \A aid \in Aid :
      exists(aid) => folder[aid].context \in {NoFile, TornBody} \/ AuthorsText(aid)

\* What was written in the editor is never taken for a command, unless the user
\* asked for the editor where the server does not offer it, typed on while it was
\* due, or the network lost or reordered what the client sent, or the server was
\* restarted.
EditedNotExecuted == executed => overtyped \/ gap \/ misplaced \/ crashed > 0
=============================================================================
