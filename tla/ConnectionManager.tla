------------------------- MODULE ConnectionManager -------------------------
(***************************************************************************)
(* The connections of the server and their retransmission                  *)
(* (src/src/connection.cpp, src/src/connection.h).                         *)
(*                                                                         *)
(* Every reply is kept in the connection's sendbuff and sent at once; the  *)
(* connection then waits for an acknowledgement (RECV_ACK) and a COPY of   *)
(* it is put on waitting_conn, the list that pollWaiting() walks to resend *)
(* what has not been acknowledged for more than TIMEOUT seconds.           *)
(*                                                                         *)
(* A reply carries a number n that is not on the wire: it only tells one   *)
(* reply from another, for the properties.                                 *)
(***************************************************************************)
EXTENDS Names, Naturals

CONSTANTS
  NoUid,     \* the empty id of a connection that has not logged in
  NoConn,    \* "conn_map has no such key"
  TIMEOUT    \* a reply is resent when its timer is past this many ticks

ASSUME TimeoutAssumption == TIMEOUT \in Nat

\* The texts of replies, told apart by what they mean to the client.
Text == {"ENTRY_MENU", "MAIN_MENU", "REG_SUCCESS", "LOGIN_SUCCESS",
         "LOGIN_UID_ERROR", "LOGIN_PWD_ERROR", "ECHO", "USERS", "ARTICLES", "ARTICLES_LONG"}

\* Texts that fit in sendbuff but not in a datagram: sendto() fails, and
\* send_buff() does not look at that.
TooLong == {"ARTICLES_LONG"}

Reply == [n: Nat, text: Text]

NoReply == [n |-> 0, text |-> "ECHO"]   \* a sendbuff nothing was copied to yet

\* last_state is not initialised by the constructor: "UNSET".
Connection ==
  [login_state: BOOLEAN,
   id: Uid \cup {NoUid},
   state: {"RECV_ACK", "RECV_TEXT"},
   last_state: {"RECV_ACK", "RECV_TEXT", "UNSET"},
   sendbuff: Reply]

ASSUME NoConnAssumption == NoConn \notin Connection

VARIABLES
  conn_map,        \* the connection of each address, or NoConn
  waitting_conn,   \* the copies that wait for an acknowledgement
  toClient,        \* replies in flight
  nsent            \* number of replies produced so far

connVars == <<conn_map, waitting_conn, toClient, nsent>>

\* What a copy on the list is used for: its address, its sendbuff and its
\* timer.  Ticks past TIMEOUT + 1 are not told apart.
Waiting == [addr: Addr, sendbuff: Reply, age: 0..(TIMEOUT + 1)]

Packet == [to: Addr, msg: Reply]

ConnectionsType ==
  /\ conn_map \in [Addr -> Connection \cup {NoConn}]
  /\ waitting_conn \subseteq Waiting
  /\ toClient \subseteq Packet
  /\ nsent \in Nat

NewConnection ==
  [login_state |-> FALSE, id |-> NoUid, state |-> "RECV_TEXT",
   last_state |-> "UNSET", sendbuff |-> NoReply]

\* handle_entry() adds a connection for an address it does not know, then
\* looks it up.
ConnectionOf(a) == IF conn_map[a] = NoConn THEN NewConnection ELSE conn_map[a]

\* Any of the packets may be lost when they are handed to the network; those too
\* long for it are refused.
Transmit(packets) ==
  \E arriving \in SUBSET {p \in packets : p.msg.text \notin TooLong} :
    toClient' = toClient \cup arriving

setLogin(conn, id) == [conn EXCEPT !.login_state = TRUE, !.id = id]

\* Definitions named <operation>_<bug> are mutated forms of the operation below
\* them, each with a bug one might make there; no specification uses them.

Sending_noTranslate(conn, reply) ==
  [conn EXCEPT !.sendbuff = reply, !.last_state = conn.state]

Sending_noSave(conn, reply) ==
  [conn EXCEPT !.sendbuff = reply, !.state = "RECV_ACK"]

\* save_state() and translate(RECV_ACK), around the copy to sendbuff.
Sending(conn, reply) ==
  [conn EXCEPT !.sendbuff = reply, !.last_state = conn.state, !.state = "RECV_ACK"]

addWaiting(a, reply) ==
  waitting_conn' = waitting_conn \cup {[addr |-> a, sendbuff |-> reply, age |-> 0]}

removeWaiting_forgotten(a) == UNCHANGED waitting_conn

\* list::remove() with operator==, which compares addresses.
removeWaiting(a) == waitting_conn' = {w \in waitting_conn : w.addr # a}

\* Connection::send_msg() on the connection of address a.
send_msg(a, conn, text) ==
  LET reply == [n |-> nsent + 1, text |-> text]
  IN  /\ conn_map' = [conn_map EXCEPT ![a] = Sending(conn, reply)]
      /\ Transmit({[to |-> a, msg |-> reply]})
      /\ addWaiting(a, reply)
      /\ nsent' = nsent + 1

\* state_recv_ack() on an ACK: the connection goes back to the state it had, and
\* its copy is taken off the list.
settle(a, conn) ==
  /\ conn_map' = [conn_map EXCEPT ![a] = [conn EXCEPT !.state = conn.last_state]]
  /\ removeWaiting(a)
  /\ UNCHANGED <<toClient, nsent>>

\* A handler that leaves without a reply.
no_reply(a, conn) ==
  /\ conn_map' = [conn_map EXCEPT ![a] = conn]
  /\ UNCHANGED <<waitting_conn, toClient, nsent>>

isTimeout(w) == w.age > TIMEOUT

pollWaiting_once ==
  LET late == {w \in waitting_conn : isTimeout(w)}
  IN  /\ Transmit({[to |-> w.addr, msg |-> w.sendbuff] : w \in late})
      /\ waitting_conn' = waitting_conn \ late
      /\ UNCHANGED <<conn_map, nsent>>

\* pollWaiting(): every copy whose timer has run out is sent again, and its
\* own timer starts anew.
pollWaiting ==
  LET late == {w \in waitting_conn : isTimeout(w)}
  IN  /\ Transmit({[to |-> w.addr, msg |-> w.sendbuff] : w \in late})
      /\ waitting_conn' = {IF w \in late THEN [w EXCEPT !.age = 0] ELSE w : w \in waitting_conn}
      /\ UNCHANGED <<conn_map, nsent>>

\* A second passes.
Tick ==
  /\ waitting_conn' =
       {[w EXCEPT !.age = IF w.age > TIMEOUT THEN w.age ELSE w.age + 1] : w \in waitting_conn}
  /\ UNCHANGED <<conn_map, toClient, nsent>>

-----------------------------------------------------------------------------
IsWaiting(a) == conn_map[a] # NoConn /\ conn_map[a].state = "RECV_ACK"

\* The connection in conn_map and the copies on waitting_conn never drift
\* apart: a connection expects an ACK exactly while the list holds a copy of
\* it, there is one such copy, it is of the latest reply, and the ACK will put
\* the connection back to reading commands (send_msg() and state_recv_ack()
\* keep three places in step).
OneOutstanding ==
  /\ \A a \in Addr : IsWaiting(a) <=> \E w \in waitting_conn : w.addr = a
  /\ \A w \in waitting_conn :
       /\ w.sendbuff = conn_map[w.addr].sendbuff
       /\ conn_map[w.addr].last_state = "RECV_TEXT"
  /\ \A v, w \in waitting_conn : v.addr = w.addr => v = w

=============================================================================
