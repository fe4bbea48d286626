----------------------------- MODULE BBSServer -----------------------------
(***************************************************************************)
(* The server process (src/src/server.cpp, src/src/BBSServer.cpp) with its *)
(* clients (src/src/client.cpp) and the UDP network between them.          *)
(*                                                                         *)
(* The server is one thread: each turn of its loop calls pollWaiting() and *)
(* then, if a datagram has come, receives and handles it.  Clients,        *)
(* network, clock and crashes interleave with the turns.                   *)
(*                                                                         *)
(* A payload is its sequence of tokens: format() in the client joins the   *)
(* words of a line with '\n', which Util::parse() takes apart again; the   *)
(* acknowledgement is the one-byte text 0x01, the token "ACK".             *)
(***************************************************************************)
EXTENDS ConnectionManager, AccountManager, Sequences

CONSTANTS
  Input,        \* the lines users type, as token sequences
  Articles,     \* what listing the articles may find: "readable" folders only, a
                \* "broken" one without an info file (the disk belongs to others too),
                \* or too "many" for a datagram
  MaxCommand,   \* bound: lines typed in a behaviour
  MaxDuplicate, \* bound: datagrams the network duplicates
  MaxCrash      \* bound: times the server process dies

\* A line is never empty: the server drops an empty datagram, and one without a
\* token throws ERR_PARSE_SIZE before anything is changed.
ASSUME InputAssumption ==
  \A line \in Input :
    Head(line) \in {"R", "L"} /\ Len(line) >= 3 => line[2] \in Uid /\ line[3] \in Pwd

\* Nor does it start with the byte 0x01: the server would take it for an
\* acknowledgement.
ASSUME TypedAssumption == \A line \in Input : Head(line) # "ACK"

VARIABLES
  pc,           \* "poll" and "recv": the halves of a turn; "down": no process
  toServer,     \* datagrams in flight to the server, or in its socket buffer
  typed,        \* number of lines typed
  duplicated,   \* number of datagrams duplicated
  crashed,      \* number of times the process died
  shown,        \* history: packets the clients have displayed
  reshown,      \* history: a client displayed the same reply twice
  missettled,   \* history: a reply was settled by the ACK of another one
  promised,     \* history: [id, pwd, clean, n] answered with REG_SUCCESS, reply n;
                \* clean if the accounts file had no cut line in it then
  boot          \* history: nsent when the running process started

envVars == <<toServer, typed, duplicated, crashed>>
historyVars == <<shown, reshown, missettled, promised, boot>>
vars == <<connVars, accountVars, pc, envVars, historyVars>>

\* no is the number of the reply an ACK answers (0 in a command).  It is not
\* on the wire and the server never looks at it: history only.
Datagram == [from: Addr, args: Input \cup {<<"RT">>, <<"ACK">>}, no: Nat]

Command(a, line) == [from |-> a, args |-> line, no |-> 0]
Ack(a, reply) == [from |-> a, args |-> <<"ACK">>, no |-> reply.n]

\* A datagram leaves for the server and may be lost.
ToServer(d) == toServer' \in {toServer, toServer \cup {d}}

Init ==
  /\ conn_map = [a \in Addr |-> NoConn]
  /\ waitting_conn = {}
  /\ toClient = {}
  /\ nsent = 0
  /\ account_file \in [Uid -> Pwd \cup {NoPwd}] /\ torn = FALSE
  /\ account_table = account_file
  /\ pc = "poll"
  /\ toServer \in SUBSET {Command(a, <<"RT">>) : a \in Addr}
  /\ typed = 0 /\ duplicated = 0 /\ crashed = 0
  /\ shown = {} /\ reshown = FALSE /\ missettled = FALSE
  /\ promised = {} /\ boot = 0

(***************************************************************************)
(* Handlers of the text commands.  Each gets the address, its connection   *)
(* as getConnection() found it, and args, and says what becomes of the     *)
(* connections and the accounts.                                           *)
(***************************************************************************)

\* The process is gone, and its memory with it.
Stop ==
  /\ pc' = "down"
  /\ conn_map' = [a \in Addr |-> NoConn]
  /\ waitting_conn' = {}
  /\ UNCHANGED <<toClient, nsent, promised>>

Die == Stop /\ Forget

\* The handler returns, or throws what handle_guest()/handle_user() catch.
Return == pc' = "poll"

keep_accounts == UNCHANGED <<accountVars, promised>>

\* When the append fails, part of the line may have been written.  store() catches
\* that and calls close(), which tries to write again.  If it succeeds, ERR_IO is
\* thrown although the table has the record: no reply.  If that fails too, or the
\* file is not open, it throws once more, past everything but main()'s catch(...).
guest_register(a, conn, args) ==
  \/ /\ Len(args) < 3                                  \* throws ERR_PARSE_SIZE
     /\ no_reply(a, conn) /\ keep_accounts /\ Return
  \/ /\ Len(args) >= 3 /\ isExist(args[2])             \* throws ERR_DUPID
     /\ no_reply(a, conn) /\ keep_accounts /\ Return
  \/ /\ Len(args) >= 3 /\ ~isExist(args[2])
     /\ Insert(args[2], args[3])
     /\ send_msg(a, conn, "REG_SUCCESS") /\ Return
     /\ promised' = promised \cup
          {[id |-> args[2], pwd |-> args[3], clean |-> ~torn, n |-> nsent']}
  \/ /\ Len(args) >= 3 /\ ~isExist(args[2])           \* throws ERR_IO
     /\ Insert(args[2], args[3]) \/ InsertCut(args[2], args[3])
     /\ no_reply(a, conn) /\ Return
     /\ UNCHANGED promised
  \/ /\ Len(args) >= 3 /\ ~isExist(args[2])
     /\ Stop
     /\ Forget \/ InsertStopped

\* (As in ConnectionManager, <operation>_<bug> is a mutated form.)
guest_login_notSet(a, conn, args) ==
  /\ keep_accounts /\ Return
  /\ \/ Len(args) >= 3 /\ ~isExist(args[2]) /\ send_msg(a, conn, "LOGIN_UID_ERROR")
     \/ Len(args) >= 3 /\ isCorrect(args[2], args[3]) /\ send_msg(a, conn, "LOGIN_SUCCESS")

guest_login_anyone(a, conn, args) ==
  /\ keep_accounts /\ Return
  /\ Len(args) >= 3
  /\ send_msg(a, setLogin(conn, args[2]), "LOGIN_SUCCESS")

guest_login(a, conn, args) ==
  /\ keep_accounts /\ Return
  /\ \/ Len(args) < 3 /\ no_reply(a, conn)             \* throws ERR_PARSE_SIZE
     \/ /\ Len(args) >= 3 /\ ~isExist(args[2])         \* then throws ERR_NULL
        /\ send_msg(a, conn, "LOGIN_UID_ERROR")
     \/ /\ Len(args) >= 3 /\ isCorrect(args[2], args[3])
        /\ send_msg(a, setLogin(conn, args[2]), "LOGIN_SUCCESS")
     \/ /\ Len(args) >= 3 /\ isExist(args[2]) /\ ~isCorrect(args[2], args[3])
        /\ send_msg(a, conn, "LOGIN_PWD_ERROR")

\* args[1] is read even when it is missing: undefined, so the process may die
\* (of a signal, which catch(...) does not catch) or send what it finds there.
guest_echo(a, conn, args) ==
  \/ send_msg(a, conn, "ECHO") /\ keep_accounts /\ Return
  \/ Len(args) < 2 /\ Die

guest_return(a, conn) ==
  send_msg(a, conn, "ENTRY_MENU") /\ keep_accounts /\ Return

user_return(a, conn) ==
  send_msg(a, conn, "MAIN_MENU") /\ keep_accounts /\ Return

user_show_users(a, conn) ==
  send_msg(a, conn, "USERS") /\ keep_accounts /\ Return

\* Articleheader's constructor throws ios_base::failure for a folder whose info
\* file does not open or ends too early; nothing catches it before main()'s
\* catch(...).
Articleheader_throws == "broken" \in Articles

user_show_articles(a, conn) ==
  \/ /\ "readable" \in Articles
     /\ send_msg(a, conn, "ARTICLES") /\ keep_accounts /\ Return
  \/ Articleheader_throws /\ Die
  \/ /\ "many" \in Articles
     /\ send_msg(a, conn, "ARTICLES_LONG") /\ keep_accounts /\ Return

GuestOps == {"R", "L", "E", "RT"}
UserOps == {"RT", "SU", "SA"}

\* state_recv_text(): the first entry of the table whose key is args[0].
state_recv_text(a, conn, args) ==
  LET op == Head(args)
      unknown(table) == op \notin table /\ no_reply(a, conn) /\ keep_accounts /\ Return
  IN  /\ UNCHANGED missettled
      /\ \/ /\ ~conn.login_state
            /\ \/ op = "R" /\ guest_register(a, conn, args)
               \/ op = "L" /\ guest_login(a, conn, args)
               \/ op = "E" /\ guest_echo(a, conn, args)
               \/ op = "RT" /\ guest_return(a, conn)
               \/ unknown(GuestOps)
         \/ /\ conn.login_state
            /\ \/ op = "RT" /\ user_return(a, conn)
               \/ op = "SU" /\ user_show_users(a, conn)
               \/ op = "SA" /\ user_show_articles(a, conn)
               \/ unknown(UserOps)

state_recv_ack_anything(a, conn, d) ==
  /\ settle(a, conn)
  /\ missettled' = (missettled \/ d.no # conn.sendbuff.n)
  /\ keep_accounts /\ Return

\* state_recv_ack(): an ACK settles the reply; anything else is dropped.
state_recv_ack(a, conn, d) ==
  /\ \/ /\ Head(d.args) = "ACK"
        /\ settle(a, conn)
        /\ missettled' = (missettled \/ d.no # conn.sendbuff.n)
     \/ /\ Head(d.args) # "ACK"
        /\ no_reply(a, conn)
        /\ UNCHANGED missettled
  /\ keep_accounts /\ Return

(***************************************************************************)
(* The main loop.                                                          *)
(***************************************************************************)

\* A datagram is taken, or the network had a second copy of it.
Take(d) ==
  /\ d \in toServer
  /\ \/ toServer' = toServer \ {d} /\ UNCHANGED duplicated
     \/ /\ duplicated < MaxDuplicate
        /\ duplicated' = duplicated + 1
        /\ UNCHANGED toServer

PollWaiting ==
  /\ pc = "poll"
  /\ pollWaiting
  /\ pc' = "recv"
  /\ UNCHANGED <<accountVars, envVars, historyVars>>

\* select() saw nothing, or what it saw was empty.
RecvNothing ==
  /\ pc = "recv"
  /\ pc' = "poll"
  /\ UNCHANGED <<connVars, accountVars, envVars, historyVars>>

\* handle_entry(): handle_guest() and handle_user() differ in the table.
HandleDatagram(d) ==
  LET a == d.from
      conn == ConnectionOf(a)
  IN  /\ pc = "recv"
      /\ Take(d)
      /\ \/ conn.state = "RECV_ACK" /\ state_recv_ack(a, conn, d)
         \/ conn.state = "RECV_TEXT" /\ state_recv_text(a, conn, d.args)
      /\ UNCHANGED <<typed, crashed, shown, reshown, boot>>

\* The process dies between two statements that the model tells apart: it is
\* killed, or recvfrom() fails and ERR_RECV reaches main()'s catch(...).
Crash ==
  /\ pc # "down"
  /\ crashed < MaxCrash
  /\ Die
  /\ UNCHANGED <<envVars, shown, reshown, missettled, boot>>

\* What reached the host while no process had the port is lost.
Restart ==
  /\ pc = "down"
  /\ crashed < MaxCrash
  /\ crashed' = crashed + 1
  /\ pc' = "poll"
  /\ Load
  /\ toServer' \in SUBSET toServer
  /\ boot' = nsent
  /\ UNCHANGED <<connVars, typed, duplicated, shown, reshown, missettled, promised>>

Timer ==
  /\ Tick
  /\ UNCHANGED <<accountVars, pc, envVars, historyVars>>

(***************************************************************************)
(* The clients: poll() on the keyboard and on the socket.                  *)
(***************************************************************************)

UserLine(a) ==
  /\ typed < MaxCommand
  /\ typed' = typed + 1
  /\ \E line \in Input : ToServer(Command(a, line))
  /\ UNCHANGED <<connVars, accountVars, pc, duplicated, crashed, historyVars>>

\* handler_recv_mux(): whatever comes is displayed and acknowledged.
ClientRecv(a) ==
  \E m \in toClient :
    /\ m.to = a
    /\ \/ toClient' = toClient \ {m} /\ UNCHANGED duplicated
       \/ /\ duplicated < MaxDuplicate
          /\ duplicated' = duplicated + 1
          /\ UNCHANGED toClient
    /\ ToServer(Ack(a, m.msg))
    /\ shown' = shown \cup {m}
    /\ reshown' = (reshown \/ m \in shown)
    /\ UNCHANGED <<conn_map, waitting_conn, nsent, accountVars, pc, typed, crashed,
                   missettled, promised, boot>>

Server == PollWaiting \/ RecvNothing \/ \E d \in toServer : HandleDatagram(d)

Client(a) == UserLine(a) \/ ClientRecv(a)

Next == Server \/ Crash \/ Restart \/ Timer \/ \E a \in Addr : Client(a)

Spec == Init /\ [][Next]_vars

(***************************************************************************)
(* Fairness.  The loop never stops turning and the clock never stops; of   *)
(* the network it is assumed that what is sent again and again to, or      *)
(* from, a running client gets through again and again.                    *)
(***************************************************************************)
Delivered(a) == PollWaiting /\ \E m \in toClient' : m.to = a
Acknowledged(a) == ClientRecv(a) /\ \E d \in toServer' : d.from = a /\ d.args = <<"ACK">>
HandleAck(a) == \E d \in toServer : d.from = a /\ d.args = <<"ACK">> /\ HandleDatagram(d)

Fairness ==
  /\ WF_vars(PollWaiting) /\ WF_vars(Timer)
  /\ WF_vars(RecvNothing \/ \E d \in toServer : HandleDatagram(d))
  /\ \A a \in Addr :
       /\ SF_vars(Delivered(a)) /\ SF_vars(Acknowledged(a)) /\ SF_vars(HandleAck(a))

FairSpec == Spec /\ Fairness

-----------------------------------------------------------------------------
(***************************************************************************)
(* Properties.                                                             *)
(***************************************************************************)

TypeOK ==
  /\ AccountsType /\ ConnectionsType
  /\ pc \in {"poll", "recv", "down"}
  /\ toServer \subseteq Datagram
  /\ typed \in Nat /\ duplicated \in Nat /\ crashed \in Nat
  /\ shown \subseteq Packet
  /\ reshown \in BOOLEAN /\ missettled \in BOOLEAN
  /\ promised \subseteq [id: Uid, pwd: Pwd, clean: BOOLEAN, n: Nat]
  /\ boot \in Nat

\* An ACK has no number, so a reply may be settled by the ACK of an earlier
\* one.  That takes a second ACK for the earlier one, or a restart between
\* them: as long as no reply was displayed twice, no datagram duplicated and
\* the server not restarted, a settled reply has been displayed.
AckMeansShown == missettled => (reshown \/ duplicated > 0 \/ crashed > 0)

\* A client that has been told of its login by the running server is logged in.
LoginTold ==
  \A m \in shown :
    m.msg.text = "LOGIN_SUCCESS" /\ m.msg.n > boot /\ pc # "down" =>
      conn_map[m.to] # NoConn /\ conn_map[m.to].login_state

\* Whoever is logged in has an account, in this process and in every later one:
\* the login outlives no process, and no account is taken out of the table.
SessionHasAccount ==
  \A a \in Addr :
    conn_map[a] # NoConn /\ conn_map[a].login_state =>
      conn_map[a].id \in Uid /\ isExist(conn_map[a].id)

\* A registration that was answered with REG_SUCCESS is kept: the running process
\* knows the account, and if no line of the file had been cut short by then, so does
\* the file and every process started from it, whatever is cut short later.  (The
\* exception is what src/src/account_manager.cpp:115-121 does: behind a line that
\* was cut short, a record may be read as part of another one, or not at all.)
RegistrationDurable ==
  \A r \in promised :
    /\ r.clean => account_file[r.id] = r.pwd
    /\ pc # "down" /\ (r.clean \/ r.n > boot) => account_table[r.id] = r.pwd

\* Every reply is settled in the end, however many copies of it and of its
\* ACK are lost: retransmission does not give up.  (Not so a reply that is too
\* long to be sent, which blocks its address for good.)
EveryReplySettled ==
  \A a \in Addr :
    IsWaiting(a) ~> (~IsWaiting(a) \/ conn_map[a].sendbuff.text \in TooLong)

\* What the reliability layer promises (module StopAndWait).
SW == INSTANCE StopAndWait WITH
  posted <- nsent,
  pending <- [a \in Addr |-> IF IsWaiting(a) THEN conn_map[a].sendbuff.n ELSE 0],
  wire <- {m.msg.n : m \in toClient}

\* The connections implement StopAndWait: a reply is produced only when none is
\* outstanding for its address, and only the outstanding one is ever resent.
ImplementsStopAndWait == SW!Spec

\* src/src/udpserver.h, lines 87-89: on LOGOUT the server deletes the handler
\* and the address returns to the not-yet-login state.
LogoutEndsSession ==
  [][\A d \in toServer :
       /\ HandleDatagram(d) /\ d.args = <<"O">>
       /\ ConnectionOf(d.from).login_state /\ ~IsWaiting(d.from)
       => ~conn_map'[d.from].login_state]_vars

\* src/src/udpserver.h, lines 39-44: a REGISTER is answered True or False.
RegisterAnswered ==
  [][\A d \in toServer :
       /\ HandleDatagram(d) /\ Head(d.args) = "R" /\ Len(d.args) = 3
       /\ ~ConnectionOf(d.from).login_state /\ ~IsWaiting(d.from)
       => nsent' > nsent]_vars
=============================================================================
