-------------------------- MODULE BBSServer_proofs --------------------------
(***************************************************************************)
(* Theorems about BBSServer, for every set of clients, names, passwords    *)
(* and lines, every TIMEOUT and every bound: its types, the bookkeeping of *)
(* outstanding replies, the refinement of StopAndWait, the accounts, and   *)
(* what the clients have been shown.                                       *)
(***************************************************************************)
EXTENDS BBSServer, ConnectionManager_proofs

Promise == [id: Uid, pwd: Pwd, clean: BOOLEAN, n: Nat]

\* The inductive invariant: types, and the invariant of the connection layer.
IInv ==
  /\ ConnInv
  /\ AccountsType
  /\ pc \in {"poll", "recv", "down"}
  /\ toServer \subseteq Datagram
  /\ typed \in Nat /\ duplicated \in Nat /\ crashed \in Nat
  /\ shown \subseteq Packet
  /\ reshown \in BOOLEAN /\ missettled \in BOOLEAN
  /\ promised \subseteq Promise
  /\ boot \in Nat

\* What a handler may touch.
HandlerOK ==
  /\ ConnInv /\ AccountsType
  /\ pc \in {"poll", "recv", "down"}
  /\ promised \subseteq Promise
  /\ missettled \in BOOLEAN

(***************************************************************************)
(* Operations of the connection layer as steps of StopAndWait.             *)
(***************************************************************************)

\* send_msg() for an idle address is Post.
LEMMA SendMsgPosts ==
  ASSUME ConnInv, NEW a \in Addr, ~IsWaiting(a),
         NEW conn \in Connection, conn.state = "RECV_TEXT",
         NEW text \in Text, send_msg(a, conn, text)
  PROVE  SW!Post(a)
<1> DEFINE reply == [n |-> nsent + 1, text |-> text]
           c0 == Sending(conn, reply)
<1>1. conn_map \in [Addr -> Connection \cup {NoConn}] /\ nsent \in Nat
  BY DEF ConnInv, ConnectionsType
<1>2. conn_map' = [conn_map EXCEPT ![a] = c0] /\ nsent' = nsent + 1
  BY DEF send_msg
<1>3. c0 \in Connection /\ c0.state = "RECV_ACK" /\ c0.sendbuff.n = nsent + 1
  <2>1. reply \in Reply /\ reply.n = nsent + 1
    BY <1>1 DEF Reply
  <2>2. /\ c0 \in Connection
        /\ c0.state = "RECV_ACK" /\ c0.sendbuff = reply
    BY <2>1 DEF Sending, Connection
  <2>3. QED
    BY <2>1, <2>2
<1>4. c0 # NoConn
  BY <1>3, NoConnAssumption
<1> HIDE DEF c0
<1>5. \A b \in Addr : IsWaiting(b)' <=> b = a \/ IsWaiting(b)
  BY <1>1, <1>2, <1>3, <1>4 DEF IsWaiting
<1>6. \A b \in Addr : b # a => conn_map'[b] = conn_map[b]
  BY <1>1, <1>2
<1>7. conn_map'[a].sendbuff.n = nsent + 1
  BY <1>1, <1>2, <1>3
<1>8. {m.msg.n : m \in toClient'} \in
         {{m.msg.n : m \in toClient}, {m.msg.n : m \in toClient} \cup {nsent + 1}}
  <2>1. PICK arriving \in SUBSET {[to |-> a, msg |-> reply]} : toClient' = toClient \cup arriving
    BY DEF send_msg, Transmit
  <2>2. CASE arriving = {}
    BY <2>1, <2>2
  <2>3. CASE arriving = {[to |-> a, msg |-> reply]}
    BY <2>1, <2>3
  <2>4. QED
    BY <2>1, <2>2, <2>3
<1>9. [b \in Addr |-> IF IsWaiting(b) THEN conn_map[b].sendbuff.n ELSE 0]'
        = [[b \in Addr |-> IF IsWaiting(b) THEN conn_map[b].sendbuff.n ELSE 0]
             EXCEPT ![a] = nsent + 1]
  BY <1>5, <1>6, <1>7
<1>10. QED
  BY <1>2, <1>8, <1>9 DEF SW!Post

\* An ACK that is accepted is Settle.
LEMMA SettleSettles ==
  ASSUME ConnInv, NEW a \in Addr, IsWaiting(a), settle(a, conn_map[a])
  PROVE  SW!Settle(a)
<1>1. conn_map \in [Addr -> Connection \cup {NoConn}]
  BY DEF ConnInv, ConnectionsType
<1>2. PICK w \in waitting_conn : w.addr = a
  BY DEF ConnInv, OneOutstanding
<1>3. conn_map[a].last_state = "RECV_TEXT" /\ conn_map[a].sendbuff.n # 0
  BY <1>2 DEF ConnInv, OneOutstanding
<1>4. conn_map[a] \in Connection
  BY <1>1 DEF IsWaiting
<1>5. conn_map' = [conn_map EXCEPT ![a] = [conn_map[a] EXCEPT !.state = conn_map[a].last_state]]
  BY DEF settle
<1>6. ~IsWaiting(a)'
  BY <1>1, <1>3, <1>4, <1>5 DEF IsWaiting, Connection
<1>7. \A b \in Addr : b # a => conn_map'[b] = conn_map[b]
  BY <1>1, <1>5
<1>8. \A b \in Addr : IsWaiting(b)' <=> b # a /\ IsWaiting(b)
  BY <1>6, <1>7 DEF IsWaiting
<1>9. UNCHANGED <<toClient, nsent>>
  BY DEF settle
<1>10. QED
  BY <1>3, <1>7, <1>8, <1>9 DEF SW!Settle

\* pollWaiting() is Resend: what it sends is outstanding.
LEMMA PollResends ==
  ASSUME ConnInv, pollWaiting
  PROVE  SW!Resend
<1>1. PICK arriving \in SUBSET {[to |-> w.addr, msg |-> w.sendbuff] :
                                  w \in {v \in waitting_conn : isTimeout(v)}} :
        toClient' = toClient \cup arriving
  BY DEF pollWaiting, Transmit
<1>2. ASSUME NEW m \in arriving
      PROVE  \E a \in Addr : IsWaiting(a) /\ m.msg.n = conn_map[a].sendbuff.n /\ m.msg.n # 0
  <2>1. PICK w \in waitting_conn : m = [to |-> w.addr, msg |-> w.sendbuff]
    BY <1>1
  <2>2. w.addr \in Addr /\ IsWaiting(w.addr)
    BY DEF ConnInv, ConnectionsType, Waiting, OneOutstanding
  <2>3. QED
    BY <2>1, <2>2 DEF ConnInv, OneOutstanding
<1>3. UNCHANGED <<conn_map, nsent>>
  BY DEF pollWaiting
<1>4. \A a \in Addr : IsWaiting(a)' <=> IsWaiting(a)
  BY <1>3 DEF IsWaiting
<1>5. {m.msg.n : m \in toClient} \subseteq {m.msg.n : m \in toClient'}
  BY <1>1
<1>6. \A n \in {m.msg.n : m \in toClient'} \ {m.msg.n : m \in toClient} :
        \E a \in Addr : IsWaiting(a) /\ n = conn_map[a].sendbuff.n /\ n # 0
  BY <1>1, <1>2
<1>7. QED
  BY <1>3, <1>4, <1>5, <1>6 DEF SW!Resend

\* A handler that sends nothing is a stutter.
LEMMA NoReplyStutters ==
  ASSUME ConnInv, NEW a \in Addr, no_reply(a, ConnectionOf(a))
  PROVE  UNCHANGED SW!swVars
<1>1. conn_map \in [Addr -> Connection \cup {NoConn}]
  BY DEF ConnInv, ConnectionsType
<1>2. conn_map' = [conn_map EXCEPT ![a] = ConnectionOf(a)] /\ UNCHANGED <<toClient, nsent>>
  BY DEF no_reply
<1>3. \A b \in Addr : IsWaiting(b) => conn_map'[b] = conn_map[b]
  BY <1>1, <1>2 DEF ConnectionOf, IsWaiting
<1>4. ConnectionOf(a) # NoConn
  BY ConnectionOfType, NoConnAssumption
<1>5. \A b \in Addr : IsWaiting(b)' <=> IsWaiting(b)
  BY <1>1, <1>2, <1>4 DEF ConnectionOf, NewConnection, IsWaiting
<1>6. QED
  BY <1>2, <1>3, <1>5 DEF SW!swVars

\* A client that takes replies from the network is Receive, or a stutter while
\* another copy of the reply is in flight.
LEMMA ReceiveReceives ==
  ASSUME UNCHANGED <<conn_map, nsent>>,
         NEW m \in toClient, toClient' \in {toClient, toClient \ {m}}
  PROVE  [SW!Next]_SW!swVars
<1> DEFINE wire == {x.msg.n : x \in toClient}
<1>1. \A a \in Addr : IsWaiting(a)' <=> IsWaiting(a)
  BY DEF IsWaiting
<1>2. CASE {x.msg.n : x \in toClient'} = wire
  BY <1>1, <1>2 DEF SW!swVars
<1>3. CASE {x.msg.n : x \in toClient'} # wire
  <2>1. {x.msg.n : x \in toClient'} = wire \ {m.msg.n}
    BY <1>3
  <2>2. m.msg.n \in wire
    OBVIOUS
  <2>3. SW!Receive(m.msg.n)
    BY <1>1, <2>1 DEF SW!Receive
  <2>4. QED
    BY <2>2, <2>3 DEF SW!Next
<1>4. QED
  BY <1>2, <1>3

(***************************************************************************)
(* Handlers.  Each keeps the invariant, and is for StopAndWait the reply   *)
(* it posts, or nothing, or the loss of everything.                        *)
(***************************************************************************)
StopAndWaitStep == [SW!Next]_SW!swVars

LEMMA SendMsgStep ==
  ASSUME ConnInv, NEW a \in Addr, ~IsWaiting(a),
         NEW conn \in Connection, conn.state = "RECV_TEXT",
         NEW text \in Text, send_msg(a, conn, text)
  PROVE  ConnInv' /\ StopAndWaitStep
BY SendMsgInv, SendMsgPosts DEF StopAndWaitStep, SW!Next

LEMMA NoReplyStep ==
  ASSUME ConnInv, NEW a \in Addr, no_reply(a, ConnectionOf(a))
  PROVE  ConnInv' /\ StopAndWaitStep
BY NoReplyInv, NoReplyStutters DEF StopAndWaitStep

\* The process is gone, whatever is left of a line it was to append.
Gone == Stop /\ (Forget \/ InsertStopped)

LEMMA GoneStep ==
  ASSUME HandlerOK, Gone
  PROVE  ConnInv' /\ AccountsType' /\ pc' = "down" /\ promised' = promised /\ StopAndWaitStep
<1>1. ConnInv'
  BY ForgetInv DEF HandlerOK, Gone, Stop
<1>2. AccountsType'
  <2>1. account_table' \in Table
    BY DEF Gone, Forget, InsertStopped, NoAccounts, Table
  <2>2. account_file' \in Table /\ torn' \in BOOLEAN
    BY DEF HandlerOK, Gone, Forget, InsertStopped, AccountsType
  <2>. QED
    BY <2>1, <2>2 DEF AccountsType
<1>3. \A a \in Addr : ~IsWaiting(a)'
  BY DEF Gone, Stop, IsWaiting
<1>4. SW!Reset
  BY <1>3 DEF Gone, Stop, SW!Reset
<1>5. QED
  BY <1>1, <1>2, <1>4 DEF Gone, Stop, StopAndWaitStep, SW!Next

LEMMA InsertType ==
  ASSUME AccountsType, NEW id \in Uid, NEW pwd \in Pwd, Insert(id, pwd) \/ InsertCut(id, pwd)
  PROVE  AccountsType'
<1>1. account_table' \in Table
  BY DEF AccountsType, Table, Insert, InsertCut
<1>2. account_file' \in {account_file, [account_file EXCEPT ![id] = pwd]}
  BY DEF Insert, InsertCut
<1>3. [account_file EXCEPT ![id] = pwd] \in Table
  BY DEF AccountsType, Table
<1>4. torn' \in BOOLEAN
  BY DEF AccountsType, Insert, InsertCut
<1>. QED
  BY <1>1, <1>2, <1>3, <1>4 DEF AccountsType

\* A text command, of a guest or of a user, in a connection that reads commands.
LEMMA RecvTextStep ==
  ASSUME HandlerOK, NEW d \in Datagram, ConnectionOf(d.from).state = "RECV_TEXT",
         state_recv_text(d.from, ConnectionOf(d.from), d.args)
  PROVE  HandlerOK' /\ StopAndWaitStep
<1> DEFINE a == d.from
           conn == ConnectionOf(a)
           args == d.args
<1>1. a \in Addr /\ ConnInv /\ AccountsType
  BY DEF Datagram, HandlerOK
<1>2. conn \in Connection /\ conn.state = "RECV_TEXT" /\ ~IsWaiting(a)
  BY <1>1, ConnectionOfType
<1>3. Head(args) \in {"R", "L"} /\ Len(args) >= 3 => args[2] \in Uid /\ args[3] \in Pwd
  BY InputAssumption DEF Datagram
<1>4. missettled' \in BOOLEAN
  BY DEF HandlerOK, state_recv_text
<1> HIDE DEF a, conn, args
<1>5. ASSUME NEW text \in Text, send_msg(a, conn, text)
      PROVE  ConnInv' /\ StopAndWaitStep
  BY <1>1, <1>2, <1>5, SendMsgStep
<1>6. ASSUME no_reply(a, conn)
      PROVE  ConnInv' /\ StopAndWaitStep
  BY <1>1, <1>6, NoReplyStep DEF conn
<1>7. ASSUME ConnInv', StopAndWaitStep, keep_accounts, Return
      PROVE  HandlerOK' /\ StopAndWaitStep
  BY <1>4, <1>7 DEF HandlerOK, AccountsType, keep_accounts, accountVars, Return
<1>8. CASE Head(args) = "R" /\ guest_register(a, conn, args)
  <2>1. CASE no_reply(a, conn) /\ keep_accounts /\ Return
    BY <1>6, <1>7, <2>1
  <2>2. ASSUME Len(args) >= 3, Insert(args[2], args[3]) \/ InsertCut(args[2], args[3]), Return,
               no_reply(a, conn) \/ send_msg(a, conn, "REG_SUCCESS"),
               \/ UNCHANGED promised
               \/ promised' = promised \cup
                    {[id |-> args[2], pwd |-> args[3], clean |-> ~torn, n |-> nsent']}
        PROVE  HandlerOK' /\ StopAndWaitStep
    <3>1. args[2] \in Uid /\ args[3] \in Pwd
      BY <1>3, <1>8, <2>2
    <3>2. AccountsType'
      BY <1>1, <2>2, <3>1, InsertType
    <3>3. ConnInv' /\ StopAndWaitStep
      BY <1>5, <1>6, <2>2 DEF Text
    <3>4. promised' \subseteq Promise
      <4>1. nsent' \in Nat
        BY <3>3 DEF ConnInv, ConnectionsType
      <4>2. [id |-> args[2], pwd |-> args[3], clean |-> ~torn, n |-> nsent'] \in Promise
        BY <3>1, <4>1 DEF Promise
      <4>. QED
        BY <2>2, <4>2 DEF HandlerOK
    <3>. QED
      BY <1>4, <2>2, <3>2, <3>3, <3>4 DEF HandlerOK, Return
  <2>3. CASE Gone
    BY <1>4, <2>3, GoneStep DEF HandlerOK
  <2>4. QED
    BY <1>8, <2>1, <2>2, <2>3 DEF guest_register, Gone
<1>9. CASE Head(args) = "L" /\ guest_login(a, conn, args)
  <2>1. keep_accounts /\ Return
    BY <1>9 DEF guest_login
  <2>2. CASE no_reply(a, conn)
    BY <1>6, <1>7, <2>1, <2>2
  <2>3. CASE send_msg(a, conn, "LOGIN_UID_ERROR") \/ send_msg(a, conn, "LOGIN_PWD_ERROR")
    BY <1>5, <1>7, <2>1, <2>3 DEF Text
  <2>4. CASE Len(args) >= 3 /\ send_msg(a, setLogin(conn, args[2]), "LOGIN_SUCCESS")
    <3>1. setLogin(conn, args[2]) \in Connection /\ setLogin(conn, args[2]).state = "RECV_TEXT"
      BY <1>2, <1>3, <1>9, <2>4 DEF setLogin, Connection
    <3>2. ConnInv' /\ StopAndWaitStep
      BY <1>1, <1>2, <2>4, <3>1, SendMsgStep DEF Text
    <3>3. QED
      BY <1>7, <2>1, <3>2
  <2>5. QED
    BY <1>9, <2>2, <2>3, <2>4 DEF guest_login
<1>10. CASE guest_echo(a, conn, args)
  <2>1. CASE send_msg(a, conn, "ECHO") /\ keep_accounts /\ Return
    BY <1>5, <1>7, <2>1 DEF Text
  <2>2. CASE Die
    BY <1>4, <2>2, GoneStep DEF HandlerOK, Die, Gone
  <2>3. QED
    BY <1>10, <2>1, <2>2 DEF guest_echo
<1>11. CASE guest_return(a, conn) \/ user_return(a, conn) \/ user_show_users(a, conn)
  BY <1>5, <1>7, <1>11 DEF guest_return, user_return, user_show_users, Text
<1>12. CASE user_show_articles(a, conn)
  <2>1. CASE /\ send_msg(a, conn, "ARTICLES") \/ send_msg(a, conn, "ARTICLES_LONG")
             /\ keep_accounts /\ Return
    BY <1>5, <1>7, <2>1 DEF Text
  <2>2. CASE Die
    BY <1>4, <2>2, GoneStep DEF HandlerOK, Die, Gone
  <2>3. QED
    BY <1>12, <2>1, <2>2 DEF user_show_articles
<1>13. CASE no_reply(a, conn) /\ keep_accounts /\ Return
  BY <1>6, <1>7, <1>13
<1>14. QED
  BY <1>8, <1>9, <1>10, <1>11, <1>12, <1>13 DEF state_recv_text, a, conn, args

\* A datagram in a connection that waits for an ACK.
LEMMA RecvAckStep ==
  ASSUME HandlerOK, NEW d \in Datagram, ConnectionOf(d.from).state = "RECV_ACK",
         state_recv_ack(d.from, ConnectionOf(d.from), d)
  PROVE  HandlerOK' /\ StopAndWaitStep
<1> DEFINE a == d.from
           conn == ConnectionOf(a)
<1>1. a \in Addr /\ ConnInv
  BY DEF Datagram, HandlerOK
<1>2. IsWaiting(a) /\ conn = conn_map[a]
  BY <1>1, ConnectionOfType
<1>3. keep_accounts /\ Return /\ missettled' \in BOOLEAN
  BY DEF state_recv_ack, HandlerOK
<1>4. ConnInv' /\ StopAndWaitStep
  <2>1. CASE settle(a, conn)
    BY <1>1, <1>2, <2>1, SettleInv, SettleSettles DEF StopAndWaitStep, SW!Next
  <2>2. CASE no_reply(a, conn)
    BY <1>1, <2>2, NoReplyStep
  <2>3. QED
    BY <2>1, <2>2 DEF state_recv_ack
<1>5. QED
  BY <1>3, <1>4 DEF HandlerOK, AccountsType, keep_accounts, accountVars, Return

(***************************************************************************)
(* The inductive invariant and the theorems.                               *)
(***************************************************************************)
LEMMA InitInv ==
  ASSUME Init
  PROVE  IInv /\ SW!Init
<1>1. ConnInv
  BY DEF Init, ConnInv, ConnectionsType, OneOutstanding, IsWaiting
<1>2. AccountsType
  BY DEF Init, AccountsType, Table
<1>3. toServer \subseteq Datagram
  BY DEF Init, Datagram, Command
<1>4. SW!Init
  BY DEF Init, SW!Init, IsWaiting
<1>5. QED
  BY <1>1, <1>2, <1>3, <1>4 DEF Init, IInv

LEMMA StepInv ==
  ASSUME IInv, [Next]_vars
  PROVE  IInv' /\ StopAndWaitStep
<1> USE DEF IInv
<1>1. CASE UNCHANGED vars
  <2>1. UNCHANGED <<connVars, accountVars, pc, envVars, historyVars>>
    BY <1>1 DEF vars
  <2>2. ConnInv'
    BY <2>1, ReceiveInv DEF connVars
  <2>3. UNCHANGED SW!swVars
    BY <2>1 DEF connVars, SW!swVars, IsWaiting
  <2>4. QED
    BY <2>1, <2>2, <2>3 DEF AccountsType, accountVars, envVars, historyVars, StopAndWaitStep
<1>2. CASE PollWaiting
  <2>1. ConnInv' /\ StopAndWaitStep
    BY <1>2, PollInv, PollResends DEF PollWaiting, StopAndWaitStep, SW!Next
  <2>2. QED
    BY <1>2, <2>1 DEF PollWaiting, AccountsType, accountVars, envVars, historyVars
<1>3. CASE RecvNothing
  <2>1. UNCHANGED <<connVars, accountVars, envVars, historyVars>> /\ pc' = "poll"
    BY <1>3 DEF RecvNothing
  <2>2. ConnInv'
    BY <2>1, ReceiveInv DEF connVars
  <2>3. UNCHANGED SW!swVars
    BY <2>1 DEF connVars, SW!swVars, IsWaiting
  <2>4. QED
    BY <2>1, <2>2, <2>3 DEF AccountsType, accountVars, envVars, historyVars, StopAndWaitStep
<1>4. ASSUME NEW d \in toServer, HandleDatagram(d)
      PROVE  IInv' /\ StopAndWaitStep
  <2>1. HandlerOK /\ d \in Datagram
    BY DEF HandlerOK
  <2>2. HandlerOK' /\ StopAndWaitStep
    BY <1>4, <2>1, RecvTextStep, RecvAckStep DEF HandleDatagram
  <2>3. toServer' \subseteq Datagram /\ duplicated' \in Nat
    BY <1>4 DEF HandleDatagram, Take
  <2>4. QED
    BY <1>4, <2>2, <2>3 DEF HandleDatagram, HandlerOK
<1>5. CASE Crash
  <2>1. ConnInv' /\ AccountsType' /\ pc' = "down" /\ promised' = promised /\ StopAndWaitStep
    BY <1>5, GoneStep DEF Crash, Die, Gone, HandlerOK
  <2>2. QED
    BY <1>5, <2>1 DEF Crash, envVars
<1>6. CASE Restart
  <2>1. ConnInv'
    BY <1>6, ReceiveInv DEF Restart, connVars
  <2>2. UNCHANGED SW!swVars
    BY <1>6 DEF Restart, connVars, SW!swVars, IsWaiting
  <2>3. AccountsType' /\ toServer' \subseteq Datagram /\ boot' \in Nat
    <3>1. account_table' \in Table /\ UNCHANGED <<account_file, torn>>
      BY <1>6 DEF Restart, Load, AccountsType
    <3>. QED
      BY <1>6, <3>1 DEF Restart, AccountsType, ConnInv, ConnectionsType
  <2>4. QED
    BY <1>6, <2>1, <2>2, <2>3 DEF Restart, StopAndWaitStep
<1>7. CASE Timer
  <2>1. ConnInv'
    BY <1>7, TickInv DEF Timer
  <2>2. UNCHANGED SW!swVars
    BY <1>7 DEF Timer, Tick, SW!swVars, IsWaiting
  <2>3. QED
    BY <1>7, <2>1, <2>2 DEF Timer, AccountsType, accountVars, envVars, historyVars, StopAndWaitStep
<1>8. ASSUME NEW a \in Addr, UserLine(a)
      PROVE  IInv' /\ StopAndWaitStep
  <2>1. ConnInv'
    BY <1>8, ReceiveInv DEF UserLine, connVars
  <2>2. UNCHANGED SW!swVars
    BY <1>8 DEF UserLine, connVars, SW!swVars, IsWaiting
  <2>3. toServer' \subseteq Datagram
    BY <1>8 DEF UserLine, ToServer, Command, Datagram
  <2>4. QED
    BY <1>8, <2>1, <2>2, <2>3 DEF UserLine, AccountsType, accountVars, historyVars, StopAndWaitStep
<1>9. ASSUME NEW a \in Addr, ClientRecv(a)
      PROVE  IInv' /\ StopAndWaitStep
  <2>1. PICK m \in toClient :
          /\ toClient' \in {toClient, toClient \ {m}}
          /\ duplicated' \in {duplicated, duplicated + 1}
          /\ ToServer(Ack(a, m.msg))
          /\ shown' = shown \cup {m}
          /\ reshown' = (reshown \/ m \in shown)
          /\ UNCHANGED <<conn_map, waitting_conn, nsent, accountVars, pc, typed, crashed,
                         missettled, promised, boot>>
    BY <1>9 DEF ClientRecv
  <2>2. m \in Packet
    BY DEF ConnInv, ConnectionsType
  <2>3. ConnInv'
    BY <2>1, ReceiveInv
  <2>4. StopAndWaitStep
    BY <2>1, ReceiveReceives DEF StopAndWaitStep
  <2>5. toServer' \subseteq Datagram
    BY <2>1, <2>2 DEF ToServer, Ack, Datagram, Packet, Reply
  <2>6. QED
    BY <2>1, <2>2, <2>3, <2>4, <2>5 DEF AccountsType, accountVars
<1>10. QED
  BY <1>1, <1>2, <1>3, <1>4, <1>5, <1>6, <1>7, <1>8, <1>9 DEF Next, Server, Client

\* The inductive invariant holds in every reachable state.
THEOREM Invariance == Spec => []IInv
<1>1. Init => IInv
  BY InitInv
<1>2. IInv /\ [Next]_vars => IInv'
  BY StepInv
<1>3. QED
  BY <1>1, <1>2, PTL DEF Spec

\* Every variable keeps its type.
THEOREM TypeCorrect == Spec => []TypeOK
<1>1. IInv => TypeOK
  BY DEF IInv, TypeOK, ConnInv, Promise
<1>2. QED
  BY <1>1, Invariance, PTL

\* Connections and the list of unacknowledged replies never drift apart.
THEOREM OutstandingCorrect == Spec => []OneOutstanding
<1>1. IInv => OneOutstanding
  BY DEF IInv, ConnInv
<1>2. QED
  BY <1>1, Invariance, PTL

\* The server implements the stop-and-wait protocol: every one of its steps is
\* one of StopAndWait, or leaves StopAndWait's variables alone.
THEOREM Refinement == Spec => ImplementsStopAndWait
<1>1. Init => SW!Init
  BY InitInv
<1>2. IInv /\ [Next]_vars => [SW!Next]_SW!swVars
  BY StepInv DEF StopAndWaitStep
<1>3. QED
  BY <1>1, <1>2, Invariance, PTL DEF Spec, ImplementsStopAndWait, SW!Spec

-----------------------------------------------------------------------------
(***************************************************************************)
(* The accounts: a login has an account behind it, and a registration that *)
(* was answered outlives the process.                                      *)
(***************************************************************************)

\* A process that is gone has no connections: the next one starts from none.
NothingLeft == pc = "down" => \A a \in Addr : conn_map[a] = NoConn

\* The numbers of the replies that made promises, and the one the process began with.
Numbered == boot <= nsent /\ \A r \in promised : r.n <= nsent

AccountInv == SessionHasAccount /\ RegistrationDurable /\ NothingLeft /\ Numbered

\* Nothing else is numbered, or one reply more.
LEMMA StillNumbered ==
  ASSUME IInv, Numbered, UNCHANGED boot, nsent' \in {nsent, nsent + 1},
         \A r \in promised' : r \in promised \/ r.n = nsent'
  PROVE  Numbered'
<1>1. nsent \in Nat /\ boot \in Nat /\ \A r \in promised : r.n \in Nat
  BY DEF IInv, ConnInv, ConnectionsType, Promise
<1>2. \A k \in Nat : k <= nsent => k <= nsent'
  BY <1>1
<1>3. nsent' <= nsent'
  BY <1>1
<1>. QED
  BY <1>1, <1>2, <1>3 DEF Numbered

\* The accounts are as they were, and who is logged in was so before.
LEMMA SameAccounts ==
  ASSUME IInv, AccountInv, keep_accounts, pc' # "down",
         UNCHANGED boot, nsent' \in {nsent, nsent + 1},
         \A b \in Addr : conn_map'[b] # NoConn /\ conn_map'[b].login_state =>
            \/ conn_map'[b].id \in Uid /\ isExist(conn_map'[b].id)
            \/ conn_map[b] # NoConn /\ conn_map[b].login_state /\ conn_map'[b].id = conn_map[b].id
  PROVE  pc # "down" => AccountInv'
<1> SUFFICES ASSUME pc # "down" PROVE AccountInv'
  OBVIOUS
<1>1. UNCHANGED <<account_table, account_file, promised>>
  BY DEF keep_accounts, accountVars
<1>2. SessionHasAccount'
  BY <1>1 DEF AccountInv, SessionHasAccount, isExist
<1>3. RegistrationDurable'
  BY <1>1 DEF AccountInv, RegistrationDurable
<1>4. Numbered'
  BY <1>1, StillNumbered DEF AccountInv
<1>5. QED
  BY <1>2, <1>3, <1>4 DEF AccountInv, NothingLeft

\* A registration of a new name.
LEMMA NewAccount ==
  ASSUME IInv, AccountInv, pc # "down", pc' # "down",
         NEW id \in Uid, NEW pwd \in Pwd, ~isExist(id),
         UNCHANGED boot, nsent' \in {nsent, nsent + 1},
         NEW r0, r0 = [id |-> id, pwd |-> pwd, clean |-> ~torn, n |-> nsent'],
         \/ (Insert(id, pwd) \/ InsertCut(id, pwd)) /\ UNCHANGED promised
         \/ Insert(id, pwd) /\ promised' = promised \cup {r0},
         \A b \in Addr : conn_map'[b] # NoConn /\ conn_map'[b].login_state =>
            conn_map[b] # NoConn /\ conn_map[b].login_state /\ conn_map'[b].id = conn_map[b].id
  PROVE  AccountInv'
<1>1. /\ account_table \in Table /\ account_file \in Table /\ torn \in BOOLEAN
      /\ account_table' = [account_table EXCEPT ![id] = pwd]
      /\ \/ account_file' = [account_file EXCEPT ![id] = pwd]
         \/ account_file' = account_file
  BY DEF IInv, AccountsType, Insert, InsertCut
<1>2. /\ account_table'[id] = pwd /\ pwd # NoPwd
      /\ \A u \in Uid : u # id =>
           account_table'[u] = account_table[u] /\ account_file'[u] = account_file[u]
  BY <1>1, NoPwdAssumption DEF Table
<1>3. SessionHasAccount'
  <2> SUFFICES ASSUME NEW b \in Addr, conn_map'[b] # NoConn, conn_map'[b].login_state
               PROVE  conn_map'[b].id \in Uid /\ account_table'[conn_map'[b].id] # NoPwd
    BY DEF SessionHasAccount, isExist
  <2>1. conn_map[b] # NoConn /\ conn_map[b].login_state /\ conn_map'[b].id = conn_map[b].id
    OBVIOUS
  <2>2. conn_map'[b].id \in Uid /\ account_table[conn_map'[b].id] # NoPwd
    BY <2>1 DEF AccountInv, SessionHasAccount, isExist
  <2>3. conn_map'[b].id = id \/ account_table'[conn_map'[b].id] = account_table[conn_map'[b].id]
    BY <1>2, <2>2
  <2>4. QED
    BY <1>2, <2>2, <2>3
<1>4. RegistrationDurable'
  <2> SUFFICES ASSUME NEW r \in promised'
               PROVE  /\ r.clean => account_file'[r.id] = r.pwd
                      /\ r.clean \/ r.n > boot => account_table'[r.id] = r.pwd
    BY DEF RegistrationDurable
  <2>1. CASE r \in promised
    <3>1. /\ r.id \in Uid /\ r.pwd \in Pwd
          /\ r.clean => account_file[r.id] = r.pwd
          /\ r.clean \/ r.n > boot => account_table[r.id] = r.pwd
      BY <2>1 DEF AccountInv, RegistrationDurable, IInv, Promise
    <3>2. r.clean \/ r.n > boot => r.id # id
      BY <3>1, NoPwdAssumption DEF isExist
    <3>3. QED
      BY <1>2, <3>1, <3>2
  <2>2. CASE r = r0 /\ Insert(id, pwd)
    <3>1. r.id = id /\ r.pwd = pwd /\ (r.clean <=> ~torn)
      BY <2>2
    <3>2. ~torn => account_file'[id] = pwd
      BY <1>1, <2>2 DEF Insert, Table
    <3>3. QED
      BY <1>2, <3>1, <3>2
  <2>3. QED
    BY <2>1, <2>2
<1>5. Numbered'
  <2>1. r0.n = nsent'
    OBVIOUS
  <2>2. \A r \in promised' : r \in promised \/ r.n = nsent'
    BY <2>1
  <2>. QED
    BY <2>2, StillNumbered DEF AccountInv
<1>6. QED
  BY <1>3, <1>4, <1>5 DEF AccountInv, NothingLeft

\* The process is gone.
LEMMA AllGone ==
  ASSUME IInv, AccountInv, Gone, UNCHANGED boot
  PROVE  AccountInv'
<1>1. /\ pc' = "down" /\ \A a \in Addr : conn_map'[a] = NoConn
      /\ UNCHANGED <<promised, nsent, account_file>>
  BY DEF Gone, Stop, Forget, InsertStopped
<1>2. Numbered'
  BY <1>1, StillNumbered DEF AccountInv
<1>. QED
  BY <1>1, <1>2 DEF AccountInv, SessionHasAccount, RegistrationDurable, NothingLeft

\* Of the accounts of a new process, those are as promised that the file had.
LEMMA NewProcess ==
  ASSUME IInv, AccountInv, Restart
  PROVE  AccountInv'
<1>1. /\ UNCHANGED <<conn_map, nsent, promised, account_file>> /\ boot' = nsent
      /\ \A a \in Addr : conn_map[a] = NoConn
  BY DEF Restart, Load, connVars, AccountInv, NothingLeft
<1>2. nsent \in Nat /\ \A r \in promised : r.n \in Nat
  BY DEF IInv, ConnInv, ConnectionsType, Promise
<1>3. \A u \in Uid : account_file[u] # NoPwd => account_table'[u] = account_file[u]
  BY DEF Restart, Load
<1>4. \A r \in promised : r.clean => account_table'[r.id] = r.pwd
  <2> SUFFICES ASSUME NEW r \in promised, r.clean PROVE account_table'[r.id] = r.pwd
    OBVIOUS
  <2>1. account_file[r.id] = r.pwd /\ r.id \in Uid /\ r.pwd # NoPwd
    BY NoPwdAssumption DEF AccountInv, RegistrationDurable, IInv, Promise
  <2>. QED
    BY <1>3, <2>1
<1>5. \A r \in promised : ~(r.n > nsent)
  BY <1>2 DEF AccountInv, Numbered
<1>6. RegistrationDurable'
  BY <1>1, <1>4, <1>5 DEF AccountInv, RegistrationDurable
<1>7. Numbered'
  BY <1>1, <1>2 DEF AccountInv, Numbered
<1>. QED
  BY <1>1, <1>6, <1>7 DEF AccountInv, SessionHasAccount, NothingLeft

\* send_msg() and no_reply() change the connection of one address.
LEMMA OneConnection ==
  ASSUME IInv, NEW a \in Addr, NEW conn \in Connection,
         \/ no_reply(a, conn)
         \/ settle(a, conn)
         \/ \E text \in Text : send_msg(a, conn, text)
  PROVE  /\ \A b \in Addr : b # a => conn_map'[b] = conn_map[b]
         /\ conn_map'[a].login_state = conn.login_state
         /\ conn_map'[a].id = conn.id
         /\ nsent' \in {nsent, nsent + 1}
<1>1. conn_map \in [Addr -> Connection \cup {NoConn}]
  BY DEF IInv, ConnInv, ConnectionsType
<1>2. PICK c : /\ conn_map' = [conn_map EXCEPT ![a] = c]
               /\ c.login_state = conn.login_state /\ c.id = conn.id
  <2>1. CASE no_reply(a, conn)
    BY <2>1 DEF no_reply
  <2>2. CASE settle(a, conn)
    <3> DEFINE c0 == [conn EXCEPT !.state = conn.last_state]
    <3>1. c0.login_state = conn.login_state /\ c0.id = conn.id
      BY DEF Connection
    <3>2. conn_map' = [conn_map EXCEPT ![a] = c0]
      BY <2>2 DEF settle
    <3>3. QED
      BY <3>1, <3>2
  <2>3. ASSUME NEW text \in Text, send_msg(a, conn, text)
        PROVE  \E c : /\ conn_map' = [conn_map EXCEPT ![a] = c]
                      /\ c.login_state = conn.login_state /\ c.id = conn.id
    <3> DEFINE c0 == Sending(conn, [n |-> nsent + 1, text |-> text])
    <3>1. c0.login_state = conn.login_state /\ c0.id = conn.id
      BY DEF Connection, Sending
    <3>2. conn_map' = [conn_map EXCEPT ![a] = c0]
      BY <2>3 DEF send_msg
    <3>3. QED
      BY <3>1, <3>2
  <2>4. QED
    BY <2>1, <2>2, <2>3
<1>3. nsent' \in {nsent, nsent + 1}
  BY DEF no_reply, settle, send_msg
<1>4. QED
  BY <1>1, <1>2, <1>3

\* A handler that leaves the connection's login alone.
LEMMA SameLogins ==
  ASSUME IInv, NEW a \in Addr, NEW conn \in Connection, conn = ConnectionOf(a),
         \/ no_reply(a, conn)
         \/ settle(a, conn)
         \/ \E text \in Text : send_msg(a, conn, text)
  PROVE  /\ \A b \in Addr : conn_map'[b] # NoConn /\ conn_map'[b].login_state =>
              conn_map[b] # NoConn /\ conn_map[b].login_state /\ conn_map'[b].id = conn_map[b].id
         /\ nsent' \in {nsent, nsent + 1}
BY OneConnection DEF ConnectionOf, NewConnection

\* A datagram, whatever the connection waits for.
LEMMA DatagramAccounts ==
  ASSUME IInv, IInv', AccountInv, NEW d \in toServer, HandleDatagram(d)
  PROVE  AccountInv'
<1> DEFINE a == d.from
           conn == ConnectionOf(a)
           args == d.args
<1>0. UNCHANGED boot
  BY DEF HandleDatagram
<1>1. a \in Addr /\ pc = "recv" /\ conn \in Connection
  <2>1. d \in Datagram
    BY DEF IInv
  <2>2. a \in Addr
    BY <2>1 DEF Datagram
  <2>3. QED
    BY <2>2, ConnectionOfType DEF IInv, HandleDatagram
<1>2. Head(args) \in {"R", "L"} /\ Len(args) >= 3 => args[2] \in Uid /\ args[3] \in Pwd
  BY InputAssumption DEF IInv, Datagram
<1>3. \/ state_recv_ack(a, conn, d)
      \/ state_recv_text(a, conn, args)
  BY DEF HandleDatagram
<1>4. /\ conn_map \in [Addr -> Connection \cup {NoConn}]
      /\ conn_map' \in [Addr -> Connection \cup {NoConn}]
  BY DEF IInv, ConnInv, ConnectionsType
<1>5. conn = ConnectionOf(a)
  OBVIOUS
<1> HIDE DEF a, conn, args
<1>6. ASSUME keep_accounts, Return,
             \/ no_reply(a, conn)
             \/ settle(a, conn)
             \/ \E text \in Text : send_msg(a, conn, text)
      PROVE  AccountInv'
  <2>1. pc # "down" /\ pc' # "down"
    BY <1>1, <1>6 DEF Return
  <2>2. /\ \A b \in Addr : conn_map'[b] # NoConn /\ conn_map'[b].login_state =>
              conn_map[b] # NoConn /\ conn_map[b].login_state /\ conn_map'[b].id = conn_map[b].id
        /\ nsent' \in {nsent, nsent + 1}
    BY <1>1, <1>5, <1>6, SameLogins
  <2>3. QED
    BY <1>0, <1>6, <2>1, <2>2, SameAccounts
<1>7. CASE state_recv_ack(a, conn, d)
  BY <1>6, <1>7 DEF state_recv_ack
<1>8. CASE Head(args) = "R" /\ guest_register(a, conn, args)
  <2>1. CASE no_reply(a, conn) /\ keep_accounts /\ Return
    BY <1>6, <2>1
  <2>2. ASSUME Len(args) >= 3, ~isExist(args[2]), Return,
               no_reply(a, conn) \/ send_msg(a, conn, "REG_SUCCESS"),
               NEW r0,
               r0 = [id |-> args[2], pwd |-> args[3], clean |-> ~torn, n |-> nsent'],
               \/ (Insert(args[2], args[3]) \/ InsertCut(args[2], args[3])) /\ UNCHANGED promised
               \/ Insert(args[2], args[3]) /\ promised' = promised \cup {r0}
        PROVE  AccountInv'
    <3>1. /\ \A b \in Addr : conn_map'[b] # NoConn /\ conn_map'[b].login_state =>
               conn_map[b] # NoConn /\ conn_map[b].login_state /\ conn_map'[b].id = conn_map[b].id
          /\ nsent' \in {nsent, nsent + 1}
      BY <1>1, <1>5, <2>2, SameLogins DEF Text
    <3>2. args[2] \in Uid /\ args[3] \in Pwd /\ pc # "down" /\ pc' # "down"
      BY <1>1, <1>2, <1>8, <2>2 DEF Return
    <3>3. QED
      BY <1>0, <2>2, <3>1, <3>2, NewAccount
  <2>3. CASE Gone
    BY <1>0, <2>3, AllGone
  <2>4. QED
    BY <1>8, <2>1, <2>2, <2>3 DEF guest_register, Gone
<1>9. CASE Head(args) = "L" /\ guest_login(a, conn, args)
  <2>1. keep_accounts /\ Return
    BY <1>9 DEF guest_login
  <2>2. CASE \/ no_reply(a, conn)
             \/ send_msg(a, conn, "LOGIN_UID_ERROR")
             \/ send_msg(a, conn, "LOGIN_PWD_ERROR")
    BY <1>6, <2>1, <2>2 DEF Text
  <2>3. CASE /\ Len(args) >= 3 /\ isCorrect(args[2], args[3])
             /\ send_msg(a, setLogin(conn, args[2]), "LOGIN_SUCCESS")
    <3>1. args[2] \in Uid /\ isExist(args[2])
      BY <1>2, <1>9, <2>3 DEF isCorrect
    <3>2. setLogin(conn, args[2]) \in Connection /\ setLogin(conn, args[2]).id = args[2]
      BY <1>1, <3>1 DEF setLogin, Connection
    <3>3. /\ \A b \in Addr : b # a => conn_map'[b] = conn_map[b]
          /\ conn_map'[a].id = args[2]
          /\ nsent' \in {nsent, nsent + 1}
      BY <1>1, <2>3, <3>2, OneConnection DEF Text
    <3>4. pc # "down" /\ pc' # "down"
      BY <1>1, <2>1 DEF Return
    <3>5. \A b \in Addr : conn_map'[b] # NoConn /\ conn_map'[b].login_state =>
            \/ conn_map'[b].id \in Uid /\ isExist(conn_map'[b].id)
            \/ conn_map[b] # NoConn /\ conn_map[b].login_state /\ conn_map'[b].id = conn_map[b].id
      BY <3>1, <3>3
    <3>6. QED
      BY <1>0, <2>1, <3>3, <3>4, <3>5, SameAccounts
  <2>4. QED
    BY <1>9, <2>2, <2>3 DEF guest_login
<1>10. CASE \/ guest_echo(a, conn, args) \/ guest_return(a, conn) \/ user_return(a, conn)
            \/ user_show_users(a, conn) \/ user_show_articles(a, conn)
  <2>1. CASE Die
    BY <1>0, <2>1, AllGone DEF Die, Gone
  <2>2. CASE /\ keep_accounts /\ Return
             /\ \E text \in Text : send_msg(a, conn, text)
    BY <1>6, <2>2
  <2>3. QED
    BY <1>10, <2>1, <2>2
       DEF guest_echo, guest_return, user_return, user_show_users, user_show_articles, Text
<1>11. CASE no_reply(a, conn) /\ keep_accounts /\ Return
  BY <1>6, <1>11
<1>12. QED
  BY <1>3, <1>7, <1>8, <1>9, <1>10, <1>11 DEF state_recv_text

LEMMA AccountStep ==
  ASSUME IInv, IInv', AccountInv, [Next]_vars
  PROVE  AccountInv'
<1>1. ASSUME UNCHANGED <<conn_map, nsent, accountVars, promised, boot>>,
             pc = "down" <=> pc' = "down"
      PROVE  AccountInv'
  BY <1>1 DEF AccountInv, SessionHasAccount, RegistrationDurable, NothingLeft, Numbered,
              accountVars, isExist
<1>2. CASE UNCHANGED vars
  BY <1>1, <1>2 DEF vars, connVars, historyVars
<1>3. CASE PollWaiting \/ RecvNothing \/ Timer
  BY <1>1, <1>3
     DEF PollWaiting, pollWaiting, RecvNothing, Timer, Tick, connVars, historyVars
<1>4. ASSUME NEW d \in toServer, HandleDatagram(d)
      PROVE  AccountInv'
  BY <1>4, DatagramAccounts
<1>5. CASE Crash
  BY <1>5, AllGone DEF Crash, Die, Gone
<1>6. CASE Restart
  BY <1>6, NewProcess
<1>7. ASSUME NEW a \in Addr, UserLine(a) \/ ClientRecv(a)
      PROVE  AccountInv'
  BY <1>1, <1>7 DEF UserLine, ClientRecv, connVars, historyVars
<1>8. QED
  BY <1>2, <1>3, <1>4, <1>5, <1>6, <1>7 DEF Next, Server, Client

\* Together with the types, the accounts' invariant is inductive.
LEMMA AccountInvariance == Spec => []AccountInv
<1>1. Init => AccountInv
  BY DEF Init, AccountInv, SessionHasAccount, RegistrationDurable, NothingLeft, Numbered
<1>2. IInv /\ IInv' /\ AccountInv /\ [Next]_vars => AccountInv'
  BY AccountStep
<1>3. QED
  BY <1>1, <1>2, Invariance, PTL DEF Spec

\* Every login has a name with an account.
THEOREM SessionAccounts == Spec => []SessionHasAccount
<1>1. AccountInv => SessionHasAccount
  BY DEF AccountInv
<1>2. QED
  BY <1>1, AccountInvariance, PTL

\* Every registration that was answered is in the table of the process that answered
\* it; and, if the file had no cut line then, in the file and in the table of every
\* later process, whatever is cut short afterwards.
THEOREM DurableRegistrations == Spec => []RegistrationDurable
<1>1. AccountInv => RegistrationDurable
  BY DEF AccountInv
<1>2. QED
  BY <1>1, AccountInvariance, PTL

-----------------------------------------------------------------------------
(***************************************************************************)
(* What the clients have been shown: a client that was told of its login   *)
(* is logged in, and a settled reply was displayed unless one of the named *)
(* accidents happened.                                                     *)
(***************************************************************************)
LoggedIn(a) == conn_map[a] # NoConn /\ conn_map[a].login_state

(***************************************************************************)
(* LoginTold, strengthened to the replies that are still to be shown: those *)
(* in flight, and those a connection keeps to send again.                  *)
(***************************************************************************)
LoginInv ==
  /\ \A m \in shown \cup toClient :
       /\ m.msg.n <= nsent
       /\ m.msg.text = "LOGIN_SUCCESS" /\ m.msg.n > boot /\ pc # "down" => LoggedIn(m.to)
  /\ \A a \in Addr : conn_map[a] # NoConn =>
       /\ conn_map[a].sendbuff.n <= nsent
       /\ conn_map[a].sendbuff.text = "LOGIN_SUCCESS" => conn_map[a].login_state

(***************************************************************************)
(* AckMeansShown, strengthened to the replies and the ACKs in flight.      *)
(***************************************************************************)

\* None of the accidents that AckMeansShown excepts has happened.
NoAccident == ~reshown /\ duplicated = 0 /\ crashed = 0

Outstanding(a) == [to |-> a, msg |-> conn_map[a].sendbuff]

\* An ACK that is on its way answers the reply its sender's connection waits
\* for, and that reply was shown.
AcksAnswer ==
  \A d \in toServer : d.args = <<"ACK">> =>
    /\ IsWaiting(d.from)
    /\ d.no = conn_map[d.from].sendbuff.n
    /\ Outstanding(d.from) \in shown

\* A reply that is on its way was shown already or is the one its address is
\* waited for.
RepliesNew ==
  \A m \in toClient : m \in shown \/ (IsWaiting(m.to) /\ m = Outstanding(m.to))

AckInv ==
  NoAccident => ~missettled /\ (pc # "down" => AcksAnswer /\ RepliesNew)

(***************************************************************************)
(* What a datagram can come to, whatever the command.                      *)
(***************************************************************************)

\* The handler sent text in the connection c, which is conn or conn logged in.
Replied(a, conn, c, text) ==
  /\ conn.state = "RECV_TEXT" /\ c.state = "RECV_TEXT"
  /\ conn.login_state => c.login_state
  /\ text = "LOGIN_SUCCESS" => c.login_state
  /\ send_msg(a, c, text)

Settled(a, conn, d) ==
  /\ conn.state = "RECV_ACK" /\ d.args = <<"ACK">>
  /\ settle(a, conn)
  /\ missettled' = (missettled \/ d.no # conn.sendbuff.n)

\* A handler dies, leaves without a reply, replies or settles a reply.
LEMMA Outcome ==
  ASSUME IInv, NEW d \in toServer, HandleDatagram(d)
  PROVE  \/ Gone /\ UNCHANGED missettled
         \/ Return /\ no_reply(d.from, ConnectionOf(d.from)) /\ UNCHANGED missettled
         \/ Return /\ Settled(d.from, ConnectionOf(d.from), d)
         \/ /\ Return /\ UNCHANGED missettled
            /\ \E c \in Connection, text \in Text : Replied(d.from, ConnectionOf(d.from), c, text)
<1> DEFINE a == d.from
           conn == ConnectionOf(a)
           args == d.args
           Leaves == Return /\ no_reply(a, conn) /\ UNCHANGED missettled
           Replies == /\ Return /\ UNCHANGED missettled
                      /\ \E c \in Connection, text \in Text : Replied(a, conn, c, text)
<1>1. a \in Addr /\ d \in Datagram
  BY DEF IInv, Datagram
<1>2. conn \in Connection
  BY <1>1, ConnectionOfType DEF IInv
<1>3. Head(args) = "ACK" => args = <<"ACK">>
  BY <1>1, TypedAssumption DEF Datagram
<1>4. Head(args) \in {"R", "L"} /\ Len(args) >= 3 => args[2] \in Uid /\ args[3] \in Pwd
  BY <1>1, InputAssumption DEF Datagram
<1>5. CASE conn.state = "RECV_ACK" /\ state_recv_ack(a, conn, d)
  BY <1>3, <1>5 DEF state_recv_ack, Settled
<1>6. ASSUME conn.state = "RECV_TEXT", state_recv_text(a, conn, args)
      PROVE  (Gone /\ UNCHANGED missettled) \/ Leaves \/ Replies
  <2>1. UNCHANGED missettled
    BY <1>6 DEF state_recv_text
  <2> HIDE DEF a, conn, args
  <2>2. ASSUME Return, NEW text \in Text, text # "LOGIN_SUCCESS", send_msg(a, conn, text)
        PROVE  Replies
    BY <1>2, <1>6, <2>1, <2>2 DEF Replied
  <2>3. CASE Head(args) = "R" /\ guest_register(a, conn, args)
    BY <2>1, <2>2, <2>3 DEF guest_register, Text, Gone
  <2>4. CASE Head(args) = "L" /\ guest_login(a, conn, args)
    <3>1. Return
      BY <2>4 DEF guest_login
    <3>2. CASE \/ no_reply(a, conn)
               \/ send_msg(a, conn, "LOGIN_UID_ERROR")
               \/ send_msg(a, conn, "LOGIN_PWD_ERROR")
      BY <2>1, <2>2, <3>1, <3>2 DEF Text
    <3>3. CASE Len(args) >= 3 /\ send_msg(a, setLogin(conn, args[2]), "LOGIN_SUCCESS")
      <4> DEFINE c == setLogin(conn, args[2])
      <4>1. c \in Connection /\ c.state = "RECV_TEXT" /\ c.login_state
        BY <1>2, <1>4, <1>6, <2>4, <3>3 DEF setLogin, Connection
      <4> HIDE DEF c
      <4>2. Replied(a, conn, c, "LOGIN_SUCCESS")
        BY <1>6, <3>3, <4>1 DEF Replied, c
      <4>3. QED
        BY <2>1, <3>1, <4>1, <4>2 DEF Text
    <3>4. QED
      BY <2>4, <3>2, <3>3 DEF guest_login
  <2>5. CASE \/ guest_echo(a, conn, args) \/ guest_return(a, conn) \/ user_return(a, conn)
             \/ user_show_users(a, conn) \/ user_show_articles(a, conn)
    BY <2>1, <2>2, <2>5
       DEF guest_echo, guest_return, user_return, user_show_users, user_show_articles, Text,
           Die, Gone
  <2>6. CASE no_reply(a, conn) /\ Return
    BY <2>1, <2>6
  <2>7. QED
    BY <1>6, <2>3, <2>4, <2>5, <2>6 DEF state_recv_text
<1>7. QED
  BY <1>5, <1>6 DEF HandleDatagram

\* A reply changes the connection of its address, which then waits for the
\* acknowledgement of it, and puts at most that reply on the network.
LEMMA ReplyEffect ==
  ASSUME IInv, NEW a \in Addr, NEW c \in Connection, NEW text \in Text,
         send_msg(a, c, text)
  PROVE  /\ \A b \in Addr : b # a => conn_map'[b] = conn_map[b]
         /\ conn_map'[a] # NoConn
         /\ conn_map'[a].state = "RECV_ACK"
         /\ conn_map'[a].login_state = c.login_state
         /\ conn_map'[a].sendbuff = [n |-> nsent + 1, text |-> text]
         /\ nsent' = nsent + 1
         /\ toClient' \subseteq toClient \cup {[to |-> a, msg |-> [n |-> nsent + 1, text |-> text]]}
<1> DEFINE reply == [n |-> nsent + 1, text |-> text]
           c0 == Sending(c, reply)
<1>1. conn_map \in [Addr -> Connection \cup {NoConn}] /\ nsent \in Nat
  BY DEF IInv, ConnInv, ConnectionsType
<1>2. reply \in Reply
  BY <1>1 DEF Reply
<1>3. /\ c0 \in Connection
      /\ c0.state = "RECV_ACK" /\ c0.login_state = c.login_state /\ c0.sendbuff = reply
  BY <1>2 DEF Sending, Connection
<1>4. conn_map' = [conn_map EXCEPT ![a] = c0] /\ nsent' = nsent + 1
  BY DEF send_msg
<1>5. c0 # NoConn
  BY <1>3, NoConnAssumption
<1>6. toClient' \subseteq toClient \cup {[to |-> a, msg |-> reply]}
  BY DEF send_msg, Transmit
<1> HIDE DEF c0
<1>7. QED
  BY <1>1, <1>3, <1>4, <1>5, <1>6

\* An ACK leaves all of a connection but its state as it was.
LEMMA SettleEffect ==
  ASSUME IInv, NEW a \in Addr, IsWaiting(a), settle(a, conn_map[a])
  PROVE  /\ \A b \in Addr : b # a => conn_map'[b] = conn_map[b]
         /\ conn_map'[a] # NoConn
         /\ conn_map'[a].login_state = conn_map[a].login_state
         /\ conn_map'[a].sendbuff = conn_map[a].sendbuff
         /\ UNCHANGED <<toClient, nsent>>
<1> DEFINE conn == conn_map[a]
           c0 == [conn EXCEPT !.state = conn.last_state]
<1>1. conn_map \in [Addr -> Connection \cup {NoConn}] /\ conn \in Connection
  BY DEF IInv, ConnInv, ConnectionsType, IsWaiting
<1>2. PICK w \in waitting_conn : w.addr = a
  BY DEF IInv, ConnInv, OneOutstanding
<1>3. conn.last_state = "RECV_TEXT"
  BY <1>2 DEF IInv, ConnInv, OneOutstanding
<1>4. /\ c0 \in Connection
      /\ c0.login_state = conn.login_state /\ c0.sendbuff = conn.sendbuff
  BY <1>1, <1>3 DEF Connection
<1>5. conn_map' = [conn_map EXCEPT ![a] = c0]
  BY DEF settle
<1>6. c0 # NoConn
  BY <1>4, NoConnAssumption
<1> HIDE DEF c0, conn
<1>7. conn_map'[a] = c0 /\ \A b \in Addr : b # a => conn_map'[b] = conn_map[b]
  BY <1>1, <1>5
<1>8. QED
  BY <1>4, <1>6, <1>7 DEF settle, conn

\* pollWaiting() puts on the network what its addresses are waited for.
LEMMA PollEffect ==
  ASSUME IInv, pollWaiting
  PROVE  /\ UNCHANGED <<conn_map, nsent>>
         /\ \A m \in toClient' :
              m \in toClient \/ (m.to \in Addr /\ IsWaiting(m.to) /\ m = Outstanding(m.to))
<1>1. PICK arriving \in SUBSET {[to |-> w.addr, msg |-> w.sendbuff] :
                                  w \in {v \in waitting_conn : isTimeout(v)}} :
        toClient' = toClient \cup arriving
  BY DEF pollWaiting, Transmit
<1>2. ASSUME NEW m \in arriving
      PROVE  m.to \in Addr /\ IsWaiting(m.to) /\ m = Outstanding(m.to)
  <2>1. PICK w \in waitting_conn : m = [to |-> w.addr, msg |-> w.sendbuff]
    BY <1>1
  <2>2. w.addr \in Addr /\ IsWaiting(w.addr) /\ w.sendbuff = conn_map[w.addr].sendbuff
    BY DEF IInv, ConnInv, ConnectionsType, Waiting, OneOutstanding
  <2>3. QED
    BY <2>1, <2>2 DEF Outstanding
<1>3. QED
  BY <1>1, <1>2 DEF pollWaiting

\* A client shows a reply and sends an ACK for it.
LEMMA ReceiveEffect ==
  ASSUME IInv, NEW a \in Addr, ClientRecv(a)
  PROVE  \E m \in toClient :
           /\ m \in Packet /\ m.to = a
           /\ toClient' \subseteq toClient
           /\ toServer' \subseteq toServer \cup {Ack(a, m.msg)}
           /\ shown' = shown \cup {m}
           /\ reshown' = (reshown \/ m \in shown)
           /\ duplicated' \in {duplicated, duplicated + 1}
           /\ UNCHANGED <<conn_map, waitting_conn, nsent, accountVars, pc, typed, crashed,
                          missettled, promised, boot>>
<1>1. PICK m \in toClient :
        /\ m.to = a
        /\ toClient' \in {toClient, toClient \ {m}}
        /\ duplicated' \in {duplicated, duplicated + 1}
        /\ ToServer(Ack(a, m.msg))
        /\ shown' = shown \cup {m}
        /\ reshown' = (reshown \/ m \in shown)
        /\ UNCHANGED <<conn_map, waitting_conn, nsent, accountVars, pc, typed, crashed,
                       missettled, promised, boot>>
  BY DEF ClientRecv
<1>2. m \in Packet
  BY DEF IInv, ConnInv, ConnectionsType
<1>3. QED
  BY <1>1, <1>2 DEF ToServer

(***************************************************************************)
(* LoginTold.  A connection is never logged out while the process runs; a  *)
(* later process sends numbers of its own, above boot.                     *)
(***************************************************************************)

\* A connection of an address that has none yet keeps nothing to send.
LEMMA FreshSendbuff ==
  ASSUME IInv, LoginInv, NEW a \in Addr
  PROVE  /\ ConnectionOf(a).sendbuff.n <= nsent
         /\ ConnectionOf(a).sendbuff.text = "LOGIN_SUCCESS" => ConnectionOf(a).login_state
BY DEF ConnectionOf, NewConnection, NoReply, LoginInv, IInv, ConnInv, ConnectionsType

LEMMA DatagramLogin ==
  ASSUME IInv, IInv', LoginInv, NEW d \in toServer, HandleDatagram(d)
  PROVE  LoginInv'
<1> DEFINE a == d.from
           conn == ConnectionOf(a)
<1>1. a \in Addr /\ pc = "recv"
  BY DEF IInv, Datagram, HandleDatagram
<1>2. conn \in Connection
  BY <1>1, ConnectionOfType DEF IInv
<1>3. UNCHANGED <<shown, boot>>
  BY DEF HandleDatagram
<1>4. nsent \in Nat /\ conn_map \in [Addr -> Connection \cup {NoConn}]
  BY DEF IInv, ConnInv, ConnectionsType
<1>5. LoggedIn(a) => conn.login_state
  BY DEF LoggedIn, ConnectionOf
<1>6. \A m \in shown \cup toClient : m \in Packet /\ m.to \in Addr /\ m.msg.n \in Nat
  BY DEF IInv, ConnInv, ConnectionsType, Packet, Reply
<1>7. boot \in Nat
  BY DEF IInv
<1> HIDE DEF a, conn
<1>8. CASE Gone
  BY <1>3, <1>8 DEF Gone, Stop, LoginInv
<1>9. CASE no_reply(a, conn)
  <2>1. conn # NoConn
    BY <1>2, NoConnAssumption
  <2>2. conn_map' = [conn_map EXCEPT ![a] = conn] /\ UNCHANGED <<toClient, nsent>>
    BY <1>9 DEF no_reply
  <2>3. conn_map'[a] = conn /\ \A b \in Addr : b # a => conn_map'[b] = conn_map[b]
    BY <1>1, <1>4, <2>2
  <2>4. \A b \in Addr : LoggedIn(b) => LoggedIn(b)'
    BY <1>5, <2>1, <2>3 DEF LoggedIn
  <2>5. conn.sendbuff.n <= nsent /\ (conn.sendbuff.text = "LOGIN_SUCCESS" => conn.login_state)
    BY <1>1, FreshSendbuff DEF conn
  <2>6. QED
    BY <1>1, <1>3, <1>6, <2>2, <2>3, <2>4, <2>5 DEF LoginInv
<1>10. CASE Settled(a, conn, d)
  <2>1. IsWaiting(a) /\ conn = conn_map[a]
    BY <1>1, <1>10, ConnectionOfType DEF IInv, Settled, conn
  <2>2. /\ \A b \in Addr : b # a => conn_map'[b] = conn_map[b]
        /\ conn_map'[a] # NoConn
        /\ conn_map'[a].login_state = conn_map[a].login_state
        /\ conn_map'[a].sendbuff = conn_map[a].sendbuff
        /\ UNCHANGED <<toClient, nsent>>
    BY <1>1, <1>10, <2>1, SettleEffect DEF Settled
  <2>3. \A b \in Addr : LoggedIn(b) => LoggedIn(b)'
    BY <2>2 DEF LoggedIn
  <2>4. conn_map[a] # NoConn
    BY <2>1 DEF IsWaiting
  <2>5. QED
    BY <1>1, <1>3, <1>6, <2>2, <2>3, <2>4 DEF LoginInv
<1>11. ASSUME Return, NEW c \in Connection, NEW text \in Text, Replied(a, conn, c, text)
       PROVE  LoginInv'
  <2> DEFINE reply == [n |-> nsent + 1, text |-> text]
             m0 == [to |-> a, msg |-> reply]
  <2>1. /\ \A b \in Addr : b # a => conn_map'[b] = conn_map[b]
        /\ conn_map'[a] # NoConn
        /\ conn_map'[a].login_state = c.login_state
        /\ conn_map'[a].sendbuff = reply
        /\ nsent' = nsent + 1
        /\ toClient' \subseteq toClient \cup {m0}
    BY <1>1, <1>11, ReplyEffect DEF Replied
  <2>2. (conn.login_state => c.login_state) /\ (text = "LOGIN_SUCCESS" => c.login_state)
    BY <1>11 DEF Replied
  <2>3. \A b \in Addr : LoggedIn(b) => LoggedIn(b)'
    BY <1>5, <2>1, <2>2 DEF LoggedIn
  <2>4. m0.to = a /\ m0.msg = reply /\ reply.n = nsent + 1 /\ reply.text = text
    OBVIOUS
  <2> HIDE DEF m0, reply
  <2>5. ASSUME NEW m \in shown' \cup toClient'
        PROVE  /\ m.msg.n <= nsent'
               /\ m.msg.text = "LOGIN_SUCCESS" /\ m.msg.n > boot' /\ pc' # "down" => LoggedIn(m.to)'
    <3>1. CASE m \in shown \cup toClient
      BY <1>1, <1>3, <1>4, <1>6, <2>1, <2>3, <3>1 DEF LoginInv
    <3>2. CASE m = m0
      BY <1>4, <2>1, <2>2, <2>4, <3>2 DEF LoggedIn
    <3>3. QED
      BY <1>3, <2>1, <3>1, <3>2
  <2>6. ASSUME NEW b \in Addr, conn_map'[b] # NoConn
        PROVE  /\ conn_map'[b].sendbuff.n <= nsent'
               /\ conn_map'[b].sendbuff.text = "LOGIN_SUCCESS" => conn_map'[b].login_state
    <3>1. CASE b = a
      BY <1>4, <2>1, <2>2, <2>4, <3>1
    <3>2. CASE b # a
      <4>1. conn_map[b] \in Connection /\ conn_map[b].sendbuff.n \in Nat
        BY <1>4, <2>1, <2>6, <3>2 DEF Connection, Reply
      <4>2. QED
        BY <1>4, <2>1, <2>6, <3>2, <4>1 DEF LoginInv
    <3>3. QED
      BY <3>1, <3>2
  <2>7. QED
    BY <2>5, <2>6 DEF LoginInv
<1>12. QED
  BY <1>8, <1>9, <1>10, <1>11, Outcome DEF a, conn

LEMMA LoginStep ==
  ASSUME IInv, IInv', NothingLeft, LoginInv, [Next]_vars
  PROVE  LoginInv'
<1>1. ASSUME UNCHANGED <<conn_map, nsent, shown, boot>>, toClient' \subseteq toClient,
             pc = "down" <=> pc' = "down"
      PROVE  LoginInv'
  BY <1>1 DEF LoginInv, LoggedIn
<1>2. CASE UNCHANGED vars
  BY <1>1, <1>2 DEF vars, connVars, historyVars
<1>3. CASE PollWaiting
  <2>1. /\ UNCHANGED <<conn_map, nsent, shown, boot>>
        /\ \A m \in toClient' :
              m \in toClient \/ (m.to \in Addr /\ IsWaiting(m.to) /\ m = Outstanding(m.to))
    BY <1>3, PollEffect DEF PollWaiting, historyVars
  <2>2. pc = "poll" /\ pc' = "recv"
    BY <1>3 DEF PollWaiting
  <2>3. ASSUME NEW b \in Addr, IsWaiting(b)
        PROVE  /\ Outstanding(b).msg.n <= nsent
               /\ Outstanding(b).msg.text = "LOGIN_SUCCESS" => LoggedIn(Outstanding(b).to)
    BY <2>3 DEF Outstanding, LoginInv, IsWaiting, LoggedIn
  <2>4. ASSUME NEW m \in shown \cup toClient'
        PROVE  /\ m.msg.n <= nsent
               /\ m.msg.text = "LOGIN_SUCCESS" /\ m.msg.n > boot => LoggedIn(m.to)
    BY <2>1, <2>2, <2>3, <2>4 DEF LoginInv
  <2>5. QED
    BY <2>1, <2>2, <2>4 DEF LoginInv, LoggedIn
<1>4. CASE RecvNothing \/ Timer
  BY <1>1, <1>4 DEF RecvNothing, Timer, Tick, connVars, historyVars
<1>5. ASSUME NEW d \in toServer, HandleDatagram(d)
      PROVE  LoginInv'
  BY <1>5, DatagramLogin
<1>6. CASE Crash
  BY <1>6 DEF Crash, Die, Stop, LoginInv
<1>7. CASE Restart
  <2>1. /\ UNCHANGED <<conn_map, nsent, toClient, shown>> /\ boot' = nsent
        /\ \A b \in Addr : conn_map[b] = NoConn
    BY <1>7 DEF Restart, connVars, NothingLeft
  <2>2. \A m \in shown \cup toClient : m.msg.n \in Nat /\ m.msg.n <= nsent /\ nsent \in Nat
    BY DEF LoginInv, IInv, ConnInv, ConnectionsType, Packet, Reply
  <2>3. \A m \in shown \cup toClient : ~(m.msg.n > nsent)
    BY <2>2
  <2>4. QED
    BY <2>1, <2>2, <2>3 DEF LoginInv
<1>8. ASSUME NEW a \in Addr, UserLine(a)
      PROVE  LoginInv'
  BY <1>1, <1>8 DEF UserLine, connVars, historyVars
<1>9. ASSUME NEW a \in Addr, ClientRecv(a)
      PROVE  LoginInv'
  <2>1. PICK m \in toClient :
          /\ toClient' \subseteq toClient /\ shown' = shown \cup {m}
          /\ UNCHANGED <<conn_map, nsent, pc, boot>>
    BY <1>9, ReceiveEffect
  <2>2. shown' \cup toClient' \subseteq shown \cup toClient
    BY <2>1
  <2>3. QED
    BY <2>1, <2>2 DEF LoginInv, LoggedIn
<1>10. QED
  BY <1>2, <1>3, <1>4, <1>5, <1>6, <1>7, <1>8, <1>9 DEF Next, Server, Client

\* A client that was shown LOGIN_SUCCESS of the running process is logged in.
THEOREM LoginToldCorrect == Spec => []LoginTold
<1>1. Init => LoginInv
  BY DEF Init, LoginInv
<1>2. IInv /\ IInv' /\ NothingLeft /\ LoginInv /\ [Next]_vars => LoginInv'
  BY LoginStep
<1>3. AccountInv => NothingLeft
  BY DEF AccountInv
<1>4. Spec => []LoginInv
  BY <1>1, <1>2, <1>3, Invariance, AccountInvariance, PTL DEF Spec
<1>5. LoginInv => LoginTold
  BY DEF LoginInv, LoginTold, LoggedIn
<1>6. QED
  BY <1>4, <1>5, PTL

(***************************************************************************)
(* AckMeansShown.  While there was no accident, the ACKs on their way are  *)
(* of the replies they will settle, because a client sends one ACK for     *)
(* each reply and the next reply waits for it.                             *)
(***************************************************************************)

\* Operations that leave connections, datagrams and what was shown alone.
LEMMA SameAcks ==
  ASSUME AckInv, UNCHANGED <<conn_map, shown, reshown, duplicated, crashed, missettled>>,
         pc = "down" => pc' = "down",
         \A d \in toServer' : d.args = <<"ACK">> => d \in toServer,
         toClient' \subseteq toClient
  PROVE  AckInv'
BY DEF AckInv, NoAccident, AcksAnswer, RepliesNew, IsWaiting, Outstanding

LEMMA DatagramAcks ==
  ASSUME IInv, AckInv, NEW d \in toServer, HandleDatagram(d)
  PROVE  AckInv'
<1> SUFFICES ASSUME NoAccident'
             PROVE  ~missettled' /\ (pc' # "down" => AcksAnswer' /\ RepliesNew')
  BY DEF AckInv
<1> DEFINE a == d.from
           conn == ConnectionOf(a)
<1>1. a \in Addr /\ pc = "recv" /\ d \in Datagram
  BY DEF IInv, Datagram, HandleDatagram
<1>2. toServer' = toServer \ {d} /\ UNCHANGED <<shown, reshown, duplicated, crashed>>
  BY DEF HandleDatagram, Take, NoAccident, IInv
<1>3. ~missettled /\ AcksAnswer /\ RepliesNew
  <2>1. NoAccident
    BY <1>2 DEF NoAccident
  <2>2. QED
    BY <1>1, <2>1 DEF AckInv
<1>4. conn_map \in [Addr -> Connection \cup {NoConn}]
  BY DEF IInv, ConnInv, ConnectionsType
<1>5. \A e \in toServer : e.from \in Addr
  BY DEF IInv, Datagram
<1>6. \A m \in toClient : m \in Packet /\ m.to \in Addr
  BY DEF IInv, ConnInv, ConnectionsType, Packet
<1>7. conn \in Connection
  BY <1>1, ConnectionOfType DEF IInv
<1> HIDE DEF a, conn
<1>8. CASE Gone /\ UNCHANGED missettled
  BY <1>3, <1>8 DEF Gone, Stop
<1>9. CASE no_reply(a, conn) /\ UNCHANGED missettled
  <2>1. conn_map' = [conn_map EXCEPT ![a] = conn] /\ UNCHANGED toClient
    BY <1>9 DEF no_reply
  <2>2. \A b \in Addr : IsWaiting(b) => IsWaiting(b)' /\ conn_map'[b] = conn_map[b]
    BY <1>1, <1>4, <2>1 DEF ConnectionOf, IsWaiting, conn
  <2>3. \A b \in Addr : IsWaiting(b) => Outstanding(b)' = Outstanding(b)
    BY <2>2 DEF Outstanding
  <2>4. AcksAnswer'
    BY <1>2, <1>3, <1>5, <2>2, <2>3 DEF AcksAnswer
  <2>5. ASSUME NEW m \in toClient'
        PROVE  m \in shown' \/ (IsWaiting(m.to)' /\ m = Outstanding(m.to)')
    <3>1. m \in toClient /\ m.to \in Addr
      BY <1>6, <2>1
    <3>2. QED
      BY <1>2, <1>3, <2>2, <2>3, <3>1 DEF RepliesNew
  <2>6. QED
    BY <1>3, <1>9, <2>4, <2>5 DEF RepliesNew
<1>10. CASE Settled(a, conn, d)
  <2>1. IsWaiting(a) /\ conn = conn_map[a]
    BY <1>1, <1>10, ConnectionOfType DEF IInv, Settled, conn
  <2>2. \A b \in Addr : b # a => conn_map'[b] = conn_map[b]
    BY <1>1, <1>10, <2>1, SettleEffect DEF Settled
  <2>3. UNCHANGED toClient
    BY <1>10 DEF Settled, settle
  <2>4. \A b \in Addr : b # a /\ IsWaiting(b) => IsWaiting(b)' /\ Outstanding(b)' = Outstanding(b)
    BY <2>2 DEF IsWaiting, Outstanding
  <2>5. d.args = <<"ACK">> /\ d.no = conn.sendbuff.n /\ Outstanding(a) \in shown
    BY <1>3, <1>10, <2>1 DEF AcksAnswer, Settled, a
  <2>6. ASSUME NEW e \in toServer', e.args = <<"ACK">>
        PROVE  e.from # a /\ e \in toServer
    <3>1. e \in Datagram /\ d \in Datagram /\ e # d
      BY <1>1, <1>2 DEF IInv
    <3>2. CASE e.from = a
      <4>1. e.from = d.from /\ e.args = d.args /\ e.no = d.no
        BY <1>2, <1>3, <2>1, <2>5, <2>6, <3>2 DEF AcksAnswer, a
      <4>2. QED
        BY <3>1, <4>1 DEF Datagram
    <3>3. QED
      BY <1>2, <3>2
  <2>7. AcksAnswer'
    BY <1>2, <1>3, <1>5, <2>2, <2>4, <2>6 DEF AcksAnswer
  <2>8. ASSUME NEW m \in toClient'
        PROVE  m \in shown' \/ (IsWaiting(m.to)' /\ m = Outstanding(m.to)')
    <3>1. m \in toClient /\ m.to \in Addr
      BY <1>6, <2>3
    <3>2. CASE m.to = a
      BY <1>2, <1>3, <2>5, <3>1, <3>2 DEF RepliesNew
    <3>3. CASE m.to # a
      BY <1>2, <1>3, <2>4, <3>1, <3>3 DEF RepliesNew
    <3>4. QED
      BY <3>2, <3>3
  <2>9. ~missettled'
    BY <1>3, <1>10, <2>5 DEF Settled
  <2>10. QED
    BY <2>7, <2>8, <2>9 DEF RepliesNew
<1>11. ASSUME UNCHANGED missettled,
              NEW c \in Connection, NEW text \in Text, Replied(a, conn, c, text)
       PROVE  ~missettled' /\ AcksAnswer' /\ RepliesNew'
  <2> DEFINE reply == [n |-> nsent + 1, text |-> text]
             m0 == [to |-> a, msg |-> reply]
  <2>1. ~IsWaiting(a)
    BY <1>1, <1>11, ConnectionOfType DEF IInv, Replied, conn
  <2>2. /\ \A b \in Addr : b # a => conn_map'[b] = conn_map[b]
        /\ conn_map'[a] # NoConn /\ conn_map'[a].state = "RECV_ACK"
        /\ conn_map'[a].sendbuff = reply
        /\ toClient' \subseteq toClient \cup {m0}
    BY <1>1, <1>11, ReplyEffect DEF Replied
  <2>3. m0.to = a
    OBVIOUS
  <2>4. IsWaiting(a)' /\ Outstanding(a)' = m0
    BY <2>2 DEF IsWaiting, Outstanding
  <2> HIDE DEF m0, reply
  <2>5. \A b \in Addr : IsWaiting(b) =>
          b # a /\ IsWaiting(b)' /\ conn_map'[b] = conn_map[b] /\ Outstanding(b)' = Outstanding(b)
    BY <2>1, <2>2 DEF IsWaiting, Outstanding
  <2>6. AcksAnswer'
    BY <1>2, <1>3, <1>5, <2>5 DEF AcksAnswer
  <2>7. ASSUME NEW m \in toClient'
        PROVE  m \in shown' \/ (IsWaiting(m.to)' /\ m = Outstanding(m.to)')
    <3>1. CASE m = m0
      BY <2>3, <2>4, <3>1
    <3>2. CASE m \in toClient
      BY <1>2, <1>3, <1>6, <2>5, <3>2 DEF RepliesNew
    <3>3. QED
      BY <2>2, <3>1, <3>2
  <2>8. QED
    BY <1>3, <1>11, <2>6, <2>7 DEF RepliesNew
<1>12. QED
  BY <1>8, <1>9, <1>10, <1>11, Outcome DEF a, conn

LEMMA AckStep ==
  ASSUME IInv, AckInv, [Next]_vars
  PROVE  AckInv'
<1>1. CASE UNCHANGED vars
  BY <1>1, SameAcks DEF vars, connVars, envVars, historyVars
<1>2. CASE PollWaiting
  <2>1. /\ UNCHANGED <<conn_map, toServer, shown, reshown, duplicated, crashed, missettled>>
        /\ \A m \in toClient' :
              m \in toClient \/ (m.to \in Addr /\ IsWaiting(m.to) /\ m = Outstanding(m.to))
        /\ pc # "down"
    BY <1>2, PollEffect DEF PollWaiting, envVars, historyVars
  <2>2. QED
    BY <2>1 DEF AckInv, NoAccident, AcksAnswer, RepliesNew, IsWaiting, Outstanding
<1>3. CASE RecvNothing \/ Timer
  BY <1>3, SameAcks DEF RecvNothing, Timer, Tick, connVars, envVars, historyVars
<1>4. ASSUME NEW d \in toServer, HandleDatagram(d)
      PROVE  AckInv'
  BY <1>4, DatagramAcks
<1>5. CASE Crash
  BY <1>5 DEF Crash, Die, Stop, envVars, AckInv, NoAccident
<1>6. CASE Restart
  BY <1>6 DEF Restart, AckInv, NoAccident, IInv
<1>7. ASSUME NEW a \in Addr, UserLine(a)
      PROVE  AckInv'
  <2>1. PICK line \in Input : ToServer(Command(a, line))
    BY <1>7 DEF UserLine
  <2>2. Command(a, line).args # <<"ACK">>
    <3>1. Head(line) # "ACK" /\ Head(<<"ACK">>) = "ACK"
      BY TypedAssumption
    <3>2. QED
      BY <3>1 DEF Command
  <2>3. QED
    BY <1>7, <2>1, <2>2, SameAcks DEF UserLine, ToServer, connVars, historyVars
<1>8. ASSUME NEW a \in Addr, ClientRecv(a)
      PROVE  AckInv'
  <2>1. PICK m \in toClient :
          /\ m \in Packet /\ m.to = a
          /\ toClient' \subseteq toClient
          /\ toServer' \subseteq toServer \cup {Ack(a, m.msg)}
          /\ shown' = shown \cup {m}
          /\ reshown' = (reshown \/ m \in shown)
          /\ duplicated' \in {duplicated, duplicated + 1}
          /\ UNCHANGED <<conn_map, pc, crashed, missettled>>
    BY <1>8, ReceiveEffect
  <2> SUFFICES ASSUME NoAccident'
               PROVE  ~missettled' /\ (pc' # "down" => AcksAnswer' /\ RepliesNew')
    BY DEF AckInv
  <2>2. NoAccident /\ m \notin shown
    <3>1. ~reshown' /\ duplicated' = 0 /\ crashed = 0
      BY <2>1 DEF NoAccident
    <3>2. ~reshown /\ m \notin shown
      BY <2>1, <3>1
    <3>3. duplicated = 0
      BY <2>1, <3>1 DEF IInv
    <3>4. QED
      BY <3>1, <3>2, <3>3 DEF NoAccident
  <2>3. ~missettled'
    BY <2>1, <2>2 DEF AckInv
  <2>4. ASSUME pc' # "down"
        PROVE  AcksAnswer' /\ RepliesNew'
    <3>1. AcksAnswer /\ RepliesNew
      BY <2>1, <2>2, <2>4 DEF AckInv
    <3>2. IsWaiting(a) /\ m = Outstanding(a)
      BY <2>1, <2>2, <3>1 DEF RepliesNew
    <3>3. /\ Ack(a, m.msg).from = a
          /\ Ack(a, m.msg).no = conn_map[a].sendbuff.n
      BY <3>2 DEF Ack, Outstanding
    <3>4. \A b : (IsWaiting(b)' <=> IsWaiting(b)) /\ Outstanding(b)' = Outstanding(b)
      BY <2>1 DEF IsWaiting, Outstanding
    <3>5. ASSUME NEW e \in toServer', e.args = <<"ACK">>
          PROVE  /\ IsWaiting(e.from)' /\ e.no = conn_map'[e.from].sendbuff.n
                 /\ Outstanding(e.from)' \in shown'
      <4>1. CASE e \in toServer
        BY <2>1, <3>1, <3>4, <3>5, <4>1 DEF AcksAnswer
      <4>2. CASE e = Ack(a, m.msg)
        BY <2>1, <3>2, <3>3, <3>4, <4>2
      <4>3. QED
        BY <2>1, <4>1, <4>2
    <3>6. AcksAnswer'
      BY <3>5 DEF AcksAnswer
    <3>7. RepliesNew'
      BY <2>1, <3>1, <3>4 DEF RepliesNew
    <3>8. QED
      BY <3>6, <3>7
  <2>5. QED
    BY <2>3, <2>4
<1>9. QED
  BY <1>1, <1>2, <1>3, <1>4, <1>5, <1>6, <1>7, <1>8 DEF Next, Server, Client

\* A reply is settled by the ACK of another one only after an accident: so far
\* as none happened, what was settled has been displayed.
THEOREM AckMeansShownCorrect == Spec => []AckMeansShown
<1>1. Init => AckInv
  <2>1. ASSUME Init
        PROVE  \A d \in toServer : d.args # <<"ACK">>
    <3>1. \A d \in toServer : d.args = <<"RT">>
      BY <2>1 DEF Init, Command
    <3>2. <<"RT">> # <<"ACK">>
      OBVIOUS
    <3>3. QED
      BY <3>1, <3>2
  <2>2. QED
    BY <2>1 DEF Init, AckInv, AcksAnswer, RepliesNew
<1>2. IInv /\ AckInv /\ [Next]_vars => AckInv'
  BY AckStep
<1>3. Spec => []AckInv
  BY <1>1, <1>2, Invariance, PTL DEF Spec
<1>4. IInv /\ AckInv => AckMeansShown
  BY DEF AckInv, NoAccident, AckMeansShown, IInv
<1>5. QED
  BY <1>3, <1>4, Invariance, PTL
=============================================================================
