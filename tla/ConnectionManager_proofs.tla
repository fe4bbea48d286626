---------------------- MODULE ConnectionManager_proofs ----------------------
(***************************************************************************)
(* What each operation of the connection layer keeps, for every set of     *)
(* addresses and names and every TIMEOUT.                                  *)
(***************************************************************************)
EXTENDS ConnectionManager, TLAPS

\* The inductive invariant of the connection layer: OneOutstanding, and replies
\* on the list have a number (0 is "none" in StopAndWait).
ConnInv ==
  /\ ConnectionsType
  /\ OneOutstanding
  /\ \A w \in waitting_conn : w.sendbuff.n # 0

\* getConnection() after addConnection() yields a connection, and one that
\* reads commands exactly if its address has nothing outstanding.
LEMMA ConnectionOfType ==
  ASSUME ConnInv, NEW a \in Addr
  PROVE  /\ ConnectionOf(a) \in Connection
         /\ ConnectionOf(a).state = "RECV_TEXT" => ~IsWaiting(a)
         /\ ConnectionOf(a).state = "RECV_ACK" =>
              /\ IsWaiting(a)
              /\ ConnectionOf(a) = conn_map[a]
              /\ ConnectionOf(a).last_state = "RECV_TEXT"
<1>1. conn_map[a] \in Connection \cup {NoConn}
  BY DEF ConnInv, ConnectionsType
<1>2. NewConnection \in Connection /\ NewConnection.state = "RECV_TEXT"
  BY DEF NewConnection, Connection, NoReply, Reply, Text
<1>3. ConnectionOf(a) \in Connection
  BY <1>1, <1>2 DEF ConnectionOf
<1>4. ConnectionOf(a).state = "RECV_TEXT" => ~IsWaiting(a)
  BY DEF ConnectionOf, IsWaiting
<1>5. ASSUME ConnectionOf(a).state = "RECV_ACK"
      PROVE  /\ IsWaiting(a)
             /\ ConnectionOf(a) = conn_map[a]
             /\ ConnectionOf(a).last_state = "RECV_TEXT"
  <2>1. IsWaiting(a) /\ ConnectionOf(a) = conn_map[a]
    BY <1>2, <1>5 DEF ConnectionOf, IsWaiting
  <2>2. PICK w \in waitting_conn : w.addr = a
    BY <2>1 DEF ConnInv, OneOutstanding
  <2>3. QED
    BY <2>1, <2>2 DEF ConnInv, OneOutstanding
<1>6. QED
  BY <1>3, <1>4, <1>5

\* send_msg() on a connection that reads commands keeps the invariant.
LEMMA SendMsgInv ==
  ASSUME ConnInv, NEW a \in Addr, ~IsWaiting(a),
         NEW conn \in Connection, conn.state = "RECV_TEXT",
         NEW text \in Text, send_msg(a, conn, text)
  PROVE  ConnInv'
<1> DEFINE reply == [n |-> nsent + 1, text |-> text]
           w0 == [addr |-> a, sendbuff |-> reply, age |-> 0]
           c0 == Sending(conn, reply)
<1>1. reply \in Reply /\ reply.n # 0
  BY DEF Reply, ConnInv, ConnectionsType
<1>2. /\ c0 \in Connection
      /\ c0.state = "RECV_ACK" /\ c0.last_state = "RECV_TEXT" /\ c0.sendbuff = reply
  BY <1>1 DEF Sending, Connection
<1>3. c0 # NoConn
  BY <1>2, NoConnAssumption
<1>4. conn_map' = [conn_map EXCEPT ![a] = c0] /\ waitting_conn' = waitting_conn \cup {w0}
  BY DEF send_msg, addWaiting
<1>5. \A w \in waitting_conn : w.addr # a /\ w.addr \in Addr
  BY DEF ConnInv, OneOutstanding, ConnectionsType, Waiting
<1>6. w0 \in Waiting /\ w0.addr = a /\ w0.sendbuff = reply
  BY <1>1, TimeoutAssumption DEF Waiting
<1> HIDE DEF w0, c0, reply
<1>7. conn_map \in [Addr -> Connection \cup {NoConn}]
  BY DEF ConnInv, ConnectionsType
<1>8. /\ conn_map'[a] = c0
      /\ \A b \in Addr : b # a => conn_map'[b] = conn_map[b]
  BY <1>4, <1>7
<1>9. ConnectionsType'
  <2>1. toClient' \subseteq Packet
    BY <1>1 DEF send_msg, Transmit, Packet, ConnInv, ConnectionsType, reply
  <2>2. QED
    BY <1>2, <1>4, <1>6, <2>1 DEF send_msg, ConnInv, ConnectionsType
<1>10. \A b \in Addr : IsWaiting(b)' <=> \E w \in waitting_conn' : w.addr = b
  <2> SUFFICES ASSUME NEW b \in Addr
               PROVE  IsWaiting(b)' <=> \E w \in waitting_conn' : w.addr = b
    OBVIOUS
  <2>1. CASE b = a
    BY <1>2, <1>3, <1>4, <1>6, <1>8, <2>1 DEF IsWaiting
  <2>2. CASE b # a
    <3>1. IsWaiting(b)' <=> IsWaiting(b)
      BY <1>8, <2>2 DEF IsWaiting
    <3>2. QED
      BY <1>4, <1>6, <2>2, <3>1 DEF ConnInv, OneOutstanding
  <2>3. QED
    BY <2>1, <2>2
<1>11. \A w \in waitting_conn' :
          /\ w.sendbuff = conn_map'[w.addr].sendbuff
          /\ conn_map'[w.addr].last_state = "RECV_TEXT"
          /\ w.sendbuff.n # 0
  <2> SUFFICES ASSUME NEW w \in waitting_conn'
               PROVE  /\ w.sendbuff = conn_map'[w.addr].sendbuff
                      /\ conn_map'[w.addr].last_state = "RECV_TEXT"
                      /\ w.sendbuff.n # 0
    OBVIOUS
  <2>1. CASE w = w0
    BY <1>1, <1>2, <1>6, <1>8, <2>1
  <2>2. CASE w \in waitting_conn
    BY <1>5, <1>8, <2>2 DEF ConnInv, OneOutstanding
  <2>3. QED
    BY <1>4, <2>1, <2>2
<1>12. \A v, w \in waitting_conn' : v.addr = w.addr => v = w
  BY <1>4, <1>5, <1>6 DEF ConnInv, OneOutstanding
<1>13. QED
  BY <1>9, <1>10, <1>11, <1>12 DEF ConnInv, OneOutstanding

\* A handler that sends nothing keeps it: at most it adds a fresh connection.
LEMMA NoReplyInv ==
  ASSUME ConnInv, NEW a \in Addr, no_reply(a, ConnectionOf(a))
  PROVE  ConnInv'
<1> DEFINE c0 == ConnectionOf(a)
<1>1. c0 \in Connection
  BY ConnectionOfType
<1>2. c0 # NoConn
  BY <1>1, NoConnAssumption
<1>3. conn_map \in [Addr -> Connection \cup {NoConn}]
  BY DEF ConnInv, ConnectionsType
<1>4. conn_map' = [conn_map EXCEPT ![a] = c0]
  BY DEF no_reply
<1>5. /\ waitting_conn' = waitting_conn
      /\ toClient' = toClient /\ nsent' = nsent
  BY DEF no_reply
<1>6. \A b \in Addr : IsWaiting(b)' <=> IsWaiting(b)
  BY <1>2, <1>3, <1>4 DEF ConnectionOf, NewConnection, IsWaiting
<1>7. \A b \in Addr : IsWaiting(b) => conn_map'[b] = conn_map[b]
  BY <1>3, <1>4 DEF ConnectionOf, IsWaiting
<1>8. \A w \in waitting_conn : w.addr \in Addr /\ IsWaiting(w.addr)
  BY DEF ConnInv, OneOutstanding, ConnectionsType, Waiting
<1>9. ConnectionsType'
  BY <1>1, <1>4, <1>5 DEF ConnInv, ConnectionsType
<1> HIDE DEF c0
<1>10. OneOutstanding'
  BY <1>5, <1>6, <1>7, <1>8 DEF ConnInv, OneOutstanding
<1>11. QED
  BY <1>5, <1>9, <1>10 DEF ConnInv

\* state_recv_ack() on an ACK keeps it: state and list are changed together.
LEMMA SettleInv ==
  ASSUME ConnInv, NEW a \in Addr, IsWaiting(a), settle(a, conn_map[a])
  PROVE  ConnInv'
<1> DEFINE c0 == [conn_map[a] EXCEPT !.state = conn_map[a].last_state]
<1>1. conn_map[a] \in Connection /\ conn_map[a].last_state = "RECV_TEXT"
  <2>1. conn_map[a] \in Connection \cup {NoConn}
    BY DEF ConnInv, ConnectionsType
  <2>2. PICK w \in waitting_conn : w.addr = a
    BY DEF ConnInv, OneOutstanding
  <2>3. QED
    BY <2>1, <2>2 DEF ConnInv, OneOutstanding, IsWaiting
<1>2. c0 \in Connection /\ c0.state = "RECV_TEXT"
  BY <1>1 DEF Connection
<1>3. /\ conn_map' = [conn_map EXCEPT ![a] = c0]
      /\ waitting_conn' = {w \in waitting_conn : w.addr # a}
      /\ toClient' = toClient /\ nsent' = nsent
  BY DEF settle, removeWaiting
<1> HIDE DEF c0
<1>4. conn_map \in [Addr -> Connection \cup {NoConn}]
  BY DEF ConnInv, ConnectionsType
<1>5. /\ conn_map'[a] = c0
      /\ \A b \in Addr : b # a => conn_map'[b] = conn_map[b]
  BY <1>3, <1>4
<1>6. ConnectionsType'
  BY <1>2, <1>3 DEF ConnInv, ConnectionsType
<1>7. ~IsWaiting(a)'
  BY <1>2, <1>5 DEF IsWaiting
<1>8. \A b \in Addr : b # a => (IsWaiting(b)' <=> IsWaiting(b))
  BY <1>5 DEF IsWaiting
<1>9. \A w \in waitting_conn : w.addr \in Addr
  BY DEF ConnInv, ConnectionsType, Waiting
<1>10. OneOutstanding'
  BY <1>3, <1>5, <1>7, <1>8, <1>9 DEF ConnInv, OneOutstanding
<1>11. QED
  BY <1>3, <1>6, <1>10 DEF ConnInv

\* Resending and the passing of time change timers only: an operation that maps
\* the copies on the list one to one, each to the same address and sendbuff,
\* keeps the invariant.
LEMMA TimersInv ==
  ASSUME ConnInv, UNCHANGED <<conn_map, nsent>>, toClient' \subseteq Packet,
         NEW f, f \in [waitting_conn -> Waiting],
         waitting_conn' = {f[w] : w \in waitting_conn},
         \A w \in waitting_conn : f[w].addr = w.addr /\ f[w].sendbuff = w.sendbuff
  PROVE  ConnInv'
<1>1. ConnectionsType'
  BY DEF ConnInv, ConnectionsType
<1>2. \A b \in Addr : IsWaiting(b)' <=> IsWaiting(b)
  BY DEF IsWaiting
<1>3. ASSUME NEW b \in Addr
      PROVE  (\E v \in waitting_conn' : v.addr = b) <=> (\E w \in waitting_conn : w.addr = b)
  OBVIOUS
<1>4. \A v \in waitting_conn' :
         /\ v.sendbuff = conn_map'[v.addr].sendbuff
         /\ conn_map'[v.addr].last_state = "RECV_TEXT"
         /\ v.sendbuff.n # 0
  BY DEF ConnInv, OneOutstanding
<1>5. \A u, v \in waitting_conn' : u.addr = v.addr => u = v
  <2> SUFFICES ASSUME NEW u \in waitting_conn', NEW v \in waitting_conn', u.addr = v.addr
               PROVE  u = v
    OBVIOUS
  <2>1. PICK x \in waitting_conn : u = f[x]
    OBVIOUS
  <2>2. PICK y \in waitting_conn : v = f[y]
    OBVIOUS
  <2>3. QED
    BY <2>1, <2>2 DEF ConnInv, OneOutstanding
<1>6. OneOutstanding'
  BY <1>2, <1>3, <1>4, <1>5 DEF ConnInv, OneOutstanding
<1>7. QED
  BY <1>1, <1>4, <1>6 DEF ConnInv

\* pollWaiting() keeps the invariant.
LEMMA PollInv ==
  ASSUME ConnInv, pollWaiting
  PROVE  ConnInv'
<1> DEFINE late == {w \in waitting_conn : isTimeout(w)}
           f == [w \in waitting_conn |-> IF w \in late THEN [w EXCEPT !.age = 0] ELSE w]
<1>1. waitting_conn \subseteq Waiting
  BY DEF ConnInv, ConnectionsType
<1>2. \A w \in Waiting : [w EXCEPT !.age = 0] \in Waiting
  BY TimeoutAssumption DEF Waiting
<1>3. f \in [waitting_conn -> Waiting]
  BY <1>1, <1>2
<1>4. waitting_conn' = {f[w] : w \in waitting_conn}
  BY DEF pollWaiting
<1>5. \A w \in waitting_conn : f[w].addr = w.addr /\ f[w].sendbuff = w.sendbuff
  BY <1>1 DEF Waiting
<1>6. toClient' \subseteq Packet
  BY <1>1 DEF pollWaiting, Transmit, Packet, Waiting, ConnInv, ConnectionsType
<1>7. UNCHANGED <<conn_map, nsent>>
  BY DEF pollWaiting
<1> HIDE DEF f
<1>8. QED
  BY <1>3, <1>4, <1>5, <1>6, <1>7, TimersInv

\* So does a tick of the clock.
LEMMA TickInv ==
  ASSUME ConnInv, Tick
  PROVE  ConnInv'
<1> DEFINE next(w) == IF w.age > TIMEOUT THEN w.age ELSE w.age + 1
           f == [w \in waitting_conn |-> [w EXCEPT !.age = next(w)]]
<1>1. waitting_conn \subseteq Waiting
  BY DEF ConnInv, ConnectionsType
<1>2. \A w \in Waiting : [w EXCEPT !.age = next(w)] \in Waiting
  BY TimeoutAssumption DEF Waiting
<1>3. f \in [waitting_conn -> Waiting]
  BY <1>1, <1>2
<1>4. waitting_conn' = {f[w] : w \in waitting_conn}
  BY DEF Tick
<1>5. \A w \in waitting_conn : f[w].addr = w.addr /\ f[w].sendbuff = w.sendbuff
  BY <1>1 DEF Waiting
<1>6. UNCHANGED <<conn_map, nsent>> /\ toClient' \subseteq Packet
  BY DEF Tick, ConnInv, ConnectionsType
<1> HIDE DEF f
<1>7. QED
  BY <1>3, <1>4, <1>5, <1>6, TimersInv

\* A process that is gone has no connection and nothing outstanding.
LEMMA ForgetInv ==
  ASSUME ConnInv, conn_map' = [a \in Addr |-> NoConn], waitting_conn' = {},
         UNCHANGED <<toClient, nsent>>
  PROVE  ConnInv'
<1>1. \A a \in Addr : ~IsWaiting(a)'
  BY DEF IsWaiting
<1>2. QED
  BY <1>1 DEF ConnInv, ConnectionsType, OneOutstanding

\* A client takes replies out of the network; nothing else changes.
LEMMA ReceiveInv ==
  ASSUME ConnInv, UNCHANGED <<conn_map, waitting_conn, nsent>>, toClient' \subseteq toClient
  PROVE  ConnInv'
BY DEF ConnInv, ConnectionsType, OneOutstanding, IsWaiting
=============================================================================
