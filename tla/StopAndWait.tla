---------------------------- MODULE StopAndWait ----------------------------
(***************************************************************************)
(* What the connection layer promises, without buffers, lists or states:   *)
(* replies are numbered as they are posted, each address has at most one   *)
(* outstanding reply, a new one is posted only when the address has none,  *)
(* and only outstanding replies are put on the wire again.                 *)
(***************************************************************************)
EXTENDS Naturals

CONSTANT Addr

VARIABLES
  posted,    \* number of replies posted
  pending,   \* the outstanding reply of each address, 0 for none
  wire       \* the replies of which a copy is in flight

swVars == <<posted, pending, wire>>

Init ==
  /\ posted = 0
  /\ pending = [a \in Addr |-> 0]
  /\ wire = {}

\* A reply is produced for an idle address; its first copy may be lost.
Post(a) ==
  /\ pending[a] = 0
  /\ posted' = posted + 1
  /\ pending' = [pending EXCEPT ![a] = posted + 1]
  /\ wire' \in {wire, wire \cup {posted + 1}}

\* Outstanding replies are sent again.
Resend ==
  /\ wire \subseteq wire'
  /\ \A n \in wire' \ wire : \E a \in Addr : n = pending[a] /\ n # 0
  /\ UNCHANGED <<posted, pending>>

\* A copy reaches its client.
Receive(n) ==
  /\ wire' = wire \ {n}
  /\ UNCHANGED <<posted, pending>>

\* The reply of an address is acknowledged.
Settle(a) ==
  /\ pending[a] # 0
  /\ pending' = [pending EXCEPT ![a] = 0]
  /\ UNCHANGED <<posted, wire>>

\* The server is gone and forgets what was outstanding.
Reset ==
  /\ pending' = [a \in Addr |-> 0]
  /\ UNCHANGED <<posted, wire>>

Next ==
  \/ \E a \in Addr : Post(a) \/ Settle(a)
  \/ \E n \in wire : Receive(n)
  \/ Resend
  \/ Reset

Spec == Init /\ [][Next]_swVars
=============================================================================
