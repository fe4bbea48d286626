------------------------------- MODULE Names -------------------------------
(***************************************************************************)
(* The names the components of the server share.                           *)
(***************************************************************************)
CONSTANTS
  Addr,     \* client addresses (SIN: ip and port)
  Uid,      \* user names
  Pwd       \* passwords
=============================================================================
