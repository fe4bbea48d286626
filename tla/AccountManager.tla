--------------------------- MODULE AccountManager ---------------------------
(***************************************************************************)
(* The account store of the server (src/src/account_manager.cpp): a table  *)
(* in memory, and the file "accounts" it is loaded from when the server    *)
(* starts and to which every registration is appended.                     *)
(*                                                                         *)
(* The file is seen here as the table a later load reads from it.  The     *)
(* process may be stopped, or the disk fail, inside an append, and leave   *)
(* part of the line; the next line is then written behind that part, and   *)
(* what a load makes of the words from there on is left open.  The text of *)
(* the file is the subject of module AccountFile, which implements this    *)
(* one.                                                                    *)
(***************************************************************************)
EXTENDS Names

CONSTANTS
  NoPwd,    \* "this name has no record"
  Garbled   \* any password no user has, read from a line that is not as it was meant

ASSUME NoPwdAssumption == NoPwd \notin Pwd /\ Garbled \notin Pwd \cup {NoPwd}

VARIABLES
  account_table,   \* the map <id, password> in memory
  account_file,    \* what load() puts in that map, whatever is appended to the file
  torn             \* a line of the file was cut short: there may be more behind it

accountVars == <<account_table, account_file, torn>>

Table == [Uid -> Pwd \cup {NoPwd, Garbled}]

NoAccounts == [u \in Uid |-> NoPwd]

AccountsType == account_table \in Table /\ account_file \in Table /\ torn \in BOOLEAN

isExist(id) == account_table[id] # NoPwd

isCorrect(id, pwd) == isExist(id) /\ account_table[id] = pwd

\* Definitions named <operation>_<bug> are mutated forms of the operation below
\* them, each with a bug one might make there; no specification uses them.

Insert_memoryOnly(id, pwd) ==
  /\ account_table' = [account_table EXCEPT ![id] = pwd]
  /\ UNCHANGED <<account_file, torn>>

\* insert() of a new name: first the table, then the line appended by
\* update()/store().  Behind a line that was cut short it is in the file, but
\* there is no saying whether a load finds it.
Insert(id, pwd) ==
  /\ account_table' = [account_table EXCEPT ![id] = pwd]
  /\ account_file' = IF torn THEN account_file ELSE [account_file EXCEPT ![id] = pwd]
  /\ UNCHANGED torn

\* An append that failed leaves part of the line in the file.  store() calls
\* close(), which tries once more: it writes the line behind that part,
InsertCut(id, pwd) ==
  /\ account_table' = [account_table EXCEPT ![id] = pwd]
  /\ torn' = TRUE
  /\ UNCHANGED account_file

\* or it throws, and the process is gone (as when it is stopped inside an append).
InsertStopped ==
  /\ account_table' = NoAccounts
  /\ torn' = TRUE
  /\ UNCHANGED account_file

\* remove() of a name that is there: the whole file is written anew.  (No handler
\* calls it.)
Remove(id) ==
  /\ account_table' = [account_table EXCEPT ![id] = NoPwd]
  /\ account_file' = account_table'
  /\ torn' = FALSE

\* If that fails, only some of the lines have been written, and the last of them
\* perhaps in part; the process goes on or not, as above.
RemoveCut(id) ==
  LET rest == [account_table EXCEPT ![id] = NoPwd]
  IN  /\ account_table' \in {rest, NoAccounts}
      /\ account_file' \in {t \in Table : \A u \in Uid : t[u] \in {NoPwd, rest[u]}}
      /\ torn' \in BOOLEAN

\* The constructor of a fresh process: load().
Load ==
  /\ \/ ~torn /\ account_table' = account_file
     \/ /\ torn
        /\ account_table' \in {t \in Table :
             \A u \in Uid : account_file[u] # NoPwd => t[u] = account_file[u]}
  /\ UNCHANGED <<account_file, torn>>

\* The process is gone.
Forget ==
  /\ account_table' = NoAccounts
  /\ UNCHANGED <<account_file, torn>>

\* The steps of the store, for whoever implements it.
AccountsNext ==
  \/ Load \/ Forget \/ InsertStopped
  \/ \E id \in Uid, pwd \in Pwd : ~isExist(id) /\ (Insert(id, pwd) \/ InsertCut(id, pwd))
  \/ \E id \in Uid : isExist(id) /\ (Remove(id) \/ RemoveCut(id))

=============================================================================
