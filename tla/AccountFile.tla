---------------------------- MODULE AccountFile ----------------------------
(***************************************************************************)
(* The text of the file "accounts" (src/src/account_manager.cpp): one line *)
(* "id password" for each account, appended when it is registered, written *)
(* anew when one is removed, and read, when a process starts, as pairs of  *)
(* words that take no notice of lines.                                     *)
(*                                                                         *)
(* A write may fail and the process may stop, before or after any part of  *)
(* what is written has reached the file.  A line that was cut short is     *)
(* continued by the next one, so that words are glued together or pairs    *)
(* begin one word late.                                                    *)
(*                                                                         *)
(* A text is a sequence of names (users' and passwords'), pieces of names, *)
(* and SEP for a blank or an end of line; a word is what lies between two  *)
(* SEPs, as a sequence.                                                    *)
(***************************************************************************)
EXTENDS Names, SequencesExt

CONSTANTS
  NoPwd,      \* "this name has no record", in AccountManager
  Garbled,    \* a password no user has, in AccountManager
  SEP, PART,  \* a separator, and a piece of a name
  MaxWrite,   \* bound: accounts registered and removed in a behaviour
  MaxCrash    \* bound: processes that stop

ASSUME AtomAssumption ==
  SEP # PART /\ {SEP, PART, NoPwd, Garbled} \cap (Uid \cup Pwd) = {} /\ NoPwd # Garbled

VARIABLES
  text,           \* the file
  account_table,  \* the map in memory: word -> word
  alive,          \* is there a process
  written,        \* number of registrations and removals
  crashed,        \* number of processes that stopped
  promised,       \* history: [id, pwd, clean] answered with REG_SUCCESS, and not removed;
                  \* clean if the file had no cut line in it then
  whole,          \* history: the file up to the first line that was cut short
  half            \* history: a rewrite of the file was cut short

fileVars == <<text, account_table, alive, written, crashed, promised, whole, half>>

Empty == [word \in {} |-> word]

Line(id, pwd) == id \o <<SEP>> \o pwd \o <<SEP>>

\* What a write of these atoms may leave when it is cut short.
Cut(atoms) ==
  {SubSeq(atoms, 1, n) : n \in 0..(Len(atoms) - 1)}
    \cup {Append(SubSeq(atoms, 1, n - 1), PART) : n \in {i \in 1..Len(atoms) : atoms[i] # SEP}}

\* What is read of the first n atoms: a word begins after a SEP, and goes on.
Words(t) ==
  LET read[n \in 0..Len(t)] ==
        IF n = 0 THEN << >>
        ELSE IF t[n] = SEP THEN read[n - 1]
        ELSE IF n = 1 \/ t[n - 1] = SEP THEN Append(read[n - 1], <<t[n]>>)
        ELSE [read[n - 1] EXCEPT ![Len(read[n - 1])] = Append(@, t[n])]
  IN  read[Len(t)]

\* load(): words in pairs; map::insert() keeps the first of two pairs for a name.
load(t) ==
  LET w == Words(t)
      Pairs(id) == {i \in 1..(Len(w) \div 2) : w[2 * i - 1] = id}
  IN  [id \in {w[2 * i - 1] : i \in 1..(Len(w) \div 2)} |-> w[2 * Min(Pairs(id))]]

Lines(order, table) == FlattenSeq([k \in DOMAIN order |-> Line(order[k], table[order[k]])])

\* A file of any size, of lines no process was stopped in.
Init ==
  /\ \E ids \in SUBSET Uid, pwd \in Pwd : \E order \in SetToSeqs(ids) :
       /\ IsFiniteSet(ids)
       /\ text = Lines([k \in DOMAIN order |-> <<order[k]>>], [w \in {<<id>> : id \in ids} |-> <<pwd>>])
       /\ promised = {[id |-> id, pwd |-> pwd, clean |-> TRUE] : id \in ids}
  /\ account_table = load(text)
  /\ alive = TRUE
  /\ written = 0 /\ crashed = 0 /\ whole = text /\ half = FALSE

-----------------------------------------------------------------------------
isExist(id) == <<id>> \in DOMAIN account_table

with(table, id, pwd) ==
  [word \in DOMAIN table \cup {id} |-> IF word = id THEN pwd ELSE table[word]]

bounded == alive /\ written < MaxWrite /\ written' = written + 1

Stop ==
  /\ crashed < MaxCrash
  /\ alive' = FALSE
  /\ account_table' = Empty
  /\ UNCHANGED <<crashed, promised>>

\* Something is appended behind c, which is what is left of a write that failed.
grow(c) == whole' = IF whole = text /\ c = << >> THEN text' ELSE whole

\* Definitions named <operation>_<bug> are mutated forms of the operation below
\* them, each with a bug one might make there; no specification uses them.

insert_truncates(id, pwd) ==
  /\ bounded /\ ~isExist(id)
  /\ text' = Line(<<id>>, <<pwd>>)
  /\ account_table' = with(account_table, <<id>>, <<pwd>>)
  /\ promised' = promised \cup {[id |-> id, pwd |-> pwd, clean |-> whole = text]}
  /\ grow(<< >>)
  /\ UNCHANGED <<alive, crashed, half>>

insert_fileFirst(id, pwd) ==
  LET line == Line(<<id>>, <<pwd>>)
  IN  /\ bounded /\ ~isExist(id)
      /\ UNCHANGED <<alive, crashed, half>>
      /\ \/ /\ text' = text \o line /\ grow(<< >>)
            /\ account_table' = with(account_table, <<id>>, <<pwd>>)
            /\ promised' = promised \cup {[id |-> id, pwd |-> pwd, clean |-> whole = text]}
         \/ \E c \in Cut(line) :
              text' = text \o c \o line /\ grow(c) /\ UNCHANGED <<account_table, promised>>

\* insert(): the table, then the line.  store() tries a write that failed once
\* more, in close(); if that goes through it still reports the failure (ERR_IO),
\* and if not an exception ends the process.
insert(id, pwd) ==
  LET line == Line(<<id>>, <<pwd>>)
      inserted == account_table' = with(account_table, <<id>>, <<pwd>>)
  IN  /\ bounded /\ ~isExist(id)
      /\ UNCHANGED half
      /\ \/ /\ text' = text \o line
            /\ inserted /\ grow(<< >>)
            /\ promised' = promised \cup {[id |-> id, pwd |-> pwd, clean |-> whole = text]}
            /\ UNCHANGED <<alive, crashed>>
         \/ \E c \in Cut(line) :
              /\ text' = text \o c \o line
              /\ inserted /\ grow(c)
              /\ UNCHANGED <<alive, crashed, promised>>
         \/ \E c \in Cut(line) : text' = text \o c /\ UNCHANGED whole /\ Stop

\* remove(): the table, then all its lines into the emptied file, in the order of
\* the map.
remove(id) ==
  LET rest == [w \in DOMAIN account_table \ {<<id>>} |-> account_table[w]]
      removed == account_table' = rest /\ promised' = {r \in promised : r.id # id}
  IN  /\ bounded /\ isExist(id)
      /\ \E order \in SetToSeqs(DOMAIN rest) :
           \/ /\ text' = Lines(order, rest)
              /\ removed /\ whole' = text'
              /\ UNCHANGED <<alive, crashed, half>>
           \/ \E k \in DOMAIN order :
                LET line == Line(order[k], rest[order[k]])
                    before == Lines(SubSeq(order, 1, k - 1), rest)
                IN  \E c \in Cut(line) :
                      \/ /\ text' = before \o c \o line
                         /\ removed
                         /\ whole' = IF c = << >> THEN text' ELSE before
                         /\ half' = (half \/ k < Len(order) \/ c # << >>)
                         /\ UNCHANGED <<alive, crashed>>
                      \/ text' = before \o c /\ whole' = before /\ half' = TRUE /\ Stop

Crash == alive /\ Stop /\ UNCHANGED <<text, written, whole, half>>

Restart ==
  /\ ~alive
  /\ alive' = TRUE
  /\ crashed' = crashed + 1
  /\ account_table' = load(text)
  /\ UNCHANGED <<text, written, promised, whole, half>>

Next ==
  \/ \E id \in Uid, pwd \in Pwd : insert(id, pwd)
  \/ \E id \in Uid : remove(id)
  \/ Crash \/ Restart

Spec == Init /\ [][Next]_fileVars

-----------------------------------------------------------------------------
\* The entries of a table that are of users, as module AccountManager sees them.
Users(table) ==
  [id \in Uid |->
     IF <<id>> \notin DOMAIN table THEN NoPwd
     ELSE IF \E pwd \in Pwd : table[<<id>>] = <<pwd>> THEN table[<<id>>][1] ELSE Garbled]

AM == INSTANCE AccountManager WITH
  account_table <- Users(account_table), account_file <- Users(load(whole)), torn <- whole # text

\* Whatever fails and wherever the process stops, the text of the file does what
\* module AccountManager says of it: what is inserted behind whole lines is read by
\* the next load, nothing else is, what is removed takes nothing with it, and a
\* line that was cut spoils what is behind it, but nothing before.
ImplementsAccountManager == [][AM!AccountsNext]_AM!accountVars

\* Lines cut short later, and all that is then misread, take away no account that
\* was promised when the file was whole: it is loaded by every later process with
\* the password it was made with, unless a rewrite of the whole file was cut short.
PromisedEarlyStays ==
  ~half =>
    LET file == load(text)
    IN  \A r \in promised : r.clean =>
          /\ <<r.id>> \in DOMAIN file /\ file[<<r.id>>] = <<r.pwd>>
          /\ alive => isExist(r.id) /\ account_table[<<r.id>>] = <<r.pwd>>
=============================================================================
