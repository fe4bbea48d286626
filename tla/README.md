# NPP_HW2 in TLA+

A verification project for a bulletin-board system over UDP: TLA+ modules for
its server, clients and disk, TLC runs on small instances, and theorems checked
by TLAPS. `PROJECT.json` maps every modelling definition to the lines it stands
for.

## The program

The repository holds two generations of the same system.

* The **rewrite**, `src/src/`, is what the Makefile builds: a reliable
  (acknowledged and resent) reply channel, registration, login and two listings.
* The **legacy** program, `src/*.cpp`, has the full command set (articles,
  responses, blacklists, yell and tell) and no acknowledgements.

Both servers are one thread around `select()`: a datagram is handled to its end
before the next one is received. Concurrency comes from the clients, the
network, the clock and the process being stopped at any moment.

| component | state | operations | interacts with | what makes it correct |
|---|---|---|---|---|
| server loop and handlers, `src/src/server.cpp`, `BBSServer.cpp` | (in the next two) | poll, receive; R, L, E, RT for guests; RT, SU, SA for users; ACK | calls connections and accounts, receives from clients | what was told to a client is true; the process survives or loses nothing promised |
| connections, `src/src/connection.cpp` | `conn_map`, `waitting_conn`, per connection `state`, `last_state`, `sendbuff`, login, timer | `send_msg`, `addWaiting`, `removeWaiting`, `pollWaiting`, `setLogin` | sends replies | one reply outstanding per address, resent until acknowledged, nothing else resent |
| accounts, `src/src/account_manager.cpp` | `account_table`, file `accounts` | `load`, `insert`, `remove`, `isExist`, `isCorrect` | called by R and L | confirmed registrations survive, passwords never change |
| client, `src/src/client.cpp` | none that matters | first RT, send a line, show and ACK what comes | both directions of UDP | shows what the server believes it has shown |
| server and accounts, `src/server.cpp` | `accounts_map`, `clihandlers_map` | R, L, dispatch | owns the handlers | as above |
| client handler, `src/clienthandler.cpp` | per address `pos_st`, `pos`, `state`, `cur_aid`, `article_ptr` | RT V SU SA Y T E A RP AB DB O, and the text of an article | reads and writes the article base; yell and tell send to other handlers' addresses | the four notions of "where the user is" agree; no dangling article |
| article base, `src/article.cpp` | folders, `articles.cfg` | number, store, load, respond, blacklist | the disk | numbers are not reused, articles are not lost or altered, listings work |
| client, `src/client.cpp` | `state`, `sendbuff` | lines, editor | both directions of UDP | client and server agree on which datagram is an article, and what was written is what is sent |

What is hard: acknowledgements without numbers; two copies of a connection; late,
lost and repeated datagrams; multi-step disk writes that can stop or fail half
way; a client and a server that each switch into "the next datagram is special"
on their own. The list `hazards` in `PROJECT.json` has every such place, at its
line.

## Modules

| module | models |
|---|---|
| `Names` | the constants shared by all: addresses, names, passwords |
| `AccountManager` | the account table and the file, as the table a load would read of its whole lines; whether a line of it was cut short |
| `AccountFile` | the text of that file: lines appended, rewritten, cut short, and read as pairs of words; implements `AccountManager` |
| `ConnectionManager` | connections, their copies on the waiting list, timers, replies in flight; `OneOutstanding` |
| `StopAndWait` | abstract specification: what the connection layer promises |
| `BBSServer` | the rewrite's server process, its clients, the network, crashes; extends the two managers |
| `ConnectionManager_proofs` | lemmas: the operations of the connection layer |
| `BBSServer_proofs` | theorems: types, outstanding replies, refinement of `StopAndWait`, accounts, what clients have been shown |
| `AccountFile_proofs` | theorems: refinement of `AccountManager`, early promises; lemmas: what is read of a text |
| `Board` | abstract specification: what the legacy server promises of its articles |
| `ArticleBase` | the legacy article folders and `articles.cfg`, and what is on disk when an operation stops or fails |
| `Clienthandler` | the legacy server: guests, handlers, all operations, crashes |
| `AddArticle` | the legacy client (its lines, its editor, its buffer) and the network around `Clienthandler` |
| `ArticleBase_proofs` | lemmas: the operations on folders |
| `Clienthandler_proofs` | theorems: types, sessions, listings, articles kept |
| `Drafts_proofs` | theorem: numbers of drafts |
| `Board_proofs` | theorems: refinement of `Board`, what was told is stored |
| `AddArticle_proofs` | theorems: the adding of an article, client and server |
| `MCBBSServer`, `MCAccountFile`, `MCClienthandler`, `MCAddArticle` | instances for TLC |

**How state corresponds to code.** Names are the source's. In `BBSServer` one
turn of `main()`'s loop is `PollWaiting` followed by `RecvNothing` or
`HandleDatagram`; a handler is one operator over the address, its connection and
the parsed command, and includes every call it makes. `waitting_conn` holds a
record per copy (address, buffer, own timer), since that is all that is used of
a copy. A thrown exception that `handle_guest()`/`handle_user()` catch is a
return; one that they do not catch, a signal or a kill is `Die`, or, inside an
append to the file of accounts, `Stop` with `InsertStopped`. In
`Clienthandler` a step is one datagram or a crash. The text of an article is
itself a token sequence, because the server cannot tell it from a command.

**Abstractions.** A payload is its tokens; replies are told apart by kind. A
reply carries a number, and a datagram the number of what it answers, that are
not on the wire: no guard of the program reads them. Datagrams in flight are a
set, so that identical copies coincide; duplication is therefore explicit (a
datagram may be taken and stay, up to `MaxDuplicate`). In
`AddArticle` a datagram that is lost is one that stays in flight and is never
taken. Ages of timers past
`TIMEOUT + 1` ticks are not told apart. Blacklists and responses are sets of
names. Screens, dates and titles are left out, and so are lengths, but for one:
a listing of the articles may be too long for a datagram (`ARTICLES_LONG`), and
then no copy of it ever leaves.

*Writes.* In `ArticleBase` a line is one write: it is in its file or not, but an
info or context file may be cut short, files of one operation may be there and
others not, and the code may go on after a failed write (where it looks at
`bad()`, or at nothing) or end. `AccountFile` goes below that: its text is a
sequence of names, separators and pieces of names, and a write may be cut
between any two of them. What is glued together of two pieces is taken to be no
user's name. `AccountManager` has of this what the server's users can notice: a
cut append is there (`InsertCut`, `InsertStopped`), and from then on (`torn`) the
next process finds what is before the cut and anything at all for the other
names (`Load`), with passwords nobody has (`Garbled`) among it. A stream that failed throws again when it is closed in the handler
of the first exception; that exception nobody catches, which is why a failed
append can end the rewrite's server and an info file that ends early the legacy
one.

*Missing arguments.* Where the code reads `args[1]` or `args[2]` past the end,
any value the argument may have stands for what is there, or the process dies.

*The editor.* A key adds a word to `sendbuff` at `cnt`, or takes `cnt` back by
one, also below 0. The words of the command sent last are what `sendbuff` holds
before.

## Runs

| run | instance | shows |
|---|---|---|
| `two_clients` | 2 clients (symmetric), 1 line, 1 duplicate | `OneOutstanding`, `ImplementsStopAndWait` |
| `commands` | 1 client, 2 names, every command with full and missing arguments, appends that fail or are cut, 1 restart | `TypeOK`, `SessionHasAccount`, `RegistrationDurable`. `AckMeansShown`: a reply is settled unseen only through a second ACK of an older reply or a restart. `LoginTold`: who has seen LOGIN_SUCCESS of the running process is logged in |
| `liveness` | 1 client, 2 lines, `FairSpec`, listings of any length | `EveryReplySettled`: every reply that fits in a datagram |
| `account_file` | 3 names, 2 passwords (both symmetric), 3 registrations or removals, 1 death | `ImplementsAccountManager`: the text does what `AccountManager` says, whatever fails. `PromisedEarlyStays`: what was promised before the first cut is never lost to it |
| `logout`, `register_answer` | 1 client | violations, see below |
| `one_session` | 1 address, every command, also too short, failing writes, 1 crash anywhere | `TypeOK`, `SessionShape`, `EnteredLoadable`, `ListingSafe` |
| `board` | 2 addresses (symmetric), 2 users, 2 article numbers, 1 crash anywhere | `ToldIsStored`, `DraftsFresh`, `ArticlesKept`; `ImplementsBoard`: handlers, drafts and folders implement `Board` |
| `black_succeed`, `registration_stored` | as above, with failing writes; with accounts only | violations, see below |
| `add_article` | 1 client, 4 lines, 4 ways through the editor, 2 texts, 1 article number, 1 crash | `EditedIsStored`, `EditedNotExecuted` |
| `two_authors` | 2 clients and 2 users (both symmetric), 3 lines and a text each, 2 texts, 2 article numbers, no crash | `EditedIsStored`: each article has the text its own author wrote for it, whichever of the two is sent, numbered or stored first |

**Bounds.** `MaxCommand`, `MaxDuplicate`, `MaxCrash`, `MaxAid` and `MaxWrite`
bound lines, duplicates, process deaths, article numbers, and registrations and
removals; each occurs in a guard. Connections of different addresses share
nothing but the list, which two addresses exercise. `AckMeansShown` excepts what
happens after a duplicate, and so `commands` has none: what has to be looked at
are two lines whose replies are lost, late and resent. `LoginTold` needs a
restart; with duplicates it is proved. `TIMEOUT = 0` makes resending possible
after every tick, and `liveness` uses 1 so that the timer's two sides are seen.
Two drafts and one crash inside the writing of `articles.cfg` are what number
reuse takes. Four lines reach the end of adding an article with one line to
spare. `two_authors` has the constraint `InSequence`: what is typed too early or
is overtaken stays an exception of `EditedIsStored` for good, so that nothing is
missed behind it; and the five datagrams a client may send are its RT, three
lines (L, SA, A) and a text, so that both authors finish. Its process does not
die; `add_article` has that for one author, and the theorem for any number. A
write that is cut, one that continues it and one after that is what it takes for
`load()` to misread an account: three writes. `account_file` needs one death
only, inside the write that is cut or after any other: `PromisedEarlyStays` asks
in every state what would be loaded of the text, so that a second restart would
show no more. `ImplementsBoard` is about writes that do not fail, and `board`
has `DiskFails` false; a process may still stop inside any of them. Deadlock is
not checked where the bounds stop all activity.

**Fairness** (`liveness` only). The loop never blocks (the `select()` timeout is
0), so polling and receiving are weakly fair, and so is the clock. Of the network
it is assumed that what is sent again and again gets through again and again, in
both directions (strong fairness of delivered resends, of acknowledgements that
arrive, and of their handling). The code cannot guarantee that, but
retransmission is pointless without it. No user is assumed to type anything.

**Observed disagreements** (violation runs):

* `logout`: logging out is documented (`src/src/udpserver.h:87-89`) and on the
  menu; the rewrite has no such command.
* `register_answer`: `src/src/udpserver.h:39-44` promises an answer to every
  REGISTER; a taken name and a failed append get none (and a failed append may end
  the server).
* `black_succeed`: `appendBlacklist()` (`src/article.cpp:212`) tests `bad()`
  where a failed open sets `failbit`; the user is told of success.
* `registration_stored`: `src/udpserver.h:39-42` says a registration is stored in
  the database; the legacy server keeps it in memory only.

The passing properties state their exceptions, and each exception is a
circumstance in which the code does lose the property:

* `AckMeansShown`: a reply that was shown twice, or a restart.
* `DraftsFresh`: `articles.cfg` cut short (the next process numbers from 0).
* `ListingSafe`: a process stopped, or a write failed, inside `Article::store()`.
* `ToldIsStored`: a process stopped while a blacklist was being rewritten.
* `RegistrationDurable`: a registration answered when a line of the file had been
  cut short already. Its own line continues the cut one, and the next process finds
  it under another name or not at all; the process that answered still knows it.
* `PromisedEarlyStays`: the same, and a rewrite of the whole file that was cut
  (`remove()`, which nothing calls).
* `EveryReplySettled`: a listing that is too long for a datagram; its address
  waits for an acknowledgement for good.
* `EditedIsStored`: the editor left with nothing in it (an empty datagram, which
  the server never sees, so that the next command becomes the article); more
  taken back than was written (what is sent then is what the buffer held
  before, the words of the command A); lines typed while the editor was due; loss
  or reordering of what a client sent. What is stored in part or not at all, by a
  process that was stopped or a write that failed, is seen in the article itself.
* `EditedNotExecuted`: the last two, A where it is not offered, a restart.

Met on the way and not checked by a run: the page of an article offers
`[R]esponse`, and `src/bbs.h` gives `R` for it, but `OP_LIST` has `RP`, and the
client refuses `R` with one argument; `[U]pload` and `[D]ownload` are decoded and
no case of the switch handles them.

## Proofs

TLAPS proves of the rewrite, for every set of clients, names, passwords and
lines, every `TIMEOUT` and every bound:

* `TypeCorrect`: `Spec => []TypeOK` (BBSServer)
* `OutstandingCorrect`: `Spec => []OneOutstanding`
* `Refinement`: `Spec => ImplementsStopAndWait`
* `SessionAccounts`: `Spec => []SessionHasAccount`
* `DurableRegistrations`: `Spec => []RegistrationDurable`
* `LoginToldCorrect`: `Spec => []LoginTold`
* `AckMeansShownCorrect`: `Spec => []AckMeansShown`

of the text of its file of accounts, for every set of names and passwords, any
number of accounts, removals and deaths, and writes cut anywhere:

* `PromisedEarlyStaysCorrect`: `Spec => []PromisedEarlyStays`
* `AccountManagerImplemented`: `Spec => ImplementsAccountManager`

of the legacy server, for every set of addresses, names, datagrams and texts,
any number of articles and crashes, whether writes fail or not:

* `TypeCorrect`: `Spec => []TypeOK` (Clienthandler)
* `SessionsCorrect`: `Spec => []SessionShape`
* `EnteredCorrect`: `Spec => []EnteredLoadable`
* `ListingCorrect`: `Spec => []ListingSafe`
* `ArticlesKeptCorrect`: `Spec => ArticlesKept`
* `DraftsCorrect`: `Spec => []DraftsFresh`

and where no write fails (`~DiskFails`; `black_succeed` shows that what is told
is false otherwise):

* `BoardImplemented`: `Spec => ImplementsBoard`
* `ToldIsStoredCorrect`: `Spec => []ToldIsStored`

and of the legacy client, its editor, the network and the legacy server
together, for every number of clients, lines, keys and articles:

* `EditedStoredCorrect`: `AddSpec => []EditedIsStored`
* `EditedCommandCorrect`: `AddSpec => []EditedNotExecuted`

The assumptions are those of the modules, and TLC evaluates them on every run:

* `AtomAssumption`: the separator, the piece of a name, "no record" and the
  password nobody has are no names and no passwords;
* the constants for what is missing (`NoConn`, `NoPwd`, `NoFile`, `NoFolder`,
  `NoNumber`, `NULL`, `FREED`, `NoHandler`) are not among what they are told
  apart from; `TIMEOUT` and `MaxAid` are numbers;
* commands with enough tokens name users and passwords (names without an account
  included), in what is typed and in texts taken for commands;
* `TypedAssumption`: no line typed at the rewrite's client is its ACK byte;
* `ArticleAssumption`: `Board`'s "no article" and "stub" are no articles;
* `KeysAssumption`, `SentAssumption`: what is pressed and what is sent are
  sequences, and whatever a client may send is among `Body`, the texts an article
  may have. The program imposes no such limit; `Body` stands for all of them.

*Argument, rewrite.* `ConnectionManager_proofs` shows that each operation of the
connection layer preserves `ConnInv`, the types with `OneOutstanding`. That
conjunction is what is inductive: a new reply is posted only from `RECV_TEXT`,
so the list has no copy for that address (the first part of `OneOutstanding`),
and the saved `last_state` is `RECV_TEXT`; on an ACK the connection returns there
only because `last_state` is known to be so. `BBSServer_proofs` adds the types of
the rest (`IInv`), shows for each operation which step of `StopAndWait` it is,
and goes through the handlers and the actions of `Next` once (`StepInv`) for both
the invariant and the refinement. Resending is a `Resend` because a copy's buffer
equals its connection's, again by `OneOutstanding`. Its last part adds
`AccountInv`: the two account properties; that a dead process has no connections
(`NothingLeft`), without which a restart could find a login whose account had been
in memory only; and that a promise was made with a reply that has been sent
(`Numbered`), so that a fresh process has made none, and of the older ones only
those have to be in its table that were made while the file was whole. That
`Load` finds these, though `torn`, is what `AccountFile` shows of the text.

The same module strengthens `LoginTold` to the replies that are still to be shown,
those in flight and those on the waiting list (`LoginInv`): whichever of them is
a LOGIN_SUCCESS of the running process has its login. For `AckMeansShown` it
relates both directions of the network, as long as none of the named accidents
has happened (`AckInv`): an ACK on its way answers the reply its sender's
connection waits for, and that reply was shown (`AcksAnswer`); a reply on its way
was shown already or is the one its address is waited for (`RepliesNew`).

*Argument, file of accounts.* `AccountFile_proofs` first says what the recursive
functions of the model compute, one position at a time: that they exist
(`Computed`), and by induction over the positions (`Upwards`, itself a proof by
least counterexample) that a text that ends with a separator keeps its words
when something follows it (`WordsConcat`), and that a line is read as its two
words (`LineRead`). From this come the lemmas the steps use: what is loaded of
such a text is loaded of everything that continues it (`LoadKeeps`), one more
line is one more account (`LoadLine`), and a table written in any order is
loaded again (`LoadWritten`). The invariant `FileInv` says that the text begins with
`whole`, which is whole lines, and that a running process has in its table at least
what they say, misread pairs or not (`Loaded`): `map::insert()` keeps the first pair
for a name. Until a *rewrite* is cut every early promise is in `whole` (`Clean`).
The mapping reads `whole` as `account_file` and is torn when the text goes on behind
it. Both theorems come of one step lemma (`FileStep`).

*Argument, legacy.* `ArticleBase_proofs` shows of each operation on the folders,
complete, failed and stopped, that it keeps folders, publishers and texts
(`Kept`) and makes no folder but the one it stores. `Clienthandler_proofs` says
in `Sound` which of the values a handler may have are ever reached (idle in a
menu, on the page of an article, in the editor), and that `moveTo`, `back` and
the operations lead from sound to sound. The invariant `IInv` is the types, `Sessions` (every
handler is sound, and what it has entered can be loaded) and `ListingSafe`. They
need one another: that adding a response or a blacklist entry keeps the
folders is known only for an article that is there, which the handler's place
guarantees; and that place stays right for *other* handlers because of `Kept`.
`StepInv` shows for every step that it keeps `IInv` and is `Kept`, which is
`ArticlesKept`. `Drafts_proofs` strengthens `DraftsFresh` to `Numbers`: no folder
and no draft has a number above the one in `articles.cfg`, and a living process
counts from there. Most steps are `Calm` (they draw no number and make no
folder); drawing, storing and restarting are taken one by one.

`Board_proofs` shows first which step of `Board` each operation of
`ArticleBase` is, whole and stopped (a folder that cannot be loaded is a stub,
which only takes its number), and then which one each operation of a handler is;
several are steps that `Board` does not see. `IInv`
and `Numbers` are what the mapping needs: that a handler on a page has entered
an article `Board` knows, and that storing does not meet a folder. `ToldIsStored`
is proved of the same steps, strengthened by the existence of the folder and of
its response file (`ToldOnDisk`), since an answer could otherwise be lost with
the file.

*Argument, adding an article.* Nothing in a datagram says whether it is a line or
a text, so that the proof has to count. `Wire` numbers what each client sends
and has the server handle the numbers in order as long as there is no `gap`.
`InStep` (for `EditedNotExecuted`): before every edited text in flight, or due
from a client, goes an A (`Asked`), and if the server has handled exactly that
far it waits for a text (`Expected`). `InOrder` (for `EditedIsStored`) is the
converse: after every A, in flight or handled, comes an edited text or nothing
yet (`Followed`), an edited text never finds the server on the list of articles
(`Answered`), and of every draft and every stored text it is known which A of which
client the number was drawn for (`DrawKnown`, `TextKnown`); the text that is stored
under it is that client's next datagram. For that no two drafts may have a number in
common, or the text of one would count as the other's. `DraftsFresh` has an exception,
`articles.cfg` cut short, and is not needed: within one process `MAXARTICLEID` only
counts up (`Apart`), whatever the file says, and no draft outlives its process.
Each needs the
other direction of what one datagram does to the handler of its sender
(`Commanded`: only an A on the list leads into the editor; `Texted`: any text
leads out of it, stored under the number drawn for it, in part, or not) and that it does nothing to the other handlers (`OneHandler`).
That what the editor sends is what its screen shows (`EditorSendsScreen`) is an
induction over the keys, carried out as a proof by least counterexample
(`Least`), since the library's induction theorems take an operator; it needs
also that the recursive function `keystrokes` exists (`StrokesExist`).

*Only model-checked:* liveness (`EveryReplySettled`), since fairness and ENABLED
are outside of what the prover does.

## Not modelled, and why

Formatting, and lengths other than that of a listing: `memcpy` into `sendbuff`
without a check needs bytes to be stated, and its outcome is undefined. `removeConnection()`,
`createBlacklist()`, `send_file()`, attachments, `handle_echo`, `user_yell`,
`user_tell` (empty or without a caller); `dataset.h`, `server_database.h`,
`guesthandler.*` and `test/` (unused). The counts in an info file (of
blacklisted names and attached files) are always 0 in what the program writes.
That a connection is never removed from `conn_map` is growth without bound,
which a finite instance cannot show. Who may use RP, AB and DB on the page of an
article is stated nowhere.

## Plan

1. *Done.* The rewrite's core (`ConnectionManager`, `AccountManager`,
   `BBSServer`, `StopAndWait`), with its first theorems; the legacy handler,
   article base and the adding of articles, model-checked.
2. *Done.* `AccountFile` and its refinement of `AccountManager`; `Board` and its
   refinement by `Clienthandler`; failing writes that the code does not notice;
   missing arguments; replies too long to send; the client's editor.
3. *Done.* Proofs for the legacy system: `TypeOK`, `SessionShape`,
   `EnteredLoadable`, `ListingSafe`, `ArticlesKept` and `DraftsFresh`.
4. *Done.* Proofs of `ToldIsStored` where no write fails, and of
   `ImplementsBoard`, from the same lemmas, with `IInv` and `Numbers` as
   invariants; of `LoginTold` (strengthened to replies in flight and waiting) and
   `AckMeansShown`; of `EditedIsStored` and `EditedNotExecuted`, with the editor.
5. *Done.* Proofs for `AccountFile`: what `load()` reads of a text that is whole
   lines, and of one whose first lines are whole; from that its refinement of
   `AccountManager` and `PromisedEarlyStays`.
6. *Done.* Cut lines in `AccountManager`, and with them the exact extent of
   `RegistrationDurable`; `AccountFile` as its refinement without exception;
   `EditedIsStored` of an article, its author and the A it was drawn for, with two
   authors at once.
