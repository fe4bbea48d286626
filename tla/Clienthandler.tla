--------------------------- MODULE Clienthandler ---------------------------
(***************************************************************************)
(* The legacy server (src/server.cpp, src/clienthandler.cpp): guests       *)
(* register and log in, and each logged-in address has a Clienthandler, a  *)
(* state machine that walks through menus, articles and the article        *)
(* editor.  The server is one thread; a datagram is handled to its end     *)
(* before the next one is received.                                        *)
(*                                                                         *)
(* Any datagram may come from any address at any time: what a network that *)
(* loses, repeats and reorders makes of what users type.                   *)
(***************************************************************************)
EXTENDS ArticleBase, Sequences

CONSTANTS
  Input,         \* datagrams, as the token sequences split() makes of them; what
                 \* comes for a draft is taken from Body
  AccountsFile,  \* the file "accounts": uid -> pwd, or NoPwd
  NoPwd,         \* "this name has no account"
  NoHandler,     \* "this address is not logged in"
  NULL, FREED,   \* article_ptr with no article: none yet, and deleted
  MaxCrash       \* bound: times the process dies

VARIABLES
  accounts_map,     \* accounts in memory
  clihandlers_map,  \* the handler of each address, or NoHandler
  alive,            \* is there a server process
  sent,             \* the replies of the last step: [to, text]
  crashed,          \* number of times the process died
  told,             \* history: <<kind, aid, uid>> acknowledged and not taken back (an
                    \* account has no aid)
  torn              \* history: what a process left half done

sessionVars == <<accounts_map, clihandlers_map, alive>>
historyVars == <<crashed, told, torn>>
vars == <<articleVars, sessionVars, sent, historyVars>>

Position == {"MAINMENU", "USER_LIST", "ARTICLE_LIST", "ARTICLE_EDIT", "ARTICLE"}

NoAid == 0   \* cur_aid "-1"

Draft == [aid: Aid, pid: Uid]

Handler ==
  [id: Uid, state: {"RECV_TEXT", "RECV_ARTICLE"}, pos_st: Seq(Position), pos: Position,
   cur_aid: Aid \cup {NoAid}, article_ptr: Draft \cup {NULL, FREED}]

ASSUME PointerAssumption == {NULL, FREED} \cap Draft = {} /\ NULL # FREED
ASSUME NoHandlerAssumption == NoHandler \notin Handler \cup Uid

\* Names in what arrives are names of users, also where there is no account.
NamesUsers(line) ==
  /\ Head(line) \in {"R", "L"} /\ Len(line) = 3 => line[2] \in Uid /\ line[3] \in Pwd
  /\ Head(line) \in {"T", "AB", "DB"} /\ 2 <= Len(line) => line[2] \in Uid

ASSUME InputAssumption == \A line \in Input : NamesUsers(line)

ASSUME AccountsAssumption == AccountsFile \in [Uid -> Pwd \cup {NoPwd}] /\ NoPwd \notin Pwd

NewHandler(id) ==
  [id |-> id, state |-> "RECV_TEXT", pos_st |-> <<"MAINMENU">>, pos |-> "MAINMENU",
   cur_aid |-> NoAid, article_ptr |-> NULL]

Init ==
  /\ \E n \in 0..MaxAid, pid \in Uid, body \in Body :
       /\ folder = [aid \in Aid |-> IF aid <= n THEN Complete(pid, body) ELSE NoFolder]
       /\ articles_cfg = n /\ MAXARTICLEID = n
  /\ accounts_map = AccountsFile
  /\ clihandlers_map = [a \in Addr |-> NoHandler]
  /\ alive = TRUE
  /\ sent = {} /\ crashed = 0 /\ told = {} /\ torn = {}

-----------------------------------------------------------------------------
isLogined(a) == clihandlers_map[a] # NoHandler

top(st) == st[Len(st)]

moveTo(h, new_pos) == [h EXCEPT !.pos_st = Append(@, new_pos), !.pos = new_pos]

\* (As in ArticleBase, <operation>_<bug> is a mutated form.)
back_keepsPos(h) ==
  IF Len(h.pos_st) = 1 THEN h
  ELSE [h EXCEPT !.pos_st = SubSeq(h.pos_st, 1, Len(h.pos_st) - 1)]

back(h) ==
  IF Len(h.pos_st) = 1 THEN h
  ELSE LET st == SubSeq(h.pos_st, 1, Len(h.pos_st) - 1)
       IN  [h EXCEPT !.pos_st = st, !.pos = top(st)]

exit_article(h) == [h EXCEPT !.cur_aid = NoAid]

enter_article(h, aid) == [h EXCEPT !.cur_aid = aid]

send_msg(a, text) == sent' = {[to |-> a, text |-> text]}

\* A reply to an address, and what becomes of its handler.
becomes(a, h) == clihandlers_map' = [clihandlers_map EXCEPT ![a] = h]
answer(a, h, text) == becomes(a, h) /\ send_msg(a, text)
silent(a, h) == becomes(a, h) /\ sent' = {}

no_disk == UNCHANGED articleVars
no_history == UNCHANGED <<told, torn>>
lives == UNCHANGED <<accounts_map, alive>>

\* The process is gone: killed, or an exception reached main() or got past it.
gone ==
  /\ alive' = FALSE
  /\ clihandlers_map' = [a \in Addr |-> NoHandler]
  /\ accounts_map' = [u \in Uid |-> NoPwd]
  /\ MAXARTICLEID' = 0
  /\ sent' = {}
  /\ UNCHANGED told

\* It is gone and the disk is as it was.
Die == gone /\ UNCHANGED <<diskVars, torn>>

(***************************************************************************)
(* func_display_article_list() throws ios_base::failure at a folder        *)
(* without info; nothing in the program catches that.                      *)
(***************************************************************************)
func_display_article_list(a, h) ==
  \/ /\ \A aid \in Aid : exists(aid) => headerReadable(aid)
     /\ answer(a, h, "ARTICLE_LIST") /\ no_disk /\ no_history /\ lives
  \/ /\ \E aid \in Aid : exists(aid) /\ ~headerReadable(aid)
     /\ Die

op_return(a, h) ==
  LET b == back(IF h.pos = "ARTICLE" THEN exit_article(h) ELSE h)
  IN  \/ /\ b.pos = "MAINMENU"
         /\ answer(a, b, "MAIN_MENU") /\ no_disk /\ no_history /\ lives
      \/ b.pos = "ARTICLE_LIST" /\ func_display_article_list(a, b)

op_visit(a, h) == answer(a, h, "MAIN_MENU") /\ no_disk /\ no_history /\ lives

op_showuser(a, h) ==
  /\ h.pos = "MAINMENU"
  /\ answer(a, moveTo(h, "USER_LIST"), "USER_LIST") /\ no_disk /\ no_history /\ lives

op_showarticle(a, h) ==
  h.pos = "MAINMENU" /\ func_display_article_list(a, moveTo(h, "ARTICLE_LIST"))

\* func_yell() and func_tell(): whoever is at the main menu, or of these those
\* with that id.
listeners == {a \in Addr : isLogined(a) /\ clihandlers_map[a].pos = "MAINMENU"}

op_yell(a, h) ==
  /\ h.pos = "MAINMENU"
  /\ sent' = [to: listeners, text: {"YELL"}]
  /\ UNCHANGED clihandlers_map /\ no_disk /\ no_history /\ lives

op_tell(a, h, id) ==
  /\ h.pos = "MAINMENU"
  /\ sent' = [to: {b \in listeners : clihandlers_map[b].id = id}, text: {"TELL"}]
  /\ UNCHANGED clihandlers_map /\ no_disk /\ no_history /\ lives

readable_headerOnly(aid, id) == headerReadable(aid)

\* func_display_article(): the viewer is looked up in the blacklist before the
\* responses are read.
readable(aid, id) ==
  loadable(aid) /\ (id \in folder[aid].blacklist \/ folder[aid].response # NoFile)

op_enter_article(a, h, aid) ==
  /\ h.pos = "ARTICLE_LIST"
  /\ \/ /\ readable(aid, h.id)
        /\ answer(a, enter_article(moveTo(h, "ARTICLE"), aid),
                  IF h.id \in folder[aid].blacklist THEN "DENIED" ELSE "ARTICLE")
     \/ /\ ~readable(aid, h.id)
        /\ answer(a, exit_article(h), "ARTICLE_ENTER_IDERROR")
  /\ no_disk /\ no_history /\ lives

\* Add article: a number is drawn, and the next datagram of this address will
\* be the text.  If articles.cfg does not open, a const char* ends main().
op_add_article(a, h) ==
  /\ h.pos = "ARTICLE_LIST"
  /\ \/ /\ \/ getArticleID /\ UNCHANGED torn
           \/ getArticleIDFailed /\ torn' = torn \cup {"articles.cfg"}
        /\ answer(a, [moveTo(h, "ARTICLE_EDIT") EXCEPT
                        !.article_ptr = [aid |-> MAXARTICLEID + 1, pid |-> h.id],
                        !.state = "RECV_ARTICLE"], "ARTICLE_EDIT_MENU")
        /\ UNCHANGED told /\ lives
     \/ /\ MAXARTICLEID < MaxAid /\ crashed < MaxCrash
        /\ getArticleIDStopped /\ gone
        /\ torn' = IF articles_cfg' = NoNumber THEN torn \cup {"articles.cfg"} ELSE torn
     \/ DiskFails /\ crashed < MaxCrash /\ Die

\* func_response() notices that response does not open, not that the write fails.
op_response(a, h) ==
  /\ h.pos = "ARTICLE"
  /\ \/ /\ \/ addResponse(h.cur_aid, h.id)
           \/ DiskFails /\ addResponseStopped(h.cur_aid)
        /\ answer(a, h, "RESPONSE_SUCCESS")
        /\ told' = told \cup {<<"response", h.cur_aid, h.id>>}
        /\ UNCHANGED MAXARTICLEID /\ lives
     \/ /\ DiskFails
        /\ UNCHANGED <<folder, told, MAXARTICLEID>> /\ lives
        /\ answer(a, h, "RESPONSE_FAILED")
     \/ crashed < MaxCrash /\ addResponseStopped(h.cur_aid) /\ gone
  /\ UNCHANGED <<articles_cfg, torn>>

\* A file that does not open sets failbit, and ofs.bad() looks at badbit.
op_add_black(a, h, bid) ==
  /\ h.pos = "ARTICLE"
  /\ IF loadable(h.cur_aid)
       THEN /\ appendBlacklist(h.cur_aid, bid) \/ (DiskFails /\ UNCHANGED folder)
            /\ answer(a, h, "APPEND_BLACK_SUCCEED")
            /\ told' = told \cup {<<"blacklist", h.cur_aid, bid>>}
       ELSE answer(a, h, "APPEND_BLACK_FAILED") /\ UNCHANGED <<folder, told>>
  /\ UNCHANGED <<articles_cfg, MAXARTICLEID, torn>> /\ lives

op_del_black(a, h, bid) ==
  /\ h.pos = "ARTICLE"
  /\ \/ /\ IF loadable(h.cur_aid)
             THEN /\ \/ removefromBlacklist(h.cur_aid, bid)
                     \/ DiskFails /\ UNCHANGED folder
                     \/ DiskFails /\ removefromBlacklistStopped(h.cur_aid, bid)
                  /\ answer(a, h, "DEL_BLACK_SUCCEED")
                  /\ told' = told \ {<<"blacklist", h.cur_aid, bid>>}
             ELSE answer(a, h, "DEL_BLACK_FAILED") /\ UNCHANGED <<folder, told>>
        /\ UNCHANGED <<articles_cfg, MAXARTICLEID, torn>> /\ lives
     \/ /\ crashed < MaxCrash /\ loadable(h.cur_aid)
        /\ removefromBlacklistStopped(h.cur_aid, bid) /\ gone
        /\ UNCHANGED articles_cfg
        /\ torn' = torn \cup {"blacklist"}

op_logout(a, h) ==
  /\ h.pos = "MAINMENU"
  /\ answer(a, NoHandler, "LOGOUT") /\ no_disk /\ no_history /\ lives

\* An operation that is not offered where the user is, or not known.
offered(op, pos) ==
  \/ op \in {"RT", "V"}
  \/ op \in {"SU", "SA", "Y", "T", "O"} /\ pos = "MAINMENU"
  \/ op \in {"E", "A"} /\ pos = "ARTICLE_LIST"
  \/ op \in {"RP", "AB", "DB"} /\ pos = "ARTICLE"

op_ignored(a, h, op) ==
  /\ ~offered(op, h.pos)
  /\ silent(a, h) /\ no_disk /\ no_history /\ lives

\* args[1] and args[2] are read without looking at the number of tokens: past
\* the end there may be anything, or the process dies.
Given(args, i, any) == IF i <= Len(args) THEN {args[i]} ELSE any

Read(op) == IF op = "T" THEN 3 ELSE IF op \in {"Y", "E", "A", "RP", "AB", "DB"} THEN 2 ELSE 1

op_overread(a, h, args) ==
  /\ Len(args) < Read(Head(args)) /\ offered(Head(args), h.pos)
  /\ crashed < MaxCrash /\ Die

statehandler_recv_text(a, h, args) ==
  LET op == Head(args)
  IN  \/ op = "RT" /\ op_return(a, h)
      \/ op = "V" /\ op_visit(a, h)
      \/ op = "SU" /\ op_showuser(a, h)
      \/ op = "SA" /\ op_showarticle(a, h)
      \/ op = "Y" /\ op_yell(a, h)
      \/ op = "T" /\ \E id \in Given(args, 2, Uid) : op_tell(a, h, id)
      \/ op = "E" /\ \E aid \in Given(args, 2, Aid) : op_enter_article(a, h, aid)
      \/ op = "A" /\ op_add_article(a, h)
      \/ op = "RP" /\ op_response(a, h)
      \/ op = "AB" /\ \E bid \in Given(args, 2, Uid) : op_add_black(a, h, bid)
      \/ op = "DB" /\ \E bid \in Given(args, 2, Uid) : op_del_black(a, h, bid)
      \/ op = "O" /\ op_logout(a, h)
      \/ op_ignored(a, h, op)
      \/ op_overread(a, h, args)

\* Whatever comes is the text of the draft.  A folder of that number makes
\* store() throw a const char*, which is caught: the article is dropped.
statehandler_recv_article(a, h, args) ==
  LET d == h.article_ptr
      done == [back(h) EXCEPT !.state = "RECV_TEXT", !.article_ptr = FREED]
  IN  \/ /\ \/ store(d.aid, d.pid, args) /\ UNCHANGED torn
            \/ storeFailed(d.aid, d.pid, args) /\ torn' = torn \cup {"folder"}
         /\ silent(a, done)
         /\ UNCHANGED <<articles_cfg, MAXARTICLEID, told>> /\ lives
      \/ /\ crashed < MaxCrash
         /\ storeStopped(d.aid, d.pid, args) /\ gone
         /\ UNCHANGED articles_cfg
         /\ torn' = torn \cup {"folder"}

-----------------------------------------------------------------------------
func_register(a, args) ==
  /\ \/ Len(args) # 3 /\ send_msg(a, "REG_INVALIDARGS") /\ UNCHANGED <<accounts_map, told>>
     \/ /\ Len(args) = 3 /\ accounts_map[args[2]] # NoPwd
        /\ send_msg(a, "REG_DUP") /\ UNCHANGED <<accounts_map, told>>
     \/ /\ Len(args) = 3 /\ accounts_map[args[2]] = NoPwd
        /\ accounts_map' = [accounts_map EXCEPT ![args[2]] = args[3]]
        /\ send_msg(a, "REG_SUCCESS")
        /\ told' = told \cup {<<"account", NoAid, args[2]>>}
  /\ UNCHANGED clihandlers_map

func_login(a, args) ==
  /\ \/ Len(args) # 3 /\ send_msg(a, "REG_INVALIDARGS") /\ UNCHANGED clihandlers_map
     \/ /\ Len(args) = 3 /\ accounts_map[args[2]] = NoPwd
        /\ send_msg(a, "LOGIN_UID_ERROR") /\ UNCHANGED clihandlers_map
     \/ /\ Len(args) = 3 /\ accounts_map[args[2]] \notin {NoPwd, args[3]}
        /\ send_msg(a, "LOGIN_PWD_ERROR") /\ UNCHANGED clihandlers_map
     \/ /\ Len(args) = 3 /\ accounts_map[args[2]] = args[3]
        /\ answer(a, NewHandler(args[2]), "LOGIN_SUCCESS")
  /\ UNCHANGED <<accounts_map, told>>

func_guest_mux(a, args) ==
  LET op == Head(args)
  IN  /\ \/ /\ op \in {"RT", "V"} /\ send_msg(a, "ENTRY_MENU")
            /\ UNCHANGED <<accounts_map, clihandlers_map, told>>
         \/ op = "R" /\ func_register(a, args)
         \/ op = "L" /\ func_login(a, args)
         \/ /\ op \notin {"RT", "V", "R", "L"}
            /\ sent' = {} /\ UNCHANGED <<accounts_map, clihandlers_map, told>>
      /\ no_disk /\ UNCHANGED <<alive, torn>>

func_user_mux(a, args) ==
  LET h == clihandlers_map[a]
  IN  \/ h.state = "RECV_TEXT" /\ statehandler_recv_text(a, h, args)
      \/ h.state = "RECV_ARTICLE" /\ statehandler_recv_article(a, h, args)

handler_entry(a, args) ==
  /\ alive
  /\ \/ isLogined(a) /\ func_user_mux(a, args)
     \/ ~isLogined(a) /\ func_guest_mux(a, args)
  /\ UNCHANGED crashed

\* The process dies between two datagrams.
Crash == alive /\ crashed < MaxCrash /\ Die /\ UNCHANGED crashed

Restart ==
  /\ ~alive /\ crashed < MaxCrash
  /\ crashed' = crashed + 1
  /\ alive' = TRUE
  /\ accounts_map' = AccountsFile
  /\ setMaxartileID
  /\ sent' = {}
  /\ UNCHANGED <<diskVars, clihandlers_map, told, torn>>

Arriving(a) ==
  IF isLogined(a) /\ clihandlers_map[a].state = "RECV_ARTICLE" THEN Body ELSE Input

Next ==
  \/ \E a \in Addr : \E args \in Arriving(a) : handler_entry(a, args)
  \/ Crash \/ Restart

Spec == Init /\ [][Next]_vars

-----------------------------------------------------------------------------
(***************************************************************************)
(* Properties.                                                             *)
(***************************************************************************)
handlers == {clihandlers_map[a] : a \in {b \in Addr : isLogined(b)}}
drafts == {h \in handlers : h.state = "RECV_ARTICLE"}

Texts ==
  {"ENTRY_MENU", "REG_INVALIDARGS", "REG_DUP", "REG_SUCCESS", "LOGIN_UID_ERROR",
   "LOGIN_PWD_ERROR", "LOGIN_SUCCESS", "MAIN_MENU", "USER_LIST", "ARTICLE_LIST", "ARTICLE",
   "DENIED", "ARTICLE_ENTER_IDERROR", "ARTICLE_EDIT_MENU", "RESPONSE_SUCCESS",
   "RESPONSE_FAILED", "APPEND_BLACK_SUCCEED", "APPEND_BLACK_FAILED", "DEL_BLACK_SUCCEED",
   "DEL_BLACK_FAILED", "YELL", "TELL", "LOGOUT"}

TypeOK ==
  /\ ArticlesType
  /\ accounts_map \in [Uid -> Pwd \cup {NoPwd}]
  /\ clihandlers_map \in [Addr -> Handler \cup {NoHandler}]
  /\ alive \in BOOLEAN
  /\ sent \subseteq [to: Addr, text: Texts]
  /\ crashed \in Nat
  /\ told \subseteq {"response", "blacklist", "account"} \X (Aid \cup {NoAid}) \X Uid
  /\ torn \subseteq {"articles.cfg", "folder", "blacklist"}

\* The four places a handler keeps its place in agree, whatever arrives: pos is
\* the top of pos_st, which is a path through the menus; an article is entered
\* exactly on its page; and the editor, the state that takes the next datagram
\* as text, and a draft of one's own to put it in, come and go together (so
\* article_ptr is followed only while it points to an article).
SessionShape ==
  \A h \in handlers :
    /\ h.pos = top(h.pos_st)
    /\ h.pos_st \in {<<"MAINMENU">>, <<"MAINMENU", "USER_LIST">>,
                     <<"MAINMENU", "ARTICLE_LIST">>,
                     <<"MAINMENU", "ARTICLE_LIST", "ARTICLE">>,
                     <<"MAINMENU", "ARTICLE_LIST", "ARTICLE_EDIT">>}
    /\ h.pos = "ARTICLE" <=> h.cur_aid # NoAid
    /\ h.pos = "ARTICLE_EDIT" <=> h.state = "RECV_ARTICLE"
    /\ h.state = "RECV_ARTICLE" <=> h.article_ptr \notin {NULL, FREED}
    /\ h.state = "RECV_ARTICLE" => h.article_ptr.pid = h.id

\* An article that was entered stays loadable for as long as it is entered, so
\* adding to and deleting from its blacklist never fails to load it.
EnteredLoadable == \A h \in handlers : h.cur_aid # NoAid => loadable(h.cur_aid)

\* Unless a process stopped between truncating and writing articles.cfg, the
\* number of an article being edited is its own: no folder and no other draft
\* has it, and so its text is stored and not dropped.
DraftsFresh ==
  "articles.cfg" \notin torn =>
    /\ \A h \in drafts : ~exists(h.article_ptr.aid)
    /\ \A a, b \in Addr :
         /\ isLogined(a) /\ isLogined(b) /\ a # b
         /\ clihandlers_map[a] \in drafts /\ clihandlers_map[b] \in drafts
         => clihandlers_map[a].article_ptr.aid # clihandlers_map[b].article_ptr.aid

\* Unless a process stopped inside Article::store(), or a write failed there, every
\* folder has a whole info file, without which every listing of the articles ends
\* the process.
ListingSafe ==
  "folder" \notin torn => \A aid \in Aid : exists(aid) => headerReadable(aid)

\* src/bbs.cpp, line 14: after "Add black user ID succeed !" the name is on the
\* blacklist and stays there through restarts, unless a process stopped inside a
\* rewrite of the file.
BlackStored ==
  \A t \in told :
    t[1] = "blacklist" /\ "blacklist" \notin torn => t[3] \in folder[t[2]].blacklist

\* What was acknowledged is on disk and stays there, through restarts: responses
\* always, blacklist entries unless a process stopped inside a rewrite.
ToldIsStored ==
  /\ \A t \in told : t[1] = "response" => t[3] \in folder[t[2]].response
  /\ BlackStored

\* No step takes away a folder, its publisher or its text, not even a draft
\* that has the same number.
ArticlesKept ==
  [][\A aid \in Aid : exists(aid) =>
       /\ folder'[aid] # NoFolder
       /\ folder'[aid].info = folder[aid].info
       /\ folder'[aid].context = folder[aid].context]_vars

\* What Board has of an article; the constants for what is missing are none of these.
Article ==
  [pid: Uid, text: Body \cup {TornBody}, answers: SUBSET Uid, blacklist: SUBSET Uid]

ASSUME ArticleAssumption == {NoFolder, NULL} \cap Article = {} /\ NoFolder # NULL

\* A folder that can be loaded is an article; what cannot be loaded only takes
\* its number.
ArticleOf(aid) ==
  LET f == folder[aid]
  IN  IF ~exists(aid) THEN NoFolder
      ELSE IF ~loadable(aid) THEN NULL
      ELSE [pid |-> f.info, text |-> f.context,
            answers |-> IF f.response = NoFile THEN {} ELSE f.response,
            blacklist |-> f.blacklist]

Articles == [aid \in Aid |-> ArticleOf(aid)]
Users == [a \in Addr |-> IF isLogined(a) THEN clihandlers_map[a].id ELSE NoHandler]
Opened == [a \in Addr |-> IF isLogined(a) THEN clihandlers_map[a].cur_aid ELSE NoAid]
Drawn ==
  [a \in Addr |->
     IF isLogined(a) /\ clihandlers_map[a].state = "RECV_ARTICLE"
       THEN clihandlers_map[a].article_ptr.aid ELSE NoAid]

\* What the articles promise (module Board).
B == INSTANCE Board WITH
  Number <- Aid, Text <- Body, Torn <- TornBody,
  Nothing <- NoFolder, Stub <- NULL, Nobody <- NoHandler,
  article <- Articles, user <- Users, open <- Opened, drawn <- Drawn

\* As long as no write fails, the handlers and their files implement Board: an
\* article appears only by its author's text, under the number drawn for it and
\* never in place of another; only somebody who has it open changes its answers
\* and its blacklist, the answers by his own name; and a process that stops
\* leaves nothing half done but the operation it was in.
ImplementsBoard == B!Spec

\* src/udpserver.h, lines 39-42: a registration is stored in the database.  (It
\* was answered True, so its name has an account in every process from then on.)
RegistrationStored ==
  alive => \A t \in told : t[1] = "account" => accounts_map[t[3]] # NoPwd
=============================================================================
