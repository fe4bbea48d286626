----------------------- MODULE Clienthandler_proofs -----------------------
(***************************************************************************)
(* The sessions of the legacy server, for every set of addresses, users,   *)
(* datagrams and texts, any number of articles, any number of crashes, and *)
(* writes that fail or do not.                                             *)
(***************************************************************************)
EXTENDS Clienthandler, ArticleBase_proofs, SequenceTheorems

(***************************************************************************)
(* Places in the menus.                                                    *)
(***************************************************************************)
LEMMA Append1 ==
  ASSUME NEW S, NEW x \in S, NEW y \in S
  PROVE  Append(<<x>>, y) = <<x, y>>
<1>1. <<x>> \in Seq(S) /\ <<x, y>> \in Seq(S)
  OBVIOUS
<1>2. /\ Append(<<x>>, y) \in Seq(S) /\ Len(Append(<<x>>, y)) = 2
      /\ Append(<<x>>, y)[1] = x /\ Append(<<x>>, y)[2] = y
  BY <1>1, AppendProperties
<1>3. \A i \in 1..Len(Append(<<x>>, y)) : Append(<<x>>, y)[i] = <<x, y>>[i]
  BY <1>2
<1>. QED
  BY <1>1, <1>2, <1>3, SeqEqual

LEMMA Append2 ==
  ASSUME NEW S, NEW x \in S, NEW y \in S, NEW z \in S
  PROVE  Append(<<x, y>>, z) = <<x, y, z>>
<1>1. <<x, y>> \in Seq(S) /\ <<x, y, z>> \in Seq(S)
  OBVIOUS
<1>2. /\ Append(<<x, y>>, z) \in Seq(S) /\ Len(Append(<<x, y>>, z)) = 3
      /\ Append(<<x, y>>, z)[1] = x /\ Append(<<x, y>>, z)[2] = y /\ Append(<<x, y>>, z)[3] = z
  BY <1>1, AppendProperties
<1>3. \A i \in 1..Len(Append(<<x, y>>, z)) : Append(<<x, y>>, z)[i] = <<x, y, z>>[i]
  BY <1>2
<1>. QED
  BY <1>1, <1>2, <1>3, SeqEqual

LEMMA Prefix2 ==
  ASSUME NEW S, NEW x \in S, NEW y \in S
  PROVE  SubSeq(<<x, y>>, 1, 1) = <<x>>
<1>1. <<x>> \in Seq(S) /\ <<x, y>> \in Seq(S)
  OBVIOUS
<1>2. /\ SubSeq(<<x, y>>, 1, 1) \in Seq(S) /\ Len(SubSeq(<<x, y>>, 1, 1)) = 1
      /\ SubSeq(<<x, y>>, 1, 1)[1] = x
  BY <1>1, SubSeqProperties
<1>3. \A i \in 1..Len(SubSeq(<<x, y>>, 1, 1)) : SubSeq(<<x, y>>, 1, 1)[i] = <<x>>[i]
  BY <1>2
<1>. QED
  BY <1>1, <1>2, <1>3, SeqEqual

LEMMA Prefix3 ==
  ASSUME NEW S, NEW x \in S, NEW y \in S, NEW z \in S
  PROVE  SubSeq(<<x, y, z>>, 1, 2) = <<x, y>>
<1>1. <<x, y>> \in Seq(S) /\ <<x, y, z>> \in Seq(S)
  OBVIOUS
<1>2. /\ SubSeq(<<x, y, z>>, 1, 2) \in Seq(S) /\ Len(SubSeq(<<x, y, z>>, 1, 2)) = 2
      /\ SubSeq(<<x, y, z>>, 1, 2)[1] = x /\ SubSeq(<<x, y, z>>, 1, 2)[2] = y
  BY <1>1, SubSeqProperties
<1>3. \A i \in 1..Len(SubSeq(<<x, y, z>>, 1, 2)) : SubSeq(<<x, y, z>>, 1, 2)[i] = <<x, y>>[i]
  BY <1>2
<1>. QED
  BY <1>1, <1>2, <1>3, SeqEqual

\* A handler at a place of the menus, reading commands or the text of a draft of
\* its own: the five shapes that SessionShape allows.
AtMenu(h) == h.pos = "MAINMENU" /\ h.pos_st = <<"MAINMENU">>
AtUsers(h) == h.pos = "USER_LIST" /\ h.pos_st = <<"MAINMENU", "USER_LIST">>
AtList(h) == h.pos = "ARTICLE_LIST" /\ h.pos_st = <<"MAINMENU", "ARTICLE_LIST">>
AtPage(h) == h.pos = "ARTICLE" /\ h.pos_st = <<"MAINMENU", "ARTICLE_LIST", "ARTICLE">>
AtEditor(h) == h.pos = "ARTICLE_EDIT" /\ h.pos_st = <<"MAINMENU", "ARTICLE_LIST", "ARTICLE_EDIT">>

Reads(h) == h.state = "RECV_TEXT" /\ h.article_ptr \in {NULL, FREED}
Edits(h) == h.state = "RECV_ARTICLE" /\ h.article_ptr \in Draft /\ h.article_ptr.pid = h.id

Idle(h) == Reads(h) /\ h.cur_aid = NoAid /\ (AtMenu(h) \/ AtUsers(h) \/ AtList(h))
Entered(h) == Reads(h) /\ h.cur_aid \in Aid /\ AtPage(h)
Drafting(h) == Edits(h) /\ h.cur_aid = NoAid /\ AtEditor(h)

Sound(h) == h \in Handler /\ (Idle(h) \/ Entered(h) \/ Drafting(h))

\* What SessionShape says of one handler.
Shaped(h) ==
  /\ h.pos = top(h.pos_st)
  /\ h.pos_st \in {<<"MAINMENU">>, <<"MAINMENU", "USER_LIST">>,
                   <<"MAINMENU", "ARTICLE_LIST">>,
                   <<"MAINMENU", "ARTICLE_LIST", "ARTICLE">>,
                   <<"MAINMENU", "ARTICLE_LIST", "ARTICLE_EDIT">>}
  /\ h.pos = "ARTICLE" <=> h.cur_aid # NoAid
  /\ h.pos = "ARTICLE_EDIT" <=> h.state = "RECV_ARTICLE"
  /\ h.state = "RECV_ARTICLE" <=> h.article_ptr \notin {NULL, FREED}
  /\ h.state = "RECV_ARTICLE" => h.article_ptr.pid = h.id

LEMMA Tops ==
  /\ top(<<"MAINMENU">>) = "MAINMENU"
  /\ top(<<"MAINMENU", "USER_LIST">>) = "USER_LIST"
  /\ top(<<"MAINMENU", "ARTICLE_LIST">>) = "ARTICLE_LIST"
  /\ top(<<"MAINMENU", "ARTICLE_LIST", "ARTICLE">>) = "ARTICLE"
  /\ top(<<"MAINMENU", "ARTICLE_LIST", "ARTICLE_EDIT">>) = "ARTICLE_EDIT"
BY DEF top

LEMMA SoundIsShaped ==
  ASSUME NEW h \in Handler
  PROVE  Sound(h) <=> Shaped(h)
<1>1. /\ h.state \in {"RECV_TEXT", "RECV_ARTICLE"}
      /\ h.cur_aid \in Aid \cup {NoAid} /\ h.article_ptr \in Draft \cup {NULL, FREED}
  BY DEF Handler
<1>2. NoAid \notin Aid
  BY MaxAidAssumption DEF NoAid, Aid
<1>3. NULL \notin Draft /\ FREED \notin Draft
  BY PointerAssumption
<1>4. ASSUME Sound(h) PROVE Shaped(h)
  BY <1>1, <1>2, <1>3, <1>4, Tops
     DEF Sound, Idle, Entered, Drafting, Reads, Edits, AtMenu, AtUsers, AtList, AtPage, AtEditor, Shaped
<1>5. ASSUME Shaped(h) PROVE Sound(h)
  <2>1. AtMenu(h) \/ AtUsers(h) \/ AtList(h) \/ AtPage(h) \/ AtEditor(h)
    BY <1>5, Tops DEF Shaped, AtMenu, AtUsers, AtList, AtPage, AtEditor
  <2>2. (Reads(h) /\ h.pos # "ARTICLE_EDIT") \/ (Edits(h) /\ h.pos = "ARTICLE_EDIT")
    BY <1>1, <1>5 DEF Shaped, Reads, Edits
  <2>3. (h.pos = "ARTICLE" /\ h.cur_aid \in Aid) \/ (h.pos # "ARTICLE" /\ h.cur_aid = NoAid)
    BY <1>1, <1>5 DEF Shaped
  <2>4. QED
    BY <2>1, <2>2, <2>3
       DEF Sound, Idle, Entered, Drafting, AtMenu, AtUsers, AtList, AtPage, AtEditor
<1>. QED
  BY <1>4, <1>5

-----------------------------------------------------------------------------
\* Where the operations take a handler.

LEMMA NewIsSound ==
  ASSUME NEW id \in Uid
  PROVE  Sound(NewHandler(id)) /\ Idle(NewHandler(id))
<1>1. <<"MAINMENU">> \in Seq(Position) /\ "MAINMENU" \in Position
  BY DEF Position
<1>2. NewHandler(id) \in Handler
  BY <1>1 DEF NewHandler, Handler
<1>. QED
  BY <1>2 DEF NewHandler, Sound, Idle, Reads, AtMenu

LEMMA MoveFromMenu ==
  ASSUME NEW h, Sound(h), Reads(h), h.pos = "MAINMENU", NEW p \in {"USER_LIST", "ARTICLE_LIST"}
  PROVE  Sound(moveTo(h, p)) /\ Idle(moveTo(h, p))
<1>1. h \in Handler /\ Idle(h) /\ AtMenu(h)
  BY DEF Sound, Idle, Entered, Drafting, AtUsers, AtList, AtPage, AtEditor
<1>2. "MAINMENU" \in Position /\ p \in Position
  BY DEF Position
<1>3. Append(h.pos_st, p) = <<"MAINMENU", p>>
  BY <1>1, <1>2, Append1 DEF AtMenu
<1>4. <<"MAINMENU", p>> \in Seq(Position)
  BY <1>2
<1>5. moveTo(h, p) = [h EXCEPT !.pos_st = <<"MAINMENU", p>>, !.pos = p]
  BY <1>3 DEF moveTo
<1>6. moveTo(h, p) \in Handler
  BY <1>1, <1>2, <1>4, <1>5 DEF Handler
<1>7. /\ moveTo(h, p).pos = p /\ moveTo(h, p).pos_st = <<"MAINMENU", p>>
      /\ moveTo(h, p).state = h.state /\ moveTo(h, p).article_ptr = h.article_ptr
      /\ moveTo(h, p).cur_aid = h.cur_aid
  BY <1>1, <1>5 DEF Handler
<1>. QED
  BY <1>1, <1>6, <1>7 DEF Sound, Idle, Reads, AtUsers, AtList

LEMMA EnterFromList ==
  ASSUME NEW h, Sound(h), Reads(h), h.pos = "ARTICLE_LIST", NEW aid \in Aid
  PROVE  /\ Sound(enter_article(moveTo(h, "ARTICLE"), aid))
         /\ enter_article(moveTo(h, "ARTICLE"), aid).cur_aid = aid
<1> DEFINE e == enter_article(moveTo(h, "ARTICLE"), aid)
           st == <<"MAINMENU", "ARTICLE_LIST", "ARTICLE">>
<1>1. h \in Handler /\ Idle(h) /\ AtList(h)
  BY DEF Sound, Idle, Entered, Drafting, AtMenu, AtUsers, AtPage, AtEditor
<1>2. "MAINMENU" \in Position /\ "ARTICLE_LIST" \in Position /\ "ARTICLE" \in Position
  BY DEF Position
<1>3. Append(h.pos_st, "ARTICLE") = st /\ st \in Seq(Position)
  BY <1>1, <1>2, Append2 DEF AtList
<1>4. e = [h EXCEPT !.pos_st = st, !.pos = "ARTICLE", !.cur_aid = aid]
  BY <1>1, <1>3 DEF enter_article, moveTo, Handler
<1>5. e \in Handler
  BY <1>1, <1>2, <1>3, <1>4 DEF Handler
<1>6. /\ e.pos = "ARTICLE" /\ e.pos_st = st /\ e.cur_aid = aid
      /\ e.state = h.state /\ e.article_ptr = h.article_ptr
  BY <1>1, <1>4 DEF Handler
<1>. QED
  BY <1>1, <1>5, <1>6 DEF Sound, Entered, Idle, Reads, AtPage

\* The error path of E leaves the handler on the list, with no article.
LEMMA ExitOnList ==
  ASSUME NEW h, Sound(h), Reads(h), h.pos = "ARTICLE_LIST"
  PROVE  Sound(exit_article(h)) /\ Idle(exit_article(h))
<1>1. h \in Handler /\ Idle(h) /\ AtList(h)
  BY DEF Sound, Idle, Entered, Drafting, AtMenu, AtUsers, AtPage, AtEditor
<1>2. exit_article(h) \in Handler
  BY <1>1 DEF exit_article, Handler
<1>3. /\ exit_article(h).pos = h.pos /\ exit_article(h).pos_st = h.pos_st
      /\ exit_article(h).state = h.state /\ exit_article(h).article_ptr = h.article_ptr
      /\ exit_article(h).cur_aid = NoAid
  BY <1>1 DEF exit_article, Handler
<1>. QED
  BY <1>1, <1>2, <1>3 DEF Sound, Idle, Reads, AtList

\* The handler that A makes of h, for number aid.
Drawing(h, aid) ==
  [moveTo(h, "ARTICLE_EDIT") EXCEPT
     !.article_ptr = [aid |-> aid, pid |-> h.id], !.state = "RECV_ARTICLE"]

LEMMA DrawFromList ==
  ASSUME NEW h, Sound(h), Reads(h), h.pos = "ARTICLE_LIST", NEW aid \in Aid
  PROVE  /\ Sound(Drawing(h, aid)) /\ Drafting(Drawing(h, aid))
         /\ Drawing(h, aid).article_ptr = [aid |-> aid, pid |-> h.id]
<1> DEFINE e == Drawing(h, aid)
           st == <<"MAINMENU", "ARTICLE_LIST", "ARTICLE_EDIT">>
           d == [aid |-> aid, pid |-> h.id]
<1>1. h \in Handler /\ Idle(h) /\ AtList(h)
  BY DEF Sound, Idle, Entered, Drafting, AtMenu, AtUsers, AtPage, AtEditor
<1>2. "MAINMENU" \in Position /\ "ARTICLE_LIST" \in Position /\ "ARTICLE_EDIT" \in Position
  BY DEF Position
<1>3. Append(h.pos_st, "ARTICLE_EDIT") = st /\ st \in Seq(Position)
  BY <1>1, <1>2, Append2 DEF AtList
<1>4. d \in Draft /\ d.pid = h.id
  BY <1>1 DEF Draft, Handler
<1>5. e = [h EXCEPT !.pos_st = st, !.pos = "ARTICLE_EDIT", !.article_ptr = d, !.state = "RECV_ARTICLE"]
  BY <1>1, <1>3 DEF Drawing, moveTo, Handler
<1>6. e \in Handler
  BY <1>1, <1>2, <1>3, <1>4, <1>5 DEF Handler
<1>7. /\ e.pos = "ARTICLE_EDIT" /\ e.pos_st = st /\ e.cur_aid = h.cur_aid
      /\ e.state = "RECV_ARTICLE" /\ e.article_ptr = d /\ e.id = h.id
  BY <1>1, <1>5 DEF Handler
<1>. QED
  BY <1>1, <1>4, <1>6, <1>7 DEF Sound, Drafting, Idle, Edits, AtEditor

\* The handler that RT makes of h.
Returned(h) == back(IF h.pos = "ARTICLE" THEN exit_article(h) ELSE h)

LEMMA ReturnIsSound ==
  ASSUME NEW h, Sound(h), Reads(h)
  PROVE  Sound(Returned(h)) /\ Idle(Returned(h))
<1>1. h \in Handler /\ (Idle(h) \/ Entered(h))
  BY DEF Sound, Drafting, Edits, Reads
<1>2. \A p \in {"MAINMENU", "USER_LIST", "ARTICLE_LIST", "ARTICLE"} : p \in Position
  BY DEF Position
<1>3. CASE AtMenu(h)
  <2>1. Len(h.pos_st) = 1 /\ h.pos # "ARTICLE"
    BY <1>3 DEF AtMenu
  <2>2. Returned(h) = h
    BY <2>1 DEF Returned, back
  <2>3. QED
    BY <1>1, <1>3, <2>2 DEF Sound, Idle, Entered, AtMenu, AtPage
<1>4. CASE AtUsers(h) \/ AtList(h)
  <2>1. /\ Len(h.pos_st) = 2 /\ h.pos # "ARTICLE"
        /\ SubSeq(h.pos_st, 1, 1) = <<"MAINMENU">> /\ <<"MAINMENU">> \in Seq(Position)
    BY <1>2, <1>4, Prefix2 DEF AtUsers, AtList
  <2>2. Returned(h) = [h EXCEPT !.pos_st = <<"MAINMENU">>, !.pos = "MAINMENU"]
    <3>1. SubSeq(h.pos_st, 1, Len(h.pos_st) - 1) = <<"MAINMENU">> /\ Len(h.pos_st) # 1
      BY <2>1
    <3>2. Returned(h) = back(h) /\ top(<<"MAINMENU">>) = "MAINMENU"
      BY <2>1, Tops DEF Returned
    <3>3. QED
      BY <3>1, <3>2, Zenon DEF back
  <2>3. Returned(h) \in Handler
    BY <1>1, <1>2, <2>1, <2>2 DEF Handler
  <2>4. /\ Returned(h).pos = "MAINMENU" /\ Returned(h).pos_st = <<"MAINMENU">>
        /\ Returned(h).state = h.state /\ Returned(h).article_ptr = h.article_ptr
        /\ Returned(h).cur_aid = h.cur_aid
    BY <1>1, <2>2 DEF Handler
  <2>5. h.cur_aid = NoAid
    BY <1>1, <2>1 DEF Idle, Entered, AtPage
  <2>6. QED
    BY <2>3, <2>4, <2>5 DEF Sound, Idle, Reads, AtMenu
<1>5. CASE AtPage(h)
  <2> DEFINE e == exit_article(h)
             st == <<"MAINMENU", "ARTICLE_LIST">>
  <2>1. /\ e = [h EXCEPT !.cur_aid = NoAid] /\ e \in Handler
        /\ e.pos_st = h.pos_st /\ e.state = h.state /\ e.article_ptr = h.article_ptr
        /\ e.cur_aid = NoAid
    BY <1>1 DEF exit_article, Handler
  <2>2. Len(e.pos_st) = 3 /\ SubSeq(e.pos_st, 1, 2) = st /\ st \in Seq(Position)
    BY <1>2, <1>5, <2>1, Prefix3 DEF AtPage
  <2>3. Returned(h) = [e EXCEPT !.pos_st = st, !.pos = "ARTICLE_LIST"]
    <3>1. SubSeq(e.pos_st, 1, Len(e.pos_st) - 1) = st /\ Len(e.pos_st) # 1
      BY <2>2
    <3>2. Returned(h) = back(e) /\ top(st) = "ARTICLE_LIST"
      BY <1>5, Tops DEF Returned, AtPage
    <3>3. QED
      BY <3>1, <3>2, Zenon DEF back
  <2>4. Returned(h) \in Handler
    BY <1>2, <2>1, <2>2, <2>3 DEF Handler
  <2>5. /\ Returned(h).pos = "ARTICLE_LIST" /\ Returned(h).pos_st = st
        /\ Returned(h).state = h.state /\ Returned(h).article_ptr = h.article_ptr
        /\ Returned(h).cur_aid = NoAid
    BY <2>1, <2>3 DEF Handler
  <2>6. QED
    BY <2>4, <2>5 DEF Sound, Idle, Reads, AtList
<1>. QED
  BY <1>1, <1>3, <1>4, <1>5 DEF Idle, Entered

\* The handler after its text has come.
Stored(h) == [back(h) EXCEPT !.state = "RECV_TEXT", !.article_ptr = FREED]

LEMMA StoredIsSound ==
  ASSUME NEW h, Sound(h), h.state = "RECV_ARTICLE"
  PROVE  Sound(Stored(h)) /\ Idle(Stored(h))
<1> DEFINE st == <<"MAINMENU", "ARTICLE_LIST">>
<1>1. h \in Handler /\ Drafting(h) /\ AtEditor(h) /\ h.cur_aid = NoAid
  BY DEF Sound, Idle, Entered, Drafting, Reads
<1>2. "MAINMENU" \in Position /\ "ARTICLE_LIST" \in Position /\ "ARTICLE_EDIT" \in Position
  BY DEF Position
<1>3. Len(h.pos_st) = 3 /\ SubSeq(h.pos_st, 1, 2) = st /\ st \in Seq(Position)
  BY <1>1, <1>2, Prefix3 DEF AtEditor
<1>4. back(h) = [h EXCEPT !.pos_st = st, !.pos = "ARTICLE_LIST"]
  <2>1. SubSeq(h.pos_st, 1, Len(h.pos_st) - 1) = st /\ Len(h.pos_st) # 1
    BY <1>3
  <2>2. top(st) = "ARTICLE_LIST"
    BY Tops
  <2>3. QED
    BY <2>1, <2>2, Zenon DEF back
<1>5. Stored(h) = [h EXCEPT !.pos_st = st, !.pos = "ARTICLE_LIST",
                            !.state = "RECV_TEXT", !.article_ptr = FREED]
  BY <1>1, <1>4 DEF Stored, Handler
<1>6. Stored(h) \in Handler
  BY <1>1, <1>2, <1>3, <1>5 DEF Handler
<1>7. /\ Stored(h).pos = "ARTICLE_LIST" /\ Stored(h).pos_st = st
      /\ Stored(h).state = "RECV_TEXT" /\ Stored(h).article_ptr = FREED
      /\ Stored(h).cur_aid = NoAid
  BY <1>1, <1>5 DEF Handler
<1>. QED
  BY <1>6, <1>7 DEF Sound, Idle, Reads, AtList

-----------------------------------------------------------------------------
(***************************************************************************)
(* The inductive invariant.  None of its parts is inductive alone: what an *)
(* operation on an article does to its folder is known only if the handler *)
(* is on the page of an article that can be loaded.                        *)
(***************************************************************************)
Held(h) == Sound(h) /\ (h.cur_aid # NoAid => loadable(h.cur_aid))

Sessions == \A a \in Addr : isLogined(a) => Held(clihandlers_map[a])

IInv == TypeOK /\ Sessions /\ ListingSafe

\* What every step does: it keeps the invariant, and the articles.
Good == IInv' /\ Kept

LEMMA SessionsAreSound ==
  ASSUME IInv
  PROVE  SessionShape /\ EnteredLoadable
<1>1. \A h \in handlers : Held(h) /\ h \in Handler
  BY DEF IInv, Sessions, handlers, Held, Sound
<1>2. \A h \in handlers : Shaped(h)
  BY <1>1, SoundIsShaped DEF Held
<1>3. SessionShape
  BY <1>2 DEF SessionShape, Shaped
<1>4. EnteredLoadable
  BY <1>1 DEF EnteredLoadable, Held
<1>. QED
  BY <1>3, <1>4

LEMMA InitInv == Init => IInv
<1> SUFFICES ASSUME Init PROVE IInv
  OBVIOUS
<1>1. PICK n \in 0..MaxAid, pid \in Uid, body \in Body :
        /\ folder = [aid \in Aid |-> IF aid <= n THEN Complete(pid, body) ELSE NoFolder]
        /\ articles_cfg = n /\ MAXARTICLEID = n
  BY DEF Init
<1>2. Complete(pid, body) \in Folder /\ Complete(pid, body).info = pid
  BY DEF Complete, Folder
<1>3. ArticlesType
  BY <1>1, <1>2 DEF ArticlesType
<1>4. TypeOK
  BY <1>3, AccountsAssumption DEF Init, TypeOK
<1>5. Sessions
  BY DEF Init, Sessions, isLogined
<1>6. ListingSafe
  <2> SUFFICES ASSUME NEW aid \in Aid, exists(aid)
               PROVE  headerReadable(aid)
    BY DEF ListingSafe
  <2>1. folder[aid] = Complete(pid, body)
    BY <1>1 DEF exists
  <2>2. QED
    BY <1>2, <2>1 DEF headerReadable
<1>. QED
  BY <1>4, <1>5, <1>6 DEF IInv

LEMMA HandlerOf ==
  ASSUME IInv, NEW a \in Addr, isLogined(a)
  PROVE  /\ clihandlers_map[a] \in Handler /\ Held(clihandlers_map[a])
         /\ clihandlers_map[a].state = "RECV_TEXT" => Reads(clihandlers_map[a])
         /\ clihandlers_map[a].id \in Uid
<1>1. Held(clihandlers_map[a]) /\ clihandlers_map[a] \in Handler
  BY DEF IInv, Sessions, Held, Sound
<1>. QED
  BY <1>1 DEF Held, Sound, Idle, Entered, Drafting, Reads, Edits, Handler

LEMMA IdleIsHeld ==
  ASSUME NEW h, Sound(h), Idle(h) \/ Drafting(h)
  PROVE  Held(h)
BY DEF Held, Idle, Drafting

\* On the page of an article, the article can be loaded.
LEMMA OnPage ==
  ASSUME NEW h, Held(h), h.pos = "ARTICLE"
  PROVE  h.cur_aid \in Aid /\ loadable(h.cur_aid) /\ exists(h.cur_aid)
<1>1. h.cur_aid \in Aid /\ h.cur_aid # NoAid
  BY MaxAidAssumption
     DEF Held, Sound, Idle, Entered, Drafting, AtMenu, AtUsers, AtList, AtEditor, Aid, NoAid
<1>. QED
  BY <1>1 DEF Held, loadable, headerReadable

(***************************************************************************)
(* The ways a step ends.                                                   *)
(***************************************************************************)

\* The handler of an address is replaced.
LEMMA BecomesSessions ==
  ASSUME IInv, Kept, NEW a \in Addr, NEW h, h = NoHandler \/ Held(h), becomes(a, h)
  PROVE  clihandlers_map' \in [Addr -> Handler \cup {NoHandler}] /\ Sessions'
<1>1. clihandlers_map \in [Addr -> Handler \cup {NoHandler}]
  BY DEF IInv, TypeOK
<1>2. h \in Handler \cup {NoHandler}
  BY DEF Held, Sound
<1>3. clihandlers_map' \in [Addr -> Handler \cup {NoHandler}]
  BY <1>1, <1>2 DEF becomes
<1>4. \A g : Held(g) => Held(g)'
  BY KeptReadable DEF Held
<1>5. \A b \in Addr : isLogined(b)' => Held(clihandlers_map'[b])
  BY <1>1 DEF IInv, Sessions, isLogined, becomes
<1>6. Sessions'
  BY <1>4, <1>5 DEF Sessions
<1>. QED
  BY <1>3, <1>6

LEMMA SameSessions ==
  ASSUME IInv, Kept, UNCHANGED clihandlers_map
  PROVE  clihandlers_map' \in [Addr -> Handler \cup {NoHandler}] /\ Sessions'
<1>1. clihandlers_map' \in [Addr -> Handler \cup {NoHandler}]
  BY DEF IInv, TypeOK
<1>2. \A g : Held(g) => Held(g)'
  BY KeptReadable DEF Held
<1>3. \A b \in Addr : isLogined(b)' => Held(clihandlers_map'[b])
  BY DEF IInv, Sessions, isLogined
<1>4. Sessions'
  BY <1>2, <1>3 DEF Sessions
<1>. QED
  BY <1>1, <1>4

LEMMA ListingKept ==
  ASSUME ListingSafe, Kept, NoneNew, torn \subseteq torn'
  PROVE  ListingSafe'
<1>1. ASSUME "folder" \notin torn', NEW aid \in Aid, exists(aid)'
      PROVE  headerReadable(aid)'
  BY <1>1, KeptReadable DEF ListingSafe, NoneNew
<1>. QED
  BY <1>1 DEF ListingSafe

\* The disk is as it was.
LEMMA DiskUnchanged ==
  ASSUME IInv, UNCHANGED diskVars, UNCHANGED torn
  PROVE  /\ folder' \in [Aid -> Folder \cup {NoFolder}]
         /\ articles_cfg' \in 0..MaxAid \cup {NoNumber}
         /\ Kept /\ ListingSafe'
<1>1. FoldersType /\ articles_cfg \in 0..MaxAid \cup {NoNumber}
  BY DEF IInv, TypeOK, ArticlesType, FoldersType
<1>2. FoldersType' /\ Kept /\ NoneNew
  BY <1>1, UnchangedFolders DEF diskVars
<1>3. ListingSafe'
  BY <1>2, ListingKept DEF IInv
<1>. QED
  BY <1>1, <1>2, <1>3 DEF FoldersType, diskVars

\* An address is answered, its handler is replaced or goes, and that is all.
LEMMA OnlyAnswer ==
  ASSUME IInv, NEW a \in Addr, NEW h, h = NoHandler \/ Held(h), becomes(a, h),
         sent' \subseteq [to: Addr, text: Texts],
         no_disk, no_history, lives, UNCHANGED crashed
  PROVE  Good
<1>1. /\ folder' \in [Aid -> Folder \cup {NoFolder}]
      /\ articles_cfg' \in 0..MaxAid \cup {NoNumber}
      /\ Kept /\ ListingSafe'
  BY DiskUnchanged DEF no_disk, articleVars, no_history
<1>2. clihandlers_map' \in [Addr -> Handler \cup {NoHandler}] /\ Sessions'
  BY <1>1, BecomesSessions
<1>3. ArticlesType'
  BY <1>1 DEF ArticlesType, no_disk, articleVars, IInv, TypeOK
<1>4. TypeOK'
  BY <1>2, <1>3 DEF TypeOK, IInv, no_history, lives
<1>. QED
  BY <1>1, <1>2, <1>4 DEF Good, IInv

\* The process is gone.
LEMMA GoneGood ==
  ASSUME IInv, gone, Kept, FoldersType', ListingSafe', UNCHANGED crashed,
         articles_cfg' \in 0..MaxAid \cup {NoNumber},
         torn' \subseteq {"articles.cfg", "folder", "blacklist"}
  PROVE  Good
<1>1. ArticlesType'
  BY MaxAidAssumption DEF ArticlesType, FoldersType, gone
<1>2. TypeOK'
  BY <1>1, AccountsAssumption DEF TypeOK, IInv, gone
<1>3. Sessions'
  BY DEF Sessions, isLogined, gone
<1>. QED
  BY <1>2, <1>3 DEF Good, IInv

LEMMA DieGood ==
  ASSUME IInv, Die, UNCHANGED crashed
  PROVE  Good
<1>1. /\ folder' \in [Aid -> Folder \cup {NoFolder}]
      /\ articles_cfg' \in 0..MaxAid \cup {NoNumber}
      /\ Kept /\ ListingSafe'
  BY DiskUnchanged DEF Die
<1>2. torn' \subseteq {"articles.cfg", "folder", "blacklist"}
  BY DEF IInv, TypeOK, Die
<1>. QED
  BY <1>1, <1>2, GoneGood DEF Die, FoldersType

\* The process lives on, with the articles as some operation left them.
LEMMA LivesGood ==
  ASSUME IInv, Kept, FoldersType', ListingSafe', lives, UNCHANGED crashed,
         clihandlers_map' \in [Addr -> Handler \cup {NoHandler}], Sessions',
         articles_cfg' \in 0..MaxAid \cup {NoNumber}, MAXARTICLEID' \in 0..MaxAid,
         sent' \subseteq [to: Addr, text: Texts],
         told' \subseteq {"response", "blacklist", "account"} \X (Aid \cup {NoAid}) \X Uid,
         torn' \subseteq {"articles.cfg", "folder", "blacklist"}
  PROVE  Good
<1>1. ArticlesType'
  BY DEF ArticlesType, FoldersType
<1>2. TypeOK'
  BY <1>1 DEF TypeOK, IInv, lives
<1>. QED
  BY <1>2 DEF Good, IInv

LEMMA Typed ==
  ASSUME IInv
  PROVE  /\ FoldersType /\ ListingSafe
         /\ articles_cfg \in 0..MaxAid \cup {NoNumber} /\ MAXARTICLEID \in 0..MaxAid
         /\ told \subseteq {"response", "blacklist", "account"} \X (Aid \cup {NoAid}) \X Uid
         /\ torn \subseteq {"articles.cfg", "folder", "blacklist"}
BY DEF IInv, TypeOK, ArticlesType, FoldersType

LEMMA SendMsg ==
  ASSUME NEW a \in Addr, NEW text \in Texts, send_msg(a, text)
  PROVE  sent' \subseteq [to: Addr, text: Texts]
BY DEF send_msg

-----------------------------------------------------------------------------
(***************************************************************************)
(* The operations of a handler that reads commands.                        *)
(***************************************************************************)
LEMMA DisplayArticleList ==
  ASSUME IInv, NEW a \in Addr, NEW h, Held(h), func_display_article_list(a, h),
         UNCHANGED crashed
  PROVE  Good
<1>1. CASE answer(a, h, "ARTICLE_LIST") /\ no_disk /\ no_history /\ lives
  <2>1. "ARTICLE_LIST" \in Texts
    BY DEF Texts
  <2>2. QED
    BY <1>1, <2>1, SendMsg, OnlyAnswer DEF answer
<1>2. CASE Die
  BY <1>2, DieGood
<1>. QED
  BY <1>1, <1>2 DEF func_display_article_list

LEMMA Return ==
  ASSUME IInv, NEW a \in Addr, NEW h, Held(h), Reads(h), op_return(a, h), UNCHANGED crashed
  PROVE  Good
<1>1. Held(Returned(h))
  BY ReturnIsSound, IdleIsHeld DEF Held
<1>2. CASE answer(a, Returned(h), "MAIN_MENU") /\ no_disk /\ no_history /\ lives
  <2>1. "MAIN_MENU" \in Texts
    BY DEF Texts
  <2>2. QED
    BY <1>1, <1>2, <2>1, SendMsg, OnlyAnswer DEF answer
<1>3. CASE func_display_article_list(a, Returned(h))
  BY <1>1, <1>3, DisplayArticleList
<1>. QED
  BY <1>2, <1>3, Zenon DEF op_return, Returned

\* V, SU, SA, O and what is ignored.
LEMMA Walk ==
  ASSUME IInv, NEW a \in Addr, NEW h, Held(h), Reads(h), UNCHANGED crashed, NEW op,
         \/ op_visit(a, h) \/ op_showuser(a, h) \/ op_showarticle(a, h)
         \/ op_logout(a, h) \/ op_ignored(a, h, op)
  PROVE  Good
<1>1. {"MAIN_MENU", "USER_LIST", "LOGOUT"} \subseteq Texts
  BY DEF Texts
<1>2. CASE op_visit(a, h)
  BY <1>1, <1>2, SendMsg, OnlyAnswer DEF op_visit, answer
<1>3. CASE op_showuser(a, h)
  <2>1. Held(moveTo(h, "USER_LIST"))
    BY <1>3, MoveFromMenu, IdleIsHeld DEF Held, op_showuser
  <2>2. QED
    BY <1>1, <1>3, <2>1, SendMsg, OnlyAnswer DEF op_showuser, answer
<1>4. CASE op_showarticle(a, h)
  <2>1. Held(moveTo(h, "ARTICLE_LIST"))
    BY <1>4, MoveFromMenu, IdleIsHeld DEF Held, op_showarticle
  <2>2. QED
    BY <1>4, <2>1, DisplayArticleList DEF op_showarticle
<1>5. CASE op_logout(a, h)
  BY <1>1, <1>5, SendMsg, OnlyAnswer DEF op_logout, answer
<1>6. CASE op_ignored(a, h, op)
  <2>1. becomes(a, h) /\ sent' \subseteq [to: Addr, text: Texts]
    BY <1>6 DEF op_ignored, silent
  <2>2. QED
    BY <1>6, <2>1, OnlyAnswer DEF op_ignored
<1>. QED
  BY <1>2, <1>3, <1>4, <1>5, <1>6

\* Messages go out, and that is all.
LEMMA OnlySent ==
  ASSUME IInv, sent' \subseteq [to: Addr, text: Texts], UNCHANGED clihandlers_map,
         no_disk, no_history, lives, UNCHANGED crashed
  PROVE  Good
<1>1. /\ folder' \in [Aid -> Folder \cup {NoFolder}]
      /\ articles_cfg' \in 0..MaxAid \cup {NoNumber}
      /\ Kept /\ ListingSafe'
  BY DiskUnchanged DEF no_disk, articleVars, no_history
<1>2. clihandlers_map' \in [Addr -> Handler \cup {NoHandler}] /\ Sessions'
  BY <1>1, SameSessions
<1>. QED
  BY <1>1, <1>2, Typed, LivesGood DEF FoldersType, no_disk, articleVars, no_history

LEMMA YellTell ==
  ASSUME IInv, NEW a \in Addr, NEW h, UNCHANGED crashed, NEW id,
         op_yell(a, h) \/ op_tell(a, h, id)
  PROVE  Good
<1>1. {"YELL", "TELL"} \subseteq Texts /\ listeners \subseteq Addr
  BY DEF Texts, listeners
<1>2. \A to \in SUBSET listeners, text \in SUBSET {"YELL", "TELL"} :
        [to: to, text: text] \subseteq [to: Addr, text: Texts]
  BY <1>1, Zenon
<1>3. {b \in listeners : clihandlers_map[b].id = id} \in SUBSET listeners
  OBVIOUS
<1>4. sent' \subseteq [to: Addr, text: Texts]
  BY <1>2, <1>3, Zenon DEF op_yell, op_tell
<1>. QED
  BY <1>4, OnlySent DEF op_yell, op_tell

LEMMA EnterArticle ==
  ASSUME IInv, NEW a \in Addr, NEW h, Held(h), Reads(h), NEW aid,
         op_enter_article(a, h, aid), UNCHANGED crashed
  PROVE  Good
<1>1. {"DENIED", "ARTICLE", "ARTICLE_ENTER_IDERROR"} \subseteq Texts
  BY DEF Texts
<1>2. Sound(h) /\ h.pos = "ARTICLE_LIST"
  BY DEF Held, op_enter_article
<1>3. CASE /\ readable(aid, h.id)
           /\ answer(a, enter_article(moveTo(h, "ARTICLE"), aid),
                     IF h.id \in folder[aid].blacklist THEN "DENIED" ELSE "ARTICLE")
  <2>1. aid \in Aid /\ loadable(aid)
    BY <1>3 DEF readable, loadable, headerReadable, exists
  <2>2. Held(enter_article(moveTo(h, "ARTICLE"), aid))
    BY <1>2, <2>1, EnterFromList DEF Held
  <2>3. sent' \subseteq [to: Addr, text: Texts]
    BY <1>1, <1>3, SendMsg DEF answer
  <2>4. QED
    BY <1>3, <2>2, <2>3, OnlyAnswer DEF answer, op_enter_article
<1>4. CASE answer(a, exit_article(h), "ARTICLE_ENTER_IDERROR")
  <2>1. Held(exit_article(h))
    BY <1>2, ExitOnList, IdleIsHeld
  <2>2. QED
    BY <1>1, <1>4, <2>1, SendMsg, OnlyAnswer DEF answer, op_enter_article
<1>. QED
  BY <1>3, <1>4 DEF op_enter_article

\* A number is drawn for h, or the process goes.
LEMMA AddAnArticle ==
  ASSUME IInv, NEW a \in Addr, NEW h, Held(h), Reads(h), op_add_article(a, h), UNCHANGED crashed
  PROVE  Good
<1> DEFINE n == MAXARTICLEID + 1
<1>1. Sound(h) /\ h.pos = "ARTICLE_LIST" /\ "ARTICLE_EDIT_MENU" \in Texts
  BY DEF Held, op_add_article, Texts
<1>2. CASE /\ \/ getArticleID /\ UNCHANGED torn
              \/ getArticleIDFailed /\ torn' = torn \cup {"articles.cfg"}
           /\ answer(a, Drawing(h, n), "ARTICLE_EDIT_MENU")
           /\ UNCHANGED told /\ lives
  <2>1. MAXARTICLEID < MaxAid /\ UNCHANGED folder /\ MAXARTICLEID' = n /\ articles_cfg' \in {n, NoNumber}
    BY <1>2 DEF getArticleID, getArticleIDFailed
  <2>2. n \in Aid /\ n \in 0..MaxAid
    BY <2>1, Typed, MaxAidAssumption DEF Aid
  <2>3. torn \subseteq torn' /\ torn' \subseteq {"articles.cfg", "folder", "blacklist"}
    BY <1>2, Typed
  <2>4. FoldersType' /\ Kept /\ NoneNew
    BY <2>1, Typed, UnchangedFolders
  <2>5. ListingSafe'
    BY <2>3, <2>4, Typed, ListingKept
  <2>6. Held(Drawing(h, n))
    BY <1>1, <2>2, DrawFromList, IdleIsHeld
  <2>7. clihandlers_map' \in [Addr -> Handler \cup {NoHandler}] /\ Sessions'
    BY <1>2, <2>4, <2>6, BecomesSessions DEF answer
  <2>8. sent' \subseteq [to: Addr, text: Texts]
    BY <1>1, <1>2, SendMsg DEF answer
  <2>9. told' \subseteq {"response", "blacklist", "account"} \X (Aid \cup {NoAid}) \X Uid
    BY <1>2, Typed
  <2>10. articles_cfg' \in 0..MaxAid \cup {NoNumber} /\ MAXARTICLEID' \in 0..MaxAid
    BY <2>1, <2>2
  <2>11. QED
    BY <1>2, <2>3, <2>4, <2>5, <2>7, <2>8, <2>9, <2>10, LivesGood
<1>3. CASE /\ MAXARTICLEID < MaxAid
           /\ getArticleIDStopped /\ gone
           /\ torn' = IF articles_cfg' = NoNumber THEN torn \cup {"articles.cfg"} ELSE torn
  <2>1. FoldersType' /\ Kept /\ NoneNew
    BY <1>3, Typed, UnchangedFolders DEF getArticleIDStopped
  <2>2. torn \subseteq torn' /\ torn' \subseteq {"articles.cfg", "folder", "blacklist"}
    BY <1>3, Typed
  <2>3. ListingSafe'
    BY <2>1, <2>2, Typed, ListingKept
  <2>4. articles_cfg' \in 0..MaxAid \cup {NoNumber}
    BY <1>3, Typed, MaxAidAssumption DEF getArticleIDStopped
  <2>5. QED
    BY <1>3, <2>1, <2>2, <2>3, <2>4, GoneGood
<1>4. CASE Die
  BY <1>4, DieGood
<1>. QED
  BY <1>2, <1>3, <1>4, Zenon DEF op_add_article, Drawing

\* The operations on the article of h's page: its folder is changed, or is not, in
\* a way that keeps it, and the process lives or goes.
LEMMA PageChanged ==
  ASSUME IInv, NEW a \in Addr, NEW h, Held(h),
         FoldersType', Kept, NoneNew, UNCHANGED articles_cfg, UNCHANGED crashed,
         torn \subseteq torn', torn' \subseteq {"articles.cfg", "folder", "blacklist"},
         told' \subseteq {"response", "blacklist", "account"} \X (Aid \cup {NoAid}) \X Uid,
         \/ /\ becomes(a, h) /\ sent' \subseteq [to: Addr, text: Texts]
            /\ UNCHANGED MAXARTICLEID /\ lives
         \/ gone
  PROVE  Good
<1>1. ListingSafe'
  BY Typed, ListingKept
<1>2. CASE gone
  BY <1>1, <1>2, Typed, GoneGood
<1>3. CASE /\ becomes(a, h) /\ sent' \subseteq [to: Addr, text: Texts]
           /\ UNCHANGED MAXARTICLEID /\ lives
  <2>1. clihandlers_map' \in [Addr -> Handler \cup {NoHandler}] /\ Sessions'
    BY <1>3, BecomesSessions
  <2>2. QED
    BY <1>1, <1>3, <2>1, Typed, LivesGood
<1>. QED
  BY <1>2, <1>3

LEMMA Response ==
  ASSUME IInv, NEW a \in Addr, NEW h, Held(h), op_response(a, h), UNCHANGED crashed
  PROVE  Good
<1>1. h.cur_aid \in Aid /\ exists(h.cur_aid) /\ h.id \in Uid
  BY OnPage DEF op_response, Held, Sound, Handler
<1>2. FoldersType' /\ Kept /\ NoneNew
  BY <1>1, Typed, AddResponse, UnchangedFolders DEF op_response
<1>3. {"RESPONSE_SUCCESS", "RESPONSE_FAILED"} \subseteq Texts
  BY DEF Texts
<1>4. \/ /\ becomes(a, h) /\ sent' \subseteq [to: Addr, text: Texts]
         /\ UNCHANGED MAXARTICLEID /\ lives
      \/ gone
  BY <1>3, SendMsg DEF op_response, answer
<1>5. told' = told \/ told' = told \cup {<<"response", h.cur_aid, h.id>>}
  BY DEF op_response, gone
<1>6. told' \subseteq {"response", "blacklist", "account"} \X (Aid \cup {NoAid}) \X Uid
  BY <1>1, <1>5, Typed
<1>7. UNCHANGED <<articles_cfg, torn>>
  BY DEF op_response
<1>. QED
  BY <1>2, <1>4, <1>6, <1>7, Typed, PageChanged

LEMMA AddBlack ==
  ASSUME IInv, NEW a \in Addr, NEW h, Held(h), NEW bid \in Uid, op_add_black(a, h, bid),
         UNCHANGED crashed
  PROVE  Good
<1>1. h.cur_aid \in Aid /\ exists(h.cur_aid)
  BY OnPage DEF op_add_black
<1>2. UNCHANGED folder \/ appendBlacklist(h.cur_aid, bid)
  BY DEF op_add_black
<1>3. FoldersType' /\ Kept /\ NoneNew
  BY <1>1, <1>2, Typed, Blacklisting, UnchangedFolders
<1>4. {"APPEND_BLACK_SUCCEED", "APPEND_BLACK_FAILED"} \subseteq Texts
  BY DEF Texts
<1>5. /\ becomes(a, h) /\ sent' \subseteq [to: Addr, text: Texts]
      /\ UNCHANGED <<articles_cfg, MAXARTICLEID, torn>> /\ lives
  BY <1>4, SendMsg DEF op_add_black, answer
<1>6. told' = told \/ told' = told \cup {<<"blacklist", h.cur_aid, bid>>}
  BY DEF op_add_black
<1>7. told' \subseteq {"response", "blacklist", "account"} \X (Aid \cup {NoAid}) \X Uid
  BY <1>1, <1>6, Typed
<1>. QED
  BY <1>3, <1>5, <1>7, Typed, PageChanged

LEMMA DelBlack ==
  ASSUME IInv, NEW a \in Addr, NEW h, Held(h), NEW bid \in Uid, op_del_black(a, h, bid),
         UNCHANGED crashed
  PROVE  Good
<1>1. h.cur_aid \in Aid /\ exists(h.cur_aid)
  BY OnPage DEF op_del_black
<1>2. \/ UNCHANGED folder
      \/ removefromBlacklist(h.cur_aid, bid)
      \/ removefromBlacklistStopped(h.cur_aid, bid)
  BY DEF op_del_black
<1>3. FoldersType' /\ Kept /\ NoneNew
  BY <1>1, <1>2, Typed, Blacklisting, UnchangedFolders
<1>4. {"DEL_BLACK_SUCCEED", "DEL_BLACK_FAILED"} \subseteq Texts
  BY DEF Texts
<1>5. \/ /\ becomes(a, h) /\ sent' \subseteq [to: Addr, text: Texts]
         /\ UNCHANGED MAXARTICLEID /\ lives
      \/ gone
  BY <1>4, SendMsg DEF op_del_black, answer
<1>6. told' \subseteq told
  BY DEF op_del_black, gone
<1>7. UNCHANGED articles_cfg /\ (torn' = torn \/ torn' = torn \cup {"blacklist"})
  BY DEF op_del_black
<1>. QED
  BY <1>3, <1>5, <1>6, <1>7, Typed, PageChanged

-----------------------------------------------------------------------------
\* The text of a draft.
LEMMA RecvArticle ==
  ASSUME IInv, NEW a \in Addr, NEW h, Held(h), h.state = "RECV_ARTICLE", NEW args \in Body,
         statehandler_recv_article(a, h, args), UNCHANGED crashed
  PROVE  Good
<1> DEFINE d == h.article_ptr
<1>1. d.aid \in Aid /\ d.pid \in Uid
  BY DEF Held, Sound, Idle, Entered, Drafting, Reads, Edits, Draft
<1>2. CASE /\ \/ store(d.aid, d.pid, args) /\ UNCHANGED torn
              \/ storeFailed(d.aid, d.pid, args) /\ torn' = torn \cup {"folder"}
           /\ silent(a, Stored(h))
           /\ UNCHANGED <<articles_cfg, MAXARTICLEID, told>> /\ lives
  <2>1. FoldersType' /\ Kept /\ NoneNewBut(d.aid)
    BY <1>1, <1>2, Typed, StoreKeeps, StoreFailedKeeps
  <2>2. ASSUME "folder" \notin torn', NEW n \in Aid, exists(n)'
        PROVE  headerReadable(n)'
    <3>1. store(d.aid, d.pid, args) /\ "folder" \notin torn
      BY <1>2, <2>2
    <3>2. CASE exists(n)
      BY <2>1, <3>1, <3>2, Typed, KeptReadable DEF ListingSafe
    <3>3. CASE ~exists(n)
      <4>1. n = d.aid
        BY <2>1, <2>2, <3>3 DEF NoneNewBut
      <4>2. QED
        BY <1>1, <3>1, <3>3, <4>1, Typed, StoreKeeps
    <3>4. QED
      BY <3>2, <3>3
  <2>3. ListingSafe'
    BY <2>2 DEF ListingSafe
  <2>4. Held(Stored(h))
    BY StoredIsSound, IdleIsHeld DEF Held
  <2>5. clihandlers_map' \in [Addr -> Handler \cup {NoHandler}] /\ Sessions'
    BY <1>2, <2>1, <2>4, BecomesSessions DEF silent
  <2>6. torn' \subseteq {"articles.cfg", "folder", "blacklist"} /\ sent' \subseteq [to: Addr, text: Texts]
    BY <1>2, Typed DEF silent
  <2>7. QED
    BY <1>2, <2>1, <2>3, <2>5, <2>6, Typed, LivesGood
<1>3. CASE /\ storeStopped(d.aid, d.pid, args) /\ gone
           /\ UNCHANGED articles_cfg
           /\ torn' = torn \cup {"folder"}
  <2>1. FoldersType' /\ Kept
    BY <1>1, <1>3, Typed, StoreStoppedKeeps
  <2>2. ListingSafe' /\ torn' \subseteq {"articles.cfg", "folder", "blacklist"}
    BY <1>3, Typed DEF ListingSafe
  <2>3. QED
    BY <1>3, <2>1, <2>2, Typed, GoneGood
<1>. QED
  BY <1>2, <1>3, Zenon DEF statehandler_recv_article, Stored

LEMMA RecvText ==
  ASSUME IInv, NEW a \in Addr, NEW h, Held(h), Reads(h), NEW args, NamesUsers(args),
         statehandler_recv_text(a, h, args), UNCHANGED crashed
  PROVE  Good
<1>1. CASE op_return(a, h)
  BY <1>1, Return
<1>2. CASE \/ op_visit(a, h) \/ op_showuser(a, h) \/ op_showarticle(a, h)
           \/ op_logout(a, h) \/ op_ignored(a, h, Head(args))
  BY <1>2, Walk
<1>3. CASE op_yell(a, h) \/ \E id \in Given(args, 2, Uid) : op_tell(a, h, id)
  BY <1>3, YellTell
<1>4. CASE \E aid \in Given(args, 2, Aid) : op_enter_article(a, h, aid)
  BY <1>4, EnterArticle
<1>5. CASE op_add_article(a, h)
  BY <1>5, AddAnArticle
<1>6. CASE op_response(a, h)
  BY <1>6, Response
<1>7. CASE op_overread(a, h, args)
  BY <1>7, DieGood DEF op_overread
<1>8. CASE Head(args) = "AB" /\ \E bid \in Given(args, 2, Uid) : op_add_black(a, h, bid)
  <2>1. Given(args, 2, Uid) \subseteq Uid
    BY <1>8 DEF Given, NamesUsers
  <2>2. QED
    BY <1>8, <2>1, AddBlack
<1>9. CASE Head(args) = "DB" /\ \E bid \in Given(args, 2, Uid) : op_del_black(a, h, bid)
  <2>1. Given(args, 2, Uid) \subseteq Uid
    BY <1>9 DEF Given, NamesUsers
  <2>2. QED
    BY <1>9, <2>1, DelBlack
<1>. QED
  BY <1>1, <1>2, <1>3, <1>4, <1>5, <1>6, <1>7, <1>8, <1>9, Zenon DEF statehandler_recv_text

-----------------------------------------------------------------------------
\* A datagram of somebody who is not logged in.
LEMMA Guest ==
  ASSUME IInv, NEW a \in Addr, NEW args, NamesUsers(args), func_guest_mux(a, args),
         UNCHANGED crashed
  PROVE  Good
<1>1. /\ folder' \in [Aid -> Folder \cup {NoFolder}]
      /\ articles_cfg' \in 0..MaxAid \cup {NoNumber}
      /\ Kept /\ ListingSafe'
  BY DiskUnchanged DEF func_guest_mux, no_disk, articleVars
<1>2. \/ UNCHANGED <<accounts_map, told>>
      \/ /\ args[2] \in Uid /\ args[3] \in Pwd
         /\ accounts_map' = [accounts_map EXCEPT ![args[2]] = args[3]]
         /\ told' = told \cup {<<"account", NoAid, args[2]>>}
  BY DEF func_guest_mux, func_register, func_login, NamesUsers
<1>3. UNCHANGED clihandlers_map \/ (args[2] \in Uid /\ becomes(a, NewHandler(args[2])))
  BY DEF func_guest_mux, func_register, func_login, answer, NamesUsers
<1>4. /\ accounts_map' \in [Uid -> Pwd \cup {NoPwd}]
      /\ told' \subseteq {"response", "blacklist", "account"} \X (Aid \cup {NoAid}) \X Uid
  <2>1. accounts_map \in [Uid -> Pwd \cup {NoPwd}]
    BY DEF IInv, TypeOK
  <2>2. QED
    BY <1>2, <2>1, Typed
<1>5. clihandlers_map' \in [Addr -> Handler \cup {NoHandler}] /\ Sessions'
  BY <1>1, <1>3, SameSessions, BecomesSessions, NewIsSound, IdleIsHeld
<1>6. {"ENTRY_MENU", "REG_INVALIDARGS", "REG_DUP", "REG_SUCCESS", "LOGIN_UID_ERROR",
       "LOGIN_PWD_ERROR", "LOGIN_SUCCESS"} \subseteq Texts
  BY DEF Texts
<1>7. sent' \subseteq [to: Addr, text: Texts]
  BY <1>6, SendMsg DEF func_guest_mux, func_register, func_login, answer
<1>8. ArticlesType'
  BY <1>1, Typed DEF ArticlesType, func_guest_mux, no_disk, articleVars
<1>9. TypeOK'
  BY <1>4, <1>5, <1>7, <1>8 DEF TypeOK, IInv, func_guest_mux
<1>. QED
  BY <1>1, <1>5, <1>9 DEF Good, IInv

LEMMA Restarted ==
  ASSUME IInv, Restart
  PROVE  Good
<1>1. /\ folder' \in [Aid -> Folder \cup {NoFolder}]
      /\ articles_cfg' \in 0..MaxAid \cup {NoNumber}
      /\ Kept /\ ListingSafe'
  BY DiskUnchanged DEF Restart
<1>2. MAXARTICLEID' \in 0..MaxAid
  BY Typed, MaxAidAssumption DEF Restart, setMaxartileID
<1>3. clihandlers_map' \in [Addr -> Handler \cup {NoHandler}] /\ Sessions'
  BY <1>1, SameSessions DEF Restart
<1>4. ArticlesType'
  BY <1>1, <1>2 DEF ArticlesType
<1>5. crashed' \in Nat
  BY DEF IInv, TypeOK, Restart
<1>6. TypeOK'
  BY <1>3, <1>4, <1>5, AccountsAssumption DEF TypeOK, IInv, Restart
<1>. QED
  BY <1>1, <1>3, <1>6 DEF Good, IInv

\* What may come: the text of a draft, and otherwise a command.
Acceptable(a, args) ==
  IF isLogined(a) /\ clihandlers_map[a].state = "RECV_ARTICLE" THEN args \in Body
  ELSE NamesUsers(args)

LEMMA ArrivingAcceptable ==
  ASSUME NEW a, NEW args \in Arriving(a)
  PROVE  Acceptable(a, args)
BY InputAssumption DEF Arriving, Acceptable

LEMMA Handled ==
  ASSUME IInv, NEW a \in Addr, NEW args, Acceptable(a, args), handler_entry(a, args)
  PROVE  Good
<1>1. UNCHANGED crashed
  BY DEF handler_entry
<1>2. CASE isLogined(a) /\ func_user_mux(a, args)
  <2>1. CASE /\ clihandlers_map[a].state = "RECV_TEXT"
             /\ statehandler_recv_text(a, clihandlers_map[a], args)
    <3>1. NamesUsers(args)
      BY <2>1 DEF Acceptable
    <3>2. QED
      BY <1>1, <1>2, <2>1, <3>1, HandlerOf, RecvText
  <2>2. CASE /\ clihandlers_map[a].state = "RECV_ARTICLE"
             /\ statehandler_recv_article(a, clihandlers_map[a], args)
    <3>1. args \in Body
      BY <1>2, <2>2 DEF Acceptable
    <3>2. QED
      BY <1>1, <1>2, <2>2, <3>1, HandlerOf, RecvArticle
  <2>3. QED
    BY <1>2, <2>1, <2>2, Zenon DEF func_user_mux
<1>3. CASE ~isLogined(a) /\ func_guest_mux(a, args)
  <2>1. NamesUsers(args)
    BY <1>3 DEF Acceptable
  <2>2. QED
    BY <1>1, <1>3, <2>1, Guest
<1>. QED
  BY <1>2, <1>3 DEF handler_entry

LEMMA Stuttered ==
  ASSUME IInv, UNCHANGED vars
  PROVE  Good
<1>1. /\ no_disk /\ no_history /\ lives /\ UNCHANGED crashed
      /\ UNCHANGED clihandlers_map /\ sent' = sent
  BY DEF vars, articleVars, sessionVars, historyVars, no_disk, no_history, lives
<1>. QED
  BY <1>1, OnlySent DEF IInv, TypeOK

LEMMA StepInv == IInv /\ [Next]_vars => Good
<1> SUFFICES ASSUME IInv, [Next]_vars PROVE Good
  OBVIOUS
<1>1. ASSUME NEW a \in Addr, NEW args \in Arriving(a), handler_entry(a, args) PROVE Good
  BY <1>1, ArrivingAcceptable, Handled
<1>2. CASE Crash
  BY <1>2, DieGood DEF Crash
<1>3. CASE Restart
  BY <1>3, Restarted
<1>4. CASE UNCHANGED vars
  BY <1>4, Stuttered
<1>. QED
  BY <1>1, <1>2, <1>3, <1>4 DEF Next

LEMMA Invariance == Spec => []IInv
<1>1. IInv /\ [Next]_vars => IInv'
  BY StepInv DEF Good
<1>. QED
  BY <1>1, InitInv, PTL DEF Spec

(***************************************************************************)
(* The theorems.                                                           *)
(***************************************************************************)

\* Every variable of the legacy server has its type in every reachable state.
THEOREM TypeCorrect == Spec => []TypeOK
<1>1. IInv => TypeOK
  BY DEF IInv
<1>. QED
  BY <1>1, Invariance, PTL

\* The position, the stack of positions, the entered article and the draft of every
\* Clienthandler agree, whatever datagrams arrive and wherever the process dies.
THEOREM SessionsCorrect == Spec => []SessionShape
<1>1. IInv => SessionShape
  BY SessionsAreSound
<1>. QED
  BY <1>1, Invariance, PTL

\* The article that op_add_black(), op_del_black() and op_response() find by cur_aid
\* can be loaded, in every reachable state.
THEOREM EnteredCorrect == Spec => []EnteredLoadable
<1>1. IInv => EnteredLoadable
  BY SessionsAreSound
<1>. QED
  BY <1>1, Invariance, PTL

\* The only way to a folder on which func_display_article_list() throws is a process
\* that stopped inside Article::store(), or a write that failed there.
THEOREM ListingCorrect == Spec => []ListingSafe
<1>1. IInv => ListingSafe
  BY DEF IInv
<1>. QED
  BY <1>1, Invariance, PTL

\* No step takes away an article, its publisher or its text: neither drafts with the
\* same number, nor failing writes, nor the death of the process.
THEOREM ArticlesKeptCorrect == Spec => ArticlesKept
<1>1. IInv /\ [Next]_vars =>
        [\A aid \in Aid : exists(aid) =>
           /\ folder'[aid] # NoFolder
           /\ folder'[aid].info = folder[aid].info
           /\ folder'[aid].context = folder[aid].context]_vars
  BY StepInv DEF Good, Kept
<1>. QED
  BY <1>1, Invariance, PTL DEF Spec, ArticlesKept

=============================================================================
