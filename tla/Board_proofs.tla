---------------------------- MODULE Board_proofs ----------------------------
(***************************************************************************)
(* What the legacy server keeps of what it said, and what it is to its     *)
(* users, as long as no write fails: an answer that was acknowledged stays *)
(* on disk, and handlers, drafts and folders implement module Board.       *)
(***************************************************************************)
EXTENDS Drafts_proofs

(***************************************************************************)
(* Folders as articles.                                                    *)
(***************************************************************************)

\* The article that a loadable folder is.
Shows(f) == [pid |-> f.info, text |-> f.context,
             answers |-> IF f.response = NoFile THEN {} ELSE f.response,
             blacklist |-> f.blacklist]

LEMMA ArticleShown ==
  ASSUME FoldersType, NEW n \in Aid
  PROVE  /\ ~exists(n) => ArticleOf(n) = NoFolder
         /\ exists(n) /\ ~loadable(n) => ArticleOf(n) = NULL
         /\ loadable(n) => ArticleOf(n) = Shows(folder[n]) /\ Shows(folder[n]) \in Article
<1>1. /\ ~exists(n) => ArticleOf(n) = NoFolder
      /\ exists(n) /\ ~loadable(n) => ArticleOf(n) = NULL
      /\ loadable(n) => ArticleOf(n) = Shows(folder[n])
  BY Zenon DEF ArticleOf, Shows, loadable, headerReadable
<1>2. ASSUME loadable(n)
      PROVE  Shows(folder[n]) \in Article
  <2>1. folder[n] \in Folder /\ folder[n].info \in Uid /\ folder[n].context # NoFile
    BY <1>2 DEF loadable, headerReadable, exists, FoldersType
  <2>2. /\ folder[n].context \in Body \cup {TornBody}
        /\ folder[n].response \in (SUBSET Uid) \cup {NoFile} /\ folder[n].blacklist \in SUBSET Uid
    BY <2>1 DEF Folder
  <2>3. (IF folder[n].response = NoFile THEN {} ELSE folder[n].response) \in SUBSET Uid
    BY <2>2
  <2>4. QED
    BY <2>1, <2>2, <2>3 DEF Shows, Article
<1>. QED
  BY <1>1, <1>2

\* What is there to be entered and what takes a number, seen in Articles.
LEMMA ArticleThere ==
  ASSUME FoldersType, NEW n \in Aid
  PROVE  /\ exists(n) <=> Articles[n] # NoFolder
         /\ loadable(n) => Articles[n] \in Article /\ Articles[n] \notin {NoFolder, NULL}
         /\ loadable(n) => Articles[n] = Shows(folder[n])
<1>1. Articles[n] = ArticleOf(n)
  BY DEF Articles
<1>2. loadable(n) => exists(n)
  BY DEF loadable, headerReadable
<1>3. \A x \in Article : x # NoFolder /\ x # NULL
  BY ArticleAssumption
<1>4. loadable(n) => Articles[n] \in Article /\ Articles[n] = Shows(folder[n])
  BY <1>1, ArticleShown
<1>5. exists(n) <=> Articles[n] # NoFolder
  <2>1. CASE loadable(n)
    BY <1>2, <1>3, <1>4, <2>1
  <2>2. CASE ~loadable(n)
    BY <1>1, <2>2, ArticleShown, ArticleAssumption
  <2>3. QED
    BY <2>1, <2>2
<1>. QED
  BY <1>3, <1>4, <1>5

LEMMA SameArticles ==
  ASSUME UNCHANGED folder
  PROVE  Articles' = Articles
BY DEF Articles, ArticleOf, exists, loadable, headerReadable

\* The folder of one number is replaced.
LEMMA OneArticle ==
  ASSUME FoldersType, NEW n \in Aid, NEW f \in Folder, folder' = [folder EXCEPT ![n] = f]
  PROVE  /\ f.info \in Uid /\ f.context # NoFile => Articles' = [Articles EXCEPT ![n] = Shows(f)]
         /\ ~(f.info \in Uid /\ f.context # NoFile) => Articles' = [Articles EXCEPT ![n] = NULL]
<1>1. folder'[n] = f /\ f # NoFolder /\ \A m \in Aid \ {n} : folder'[m] = folder[m]
  BY NoFolderAssumption DEF FoldersType
<1>2. \A m \in Aid \ {n} : ArticleOf(m)' = ArticleOf(m)
  BY <1>1 DEF ArticleOf, exists, loadable, headerReadable
<1>3. exists(n)' /\ (loadable(n)' <=> f.info \in Uid /\ f.context # NoFile)
  BY <1>1 DEF exists, loadable, headerReadable
<1>4. ArticleOf(n)' = IF loadable(n)' THEN Shows(f) ELSE NULL
  BY <1>1, <1>3, Zenon DEF ArticleOf, Shows
<1>5. Articles' = [m \in Aid |-> ArticleOf(m)'] /\ Articles = [m \in Aid |-> ArticleOf(m)]
  BY DEF Articles
<1>6. Articles' = [Articles EXCEPT ![n] = ArticleOf(n)']
  BY <1>2, <1>5
<1>. QED
  BY <1>3, <1>4, <1>6

\* A response is appended; of one that was stopped Board sees nothing.
LEMMA AnswerArticle ==
  ASSUME FoldersType, NEW n, loadable(n), NEW id \in Uid
  PROVE  /\ addResponse(n, id) =>
              Articles' = [Articles EXCEPT ![n].answers = Articles[n].answers \cup {id}]
         /\ addResponseStopped(n) => Articles' = Articles
<1>1. n \in Aid /\ folder[n] \in Folder /\ folder[n].info \in Uid /\ folder[n].context # NoFile
  BY FolderOf DEF loadable, headerReadable
<1> PICK f \in Folder : f = folder[n]
  BY <1>1
<1>2. f.response \in (SUBSET Uid) \cup {NoFile}
  BY DEF Folder
<1>3. Articles[n] = Shows(f)
  BY <1>1, ArticleThere
<1>4. ASSUME NEW r \in (SUBSET Uid) \cup {NoFile}, folder' = [folder EXCEPT ![n].response = r]
      PROVE  Articles' = [Articles EXCEPT ![n] =
                [Articles[n] EXCEPT !.answers = IF r = NoFile THEN {} ELSE r]]
  <2> DEFINE g == [f EXCEPT !.response = r]
  <2>1. g \in Folder /\ g.info = f.info /\ g.context = f.context /\ g.response = r /\ g.blacklist = f.blacklist
    BY DEF Folder
  <2>2. folder' = [folder EXCEPT ![n] = g]
    BY <1>1, <1>4 DEF FoldersType
  <2>3. Shows(g) = [Shows(f) EXCEPT !.answers = IF r = NoFile THEN {} ELSE r]
    BY <2>1 DEF Shows
  <2> HIDE DEF g
  <2>4. Articles' = [Articles EXCEPT ![n] = Shows(g)]
    BY <1>1, <2>1, <2>2, OneArticle
  <2>5. QED
    BY <1>3, <2>3, <2>4
<1>5. ASSUME addResponse(n, id)
      PROVE  Articles' = [Articles EXCEPT ![n].answers = Articles[n].answers \cup {id}]
  <2> DEFINE r == IF f.response = NoFile THEN {id} ELSE f.response \cup {id}
  <2>1. folder' = [folder EXCEPT ![n].response = r]
    BY <1>1, <1>5 DEF addResponse, FoldersType
  <2>2. r \in SUBSET Uid /\ r # NoFile
    BY <1>2, NoFileAssumption
  <2>3. Articles[n].answers = IF f.response = NoFile THEN {} ELSE f.response
    BY <1>3 DEF Shows
  <2>4. r = Articles[n].answers \cup {id}
    BY <2>3
  <2> HIDE DEF r
  <2>5. Articles' = [Articles EXCEPT ![n] = [Articles[n] EXCEPT !.answers = r]]
    BY <1>4, <2>1, <2>2
  <2>6. QED
    BY <2>4, <2>5
<1>6. ASSUME addResponseStopped(n)
      PROVE  Articles' = Articles
  <2> DEFINE r == IF f.response = NoFile THEN {} ELSE f.response
  <2>1. folder' = [folder EXCEPT ![n].response = r]
    BY <1>1, <1>6 DEF addResponseStopped, FoldersType
  <2>2. r \in SUBSET Uid /\ r # NoFile /\ Articles[n].answers = r
    BY <1>2, <1>3, NoFileAssumption DEF Shows
  <2>3. Articles[n] \in Article
    BY <1>1, ArticleThere
  <2> HIDE DEF r
  <2>4. Articles' = [Articles EXCEPT ![n] = [Articles[n] EXCEPT !.answers = r]]
    BY <1>4, <2>1, <2>2
  <2>5. [Articles[n] EXCEPT !.answers = r] = Articles[n]
    BY <2>2, <2>3 DEF Article
  <2>6. QED
    BY <1>1, <2>4, <2>5 DEF Articles
<1>. QED
  BY <1>5, <1>6

LEMMA BlackArticle ==
  ASSUME FoldersType, NEW n, loadable(n), NEW b \in SUBSET Uid,
         folder' = [folder EXCEPT ![n].blacklist = b]
  PROVE  /\ Articles' = [Articles EXCEPT ![n].blacklist = b]
         /\ Articles[n].blacklist = folder[n].blacklist
<1>1. n \in Aid /\ folder[n] \in Folder /\ folder[n].info \in Uid /\ folder[n].context # NoFile
  BY FolderOf DEF loadable, headerReadable
<1> PICK f \in Folder : f = folder[n]
  BY <1>1
<1>2. Articles[n] = Shows(f)
  BY <1>1, ArticleThere
<1> DEFINE g == [f EXCEPT !.blacklist = b]
<1>3. g \in Folder /\ g.info = f.info /\ g.context = f.context /\ g.response = f.response /\ g.blacklist = b
  BY DEF Folder
<1>4. folder' = [folder EXCEPT ![n] = g]
  BY <1>1 DEF FoldersType
<1>5. Shows(g) = [Shows(f) EXCEPT !.blacklist = b]
  BY <1>3 DEF Shows
<1> HIDE DEF g
<1>6. Articles' = [Articles EXCEPT ![n] = Shows(g)]
  BY <1>1, <1>3, <1>4, OneArticle
<1>7. Articles' = [Articles EXCEPT ![n] = [Articles[n] EXCEPT !.blacklist = b]]
  BY <1>2, <1>5, <1>6
<1>8. Articles[n].blacklist = folder[n].blacklist
  BY <1>2 DEF Shows
<1>. QED
  BY <1>7, <1>8

-----------------------------------------------------------------------------
(***************************************************************************)
(* Handlers as users, what they have open and what they are writing.       *)
(***************************************************************************)
UserOf(g) == IF g # NoHandler THEN g.id ELSE NoHandler
OpenOf(g) == IF g # NoHandler THEN g.cur_aid ELSE NoAid
DrawnOf(g) == IF g # NoHandler /\ g.state = "RECV_ARTICLE" THEN g.article_ptr.aid ELSE NoAid

\* What Board sees of a handler that is as it should be.
LEMMA SeenOf ==
  ASSUME NEW h, Sound(h)
  PROVE  /\ UserOf(h) = h.id /\ h.id \in Uid /\ h.id # NoHandler
         /\ OpenOf(h) = h.cur_aid
         /\ Idle(h) => OpenOf(h) = 0
         /\ h.state # "RECV_ARTICLE" => DrawnOf(h) = 0
         /\ h.state = "RECV_ARTICLE" => /\ OpenOf(h) = 0 /\ DrawnOf(h) = h.article_ptr.aid
                                        /\ h.article_ptr.aid \in Aid /\ h.article_ptr.pid = h.id
<1>1. h \in Handler /\ h # NoHandler /\ h.id \in Uid /\ h.id # NoHandler
  BY NoHandlerAssumption DEF Sound, Handler
<1>2. h.state = "RECV_ARTICLE" => h.cur_aid = NoAid /\ h.article_ptr \in Draft /\ h.article_ptr.pid = h.id
  BY DEF Sound, Idle, Entered, Drafting, Reads, Edits
<1>. QED
  BY <1>1, <1>2 DEF UserOf, OpenOf, DrawnOf, NoAid, Idle, Draft

LEMMA SeenAt ==
  ASSUME NEW a \in Addr
  PROVE  /\ Users[a] = UserOf(clihandlers_map[a])
         /\ Opened[a] = OpenOf(clihandlers_map[a])
         /\ Drawn[a] = DrawnOf(clihandlers_map[a])
BY DEF Users, Opened, Drawn, UserOf, OpenOf, DrawnOf, isLogined

LEMMA SeenBecomes ==
  ASSUME IInv, NEW a \in Addr, NEW g, becomes(a, g)
  PROVE  /\ Users' = [Users EXCEPT ![a] = UserOf(g)]
         /\ Opened' = [Opened EXCEPT ![a] = OpenOf(g)]
         /\ Drawn' = [Drawn EXCEPT ![a] = DrawnOf(g)]
<1>1. clihandlers_map \in [Addr -> Handler \cup {NoHandler}]
  BY DEF IInv, TypeOK
<1>2. clihandlers_map'[a] = g /\ \A b \in Addr \ {a} : clihandlers_map'[b] = clihandlers_map[b]
  BY <1>1 DEF becomes
<1>3. Users' = [Users EXCEPT ![a] = UserOf(g)]
  BY <1>2 DEF Users, UserOf, isLogined
<1>4. Opened' = [Opened EXCEPT ![a] = OpenOf(g)]
  BY <1>2 DEF Opened, OpenOf, isLogined
<1>5. Drawn' = [Drawn EXCEPT ![a] = DrawnOf(g)]
  BY <1>2 DEF Drawn, DrawnOf, isLogined
<1>. QED
  BY <1>3, <1>4, <1>5

LEMMA SeenSame ==
  ASSUME UNCHANGED clihandlers_map
  PROVE  Users' = Users /\ Opened' = Opened /\ Drawn' = Drawn
BY DEF Users, Opened, Drawn, isLogined

(***************************************************************************)
(* The ways a step ends, as steps of Board.                                *)
(***************************************************************************)
BoardStep == [B!Next]_B!boardVars

\* Board does not notice that the handler of a becomes g, and the folders are as
\* they were, or an answer was stopped.
LEMMA Unnoticed ==
  ASSUME IInv, NEW a \in Addr, NEW g, becomes(a, g), Articles' = Articles,
         UserOf(g) = UserOf(clihandlers_map[a]),
         OpenOf(g) = OpenOf(clihandlers_map[a]),
         DrawnOf(g) = DrawnOf(clihandlers_map[a])
  PROVE  BoardStep
<1>1. /\ Users' = [Users EXCEPT ![a] = Users[a]]
      /\ Opened' = [Opened EXCEPT ![a] = Opened[a]]
      /\ Drawn' = [Drawn EXCEPT ![a] = Drawn[a]]
  BY SeenBecomes, SeenAt
<1>2. Users' = Users /\ Opened' = Opened /\ Drawn' = Drawn
  BY <1>1 DEF Users, Opened, Drawn
<1>. QED
  BY <1>2 DEF BoardStep, B!boardVars

\* The process is gone, in the middle of nothing.
LEMMA Halted ==
  ASSUME gone, Articles' = Articles \/ \E a \in Addr : B!Partial(a)
  PROVE  BoardStep
<1>1. /\ Users' = [a \in Addr |-> NoHandler]
      /\ Opened' = [a \in Addr |-> 0]
      /\ Drawn' = [a \in Addr |-> 0]
  BY DEF gone, Users, Opened, Drawn, isLogined, NoAid
<1>2. B!Halt
  BY <1>1 DEF B!Halt
<1>. QED
  BY <1>2 DEF BoardStep, B!Next

LEMMA Died ==
  ASSUME Die
  PROVE  BoardStep
BY SameArticles, Halted DEF Die, diskVars

\* An idle handler moves on in the menus.
LEMMA Walked ==
  ASSUME IInv, NEW a \in Addr, NEW h, h = clihandlers_map[a], Sound(h), Idle(h),
         NEW g, Sound(g), Idle(g), g.id = h.id, becomes(a, g), UNCHANGED folder
  PROVE  BoardStep
<1>1. UserOf(g) = UserOf(h) /\ OpenOf(g) = OpenOf(h)
  BY SeenOf
<1>2. DrawnOf(g) = DrawnOf(h)
  BY SeenOf, IdleReads
<1>. QED
  BY <1>1, <1>2, SameArticles, Unnoticed

\* No operation on a handler changes whose it is.
LEMMA SameId ==
  ASSUME NEW h \in Handler
  PROVE  /\ \A p : moveTo(h, p).id = h.id
         /\ exit_article(h).id = h.id /\ exit_article(h) \in Handler
         /\ \A n : enter_article(moveTo(h, "ARTICLE"), n).id = h.id
         /\ back(h).id = h.id
<1>1. \A p : moveTo(h, p).id = h.id
  BY DEF moveTo, Handler
<1>2. exit_article(h).id = h.id /\ exit_article(h) \in Handler
  BY DEF exit_article, Handler
<1>3. \A n : enter_article(moveTo(h, "ARTICLE"), n).id = h.id
  BY DEF enter_article, moveTo, Handler
<1>4. \A st, p : [h EXCEPT !.pos_st = st, !.pos = p].id = h.id
  BY DEF Handler
<1>5. back(h).id = h.id
  BY <1>4, Zenon DEF back
<1>. QED
  BY <1>1, <1>2, <1>3, <1>5

LEMMA ReturnedId ==
  ASSUME NEW h \in Handler
  PROVE  Returned(h).id = h.id
<1>1. back(h).id = h.id /\ back(exit_article(h)).id = h.id
  BY SameId
<1>. QED
  BY <1>1, Zenon DEF Returned

LEMMA StoredId ==
  ASSUME NEW h, Sound(h), h.state = "RECV_ARTICLE"
  PROVE  Stored(h).id = h.id
<1>1. h \in Handler /\ back(h).id = h.id
  BY SameId DEF Sound
<1>2. \A st, p : [[h EXCEPT !.pos_st = st, !.pos = p] EXCEPT !.state = "RECV_TEXT", !.article_ptr = FREED].id = h.id
  BY <1>1 DEF Handler
<1>3. [h EXCEPT !.state = "RECV_TEXT", !.article_ptr = FREED].id = h.id
  BY <1>1 DEF Handler
<1>4. QED
  BY <1>2, <1>3, Zenon DEF Stored, back

LEMMA DrawingId ==
  ASSUME NEW h \in Handler, NEW n
  PROVE  Drawing(h, n).id = h.id
BY DEF Drawing, moveTo, Handler

-----------------------------------------------------------------------------
(***************************************************************************)
(* The operations, as steps of Board.                                      *)
(***************************************************************************)

\* A listing that can be shown, for a handler that moved on to it, or one that
\* ends the process.
LEMMA DisplayBoard ==
  ASSUME IInv, NEW a \in Addr, NEW g, func_display_article_list(a, g),
         becomes(a, g) /\ UNCHANGED folder => BoardStep
  PROVE  BoardStep
BY Died DEF func_display_article_list, answer, no_disk, articleVars, diskVars

\* RT leaves the article that is open, if one is.
LEMMA ReturnBoard ==
  ASSUME IInv, NEW a \in Addr, NEW h, h = clihandlers_map[a], Held(h), Reads(h), op_return(a, h)
  PROVE  BoardStep
<1>1. Sound(h) /\ h \in Handler /\ (Idle(h) \/ Entered(h))
  BY DEF Held, Sound, Drafting, Edits, Reads
<1>2. Sound(Returned(h)) /\ Idle(Returned(h)) /\ Returned(h).id = h.id
  BY <1>1, ReturnIsSound, ReturnedId
<1> PICK g : g = Returned(h)
  OBVIOUS
<1>3. ASSUME becomes(a, g), UNCHANGED folder
      PROVE  BoardStep
  <2>1. CASE Idle(h)
    BY <1>1, <1>2, <1>3, <2>1, Walked
  <2>2. CASE Entered(h)
    <3>1. Opened[a] # 0
      <4>1. h.cur_aid # 0
        BY <2>2, MaxAidAssumption DEF Entered, Aid
      <4>2. QED
        BY <1>1, <4>1, SeenAt, SeenOf
    <3>2. UserOf(g) = Users[a] /\ DrawnOf(g) = Drawn[a] /\ OpenOf(g) = 0
      BY <1>1, <1>2, SeenAt, SeenOf, IdleReads DEF Reads
    <3>3. /\ Users' = [Users EXCEPT ![a] = Users[a]]
          /\ Opened' = [Opened EXCEPT ![a] = 0]
          /\ Drawn' = [Drawn EXCEPT ![a] = Drawn[a]]
      BY <1>3, <3>2, SeenBecomes
    <3>4. Users' = Users /\ Drawn' = Drawn
      BY <3>3 DEF Users, Drawn
    <3>5. B!Leave(a)
      BY <1>3, <3>1, <3>3, <3>4, SameArticles DEF B!Leave
    <3>6. QED
      BY <3>5 DEF BoardStep, B!Next
  <2>3. QED
    BY <1>1, <2>1, <2>2
<1>4. \/ answer(a, g, "MAIN_MENU") /\ no_disk /\ no_history /\ lives
      \/ func_display_article_list(a, g)
  BY Zenon DEF op_return, Returned
<1>. QED
  BY <1>3, <1>4, DisplayBoard DEF answer, no_disk, articleVars, diskVars

\* V, SU, SA and what is ignored change nothing that Board sees; O signs out.
LEMMA WalkBoard ==
  ASSUME IInv, NEW a \in Addr, NEW h, h = clihandlers_map[a], Held(h), Reads(h), NEW op,
         \/ op_visit(a, h) \/ op_showuser(a, h) \/ op_showarticle(a, h)
         \/ op_logout(a, h) \/ op_ignored(a, h, op)
  PROVE  BoardStep
<1>1. Sound(h) /\ h \in Handler
  BY DEF Held, Sound
<1>2. h.pos = "MAINMENU" => Idle(h)
  BY <1>1 DEF Sound, Entered, Drafting, AtPage, AtEditor
<1>3. CASE op_visit(a, h) \/ op_ignored(a, h, op)
  <2>1. becomes(a, h) /\ UNCHANGED folder
    BY <1>3 DEF op_visit, op_ignored, answer, silent, no_disk, articleVars, diskVars
  <2>2. QED
    BY <2>1, SameArticles, Unnoticed
<1>4. ASSUME NEW p \in {"USER_LIST", "ARTICLE_LIST"}, h.pos = "MAINMENU",
             becomes(a, moveTo(h, p)), UNCHANGED folder
      PROVE  BoardStep
  <2>1. Sound(moveTo(h, p)) /\ Idle(moveTo(h, p)) /\ moveTo(h, p).id = h.id
    BY <1>1, <1>4, MoveFromMenu, SameId
  <2>2. QED
    BY <1>1, <1>2, <1>4, <2>1, Walked
<1>5. CASE op_showuser(a, h)
  BY <1>4, <1>5 DEF op_showuser, answer, no_disk, articleVars, diskVars
<1>6. CASE op_showarticle(a, h)
  BY <1>4, <1>6, DisplayBoard DEF op_showarticle
<1>7. CASE op_logout(a, h)
  <2>1. becomes(a, NoHandler) /\ UNCHANGED folder /\ Idle(h)
    BY <1>2, <1>7 DEF op_logout, answer, no_disk, articleVars, diskVars
  <2>2. Users[a] # NoHandler /\ Opened[a] = 0 /\ Drawn[a] = 0
    BY <1>1, <2>1, SeenAt, SeenOf, IdleReads
  <2>3. UserOf(NoHandler) = NoHandler /\ OpenOf(NoHandler) = Opened[a] /\ DrawnOf(NoHandler) = Drawn[a]
    BY <2>2 DEF UserOf, OpenOf, DrawnOf, NoAid
  <2>4. /\ Users' = [Users EXCEPT ![a] = NoHandler]
        /\ Opened' = [Opened EXCEPT ![a] = Opened[a]]
        /\ Drawn' = [Drawn EXCEPT ![a] = Drawn[a]]
    BY <2>1, <2>3, SeenBecomes
  <2>5. Opened' = Opened /\ Drawn' = Drawn
    BY <2>4 DEF Opened, Drawn
  <2>6. B!SignOut(a)
    BY <2>1, <2>2, <2>4, <2>5, SameArticles DEF B!SignOut
  <2>7. QED
    BY <2>6 DEF BoardStep, B!Next
<1>. QED
  BY <1>3, <1>5, <1>6, <1>7

LEMMA YellTellBoard ==
  ASSUME NEW a, NEW h, NEW id, op_yell(a, h) \/ op_tell(a, h, id)
  PROVE  BoardStep
<1>1. UNCHANGED clihandlers_map /\ UNCHANGED folder
  BY DEF op_yell, op_tell, no_disk, articleVars, diskVars
<1>. QED
  BY <1>1, SeenSame, SameArticles DEF BoardStep, B!boardVars

\* A handler on the list is idle: it has nothing open and writes nothing.
LEMMA OnList ==
  ASSUME NEW a \in Addr, NEW h, h = clihandlers_map[a], Held(h), Reads(h), h.pos = "ARTICLE_LIST"
  PROVE  /\ Sound(h) /\ h \in Handler /\ Idle(h)
         /\ Users[a] = h.id /\ h.id \in Uid /\ Users[a] # NoHandler
         /\ Opened[a] = 0 /\ Drawn[a] = 0
<1>1. Sound(h) /\ h \in Handler /\ Idle(h)
  BY DEF Held, Sound, Entered, Drafting, AtPage, AtEditor
<1>. QED
  BY <1>1, SeenAt, SeenOf, IdleReads

LEMMA EnterBoard ==
  ASSUME IInv, NEW a \in Addr, NEW h, h = clihandlers_map[a], Held(h), Reads(h), NEW aid,
         op_enter_article(a, h, aid)
  PROVE  BoardStep
<1>1. /\ Sound(h) /\ h \in Handler /\ Idle(h) /\ h.pos = "ARTICLE_LIST"
      /\ Users[a] = h.id /\ Users[a] # NoHandler /\ Opened[a] = 0 /\ Drawn[a] = 0
  BY OnList DEF op_enter_article
<1>2. UNCHANGED folder
  BY DEF op_enter_article, no_disk, articleVars, diskVars
<1>3. CASE readable(aid, h.id) /\ becomes(a, enter_article(moveTo(h, "ARTICLE"), aid))
  <2> PICK e : e = enter_article(moveTo(h, "ARTICLE"), aid)
    OBVIOUS
  <2>1. aid \in Aid /\ loadable(aid)
    BY <1>3 DEF readable, loadable, headerReadable, exists
  <2>2. Sound(e) /\ e.cur_aid = aid /\ e.id = h.id
    BY <1>1, <2>1, EnterFromList, SameId
  <2>3. e.state # "RECV_ARTICLE"
    BY <2>1, <2>2, SeenOf, MaxAidAssumption DEF Aid
  <2>4. UserOf(e) = Users[a] /\ OpenOf(e) = aid /\ DrawnOf(e) = Drawn[a]
    BY <1>1, <2>2, <2>3, SeenOf
  <2>5. /\ Users' = [Users EXCEPT ![a] = Users[a]]
        /\ Opened' = [Opened EXCEPT ![a] = aid]
        /\ Drawn' = [Drawn EXCEPT ![a] = Drawn[a]]
    BY <1>3, <2>4, SeenBecomes
  <2>6. Users' = Users /\ Drawn' = Drawn
    BY <2>5 DEF Users, Drawn
  <2>7. B!there(aid)
    BY <2>1, Typed, ArticleThere DEF B!there
  <2>8. B!Enter(a)
    BY <1>1, <1>2, <2>1, <2>5, <2>6, <2>7, SameArticles DEF B!Enter
  <2>9. QED
    BY <2>8 DEF BoardStep, B!Next
<1>4. CASE becomes(a, exit_article(h))
  BY <1>1, <1>2, <1>4, ExitOnList, SameId, Walked
<1>. QED
  BY <1>3, <1>4 DEF op_enter_article, answer

LEMMA DrawBoard ==
  ASSUME IInv, NEW a \in Addr, NEW h, h = clihandlers_map[a], Held(h), Reads(h),
         op_add_article(a, h)
  PROVE  BoardStep
<1> PICK n : n = MAXARTICLEID + 1
  OBVIOUS
<1>1. /\ Sound(h) /\ h \in Handler /\ h.pos = "ARTICLE_LIST"
      /\ Users[a] = h.id /\ Users[a] # NoHandler /\ Opened[a] = 0 /\ Drawn[a] = 0
  BY OnList DEF op_add_article
<1>2. CASE /\ getArticleID \/ getArticleIDFailed
           /\ becomes(a, Drawing(h, n))
  <2> PICK e : e = Drawing(h, n)
    OBVIOUS
  <2>1. n \in Aid /\ UNCHANGED folder
    BY <1>2, Typed, MaxAidAssumption DEF getArticleID, getArticleIDFailed, Aid
  <2>2. /\ Sound(e) /\ Drafting(e) /\ e.article_ptr = [aid |-> n, pid |-> h.id]
        /\ e.id = h.id
    BY <1>1, <2>1, DrawFromList, DrawingId
  <2>3. e.state = "RECV_ARTICLE" /\ e.article_ptr.aid = n
    BY <2>2 DEF Drafting, Edits
  <2>4. UserOf(e) = Users[a] /\ OpenOf(e) = Opened[a] /\ DrawnOf(e) = n
    BY <1>1, <2>2, <2>3, SeenOf
  <2>5. /\ Users' = [Users EXCEPT ![a] = Users[a]]
        /\ Opened' = [Opened EXCEPT ![a] = Opened[a]]
        /\ Drawn' = [Drawn EXCEPT ![a] = n]
    BY <1>2, <2>4, SeenBecomes
  <2>6. Users' = Users /\ Opened' = Opened
    BY <2>5 DEF Users, Opened
  <2>7. B!Draw(a)
    BY <1>1, <2>1, <2>5, <2>6, SameArticles DEF B!Draw
  <2>8. QED
    BY <2>7 DEF BoardStep, B!Next
<1>3. CASE getArticleIDStopped /\ gone
  BY <1>3, SameArticles, Halted DEF getArticleIDStopped
<1>4. CASE Die
  BY <1>4, Died
<1>. QED
  BY <1>2, <1>3, <1>4, Zenon DEF op_add_article, Drawing, answer

\* The text of a draft is published, unless its number is taken.
LEMMA StoreBoard ==
  ASSUME ~DiskFails, IInv, NEW a \in Addr, Editing(a), NEW args \in Body,
         statehandler_recv_article(a, clihandlers_map[a], args)
  PROVE  BoardStep
<1> PICK h : h = clihandlers_map[a]
  OBVIOUS
<1> PICK d : d = h.article_ptr
  OBVIOUS
<1>1. Sound(h) /\ h.state = "RECV_ARTICLE"
  BY HandlerOf DEF Editing, Held
<1>2. /\ Users[a] = d.pid /\ d.pid \in Uid /\ d.pid = h.id
      /\ Opened[a] = 0 /\ Drawn[a] = d.aid
      /\ d.aid \in Aid /\ d.aid # 0
  BY <1>1, SeenOf, SeenAt, MaxAidAssumption DEF Aid
<1>3. FoldersType
  BY Typed
<1>4. exists(d.aid) <=> Articles[d.aid] # NoFolder
  BY <1>2, <1>3, ArticleThere
<1>5. CASE store(d.aid, d.pid, args) /\ becomes(a, Stored(h))
  <2>1. UserOf(Stored(h)) = Users[a] /\ OpenOf(Stored(h)) = Opened[a] /\ DrawnOf(Stored(h)) = 0
    BY <1>1, <1>2, StoredIsSound, StoredId, SeenOf, IdleReads
  <2>2. /\ Users' = [Users EXCEPT ![a] = Users[a]]
        /\ Opened' = [Opened EXCEPT ![a] = Opened[a]]
        /\ Drawn' = [Drawn EXCEPT ![a] = 0]
    BY <1>5, <2>1, SeenBecomes
  <2>3. Users' = Users /\ Opened' = Opened
    BY <2>2 DEF Users, Opened
  <2>4. Articles' = [Articles EXCEPT ![Drawn[a]] =
                       IF @ = NoFolder THEN B!Published(Users[a], args) ELSE @]
    <3>1. CASE exists(d.aid)
      <4>1. Articles' = Articles
        BY <1>5, <3>1, SameArticles DEF store
      <4>2. QED
        BY <1>2, <1>4, <3>1, <4>1 DEF Articles
    <3>2. CASE ~exists(d.aid)
      <4> PICK c : c = Complete(d.pid, args)
        OBVIOUS
      <4>1. c \in Folder /\ c.info \in Uid /\ c.context # NoFile
        BY <1>2, NoFileAssumption DEF Complete, Folder
      <4>2. Shows(c) = B!Published(Users[a], args)
        BY <1>2 DEF Shows, Complete, B!Published
      <4>3. folder' = [folder EXCEPT ![d.aid] = c]
        BY <1>5, <3>2 DEF store
      <4>4. Articles' = [Articles EXCEPT ![d.aid] = B!Published(Users[a], args)]
        <5>1. Articles' = [Articles EXCEPT ![d.aid] = Shows(c)]
          BY <1>2, <1>3, <4>1, <4>3, OneArticle
        <5>2. QED
          BY <4>2, <5>1
      <4>5. QED
        BY <1>2, <1>4, <3>2, <4>4 DEF Articles
    <3>3. QED
      BY <3>1, <3>2
  <2>5. B!Publish(a)
    BY <1>2, <2>2, <2>3, <2>4 DEF B!Publish
  <2>6. QED
    BY <2>5 DEF BoardStep, B!Next
<1>6. CASE storeStopped(d.aid, d.pid, args) /\ gone
  <2> DEFINE Left == {B!Published(Users[a], text) : text \in Body \cup {TornBody}} \cup {NULL}
             file(i, c) == [info |-> i, context |-> c, response |-> NoFile, blacklist |-> {}]
  <2>1. PICK f \in Begun(d.pid, args) : folder' = [folder EXCEPT ![d.aid] = f]
    BY <1>6 DEF storeStopped
  <2>2. \/ f = file(NoFile, NoFile) \/ f = file(TornInfo, NoFile)
        \/ \E c \in {NoFile, TornBody, args} : f = file(d.pid, c)
    BY <2>1 DEF Begun
  <2>3. PICK i \in Uid \cup {TornInfo, NoFile}, c \in Body \cup {TornBody, NoFile} :
          /\ f = file(i, c)
          /\ i \in Uid => i = d.pid
          /\ i \notin Uid => c = NoFile
    BY <1>2, <2>2, NoFileAssumption
  <2>4. f \in Folder
    <3>1. NoFile \in (SUBSET Uid) \cup {NoFile} /\ {} \in SUBSET Uid
      OBVIOUS
    <3>2. QED
      BY <2>3, <3>1 DEF Folder
  <2>5. f.info = i /\ f.context = c /\ Shows(f) = B!Published(i, c)
    BY <2>3 DEF Shows, B!Published
  <2>6. \E x \in Left : Articles' = [Articles EXCEPT ![d.aid] = x]
    <3>1. CASE i \in Uid /\ c # NoFile
      <4>1. Articles' = [Articles EXCEPT ![d.aid] = Shows(f)]
        BY <1>2, <1>3, <2>1, <2>4, <2>5, <3>1, OneArticle
      <4>2. Shows(f) = B!Published(Users[a], c) /\ c \in Body \cup {TornBody}
        BY <1>2, <2>3, <2>5, <3>1
      <4>3. QED
        BY <4>1, <4>2
    <3>2. CASE ~(i \in Uid /\ c # NoFile)
      <4>1. Articles' = [Articles EXCEPT ![d.aid] = NULL]
        BY <1>2, <1>3, <2>1, <2>4, <2>5, <3>2, OneArticle
      <4>2. NULL \in Left
        OBVIOUS
      <4>3. QED
        BY <4>1, <4>2
    <3>3. QED
      BY <3>1, <3>2
  <2>7. Articles[d.aid] = NoFolder
    BY <1>4, <1>6 DEF storeStopped
  <2>8. B!Partial(a)
    BY <1>2, <2>6, <2>7 DEF B!Partial
  <2>9. QED
    BY <1>6, <2>8, Halted
<1>. QED
  BY <1>5, <1>6, Zenon DEF statehandler_recv_article, Stored, silent, storeFailed
\* The handler of a stays as it is.
LEMMA SeenStays ==
  ASSUME IInv, NEW a \in Addr, becomes(a, clihandlers_map[a])
  PROVE  Users' = Users /\ Opened' = Opened /\ Drawn' = Drawn
<1>1. /\ Users' = [Users EXCEPT ![a] = Users[a]]
      /\ Opened' = [Opened EXCEPT ![a] = Opened[a]]
      /\ Drawn' = [Drawn EXCEPT ![a] = Drawn[a]]
  BY SeenBecomes, SeenAt
<1>. QED
  BY <1>1 DEF Users, Opened, Drawn

\* On the page of an article, that article is open.
LEMMA PageOpen ==
  ASSUME IInv, NEW a \in Addr, NEW h, h = clihandlers_map[a], Held(h), h.pos = "ARTICLE"
  PROVE  /\ h.cur_aid \in Aid /\ loadable(h.cur_aid) /\ folder[h.cur_aid] \in Folder
         /\ folder[h.cur_aid].blacklist \in SUBSET Uid
         /\ Opened[a] = h.cur_aid /\ Opened[a] # 0
         /\ Users[a] = h.id /\ h.id \in Uid
<1>1. Sound(h) /\ h.cur_aid \in Aid /\ loadable(h.cur_aid) /\ exists(h.cur_aid)
  BY OnPage DEF Held
<1>2. folder[h.cur_aid] \in Folder
  BY <1>1, Typed, FolderOf
<1>3. folder[h.cur_aid].blacklist \in SUBSET Uid
  BY <1>2 DEF Folder
<1>. QED
  BY <1>1, <1>2, <1>3, SeenAt, SeenOf, MaxAidAssumption DEF Aid

LEMMA AnswerBoard ==
  ASSUME ~DiskFails, IInv, NEW a \in Addr, NEW h, h = clihandlers_map[a], Held(h),
         op_response(a, h)
  PROVE  BoardStep
<1>1. /\ loadable(h.cur_aid) /\ Opened[a] = h.cur_aid /\ Opened[a] # 0
      /\ Users[a] = h.id /\ h.id \in Uid
  BY PageOpen DEF op_response
<1>2. CASE addResponse(h.cur_aid, h.id) /\ becomes(a, h)
  <2>1. Articles' = [Articles EXCEPT ![Opened[a]].answers = @ \cup {Users[a]}]
    BY <1>1, <1>2, Typed, AnswerArticle
  <2>2. Users' = Users /\ Opened' = Opened /\ Drawn' = Drawn
    BY <1>2, SeenStays
  <2>3. B!Answer(a)
    BY <1>1, <2>1, <2>2 DEF B!Answer
  <2>4. QED
    BY <2>3 DEF BoardStep, B!Next
<1>3. CASE addResponseStopped(h.cur_aid) /\ gone
  BY <1>1, <1>3, Typed, AnswerArticle, Halted
<1>. QED
  BY <1>2, <1>3 DEF op_response, answer

LEMMA BlackBoard ==
  ASSUME ~DiskFails, IInv, NEW a \in Addr, NEW h, h = clihandlers_map[a], Held(h),
         NEW bid \in Uid, op_add_black(a, h, bid)
  PROVE  BoardStep
<1>1. /\ h.cur_aid \in Aid /\ loadable(h.cur_aid) /\ folder[h.cur_aid].blacklist \in SUBSET Uid
      /\ Opened[a] = h.cur_aid /\ Opened[a] # 0
  BY PageOpen DEF op_add_black
<1> PICK b \in SUBSET Uid : b = folder[h.cur_aid].blacklist \cup {bid}
  BY <1>1
<1>2. folder' = [folder EXCEPT ![h.cur_aid].blacklist = b] /\ becomes(a, h)
  BY <1>1, Typed DEF op_add_black, appendBlacklist, answer, FoldersType
<1>3. Articles' = [Articles EXCEPT ![Opened[a]].blacklist = @ \cup {bid}]
  <2>1. /\ Articles' = [Articles EXCEPT ![h.cur_aid].blacklist = b]
        /\ Articles[h.cur_aid].blacklist = folder[h.cur_aid].blacklist
    BY <1>1, <1>2, Typed, BlackArticle
  <2>2. b = Articles[h.cur_aid].blacklist \cup {bid}
    BY <2>1
  <2>3. QED
    BY <1>1, <2>1, <2>2
<1>4. Users' = Users /\ Opened' = Opened /\ Drawn' = Drawn
  BY <1>2, SeenStays
<1>5. B!Black(a)
  BY <1>1, <1>3, <1>4 DEF B!Black
<1>. QED
  BY <1>5 DEF BoardStep, B!Next

LEMMA UnblackBoard ==
  ASSUME ~DiskFails, IInv, NEW a \in Addr, NEW h, h = clihandlers_map[a], Held(h),
         NEW bid \in Uid, op_del_black(a, h, bid)
  PROVE  BoardStep
<1>1. /\ h.cur_aid \in Aid /\ loadable(h.cur_aid) /\ folder[h.cur_aid].blacklist \in SUBSET Uid
      /\ Opened[a] = h.cur_aid /\ Opened[a] # 0
  BY PageOpen DEF op_del_black
<1>2. CASE removefromBlacklist(h.cur_aid, bid) /\ becomes(a, h)
  <2> PICK b \in SUBSET Uid : b = folder[h.cur_aid].blacklist \ {bid}
    BY <1>1
  <2>1. folder' = [folder EXCEPT ![h.cur_aid].blacklist = b]
    BY <1>1, <1>2, Typed DEF removefromBlacklist, FoldersType
  <2>2. Articles' = [Articles EXCEPT ![Opened[a]].blacklist = @ \ {bid}]
    <3>1. /\ Articles' = [Articles EXCEPT ![h.cur_aid].blacklist = b]
          /\ Articles[h.cur_aid].blacklist = folder[h.cur_aid].blacklist
      BY <1>1, <2>1, Typed, BlackArticle
    <3>2. b = Articles[h.cur_aid].blacklist \ {bid}
      BY <3>1
    <3>3. QED
      BY <1>1, <3>1, <3>2
  <2>3. Users' = Users /\ Opened' = Opened /\ Drawn' = Drawn
    BY <1>2, SeenStays
  <2>4. B!Unblack(a)
    BY <1>1, <2>2, <2>3 DEF B!Unblack
  <2>5. QED
    BY <2>4 DEF BoardStep, B!Next
<1>3. CASE removefromBlacklistStopped(h.cur_aid, bid) /\ gone
  <2>1. PICK kept \in SUBSET (folder[h.cur_aid].blacklist \ {bid}) :
          folder' = [folder EXCEPT ![h.cur_aid].blacklist = kept]
    BY <1>3 DEF removefromBlacklistStopped
  <2>2. kept \in SUBSET Uid /\ kept \in SUBSET folder[h.cur_aid].blacklist
    BY <1>1
  <2>3. /\ Articles' = [Articles EXCEPT ![Opened[a]].blacklist = kept]
        /\ kept \in SUBSET Articles[Opened[a]].blacklist
    BY <1>1, <2>1, <2>2, Typed, BlackArticle
  <2>4. B!Partial(a)
    BY <1>1, <2>3 DEF B!Partial
  <2>5. QED
    BY <1>3, <2>4, Halted
<1>. QED
  BY <1>1, <1>2, <1>3 DEF op_del_black, answer

\* L signs in, and a guest does nothing else that Board sees.
LEMMA GuestBoard ==
  ASSUME IInv, NEW a \in Addr, NEW args \in Input, ~isLogined(a), func_guest_mux(a, args)
  PROVE  BoardStep
<1>1. UNCHANGED folder
  BY DEF func_guest_mux, no_disk, articleVars, diskVars
<1>2. UNCHANGED clihandlers_map \/ (args[2] \in Uid /\ becomes(a, NewHandler(args[2])))
  BY InputAssumption DEF func_guest_mux, func_register, func_login, answer, NamesUsers
<1>3. CASE UNCHANGED clihandlers_map
  BY <1>1, <1>3, SeenSame, SameArticles DEF BoardStep, B!boardVars
<1>4. CASE args[2] \in Uid /\ becomes(a, NewHandler(args[2]))
  <2> PICK u \in Uid : u = args[2]
    BY <1>4
  <2> PICK g : g = NewHandler(u)
    OBVIOUS
  <2>1. Sound(g) /\ Idle(g) /\ g.id = u
    BY NewIsSound DEF NewHandler
  <2>2. Users[a] = NoHandler /\ Opened[a] = 0 /\ Drawn[a] = 0
    BY DEF Users, Opened, Drawn, NoAid
  <2>3. UserOf(g) = u /\ OpenOf(g) = Opened[a] /\ DrawnOf(g) = Drawn[a]
    BY <2>1, <2>2, SeenOf, IdleReads
  <2>4. /\ Users' = [Users EXCEPT ![a] = u]
        /\ Opened' = [Opened EXCEPT ![a] = Opened[a]]
        /\ Drawn' = [Drawn EXCEPT ![a] = Drawn[a]]
    BY <1>4, <2>3, SeenBecomes
  <2>5. Opened' = Opened /\ Drawn' = Drawn
    BY <2>4 DEF Opened, Drawn
  <2>6. B!SignIn(a)
    BY <1>1, <2>2, <2>4, <2>5, SameArticles DEF B!SignIn
  <2>7. QED
    BY <2>6 DEF BoardStep, B!Next
<1>. QED
  BY <1>2, <1>3, <1>4

-----------------------------------------------------------------------------
LEMMA TextBoard ==
  ASSUME ~DiskFails, IInv, NEW a \in Addr, NEW h, h = clihandlers_map[a], Held(h), Reads(h),
         NEW args \in Input, statehandler_recv_text(a, h, args)
  PROVE  BoardStep
<1>1. CASE op_return(a, h)
  BY <1>1, ReturnBoard
<1>2. CASE \/ op_visit(a, h) \/ op_showuser(a, h) \/ op_showarticle(a, h)
           \/ op_logout(a, h) \/ op_ignored(a, h, Head(args))
  BY <1>2, WalkBoard
<1>3. CASE op_yell(a, h) \/ \E id \in Given(args, 2, Uid) : op_tell(a, h, id)
  BY <1>3, YellTellBoard
<1>4. CASE \E aid \in Given(args, 2, Aid) : op_enter_article(a, h, aid)
  BY <1>4, EnterBoard
<1>5. CASE op_add_article(a, h)
  BY <1>5, DrawBoard
<1>6. CASE op_response(a, h)
  BY <1>6, AnswerBoard
<1>7. CASE op_overread(a, h, args)
  BY <1>7, Died DEF op_overread
<1>8. CASE /\ Head(args) \in {"AB", "DB"}
           /\ \E bid \in Given(args, 2, Uid) : op_add_black(a, h, bid) \/ op_del_black(a, h, bid)
  <2>1. Given(args, 2, Uid) \subseteq Uid
    BY <1>8, InputAssumption DEF Given, NamesUsers
  <2>2. QED
    BY <1>8, <2>1, BlackBoard, UnblackBoard
<1>. QED
  BY <1>1, <1>2, <1>3, <1>4, <1>5, <1>6, <1>7, <1>8, Zenon DEF statehandler_recv_text

LEMMA StepBoard ==
  ASSUME ~DiskFails, IInv, [Next]_vars
  PROVE  BoardStep
<1>1. ASSUME NEW a \in Addr, NEW args \in Arriving(a), handler_entry(a, args)
      PROVE  BoardStep
  <2>1. CASE /\ isLogined(a) /\ clihandlers_map[a].state = "RECV_TEXT"
             /\ statehandler_recv_text(a, clihandlers_map[a], args)
    <3>1. args \in Input
      BY <1>1, <2>1 DEF Arriving
    <3>2. QED
      BY <2>1, <3>1, HandlerOf, TextBoard
  <2>2. CASE /\ isLogined(a) /\ clihandlers_map[a].state = "RECV_ARTICLE"
             /\ statehandler_recv_article(a, clihandlers_map[a], args)
    <3>1. args \in Body
      BY <1>1, <2>2 DEF Arriving
    <3>2. QED
      BY <2>2, <3>1, StoreBoard DEF Editing
  <2>3. CASE ~isLogined(a) /\ func_guest_mux(a, args)
    BY <1>1, <2>3, GuestBoard DEF Arriving
  <2>4. QED
    BY <1>1, <2>1, <2>2, <2>3, Zenon DEF handler_entry, func_user_mux
<1>2. CASE Crash
  BY <1>2, Died DEF Crash
<1>3. CASE Restart \/ UNCHANGED vars
  <2>1. UNCHANGED clihandlers_map /\ UNCHANGED folder
    BY <1>3 DEF Restart, vars, sessionVars, articleVars, diskVars
  <2>2. QED
    BY <2>1, SeenSame, SameArticles DEF BoardStep, B!boardVars
<1>. QED
  BY <1>1, <1>2, <1>3 DEF Next

LEMMA InitBoard == Init => B!Init
<1> SUFFICES ASSUME Init PROVE B!Init
  OBVIOUS
<1>1. PICK n \in 0..MaxAid, pid \in Uid, body \in Body :
        folder = [aid \in Aid |-> IF aid <= n THEN Complete(pid, body) ELSE NoFolder]
  BY DEF Init
<1>2. FoldersType
  BY InitInv, Typed
<1>3. ASSUME NEW aid \in Aid
      PROVE  \/ Articles[aid] = NoFolder
             \/ \E u \in Uid, text \in Body : Articles[aid] = B!Published(u, text)
  <2>1. CASE ~exists(aid)
    BY <1>2, <2>1, ArticleThere
  <2>2. CASE exists(aid)
    <3>1. folder[aid] = Complete(pid, body)
      BY <1>1, <2>2 DEF exists
    <3>2. loadable(aid)
      BY <2>2, <3>1, NoFileAssumption DEF loadable, headerReadable, Complete
    <3>3. Shows(folder[aid]) = B!Published(pid, body)
      <4>1. {} # NoFile
        BY NoFileAssumption
      <4>2. QED
        BY <3>1, <4>1 DEF Shows, Complete, B!Published
    <3>4. QED
      BY <1>2, <3>2, <3>3, ArticleThere
  <2>3. QED
    BY <2>1, <2>2
<1>4. Articles \in [Aid -> {B!Published(u, text) : u \in Uid, text \in Body} \cup {NoFolder}]
  BY <1>3 DEF Articles
<1>5. /\ Users = [a \in Addr |-> NoHandler]
      /\ Opened = [a \in Addr |-> 0]
      /\ Drawn = [a \in Addr |-> 0]
  BY DEF Init, Users, Opened, Drawn, isLogined, NoAid
<1>. QED
  BY <1>4, <1>5 DEF B!Init

\* As long as no write fails, whatever arrives from whatever addresses and wherever the
\* process dies, every step of the handlers is a step of module Board or one it does
\* not see: an article appears by a text of who drew its number and in place of no
\* other, and of an article that is there only answers and blacklist change, by
\* somebody who has it open.
THEOREM BoardImplemented ==
  ASSUME ~DiskFails
  PROVE  Spec => ImplementsBoard
<1>1. IInv /\ [Next]_vars => [B!Next]_B!boardVars
  BY StepBoard DEF BoardStep
<1>. QED
  BY <1>1, InitBoard, Invariance, PTL DEF Spec, ImplementsBoard, B!Spec

-----------------------------------------------------------------------------
(***************************************************************************)
(* What was acknowledged.  The strengthening of ToldIsStored says also     *)
(* that the folder is there, and its file of responses.                    *)
(***************************************************************************)
OnDisk(t) ==
  /\ t[1] = "response" =>
       exists(t[2]) /\ folder[t[2]].response # NoFile /\ t[3] \in folder[t[2]].response
  /\ t[1] = "blacklist" /\ "blacklist" \notin torn =>
       exists(t[2]) /\ t[3] \in folder[t[2]].blacklist

ToldOnDisk == \A t \in told : OnDisk(t)

LEMMA OnDiskIsStored == ToldOnDisk => ToldIsStored
BY DEF ToldOnDisk, OnDisk, ToldIsStored, BlackStored

\* No response goes, and no file of responses.
ResponsesKept ==
  \A n \in Aid : exists(n) =>
    /\ exists(n)'
    /\ folder[n].response # NoFile => folder'[n].response # NoFile
    /\ \A u : folder[n].response # NoFile /\ u \in folder[n].response => u \in folder'[n].response

\* No name goes from a blacklist.
BlacksKept ==
  \A n \in Aid : exists(n) => \A u : u \in folder[n].blacklist => u \in folder'[n].blacklist

\* A step that keeps what was acknowledged on disk, and puts there what it
\* acknowledges.
LEMMA ToldKept ==
  ASSUME ToldOnDisk, torn \subseteq torn', ResponsesKept,
         BlacksKept \/ "blacklist" \in torn',
         \A t \in told' : t \in told \/ OnDisk(t)'
  PROVE  ToldOnDisk'
<1> SUFFICES ASSUME NEW t \in told' PROVE OnDisk(t)'
  BY DEF ToldOnDisk
<1>1. CASE OnDisk(t)
  <2>1. t[1] = "response" =>
          exists(t[2])' /\ folder'[t[2]].response # NoFile /\ t[3] \in folder'[t[2]].response
    BY <1>1 DEF OnDisk, ResponsesKept, exists
  <2>2. t[1] = "blacklist" /\ "blacklist" \notin torn' =>
          exists(t[2])' /\ t[3] \in folder'[t[2]].blacklist
    BY <1>1 DEF OnDisk, ResponsesKept, BlacksKept, exists
  <2>3. QED
    BY <2>1, <2>2 DEF OnDisk
<1>. QED
  BY <1>1 DEF ToldOnDisk

LEMMA SameTold ==
  ASSUME ToldOnDisk, torn \subseteq torn', UNCHANGED folder, UNCHANGED told
  PROVE  ToldOnDisk'
<1>1. ResponsesKept /\ BlacksKept
  BY DEF ResponsesKept, BlacksKept, exists
<1>. QED
  BY <1>1, ToldKept

\* A folder of a number that was free.
LEMMA StoreTold ==
  ASSUME FoldersType, NEW n \in Aid, ~exists(n), NEW f \in Folder, folder' = [folder EXCEPT ![n] = f]
  PROVE  ResponsesKept /\ BlacksKept
<1>1. \A m \in Aid : exists(m) => folder'[m] = folder[m] /\ exists(m)'
  BY DEF exists, FoldersType
<1>. QED
  BY <1>1 DEF ResponsesKept, BlacksKept

LEMMA ResponseTold ==
  ASSUME FoldersType, NEW n \in Aid, exists(n), NEW id \in Uid,
         addResponse(n, id) \/ addResponseStopped(n)
  PROVE  /\ ResponsesKept /\ BlacksKept
         /\ addResponse(n, id) =>
              exists(n)' /\ folder'[n].response # NoFile /\ id \in folder'[n].response
<1> PICK f \in Folder : f = folder[n]
  BY FolderOf
<1>1. f.response \in (SUBSET Uid) \cup {NoFile}
  BY DEF Folder
<1>2. PICK r \in SUBSET Uid :
        /\ folder' = [folder EXCEPT ![n].response = r]
        /\ f.response # NoFile => f.response \subseteq r
        /\ addResponse(n, id) => id \in r
  <2>1. CASE addResponse(n, id)
    <3>1. PICK r \in SUBSET Uid : r = IF f.response = NoFile THEN {id} ELSE f.response \cup {id}
      BY <1>1
    <3>2. folder' = [folder EXCEPT ![n].response = r]
      BY <2>1, <3>1 DEF addResponse, FoldersType
    <3>3. QED
      BY <3>1, <3>2
  <2>2. CASE addResponseStopped(n) /\ ~addResponse(n, id)
    <3>1. PICK r \in SUBSET Uid : r = IF f.response = NoFile THEN {} ELSE f.response
      BY <1>1
    <3>2. folder' = [folder EXCEPT ![n].response = r]
      BY <2>2, <3>1 DEF addResponseStopped, FoldersType
    <3>3. QED
      BY <2>2, <3>1, <3>2
  <2>3. QED
    BY <2>1, <2>2
<1>3. r # NoFile
  BY NoFileAssumption
<1>4. [f EXCEPT !.response = r] \in Folder
  BY DEF Folder
<1>5. /\ folder'[n] = [f EXCEPT !.response = r] /\ \A m \in Aid \ {n} : folder'[m] = folder[m]
      /\ exists(n)'
  BY <1>2, <1>4, NoFolderAssumption DEF FoldersType, exists
<1>6. folder'[n].response = r /\ folder'[n].blacklist = f.blacklist
  BY <1>5 DEF Folder
<1>7. ResponsesKept
  BY <1>2, <1>3, <1>5, <1>6 DEF ResponsesKept, exists
<1>8. BlacksKept
  BY <1>5, <1>6 DEF BlacksKept
<1>. QED
  BY <1>2, <1>3, <1>5, <1>6, <1>7, <1>8

\* The blacklist of one folder is replaced, and the other folders are as they were.
BlackBecomes(n, b) == folder' = [folder EXCEPT ![n].blacklist = b]
OthersSame(n) == \A m \in Aid \ {n} : folder'[m] = folder[m]

LEMMA BlackTold ==
  ASSUME FoldersType, NEW n \in Aid, exists(n), NEW b \in SUBSET Uid, BlackBecomes(n, b)
  PROVE  /\ ResponsesKept /\ exists(n)' /\ folder'[n].blacklist = b
         /\ OthersSame(n)
<1> PICK f \in Folder : f = folder[n]
  BY FolderOf
<1>1. [f EXCEPT !.blacklist = b] \in Folder
  BY DEF Folder
<1>2. /\ folder'[n] = [f EXCEPT !.blacklist = b] /\ \A m \in Aid \ {n} : folder'[m] = folder[m]
      /\ exists(n)'
  BY <1>1, NoFolderAssumption DEF BlackBecomes, FoldersType, exists
<1>3. folder'[n].response = f.response /\ folder'[n].blacklist = b
  BY <1>2 DEF Folder
<1>4. ResponsesKept
  BY <1>2, <1>3 DEF ResponsesKept, exists
<1>. QED
  BY <1>2, <1>3, <1>4 DEF OthersSame

\* RP.
LEMMA AddResponseTold ==
  ASSUME ~DiskFails, IInv, ToldOnDisk, NEW a \in Addr, NEW h, Held(h), op_response(a, h)
  PROVE  ToldOnDisk'
<1>1. h.cur_aid \in Aid /\ exists(h.cur_aid) /\ h.id \in Uid /\ FoldersType
  BY OnPage, Typed DEF op_response, Held, Sound, Handler
<1>2. UNCHANGED torn
  BY DEF op_response
<1>3. CASE addResponse(h.cur_aid, h.id) /\ told' = told \cup {<<"response", h.cur_aid, h.id>>}
  <2>1. /\ ResponsesKept /\ BlacksKept
        /\ exists(h.cur_aid)' /\ folder'[h.cur_aid].response # NoFile
        /\ h.id \in folder'[h.cur_aid].response
    BY <1>1, <1>3, ResponseTold
  <2>2. \A t : t = <<"response", h.cur_aid, h.id>> => OnDisk(t)'
    BY <2>1 DEF OnDisk
  <2>3. QED
    BY <1>2, <1>3, <2>1, <2>2, ToldKept
<1>4. CASE addResponseStopped(h.cur_aid) /\ gone
  <2>1. ResponsesKept /\ BlacksKept /\ UNCHANGED told
    BY <1>1, <1>4, ResponseTold DEF gone
  <2>2. QED
    BY <1>2, <2>1, ToldKept
<1>. QED
  BY <1>3, <1>4 DEF op_response

LEMMA AddBlackTold ==
  ASSUME ~DiskFails, IInv, ToldOnDisk, NEW a \in Addr, NEW h, Held(h), NEW bid \in Uid,
         op_add_black(a, h, bid)
  PROVE  ToldOnDisk'
<1> PICK n : n = h.cur_aid
  OBVIOUS
<1>1. /\ n \in Aid /\ exists(n) /\ loadable(n) /\ FoldersType
      /\ folder[n] \in Folder
  BY OnPage, Typed, FolderOf DEF op_add_black
<1>2. folder[n].blacklist \in SUBSET Uid
  BY <1>1 DEF Folder
<1> PICK b \in SUBSET Uid : b = folder[n].blacklist \cup {bid}
  BY <1>2
<1>3. /\ BlackBecomes(n, b)
      /\ told' = told \cup {<<"blacklist", n, bid>>} /\ UNCHANGED torn
  BY <1>1 DEF BlackBecomes, op_add_black, appendBlacklist, FoldersType
<1>4. /\ ResponsesKept /\ exists(n)' /\ folder'[n].blacklist = b
      /\ OthersSame(n)
  BY <1>1, <1>3, BlackTold
<1>5. BlacksKept
  BY <1>4 DEF BlacksKept, OthersSame
<1>6. \A t : t = <<"blacklist", n, bid>> => OnDisk(t)'
  BY <1>4 DEF OnDisk
<1>. QED
  BY <1>3, <1>4, <1>5, <1>6, ToldKept

\* DB takes back what AB acknowledged; stopped in the middle, it is known in torn.
LEMMA DelBlackTold ==
  ASSUME ~DiskFails, IInv, ToldOnDisk, NEW a \in Addr, NEW h, Held(h), NEW bid \in Uid,
         op_del_black(a, h, bid)
  PROVE  ToldOnDisk'
<1> PICK n : n = h.cur_aid
  OBVIOUS
<1>1. /\ n \in Aid /\ exists(n) /\ loadable(n) /\ FoldersType
      /\ folder[n] \in Folder
  BY OnPage, Typed, FolderOf DEF op_del_black
<1>2. folder[n].blacklist \in SUBSET Uid
  BY <1>1 DEF Folder
<1>3. CASE /\ removefromBlacklist(n, bid)
           /\ told' = told \ {<<"blacklist", n, bid>>} /\ UNCHANGED torn
  <2> PICK b \in SUBSET Uid : b = folder[n].blacklist \ {bid}
    BY <1>2
  <2>1. BlackBecomes(n, b)
    BY <1>1, <1>3 DEF BlackBecomes, removefromBlacklist, FoldersType
  <2>2. /\ ResponsesKept /\ exists(n)' /\ folder'[n].blacklist = b
        /\ OthersSame(n)
    BY <1>1, <2>1, BlackTold
  <2>3. ASSUME NEW t \in told'
        PROVE  OnDisk(t)'
    <3>1. OnDisk(t) /\ t # <<"blacklist", n, bid>>
      BY <1>3 DEF ToldOnDisk
    <3>2. t \in told /\ told \subseteq {"response", "blacklist", "account"} \X (Aid \cup {NoAid}) \X Uid
      BY <1>3, Typed
    <3>3. t[1] = "blacklist" => <<t[2], t[3]>> # <<n, bid>>
      BY <3>1, <3>2
    <3>4. t[1] = "response" =>
            exists(t[2])' /\ folder'[t[2]].response # NoFile /\ t[3] \in folder'[t[2]].response
      BY <2>2, <3>1 DEF OnDisk, ResponsesKept, exists
    <3>5. t[1] = "blacklist" /\ "blacklist" \notin torn' =>
            exists(t[2])' /\ t[3] \in folder'[t[2]].blacklist
      BY <1>3, <2>2, <3>1, <3>3 DEF OnDisk, exists, OthersSame
    <3>6. QED
      BY <3>4, <3>5 DEF OnDisk
  <2>4. QED
    BY <2>3 DEF ToldOnDisk
<1>4. CASE /\ removefromBlacklistStopped(n, bid) /\ gone
           /\ torn' = torn \cup {"blacklist"}
  <2>1. PICK kept \in SUBSET (folder[n].blacklist \ {bid}) : BlackBecomes(n, kept)
    BY <1>4 DEF BlackBecomes, removefromBlacklistStopped
  <2>2. kept \in SUBSET Uid
    BY <1>2
  <2>3. ResponsesKept
    BY <1>1, <2>1, <2>2, BlackTold
  <2>4. QED
    BY <1>4, <2>3, ToldKept DEF gone
<1>. QED
  BY <1>1, <1>3, <1>4 DEF op_del_black

\* The other commands change no folder.
LEMMA TextTold ==
  ASSUME ~DiskFails, IInv, ToldOnDisk, NEW a \in Addr, NEW h, Held(h), NEW args \in Input,
         statehandler_recv_text(a, h, args)
  PROVE  ToldOnDisk'
<1>1. ASSUME Die
      PROVE  ToldOnDisk'
  BY <1>1, SameTold DEF Die, gone, diskVars
<1>2. ASSUME no_disk, no_history
      PROVE  ToldOnDisk'
  BY <1>2, SameTold DEF no_disk, articleVars, diskVars, no_history
<1>3. ASSUME NEW g, func_display_article_list(a, g)
      PROVE  ToldOnDisk'
  BY <1>1, <1>2, <1>3 DEF func_display_article_list
<1>4. CASE op_return(a, h)
  BY <1>2, <1>3, <1>4, Zenon DEF op_return
<1>5. CASE op_showarticle(a, h)
  BY <1>3, <1>5 DEF op_showarticle
<1>6. CASE \/ op_visit(a, h) \/ op_showuser(a, h) \/ op_yell(a, h) \/ op_logout(a, h)
           \/ op_ignored(a, h, Head(args))
  BY <1>2, <1>6 DEF op_visit, op_showuser, op_yell, op_logout, op_ignored
<1>7. CASE \/ \E id \in Given(args, 2, Uid) : op_tell(a, h, id)
           \/ \E aid \in Given(args, 2, Aid) : op_enter_article(a, h, aid)
  BY <1>2, <1>7 DEF op_tell, op_enter_article
<1>8. CASE op_add_article(a, h)
  <2>1. \/ UNCHANGED folder /\ UNCHANGED told /\ torn \subseteq torn'
        \/ Die
    BY <1>8, Zenon DEF op_add_article, getArticleID, getArticleIDFailed, getArticleIDStopped, gone
  <2>2. QED
    BY <1>1, <2>1, SameTold
<1>9. CASE op_response(a, h)
  BY <1>9, AddResponseTold
<1>10. CASE /\ Head(args) \in {"AB", "DB"}
            /\ \E bid \in Given(args, 2, Uid) : op_add_black(a, h, bid) \/ op_del_black(a, h, bid)
  <2>1. Given(args, 2, Uid) \subseteq Uid
    BY <1>10, InputAssumption DEF Given, NamesUsers
  <2>2. QED
    BY <1>10, <2>1, AddBlackTold, DelBlackTold
<1>11. CASE op_overread(a, h, args)
  BY <1>1, <1>11 DEF op_overread
<1>. QED
  BY <1>4, <1>5, <1>6, <1>7, <1>8, <1>9, <1>10, <1>11, Zenon DEF statehandler_recv_text

\* The text of a draft gets a folder of its own, or none.
LEMMA DraftTold ==
  ASSUME ~DiskFails, IInv, ToldOnDisk, NEW a \in Addr, Editing(a), NEW args \in Body,
         statehandler_recv_article(a, clihandlers_map[a], args)
  PROVE  ToldOnDisk'
<1> PICK d : d = clihandlers_map[a].article_ptr
  OBVIOUS
<1>1. d.aid \in Aid /\ d.pid \in Uid /\ FoldersType
  BY HandlerOf, SeenOf, Typed DEF Editing, Held
<1>2. \/ store(d.aid, d.pid, args) /\ UNCHANGED <<torn, told>>
      \/ storeStopped(d.aid, d.pid, args) /\ torn' = torn \cup {"folder"} /\ UNCHANGED told
  BY Zenon DEF statehandler_recv_article, storeFailed, gone
<1>3. CASE UNCHANGED folder
  BY <1>2, <1>3, SameTold
<1>4. ASSUME ~exists(d.aid), NEW f \in Folder, folder' = [folder EXCEPT ![d.aid] = f]
      PROVE  ToldOnDisk'
  BY <1>1, <1>2, <1>4, StoreTold, ToldKept
<1>5. Complete(d.pid, args) \in Folder /\ Begun(d.pid, args) \subseteq Folder
  BY <1>1 DEF Complete, Begun, Folder
<1>. QED
  BY <1>2, <1>3, <1>4, <1>5 DEF store, storeStopped

LEMMA GuestTold ==
  ASSUME ToldOnDisk, NEW a, NEW args, func_guest_mux(a, args)
  PROVE  ToldOnDisk'
<1>1. UNCHANGED folder /\ UNCHANGED torn
  BY DEF func_guest_mux, no_disk, articleVars, diskVars
<1>2. told' = told \/ told' = told \cup {<<"account", NoAid, args[2]>>}
  BY DEF func_guest_mux, func_register, func_login
<1>3. \A t : t = <<"account", NoAid, args[2]>> => OnDisk(t)'
  BY DEF OnDisk
<1>4. ResponsesKept /\ BlacksKept
  BY <1>1 DEF ResponsesKept, BlacksKept, exists
<1>. QED
  BY <1>1, <1>2, <1>3, <1>4, ToldKept

LEMMA StepTold ==
  ASSUME ~DiskFails, IInv, ToldOnDisk, [Next]_vars
  PROVE  ToldOnDisk'
<1>1. ASSUME NEW a \in Addr, NEW args \in Arriving(a), handler_entry(a, args)
      PROVE  ToldOnDisk'
  <2>1. CASE /\ isLogined(a) /\ clihandlers_map[a].state = "RECV_TEXT"
             /\ statehandler_recv_text(a, clihandlers_map[a], args)
    <3>1. args \in Input
      BY <1>1, <2>1 DEF Arriving
    <3>2. QED
      BY <2>1, <3>1, HandlerOf, TextTold
  <2>2. CASE /\ isLogined(a) /\ clihandlers_map[a].state = "RECV_ARTICLE"
             /\ statehandler_recv_article(a, clihandlers_map[a], args)
    <3>1. args \in Body
      BY <1>1, <2>2 DEF Arriving
    <3>2. QED
      BY <2>2, <3>1, DraftTold DEF Editing
  <2>3. CASE ~isLogined(a) /\ func_guest_mux(a, args)
    BY <2>3, GuestTold
  <2>4. QED
    BY <1>1, <2>1, <2>2, <2>3, Zenon DEF handler_entry, func_user_mux
<1>2. CASE Crash \/ Restart \/ UNCHANGED vars
  <2>1. UNCHANGED folder /\ UNCHANGED told /\ UNCHANGED torn
    BY <1>2 DEF Crash, Die, gone, Restart, vars, articleVars, diskVars, historyVars
  <2>2. QED
    BY <2>1, SameTold
<1>. QED
  BY <1>1, <1>2 DEF Next

\* As long as no write fails, a response that was acknowledged is in the article's file
\* in every later state, whoever answers after it and wherever the process dies; and a
\* name whose black-listing was acknowledged is on the list until its deletion is, or
\* until a process stops in the middle of a deletion.
THEOREM ToldIsStoredCorrect ==
  ASSUME ~DiskFails
  PROVE  Spec => []ToldIsStored
<1>1. IInv /\ ToldOnDisk /\ [Next]_vars => IInv' /\ ToldOnDisk'
  BY StepInv, StepTold DEF Good
<1>2. Init => IInv /\ ToldOnDisk
  BY InitInv DEF Init, ToldOnDisk
<1>3. ToldOnDisk => ToldIsStored
  BY OnDiskIsStored
<1>. QED
  BY <1>1, <1>2, <1>3, PTL DEF Spec

=============================================================================
