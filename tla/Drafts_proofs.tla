--------------------------- MODULE Drafts_proofs ---------------------------
(***************************************************************************)
(* The numbers of articles in the legacy server: no draft is dropped at    *)
(* the end because its number was taken, as long as articles.cfg is whole. *)
(***************************************************************************)
EXTENDS Clienthandler_proofs

Editing(a) == isLogined(a) /\ clihandlers_map[a].state = "RECV_ARTICLE"
NumberOf(a) == clihandlers_map[a].article_ptr.aid

(***************************************************************************)
(* The strengthening of DraftsFresh: no number in use, by a folder or by a *)
(* draft, is above the one in articles.cfg, and a process counts on from   *)
(* there.                                                                  *)
(***************************************************************************)
Numbers ==
  "articles.cfg" \notin torn =>
    /\ articles_cfg # NoNumber
    /\ alive => MAXARTICLEID = articles_cfg
    /\ \A n \in Aid : exists(n) => n <= articles_cfg
    /\ \A a \in Addr : Editing(a) => NumberOf(a) <= articles_cfg /\ ~exists(NumberOf(a))
    /\ \A a, b \in Addr : Editing(a) /\ Editing(b) /\ a # b => NumberOf(a) # NumberOf(b)

LEMMA NumbersFresh == Numbers => DraftsFresh
<1> SUFFICES ASSUME Numbers, "articles.cfg" \notin torn
             PROVE  /\ \A h \in drafts : ~exists(h.article_ptr.aid)
                    /\ \A a, b \in Addr :
                         /\ isLogined(a) /\ isLogined(b) /\ a # b
                         /\ clihandlers_map[a] \in drafts /\ clihandlers_map[b] \in drafts
                         => clihandlers_map[a].article_ptr.aid # clihandlers_map[b].article_ptr.aid
  BY DEF DraftsFresh
<1>1. \A h \in drafts : h.state = "RECV_ARTICLE" /\ \E a \in Addr : isLogined(a) /\ h = clihandlers_map[a]
  BY DEF drafts, handlers
<1>2. \A h \in drafts : ~exists(h.article_ptr.aid)
  BY <1>1 DEF Numbers, Editing, NumberOf
<1>3. \A a \in Addr : isLogined(a) /\ clihandlers_map[a] \in drafts => Editing(a)
  BY <1>1 DEF Editing
<1>. QED
  BY <1>2, <1>3 DEF Numbers, NumberOf

LEMMA InitNumbers == Init => Numbers
<1> SUFFICES ASSUME Init PROVE Numbers
  OBVIOUS
<1>1. PICK n \in 0..MaxAid, pid \in Uid, body \in Body :
        /\ folder = [aid \in Aid |-> IF aid <= n THEN Complete(pid, body) ELSE NoFolder]
        /\ articles_cfg = n /\ MAXARTICLEID = n
  BY DEF Init
<1>2. articles_cfg # NoNumber
  BY <1>1, NoNumberAssumption
<1>3. \A aid \in Aid : exists(aid) => aid <= articles_cfg
  BY <1>1 DEF exists
<1>4. \A a \in Addr : ~Editing(a)
  BY DEF Init, Editing, isLogined
<1>. QED
  BY <1>1, <1>2, <1>3, <1>4 DEF Numbers

-----------------------------------------------------------------------------
(***************************************************************************)
(* Steps that give out no number and make no folder.                       *)
(***************************************************************************)
Calm ==
  /\ "articles.cfg" \in torn => "articles.cfg" \in torn'
  /\ UNCHANGED articles_cfg
  /\ alive' => alive /\ UNCHANGED MAXARTICLEID
  /\ NoneNew
  /\ \A a \in Addr : Editing(a)' => Editing(a) /\ NumberOf(a)' = NumberOf(a)

LEMMA CalmNumbers ==
  ASSUME Numbers, Calm
  PROVE  Numbers'
<1> SUFFICES ASSUME "articles.cfg" \notin torn' PROVE Numbers'
  BY DEF Numbers
<1>1. "articles.cfg" \notin torn
  BY DEF Calm
<1>2. articles_cfg' # NoNumber /\ (alive' => MAXARTICLEID' = articles_cfg')
  BY <1>1 DEF Calm, Numbers
<1>3. \A n \in Aid : exists(n)' => n <= articles_cfg'
  BY <1>1 DEF Calm, Numbers, NoneNew
<1>4. \A n : exists(n)' => exists(n)
  BY DEF Calm, NoneNew, exists
<1>5. \A a \in Addr : Editing(a)' =>
        Editing(a) /\ NumberOf(a)' <= articles_cfg' /\ ~exists(NumberOf(a)') /\ NumberOf(a)' = NumberOf(a)
  BY <1>1 DEF Calm, Numbers
<1>6. \A a \in Addr : Editing(a)' => ~exists(NumberOf(a))'
  <2> TAKE a \in Addr
  <2> HAVE Editing(a)'
  <2>1. exists(NumberOf(a))' => exists(NumberOf(a)')
    BY <1>4 DEF exists
  <2>2. QED
    BY <1>5, <2>1
<1>7. \A a, b \in Addr : Editing(a)' /\ Editing(b)' /\ a # b => NumberOf(a)' # NumberOf(b)'
  BY <1>1, <1>5 DEF Numbers
<1>. QED
  BY <1>2, <1>3, <1>5, <1>6, <1>7 DEF Numbers

LEMMA GoneCalm ==
  ASSUME gone, NoneNew, UNCHANGED articles_cfg, torn \subseteq torn'
  PROVE  Calm
BY DEF Calm, gone, Editing, isLogined

LEMMA DieCalm ==
  ASSUME IInv, Die
  PROVE  Calm
BY Typed, UnchangedFolders, GoneCalm DEF Die, diskVars

\* The handler of a is replaced by one that reads commands, or goes.
LEMMA BecomesCalm ==
  ASSUME IInv, NEW a \in Addr, NEW g, g = NoHandler \/ g.state = "RECV_TEXT", becomes(a, g),
         NoneNew, UNCHANGED <<articles_cfg, MAXARTICLEID>>, torn \subseteq torn', lives
  PROVE  Calm
<1>1. clihandlers_map \in [Addr -> Handler \cup {NoHandler}]
  BY DEF IInv, TypeOK
<1>2. clihandlers_map'[a] = g /\ \A b \in Addr \ {a} : clihandlers_map'[b] = clihandlers_map[b]
  BY <1>1 DEF becomes
<1>3. \A b \in Addr : Editing(b)' => Editing(b) /\ NumberOf(b)' = NumberOf(b)
  BY <1>2 DEF Editing, NumberOf, isLogined
<1>. QED
  BY <1>3 DEF Calm, lives

LEMMA AnswerCalm ==
  ASSUME IInv, NEW a \in Addr, NEW g, g = NoHandler \/ g.state = "RECV_TEXT", becomes(a, g),
         no_disk, no_history, lives
  PROVE  Calm
BY Typed, UnchangedFolders, BecomesCalm DEF no_disk, no_history, articleVars, diskVars

LEMMA DisplayCalm ==
  ASSUME IInv, NEW a \in Addr, NEW g, g.state = "RECV_TEXT", func_display_article_list(a, g)
  PROVE  Calm
BY AnswerCalm, DieCalm DEF func_display_article_list, answer

LEMMA IdleReads ==
  ASSUME NEW g, Idle(g)
  PROVE  g.state = "RECV_TEXT"
BY DEF Idle, Reads

LEMMA ReturnCalm ==
  ASSUME IInv, NEW a \in Addr, NEW h, Held(h), Reads(h), op_return(a, h)
  PROVE  Calm
<1>1. Returned(h).state = "RECV_TEXT"
  BY ReturnIsSound, IdleReads DEF Held
<1>2. CASE answer(a, Returned(h), "MAIN_MENU") /\ no_disk /\ no_history /\ lives
  BY <1>1, <1>2, AnswerCalm DEF answer
<1>3. CASE func_display_article_list(a, Returned(h))
  BY <1>1, <1>3, DisplayCalm
<1>. QED
  BY <1>2, <1>3, Zenon DEF op_return, Returned

LEMMA WalkCalm ==
  ASSUME IInv, NEW a \in Addr, NEW h, Held(h), Reads(h), NEW op,
         \/ op_visit(a, h) \/ op_showuser(a, h) \/ op_showarticle(a, h)
         \/ op_logout(a, h) \/ op_ignored(a, h, op)
  PROVE  Calm
<1>1. h.state = "RECV_TEXT"
  BY DEF Reads
<1>2. CASE op_visit(a, h) \/ op_logout(a, h) \/ op_ignored(a, h, op)
  BY <1>1, <1>2, AnswerCalm DEF op_visit, op_logout, op_ignored, answer, silent
<1>3. CASE op_showuser(a, h)
  <2>1. moveTo(h, "USER_LIST").state = "RECV_TEXT"
    BY <1>3, MoveFromMenu, IdleReads DEF Held, op_showuser
  <2>2. QED
    BY <1>3, <2>1, AnswerCalm DEF op_showuser, answer
<1>4. CASE op_showarticle(a, h)
  <2>1. moveTo(h, "ARTICLE_LIST").state = "RECV_TEXT"
    BY <1>4, MoveFromMenu, IdleReads DEF Held, op_showarticle
  <2>2. QED
    BY <1>4, <2>1, DisplayCalm DEF op_showarticle
<1>. QED
  BY <1>2, <1>3, <1>4

LEMMA YellTellCalm ==
  ASSUME IInv, NEW a \in Addr, NEW h, NEW id, op_yell(a, h) \/ op_tell(a, h, id)
  PROVE  Calm
<1>1. UNCHANGED clihandlers_map /\ no_disk /\ no_history /\ lives
  BY DEF op_yell, op_tell
<1>2. NoneNew
  BY <1>1, Typed, UnchangedFolders DEF no_disk, articleVars, diskVars
<1>. QED
  BY <1>1, <1>2 DEF Calm, no_disk, no_history, lives, articleVars, diskVars, Editing, NumberOf, isLogined

LEMMA EnterCalm ==
  ASSUME IInv, NEW a \in Addr, NEW h, Held(h), Reads(h), NEW aid, op_enter_article(a, h, aid)
  PROVE  Calm
<1>1. Sound(h) /\ h.pos = "ARTICLE_LIST"
  BY DEF Held, op_enter_article
<1>2. CASE readable(aid, h.id) /\ becomes(a, enter_article(moveTo(h, "ARTICLE"), aid))
  <2> DEFINE e == enter_article(moveTo(h, "ARTICLE"), aid)
  <2>1. aid \in Aid
    BY <1>2 DEF readable, loadable, headerReadable, exists
  <2>2. Sound(e) /\ e.cur_aid # NoAid
    BY <1>1, <2>1, EnterFromList, MaxAidAssumption DEF Aid, NoAid
  <2>3. e.state = "RECV_TEXT"
    BY <2>2 DEF Sound, Idle, Entered, Drafting, Reads
  <2>4. QED
    BY <1>2, <2>3, AnswerCalm DEF op_enter_article
<1>3. CASE becomes(a, exit_article(h))
  BY <1>1, <1>3, ExitOnList, IdleReads, AnswerCalm DEF op_enter_article
<1>. QED
  BY <1>2, <1>3 DEF op_enter_article, answer

\* RP, AB and DB.
LEMMA PageCalm ==
  ASSUME IInv, NEW a \in Addr, NEW h, Held(h), Reads(h), NEW bid \in Uid,
         op_response(a, h) \/ op_add_black(a, h, bid) \/ op_del_black(a, h, bid)
  PROVE  Calm
<1>1. h.cur_aid \in Aid /\ exists(h.cur_aid) /\ h.id \in Uid
  BY OnPage DEF op_response, op_add_black, op_del_black, Held, Sound, Handler
<1>2. \/ UNCHANGED folder
      \/ addResponse(h.cur_aid, h.id) \/ addResponseStopped(h.cur_aid)
      \/ appendBlacklist(h.cur_aid, bid)
      \/ removefromBlacklist(h.cur_aid, bid) \/ removefromBlacklistStopped(h.cur_aid, bid)
  BY DEF op_response, op_add_black, op_del_black
<1>3. NoneNew
  BY <1>1, <1>2, Typed, AddResponse, Blacklisting, UnchangedFolders
<1>4. UNCHANGED articles_cfg /\ torn \subseteq torn'
  BY DEF op_response, op_add_black, op_del_black
<1>5. (becomes(a, h) /\ UNCHANGED MAXARTICLEID /\ lives) \/ gone
  BY DEF op_response, op_add_black, op_del_black, answer
<1>6. h.state = "RECV_TEXT"
  BY DEF Reads
<1>. QED
  BY <1>3, <1>4, <1>5, <1>6, BecomesCalm, GoneCalm

-----------------------------------------------------------------------------
(***************************************************************************)
(* The steps that do.                                                      *)
(***************************************************************************)

\* A: the number drawn is above all others.
LEMMA DrawNumbers ==
  ASSUME IInv, Numbers, alive, NEW a \in Addr, NEW h, Held(h), Reads(h), op_add_article(a, h)
  PROVE  Numbers'
<1> PICK n : n = MAXARTICLEID + 1
  OBVIOUS
<1>1. Sound(h) /\ h.pos = "ARTICLE_LIST"
  BY DEF Held, op_add_article
<1>2. CASE /\ getArticleID /\ UNCHANGED torn
           /\ becomes(a, Drawing(h, n)) /\ lives
  <2> SUFFICES ASSUME "articles.cfg" \notin torn PROVE Numbers'
    BY <1>2 DEF Numbers
  <2>1. /\ MAXARTICLEID = articles_cfg /\ articles_cfg \in 0..MaxAid
        /\ UNCHANGED folder /\ MAXARTICLEID' = n /\ articles_cfg' = n /\ n \in Aid
    BY <1>2, Typed, MaxAidAssumption DEF Numbers, getArticleID, Aid
  <2>2. Drawing(h, n).article_ptr.aid = n
    <3>1. Drawing(h, n).article_ptr = [aid |-> n, pid |-> h.id]
      BY <1>1, <2>1, DrawFromList
    <3>2. QED
      BY <3>1
  <2>3. clihandlers_map \in [Addr -> Handler \cup {NoHandler}]
    BY DEF IInv, TypeOK
  <2>4. /\ clihandlers_map'[a] = Drawing(h, n)
        /\ \A b \in Addr \ {a} : clihandlers_map'[b] = clihandlers_map[b]
    BY <1>2, <2>3 DEF becomes
  <2>5. NumberOf(a)' = n
    BY <2>2, <2>4 DEF NumberOf
  <2>6. \A b \in Addr \ {a} : Editing(b)' =>
          Editing(b) /\ NumberOf(b)' = NumberOf(b) /\ NumberOf(b) \in Aid /\ NumberOf(b) <= articles_cfg
    <3> TAKE b \in Addr \ {a}
    <3> HAVE Editing(b)'
    <3>1. Editing(b) /\ NumberOf(b)' = NumberOf(b)
      BY <2>4 DEF Editing, NumberOf, isLogined
    <3>2. Held(clihandlers_map[b])
      BY <3>1, HandlerOf DEF Editing
    <3>3. NumberOf(b) \in Aid
      BY <3>1, <3>2
         DEF Editing, NumberOf, Held, Sound, Idle, Entered, Drafting, Reads, Edits, Draft
    <3>4. QED
      BY <3>1, <3>3 DEF Numbers
  <2>7. \A m \in Aid : exists(m)' => exists(m) /\ m <= articles_cfg
    BY <2>1 DEF exists, Numbers
  <2>8. ~exists(n)'
    <3>1. ~(n <= articles_cfg)
      BY <2>1
    <3>2. QED
      BY <2>1, <2>7, <3>1
  <2>9. articles_cfg' # NoNumber
    BY <2>1, NoNumberAssumption, MaxAidAssumption DEF Aid
  <2>10. \A m \in Aid : exists(m)' => m <= articles_cfg'
    <3>1. articles_cfg' = articles_cfg + 1 /\ articles_cfg \in Nat
      BY <2>1
    <3>2. \A m \in Aid : m <= articles_cfg => m <= articles_cfg'
      BY <3>1 DEF Aid
    <3>3. QED
      BY <2>7, <3>2
  <2>11. \A b \in Addr : Editing(b)' => NumberOf(b)' <= articles_cfg' /\ ~exists(NumberOf(b))'
    <3> TAKE b \in Addr
    <3> HAVE Editing(b)'
    <3>1. CASE b = a
      <4>1. NumberOf(b)' <= articles_cfg'
        BY <2>1, <2>5, <3>1 DEF Aid
      <4>2. ~exists(NumberOf(b))'
        BY <2>5, <2>8, <3>1 DEF exists
      <4>. QED
        BY <4>1, <4>2
    <3>2. CASE b # a
      <4>1. NumberOf(b)' = NumberOf(b) /\ NumberOf(b) \in Aid /\ NumberOf(b) <= articles_cfg /\ Editing(b)
        BY <2>6, <3>2
      <4>2. NumberOf(b)' <= articles_cfg'
        BY <2>1, <4>1 DEF Aid
      <4>3. ~exists(NumberOf(b))
        BY <4>1 DEF Numbers
      <4>4. exists(NumberOf(b))' => exists(NumberOf(b))
        BY <2>1, <4>1 DEF exists
      <4>. QED
        BY <4>2, <4>3, <4>4
    <3>. QED
      BY <3>1, <3>2
  <2>12. \A b, c \in Addr : Editing(b)' /\ Editing(c)' /\ b # c => NumberOf(b)' # NumberOf(c)'
    <3> TAKE b, c \in Addr
    <3> HAVE Editing(b)' /\ Editing(c)' /\ b # c
    <3>1. CASE b # a /\ c # a
      BY <2>6, <3>1 DEF Numbers
    <3>2. CASE b = a
      BY <2>1, <2>5, <2>6, <3>2 DEF Aid
    <3>3. CASE c = a
      BY <2>1, <2>5, <2>6, <3>3 DEF Aid
    <3>. QED
      BY <3>1, <3>2, <3>3
  <2>13. alive' => MAXARTICLEID' = articles_cfg'
    BY <2>1
  <2>. QED
    BY <2>9, <2>10, <2>11, <2>12, <2>13 DEF Numbers
<1>3. CASE torn' = torn \cup {"articles.cfg"}
  BY <1>3 DEF Numbers
<1>4. CASE /\ getArticleIDStopped /\ gone /\ MAXARTICLEID < MaxAid
           /\ torn' = IF articles_cfg' = NoNumber THEN torn \cup {"articles.cfg"} ELSE torn
  <2> SUFFICES ASSUME "articles.cfg" \notin torn' PROVE Numbers'
    BY DEF Numbers
  <2>1. "articles.cfg" \notin torn /\ articles_cfg' # NoNumber
    BY <1>4
  <2>2. articles_cfg' = articles_cfg + 1 /\ articles_cfg \in 0..MaxAid /\ UNCHANGED folder
    BY <1>4, <2>1, Typed DEF getArticleIDStopped, Numbers
  <2>3. \A m \in Aid : exists(m)' => m <= articles_cfg'
    BY <2>1, <2>2, MaxAidAssumption DEF exists, Numbers, Aid
  <2>4. \A b \in Addr : ~Editing(b)'
    BY <1>4 DEF gone, Editing, isLogined
  <2>5. ~alive'
    BY <1>4 DEF gone
  <2>. QED
    BY <2>1, <2>3, <2>4, <2>5 DEF Numbers
<1>5. CASE Die
  BY <1>5, DieCalm, CalmNumbers
<1>. QED
  BY <1>2, <1>3, <1>4, <1>5, Zenon DEF op_add_article, Drawing, answer

\* The text of a draft: its number goes from the draft to the folder.
LEMMA StoreNumbers ==
  ASSUME IInv, Numbers, NEW a \in Addr, Editing(a), NEW args \in Body,
         statehandler_recv_article(a, clihandlers_map[a], args)
  PROVE  Numbers'
<1> PICK h : h = clihandlers_map[a]
  OBVIOUS
<1> PICK d : d = h.article_ptr
  OBVIOUS
<1>1. Held(h) /\ h.state = "RECV_ARTICLE" /\ isLogined(a)
  BY HandlerOf DEF Editing
<1>2. d.aid \in Aid /\ d.pid \in Uid /\ d.aid = NumberOf(a)
  BY <1>1 DEF Held, Sound, Idle, Entered, Drafting, Reads, Edits, Draft, NumberOf
<1>3. \/ /\ store(d.aid, d.pid, args) \/ storeFailed(d.aid, d.pid, args)
         /\ torn' \in {torn, torn \cup {"folder"}}
         /\ becomes(a, Stored(h)) /\ UNCHANGED <<articles_cfg, MAXARTICLEID>> /\ lives
      \/ /\ storeStopped(d.aid, d.pid, args) /\ gone /\ UNCHANGED articles_cfg
         /\ torn' = torn \cup {"folder"}
  BY Zenon DEF statehandler_recv_article, Stored, silent
<1>4. NoneNewBut(d.aid)
  BY <1>2, <1>3, Typed, StoreKeeps, StoreFailedKeeps, StoreStoppedKeeps
<1>5. \A b \in Addr : Editing(b)' => Editing(b) /\ NumberOf(b)' = NumberOf(b) /\ b # a
  <2>1. CASE becomes(a, Stored(h))
    <3>1. clihandlers_map \in [Addr -> Handler \cup {NoHandler}]
      BY DEF IInv, TypeOK
    <3>2. /\ clihandlers_map'[a] = Stored(h)
          /\ \A b \in Addr \ {a} : clihandlers_map'[b] = clihandlers_map[b]
      BY <2>1, <3>1 DEF becomes
    <3>3. Stored(h).state = "RECV_TEXT"
      BY <1>1, StoredIsSound, IdleReads DEF Held
    <3>4. QED
      BY <3>2, <3>3 DEF Editing, NumberOf, isLogined
  <2>2. CASE gone
    BY <2>2 DEF gone, Editing, isLogined
  <2>3. QED
    BY <1>3, <2>1, <2>2
<1> SUFFICES ASSUME "articles.cfg" \notin torn' PROVE Numbers'
  BY DEF Numbers
<1>6. "articles.cfg" \notin torn /\ UNCHANGED articles_cfg
  BY <1>3
<1>7. articles_cfg' # NoNumber /\ (alive' => MAXARTICLEID' = articles_cfg')
  BY <1>3, <1>6 DEF Numbers, lives, gone
<1>8. \A n \in Aid : exists(n)' => n <= articles_cfg'
  BY <1>2, <1>4, <1>6 DEF Numbers, NoneNewBut
<1>9. \A b \in Addr : Editing(b)' => NumberOf(b)' <= articles_cfg' /\ ~exists(NumberOf(b))'
  <2> TAKE b \in Addr
  <2> HAVE Editing(b)'
  <2>1. Editing(b) /\ NumberOf(b)' = NumberOf(b) /\ b # a
    BY <1>5
  <2>2. NumberOf(b) <= articles_cfg' /\ ~exists(NumberOf(b)) /\ NumberOf(b) # d.aid
    BY <1>2, <1>6, <2>1 DEF Numbers
  <2>3. \A n : exists(n)' /\ n # d.aid => exists(n)
    BY <1>4 DEF NoneNewBut, exists
  <2>4. \A n : n = NumberOf(b)' => ~exists(n)'
    BY <2>1, <2>2, <2>3
  <2>5. ~exists(NumberOf(b))'
    BY <2>4 DEF exists
  <2>. QED
    BY <2>1, <2>2, <2>5
<1>10. \A b, c \in Addr : Editing(b)' /\ Editing(c)' /\ b # c => NumberOf(b)' # NumberOf(c)'
  BY <1>5, <1>6 DEF Numbers
<1>. QED
  BY <1>7, <1>8, <1>9, <1>10 DEF Numbers

LEMMA RestartNumbers ==
  ASSUME IInv, Numbers, Restart
  PROVE  Numbers'
<1> SUFFICES ASSUME "articles.cfg" \notin torn' PROVE Numbers'
  BY DEF Numbers
<1>1. /\ "articles.cfg" \notin torn
      /\ UNCHANGED folder /\ UNCHANGED articles_cfg /\ UNCHANGED clihandlers_map
  BY DEF Restart, diskVars
<1>2. articles_cfg' # NoNumber /\ MAXARTICLEID' = articles_cfg'
  BY <1>1 DEF Restart, setMaxartileID, Numbers
<1>. QED
  BY <1>1, <1>2 DEF Numbers, exists, Editing, NumberOf, isLogined

-----------------------------------------------------------------------------
\* A command that is not A, or is not carried out, is calm.
LEMMA TextCalm ==
  ASSUME IInv, NEW a \in Addr, NEW h, Held(h), Reads(h), NEW args, NamesUsers(args),
         statehandler_recv_text(a, h, args)
  PROVE  Calm \/ (Head(args) = "A" /\ op_add_article(a, h))
<1>1. CASE op_return(a, h)
  BY <1>1, ReturnCalm
<1>2. CASE \/ op_visit(a, h) \/ op_showuser(a, h) \/ op_showarticle(a, h)
           \/ op_logout(a, h) \/ op_ignored(a, h, Head(args))
  BY <1>2, WalkCalm
<1>3. CASE op_yell(a, h) \/ \E id \in Given(args, 2, Uid) : op_tell(a, h, id)
  BY <1>3, YellTellCalm
<1>4. CASE \E aid \in Given(args, 2, Aid) : op_enter_article(a, h, aid)
  BY <1>4, EnterCalm
<1>5. CASE Head(args) = "A" /\ op_add_article(a, h)
  BY <1>5
<1>6. CASE op_response(a, h)
  BY <1>6, OnPage, PageCalm DEF Held, Sound, Handler
<1>7. CASE op_overread(a, h, args)
  BY <1>7, DieCalm DEF op_overread
<1>8. CASE /\ Head(args) \in {"AB", "DB"}
           /\ \E bid \in Given(args, 2, Uid) : op_add_black(a, h, bid) \/ op_del_black(a, h, bid)
  <2>1. Given(args, 2, Uid) \subseteq Uid
    BY <1>8 DEF Given, NamesUsers
  <2>2. QED
    BY <1>8, <2>1, PageCalm
<1>. QED
  BY <1>1, <1>2, <1>3, <1>4, <1>5, <1>6, <1>7, <1>8, Zenon DEF statehandler_recv_text

LEMMA GuestCalm ==
  ASSUME IInv, NEW a \in Addr, NEW args, ~isLogined(a), func_guest_mux(a, args)
  PROVE  Calm
<1>1. no_disk /\ UNCHANGED <<alive, torn>>
  BY DEF func_guest_mux
<1>2. UNCHANGED clihandlers_map \/ becomes(a, NewHandler(args[2]))
  BY DEF func_guest_mux, func_register, func_login, answer
<1>3. \A b \in Addr : Editing(b)' => Editing(b) /\ NumberOf(b)' = NumberOf(b)
  <2>1. CASE UNCHANGED clihandlers_map
    BY <2>1 DEF Editing, NumberOf, isLogined
  <2>2. CASE becomes(a, NewHandler(args[2]))
    <3>1. NewHandler(args[2]).state = "RECV_TEXT"
      BY DEF NewHandler
    <3>2. /\ clihandlers_map'[a] = NewHandler(args[2])
          /\ \A b \in Addr \ {a} : clihandlers_map'[b] = clihandlers_map[b]
      BY <2>2 DEF becomes, IInv, TypeOK
    <3>3. QED
      BY <3>1, <3>2 DEF Editing, NumberOf, isLogined
  <2>3. QED
    BY <1>2, <2>1, <2>2
<1>4. NoneNew
  BY <1>1, Typed, UnchangedFolders DEF no_disk, articleVars, diskVars
<1>. QED
  BY <1>1, <1>3, <1>4 DEF Calm, no_disk, articleVars, diskVars

LEMMA StepNumbers == IInv /\ Numbers /\ [Next]_vars => Numbers'
<1> SUFFICES ASSUME IInv, Numbers, [Next]_vars PROVE Numbers'
  OBVIOUS
<1>1. ASSUME NEW a \in Addr, NEW args \in Arriving(a), handler_entry(a, args)
      PROVE  Numbers'
  <2>1. CASE /\ isLogined(a) /\ clihandlers_map[a].state = "RECV_TEXT"
             /\ statehandler_recv_text(a, clihandlers_map[a], args)
    <3>1. NamesUsers(args) /\ alive
      BY <1>1, <2>1, InputAssumption DEF Arriving, handler_entry
    <3>2. Calm \/ op_add_article(a, clihandlers_map[a])
      BY <2>1, <3>1, HandlerOf, TextCalm
    <3>3. QED
      BY <2>1, <3>1, <3>2, HandlerOf, CalmNumbers, DrawNumbers
  <2>2. CASE /\ isLogined(a) /\ clihandlers_map[a].state = "RECV_ARTICLE"
             /\ statehandler_recv_article(a, clihandlers_map[a], args)
    <3>1. args \in Body
      BY <1>1, <2>2 DEF Arriving
    <3>2. QED
      BY <2>2, <3>1, StoreNumbers DEF Editing
  <2>3. CASE ~isLogined(a) /\ func_guest_mux(a, args)
    BY <2>3, GuestCalm, CalmNumbers
  <2>4. QED
    BY <1>1, <2>1, <2>2, <2>3, Zenon DEF handler_entry, func_user_mux
<1>2. CASE Crash
  BY <1>2, DieCalm, CalmNumbers DEF Crash
<1>3. CASE Restart
  BY <1>3, RestartNumbers
<1>4. CASE UNCHANGED vars
  BY <1>4 DEF vars, articleVars, diskVars, sessionVars, historyVars,
              Numbers, exists, Editing, NumberOf, isLogined
<1>. QED
  BY <1>1, <1>2, <1>3, <1>4 DEF Next

\* As long as no process stopped, and no write failed, inside getArticleID(), the
\* article that a user is writing will be stored: its number is taken neither by a
\* folder nor by what somebody else is writing.
THEOREM DraftsCorrect == Spec => []DraftsFresh
<1>1. IInv /\ Numbers /\ [Next]_vars => IInv' /\ Numbers'
  BY StepInv, StepNumbers DEF Good
<1>2. Init => IInv /\ Numbers
  BY InitInv, InitNumbers
<1>3. Numbers => DraftsFresh
  BY NumbersFresh
<1>. QED
  BY <1>1, <1>2, <1>3, PTL DEF Spec

=============================================================================
