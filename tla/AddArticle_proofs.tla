------------------------- MODULE AddArticle_proofs -------------------------
(***************************************************************************)
(* The adding of an article, from the keyboard of its author to the file   *)
(* it is stored in, for every set of clients, lines, texts and ways        *)
(* through the editor, any number of crashes, and a network that loses and *)
(* reorders.                                                               *)
(***************************************************************************)
EXTENDS AddArticle, Drafts_proofs, WellFoundedInduction

(***************************************************************************)
(* The editor.  What a recursive definition computes is proved by its      *)
(* least counterexample.                                                   *)
(***************************************************************************)
LEMMA Least ==
  ASSUME NEW T, T \subseteq Nat, T # {}
  PROVE  \E x \in T : \A y \in T : x <= y
<1>1. \A x, y \in Nat : y < x => <<y, x>> \in OpToRel(<, Nat)
  BY DEF OpToRel
<1>2. \E R : IsWellFoundedOn(R, Nat) /\ \A x, y \in Nat : y < x => <<y, x>> \in R
  BY <1>1, NatLessThanWellFounded, Zenon
<1>3. PICK R : IsWellFoundedOn(R, Nat) /\ \A x, y \in Nat : y < x => <<y, x>> \in R
  BY <1>2
<1>4. PICK x \in T : \A y \in T : ~(<<y, x>> \in R)
  BY <1>3, WFMin
<1>5. \A y \in T : ~(y < x) => x <= y
  OBVIOUS
<1>. QED
  BY <1>3, <1>4, <1>5

Start(buff) == [cnt |-> 0, buff |-> buff, screen |-> << >>, under |-> FALSE]

\* f has the editor before and after each of the first n keys.
Strokes(f, keys, buff, n) ==
  f = [m \in 0..n |-> IF m = 0 THEN Start(buff) ELSE press(f[m - 1], keys[m])]

LEMMA StrokesExist ==
  ASSUME NEW keys, NEW buff, NEW n \in Nat
  PROVE  \E f : Strokes(f, keys, buff, n)
<1> DEFINE Bad == {m \in Nat : ~ \E f : Strokes(f, keys, buff, m)}
<1> SUFFICES ASSUME Bad # {} PROVE FALSE
  OBVIOUS
<1>1. PICK x \in Bad : \A y \in Bad : x <= y
  BY Least
<1>2. CASE x = 0
  <2> DEFINE f == [m \in 0..0 |-> Start(buff)]
  <2>1. Strokes(f, keys, buff, 0)
    BY DEF Strokes
  <2>2. QED
    BY <1>2, <2>1
<1>3. CASE x # 0
  <2>1. x - 1 \in Nat /\ ~(x <= x - 1)
    BY <1>3
  <2>2. PICK f : Strokes(f, keys, buff, x - 1)
    BY <1>1, <2>1
  <2> DEFINE g == [m \in 0..x |-> IF m = x THEN press(f[x - 1], keys[x]) ELSE f[m]]
  <2>3. \A m \in 0..x - 1 : f[m] = IF m = 0 THEN Start(buff) ELSE press(f[m - 1], keys[m])
    BY <2>2 DEF Strokes
  <2>4. \A m \in 0..x - 1 : g[m] = f[m]
    BY <2>1
  <2>5. \A m \in 0..x : g[m] = IF m = 0 THEN Start(buff) ELSE press(g[m - 1], keys[m])
    <3> TAKE m \in 0..x
    <3>1. CASE m = x
      BY <1>3, <2>1, <2>4, <3>1
    <3>2. CASE m # x /\ m = 0
      BY <2>1, <2>3, <2>4, <3>2
    <3>3. CASE m # x /\ m # 0
      <4>1. m \in 0..x - 1 /\ m - 1 \in 0..x - 1
        BY <2>1, <3>3
      <4>2. QED
        BY <2>3, <2>4, <3>3, <4>1
    <3>. QED
      BY <3>1, <3>2, <3>3
  <2>6. Strokes(g, keys, buff, x)
    BY <2>5 DEF Strokes
  <2>. QED
    BY <2>6
<1>. QED
  BY <1>2, <1>3

LEMMA KeystrokesAre ==
  ASSUME NEW keys, NEW buff, Len(keys) \in Nat
  PROVE  Strokes(keystrokes(keys, buff), keys, buff, Len(keys))
<1>1. keystrokes(keys, buff) = CHOOSE f : Strokes(f, keys, buff, Len(keys))
  BY Zenon DEF keystrokes, Strokes, Start
<1>2. \E f : Strokes(f, keys, buff, Len(keys))
  BY StrokesExist
<1>3. Strokes(CHOOSE f : Strokes(f, keys, buff, Len(keys)), keys, buff, Len(keys))
  BY <1>2, Zenon
<1>. QED
  BY <1>1, <1>3, Zenon

\* s with its last taken off, if there is one; and b with key at place i + 1.
Shortened(s) == IF s = << >> THEN s ELSE SubSeq(s, 1, Len(s) - 1)
Overwritten(b, i, key) ==
  IF i < 0 THEN b ELSE SubSeq(b, 1, i) \o <<key>> \o SubSeq(b, i + 2, Len(b))

LEMMA ShortenedIs ==
  ASSUME NEW S, NEW s \in Seq(S)
  PROVE  /\ Shortened(s) \in Seq(S)
         /\ s # << >> => /\ Len(Shortened(s)) = Len(s) - 1
                         /\ \A i \in 1..Len(s) - 1 : Shortened(s)[i] = s[i]
<1>1. CASE s = << >>
  BY <1>1 DEF Shortened
<1>2. CASE s # << >>
  <2>1. Len(s) \in Nat /\ Len(s) > 0
    BY <1>2, EmptySeq, LenProperties
  <2>2. Shortened(s) = SubSeq(s, 1, Len(s) - 1)
    BY <1>2 DEF Shortened
  <2>3. \A i \in 1..Len(s) - 1 : s[i] \in S
    BY <2>1, ElementOfSeq
  <2>4. /\ SubSeq(s, 1, Len(s) - 1) \in Seq(S) /\ Len(SubSeq(s, 1, Len(s) - 1)) = Len(s) - 1
        /\ \A i \in 1..Len(s) - 1 : SubSeq(s, 1, Len(s) - 1)[i] = s[i]
    <3> PICK n \in Nat : n = Len(s) - 1
      BY <2>1
    <3>1. /\ SubSeq(s, 1, n) \in Seq(S) /\ Len(SubSeq(s, 1, n)) = IF 1 <= n THEN n - 1 + 1 ELSE 0
          /\ \A i \in 1..n - 1 + 1 : SubSeq(s, 1, n)[i] = s[1 + i - 1]
      BY <2>3, SubSeqProperties
    <3>. QED
      BY <3>1
  <2>. QED
    BY <2>2, <2>4
<1>. QED
  BY <1>1, <1>2

\* o has what b has, up to i, and then key.
WithKey(o, b, i, key) ==
  Len(o) >= i + 1 /\ o[i + 1] = key /\ \A j \in 1..i : o[j] = b[j]

LEMMA OverwrittenIs ==
  ASSUME NEW S, NEW b \in Seq(S), NEW i \in Int, i <= Len(b), NEW key \in S
  PROVE  /\ Overwritten(b, i, key) \in Seq(S)
         /\ i >= 0 => WithKey(Overwritten(b, i, key), b, i, key)
<1>1. CASE i < 0
  BY <1>1 DEF Overwritten
<1>2. CASE i >= 0
  <2> DEFINE p == SubSeq(b, 1, i)
             q == SubSeq(b, i + 2, Len(b))
  <2>1. Len(b) \in Nat /\ \A j \in 1..Len(b) : b[j] \in S
    BY LenProperties, ElementOfSeq
  <2>2. p \in Seq(S) /\ Len(p) = i /\ \A j \in 1..i : p[j] = b[j]
    BY <1>2, <2>1, SubSeqProperties
  <2>3. q \in Seq(S)
    BY <1>2, <2>1, SubSeqProperties
  <2> HIDE DEF p, q
  <2>4. <<key>> \in Seq(S) /\ Len(<<key>>) = 1 /\ <<key>>[1] = key
    OBVIOUS
  <2> PICK r : r = p \o <<key>>
    OBVIOUS
  <2>5. r \in Seq(S) /\ Len(r) = i + 1 /\ r[i + 1] = key /\ \A j \in 1..i : r[j] = b[j]
    BY <1>2, <2>2, <2>4, ConcatProperties
  <2>6. Overwritten(b, i, key) = r \o q
    <3>1. ~(i < 0)
      BY <1>2
    <3>2. QED
      BY <3>1, Zenon DEF Overwritten, p, q
  <2>7. Len(q) \in Nat
    BY <2>3, LenProperties
  <2>8. /\ r \o q \in Seq(S) /\ Len(r \o q) = i + 1 + Len(q)
        /\ \A j \in 1..i + 1 + Len(q) : (r \o q)[j] = IF j <= i + 1 THEN r[j] ELSE q[j - (i + 1)]
    <3>1. /\ r \o q \in Seq(S) /\ Len(r \o q) = Len(r) + Len(q)
          /\ \A j \in 1..Len(r) + Len(q) : (r \o q)[j] = IF j <= Len(r) THEN r[j] ELSE q[j - Len(r)]
      BY <2>3, <2>5, ConcatProperties
    <3>2. Len(r) = i + 1
      BY <2>5
    <3>. QED
      BY <3>1, <3>2
  <2>9. Len(r \o q) >= i + 1 /\ \A j \in 1..i + 1 : (r \o q)[j] = r[j]
    BY <1>2, <2>7, <2>8
  <2>10. (r \o q)[i + 1] = key /\ \A j \in 1..i : (r \o q)[j] = b[j]
    BY <1>2, <2>5, <2>9
  <2>. QED
    BY <2>6, <2>8, <2>9, <2>10 DEF WithKey
<1>. QED
  BY <1>1, <1>2

Editor == [cnt: Int, buff: Seq(Key), screen: Seq(Key), under: BOOLEAN]

\* What is on the screen is what sendbuff holds up to cnt.
OnScreen(cnt, buff, screen) ==
  cnt = Len(screen) /\ cnt <= Len(buff) /\ \A i \in 1..cnt : buff[i] = screen[i]
Faithful(e) == e.under \/ OnScreen(e.cnt, e.buff, e.screen)

LEMMA PressIs ==
  ASSUME NEW e \in Editor, NEW key
  PROVE  press(e, key) =
           IF key = BACKSPACE
             THEN [cnt |-> e.cnt - 1, buff |-> e.buff, screen |-> Shortened(e.screen),
                   under |-> e.under \/ e.cnt <= 0]
             ELSE [cnt |-> e.cnt + 1, buff |-> Overwritten(e.buff, e.cnt, key),
                   screen |-> Append(e.screen, key), under |-> e.under]
<1>1. ASSUME NEW c, NEW s, NEW u
      PROVE  [e EXCEPT !.cnt = c, !.under = u, !.screen = s] =
               [cnt |-> c, buff |-> e.buff, screen |-> s, under |-> u]
  <2> PICK g : g = [[[e EXCEPT !.cnt = c] EXCEPT !.under = u] EXCEPT !.screen = s]
    OBVIOUS
  <2>1. g = [cnt |-> c, buff |-> e.buff, screen |-> s, under |-> u]
    BY DEF Editor
  <2>2. QED
    BY <2>1
<1>2. ASSUME NEW c, NEW s, NEW b
      PROVE  [e EXCEPT !.cnt = c, !.screen = s, !.buff = b] =
               [cnt |-> c, buff |-> b, screen |-> s, under |-> e.under]
  <2> PICK g : g = [[[e EXCEPT !.cnt = c] EXCEPT !.screen = s] EXCEPT !.buff = b]
    OBVIOUS
  <2> PICK u : u = e.under
    OBVIOUS
  <2>1. g = [cnt |-> c, buff |-> b, screen |-> s, under |-> u]
    BY DEF Editor
  <2>2. QED
    BY <2>1
<1>3. key = BACKSPACE => press(e, key) = [e EXCEPT !.cnt = e.cnt - 1, !.under = e.under \/ e.cnt <= 0,
                                                  !.screen = Shortened(e.screen)]
  BY Zenon DEF press, Shortened
<1>4. key # BACKSPACE => press(e, key) = [e EXCEPT !.cnt = e.cnt + 1, !.screen = Append(e.screen, key),
                                                  !.buff = Overwritten(e.buff, e.cnt, key)]
  BY Zenon DEF press, Overwritten
<1>. QED
  BY <1>1, <1>2, <1>3, <1>4, Zenon

LEMMA PressFaithful ==
  ASSUME NEW e \in Editor, Faithful(e), NEW key \in Key, e.cnt <= Len(e.buff)
  PROVE  /\ press(e, key) \in Editor /\ Faithful(press(e, key))
         /\ press(e, key).cnt <= Len(press(e, key).buff)
<1>1. /\ e.cnt \in Int /\ e.buff \in Seq(Key) /\ e.screen \in Seq(Key) /\ e.under \in BOOLEAN
      /\ Len(e.screen) \in Nat /\ Len(e.buff) \in Nat
  BY LenProperties DEF Editor
<1>2. CASE key = BACKSPACE
  <2> PICK n : n = Shortened(e.screen)
    OBVIOUS
  <2> PICK u \in BOOLEAN : u = (e.under \/ e.cnt <= 0)
    OBVIOUS
  <2>1. n \in Seq(Key)
    BY <1>1, ShortenedIs
  <2>2. press(e, key) = [cnt |-> e.cnt - 1, buff |-> e.buff, screen |-> n, under |-> u]
    BY <1>2, PressIs
  <2>3. press(e, key) \in Editor
    BY <1>1, <2>1, <2>2 DEF Editor
  <2>4. ~u => OnScreen(e.cnt - 1, e.buff, n)
    <3> SUFFICES ASSUME ~u PROVE OnScreen(e.cnt - 1, e.buff, n)
      OBVIOUS
    <3>1. OnScreen(e.cnt, e.buff, e.screen) /\ ~(e.cnt <= 0)
      BY Zenon DEF Faithful
    <3>2. e.screen # << >>
      BY <1>1, <3>1 DEF OnScreen
    <3>3. Len(n) = Len(e.screen) - 1 /\ \A i \in 1..Len(e.screen) - 1 : n[i] = e.screen[i]
      BY <1>1, <3>2, ShortenedIs
    <3>4. e.cnt - 1 = Len(n) /\ e.cnt - 1 <= Len(e.buff)
      BY <1>1, <3>1, <3>3 DEF OnScreen
    <3>5. \A i \in 1..e.cnt - 1 : e.buff[i] = n[i]
      <4>1. \A i \in 1..e.cnt : e.buff[i] = e.screen[i]
        BY <3>1 DEF OnScreen
      <4>2. e.cnt = Len(e.screen)
        BY <3>1 DEF OnScreen
      <4> TAKE i \in 1..e.cnt - 1
      <4>3. i \in 1..e.cnt /\ i \in 1..Len(e.screen) - 1
        BY <1>1, <4>2
      <4>. QED
        BY <3>3, <4>1, <4>3
    <3>. QED
      BY <3>4, <3>5 DEF OnScreen
  <2>5. Faithful(press(e, key))
    BY <2>2, <2>4 DEF Faithful
  <2>. QED
    BY <1>1, <2>2, <2>3, <2>5
<1>3. CASE key # BACKSPACE
  <2> PICK b : b = Overwritten(e.buff, e.cnt, key)
    OBVIOUS
  <2> PICK n : n = Append(e.screen, key)
    OBVIOUS
  <2>1. key \in Key
    BY <1>3
  <2>2. /\ b \in Seq(Key)
        /\ e.cnt >= 0 => /\ Len(b) >= e.cnt + 1 /\ b[e.cnt + 1] = key
                         /\ \A j \in 1..e.cnt : b[j] = e.buff[j]
    <3>1. b \in Seq(Key) /\ (e.cnt >= 0 => WithKey(b, e.buff, e.cnt, key))
      BY <1>1, <2>1, OverwrittenIs
    <3>2. QED
      BY <3>1 DEF WithKey
  <2>3. n \in Seq(Key) /\ Len(n) = Len(e.screen) + 1 /\ n[Len(e.screen) + 1] = key
        /\ \A j \in 1..Len(e.screen) : n[j] = e.screen[j]
    BY <1>1, <2>1, AppendProperties
  <2>4. press(e, key) = [cnt |-> e.cnt + 1, buff |-> b, screen |-> n, under |-> e.under]
    BY <1>3, PressIs
  <2>5. press(e, key) \in Editor
    BY <1>1, <2>2, <2>3, <2>4 DEF Editor
  <2>6. OnScreen(e.cnt, e.buff, e.screen) => OnScreen(e.cnt + 1, b, n)
    BY <1>1, <2>2, <2>3 DEF OnScreen
  <2>7. Faithful(press(e, key))
    BY <2>4, <2>6 DEF Faithful
  <2>8. e.cnt + 1 <= Len(b)
    <3>1. Len(b) \in Nat
      BY <2>2, LenProperties
    <3>2. QED
      BY <1>1, <2>2, <3>1
  <2>. QED
    BY <2>4, <2>5, <2>7, <2>8
<1>. QED
  BY <1>2, <1>3

\* What is sent from the editor is what was on its screen, unless more was taken
\* back than had been written.
LEMMA EditorSendsScreen ==
  ASSUME NEW keys \in Seq(Key), NEW buff \in Seq(Key), ~func_add_article(keys, buff).under
  PROVE  func_add_article(keys, buff).buff = func_add_article(keys, buff).screen
<1> PICK k \in Nat : k = Len(keys)
  OBVIOUS
<1> PICK f : f = keystrokes(keys, buff)
  OBVIOUS
<1>1. \A m \in 0..k : f[m] = IF m = 0 THEN Start(buff) ELSE press(f[m - 1], keys[m])
  BY KeystrokesAre DEF Strokes
<1> DEFINE Fine(m) == f[m] \in Editor /\ Faithful(f[m]) /\ f[m].cnt <= Len(f[m].buff)
           Bad == {m \in 0..k : ~Fine(m)}
<1>2. Fine(0)
  <2>1. f[0] = Start(buff)
    BY <1>1
  <2>2. QED
    BY <2>1 DEF Start, Editor, Faithful, OnScreen
<1>3. \A m \in 1..k : Fine(m - 1) => Fine(m)
  <2> TAKE m \in 1..k
  <2>1. f[m] = press(f[m - 1], keys[m]) /\ keys[m] \in Key
    BY <1>1
  <2>2. QED
    BY <2>1, PressFaithful
<1>4. Bad = {}
  <2> SUFFICES ASSUME Bad # {} PROVE FALSE
    OBVIOUS
  <2> HIDE DEF Fine
  <2>1. PICK x \in Bad : \A y \in Bad : x <= y
    <3>1. Bad \subseteq Nat
      OBVIOUS
    <3>2. QED
      BY <3>1, Least
  <2>2. x # 0
    BY <1>2
  <2>3. x \in 1..k /\ x - 1 \in 0..k /\ ~(x <= x - 1)
    BY <2>2
  <2>4. Fine(x - 1)
    BY <2>1, <2>3
  <2>. QED
    BY <1>3, <2>3, <2>4
<1> PICK e : e = f[k]
  OBVIOUS
<1>5. e \in Editor /\ Faithful(e)
  BY <1>4
<1> PICK g : g = func_add_article(keys, buff)
  OBVIOUS
<1>6. g = [e EXCEPT !.buff = IF e.cnt < 0 THEN @ ELSE SubSeq(@, 1, e.cnt)]
  BY Zenon DEF func_add_article
<1>7. g.under = e.under /\ g.screen = e.screen /\ g.buff = IF e.cnt < 0 THEN e.buff ELSE SubSeq(e.buff, 1, e.cnt)
  BY <1>5, <1>6 DEF Editor
<1>8. e.cnt = Len(e.screen) /\ e.cnt <= Len(e.buff) /\ \A i \in 1..e.cnt : e.buff[i] = e.screen[i]
  BY <1>5, <1>7 DEF Faithful, OnScreen
<1>9. e.buff \in Seq(Key) /\ e.screen \in Seq(Key)
  BY <1>5 DEF Editor
<1>10. SubSeq(e.buff, 1, e.cnt) = e.screen
  <2>1. /\ SubSeq(e.buff, 1, e.cnt) \in Seq(Key) /\ Len(SubSeq(e.buff, 1, e.cnt)) = e.cnt
        /\ \A i \in 1..e.cnt : SubSeq(e.buff, 1, e.cnt)[i] = e.buff[i]
    BY <1>8, <1>9
  <2>2. QED
    BY <1>8, <1>9, <2>1, SeqEqual
<1>11. ~(e.cnt < 0)
  BY <1>8, <1>9, LenProperties
<1>. QED
  BY <1>7, <1>10, <1>11

-----------------------------------------------------------------------------
(***************************************************************************)
(* What a datagram does to the handler of its sender, and to the others.   *)
(***************************************************************************)
Listing(a) == isLogined(a) /\ clihandlers_map[a].pos = "ARTICLE_LIST"

LEMMA DueIsEditing ==
  ASSUME IInv, NEW a \in Addr, isLogined(a)
  PROVE  clihandlers_map[a].pos = "ARTICLE_EDIT" <=> Editing(a)
<1>1. Sound(clihandlers_map[a])
  BY HandlerOf DEF Held
<1>. QED
  BY <1>1 DEF Editing, Sound, Idle, Entered, Drafting, Reads, Edits,
              AtMenu, AtUsers, AtList, AtPage, AtEditor

OthersStay(a) == \A b \in Addr \ {a} : clihandlers_map'[b] = clihandlers_map[b]

LEMMA BecomesAlone ==
  ASSUME IInv, NEW a \in Addr, NEW h, becomes(a, h)
  PROVE  clihandlers_map'[a] = h /\ OthersStay(a)
BY DEF becomes, OthersStay, IInv, TypeOK

\* Every step of a handler is about the handler of one address, or the end of all.
LEMMA OneHandler ==
  ASSUME IInv, NEW a \in Addr, NEW args, handler_entry(a, args)
  PROVE  OthersStay(a) \/ gone
<1> PICK h : h = clihandlers_map[a]
  OBVIOUS
<1> DEFINE Alone == (\E g : becomes(a, g)) \/ UNCHANGED clihandlers_map \/ gone
<1>1. ASSUME NEW g, NEW text, answer(a, g, text) \/ silent(a, g)
      PROVE  Alone
  BY <1>1, Zenon DEF answer, silent
<1>2. Die => Alone
  BY Zenon DEF Die
<1>3. ASSUME NEW g, func_display_article_list(a, g) PROVE Alone
  BY <1>1, <1>2, <1>3, Zenon DEF func_display_article_list
<1>4. op_return(a, h) => Alone
  BY <1>1, <1>3, Zenon DEF op_return
<1>5. op_visit(a, h) \/ op_showuser(a, h) \/ op_showarticle(a, h) => Alone
  BY <1>1, <1>3, Zenon DEF op_visit, op_showuser, op_showarticle
<1>6. op_yell(a, h) \/ (\E id \in Given(args, 2, Uid) : op_tell(a, h, id)) => Alone
  BY Zenon DEF op_yell, op_tell
<1>7. (\E aid \in Given(args, 2, Aid) : op_enter_article(a, h, aid)) => Alone
  BY <1>1, Zenon DEF op_enter_article
<1>8. op_add_article(a, h) => Alone
  BY <1>1, <1>2, Zenon DEF op_add_article
<1>9. op_response(a, h) => Alone
  BY <1>1, Zenon DEF op_response
<1>10. (\E bid \in Given(args, 2, Uid) : op_add_black(a, h, bid) \/ op_del_black(a, h, bid)) => Alone
  BY <1>1, Zenon DEF op_add_black, op_del_black
<1>11. op_logout(a, h) \/ op_ignored(a, h, Head(args)) \/ op_overread(a, h, args) => Alone
  BY <1>1, <1>2, Zenon DEF op_logout, op_ignored, op_overread
<1>12. statehandler_recv_article(a, h, args) => Alone
  BY <1>1, Zenon DEF statehandler_recv_article
<1>13. func_guest_mux(a, args) => Alone
  BY <1>1, Zenon DEF func_guest_mux, func_register, func_login
<1> HIDE DEF Alone
<1>14. statehandler_recv_text(a, h, args) => Alone
  BY <1>4, <1>5, <1>6, <1>7, <1>8, <1>9, <1>10, <1>11, Zenon DEF statehandler_recv_text
<1>15. Alone
  BY <1>12, <1>13, <1>14, Zenon DEF handler_entry, func_user_mux
<1>. QED
  BY <1>15, BecomesAlone DEF Alone, OthersStay

\* A command that is handled: only A, on the list of articles, leads to the editor,
\* where it does as long as the process lives.
Commanded(a, args) ==
  /\ NoneNew
  /\ Editing(a)' => Head(args) = "A" /\ Listing(a)
  /\ Head(args) = "A" => ~Listing(a)'
  /\ Head(args) = "A" /\ Listing(a) /\ alive' => Editing(a)'

LEMMA GoneCommanded ==
  ASSUME NEW a \in Addr, NEW args, gone, NoneNew
  PROVE  Commanded(a, args)
BY DEF gone, Commanded, Editing, Listing, isLogined

LEMMA CalmCommanded ==
  ASSUME NEW a \in Addr, NEW args, ~Editing(a), Calm, Head(args) # "A"
  PROVE  Commanded(a, args)
BY DEF Calm, Commanded

LEMMA DrawCommanded ==
  ASSUME IInv, NEW a \in Addr, isLogined(a), ~Editing(a), NEW args, Head(args) = "A",
         op_add_article(a, clihandlers_map[a])
  PROVE  Commanded(a, args)
<1> PICK h : h = clihandlers_map[a]
  OBVIOUS
<1> PICK n : n = MAXARTICLEID + 1
  OBVIOUS
<1>1. h.pos = "ARTICLE_LIST" /\ Sound(h) /\ Reads(h) /\ Listing(a)
  BY HandlerOf DEF op_add_article, Held, Editing, Listing, Handler
<1>2. NoneNew
  BY Typed, UnchangedFolders DEF op_add_article, getArticleID, getArticleIDFailed,
     getArticleIDStopped, Die, diskVars
<1>3. CASE becomes(a, Drawing(h, n)) /\ n \in Aid
  <2>1. Drawing(h, n).pos = "ARTICLE_EDIT" /\ Drawing(h, n).state = "RECV_ARTICLE"
    BY <1>1, <1>3, DrawFromList DEF Drafting, Edits, AtEditor
  <2>2. Drawing(h, n) # NoHandler
    BY <1>1, <1>3, DrawFromList, NoHandlerAssumption DEF Sound
  <2>3. clihandlers_map'[a] = Drawing(h, n)
    BY <1>3, BecomesAlone
  <2>. QED
    BY <1>1, <1>2, <2>1, <2>2, <2>3 DEF Commanded, Editing, Listing, isLogined
<1>4. CASE gone
  BY <1>2, <1>4, GoneCommanded
<1>5. (becomes(a, Drawing(h, n)) /\ MAXARTICLEID < MaxAid) \/ gone
  BY Zenon DEF op_add_article, answer, Drawing, getArticleID, getArticleIDFailed, Die
<1>6. MAXARTICLEID < MaxAid => n \in Aid
  BY Typed, MaxAidAssumption DEF Aid
<1>. QED
  BY <1>3, <1>4, <1>5, <1>6

LEMMA TextCommanded ==
  ASSUME IInv, NEW a \in Addr, isLogined(a), ~Editing(a), NEW args, NamesUsers(args),
         statehandler_recv_text(a, clihandlers_map[a], args)
  PROVE  Commanded(a, args)
<1> PICK h : h = clihandlers_map[a]
  OBVIOUS
<1>1. Held(h) /\ Reads(h)
  BY HandlerOf DEF Editing, Held, Sound, Handler
<1>2. CASE Head(args) # "A"
  BY <1>1, <1>2, TextCalm, CalmCommanded
<1>3. CASE Head(args) = "A"
  <2>1. op_add_article(a, h) \/ op_ignored(a, h, "A") \/ op_overread(a, h, args)
    BY <1>3 DEF statehandler_recv_text
  <2>2. CASE op_add_article(a, h)
    BY <1>3, <2>2, DrawCommanded
  <2>3. CASE op_ignored(a, h, "A")
    <3>1. h.pos # "ARTICLE_LIST" /\ becomes(a, h)
      BY <2>3 DEF op_ignored, offered, silent
    <3>2. clihandlers_map'[a] = h
      BY <3>1, BecomesAlone
    <3>3. NoneNew
      BY <1>1, <2>3, WalkCalm DEF Calm
    <3>. QED
      BY <3>1, <3>2, <3>3 DEF Commanded, Editing, Listing, isLogined
  <2>4. CASE op_overread(a, h, args)
    BY <2>4, Typed, UnchangedFolders, GoneCommanded DEF op_overread, Die, diskVars
  <2>. QED
    BY <2>1, <2>2, <2>3, <2>4
<1>. QED
  BY <1>2, <1>3

LEMMA GuestCommanded ==
  ASSUME IInv, NEW a \in Addr, ~isLogined(a), NEW args, func_guest_mux(a, args)
  PROVE  Commanded(a, args)
<1>1. Calm
  BY GuestCalm
<1>2. CASE Head(args) # "A"
  BY <1>1, <1>2, CalmCommanded DEF Editing
<1>3. CASE Head(args) = "A"
  <2>1. UNCHANGED clihandlers_map
    BY <1>3 DEF func_guest_mux
  <2>2. QED
    BY <1>1, <2>1 DEF Commanded, Calm, Editing, Listing, isLogined
<1>. QED
  BY <1>2, <1>3

LEMMA HandledCommand ==
  ASSUME IInv, NEW a \in Addr, ~Editing(a), NEW args, NamesUsers(args), handler_entry(a, args)
  PROVE  Commanded(a, args)
BY TextCommanded, GuestCommanded, Zenon DEF handler_entry, func_user_mux, Editing

\* A folder with the text that came for a draft of id, or with no whole text.
Holds(f, id, text) ==
  \/ f.context \in {TornBody, NoFile}
  \/ f.context = text /\ f.info \in {id, TornInfo}

\* A text that is handled: it is stored under the number that was drawn for it, or a
\* part of it or nothing, and its author is out of the editor.
Texted(a, text) ==
  /\ ~Editing(a)'
  /\ \A n \in Aid : exists(n)' =>
       \/ exists(n)
       \/ n = NumberOf(a) /\ Holds(folder'[n], clihandlers_map[a].id, text)

Put(aid, f) == folder' = [folder EXCEPT ![aid] = f]

LEMMA HandledText ==
  ASSUME IInv, NEW a \in Addr, Editing(a), NEW text \in Body, handler_entry(a, text)
  PROVE  Texted(a, text)
<1> PICK h : h = clihandlers_map[a]
  OBVIOUS
<1> PICK d : d = h.article_ptr
  OBVIOUS
<1>1. Held(h) /\ h.state = "RECV_ARTICLE" /\ isLogined(a)
  BY HandlerOf DEF Editing
<1>2. d.aid \in Aid /\ d.pid \in Uid /\ d.pid = h.id /\ d.aid = NumberOf(a)
  BY <1>1 DEF Held, Sound, Idle, Entered, Drafting, Reads, Edits, Draft, NumberOf
<1>3. statehandler_recv_article(a, h, text)
  BY <1>1 DEF handler_entry, func_user_mux
<1>4. becomes(a, Stored(h)) \/ gone
  BY <1>3, Zenon DEF statehandler_recv_article, Stored, silent
<1>5. ~Editing(a)'
  <2>1. CASE becomes(a, Stored(h))
    <3>1. Stored(h).state = "RECV_TEXT"
      BY <1>1, StoredIsSound, IdleReads DEF Held
    <3>2. QED
      BY <2>1, <3>1, BecomesAlone DEF Editing
  <2>2. CASE gone
    BY <2>2 DEF gone, Editing, isLogined
  <2>. QED
    BY <1>4, <2>1, <2>2
<1> DEFINE Done == UNCHANGED folder \/ \E f : Put(d.aid, f) /\ Holds(f, d.pid, text)
<1>6. Done
  <2>1. ASSUME NEW i \in {d.pid, TornInfo}, NEW c \in {text, TornBody}, store(d.aid, i, c)
        PROVE  Done
    <3>1. Holds(Complete(i, c), d.pid, text)
      BY DEF Complete, Holds
    <3>2. UNCHANGED folder \/ Put(d.aid, Complete(i, c))
      BY <2>1, Zenon DEF store, Put
    <3>. QED
      BY <3>1, <3>2
  <2>2. ASSUME storeStopped(d.aid, d.pid, text)
        PROVE  Done
    <3>1. PICK f \in Begun(d.pid, text) : Put(d.aid, f)
      BY <2>2, Zenon DEF storeStopped, Put
    <3>2. Holds(f, d.pid, text)
      BY DEF Begun, Holds
    <3>. QED
      BY <3>1, <3>2
  <2>3. \/ store(d.aid, d.pid, text)
        \/ storeFailed(d.aid, d.pid, text)
        \/ storeStopped(d.aid, d.pid, text)
    BY <1>3, Zenon DEF statehandler_recv_article
  <2>4. \/ UNCHANGED folder
        \/ \E i \in {d.pid, TornInfo}, c \in {text, TornBody} : store(d.aid, i, c)
        \/ store(d.aid, d.pid, text)
        \/ storeStopped(d.aid, d.pid, text)
    BY <2>3 DEF storeFailed
  <2>5. d.pid \in {d.pid, TornInfo} /\ text \in {text, TornBody}
    OBVIOUS
  <2> HIDE DEF Done
  <2>6. (\E i \in {d.pid, TornInfo}, c \in {text, TornBody} : store(d.aid, i, c)) => Done
    BY <2>1
  <2>7. store(d.aid, d.pid, text) => Done
    BY <2>5, <2>6
  <2>8. UNCHANGED folder => Done
    BY DEF Done
  <2>. QED
    BY <2>2, <2>4, <2>6, <2>7, <2>8
<1>7. folder \in [Aid -> Folder \cup {NoFolder}]
  BY Typed DEF FoldersType
<1>8. \A n \in Aid : exists(n)' => exists(n) \/ (n = d.aid /\ Holds(folder'[n], d.pid, text))
  BY <1>6, <1>7 DEF exists, Put
<1>. QED
  BY <1>2, <1>5, <1>8 DEF Texted

-----------------------------------------------------------------------------
(***************************************************************************)
(* The drafts of one process never have a number in common, whatever       *)
(* articles.cfg says: the process counts up.                               *)
(***************************************************************************)
Apart ==
  /\ \A a \in Addr : Editing(a) => alive /\ NumberOf(a) <= MAXARTICLEID
  /\ \A a, b \in Addr : Editing(a) /\ Editing(b) /\ a # b => NumberOf(a) # NumberOf(b)

LEMMA EditsNumber ==
  ASSUME IInv, NEW a \in Addr, Editing(a)
  PROVE  NumberOf(a) \in Aid
BY HandlerOf DEF Editing, NumberOf, Held, Sound, Idle, Entered, Drafting, Reads, Edits, Draft

LEMMA EditsNumberNext ==
  ASSUME IInv', NEW a \in Addr, Editing(a)'
  PROVE  NumberOf(a)' \in Aid
<1>1. Held(clihandlers_map[a])'
  BY DEF IInv, Sessions, Editing
<1>. QED
  BY <1>1 DEF Editing, NumberOf, Held, Sound, Idle, Entered, Drafting, Reads, Edits, Draft

\* A datagram that is handled leaves a process, or none.
LEMMA Survives ==
  ASSUME NEW a, NEW args, handler_entry(a, args)
  PROVE  alive' \/ gone
<1> PICK h : h = clihandlers_map[a]
  OBVIOUS
<1> DEFINE Left == lives \/ gone
<1>1. ASSUME NEW g, func_display_article_list(a, g) PROVE Left
  BY <1>1, Zenon DEF func_display_article_list, Die
<1>2. op_return(a, h) => Left
  BY <1>1, Zenon DEF op_return
<1>3. op_visit(a, h) \/ op_showuser(a, h) \/ op_showarticle(a, h) => Left
  BY <1>1, Zenon DEF op_visit, op_showuser, op_showarticle
<1>4. op_yell(a, h) \/ (\E id \in Given(args, 2, Uid) : op_tell(a, h, id)) => Left
  BY Zenon DEF op_yell, op_tell
<1>5. (\E aid \in Given(args, 2, Aid) : op_enter_article(a, h, aid)) => Left
  BY Zenon DEF op_enter_article
<1>6. op_add_article(a, h) \/ op_response(a, h) => Left
  BY Zenon DEF op_add_article, op_response, Die
<1>7. (\E bid \in Given(args, 2, Uid) : op_add_black(a, h, bid) \/ op_del_black(a, h, bid)) => Left
  BY Zenon DEF op_add_black, op_del_black
<1>8. op_logout(a, h) \/ op_ignored(a, h, Head(args)) \/ op_overread(a, h, args) => Left
  BY Zenon DEF op_logout, op_ignored, op_overread, Die
<1>9. statehandler_recv_article(a, h, args) => Left
  BY Zenon DEF statehandler_recv_article
<1> HIDE DEF Left
<1>10. statehandler_recv_text(a, h, args) => Left
  BY <1>2, <1>3, <1>4, <1>5, <1>6, <1>7, <1>8, Zenon DEF statehandler_recv_text
<1>11. alive /\ (Left \/ func_guest_mux(a, args))
  BY <1>9, <1>10, Zenon DEF handler_entry, func_user_mux
<1>12. func_guest_mux(a, args) => UNCHANGED alive
  BY DEF func_guest_mux
<1>. QED
  BY <1>11, <1>12 DEF Left, lives

\* No number is given out, and no draft outlives its process.
Steady ==
  \A b \in Addr : Editing(b)' =>
    Editing(b) /\ NumberOf(b)' = NumberOf(b) /\ alive' /\ UNCHANGED MAXARTICLEID

LEMMA SteadyApart ==
  ASSUME Apart, Steady
  PROVE  Apart'
BY DEF Apart, Steady

LEMMA GoneSteady ==
  ASSUME gone
  PROVE  Steady
BY DEF gone, Steady, Editing, isLogined

LEMMA DrawApart ==
  ASSUME IInv, Apart, alive, NEW a \in Addr, NEW h, Held(h), Reads(h), op_add_article(a, h)
  PROVE  Apart'
<1> PICK n : n = MAXARTICLEID + 1
  OBVIOUS
<1>1. Sound(h) /\ h.pos = "ARTICLE_LIST" /\ MAXARTICLEID \in Nat
  BY Typed DEF op_add_article, Held
<1>2. CASE becomes(a, Drawing(h, n)) /\ MAXARTICLEID < MaxAid /\ MAXARTICLEID' = n /\ lives
  <2>1. n \in Aid
    BY <1>1, <1>2, MaxAidAssumption DEF Aid
  <2>2. Drawing(h, n).article_ptr = [aid |-> n, pid |-> h.id]
    BY <1>1, <2>1, DrawFromList
  <2>3. clihandlers_map'[a] = Drawing(h, n) /\ OthersStay(a)
    BY <1>2, BecomesAlone
  <2>4. NumberOf(a)' = n /\ alive'
    BY <1>2, <2>2, <2>3 DEF NumberOf, lives
  <2>5. \A b \in Addr \ {a} : Editing(b)' =>
          /\ Editing(b) /\ NumberOf(b)' = NumberOf(b)
          /\ NumberOf(b) \in Nat /\ NumberOf(b) <= MAXARTICLEID
    <3> TAKE b \in Addr \ {a}
    <3> HAVE Editing(b)'
    <3>1. Editing(b) /\ NumberOf(b)' = NumberOf(b)
      BY <2>3 DEF OthersStay, Editing, NumberOf, isLogined
    <3>2. NumberOf(b) \in Aid
      BY <3>1, EditsNumber
    <3>. QED
      BY <3>1, <3>2 DEF Apart, Aid
  <2>6. \A b \in Addr \ {a} : Editing(b)' => NumberOf(b)' <= n /\ NumberOf(b)' # n
    BY <1>1, <2>5
  <2>7. \A b \in Addr : Editing(b)' => alive' /\ NumberOf(b)' <= MAXARTICLEID'
    BY <1>1, <1>2, <2>4, <2>6
  <2>8. \A b, c \in Addr : Editing(b)' /\ Editing(c)' /\ b # c => NumberOf(b)' # NumberOf(c)'
    <3> TAKE b, c \in Addr
    <3> HAVE Editing(b)' /\ Editing(c)' /\ b # c
    <3>1. CASE b # a /\ c # a
      BY <2>5, <3>1 DEF Apart
    <3>2. CASE b = a \/ c = a
      BY <2>4, <2>6, <3>2
    <3>. QED
      BY <3>1, <3>2
  <2>. QED
    BY <2>7, <2>8 DEF Apart
<1>3. CASE gone
  BY <1>3, GoneSteady, SteadyApart
<1>4. \/ becomes(a, Drawing(h, n)) /\ MAXARTICLEID < MaxAid /\ MAXARTICLEID' = n /\ lives
      \/ gone
  BY Zenon DEF op_add_article, answer, Drawing, getArticleID, getArticleIDFailed, Die
<1>. QED
  BY <1>2, <1>3, <1>4

LEMMA TextSteady ==
  ASSUME IInv, NEW a \in Addr, Editing(a), NEW args, alive,
         statehandler_recv_article(a, clihandlers_map[a], args)
  PROVE  Steady
<1> PICK h : h = clihandlers_map[a]
  OBVIOUS
<1>1. Held(h) /\ h.state = "RECV_ARTICLE"
  BY HandlerOf DEF Editing
<1>2. CASE becomes(a, Stored(h)) /\ UNCHANGED MAXARTICLEID /\ lives
  <2>1. Stored(h).state = "RECV_TEXT"
    BY <1>1, StoredIsSound, IdleReads DEF Held
  <2>2. clihandlers_map'[a] = Stored(h) /\ OthersStay(a)
    BY <1>2, BecomesAlone
  <2>. QED
    BY <1>2, <2>1, <2>2 DEF Steady, OthersStay, Editing, NumberOf, isLogined, lives
<1>3. CASE gone
  BY <1>3, GoneSteady
<1>4. \/ becomes(a, Stored(h)) /\ UNCHANGED <<articles_cfg, MAXARTICLEID, told>> /\ lives
      \/ gone
  BY Zenon DEF statehandler_recv_article, Stored, silent
<1>. QED
  BY <1>2, <1>3, <1>4

LEMMA HandledApart ==
  ASSUME IInv, Apart, NEW a \in Addr, NEW args, Acceptable(a, args), handler_entry(a, args)
  PROVE  Apart'
<1> PICK h : h = clihandlers_map[a]
  OBVIOUS
<1>1. alive /\ (alive' \/ gone)
  BY Survives DEF handler_entry
<1>2. ASSUME Calm PROVE Apart'
  <2>1. alive' => Steady
    BY <1>2 DEF Calm, Steady
  <2>. QED
    BY <1>1, <2>1, GoneSteady, SteadyApart
<1>3. CASE isLogined(a) /\ h.state = "RECV_TEXT" /\ statehandler_recv_text(a, h, args)
  <2>1. Held(h) /\ Reads(h) /\ NamesUsers(args)
    BY <1>3, HandlerOf DEF Acceptable
  <2>. QED
    BY <1>1, <1>2, <1>3, <2>1, TextCalm, DrawApart
<1>4. CASE isLogined(a) /\ h.state = "RECV_ARTICLE" /\ statehandler_recv_article(a, h, args)
  BY <1>1, <1>4, TextSteady, SteadyApart DEF Editing
<1>5. CASE ~isLogined(a) /\ func_guest_mux(a, args)
  BY <1>2, <1>5, GuestCalm
<1>. QED
  BY <1>3, <1>4, <1>5, Zenon DEF handler_entry, func_user_mux

-----------------------------------------------------------------------------
(***************************************************************************)
(* What is under way.  Each client numbers what it sends, and the server   *)
(* is before everything in flight, as long as nothing was passed over.     *)
(***************************************************************************)
Wire ==
  /\ cstate \in [Addr -> {"RECV_TEXT", "SEND_ARTICLE"}]
  /\ sendbuff \in [Addr -> Body \cup {<< >>}]
  /\ out \in [Addr -> Nat] /\ in \in [Addr -> Nat]
  /\ \A d \in toServer :
       /\ d.from \in Addr /\ d.args \in Body \cup {<< >>}
       /\ d.no \in Nat /\ d.no <= out[d.from]
       /\ ~d.edited => d.args # << >>
  /\ \A d, e \in toServer : d.from = e.from /\ d.no = e.no => d = e
  /\ ~gap => /\ \A a \in Addr : in[a] <= out[a]
             /\ \A d \in toServer : in[d.from] < d.no

IsA(d) == ~d.edited /\ Head(d.args) = "A"

\* Number k of a, if it is under way, is an A.
Asked(a, k) == \A d \in toServer : d.from = a /\ d.no = k => IsA(d)

(***************************************************************************)
(* The strengthening of EditedNotExecuted: before every text from the      *)
(* editor goes an A, and once the server has handled that, it is waiting   *)
(* for the text.                                                           *)
(***************************************************************************)
Expected(a, k) == Asked(a, k) /\ (in[a] = k /\ alive => Editing(a))

InStep ==
  ~(overtyped \/ gap \/ misplaced \/ crashed > 0) =>
    /\ ~executed
    /\ \A a \in Addr : cstate[a] = "SEND_ARTICLE" => Expected(a, out[a])
    /\ \A d \in toServer : d.edited => Expected(d.from, d.no - 1)

(***************************************************************************)
(* The strengthening of EditedIsStored: after every A, in flight or        *)
(* handled, comes a text from the editor, and nothing else does that could *)
(* open the server's editor; and the number an A was given is the one      *)
(* under which its sender's next text is stored.                           *)
(***************************************************************************)
Answered(a, k) == Asked(a, k) /\ (in[a] = k => ~Listing(a))

Followed(a, k) ==
  /\ \A d \in toServer : d.from = a /\ d.no = k + 1 => d.edited
  /\ out[a] = k => cstate[a] = "SEND_ARTICLE"

\* Datagram d has what its sender had on the screen.
Screen(d) == [from |-> d.from, no |-> d.no, text |-> d.args]

\* What is known of the draft a has in the editor of the server, and of a folder.
DrawOf(a) ==
  [aid |-> NumberOf(a), from |-> a, no |-> in[a], id |-> clihandlers_map[a].id]
DrawKnown(a) == ~exists(NumberOf(a)) => DrawOf(a) \in drew
TextKnown(n) == folder[n].context \in {NoFile, TornBody} \/ AuthorsText(n)

StoredOnly ==
  /\ \A d \in toServer : d.edited => d.args # << >> /\ Screen(d) \in written
  /\ \A a \in Addr : Editing(a) => DrawKnown(a)
  /\ \A n \in Aid : exists(n) => TextKnown(n)

InOrder ==
  ~(overtyped \/ emptied \/ overerased \/ gap) =>
    /\ StoredOnly
    /\ \A a \in Addr : cstate[a] = "SEND_ARTICLE" => Answered(a, out[a])
    /\ \A d \in toServer : d.edited => Answered(d.from, d.no - 1)
    /\ \A d \in toServer : IsA(d) => Followed(d.from, d.no)
    /\ \A a \in Addr : Editing(a) => Followed(a, in[a])

AddInv == IInv /\ Wire /\ Apart /\ InStep /\ InOrder

LEMMA AddInvImplies == AddInv => EditedIsStored /\ EditedNotExecuted
BY DEF AddInv, InStep, InOrder, StoredOnly, TextKnown, EditedIsStored, EditedNotExecuted

LEMMA AddInitInv == AddInit => AddInv
<1> SUFFICES ASSUME AddInit PROVE AddInv
  OBVIOUS
<1>1. IInv
  BY InitInv DEF AddInit
<1>2. \A a \in Addr : ~Editing(a)
  BY DEF AddInit, Init, Editing, isLogined
<1>3. /\ toServer = {[from |-> a, args |-> <<"RT">>, no |-> 1, edited |-> FALSE] : a \in Addr}
      /\ in = [a \in Addr |-> 0] /\ out = [a \in Addr |-> 1]
  BY DEF AddInit
<1>4. \A d \in toServer :
        /\ d.from \in Addr /\ d.args = <<"RT">> /\ d.no = 1 /\ ~d.edited
        /\ d = [from |-> d.from, args |-> <<"RT">>, no |-> 1, edited |-> FALSE]
  BY <1>3
<1>5. \A n \in Aid : ~exists(n)
  <2>1. PICK n \in 0..MaxAid, pid \in Uid, body \in Body :
          /\ folder = [aid \in Aid |-> IF aid <= n THEN Complete(pid, body) ELSE NoFolder]
          /\ articles_cfg = n /\ MAXARTICLEID = n
    BY DEF AddInit, Init
  <2>2. n = 0
    BY <2>1 DEF AddInit
  <2>. QED
    BY <2>1, <2>2 DEF exists, Aid
<1>6. Wire
  <2>1. /\ cstate \in [Addr -> {"RECV_TEXT", "SEND_ARTICLE"}]
        /\ sendbuff \in [Addr -> Body \cup {<< >>}]
        /\ out \in [Addr -> Nat] /\ in \in [Addr -> Nat]
    BY <1>3 DEF AddInit
  <2>2. \A d \in toServer :
          /\ d.from \in Addr /\ d.args \in Body \cup {<< >>}
          /\ d.no \in Nat /\ d.no <= out[d.from]
          /\ ~d.edited => d.args # << >>
    <3>1. \A a \in Addr : out[a] = 1
      BY DEF AddInit
    <3>2. <<"RT">> # << >> /\ <<"RT">> \in Body
      BY SentAssumption
    <3>3. \A d \in toServer : d.from \in Addr /\ d.no = 1 /\ d.args = <<"RT">>
      BY <1>4
    <3>. QED
      BY <3>1, <3>2, <3>3
  <2>3. \A d, e \in toServer : d.from = e.from /\ d.no = e.no => d = e
    BY <1>4
  <2>4. \A a \in Addr : in[a] <= out[a]
    <3> TAKE a \in Addr
    <3>1. in[a] = 0
      BY <1>3
    <3>2. out[a] = 1
      BY <1>3
    <3>. QED
      BY <3>1, <3>2
  <2>5. \A d \in toServer : in[d.from] < d.no
    BY <1>3, <1>4
  <2>. QED
    BY <2>1, <2>2, <2>3, <2>4, <2>5 DEF Wire
<1>7. \A a \in Addr : cstate[a] # "SEND_ARTICLE"
  BY DEF AddInit
<1>8. \A d \in toServer : ~d.edited /\ ~IsA(d)
  BY <1>4 DEF IsA
<1>9. InStep
  BY <1>7, <1>8 DEF InStep, AddInit
<1>10. InOrder
  BY <1>2, <1>5, <1>7, <1>8 DEF InOrder, StoredOnly, AddInit
<1>11. Apart
  BY <1>2 DEF Apart
<1>. QED
  BY <1>1, <1>6, <1>9, <1>10, <1>11 DEF AddInv

-----------------------------------------------------------------------------
(***************************************************************************)
(* The client.                                                             *)
(***************************************************************************)

\* d is the next of a, and it is under way.
Posted(a, d) ==
  /\ d.from = a /\ d.no = out[a] + 1
  /\ toServer' = toServer \cup {d}
  /\ out' = [out EXCEPT ![a] = out[a] + 1]

Sends(a, args, edited) == \E d : Posted(a, d) /\ d.args = args /\ d.edited = edited

LEMMA PostedIs ==
  ASSUME NEW a, NEW args, NEW edited, client_send(a, args, edited)
  PROVE  Sends(a, args, edited)
<1> PICK d : d = [from |-> a, args |-> args, no |-> out[a] + 1, edited |-> edited]
  OBVIOUS
<1>1. d.from = a /\ d.args = args /\ d.no = out[a] + 1
  OBVIOUS
<1>2. d.edited = edited
  OBVIOUS
<1>3. toServer' = toServer \cup {d} /\ out' = [out EXCEPT ![a] = out[a] + 1]
  BY Zenon DEF client_send
<1>4. Posted(a, d)
  BY <1>1, <1>3 DEF Posted
<1>. QED
  BY <1>1, <1>2, <1>4 DEF Sends

LEMMA PostedWire ==
  ASSUME Wire, NEW a \in Addr, NEW d, Posted(a, d), d.args \in Body \cup {<< >>},
         ~d.edited => d.args # << >>, UNCHANGED <<in, gap>>,
         cstate' \in [Addr -> {"RECV_TEXT", "SEND_ARTICLE"}],
         sendbuff' \in [Addr -> Body \cup {<< >>}]
  PROVE  /\ Wire'
         /\ out[a] \in Nat /\ out'[a] = out[a] + 1 /\ \A b \in Addr \ {a} : out'[b] = out[b]
<1>1. out \in [Addr -> Nat] /\ in \in [Addr -> Nat]
  BY DEF Wire
<1>2. out[a] \in Nat /\ out'[a] = out[a] + 1 /\ \A b \in Addr \ {a} : out'[b] = out[b]
  BY <1>1 DEF Posted
<1>3. out' \in [Addr -> Nat]
  BY <1>1, <1>2 DEF Posted
<1>4. \A b \in Addr : out[b] \in Nat /\ out'[b] \in Nat /\ out[b] <= out'[b]
  <2> TAKE b \in Addr
  <2>1. out[b] \in Nat /\ out'[b] \in Nat
    BY <1>1, <1>3
  <2>2. CASE b = a
    BY <1>2, <2>2
  <2>3. CASE b # a
    BY <1>2, <2>1, <2>3
  <2>. QED
    BY <2>1, <2>2, <2>3
<1>5. d.from = a /\ d.no = out[a] + 1
  BY DEF Posted
<1>6. \A e \in toServer' : e \in toServer \/ e = d
  BY DEF Posted
<1>7. \A e \in toServer' :
        /\ e.from \in Addr /\ e.args \in Body \cup {<< >>}
        /\ ~e.edited => e.args # << >>
  BY <1>5, <1>6 DEF Wire
<1>8. \A e \in toServer' : e.no \in Nat /\ e.no <= out'[e.from]
  BY <1>2, <1>4, <1>5, <1>6 DEF Wire
<1>9. \A e, f \in toServer' : e.from = f.from /\ e.no = f.no => e = f
  <2>1. \A e \in toServer : ~(e.from = a /\ e.no = out[a] + 1)
    BY <1>2 DEF Wire
  <2>2. QED
    BY <1>5, <1>6, <2>1 DEF Wire
<1>10. ~gap' => /\ \A b \in Addr : in'[b] <= out'[b]
                /\ \A e \in toServer' : in'[e.from] < e.no
  <2> SUFFICES ASSUME ~gap
               PROVE  /\ \A b \in Addr : in[b] <= out'[b]
                      /\ \A e \in toServer' : in[e.from] < e.no
    OBVIOUS
  <2>1. \A b \in Addr : in[b] \in Nat /\ in[b] <= out[b]
    BY <1>1 DEF Wire
  <2>2. \A e \in toServer : in[e.from] < e.no
    BY DEF Wire
  <2>. QED
    BY <1>2, <1>4, <1>5, <1>6, <2>1, <2>2
<1>. QED
  BY <1>1, <1>2, <1>3, <1>7, <1>8, <1>9, <1>10 DEF Wire

\* A number that was given out before is asked for, or not, as before.
LEMMA PostedAsked ==
  ASSUME NEW a, NEW d, Posted(a, d), NEW b, NEW k, k # d.no \/ b # a, Asked(b, k)
  PROVE  Asked(b, k)'
BY DEF Posted, Asked, IsA

NothingTyped == UNCHANGED <<cstate, sendbuff, toServer, out, overtyped>>

\* What a line does: d is sent, and the client is in state c.
TypedLine(a, d, c) ==
  /\ Posted(a, d) /\ ~d.edited /\ d.args \in Body /\ d.args # << >>
  /\ sendbuff' = [sendbuff EXCEPT ![a] = d.args]
  /\ cstate' = [cstate EXCEPT ![a] = c]
  /\ c \in {"RECV_TEXT", "SEND_ARTICLE"}
  /\ cstate[a] = "RECV_TEXT" => (c = "SEND_ARTICLE" <=> Head(d.args) = "A")
  /\ ~overtyped' => ~overtyped /\ cstate[a] = "RECV_TEXT"

LEMMA LineIs ==
  ASSUME Wire, NEW a \in Addr, UserLine(a)
  PROVE  NothingTyped \/ \E d, c : TypedLine(a, d, c)
<1> SUFFICES ASSUME ~NothingTyped PROVE \E d, c : TypedLine(a, d, c)
  OBVIOUS
<1>1. PICK args \in Input :
        /\ ~refused(args)
        /\ sendbuff' = [sendbuff EXCEPT ![a] = encode(args)]
        /\ client_send(a, encode(args), FALSE)
        /\ cstate' = [cstate EXCEPT ![a] = state_mux(Head(args), cstate[a])]
        /\ ~overtyped' => ~overtyped /\ cstate[a] # "SEND_ARTICLE"
  BY Zenon DEF UserLine, NothingTyped
<1>2. encode(args) \in Body /\ encode(args) # << >>
  <2>1. encode(args) \in Body
    BY <1>1, SentAssumption
  <2>2. CASE instr_type(Head(args)) = 0
    BY <2>1, <2>2 DEF encode
  <2>3. CASE instr_type(Head(args)) # 0
    <3>1. instr_type(Head(args)) \in {0, 1, 2}
      BY DEF instr_type
    <3>2. Len(args) # 0
      BY <1>1, <2>3, <3>1 DEF refused
    <3>3. encode(args) = args
      BY <2>3 DEF encode
    <3>. QED
      BY <2>1, <3>2, <3>3
  <2>. QED
    BY <2>2, <2>3
<1>3. Head(encode(args)) = Head(args)
  BY DEF encode
<1>4. PICK d : Posted(a, d) /\ d.args = encode(args) /\ d.edited = FALSE
  <2>1. client_send(a, encode(args), FALSE)
    BY <1>1
  <2>2. Sends(a, encode(args), FALSE)
    BY <2>1, PostedIs, Zenon
  <2>3. QED
    BY <2>2, Zenon DEF Sends
<1>5. cstate[a] \in {"RECV_TEXT", "SEND_ARTICLE"}
  BY DEF Wire
<1> PICK c : c = state_mux(Head(args), cstate[a])
  OBVIOUS
<1>6. /\ c \in {"RECV_TEXT", "SEND_ARTICLE"}
      /\ cstate[a] = "RECV_TEXT" => (c = "SEND_ARTICLE" <=> Head(args) = "A")
  BY <1>5 DEF state_mux
<1>7. TypedLine(a, d, c)
  BY <1>1, <1>2, <1>3, <1>4, <1>5, <1>6 DEF TypedLine
<1>. QED
  BY <1>7

NothingWritten == UNCHANGED <<cstate, sendbuff, toServer, out, editVars>>

\* What the editor does: d is sent.
Written(a, d) ==
  /\ cstate[a] = "SEND_ARTICLE"
  /\ Posted(a, d) /\ d.edited /\ d.args \in Body \cup {<< >>}
  /\ sendbuff' = [sendbuff EXCEPT ![a] = d.args]
  /\ cstate' = [cstate EXCEPT ![a] = "RECV_TEXT"]
  /\ ~emptied' => ~emptied
  /\ ~overerased' => ~overerased
  /\ ~emptied' /\ ~overerased' => written' = written \cup {Screen(d)} /\ d.args # << >>

LEMMA RecvIs ==
  ASSUME Wire, NEW a \in Addr, ClientRecv(a)
  PROVE  NothingWritten \/ \E d : Written(a, d)
<1> SUFFICES ASSUME ~NothingWritten PROVE \E d : Written(a, d)
  OBVIOUS
<1> DEFINE e(keys) == func_add_article(keys, sendbuff[a])
<1>1. PICK keys \in Keys :
        /\ cstate[a] = "SEND_ARTICLE"
        /\ sendbuff' = [sendbuff EXCEPT ![a] = e(keys).buff]
        /\ client_send(a, e(keys).buff, TRUE)
        /\ written' = written \cup {[from |-> a, no |-> out[a] + 1, text |-> e(keys).screen]}
        /\ emptied' = (emptied \/ e(keys).screen = << >>)
        /\ overerased' = (overerased \/ e(keys).under)
        /\ cstate' = [cstate EXCEPT ![a] = "RECV_TEXT"]
  BY Zenon DEF ClientRecv, NothingWritten
<1>2. sendbuff[a] \in Body \cup {<< >>}
  BY DEF Wire
<1>3. e(keys).buff \in Body \cup {<< >>}
  BY <1>2, SentAssumption
<1>4. keys \in Seq(Key) /\ sendbuff[a] \in Seq(Key)
  <2>1. Keys \subseteq Seq(Key) /\ Body \subseteq Seq(Key)
    BY KeysAssumption
  <2>2. << >> \in Seq(Key)
    OBVIOUS
  <2>. QED
    BY <1>2, <2>1, <2>2
<1>5. ~e(keys).under => e(keys).buff = e(keys).screen
  BY <1>4, EditorSendsScreen
<1> HIDE DEF e
<1>6. PICK d : Posted(a, d) /\ d.args = e(keys).buff /\ d.edited = TRUE
  <2> PICK text : text = e(keys).buff
    OBVIOUS
  <2>1. client_send(a, text, TRUE)
    BY <1>1
  <2>2. Sends(a, text, TRUE)
    BY <2>1, PostedIs, Zenon
  <2>3. QED
    BY <2>2, Zenon DEF Sends
<1>7. ~emptied' => ~emptied /\ e(keys).screen # << >>
  BY <1>1, Zenon
<1>8. ~overerased' => ~overerased /\ ~e(keys).under
  BY <1>1, Zenon
<1>9. ~overerased' => written' = written \cup {Screen(d)} /\ d.args = e(keys).screen
  BY <1>1, <1>5, <1>6, <1>8 DEF Screen, Posted
<1>10. Written(a, d)
  BY <1>1, <1>3, <1>6, <1>7, <1>8, <1>9 DEF Written
<1>. QED
  BY <1>10

\* The server does nothing.
Quiet == UNCHANGED <<vars, in, gap, drew, misplaced, executed>>

LEMMA QuietIs ==
  ASSUME IInv, Quiet
  PROVE  /\ IInv' /\ UNCHANGED <<folder, alive, crashed, in, gap, misplaced, executed>>
         /\ \A b : (Editing(b)' <=> Editing(b)) /\ (Listing(b)' <=> Listing(b))
         /\ \A n : exists(n)' <=> exists(n)
         /\ Apart => Apart'
         /\ \A b : DrawKnown(b) => DrawKnown(b)'
         /\ written \subseteq written' => \A n : TextKnown(n) => TextKnown(n)'
<1>1. UNCHANGED vars /\ UNCHANGED <<in, gap, drew, misplaced, executed>>
  BY DEF Quiet
<1>2. IInv'
  BY <1>1, Stuttered DEF Good
<1>3. UNCHANGED <<folder, alive, crashed, clihandlers_map, MAXARTICLEID>>
  BY <1>1 DEF vars, articleVars, diskVars, sessionVars, historyVars
<1>4. \A b : (Editing(b)' <=> Editing(b)) /\ (Listing(b)' <=> Listing(b)) /\ NumberOf(b)' = NumberOf(b)
  BY <1>3 DEF Editing, Listing, isLogined, NumberOf
<1>5. \A n : exists(n)' <=> exists(n)
  BY <1>3 DEF exists
<1>6. Apart => Apart'
  BY <1>3, <1>4 DEF Apart
<1>7. ASSUME NEW b, DrawKnown(b) PROVE DrawKnown(b)'
  <2>1. UNCHANGED NumberOf(b) /\ UNCHANGED DrawOf(b)
    BY <1>1, <1>3, <1>4 DEF DrawOf
  <2>2. exists(NumberOf(b)) => exists(NumberOf(b))'
    BY <1>3, <2>1 DEF exists
  <2>. QED
    BY <1>1, <1>7, <2>1, <2>2 DEF DrawKnown
<1>8. ASSUME written \subseteq written', NEW n, TextKnown(n) PROVE TextKnown(n)'
  BY <1>1, <1>3, <1>8 DEF TextKnown, AuthorsText
<1>. QED
  BY <1>1, <1>2, <1>3, <1>4, <1>5, <1>6, <1>7, <1>8

LEMMA PostedExpected ==
  ASSUME IInv, Quiet, NEW a, NEW d, Posted(a, d), NEW b, NEW k, k # d.no \/ b # a, Expected(b, k)
  PROVE  Expected(b, k)'
BY QuietIs, PostedAsked DEF Expected

LEMMA PostedAnswered ==
  ASSUME IInv, Quiet, NEW a, NEW d, Posted(a, d), NEW b, NEW k, k # d.no \/ b # a, Answered(b, k)
  PROVE  Answered(b, k)'
BY QuietIs, PostedAsked DEF Answered

LEMMA PostedFollowed ==
  ASSUME NEW a, NEW d, Posted(a, d), d.edited \/ cstate[a] # "SEND_ARTICLE",
         out[a] \in Nat, out'[a] = out[a] + 1, NEW b, NEW k \in Nat, k <= out[b],
         b # a => out'[b] = out[b] /\ cstate'[b] = cstate[b],
         Followed(b, k)
  PROVE  Followed(b, k)'
<1>1. ASSUME NEW e \in toServer', e.from = b, e.no = k + 1 PROVE e.edited
  <2>1. CASE e \in toServer
    BY <1>1, <2>1 DEF Followed
  <2>2. CASE e = d
    <3>1. b = a /\ k = out[a]
      BY <1>1, <2>2 DEF Posted
    <3>2. cstate[a] = "SEND_ARTICLE"
      BY <3>1 DEF Followed
    <3>. QED
      BY <2>2, <3>2
  <2>. QED
    BY <2>1, <2>2 DEF Posted
<1>2. ASSUME out'[b] = k PROVE cstate'[b] = "SEND_ARTICLE"
  <2>1. b # a
    BY <1>2
  <2>2. QED
    BY <1>2, <2>1 DEF Followed
<1>. QED
  BY <1>1, <1>2 DEF Followed

LEMMA QuietStored ==
  ASSUME IInv, Quiet, StoredOnly, written \subseteq written',
         \A e \in toServer' : e.edited =>
           e \in toServer \/ (e.args # << >> /\ Screen(e) \in written')
  PROVE  StoredOnly'
<1>1. /\ \A b : (Editing(b)' <=> Editing(b)) /\ (DrawKnown(b) => DrawKnown(b)')
      /\ \A n : (exists(n)' <=> exists(n)) /\ (TextKnown(n) => TextKnown(n)')
  BY QuietIs
<1>2. \A e \in toServer' : e.edited => e.args # << >> /\ Screen(e) \in written'
  BY DEF StoredOnly
<1>. QED
  BY <1>1, <1>2 DEF StoredOnly, Screen

\* Nothing of what the invariants speak of changes.
LEMMA NothingKeeps ==
  ASSUME AddInv, Quiet, UNCHANGED <<cstate, sendbuff, toServer, out, overtyped, editVars>>
  PROVE  AddInv'
<1>1. IInv /\ Wire /\ Apart /\ InStep /\ InOrder
  BY DEF AddInv
<1>2. /\ IInv' /\ UNCHANGED <<folder, alive, crashed, in, gap, misplaced, executed>>
      /\ \A b : (Editing(b)' <=> Editing(b)) /\ (Listing(b)' <=> Listing(b))
      /\ \A n : exists(n)' <=> exists(n)
  BY <1>1, QuietIs
<1>3. Wire'
  BY <1>1, <1>2 DEF Wire
<1>4. InStep'
  BY <1>1, <1>2 DEF InStep, Expected, Asked, IsA
<1>5. InOrder'
  <2>1. UNCHANGED <<written, emptied, overerased>>
    BY DEF editVars
  <2>2. StoredOnly => StoredOnly'
    BY <1>1, <2>1, QuietStored
  <2>. QED
    BY <1>1, <1>2, <2>1, <2>2 DEF InOrder, Answered, Followed, Asked, IsA
<1>6. Apart'
  BY <1>1, QuietIs
<1>. QED
  BY <1>2, <1>3, <1>4, <1>5, <1>6 DEF AddInv

LEMMA LineKeeps ==
  ASSUME AddInv, NEW a \in Addr, UserLine(a)
  PROVE  AddInv'
<1>1. IInv /\ Wire /\ Apart /\ InStep /\ InOrder
  BY DEF AddInv
<1>2. Quiet /\ UNCHANGED editVars
  BY DEF UserLine, Quiet
<1>3. CASE NothingTyped
  BY <1>2, <1>3, NothingKeeps DEF NothingTyped
<1>4. ASSUME NEW d, NEW c, TypedLine(a, d, c) PROVE AddInv'
  <2>1. /\ IInv' /\ UNCHANGED <<folder, alive, crashed, in, gap, misplaced, executed>>
        /\ \A b : (Editing(b)' <=> Editing(b)) /\ (Listing(b)' <=> Listing(b))
        /\ \A n : exists(n)' <=> exists(n)
    BY <1>1, <1>2, QuietIs
  <2>2. /\ Posted(a, d) /\ ~d.edited /\ d.args \in Body /\ d.args # << >>
        /\ c \in {"RECV_TEXT", "SEND_ARTICLE"}
        /\ cstate[a] = "RECV_TEXT" => (c = "SEND_ARTICLE" <=> Head(d.args) = "A")
        /\ ~overtyped' => ~overtyped /\ cstate[a] = "RECV_TEXT"
    BY <1>4 DEF TypedLine
  <2>3. /\ sendbuff' \in [Addr -> Body \cup {<< >>}]
        /\ cstate' \in [Addr -> {"RECV_TEXT", "SEND_ARTICLE"}]
        /\ cstate'[a] = c /\ \A b \in Addr \ {a} : cstate'[b] = cstate[b]
    BY <1>1, <1>4 DEF TypedLine, Wire
  <2>4. /\ Wire'
        /\ out[a] \in Nat /\ out'[a] = out[a] + 1 /\ \A b \in Addr \ {a} : out'[b] = out[b]
    BY <1>1, <2>1, <2>2, <2>3, PostedWire
  <2>5. \A e \in toServer : e.from \in Addr /\ e.no \in Nat /\ e.no <= out[e.from]
    BY <1>1 DEF Wire
  <2>6. \A e \in toServer' : (e \in toServer \/ e = d) /\ (e.edited => e \in toServer)
    BY <2>2 DEF Posted
  <2>7. d.from = a /\ d.no = out[a] + 1 /\ d.no = out'[a]
    BY <2>2, <2>4 DEF Posted
  <2>8. \A e \in toServer : e.no - 1 # d.no \/ e.from # a
    BY <2>4, <2>5, <2>7
  <2>9. ASSUME ~overtyped', ~gap', cstate'[a] = "SEND_ARTICLE"
        PROVE  Asked(a, d.no)' /\ in'[a] # d.no
    <3>1. IsA(d)
      BY <2>2, <2>3, <2>9 DEF IsA
    <3>2. \A e \in toServer : ~(e.from = a /\ e.no = d.no)
      BY <2>4, <2>5, <2>7
    <3>3. Asked(a, d.no)'
      BY <2>6, <3>1, <3>2 DEF Asked, IsA
    <3>4. in[a] \in Nat /\ in[a] <= out[a]
      BY <1>1, <2>1, <2>9 DEF Wire
    <3>. QED
      BY <2>1, <2>4, <2>7, <3>3, <3>4
  <2>10. InStep'
    <3> SUFFICES ASSUME ~(overtyped' \/ gap' \/ misplaced' \/ crashed' > 0) PROVE InStep'
      BY DEF InStep
    <3>1. /\ ~(overtyped \/ gap \/ misplaced \/ crashed > 0) /\ ~overtyped' /\ ~gap'
          /\ ~executed /\ cstate[a] = "RECV_TEXT"
      BY <1>1, <2>1, <2>2 DEF InStep
    <3>2. ASSUME NEW b \in Addr, cstate'[b] = "SEND_ARTICLE" PROVE Expected(b, out[b])'
      <4>1. CASE b = a
        BY <2>7, <2>9, <3>1, <3>2, <4>1 DEF Expected, Asked
      <4>2. CASE b # a
        <5> PICK k : k = out[b]
          OBVIOUS
        <5>1. Expected(b, k)
          BY <1>1, <2>3, <3>1, <3>2, <4>2 DEF InStep
        <5>2. Expected(b, k)' /\ k = out'[b]
          BY <1>1, <1>2, <2>2, <2>4, <4>2, <5>1, PostedExpected
        <5>. QED
          BY <5>2 DEF Expected, Asked
      <4>. QED
        BY <4>1, <4>2
    <3>3. ASSUME NEW e \in toServer', e.edited PROVE Expected(e.from, e.no - 1)'
      <4>1. e \in toServer /\ Expected(e.from, e.no - 1)
        BY <1>1, <2>6, <3>1, <3>3 DEF InStep
      <4>2. QED
        BY <1>1, <1>2, <2>2, <2>8, <4>1, PostedExpected
    <3>. QED
      BY <2>1, <3>1, <3>2, <3>3 DEF InStep
  <2>11. InOrder'
    <3> SUFFICES ASSUME ~(overtyped' \/ emptied' \/ overerased' \/ gap') PROVE InOrder'
      BY DEF InOrder
    <3>1. /\ ~(overtyped \/ emptied \/ overerased \/ gap) /\ ~overtyped' /\ ~gap'
          /\ cstate[a] = "RECV_TEXT" /\ UNCHANGED written
      BY <1>2, <2>1, <2>2 DEF editVars
    <3>2. StoredOnly'
      BY <1>1, <1>2, <2>6, <3>1, QuietStored DEF InOrder
    <3>3. ASSUME NEW b \in Addr, cstate'[b] = "SEND_ARTICLE" PROVE Answered(b, out[b])'
      <4>1. CASE b = a
        BY <2>7, <2>9, <3>1, <3>3, <4>1 DEF Answered, Asked
      <4>2. CASE b # a
        <5> PICK k : k = out[b]
          OBVIOUS
        <5>1. Answered(b, k)
          BY <1>1, <2>3, <3>1, <3>3, <4>2 DEF InOrder
        <5>2. Answered(b, k)' /\ k = out'[b]
          BY <1>1, <1>2, <2>2, <2>4, <4>2, <5>1, PostedAnswered
        <5>. QED
          BY <5>2 DEF Answered, Asked
      <4>. QED
        BY <4>1, <4>2
    <3>4. ASSUME NEW e \in toServer', e.edited PROVE Answered(e.from, e.no - 1)'
      <4>1. e \in toServer /\ Answered(e.from, e.no - 1)
        BY <1>1, <2>6, <3>1, <3>4 DEF InOrder
      <4>2. QED
        BY <1>1, <1>2, <2>2, <2>8, <4>1, PostedAnswered
    <3>5. ASSUME NEW b \in Addr, NEW k \in Nat, k <= out[b], Followed(b, k)
          PROVE  Followed(b, k)'
      <4>1. cstate[a] # "SEND_ARTICLE"
        BY <3>1
      <4>2. b # a => out'[b] = out[b] /\ cstate'[b] = cstate[b]
        BY <2>3, <2>4
      <4>3. QED
        BY <2>2, <2>4, <3>5, <4>1, <4>2, PostedFollowed
    <3>6. ASSUME NEW e \in toServer', IsA(e) PROVE Followed(e.from, e.no)'
      <4>1. CASE e \in toServer
        BY <1>1, <2>5, <3>1, <3>5, <3>6, <4>1 DEF InOrder
      <4>2. CASE e = d
        <5>1. \A f \in toServer' : ~(f.from = a /\ f.no = d.no + 1)
          BY <2>4, <2>5, <2>6, <2>7
        <5>2. cstate'[a] = "SEND_ARTICLE"
          BY <2>2, <2>3, <3>1, <3>6, <4>2 DEF IsA
        <5>. QED
          BY <2>7, <4>2, <5>1, <5>2 DEF Followed
      <4>. QED
        BY <2>6, <4>1, <4>2
    <3>7. ASSUME NEW b \in Addr, Editing(b)' PROVE Followed(b, in[b])'
      <4> PICK k : k = in[b]
        OBVIOUS
      <4>1. k \in Nat /\ k <= out[b]
        BY <1>1, <3>1 DEF Wire
      <4>2. Followed(b, k)
        BY <1>1, <2>1, <3>1, <3>7 DEF InOrder
      <4>3. Followed(b, k)' /\ k = in'[b]
        BY <2>1, <3>5, <4>1, <4>2
      <4>. QED
        BY <4>3 DEF Followed
    <3>. QED
      BY <3>2, <3>3, <3>4, <3>6, <3>7 DEF InOrder
  <2>. QED
    BY <1>1, <1>2, <2>1, <2>4, <2>10, <2>11, QuietIs DEF AddInv
<1>. QED
  BY <1>1, <1>3, <1>4, LineIs

LEMMA RecvKeeps ==
  ASSUME AddInv, NEW a \in Addr, ClientRecv(a)
  PROVE  AddInv'
<1>1. IInv /\ Wire /\ Apart /\ InStep /\ InOrder
  BY DEF AddInv
<1>2. Quiet /\ UNCHANGED overtyped
  BY DEF ClientRecv, Quiet
<1>3. CASE NothingWritten
  BY <1>2, <1>3, NothingKeeps DEF NothingWritten
<1>4. ASSUME NEW d, Written(a, d) PROVE AddInv'
  <2>1. /\ IInv' /\ UNCHANGED <<folder, alive, crashed, in, gap, misplaced, executed>>
        /\ \A b : (Editing(b)' <=> Editing(b)) /\ (Listing(b)' <=> Listing(b))
        /\ \A n : exists(n)' <=> exists(n)
    BY <1>1, <1>2, QuietIs
  <2>2. /\ cstate[a] = "SEND_ARTICLE"
        /\ Posted(a, d) /\ d.edited /\ d.args \in Body \cup {<< >>}
        /\ ~emptied' => ~emptied
        /\ ~overerased' => ~overerased
        /\ ~emptied' /\ ~overerased' => written' = written \cup {Screen(d)} /\ d.args # << >>
    BY <1>4 DEF Written
  <2>3. /\ sendbuff' \in [Addr -> Body \cup {<< >>}]
        /\ cstate' \in [Addr -> {"RECV_TEXT", "SEND_ARTICLE"}]
        /\ cstate'[a] # "SEND_ARTICLE" /\ \A b \in Addr \ {a} : cstate'[b] = cstate[b]
    BY <1>1, <1>4 DEF Written, Wire
  <2>4. /\ Wire'
        /\ out[a] \in Nat /\ out'[a] = out[a] + 1 /\ \A b \in Addr \ {a} : out'[b] = out[b]
    BY <1>1, <2>1, <2>2, <2>3, PostedWire
  <2>5. \A e \in toServer : e.from \in Addr /\ e.no \in Nat /\ e.no <= out[e.from]
    BY <1>1 DEF Wire
  <2>6. \A e \in toServer' : (e \in toServer \/ e = d) /\ (IsA(e) => e \in toServer)
    BY <2>2 DEF Posted, IsA
  <2>7. d.from = a /\ d.no = out[a] + 1 /\ d.no - 1 = out[a]
    BY <2>2, <2>4 DEF Posted
  <2>8. /\ \A e \in toServer : e.no - 1 # d.no \/ e.from # a
        /\ out[a] # d.no
    BY <2>4, <2>5, <2>7
  <2>9. InStep'
    <3> SUFFICES ASSUME ~(overtyped' \/ gap' \/ misplaced' \/ crashed' > 0) PROVE InStep'
      BY DEF InStep
    <3>1. ~(overtyped \/ gap \/ misplaced \/ crashed > 0) /\ ~executed
      BY <1>1, <1>2, <2>1 DEF InStep
    <3>2. ASSUME NEW b \in Addr, cstate'[b] = "SEND_ARTICLE" PROVE Expected(b, out[b])'
      <4>1. b # a
        BY <2>3, <3>2
      <4> PICK k : k = out[b]
        OBVIOUS
      <4>2. Expected(b, k)
        BY <1>1, <2>3, <3>1, <3>2, <4>1 DEF InStep
      <4>3. Expected(b, k)' /\ k = out'[b]
        BY <1>1, <1>2, <2>2, <2>4, <4>1, <4>2, PostedExpected
      <4>. QED
        BY <4>3 DEF Expected, Asked
    <3>3. ASSUME NEW e \in toServer', e.edited PROVE Expected(e.from, e.no - 1)'
      <4>1. CASE e \in toServer
        <5>1. Expected(e.from, e.no - 1)
          BY <1>1, <3>1, <3>3, <4>1 DEF InStep
        <5>2. QED
          BY <1>1, <1>2, <2>2, <2>8, <4>1, <5>1, PostedExpected
      <4>2. CASE e = d
        <5> PICK k : k = out[a]
          OBVIOUS
        <5>1. Expected(a, k)
          BY <1>1, <2>2, <3>1 DEF InStep
        <5>2. Expected(a, k)' /\ k = e.no - 1
          BY <1>1, <1>2, <2>2, <2>7, <2>8, <4>2, <5>1, PostedExpected
        <5>. QED
          BY <2>7, <4>2, <5>2
      <4>. QED
        BY <2>6, <4>1, <4>2
    <3>. QED
      BY <2>1, <3>1, <3>2, <3>3 DEF InStep
  <2>10. InOrder'
    <3> SUFFICES ASSUME ~(overtyped' \/ emptied' \/ overerased' \/ gap') PROVE InOrder'
      BY DEF InOrder
    <3>1. /\ ~(overtyped \/ emptied \/ overerased \/ gap) /\ ~gap
          /\ written' = written \cup {Screen(d)} /\ d.args # << >>
      BY <1>2, <2>1, <2>2
    <3>2. StoredOnly'
      BY <1>1, <1>2, <2>6, <3>1, QuietStored DEF InOrder
    <3>3. ASSUME NEW b \in Addr, cstate'[b] = "SEND_ARTICLE" PROVE Answered(b, out[b])'
      <4>1. b # a
        BY <2>3, <3>3
      <4> PICK k : k = out[b]
        OBVIOUS
      <4>2. Answered(b, k)
        BY <1>1, <2>3, <3>1, <3>3, <4>1 DEF InOrder
      <4>3. Answered(b, k)' /\ k = out'[b]
        BY <1>1, <1>2, <2>2, <2>4, <4>1, <4>2, PostedAnswered
      <4>. QED
        BY <4>3 DEF Answered, Asked
    <3>4. ASSUME NEW e \in toServer', e.edited PROVE Answered(e.from, e.no - 1)'
      <4>1. CASE e \in toServer
        <5>1. Answered(e.from, e.no - 1)
          BY <1>1, <3>1, <3>4, <4>1 DEF InOrder
        <5>2. QED
          BY <1>1, <1>2, <2>2, <2>8, <4>1, <5>1, PostedAnswered
      <4>2. CASE e = d
        <5> PICK k : k = out[a]
          OBVIOUS
        <5>1. Answered(a, k)
          BY <1>1, <2>2, <3>1 DEF InOrder
        <5>2. Answered(a, k)' /\ k = e.no - 1
          BY <1>1, <1>2, <2>2, <2>7, <2>8, <4>2, <5>1, PostedAnswered
        <5>. QED
          BY <2>7, <4>2, <5>2
      <4>. QED
        BY <2>6, <4>1, <4>2
    <3>5. ASSUME NEW b \in Addr, NEW k \in Nat, k <= out[b], Followed(b, k)
          PROVE  Followed(b, k)'
      <4>1. b # a => out'[b] = out[b] /\ cstate'[b] = cstate[b]
        BY <2>3, <2>4
      <4>2. QED
        BY <2>2, <2>4, <3>5, <4>1, PostedFollowed
    <3>6. ASSUME NEW e \in toServer', IsA(e) PROVE Followed(e.from, e.no)'
      BY <1>1, <2>5, <2>6, <3>1, <3>5, <3>6 DEF InOrder
    <3>7. ASSUME NEW b \in Addr, Editing(b)' PROVE Followed(b, in[b])'
      <4> PICK k : k = in[b]
        OBVIOUS
      <4>1. k \in Nat /\ k <= out[b]
        BY <1>1, <3>1 DEF Wire
      <4>2. Followed(b, k)
        BY <1>1, <2>1, <3>1, <3>7 DEF InOrder
      <4>3. Followed(b, k)' /\ k = in'[b]
        BY <2>1, <3>5, <4>1, <4>2
      <4>. QED
        BY <4>3 DEF Followed
    <3>. QED
      BY <3>2, <3>3, <3>4, <3>6, <3>7 DEF InOrder, IsA
  <2>. QED
    BY <1>1, <1>2, <2>1, <2>4, <2>9, <2>10, QuietIs DEF AddInv
<1>. QED
  BY <1>1, <1>3, <1>4, RecvIs

-----------------------------------------------------------------------------
(***************************************************************************)
(* The server.                                                             *)
(***************************************************************************)

\* The server takes d, or passes over what is empty.
Handles(d) ==
  /\ toServer' = toServer \ {d}
  /\ in' = [in EXCEPT ![d.from] = d.no]
  /\ UNCHANGED <<cstate, sendbuff, out, overtyped, editVars>>
  /\ \/ d.args = << >> /\ UNCHANGED <<vars, drew, executed>>
     \/ d.args # << >> /\ handler_entry(d.from, d.args) /\ noteDraw(d)
  /\ ~gap' => ~gap /\ d.no = in[d.from] + 1
  /\ ~misplaced' => ~misplaced /\ (d.args # << >> /\ Head(d.args) = "A" => Listing(d.from))
  /\ executed' => executed \/ (d.args # << >> /\ d.edited /\ ~Editing(d.from))

LEMMA ServerHandles ==
  ASSUME IInv, Wire, ServerRecv
  PROVE  \E d \in toServer : Handles(d)
<1> DEFINE due(a) == IF isLogined(a) THEN clihandlers_map[a].pos ELSE "GUEST"
<1>1. PICK d \in toServer :
        /\ toServer' = toServer \ {d}
        /\ \/ /\ d.args = << >> /\ alive
              /\ UNCHANGED <<vars, toClient, drew, misplaced, executed>>
           \/ /\ d.args # << >>
              /\ handler_entry(d.from, d.args) /\ noteDraw(d)
              /\ misplaced' = (misplaced \/ (Head(d.args) = "A" /\ due(d.from) # "ARTICLE_LIST"))
              /\ executed' = (executed \/ (d.edited /\ due(d.from) # "ARTICLE_EDIT"))
        /\ in' = [in EXCEPT ![d.from] = d.no]
        /\ gap' = (gap \/ d.no # in[d.from] + 1)
        /\ UNCHANGED <<cstate, sendbuff, typed, out, overtyped, editVars>>
  BY Zenon DEF ServerRecv
<1>2. d.from \in Addr
  BY DEF Wire
<1>3. due(d.from) = "ARTICLE_LIST" => Listing(d.from)
  BY DEF Listing
<1>4. Editing(d.from) => due(d.from) = "ARTICLE_EDIT"
  BY <1>2, DueIsEditing DEF Editing
<1> HIDE DEF due
<1>5. ~gap' => ~gap /\ d.no = in[d.from] + 1
  BY <1>1, Zenon
<1>6. ~misplaced' => ~misplaced /\ (d.args # << >> /\ Head(d.args) = "A" => Listing(d.from))
  BY <1>1, <1>3, Zenon
<1>7. executed' => executed \/ (d.args # << >> /\ d.edited /\ ~Editing(d.from))
  BY <1>1, <1>4, Zenon
<1>. QED
  BY <1>1, <1>5, <1>6, <1>7 DEF Handles

LEMMA HandlesGood ==
  ASSUME IInv, Wire, NEW d \in toServer, Handles(d)
  PROVE  Good /\ UNCHANGED crashed /\ (alive' => alive) /\ (Apart => Apart')
<1>1. d.from \in Addr /\ d.args \in Body \cup {<< >>}
  BY DEF Wire
<1>2. CASE d.args = << >>
  <2>1. UNCHANGED vars
    BY <1>2 DEF Handles
  <2>2. Apart => Apart'
    BY <2>1 DEF Apart, Editing, NumberOf, isLogined, vars, articleVars, sessionVars
  <2>3. QED
    BY <2>1, <2>2, Stuttered DEF vars, sessionVars, historyVars
<1>3. CASE d.args # << >>
  <2>1. handler_entry(d.from, d.args)
    BY <1>3 DEF Handles
  <2>2. d.args \in Body /\ NamesUsers(d.args)
    BY <1>1, <1>3, SentAssumption
  <2>3. Acceptable(d.from, d.args)
    BY <2>2, Zenon DEF Acceptable
  <2>4. Good
    BY <1>1, <2>1, <2>3, Handled
  <2>5. Apart => Apart'
    BY <1>1, <2>1, <2>3, HandledApart
  <2>6. QED
    BY <2>1, <2>4, <2>5 DEF handler_entry
<1>. QED
  BY <1>2, <1>3

LEMMA HandlesWire ==
  ASSUME Wire, NEW d \in toServer, Handles(d)
  PROVE  /\ Wire' /\ d.from \in Addr /\ in'[d.from] = d.no
         /\ \A b \in Addr \ {d.from} : in'[b] = in[b]
         /\ \A e \in toServer' : e \in toServer
<1> PICK a : a = d.from
  OBVIOUS
<1>1. a \in Addr /\ d.no \in Nat /\ d.no <= out[a] /\ in \in [Addr -> Nat] /\ out \in [Addr -> Nat]
  BY DEF Wire
<1>2. /\ in' \in [Addr -> Nat] /\ in'[a] = d.no /\ \A b \in Addr \ {a} : in'[b] = in[b]
      /\ UNCHANGED <<cstate, sendbuff, out>>
      /\ \A e \in toServer' : e \in toServer /\ e # d
  BY <1>1 DEF Handles
<1>3. ~gap' => /\ \A b \in Addr : in'[b] <= out'[b]
               /\ \A e \in toServer' : in'[e.from] < e.no
  <2> SUFFICES ASSUME ~gap'
               PROVE  /\ \A b \in Addr : in'[b] <= out[b]
                      /\ \A e \in toServer' : in'[e.from] < e.no
    BY <1>2
  <2>1. ~gap /\ d.no = in[a] + 1
    BY DEF Handles
  <2>2. \A b \in Addr : in'[b] <= out[b]
    BY <1>1, <1>2, <2>1 DEF Wire
  <2>3. ASSUME NEW e \in toServer' PROVE in'[e.from] < e.no
    <3>1. /\ e \in toServer /\ e # d /\ e.no \in Nat /\ e.from \in Addr
          /\ in[e.from] < e.no
      BY <1>2, <2>1 DEF Wire
    <3>2. CASE e.from = a
      <4>1. e.no # d.no
        BY <3>1, <3>2 DEF Wire
      <4>2. in[a] \in Nat /\ in[a] < e.no
        BY <1>1, <3>1, <3>2
      <4>. QED
        BY <1>1, <1>2, <2>1, <3>1, <3>2, <4>1, <4>2
    <3>3. CASE e.from # a
      BY <1>2, <3>1, <3>3
    <3>. QED
      BY <3>2, <3>3
  <2>. QED
    BY <2>2, <2>3
<1>4. /\ \A e \in toServer' :
           /\ e.from \in Addr /\ e.args \in Body \cup {<< >>}
           /\ e.no \in Nat /\ e.no <= out'[e.from]
           /\ ~e.edited => e.args # << >>
      /\ \A e, f \in toServer' : e.from = f.from /\ e.no = f.no => e = f
      /\ cstate' \in [Addr -> {"RECV_TEXT", "SEND_ARTICLE"}]
      /\ sendbuff' \in [Addr -> Body \cup {<< >>}]
      /\ out' \in [Addr -> Nat]
  BY <1>2 DEF Wire
<1>. QED
  BY <1>1, <1>2, <1>3, <1>4 DEF Wire

\* The other handlers stay where they are, as long as the process lives.
LEMMA HandlesOthers ==
  ASSUME IInv, Wire, NEW d \in toServer, Handles(d), NEW b \in Addr, b # d.from
  PROVE  /\ Editing(b)' => Editing(b)
         /\ Listing(b)' => Listing(b)
         /\ alive' /\ Editing(b) => Editing(b)'
<1>1. CASE d.args = << >>
  <2>1. UNCHANGED clihandlers_map
    BY <1>1 DEF Handles, vars, sessionVars
  <2>2. QED
    BY <2>1 DEF Editing, Listing, isLogined
<1>2. CASE d.args # << >>
  <2>1. handler_entry(d.from, d.args) /\ d.from \in Addr
    BY <1>2 DEF Handles, Wire
  <2>2. OthersStay(d.from) \/ gone
    BY <2>1, OneHandler
  <2>3. CASE OthersStay(d.from)
    BY <2>3 DEF OthersStay, Editing, Listing, isLogined
  <2>4. CASE gone
    BY <2>4 DEF gone, Editing, Listing, isLogined
  <2>. QED
    BY <2>2, <2>3, <2>4
<1>. QED
  BY <1>1, <1>2

\* What is not edited is handled as a command, unless its sender is in the editor.
LEMMA HandlesCommand ==
  ASSUME IInv, Wire, NEW d \in toServer, Handles(d), d.args # << >>, ~Editing(d.from)
  PROVE  Commanded(d.from, d.args)
<1>1. handler_entry(d.from, d.args) /\ d.from \in Addr /\ d.args \in Body
  BY DEF Handles, Wire
<1>2. NamesUsers(d.args)
  BY <1>1, SentAssumption
<1>. QED
  BY <1>1, <1>2, HandledCommand

LEMMA HandlesExpected ==
  ASSUME IInv, Wire, NEW d \in toServer, Handles(d), ~misplaced',
         NEW b \in Addr, NEW k, Expected(b, k)
  PROVE  Expected(b, k)'
<1>1. /\ d.from \in Addr /\ in'[d.from] = d.no
      /\ \A c \in Addr \ {d.from} : in'[c] = in[c]
      /\ \A e \in toServer' : e \in toServer
  BY HandlesWire
<1>2. Asked(b, k)'
  BY <1>1 DEF Expected, Asked, IsA
<1>3. ASSUME in'[b] = k, alive' PROVE Editing(b)'
  <2>1. CASE b # d.from
    <3>1. in[b] = k /\ alive
      BY <1>1, <1>3, <2>1, HandlesGood
    <3>2. Editing(b)
      BY <3>1 DEF Expected
    <3>3. QED
      BY <1>3, <2>1, <3>2, HandlesOthers
  <2>2. CASE b = d.from
    <3>1. IsA(d)
      BY <1>1, <1>3, <2>2 DEF Expected, Asked
    <3>2. d.args # << >> /\ Head(d.args) = "A"
      BY <3>1 DEF IsA, Wire
    <3>3. Listing(b)
      BY <2>2, <3>2 DEF Handles
    <3>4. ~Editing(b)
      BY <3>3, DueIsEditing DEF Listing
    <3>5. Commanded(b, d.args)
      BY <2>2, <3>2, <3>4, HandlesCommand
    <3>. QED
      BY <1>3, <3>2, <3>3, <3>5 DEF Commanded
  <2>. QED
    BY <2>1, <2>2
<1>. QED
  BY <1>2, <1>3 DEF Expected

LEMMA HandlesAnswered ==
  ASSUME IInv, Wire, NEW d \in toServer, Handles(d), Editing(d.from) => d.edited,
         NEW b \in Addr, NEW k, Answered(b, k)
  PROVE  Answered(b, k)'
<1>1. /\ d.from \in Addr /\ in'[d.from] = d.no
      /\ \A c \in Addr \ {d.from} : in'[c] = in[c]
      /\ \A e \in toServer' : e \in toServer
  BY HandlesWire
<1>2. Asked(b, k)'
  BY <1>1 DEF Answered, Asked, IsA
<1>3. ASSUME in'[b] = k PROVE ~Listing(b)'
  <2>1. CASE b # d.from
    <3>1. ~Listing(b)
      BY <1>1, <1>3, <2>1 DEF Answered
    <3>2. QED
      BY <2>1, <3>1, HandlesOthers
  <2>2. CASE b = d.from
    <3>1. IsA(d)
      BY <1>1, <1>3, <2>2 DEF Answered, Asked
    <3>2. d.args # << >> /\ Head(d.args) = "A" /\ ~Editing(b)
      BY <2>2, <3>1 DEF IsA, Wire
    <3>3. Commanded(b, d.args)
      BY <2>2, <3>2, HandlesCommand
    <3>. QED
      BY <3>2, <3>3 DEF Commanded
  <2>. QED
    BY <2>1, <2>2
<1>. QED
  BY <1>2, <1>3 DEF Answered

LEMMA HandlesInStep ==
  ASSUME AddInv, NEW d \in toServer, Handles(d)
  PROVE  InStep'
<1> SUFFICES ASSUME ~(overtyped' \/ gap' \/ misplaced' \/ crashed' > 0) PROVE InStep'
  BY DEF InStep
<1>1. IInv /\ Wire /\ InStep
  BY DEF AddInv
<1>2. /\ in'[d.from] = d.no /\ d.from \in Addr
      /\ \A e \in toServer' : e \in toServer
      /\ UNCHANGED crashed
  BY <1>1, HandlesWire, HandlesGood
<1>3. ~(overtyped \/ gap \/ misplaced \/ crashed > 0) /\ d.no = in[d.from] + 1
  BY <1>2 DEF Handles
<1>4. UNCHANGED <<cstate, out>>
  BY DEF Handles
<1>5. ~executed'
  <2> SUFFICES ASSUME executed' PROVE FALSE
    OBVIOUS
  <2>1. d.args # << >> /\ d.edited /\ ~Editing(d.from)
    BY <1>1, <1>3 DEF Handles, InStep
  <2>2. alive
    BY <2>1 DEF Handles, handler_entry
  <2>3. in[d.from] = d.no - 1
    BY <1>1, <1>2, <1>3 DEF Wire
  <2>4. Expected(d.from, d.no - 1)
    BY <1>1, <1>3, <2>1 DEF InStep
  <2>. QED
    BY <2>1, <2>2, <2>3, <2>4 DEF Expected
<1>6. ASSUME NEW b \in Addr, cstate'[b] = "SEND_ARTICLE" PROVE Expected(b, out[b])'
  <2> PICK k : k = out[b]
    OBVIOUS
  <2>1. Expected(b, k)
    BY <1>1, <1>3, <1>4, <1>6 DEF InStep
  <2>2. Expected(b, k)' /\ k = out'[b]
    BY <1>1, <1>4, <2>1, HandlesExpected
  <2>. QED
    BY <2>2 DEF Expected, Asked
<1>7. ASSUME NEW e \in toServer', e.edited PROVE Expected(e.from, e.no - 1)'
  <2>1. e \in toServer /\ e.from \in Addr /\ Expected(e.from, e.no - 1)
    BY <1>1, <1>2, <1>3, <1>7 DEF InStep, Wire
  <2>2. QED
    BY <1>1, <2>1, HandlesExpected
<1>. QED
  BY <1>5, <1>6, <1>7 DEF InStep

\* What is noted of the number a datagram was given.
LEMMA HandlesDraw ==
  ASSUME IInv, IInv', NEW d, d.from \in Addr, noteDraw(d), NEW a, a = d.from
  PROVE  /\ Editing(a) \/ ~Editing(a)' => UNCHANGED drew
         /\ \A w \in drew : exists(w.aid) => w \in drew'
         /\ \A w \in drew : ~(Editing(a)' /\ w.aid = NumberOf(a)') => w \in drew'
         /\ ~Editing(a) /\ Editing(a)' /\ ~exists(NumberOf(a)') =>
              [aid |-> NumberOf(a)', from |-> a, no |-> d.no,
               id |-> clihandlers_map'[a].id] \in drew'
<1> PICK n : n = Drawn'[a]
  OBVIOUS
<1>1. Drawn[a] = IF Editing(a) THEN NumberOf(a) ELSE NoAid
  BY DEF Drawn, Editing, NumberOf
<1>2. n = IF Editing(a)' THEN NumberOf(a)' ELSE NoAid
  BY DEF Drawn, Editing, NumberOf, isLogined
<1>3. Editing(a) => NumberOf(a) # NoAid
  BY EditsNumber, MaxAidAssumption DEF NoAid, Aid
<1>4. Editing(a)' => NumberOf(a)' # NoAid
  <2> SUFFICES ASSUME Editing(a)' PROVE NumberOf(a)' # NoAid
    OBVIOUS
  <2>1. NumberOf(a)' \in Aid
    BY EditsNumberNext
  <2>. QED
    BY <2>1, MaxAidAssumption DEF NoAid, Aid
<1>5. Users'[a] = IF isLogined(a)' THEN clihandlers_map'[a].id ELSE NoHandler
  BY DEF Users, isLogined
<1> PICK w0 : w0 = [aid |-> n, from |-> a, no |-> d.no, id |-> Users'[a]]
  OBVIOUS
<1>6. drew' = IF Drawn[a] = NoAid /\ n # NoAid /\ ~exists(n)
                THEN {w \in drew : w.aid # n} \cup {w0} ELSE drew
  BY Zenon DEF noteDraw
<1>. QED
  BY <1>1, <1>2, <1>3, <1>4, <1>5, <1>6 DEF Editing

LEMMA HandlesInOrder ==
  ASSUME AddInv, NEW d \in toServer, Handles(d)
  PROVE  InOrder'
<1> SUFFICES ASSUME ~(overtyped' \/ emptied' \/ overerased' \/ gap') PROVE InOrder'
  BY DEF InOrder
<1> PICK a : a = d.from
  OBVIOUS
<1>1. IInv /\ Wire /\ InOrder
  BY DEF AddInv
<1>2. /\ in'[a] = d.no /\ a \in Addr
      /\ \A b \in Addr \ {a} : in'[b] = in[b]
      /\ \A e \in toServer' : e \in toServer
      /\ Good
  BY <1>1, HandlesWire, HandlesGood
<1>3. /\ UNCHANGED <<cstate, out, written>>
      /\ ~(overtyped \/ emptied \/ overerased \/ gap) /\ d.no = in[a] + 1
  BY DEF Handles, editVars
<1>4. in[a] \in Nat /\ d.no - 1 = in[a]
  BY <1>1, <1>2, <1>3 DEF Wire
<1>5. Editing(a) => d.edited
  BY <1>1, <1>2, <1>3 DEF InOrder, Followed
<1>6. d.args # << >> /\ d.args \in Body /\ handler_entry(a, d.args) /\ noteDraw(d)
      /\ (d.edited => Screen(d) \in written)
  <2>1. d.args # << >> /\ (d.edited => Screen(d) \in written)
    BY <1>1, <1>3 DEF InOrder, StoredOnly, Wire
  <2>2. QED
    BY <1>1, <2>1 DEF Wire, Handles
<1>7. ~Editing(a) => Commanded(a, d.args)
  BY <1>1, <1>6, HandlesCommand
<1>8. Editing(a) => Texted(a, d.args)
  BY <1>1, <1>2, <1>6, HandledText
<1> PICK N : N = NumberOf(a)'
  OBVIOUS
<1>9. StoredOnly'
  <2>1. /\ IInv' /\ Apart' /\ Kept
    BY <1>1, HandlesGood DEF Good, AddInv
  <2>2. /\ Editing(a) \/ ~Editing(a)' => UNCHANGED drew
        /\ \A w \in drew : exists(w.aid) => w \in drew'
        /\ \A w \in drew : ~(Editing(a)' /\ w.aid = N) => w \in drew'
        /\ ~Editing(a) /\ Editing(a)' /\ ~exists(N) =>
             [aid |-> N, from |-> a, no |-> d.no, id |-> clihandlers_map'[a].id] \in drew'
    BY <1>1, <1>2, <1>6, <2>1, HandlesDraw
  <2>3. \A n \in Aid : exists(n) => exists(n)'
    BY <2>1 DEF Kept, exists
  <2>4. \A e \in toServer' : e.edited => e.args # << >> /\ Screen(e) \in written'
    BY <1>1, <1>2, <1>3 DEF InOrder, StoredOnly
  <2>5. ASSUME NEW b \in Addr, Editing(b)', ~exists(NumberOf(b))' PROVE DrawOf(b)' \in drew'
    <3> PICK m : m = NumberOf(b)'
      OBVIOUS
    <3>1. m \in Aid /\ ~exists(m)' /\ ~exists(m)
      <4>1. m \in Aid
        BY <2>1, <2>5, EditsNumberNext
      <4>2. ~exists(m)'
        BY <2>5 DEF exists
      <4>. QED
        BY <2>3, <4>1, <4>2
    <3>2. DrawOf(b)' = [aid |-> m, from |-> b, no |-> in'[b], id |-> clihandlers_map'[b].id]
      BY DEF DrawOf
    <3>3. CASE b = a
      <4>1. ~Editing(a)
        BY <1>8, <2>5, <3>3 DEF Texted
      <4>. QED
        BY <1>2, <2>2, <2>5, <3>1, <3>2, <3>3, <4>1
    <3>4. CASE b # a
      <4>1. clihandlers_map'[b] = clihandlers_map[b] /\ Editing(b) /\ NumberOf(b) = m
        <5>1. OthersStay(a) \/ gone
          BY <1>1, <1>2, <1>6, OneHandler
        <5>2. ~gone
          BY <2>5 DEF gone, Editing, isLogined
        <5>. QED
          BY <2>5, <3>4, <5>1, <5>2 DEF OthersStay, Editing, NumberOf, isLogined
      <4>2. DrawOf(b) \in drew /\ DrawOf(b).aid = m
        BY <1>1, <1>3, <3>1, <4>1 DEF InOrder, StoredOnly, DrawKnown, DrawOf
      <4>3. ~(Editing(a)' /\ m = N)
        BY <1>2, <2>1, <2>5, <3>4 DEF Apart
      <4>4. DrawOf(b)' = DrawOf(b)
        BY <1>2, <3>2, <3>4, <4>1 DEF DrawOf
      <4>. QED
        BY <2>2, <4>2, <4>3, <4>4
    <3>. QED
      BY <3>3, <3>4
  <2>6. ASSUME NEW n \in Aid, exists(n)' PROVE TextKnown(n)'
    <3>1. CASE exists(n)
      <4>1. folder'[n].context = folder[n].context /\ folder'[n].info = folder[n].info
        BY <2>1, <3>1 DEF Kept
      <4>2. TextKnown(n)
        BY <1>1, <1>3, <3>1 DEF InOrder, StoredOnly
      <4>3. AuthorsText(n) => AuthorsText(n)'
        BY <1>3, <2>2, <3>1, <4>1 DEF AuthorsText
      <4>. QED
        BY <4>1, <4>2, <4>3 DEF TextKnown
    <3>2. CASE ~exists(n)
      <4>1. Editing(a)
        BY <1>7, <2>6, <3>2 DEF Commanded, NoneNew
      <4>2. n = NumberOf(a) /\ Holds(folder'[n], clihandlers_map[a].id, d.args)
        BY <1>8, <2>6, <3>2, <4>1 DEF Texted
      <4>3. DrawOf(a) \in drew'
        BY <1>1, <1>2, <1>3, <2>2, <3>2, <4>1, <4>2 DEF InOrder, StoredOnly, DrawKnown
      <4>4. [from |-> a, no |-> in[a] + 1, text |-> d.args] \in written'
        BY <1>3, <1>5, <1>6, <4>1 DEF Screen
      <4>5. ASSUME folder'[n].context = d.args, folder'[n].info \in {clihandlers_map[a].id, TornInfo}
            PROVE  AuthorsText(n)'
        <5> PICK w \in drew' : w = DrawOf(a)
          BY <4>3
        <5>1. w.aid = n /\ w.from = a /\ w.no = in[a] /\ w.id = clihandlers_map[a].id
          BY <4>2 DEF DrawOf
        <5>. QED
          BY <4>4, <4>5, <5>1 DEF AuthorsText
      <4>. QED
        BY <4>2, <4>5 DEF Holds, TextKnown
    <3>. QED
      BY <3>1, <3>2
  <2>. QED
    BY <2>4, <2>5, <2>6 DEF StoredOnly, Screen, DrawKnown
<1>10. ASSUME NEW b \in Addr, cstate'[b] = "SEND_ARTICLE" PROVE Answered(b, out[b])'
  <2> PICK k : k = out[b]
    OBVIOUS
  <2>1. Answered(b, k)
    BY <1>1, <1>3, <1>10 DEF InOrder
  <2>2. Answered(b, k)' /\ k = out'[b]
    BY <1>1, <1>3, <1>5, <2>1, HandlesAnswered
  <2>. QED
    BY <2>2 DEF Answered, Asked
<1>11. ASSUME NEW e \in toServer', e.edited PROVE Answered(e.from, e.no - 1)'
  <2>1. e \in toServer /\ e.from \in Addr /\ Answered(e.from, e.no - 1)
    BY <1>1, <1>2, <1>3, <1>11 DEF InOrder, Wire
  <2>2. QED
    BY <1>1, <1>5, <2>1, HandlesAnswered
<1>12. ASSUME NEW b, NEW k, Followed(b, k) PROVE Followed(b, k)'
  BY <1>2, <1>3, <1>12 DEF Followed
<1>13. ASSUME NEW e \in toServer', IsA(e) PROVE Followed(e.from, e.no)'
  BY <1>1, <1>2, <1>3, <1>12, <1>13 DEF InOrder
<1>14. ASSUME NEW b \in Addr, Editing(b)' PROVE Followed(b, in[b])'
  <2>1. CASE b # a
    <3> PICK k : k = in[b]
      OBVIOUS
    <3>1. Editing(b)
      BY <1>1, <1>14, <2>1, HandlesOthers
    <3>2. Followed(b, k)
      BY <1>1, <1>3, <3>1 DEF InOrder
    <3>3. Followed(b, k)' /\ k = in'[b]
      BY <1>2, <1>12, <2>1, <3>2
    <3>. QED
      BY <3>3 DEF Followed
  <2>2. CASE b = a
    <3>1. ~Editing(a)
      BY <1>8, <1>14, <2>2 DEF Texted
    <3>2. Head(d.args) = "A" /\ Listing(a)
      BY <1>7, <1>14, <2>2, <3>1 DEF Commanded
    <3>3. ~d.edited
      <4> SUFFICES ASSUME d.edited PROVE FALSE
        OBVIOUS
      <4>1. Answered(a, d.no - 1)
        BY <1>1, <1>3 DEF InOrder
      <4>2. QED
        BY <1>4, <3>2, <4>1 DEF Answered
    <3>4. IsA(d)
      BY <3>2, <3>3 DEF IsA
    <3> PICK k : k = d.no
      OBVIOUS
    <3>5. Followed(a, k)
      BY <1>1, <1>3, <3>4 DEF InOrder
    <3>6. Followed(a, k)' /\ k = in'[a]
      BY <1>2, <1>12, <3>5
    <3>. QED
      BY <2>2, <3>6 DEF Followed
  <2>. QED
    BY <2>1, <2>2
<1>. QED
  BY <1>9, <1>10, <1>11, <1>13, <1>14 DEF InOrder, IsA

LEMMA ServerKeeps ==
  ASSUME AddInv, ServerRecv
  PROVE  AddInv'
<1>1. IInv /\ Wire
  BY DEF AddInv
<1>2. PICK d \in toServer : Handles(d)
  BY <1>1, ServerHandles
<1>. QED
  BY <1>1, <1>2, HandlesGood, HandlesWire, HandlesInStep, HandlesInOrder DEF AddInv, Good

\* A process that goes leaves no editor open, and one that comes is not the first.
LEMMA DownKeeps ==
  ASSUME AddInv, ServerDown
  PROVE  AddInv'
<1>1. IInv /\ Wire /\ Apart /\ InStep /\ InOrder
  BY DEF AddInv
<1>2. UNCHANGED netVars /\ UNCHANGED flags
  BY DEF ServerDown
<1>3. /\ UNCHANGED <<cstate, sendbuff, toServer, out, in>>
      /\ UNCHANGED <<overtyped, written, emptied, overerased, gap, drew, misplaced, executed>>
  BY <1>2 DEF netVars, flags, editVars
<1>4. Wire'
  BY <1>1, <1>3 DEF Wire
<1>5. /\ IInv' /\ UNCHANGED folder
      /\ \A b \in Addr : ~Editing(b)' /\ (Listing(b)' => Listing(b))
      /\ (~alive' /\ UNCHANGED crashed) \/ crashed' > 0
  <2>1. CASE Crash
    <3>1. Die /\ UNCHANGED crashed
      BY <2>1 DEF Crash
    <3>2. IInv'
      BY <1>1, <3>1, DieGood DEF Good
    <3>3. ~alive' /\ UNCHANGED folder /\ \A b \in Addr : ~isLogined(b)'
      BY <3>1 DEF Die, gone, diskVars, isLogined
    <3>. QED
      BY <3>1, <3>2, <3>3 DEF Editing, Listing
  <2>2. CASE Restart
    <3>1. IInv'
      BY <1>1, <2>2, Restarted DEF Good
    <3>2. UNCHANGED folder /\ UNCHANGED clihandlers_map
      BY <2>2 DEF Restart, diskVars
    <3>3. crashed' > 0
      <4>1. crashed \in Nat
        BY <1>1 DEF IInv, TypeOK
      <4>2. QED
        BY <2>2, <4>1 DEF Restart
    <3>4. \A b \in Addr : ~Editing(b)
      BY <1>1, <2>2 DEF Restart, Apart
    <3>. QED
      BY <3>1, <3>2, <3>3, <3>4 DEF Editing, Listing, isLogined
  <2>. QED
    BY <2>1, <2>2 DEF ServerDown
<1>6. InStep'
  BY <1>1, <1>3, <1>5 DEF InStep, Expected, Asked, IsA
<1>7. \A n : exists(n)' <=> exists(n)
  BY <1>5 DEF exists
<1>8. InOrder'
  <2> SUFFICES ASSUME ~(overtyped \/ emptied \/ overerased \/ gap) PROVE InOrder'
    BY <1>3 DEF InOrder
  <2>1. \A b \in Addr : \A k : Answered(b, k) => Answered(b, k)'
    BY <1>3, <1>5 DEF Answered, Asked, IsA
  <2>2. \A b, k : Followed(b, k) => Followed(b, k)'
    BY <1>3 DEF Followed
  <2>3. StoredOnly'
    <3>1. \A n : TextKnown(n) => TextKnown(n)'
      BY <1>3, <1>5 DEF TextKnown, AuthorsText
    <3>. QED
      BY <1>1, <1>3, <1>5, <1>7, <3>1 DEF InOrder, StoredOnly, Screen
  <2>4. \A e \in toServer : e.from \in Addr
    BY <1>1 DEF Wire
  <2>. QED
    BY <1>1, <1>3, <1>5, <2>1, <2>2, <2>3, <2>4 DEF InOrder, IsA, Answered, Followed, Asked
<1>9. Apart'
  BY <1>5 DEF Apart
<1>. QED
  BY <1>4, <1>5, <1>6, <1>8, <1>9 DEF AddInv

LEMMA AddStepInv == AddInv /\ [AddNext]_addVars => AddInv'
<1> SUFFICES ASSUME AddInv, [AddNext]_addVars PROVE AddInv'
  OBVIOUS
<1>1. CASE UNCHANGED addVars
  <2>1. /\ UNCHANGED vars
        /\ UNCHANGED <<cstate, sendbuff, toServer, out, in, overtyped, editVars, gap, drew, misplaced, executed>>
    BY <1>1 DEF addVars, netVars, flags
  <2>2. Quiet /\ UNCHANGED <<cstate, sendbuff, toServer, out, overtyped, editVars>>
    BY <2>1 DEF Quiet
  <2>3. QED
    BY <2>2, NothingKeeps
<1>2. CASE ServerRecv
  BY <1>2, ServerKeeps
<1>3. CASE ServerDown
  BY <1>3, DownKeeps
<1>4. ASSUME NEW a \in Addr, UserLine(a) \/ ClientRecv(a) PROVE AddInv'
  BY <1>4, LineKeeps, RecvKeeps
<1>. QED
  BY <1>1, <1>2, <1>3, <1>4, Zenon DEF AddNext

-----------------------------------------------------------------------------
(***************************************************************************)
(* The theorems.                                                           *)
(***************************************************************************)

\* What statehandler_recv_article() stores under the number op_add_article() drew for
\* an A is what that user's client, and no other, had on the screen when the
\* func_add_article() that followed this A returned, for any number of clients and
\* articles, every length of text and way through the editor, with the exceptions
\* EditedIsStored names.
THEOREM EditedStoredCorrect == AddSpec => []EditedIsStored
<1>1. AddInv => EditedIsStored
  BY AddInvImplies
<1>. QED
  BY <1>1, AddInitInv, AddStepInv, PTL DEF AddSpec

\* What was written in func_add_article() is not taken by handler_entry() for a
\* command, with the exceptions EditedNotExecuted names: client and server agree
\* on which datagram is the text, though nothing in it says so.
THEOREM EditedCommandCorrect == AddSpec => []EditedNotExecuted
<1>1. AddInv => EditedNotExecuted
  BY AddInvImplies
<1>. QED
  BY <1>1, AddInitInv, AddStepInv, PTL DEF AddSpec

=============================================================================
