------------------------- MODULE AccountFile_proofs -------------------------
(***************************************************************************)
(* Theorems about the text of the file of accounts, for every set of names *)
(* and passwords, any number of registrations, removals and deaths of the  *)
(* process, and writes that are cut anywhere: the text implements          *)
(* AccountManager, and what was promised while it had no cut line is read  *)
(* by every later process.                                                 *)
(***************************************************************************)
EXTENDS AccountFile, TLAPS, SequenceTheorems, FiniteSetTheorems, NaturalsInduction,
        WellFoundedInduction

(***************************************************************************)
(* Induction over the positions of a text, by the least counterexample.    *)
(***************************************************************************)
LEMMA Least ==
  ASSUME NEW T, T \subseteq Nat, T # {}
  PROVE  \E x \in T : \A y \in T : x <= y
<1>1. \A x, y \in Nat : y < x => <<y, x>> \in OpToRel(<, Nat)
  BY DEF OpToRel
<1>2. \E R : IsWellFoundedOn(R, Nat) /\ \A x, y \in Nat : y < x => <<y, x>> \in R
  BY <1>1, NatLessThanWellFounded, Zenon
<1>3. PICK R : IsWellFoundedOn(R, Nat) /\ \A x, y \in Nat : y < x => <<y, x>> \in R
  BY <1>2
<1>4. PICK x \in T : \A y \in T : ~(<<y, x>> \in R)
  BY <1>3, WFMin
<1>5. \A y \in T : ~(y < x) => x <= y
  OBVIOUS
<1>. QED
  BY <1>3, <1>4, <1>5

\* T has all of 0..N if it has 0 and, of what it has, the next.
LEMMA Upwards ==
  ASSUME NEW N \in Nat, NEW T, 0 \in T, \A n \in 1..N : n - 1 \in T => n \in T
  PROVE  \A n \in 0..N : n \in T
<1> DEFINE Bad == {n \in 0..N : n \notin T}
<1> SUFFICES ASSUME Bad # {} PROVE FALSE
  OBVIOUS
<1>1. PICK x \in Bad : \A y \in Bad : x <= y
  <2>1. Bad \subseteq Nat
    OBVIOUS
  <2>2. QED
    BY <2>1, Least
<1>2. x # 0
  OBVIOUS
<1>3. x \in 1..N /\ x - 1 \in 0..N /\ ~(x <= x - 1)
  BY <1>2
<1>. QED
  BY <1>1, <1>3

\* f has what comes of v by the first n of the steps of G.
Steps(f, n, v, G) == f[0] = v /\ \A m \in 1..n : f[m] = G[<<m, f[m - 1]>>]

LEMMA Computed ==
  ASSUME NEW N \in Nat, NEW V, NEW v \in V, NEW G \in [(1..N) \X V -> V]
  PROVE  \E f \in [0..N -> V] : Steps(f, N, v, G)
<1> DEFINE T == {n \in 0..N : \E f \in [0..n -> V] : Steps(f, n, v, G)}
<1>1. 0 \in T
  <2> DEFINE f == [m \in 0..0 |-> v]
  <2>1. f \in [0..0 -> V] /\ Steps(f, 0, v, G)
    BY DEF Steps
  <2>2. QED
    BY <2>1
<1>2. ASSUME NEW n \in 1..N, n - 1 \in T PROVE n \in T
  <2>1. PICK f \in [0..n - 1 -> V] : Steps(f, n - 1, v, G)
    BY <1>2
  <2>2. f[n - 1] \in V
    OBVIOUS
  <2> DEFINE x == G[<<n, f[n - 1]>>]
             g == [m \in 0..n |-> IF m = n THEN x ELSE f[m]]
  <2>3. x \in V
    BY <2>2
  <2>4. g \in [0..n -> V]
    <3>1. \A m \in 0..n : m = n \/ m \in 0..n - 1
      OBVIOUS
    <3> HIDE DEF x
    <3>2. QED
      BY <2>3, <3>1
  <2>5. Steps(g, n, v, G)
    <3>1. g[0] = v
      BY <2>1 DEF Steps
    <3>2. ASSUME NEW m \in 1..n PROVE g[m] = G[<<m, g[m - 1]>>]
      <4>1. m - 1 \in 0..n /\ m - 1 # n /\ g[m - 1] = f[m - 1]
        OBVIOUS
      <4>2. CASE m = n
        BY <4>1, <4>2
      <4>3. CASE m # n
        <5>1. m \in 1..n - 1 /\ g[m] = f[m]
          BY <4>3
        <5>2. QED
          BY <2>1, <4>1, <5>1 DEF Steps
      <4>. QED
        BY <4>2, <4>3
    <3>. QED
      BY <3>1, <3>2 DEF Steps
  <2>. QED
    BY <2>4, <2>5
<1>3. \A n \in 0..N : n \in T
  BY <1>1, <1>2, Upwards
<1>. QED
  BY <1>3

-----------------------------------------------------------------------------
(***************************************************************************)
(* Reading.                                                                *)
(***************************************************************************)
Letter == (Uid \cup Pwd \cup {PART}) \ {SEP}
Atom == Letter \cup {SEP}
Word == Seq(Letter) \ {<< >>}

\* What is read, ws, becomes with one more atom, x.
Extended(ws, x) == [ws EXCEPT ![Len(ws)] = Append(ws[Len(ws)], x)]
Reads(ws, x, begins) ==
  IF x = SEP THEN ws ELSE IF begins THEN Append(ws, <<x>>) ELSE Extended(ws, x)

Begins(t, n) == n = 1 \/ t[n - 1] = SEP

Reading(f, t) ==
  f = [n \in 0..Len(t) |-> IF n = 0 THEN << >> ELSE Reads(f[n - 1], t[n], Begins(t, n))]

LEMMA ExtendedIs ==
  ASSUME NEW ws \in Seq(Word), ws # << >>, NEW x \in Letter
  PROVE  /\ Extended(ws, x) \in Seq(Word)
         /\ Len(Extended(ws, x)) = Len(ws)
         /\ Extended(ws, x)[Len(ws)] = Append(ws[Len(ws)], x)
         /\ \A i \in 1..Len(ws) - 1 : Extended(ws, x)[i] = ws[i]
<1>1. Len(ws) \in 1..Len(ws)
  BY EmptySeq, LenProperties
<1>2. ws[Len(ws)] \in Word
  BY <1>1, ElementOfSeq
<1>3. Append(ws[Len(ws)], x) \in Word
  BY <1>2, AppendProperties DEF Word
<1> PICK n \in Nat : n = Len(ws)
  BY LenProperties
<1> PICK e \in Word : e = Append(ws[Len(ws)], x)
  BY <1>3
<1>4. /\ [ws EXCEPT ![n] = e] \in Seq(Word) /\ Len([ws EXCEPT ![n] = e]) = n
      /\ \A j \in 1..n : [ws EXCEPT ![n] = e][j] = IF j = n THEN e ELSE ws[j]
  BY <1>1, ExceptSeq
<1>5. Extended(ws, x) = [ws EXCEPT ![n] = e]
  BY DEF Extended
<1>. QED
  BY <1>1, <1>4, <1>5

LEMMA ReadsType ==
  ASSUME NEW ws \in Seq(Word), NEW x \in Atom, NEW begins
  PROVE  /\ Reads(ws, x, begins) \in Seq(Word)
         /\ x # SEP /\ (begins \/ ws # << >>) => Reads(ws, x, begins) # << >>
<1>1. CASE x = SEP
  BY <1>1 DEF Reads
<1>2. CASE x # SEP /\ begins
  <2>1. <<x>> \in Word
    BY <1>2 DEF Word, Atom
  <2>2. Reads(ws, x, begins) = Append(ws, <<x>>)
    BY <1>2 DEF Reads
  <2>3. QED
    BY <2>1, <2>2, AppendProperties
<1>3. CASE x # SEP /\ ~begins
  <2>1. Reads(ws, x, begins) = Extended(ws, x) /\ x \in Letter
    BY <1>3 DEF Reads, Atom
  <2>2. CASE ws = << >>
    <3>1. Extended(ws, x) = << >>
      BY <2>2 DEF Extended
    <3>2. QED
      BY <1>3, <2>1, <2>2, <3>1
  <2>3. CASE ws # << >>
    <3>1. Extended(ws, x) \in Seq(Word) /\ Len(Extended(ws, x)) = Len(ws)
      BY <2>1, <2>3, ExtendedIs
    <3>2. Extended(ws, x) # << >>
      BY <2>3, <3>1, EmptySeq
    <3>3. QED
      BY <2>1, <3>1, <3>2
  <2>. QED
    BY <2>2, <2>3
<1>. QED
  BY <1>1, <1>2, <1>3

\* The words of a text are what some reading of it ends with.
LEMMA WordsRead ==
  ASSUME NEW t \in Seq(Atom)
  PROVE  \E f \in [0..Len(t) -> Seq(Word)] : Reading(f, t) /\ Words(t) = f[Len(t)]
<1> PICK N \in Nat : N = Len(t)
  BY LenProperties
<1>1. \A n \in 1..N : t[n] \in Atom
  BY ElementOfSeq
<1> DEFINE V == Seq(Word)
           G == [p \in (1..N) \X V |-> Reads(p[2], t[p[1]], Begins(t, p[1]))]
<1>2. \A n \in 1..N, ws \in V : G[<<n, ws>>] = Reads(ws, t[n], Begins(t, n))
  OBVIOUS
<1>3. G \in [(1..N) \X V -> V]
  BY <1>1, ReadsType
<1>4. << >> \in V
  OBVIOUS
<1>5. \E f : Reading(f, t)
  <2> HIDE DEF G, V
  <2>1. PICK f \in [0..N -> V] : Steps(f, N, << >>, G)
    BY <1>3, <1>4, Computed
  <2>2. \A n \in 0..N : f[n] = IF n = 0 THEN << >> ELSE Reads(f[n - 1], t[n], Begins(t, n))
    <3>1. f[0] = << >>
      BY <2>1 DEF Steps
    <3>2. ASSUME NEW n \in 1..N PROVE f[n] = Reads(f[n - 1], t[n], Begins(t, n))
      <4>1. f[n - 1] \in V
        OBVIOUS
      <4>2. f[n] = G[<<n, f[n - 1]>>]
        BY <2>1 DEF Steps
      <4>. QED
        BY <1>2, <4>1, <4>2
    <3>3. \A n \in 0..N : n = 0 \/ n \in 1..N
      OBVIOUS
    <3>. QED
      BY <3>1, <3>2, <3>3
  <2>3. f = [n \in 0..N |-> IF n = 0 THEN << >> ELSE Reads(f[n - 1], t[n], Begins(t, n))]
    BY <2>2
  <2>. QED
    BY <2>3 DEF Reading
<1> DEFINE h == CHOOSE f : Reading(f, t)
<1>6. Words(t) = h[Len(t)]
  BY Zenon DEF Words, Reading, Reads, Begins, Extended
<1>7. Reading(h, t)
  BY <1>5, Zenon
<1> HIDE DEF h
<1>8. h \in [0..N -> V]
  <2> DEFINE T == {n \in 0..N : h[n] \in V}
  <2>1. \A n \in 0..N : h[n] = IF n = 0 THEN << >> ELSE Reads(h[n - 1], t[n], Begins(t, n))
    BY <1>7 DEF Reading
  <2>2. 0 \in T
    <3>1. 0 \in 0..N /\ h[0] = << >>
      BY <2>1
    <3>2. QED
      BY <1>4, <3>1
  <2>3. \A n \in 1..N : n - 1 \in T => n \in T
    BY <1>1, <2>1, ReadsType
  <2>4. \A n \in 0..N : n \in T
    BY <2>2, <2>3, Upwards
  <2>5. h = [n \in 0..N |-> h[n]]
    BY <1>7 DEF Reading
  <2>. QED
    BY <2>4, <2>5
<1>. QED
  BY <1>6, <1>7, <1>8

LEMMA ReadsConcat ==
  ASSUME NEW ws \in Seq(Word), NEW vs \in Seq(Word), NEW x \in Atom, NEW begins \in BOOLEAN,
         x = SEP \/ begins \/ Len(vs) # 0
  PROVE  Reads(ws \o vs, x, begins) = ws \o Reads(vs, x, begins)
<1>1. CASE x = SEP
  BY <1>1 DEF Reads
<1>2. CASE x # SEP /\ begins
  <2>1. <<x>> \in Word
    BY <1>2 DEF Word, Atom
  <2> PICK e \in Word : e = <<x>>
    BY <2>1
  <2>2. <<e>> \in Seq(Word) /\ ws \o vs \in Seq(Word)
    BY ConcatProperties
  <2>3. Append(ws \o vs, e) = (ws \o vs) \o <<e>> /\ Append(vs, e) = vs \o <<e>>
    BY <2>2, AppendIsConcat
  <2>4. (ws \o vs) \o <<e>> = ws \o (vs \o <<e>>)
    BY <2>2, ConcatAssociative
  <2>5. Append(ws \o vs, e) = ws \o Append(vs, e)
    BY <2>3, <2>4
  <2>. QED
    BY <1>2, <2>5 DEF Reads
<1>3. CASE x # SEP /\ ~begins
  <2>1. x \in Letter /\ vs # << >>
    BY <1>3, EmptySeq DEF Atom
  <2> PICK a \in Nat : a = Len(ws)
    BY LenProperties
  <2> PICK b \in Nat : b = Len(vs)
    BY LenProperties
  <2>2. b # 0
    BY <2>1, EmptySeq
  <2> PICK s : s = ws \o vs
    OBVIOUS
  <2>3. s \in Seq(Word) /\ Len(s) = a + b
        /\ \A i \in 1..a + b : s[i] = IF i <= a THEN ws[i] ELSE vs[i - a]
    BY ConcatProperties
  <2>4. s # << >>
    BY <2>2, <2>3, EmptySeq
  <2>0. Extended(vs, x) \in Seq(Word)
    BY <2>1, ExtendedIs
  <2> PICK e \in Seq(Word) : e = Extended(vs, x)
    BY <2>0
  <2>5. e \in Seq(Word) /\ Len(e) = b /\ e[b] = Append(vs[b], x)
        /\ \A i \in 1..b - 1 : e[i] = vs[i]
    BY <2>1, ExtendedIs
  <2> PICK l : l = Extended(s, x)
    OBVIOUS
  <2>6. l \in Seq(Word) /\ Len(l) = a + b /\ l[a + b] = Append(s[a + b], x)
        /\ \A i \in 1..a + b - 1 : l[i] = s[i]
    <3> PICK c \in Nat : c = Len(s)
      BY <2>3
    <3>1. l \in Seq(Word) /\ Len(l) = c /\ l[c] = Append(s[c], x)
          /\ \A i \in 1..c - 1 : l[i] = s[i]
      BY <2>1, <2>3, <2>4, ExtendedIs
    <3>2. c = a + b
      BY <2>3
    <3>3. l \in Seq(Word) /\ Len(l) = a + b
      BY <3>1, <3>2
    <3>4. l[a + b] = Append(s[a + b], x)
      BY <3>1, <3>2
    <3>5. \A i \in 1..a + b - 1 : l[i] = s[i]
      BY <3>1, <3>2, SMTT(20)
    <3>. QED
      BY <3>3, <3>4, <3>5
  <2> PICK r : r = ws \o e
    OBVIOUS
  <2>7. r \in Seq(Word) /\ Len(r) = a + b
        /\ \A i \in 1..a + b : r[i] = IF i <= a THEN ws[i] ELSE e[i - a]
    <3> PICK c \in Nat : c = Len(e)
      BY <2>5
    <3>1. r \in Seq(Word) /\ Len(r) = a + c
          /\ \A i \in 1..a + c : r[i] = IF i <= a THEN ws[i] ELSE e[i - a]
      BY ConcatProperties
    <3>2. c = b
      BY <2>5
    <3>. QED
      BY <3>1, <3>2
  <2>8. \A i \in 1..a + b : l[i] = r[i]
    <3> TAKE i \in 1..a + b
    <3>1. CASE i <= a
      <4>1. i \in 1..a + b - 1
        BY <2>2, <3>1
      <4>2. QED
        BY <2>3, <2>6, <2>7, <3>1, <4>1
    <3>2. CASE i > a /\ i # a + b
      <4>1. i \in 1..a + b - 1 /\ i - a \in 1..b - 1 /\ ~(i <= a)
        BY <3>2
      <4>2. l[i] = s[i] /\ e[i - a] = vs[i - a]
        BY <2>5, <2>6, <4>1
      <4>3. s[i] = vs[i - a] /\ r[i] = e[i - a]
        BY <2>3, <2>7, <4>1
      <4>. QED
        BY <4>2, <4>3
    <3>3. CASE i = a + b
      <4>1. ~(i <= a) /\ i - a = b
        BY <2>2, <3>3
      <4>2. s[i] = vs[b] /\ r[i] = e[b]
        BY <2>3, <2>7, <4>1
      <4>3. l[i] = Append(s[i], x) /\ e[b] = Append(vs[b], x)
        BY <2>5, <2>6, <3>3
      <4>. QED
        BY <4>2, <4>3
    <3>4. i <= a \/ (i > a /\ i # a + b) \/ i = a + b
      OBVIOUS
    <3>. QED
      BY <3>1, <3>2, <3>3, <3>4
  <2>9. l = r
    BY <2>6, <2>7, <2>8, SeqEqual
  <2>. QED
    BY <1>3, <2>9 DEF Reads
<1>. QED
  BY <1>1, <1>2, <1>3

\* What follows t begins a word of its own.
Closed(t) == t = << >> \/ t[Len(t)] = SEP

LEMMA WordsConcat ==
  ASSUME NEW t \in Seq(Atom), Closed(t), NEW u \in Seq(Atom)
  PROVE  Words(t) \in Seq(Word) /\ Words(u) \in Seq(Word) /\ Words(t \o u) = Words(t) \o Words(u)
<1> PICK a \in Nat : a = Len(t)
  BY LenProperties
<1> PICK b \in Nat : b = Len(u)
  BY LenProperties
<1> PICK s : s = t \o u
  OBVIOUS
<1>1. s \in Seq(Atom) /\ Len(s) = a + b
      /\ \A i \in 1..a + b : s[i] = IF i <= a THEN t[i] ELSE u[i - a]
  BY ConcatProperties
<1>2. PICK f \in [0..a -> Seq(Word)] : Reading(f, t) /\ Words(t) = f[a]
  BY WordsRead
<1>3. PICK h \in [0..b -> Seq(Word)] : Reading(h, u) /\ Words(u) = h[b]
  BY WordsRead
<1>4. PICK g \in [0..a + b -> Seq(Word)] : Reading(g, s) /\ Words(s) = g[a + b]
  BY <1>1, WordsRead
<1>5. \A n \in 0..a : f[n] = IF n = 0 THEN << >> ELSE Reads(f[n - 1], t[n], Begins(t, n))
  BY <1>2 DEF Reading
<1>6. \A n \in 0..b : h[n] = IF n = 0 THEN << >> ELSE Reads(h[n - 1], u[n], Begins(u, n))
  BY <1>3 DEF Reading
<1>7. \A n \in 0..a + b : g[n] = IF n = 0 THEN << >> ELSE Reads(g[n - 1], s[n], Begins(s, n))
  BY <1>1, <1>4 DEF Reading
<1>8. \A n \in 0..a : g[n] = f[n]
  <2> DEFINE T == {n \in 0..a : g[n] = f[n]}
  <2>1. 0 \in T
    BY <1>5, <1>7
  <2>2. ASSUME NEW n \in 1..a, n - 1 \in T PROVE n \in T
    <3>1. s[n] = t[n] /\ (n # 1 => s[n - 1] = t[n - 1])
      BY <1>1
    <3>2. Begins(s, n) <=> Begins(t, n)
      BY <3>1 DEF Begins
    <3>3. g[n] = Reads(g[n - 1], s[n], Begins(s, n)) /\ f[n] = Reads(f[n - 1], t[n], Begins(t, n))
      BY <1>5, <1>7
    <3>4. g[n] = f[n]
      BY <2>2, <3>1, <3>2, <3>3 DEF Reads
    <3>. QED
      BY <3>4
  <2>3. \A n \in 0..a : n \in T
    BY <2>1, <2>2, Upwards
  <2>. QED
    BY <2>3
<1>9. f[a] \in Seq(Word)
  <2>1. a \in 0..a
    OBVIOUS
  <2>. QED
    BY <2>1
<1>10. \A n \in 0..b : g[a + n] = f[a] \o h[n]
  <2> DEFINE T == {n \in 0..b : /\ g[a + n] = f[a] \o h[n]
                                /\ n # 0 /\ u[n] # SEP => h[n] # << >>}
  <2>1. 0 \in T
    <3>1. 0 \in 0..b /\ a \in 0..a /\ a + 0 = a
      OBVIOUS
    <3>2. h[0] = << >> /\ g[a + 0] = f[a]
      BY <1>6, <1>8, <3>1
    <3>3. f[a] \o << >> = f[a]
      BY <1>9, ConcatEmptySeq
    <3>4. g[a + 0] = f[a] \o h[0]
      BY <3>2, <3>3
    <3>. QED
      BY <3>1, <3>4
  <2>2. ASSUME NEW n \in 1..b, n - 1 \in T PROVE n \in T
    <3>1. a + n \in 1..a + b /\ a + n # 0 /\ ~(a + n <= a) /\ a + n - a = n
          /\ a + n - 1 = a + (n - 1)
      OBVIOUS
    <3>2. s[a + n] = u[n] /\ u[n] \in Atom
      BY <1>1, <3>1, ElementOfSeq
    <3>3. Begins(s, a + n) <=> Begins(u, n)
      <4>1. CASE n = 1
        <5>1. Begins(u, n)
          BY <4>1 DEF Begins
        <5>2. CASE t = << >>
          <6>1. a = 0
            BY <5>2
          <6>2. QED
            BY <4>1, <5>1, <6>1 DEF Begins
        <5>3. CASE t # << >>
          <6>1. a # 0 /\ t[a] = SEP
            BY <5>3, EmptySeq DEF Closed
          <6>2. a + n - 1 = a /\ s[a] = t[a]
            BY <1>1, <4>1, <6>1
          <6>3. QED
            BY <5>1, <6>1, <6>2 DEF Begins
        <5>. QED
          BY <5>2, <5>3
      <4>2. CASE n # 1
        <5>1. a + n # 1 /\ a + n - 1 \in 1..a + b /\ ~(a + n - 1 <= a) /\ a + n - 1 - a = n - 1
          BY <4>2
        <5>2. s[a + n - 1] = u[n - 1]
          BY <1>1, <5>1
        <5>. QED
          BY <4>2, <5>1, <5>2 DEF Begins
      <4>. QED
        BY <4>1, <4>2
    <3>4. h[n - 1] \in Seq(Word) /\ g[a + n - 1] = f[a] \o h[n - 1]
      BY <2>2, <3>1
    <3>5. u[n] = SEP \/ Begins(u, n) \/ h[n - 1] # << >>
      <4>1. CASE Begins(u, n)
        BY <4>1
      <4>2. CASE ~Begins(u, n)
        <5>1. n - 1 # 0 /\ u[n - 1] # SEP
          BY <4>2 DEF Begins
        <5>2. QED
          BY <2>2, <5>1
      <4>. QED
        BY <4>1, <4>2
    <3>6. g[a + n] = Reads(g[a + n - 1], s[a + n], Begins(s, a + n))
          /\ h[n] = Reads(h[n - 1], u[n], Begins(u, n))
      BY <1>6, <1>7, <3>1
    <3>7. g[a + n] = f[a] \o h[n]
      <4>1. Reads(f[a] \o h[n - 1], u[n], Begins(u, n)) = f[a] \o Reads(h[n - 1], u[n], Begins(u, n))
        <5>1. Begins(u, n) \in BOOLEAN
          BY DEF Begins
        <5>2. u[n] = SEP \/ Begins(u, n) \/ Len(h[n - 1]) # 0
          BY <3>4, <3>5, EmptySeq
        <5>3. \A ws, vs \in Seq(Word), x \in Atom, begins \in BOOLEAN :
                x = SEP \/ begins \/ Len(vs) # 0 =>
                  Reads(ws \o vs, x, begins) = ws \o Reads(vs, x, begins)
          BY ReadsConcat
        <5>. QED
          BY <1>9, <3>2, <3>4, <5>1, <5>2, <5>3, Zenon
      <4>2. Reads(g[a + n - 1], s[a + n], Begins(s, a + n)) = Reads(f[a] \o h[n - 1], u[n], Begins(u, n))
        BY <3>2, <3>3, <3>4 DEF Reads
      <4>. QED
        BY <3>6, <4>1, <4>2
    <3>8. u[n] # SEP => h[n] # << >>
      BY <3>2, <3>4, <3>5, <3>6, ReadsType
    <3>. QED
      BY <3>7, <3>8
  <2>3. \A n \in 0..b : n \in T
    BY <2>1, <2>2, Upwards
  <2>. QED
    BY <2>3
<1>11. h[b] \in Seq(Word) /\ g[a + b] = f[a] \o h[b]
  BY <1>10
<1>. QED
  BY <1>2, <1>3, <1>4, <1>9, <1>11

\* A word and a SEP are read as that word.
LEMMA WordRead ==
  ASSUME NEW w \in Word
  PROVE  /\ w \o <<SEP>> \in Seq(Atom) /\ Closed(w \o <<SEP>>)
         /\ Words(w \o <<SEP>>) = <<w>>
<1> PICK n \in Nat : n = Len(w)
  BY LenProperties DEF Word
<1> PICK t : t = w \o <<SEP>>
  OBVIOUS
<1>1. w \in Seq(Letter) /\ n # 0 /\ w \in Seq(Atom)
  BY EmptySeq DEF Word, Atom
<1>2. t \in Seq(Atom) /\ Len(t) = n + 1 /\ t[n + 1] = SEP /\ \A i \in 1..n : t[i] = w[i]
  <2>1. <<SEP>> \in Seq(Atom) /\ Len(<<SEP>>) = 1 /\ <<SEP>>[1] = SEP
    BY DEF Atom
  <2>2. Len(t) = n + 1 /\ t \in Seq(Atom)
        /\ \A i \in 1..n + 1 : t[i] = IF i <= n THEN w[i] ELSE <<SEP>>[i - n]
    BY <1>1, <2>1, ConcatProperties
  <2>. QED
    BY <2>1, <2>2
<1>3. \A i \in 1..n : w[i] \in Letter /\ w[i] # SEP
  BY <1>1, ElementOfSeq DEF Letter
<1>4. PICK f \in [0..n + 1 -> Seq(Word)] : Reading(f, t) /\ Words(t) = f[n + 1]
  BY <1>2, WordsRead
<1>5. \A m \in 0..n + 1 : f[m] = IF m = 0 THEN << >> ELSE Reads(f[m - 1], t[m], Begins(t, m))
  BY <1>2, <1>4 DEF Reading
<1> DEFINE T == {m \in 0..n : m # 0 => /\ Len(f[m]) = 1 /\ Len(f[m][1]) = m
                                       /\ \A i \in 1..m : f[m][1][i] = w[i]}
<1>6. \A m \in 1..n : m - 1 \in T => m \in T
  <2> SUFFICES ASSUME NEW m \in 1..n, m - 1 \in T PROVE m \in T
    OBVIOUS
  <2>0. m \in 0..n + 1 /\ m # 0 /\ t[m] = w[m]
    BY <1>2
  <2>1. f[m] = Reads(f[m - 1], w[m], Begins(t, m)) /\ w[m] \in Letter /\ w[m] # SEP
    BY <1>3, <1>5, <2>0
  <2>2. CASE m = 1
    <3>1. f[0] = << >> /\ Begins(t, m)
      BY <1>5, <2>2 DEF Begins
    <3>2. f[m] = Append(<< >>, <<w[m]>>)
      <4>1. f[m] = Reads(<< >>, w[m], Begins(t, m))
        BY <2>1, <2>2, <3>1, 1 - 1 = 0
      <4>. QED
        BY <2>1, <3>1, <4>1, Zenon DEF Reads
    <3>3. f[m] = << <<w[m]>> >>
      BY <3>2
    <3>4. Len(f[m]) = 1 /\ f[m][1] = <<w[m]>>
      BY <3>3
    <3>5. Len(<<w[m]>>) = 1 /\ <<w[m]>>[1] = w[m]
      OBVIOUS
    <3>. QED
      BY <2>2, <3>4, <3>5
  <2>3. CASE m # 1
    <3>1. m - 1 \in 1..n /\ m - 1 # 0
      BY <2>3
    <3>2. ~Begins(t, m)
      BY <1>2, <1>3, <2>3, <3>1 DEF Begins
    <3>21. m - 1 \in 0..n + 1
      OBVIOUS
    <3> PICK ws \in Seq(Word) : ws = f[m - 1]
      BY <3>21
    <3>3. Len(ws) = 1 /\ Len(ws[1]) = m - 1 /\ \A i \in 1..m - 1 : ws[1][i] = w[i]
      BY <3>1
    <3>4. f[m] = Extended(ws, w[m])
      BY <2>1, <3>2 DEF Reads
    <3>5. ws # << >>
      BY <3>3
    <3> PICK x \in Letter : x = w[m]
      BY <2>1
    <3>6. Len(f[m]) = 1 /\ f[m][1] = Append(ws[1], x)
      BY <3>3, <3>4, <3>5, ExtendedIs
    <3>7. ws[1] \in Seq(Letter)
      BY <3>3, ElementOfSeq DEF Word
    <3>8. Len(f[m][1]) = m /\ \A i \in 1..m - 1 : f[m][1][i] = w[i]
      BY <3>3, <3>6, <3>7, AppendProperties
    <3>9. f[m][1][m] = w[m]
      BY <3>3, <3>6, <3>7, AppendProperties
    <3>10. \A i \in 1..m : i \in 1..m - 1 \/ i = m
      OBVIOUS
    <3>11. \A i \in 1..m : f[m][1][i] = w[i]
      BY <3>8, <3>9, <3>10
    <3>12. Len(f[m]) = 1 /\ Len(f[m][1]) = m /\ m \in 0..n
      BY <3>6, <3>8
    <3>. QED
      BY <3>11, <3>12, Zenon
  <2>. QED
    BY <2>2, <2>3
<1>7. \A m \in 0..n : m \in T
  <2>1. 0 \in T
    OBVIOUS
  <2> HIDE DEF T
  <2>2. QED
    BY <1>6, <2>1, Upwards
<1>8. f[n] \in Seq(Word) /\ Len(f[n]) = 1 /\ Len(f[n][1]) = n /\ \A i \in 1..n : f[n][1][i] = w[i]
  BY <1>1, <1>7
<1>9. f[n][1] = w
  <2>1. f[n][1] \in Seq(Letter)
    BY <1>8, ElementOfSeq DEF Word
  <2>2. QED
    BY <1>1, <1>8, <2>1, SeqEqual
<1>10. f[n] = <<w>>
  <2>1. <<w>> \in Seq(Word) /\ Len(<<w>>) = 1 /\ <<w>>[1] = w
    OBVIOUS
  <2>2. QED
    BY <1>8, <1>9, <2>1, SeqEqual
<1>11. f[n + 1] = f[n]
  BY <1>2, <1>5 DEF Reads
<1>12. Closed(t)
  BY <1>2 DEF Closed
<1>. QED
  BY <1>2, <1>4, <1>10, <1>11, <1>12

-----------------------------------------------------------------------------
(***************************************************************************)
(* Loading.                                                                *)
(***************************************************************************)
LEMMA WordsEmpty == << >> \in Seq(Atom) /\ Closed(<< >>) /\ Words(<< >>) = << >>
<1>1. << >> \in Seq(Atom) /\ Len(<< >>) = 0
  OBVIOUS
<1>2. PICK f \in [0..Len(<< >>) -> Seq(Word)] : Reading(f, << >>) /\ Words(<< >>) = f[Len(<< >>)]
  BY <1>1, WordsRead
<1>3. f = [n \in 0..Len(<< >>) |->
             IF n = 0 THEN << >> ELSE Reads(f[n - 1], << >>[n], Begins(<< >>, n))]
  BY <1>2 DEF Reading
<1>4. 0 \in 0..Len(<< >>)
  BY <1>1
<1>5. f[0] = << >>
  BY <1>3, <1>4
<1>. QED
  BY <1>1, <1>2, <1>5 DEF Closed

LEMMA ClosedConcat ==
  ASSUME NEW t \in Seq(Atom), Closed(t), NEW u \in Seq(Atom), Closed(u)
  PROVE  t \o u \in Seq(Atom) /\ Closed(t \o u)
<1>1. CASE u = << >>
  <2>1. t \o u = t
    BY <1>1, ConcatEmptySeq
  <2>. QED
    BY <2>1
<1>2. CASE u # << >>
  <2> PICK a \in Nat : a = Len(t)
    BY LenProperties
  <2> PICK b \in Nat : b = Len(u)
    BY LenProperties
  <2>1. b # 0 /\ u[b] = SEP
    BY <1>2, EmptySeq DEF Closed
  <2>2. t \o u \in Seq(Atom) /\ Len(t \o u) = a + b
        /\ \A i \in 1..a + b : (t \o u)[i] = IF i <= a THEN t[i] ELSE u[i - a]
    BY ConcatProperties
  <2>3. a + b \in 1..a + b /\ ~(a + b <= a) /\ a + b - a = b
    BY <2>1
  <2>4. (t \o u)[a + b] = SEP
    BY <2>1, <2>2, <2>3
  <2>. QED
    BY <2>2, <2>4 DEF Closed
<1>. QED
  BY <1>1, <1>2

LEMMA LineRead ==
  ASSUME NEW a \in Word, NEW b \in Word
  PROVE  Line(a, b) \in Seq(Atom) /\ Closed(Line(a, b)) /\ Words(Line(a, b)) = <<a, b>>
<1> PICK u : u = a \o <<SEP>>
  OBVIOUS
<1> PICK v : v = b \o <<SEP>>
  OBVIOUS
<1>1. u \in Seq(Atom) /\ Closed(u) /\ Words(u) = <<a>>
  BY WordRead
<1>2. v \in Seq(Atom) /\ Closed(v) /\ Words(v) = <<b>>
  BY WordRead
<1>3. a \in Seq(Atom) /\ b \in Seq(Atom) /\ <<SEP>> \in Seq(Atom)
  BY DEF Word, Atom
<1>4. (u \o b) \o <<SEP>> = u \o v
  BY <1>1, <1>3, ConcatAssociative
<1>5. Line(a, b) = u \o v
  BY <1>4 DEF Line
<1>6. u \o v \in Seq(Atom) /\ Closed(u \o v)
  BY <1>1, <1>2, ClosedConcat
<1>7. Words(u \o v) = Words(u) \o Words(v)
  BY <1>1, <1>2, WordsConcat
<1>8. <<a>> \o <<b>> = <<a, b>>
  <2>1. <<a>> \in Seq(Word) /\ Len(<<a>>) = 1 /\ <<a>>[1] = a
        /\ <<b>> \in Seq(Word) /\ Len(<<b>>) = 1 /\ <<b>>[1] = b
    OBVIOUS
  <2>2. <<a, b>> \in Seq(Word) /\ Len(<<a, b>>) = 2 /\ <<a, b>>[1] = a /\ <<a, b>>[2] = b
    OBVIOUS
  <2> PICK s \in Seq(Word) : s = <<a>>
    BY <2>1
  <2> PICK r \in Seq(Word) : r = <<b>>
    BY <2>1
  <2>3. s \o r \in Seq(Word) /\ Len(s \o r) = Len(s) + Len(r)
        /\ \A i \in 1..Len(s) + Len(r) : (s \o r)[i] = IF i <= Len(s) THEN s[i] ELSE r[i - Len(s)]
    BY ConcatProperties
  <2>4. Len(s) = 1 /\ Len(r) = 1 /\ s[1] = a /\ r[1] = b
    BY <2>1
  <2>5. Len(s \o r) = 2 /\ (s \o r)[1] = a /\ (s \o r)[2] = b
    BY <2>3, <2>4
  <2>6. \A i \in 1..2 : i = 1 \/ i = 2
    OBVIOUS
  <2>7. Len(s \o r) = Len(<<a, b>>)
        /\ \A i \in 1..Len(s \o r) : (s \o r)[i] = <<a, b>>[i]
    BY <2>2, <2>5, <2>6
  <2>8. s \o r = <<a, b>>
    BY <2>2, <2>3, <2>7, SeqEqual
  <2>. QED
    BY <2>8
<1>. QED
  BY <1>1, <1>2, <1>5, <1>6, <1>7, <1>8

\* The i-th pair of these words is one for id, and the first one is.
Pair(w, id, i) == i \in Nat \ {0} /\ 2 * i <= Len(w) /\ w[2 * i - 1] = id
First(w, id, i) == Pair(w, id, i) /\ \A j \in 1..i - 1 : w[2 * j - 1] # id

LEMMA LoadIs ==
  ASSUME NEW t \in Seq(Atom)
  PROVE  /\ load(t) \in [DOMAIN load(t) -> Word] /\ DOMAIN load(t) \subseteq Word
         /\ IsFiniteSet(DOMAIN load(t))
         /\ \A id, i : Pair(Words(t), id, i) => id \in DOMAIN load(t)
         /\ \A id \in DOMAIN load(t) : \E i : First(Words(t), id, i)
         /\ \A id, i : First(Words(t), id, i) => load(t)[id] = Words(t)[2 * i]
<1>1. Words(t) \in Seq(Word)
  BY WordsEmpty, WordsConcat
<1> DEFINE w == Words(t)
           n == Len(w)
           m == n \div 2
           D == {w[2 * i - 1] : i \in 1..m}
           P(id) == {i \in 1..m : w[2 * i - 1] = id}
           least(S) == CHOOSE x \in S : \A y \in S : x <= y
<1>4. load(t) = [id \in D |-> w[2 * least(P(id))]]
  BY Zenon DEF load, Min
<1>13. w \in Seq(Word) /\ n \in Nat /\ n = Len(w) /\ w = Words(t)
  BY <1>1, LenProperties
<1> HIDE DEF w, n
<1>14. m \in Nat /\ \A i : i \in 1..m <=> i \in Nat \ {0} /\ 2 * i <= n
  BY <1>13
<1> HIDE DEF m
<1>2. \A i : i \in 1..m <=> i \in Nat \ {0} /\ 2 * i <= n
  BY <1>14
<1>3. \A i \in 1..m : w[2 * i - 1] \in Word /\ w[2 * i] \in Word
  <2> TAKE i \in 1..m
  <2>0. i \in Nat /\ i # 0 /\ 2 * i <= n
    BY <1>2
  <2>1. 2 * i - 1 \in 1..n /\ 2 * i \in 1..n
    BY <1>13, <2>0
  <2>. QED
    BY <1>13, <2>1, ElementOfSeq
<1>5. ASSUME NEW S \in SUBSET Nat, S # {} PROVE least(S) \in S /\ \A y \in S : least(S) <= y
  BY <1>5, Least, Zenon
<1>6. ASSUME NEW id \in D PROVE P(id) \subseteq Nat /\ P(id) # {}
  <2>1. PICK i \in 1..m : w[2 * i - 1] = id
    OBVIOUS
  <2>2. i \in P(id)
    BY <2>1
  <2>. QED
    BY <2>2
<1>7. ASSUME NEW id \in D PROVE First(w, id, least(P(id))) /\ least(P(id)) \in 1..m
  <2> PICK S : S = P(id)
    OBVIOUS
  <2> PICK i : i = least(S)
    OBVIOUS
  <2>1. i \in S /\ \A y \in S : i <= y
    BY <1>5, <1>6
  <2>2. i \in 1..m /\ w[2 * i - 1] = id
    BY <2>1
  <2>3. ASSUME NEW j \in 1..i - 1 PROVE w[2 * j - 1] # id
    <3>1. j \in 1..m /\ ~(i <= j)
      BY <1>14, <2>2
    <3>2. j \notin S
      BY <2>1, <3>1
    <3>. QED
      BY <3>1, <3>2
  <2>. QED
    BY <1>2, <1>13, <2>2, <2>3 DEF First, Pair
<1> HIDE DEF least
<1>8. load(t) \in [D -> Word] /\ DOMAIN load(t) = D
  BY <1>3, <1>4, <1>7
<1>9. D \subseteq Word
  BY <1>3
<1>10. IsFiniteSet(D)
  <2> DEFINE f == [i \in 1..m |-> w[2 * i - 1]]
  <2>1. f \in Surjection(1..m, D)
    BY DEF Surjection
  <2>3. IsFiniteSet(1..m)
    BY <1>14, FS_Interval
  <2>. QED
    BY <2>1, <2>3, FS_Surjection
<1>11. ASSUME NEW id, NEW i, Pair(w, id, i) PROVE id \in D
  BY <1>2, <1>13, <1>11 DEF Pair
<1>12. ASSUME NEW id, NEW i, First(w, id, i) PROVE load(t)[id] = w[2 * i]
  <2>1. id \in D /\ i \in P(id)
    BY <1>2, <1>13, <1>12 DEF First, Pair
  <2> PICK k : k = least(P(id))
    OBVIOUS
  <2>2. First(w, id, k) /\ k \in 1..m
    BY <1>7, <2>1
  <2>3. ~(k < i) /\ ~(i < k)
    <3>1. i \in 1..m /\ w[2 * i - 1] = id /\ w[2 * k - 1] = id
      BY <2>1, <2>2 DEF First, Pair
    <3>2. CASE k < i
      <4>1. k \in 1..i - 1
        BY <2>2, <3>1, <3>2
      <4>. QED
        BY <1>12, <3>1, <4>1 DEF First
    <3>3. CASE i < k
      <4>1. i \in 1..k - 1
        BY <2>2, <3>1, <3>3
      <4>. QED
        BY <2>2, <3>1, <4>1 DEF First
    <3>. QED
      BY <3>2, <3>3
  <2>4. i = k
    BY <2>1, <2>2, <2>3
  <2>. QED
    BY <1>4, <2>1, <2>4
<1>. QED
  BY <1>13, <1>7, <1>8, <1>9, <1>10, <1>11, <1>12

\* A text that ends where an account's line does.
Whole(t) == t \in Seq(Atom) /\ Closed(t) /\ \E k \in Nat : Len(Words(t)) = 2 * k

\* What is loaded of a text that is closed is loaded of all that continues it.
LEMMA LoadKeeps ==
  ASSUME NEW t \in Seq(Atom), Closed(t), NEW u \in Seq(Atom), NEW id \in DOMAIN load(t)
  PROVE  id \in DOMAIN load(t \o u) /\ load(t \o u)[id] = load(t)[id]
<1>1. Words(t) \in Seq(Word) /\ Words(u) \in Seq(Word) /\ Words(t \o u) = Words(t) \o Words(u)
  BY WordsConcat
<1>2. t \o u \in Seq(Atom)
  BY ConcatProperties
<1>3. PICK i : First(Words(t), id, i)
  BY LoadIs
<1> DEFINE w == Words(t)
           v == Words(u)
           s == Words(t \o u)
           n == Len(w)
           m == Len(v)
<1>4. w \in Seq(Word) /\ v \in Seq(Word) /\ s = w \o v /\ n = Len(w) /\ m = Len(v)
      /\ First(w, id, i)
  BY <1>1, <1>3
<1>5. load(t)[id] = w[2 * i] /\ (First(s, id, i) => load(t \o u)[id] = s[2 * i])
      /\ (Pair(s, id, i) => id \in DOMAIN load(t \o u))
  BY <1>2, <1>3, LoadIs
<1> HIDE DEF w, v, s, n, m
<1>6. n \in Nat /\ m \in Nat
  BY <1>4, LenProperties
<1>7. Len(s) = n + m /\ \A j \in 1..n + m : s[j] = IF j <= n THEN w[j] ELSE v[j - n]
  BY <1>4, ConcatProperties
<1>8. \A j \in 1..n : s[j] = w[j]
  BY <1>6, <1>7
<1>9. i \in Nat /\ i # 0 /\ 2 * i <= n /\ w[2 * i - 1] = id
  BY <1>4 DEF First, Pair
<1>10. 2 * i \in 1..n /\ 2 * i - 1 \in 1..n /\ 2 * i <= n + m
  BY <1>6, <1>9
<1>11. Pair(s, id, i)
  BY <1>7, <1>8, <1>9, <1>10 DEF Pair
<1>12. ASSUME NEW j \in 1..i - 1 PROVE s[2 * j - 1] # id
  <2>1. 2 * j - 1 \in 1..n
    BY <1>6, <1>9
  <2>2. w[2 * j - 1] # id
    BY <1>4 DEF First
  <2>. QED
    BY <1>8, <2>1, <2>2
<1>13. First(s, id, i)
  BY <1>11, <1>12 DEF First
<1>. QED
  BY <1>5, <1>8, <1>10, <1>11, <1>13

\* One more line is one more account.
LEMMA LoadLine ==
  ASSUME NEW t \in Seq(Atom), Whole(t), NEW a \in Word, NEW b \in Word, a \notin DOMAIN load(t)
  PROVE  Whole(t \o Line(a, b)) /\ load(t \o Line(a, b)) = with(load(t), a, b)
<1> PICK u \in Seq(Atom) : u = Line(a, b)
  BY LineRead
<1>1. Closed(u) /\ Words(u) = <<a, b>>
  BY LineRead
<1>2. Closed(t)
  BY DEF Whole
<1>3. PICK k \in Nat : Len(Words(t)) = 2 * k
  BY DEF Whole
<1>4. Words(t) \in Seq(Word) /\ Words(u) \in Seq(Word) /\ Words(t \o u) = Words(t) \o Words(u)
  BY <1>2, WordsConcat
<1>5. t \o u \in Seq(Atom) /\ Closed(t \o u)
  BY <1>1, <1>2, ClosedConcat
<1> DEFINE w == Words(t)
           v == Words(u)
           s == Words(t \o u)
           L == load(t \o u)
           T == load(t)
<1>6. w \in Seq(Word) /\ v \in Seq(Word) /\ s = w \o v /\ Len(w) = 2 * k /\ v = <<a, b>>
      /\ s = Words(t \o u)
  BY <1>1, <1>3, <1>4
<1>7. /\ T \in [DOMAIN T -> Word] /\ a \notin DOMAIN T /\ T = load(t)
      /\ \A id, i : Pair(w, id, i) => id \in DOMAIN T
      /\ \A id \in DOMAIN T : \E i : First(w, id, i)
  BY LoadIs
<1>8. /\ L \in [DOMAIN L -> Word] /\ L = load(t \o u)
      /\ \A id, i : Pair(s, id, i) => id \in DOMAIN L
      /\ \A id \in DOMAIN L : \E i : First(s, id, i)
      /\ \A id, i : First(s, id, i) => L[id] = s[2 * i]
  BY <1>5, LoadIs
<1>9. \A id \in DOMAIN T : id \in DOMAIN L /\ L[id] = T[id]
  BY <1>2, LoadKeeps
<1> HIDE DEF w, v, s, L, T
<1>10. Len(v) = 2 /\ v[1] = a /\ v[2] = b
  BY <1>6
<1>11. Len(s) = 2 * k + 2 /\ (\A j \in 1..2 * k : s[j] = w[j])
       /\ s[2 * k + 1] = a /\ s[2 * k + 2] = b
  <2> PICK n \in Nat : n = 2 * k
    OBVIOUS
  <2>1. n = Len(w)
    BY <1>6
  <2>2. Len(s) = n + 2 /\ \A j \in 1..n + 2 : s[j] = IF j <= n THEN w[j] ELSE v[j - n]
    BY <1>6, <1>10, <2>1, ConcatProperties
  <2>3. \A j \in 1..n : s[j] = w[j]
    BY <2>2
  <2>4. s[n + 1] = v[1] /\ s[n + 2] = v[2]
    BY <2>2
  <2>. QED
    BY <1>10, <2>2, <2>3, <2>4
<1>12. Whole(t \o u)
  <2>1. Len(s) = 2 * (k + 1) /\ k + 1 \in Nat
    BY <1>11
  <2>. QED
    BY <1>5, <1>6, <2>1 DEF Whole
<1>13. First(s, a, k + 1)
  <2>1. Pair(s, a, k + 1)
    <3>1. k + 1 \in Nat \ {0} /\ 2 * (k + 1) = 2 * k + 2 /\ 2 * (k + 1) - 1 = 2 * k + 1
      OBVIOUS
    <3>. QED
      BY <1>11, <3>1 DEF Pair
  <2>2. ASSUME NEW j \in 1..k, s[2 * j - 1] = a PROVE FALSE
    <3>1. 2 * j - 1 \in 1..2 * k /\ 2 * j <= 2 * k /\ j \in Nat \ {0}
      OBVIOUS
    <3>2. Pair(w, a, j)
      BY <1>6, <1>11, <2>2, <3>1 DEF Pair
    <3>. QED
      BY <1>7, <3>2
  <2>3. k + 1 - 1 = k
    OBVIOUS
  <2>. QED
    BY <2>1, <2>2, <2>3 DEF First
<1>14. a \in DOMAIN L /\ L[a] = b
  <2>1. 2 * (k + 1) = 2 * k + 2
    OBVIOUS
  <2>2. a \in DOMAIN L
    BY <1>8, <1>13 DEF First
  <2>3. L[a] = s[2 * (k + 1)]
    BY <1>8, <1>13
  <2>. QED
    BY <1>11, <2>1, <2>2, <2>3
<1>15. ASSUME NEW id \in DOMAIN L PROVE id = a \/ id \in DOMAIN T
  <2>1. PICK i : First(s, id, i)
    BY <1>8
  <2>2. i \in Nat /\ i # 0 /\ 2 * i <= 2 * k + 2 /\ s[2 * i - 1] = id
    BY <1>11, <2>1 DEF First, Pair
  <2>3. CASE i = k + 1
    <3>1. 2 * i - 1 = 2 * k + 1
      BY <2>3
    <3>. QED
      BY <1>11, <2>2, <3>1
  <2>4. CASE i # k + 1
    <3>1. i \in Nat \ {0} /\ 2 * i <= 2 * k /\ 2 * i - 1 \in 1..2 * k
      BY <2>2, <2>4
    <3>2. Pair(w, id, i)
      BY <1>6, <1>11, <2>2, <3>1 DEF Pair
    <3>. QED
      BY <1>7, <3>2
  <2>. QED
    BY <2>3, <2>4
<1>16. DOMAIN L = DOMAIN T \cup {a}
  BY <1>9, <1>14, <1>15
<1>17. L = with(T, a, b)
  <2>1. \A id \in DOMAIN L : L[id] = IF id = a THEN b ELSE T[id]
    BY <1>9, <1>14, <1>15
  <2>. QED
    BY <1>8, <1>16, <2>1 DEF with
<1>. QED
  BY <1>7, <1>8, <1>12, <1>17

-----------------------------------------------------------------------------
(***************************************************************************)
(* Writing.                                                                *)
(***************************************************************************)
\* F has what the first n of these texts make, one after the other.
Joins(F, n, texts) == F[0] = << >> /\ \A m \in 1..n : F[m] = F[m - 1] \o texts[m]

LEMMA FlattenIs ==
  ASSUME NEW texts \in Seq(Seq(Atom))
  PROVE  \E F \in [0..Len(texts) -> Seq(Atom)] :
           Joins(F, Len(texts), texts) /\ FlattenSeq(texts) = F[Len(texts)]
<1> DEFINE N == Len(texts)
           V == Seq(Atom)
           G == [p \in (1..N) \X V |-> p[2] \o texts[p[1]]]
           Def(f) == f = [i \in 1..N |-> IF i = 1 THEN texts[i] ELSE f[i - 1] \o texts[i]]
           h == CHOOSE f : Def(f)
<1>0. FlattenSeq(texts) = IF N = 0 THEN texts ELSE h[N]
  BY Zenon DEF FlattenSeq
<1>1. N \in Nat /\ N = Len(texts) /\ (N = 0 => texts = << >>)
  BY LenProperties, EmptySeq
<1>2. \A m \in 1..N : texts[m] \in V
  BY ElementOfSeq
<1> HIDE DEF N
<1>3. G \in [(1..N) \X V -> V]
  BY <1>2, ConcatProperties
<1>4. << >> \in V
  OBVIOUS
<1>5. \A m \in 1..N, x \in V : G[<<m, x>>] = x \o texts[m]
  OBVIOUS
<1> HIDE DEF G, V
<1>6. PICK F \in [0..N -> V] : Steps(F, N, << >>, G)
  BY <1>1, <1>3, <1>4, Computed
<1>7. Joins(F, N, texts)
  <2>1. F[0] = << >>
    BY <1>6 DEF Steps
  <2>2. ASSUME NEW m \in 1..N PROVE F[m] = F[m - 1] \o texts[m]
    <3>1. m - 1 \in 0..N
      BY <1>1
    <3>2. F[m - 1] \in V
      BY <3>1
    <3>3. F[m] = G[<<m, F[m - 1]>>]
      BY <1>6 DEF Steps
    <3>. QED
      BY <1>5, <3>2, <3>3
  <2>. QED
    BY <2>1, <2>2 DEF Joins
<1>8. N # 0 => h[N] = F[N]
  <2> SUFFICES ASSUME N # 0 PROVE h[N] = F[N]
    OBVIOUS
  <2>1. F[1] = texts[1]
    <3>1. 1 \in 1..N /\ 1 - 1 = 0
      BY <1>1
    <3>2. F[1] = << >> \o texts[1]
      BY <1>7, <3>1 DEF Joins
    <3>. QED
      BY <1>2, <3>1, <3>2, ConcatEmptySeq DEF V
  <2>2. \E f : Def(f)
    <3> DEFINE f == [i \in 1..N |-> F[i]]
    <3>1. \A i \in 1..N : F[i] = IF i = 1 THEN texts[i] ELSE f[i - 1] \o texts[i]
      <4> TAKE i \in 1..N
      <4>1. CASE i = 1
        BY <2>1, <4>1
      <4>2. CASE i # 1
        <5>1. i - 1 \in 1..N
          BY <1>1, <4>2
        <5>2. F[i] = F[i - 1] \o texts[i]
          BY <1>7 DEF Joins
        <5>. QED
          BY <4>2, <5>1, <5>2
      <4>. QED
        BY <4>1, <4>2
    <3>2. f = [i \in 1..N |-> IF i = 1 THEN texts[i] ELSE f[i - 1] \o texts[i]]
      BY <3>1
    <3> HIDE DEF f
    <3>. QED
      BY <3>2
  <2>3. Def(h)
    BY <2>2, Zenon
  <2> HIDE DEF h
  <2>4. \A i \in 1..N : h[i] = IF i = 1 THEN texts[i] ELSE h[i - 1] \o texts[i]
    BY <2>3
  <2> DEFINE T == {i \in 0..N : i # 0 => h[i] = F[i]}
  <2>5. 0 \in T
    BY <1>1
  <2>6. ASSUME NEW i \in 1..N, i - 1 \in T PROVE i \in T
    <3>1. CASE i = 1
      BY <1>1, <2>1, <2>4, <3>1
    <3>2. CASE i # 1
      <4>1. i - 1 # 0 /\ i \in 0..N
        BY <1>1, <3>2
      <4>2. h[i - 1] = F[i - 1]
        BY <2>6, <4>1
      <4>3. h[i] = h[i - 1] \o texts[i]
        BY <2>4, <3>2
      <4>4. F[i] = F[i - 1] \o texts[i]
        BY <1>7 DEF Joins
      <4>. QED
        BY <4>1, <4>2, <4>3, <4>4
    <3>. QED
      BY <3>1, <3>2
  <2> HIDE DEF T
  <2>7. \A i \in 0..N : i \in T
    BY <1>1, <2>5, <2>6, Upwards
  <2>8. N \in 0..N
    BY <1>1
  <2>9. N \in T
    BY <2>7, <2>8
  <2>. QED
    BY <2>9 DEF T
<1>9. FlattenSeq(texts) = F[N]
  BY <1>0, <1>1, <1>7, <1>8 DEF Joins
<1>. QED
  BY <1>1, <1>6, <1>7, <1>9 DEF V

LEMMA FlattenAppend ==
  ASSUME NEW texts \in Seq(Seq(Atom)), NEW e \in Seq(Atom)
  PROVE  /\ FlattenSeq(texts) \in Seq(Atom)
         /\ FlattenSeq(Append(texts, e)) = FlattenSeq(texts) \o e
<1> PICK n \in Nat : n = Len(texts)
  BY LenProperties
<1> PICK s \in Seq(Seq(Atom)) : s = Append(texts, e)
  BY AppendProperties
<1>1. Len(s) = n + 1 /\ s[n + 1] = e /\ \A i \in 1..n : s[i] = texts[i]
  BY AppendProperties
<1>2. PICK F \in [0..n -> Seq(Atom)] : Joins(F, n, texts) /\ FlattenSeq(texts) = F[n]
  BY FlattenIs
<1>3. PICK H \in [0..n + 1 -> Seq(Atom)] : Joins(H, n + 1, s) /\ FlattenSeq(s) = H[n + 1]
  BY <1>1, FlattenIs
<1> DEFINE T == {i \in 0..n : H[i] = F[i]}
<1>4. 0 \in T
  BY <1>2, <1>3 DEF Joins
<1>5. ASSUME NEW i \in 1..n, i - 1 \in T PROVE i \in T
  <2>1. i \in 1..n + 1 /\ i \in 0..n
    OBVIOUS
  <2>2. H[i] = H[i - 1] \o s[i]
    BY <1>3, <2>1 DEF Joins
  <2>3. F[i] = F[i - 1] \o texts[i]
    BY <1>2 DEF Joins
  <2>4. H[i - 1] = F[i - 1] /\ s[i] = texts[i]
    BY <1>1, <1>5
  <2>. QED
    BY <2>1, <2>2, <2>3, <2>4
<1>6. n \in T
  <2> HIDE DEF T
  <2>1. \A i \in 0..n : i \in T
    BY <1>4, <1>5, Upwards
  <2>2. n \in 0..n
    OBVIOUS
  <2>. QED
    BY <2>1, <2>2
<1>7. H[n + 1] = H[n] \o s[n + 1]
  <2>1. \A m \in 1..n + 1 : H[m] = H[m - 1] \o s[m]
    BY <1>3 DEF Joins
  <2> PICK l \in 1..n + 1 : l = n + 1
    OBVIOUS
  <2>2. H[l] = H[l - 1] \o s[l]
    BY <2>1, Zenon
  <2>3. l - 1 = n
    OBVIOUS
  <2>. QED
    BY <2>2, <2>3
<1>8. n \in 0..n
  OBVIOUS
<1>9. F[n] \in Seq(Atom)
  BY <1>8
<1>. QED
  BY <1>1, <1>2, <1>3, <1>6, <1>7, <1>9

LEMMA LinesAppend ==
  ASSUME NEW order \in Seq(Word), NEW table, \A i \in 1..Len(order) : table[order[i]] \in Word,
         NEW e \in Word, table[e] \in Word
  PROVE  /\ Lines(order, table) \in Seq(Atom)
         /\ Lines(Append(order, e), table) = Lines(order, table) \o Line(e, table[e])
<1> PICK n \in Nat : n = Len(order)
  BY LenProperties
<1> PICK longer \in Seq(Word) : longer = Append(order, e)
  BY AppendProperties
<1> DEFINE texts == [k \in DOMAIN order |-> Line(order[k], table[order[k]])]
           texts1 == [k \in DOMAIN longer |-> Line(longer[k], table[longer[k]])]
<1>1. Len(longer) = n + 1 /\ longer[n + 1] = e /\ \A i \in 1..n : longer[i] = order[i]
  BY AppendProperties
<1>2. DOMAIN order = 1..n /\ DOMAIN longer = 1..n + 1
  BY <1>1, LenProperties
<1>3. \A i \in 1..n : order[i] \in Word
  BY ElementOfSeq
<1>4. Line(e, table[e]) \in Seq(Atom) /\ \A i \in 1..n : Line(order[i], table[order[i]]) \in Seq(Atom)
  BY <1>3, LineRead
<1> PICK line \in Seq(Atom) : line = Line(e, table[e])
  BY <1>4
<1>5. texts \in Seq(Seq(Atom)) /\ Len(texts) = n
      /\ \A i \in 1..n : texts[i] = Line(order[i], table[order[i]])
  <2>1. texts \in [1..n -> Seq(Atom)]
    BY <1>2, <1>4
  <2>. QED
    BY <1>2, <2>1, IsASeq, LenProperties
<1>6. \A i \in 1..n + 1 : i \in 1..n \/ i = n + 1
  OBVIOUS
<1>7. texts1 \in Seq(Seq(Atom)) /\ Len(texts1) = n + 1
      /\ \A i \in 1..n + 1 : texts1[i] = Line(longer[i], table[longer[i]])
  <2>1. \A i \in 1..n + 1 : Line(longer[i], table[longer[i]]) \in Seq(Atom)
    BY <1>1, <1>4, <1>6
  <2>2. texts1 \in [1..n + 1 -> Seq(Atom)]
    BY <1>2, <2>1
  <2>3. n + 1 \in Nat
    OBVIOUS
  <2>. QED
    BY <1>2, <2>2, <2>3, IsASeq, LenProperties
<1>8. Lines(order, table) = FlattenSeq(texts) /\ Lines(longer, table) = FlattenSeq(texts1)
  BY DEF Lines
<1> HIDE DEF texts, texts1
<1>9. Append(texts, line) \in Seq(Seq(Atom)) /\ Len(Append(texts, line)) = n + 1
      /\ Append(texts, line)[n + 1] = line /\ \A i \in 1..n : Append(texts, line)[i] = texts[i]
  BY <1>5, AppendProperties
<1>10. texts1 = Append(texts, line)
  <2>1. \A i \in 1..n + 1 : texts1[i] = Append(texts, line)[i]
    BY <1>1, <1>5, <1>6, <1>7, <1>9
  <2>. QED
    BY <1>7, <1>9, <2>1, SeqEqual
<1>11. FlattenSeq(texts) \in Seq(Atom) /\ FlattenSeq(Append(texts, line)) = FlattenSeq(texts) \o line
  BY <1>5, FlattenAppend
<1>. QED
  BY <1>8, <1>10, <1>11

LEMMA LinesNone ==
  ASSUME NEW table
  PROVE  Lines(<< >>, table) = << >>
<1> DEFINE texts == [k \in DOMAIN << >> |-> Line(<< >>[k], table[<< >>[k]])]
<1>1. texts = << >>
  OBVIOUS
<1>2. << >> \in Seq(Seq(Atom)) /\ Len(<< >>) = 0
  OBVIOUS
<1>3. FlattenSeq(<< >>) = << >>
  BY <1>2 DEF FlattenSeq
<1>. QED
  BY <1>1, <1>3 DEF Lines

LEMMA LoadNone == Whole(<< >>) /\ DOMAIN load(<< >>) = {}
<1>1. << >> \in Seq(Atom) /\ Closed(<< >>) /\ Words(<< >>) = << >>
  BY WordsEmpty
<1>2. Len(Words(<< >>)) = 2 * 0
  BY <1>1
<1>3. \A id \in DOMAIN load(<< >>) : \E i : First(Words(<< >>), id, i)
  BY <1>1, LoadIs
<1>4. ASSUME NEW id, NEW i, First(Words(<< >>), id, i) PROVE FALSE
  BY <1>2, <1>4 DEF First, Pair
<1>. QED
  BY <1>1, <1>2, <1>3, <1>4 DEF Whole

\* What is written of the first k accounts in this order is what a load reads.
LEMMA LoadLines ==
  ASSUME NEW order \in Seq(Word), NEW table, \A i \in 1..Len(order) : table[order[i]] \in Word,
         \A i, j \in 1..Len(order) : i # j => order[i] # order[j],
         NEW k \in 0..Len(order)
  PROVE  /\ Whole(Lines(SubSeq(order, 1, k), table))
         /\ load(Lines(SubSeq(order, 1, k), table))
              = [w \in {order[i] : i \in 1..k} |-> table[w]]
<1> PICK n \in Nat : n = Len(order)
  BY LenProperties
<1> DEFINE part(m) == Lines(SubSeq(order, 1, m), table)
           these(m) == [w \in {order[i] : i \in 1..m} |-> table[w]]
           T == {m \in 0..n : Whole(part(m)) /\ load(part(m)) = these(m)}
<1>1. \A i \in 1..n : order[i] \in Word
  BY ElementOfSeq
<1>2. 0 \in T
  <2>1. SubSeq(order, 1, 0) = << >>
    BY SubSeqEmpty
  <2>2. part(0) = << >>
    BY <2>1, LinesNone
  <2>3. Whole(part(0)) /\ DOMAIN load(part(0)) = {} /\ << >> \in Seq(Atom)
    BY <2>2, LoadNone, WordsEmpty
  <2>4. load(part(0)) \in [DOMAIN load(part(0)) -> Word]
    BY <2>2, <2>3, LoadIs
  <2>5. load(part(0)) = these(0)
    BY <2>3, <2>4
  <2>. QED
    BY <2>3, <2>5
<1>3. ASSUME NEW m \in 1..n, m - 1 \in T PROVE m \in T
  <2> PICK e \in Word : e = order[m]
    BY <1>1
  <2>1. SubSeq(order, 1, m - 1) \in Seq(Word) /\ Len(SubSeq(order, 1, m - 1)) = m - 1
        /\ \A i \in 1..m - 1 : SubSeq(order, 1, m - 1)[i] = order[i]
    <3>1. m - 1 \in Int /\ 1 \in Int /\ m - 1 >= 0 /\ m - 1 - 1 + 1 = m - 1
      OBVIOUS
    <3>2. \A i \in 1..m - 1 : order[i] \in Word /\ 1 + i - 1 = i
      BY <1>1
    <3>. QED
      BY <3>1, <3>2, SubSeqProperties
  <2> PICK before \in Seq(Word) : before = SubSeq(order, 1, m - 1)
    BY <2>1
  <2>2. SubSeq(order, 1, m) = Append(before, e)
    BY SubSeqRecursiveSecond
  <2>3. table[e] \in Word /\ \A i \in 1..Len(before) : table[before[i]] \in Word
    BY <2>1
  <2>4. part(m - 1) \in Seq(Atom) /\ part(m) = part(m - 1) \o Line(e, table[e])
    BY <2>2, <2>3, LinesAppend
  <2>5. Whole(part(m - 1)) /\ load(part(m - 1)) = these(m - 1)
    BY <1>3
  <2>6. e \notin DOMAIN these(m - 1)
    OBVIOUS
  <2> HIDE DEF part
  <2>7. Whole(part(m)) /\ load(part(m)) = with(these(m - 1), e, table[e])
    BY <2>3, <2>4, <2>5, <2>6, LoadLine
  <2>8. with(these(m - 1), e, table[e]) = these(m)
    <3>1. {order[i] : i \in 1..m} = {order[i] : i \in 1..m - 1} \cup {e}
      <4>1. \A i : i \in 1..m <=> i \in 1..m - 1 \/ i = m
        OBVIOUS
      <4>. QED
        BY <4>1
    <3>. QED
      BY <3>1 DEF with
  <2>9. m \in 0..n
    OBVIOUS
  <2> HIDE DEF these
  <2>. QED
    BY <2>7, <2>8, <2>9
<1>4. k \in T
  <2> HIDE DEF T
  <2>1. \A m \in 0..n : m \in T
    BY <1>2, <1>3, Upwards
  <2>. QED
    BY <2>1
<1>. QED
  BY <1>4

LEMMA OrderIs ==
  ASSUME NEW S, IsFiniteSet(S), NEW order \in SetToSeqs(S)
  PROVE  /\ order \in Seq(S) /\ DOMAIN order = 1..Len(order)
         /\ \A i, j \in 1..Len(order) : i # j => order[i] # order[j]
         /\ S = {order[i] : i \in 1..Len(order)}
<1> DEFINE n == Cardinality(S)
<1>1. n \in Nat
  BY FS_CardinalityType
<1>2. order \in [1..n -> S] /\ \A i, j \in 1..n : i # j => order[i] # order[j]
  BY DEF SetToSeqs
<1>3. order \in Injection(1..n, S)
  BY <1>2 DEF Injection, IsInjective
<1>4. Cardinality(1..n) = n
  BY <1>1, FS_Interval
<1>5. order \in Surjection(1..n, S)
  BY <1>3, <1>4, FS_Injection
<1> HIDE DEF n
<1>6. order \in Seq(S) /\ Len(order) = n
  BY <1>1, <1>2, IsASeq, LenProperties
<1>7. S = {order[i] : i \in 1..n}
  BY <1>2, <1>5 DEF Surjection
<1>. QED
  BY <1>2, <1>6, <1>7

\* A table with all its accounts written, in any order.
IsTable(T) == T \in [DOMAIN T -> Word] /\ DOMAIN T \subseteq Word /\ IsFiniteSet(DOMAIN T)

\* What S has, T has too.
Within(S, T) == \A w \in DOMAIN S : w \in DOMAIN T /\ T[w] = S[w]

LEMMA LoadWritten ==
  ASSUME NEW T, IsTable(T), NEW order \in SetToSeqs(DOMAIN T)
  PROVE  /\ Whole(Lines(order, T)) /\ load(Lines(order, T)) = T
         /\ Len(order) \in Nat /\ DOMAIN order = 1..Len(order)
         /\ \A k \in 1..Len(order) :
              /\ order[k] \in DOMAIN T
              /\ Whole(Lines(SubSeq(order, 1, k - 1), T))
              /\ Within(load(Lines(SubSeq(order, 1, k - 1), T)), T)
              /\ Line(order[k], T[order[k]]) \in Seq(Atom)
              /\ Whole(Lines(SubSeq(order, 1, k - 1), T) \o Line(order[k], T[order[k]]))
              /\ Within(load(Lines(SubSeq(order, 1, k - 1), T) \o Line(order[k], T[order[k]])), T)
              /\ k = Len(order) =>
                   Lines(order, T) = Lines(SubSeq(order, 1, k - 1), T) \o Line(order[k], T[order[k]])
<1>1. /\ order \in Seq(DOMAIN T) /\ DOMAIN order = 1..Len(order)
      /\ \A i, j \in 1..Len(order) : i # j => order[i] # order[j]
      /\ DOMAIN T = {order[i] : i \in 1..Len(order)}
  BY OrderIs DEF IsTable
<1>2. order \in Seq(Word)
  BY <1>1, SeqMonotonic DEF IsTable
<1> PICK n \in Nat : n = Len(order)
  BY <1>2, LenProperties
<1>3. \A i \in 1..n : order[i] \in DOMAIN T /\ order[i] \in Word /\ T[order[i]] \in Word
  BY <1>1 DEF IsTable
<1>4. SubSeq(order, 1, n) = order
  BY <1>2, SubSeqFull
<1>5. \A k \in 0..n :
        /\ Whole(Lines(SubSeq(order, 1, k), T))
        /\ load(Lines(SubSeq(order, 1, k), T)) = [w \in {order[i] : i \in 1..k} |-> T[w]]
  BY <1>1, <1>2, <1>3, LoadLines
<1>6. Whole(Lines(order, T)) /\ load(Lines(order, T)) = T
  <2>1. n \in 0..n
    OBVIOUS
  <2>2. Whole(Lines(order, T))
        /\ load(Lines(order, T)) = [w \in {order[i] : i \in 1..n} |-> T[w]]
    BY <1>4, <1>5, <2>1
  <2>3. T = [w \in {order[i] : i \in 1..n} |-> T[w]]
    BY <1>1 DEF IsTable
  <2>. QED
    BY <2>2, <2>3
<1>7. ASSUME NEW k \in 0..n
      PROVE  /\ Whole(Lines(SubSeq(order, 1, k), T))
             /\ Within(load(Lines(SubSeq(order, 1, k), T)), T)
  <2> PICK l : l = load(Lines(SubSeq(order, 1, k), T))
    OBVIOUS
  <2>1. l = [w \in {order[i] : i \in 1..k} |-> T[w]]
    BY <1>5
  <2>2. \A i \in 1..k : order[i] \in DOMAIN T
    BY <1>3
  <2>3. Within(l, T)
    BY <2>1, <2>2 DEF Within
  <2>. QED
    BY <1>5, <2>3
<1>8. ASSUME NEW k \in 1..n
      PROVE  /\ Whole(Lines(SubSeq(order, 1, k - 1), T))
             /\ Within(load(Lines(SubSeq(order, 1, k - 1), T)), T)
             /\ Line(order[k], T[order[k]]) \in Seq(Atom)
             /\ Whole(Lines(SubSeq(order, 1, k - 1), T) \o Line(order[k], T[order[k]]))
             /\ Within(load(Lines(SubSeq(order, 1, k - 1), T) \o Line(order[k], T[order[k]])), T)
             /\ k = n =>
                  Lines(order, T) = Lines(SubSeq(order, 1, k - 1), T) \o Line(order[k], T[order[k]])
  <2> PICK e \in Word : e = order[k]
    BY <1>3
  <2>1. SubSeq(order, 1, k - 1) \in Seq(Word) /\ Len(SubSeq(order, 1, k - 1)) = k - 1
        /\ \A i \in 1..k - 1 : SubSeq(order, 1, k - 1)[i] = order[i]
    <3>1. k - 1 \in Int /\ 1 \in Int /\ k - 1 >= 0 /\ k - 1 - 1 + 1 = k - 1
      OBVIOUS
    <3>2. \A i \in 1..k - 1 : order[i] \in Word /\ 1 + i - 1 = i
      BY <1>3
    <3>. QED
      BY <3>1, <3>2, SubSeqProperties
  <2> PICK before \in Seq(Word) : before = SubSeq(order, 1, k - 1)
    BY <2>1
  <2>2. SubSeq(order, 1, k) = Append(before, e)
    BY <1>2, SubSeqRecursiveSecond
  <2>3. T[e] \in Word /\ \A i \in 1..Len(before) : T[before[i]] \in Word
    BY <1>3, <2>1
  <2>4. Lines(before, T) \in Seq(Atom)
        /\ Lines(Append(before, e), T) = Lines(before, T) \o Line(e, T[e])
    BY <2>3, LinesAppend
  <2>5. Line(e, T[e]) \in Seq(Atom)
    BY <2>3, LineRead
  <2>6. k - 1 \in 0..n /\ k \in 0..n
    OBVIOUS
  <2>7. /\ Whole(Lines(before, T)) /\ Within(load(Lines(before, T)), T)
        /\ Whole(Lines(Append(before, e), T)) /\ Within(load(Lines(Append(before, e), T)), T)
    BY <1>7, <2>2, <2>6
  <2>8. k = n => Lines(order, T) = Lines(before, T) \o Line(e, T[e])
    BY <1>4, <2>2, <2>4
  <2>. QED
    BY <2>4, <2>5, <2>7, <2>8
<1>. QED
  BY <1>1, <1>3, <1>6, <1>8

\* What is left of a write that is cut.
LEMMA CutIs ==
  ASSUME NEW line \in Seq(Atom), NEW c \in Cut(line)
  PROVE  c \in Seq(Atom)
<1> PICK n \in Nat : n = Len(line)
  BY LenProperties
<1>1. \A i \in 1..n : line[i] \in Atom
  BY ElementOfSeq
<1>2. \A k \in 0..n : SubSeq(line, 1, k) \in Seq(Atom)
  <2> TAKE k \in 0..n
  <2>1. \A i \in 1..k : line[i] \in Atom
    BY <1>1
  <2>2. 1 \in Int /\ k \in Int
    OBVIOUS
  <2>. QED
    BY <2>1, <2>2, SubSeqProperties
<1>3. CASE \E k \in 0..(n - 1) : c = SubSeq(line, 1, k)
  <2>1. \A k \in 0..(n - 1) : k \in 0..n
    OBVIOUS
  <2>. QED
    BY <1>2, <1>3, <2>1
<1>4. CASE \E k \in 1..n : c = Append(SubSeq(line, 1, k - 1), PART)
  <2>1. \A k \in 1..n : k - 1 \in 0..n
    OBVIOUS
  <2>2. PART \in Atom
    BY DEF Atom, Letter
  <2>3. PICK k \in 1..n : c = Append(SubSeq(line, 1, k - 1), PART)
    BY <1>4
  <2>4. SubSeq(line, 1, k - 1) \in Seq(Atom)
    BY <1>2, <2>1
  <2>. QED
    BY <2>2, <2>3, <2>4, AppendProperties
<1>. QED
  BY <1>3, <1>4 DEF Cut

-----------------------------------------------------------------------------
(***************************************************************************)
(* What the operations keep, of a text, a table and promises.  The text    *)
(* begins with p, which has whole lines only, and it is p that is read     *)
(* first, whatever follows.                                                *)
(***************************************************************************)
Clean(T, P) == \A r \in P : r.clean => <<r.id>> \in DOMAIN T /\ T[<<r.id>>] = <<r.pwd>>

Promises == SUBSET [id : Uid, pwd : Pwd, clean : BOOLEAN]

Stored(t, p) == t \in Seq(Atom) /\ Whole(p) /\ \E q \in Seq(Atom) : t = p \o q
Loaded(T, p) == IsTable(T) /\ Within(load(p), T)

LEMMA Named ==
  /\ \A id \in Uid : <<id>> \in Word
  /\ \A pwd \in Pwd : <<pwd>> \in Word
<1>1. \A x \in Uid \cup Pwd : x \in Letter
  BY AtomAssumption DEF Letter
<1>. QED
  BY <1>1 DEF Word

\* A promise that is kept in S is kept in T.
LEMMA CleanWithin ==
  ASSUME NEW S, NEW T, Within(S, T), NEW P, Clean(S, P)
  PROVE  Clean(T, P)
BY DEF Within, Clean

\* What is read of a text has what is read of its whole lines.
LEMMA Loads ==
  ASSUME NEW t, NEW p, Stored(t, p)
  PROVE  Loaded(load(t), p)
<1>1. p \in Seq(Atom) /\ Closed(p) /\ t \in Seq(Atom)
  BY DEF Stored, Whole
<1>2. PICK q \in Seq(Atom) : t = p \o q
  BY DEF Stored
<1>3. IsTable(load(t))
  BY <1>1, LoadIs DEF IsTable
<1>4. \A id \in DOMAIN load(p) : id \in DOMAIN load(t) /\ load(t)[id] = load(p)[id]
  BY <1>1, <1>2, LoadKeeps
<1>5. Within(load(p), load(t))
  BY <1>4 DEF Within
<1>. QED
  BY <1>3, <1>5 DEF Loaded

LEMMA WholeStored ==
  ASSUME NEW p, Whole(p)
  PROVE  Stored(p, p)
<1>1. p \in Seq(Atom) /\ << >> \in Seq(Atom)
  BY DEF Whole
<1>2. p = p \o << >>
  BY <1>1, ConcatEmptySeq
<1>. QED
  BY <1>1, <1>2 DEF Stored

Longer(t, c, p) ==
  /\ c = << >> => t \o c = t
  /\ t # p \/ c # << >> => t \o c # p

\* A text grows; with something behind its whole lines it is longer than they.
LEMMA Grows ==
  ASSUME NEW t, NEW p, Stored(t, p), NEW c \in Seq(Atom)
  PROVE  Stored(t \o c, p) /\ Longer(t, c, p)
<1>1. p \in Seq(Atom) /\ t \in Seq(Atom) /\ Whole(p)
  BY DEF Stored, Whole
<1>2. PICK q \in Seq(Atom) : t = p \o q
  BY DEF Stored
<1>3. t \o c = p \o (q \o c) /\ q \o c \in Seq(Atom) /\ t \o c \in Seq(Atom)
  BY <1>1, <1>2, ConcatAssociative, ConcatProperties
<1>4. c = << >> => t \o c = t
  BY <1>1, ConcatEmptySeq
<1>5. ASSUME t # p \/ c # << >> PROVE t \o c # p
  <2>1. q # << >> \/ c # << >>
    BY <1>1, <1>2, <1>5, ConcatEmptySeq
  <2> PICK a \in Nat : a = Len(p)
    BY <1>1, LenProperties
  <2> PICK b \in Nat : b = Len(q)
    BY LenProperties
  <2> PICK d \in Nat : d = Len(c)
    BY LenProperties
  <2>2. b # 0 \/ d # 0
    BY <2>1, EmptySeq
  <2>3. Len(q \o c) = b + d
    BY ConcatProperties
  <2> PICK r \in Seq(Atom) : r = q \o c
    BY <1>3
  <2>4. Len(p \o r) = a + Len(r)
    BY <1>1, ConcatProperties
  <2>5. Len(t \o c) = a + (b + d)
    BY <1>3, <2>3, <2>4
  <2>6. a + (b + d) # a
    BY <2>2
  <2>. QED
    BY <2>5, <2>6
<1>. QED
  BY <1>1, <1>3, <1>4, <1>5 DEF Stored, Longer

\* One more account in a table, and in one it has all of.
LEMMA TableWith ==
  ASSUME NEW T, IsTable(T), NEW a \in Word, NEW b \in Word, a \notin DOMAIN T
  PROVE  /\ IsTable(with(T, a, b))
         /\ a \in DOMAIN with(T, a, b) /\ with(T, a, b)[a] = b
         /\ Within(T, with(T, a, b))
<1> PICK T1 : T1 = with(T, a, b)
  OBVIOUS
<1>1. T1 = [w \in DOMAIN T \cup {a} |-> IF w = a THEN b ELSE T[w]]
  BY DEF with
<1>2. IsFiniteSet(DOMAIN T \cup {a})
  BY FS_AddElement DEF IsTable
<1>3. T1 \in [DOMAIN T \cup {a} -> Word]
  BY <1>1 DEF IsTable
<1>4. DOMAIN T1 = DOMAIN T \cup {a}
  BY <1>1
<1>5. IsTable(T1)
  BY <1>2, <1>3, <1>4 DEF IsTable
<1>6. T1[a] = b /\ Within(T, T1)
  BY <1>1 DEF Within
<1>. QED
  BY <1>4, <1>5, <1>6

LEMMA WithinWith ==
  ASSUME NEW S, NEW T, Within(S, T), NEW a, NEW b
  PROVE  Within(with(S, a, b), with(T, a, b))
<1> PICK S1 : S1 = with(S, a, b)
  OBVIOUS
<1> PICK T1 : T1 = with(T, a, b)
  OBVIOUS
<1>1. S1 = [w \in DOMAIN S \cup {a} |-> IF w = a THEN b ELSE S[w]]
  BY DEF with
<1>2. T1 = [w \in DOMAIN T \cup {a} |-> IF w = a THEN b ELSE T[w]]
  BY DEF with
<1>3. ASSUME NEW w \in DOMAIN S1 PROVE w \in DOMAIN T1 /\ T1[w] = S1[w]
  <2>1. CASE w = a
    BY <1>1, <1>2, <2>1
  <2>2. CASE w # a
    <3>1. w \in DOMAIN S
      BY <1>1, <2>2
    <3>2. w \in DOMAIN T /\ T[w] = S[w]
      BY <3>1 DEF Within
    <3>. QED
      BY <1>1, <1>2, <2>2, <3>1, <3>2
  <2>. QED
    BY <2>1, <2>2
<1>. QED
  BY <1>3 DEF Within

\* An account is appended behind c, which is what is left of a write that failed.
\* The whole lines are one more if nothing was cut, now or before.
Appended(t, p, T, c, id, pwd) ==
  \A t1, p1, T1 :
    /\ t1 = t \o c \o Line(id, pwd)
    /\ p1 = IF p = t /\ c = << >> THEN t1 ELSE p
    /\ T1 = with(T, id, pwd)
    => /\ Stored(t1, p1) /\ Loaded(T1, p1) /\ Within(load(p), load(p1))
       /\ p = t /\ c = << >> => load(p1) = with(load(p), id, pwd)
       /\ ~(p = t /\ c = << >>) => p # t1

LEMMA AppendLine ==
  ASSUME NEW t, NEW p, NEW T, Stored(t, p), Loaded(T, p), NEW c \in Seq(Atom),
         NEW id \in Uid, NEW pwd \in Pwd, <<id>> \notin DOMAIN T
  PROVE  Appended(t, p, T, c, <<id>>, <<pwd>>)
<1> PICK a \in Word : a = <<id>>
  BY Named
<1> PICK b \in Word : b = <<pwd>>
  BY Named
<1> PICK line \in Seq(Atom) : line = Line(a, b)
  BY LineRead
<1>0. t \o c \in Seq(Atom)
  BY ConcatProperties DEF Stored
<1> PICK u \in Seq(Atom) : u = t \o c
  BY <1>0
<1> SUFFICES ASSUME NEW t1, NEW p1, NEW T1,
                    t1 = u \o line,
                    p1 = IF p = t /\ c = << >> THEN t1 ELSE p,
                    T1 = with(T, a, b)
             PROVE  /\ Stored(t1, p1) /\ Loaded(T1, p1) /\ Within(load(p), load(p1))
                    /\ p = t /\ c = << >> => load(p1) = with(load(p), a, b)
                    /\ ~(p = t /\ c = << >>) => p # t1
  BY Zenon DEF Appended
<1>1. Stored(u, p) /\ (c = << >> => u = t) /\ (t # p \/ c # << >> => u # p)
  <2>1. Stored(t \o c, p) /\ Longer(t, c, p)
    BY Grows, Zenon
  <2>. QED
    BY <2>1 DEF Longer
<1>2. Stored(t1, p) /\ (u # p => t1 # p)
  <2>1. Stored(u, p)
    BY <1>1
  <2>2. Stored(u \o line, p) /\ Longer(u, line, p)
    BY <2>1, Grows, Zenon
  <2>3. t1 = u \o line
    OBVIOUS
  <2>. QED
    BY <2>2, <2>3 DEF Longer
<1>3. IsTable(T1) /\ Within(T, T1)
  BY TableWith DEF Loaded
<1>4. CASE p = t /\ c = << >>
  <2>1. t1 = p \o Line(a, b) /\ p1 = t1
    BY <1>1, <1>4
  <2>2. Whole(p) /\ p \in Seq(Atom)
    BY DEF Stored, Whole
  <2>3. a \notin DOMAIN load(p)
    BY DEF Loaded, Within
  <2>4. Whole(p1) /\ load(p1) = with(load(p), a, b)
    <3>1. Whole(p \o Line(a, b)) /\ load(p \o Line(a, b)) = with(load(p), a, b)
      BY <2>2, <2>3, LoadLine, Zenon
    <3>. QED
      BY <2>1, <3>1
  <2>5. Within(with(load(p), a, b), T1)
    BY WithinWith DEF Loaded
  <2>6. IsTable(load(p))
    BY <2>2, LoadIs DEF IsTable
  <2>7. Within(load(p), with(load(p), a, b))
    BY <2>3, <2>6, TableWith
  <2>8. Stored(p1, p1)
    BY <2>4, WholeStored
  <2>. QED
    BY <1>3, <1>4, <2>1, <2>4, <2>5, <2>7, <2>8 DEF Loaded
<1>5. CASE ~(p = t /\ c = << >>)
  <2>1. p1 = p /\ t1 # p
    BY <1>1, <1>2, <1>5
  <2>2. Within(load(p), T1)
    BY <1>3 DEF Loaded, Within
  <2>3. Within(load(p), load(p1))
    BY <2>1 DEF Within
  <2>. QED
    BY <1>2, <1>3, <1>5, <2>1, <2>2, <2>3 DEF Loaded
<1>. QED
  BY <1>4, <1>5

\* A table without one account.
LEMMA TableWithout ==
  ASSUME NEW T, IsTable(T), NEW id \in Uid
  PROVE  LET rest == [w \in DOMAIN T \ {<<id>>} |-> T[w]]
         IN  /\ IsTable(rest)
             /\ \A P : Clean(T, P) => Clean(rest, {r \in P : r.id # id})
<1> PICK rest : rest = [w \in DOMAIN T \ {<<id>>} |-> T[w]]
  OBVIOUS
<1>1. IsFiniteSet(DOMAIN T \ {<<id>>})
  BY FS_RemoveElement DEF IsTable
<1>2. rest \in [DOMAIN T \ {<<id>>} -> Word] /\ DOMAIN rest = DOMAIN T \ {<<id>>}
      /\ \A w \in DOMAIN rest : rest[w] = T[w]
  BY DEF IsTable
<1>3. DOMAIN rest \subseteq Word
  BY <1>2 DEF IsTable
<1>4. IsTable(rest)
  BY <1>1, <1>2, <1>3 DEF IsTable
<1>5. ASSUME NEW P, Clean(T, P) PROVE Clean(rest, {r \in P : r.id # id})
  <2> SUFFICES ASSUME NEW x \in P, x.id # id, x.clean
               PROVE  <<x.id>> \in DOMAIN rest /\ rest[<<x.id>>] = <<x.pwd>>
    BY DEF Clean
  <2>1. <<x.id>> \in DOMAIN T /\ T[<<x.id>>] = <<x.pwd>>
    BY <1>5 DEF Clean
  <2>2. <<x.id>> # <<id>>
    OBVIOUS
  <2>. QED
    BY <1>2, <2>1, <2>2
<1>. QED
  BY <1>4, <1>5

-----------------------------------------------------------------------------

(***************************************************************************)
(* The users of a table.                                                   *)
(***************************************************************************)
LEMMA UsersType ==
  ASSUME NEW T
  PROVE  Users(T) \in AM!Table
<1>1. ASSUME NEW u \in Uid PROVE Users(T)[u] \in Pwd \cup {NoPwd, Garbled}
  <2>1. CASE <<u>> \notin DOMAIN T
    BY <2>1 DEF Users
  <2>2. CASE <<u>> \in DOMAIN T /\ \E pwd \in Pwd : T[<<u>>] = <<pwd>>
    <3>1. PICK pwd \in Pwd : T[<<u>>] = <<pwd>>
      BY <2>2
    <3>2. <<pwd>>[1] = pwd
      OBVIOUS
    <3>3. Users(T)[u] = pwd
      BY <2>2, <3>1, <3>2 DEF Users
    <3>. QED
      BY <3>3
  <2>3. CASE <<u>> \in DOMAIN T /\ ~\E pwd \in Pwd : T[<<u>>] = <<pwd>>
    BY <2>3 DEF Users
  <2>. QED
    BY <2>1, <2>2, <2>3
<1>2. Users(T) = [u \in Uid |-> Users(T)[u]]
  BY DEF Users
<1>. QED
  BY <1>1, <1>2 DEF AM!Table

LEMMA UsersWith ==
  ASSUME NEW T, NEW id \in Uid, NEW pwd \in Pwd, <<id>> \notin DOMAIN T
  PROVE  /\ Users(T)[id] = NoPwd
         /\ Users(with(T, <<id>>, <<pwd>>)) = [Users(T) EXCEPT ![id] = pwd]
<1> PICK T1 : T1 = with(T, <<id>>, <<pwd>>)
  OBVIOUS
<1>1. DOMAIN T1 = DOMAIN T \cup {<<id>>}
      /\ \A w \in DOMAIN T1 : T1[w] = IF w = <<id>> THEN <<pwd>> ELSE T[w]
  BY DEF with
<1>2. <<pwd>>[1] = pwd
  OBVIOUS
<1>3. T1[<<id>>] = <<pwd>> /\ <<id>> \in DOMAIN T1
  BY <1>1
<1>4. ASSUME NEW u \in Uid, u # id
      PROVE  /\ <<u>> \in DOMAIN T1 <=> <<u>> \in DOMAIN T
             /\ <<u>> \in DOMAIN T => T1[<<u>>] = T[<<u>>]
  <2>1. <<u>> # <<id>>
    BY <1>4
  <2>. QED
    BY <1>1, <2>1
<1>5. Users(T1)[id] = pwd
  BY <1>2, <1>3 DEF Users
<1>6. ASSUME NEW u \in Uid, u # id PROVE Users(T1)[u] = Users(T)[u]
  BY <1>4, <1>6 DEF Users
<1>7. Users(T) = [u \in Uid |-> Users(T)[u]] /\ Users(T1) = [u \in Uid |-> Users(T1)[u]]
  BY DEF Users
<1>8. Users(T1) = [Users(T) EXCEPT ![id] = pwd]
  BY <1>5, <1>6, <1>7
<1>9. Users(T)[id] = NoPwd
  BY DEF Users
<1>. QED
  BY <1>8, <1>9

LEMMA UsersWithout ==
  ASSUME NEW T, NEW id \in Uid
  PROVE  /\ Users([w \in DOMAIN T \ {<<id>>} |-> T[w]]) = [Users(T) EXCEPT ![id] = NoPwd]
         /\ <<id>> \in DOMAIN T => Users(T)[id] # NoPwd
<1> PICK rest : rest = [w \in DOMAIN T \ {<<id>>} |-> T[w]]
  OBVIOUS
<1>1. \A u \in Uid : u # id => <<u>> # <<id>>
  OBVIOUS
<1>2. Users(rest)[id] = NoPwd
  BY DEF Users
<1>3. ASSUME NEW u \in Uid, u # id PROVE Users(rest)[u] = Users(T)[u]
  <2>1. /\ <<u>> \in DOMAIN rest <=> <<u>> \in DOMAIN T
        /\ <<u>> \in DOMAIN T => rest[<<u>>] = T[<<u>>]
    BY <1>1, <1>3
  <2>. QED
    BY <2>1 DEF Users
<1>4. Users(T) = [u \in Uid |-> Users(T)[u]] /\ Users(rest) = [u \in Uid |-> Users(rest)[u]]
  BY DEF Users
<1>5. Users(rest) = [Users(T) EXCEPT ![id] = NoPwd]
  BY <1>2, <1>3, <1>4
<1>6. ASSUME <<id>> \in DOMAIN T PROVE Users(T)[id] # NoPwd
  <2>1. CASE \E pwd \in Pwd : T[<<id>>] = <<pwd>>
    <3>1. PICK pwd \in Pwd : T[<<id>>] = <<pwd>>
      BY <2>1
    <3>2. <<pwd>>[1] = pwd
      OBVIOUS
    <3>3. Users(T)[id] = pwd
      BY <1>6, <3>1, <3>2 DEF Users
    <3>. QED
      BY <3>3, AtomAssumption
  <2>2. CASE ~\E pwd \in Pwd : T[<<id>>] = <<pwd>>
    <3>1. Users(T)[id] = Garbled
      BY <1>6, <2>2 DEF Users
    <3>. QED
      BY <3>1, AtomAssumption
  <2>. QED
    BY <2>1, <2>2
<1>. QED
  BY <1>5, <1>6

\* What S has of a user T has too.
LEMMA UsersWithin ==
  ASSUME NEW S, NEW T, Within(S, T)
  PROVE  \A u \in Uid : Users(S)[u] # NoPwd => Users(T)[u] = Users(S)[u]
<1> SUFFICES ASSUME NEW u \in Uid, Users(S)[u] # NoPwd PROVE Users(T)[u] = Users(S)[u]
  OBVIOUS
<1>1. <<u>> \in DOMAIN S
  BY DEF Users
<1>2. <<u>> \in DOMAIN T /\ T[<<u>>] = S[<<u>>]
  BY <1>1 DEF Within
<1>. QED
  BY <1>1, <1>2 DEF Users

LEMMA UsersEmpty == Users(Empty) = AM!NoAccounts
  BY DEF Users, Empty, AM!NoAccounts

-----------------------------------------------------------------------------

(***************************************************************************)
(* The inductive invariant.                                                *)
(***************************************************************************)
FileInv ==
  /\ Stored(text, whole) /\ promised \in Promises
  /\ alive \in BOOLEAN
  /\ alive => Loaded(account_table, whole)
  /\ ~alive => account_table = Empty
  /\ ~half => Clean(load(whole), promised)

\* What a step makes of the users in the table and in the file.
Maps == AM!AccountsNext \/ UNCHANGED AM!accountVars

LEMMA FileInit == Init => FileInv
<1> SUFFICES ASSUME Init PROVE FileInv
  OBVIOUS
<1>1. PICK ids \in SUBSET Uid, pwd \in Pwd : \E order \in SetToSeqs(ids) :
        /\ IsFiniteSet(ids)
        /\ text = Lines([k \in DOMAIN order |-> <<order[k]>>],
                        [w \in {<<id>> : id \in ids} |-> <<pwd>>])
        /\ promised = {[id |-> id, pwd |-> pwd, clean |-> TRUE] : id \in ids}
  BY DEF Init
<1>2. PICK order \in SetToSeqs(ids) :
        /\ IsFiniteSet(ids)
        /\ text = Lines([k \in DOMAIN order |-> <<order[k]>>],
                        [w \in {<<id>> : id \in ids} |-> <<pwd>>])
        /\ promised = {[id |-> id, pwd |-> pwd, clean |-> TRUE] : id \in ids}
  BY <1>1
<1> DEFINE T == [w \in {<<id>> : id \in ids} |-> <<pwd>>]
           words == [k \in DOMAIN order |-> <<order[k]>>]
<1> PICK t : t = text
  OBVIOUS
<1> PICK P : P = promised
  OBVIOUS
<1>3. /\ order \in Seq(ids) /\ DOMAIN order = 1..Len(order)
      /\ \A i, j \in 1..Len(order) : i # j => order[i] # order[j]
      /\ ids = {order[i] : i \in 1..Len(order)}
  <2>1. IsFiniteSet(ids)
    BY <1>2
  <2>. QED
    BY <2>1, OrderIs
<1> PICK n \in Nat : n = Len(order)
  BY <1>3, LenProperties
<1>4. \A i \in 1..n : order[i] \in ids /\ <<order[i]>> \in Word
  BY <1>3, Named
<1>5. words \in Seq(Word) /\ Len(words) = n /\ \A i \in 1..n : words[i] = <<order[i]>>
  <2>1. words \in [1..n -> Word]
    BY <1>3, <1>4
  <2>. QED
    BY <1>3, <2>1, IsASeq, LenProperties
<1>6. \A i \in 1..n : T[words[i]] = <<pwd>> /\ <<pwd>> \in Word
  BY <1>4, <1>5, Named
<1>7. \A i, j \in 1..n : i # j => words[i] # words[j]
  BY <1>3, <1>5
<1>8. SubSeq(words, 1, n) = words
  BY <1>5, SubSeqFull
<1>9. Whole(t) /\ load(t) = [w \in {words[i] : i \in 1..n} |-> T[w]]
  <2>1. n \in 0..n /\ t = Lines(words, T)
    BY <1>2
  <2> HIDE DEF words, T
  <2>2. /\ Whole(Lines(SubSeq(words, 1, n), T))
        /\ load(Lines(SubSeq(words, 1, n), T)) = [w \in {words[i] : i \in 1..n} |-> T[w]]
    <3>1. \A i \in 1..Len(words) : T[words[i]] \in Word
      <4>1. \A i \in 1..n : T[words[i]] \in Word
        BY <1>6
      <4>. QED
        BY <1>5, <4>1
    <3>2. \A i, j \in 1..Len(words) : i # j => words[i] # words[j]
      BY <1>5, <1>7
    <3>3. n \in 0..Len(words)
      BY <1>5, <2>1
    <3>. QED
      BY <1>5, <3>1, <3>2, <3>3, LoadLines
  <2>. QED
    BY <1>8, <2>1, <2>2
<1>10. \A w \in DOMAIN load(t) : load(t)[w] = <<pwd>>
  <2> HIDE DEF words, T
  <2> TAKE w \in DOMAIN load(t)
  <2>1. PICK i \in 1..n : w = words[i]
    BY <1>9
  <2>2. load(t)[w] = T[w]
    BY <1>9, <2>1
  <2>. QED
    BY <1>6, <2>1, <2>2
<1>11. \A id \in ids : <<id>> \in DOMAIN load(t)
  <2> TAKE id \in ids
  <2>1. PICK i \in 1..n : id = order[i]
    BY <1>3
  <2>2. <<id>> = words[i]
    BY <1>5, <2>1
  <2>. QED
    BY <1>9, <2>2
<1>12. P \in Promises /\ Clean(load(t), P)
  <2>1. P = {[id |-> id, pwd |-> pwd, clean |-> TRUE] : id \in ids}
    BY <1>2
  <2>2. P \subseteq [id : Uid, pwd : Pwd, clean : BOOLEAN]
    <3> SUFFICES ASSUME NEW r \in P PROVE r \in [id : Uid, pwd : Pwd, clean : BOOLEAN]
      OBVIOUS
    <3>1. PICK id \in ids : r = [id |-> id, pwd |-> pwd, clean |-> TRUE]
      BY <2>1
    <3>. QED
      BY <3>1
  <2>3. \A r \in P : r.id \in ids /\ r.pwd = pwd
    BY <2>1
  <2>4. Clean(load(t), P)
    BY <1>10, <1>11, <2>3 DEF Clean
  <2>. QED
    BY <2>2, <2>4 DEF Promises
<1>13. Stored(t, t) /\ Loaded(load(t), t)
  BY <1>9, WholeStored, Loads
<1>14. alive = TRUE /\ account_table = load(text) /\ whole = text
  BY DEF Init
<1>. QED
  BY <1>12, <1>13, <1>14 DEF FileInv

LEMMA InsertStep ==
  ASSUME FileInv, NEW id \in Uid, NEW pwd \in Pwd, insert(id, pwd)
  PROVE  FileInv' /\ Maps
<1> PICK t : t = text
  OBVIOUS
<1> PICK p : p = whole
  OBVIOUS
<1> PICK T : T = account_table
  OBVIOUS
<1> PICK P : P = promised
  OBVIOUS
<1> PICK t1 : t1 = text'
  OBVIOUS
<1> PICK p1 : p1 = whole'
  OBVIOUS
<1> PICK T1 : T1 = account_table'
  OBVIOUS
<1> PICK P1 : P1 = promised'
  OBVIOUS
<1> DEFINE line == Line(<<id>>, <<pwd>>)
           T2 == with(T, <<id>>, <<pwd>>)
           r == [id |-> id, pwd |-> pwd, clean |-> p = t]
<1>1. /\ alive /\ alive \in BOOLEAN /\ Stored(t, p) /\ Loaded(T, p) /\ P \in Promises
      /\ <<id>> \notin DOMAIN T
  BY DEF FileInv, insert, bounded, isExist
<1>2. line \in Seq(Atom) /\ t \in Seq(Atom)
  BY <1>1, Named, LineRead DEF Stored
<1>3. ~half => Clean(load(p), P)
  BY DEF FileInv
<1>4. half' = half
  BY DEF insert
<1>5. \/ t1 = t \o line /\ T1 = T2 /\ P1 = P \cup {r} /\ alive' = alive
         /\ p1 = IF p = t /\ << >> = << >> THEN t1 ELSE p
      \/ \E c \in Cut(line) :
           /\ t1 = t \o c \o line /\ T1 = T2 /\ P1 = P /\ alive' = alive
           /\ p1 = IF p = t /\ c = << >> THEN t1 ELSE p
      \/ \E c \in Cut(line) :
           t1 = t \o c /\ p1 = p /\ T1 = Empty /\ P1 = P /\ alive' = FALSE
  BY DEF insert, grow, Stop
<1> HIDE DEF line, T2, r
\* A line that reaches the file, behind the remains of a failed one or not.
<1>6. ASSUME NEW c \in Seq(Atom), t1 = t \o c \o line, T1 = T2, alive' = alive,
             p1 = IF p = t /\ c = << >> THEN t1 ELSE p,
             P1 = P \/ (P1 = P \cup {r} /\ c = << >>)
      PROVE  FileInv' /\ Maps
  <2>1. /\ Stored(t1, p1) /\ Loaded(T1, p1) /\ Within(load(p), load(p1))
        /\ p = t /\ c = << >> => load(p1) = with(load(p), <<id>>, <<pwd>>)
        /\ ~(p = t /\ c = << >>) => p # t1
    <3>1. Appended(t, p, T, c, <<id>>, <<pwd>>)
      <4>1. Stored(t, p) /\ Loaded(T, p) /\ <<id>> \notin DOMAIN T
        BY <1>1
      <4>. QED
        BY <4>1, AppendLine, Zenon
    <3>2. t1 = t \o c \o Line(<<id>>, <<pwd>>) /\ T1 = with(T, <<id>>, <<pwd>>)
      BY <1>6 DEF line, T2
    <3>. QED
      BY <1>6, <3>1, <3>2, Zenon DEF Appended
  <2>2. P1 \in Promises
    <3>1. r \in [id : Uid, pwd : Pwd, clean : BOOLEAN]
      BY DEF r
    <3>. QED
      BY <1>1, <1>6, <3>1 DEF Promises
  <2>3. ASSUME ~half PROVE Clean(load(p1), P1)
    <3>1. Clean(load(p1), P)
      BY <1>3, <2>1, <2>3, CleanWithin
    <3>2. CASE P1 = P
      BY <3>1, <3>2
    <3>3. CASE P1 = P \cup {r} /\ c = << >>
      <4>1. r.id = id /\ r.pwd = pwd /\ (r.clean <=> p = t)
        BY DEF r
      <4>2. ASSUME r.clean PROVE <<id>> \in DOMAIN load(p1) /\ load(p1)[<<id>>] = <<pwd>>
        <5>1. load(p1) = with(load(p), <<id>>, <<pwd>>)
          BY <2>1, <3>3, <4>1, <4>2
        <5>2. load(p1) = [w \in DOMAIN load(p) \cup {<<id>>} |->
                            IF w = <<id>> THEN <<pwd>> ELSE load(p)[w]]
          BY <5>1 DEF with
        <5>. QED
          BY <5>2
      <4>. QED
        BY <3>1, <3>3, <4>1, <4>2 DEF Clean
    <3>. QED
      BY <1>6, <3>2, <3>3
  <2>4. FileInv'
    BY <1>1, <1>4, <1>6, <2>1, <2>2, <2>3 DEF FileInv
  <2>5. Users(T)[id] = NoPwd /\ Users(T1) = [Users(T) EXCEPT ![id] = pwd]
    BY <1>1, <1>6, UsersWith DEF T2
  <2>6. ~AM!isExist(id)
    BY <2>5 DEF AM!isExist
  <2>7. Users(account_table') = [Users(account_table) EXCEPT ![id] = pwd]
    BY <2>5
  <2>8. CASE p = t /\ c = << >>
    <3>1. <<id>> \notin DOMAIN load(p)
      BY <1>1 DEF Loaded, Within
    <3>2. Users(load(p1)) = [Users(load(p)) EXCEPT ![id] = pwd]
      <4> PICK S : S = load(p)
        OBVIOUS
      <4>1. load(p1) = with(S, <<id>>, <<pwd>>)
        BY <2>1, <2>8
      <4>2. Users(with(S, <<id>>, <<pwd>>)) = [Users(S) EXCEPT ![id] = pwd]
        BY <3>1, UsersWith
      <4>. QED
        BY <4>1, <4>2
    <3>3. Users(load(whole')) = [Users(load(whole)) EXCEPT ![id] = pwd]
      BY <3>2
    <3>4. whole = text /\ whole' = text'
      BY <1>6, <2>8
    <3>5. AM!Insert(id, pwd)
      BY <2>7, <3>3, <3>4 DEF AM!Insert
    <3>. QED
      BY <2>4, <2>6, <3>5 DEF Maps, AM!AccountsNext
  <2>9. CASE ~(p = t /\ c = << >>)
    <3>1. whole' = whole /\ whole' # text'
      BY <1>6, <2>1, <2>9
    <3>2. AM!InsertCut(id, pwd)
      BY <2>7, <3>1 DEF AM!InsertCut
    <3>. QED
      BY <2>4, <2>6, <3>2 DEF Maps, AM!AccountsNext
  <2>. QED
    BY <2>8, <2>9
<1>7. CASE t1 = t \o line /\ T1 = T2 /\ P1 = P \cup {r} /\ alive' = alive
           /\ p1 = IF p = t /\ << >> = << >> THEN t1 ELSE p
  <2>0. << >> \in Seq(Atom)
    BY WordsEmpty
  <2> PICK c \in Seq(Atom) : c = << >>
    BY <2>0, Zenon
  <2>1. t \o c = t
    BY <1>2, ConcatEmptySeq
  <2>. QED
    BY <1>6, <1>7, <2>1
<1>8. ASSUME NEW c \in Cut(line), t1 = t \o c \o line, T1 = T2, P1 = P, alive' = alive,
             p1 = IF p = t /\ c = << >> THEN t1 ELSE p
      PROVE  FileInv' /\ Maps
  <2>1. c \in Seq(Atom)
    BY <1>2, CutIs
  <2>. QED
    BY <1>6, <1>8, <2>1
\* The process is gone, and part of the line may be in the file.
<1>9. ASSUME NEW c \in Cut(line), t1 = t \o c, p1 = p, T1 = Empty, P1 = P, alive' = FALSE
      PROVE  FileInv' /\ Maps
  <2>1. c \in Seq(Atom)
    BY <1>2, CutIs
  <2>2. Stored(t1, p) /\ (c = << >> => t1 = t) /\ (t # p \/ c # << >> => t1 # p)
    <3>1. Stored(t, p)
      BY <1>1
    <3>2. Stored(t \o c, p) /\ Longer(t, c, p)
      BY <2>1, <3>1, Grows, Zenon
    <3>. QED
      BY <1>9, <3>2 DEF Longer
  <2>3. FileInv'
    BY <1>1, <1>3, <1>4, <1>9, <2>2 DEF FileInv
  <2>4. Users(account_table') = AM!NoAccounts /\ whole' = whole
    BY <1>9, UsersEmpty
  <2>5. CASE t1 # p
    <3>1. whole' # text'
      BY <1>9, <2>5
    <3>2. AM!InsertStopped
      BY <2>4, <3>1 DEF AM!InsertStopped, AM!NoAccounts
    <3>. QED
      BY <2>3, <3>2 DEF Maps, AM!AccountsNext
  <2>6. CASE t1 = p
    <3>1. whole = text /\ whole' = text'
      BY <1>9, <2>2, <2>6
    <3>2. AM!Forget
      BY <2>4, <3>1 DEF AM!Forget, AM!NoAccounts
    <3>. QED
      BY <2>3, <3>2 DEF Maps, AM!AccountsNext
  <2>. QED
    BY <2>5, <2>6
<1>. QED
  BY <1>5, <1>7, <1>8, <1>9

LEMMA RemoveStep ==
  ASSUME FileInv, NEW id \in Uid, remove(id)
  PROVE  FileInv' /\ Maps
<1> PICK T : T = account_table
  OBVIOUS
<1> PICK P : P = promised
  OBVIOUS
<1> PICK p : p = whole
  OBVIOUS
<1> PICK t1 : t1 = text'
  OBVIOUS
<1> PICK p1 : p1 = whole'
  OBVIOUS
<1> PICK T1 : T1 = account_table'
  OBVIOUS
<1> PICK P1 : P1 = promised'
  OBVIOUS
<1> DEFINE rest == [w \in DOMAIN T \ {<<id>>} |-> T[w]]
           P2 == {r \in P : r.id # id}
           before(order, k) == Lines(SubSeq(order, 1, k - 1), rest)
           line(order, k) == Line(order[k], rest[order[k]])
<1>1. alive /\ alive \in BOOLEAN /\ Loaded(T, p) /\ P \in Promises /\ <<id>> \in DOMAIN T
  BY DEF FileInv, remove, bounded, isExist
<1>2. PICK order \in SetToSeqs(DOMAIN rest) :
        \/ /\ t1 = Lines(order, rest) /\ p1 = t1 /\ T1 = rest /\ P1 = P2 /\ alive' = alive
           /\ half' = half
        \/ \E k \in DOMAIN order : \E c \in Cut(line(order, k)) :
             \/ /\ t1 = before(order, k) \o c \o line(order, k)
                /\ T1 = rest /\ P1 = P2 /\ alive' = alive
                /\ p1 = IF c = << >> THEN t1 ELSE before(order, k)
                /\ half' = (half \/ k < Len(order) \/ c # << >>)
             \/ /\ t1 = before(order, k) \o c /\ p1 = before(order, k)
                /\ T1 = Empty /\ P1 = P /\ alive' = FALSE
                /\ half' = TRUE
  <2> DEFINE R == [w \in DOMAIN account_table \ {<<id>>} |-> account_table[w]]
  <2>1. \E order \in SetToSeqs(DOMAIN R) :
          \/ /\ text' = Lines(order, R)
             /\ account_table' = R /\ promised' = {r \in promised : r.id # id}
             /\ whole' = text'
             /\ UNCHANGED <<alive, crashed, half>>
          \/ \E k \in DOMAIN order : \E c \in Cut(Line(order[k], R[order[k]])) :
               \/ /\ text' = Lines(SubSeq(order, 1, k - 1), R) \o c \o Line(order[k], R[order[k]])
                  /\ account_table' = R /\ promised' = {r \in promised : r.id # id}
                  /\ whole' = IF c = << >> THEN text' ELSE Lines(SubSeq(order, 1, k - 1), R)
                  /\ half' = (half \/ k < Len(order) \/ c # << >>)
                  /\ UNCHANGED <<alive, crashed>>
               \/ /\ text' = Lines(SubSeq(order, 1, k - 1), R) \o c
                  /\ whole' = Lines(SubSeq(order, 1, k - 1), R) /\ half' = TRUE /\ Stop
    BY Zenon DEF remove
  <2>2. R = rest
    OBVIOUS
  <2> HIDE DEF rest, R
  <2>3. PICK order \in SetToSeqs(DOMAIN R) :
          \/ /\ text' = Lines(order, R)
             /\ account_table' = R /\ promised' = {r \in promised : r.id # id}
             /\ whole' = text'
             /\ UNCHANGED <<alive, crashed, half>>
          \/ \E k \in DOMAIN order : \E c \in Cut(Line(order[k], R[order[k]])) :
               \/ /\ text' = Lines(SubSeq(order, 1, k - 1), R) \o c \o Line(order[k], R[order[k]])
                  /\ account_table' = R /\ promised' = {r \in promised : r.id # id}
                  /\ whole' = IF c = << >> THEN text' ELSE Lines(SubSeq(order, 1, k - 1), R)
                  /\ half' = (half \/ k < Len(order) \/ c # << >>)
                  /\ UNCHANGED <<alive, crashed>>
               \/ /\ text' = Lines(SubSeq(order, 1, k - 1), R) \o c
                  /\ whole' = Lines(SubSeq(order, 1, k - 1), R) /\ half' = TRUE /\ Stop
    BY <2>1, Zenon
  <2>. QED
    BY <2>2, <2>3 DEF Stop
<1>3. IsTable(rest) /\ (Clean(T, P) => Clean(rest, P2))
  <2>1. LET R == [w \in DOMAIN T \ {<<id>>} |-> T[w]]
        IN  IsTable(R) /\ \A Q : Clean(T, Q) => Clean(R, {r \in Q : r.id # id})
    BY <1>1, TableWithout DEF Loaded
  <2>. QED
    BY <2>1
<1>4. P2 \in Promises
  BY <1>1 DEF Promises
<1>5. Users(rest) = [Users(T) EXCEPT ![id] = NoPwd] /\ Users(T)[id] # NoPwd
  BY <1>1, UsersWithout
<1>6. ~half => Clean(rest, P2)
  <2>1. ~half => Clean(load(p), P)
    BY DEF FileInv
  <2>2. ~half => Clean(T, P)
    BY <1>1, <2>1, CleanWithin DEF Loaded
  <2>. QED
    BY <1>3, <2>2
<1>7. AM!isExist(id)
  BY <1>5 DEF AM!isExist
<1> HIDE DEF rest, P2
<1>8. /\ Whole(Lines(order, rest)) /\ load(Lines(order, rest)) = rest
      /\ DOMAIN order = 1..Len(order) /\ Len(order) \in Nat
      /\ \A k \in 1..Len(order) :
           /\ Whole(before(order, k)) /\ Within(load(before(order, k)), rest)
           /\ line(order, k) \in Seq(Atom)
           /\ Whole(before(order, k) \o line(order, k))
           /\ Within(load(before(order, k) \o line(order, k)), rest)
           /\ k = Len(order) => Lines(order, rest) = before(order, k) \o line(order, k)
  BY <1>3, LoadWritten
<1> HIDE DEF before, line
\* All of it is written.
<1>9. ASSUME t1 = Lines(order, rest), p1 = t1, T1 = rest, P1 = P2, alive' = alive, ~half' => ~half
      PROVE  FileInv' /\ Maps
  <2>1. Stored(t1, p1) /\ load(p1) = rest
    BY <1>8, <1>9, WholeStored
  <2>2. Loaded(T1, p1)
    BY <1>3, <1>9, <2>1 DEF Loaded, Within
  <2>3. ~half' => Clean(load(p1), P1)
    BY <1>6, <1>9, <2>1
  <2>4. FileInv'
    BY <1>1, <1>4, <1>9, <2>1, <2>2, <2>3 DEF FileInv
  <2>5. /\ Users(account_table') = [Users(account_table) EXCEPT ![id] = NoPwd]
        /\ Users(load(whole')) = Users(account_table')
        /\ whole' = text'
    BY <1>5, <1>9, <2>1
  <2>6. AM!Remove(id)
    BY <2>5 DEF AM!Remove
  <2>. QED
    BY <1>7, <2>4, <2>6 DEF Maps, AM!AccountsNext
\* Only some of it is.
<1>10. ASSUME Stored(t1, p1), Within(load(p1), rest), half' = TRUE,
              \/ T1 = rest /\ P1 = P2 /\ alive' = alive
              \/ T1 = Empty /\ P1 = P /\ alive' = FALSE
       PROVE  FileInv' /\ Maps
  <2>1. FileInv'
    <3>1. P1 \in Promises /\ alive' \in BOOLEAN
      BY <1>1, <1>4, <1>10
    <3>2. alive' => Loaded(T1, p1)
      BY <1>3, <1>10 DEF Loaded
    <3>3. ~alive' => T1 = Empty
      BY <1>1, <1>10
    <3>. QED
      BY <1>10, <3>1, <3>2, <3>3 DEF FileInv
  <2>2. Users(T1) \in {Users(rest), AM!NoAccounts}
    BY <1>10, UsersEmpty
  <2>3. Users(load(p1)) \in {f \in AM!Table : \A u \in Uid : f[u] \in {NoPwd, Users(rest)[u]}}
    <3>1. \A u \in Uid : Users(load(p1))[u] # NoPwd => Users(rest)[u] = Users(load(p1))[u]
      BY <1>10, UsersWithin
    <3>2. Users(load(p1)) \in AM!Table
      BY UsersType
    <3>. QED
      BY <3>1, <3>2
  <2> DEFINE R == [Users(account_table) EXCEPT ![id] = NoPwd]
  <2>4. Users(rest) = R
    BY <1>5
  <2>5. Users(account_table') \in {R, AM!NoAccounts}
    BY <2>2, <2>4
  <2>6. Users(load(whole')) \in {f \in AM!Table : \A u \in Uid : f[u] \in {NoPwd, R[u]}}
    BY <2>3, <2>4
  <2>7. (whole' # text') \in BOOLEAN
    OBVIOUS
  <2>8. AM!RemoveCut(id)
    BY <2>5, <2>6, <2>7, Zenon DEF AM!RemoveCut
  <2>. QED
    BY <1>7, <2>1, <2>8 DEF Maps, AM!AccountsNext
<1>11. ASSUME NEW k \in DOMAIN order, NEW c \in Cut(line(order, k)),
              t1 = before(order, k) \o c \o line(order, k), T1 = rest, P1 = P2, alive' = alive,
              p1 = IF c = << >> THEN t1 ELSE before(order, k),
              half' = (half \/ k < Len(order) \/ c # << >>)
       PROVE  FileInv' /\ Maps
  <2>1. k \in 1..Len(order)
    BY <1>8
  <2>2. line(order, k) \in Seq(Atom) /\ before(order, k) \in Seq(Atom)
    BY <1>8, <2>1 DEF Whole
  <2>3. c \in Seq(Atom)
    BY <2>2, CutIs
  <2>4. CASE c = << >>
    <3>1. t1 = before(order, k) \o line(order, k) /\ p1 = t1
      BY <1>11, <2>2, <2>4, ConcatEmptySeq
    <3>2. CASE k = Len(order)
      <4>1. t1 = Lines(order, rest)
        BY <1>8, <2>1, <3>1, <3>2
      <4>2. ~half' => ~half
        BY <1>11
      <4>. QED
        BY <1>9, <1>11, <3>1, <4>1, <4>2
    <3>3. CASE k # Len(order)
      <4>1. k < Len(order)
        <5> PICK n \in Nat : n = Len(order)
          BY <1>8
        <5>1. k \in 1..n /\ k # n
          BY <2>1, <3>3
        <5>2. k < n
          BY <5>1
        <5>. QED
          BY <5>2
      <4>2. Stored(t1, p1) /\ Within(load(p1), rest)
        BY <1>8, <2>1, <3>1, WholeStored
      <4>. QED
        BY <1>10, <1>11, <4>1, <4>2
    <3>. QED
      BY <3>2, <3>3
  <2>5. CASE c # << >>
    <3> PICK b : b = before(order, k)
      OBVIOUS
    <3>1. Whole(b) /\ Within(load(b), rest) /\ p1 = b
      BY <1>8, <1>11, <2>1, <2>5
    <3>2. Stored(b \o c, b)
      BY <2>3, <3>1, WholeStored, Grows
    <3>3. Stored(b \o c \o line(order, k), b)
      BY <2>2, <3>2, Grows
    <3>. QED
      BY <1>10, <1>11, <2>5, <3>1, <3>3
  <2>. QED
    BY <2>4, <2>5
<1>12. ASSUME NEW k \in DOMAIN order, NEW c \in Cut(line(order, k)),
              t1 = before(order, k) \o c, p1 = before(order, k), T1 = Empty, P1 = P,
              alive' = FALSE, half' = TRUE
       PROVE  FileInv' /\ Maps
  <2> PICK b : b = before(order, k)
    OBVIOUS
  <2>1. Whole(b) /\ Within(load(b), rest) /\ line(order, k) \in Seq(Atom)
    BY <1>8
  <2>2. c \in Seq(Atom)
    BY <2>1, CutIs
  <2>3. Stored(b \o c, b)
    BY <2>1, <2>2, WholeStored, Grows
  <2>. QED
    BY <1>10, <1>12, <2>1, <2>3
<1>13. CASE t1 = Lines(order, rest) /\ p1 = t1 /\ T1 = rest /\ P1 = P2 /\ alive' = alive
            /\ half' = half
  BY <1>9, <1>13
<1>. QED
  BY <1>2, <1>11, <1>12, <1>13

LEMMA CrashStep ==
  ASSUME FileInv, Crash
  PROVE  FileInv' /\ Maps
<1>1. /\ account_table' = Empty /\ alive' = FALSE /\ text' = text /\ whole' = whole
      /\ half' = half /\ promised' = promised
  BY DEF Crash, Stop
<1>2. FileInv'
  BY <1>1 DEF FileInv
<1>3. AM!Forget
  <2>1. Users(account_table') = AM!NoAccounts /\ whole' = whole /\ text' = text
    BY <1>1, UsersEmpty
  <2>. QED
    BY <2>1 DEF AM!Forget, AM!NoAccounts
<1>. QED
  BY <1>2, <1>3 DEF Maps, AM!AccountsNext

LEMMA RestartStep ==
  ASSUME FileInv, Restart
  PROVE  FileInv' /\ Maps
<1> PICK t : t = text
  OBVIOUS
<1> PICK p : p = whole
  OBVIOUS
<1>1. /\ account_table' = load(text) /\ alive' = TRUE /\ text' = text /\ whole' = whole
      /\ half' = half /\ promised' = promised
  BY DEF Restart
<1>2. Loaded(load(t), p)
  BY Loads DEF FileInv
<1>3. FileInv'
  BY <1>1, <1>2 DEF FileInv
<1>4. \A u \in Uid : Users(load(p))[u] # NoPwd => Users(load(t))[u] = Users(load(p))[u]
  BY <1>2, UsersWithin DEF Loaded
<1>5. Users(load(t)) \in AM!Table
  BY UsersType
<1>6. Users(account_table') \in {f \in AM!Table :
         \A u \in Uid : Users(load(whole))[u] # NoPwd => f[u] = Users(load(whole))[u]}
  BY <1>1, <1>4, <1>5
<1>7. whole = text => Users(account_table') = Users(load(whole))
  BY <1>1
<1>8. AM!Load
  BY <1>1, <1>6, <1>7, Zenon DEF AM!Load
<1>. QED
  BY <1>3, <1>8 DEF Maps, AM!AccountsNext

LEMMA FileStep == FileInv /\ [Next]_fileVars => FileInv' /\ Maps
<1> SUFFICES ASSUME FileInv, [Next]_fileVars PROVE FileInv' /\ Maps
  OBVIOUS
<1>1. CASE \E id \in Uid, pwd \in Pwd : insert(id, pwd)
  BY <1>1, InsertStep
<1>2. CASE \E id \in Uid : remove(id)
  BY <1>2, RemoveStep
<1>3. CASE Crash
  BY <1>3, CrashStep
<1>4. CASE Restart
  BY <1>4, RestartStep
<1>5. CASE UNCHANGED fileVars
  <2>1. text' = text /\ account_table' = account_table /\ alive' = alive
        /\ promised' = promised /\ whole' = whole /\ half' = half
    BY <1>5 DEF fileVars
  <2>2. FileInv'
    BY <2>1 DEF FileInv
  <2>3. UNCHANGED AM!accountVars
    BY <2>1 DEF AM!accountVars
  <2>. QED
    BY <2>2, <2>3 DEF Maps
<1>. QED
  BY <1>1, <1>2, <1>3, <1>4, <1>5, Zenon DEF Next

\* What was promised while the file had no cut line is read from it and is in the
\* table, as long as no rewrite of the file was cut.
THEOREM PromisedEarlyStaysCorrect == Spec => []PromisedEarlyStays
<1>1. ASSUME FileInv PROVE PromisedEarlyStays
  <2> PICK t : t = text
    OBVIOUS
  <2> PICK p : p = whole
    OBVIOUS
  <2> PICK T : T = account_table
    OBVIOUS
  <2> PICK P : P = promised
    OBVIOUS
  <2>1. Within(load(p), load(t)) /\ (alive => Within(load(p), T)) /\ (~half => Clean(load(p), P))
    BY <1>1, Loads DEF FileInv, Loaded
  <2>2. ~half => Clean(load(t), P) /\ (alive => Clean(T, P))
    BY <2>1, CleanWithin
  <2>. QED
    BY <2>2 DEF PromisedEarlyStays, Clean, isExist
<1>. QED
  BY <1>1, FileInit, FileStep, PTL DEF Spec

\* Every step on the text of the file is a step of AccountManager, or changes
\* nothing it can see.
THEOREM AccountManagerImplemented == Spec => ImplementsAccountManager
<1>1. Maps => [AM!AccountsNext]_AM!accountVars
  BY DEF Maps
<1>. QED
  BY <1>1, FileInit, FileStep, PTL DEF Spec, ImplementsAccountManager
=============================================================================
