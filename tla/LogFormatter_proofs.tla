-------------------------- MODULE LogFormatter_proofs --------------------------
(***************************************************************************)
(* The parser of LogFormatter reads every layout as it is meant. What      *)
(* recursive functions compute is shown by least counterexamples.          *)
(***************************************************************************)
EXTENDS LogFormatter, SequenceTheorems, NaturalsInduction, WellFoundedInduction, TLAPS

(* A set of numbers that is not empty has a least one.                     *)
LEMMA LeastNumber ==
    ASSUME NEW S \in SUBSET Nat, S # {}
    PROVE  \E x \in S : \A y \in S : x <= y
<1> DEFINE R == OpToRel(<, Nat)
<1>1. \A x, y \in S : <<y, x>> \in R <=> y < x
  BY DEF OpToRel
<1>2. IsWellFoundedOn(R, Nat)
  BY NatLessThanWellFounded
<1> HIDE DEF R
<1>3. PICK x \in S : \A y \in S : <<y, x>> \notin R
  BY <1>2, WFMin
<1>4. \A y \in S : x <= y
  <2> TAKE y \in S
  <2>1. x \in Nat /\ y \in Nat /\ ~(y < x)
    BY <1>1, <1>3
  <2> QED
    BY <2>1
<1> QED
  BY <1>4

(* Induction over 0..n, for a set of numbers.                              *)
LEMMA Climb ==
    ASSUME NEW n \in Nat, NEW S, 0 \in S,
           \A k \in 1..n : k - 1 \in S => k \in S
    PROVE  0..n \subseteq S
<1> SUFFICES ASSUME (0..n) \ S # {}
             PROVE  FALSE
  OBVIOUS
<1> DEFINE T == (0..n) \ S
<1>1. T \in SUBSET Nat /\ T # {}
  OBVIOUS
<1>2. PICK k \in T : \A y \in T : k <= y
  BY <1>1, LeastNumber
<1>3. k \in 1..n /\ k - 1 \in 0..n /\ k - 1 \notin T
  BY <1>2
<1> QED
  BY <1>2, <1>3

-----------------------------------------------------------------------------
(* The loop: f holds the state before each character of q and at its end.  *)
Reading(f, q) ==
    /\ f = [i \in 0..Len(q) |-> f[i]]
    /\ \A i \in 1..Len(q) : f[i] = readChar(f[i - 1], q[i])

(* From the state a, the characters of q lead to the state b.              *)
Reads(a, q, b) == \E f : Reading(f, q) /\ f[0] = a /\ f[Len(q)] = b

LEMMA ReadsNothing ==
    ASSUME NEW a
    PROVE  Reads(a, <<>>, a)
<1> DEFINE f == [i \in 0..0 |-> a]
<1>1. Reading(f, <<>>) /\ f[0] = a /\ f[Len(<<>>)] = a
  BY DEF Reading
<1> QED
  BY <1>1 DEF Reads

LEMMA ReadsChar ==
    ASSUME NEW a, NEW c
    PROVE  Reads(a, <<c>>, readChar(a, c))
<1> DEFINE f == [i \in 0..1 |-> IF i = 0 THEN a ELSE readChar(a, c)]
           q == <<c>>
<1>1. Len(q) = 1 /\ q[1] = c
  OBVIOUS
<1> HIDE DEF q
<1>2. Reading(f, q) /\ f[0] = a /\ f[Len(q)] = readChar(a, c)
  BY <1>1 DEF Reading
<1> QED
  BY <1>2 DEF Reads, q

LEMMA ReadsBoth ==
    ASSUME NEW C, NEW p \in Seq(C), NEW q \in Seq(C), NEW a, NEW b, NEW c,
           Reads(a, p, b), Reads(b, q, c)
    PROVE  Reads(a, p \o q, c)
<1>1. PICK f : Reading(f, p) /\ f[0] = a /\ f[Len(p)] = b
  BY DEF Reads
<1>2. PICK g : Reading(g, q) /\ g[0] = b /\ g[Len(q)] = c
  BY DEF Reads
<1> DEFINE n == Len(p)
           m == Len(q)
           h == [i \in 0..(n + m) |-> IF i <= n THEN f[i] ELSE g[i - n]]
           r == p \o q
<1>3. /\ n \in Nat /\ m \in Nat /\ Len(r) = n + m
      /\ \A i \in 1..n : r[i] = p[i]
      /\ \A i \in (n + 1)..(n + m) : r[i] = q[i - n]
  OBVIOUS
<1>4. /\ f[0] = a /\ f[n] = b /\ g[0] = b /\ g[m] = c
      /\ \A i \in 1..n : f[i] = readChar(f[i - 1], p[i])
      /\ \A i \in 1..m : g[i] = readChar(g[i - 1], q[i])
  BY <1>1, <1>2 DEF Reading
<1> HIDE DEF n, m, r
<1>5. ASSUME NEW i \in 1..(n + m)
      PROVE  h[i] = readChar(h[i - 1], r[i])
  <2>1. CASE i <= n
    <3>1. i \in 1..n /\ h[i] = f[i] /\ h[i - 1] = f[i - 1] /\ r[i] = p[i]
      BY <1>3, <2>1
    <3> QED
      BY <1>4, <3>1
  <2>2. CASE i = n + 1
    <3>1. 1 \in 1..m /\ h[i] = g[1] /\ h[i - 1] = g[0] /\ r[i] = q[1]
      BY <1>3, <1>4, <2>2
    <3>2. g[1] = readChar(g[1 - 1], q[1])
      BY <1>4, <3>1
    <3> QED
      BY <3>1, <3>2
  <2>3. CASE i > n + 1
    <3> DEFINE j == i - n
    <3>0. i \in (n + 1)..(n + m) /\ i \in 0..(n + m) /\ ~(i <= n)
      BY <1>3, <2>3
    <3>1. j \in 1..m /\ h[i] = g[j] /\ r[i] = q[j]
      <4>1. j \in 1..m
        BY <1>3, <3>0
      <4>2. h[i] = g[j]
        BY <3>0
      <4>3. r[i] = q[j]
        BY <1>3, <3>0
      <4> QED
        BY <4>1, <4>2, <4>3
    <3>2. i - 1 \in 0..(n + m) /\ ~(i - 1 <= n) /\ (i - 1) - n = j - 1
      BY <1>3, <2>3
    <3>3. h[i - 1] = g[j - 1]
      BY <3>2
    <3> HIDE DEF j, h
    <3> QED
      BY <1>4, <3>1, <3>3
  <2> QED
    BY <1>3, <2>1, <2>2, <2>3
<1>6. h[0] = a /\ h[n + m] = c
  <2>1. h[0] = a
    BY <1>3, <1>4
  <2>2. CASE m = 0
    BY <1>3, <1>4, <2>2
  <2>3. CASE m > 0
    <3>1. h[n + m] = g[(n + m) - n] /\ (n + m) - n = m
      BY <1>3, <2>3
    <3> QED
      BY <1>4, <2>1, <3>1
  <2> QED
    BY <1>3, <2>1, <2>2, <2>3
<1>7. Reading(h, r)
  BY <1>3, <1>5 DEF Reading
<1> QED
  BY <1>3, <1>6, <1>7 DEF Reads, r

(* read() is what the loop does from its start.                            *)
LEMMA ReadIsReading ==
    ASSUME NEW C, NEW q \in Seq(C), NEW st, Reads(Start, q, st)
    PROVE  read(q) = st
<1>1. PICK f : Reading(f, q) /\ f[0] = Start /\ f[Len(q)] = st
  BY DEF Reads
<1> DEFINE n == Len(q)
           Is(g) == g = [i \in 0..n |-> IF i = 0 THEN Start ELSE readChar(g[i - 1], q[i])]
           s == CHOOSE g : Is(g)
<1>2. n \in Nat
  OBVIOUS
<1>3. Is(f)
  <2>1. f = [i \in 0..n |-> f[i]]
    BY <1>1 DEF Reading
  <2>2. \A i \in 0..n : f[i] = IF i = 0 THEN Start ELSE readChar(f[i - 1], q[i])
    BY <1>1, <1>2 DEF Reading
  <2> QED
    BY <2>1, <2>2
<1>4. Is(s)
  BY <1>3
<1>5. read(q) = s[n]
  BY DEF read
<1> HIDE DEF s, n
<1> DEFINE S == {i \in 0..n : s[i] = f[i]}
<1>6. 0 \in S
  BY <1>2, <1>3, <1>4
<1>7. ASSUME NEW k \in 1..n, k - 1 \in S
      PROVE  k \in S
  <2>1. s[k] = readChar(s[k - 1], q[k]) /\ f[k] = readChar(f[k - 1], q[k])
    BY <1>2, <1>3, <1>4
  <2> QED
    BY <1>7, <2>1
<1> HIDE DEF S
<1>8. 0..n \subseteq S
  BY <1>2, <1>6, <1>7, Climb
<1>9. n \in S
  BY <1>2, <1>8
<1> QED
  BY <1>1, <1>5, <1>9 DEF S, n

-----------------------------------------------------------------------------
(* What the parser makes of each kind of part.                             *)
Chars == STRING \cup {"%", "d", LBrace, RBrace}

State(m, t, p, d) == [mode |-> m, tmp |-> t, patterns |-> p, dateformat |-> d]

LEMMA BraceIsNoPercent == LBrace # "%"
BY DEF LBrace

LEMMA GrowByOne ==
    ASSUME NEW C, NEW q \in Seq(C), NEW i \in 1..Len(q)
    PROVE  SubSeq(q, 1, i) = Append(SubSeq(q, 1, i - 1), q[i])
OBVIOUS

LEMMA Two ==
    ASSUME NEW a, NEW b
    PROVE  <<a>> \o <<b>> = <<a, b>>
<1> DEFINE C == {a, b}
           s == <<a>> \o <<b>>
           t == <<a, b>>
<1>1. <<a>> \in Seq(C) /\ <<b>> \in Seq(C) /\ t \in Seq(C)
  OBVIOUS
<1>2. s \in Seq(C) /\ Len(s) = 2 /\ s[1] = a /\ s[2] = b
  BY <1>1
<1>3. Len(t) = 2 /\ t[1] = a /\ t[2] = b
  OBVIOUS
<1> HIDE DEF s, t, C
<1>4. Len(s) = Len(t) /\ \A i \in 1..Len(s) : s[i] = t[i]
  BY <1>2, <1>3
<1>5. s = t
  BY <1>1, <1>2, <1>4, SeqEqual
<1> QED
  BY <1>5 DEF s, t

LEMMA Three ==
    ASSUME NEW a, NEW b, NEW c
    PROVE  <<a, b>> \o <<c>> = <<a, b, c>>
<1> DEFINE C == {a, b, c}
           s == <<a, b>> \o <<c>>
           t == <<a, b, c>>
<1>1. <<a, b>> \in Seq(C) /\ <<c>> \in Seq(C) /\ t \in Seq(C)
  OBVIOUS
<1>2. s \in Seq(C) /\ Len(s) = 3 /\ s[1] = a /\ s[2] = b /\ s[3] = c
  BY <1>1
<1>3. Len(t) = 3 /\ t[1] = a /\ t[2] = b /\ t[3] = c
  OBVIOUS
<1> HIDE DEF s, t, C
<1>4. Len(s) = Len(t) /\ \A i \in 1..Len(s) : s[i] = t[i]
  BY <1>2, <1>3
<1>5. s = t
  BY <1>1, <1>2, <1>4, SeqEqual
<1> QED
  BY <1>5 DEF s, t

LEMMA ReadsText ==
    ASSUME NEW m \in {"text", "afterD"}, NEW t \in Seq(STRING \ {"%"}) \ {<<>>},
           m = "afterD" => t[1] # LBrace, NEW p, NEW d
    PROVE  Reads(State(m, <<>>, p, d), t, State("text", t, p, d))
<1> DEFINE n == Len(t)
           f == [i \in 0..n |-> State(IF i = 0 THEN m ELSE "text", SubSeq(t, 1, i), p, d)]
<1>1. n \in Nat \ {0} /\ SubSeq(t, 1, 0) = <<>> /\ SubSeq(t, 1, n) = t
  OBVIOUS
<1> HIDE DEF n
<1>2. ASSUME NEW i \in 1..n
      PROVE  f[i] = readChar(f[i - 1], t[i])
  <2> DEFINE a == SubSeq(t, 1, i - 1)
             k == IF i - 1 = 0 THEN m ELSE "text"
  <2>1. t[i] # "%" /\ i - 1 \in 0..n /\ i \in 0..n /\ i # 0
    BY <1>1 DEF n
  <2>2. SubSeq(t, 1, i) = Append(a, t[i])
    BY GrowByOne DEF n
  <2>3. f[i] = State("text", Append(a, t[i]), p, d)
    BY <2>1, <2>2
  <2>4. f[i - 1] = State(k, a, p, d)
    BY <2>1
  <2>5. k \in {"text", "afterD"} /\ (k = "afterD" => t[i] # LBrace)
    BY <1>1
  <2> HIDE DEF a, k, f
  <2>6. readChar(State(k, a, p, d), t[i]) = readText(State(k, a, p, d), t[i])
    BY <2>5 DEF readChar, State
  <2>7. readText(State(k, a, p, d), t[i]) = State("text", Append(a, t[i]), p, d)
    BY <2>1 DEF readText, State
  <2> QED
    BY <2>3, <2>4, <2>6, <2>7
<1>3. f[0] = State(m, <<>>, p, d) /\ f[n] = State("text", t, p, d)
  <2>1. 0 \in 0..n /\ n \in 0..n /\ n # 0
    BY <1>1
  <2> QED
    BY <1>1, <2>1
<1>4. Reading(f, t)
  BY <1>1, <1>2 DEF Reading, n
<1> QED
  BY <1>3, <1>4 DEF Reads, n

LEMMA ReadsItem ==
    ASSUME NEW m \in {"text", "afterD"}, NEW t, NEW p, NEW d, NEW c \in Chars
    PROVE  Reads(State(m, t, p, d), <<"%", c>>,
                 State(afterItem(c), <<>>, Append(flush(State(m, t, p, d)), Item(c)), d))
<1> DEFINE a == State(m, t, p, d)
           b == State("item", <<>>, flush(a), d)
           e == State(afterItem(c), <<>>, Append(flush(a), Item(c)), d)
<1>1. readChar(a, "%") = b
  BY BraceIsNoPercent DEF readChar, readText, State
<1>2. readChar(b, c) = e
  BY DEF readChar, readItem, State
<1> HIDE DEF a, b, e
<1>3. Reads(a, <<"%">>, b) /\ Reads(b, <<c>>, e)
  BY <1>1, <1>2, ReadsChar
<1>4. <<"%">> \in Seq(Chars) /\ <<c>> \in Seq(Chars) /\ <<"%">> \o <<c>> = <<"%", c>>
  BY Two DEF Chars
<1>5. Reads(a, <<"%">> \o <<c>>, e)
  BY <1>3, <1>4, ReadsBoth
<1> QED
  BY <1>4, <1>5 DEF a, e

LEMMA ReadsFormat ==
    ASSUME NEW q \in Seq(STRING \ {RBrace}), NEW p
    PROVE  Reads(State("date", <<>>, p, <<>>), q, State("date", <<>>, p, q))
<1> DEFINE n == Len(q)
           f == [i \in 0..n |-> State("date", <<>>, p, SubSeq(q, 1, i))]
<1>1. n \in Nat /\ SubSeq(q, 1, 0) = <<>> /\ SubSeq(q, 1, n) = q
  OBVIOUS
<1> HIDE DEF n
<1>2. ASSUME NEW i \in 1..n
      PROVE  f[i] = readChar(f[i - 1], q[i])
  <2> DEFINE a == SubSeq(q, 1, i - 1)
  <2>1. q[i] # RBrace /\ i - 1 \in 0..n /\ i \in 0..n
    BY <1>1 DEF n
  <2>2. SubSeq(q, 1, i) = Append(a, q[i])
    BY GrowByOne DEF n
  <2>3. f[i - 1] = State("date", <<>>, p, a) /\ f[i] = State("date", <<>>, p, Append(a, q[i]))
    BY <2>1, <2>2
  <2> HIDE DEF a, f
  <2>4. readChar(State("date", <<>>, p, a), q[i]) = readDate(State("date", <<>>, p, a), q[i])
    BY DEF readChar, State
  <2>5. readDate(State("date", <<>>, p, a), q[i]) = State("date", <<>>, p, Append(a, q[i]))
    BY <2>1 DEF readDate, State
  <2> QED
    BY <2>3, <2>4, <2>5
<1>3. f[0] = State("date", <<>>, p, <<>>) /\ f[n] = State("date", <<>>, p, q)
  <2>1. 0 \in 0..n /\ n \in 0..n
    BY <1>1
  <2> QED
    BY <1>1, <2>1
<1>4. Reading(f, q)
  BY <1>1, <1>2 DEF Reading, n
<1> QED
  BY <1>3, <1>4 DEF Reads, n

LEMMA ReadsDate ==
    ASSUME NEW m \in {"text", "afterD"}, NEW t, NEW p, NEW q \in Seq(STRING \ {RBrace})
    PROVE  Reads(State(m, t, p, <<>>), <<"%", "d", LBrace>> \o q \o <<RBrace>>,
                 State("text", <<>>, Append(flush(State(m, t, p, <<>>)), Item("d")), q))
<1> DEFINE a == State(m, t, p, <<>>)
           r == Append(flush(a), Item("d"))
           b == State("afterD", <<>>, r, <<>>)
           c == State("date", <<>>, r, <<>>)
           e == State("date", <<>>, r, q)
           g == State("text", <<>>, r, q)
<1>1. Reads(a, <<"%", "d">>, b)
  <2>1. "d" \in Chars /\ afterItem("d") = "afterD"
    BY DEF Chars, afterItem
  <2> QED
    BY <2>1, ReadsItem
<1>2. readChar(b, LBrace) = c
  BY DEF readChar, State
<1>3. Reads(c, q, e)
  BY ReadsFormat
<1>4. readChar(e, RBrace) = g
  BY DEF readChar, readDate, State
<1> HIDE DEF a, b, c, e, g
<1>5. Reads(b, <<LBrace>>, c) /\ Reads(e, <<RBrace>>, g)
  BY <1>2, <1>4, ReadsChar
<1>6. /\ <<"%", "d">> \in Seq(Chars) /\ <<LBrace>> \in Seq(Chars) /\ <<RBrace>> \in Seq(Chars)
      /\ <<"%", "d", LBrace>> \in Seq(Chars) /\ q \in Seq(Chars)
      /\ <<"%", "d">> \o <<LBrace>> = <<"%", "d", LBrace>>
      /\ <<"%", "d", LBrace>> \o q \in Seq(Chars)
  <2>1. STRING \ {RBrace} \subseteq Chars /\ {"%", "d", LBrace, RBrace} \subseteq Chars
    BY DEF Chars
  <2>2. q \in Seq(Chars)
    BY <2>1, SeqMonotonic
  <2>3. <<"%", "d">> \o <<LBrace>> = <<"%", "d", LBrace>>
    BY Three
  <2> QED
    BY <2>1, <2>2, <2>3
<1>7. Reads(a, <<"%", "d", LBrace>>, c)
  BY <1>1, <1>5, <1>6, ReadsBoth
<1>8. Reads(a, <<"%", "d", LBrace>> \o q, e)
  BY <1>3, <1>6, <1>7, ReadsBoth
<1>9. Reads(a, (<<"%", "d", LBrace>> \o q) \o <<RBrace>>, g)
  BY <1>5, <1>6, <1>8, ReadsBoth
<1> QED
  BY <1>9 DEF a, g

-----------------------------------------------------------------------------
(* PatternOf, part by part: g[k] is what the first k sequences of s make.  *)
Flattens(g, s, k) ==
    /\ g = [i \in 0..k |-> g[i]]
    /\ g[0] = <<>>
    /\ \A i \in 1..k : g[i] = g[i - 1] \o s[i]

LEMMA FlattenSteps ==
    ASSUME NEW C, NEW s \in Seq(Seq(C))
    PROVE  \E g : /\ Flattens(g, s, Len(s))
                  /\ \A i \in 0..Len(s) : g[i] \in Seq(C)
                  /\ g[Len(s)] = FlattenSeq(s)
<1> DEFINE n == Len(s)
           Partial(k) == \E g : Flattens(g, s, k) /\ \A i \in 0..k : g[i] \in Seq(C)
           S == {k \in 0..n : Partial(k)}
<1>1. n \in Nat /\ \A i \in 1..n : s[i] \in Seq(C)
  OBVIOUS
<1> HIDE DEF n
<1>2. Partial(0)
  <2> DEFINE g == [i \in 0..0 |-> <<>>]
  <2>1. Flattens(g, s, 0) /\ \A i \in 0..0 : g[i] \in Seq(C)
    BY DEF Flattens
  <2> QED
    BY <2>1
<1>3. ASSUME NEW k \in 1..n, Partial(k - 1)
      PROVE  Partial(k)
  <2>1. PICK g : Flattens(g, s, k - 1) /\ \A i \in 0..(k - 1) : g[i] \in Seq(C)
    BY <1>3
  <2> DEFINE h == [i \in 0..k |-> IF i = k THEN g[k - 1] \o s[k] ELSE g[i]]
  <2>2. k \in Nat \ {0} /\ k - 1 \in 0..(k - 1) /\ 0 \in 0..k /\ k \in 0..k
    BY <1>1
  <2>3. h[0] = <<>>
    BY <2>1, <2>2 DEF Flattens
  <2>4. ASSUME NEW i \in 1..k
        PROVE  h[i] = h[i - 1] \o s[i]
    <3>1. i \in 0..k /\ i - 1 \in 0..k /\ i - 1 # k
      BY <2>2
    <3>2. h[i - 1] = g[i - 1]
      BY <3>1
    <3>3. CASE i = k
      BY <3>1, <3>2, <3>3
    <3>4. CASE i # k
      <4>1. i \in 1..(k - 1) /\ h[i] = g[i]
        BY <2>2, <3>1, <3>4
      <4> QED
        BY <2>1, <3>2, <4>1 DEF Flattens
    <3> QED
      BY <3>3, <3>4
  <2>5. ASSUME NEW i \in 0..k
        PROVE  h[i] \in Seq(C)
    <3>1. CASE i = k
      BY <1>1, <2>1, <2>2, <3>1
    <3>2. CASE i # k
      BY <2>1, <2>2, <3>2
    <3> QED
      BY <3>1, <3>2
  <2>6. h = [i \in 0..k |-> h[i]]
    OBVIOUS
  <2> HIDE DEF h
  <2>7. Flattens(h, s, k)
    BY <2>3, <2>4, <2>6 DEF Flattens
  <2> QED
    BY <2>5, <2>7
<1> HIDE DEF Partial
<1>4. 0..n \subseteq S
  <2>1. 0 \in S /\ \A k \in 1..n : k - 1 \in S => k \in S
    BY <1>1, <1>2, <1>3
  <2> HIDE DEF S
  <2> QED
    BY <1>1, <2>1, Climb
<1>5. PICK g : Flattens(g, s, n) /\ \A i \in 0..n : g[i] \in Seq(C)
  BY <1>1, <1>4 DEF Partial
<1>6. g[n] = FlattenSeq(s)
  <2>1. CASE n = 0
    <3>1. FlattenSeq(s) = s /\ s = <<>>
      BY <2>1 DEF FlattenSeq, n
    <3> QED
      BY <1>5, <2>1, <3>1 DEF Flattens
  <2>2. CASE n # 0
    <3> DEFINE Is(f) == f = [i \in 1..n |-> IF i = 1 THEN s[i] ELSE f[i - 1] \o s[i]]
               f0 == [i \in 1..n |-> g[i]]
               c == CHOOSE f : Is(f)
               T == {k \in 0..n : k = 0 \/ c[k] = g[k]}
    <3>1. FlattenSeq(s) = c[n]
      BY <2>2 DEF FlattenSeq, n
    <3>2. \A i \in 1..n : g[i] = IF i = 1 THEN s[i] ELSE g[i - 1] \o s[i]
      <4> TAKE i \in 1..n
      <4>1. g[i] = g[i - 1] \o s[i] /\ g[0] = <<>> /\ s[i] \in Seq(C)
        BY <1>1, <1>5 DEF Flattens
      <4>2. CASE i = 1
        <5>1. i - 1 = 0
          BY <4>2
        <5>2. g[i] = <<>> \o s[i]
          BY <4>1, <5>1
        <5>3. <<>> \o s[i] = s[i]
          BY <4>1
        <5> QED
          BY <4>2, <5>2, <5>3
      <4> QED
        BY <4>1, <4>2
    <3>3. Is(f0)
      <4>1. ASSUME NEW i \in 1..n
            PROVE  g[i] = IF i = 1 THEN s[i] ELSE f0[i - 1] \o s[i]
        <5>1. CASE i = 1
          BY <3>2, <5>1
        <5>2. CASE i # 1
          <6>1. i - 1 \in 1..n
            BY <1>1, <5>2
          <6> QED
            BY <3>2, <5>2, <6>1
        <5> QED
          BY <5>1, <5>2
      <4> QED
        BY <4>1
    <3>4. Is(c)
      BY <3>3
    <3> HIDE DEF c
    <3>5. \A i \in 1..n : c[i] = IF i = 1 THEN s[i] ELSE c[i - 1] \o s[i]
      BY <3>4
    <3>6. ASSUME NEW k \in 1..n, k - 1 \in T
          PROVE  k \in T
      <4>1. CASE k = 1
        BY <1>1, <3>2, <3>5, <4>1
      <4>2. CASE k # 1
        <5>1. c[k - 1] = g[k - 1]
          BY <1>1, <3>6, <4>2
        <5> QED
          BY <1>1, <3>2, <3>5, <4>2, <5>1
      <4> QED
        BY <4>1, <4>2
    <3>7. 0 \in T
      BY <1>1
    <3> HIDE DEF T
    <3>8. 0..n \subseteq T
      BY <1>1, <3>6, <3>7, Climb
    <3>9. n \in T
      BY <1>1, <3>8
    <3> QED
      BY <2>2, <3>1, <3>9 DEF T
  <2> QED
    BY <2>1, <2>2
<1> QED
  BY <1>5, <1>6 DEF n

-----------------------------------------------------------------------------
(* The state of the parser behind the first k parts of the layout.         *)
Raw(part) == IF part.kind = "date" THEN Item("d") ELSE part

Raws(layout, k) == [i \in 1..k |-> Raw(layout[i])]

EndsInText(layout, k) == k > 0 /\ layout[k].kind = "text"

After(layout, k, d) ==
    State(IF k > 0 /\ layout[k] = Date(<<>>) THEN "afterD" ELSE "text",
          IF EndsInText(layout, k) THEN layout[k].of ELSE <<>>,
          Raws(layout, IF EndsInText(layout, k) THEN k - 1 ELSE k), d)

(* The format that the parser has behind the first k parts.                *)
FormatOf(layout, k, d) ==
    /\ \A i \in 1..k : layout[i].kind = "date" => d = layout[i].of
    /\ (\A i \in 1..k : layout[i].kind # "date") => d = <<>>

LEMMA KindsOfParts ==
    ASSUME NEW part \in Parts
    PROVE  \/ part.kind = "text" /\ part.of \in Seq(STRING \ {"%"}) \ {<<>>} /\ part = Text(part.of)
           \/ part.kind = "item" /\ part.of \in STRING /\ part.of # "d" /\ part = Item(part.of)
           \/ part.kind = "date" /\ part.of \in Seq(STRING \ {RBrace}) /\ part = Date(part.of)
BY DEF Parts, Text, Item, Date

LEMMA WrittenInChars ==
    ASSUME NEW part \in Parts
    PROVE  Written(part) \in Seq(Chars)
<1>1. STRING \subseteq Chars /\ {"%", "d", LBrace, RBrace} \subseteq Chars
  BY DEF Chars
<1>2. CASE part.kind = "text"
  <2>1. STRING \ {"%"} \subseteq Chars /\ part.of \in Seq(STRING \ {"%"})
    BY <1>1, <1>2, KindsOfParts
  <2>2. part.of \in Seq(Chars)
    BY <2>1, SeqMonotonic
  <2> QED
    BY <1>2, <2>2 DEF Written
<1>3. CASE part.kind = "item"
  <2>1. part.of \in Chars /\ "%" \in Chars
    BY <1>1, <1>3, KindsOfParts
  <2>2. <<"%", part.of>> \in Seq(Chars)
    BY <2>1
  <2> QED
    BY <1>3, <2>2 DEF Written
<1>4. CASE part.kind = "date"
  <2>1. part.of \in Seq(Chars)
    BY <1>1, <1>4, KindsOfParts, SeqMonotonic
  <2>2. <<"%", "d">> \in Seq(Chars) /\ <<"%", "d", LBrace>> \in Seq(Chars) /\ <<RBrace>> \in Seq(Chars)
    BY <1>1
  <2> HIDE DEF Chars
  <2>3. <<"%", "d", LBrace>> \o part.of \o <<RBrace>> \in Seq(Chars)
    BY <2>1, <2>2
  <2> QED
    BY <1>4, <2>2, <2>3 DEF Written
<1> QED
  BY <1>2, <1>3, <1>4, KindsOfParts

LEMMA RawsGrow ==
    ASSUME NEW L, NEW k \in Nat \ {0}
    PROVE  Append(Raws(L, k - 1), Raw(L[k])) = Raws(L, k)
<1> DEFINE C == {Raw(L[i]) : i \in 1..k}
           a == Raws(L, k - 1)
           b == Raws(L, k)
           e == Raw(L[k])
<1>1. a \in Seq(C) /\ Len(a) = k - 1 /\ \A i \in 1..(k - 1) : a[i] = Raw(L[i])
  <2>1. a \in [1..(k - 1) -> C]
    BY DEF Raws
  <2> QED
    BY <2>1 DEF Raws
<1>2. b \in Seq(C) /\ Len(b) = k /\ \A i \in 1..k : b[i] = Raw(L[i])
  <2>1. b \in [1..k -> C]
    BY DEF Raws
  <2> QED
    BY <2>1 DEF Raws
<1>3. e \in C
  OBVIOUS
<1> HIDE DEF a, b, C
<1>4. Append(a, e) \in Seq(C) /\ Len(Append(a, e)) = k
  BY <1>1, <1>3
<1>5. \A i \in 1..k : Append(a, e)[i] = b[i]
  BY <1>1, <1>2, <1>3
<1>6. Append(a, e) = b
  BY <1>2, <1>4, <1>5, SeqEqual
<1> QED
  BY <1>6 DEF a, b

(* What flush() leaves is every part so far.                               *)
LEMMA FlushAfter ==
    ASSUME NEW L \in Seq(Parts), NEW k \in 0..Len(L), NEW d
    PROVE  flush(After(L, k, d)) = Raws(L, k)
<1>1. CASE EndsInText(L, k)
  <2>1. k \in Nat \ {0} /\ L[k] \in Parts /\ L[k].kind = "text"
    BY <1>1 DEF EndsInText
  <2>2. L[k].of # <<>> /\ L[k] = Text(L[k].of) /\ Raw(L[k]) = L[k]
    BY <2>1, KindsOfParts DEF Raw
  <2>3. After(L, k, d).tmp = L[k].of /\ After(L, k, d).patterns = Raws(L, k - 1)
    BY <1>1 DEF After, State
  <2>4. flush(After(L, k, d)) = Append(Raws(L, k - 1), Raw(L[k]))
    BY <2>2, <2>3 DEF flush
  <2> QED
    BY <2>1, <2>4, RawsGrow
<1>2. CASE ~EndsInText(L, k)
  <2>1. After(L, k, d).tmp = <<>> /\ After(L, k, d).patterns = Raws(L, k)
    BY <1>2 DEF After, State
  <2> QED
    BY <2>1 DEF flush
<1> QED
  BY <1>1, <1>2

(* One more part, of each kind.                                            *)
LEMMA ReadsPart ==
    ASSUME NEW L, IsLayout(L), NEW k \in 1..Len(L), NEW d, FormatOf(L, k - 1, d)
    PROVE  \E e : FormatOf(L, k, e) /\ Reads(After(L, k - 1, d), Written(L[k]), After(L, k, e))
<1> DEFINE a == After(L, k - 1, d)
           m == IF k - 1 > 0 /\ L[k - 1] = Date(<<>>) THEN "afterD" ELSE "text"
           t == IF EndsInText(L, k - 1) THEN L[k - 1].of ELSE <<>>
           p == Raws(L, IF EndsInText(L, k - 1) THEN k - 1 - 1 ELSE k - 1)
<1>1. /\ L \in Seq(Parts) /\ L[k] \in Parts /\ k \in Nat \ {0} /\ k - 1 \in 0..Len(L)
      /\ k \in DOMAIN L /\ \A i \in 1..(k - 1) : i \in DOMAIN L /\ i # k
  BY DEF IsLayout
<1>2. flush(a) = Raws(L, k - 1)
  BY <1>1, FlushAfter
<1>3. a = State(m, t, p, d) /\ m \in {"text", "afterD"}
  BY DEF After
<1>4. \A i \in 1..k : i = k \/ i \in 1..(k - 1)
  BY <1>1
<1> HIDE DEF a, m, t, p
<1>5. CASE L[k].kind = "text"
  <2>1. /\ L[k].of \in Seq(STRING \ {"%"}) \ {<<>>} /\ L[k] = Text(L[k].of)
        /\ L[k] # Date(<<>>)
    BY <1>1, <1>5, KindsOfParts DEF Date
  <2>2. ~EndsInText(L, k - 1) /\ (m = "afterD" => L[k].of[1] # LBrace)
    <3>1. CASE k = 1
      BY <3>1 DEF EndsInText, m
    <3>2. CASE k # 1
      <4>1. k \in 2..Len(L)
        BY <1>1, <3>2
      <4> QED
        BY <1>5, <4>1 DEF IsLayout, EndsInText, m
    <3> QED
      BY <3>1, <3>2
  <2>3. t = <<>> /\ p = Raws(L, k - 1)
    BY <2>2 DEF t, p
  <2>4. After(L, k, d) = State("text", L[k].of, p, d)
    BY <1>1, <1>5, <2>1, <2>3 DEF After, EndsInText
  <2>5. Written(L[k]) = L[k].of
    BY <1>5 DEF Written
  <2>6. Reads(a, Written(L[k]), After(L, k, d))
    BY <1>3, <2>1, <2>2, <2>3, <2>4, <2>5, ReadsText
  <2>7. FormatOf(L, k, d)
    BY <1>4, <1>5 DEF FormatOf
  <2> QED
    BY <2>6, <2>7 DEF a
<1>6. CASE L[k].kind = "item"
  <2>1. /\ L[k].of \in Chars /\ L[k].of # "d" /\ L[k] = Item(L[k].of)
        /\ L[k] # Date(<<>>) /\ Raw(L[k]) = L[k]
    BY <1>1, <1>6, KindsOfParts DEF Date, Raw, Chars
  <2>2. After(L, k, d) = State("text", <<>>, Raws(L, k), d)
    BY <1>6, <2>1 DEF After, EndsInText
  <2>3. Written(L[k]) = <<"%", L[k].of>>
    BY <1>6 DEF Written
  <2>4. Append(flush(a), Item(L[k].of)) = Raws(L, k) /\ afterItem(L[k].of) = "text"
    BY <1>1, <1>2, <2>1, RawsGrow DEF afterItem
  <2>5. Reads(a, Written(L[k]), After(L, k, d))
    BY <1>3, <2>1, <2>2, <2>3, <2>4, ReadsItem
  <2>6. FormatOf(L, k, d)
    BY <1>4, <1>6 DEF FormatOf
  <2> QED
    BY <2>5, <2>6 DEF a
<1>7. CASE L[k].kind = "date"
  <2>1. /\ L[k].of \in Seq(STRING \ {RBrace}) /\ L[k] = Date(L[k].of)
        /\ Raw(L[k]) = Item("d")
    BY <1>1, <1>7, KindsOfParts DEF Raw
  <2>2. \A i \in 1..(k - 1) : L[i].kind # "date"
    BY <1>1, <1>7 DEF IsLayout
  <2>3. d = <<>>
    BY <2>2 DEF FormatOf
  <2>4. FormatOf(L, k, L[k].of)
    BY <1>1, <1>4, <1>7, <2>2 DEF FormatOf
  <2>5. Append(flush(a), Item("d")) = Raws(L, k)
    BY <1>1, <1>2, <2>1, RawsGrow
  <2>6. CASE L[k].of = <<>>
    <3>1. After(L, k, L[k].of) = State("afterD", <<>>, Raws(L, k), d)
      BY <1>1, <1>7, <2>1, <2>3, <2>6 DEF After, EndsInText
    <3>2. Written(L[k]) = <<"%", "d">>
      BY <1>7, <2>6 DEF Written
    <3>3. "d" \in Chars /\ afterItem("d") = "afterD"
      BY DEF Chars, afterItem
    <3>4. Reads(a, Written(L[k]), After(L, k, L[k].of))
      BY <1>3, <2>5, <3>1, <3>2, <3>3, ReadsItem
    <3> QED
      BY <2>4, <3>4 DEF a
  <2>7. CASE L[k].of # <<>>
    <3>0. L[k] # Date(<<>>)
      BY <2>1, <2>7 DEF Date
    <3>1. After(L, k, L[k].of) = State("text", <<>>, Raws(L, k), L[k].of)
      BY <1>7, <3>0 DEF After, EndsInText
    <3>2. Written(L[k]) = <<"%", "d", LBrace>> \o L[k].of \o <<RBrace>>
      BY <1>7, <2>7 DEF Written
    <3>3. Reads(a, Written(L[k]), After(L, k, L[k].of))
      BY <1>3, <2>1, <2>3, <2>5, <3>1, <3>2, ReadsDate
    <3> QED
      BY <2>4, <3>3 DEF a
  <2> QED
    BY <2>6, <2>7
<1> QED
  BY <1>1, <1>5, <1>6, <1>7, KindsOfParts

(* Read to its end, a layout leaves its own parts.                         *)
LEMMA ReadToItsEnd ==
    ASSUME NEW L, IsLayout(L)
    PROVE  \E d : FormatOf(L, Len(L), d) /\ read(PatternOf(L)) = After(L, Len(L), d)
<1> DEFINE n == Len(L)
           w == [i \in DOMAIN L |-> Written(L[i])]
<1>1. L \in Seq(Parts) /\ n \in Nat /\ DOMAIN L = 1..n /\ \A i \in 1..n : L[i] \in Parts
  BY DEF IsLayout
<1>2. w \in Seq(Seq(Chars)) /\ Len(w) = n /\ \A i \in 1..n : w[i] = Written(L[i])
  <2>1. w \in [1..n -> Seq(Chars)]
    BY <1>1, WrittenInChars
  <2> QED
    BY <1>1, <2>1
<1>3. PatternOf(L) = FlattenSeq(w)
  BY DEF PatternOf
<1> HIDE DEF w, n
<1>4. PICK g : /\ Flattens(g, w, n)
               /\ \A i \in 0..n : g[i] \in Seq(Chars)
               /\ g[n] = FlattenSeq(w)
  BY <1>2, FlattenSteps
<1> DEFINE Done(k) == \E d : FormatOf(L, k, d) /\ Reads(Start, g[k], After(L, k, d))
           S == {k \in 0..n : Done(k)}
<1>5. Done(0)
  <2>1. After(L, 0, <<>>) = Start
    <3>1. Raws(L, 0) = <<>> /\ ~EndsInText(L, 0)
      BY DEF Raws, EndsInText
    <3> QED
      BY <3>1 DEF After, State, Start
  <2>2. FormatOf(L, 0, <<>>)
    BY DEF FormatOf
  <2>3. g[0] = <<>>
    BY <1>4 DEF Flattens
  <2> QED
    BY <2>1, <2>2, <2>3, ReadsNothing
<1>6. ASSUME NEW k \in 1..n, Done(k - 1)
      PROVE  Done(k)
  <2>1. PICK d : FormatOf(L, k - 1, d) /\ Reads(Start, g[k - 1], After(L, k - 1, d))
    BY <1>6
  <2>2. PICK e : FormatOf(L, k, e) /\ Reads(After(L, k - 1, d), Written(L[k]), After(L, k, e))
    BY <2>1, ReadsPart DEF n
  <2>3. g[k - 1] \in Seq(Chars) /\ Written(L[k]) \in Seq(Chars) /\ g[k] = g[k - 1] \o Written(L[k])
    <3>1. k - 1 \in 0..n
      BY <1>1
    <3> QED
      BY <1>1, <1>2, <1>4, <3>1, WrittenInChars DEF Flattens
  <2>4. Reads(Start, g[k], After(L, k, e))
    BY <2>1, <2>2, <2>3, ReadsBoth
  <2> QED
    BY <2>2, <2>4
<1> HIDE DEF Done
<1>7. 0..n \subseteq S
  <2>1. 0 \in S /\ \A k \in 1..n : k - 1 \in S => k \in S
    BY <1>1, <1>5, <1>6
  <2> HIDE DEF S
  <2> QED
    BY <1>1, <2>1, Climb
<1>8. n \in 0..n /\ Done(n)
  BY <1>1, <1>7
<1>9. PICK d : FormatOf(L, n, d) /\ Reads(Start, g[n], After(L, n, d))
  BY <1>8 DEF Done
<1>10. read(g[n]) = After(L, n, d)
  BY <1>4, <1>8, <1>9, ReadIsReading
<1> QED
  BY <1>3, <1>4, <1>9, <1>10 DEF n

(* Every layout is read as it is meant: init() makes of the pattern of a   *)
(* layout the items of that layout, and an error of an unknown item.       *)
THEOREM LayoutsAreRead ==
    ASSUME NEW L, IsLayout(L)
    PROVE  ReadAsMeant(L, init(PatternOf(L)))
<1> DEFINE n == Len(L)
           st == read(PatternOf(L))
           r == Raws(L, n)
<1>1. PICK d : FormatOf(L, n, d) /\ st = After(L, n, d)
  BY ReadToItsEnd
<1>2. /\ L \in Seq(Parts) /\ n \in Nat /\ DOMAIN L = 1..n /\ L = [i \in 1..n |-> L[i]]
      /\ \A i \in 1..n : L[i] \in Parts
  BY DEF IsLayout
<1>3. st.mode = "text" /\ st.dateformat = d
  <2>1. ~(n > 0 /\ L[n] = Date(<<>>))
    BY <1>2 DEF IsLayout
  <2> QED
    BY <1>1, <2>1 DEF After, State
<1>4. flush(st) = r
  BY <1>1, <1>2, FlushAfter
<1>5. DOMAIN r = 1..n /\ Len(r) = n /\ \A i \in 1..n : r[i] = Raw(L[i])
  BY <1>2 DEF Raws
<1> DEFINE unknown == {i \in DOMAIN r : r[i].kind = "item" /\ r[i].of \notin FormatItems \cup {"d"}}
           known == Min(unknown \cup {Len(r) + 1}) - 1
<1>6. init(PatternOf(L)) =
        [m_items |-> [i \in 1..known |-> IF r[i] = Item("d") THEN Date(d) ELSE r[i]],
         m_error |-> unknown # {}]
  <2> HIDE DEF st, r
  <2>1. st.mode \notin {"afterD", "date"}
    BY <1>3
  <2> QED
    BY <1>3, <1>4, <2>1 DEF init, st
<1>7. \A i \in 1..n : i \in unknown <=> L[i].kind = "item" /\ L[i].of \notin FormatItems
  <2> TAKE i \in 1..n
  <2>1. L[i].kind = "date" => Raw(L[i]).of = "d"
    BY DEF Raw, Item
  <2>2. L[i].kind # "date" => Raw(L[i]) = L[i]
    BY DEF Raw
  <2>3. L[i].kind = "item" => L[i].of # "d"
    BY <1>2, KindsOfParts
  <2> HIDE DEF r
  <2> QED
    BY <1>5, <2>1, <2>2, <2>3
<1> HIDE DEF r, st
<1>8. KnownItems(L) <=> unknown = {}
  <2>1. unknown \subseteq 1..n
    BY <1>5
  <2> HIDE DEF unknown
  <2> QED
    BY <1>2, <1>7, <2>1 DEF KnownItems
<1>9. ASSUME unknown = {}
      PROVE  [i \in 1..known |-> IF r[i] = Item("d") THEN Date(d) ELSE r[i]] = L
  <2>1. known = n
    <3>1. \A x \in {n + 1} : x = n + 1 /\ \A y \in {n + 1} : x <= y
      BY <1>2
    <3>2. Min({n + 1}) = n + 1
      BY <3>1 DEF Min
    <3> HIDE DEF unknown
    <3>3. unknown \cup {Len(r) + 1} = {n + 1}
      BY <1>5, <1>9
    <3>4. known = (n + 1) - 1
      BY <3>2, <3>3
    <3> QED
      BY <1>2, <3>4
  <2>2. ASSUME NEW i \in 1..n
        PROVE  (IF r[i] = Item("d") THEN Date(d) ELSE r[i]) = L[i]
    <3>1. CASE L[i].kind = "date"
      BY <1>1, <1>2, <1>5, <3>1, KindsOfParts DEF Raw, FormatOf
    <3>2. CASE L[i].kind # "date"
      <4>1. L[i] # Item("d")
        BY <1>2, <3>2, KindsOfParts DEF Item, Text
      <4> QED
        BY <1>5, <3>2, <4>1 DEF Raw
    <3> QED
      BY <3>1, <3>2
  <2> HIDE DEF known
  <2> QED
    BY <1>2, <2>1, <2>2
<1> DEFINE items == [i \in 1..known |-> IF r[i] = Item("d") THEN Date(d) ELSE r[i]]
           formatter == init(PatternOf(L))
<1>10. formatter.m_items = items /\ formatter.m_error = (unknown # {})
  <2> HIDE DEF unknown, known
  <2> QED
    BY <1>6
<1> HIDE DEF items, formatter, unknown
<1>11. formatter.m_error = ~KnownItems(L)
  BY <1>8, <1>10
<1>12. ~formatter.m_error => formatter.m_items = L
  BY <1>9, <1>10 DEF items
<1> QED
  BY <1>11, <1>12 DEF ReadAsMeant, formatter

(* No pattern is ambiguous: two layouts of known items that are written as *)
(* the same pattern are one.                                               *)
THEOREM PatternsAreUnambiguous ==
    ASSUME NEW L, NEW M, IsLayout(L), IsLayout(M), KnownItems(L), KnownItems(M),
           PatternOf(L) = PatternOf(M)
    PROVE  L = M
<1>1. ReadAsMeant(L, init(PatternOf(L))) /\ ReadAsMeant(M, init(PatternOf(M)))
  BY LayoutsAreRead
<1> QED
  BY <1>1 DEF ReadAsMeant
================================================================================
