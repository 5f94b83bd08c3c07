----------------------------- MODULE LexerProof -----------------------------
(***************************************************************************)
(* Lexer.tla, for texts over every alphabet and of every length: types,    *)
(* tokens and the blanks between them, what a failed attempt leaves        *)
(* behind, how long tokens are, where errors point and what numbers say.   *)
(***************************************************************************)
EXTENDS Integers, Lexer, SequenceTheorems, FiniteSetTheorems, TLAPS

-----------------------------------------------------------------------------
(* Facts about sequences and numbers. *)

(***************************************************************************)
(* Induction, for a set: numbers without the set would, with the numbers   *)
(* up to one of them, be injected into themselves by n - 1, which a finite *)
(* set does not survive unless it is empty.                                *)
(***************************************************************************)
LEMMA SetInduction ==
    ASSUME NEW S, 0 \in S, \A n \in Nat : n \in S => n + 1 \in S
    PROVE  Nat \subseteq S
<1>1. SUFFICES ASSUME NEW k \in Nat, k \notin S PROVE FALSE
  OBVIOUS
<1> DEFINE U == {n \in 0 .. k : n \notin S}
           f == [n \in U |-> n - 1]
<1>2. IsFiniteSet(U)
  <2>1. IsFiniteSet(0 .. k)
    BY FS_Interval
  <2> QED
    BY <2>1, FS_Subset
<1>3. f \in Injection(U, U)
  <2>1. \A n \in U : n - 1 \in U
    <3> SUFFICES ASSUME NEW n \in U PROVE n - 1 \in U
      OBVIOUS
    <3>1. n # 0
      OBVIOUS
    <3>2. n - 1 \in Nat
      BY <3>1
    <3>3. n - 1 \in S => (n - 1) + 1 \in S
      BY <3>2
    <3> QED
      BY <3>1, <3>2, <3>3
  <2> QED
    BY <2>1 DEF Injection, IsInjective
<1>4. f \in Surjection(U, U)
  BY <1>2, <1>3, FS_Injection
<1>5. PICK n \in U : f[n] = k
  <2>1. k \in U
    BY <1>1
  <2>2. \A t \in U : \E n \in U : f[n] = t
    BY <1>4 DEF Surjection
  <2> QED
    BY <2>1, <2>2
<1> QED
  BY <1>5

(* A set of numbers has a least one. *)
LEMMA LeastNumber ==
    ASSUME NEW S \in SUBSET Nat, S # {}
    PROVE  \E m \in S : \A n \in S : m <= n
<1>1. SUFFICES ASSUME \A m \in S : \E n \in S : n < m PROVE FALSE
  OBVIOUS
<1> DEFINE N == {k \in Nat : \A n \in S : k <= n}
<1>2. 0 \in N
  OBVIOUS
<1>3. \A k \in Nat : k \in N => k + 1 \in N
  BY <1>1
<1>4. Nat \subseteq N
  BY <1>2, <1>3, SetInduction
<1>5. PICK m \in S : TRUE
  OBVIOUS
<1>6. m + 1 \in N
  BY <1>4, <1>5
<1> QED
  BY <1>5, <1>6

Text == text \in Seq(Alphabet) /\ Len(text) <= MaxLength

LEMMA TextFacts ==
    ASSUME Text
    PROVE  /\ End \in Nat \ {0} /\ Len(text) = End - 1
           /\ \A k \in 1 .. End - 1 : text[k] \in Alphabet
           /\ \A p \in 1 .. End : p \in Nat
BY ElementOfSeq DEF Text, End

-----------------------------------------------------------------------------
(***************************************************************************)
(* The recursive functions of Lexer exist: skip_comments is one whose      *)
(* value at a place is that at a later place, or given; numbers and powers *)
(* of ten are made by multiplying by ten and adding.                       *)
(***************************************************************************)
LaterGiven(n, Go, next, val) ==
    /\ n \in Nat \ {0} /\ Go \in SUBSET (1 .. n)
    /\ next \in [1 .. n -> 1 .. n] /\ val \in [1 .. n -> 1 .. n]
    /\ \A q \in Go : next[q] > q
LaterFunctions(n, Go, next, val) ==
    {f \in [1 .. n -> 1 .. n] :
        \A q \in 1 .. n : f[q] = IF q \in Go THEN f[next[q]] ELSE val[q]}

(* There is such a function, for the places from the last one on. *)
LEMMA LaterValues ==
    ASSUME NEW n, NEW Go, NEW next, NEW val, LaterGiven(n, Go, next, val)
    PROVE  LaterFunctions(n, Go, next, val) # {}
<1> USE DEF LaterGiven
<1> DEFINE Good(d) == {f \in [1 .. n -> 1 .. n] :
        \A q \in 1 .. n : q + d >= n => f[q] = IF q \in Go THEN f[next[q]] ELSE val[q]}
    S == {d \in Nat : Good(d) # {}}
<1>1. 0 \in S
  <2>1. n \notin Go
    OBVIOUS
  <2>2. \A q \in 1 .. n : q + 0 >= n => q = n
    OBVIOUS
  <2>3. \A q \in 1 .. n : q + 0 >= n => val[q] = IF q \in Go THEN val[next[q]] ELSE val[q]
    BY <2>1, <2>2
  <2>4. val \in Good(0)
    BY <2>3
  <2> HIDE DEF Good
  <2> QED
    BY <2>4
<1>2. ASSUME NEW d \in Nat, d \in S PROVE d + 1 \in S
  <2>1. PICK f \in [1 .. n -> 1 .. n] : f \in Good(d)
    BY <1>2
  <2> DEFINE g == [q \in 1 .. n |-> IF q + d >= n THEN f[q]
                                   ELSE IF q \in Go THEN f[next[q]] ELSE val[q]]
  <2>2. g \in [1 .. n -> 1 .. n]
    OBVIOUS
  <2>3. \A q \in 1 .. n : q + d >= n => g[q] = f[q]
    OBVIOUS
  <2>4. \A q \in Go : q + (d + 1) >= n => next[q] \in 1 .. n /\ next[q] + d >= n
    OBVIOUS
  <2>5. g \in Good(d + 1)
    BY <2>1, <2>2, <2>3, <2>4
  <2> HIDE DEF Good, g
  <2> QED
    BY <2>5
<1>3. n \in S
  BY <1>1, <1>2, SetInduction
<1>4. PICK f \in [1 .. n -> 1 .. n] : f \in Good(n)
  BY <1>3
<1>5. \A q \in 1 .. n : f[q] = IF q \in Go THEN f[next[q]] ELSE val[q]
  BY <1>4
<1> QED
  BY <1>4, <1>5 DEF LaterFunctions

HornerGiven(m, a, d) == m \in Nat /\ a \in Nat /\ d \in [1 .. m -> Nat]
HornerFunctions(m, a, d) ==
    {f \in [0 .. m -> Nat] :
        \A n \in 0 .. m : f[n] = IF n = 0 THEN a ELSE 10 * f[n - 1] + d[n]}

(* There is such a function, for the digits up to any of them. *)
LEMMA HornerValues ==
    ASSUME NEW m, NEW a, NEW d, HornerGiven(m, a, d)
    PROVE  HornerFunctions(m, a, d) # {}
<1> USE DEF HornerGiven
<1> DEFINE Good(k) == {f \in [0 .. m -> Nat] :
        \A n \in 0 .. m : n <= k => f[n] = IF n = 0 THEN a ELSE 10 * f[n - 1] + d[n]}
    S == {k \in Nat : Good(k) # {}}
<1>1. 0 \in S
  <2> DEFINE g == [n \in 0 .. m |-> a]
  <2>1. g \in Good(0)
    OBVIOUS
  <2> HIDE DEF Good, g
  <2> QED
    BY <2>1
<1>2. ASSUME NEW k \in Nat, k \in S PROVE k + 1 \in S
  <2>1. PICK f \in [0 .. m -> Nat] : f \in Good(k)
    BY <1>2
  <2> DEFINE g == [n \in 0 .. m |-> IF n <= k THEN f[n]
                                   ELSE IF n = 0 THEN a ELSE 10 * f[n - 1] + d[n]]
  <2>2. \A n \in 1 .. m : n - 1 \in 0 .. m
    OBVIOUS
  <2>3. g \in [0 .. m -> Nat]
    BY <2>2
  <2>4. \A n \in 0 .. m : n <= k => g[n] = f[n]
    OBVIOUS
  <2>5. ASSUME NEW n \in 0 .. m, n <= k + 1
        PROVE  g[n] = IF n = 0 THEN a ELSE 10 * g[n - 1] + d[n]
    <3>1. CASE n = 0
      BY <2>1, <2>4, <3>1
    <3>2. CASE n # 0
      <4>1. n - 1 \in 0 .. m /\ n - 1 <= k
        BY <2>5, <3>2
      <4>2. g[n - 1] = f[n - 1]
        BY <2>4, <4>1
      <4>3. g[n] = 10 * f[n - 1] + d[n]
        BY <2>1, <3>2
      <4> QED
        BY <4>2, <4>3, <3>2
    <3> QED
      BY <3>1, <3>2
  <2>6. g \in Good(k + 1)
    BY <2>3, <2>5
  <2> HIDE DEF Good, g
  <2> QED
    BY <2>6
<1>3. m \in S
  BY <1>1, <1>2, SetInduction
<1>4. PICK f \in [0 .. m -> Nat] : f \in Good(m)
  BY <1>3
<1>5. \A n \in 0 .. m : f[n] = IF n = 0 THEN a ELSE 10 * f[n - 1] + d[n]
  BY <1>4
<1> QED
  BY <1>4, <1>5 DEF HornerFunctions

-----------------------------------------------------------------------------
(* The loops over current. *)

LEMMA PastFacts ==
    ASSUME Text, NEW p \in 1 .. End, NEW set
    PROVE  /\ Past(p, set) \in p .. End
           /\ \A k \in p .. Past(p, set) - 1 : text[k] \in set
           /\ Past(p, set) < End => text[Past(p, set)] \notin set
<1>1. End \in Nat \ {0}
  BY TextFacts
<1> DEFINE Stops == {q \in p .. End : q < End => text[q] \notin set}
<1>2. Stops \in SUBSET Nat /\ Stops # {}
  <2>1. End \in Stops
    BY <1>1
  <2> QED
    BY <1>1, <2>1
<1>3. PICK m \in Stops : \A n \in Stops : m <= n
  BY <1>2, LeastNumber
<1>4. /\ m \in p .. End
      /\ \A k \in p .. m - 1 : text[k] \in set
      /\ m < End => text[m] \notin set
  BY <1>1, <1>3
<1> QED
  BY <1>4 DEF Past

LEMMA NextLineFacts ==
    ASSUME Text, NEW p \in 1 .. End, p < End, text[p] = "#"
    PROVE  /\ NextLine(p) \in p + 1 .. End
           /\ \A k \in p .. NextLine(p) - 2 : text[k] # "\n"
           /\ text[NextLine(p) - 1] # "\n" => NextLine(p) = End
           /\ \A k \in p .. NextLine(p) - 1 : k = NextLine(p) - 1 \/ text[k] # "\n"
<1> DEFINE q == Past(p, Alphabet \ {"\n"})
<1>1. /\ End \in Nat \ {0} /\ p \in Nat
      /\ \A k \in 1 .. End - 1 : text[k] \in Alphabet
  BY TextFacts
<1>2. /\ q \in p .. End
      /\ \A k \in p .. q - 1 : text[k] \in Alphabet \ {"\n"}
      /\ q < End => text[q] \notin Alphabet \ {"\n"}
  BY PastFacts
<1>3. q # p
  BY <1>1, <1>2
<1>4. q < End => text[q] = "\n"
  BY <1>1, <1>2
<1>5. NextLine(p) = IF q < End THEN q + 1 ELSE End
  BY <1>1, <1>2 DEF NextLine, Least
<1> HIDE DEF q
<1>6. CASE q < End
  BY <1>1, <1>2, <1>3, <1>4, <1>5, <1>6
<1>7. CASE ~(q < End)
  BY <1>1, <1>2, <1>3, <1>5, <1>7
<1> QED
  BY <1>6, <1>7

(* skip_comments as its code has it: the loop goes on behind a comment. *)
Word(p) == Past(p, Spaces)
AtComment(p) == Word(p) < End /\ text[Word(p)] = "#"

LEMMA SkipEquation ==
    ASSUME Text, NEW p \in 1 .. End
    PROVE  skip_comments(p) = IF AtComment(p) THEN skip_comments(NextLine(Word(p))) ELSE Word(p)
<1>1. End \in Nat \ {0}
  BY TextFacts
<1>2. \A q \in 1 .. End : Word(q) \in q .. End
  BY PastFacts DEF Word
<1>3. \A q \in 1 .. End : AtComment(q) => NextLine(Word(q)) \in q + 1 .. End
  <2> SUFFICES ASSUME NEW q \in 1 .. End, AtComment(q)
               PROVE  NextLine(Word(q)) \in q + 1 .. End
    OBVIOUS
  <2>1. Word(q) \in 1 .. End /\ Word(q) \in q .. End
    BY <1>1, <1>2
  <2>2. NextLine(Word(q)) \in Word(q) + 1 .. End
    BY <2>1, NextLineFacts DEF AtComment
  <2> QED
    BY <1>1, <2>1, <2>2
<1> DEFINE Go == {q \in 1 .. End : AtComment(q)}
           next == [q \in 1 .. End |-> IF AtComment(q) THEN NextLine(Word(q)) ELSE q]
           val == [q \in 1 .. End |-> Word(q)]
<1>4. PICK f \in [1 .. End -> 1 .. End] :
              \A q \in 1 .. End : f[q] = IF q \in Go THEN f[next[q]] ELSE val[q]
  <2>1. Go \in SUBSET (1 .. End) /\ \A q \in Go : next[q] > q
    BY <1>1, <1>3
  <2>2. next \in [1 .. End -> 1 .. End]
    BY <1>1, <1>3
  <2>3. val \in [1 .. End -> 1 .. End]
    BY <1>1, <1>2
  <2> HIDE DEF Go, next, val
  <2>4. LaterFunctions(End, Go, next, val) # {}
    BY <1>1, <2>1, <2>2, <2>3, LaterValues DEF LaterGiven
  <2> QED
    BY <2>4 DEF LaterFunctions
<1> DEFINE Skip(g) == [q \in 1 .. End |->
        LET word == Past(q, Spaces) IN
        IF word < End /\ text[word] = "#" THEN g[NextLine(word)] ELSE word]
    skip == CHOOSE g : g = Skip(g)
<1>5. f = Skip(f)
  BY <1>4 DEF AtComment, Word
<1>6. skip = Skip(skip)
  <2> HIDE DEF Skip
  <2> QED
    BY <1>5
<1>7. \A q \in 1 .. End : skip_comments(q) = skip[q]
  BY DEF skip_comments
<1>8. \A q \in 1 .. End : skip[q] = IF AtComment(q) THEN skip[NextLine(Word(q))] ELSE Word(q)
  <2> HIDE DEF skip
  <2> QED
    BY <1>6 DEF AtComment, Word
<1> HIDE DEF skip
<1>9. AtComment(p) => NextLine(Word(p)) \in 1 .. End
  BY <1>1, <1>3
<1> QED
  BY <1>7, <1>8, <1>9

(* No comment is open at p. *)
Clean(p) == ~\E h \in 1 .. p - 1 : text[h] = "#" /\ \A k \in h .. p - 1 : text[k] # "\n"

(* Where skip_comments stops, and what it skips. *)
Skips(p) ==
    /\ skip_comments(p) \in p .. End
    /\ skip_comments(p) < End => text[skip_comments(p)] \notin Spaces \cup {"#"}
    /\ \A c \in p .. skip_comments(p) - 1 : Blank(c)
    /\ Clean(p) => skip_comments(p) = End \/ Clean(skip_comments(p))

LEMMA WordFacts ==
    ASSUME Text, NEW p \in 1 .. End
    PROVE  /\ Word(p) \in p .. End
           /\ \A k \in p .. Word(p) - 1 : text[k] \in Spaces
           /\ Word(p) < End => text[Word(p)] \notin Spaces
BY PastFacts DEF Word

LEMMA SkipsWord ==
    ASSUME Text, NEW p \in 1 .. End, ~AtComment(p)
    PROVE  Skips(p)
<1> DEFINE s == Word(p)
<1>1. End \in Nat \ {0} /\ p \in Nat
  BY TextFacts
<1>2. skip_comments(p) = s
  BY SkipEquation
<1>3. /\ s \in p .. End
      /\ \A k \in p .. s - 1 : text[k] \in Spaces
      /\ s < End => text[s] \notin Spaces \cup {"#"}
  BY WordFacts DEF AtComment
<1> HIDE DEF s
<1>4. \A c \in p .. s - 1 : Blank(c)
  BY <1>3 DEF Blank
<1>5. ASSUME Clean(p) PROVE Clean(s)
  <2> SUFFICES ASSUME NEW h \in 1 .. s - 1, text[h] = "#", \A k \in h .. s - 1 : text[k] # "\n"
               PROVE  FALSE
    BY DEF Clean
  <2>1. CASE h >= p
    <3>1. h \in p .. s - 1
      BY <1>1, <1>3, <2>1
    <3>2. text[h] \in Spaces
      BY <1>3, <3>1
    <3> QED
      BY <3>2 DEF Spaces
  <2>2. CASE ~(h >= p)
    <3>1. h \in 1 .. p - 1 /\ \A k \in h .. p - 1 : text[k] # "\n"
      BY <1>1, <1>3, <2>2
    <3> QED
      BY <1>5, <3>1 DEF Clean
  <2> QED
    BY <2>1, <2>2
<1> QED
  BY <1>2, <1>3, <1>4, <1>5 DEF Skips

LEMMA SkipsComment ==
    ASSUME Text, NEW p \in 1 .. End, AtComment(p)
    PROVE  /\ NextLine(Word(p)) \in p + 1 .. End
           /\ Skips(NextLine(Word(p))) => Skips(p)
<1> DEFINE w == Word(p)
           m == NextLine(w)
<1>1. End \in Nat \ {0} /\ p \in Nat
  BY TextFacts
<1>2. /\ w \in p .. End /\ w < End /\ text[w] = "#"
      /\ \A k \in p .. w - 1 : text[k] \in Spaces
  BY WordFacts DEF AtComment
<1>3. /\ m \in w + 1 .. End
      /\ text[m - 1] # "\n" => m = End
      /\ \A k \in w .. m - 1 : k = m - 1 \/ text[k] # "\n"
  <2> HIDE DEF w
  <2>1. w \in 1 .. End
    BY <1>1, <1>2
  <2> QED
    BY <1>2, <2>1, NextLineFacts
<1>4. skip_comments(p) = skip_comments(m)
  BY SkipEquation
<1> HIDE DEF w, m
<1>5. m \in p + 1 .. End
  BY <1>1, <1>2, <1>3
<1>6. \A c \in p .. m - 1 : Blank(c)
  <2> SUFFICES ASSUME NEW c \in p .. m - 1 PROVE Blank(c)
    OBVIOUS
  <2>1. CASE c < w
    BY <1>1, <1>2, <2>1 DEF Blank
  <2>2. CASE text[c] = "\n"
    BY <2>2 DEF Blank, Spaces
  <2>3. CASE ~(c < w) /\ text[c] # "\n"
    <3>1. w \in 1 .. c
      BY <1>1, <1>2, <2>3
    <3>2. \A k \in w .. c : text[k] # "\n"
      BY <1>1, <1>2, <1>3, <2>3
    <3> QED
      BY <1>2, <3>1, <3>2 DEF Blank
  <2> QED
    BY <2>1, <2>2, <2>3
<1>7. m = End \/ Clean(m)
  <2> SUFFICES ASSUME text[m - 1] = "\n", NEW h \in 1 .. m - 1,
                      \A k \in h .. m - 1 : text[k] # "\n"
               PROVE  FALSE
    BY <1>3 DEF Clean
  <2>1. m - 1 \in h .. m - 1
    BY <1>1, <1>5
  <2> QED
    BY <2>1
<1>8. ASSUME Skips(m) PROVE Skips(p)
  <2> DEFINE s == skip_comments(m)
  <2>1. /\ s \in m .. End
        /\ s < End => text[s] \notin Spaces \cup {"#"}
        /\ \A c \in m .. s - 1 : Blank(c)
        /\ Clean(m) => s = End \/ Clean(s)
    BY <1>8 DEF Skips
  <2> HIDE DEF s
  <2>2. s \in p .. End
    BY <1>1, <1>5, <2>1
  <2>3. \A c \in p .. s - 1 : Blank(c)
    BY <1>1, <1>5, <1>6, <2>1
  <2>4. s = End \/ Clean(s)
    BY <1>1, <1>5, <1>7, <2>1
  <2> QED
    BY <1>4, <2>1, <2>2, <2>3, <2>4 DEF Skips, s
<1> QED
  BY <1>5, <1>8 DEF w, m

LEMMA SkipFacts ==
    ASSUME Text, NEW p \in 1 .. End
    PROVE  Skips(p)
<1>1. End \in Nat \ {0} /\ \A q \in 1 .. End : q \in Nat
  BY TextFacts
<1> DEFINE S == {d \in Nat : \A q \in 1 .. End : q + d >= End => Skips(q)}
<1>2. 0 \in S
  <2> SUFFICES ASSUME NEW q \in 1 .. End, q + 0 >= End PROVE Skips(q)
    OBVIOUS
  <2>1. q = End
    BY <1>1
  <2>2. ~AtComment(q)
    BY <1>1, <2>1, WordFacts DEF AtComment
  <2> QED
    BY <2>2, SkipsWord
<1>3. ASSUME NEW d \in Nat, d \in S PROVE d + 1 \in S
  <2> SUFFICES ASSUME NEW q \in 1 .. End, q + (d + 1) >= End PROVE Skips(q)
    BY <1>3
  <2>1. CASE AtComment(q)
    <3> DEFINE m == NextLine(Word(q))
    <3>1. m \in q + 1 .. End
      BY <2>1, SkipsComment
    <3>2. m \in 1 .. End /\ m + d >= End
      BY <1>1, <3>1
    <3>3. Skips(m)
      BY <1>3, <3>2
    <3> QED
      BY <2>1, <3>3, SkipsComment
  <2>2. CASE ~AtComment(q)
    BY <2>2, SkipsWord
  <2> QED
    BY <2>1, <2>2
<1>4. End \in S
  BY <1>1, <1>2, <1>3, SetInduction
<1> QED
  BY <1>1, <1>4

(* skip_comments has nothing left to do where it stopped. *)
LEMMA SkipTwice ==
    ASSUME Text, NEW p \in 1 .. End
    PROVE  /\ skip_comments(p) \in 1 .. End
           /\ skip_comments(skip_comments(p)) = skip_comments(p)
<1> DEFINE s == skip_comments(p)
<1>1. End \in Nat \ {0} /\ p \in Nat
  BY TextFacts
<1>2. s \in p .. End /\ (s < End => text[s] \notin Spaces \cup {"#"})
  BY SkipFacts DEF Skips
<1> HIDE DEF s
<1>3. s \in 1 .. End
  BY <1>1, <1>2
<1>4. Word(s) = s
  BY <1>1, <1>2, <1>3, WordFacts
<1>5. skip_comments(s) = s
  BY <1>1, <1>2, <1>3, <1>4, SkipEquation DEF AtComment
<1> QED
  BY <1>3, <1>5 DEF s

-----------------------------------------------------------------------------
(* The attempts. *)

Gaps == Spaces \cup {"#"}

LEMMA DigitRange == Range(Digits) = {"0", "1", "2", "3", "4", "5", "6", "7", "8", "9"}
<1>1. DOMAIN Digits = 1 .. 10
  BY DEF Digits
<1>2. Range(Digits) = {Digits[i] : i \in 1 .. 10}
  BY <1>1 DEF Range
<1>3. 1 .. 10 = {1, 2, 3, 4, 5, 6, 7, 8, 9, 10}
  OBVIOUS
<1>4. /\ Digits[1] = "0" /\ Digits[2] = "1" /\ Digits[3] = "2" /\ Digits[4] = "3"
      /\ Digits[5] = "4" /\ Digits[6] = "5" /\ Digits[7] = "6" /\ Digits[8] = "7"
      /\ Digits[9] = "8" /\ Digits[10] = "9"
  BY DEF Digits
<1> HIDE DEF Digits
<1> QED
  BY <1>2, <1>3, <1>4

LEMMA CharFacts ==
    /\ WordChars \cap Gaps = {} /\ WordChars \cap OneCharOperators = {}
    /\ OneCharOperators \cap Gaps = {} /\ Range(Digits) \subseteq WordChars
    /\ Letters \subseteq WordChars
    /\ "*" \notin Gaps /\ "@" \notin Gaps /\ "*" \notin WordChars /\ "@" \notin WordChars
BY DigitRange DEF WordChars, Gaps, Spaces, OneCharOperators, Letters

LEMMA StartsFacts ==
    ASSUME Text, NEW s \in 1 .. End, NEW T, NEW pre \in Seq(T), starts_with(s, pre)
    PROVE  /\ s + Len(pre) \in s .. End
           /\ \A i \in 1 .. Len(pre) : text[s + i - 1] = pre[i]
           /\ \A c \in s .. s + Len(pre) - 1 : text[c] \in T
<1>1. /\ End \in Nat \ {0} /\ s \in Nat /\ Len(text) = End - 1
      /\ \A k \in 1 .. End - 1 : text[k] \in Alphabet
  BY TextFacts
<1>2. Len(pre) \in Nat /\ \A i \in 1 .. Len(pre) : pre[i] \in T
  BY ElementOfSeq
<1>3. s + Len(pre) <= End /\ SubSeq(text, s, s + Len(pre) - 1) = pre
  BY DEF starts_with
<1> DEFINE e == s + Len(pre) - 1
<1>4. e \in Int /\ s \in Int /\ e <= End - 1
  BY <1>1, <1>2, <1>3
<1>5. \A i \in s .. e : text[i] \in Alphabet
  BY <1>1, <1>4
<1> HIDE DEF e
<1>6. \A i \in 1 .. e - s + 1 : SubSeq(text, s, e)[i] = text[s + i - 1]
  BY <1>4, <1>5, SubSeqProperties
<1>7. \A i \in 1 .. Len(pre) : text[s + i - 1] = pre[i]
  BY <1>1, <1>2, <1>3, <1>6 DEF e
<1>8. ASSUME NEW c \in s .. s + Len(pre) - 1 PROVE text[c] \in T
  <2>1. c - s + 1 \in 1 .. Len(pre) /\ s + (c - s + 1) - 1 = c
    BY <1>1, <1>2
  <2> QED
    BY <1>2, <1>7, <2>1
<1> QED
  BY <1>1, <1>2, <1>3, <1>7, <1>8

(* A word from p to q, cut out of the text. *)
LEMMA CutFacts ==
    ASSUME Text, NEW p \in 1 .. End, NEW q \in p .. End
    PROVE  /\ SubSeq(text, p, q - 1) \in Seq(Alphabet)
           /\ Len(SubSeq(text, p, q - 1)) = q - p
           /\ \A i \in 1 .. q - p : SubSeq(text, p, q - 1)[i] = text[p + i - 1]
<1>1. /\ End \in Nat \ {0} /\ p \in Nat
      /\ \A k \in 1 .. End - 1 : text[k] \in Alphabet
  BY TextFacts
<1> DEFINE e == q - 1
<1>2. e \in Int /\ p \in Int /\ e <= End - 1 /\ e + 1 = q /\ p <= e + 1
  BY <1>1
<1>3. \A i \in p .. e : text[i] \in Alphabet
  BY <1>1, <1>2
<1> HIDE DEF e
<1>4. /\ SubSeq(text, p, e) \in Seq(Alphabet)
      /\ Len(SubSeq(text, p, e)) = IF p <= e THEN e - p + 1 ELSE 0
      /\ \A i \in 1 .. e - p + 1 : SubSeq(text, p, e)[i] = text[p + i - 1]
  BY <1>2, <1>3, SubSeqProperties
<1>5. Len(SubSeq(text, p, e)) = q - p
  BY <1>2, <1>4
<1>6. e - p + 1 = q - p
  BY <1>2
<1> QED
  BY <1>4, <1>5, <1>6 DEF e

(* r is what an attempt at s left: what it took is no blank. *)
Fits(s, r) ==
    /\ r = Took(s, r.size) /\ r.size \in Nat /\ r.at = s + r.size
    /\ r.at \in s .. End
    /\ \A c \in s .. r.at - 1 : text[c] \notin Gaps

(* What is true of a token of a kind. *)
Taken(kind, first, next) ==
    /\ kind = "name" =>
          /\ (next < End => text[next] \notin WordChars)
          /\ SubSeq(text, first, next - 1) \notin Keywords
    /\ kind = "number" => \A c \in first .. next - 1 : text[c] \in Range(Digits)
    /\ kind = "operator" =>
          /\ \A c \in first .. next - 1 : text[c] \in OneCharOperators
          /\ \A o \in TwoCharOperators : starts_with(first, o) => next = first + 2
    /\ kind = "type" =>
          (next < End /\ text[next] \in WordChars => text[next - 1] = "*")

LEMMA TookFits ==
    ASSUME Text, NEW s \in 1 .. End, NEW n \in Nat, s + n <= End,
           \A c \in s .. s + n - 1 : text[c] \notin Gaps
    PROVE  Fits(s, Took(s, n)) /\ Took(s, n).size = n /\ Took(s, n).at = s + n
<1>1. Took(s, n).size = n /\ Took(s, n).at = s + n
  BY DEF Took
<1>2. s + n \in s .. End
  BY TextFacts
<1> QED
  BY <1>1, <1>2 DEF Fits

LEMMA ConsumeFits ==
    ASSUME Text, NEW p \in 1 .. End, NEW pre \in Punctuation
    PROVE  Fits(skip_comments(p), try_consume(p, pre))
<1> DEFINE s == skip_comments(p)
<1>1. s \in 1 .. End /\ s \in Nat /\ End \in Nat
  BY SkipTwice, TextFacts
<1>2. pre \in Seq(Alphabet \ Gaps) /\ Len(pre) \in Nat
  <2>1. Punctuation \subseteq Seq(Alphabet \ Gaps) \ {<< >>}
    BY ONLY LexerAssumption DEF Gaps
  <2> QED
    BY <2>1
<1>3. try_consume(p, pre) = Took(s, IF starts_with(s, pre) THEN Len(pre) ELSE 0)
  BY DEF try_consume
<1> HIDE DEF s
<1>4. CASE starts_with(s, pre)
  <2>1. /\ s + Len(pre) \in s .. End
        /\ \A c \in s .. s + Len(pre) - 1 : text[c] \in Alphabet \ Gaps
    BY <1>1, <1>2, <1>4, StartsFacts
  <2>2. Fits(s, Took(s, Len(pre)))
    BY <1>1, <1>2, <2>1, TookFits
  <2> QED
    BY <1>3, <1>4, <2>2 DEF s
<1>5. CASE ~starts_with(s, pre)
  <2>1. Fits(s, Took(s, 0))
    BY <1>1, TookFits
  <2> QED
    BY <1>3, <1>5, <2>1 DEF s
<1> QED
  BY <1>4, <1>5

(* Where no word begins there is none; else it goes as far as it can. *)
LEMMA WordAtFacts ==
    ASSUME Text, NEW s \in 1 .. End
    PROVE  /\ Len(WordAt(s)) \in Nat /\ s + Len(WordAt(s)) \in s .. End
           /\ \A c \in s .. s + Len(WordAt(s)) - 1 : text[c] \in WordChars
           /\ s + Len(WordAt(s)) < End /\ Len(WordAt(s)) > 0 =>
                 text[s + Len(WordAt(s))] \notin WordChars
           /\ WordAt(s) # << >> => WordAt(s) = SubSeq(text, s, s + Len(WordAt(s)) - 1)
           /\ WordAt(s) # << >> <=> s < End /\ text[s] \in Letters
           /\ WordAt(s) # << >> <=> Len(WordAt(s)) > 0
<1>1. /\ End \in Nat \ {0} /\ s \in Nat
  BY TextFacts
<1>2. CASE s < End /\ text[s] \in Letters
  <2> DEFINE q == Past(s, WordChars)
  <2>1. /\ q \in s .. End
        /\ \A k \in s .. q - 1 : text[k] \in WordChars
        /\ q < End => text[q] \notin WordChars
    BY PastFacts
  <2>2. WordAt(s) = SubSeq(text, s, q - 1)
    BY <1>2 DEF WordAt
  <2> HIDE DEF q
  <2>3. q # s
    BY <1>1, <1>2, <2>1, CharFacts
  <2>4. Len(WordAt(s)) = q - s
    BY <2>1, <2>2, CutFacts
  <2>5. q - s > 0 /\ q - s \in Nat /\ s + (q - s) = q
    BY <1>1, <2>1, <2>3
  <2>6. WordAt(s) # << >>
    <3>1. Len(<< >>) = 0
      OBVIOUS
    <3> QED
      BY <2>4, <2>5, <3>1
  <2> QED
    BY <1>2, <2>1, <2>2, <2>4, <2>5, <2>6
<1>3. CASE ~(s < End /\ text[s] \in Letters)
  <2>1. WordAt(s) = << >>
    BY <1>3 DEF WordAt
  <2>2. Len(WordAt(s)) = 0
    BY <2>1
  <2>3. s + 0 = s /\ s \in s .. End /\ s .. s - 1 = {}
    BY <1>1
  <2> QED
    BY <1>1, <1>3, <2>1, <2>2, <2>3
<1> QED
  BY <1>2, <1>3

LEMMA NameFits ==
    ASSUME Text, NEW p \in 1 .. End
    PROVE  /\ Fits(skip_comments(p), try_name(p))
           /\ try_name(p).size > 0 =>
                 Taken("name", skip_comments(p), try_name(p).at)
<1> DEFINE s == skip_comments(p)
           n == IF WordAt(s) \in Keywords THEN 0 ELSE Len(WordAt(s))
<1>1. s \in 1 .. End /\ s \in Nat /\ End \in Nat
  BY SkipTwice, TextFacts
<1>2. try_name(p) = Took(s, n)
  BY DEF try_name
<1> HIDE DEF s
<1>3. n \in Nat /\ s + n <= End /\ \A c \in s .. s + n - 1 : text[c] \notin Gaps
  <2>1. CASE WordAt(s) \in Keywords
    BY <1>1, <2>1
  <2>2. CASE WordAt(s) \notin Keywords
    <3> DEFINE m == Len(WordAt(s))
    <3>1. m \in Nat /\ s + m \in s .. End /\ \A c \in s .. s + m - 1 : text[c] \in WordChars
      BY <1>1, WordAtFacts
    <3>2. n = m
      BY <2>2
    <3> HIDE DEF m, n
    <3> QED
      BY <1>1, <3>1, <3>2, CharFacts
  <2> QED
    BY <2>1, <2>2
<1>4. Fits(s, Took(s, n)) /\ Took(s, n).size = n /\ Took(s, n).at = s + n
  BY <1>1, <1>3, TookFits
<1>5. ASSUME n > 0 PROVE Taken("name", s, s + n)
  <2>1. WordAt(s) \notin Keywords /\ n = Len(WordAt(s))
    BY <1>5
  <2> DEFINE q == s + n
  <2>2. q < End => text[q] \notin WordChars
    BY <1>1, <1>5, <2>1, WordAtFacts
  <2>3. SubSeq(text, s, q - 1) \notin Keywords
    <3>1. Len(WordAt(s)) > 0
      BY <1>5, <2>1
    <3>2. WordAt(s) = SubSeq(text, s, s + Len(WordAt(s)) - 1)
      BY <1>1, <3>1, WordAtFacts
    <3>3. q - 1 = s + Len(WordAt(s)) - 1
      BY <1>1, <2>1
    <3> QED
      BY <2>1, <3>2, <3>3
  <2> HIDE DEF q
  <2>4. Taken("name", s, q)
    BY <2>2, <2>3 DEF Taken
  <2> QED
    BY <2>4 DEF q
<1> QED
  BY <1>2, <1>4, <1>5 DEF s

LEMMA NumberFits ==
    ASSUME Text, NEW p \in 1 .. End
    PROVE  /\ Fits(skip_comments(p), try_number(p))
           /\ Taken("number", skip_comments(p), try_number(p).at)
<1> DEFINE s == skip_comments(p)
           q == Past(s, Range(Digits))
<1>1. s \in 1 .. End /\ s \in Nat /\ End \in Nat
  BY SkipTwice, TextFacts
<1>2. try_number(p) = Took(s, q - s)
  BY DEF try_number
<1> HIDE DEF s
<1>3. /\ q \in s .. End /\ \A c \in s .. q - 1 : text[c] \in Range(Digits)
  BY <1>1, PastFacts
<1> HIDE DEF q
<1>4. q - s \in Nat /\ s + (q - s) = q
  BY <1>1, <1>3
<1>5. \A c \in s .. q - 1 : text[c] \notin Gaps
  BY <1>3, CharFacts
<1>6. /\ Fits(s, Took(s, q - s))
      /\ Took(s, q - s).at = q
  BY <1>1, <1>3, <1>4, <1>5, TookFits
<1>7. Taken("number", s, q)
  BY <1>3 DEF Taken
<1> QED
  BY <1>2, <1>6, <1>7 DEF s

LEMMA TwoChars ==
    ASSUME NEW o \in TwoCharOperators
    PROVE  o \in Seq(OneCharOperators) /\ Len(o) = 2
<1>1. \A a, b \in OneCharOperators : <<a, b>> \in Seq(OneCharOperators) /\ Len(<<a, b>>) = 2
  OBVIOUS
<1>2. {"+", "-", "*", "/", "%", ".", "&", "|", "^", "!", "=", "<", ">"} = OneCharOperators
  BY DEF OneCharOperators
<1>3. \E a, b \in OneCharOperators : o = <<a, b>>
  BY <1>2 DEF TwoCharOperators
<1> QED
  BY <1>1, <1>3

LEMMA OperatorFacts ==
    ASSUME Text, NEW s \in 1 .. End
    PROVE  /\ peek_operator(s) \in Nat /\ s + peek_operator(s) <= End
           /\ \A c \in s .. s + peek_operator(s) - 1 : text[c] \in OneCharOperators
           /\ \A o \in TwoCharOperators : starts_with(s, o) => peek_operator(s) = 2
<1>1. s \in Nat /\ End \in Nat
  BY TextFacts
<1>2. CASE \E o \in TwoCharOperators : starts_with(s, o)
  <2>1. PICK o \in TwoCharOperators : starts_with(s, o)
    BY <1>2
  <2>2. o \in Seq(OneCharOperators) /\ Len(o) = 2
    BY TwoChars
  <2>3. peek_operator(s) = 2
    BY <1>2 DEF peek_operator
  <2>4. s + 2 \in s .. End /\ \A c \in s .. s + 2 - 1 : text[c] \in OneCharOperators
    BY <2>1, <2>2, StartsFacts
  <2> QED
    BY <1>1, <2>3, <2>4
<1>3. CASE /\ ~\E o \in TwoCharOperators : starts_with(s, o)
           /\ s < End /\ text[s] \in OneCharOperators
  <2>1. peek_operator(s) = 1
    BY <1>3 DEF peek_operator
  <2> QED
    BY <1>1, <1>3, <2>1
<1>4. CASE /\ ~\E o \in TwoCharOperators : starts_with(s, o)
           /\ ~(s < End /\ text[s] \in OneCharOperators)
  <2>1. peek_operator(s) = 0
    BY <1>4 DEF peek_operator
  <2> QED
    BY <1>1, <1>4, <2>1
<1> QED
  BY <1>2, <1>3, <1>4

LEMMA OperatorFits ==
    ASSUME Text, NEW p \in 1 .. End
    PROVE  /\ Fits(skip_comments(p), try_operator(p))
           /\ Taken("operator", skip_comments(p), try_operator(p).at)
<1> DEFINE s == skip_comments(p)
           n == peek_operator(s)
<1>1. s \in 1 .. End /\ s \in Nat /\ End \in Nat
  BY SkipTwice, TextFacts
<1>2. try_operator(p) = Took(s, n)
  BY DEF try_operator
<1> HIDE DEF s
<1>3. /\ n \in Nat /\ s + n <= End
      /\ \A c \in s .. s + n - 1 : text[c] \in OneCharOperators
      /\ \A o \in TwoCharOperators : starts_with(s, o) => n = 2
  BY <1>1, OperatorFacts
<1> HIDE DEF n
<1>4. /\ Fits(s, Took(s, n)) /\ Took(s, n).at = s + n
  BY <1>1, <1>3, TookFits, CharFacts
<1>5. Taken("operator", s, s + n)
  <2> DEFINE q == s + n
  <2>1. \A c \in s .. q - 1 : text[c] \in OneCharOperators
    BY <1>1, <1>3
  <2>2. n = 2 => q = s + 2
    OBVIOUS
  <2> HIDE DEF q
  <2>3. \A o \in TwoCharOperators : starts_with(s, o) => q = s + 2
    BY <1>3, <2>2
  <2>4. Taken("operator", s, q)
    BY <2>1, <2>3 DEF Taken
  <2> QED
    BY <2>4 DEF q
<1> QED
  BY <1>2, <1>4, <1>5 DEF s

LEMMA TypeFits ==
    ASSUME Text, NEW p \in 1 .. End
    PROVE  /\ Fits(skip_comments(p), parse_type(p))
           /\ parse_type(p).size > 0 =>
                 Taken("type", skip_comments(p), parse_type(p).at)
<1> DEFINE s == skip_comments(p)
           word == Past(s + 1, WordChars)
           q == Past(word, {"*"})
<1>1. s \in 1 .. End /\ s \in Nat /\ End \in Nat
  BY SkipTwice, TextFacts
<1>2. parse_type(p) = IF starts_with(s, <<"@">>) THEN Took(s, q - s) ELSE Took(s, 0)
  BY DEF parse_type
<1> HIDE DEF s
<1>3. CASE ~starts_with(s, <<"@">>)
  <2>1. Fits(s, Took(s, 0)) /\ Took(s, 0).size = 0
    BY <1>1, TookFits
  <2> QED
    BY <1>2, <1>3, <2>1 DEF s
<1>4. CASE starts_with(s, <<"@">>)
  <2> DEFINE pre == <<"@">>
  <2>1. pre \in Seq({"@"}) /\ Len(pre) = 1 /\ starts_with(s, pre)
    BY <1>4
  <2> HIDE DEF pre
  <2>2. s + 1 \in s .. End /\ text[s] = "@"
    <3>1. /\ s + Len(pre) \in s .. End
          /\ \A c \in s .. s + Len(pre) - 1 : text[c] \in {"@"}
      BY <1>1, <2>1, StartsFacts
    <3> QED
      BY <1>1, <2>1, <3>1
  <2>3. s + 1 \in 1 .. End
    BY <1>1, <2>2
  <2>4. /\ word \in s + 1 .. End
        /\ \A c \in s + 1 .. word - 1 : text[c] \in WordChars
        /\ word < End => text[word] \notin WordChars
    BY <2>3, PastFacts
  <2> HIDE DEF word
  <2>5. word \in 1 .. End
    BY <1>1, <2>4
  <2>6. q \in word .. End /\ \A c \in word .. q - 1 : text[c] \in {"*"}
    BY <2>5, PastFacts
  <2> HIDE DEF q
  <2>7. q - s \in Nat /\ s + (q - s) = q /\ q <= End
    BY <1>1, <2>4, <2>6
  <2>8. ASSUME NEW c \in s .. q - 1 PROVE text[c] \notin Gaps
    <3>1. c = s \/ c \in s + 1 .. word - 1 \/ c \in word .. q - 1
      BY <1>1, <2>4, <2>6
    <3> QED
      BY <2>2, <2>4, <2>6, <3>1, CharFacts
  <2>9. Fits(s, Took(s, q - s)) /\ Took(s, q - s).at = q
    BY <1>1, <2>7, <2>8, TookFits
  <2>10. q < End /\ text[q] \in WordChars => text[q - 1] = "*"
    <3>1. CASE q = word
      BY <2>4, <3>1
    <3>2. CASE q # word
      <4>1. q - 1 \in word .. q - 1
        BY <1>1, <2>4, <2>6, <3>2
      <4> QED
        BY <2>6, <4>1
    <3> QED
      BY <3>1, <3>2
  <2>11. Taken("type", s, q)
    BY <2>10 DEF Taken
  <2> QED
    BY <1>2, <1>4, <2>9, <2>11 DEF s
<1> QED
  BY <1>3, <1>4

(* An attempt at p: it is made behind the blanks, with what it takes. *)
LEMMA AttemptFacts ==
    ASSUME Text, NEW p \in 1 .. End, NEW a \in Attempts(p)
    PROVE  /\ a = [kind |-> a.kind, result |-> a.result]
           /\ a.kind \in Kinds
           /\ Fits(skip_comments(p), a.result)
           /\ a.result.size > 0 => Taken(a.kind, skip_comments(p), a.result.at)
           /\ a.kind = "name" => a.result = try_name(p)
<1> DEFINE s == skip_comments(p)
<1>1. CASE \E pre \in Punctuation : a = [kind |-> "punctuation", result |-> try_consume(p, pre)]
  <2>1. PICK pre \in Punctuation : a = [kind |-> "punctuation", result |-> try_consume(p, pre)]
    BY <1>1
  <2>2. a.kind = "punctuation" /\ a.result = try_consume(p, pre)
    BY <2>1
  <2>3. Fits(s, a.result)
    BY <2>2, ConsumeFits
  <2>4. Taken(a.kind, s, a.result.at)
    BY <2>2 DEF Taken
  <2> QED
    BY <2>1, <2>2, <2>3, <2>4 DEF Kinds
<1>2. CASE a = [kind |-> "name", result |-> try_name(p)]
  BY <1>2, NameFits DEF Kinds
<1>3. CASE a = [kind |-> "number", result |-> try_number(p)]
  BY <1>3, NumberFits DEF Kinds
<1>4. CASE a = [kind |-> "operator", result |-> try_operator(p)]
  BY <1>4, OperatorFits DEF Kinds
<1>5. CASE a = [kind |-> "type", result |-> parse_type(p)]
  BY <1>5, TypeFits DEF Kinds
<1> QED
  BY <1>1, <1>2, <1>3, <1>4, <1>5 DEF Attempts

(* Whatever is tried is tried behind the blanks. *)
LEMMA SameAttempts ==
    ASSUME NEW p, NEW q, skip_comments(p) = skip_comments(q)
    PROVE  Attempts(p) = Attempts(q)
BY DEF Attempts, try_consume, try_name, try_number, try_operator, parse_type

-----------------------------------------------------------------------------
(* Numbers. *)

LEMMA BoundFacts == MaxLength \in Nat /\ Limit \in Nat \ {0}
BY ONLY LexerAssumption, Zenon

LEMMA DigitFacts ==
    ASSUME NEW c \in Range(Digits)
    PROVE  DigitValue(c) \in 0 .. 9
<1>1. DOMAIN Digits = 1 .. 10
  BY DEF Digits
<1>2. \E i \in DOMAIN Digits : Digits[i] = c
  BY DEF Range
<1> DEFINE i == CHOOSE j \in DOMAIN Digits : Digits[j] = c
<1>3. i \in DOMAIN Digits
  BY <1>2
<1>4. DigitValue(c) = i - 1
  BY DEF DigitValue
<1> HIDE DEF i
<1> QED
  BY <1>1, <1>3, <1>4

(* read is what from_chars has read after each digit. *)
Reads(digits, read) ==
    /\ read \in [0 .. Len(digits) -> Nat]
    /\ read[0] = 0
    /\ \A n \in 1 .. Len(digits) : read[n] = 10 * read[n - 1] + DigitValue(digits[n])

LEMMA DecimalFacts ==
    ASSUME NEW digits, Len(digits) \in Nat, \A i \in 1 .. Len(digits) : digits[i] \in Range(Digits)
    PROVE  \E read : Reads(digits, read) /\ Decimal(digits) = read[Len(digits)]
<1> DEFINE m == Len(digits)
           d == [i \in 1 .. m |-> DigitValue(digits[i])]
           Step(g) == [n \in 0 .. m |-> IF n = 0 THEN 0 ELSE 10 * g[n - 1] + DigitValue(digits[n])]
           read == CHOOSE g : g = Step(g)
<1>1. PICK f \in [0 .. m -> Nat] : \A n \in 0 .. m : f[n] = IF n = 0 THEN 0 ELSE 10 * f[n - 1] + d[n]
  <2>1. d \in [1 .. m -> Nat]
    BY DigitFacts
  <2> HIDE DEF d
  <2>2. HornerFunctions(m, 0, d) # {}
    BY <2>1, HornerValues DEF HornerGiven
  <2> QED
    BY <2>2 DEF HornerFunctions
<1>2. f = Step(f)
  <2>1. ASSUME NEW n \in 0 .. m PROVE f[n] = Step(f)[n]
    <3>1. CASE n = 0
      BY <1>1, <3>1
    <3>2. CASE n # 0
      <4>1. n \in 1 .. m
        BY <3>2
      <4>2. f[n] = 10 * f[n - 1] + d[n] /\ d[n] = DigitValue(digits[n])
        BY <1>1, <3>2, <4>1
      <4> QED
        BY <3>2, <4>2
    <3> QED
      BY <3>1, <3>2
  <2> QED
    BY <2>1
<1>3. read = Step(read)
  <2> HIDE DEF Step
  <2> QED
    BY <1>2
<1>4. Decimal(digits) = read[m]
  BY DEF Decimal
<1> HIDE DEF read
<1>5. /\ read[0] = 0
      /\ \A n \in 1 .. m : read[n] = 10 * read[n - 1] + DigitValue(digits[n])
  BY <1>3
<1>6. \A n \in 0 .. m : read[n] \in Nat
  <2> DEFINE S == {n \in Nat : n <= m => read[n] \in Nat}
  <2>1. 0 \in S
    BY <1>5
  <2>2. ASSUME NEW n \in Nat, n \in S PROVE n + 1 \in S
    <3> SUFFICES ASSUME n + 1 <= m PROVE read[n + 1] \in Nat
      OBVIOUS
    <3>1. read[n] \in Nat /\ n + 1 \in 1 .. m /\ (n + 1) - 1 = n
      BY <2>2
    <3>2. read[n + 1] = 10 * read[n] + DigitValue(digits[n + 1])
      BY <1>5, <3>1
    <3>3. DigitValue(digits[n + 1]) \in 0 .. 9
      BY <3>1, DigitFacts
    <3> QED
      BY <3>1, <3>2, <3>3
  <2>3. Nat \subseteq S
    BY <2>1, <2>2, SetInduction
  <2> QED
    BY <2>3
<1>7. read \in [0 .. m -> Nat]
  BY <1>3, <1>6
<1> QED
  BY <1>4, <1>5, <1>7 DEF Reads

LEMMA TenFacts ==
    /\ Ten[0] = 1
    /\ \A k \in 1 .. MaxLength : Ten[k] = 10 * Ten[k - 1]
    /\ \A k \in 0 .. MaxLength : Ten[k] \in Nat \ {0}
<1>1. MaxLength \in Nat
  BY BoundFacts
<1> DEFINE d == [i \in 1 .. MaxLength |-> 0]
           Step(g) == [k \in 0 .. MaxLength |-> IF k = 0 THEN 1 ELSE 10 * g[k - 1]]
<1>2. PICK f \in [0 .. MaxLength -> Nat] :
         \A n \in 0 .. MaxLength : f[n] = IF n = 0 THEN 1 ELSE 10 * f[n - 1] + d[n]
  <2>1. d \in [1 .. MaxLength -> Nat]
    OBVIOUS
  <2> HIDE DEF d
  <2>2. HornerFunctions(MaxLength, 1, d) # {}
    BY <1>1, <2>1, HornerValues DEF HornerGiven
  <2> QED
    BY <2>2 DEF HornerFunctions
<1>3. f = Step(f)
  <2>1. ASSUME NEW n \in 0 .. MaxLength PROVE f[n] = Step(f)[n]
    <3>1. CASE n = 0
      BY <1>2, <3>1
    <3>2. CASE n # 0
      <4>1. n \in 1 .. MaxLength /\ n - 1 \in 0 .. MaxLength /\ d[n] = 0
        BY <1>1, <3>2
      <4>2. f[n] = 10 * f[n - 1] + d[n]
        BY <1>2, <3>2
      <4>3. f[n - 1] \in Nat
        BY <4>1
      <4> QED
        BY <3>2, <4>1, <4>2, <4>3
    <3> QED
      BY <3>1, <3>2
  <2> QED
    BY <2>1
<1>4. Ten = Step(Ten)
  <2>1. Ten = CHOOSE g : g = Step(g)
    BY DEF Ten
  <2> HIDE DEF Step
  <2> QED
    BY <1>3, <2>1
<1>5. /\ Ten[0] = 1
      /\ \A k \in 1 .. MaxLength : Ten[k] = 10 * Ten[k - 1]
  BY <1>1, <1>4
<1> DEFINE S == {k \in Nat : k <= MaxLength => Ten[k] \in Nat \ {0}}
<1>6. 0 \in S
  BY <1>5
<1>7. ASSUME NEW n \in Nat, n \in S PROVE n + 1 \in S
  <2> SUFFICES ASSUME n + 1 <= MaxLength PROVE Ten[n + 1] \in Nat \ {0}
    OBVIOUS
  <2>1. Ten[n] \in Nat \ {0} /\ n + 1 \in 1 .. MaxLength /\ (n + 1) - 1 = n
    BY <1>1, <1>7
  <2>2. Ten[n + 1] = 10 * Ten[n]
    BY <1>5, <2>1
  <2> QED
    BY <2>1, <2>2
<1>8. Nat \subseteq S
  BY <1>6, <1>7, SetInduction
<1> QED
  BY <1>5, <1>8

LEMMA DivTwice ==
    ASSUME NEW a \in Nat, NEW b \in Nat \ {0}
    PROVE  a \div (10 * b) = (a \div b) \div 10
OBVIOUS

LEMMA DropDigit ==
    ASSUME NEW a \in Nat, NEW d \in 0 .. 9, NEW n, n = 10 * a + d
    PROVE  n \div 10 = a /\ n % 10 = d
OBVIOUS

(* Without its last k digits, what was read is what was read before them. *)
LEMMA DigitsRead ==
    ASSUME NEW digits, Len(digits) \in 0 .. MaxLength,
           \A i \in 1 .. Len(digits) : digits[i] \in Range(Digits),
           NEW k \in 0 .. Len(digits) - 1
    PROVE  /\ Decimal(digits) \in Nat
           /\ (Decimal(digits) \div Ten[k]) % 10 = DigitValue(digits[Len(digits) - k])
<1> DEFINE m == Len(digits)
<1>1. m \in Nat /\ m <= MaxLength /\ MaxLength \in Nat
  BY BoundFacts
<1>2. PICK read : Reads(digits, read) /\ Decimal(digits) = read[m]
  BY <1>1, DecimalFacts
<1>3. /\ \A n \in 0 .. m : read[n] \in Nat
      /\ \A n \in 1 .. m : /\ read[n] = 10 * read[n - 1] + DigitValue(digits[n])
                           /\ DigitValue(digits[n]) \in 0 .. 9
  BY <1>2, DigitFacts DEF Reads
<1> HIDE DEF m
<1>4. \A n \in 1 .. m : read[n] \div 10 = read[n - 1] /\ read[n] % 10 = DigitValue(digits[n])
  <2> SUFFICES ASSUME NEW n \in 1 .. m
               PROVE  read[n] \div 10 = read[n - 1] /\ read[n] % 10 = DigitValue(digits[n])
    OBVIOUS
  <2>1. n - 1 \in 0 .. m
    BY <1>1
  <2>2. /\ read[n - 1] \in Nat /\ DigitValue(digits[n]) \in 0 .. 9
        /\ read[n] = 10 * read[n - 1] + DigitValue(digits[n])
    BY <1>3, <2>1
  <2> QED
    BY <2>2, DropDigit
<1> DEFINE S == {j \in Nat : j <= m => read[m] \div Ten[j] = read[m - j]}
<1>5. 0 \in S
  <2>1. read[m] \in Nat /\ Ten[0] = 1 /\ m - 0 = m
    BY <1>1, <1>3, TenFacts
  <2> QED
    BY <2>1
<1>6. ASSUME NEW j \in Nat, j \in S PROVE j + 1 \in S
  <2> SUFFICES ASSUME j + 1 <= m PROVE read[m] \div Ten[j + 1] = read[m - (j + 1)]
    OBVIOUS
  <2>1. read[m] \div Ten[j] = read[m - j]
    BY <1>1, <1>6
  <2>2. /\ j + 1 \in 1 .. MaxLength /\ j \in 0 .. MaxLength /\ (j + 1) - 1 = j
        /\ m - j \in 1 .. m /\ (m - j) - 1 = m - (j + 1)
    BY <1>1
  <2>3. Ten[j + 1] = 10 * Ten[j] /\ Ten[j] \in Nat \ {0}
    BY <2>2, TenFacts
  <2>4. read[m] \in Nat
    BY <1>1, <1>3
  <2>5. read[m] \div Ten[j + 1] = (read[m] \div Ten[j]) \div 10
    BY <2>3, <2>4, DivTwice
  <2>6. read[m - j] \div 10 = read[m - (j + 1)]
    BY <1>4, <2>2
  <2> QED
    BY <2>1, <2>5, <2>6
<1>7. Nat \subseteq S
  BY <1>5, <1>6, SetInduction
<1>8. k \in S /\ k <= m /\ m - k \in 1 .. m /\ m \in 0 .. m
  BY <1>1, <1>7 DEF m
<1>9. read[m] \div Ten[k] = read[m - k]
  BY <1>8
<1>10. read[m - k] % 10 = DigitValue(digits[m - k])
  BY <1>4, <1>8
<1> QED
  BY <1>2, <1>3, <1>8, <1>9, <1>10 DEF m

LEMMA FromCharsFacts ==
    ASSUME NEW digits, Len(digits) \in Nat, \A i \in 1 .. Len(digits) : digits[i] \in Range(Digits)
    PROVE  from_chars(digits) \in 0 .. Limit - 1 /\ Decimal(digits) \in Nat
<1>1. PICK read : Reads(digits, read) /\ Decimal(digits) = read[Len(digits)]
  BY DecimalFacts
<1>2. Decimal(digits) \in Nat
  BY <1>1 DEF Reads
<1> QED
  BY <1>2, BoundFacts DEF from_chars

-----------------------------------------------------------------------------
(* The invariant. *)

TokenRecord == [kind : Kinds, first : Nat, next : Nat, value : Nat]

(* What a token says of itself is what is in the text. *)
TokenFits(t) ==
    /\ 1 <= t.first /\ t.first < t.next /\ t.next <= End
    /\ \A c \in t.first .. t.next - 1 : ~Blank(c) /\ text[c] \notin Gaps
    /\ Taken(t.kind, t.first, t.next)
    /\ t.value = IF t.kind = "number" THEN from_chars(SubSeq(text, t.first, t.next - 1)) ELSE 0

InToken(c, ts) == \E i \in DOMAIN ts : ts[i].first <= c /\ c < ts[i].next

(* The tokens stand one behind the other, and between them and up to p there *)
(* are only blanks.                                                          *)
Tiled(p, ts) ==
    /\ \A i \in DOMAIN ts : TokenFits(ts[i]) /\ ts[i].next <= p
    /\ \A i, j \in DOMAIN ts : i < j => ts[i].next <= ts[j].first
    /\ \A c \in 1 .. p - 1 : InToken(c, ts) \/ Blank(c)
    /\ p = End \/ Clean(p)

(* Where the last token ends. *)
Behind(ts) == IF ts = << >> THEN 1 ELSE ts[Len(ts)].next

ErrorFits ==
    error # NoError =>
        /\ error = [context |-> at, found |-> FoundSize(at)]
        /\ skip_comments(at) = at

Inductive ==
    /\ Text /\ at \in 1 .. End
    /\ taken \in Seq(TokenRecord)
    /\ Tiled(at, taken)
    /\ skip_comments(at) = skip_comments(Behind(taken))
    /\ ErrorFits

(* Everything that is said about the text stays true: no step changes it. *)
LEMMA Same ==
    ASSUME text' = text
    PROVE  /\ End' = End /\ Text' = Text
           /\ \A p : skip_comments(p)' = skip_comments(p)
           /\ \A p : Clean(p)' = Clean(p)
           /\ \A c : Blank(c)' = Blank(c)
           /\ \A s : FoundSize(s)' = FoundSize(s)
           /\ \A t : TokenFits(t)' = TokenFits(t)
           /\ \A p, ts : Tiled(p, ts)' = Tiled(p, ts)
<1>1. End' = End
  BY DEF End
<1>2. ASSUME NEW q, NEW set PROVE Past(q, set)' = Past(q, set)
  BY <1>1 DEF Past
<1>3. ASSUME NEW q PROVE NextLine(q)' = NextLine(q)
  BY <1>1, <1>2 DEF NextLine, Least
<1>4. ASSUME NEW p PROVE skip_comments(p)' = skip_comments(p)
  BY <1>1, <1>2, <1>3 DEF skip_comments
<1>5. ASSUME NEW p PROVE Clean(p)' = Clean(p)
  BY DEF Clean
<1>6. ASSUME NEW c PROVE Blank(c)' = Blank(c)
  BY DEF Blank
<1>7. ASSUME NEW p, NEW pre PROVE starts_with(p, pre)' = starts_with(p, pre)
  BY <1>1 DEF starts_with
<1>8. ASSUME NEW s PROVE FoundSize(s)' = FoundSize(s)
  <2>1. KeywordsAt(s)' = KeywordsAt(s)
    BY <1>7 DEF KeywordsAt
  <2>2. WordAt(s)' = WordAt(s)
    BY <1>1, <1>2 DEF WordAt
  <2>3. peek_operator(s)' = peek_operator(s)
    BY <1>1, <1>7 DEF peek_operator
  <2> QED
    BY <1>1, <2>1, <2>2, <2>3 DEF FoundSize
<1>9. ASSUME NEW kind, NEW first, NEW next PROVE Taken(kind, first, next)' = Taken(kind, first, next)
  BY <1>1, <1>7 DEF Taken
<1>10. ASSUME NEW t PROVE TokenFits(t)' = TokenFits(t)
  BY <1>1, <1>6, <1>9 DEF TokenFits
<1>11. ASSUME NEW p, NEW ts PROVE Tiled(p, ts)' = Tiled(p, ts)
  BY <1>1, <1>5, <1>6, <1>10 DEF Tiled, InToken
<1>12. Text' = Text
  BY DEF Text
<1> QED
  BY <1>1, <1>4, <1>5, <1>6, <1>8, <1>10, <1>11, <1>12

(* Nothing in a token is blank, and it leaves no comment open. *)
LEMMA SolidFacts ==
    ASSUME Text, NEW s \in 1 .. End, NEW e \in s .. End, Clean(s),
           \A c \in s .. e - 1 : text[c] \notin Gaps
    PROVE  /\ \A c \in s .. e - 1 : ~Blank(c)
           /\ Clean(e)
<1>1. End \in Nat /\ s \in Nat /\ "#" \in Gaps
  BY TextFacts DEF Gaps
<1>2. \A h \in s .. e - 1 : text[h] # "#"
  BY <1>1
<1>3. ASSUME NEW c \in s .. e, NEW h \in 1 .. c - 1, text[h] = "#",
             \A k \in h .. c - 1 : text[k] # "\n"
      PROVE  FALSE
  <2>1. h \in 1 .. s - 1 /\ \A k \in h .. s - 1 : text[k] # "\n"
    BY <1>1, <1>2, <1>3
  <2> QED
    BY <1>3, <2>1 DEF Clean
<1>4. Clean(e)
  BY <1>1, <1>3 DEF Clean
<1>5. ASSUME NEW c \in s .. e - 1, Blank(c) PROVE FALSE
  <2>1. text[c] \notin Spaces
    BY DEF Gaps
  <2>2. PICK h \in 1 .. c : text[h] = "#" /\ \A k \in h .. c : text[k] # "\n"
    BY <1>5, <2>1 DEF Blank
  <2>3. c + 1 \in s .. e /\ h \in 1 .. (c + 1) - 1 /\ (c + 1) - 1 = c
    BY <1>1
  <2> QED
    BY <1>3, <2>2, <2>3
<1> QED
  BY <1>4, <1>5

LEMMA RecordFacts ==
    ASSUME NEW ts \in Seq(TokenRecord)
    PROVE  /\ Len(ts) \in Nat /\ DOMAIN ts = 1 .. Len(ts)
           /\ \A i \in DOMAIN ts :
                 /\ ts[i] \in TokenRecord
                 /\ ts[i].kind \in Kinds /\ ts[i].first \in Nat
                 /\ ts[i].next \in Nat /\ ts[i].value \in Nat
<1>1. Len(ts) \in Nat /\ DOMAIN ts = 1 .. Len(ts)
  OBVIOUS
<1>2. \A i \in DOMAIN ts : ts[i] \in TokenRecord
  BY <1>1, ElementOfSeq
<1>3. \A t \in TokenRecord : t.kind \in Kinds /\ t.first \in Nat /\ t.next \in Nat /\ t.value \in Nat
  BY DEF TokenRecord
<1> QED
  BY <1>1, <1>2, <1>3

(* Where only blanks are passed, the tokens stay as they were. *)
LEMMA TiledOn ==
    ASSUME Text, NEW p \in 1 .. End, NEW ts \in Seq(TokenRecord), Tiled(p, ts)
    PROVE  Tiled(skip_comments(p), ts)
<1> DEFINE s == skip_comments(p)
<1>1. End \in Nat /\ p \in Nat
  BY TextFacts
<1>2. /\ s \in p .. End
      /\ \A c \in p .. s - 1 : Blank(c)
      /\ Clean(p) => s = End \/ Clean(s)
  BY SkipFacts DEF Skips
<1> HIDE DEF s
<1>3. \A i \in DOMAIN ts : TokenFits(ts[i]) /\ ts[i].next <= p /\ ts[i].next \in Nat
  BY RecordFacts DEF Tiled
<1>4. \A i \in DOMAIN ts : ts[i].next <= s
  BY <1>1, <1>2, <1>3
<1>5. \A c \in 1 .. s - 1 : InToken(c, ts) \/ Blank(c)
  <2> SUFFICES ASSUME NEW c \in 1 .. s - 1 PROVE InToken(c, ts) \/ Blank(c)
    OBVIOUS
  <2>1. c \in 1 .. p - 1 \/ c \in p .. s - 1
    BY <1>1, <1>2
  <2> QED
    BY <1>2, <2>1 DEF Tiled
<1>6. s = End \/ Clean(s)
  <2>1. p = End \/ Clean(p)
    BY DEF Tiled
  <2> QED
    BY <1>1, <1>2, <2>1
<1> QED
  BY <1>3, <1>4, <1>5, <1>6 DEF Tiled, s

(* With another token. *)
LEMMA TiledWith ==
    ASSUME Text, NEW s \in 1 .. End, NEW ts \in Seq(TokenRecord), Tiled(s, ts),
           NEW t \in TokenRecord, TokenFits(t), t.first = s, Clean(t.next)
    PROVE  Tiled(t.next, Append(ts, t))
<1> DEFINE n == Len(ts)
           tt == Append(ts, t)
<1>1. End \in Nat /\ s \in Nat /\ n \in Nat
  BY TextFacts
<1>2. /\ DOMAIN tt = 1 .. n + 1 /\ DOMAIN ts = 1 .. n
      /\ \A i \in 1 .. n : tt[i] = ts[i]
      /\ tt[n + 1] = t
  BY AppendProperties
<1> HIDE DEF n, tt
<1>3. /\ \A i \in 1 .. n : TokenFits(ts[i]) /\ ts[i].next <= s /\ ts[i].next \in Nat
      /\ \A i, j \in 1 .. n : i < j => ts[i].next <= ts[j].first
      /\ \A c \in 1 .. s - 1 : InToken(c, ts) \/ Blank(c)
  BY <1>2, RecordFacts DEF Tiled
<1>4. t.next \in Nat /\ s < t.next /\ t.next <= End
  BY DEF TokenFits, TokenRecord
<1>5. \A i \in DOMAIN tt : TokenFits(tt[i]) /\ tt[i].next <= t.next
  <2> SUFFICES ASSUME NEW i \in 1 .. n + 1 PROVE TokenFits(tt[i]) /\ tt[i].next <= t.next
    BY <1>2
  <2>1. CASE i = n + 1
    BY <1>2, <1>4, <2>1
  <2>2. CASE i # n + 1
    <3>1. i \in 1 .. n
      BY <1>1, <2>2
    <3> QED
      BY <1>1, <1>2, <1>3, <1>4, <3>1
  <2> QED
    BY <2>1, <2>2
<1>6. \A i, j \in DOMAIN tt : i < j => tt[i].next <= tt[j].first
  <2> SUFFICES ASSUME NEW i \in 1 .. n + 1, NEW j \in 1 .. n + 1, i < j
               PROVE  tt[i].next <= tt[j].first
    BY <1>2
  <2>1. i \in 1 .. n
    BY <1>1
  <2>2. CASE j = n + 1
    BY <1>2, <1>3, <2>1, <2>2
  <2>3. CASE j # n + 1
    <3>1. j \in 1 .. n
      BY <1>1, <2>3
    <3> QED
      BY <1>2, <1>3, <2>1, <3>1
  <2> QED
    BY <2>2, <2>3
<1>7. \A c \in 1 .. t.next - 1 : InToken(c, tt) \/ Blank(c)
  <2> SUFFICES ASSUME NEW c \in 1 .. t.next - 1, ~Blank(c) PROVE InToken(c, tt)
    OBVIOUS
  <2>1. CASE c < s
    <3>1. PICK i \in 1 .. n : ts[i].first <= c /\ c < ts[i].next
      BY <1>1, <1>2, <1>3, <2>1 DEF InToken
    <3>2. i \in DOMAIN tt /\ tt[i] = ts[i]
      BY <1>1, <1>2
    <3> QED
      BY <3>1, <3>2 DEF InToken
  <2>2. CASE ~(c < s)
    <3>1. n + 1 \in DOMAIN tt /\ tt[n + 1].first <= c /\ c < tt[n + 1].next
      BY <1>1, <1>2, <1>4, <2>2
    <3> QED
      BY <3>1 DEF InToken
  <2> QED
    BY <2>1, <2>2
<1> QED
  BY <1>5, <1>6, <1>7 DEF Tiled, tt

-----------------------------------------------------------------------------
(* The steps. *)

(* What an attempt that took something adds. *)
LEMMA TokenMade ==
    ASSUME Text, NEW p \in 1 .. End, NEW a \in Attempts(p), a.result.size > 0,
           p = End \/ Clean(p)
    PROVE  LET t == Token(a.kind, a.result) IN
           /\ t \in TokenRecord /\ TokenFits(t)
           /\ t.first = skip_comments(p) /\ t.next = a.result.at
           /\ t.next \in 1 .. End /\ Clean(t.next)
<1> DEFINE s == skip_comments(p)
           e == a.result.at
           k == a.kind
           t == Token(k, a.result)
<1>1. End \in Nat /\ p \in Nat
  BY TextFacts
<1>2. /\ k \in Kinds /\ a.result.size \in Nat
      /\ e = s + a.result.size /\ e \in s .. End
      /\ \A c \in s .. e - 1 : text[c] \notin Gaps
      /\ Taken(k, s, e)
  BY AttemptFacts DEF Fits
<1>3. /\ s \in p .. End
      /\ Clean(p) => s = End \/ Clean(s)
  BY SkipFacts DEF Skips
<1>4. t = [kind |-> k, first |-> s, next |-> e,
           value |-> IF k = "number" THEN from_chars(SubSeq(text, s, e - 1)) ELSE 0]
  <2>1. e - a.result.size = s
    BY <1>1, <1>2, <1>3
  <2> HIDE DEF s, e, k
  <2>2. Token(k, a.result) = [kind |-> k, first |-> s, next |-> e,
           value |-> IF k = "number" THEN from_chars(SubSeq(text, s, e - 1)) ELSE 0]
    BY <2>1 DEF Token, e
  <2> QED
    BY <2>2
<1>5. a.result.size > 0
  OBVIOUS
<1>6. s < e /\ s \in 1 .. End /\ e \in 1 .. End /\ s # End
  <2> DEFINE n == a.result.size
  <2>1. n \in Nat /\ n > 0 /\ e = s + n
    BY <1>2, <1>5
  <2> HIDE DEF n, e, s
  <2> QED
    BY <1>1, <1>2, <1>3, <2>1
<1> HIDE DEF t, s, e, k
<1>7. Clean(s)
  BY <1>1, <1>3, <1>6
<1>8. /\ \A c \in s .. e - 1 : ~Blank(c)
      /\ Clean(e)
  BY <1>2, <1>6, <1>7, SolidFacts
<1>9. k = "number" => from_chars(SubSeq(text, s, e - 1)) \in Nat
  <2> SUFFICES ASSUME k = "number" PROVE from_chars(SubSeq(text, s, e - 1)) \in Nat
    OBVIOUS
  <2>1. \A c \in s .. e - 1 : text[c] \in Range(Digits)
    BY <1>2 DEF Taken
  <2>2. /\ Len(SubSeq(text, s, e - 1)) = e - s
        /\ \A i \in 1 .. e - s : SubSeq(text, s, e - 1)[i] = text[s + i - 1]
    BY <1>2, <1>6, CutFacts
  <2>3. e - s \in Nat /\ \A i \in 1 .. e - s : s + i - 1 \in s .. e - 1
    BY <1>1, <1>6
  <2>4. from_chars(SubSeq(text, s, e - 1)) \in 0 .. Limit - 1
    BY <2>1, <2>2, <2>3, FromCharsFacts
  <2> QED
    BY <2>4
<1>10. /\ t.kind = k /\ t.first = s /\ t.next = e
       /\ t.value = IF k = "number" THEN from_chars(SubSeq(text, s, e - 1)) ELSE 0
  BY <1>4
<1>11. t \in TokenRecord
  BY <1>1, <1>2, <1>4, <1>6, <1>9 DEF TokenRecord
<1>12. TokenFits(t)
  BY <1>1, <1>2, <1>6, <1>8, <1>10 DEF TokenFits
<1> QED
  BY <1>6, <1>8, <1>10, <1>11, <1>12 DEF t, s, e, k

LEMMA InitInductive == Init => Inductive
<1> SUFFICES ASSUME Init PROVE Inductive
  OBVIOUS
<1>1. MaxLength \in Nat
  BY BoundFacts
<1>2. Text
  <2>1. PICK n \in 0 .. MaxLength : text \in [1 .. n -> Alphabet]
    BY DEF Init
  <2>2. text \in Seq(Alphabet) /\ Len(text) = n
    BY <1>1, <2>1
  <2> QED
    BY <1>1, <2>2 DEF Text
<1>3. at = 1 /\ taken = << >> /\ error = NoError /\ 1 \in 1 .. End
  BY <1>2, TextFacts DEF Init
<1>4. taken \in Seq(TokenRecord) /\ DOMAIN taken = {}
  BY <1>3
<1>5. Clean(1)
  BY DEF Clean
<1>6. Tiled(at, taken)
  BY <1>3, <1>4, <1>5 DEF Tiled
<1>7. ErrorFits
  BY <1>3 DEF ErrorFits
<1> QED
  BY <1>2, <1>3, <1>4, <1>6, <1>7 DEF Inductive, Behind

LEMMA TakeStep == Inductive /\ Take => Inductive'
<1> SUFFICES ASSUME Inductive, Take PROVE Inductive'
  OBVIOUS
<1>1. /\ Text /\ at \in 1 .. End /\ taken \in Seq(TokenRecord) /\ Tiled(at, taken)
  BY DEF Inductive
<1>2. PICK a \in Attempts(at) :
         /\ a.result.size > 0
         /\ at' = a.result.at
         /\ taken' = Append(taken, Token(a.kind, a.result))
  BY DEF Take
<1>3. text' = text /\ error' = error /\ error = NoError
  BY DEF Take, Reading
<1> DEFINE t == Token(a.kind, a.result)
<1>4. /\ t \in TokenRecord /\ TokenFits(t)
      /\ t.first = skip_comments(at) /\ t.next = at'
      /\ at' \in 1 .. End /\ Clean(at')
  <2>1. at = End \/ Clean(at)
    BY <1>1 DEF Tiled
  <2> HIDE DEF t
  <2>2. LET u == Token(a.kind, a.result) IN
           /\ u \in TokenRecord /\ TokenFits(u)
           /\ u.first = skip_comments(at) /\ u.next = a.result.at
           /\ u.next \in 1 .. End /\ Clean(u.next)
    BY <1>1, <1>2, <2>1, TokenMade
  <2> QED
    BY <1>2, <2>2 DEF t
<1>5. taken' = Append(taken, t)
  BY <1>2
<1> HIDE DEF t
<1>6. Tiled(skip_comments(at), taken) /\ skip_comments(at) \in 1 .. End
  BY <1>1, TiledOn, SkipTwice
<1>7. Tiled(at', taken')
  BY <1>1, <1>4, <1>5, <1>6, TiledWith
<1>8. taken' \in Seq(TokenRecord) /\ Behind(taken') = at'
  <2>1. /\ taken' \in Seq(TokenRecord) /\ taken' # << >>
        /\ Len(taken') = Len(taken) + 1 /\ taken'[Len(taken) + 1] = t
    BY <1>1, <1>4, <1>5, AppendProperties
  <2> QED
    BY <1>4, <2>1 DEF Behind
<1>9. /\ Text' /\ at' \in (1 .. End)'
      /\ Tiled(at, taken)'
      /\ skip_comments(at)' = skip_comments(Behind(taken))'
  <2>1. Text' = Text /\ End' = End
    BY <1>3, Same
  <2>2. Tiled(at, taken)' = Tiled(at', taken')
    BY <1>3, Same
  <2> QED
    BY <1>1, <1>4, <1>7, <1>8, <2>1, <2>2
<1>10. ErrorFits'
  BY <1>3 DEF ErrorFits, NoError
<1> QED
  BY <1>8, <1>9, <1>10 DEF Inductive

(* What a failed attempt leaves: only the blanks are passed. *)
LEMMA FailureFacts ==
    ASSUME Text, NEW p \in 1 .. End, NEW a \in Attempts(p), a.result.size = 0
    PROVE  a.result.at = skip_comments(p)
<1>1. a.result.at = skip_comments(p) + a.result.size
  BY AttemptFacts DEF Fits
<1>2. skip_comments(p) \in Nat
  BY SkipTwice, TextFacts
<1> QED
  BY <1>1, <1>2

(* Only blanks are passed, and no token is made. *)
LEMMA PassingStep ==
    ASSUME Inductive, text' = text, taken' = taken, at' = skip_comments(at)
    PROVE  /\ Text' /\ at' \in (1 .. End)' /\ taken' \in Seq(TokenRecord)
           /\ Tiled(at, taken)'
           /\ skip_comments(at)' = skip_comments(Behind(taken))'
<1>1. /\ Text /\ at \in 1 .. End /\ taken \in Seq(TokenRecord) /\ Tiled(at, taken)
      /\ skip_comments(at) = skip_comments(Behind(taken))
  BY DEF Inductive
<1>2. Text' = Text /\ End' = End
  BY Same
<1>3. at' \in 1 .. End /\ skip_comments(at') = skip_comments(at)
  BY <1>1, SkipTwice
<1>4. Tiled(at', taken)
  BY <1>1, TiledOn
<1>5. Tiled(at, taken)' = Tiled(at', taken')
  BY Same
<1>6. skip_comments(at)' = skip_comments(at')
  BY Same
<1>7. skip_comments(Behind(taken))' = skip_comments(Behind(taken'))
  BY Same DEF Behind
<1> QED
  BY <1>1, <1>2, <1>3, <1>4, <1>5, <1>6, <1>7

LEMMA TryInVainStep == Inductive /\ TryInVain => Inductive'
<1> SUFFICES ASSUME Inductive, TryInVain PROVE Inductive'
  OBVIOUS
<1>1. PICK a \in Attempts(at) : a.kind # "type" /\ a.result.size = 0 /\ at' = a.result.at
  BY DEF TryInVain
<1>2. text' = text /\ taken' = taken /\ error' = error /\ error = NoError
  BY DEF TryInVain, Reading
<1>3. at' = skip_comments(at)
  BY <1>1, FailureFacts DEF Inductive
<1>4. ErrorFits'
  BY <1>2 DEF ErrorFits, NoError
<1> QED
  BY <1>2, <1>3, <1>4, PassingStep DEF Inductive

LEMMA ExpectStep == Inductive /\ Expect => Inductive'
<1> SUFFICES ASSUME Inductive, Expect PROVE Inductive'
  OBVIOUS
<1>1. PICK a \in Attempts(at) :
         /\ a.result.size = 0
         /\ error' \in Error(a.result.at) /\ at' = found_token(a.result.at).at
  BY DEF Expect
<1>2. text' = text /\ taken' = taken /\ Text /\ at \in 1 .. End
  BY DEF Expect, Inductive
<1> DEFINE s == skip_comments(at)
<1>3. a.result.at = s
  BY <1>1, <1>2, FailureFacts
<1>4. skip_comments(s) = s
  BY <1>2, SkipTwice
<1> HIDE DEF s
<1>5. found_token(s).at = s /\ found_token(s).size = FoundSize(s)
  BY <1>4 DEF found_token
<1>6. at' = s
  BY <1>1, <1>3, <1>5
<1>7. error' = [context |-> s, found |-> FoundSize(s)]
  <2>1. error' \in [context : {s}, found : {FoundSize(s)}]
    BY <1>1, <1>3, <1>5 DEF Error
  <2> QED
    BY <2>1
<1>8. ErrorFits'
  <2>1. FoundSize(at)' = FoundSize(s) /\ skip_comments(at)' = skip_comments(s)
    BY <1>2, <1>6, Same
  <2> QED
    BY <1>4, <1>6, <1>7, <2>1 DEF ErrorFits
<1> QED
  BY <1>2, <1>6, <1>8, PassingStep DEF Inductive, s

LEMMA StutterStep == Inductive /\ UNCHANGED vars => Inductive'
<1> SUFFICES ASSUME Inductive, UNCHANGED vars PROVE Inductive'
  OBVIOUS
<1>1. text' = text /\ at' = at /\ taken' = taken /\ error' = error
  BY DEF vars
<1>2. /\ Text' = Text /\ End' = End
      /\ Tiled(at, taken)' = Tiled(at, taken)
      /\ skip_comments(at)' = skip_comments(at)
      /\ skip_comments(Behind(taken))' = skip_comments(Behind(taken))
      /\ FoundSize(at)' = FoundSize(at)
  BY <1>1, Same DEF Behind
<1>3. ErrorFits'
  BY <1>1, <1>2 DEF Inductive, ErrorFits, NoError
<1> QED
  BY <1>1, <1>2, <1>3 DEF Inductive

(* What has been read is tokens and blanks, and an error is at the next     *)
(* token there could be, in every reachable state.                          *)
THEOREM InductiveInvariant == Spec => []Inductive
<1>1. Init => Inductive
  BY InitInductive
<1>2. Inductive /\ [Next]_vars => Inductive'
  BY TakeStep, TryInVainStep, ExpectStep, StutterStep DEF Next, Done
<1> QED
  BY <1>1, <1>2, PTL DEF Spec

-----------------------------------------------------------------------------
(* The properties. *)

LEMMA FoundFacts ==
    ASSUME Text, NEW s \in 1 .. End
    PROVE  FoundSize(s) \in 0 .. End - s /\ (FoundSize(s) = 0 <=> s = End)
<1>1. End \in Nat /\ s \in Nat
  BY TextFacts
<1>2. CASE KeywordsAt(s) # {}
  <2> DEFINE k == CHOOSE w \in KeywordsAt(s) : TRUE
  <2>1. k \in Keywords /\ starts_with(s, k)
    BY <1>2 DEF KeywordsAt
  <2>2. FoundSize(s) = Len(k)
    BY <1>2 DEF FoundSize
  <2> HIDE DEF k
  <2>3. k \in Seq(Letters) /\ k # << >>
    <3>1. Keywords \subseteq Seq(Letters) \ {<< >>}
      BY ONLY LexerAssumption
    <3> QED
      BY <2>1, <3>1
  <2>4. s + Len(k) \in s .. End
    BY <2>1, <2>3, StartsFacts
  <2>5. Len(k) \in Nat /\ Len(k) # 0
    BY <2>3, EmptySeq
  <2> QED
    BY <1>1, <2>2, <2>4, <2>5
<1>3. CASE KeywordsAt(s) = {} /\ WordAt(s) # << >>
  <2>1. FoundSize(s) = Len(WordAt(s))
    BY <1>3 DEF FoundSize
  <2>2. Len(WordAt(s)) \in Nat /\ s + Len(WordAt(s)) \in s .. End /\ Len(WordAt(s)) > 0
    BY <1>3, WordAtFacts
  <2> QED
    BY <1>1, <2>1, <2>2
<1>4. CASE KeywordsAt(s) = {} /\ WordAt(s) = << >> /\ peek_operator(s) # 0
  <2>1. FoundSize(s) = peek_operator(s)
    BY <1>4 DEF FoundSize
  <2> QED
    BY <1>1, <1>4, <2>1, OperatorFacts
<1>5. CASE KeywordsAt(s) = {} /\ WordAt(s) = << >> /\ peek_operator(s) = 0
  <2>1. FoundSize(s) = IF s < End THEN 1 ELSE 0
    BY <1>5 DEF FoundSize
  <2> QED
    BY <1>1, <2>1
<1> QED
  BY <1>2, <1>3, <1>4, <1>5

(* The digits of a number in the text. *)
DigitsOf(t) == SubSeq(text, t.first, t.next - 1)

LEMMA NumberDigits ==
    ASSUME Text, NEW t \in TokenRecord, TokenFits(t), t.kind = "number"
    PROVE  /\ Len(DigitsOf(t)) = t.next - t.first /\ Len(DigitsOf(t)) \in 0 .. MaxLength
           /\ \A i \in 1 .. Len(DigitsOf(t)) : /\ DigitsOf(t)[i] = text[t.first + i - 1]
                                               /\ DigitsOf(t)[i] \in Range(Digits)
           /\ t.value = from_chars(DigitsOf(t))
<1> DEFINE p == t.first
           q == t.next
           digits == SubSeq(text, p, q - 1)
<1>1. /\ p \in Nat /\ q \in Nat /\ 1 <= p /\ p < q /\ q <= End
      /\ Taken(t.kind, p, q)
      /\ t.value = IF t.kind = "number" THEN from_chars(digits) ELSE 0
  BY DEF TokenFits, TokenRecord
<1>2. \A c \in p .. q - 1 : text[c] \in Range(Digits)
  BY <1>1 DEF Taken
<1>3. t.value = from_chars(digits)
  BY <1>1
<1> HIDE DEF p, q
<1>4. End \in Nat /\ End - 1 <= MaxLength /\ MaxLength \in Nat
  BY TextFacts, BoundFacts DEF Text
<1>5. p \in 1 .. End /\ q \in p .. End
  BY <1>1, <1>4
<1>6. /\ Len(digits) = q - p
      /\ \A i \in 1 .. q - p : digits[i] = text[p + i - 1]
  BY <1>5, CutFacts
<1>7. q - p \in 0 .. MaxLength /\ \A i \in 1 .. q - p : p + i - 1 \in p .. q - 1
  BY <1>1, <1>4
<1> HIDE DEF digits
<1>8. \A i \in 1 .. Len(digits) : digits[i] = text[p + i - 1] /\ digits[i] \in Range(Digits)
  BY <1>2, <1>6, <1>7
<1> QED
  BY <1>3, <1>6, <1>7, <1>8 DEF p, q, digits, DigitsOf

LEMMA ValueFits ==
    ASSUME Text, NEW t \in TokenRecord, TokenFits(t)
    PROVE  t.value \in 0 .. Limit - 1
<1>1. CASE t.kind = "number"
  <2>1. /\ Len(DigitsOf(t)) \in Nat
        /\ \A i \in 1 .. Len(DigitsOf(t)) : DigitsOf(t)[i] \in Range(Digits)
        /\ t.value = from_chars(DigitsOf(t))
    BY <1>1, NumberDigits
  <2> QED
    BY <2>1, FromCharsFacts
<1>2. CASE t.kind # "number"
  BY <1>2, BoundFacts DEF TokenFits
<1> QED
  BY <1>1, <1>2

(* The values of the lexer have their types: tokens within the text, *)
(* numbers that fit, errors that quote what is there.                *)
THEOREM TypeCorrect == Spec => []TypeOK
<1>1. Inductive => TypeOK
  <2> SUFFICES ASSUME Inductive PROVE TypeOK
    OBVIOUS
  <2>1. /\ Text /\ at \in 1 .. End /\ taken \in Seq(TokenRecord) /\ End \in Nat
    BY TextFacts DEF Inductive
  <2>2. ASSUME NEW t \in Range(taken)
        PROVE  /\ t.kind \in Kinds
               /\ 1 <= t.first /\ t.first < t.next /\ t.next <= at
               /\ t.value \in 0 .. Limit - 1
    <3>1. PICK i \in DOMAIN taken : taken[i] = t
      BY DEF Range
    <3>2. t.kind \in Kinds /\ t.first \in Nat /\ t.next \in Nat /\ t.value \in Nat
      BY <2>1, <3>1, RecordFacts
    <3>3. TokenFits(t) /\ t.next <= at
      BY <3>1 DEF Inductive, Tiled
    <3>4. t.value \in 0 .. Limit - 1
      <4>1. t \in TokenRecord
        BY <2>1, <3>1, RecordFacts
      <4> QED
        BY <2>1, <3>3, <4>1, ValueFits
    <3> QED
      BY <3>2, <3>3, <3>4 DEF TokenFits
  <2>3. ASSUME error # NoError
        PROVE  error.context \in 1 .. End /\ error.found \in 0 .. End - error.context
    <3>1. error = [context |-> at, found |-> FoundSize(at)]
      BY <2>3 DEF Inductive, ErrorFits
    <3>2. error.context = at /\ error.found = FoundSize(at)
      BY <3>1
    <3> QED
      BY <2>1, <3>2, FoundFacts
  <2> QED
    BY <2>1, <2>2, <2>3 DEF TypeOK, Text
<1> QED
  BY <1>1, InductiveInvariant, PTL

(* What has been read is the tokens and the blanks between them, and no *)
(* character of a comment is in a token, whatever is tried.             *)
THEOREM TokensTileTheText == Spec => []TokensTile
<1>1. Inductive /\ TypeOK => TokensTile
  <2> SUFFICES ASSUME Inductive, TypeOK PROVE TokensTile
    OBVIOUS
  <2>1. /\ at \in 1 .. End /\ taken \in Seq(TokenRecord) /\ End \in Nat /\ Tiled(at, taken)
    BY TextFacts DEF Inductive
  <2> DEFINE n == Len(taken)
  <2>2. n \in Nat /\ DOMAIN taken = 1 .. n
    BY <2>1, RecordFacts
  <2> HIDE DEF n
  <2>3. \A i \in 1 .. n - 1 : taken[i].next <= taken[i + 1].first
    <3> SUFFICES ASSUME NEW i \in 1 .. n - 1 PROVE taken[i].next <= taken[i + 1].first
      OBVIOUS
    <3>1. i \in DOMAIN taken /\ i + 1 \in DOMAIN taken /\ i < i + 1
      BY <2>2
    <3> QED
      BY <2>1, <3>1 DEF Tiled
  <2>4. ASSUME NEW c \in 1 .. at - 1
        PROVE  Blank(c) <=> ~\E i \in DOMAIN taken : taken[i].first <= c /\ c < taken[i].next
    <3>1. InToken(c, taken) \/ Blank(c)
      BY <2>1 DEF Tiled
    <3>2. ASSUME NEW i \in DOMAIN taken, taken[i].first <= c, c < taken[i].next PROVE ~Blank(c)
      <4>1. TokenFits(taken[i]) /\ taken[i].first \in Nat /\ taken[i].next \in Nat
        BY <2>1, RecordFacts DEF Tiled
      <4>2. c \in taken[i].first .. taken[i].next - 1
        BY <2>1, <3>2, <4>1
      <4> QED
        BY <4>1, <4>2 DEF TokenFits
    <3> QED
      BY <3>1, <3>2 DEF InToken
  <2> QED
    BY <2>3, <2>4 DEF TokensTile, n
<1> QED
  BY <1>1, InductiveInvariant, TypeCorrect, PTL

(* An attempt that fails leaves the text as good as untouched: every *)
(* attempt after it finds what it would have found without it.       *)
THEOREM FailuresAreHarmless == Spec => []FailureKeepsPlace
<1>1. Inductive => FailureKeepsPlace
  <2> SUFFICES ASSUME Inductive, NEW a \in Attempts(at), a.result.size = 0
               PROVE  Attempts(a.result.at) = Attempts(at)
    BY DEF FailureKeepsPlace
  <2>1. Text /\ at \in 1 .. End
    BY DEF Inductive
  <2>2. a.result.at = skip_comments(at)
    BY <2>1, FailureFacts
  <2>3. skip_comments(skip_comments(at)) = skip_comments(at)
    BY <2>1, SkipTwice
  <2> QED
    BY <2>2, <2>3, SameAttempts
<1> QED
  BY <1>1, InductiveInvariant, PTL

(* A character behind which a token stops: the last of one that is not *)
(* blank is in a token, and the next token begins right behind it.     *)
LEMMA NeighbourFacts ==
    ASSUME Inductive, NEW i \in DOMAIN taken, taken[i].first > 1,
           text[taken[i].first - 1] \in WordChars
    PROVE  i > 1 /\ taken[i - 1].next = taken[i].first
<1> DEFINE f == taken[i].first
           c == f - 1
<1>1. /\ Text /\ at \in 1 .. End /\ taken \in Seq(TokenRecord) /\ End \in Nat
      /\ Tiled(at, taken)
  BY TextFacts DEF Inductive
<1>2. DOMAIN taken = 1 .. Len(taken) /\ Len(taken) \in Nat
  BY <1>1, RecordFacts
<1>3. /\ f \in Nat /\ taken[i].next \in Nat /\ f < taken[i].next /\ taken[i].next <= at
      /\ \A k \in f .. taken[i].next - 1 : ~Blank(k) /\ text[k] \notin Gaps
  BY <1>1, RecordFacts DEF Tiled, TokenFits
<1>4. text[c] \in WordChars /\ f > 1
  OBVIOUS
<1> HIDE DEF f
<1>5. c \in Nat /\ c >= 1 /\ c + 1 = f /\ c \in 1 .. at - 1
  BY <1>1, <1>3, <1>4
<1>6. text[c] \notin Gaps
  BY <1>4, CharFacts
<1>7. ~Blank(f) /\ text[f] \notin Gaps
  BY <1>3
<1> HIDE DEF c
<1>8. ~Blank(c)
  <2> SUFFICES ASSUME Blank(c) PROVE FALSE
    OBVIOUS
  <2>1. PICK h \in 1 .. c : text[h] = "#" /\ \A k \in h .. c : text[k] # "\n"
    BY <1>6 DEF Blank, Gaps
  <2>2. h \in 1 .. f
    BY <1>5
  <2>3. text[f] # "\n"
    BY <1>7 DEF Gaps, Spaces
  <2>4. \A k \in h .. f : text[k] # "\n"
    BY <1>5, <2>1, <2>3
  <2> QED
    BY <1>7, <2>1, <2>2, <2>4 DEF Blank
<1>9. PICK j \in DOMAIN taken : taken[j].first <= c /\ c < taken[j].next
  BY <1>1, <1>5, <1>8 DEF Tiled, InToken
<1>10. taken[j].first \in Nat /\ taken[j].next \in Nat
  BY <1>1, RecordFacts
<1>11. \A k, l \in DOMAIN taken : k < l => taken[k].next <= taken[l].first
  BY <1>1 DEF Tiled
<1>12. j < i
  <2>1. CASE j = i
    BY <1>5, <1>9, <1>10, <2>1 DEF f
  <2>2. CASE i < j
    <3>1. taken[i].next <= taken[j].first
      BY <1>11, <2>2
    <3> QED
      BY <1>3, <1>5, <1>9, <1>10, <3>1
  <2> QED
    BY <1>2, <2>1, <2>2
<1>13. taken[j].next = f
  <2>1. taken[j].next <= f
    BY <1>11, <1>12 DEF f
  <2> QED
    BY <1>5, <1>9, <1>10, <2>1
<1>14. j = i - 1
  <2> SUFFICES ASSUME j # i - 1 PROVE FALSE
    OBVIOUS
  <2>1. i - 1 \in DOMAIN taken /\ j < i - 1 /\ i - 1 < i
    BY <1>2, <1>12
  <2>2. taken[j].next <= taken[i - 1].first /\ taken[i - 1].next <= f
    BY <1>11, <2>1 DEF f
  <2>3. /\ taken[i - 1].first \in Nat /\ taken[i - 1].next \in Nat
        /\ taken[i - 1].first < taken[i - 1].next
    BY <1>1, <2>1, RecordFacts DEF Tiled, TokenFits
  <2> QED
    BY <1>5, <1>13, <2>2, <2>3
<1> QED
  BY <1>2, <1>12, <1>13, <1>14 DEF f

(* Operators are not the beginnings of longer ones, names and types are    *)
(* whole words, and no name is a keyword; a word is only taken apart       *)
(* behind a number or what try_consume asks for.                           *)
THEOREM TokensAreLongest == Spec => []ReadsTheLongest
<1>1. Inductive => ReadsTheLongest
  <2> SUFFICES ASSUME Inductive, NEW i \in DOMAIN taken
               PROVE  LET t == taken[i] IN
        /\ t.kind = "operator" =>
              \A o \in TwoCharOperators : starts_with(t.first, o) => t.next = t.first + 2
        /\ t.kind \in {"name", "type"} /\ t.next < End /\ text[t.next] \in WordChars =>
              text[t.next - 1] = "*"
        /\ t.kind = "name" => SubSeq(text, t.first, t.next - 1) \notin Keywords
        /\ t.first > 1 /\ {text[t.first - 1], text[t.first]} \subseteq WordChars =>
              i > 1 /\ taken[i - 1].next = t.first /\ taken[i - 1].kind \in {"punctuation", "number"}
    BY DEF ReadsTheLongest
  <2>1. /\ taken \in Seq(TokenRecord) /\ Tiled(at, taken)
        /\ DOMAIN taken = 1 .. Len(taken) /\ Len(taken) \in Nat
    BY RecordFacts DEF Inductive
  <2> DEFINE t == taken[i]
  <2>2. /\ t \in TokenRecord /\ TokenFits(t)
    BY <2>1, RecordFacts DEF Tiled
  <2> HIDE DEF t
  <2>3. Taken(t.kind, t.first, t.next)
    BY <2>2 DEF TokenFits
  <2>4. t.kind = "operator" =>
              \A o \in TwoCharOperators : starts_with(t.first, o) => t.next = t.first + 2
    BY <2>3 DEF Taken
  <2>5. t.kind \in {"name", "type"} /\ t.next < End /\ text[t.next] \in WordChars =>
              text[t.next - 1] = "*"
    BY <2>3 DEF Taken
  <2>6. t.kind = "name" => SubSeq(text, t.first, t.next - 1) \notin Keywords
    BY <2>3 DEF Taken
  <2>7. ASSUME t.first > 1, text[t.first - 1] \in WordChars, text[t.first] \in WordChars
        PROVE  i > 1 /\ taken[i - 1].next = t.first /\ taken[i - 1].kind \in {"punctuation", "number"}
    <3> DEFINE u == taken[i - 1]
    <3>1. i > 1 /\ u.next = t.first
      BY <2>7, NeighbourFacts DEF t
    <3>2. u \in TokenRecord /\ TokenFits(u)
      <4>1. i - 1 \in DOMAIN taken
        BY <2>1, <3>1
      <4> QED
        BY <2>1, <4>1, RecordFacts DEF Tiled
    <3> HIDE DEF u
    <3>3. /\ u.kind \in Kinds /\ u.first \in Nat /\ u.next \in Nat
          /\ u.first < u.next /\ u.next <= End /\ Taken(u.kind, u.first, u.next)
      BY <3>2 DEF TokenRecord, TokenFits
    <3>4. /\ t.next \in Nat /\ t.first < t.next /\ t.next <= End /\ t.first \in Nat /\ End \in Nat
      BY <2>2, TextFacts DEF TokenRecord, TokenFits, Inductive
    <3>5. u.next < End /\ text[u.next] \in WordChars /\ text[u.next - 1] \in WordChars
      BY <2>7, <3>1, <3>4
    <3>6. u.next - 1 \in u.first .. u.next - 1
      BY <3>3
    <3>7. text[u.next - 1] # "*" /\ text[u.next - 1] \notin OneCharOperators
      BY <3>5, CharFacts
    <3>8. u.kind # "operator"
      BY <3>3, <3>6, <3>7 DEF Taken
    <3>9. u.kind # "name" /\ u.kind # "type"
      BY <3>3, <3>5, <3>7 DEF Taken
    <3> QED
      BY <3>1, <3>3, <3>8, <3>9 DEF Kinds, u
  <2> QED
    BY <2>4, <2>5, <2>6, <2>7 DEF t
<1> QED
  BY <1>1, InductiveInvariant, PTL

LEMMA LineStartFacts ==
    ASSUME Text, NEW e \in 1 .. End, e < End
    PROVE  /\ line_start(e) \in 1 .. e + 1
           /\ line_start(e) > 1 => text[line_start(e) - 1] = "\n"
           /\ \A k \in line_start(e) .. e : text[k] # "\n"
<1>1. End \in Nat /\ e \in Nat
  BY TextFacts
<1> DEFINE S == {d \in 0 .. e : e + 1 - d > 1 => text[e - d] = "\n"}
<1>2. S \in SUBSET Nat /\ S # {}
  <2>1. e \in S
    BY <1>1
  <2>2. S \in SUBSET Nat
    BY <1>1
  <2> HIDE DEF S
  <2> QED
    BY <2>1, <2>2
<1>3. PICK d \in S : \A n \in S : d <= n
  BY <1>2, LeastNumber
<1> DEFINE p == e + 1 - d
<1>4. /\ p \in 1 .. e + 1 /\ p - 1 = e - d
      /\ p > 1 => text[p - 1] = "\n"
  BY <1>1, <1>3
<1>5. ASSUME NEW k \in p .. e, text[k] = "\n" PROVE FALSE
  <2>1. /\ e - k \in 0 .. e /\ e - (e - k) = k /\ e - k < d
    BY <1>1, <1>3
  <2>2. e - k \in S
    BY <1>5, <2>1
  <2> QED
    BY <1>1, <1>3, <2>1, <2>2
<1> HIDE DEF p
<1>6. \E q \in 1 .. e + 1 :
         /\ q > 1 => text[q - 1] = "\n"
         /\ \A k \in q .. e : text[k] # "\n"
  BY <1>4, <1>5
<1> QED
  BY <1>6 DEF line_start

(* An error points at the first thing that was not taken and quotes what *)
(* is there; what finds a line and a column for it.                      *)
THEOREM ErrorsAreShown == Spec => []ErrorsPoint
<1>1. Inductive => ErrorsPoint
  <2> SUFFICES ASSUME Inductive, error # NoError PROVE
        LET e == error.context IN
        /\ error.context = at
        /\ e = skip_comments(IF taken = << >> THEN 1 ELSE Last(taken).next)
        /\ (error.found = 0) = (e = End)
        /\ e # End =>
              /\ line_start(e) <= e /\ e < line_end(e) /\ column(e) >= 1
              /\ \A k \in line_start(e) .. line_end(e) - 1 : text[k] # "\n"
              /\ line_num(e) = Cardinality({k \in 1 .. line_start(e) - 1 : text[k] = "\n"}) + 1
    BY DEF ErrorsPoint
  <2>1. /\ Text /\ at \in 1 .. End /\ End \in Nat /\ at \in Nat
        /\ skip_comments(at) = at
        /\ skip_comments(at) = skip_comments(Behind(taken))
        /\ error = [context |-> at, found |-> FoundSize(at)]
    BY TextFacts DEF Inductive, ErrorFits
  <2>2. error.context = at /\ error.found = FoundSize(at)
    BY <2>1
  <2>3. at = skip_comments(IF taken = << >> THEN 1 ELSE Last(taken).next)
    BY <2>1 DEF Behind, Last
  <2>4. (error.found = 0) = (at = End)
    <3>1. FoundSize(at) = 0 <=> at = End
      BY <2>1, FoundFacts
    <3> QED
      BY <2>2, <3>1
  <2>5. ASSUME at # End
        PROVE  /\ line_start(at) <= at /\ at < line_end(at) /\ column(at) >= 1
               /\ \A k \in line_start(at) .. line_end(at) - 1 : text[k] # "\n"
               /\ line_num(at) = Cardinality({k \in 1 .. line_start(at) - 1 : text[k] = "\n"}) + 1
    <3> DEFINE from == line_start(at)
               to == line_end(at)
    <3>1. at < End
      BY <2>1, <2>5
    <3>2. /\ from \in 1 .. at + 1
          /\ from > 1 => text[from - 1] = "\n"
          /\ \A k \in from .. at : text[k] # "\n"
      BY <2>1, <3>1, LineStartFacts
    <3>3. text[at] # "\n" /\ text[at] \in Alphabet
      <4>1. text[at] \notin Spaces
        BY <2>1, <3>1, SkipFacts DEF Skips
      <4>2. text[at] \in Alphabet
        BY <2>1, <3>1, TextFacts
      <4> QED
        BY <4>1, <4>2 DEF Spaces
    <3>4. /\ to \in at .. End
          /\ \A k \in at .. to - 1 : text[k] \in Alphabet \ {"\n"}
          /\ to < End => text[to] \notin Alphabet \ {"\n"}
      BY <2>1, PastFacts DEF line_end
    <3>5. column(at) = at - from + 1
      BY DEF column
    <3> HIDE DEF from, to
    <3>6. from <= at
      <4> SUFFICES ASSUME from = at + 1 PROVE FALSE
        BY <2>1, <3>2
      <4>1. at + 1 > 1 /\ (at + 1) - 1 = at
        BY <2>1
      <4> QED
        BY <3>2, <3>3, <4>1
    <3>7. at < to
      BY <2>1, <3>1, <3>3, <3>4
    <3>8. \A k \in from .. to - 1 : text[k] # "\n"
      <4> SUFFICES ASSUME NEW k \in from .. to - 1 PROVE text[k] # "\n"
        OBVIOUS
      <4>1. k \in from .. at \/ k \in at .. to - 1
        BY <2>1, <3>2, <3>4
      <4> QED
        BY <3>2, <3>4, <4>1
    <3>9. {k \in 1 .. at - 1 : text[k] = "\n"} = {k \in 1 .. from - 1 : text[k] = "\n"}
      <4>1. \A k \in 1 .. at - 1 : text[k] = "\n" => k \in 1 .. from - 1
        BY <2>1, <3>2
      <4>2. \A k \in 1 .. from - 1 : k \in 1 .. at - 1
        BY <2>1, <3>2, <3>6
      <4> QED
        BY <4>1, <4>2
    <3>10. line_num(at) = Cardinality({k \in 1 .. from - 1 : text[k] = "\n"}) + 1
      BY <3>9 DEF line_num
    <3>11. column(at) >= 1
      BY <2>1, <3>2, <3>5, <3>6
    <3> QED
      BY <3>6, <3>7, <3>8, <3>10, <3>11 DEF from, to
  <2> QED
    BY <2>2, <2>3, <2>4, <2>5
<1> QED
  BY <1>1, InductiveInvariant, PTL

(* A number is what its digits say, digit by digit, or 0 if it does not *)
(* fit.                                                                 *)
THEOREM NumbersMeanTheirDigits == Spec => []NumbersAreExact
<1>1. Inductive => NumbersAreExact
  <2> SUFFICES ASSUME Inductive, NEW t \in Range(taken), t.kind = "number"
               PROVE  \/ \A k \in 0 .. t.next - t.first - 1 :
                            DigitValue(text[t.next - 1 - k]) = (t.value \div Ten[k]) % 10
                      \/ t.value = 0 /\ Decimal(SubSeq(text, t.first, t.next - 1)) >= Limit
    BY DEF NumbersAreExact
  <2>1. Text /\ t \in TokenRecord /\ TokenFits(t)
    <3>1. PICK i \in DOMAIN taken : taken[i] = t
      BY DEF Range
    <3> QED
      BY <3>1, RecordFacts DEF Inductive, Tiled
  <2> DEFINE digits == DigitsOf(t)
             f == t.first
             e == t.next
  <2>2. /\ Len(digits) = e - f /\ Len(digits) \in 0 .. MaxLength
        /\ \A i \in 1 .. Len(digits) : digits[i] = text[f + i - 1]
        /\ \A i \in 1 .. Len(digits) : digits[i] \in Range(Digits)
        /\ t.value = from_chars(digits)
    BY <2>1, NumberDigits
  <2>3. f \in Nat /\ e \in Nat
    BY <2>1 DEF TokenRecord
  <2>4. digits = SubSeq(text, t.first, t.next - 1)
    BY DEF DigitsOf
  <2> HIDE DEF digits, f, e
  <2>5. CASE Decimal(digits) < Limit
    <3>1. t.value = Decimal(digits)
      BY <2>2, <2>5 DEF from_chars
    <3>2. ASSUME NEW k \in 0 .. e - f - 1
          PROVE  DigitValue(text[e - 1 - k]) = (t.value \div Ten[k]) % 10
      <4>1. (Decimal(digits) \div Ten[k]) % 10 = DigitValue(digits[Len(digits) - k])
        BY <2>2, DigitsRead
      <4>2. Len(digits) - k \in 1 .. Len(digits) /\ f + (Len(digits) - k) - 1 = e - 1 - k
        BY <2>2, <2>3
      <4>3. digits[Len(digits) - k] = text[e - 1 - k]
        BY <2>2, <4>2
      <4> QED
        BY <3>1, <4>1, <4>3
    <3> QED
      BY <3>2 DEF e, f
  <2>6. CASE ~(Decimal(digits) < Limit)
    <3>1. Decimal(digits) \in Nat
      BY <2>2, FromCharsFacts
    <3>2. t.value = 0 /\ Decimal(digits) >= Limit
      BY <2>2, <2>6, <3>1, BoundFacts DEF from_chars
    <3> QED
      BY <2>4, <3>2
  <2> QED
    BY <2>5, <2>6
<1> QED
  BY <1>1, InductiveInvariant, PTL

=============================================================================
