------------------------------ MODULE ReplProof ------------------------------
(***************************************************************************)
(* Proofs about Repl.tla, for sessions of every length: where each line of *)
(* a program goes, in which order and together with which lines it is      *)
(* parsed, and how much of a commit the parser reads.                      *)
(***************************************************************************)
EXTENDS Integers, Repl, SequenceTheorems, FiniteSetTheorems, TLAPS

-----------------------------------------------------------------------------
(* The invariant, of a transcript t of n lines. *)

Coded(t, n) == {i \in 1 .. n : t[i] \in Code}
Gathering(t, i) == Cardinality({j \in 1 .. i : t[j] = ":i"}) % 2 = 1

Keeping(t, i, j) ==
    \A k \in i .. j : t[k] \notin {"blank", ":c"} /\ (t[k] \in Code => Gathering(t, k))

(* Pending are the lines of a program since one of them, all gathered. *)
PendingFacts(t, n, pending) ==
    /\ pending \in Seq(1 .. n) /\ Increasing(pending)
    /\ Len(pending) > 0 =>
          /\ Range(pending) = {i \in Coded(t, n) : pending[1] <= i}
          /\ Keeping(t, pending[1], n)

(* Why a line is neither pending nor handed to the parser. *)
LostFacts(t, n, i) ==
    \E j \in i + 1 .. n :
        /\ Keeping(t, i, j - 1)
        /\ t[j] = ":c" \/ (t[j] \in Code \cup {"blank"} /\ ~Gathering(t, j))

(* What is parsed together. *)
TogetherFacts(t, n, lines) ==
    LET first == lines[1]
        last == lines[Len(lines)]
    IN  /\ Range(lines) \ {first} = {i \in Coded(t, n) : first < i /\ i <= last}
        /\ Gathering(t, first) => \E j \in last + 1 .. n :
              t[j] = "blank" /\ \A k \in last + 1 .. j - 1 : t[k] \in Commands

(* Lines that were gathered were all kept until a blank line. *)
HandedFacts(t, n, lines) ==
    LET first == lines[1]
        last == lines[Len(lines)]
    IN  IF Gathering(t, first)
        THEN \E j \in last + 1 .. n :
                t[j] = "blank" /\ Gathering(t, j) /\ Keeping(t, first, j - 1)
        ELSE Len(lines) = 1

(* What the parser takes closes all it opens. *)
TakenFacts(t, lines, took) ==
    took > 0 =>
        /\ t[lines[1]] \in {"whole", "open"}
        /\ Cardinality({k \in 1 .. took : t[lines[k]] = "open"}) =
           Cardinality({k \in 1 .. took : t[lines[k]] = "close"})

CommitFacts(t, n, lines, took) ==
    /\ lines \in Seq(1 .. n) /\ Len(lines) > 0 /\ Increasing(lines)
    /\ TogetherFacts(t, n, lines) /\ HandedFacts(t, n, lines)
    /\ took \in 0 .. Len(lines)
    /\ TakenFacts(t, lines, took)

CommitsKept(t, n, cs) ==
    \A c \in DOMAIN cs : CommitFacts(t, n, cs[c].lines, cs[c].took)

InOrder(cs, pending) ==
    \A c \in DOMAIN cs :
        /\ Before(cs[c].lines, pending)
        /\ \A d \in DOMAIN cs : c < d => Before(cs[c].lines, cs[d].lines)

Accounted(t, n, cs, pending) ==
    \A i \in Coded(t, n) :
        \/ i \in Range(pending) \/ \E c \in DOMAIN cs : i \in Range(cs[c].lines)
        \/ LostFacts(t, n, i)

Typing ==
    /\ typed \in Seq(Lines)
    /\ mode \in Modes /\ show_text \in BOOLEAN /\ instant_mode \in BOOLEAN
    /\ commits \in Seq(Commit)
    /\ running \in BOOLEAN

Inductive ==
    /\ Typing
    /\ instant_mode <=> ~Gathering(typed, Len(typed))
    /\ PendingFacts(typed, Len(typed), buffer)
    /\ CommitsKept(typed, Len(typed), commits)
    /\ InOrder(commits, buffer)
    /\ Accounted(typed, Len(typed), commits, buffer)

-----------------------------------------------------------------------------
(* Counting lines. *)

LEMMA CountFacts ==
    ASSUME NEW n \in Nat, NEW S \in SUBSET (1 .. n)
    PROVE  /\ Cardinality(S) \in Nat
           /\ Cardinality(S \cup {n + 1}) = Cardinality(S) + 1
<1>1. IsFiniteSet(1 .. n)
  BY FS_Interval
<1> DEFINE I == 1 .. n
<1>2. IsFiniteSet(I) /\ S \in SUBSET I
  BY <1>1
<1> HIDE DEF I
<1>3. IsFiniteSet(S)
  BY ONLY <1>2, FS_Subset
<1>4. n + 1 \notin S
  OBVIOUS
<1> QED
  BY <1>3, <1>4, FS_CardinalityType, FS_AddElement

(* One more line: only :i changes whether lines are gathered. *)
LEMMA GatheringFacts ==
    ASSUME NEW n \in Nat, NEW t, NEW u, \A i \in 1 .. n : u[i] = t[i]
    PROVE  /\ \A i \in 0 .. n : Gathering(u, i) <=> Gathering(t, i)
           /\ u[n + 1] = ":i" => (Gathering(u, n + 1) <=> ~Gathering(t, n))
           /\ u[n + 1] # ":i" => (Gathering(u, n + 1) <=> Gathering(t, n))
<1>1. \A i \in 0 .. n : {j \in 1 .. i : u[j] = ":i"} = {j \in 1 .. i : t[j] = ":i"}
  OBVIOUS
<1>2. \A i \in 0 .. n : Gathering(u, i) <=> Gathering(t, i)
  BY <1>1 DEF Gathering
<1> DEFINE S == {j \in 1 .. n : u[j] = ":i"}
<1>3. S \in SUBSET (1 .. n)
  OBVIOUS
<1>4. {j \in 1 .. n + 1 : u[j] = ":i"} = IF u[n + 1] = ":i" THEN S \cup {n + 1} ELSE S
  OBVIOUS
<1>5. Gathering(u, n) <=> Cardinality(S) % 2 = 1
  BY DEF Gathering
<1> HIDE DEF S
<1>6. Cardinality(S) \in Nat /\ Cardinality(S \cup {n + 1}) = Cardinality(S) + 1
  BY <1>3, CountFacts
<1>7. CASE u[n + 1] = ":i"
  <2>1. Gathering(u, n + 1) <=> Cardinality(S \cup {n + 1}) % 2 = 1
    BY <1>4, <1>7 DEF Gathering
  <2> QED
    BY <1>2, <1>5, <1>6, <1>7, <2>1
<1>8. CASE u[n + 1] # ":i"
  <2>1. Gathering(u, n + 1) <=> Cardinality(S) % 2 = 1
    BY <1>4, <1>8 DEF Gathering
  <2> QED
    BY <1>2, <1>5, <1>8, <2>1
<1> QED
  BY <1>2, <1>7, <1>8

-----------------------------------------------------------------------------
(* What a longer transcript leaves true. *)

LEMMA KeepingStays ==
    ASSUME NEW n \in Nat, NEW t, NEW u, \A i \in 1 .. n : u[i] = t[i],
           NEW i \in 1 .. n, NEW j \in 0 .. n, Keeping(t, i, j)
    PROVE  Keeping(u, i, j)
<1>1. \A k \in 1 .. n : Gathering(u, k) <=> Gathering(t, k)
  BY GatheringFacts
<1>2. \A k \in i .. j : k \in 1 .. n
  OBVIOUS
<1> QED
  BY <1>1, <1>2 DEF Keeping

LEMMA LostStays ==
    ASSUME NEW n \in Nat, NEW t, NEW u, \A i \in 1 .. n : u[i] = t[i],
           NEW i \in 1 .. n, LostFacts(t, n, i)
    PROVE  LostFacts(u, n + 1, i)
<1>1. PICK j \in i + 1 .. n :
        /\ Keeping(t, i, j - 1)
        /\ t[j] = ":c" \/ (t[j] \in Code \cup {"blank"} /\ ~Gathering(t, j))
  BY DEF LostFacts
<1>2. \A k \in 1 .. n : Gathering(u, k) <=> Gathering(t, k)
  BY GatheringFacts
<1>3. j \in i + 1 .. n + 1 /\ j \in 1 .. n /\ j - 1 \in 0 .. n
  OBVIOUS
<1>4. Keeping(u, i, j - 1)
  BY <1>1, <1>3, KeepingStays
<1>5. u[j] = ":c" \/ (u[j] \in Code \cup {"blank"} /\ ~Gathering(u, j))
  BY <1>1, <1>2, <1>3
<1> QED
  BY <1>3, <1>4, <1>5 DEF LostFacts

LEMMA CommitStays ==
    ASSUME NEW n \in Nat, NEW t, NEW u, \A i \in 1 .. n : u[i] = t[i],
           NEW lines, NEW took, CommitFacts(t, n, lines, took)
    PROVE  CommitFacts(u, n + 1, lines, took)
<1> DEFINE m == Len(lines)
<1>1. /\ lines \in Seq(1 .. n) /\ Len(lines) > 0 /\ Increasing(lines)
      /\ TogetherFacts(t, n, lines) /\ HandedFacts(t, n, lines)
      /\ took \in 0 .. m
      /\ TakenFacts(t, lines, took)
  BY DEF CommitFacts
<1>2. m \in Nat \ {0} /\ DOMAIN lines = 1 .. m
  BY <1>1, LenProperties
<1>3. /\ lines \in Seq(1 .. n + 1)
      /\ \A k \in 1 .. m : lines[k] \in 1 .. n
  BY <1>1, <1>2, ElementOfSeq, SeqMonotonic
<1> HIDE DEF m
<1>4. lines[1] \in 1 .. n /\ lines[m] \in 1 .. n
  BY <1>2, <1>3
<1> DEFINE first == lines[1]
<1> DEFINE last == lines[m]
<1>5. TogetherFacts(u, n + 1, lines)
  <2>1. /\ Range(lines) \ {first} = {i \in Coded(t, n) : first < i /\ i <= last}
        /\ Gathering(t, first) => \E j \in last + 1 .. n :
              t[j] = "blank" /\ \A k \in last + 1 .. j - 1 : t[k] \in Commands
    BY <1>1 DEF TogetherFacts, m
  <2>2. first \in 1 .. n /\ last \in 1 .. n
    BY <1>4
  <2> HIDE DEF first, last
  <2>3. {i \in Coded(t, n) : first < i /\ i <= last} = {i \in Coded(u, n + 1) : first < i /\ i <= last}
    BY <2>2 DEF Coded
  <2>4. Gathering(u, first) <=> Gathering(t, first)
    BY <2>2, GatheringFacts
  <2>5. Gathering(u, first) => \E j \in last + 1 .. n + 1 :
              u[j] = "blank" /\ \A k \in last + 1 .. j - 1 : u[k] \in Commands
    <3>1. SUFFICES ASSUME Gathering(u, first)
                   PROVE  \E j \in last + 1 .. n + 1 :
                             u[j] = "blank" /\ \A k \in last + 1 .. j - 1 : u[k] \in Commands
      OBVIOUS
    <3>2. PICK j \in last + 1 .. n : t[j] = "blank" /\ \A k \in last + 1 .. j - 1 : t[k] \in Commands
      BY <2>1, <2>4, <3>1
    <3>3. j \in last + 1 .. n + 1 /\ u[j] = t[j] /\ \A k \in last + 1 .. j - 1 : u[k] = t[k]
      BY <2>2
    <3> QED
      BY <3>2, <3>3
  <2> QED
    BY <2>1, <2>3, <2>5 DEF TogetherFacts, first, last, m
<1>6. HandedFacts(u, n + 1, lines)
  <2>1. IF Gathering(t, first)
        THEN \E j \in last + 1 .. n :
                t[j] = "blank" /\ Gathering(t, j) /\ Keeping(t, first, j - 1)
        ELSE m = 1
    BY <1>1 DEF HandedFacts, m
  <2>2. first \in 1 .. n /\ last \in 1 .. n
    BY <1>4
  <2> HIDE DEF first, last
  <2>3. \A k \in 1 .. n : Gathering(u, k) <=> Gathering(t, k)
    BY GatheringFacts
  <2>4. CASE Gathering(t, first)
    <3>1. PICK j \in last + 1 .. n : t[j] = "blank" /\ Gathering(t, j) /\ Keeping(t, first, j - 1)
      BY <2>1, <2>4
    <3>2. j \in 1 .. n /\ j \in last + 1 .. n + 1 /\ j - 1 \in 0 .. n
      BY <2>2
    <3>3. Keeping(u, first, j - 1)
      BY <2>2, <3>1, <3>2, KeepingStays
    <3>4. u[j] = "blank" /\ Gathering(u, j) /\ Gathering(u, first)
      BY <2>2, <2>3, <2>4, <3>1, <3>2
    <3> QED
      BY <3>2, <3>3, <3>4 DEF HandedFacts, first, last, m
  <2>5. CASE ~Gathering(t, first)
    <3>1. ~Gathering(u, first) /\ m = 1
      BY <2>1, <2>2, <2>3, <2>5
    <3> QED
      BY <3>1 DEF HandedFacts, first, last, m
  <2> QED
    BY <2>4, <2>5
<1>7. TakenFacts(u, lines, took)
  <2>1. took > 0 => /\ t[lines[1]] \in {"whole", "open"}
                    /\ Cardinality({k \in 1 .. took : t[lines[k]] = "open"}) =
                       Cardinality({k \in 1 .. took : t[lines[k]] = "close"})
    BY <1>1 DEF TakenFacts
  <2>2. \A k \in 1 .. took : u[lines[k]] = t[lines[k]]
    BY <1>1, <1>2, <1>3
  <2>3. /\ {k \in 1 .. took : u[lines[k]] = "open"} = {k \in 1 .. took : t[lines[k]] = "open"}
        /\ {k \in 1 .. took : u[lines[k]] = "close"} = {k \in 1 .. took : t[lines[k]] = "close"}
    BY <2>2
  <2>4. u[lines[1]] = t[lines[1]]
    BY <1>4
  <2> QED
    BY <2>1, <2>3, <2>4 DEF TakenFacts
<1> QED
  BY <1>1, <1>3, <1>5, <1>6, <1>7 DEF CommitFacts, m

(* A command that clears nothing. *)
LEMMA PendingStays ==
    ASSUME NEW n \in Nat, NEW t, NEW u, \A i \in 1 .. n : u[i] = t[i],
           NEW pending, PendingFacts(t, n, pending),
           u[n + 1] \notin Code \cup {"blank", ":c"}
    PROVE  PendingFacts(u, n + 1, pending)
<1>1. pending \in Seq(1 .. n) /\ Increasing(pending)
  BY DEF PendingFacts
<1>2. pending \in Seq(1 .. n + 1)
  BY <1>1, SeqMonotonic
<1>3. ASSUME Len(pending) > 0
      PROVE  /\ Range(pending) = {i \in Coded(u, n + 1) : pending[1] <= i}
             /\ Keeping(u, pending[1], n + 1)
  <2> DEFINE first == pending[1]
  <2>1. /\ Range(pending) = {i \in Coded(t, n) : first <= i}
        /\ Keeping(t, first, n)
    BY <1>3 DEF PendingFacts
  <2>2. 1 \in 1 .. Len(pending)
    BY <1>1, <1>3, LenProperties
  <2>3. first \in 1 .. n
    BY <1>1, <2>2, ElementOfSeq
  <2> HIDE DEF first
  <2>5. Coded(u, n + 1) = Coded(t, n)
    BY DEF Coded
  <2>6. Keeping(u, first, n)
    BY <2>1, <2>3, KeepingStays
  <2>7. \A i \in first .. n + 1 : i \in first .. n \/ i = n + 1
    BY <2>3
  <2>8. Keeping(u, first, n + 1)
    BY <2>6, <2>7 DEF Keeping
  <2> QED
    BY <2>1, <2>5, <2>8 DEF first
<1> QED
  BY <1>1, <1>2, <1>3 DEF PendingFacts

LEMMA NothingPending ==
    ASSUME NEW n \in Nat, NEW t
    PROVE  PendingFacts(t, n, << >>)
<1>1. << >> \in Seq(1 .. n) /\ Len(<< >>) = 0 /\ DOMAIN << >> = {}
  BY EmptySeq
<1> QED
  BY <1>1 DEF PendingFacts, Increasing

-----------------------------------------------------------------------------
(* How much of what it is given the parser reads. *)

LEMMA DepthFacts ==
    ASSUME NEW lines, NEW n \in Nat
    PROVE  /\ Depth(lines, 0) = 0 /\ Depth(lines, n) \in Int
           /\ Depth(lines, n + 1) = Depth(lines, n)
                + (IF typed'[lines[n + 1]] = "open" THEN 1 ELSE 0)
                - (IF typed'[lines[n + 1]] = "close" THEN 1 ELSE 0)
<1> DEFINE opened == {k \in 1 .. n : typed'[lines[k]] = "open"}
<1> DEFINE closed == {k \in 1 .. n : typed'[lines[k]] = "close"}
<1>1. opened \in SUBSET (1 .. n) /\ closed \in SUBSET (1 .. n)
  OBVIOUS
<1>2. /\ {k \in 1 .. n + 1 : typed'[lines[k]] = "open"} =
            IF typed'[lines[n + 1]] = "open" THEN opened \cup {n + 1} ELSE opened
      /\ {k \in 1 .. n + 1 : typed'[lines[k]] = "close"} =
            IF typed'[lines[n + 1]] = "close" THEN closed \cup {n + 1} ELSE closed
  OBVIOUS
<1>3. Depth(lines, n) = Cardinality(opened) - Cardinality(closed)
  BY DEF Depth
<1>4. Depth(lines, n + 1) =
        Cardinality(IF typed'[lines[n + 1]] = "open" THEN opened \cup {n + 1} ELSE opened) -
        Cardinality(IF typed'[lines[n + 1]] = "close" THEN closed \cup {n + 1} ELSE closed)
  BY <1>2 DEF Depth
<1> HIDE DEF opened, closed
<1>5. /\ Cardinality(opened) \in Nat /\ Cardinality(opened \cup {n + 1}) = Cardinality(opened) + 1
      /\ Cardinality(closed) \in Nat /\ Cardinality(closed \cup {n + 1}) = Cardinality(closed) + 1
  BY <1>1, CountFacts
<1>6. Depth(lines, 0) = 0
  <2>1. {k \in 1 .. 0 : typed'[lines[k]] = "open"} = {} /\ {k \in 1 .. 0 : typed'[lines[k]] = "close"} = {}
    OBVIOUS
  <2> QED
    BY <2>1, FS_EmptySet DEF Depth
<1> QED
  BY <1>3, <1>4, <1>5, <1>6

(* A phrase closes all it opens. *)
LEMMA PhraseFacts ==
    ASSUME NEW lines, NEW m \in Nat, DOMAIN lines = 1 .. m
    PROVE  /\ Phrase(lines) \in 0 .. m
           /\ TakenFacts(typed', lines, Phrase(lines))
<1> DEFINE ends == {n \in DOMAIN lines : /\ typed'[lines[1]] \in {"whole", "open"}
                                         /\ Depth(lines, n) <= 0
                                         /\ \A k \in 1 .. n - 1 : Depth(lines, k) > 0}
<1> DEFINE took == Phrase(lines)
<1>1. took = IF ends = {} THEN 0 ELSE CHOOSE n \in ends : TRUE
  BY DEF Phrase
<1>2. took = 0 \/ took \in ends
  BY <1>1
<1>3. took \in ends => /\ took \in 1 .. m /\ typed'[lines[1]] \in {"whole", "open"}
                       /\ Depth(lines, took) <= 0
                       /\ \A k \in 1 .. took - 1 : Depth(lines, k) > 0
  OBVIOUS
<1> HIDE DEF ends, took
<1>4. ASSUME took > 0
      PROVE  typed'[lines[1]] \in {"whole", "open"} /\ Depth(lines, took) = 0
  <2>1. /\ took \in 1 .. m /\ typed'[lines[1]] \in {"whole", "open"}
        /\ Depth(lines, took) <= 0
        /\ \A k \in 1 .. took - 1 : Depth(lines, k) > 0
    BY <1>2, <1>3, <1>4
  <2> DEFINE k == took - 1
  <2>2. k \in Nat /\ k + 1 = took /\ (k = 0 \/ k \in 1 .. took - 1)
    BY <2>1
  <2> HIDE DEF k
  <2>3. /\ Depth(lines, k) \in Int /\ Depth(lines, 0) = 0
        /\ Depth(lines, k + 1) = Depth(lines, k)
                + (IF typed'[lines[k + 1]] = "open" THEN 1 ELSE 0)
                - (IF typed'[lines[k + 1]] = "close" THEN 1 ELSE 0)
    BY <2>2, DepthFacts
  <2>4. CASE k = 0
    <3>1. typed'[lines[k + 1]] # "close"
      BY <2>1, <2>4
    <3> QED
      BY <2>1, <2>2, <2>3, <2>4, <3>1
  <2>5. CASE k \in 1 .. took - 1
    BY <2>1, <2>2, <2>3, <2>5
  <2> QED
    BY <2>2, <2>4, <2>5
<1>5. TakenFacts(typed', lines, took)
  <2> DEFINE opened == {k \in 1 .. took : typed'[lines[k]] = "open"}
  <2> DEFINE closed == {k \in 1 .. took : typed'[lines[k]] = "close"}
  <2>1. Depth(lines, took) = Cardinality(opened) - Cardinality(closed)
    BY DEF Depth
  <2>2. opened \in SUBSET (1 .. took) /\ closed \in SUBSET (1 .. took)
    OBVIOUS
  <2>3. took \in Nat
    BY <1>2, <1>3
  <2> HIDE DEF opened, closed
  <2>4. Cardinality(opened) \in Nat /\ Cardinality(closed) \in Nat
    BY <2>2, <2>3, CountFacts
  <2>5. took > 0 => typed'[lines[1]] \in {"whole", "open"} /\ Cardinality(opened) = Cardinality(closed)
    BY <1>4, <2>1, <2>4
  <2> QED
    BY <2>5 DEF TakenFacts, opened, closed
<1> QED
  BY <1>2, <1>3, <1>5 DEF took

-----------------------------------------------------------------------------
(* One more commit. *)

LEMMA CommitAdded ==
    ASSUME NEW n, NEW t, NEW cs \in Seq(Commit), NEW r \in Commit,
           CommitsKept(t, n, cs), CommitFacts(t, n, r.lines, r.took),
           InOrder(cs, r.lines)
    PROVE  /\ Append(cs, r) \in Seq(Commit)
           /\ CommitsKept(t, n, Append(cs, r))
           /\ InOrder(Append(cs, r), << >>)
           /\ \A i : (i \in Range(r.lines) \/ \E c \in DOMAIN cs : i \in Range(cs[c].lines)) =>
                       \E c \in DOMAIN Append(cs, r) : i \in Range(Append(cs, r)[c].lines)
<1> DEFINE m == Len(cs)
<1> DEFINE all == Append(cs, r)
<1>1. /\ m \in Nat /\ DOMAIN cs = 1 .. m /\ all \in Seq(Commit) /\ DOMAIN all = 1 .. m + 1
      /\ \A c \in 1 .. m : all[c] = cs[c]
      /\ all[m + 1] = r
  BY AppendProperties, LenProperties
<1> HIDE DEF m, all
<1>2. CommitsKept(t, n, all)
  BY <1>1 DEF CommitsKept
<1>3. \A c \in DOMAIN all : Before(all[c].lines, << >>)
  BY DEF Before, Range
<1>4. ASSUME NEW c \in 1 .. m + 1, NEW d \in 1 .. m + 1, c < d
      PROVE  Before(all[c].lines, all[d].lines)
  <2>1. c \in 1 .. m /\ (d \in 1 .. m \/ d = m + 1)
    BY <1>1, <1>4
  <2> QED
    BY <1>1, <1>4, <2>1 DEF InOrder
<1>5. InOrder(all, << >>)
  BY <1>1, <1>3, <1>4 DEF InOrder
<1>6. \A i : (i \in Range(r.lines) \/ \E c \in DOMAIN cs : i \in Range(cs[c].lines)) =>
               \E c \in DOMAIN all : i \in Range(all[c].lines)
  BY <1>1
<1> QED
  BY <1>1, <1>2, <1>5, <1>6 DEF all

-----------------------------------------------------------------------------
(* A line is typed: the transcript, and what it leaves true. *)

LEMMA TypedFacts ==
    ASSUME Inductive, NEW line \in Lines, Type(line), NEW n, n = Len(typed)
    PROVE  /\ n \in Nat /\ typed' \in Seq(Lines) /\ Len(typed') = n + 1
           /\ DOMAIN typed = 1 .. n /\ DOMAIN typed' = 1 .. n + 1
           /\ typed'[n + 1] = line /\ \A i \in 1 .. n : typed'[i] = typed[i]
           /\ CommitsKept(typed', n + 1, commits)
           /\ \A i \in 1 .. n : LostFacts(typed, n, i) => LostFacts(typed', n + 1, i)
           /\ PendingFacts(typed, n, buffer)
           /\ line = ":i" => (Gathering(typed', n + 1) <=> instant_mode)
           /\ line # ":i" => (Gathering(typed', n + 1) <=> ~instant_mode)
           /\ Coded(typed', n + 1) = IF line \in Code THEN Coded(typed, n) \cup {n + 1} ELSE Coded(typed, n)
           /\ Coded(typed, n) \subseteq 1 .. n
<1>1. typed \in Seq(Lines) /\ typed' = Append(typed, line)
  BY DEF Inductive, Typing, Type
<1>2. /\ n \in Nat /\ typed' \in Seq(Lines) /\ Len(typed') = n + 1
      /\ DOMAIN typed = 1 .. n /\ DOMAIN typed' = 1 .. n + 1
      /\ typed'[n + 1] = line /\ \A i \in 1 .. n : typed'[i] = typed[i]
  BY <1>1, AppendProperties, LenProperties
<1> DEFINE t == typed
<1> DEFINE u == typed'
<1>3. /\ instant_mode <=> ~Gathering(t, n)
      /\ PendingFacts(t, n, buffer) /\ CommitsKept(t, n, commits)
  BY DEF Inductive
<1>4. u[n + 1] = line /\ \A i \in 1 .. n : u[i] = t[i]
  BY <1>2
<1> HIDE DEF t, u
<1>5. CommitsKept(u, n + 1, commits)
  <2>1. ASSUME NEW c \in DOMAIN commits
        PROVE  CommitFacts(u, n + 1, commits[c].lines, commits[c].took)
    BY <1>2, <1>3, <1>4, CommitStays DEF CommitsKept
  <2> QED
    BY <2>1 DEF CommitsKept
<1>6. \A i \in 1 .. n : LostFacts(t, n, i) => LostFacts(u, n + 1, i)
  BY <1>2, <1>4, LostStays
<1>7. /\ line = ":i" => (Gathering(u, n + 1) <=> instant_mode)
      /\ line # ":i" => (Gathering(u, n + 1) <=> ~instant_mode)
  BY <1>2, <1>3, <1>4, GatheringFacts
<1>8. /\ Coded(u, n + 1) = IF line \in Code THEN Coded(t, n) \cup {n + 1} ELSE Coded(t, n)
      /\ Coded(t, n) \subseteq 1 .. n
  BY <1>2, <1>4 DEF Coded
<1> QED
  BY <1>2, <1>3, <1>5, <1>6, <1>7, <1>8 DEF t, u

(* All that is pending is lost at a :c, and at what instant mode takes. *)
LEMMA PendingLost ==
    ASSUME NEW n \in Nat, NEW t, NEW u, \A i \in 1 .. n : u[i] = t[i],
           NEW pending, PendingFacts(t, n, pending), NEW i \in Range(pending),
           u[n + 1] = ":c" \/ (u[n + 1] \in Code \cup {"blank"} /\ ~Gathering(u, n + 1))
    PROVE  LostFacts(u, n + 1, i)
<1>1. pending \in Seq(1 .. n)
  BY DEF PendingFacts
<1>2. Len(pending) > 0
  BY <1>1, LenProperties DEF Range
<1> DEFINE first == pending[1]
<1>3. /\ Range(pending) = {k \in Coded(t, n) : first <= k}
      /\ Keeping(t, first, n)
  BY <1>2 DEF PendingFacts
<1>4. 1 \in 1 .. Len(pending)
  BY <1>1, <1>2, LenProperties
<1>5. first \in 1 .. n
  BY <1>1, <1>4, ElementOfSeq
<1> HIDE DEF first
<1>6. i \in 1 .. n /\ first <= i
  BY <1>3 DEF Coded
<1>7. Keeping(t, i, n)
  BY <1>3, <1>5, <1>6 DEF Keeping
<1>8. Keeping(u, i, n)
  BY <1>6, <1>7, KeepingStays
<1>9. n + 1 \in i + 1 .. n + 1 /\ n + 1 - 1 = n
  BY <1>6
<1> QED
  BY <1>8, <1>9 DEF LostFacts

(* The parts of the invariant put together again. *)
LEMMA Together ==
    ASSUME NEW m, m = Len(typed)', Typing', instant_mode' <=> ~Gathering(typed', m),
           PendingFacts(typed', m, buffer'), CommitsKept(typed', m, commits'),
           InOrder(commits', buffer'), Accounted(typed', m, commits', buffer')
    PROVE  Inductive'
BY DEF Inductive

-----------------------------------------------------------------------------
(* Commands. *)

(* Nothing is pending any more, or nothing about it changes. *)
LEMMA CommandKeeps ==
    ASSUME Inductive, NEW line \in Commands, Type(line),
           commits' = commits, Typing',
           instant_mode' <=> IF line = ":i" THEN ~instant_mode ELSE instant_mode,
           IF line = ":c" THEN buffer' = << >> ELSE buffer' = buffer
    PROVE  Inductive'
<1> DEFINE n == Len(typed)
<1> DEFINE t == typed
<1> DEFINE u == typed'
<1>1. line \in Lines /\ line \notin Code /\ line # "blank"
  BY DEF Lines, Commands, Modes, Code
<1>2. n = Len(typed)
  OBVIOUS
<1> HIDE DEF n
<1>3. /\ n \in Nat /\ u \in Seq(Lines) /\ Len(u) = n + 1
      /\ u[n + 1] = line /\ \A i \in 1 .. n : u[i] = t[i]
      /\ CommitsKept(u, n + 1, commits)
      /\ \A i \in 1 .. n : LostFacts(t, n, i) => LostFacts(u, n + 1, i)
      /\ PendingFacts(t, n, buffer)
      /\ line = ":i" => (Gathering(u, n + 1) <=> instant_mode)
      /\ line # ":i" => (Gathering(u, n + 1) <=> ~instant_mode)
      /\ Coded(u, n + 1) = Coded(t, n)
      /\ Coded(t, n) \subseteq 1 .. n
  BY <1>1, <1>2, TypedFacts
<1>4. InOrder(commits, buffer) /\ Accounted(t, n, commits, buffer)
  BY <1>2 DEF Inductive
<1> HIDE DEF t, u
<1>5. instant_mode' <=> ~Gathering(u, n + 1)
  BY <1>3
<1>6. PendingFacts(u, n + 1, buffer')
  <2>1. CASE line = ":c"
    BY <1>3, <2>1, NothingPending
  <2>2. CASE line # ":c"
    BY <1>1, <1>3, <2>2, PendingStays
  <2> QED
    BY <2>1, <2>2
<1>7. InOrder(commits, buffer')
  <2>1. CASE line = ":c"
    BY <1>4, <2>1 DEF InOrder, Before, Range
  <2>2. CASE line # ":c"
    BY <1>4, <2>2
  <2> QED
    BY <2>1, <2>2
<1>8. Accounted(u, n + 1, commits, buffer')
  <2>1. CASE line = ":c"
    <3>1. \A i \in Range(buffer) : LostFacts(u, n + 1, i)
      BY <1>3, <2>1, PendingLost
    <3> QED
      BY <1>3, <1>4, <3>1 DEF Accounted
  <2>2. CASE line # ":c"
    BY <1>3, <1>4, <2>2 DEF Accounted
  <2> QED
    BY <2>1, <2>2
<1>9. Typing' /\ commits' = commits /\ u[n + 1] # "blank" /\ n + 1 = Len(typed)'
  BY <1>1, <1>3 DEF u
<1> QED
  BY <1>3, <1>5, <1>6, <1>7, <1>8, <1>9, Together DEF u

LEMMA CommandStep ==
    ASSUME Inductive, Quit \/ ToggleText \/ Clear \/ ToggleInstant \/ SetMode \/ Unknown
    PROVE  Inductive'
<1>0. Typing /\ Modes \subseteq Commands /\ {":t", ":i", ":c", ":q", ":unknown"} \subseteq Commands
  BY DEF Inductive, Commands
<1>1. ASSUME NEW line \in Commands, Type(line)
      PROVE  typed' \in Seq(Lines)
  <2>1. line \in Lines
    BY DEF Lines
  <2> QED
    BY <1>1, <2>1, TypedFacts
<1>2. CASE Quit
  <2>1. Type(":q") /\ running' = FALSE /\ UNCHANGED <<buffer, mode, show_text, instant_mode, commits>>
    BY <1>2 DEF Quit
  <2>2. running' \in BOOLEAN
    BY ONLY <2>1
  <2>3. Typing'
    BY <1>0, <1>1, <2>1, <2>2 DEF Typing
  <2> QED
    BY <1>0, <2>1, <2>3, CommandKeeps
<1>3. CASE ToggleText
  <2>1. Type(":t") /\ show_text' = ~show_text /\ UNCHANGED <<buffer, mode, instant_mode, commits, running>>
    BY <1>3 DEF ToggleText
  <2>2. show_text' \in BOOLEAN
    BY ONLY <2>1
  <2>3. Typing'
    BY <1>0, <1>1, <2>1, <2>2 DEF Typing
  <2> QED
    BY <1>0, <2>1, <2>3, CommandKeeps
<1>4. CASE Clear
  <2>1. Type(":c") /\ buffer' = << >> /\ UNCHANGED <<mode, show_text, instant_mode, commits, running>>
    BY <1>4 DEF Clear
  <2>2. Typing'
    BY <1>0, <1>1, <2>1 DEF Typing
  <2> QED
    BY <1>0, <2>1, <2>2, CommandKeeps
<1>5. CASE ToggleInstant
  <2>1. Type(":i") /\ instant_mode' = ~instant_mode /\ UNCHANGED <<buffer, mode, show_text, commits, running>>
    BY <1>5 DEF ToggleInstant
  <2>2. instant_mode' \in BOOLEAN
    BY ONLY <2>1
  <2>3. Typing'
    BY <1>0, <1>1, <2>1, <2>2 DEF Typing
  <2> QED
    BY <1>0, <2>1, <2>3, CommandKeeps
<1>6. CASE SetMode
  <2>1. PICK m \in Modes : Type(m) /\ mode' = m /\ UNCHANGED <<buffer, show_text, instant_mode, commits, running>>
    BY <1>6 DEF SetMode
  <2>2. Typing'
    BY <1>0, <1>1, <2>1 DEF Typing
  <2>3. m # ":i" /\ m # ":c"
    BY DEF Modes
  <2> QED
    BY <1>0, <2>1, <2>2, <2>3, CommandKeeps
<1>7. CASE Unknown
  <2>1. Type(":unknown") /\ UNCHANGED <<buffer, mode, show_text, instant_mode, commits, running>>
    BY <1>7 DEF Unknown
  <2>2. Typing'
    BY <1>0, <1>1, <2>1 DEF Typing
  <2> QED
    BY <1>0, <2>1, <2>2, CommandKeeps
<1> QED
  BY <1>2, <1>3, <1>4, <1>5, <1>6, <1>7

-----------------------------------------------------------------------------
(* Lines of a program, and blank ones. *)

LEMMA ElementFacts ==
    ASSUME NEW S, NEW s \in Seq(S)
    PROVE  \A i \in Range(s) : i \in S
<1>1. DOMAIN s = 1 .. Len(s) /\ \A k \in 1 .. Len(s) : s[k] \in S
  BY LenProperties, ElementOfSeq
<1> QED
  BY <1>1 DEF Range

(* What Parse records keeps what a commit promises. *)
LEMMA ParseFacts ==
    ASSUME Inductive, NEW line \in Lines, Type(line), NEW n, n = Len(typed), NEW lines,
           lines \in Seq(1 .. n + 1), Len(lines) > 0, Increasing(lines),
           TogetherFacts(typed', n + 1, lines), HandedFacts(typed', n + 1, lines),
           InOrder(commits, lines),
           Parse(lines), mode \in Modes
    PROVE  /\ commits' \in Seq(Commit) /\ CommitsKept(typed', n + 1, commits')
           /\ InOrder(commits', << >>) /\ buffer' = << >>
           /\ \A i : (i \in Range(lines) \/ \E c \in DOMAIN commits : i \in Range(commits[c].lines)) =>
                       \E c \in DOMAIN commits' : i \in Range(commits'[c].lines)
<1> DEFINE r == [lines |-> lines, mode |-> mode, took |-> Phrase(lines)]
<1>1. commits' = Append(commits, r) /\ buffer' = << >>
  BY DEF Parse
<1>2. n \in Nat /\ CommitsKept(typed', n + 1, commits) /\ commits \in Seq(Commit)
  BY TypedFacts DEF Inductive, Typing
<1>3. Len(lines) \in Nat /\ DOMAIN lines = 1 .. Len(lines)
  BY LenProperties
<1>4. /\ Phrase(lines) \in 0 .. Len(lines)
      /\ TakenFacts(typed', lines, Phrase(lines))
  BY <1>3, PhraseFacts
<1>5. CommitFacts(typed', n + 1, lines, Phrase(lines))
  BY <1>4 DEF CommitFacts
<1>6. lines \in Seq(Nat) /\ Phrase(lines) \in Nat
  <2>1. 1 .. n + 1 \subseteq Nat
    BY <1>2
  <2> QED
    BY <1>3, <1>4, <2>1, SeqMonotonic
<1>7. r \in Commit /\ r.lines = lines /\ r.took = Phrase(lines)
  BY <1>6 DEF Commit
<1> HIDE DEF r
<1>8. CommitFacts(typed', n + 1, r.lines, r.took) /\ InOrder(commits, r.lines)
  BY <1>5, <1>7
<1>9. /\ Append(commits, r) \in Seq(Commit)
      /\ CommitsKept(typed', n + 1, Append(commits, r))
      /\ InOrder(Append(commits, r), << >>)
      /\ \A i : (i \in Range(r.lines) \/ \E c \in DOMAIN commits : i \in Range(commits[c].lines)) =>
                  \E c \in DOMAIN Append(commits, r) : i \in Range(Append(commits, r)[c].lines)
  BY <1>2, <1>7, <1>8, CommitAdded
<1> QED
  BY <1>1, <1>7, <1>9

LEMMA InstantLineStep ==
    ASSUME Inductive, InstantLine
    PROVE  Inductive'
<1>1. PICK line \in Code \cup {"blank"} : Type(line)
  BY DEF InstantLine
<1> DEFINE n == Len(typed)
<1> DEFINE t == typed
<1> DEFINE u == typed'
<1>2. line \in Lines /\ line # ":i" /\ line # ":c"
  BY DEF Lines, Code
<1>3. /\ instant_mode /\ Parse(<<n + 1>>) /\ UNCHANGED <<mode, show_text, instant_mode, running>>
      /\ n = Len(typed)
  BY DEF InstantLine, Here
<1> HIDE DEF n
<1>4. /\ n \in Nat /\ u \in Seq(Lines) /\ Len(u) = n + 1
      /\ u[n + 1] = line /\ \A i \in 1 .. n : u[i] = t[i]
      /\ CommitsKept(u, n + 1, commits)
      /\ \A i \in 1 .. n : LostFacts(t, n, i) => LostFacts(u, n + 1, i)
      /\ PendingFacts(t, n, buffer)
      /\ line # ":i" => (Gathering(u, n + 1) <=> ~instant_mode)
      /\ Coded(u, n + 1) \subseteq Coded(t, n) \cup {n + 1}
      /\ Coded(t, n) \subseteq 1 .. n
  BY <1>1, <1>2, <1>3, TypedFacts
<1>5. InOrder(commits, buffer) /\ Accounted(t, n, commits, buffer) /\ CommitsKept(t, n, commits) /\ Typing
  BY <1>3 DEF Inductive
<1> HIDE DEF t, u
<1> DEFINE lines == <<n + 1>>
<1>6. /\ lines \in Seq(1 .. n + 1) /\ Len(lines) = 1 /\ DOMAIN lines = {1} /\ lines[1] = n + 1
      /\ Range(lines) = {n + 1} /\ Parse(lines)
  BY <1>3, <1>4 DEF Range
<1> HIDE DEF lines
<1>7. ~Gathering(u, n + 1)
  BY <1>2, <1>3, <1>4
<1>8. TogetherFacts(u, n + 1, lines) /\ HandedFacts(u, n + 1, lines) /\ Increasing(lines)
  <2>1. {i \in Coded(u, n + 1) : n + 1 < i /\ i <= n + 1} = {}
    BY <1>4
  <2> QED
    BY <1>6, <1>7, <2>1 DEF TogetherFacts, HandedFacts, Increasing
<1>9. InOrder(commits, lines)
  <2>1. ASSUME NEW c \in DOMAIN commits
        PROVE  Before(commits[c].lines, lines)
    <3>1. commits[c].lines \in Seq(1 .. n)
      BY <1>5 DEF CommitsKept, CommitFacts
    <3>2. \A i \in Range(commits[c].lines) : i \in 1 .. n
      BY <3>1, ElementFacts
    <3> QED
      BY <1>4, <1>6, <3>2 DEF Before
  <2> QED
    BY <1>5, <2>1 DEF InOrder
<1>10. /\ commits' \in Seq(Commit) /\ CommitsKept(u, n + 1, commits')
       /\ InOrder(commits', << >>) /\ buffer' = << >>
       /\ \A i : (i \in Range(lines) \/ \E c \in DOMAIN commits : i \in Range(commits[c].lines)) =>
                   \E c \in DOMAIN commits' : i \in Range(commits'[c].lines)
  <2>1. Len(lines) > 0 /\ mode \in Modes
    BY <1>5, <1>6 DEF Typing
  <2>2. TogetherFacts(typed', n + 1, lines) /\ HandedFacts(typed', n + 1, lines)
    BY <1>8 DEF u
  <2> QED
    BY <1>1, <1>2, <1>3, <1>6, <1>8, <1>9, <2>1, <2>2, ParseFacts DEF u
<1>11. \A i \in Range(buffer) : LostFacts(u, n + 1, i)
  BY <1>1, <1>4, <1>7, PendingLost
<1>12. Accounted(u, n + 1, commits', << >>)
  <2>1. ASSUME NEW i \in Coded(u, n + 1)
        PROVE  (\E c \in DOMAIN commits' : i \in Range(commits'[c].lines)) \/ LostFacts(u, n + 1, i)
    <3>1. CASE i = n + 1
      BY <1>6, <1>10, <3>1
    <3>2. CASE i \in Coded(t, n)
      BY <1>4, <1>5, <1>10, <1>11, <3>2 DEF Accounted
    <3> QED
      BY <1>4, <3>1, <3>2
  <2> QED
    BY <2>1 DEF Accounted
<1>13. Typing'
  BY <1>3, <1>4, <1>5, <1>10 DEF Typing, u
<1>14. PendingFacts(u, n + 1, << >>) /\ n + 1 = Len(typed)' /\ (instant_mode' <=> ~Gathering(u, n + 1))
  BY <1>3, <1>4, <1>7, NothingPending DEF u
<1> QED
  BY <1>4, <1>10, <1>12, <1>13, <1>14, Together DEF u

LEMMA BlankAloneStep ==
    ASSUME Inductive, BlankAlone
    PROVE  Inductive'
<1> DEFINE n == Len(typed)
<1> DEFINE t == typed
<1> DEFINE u == typed'
<1> DEFINE line == "blank"
<1>1. /\ Type(line) /\ line \in Lines /\ line \notin Code /\ line # ":i" /\ n = Len(typed)
      /\ UNCHANGED <<buffer, mode, show_text, instant_mode, commits, running>>
      /\ buffer = << >>
  BY DEF BlankAlone, Lines, Code
<1> HIDE DEF n, line
<1>2. /\ n \in Nat /\ u \in Seq(Lines) /\ Len(u) = n + 1
      /\ u[n + 1] = line /\ \A i \in 1 .. n : u[i] = t[i]
      /\ CommitsKept(u, n + 1, commits)
      /\ \A i \in 1 .. n : LostFacts(t, n, i) => LostFacts(u, n + 1, i)
      /\ line # ":i" => (Gathering(u, n + 1) <=> ~instant_mode)
      /\ Coded(u, n + 1) = Coded(t, n)
      /\ Coded(t, n) \subseteq 1 .. n
  BY <1>1, TypedFacts
<1>3. InOrder(commits, buffer) /\ Accounted(t, n, commits, buffer) /\ Typing
  BY <1>1 DEF Inductive
<1> HIDE DEF t, u
<1>4. PendingFacts(u, n + 1, << >>)
  BY <1>2, NothingPending
<1>5. Accounted(u, n + 1, commits, buffer)
  BY <1>2, <1>3 DEF Accounted
<1>6. Typing'
  BY <1>1, <1>2, <1>3 DEF Typing, u
<1> QED
  BY <1>1, <1>2, <1>3, <1>4, <1>5, <1>6, Together DEF u

LEMMA BlankCommitsStep ==
    ASSUME Inductive, BlankCommits
    PROVE  Inductive'
<1> DEFINE n == Len(typed)
<1> DEFINE t == typed
<1> DEFINE u == typed'
<1> DEFINE line == "blank"
<1>1. /\ Type(line) /\ line \in Lines /\ line \notin Code /\ line # ":i" /\ n = Len(typed)
      /\ UNCHANGED <<mode, show_text, instant_mode, running>>
      /\ ~instant_mode /\ buffer # << >> /\ Parse(buffer)
  BY DEF BlankCommits, Lines, Code
<1> HIDE DEF n
<1>2. /\ n \in Nat /\ u \in Seq(Lines) /\ Len(u) = n + 1
      /\ u[n + 1] = line /\ \A i \in 1 .. n : u[i] = t[i]
      /\ CommitsKept(u, n + 1, commits)
      /\ \A i \in 1 .. n : LostFacts(t, n, i) => LostFacts(u, n + 1, i)
      /\ PendingFacts(t, n, buffer)
      /\ line # ":i" => (Gathering(u, n + 1) <=> ~instant_mode)
      /\ Coded(u, n + 1) = Coded(t, n)
      /\ Coded(t, n) \subseteq 1 .. n
  BY <1>1, TypedFacts
<1>3. /\ InOrder(commits, buffer) /\ Accounted(t, n, commits, buffer) /\ Typing
      /\ t \in Seq(Lines) /\ n = Len(t)
  BY <1>1 DEF Inductive, Typing
<1>4. \A i \in 1 .. n : t[i] \in Lines
  BY <1>3, ElementOfSeq
<1> HIDE DEF t, u
<1> DEFINE m == Len(buffer)
<1> DEFINE first == buffer[1]
<1> DEFINE last == buffer[m]
<1>5. buffer \in Seq(1 .. n) /\ Increasing(buffer)
  BY <1>2 DEF PendingFacts
<1>6. m \in Nat \ {0} /\ DOMAIN buffer = 1 .. m /\ \A k \in 1 .. m : buffer[k] \in 1 .. n
  BY <1>1, <1>5, EmptySeq, LenProperties, ElementOfSeq
<1>7. /\ Range(buffer) = {i \in Coded(t, n) : first <= i}
      /\ Keeping(t, first, n)
  BY <1>2, <1>6 DEF PendingFacts
<1>8. buffer \in Seq(1 .. n + 1)
  BY <1>2, <1>5, SeqMonotonic
<1> HIDE DEF m
<1>9. first \in 1 .. n /\ last \in 1 .. n /\ first <= last /\ \A i \in Range(buffer) : i <= last
  <2>1. \A k \in 1 .. m : buffer[k] <= last
    BY <1>5, <1>6 DEF Increasing
  <2> QED
    BY <1>6, <2>1 DEF Range
<1> HIDE DEF first, last
<1>10. TogetherFacts(u, n + 1, buffer)
  <2>1. Range(buffer) \ {first} = {i \in Coded(u, n + 1) : first < i /\ i <= last}
    BY <1>2, <1>7, <1>9
  <2>2. \A k \in last + 1 .. n : t[k] \in Commands
    <3>1. ASSUME NEW k \in last + 1 .. n
          PROVE  t[k] \in Commands
      <4>1. k \in 1 .. n /\ k \notin Range(buffer) /\ first <= k
        BY <1>9
      <4>2. k \notin Coded(t, n) /\ t[k] \in Lines
        BY <1>4, <1>7, <1>9, <4>1
      <4>3. t[k] # "blank"
        BY <1>7, <1>9, <4>1 DEF Keeping
      <4> QED
        BY <4>1, <4>2, <4>3 DEF Coded, Lines
    <3> QED
      BY <3>1
  <2> DEFINE j0 == n + 1
  <2>3. /\ j0 \in last + 1 .. n + 1 /\ j0 - 1 = n /\ u[j0] = "blank"
        /\ \A k \in last + 1 .. n : u[k] \in Commands
    BY <1>2, <1>9, <2>2
  <2> HIDE DEF j0
  <2>4. \E j \in last + 1 .. n + 1 : u[j] = "blank" /\ \A k \in last + 1 .. j - 1 : u[k] \in Commands
    BY <2>3
  <2> QED
    BY <2>1, <2>4 DEF TogetherFacts, first, last, m
<1>10a. HandedFacts(u, n + 1, buffer)
  <2>1. Keeping(u, first, n)
    BY <1>2, <1>7, <1>9, KeepingStays
  <2>2. Gathering(u, n + 1) /\ u[n + 1] = "blank"
    BY <1>1, <1>2
  <2>3. Gathering(u, first)
    <3>1. first \in Range(buffer)
      BY <1>6 DEF Range, first
    <3>2. t[first] \in Code
      BY <1>7, <3>1 DEF Coded
    <3>3. Gathering(t, first)
      BY <1>7, <1>9, <3>2 DEF Keeping
    <3> QED
      BY <1>2, <1>9, <3>3, GatheringFacts
  <2> DEFINE j0 == n + 1
  <2>4. j0 \in last + 1 .. n + 1 /\ u[j0] = "blank" /\ Gathering(u, j0) /\ j0 - 1 = n
    BY <1>2, <1>9, <2>2
  <2> HIDE DEF j0
  <2>5. \E j \in last + 1 .. n + 1 : u[j] = "blank" /\ Gathering(u, j) /\ Keeping(u, first, j - 1)
    BY <2>1, <2>4
  <2> QED
    BY <2>3, <2>5 DEF HandedFacts, first, last, m
<1> HIDE DEF line
<1>11. /\ commits' \in Seq(Commit) /\ CommitsKept(u, n + 1, commits')
       /\ InOrder(commits', << >>) /\ buffer' = << >>
       /\ \A i : (i \in Range(buffer) \/ \E c \in DOMAIN commits : i \in Range(commits[c].lines)) =>
                   \E c \in DOMAIN commits' : i \in Range(commits'[c].lines)
  <2>1. Len(buffer) > 0
    BY <1>6 DEF m
  <2> QED
    BY <1>1, <1>3, <1>5, <1>8, <1>10, <1>10a, <2>1, ParseFacts DEF u, Typing
<1>12. Accounted(u, n + 1, commits', << >>)
  BY <1>2, <1>3, <1>11 DEF Accounted
<1>13. Typing'
  BY <1>1, <1>2, <1>3, <1>11 DEF Typing, u
<1>14. PendingFacts(u, n + 1, << >>) /\ n + 1 = Len(typed)' /\ (instant_mode' <=> ~Gathering(u, n + 1))
  BY <1>1, <1>2, NothingPending DEF u
<1> QED
  BY <1>2, <1>11, <1>12, <1>13, <1>14, Together DEF u

LEMMA BufferedLineStep ==
    ASSUME Inductive, BufferedLine
    PROVE  Inductive'
<1>1. PICK line \in Code : Type(line)
  BY DEF BufferedLine
<1> DEFINE n == Len(typed)
<1> DEFINE t == typed
<1> DEFINE u == typed'
<1>2. line \in Lines /\ line # ":i" /\ line # "blank" /\ line # ":c"
  BY DEF Lines, Code
<1>3. /\ ~instant_mode /\ buffer' = Append(buffer, n + 1) /\ n = Len(typed)
      /\ UNCHANGED <<mode, show_text, instant_mode, commits, running>>
  BY DEF BufferedLine, Here
<1> HIDE DEF n
<1>4. /\ n \in Nat /\ u \in Seq(Lines) /\ Len(u) = n + 1
      /\ u[n + 1] = line /\ \A i \in 1 .. n : u[i] = t[i]
      /\ CommitsKept(u, n + 1, commits)
      /\ \A i \in 1 .. n : LostFacts(t, n, i) => LostFacts(u, n + 1, i)
      /\ PendingFacts(t, n, buffer)
      /\ line # ":i" => (Gathering(u, n + 1) <=> ~instant_mode)
      /\ Coded(u, n + 1) = Coded(t, n) \cup {n + 1}
      /\ Coded(t, n) \subseteq 1 .. n
  BY <1>1, <1>2, <1>3, TypedFacts
<1>5. InOrder(commits, buffer) /\ Accounted(t, n, commits, buffer) /\ CommitsKept(t, n, commits) /\ Typing
  BY <1>3 DEF Inductive
<1> HIDE DEF t, u
<1> DEFINE m == Len(buffer)
<1> DEFINE more == Append(buffer, n + 1)
<1>6. buffer \in Seq(1 .. n) /\ Increasing(buffer)
  BY <1>4 DEF PendingFacts
<1>7. buffer \in Seq(1 .. n + 1) /\ n + 1 \in 1 .. n + 1
  BY <1>4, <1>6, SeqMonotonic
<1>8. /\ m \in Nat /\ DOMAIN buffer = 1 .. m /\ \A k \in 1 .. m : buffer[k] \in 1 .. n
      /\ more \in Seq(1 .. n + 1) /\ Len(more) = m + 1 /\ DOMAIN more = 1 .. m + 1
      /\ \A k \in 1 .. m : more[k] = buffer[k]
      /\ more[m + 1] = n + 1
  <2>1. m \in Nat /\ DOMAIN buffer = 1 .. m /\ \A k \in 1 .. m : buffer[k] \in 1 .. n
    BY <1>6, LenProperties, ElementOfSeq
  <2>2. /\ more \in Seq(1 .. n + 1) /\ Len(more) = m + 1 /\ DOMAIN more = 1 .. m + 1
        /\ \A k \in 1 .. m : more[k] = buffer[k]
        /\ more[m + 1] = n + 1
    BY <1>7, AppendProperties
  <2> QED
    BY <2>1, <2>2
<1>9. m > 0 =>
          /\ Range(buffer) = {i \in Coded(t, n) : buffer[1] <= i}
          /\ Keeping(t, buffer[1], n)
  BY <1>4 DEF PendingFacts
<1> HIDE DEF m, more
<1>10. Range(more) = Range(buffer) \cup {n + 1} /\ Range(buffer) \subseteq 1 .. n
  BY <1>8 DEF Range
<1>11. Increasing(more)
  <2>1. ASSUME NEW k \in 1 .. m + 1, NEW l \in 1 .. m + 1, k < l
        PROVE  more[k] < more[l]
    <3>1. k \in 1 .. m /\ (l \in 1 .. m \/ l = m + 1)
      BY <1>8, <2>1
    <3>2. CASE l \in 1 .. m
      <4>1. k \in DOMAIN buffer /\ l \in DOMAIN buffer
        BY <1>8, <3>1, <3>2
      <4>2. buffer[k] < buffer[l]
        BY <1>6, <2>1, <4>1 DEF Increasing
      <4> QED
        BY <1>8, <3>1, <3>2, <4>2
    <3>3. CASE l = m + 1
      <4>1. more[k] \in 1 .. n /\ more[l] = n + 1
        BY <1>8, <3>1, <3>3
      <4> QED
        BY <1>4, <4>1
    <3> QED
      BY <3>1, <3>2, <3>3
  <2> QED
    BY <1>8, <2>1 DEF Increasing
<1>12. Gathering(u, n + 1)
  BY <1>2, <1>3, <1>4
<1>12a. u[n + 1] \notin {"blank", ":c"}
  BY <1>2, <1>4
<1>13. PendingFacts(u, n + 1, more)
  <2>1. CASE m = 0
    <3>1. Range(buffer) = {} /\ more[1] = n + 1
      BY <1>8, <2>1 DEF Range
    <3>2. Range(more) = {i \in Coded(u, n + 1) : more[1] <= i}
      BY <1>4, <1>10, <3>1
    <3>3. Keeping(u, more[1], n + 1)
      <4>1. \A k \in more[1] .. n + 1 : k = n + 1
        BY <1>4, <3>1
      <4> QED
        BY <1>12, <1>12a, <4>1 DEF Keeping
    <3> QED
      BY <1>8, <1>11, <3>2, <3>3 DEF PendingFacts
  <2>2. CASE m > 0
    <3> DEFINE first == buffer[1]
    <3>1. more[1] = first /\ first \in 1 .. n
      BY <1>8, <2>2
    <3>2. /\ Range(buffer) = {i \in Coded(t, n) : first <= i}
          /\ Keeping(t, first, n)
      BY <1>9, <2>2
    <3> HIDE DEF first
    <3>3. Range(more) = {i \in Coded(u, n + 1) : first <= i}
      BY <1>4, <1>10, <3>1, <3>2
    <3>4. Keeping(u, first, n)
      BY <1>4, <3>1, <3>2, KeepingStays
    <3>5. \A k \in first .. n + 1 : k \in first .. n \/ k = n + 1
      BY <1>4, <3>1
    <3>6. Keeping(u, first, n + 1)
      BY <1>12, <1>12a, <3>4, <3>5 DEF Keeping
    <3> QED
      BY <1>8, <1>11, <3>1, <3>3, <3>6 DEF PendingFacts
  <2> QED
    BY <1>8, <2>1, <2>2
<1>14. InOrder(commits, more)
  <2>1. ASSUME NEW c \in DOMAIN commits
        PROVE  Before(commits[c].lines, more)
    <3>1. commits[c].lines \in Seq(1 .. n)
      BY <1>5 DEF CommitsKept, CommitFacts
    <3>2. \A i \in Range(commits[c].lines) : i \in 1 .. n
      BY <3>1, ElementFacts
    <3>3. Before(commits[c].lines, buffer)
      BY <1>5 DEF InOrder
    <3> QED
      BY <1>4, <1>10, <3>2, <3>3 DEF Before
  <2> QED
    BY <1>5, <2>1 DEF InOrder
<1>15. Accounted(u, n + 1, commits, more)
  BY <1>4, <1>5, <1>10 DEF Accounted
<1>16. Typing'
  BY <1>3, <1>4, <1>5 DEF Typing, u
<1>17. commits' = commits /\ buffer' = more /\ n + 1 = Len(typed)' /\ u[n + 1] # "blank"
       /\ (instant_mode' <=> ~Gathering(u, n + 1))
  BY <1>2, <1>3, <1>4, <1>12 DEF more, u
<1> QED
  BY <1>4, <1>13, <1>14, <1>15, <1>16, <1>17, Together DEF u

-----------------------------------------------------------------------------
(* The invariant holds at first and after every step. *)

LEMMA InitInductive ==
    ASSUME Init
    PROVE  Inductive
<1>1. /\ typed = << >> /\ buffer = << >> /\ commits = << >> /\ mode = ":e"
      /\ show_text = FALSE /\ instant_mode = TRUE /\ running = TRUE
  BY DEF Init
<1>2. /\ typed \in Seq(Lines) /\ Len(typed) = 0 /\ commits \in Seq(Commit) /\ DOMAIN commits = {}
      /\ DOMAIN typed = {}
  BY <1>1, EmptySeq
<1>3. mode \in Modes
  BY <1>1 DEF Modes
<1>4. show_text \in BOOLEAN /\ instant_mode \in BOOLEAN /\ running \in BOOLEAN /\ instant_mode
  BY ONLY <1>1
<1>5. Typing
  BY <1>2, <1>3, <1>4 DEF Typing
<1>6. ~Gathering(typed, 0)
  <2>1. {j \in 1 .. 0 : typed[j] = ":i"} = {}
    OBVIOUS
  <2>2. Cardinality({j \in 1 .. 0 : typed[j] = ":i"}) = 0
    BY <2>1, FS_EmptySet
  <2> QED
    BY <2>2 DEF Gathering
<1>7. PendingFacts(typed, 0, buffer)
  BY <1>1, NothingPending
<1>8. CommitsKept(typed, 0, commits) /\ InOrder(commits, buffer)
  BY <1>2 DEF CommitsKept, InOrder
<1>9. Accounted(typed, 0, commits, buffer)
  BY DEF Accounted, Coded
<1> QED
  BY <1>1, <1>2, <1>4, <1>5, <1>6, <1>7, <1>8, <1>9 DEF Inductive

LEMMA QuietStep ==
    ASSUME Inductive, EndOfInput \/ Done \/ UNCHANGED vars
    PROVE  Inductive'
<1>1. UNCHANGED <<typed, buffer, mode, show_text, instant_mode, commits>>
  BY DEF EndOfInput, Done, vars
<1>2. running' \in BOOLEAN
  <2>1. CASE EndOfInput
    <3>1. running' = FALSE
      BY <2>1 DEF EndOfInput
    <3> QED
      BY ONLY <3>1
  <2>2. CASE Done \/ UNCHANGED vars
    BY <2>2 DEF Done, vars, Inductive, Typing
  <2> QED
    BY <2>1, <2>2
<1>3. Typing'
  BY <1>1, <1>2 DEF Inductive, Typing
<1> QED
  BY <1>1, <1>3 DEF Inductive

LEMMA StepInductive ==
    ASSUME Inductive, [Next]_vars
    PROVE  Inductive'
<1>1. CASE Quit \/ ToggleText \/ Clear \/ ToggleInstant \/ SetMode \/ Unknown
  BY <1>1, CommandStep
<1>2. CASE InstantLine
  BY <1>2, InstantLineStep
<1>3. CASE BlankAlone
  BY <1>3, BlankAloneStep
<1>4. CASE BlankCommits
  BY <1>4, BlankCommitsStep
<1>5. CASE BufferedLine
  BY <1>5, BufferedLineStep
<1>6. CASE EndOfInput \/ Done \/ UNCHANGED vars
  BY <1>6, QuietStep
<1> QED
  BY <1>1, <1>2, <1>3, <1>4, <1>5, <1>6 DEF Next

(***************************************************************************)
(* At every moment of every session: what is pending are the lines of a    *)
(* program since one of them, gathered and with no blank line between, and *)
(* every commit was that once, or is the one line of instant mode.         *)
(***************************************************************************)
THEOREM InductiveInvariant == Spec => []Inductive
<1>1. Init => Inductive
  BY InitInductive
<1>2. Inductive /\ [Next]_vars => Inductive'
  BY StepInductive
<1> QED
  BY <1>1, <1>2, PTL DEF Spec

-----------------------------------------------------------------------------
(* The properties, of the state. *)

LEMMA ElementsOf ==
    ASSUME Inductive
    PROVE  /\ Len(typed) \in Nat /\ DOMAIN typed = 1 .. Len(typed)
           /\ buffer \in Seq(1 .. Len(typed)) /\ Range(buffer) \subseteq DOMAIN typed
           /\ DOMAIN buffer = 1 .. Len(buffer) /\ Len(buffer) \in Nat
           /\ \A c \in Range(commits) : \E k \in DOMAIN commits : c = commits[k]
           /\ \A k \in DOMAIN commits : commits[k] \in Range(commits)
           /\ \A c \in Range(commits) : CommitFacts(typed, Len(typed), c.lines, c.took)
           /\ \A c \in Range(commits) : /\ c.lines \in Seq(1 .. Len(typed))
                                        /\ Len(c.lines) \in Nat
                                        /\ Range(c.lines) \subseteq DOMAIN typed
<1>1. typed \in Seq(Lines) /\ commits \in Seq(Commit)
  BY DEF Inductive, Typing
<1>2. Len(typed) \in Nat /\ DOMAIN typed = 1 .. Len(typed)
  BY <1>1, LenProperties
<1>3. buffer \in Seq(1 .. Len(typed)) /\ CommitsKept(typed, Len(typed), commits)
  BY DEF Inductive, PendingFacts
<1>4. Range(buffer) \subseteq DOMAIN typed
  BY <1>2, <1>3, ElementFacts
<1>5. /\ \A c \in Range(commits) : \E k \in DOMAIN commits : c = commits[k]
      /\ \A k \in DOMAIN commits : commits[k] \in Range(commits)
  BY DEF Range
<1>6. ASSUME NEW c \in Range(commits)
      PROVE  CommitFacts(typed, Len(typed), c.lines, c.took)
  <2>1. PICK k \in DOMAIN commits : c = commits[k]
    BY <1>5
  <2> QED
    BY <1>3, <2>1 DEF CommitsKept
<1>7. ASSUME NEW c \in Range(commits)
      PROVE  /\ c.lines \in Seq(1 .. Len(typed))
             /\ Len(c.lines) \in Nat
             /\ Range(c.lines) \subseteq DOMAIN typed
  <2>1. c.lines \in Seq(1 .. Len(typed))
    BY <1>6 DEF CommitFacts
  <2> QED
    BY <1>2, <2>1, ElementFacts, LenProperties
<1>8. DOMAIN buffer = 1 .. Len(buffer) /\ Len(buffer) \in Nat
  BY <1>3, LenProperties
<1> QED
  BY <1>2, <1>3, <1>4, <1>5, <1>6, <1>7, <1>8

LEMMA TypesKept ==
    ASSUME Inductive
    PROVE  TypeOK
<1>1. Typing
  BY DEF Inductive
<1>2. \A c \in Range(commits) : Range(c.lines) \subseteq DOMAIN typed /\ c.took <= Len(c.lines)
  <2>1. ASSUME NEW c \in Range(commits)
        PROVE  c.took <= Len(c.lines)
    <3>1. c.took \in 0 .. Len(c.lines) /\ Len(c.lines) \in Nat
      BY ElementsOf DEF CommitFacts
    <3> QED
      BY <3>1
  <2> QED
    BY <2>1, ElementsOf
<1>3. Range(buffer) \subseteq DOMAIN typed
  BY ElementsOf
<1> QED
  BY <1>1, <1>2, <1>3 DEF TypeOK, Typing

LEMMA GatheredIs ==
    \A i : Gathered(i) <=> Gathering(typed, i)
BY DEF Gathered, Gathering

Between(t, i, j, kind) == {k \in i .. j : t[k] = kind}
Among(t, lines, took, kind) == {k \in 1 .. took : t[lines[k]] = kind}

AnsweredOf(lines, took) == {lines[k] : k \in 1 .. IF took = 0 THEN Len(lines) ELSE took}

UnreadFacts(t, n, i) ==
    \E first \in 1 .. i - 1, j \in i + 1 .. n :
        /\ t[j] = "blank" /\ Gathering(t, j)
        /\ Keeping(t, first, j - 1)
        /\ \E end \in first .. i - 1 :
              /\ t[first] \in {"whole", "open"}
              /\ Cardinality(Between(t, first, end, "open")) = Cardinality(Between(t, first, end, "close"))

(* The lines of a commit, from one position to another, as the transcript  *)
(* has them: no line of a program is skipped.                              *)
LEMMA LinesBetween ==
    ASSUME NEW n \in Nat, NEW t, NEW lines \in Seq(1 .. n), Len(lines) > 0, Increasing(lines),
           TogetherFacts(t, n, lines), NEW took \in 1 .. Len(lines),
           NEW kind \in Code
    PROVE  Cardinality(Between(t, lines[1], lines[took], kind)) =
           Cardinality(Among(t, lines, took, kind))
<1> DEFINE m == Len(lines)
<1> DEFINE first == lines[1]
<1> DEFINE S == {k \in 1 .. took : t[lines[k]] = kind}
<1> DEFINE T == {k \in first .. lines[took] : t[k] = kind}
<1> DEFINE f == [k \in S |-> lines[k]]
<1>1. m \in Nat /\ took \in 1 .. m /\ DOMAIN lines = 1 .. m /\ \A k \in 1 .. m : lines[k] \in 1 .. n
  BY LenProperties, ElementOfSeq
<1>2. \A k, l \in 1 .. m : k < l => lines[k] < lines[l]
  BY <1>1 DEF Increasing
<1>3. Range(lines) \ {first} = {i \in Coded(t, n) : first < i /\ i <= lines[m]}
  BY DEF TogetherFacts
<1> HIDE DEF m
<1>4. \A k \in 1 .. took : k \in 1 .. m /\ lines[k] \in first .. lines[took]
  <2>1. ASSUME NEW k \in 1 .. took
        PROVE  k \in 1 .. m /\ lines[k] \in first .. lines[took]
    <3>1. k \in 1 .. m /\ took \in 1 .. m /\ 1 \in 1 .. m /\ k >= 1 /\ k <= took
      BY <1>1
    <3>2. lines[k] \in 1 .. n /\ lines[took] \in 1 .. n /\ first \in 1 .. n
      BY <1>1, <3>1
    <3>3. (1 = k \/ first < lines[k]) /\ (k = took \/ lines[k] < lines[took])
      BY <1>2, <3>1
    <3> QED
      BY <3>1, <3>2, <3>3
  <2> QED
    BY <2>1
<1>5. f \in [S -> T]
  BY <1>4
<1>6. \A k, l \in S : f[k] = f[l] => k = l
  <2>1. ASSUME NEW k \in S, NEW l \in S, lines[k] = lines[l]
        PROVE  k = l
    <3>1. k \in 1 .. m /\ l \in 1 .. m /\ k \in Int /\ l \in Int
      BY <1>4
    <3>2. lines[k] \in Int /\ lines[l] \in Int
      BY <1>1, <3>1
    <3>3. ~(k < l) /\ ~(l < k)
      BY <1>2, <2>1, <3>1, <3>2
    <3> QED
      BY <3>1, <3>3
  <2> QED
    BY <2>1
<1>7. \A i \in T : \E k \in S : f[k] = i
  <2>1. ASSUME NEW i \in T
        PROVE  \E k \in S : lines[k] = i
    <3>1. first \in 1 .. n /\ lines[took] \in 1 .. n /\ lines[m] \in 1 .. n /\ lines[took] <= lines[m]
      <4>1. took \in 1 .. m /\ m \in 1 .. m /\ 1 \in 1 .. m /\ (took < m \/ took = m)
        BY <1>1
      <4>2. lines[1] \in 1 .. n /\ lines[took] \in 1 .. n /\ lines[m] \in 1 .. n
        BY <1>1, <4>1
      <4>3. lines[took] < lines[m] \/ lines[took] = lines[m]
        BY <1>2, <4>1
      <4> QED
        BY <4>2, <4>3
    <3>2. i \in first .. lines[took] /\ t[i] = kind
      OBVIOUS
    <3>3. i \in 1 .. n /\ first <= i /\ i <= lines[took] /\ i <= lines[m]
      BY <3>1, <3>2
    <3>4. i \in Coded(t, n)
      BY <3>2, <3>3 DEF Coded
    <3>5. i \in Range(lines)
      <4>1. CASE i = first
        BY <1>1, <4>1 DEF Range
      <4>2. CASE i # first
        <5>1. first < i
          BY <3>1, <3>3, <4>2
        <5> QED
          BY <1>3, <3>3, <3>4, <5>1
      <4> QED
        BY <4>1, <4>2
    <3>6. PICK k \in 1 .. m : lines[k] = i
      BY <1>1, <3>5 DEF Range
    <3>7. ~(took < k)
      BY <1>1, <1>2, <3>1, <3>3, <3>6
    <3>8. k \in 1 .. took
      BY <1>1, <3>7
    <3> QED
      BY <3>2, <3>6, <3>8
  <2>2. \A k \in S : f[k] = lines[k]
    OBVIOUS
  <2> QED
    BY <2>1, <2>2
<1>8. IsFiniteSet(S)
  <2> DEFINE all == 1 .. took
  <2>1. took \in Int
    BY <1>1
  <2>2. IsFiniteSet(all) /\ S \in SUBSET all
    BY <2>1, FS_Interval
  <2> HIDE DEF all, S
  <2> QED
    BY ONLY <2>2, FS_Subset
<1> HIDE DEF S, T, f
<1>9. ExistsBijection(S, T)
  BY <1>5, <1>6, <1>7, Zenon DEF ExistsBijection, Bijection, Injection, Surjection, IsInjective
<1>10. Cardinality(T) = Cardinality(S)
  BY ONLY <1>8, <1>9, FS_Bijection
<1> QED
  BY <1>10 DEF S, T, first, Between, Among

(* A line that was handed over, and was neither printed nor refused. *)
LEMMA BehindThePhrase ==
    ASSUME NEW n \in Nat, NEW t, NEW lines, NEW took, CommitFacts(t, n, lines, took),
           NEW i \in Range(lines),
           i \notin AnsweredOf(lines, took)
    PROVE  UnreadFacts(t, n, i)
<1> DEFINE m == Len(lines)
<1>1. /\ lines \in Seq(1 .. n) /\ m > 0 /\ Increasing(lines)
      /\ TogetherFacts(t, n, lines) /\ HandedFacts(t, n, lines)
      /\ took \in 0 .. m /\ TakenFacts(t, lines, took)
  BY DEF CommitFacts
<1>2. m \in Nat /\ DOMAIN lines = 1 .. m /\ \A k \in 1 .. m : lines[k] \in 1 .. n
  BY <1>1, LenProperties, ElementOfSeq
<1>3. \A k, l \in 1 .. m : k < l => lines[k] < lines[l]
  BY <1>1, <1>2 DEF Increasing
<1>4. IF Gathering(t, lines[1])
      THEN \E j \in lines[m] + 1 .. n :
              t[j] = "blank" /\ Gathering(t, j) /\ Keeping(t, lines[1], j - 1)
      ELSE m = 1
  BY <1>1 DEF HandedFacts
<1>5. PICK at \in 1 .. m : lines[at] = i
  BY <1>2 DEF Range
<1>6. at \notin 1 .. IF took = 0 THEN m ELSE took
  BY <1>5 DEF AnsweredOf
<1>6a. took > 0 =>
          /\ t[lines[1]] \in {"whole", "open"}
          /\ Cardinality(Among(t, lines, took, "open")) = Cardinality(Among(t, lines, took, "close"))
  BY <1>1 DEF TakenFacts, Among
<1> HIDE DEF m
<1>7. took \in 1 .. m /\ took < at /\ 1 < at /\ m # 1 /\ 1 \in 1 .. m /\ m \in 1 .. m
  BY <1>1, <1>2, <1>5, <1>6
<1> DEFINE first == lines[1]
<1> DEFINE end == lines[took]
<1> DEFINE last == lines[m]
<1>8. first \in 1 .. n /\ end \in 1 .. n /\ last \in 1 .. n /\ i \in 1 .. n
  BY <1>2, <1>5, <1>7
<1>9. first < i /\ end < i /\ (first < end \/ first = end) /\ (i < last \/ i = last)
  <2>1. (1 < took \/ 1 = took) /\ (at < m \/ at = m)
    BY <1>2, <1>5, <1>7
  <2> QED
    BY <1>3, <1>5, <1>7, <2>1
<1>10. PICK j \in last + 1 .. n : t[j] = "blank" /\ Gathering(t, j) /\ Keeping(t, first, j - 1)
  BY <1>4, <1>7
<1>12. \A kind \in Code :
          Cardinality(Between(t, first, end, kind)) = Cardinality(Among(t, lines, took, kind))
  <2>1. lines \in Seq(1 .. n) /\ Len(lines) > 0 /\ took \in 1 .. Len(lines)
    BY <1>1, <1>7 DEF m
  <2> QED
    BY <1>1, <2>1, LinesBetween
<1>13. took > 0
  BY <1>1, <1>7
<1>14. /\ t[first] \in {"whole", "open"}
       /\ Cardinality(Between(t, first, end, "open")) = Cardinality(Between(t, first, end, "close"))
  <2>1. "open" \in Code /\ "close" \in Code
    BY DEF Code
  <2> QED
    BY <1>6a, <1>12, <1>13, <2>1
<1> HIDE DEF first, end, last
<1>15. first \in 1 .. i - 1 /\ j \in i + 1 .. n /\ end \in first .. i - 1
  BY <1>8, <1>9
<1> QED
  BY <1>10, <1>14, <1>15 DEF UnreadFacts

(***************************************************************************)
(* In a session of any length, a line of a program is pending, or part of  *)
(* a printed phrase or of a commit that an error was shown for, or it was  *)
(* dropped: by a :c, by instant mode, which took its place, or unread,     *)
(* behind a phrase that was complete in the same commit.  Types are kept,  *)
(* too.                                                                    *)
(***************************************************************************)
THEOREM LinesAreAccounted == Spec => []LinesAccounted
<1>1. ASSUME Inductive
      PROVE  LinesAccounted
  <2>1. Program = Coded(typed, Len(typed))
    BY <1>1, ElementsOf DEF Program, Coded
  <2>2. \A i, j : Kept(i, j) <=> Keeping(typed, i, j)
    BY GatheredIs DEF Kept, Keeping
  <2>3. ASSUME NEW i \in Program \ (Range(buffer) \cup Answered)
        PROVE  Discarded(i) \/ Unread(i)
    <3>1. Accounted(typed, Len(typed), commits, buffer)
      BY <1>1 DEF Inductive
    <3>2. CASE LostFacts(typed, Len(typed), i)
      BY <2>2, <3>2, GatheredIs DEF LostFacts, Discarded
    <3>3. ASSUME NEW d \in DOMAIN commits, i \in Range(commits[d].lines)
          PROVE  Unread(i)
      <4> DEFINE c == commits[d]
      <4>1. c \in Range(commits) /\ CommitFacts(typed, Len(typed), c.lines, c.took) /\ Len(typed) \in Nat
        BY <1>1, ElementsOf
      <4>2. i \notin AnsweredOf(c.lines, c.took)
        BY <2>3, <4>1 DEF Answered, AnsweredOf
      <4>3. UnreadFacts(typed, Len(typed), i)
        BY <3>3, <4>1, <4>2, BehindThePhrase
      <4> QED
        BY <2>2, <4>3, GatheredIs DEF Unread, UnreadFacts, Complete, Between
    <3> QED
      BY <2>1, <2>3, <3>1, <3>2, <3>3 DEF Accounted
  <2> QED
    BY <1>1, <2>3, TypesKept DEF LinesAccounted
<1> QED
  BY <1>1, InductiveInvariant, PTL

(***************************************************************************)
(* No line is parsed twice or before an earlier one, and what is pending   *)
(* comes after all that was parsed.                                        *)
(***************************************************************************)
THEOREM LinesAreParsedOnce == Spec => []ParsedOnce
<1>1. ASSUME Inductive
      PROVE  ParsedOnce
  <2>1. Increasing(buffer) /\ CommitsKept(typed, Len(typed), commits) /\ InOrder(commits, buffer)
    BY <1>1 DEF Inductive, PendingFacts
  <2>2. \A c \in DOMAIN commits : Increasing(commits[c].lines)
    BY <2>1 DEF CommitsKept, CommitFacts
  <2> QED
    BY <2>1, <2>2 DEF ParsedOnce, InOrder
<1> QED
  BY <1>1, InductiveInvariant, PTL

(***************************************************************************)
(* What is parsed together is all the lines of a program from its first to *)
(* its last, and outside instant mode a blank line follows it.             *)
(***************************************************************************)
THEOREM PendingIsParsedTogether == Spec => []ParsedTogether
<1>1. ASSUME Inductive
      PROVE  ParsedTogether
  <2>1. Program = Coded(typed, Len(typed))
    BY <1>1, ElementsOf DEF Program, Coded
  <2>2. ASSUME NEW c \in Range(commits), NEW lines, lines = c.lines
        PROVE  /\ Range(lines) \ {lines[1]} = {i \in Program : lines[1] < i /\ i <= Last(lines)}
               /\ Gathered(lines[1]) => \E j \in Last(lines) + 1 .. Len(typed) :
                     typed[j] = "blank" /\ \A k \in Last(lines) + 1 .. j - 1 : typed[k] \in Commands
    <3>1. CommitFacts(typed, Len(typed), lines, c.took)
      BY <1>1, <2>2, ElementsOf
    <3>2. TogetherFacts(typed, Len(typed), lines)
      BY <3>1 DEF CommitFacts
    <3> QED
      BY <2>1, <3>2, GatheredIs DEF TogetherFacts, Last
  <2> QED
    BY <2>2 DEF ParsedTogether
<1> QED
  BY <1>1, InductiveInvariant, PTL

=============================================================================
