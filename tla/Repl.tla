-------------------------------- MODULE Repl --------------------------------
(***************************************************************************)
(* The parser's read-eval loop (ast_repl.cpp): lines are gathered in a     *)
(* buffer, or handed to the parser one by one in instant mode.             *)
(*                                                                         *)
(* A line of a program begins a phrase that later lines end ("open"), ends *)
(* the innermost one ("close"), or is a phrase by itself ("whole"); the    *)
(* empty line is "blank".  The parser reads one phrase off the front of    *)
(* what it is given and nobody looks at what is behind it.                 *)
(***************************************************************************)
EXTENDS Integers, Sequences, FiniteSets, SequencesExt

CONSTANT MaxLines       \* bound: lines typed

Code == {"whole", "open", "close"}
Modes == {":e", ":s", ":g"}
Commands == Modes \cup {":t", ":i", ":c", ":q", ":unknown"}
Lines == Code \cup Commands \cup {"blank"}

ASSUME ReplAssumption == MaxLines \in Nat

VARIABLES
    typed,          \* history: the lines typed, commands included
    buffer,         \* the lines pending, as indices into typed
    mode, show_text, instant_mode,
    commits,        \* history: what was parsed, in which mode, and how much of it
    running

vars == <<typed, buffer, mode, show_text, instant_mode, commits, running>>

Commit == [lines : Seq(Nat), mode : Modes, took : Nat]

TypeOK ==
    /\ typed \in Seq(Lines)
    /\ Range(buffer) \subseteq DOMAIN typed
    /\ mode \in Modes /\ show_text \in BOOLEAN /\ instant_mode \in BOOLEAN
    /\ commits \in Seq(Commit)
    /\ \A c \in Range(commits) : Range(c.lines) \subseteq DOMAIN typed /\ c.took <= Len(c.lines)
    /\ running \in BOOLEAN

Init ==
    /\ typed = << >> /\ buffer = << >>
    /\ mode = ":e" /\ show_text = FALSE /\ instant_mode = TRUE
    /\ commits = << >>
    /\ running = TRUE

Type(line) == running /\ Len(typed) < MaxLines /\ typed' = Append(typed, line)
Here == Len(typed) + 1

-----------------------------------------------------------------------------
(* Commands. *)

Quit == Type(":q") /\ running' = FALSE /\ UNCHANGED <<buffer, mode, show_text, instant_mode, commits>>

EndOfInput == running /\ running' = FALSE /\ UNCHANGED <<typed, buffer, mode, show_text, instant_mode, commits>>

ToggleText ==
    /\ Type(":t")
    /\ show_text' = ~show_text
    /\ UNCHANGED <<buffer, mode, instant_mode, commits, running>>

Clear == Type(":c") /\ buffer' = << >> /\ UNCHANGED <<mode, show_text, instant_mode, commits, running>>

ToggleAndClear ==                           \* mutant of ToggleInstant
    /\ Type(":i")
    /\ instant_mode' = ~instant_mode /\ buffer' = << >>
    /\ UNCHANGED <<mode, show_text, commits, running>>

ToggleInstant ==
    /\ Type(":i")
    /\ instant_mode' = ~instant_mode
    /\ UNCHANGED <<buffer, mode, show_text, commits, running>>

SetMode == \E m \in Modes : Type(m) /\ mode' = m /\ UNCHANGED <<buffer, show_text, instant_mode, commits, running>>

Unknown == Type(":unknown") /\ UNCHANGED <<buffer, mode, show_text, instant_mode, commits, running>>

-----------------------------------------------------------------------------
(* Lines of a program. *)

(* What the first n lines leave open. *)
Depth(lines, n) ==
    Cardinality({k \in 1 .. n : typed'[lines[k]] = "open"}) -
    Cardinality({k \in 1 .. n : typed'[lines[k]] = "close"})

(* How many lines the first phrase takes; 0 is an error. *)
Phrase(lines) ==
    LET ends == {n \in DOMAIN lines : /\ typed'[lines[1]] \in {"whole", "open"}
                                      /\ Depth(lines, n) <= 0
                                      /\ \A k \in 1 .. n - 1 : Depth(lines, k) > 0}
    IN  IF ends = {} THEN 0 ELSE CHOOSE n \in ends : TRUE

ParseAndKeep(lines) ==                      \* mutant of Parse: no buffer.clear()
    /\ commits' = Append(commits, [lines |-> lines, mode |-> mode, took |-> Phrase(lines)])
    /\ buffer' = lines

Parse(lines) ==
    /\ commits' = Append(commits, [lines |-> lines, mode |-> mode, took |-> Phrase(lines)])
    /\ buffer' = << >>

InstantAppended ==                          \* mutant of InstantLine: buffer += line
    /\ instant_mode
    /\ \E line \in Code \cup {"blank"} : Type(line)
    /\ Parse(Append(buffer, Here))
    /\ UNCHANGED <<mode, show_text, instant_mode, running>>

(* The line takes the place of what was pending. *)
InstantLine ==
    /\ instant_mode
    /\ \E line \in Code \cup {"blank"} : Type(line)
    /\ Parse(<<Here>>)
    /\ UNCHANGED <<mode, show_text, instant_mode, running>>

BlankAlone ==
    /\ ~instant_mode /\ buffer = << >>
    /\ Type("blank")
    /\ UNCHANGED <<buffer, mode, show_text, instant_mode, commits, running>>

BlankCommits ==
    /\ ~instant_mode /\ buffer # << >>
    /\ Type("blank")
    /\ Parse(buffer)
    /\ UNCHANGED <<mode, show_text, instant_mode, running>>

BufferedLine ==
    /\ ~instant_mode
    /\ \E line \in Code : Type(line)
    /\ buffer' = Append(buffer, Here)
    /\ UNCHANGED <<mode, show_text, instant_mode, commits, running>>

Done == (~running \/ Len(typed) = MaxLines) /\ UNCHANGED vars

Next ==
    \/ Quit \/ EndOfInput \/ ToggleText \/ Clear \/ ToggleInstant \/ SetMode \/ Unknown
    \/ InstantLine \/ BlankAlone \/ BlankCommits \/ BufferedLine
    \/ Done

Spec == Init /\ [][Next]_vars

-----------------------------------------------------------------------------
(* Properties, against the transcript. *)

Program == {i \in DOMAIN typed : typed[i] \in Code}

(* An odd number of :i before it, for it is on at first. *)
Gathered(i) == Cardinality({j \in 1 .. i : typed[j] = ":i"}) % 2 = 1

Increasing(lines) == \A m, n \in DOMAIN lines : m < n => lines[m] < lines[n]
Before(lines, others) == \A i \in Range(lines), j \in Range(others) : i < j

(* Printed, or handed over with what an error is shown for. *)
Answered == UNION {{c.lines[k] : k \in 1 .. IF c.took = 0 THEN Len(c.lines) ELSE c.took} : c \in Range(commits)}

(* From i to j nothing is committed, cleared or replaced. *)
Kept(i, j) == \A k \in i .. j : typed[k] \notin {"blank", ":c"} /\ (typed[k] \in Code => Gathered(k))

(* The lines from i to j close all they open. *)
Complete(i, j) ==
    /\ typed[i] \in {"whole", "open"}
    /\ Cardinality({k \in i .. j : typed[k] = "open"}) = Cardinality({k \in i .. j : typed[k] = "close"})

(* Pending at a :c, or at a line that took its place in instant mode. *)
Discarded(i) ==
    \E j \in i + 1 .. Len(typed) :
        /\ Kept(i, j - 1)
        /\ typed[j] = ":c" \/ (typed[j] \in Code \cup {"blank"} /\ ~Gathered(j))

(* Committed by a blank line, behind a phrase that was complete. *)
Unread(i) ==
    \E first \in 1 .. i - 1, j \in i + 1 .. Len(typed) :
        /\ typed[j] = "blank" /\ Gathered(j)
        /\ Kept(first, j - 1)
        /\ \E end \in first .. i - 1 : Complete(first, end)

(***************************************************************************)
(* A line of a program is pending, or the user has got an answer about it: *)
(* it is part of a phrase that was printed, or of a commit that an error   *)
(* was shown for.  Otherwise it was cleared by :c, or it is lost in one of *)
(* the two ways in which BlankCommitsAndParses fails and in no other:      *)
(* replaced in instant mode, or behind a phrase that was complete before   *)
(* it in the same commit.  Types are kept, too.                            *)
(***************************************************************************)
LinesAccounted ==
    /\ TypeOK
    /\ \A i \in Program \ (Range(buffer) \cup Answered) : Discarded(i) \/ Unread(i)

(***************************************************************************)
(* No line is parsed twice or before an earlier one, and what is pending   *)
(* comes after all that was parsed.                                        *)
(***************************************************************************)
ParsedOnce ==
    /\ Increasing(buffer)
    /\ \A c \in DOMAIN commits :
          /\ Increasing(commits[c].lines)
          /\ Before(commits[c].lines, buffer)
          /\ \A d \in DOMAIN commits : c < d => Before(commits[c].lines, commits[d].lines)

(***************************************************************************)
(* Lines that are pending together are parsed together, however many       *)
(* commands come between them: the lines of one commit are all the lines   *)
(* of a program from its first to its last, and a blank line follows.      *)
(***************************************************************************)
ParsedTogether ==
    \A c \in Range(commits) :
        LET first == c.lines[1]
            last == Last(c.lines)
        IN  /\ Range(c.lines) \ {first} = {i \in Program : first < i /\ i <= last}
            /\ Gathered(first) => \E j \in last + 1 .. Len(typed) :
                  typed[j] = "blank" /\ \A k \in last + 1 .. j - 1 : typed[k] \in Commands

(***************************************************************************)
(* "a blank line commits and parses it" (ast_repl.cpp:19): after a blank   *)
(* line there is an answer about every line of a program typed before it   *)
(* and not cleared.  There is not: a blank line in instant mode replaces   *)
(* what is pending, and a commit is given up after its first phrase.       *)
(***************************************************************************)
BlankCommitsAndParses ==
    \A b \in DOMAIN typed, i \in Program :
        typed[b] = "blank" /\ i < b /\ (\A k \in i .. b : typed[k] # ":c") => i \in Answered

=============================================================================
