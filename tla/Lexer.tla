-------------------------------- MODULE Lexer --------------------------------
(***************************************************************************)
(* ParseStream (parser.hpp), with parse_type, which reads characters by    *)
(* itself, and ParseError::what, which shows where an error is.  The       *)
(* parsers above it try one kind of token after another; any order of      *)
(* attempts is modelled here.                                              *)
(***************************************************************************)
EXTENDS Integers, Sequences, FiniteSets, SequencesExt

CONSTANTS
    Alphabet,       \* the characters of the texts
    Keywords,       \* some of keywords[], as sequences of characters
    Punctuation,    \* what the parsers ask for with try_consume and consume
    MaxLength,      \* bound: characters of a text
    Limit           \* the first number that does not fit: 2^64 in the code

Digits == <<"0", "1", "2", "3", "4", "5", "6", "7", "8", "9">>
Letters == {"e", "f", "i", "l", "n", "s", "x"}
WordChars == Letters \cup Range(Digits) \cup {"_"}
Spaces == {" ", "\n"}

TwoCharOperators == {<<"+", "+">>, <<"-", "-">>, <<"-", ">">>, <<"&", "&">>, <<"|", "|">>,
                     <<"=", "=">>, <<"!", "=">>, <<"<", "=">>, <<">", "=">>}
OneCharOperators == {"+", "-", "*", "/", "%", ".", "&", "|", "^", "!", "=", "<", ">"}

ASSUME LexerAssumption ==
    /\ Alphabet \subseteq WordChars \cup Spaces \cup OneCharOperators
                            \cup {"#", "@", "(", ")", "[", "]", "{", "}", ",", ";", "?"}
    /\ Keywords \subseteq Seq(Letters) \ {<< >>}
    /\ \A k, w \in Keywords : IsPrefix(k, w) => k = w
    /\ Punctuation \subseteq Seq(Alphabet \ (Spaces \cup {"#"})) \ {<< >>}
    /\ MaxLength \in Nat /\ Limit \in Nat \ {0}

VARIABLES
    text,           \* full
    at,             \* current: a position in the text
    taken,          \* history: the tokens taken, in order
    error           \* the ParseError that was returned

vars == <<text, at, taken, error>>

NoError == [context |-> 0, found |-> 0]

Kinds == {"punctuation", "name", "number", "operator", "type"}
End == Len(text) + 1

TypeOK ==
    /\ text \in Seq(Alphabet) /\ Len(text) <= MaxLength
    /\ at \in 1 .. End
    /\ \A t \in Range(taken) :
          /\ t.kind \in Kinds
          /\ 1 <= t.first /\ t.first < t.next /\ t.next <= at
          /\ t.value \in 0 .. Limit - 1
    /\ error # NoError => error.context \in 1 .. End /\ error.found \in 0 .. End - error.context

Init ==
    /\ text \in UNION {[1 .. n -> Alphabet] : n \in 0 .. MaxLength}
    /\ at = 1 /\ taken = << >> /\ error = NoError

-----------------------------------------------------------------------------
(* What the loops over current leave behind. *)

(* Past the characters of a set. *)
Past(p, set) ==
    CHOOSE q \in p .. End :
        /\ \A k \in p .. q - 1 : text[k] \in set
        /\ q < End => text[q] \notin set

Least(a, b) == IF a < b THEN a ELSE b

NextLineLate(p) == Least(Past(p, Alphabet \ {"\n"}) + 2, End)     \* mutant of NextLine
NextLine(p) == Least(Past(p, Alphabet \ {"\n"}) + 1, End)

skip_comments(p) ==
    LET skip[q \in 1 .. End] ==
            LET word == Past(q, Spaces) IN
            IF word < End /\ text[word] = "#" THEN skip[NextLine(word)] ELSE word
    IN  skip[p]

starts_with(p, pre) == p + Len(pre) <= End /\ SubSeq(text, p, p + Len(pre) - 1) = pre

(* An attempt leaves current somewhere, with what it has taken before it. *)
Took(p, size) == [at |-> p + size, size |-> size]

try_consume_restoring(p, pre) ==            \* mutant of try_consume
    LET s == skip_comments(p) IN
    IF starts_with(s, pre) THEN Took(s, Len(pre)) ELSE Took(p, 0)

try_consume(p, pre) ==
    LET s == skip_comments(p) IN Took(s, IF starts_with(s, pre) THEN Len(pre) ELSE 0)

WordAt(s) == IF s < End /\ text[s] \in Letters THEN SubSeq(text, s, Past(s, WordChars) - 1) ELSE << >>

try_name_eating(p) ==                       \* mutant of try_name: current is not put back
    LET s == skip_comments(p) IN
    IF WordAt(s) \in Keywords THEN Took(s + Len(WordAt(s)), 0) ELSE Took(s, Len(WordAt(s)))

try_name(p) ==
    LET s == skip_comments(p) IN Took(s, IF WordAt(s) \in Keywords THEN 0 ELSE Len(WordAt(s)))

FirstOperator(s) ==                         \* mutant of peek_operator: single ones first
    IF s < End /\ text[s] \in OneCharOperators THEN 1
    ELSE IF \E o \in TwoCharOperators : starts_with(s, o) THEN 2 ELSE 0

(* The number of characters of the operator at s. *)
peek_operator(s) ==
    IF \E o \in TwoCharOperators : starts_with(s, o) THEN 2
    ELSE IF s < End /\ text[s] \in OneCharOperators THEN 1 ELSE 0

try_operator(p) == LET s == skip_comments(p) IN Took(s, peek_operator(s))

try_number(p) == LET s == skip_comments(p) IN Took(s, Past(s, Range(Digits)) - s)

(* @, a word of any kind or none, and stars; there is nothing in between. *)
parse_type(p) ==
    LET s == skip_comments(p)
        word == Past(s + 1, WordChars)
    IN  IF starts_with(s, <<"@">>) THEN Took(s, Past(word, {"*"}) - s) ELSE Took(s, 0)

-----------------------------------------------------------------------------
(* Numbers. *)

DigitValue(c) == (CHOOSE i \in DOMAIN Digits : Digits[i] = c) - 1

Decimal(digits) ==
    LET read[n \in 0 .. Len(digits)] ==
            IF n = 0 THEN 0 ELSE 10 * read[n - 1] + DigitValue(digits[n])
    IN  read[Len(digits)]

Wrapped(digits) == Decimal(digits) % Limit          \* mutant of from_chars

(* std::from_chars leaves its result alone if the number does not fit. *)
from_chars(digits) == IF Decimal(digits) < Limit THEN Decimal(digits) ELSE 0

-----------------------------------------------------------------------------
(* Errors. *)

KeywordsAt(s) == {k \in Keywords : starts_with(s, k)}

(* What is quoted: a keyword, also one that only begins a word; a name, an *)
(* operator, or one character.  Nothing is quoted at the end.              *)
FoundSize(s) ==
    IF KeywordsAt(s) # {} THEN Len(CHOOSE k \in KeywordsAt(s) : TRUE)
    ELSE IF WordAt(s) # << >> THEN Len(WordAt(s))
    ELSE IF peek_operator(s) # 0 THEN peek_operator(s)
    ELSE IF s < End THEN 1 ELSE 0

(* Only the way out with a keyword does not put current back. *)
found_token(p) ==
    LET s == skip_comments(p) IN
    [at |-> IF KeywordsAt(s) # {} THEN s ELSE p, size |-> FoundSize(s)]

(* ParseError(format(.., found_token()), current): in either order. *)
Error(p) == [context : {p, found_token(p).at}, found : {found_token(p).size}]

-----------------------------------------------------------------------------
Reading == error = NoError

Attempts(p) ==
    {[kind |-> "punctuation", result |-> try_consume(p, pre)] : pre \in Punctuation} \cup
    {[kind |-> "name", result |-> try_name(p)],
     [kind |-> "number", result |-> try_number(p)],
     [kind |-> "operator", result |-> try_operator(p)],
     [kind |-> "type", result |-> parse_type(p)]}

Token(kind, r) ==
    [kind |-> kind, first |-> r.at - r.size, next |-> r.at,
     value |-> IF kind = "number" THEN from_chars(SubSeq(text, r.at - r.size, r.at - 1)) ELSE 0]

Take ==
    /\ Reading
    /\ \E a \in Attempts(at) :
          /\ a.result.size > 0
          /\ at' = a.result.at
          /\ taken' = Append(taken, Token(a.kind, a.result))
    /\ UNCHANGED <<text, error>>

(* The parser goes on to try something else. *)
TryInVain ==
    /\ Reading
    /\ \E a \in Attempts(at) : a.kind # "type" /\ a.result.size = 0 /\ at' = a.result.at
    /\ UNCHANGED <<text, taken, error>>

(* consume, consume_name, parse_type and parse_atom, which tries two things. *)
Expect ==
    /\ Reading
    /\ \E a \in Attempts(at) :
          /\ a.result.size = 0 /\ a.kind # "operator"
          /\ a.kind = "number" => try_name(at).size = 0
          /\ error' \in Error(a.result.at) /\ at' = found_token(a.result.at).at
    /\ UNCHANGED <<text, taken>>

Done == (~Reading \/ at = End) /\ UNCHANGED vars

Next == Take \/ TryInVain \/ Expect \/ Done

Spec == Init /\ [][Next]_vars

-----------------------------------------------------------------------------
(* ParseError::what, for an error that is not at the end. *)

line_start(offset) ==
    CHOOSE p \in 1 .. offset + 1 :
        /\ p > 1 => text[p - 1] = "\n"
        /\ \A k \in p .. offset : text[k] # "\n"
line_end(offset) == Past(offset, Alphabet \ {"\n"})
line_num(offset) == Cardinality({k \in 1 .. offset - 1 : text[k] = "\n"}) + 1
column(offset) == offset - line_start(offset) + 1

-----------------------------------------------------------------------------
(* Properties. *)

(* Powers of ten. *)
Ten[k \in 0 .. MaxLength] == IF k = 0 THEN 1 ELSE 10 * Ten[k - 1]

(* White space, or in a comment: after a # of its line. *)
Blank(c) ==
    \/ text[c] \in Spaces
    \/ \E h \in 1 .. c : text[h] = "#" /\ \A k \in h .. c : text[k] # "\n"

(***************************************************************************)
(* What has been read is the tokens and the blanks between them: no        *)
(* character of a comment gets into a token, whatever is tried first, and  *)
(* none of the program is skipped or read twice.  Types are kept, too.     *)
(***************************************************************************)
TokensTile ==
    /\ TypeOK
    /\ \A i \in 1 .. Len(taken) - 1 : taken[i].next <= taken[i + 1].first
    /\ \A c \in 1 .. at - 1 :
          Blank(c) <=> ~\E i \in DOMAIN taken : taken[i].first <= c /\ c < taken[i].next

(***************************************************************************)
(* An attempt that fails leaves the text as good as untouched: whatever is *)
(* tried next finds what it would have found without it.  The parsers,     *)
(* which try one thing after the other, rest on it.                        *)
(***************************************************************************)
FailureKeepsPlace ==
    \A a \in Attempts(at) :
        a.result.size = 0 => Attempts(a.result.at) = Attempts(at)

(***************************************************************************)
(* Tokens are as long as they can be: an operator is not the beginning of  *)
(* a longer one, and a word is only taken apart behind a number or, for    *)
(* the parsers that ask for a keyword with try_consume, behind a keyword.  *)
(***************************************************************************)
ReadsTheLongest ==
    \A i \in DOMAIN taken :
        LET t == taken[i] IN
        /\ t.kind = "operator" =>
              \A o \in TwoCharOperators : starts_with(t.first, o) => t.next = t.first + 2
        /\ t.kind \in {"name", "type"} /\ t.next < End /\ text[t.next] \in WordChars =>
              text[t.next - 1] = "*"
        /\ t.kind = "name" => SubSeq(text, t.first, t.next - 1) \notin Keywords
        /\ t.first > 1 /\ {text[t.first - 1], text[t.first]} \subseteq WordChars =>
              i > 1 /\ taken[i - 1].next = t.first /\ taken[i - 1].kind \in {"punctuation", "number"}

(***************************************************************************)
(* An error points at the first thing that was not taken and quotes what   *)
(* is there, in whichever order the compiler evaluates the arguments of    *)
(* ParseError; what finds it in a line that has a column for it.           *)
(***************************************************************************)
ErrorsPoint ==
    error # NoError =>
        LET e == error.context IN
        /\ error.context = at
        /\ e = skip_comments(IF taken = << >> THEN 1 ELSE Last(taken).next)
        /\ (error.found = 0) = (e = End)
        /\ e # End =>
              /\ line_start(e) <= e /\ e < line_end(e) /\ column(e) >= 1
              /\ \A k \in line_start(e) .. line_end(e) - 1 : text[k] # "\n"
              /\ line_num(e) = Cardinality({k \in 1 .. line_start(e) - 1 : text[k] = "\n"}) + 1

(***************************************************************************)
(* A number is what its digits say, digit by digit, or 0: if it is 0 or    *)
(* does not fit.                                                           *)
(***************************************************************************)
NumbersAreExact ==
    \A t \in Range(taken) :
        t.kind = "number" =>
            \/ \A k \in 0 .. t.next - t.first - 1 :
                  DigitValue(text[t.next - 1 - k]) = (t.value \div Ten[k]) % 10
            \/ t.value = 0 /\ Decimal(SubSeq(text, t.first, t.next - 1)) >= Limit

=============================================================================
