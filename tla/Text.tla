-------------------------------- MODULE Text --------------------------------
(***************************************************************************)
(* Header field values as texts, and the string operations the value types *)
(* of src/src/ share: those of Rust's str, and src/src/validate.rs.        *)
(*                                                                         *)
(* A text is a sequence of symbols.  A symbol is a character, or a word    *)
(* ("bytes", "max-age") that stands for a run of letters.  Named           *)
(* characters are "SP", "HT", "DQUOTE", "BSLASH", "BQUOTE", "CTL" (any     *)
(* other control character), "DEL" and "OBS" (a character above 0x7F).     *)
(*                                                                         *)
(* A parser returns the set of its results: one value, or none for an      *)
(* error.  An Option is a set in the same way.                             *)
(***************************************************************************)
EXTENDS Integers, Sequences, FiniteSets, SequencesExt

CONSTANTS
    U16Max,     \* u16::MAX
    U64Max      \* u64::MAX

ASSUME TextAssumption == U16Max \in Nat /\ U64Max \in Nat

Digits == {"0", "1", "2", "3", "4", "5", "6", "7", "8", "9"}
DigitVal == [d \in Digits |->
    CHOOSE n \in 0..9 : d = <<"0", "1", "2", "3", "4", "5", "6", "7", "8", "9">>[n + 1]]
DigitOf(n) == <<"0", "1", "2", "3", "4", "5", "6", "7", "8", "9">>[n + 1]
HexOf(n) == IF n < 10 THEN DigitOf(n) ELSE <<"A", "B", "C", "D", "E", "F">>[n - 9]
HexDigits == Digits \cup {"a", "b", "c", "d", "e", "f", "A", "B", "C", "D", "E", "F"}

UpperLetters == <<"A", "B", "C", "D", "E", "F", "G", "H", "I", "J", "K", "L", "M", "N", "O", "P",
                  "Q", "R", "S", "T", "U", "V", "W", "X", "Y", "Z">>
LowerLetters == <<"a", "b", "c", "d", "e", "f", "g", "h", "i", "j", "k", "l", "m", "n", "o", "p",
                  "q", "r", "s", "t", "u", "v", "w", "x", "y", "z">>
UpperIndex == [c \in Range(UpperLetters) |-> CHOOSE i \in 1..26 : UpperLetters[i] = c]
LowerIndex == [c \in Range(LowerLetters) |-> CHOOSE i \in 1..26 : LowerLetters[i] = c]

\* The ASCII codes of the characters (words have none).
CodeOf ==
    [d \in Digits |-> 48 + DigitVal[d]]
    @@ [c \in DOMAIN UpperIndex |-> 64 + UpperIndex[c]]
    @@ [c \in DOMAIN LowerIndex |-> 96 + LowerIndex[c]]
    @@ [CTL |-> 1, HT |-> 9, SP |-> 32, DQUOTE |-> 34, BSLASH |-> 92, BQUOTE |-> 96, DEL |-> 127]
    @@ ("!" :> 33) @@ ("#" :> 35) @@ ("$" :> 36) @@ ("%" :> 37) @@ ("&" :> 38)
    @@ ("'" :> 39) @@ ("(" :> 40) @@ (")" :> 41) @@ ("*" :> 42) @@ ("+" :> 43)
    @@ ("," :> 44) @@ ("-" :> 45) @@ ("." :> 46) @@ ("/" :> 47) @@ (":" :> 58)
    @@ (";" :> 59) @@ ("<" :> 60) @@ ("=" :> 61) @@ (">" :> 62) @@ ("?" :> 63)
    @@ ("@" :> 64) @@ ("[" :> 91) @@ ("]" :> 93) @@ ("^" :> 94) @@ ("_" :> 95)
    @@ ("{" :> 123) @@ ("|" :> 124) @@ ("}" :> 125) @@ ("~" :> 126)
HexValOf == [h \in HexDigits |->
    IF h \in Digits THEN DigitVal[h] ELSE ((CodeOf[h] - 65) % 32) + 10]

\* to_ascii_lowercase and eq_ignore_ascii_case.
LowerOf ==
    [c \in DOMAIN UpperIndex |-> LowerLetters[UpperIndex[c]]]
    @@ [Bytes |-> "bytes", HTTP |-> "http", Basic |-> "basic", Digest |-> "digest",
        Bearer |-> "bearer"] @@ ("UTF-8" :> "utf-8")
LowerChar(c) == IF c \in DOMAIN LowerOf THEN LowerOf[c] ELSE c
Lower(s) == [i \in DOMAIN s |-> LowerChar(s[i])]
SameIgnoringCase(s, t) == Lower(s) = Lower(t)

-----------------------------------------------------------------------------
\* The parts of a text, by position.
Take(s, n) == SubSeq(s, 1, n)
Drop(s, n) == SubSeq(s, n + 1, Len(s))
AllIn(s, S) == \A i \in DOMAIN s : s[i] \in S
Holds(s, S) == \E i \in DOMAIN s : s[i] \in S
StartsWith(s, p) == Len(p) <= Len(s) /\ Take(s, Len(p)) = p
PlacesOf(s, S) == {i \in DOMAIN s : s[i] \in S}

\* find and rfind: the first and the last position of a character of S, 0 if
\* there is none.
Find(s, S) ==
    IF Holds(s, S) THEN CHOOSE i \in PlacesOf(s, S) : \A j \in PlacesOf(s, S) : i <= j ELSE 0
RFind(s, S) ==
    IF Holds(s, S) THEN CHOOSE i \in PlacesOf(s, S) : \A j \in PlacesOf(s, S) : i >= j ELSE 0

\* What precedes the first character of S (the whole text if there is none),
\* and what follows it (nothing if there is none).
Before(s, S) == IF Holds(s, S) THEN Take(s, Find(s, S) - 1) ELSE s
After(s, S) == IF Holds(s, S) THEN Drop(s, Find(s, S)) ELSE << >>

\* split: there is always at least one, possibly empty, part.
Split(s, c) ==
    FoldLeft(LAMBDA parts, x : IF x = c THEN Append(parts, << >>)
                               ELSE [parts EXCEPT ![Len(parts)] = Append(@, x)],
             << << >> >>, s)

\* trim_ows of validate.rs (and trim of str where no other whitespace occurs).
Trim(s) ==
    LET kept == {i \in DOMAIN s : s[i] \notin {"SP", "HT"}}
    IN  IF kept = {} THEN << >>
        ELSE SubSeq(s, CHOOSE i \in kept : \A j \in kept : i <= j,
                       CHOOSE i \in kept : \A j \in kept : i >= j)

\* trim_start.
TrimStart(s) == Drop(s, (CHOOSE n \in 0..Len(s) :
    AllIn(Take(s, n), {"SP", "HT"}) /\ (n < Len(s) => s[n + 1] \notin {"SP", "HT"})))

\* The non-empty elements of a comma separated list, trimmed.
ListOf(s) == SelectSeq([i \in DOMAIN Split(s, ",") |-> Trim(Split(s, ",")[i])],
                       LAMBDA part : part # << >>)

\* A list is parsed if each of its elements is.
ParseAll(parts, Parse(_)) ==
    IF \E i \in DOMAIN parts : Parse(parts[i]) = {} THEN {}
    ELSE {[i \in DOMAIN parts |-> CHOOSE v \in Parse(parts[i]) : TRUE]}

Join(parts, separator) ==
    FlattenSeq([i \in DOMAIN parts |-> IF i = 1 THEN parts[i] ELSE separator \o parts[i]])

-----------------------------------------------------------------------------
\* Numbers.  all(is_ascii_digit) and parse::<uN>: the value of a run of
\* digits, without a limit; callers compare with the type's maximum.
IsNumber(s) == s # << >> /\ AllIn(s, Digits)
Number(s) == FoldLeft(LAMBDA n, d : 10 * n + DigitVal[d], 0, s)

\* str::parse::<uN> itself also takes a leading "+".
IsRustNumber(s) == IsNumber(s) \/ (s # << >> /\ s[1] = "+" /\ IsNumber(Drop(s, 1)))
RustNumber(s) == IF s[1] = "+" THEN Number(Drop(s, 1)) ELSE Number(s)
ParseU16(s) == IF IsRustNumber(s) /\ RustNumber(s) <= U16Max THEN {RustNumber(s)} ELSE {}
ParseU64(s) == IF IsRustNumber(s) /\ RustNumber(s) <= U64Max THEN {RustNumber(s)} ELSE {}

\* write_usize_decimal and the formatting of integers: no leading zero.
Decimal(n) ==
    LET width == CHOOSE w \in 1..(n + 1) : n < 10 ^ w /\ (w = 1 \/ n >= 10 ^ (w - 1))
    IN  [i \in 1..width |-> DigitOf((n \div 10 ^ (width - i)) % 10)]

\* The {:0w} format: at least w digits.
Padded(n, w) ==
    IF n < 10 ^ w THEN [i \in 1..w |-> DigitOf((n \div 10 ^ (w - i)) % 10)] ELSE Decimal(n)

\* write_hex_usize.
HexDecimal(n) ==
    LET width == CHOOSE w \in 1..(n + 1) : n < 16 ^ w /\ (w = 1 \/ n >= 16 ^ (w - 1))
    IN  [i \in 1..width |-> LowerChar(HexOf((n \div 16 ^ (width - i)) % 16))]

-----------------------------------------------------------------------------
\* Character classes.  Every symbol that is not named here is a letter.
Controls == {"CTL", "DEL"}
Separators == {"SP", "HT", "DQUOTE", "BSLASH", ",", ";", "=", "(", ")", "/", ":",
               "<", ">", "?", "@", "[", "]", "{", "}", "OBS"} \cup Controls
SubDelims == {"!", "$", "&", "'", "(", ")", "*", "+", ",", ";", "="}
Marks == {"!", "#", "$", "%", "&", "'", "*", "+", "-", ".", "^", "_", "|", "~", "BQUOTE"}
IsAlpha(c) == c \notin Separators \cup Marks \cup Digits
IsTChar(c) == c \notin Separators
IsUnreserved(c) == IsAlpha(c) \/ c \in Digits \cup {"-", ".", "_", "~"}

\* is_valid_token: a non-empty run of tchar.
IsToken(s) == s # << >> /\ \A i \in DOMAIN s : IsTChar(s[i])

\* is_qdtext_char and is_quoted_pair_char.
IsQdText(c) == c \notin {"DQUOTE", "BSLASH"} \cup Controls
IsQuotedPair(c) == c \notin Controls

\* is_valid_field_value: no control character but HT.
IsFieldValue(s) == ~Holds(s, Controls)

\* is_valid_language_tag: 1*8ALPHA *( "-" 1*8alphanum ).
IsLanguageTag(s) ==
    LET tags == Split(s, "-")
    IN  \A i \in DOMAIN tags :
          /\ Len(tags[i]) \in 1..8
          /\ \A j \in DOMAIN tags[i] :
                IsAlpha(tags[i][j]) \/ (i > 1 /\ tags[i][j] \in Digits)

\* is_valid_protocol_version: token "/" 1*DIGIT "." 1*DIGIT.
IsProtocolVersion(s) ==
    LET numbers == After(s, {"/"})
    IN  /\ Holds(s, {"/"}) /\ IsToken(Before(s, {"/"}))
        /\ Holds(numbers, {"."})
        /\ IsNumber(Before(numbers, {"."})) /\ IsNumber(After(numbers, {"."}))

-----------------------------------------------------------------------------
\* One character of parse_quoted_string.
QuotedStep(q, c) ==
    CASE q.at = "escaped" ->
           IF IsQuotedPair(c) THEN [q EXCEPT !.at = "open", !.value = Append(@, c)]
           ELSE [q EXCEPT !.at = "error"]
      [] q.at = "open" /\ c = "BSLASH" -> [q EXCEPT !.at = "escaped"]
      [] q.at = "open" /\ c = "DQUOTE" -> [q EXCEPT !.at = "closed"]
      [] q.at = "open" /\ c \notin {"BSLASH", "DQUOTE"} ->
           IF IsQdText(c) THEN [q EXCEPT !.value = Append(@, c)] ELSE [q EXCEPT !.at = "error"]
      [] q.at = "closed" -> [q EXCEPT !.rest = Append(@, c)]
      [] q.at = "error" -> q

\* parse_quoted_string, on what follows the opening quote: the unescaped
\* value and what follows the closing quote.
ParseQuotedString(s) ==
    LET q == FoldLeft(QuotedStep, [at |-> "open", value |-> << >>, rest |-> << >>], s)
    IN  IF q.at = "closed" THEN {[value |-> q.value, rest |-> q.rest]} ELSE {}

\* Mutant: a backslash is written as it is.
EscapeQuotesNotBackslash(s) ==
    FlattenSeq([i \in DOMAIN s |->
        IF ~IsQuotedPair(s[i]) THEN <<"SP">>
        ELSE IF s[i] = "DQUOTE" THEN <<"BSLASH", s[i]>> ELSE <<s[i]>>])

\* escape_quotes: control characters become spaces.
EscapeQuotes(s) ==
    FlattenSeq([i \in DOMAIN s |->
        IF ~IsQuotedPair(s[i]) THEN <<"SP">>
        ELSE IF s[i] \in {"DQUOTE", "BSLASH"} THEN <<"BSLASH", s[i]>> ELSE <<s[i]>>])

Quoted(s) == <<"DQUOTE">> \o EscapeQuotes(s) \o <<"DQUOTE">>

\* split_with_quotes: a delimiter inside quotes does not split.
SplitWithQuotes(s, delimiter) ==
    LET Step(q, c) ==
            IF c = delimiter /\ q.at = "plain"
            THEN [q EXCEPT !.parts = Append(@, << >>)]
            ELSE [at |-> CASE q.at = "escaped" -> "quoted"
                           [] q.at = "quoted" /\ c = "BSLASH" -> "escaped"
                           [] c = "DQUOTE" /\ q.at = "plain" -> "quoted"
                           [] c = "DQUOTE" /\ q.at = "quoted" -> "plain"
                           [] OTHER -> q.at,
                  parts |-> [q.parts EXCEPT ![Len(q.parts)] = Append(@, c)]]
    IN  FoldLeft(Step, [at |-> "plain", parts |-> << << >> >>], s).parts

\* Characters, with a percent sign together with the two that follow it.
Escapes(s) ==
    FoldLeft(LAMBDA parts, c :
               IF parts # << >> /\ parts[Len(parts)][1] = "%" /\ Len(parts[Len(parts)]) < 3
               THEN [parts EXCEPT ![Len(parts)] = Append(@, c)]
               ELSE Append(parts, <<c>>), << >>, s)
=============================================================================
