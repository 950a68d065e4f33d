----------------------------- MODULE RangeRequest -----------------------------
(***************************************************************************)
(* parse_range of src/src/server.cpp: what a Range header, behind its      *)
(* "bytes=", asks of a file.  Numbers are unsigned and wrap at Wrap.       *)
(***************************************************************************)
EXTENDS Integers, SequencesExt

CONSTANTS
  Wrap,         \* 2^64
  Characters    \* what a text may hold

\* The characters: the digits, what else the loops tell apart, and the NUL that
\* ends a text.
Digits == 0..9
Space == 10
Dash == 11
Other == 12
NUL == 13

ASSUME RangeAssumption ==
  Wrap \in Nat \ {0} /\ Characters \subseteq Digits \cup {Space, Dash, Other}

At(s, i) == IF i <= Len(s) THEN s[i] ELSE NUL

\* The loops: the first character from i on that is no space, no digit; the value
\* of digits, and of those at i.
SkipSpaces(s, i) == Min({j \in i..Len(s) + 1 : At(s, j) # Space})
SkipDigits(s, i) == Min({j \in i..Len(s) + 1 : At(s, j) \notin Digits})
Wrapped(digits) ==
  LET n[k \in 0..Len(digits)] == IF k = 0 THEN 0 ELSE (n[k - 1] * 10 + digits[k]) % Wrap
  IN  n[Len(digits)]
Number(s, i) == Wrapped(SubSeq(s, i, SkipDigits(s, i) - 1))

None == [ok |-> FALSE, start |-> 0, end |-> 0]
Part(a, b) == [ok |-> TRUE, start |-> a, end |-> b]

\* "-n": the last n bytes.  "n-": all from n.  "n-m".
Suffix(s, i, size) ==
  IF At(s, i) \in Digits /\ Number(s, i) < size THEN Part(size - Number(s, i), size - 1) ELSE None

\* Mutant: a comparison with filesize lets it through.
FromToClosed(s, i, size) ==
  LET dash == SkipSpaces(s, SkipDigits(s, i))
      last == SkipSpaces(s, dash + 1)
      m == Number(s, last)
  IN  IF Number(s, i) >= size \/ At(s, dash) # Dash THEN None
      ELSE IF At(s, last) \notin Digits THEN Part(Number(s, i), size - 1)
      ELSE IF m > size THEN None
      ELSE Part(Number(s, i), m)

FromTo(s, i, size) ==
  LET dash == SkipSpaces(s, SkipDigits(s, i))
      last == SkipSpaces(s, dash + 1)
      m == Number(s, last)
  IN  IF Number(s, i) >= size \/ At(s, dash) # Dash THEN None
      ELSE IF At(s, last) \notin Digits THEN Part(Number(s, i), size - 1)
      ELSE IF m >= size THEN None
      ELSE Part(Number(s, i), m)

parse_range(s, size) ==
  LET i == SkipSpaces(s, 1)
  IN  CASE At(s, i) = Dash -> Suffix(s, SkipSpaces(s, i + 1), size)
        [] At(s, i) \in Digits -> FromTo(s, i, size)
        [] OTHER -> None

\* What processRequest goes on to serve: the part, or the whole file.
Served(s, size) ==
  LET r == parse_range(s, size)
  IN  IF r.ok THEN [first |-> r.start, stop |-> r.end + 1, size |-> size]
      ELSE [first |-> 0, stop |-> size, size |-> size]

(***************************************************************************)
(* Properties                                                              *)
(***************************************************************************)
\* A number as it is written.
Numeral(t) == t # <<>> /\ \A k \in DOMAIN t : t[k] \in Digits
Value(digits) ==
  LET n[k \in 0..Len(digits)] == IF k = 0 THEN 0 ELSE n[k - 1] * 10 + digits[k]
  IN  n[Len(digits)]

Whole(size) == [first |-> 0, stop |-> size, size |-> size]

\* RFC 7233: "a-b", "a-" and "-n" ask for the bytes a to b, from a on, and for the
\* last n; what cannot be served as asked may be answered with the whole file.
\* parse_range takes every such header for what it says, as long as a <= b and the
\* numbers do not wrap.
WellFormedMeant(s, size) ==
  \A d \in DOMAIN s :
    LET before == SubSeq(s, 1, d - 1)
        after == SubSeq(s, d + 1, Len(s))
        a == Value(before)
        b == Value(after)
        PartOf(x, y) == [first |-> x, stop |-> y + 1, size |-> size]
    IN  /\ s[d] = Dash /\ Numeral(before) /\ Numeral(after) /\ b < Wrap /\ a <= b
             => Served(s, size) = (IF b < size THEN PartOf(a, b) ELSE Whole(size))
        /\ s[d] = Dash /\ Numeral(before) /\ after = <<>> /\ a < Wrap
             => Served(s, size) = (IF a < size THEN PartOf(a, size - 1) ELSE Whole(size))
        /\ s[d] = Dash /\ before = <<>> /\ Numeral(after) /\ b \in 1..Wrap - 1
             => Served(s, size) = (IF b < size THEN PartOf(size - b, size - 1) ELSE Whole(size))

\* Whatever the text, with spaces, junk and numbers that wrap, what is served ends
\* within the file and starts no later than its end.
PartInFile(s, size) ==
  LET p == Served(s, size)
  IN  p.first \in 0..size /\ p.stop \in 0..size /\ (size > 0 => p.stop > 0)
=============================================================================
