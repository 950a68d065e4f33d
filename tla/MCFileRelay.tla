----------------------------- MODULE MCFileRelay -----------------------------
(***************************************************************************)
(* FileRelay behind parse_range: every short Range header over a few       *)
(* digits, for files of every small size, what it asks for and how that is *)
(* served.                                                                 *)
(***************************************************************************)
EXTENDS FileRelay, RangeRequest

CONSTANTS
  MaxLen,    \* bound: characters of a header
  MaxSize    \* bound: the size of a file

VARIABLE text    \* the header of the request, until it has been dealt with

Texts == UNION {[1..n -> Characters] : n \in 0..MaxLen}

AnyPart ==
  {p \in [first : 0..MaxSize, stop : 1..MaxSize, size : 1..MaxSize] :
     p.first < p.stop /\ p.stop <= p.size}

\* parse_range makes empty parts and parts that end before they start of some
\* texts.  They are not relayed here.
Relayed(s, n) == LET p == Served(s, n) IN IF p \in AnyPart THEN p ELSE Whole(n)

\* Every part, whatever asked for it, and every header.
AskInit == Init /\ text \in Texts /\ (text # <<>> => part = Relayed(text, part.size))
AskNext == Next /\ text' = <<>>
AskSpec == AskInit /\ [][AskNext]_<<vars, text>> /\ Fairness

\* A Range header is served as it is meant, and no header reaches out of the file.
RangesMeant == WellFormedMeant(text, part.size) /\ PartInFile(text, part.size)
=============================================================================
