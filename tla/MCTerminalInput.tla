--------------------------- MODULE MCTerminalInput ---------------------------
(***************************************************************************)
(* Instances of TerminalInput: what is typed and pasted.                   *)
(***************************************************************************)
EXTENDS TerminalInput

Pasted(kind, n) == [i \in 1..n |-> kind]

\* A key, what a user may take for a size, a pair where the data is cut, characters
\* that make a frame too long, and more than the socket's buffer takes at once.
AnyInput ==
  {<<"ascii">>,
   <<"nul">> \o Pasted("ascii", 4),
   Pasted("ascii", buffer_max - 1) \o <<"pair">>,
   Pasted("wide", buffer_max),
   Pasted("ascii", 2 * buffer_max + 1)}
=============================================================================
