---------------------------- MODULE MCClientLoop ----------------------------
(***************************************************************************)
(* The instances of ClientLoop that TLC checks: what the browsers of a run *)
(* may send.                                                               *)
(***************************************************************************)
EXTENDS ClientLoop

\* Everything: any method, for anything, "/" included.
AnyRequest == RequestType

\* The requests the server answers by design: a named path, or the index page.
Answered ==
  {r \in RequestType : /\ r.method \in {"GET", "PUT", "DELETE"}
                       /\ r.url \/ r.target \in {"missing", "file"}}

AnyInput == InputType

\* Headers that arrive whole, and well-formed upgrades.
WholeHeaders == {"whole", "error", "upgrade"}

\* They leave out what the theorems about a client's dialogue suppose left out.
ASSUME DialogueAssumption ==
  NoHead(Answered) /\ NoRefusal(Answered) /\ NoParts(WholeHeaders)
=============================================================================
