------------------------------- MODULE Delivery -------------------------------
(***************************************************************************)
(* What a server promises of a response that announces its length: the     *)
(* bytes come in order and none is missing or sent twice; the response is  *)
(* complete when as many have come as were announced, and otherwise the    *)
(* browser is told, by the end of the connection.                          *)
(***************************************************************************)
EXTENDS Naturals

VARIABLES
  want,    \* Content-Length
  got,     \* bytes the browser has been sent, the first `got' of the response
  status

dvars == <<want, got, status>>

Init ==
  /\ want \in Nat
  /\ got = 0
  /\ status = "open"

Deliver ==
  /\ status = "open"
  /\ \E n \in 1..want : got + n <= want /\ got' = got + n
  /\ UNCHANGED <<want, status>>

Complete ==
  /\ status = "open" /\ got = want
  /\ status' = "complete"
  /\ UNCHANGED <<want, got>>

Break ==
  /\ status = "open"
  /\ status' = "broken"
  /\ UNCHANGED <<want, got>>

Next == Deliver \/ Complete \/ Break

Spec == Init /\ [][Next]_dvars

\* A response does not stay open for ever.
Ends == status = "open" ~> status # "open"
=============================================================================
