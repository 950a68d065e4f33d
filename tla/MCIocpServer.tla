---------------------------- MODULE MCIocpServer ----------------------------
(***************************************************************************)
(* Instances of IocpServer: what browsers send.                            *)
(***************************************************************************)
EXTENDS IocpServer, TLC

Symmetry == Permutations(Clients)

\* Any parse of the requests that are treated in a way of their own, a body in one
\* piece at most, whether or not a body belongs there.
AnyInput ==
  {r \in [verdict : {"ok", "partial", "error"}, method : {"GET", "HEAD", "POST"},
          path : Paths, keep : {FALSE}, body : 0..1, here : 0..1] :
     /\ r.here <= r.body /\ (r.method # "POST" => r.here = r.body)
     /\ r.body > 0 => r.verdict \in {"ok", "error"}}

\* Requests the server follows to their end: no HEAD, a POST with a body and its
\* header in one piece, no body in any other.
Followed ==
  {r \in [verdict : {"ok", "error", "upgrade", "bare"}, method : Methods,
          path : Paths \cup {Root}, keep : BOOLEAN, body : 0..2, here : 0..2] :
     /\ r.method # "HEAD" /\ r.here <= r.body
     /\ r.method = "POST" <=> r.body > 0
     /\ r.verdict # "ok" => r.method = "GET"}

File(n) == [kind |-> "file", pieces |-> n]
Other(kind) == [kind |-> kind, pieces |-> 0]
Opened == {File(1), Other("unread")}
Readable == {File(0), File(1), File(2)}
              \cup {Other(kind) : kind \in {"missing", "directory", "unlisted"}}

\* The instance of iocp_dialogue is one the theorems about such requests are about.
ASSUME FollowedAssumption == ServedToTheEnd(Followed, Readable, {"abort", "other"})
=============================================================================
