------------------------------ MODULE FileRelay ------------------------------
(***************************************************************************)
(* A file, or a part of one, on its way to a browser of the Windows        *)
(* server: the states ReadStaticFile and SendPartFile of processIOCP in    *)
(* src/src/server.cpp.  The file is read into ctx->buf and sent from it, a *)
(* piece at a time, until recvOL.Offset is what filesize has been made.    *)
(*                                                                         *)
(* A file cannot change meanwhile: it is opened without FILE_SHARE_WRITE.  *)
(***************************************************************************)
EXTENDS Integers

CONSTANTS
  Parts,     \* what may be asked for: [first, stop, size]
  BufSize,   \* sizeof(ctx->buf)
  Word       \* 2^64

ASSUME RelayAssumption ==
  /\ BufSize \in Nat \ {0}
  /\ Word \in Nat \ {0}
  /\ Parts \subseteq [first : Nat, stop : Nat, size : Nat]

VARIABLES
  part,    \* the part asked for; stop is ctx->filesize once it is overwritten
  offset,  \* recvOL.Offset
  toRead,  \* bytes the read in flight is for
  got,     \* history: bytes sent, and whether they were all next in order
  torn,
  state

vars == <<part, offset, toRead, got, torn, state>>

\* A part that is one: parse_range returns others as well.
Ordered == \A p \in Parts : p.first < p.stop /\ p.stop <= p.size /\ p.size < Word

\* Content-Length
Announced == (part.stop - part.first) % Word

Least(a, b) == IF a < b THEN a ELSE b

\* The header is sent and the first piece due.
Init ==
  /\ part \in Parts
  /\ offset = part.first
  /\ toRead = 0
  /\ got = 0
  /\ torn = FALSE
  /\ state = "ReadStaticFile"

\* A send has completed.  A read behind the end of the file fails, and the loop
\* passes over its packet.
ReadStaticFile ==
  /\ state = "ReadStaticFile"
  /\ toRead' = Least((part.stop - offset) % Word, BufSize)
  /\ state' = IF offset >= part.size \/ toRead' = 0 THEN "stuck" ELSE "SendPartFile"
  /\ UNCHANGED <<part, offset, got, torn>>

Sent(n) ==
  /\ got' = got + n
  /\ torn' = (torn \/ offset # part.first + got)

\* Mutants: the offset moves by what was asked for; no read is asked for after the first.
SendPartAsked ==
  /\ state = "SendPartFile"
  /\ \E n \in 1..Least(toRead, part.size - offset) : Sent(n)
  /\ offset' = (offset + toRead) % Word
  /\ state' = IF offset' = part.stop THEN "LastSend" ELSE "ReadStaticFile"
  /\ UNCHANGED <<part, toRead>>
SendPartWaits ==
  /\ state = "SendPartFile"
  /\ \E n \in 1..Least(toRead, part.size - offset) : Sent(n) /\ offset' = (offset + n) % Word
  /\ toRead' = 0
  /\ state' = IF offset' = part.stop THEN "LastSend" ELSE "SendPartFile"
  /\ UNCHANGED part

\* A read has completed, with as much as there was.
SendPartFile ==
  /\ state = "SendPartFile"
  /\ \E n \in 1..Least(toRead, part.size - offset) : Sent(n) /\ offset' = (offset + n) % Word
  /\ state' = IF offset' = part.stop THEN "LastSend" ELSE "ReadStaticFile"
  /\ UNCHANGED <<part, toRead>>

\* The last send has completed: RecvNextRequest, or AfterSendHTML.
RecvNextRequest ==
  /\ state = "LastSend"
  /\ state' = "done"
  /\ UNCHANGED <<part, offset, toRead, got, torn>>

\* The browser goes: an operation comes back aborted.
Abort ==
  /\ state \notin {"done", "stuck", "closed"}
  /\ state' = "closed"
  /\ UNCHANGED <<part, offset, toRead, got, torn>>

Next == ReadStaticFile \/ SendPartFile \/ RecvNextRequest \/ Abort

Spec == Init /\ [][Next]_vars

\* The kernel completes reads, and sends to a browser that reads or goes.
Fairness == WF_vars(ReadStaticFile \/ SendPartFile \/ RecvNextRequest)

(***************************************************************************)
(* Properties                                                              *)
(***************************************************************************)
TypeOK ==
  /\ part \in Parts
  /\ offset \in 0..Word
  /\ toRead \in 0..BufSize        \* no read runs over ctx->buf
  /\ got \in Nat
  /\ torn \in BOOLEAN
  /\ state \in {"ReadStaticFile", "SendPartFile", "LastSend", "done", "stuck", "closed"}

\* A part is delivered as Delivery has it: in order, complete only when all that was
\* announced has been sent, and without a read that fails behind the end of the file
\* and leaves the connection open.
D == INSTANCE Delivery
     WITH want <- Announced,
          status <- CASE state = "done" -> "complete"
                      [] state = "closed" -> "broken"
                      [] OTHER -> IF torn \/ state = "stuck" THEN "torn" ELSE "open"

Delivers == D!Spec

\* The bytes sent are those from the first on, whatever the reads returned.
InOrder == ~torn

\* No more is sent than was announced: what follows would be read as the header of
\* the next response.
WithinAnnounced == got <= Announced

\* The reads never run past the part, so no read fails at the end of the file.
NeverStuck == state # "stuck"

\* A response ends.
Ends == D!Ends
=============================================================================
