------------------------------ MODULE IocpServer ------------------------------
(***************************************************************************)
(* The Windows server: RunIOCPLoop and accept_next of src/src/accept.cpp,  *)
(* processIOCP and processRequest of src/src/server.cpp, list_dir_entry_ex *)
(* of src/src/fs.cpp, over the IOCP record of src/src/types.h.             *)
(*                                                                         *)
(* One thread (N_THREADS is 1) takes a completion, learns from its key     *)
(* which record it is for and runs the handler of that record's state: a   *)
(* step of Next is one completion with its whole handler.  The kernel      *)
(* completes what it holds for a record in any order and in any way.       *)
(* After a packet of AcceptEx the thread is in accept_next, whose loop     *)
(* makes a record, and then another, until AcceptEx is left pending.       *)
(*                                                                         *)
(* A client that has its terminal (WebSocketConnecting) leaves this        *)
(* module: what becomes of it is in PtySession.                            *)
(***************************************************************************)
EXTENDS Integers, FiniteSets, SequencesExt

CONSTANTS
  Clients,      \* the IOCP records of a run: one per call of accept_next
  Paths,        \* what a request can name besides "/"
  Root,         \* "/"
  NULL,         \* no path, no client
  Inputs,       \* what llhttp may make of a recv
  Found,        \* what a GET may find under a path
  Faults,       \* the ways an operation may fail
  MaxRequests   \* bound: headers a client's browser sends

Methods == {"GET", "HEAD", "PUT", "DELETE", "POST", "OTHER"}

\* "partial": HPE_OK before the blank line; "upgrade": HPE_PAUSED_UPGRADE with
\* the headers of a WebSocket; "bare": without.  `body' is Content-Length in
\* pieces, `here' how many of them came in the same recv.
InputType == [verdict : {"ok", "partial", "error", "upgrade", "bare"}, method : Methods,
              path : Paths \cup {Root}, keep : BOOLEAN, body : 0..2, here : 0..2]

\* A file or a range of it is sent in that many pieces; an empty file has none.
\* "unlisted": a directory that cannot be opened; "unread": opened, not read.
FoundType ==
  [kind : {"file", "missing", "directory", "unlisted", "unread"}, pieces : Nat]

\* "abort": ERROR_CONNECTION_ABORTED; "other": any error the loop passes over;
\* "junk": bytes that are no header behind the end of a POST's body.
FaultType == {"abort", "other", "junk"}

ASSUME IocpAssumption ==
  /\ NULL \notin Paths \cup {Root} \cup Clients
  /\ Root \notin Paths
  /\ Inputs \subseteq InputType
  /\ \A r \in Inputs : r.here <= r.body /\ (r.method # "POST" => r.here = r.body)
  /\ Found \subseteq FoundType
  /\ Faults \subseteq FaultType
  /\ MaxRequests \in Nat

VARIABLES
  ctx,      \* the records
  current,  \* acceptIOCP.currentCtx
  loop,     \* the thread: in RunIOCPLoop, in accept_next, or gone
  early,    \* packets to come of accepts that had completed at once
  atOnce    \* history: accepts that completed at once

vars == <<ctx, current, loop, early, atOnce>>

States == {"AfterRecv", "ReadStaticFile", "SendPartFile", "RecvNextRequest",
           "ListDirRecvNextRequest", "PostWritePartFile", "POSTWaitFileData",
           "PostRecvNectRequest", "AfterSendHTML", "AfterHandShake",
           "WebSocketConnecting", "AfterDisconnect"}

SocketOps == {"accept", "recv", "send", "disconnect"}

\* "aborted": an operation CancelIoEx has cancelled, its packet still to come.
Ops == SocketOps \cup {"read", "write", "aborted"}

\* Assertions: of DisconnectEx, of the default of processIOCP, of the body's
\* handler; of the heap; of DisconnectEx on a socket nobody has connected to.
Failures == {"disconnect", "state", "body", "heap", "stray"}

Record ==
  [mem : {"none", "live", "freed"}, state : States, ops : Seq(Ops),
   keep : BOOLEAN,                    \* keepalive
   first : BOOLEAN,                   \* firstCon
   url : Paths \cup {NULL},
   file : BOOLEAN,                    \* hProcess holds a file
   sbuf : {"null", "live", "destroyed"},
   left : Nat,                        \* pieces between recvOL.Offset and filesize
   body : Nat,                        \* p.parser.content_length, in pieces
   gone : BOOLEAN,                    \* the kernel has been told to disconnect
   \* history: handles opened and not closed, the Connection line last sent, the
   \* path last asked for and the one served, headers, assertions that failed,
   \* failures nobody acted on
   handles : Int, said : {"nothing", "keep-alive", "close"},
   asked : Paths \cup {NULL, Root}, served : Paths \cup {NULL, Root},
   count : Nat, failed : SUBSET Failures, lost : BOOLEAN]

Blank == [mem |-> "none", state |-> "AfterRecv", ops |-> <<>>, keep |-> FALSE,
          first |-> TRUE, url |-> NULL, file |-> FALSE, sbuf |-> "null", left |-> 0,
          body |-> 0, gone |-> FALSE, handles |-> 0, said |-> "nothing",
          asked |-> NULL, served |-> NULL, count |-> 0, failed |-> {}, lost |-> FALSE]

(***************************************************************************)
(* What handlers do to a record                                            *)
(***************************************************************************)
Take(o, i) == [o EXCEPT !.ops = RemoveAt(@, i)]

\* WSARecv and WSASend, their results ignored: after DisconnectEx they fail at
\* once and no packet comes.
Submit(o, op) == IF o.gone THEN o ELSE [o EXCEPT !.ops = Append(@, op)]
Recv(o) == [Submit(o, "recv") EXCEPT !.state = "AfterRecv"]

OpenFile(o) == [o EXCEPT !.file = TRUE, !.handles = @ + 1]
CloseFile(o) == IF o.file THEN [o EXCEPT !.file = FALSE, !.handles = @ - 1] ELSE o

\* CancelIoEx reaches the socket's operations, not those on the file.
Cancelled(ops) == [i \in DOMAIN ops |-> IF ops[i] \in SocketOps THEN "aborted" ELSE ops[i]]

\* Mutant: a DisconnectEx for every call.
CloseEachTime(o) ==
  [o EXCEPT !.state = "AfterDisconnect", !.gone = TRUE, !.ops = Append(@, "disconnect")]

\* A second DisconnectEx fails at once: the assertion of line 107.
CloseClient(o) ==
  LET closing == [o EXCEPT !.state = "AfterDisconnect", !.ops = Cancelled(@), !.gone = TRUE]
  IN  IF o.gone THEN [closing EXCEPT !.failed = @ \cup {"disconnect"}]
      ELSE [closing EXCEPT !.ops = Append(@, "disconnect")]

\* sbuf->~basic_string(), which leaves the pointer as it is.
Destroy(o) ==
  IF o.sbuf = "live" THEN [o EXCEPT !.sbuf = "destroyed"]
  ELSE [o EXCEPT !.failed = @ \cup {"heap"}]

\* The end of a record, at an empty completion after DisconnectEx.
Free(o) ==
  [CloseFile(IF o.sbuf = "null" THEN o ELSE Destroy(o)) EXCEPT !.mem = "freed"]

\* WSASend of a response that ends in state st.
Answer(o, st, connection) == [Submit(o, "send") EXCEPT !.state = st, !.said = connection]
Announced(o) == IF o.keep THEN "keep-alive" ELSE "close"

(***************************************************************************)
(* processRequest, by what the request is and what it finds                *)
(***************************************************************************)
Whole(r) == r.verdict \in {"ok", "upgrade", "bare"}

\* The callbacks of a header: http_on_url passes over "/"; parse_keepalive looks
\* at the first complete header of a connection only.
Parsed(o, r) ==
  [o EXCEPT !.count = @ + 1, !.asked = r.path,
            !.url = IF r.path = Root THEN @ ELSE r.path, !.body = r.body,
            !.keep = IF o.first /\ Whole(r) THEN r.keep ELSE @,
            !.first = @ /\ ~Whole(r)]

\* http_on_body
OnBody(o, n) ==
  IF o.file
  THEN [o EXCEPT !.state = "PostWritePartFile", !.ops = Append(@, "write"), !.body = @ - n]
  ELSE CloseClient(o)

\* http_on_header_complete has made the file; then what processRequest does.
PostOpened(o, r) ==
  LET opened == [OpenFile(o) EXCEPT !.state = "POSTWaitFileData"]
  IN  IF r.here > 0 THEN OnBody(opened, r.here) ELSE Submit(opened, "recv")

\* The file of a POST is made or not; one that llhttp has not read to the end of
\* its header is returned from with nothing submitted.
Post(o, r) == IF Whole(r) THEN {PostOpened(o, r), CloseClient(o)} ELSE {o}

Serving(o) == [o EXCEPT !.served = IF o.url = NULL THEN Root ELSE o.url]

\* A file is opened whatever its size; 204 is not followed by a close.
GetFile(o, n) ==
  IF n = 0 THEN Answer(OpenFile(o), "RecvNextRequest", "nothing")
  ELSE [Answer(OpenFile(o), "ReadStaticFile", Announced(o)) EXCEPT !.left = n]

\* Mutant: a directory that cannot be opened closes the client, and is answered.
GetDirectoryCloses(o, kind) ==
  IF kind = "unlisted" THEN Answer(CloseClient(o), "AfterSendHTML", "close")
  ELSE [Answer(o, "ListDirRecvNextRequest", Announced(o)) EXCEPT !.sbuf = "live"]

\* list_dir_entry_ex
GetDirectory(o, kind) ==
  CASE kind = "directory" ->
         [Answer(o, "ListDirRecvNextRequest", Announced(o)) EXCEPT !.sbuf = "live"]
    [] kind = "unread" -> Answer(o, "ListDirRecvNextRequest", "close")
    [] kind = "unlisted" -> Answer(o, "AfterSendHTML", "close")

Get(o, found) ==
  CASE found.kind = "file" -> GetFile(o, found.pieces)
    [] found.kind = "missing" -> Answer(o, "AfterSendHTML", "close")
    [] OTHER -> GetDirectory(o, found.kind)

\* A file that exists is opened and not closed; 404 has no Connection line.
Head1(o) == {Answer(o, "AfterSendHTML", "nothing"),
             [Answer(o, "AfterSendHTML", "close") EXCEPT !.handles = @ + 1]}

\* The set of records processRequest may leave of o.
ProcessRequest(o, r) ==
  LET p == Parsed(o, r)
      fed == IF r.here > 0 THEN OnBody(p, r.here) ELSE p
      q == Serving(fed)
      get == r.method = "GET"
  IN  CASE r.method = "POST" -> Post(p, r)
        [] r.method # "POST" /\ r.verdict = "error" -> {CloseClient(fed)}
        [] get /\ r.verdict \in {"ok", "partial"} -> {Get(q, found) : found \in Found}
        [] get /\ r.verdict = "upgrade" -> {Answer(q, "AfterHandShake", "nothing")}
        [] r.method = "HEAD" /\ r.verdict \in {"ok", "partial"} -> Head1(q)
        [] OTHER -> {Answer(q, "AfterSendHTML", "close")}

(***************************************************************************)
(* accept_next, and the packets of AcceptEx                                *)
(***************************************************************************)
Unused == {c \in Clients : ctx[c].mem = "none"}

Accepting == [Blank EXCEPT !.mem = "live", !.ops = <<"accept">>]

\* processRequest of no bytes: llhttp has read no method yet, which is its DELETE.
Nothing == [verdict |-> "partial", method |-> "DELETE", path |-> Root, keep |-> FALSE,
            body |-> 0, here |-> 0]

Pending(n) ==
  /\ ctx' = [ctx EXCEPT ![n] = Accepting]
  /\ loop' = "running"
  /\ UNCHANGED <<early, atOnce>>

\* AcceptEx returns TRUE: processIOCP is called for the record, and its packet
\* will come as well.
AtOnce(n) ==
  /\ \E r \in Inputs \cup {Nothing} : \E o \in ProcessRequest(Take(Accepting, 1), r) :
       ctx' = [ctx EXCEPT ![n] = o]
  /\ early' = early + 1
  /\ atOnce' = atOnce + 1
  /\ UNCHANGED loop

\* Mutant: currentCtx is one behind.
AcceptNextBehind ==
  /\ loop = "accepting"
  /\ \/ Unused = {} /\ loop' = "running" /\ UNCHANGED <<ctx, current, early, atOnce>>
     \/ \E n \in Unused : UNCHANGED current /\ (Pending(n) \/ AtOnce(n))

\* Once round the loop of accept_next; fatal and ExitThread end the thread.  The
\* records of a run are bounded: after the last, nothing listens.
AcceptNext ==
  /\ loop = "accepting"
  /\ \/ Unused = {} /\ current' = NULL /\ loop' = "running" /\ UNCHANGED <<ctx, early, atOnce>>
     \/ \E n \in Unused : current' = n /\ (Pending(n) \/ AtOnce(n))
     \/ loop' = "returned" /\ UNCHANGED <<ctx, current, early, atOnce>>

\* The accepts in flight for other records than currentCtx.
Others == {c \in Clients \ {current} : "accept" \in Range(ctx[c].ops)}

Abandoned(o) == [Take(o, 1) EXCEPT !.lost = TRUE]

\* A packet of AcceptEx, whosever, has been handled with currentCtx, of which o is
\* left; accept_next is called.
AcceptedAs(o) ==
  /\ ctx' = [ctx EXCEPT ![current] = o]
  /\ loop' = "accepting"
  /\ UNCHANGED <<current, early, atOnce>>

FirstRequest ==
  \E r \in Inputs : \E o \in ProcessRequest(Take(ctx[current], 1), r) : AcceptedAs(o)

EmptyRequest == AcceptedAs(CloseClient(Take(ctx[current], 1)))

\* The record is left as it is, its socket too.
AcceptFails == "other" \in Faults /\ AcceptedAs(Abandoned(ctx[current]))

\* What llhttp makes of a request of which too few bytes are counted, or too many:
\* behind those that came the buffer holds zeros.
Misread(r) ==
  {r, [r EXCEPT !.verdict = "partial", !.body = 0, !.here = 0]}
    \cup (IF r.method = "POST" THEN {[r EXCEPT !.here = n] : n \in 0..r.body}
         ELSE {[r EXCEPT !.verdict = "error"]})

\* Two packets of AcceptEx are there, and another's comes first: currentCtx's data
\* are read with its length.  Nobody waits for the rest of a POST's header.
OtherLength ==
  /\ early > 0 \/ Others # {}
  /\ \E r \in Inputs : \E m \in Misread(r) : \E o \in ProcessRequest(Take(ctx[current], 1), m) :
       AcceptedAs(IF m.method = "POST" /\ ~Whole(m) THEN [o EXCEPT !.lost = TRUE] ELSE o)

\* CloseClient of a record whose own accept is in flight: its buffer holds zeros,
\* which are no request.  CancelIoEx does not reach AcceptEx, which is the
\* listener's, and DisconnectEx fails at once.
Strayed(o) ==
  [o EXCEPT !.state = "AfterDisconnect", !.gone = TRUE, !.failed = @ \cup {"stray"}, !.lost = TRUE]

\* A packet comes that is not currentCtx's.
StrayPacket ==
  /\ loop' = "accepting"
  /\ UNCHANGED <<current, atOnce>>
  /\ \/ /\ early > 0
        /\ early' = early - 1
        /\ ctx' = [ctx EXCEPT ![current] = Strayed(@)]
     \/ /\ UNCHANGED early
        /\ \E a \in Others :
             ctx' = [ctx EXCEPT ![current] = Strayed(@), ![a] = Abandoned(@)]

\* An accept of another record fails: currentCtx is replaced all the same.
OtherFails ==
  /\ "other" \in Faults
  /\ \E a \in Others : ctx' = [ctx EXCEPT ![a] = Abandoned(@)]
  /\ loop' = "accepting"
  /\ UNCHANGED <<current, early, atOnce>>

Accepted ==
  /\ current # NULL
  /\ FirstRequest \/ EmptyRequest \/ AcceptFails \/ OtherLength \/ StrayPacket \/ OtherFails

(***************************************************************************)
(* RunIOCPLoop: a completion for a client, and processIOCP                 *)
(***************************************************************************)
Update(c, o) ==
  ctx' = [ctx EXCEPT ![c] = o] /\ UNCHANGED <<current, loop, early, atOnce>>

\* c, which has not been freed, with one operation of these kinds completed.
Completed(c, kinds) ==
  {Take(ctx[c], i) :
     i \in {j \in DOMAIN ctx[c].ops : ctx[c].mem = "live" /\ ctx[c].ops[j] \in kinds}}

\* What a completion of some bytes can be for a client in state st.
Success(c, st) == {o \in Completed(c, {"recv", "send", "read", "write"}) : o.state = st}

Request(c) ==
  /\ ctx[c].count < MaxRequests
  /\ \E o \in Success(c, "AfterRecv"), r \in Inputs :
       \E next \in ProcessRequest(o, r) : Update(c, next)

HandShakeSent(c) ==
  \E o \in Success(c, "AfterHandShake"), op \in {"recv", "send"} :  \* spawn: done, failed
    Update(c, [Submit(o, op) EXCEPT !.state = "WebSocketConnecting"])

ReadStaticFile(c) ==
  \E o \in Success(c, "ReadStaticFile") :
    Update(c, [o EXCEPT !.ops = Append(@, "read"), !.state = "SendPartFile"])

\* Mutants: the last piece ends the connection; the last piece is not sent.
PieceSentCloses(o) ==
  [Submit(o, "send") EXCEPT !.left = @ - 1,
     !.state = IF o.left > 1 THEN "ReadStaticFile" ELSE "AfterSendHTML"]
PieceUnsent(o) ==
  IF o.left > 1 THEN [Submit(o, "send") EXCEPT !.left = @ - 1, !.state = "ReadStaticFile"]
  ELSE [o EXCEPT !.left = 0, !.state = IF o.keep THEN "RecvNextRequest" ELSE "AfterSendHTML"]

PieceSent(o) ==
  [Submit(o, "send") EXCEPT !.left = @ - 1,
     !.state = IF o.left > 1 THEN "ReadStaticFile"
               ELSE IF o.keep THEN "RecvNextRequest" ELSE "AfterSendHTML"]

SendPartFile(c) == \E o \in Success(c, "SendPartFile") : Update(c, PieceSent(o))

RecvNextRequest(c) == \E o \in Success(c, "RecvNextRequest") : Update(c, Recv(CloseFile(o)))

Listed(o) == IF o.keep THEN Recv(Destroy(o)) ELSE CloseClient(o)

ListDirRecvNextRequest(c) == \E o \in Success(c, "ListDirRecvNextRequest") : Update(c, Listed(o))

PostRecvNectRequest(c) ==
  \E o \in Success(c, "PostRecvNectRequest") :
    Update(c, IF o.keep THEN Recv(o) ELSE CloseClient(o))

\* Mutant: more is waited for when all of the body is there.
WrittenWaits(o) == [Submit(o, "recv") EXCEPT !.state = "POSTWaitFileData"]

Written(o) ==
  IF o.body = 0 THEN Answer(CloseFile(o), "PostRecvNectRequest", Announced(o))
  ELSE [Submit(o, "recv") EXCEPT !.state = "POSTWaitFileData"]

PostWritePartFile(c) == \E o \in Success(c, "PostWritePartFile") : Update(c, Written(o))

\* The assertion of line 311.
BodyArrived(o) ==
  IF o.state = "PostWritePartFile" THEN o ELSE [o EXCEPT !.failed = @ \cup {"body"}]

\* llhttp takes n pieces of the body out of a recv; what follows a body in the
\* same recv is an error.  n is 0 if nothing in it is body: after a POST without
\* one, the next request, which is read as part of this.
POSTWaitFileData(c) ==
  \E o \in Success(c, "POSTWaitFileData") : \E n \in 0..o.body, error \in BOOLEAN :
    /\ o.body > 0 => n > 0
    /\ error => n = o.body /\ "junk" \in Faults
    /\ LET fed == IF n > 0 THEN OnBody(o, n) ELSE o
       IN  Update(c, BodyArrived(IF error THEN CloseClient(fed) ELSE fed))

AfterSendHTML(c) == \E o \in Success(c, "AfterSendHTML") : Update(c, CloseClient(o))

\* The default of processIOCP.
InvalidState(c) ==
  \E o \in Success(c, "AfterDisconnect") : Update(c, [o EXCEPT !.failed = @ \cup {"state"}])

\* An empty recv (the browser has closed) or the end of DisconnectEx.
Empty(c) ==
  \E o \in Completed(c, {"recv", "disconnect"}) :
    /\ o.state # "WebSocketConnecting"
    /\ Update(c, IF o.state = "AfterDisconnect" THEN Free(o) ELSE CloseClient(o))

\* A packet for a record that has been freed: the loop reads its state all the
\* same.  What it then does is not followed.
Stale(c) ==
  /\ ctx[c].mem = "freed"
  /\ \E i \in DOMAIN ctx[c].ops :
       Update(c, [Take(ctx[c], i) EXCEPT !.failed = @ \cup {"heap"}])

Aborted(c) == \E o \in Completed(c, {"aborted"}) : Update(c, o)

ConnectionAborted(c) ==
  /\ "abort" \in Faults
  /\ \E o \in Completed(c, {"recv", "send"}) :
       o.state # "WebSocketConnecting" /\ Update(c, CloseClient(o))

\* Any other error is passed over (and a submission that fails at once, which
\* nobody looks at, comes to the same).
Forgotten(c) ==
  /\ "other" \in Faults
  /\ \E o \in Completed(c, Ops \ {"accept", "aborted"}) : Update(c, [o EXCEPT !.lost = TRUE])

\* Ctrl-C, or the service's stop, posts a packet with the key RunIOCPLoop.
Stop == loop' = "returned" /\ UNCHANGED <<ctx, current, early, atOnce>>

-----------------------------------------------------------------------------
\* wmain calls accept_next before it starts the loop.
Init == /\ ctx = [c \in Clients |-> Blank]
        /\ current = NULL
        /\ loop = "accepting"
        /\ early = 0 /\ atOnce = 0

ClientStep(c) ==
  \/ Request(c) \/ HandShakeSent(c)
  \/ ReadStaticFile(c) \/ SendPartFile(c) \/ RecvNextRequest(c)
  \/ ListDirRecvNextRequest(c)
  \/ PostRecvNectRequest(c) \/ PostWritePartFile(c) \/ POSTWaitFileData(c)
  \/ AfterSendHTML(c) \/ InvalidState(c)
  \/ Empty(c) \/ Stale(c) \/ Aborted(c) \/ ConnectionAborted(c) \/ Forgotten(c)

Returned == loop = "returned" /\ UNCHANGED vars

Next == \/ AcceptNext
        \/ loop = "running" /\ (Stop \/ Accepted \/ \E c \in Clients : ClientStep(c))
        \/ Returned

Spec == Init /\ [][Next]_vars

\* What the kernel completes without a browser's help: reads, writes, sends to
\* a browser that reads or leaves, and a disconnect.
MustComplete(c) ==
  \/ ReadStaticFile(c) \/ SendPartFile(c) \/ RecvNextRequest(c)
  \/ ListDirRecvNextRequest(c) \/ PostRecvNectRequest(c) \/ PostWritePartFile(c)
  \/ AfterSendHTML(c) \/ (ctx[c].gone /\ Empty(c))

Fairness == WF_vars(AcceptNext) /\ \A c \in Clients : WF_vars(loop = "running" /\ MustComplete(c))

FairSpec == Spec /\ Fairness

(***************************************************************************)
(* Properties                                                              *)
(***************************************************************************)
\* What browsers may send, and find, if the server is to follow every request to
\* its end: no HEAD, whose file it forgets to close; a POST has a body, its header
\* is read to its end, and no other method has one; a directory that is opened is
\* read; nothing follows the end of a body.
ServedToTheEnd(inputs, found, faults) ==
  /\ \A r \in inputs : /\ r.method # "HEAD"
                       /\ r.method = "POST" <=> r.body > 0
                       /\ r.method = "POST" => Whole(r)
  /\ \A f \in found : f.kind # "unread"
  /\ "junk" \notin faults

TypeOK ==
  /\ ctx \in [Clients -> Record]
  /\ current \in Clients \cup {NULL}
  /\ loop \in {"running", "accepting", "returned"}
  /\ early \in Nat /\ atOnce \in Nat

\* The key of AcceptEx's packet names no record: the loop takes currentCtx for it.
\* So long as no AcceptEx has completed at once, the one accept in flight is
\* currentCtx's.  Each that has leaves one packet more that is not, of its own or of
\* a record it was taken for: the loop never comes back into step.
CurrentAccepts ==
  loop = "running" =>
    /\ current # NULL => ctx[current].ops = <<"accept">> /\ ctx[current].state = "AfterRecv"
    /\ early + Cardinality(Others) = atOnce

\* A record is freed by the packet of its own disconnect, so there is never a
\* second such packet, and none is left when it has been freed.
DisconnectFrees ==
  \A c \in Clients :
    /\ Cardinality({i \in DOMAIN ctx[c].ops : ctx[c].ops[i] = "disconnect"}) <= 1
    /\ ctx[c].mem = "freed" => "disconnect" \notin Range(ctx[c].ops)

\* What completes in each state.
Awaits ==
  [st \in States |->
     CASE st = "AfterRecv" -> {"recv", "accept"}
       [] st = "SendPartFile" -> {"read"}
       [] st = "PostWritePartFile" -> {"write"}
       [] st = "POSTWaitFileData" -> {"recv"}
       [] st = "AfterDisconnect" -> {"disconnect"}
       [] st = "WebSocketConnecting" -> {"recv", "send"}
       [] OTHER -> {"send"}]

OneOfItsKind ==
  \A c \in Clients :
    /\ ctx[c].mem = "live" /\ ~ctx[c].lost =>
         Len(ctx[c].ops) = 1 /\ ctx[c].ops[1] \in Awaits[ctx[c].state]
    /\ ctx[c].mem = "freed" => ctx[c].ops = <<>>

\* Every handle opened for a client is the one in its hProcess: none is lost when
\* a response ends, in whatever way, and none outlives the record.
HandlesHeld ==
  \A c \in Clients :
    /\ ctx[c].handles = (IF ctx[c].file THEN 1 ELSE 0)
    /\ ctx[c].mem = "freed" => ctx[c].handles = 0

\* processIOCP runs the handler of the record's state, whatever completed: each
\* handler has to leave one operation, of the kind its next state expects, and the
\* file that state needs.  A client one of whose failures was passed over has none.
InStep == TypeOK /\ OneOfItsKind /\ HandlesHeld

\* After "Connection: close" nothing is read from the browser; after "keep-alive"
\* the connection is not ended by the answer.
PromiseKept ==
  \A c \in Clients : ctx[c].mem = "live" =>
    /\ ctx[c].state = "AfterRecv" => ctx[c].said # "close"
    /\ ctx[c].state = "AfterSendHTML" => ctx[c].said # "keep-alive"

\* The assertions that end a handler hold: DisconnectEx is issued once, a recv for
\* a body brings some, and no completion finds a client that is being closed.
AssertionsHold == \A c \in Clients : ctx[c].failed \subseteq {"heap", "stray"}

\* A response that was begun ends: the client is asked for its next request, given
\* its terminal, or disconnected and its record freed, unless a failure of its was
\* passed over.
Responding(c) ==
  ctx[c].mem = "live" /\ ctx[c].state \notin {"AfterRecv", "POSTWaitFileData", "AfterHandShake",
                                              "WebSocketConnecting"}
ResponsesEnd ==
  \A c \in Clients : Responding(c) ~> (~Responding(c) \/ ctx[c].lost \/ loop = "returned")
=============================================================================
