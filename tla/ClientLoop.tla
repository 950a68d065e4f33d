------------------------------ MODULE ClientLoop ------------------------------
(***************************************************************************)
(* The Linux server's event loop: my_loop of src/src/linux/server.c, and   *)
(* every operation it performs on the objects it hands to io_uring.        *)
(*                                                                         *)
(* The loop is one thread.  It takes one completion at a time, looks at    *)
(* the so_type of the object the completion points at (not at what the     *)
(* completed operation was) and runs that state's handler, which ends by   *)
(* handing the kernel the next operation.  The kernel completes the        *)
(* operations it holds in any order, with success or failure.  So a step   *)
(* of Next is one completion and its whole handler; `inflight' is what the *)
(* kernel still holds for an object, and the only actor beside the loop    *)
(* that changes anything is the kernel reading a file (FileRead).          *)
(*                                                                         *)
(* A browser's connection is a my_client_http (mc).  When it is upgraded   *)
(* to a terminal a second object, a my_client_ws (ws), carries the         *)
(* operations on the shell's pty and on the way back to the browser; it    *)
(* points at mc, and mc points at it through lzb.data -- a field that      *)
(* holds the text of a directory listing in the other use of mc.           *)
(***************************************************************************)
EXTENDS Integers, FiniteSets, SequencesExt

CONSTANTS
  Clients,      \* the my_client_http objects of a run: one per accepted socket
  Requests,     \* what the browsers of a run ask for
  Inputs,       \* what llhttp may make of the bytes of one recv
  MaxRequests,  \* bound: headers the server acts on, per client
  MaxChunks     \* bound: non-empty splices it takes to read a file

Targets == {"missing", "special", "directory", "unlistable", "file"}

\* `url' is url_str # NULL; "/" leaves it NULL and names MY_INDEX.
RequestType ==
  [method : {"GET", "HEAD", "PUT", "DELETE", "POST"}, url : BOOLEAN, target : Targets]

\* "partial" and "whole": HPE_OK before and after the blank line of a header;
\* "upgrade": HPE_PAUSED_UPGRADE with both WebSocket headers; "bare": without.
InputType == {"partial", "whole", "error", "upgrade", "bare"}

ASSUME ConstantsAssumption ==
  /\ Requests \subseteq RequestType
  /\ Inputs \subseteq InputType
  /\ MaxRequests \in Nat
  /\ MaxChunks \in Nat

VARIABLES
  server,   \* the listening socket's object
  mc,       \* the my_client_http objects
  ws,       \* the my_client_ws object of each of them
  http,     \* the fields of my_client_http that steer its handlers
  talk,     \* history: what each browser asked and got, and what was queued for killing
  proc      \* the process: running, or how it ended

vars == <<server, mc, ws, http, talk, proc>>

(***************************************************************************)
(* Objects                                                                 *)
(***************************************************************************)
HttpStates == {"ss_recv_header", "ss_responce_file", "ss_responce_file2",
               "ss_readdir", "ss_reparse", "ss_reparse2", "ss_ws_open",
               "ss_ws_read_data", "ss_ws_read6", "ss_shutdown"}
TerminalStates == {"ss_ws_read6", "ss_ws_read_data"}
WsStates == {"ss_ws_read_pty", "ss_ws_send_data"}
SoTypes == HttpStates \cup WsStates \cup {"ss_server_accept"}

\* "splice_in" moves file to pipe; it is "spliced" once the file has been read
\* and the completion waits to be taken.  "send_lzb" sends from lzb.data.
Ops == {"accept", "recv", "send", "send_lzb", "splice_in", "spliced", "splice_out",
        "recv6", "recv_data", "read_pty", "writev", "shutdown"}

\* ops_pending is an unsigned counter that is only stepped and compared with
\* zero, so an integer stands for it as long as fewer than 2^32 steps separate
\* it from zero.
Object == [mem : {"none", "live", "freed"}, so_type : SoTypes, closing : BOOLEAN,
           ops : Int, inflight : Seq(Ops)]

Unallocated(type) ==
  [mem |-> "none", so_type |-> type, closing |-> FALSE, ops |-> 0, inflight |-> <<>>]

\* An object malloc'ed with its first operation submitted.
Started(type, op) ==
  [mem |-> "live", so_type |-> type, closing |-> FALSE, ops |-> 1, inflight |-> <<op>>]

\* The loop takes the completion of o's i-th operation: --ops_pending.
Reap(o, i) == [o EXCEPT !.ops = @ - 1, !.inflight = RemoveAt(@, i)]

\* Mutant: an operation submitted and not counted.
SubmitUncounted(o, op) == [o EXCEPT !.inflight = Append(@, op)]

\* io_uring_submit of an operation whose user_data is o, with ops_pending++.
Submit(o, op) == [o EXCEPT !.ops = @ + 1, !.inflight = Append(@, op)]

Become(o, type) == [o EXCEPT !.so_type = type]

Proceed(o, type, op) == Submit(Become(o, type), op)

\* Mutant: shut down again whoever asks.
DeleteAgain(o) == [Proceed(o, "ss_shutdown", "shutdown") EXCEPT !.closing = TRUE]

\* my_delete_client: shut the socket down, once.
Delete(o) ==
  IF o.so_type = "ss_shutdown" THEN o
  ELSE [Proceed(o, "ss_shutdown", "shutdown") EXCEPT !.closing = TRUE]

\* Mutant: free on the first completion after the shutdown.
SettledEarly(o) == o.closing /\ o.so_type = "ss_shutdown"

\* The test the loop makes before any handler runs.
Settled(o) == o.closing /\ o.ops = 0 /\ o.so_type = "ss_shutdown"

Freed(o) == [o EXCEPT !.mem = "freed"]

(***************************************************************************)
(* The fields of my_client_http that decide what a handler does.  filesize *)
(* holds the size of a file, or forkpty's answer, or whatever malloc found *)
(* there; my_free_client hands it to queue_kill as a pid.                  *)
(***************************************************************************)
\* "failed" is forkpty's -1; "garbage" is not zero either.
Filesizes == {"zero", "size", "garbage", "failed", "pid"}

Http == [finished : BOOLEAN,            \* http_reader.flags & 1
         lzb : {"null", "listing", "ws"}, \* what lzb.data points at
         filesize : Filesizes,
         left : Nat,                    \* splices until the file's end
         piped : BOOLEAN,               \* pfds[0] # 0
         url : BOOLEAN,                 \* url_str # NULL
         pty : BOOLEAN]                 \* ws->base.fd # 0

\* malloc leaves filesize with whatever the memory held.
Leftovers == {"zero", "garbage"}

Malloced(garbage) ==
  [finished |-> FALSE, lzb |-> "null", filesize |-> garbage, left |-> 0,
   piped |-> FALSE, url |-> FALSE, pty |-> FALSE]

\* Mutants: the descriptor closed and not cleared; the pid not kept.
PtyDangling(h) == h
TerminalWithoutPid(h) == [h EXCEPT !.url = FALSE, !.lzb = "ws", !.pty = TRUE]

\* close(ws->base.fd), and 0 in its place.
PtyClosed(h) == [h EXCEPT !.pty = FALSE]

\* What ss_ws_open leaves in an mc: no url, the shell's pid, its ws.
Terminal(h) == [h EXCEPT !.url = FALSE, !.filesize = "pid", !.lzb = "ws", !.pty = TRUE]

\* taken: headers acted on.  owed: headers read whole, less responses handed
\* to the kernel whole.  killed: what my_free_client gave queue_kill for a pid.
Talk == [taken : Nat, owed : Int, killed : Seq(Filesizes)]

\* The last of a response is handed to the kernel.
Paid(t) == [t EXCEPT !.owed = @ - 1]

\* In particular, no object is ever in a state my_loop has no case for.
TypeOK ==
  /\ server \in Object
  /\ mc \in [Clients -> Object]
  /\ ws \in [Clients -> Object]
  /\ http \in [Clients -> Http]
  /\ talk \in [Clients -> Talk]
  /\ proc \in {"running", "stopped", "failed"}

Init ==
  /\ server = [mem |-> "live", so_type |-> "ss_server_accept", closing |-> FALSE,
               ops |-> 0, inflight |-> <<"accept">>]
  /\ mc = [c \in Clients |-> Unallocated("ss_recv_header")]
  /\ ws = [c \in Clients |-> Unallocated("ss_ws_read_pty")]
  /\ http = [c \in Clients |-> Malloced("zero")]
  /\ talk = [c \in Clients |-> [taken |-> 0, owed |-> 0, killed |-> <<>>]]
  /\ proc = "running"

(***************************************************************************)
(* The listening socket                                                    *)
(***************************************************************************)
\* Mutant: no accept after the first.
ArmNothing(o) == o

\* my_accept_start: the next accept, whose submission is not counted.
Arm(o) == [o EXCEPT !.inflight = Append(@, "accept")]

ServerCqe(i, type) ==
  /\ proc = "running"
  /\ i \in DOMAIN server.inflight
  /\ ~Settled(Reap(server, i))
  /\ server.so_type = type

\* A new connection: re-arm, then my_recv_header_once.
Accept(i, c, garbage) ==
  /\ ServerCqe(i, "ss_server_accept")
  /\ mc[c].mem = "none"
  /\ server' = Arm(Reap(server, i))
  /\ mc' = [mc EXCEPT ![c] = Started("ss_recv_header", "recv")]
  /\ http' = [http EXCEPT ![c] = Malloced(garbage)]
  /\ UNCHANGED <<ws, talk, proc>>

\* accept() failed (EMFILE, ECONNABORTED...): the listener itself is shut down.
AcceptFails(i) ==
  /\ ServerCqe(i, "ss_server_accept")
  /\ server' = Delete(Arm(Reap(server, i)))
  /\ UNCHANGED <<mc, ws, http, talk, proc>>

ServerDrains(i) ==
  /\ ServerCqe(i, "ss_shutdown")
  /\ server' = Reap(server, i)
  /\ UNCHANGED <<mc, ws, http, talk, proc>>

\* SIGINT, or any completion of the read on the eventfd: leave the loop.
ServerShutdown ==
  /\ proc = "running"
  /\ proc' = "stopped"
  /\ UNCHANGED <<server, mc, ws, http, talk>>

(***************************************************************************)
(* Completions that point at a my_client_http                              *)
(***************************************************************************)
Cqe(c, i, type) ==
  /\ proc = "running"
  /\ i \in DOMAIN mc[c].inflight
  /\ ~Settled(Reap(mc[c], i))
  /\ mc[c].so_type = type

\* res > 0 and res <= 0: shutdown() never returns more than 0, and whether a
\* splice out of the file moved bytes is FileRead's to say.
Succeeds(c, i) == mc[c].inflight[i] \notin {"shutdown", "splice_in"}
Fails(c, i) == mc[c].inflight[i] # "spliced"

Good(c, i, type) == Cqe(c, i, type) /\ Succeeds(c, i)

\* The kernel reads the file: the offset lseek sees moves on now, before the
\* loop hears of it.
FileRead(c, i) ==
  /\ proc = "running"
  /\ i \in DOMAIN mc[c].inflight
  /\ mc[c].inflight[i] = "splice_in"
  /\ http[c].left > 0
  /\ mc' = [mc EXCEPT ![c].inflight[i] = "spliced"]
  /\ http' = [http EXCEPT ![c].left = @ - 1]
  /\ UNCHANGED <<server, ws, talk, proc>>

\* my_free_client on an mc.  A non-NULL lzb.data with a filesize is taken for a
\* my_client_ws, and the filesize for its shell's pid: a listing in its place has
\* nonzero "ops_pending" and "fd".
FreeClient(c, i) ==
  LET o == Reap(mc[c], i)
      h == http[c]
      isWs == h.lzb # "null" /\ h.filesize # "zero"
      busy == h.lzb = "listing" \/ ws[c].ops # 0
      kill == isWs /\ (h.lzb = "listing" \/ h.pty)
  IN
  /\ proc = "running"
  /\ i \in DOMAIN mc[c].inflight
  /\ Settled(o)
  /\ talk' = IF kill THEN [talk EXCEPT ![c].killed = Append(@, h.filesize)] ELSE talk
  /\ \/ /\ isWs /\ busy             \* close the pty and wait for the ws: return
        /\ mc' = [mc EXCEPT ![c] = o]
        /\ http' = [http EXCEPT ![c] = PtyClosed(@)]
        /\ UNCHANGED ws
     \/ /\ isWs /\ ~busy            \* my_free_ws, then the rest
        /\ ws' = [ws EXCEPT ![c] = Freed(@)]
        /\ mc' = [mc EXCEPT ![c] = Freed(o)]
        /\ http' = [http EXCEPT ![c] = PtyClosed(@)]
     \/ /\ ~isWs
        /\ mc' = [mc EXCEPT ![c] = Freed(o)]
        /\ UNCHANGED <<ws, http>>
  /\ UNCHANGED <<server, proc>>

\* After my_delete_client nothing but the count of operations matters.
Drain(c, i) ==
  /\ Cqe(c, i, "ss_shutdown")
  /\ mc' = [mc EXCEPT ![c] = Reap(@, i)]
  /\ UNCHANGED <<server, ws, http, talk, proc>>

\* res <= 0 (in ss_ws_read6: res # 6), in every handler but ss_shutdown's.  A
\* malformed frame, a Close frame, an opcode the server does not know and a failed
\* write to the pty end in the same my_delete_client_http as a failed recv.
Gone(c, i) ==
  /\ \E type \in HttpStates \ {"ss_shutdown"} : Cqe(c, i, type)
  /\ Fails(c, i)
  /\ mc' = [mc EXCEPT ![c] = Delete(Reap(@, i))]
  /\ http' = IF mc[c].so_type = "ss_reparse2"
             THEN [http EXCEPT ![c].lzb = "null"] ELSE http
  /\ UNCHANGED <<server, ws, talk, proc>>

\* RE_PARSE: the connection is kept alive for the next request.
ReParsed(h) == [h EXCEPT !.finished = FALSE, !.filesize = "zero", !.piped = FALSE]

ReParse(c, i) ==
  /\ Good(c, i, "ss_reparse")
  /\ http' = [http EXCEPT ![c] = ReParsed(@)]
  /\ mc' = [mc EXCEPT ![c] = Proceed(Reap(@, i), "ss_recv_header", "recv")]
  /\ UNCHANGED <<server, ws, talk, proc>>

\* Mutant: the body forgotten.
ReadDirSkips(c, i) ==
  /\ Good(c, i, "ss_readdir")
  /\ mc' = [mc EXCEPT ![c] = Proceed(Reap(@, i), "ss_recv_header", "recv")]
  /\ UNCHANGED <<server, ws, http, talk, proc>>

\* The header of a listing is out: send its body.
ReadDir(c, i) ==
  /\ Good(c, i, "ss_readdir")
  /\ mc' = [mc EXCEPT ![c] = Proceed(Reap(@, i), "ss_reparse2", "send_lzb")]
  /\ talk' = [talk EXCEPT ![c] = Paid(@)]
  /\ UNCHANGED <<server, ws, http, proc>>

\* Its body too: free it, goto RE_PARSE.
ReParse2(c, i) ==
  /\ Good(c, i, "ss_reparse2")
  /\ http' = [http EXCEPT ![c] = [ReParsed(@) EXCEPT !.lzb = "null"]]
  /\ mc' = [mc EXCEPT ![c] = Proceed(Reap(@, i), "ss_recv_header", "recv")]
  /\ UNCHANGED <<server, ws, talk, proc>>

(***************************************************************************)
(* Sending a file: file -> pipe -> socket, MY_SPLICE_SIZE bytes at a time  *)
(***************************************************************************)
\* my_splice_start with something left to read.
SpliceIn(c, i) ==
  /\ Good(c, i, "ss_responce_file")
  /\ http[c].left > 0
  /\ http' = [http EXCEPT ![c].piped = TRUE]
  /\ mc' = [mc EXCEPT ![c] = Proceed(Reap(@, i), "ss_responce_file2", "splice_in")]
  /\ UNCHANGED <<server, ws, talk, proc>>

\* my_splice_start at the end of the file: wait for the next request.  flags
\* and filesize stay as this request left them.
FileSent(c, i) ==
  /\ Good(c, i, "ss_responce_file")
  /\ http[c].left = 0
  /\ http' = [http EXCEPT ![c].piped = FALSE, ![c].url = FALSE]
  /\ mc' = [mc EXCEPT ![c] = Proceed(Reap(@, i), "ss_recv_header", "recv")]
  /\ talk' = [talk EXCEPT ![c] = Paid(@)]
  /\ UNCHANGED <<server, ws, proc>>

\* pipe() fails: my_fatal ends the server.
PipeFails(c, i) ==
  /\ Good(c, i, "ss_responce_file")
  /\ ~http[c].piped
  /\ proc' = "failed"
  /\ UNCHANGED <<server, mc, ws, http, talk>>

\* Mutants: so_type left as it was; so_type changed and nothing submitted.
SpliceOutInPlace(c, i) ==
  /\ Good(c, i, "ss_responce_file2")
  /\ mc' = [mc EXCEPT ![c] = Submit(Reap(@, i), "splice_out")]
  /\ UNCHANGED <<server, ws, http, talk, proc>>
SpliceOutStalls(c, i) ==
  /\ Good(c, i, "ss_responce_file2")
  /\ mc' = [mc EXCEPT ![c] = Become(Reap(@, i), "ss_responce_file")]
  /\ UNCHANGED <<server, ws, http, talk, proc>>

\* my_splice_start2: what went into the pipe goes to the socket.
SpliceOut(c, i) ==
  /\ Good(c, i, "ss_responce_file2")
  /\ mc' = [mc EXCEPT ![c] = Proceed(Reap(@, i), "ss_responce_file", "splice_out")]
  /\ UNCHANGED <<server, ws, http, talk, proc>>

(***************************************************************************)
(* ss_recv_header: bytes for the parser                                    *)
(***************************************************************************)
Parsed(c, i, inputs) ==
  /\ Good(c, i, "ss_recv_header")
  /\ inputs \cap Inputs # {}

\* "bare": sec_ws_key and ws_pro were never set, so they are whatever malloc
\* left there: NULL, something that looks like a string, or neither.
ParseError(c, i) ==
  /\ Parsed(c, i, {"error", "bare"})
  /\ mc' = [mc EXCEPT ![c] = Delete(Reap(@, i))]
  /\ UNCHANGED <<server, ws, http, talk, proc>>

BadPointer(c, i) ==
  /\ Parsed(c, i, {"bare"})
  /\ proc' = "failed"
  /\ UNCHANGED <<server, mc, ws, http, talk>>

\* The parser has called http_on_url and http_on_header_complete.
Heard(h, url) == [h EXCEPT !.finished = TRUE, !.url = url]

\* 101 Switching Protocols.
Upgrade(c, i, url) ==
  /\ Parsed(c, i, {"upgrade", "bare"})
  /\ mc' = [mc EXCEPT ![c] = Proceed(Reap(@, i), "ss_ws_open", "send")]
  /\ http' = [http EXCEPT ![c] = Heard(@, url)]
  /\ UNCHANGED <<server, ws, talk, proc>>

\* A url_str a partial header sets is not kept: a whole one sets it again.
HeaderGoesOn(c, i) ==
  /\ Parsed(c, i, {"partial"})
  /\ ~http[c].finished
  /\ mc' = [mc EXCEPT ![c] = Submit(Reap(@, i), "recv")]
  /\ UNCHANGED <<server, ws, http, talk, proc>>

\* The header counts as finished: because it is, or because the flag still is
\* set from an earlier request.
Finished(c, i, r, whole) ==
  /\ Parsed(c, i, IF whole THEN {"whole"} ELSE {"partial"})
  /\ whole \/ http[c].finished
  /\ UNCHANGED <<server, ws>>

Told(t, whole, answers) ==
  [t EXCEPT !.taken = @ + 1, !.owed = @ + (IF whole THEN 1 ELSE 0) - answers]

\* PUT, 404 and DELETE each send one of a few texts.
SmallResponse(c, i, r, whole) ==
  /\ Finished(c, i, r, whole)
  /\ r.method \in {"PUT", "DELETE"} \/ r.target = "missing"
  /\ mc' = [mc EXCEPT ![c] = Proceed(Reap(@, i), "ss_reparse", "send")]
  /\ http' = [http EXCEPT ![c] = Heard(@, r.url)]
  /\ talk' = [talk EXCEPT ![c] = Told(@, whole, 1)]
  /\ UNCHANGED proc

\* HEAD of something that opens: the handler breaks out with nothing submitted.
HeadRequest(c, i, r, whole) ==
  /\ Finished(c, i, r, whole)
  /\ r.method = "HEAD" /\ r.target # "missing"
  /\ mc' = [mc EXCEPT ![c] = Reap(@, i)]
  /\ http' = [http EXCEPT ![c] = Heard(@, r.url)]
  /\ talk' = [talk EXCEPT ![c] = Told(@, whole, 0)]
  /\ UNCHANGED proc

\* What is opened for GET is served.  So is what is opened for a method that is
\* not allowed, after a 405 was submitted.
Serves(c, i, r, whole) ==
  /\ Finished(c, i, r, whole)
  /\ r.method \in {"GET", "POST"} /\ r.target # "missing"

Refusals(r) == IF r.method = "POST" THEN 1 ELSE 0

Opened(o, r) == IF r.method = "POST" THEN Proceed(o, "ss_reparse", "send") ELSE o

\* Neither directory nor regular: ERROR_404.
GetSpecial(c, i, r, whole) ==
  /\ Serves(c, i, r, whole)
  /\ r.target = "special"
  /\ mc' = [mc EXCEPT ![c] = Proceed(Opened(Reap(@, i), r), "ss_reparse", "send")]
  /\ http' = [http EXCEPT ![c] = Heard(@, r.url)]
  /\ talk' = [talk EXCEPT ![c] = Told(@, whole, 1 + Refusals(r))]
  /\ UNCHANGED proc

GetDirectory(c, i, r, whole) ==
  /\ Serves(c, i, r, whole)
  /\ r.target = "directory" /\ r.url
  /\ mc' = [mc EXCEPT ![c] = Proceed(Opened(Reap(@, i), r), "ss_readdir", "send")]
  /\ http' = [http EXCEPT ![c] = [Heard(@, r.url) EXCEPT !.lzb = "listing"]]
  /\ talk' = [talk EXCEPT ![c] = Told(@, whole, Refusals(r))]
  /\ UNCHANGED proc

\* getdents64 fails once the buffer is allocated: ERROR_404.
GetUnlistable(c, i, r, whole) ==
  /\ Serves(c, i, r, whole)
  /\ r.target = "unlistable" /\ r.url
  /\ mc' = [mc EXCEPT ![c] = Proceed(Opened(Reap(@, i), r), "ss_reparse", "send")]
  /\ http' = [http EXCEPT ![c] = [Heard(@, r.url) EXCEPT !.lzb = "listing"]]
  /\ talk' = [talk EXCEPT ![c] = Told(@, whole, 1 + Refusals(r))]
  /\ UNCHANGED proc

\* assert(mc->http_reader.url_str): MY_INDEX is a directory.
IndexIsDirectory(c, i, r, whole) ==
  /\ Serves(c, i, r, whole)
  /\ r.target \in {"directory", "unlistable"} /\ ~r.url
  /\ proc' = "failed"
  /\ UNCHANGED <<mc, http, talk>>

GetFile(c, i, r, whole, chunks) ==
  /\ Serves(c, i, r, whole)
  /\ r.target = "file"
  /\ mc' = [mc EXCEPT ![c] = Proceed(Opened(Reap(@, i), r), "ss_responce_file", "send")]
  /\ http' = [http EXCEPT ![c] = [Heard(@, r.url) EXCEPT
                !.left = chunks, !.filesize = IF chunks > 0 THEN "size" ELSE "zero"]]
  /\ talk' = [talk EXCEPT ![c] = Told(@, whole, Refusals(r))]
  /\ UNCHANGED proc

(***************************************************************************)
(* The terminal                                                            *)
(***************************************************************************)
\* strchr(url_str, '?') of an upgrade of "/".
NoUrl(c, i) ==
  /\ Good(c, i, "ss_ws_open")
  /\ ~http[c].url
  /\ proc' = "failed"
  /\ UNCHANGED <<server, mc, ws, http, talk>>

\* forkpty returns -1, which filesize keeps.
ForkFails(c, i) ==
  /\ Good(c, i, "ss_ws_open")
  /\ http[c].url
  /\ mc' = [mc EXCEPT ![c] = Delete(Reap(@, i))]
  /\ http' = [http EXCEPT ![c].url = FALSE, ![c].filesize = "failed"]
  /\ UNCHANGED <<server, ws, talk, proc>>

OpenTerminal(c, i) ==
  /\ Good(c, i, "ss_ws_open")
  /\ http[c].url
  /\ ws' = [ws EXCEPT ![c] = Started("ss_ws_read_pty", "read_pty")]
  /\ mc' = [mc EXCEPT ![c] = Proceed(Reap(@, i), "ss_ws_read6", "recv6")]
  /\ http' = [http EXCEPT ![c] = Terminal(@)]
  /\ UNCHANGED <<server, talk, proc>>

\* Mutant: a frame with no payload is the last one read.
FrameDropsEmpty(c, i, empty) ==
  /\ Good(c, i, "ss_ws_read6")
  /\ mc' = [mc EXCEPT ![c] = IF empty THEN Reap(@, i)
                             ELSE Proceed(Reap(@, i), "ss_ws_read_data", "recv_data")]
  /\ UNCHANGED <<server, ws, http, talk, proc>>

\* A frame with no payload is passed over; for any other its payload is read.
Frame(c, i, empty) ==
  /\ Good(c, i, "ss_ws_read6")
  /\ mc' = [mc EXCEPT ![c] = IF empty THEN Submit(Reap(@, i), "recv6")
                             ELSE Proceed(Reap(@, i), "ss_ws_read_data", "recv_data")]
  /\ UNCHANGED <<server, ws, http, talk, proc>>

\* A text or binary payload is written to the pty or resizes it.
Data(c, i) ==
  /\ Good(c, i, "ss_ws_read_data")
  /\ mc' = [mc EXCEPT ![c] = Proceed(Reap(@, i), "ss_ws_read6", "recv6")]
  /\ UNCHANGED <<server, ws, http, talk, proc>>

\* Completions that point at the my_client_ws.  Its closing is never set, so the
\* loop never takes it for settled (WsNeverCloses).
WsCqe(c, i, type) ==
  /\ proc = "running"
  /\ i \in DOMAIN ws[c].inflight
  /\ ws[c].so_type = type
  /\ UNCHANGED <<server, talk, proc>>

\* Mutant: the state server.h declares for this send, which no case handles.
PtyReadUnhandled(c, i) ==
  /\ WsCqe(c, i, "ss_ws_read_pty")
  /\ ws' = [ws EXCEPT ![c] = Proceed(Reap(@, i), "ss_ws_write", "writev")]
  /\ UNCHANGED <<mc, http>>

PtyRead(c, i) ==
  /\ WsCqe(c, i, "ss_ws_read_pty")
  /\ ws' = [ws EXCEPT ![c] = Proceed(Reap(@, i), "ss_ws_send_data", "writev")]
  /\ UNCHANGED <<mc, http>>

\* -EIO: the shell's side is closed, the pty is too.  Any other error leaves it.
PtyFails(c, i, eio) ==
  /\ WsCqe(c, i, "ss_ws_read_pty")
  /\ ws' = [ws EXCEPT ![c] = Reap(@, i)]
  /\ http' = IF eio THEN [http EXCEPT ![c] = PtyClosed(@)] ELSE http
  /\ mc' = [mc EXCEPT ![c] = Delete(@)]

WsSent(c, i) ==
  /\ WsCqe(c, i, "ss_ws_send_data")
  /\ ws' = [ws EXCEPT ![c] = Proceed(Reap(@, i), "ss_ws_read_pty", "read_pty")]
  /\ UNCHANGED <<mc, http>>

WsGone(c, i) ==
  /\ WsCqe(c, i, "ss_ws_send_data")
  /\ ws' = [ws EXCEPT ![c] = Reap(@, i)]
  /\ mc' = [mc EXCEPT ![c] = Delete(@)]
  /\ UNCHANGED http

(***************************************************************************)
(* The loop                                                                *)
(***************************************************************************)
ServerStep ==
  \E i \in DOMAIN server.inflight :
    \/ \E c \in Clients, garbage \in Leftovers : Accept(i, c, garbage)
    \/ AcceptFails(i)
    \/ ServerDrains(i)

Request(c, i) ==
  /\ Good(c, i, "ss_recv_header")
  /\ talk[c].taken < MaxRequests
  /\ \E r \in Requests, whole \in BOOLEAN :
      \/ SmallResponse(c, i, r, whole)
      \/ HeadRequest(c, i, r, whole)
      \/ GetSpecial(c, i, r, whole)
      \/ GetDirectory(c, i, r, whole)
      \/ GetUnlistable(c, i, r, whole)
      \/ IndexIsDirectory(c, i, r, whole)
      \/ \E chunks \in 0..MaxChunks : GetFile(c, i, r, whole, chunks)

HttpStep(c, i) ==
  \/ FreeClient(c, i)
  \/ Drain(c, i)
  \/ Gone(c, i)
  \/ ReParse(c, i)
  \/ ReadDir(c, i)
  \/ ReParse2(c, i)
  \/ SpliceIn(c, i)
  \/ FileSent(c, i)
  \/ PipeFails(c, i)
  \/ SpliceOut(c, i)
  \/ ParseError(c, i)
  \/ BadPointer(c, i)
  \/ \E url \in BOOLEAN : Upgrade(c, i, url)
  \/ HeaderGoesOn(c, i)
  \/ Request(c, i)
  \/ NoUrl(c, i)
  \/ ForkFails(c, i)
  \/ OpenTerminal(c, i)
  \/ \E empty \in BOOLEAN : Frame(c, i, empty)
  \/ Data(c, i)

WsStep(c, i) ==
  \/ PtyRead(c, i)
  \/ \E eio \in BOOLEAN : PtyFails(c, i, eio)
  \/ WsSent(c, i)
  \/ WsGone(c, i)

\* main has returned, or the process was killed.
Ended == proc # "running" /\ UNCHANGED vars

Next ==
  \/ ServerStep
  \/ ServerShutdown
  \/ \E c \in Clients : \/ \E i \in DOMAIN mc[c].inflight : FileRead(c, i) \/ HttpStep(c, i)
                        \/ \E i \in DOMAIN ws[c].inflight : WsStep(c, i)
  \/ Ended

Spec == Init /\ [][Next]_vars

\* What the kernel must finish: reading a file; a shutdown, and whatever else is
\* outstanding on a socket that is being shut down; and, for a peer that reads
\* what it is sent or goes away, a send.  Nothing forces a browser to ask for
\* anything or a shell to print.
MustComplete(c, i) ==
  mc[c].closing \/ mc[c].inflight[i] \in {"send", "send_lzb", "splice_in", "spliced", "splice_out"}

Fairness ==
  \A c \in Clients :
    WF_vars(\E i \in DOMAIN mc[c].inflight :
              MustComplete(c, i) /\ (FileRead(c, i) \/ HttpStep(c, i)))

FairSpec == Spec /\ Fairness

(***************************************************************************)
(* Safety                                                                  *)
(***************************************************************************)
\* ops_pending, on which my_free_client's decision to free rests, is the number
\* of operations the kernel holds for the object.
OpsAccounting ==
  \A c \in Clients : /\ mc[c].ops = Len(mc[c].inflight)
                     /\ ws[c].ops = Len(ws[c].inflight)

\* No completion can reach freed memory: an object with an operation in flight
\* is allocated, and for a ws so is the mc its handlers go to through ws->mc.
NoUseAfterFree ==
  \A c \in Clients : /\ mc[c].inflight # <<>> => mc[c].mem = "live"
                     /\ ws[c].inflight # <<>> => ws[c].mem = "live" /\ mc[c].mem = "live"

\* my_delete_client is only ever applied to the mc: the branch of my_free_client
\* for an object in ss_ws_read_pty or ss_ws_send_data is dead code.
WsNeverCloses ==
  \A c \in Clients : ~ws[c].closing /\ ws[c].so_type \in WsStates

\* A client that was shut down and has no operation left on its socket has let
\* go of its shell: the pty is closed, after a hang-up or with the shell queued
\* for killing.
ShellReleased ==
  \A c \in Clients : mc[c].closing /\ mc[c].inflight = <<>> => ~http[c].pty

\* my_free_client finds in filesize the pid forkpty gave this terminal, however many
\* files, listings and failed upgrades went before: a pty that is open is behind its
\* own shell's pid, that pid is queued once at most, and anything else reaches
\* queue_kill only when the text of a listing was still in lzb.
KillsItsShell ==
  \A c \in Clients :
    /\ http[c].pty => http[c].filesize = "pid" /\ talk[c].killed = <<>>
    /\ Len(talk[c].killed) <= 1
    /\ \A n \in DOMAIN talk[c].killed : talk[c].killed[n] # "pid" => http[c].lzb = "listing"

Stranded(c) == mc[c].mem = "live" /\ mc[c].inflight = <<>>

\* What the browsers leave out in the runs of the properties that need it: a HEAD
\* of something that opens; a method that is not allowed of something that does;
\* a header that takes more than one recv.
NoHead(requests) == \A r \in requests : r.method = "HEAD" => r.target = "missing"
NoRefusal(requests) == \A r \in requests : r.method = "POST" => r.target = "missing"
NoParts(inputs) == "partial" \notin inputs

\* A connection the loop will never hear of again is one my_free_client put off
\* for its my_client_ws, or for a listing it took for one.  (Without HEAD.)
StrandedOnlyBehindLzb ==
  \A c \in Clients :
    Stranded(c) => mc[c].closing /\ http[c].lzb # "null" /\ http[c].filesize # "zero"

\* The listener is armed exactly once until an accept fails, and the static
\* server object never reaches my_free_client.
ListenerArmed ==
  /\ server.so_type = "ss_server_accept" => server.inflight = <<"accept">>
  /\ \A i \in DOMAIN server.inflight : ~Settled(Reap(server, i))

\* The handlers of each state, by the operations whose completion they are for.
Expected(type) ==
  CASE type = "ss_recv_header"    -> {"recv"}
    [] type = "ss_responce_file"  -> {"send", "splice_out"}
    [] type = "ss_responce_file2" -> {"splice_in", "spliced"}
    [] type = "ss_readdir"        -> {"send"}
    [] type = "ss_reparse"        -> {"send"}
    [] type = "ss_reparse2"       -> {"send_lzb"}
    [] type = "ss_ws_open"        -> {"send"}
    [] type = "ss_ws_read6"       -> {"recv6"}
    [] type = "ss_ws_read_data"   -> {"recv_data"}

\* One operation is in flight for a client, and it is the only user of read_buffer.
OneOfItsKind ==
  \A c \in Clients :
    mc[c].mem = "live" /\ ~mc[c].closing =>
      /\ Len(mc[c].inflight) = 1
      /\ mc[c].inflight[1] \in Expected(mc[c].so_type)

\* The kernel sends a listing's body from lzb.data: it is not freed under it.
ListingOutlivesSend ==
  \A c \in Clients :
    (\E i \in DOMAIN mc[c].inflight : mc[c].inflight[i] = "send_lzb")
      => mc[c].mem = "live" /\ http[c].lzb = "listing"

\* The shell side of a terminal is usable for as long as frames are taken for it.
FramesHavePty ==
  \A c \in Clients : mc[c].so_type \in TerminalStates =>
    http[c].lzb = "ws" /\ http[c].pty /\ ws[c].inflight # <<>>

\* The loop dispatches on so_type alone: until a client is shut down the operation
\* in flight for it is the one its state's handler is written for, and what that
\* needs, a listing or a pty, is there.  (Without HEAD and methods not allowed.)
InStep == OneOfItsKind /\ ListingOutlivesSend /\ FramesHavePty

\* When a client waits for the next header nothing is owed for an earlier one.
OneAnswerPerRequest ==
  \A c \in Clients :
    /\ talk[c].owed \in 0..1
    /\ mc[c].so_type = "ss_recv_header" => talk[c].owed = 0

\* Once a client is closing no handler submits another operation for it or moves
\* it out of ss_shutdown, whichever of the two objects the completion is for.
ClosingIsFinal ==
  [][\A c \in Clients : mc[c].closing =>
       /\ mc[c]'.closing /\ mc[c]'.so_type = "ss_shutdown"
       /\ Len(mc[c]'.inflight) <= Len(mc[c].inflight)]_vars

(***************************************************************************)
(* The inductive invariant behind the safety properties: what the four     *)
(* pieces of a client's state say of each other.                           *)
(***************************************************************************)
Accounted(o) ==
  /\ o.ops = Len(o.inflight)
  /\ o.inflight # <<>> => o.mem = "live"

Consistent(o, w, h, t) ==
  /\ Accounted(o) /\ Accounted(w)
  /\ o.so_type \in HttpStates
  /\ o.closing <=> o.so_type = "ss_shutdown"
  /\ o.mem = "none" => ~o.closing
  /\ ~w.closing /\ w.so_type \in WsStates
  /\ h.lzb = "ws" => o.so_type \in TerminalStates \cup {"ss_shutdown"}
  /\ h.filesize = "pid" <=> h.lzb = "ws"
  /\ w.mem = "live" => o.mem = "live" /\ h.lzb = "ws"
  /\ w.mem # "none" => o.mem # "none"
  /\ h.pty => w.mem = "live"
  /\ o.closing /\ o.inflight = <<>> => ~h.pty
  /\ t.killed # <<>> => /\ o.closing /\ o.inflight = <<>>
                        /\ t.killed = <<h.filesize>> /\ h.lzb # "null"

IInv == TypeOK /\ \A c \in Clients : Consistent(mc[c], ws[c], http[c], talk[c])

(***************************************************************************)
(* Liveness, under Fairness                                                *)
(***************************************************************************)
Running == proc = "running"

\* Closing the terminal's connection releases the shell.
ShellEventuallyReleased ==
  \A c \in Clients : mc[c].closing /\ http[c].pty ~> ~http[c].pty \/ ~Running

\* A header read whole gets its response, or the connection is shut down.
\* (Without HEAD.)
EveryRequestAnswered ==
  \A c \in Clients : talk[c].owed > 0 ~> talk[c].owed <= 0 \/ mc[c].closing \/ ~Running
=============================================================================
