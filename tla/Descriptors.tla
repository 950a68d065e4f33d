----------------------------- MODULE Descriptors -----------------------------
(***************************************************************************)
(* The descriptor numbers of the Linux server, src/src/linux/server.c: who *)
(* gets them, who keeps them, who closes them.                             *)
(*                                                                         *)
(* The kernel hands out the lowest number that is free, so a number closed *)
(* by one client is soon another's; a client that keeps a number it has    *)
(* closed, or closes one it does not keep, acts on what is not its own.    *)
(* 0 is standard input, and in the code "no descriptor" as well.           *)
(*                                                                         *)
(* A step is a completion with its whole handler; what the handler does to *)
(* memory, shells and operations is in ClientLoop.                         *)
(***************************************************************************)
EXTENDS Integers, Sequences, FiniteSetsExt

CONSTANTS
  Clients,      \* the connections of a run
  Kinds,        \* what a request may ask for, see Request
  Refusals,     \* whether it may come with a method that is refused, and served
  MaxFd,        \* the highest number a process may have (RLIMIT_NOFILE)
  MaxRequests   \* bound: requests of a connection

RequestKinds == {"small", "undeletable", "head", "special", "directory", "unlistable",
                 "file", "terminal"}

ASSUME DescriptorsAssumption ==
  /\ Kinds \subseteq RequestKinds
  /\ Refusals \subseteq BOOLEAN
  /\ MaxFd \in Nat
  /\ MaxRequests \in Nat

VARIABLES
  table,    \* the kernel's: what each number is of
  cl,       \* my_client_http with its my_client_ws
  server,   \* running; deaf, its listener shut down; exited; aborted
  past      \* history: the lines that closed what was another's

vars == <<table, cl, server, past>>

Numbers == 0..MaxFd
Nobody == "nobody"

Description ==
  [is : {"stdin", "socket", "file", "pipe", "pty", "left"}, of : Clients \cup {Nobody}]
Closed == [is |-> "closed", of |-> Nobody]
Of(kind, c) == [is |-> kind, of |-> c]
Kept == {"socket", "file", "pipe", "pty"}

\* What a request opened and no field names: a directory, a special file, a file of
\* which HEAD asked.
Left == Of("left", Nobody)

States == {"none", "ss_recv_header", "idle", "ss_reparse", "ss_readdir", "ss_reparse2",
           "ss_responce_file", "ss_responce_file2", "ss_ws_open", "ws", "ss_shutdown",
           "stranded", "freed"}

\* ops: its operations in flight, those of the terminal aside; size: whether filesize
\* is not 0 (a file's size, a shell's pid, forkpty's -1, what malloc left); on: what
\* the read in flight on ws->base.fd was submitted for; left: whether the kernel has
\* brought the position of the file to its end.
Client ==
  [st : States, ops : Nat, fd : Numbers, fileid : Numbers, pfds : Numbers \X Numbers,
   size : BOOLEAN, lzb : {"null", "listing", "ws"}, ws : Numbers,
   op : {"none", "read", "send"}, on : Description \cup {Closed},
   left : {"unread", "reading", "read"}, count : 0..MaxRequests]

New == [st |-> "none", ops |-> 0, fd |-> 0, fileid |-> 0, pfds |-> <<0, 0>>, size |-> FALSE,
        lzb |-> "null", ws |-> 0, op |-> "none", on |-> Closed, left |-> "read", count |-> 0]

Freed == [New EXCEPT !.st = "freed"]

Init ==
  /\ table = [n \in Numbers |-> IF n = 0 THEN Of("stdin", Nobody) ELSE Closed]
  /\ cl = [c \in Clients |-> New]
  /\ server = "running"
  /\ past = {}

(***************************************************************************)
(* The kernel                                                              *)
(***************************************************************************)
Free(t) == {n \in Numbers : t[n] = Closed}
Lowest(t) == Min(Free(t))
Full == Free(table) = {}

Opens(description) == table' = [table EXCEPT ![Lowest(table)] = description]

\* close() of each.
Closing(t, numbers) == [n \in Numbers |-> IF n \in numbers THEN Closed ELSE t[n]]

\* What is said of a line of c's that closes these numbers.
Tells(c, t, line, numbers) ==
  IF \A n \in numbers : t[n] \in {Closed} \cup {Of(is, c) : is \in Kept} THEN {} ELSE {line}

Leaves(c, o) == cl' = [cl EXCEPT ![c] = o]

(***************************************************************************)
(* Connections                                                             *)
(***************************************************************************)
\* filesize is not set.
Accept(c) ==
  /\ server = "running"
  /\ cl[c].st = "none"
  /\ ~Full
  /\ Opens(Of("socket", c))
  /\ \E garbage \in BOOLEAN :
       Leaves(c, [New EXCEPT !.st = "ss_recv_header", !.ops = 1, !.fd = Lowest(table),
                             !.size = garbage])
  /\ UNCHANGED <<server, past>>

\* EMFILE: the listener is shut down.
AcceptFails ==
  /\ server = "running"
  /\ Full
  /\ server' = "deaf"
  /\ UNCHANGED <<table, cl, past>>

Alive == server \in {"running", "deaf"}

\* my_delete_client.  A client is "idle" in ss_recv_header with nothing in flight, and
\* "stranded" when it has been shut down, has nothing in flight, and was not freed.
Shut(o) ==
  IF o.st \in {"ss_shutdown", "stranded"} THEN o ELSE [o EXCEPT !.st = "ss_shutdown", !.ops = @ + 1]

\* An operation of c has completed: the handler is that of c's state, whichever it was.
Completed(c, st) == Alive /\ cl[c].st = st
Next1(c, o) == Leaves(c, o) /\ UNCHANGED <<server, past>>

\* An operation fails: the handler's my_delete_client_http.  ss_reparse2 has freed
\* the listing.
Fails(c) ==
  /\ \E st \in {"ss_recv_header", "ss_reparse", "ss_readdir", "ss_reparse2", "ss_responce_file",
                "ss_responce_file2", "ss_ws_open", "ws"} : Completed(c, st)
  /\ LET o == [cl[c] EXCEPT !.ops = @ - 1]
     IN  Next1(c, Shut(IF o.st = "ss_reparse2" THEN [o EXCEPT !.lzb = "null"] ELSE o))
  /\ UNCHANGED table

(***************************************************************************)
(* Requests                                                                *)
(***************************************************************************)
\* "small": what is answered without a descriptor left open: PUT, most of DELETE, 404;
\* also whatever cannot be opened, for want of a number too.  "undeletable": a recursive
\* DELETE with entries stat fails on.  "special" is no regular file, or one fstat fails
\* on; "unlistable" a directory getdents fails on.
Served == {"file", "special", "directory", "unlistable"}

\* Every directory of the tree with such an entry stays open, those above it are
\* closed: any of the free numbers may be among those that stay.
StayOpen(numbers) ==
  table' = [n \in Numbers |-> IF n \in numbers THEN Left ELSE table[n]]

\* What is opened for another method than HEAD and GET is answered 405, one operation,
\* and then served like a GET, another.
Counted(o, refused) == [o EXCEPT !.count = @ + 1, !.ops = IF refused THEN @ + 1 ELSE @]

\* HEAD: the handler ends with nothing submitted.
Unanswered(o) == [o EXCEPT !.st = IF o.ops = 1 THEN "idle" ELSE @, !.ops = @ - 1]

Request(c, kind, refused) ==
  /\ Completed(c, "ss_recv_header")
  /\ cl[c].count < MaxRequests
  /\ refused => kind \in Served /\ ~Full
  /\ LET o == Counted(cl[c], refused)
     IN  \/ /\ kind = "small" \/ (Full /\ kind # "terminal")
            /\ Next1(c, [o EXCEPT !.st = "ss_reparse"])
            /\ UNCHANGED table
         \/ /\ kind = "undeletable"
            /\ \E numbers \in (SUBSET Free(table)) \ {{}} : StayOpen(numbers)
            /\ Next1(c, [o EXCEPT !.st = "ss_reparse"])
         \/ /\ kind = "terminal"
            /\ Next1(c, [o EXCEPT !.st = "ss_ws_open"])
            /\ UNCHANGED table
         \/ /\ kind = "file" /\ ~Full
            /\ Opens(Of("file", c))
            /\ \E empty \in BOOLEAN :
                 Next1(c, [o EXCEPT !.st = "ss_responce_file", !.fileid = Lowest(table),
                                    !.size = ~empty, !.left = IF empty THEN "read" ELSE "unread"])
         \/ /\ kind = "head" /\ ~Full
            /\ Opens(Left)
            /\ Next1(c, Unanswered(o))
         \/ /\ kind = "special" /\ ~Full
            /\ Opens(Left)
            /\ Next1(c, [o EXCEPT !.st = "ss_reparse"])
         \/ /\ kind \in {"directory", "unlistable"} /\ ~Full
            /\ Opens(Left)
            /\ Next1(c, [o EXCEPT !.lzb = "listing",
                                  !.st = IF kind = "directory" THEN "ss_readdir" ELSE "ss_reparse"])

\* RE_PARSE forgets the numbers, and closes none.
ReParsed(o) == [o EXCEPT !.st = "ss_recv_header", !.fileid = 0, !.size = FALSE, !.pfds[1] = 0]

ReParse(c) ==
  /\ Completed(c, "ss_reparse")
  /\ Next1(c, ReParsed(cl[c]))
  /\ UNCHANGED table

ReadDir(c) ==
  /\ Completed(c, "ss_readdir")
  /\ Next1(c, [cl[c] EXCEPT !.st = "ss_reparse2"])
  /\ UNCHANGED table

ReParse2(c) ==
  /\ Completed(c, "ss_reparse2")
  /\ Next1(c, ReParsed([cl[c] EXCEPT !.lzb = "null"]))
  /\ UNCHANGED table

(***************************************************************************)
(* A file on its way                                                       *)
(***************************************************************************)
\* pipe(), when the client has none.
Piped(o) == o.pfds[1] # 0
Pipe(t) == <<Lowest(t), Min(Free(t) \ {Lowest(t)})>>

\* lseek says where the next piece starts; it fails on what is no file or directory, and
\* the assertion of line 291 ends the server.
Seeks(t, n) == t[n].is \in {"file", "left"}
CannotSeek(t, n) == t[n].is # "file"

\* Mutant: fileid is kept.
SentKeeps(o) == [o EXCEPT !.st = "ss_recv_header", !.pfds[1] = 0]

\* After the last piece the numbers are closed, and not kept.
Sent(o) == [o EXCEPT !.st = "ss_recv_header", !.pfds[1] = 0, !.fileid = 0]

\* my_splice_start: at the end of the file the pipe and the file are closed.  While a
\* piece is being read the position is where the kernel has come to.  If the number has
\* come to be another's file, so has the position.
SpliceStart(c, t, o) ==
  \/ CannotSeek(t, o.fileid) /\ server' = "aborted" /\ UNCHANGED <<table, cl, past>>
  \/ /\ Seeks(t, o.fileid)
     /\ UNCHANGED server
     /\ \/ /\ t[o.fileid] = Of("file", c) => o.left # "unread"
           /\ table' = Closing(t, {o.pfds[1], o.pfds[2], o.fileid})
           /\ Leaves(c, Sent(o))
           /\ past' = past \cup Tells(c, t, "end", {o.pfds[1], o.pfds[2], o.fileid})
        \/ /\ t[o.fileid] = Of("file", c) => o.left # "read"
           /\ table' = t
           /\ Leaves(c, [o EXCEPT !.st = "ss_responce_file2", !.left = "reading"])
           /\ UNCHANGED past

\* Without a pipe the server exits.
SendFile(c) ==
  /\ Completed(c, "ss_responce_file")
  /\ \/ Piped(cl[c]) /\ SpliceStart(c, table, cl[c])
     \/ /\ ~Piped(cl[c]) /\ Cardinality(Free(table)) < 2
        /\ server' = "exited"
        /\ UNCHANGED <<table, cl, past>>
     \/ /\ ~Piped(cl[c]) /\ Cardinality(Free(table)) >= 2
        /\ LET p == Pipe(table)
           IN  SpliceStart(c, [table EXCEPT ![p[1]] = Of("pipe", c), ![p[2]] = Of("pipe", c)],
                           [cl[c] EXCEPT !.pfds = p])

\* my_splice_start2.  With two operations in flight it need not be the read that has
\* completed.
Spliced(c) ==
  /\ Completed(c, "ss_responce_file2")
  /\ \E left \in {"read"} \cup (IF cl[c].ops > 1 THEN {"reading"} ELSE {}) :
       Next1(c, [cl[c] EXCEPT !.st = "ss_responce_file", !.left = left])
  /\ UNCHANGED table

(***************************************************************************)
(* Terminals                                                               *)
(***************************************************************************)
\* A read from ws->base.fd, for whatever that is.
Reads(o, t) == [o EXCEPT !.op = "read", !.on = t[o.ws]]

\* forkpty needs two numbers, and gives the second back.
OpenTerminal(c) ==
  /\ Completed(c, "ss_ws_open")
  /\ Cardinality(Free(table)) >= 2
  /\ Opens(Of("pty", c))
  /\ LET n == Lowest(table)
     IN  Next1(c, Reads([cl[c] EXCEPT !.st = "ws", !.fileid = n, !.ws = n, !.size = TRUE,
                                      !.lzb = "ws"], table'))

\* forkpty fails, for want of numbers or of anything else: filesize is -1.
ForkptyFails(c) ==
  /\ Completed(c, "ss_ws_open")
  /\ Next1(c, Shut([cl[c] EXCEPT !.ops = @ - 1, !.size = TRUE]))
  /\ UNCHANGED table

\* A read of the terminal has brought something, and it is on its way.
PtyRead(c) ==
  /\ Alive /\ cl[c].op = "read" /\ cl[c].on # Closed
  /\ Next1(c, [cl[c] EXCEPT !.op = "send", !.on = Closed])
  /\ UNCHANGED table

WsSent(c) ==
  /\ Alive /\ cl[c].op = "send"
  /\ Next1(c, Reads(cl[c], table))
  /\ UNCHANGED table

\* The read or the send fails, with anything but EIO.
WsFails(c) ==
  /\ Alive /\ cl[c].op # "none"
  /\ Next1(c, Shut([cl[c] EXCEPT !.op = "none", !.on = Closed]))
  /\ UNCHANGED table

\* Mutant: the socket is closed with the pty.
HangUpAll(c) ==
  /\ Alive /\ cl[c].op = "read" /\ cl[c].on # Closed
  /\ table' = Closing(table, {cl[c].ws, cl[c].fd})
  /\ past' = past \cup Tells(c, table, "EIO", {cl[c].ws})
  /\ Leaves(c, Shut([cl[c] EXCEPT !.op = "none", !.on = Closed, !.ws = 0]))
  /\ UNCHANGED server

\* EIO: the shell has ended, or, if the client has been shut down meanwhile and 0 is
\* read, whoever was at standard input.  ws->base.fd is 0 then, and 0 is closed.
HangUp(c) ==
  /\ Alive /\ cl[c].op = "read" /\ cl[c].on # Closed
  /\ table' = Closing(table, {cl[c].ws})
  /\ past' = past \cup Tells(c, table, "EIO", {cl[c].ws})
  /\ Leaves(c, Shut([cl[c] EXCEPT !.op = "none", !.on = Closed, !.ws = 0]))
  /\ UNCHANGED server

(***************************************************************************)
(* The end of a connection                                                 *)
(***************************************************************************)
Set(numbers) == numbers \ {0}

\* my_free_client, when it gets to the end.  A descriptor that is 0 is none.
Pty(o) == IF o.lzb = "ws" /\ o.size THEN Set({o.ws}) ELSE {}
Pipes(o) == IF o.pfds[1] # 0 THEN {o.pfds[1], o.pfds[2]} ELSE {}

Line(o) == IF o.lzb = "ws" /\ o.ws = 0 THEN "fileid" ELSE "rest"

FreeClient(c, o) ==
  /\ table' = Closing(table, Pty(o) \cup Pipes(o) \cup Set({o.fileid}) \cup {o.fd})
  /\ past' = past \cup Tells(c, table, Line(o), Set({o.fileid}))
                  \cup Tells(c, table, "rest", Pty(o) \cup Pipes(o) \cup {o.fd})
  /\ Leaves(c, Freed)

\* A read or a send of the terminal is in flight: its pty is closed, and the client
\* waits for a completion that frees nothing.
Waits(c, o) ==
  /\ table' = Closing(table, Pty(o))
  /\ past' = past \cup Tells(c, table, "rest", Pty(o))
  /\ Leaves(c, [o EXCEPT !.st = "stranded", !.ws = 0])

\* The same for a listing taken for a terminal, whose text is taken for numbers
\* that are none.
Mistaken(c, o) ==
  /\ UNCHANGED <<table, past>>
  /\ Leaves(c, [o EXCEPT !.st = "stranded"])

Released(c, o) ==
  CASE o.lzb = "ws" /\ o.op # "none" -> Waits(c, o)
    [] o.lzb = "listing" /\ o.size -> Mistaken(c, o)
    [] OTHER -> FreeClient(c, o)

\* A client that is shut down has one operation less; with the last it is freed.
Drains(c) ==
  /\ Alive /\ cl[c].st = "ss_shutdown"
  /\ LET o == [cl[c] EXCEPT !.ops = @ - 1]
     IN  IF o.ops > 0 THEN Leaves(c, o) /\ UNCHANGED <<table, past>> ELSE Released(c, o)
  /\ UNCHANGED server

Ended == ~Alive /\ UNCHANGED vars

Next ==
  \/ AcceptFails \/ Ended
  \/ \E c \in Clients :
       \/ Accept(c) \/ Fails(c) \/ Drains(c)
       \/ \E kind \in Kinds, refused \in Refusals : Request(c, kind, refused)
       \/ ReParse(c) \/ ReadDir(c) \/ ReParse2(c)
       \/ SendFile(c) \/ Spliced(c)
       \/ OpenTerminal(c) \/ ForkptyFails(c) \/ PtyRead(c) \/ WsSent(c) \/ WsFails(c) \/ HangUp(c)

Spec == Init /\ [][Next]_vars

(***************************************************************************)
(* Properties                                                              *)
(***************************************************************************)
TypeOK ==
  /\ table \in [Numbers -> Description \cup {Closed}]
  /\ cl \in [Clients -> Client]
  /\ server \in {"running", "deaf", "exited", "aborted"}
  /\ past \subseteq {"EIO", "end", "fileid", "rest"}

Connected(c) == cl[c].st \notin {"none", "freed"}

\* No completion will bring the loop back to c: a HEAD has been taken from it (828),
\* or my_free_client has put off its free (213).
Abandoned(c) == cl[c].st \in {"idle", "stranded"}

\* The numbers the fields of a client name.
Named(o) == {o.fd} \cup Set({o.fileid, o.ws}) \cup Pipes(o)

\* The numbers c keeps and will use or close again.
HeldBy(c) == IF Connected(c) /\ ~Abandoned(c) THEN Named(cl[c]) ELSE {}

\* While no client has closed what was another's, the numbers a client keeps are
\* its own, except that of a pty it has closed: no other client can be served from
\* them.
KeepsItsOwn ==
  past = {} => \A c \in Clients : \A n \in HeldBy(c) :
    \/ table[n].of = c /\ table[n] # Closed
    \/ n = cl[c].fileid /\ cl[c].lzb = "ws" /\ cl[c].ws = 0

\* Two lines only can be the first to close what is another's: the one that closes
\* the pty at EIO, when it has been closed before, and the one that closes fileid,
\* when EIO has closed the pty.
FirstStaleClose == [][past = {} => past' \subseteq {"EIO", "fileid"}]_vars

\* What stays open and no line is left to close: what requests left, and what the
\* fields of an abandoned client name.
Leaked(n) ==
  \/ table[n] = Left
  \/ \E c \in Clients : Abandoned(c) /\ n \in Named(cl[c]) /\ table[n].of = c

\* Nothing else stays open that nobody keeps.
OnlyNamedLeaks ==
  past = {} => \A n \in Numbers \ {0} :
    table[n] # Closed => Leaked(n) \/ \E c \in Clients : n \in HeldBy(c)

\* The numbers that are open are those that are kept, but for the named leaks, and
\* each is its keeper's.
NumbersKept == TypeOK /\ KeepsItsOwn /\ OnlyNamedLeaks

\* server.c 291: a file that is being sent can be sought in.
SeekSucceeds == server # "aborted"
=============================================================================
