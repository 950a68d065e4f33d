# Verification of Web-Terminal-File-manager

TLA+ models of the server in `src/`: a web server that lists, serves, renames and
deletes files and gives each browser that asks a shell on a pseudo-terminal. There
are two servers in the repository, one for Linux on io_uring
(`src/src/linux/server.c`, `server.h`) and one for Windows on I/O completion ports
(`src/src/*.cpp`). They share no code but the HTTP parser and the front end. Both
are modelled here.

Line numbers without a file are those of `src/src/linux/server.c`.

## The system

| Part | State | Operations | Talks to | What makes it correct |
|---|---|---|---|---|
| Event loop, Linux (113-320, 454-931) | per connection a `my_client_http`, and for a terminal a `my_client_ws` | one handler per `so_type` | io_uring: submissions, completions | what is in flight is counted; nothing the kernel can still reach is freed; handler and completion stay in step; one answer per request; no client forgotten; every shell let go of |
| Process killer, Linux (134-178) | a set of pids under a mutex, one thread per pid | `queue_kill`, the thread | the kernel's process table | only the server's own children are signalled; every shell whose terminal is closed ends |
| Descriptors, Linux (throughout) | the process's table of open files | `open`, `accept`, `pipe`, `forkpty`, `close` | every client | each number is closed once, by its owner, and used by nobody else |
| File operations, Linux (11-99, 322-453) | the directory tree, `http_reader` | url and header callbacks; mkdir, rename, delete, recursive delete | the loop, which waits for them; other processes | what is removed was asked for; what is reported done is done |
| Terminal input (`static/index.js` 45-88; 528-702) | frames, one buffer of 1024 bytes, the pty | `sendLarge`, the frame decoder, `write` to the pty | browser, shell | no byte lost, shifted or taken for something else; the one thread does not wait for ever |
| File responses (288-321; `server.cpp` 9-58, 225-262) | a position, a pipe or a buffer | `parse_range`; splices; reads and sends | the kernel | what was announced is what is sent, in order |
| IOCP server, Windows (`accept.cpp`, `server.cpp`, `fs.cpp`) | an `IOCP` record per connection | one handler per `State` | one thread on one port (`N_THREADS` is 1) | a record is freed once, and by nobody while a completion for it is queued; every response ends |
| Pseudo-console session, Windows (`pipe.cpp`, `frame.cpp`) | handles in the `IOCP` record | the loop, a reader thread, the exit callback | each other, without a lock | torn down once and whole; the browser is told |
| Service, console, installer (`Apps/`) | | start, stop | the server | the stop reaches the loop |
| llhttp, tables (`llhttp/`, `http.c`, `Mine.h`, `gen.py`) | | | | third-party or generated |

`PROJECT.json` lists the same parts with what is modelled of each, and under
`hazards`, line by line, what can go wrong and which property would notice.

Hard to test here: the kernel completes what it holds for a connection in any order,
two objects share the fate of one terminal, an object is freed by a hand-kept
counter, one field (`lzb.data`) has two meanings, descriptor numbers come back, pids
come back, three threads test and close the same handles, and what a request leaves
behind is seen by the next one on a kept-alive connection.

How the modules fit together. Each describes one program at one grain, and names
what it leaves to another:

| Left out of | Found in |
|---|---|
| `ClientLoop`: what `queue_kill` sets off | `ProcessKiller`; a wrong pid handed to it is `Stray` there |
| `ClientLoop`: descriptor numbers | `Descriptors` |
| `ClientLoop`: the bytes of a file | `SpliceRelay`, which implements `Delivery` |
| `ClientLoop`: what a request does to files, what the url says | `FileOps` |
| `ClientLoop`: the bytes of frames, `write` that blocks | `TerminalInput` |
| `IocpServer`: the bytes of a file, the Range header | `FileRelay`, which implements `Delivery`; `RangeRequest` |
| `IocpServer`: a client that has its terminal | `PtySession` |

## Modules of the Linux server

### `ClientLoop` -- the event loop

`my_loop` is one thread that takes a completion, decrements `ops_pending` of the
object it points at, frees the object if it is closing and nothing is pending, and
otherwise runs the handler of the object's `so_type`. One step of `Next` is one
completion together with its whole handler.

| Variable | In the code |
|---|---|
| `server` | `struct my_server`: the listening socket and its accept |
| `mc[c]` | `my_client_http.base` of the c-th connection: `mem` (malloc'ed, freed), `so_type`, `closing`, `ops` = `ops_pending`; `inflight` is what the kernel holds for it |
| `ws[c]` | `my_client_ws.base` of the same connection |
| `http[c]` | the fields handlers branch on: `finished` = `http_reader.flags & 1`, `lzb` = what `lzb.data` points at, `filesize` = what it holds: zero, a file's size, what `malloc` left, the -1 of a failed `forkpty`, or the shell's pid, `left` = splices to the file's end, `piped` = `pfds[0]` is not 0, `url` = `url_str` is not NULL, `pty` = `ws->base.fd` is not 0 |
| `talk[c]` | history, no code reads it: headers acted on, headers read whole less answers handed to the kernel, and what of `filesize` was given to `queue_kill` |
| `proc` | the process: running, left the loop, killed by an assertion, `my_fatal` or a wild pointer |

| Actions | Code |
|---|---|
| `Accept`, `AcceptFails`, `ServerDrains`, `ServerShutdown` | `ss_server_accept`, the shutdown of the listener, SIGINT |
| `FreeClient` | the test before the dispatch, `my_free_client`, `my_free_ws` |
| `Gone`, `Drain` | a failed operation in any state; completions after `my_delete_client` |
| `HeaderGoesOn`, `ParseError`, `BadPointer`, `Upgrade`, `Request` (`SmallResponse`, `HeadRequest`, `GetSpecial`, `GetDirectory`, `GetUnlistable`, `IndexIsDirectory`, `GetFile`) | `ss_recv_header` with each verdict of llhttp, method and kind of path |
| `ReParse`, `ReadDir`, `ReParse2` | the end of a response, and the two sends of a listing |
| `SpliceIn`, `SpliceOut`, `FileSent`, `PipeFails`, `FileRead` | `ss_responce_file`, `ss_responce_file2`; `FileRead` is the kernel moving the file's offset, the only thing besides the loop that changes what the loop sees |
| `OpenTerminal`, `ForkFails`, `NoUrl`, `Frame`, `Data`, `PtyRead`, `PtyFails`, `WsSent`, `WsGone` | the terminal |

What is abstracted:

- A completion says which operation it is for only through `so_type`, as in the
  code. The operations are nevertheless named in `inflight`, so that a completion
  that runs another state's handler can be seen (`InStep`).
- A recv's bytes are llhttp's verdict on them (`Inputs`), the rest of the header a
  request from `Requests`. A file's contents are the number of splices it takes.
- An uninitialised read is a choice: `filesize` of a new client (`garbage`),
  `sec_ws_key` and `ws_pro` of an upgrade that sent neither header (`"bare"`, which
  may end in an error, an upgrade or a crash).
- `ops_pending` is an integer: it is stepped by one and compared with zero, and
  2^32 operations are out of a connection's reach. That of the listener, which is
  decremented and never incremented, is the one that leaves zero for good; nothing
  looks at it unless the listener is shut down.

`MCClientLoop` says what browsers may send: `AnyRequest` and `AnyInput` for
everything; `Answered` and `WholeHeaders` for the traffic the server answers by
design (no HEAD, no method it refuses, no header in pieces, `/` naming a file).

Definitions introduced by "Mutant:", here and in the other modules, are deliberate
mistakes. None is used by a specification; each replaces a definition of the model in
a run that must then fail, which shows that the property it is aimed at depends on
the code.

### `ProcessKiller` -- ending the shells of closed terminals

`queue_kill`, called by the loop when it frees a client whose pty is open, enters the
pid in `pidset` and starts a detached thread if it was not there; the thread asks
`waitpid` whether the shell is gone, signals it if not (SIGHUP, SIGCONT, SIGINT,
SIGKILL, a pause after each), and takes the pid out again. A step is one call that
another thread or the kernel can see between: a critical section under `my_mutex`, a
`waitpid`, a `kill`.

| Variable | In the code |
|---|---|
| `table` | the kernel's process table: a pid is free, a child that runs, a child not yet reaped, or somebody else's; and a child's process group (`pgrp`) |
| `term[s]` | a terminal: whether its pty is open, how it ended, and the pid kept in `filesize` |
| `pidset` | the set behind `pidset_add` and `pidset_remove`, whose `killer.cpp` the Makefile names and the repository lacks: a set, by how they are used |
| `killer[t]` | the thread of one call of `queue_kill`: before its waitpid, before a signal and which, before `pidset_remove` |
| `server` | `main`: in `my_loop`, past `my_cleanup`, returned |
| `lost`, `unstarted` | history: why nobody is after a shell; pids entered for a thread that could not be created |

| Actions | Code |
|---|---|
| `Open`, `Left`, `Close` | `forkpty`; the pty read that ends with EIO; `my_free_client` with the pty open |
| `QueueKill` (in `Close` and `Stray`) | `queue_kill`: pid in the set, thread started, or thread not created |
| `NoChild`, `Reaps`, `StillRuns` | the three answers of `waitpid` in `my_is_terminated`; the last leaves `status` unset, and `Unset` says how it may be read |
| `Signal`, `SignalKill`, `Remove` | `kill` before a pause, the last `kill`, the end of the thread |
| `ShellExits`, `LeavesGroup`, `ForeignStarts`, `ForeignExits` | the kernel: a shell ends for any reason, a new one leaves the server's process group (`setsid` in `login_tty`), a free pid is given to another process |
| `Cleanup`, `Exit` | `my_cleanup` (which destroys the set under the threads), the return of `main` |

`Stray` is a call of `queue_kill` with a number that is not the client's pid; that
it can happen, and when, is `KillsItsShell` and the branch of `lzb` in `ClientLoop`.
What is queued is `filesize`, an `off_t`, cut to a `pid_t` (208), so it may be any of
`Args`: a pid, 0, -1 (a `forkpty` that failed leaves just that), or the negative of a pid.
`waitpid` and `kill` take these for several processes, which `Reached` says: any child,
the children in the server's own group, or those in another. SIGHUP and SIGKILL to the
server's own group end the server.
Two outcomes of undefined behaviour are choices: the unset `status`, and
`pthread_detach` of a handle that `pthread_create` never set, which may end the
process. A shell is taken to keep its terminal until it exits (`Left`).

### `Descriptors` -- who keeps which number

The kernel hands out the lowest free number, so a number closed by one client is soon
another's. The code keeps a client's numbers in four fields, uses 0 both for standard
input and for "none", and closes a terminal's pty under two names.

| Variable | In the code |
|---|---|
| `table` | the kernel's table: what each number is of, and for whom it was opened; full at `MaxFd` |
| `cl[c]` | `fd`, `fileid`, `pfds` of `my_client_http`, `ws` = `ws->base.fd`, `size` = `filesize` is not 0 (a new client's holds what `malloc` left), `lzb`, the state, `ops` = `ops_pending`; `op` and `on` are the operation in flight on the pty and what its number stood for when it was submitted; `left` is how far the kernel has come with a file |
| `server` | running, deaf (listener shut down), exited, aborted |
| `past` | history: the lines that have closed what was not their client's |

| Actions | Code |
|---|---|
| `Accept`, `AcceptFails` | `accept`, and EMFILE |
| `Request` by kind, refused or not | what each kind of request opens, and whether it closes it: a small answer, a recursive DELETE in which `stat` fails (343: any number of DIRs stay open), HEAD, a special file, a directory that can or cannot be listed, a file, an upgrade; with a method that is refused, what is served is sent beside the 405: two operations |
| `ReParse`, `ReadDir`, `ReParse2`, `SendFile`, `Spliced` | the ends of responses; `pipe` and the two closes of it; `lseek` with its assertion (291) |
| `OpenTerminal`, `ForkptyFails`, `PtyRead`, `WsSent`, `WsFails`, `HangUp` | `forkpty`, and the -1 it leaves in `filesize`; reads and sends; the closes of 660, of descriptor 0 as well, when a late read of it ends with EIO (698) |
| `Fails`, `Drains` | `my_delete_client`; `my_free_client` when nothing is pending, in each of its branches |

Numbers are what this module is about, so memory, shells and the order of completions
are left to `ClientLoop`; `Mistaken` is the branch of `my_free_client` that takes a
listing for a terminal.

A number is a client's (`HeldBy`) while a completion can still bring the loop back to that
client. The loop forgets two kinds of clients (`Abandoned`): those of a HEAD (828), and
those whose free was put off (213). What their fields name is leaked, like the directories
and special files that no field names (`Left`), and `OnlyNamedLeaks` says that nothing
else is.

### `FileOps` -- urls, headers, and what they do to files

One connection. `Recv` is one recv of a header: the callbacks of llhttp for that part
of it, `http_on_url` decoding into `url_str`, `http_on_header_field` and
`http_on_header_value` setting `h_newname` and `X-Recursively`, and the dispatch. A
request comes in one piece or several, and a piece has what a callback is given of it: a
part of the url, the names of header lines it holds whole (or what looks like one: the
start of a longer name), a part of the value of X-NewName. A name in two parts is no name
to line 54; of a value in two parts line 80 takes the first and leaves the second. Then
every system call of
`my_create_dir`, `my_request_delete` and `my_request_delete_recursive` is a step,
between which other processes (`Others`) create and remove files.

| Variable | In the code |
|---|---|
| `tree`, `changes` | the files, with links; what others have done to them |
| `reader`, `past` | `http_reader`: `url_str`, `h_newname`, `flags`; history: header lines of earlier requests answered with a file |
| `req`, `count` | the header being read or served; history: whether the flags said from its start that it was finished (`early`) |
| `pc`, `st`, `stack` | where the server is, what fstat said, the calls of the recursion |
| `reply`, `dirs` | the response; DIRs open |
| `lost`, `removed`, `slips` | history: DIRs nobody will close; what was removed for this request, and what came in its way |

A path has one character per component, and the server's own directory is the root. A
link's target is an absolute path, followed at most `MaxLinks` times, as in the kernel.
A string that is empty, or starts with a NUL, leads nowhere (`Where`).
The path of an entry is the entry's name alone, because the second loop that fills `buf`
starts at 0 again (339): the recursion looks in the server's own directory for what it
found in another, and goes on until no descriptor is left for a DIR (`MaxDirs`) when a
directory has its own name in it. The `%` loop that never ends is a state,
`"spins"`. An entry's `stat` and the call that follows are one step, and what
`readdir` returns is what was there at `opendir`.

### `TerminalInput` -- from the keyboard to the shell and back

The path of a keystroke: `onData` and `sendLarge` cut a paste into slices of
`buffer_max` UTF-16 units, `WebSocket.send` encodes them in UTF-8 and masks them, the
server receives six bytes and then the rest of the frame into one buffer, unmasks,
tells input from a change of the window's size, and writes to the pty; the shell reads
and answers, and the same thread reads that and sends it.

| Variable | In the code |
|---|---|
| `typed`, `sizes`, `hole` | history: what was typed, how often the window changed, and what was lost and why |
| `out`, `wire` | the browser's queue behind `bufferedAmount`; the network |
| `srv`, `rest` | `ss_ws_read6`, `ss_ws_read_data`, or waiting in `write()` with that much left |
| `tty`, `got`, `shell`, `outq` | the pty and what runs in it |
| `ws`, `winsize` | the other object's read; TIOCSWINSZ |

A byte is known by the character it is of and its place in it, so a byte that is
shifted, unmasked wrongly or out of order is seen as such. `Received` lays the buffer
out as `precv` and the two moves do; `Decoded` unmasks from it. 64-bit lengths are left
out: `index.js` sends no such frame.

### `SpliceRelay` and `Delivery` -- a file response

`SpliceRelay` is the bytes behind `ClientLoop`'s `SpliceIn` and `SpliceOut`: file to
pipe, pipe to socket, `MY_SPLICE_SIZE` at a time, until the position is the size.
`Interrupted` allows a splice to a socket to end short.

`Delivery` is what either server promises of a response that announces its length: it
gets a prefix of the announced bytes, is complete only when it has all, and otherwise
the browser is told by the end of the connection. It is the abstract specification of
`SpliceRelay` here and of `FileRelay` below, under the mappings `want <- filesize` or
`Announced`, `status <- CASE so_type ...` or `CASE state ...`, stated as the properties
`SpliceDelivers` and `Delivers`.

## Modules of the Windows server

### `IocpServer` -- the completion loop

One thread takes a completion from the port, learns from its key the record it is for
(from `acceptIOCP.currentCtx` for an accept), and runs the handler of the record's
`state`. `CloseClient` cancels what is in flight and issues a `DisconnectEx`, whose
empty completion frees the record.

| Variable | In the code |
|---|---|
| `ctx[c]` | the `IOCP` record: `state`, `keepalive`, `firstCon`, `url`, `hProcess` used for a file, `sbuf`, what is left of file and body; `ops` is what the kernel holds. History: handles opened and not closed, the Connection line last sent, assertions that failed, failures nobody acted on |
| `current` | `acceptIOCP.currentCtx` |
| `loop` | the thread: in `RunIOCPLoop`, in `accept_next`, or gone (the packet a host posts, `fatal`, `ExitThread`) |
| `early` | packets still to come of accepts that had completed at once |
| `atOnce` | history: how many accepts have |

| Actions | Code |
|---|---|
| `AcceptNext` | once round the loop of `accept_next`: `AcceptEx` is pending (`Pending`), has completed at once and the record is served there and then (`AtOnce`), or the thread ends |
| `FirstRequest`, `EmptyRequest`, `AcceptFails` | the packet of an `AcceptEx` that is `currentCtx`'s: with a first recv in it, with none, or with an error |
| `OtherLength`, `StrayPacket`, `OtherFails` | a packet of another accept, handled with `currentCtx` all the same: its data with the other's length, its data not there yet (`CloseClient` of a socket nobody has connected to), an error |
| `Request` (`Post`, `GetFile`, `GetDirectory`, ...) | `processRequest` |
| `ReadStaticFile`, `SendPartFile`, `RecvNextRequest`, `ListDirRecvNextRequest`, `PostWritePartFile`, `POSTWaitFileData`, `PostRecvNectRequest`, `AfterSendHTML`, `HandShakeSent`, `InvalidState` | the states of `processIOCP` |
| `Empty`, `Stale`, `Aborted`, `ConnectionAborted`, `Forgotten` | `RunIOCPLoop` on completions of 0 bytes, of a freed record, with an error |
| `Stop`, `Returned` | the host's packet |

An `AcceptEx` that returns TRUE (`accept.cpp` 115) has its packet on the port as well. The
record is served at once, `accept_next` makes the next one `currentCtx`, and the packet is
run on that. `CurrentAccepts` counts what is out of step: as many packets go to another
record than their own as accepts have completed at once, none before the first, and
never fewer again. Three things are assumed of Windows there: the packets of several
accepts come in any order; a `DisconnectEx` on a socket nobody has connected to fails at
once; and `CancelIoEx` aborts what is in flight on the socket, which the `AcceptEx` of the
listening socket is not.

`MCIocpServer`: any parse of the requests that are treated in a way of their own
(`AnyInput`, `Opened`), and the requests the server follows to their end (`Followed`,
`Readable`). Bodies come by `Content-Length`; chunked ones, and two requests in one recv,
are outside `InputType`.

### `PtySession` -- one terminal, three threads

From the answered handshake to the end of the record. L is the completion loop (`spawn`,
then the frames), R is `readLoop`, W is the thread pool's `onProcessExit`. L and W take
the same six handles down in the same order; a step is one test of a handle or one
close of it.

| Variable | In the code |
|---|---|
| `ctx` | the record: freed or not, `state`, whether the browser was sent a Close frame, the registered wait, which handles are not NULL |
| `obj` | what the handles stand for in the kernel: open, closed |
| `lpc`, `wpc`, `rpc` | where each thread is |
| `shell`, `net` | the process; recvs and sends in flight |
| `past` | history: what happened that should not have, by name |

### `RangeRequest`, `FileRelay`, `MCFileRelay` -- parts of files

`RangeRequest` is `parse_range` on a text of characters, with 64-bit numbers that wrap
at `Wrap`; what a well-formed header means is said beside it, with numbers that do not
wrap (`Value`, against the `Wrapped` of the code). `FileRelay` is the reading and sending
of a part, with the modular arithmetic of `ReadStaticFile`. `MCFileRelay` composes them:
each header of up to `MaxLen` of the characters in `Characters` is parsed and what it asks
for is relayed.

## Runs

| Run | Instance | Shows |
|---|---|---|
| `memory` | one client, any request, any parser verdict, 2 requests, 1 chunk; 77 thousand states | `IInv`, `OpsAccounting`, `NoUseAfterFree`, `ListenerArmed`, `KillsItsShell`, `ClosingIsFinal`: the memory discipline holds even in the executions where the defects below put two operations in flight |
| `dialogue` | one client, requests answered by design, 3 of them, 2 chunks, with fairness; 5 thousand states | `InStep`, `OneAnswerPerRequest`, `StrandedOnlyBehindLzb`, `ShellEventuallyReleased`, `EveryRequestAnswered` |
| `killer` | two terminals on one pid and a stray call with any of -2, -1, 0 and 2, one failed `pthread_create`, with fairness; 378 thousand states | `SignalsReachChildren`, `PursuedUnlessLost`, `SignalsItsShell`, `ClosedShellEndsUnlessLost` |
| `descriptors` | two connections, six numbers, two requests each of any kind, refused or not; 1.6 million states up to exchanging the clients | `NumbersKept`, `FirstStaleClose` |
| `descriptors_seek` | two connections, nine numbers, a file and a terminal | fails: the assertion on `lseek` (`SeekSucceeds`) |
| `file_ops` | a tree of 16 files, three requests out of 28, five of which come in two pieces, two changes by others, with fairness; 70 thousand states | `UrlMeant`, `RepliesMeant`, `WithinAsked`, `HeadersMeant`, `Answered` |
| `terminal_input` | two events out of five, one change of size, with fairness; 34 thousand states | `InputKept`, `AsciiAccepted`, `WriteReturns`, `AllArrives` |
| `splice_relay` | files of 0 to 9 bytes in pieces of 4; 619 states | `SpliceDelivers` |
| `iocp_any` | three records, any request, any parse, every failure, accepts pending or complete at once; 3 million states up to exchanging the records | `CurrentAccepts`, `DisconnectFrees` |
| `iocp_dialogue` | one connection, three requests the server follows to their end, lost and aborted completions, with fairness; 8 thousand states | `InStep`, `PromiseKept`, `AssertionsHold`, `ResponsesEnd` |
| `pty` | one terminal, any frames, any failure of `spawn`, with fairness; 7 thousand states | `SessionWhole`, `TwiceOnlyOverlapping`, `CallbackKeptOff`, `ExitTold` |
| `file_relay` | every part of files of up to 11 bytes, every header of up to 4 characters out of 0, 1, 2, space, dash and one more, a buffer of 3, with fairness; 23 thousand states | `RangesMeant`, `Delivers`, `Ends` |

Many properties say "unless". Each names a way in which the code is known to break the
plain statement (see "Disagreements met"), recorded in a history variable when it
happens, and so says where that damage ends: nothing else breaks it.

### Bounds

- `ClientLoop`: clients share nothing but the listener, so one client shows what can
  happen to a client. Two requests are the shortest dialogue in which one sees what
  another left behind (a listing in `lzb` after a file's size in `filesize`), and a
  third adds a terminal after both. One chunk makes a file response go round its relay
  once and find the end, two make it go round again. `MaxRequests` is in the guard of
  `Request` only: every other action runs until it has nothing to do.
- `ProcessKiller`: a pid has to come back for the hazards to arise, so two terminals
  share one, 2 (1 is init's). One stray call is enough to have a shell reaped behind its
  terminal's back, and with -1, 0, 2 and -2 to choose from it is each kind of number that
  `waitpid` and `kill` tell apart.
- `Descriptors`: six numbers (0 to 5) are standard input, two sockets and three more: a
  file response takes three (the file and the pipe's ends), so the table fills and every
  `open`, `accept`, `pipe` and `forkpty` also fails. Two requests make a client see what
  its first left behind. The failing run has room for more, so that the numbers it needs
  are not taken by a refusal, and leaves refused methods out.
- `FileOps`: the names in the tree's directories are also names in its root, of a file, of
  one that stays, of a directory, of a link to one and of a link to itself, and there are
  names that are not; a directory has its own name in it, and three DIRs are enough for a
  recursion that ends by itself and for one that does not. Three requests are a response that keeps the headers, one that
  sets some and one that suffers; two changes by others can empty a directory under the
  recursion, or put a file into one. The five requests in two pieces are cut in the url, in
  the new name, between X-NewName and its value, in the names of both header lines, and
  behind what looks like X-NewName and goes on.
- `TerminalInput`: `buffer_max` 6, `ShortMax` 5 and `BufferSize` 16 keep the order of the
  real 1000, 125 and 1024: a slice of ASCII fits, a slice of wide characters does not,
  and short and extended frames both occur. (`ShortMax` is not below five because a
  change of size has five bytes and is a short frame.) The pty takes one slice.
- `SpliceRelay`, `FileRelay`: sizes below, at and between multiples of a piece, twice
  round. `Wrap` and `Word` 16 with two-digit numbers make `parse_range` wrap.
- `IocpServer`: three records, so that one accept that completes at once, one that is
  pending and the one `currentCtx` names can be three different records; `iocp_any` has
  of the requests one for each way `processRequest` treats them and bodies of one piece,
  as the two properties it checks are about operations. Three requests of one record for
  what a kept-alive connection keeps; there a response has up to two pieces, a body too.

Deadlock is checked where a stopped program stutters by name (`Ended`, `Returned`).
It is not for a session that is over (`PtySession`, `FileRelay`, `SpliceRelay`), nor
for `Descriptors`, `FileOps` and `TerminalInput`, whose bounded input is used up.

### Fairness

Every `Fairness` asks of kernel and scheduler what they do by themselves, and never
asks a browser to send, a user to type or others to change files; nor, but for what the
table says of `TerminalInput` and `PtySession`, a shell to read, print or exit.

| Module | Weak fairness of | Why |
|---|---|---|
| `ClientLoop` | per client, what does not wait for anybody's decision: reading a file, a send or splice to a peer that reads or goes away, anything on a socket that has been shut down | the kernel completes these; a completion and its handler are one step, because the loop sleeps only when there is no completion |
| `ProcessKiller` | each killer thread | pauses end, the mutex is released, the scheduler is fair; that a shell ends is SIGKILL's doing |
| `FileOps` | `Handler` | no call in it waits for anyone |
| `TerminalInput` | the network, the server's thread, its read of the pty, the send, the shell | the thread runs unless it waits in `write()`, which is a guard; what runs in the terminal is one that reads (a program that never does stops the server: that is the code's, not the model's, and is hazard 628) |
| `IocpServer` | per client, file operations, sends, disconnects (`MustComplete`); `AcceptNext` | as for `ClientLoop`; and the thread does not stop in `accept_next` |
| `PtySession` | the three threads; the shell once its console is closed | `ClosePseudoConsole` ends it |
| `FileRelay` | reads and sends | as for `IocpServer` |

A browser that neither reads nor leaves is outside this: the servers have no timeouts.

## Proofs

`ClientLoopProofs` (any clients, requests, inputs and bounds), from
`ConstantsAssumption`, which says that the constants have their types:

| Theorem | Says |
|---|---|
| `Invariance` | `Spec => []IInv` |
| `TypeCorrect`, `OpsAccounted`, `MemorySafe`, `DeadBranch`, `ShellsReleased`, `KillsItsShells` | `TypeOK`, `OpsAccounting`, `NoUseAfterFree`, `WsNeverCloses`, `ShellReleased`, `KillsItsShell` are invariants |
| `ListenerStaysArmed`, `ClosingStaysFinal` | `ListenerArmed` is an invariant and `ClosingIsFinal` an action property |
| `StrandedBehindLzb` | `StrandedOnlyBehindLzb` is an invariant, if `NoHead(Requests)` |
| `KeptInStep` | `InStep` is one, if also `NoRefusal(Requests)` |
| `AnswersOnce` | `OneAnswerPerRequest` is one, if also `NoParts(Inputs)` |

The three operators say what browsers leave out: HEAD of a path that exists, a refused
method on one, a header in several pieces. Each theorem asks for no more than its
property needs (2, 3 and 1 under "Disagreements" are what happens without), and
`MCClientLoop` assumes all three of the constants of its run `dialogue`, so TLC checks
that the run is an instance of the theorems.

`ProcessKillerProofs` (any terminals, strays, pids and failures), from
`KillerAssumption`, which says that a stray is no terminal and pids are numbers above 1:

| Theorem | Says |
|---|---|
| `Invariance` | `Spec => []IInv` |
| `TypeCorrect`, `PidsetExact`, `ChildrenSignalled`, `Pursued` | `TypeOK`, `PidsetIsKillers`, `SignalsReachChildren`, `PursuedUnlessLost` are invariants |
| `OwnShellSignalled` | `SignalsItsShell` is one |

`SignalsReachChildren` is under `Narrow`, no killer for -1, 0 or a group: the `waitpid` of
one may reap the child that another killer has just looked at.

`RelayProofs`, for the relay of the Windows server (any buffer, word and set of parts),
from `Ordered`: each part starts before it ends, within a file shorter than the word.
`parse_range` returns others too, which is the disagreement about ranges below.

| Theorem | Says |
|---|---|
| `Invariance`, `TypeCorrect`, `SentInOrder`, `SentWithin`, `ReadsSucceed` | `IInv`, `TypeOK`, `InOrder`, `WithinAnnounced`, `NeverStuck` are invariants |
| `Implements` | `Spec => Delivers`: the relay implements `Delivery` |

And for that of the Linux server (any sizes, any length of a piece), with interrupted
splices too but for the last two:

| Theorem | Says |
|---|---|
| `SpliceInvariance`, `SpliceTypeCorrect`, `BytesAccounted` | `SpliceInv`, `SpliceTypeOK`, `NothingLost` are invariants |
| `PipeIsDrained` | `PipeDrained` is an invariant, if no splice to the socket is interrupted |
| `SpliceImplements` | `SpliceSpec => SpliceDelivers`, if none is |

And for what is asked for, from `RangeAssumption`, which says that `Wrap` is a number
above 0 and what characters there are:

| Theorem | Says |
|---|---|
| `RangesAreMeant` | `RangesMeant` is an invariant: headers of any length, numbers of any, files of any size |

`DescriptorsProofs` (any clients, kinds of request and limit on descriptors):

| Theorem | Says |
|---|---|
| `NumbersStayKept`, `FirstStaleCloses` | `NumbersKept` is an invariant and `FirstStaleClose` an action property |

`IocpServerProofs` (any records, paths, files and bounds):

| Theorem | Says |
|---|---|
| `TypeCorrect`, `CurrentAccepting`, `DisconnectFreeing` | `TypeOK`, `CurrentAccepts`, `DisconnectFrees` are invariants, whatever browsers send |
| `KeptInStep`, `PromiseKeeping`, `AssertionsHolding` | `InStep`, `PromiseKept`, `AssertionsHold` are, under `ServedToTheEnd(Inputs, Found, Faults)` |

`ServedToTheEnd` leaves out the requests the server loses hold of: HEAD, whose file it
forgets to close; a POST without a body or with a header in pieces, and a body with
another method; a directory that cannot be read; what follows a body. `MCIocpServer`
assumes it of the run `iocp_dialogue`.

`PtySessionProofs` (any frames and failures of `spawn`):

| Theorem | Says |
|---|---|
| `SessionStaysWhole`, `TwiceWhenOverlapping`, `CallbackStaysOff` | `SessionWhole`, `TwiceOnlyOverlapping`, `CallbackKeptOff` are invariants |

`FileOpsProofs` (any characters, requests, tree, links, limits and changes by others),
from `FileOpsAssumption`: the characters the model names are among `Chars` and its three
markers are not; a url is not empty and does not start with a `%`, which llhttp would
refuse; a header in one piece shows its names as they are, a value that is not cut is the
one meant, and a value follows its name; and every file of the tree lies in a directory of
it.

| Theorem | Says |
|---|---|
| `Invariant`, `TypeCorrect`, `RepliesMeantTheorem`, `UrlMeantTheorem` | `IInv`, `TypeOK`, `RepliesMeant`, `UrlMeant` are invariants |
| `HeadersMeantTheorem`, `WithinAskedTheorem` | `HeadersMeant` and `WithinAsked` are action properties |

`UrlMeant` is about urls that arrive whole; the others hold of urls in pieces as well.

`TerminalInputProofs` (anything typed, and any sizes of slices, frames, buffers and ptys),
from `InputAssumption`: nothing typed is empty, and a slice of ASCII with the longer
header, and a short frame, fit into `read_buffer`, as 1000 and 125 do into 1024.

| Theorem | Says |
|---|---|
| `InputInvariance` | `Spec => []IInv` |
| `InputIsKept`, `OnlyWideIsRefused` | `InputKept` and `AsciiAccepted` are invariants |

`RelayAssumption` and `SpliceAssumption` give their constants types. Theorems about
properties that no run lists are stated for what rests on them, or as parts of a
property that a run does list.

None of the safety invariants is inductive alone.

In `ClientLoop`, that no completion reaches freed memory needs `ops` to equal the number
of operations in flight (so that the test before `my_free_client` means what it says),
and for a `ws` it needs more: that a live `ws` has a live `mc`, whose `lzb` points at it
and whose `filesize` is a pid, which no later handler overwrites, so that `my_free_client` takes the branch that looks at
`ws->base.ops_pending`; and that this stays so, because an `mc` that has a `ws` is in one
of the two terminal states or shut down, where no handler touches `lzb` or `filesize`.
`Consistent` says this of one client, and `IInv` is `TypeOK` with `Consistent` for each.

The proof goes: what the sequence operators do to an object (`RemoveAtLemma` to
`DeleteLemma`); a step that changes one client's four records and keeps them consistent
keeps `IInv` (`LocalChange`); the shapes handlers come in (hand on the next operation,
refuse and hand on, close: `HandOnLemma`, `RefuseAndHandOnLemma`, `CloseLemma`); one
lemma per action; and `NextInvariant` over the disjuncts of `Next`. The listener has an
invariant of its own, `ListenerInv`: its count of operations is at most 0, so that
decrementing it never makes it 0, and an accept is in flight unless it is shut down. A
client that is closing has no action but a failed or drained completion, which submits
nothing.

What a client's dialogue promises needs a second invariant, `DInv`, on top of `IInv`.
`InStep` speaks of clients that are not closing only, but a listing is sent from
`lzb.data` after a shutdown as well, so `InTurn` says for every state whether a listing
may be in flight; and a handler finds the listing, the pty or the `ws` it needs only
because the one that entered its state left it there. `Settling` ties what is owed to the
state: one answer from the handler that reads a request until the last part is submitted.
Two operations in flight would break it at once, which is why it rests on `InTurn`.

In `ProcessKiller`, that a signal reaches a child needs the whole discipline of the set:
the pid of an active thread is in `pidset`, so `queue_kill` starts no second thread for
it; two active threads have different pids; so, while each stands for one process
(`ReachedOne`), nobody but the thread itself can reap the child it has checked (`IPids`). That a shell is pursued needs that a terminal's thread is
started by its closing only (`ITerms`). That the shell is the terminal's own needs that
nobody else reaps it, which holds until a stray call has been made (`IOwn`, under
`Unstrayed`, which cannot come back: `StraysStay`).

In `FileRelay`, the offset is the part's first byte plus what was sent, which never
passes the part's end; so nothing wraps (`NoWrap`), the read asked for lies in the part,
and the offset meets the end exactly when all has been sent. In `SpliceRelay`, what was
taken from the file is what was sent and what the pipe holds; the pipe is empty before
each piece only if splices are whole (`DrainedInv`), which is why an interrupted one loses the
end of a file.

In `Descriptors`, `NumbersKept` says that a number that is kept is its keeper's, not which
field keeps it as what, and a step closes fields. `Shape` says which fields are empty in
which state and how many operations are pending, so that the step that frees a client is
the last to touch it (an operation is pending in every state that waits for one, though a
refused method leaves two); `Owns` says what each field names in the table, and
`Accounted` that nothing is open which neither a request left nor its owner's fields name
(`Mine`), both as long as `past` is empty. The kernel answers with the least number that is closed, and that there is one is
the only place where the proof needs an argument about numbers (`MinIsMember`).

In `IocpServer`, that a record is freed once needs `Orderly`: at most one disconnect in
flight, and nothing else for a socket that is being disconnected. The accept in flight
stands alone in its record and its record is as `accept_next` made it, or has been taken
for another's (`Sound`); `Counted` carries the sum of `CurrentAccepts` through
`accept_next`, where `current` is between two records, which makes one packet or one record
change sides in each step. The second invariant, `SInv`, says of a served record that
one operation is in flight and what its state needs is there: the handle, what is left
of the file or the body, and what `Connection` said.

In `PtySession`, the loop and the callback each test a handle, close it and clear it, in
steps of their own. `Taken` says how far the teardown has come (what L has passed is
closed), `Apart` that the callback rests while L closes unless `past` names the overlap,
and `Once` that the handle a thread is about to close is then open. All of it is needed
together: `TwiceOnlyOverlapping` is a statement about one step, and what makes it true is
that of two threads only one is in its teardown.

In `FileOps`, what a request may do depends on what earlier ones left in `http_reader`, so
the invariant says where each remnant comes from: a new name or `X-Recursively` in force
is asked for in this header or in `past` (`Carried`), and what has been read of a header
is a part of it (`Reading`). That what is to be renamed is not deleted needs `Coming`: if
the name of the line has been seen and the header is waited for to its end, then a part of
its value has been taken or is still to come (`Ordered`, `Waits`, `Brought`). `WithinAsked` needs to know that every call of the recursion
but the first has a path of one name (`Recursing`); `RepliesMeant` that nothing was
removed before the recursion (`Untouched`), and that every step, `rename` of a whole
directory included, leaves a tree (`MovedIsTidy`, `WithIsTidy`, `WithoutIsTidy`): else an
item that is gone could have files under it that are not. For `UrlMeant`, `Sound` is the
invariant of the loop of `http_on_url`: it is at no digit of an escape, and what it has
written stands, character by character, for what lies before it. `LoopSound` carries it
to the end of the url or to the `%` at which the loop stays. Walks along links and loops
over texts are functions by recursion on a number; that they exist, and that what every
step keeps holds at the end, is proved from the well-foundedness of the numbers
(`Recursion`, `Stays`), since no theorem about induction can be cited here.

In `TerminalInput`, that what is on its way equals what was typed is no argument for the
next step once something has been lost, so `IInv` says it in three parts: the bytes on
their way are those of characters typed or a replacement (`Known`), they are in order
(`Sorted`), and none is missing while `hole` is empty (`AllThere`). Two sequences without
repetition that are sorted and have the same elements are equal, which gives `NothingLost`
back. `FrameSet` says what a frame may be: a size the window has had, or bytes of
characters, no more than `buffer_max` of them as long as all typed are `Plain`; so that
ASCII is never too long. `ServerInv` says when the terminal may have been closed. The
argument follows the data: the slices of `sendLarge` cover the units and none twice
(`SlicesSound`); what a slice is encoded to is sorted and, unless a pair is cut, complete
(`EncodedSound`, `FrameSound`); what is sent of them is a prefix, and everything unless
`hole` says `late` (`SentSound`); and the layout of `read_buffer`, the moved mask, the
offset and the unmasking give back the payload of a short frame and of a longer one
(`DecodedIs`).

In `RangeRequest`, each loop stops at the first character that it does not pass
(`SpacesStop`, `DigitsStop`); numbers below `Wrap` are read as they are because every
number on the way to them is below it too (`NotWrapped`); then `parse_range` is
computed for each of the three forms (`FromToMeant`, `FromMeant`, `SuffixMeant`), and for
the rest it is enough that a number that passed the comparison is within the file
(`AlwaysInFile`). `FlattenSeq` and the folds over digits are functions by recursion on
positions, treated as in `FileOps` (`Recursion`, `Running`, `ValueRuns`).

Only model-checked: the liveness properties, which the prover cannot do.

## Disagreements met

One is a failing run: `descriptors_seek`, item 6. The others are in the models, where a
property says "unless", leaves the request out, or takes the case as a choice.

Linux server:

1. `my_splice_start` goes back to `ss_recv_header` with the flags still set (296): after
   a file response the first piece of the next header is served as it is, and its
   `h_newname` and `X-Recursively` are those of the earlier request (`FileOps.past`).
2. HEAD of a path that exists is not answered (828), and the client never heard again.
3. A refused method is served after its 405 (838): two operations, one state.
4. `my_is_terminated` reads `status` when `waitpid` has not set it (132): a running shell
   may be left alone.
5. A pid leaves `pidset` after its shell has been reaped (162): a new shell that inherits
   it and is closed at once gets no killer. If `pthread_create` fails (175) the pid stays
   for good.
6. At EIO the pty is closed, and again under its other name when the client is freed
   (660, 226): by then the number may be another client's, whose next `lseek` fails the
   assertion of 291.
7. With the pty closed a late writev goes on to read descriptor 0 (698), and EIO of that
   read closes it (660).
8. A directory, a special file and HEAD leave their descriptor open (807), a recursive
   DELETE that `stat` ends every DIR it is in (343), a client that is forgotten (828, 213)
   all that its fields name.
9. A listing in `lzb.data` with a nonzero `filesize` is taken for a terminal (199): the
   client is forgotten, or a number that is no pid is killed (208). After a directory that
   could not be listed and an upgrade whose `forkpty` failed that number is -1: the killer
   reaps any child and signals every process it may.
10. A splice to the socket that is interrupted leaves bytes in the pipe that the end of
    the file closes over (317).
11. A `%` without two hexadecimal digits is never stepped over (23), and the only thread
    is lost.
12. A url that arrives in two pieces loses the first character of each, and all but the
    last piece (11). Of a value of X-NewName in two pieces the first is the new name (80),
    so a rename goes to a name nobody gave, over what has it; a name in two pieces is not
    seen (54), so an item is deleted instead of renamed, or the recursion not begun; and a
    longer name cut behind `X-NewName` or `X-Recursively` is taken for that.
13. The recursive delete never deletes what is in the directory: an entry's name is written
    over the directory's instead of behind it (339), so it removes what has that name in
    the server's own directory, or fails with the DIR open when nothing has (342). It
    ignores the results of `unlink`, `rmdir` and of itself (345, 347, 352) and reports
    success. (`WithinAsked` says what it may remove, `RepliesMeant` what it reports.)
14. `write()` to a pty blocks the only thread (628); with a program that waits for its
    output to be read, for good.
15. Input of five bytes that starts with NUL is a change of size (620).
16. `my_error_errno` writes the message behind the header lines without the blank line
    (355-364), so the browser has an unfinished header.

Browser: when too much is buffered `sendLarge` asks to be called again with neither of
its arguments (`index.js` 49); slices cut surrogate pairs (50); 1000 characters of two
bytes or more are a frame the server refuses by closing the terminal (588).

Windows server:

17. A listing is destroyed after it was sent and again when its record is freed
    (`server.cpp` 266; `"heap"` in `AssertionsHold`).
18. `/` on a kept-alive connection repeats the path before it, and a `Range` header lives
    on (188).
19. A POST without a body waits for one, and reads the next request as that (291); a GET
    with one runs into `CloseClient` and is served as well.
20. `AcceptEx` that completes at once is handled there and then, and its packet is handled
    again with the record that is `currentCtx` by then (`accept.cpp` 115-119): that client
    is disconnected unheard, or its request read with the length of another's, and the loop
    never comes back into step.
21. An empty frame leaves the terminal with no recv (`frame.cpp` 175).
22. A shell that ends while its Close frame is handled has its handles closed twice
    (`pipe.cpp` 7, `frame.cpp` 59); a connection that ends without a Close frame leaves
    its shell and its wait, whose callback uses the freed record (`accept.cpp` 80).
23. A shell that ends before `spawn` has stored its handle is not reported (`pipe.cpp` 107).
24. `bytes=-0` and ranges whose end lies before their start pass `parse_range` and
    announce an empty length or one that wraps (`server.cpp` 31).

## Further hazards

Not in `PROJECT.json`, which lists the forty that come first, and not in the models:

- Two requests in one recv are one to the Linux server, and a chunked body of a POST is
  outside what `IocpServer` is given.
- A completion is given back to the ring (471) before its `res` is read again by a
  handler; the kernel may have overwritten it.
- `my_cleanup` destroys the set and its mutex under detached killers (937). `Cleanup` is
  in `ProcessKiller`; what the mutex then does is not.
- A shell that ends by itself is not waited for (161) and stays a zombie.
- `forkpty` gives the master no CLOEXEC (722): a later shell inherits earlier terminals,
  which closing them in the server then does not hang up.
- A 64-bit frame length is read from the wrong place (565).
- `index.js` sends keys typed before `onopen`, which throws.
- `conpty` and the header of a frame are shared by the two threads that send
  (`frame.cpp` 3, `pipe.cpp` 138), and the buffer is read into again while it is sent.
- `WriteFile` to the console blocks the completion loop (`frame.cpp` 47).
- The size a browser asks for is overwritten by the default behind the label `BAD`
  (`server.cpp` 470), as nothing jumps over it.
- The service's status is written by two threads (`service.cpp` 44-97).

## Plan

Modelled and checked: everything above. What is left:

1. The two directions of a Windows terminal byte by byte, with the buffers they share.
2. The ring between loop and kernel, and a completion read after it was given back.

## Not modelled

- llhttp and the tables made by `gen.py`: third-party or generated, nine tenths of the
  repository's lines. The models take llhttp's verdict on a recv as an input, which is
  why they stand for a small share of all lines and for most of the server's own.
- `simpleServer.Cpp`: an earlier server that no build names.
- `NtAPI.h`: declarations.
- The installer, the service and console hosts: sequences of calls without a state that
  the server sees, but for the packet that ends the loop (`IocpServer.Stop`).
- The text of pages, listings and headers; logging; settings and drawing in the browser.
