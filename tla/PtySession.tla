------------------------------ MODULE PtySession ------------------------------
(***************************************************************************)
(* One terminal of the Windows server, from the answered handshake to the  *)
(* end of its IOCP record: spawn, readLoop and onProcessExit of            *)
(* src/src/pipe.cpp, onRead6Complete and onRecvData of src/src/frame.cpp.  *)
(*                                                                         *)
(* Three threads share the record without a lock: L, the completion loop;  *)
(* R, readLoop; W, the thread pool's, which runs onProcessExit when the    *)
(* shell has ended.  L and W take the same handles down, one after the     *)
(* other; a step of theirs is one test of a handle or one close of it.     *)
(***************************************************************************)
EXTENDS Integers, Sequences

CONSTANTS
  Frames,    \* the kinds of frames the browser may send
  Failures   \* what may fail in spawn

\* "data": text or binary; "control": ping, pong, continuation; "empty": any
\* frame without a payload; "bad": unmasked, fragmented, RSV set, too long.
ASSUME PtyAssumption ==
  /\ Frames \subseteq {"data", "close", "control", "empty", "bad"}
  /\ Failures \subseteq {"spawn", "register"}

\* In the order both threads take them down.
Held == <<"thread", "process", "pc", "stdin", "stdout", "addrlist">>
Handles == {Held[k] : k \in DOMAIN Held}

VARIABLES
  ctx,     \* the IOCP record; h: which of its handles are not NULL
  obj,     \* what the handles stand for in the kernel
  lpc,     \* L: idle or in a handler, and at which of Held
  wpc,     \* W: before, in or after onProcessExit, or never to run
  rpc,     \* R
  shell,
  net,     \* what the kernel holds for the socket
  past      \* history: what has happened that should not have

vars == <<ctx, obj, lpc, wpc, rpc, shell, net, past>>

Init ==
  /\ ctx = [mem |-> "live", state |-> "AfterHandShake", sent |-> FALSE, wait |-> FALSE,
            h |-> [x \in Handles |-> FALSE]]
  /\ obj = [x \in Handles |-> "none"]
  /\ lpc = [at |-> "spawn", k |-> 1]
  /\ wpc = [at |-> "none", k |-> 1, n |-> FALSE]
  /\ rpc = "none"
  /\ shell = "none"
  /\ net = [recv |-> "none", sends |-> 0, disconnect |-> FALSE]
  /\ past = {}

Idle == lpc.at = "idle"
Go(at, k) == lpc' = [at |-> at, k |-> k]

\* websocketWrite of a Close frame on sendOL; nothing is sent on a socket that is
\* being disconnected.
CloseFrame(n) == IF n.disconnect THEN n ELSE [n EXCEPT !.sends = @ + 1]

\* CloseClient: what is in flight comes back aborted and is passed over.
CloseClient ==
  /\ ctx' = [ctx EXCEPT !.state = "AfterDisconnect"]
  /\ net' = [recv |-> "none", sends |-> 0, disconnect |-> TRUE]

\* onProcessExit uses the record after it was freed; what it then reads is not
\* followed.
Touch == IF ctx.mem = "freed" THEN past \cup {"freed"} ELSE past

(***************************************************************************)
(* L: spawn, at the end of the handshake's send                            *)
(***************************************************************************)
\* The browser is told; what the pipes and the console got stays open.
SpawnFails ==
  /\ lpc = [at |-> "spawn", k |-> 1] /\ "spawn" \in Failures
  /\ ctx' = [ctx EXCEPT !.state = "WebSocketConnecting"]
  /\ net' = CloseFrame(net)
  /\ Go("idle", 1)
  /\ past' = past \cup {"spawn"}
  /\ UNCHANGED <<obj, wpc, rpc, shell>>

\* The pipes, the console, the shell, the thread that reads.
Create ==
  /\ lpc = [at |-> "spawn", k |-> 1]
  /\ ctx' = [ctx EXCEPT !.state = "WebSocketConnecting", !.h = [x \in Handles |-> x # "process"]]
  /\ obj' = [x \in Handles |-> "open"]
  /\ rpc' = "loop"
  /\ shell' = "running"
  /\ Go("spawn", 2)
  /\ UNCHANGED <<wpc, net, past>>

\* RegisterWaitForSingleObject.  When it fails the handle of the process is
\* closed, and kept.
Register ==
  /\ lpc = [at |-> "spawn", k |-> 2]
  /\ \/ /\ ctx' = [ctx EXCEPT !.wait = TRUE]
        /\ wpc' = [wpc EXCEPT !.at = "armed"]
        /\ UNCHANGED <<obj, past>>
     \/ /\ "register" \in Failures
        /\ obj' = [obj EXCEPT !["process"] = "closed"]
        /\ past' = past \cup {"register"}
        /\ UNCHANGED <<ctx, wpc>>
  /\ Go("spawn", 3)
  /\ UNCHANGED <<rpc, shell, net>>

\* hProcess is set; back in processIOCP the first frame's header is waited for.
Spawned ==
  /\ lpc = [at |-> "spawn", k |-> 3]
  /\ ctx' = [ctx EXCEPT !.h["process"] = TRUE]
  /\ net' = [net EXCEPT !.recv = "six"]
  /\ Go("idle", 1)
  /\ UNCHANGED <<obj, wpc, rpc, shell, past>>

(***************************************************************************)
(* Taking a handle down, by L or W                                         *)
(***************************************************************************)
\* The handle that was tested is the one that is closed, whatever the other
\* thread has done to it since.  CancelSynchronousIo ends R only while R is in
\* ReadFile.
ReleaseKeeps(x) ==      \* mutant: the handle stays in the record
  /\ obj' = [obj EXCEPT ![x] = "closed"]
  /\ past' = IF obj[x] = "closed" THEN past \cup {"twice"} ELSE past
  /\ rpc' = IF x = "thread" /\ rpc = "reading" THEN "ended" ELSE rpc
  /\ UNCHANGED ctx
Release(x) ==
  /\ ctx' = [ctx EXCEPT !.h[x] = FALSE]
  /\ obj' = [obj EXCEPT ![x] = "closed"]
  /\ past' = past \cup (IF obj[x] = "closed" THEN {"twice"} ELSE {}) \cup Touch
  /\ rpc' = IF x = "thread" /\ rpc = "reading" THEN "ended" ELSE rpc

Overlap == wpc.at \in {"test", "close"}

LTestShort ==           \* mutant: the last handle is passed over
  /\ lpc.at = "test"
  /\ IF lpc.k >= Len(Held)
     THEN /\ Go("idle", 1)
          /\ ctx' = [ctx EXCEPT !.state = "AfterSendHTML"]
          /\ net' = CloseFrame(net)
     ELSE /\ IF ctx.h[Held[lpc.k]] THEN Go("close", lpc.k) ELSE Go("test", lpc.k + 1)
          /\ UNCHANGED <<ctx, net>>
  /\ UNCHANGED <<obj, wpc, rpc, shell, past>>
LTest ==
  /\ lpc.at = "test"
  /\ IF lpc.k > Len(Held)
     THEN /\ Go("idle", 1)                  \* the Close frame is answered
          /\ ctx' = [ctx EXCEPT !.state = "AfterSendHTML"]
          /\ net' = CloseFrame(net)
     ELSE /\ IF ctx.h[Held[lpc.k]] THEN Go("close", lpc.k) ELSE Go("test", lpc.k + 1)
          /\ UNCHANGED <<ctx, net>>
  /\ UNCHANGED <<obj, wpc, rpc, shell, past>>

LClose ==
  /\ lpc.at = "close"
  /\ Release(Held[lpc.k])
  /\ Go("test", lpc.k + 1)
  /\ UNCHANGED <<wpc, shell, net>>

(***************************************************************************)
(* L: frames                                                               *)
(***************************************************************************)
\* Six bytes of a frame.  A frame without a payload is returned from with no
\* recv submitted.
Read6Complete(f) ==
  /\ Idle /\ net.recv = "six"
  /\ CASE f = "bad" -> CloseClient
       [] f = "empty" -> net' = [net EXCEPT !.recv = "none"] /\ UNCHANGED ctx
       [] OTHER -> net' = [net EXCEPT !.recv = f] /\ UNCHANGED ctx
  /\ past' = past \cup (CASE f = "empty" -> {"empty"} [] f = "bad" -> {"gone"} [] OTHER -> {})
  /\ UNCHANGED <<obj, lpc, wpc, rpc, shell>>

RecvText ==
  /\ Idle /\ net.recv = "data"
  /\ net' = [net EXCEPT !.recv = "six"]
  /\ UNCHANGED <<ctx, obj, lpc, wpc, rpc, shell, past>>

RecvControl ==
  /\ Idle /\ net.recv = "control"
  /\ CloseClient
  /\ past' = past \cup {"gone"}
  /\ UNCHANGED <<obj, lpc, wpc, rpc, shell>>

RecvCloseWaits ==       \* mutant: the wait stays registered
  /\ Idle /\ net.recv = "close"
  /\ IF ctx.sent
     THEN CloseClient /\ UNCHANGED <<lpc, past>>
     ELSE /\ net' = [net EXCEPT !.recv = "none"]
          /\ Go("test", 1)
          /\ past' = IF Overlap THEN past \cup {"overlap"} ELSE past
          /\ UNCHANGED ctx
  /\ UNCHANGED <<obj, wpc, rpc, shell>>

\* UnregisterWait calls an armed wait off; it does not wait for a callback that
\* has begun.
RecvClose ==
  /\ Idle /\ net.recv = "close"
  /\ IF ctx.sent
     THEN CloseClient /\ UNCHANGED <<lpc, wpc, past>>
     ELSE /\ ctx' = [ctx EXCEPT !.wait = FALSE]
          /\ wpc' = IF ctx.wait /\ wpc.at = "armed" THEN [wpc EXCEPT !.at = "off"] ELSE wpc
          /\ net' = [net EXCEPT !.recv = "none"]
          /\ Go("test", 1)
          /\ past' = IF Overlap THEN past \cup {"overlap"} ELSE past
  /\ UNCHANGED <<obj, rpc, shell>>

\* An empty recv, or the connection is aborted: the browser is gone without a
\* Close frame, as after a frame that the server does not take.
Gone ==
  /\ Idle /\ net.recv # "none"
  /\ CloseClient
  /\ past' = past \cup {"gone"}
  /\ UNCHANGED <<obj, lpc, wpc, rpc, shell>>

SendDone ==
  /\ Idle /\ net.sends > 0
  /\ IF ctx.state = "AfterSendHTML" THEN CloseClient
     ELSE net' = [net EXCEPT !.sends = @ - 1] /\ UNCHANGED ctx
  /\ UNCHANGED <<obj, lpc, wpc, rpc, shell, past>>

\* The end of the DisconnectEx: hProcess is closed, nothing else, and the record
\* is freed.
Free ==
  /\ Idle /\ net.disconnect /\ ctx.mem = "live"
  /\ ctx' = [ctx EXCEPT !.mem = "freed", !.h["process"] = FALSE]
  /\ obj' = IF ctx.h["process"] THEN [obj EXCEPT !["process"] = "closed"] ELSE obj
  /\ past' = past \cup (IF ctx.h["process"] /\ obj["process"] = "closed" THEN {"twice"} ELSE {})
                  \cup (IF Overlap THEN {"overlap"} ELSE {})
  /\ UNCHANGED <<lpc, wpc, rpc, shell, net>>

(***************************************************************************)
(* W: onProcessExit                                                        *)
(***************************************************************************)
WStart ==
  /\ wpc.at = "armed" /\ shell = "exited"
  /\ ctx' = [ctx EXCEPT !.wait = FALSE]
  /\ wpc' = IF ctx.mem = "freed" THEN [wpc EXCEPT !.at = "done"] ELSE [wpc EXCEPT !.at = "test"]
  /\ past' = Touch \cup (IF lpc.at = "spawn" THEN {"early"} ELSE {})
                   \cup (IF lpc.at \in {"test", "close"} THEN {"overlap"} ELSE {})
  /\ UNCHANGED <<obj, lpc, rpc, shell, net>>

\* n: an exit code was there to be told.
WTest ==
  /\ wpc.at = "test" /\ wpc.k <= Len(Held)
  /\ IF ctx.mem = "freed" THEN wpc' = [wpc EXCEPT !.at = "done"]
     ELSE IF ctx.h[Held[wpc.k]] THEN wpc' = [wpc EXCEPT !.at = "close"]
     ELSE wpc' = [wpc EXCEPT !.k = @ + 1]
  /\ past' = Touch
  /\ UNCHANGED <<ctx, obj, lpc, rpc, shell, net>>

WCloseUnread ==         \* mutant: the exit code is not asked for
  /\ wpc.at = "close"
  /\ Release(Held[wpc.k])
  /\ wpc' = [wpc EXCEPT !.at = "test", !.k = @ + 1]
  /\ UNCHANGED <<lpc, shell, net>>
WClose ==
  /\ wpc.at = "close"
  /\ Release(Held[wpc.k])
  /\ wpc' = [at |-> "test", k |-> wpc.k + 1, n |-> wpc.n \/ Held[wpc.k] = "process"]
  /\ UNCHANGED <<lpc, shell, net>>

\* The browser is sent a Close frame that says the exit code.
WTell ==
  /\ wpc.at = "test" /\ wpc.k > Len(Held)
  /\ wpc' = [wpc EXCEPT !.at = "done"]
  /\ IF wpc.n /\ ctx.mem = "live"
     THEN ctx' = [ctx EXCEPT !.sent = TRUE] /\ net' = CloseFrame(net)
     ELSE UNCHANGED <<ctx, net>>
  /\ past' = IF wpc.n THEN Touch ELSE past
  /\ UNCHANGED <<obj, lpc, rpc, shell>>

(***************************************************************************)
(* R: readLoop                                                             *)
(***************************************************************************)
\* hStdOut is read from the record; a handle that is NULL or closed fails.
RLoop ==
  /\ rpc = "loop"
  /\ rpc' = IF ctx.mem = "live" /\ ctx.h["stdout"] /\ obj["stdout"] = "open"
            THEN "reading" ELSE "ended"
  /\ UNCHANGED <<ctx, obj, lpc, wpc, shell, net, past>>

\* The console has output, or its end of the pipe is closed.
ROutput == rpc = "reading" /\ obj["pc"] = "open" /\ rpc' = "writing"
REnd == rpc = "reading" /\ obj["pc"] = "closed" /\ rpc' = "ended"

RWrite ==
  /\ rpc = "writing"
  /\ rpc' = "loop"
  /\ UNCHANGED <<ctx, obj, lpc, wpc, shell, net, past>>

\* The user's exit, or the console's end.
ShellExits == shell = "running" /\ shell' = "exited"

-----------------------------------------------------------------------------
LFrame == (\E f \in Frames : Read6Complete(f)) \/ RecvText \/ RecvControl \/ RecvClose \/ Gone
LOwn == Create \/ Register \/ Spawned \/ LTest \/ LClose \/ SendDone \/ Free
W == WStart \/ WTest \/ WClose \/ WTell
RData == (ROutput \/ REnd) /\ UNCHANGED <<ctx, obj, lpc, wpc, shell, net, past>>
R == RLoop \/ RWrite \/ (REnd /\ UNCHANGED <<ctx, obj, lpc, wpc, shell, net, past>>)
Exit == ShellExits /\ UNCHANGED <<ctx, obj, lpc, wpc, rpc, net, past>>

Next == SpawnFails \/ LOwn \/ LFrame \/ W \/ RLoop \/ RWrite \/ RData \/ Exit

Spec == Init /\ [][Next]_vars

\* The threads run and the kernel sends; browsers, users and output are free.  A
\* shell ends when its console is closed.
FairSpec ==
  /\ Spec
  /\ WF_vars(LOwn) /\ WF_vars(W) /\ WF_vars(R)
  /\ WF_vars(obj["pc"] = "closed" /\ Exit)

(***************************************************************************)
(* Properties                                                              *)
(***************************************************************************)
TypeOK ==
  /\ ctx \in [mem : {"live", "freed"}, sent : BOOLEAN, wait : BOOLEAN, h : [Handles -> BOOLEAN],
              state : {"AfterHandShake", "WebSocketConnecting", "AfterSendHTML", "AfterDisconnect"}]
  /\ obj \in [Handles -> {"none", "open", "closed"}]
  /\ lpc \in [at : {"spawn", "idle", "test", "close"}, k : 1..Len(Held) + 1]
  /\ wpc \in [at : {"none", "armed", "off", "test", "close", "done"}, k : 1..Len(Held) + 1, n : BOOLEAN]
  /\ rpc \in {"none", "loop", "reading", "writing", "ended"}
  /\ shell \in {"none", "running", "exited"}
  /\ net \in [recv : {"none", "six"} \cup Frames, sends : 0..2, disconnect : BOOLEAN]
  /\ past \subseteq {"spawn", "register", "empty", "gone", "early", "overlap", "twice", "freed"}

\* When the browser's Close frame is answered everything of the terminal has been
\* taken down, by L or by W, however the two came to share it.
CloseReleasesAll ==
  ctx.state = "AfterSendHTML" => \A x \in Handles : ~ctx.h[x] /\ obj[x] = "closed"

\* A terminal that is open goes on listening to its browser, unless the browser
\* sent an empty frame or got no shell.
ListensUnlessEmpty ==
  (Idle /\ ctx.state = "WebSocketConnecting" /\ past \cap {"spawn", "empty"} = {}) => net.recv # "none"

\* Whatever the two threads and the callback do, the session is served until it is
\* closed, and nothing of it is left then.
SessionWhole == TypeOK /\ CloseReleasesAll /\ ListensUnlessEmpty

\* Only when the shell ends while its terminal is being closed, or when its end
\* could not be waited for, is a handle closed twice.
TwiceOnlyOverlapping == "twice" \in past => past \cap {"overlap", "register"} # {}

\* A Close frame that is answered keeps onProcessExit from a freed record: only when
\* the connection ended in another way, or the callback ran already, does it use one.
CallbackKeptOff == "freed" \in past => past \cap {"gone", "overlap"} # {}

\* The browser is told that the shell has ended, unless the terminal is being
\* closed, the shell ended before spawn did, or its end could not be waited for.
ExitTold ==
  shell = "exited" ~> (\/ ctx.sent \/ ctx.state \in {"AfterSendHTML", "AfterDisconnect"}
                       \/ lpc.at \in {"test", "close"} \/ past \cap {"early", "register"} # {})
=============================================================================
