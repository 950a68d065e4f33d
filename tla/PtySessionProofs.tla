--------------------------- MODULE PtySessionProofs ---------------------------
(***************************************************************************)
(* Safety of PtySession, checked by TLAPS: for any kinds of frames and any *)
(* failures of spawn, however the loop, the reader and the exit callback   *)
(* interleave.                                                             *)
(***************************************************************************)
EXTENDS PtySession, TLAPS

Contexts ==
  [mem : {"live", "freed"}, sent : BOOLEAN, wait : BOOLEAN, h : [Handles -> BOOLEAN],
   state : {"AfterHandShake", "WebSocketConnecting", "AfterSendHTML", "AfterDisconnect"}]
Sockets == [recv : {"none", "six"} \cup Frames, sends : 0..2, disconnect : BOOLEAN]
LPlaces == [at : {"spawn", "idle", "test", "close"}, k : 1..7]
WPlaces == [at : {"none", "armed", "off", "test", "close", "done"}, k : 1..7, n : BOOLEAN]
Flags == {"spawn", "register", "empty", "gone", "early", "overlap", "twice", "freed"}

Types ==
  /\ ctx \in Contexts /\ obj \in [Handles -> {"none", "open", "closed"}]
  /\ lpc \in LPlaces /\ wpc \in WPlaces
  /\ rpc \in {"none", "loop", "reading", "writing", "ended"}
  /\ shell \in {"none", "running", "exited"}
  /\ net \in Sockets /\ past \subseteq Flags

\* L is taking the terminal down.
Closing == lpc.at \in {"test", "close"}

\* The callback will not run, or has run to its end.
Quiet == wpc.at \in {"none", "off", "done"}

\* Where L is says what the record and the socket are doing.
Stages ==
  /\ lpc.at = "spawn" => /\ lpc.k \in 1..3 /\ net.recv = "none"
                         /\ ctx.state = IF lpc.k = 1 THEN "AfterHandShake"
                                        ELSE "WebSocketConnecting"
  /\ lpc.at = "spawn" /\ lpc.k < 3 => wpc.at = "none" /\ past = {}
  /\ lpc.at = "spawn" => past \subseteq {"early", "register"}
  /\ Closing => ctx.state = "WebSocketConnecting" /\ net.recv = "none"
  /\ lpc.at = "close" => lpc.k <= 6
  /\ ctx.state = "AfterSendHTML" => Idle /\ net.recv = "none"
  /\ ctx.state = "AfterHandShake" => lpc.at = "spawn"
  /\ net.disconnect <=> ctx.state = "AfterDisconnect"
  /\ net.disconnect => Idle /\ net.recv = "none" /\ net.sends = 0
  /\ ctx.mem = "freed" => net.disconnect
  /\ "spawn" \in past => /\ Idle /\ wpc.at = "none" /\ net.recv = "none"
                         /\ ctx.state = "WebSocketConnecting"

\* The callback, and the Close frames it and L may have sent.
Callback ==
  /\ wpc.at = "armed" => ctx.wait
  /\ wpc.at = "close" => wpc.k <= 6
  /\ ctx.sent => wpc.at = "done"
  /\ "register" \in past => wpc.at = "none"
  /\ net.sends <= (IF ctx.sent THEN 1 ELSE 0)
                    + (IF ctx.state = "AfterSendHTML" \/ "spawn" \in past THEN 1 ELSE 0)

\* A handle that is not in the record has been closed; L leaves none behind it.
Taken ==
  /\ lpc.at = "spawn" /\ lpc.k > 1 =>
       ~ctx.h["process"] /\ ("register" \notin past => obj["process"] = "open")
  /\ "spawn" \notin past /\ ctx.state # "AfterHandShake" =>
       \A x \in Handles : ctx.h[x] \/ obj[x] = "closed" \/ (x = "process" /\ lpc.at = "spawn")
  /\ Closing => \A k \in 1..6 : k < lpc.k => ~ctx.h[Held[k]]
  /\ ctx.state = "AfterSendHTML" => \A x \in Handles : ~ctx.h[x]

\* The callback does not run beside or behind a teardown, unless the two overlap
\* or the connection ended without one.
Apart ==
  "overlap" \notin past =>
     /\ Closing \/ ctx.state = "AfterSendHTML" => Quiet
     /\ net.disconnect /\ "gone" \notin past => Quiet

\* While they are apart, the handle a thread is about to close is open and held.
Once ==
  past \cap {"overlap", "register"} = {} =>
     /\ "twice" \notin past
     /\ \A x \in Handles : ctx.h[x] => obj[x] = "open"
     /\ lpc.at = "close" => ctx.h[Held[lpc.k]]
     /\ wpc.at = "close" => ctx.h[Held[wpc.k]]

\* SessionWhole and TwiceOnlyOverlapping are not inductive: what a thread tested
\* before the other ran, and who may still run, is what the parts above add.
IInv == /\ TypeOK /\ Stages /\ Callback /\ Taken /\ ListensUnlessEmpty
        /\ Apart /\ Once /\ CallbackKeptOff

LEMMA HeldLemma ==
  /\ Len(Held) = 6 /\ DOMAIN Held = 1..6
  /\ \A k \in 1..6 : Held[k] \in Handles
  /\ \A x \in Handles : \E k \in 1..6 : x = Held[k]
  /\ {"thread", "process", "pc", "stdin", "stdout"} \subseteq Handles
<1>1. Len(Held) = 6 /\ DOMAIN Held = 1..6
  BY DEF Held
<1>2. /\ Held[1] = "thread" /\ Held[2] = "process" /\ Held[3] = "pc"
      /\ Held[4] = "stdin" /\ Held[5] = "stdout"
  BY DEF Held
<1> QED
  BY <1>1, <1>2 DEF Handles

\* TypeOK, with a name for each of its sets.
LEMMA TypesLemma ==
  /\ TypeOK <=> Types
  /\ TypeOK' <=> Types'
BY HeldLemma DEF TypeOK, Types, Contexts, Sockets, LPlaces, WPlaces, Flags

LEMMA CloseTypes ==
  ASSUME Types, CloseClient
  PROVE  ctx' \in Contexts /\ net' \in Sockets
BY DEF Types, CloseClient, Contexts, Sockets

(***************************************************************************)
(* One lemma per action: each part of the invariant that it disturbs.      *)
(***************************************************************************)
LEMMA SpawnFailsStep ==
  ASSUME IInv, SpawnFails
  PROVE  IInv'
<1>1. Stages' /\ Taken' /\ ListensUnlessEmpty' /\ Apart' /\ Once' /\ CallbackKeptOff'
  BY DEF IInv, Stages, Closing, Idle, Taken, ListensUnlessEmpty, Apart, Quiet, Once,
     CallbackKeptOff, SpawnFails, Go, CloseFrame
<1>2. Callback'
  BY DEF IInv, Callback, TypeOK, Stages, Closing, Idle, SpawnFails, Go, CloseFrame
<1>3. TypeOK'
  BY DEF IInv, TypeOK, Stages, Closing, Idle, Callback, SpawnFails, Go, CloseFrame
<1> QED
  BY <1>1, <1>2, <1>3 DEF IInv

LEMMA CreateStep ==
  ASSUME IInv, Create
  PROVE  IInv'
<1>1. TypeOK'
  <2>1. Types
    BY TypesLemma DEF IInv
  <2>2. ctx' \in Contexts
    BY <2>1 DEF Types, Create, Contexts
  <2>3. obj' \in [Handles -> {"none", "open", "closed"}]
    BY DEF Create
  <2>4. lpc' \in LPlaces
    BY DEF Create, Go, LPlaces
  <2> QED
    BY <2>1, <2>2, <2>3, <2>4, TypesLemma DEF Types, Create
<1>2. Stages' /\ ListensUnlessEmpty' /\ Apart' /\ CallbackKeptOff'
  BY DEF IInv, Stages, Closing, Idle, ListensUnlessEmpty, Apart, Quiet, CallbackKeptOff, Create,
     Go
<1>3. Callback' /\ Once'
  BY DEF IInv, Callback, Once, Stages, Closing, Idle, Create, Go
<1>4. Taken'
  BY HeldLemma DEF IInv, Taken, Closing, TypeOK, Stages, Idle, Create, Go
<1> QED
  BY <1>1, <1>2, <1>3, <1>4 DEF IInv

LEMMA RegisterStep ==
  ASSUME IInv, Register
  PROVE  IInv'
<1>1. TypeOK'
  <2>1. Types
    BY TypesLemma DEF IInv
  <2>2. ctx' \in Contexts
    <3>1. [ctx EXCEPT !.wait = TRUE] \in Contexts
      BY <2>1 DEF Types, Contexts
    <3> QED
      BY <2>1, <3>1 DEF Types, Register
  <2>3. obj' \in [Handles -> {"none", "open", "closed"}]
    BY <2>1 DEF Types, Register
  <2>4. lpc' \in LPlaces /\ wpc' \in WPlaces
    BY <2>1 DEF Types, Register, Go, LPlaces, WPlaces
  <2>5. past' \subseteq Flags
    BY <2>1 DEF Types, Register, Flags
  <2> QED
    BY <2>1, <2>2, <2>3, <2>4, <2>5, TypesLemma DEF Types, Register
<1>2. ListensUnlessEmpty' /\ CallbackKeptOff'
  BY DEF IInv, ListensUnlessEmpty, Idle, CallbackKeptOff, Register, Go
<1>3. Stages' /\ Taken'
  <2>1. Stages'
    BY DEF IInv, Stages, Closing, Idle, TypeOK, Register, Go
  <2>2. Taken'
    BY DEF IInv, Stages, Closing, Idle, Taken, TypeOK, Register, Go
  <2> QED
    BY <2>1, <2>2
<1>4. Callback' /\ Apart'
  BY DEF IInv, Callback, Apart, Closing, Quiet, TypeOK, Stages, Idle, Register, Go
<1>5. Once'
  BY HeldLemma DEF IInv, Once, TypeOK, Stages, Closing, Idle, Register, Go
<1> QED
  BY <1>1, <1>2, <1>3, <1>4, <1>5 DEF IInv

LEMMA SpawnedStep ==
  ASSUME IInv, Spawned
  PROVE  IInv'
<1>1. TypeOK'
  <2>1. Types
    BY TypesLemma DEF IInv
  <2>2. ctx' \in Contexts
    BY <2>1, HeldLemma DEF Types, Spawned, Contexts
  <2>3. net' \in Sockets
    BY <2>1 DEF Types, Spawned, Sockets
  <2>4. lpc' \in LPlaces
    BY DEF Spawned, Go, LPlaces
  <2> QED
    BY <2>1, <2>2, <2>3, <2>4, TypesLemma DEF Types, Spawned
<1>2. Stages' /\ Callback' /\ ListensUnlessEmpty' /\ Apart' /\ CallbackKeptOff'
  BY DEF IInv, Stages, Closing, Idle, Callback, ListensUnlessEmpty, Apart, Quiet,
     CallbackKeptOff, Spawned, Go
<1>3. Taken'
  BY DEF IInv, Taken, Closing, TypeOK, Stages, Idle, Spawned, Go
<1>4. Once'
  BY HeldLemma DEF IInv, Once, TypeOK, Stages, Closing, Idle, Callback, Taken, Spawned, Go
<1> QED
  BY <1>1, <1>2, <1>3, <1>4 DEF IInv

LEMMA LTestStep ==
  ASSUME IInv, LTest
  PROVE  IInv'
<1>1. Apart' /\ CallbackKeptOff'
  BY DEF IInv, Apart, Closing, Quiet, CallbackKeptOff, LTest, Go, CloseFrame
<1>2. ListensUnlessEmpty' /\ Once'
  BY DEF IInv, ListensUnlessEmpty, Idle, Once, TypeOK, LTest, Go, CloseFrame
<1>3. Callback'
  BY DEF IInv, Callback, TypeOK, Stages, Closing, Idle, LTest, Go, CloseFrame
<1>4. Stages'
  BY HeldLemma DEF IInv, Stages, Closing, Idle, TypeOK, LTest, Go, CloseFrame
<1>5. Taken'
  BY HeldLemma DEF IInv, Taken, Closing, TypeOK, Stages, Idle, LTest, Go, CloseFrame
<1>6. TypeOK'
  BY DEF IInv, TypeOK, Stages, Closing, Idle, Callback, LTest, Go, CloseFrame
<1> QED
  BY <1>1, <1>2, <1>3, <1>4, <1>5, <1>6 DEF IInv

LEMMA LCloseStep ==
  ASSUME IInv, LClose
  PROVE  IInv'
<1>1. TypeOK'
  <2>1. Types
    BY TypesLemma DEF IInv
  <2>2. ctx' \in Contexts
    BY <2>1 DEF Types, LClose, Release, Contexts
  <2>3. obj' \in [Handles -> {"none", "open", "closed"}]
    BY <2>1 DEF Types, LClose, Release
  <2>4. lpc' \in LPlaces
    BY <2>1 DEF Types, IInv, Stages, LClose, Go, LPlaces
  <2>5. past' \subseteq Flags
    BY <2>1 DEF Types, LClose, Release, Touch, Flags
  <2> QED
    BY <2>1, <2>2, <2>3, <2>4, <2>5, TypesLemma DEF Types, LClose, Release
<1>2. Stages' /\ Callback' /\ ListensUnlessEmpty' /\ Apart'
  BY DEF IInv, Stages, Closing, Idle, Callback, ListensUnlessEmpty, Apart, Quiet, LClose, Go,
     Release, Touch
<1>3. CallbackKeptOff'
  BY DEF IInv, CallbackKeptOff, Stages, Closing, Idle, LClose, Go, Release, Touch
<1>4. Taken'
  BY HeldLemma DEF IInv, Taken, Closing, TypeOK, Stages, Idle, LClose, Go, Release, Touch
<1>5. Once'
  BY HeldLemma, PtyAssumption DEF IInv, Once, TypeOK, Stages, Closing, Idle, Callback, Taken,
     ListensUnlessEmpty, Apart, Quiet, CallbackKeptOff, LClose, Go, Release, Touch
<1> QED
  BY <1>1, <1>2, <1>3, <1>4, <1>5 DEF IInv

LEMMA Read6CompleteStep ==
  ASSUME IInv, NEW f \in Frames, Read6Complete(f)
  PROVE  IInv'
<1>1. TypeOK'
  <2>1. Types
    BY TypesLemma DEF IInv
  <2>2. ctx' \in Contexts /\ net' \in Sockets
    <3>1. CASE f = "bad"
      BY <2>1, <3>1, CloseTypes DEF Read6Complete
    <3>2. CASE f # "bad"
      BY <2>1, <3>2 DEF Types, Read6Complete, Sockets
    <3> QED
      BY <3>1, <3>2
  <2>3. past' \subseteq Flags
    BY <2>1 DEF Types, Read6Complete, Flags
  <2> QED
    BY <2>1, <2>2, <2>3, TypesLemma DEF Types, Read6Complete
<1>2. CallbackKeptOff'
  BY DEF IInv, CallbackKeptOff, Read6Complete, CloseClient, Idle
<1>3. Stages' /\ Callback' /\ Apart' /\ Once'
  BY DEF IInv, Stages, Closing, Idle, Callback, Apart, Quiet, Once, TypeOK, Read6Complete,
     CloseClient
<1>4. Taken'
  BY DEF IInv, Taken, Closing, TypeOK, Stages, Idle, Read6Complete, CloseClient
<1>5. ListensUnlessEmpty'
  BY HeldLemma, PtyAssumption DEF IInv, ListensUnlessEmpty, Idle, TypeOK, Stages, Closing,
     Callback, Taken, Apart, Quiet, Once, CallbackKeptOff, Read6Complete, CloseClient
<1> QED
  BY <1>1, <1>2, <1>3, <1>4, <1>5 DEF IInv

LEMMA RecvTextStep ==
  ASSUME IInv, RecvText
  PROVE  IInv'
<1>1. /\ TypeOK' /\ Stages' /\ Callback' /\ Taken' /\ ListensUnlessEmpty'
      /\ Apart' /\ Once' /\ CallbackKeptOff'
  BY DEF IInv, TypeOK, Stages, Closing, Idle, Callback, Taken, ListensUnlessEmpty, Apart, Quiet,
     Once, CallbackKeptOff, RecvText
<1> QED
  BY <1>1 DEF IInv

LEMMA RecvControlStep ==
  ASSUME IInv, RecvControl
  PROVE  IInv'
<1>1. TypeOK' /\ Stages' /\ Callback' /\ ListensUnlessEmpty' /\ Apart' /\ Once' /\ CallbackKeptOff'
  BY DEF IInv, TypeOK, Stages, Closing, Idle, Callback, ListensUnlessEmpty, Apart, Quiet, Once,
     CallbackKeptOff, RecvControl, CloseClient
<1>2. Taken'
  BY DEF IInv, Taken, Closing, Stages, Idle, RecvControl, CloseClient
<1> QED
  BY <1>1, <1>2 DEF IInv

LEMMA RecvCloseStep ==
  ASSUME IInv, RecvClose
  PROVE  IInv'
<1>1. TypeOK'
  <2>1. Types
    BY TypesLemma DEF IInv
  <2>2. ctx' \in Contexts /\ net' \in Sockets
    <3>1. CASE ctx.sent
      BY <2>1, <3>1, CloseTypes DEF RecvClose
    <3>2. CASE ~ctx.sent
      <4>1. ctx' \in Contexts
        BY <2>1, <3>2 DEF Types, RecvClose, Contexts
      <4>2. net' \in Sockets
        BY <2>1, <3>2 DEF Types, RecvClose, Sockets
      <4> QED
        BY <4>1, <4>2
    <3> QED
      BY <3>1, <3>2
  <2>3. lpc' \in LPlaces /\ wpc' \in WPlaces
    BY <2>1 DEF Types, RecvClose, Go, LPlaces, WPlaces
  <2>4. past' \subseteq Flags
    BY <2>1 DEF Types, RecvClose, Flags
  <2> QED
    BY <2>1, <2>2, <2>3, <2>4, TypesLemma DEF Types, RecvClose
<1>2. CallbackKeptOff'
  BY DEF IInv, CallbackKeptOff, RecvClose, Go, CloseClient, Overlap, Idle
<1>3. Stages' /\ Callback' /\ ListensUnlessEmpty' /\ Once'
  BY DEF IInv, Stages, Closing, Idle, Callback, ListensUnlessEmpty, Once, TypeOK, RecvClose, Go,
     CloseClient, Overlap
<1>4. Taken'
  BY DEF IInv, Taken, Closing, TypeOK, Stages, Idle, RecvClose, Go, CloseClient, Overlap
<1>5. Apart'
  BY DEF IInv, Apart, Closing, Quiet, TypeOK, Stages, Idle, Callback, RecvClose, Go,
     CloseClient, Overlap
<1> QED
  BY <1>1, <1>2, <1>3, <1>4, <1>5 DEF IInv

LEMMA GoneStep ==
  ASSUME IInv, Gone
  PROVE  IInv'
<1>1. TypeOK' /\ Stages' /\ Callback' /\ ListensUnlessEmpty' /\ Apart' /\ Once' /\ CallbackKeptOff'
  BY DEF IInv, TypeOK, Stages, Closing, Idle, Callback, ListensUnlessEmpty, Apart, Quiet, Once,
     CallbackKeptOff, Gone, CloseClient
<1>2. Taken'
  BY DEF IInv, Taken, Closing, Stages, Idle, Gone, CloseClient
<1> QED
  BY <1>1, <1>2 DEF IInv

LEMMA SendDoneStep ==
  ASSUME IInv, SendDone
  PROVE  IInv'
<1>1. TypeOK'
  <2>1. Types
    BY TypesLemma DEF IInv
  <2>2. ctx' \in Contexts /\ net' \in Sockets
    <3>1. CASE ctx.state = "AfterSendHTML"
      BY <2>1, <3>1, CloseTypes DEF SendDone
    <3>2. CASE ctx.state # "AfterSendHTML"
      <4>1. net' \in Sockets
        BY <2>1, <3>2 DEF Types, SendDone, Sockets
      <4> QED
        BY <2>1, <3>2, <4>1 DEF Types, SendDone
    <3> QED
      BY <3>1, <3>2
  <2> QED
    BY <2>1, <2>2, TypesLemma DEF Types, SendDone
<1>2. CallbackKeptOff'
  BY DEF IInv, CallbackKeptOff, SendDone, CloseClient, Idle
<1>3. Stages' /\ Callback' /\ Taken' /\ ListensUnlessEmpty' /\ Apart' /\ Once'
  BY DEF IInv, Stages, Closing, Idle, Callback, Taken, ListensUnlessEmpty, Apart, Quiet, Once,
     TypeOK, SendDone, CloseClient
<1> QED
  BY <1>1, <1>2, <1>3 DEF IInv

LEMMA FreeStep ==
  ASSUME IInv, Free
  PROVE  IInv'
<1>1. TypeOK'
  BY DEF IInv, TypeOK, Free, Overlap, Idle
<1>2. Stages'
  BY DEF IInv, Stages, Closing, Idle, Free, Overlap
<1>3. Callback'
  BY DEF IInv, Callback, Free, Overlap, Idle
<1>4. ListensUnlessEmpty'
  BY DEF IInv, ListensUnlessEmpty, Idle, Free, Overlap
<1>5. Apart'
  BY DEF IInv, Apart, Closing, Quiet, Free, Overlap, Idle
<1>6. CallbackKeptOff'
  BY DEF IInv, CallbackKeptOff, Free, Overlap, Idle
<1>7. Taken'
  BY DEF IInv, Taken, Closing, TypeOK, Free, Overlap, Idle
<1>8. Once'
  BY HeldLemma DEF IInv, Once, TypeOK, Stages, Closing, Idle, Free, Overlap
<1> QED
  BY <1>1, <1>2, <1>3, <1>4, <1>5, <1>6, <1>7, <1>8 DEF IInv

LEMMA WStartStep ==
  ASSUME IInv, WStart
  PROVE  IInv'
<1>1. TypeOK'
  BY DEF IInv, TypeOK, WStart, Touch
<1>2. Stages'
  BY DEF IInv, Stages, Closing, Idle, WStart, Touch
<1>3. Callback'
  BY DEF IInv, Callback, WStart, Touch
<1>4. Taken'
  BY DEF IInv, Taken, Closing, WStart, Touch
<1>5. ListensUnlessEmpty'
  BY DEF IInv, ListensUnlessEmpty, Idle, WStart, Touch
<1>6. Apart'
  BY DEF IInv, Apart, Closing, Quiet, WStart, Touch
<1>7. Once'
  BY DEF IInv, Once, WStart, Touch
<1>8. CallbackKeptOff'
  BY DEF IInv, CallbackKeptOff, TypeOK, Stages, Closing, Idle, Apart, Quiet, WStart, Touch
<1> QED
  BY <1>1, <1>2, <1>3, <1>4, <1>5, <1>6, <1>7, <1>8 DEF IInv

LEMMA WTestStep ==
  ASSUME IInv, WTest
  PROVE  IInv'
<1>1. TypeOK' /\ Stages' /\ Taken' /\ ListensUnlessEmpty' /\ Apart'
  BY DEF IInv, TypeOK, Stages, Closing, Idle, Taken, ListensUnlessEmpty, Apart, Quiet, WTest,
     Touch
<1>2. Once'
  BY DEF IInv, Once, TypeOK, WTest, Touch
<1>3. Callback'
  BY HeldLemma DEF IInv, Callback, TypeOK, Stages, Closing, Idle, WTest, Touch
<1>4. CallbackKeptOff'
  BY DEF IInv, CallbackKeptOff, TypeOK, Stages, Closing, Idle, Apart, Quiet, WTest, Touch
<1> QED
  BY <1>1, <1>2, <1>3, <1>4 DEF IInv

LEMMA WCloseStep ==
  ASSUME IInv, WClose
  PROVE  IInv'
<1>1. TypeOK'
  <2>1. Types
    BY TypesLemma DEF IInv
  <2>2. ctx' \in Contexts
    BY <2>1 DEF Types, WClose, Release, Contexts
  <2>3. obj' \in [Handles -> {"none", "open", "closed"}]
    BY <2>1 DEF Types, WClose, Release
  <2>4. wpc' \in WPlaces
    BY <2>1 DEF Types, IInv, Callback, WClose, WPlaces
  <2>5. past' \subseteq Flags
    BY <2>1 DEF Types, WClose, Release, Touch, Flags
  <2> QED
    BY <2>1, <2>2, <2>3, <2>4, <2>5, TypesLemma DEF Types, WClose, Release
<1>2. Stages'
  <2>1. lpc.at = "spawn" => past' \subseteq {"early", "register"}
    BY HeldLemma DEF IInv, TypeOK, Stages, Callback, Once, WClose, Release, Touch
  <2> QED
    BY <2>1 DEF IInv, TypeOK, Stages, Closing, Idle, WClose, Release, Touch
<1>3. Callback' /\ ListensUnlessEmpty' /\ Apart'
  BY DEF IInv, Callback, ListensUnlessEmpty, Idle, Apart, Closing, Quiet, WClose, Release, Touch
<1>4. CallbackKeptOff'
  BY DEF IInv, CallbackKeptOff, TypeOK, Stages, Closing, Idle, Apart, Quiet, WClose, Release,
     Touch
<1>5. Taken'
  BY HeldLemma DEF IInv, Taken, Closing, TypeOK, Stages, Idle, Callback, Once, WClose, Release,
     Touch
<1>6. Once'
  BY HeldLemma, PtyAssumption DEF IInv, Once, TypeOK, Stages, Closing, Idle, Callback, Taken,
     ListensUnlessEmpty, Apart, Quiet, CallbackKeptOff, WClose, Release, Touch
<1> QED
  BY <1>1, <1>2, <1>3, <1>4, <1>5, <1>6 DEF IInv

LEMMA WTellStep ==
  ASSUME IInv, WTell
  PROVE  IInv'
<1>1. TypeOK'
  <2>1. Types
    BY TypesLemma DEF IInv
  <2>2. ctx' \in Contexts /\ net' \in Sockets
    <3>1. CASE wpc.n /\ ctx.mem = "live"
      <4>1. ctx' \in Contexts
        BY <2>1, <3>1 DEF Types, WTell, Contexts
      <4>2. net' \in Sockets
        BY <2>1, <3>1 DEF Types, IInv, Callback, WTell, CloseFrame, Sockets
      <4> QED
        BY <4>1, <4>2
    <3>2. CASE ~(wpc.n /\ ctx.mem = "live")
      BY <2>1, <3>2 DEF Types, WTell
    <3> QED
      BY <3>1, <3>2
  <2>3. wpc' \in WPlaces
    BY <2>1 DEF Types, WTell, WPlaces
  <2>4. past' \subseteq Flags
    BY <2>1 DEF Types, WTell, Touch, Flags
  <2> QED
    BY <2>1, <2>2, <2>3, <2>4, TypesLemma DEF Types, WTell
<1>2. Apart'
  BY DEF IInv, Apart, Closing, Quiet, WTell, CloseFrame, Touch
<1>3. Stages'
  BY DEF IInv, Stages, Closing, Idle, TypeOK, WTell, CloseFrame, Touch
<1>4. Callback'
  BY DEF IInv, Callback, TypeOK, WTell, CloseFrame, Touch
<1>5. Taken'
  BY DEF IInv, Taken, Closing, TypeOK, WTell, CloseFrame, Touch
<1>6. ListensUnlessEmpty'
  BY DEF IInv, ListensUnlessEmpty, Idle, TypeOK, WTell, CloseFrame, Touch
<1>7. Once'
  BY DEF IInv, Once, TypeOK, WTell, CloseFrame, Touch
<1>8. CallbackKeptOff'
  BY DEF IInv, CallbackKeptOff, TypeOK, Stages, Closing, Idle, Apart, Quiet, WTell, CloseFrame,
     Touch
<1> QED
  BY <1>1, <1>2, <1>3, <1>4, <1>5, <1>6, <1>7, <1>8 DEF IInv

LEMMA InitIInv ==
  Init => IInv
BY HeldLemma DEF Init, IInv, TypeOK, Stages, Callback, Taken, ListensUnlessEmpty, Apart, Once,
   CallbackKeptOff, Closing, Quiet, Idle

\* R and the shell keep to themselves.
LEMMA ReaderStep ==
  ASSUME IInv, RLoop \/ RWrite \/ RData \/ Exit
  PROVE  IInv'
<1>1. TypeOK'
  BY DEF IInv, TypeOK, RLoop, RWrite, RData, ROutput, REnd, Exit, ShellExits
<1>2. UNCHANGED <<ctx, obj, lpc, wpc, net, past>>
  BY DEF RLoop, RWrite, RData, Exit
<1> QED
  BY <1>1, <1>2 DEF IInv, Stages, Callback, Taken, ListensUnlessEmpty, Apart, Once,
     CallbackKeptOff, Closing, Quiet, Idle

LEMMA NextIInv ==
  IInv /\ [Next]_vars => IInv'
<1> SUFFICES ASSUME IInv, [Next]_vars PROVE IInv'
  OBVIOUS
<1>1. CASE LOwn
  BY <1>1, CreateStep, RegisterStep, SpawnedStep, LTestStep, LCloseStep, SendDoneStep, FreeStep
     DEF LOwn
<1>2. CASE LFrame
  BY <1>2, Read6CompleteStep, RecvTextStep, RecvControlStep, RecvCloseStep, GoneStep DEF LFrame
<1>3. CASE W
  BY <1>3, WStartStep, WTestStep, WCloseStep, WTellStep DEF W
<1>4. CASE UNCHANGED vars
  BY <1>4 DEF vars, IInv, TypeOK, Stages, Callback, Taken, ListensUnlessEmpty, Apart, Once,
     CallbackKeptOff, Closing, Quiet, Idle
<1> QED
  BY <1>1, <1>2, <1>3, <1>4, SpawnFailsStep, ReaderStep DEF Next

LEMMA Invariance ==
  Spec => []IInv
BY InitIInv, NextIInv, PTL DEF Spec

(***************************************************************************)
(* What the invariant says of the program.                                 *)
(***************************************************************************)
\* The session listens to its browser until it is closed, and when the Close frame
\* is answered every handle of the terminal has been closed, by L or by W.
THEOREM SessionStaysWhole == Spec => []SessionWhole
<1>1. IInv => SessionWhole
  BY DEF IInv, SessionWhole, Stages, Taken, CloseReleasesAll
<1> QED
  BY <1>1, Invariance, PTL

\* A handle is closed twice only if the shell's end overlaps a teardown, or could
\* not be waited for.
THEOREM TwiceWhenOverlapping == Spec => []TwiceOnlyOverlapping
<1>1. IInv => TwiceOnlyOverlapping
  BY DEF IInv, Once, TwiceOnlyOverlapping
<1> QED
  BY <1>1, Invariance, PTL

\* onProcessExit uses a freed record only after a connection that ended without a
\* Close frame, or beside a teardown.
THEOREM CallbackStaysOff == Spec => []CallbackKeptOff
<1>1. IInv => CallbackKeptOff
  BY DEF IInv
<1> QED
  BY <1>1, Invariance, PTL
=============================================================================
