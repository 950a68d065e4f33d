---------------------------- MODULE TerminalInput ----------------------------
(***************************************************************************)
(* What a user types on its way to the shell, and back: onData, sendLarge  *)
(* and onresize of src/static/index.js, the frames between them and the    *)
(* Linux server, the states ss_ws_read6, ss_ws_read_data, ss_ws_read_pty   *)
(* and ss_ws_send_data of src/src/linux/server.c, and the pty.             *)
(*                                                                         *)
(* The browser counts characters, in units of UTF-16; frames and buffers   *)
(* count bytes; a frame is read in two pieces into one buffer, which its   *)
(* length says how to lay out.  The server's only thread writes to the pty *)
(* and waits until there is room.                                          *)
(***************************************************************************)
EXTENDS Integers, SequencesExt

CONSTANTS
  Events,         \* what a user may type or paste at once: kinds of characters
  buffer_max,     \* units of a frame                                      (1000)
  AmountMax,      \* bufferedAmountMax, bytes                             (10000)
  ShortMax,       \* the longest payload without an extended length         (125)
  BufferSize,     \* sizeof read_buffer                                    (1024)
  InRoom,         \* bytes the pty takes before it is read
  OutRoom,        \* answers it takes before they are read
  Echoes,         \* whether what runs in the terminal writes what it reads
  MaxEvents,      \* bound: events of a run
  MaxResizes      \* bound: changes of the window's size

Kinds == {"ascii", "nul", "wide", "pair"}

ASSUME InputAssumption ==
  /\ Events \subseteq Seq(Kinds) \ {<<>>}
  /\ {buffer_max, AmountMax, ShortMax, BufferSize, InRoom, OutRoom} \subseteq Nat \ {0}
  /\ buffer_max + 8 <= BufferSize /\ ShortMax + 8 <= BufferSize /\ ShortMax >= 5
  /\ {MaxEvents, MaxResizes} \subseteq Nat
  /\ Echoes \in BOOLEAN

VARIABLES
  typed,    \* history: what has been typed
  sizes,    \* history: how often the window has changed its size
  hole,     \* history: what has been lost or spoilt, and why
  out,      \* frames given to ws.send, in the browser
  wire,     \* frames on their way
  srv,      \* ss_ws_read6, ss_ws_read_data, "write" while write() waits, closed
  rest,     \* what write() still has to write
  tty,      \* bytes in the pty, not yet read
  got,      \* history: bytes the shell has read
  shell,    \* reading, or writing what it has read
  outq,     \* answers in the pty
  ws,       \* the other my_client: its read, what that brought, its send
  winsize   \* what TIOCSWINSZ set

input == <<typed, sizes, hole, out>>
output == <<outq, ws>>
vars == <<input, wire, srv, rest, tty, got, shell, output, winsize>>

(***************************************************************************)
(* Characters, bytes, frames                                               *)
(***************************************************************************)
\* A byte: the i-th of character `of', or of the resize -of; 0 is NUL.  by: the mask
\* byte it is masked with, or 4.
Byte(of, i) == [of |-> of, i |-> i, by |-> 4]
Garbage == Byte(0, 9)
IsNul(b) == b.i = 0

\* The units of UTF-16: a pair is two.
Unit(of, i) == [of |-> of, i |-> i]
Units(kinds, first) ==
  FlattenSeq([n \in DOMAIN kinds |->
    LET id == first + n - 1
    IN  IF kinds[n] = "pair" THEN <<Unit(id, 1), Unit(id, 2)>> ELSE <<Unit(id, 0)>>])

\* The bytes of UTF-8.
Utf8(id, kind) ==
  CASE kind = "ascii" -> <<Byte(id, 1)>>
    [] kind = "nul" -> <<Byte(id, 0)>>
    [] kind = "wide" -> <<Byte(id, 1), Byte(id, 2)>>
    [] kind = "pair" -> [i \in 1..4 |-> Byte(id, i)]

\* What unit n of some becomes: half a pair, U+FFFD.
Encoded(units, kinds, first, n) ==
  LET id == units[n].of
      kind == kinds[id - first + 1]
      whole(k) == {k, k + 1} \subseteq DOMAIN units /\ units[k].of = units[k + 1].of
  IN  IF kind # "pair" \/ whole(n) THEN Utf8(id, kind)
      ELSE IF whole(n - 1) THEN <<>>
      ELSE <<Garbage, Garbage, Garbage>>

Bytes(units, kinds, first) ==
  FlattenSeq([n \in DOMAIN units |-> Encoded(units, kinds, first, n)])

\* What should arrive.
Chars == FlattenSeq(typed)
Meant == FlattenSeq([n \in DOMAIN Chars |-> Utf8(n, Chars[n])])

\* A frame on the wire: opcode and length, the extended length, the mask, the
\* payload.
Masked(payload) == [n \in DOMAIN payload |-> [payload[n] EXCEPT !.by = (n - 1) % 4]]
Mask == [k \in 1..4 |-> Byte(0, 10 + k - 1)]
Wire(payload) ==
  <<Garbage, Garbage>> \o (IF Len(payload) > ShortMax THEN <<Garbage, Garbage>> ELSE <<>>)
    \o Mask \o Masked(payload)

Unmask(b, mask) == IF mask = Byte(0, 10 + b.by) THEN [b EXCEPT !.by = 4] ELSE Garbage

Amount(frames) == FoldLeft(LAMBDA n, f : n + Len(f), 0, frames)

(***************************************************************************)
(* The browser                                                             *)
(***************************************************************************)
\* sendLarge cuts the data every buffer_max units, wherever that is.
Slices(units) ==
  [k \in 1..((Len(units) + buffer_max - 1) \div buffer_max) |->
     SubSeq(units, (k - 1) * buffer_max + 1, IF k * buffer_max < Len(units) THEN k * buffer_max ELSE Len(units))]

\* It sends until bufferedAmount is too much, and then asks to be called again, with
\* no argument: the rest is lost.
Sendable(frames) ==
  {k \in DOMAIN frames : \A j \in 1..k : Amount(out) + Amount(SubSeq(frames, 1, j - 1)) <= AmountMax}

OnData(e) ==
  /\ Len(typed) < MaxEvents
  /\ typed' = Append(typed, e)
  /\ LET first == Len(Chars) + 1
         slices == Slices(Units(e, first))
         frames == [k \in DOMAIN slices |-> Bytes(slices[k], e, first)]
         sent == IF Len(frames) = 1 THEN frames ELSE SubSeq(frames, 1, Cardinality(Sendable(frames)))
     IN  /\ out' = IF srv = "closed" THEN out ELSE out \o sent
         /\ hole' = hole \cup (IF sent # frames THEN {"late"} ELSE {})
                         \cup (IF \E k \in DOMAIN sent : Garbage \in Range(sent[k]) THEN {"cut"} ELSE {})
  /\ UNCHANGED <<sizes, wire, srv, rest, tty, got, shell, output, winsize>>

\* Five bytes, the first of them 0.
Resize(n) == [i \in 1..5 |-> Byte(-n, i - 1)]

OnResize ==
  /\ sizes < MaxResizes
  /\ sizes' = sizes + 1
  /\ out' = IF srv = "closed" THEN out ELSE Append(out, Resize(sizes'))
  /\ UNCHANGED <<typed, hole, wire, srv, rest, tty, got, shell, output, winsize>>

Flush ==
  /\ out # <<>> /\ srv # "closed"
  /\ out' = Tail(out)
  /\ wire' = Append(wire, Head(out))
  /\ UNCHANGED <<typed, sizes, hole, srv, rest, tty, got, shell, output, winsize>>

(***************************************************************************)
(* The server                                                              *)
(***************************************************************************)
\* Where the first six bytes go, and where the rest is received: for a short frame
\* the mask is moved to the front and the payload follows it; for a longer one half
\* of the mask is still to come.
Short(payload) == Len(payload) <= ShortMax
Offset(payload) == IF Short(payload) THEN 0 ELSE 2
Moved(payload, at) ==
  LET w == Wire(payload) IN IF Short(payload) THEN w[at + 3] ELSE w[at + 5]
\* Mutant: the rest is received behind the whole mask.
PrecvBehind(payload) == 4
Precv(payload) == IF Short(payload) THEN 4 ELSE 2

\* read_buffer when the frame has been received.
Received(payload) ==
  LET precv == Precv(payload)
  IN  [at \in 0..BufferSize - 1 |->
         IF at \in precv..(precv + Len(payload) + Offset(payload) - 1)
         THEN Wire(payload)[at - precv + 7]
         ELSE IF at < 4 /\ at < precv THEN Moved(payload, at) ELSE Garbage]

Decoded(payload) ==
  LET data == Received(payload)
  IN  [n \in DOMAIN payload |-> Unmask(data[n + 3], data[(n - 1) % 4])]

\* Mutant: room is kept for the longest header there is.
TooLongFull(payload) == Len(payload) + 8 + 6 > BufferSize

\* The buffer has to hold the payload behind what was read before it.  (A 64-bit
\* length is misread, and always too long; index.js sends none.)
TooLong(payload) == Len(payload) + Offset(payload) + 6 > BufferSize

Read6 ==
  /\ srv = "ss_ws_read6" /\ wire # <<>>
  /\ IF TooLong(Head(wire))
     THEN srv' = "closed" /\ hole' = hole \cup {"refused"} /\ wire' = <<>> /\ out' = <<>>
     ELSE srv' = "ss_ws_read_data" /\ UNCHANGED <<hole, wire, out>>
  /\ UNCHANGED <<typed, sizes, rest, tty, got, shell, output, winsize>>

\* A payload of five bytes that starts with 0 is a size.
IsResize(p) == IsNul(p[1]) /\ Len(p) = 5

ReadData ==
  /\ srv = "ss_ws_read_data"
  /\ wire' = Tail(wire)
  /\ LET p == Decoded(Head(wire))
     IN  IF IsResize(p)
         THEN /\ winsize' = p[2].of
              /\ hole' = IF p[2].of < 0 THEN hole ELSE hole \cup {"size"}
              /\ srv' = "ss_ws_read6"
              /\ UNCHANGED rest
         ELSE rest' = p /\ srv' = "write" /\ UNCHANGED <<hole, winsize>>
  /\ UNCHANGED <<typed, sizes, out, tty, got, shell, output>>

\* write() gives the pty what it has room for, and returns when it has given all.
Write ==
  /\ srv = "write"
  /\ Len(tty) < InRoom
  /\ LET n == Min({Len(rest), InRoom - Len(tty)})
     IN  tty' = tty \o SubSeq(rest, 1, n) /\ rest' = SubSeq(rest, n + 1, Len(rest))
  /\ srv' = IF rest' = <<>> THEN "ss_ws_read6" ELSE "write"
  /\ UNCHANGED <<input, wire, got, shell, output, winsize>>

\* The read of the output is completed by the kernel; what comes of it waits for the
\* thread.
Output ==
  /\ ws = "read" /\ outq > 0
  /\ ws' = "ready" /\ outq' = 0
  /\ UNCHANGED <<input, wire, srv, rest, tty, got, shell, winsize>>

\* Mutant: the next read is forgotten.
RelayOnce ==
  /\ ws = "ready" /\ srv # "write"
  /\ ws' = "sent"
  /\ UNCHANGED <<input, wire, srv, rest, tty, got, shell, outq, winsize>>

\* writev, its completion, and the next read.
Relay ==
  /\ ws = "ready" /\ srv # "write"
  /\ ws' = "read"
  /\ UNCHANGED <<input, wire, srv, rest, tty, got, shell, outq, winsize>>

(***************************************************************************)
(* The shell, or what runs in it                                           *)
(***************************************************************************)
ShellReads ==
  /\ shell = "reading" /\ tty # <<>>
  /\ got' = got \o tty
  /\ tty' = <<>>
  /\ shell' = IF Echoes THEN "writing" ELSE "reading"
  /\ UNCHANGED <<input, wire, srv, rest, output, winsize>>

ShellWrites ==
  /\ shell = "writing" /\ outq < OutRoom
  /\ outq' = outq + 1
  /\ shell' = "reading"
  /\ UNCHANGED <<input, wire, srv, rest, tty, got, ws, winsize>>

-----------------------------------------------------------------------------
Init ==
  /\ typed = <<>> /\ sizes = 0 /\ hole = {}
  /\ out = <<>> /\ wire = <<>>
  /\ srv = "ss_ws_read6" /\ rest = <<>>
  /\ tty = <<>> /\ got = <<>> /\ shell = "reading"
  /\ outq = 0 /\ ws = "read"
  /\ winsize = 0

Server == Read6 \/ ReadData \/ Write
Shell == ShellReads \/ ShellWrites
Next == (\E e \in Events : OnData(e)) \/ OnResize \/ Flush \/ Server \/ Output \/ Relay \/ Shell

Spec == Init /\ [][Next]_vars

\* The network moves, the server's thread runs unless it waits in write(), and what
\* runs in the terminal reads, and writes when there is room.
FairSpec ==
  /\ Spec
  /\ WF_vars(Flush) /\ WF_vars(Server) /\ WF_vars(Output) /\ WF_vars(Relay) /\ WF_vars(Shell)

(***************************************************************************)
(* Properties                                                              *)
(***************************************************************************)
TypeOK ==
  /\ typed \in Seq(Events) /\ Len(typed) <= MaxEvents
  /\ sizes \in 0..MaxResizes
  /\ hole \subseteq {"late", "cut", "refused", "size"}
  /\ srv \in {"ss_ws_read6", "ss_ws_read_data", "write", "closed"}
  /\ srv = "write" <=> rest # <<>>
  /\ Len(tty) <= InRoom /\ outq \in 0..OutRoom
  /\ shell \in {"reading", "writing"} /\ ws \in {"read", "ready"}
  /\ winsize \in -MaxResizes..Len(Chars)

\* The bytes of the user's, wherever they are.
Frames == wire \o out
IsInput(f) == f[1].of >= 0
InputOf(frames) == FlattenSeq([k \in DOMAIN frames |-> IF IsInput(frames[k]) THEN frames[k] ELSE <<>>])
OnTheirWay == got \o tty \o rest \o InputOf(Frames)

\* Until something has been lost in one of the ways of `hole', all that was typed is
\* with the shell or on its way, once, in order, byte for byte.
NothingLost == hole = {} => OnTheirWay = Meant

\* Whatever is lost, what arrives is in order, and is what was typed or a
\* replacement of a character that was cut.
Before(a, b) == a.of < b.of \/ (a.of = b.of /\ a.i < b.i)
InOrder ==
  \A j, k \in DOMAIN OnTheirWay :
    j < k /\ Garbage \notin {OnTheirWay[j], OnTheirWay[k]} => Before(OnTheirWay[j], OnTheirWay[k])

\* What is typed arrives whole, or in order where something is missing.
InputKept == TypeOK /\ NothingLost /\ InOrder

\* Only input with characters of more than a byte can be too long for the server:
\* as long as there is none, the terminal stays open.
AsciiAccepted == "refused" \in hole => \E n \in DOMAIN Chars : Chars[n] \in {"wide", "pair"}

\* The whole server waits while write() does.  It goes on, unless what runs in the
\* terminal waits itself until its output is read.
Stuck == srv = "write" /\ Len(tty) = InRoom /\ shell = "writing" /\ outq = OutRoom /\ ws = "ready"
WriteReturns == srv = "write" ~> srv # "write" \/ Stuck

\* The terminal gets the size the window has in the end, unless input was taken for
\* a size or the server is gone.
SizeFollows ==
  (winsize # -sizes) ~> (winsize = -sizes \/ hole \cap {"refused", "size"} # {} \/ Stuck)

\* All that is typed is read in the end, or it is known why not.
AllRead == (got # Meant) ~> (got = Meant \/ hole # {} \/ Stuck)

\* What is typed, and the size of the window, get to the terminal.
AllArrives == AllRead /\ SizeFollows
=============================================================================
