--------------------------- MODULE IocpServerProofs ---------------------------
(***************************************************************************)
(* Safety of IocpServer, checked by TLAPS: for any records, paths, files   *)
(* and bounds.  The first part holds whatever browsers send and however    *)
(* operations fail; the second for the requests the server is written for  *)
(* (ServedToTheEnd).                                                       *)
(***************************************************************************)
EXTENDS IocpServer, SequenceTheorems, FiniteSetTheorems, TLAPS

(***************************************************************************)
(* What the kernel holds for a record.                                     *)
(***************************************************************************)
\* At most one disconnect is in flight, and only when the socket is being
\* disconnected; then nothing else is for the socket.
Orderly(ops, gone) ==
  /\ ops \in Seq(Ops)
  /\ \A i, j \in DOMAIN ops : ops[i] = "disconnect" /\ ops[j] = "disconnect" => i = j
  /\ \A i \in DOMAIN ops : ops[i] \in (IF gone THEN Ops \ {"accept", "recv", "send"}
                                               ELSE Ops \ {"accept", "disconnect"})

\* The elements that are left when one is taken out, and where they were.
LEMMA RemoveAtLemma ==
  ASSUME NEW s \in Seq(Ops), NEW i \in DOMAIN s
  PROVE  /\ RemoveAt(s, i) \in Seq(Ops)
         /\ Len(RemoveAt(s, i)) = Len(s) - 1
         /\ DOMAIN RemoveAt(s, i) = 1..Len(s) - 1
         /\ \A k \in 1..Len(s) - 1 : RemoveAt(s, i)[k] = s[IF k < i THEN k ELSE k + 1]
<1>1. i \in 1..Len(s) /\ Len(s) \in Nat
  BY LenProperties
<1> DEFINE a == SubSeq(s, 1, i - 1)
           b == SubSeq(s, i + 1, Len(s))
<1>2. a \in Seq(Ops) /\ Len(a) = i - 1 /\ \A k \in 1..i - 1 : a[k] = s[k]
  BY <1>1, SubSeqProperties
<1>3. b \in Seq(Ops) /\ Len(b) = Len(s) - i /\ \A k \in 1..Len(s) - i : b[k] = s[i + k]
  BY <1>1, SubSeqProperties
<1>4. RemoveAt(s, i) = a \o b
  BY DEF RemoveAt
<1> HIDE DEF a, b
<1>5. /\ a \o b \in Seq(Ops) /\ Len(a \o b) = Len(s) - 1
      /\ \A k \in 1..Len(s) - 1 : (a \o b)[k] = IF k <= i - 1 THEN a[k] ELSE b[k - (i - 1)]
  BY <1>1, <1>2, <1>3, ConcatProperties
<1>6. DOMAIN (a \o b) = 1..Len(s) - 1
  BY <1>5, LenProperties
<1>7. ASSUME NEW k \in 1..Len(s) - 1
      PROVE  (a \o b)[k] = s[IF k < i THEN k ELSE k + 1]
  <2>1. CASE k < i
    <3>1. k \in 1..i - 1
      BY <1>1, <2>1
    <3> QED
      BY <1>1, <1>2, <1>5, <2>1, <3>1
  <2>2. CASE ~(k < i)
    <3>1. k - (i - 1) \in 1..Len(s) - i /\ i + (k - (i - 1)) = k + 1
      BY <1>1, <2>2
    <3>2. (a \o b)[k] = b[k - (i - 1)]
      BY <1>1, <1>5, <2>2
    <3>3. b[k - (i - 1)] = s[k + 1]
      BY <1>3, <3>1
    <3> QED
      BY <2>2, <3>2, <3>3
  <2> QED
    BY <1>1, <2>1, <2>2
<1> QED
  BY <1>4, <1>5, <1>6, <1>7

\* Taking one out leaves the rest orderly; without the disconnect if it was that.
LEMMA OrderlyRemove ==
  ASSUME NEW ops, NEW gone \in BOOLEAN, Orderly(ops, gone), NEW i \in DOMAIN ops
  PROVE  /\ Orderly(RemoveAt(ops, i), gone)
         /\ ops[i] = "disconnect" \/ "disconnect" \notin Range(ops)
              => "disconnect" \notin Range(RemoveAt(ops, i))
<1> DEFINE q == RemoveAt(ops, i)
           at(k) == IF k < i THEN k ELSE k + 1
<1>1. ops \in Seq(Ops)
  BY DEF Orderly
<1>2. Len(ops) \in Nat /\ DOMAIN ops = 1..Len(ops)
  BY <1>1, LenProperties
<1>3. /\ q \in Seq(Ops) /\ DOMAIN q = 1..Len(ops) - 1
      /\ \A k \in 1..Len(ops) - 1 : q[k] = ops[at(k)]
  BY <1>1, RemoveAtLemma
<1> HIDE DEF q
<1>4. \A k \in DOMAIN q : at(k) \in DOMAIN ops /\ at(k) # i
  BY <1>2, <1>3
<1>5. \A k, l \in DOMAIN q : at(k) = at(l) => k = l
  BY <1>2, <1>3
<1> HIDE DEF at
<1>6. Orderly(q, gone)
  BY <1>3, <1>4, <1>5 DEF Orderly
<1>7. ops[i] = "disconnect" \/ "disconnect" \notin Range(ops) => "disconnect" \notin Range(q)
  BY <1>3, <1>4 DEF Orderly, Range
<1> QED
  BY <1>6, <1>7 DEF q

LEMMA OrderlyAppend ==
  ASSUME NEW ops, NEW gone \in BOOLEAN, Orderly(ops, gone), NEW op \in Ops,
         op \in {"read", "write"} \/ (~gone /\ op \in {"recv", "send"})
  PROVE  Orderly(Append(ops, op), gone)
<1>1. ops \in Seq(Ops)
  BY DEF Orderly
<1>2. Len(ops) \in Nat /\ DOMAIN ops = 1..Len(ops)
  BY <1>1, LenProperties
<1>3. /\ Append(ops, op) \in Seq(Ops) /\ Len(Append(ops, op)) = Len(ops) + 1
      /\ \A k \in 1..Len(ops) : Append(ops, op)[k] = ops[k]
      /\ Append(ops, op)[Len(ops) + 1] = op
  BY <1>1, AppendProperties
<1>4. DOMAIN Append(ops, op) = 1..Len(ops) + 1
  BY <1>3, LenProperties
<1> DEFINE q == Append(ops, op)
<1>5. ASSUME NEW k \in DOMAIN q
      PROVE  \/ k \in DOMAIN ops /\ q[k] = ops[k]
             \/ k = Len(ops) + 1 /\ q[k] = op
  <2>1. k \in 1..Len(ops) \/ k = Len(ops) + 1
    BY <1>2, <1>4
  <2> QED
    BY <1>2, <1>3, <2>1
<1> HIDE DEF q
<1>6. q \in Seq(Ops) /\ op # "disconnect" /\ op # "accept"
  BY <1>3 DEF q
<1>7. Orderly(q, gone)
  BY <1>5, <1>6 DEF Orderly
<1> QED
  BY <1>7 DEF q

\* CancelIoEx leaves nothing of the socket's; DisconnectEx may follow.
LEMMA OrderlyCancelled ==
  ASSUME NEW ops \in Seq(Ops), NEW gone \in BOOLEAN
  PROVE  /\ Orderly(Cancelled(ops), gone)
         /\ Orderly(Append(Cancelled(ops), "disconnect"), TRUE)
<1>1. Len(ops) \in Nat /\ DOMAIN ops = 1..Len(ops) /\ \A k \in DOMAIN ops : ops[k] \in Ops
  BY LenProperties
<1> DEFINE q == Cancelled(ops)
<1>2. /\ DOMAIN q = 1..Len(ops)
      /\ \A k \in 1..Len(ops) : q[k] = IF ops[k] \in SocketOps THEN "aborted" ELSE ops[k]
  BY <1>1 DEF Cancelled
<1>3. q \in [1..Len(ops) -> Ops]
  BY <1>1 DEF Cancelled, Ops
<1>4. q \in Seq(Ops) /\ Len(q) = Len(ops)
  BY <1>1, <1>2, <1>3, SeqDef, LenProperties
<1> HIDE DEF q
<1>5. \A k \in DOMAIN q : q[k] \in Ops \ SocketOps
  BY <1>1, <1>2 DEF Ops, SocketOps
<1>6. Orderly(q, gone)
  BY <1>4, <1>5 DEF Orderly, SocketOps
<1> DEFINE d == Append(q, "disconnect")
<1>7. /\ d \in Seq(Ops) /\ Len(d) = Len(ops) + 1
      /\ \A k \in 1..Len(ops) : d[k] = q[k]
      /\ d[Len(ops) + 1] = "disconnect"
  BY <1>4, AppendProperties DEF Ops, SocketOps
<1>8. DOMAIN d = 1..Len(ops) + 1
  BY <1>7, LenProperties
<1> HIDE DEF d
<1>9. \A k \in DOMAIN d : d[k] \in Ops \ SocketOps \/ (k = Len(ops) + 1 /\ d[k] = "disconnect")
  BY <1>1, <1>2, <1>5, <1>7, <1>8
<1>10. Orderly(d, TRUE)
  BY <1>7, <1>9 DEF Orderly, SocketOps, Ops
<1> QED
  BY <1>6, <1>10 DEF q, d

(***************************************************************************)
(* What the handlers' building blocks do to a record.                      *)
(***************************************************************************)
\* A record a handler has in hand.
Kernel(o) == o \in Record /\ o.mem = "live" /\ Orderly(o.ops, o.gone)

\* What the first part asks of a handler's state when it returns.
Staged(o) ==
  /\ o.state = "AfterDisconnect" => o.gone
  /\ o.state \in {"ReadStaticFile", "SendPartFile"} => o.left > 0

Handled(o) == Kernel(o) /\ Staged(o)

\* p is o with other operations.
Alike(o, p) ==
  /\ p.mem = o.mem /\ p.state = o.state /\ p.gone = o.gone
  /\ p.left = o.left /\ p.body = o.body /\ p.file = o.file

LEMMA WithOps ==
  ASSUME NEW o \in Record, NEW q \in Seq(Ops)
  PROVE  /\ [o EXCEPT !.ops = q] \in Record /\ [o EXCEPT !.ops = q].ops = q
         /\ Alike(o, [o EXCEPT !.ops = q])
BY DEF Record, Alike

LEMMA TakeLemma ==
  ASSUME NEW o \in Record, Orderly(o.ops, o.gone), NEW i \in DOMAIN o.ops
  PROVE  /\ Take(o, i) \in Record /\ Alike(o, Take(o, i))
         /\ Orderly(Take(o, i).ops, o.gone)
         /\ o.ops[i] = "disconnect" \/ "disconnect" \notin Range(o.ops)
              => "disconnect" \notin Range(Take(o, i).ops)
<1>1. o.gone \in BOOLEAN
  BY DEF Record
<1>2. /\ Orderly(RemoveAt(o.ops, i), o.gone)
      /\ o.ops[i] = "disconnect" \/ "disconnect" \notin Range(o.ops)
           => "disconnect" \notin Range(RemoveAt(o.ops, i))
  BY <1>1, OrderlyRemove
<1>3. RemoveAt(o.ops, i) \in Seq(Ops)
  BY <1>2 DEF Orderly
<1> QED
  BY <1>2, <1>3, WithOps DEF Take

LEMMA AppendLemma ==
  ASSUME NEW o, Kernel(o), NEW op \in Ops,
         op \in {"read", "write"} \/ (~o.gone /\ op \in {"recv", "send"})
  PROVE  /\ Kernel([o EXCEPT !.ops = Append(@, op)])
         /\ Alike(o, [o EXCEPT !.ops = Append(@, op)])
<1>1. o \in Record /\ o.gone \in BOOLEAN
  BY DEF Kernel, Record
<1>2. Orderly(Append(o.ops, op), o.gone)
  BY <1>1, OrderlyAppend DEF Kernel
<1> DEFINE p == [o EXCEPT !.ops = Append(@, op)]
<1>3. p \in Record /\ p.ops = Append(o.ops, op) /\ Alike(o, p)
  BY <1>1, <1>2, WithOps DEF Orderly
<1> HIDE DEF p
<1>4. Kernel(p)
  BY <1>2, <1>3 DEF Kernel, Alike
<1> QED
  BY <1>3, <1>4 DEF p

LEMMA SubmitLemma ==
  ASSUME NEW o, Kernel(o), NEW op \in {"recv", "send"}
  PROVE  Kernel(Submit(o, op)) /\ Alike(o, Submit(o, op))
<1>1. CASE o.gone
  BY <1>1 DEF Submit, Alike
<1>2. CASE ~o.gone
  BY <1>2, AppendLemma DEF Submit, Ops, SocketOps
<1> QED
  BY <1>1, <1>2

\* The operations decide; the other fields may be what they may be.
LEMMA KernelKept ==
  ASSUME NEW o, Kernel(o), NEW p \in Record,
         p.mem = o.mem, p.ops = o.ops, p.gone = o.gone
  PROVE  Kernel(p)
BY DEF Kernel

LEMMA AnswerLemma ==
  ASSUME NEW o, Kernel(o), NEW st \in States, NEW said \in {"nothing", "keep-alive", "close"}
  PROVE  /\ Kernel(Answer(o, st, said)) /\ Answer(o, st, said).state = st
         /\ Answer(o, st, said).left = o.left /\ Answer(o, st, said).gone = o.gone
<1> DEFINE q == Submit(o, "send")
<1>1. Kernel(q) /\ Alike(o, q)
  BY SubmitLemma
<1> HIDE DEF q
<1> DEFINE p == [q EXCEPT !.state = st, !.said = said]
<1>2. /\ p \in Record /\ p.mem = q.mem /\ p.ops = q.ops /\ p.gone = q.gone
      /\ p.state = st /\ p.left = q.left
  <2>1. q \in Record
    BY <1>1 DEF Kernel
  <2>2. p \in Record
    BY <2>1, Zenon DEF Record
  <2>3. p.mem = q.mem /\ p.ops = q.ops /\ p.gone = q.gone /\ p.state = st /\ p.left = q.left
    BY <2>1, Zenon DEF Record
  <2> QED
    BY <2>2, <2>3
<1> HIDE DEF p
<1>3. Kernel(p)
  BY <1>1, <1>2, KernelKept
<1> QED
  BY <1>1, <1>2, <1>3 DEF Answer, Alike, p, q

LEMMA CloseLemma ==
  ASSUME NEW o, Kernel(o)
  PROVE  Handled(CloseClient(o))
<1> DEFINE q == Cancelled(o.ops)
           d == Append(q, "disconnect")
           p1 == [o EXCEPT !.state = "AfterDisconnect", !.ops = q, !.gone = TRUE,
                           !.failed = @ \cup {"disconnect"}]
           p2 == [o EXCEPT !.state = "AfterDisconnect", !.ops = d, !.gone = TRUE]
<1>1. o \in Record /\ o.ops \in Seq(Ops) /\ o.mem = "live"
  BY DEF Kernel, Record
<1>2. Orderly(q, TRUE) /\ Orderly(d, TRUE)
  BY <1>1, OrderlyCancelled
<1>3. CloseClient(o) = IF o.gone THEN p1 ELSE p2
  BY <1>1 DEF CloseClient, Record
<1>4. q \in Seq(Ops) /\ d \in Seq(Ops)
  BY <1>2 DEF Orderly
<1> HIDE DEF q, d
<1>5. /\ p1 \in Record /\ p1.mem = "live" /\ p1.ops = q /\ p1.gone
      /\ p1.state = "AfterDisconnect"
  BY <1>1, <1>4 DEF Record, States, Failures
<1>6. /\ p2 \in Record /\ p2.mem = "live" /\ p2.ops = d /\ p2.gone
      /\ p2.state = "AfterDisconnect"
  BY <1>1, <1>4 DEF Record, States
<1> HIDE DEF p1, p2
<1>7. p1.gone = TRUE /\ p2.gone = TRUE
  BY <1>5, <1>6 DEF Record
<1>8. Handled(p1) /\ Handled(p2)
  BY <1>2, <1>5, <1>6, <1>7 DEF Handled, Kernel, Staged
<1> QED
  BY <1>3, <1>8

\* A handle opened or closed, and another state.
LEMMA FileLemma ==
  ASSUME NEW o, Kernel(o)
  PROVE  /\ Kernel(OpenFile(o)) /\ OpenFile(o).file /\ OpenFile(o).ops = o.ops
         /\ OpenFile(o).state = o.state /\ OpenFile(o).left = o.left
         /\ OpenFile(o).body = o.body /\ OpenFile(o).gone = o.gone
         /\ Kernel(CloseFile(o)) /\ CloseFile(o).state = o.state
         /\ CloseFile(o).left = o.left /\ CloseFile(o).body = o.body
         /\ CloseFile(o).ops = o.ops /\ CloseFile(o).gone = o.gone
<1>1. o \in Record
  BY DEF Kernel
<1> DEFINE n == o.handles + 1
           m == o.handles - 1
<1>2. n \in Int /\ m \in Int
  BY <1>1 DEF Record
<1>3. /\ OpenFile(o) = [o EXCEPT !.file = TRUE, !.handles = n]
      /\ CloseFile(o) = IF o.file THEN [o EXCEPT !.file = FALSE, !.handles = m] ELSE o
  BY <1>1 DEF OpenFile, CloseFile, Record
<1> HIDE DEF n, m
<1>4. /\ OpenFile(o) \in Record /\ OpenFile(o).mem = o.mem /\ OpenFile(o).ops = o.ops
      /\ OpenFile(o).gone = o.gone /\ OpenFile(o).file /\ OpenFile(o).state = o.state
      /\ OpenFile(o).left = o.left /\ OpenFile(o).body = o.body
  <2> DEFINE v == [o EXCEPT !.file = TRUE, !.handles = n]
  <2>1. v \in Record
    BY <1>1, <1>2, Zenon DEF Record
  <2>2. /\ v.mem = o.mem /\ v.ops = o.ops /\ v.gone = o.gone /\ v.file
        /\ v.state = o.state /\ v.left = o.left /\ v.body = o.body
    BY <1>1, Zenon DEF Record
  <2> HIDE DEF v
  <2> QED
    BY <1>3, <2>1, <2>2 DEF v
<1>5. /\ CloseFile(o) \in Record /\ CloseFile(o).mem = o.mem /\ CloseFile(o).ops = o.ops
      /\ CloseFile(o).gone = o.gone /\ CloseFile(o).state = o.state
      /\ CloseFile(o).left = o.left /\ CloseFile(o).body = o.body
  <2>1. CASE o.file
    <3> DEFINE v == [o EXCEPT !.file = FALSE, !.handles = m]
    <3>1. CloseFile(o) = v
      BY <1>3, <2>1
    <3>2. v \in Record
      BY <1>1, <1>2, Zenon DEF Record
    <3>3. /\ v.mem = o.mem /\ v.ops = o.ops /\ v.gone = o.gone
          /\ v.state = o.state /\ v.left = o.left /\ v.body = o.body
      BY <1>1, Zenon DEF Record
    <3> HIDE DEF v
    <3> QED
      BY <3>1, <3>2, <3>3
  <2>2. CASE ~o.file
    BY <1>1, <1>3, <2>2
  <2> QED
    BY <2>1, <2>2
<1>6. Kernel(OpenFile(o))
  BY <1>4, KernelKept
<1>7. Kernel(CloseFile(o))
  BY <1>5, KernelKept
<1> QED
  BY <1>4, <1>5, <1>6, <1>7

LEMMA StateLemma ==
  ASSUME NEW o, Kernel(o), NEW st \in States
  PROVE  /\ Kernel([o EXCEPT !.state = st]) /\ [o EXCEPT !.state = st].state = st
         /\ [o EXCEPT !.state = st].left = o.left /\ [o EXCEPT !.state = st].body = o.body
         /\ [o EXCEPT !.state = st].file = o.file /\ [o EXCEPT !.state = st].gone = o.gone
<1> DEFINE p == [o EXCEPT !.state = st]
<1>1. /\ p \in Record /\ p.mem = o.mem /\ p.ops = o.ops /\ p.gone = o.gone
      /\ p.state = st /\ p.left = o.left /\ p.body = o.body /\ p.file = o.file
  BY DEF Kernel, Record
<1> HIDE DEF p
<1>2. Kernel(p)
  BY <1>1, KernelKept
<1> QED
  BY <1>1, <1>2 DEF p

LEMMA OnBodyLemma ==
  ASSUME NEW o, Kernel(o), NEW n \in Nat, n <= o.body
  PROVE  Handled(OnBody(o, n))
<1>1. CASE o.file
  <2> DEFINE q == [o EXCEPT !.ops = Append(@, "write")]
             m == o.body - n
             p == [q EXCEPT !.state = "PostWritePartFile", !.body = m]
  <2>1. Kernel(q)
    BY AppendLemma DEF Ops
  <2>2. m \in Nat
    BY DEF Kernel, Record
  <2>3. OnBody(o, n) = p
    BY <1>1 DEF OnBody, Kernel, Record
  <2> HIDE DEF m, q
  <2>4. p \in Record /\ p.mem = q.mem /\ p.ops = q.ops /\ p.gone = q.gone
    <3>1. q \in Record /\ "PostWritePartFile" \in States
      BY <2>1 DEF Kernel, States
    <3>2. p \in Record
      BY <2>2, <3>1, Zenon DEF Record
    <3>3. p.mem = q.mem /\ p.ops = q.ops /\ p.gone = q.gone
      BY <3>1, Zenon DEF Record
    <3> QED
      BY <3>2, <3>3
  <2>5. p.state = "PostWritePartFile"
    BY <2>1 DEF Kernel, Record
  <2> HIDE DEF p
  <2>6. Kernel(p)
    BY <2>1, <2>4, KernelKept
  <2> QED
    BY <2>3, <2>5, <2>6 DEF Handled, Staged
<1>2. CASE ~o.file
  BY <1>2, CloseLemma DEF OnBody
<1> QED
  BY <1>1, <1>2

(***************************************************************************)
(* processRequest                                                          *)
(***************************************************************************)
\* What processRequest may be given: of no more of a body than was announced.
Parsable(r) == r \in InputType /\ r.here <= r.body

LEMMA InputsParsable ==
  \A r \in Inputs : Parsable(r)
BY IocpAssumption DEF Parsable

LEMMA NothingParsable ==
  Parsable(Nothing)
BY DEF Parsable, Nothing, InputType, Methods

LEMMA MisreadParsable ==
  ASSUME NEW r \in Inputs, NEW m \in Misread(r)
  PROVE  Parsable(m)
<1>1. Parsable(r) /\ r \in InputType /\ r.here <= r.body /\ r.body \in 0..2 /\ r.here \in 0..2
  BY InputsParsable DEF Parsable, InputType
<1>2. CASE m = r
  BY <1>1, <1>2
<1>3. CASE m = [r EXCEPT !.verdict = "partial", !.body = 0, !.here = 0]
  <2> DEFINE few == 0..2
  <2>3. 0 \in few
    OBVIOUS
  <2>1. m \in InputType
    <3> HIDE DEF few
    <3> QED
      BY <1>1, <1>3, <2>3, Zenon DEF InputType, few
  <2>2. m.body = 0 /\ m.here = 0
    BY <1>1, <1>3 DEF InputType
  <2> QED
    BY <2>1, <2>2 DEF Parsable
<1>4. CASE \E n \in 0..r.body : m = [r EXCEPT !.here = n]
  <2>1. PICK n \in 0..r.body : m = [r EXCEPT !.here = n]
    BY <1>4
  <2>2. n \in 0..2 /\ n <= r.body
    BY <1>1
  <2> QED
    BY <1>1, <2>1, <2>2 DEF Parsable, InputType
<1>5. CASE m = [r EXCEPT !.verdict = "error"]
  BY <1>1, <1>5 DEF Parsable, InputType
<1> QED
  BY <1>2, <1>3, <1>4, <1>5 DEF Misread

LEMMA ParsedLemma ==
  ASSUME NEW o, Kernel(o), NEW r, Parsable(r)
  PROVE  /\ Kernel(Parsed(o, r)) /\ Parsed(o, r).state = o.state
         /\ Parsed(o, r).left = o.left /\ Parsed(o, r).gone = o.gone
         /\ Parsed(o, r).body = r.body
<1>1. o \in Record /\ r \in InputType
  BY DEF Kernel, Parsable
<1> DEFINE n == o.count + 1
           url == IF r.path = Root THEN o.url ELSE r.path
           keep == IF o.first /\ Whole(r) THEN r.keep ELSE o.keep
           first == o.first /\ ~Whole(r)
           p == [o EXCEPT !.count = n, !.asked = r.path, !.url = url, !.body = r.body,
                          !.keep = keep, !.first = first]
<1>2. /\ n \in Nat /\ url \in Paths \cup {NULL} /\ keep \in BOOLEAN /\ first \in BOOLEAN
      /\ r.path \in Paths \cup {NULL, Root} /\ r.body \in Nat
  BY <1>1 DEF Record, InputType, Whole
<1>3. Parsed(o, r) = p
  BY <1>1 DEF Parsed, Record
<1> HIDE DEF n, url, keep, first
<1>4. /\ p \in Record /\ p.mem = o.mem /\ p.ops = o.ops /\ p.gone = o.gone
      /\ p.state = o.state /\ p.left = o.left /\ p.body = r.body
  <2>1. p \in Record
    BY <1>1, <1>2, Zenon DEF Record
  <2>2. /\ p.mem = o.mem /\ p.ops = o.ops /\ p.gone = o.gone
        /\ p.state = o.state /\ p.left = o.left /\ p.body = r.body
    BY <1>1, Zenon DEF Record
  <2> QED
    BY <2>1, <2>2
<1> HIDE DEF p
<1>5. Kernel(p)
  BY <1>4, KernelKept
<1> QED
  BY <1>3, <1>4, <1>5

LEMMA ServingLemma ==
  ASSUME NEW o, Kernel(o)
  PROVE  Kernel(Serving(o)) /\ Serving(o).state = o.state
<1> DEFINE path == IF o.url = NULL THEN Root ELSE o.url
           p == [o EXCEPT !.served = path]
<1>1. path \in Paths \cup {NULL, Root} /\ o \in Record
  BY DEF Kernel, Record
<1> HIDE DEF path
<1>2. p \in Record /\ p.mem = o.mem /\ p.ops = o.ops /\ p.gone = o.gone /\ p.state = o.state
  BY <1>1 DEF Record
<1> HIDE DEF p
<1> QED
  BY <1>2, KernelKept DEF Serving, p, path

LEMMA PostLemma ==
  ASSUME NEW o, Handled(o), NEW r, Parsable(r), r.here <= o.body, NEW p \in Post(o, r)
  PROVE  Handled(p)
<1> DEFINE f == OpenFile(o)
           q == [f EXCEPT !.state = "POSTWaitFileData"]
<1>1. Kernel(o) /\ r.here \in Nat
  BY DEF Handled, Parsable, InputType
<1>2. Kernel(q) /\ q.state = "POSTWaitFileData" /\ q.body = o.body
  <2>1. Kernel(f) /\ f.body = o.body
    BY <1>1, FileLemma
  <2> HIDE DEF f
  <2> QED
    <3>1. "POSTWaitFileData" \in States
      BY DEF States
    <3> QED
      BY <2>1, <3>1, StateLemma, Zenon
<1> HIDE DEF q
<1>3. CASE p = PostOpened(o, r)
  <2>1. p = IF r.here > 0 THEN OnBody(q, r.here) ELSE Submit(q, "recv")
    BY <1>3 DEF PostOpened, q
  <2>2. CASE r.here > 0
    BY <1>1, <1>2, <2>1, <2>2, OnBodyLemma
  <2>3. CASE ~(r.here > 0)
    <3>1. Kernel(Submit(q, "recv")) /\ Submit(q, "recv").state = "POSTWaitFileData"
      BY <1>2, SubmitLemma DEF Alike
    <3> QED
      BY <2>1, <2>3, <3>1 DEF Handled, Staged
  <2> QED
    BY <2>2, <2>3
<1>4. CASE p = CloseClient(o)
  BY <1>1, <1>4, CloseLemma
<1>5. CASE p = o
  BY <1>5
<1> QED
  BY <1>3, <1>4, <1>5 DEF Post

\* An answer leaves a state that is not the end, or one that needs pieces.
LEMMA AnswerHandled ==
  ASSUME NEW o, Kernel(o), NEW said \in {"nothing", "keep-alive", "close"},
         NEW st \in States \ {"AfterDisconnect", "ReadStaticFile", "SendPartFile"}
  PROVE  Handled(Answer(o, st, said))
BY AnswerLemma DEF Handled, Staged

LEMMA GetFileLemma ==
  ASSUME NEW o, Kernel(o), NEW n \in Nat
  PROVE  Handled(GetFile(o, n))
<1> DEFINE q == OpenFile(o)
<1>1. Kernel(q) /\ o \in Record
  BY FileLemma DEF Kernel
<1> HIDE DEF q
<1>2. CASE n = 0
  <2>1. GetFile(o, n) = Answer(q, "RecvNextRequest", "nothing")
    BY <1>2 DEF GetFile, q
  <2> QED
    BY <1>1, <2>1, AnswerHandled DEF States
<1>3. CASE n # 0
  <2> DEFINE a == Answer(q, "ReadStaticFile", Announced(o))
             p == [a EXCEPT !.left = n]
  <2>1. Kernel(a) /\ a.state = "ReadStaticFile"
    BY <1>1, AnswerLemma DEF Announced, States
  <2> HIDE DEF a
  <2>2. /\ p \in Record /\ p.mem = a.mem /\ p.ops = a.ops /\ p.gone = a.gone
        /\ p.state = a.state /\ p.left = n
    BY <2>1 DEF Kernel, Record
  <2> HIDE DEF p
  <2>3. Handled(p)
    BY <1>3, <2>1, <2>2, KernelKept DEF Handled, Staged
  <2> QED
    BY <1>3, <2>3 DEF GetFile, p, a, q
<1> QED
  BY <1>2, <1>3

LEMMA GetDirectoryLemma ==
  ASSUME NEW o, Kernel(o), NEW kind \in {"directory", "unlisted", "unread"}
  PROVE  Handled(GetDirectory(o, kind))
<1>1. CASE kind = "directory"
  <2> DEFINE a == Answer(o, "ListDirRecvNextRequest", Announced(o))
             p == [a EXCEPT !.sbuf = "live"]
  <2>1. Kernel(a) /\ a.state = "ListDirRecvNextRequest"
    BY AnswerLemma DEF Announced, States
  <2> HIDE DEF a
  <2>2. /\ p \in Record /\ p.mem = a.mem /\ p.ops = a.ops /\ p.gone = a.gone
        /\ p.state = a.state
    <3>1. a \in Record
      BY <2>1 DEF Kernel
    <3>2. p \in Record
      BY <3>1, Zenon DEF Record
    <3>3. p.mem = a.mem /\ p.ops = a.ops /\ p.gone = a.gone /\ p.state = a.state
      BY <3>1, Zenon DEF Record
    <3> QED
      BY <3>2, <3>3
  <2> HIDE DEF p
  <2>3. Handled(p)
    BY <2>1, <2>2, KernelKept DEF Handled, Staged
  <2> QED
    BY <1>1, <2>3 DEF GetDirectory, p, a
<1>2. CASE kind = "unread"
  BY <1>2, AnswerHandled DEF GetDirectory, States
<1>3. CASE kind = "unlisted"
  BY <1>3, AnswerHandled DEF GetDirectory, States
<1> QED
  BY <1>1, <1>2, <1>3

LEMMA GetLemma ==
  ASSUME NEW o, Kernel(o), NEW found \in Found
  PROVE  Handled(Get(o, found))
<1>1. /\ found.kind \in {"file", "missing", "directory", "unlisted", "unread"}
      /\ found.pieces \in Nat
  BY IocpAssumption DEF FoundType
<1>2. CASE found.kind = "file"
  BY <1>1, <1>2, GetFileLemma DEF Get
<1>3. CASE found.kind = "missing"
  BY <1>3, AnswerHandled DEF Get, States
<1>4. CASE found.kind \in {"directory", "unlisted", "unread"}
  BY <1>4, GetDirectoryLemma DEF Get
<1> QED
  BY <1>1, <1>2, <1>3, <1>4

LEMMA HeadLemma ==
  ASSUME NEW o, Kernel(o), NEW p \in Head1(o)
  PROVE  Handled(p)
<1> DEFINE a == Answer(o, "AfterSendHTML", "close")
           n == a.handles + 1
           b == [a EXCEPT !.handles = n]
<1>1. Kernel(a) /\ a.state = "AfterSendHTML"
  BY AnswerLemma DEF States
<1>2. n \in Int
  BY <1>1 DEF Kernel, Record
<1>3. p = b \/ p = Answer(o, "AfterSendHTML", "nothing")
  BY DEF Head1
<1> HIDE DEF a, n
<1>4. /\ b \in Record /\ b.mem = a.mem /\ b.ops = a.ops /\ b.gone = a.gone
      /\ b.state = a.state
  BY <1>1, <1>2 DEF Kernel, Record
<1> HIDE DEF b
<1>5. Handled(b)
  BY <1>1, <1>4, KernelKept DEF Handled, Staged
<1> QED
  BY <1>3, <1>5, AnswerHandled DEF States

LEMMA ProcessRequestLemma ==
  ASSUME NEW o, Handled(o), NEW r, Parsable(r), NEW p \in ProcessRequest(o, r)
  PROVE  Handled(p)
<1> DEFINE q == Parsed(o, r)
           fed == IF r.here > 0 THEN OnBody(q, r.here) ELSE q
           s == Serving(fed)
<1>1. /\ r.here \in Nat /\ r.body \in Nat /\ r.here <= r.body
      /\ r.method \in Methods /\ r.verdict \in {"ok", "partial", "error", "upgrade", "bare"}
  BY DEF Parsable, InputType
<1>2. Kernel(q) /\ Handled(q) /\ q.body = r.body
  BY ParsedLemma DEF Handled, Staged
<1> HIDE DEF q
<1>3. Kernel(fed)
  BY <1>1, <1>2, OnBodyLemma DEF Handled
<1> HIDE DEF fed
<1>4. Kernel(s)
  BY <1>3, ServingLemma
<1> HIDE DEF s
<1>5. \/ p \in Post(q, r)
      \/ p = CloseClient(fed)
      \/ \E found \in Found : p = Get(s, found)
      \/ p = Answer(s, "AfterHandShake", "nothing")
      \/ p \in Head1(s)
      \/ p = Answer(s, "AfterSendHTML", "close")
  BY DEF ProcessRequest, q, fed, s
<1>6. CASE p \in Post(q, r)
  BY <1>1, <1>2, <1>6, PostLemma
<1>7. CASE p = CloseClient(fed)
  BY <1>3, <1>7, CloseLemma
<1>8. CASE \E found \in Found : p = Get(s, found)
  BY <1>4, <1>8, GetLemma
<1>9. CASE p \in Head1(s)
  BY <1>4, <1>9, HeadLemma
<1>10. CASE p = Answer(s, "AfterHandShake", "nothing") \/ p = Answer(s, "AfterSendHTML", "close")
  BY <1>4, <1>10, AnswerHandled DEF States
<1> QED
  BY <1>5, <1>6, <1>7, <1>8, <1>9, <1>10

(***************************************************************************)
(* The invariant of the first part: whatever browsers send and however     *)
(* operations fail, what the kernel holds for a record is orderly.         *)
(***************************************************************************)
\* A record whose accept is in flight: it has not been touched, or another's packet
\* was taken for its own.
Stray == Strayed(Accepting)

Waiting == {Accepting, Stray}

Sound(o) ==
  /\ o \in Record
  /\ o.mem = "none" => o = Blank
  /\ "accept" \in Range(o.ops) => o \in Waiting
  /\ o \notin Waiting => Orderly(o.ops, o.gone) /\ Staged(o)
  /\ o.mem = "freed" => "disconnect" \notin Range(o.ops)

\* The accepts in flight that are not, or will no longer be, currentCtx's.
InFlight == {c \in Clients : "accept" \in Range(ctx[c].ops)}

Counted ==
  /\ loop = "running" => IsFiniteSet(Others) /\ early + Cardinality(Others) = atOnce
  /\ loop = "accepting" => IsFiniteSet(InFlight) /\ early + Cardinality(InFlight) = atOnce

IInv ==
  /\ TypeOK
  /\ \A c \in Clients : Sound(ctx[c])
  /\ loop = "running" /\ current # NULL => ctx[current] = Accepting
  /\ Counted

LEMMA AcceptingLemma ==
  /\ Blank \in Record /\ Accepting \in Record
  /\ Orderly(Blank.ops, Blank.gone) /\ Sound(Blank) /\ Sound(Accepting)
  /\ Blank # Accepting /\ Accepting.mem = "live" /\ Accepting.ops = <<"accept">>
  /\ Accepting.state = "AfterRecv" /\ ~Accepting.gone
  /\ "accept" \in Range(Accepting.ops) /\ "accept" \notin Range(Blank.ops)
<1> DEFINE s == <<"accept">>
<1>1. Blank \in Record
  BY DEF Blank, Record, States
<1>2. s \in Seq(Ops) /\ "accept" \in Range(s)
  BY DEF Ops, SocketOps, Range
<1> HIDE DEF s
<1>3. /\ Accepting \in Record /\ Accepting.mem = "live" /\ Accepting.ops = s
      /\ Accepting.state = "AfterRecv" /\ ~Accepting.gone
  BY <1>1, <1>2 DEF Accepting, Record, s, Blank
<1>4. /\ Blank.ops = <<>> /\ Blank.mem = "none" /\ Blank.state = "AfterRecv"
      /\ Blank.gone = FALSE
  BY DEF Blank
<1>5. <<>> \in Seq(Ops) /\ DOMAIN <<>> = {} /\ Range(<<>>) = {}
  BY DEF Range
<1>6. Orderly(Blank.ops, Blank.gone)
  BY <1>4, <1>5 DEF Orderly
<1>7. Sound(Blank)
  BY <1>1, <1>4, <1>5, <1>6 DEF Sound, Staged
<1>8. Sound(Accepting)
  BY <1>3 DEF Sound, Waiting
<1> QED
  BY <1>1, <1>2, <1>3, <1>4, <1>5, <1>6, <1>7, <1>8 DEF s

LEMMA StrayLemma ==
  /\ Stray \in Record /\ Sound(Stray) /\ Stray.mem = "live" /\ Stray.ops = <<"accept">>
  /\ Stray.state = "AfterDisconnect" /\ Stray.gone = TRUE /\ Stray.lost = TRUE
  /\ Stray.failed = {"stray"} /\ Stray.file = FALSE /\ Stray.handles = 0
  /\ Stray.said = "nothing" /\ "accept" \in Range(Stray.ops)
<1>1. /\ Accepting.failed = {} /\ Accepting.file = FALSE /\ Accepting.handles = 0
      /\ Accepting.said = "nothing"
  BY DEF Accepting, Blank
<1> DEFINE f == Accepting.failed \cup {"stray"}
<1>2. f = {"stray"} /\ f \in SUBSET Failures
  BY <1>1 DEF Failures
<1>3. Accepting \in Record /\ Accepting.mem = "live" /\ "accept" \in Range(Accepting.ops)
  BY AcceptingLemma
<1>4. Stray = [Accepting EXCEPT !.state = "AfterDisconnect", !.gone = TRUE, !.failed = f,
                                !.lost = TRUE]
  BY <1>3 DEF Stray, Strayed, Record
<1> HIDE DEF f
<1>5. /\ Stray \in Record /\ Stray.mem = Accepting.mem /\ Stray.ops = Accepting.ops
      /\ Stray.state = "AfterDisconnect" /\ Stray.gone = TRUE /\ Stray.lost = TRUE
      /\ Stray.failed = f /\ Stray.file = Accepting.file /\ Stray.handles = Accepting.handles
      /\ Stray.said = Accepting.said
  BY <1>2, <1>3, <1>4 DEF Record, States
<1>6. Sound(Stray)
  BY <1>3, <1>5 DEF Sound, Waiting
<1> QED
  BY <1>1, <1>2, <1>3, <1>5, <1>6, AcceptingLemma

\* A record that waits has an accept in flight and nothing else.
LEMMA WaitingLemma ==
  ASSUME NEW o \in Waiting
  PROVE  /\ Sound(o) /\ o \in Record /\ o.mem = "live" /\ o.ops = <<"accept">>
         /\ "accept" \in Range(o.ops)
         /\ \A i \in DOMAIN o.ops : o.ops[i] = "accept"
<1>1. /\ Sound(o) /\ o \in Record /\ o.mem = "live" /\ o.ops = <<"accept">>
      /\ "accept" \in Range(o.ops)
  BY AcceptingLemma, StrayLemma DEF Waiting
<1>2. \A i \in DOMAIN <<"accept">> : <<"accept">>[i] = "accept"
  OBVIOUS
<1> QED
  BY <1>1, <1>2

\* A record that does not wait has no accept in flight.
LEMMA NotWaiting ==
  ASSUME NEW o, Sound(o)
  PROVE  o \in Waiting <=> "accept" \in Range(o.ops)
BY WaitingLemma DEF Sound

LEMMA HandledSound ==
  ASSUME NEW o, Handled(o)
  PROVE  Sound(o) /\ o \notin Waiting
<1>1. "accept" \notin Range(o.ops)
  BY DEF Handled, Kernel, Orderly, Range
<1>2. o \notin Waiting
  BY <1>1, WaitingLemma
<1> QED
  BY <1>1, <1>2 DEF Handled, Kernel, Sound

\* A step that changes one client's record, which was accepted before.
LEMMA LocalChange ==
  ASSUME IInv, NEW c \in Clients, ctx[c] \notin Waiting, NEW p, Sound(p), p \notin Waiting,
         Update(c, p)
  PROVE  IInv'
<1>1. TypeOK'
  BY DEF IInv, TypeOK, Update, Sound
<1>2. ctx' = [ctx EXCEPT ![c] = p] /\ UNCHANGED <<current, loop, early, atOnce>>
  BY DEF Update
<1>3. ctx \in [Clients -> Record] /\ \A d \in Clients : Sound(ctx[d])
  BY DEF IInv, TypeOK
<1>4. \A d \in Clients : Sound(ctx'[d])
  BY <1>2, <1>3
<1>5. loop' = "running" /\ current' # NULL => ctx'[current'] = Accepting
  <2> SUFFICES ASSUME loop = "running", current # NULL PROVE ctx'[current] = Accepting
    BY <1>2
  <2>1. current \in Clients /\ ctx[current] = Accepting
    BY DEF IInv, TypeOK
  <2>2. current # c
    BY <2>1 DEF Waiting
  <2> QED
    BY <1>2, <1>3, <2>1, <2>2
<1>6. \A d \in Clients : "accept" \in Range(ctx'[d].ops) <=> "accept" \in Range(ctx[d].ops)
  BY <1>2, <1>3, NotWaiting
<1>7. Others' = Others /\ InFlight' = InFlight
  BY <1>2, <1>6 DEF Others, InFlight
<1>8. Counted'
  BY <1>2, <1>7 DEF IInv, Counted
<1> QED
  BY <1>1, <1>4, <1>5, <1>8 DEF IInv

\* A completion for a client.
LEMMA CompletedLemma ==
  ASSUME IInv, NEW c \in Clients, NEW kinds, "accept" \notin kinds, NEW o \in Completed(c, kinds)
  PROVE  /\ Handled(o) /\ ctx[c] \notin Waiting
         /\ \E i \in DOMAIN ctx[c].ops :
              /\ o = Take(ctx[c], i) /\ ctx[c].ops[i] \in kinds
              /\ ctx[c].ops[i] = "disconnect" => "disconnect" \notin Range(o.ops)
              /\ o.state = ctx[c].state /\ Orderly(ctx[c].ops, o.gone)
<1>1. PICK i \in DOMAIN ctx[c].ops :
        o = Take(ctx[c], i) /\ ctx[c].mem = "live" /\ ctx[c].ops[i] \in kinds
  BY DEF Completed
<1>2. ctx[c] \notin Waiting
  BY <1>1, WaitingLemma
<1>3. ctx[c] \in Record /\ Orderly(ctx[c].ops, ctx[c].gone) /\ Staged(ctx[c])
  BY <1>2 DEF IInv, Sound
<1>4. /\ o \in Record /\ Alike(ctx[c], o) /\ Orderly(o.ops, ctx[c].gone)
      /\ ctx[c].ops[i] = "disconnect" => "disconnect" \notin Range(o.ops)
  BY <1>1, <1>3, TakeLemma
<1>5. Handled(o)
  BY <1>1, <1>3, <1>4 DEF Handled, Kernel, Staged, Alike
<1> QED
  BY <1>1, <1>2, <1>3, <1>4, <1>5 DEF Alike

\* A handler of a client whose operation completed.
LEMMA HandlerLemma ==
  ASSUME IInv, NEW c \in Clients, NEW kinds, "accept" \notin kinds, NEW o \in Completed(c, kinds),
         NEW p, Handled(p), Update(c, p)
  PROVE  IInv'
BY CompletedLemma, HandledSound, LocalChange

(***************************************************************************)
(* The handlers of processIOCP, one at a time.                             *)
(***************************************************************************)
LEMMA RequestStep ==
  ASSUME IInv, NEW c \in Clients, Request(c)
  PROVE  IInv'
<1>1. PICK o \in Success(c, "AfterRecv"), r \in Inputs :
        \E p \in ProcessRequest(o, r) : Update(c, p)
  BY DEF Request
<1>2. PICK p \in ProcessRequest(o, r) : Update(c, p)
  BY <1>1
<1>3. o \in Completed(c, {"recv", "send", "read", "write"})
  BY DEF Success
<1>4. Handled(o)
  BY <1>3, CompletedLemma
<1>5. Handled(p)
  BY <1>4, InputsParsable, ProcessRequestLemma
<1> QED
  BY <1>2, <1>3, <1>5, HandlerLemma

\* The handlers of a state: what they leave of a record with the operation taken.
LEMMA SuccessLemma ==
  ASSUME IInv, NEW c \in Clients, NEW st, NEW o \in Success(c, st),
         NEW p, Handled(o) => Handled(p), Update(c, p)
  PROVE  IInv'
<1>1. o \in Completed(c, {"recv", "send", "read", "write"})
  BY DEF Success
<1>2. Handled(o)
  BY <1>1, CompletedLemma
<1> QED
  BY <1>1, <1>2, HandlerLemma

LEMMA HandShakeSentStep ==
  ASSUME IInv, NEW c \in Clients, HandShakeSent(c)
  PROVE  IInv'
<1>1. PICK o \in Success(c, "AfterHandShake"), op \in {"recv", "send"} :
        Update(c, [Submit(o, op) EXCEPT !.state = "WebSocketConnecting"])
  BY DEF HandShakeSent
<1> DEFINE q == Submit(o, op)
           p == [q EXCEPT !.state = "WebSocketConnecting"]
<1>2. ASSUME Handled(o) PROVE Handled(p)
  <2>1. Kernel(q)
    BY <1>2, SubmitLemma DEF Handled
  <2> HIDE DEF q
  <2> QED
    BY <2>1, StateLemma DEF Handled, Staged, States
<1> QED
  BY <1>1, <1>2, SuccessLemma

LEMMA ReadStaticFileStep ==
  ASSUME IInv, NEW c \in Clients, ReadStaticFile(c)
  PROVE  IInv'
<1>1. PICK o \in Success(c, "ReadStaticFile") :
        Update(c, [o EXCEPT !.ops = Append(@, "read"), !.state = "SendPartFile"])
  BY DEF ReadStaticFile
<1> DEFINE q == [o EXCEPT !.ops = Append(@, "read")]
           p == [q EXCEPT !.state = "SendPartFile"]
<1>2. o.state = "ReadStaticFile"
  BY DEF Success
<1>3. ASSUME Handled(o) PROVE Handled(p)
  <2>1. Kernel(q) /\ q.left = o.left
    BY <1>3, AppendLemma DEF Handled, Alike, Ops
  <2>2. o.left > 0
    BY <1>2, <1>3 DEF Handled, Staged
  <2> HIDE DEF q
  <2>3. "SendPartFile" \in States
    BY DEF States
  <2>4. Kernel(p) /\ p.state = "SendPartFile" /\ p.left = q.left
    BY <2>1, <2>3, StateLemma
  <2> QED
    BY <2>1, <2>2, <2>4 DEF Handled, Staged
<1>4. o \in Record => p = [o EXCEPT !.ops = Append(@, "read"), !.state = "SendPartFile"]
  BY DEF Record
<1>5. Handled(o)
  BY CompletedLemma DEF Success
<1>6. Update(c, p)
  BY <1>1, <1>4, <1>5 DEF Handled, Kernel
<1> QED
  BY <1>3, <1>6, SuccessLemma

LEMMA SendPartFileStep ==
  ASSUME IInv, NEW c \in Clients, SendPartFile(c)
  PROVE  IInv'
<1>1. PICK o \in Success(c, "SendPartFile") : Update(c, PieceSent(o))
  BY DEF SendPartFile
<1>2. o.state = "SendPartFile"
  BY DEF Success
<1>3. ASSUME Handled(o) PROVE Handled(PieceSent(o))
  <2> DEFINE q == Submit(o, "send")
             n == q.left - 1
             st == IF o.left > 1 THEN "ReadStaticFile"
                   ELSE IF o.keep THEN "RecvNextRequest" ELSE "AfterSendHTML"
             p == [q EXCEPT !.left = n, !.state = st]
  <2>1. Kernel(q) /\ q.left = o.left
    BY <1>3, SubmitLemma DEF Handled, Alike
  <2>2. o.left \in Nat /\ o.left > 0
    BY <1>2, <1>3 DEF Handled, Kernel, Staged, Record
  <2>3. PieceSent(o) = p
    BY <2>1 DEF PieceSent, Kernel, Record
  <2>4. n \in Nat /\ st \in States \ {"AfterDisconnect", "SendPartFile"}
        /\ (st = "ReadStaticFile" => n > 0)
    BY <2>1, <2>2 DEF States
  <2> HIDE DEF q, n, st
  <2>5. /\ p \in Record /\ p.mem = q.mem /\ p.ops = q.ops /\ p.gone = q.gone
        /\ p.state = st /\ p.left = n
    BY <2>1, <2>4 DEF Kernel, Record
  <2> HIDE DEF p
  <2>6. Kernel(p)
    BY <2>1, <2>5, KernelKept
  <2> QED
    BY <2>3, <2>4, <2>5, <2>6 DEF Handled, Staged
<1> QED
  BY <1>1, <1>3, SuccessLemma

LEMMA RecvLemma ==
  ASSUME NEW o, Kernel(o)
  PROVE  Handled(Recv(o))
<1> DEFINE q == Submit(o, "recv")
<1>1. Kernel(q)
  BY SubmitLemma
<1> HIDE DEF q
<1>2. Handled([q EXCEPT !.state = "AfterRecv"])
  BY <1>1, StateLemma DEF Handled, Staged, States
<1> QED
  BY <1>2 DEF Recv, q

LEMMA RecvNextRequestStep ==
  ASSUME IInv, NEW c \in Clients, RecvNextRequest(c)
  PROVE  IInv'
<1>1. PICK o \in Success(c, "RecvNextRequest") : Update(c, Recv(CloseFile(o)))
  BY DEF RecvNextRequest
<1>2. Handled(o) => Handled(Recv(CloseFile(o)))
  BY FileLemma, RecvLemma DEF Handled
<1> QED
  BY <1>1, <1>2, SuccessLemma

LEMMA DestroyLemma ==
  ASSUME NEW o, Kernel(o)
  PROVE  /\ Kernel(Destroy(o)) /\ Destroy(o).state = o.state /\ Destroy(o).gone = o.gone
         /\ Destroy(o).left = o.left /\ Destroy(o).ops = o.ops
<1>1. /\ Destroy(o) \in Record /\ Destroy(o).mem = o.mem /\ Destroy(o).ops = o.ops
      /\ Destroy(o).gone = o.gone /\ Destroy(o).state = o.state /\ Destroy(o).left = o.left
  BY DEF Destroy, Kernel, Record, Failures
<1> QED
  BY <1>1, KernelKept

LEMMA ListDirRecvNextRequestStep ==
  ASSUME IInv, NEW c \in Clients, ListDirRecvNextRequest(c)
  PROVE  IInv'
<1>1. PICK o \in Success(c, "ListDirRecvNextRequest") : Update(c, Listed(o))
  BY DEF ListDirRecvNextRequest
<1>2. Handled(o) => Handled(Listed(o))
  BY DestroyLemma, RecvLemma, CloseLemma DEF Listed, Handled
<1> QED
  BY <1>1, <1>2, SuccessLemma

LEMMA PostRecvNectRequestStep ==
  ASSUME IInv, NEW c \in Clients, PostRecvNectRequest(c)
  PROVE  IInv'
<1>1. PICK o \in Success(c, "PostRecvNectRequest") :
        Update(c, IF o.keep THEN Recv(o) ELSE CloseClient(o))
  BY DEF PostRecvNectRequest
<1>2. Handled(o) => Handled(IF o.keep THEN Recv(o) ELSE CloseClient(o))
  BY RecvLemma, CloseLemma DEF Handled
<1> QED
  BY <1>1, <1>2, SuccessLemma

LEMMA PostWritePartFileStep ==
  ASSUME IInv, NEW c \in Clients, PostWritePartFile(c)
  PROVE  IInv'
<1>1. PICK o \in Success(c, "PostWritePartFile") : Update(c, Written(o))
  BY DEF PostWritePartFile
<1>2. ASSUME Handled(o) PROVE Handled(Written(o))
  <2>1. CASE o.body = 0
    <3> DEFINE q == CloseFile(o)
    <3>1. Kernel(q)
      BY <1>2, FileLemma DEF Handled
    <3>2. Written(o) = Answer(q, "PostRecvNectRequest", Announced(o))
      BY <2>1 DEF Written
    <3>3. Announced(o) \in {"nothing", "keep-alive", "close"}
      BY DEF Announced
    <3> HIDE DEF q
    <3> QED
      BY <3>1, <3>2, <3>3, AnswerHandled DEF States
  <2>2. CASE o.body # 0
    <3> DEFINE q == Submit(o, "recv")
    <3>1. Kernel(q)
      BY <1>2, SubmitLemma DEF Handled
    <3>2. Written(o) = [q EXCEPT !.state = "POSTWaitFileData"]
      BY <2>2 DEF Written
    <3>3. "POSTWaitFileData" \in States
      BY DEF States
    <3> HIDE DEF q
    <3>4. Kernel(Written(o)) /\ Written(o).state = "POSTWaitFileData"
      BY <3>1, <3>2, <3>3, StateLemma
    <3> QED
      BY <3>4 DEF Handled, Staged
  <2> QED
    BY <2>1, <2>2
<1> QED
  BY <1>1, <1>2, SuccessLemma

\* An assertion that failed is noted.
LEMMA FailedLemma ==
  ASSUME NEW o, Handled(o), NEW what \in Failures
  PROVE  Handled([o EXCEPT !.failed = @ \cup {what}])
<1> DEFINE f == o.failed \cup {what}
           p == [o EXCEPT !.failed = f]
<1>1. f \in SUBSET Failures
  BY DEF Handled, Kernel, Record
<1> HIDE DEF f
<1>2. /\ p \in Record /\ p.mem = o.mem /\ p.ops = o.ops /\ p.gone = o.gone
      /\ p.state = o.state /\ p.left = o.left
  BY <1>1 DEF Handled, Kernel, Record
<1> HIDE DEF p
<1>3. Handled(p)
  BY <1>2, KernelKept DEF Handled, Staged
<1> QED
  BY <1>3 DEF p, f

LEMMA POSTWaitFileDataStep ==
  ASSUME IInv, NEW c \in Clients, POSTWaitFileData(c)
  PROVE  IInv'
<1>1. PICK o \in Success(c, "POSTWaitFileData") : \E n \in 0..o.body, error \in BOOLEAN :
        LET fed == IF n > 0 THEN OnBody(o, n) ELSE o
        IN  Update(c, BodyArrived(IF error THEN CloseClient(fed) ELSE fed))
  BY DEF POSTWaitFileData
<1>2. PICK n \in 0..o.body, error \in BOOLEAN :
        LET fed == IF n > 0 THEN OnBody(o, n) ELSE o
        IN  Update(c, BodyArrived(IF error THEN CloseClient(fed) ELSE fed))
  BY <1>1
<1> DEFINE fed == IF n > 0 THEN OnBody(o, n) ELSE o
           q == IF error THEN CloseClient(fed) ELSE fed
<1>3. ASSUME Handled(o) PROVE Handled(BodyArrived(q))
  <2>1. n \in Nat /\ n <= o.body
    BY <1>3 DEF Handled, Kernel, Record
  <2>2. Handled(fed)
    BY <1>3, <2>1, OnBodyLemma DEF Handled
  <2> HIDE DEF fed
  <2>3. Handled(q)
    BY <2>2, CloseLemma DEF Handled
  <2> HIDE DEF q
  <2> QED
    BY <2>3, FailedLemma DEF BodyArrived, Failures
<1> QED
  BY <1>2, <1>3, SuccessLemma

LEMMA AfterSendHTMLStep ==
  ASSUME IInv, NEW c \in Clients, AfterSendHTML(c)
  PROVE  IInv'
<1>1. PICK o \in Success(c, "AfterSendHTML") : Update(c, CloseClient(o))
  BY DEF AfterSendHTML
<1>2. Handled(o) => Handled(CloseClient(o))
  BY CloseLemma DEF Handled
<1> QED
  BY <1>1, <1>2, SuccessLemma

LEMMA InvalidStateStep ==
  ASSUME IInv, NEW c \in Clients, InvalidState(c)
  PROVE  IInv'
<1>1. PICK o \in Success(c, "AfterDisconnect") :
        Update(c, [o EXCEPT !.failed = @ \cup {"state"}])
  BY DEF InvalidState
<1>2. Handled(o) => Handled([o EXCEPT !.failed = @ \cup {"state"}])
  BY FailedLemma DEF Failures
<1> QED
  BY <1>1, <1>2, SuccessLemma

\* A record is freed with what the kernel still holds for it, the disconnect
\* excepted.
LEMMA FreeLemma ==
  ASSUME NEW o, Handled(o), "disconnect" \notin Range(o.ops)
  PROVE  Sound(Free(o)) /\ Free(o) \notin Waiting
<1> DEFINE q == IF o.sbuf = "null" THEN o ELSE Destroy(o)
           f == CloseFile(q)
           p == [f EXCEPT !.mem = "freed"]
<1>1. /\ Kernel(q) /\ q.state = o.state /\ q.gone = o.gone /\ q.left = o.left
      /\ q.ops = o.ops
  BY DestroyLemma DEF Handled
<1>2. Free(o) = p
  BY DEF Free
<1> HIDE DEF q
<1>3. /\ Kernel(f) /\ f.state = o.state /\ f.gone = o.gone /\ f.left = o.left
      /\ f.ops = o.ops
  BY <1>1, FileLemma
<1> HIDE DEF f
<1>4. /\ p \in Record /\ p.mem = "freed" /\ p.state = o.state /\ p.gone = o.gone
      /\ p.left = o.left /\ p.ops = o.ops
  BY <1>3 DEF Kernel, Record
<1> HIDE DEF p
<1>5. Orderly(p.ops, p.gone) /\ Staged(p)
  BY <1>4 DEF Handled, Kernel, Staged
<1>6. "accept" \notin Range(p.ops)
  BY <1>5 DEF Orderly, Range
<1> QED
  BY <1>2, <1>4, <1>5, <1>6, WaitingLemma DEF Sound

LEMMA EmptyStep ==
  ASSUME IInv, NEW c \in Clients, Empty(c)
  PROVE  IInv'
<1>1. PICK o \in Completed(c, {"recv", "disconnect"}) :
        Update(c, IF o.state = "AfterDisconnect" THEN Free(o) ELSE CloseClient(o))
  BY DEF Empty
<1>2. /\ Handled(o) /\ ctx[c] \notin Waiting
      /\ \E i \in DOMAIN ctx[c].ops :
           /\ ctx[c].ops[i] \in {"recv", "disconnect"}
           /\ ctx[c].ops[i] = "disconnect" => "disconnect" \notin Range(o.ops)
           /\ Orderly(ctx[c].ops, o.gone)
  BY CompletedLemma
<1>3. CASE o.state = "AfterDisconnect"
  <2>1. o.gone
    BY <1>2, <1>3 DEF Handled, Staged
  <2>2. "disconnect" \notin Range(o.ops)
    BY <1>2, <2>1 DEF Orderly
  <2> QED
    BY <1>1, <1>2, <1>3, <2>2, FreeLemma, LocalChange
<1>4. CASE o.state # "AfterDisconnect"
  BY <1>1, <1>2, <1>4, CloseLemma, HandlerLemma DEF Handled
<1> QED
  BY <1>3, <1>4

LEMMA StaleStep ==
  ASSUME IInv, NEW c \in Clients, Stale(c)
  PROVE  IInv'
<1>1. PICK i \in DOMAIN ctx[c].ops :
        ctx[c].mem = "freed" /\ Update(c, [Take(ctx[c], i) EXCEPT !.failed = @ \cup {"heap"}])
  BY DEF Stale
<1> DEFINE q == Take(ctx[c], i)
           f == q.failed \cup {"heap"}
           p == [q EXCEPT !.failed = f]
<1>2. /\ ctx[c] \notin Waiting /\ ctx[c] \in Record /\ Staged(ctx[c])
      /\ Orderly(ctx[c].ops, ctx[c].gone) /\ "disconnect" \notin Range(ctx[c].ops)
  BY <1>1, WaitingLemma DEF IInv, Sound
<1>3. /\ q \in Record /\ Alike(ctx[c], q) /\ Orderly(q.ops, ctx[c].gone)
      /\ "disconnect" \notin Range(q.ops)
  BY <1>2, TakeLemma
<1>4. Update(c, p)
  BY <1>1
<1> HIDE DEF q
<1>5. f \in SUBSET Failures
  BY <1>3 DEF Record, Failures
<1> HIDE DEF f
<1>6. /\ p \in Record /\ p.mem = q.mem /\ p.state = q.state /\ p.gone = q.gone
      /\ p.left = q.left /\ p.ops = q.ops
  BY <1>3, <1>5 DEF Record
<1> HIDE DEF p
<1>7. /\ p.mem = "freed" /\ Orderly(p.ops, p.gone) /\ Staged(p)
      /\ "disconnect" \notin Range(p.ops)
  BY <1>1, <1>2, <1>3, <1>6 DEF Alike, Staged
<1>8. "accept" \notin Range(p.ops)
  BY <1>7 DEF Orderly, Range
<1>9. Sound(p) /\ p \notin Waiting
  BY <1>6, <1>7, <1>8, WaitingLemma DEF Sound
<1> QED
  BY <1>2, <1>4, <1>9, LocalChange

LEMMA AbortedStep ==
  ASSUME IInv, NEW c \in Clients, Aborted(c)
  PROVE  IInv'
BY CompletedLemma, HandlerLemma DEF Aborted

LEMMA ConnectionAbortedStep ==
  ASSUME IInv, NEW c \in Clients, ConnectionAborted(c)
  PROVE  IInv'
<1>1. PICK o \in Completed(c, {"recv", "send"}) : Update(c, CloseClient(o))
  BY DEF ConnectionAborted
<1>2. Handled(CloseClient(o))
  BY CompletedLemma, CloseLemma DEF Handled
<1> QED
  BY <1>1, <1>2, HandlerLemma

LEMMA LostLemma ==
  ASSUME NEW o, Handled(o)
  PROVE  Handled([o EXCEPT !.lost = TRUE])
<1> DEFINE p == [o EXCEPT !.lost = TRUE]
<1>1. /\ p \in Record /\ p.mem = o.mem /\ p.ops = o.ops /\ p.gone = o.gone
      /\ p.state = o.state /\ p.left = o.left
  BY DEF Handled, Kernel, Record
<1> HIDE DEF p
<1>2. Handled(p)
  BY <1>1, KernelKept DEF Handled, Staged
<1> QED
  BY <1>2 DEF p

LEMMA ForgottenStep ==
  ASSUME IInv, NEW c \in Clients, Forgotten(c)
  PROVE  IInv'
<1>1. PICK o \in Completed(c, Ops \ {"accept", "aborted"}) : Update(c, [o EXCEPT !.lost = TRUE])
  BY DEF Forgotten
<1>2. Handled([o EXCEPT !.lost = TRUE])
  BY CompletedLemma, LostLemma
<1> QED
  BY <1>1, <1>2, HandlerLemma

(***************************************************************************)
(* accept_next, and the packets of AcceptEx.                               *)
(***************************************************************************)
\* An accept taken out of a record that waits leaves nothing in flight.
LEMMA TakenWaiting ==
  ASSUME NEW o \in Waiting
  PROVE  /\ Take(o, 1) = [o EXCEPT !.ops = <<>>]
         /\ Handled(Take(o, 1)) /\ Handled(Abandoned(o))
<1> DEFINE s == <<"accept">>
           none == <<>>
<1>1. s \in Seq(Ops) /\ 1 \in DOMAIN s /\ Len(s) = 1
  BY DEF Ops, SocketOps
<1>2. o \in Record /\ o.ops = s /\ o.mem = "live"
  BY WaitingLemma
<1> HIDE DEF s
<1> DEFINE q == RemoveAt(s, 1)
<1>3. q \in Seq(Ops) /\ DOMAIN q = {} /\ q = none
  BY <1>1, RemoveAtLemma
<1> HIDE DEF q
<1>4. none \in Seq(Ops) /\ DOMAIN none = {}
  BY <1>3
<1>5. Take(o, 1) = [o EXCEPT !.ops = none]
  BY <1>2, <1>3 DEF Take, q
<1> HIDE DEF none
<1>6. \A gone \in BOOLEAN : Orderly(none, gone)
  BY <1>4 DEF Orderly
<1> DEFINE p == [o EXCEPT !.ops = none]
<1>7. p \in Record /\ p.ops = none /\ Alike(o, p) /\ o.gone \in BOOLEAN
  BY <1>2, <1>4, WithOps DEF Record
<1> HIDE DEF p
<1>8. o.state = "AfterDisconnect" => o.gone
  BY AcceptingLemma, StrayLemma DEF Waiting
<1>9. o.state \notin {"ReadStaticFile", "SendPartFile"}
  BY AcceptingLemma, StrayLemma DEF Waiting
<1>10. Kernel(p) /\ Staged(p)
  BY <1>2, <1>6, <1>7, <1>8, <1>9 DEF Kernel, Staged, Alike
<1>11. Handled(Take(o, 1))
  BY <1>5, <1>10 DEF Handled, p
<1>12. Handled(Abandoned(o))
  BY <1>11, LostLemma DEF Abandoned
<1> QED
  BY <1>5, <1>11, <1>12 DEF none

\* What a packet of AcceptEx finds.
LEMMA CurrentLemma ==
  ASSUME IInv, loop = "running", current # NULL
  PROVE  /\ current \in Clients /\ ctx[current] = Accepting /\ current \notin Others
         /\ Handled(Take(ctx[current], 1)) /\ IsFiniteSet(Others)
         /\ early + Cardinality(Others) = atOnce /\ Cardinality(Others) \in Nat
         /\ \A a \in Others : a \in Clients /\ a # current /\ ctx[a] \in Waiting
<1>1. current \in Clients /\ ctx[current] = Accepting
  BY DEF IInv, TypeOK
<1>2. IsFiniteSet(Others) /\ early + Cardinality(Others) = atOnce
  BY DEF IInv, Counted
<1>3. Cardinality(Others) \in Nat
  BY <1>2, FS_CardinalityType
<1>4. Handled(Take(ctx[current], 1))
  BY <1>1, TakenWaiting DEF Waiting
<1>5. \A a \in Others : a \in Clients /\ a # current /\ ctx[a] \in Waiting
  BY DEF Others, IInv, Sound
<1> QED
  BY <1>1, <1>2, <1>3, <1>4, <1>5

\* currentCtx's own packet: the record is handled, the others are as they were.
LEMMA AcceptedAsLemma ==
  ASSUME IInv, loop = "running", current # NULL, NEW p, Handled(p), AcceptedAs(p)
  PROVE  IInv'
<1>1. Sound(p) /\ p \notin Waiting /\ p \in Record
  BY HandledSound DEF Sound
<1>2. /\ ctx' = [ctx EXCEPT ![current] = p] /\ loop' = "accepting"
      /\ current' = current /\ early' = early /\ atOnce' = atOnce
  BY DEF AcceptedAs
<1>3. ctx \in [Clients -> Record] /\ \A c \in Clients : Sound(ctx[c])
  BY DEF IInv, TypeOK
<1>4. TypeOK'
  BY <1>1, <1>2, <1>3 DEF IInv, TypeOK
<1>5. \A c \in Clients : Sound(ctx'[c])
  BY <1>1, <1>2, <1>3
<1>6. InFlight' = Others
  <2>1. "accept" \notin Range(p.ops)
    BY <1>1, NotWaiting
  <2> QED
    BY <1>2, <1>3, <2>1 DEF InFlight, Others
<1>7. Counted'
  BY <1>2, <1>6, CurrentLemma DEF Counted
<1> QED
  BY <1>2, <1>4, <1>5, <1>7 DEF IInv

LEMMA FirstRequestStep ==
  ASSUME IInv, loop = "running", current # NULL, FirstRequest
  PROVE  IInv'
<1>1. PICK r \in Inputs : \E o \in ProcessRequest(Take(ctx[current], 1), r) : AcceptedAs(o)
  BY DEF FirstRequest
<1>2. PICK o \in ProcessRequest(Take(ctx[current], 1), r) : AcceptedAs(o)
  BY <1>1
<1>3. Handled(o)
  BY <1>2, CurrentLemma, InputsParsable, ProcessRequestLemma
<1> QED
  BY <1>2, <1>3, AcceptedAsLemma

LEMMA EmptyRequestStep ==
  ASSUME IInv, loop = "running", current # NULL, EmptyRequest
  PROVE  IInv'
BY CurrentLemma, CloseLemma, AcceptedAsLemma DEF EmptyRequest, Handled

LEMMA AcceptFailsStep ==
  ASSUME IInv, loop = "running", current # NULL, AcceptFails
  PROVE  IInv'
<1>1. Handled(Abandoned(ctx[current]))
  BY CurrentLemma, TakenWaiting DEF Waiting
<1> QED
  BY <1>1, AcceptedAsLemma DEF AcceptFails

LEMMA OtherLengthStep ==
  ASSUME IInv, loop = "running", current # NULL, OtherLength
  PROVE  IInv'
<1> DEFINE Left(o, m) == IF m.method = "POST" /\ ~Whole(m) THEN [o EXCEPT !.lost = TRUE] ELSE o
<1>1. PICK r \in Inputs : \E m \in Misread(r) : \E o \in ProcessRequest(Take(ctx[current], 1), m) :
        AcceptedAs(Left(o, m))
  BY DEF OtherLength
<1>2. PICK m \in Misread(r) : \E o \in ProcessRequest(Take(ctx[current], 1), m) :
        AcceptedAs(Left(o, m))
  BY <1>1
<1>3. PICK o \in ProcessRequest(Take(ctx[current], 1), m) : AcceptedAs(Left(o, m))
  BY <1>2
<1>4. Handled(o)
  BY <1>3, CurrentLemma, MisreadParsable, ProcessRequestLemma
<1>5. Handled(Left(o, m))
  BY <1>4, LostLemma
<1> HIDE DEF Left
<1> QED
  BY <1>3, <1>5, AcceptedAsLemma

\* The count when an accept of another's is over and currentCtx's becomes one.
LEMMA ExchangeLemma ==
  ASSUME NEW S, IsFiniteSet(S), NEW a \in S, NEW c, c \notin S
  PROVE  /\ IsFiniteSet((S \ {a}) \cup {c})
         /\ Cardinality((S \ {a}) \cup {c}) = Cardinality(S)
<1>1. IsFiniteSet(S \ {a}) /\ Cardinality(S \ {a}) = Cardinality(S) - 1
  BY FS_RemoveElement
<1>2. /\ IsFiniteSet((S \ {a}) \cup {c})
      /\ Cardinality((S \ {a}) \cup {c}) = Cardinality(S \ {a}) + 1
  BY <1>1, FS_AddElement
<1>3. Cardinality(S) \in Nat
  BY FS_CardinalityType
<1> QED
  BY <1>1, <1>2, <1>3

\* A packet of another's accept: what becomes of currentCtx, which waits on.
LEMMA ReplacedLemma ==
  ASSUME IInv, loop = "running", current # NULL, NEW a \in Others, NEW w \in Waiting,
         ctx' = [ctx EXCEPT ![current] = w, ![a] = Abandoned(@)],
         loop' = "accepting", UNCHANGED <<current, early, atOnce>>
  PROVE  IInv'
<1>1. /\ current \in Clients /\ a \in Clients /\ a # current /\ ctx[a] \in Waiting
      /\ IsFiniteSet(Others) /\ current \notin Others
      /\ early + Cardinality(Others) = atOnce
  BY CurrentLemma
<1> DEFINE p == Abandoned(ctx[a])
<1>2. Handled(p)
  BY <1>1, TakenWaiting
<1>3. Sound(p) /\ p \notin Waiting /\ p \in Record
  BY <1>2, HandledSound DEF Sound
<1>4. Sound(w) /\ w \in Record /\ "accept" \in Range(w.ops)
  BY WaitingLemma
<1>5. ctx \in [Clients -> Record] /\ \A c \in Clients : Sound(ctx[c])
  BY DEF IInv, TypeOK
<1>6. ctx' = [[ctx EXCEPT ![current] = w] EXCEPT ![a] = p]
  BY <1>1, <1>5
<1> HIDE DEF p
<1>7. \A c \in Clients : ctx'[c] = IF c = a THEN p ELSE IF c = current THEN w ELSE ctx[c]
  BY <1>1, <1>5, <1>6
<1>8. ctx' \in [Clients -> Record]
  BY <1>1, <1>3, <1>4, <1>5, <1>6
<1>9. TypeOK'
  BY <1>8 DEF IInv, TypeOK
<1>10. \A c \in Clients : Sound(ctx'[c])
  BY <1>3, <1>4, <1>5, <1>7
<1>11. InFlight' = (Others \ {a}) \cup {current}
  <2>1. "accept" \notin Range(p.ops)
    BY <1>3, NotWaiting
  <2> QED
    BY <1>1, <1>4, <1>7, <2>1 DEF InFlight, Others
<1>12. IsFiniteSet(InFlight') /\ Cardinality(InFlight') = Cardinality(Others)
  BY <1>1, <1>11, ExchangeLemma
<1>13. Counted'
  BY <1>1, <1>12 DEF Counted
<1> QED
  BY <1>9, <1>10, <1>13 DEF IInv

LEMMA StrayPacketStep ==
  ASSUME IInv, loop = "running", current # NULL, StrayPacket
  PROVE  IInv'
<1>1. /\ current \in Clients /\ ctx[current] = Accepting /\ IsFiniteSet(Others)
      /\ current \notin Others /\ early + Cardinality(Others) = atOnce
      /\ Cardinality(Others) \in Nat
  BY CurrentLemma
<1>2. ctx \in [Clients -> Record] /\ \A c \in Clients : Sound(ctx[c])
  BY DEF IInv, TypeOK
<1>3. Strayed(ctx[current]) = Stray /\ Stray \in Waiting
  BY <1>1 DEF Stray, Waiting
<1>4. loop' = "accepting" /\ current' = current /\ atOnce' = atOnce
  BY DEF StrayPacket
<1>5. CASE early > 0 /\ early' = early - 1 /\ ctx' = [ctx EXCEPT ![current] = Strayed(@)]
  <2>1. ctx' = [ctx EXCEPT ![current] = Stray]
    BY <1>1, <1>2, <1>3, <1>5
  <2>2. TypeOK'
    <3>1. early \in Nat /\ early - 1 \in Nat
      BY <1>5 DEF IInv, TypeOK
    <3>2. ctx' \in [Clients -> Record]
      BY <1>1, <1>2, <2>1, StrayLemma
    <3> QED
      BY <1>4, <1>5, <3>1, <3>2 DEF IInv, TypeOK
  <2>3. \A c \in Clients : Sound(ctx'[c])
    BY <1>2, <2>1, StrayLemma
  <2>4. InFlight' = Others \cup {current}
    BY <1>1, <1>2, <2>1, StrayLemma DEF InFlight, Others
  <2>5. IsFiniteSet(InFlight') /\ Cardinality(InFlight') = Cardinality(Others) + 1
    BY <1>1, <2>4, FS_AddElement
  <2>6. early' + Cardinality(InFlight') = atOnce'
    <3>1. early \in Nat
      BY DEF IInv, TypeOK
    <3> QED
      BY <1>1, <1>4, <1>5, <2>5, <3>1
  <2>7. Counted'
    BY <1>4, <2>5, <2>6 DEF Counted
  <2> QED
    BY <1>4, <2>2, <2>3, <2>7 DEF IInv
<1>6. CASE /\ UNCHANGED early
           /\ \E a \in Others : ctx' = [ctx EXCEPT ![current] = Strayed(@), ![a] = Abandoned(@)]
  <2>1. PICK a \in Others : ctx' = [ctx EXCEPT ![current] = Strayed(@), ![a] = Abandoned(@)]
    BY <1>6
  <2>2. ctx' = [ctx EXCEPT ![current] = Stray, ![a] = Abandoned(@)]
    BY <1>1, <1>2, <1>3, <2>1
  <2> QED
    BY <1>3, <1>4, <1>6, <2>2, ReplacedLemma
<1> QED
  BY <1>5, <1>6 DEF StrayPacket

LEMMA OtherFailsStep ==
  ASSUME IInv, loop = "running", current # NULL, OtherFails
  PROVE  IInv'
<1>1. PICK a \in Others : ctx' = [ctx EXCEPT ![a] = Abandoned(@)]
  BY DEF OtherFails
<1>2. /\ current \in Clients /\ ctx[current] = Accepting /\ a \in Clients /\ a # current
      /\ ctx \in [Clients -> Record]
  BY CurrentLemma DEF IInv, TypeOK
<1>3. ctx' = [ctx EXCEPT ![current] = Accepting, ![a] = Abandoned(@)]
  <2>1. [ctx EXCEPT ![current] = Accepting] = ctx
    BY <1>2
  <2> QED
    BY <1>1, <1>2, <2>1
<1>4. Accepting \in Waiting
  BY DEF Waiting
<1> QED
  BY <1>3, <1>4, ReplacedLemma DEF OtherFails

LEMMA AcceptedStep ==
  ASSUME IInv, loop = "running", Accepted
  PROVE  IInv'
BY FirstRequestStep, EmptyRequestStep, AcceptFailsStep, OtherLengthStep, StrayPacketStep,
   OtherFailsStep DEF Accepted

\* A record of one's own for the next browser.
LEMMA NewRecord ==
  ASSUME IInv, loop = "accepting", NEW n \in Unused, NEW p, Sound(p), current' = n,
         ctx' = [ctx EXCEPT ![n] = p]
  PROVE  /\ n \in Clients /\ ctx' \in [Clients -> Record] /\ ctx'[n] = p
         /\ \A c \in Clients : Sound(ctx'[c])
         /\ Others' = InFlight
         /\ p \notin Waiting => InFlight' = InFlight
<1>1. n \in Clients /\ ctx[n] = Blank
  BY DEF Unused, IInv, Sound
<1>2. ctx \in [Clients -> Record] /\ \A c \in Clients : Sound(ctx[c])
  BY DEF IInv, TypeOK
<1>3. p \in Record
  BY DEF Sound
<1>4. \A c \in Clients : ctx'[c] = IF c = n THEN p ELSE ctx[c]
  BY <1>2
<1>5. ctx' \in [Clients -> Record]
  BY <1>2, <1>3
<1>6. "accept" \notin Range(ctx[n].ops)
  BY <1>1, AcceptingLemma
<1>7. Others' = InFlight
  BY <1>4, <1>6 DEF Others, InFlight
<1>8. ASSUME p \notin Waiting PROVE InFlight' = InFlight
  <2>1. "accept" \notin Range(p.ops)
    BY <1>8, NotWaiting
  <2> QED
    BY <1>4, <1>6, <2>1 DEF InFlight
<1>9. \A c \in Clients : Sound(ctx'[c])
  BY <1>2, <1>4
<1> QED
  BY <1>1, <1>4, <1>5, <1>7, <1>8, <1>9

LEMMA AcceptNextStep ==
  ASSUME IInv, AcceptNext
  PROVE  IInv'
<1>1. loop = "accepting" /\ IsFiniteSet(InFlight) /\ early + Cardinality(InFlight) = atOnce
  BY DEF AcceptNext, IInv, Counted
<1>2. early \in Nat /\ atOnce \in Nat /\ Cardinality(InFlight) \in Nat
  BY <1>1, FS_CardinalityType DEF IInv, TypeOK
<1>3. CASE Unused = {} /\ current' = NULL /\ loop' = "running" /\ UNCHANGED <<ctx, early, atOnce>>
  <2>1. Others' = InFlight
    BY <1>3, IocpAssumption DEF Others, InFlight
  <2>2. TypeOK' /\ \A c \in Clients : Sound(ctx'[c])
    BY <1>3 DEF IInv, TypeOK
  <2>3. Counted'
    BY <1>1, <1>3, <2>1 DEF Counted
  <2> QED
    BY <1>3, <2>2, <2>3 DEF IInv
<1>4. ASSUME NEW n \in Unused, current' = n, Pending(n) PROVE IInv'
  <2>1. /\ ctx' = [ctx EXCEPT ![n] = Accepting] /\ loop' = "running"
        /\ early' = early /\ atOnce' = atOnce
    BY <1>4 DEF Pending
  <2>2. /\ n \in Clients /\ ctx' \in [Clients -> Record] /\ ctx'[n] = Accepting
        /\ \A c \in Clients : Sound(ctx'[c])
        /\ Others' = InFlight
    BY <1>1, <1>4, <2>1, AcceptingLemma, NewRecord
  <2>3. TypeOK'
    BY <1>2, <1>4, <2>1, <2>2 DEF TypeOK
  <2>4. Counted'
    BY <1>1, <2>1, <2>2 DEF Counted
  <2> QED
    BY <1>4, <2>1, <2>2, <2>3, <2>4 DEF IInv
<1>5. ASSUME NEW n \in Unused, current' = n, AtOnce(n) PROVE IInv'
  <2>1. PICK r \in Inputs \cup {Nothing} : \E o \in ProcessRequest(Take(Accepting, 1), r) :
          ctx' = [ctx EXCEPT ![n] = o]
    BY <1>5 DEF AtOnce
  <2>2. PICK o \in ProcessRequest(Take(Accepting, 1), r) : ctx' = [ctx EXCEPT ![n] = o]
    BY <2>1
  <2>3. Parsable(r)
    BY InputsParsable, NothingParsable
  <2>4. Handled(Take(Accepting, 1))
    BY TakenWaiting DEF Waiting
  <2>5. Handled(o)
    BY <2>2, <2>3, <2>4, ProcessRequestLemma
  <2>6. Sound(o) /\ o \notin Waiting
    BY <2>5, HandledSound
  <2>7. loop' = "accepting" /\ early' = early + 1 /\ atOnce' = atOnce + 1
    BY <1>1, <1>5 DEF AtOnce
  <2>8. /\ n \in Clients /\ ctx' \in [Clients -> Record]
        /\ \A c \in Clients : Sound(ctx'[c])
        /\ InFlight' = InFlight
    BY <1>1, <1>5, <2>2, <2>6, NewRecord
  <2>9. TypeOK'
    BY <1>2, <1>5, <2>7, <2>8 DEF TypeOK
  <2>10. early' + Cardinality(InFlight') = atOnce'
    BY <1>1, <1>2, <2>7, <2>8
  <2>11. Counted'
    BY <1>1, <2>7, <2>8, <2>10 DEF Counted
  <2> QED
    BY <2>7, <2>8, <2>9, <2>11 DEF IInv
<1>6. CASE loop' = "returned" /\ UNCHANGED <<ctx, current, early, atOnce>>
  BY <1>6 DEF IInv, TypeOK, Counted
<1> QED
  BY <1>3, <1>4, <1>5, <1>6 DEF AcceptNext

(***************************************************************************)
(* The invariant, and what it says of the program.                         *)
(***************************************************************************)
LEMMA InitIInv ==
  Init => IInv
<1> SUFFICES ASSUME Init PROVE IInv
  OBVIOUS
<1>1. /\ ctx = [c \in Clients |-> Blank] /\ current = NULL /\ loop = "accepting"
      /\ early = 0 /\ atOnce = 0
  BY DEF Init
<1>2. TypeOK /\ \A c \in Clients : Sound(ctx[c])
  BY <1>1, AcceptingLemma DEF TypeOK
<1>3. InFlight = {}
  BY <1>1, AcceptingLemma DEF InFlight
<1>4. Counted
  BY <1>1, <1>3, FS_EmptySet DEF Counted
<1> QED
  BY <1>1, <1>2, <1>4 DEF IInv

LEMMA ClientStepIInv ==
  ASSUME IInv, NEW c \in Clients, ClientStep(c)
  PROVE  IInv'
BY RequestStep, HandShakeSentStep, ReadStaticFileStep, SendPartFileStep, RecvNextRequestStep,
   ListDirRecvNextRequestStep, PostRecvNectRequestStep, PostWritePartFileStep,
   POSTWaitFileDataStep, AfterSendHTMLStep, InvalidStateStep, EmptyStep, StaleStep, AbortedStep,
   ConnectionAbortedStep, ForgottenStep DEF ClientStep

LEMMA NextIInv ==
  IInv /\ [Next]_vars => IInv'
<1> SUFFICES ASSUME IInv, [Next]_vars PROVE IInv'
  OBVIOUS
<1>1. CASE \E c \in Clients : ClientStep(c)
  BY <1>1, ClientStepIInv
<1>2. CASE loop = "running" /\ Accepted
  BY <1>2, AcceptedStep
<1>3. CASE AcceptNext
  BY <1>3, AcceptNextStep
<1>4. CASE Stop
  BY <1>4 DEF Stop, IInv, TypeOK, Counted
<1>5. CASE UNCHANGED vars
  BY <1>5 DEF vars, IInv, TypeOK, Counted, Others, InFlight
<1> QED
  BY <1>1, <1>2, <1>3, <1>4, <1>5 DEF Next, Returned

LEMMA Invariance ==
  Spec => []IInv
<1> QED
  BY InitIInv, NextIInv, PTL DEF Spec

\* The variables keep their types: in particular a piece is sent only of a file
\* that has one left, and no body is taken for longer than it was announced.
THEOREM TypeCorrect == Spec => []TypeOK
<1>1. IInv => TypeOK
  BY DEF IInv
<1> QED
  BY <1>1, Invariance, PTL

\* However many AcceptEx have completed at once, so many packets of accepts are not
\* currentCtx's and will be taken for its own; as long as none has, currentCtx's is
\* the only one.
THEOREM CurrentAccepting == Spec => []CurrentAccepts
<1>1. ASSUME IInv PROVE CurrentAccepts
  BY <1>1, AcceptingLemma DEF IInv, Counted, CurrentAccepts
<1> QED
  BY <1>1, Invariance, PTL

\* The packet that frees a record is the only one of its kind, and none is left
\* behind it: RunIOCPLoop never frees a record twice.
THEOREM DisconnectFreeing == Spec => []DisconnectFrees
<1>1. ASSUME IInv PROVE DisconnectFrees
  <2> SUFFICES ASSUME NEW c \in Clients
               PROVE  /\ Cardinality({i \in DOMAIN ctx[c].ops : ctx[c].ops[i] = "disconnect"}) <= 1
                      /\ ctx[c].mem = "freed" => "disconnect" \notin Range(ctx[c].ops)
    BY DEF DisconnectFrees
  <2> DEFINE S == {i \in DOMAIN ctx[c].ops : ctx[c].ops[i] = "disconnect"}
  <2>1. \A i, j \in S : i = j
    <3>1. CASE ctx[c] \in Waiting
      BY <3>1, WaitingLemma
    <3>2. CASE ctx[c] \notin Waiting
      BY <1>1, <3>2 DEF IInv, Sound, Orderly
    <3> QED
      BY <3>1, <3>2
  <2> HIDE DEF S
  <2>2. S = {} \/ \E i : S = {i}
    BY <2>1
  <2>3. Cardinality(S) \in {0, 1}
    BY <2>2, FS_EmptySet, FS_Singleton
  <2>4. Cardinality(S) <= 1
    BY <2>3
  <2>5. ctx[c].mem = "freed" => "disconnect" \notin Range(ctx[c].ops)
    BY <1>1 DEF IInv, Sound
  <2> QED
    BY <2>4, <2>5 DEF S
<1> QED
  BY <1>1, Invariance, PTL

(***************************************************************************)
(* The second part: the requests the server follows to their end.  A       *)
(* record then has one operation in flight, so the handler of its state    *)
(* runs on a record the kernel holds nothing for.                          *)
(***************************************************************************)
Held(o) == o.handles = IF o.file THEN 1 ELSE 0

\* What the state says of the Connection line last sent.
Promised(o) ==
  /\ o.state \in {"ReadStaticFile", "SendPartFile", "ListDirRecvNextRequest", "PostRecvNectRequest"}
       => o.said = Announced(o)
  /\ o.state \in {"AfterRecv", "RecvNextRequest"} => o.said # "close"
  /\ o.state = "AfterSendHTML" => o.said # "keep-alive"

\* What the state says of hProcess, and of the body that is to come.
Filed(o) ==
  /\ o.state \in {"AfterRecv", "ListDirRecvNextRequest", "PostRecvNectRequest"} => ~o.file
  /\ o.state \in {"POSTWaitFileData", "PostWritePartFile"} => o.file
  /\ o.state = "POSTWaitFileData" => o.body > 0

Ready(o) ==
  /\ o \in Record /\ o.mem = "live" /\ o.failed \subseteq {"heap", "stray"} /\ Held(o)
  /\ o.gone <=> o.state = "AfterDisconnect"
  /\ Promised(o) /\ Filed(o)

Served(o) ==
  /\ Ready(o)
  /\ o.lost => o.ops \in {<<>>, <<"accept">>}
  /\ ~o.lost => \E op \in Awaits[o.state] : o.ops = <<op>>

Settled(o) ==
  /\ o.mem = "live" => Served(o)
  /\ o.mem = "freed" => o.ops = <<>> /\ o.handles = 0 /\ ~o.file /\ o.failed \subseteq {"heap", "stray"}
  /\ o.mem = "none" => o = Blank

SInv == IInv /\ \A c \in Clients : Settled(ctx[c])

LEMMA AwaitsLemma ==
  /\ Awaits["AfterRecv"] = {"recv", "accept"}
  /\ Awaits["SendPartFile"] = {"read"}
  /\ Awaits["PostWritePartFile"] = {"write"}
  /\ Awaits["POSTWaitFileData"] = {"recv"}
  /\ Awaits["AfterDisconnect"] = {"disconnect"}
  /\ Awaits["WebSocketConnecting"] = {"recv", "send"}
  /\ \A st \in {"ReadStaticFile", "RecvNextRequest", "ListDirRecvNextRequest",
                "PostRecvNectRequest", "AfterSendHTML", "AfterHandShake"} : Awaits[st] = {"send"}
  /\ \A st \in States : "aborted" \notin Awaits[st]
BY DEF Awaits, States

\* A record in the hands of a handler whose client is not being closed.
InHand(o) ==
  /\ o \in Record /\ o.mem = "live" /\ o.ops = <<>> /\ o.gone = FALSE /\ o.lost = FALSE
  /\ o.failed \subseteq {"heap", "stray"} /\ Held(o)

\* A completion leaves nothing in flight.
LEMMA TakenLemma ==
  ASSUME SInv, NEW c \in Clients, NEW kinds, "accept" \notin kinds, NEW o \in Completed(c, kinds)
  PROVE  /\ Ready(o) /\ o.ops = <<>> /\ o.lost = FALSE
         /\ o.state # "AfterDisconnect" => InHand(o)
         /\ \E op \in Awaits[o.state] : op \in kinds
<1>1. PICK i \in DOMAIN ctx[c].ops :
        o = Take(ctx[c], i) /\ ctx[c].mem = "live" /\ ctx[c].ops[i] \in kinds
  BY DEF Completed
<1>2. Served(ctx[c]) /\ ctx[c] \in Record
  BY <1>1 DEF SInv, Settled, IInv, Sound
<1>3. DOMAIN <<>> = {} /\ \A k \in DOMAIN <<"accept">> : <<"accept">>[k] = "accept"
  OBVIOUS
<1>4. ctx[c].ops \notin {<<>>, <<"accept">>}
  BY <1>1, <1>3
<1>5. ctx[c].lost = FALSE
  BY <1>2, <1>4 DEF Served, Record
<1>13. PICK op \in Awaits[ctx[c].state] : ctx[c].ops = <<op>>
  BY <1>2, <1>5 DEF Served
<1> DEFINE s == <<op>>
<1>6. i = 1 /\ op \in kinds
  <2>1. \A k \in DOMAIN <<op>> : k = 1 /\ <<op>>[k] = op
    OBVIOUS
  <2> QED
    BY <1>1, <1>13, <2>1
<1>7. s \in Seq(Ops) /\ Len(s) = 1 /\ 1 \in DOMAIN s
  <2>1. ctx[c].ops \in Seq(Ops)
    BY <1>2 DEF Record
  <2>2. Len(<<op>>) = 1 /\ 1 \in DOMAIN <<op>>
    OBVIOUS
  <2> QED
    BY <1>13, <2>1, <2>2
<1> HIDE DEF s
<1>8. RemoveAt(s, 1) = <<>>
  BY <1>7, RemoveAtLemma
<1>9. o = [ctx[c] EXCEPT !.ops = <<>>]
  BY <1>1, <1>6, <1>8, <1>13 DEF Take, s
<1>10. /\ o.mem = ctx[c].mem /\ o.ops = <<>> /\ o.gone = ctx[c].gone /\ o.lost = ctx[c].lost
       /\ o.failed = ctx[c].failed /\ o.file = ctx[c].file /\ o.handles = ctx[c].handles
       /\ o.state = ctx[c].state /\ o.said = ctx[c].said /\ o.keep = ctx[c].keep
       /\ o.body = ctx[c].body /\ o \in Record
  <2> DEFINE v == ctx[c]
             none == <<>>
  <2>1. o = [v EXCEPT !.ops = none] /\ v \in Record /\ none \in Seq(Ops)
    BY <1>2, <1>9
  <2> HIDE DEF v, none
  <2>2. /\ o.mem = v.mem /\ o.ops = none /\ o.gone = v.gone /\ o.lost = v.lost
        /\ o.failed = v.failed /\ o.file = v.file /\ o.handles = v.handles
        /\ o.state = v.state /\ o.said = v.said /\ o.keep = v.keep
        /\ o.body = v.body /\ o \in Record
    BY <2>1 DEF Record
  <2> QED
    BY <2>2 DEF v, none
<1>11. Ready(o)
  BY <1>2, <1>10 DEF Served, Ready, Held, Promised, Filed, Announced
<1>12. o.state # "AfterDisconnect" => InHand(o)
  BY <1>5, <1>10, <1>11 DEF Ready, InHand, Record
<1> QED
  BY <1>5, <1>6, <1>10, <1>11, <1>12, <1>13

\* p is o but for what it sends next, its url, its directory's text or its count.
Matches(o, p) ==
  /\ p \in Record /\ p.mem = o.mem /\ p.ops = o.ops /\ p.gone = o.gone /\ p.lost = o.lost
  /\ p.failed = o.failed /\ p.file = o.file /\ p.handles = o.handles

LEMMA MatchesInHand ==
  ASSUME NEW o, InHand(o), NEW p, Matches(o, p)
  PROVE  InHand(p)
BY DEF InHand, Matches, Held

LEMMA MatchesServed ==
  ASSUME NEW o, Served(o), NEW p, Matches(o, p),
         p.state = o.state, p.said = o.said, p.keep = o.keep, p.body = o.body
  PROVE  Served(p)
BY DEF Served, Ready, Matches, Held, Promised, Filed, Announced

\* One operation submitted for a record in hand.
Submitting(o, op, st, said) == [o EXCEPT !.ops = <<op>>, !.state = st, !.said = said]

Submitted(o, op, st, said, p) ==
  /\ p \in Record /\ p.mem = "live" /\ p.ops = <<op>> /\ p.gone = FALSE /\ p.lost = FALSE
  /\ p.failed \subseteq {"heap", "stray"} /\ Held(p) /\ p.state = st /\ p.said = said
  /\ p.file = o.file /\ p.keep = o.keep /\ p.body = o.body

LEMMA SubmittingLemma ==
  ASSUME NEW o, InHand(o), NEW op \in Ops, NEW st \in States,
         NEW said \in {"nothing", "keep-alive", "close"}
  PROVE  Submitted(o, op, st, said, Submitting(o, op, st, said))
<1> DEFINE s == <<op>>
           q == [o EXCEPT !.ops = s, !.state = st, !.said = said]
<1>1. s \in Seq(Ops) /\ Submitting(o, op, st, said) = q
  BY DEF Submitting
<1> HIDE DEF s
<1>2. /\ q \in Record /\ q.mem = o.mem /\ q.ops = s /\ q.gone = o.gone /\ q.lost = o.lost
      /\ q.failed = o.failed /\ q.handles = o.handles /\ q.state = st /\ q.said = said
      /\ q.file = o.file /\ q.keep = o.keep /\ q.body = o.body
  BY <1>1 DEF InHand, Record
<1> HIDE DEF q
<1>3. Submitted(o, op, st, said, q)
  BY <1>2 DEF InHand, Held, Submitted, s
<1> QED
  BY <1>1, <1>3

\* A recv, whatever the state: the Connection line last sent is what it was.
LEMMA RecvSubmitting ==
  ASSUME NEW o, InHand(o), NEW st \in States
  PROVE  [Submit(o, "recv") EXCEPT !.state = st] = Submitting(o, "recv", st, o.said)
<1> DEFINE s == <<"recv">>
<1>1. Append(o.ops, "recv") = s
  BY DEF InHand
<1>2. [Submit(o, "recv") EXCEPT !.state = st] = [[o EXCEPT !.ops = s] EXCEPT !.state = st]
  BY <1>1 DEF Submit, InHand
<1>3. o \in Record /\ Submitting(o, "recv", st, o.said) =
        [o EXCEPT !.ops = s, !.state = st, !.said = o.said]
  BY DEF Submitting, InHand
<1> HIDE DEF s
<1>4. [[o EXCEPT !.ops = s] EXCEPT !.state = st] = [o EXCEPT !.ops = s, !.state = st, !.said = o.said]
  BY <1>3 DEF Record
<1> QED
  BY <1>2, <1>3, <1>4

LEMMA AppendInHand ==
  ASSUME NEW o, InHand(o), NEW op \in Ops
  PROVE  Append(o.ops, op) = <<op>>
BY DEF InHand

\* An answer, and what its state needs of the Connection line and the file.
LEMMA AnswerServed ==
  ASSUME NEW o, InHand(o), NEW said \in {"nothing", "keep-alive", "close"},
         NEW st \in {"ReadStaticFile", "RecvNextRequest", "ListDirRecvNextRequest",
                     "PostRecvNectRequest", "AfterSendHTML", "AfterHandShake"},
         st \in {"ReadStaticFile", "ListDirRecvNextRequest", "PostRecvNectRequest"}
           => said = Announced(o),
         st = "RecvNextRequest" => said # "close",
         st = "AfterSendHTML" => said # "keep-alive",
         st \in {"ListDirRecvNextRequest", "PostRecvNectRequest"} => ~o.file
  PROVE  Served(Answer(o, st, said)) /\ Answer(o, st, said) \in Record
<1> DEFINE p == Submitting(o, "send", st, said)
<1>1. "send" \in Ops /\ st \in States
  BY DEF Ops, SocketOps, States
<1>2. Answer(o, st, said) = p /\ p = Submitting(o, "send", st, said)
  BY <1>1, AppendInHand DEF Answer, Submit, Submitting, InHand, Record
<1> HIDE DEF p
<1>3. Submitted(o, "send", st, said, p)
  BY <1>1, <1>2, SubmittingLemma
<1>4. Ready(p)
  BY <1>3 DEF Submitted, Ready, Promised, Filed, Announced
<1>5. "send" \in Awaits[p.state]
  BY <1>3, AwaitsLemma DEF Submitted
<1> QED
  BY <1>2, <1>3, <1>4, <1>5 DEF Served, Submitted

LEMMA RecvServed ==
  ASSUME NEW o, InHand(o), ~o.file, o.said # "close"
  PROVE  Served(Recv(o))
<1> DEFINE p == Submitting(o, "recv", "AfterRecv", o.said)
<1>1. "recv" \in Ops /\ "AfterRecv" \in States /\ o.said \in {"nothing", "keep-alive", "close"}
  BY DEF Ops, SocketOps, States, InHand, Record
<1>2. Recv(o) = p /\ p = Submitting(o, "recv", "AfterRecv", o.said)
  BY <1>1, RecvSubmitting DEF Recv
<1> HIDE DEF p
<1>3. Submitted(o, "recv", "AfterRecv", o.said, p)
  BY <1>1, <1>2, SubmittingLemma
<1>4. Ready(p)
  BY <1>3 DEF Submitted, Ready, Promised, Filed
<1>5. "recv" \in Awaits[p.state]
  BY <1>3, AwaitsLemma DEF Submitted
<1> QED
  BY <1>2, <1>3, <1>4, <1>5 DEF Served, Submitted

LEMMA CloseServed ==
  ASSUME NEW o, InHand(o)
  PROVE  Served(CloseClient(o))
<1> DEFINE s == <<"disconnect">>
           p == [o EXCEPT !.state = "AfterDisconnect", !.ops = s, !.gone = TRUE]
<1>1. Append(Cancelled(<<>>), "disconnect") = s
  <2>1. DOMAIN <<>> = {}
    OBVIOUS
  <2>2. Cancelled(<<>>) = <<>>
    BY <2>1 DEF Cancelled
  <2>3. Append(<<>>, "disconnect") = <<"disconnect">>
    OBVIOUS
  <2> QED
    BY <2>2, <2>3
<1>2. CloseClient(o) = p
  BY <1>1 DEF CloseClient, InHand, Record
<1>3. s \in Seq(Ops)
  BY DEF Ops, SocketOps
<1> HIDE DEF s
<1>4. /\ p \in Record /\ p.mem = o.mem /\ p.ops = s /\ p.gone = TRUE /\ p.lost = o.lost
      /\ p.failed = o.failed /\ p.handles = o.handles /\ p.file = o.file
      /\ p.state = "AfterDisconnect"
  BY <1>3 DEF InHand, Record, States
<1> HIDE DEF p
<1>5. Ready(p) /\ ~p.lost
  BY <1>4 DEF Ready, InHand, Held, Promised, Filed
<1>6. "disconnect" \in Awaits[p.state]
  BY <1>4, AwaitsLemma
<1> QED
  BY <1>2, <1>4, <1>5, <1>6 DEF Served, s

LEMMA FileInHand ==
  ASSUME NEW o, InHand(o)
  PROVE  /\ ~o.file => InHand(OpenFile(o)) /\ OpenFile(o).file
         /\ InHand(CloseFile(o)) /\ ~CloseFile(o).file
         /\ OpenFile(o).said = o.said /\ OpenFile(o).keep = o.keep /\ OpenFile(o).body = o.body
         /\ CloseFile(o).said = o.said /\ CloseFile(o).keep = o.keep
         /\ CloseFile(o).body = o.body
<1>1. o \in Record /\ (~o.file => o.handles = 0) /\ (o.file => o.handles = 1)
  BY DEF InHand, Held
<1> DEFINE n == o.handles + 1
           m == o.handles - 1
           p == [o EXCEPT !.file = TRUE, !.handles = n]
           q == [o EXCEPT !.file = FALSE, !.handles = m]
<1>2. n \in Int /\ m \in Int /\ (~o.file => n = 1) /\ (o.file => m = 0)
  BY <1>1 DEF Record
<1>3. OpenFile(o) = p /\ CloseFile(o) = IF o.file THEN q ELSE o
  BY <1>1 DEF OpenFile, CloseFile, Record
<1> HIDE DEF n, m
<1>4. /\ p \in Record /\ p.mem = o.mem /\ p.ops = o.ops /\ p.gone = o.gone /\ p.lost = o.lost
      /\ p.failed = o.failed /\ p.handles = n /\ p.file = TRUE
      /\ p.said = o.said /\ p.keep = o.keep /\ p.body = o.body
  BY <1>1, <1>2 DEF Record
<1>5. /\ q \in Record /\ q.mem = o.mem /\ q.ops = o.ops /\ q.gone = o.gone /\ q.lost = o.lost
      /\ q.failed = o.failed /\ q.handles = m /\ q.file = FALSE
      /\ q.said = o.said /\ q.keep = o.keep /\ q.body = o.body
  BY <1>1, <1>2 DEF Record
<1> HIDE DEF p, q
<1>6. ~o.file => InHand(p) /\ p.file
  BY <1>2, <1>4 DEF InHand, Held
<1>7. o.file => InHand(q) /\ ~q.file
  BY <1>2, <1>5 DEF InHand, Held
<1> QED
  BY <1>3, <1>4, <1>5, <1>6, <1>7

\* A body that is written to its file.
LEMMA OnBodyServed ==
  ASSUME NEW o, InHand(o), o.file, NEW n \in Nat, n <= o.body
  PROVE  Served(OnBody(o, n)) /\ OnBody(o, n).state = "PostWritePartFile"
<1> DEFINE s == <<"write">>
           m == o.body - n
           p == [o EXCEPT !.state = "PostWritePartFile", !.ops = s, !.body = m]
<1>1. s \in Seq(Ops) /\ m \in Nat
  BY DEF Ops, InHand, Record
<1>2. OnBody(o, n) = p
  BY AppendInHand DEF OnBody, InHand, Record, Ops
<1> HIDE DEF s, m
<1>3. /\ p \in Record /\ p.mem = o.mem /\ p.ops = s /\ p.gone = o.gone /\ p.lost = o.lost
      /\ p.failed = o.failed /\ p.handles = o.handles /\ p.file = o.file
      /\ p.state = "PostWritePartFile"
  BY <1>1 DEF InHand, Record, States
<1> HIDE DEF p
<1>4. Ready(p) /\ ~p.lost
  BY <1>3 DEF Ready, InHand, Held, Promised, Filed
<1>5. "write" \in Awaits[p.state]
  BY <1>3, AwaitsLemma
<1> QED
  BY <1>2, <1>3, <1>4, <1>5 DEF Served, s

\* More of the body is waited for.
LEMMA WaitServed ==
  ASSUME NEW o, InHand(o), o.file, o.body > 0
  PROVE  Served([Submit(o, "recv") EXCEPT !.state = "POSTWaitFileData"])
<1> DEFINE p == Submitting(o, "recv", "POSTWaitFileData", o.said)
<1>1. /\ "recv" \in Ops /\ "POSTWaitFileData" \in States
      /\ o.said \in {"nothing", "keep-alive", "close"}
  BY DEF Ops, SocketOps, States, InHand, Record
<1>2. /\ [Submit(o, "recv") EXCEPT !.state = "POSTWaitFileData"] = p
      /\ p = Submitting(o, "recv", "POSTWaitFileData", o.said)
  BY <1>1, RecvSubmitting
<1> HIDE DEF p
<1>3. Submitted(o, "recv", "POSTWaitFileData", o.said, p)
  BY <1>1, <1>2, SubmittingLemma
<1>4. Ready(p)
  BY <1>3 DEF Submitted, Ready, Promised, Filed
<1>5. "recv" \in Awaits[p.state]
  BY <1>3, AwaitsLemma DEF Submitted
<1> QED
  BY <1>2, <1>3, <1>4, <1>5 DEF Served, Submitted

(***************************************************************************)
(* processRequest, for such requests.                                      *)
(***************************************************************************)
LEMMA ParsedInHand ==
  ASSUME NEW o, InHand(o), NEW r, Parsable(r)
  PROVE  /\ InHand(Parsed(o, r)) /\ Parsed(o, r).file = o.file
         /\ Parsed(o, r).body = r.body
         /\ Parsed(o, r).state = o.state /\ Parsed(o, r).said = o.said
<1>1. o \in Record /\ r \in InputType
  BY DEF InHand, Parsable
<1> DEFINE n == o.count + 1
           url == IF r.path = Root THEN o.url ELSE r.path
           keep == IF o.first /\ Whole(r) THEN r.keep ELSE o.keep
           first == o.first /\ ~Whole(r)
           p == [o EXCEPT !.count = n, !.asked = r.path, !.url = url, !.body = r.body,
                          !.keep = keep, !.first = first]
<1>2. /\ n \in Nat /\ url \in Paths \cup {NULL} /\ keep \in BOOLEAN /\ first \in BOOLEAN
      /\ r.path \in Paths \cup {NULL, Root} /\ r.body \in Nat
  BY <1>1 DEF Record, InputType, Whole
<1>3. Parsed(o, r) = p
  BY <1>1 DEF Parsed, Record
<1> HIDE DEF n, url, keep, first
<1>4. /\ Matches(o, p) /\ p.file = o.file /\ p.body = r.body
      /\ p.state = o.state /\ p.said = o.said
  <2>1. p \in Record
    BY <1>1, <1>2, Zenon DEF Record
  <2>2. /\ p.mem = o.mem /\ p.ops = o.ops /\ p.gone = o.gone /\ p.lost = o.lost
        /\ p.failed = o.failed /\ p.file = o.file /\ p.handles = o.handles
        /\ p.body = r.body /\ p.state = o.state /\ p.said = o.said
    BY <1>1, Zenon DEF Record
  <2> QED
    BY <2>1, <2>2 DEF Matches
<1> HIDE DEF p
<1> QED
  BY <1>3, <1>4, MatchesInHand

LEMMA ServingInHand ==
  ASSUME NEW o, InHand(o)
  PROVE  InHand(Serving(o)) /\ Serving(o).file = o.file
<1> DEFINE path == IF o.url = NULL THEN Root ELSE o.url
           p == [o EXCEPT !.served = path]
<1>1. path \in Paths \cup {NULL, Root} /\ o \in Record
  BY DEF InHand, Record
<1> HIDE DEF path
<1>2. Matches(o, p) /\ p.file = o.file
  BY <1>1 DEF Record, Matches
<1> HIDE DEF p
<1> QED
  BY <1>2, MatchesInHand DEF Serving, p, path

LEMMA PostServed ==
  ASSUME NEW o, InHand(o), ~o.file, NEW r, Parsable(r), Whole(r), o.body = r.body, r.body > 0,
         NEW p \in Post(o, r)
  PROVE  Served(p)
<1> DEFINE f == OpenFile(o)
           q == [f EXCEPT !.state = "POSTWaitFileData"]
<1>1. InHand(f) /\ f.file /\ f.body = r.body
  BY FileInHand
<1>2. r.here \in Nat /\ r.body \in Nat /\ r.here <= r.body
  BY DEF Parsable, InputType
<1>3. PostOpened(o, r) = IF r.here > 0 THEN OnBody(q, r.here) ELSE Submit(q, "recv")
  BY DEF PostOpened
<1> HIDE DEF f
<1>4. Matches(f, q) /\ q.file /\ q.body = r.body /\ q.state = "POSTWaitFileData"
  <2>1. f \in Record /\ "POSTWaitFileData" \in States
    BY <1>1 DEF InHand, States
  <2>2. q \in Record
    BY <2>1, Zenon DEF Record
  <2>3. /\ q.mem = f.mem /\ q.ops = f.ops /\ q.gone = f.gone /\ q.lost = f.lost
        /\ q.failed = f.failed /\ q.file = f.file /\ q.handles = f.handles
        /\ q.body = f.body /\ q.state = "POSTWaitFileData"
    BY <2>1, Zenon DEF Record
  <2> QED
    BY <1>1, <2>2, <2>3 DEF Matches
<1> HIDE DEF q
<1>5. InHand(q)
  BY <1>1, <1>4, MatchesInHand
<1>6. CASE p = PostOpened(o, r) /\ r.here > 0
  BY <1>2, <1>3, <1>4, <1>5, <1>6, OnBodyServed
<1>7. CASE p = PostOpened(o, r) /\ ~(r.here > 0)
  <2> DEFINE w == Submit(q, "recv")
  <2>1. p = w
    BY <1>3, <1>7
  <2>2. Kernel(q)
    BY <1>5 DEF InHand, Kernel, Orderly
  <2>3. w \in Record /\ w.state = "POSTWaitFileData"
    BY <1>4, <2>2, SubmitLemma DEF Kernel, Alike
  <2> HIDE DEF w
  <2>4. [w EXCEPT !.state = "POSTWaitFileData"] = w
    BY <2>3 DEF Record
  <2>5. Served([w EXCEPT !.state = "POSTWaitFileData"])
    BY <1>4, <1>5, WaitServed DEF w
  <2> QED
    BY <2>1, <2>4, <2>5
<1>8. CASE p = CloseClient(o)
  BY <1>8, CloseServed
<1> QED
  BY <1>6, <1>7, <1>8 DEF Post

LEMMA GetFileServed ==
  ASSUME NEW o, InHand(o), ~o.file, NEW n \in Nat
  PROVE  Served(GetFile(o, n))
<1> DEFINE f == OpenFile(o)
<1>1. InHand(f) /\ Announced(f) = Announced(o)
  BY FileInHand DEF Announced
<1>2. CASE n = 0
  <2>1. GetFile(o, n) = Answer(f, "RecvNextRequest", "nothing")
    BY <1>2 DEF GetFile
  <2> HIDE DEF f
  <2> QED
    BY <1>1, <2>1, AnswerServed
<1>3. CASE n # 0
  <2> DEFINE a == Answer(f, "ReadStaticFile", Announced(o))
             p == [a EXCEPT !.left = n]
  <2>1. GetFile(o, n) = p
    BY <1>3 DEF GetFile
  <2>2. Announced(o) \in {"nothing", "keep-alive", "close"}
    BY DEF Announced
  <2> HIDE DEF f
  <2>3. Served(a) /\ a \in Record
    BY <1>1, <2>2, AnswerServed
  <2> HIDE DEF a
  <2>4. Matches(a, p) /\ p.state = a.state /\ p.said = a.said /\ p.keep = a.keep /\ p.body = a.body
    BY <2>3 DEF Record, Matches
  <2> HIDE DEF p
  <2> QED
    BY <2>1, <2>3, <2>4, MatchesServed
<1> QED
  BY <1>2, <1>3

LEMMA GetDirectoryServed ==
  ASSUME NEW o, InHand(o), ~o.file, NEW kind \in {"directory", "unlisted"}
  PROVE  Served(GetDirectory(o, kind))
<1>1. CASE kind = "directory"
  <2> DEFINE a == Answer(o, "ListDirRecvNextRequest", Announced(o))
             p == [a EXCEPT !.sbuf = "live"]
  <2>1. GetDirectory(o, kind) = p
    BY <1>1 DEF GetDirectory
  <2>2. Announced(o) \in {"nothing", "keep-alive", "close"}
    BY DEF Announced
  <2>3. Served(a) /\ a \in Record
    BY <2>2, AnswerServed
  <2> HIDE DEF a
  <2>4. Matches(a, p) /\ p.state = a.state /\ p.said = a.said /\ p.keep = a.keep /\ p.body = a.body
    BY <2>3 DEF Record, Matches
  <2> HIDE DEF p
  <2> QED
    BY <2>1, <2>3, <2>4, MatchesServed
<1>2. CASE kind = "unlisted"
  BY <1>2, AnswerServed DEF GetDirectory
<1> QED
  BY <1>1, <1>2

LEMMA GetServed ==
  ASSUME NEW o, InHand(o), ~o.file, NEW found \in Found, found.kind # "unread"
  PROVE  Served(Get(o, found))
<1>1. /\ found.kind \in {"file", "missing", "directory", "unlisted", "unread"}
      /\ found.pieces \in Nat
  BY IocpAssumption DEF FoundType
<1>2. CASE found.kind = "file"
  BY <1>1, <1>2, GetFileServed DEF Get
<1>3. CASE found.kind = "missing"
  BY <1>3, AnswerServed DEF Get
<1>4. CASE found.kind \in {"directory", "unlisted"}
  BY <1>4, GetDirectoryServed DEF Get
<1> QED
  BY <1>1, <1>2, <1>3, <1>4

\* A request the server follows to its end.
FollowedRequest(r) ==
  /\ Parsable(r)
  /\ r.method # "HEAD" /\ (r.method = "POST" <=> r.body > 0) /\ (r.method = "POST" => Whole(r))

LEMMA InputsFollowed ==
  ASSUME ServedToTheEnd(Inputs, Found, Faults)
  PROVE  \A r \in Inputs : FollowedRequest(r)
BY InputsParsable DEF ServedToTheEnd, FollowedRequest

LEMMA NothingFollowed ==
  FollowedRequest(Nothing)
BY NothingParsable DEF FollowedRequest, Nothing

\* A wrong length makes of it another such request, or cuts a POST in its header.
LEMMA MisreadFollowed ==
  ASSUME NEW r \in Inputs, FollowedRequest(r), NEW m \in Misread(r)
  PROVE  FollowedRequest(m) \/ (m.method = "POST" /\ ~Whole(m))
<1>1. Parsable(m)
  BY MisreadParsable
<1>2. Parsable(r) /\ r \in InputType /\ r.body \in 0..2
  BY DEF FollowedRequest, Parsable, InputType
<1>3. CASE m = r
  BY <1>3
<1>4. CASE m = [r EXCEPT !.verdict = "partial", !.body = 0, !.here = 0]
  <2>1. m.verdict = "partial" /\ m.body = 0 /\ m.method = r.method
    BY <1>2, <1>4 DEF InputType
  <2>2. ~Whole(m)
    BY <2>1 DEF Whole
  <2> QED
    BY <1>1, <2>1, <2>2 DEF FollowedRequest
<1>5. CASE r.method = "POST" /\ \E n \in 0..r.body : m = [r EXCEPT !.here = n]
  <2>1. m.verdict = r.verdict /\ m.body = r.body /\ m.method = r.method
    BY <1>2, <1>5 DEF InputType
  <2> QED
    BY <1>1, <2>1 DEF FollowedRequest, Whole
<1>6. CASE r.method # "POST" /\ m = [r EXCEPT !.verdict = "error"]
  <2>1. m.body = r.body /\ m.method = r.method
    BY <1>2, <1>6 DEF InputType
  <2> QED
    BY <1>1, <1>6, <2>1 DEF FollowedRequest
<1> QED
  BY <1>3, <1>4, <1>5, <1>6 DEF Misread

LEMMA ProcessRequestServed ==
  ASSUME ServedToTheEnd(Inputs, Found, Faults),
         NEW o, InHand(o), ~o.file, NEW r, FollowedRequest(r), NEW p \in ProcessRequest(o, r)
  PROVE  Served(p)
<1> DEFINE q == Parsed(o, r)
           s == Serving(q)
<1>1. /\ r.here \in Nat /\ r.body \in Nat /\ r.here <= r.body
      /\ r.method \in Methods /\ r.verdict \in {"ok", "partial", "error", "upgrade", "bare"}
  BY DEF FollowedRequest, Parsable, InputType
<1>2. /\ r.method # "HEAD" /\ (r.method = "POST" <=> r.body > 0)
      /\ (r.method = "POST" => Whole(r))
  BY DEF FollowedRequest
<1>3. InHand(q) /\ ~q.file /\ q.body = r.body
  BY ParsedInHand DEF FollowedRequest
<1>4. InHand(s) /\ ~s.file
  <2> HIDE DEF q
  <2> QED
    BY <1>3, ServingInHand
<1>5. CASE r.method = "POST"
  <2>1. p \in Post(q, r)
    BY <1>5 DEF ProcessRequest
  <2>2. Whole(r)
    BY <1>2, <1>5
  <2> HIDE DEF q
  <2> QED
    BY <1>2, <1>3, <1>5, <2>1, <2>2, PostServed DEF FollowedRequest
<1>6. CASE r.method # "POST"
  <2>1. ~(r.here > 0)
    BY <1>1, <1>2, <1>6
  <2>2. \/ p = CloseClient(q)
        \/ \E found \in Found : p = Get(s, found)
        \/ p = Answer(s, "AfterHandShake", "nothing")
        \/ p = Answer(s, "AfterSendHTML", "close")
    BY <1>2, <1>6, <2>1 DEF ProcessRequest
  <2> HIDE DEF q, s
  <2>3. CASE p = CloseClient(q)
    BY <1>3, <2>3, CloseServed
  <2>4. CASE \E found \in Found : p = Get(s, found)
    BY <1>4, <2>4, GetServed DEF ServedToTheEnd
  <2>5. CASE p = Answer(s, "AfterHandShake", "nothing")
    BY <1>4, <2>5, AnswerServed
  <2>6. CASE p = Answer(s, "AfterSendHTML", "close")
    BY <1>4, <2>6, AnswerServed
  <2> QED
    BY <2>2, <2>3, <2>4, <2>5, <2>6
<1> QED
  BY <1>5, <1>6

(***************************************************************************)
(* The steps of the second part.  That IInv holds is known.                *)
(***************************************************************************)
LEMMA SettledChange ==
  ASSUME SInv, IInv', NEW c \in Clients, NEW p, Settled(p), Update(c, p)
  PROVE  SInv'
<1>1. ASSUME NEW d \in Clients PROVE Settled(ctx'[d])
  BY DEF SInv, IInv, TypeOK, Update
<1> QED
  BY <1>1 DEF SInv

LEMMA ServedSettled ==
  ASSUME NEW o, Served(o)
  PROVE  Settled(o)
BY DEF Served, Ready, Settled

\* A handler of a state, for a client that is not being closed.
LEMMA ServedStep ==
  ASSUME SInv, IInv', NEW c \in Clients, NEW kinds, "accept" \notin kinds, NEW o \in Completed(c, kinds),
         NEW p, InHand(o) /\ Ready(o) => Served(p), Update(c, p), o.state # "AfterDisconnect"
  PROVE  SInv'
BY TakenLemma, ServedSettled, SettledChange

\* The bytes of a record that is being closed are none of its own operations'.
LEMMA SuccessServed ==
  ASSUME SInv, IInv', NEW c \in Clients, NEW st, st # "AfterDisconnect",
         NEW o \in Success(c, st),
         NEW p, o.state = st /\ InHand(o) /\ Ready(o) => Served(p), Update(c, p)
  PROVE  SInv'
BY ServedStep DEF Success

LEMMA RequestServed ==
  ASSUME SInv, IInv', ServedToTheEnd(Inputs, Found, Faults), NEW c \in Clients, Request(c)
  PROVE  SInv'
<1>1. PICK o \in Success(c, "AfterRecv"), r \in Inputs :
        \E p \in ProcessRequest(o, r) : Update(c, p)
  BY DEF Request
<1>2. PICK p \in ProcessRequest(o, r) : Update(c, p)
  BY <1>1
<1>3. o.state = "AfterRecv" /\ InHand(o) /\ Ready(o) => Served(p)
  BY InputsFollowed, ProcessRequestServed DEF Ready, Filed
<1> QED
  BY <1>2, <1>3, SuccessServed

LEMMA HandShakeSentServed ==
  ASSUME SInv, IInv', NEW c \in Clients, HandShakeSent(c)
  PROVE  SInv'
<1>1. PICK o \in Success(c, "AfterHandShake"), op \in {"recv", "send"} :
        Update(c, [Submit(o, op) EXCEPT !.state = "WebSocketConnecting"])
  BY DEF HandShakeSent
<1> DEFINE p == [Submit(o, op) EXCEPT !.state = "WebSocketConnecting"]
           s == <<op>>
           q == [o EXCEPT !.ops = s, !.state = "WebSocketConnecting"]
<1>2. ASSUME InHand(o) PROVE Served(p)
  <2>1. Append(o.ops, op) = s
    BY <1>2 DEF InHand
  <2>2. p = q
    BY <1>2, <2>1 DEF Submit, InHand, Record
  <2>3. s \in Seq(Ops)
    BY DEF Ops, SocketOps
  <2> HIDE DEF s, p
  <2>4. Matches([o EXCEPT !.ops = s], q) /\ q.ops = s /\ q.state = "WebSocketConnecting"
    BY <1>2, <2>3 DEF InHand, Record, Matches, States
  <2>5. /\ q.mem = o.mem /\ q.gone = o.gone /\ q.lost = o.lost /\ q.failed = o.failed
        /\ q.file = o.file /\ q.handles = o.handles /\ q \in Record
    BY <1>2, <2>3, <2>4 DEF InHand, Record, Matches
  <2> HIDE DEF q
  <2>6. Ready(q) /\ ~q.lost
    BY <1>2, <2>4, <2>5 DEF InHand, Ready, Held, Promised, Filed
  <2>7. op \in Awaits[q.state]
    BY <2>4, AwaitsLemma
  <2> QED
    BY <2>2, <2>4, <2>6, <2>7 DEF Served, s
<1> QED
  BY <1>1, <1>2, SuccessServed

LEMMA ReadStaticFileServed ==
  ASSUME SInv, IInv', NEW c \in Clients, ReadStaticFile(c)
  PROVE  SInv'
<1>1. PICK o \in Success(c, "ReadStaticFile") :
        Update(c, [o EXCEPT !.ops = Append(@, "read"), !.state = "SendPartFile"])
  BY DEF ReadStaticFile
<1> DEFINE p == [o EXCEPT !.ops = Append(@, "read"), !.state = "SendPartFile"]
           q == Submitting(o, "read", "SendPartFile", o.said)
<1>2. ASSUME InHand(o), Ready(o), o.state = "ReadStaticFile" PROVE Served(p)
  <2>1. Append(o.ops, "read") = <<"read">>
    BY <1>2 DEF InHand
  <2>2. p = q
    <3> DEFINE s == <<"read">>
    <3>1. p = [o EXCEPT !.ops = s, !.state = "SendPartFile"]
      BY <1>2, <2>1 DEF InHand, Record
    <3>2. q = [o EXCEPT !.ops = s, !.state = "SendPartFile", !.said = o.said]
      BY DEF Submitting
    <3> HIDE DEF s, p, q
    <3> QED
      BY <1>2, <3>1, <3>2 DEF InHand, Record
  <2>3. "read" \in Ops /\ "SendPartFile" \in States /\ o.said \in {"nothing", "keep-alive", "close"}
    BY <1>2 DEF Ops, States, InHand, Record
  <2>4. Submitted(o, "read", "SendPartFile", o.said, q)
    BY <1>2, <2>3, SubmittingLemma
  <2> HIDE DEF p, q
  <2>5. Ready(q)
    BY <1>2, <2>4 DEF Submitted, Ready, Promised, Filed, Announced
  <2>6. "read" \in Awaits[q.state]
    BY <2>4, AwaitsLemma DEF Submitted
  <2> QED
    BY <2>2, <2>4, <2>5, <2>6 DEF Served, Submitted
<1> QED
  BY <1>1, <1>2, SuccessServed

LEMMA SendPartFileServed ==
  ASSUME SInv, IInv', NEW c \in Clients, SendPartFile(c)
  PROVE  SInv'
<1>1. PICK o \in Success(c, "SendPartFile") : Update(c, PieceSent(o))
  BY DEF SendPartFile
<1> DEFINE st == IF o.left > 1 THEN "ReadStaticFile"
                 ELSE IF o.keep THEN "RecvNextRequest" ELSE "AfterSendHTML"
           n == o.left - 1
           a == Answer(o, st, o.said)
           p == [a EXCEPT !.left = n]
<1>2. n \in Nat
  <2>1. Handled(o) /\ o.state = "SendPartFile"
    BY CompletedLemma DEF Success, SInv
  <2> QED
    BY <2>1 DEF Handled, Kernel, Staged, Record
<1>3. ASSUME InHand(o), Ready(o), o.state = "SendPartFile" PROVE Served(PieceSent(o))
  <2>1. o.said = Announced(o)
    BY <1>3 DEF Ready, Promised
  <2>2. /\ st = "RecvNextRequest" => o.said # "close"
        /\ st = "AfterSendHTML" => o.said # "keep-alive"
        /\ st \in {"ReadStaticFile", "RecvNextRequest", "AfterSendHTML"}
        /\ o.said \in {"nothing", "keep-alive", "close"}
    BY <1>3, <2>1 DEF Announced, InHand, Record
  <2>3. PieceSent(o) = p
    BY <1>3 DEF PieceSent, Answer, Submit, InHand, Record
  <2> HIDE DEF st, n
  <2>4. Served(a) /\ a \in Record
    BY <1>3, <2>1, <2>2, AnswerServed
  <2> HIDE DEF a
  <2>5. Matches(a, p) /\ p.state = a.state /\ p.said = a.said /\ p.keep = a.keep /\ p.body = a.body
    BY <1>2, <2>4 DEF Record, Matches
  <2> HIDE DEF p
  <2> QED
    BY <2>3, <2>4, <2>5, MatchesServed
<1> QED
  BY <1>1, <1>3, SuccessServed

LEMMA RecvNextRequestServed ==
  ASSUME SInv, IInv', NEW c \in Clients, RecvNextRequest(c)
  PROVE  SInv'
<1>1. PICK o \in Success(c, "RecvNextRequest") : Update(c, Recv(CloseFile(o)))
  BY DEF RecvNextRequest
<1>2. ASSUME InHand(o), Ready(o), o.state = "RecvNextRequest" PROVE Served(Recv(CloseFile(o)))
  BY <1>2, FileInHand, RecvServed DEF Ready, Promised
<1> QED
  BY <1>1, <1>2, SuccessServed

\* Destroying a listing's text, or failing to.
LEMMA DestroyInHand ==
  ASSUME NEW o, InHand(o)
  PROVE  /\ InHand(Destroy(o)) /\ Destroy(o).file = o.file /\ Destroy(o).said = o.said
         /\ Destroy(o).keep = o.keep
<1> DEFINE f == o.failed \cup {"heap"}
           p == [o EXCEPT !.sbuf = "destroyed"]
           q == [o EXCEPT !.failed = f]
<1>1. o \in Record /\ f \in SUBSET Failures /\ f \subseteq {"heap", "stray"}
  BY DEF InHand, Record, Failures
<1>2. Destroy(o) = IF o.sbuf = "live" THEN p ELSE q
  BY DEF Destroy
<1> HIDE DEF f
<1>3. Matches(o, p) /\ p.file = o.file /\ p.said = o.said /\ p.keep = o.keep
  BY <1>1 DEF Record, Matches
<1>4. /\ q \in Record /\ q.mem = o.mem /\ q.ops = o.ops /\ q.gone = o.gone /\ q.lost = o.lost
      /\ q.failed = f /\ q.file = o.file /\ q.handles = o.handles
      /\ q.said = o.said /\ q.keep = o.keep
  BY <1>1 DEF Record
<1> HIDE DEF p, q
<1>5. InHand(p)
  BY <1>3, MatchesInHand
<1>6. InHand(q)
  BY <1>1, <1>4 DEF InHand, Held
<1> QED
  BY <1>2, <1>3, <1>4, <1>5, <1>6

LEMMA ListDirRecvNextRequestServed ==
  ASSUME SInv, IInv', NEW c \in Clients, ListDirRecvNextRequest(c)
  PROVE  SInv'
<1>1. PICK o \in Success(c, "ListDirRecvNextRequest") : Update(c, Listed(o))
  BY DEF ListDirRecvNextRequest
<1>2. ASSUME InHand(o), Ready(o), o.state = "ListDirRecvNextRequest" PROVE Served(Listed(o))
  <2>1. CASE o.keep
    <3>1. o.said # "close" /\ ~o.file
      BY <1>2, <2>1 DEF Ready, Promised, Filed, Announced
    <3> QED
      BY <1>2, <2>1, <3>1, DestroyInHand, RecvServed DEF Listed
  <2>2. CASE ~o.keep
    BY <1>2, <2>2, CloseServed DEF Listed
  <2> QED
    BY <2>1, <2>2
<1> QED
  BY <1>1, <1>2, SuccessServed

LEMMA PostRecvNectRequestServed ==
  ASSUME SInv, IInv', NEW c \in Clients, PostRecvNectRequest(c)
  PROVE  SInv'
<1>1. PICK o \in Success(c, "PostRecvNectRequest") :
        Update(c, IF o.keep THEN Recv(o) ELSE CloseClient(o))
  BY DEF PostRecvNectRequest
<1>2. ASSUME InHand(o), Ready(o), o.state = "PostRecvNectRequest"
      PROVE  Served(IF o.keep THEN Recv(o) ELSE CloseClient(o))
  <2>1. CASE o.keep
    <3>1. o.said # "close" /\ ~o.file
      BY <1>2, <2>1 DEF Ready, Promised, Filed, Announced
    <3> QED
      BY <1>2, <2>1, <3>1, RecvServed
  <2>2. CASE ~o.keep
    BY <1>2, <2>2, CloseServed
  <2> QED
    BY <2>1, <2>2
<1> QED
  BY <1>1, <1>2, SuccessServed

LEMMA PostWritePartFileServed ==
  ASSUME SInv, IInv', NEW c \in Clients, PostWritePartFile(c)
  PROVE  SInv'
<1>1. PICK o \in Success(c, "PostWritePartFile") : Update(c, Written(o))
  BY DEF PostWritePartFile
<1>2. ASSUME InHand(o), Ready(o), o.state = "PostWritePartFile" PROVE Served(Written(o))
  <2>1. CASE o.body = 0
    <3> DEFINE q == CloseFile(o)
    <3>1. InHand(q) /\ ~q.file /\ Announced(q) = Announced(o)
      BY <1>2, FileInHand DEF Announced
    <3>2. Written(o) = Answer(q, "PostRecvNectRequest", Announced(o))
      BY <2>1 DEF Written
    <3>3. Announced(o) \in {"nothing", "keep-alive", "close"}
      BY DEF Announced
    <3> HIDE DEF q
    <3> QED
      BY <3>1, <3>2, <3>3, AnswerServed
  <2>2. CASE o.body # 0
    <3>1. o.body > 0 /\ o.file
      BY <1>2, <2>2 DEF InHand, Record, Ready, Filed
    <3> QED
      BY <1>2, <2>2, <3>1, WaitServed DEF Written
  <2> QED
    BY <2>1, <2>2
<1> QED
  BY <1>1, <1>2, SuccessServed

LEMMA POSTWaitFileDataServed ==
  ASSUME SInv, IInv', ServedToTheEnd(Inputs, Found, Faults), NEW c \in Clients,
         POSTWaitFileData(c)
  PROVE  SInv'
<1>1. PICK o \in Success(c, "POSTWaitFileData") : \E n \in 0..o.body, error \in BOOLEAN :
        /\ o.body > 0 => n > 0
        /\ error => n = o.body /\ "junk" \in Faults
        /\ LET fed == IF n > 0 THEN OnBody(o, n) ELSE o
           IN  Update(c, BodyArrived(IF error THEN CloseClient(fed) ELSE fed))
  BY DEF POSTWaitFileData
<1>2. PICK n \in 0..o.body, error \in BOOLEAN :
        /\ o.body > 0 => n > 0
        /\ error => n = o.body /\ "junk" \in Faults
        /\ LET fed == IF n > 0 THEN OnBody(o, n) ELSE o
           IN  Update(c, BodyArrived(IF error THEN CloseClient(fed) ELSE fed))
  BY <1>1
<1> DEFINE fed == IF n > 0 THEN OnBody(o, n) ELSE o
<1>3. Update(c, BodyArrived(fed))
  BY <1>2 DEF ServedToTheEnd
<1>4. ASSUME InHand(o), Ready(o), o.state = "POSTWaitFileData" PROVE Served(BodyArrived(fed))
  <2>1. o.body > 0 /\ o.file /\ o.body \in Nat
    BY <1>4 DEF InHand, Record, Ready, Filed
  <2>2. n \in Nat /\ n <= o.body /\ n > 0
    BY <1>2, <2>1
  <2>3. Served(OnBody(o, n)) /\ OnBody(o, n).state = "PostWritePartFile"
    BY <1>4, <2>1, <2>2, OnBodyServed
  <2> QED
    BY <2>2, <2>3 DEF BodyArrived
<1> QED
  BY <1>1, <1>3, <1>4, SuccessServed

LEMMA AfterSendHTMLServed ==
  ASSUME SInv, IInv', NEW c \in Clients, AfterSendHTML(c)
  PROVE  SInv'
<1>1. PICK o \in Success(c, "AfterSendHTML") : Update(c, CloseClient(o))
  BY DEF AfterSendHTML
<1> QED
  BY <1>1, CloseServed, SuccessServed

\* No completion but the disconnect finds a client that is being closed.
LEMMA InvalidStateServed ==
  ASSUME SInv, NEW c \in Clients
  PROVE  ~InvalidState(c)
<1> SUFFICES ASSUME InvalidState(c) PROVE FALSE
  OBVIOUS
<1>1. PICK o \in Completed(c, {"recv", "send", "read", "write"}) : o.state = "AfterDisconnect"
  BY DEF InvalidState, Success
<1>2. PICK op \in Awaits[o.state] : op \in {"recv", "send", "read", "write"}
  BY TakenLemma
<1> QED
  BY <1>1, <1>2, AwaitsLemma

LEMMA FreeSettled ==
  ASSUME NEW o, Ready(o), o.ops = <<>>
  PROVE  Settled(Free(o))
<1> DEFINE q == IF o.sbuf = "null" THEN o ELSE Destroy(o)
           m == q.handles - 1
           v == [q EXCEPT !.file = FALSE, !.handles = m]
           f == IF q.file THEN v ELSE q
           p == [f EXCEPT !.mem = "freed"]
<1>1. /\ q \in Record /\ q.ops = <<>> /\ q.file = o.file /\ q.handles = o.handles
      /\ q.failed \subseteq {"heap", "stray"}
  <2>1. CASE o.sbuf \in {"null", "live"}
    BY <2>1 DEF Ready, Record, Destroy
  <2>2. CASE o.sbuf \notin {"null", "live"}
    <3> DEFINE g == o.failed \cup {"heap"}
               w == [o EXCEPT !.failed = g]
    <3>1. q = w
      BY <2>2 DEF Destroy
    <3>2. g \in SUBSET Failures /\ g \subseteq {"heap", "stray"}
      BY DEF Ready, Record, Failures
    <3> HIDE DEF g, q
    <3>3. w \in Record /\ w.ops = o.ops /\ w.file = o.file /\ w.handles = o.handles /\ w.failed = g
      BY <3>2 DEF Ready, Record
    <3> HIDE DEF w
    <3> QED
      BY <3>1, <3>2, <3>3
  <2> QED
    BY <2>1, <2>2
<1>2. Free(o) = [CloseFile(q) EXCEPT !.mem = "freed"]
  BY DEF Free
<1> HIDE DEF q
<1>3. CloseFile(q) = f
  BY <1>1 DEF CloseFile, Record
<1>4. m \in Int /\ (q.file => m = 0) /\ (~q.file => q.handles = 0)
  BY <1>1 DEF Record, Ready, Held
<1> HIDE DEF m
<1>5. /\ v \in Record /\ v.ops = <<>> /\ v.file = FALSE /\ v.handles = m
      /\ v.failed = q.failed
  BY <1>1, <1>4 DEF Record
<1> HIDE DEF v
<1>6. f \in Record /\ f.ops = <<>> /\ ~f.file /\ f.handles = 0 /\ f.failed \subseteq {"heap", "stray"}
  BY <1>1, <1>4, <1>5
<1> HIDE DEF f
<1>7. /\ p.mem = "freed" /\ p.ops = <<>> /\ ~p.file /\ p.handles = 0
      /\ p.failed \subseteq {"heap", "stray"}
  BY <1>6 DEF Record
<1> HIDE DEF p
<1> QED
  BY <1>2, <1>3, <1>7 DEF Settled, p

LEMMA EmptyServed ==
  ASSUME SInv, IInv', NEW c \in Clients, Empty(c)
  PROVE  SInv'
<1>1. PICK o \in Completed(c, {"recv", "disconnect"}) :
        Update(c, IF o.state = "AfterDisconnect" THEN Free(o) ELSE CloseClient(o))
  BY DEF Empty
<1>2. Ready(o) /\ o.ops = <<>> /\ (o.state # "AfterDisconnect" => InHand(o))
  BY TakenLemma
<1>3. CASE o.state = "AfterDisconnect"
  BY <1>1, <1>2, <1>3, FreeSettled, SettledChange
<1>4. CASE o.state # "AfterDisconnect"
  BY <1>1, <1>2, <1>4, CloseServed, ServedSettled, SettledChange
<1> QED
  BY <1>3, <1>4

\* A freed record has nothing in flight, and nothing is cancelled.
LEMMA StaleServed ==
  ASSUME SInv, NEW c \in Clients
  PROVE  ~Stale(c) /\ ~Aborted(c)
<1>1. ~Stale(c)
  <2>1. ctx[c].mem = "freed" => ctx[c].ops = <<>>
    BY DEF SInv, Settled
  <2>2. DOMAIN <<>> = {}
    OBVIOUS
  <2> QED
    BY <2>1, <2>2 DEF Stale
<1>2. ~Aborted(c)
  <2> SUFFICES ASSUME Aborted(c) PROVE FALSE
    OBVIOUS
  <2>1. PICK o \in Completed(c, {"aborted"}) : Update(c, o)
    BY DEF Aborted
  <2>2. PICK op \in Awaits[o.state] : op \in {"aborted"}
    BY TakenLemma
  <2>3. Ready(o)
    BY TakenLemma
  <2>4. o.state \in States
    BY <2>3 DEF Ready, Record
  <2> QED
    BY <2>2, <2>4, AwaitsLemma
<1> QED
  BY <1>1, <1>2

LEMMA ConnectionAbortedServed ==
  ASSUME SInv, IInv', NEW c \in Clients, ConnectionAborted(c)
  PROVE  SInv'
<1>1. PICK o \in Completed(c, {"recv", "send"}) : Update(c, CloseClient(o))
  BY DEF ConnectionAborted
<1>2. PICK op \in Awaits[o.state] : op \in {"recv", "send"}
  BY TakenLemma
<1>3. o.state # "AfterDisconnect"
  BY <1>2, AwaitsLemma
<1> QED
  BY <1>1, <1>3, CloseServed, ServedStep

\* A failure that is passed over leaves nothing in flight.
LEMMA LostServed ==
  ASSUME NEW o, Ready(o), o.ops = <<>>
  PROVE  Settled([o EXCEPT !.lost = TRUE])
<1> DEFINE p == [o EXCEPT !.lost = TRUE]
<1>1. /\ p \in Record /\ p.mem = o.mem /\ p.ops = o.ops /\ p.gone = o.gone /\ p.lost = TRUE
      /\ p.failed = o.failed /\ p.file = o.file /\ p.handles = o.handles
      /\ p.state = o.state /\ p.said = o.said /\ p.keep = o.keep /\ p.body = o.body
  BY DEF Ready, Record
<1> HIDE DEF p
<1>2. Served(p)
  BY <1>1 DEF Served, Ready, Held, Promised, Filed, Announced
<1> QED
  BY <1>2, ServedSettled DEF p

LEMMA ForgottenServed ==
  ASSUME SInv, IInv', NEW c \in Clients, Forgotten(c)
  PROVE  SInv'
<1>1. PICK o \in Completed(c, Ops \ {"accept", "aborted"}) : Update(c, [o EXCEPT !.lost = TRUE])
  BY DEF Forgotten
<1>2. Ready(o) /\ o.ops = <<>>
  BY TakenLemma
<1> QED
  BY <1>1, <1>2, LostServed, SettledChange

LEMMA ClientStepServed ==
  ASSUME SInv, IInv', ServedToTheEnd(Inputs, Found, Faults), NEW c \in Clients, ClientStep(c)
  PROVE  SInv'
BY RequestServed, HandShakeSentServed, ReadStaticFileServed, SendPartFileServed,
   RecvNextRequestServed, ListDirRecvNextRequestServed, PostRecvNectRequestServed,
   PostWritePartFileServed, POSTWaitFileDataServed, AfterSendHTMLServed, InvalidStateServed,
   EmptyServed, StaleServed, ConnectionAbortedServed, ForgottenServed DEF ClientStep

\* A record that is accepting is one a handler may take, once it is accepted.
LEMMA AcceptedInHand ==
  /\ Ready(Take(Accepting, 1)) /\ Take(Accepting, 1).ops = <<>>
  /\ InHand(Take(Accepting, 1)) /\ ~Take(Accepting, 1).file
  /\ Take(Accepting, 1).state = "AfterRecv" /\ Take(Accepting, 1).said = "nothing"
<1> DEFINE none == <<>>
           p == [Accepting EXCEPT !.ops = none]
<1>1. Take(Accepting, 1) = p /\ Handled(Take(Accepting, 1))
  BY TakenWaiting DEF Waiting
<1>2. /\ Accepting.failed = {} /\ Accepting.handles = 0 /\ Accepting.file = FALSE
      /\ Accepting.lost = FALSE /\ Accepting.said = "nothing" /\ Accepting.state = "AfterRecv"
      /\ Accepting.gone = FALSE /\ Accepting.mem = "live"
  BY DEF Accepting, Blank
<1>3. Accepting \in Record
  BY AcceptingLemma
<1> HIDE DEF none
<1>4. /\ p.ops = none /\ p.failed = {} /\ p.handles = 0 /\ p.file = FALSE /\ p.lost = FALSE
      /\ p.said = "nothing" /\ p.state = "AfterRecv" /\ p.gone = FALSE /\ p.mem = "live"
  BY <1>2, <1>3 DEF Record
<1> HIDE DEF p
<1>5. p \in Record
  BY <1>1 DEF Handled, Kernel
<1>6. Ready(p) /\ InHand(p)
  BY <1>4, <1>5 DEF Ready, InHand, Held, Promised, Filed, none
<1> QED
  BY <1>1, <1>4, <1>6 DEF none

LEMMA AcceptingSettled ==
  Settled(Accepting) /\ Settled(Blank) /\ Settled(Stray)
<1>1. /\ Accepting \in Record /\ Accepting.mem = "live" /\ Accepting.ops = <<"accept">>
      /\ Accepting.state = "AfterRecv" /\ ~Accepting.gone
  BY AcceptingLemma
<1>2. /\ Accepting.failed = {} /\ Accepting.handles = 0 /\ ~Accepting.file /\ ~Accepting.lost
      /\ Accepting.said = "nothing"
  BY DEF Accepting, Blank
<1>3. Ready(Accepting)
  BY <1>1, <1>2 DEF Ready, Held, Promised, Filed
<1>4. "accept" \in Awaits[Accepting.state]
  BY <1>1, AwaitsLemma
<1>5. Served(Accepting)
  BY <1>1, <1>2, <1>3, <1>4 DEF Served
<1>6. Blank.mem = "none"
  BY DEF Blank
<1>7. Ready(Stray)
  BY StrayLemma DEF Ready, Held, Promised, Filed
<1>8. Served(Stray)
  BY <1>7, StrayLemma DEF Served
<1> QED
  BY <1>5, <1>6, <1>8, ServedSettled DEF Settled

\* A record whose packet was taken for another's is left as it is.
LEMMA AbandonedSettled ==
  ASSUME NEW o \in Waiting
  PROVE  Settled(Abandoned(o))
<1>1. CASE o = Accepting
  BY <1>1, AcceptedInHand, LostServed DEF Abandoned
<1>2. CASE o = Stray
  <2> DEFINE none == <<>>
             p == [Stray EXCEPT !.ops = none]
  <2>1. Take(Stray, 1) = p /\ Handled(Take(Stray, 1))
    BY TakenWaiting DEF Waiting
  <2> HIDE DEF none
  <2>2. /\ p.ops = none /\ p.failed = {"stray"} /\ p.handles = 0 /\ p.file = FALSE
        /\ p.said = "nothing" /\ p.state = "AfterDisconnect" /\ p.gone = TRUE /\ p.mem = "live"
    BY StrayLemma DEF Record
  <2> HIDE DEF p
  <2>3. p \in Record
    BY <2>1 DEF Handled, Kernel
  <2>4. Ready(p) /\ p.ops = <<>>
    BY <2>2, <2>3 DEF Ready, Held, Promised, Filed, none
  <2> QED
    BY <1>2, <2>1, <2>4, LostServed DEF Abandoned
<1> QED
  BY <1>1, <1>2 DEF Waiting

LEMMA AcceptedAsServed ==
  ASSUME SInv, IInv', NEW p, Settled(p), AcceptedAs(p)
  PROVE  SInv'
<1>1. ctx \in [Clients -> Record] /\ ctx' = [ctx EXCEPT ![current] = p]
  BY DEF SInv, IInv, TypeOK, AcceptedAs
<1>2. ASSUME NEW d \in Clients PROVE Settled(ctx'[d])
  BY <1>1 DEF SInv
<1> QED
  BY <1>2 DEF SInv

LEMMA AcceptStepsServed ==
  ASSUME SInv, IInv', ServedToTheEnd(Inputs, Found, Faults), loop = "running", Accepted
  PROVE  SInv'
<1> DEFINE o == Take(Accepting, 1)
<1>1. current \in Clients /\ ctx[current] = Accepting /\ ctx \in [Clients -> Record]
  BY CurrentLemma DEF SInv, IInv, TypeOK, Accepted
<1>2. /\ Ready(o) /\ o.ops = <<>> /\ InHand(o) /\ ~o.file
      /\ o.state = "AfterRecv" /\ o.said = "nothing"
  BY AcceptedInHand
<1>3. Take(ctx[current], 1) = o
  BY <1>1
<1> HIDE DEF o
<1>4. CASE FirstRequest
  <2>1. PICK r \in Inputs : \E p \in ProcessRequest(o, r) : AcceptedAs(p)
    BY <1>3, <1>4 DEF FirstRequest
  <2>2. PICK p \in ProcessRequest(o, r) : AcceptedAs(p)
    BY <2>1
  <2>3. Settled(p)
    BY <1>2, <2>2, InputsFollowed, ProcessRequestServed, ServedSettled
  <2> QED
    BY <2>2, <2>3, AcceptedAsServed
<1>5. CASE EmptyRequest
  <2>1. Settled(CloseClient(o))
    BY <1>2, CloseServed, ServedSettled
  <2> QED
    BY <1>3, <1>5, <2>1, AcceptedAsServed DEF EmptyRequest
<1>6. CASE AcceptFails
  <2>1. Settled(Abandoned(Accepting))
    BY AbandonedSettled DEF Waiting
  <2> QED
    BY <1>1, <1>6, <2>1, AcceptedAsServed DEF AcceptFails
<1>7. CASE OtherLength
  <2> DEFINE Left(p, m) == IF m.method = "POST" /\ ~Whole(m) THEN [p EXCEPT !.lost = TRUE] ELSE p
  <2>1. PICK r \in Inputs : \E m \in Misread(r) : \E p \in ProcessRequest(o, m) :
          AcceptedAs(Left(p, m))
    BY <1>3, <1>7 DEF OtherLength
  <2>2. PICK m \in Misread(r) : \E p \in ProcessRequest(o, m) : AcceptedAs(Left(p, m))
    BY <2>1
  <2>3. PICK p \in ProcessRequest(o, m) : AcceptedAs(Left(p, m))
    BY <2>2
  <2>4. CASE m.method = "POST" /\ ~Whole(m)
    <3> DEFINE q == Parsed(o, m)
    <3>1. p = q
      BY <2>3, <2>4 DEF ProcessRequest, Post
    <3>2. InHand(q) /\ q.file = o.file /\ q.state = o.state /\ q.said = o.said
      BY <1>2, <2>2, MisreadParsable, ParsedInHand
    <3> HIDE DEF q
    <3>3. Ready(q) /\ q.ops = <<>>
      BY <1>2, <3>2 DEF InHand, Ready, Promised, Filed
    <3>4. Settled(Left(p, m))
      BY <2>4, <3>1, <3>3, LostServed
    <3> HIDE DEF Left
    <3> QED
      BY <2>3, <3>4, AcceptedAsServed
  <2>5. CASE ~(m.method = "POST" /\ ~Whole(m))
    <3>1. FollowedRequest(m)
      BY <2>2, <2>5, InputsFollowed, MisreadFollowed
    <3>2. Settled(p)
      BY <1>2, <2>3, <3>1, ProcessRequestServed, ServedSettled
    <3>3. Settled(Left(p, m))
      BY <2>5, <3>2
    <3> HIDE DEF Left
    <3> QED
      BY <2>3, <3>3, AcceptedAsServed
  <2> QED
    BY <2>4, <2>5
<1>8. CASE StrayPacket
  <2>1. Strayed(ctx[current]) = Stray /\ Settled(Stray)
    BY <1>1, AcceptingSettled DEF Stray
  <2>2. \A a \in Others : a \in Clients /\ a # current /\ Settled(Abandoned(ctx[a]))
    BY CurrentLemma, AbandonedSettled, <1>8 DEF SInv, Accepted
  <2>3. CASE ctx' = [ctx EXCEPT ![current] = Strayed(@)]
    <3>1. ctx' = [ctx EXCEPT ![current] = Stray]
      BY <1>1, <2>1, <2>3
    <3> QED
      BY <1>1, <2>1, <3>1 DEF SInv
  <2>4. ASSUME NEW a \in Others, ctx' = [ctx EXCEPT ![current] = Strayed(@), ![a] = Abandoned(@)]
        PROVE  SInv'
    <3>1. ctx' = [[ctx EXCEPT ![current] = Stray] EXCEPT ![a] = Abandoned(ctx[a])]
      BY <1>1, <2>1, <2>2, <2>4
    <3> QED
      BY <1>1, <2>1, <2>2, <3>1 DEF SInv
  <2> QED
    BY <1>8, <2>3, <2>4 DEF StrayPacket
<1>9. CASE OtherFails
  <2>1. PICK a \in Others : ctx' = [ctx EXCEPT ![a] = Abandoned(@)]
    BY <1>9 DEF OtherFails
  <2>2. a \in Clients /\ Settled(Abandoned(ctx[a]))
    BY <2>1, CurrentLemma, AbandonedSettled DEF SInv, Accepted
  <2>3. ctx' = [ctx EXCEPT ![a] = Abandoned(ctx[a])]
    BY <2>1
  <2> QED
    BY <1>1, <2>2, <2>3 DEF SInv
<1> QED
  BY <1>4, <1>5, <1>6, <1>7, <1>8, <1>9 DEF Accepted

LEMMA AcceptNextServed ==
  ASSUME SInv, IInv', ServedToTheEnd(Inputs, Found, Faults), AcceptNext
  PROVE  SInv'
<1>1. ctx \in [Clients -> Record] /\ \A d \in Clients : Settled(ctx[d])
  BY DEF SInv, IInv, TypeOK
<1>2. ASSUME NEW n \in Unused, Pending(n) PROVE SInv'
  BY <1>1, <1>2, AcceptingSettled DEF SInv, Pending, Unused
<1>3. ASSUME NEW n \in Unused, AtOnce(n) PROVE SInv'
  <2>1. PICK r \in Inputs \cup {Nothing} : \E p \in ProcessRequest(Take(Accepting, 1), r) :
          ctx' = [ctx EXCEPT ![n] = p]
    BY <1>3 DEF AtOnce
  <2>2. PICK p \in ProcessRequest(Take(Accepting, 1), r) : ctx' = [ctx EXCEPT ![n] = p]
    BY <2>1
  <2>3. FollowedRequest(r)
    BY InputsFollowed, NothingFollowed
  <2>4. Settled(p)
    BY <2>2, <2>3, AcceptedInHand, ProcessRequestServed, ServedSettled
  <2> QED
    BY <1>1, <2>2, <2>4 DEF SInv, Unused
<1>4. CASE UNCHANGED ctx
  BY <1>4 DEF SInv
<1> QED
  BY <1>2, <1>3, <1>4 DEF AcceptNext

LEMMA InitSInv ==
  Init => SInv
<1> SUFFICES ASSUME Init PROVE SInv
  OBVIOUS
<1>1. ctx = [c \in Clients |-> Blank]
  BY DEF Init
<1> QED
  BY <1>1, InitIInv, AcceptingSettled DEF SInv

LEMMA NextSInv ==
  ASSUME ServedToTheEnd(Inputs, Found, Faults)
  PROVE  SInv /\ [Next]_vars => SInv'
<1> SUFFICES ASSUME SInv, [Next]_vars PROVE SInv'
  OBVIOUS
<1>1. IInv'
  BY NextIInv DEF SInv
<1>2. CASE \E c \in Clients : ClientStep(c)
  BY <1>1, <1>2, ClientStepServed
<1>3. CASE loop = "running" /\ Accepted
  BY <1>1, <1>3, AcceptStepsServed
<1>4. CASE AcceptNext
  BY <1>1, <1>4, AcceptNextServed
<1>5. CASE Stop \/ UNCHANGED vars
  BY <1>1, <1>5 DEF Stop, vars, SInv
<1> QED
  BY <1>2, <1>3, <1>4, <1>5 DEF Next, Returned

LEMMA Settlement ==
  ASSUME ServedToTheEnd(Inputs, Found, Faults)
  PROVE  Spec => []SInv
<1>1. SInv /\ [Next]_vars => SInv'
  BY NextSInv
<1> QED
  BY <1>1, InitSInv, PTL DEF Spec

(***************************************************************************)
(* What the second invariant says of the program.                          *)
(***************************************************************************)
\* Each handler of processIOCP leaves one operation in flight, of the kind the
\* handler of the next state expects, and one handle if that state has a file;
\* a freed record has none of either.
THEOREM KeptInStep ==
  ASSUME ServedToTheEnd(Inputs, Found, Faults)
  PROVE  Spec => []InStep
<1>1. ASSUME SInv PROVE InStep
  <2>1. TypeOK
    BY <1>1 DEF SInv, IInv
  <2>2. ASSUME NEW c \in Clients
        PROVE  /\ ctx[c].mem = "live" /\ ~ctx[c].lost =>
                    Len(ctx[c].ops) = 1 /\ ctx[c].ops[1] \in Awaits[ctx[c].state]
               /\ ctx[c].mem = "freed" => ctx[c].ops = <<>>
    <3>1. CASE ctx[c].mem = "live" /\ ~ctx[c].lost
      <4>1. PICK op \in Awaits[ctx[c].state] : ctx[c].ops = <<op>>
        BY <1>1, <3>1 DEF SInv, Settled, Served
      <4>2. Len(<<op>>) = 1 /\ <<op>>[1] = op
        OBVIOUS
      <4> QED
        BY <3>1, <4>1, <4>2
    <3>2. CASE ctx[c].mem = "freed"
      BY <1>1, <3>2 DEF SInv, Settled
    <3> QED
      BY <3>1, <3>2
  <2>3. ASSUME NEW c \in Clients
        PROVE  /\ ctx[c].handles = (IF ctx[c].file THEN 1 ELSE 0)
               /\ ctx[c].mem = "freed" => ctx[c].handles = 0
    <3>1. ctx[c].mem \in {"none", "live", "freed"}
      BY <2>1 DEF TypeOK, Record
    <3>2. Blank.handles = 0 /\ ~Blank.file
      BY DEF Blank
    <3> QED
      BY <1>1, <3>1, <3>2 DEF SInv, Settled, Served, Ready, Held
  <2> QED
    BY <2>1, <2>2, <2>3 DEF InStep, OneOfItsKind, HandlesHeld
<1> QED
  BY <1>1, Settlement, PTL

\* Nothing is read from a browser that was told "Connection: close", and the
\* answer that told it "keep-alive" does not end the connection.
THEOREM PromiseKeeping ==
  ASSUME ServedToTheEnd(Inputs, Found, Faults)
  PROVE  Spec => []PromiseKept
<1>1. ASSUME SInv PROVE PromiseKept
  BY <1>1 DEF SInv, Settled, Served, Ready, Promised, PromiseKept
<1> QED
  BY <1>1, Settlement, PTL

\* The assertions of CloseClient, processIOCP's default and the body's handler hold.
THEOREM AssertionsHolding ==
  ASSUME ServedToTheEnd(Inputs, Found, Faults)
  PROVE  Spec => []AssertionsHold
<1>1. ASSUME SInv PROVE AssertionsHold
  <2>1. Blank.failed = {}
    BY DEF Blank
  <2>2. \A c \in Clients : ctx[c].mem \in {"none", "live", "freed"}
    BY <1>1 DEF SInv, IInv, TypeOK, Record
  <2> QED
    BY <1>1, <2>1, <2>2 DEF SInv, Settled, Served, Ready, AssertionsHold
<1> QED
  BY <1>1, Settlement, PTL
=============================================================================
