--------------------------- MODULE ClientLoopProofs ---------------------------
(***************************************************************************)
(* Safety of ClientLoop for any number of clients, any requests and any    *)
(* bounds, checked by TLAPS.                                               *)
(***************************************************************************)
EXTENDS ClientLoop, SequenceTheorems, TLAPS

(***************************************************************************)
(* What the handlers' building blocks do to an object.                     *)
(***************************************************************************)
\* Taking the i-th operation out leaves one operation fewer.
LEMMA RemoveAtLemma ==
  ASSUME NEW s \in Seq(Ops), NEW i \in DOMAIN s
  PROVE  /\ RemoveAt(s, i) \in Seq(Ops)
         /\ Len(RemoveAt(s, i)) = Len(s) - 1
<1>1. i \in 1..Len(s) /\ Len(s) \in Nat
  BY LenProperties
<1>2. /\ SubSeq(s, 1, i - 1) \in Seq(Ops)
      /\ Len(SubSeq(s, 1, i - 1)) = i - 1
  BY <1>1, SubSeqProperties
<1>3. /\ SubSeq(s, i + 1, Len(s)) \in Seq(Ops)
      /\ Len(SubSeq(s, i + 1, Len(s))) = Len(s) - i
  BY <1>1, SubSeqProperties
<1> DEFINE a == SubSeq(s, 1, i - 1)
           b == SubSeq(s, i + 1, Len(s))
<1>4. a \o b \in Seq(Ops) /\ Len(a \o b) = Len(a) + Len(b)
  BY <1>2, <1>3, ConcatProperties
<1>5. RemoveAt(s, i) = a \o b
  BY DEF RemoveAt
<1> HIDE DEF a, b
<1>6. Len(a) + Len(b) = Len(s) - 1
  BY <1>1, <1>2, <1>3 DEF a, b
<1> QED
  BY <1>4, <1>5, <1>6

\* The frame of an object that no building block but Freed and Delete changes.
Kept(o, p) == p.mem = o.mem /\ p.closing = o.closing

\* ops and inflight are always replaced together.
Updated(o, n, q) == [o EXCEPT !.ops = n, !.inflight = q]

LEMMA UpdateLemma ==
  ASSUME NEW o \in Object, NEW n \in Int, NEW q \in Seq(Ops)
  PROVE  /\ Updated(o, n, q) \in Object
         /\ Kept(o, Updated(o, n, q))
         /\ Updated(o, n, q).so_type = o.so_type
         /\ Updated(o, n, q).ops = n
         /\ Updated(o, n, q).inflight = q
<1> DEFINE p1 == [o EXCEPT !.ops = n]
           p2 == [p1 EXCEPT !.inflight = q]
<1>1. p1 \in Object /\ Kept(o, p1) /\ p1.so_type = o.so_type /\ p1.ops = n
  BY DEF Object, Kept
<1>2. Updated(o, n, q) = p2
  BY DEF Object, Updated
<1> HIDE DEF p1
<1>3. /\ p2 \in Object /\ Kept(p1, p2)
      /\ p2.so_type = p1.so_type /\ p2.ops = p1.ops /\ p2.inflight = q
  BY <1>1 DEF Object, Kept
<1> QED
  BY <1>1, <1>2, <1>3 DEF Kept

LEMMA ReapLemma ==
  ASSUME NEW o \in Object, NEW i \in DOMAIN o.inflight
  PROVE  /\ Reap(o, i) \in Object
         /\ Kept(o, Reap(o, i))
         /\ Reap(o, i).so_type = o.so_type
         /\ Reap(o, i).ops = o.ops - 1
         /\ Len(Reap(o, i).inflight) = Len(o.inflight) - 1
         /\ Accounted(o) => Accounted(Reap(o, i)) /\ o.mem = "live"
<1>1. o.inflight \in Seq(Ops)
  BY DEF Object
<1>2. /\ RemoveAt(o.inflight, i) \in Seq(Ops)
      /\ Len(RemoveAt(o.inflight, i)) = Len(o.inflight) - 1
  BY <1>1, RemoveAtLemma
<1>3. o.inflight # <<>>
  BY <1>1
<1>4. o.ops - 1 \in Int
  BY DEF Object
<1>5. Reap(o, i) = Updated(o, o.ops - 1, RemoveAt(o.inflight, i))
  BY DEF Reap, Updated
<1>6. /\ Reap(o, i) \in Object /\ Kept(o, Reap(o, i))
      /\ Reap(o, i).so_type = o.so_type /\ Reap(o, i).ops = o.ops - 1
      /\ Reap(o, i).inflight = RemoveAt(o.inflight, i)
  BY <1>2, <1>4, <1>5, UpdateLemma
<1> QED
  BY <1>2, <1>3, <1>6 DEF Kept, Accounted

LEMMA SubmitLemma ==
  ASSUME NEW o \in Object, NEW op \in Ops
  PROVE  /\ Submit(o, op) \in Object
         /\ Kept(o, Submit(o, op))
         /\ Submit(o, op).so_type = o.so_type
         /\ Len(Submit(o, op).inflight) = Len(o.inflight) + 1
         /\ Submit(o, op).inflight # <<>>
         /\ Accounted(o) /\ o.mem = "live" => Accounted(Submit(o, op))
<1> DEFINE q == Append(o.inflight, op)
<1>1. o.inflight \in Seq(Ops) /\ o.ops + 1 \in Int
  BY DEF Object
<1>2. /\ q \in Seq(Ops)
      /\ Len(q) = Len(o.inflight) + 1
      /\ q # <<>>
  BY <1>1, AppendProperties
<1>3. Submit(o, op) = Updated(o, o.ops + 1, q)
  BY DEF Submit, Updated
<1> HIDE DEF q
<1>4. /\ Submit(o, op) \in Object /\ Kept(o, Submit(o, op))
      /\ Submit(o, op).so_type = o.so_type /\ Submit(o, op).ops = o.ops + 1
      /\ Submit(o, op).inflight = q
  BY <1>1, <1>2, <1>3, UpdateLemma
<1> QED
  BY <1>2, <1>4 DEF Kept, Accounted

LEMMA ProceedLemma ==
  ASSUME NEW o \in Object, NEW type \in SoTypes, NEW op \in Ops
  PROVE  /\ Proceed(o, type, op) \in Object
         /\ Kept(o, Proceed(o, type, op))
         /\ Proceed(o, type, op).so_type = type
         /\ Len(Proceed(o, type, op).inflight) = Len(o.inflight) + 1
         /\ Proceed(o, type, op).inflight # <<>>
         /\ Accounted(o) /\ o.mem = "live" => Accounted(Proceed(o, type, op))
<1> DEFINE p == Become(o, type)
<1>1. /\ p \in Object /\ Kept(o, p) /\ p.so_type = type /\ p.ops = o.ops
      /\ p.inflight = o.inflight
  BY DEF Become, Object, Kept
<1>2. Proceed(o, type, op) = Submit(p, op)
  BY DEF Proceed
<1> HIDE DEF p
<1> QED
  BY <1>1, <1>2, SubmitLemma DEF Kept, Accounted

LEMMA DeleteLemma ==
  ASSUME NEW o \in Object
  PROVE  /\ Delete(o) \in Object
         /\ Delete(o).mem = o.mem
         /\ Delete(o).so_type = "ss_shutdown"
         /\ o.so_type = "ss_shutdown" => Delete(o) = o
         /\ o.so_type # "ss_shutdown" => Delete(o).closing /\ Delete(o).inflight # <<>>
         /\ Accounted(o) /\ o.mem = "live" => Accounted(Delete(o))
<1>1. CASE o.so_type = "ss_shutdown"
  BY <1>1 DEF Delete
<1>2. CASE o.so_type # "ss_shutdown"
  <2> DEFINE p == Proceed(o, "ss_shutdown", "shutdown")
  <2>1. /\ p \in Object /\ Kept(o, p) /\ p.so_type = "ss_shutdown"
        /\ p.inflight # <<>> /\ (Accounted(o) /\ o.mem = "live" => Accounted(p))
    BY ProceedLemma DEF SoTypes, HttpStates, Ops
  <2>2. Delete(o) = [p EXCEPT !.closing = TRUE]
    BY <1>2 DEF Delete
  <2> HIDE DEF p
  <2> QED
    BY <1>2, <2>1, <2>2 DEF Object, Kept, Accounted
<1> QED
  BY <1>1, <1>2

(***************************************************************************)
(* A step changes what belongs to one client; the others keep the          *)
(* invariant they had.                                                     *)
(***************************************************************************)
Changed(c, o, w, h, t) ==
  /\ o \in Object /\ w \in Object /\ h \in Http /\ t \in Talk
  /\ Consistent(o, w, h, t)
  /\ mc' = [mc EXCEPT ![c] = o] /\ ws' = [ws EXCEPT ![c] = w]
  /\ http' = [http EXCEPT ![c] = h] /\ talk' = [talk EXCEPT ![c] = t]
  /\ server' \in Object /\ proc' \in {"running", "stopped", "failed"}

LEMMA LocalChange ==
  ASSUME IInv, NEW c \in Clients, NEW o, NEW w, NEW h, NEW t, Changed(c, o, w, h, t)
  PROVE  IInv'
<1>1. TypeOK'
  BY DEF IInv, TypeOK, Changed
<1>2. ASSUME NEW d \in Clients
      PROVE  Consistent(mc[d], ws[d], http[d], talk[d])'
  <2>1. CASE d = c
    BY <2>1 DEF IInv, TypeOK, Changed
  <2>2. CASE d # c
    <3>1. mc'[d] = mc[d] /\ ws'[d] = ws[d] /\ http'[d] = http[d] /\ talk'[d] = talk[d]
      BY <2>2 DEF IInv, TypeOK, Changed
    <3>2. Consistent(mc[d], ws[d], http[d], talk[d])
      BY DEF IInv
    <3> QED
      BY <3>1, <3>2
  <2> QED
    BY <2>1, <2>2
<1> QED
  BY <1>1, <1>2 DEF IInv

\* The invariant, one client at a time.
LEMMA OfClient ==
  ASSUME IInv, NEW c \in Clients
  PROVE  /\ mc[c] \in Object /\ ws[c] \in Object /\ http[c] \in Http /\ talk[c] \in Talk
         /\ server \in Object /\ proc \in {"running", "stopped", "failed"}
         /\ Consistent(mc[c], ws[c], http[c], talk[c])
         /\ mc = [mc EXCEPT ![c] = mc[c]] /\ ws = [ws EXCEPT ![c] = ws[c]]
         /\ http = [http EXCEPT ![c] = http[c]] /\ talk = [talk EXCEPT ![c] = talk[c]]
BY DEF IInv, TypeOK

\* A handler's update of the fields opens no terminal and touches none that is open.
NoShell(h) == h.lzb # "ws" /\ h.filesize # "pid"
Steers(g, h) == h \in Http /\ h.pty = g.pty /\ (NoShell(g) => NoShell(h))

\* The handlers of a client that is not closing.  `p' is the client after one of
\* them; before the upgrade there is no my_client_ws to care for.
Handled(c, p, h, t) ==
  /\ mc[c].so_type # "ss_shutdown"
  /\ p \in Object /\ Kept(mc[c], p) /\ Accounted(p)
  /\ p.so_type \in HttpStates \ {"ss_shutdown"}
  /\ Steers(http[c], h)
  /\ t \in Talk /\ t.killed = talk[c].killed
  /\ \/ mc[c].so_type \notin TerminalStates
     \/ p.so_type \in TerminalStates /\ h = http[c]
  /\ mc' = [mc EXCEPT ![c] = p] /\ http' = [http EXCEPT ![c] = h]
  /\ talk' = [talk EXCEPT ![c] = t]
  /\ UNCHANGED <<server, ws>> /\ proc' \in {"running", "stopped", "failed"}

LEMMA HandlerLemma ==
  ASSUME IInv, NEW c \in Clients, NEW p, NEW h, NEW t, Handled(c, p, h, t)
  PROVE  IInv'
<1>1. /\ ws[c] \in Object /\ server \in Object
      /\ Consistent(mc[c], ws[c], http[c], talk[c])
      /\ ws = [ws EXCEPT ![c] = ws[c]]
  BY OfClient
<1>2. Consistent(p, ws[c], h, t)
  BY <1>1 DEF Consistent, Kept, Handled, Steers, NoShell
<1>3. Changed(c, p, ws[c], h, t)
  BY <1>1, <1>2 DEF Changed, Handled, Steers
<1> QED
  BY <1>3, LocalChange

\* The client after its completion was taken and another operation submitted.
LEMMA HandOnLemma ==
  ASSUME IInv, NEW c \in Clients, NEW i \in DOMAIN mc[c].inflight,
         NEW type \in SoTypes, NEW op \in Ops
  PROVE  /\ Proceed(Reap(mc[c], i), type, op) \in Object
         /\ Kept(mc[c], Proceed(Reap(mc[c], i), type, op))
         /\ Accounted(Proceed(Reap(mc[c], i), type, op))
         /\ Proceed(Reap(mc[c], i), type, op).so_type = type
<1>1. mc[c] \in Object /\ Accounted(mc[c])
  BY OfClient DEF Consistent
<1>2. /\ Reap(mc[c], i) \in Object /\ Kept(mc[c], Reap(mc[c], i))
      /\ Accounted(Reap(mc[c], i)) /\ mc[c].mem = "live"
  BY <1>1, ReapLemma
<1> DEFINE o == Reap(mc[c], i)
           p == Proceed(o, type, op)
<1> HIDE DEF o
<1>3. /\ p \in Object /\ Kept(o, p) /\ p.so_type = type
      /\ Accounted(o) /\ o.mem = "live" => Accounted(p)
  BY <1>2, ProceedLemma DEF o
<1> QED
  BY <1>2, <1>3 DEF Kept, o

\* The same when a refused method's 405 goes out first.
LEMMA RefuseAndHandOnLemma ==
  ASSUME IInv, NEW c \in Clients, NEW i \in DOMAIN mc[c].inflight,
         NEW type \in SoTypes, NEW op \in Ops, NEW r \in Requests
  PROVE  /\ Proceed(Opened(Reap(mc[c], i), r), type, op) \in Object
         /\ Kept(mc[c], Proceed(Opened(Reap(mc[c], i), r), type, op))
         /\ Accounted(Proceed(Opened(Reap(mc[c], i), r), type, op))
         /\ Proceed(Opened(Reap(mc[c], i), r), type, op).so_type = type
<1> DEFINE o == Opened(Reap(mc[c], i), r)
           p == Proceed(o, type, op)
<1>1. mc[c] \in Object /\ Accounted(mc[c])
  BY OfClient DEF Consistent
<1>2. /\ Reap(mc[c], i) \in Object /\ Kept(mc[c], Reap(mc[c], i))
      /\ Accounted(Reap(mc[c], i)) /\ mc[c].mem = "live"
  BY <1>1, ReapLemma
<1>3. o \in Object /\ Kept(mc[c], o) /\ Accounted(o)
  <2>1. CASE r.method = "POST"
    <3>1. "ss_reparse" \in SoTypes /\ "send" \in Ops
      BY DEF SoTypes, HttpStates, Ops
    <3> QED
      BY <2>1, <3>1, HandOnLemma DEF Opened
  <2>2. CASE r.method # "POST"
    BY <1>2, <2>2 DEF Opened
  <2> QED
    BY <2>1, <2>2
<1> HIDE DEF o
<1>4. /\ p \in Object /\ Kept(o, p) /\ p.so_type = type
      /\ Accounted(o) /\ o.mem = "live" => Accounted(p)
  BY <1>3, ProceedLemma
<1> QED
  BY <1>2, <1>3, <1>4 DEF Kept, o

\* What my_delete_client leaves of a client whose completion was just taken.
Closed(c, i, h) ==
  /\ mc[c].so_type # "ss_shutdown"
  /\ Steers(http[c], h)
  /\ mc[c].so_type \in TerminalStates => h = http[c]
  /\ mc' = [mc EXCEPT ![c] = Delete(Reap(mc[c], i))] /\ http' = [http EXCEPT ![c] = h]
  /\ UNCHANGED <<server, ws, talk, proc>>

LEMMA CloseLemma ==
  ASSUME IInv, NEW c \in Clients, NEW i \in DOMAIN mc[c].inflight, NEW h, Closed(c, i, h)
  PROVE  IInv'
<1> DEFINE o == Reap(mc[c], i)
           p == Delete(o)
<1>1. /\ mc[c] \in Object /\ ws[c] \in Object /\ talk[c] \in Talk
      /\ server \in Object /\ proc \in {"running", "stopped", "failed"}
      /\ ws = [ws EXCEPT ![c] = ws[c]] /\ talk = [talk EXCEPT ![c] = talk[c]]
      /\ Consistent(mc[c], ws[c], http[c], talk[c])
  BY OfClient
<1>2. /\ o \in Object /\ Kept(mc[c], o) /\ o.so_type = mc[c].so_type
      /\ Accounted(o) /\ mc[c].mem = "live"
  BY <1>1, ReapLemma DEF Consistent
<1> HIDE DEF o
<1>3. /\ p \in Object /\ p.mem = o.mem /\ p.so_type = "ss_shutdown"
      /\ mc[c].so_type # "ss_shutdown" => p.closing /\ p.inflight # <<>>
      /\ Accounted(p)
  BY <1>2, DeleteLemma DEF Kept
<1>4. mc' = [mc EXCEPT ![c] = p]
  BY DEF o, Closed
<1> HIDE DEF p
<1>5. Consistent(p, ws[c], h, talk[c])
  BY <1>1, <1>2, <1>3 DEF Consistent, Kept, HttpStates, TerminalStates, Closed, Steers,
     NoShell
<1>6. Changed(c, p, ws[c], h, talk[c])
  BY <1>1, <1>3, <1>4, <1>5 DEF Changed, Closed, Steers
<1> QED
  BY <1>6, LocalChange

(***************************************************************************)
(* The records the handlers update.                                        *)
(***************************************************************************)
LEMMA HttpLemma ==
  ASSUME NEW h \in Http
  PROVE  /\ Steers(h, h)
         /\ Steers(h, ReParsed(h))
         /\ Steers(h, [h EXCEPT !.piped = TRUE])
         /\ Steers(h, [h EXCEPT !.piped = FALSE, !.url = FALSE])
         /\ Steers(h, [h EXCEPT !.url = FALSE, !.filesize = "failed"])
<1>1. Steers(h, h)
  BY DEF Steers
<1>2. Steers(h, ReParsed(h))
  BY Zenon DEF Steers, NoShell, ReParsed, Http, Filesizes
<1>3. Steers(h, [h EXCEPT !.piped = TRUE])
  BY Zenon DEF Steers, NoShell, Http
<1>4. Steers(h, [h EXCEPT !.piped = FALSE, !.url = FALSE])
  BY Zenon DEF Steers, NoShell, Http
<1>5. Steers(h, [h EXCEPT !.url = FALSE, !.filesize = "failed"])
  BY Zenon DEF Steers, NoShell, Http, Filesizes
<1> QED
  BY <1>1, <1>2, <1>3, <1>4, <1>5

LEMMA SteersOn ==
  ASSUME NEW g, NEW h, NEW k, Steers(g, h), Steers(h, k)
  PROVE  Steers(g, k)
BY DEF Steers

LEMMA LzbLemma ==
  ASSUME NEW h \in Http, NEW z \in {"null", "listing"}
  PROVE  Steers(h, [h EXCEPT !.lzb = z])
<1>1. z \in {"null", "listing", "ws"} /\ z # "ws"
  OBVIOUS
<1> QED
  BY <1>1, Zenon DEF Steers, NoShell, Http

LEMMA HeardLemma ==
  ASSUME NEW h \in Http, NEW u \in BOOLEAN
  PROVE  Steers(h, Heard(h, u))
BY Zenon DEF Steers, NoShell, Http, Heard

LEMMA PaidLemma ==
  ASSUME NEW t \in Talk
  PROVE  Paid(t) \in Talk /\ Paid(t).killed = t.killed
<1>1. t.owed - 1 \in Int
  BY DEF Talk
<1> QED
  BY <1>1 DEF Talk, Paid

LEMMA ToldLemma ==
  ASSUME NEW t \in Talk, NEW whole \in BOOLEAN, NEW n \in Int
  PROVE  Told(t, whole, n) \in Talk /\ Told(t, whole, n).killed = t.killed
<1> DEFINE a == t.taken + 1
           b == t.owed + (IF whole THEN 1 ELSE 0) - n
<1>1. a \in Nat /\ b \in Int
  BY DEF Talk
<1>2. Told(t, whole, n) = [t EXCEPT !.taken = a, !.owed = b]
  BY DEF Told
<1> HIDE DEF a, b
<1>3. /\ [t EXCEPT !.taken = a, !.owed = b] \in Talk
      /\ [t EXCEPT !.taken = a, !.owed = b].killed = t.killed
  BY <1>1, Zenon DEF Talk
<1> QED
  BY <1>2, <1>3

(***************************************************************************)
(* The handlers, one at a time.                                            *)
(***************************************************************************)
LEMMA SizeLemma ==
  ASSUME NEW h \in Http, NEW n \in Nat, NEW z \in Filesizes \ {"pid"}
  PROVE  Steers(h, [h EXCEPT !.left = n, !.filesize = z])
BY Zenon DEF Steers, NoShell, Http

\* The same for a handler that stays in its state.
LEMMA SubmitOnLemma ==
  ASSUME IInv, NEW c \in Clients, NEW i \in DOMAIN mc[c].inflight, NEW op \in Ops
  PROVE  /\ Submit(Reap(mc[c], i), op) \in Object
         /\ Kept(mc[c], Submit(Reap(mc[c], i), op))
         /\ Accounted(Submit(Reap(mc[c], i), op))
         /\ Submit(Reap(mc[c], i), op).so_type = mc[c].so_type
<1> DEFINE o == Reap(mc[c], i)
<1>1. mc[c] \in Object /\ Accounted(mc[c])
  BY OfClient DEF Consistent
<1>2. /\ o \in Object /\ Kept(mc[c], o) /\ Accounted(o)
      /\ mc[c].mem = "live" /\ o.so_type = mc[c].so_type
  BY <1>1, ReapLemma
<1> HIDE DEF o
<1>3. /\ Submit(o, op) \in Object /\ Kept(o, Submit(o, op))
      /\ Submit(o, op).so_type = o.so_type
      /\ Accounted(o) /\ o.mem = "live" => Accounted(Submit(o, op))
  BY <1>2, SubmitLemma
<1> QED
  BY <1>2, <1>3 DEF Kept, o

LEMMA ReParseStep ==
  ASSUME IInv, NEW c \in Clients, NEW i \in DOMAIN mc[c].inflight, ReParse(c, i)
  PROVE  IInv'
<1> DEFINE p == Proceed(Reap(mc[c], i), "ss_recv_header", "recv")
           h == ReParsed(http[c])
<1>1. p \in Object /\ Kept(mc[c], p) /\ Accounted(p) /\ p.so_type = "ss_recv_header"
  BY HandOnLemma DEF SoTypes, HttpStates, TerminalStates, Ops
<1>2. Steers(http[c], h)
  BY OfClient, HttpLemma
<1>3. /\ mc' = [mc EXCEPT ![c] = p]
      /\ http' = [http EXCEPT ![c] = h] /\ http[c] \in Http
      /\ talk' = [talk EXCEPT ![c] = talk[c]] /\ talk[c] \in Talk
      /\ proc' \in {"running", "stopped", "failed"}
      /\ mc[c].so_type = "ss_reparse" /\ UNCHANGED <<server, ws>>
  BY OfClient DEF ReParse, Good, Cqe
<1> HIDE DEF p, h
<1>4. Handled(c, p, h, talk[c])
  BY <1>1, <1>2, <1>3 DEF Handled, HttpStates, TerminalStates
<1> QED
  BY <1>4, HandlerLemma

LEMMA ReadDirStep ==
  ASSUME IInv, NEW c \in Clients, NEW i \in DOMAIN mc[c].inflight, ReadDir(c, i)
  PROVE  IInv'
<1> DEFINE p == Proceed(Reap(mc[c], i), "ss_reparse2", "send_lzb")
           t == Paid(talk[c])
<1>1. p \in Object /\ Kept(mc[c], p) /\ Accounted(p) /\ p.so_type = "ss_reparse2"
  BY HandOnLemma DEF SoTypes, HttpStates, TerminalStates, Ops
<1>2. t \in Talk /\ t.killed = talk[c].killed
  BY OfClient, PaidLemma
<1>3. /\ mc' = [mc EXCEPT ![c] = p]
      /\ http' = [http EXCEPT ![c] = http[c]] /\ http[c] \in Http
      /\ talk' = [talk EXCEPT ![c] = t] /\ talk[c] \in Talk
      /\ proc' \in {"running", "stopped", "failed"}
      /\ mc[c].so_type = "ss_readdir" /\ UNCHANGED <<server, ws>>
  BY OfClient DEF ReadDir, Good, Cqe
<1> HIDE DEF p, t
<1>4. Handled(c, p, http[c], t)
  BY <1>1, <1>2, <1>3, HttpLemma DEF Handled, HttpStates, TerminalStates
<1> QED
  BY <1>4, HandlerLemma

LEMMA ReParse2Step ==
  ASSUME IInv, NEW c \in Clients, NEW i \in DOMAIN mc[c].inflight, ReParse2(c, i)
  PROVE  IInv'
<1> DEFINE p == Proceed(Reap(mc[c], i), "ss_recv_header", "recv")
           h == [ReParsed(http[c]) EXCEPT !.lzb = "null"]
<1>1. p \in Object /\ Kept(mc[c], p) /\ Accounted(p) /\ p.so_type = "ss_recv_header"
  BY HandOnLemma DEF SoTypes, HttpStates, TerminalStates, Ops
<1>2. Steers(http[c], h)
  <2> DEFINE g == ReParsed(http[c])
  <2>1. Steers(http[c], g)
    BY OfClient, HttpLemma
  <2> HIDE DEF g
  <2>2. Steers(g, [g EXCEPT !.lzb = "null"])
    BY <2>1, LzbLemma DEF Steers
  <2> QED
    BY <2>1, <2>2, SteersOn DEF g
<1>3. /\ mc' = [mc EXCEPT ![c] = p]
      /\ http' = [http EXCEPT ![c] = h] /\ http[c] \in Http
      /\ talk' = [talk EXCEPT ![c] = talk[c]] /\ talk[c] \in Talk
      /\ proc' \in {"running", "stopped", "failed"}
      /\ mc[c].so_type = "ss_reparse2" /\ UNCHANGED <<server, ws>>
  BY OfClient DEF ReParse2, Good, Cqe
<1> HIDE DEF p, h
<1>4. Handled(c, p, h, talk[c])
  BY <1>1, <1>2, <1>3 DEF Handled, HttpStates, TerminalStates
<1> QED
  BY <1>4, HandlerLemma

LEMMA SpliceInStep ==
  ASSUME IInv, NEW c \in Clients, NEW i \in DOMAIN mc[c].inflight, SpliceIn(c, i)
  PROVE  IInv'
<1> DEFINE p == Proceed(Reap(mc[c], i), "ss_responce_file2", "splice_in")
           h == [http[c] EXCEPT !.piped = TRUE]
<1>1. p \in Object /\ Kept(mc[c], p) /\ Accounted(p) /\ p.so_type = "ss_responce_file2"
  BY HandOnLemma DEF SoTypes, HttpStates, TerminalStates, Ops
<1>2. Steers(http[c], h)
  BY OfClient, HttpLemma
<1>3. /\ mc' = [mc EXCEPT ![c] = p]
      /\ http' = [http EXCEPT ![c] = h] /\ http[c] \in Http
      /\ talk' = [talk EXCEPT ![c] = talk[c]] /\ talk[c] \in Talk
      /\ proc' \in {"running", "stopped", "failed"}
      /\ mc[c].so_type = "ss_responce_file" /\ UNCHANGED <<server, ws>>
  BY OfClient DEF SpliceIn, Good, Cqe
<1> HIDE DEF p, h
<1>4. Handled(c, p, h, talk[c])
  BY <1>1, <1>2, <1>3 DEF Handled, HttpStates, TerminalStates
<1> QED
  BY <1>4, HandlerLemma

LEMMA FileSentStep ==
  ASSUME IInv, NEW c \in Clients, NEW i \in DOMAIN mc[c].inflight, FileSent(c, i)
  PROVE  IInv'
<1> DEFINE p == Proceed(Reap(mc[c], i), "ss_recv_header", "recv")
           h == [http[c] EXCEPT !.piped = FALSE, !.url = FALSE]
           t == Paid(talk[c])
<1>1. p \in Object /\ Kept(mc[c], p) /\ Accounted(p) /\ p.so_type = "ss_recv_header"
  BY HandOnLemma DEF SoTypes, HttpStates, TerminalStates, Ops
<1>2. Steers(http[c], h)
  BY OfClient, HttpLemma
<1>3. t \in Talk /\ t.killed = talk[c].killed
  BY OfClient, PaidLemma
<1>4. /\ mc' = [mc EXCEPT ![c] = p]
      /\ http' = [http EXCEPT ![c] = h] /\ http[c] \in Http
      /\ talk' = [talk EXCEPT ![c] = t] /\ talk[c] \in Talk
      /\ proc' \in {"running", "stopped", "failed"}
      /\ mc[c].so_type = "ss_responce_file" /\ UNCHANGED <<server, ws>>
  BY OfClient DEF FileSent, Good, Cqe
<1> HIDE DEF p, h, t
<1>5. Handled(c, p, h, t)
  BY <1>1, <1>2, <1>3, <1>4 DEF Handled, HttpStates, TerminalStates
<1> QED
  BY <1>5, HandlerLemma

LEMMA SpliceOutStep ==
  ASSUME IInv, NEW c \in Clients, NEW i \in DOMAIN mc[c].inflight, SpliceOut(c, i)
  PROVE  IInv'
<1> DEFINE p == Proceed(Reap(mc[c], i), "ss_responce_file", "splice_out")
<1>1. p \in Object /\ Kept(mc[c], p) /\ Accounted(p) /\ p.so_type = "ss_responce_file"
  BY HandOnLemma DEF SoTypes, HttpStates, TerminalStates, Ops
<1>2. /\ mc' = [mc EXCEPT ![c] = p]
      /\ http' = [http EXCEPT ![c] = http[c]] /\ http[c] \in Http
      /\ talk' = [talk EXCEPT ![c] = talk[c]] /\ talk[c] \in Talk
      /\ proc' \in {"running", "stopped", "failed"}
      /\ mc[c].so_type = "ss_responce_file2" /\ UNCHANGED <<server, ws>>
  BY OfClient DEF SpliceOut, Good, Cqe
<1> HIDE DEF p
<1>3. Handled(c, p, http[c], talk[c])
  BY <1>1, <1>2, HttpLemma DEF Handled, HttpStates, TerminalStates
<1> QED
  BY <1>3, HandlerLemma

LEMMA UpgradeStep ==
  ASSUME IInv, NEW c \in Clients, NEW i \in DOMAIN mc[c].inflight,
         NEW url \in BOOLEAN, Upgrade(c, i, url)
  PROVE  IInv'
<1> DEFINE p == Proceed(Reap(mc[c], i), "ss_ws_open", "send")
           h == Heard(http[c], url)
<1>1. p \in Object /\ Kept(mc[c], p) /\ Accounted(p) /\ p.so_type = "ss_ws_open"
  BY HandOnLemma DEF SoTypes, HttpStates, TerminalStates, Ops
<1>2. Steers(http[c], h)
  BY OfClient, HeardLemma
<1>3. /\ mc' = [mc EXCEPT ![c] = p]
      /\ http' = [http EXCEPT ![c] = h] /\ http[c] \in Http
      /\ talk' = [talk EXCEPT ![c] = talk[c]] /\ talk[c] \in Talk
      /\ proc' \in {"running", "stopped", "failed"}
      /\ mc[c].so_type = "ss_recv_header" /\ UNCHANGED <<server, ws>>
  BY OfClient DEF Upgrade, Parsed, Good, Cqe
<1> HIDE DEF p, h
<1>4. Handled(c, p, h, talk[c])
  BY <1>1, <1>2, <1>3 DEF Handled, HttpStates, TerminalStates
<1> QED
  BY <1>4, HandlerLemma

LEMMA HeaderGoesOnStep ==
  ASSUME IInv, NEW c \in Clients, NEW i \in DOMAIN mc[c].inflight, HeaderGoesOn(c, i)
  PROVE  IInv'
<1> DEFINE p == Submit(Reap(mc[c], i), "recv")
<1>1. p \in Object /\ Kept(mc[c], p) /\ Accounted(p) /\ p.so_type = "ss_recv_header"
  BY SubmitOnLemma DEF HeaderGoesOn, Parsed, Ops, Good, Cqe
<1>2. /\ mc' = [mc EXCEPT ![c] = p]
      /\ http' = [http EXCEPT ![c] = http[c]] /\ http[c] \in Http
      /\ talk' = [talk EXCEPT ![c] = talk[c]] /\ talk[c] \in Talk
      /\ proc' \in {"running", "stopped", "failed"}
      /\ mc[c].so_type = "ss_recv_header" /\ UNCHANGED <<server, ws>>
  BY OfClient DEF HeaderGoesOn, Parsed, Good, Cqe
<1> HIDE DEF p
<1>3. Handled(c, p, http[c], talk[c])
  BY <1>1, <1>2, HttpLemma DEF Handled, HttpStates, TerminalStates
<1> QED
  BY <1>3, HandlerLemma

LEMMA SmallResponseStep ==
  ASSUME IInv, NEW c \in Clients, NEW i \in DOMAIN mc[c].inflight,
         NEW r \in Requests, NEW whole \in BOOLEAN, SmallResponse(c, i, r, whole)
  PROVE  IInv'
<1> DEFINE p == Proceed(Reap(mc[c], i), "ss_reparse", "send")
           h == Heard(http[c], r.url)
           t == Told(talk[c], whole, 1)
<1>1. p \in Object /\ Kept(mc[c], p) /\ Accounted(p) /\ p.so_type = "ss_reparse"
  BY HandOnLemma DEF SoTypes, HttpStates, TerminalStates, Ops
<1>2. Steers(http[c], h)
  BY OfClient, HeardLemma, ConstantsAssumption DEF RequestType
<1>3. t \in Talk /\ t.killed = talk[c].killed
  BY OfClient, ToldLemma DEF Refusals
<1>4. /\ mc' = [mc EXCEPT ![c] = p]
      /\ http' = [http EXCEPT ![c] = h] /\ http[c] \in Http
      /\ talk' = [talk EXCEPT ![c] = t] /\ talk[c] \in Talk
      /\ proc' \in {"running", "stopped", "failed"}
      /\ mc[c].so_type = "ss_recv_header" /\ UNCHANGED <<server, ws>>
  BY OfClient DEF SmallResponse, Finished, Parsed, Good, Cqe
<1> HIDE DEF p, h, t
<1>5. Handled(c, p, h, t)
  BY <1>1, <1>2, <1>3, <1>4 DEF Handled, HttpStates, TerminalStates
<1> QED
  BY <1>5, HandlerLemma

LEMMA GetSpecialStep ==
  ASSUME IInv, NEW c \in Clients, NEW i \in DOMAIN mc[c].inflight,
         NEW r \in Requests, NEW whole \in BOOLEAN, GetSpecial(c, i, r, whole)
  PROVE  IInv'
<1> DEFINE p == Proceed(Opened(Reap(mc[c], i), r), "ss_reparse", "send")
           h == Heard(http[c], r.url)
           t == Told(talk[c], whole, 1 + Refusals(r))
<1>1. p \in Object /\ Kept(mc[c], p) /\ Accounted(p) /\ p.so_type = "ss_reparse"
  BY RefuseAndHandOnLemma DEF SoTypes, HttpStates, TerminalStates, Ops
<1>2. Steers(http[c], h)
  BY OfClient, HeardLemma, ConstantsAssumption DEF RequestType
<1>3. t \in Talk /\ t.killed = talk[c].killed
  BY OfClient, ToldLemma DEF Refusals
<1>4. /\ mc' = [mc EXCEPT ![c] = p]
      /\ http' = [http EXCEPT ![c] = h] /\ http[c] \in Http
      /\ talk' = [talk EXCEPT ![c] = t] /\ talk[c] \in Talk
      /\ proc' \in {"running", "stopped", "failed"}
      /\ mc[c].so_type = "ss_recv_header" /\ UNCHANGED <<server, ws>>
  BY OfClient DEF GetSpecial, Serves, Finished, Parsed, Good, Cqe
<1> HIDE DEF p, h, t
<1>5. Handled(c, p, h, t)
  BY <1>1, <1>2, <1>3, <1>4 DEF Handled, HttpStates, TerminalStates
<1> QED
  BY <1>5, HandlerLemma

LEMMA GetDirectoryStep ==
  ASSUME IInv, NEW c \in Clients, NEW i \in DOMAIN mc[c].inflight,
         NEW r \in Requests, NEW whole \in BOOLEAN, GetDirectory(c, i, r, whole)
  PROVE  IInv'
<1> DEFINE p == Proceed(Opened(Reap(mc[c], i), r), "ss_readdir", "send")
           h == [Heard(http[c], r.url) EXCEPT !.lzb = "listing"]
           t == Told(talk[c], whole, Refusals(r))
<1>1. p \in Object /\ Kept(mc[c], p) /\ Accounted(p) /\ p.so_type = "ss_readdir"
  BY RefuseAndHandOnLemma DEF SoTypes, HttpStates, TerminalStates, Ops
<1>2. Steers(http[c], h)
  <2> DEFINE g == Heard(http[c], r.url)
  <2>1. Steers(http[c], g)
    BY OfClient, HeardLemma, ConstantsAssumption DEF RequestType
  <2> HIDE DEF g
  <2>2. Steers(g, [g EXCEPT !.lzb = "listing"])
    BY <2>1, LzbLemma DEF Steers
  <2> QED
    BY <2>1, <2>2, SteersOn DEF g
<1>3. t \in Talk /\ t.killed = talk[c].killed
  BY OfClient, ToldLemma DEF Refusals
<1>4. /\ mc' = [mc EXCEPT ![c] = p]
      /\ http' = [http EXCEPT ![c] = h] /\ http[c] \in Http
      /\ talk' = [talk EXCEPT ![c] = t] /\ talk[c] \in Talk
      /\ proc' \in {"running", "stopped", "failed"}
      /\ mc[c].so_type = "ss_recv_header" /\ UNCHANGED <<server, ws>>
  BY OfClient DEF GetDirectory, Serves, Finished, Parsed, Good, Cqe
<1> HIDE DEF p, h, t
<1>5. Handled(c, p, h, t)
  BY <1>1, <1>2, <1>3, <1>4 DEF Handled, HttpStates, TerminalStates
<1> QED
  BY <1>5, HandlerLemma

LEMMA GetUnlistableStep ==
  ASSUME IInv, NEW c \in Clients, NEW i \in DOMAIN mc[c].inflight,
         NEW r \in Requests, NEW whole \in BOOLEAN, GetUnlistable(c, i, r, whole)
  PROVE  IInv'
<1> DEFINE p == Proceed(Opened(Reap(mc[c], i), r), "ss_reparse", "send")
           h == [Heard(http[c], r.url) EXCEPT !.lzb = "listing"]
           t == Told(talk[c], whole, 1 + Refusals(r))
<1>1. p \in Object /\ Kept(mc[c], p) /\ Accounted(p) /\ p.so_type = "ss_reparse"
  BY RefuseAndHandOnLemma DEF SoTypes, HttpStates, TerminalStates, Ops
<1>2. Steers(http[c], h)
  <2> DEFINE g == Heard(http[c], r.url)
  <2>1. Steers(http[c], g)
    BY OfClient, HeardLemma, ConstantsAssumption DEF RequestType
  <2> HIDE DEF g
  <2>2. Steers(g, [g EXCEPT !.lzb = "listing"])
    BY <2>1, LzbLemma DEF Steers
  <2> QED
    BY <2>1, <2>2, SteersOn DEF g
<1>3. t \in Talk /\ t.killed = talk[c].killed
  BY OfClient, ToldLemma DEF Refusals
<1>4. /\ mc' = [mc EXCEPT ![c] = p]
      /\ http' = [http EXCEPT ![c] = h] /\ http[c] \in Http
      /\ talk' = [talk EXCEPT ![c] = t] /\ talk[c] \in Talk
      /\ proc' \in {"running", "stopped", "failed"}
      /\ mc[c].so_type = "ss_recv_header" /\ UNCHANGED <<server, ws>>
  BY OfClient DEF GetUnlistable, Serves, Finished, Parsed, Good, Cqe
<1> HIDE DEF p, h, t
<1>5. Handled(c, p, h, t)
  BY <1>1, <1>2, <1>3, <1>4 DEF Handled, HttpStates, TerminalStates
<1> QED
  BY <1>5, HandlerLemma

LEMMA GetFileStep ==
  ASSUME IInv, NEW c \in Clients, NEW i \in DOMAIN mc[c].inflight,
         NEW r \in Requests, NEW whole \in BOOLEAN,
         NEW chunks \in 0..MaxChunks, GetFile(c, i, r, whole, chunks)
  PROVE  IInv'
<1> DEFINE p == Proceed(Opened(Reap(mc[c], i), r), "ss_responce_file", "send")
           h == [Heard(http[c], r.url) EXCEPT
                     !.left = chunks, !.filesize = IF chunks > 0 THEN "size" ELSE "zero"]
           t == Told(talk[c], whole, Refusals(r))
<1>1. p \in Object /\ Kept(mc[c], p) /\ Accounted(p) /\ p.so_type = "ss_responce_file"
  BY RefuseAndHandOnLemma DEF SoTypes, HttpStates, TerminalStates, Ops
<1>2. Steers(http[c], h)
  <2> DEFINE g == Heard(http[c], r.url)
             z == IF chunks > 0 THEN "size" ELSE "zero"
  <2>1. Steers(http[c], g)
    BY OfClient, HeardLemma, ConstantsAssumption DEF RequestType
  <2>2. chunks \in Nat /\ z \in Filesizes \ {"pid"}
    BY ConstantsAssumption DEF Filesizes
  <2> HIDE DEF g, z
  <2>3. Steers(g, [g EXCEPT !.left = chunks, !.filesize = z])
    BY <2>1, <2>2, SizeLemma DEF Steers
  <2> QED
    BY <2>1, <2>3, SteersOn DEF g, z
<1>3. t \in Talk /\ t.killed = talk[c].killed
  BY OfClient, ToldLemma DEF Refusals
<1>4. /\ mc' = [mc EXCEPT ![c] = p]
      /\ http' = [http EXCEPT ![c] = h] /\ http[c] \in Http
      /\ talk' = [talk EXCEPT ![c] = t] /\ talk[c] \in Talk
      /\ proc' \in {"running", "stopped", "failed"}
      /\ mc[c].so_type = "ss_recv_header" /\ UNCHANGED <<server, ws>>
  BY OfClient DEF GetFile, Serves, Finished, Parsed, Good, Cqe
<1> HIDE DEF p, h, t
<1>5. Handled(c, p, h, t)
  BY <1>1, <1>2, <1>3, <1>4 DEF Handled, HttpStates, TerminalStates
<1> QED
  BY <1>5, HandlerLemma

LEMMA DataStep ==
  ASSUME IInv, NEW c \in Clients, NEW i \in DOMAIN mc[c].inflight, Data(c, i)
  PROVE  IInv'
<1> DEFINE p == Proceed(Reap(mc[c], i), "ss_ws_read6", "recv6")
<1>1. p \in Object /\ Kept(mc[c], p) /\ Accounted(p) /\ p.so_type = "ss_ws_read6"
  BY HandOnLemma DEF SoTypes, HttpStates, TerminalStates, Ops
<1>2. /\ mc' = [mc EXCEPT ![c] = p]
      /\ http' = [http EXCEPT ![c] = http[c]] /\ http[c] \in Http
      /\ talk' = [talk EXCEPT ![c] = talk[c]] /\ talk[c] \in Talk
      /\ proc' \in {"running", "stopped", "failed"}
      /\ mc[c].so_type = "ss_ws_read_data" /\ UNCHANGED <<server, ws>>
  BY OfClient DEF Data, Good, Cqe
<1> HIDE DEF p
<1>3. Handled(c, p, http[c], talk[c])
  BY <1>1, <1>2, HttpLemma DEF Handled, HttpStates, TerminalStates
<1> QED
  BY <1>3, HandlerLemma

LEMMA HeadRequestStep ==
  ASSUME IInv, NEW c \in Clients, NEW i \in DOMAIN mc[c].inflight,
         NEW r \in Requests, NEW whole \in BOOLEAN, HeadRequest(c, i, r, whole)
  PROVE  IInv'
<1> DEFINE p == Reap(mc[c], i)
           h == Heard(http[c], r.url)
           t == Told(talk[c], whole, 0)
<1>1. mc[c] \in Object /\ Accounted(mc[c])
  BY OfClient DEF Consistent
<1>2. /\ p \in Object /\ Kept(mc[c], p) /\ Accounted(p)
      /\ p.so_type = mc[c].so_type
  BY <1>1, ReapLemma
<1>3. Steers(http[c], h)
  BY OfClient, HeardLemma, ConstantsAssumption DEF RequestType
<1>4. t \in Talk /\ t.killed = talk[c].killed
  BY OfClient, ToldLemma
<1>5. /\ mc' = [mc EXCEPT ![c] = p]
      /\ http' = [http EXCEPT ![c] = h]
      /\ talk' = [talk EXCEPT ![c] = t]
      /\ proc' \in {"running", "stopped", "failed"}
      /\ mc[c].so_type = "ss_recv_header" /\ UNCHANGED <<server, ws>>
  BY OfClient DEF HeadRequest, Finished, Parsed, Good, Cqe
<1> HIDE DEF p, h, t
<1>6. Handled(c, p, h, t)
  BY <1>2, <1>3, <1>4, <1>5 DEF Handled, HttpStates, TerminalStates
<1> QED
  BY <1>6, HandlerLemma

LEMMA FrameStep ==
  ASSUME IInv, NEW c \in Clients, NEW i \in DOMAIN mc[c].inflight,
         NEW empty \in BOOLEAN, Frame(c, i, empty)
  PROVE  IInv'
<1> DEFINE p == IF empty THEN Submit(Reap(mc[c], i), "recv6")
                ELSE Proceed(Reap(mc[c], i), "ss_ws_read_data", "recv_data")
<1>1. /\ mc' = [mc EXCEPT ![c] = p]
      /\ http' = [http EXCEPT ![c] = http[c]] /\ http[c] \in Http
      /\ talk' = [talk EXCEPT ![c] = talk[c]] /\ talk[c] \in Talk
      /\ proc' \in {"running", "stopped", "failed"}
      /\ mc[c].so_type = "ss_ws_read6" /\ UNCHANGED <<server, ws>>
  BY OfClient DEF Frame, Good, Cqe
<1>2. p \in Object /\ Kept(mc[c], p) /\ Accounted(p) /\ p.so_type \in TerminalStates
  <2>1. CASE empty
    BY <1>1, <2>1, SubmitOnLemma DEF Ops, TerminalStates
  <2>2. CASE ~empty
    BY <2>2, HandOnLemma DEF SoTypes, HttpStates, Ops, TerminalStates
  <2> QED
    BY <2>1, <2>2
<1> HIDE DEF p
<1>3. Handled(c, p, http[c], talk[c])
  BY <1>1, <1>2, HttpLemma DEF Handled, HttpStates, TerminalStates
<1> QED
  BY <1>3, HandlerLemma

LEMMA GoneStep ==
  ASSUME IInv, NEW c \in Clients, NEW i \in DOMAIN mc[c].inflight, Gone(c, i)
  PROVE  IInv'
<1> DEFINE h == IF mc[c].so_type = "ss_reparse2" THEN [http[c] EXCEPT !.lzb = "null"]
                ELSE http[c]
<1>1. /\ Steers(http[c], h)
      /\ mc[c].so_type # "ss_reparse2" => h = http[c]
  BY OfClient, HttpLemma, LzbLemma
<1>2. /\ mc' = [mc EXCEPT ![c] = Delete(Reap(mc[c], i))]
      /\ UNCHANGED <<server, ws, talk, proc>> /\ mc[c].so_type # "ss_shutdown"
  BY DEF Gone, Cqe
<1>3. http' = [http EXCEPT ![c] = h]
  BY OfClient DEF Gone
<1> HIDE DEF h
<1>4. Closed(c, i, h)
  BY <1>1, <1>2, <1>3 DEF Closed, TerminalStates
<1> QED
  BY <1>4, CloseLemma

LEMMA ParseErrorStep ==
  ASSUME IInv, NEW c \in Clients, NEW i \in DOMAIN mc[c].inflight, ParseError(c, i)
  PROVE  IInv'
<1>1. Closed(c, i, http[c])
  BY OfClient, HttpLemma DEF ParseError, Parsed, Good, Cqe, Closed
<1> QED
  BY <1>1, CloseLemma

LEMMA ForkFailsStep ==
  ASSUME IInv, NEW c \in Clients, NEW i \in DOMAIN mc[c].inflight, ForkFails(c, i)
  PROVE  IInv'
<1> DEFINE h == [http[c] EXCEPT !.url = FALSE, !.filesize = "failed"]
<1>1. Steers(http[c], h)
  BY OfClient, HttpLemma
<1>2. /\ mc' = [mc EXCEPT ![c] = Delete(Reap(mc[c], i))] /\ http' = [http EXCEPT ![c] = h]
      /\ UNCHANGED <<server, ws, talk, proc>> /\ mc[c].so_type = "ss_ws_open"
  BY DEF ForkFails, Good, Cqe
<1> HIDE DEF h
<1>3. Closed(c, i, h)
  BY <1>1, <1>2 DEF Closed, TerminalStates
<1> QED
  BY <1>3, CloseLemma

\* The handlers that end the process.
LEMMA FailureStep ==
  ASSUME IInv, UNCHANGED <<server, mc, ws, http, talk>>,
         proc' \in {"running", "stopped", "failed"}
  PROVE  IInv'
BY DEF IInv, TypeOK

\* forkpty: the my_client_ws comes to life with its mc in ss_ws_read6.
LEMMA OpenTerminalStep ==
  ASSUME IInv, NEW c \in Clients, NEW i \in DOMAIN mc[c].inflight, OpenTerminal(c, i)
  PROVE  IInv'
<1> DEFINE p == Proceed(Reap(mc[c], i), "ss_ws_read6", "recv6")
           w == Started("ss_ws_read_pty", "read_pty")
           h == Terminal(http[c])
<1>1. p \in Object /\ Kept(mc[c], p) /\ Accounted(p) /\ p.so_type = "ss_ws_read6"
  BY HandOnLemma DEF SoTypes, HttpStates, Ops
<1>2. /\ w \in Object /\ Accounted(w) /\ w.mem = "live" /\ ~w.closing
      /\ w.so_type \in WsStates
  <2>1. <<"read_pty">> \in Seq(Ops) /\ Len(<<"read_pty">>) = 1
    BY DEF Ops
  <2> QED
    BY <2>1 DEF Started, Object, Accounted, SoTypes, WsStates
<1>3. h \in Http /\ h.lzb = "ws" /\ h.filesize = "pid"
  BY OfClient, Zenon DEF Terminal, Http, Filesizes
<1>4. /\ talk[c] \in Talk /\ talk = [talk EXCEPT ![c] = talk[c]]
      /\ server \in Object /\ proc \in {"running", "stopped", "failed"}
      /\ Consistent(mc[c], ws[c], http[c], talk[c])
      /\ mc[c] \in Object /\ Accounted(mc[c])
  BY OfClient DEF Consistent
<1>5. /\ mc' = [mc EXCEPT ![c] = p] /\ ws' = [ws EXCEPT ![c] = w]
      /\ http' = [http EXCEPT ![c] = h] /\ mc[c].so_type = "ss_ws_open"
      /\ UNCHANGED <<server, talk, proc>>
  BY DEF OpenTerminal, Good, Cqe
<1>6. mc[c].mem = "live"
  BY <1>4, ReapLemma
<1> HIDE DEF p, w, h
<1>7. Consistent(p, w, h, talk[c])
  BY <1>1, <1>2, <1>3, <1>4, <1>5, <1>6 DEF Consistent, Kept, HttpStates, TerminalStates
<1>8. Changed(c, p, w, h, talk[c])
  BY <1>1, <1>2, <1>3, <1>4, <1>5, <1>7 DEF Changed
<1> QED
  BY <1>8, LocalChange

LEMMA DrainStep ==
  ASSUME IInv, NEW c \in Clients, NEW i \in DOMAIN mc[c].inflight, Drain(c, i)
  PROVE  IInv'
<1> DEFINE p == Reap(mc[c], i)
<1>1. /\ mc[c] \in Object /\ ws[c] \in Object /\ http[c] \in Http /\ talk[c] \in Talk
      /\ server \in Object /\ proc \in {"running", "stopped", "failed"}
      /\ ws = [ws EXCEPT ![c] = ws[c]] /\ http = [http EXCEPT ![c] = http[c]]
      /\ talk = [talk EXCEPT ![c] = talk[c]]
      /\ Consistent(mc[c], ws[c], http[c], talk[c])
  BY OfClient
<1>2. /\ p \in Object /\ Kept(mc[c], p) /\ p.so_type = mc[c].so_type
      /\ Accounted(p) /\ mc[c].mem = "live" /\ mc[c].inflight # <<>>
  BY <1>1, ReapLemma DEF Consistent, Object
<1>3. /\ mc' = [mc EXCEPT ![c] = p] /\ UNCHANGED <<server, ws, http, talk, proc>>
      /\ ~Settled(p) /\ mc[c].so_type = "ss_shutdown"
  BY DEF Drain, Cqe
<1>4. p.inflight # <<>>
  <2>1. p.ops # 0 /\ p.ops = Len(p.inflight)
    BY <1>1, <1>2, <1>3 DEF Settled, Consistent, Kept, Accounted
  <2> QED
    BY <2>1
<1> HIDE DEF p
<1>5. Consistent(p, ws[c], http[c], talk[c])
  BY <1>1, <1>2, <1>3, <1>4 DEF Consistent, Kept
<1>6. Changed(c, p, ws[c], http[c], talk[c])
  BY <1>1, <1>2, <1>3, <1>5 DEF Changed
<1> QED
  BY <1>6, LocalChange

LEMMA FreeClientStep ==
  ASSUME IInv, NEW c \in Clients, NEW i \in DOMAIN mc[c].inflight, FreeClient(c, i)
  PROVE  IInv'
<1> DEFINE o == Reap(mc[c], i)
           isWs == http[c].lzb # "null" /\ http[c].filesize # "zero"
           busy == http[c].lzb = "listing" \/ ws[c].ops # 0
           kill == isWs /\ (http[c].lzb = "listing" \/ http[c].pty)
           k == Append(talk[c].killed, http[c].filesize)
           t == IF kill THEN [talk[c] EXCEPT !.killed = k] ELSE talk[c]
           h == [http[c] EXCEPT !.pty = FALSE]
           w == Freed(ws[c])
           q == Freed(o)
<1>1. /\ mc[c] \in Object /\ ws[c] \in Object /\ http[c] \in Http /\ talk[c] \in Talk
      /\ server \in Object /\ proc \in {"running", "stopped", "failed"}
      /\ ws = [ws EXCEPT ![c] = ws[c]] /\ http = [http EXCEPT ![c] = http[c]]
      /\ talk = [talk EXCEPT ![c] = talk[c]]
      /\ Consistent(mc[c], ws[c], http[c], talk[c])
  BY OfClient
<1>2. /\ o \in Object /\ Kept(mc[c], o) /\ o.so_type = mc[c].so_type
      /\ Accounted(o) /\ mc[c].mem = "live" /\ mc[c].inflight # <<>>
  BY <1>1, ReapLemma DEF Consistent, Object
<1>3. /\ Settled(o) /\ UNCHANGED <<server, proc>>
      /\ talk' = [talk EXCEPT ![c] = t]
  BY <1>1 DEF FreeClient
<1>4. o.inflight = <<>> /\ o.closing /\ o.so_type = "ss_shutdown"
  <2>1. o.inflight \in Seq(Ops)
    BY <1>2 DEF Object
  <2>2. Len(o.inflight) = 0 /\ o.closing /\ o.so_type = "ss_shutdown"
    BY <1>2, <1>3 DEF Settled, Accounted
  <2> HIDE DEF o
  <2> QED
    BY <2>1, <2>2, EmptySeq
<1>5. /\ t \in Talk
      /\ t.killed # <<>> => t.killed = <<http[c].filesize>> /\ http[c].lzb # "null"
  <2>1. talk[c].killed = <<>>
    BY <1>1, <1>2 DEF Consistent
  <2>2. http[c].filesize \in Filesizes
    BY <1>1 DEF Http
  <2>3. k = <<http[c].filesize>> /\ k \in Seq(Filesizes)
    BY <2>1, <2>2, AppendProperties
  <2> HIDE DEF k
  <2>4. /\ [talk[c] EXCEPT !.killed = k] \in Talk
        /\ [talk[c] EXCEPT !.killed = k].killed = k
    BY <1>1, <2>3 DEF Talk
  <2> QED
    BY <1>1, <2>1, <2>3, <2>4
<1>6. h \in Http /\ ~h.pty /\ h.lzb = http[c].lzb /\ h.filesize = http[c].filesize
  BY <1>1 DEF Http
<1>7. /\ q \in Object /\ q.mem = "freed" /\ q.closing = o.closing /\ q.so_type = o.so_type
      /\ q.inflight = o.inflight /\ q.ops = o.ops
  BY <1>2 DEF Freed, Object
<1>8. /\ w \in Object /\ w.mem = "freed" /\ w.closing = ws[c].closing
      /\ w.so_type = ws[c].so_type /\ w.inflight = ws[c].inflight /\ w.ops = ws[c].ops
  BY <1>1 DEF Freed, Object
<1>9. /\ ws[c].mem = "live" => isWs
      /\ http[c].pty => ws[c].mem = "live"
  BY <1>1 DEF Consistent
<1> HIDE DEF t, h, w, q, o
<1>10. CASE isWs /\ busy
  <2>1. /\ mc' = [mc EXCEPT ![c] = o] /\ http' = [http EXCEPT ![c] = h] /\ UNCHANGED ws
    BY <1>10 DEF FreeClient, PtyClosed, o, h
  <2>2. Consistent(o, ws[c], h, t)
    BY <1>1, <1>2, <1>4, <1>5, <1>6 DEF Consistent, Kept
  <2>3. Changed(c, o, ws[c], h, t)
    BY <1>1, <1>2, <1>3, <1>5, <1>6, <2>1, <2>2 DEF Changed
  <2> QED
    BY <2>3, LocalChange
<1>11. CASE isWs /\ ~busy
  <2>1. /\ mc' = [mc EXCEPT ![c] = q] /\ http' = [http EXCEPT ![c] = h]
        /\ ws' = [ws EXCEPT ![c] = w]
    BY <1>11 DEF FreeClient, PtyClosed, o, h, w, q
  <2>2. ws[c].inflight = <<>>
    BY <1>1, <1>11 DEF Consistent, Accounted, Object
  <2>3. Accounted(q) /\ Accounted(w)
    BY <1>1, <1>2, <1>4, <1>7, <1>8, <2>2 DEF Accounted, Consistent
  <2>4. Consistent(q, w, h, t)
    BY <1>1, <1>2, <1>4, <1>5, <1>6, <1>7, <1>8, <2>3 DEF Consistent, Kept
  <2>5. Changed(c, q, w, h, t)
    BY <1>3, <1>1, <1>5, <1>6, <1>7, <1>8, <2>1, <2>4 DEF Changed
  <2> QED
    BY <2>5, LocalChange
<1>12. CASE ~isWs
  <2>1. /\ mc' = [mc EXCEPT ![c] = q] /\ UNCHANGED <<ws, http>>
    BY <1>12 DEF FreeClient, o, q
  <2>2. Accounted(q)
    BY <1>2, <1>4, <1>7 DEF Accounted
  <2>3. Consistent(q, ws[c], http[c], t)
    BY <1>1, <1>2, <1>4, <1>5, <1>7, <1>9, <1>12, <2>2 DEF Consistent, Kept
  <2>4. Changed(c, q, ws[c], http[c], t)
    BY <1>1, <1>3, <1>5, <1>7, <2>1, <2>3 DEF Changed
  <2> QED
    BY <2>4, LocalChange
<1> QED
  BY <1>10, <1>11, <1>12

LEMMA FileReadStep ==
  ASSUME IInv, NEW c \in Clients, NEW i \in DOMAIN mc[c].inflight, FileRead(c, i)
  PROVE  IInv'
<1> DEFINE f == [mc[c].inflight EXCEPT ![i] = "spliced"]
           p == [mc[c] EXCEPT !.inflight = f]
           n == http[c].left - 1
           h == [http[c] EXCEPT !.left = n]
<1>1. /\ mc[c] \in Object /\ ws[c] \in Object /\ http[c] \in Http /\ talk[c] \in Talk
      /\ server \in Object /\ proc \in {"running", "stopped", "failed"}
      /\ ws = [ws EXCEPT ![c] = ws[c]] /\ talk = [talk EXCEPT ![c] = talk[c]]
      /\ Consistent(mc[c], ws[c], http[c], talk[c])
  BY OfClient
<1>2. mc[c].inflight \in Seq(Ops) /\ mc[c].inflight # <<>>
  BY <1>1 DEF Object
<1>3. f \in Seq(Ops) /\ Len(f) = Len(mc[c].inflight) /\ f # <<>>
  BY <1>2, "spliced" \in Ops, ExceptSeq DEF Ops
<1> HIDE DEF f
<1>4. /\ p \in Object /\ p.inflight = f /\ p.ops = mc[c].ops /\ p.mem = mc[c].mem
      /\ p.closing = mc[c].closing /\ p.so_type = mc[c].so_type
  BY <1>1, <1>3 DEF Object
<1>5. /\ mc' = [mc EXCEPT ![c] = p] /\ UNCHANGED <<server, ws, talk, proc>>
      /\ http' = [http EXCEPT ![c] = h] /\ http[c].left > 0
  BY DEF FileRead, f
<1>6. /\ h \in Http /\ h.pty = http[c].pty /\ h.lzb = http[c].lzb
      /\ h.filesize = http[c].filesize
  <2>1. n \in Nat
    BY <1>1, <1>5 DEF Http
  <2> HIDE DEF n
  <2> QED
    BY <1>1, <2>1 DEF Http
<1> HIDE DEF p, h
<1>7. Accounted(p)
  BY <1>1, <1>2, <1>3, <1>4 DEF Accounted, Consistent
<1>8. Consistent(p, ws[c], h, talk[c])
  BY <1>1, <1>2, <1>3, <1>4, <1>6, <1>7 DEF Consistent
<1>9. Changed(c, p, ws[c], h, talk[c])
  BY <1>1, <1>4, <1>5, <1>6, <1>8 DEF Changed
<1> QED
  BY <1>9, LocalChange

(***************************************************************************)
(* The my_client_ws's handlers.                                            *)
(***************************************************************************)
WsOn(c, w) ==
  /\ w \in Object /\ Kept(ws[c], w) /\ Accounted(w) /\ w.so_type \in WsStates
  /\ ws' = [ws EXCEPT ![c] = w]
  /\ UNCHANGED <<server, mc, http, talk, proc>>

LEMMA WsOnLemma ==
  ASSUME IInv, NEW c \in Clients, NEW w, WsOn(c, w)
  PROVE  IInv'
<1>1. /\ mc[c] \in Object /\ http[c] \in Http /\ talk[c] \in Talk
      /\ server \in Object /\ proc \in {"running", "stopped", "failed"}
      /\ mc = [mc EXCEPT ![c] = mc[c]] /\ http = [http EXCEPT ![c] = http[c]]
      /\ talk = [talk EXCEPT ![c] = talk[c]]
      /\ Consistent(mc[c], ws[c], http[c], talk[c])
  BY OfClient
<1>2. Consistent(mc[c], w, http[c], talk[c])
  BY <1>1 DEF Consistent, Kept, WsOn
<1>3. Changed(c, mc[c], w, http[c], talk[c])
  BY <1>1, <1>2 DEF Changed, WsOn
<1> QED
  BY <1>3, LocalChange

LEMMA WsProceedLemma ==
  ASSUME IInv, NEW c \in Clients, NEW i \in DOMAIN ws[c].inflight,
         NEW type \in WsStates, NEW op \in Ops
  PROVE  /\ Proceed(Reap(ws[c], i), type, op) \in Object
         /\ Kept(ws[c], Proceed(Reap(ws[c], i), type, op))
         /\ Accounted(Proceed(Reap(ws[c], i), type, op))
         /\ Proceed(Reap(ws[c], i), type, op).so_type = type
<1> DEFINE o == Reap(ws[c], i)
           p == Proceed(o, type, op)
<1>1. ws[c] \in Object /\ Accounted(ws[c])
  BY OfClient DEF Consistent
<1>2. o \in Object /\ Kept(ws[c], o) /\ Accounted(o) /\ ws[c].mem = "live"
  BY <1>1, ReapLemma
<1> HIDE DEF o
<1>3. /\ p \in Object /\ Kept(o, p) /\ p.so_type = type
      /\ Accounted(o) /\ o.mem = "live" => Accounted(p)
  BY <1>2, ProceedLemma DEF SoTypes
<1> QED
  BY <1>2, <1>3 DEF Kept, o

LEMMA PtyReadStep ==
  ASSUME IInv, NEW c \in Clients, NEW i \in DOMAIN ws[c].inflight, PtyRead(c, i)
  PROVE  IInv'
<1> DEFINE w == Proceed(Reap(ws[c], i), "ss_ws_send_data", "writev")
<1>1. w \in Object /\ Kept(ws[c], w) /\ Accounted(w) /\ w.so_type \in WsStates
  BY WsProceedLemma DEF WsStates, Ops
<1>2. ws' = [ws EXCEPT ![c] = w] /\ UNCHANGED <<server, mc, http, talk, proc>>
  BY DEF PtyRead, WsCqe
<1> HIDE DEF w
<1>3. WsOn(c, w)
  BY <1>1, <1>2 DEF WsOn
<1> QED
  BY <1>3, WsOnLemma

LEMMA WsSentStep ==
  ASSUME IInv, NEW c \in Clients, NEW i \in DOMAIN ws[c].inflight, WsSent(c, i)
  PROVE  IInv'
<1> DEFINE w == Proceed(Reap(ws[c], i), "ss_ws_read_pty", "read_pty")
<1>1. w \in Object /\ Kept(ws[c], w) /\ Accounted(w) /\ w.so_type \in WsStates
  BY WsProceedLemma DEF WsStates, Ops
<1>2. ws' = [ws EXCEPT ![c] = w] /\ UNCHANGED <<server, mc, http, talk, proc>>
  BY DEF WsSent, WsCqe
<1> HIDE DEF w
<1>3. WsOn(c, w)
  BY <1>1, <1>2 DEF WsOn
<1> QED
  BY <1>3, WsOnLemma

\* The ws gives up and has its mc shut down; the pty may have been closed.
WsEnds(c, i, h) ==
  /\ h \in Http /\ h.lzb = http[c].lzb /\ h.filesize = http[c].filesize
  /\ h.pty => http[c].pty
  /\ ws' = [ws EXCEPT ![c] = Reap(ws[c], i)]
  /\ mc' = [mc EXCEPT ![c] = Delete(mc[c])] /\ http' = [http EXCEPT ![c] = h]
  /\ UNCHANGED <<server, talk, proc>>

LEMMA WsEndsLemma ==
  ASSUME IInv, NEW c \in Clients, NEW i \in DOMAIN ws[c].inflight, NEW h, WsEnds(c, i, h)
  PROVE  IInv'
<1> DEFINE w == Reap(ws[c], i)
           p == Delete(mc[c])
<1>1. /\ mc[c] \in Object /\ ws[c] \in Object /\ talk[c] \in Talk /\ http[c] \in Http
      /\ server \in Object /\ proc \in {"running", "stopped", "failed"}
      /\ talk = [talk EXCEPT ![c] = talk[c]]
      /\ Consistent(mc[c], ws[c], http[c], talk[c])
  BY OfClient
<1>2. /\ w \in Object /\ Kept(ws[c], w) /\ w.so_type = ws[c].so_type
      /\ Accounted(w) /\ ws[c].mem = "live"
  BY <1>1, ReapLemma DEF Consistent
<1>3. mc[c].mem = "live" /\ Accounted(mc[c])
  BY <1>1, <1>2 DEF Consistent
<1>4. /\ p \in Object /\ p.mem = mc[c].mem /\ p.so_type = "ss_shutdown" /\ Accounted(p)
      /\ mc[c].so_type = "ss_shutdown" => p = mc[c]
      /\ mc[c].so_type # "ss_shutdown" => p.closing /\ p.inflight # <<>>
  BY <1>1, <1>3, DeleteLemma
<1>5. mc' = [mc EXCEPT ![c] = p] /\ ws' = [ws EXCEPT ![c] = w]
  BY DEF WsEnds
<1> HIDE DEF p, w
<1>6. Consistent(p, w, h, talk[c])
  BY <1>1, <1>2, <1>3, <1>4 DEF Consistent, Kept, HttpStates, WsEnds
<1>7. Changed(c, p, w, h, talk[c])
  BY <1>1, <1>2, <1>4, <1>5, <1>6 DEF Changed, WsEnds
<1> QED
  BY <1>7, LocalChange

LEMMA PtyFailsStep ==
  ASSUME IInv, NEW c \in Clients, NEW i \in DOMAIN ws[c].inflight,
         NEW eio \in BOOLEAN, PtyFails(c, i, eio)
  PROVE  IInv'
<1> DEFINE h == IF eio THEN [http[c] EXCEPT !.pty = FALSE] ELSE http[c]
<1>1. /\ h \in Http /\ h.lzb = http[c].lzb /\ h.filesize = http[c].filesize
      /\ h.pty => http[c].pty
  BY OfClient DEF Http
<1>2. /\ ws' = [ws EXCEPT ![c] = Reap(ws[c], i)] /\ mc' = [mc EXCEPT ![c] = Delete(mc[c])]
      /\ http' = [http EXCEPT ![c] = h] /\ UNCHANGED <<server, talk, proc>>
  BY OfClient DEF PtyFails, PtyClosed, WsCqe
<1> HIDE DEF h
<1>3. WsEnds(c, i, h)
  BY <1>1, <1>2 DEF WsEnds
<1> QED
  BY <1>3, WsEndsLemma

LEMMA WsGoneStep ==
  ASSUME IInv, NEW c \in Clients, NEW i \in DOMAIN ws[c].inflight, WsGone(c, i)
  PROVE  IInv'
<1>1. WsEnds(c, i, http[c])
  BY OfClient DEF WsGone, WsCqe, WsEnds
<1> QED
  BY <1>1, WsEndsLemma

(***************************************************************************)
(* The listener.                                                           *)
(***************************************************************************)
LEMMA ArmLemma ==
  ASSUME IInv, NEW i \in DOMAIN server.inflight
  PROVE  /\ Reap(server, i) \in Object
         /\ Arm(Reap(server, i)) \in Object
         /\ Delete(Arm(Reap(server, i))) \in Object
<1> DEFINE o == Reap(server, i)
           q == Append(o.inflight, "accept")
<1>1. o \in Object
  BY ReapLemma DEF IInv, TypeOK
<1> HIDE DEF o
<1>2. q \in Seq(Ops)
  BY <1>1, AppendProperties DEF Object, Ops
<1>3. Arm(o) = [o EXCEPT !.inflight = q]
  BY DEF Arm
<1> HIDE DEF q
<1>4. Arm(o) \in Object
  BY <1>1, <1>2, <1>3 DEF Object
<1>5. Delete(Arm(o)) \in Object
  BY <1>4, DeleteLemma
<1> QED
  BY <1>1, <1>4, <1>5 DEF o

LEMMA AcceptStep ==
  ASSUME IInv, NEW i \in DOMAIN server.inflight, NEW c \in Clients,
         NEW garbage \in Leftovers, Accept(i, c, garbage)
  PROVE  IInv'
<1> DEFINE p == Started("ss_recv_header", "recv")
           h == Malloced(garbage)
<1>1. /\ ws[c] \in Object /\ talk[c] \in Talk
      /\ proc \in {"running", "stopped", "failed"}
      /\ ws = [ws EXCEPT ![c] = ws[c]] /\ talk = [talk EXCEPT ![c] = talk[c]]
      /\ Consistent(mc[c], ws[c], http[c], talk[c])
  BY OfClient
<1>2. /\ mc[c].mem = "none" /\ server' = Arm(Reap(server, i))
      /\ mc' = [mc EXCEPT ![c] = p] /\ http' = [http EXCEPT ![c] = h]
      /\ UNCHANGED <<ws, talk, proc>>
  BY DEF Accept
<1>3. server' \in Object
  BY <1>2, ArmLemma
<1>4. /\ p \in Object /\ Accounted(p) /\ p.mem = "live" /\ ~p.closing
      /\ p.so_type = "ss_recv_header"
  <2>1. <<"recv">> \in Seq(Ops) /\ Len(<<"recv">>) = 1
    BY DEF Ops
  <2> QED
    BY <2>1 DEF Started, Object, Accounted, SoTypes, HttpStates
<1>5. h \in Http /\ h.pty = FALSE /\ NoShell(h)
  BY DEF Malloced, Http, Filesizes, Leftovers, NoShell
<1> HIDE DEF p, h
<1>6. Consistent(p, ws[c], h, talk[c])
  BY <1>1, <1>2, <1>4, <1>5 DEF Consistent, HttpStates, NoShell
<1>7. Changed(c, p, ws[c], h, talk[c])
  BY <1>1, <1>2, <1>3, <1>4, <1>5, <1>6 DEF Changed
<1> QED
  BY <1>7, LocalChange

LEMMA ServerStepLemma ==
  ASSUME IInv, ServerStep
  PROVE  IInv'
<1>1. PICK i \in DOMAIN server.inflight :
        \/ \E c \in Clients, garbage \in Leftovers : Accept(i, c, garbage)
        \/ AcceptFails(i)
        \/ ServerDrains(i)
  BY DEF ServerStep
<1>2. ASSUME server' \in Object, UNCHANGED <<mc, ws, http, talk, proc>>
      PROVE  IInv'
  BY <1>2 DEF IInv, TypeOK
<1>3. CASE \E c \in Clients, garbage \in Leftovers : Accept(i, c, garbage)
  BY <1>3, AcceptStep
<1>4. CASE AcceptFails(i)
  BY <1>2, <1>4, ArmLemma DEF AcceptFails
<1>5. CASE ServerDrains(i)
  BY <1>2, <1>5, ArmLemma DEF ServerDrains
<1> QED
  BY <1>1, <1>3, <1>4, <1>5

(***************************************************************************)
(* The invariant.                                                          *)
(***************************************************************************)
LEMMA RequestStep ==
  ASSUME IInv, NEW c \in Clients, NEW i \in DOMAIN mc[c].inflight, Request(c, i)
  PROVE  IInv'
<1>1. PICK r \in Requests, whole \in BOOLEAN :
        \/ SmallResponse(c, i, r, whole)
        \/ HeadRequest(c, i, r, whole)
        \/ GetSpecial(c, i, r, whole)
        \/ GetDirectory(c, i, r, whole)
        \/ GetUnlistable(c, i, r, whole)
        \/ IndexIsDirectory(c, i, r, whole)
        \/ \E chunks \in 0..MaxChunks : GetFile(c, i, r, whole, chunks)
  BY DEF Request
<1>2. CASE IndexIsDirectory(c, i, r, whole)
  BY <1>2, FailureStep DEF IndexIsDirectory, Serves, Finished
<1>3. CASE \E chunks \in 0..MaxChunks : GetFile(c, i, r, whole, chunks)
  BY <1>3, GetFileStep
<1> QED
  BY <1>1, <1>2, <1>3, SmallResponseStep, HeadRequestStep, GetSpecialStep,
     GetDirectoryStep, GetUnlistableStep

LEMMA HttpStepLemma ==
  ASSUME IInv, NEW c \in Clients, NEW i \in DOMAIN mc[c].inflight, HttpStep(c, i)
  PROVE  IInv'
<1>1. CASE FreeClient(c, i)
  BY <1>1, FreeClientStep
<1>2. CASE Drain(c, i) \/ Gone(c, i) \/ ParseError(c, i) \/ ForkFails(c, i)
  BY <1>2, DrainStep, GoneStep, ParseErrorStep, ForkFailsStep
<1>3. CASE ReParse(c, i) \/ ReadDir(c, i) \/ ReParse2(c, i)
  BY <1>3, ReParseStep, ReadDirStep, ReParse2Step
<1>4. CASE SpliceIn(c, i) \/ FileSent(c, i) \/ SpliceOut(c, i)
  BY <1>4, SpliceInStep, FileSentStep, SpliceOutStep
<1>5. CASE PipeFails(c, i) \/ BadPointer(c, i) \/ NoUrl(c, i)
  BY <1>5, FailureStep DEF PipeFails, BadPointer, NoUrl
<1>6. CASE \E url \in BOOLEAN : Upgrade(c, i, url)
  BY <1>6, UpgradeStep
<1>7. CASE HeaderGoesOn(c, i) \/ Request(c, i)
  BY <1>7, HeaderGoesOnStep, RequestStep
<1>8. CASE OpenTerminal(c, i) \/ Data(c, i)
  BY <1>8, OpenTerminalStep, DataStep
<1>9. CASE \E empty \in BOOLEAN : Frame(c, i, empty)
  BY <1>9, FrameStep
<1> QED
  BY <1>1, <1>2, <1>3, <1>4, <1>5, <1>6, <1>7, <1>8, <1>9 DEF HttpStep

LEMMA WsStepLemma ==
  ASSUME IInv, NEW c \in Clients, NEW i \in DOMAIN ws[c].inflight, WsStep(c, i)
  PROVE  IInv'
<1>1. CASE \E eio \in BOOLEAN : PtyFails(c, i, eio)
  BY <1>1, PtyFailsStep
<1>2. CASE PtyRead(c, i) \/ WsSent(c, i) \/ WsGone(c, i)
  BY <1>2, PtyReadStep, WsSentStep, WsGoneStep
<1> QED
  BY <1>1, <1>2 DEF WsStep

LEMMA InitInvariant == Init => IInv
<1> SUFFICES ASSUME Init PROVE IInv
  OBVIOUS
<1>1. <<>> \in Seq(Ops) /\ Len(<<>>) = 0
  BY EmptySeq
<1>2. <<"accept">> \in Seq(Ops)
  BY DEF Ops
<1>3. \A type \in SoTypes : Unallocated(type) \in Object
  BY <1>1 DEF Unallocated, Object
<1>4. "ss_recv_header" \in SoTypes /\ "ss_ws_read_pty" \in SoTypes
      /\ "ss_server_accept" \in SoTypes
  BY DEF SoTypes, HttpStates, WsStates
<1>5. Malloced("zero") \in Http
  BY DEF Malloced, Http, Filesizes
<1>6. server \in Object
  BY <1>2, <1>4 DEF Init, Object
<1>7. TypeOK
  <2>1. mc \in [Clients -> Object] /\ ws \in [Clients -> Object]
    BY <1>3, <1>4 DEF Init
  <2>2. http \in [Clients -> Http]
    BY <1>5 DEF Init
  <2>3. talk \in [Clients -> Talk]
    BY EmptySeq DEF Init, Talk
  <2> QED
    BY <1>6, <2>1, <2>2, <2>3 DEF Init, TypeOK
<1>8. ASSUME NEW c \in Clients
      PROVE  Consistent(mc[c], ws[c], http[c], talk[c])
  <2>1. /\ mc[c] = Unallocated("ss_recv_header") /\ ws[c] = Unallocated("ss_ws_read_pty")
        /\ http[c] = Malloced("zero") /\ talk[c].killed = <<>>
    BY DEF Init
  <2>2. /\ Accounted(mc[c]) /\ mc[c].mem = "none" /\ ~mc[c].closing
        /\ mc[c].so_type = "ss_recv_header"
    BY <1>1, <2>1 DEF Unallocated, Accounted
  <2>4. /\ Accounted(ws[c]) /\ ws[c].mem = "none" /\ ~ws[c].closing
        /\ ws[c].so_type = "ss_ws_read_pty"
    BY <1>1, <2>1 DEF Unallocated, Accounted
  <2>3. ~http[c].pty /\ http[c].lzb = "null" /\ http[c].filesize = "zero"
    BY <2>1 DEF Malloced
  <2> QED
    BY <2>1, <2>2, <2>3, <2>4 DEF Consistent, HttpStates, WsStates
<1> QED
  BY <1>7, <1>8 DEF IInv

LEMMA NextInvariant == IInv /\ [Next]_vars => IInv'
<1> SUFFICES ASSUME IInv, [Next]_vars PROVE IInv'
  OBVIOUS
<1>1. CASE ServerStep
  BY <1>1, ServerStepLemma
<1>2. CASE ServerShutdown
  BY <1>2, FailureStep DEF ServerShutdown
<1>3. ASSUME NEW c \in Clients, NEW i \in DOMAIN mc[c].inflight,
             FileRead(c, i) \/ HttpStep(c, i)
      PROVE  IInv'
  BY <1>3, FileReadStep, HttpStepLemma
<1>4. ASSUME NEW c \in Clients, NEW i \in DOMAIN ws[c].inflight, WsStep(c, i)
      PROVE  IInv'
  BY <1>4, WsStepLemma
<1>5. CASE UNCHANGED vars
  BY <1>5 DEF IInv, TypeOK, vars
<1>6. CASE Ended
  BY <1>5, <1>6 DEF Ended
<1> QED
  BY <1>1, <1>2, <1>3, <1>4, <1>5, <1>6 DEF Next

\* The inductive invariant holds in every reachable state of the loop, whatever
\* the clients send and in whatever order the kernel completes operations.
THEOREM Invariance == Spec => []IInv
<1> QED
  BY InitInvariant, NextInvariant, PTL DEF Spec

\* Every object keeps its shape: so_type stays within client_state, ops_pending
\* an integer, and the operations in flight those the loop submits.
THEOREM TypeCorrect == Spec => []TypeOK
<1>1. IInv => TypeOK
  BY DEF IInv
<1> QED
  BY <1>1, Invariance, PTL

\* The counter the loop steps by hand at each submission and completion is the
\* number of operations the kernel holds.
THEOREM OpsAccounted == Spec => []OpsAccounting
<1>1. IInv => OpsAccounting
  BY DEF IInv, OpsAccounting, Consistent, Accounted
<1> QED
  BY <1>1, Invariance, PTL

\* No completion reaches a freed my_client_http or my_client_ws, and none of the
\* ws's handlers follows ws->mc to a freed one.
THEOREM MemorySafe == Spec => []NoUseAfterFree
<1>1. IInv => NoUseAfterFree
  BY DEF IInv, NoUseAfterFree, Consistent, Accounted
<1> QED
  BY <1>1, Invariance, PTL

\* my_delete_client never gets a my_client_ws.
THEOREM DeadBranch == Spec => []WsNeverCloses
<1>1. IInv => WsNeverCloses
  BY DEF IInv, WsNeverCloses, Consistent
<1> QED
  BY <1>1, Invariance, PTL

\* A connection that is shut down and drained has let go of its shell.
THEOREM ShellsReleased == Spec => []ShellReleased
<1>1. IInv => ShellReleased
  BY DEF IInv, ShellReleased, Consistent
<1> QED
  BY <1>1, Invariance, PTL

\* As long as a pty is open filesize is its shell's pid, whatever requests came before
\* and in whatever order the two objects' completions arrive; queue_kill gets it once,
\* and gets anything else only when a listing was taken for a ws.
THEOREM KillsItsShells == Spec => []KillsItsShell
<1>1. IInv => KillsItsShell
  <2> SUFFICES ASSUME IInv, NEW c \in Clients
               PROVE  /\ http[c].pty => http[c].filesize = "pid" /\ talk[c].killed = <<>>
                      /\ Len(talk[c].killed) <= 1
                      /\ \A n \in DOMAIN talk[c].killed :
                           talk[c].killed[n] # "pid" => http[c].lzb = "listing"
    BY DEF KillsItsShell
  <2> DEFINE k == talk[c].killed
             z == http[c].filesize
  <2>1. Consistent(mc[c], ws[c], http[c], talk[c]) /\ http[c] \in Http
    BY OfClient
  <2>2. http[c].pty => z = "pid" /\ k = <<>>
    BY <2>1 DEF Consistent
  <2>3. /\ k # <<>> => k = <<z>> /\ http[c].lzb # "null"
        /\ z # "pid" => http[c].lzb # "ws"
    BY <2>1 DEF Consistent
  <2>4. http[c].lzb \in {"null", "listing", "ws"}
    BY <2>1 DEF Http
  <2> HIDE DEF k, z
  <2>5. Len(k) <= 1 /\ \A n \in DOMAIN k : k[n] # "pid" => http[c].lzb = "listing"
    <3>1. CASE k = <<>>
      BY <3>1
    <3>2. CASE k = <<z>> /\ http[c].lzb # "null"
      BY <2>3, <2>4, <3>2
    <3> QED
      BY <2>3, <3>1, <3>2
  <2> QED
    BY <2>2, <2>5 DEF k, z
<1> QED
  BY <1>1, Invariance, PTL

(***************************************************************************)
(* What a handler may touch: its own client, and never the listener.       *)
(***************************************************************************)
\* The client's object alone is replaced, and it was not shut down before.
Touches(c) ==
  /\ UNCHANGED server
  /\ \/ mc' = mc
     \/ mc[c].so_type # "ss_shutdown" /\ \E o : mc' = [mc EXCEPT ![c] = o]

\* Every case of ss_recv_header's finished header is one of those.
LEMMA RequestTouches ==
  ASSUME NEW c, NEW i, Request(c, i)
  PROVE  Touches(c)
<1>1. mc[c].so_type = "ss_recv_header"
  BY DEF Request, Good, Cqe
<1>2. PICK r \in Requests, whole \in BOOLEAN :
        \/ SmallResponse(c, i, r, whole)
        \/ HeadRequest(c, i, r, whole)
        \/ GetSpecial(c, i, r, whole)
        \/ GetDirectory(c, i, r, whole)
        \/ GetUnlistable(c, i, r, whole)
        \/ IndexIsDirectory(c, i, r, whole)
        \/ \E chunks \in 0..MaxChunks : GetFile(c, i, r, whole, chunks)
  BY DEF Request
<1>3. ASSUME NEW o, mc' = [mc EXCEPT ![c] = o], UNCHANGED server
      PROVE  Touches(c)
  BY <1>1, <1>3 DEF Touches
<1>4. UNCHANGED server
  BY <1>2 DEF SmallResponse, HeadRequest, GetSpecial, GetDirectory, GetUnlistable,
     IndexIsDirectory, GetFile, Serves, Finished
<1>5. CASE SmallResponse(c, i, r, whole)
  BY <1>3, <1>4, <1>5 DEF SmallResponse
<1>6. CASE HeadRequest(c, i, r, whole)
  BY <1>3, <1>4, <1>6 DEF HeadRequest
<1>7. CASE GetSpecial(c, i, r, whole)
  BY <1>3, <1>4, <1>7 DEF GetSpecial
<1>8. CASE GetDirectory(c, i, r, whole)
  BY <1>3, <1>4, <1>8 DEF GetDirectory
<1>9. CASE GetUnlistable(c, i, r, whole)
  BY <1>3, <1>4, <1>9 DEF GetUnlistable
<1>10. CASE IndexIsDirectory(c, i, r, whole)
  BY <1>4, <1>10 DEF IndexIsDirectory, Touches
<1>11. CASE \E chunks \in 0..MaxChunks : GetFile(c, i, r, whole, chunks)
  BY <1>3, <1>4, <1>11 DEF GetFile
<1> QED
  BY <1>2, <1>5, <1>6, <1>7, <1>8, <1>9, <1>10, <1>11

\* So is every handler but those of a client that is shut down.
LEMMA HandlersTouch ==
  ASSUME NEW c, NEW i, HttpStep(c, i)
  PROVE  /\ UNCHANGED server
         /\ FreeClient(c, i) \/ Drain(c, i) \/ Touches(c)
<1>1. CASE FreeClient(c, i) \/ Drain(c, i)
  BY <1>1 DEF FreeClient, Drain
<1>2. CASE Request(c, i)
  BY <1>2, RequestTouches DEF Touches
<1>3. ASSUME NEW type \in HttpStates \ {"ss_shutdown"}, NEW o, Cqe(c, i, type),
             mc' = [mc EXCEPT ![c] = o], UNCHANGED server
      PROVE  Touches(c)
  BY <1>3 DEF Touches, Cqe
<1>4. CASE Gone(c, i)
  BY <1>3, <1>4 DEF Gone, Touches
<1>5. CASE ReParse(c, i) \/ ReadDir(c, i) \/ ReParse2(c, i)
  BY <1>3, <1>5 DEF ReParse, ReadDir, ReParse2, Good, HttpStates, Touches
<1>6. CASE SpliceIn(c, i) \/ FileSent(c, i) \/ SpliceOut(c, i)
  BY <1>3, <1>6 DEF SpliceIn, FileSent, SpliceOut, Good, HttpStates, Touches
<1>7. CASE PipeFails(c, i) \/ BadPointer(c, i) \/ NoUrl(c, i)
  BY <1>7 DEF PipeFails, BadPointer, NoUrl, Touches
<1>8. CASE ParseError(c, i) \/ HeaderGoesOn(c, i)
  BY <1>3, <1>8 DEF ParseError, HeaderGoesOn, Parsed, Good, HttpStates, Touches
<1>9. CASE \E url \in BOOLEAN : Upgrade(c, i, url)
  BY <1>3, <1>9 DEF Upgrade, Parsed, Good, HttpStates, Touches
<1>10. CASE ForkFails(c, i) \/ OpenTerminal(c, i)
  BY <1>3, <1>10 DEF ForkFails, OpenTerminal, Good, HttpStates, Touches
<1>11. CASE Data(c, i) \/ \E empty \in BOOLEAN : Frame(c, i, empty)
  BY <1>3, <1>11 DEF Data, Frame, Good, HttpStates, Touches
<1> QED
  BY <1>1, <1>2, <1>4, <1>5, <1>6, <1>7, <1>8, <1>9, <1>10, <1>11 DEF HttpStep

(***************************************************************************)
(* The listener.                                                           *)
(***************************************************************************)
\* ops_pending of the listener starts at zero and only its shutdown is counted,
\* so that taking a completion always leaves it below zero.
ListenerInv ==
  /\ server.so_type \in {"ss_server_accept", "ss_shutdown"}
  /\ server.so_type = "ss_server_accept" => server.inflight = <<"accept">>
  /\ server.ops <= 0

\* Of a sequence of one, removing the only element and appending it again.
LEMMA RearmLemma ==
  ASSUME IInv, server.inflight = <<"accept">>, NEW i \in DOMAIN server.inflight
  PROVE  Arm(Reap(server, i)).inflight = <<"accept">>
<1> DEFINE o == Reap(server, i)
<1>1. o \in Object /\ Len(o.inflight) = 0
  <2>1. o \in Object /\ Len(o.inflight) = Len(server.inflight) - 1
    BY ReapLemma DEF IInv, TypeOK
  <2>2. Len(server.inflight) = 1
    OBVIOUS
  <2> HIDE DEF o
  <2> QED
    BY <2>1, <2>2
<1> HIDE DEF o
<1>2. o.inflight = <<>>
  BY <1>1, EmptySeq DEF Object
<1>3. Arm(o).inflight = Append(o.inflight, "accept")
  BY <1>1 DEF Arm, Object
<1> QED
  BY <1>2, <1>3 DEF o

\* What a completion of the listener does to its counter and its state.
LEMMA ListenerOps ==
  ASSUME IInv, NEW i \in DOMAIN server.inflight
  PROVE  /\ Reap(server, i).ops = server.ops - 1 /\ server.ops \in Int
         /\ Reap(server, i).so_type = server.so_type
         /\ Arm(Reap(server, i)).ops = server.ops - 1
         /\ Arm(Reap(server, i)).so_type = server.so_type
<1>1. /\ Reap(server, i) \in Object /\ Reap(server, i).ops = server.ops - 1
      /\ Reap(server, i).so_type = server.so_type
  BY ReapLemma DEF IInv, TypeOK
<1>2. server.ops \in Int
  BY DEF IInv, TypeOK, Object
<1> HIDE DEF Reap
<1> QED
  BY <1>1, <1>2 DEF Arm, Object

\* Shutting an object down that is not shut down counts one operation.
LEMMA DeleteCounts ==
  ASSUME NEW o \in Object, o.so_type # "ss_shutdown"
  PROVE  Delete(o).ops = o.ops + 1
<1> DEFINE n == o.ops + 1
           q == Append(o.inflight, "shutdown")
           b == Become(o, "ss_shutdown")
<1>1. b \in Object /\ b.ops = o.ops /\ b.inflight = o.inflight
  BY DEF Become, Object, SoTypes, HttpStates
<1>2. n \in Int /\ q \in Seq(Ops)
  BY AppendProperties DEF Object, Ops
<1>3. Submit(b, "shutdown") = Updated(b, n, q)
  BY <1>1 DEF Submit, Updated
<1> HIDE DEF b, n, q
<1>4. Updated(b, n, q) \in Object /\ Updated(b, n, q).ops = n
  BY <1>1, <1>2, UpdateLemma
<1>5. Delete(o) = [Updated(b, n, q) EXCEPT !.closing = TRUE]
  BY <1>3 DEF Delete, Proceed, b
<1> HIDE DEF Updated
<1> QED
  BY <1>4, <1>5 DEF n, Object

LEMMA ListenerInit == Init => ListenerInv
BY DEF Init, ListenerInv

\* No step breaks the listener's invariant.
LEMMA ListenerStep == IInv /\ ListenerInv /\ [Next]_vars => ListenerInv'
<1> SUFFICES ASSUME IInv, ListenerInv, [Next]_vars PROVE ListenerInv'
  OBVIOUS
<1>1. CASE UNCHANGED server
  BY <1>1 DEF ListenerInv
<1>2. ASSUME NEW i \in DOMAIN server.inflight, NEW c \in Clients,
             NEW garbage \in Leftovers, Accept(i, c, garbage)
      PROVE  ListenerInv'
  <2>1. server.so_type = "ss_server_accept" /\ server' = Arm(Reap(server, i))
    BY <1>2 DEF Accept, ServerCqe
  <2>2. server'.inflight = <<"accept">>
    BY <2>1, RearmLemma DEF ListenerInv
  <2> QED
    BY <2>1, <2>2, ListenerOps DEF ListenerInv
<1>3. ASSUME NEW i \in DOMAIN server.inflight, AcceptFails(i)
      PROVE  ListenerInv'
  <2> DEFINE o == Arm(Reap(server, i))
  <2>1. server.so_type = "ss_server_accept" /\ server' = Delete(o)
    BY <1>3 DEF AcceptFails, ServerCqe
  <2>2. o \in Object /\ o.ops = server.ops - 1 /\ o.so_type = "ss_server_accept"
    BY <2>1, ArmLemma, ListenerOps
  <2> HIDE DEF o
  <2>3. server'.so_type = "ss_shutdown" /\ server'.ops = o.ops + 1
    BY <2>1, <2>2, DeleteLemma, DeleteCounts
  <2>4. server.ops \in Int
    BY DEF IInv, TypeOK, Object
  <2> QED
    BY <2>2, <2>3, <2>4 DEF ListenerInv
<1>4. ASSUME NEW i \in DOMAIN server.inflight, ServerDrains(i)
      PROVE  ListenerInv'
  BY <1>4, ListenerOps DEF ServerDrains, ServerCqe, ListenerInv
<1>5. CASE ServerStep
  BY <1>2, <1>3, <1>4, <1>5 DEF ServerStep
<1>6. ASSUME NEW c \in Clients, NEW i \in DOMAIN mc[c].inflight,
             FileRead(c, i) \/ HttpStep(c, i)
      PROVE  UNCHANGED server
  BY <1>6, HandlersTouch DEF FileRead
<1>7. ASSUME NEW c \in Clients, NEW i \in DOMAIN ws[c].inflight, WsStep(c, i)
      PROVE  UNCHANGED server
  BY <1>7 DEF WsStep, PtyRead, PtyFails, WsSent, WsGone, WsCqe
<1>8. CASE ServerShutdown \/ Ended \/ UNCHANGED vars
  BY <1>1, <1>8 DEF ServerShutdown, Ended, vars
<1> QED
  BY <1>1, <1>5, <1>6, <1>7, <1>8 DEF Next

\* The listener waits for a connection until an accept fails, and my_free_client
\* is never given the static object: its counter never is zero when it is looked at.
THEOREM ListenerStaysArmed == Spec => []ListenerArmed
<1>1. IInv /\ ListenerInv => ListenerArmed
  <2> SUFFICES ASSUME IInv, ListenerInv, NEW i \in DOMAIN server.inflight
               PROVE  ~Settled(Reap(server, i))
    BY DEF ListenerArmed, ListenerInv
  <2>1. Reap(server, i).ops < 0
    BY ListenerOps DEF ListenerInv
  <2> HIDE DEF Reap
  <2> QED
    BY <2>1 DEF Settled
<1> QED
  BY <1>1, ListenerInit, ListenerStep, Invariance, PTL DEF Spec

(***************************************************************************)
(* A client that is shut down stays so.                                    *)
(***************************************************************************)
\* What ClosingIsFinal asks of one client.
Final(o, p) ==
  o.closing => /\ p.closing /\ p.so_type = "ss_shutdown"
               /\ Len(p.inflight) <= Len(o.inflight)

\* A step that replaces one client's object is final if it is for that client.
LEMMA FinalForOne ==
  ASSUME IInv, NEW c \in Clients, NEW p, mc' = [mc EXCEPT ![c] = p], Final(mc[c], p),
         NEW d \in Clients
  PROVE  Final(mc[d], mc'[d])
<1>1. mc \in [Clients -> Object] /\ (mc[d].closing => mc[d].so_type = "ss_shutdown")
  BY DEF IInv, TypeOK, Consistent
<1>2. mc[d].inflight \in Seq(Ops)
  BY <1>1 DEF Object
<1>3. CASE d = c
  BY <1>1, <1>3
<1>4. CASE d # c
  <2>1. mc'[d] = mc[d]
    BY <1>1, <1>4
  <2> QED
    BY <1>1, <1>2, <2>1, LenProperties DEF Final
<1> QED
  BY <1>3, <1>4

\* A step that leaves all of them alone is final.
LEMMA FinalForNone ==
  ASSUME IInv, mc' = mc, NEW d \in Clients
  PROVE  Final(mc[d], mc'[d])
<1>1. mc = [mc EXCEPT ![d] = mc[d]] /\ mc[d] \in Object
  BY OfClient
<1>2. mc[d].closing => mc[d].so_type = "ss_shutdown"
  BY OfClient DEF Consistent
<1>3. Len(mc[d].inflight) \in Nat
  BY <1>1, LenProperties DEF Object
<1> QED
  BY <1>2, <1>3 DEF Final

\* The handlers of a client, whether it is shut down or not.
LEMMA FinalHandlers ==
  ASSUME IInv, NEW c \in Clients, NEW i \in DOMAIN mc[c].inflight, HttpStep(c, i),
         NEW d \in Clients
  PROVE  Final(mc[d], mc'[d])
<1> DEFINE o == Reap(mc[c], i)
<1>1. /\ mc[c] \in Object
      /\ mc[c].closing <=> mc[c].so_type = "ss_shutdown"
  BY OfClient DEF Consistent
<1>2. /\ o \in Object /\ o.closing = mc[c].closing /\ o.so_type = mc[c].so_type
      /\ Len(o.inflight) = Len(mc[c].inflight) - 1
  BY <1>1, ReapLemma DEF Kept
<1>3. Len(mc[c].inflight) \in Nat
  BY <1>1, LenProperties DEF Object
<1> HIDE DEF o
<1>4. Final(mc[c], o)
  BY <1>1, <1>2, <1>3 DEF Final
<1>5. Final(mc[c], Freed(o))
  <2>1. /\ Freed(o).closing = o.closing /\ Freed(o).so_type = o.so_type
        /\ Freed(o).inflight = o.inflight
    BY <1>2 DEF Freed, Object
  <2> QED
    BY <1>4, <2>1 DEF Final
<1>6. CASE FreeClient(c, i) \/ Drain(c, i)
  <2>1. mc' = [mc EXCEPT ![c] = o] \/ mc' = [mc EXCEPT ![c] = Freed(o)]
    BY <1>6 DEF FreeClient, Drain, o
  <2> QED
    BY <1>4, <1>5, <2>1, FinalForOne
<1>7. CASE Touches(c)
  <2>1. CASE mc' = mc
    BY <2>1, FinalForNone
  <2>2. ASSUME NEW p, mc[c].so_type # "ss_shutdown", mc' = [mc EXCEPT ![c] = p]
        PROVE  Final(mc[d], mc'[d])
    <3>1. Final(mc[c], p)
      BY <1>1, <2>2 DEF Final
    <3> QED
      BY <2>2, <3>1, FinalForOne
  <2> QED
    BY <1>7, <2>1, <2>2 DEF Touches
<1> QED
  BY <1>6, <1>7, HandlersTouch

\* A file that is read, for a client that may be shut down meanwhile.
LEMMA FinalFileRead ==
  ASSUME IInv, NEW c \in Clients, NEW i \in DOMAIN mc[c].inflight, FileRead(c, i),
         NEW d \in Clients
  PROVE  Final(mc[d], mc'[d])
<1> DEFINE f == [mc[c].inflight EXCEPT ![i] = "spliced"]
           p == [mc[c] EXCEPT !.inflight = f]
<1>1. /\ mc[c] \in Object /\ mc[c].inflight \in Seq(Ops)
      /\ mc[c].closing => mc[c].so_type = "ss_shutdown"
  BY OfClient DEF Object, Consistent
<1>2. Len(f) = Len(mc[c].inflight) /\ Len(mc[c].inflight) \in Nat
  BY <1>1, "spliced" \in Ops, ExceptSeq, LenProperties DEF Ops
<1> HIDE DEF f
<1>3. p.inflight = f /\ p.closing = mc[c].closing /\ p.so_type = mc[c].so_type
  BY <1>1 DEF Object
<1>4. mc' = [mc EXCEPT ![c] = p]
  BY DEF FileRead, f
<1> HIDE DEF p
<1>5. Final(mc[c], p)
  BY <1>1, <1>2, <1>3 DEF Final
<1> QED
  BY <1>4, <1>5, FinalForOne

\* The terminal's other half can only ask for what was already done.
LEMMA FinalWs ==
  ASSUME IInv, NEW c \in Clients, NEW i \in DOMAIN ws[c].inflight, WsStep(c, i),
         NEW d \in Clients
  PROVE  Final(mc[d], mc'[d])
<1>1. CASE mc' = mc
  BY <1>1, FinalForNone
<1>2. CASE mc' = [mc EXCEPT ![c] = Delete(mc[c])]
  <2>1. mc[c] \in Object /\ (mc[c].closing => mc[c].so_type = "ss_shutdown")
    BY OfClient DEF Consistent
  <2>2. /\ mc[c].closing => Delete(mc[c]) = mc[c]
        /\ Len(mc[c].inflight) \in Nat
    BY <2>1, LenProperties DEF Delete, Object
  <2>3. Final(mc[c], Delete(mc[c]))
    BY <2>1, <2>2 DEF Final
  <2> QED
    BY <1>2, <2>3, FinalForOne
<1>3. mc' = mc \/ mc' = [mc EXCEPT ![c] = Delete(mc[c])]
  BY OfClient DEF WsStep, PtyRead, PtyFails, WsSent, WsGone
<1> QED
  BY <1>1, <1>2, <1>3

\* A new connection is one that was not there before.
LEMMA FinalServer ==
  ASSUME IInv, ServerStep, NEW d \in Clients
  PROVE  Final(mc[d], mc'[d])
<1>1. ASSUME NEW c \in Clients, NEW i, NEW garbage, Accept(i, c, garbage)
      PROVE  Final(mc[d], mc'[d])
  <2>1. ~mc[c].closing
    BY <1>1, OfClient DEF Accept, Consistent
  <2>2. Final(mc[c], Started("ss_recv_header", "recv"))
    BY <2>1 DEF Final
  <2>3. mc' = [mc EXCEPT ![c] = Started("ss_recv_header", "recv")]
    BY <1>1 DEF Accept
  <2> QED
    BY <2>2, <2>3, FinalForOne
<1>2. CASE mc' = mc
  BY <1>2, FinalForNone
<1> QED
  BY <1>1, <1>2 DEF ServerStep, AcceptFails, ServerDrains

\* Once a client is closing nothing is submitted for it and it never leaves
\* ss_shutdown, in any step of the loop.
THEOREM ClosingStaysFinal == Spec => ClosingIsFinal
<1> DEFINE A == \A c \in Clients : mc[c].closing =>
                  /\ mc[c]'.closing /\ mc[c]'.so_type = "ss_shutdown"
                  /\ Len(mc[c]'.inflight) <= Len(mc[c].inflight)
<1>1. IInv /\ [Next]_vars => [A]_vars
  <2> SUFFICES ASSUME IInv, Next, NEW d \in Clients PROVE Final(mc[d], mc'[d])
    BY DEF Final
  <2>1. CASE mc' = mc
    BY <2>1, FinalForNone
  <2>2. CASE ServerStep
    BY <2>2, FinalServer
  <2>3. ASSUME NEW c \in Clients, NEW i \in DOMAIN mc[c].inflight,
               FileRead(c, i) \/ HttpStep(c, i)
        PROVE  Final(mc[d], mc'[d])
    BY <2>3, FinalFileRead, FinalHandlers
  <2>4. ASSUME NEW c \in Clients, NEW i \in DOMAIN ws[c].inflight, WsStep(c, i)
        PROVE  Final(mc[d], mc'[d])
    BY <2>4, FinalWs
  <2>5. CASE ServerShutdown \/ Ended
    BY <2>1, <2>5 DEF ServerShutdown, Ended, vars
  <2> QED
    BY <2>2, <2>3, <2>4, <2>5 DEF Next
<1> QED
  BY <1>1, Invariance, PTL DEF Spec, ClosingIsFinal

(***************************************************************************)
(* The dialogue with a browser.  Three more facts about each client, each  *)
(* under what it needs the browsers to leave out, join the invariant.      *)
(***************************************************************************)
\* The loop has an operation to hear of, or my_free_client put the client off.
Listened(o, h) ==
  o.mem = "live" /\ o.inflight = <<>> => o.closing /\ h.lzb # "null" /\ h.filesize # "zero"

NoListing(q) == \A i \in DOMAIN q : q[i] # "send_lzb"

ListingStates == {"ss_readdir", "ss_reparse2"}

\* The one operation in flight is the one the state is for, a listing is sent in
\* ss_reparse2 and no other state, even after a shutdown, and what a state needs
\* is there from the handler that enters it to the one that leaves it.
InTurn(o, w, h) ==
  /\ o.mem = "live" /\ o.so_type # "ss_shutdown" =>
       \E op \in Expected(o.so_type) : o.inflight = <<op>>
  /\ o.so_type \in ListingStates => h.lzb = "listing"
  /\ o.so_type # "ss_reparse2" => NoListing(o.inflight)
  /\ o.so_type \in TerminalStates => h.lzb = "ws" /\ h.pty /\ w.inflight # <<>>

\* Responses due: a listing or a file is owed until its last part is submitted.
Due(type) ==
  IF type \in {"ss_readdir", "ss_responce_file", "ss_responce_file2"} THEN 1 ELSE 0

Settling(o, t) ==
  /\ t.owed \in 0..1
  /\ o.so_type # "ss_shutdown" => t.owed = Due(o.so_type)
  /\ o.mem = "none" => t.owed = 0

Polite == NoHead(Requests) /\ NoRefusal(Requests)

Dialogue(o, w, h, t) ==
  /\ NoHead(Requests) => Listened(o, h)
  /\ Polite => InTurn(o, w, h)
  /\ Polite /\ NoParts(Inputs) => Settling(o, t)

DInv == \A c \in Clients : Dialogue(mc[c], ws[c], http[c], talk[c])

(***************************************************************************)
(* What is in flight after the building blocks.                            *)
(***************************************************************************)
LEMMA OneLemma ==
  ASSUME NEW x \in Ops
  PROVE  /\ Append(<<>>, x) = <<x>> /\ <<x>> \in Seq(Ops) /\ <<x>> # <<>>
         /\ Len(<<x>>) = 1 /\ <<x>>[1] = x /\ DOMAIN <<x>> = {1}
OBVIOUS

LEMMA TwoLemma ==
  ASSUME NEW x \in Ops, NEW y \in Ops
  PROVE  /\ DOMAIN Append(<<x>>, y) = {1, 2}
         /\ Append(<<x>>, y)[1] = x /\ Append(<<x>>, y)[2] = y
<1>1. <<x>> \in Seq(Ops) /\ Len(<<x>>) = 1
  OBVIOUS
<1>2. Append(<<x>>, y) \in Seq(Ops) /\ Len(Append(<<x>>, y)) = 2
  BY <1>1, AppendProperties
<1>3. DOMAIN Append(<<x>>, y) = 1..2
  BY <1>2, LenProperties
<1>4. 1..2 = {1, 2}
  OBVIOUS
<1>5. Append(<<x>>, y)[1] = x /\ Append(<<x>>, y)[2] = y
  OBVIOUS
<1> QED
  BY <1>3, <1>4, <1>5

\* Every operation of the rest was one of the whole.
LEMMA RestLemma ==
  ASSUME NEW s \in Seq(Ops), NEW i \in DOMAIN s, NoListing(s)
  PROVE  NoListing(RemoveAt(s, i))
<1>1. i \in 1..Len(s) /\ Len(s) \in Nat
  BY LenProperties
<1> DEFINE a == SubSeq(s, 1, i - 1)
           b == SubSeq(s, i + 1, Len(s))
<1>2. /\ a \in Seq(Ops) /\ Len(a) = i - 1
      /\ \A j \in 1..(i - 1) : a[j] = s[j]
  BY <1>1, SubSeqProperties
<1>3. /\ b \in Seq(Ops) /\ Len(b) = Len(s) - i
      /\ \A j \in 1..(Len(s) - i) : b[j] = s[i + j]
  BY <1>1, SubSeqProperties
<1>4. RemoveAt(s, i) = a \o b
  BY DEF RemoveAt
<1> HIDE DEF a, b
<1>5. /\ DOMAIN (a \o b) = 1..(Len(a) + Len(b))
      /\ \A j \in 1..(Len(a) + Len(b)) :
           (a \o b)[j] = IF j <= Len(a) THEN a[j] ELSE b[j - Len(a)]
  <2>1. /\ Len(a \o b) = Len(a) + Len(b) /\ a \o b \in Seq(Ops)
        /\ \A j \in 1..(Len(a) + Len(b)) :
             (a \o b)[j] = IF j <= Len(a) THEN a[j] ELSE b[j - Len(a)]
    BY <1>2, <1>3, ConcatProperties, Zenon
  <2>2. DOMAIN (a \o b) = 1..Len(a \o b)
    BY <2>1, LenProperties
  <2> QED
    BY <2>1, <2>2
<1>6. ASSUME NEW j \in 1..(Len(a) + Len(b))
      PROVE  (a \o b)[j] # "send_lzb"
  <2>0. /\ j \in Nat /\ j >= 1 /\ j <= (i - 1) + (Len(s) - i)
        /\ i \in Nat /\ i >= 1 /\ i <= Len(s)
        /\ DOMAIN s = 1..Len(s)
    BY <1>1, <1>2, <1>3, LenProperties
  <2>1. CASE j <= Len(a)
    <3>1. (a \o b)[j] = s[j] /\ j \in DOMAIN s
      BY <1>2, <1>5, <2>0, <2>1
    <3> QED
      BY <3>1 DEF NoListing
  <2>2. CASE ~(j <= Len(a))
    <3> DEFINE k == j - Len(a)
    <3>1. (a \o b)[j] = b[k] /\ k \in 1..(Len(s) - i)
      BY <1>2, <1>5, <2>0, <2>2
    <3> HIDE DEF k
    <3>2. b[k] = s[i + k]
      BY <1>3, <3>1
    <3>3. i + k \in 1..Len(s)
      BY <1>1, <3>1
    <3>4. i + k \in DOMAIN s
      BY <2>0, <3>3
    <3> QED
      BY <3>1, <3>2, <3>4 DEF NoListing
  <2> QED
    BY <2>1, <2>2
<1> QED
  BY <1>4, <1>5, <1>6 DEF NoListing

LEMMA FlightLemma ==
  ASSUME NEW o \in Object
  PROVE  /\ \A i \in DOMAIN o.inflight : Reap(o, i).inflight = RemoveAt(o.inflight, i)
         /\ \A op \in Ops : Submit(o, op).inflight = Append(o.inflight, op)
         /\ \A op \in Ops : Submit(o, op) = Proceed(o, o.so_type, op)
         /\ \A type \in SoTypes, op \in Ops :
              Proceed(o, type, op).inflight = Append(o.inflight, op)
         /\ o.so_type # "ss_shutdown" =>
              Delete(o).inflight = Append(o.inflight, "shutdown")
<1>1. o.inflight \in Seq(Ops) /\ o.ops \in Int
  BY DEF Object
<1>2. ASSUME NEW i \in DOMAIN o.inflight
      PROVE  Reap(o, i).inflight = RemoveAt(o.inflight, i)
  <2>1. RemoveAt(o.inflight, i) \in Seq(Ops) /\ o.ops - 1 \in Int
    BY <1>1, RemoveAtLemma
  <2>2. Reap(o, i) = Updated(o, o.ops - 1, RemoveAt(o.inflight, i))
    BY DEF Reap, Updated
  <2> QED
    BY <2>1, <2>2, UpdateLemma
<1>3. ASSUME NEW p \in Object, NEW op \in Ops
      PROVE  Submit(p, op).inflight = Append(p.inflight, op)
  <2> DEFINE n == p.ops + 1
             q == Append(p.inflight, op)
  <2>1. q \in Seq(Ops) /\ n \in Int
    BY AppendProperties DEF Object
  <2>2. Submit(p, op) = Updated(p, n, q)
    BY DEF Submit, Updated
  <2>3. Submit(p, op).inflight = q
    <3> HIDE DEF n, q
    <3> QED
      BY <2>1, <2>2, UpdateLemma
  <2> QED
    BY <2>3
<1>4. ASSUME NEW type \in SoTypes
      PROVE  Become(o, type) \in Object /\ Become(o, type).inflight = o.inflight
  BY DEF Become, Object
<1>5. ASSUME NEW type \in SoTypes, NEW op \in Ops
      PROVE  Proceed(o, type, op).inflight = Append(o.inflight, op)
  BY <1>3, <1>4 DEF Proceed
<1>6. Become(o, o.so_type) = o
  BY DEF Become, Object
<1>7. ASSUME NEW op \in Ops
      PROVE  Submit(o, op) = Proceed(o, o.so_type, op)
  BY <1>6 DEF Proceed
<1>8. ASSUME o.so_type # "ss_shutdown"
      PROVE  Delete(o).inflight = Append(o.inflight, "shutdown")
  <2> DEFINE p == Proceed(o, "ss_shutdown", "shutdown")
  <2>1. "ss_shutdown" \in SoTypes /\ "shutdown" \in Ops
    BY DEF SoTypes, HttpStates, Ops
  <2>2. p \in Object /\ p.inflight = Append(o.inflight, "shutdown")
    BY <1>5, <2>1, ProceedLemma
  <2>3. Delete(o) = [p EXCEPT !.closing = TRUE]
    BY <1>8 DEF Delete
  <2> HIDE DEF p
  <2> QED
    BY <2>2, <2>3 DEF Object
<1> QED
  BY <1>2, <1>3, <1>5, <1>7, <1>8

(***************************************************************************)
(* One client's step, for the dialogue.                                    *)
(***************************************************************************)
Moved(c, o, w, h, t) ==
  /\ mc' = [mc EXCEPT ![c] = o] /\ ws' = [ws EXCEPT ![c] = w]
  /\ http' = [http EXCEPT ![c] = h] /\ talk' = [talk EXCEPT ![c] = t]

LEMMA DialogueChange ==
  ASSUME IInv, DInv, NEW c \in Clients, NEW o, NEW w, NEW h, NEW t,
         Moved(c, o, w, h, t), Dialogue(o, w, h, t)
  PROVE  DInv'
<1>1. ASSUME NEW d \in Clients
      PROVE  Dialogue(mc[d], ws[d], http[d], talk[d])'
  <2>1. CASE d = c
    <3>1. mc'[d] = o /\ ws'[d] = w /\ http'[d] = h /\ talk'[d] = t
      BY <2>1 DEF IInv, TypeOK, Moved
    <3> QED
      BY <3>1
  <2>2. CASE d # c
    <3>1. mc'[d] = mc[d] /\ ws'[d] = ws[d] /\ http'[d] = http[d] /\ talk'[d] = talk[d]
      BY <2>2 DEF IInv, TypeOK, Moved
    <3>2. Dialogue(mc[d], ws[d], http[d], talk[d])
      BY DEF DInv
    <3> QED
      BY <3>1, <3>2
  <2> QED
    BY <2>1, <2>2
<1> QED
  BY <1>1 DEF DInv

\* Of the one operation in flight for a client nothing is left once it is taken.
LEMMA NothingLeft ==
  ASSUME IInv, DInv, Polite, NEW c \in Clients, NEW i \in DOMAIN mc[c].inflight,
         mc[c].so_type # "ss_shutdown"
  PROVE  Reap(mc[c], i).inflight = <<>>
<1>1. mc[c] \in Object /\ Accounted(mc[c]) /\ InTurn(mc[c], ws[c], http[c])
  BY OfClient DEF DInv, Dialogue, Consistent
<1>2. mc[c].mem = "live" /\ Reap(mc[c], i) \in Object
      /\ Len(Reap(mc[c], i).inflight) = Len(mc[c].inflight) - 1
  BY <1>1, ReapLemma
<1>3. PICK op : mc[c].inflight = <<op>>
  BY <1>1, <1>2 DEF InTurn
<1>4. Len(mc[c].inflight) = 1
  BY <1>3
<1> DEFINE q == Reap(mc[c], i).inflight
<1>5. q \in Seq(Ops) /\ Len(q) = 0
  BY <1>2, <1>4 DEF Object
<1> HIDE DEF q
<1>6. q = <<>>
  BY <1>5, EmptySeq
<1> QED
  BY <1>6 DEF q
\* A handler that hands on: what it leaves of the client, p, has the operation
\* its new state is for, and what that state needs is there.
Armed(p, type, op) ==
  /\ p.mem = "live" /\ p.so_type = type /\ p.inflight # <<>>
  /\ Polite => p.inflight = <<op>>

Replied(c, type, op, p, h, t) ==
  /\ mc[c].so_type # "ss_shutdown"
  /\ Armed(p, type, op)
  /\ Moved(c, p, ws[c], h, t)
  /\ Polite /\ type \in ListingStates => h.lzb = "listing"
  /\ type \in TerminalStates => mc[c].so_type \in TerminalStates /\ h = http[c]
  /\ Polite /\ NoParts(Inputs) => t.owed = Due(type)

LEMMA RepliedLemma ==
  ASSUME IInv, DInv, NEW c \in Clients, NEW type \in HttpStates \ {"ss_shutdown"},
         NEW op \in Expected(type), NEW p, NEW h, NEW t, Replied(c, type, op, p, h, t)
  PROVE  DInv'
<1>1. Dialogue(mc[c], ws[c], http[c], talk[c])
  BY DEF DInv
<1>2. op \in Ops /\ (op = "send_lzb" => type = "ss_reparse2")
  BY DEF Expected, HttpStates, Ops
<1>3. <<op>>[1] = op /\ DOMAIN <<op>> = {1}
  OBVIOUS
<1>4. type # "ss_reparse2" => NoListing(<<op>>)
  BY <1>2, <1>3 DEF NoListing
<1>5. NoHead(Requests) => Listened(p, h)
  BY DEF Replied, Armed, Listened
<1>6. Polite => InTurn(p, ws[c], h)
  <2> SUFFICES ASSUME Polite PROVE InTurn(p, ws[c], h)
    OBVIOUS
  <2>1. p.inflight = <<op>> /\ p.so_type = type
    BY DEF Replied, Armed
  <2>2. type \in TerminalStates => h.lzb = "ws" /\ h.pty /\ ws[c].inflight # <<>>
    BY <1>1 DEF Replied, Dialogue, InTurn
  <2> QED
    BY <1>4, <2>1, <2>2 DEF Replied, InTurn
<1>7. Polite /\ NoParts(Inputs) => Settling(p, t)
  BY DEF Replied, Armed, Settling, Due
<1>8. Dialogue(p, ws[c], h, t)
  BY <1>5, <1>6, <1>7 DEF Dialogue
<1> QED
  BY <1>8, DialogueChange DEF Replied

\* The client after its completion was taken and another operation submitted.
LEMMA HandOnFlight ==
  ASSUME IInv, DInv, NEW c \in Clients, NEW i \in DOMAIN mc[c].inflight,
         mc[c].so_type # "ss_shutdown", NEW type \in SoTypes, NEW op \in Ops
  PROVE  Armed(Proceed(Reap(mc[c], i), type, op), type, op)
<1> DEFINE o == Reap(mc[c], i)
<1>1. o \in Object /\ o.mem = "live"
  BY OfClient, ReapLemma DEF Consistent, Kept
<1>2. Polite => o.inflight = <<>>
  BY NothingLeft
<1> HIDE DEF o
<1>3. /\ Proceed(o, type, op).mem = "live"
      /\ Proceed(o, type, op).so_type = type /\ Proceed(o, type, op).inflight # <<>>
      /\ Proceed(o, type, op).inflight = Append(o.inflight, op)
  BY <1>1, ProceedLemma, FlightLemma DEF Kept
<1> QED
  BY <1>2, <1>3, OneLemma DEF o, Armed

\* The same when a refused method's 405 goes out first, which it does not.
LEMMA RefuseFlight ==
  ASSUME IInv, DInv, NEW c \in Clients, NEW i \in DOMAIN mc[c].inflight,
         mc[c].so_type # "ss_shutdown", NEW type \in SoTypes, NEW op \in Ops,
         NEW r \in Requests, r.target # "missing"
  PROVE  /\ Armed(Proceed(Opened(Reap(mc[c], i), r), type, op), type, op)
         /\ Polite => Refusals(r) = 0
<1> DEFINE o == Opened(Reap(mc[c], i), r)
<1>1. Polite => r.method # "POST"
  BY DEF Polite, NoRefusal
<1>2. Polite => o = Reap(mc[c], i) /\ Refusals(r) = 0
  BY <1>1 DEF Opened, Refusals
<1>3. o \in Object /\ o.mem = "live"
  <2>1. "ss_reparse" \in SoTypes /\ "send" \in Ops
    BY DEF SoTypes, HttpStates, Ops
  <2>2. Reap(mc[c], i) \in Object /\ Reap(mc[c], i).mem = "live"
    BY OfClient, ReapLemma DEF Consistent, Kept
  <2>3. /\ Proceed(Reap(mc[c], i), "ss_reparse", "send") \in Object
        /\ Proceed(Reap(mc[c], i), "ss_reparse", "send").mem = "live"
    BY <2>1, HandOnLemma, HandOnFlight DEF Armed
  <2> QED
    BY <2>2, <2>3 DEF Opened
<1> HIDE DEF o
<1>4. /\ Proceed(o, type, op).mem = "live" /\ Proceed(o, type, op).so_type = type
      /\ Proceed(o, type, op).inflight # <<>>
  BY <1>3, ProceedLemma DEF Kept
<1>5. Polite => Proceed(Reap(mc[c], i), type, op).inflight = <<op>>
  BY HandOnFlight DEF Armed
<1>6. Polite => Proceed(o, type, op).inflight = <<op>>
  BY <1>2, <1>5
<1> QED
  BY <1>2, <1>4, <1>6 DEF o, Armed

\* What is owed when a handler starts.
LEMMA DueNow ==
  ASSUME IInv, DInv, NEW c \in Clients, mc[c].so_type # "ss_shutdown",
         Polite, NoParts(Inputs)
  PROVE  talk[c].owed = Due(mc[c].so_type)
BY DEF DInv, Dialogue, Settling

LEMMA OwedLemma ==
  ASSUME NEW t \in Talk
  PROVE  /\ Paid(t).owed = t.owed - 1
         /\ Told(t, TRUE, 1).owed = t.owed
         /\ Told(t, TRUE, 0).owed = t.owed + 1
<1>1. Paid(t).owed = t.owed - 1
  BY DEF Paid, Talk
<1>2. ASSUME NEW n \in Int
      PROVE  Told(t, TRUE, n).owed = t.owed + 1 - n
  <2> DEFINE a == t.taken + 1
             b == t.owed + 1 - n
  <2>1. Told(t, TRUE, n) = [t EXCEPT !.taken = a, !.owed = b]
    BY DEF Told
  <2> HIDE DEF a, b
  <2>2. [t EXCEPT !.taken = a, !.owed = b].owed = b
    BY Zenon DEF Talk
  <2> QED
    BY <2>1, <2>2 DEF b
<1>3. t.owed \in Int
  BY DEF Talk
<1>4. t.owed + 1 - 1 = t.owed /\ t.owed + 1 - 0 = t.owed + 1 /\ 1 \in Int /\ 0 \in Int
  BY <1>3
<1>5. Told(t, TRUE, 1).owed = t.owed /\ Told(t, TRUE, 0).owed = t.owed + 1
  BY <1>2, <1>4, Zenon
<1> QED
  BY <1>1, <1>5, Zenon

LEMMA ReParseDialogue ==
  ASSUME IInv, DInv, NEW c \in Clients, NEW i \in DOMAIN mc[c].inflight,
         ReParse(c, i)
  PROVE  DInv'
<1> DEFINE p == Proceed(Reap(mc[c], i), "ss_recv_header", "recv")
           h == ReParsed(http[c])
<1>1. /\ mc[c].so_type = "ss_reparse" /\ Moved(c, p, ws[c], h, talk[c])
      /\ talk[c] \in Talk /\ http[c] \in Http
  BY OfClient DEF ReParse, Good, Cqe, Moved
<1>2. /\ "ss_recv_header" \in HttpStates \ {"ss_shutdown"} /\ "ss_recv_header" \in SoTypes
      /\ "recv" \in Expected("ss_recv_header") /\ "recv" \in Ops
  BY DEF SoTypes, HttpStates, Ops, Expected
<1>3. Armed(p, "ss_recv_header", "recv")
  BY <1>1, <1>2, HandOnFlight
<1>4. Polite /\ NoParts(Inputs) => talk[c].owed = Due("ss_recv_header")
  BY <1>1, DueNow DEF Due
<1> HIDE DEF p, h
<1>5. Replied(c, "ss_recv_header", "recv", p, h, talk[c])
  BY <1>1, <1>3, <1>4 DEF Replied, ListingStates, TerminalStates
<1> QED
  BY <1>2, <1>5, RepliedLemma

LEMMA ReadDirDialogue ==
  ASSUME IInv, DInv, NEW c \in Clients, NEW i \in DOMAIN mc[c].inflight,
         ReadDir(c, i)
  PROVE  DInv'
<1> DEFINE p == Proceed(Reap(mc[c], i), "ss_reparse2", "send_lzb")
           t == Paid(talk[c])
<1>1. /\ mc[c].so_type = "ss_readdir" /\ Moved(c, p, ws[c], http[c], t)
      /\ talk[c] \in Talk /\ http[c] \in Http
  BY OfClient DEF ReadDir, Good, Cqe, Moved
<1>2. /\ "ss_reparse2" \in HttpStates \ {"ss_shutdown"} /\ "ss_reparse2" \in SoTypes
      /\ "send_lzb" \in Expected("ss_reparse2") /\ "send_lzb" \in Ops
  BY DEF SoTypes, HttpStates, Ops, Expected
<1>3. Armed(p, "ss_reparse2", "send_lzb")
  BY <1>1, <1>2, HandOnFlight
<1>4. t.owed = talk[c].owed - 1
  BY <1>1, OwedLemma, Zenon
<1>5. Polite /\ NoParts(Inputs) => t.owed = Due("ss_reparse2")
  <2> HIDE DEF t
  <2> QED
    BY <1>1, <1>4, DueNow DEF Due
<1>6. Polite => http[c].lzb = "listing"
  BY <1>1 DEF DInv, Dialogue, InTurn, ListingStates
<1> HIDE DEF p, t
<1>7. Replied(c, "ss_reparse2", "send_lzb", p, http[c], t)
  BY <1>1, <1>3, <1>5, <1>6 DEF Replied, ListingStates, TerminalStates
<1> QED
  BY <1>2, <1>7, RepliedLemma

LEMMA ReParse2Dialogue ==
  ASSUME IInv, DInv, NEW c \in Clients, NEW i \in DOMAIN mc[c].inflight,
         ReParse2(c, i)
  PROVE  DInv'
<1> DEFINE p == Proceed(Reap(mc[c], i), "ss_recv_header", "recv")
           h == [ReParsed(http[c]) EXCEPT !.lzb = "null"]
<1>1. /\ mc[c].so_type = "ss_reparse2" /\ Moved(c, p, ws[c], h, talk[c])
      /\ talk[c] \in Talk /\ http[c] \in Http
  BY OfClient DEF ReParse2, Good, Cqe, Moved
<1>2. /\ "ss_recv_header" \in HttpStates \ {"ss_shutdown"} /\ "ss_recv_header" \in SoTypes
      /\ "recv" \in Expected("ss_recv_header") /\ "recv" \in Ops
  BY DEF SoTypes, HttpStates, Ops, Expected
<1>3. Armed(p, "ss_recv_header", "recv")
  BY <1>1, <1>2, HandOnFlight
<1>4. Polite /\ NoParts(Inputs) => talk[c].owed = Due("ss_recv_header")
  BY <1>1, DueNow DEF Due
<1> HIDE DEF p, h
<1>5. Replied(c, "ss_recv_header", "recv", p, h, talk[c])
  BY <1>1, <1>3, <1>4 DEF Replied, ListingStates, TerminalStates
<1> QED
  BY <1>2, <1>5, RepliedLemma

LEMMA SpliceInDialogue ==
  ASSUME IInv, DInv, NEW c \in Clients, NEW i \in DOMAIN mc[c].inflight,
         SpliceIn(c, i)
  PROVE  DInv'
<1> DEFINE p == Proceed(Reap(mc[c], i), "ss_responce_file2", "splice_in")
           h == [http[c] EXCEPT !.piped = TRUE]
<1>1. /\ mc[c].so_type = "ss_responce_file" /\ Moved(c, p, ws[c], h, talk[c])
      /\ talk[c] \in Talk /\ http[c] \in Http
  BY OfClient DEF SpliceIn, Good, Cqe, Moved
<1>2. /\ "ss_responce_file2" \in HttpStates \ {"ss_shutdown"} /\ "ss_responce_file2" \in SoTypes
      /\ "splice_in" \in Expected("ss_responce_file2") /\ "splice_in" \in Ops
  BY DEF SoTypes, HttpStates, Ops, Expected
<1>3. Armed(p, "ss_responce_file2", "splice_in")
  BY <1>1, <1>2, HandOnFlight
<1>4. Polite /\ NoParts(Inputs) => talk[c].owed = Due("ss_responce_file2")
  BY <1>1, DueNow DEF Due
<1> HIDE DEF p, h
<1>5. Replied(c, "ss_responce_file2", "splice_in", p, h, talk[c])
  BY <1>1, <1>3, <1>4 DEF Replied, ListingStates, TerminalStates
<1> QED
  BY <1>2, <1>5, RepliedLemma

LEMMA FileSentDialogue ==
  ASSUME IInv, DInv, NEW c \in Clients, NEW i \in DOMAIN mc[c].inflight,
         FileSent(c, i)
  PROVE  DInv'
<1> DEFINE p == Proceed(Reap(mc[c], i), "ss_recv_header", "recv")
           h == [http[c] EXCEPT !.piped = FALSE, !.url = FALSE]
           t == Paid(talk[c])
<1>1. /\ mc[c].so_type = "ss_responce_file" /\ Moved(c, p, ws[c], h, t)
      /\ talk[c] \in Talk /\ http[c] \in Http
  BY OfClient DEF FileSent, Good, Cqe, Moved
<1>2. /\ "ss_recv_header" \in HttpStates \ {"ss_shutdown"} /\ "ss_recv_header" \in SoTypes
      /\ "recv" \in Expected("ss_recv_header") /\ "recv" \in Ops
  BY DEF SoTypes, HttpStates, Ops, Expected
<1>3. Armed(p, "ss_recv_header", "recv")
  BY <1>1, <1>2, HandOnFlight
<1>4. t.owed = talk[c].owed - 1
  BY <1>1, OwedLemma, Zenon
<1>5. Polite /\ NoParts(Inputs) => t.owed = Due("ss_recv_header")
  <2> HIDE DEF t
  <2> QED
    BY <1>1, <1>4, DueNow DEF Due
<1> HIDE DEF p, h, t
<1>6. Replied(c, "ss_recv_header", "recv", p, h, t)
  BY <1>1, <1>3, <1>5 DEF Replied, ListingStates, TerminalStates
<1> QED
  BY <1>2, <1>6, RepliedLemma

LEMMA SpliceOutDialogue ==
  ASSUME IInv, DInv, NEW c \in Clients, NEW i \in DOMAIN mc[c].inflight,
         SpliceOut(c, i)
  PROVE  DInv'
<1> DEFINE p == Proceed(Reap(mc[c], i), "ss_responce_file", "splice_out")
<1>1. /\ mc[c].so_type = "ss_responce_file2" /\ Moved(c, p, ws[c], http[c], talk[c])
      /\ talk[c] \in Talk /\ http[c] \in Http
  BY OfClient DEF SpliceOut, Good, Cqe, Moved
<1>2. /\ "ss_responce_file" \in HttpStates \ {"ss_shutdown"} /\ "ss_responce_file" \in SoTypes
      /\ "splice_out" \in Expected("ss_responce_file") /\ "splice_out" \in Ops
  BY DEF SoTypes, HttpStates, Ops, Expected
<1>3. Armed(p, "ss_responce_file", "splice_out")
  BY <1>1, <1>2, HandOnFlight
<1>4. Polite /\ NoParts(Inputs) => talk[c].owed = Due("ss_responce_file")
  BY <1>1, DueNow DEF Due
<1> HIDE DEF p
<1>5. Replied(c, "ss_responce_file", "splice_out", p, http[c], talk[c])
  BY <1>1, <1>3, <1>4 DEF Replied, ListingStates, TerminalStates
<1> QED
  BY <1>2, <1>5, RepliedLemma

LEMMA DataDialogue ==
  ASSUME IInv, DInv, NEW c \in Clients, NEW i \in DOMAIN mc[c].inflight,
         Data(c, i)
  PROVE  DInv'
<1> DEFINE p == Proceed(Reap(mc[c], i), "ss_ws_read6", "recv6")
<1>1. /\ mc[c].so_type = "ss_ws_read_data" /\ Moved(c, p, ws[c], http[c], talk[c])
      /\ talk[c] \in Talk /\ http[c] \in Http
  BY OfClient DEF Data, Good, Cqe, Moved
<1>2. /\ "ss_ws_read6" \in HttpStates \ {"ss_shutdown"} /\ "ss_ws_read6" \in SoTypes
      /\ "recv6" \in Expected("ss_ws_read6") /\ "recv6" \in Ops
  BY DEF SoTypes, HttpStates, Ops, Expected
<1>3. Armed(p, "ss_ws_read6", "recv6")
  BY <1>1, <1>2, HandOnFlight
<1>4. Polite /\ NoParts(Inputs) => talk[c].owed = Due("ss_ws_read6")
  BY <1>1, DueNow DEF Due
<1> HIDE DEF p
<1>5. Replied(c, "ss_ws_read6", "recv6", p, http[c], talk[c])
  BY <1>1, <1>3, <1>4 DEF Replied, ListingStates, TerminalStates
<1> QED
  BY <1>2, <1>5, RepliedLemma

LEMMA SmallResponseDialogue ==
  ASSUME IInv, DInv, NEW c \in Clients, NEW i \in DOMAIN mc[c].inflight,
         NEW r \in Requests, NEW whole \in BOOLEAN,
         SmallResponse(c, i, r, whole)
  PROVE  DInv'
<1> DEFINE p == Proceed(Reap(mc[c], i), "ss_reparse", "send")
           h == Heard(http[c], r.url)
           t == Told(talk[c], whole, 1)
<1>1. /\ mc[c].so_type = "ss_recv_header" /\ Moved(c, p, ws[c], h, t)
      /\ talk[c] \in Talk /\ http[c] \in Http
  BY OfClient DEF SmallResponse, Finished, Parsed, Good, Cqe, Moved
<1>2. /\ "ss_reparse" \in HttpStates \ {"ss_shutdown"} /\ "ss_reparse" \in SoTypes
      /\ "send" \in Expected("ss_reparse") /\ "send" \in Ops
  BY DEF SoTypes, HttpStates, Ops, Expected
<1>3. Armed(p, "ss_reparse", "send")
  BY <1>1, <1>2, HandOnFlight
<1>4. Polite /\ NoParts(Inputs) => t.owed = Due("ss_reparse")
  <2> SUFFICES ASSUME Polite, NoParts(Inputs) PROVE t.owed = Due("ss_reparse")
    OBVIOUS
  <2>1. whole = TRUE
    BY DEF SmallResponse, Finished, Parsed, NoParts
  <2>2. talk[c].owed = 0
    BY <1>1, DueNow DEF Due
  <2>3. t.owed = talk[c].owed
    BY <1>1, <2>1, OwedLemma, Zenon
  <2> QED
    BY <2>2, <2>3 DEF Due
<1> HIDE DEF p, h, t
<1>5. Replied(c, "ss_reparse", "send", p, h, t)
  BY <1>1, <1>3, <1>4 DEF Replied, ListingStates, TerminalStates
<1> QED
  BY <1>2, <1>5, RepliedLemma

LEMMA GetSpecialDialogue ==
  ASSUME IInv, DInv, NEW c \in Clients, NEW i \in DOMAIN mc[c].inflight,
         NEW r \in Requests, NEW whole \in BOOLEAN,
         GetSpecial(c, i, r, whole)
  PROVE  DInv'
<1> DEFINE p == Proceed(Opened(Reap(mc[c], i), r), "ss_reparse", "send")
           h == Heard(http[c], r.url)
           t == Told(talk[c], whole, 1 + Refusals(r))
<1>1. /\ mc[c].so_type = "ss_recv_header" /\ Moved(c, p, ws[c], h, t)
      /\ talk[c] \in Talk /\ http[c] \in Http
  BY OfClient DEF GetSpecial, Serves, Finished, Parsed, Good, Cqe, Moved
<1>2. /\ "ss_reparse" \in HttpStates \ {"ss_shutdown"} /\ "ss_reparse" \in SoTypes
      /\ "send" \in Expected("ss_reparse") /\ "send" \in Ops
  BY DEF SoTypes, HttpStates, Ops, Expected
<1>3. r.target # "missing"
  BY DEF GetSpecial, Serves
<1>4. mc[c].so_type # "ss_shutdown"
  BY <1>1
<1>5. Armed(p, "ss_reparse", "send")
  BY <1>2, <1>3, <1>4, RefuseFlight
<1>6. Polite /\ NoParts(Inputs) => t.owed = Due("ss_reparse")
  <2> SUFFICES ASSUME Polite, NoParts(Inputs) PROVE t.owed = Due("ss_reparse")
    OBVIOUS
  <2>1. whole = TRUE
    BY DEF GetSpecial, Serves, Finished, Parsed, NoParts
  <2>2. Refusals(r) = 0
    BY <1>1, <1>2, <1>3, RefuseFlight
  <2>3. talk[c].owed = 0
    BY <1>1, DueNow DEF Due
  <2>4. t = Told(talk[c], TRUE, 1)
    BY <2>1, <2>2
  <2>5. t.owed = talk[c].owed
    BY <1>1, <2>4, OwedLemma, Zenon
  <2> QED
    BY <2>3, <2>5 DEF Due
<1> HIDE DEF p, h, t
<1>7. Replied(c, "ss_reparse", "send", p, h, t)
  BY <1>1, <1>5, <1>6 DEF Replied, ListingStates, TerminalStates
<1> QED
  BY <1>2, <1>7, RepliedLemma

LEMMA GetDirectoryDialogue ==
  ASSUME IInv, DInv, NEW c \in Clients, NEW i \in DOMAIN mc[c].inflight,
         NEW r \in Requests, NEW whole \in BOOLEAN,
         GetDirectory(c, i, r, whole)
  PROVE  DInv'
<1> DEFINE p == Proceed(Opened(Reap(mc[c], i), r), "ss_readdir", "send")
           h == [Heard(http[c], r.url) EXCEPT !.lzb = "listing"]
           t == Told(talk[c], whole, Refusals(r))
<1>1. /\ mc[c].so_type = "ss_recv_header" /\ Moved(c, p, ws[c], h, t)
      /\ talk[c] \in Talk /\ http[c] \in Http
  BY OfClient DEF GetDirectory, Serves, Finished, Parsed, Good, Cqe, Moved
<1>2. /\ "ss_readdir" \in HttpStates \ {"ss_shutdown"} /\ "ss_readdir" \in SoTypes
      /\ "send" \in Expected("ss_readdir") /\ "send" \in Ops
  BY DEF SoTypes, HttpStates, Ops, Expected
<1>3. r.target # "missing"
  BY DEF GetDirectory, Serves
<1>4. mc[c].so_type # "ss_shutdown"
  BY <1>1
<1>5. Armed(p, "ss_readdir", "send")
  BY <1>2, <1>3, <1>4, RefuseFlight
<1>6. Polite /\ NoParts(Inputs) => t.owed = Due("ss_readdir")
  <2> SUFFICES ASSUME Polite, NoParts(Inputs) PROVE t.owed = Due("ss_readdir")
    OBVIOUS
  <2>1. whole = TRUE
    BY DEF GetDirectory, Serves, Finished, Parsed, NoParts
  <2>2. Refusals(r) = 0
    BY <1>1, <1>2, <1>3, RefuseFlight
  <2>3. talk[c].owed = 0
    BY <1>1, DueNow DEF Due
  <2>4. t = Told(talk[c], TRUE, 0)
    BY <2>1, <2>2
  <2>5. t.owed = talk[c].owed + 1
    BY <1>1, <2>4, OwedLemma, Zenon
  <2> QED
    BY <2>3, <2>5 DEF Due
<1>7. h.lzb = "listing"
  <2>1. Heard(http[c], r.url) \in Http
    BY <1>1, HeardLemma, ConstantsAssumption DEF RequestType, Steers
  <2> QED
    BY <2>1, Zenon DEF Http
<1> HIDE DEF p, h, t
<1>8. Replied(c, "ss_readdir", "send", p, h, t)
  BY <1>1, <1>5, <1>6, <1>7 DEF Replied, ListingStates, TerminalStates
<1> QED
  BY <1>2, <1>8, RepliedLemma

LEMMA GetUnlistableDialogue ==
  ASSUME IInv, DInv, NEW c \in Clients, NEW i \in DOMAIN mc[c].inflight,
         NEW r \in Requests, NEW whole \in BOOLEAN,
         GetUnlistable(c, i, r, whole)
  PROVE  DInv'
<1> DEFINE p == Proceed(Opened(Reap(mc[c], i), r), "ss_reparse", "send")
           h == [Heard(http[c], r.url) EXCEPT !.lzb = "listing"]
           t == Told(talk[c], whole, 1 + Refusals(r))
<1>1. /\ mc[c].so_type = "ss_recv_header" /\ Moved(c, p, ws[c], h, t)
      /\ talk[c] \in Talk /\ http[c] \in Http
  BY OfClient DEF GetUnlistable, Serves, Finished, Parsed, Good, Cqe, Moved
<1>2. /\ "ss_reparse" \in HttpStates \ {"ss_shutdown"} /\ "ss_reparse" \in SoTypes
      /\ "send" \in Expected("ss_reparse") /\ "send" \in Ops
  BY DEF SoTypes, HttpStates, Ops, Expected
<1>3. r.target # "missing"
  BY DEF GetUnlistable, Serves
<1>4. mc[c].so_type # "ss_shutdown"
  BY <1>1
<1>5. Armed(p, "ss_reparse", "send")
  BY <1>2, <1>3, <1>4, RefuseFlight
<1>6. Polite /\ NoParts(Inputs) => t.owed = Due("ss_reparse")
  <2> SUFFICES ASSUME Polite, NoParts(Inputs) PROVE t.owed = Due("ss_reparse")
    OBVIOUS
  <2>1. whole = TRUE
    BY DEF GetUnlistable, Serves, Finished, Parsed, NoParts
  <2>2. Refusals(r) = 0
    BY <1>1, <1>2, <1>3, RefuseFlight
  <2>3. talk[c].owed = 0
    BY <1>1, DueNow DEF Due
  <2>4. t = Told(talk[c], TRUE, 1)
    BY <2>1, <2>2
  <2>5. t.owed = talk[c].owed
    BY <1>1, <2>4, OwedLemma, Zenon
  <2> QED
    BY <2>3, <2>5 DEF Due
<1> HIDE DEF p, h, t
<1>7. Replied(c, "ss_reparse", "send", p, h, t)
  BY <1>1, <1>5, <1>6 DEF Replied, ListingStates, TerminalStates
<1> QED
  BY <1>2, <1>7, RepliedLemma

LEMMA GetFileDialogue ==
  ASSUME IInv, DInv, NEW c \in Clients, NEW i \in DOMAIN mc[c].inflight,
         NEW r \in Requests, NEW whole \in BOOLEAN, NEW chunks \in 0..MaxChunks,
         GetFile(c, i, r, whole, chunks)
  PROVE  DInv'
<1> DEFINE p == Proceed(Opened(Reap(mc[c], i), r), "ss_responce_file", "send")
           h == [Heard(http[c], r.url) EXCEPT
                     !.left = chunks, !.filesize = IF chunks > 0 THEN "size" ELSE "zero"]
           t == Told(talk[c], whole, Refusals(r))
<1>1. /\ mc[c].so_type = "ss_recv_header" /\ Moved(c, p, ws[c], h, t)
      /\ talk[c] \in Talk /\ http[c] \in Http
  BY OfClient DEF GetFile, Serves, Finished, Parsed, Good, Cqe, Moved
<1>2. /\ "ss_responce_file" \in HttpStates \ {"ss_shutdown"} /\ "ss_responce_file" \in SoTypes
      /\ "send" \in Expected("ss_responce_file") /\ "send" \in Ops
  BY DEF SoTypes, HttpStates, Ops, Expected
<1>3. r.target # "missing"
  BY DEF GetFile, Serves
<1>4. mc[c].so_type # "ss_shutdown"
  BY <1>1
<1>5. Armed(p, "ss_responce_file", "send")
  BY <1>2, <1>3, <1>4, RefuseFlight
<1>6. Polite /\ NoParts(Inputs) => t.owed = Due("ss_responce_file")
  <2> SUFFICES ASSUME Polite, NoParts(Inputs) PROVE t.owed = Due("ss_responce_file")
    OBVIOUS
  <2>1. whole = TRUE
    BY DEF GetFile, Serves, Finished, Parsed, NoParts
  <2>2. Refusals(r) = 0
    BY <1>1, <1>2, <1>3, RefuseFlight
  <2>3. talk[c].owed = 0
    BY <1>1, DueNow DEF Due
  <2>4. t = Told(talk[c], TRUE, 0)
    BY <2>1, <2>2
  <2>5. t.owed = talk[c].owed + 1
    BY <1>1, <2>4, OwedLemma, Zenon
  <2> QED
    BY <2>3, <2>5 DEF Due
<1> HIDE DEF p, h, t
<1>7. Replied(c, "ss_responce_file", "send", p, h, t)
  BY <1>1, <1>5, <1>6 DEF Replied, ListingStates, TerminalStates
<1> QED
  BY <1>2, <1>7, RepliedLemma

LEMMA UpgradeDialogue ==
  ASSUME IInv, DInv, NEW c \in Clients, NEW i \in DOMAIN mc[c].inflight,
         NEW url \in BOOLEAN,
         Upgrade(c, i, url)
  PROVE  DInv'
<1> DEFINE p == Proceed(Reap(mc[c], i), "ss_ws_open", "send")
           h == Heard(http[c], url)
<1>1. /\ mc[c].so_type = "ss_recv_header" /\ Moved(c, p, ws[c], h, talk[c])
      /\ talk[c] \in Talk /\ http[c] \in Http
  BY OfClient DEF Upgrade, Parsed, Good, Cqe, Moved
<1>2. /\ "ss_ws_open" \in HttpStates \ {"ss_shutdown"} /\ "ss_ws_open" \in SoTypes
      /\ "send" \in Expected("ss_ws_open") /\ "send" \in Ops
  BY DEF SoTypes, HttpStates, Ops, Expected
<1>3. Armed(p, "ss_ws_open", "send")
  BY <1>1, <1>2, HandOnFlight
<1>4. Polite /\ NoParts(Inputs) => talk[c].owed = Due("ss_ws_open")
  BY <1>1, DueNow DEF Due
<1> HIDE DEF p, h
<1>5. Replied(c, "ss_ws_open", "send", p, h, talk[c])
  BY <1>1, <1>3, <1>4 DEF Replied, ListingStates, TerminalStates
<1> QED
  BY <1>2, <1>5, RepliedLemma

LEMMA SubmitIsProceed ==
  ASSUME IInv, NEW c \in Clients, NEW i \in DOMAIN mc[c].inflight, NEW op \in Ops
  PROVE  Submit(Reap(mc[c], i), op) = Proceed(Reap(mc[c], i), mc[c].so_type, op)
<1> DEFINE o == Reap(mc[c], i)
<1>1. o \in Object /\ o.so_type = mc[c].so_type
  BY OfClient, ReapLemma
<1> HIDE DEF o
<1>2. Submit(o, op) = Proceed(o, mc[c].so_type, op)
  BY <1>1, FlightLemma
<1> QED
  BY <1>2 DEF o

LEMMA HeaderGoesOnDialogue ==
  ASSUME IInv, DInv, NEW c \in Clients, NEW i \in DOMAIN mc[c].inflight,
         HeaderGoesOn(c, i)
  PROVE  DInv'
<1> DEFINE p == Proceed(Reap(mc[c], i), "ss_recv_header", "recv")
<1>1. /\ "ss_recv_header" \in HttpStates \ {"ss_shutdown"} /\ "ss_recv_header" \in SoTypes
      /\ "recv" \in Expected("ss_recv_header") /\ "recv" \in Ops
  BY DEF SoTypes, HttpStates, Ops, Expected
<1>2. mc[c].so_type = "ss_recv_header"
  BY DEF HeaderGoesOn, Parsed, Good, Cqe
<1>3. Submit(Reap(mc[c], i), "recv") = p
  BY <1>1, <1>2, SubmitIsProceed
<1>4. Moved(c, p, ws[c], http[c], talk[c])
  BY <1>3, OfClient DEF HeaderGoesOn, Moved
<1>5. Armed(p, "ss_recv_header", "recv")
  BY <1>1, <1>2, HandOnFlight
<1>6. Polite /\ NoParts(Inputs) => talk[c].owed = Due("ss_recv_header")
  BY <1>2, DueNow
<1> HIDE DEF p
<1>7. Replied(c, "ss_recv_header", "recv", p, http[c], talk[c])
  BY <1>2, <1>4, <1>5, <1>6 DEF Replied, ListingStates, TerminalStates
<1> QED
  BY <1>1, <1>7, RepliedLemma

LEMMA FrameDialogue ==
  ASSUME IInv, DInv, NEW c \in Clients, NEW i \in DOMAIN mc[c].inflight,
         NEW empty \in BOOLEAN, Frame(c, i, empty)
  PROVE  DInv'
<1>1. mc[c].so_type = "ss_ws_read6"
  BY DEF Frame, Good, Cqe
<1>2. /\ "ss_ws_read6" \in HttpStates \ {"ss_shutdown"} /\ "ss_ws_read6" \in SoTypes
      /\ "recv6" \in Expected("ss_ws_read6") /\ "recv6" \in Ops
      /\ "ss_ws_read_data" \in HttpStates \ {"ss_shutdown"} /\ "ss_ws_read_data" \in SoTypes
      /\ "recv_data" \in Expected("ss_ws_read_data") /\ "recv_data" \in Ops
  BY DEF SoTypes, HttpStates, Ops, Expected
<1>3. ASSUME NEW type \in TerminalStates, NEW op \in Expected(type), op \in Ops,
             type \in HttpStates \ {"ss_shutdown"}, type \in SoTypes,
             Moved(c, Proceed(Reap(mc[c], i), type, op), ws[c], http[c], talk[c])
      PROVE  DInv'
  <2> DEFINE p == Proceed(Reap(mc[c], i), type, op)
  <2>1. Armed(p, type, op)
    BY <1>1, <1>3, HandOnFlight
  <2>2. Polite /\ NoParts(Inputs) => talk[c].owed = Due(type)
    BY <1>1, DueNow DEF Due, TerminalStates
  <2>3. Moved(c, p, ws[c], http[c], talk[c])
    BY <1>3
  <2> HIDE DEF p
  <2>4. Replied(c, type, op, p, http[c], talk[c])
    BY <1>1, <2>1, <2>2, <2>3 DEF Replied, ListingStates, TerminalStates
  <2> QED
    BY <1>3, <2>4, RepliedLemma
<1>4. CASE empty
  <2>1. mc' = [mc EXCEPT ![c] = Proceed(Reap(mc[c], i), "ss_ws_read6", "recv6")]
    BY <1>1, <1>2, <1>4, SubmitIsProceed DEF Frame
  <2>2. Moved(c, Proceed(Reap(mc[c], i), "ss_ws_read6", "recv6"), ws[c], http[c], talk[c])
    BY <2>1, OfClient DEF Frame, Moved
  <2> QED
    BY <1>2, <1>3, <2>2 DEF TerminalStates
<1>5. CASE ~empty
  <2>1. mc' = [mc EXCEPT ![c] = Proceed(Reap(mc[c], i), "ss_ws_read_data", "recv_data")]
    BY <1>5 DEF Frame
  <2>2. Moved(c, Proceed(Reap(mc[c], i), "ss_ws_read_data", "recv_data"),
              ws[c], http[c], talk[c])
    BY <2>1, OfClient DEF Frame, Moved
  <2> QED
    BY <1>2, <1>3, <2>2 DEF TerminalStates
<1> QED
  BY <1>4, <1>5

\* HEAD of something that opens is what NoHead leaves out.
LEMMA HeadRequestDialogue ==
  ASSUME IInv, DInv, NEW c \in Clients, NEW i \in DOMAIN mc[c].inflight,
         NEW r \in Requests, NEW whole \in BOOLEAN, HeadRequest(c, i, r, whole)
  PROVE  DInv'
<1>1. ~NoHead(Requests)
  BY DEF HeadRequest, NoHead
<1> QED
  BY <1>1 DEF DInv, Dialogue, Polite

\* The client is shut down and its completion was the only one it waited for.
LEMMA CloseDialogue ==
  ASSUME IInv, DInv, NEW c \in Clients, NEW i \in DOMAIN mc[c].inflight, NEW h,
         mc[c].so_type # "ss_shutdown",
         Moved(c, Delete(Reap(mc[c], i)), ws[c], h, talk[c])
  PROVE  DInv'
<1> DEFINE o == Reap(mc[c], i)
           p == Delete(o)
<1>1. o \in Object /\ o.mem = "live" /\ o.so_type = mc[c].so_type
  BY OfClient, ReapLemma DEF Consistent, Kept
<1>2. Polite => o.inflight = <<>>
  BY NothingLeft
<1> HIDE DEF o
<1>3. /\ p.mem = "live" /\ p.so_type = "ss_shutdown" /\ p.inflight # <<>>
      /\ p.inflight = Append(o.inflight, "shutdown")
  BY <1>1, DeleteLemma, FlightLemma
<1>4. Append(<<>>, "shutdown") = <<"shutdown">> /\ NoListing(<<"shutdown">>)
  BY DEF NoListing
<1>5. Polite => NoListing(p.inflight)
  BY <1>2, <1>3, <1>4
<1>6. Dialogue(mc[c], ws[c], http[c], talk[c])
  BY DEF DInv
<1>7. Moved(c, p, ws[c], h, talk[c])
  BY DEF o
<1> HIDE DEF p
<1>8. Dialogue(p, ws[c], h, talk[c])
  BY <1>3, <1>5, <1>6 DEF Dialogue, Listened, InTurn, Settling, ListingStates,
     TerminalStates
<1> QED
  BY <1>7, <1>8, DialogueChange

LEMMA GoneDialogue ==
  ASSUME IInv, DInv, NEW c \in Clients, NEW i \in DOMAIN mc[c].inflight, Gone(c, i)
  PROVE  DInv'
<1> DEFINE h == IF mc[c].so_type = "ss_reparse2" THEN [http[c] EXCEPT !.lzb = "null"]
                ELSE http[c]
<1>1. mc[c].so_type # "ss_shutdown" /\ Moved(c, Delete(Reap(mc[c], i)), ws[c], h, talk[c])
  BY OfClient DEF Gone, Cqe, Moved
<1> QED
  BY <1>1, CloseDialogue

LEMMA ParseErrorDialogue ==
  ASSUME IInv, DInv, NEW c \in Clients, NEW i \in DOMAIN mc[c].inflight, ParseError(c, i)
  PROVE  DInv'
<1>1. /\ mc[c].so_type # "ss_shutdown"
      /\ Moved(c, Delete(Reap(mc[c], i)), ws[c], http[c], talk[c])
  BY OfClient DEF ParseError, Parsed, Good, Cqe, Moved
<1> QED
  BY <1>1, CloseDialogue

LEMMA ForkFailsDialogue ==
  ASSUME IInv, DInv, NEW c \in Clients, NEW i \in DOMAIN mc[c].inflight, ForkFails(c, i)
  PROVE  DInv'
<1> DEFINE h == [http[c] EXCEPT !.url = FALSE, !.filesize = "failed"]
<1>1. mc[c].so_type # "ss_shutdown" /\ Moved(c, Delete(Reap(mc[c], i)), ws[c], h, talk[c])
  BY OfClient DEF ForkFails, Good, Cqe, Moved
<1> QED
  BY <1>1, CloseDialogue

\* The terminal's states start with all they need.
LEMMA OpenTerminalDialogue ==
  ASSUME IInv, DInv, NEW c \in Clients, NEW i \in DOMAIN mc[c].inflight, OpenTerminal(c, i)
  PROVE  DInv'
<1> DEFINE p == Proceed(Reap(mc[c], i), "ss_ws_read6", "recv6")
           w == Started("ss_ws_read_pty", "read_pty")
           h == Terminal(http[c])
<1>1. mc[c].so_type = "ss_ws_open" /\ Moved(c, p, w, h, talk[c])
  BY OfClient DEF OpenTerminal, Good, Cqe, Moved
<1>2. Armed(p, "ss_ws_read6", "recv6")
  <2>1. "ss_ws_read6" \in SoTypes /\ "recv6" \in Ops /\ mc[c].so_type # "ss_shutdown"
    BY <1>1 DEF SoTypes, HttpStates, Ops
  <2> QED
    BY <2>1, HandOnFlight
<1>3. w.inflight # <<>>
  BY DEF Started
<1>4. h.lzb = "ws" /\ h.pty
  BY OfClient, Zenon DEF Terminal, Http
<1>5. Polite /\ NoParts(Inputs) => talk[c].owed = Due("ss_ws_read6")
  BY <1>1, DueNow DEF Due
<1>6. "recv6" \in Expected("ss_ws_read6") /\ NoListing(<<"recv6">>)
  BY DEF Expected, NoListing
<1> HIDE DEF p, w, h
<1>7. Polite => InTurn(p, w, h)
  BY <1>2, <1>3, <1>4, <1>6 DEF Armed, InTurn, ListingStates
<1>8. Polite /\ NoParts(Inputs) => Settling(p, talk[c])
  BY <1>2, <1>5 DEF Armed, Settling, Due
<1>9. Dialogue(p, w, h, talk[c])
  BY <1>2, <1>7, <1>8 DEF Armed, Dialogue, Listened
<1> QED
  BY <1>1, <1>9, DialogueChange

\* A client that is shut down loses a completion, or is freed with its last.
LEMMA DrainedDialogue ==
  ASSUME IInv, DInv, NEW c \in Clients, NEW i \in DOMAIN mc[c].inflight,
         NEW p, NEW w, NEW h, NEW t,
         mc[c].so_type = "ss_shutdown",
         p.so_type = "ss_shutdown", p.mem # "none",
         p.inflight = Reap(mc[c], i).inflight, Listened(p, h),
         t.owed = talk[c].owed, Moved(c, p, w, h, t)
  PROVE  DInv'
<1>1. Dialogue(mc[c], ws[c], http[c], talk[c]) /\ mc[c] \in Object
  BY OfClient DEF DInv
<1>2. mc[c].inflight \in Seq(Ops)
  BY <1>1 DEF Object
<1>3. p.inflight = RemoveAt(mc[c].inflight, i)
  BY <1>1, FlightLemma
<1>4. Polite => NoListing(p.inflight)
  BY <1>1, <1>2, <1>3, RestLemma DEF Dialogue, InTurn
<1>5. Polite => InTurn(p, w, h)
  BY <1>4 DEF InTurn, ListingStates, TerminalStates
<1>6. Polite /\ NoParts(Inputs) => Settling(p, t)
  BY <1>1 DEF Dialogue, Settling
<1>7. Dialogue(p, w, h, t)
  BY <1>5, <1>6 DEF Dialogue
<1> QED
  BY <1>7, DialogueChange

LEMMA DrainDialogue ==
  ASSUME IInv, DInv, NEW c \in Clients, NEW i \in DOMAIN mc[c].inflight, Drain(c, i)
  PROVE  DInv'
<1> DEFINE p == Reap(mc[c], i)
<1>1. mc[c] \in Object /\ Consistent(mc[c], ws[c], http[c], talk[c])
  BY OfClient
<1>2. /\ p \in Object /\ p.mem = "live" /\ p.so_type = mc[c].so_type
      /\ p.closing = mc[c].closing /\ Accounted(p)
  BY <1>1, ReapLemma DEF Consistent, Kept
<1>3. /\ Moved(c, p, ws[c], http[c], talk[c])
      /\ ~Settled(p) /\ mc[c].so_type = "ss_shutdown"
  BY OfClient DEF Drain, Cqe, Moved
<1>4. p.inflight # <<>>
  <2>1. p.ops # 0 /\ p.ops = Len(p.inflight)
    BY <1>1, <1>2, <1>3 DEF Settled, Consistent, Accounted
  <2> QED
    BY <2>1
<1>5. Listened(p, http[c])
  BY <1>4 DEF Listened
<1> QED
  BY <1>2, <1>3, <1>5, DrainedDialogue

LEMMA FreeClientDialogue ==
  ASSUME IInv, DInv, NEW c \in Clients, NEW i \in DOMAIN mc[c].inflight, FreeClient(c, i)
  PROVE  DInv'
<1> DEFINE o == Reap(mc[c], i)
           isWs == http[c].lzb # "null" /\ http[c].filesize # "zero"
           busy == http[c].lzb = "listing" \/ ws[c].ops # 0
           kill == isWs /\ (http[c].lzb = "listing" \/ http[c].pty)
           k == Append(talk[c].killed, http[c].filesize)
           t == IF kill THEN [talk[c] EXCEPT !.killed = k] ELSE talk[c]
           h == [http[c] EXCEPT !.pty = FALSE]
           w == Freed(ws[c])
           q == Freed(o)
<1>1. /\ mc[c] \in Object /\ http[c] \in Http /\ talk[c] \in Talk
      /\ ws = [ws EXCEPT ![c] = ws[c]] /\ http = [http EXCEPT ![c] = http[c]]
      /\ talk = [talk EXCEPT ![c] = talk[c]]
      /\ Consistent(mc[c], ws[c], http[c], talk[c])
  BY OfClient
<1>2. o \in Object /\ o.mem = "live" /\ o.so_type = mc[c].so_type
  BY <1>1, ReapLemma DEF Consistent, Kept
<1>3. Settled(o) /\ talk' = [talk EXCEPT ![c] = t]
  BY <1>1 DEF FreeClient
<1>4. o.closing /\ mc[c].so_type = "ss_shutdown"
  BY <1>2, <1>3 DEF Settled
<1>5. t.owed = talk[c].owed
  BY <1>1 DEF Talk
<1>6. h.lzb = http[c].lzb /\ h.filesize = http[c].filesize
  BY <1>1 DEF Http
<1>7. q.mem = "freed" /\ q.so_type = o.so_type /\ q.inflight = o.inflight
  BY <1>2 DEF Freed, Object
<1> HIDE DEF t, h, w, q
<1>8. CASE isWs /\ busy
  <2>1. Moved(c, o, ws[c], h, t)
    BY <1>1, <1>3, <1>8 DEF FreeClient, PtyClosed, Moved, h
  <2>2. Listened(o, h)
    BY <1>4, <1>6, <1>8 DEF Listened
  <2> QED
    BY <1>2, <1>4, <1>5, <2>1, <2>2, DrainedDialogue
<1>9. CASE isWs /\ ~busy
  <2>1. Moved(c, q, w, h, t)
    BY <1>3, <1>9 DEF FreeClient, PtyClosed, Moved, h, w, q
  <2>2. Listened(q, h)
    BY <1>7 DEF Listened
  <2> QED
    BY <1>2, <1>4, <1>5, <1>7, <2>1, <2>2, DrainedDialogue
<1>10. CASE ~isWs
  <2>1. Moved(c, q, ws[c], http[c], t)
    BY <1>1, <1>3, <1>10 DEF FreeClient, Moved, q
  <2>2. Listened(q, http[c])
    BY <1>7 DEF Listened
  <2> QED
    BY <1>2, <1>4, <1>5, <1>7, <2>1, <2>2, DrainedDialogue
<1> QED
  BY <1>8, <1>9, <1>10

\* The operation the kernel finishes reading for stays that of ss_responce_file2.
LEMMA FileReadDialogue ==
  ASSUME IInv, DInv, NEW c \in Clients, NEW i \in DOMAIN mc[c].inflight, FileRead(c, i)
  PROVE  DInv'
<1> DEFINE s == mc[c].inflight
           f == [s EXCEPT ![i] = "spliced"]
           p == [mc[c] EXCEPT !.inflight = f]
           h == [http[c] EXCEPT !.left = @ - 1]
<1>1. /\ mc[c] \in Object /\ http[c] \in Http
      /\ Dialogue(mc[c], ws[c], http[c], talk[c])
  BY OfClient DEF DInv
<1>2. s \in Seq(Ops) /\ s # <<>> /\ s[i] = "splice_in" /\ i \in 1..Len(s)
  BY <1>1, LenProperties DEF Object, FileRead
<1>3. /\ f \in Seq(Ops) /\ Len(f) = Len(s) /\ DOMAIN f = DOMAIN s
      /\ \A j \in DOMAIN s : f[j] = IF j = i THEN "spliced" ELSE s[j]
  BY <1>2, "spliced" \in Ops, ExceptSeq, LenProperties DEF Ops
<1>4. Moved(c, p, ws[c], h, talk[c])
  BY OfClient DEF FileRead, Moved
<1>5. h.lzb = http[c].lzb /\ h.pty = http[c].pty
  BY <1>1 DEF Http
<1> HIDE DEF s, f, h
<1>6. p.inflight = f /\ p.mem = mc[c].mem /\ p.so_type = mc[c].so_type
  BY <1>1, <1>3 DEF Object
<1> HIDE DEF p
<1>7. f # <<>>
  BY <1>2, <1>3
<1>8. NoListing(s) => NoListing(f)
  BY <1>3 DEF NoListing
<1>9. ASSUME NEW op, s = <<op>>, op \in Expected(p.so_type), p.so_type # "ss_shutdown"
      PROVE  f = <<"spliced">> /\ "spliced" \in Expected(p.so_type)
  <2>1. Len(s) = 1 /\ DOMAIN s = {1} /\ s[1] = op
    BY <1>9
  <2>2. i = 1 /\ op = "splice_in"
    BY <1>2, <2>1
  <2>3. f[1] = "spliced" /\ Len(f) = 1
    BY <1>3, <2>1, <2>2
  <2>4. f = <<"spliced">>
    BY <1>3, <2>3
  <2>5. p.so_type \in HttpStates
    BY <1>6, OfClient DEF Consistent
  <2>6. "spliced" \in Expected(p.so_type)
    BY <1>9, <2>2, <2>5 DEF Expected, HttpStates
  <2> QED
    BY <2>4, <2>6
<1>10. Polite => InTurn(p, ws[c], h)
  <2> SUFFICES ASSUME Polite PROVE InTurn(p, ws[c], h)
    OBVIOUS
  <2>1. InTurn(mc[c], ws[c], http[c])
    BY <1>1 DEF Dialogue
  <2>2. p.mem = "live" /\ p.so_type # "ss_shutdown" =>
          \E op \in Expected(p.so_type) : p.inflight = <<op>>
    BY <1>6, <1>9, <2>1 DEF InTurn, s
  <2> QED
    BY <1>5, <1>6, <1>8, <2>1, <2>2 DEF InTurn, s
<1>11. Polite /\ NoParts(Inputs) => Settling(p, talk[c])
  BY <1>1, <1>6 DEF Dialogue, Settling
<1>12. Dialogue(p, ws[c], h, talk[c])
  BY <1>6, <1>7, <1>10, <1>11 DEF Dialogue, Listened
<1> QED
  BY <1>4, <1>12, DialogueChange

\* The terminal's other half goes on.
LEMMA WsOnDialogue ==
  ASSUME IInv, DInv, NEW c \in Clients, NEW w, w.inflight # <<>>,
         Moved(c, mc[c], w, http[c], talk[c])
  PROVE  DInv'
<1>1. Dialogue(mc[c], ws[c], http[c], talk[c])
  BY DEF DInv
<1>2. Dialogue(mc[c], w, http[c], talk[c])
  BY <1>1 DEF Dialogue, InTurn
<1> QED
  BY <1>2, DialogueChange

LEMMA WsProceedsDialogue ==
  ASSUME IInv, DInv, NEW c \in Clients, NEW i \in DOMAIN ws[c].inflight,
         PtyRead(c, i) \/ WsSent(c, i)
  PROVE  DInv'
<1>1. ASSUME NEW type \in SoTypes, NEW op \in Ops
      PROVE  Proceed(Reap(ws[c], i), type, op).inflight # <<>>
  <2> DEFINE o == Reap(ws[c], i)
  <2>1. o \in Object
    BY OfClient, ReapLemma
  <2> HIDE DEF o
  <2>2. Proceed(o, type, op).inflight # <<>>
    BY <2>1, ProceedLemma
  <2> QED
    BY <2>2 DEF o
<1>2. CASE PtyRead(c, i)
  <2> DEFINE w == Proceed(Reap(ws[c], i), "ss_ws_send_data", "writev")
  <2>1. w.inflight # <<>>
    BY <1>1 DEF SoTypes, WsStates, Ops
  <2>2. Moved(c, mc[c], w, http[c], talk[c])
    BY <1>2, OfClient DEF PtyRead, WsCqe, Moved
  <2> HIDE DEF w
  <2> QED
    BY <2>1, <2>2, WsOnDialogue
<1>3. CASE WsSent(c, i)
  <2> DEFINE w == Proceed(Reap(ws[c], i), "ss_ws_read_pty", "read_pty")
  <2>1. w.inflight # <<>>
    BY <1>1 DEF SoTypes, WsStates, Ops
  <2>2. Moved(c, mc[c], w, http[c], talk[c])
    BY <1>3, OfClient DEF WsSent, WsCqe, Moved
  <2> HIDE DEF w
  <2> QED
    BY <2>1, <2>2, WsOnDialogue
<1> QED
  BY <1>2, <1>3

\* It gives up: the client, in a terminal's state or shut down already, is shut down.
LEMMA WsEndsDialogue ==
  ASSUME IInv, DInv, NEW c \in Clients, NEW i \in DOMAIN ws[c].inflight, NEW w, NEW h,
         h.lzb = http[c].lzb, h.filesize = http[c].filesize,
         Moved(c, Delete(mc[c]), w, h, talk[c])
  PROVE  DInv'
<1> DEFINE p == Delete(mc[c])
<1>1. /\ mc[c] \in Object /\ ws[c] \in Object
      /\ Consistent(mc[c], ws[c], http[c], talk[c])
      /\ Dialogue(mc[c], ws[c], http[c], talk[c])
  BY OfClient DEF DInv
<1>2. ws[c].mem = "live"
  BY <1>1, ReapLemma DEF Consistent
<1>3. mc[c].mem = "live" /\ mc[c].so_type \in TerminalStates \cup {"ss_shutdown"}
  BY <1>1, <1>2 DEF Consistent
<1>4. p.mem = "live" /\ p.so_type = "ss_shutdown"
  BY <1>1, <1>3, DeleteLemma
<1>5. mc[c].inflight \in Seq(Ops) /\ "shutdown" \in Ops
  BY <1>1 DEF Object, Ops
<1>6. CASE mc[c].so_type = "ss_shutdown"
  <2>1. p = mc[c]
    BY <1>6 DEF Delete
  <2>2. Dialogue(mc[c], w, h, talk[c])
    BY <1>1, <1>6 DEF Dialogue, Listened, InTurn, Settling, ListingStates, TerminalStates
  <2> QED
    BY <2>1, <2>2, DialogueChange
<1>7. CASE mc[c].so_type # "ss_shutdown"
  <2>1. p.inflight # <<>> /\ p.inflight = Append(mc[c].inflight, "shutdown")
    BY <1>1, <1>7, DeleteLemma, FlightLemma
  <2>2. ASSUME Polite
        PROVE  NoListing(p.inflight)
    <3>1. PICK op \in Expected(mc[c].so_type) : mc[c].inflight = <<op>>
      BY <1>1, <1>3, <1>7, <2>2 DEF Dialogue, InTurn
    <3>2. op # "send_lzb"
      BY <1>3, <1>7 DEF Expected, TerminalStates
    <3>3. op \in Ops /\ "shutdown" # "send_lzb"
      BY <1>3, <1>7 DEF Expected, TerminalStates, Ops
    <3>4. /\ DOMAIN Append(<<op>>, "shutdown") = {1, 2}
          /\ Append(<<op>>, "shutdown")[1] = op /\ Append(<<op>>, "shutdown")[2] = "shutdown"
      BY <3>3, <1>5, TwoLemma
    <3> QED
      BY <2>1, <3>1, <3>2, <3>3, <3>4 DEF NoListing
  <2> HIDE DEF p
  <2>3. Dialogue(p, w, h, talk[c])
    BY <1>1, <1>4, <2>1, <2>2 DEF Dialogue, Listened, InTurn, Settling, ListingStates,
       TerminalStates
  <2> QED
    BY <2>3, DialogueChange DEF p
<1> QED
  BY <1>6, <1>7

LEMMA PtyFailsDialogue ==
  ASSUME IInv, DInv, NEW c \in Clients, NEW i \in DOMAIN ws[c].inflight,
         NEW eio \in BOOLEAN, PtyFails(c, i, eio)
  PROVE  DInv'
<1> DEFINE h == IF eio THEN [http[c] EXCEPT !.pty = FALSE] ELSE http[c]
           w == Reap(ws[c], i)
<1>1. h.lzb = http[c].lzb /\ h.filesize = http[c].filesize
  BY OfClient DEF Http
<1>2. Moved(c, Delete(mc[c]), w, h, talk[c])
  BY OfClient DEF PtyFails, PtyClosed, WsCqe, Moved
<1> HIDE DEF h, w
<1> QED
  BY <1>1, <1>2, WsEndsDialogue

LEMMA WsGoneDialogue ==
  ASSUME IInv, DInv, NEW c \in Clients, NEW i \in DOMAIN ws[c].inflight, WsGone(c, i)
  PROVE  DInv'
<1>1. Moved(c, Delete(mc[c]), Reap(ws[c], i), http[c], talk[c])
  BY OfClient DEF WsGone, WsCqe, Moved
<1> QED
  BY <1>1, WsEndsDialogue

\* A new client waits for its first header and owes nothing.
LEMMA AcceptDialogue ==
  ASSUME IInv, DInv, NEW i, NEW c \in Clients, NEW garbage \in Leftovers,
         Accept(i, c, garbage)
  PROVE  DInv'
<1> DEFINE p == Started("ss_recv_header", "recv")
           h == Malloced(garbage)
<1>1. mc[c].mem = "none" /\ Moved(c, p, ws[c], h, talk[c])
  BY OfClient DEF Accept, Moved
<1>2. Dialogue(mc[c], ws[c], http[c], talk[c])
  BY DEF DInv
<1>3. p.mem = "live" /\ p.so_type = "ss_recv_header" /\ p.inflight = <<"recv">>
  BY DEF Started
<1>4. /\ <<"recv">> # <<>> /\ NoListing(<<"recv">>)
      /\ "recv" \in Expected("ss_recv_header")
  BY DEF NoListing, Expected
<1> HIDE DEF p, h
<1>5. InTurn(p, ws[c], h)
  BY <1>3, <1>4 DEF InTurn, ListingStates, TerminalStates
<1>6. Polite /\ NoParts(Inputs) => Settling(p, talk[c])
  BY <1>1, <1>2, <1>3 DEF Dialogue, Settling, Due
<1>7. Dialogue(p, ws[c], h, talk[c])
  BY <1>3, <1>4, <1>5, <1>6 DEF Dialogue, Listened
<1> QED
  BY <1>1, <1>7, DialogueChange

(***************************************************************************)
(* The dialogue's invariant.                                               *)
(***************************************************************************)
\* The steps that leave the clients alone: those that end the process among them.
LEMMA QuietDialogue ==
  ASSUME DInv, UNCHANGED <<mc, ws, http, talk>>
  PROVE  DInv'
BY DEF DInv

LEMMA RequestDialogue ==
  ASSUME IInv, DInv, NEW c \in Clients, NEW i \in DOMAIN mc[c].inflight, Request(c, i)
  PROVE  DInv'
<1>1. PICK r \in Requests, whole \in BOOLEAN :
        \/ SmallResponse(c, i, r, whole)
        \/ HeadRequest(c, i, r, whole)
        \/ GetSpecial(c, i, r, whole)
        \/ GetDirectory(c, i, r, whole)
        \/ GetUnlistable(c, i, r, whole)
        \/ IndexIsDirectory(c, i, r, whole)
        \/ \E chunks \in 0..MaxChunks : GetFile(c, i, r, whole, chunks)
  BY DEF Request
<1>2. CASE IndexIsDirectory(c, i, r, whole)
  BY <1>2, QuietDialogue DEF IndexIsDirectory, Serves, Finished
<1>3. CASE \E chunks \in 0..MaxChunks : GetFile(c, i, r, whole, chunks)
  BY <1>3, GetFileDialogue
<1> QED
  BY <1>1, <1>2, <1>3, SmallResponseDialogue, HeadRequestDialogue, GetSpecialDialogue,
     GetDirectoryDialogue, GetUnlistableDialogue

LEMMA HttpDialogue ==
  ASSUME IInv, DInv, NEW c \in Clients, NEW i \in DOMAIN mc[c].inflight, HttpStep(c, i)
  PROVE  DInv'
<1>1. CASE FreeClient(c, i) \/ Drain(c, i)
  BY <1>1, FreeClientDialogue, DrainDialogue
<1>2. CASE Gone(c, i) \/ ParseError(c, i) \/ ForkFails(c, i)
  BY <1>2, GoneDialogue, ParseErrorDialogue, ForkFailsDialogue
<1>3. CASE ReParse(c, i) \/ ReadDir(c, i) \/ ReParse2(c, i)
  BY <1>3, ReParseDialogue, ReadDirDialogue, ReParse2Dialogue
<1>4. CASE SpliceIn(c, i) \/ FileSent(c, i) \/ SpliceOut(c, i)
  BY <1>4, SpliceInDialogue, FileSentDialogue, SpliceOutDialogue
<1>5. CASE PipeFails(c, i) \/ BadPointer(c, i) \/ NoUrl(c, i)
  BY <1>5, QuietDialogue DEF PipeFails, BadPointer, NoUrl
<1>6. CASE \E url \in BOOLEAN : Upgrade(c, i, url)
  BY <1>6, UpgradeDialogue
<1>7. CASE HeaderGoesOn(c, i) \/ Request(c, i)
  BY <1>7, HeaderGoesOnDialogue, RequestDialogue
<1>8. CASE OpenTerminal(c, i) \/ Data(c, i)
  BY <1>8, OpenTerminalDialogue, DataDialogue
<1>9. CASE \E empty \in BOOLEAN : Frame(c, i, empty)
  BY <1>9, FrameDialogue
<1> QED
  BY <1>1, <1>2, <1>3, <1>4, <1>5, <1>6, <1>7, <1>8, <1>9 DEF HttpStep

LEMMA DialogueInit == Init => DInv
<1> SUFFICES ASSUME Init, NEW c \in Clients
             PROVE  Dialogue(mc[c], ws[c], http[c], talk[c])
  BY DEF DInv
<1>1. /\ mc[c].mem = "none" /\ mc[c].so_type = "ss_recv_header"
      /\ mc[c].inflight = <<>> /\ talk[c].owed = 0
  BY DEF Init, Unallocated
<1>2. NoListing(<<>>)
  BY DEF NoListing
<1> QED
  BY <1>1, <1>2 DEF Dialogue, Listened, InTurn, Settling, Due, ListingStates,
     TerminalStates

LEMMA DialogueStep == IInv /\ DInv /\ [Next]_vars => DInv'
<1> SUFFICES ASSUME IInv, DInv, [Next]_vars PROVE DInv'
  OBVIOUS
<1>1. CASE ServerStep
  <2>1. ASSUME NEW i, NEW c \in Clients, NEW garbage \in Leftovers, Accept(i, c, garbage)
        PROVE  DInv'
    BY <2>1, AcceptDialogue
  <2>2. ASSUME NEW i, AcceptFails(i) \/ ServerDrains(i)
        PROVE  DInv'
    BY <2>2, QuietDialogue DEF AcceptFails, ServerDrains
  <2> QED
    BY <1>1, <2>1, <2>2 DEF ServerStep
<1>2. ASSUME NEW c \in Clients, NEW i \in DOMAIN mc[c].inflight,
             FileRead(c, i) \/ HttpStep(c, i)
      PROVE  DInv'
  BY <1>2, FileReadDialogue, HttpDialogue
<1>3. ASSUME NEW c \in Clients, NEW i \in DOMAIN ws[c].inflight, WsStep(c, i)
      PROVE  DInv'
  <2>1. CASE \E eio \in BOOLEAN : PtyFails(c, i, eio)
    BY <2>1, PtyFailsDialogue
  <2>2. CASE PtyRead(c, i) \/ WsSent(c, i) \/ WsGone(c, i)
    BY <2>2, WsProceedsDialogue, WsGoneDialogue
  <2> QED
    BY <1>3, <2>1, <2>2 DEF WsStep
<1>4. CASE ServerShutdown \/ Ended \/ UNCHANGED vars
  BY <1>4, QuietDialogue DEF ServerShutdown, Ended, vars
<1> QED
  BY <1>1, <1>2, <1>3, <1>4 DEF Next

LEMMA DialogueInvariance == Spec => []DInv
<1> QED
  BY DialogueInit, DialogueStep, Invariance, PTL DEF Spec

\* Unless a HEAD opens something, a connection whose object is live and for which
\* the kernel holds nothing is one my_free_client put off: it is closing, with
\* something in lzb and a size or a pid beside it.
THEOREM StrandedBehindLzb == NoHead(Requests) => (Spec => []StrandedOnlyBehindLzb)
<1> SUFFICES ASSUME NoHead(Requests) PROVE Spec => []StrandedOnlyBehindLzb
  OBVIOUS
<1>1. DInv => StrandedOnlyBehindLzb
  BY DEF DInv, Dialogue, Listened, StrandedOnlyBehindLzb, Stranded
<1> QED
  BY <1>1, DialogueInvariance, PTL

\* Unless a HEAD or a method that is not allowed opens something, however headers
\* arrive and whatever fails, each completion of a client that is not closing meets
\* the handler it is for, a listing outlives its send, and frames have their pty.
THEOREM KeptInStep == NoHead(Requests) /\ NoRefusal(Requests) => (Spec => []InStep)
<1> SUFFICES ASSUME Polite PROVE Spec => []InStep
  BY DEF Polite
<1>1. IInv /\ DInv => OneOfItsKind
  <2> SUFFICES ASSUME IInv, DInv, NEW c \in Clients,
                      mc[c].mem = "live", ~mc[c].closing
               PROVE  /\ Len(mc[c].inflight) = 1
                      /\ mc[c].inflight[1] \in Expected(mc[c].so_type)
    BY DEF OneOfItsKind
  <2>1. InTurn(mc[c], ws[c], http[c]) /\ mc[c].so_type # "ss_shutdown"
    BY OfClient DEF DInv, Dialogue, Consistent
  <2>2. PICK op \in Expected(mc[c].so_type) : mc[c].inflight = <<op>>
    BY <2>1 DEF InTurn
  <2> QED
    BY <2>2
<1>2. IInv /\ DInv => ListingOutlivesSend
  <2> SUFFICES ASSUME IInv, DInv, NEW c \in Clients, NEW i \in DOMAIN mc[c].inflight,
                      mc[c].inflight[i] = "send_lzb"
               PROVE  mc[c].mem = "live" /\ http[c].lzb = "listing"
    BY DEF ListingOutlivesSend
  <2>1. InTurn(mc[c], ws[c], http[c])
    BY DEF DInv, Dialogue
  <2>2. mc[c].so_type = "ss_reparse2"
    BY <2>1 DEF InTurn, NoListing
  <2>3. mc[c].mem = "live"
    BY OfClient, ReapLemma DEF Consistent
  <2> QED
    BY <2>1, <2>2, <2>3 DEF InTurn, ListingStates
<1>3. DInv => FramesHavePty
  BY DEF DInv, Dialogue, InTurn, FramesHavePty
<1>4. IInv /\ DInv => InStep
  BY <1>1, <1>2, <1>3 DEF InStep
<1> QED
  BY <1>4, Invariance, DialogueInvariance, PTL

\* If moreover no header takes more than one recv, one response goes out for each
\* request: none is owed when the next header is awaited, and never more than one.
THEOREM AnswersOnce ==
  NoHead(Requests) /\ NoRefusal(Requests) /\ NoParts(Inputs)
    => (Spec => []OneAnswerPerRequest)
<1> SUFFICES ASSUME Polite, NoParts(Inputs) PROVE Spec => []OneAnswerPerRequest
  BY DEF Polite
<1>1. DInv => OneAnswerPerRequest
  BY DEF DInv, Dialogue, Settling, Due, OneAnswerPerRequest
<1> QED
  BY <1>1, DialogueInvariance, PTL
=============================================================================
