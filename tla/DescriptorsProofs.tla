-------------------------- MODULE DescriptorsProofs --------------------------
(***************************************************************************)
(* What Descriptors promises, for any clients, any kinds of request and    *)
(* any limit on descriptors.                                               *)
(*                                                                         *)
(* NumbersKept is not inductive: that a number is its keeper's says        *)
(* nothing of which field keeps it as what, and a step closes fields.      *)
(* IInv says what each field of a client names in the kernel's table,      *)
(* and which fields are empty in which state.                              *)
(***************************************************************************)
EXTENDS Descriptors, FiniteSetTheorems, WellFoundedInduction, TLAPS

(***************************************************************************)
(* The inductive invariant                                                 *)
(***************************************************************************)
Unserved ==
  {"ss_recv_header", "idle", "ss_reparse", "ss_readdir", "ss_reparse2", "ss_ws_open"}
Sending == {"ss_responce_file", "ss_responce_file2"}
Awaiting == (Unserved \cup Sending \cup {"ws"}) \ {"idle"}
Ending == {"ws", "ss_shutdown", "stranded"}

\* How the fields of a client go with its state.
Shape(o) ==
  /\ o.st \in Awaiting \cup {"ss_shutdown"} => o.ops # 0
  /\ o.op # "none" => o.lzb = "ws" /\ o.st \in Ending
  /\ o.lzb = "ws" => o.st \in Ending \cup {"freed"} /\ o.size /\ o.ws \in {0, o.fileid}
  /\ o.ws # 0 => o.lzb = "ws"
  /\ o.st \in Unserved => o.fileid = 0 /\ o.pfds[1] = 0

Live(o) == o.st \notin {"none", "freed"}

\* What the numbers a client keeps are in the kernel's table.
Owns(c, o, t) ==
  Live(o) =>
    /\ t[o.fd] = Of("socket", c)
    /\ o.lzb # "ws" /\ (o.fileid # 0 \/ o.st \in Sending) => t[o.fileid] = Of("file", c)
    /\ o.ws # 0 => t[o.ws] = Of("pty", c)
    /\ o.pfds[1] # 0 => t[o.pfds[1]] = Of("pipe", c) /\ t[o.pfds[2]] = Of("pipe", c)

Standard == Of("stdin", Nobody)

\* The numbers a client names, served or abandoned.
Holds(o) == IF Live(o) THEN Named(o) ELSE {}

\* Those that are its own; a pty closed at EIO is still named.
Mine(c, o, t) == {n \in Holds(o) : t[n].of = c}

\* Nothing is open that is neither left nor named by its owner.
Accounted ==
  \A n \in Numbers \ {0} :
    table[n] # Closed => table[n] = Left \/ \E c \in Clients : n \in Mine(c, cl[c], table)

IInv ==
  /\ TypeOK
  /\ \A c \in Clients : Shape(cl[c])
  /\ past = {} => /\ table[0] = Standard
                  /\ \A c \in Clients : Owns(c, cl[c], table)
                  /\ Accounted

(***************************************************************************)
(* Numbers                                                                 *)
(***************************************************************************)
Before == {ss \in Nat \X Nat : ss[1] < ss[2]}

LEMMA BeforeIsWellFounded == IsWellFoundedOn(Before, Nat)
<1>1. OpToRel(<, Nat) = Before
  BY DEF OpToRel, Before
<1> QED
  BY <1>1, NatLessThanWellFounded, Zenon

\* Min of some natural numbers is one of them.
LEMMA MinIsMember ==
  ASSUME NEW T \in SUBSET Nat, T # {}
  PROVE  Min(T) \in T
<1>1. PICK x \in T : \A y \in T : <<y, x>> \notin Before
  BY WFMin, BeforeIsWellFounded
<1>2. \A y \in T : x =< y
  <2>1. \A m, n \in Nat : <<m, n>> \notin Before => n =< m
    BY DEF Before
  <2> QED
    BY <1>1, <2>1
<1> QED
  BY <1>2, Zenon DEF Min

LEMMA NumbersAreNatural == Numbers \subseteq Nat /\ 0 \in Numbers
BY DescriptorsAssumption DEF Numbers

\* The lowest number is free, when one is.
LEMMA LowestIsFree ==
  ASSUME NEW t, Free(t) # {}
  PROVE  Lowest(t) \in Numbers /\ t[Lowest(t)] = Closed
<1>1. Lowest(t) \in Free(t)
  BY MinIsMember, NumbersAreNatural DEF Lowest, Free
<1> QED
  BY <1>1 DEF Free

\* So are the two of a pipe, when two are.
LEMMA PipeIsFree ==
  ASSUME NEW t, Cardinality(Free(t)) >= 2
  PROVE  /\ Pipe(t) \in Numbers \X Numbers
         /\ t[Pipe(t)[1]] = Closed /\ t[Pipe(t)[2]] = Closed
         /\ Free(t) # {}
<1> DEFINE F == Free(t)
           m == Lowest(t)
<1>1. IsFiniteSet(F)
  <2>1. IsFiniteSet(Numbers)
    BY FS_Interval, DescriptorsAssumption DEF Numbers
  <2> QED
    BY <2>1, FS_Subset DEF Free
<1>2. F # {}
  BY FS_EmptySet
<1>3. m \in F
  BY <1>2, LowestIsFree DEF Free
<1>4. Cardinality(F \ {m}) = Cardinality(F) - 1 /\ Cardinality(F) \in Nat
  BY <1>1, <1>3, FS_RemoveElement, FS_CardinalityType
<1>5. F \ {m} # {}
  <2>1. Cardinality(F \ {m}) # 0
    BY <1>4
  <2> QED
    BY <2>1, FS_EmptySet
<1>6. Min(F \ {m}) \in F \ {m}
  <2>1. F \ {m} \in SUBSET Nat
    BY NumbersAreNatural DEF Free
  <2> QED
    BY <1>5, <2>1, MinIsMember
<1>7. Pipe(t) = <<m, Min(F \ {m})>>
  BY DEF Pipe
<1> HIDE DEF m
<1> QED
  BY <1>2, <1>3, <1>6, <1>7 DEF Free


(***************************************************************************)
(* What a step has to show                                                 *)
(***************************************************************************)
Tables == [Numbers -> Description \cup {Closed}]
Servers == {"running", "deaf", "exited", "aborted"}
Lines == {"EIO", "end", "fileid", "rest"}

LEMMA KindsApart ==
  /\ \A c : \A is \in Kept : Of(is, c) # Closed /\ Of(is, c) # Standard
  /\ \A c, d : \A is \in Kept, js \in Kept : Of(is, c) = Of(js, d) => c = d /\ is = js
  /\ Standard # Closed
BY DEF Of, Closed, Standard, Kept

LEMMA DescriptionsLemma ==
  /\ \A c \in Clients : \A is \in Kept : Of(is, c) \in Description
  /\ Standard \in Description /\ Left \in Description
BY DEF Of, Standard, Left, Kept, Description

\* What c may open.
Openable(c) == {Left} \cup {Of(is, c) : is \in Kept}

\* These numbers c may close: nobody else is served from them.
Own(c, t, numbers) == \A n \in numbers : t[n] \in {Closed} \cup {Of(is, c) : is \in Kept}

\* What a step that leaves client c as o does to the table, when no line closes what
\* is another's: standard input stays, o keeps its own, so do the others, and what
\* is left open is kept.
Tidy(c, o) ==
  /\ table'[0] = Standard
  /\ Owns(c, o, table')
  /\ \A d \in Clients \ {c} : \A is \in Kept : \A n \in Numbers :
       table[n] = Of(is, d) => table'[n] = Of(is, d)
  /\ \A n \in Numbers \ {0} : table'[n] # Closed =>
       \/ table'[n] = Left \/ n \in Mine(c, o, table')
       \/ table'[n] = table[n] /\ n \notin Mine(c, cl[c], table)

\* A step of client c.
LEMMA LeavingKeeps ==
  ASSUME IInv, NEW c \in Clients, NEW o \in Client, Leaves(c, o), Shape(o),
         table' \in Tables, server' \in Servers, past' \subseteq Lines, past \subseteq past',
         past' = {} => Tidy(c, o)
  PROVE  IInv'
<1>1. cl \in [Clients -> Client] /\ cl' = [cl EXCEPT ![c] = o]
  BY DEF IInv, TypeOK, Leaves
<1>2. TypeOK'
  BY <1>1 DEF TypeOK, Tables, Servers, Lines
<1>3. cl'[c] = o /\ \A d \in Clients \ {c} : cl'[d] = cl[d]
  BY <1>1
<1>4. \A d \in Clients : Shape(cl'[d])
  BY <1>3 DEF IInv
<1>5. ASSUME past' = {}
      PROVE  /\ table'[0] = Standard
             /\ \A d \in Clients : Owns(d, cl'[d], table')
             /\ Accounted'
  <2>1. past = {} /\ Tidy(c, o)
    BY <1>5
  <2>2. \A d \in Clients : Owns(d, cl'[d], table')
    <3>1. Owns(c, cl'[c], table')
      BY <1>3, <2>1 DEF Tidy
    <3>2. ASSUME NEW d \in Clients \ {c}, Live(cl[d])
          PROVE  Owns(d, cl[d], table')
      <4>1. Owns(d, cl[d], table)
        BY <2>1 DEF IInv
      <4>2. /\ cl[d].fd \in Numbers /\ cl[d].fileid \in Numbers /\ cl[d].ws \in Numbers
            /\ cl[d].pfds[1] \in Numbers /\ cl[d].pfds[2] \in Numbers
        BY <1>1 DEF Client
      <4>3. \A is \in Kept : \A n \in Numbers :
              table[n] = Of(is, d) => table'[n] = Of(is, d)
        BY <2>1, Zenon DEF Tidy
      <4>4. "socket" \in Kept /\ "file" \in Kept /\ "pipe" \in Kept /\ "pty" \in Kept
        BY DEF Kept
      <4> QED
        BY <3>2, <4>1, <4>2, <4>3, <4>4, Zenon DEF Owns
    <3>3. \A d \in Clients \ {c} : Owns(d, cl'[d], table')
      BY <1>3, <3>2 DEF Owns
    <3> QED
      BY <3>1, <3>3
  <2>3. ASSUME NEW n \in Numbers \ {0}, table'[n] # Closed
        PROVE  table'[n] = Left \/ \E d \in Clients : n \in Mine(d, cl'[d], table')
    <3>1. CASE table'[n] = Left \/ n \in Mine(c, o, table')
      BY <1>3, <3>1
    <3>2. CASE table'[n] = table[n] /\ n \notin Mine(c, cl[c], table)
      <4>1. table[n] = Left \/ \E d \in Clients : n \in Mine(d, cl[d], table)
        BY <2>1, <2>3, <3>2 DEF IInv, Accounted
      <4>2. \A d \in Clients \ {c} :
              n \in Mine(d, cl[d], table) => n \in Mine(d, cl'[d], table')
        BY <1>3, <3>2 DEF Mine
      <4> QED
        BY <3>2, <4>1, <4>2
    <3> QED
      BY <2>1, <2>3, <3>1, <3>2 DEF Tidy
  <2>4. Accounted'
    <3>1. \A d : Mine(d, cl[d], table)' = Mine(d, cl'[d], table')
      BY Zenon DEF Mine, Holds, Named, Live, Set, Pipes
    <3> QED
      BY <2>3, <3>1 DEF Accounted
  <2> QED
    BY <2>1, <2>2, <2>4 DEF Tidy
<1> QED
  BY <1>2, <1>4, <1>5 DEF IInv

\* One that leaves the table alone.
LEMMA TableStays ==
  ASSUME IInv, NEW c \in Clients, NEW o \in Client, Leaves(c, o), Shape(o),
         UNCHANGED <<table, past>>, server' \in Servers,
         past = {} => Owns(c, o, table) /\ Holds(cl[c]) \subseteq Holds(o)
  PROVE  IInv'
<1>1. table' \in Tables /\ past' \subseteq Lines
  BY DEF IInv, TypeOK, Tables, Lines
<1>2. past' = {} => Tidy(c, o)
  BY DEF IInv, Tidy, Mine
<1> QED
  BY <1>1, <1>2, LeavingKeeps

\* One that opens a number, which is leaked or kept.
LEMMA Opening ==
  ASSUME IInv, NEW c \in Clients, NEW o \in Client, Leaves(c, o), Shape(o),
         NEW opened \in Openable(c), ~Full, Opens(opened),
         UNCHANGED past, server' \in Servers,
         past = {} => /\ opened = Left \/ Lowest(table) \in Holds(o)
                      /\ Owns(c, o, table')
                      /\ Holds(cl[c]) \subseteq Holds(o)
  PROVE  IInv'
<1> DEFINE n == Lowest(table)
<1>1. n \in Numbers /\ table[n] = Closed
  BY LowestIsFree DEF Full
<1>2. table \in Tables /\ table' = [table EXCEPT ![n] = opened]
  BY DEF IInv, TypeOK, Opens, Tables
<1> HIDE DEF n
<1>3. table' \in Tables /\ past' \subseteq Lines
  <2>1. opened \in Description
    BY DescriptionsLemma DEF Openable
  <2> QED
    BY <1>1, <1>2, <2>1 DEF IInv, TypeOK, Tables, Lines
<1>4. table'[n] = opened /\ \A m \in Numbers \ {n} : table'[m] = table[m]
  BY <1>1, <1>2 DEF Tables
<1>5. ASSUME past = {}
      PROVE  Tidy(c, o)
  <2>1. table'[0] = Standard
    BY <1>1, <1>4, <1>5, KindsApart, NumbersAreNatural DEF IInv
  <2>2. \A d \in Clients \ {c} : \A js \in Kept : \A m \in Numbers :
          table[m] = Of(js, d) => table'[m] = Of(js, d)
    BY <1>1, <1>4, KindsApart
  <2>3. opened = Left \/ opened.of = c
    BY DEF Openable, Of
  <2> QED
    BY <1>1, <1>4, <1>5, <2>1, <2>2, <2>3 DEF Tidy, Mine, n
<1> QED
  BY <1>3, <1>5, LeavingKeeps

\* One that closes numbers, and says what it closed.
LEMMA ClosingKeeps ==
  ASSUME IInv, NEW c \in Clients, NEW o \in Client, Leaves(c, o), Shape(o),
         NEW numbers, table' = Closing(table, numbers),
         server' \in Servers, past' \subseteq Lines, past \subseteq past',
         past' = {} => /\ Own(c, table, numbers)
                       /\ Owns(c, o, table')
                       /\ Holds(cl[c]) \subseteq Holds(o) \cup numbers
  PROVE  IInv'
<1>1. table \in Tables
  BY DEF IInv, TypeOK, Tables
<1>2. table' \in Tables
  BY <1>1 DEF Tables, Closing
<1>3. \A n \in Numbers : table'[n] = IF n \in numbers THEN Closed ELSE table[n]
  BY DEF Closing
<1>4. ASSUME past' = {}
      PROVE  Tidy(c, o)
  <2>1. table'[0] = Standard
    BY <1>3, <1>4, KindsApart, NumbersAreNatural DEF IInv, Own
  <2>2. \A d \in Clients \ {c} : \A js \in Kept : \A m \in Numbers :
          table[m] = Of(js, d) => table'[m] = Of(js, d)
    BY <1>3, <1>4, KindsApart DEF Own
  <2> QED
    BY <1>3, <1>4, <2>1, <2>2 DEF Tidy, Mine
<1> QED
  BY <1>2, <1>4, LeavingKeeps

\* What Tells says.
LEMMA TellsLine ==
  \A c, t, line, numbers : Tells(c, t, line, numbers) \subseteq {line}
BY Zenon DEF Tells

LEMMA TellsOwn ==
  \A c, t, line, numbers : Tells(c, t, line, numbers) = {} <=> Own(c, t, numbers)
<1> SUFFICES ASSUME NEW c, NEW t, NEW line, NEW numbers
             PROVE  Tells(c, t, line, numbers) = {} <=> Own(c, t, numbers)
  OBVIOUS
<1>1. CASE Own(c, t, numbers)
  BY <1>1, Zenon DEF Tells, Own
<1>2. CASE ~Own(c, t, numbers)
  <2>1. Tells(c, t, line, numbers) = {line}
    BY <1>2, Zenon DEF Tells, Own
  <2> QED
    BY <1>2, <2>1
<1> QED
  BY <1>1, <1>2

(***************************************************************************)
(* The steps                                                               *)
(***************************************************************************)
LEMMA ClientsLemma ==
  ASSUME IInv, NEW c \in Clients
  PROVE  /\ cl[c] \in Client /\ Shape(cl[c])
         /\ past = {} => Owns(c, cl[c], table) /\ table[0] = Standard
         /\ server \in Servers /\ table \in Tables /\ past \subseteq Lines
BY DEF IInv, TypeOK, Servers, Tables, Lines

LEMMA ReceivingLemma ==
  ASSUME NEW n \in Numbers, NEW k \in Nat, NEW o \in Client, NEW garbage \in BOOLEAN
  PROVE  [o EXCEPT !.st = "ss_recv_header", !.ops = k, !.fd = n, !.size = garbage] \in Client
BY Zenon DEF Client, States

LEMMA NewLemma == New \in Client /\ Freed \in Client
<1>1. New \in Client
  BY NumbersAreNatural, DescriptorsAssumption DEF New, Client, States
<1>2. "freed" \in States
  BY DEF States
<1> QED
  BY <1>1, <1>2, Zenon DEF Freed, Client

LEMMA AcceptedLemma ==
  ASSUME NEW n \in Numbers, NEW garbage \in BOOLEAN
  PROVE  [New EXCEPT !.st = "ss_recv_header", !.ops = 1, !.fd = n, !.size = garbage] \in Client
<1>1. New \in Client
  BY NewLemma
<1>2. 1 \in Nat
  OBVIOUS
<1> QED
  BY <1>1, <1>2, ReceivingLemma, Zenon

LEMMA AcceptStep ==
  ASSUME IInv, NEW c \in Clients, Accept(c)
  PROVE  IInv'
<1> DEFINE n == Lowest(table)
<1>0. PICK garbage \in BOOLEAN :
        Leaves(c, [New EXCEPT !.st = "ss_recv_header", !.ops = 1, !.fd = n, !.size = garbage])
  BY Zenon DEF Accept
<1> DEFINE o == [New EXCEPT !.st = "ss_recv_header", !.ops = 1, !.fd = n, !.size = garbage]
<1>1. n \in Numbers /\ table[n] = Closed
  BY LowestIsFree DEF Accept, Full
<1>2. Leaves(c, o) /\ Opens(Of("socket", c)) /\ ~Full
  BY <1>0 DEF Accept
<1>3. table'[n] = Of("socket", c)
  BY <1>1, <1>2, ClientsLemma DEF Opens, Tables
<1> HIDE DEF n
<1>4. o \in Client
  BY <1>1, AcceptedLemma, Zenon
<1>5. Shape(o)
  BY DEF New, Shape, Unserved, Sending, Awaiting, Ending
<1>6. Owns(c, o, table')
  BY <1>3 DEF New, Owns, Sending
<1>7. n \in Holds(o) /\ Holds(cl[c]) = {}
  BY DEF Accept, New, Holds, Live, Named
<1> HIDE DEF o
<1>8. UNCHANGED <<past, server>> /\ server \in Servers /\ Of("socket", c) \in Openable(c)
  BY ClientsLemma DEF Accept, Kept, Openable
<1> QED
  BY <1>2, <1>4, <1>5, <1>6, <1>7, <1>8, Opening DEF n

\* Shut takes a client that still serves to its end.
LEMMA ShutLemma ==
  ASSUME NEW o \in Client
  PROVE  /\ Shut(o) \in Client
         /\ Shut(o).st \in {"ss_shutdown", "stranded"}
         /\ o.st # "stranded" => Shut(o).st = "ss_shutdown"
         /\ o.st \in {"ss_shutdown", "stranded"} => Shut(o) = o
         /\ o.st \notin {"ss_shutdown", "stranded"} => Shut(o).ops = o.ops + 1
         /\ Shut(o).fd = o.fd /\ Shut(o).fileid = o.fileid /\ Shut(o).ws = o.ws
         /\ Shut(o).pfds = o.pfds /\ Shut(o).size = o.size /\ Shut(o).lzb = o.lzb
         /\ Shut(o).op = o.op
<1>1. CASE o.st \in {"ss_shutdown", "stranded"}
  BY <1>1 DEF Shut
<1>2. CASE o.st \notin {"ss_shutdown", "stranded"}
  <2> DEFINE n == o.ops + 1
  <2>1. n \in Nat
    BY DEF Client
  <2>2. Shut(o) = [o EXCEPT !.st = "ss_shutdown", !.ops = n]
    BY <1>2 DEF Shut
  <2>3. n = o.ops + 1
    OBVIOUS
  <2> HIDE DEF n
  <2>4. Shut(o) \in Client
    BY <2>1, <2>2, Zenon DEF Client, States
  <2> QED
    BY <1>2, <2>2, <2>3, <2>4 DEF Client
<1> QED
  BY <1>1, <1>2

\* A client whose operation has failed: the handler may set its filesize, or free its
\* listing.
LEMMA FailingLemma ==
  ASSUME IInv, NEW c \in Clients, cl[c].st \in Awaiting, NEW size \in BOOLEAN,
         cl[c].lzb = "ws" => size, NEW lzb \in {cl[c].lzb, "null"}, lzb = cl[c].lzb \/ cl[c].lzb # "ws",
         NEW r \in Client, r.ops + 1 = cl[c].ops, r.st = cl[c].st, r.size = size, r.lzb = lzb,
         r.fd = cl[c].fd, r.fileid = cl[c].fileid, r.ws = cl[c].ws, r.pfds = cl[c].pfds,
         r.op = cl[c].op, Leaves(c, Shut(r)), UNCHANGED <<table, past, server>>
  PROVE  IInv'
<1> DEFINE p == cl[c]
           s == Shut(r)
<1>1. /\ p \in Client /\ Shape(p) /\ server' \in Servers
      /\ past = {} => Owns(c, p, table)
  BY ClientsLemma
<1>2. r.st \notin {"ss_shutdown", "stranded", "none", "freed"}
  BY DEF Awaiting, Unserved, Sending
<1>3. /\ s \in Client /\ s.st = "ss_shutdown" /\ s.ops = r.ops + 1
      /\ s.lzb = lzb /\ s.fd = p.fd /\ s.fileid = p.fileid /\ s.ws = p.ws
      /\ s.pfds = p.pfds /\ s.size = size /\ s.op = p.op
  BY <1>2, ShutLemma
<1>4. Leaves(c, s)
  OBVIOUS
<1> HIDE DEF s
<1>5. s.ops # 0
  BY <1>3 DEF Client
<1>6. Shape(s)
  BY <1>1, <1>3, <1>5 DEF Shape, Unserved, Sending, Awaiting, Ending
<1>7. past = {} => Owns(c, s, table)
  BY <1>1, <1>2, <1>3 DEF Owns, Live, Sending, Shape, Ending
<1>8. Holds(p) \subseteq Holds(s)
  BY <1>2, <1>3 DEF Holds, Live, Pipes, Set, Named
<1> QED
  BY <1>1, <1>3, <1>4, <1>6, <1>7, <1>8, TableStays DEF p

LEMMA FailsStep ==
  ASSUME IInv, NEW c \in Clients, Fails(c)
  PROVE  IInv'
<1> DEFINE p == cl[c]
           k == p.ops - 1
           q == [p EXCEPT !.ops = k]
           r == IF q.st = "ss_reparse2" THEN [q EXCEPT !.lzb = "null"] ELSE q
<1>1. p \in Client /\ Shape(p)
  BY ClientsLemma
<1>2. /\ p.st \in Awaiting /\ p.ops # 0 /\ p.ops \in Nat
      /\ k \in Nat /\ k + 1 = p.ops
  BY <1>1 DEF Fails, Completed, Shape, Awaiting, Unserved, Sending, Client
<1> HIDE DEF k
<1>3. /\ q \in Client /\ q.ops = k /\ q.st = p.st /\ q.lzb = p.lzb
      /\ q.fd = p.fd /\ q.fileid = p.fileid /\ q.ws = p.ws
      /\ q.pfds = p.pfds /\ q.size = p.size /\ q.op = p.op
  BY <1>1, <1>2, Zenon DEF Client
<1>4. /\ r \in Client /\ r.ops + 1 = p.ops /\ r.st = p.st
      /\ r.lzb = IF p.st = "ss_reparse2" THEN "null" ELSE p.lzb
      /\ r.fd = p.fd /\ r.fileid = p.fileid /\ r.ws = p.ws
      /\ r.pfds = p.pfds /\ r.size = p.size /\ r.op = p.op
  <2> HIDE DEF q
  <2>1. CASE p.st = "ss_reparse2"
    BY <1>2, <1>3, <2>1 DEF Client
  <2>2. CASE p.st # "ss_reparse2"
    <3>1. r = q
      BY <1>3, <2>2
    <3> QED
      BY <1>2, <1>3, <2>2, <3>1
  <2> QED
    BY <2>1, <2>2
<1>5. Leaves(c, Shut(r)) /\ UNCHANGED <<table, past, server>>
  BY DEF Fails, Next1, k
<1> HIDE DEF q, r
<1>6. p.st = "ss_reparse2" => p.lzb # "ws"
  BY <1>1 DEF Shape, Ending
<1>7. p.size \in BOOLEAN /\ (p.lzb = "ws" => p.size)
  BY <1>1 DEF Client, Shape
<1> DEFINE lzb == IF p.st = "ss_reparse2" THEN "null" ELSE p.lzb
<1>8. lzb \in {p.lzb, "null"} /\ (lzb = p.lzb \/ p.lzb # "ws") /\ r.lzb = lzb
  BY <1>4, <1>6
<1> HIDE DEF lzb
<1> QED
  BY <1>2, <1>4, <1>5, <1>7, <1>8, FailingLemma, Zenon

LEMMA ForkptyFailsStep ==
  ASSUME IInv, NEW c \in Clients, ForkptyFails(c)
  PROVE  IInv'
<1> DEFINE p == cl[c]
           k == p.ops - 1
           r == [p EXCEPT !.ops = k, !.size = TRUE]
<1>1. p \in Client /\ Shape(p) /\ p.st = "ss_ws_open"
  BY ClientsLemma DEF ForkptyFails, Completed
<1>2. p.st \in Awaiting /\ k \in Nat /\ k + 1 = p.ops
  BY <1>1 DEF Shape, Awaiting, Unserved, Client
<1> HIDE DEF k
<1>3. /\ r \in Client /\ r.ops + 1 = p.ops /\ r.st = p.st /\ r.lzb = p.lzb
      /\ r.fd = p.fd /\ r.fileid = p.fileid /\ r.ws = p.ws
      /\ r.pfds = p.pfds /\ r.size = TRUE /\ r.op = p.op
  <2>1. /\ r \in Client /\ r.ops = k /\ r.st = p.st /\ r.lzb = p.lzb
        /\ r.fd = p.fd /\ r.fileid = p.fileid /\ r.ws = p.ws
        /\ r.pfds = p.pfds /\ r.size = TRUE /\ r.op = p.op
    BY <1>1, <1>2, Zenon DEF Client
  <2> QED
    BY <1>2, <2>1
<1>4. Leaves(c, Shut(r)) /\ UNCHANGED <<table, past, server>>
  BY DEF ForkptyFails, Next1, k
<1> HIDE DEF r
<1>5. TRUE \in BOOLEAN /\ p.lzb \in {p.lzb, "null"}
  OBVIOUS
<1> QED
  BY <1>2, <1>3, <1>4, <1>5, FailingLemma, Zenon

\* A handler that only moves the client on.
LEMMA MovingOn ==
  ASSUME IInv, NEW c \in Clients, NEW o \in Client, Next1(c, o), UNCHANGED table, Shape(o),
         Live(o), o.fd = cl[c].fd, o.fileid = cl[c].fileid, o.ws = cl[c].ws,
         o.pfds = cl[c].pfds,
         o.lzb = cl[c].lzb \/ (o.lzb # "ws" /\ cl[c].lzb # "ws"),
         Live(cl[c]), o.st \in Sending => cl[c].st \in Sending
  PROVE  IInv'
<1>1. Leaves(c, o) /\ UNCHANGED <<table, past>> /\ server' \in Servers
  BY ClientsLemma DEF Next1
<1>2. past = {} => Owns(c, o, table)
  BY ClientsLemma DEF Owns
<1>3. Holds(cl[c]) \subseteq Holds(o)
  BY DEF Holds, Named, Pipes
<1> QED
  BY <1>1, <1>2, <1>3, TableStays

LEMMA ReParsedLemma ==
  ASSUME NEW o \in Client
  PROVE  /\ ReParsed(o) \in Client
         /\ ReParsed(o).st = "ss_recv_header" /\ ReParsed(o).fileid = 0
         /\ ReParsed(o).pfds[1] = 0 /\ ReParsed(o).ops = o.ops /\ ReParsed(o).fd = o.fd
         /\ ReParsed(o).ws = o.ws /\ ReParsed(o).lzb = o.lzb /\ ReParsed(o).op = o.op
<1> DEFINE p == [o.pfds EXCEPT ![1] = 0]
<1>1. p \in Numbers \X Numbers /\ p[1] = 0
  BY NumbersAreNatural DEF Client
<1>2. ReParsed(o) = [o EXCEPT !.st = "ss_recv_header", !.fileid = 0, !.size = FALSE,
                              !.pfds = p]
  BY DEF ReParsed, Client
<1> HIDE DEF p
<1>3. 0 \in Numbers /\ "ss_recv_header" \in States /\ FALSE \in BOOLEAN
  BY NumbersAreNatural DEF States
<1>4. ReParsed(o) \in Client
  BY <1>1, <1>2, <1>3, Zenon DEF Client
<1>5. /\ ReParsed(o).st = "ss_recv_header" /\ ReParsed(o).fileid = 0 /\ ReParsed(o).pfds = p
      /\ ReParsed(o).ops = o.ops /\ ReParsed(o).fd = o.fd
      /\ ReParsed(o).ws = o.ws /\ ReParsed(o).lzb = o.lzb /\ ReParsed(o).op = o.op
  BY <1>2, Zenon DEF Client
<1> QED
  BY <1>1, <1>4, <1>5

LEMMA ReParsedStep ==
  ASSUME IInv, NEW c \in Clients, NEW o \in Client, Next1(c, ReParsed(o)), UNCHANGED table,
         Shape(o), o.st \in Unserved, o.ops # 0, o.fd = cl[c].fd, o.fileid = cl[c].fileid,
         o.ws = cl[c].ws, o.pfds = cl[c].pfds, o.st = cl[c].st
  PROVE  IInv'
<1>1. Leaves(c, ReParsed(o)) /\ UNCHANGED <<table, past>> /\ server' \in Servers
  BY ClientsLemma DEF Next1
<1> DEFINE r == ReParsed(o)
<1>2. /\ r \in Client /\ r.st = "ss_recv_header" /\ r.ops # 0 /\ r.fileid = 0
      /\ r.pfds[1] = 0 /\ r.fd = o.fd /\ r.ws = o.ws /\ r.lzb = o.lzb /\ r.op = o.op
  BY ReParsedLemma
<1> HIDE DEF r
<1>3. o.lzb # "ws" /\ o.op = "none" /\ o.ws = 0 /\ o.fileid = 0 /\ o.pfds[1] = 0
  BY DEF Shape, Unserved, Ending
<1>4. Shape(r)
  BY <1>2, <1>3 DEF Shape, Unserved, Sending, Awaiting, Ending
<1>5. past = {} => Owns(c, r, table)
  BY <1>2, <1>3, ClientsLemma DEF Owns, Live, Unserved, Sending
<1>6. Holds(cl[c]) \subseteq Holds(r)
  BY <1>2, <1>3 DEF Holds, Live, Named, Pipes, Set
<1> QED
  BY <1>1, <1>2, <1>4, <1>5, <1>6, TableStays DEF r

LEMMA ParsingStep ==
  ASSUME IInv, NEW c \in Clients, ReParse(c) \/ ReadDir(c) \/ ReParse2(c)
  PROVE  IInv'
<1>1. cl[c] \in Client /\ Shape(cl[c])
  BY ClientsLemma
<1>2. CASE ReParse(c)
  <2>1. cl[c].st \in Unserved /\ cl[c].ops # 0
    BY <1>1, <1>2 DEF ReParse, Completed, Shape, Unserved, Awaiting
  <2> QED
    BY <1>1, <1>2, <2>1, ReParsedStep DEF ReParse
<1>3. CASE ReadDir(c)
  <2> DEFINE o == [cl[c] EXCEPT !.st = "ss_reparse2"]
  <2>1. cl[c].st = "ss_readdir" /\ Next1(c, o) /\ UNCHANGED table
    BY <1>3 DEF ReadDir, Completed
  <2>2. /\ o \in Client /\ o.st = "ss_reparse2"
        /\ o.ops = cl[c].ops /\ o.fd = cl[c].fd /\ o.fileid = cl[c].fileid
        /\ o.ws = cl[c].ws /\ o.pfds = cl[c].pfds /\ o.lzb = cl[c].lzb
        /\ o.op = cl[c].op /\ o.size = cl[c].size
    BY <1>1 DEF Client, States
  <2> HIDE DEF o
  <2>3. Shape(o)
    BY <1>1, <2>1, <2>2 DEF Shape, Unserved, Sending, Awaiting, Ending
  <2>4. Live(o) /\ Live(cl[c]) /\ o.st \notin Sending
    BY <2>1, <2>2 DEF Live, Sending
  <2> QED
    BY <2>1, <2>2, <2>3, <2>4, MovingOn
<1>4. CASE ReParse2(c)
  <2> DEFINE o == [cl[c] EXCEPT !.lzb = "null"]
  <2>1. cl[c].st = "ss_reparse2" /\ Next1(c, ReParsed(o)) /\ UNCHANGED table
    BY <1>4 DEF ReParse2, Completed
  <2>2. /\ o \in Client /\ o.st = cl[c].st /\ o.lzb = "null"
        /\ o.ops = cl[c].ops /\ o.fd = cl[c].fd /\ o.fileid = cl[c].fileid
        /\ o.ws = cl[c].ws /\ o.pfds = cl[c].pfds /\ o.op = cl[c].op
    BY <1>1 DEF Client
  <2> HIDE DEF o
  <2>3. Shape(o) /\ o.ops # 0 /\ o.st \in Unserved
    BY <1>1, <2>1, <2>2 DEF Shape, Unserved, Sending, Awaiting, Ending
  <2> QED
    BY <2>1, <2>2, <2>3, ReParsedStep
<1> QED
  BY <1>2, <1>3, <1>4


\* What a client owns in one table it owns in another that keeps it.
LEMMA OwnsLemma ==
  ASSUME NEW c, NEW o \in Client, NEW t, NEW u, Owns(c, o, t),
         \A n \in Numbers : \A is \in Kept : t[n] = Of(is, c) => u[n] = Of(is, c)
  PROVE  Owns(c, o, u)
<1>1. /\ o.fd \in Numbers /\ o.fileid \in Numbers /\ o.ws \in Numbers
      /\ o.pfds[1] \in Numbers /\ o.pfds[2] \in Numbers
  BY DEF Client
<1>2. "socket" \in Kept /\ "file" \in Kept /\ "pipe" \in Kept /\ "pty" \in Kept
  BY DEF Kept
<1> QED
  BY <1>1, <1>2, Zenon DEF Owns

LEMMA OpensLemma ==
  ASSUME IInv, NEW opened, ~Full, Opens(opened)
  PROVE  /\ Lowest(table) \in Numbers /\ table'[Lowest(table)] = opened
         /\ \A d : \A n \in Numbers : \A js \in Kept :
              table[n] = Of(js, d) => table'[n] = Of(js, d)
<1>1. Lowest(table) \in Numbers /\ table[Lowest(table)] = Closed
  BY LowestIsFree DEF Full
<1>2. table' = [table EXCEPT ![Lowest(table)] = opened] /\ table \in Tables
  BY DEF Opens, IInv, TypeOK, Tables
<1>3. \A d : \A js \in Kept : Of(js, d) # Closed
  BY KindsApart
<1> QED
  BY <1>1, <1>2, <1>3 DEF Tables

\* A handler that opens what nobody will close.
LEMMA Leaking ==
  ASSUME IInv, NEW c \in Clients, NEW o \in Client, Next1(c, o), Shape(o),
         ~Full, Opens(Left),
         Live(o), o.fd = cl[c].fd, o.fileid = cl[c].fileid, o.ws = cl[c].ws,
         o.pfds = cl[c].pfds, o.lzb # "ws", cl[c].lzb # "ws",
         Live(cl[c]), o.st \notin Sending
  PROVE  IInv'
<1>1. Leaves(c, o) /\ UNCHANGED past /\ server' \in Servers
  BY ClientsLemma DEF Next1
<1>2. past = {} => Owns(c, o, table)
  BY ClientsLemma DEF Owns
<1>3. past = {} => Owns(c, o, table')
  BY <1>2, OpensLemma, OwnsLemma
<1>4. Holds(cl[c]) \subseteq Holds(o) /\ Left \in Openable(c)
  BY DEF Holds, Named, Pipes, Openable
<1> QED
  BY <1>1, <1>3, <1>4, Opening

\* A handler that leaves directories open.
LEMMA StayingOpen ==
  ASSUME IInv, NEW c \in Clients, NEW o \in Client, Next1(c, o), Shape(o),
         NEW numbers \in SUBSET Free(table), StayOpen(numbers),
         Live(o), o.fd = cl[c].fd, o.fileid = cl[c].fileid, o.ws = cl[c].ws,
         o.pfds = cl[c].pfds, o.lzb # "ws", cl[c].lzb # "ws",
         Live(cl[c]), o.st \notin Sending
  PROVE  IInv'
<1>1. Leaves(c, o) /\ UNCHANGED past /\ server' \in Servers
  BY ClientsLemma DEF Next1
<1>2. /\ table \in Tables /\ past \subseteq Lines
      /\ past = {} => Owns(c, cl[c], table) /\ table[0] = Standard
  BY ClientsLemma
<1>3. \A n \in numbers : table[n] = Closed
  BY DEF Free
<1>4. \A n \in Numbers : table'[n] = IF n \in numbers THEN Left ELSE table[n]
  BY DEF StayOpen
<1>5. table' \in Tables
  BY <1>2, DescriptionsLemma DEF StayOpen, Tables
<1>6. \A d : \A is \in Kept : \A n \in Numbers :
        table[n] = Of(is, d) => table'[n] = Of(is, d)
  BY <1>3, <1>4, KindsApart
<1>7. past = {} => Owns(c, o, table)
  BY <1>2 DEF Owns
<1>8. past = {} => Owns(c, o, table')
  BY <1>6, <1>7, OwnsLemma
<1>9. Holds(cl[c]) = Holds(o)
  BY DEF Holds, Named, Pipes
<1>10. past = {} => table'[0] = Standard
  BY <1>2, <1>3, <1>4, KindsApart, NumbersAreNatural
<1>11. past' = {} => Tidy(c, o)
  BY <1>1, <1>4, <1>6, <1>8, <1>9, <1>10 DEF Tidy, Mine
<1> QED
  BY <1>1, <1>2, <1>5, <1>11, LeavingKeeps

\* The client of a request, with the request counted.
LEMMA CountedLemma ==
  ASSUME NEW o \in Client, o.count < MaxRequests, NEW refused \in BOOLEAN
  PROVE  /\ Counted(o, refused) \in Client
         /\ o.ops # 0 => Counted(o, refused).ops # 0
         /\ Counted(o, refused).st = o.st /\ Counted(o, refused).fd = o.fd
         /\ Counted(o, refused).fileid = o.fileid /\ Counted(o, refused).pfds = o.pfds
         /\ Counted(o, refused).lzb = o.lzb /\ Counted(o, refused).ws = o.ws
         /\ Counted(o, refused).op = o.op
<1> DEFINE n == o.count + 1
           k == IF refused THEN o.ops + 1 ELSE o.ops
           r == [o EXCEPT !.count = n, !.ops = k]
<1>1. n \in 0..MaxRequests /\ k \in Nat /\ (o.ops # 0 => k # 0)
  BY DescriptorsAssumption DEF Client
<1>2. Counted(o, refused) = r
  BY DEF Counted
<1> HIDE DEF n, k
<1>3. r \in Client
  BY <1>1, Zenon DEF Client
<1>4. /\ r.ops = k /\ r.st = o.st /\ r.fd = o.fd /\ r.fileid = o.fileid /\ r.pfds = o.pfds
      /\ r.lzb = o.lzb /\ r.ws = o.ws /\ r.op = o.op
  BY DEF Client
<1> HIDE DEF r
<1> QED
  BY <1>1, <1>2, <1>3, <1>4

\* What a request finds in its client q, counted.
Asking(p, q) ==
  /\ p.lzb # "ws" /\ p.op = "none" /\ p.fileid = 0 /\ p.pfds[1] = 0 /\ p.ws = 0 /\ Live(p)
  /\ q \in Client /\ q.st = "ss_recv_header" /\ q.ops # 0 /\ q.fd = p.fd
  /\ q.fileid = 0 /\ q.pfds = p.pfds /\ q.lzb = p.lzb /\ q.ws = 0 /\ q.op = "none"

LEMMA AskingLemma ==
  ASSUME IInv, NEW c \in Clients, cl[c].st = "ss_recv_header", cl[c].count < MaxRequests,
         NEW refused \in BOOLEAN
  PROVE  Asking(cl[c], Counted(cl[c], refused))
<1> DEFINE p == cl[c]
           q == Counted(p, refused)
<1>1. p \in Client /\ Shape(p) /\ p.st = "ss_recv_header" /\ p.count < MaxRequests
  BY ClientsLemma
<1>2. /\ p.lzb # "ws" /\ p.ops # 0 /\ p.fileid = 0 /\ p.pfds[1] = 0 /\ p.op = "none"
      /\ p.ws = 0 /\ Live(p)
  BY <1>1 DEF Shape, Unserved, Awaiting, Ending, Live
<1>3. /\ q \in Client /\ q.ops # 0 /\ q.st = p.st /\ q.fd = p.fd /\ q.fileid = p.fileid
      /\ q.pfds = p.pfds /\ q.lzb = p.lzb /\ q.ws = p.ws /\ q.op = p.op
  BY <1>1, <1>2, CountedLemma
<1> HIDE DEF q
<1> QED
  BY <1>1, <1>2, <1>3 DEF Asking, q

\* The handlers that only move on, or leave something open.
Answered(c, q, o) ==
  /\ o \in Client /\ Shape(o) /\ Live(o) /\ o.st \notin Sending
  /\ o.fd = cl[c].fd /\ o.fileid = cl[c].fileid /\ o.ws = cl[c].ws /\ o.pfds = cl[c].pfds
  /\ o.lzb # "ws" /\ cl[c].lzb # "ws" /\ Live(cl[c])

LEMMA AnsweredLemma ==
  ASSUME NEW c \in Clients, NEW q, Asking(cl[c], q)
  PROVE  \A st \in {"ss_reparse", "ss_ws_open", "ss_readdir"} : \A lzb \in {"listing", q.lzb} :
           Answered(c, q, [q EXCEPT !.lzb = lzb, !.st = st])
<1> SUFFICES ASSUME NEW st \in {"ss_reparse", "ss_ws_open", "ss_readdir"},
                    NEW lzb \in {"listing", q.lzb}
             PROVE  Answered(c, q, [q EXCEPT !.lzb = lzb, !.st = st])
  OBVIOUS
<1> DEFINE p == cl[c]
           o == [q EXCEPT !.lzb = lzb, !.st = st]
<1>1. /\ o.st = st /\ o.lzb = lzb /\ o.ops # 0 /\ o.fileid = 0 /\ o.pfds = p.pfds
      /\ o.op = "none" /\ o.ws = 0 /\ o.fd = p.fd
  BY DEF Asking, Client
<1>2. o \in Client
  BY DEF Asking, Client, States
<1>3. p.fileid = 0 /\ p.ws = 0 /\ p.pfds[1] = 0 /\ p.lzb # "ws" /\ Live(p) /\ q.lzb = p.lzb
  BY DEF Asking
<1> HIDE DEF o
<1>4. Shape(o) /\ Live(o) /\ o.st \notin Sending /\ o.lzb # "ws"
  BY <1>1, <1>3 DEF Shape, Live, Unserved, Sending, Awaiting, Ending
<1>5. Answered(c, q, o)
  BY <1>1, <1>2, <1>3, <1>4 DEF Answered
<1> QED
  BY <1>5 DEF o

LEMMA HeadStep ==
  ASSUME IInv, NEW c \in Clients, NEW q, Asking(cl[c], q), ~Full, Opens(Left),
         Next1(c, Unanswered(q))
  PROVE  IInv'
<1> DEFINE p == cl[c]
           st == IF q.ops = 1 THEN "idle" ELSE q.st
           k == q.ops - 1
           o == [q EXCEPT !.st = st, !.ops = k]
<1>1. Unanswered(q) = o
  BY DEF Unanswered
<1>2. q \in Client /\ q.ops # 0 /\ q.st = "ss_recv_header" /\ q.ops \in Nat
  BY DEF Asking, Client
<1>3. k \in Nat /\ st \in {"idle", "ss_recv_header"} /\ (st = "ss_recv_header" => k # 0)
  BY <1>2
<1>4. st \in States
  BY <1>3 DEF States
<1> HIDE DEF k, st
<1>5. o \in Client
  BY <1>2, <1>3, <1>4, Zenon DEF Client
<1>6. /\ o.st = st /\ o.ops = k /\ o.fd = q.fd /\ o.fileid = q.fileid /\ o.ws = q.ws
      /\ o.pfds = q.pfds /\ o.lzb = q.lzb /\ o.op = q.op
  BY <1>2 DEF Client
<1>7. Next1(c, o)
  BY <1>1
<1> HIDE DEF o
<1>8. /\ p.lzb # "ws" /\ Live(p) /\ o.fd = p.fd /\ o.fileid = p.fileid /\ o.ws = p.ws
      /\ o.pfds = p.pfds /\ o.lzb # "ws" /\ o.op = "none" /\ o.ws = 0 /\ o.fileid = 0
      /\ o.pfds[1] = 0
  BY <1>6 DEF Asking
<1>9. Shape(o) /\ Live(o) /\ o.st \notin Sending
  BY <1>3, <1>6, <1>8 DEF Shape, Live, Unserved, Sending, Awaiting, Ending
<1> QED
  BY <1>5, <1>7, <1>8, <1>9, Leaking

LEMMA FileStep ==
  ASSUME IInv, NEW c \in Clients, NEW q, Asking(cl[c], q), ~Full, Opens(Of("file", c)),
         NEW size \in BOOLEAN, NEW left \in {"unread", "read"},
         Next1(c, [q EXCEPT !.st = "ss_responce_file", !.fileid = Lowest(table),
                            !.size = size, !.left = left])
  PROVE  IInv'
<1> DEFINE p == cl[c]
           n == Lowest(table)
           o == [q EXCEPT !.st = "ss_responce_file", !.fileid = n, !.size = size,
                          !.left = left]
<1>1. past = {} => Owns(c, p, table) /\ table[0] = Standard
  BY ClientsLemma
<1>2. /\ q \in Client /\ q.ops # 0 /\ q.pfds = p.pfds /\ q.fd = p.fd /\ q.lzb = p.lzb
      /\ q.op = "none" /\ q.ws = 0 /\ p.lzb # "ws" /\ p.ws = 0 /\ p.fileid = 0
      /\ p.pfds[1] = 0 /\ Live(p)
  BY DEF Asking
<1>3. Next1(c, o)
  OBVIOUS
<1>4. n \in Numbers /\ table'[n] = Of("file", c)
  BY OpensLemma
<1> HIDE DEF n
<1>5. /\ o.st = "ss_responce_file" /\ o.lzb = p.lzb /\ o.ops # 0 /\ o.fileid = n
      /\ o.pfds = p.pfds /\ o.op = "none" /\ o.ws = 0 /\ o.fd = p.fd
  BY <1>2 DEF Client
<1>6. o \in Client
  <2>1. left \in {"unread", "reading", "read"} /\ "ss_responce_file" \in States
    BY DEF States
  <2> QED
    BY <1>2, <1>4, <2>1, Zenon DEF Client
<1> HIDE DEF o
<1>7. Shape(o) /\ Live(o) /\ o.lzb # "ws"
  BY <1>2, <1>5 DEF Shape, Live, Unserved, Sending, Awaiting, Ending
<1>8. past = {} => Owns(c, p, table')
  BY <1>1, ClientsLemma, OpensLemma, OwnsLemma
<1>9. past = {} => Owns(c, o, table')
  BY <1>2, <1>4, <1>5, <1>7, <1>8 DEF Owns
<1>10. past = {} => n # 0
  BY <1>1, LowestIsFree, KindsApart DEF Full, n
<1>11. Holds(p) \subseteq Holds(o) /\ (past = {} => n \in Holds(o))
  BY <1>2, <1>5, <1>7, <1>10 DEF Holds, Named, Pipes, Set
<1>12. Leaves(c, o) /\ UNCHANGED past /\ server' \in Servers /\ Of("file", c) \in Openable(c)
  BY <1>3, ClientsLemma DEF Next1, Kept, Openable
<1> QED
  BY <1>6, <1>7, <1>9, <1>11, <1>12, Opening DEF n

LEMMA RequestStep ==
  ASSUME IInv, NEW c \in Clients, NEW kind \in Kinds, NEW refused \in Refusals,
         Request(c, kind, refused)
  PROVE  IInv'
<1> DEFINE p == cl[c]
           q == Counted(p, refused)
<1>1. Asking(p, q)
  <2>1. refused \in BOOLEAN
    BY DescriptorsAssumption
  <2> QED
    BY <2>1, AskingLemma DEF Request, Completed
<1>2. \/ Next1(c, [q EXCEPT !.st = "ss_reparse"]) /\ UNCHANGED table
      \/ /\ \E numbers \in SUBSET Free(table) : StayOpen(numbers)
         /\ Next1(c, [q EXCEPT !.st = "ss_reparse"])
      \/ Next1(c, [q EXCEPT !.st = "ss_ws_open"]) /\ UNCHANGED table
      \/ /\ ~Full /\ Opens(Of("file", c))
         /\ \E size \in BOOLEAN, left \in {"unread", "read"} :
              Next1(c, [q EXCEPT !.st = "ss_responce_file", !.fileid = Lowest(table),
                                 !.size = size, !.left = left])
      \/ ~Full /\ Opens(Left) /\ Next1(c, Unanswered(q))
      \/ ~Full /\ Opens(Left) /\ Next1(c, [q EXCEPT !.st = "ss_reparse"])
      \/ /\ ~Full /\ Opens(Left)
         /\ \E st \in {"ss_readdir", "ss_reparse"} :
              Next1(c, [q EXCEPT !.lzb = "listing", !.st = st])
  <2>1. ASSUME Next1(c, [q EXCEPT !.lzb = "listing",
                             !.st = IF kind = "directory" THEN "ss_readdir" ELSE "ss_reparse"])
        PROVE  \E st \in {"ss_readdir", "ss_reparse"} :
                 Next1(c, [q EXCEPT !.lzb = "listing", !.st = st])
    <3>1. CASE kind = "directory"
      BY <2>1, <3>1, Zenon
    <3>2. CASE kind # "directory"
      BY <2>1, <3>2, Zenon
    <3> QED
      BY <3>1, <3>2
  <2>2. ASSUME NEW empty \in BOOLEAN,
               Next1(c, [q EXCEPT !.st = "ss_responce_file", !.fileid = Lowest(table),
                                  !.size = ~empty, !.left = IF empty THEN "read" ELSE "unread"])
        PROVE  \E size \in BOOLEAN, left \in {"unread", "read"} :
                 Next1(c, [q EXCEPT !.st = "ss_responce_file", !.fileid = Lowest(table),
                                    !.size = size, !.left = left])
    <3>1. CASE empty
      BY <2>2, <3>1, Zenon
    <3>2. CASE ~empty
      BY <2>2, <3>2, Zenon
    <3> QED
      BY <3>1, <3>2
  <2>3. (\E numbers \in (SUBSET Free(table)) \ {{}} : StayOpen(numbers)) =>
          \E numbers \in SUBSET Free(table) : StayOpen(numbers)
    OBVIOUS
  <2> HIDE DEF q
  <2> QED
    BY <2>1, <2>2, <2>3, Zenon DEF Request, q
<1> HIDE DEF q
<1>3. \A st : [q EXCEPT !.st = st] = [q EXCEPT !.lzb = q.lzb, !.st = st]
  BY <1>1 DEF Asking, Client
<1>4. \A st \in {"ss_reparse", "ss_ws_open", "ss_readdir"} : \A lzb \in {"listing", q.lzb} :
        Answered(c, q, [q EXCEPT !.lzb = lzb, !.st = st])
  BY <1>1, AnsweredLemma, Zenon
<1>5. ASSUME NEW o, Answered(c, q, o), Next1(c, o), UNCHANGED table
      PROVE  IInv'
  BY <1>5, MovingOn DEF Answered
<1>6. ASSUME NEW o, Answered(c, q, o), Next1(c, o), ~Full, Opens(Left)
      PROVE  IInv'
  BY <1>6, Leaking DEF Answered
<1>7. ASSUME NEW o, Answered(c, q, o), Next1(c, o),
             NEW numbers \in SUBSET Free(table), StayOpen(numbers)
      PROVE  IInv'
  BY <1>7, StayingOpen DEF Answered
<1>8. \A st \in {"ss_reparse", "ss_ws_open", "ss_readdir"} :
        Answered(c, q, [q EXCEPT !.st = st])
  BY <1>3, <1>4, Zenon
<1>9. CASE \/ Next1(c, [q EXCEPT !.st = "ss_reparse"]) /\ UNCHANGED table
           \/ /\ \E numbers \in SUBSET Free(table) : StayOpen(numbers)
              /\ Next1(c, [q EXCEPT !.st = "ss_reparse"])
           \/ Next1(c, [q EXCEPT !.st = "ss_ws_open"]) /\ UNCHANGED table
           \/ ~Full /\ Opens(Left) /\ Next1(c, [q EXCEPT !.st = "ss_reparse"])
  <2>1. /\ Answered(c, q, [q EXCEPT !.st = "ss_reparse"])
        /\ Answered(c, q, [q EXCEPT !.st = "ss_ws_open"])
    BY <1>8, Zenon
  <2> QED
    BY <1>5, <1>6, <1>7, <1>9, <2>1, Zenon
<1>10. CASE /\ ~Full /\ Opens(Left)
            /\ \E st \in {"ss_readdir", "ss_reparse"} :
                 Next1(c, [q EXCEPT !.lzb = "listing", !.st = st])
  <2>1. \A st \in {"ss_readdir", "ss_reparse"} :
          Answered(c, q, [q EXCEPT !.lzb = "listing", !.st = st])
    BY <1>4, Zenon
  <2> QED
    BY <1>6, <1>10, <2>1, Zenon
<1>11. CASE ~Full /\ Opens(Left) /\ Next1(c, Unanswered(q))
  BY <1>1, <1>11, HeadStep, Zenon
<1>12. CASE /\ ~Full /\ Opens(Of("file", c))
            /\ \E size \in BOOLEAN, left \in {"unread", "read"} :
                 Next1(c, [q EXCEPT !.st = "ss_responce_file", !.fileid = Lowest(table),
                                    !.size = size, !.left = left])
  BY <1>1, <1>12, FileStep, Zenon
<1> QED
  BY <1>2, <1>9, <1>10, <1>11, <1>12, Zenon

\* A step that only says the server is no longer what it was.
LEMMA ServerStops ==
  ASSUME IInv, UNCHANGED <<table, cl, past>>, server' \in Servers
  PROVE  IInv'
<1>1. TypeOK'
  BY DEF IInv, TypeOK, Servers
<1>2. Accounted' <=> Accounted
  BY DEF Accounted, Mine, Holds, Named, Live, Pipes, Set
<1> QED
  BY <1>1, <1>2 DEF IInv

\* The states Sent and a piece on its way leave a client in.
LEMMA SentLemma ==
  ASSUME NEW o \in Client
  PROVE  /\ Sent(o) \in Client
         /\ Sent(o).st = "ss_recv_header" /\ Sent(o).fileid = 0
         /\ Sent(o).pfds[1] = 0 /\ Sent(o).ops = o.ops /\ Sent(o).fd = o.fd
         /\ Sent(o).ws = o.ws /\ Sent(o).lzb = o.lzb /\ Sent(o).op = o.op
<1> DEFINE p == [o.pfds EXCEPT ![1] = 0]
<1>1. p \in Numbers \X Numbers /\ p[1] = 0
  BY NumbersAreNatural DEF Client
<1>2. Sent(o) = [o EXCEPT !.st = "ss_recv_header", !.fileid = 0, !.pfds = p]
  BY DEF Sent, Client
<1> HIDE DEF p
<1>3. 0 \in Numbers /\ "ss_recv_header" \in States /\ FALSE \in BOOLEAN
  BY NumbersAreNatural DEF States
<1>4. Sent(o) \in Client
  BY <1>1, <1>2, <1>3, Zenon DEF Client
<1>5. /\ Sent(o).st = "ss_recv_header" /\ Sent(o).fileid = 0 /\ Sent(o).pfds = p
      /\ Sent(o).ops = o.ops /\ Sent(o).fd = o.fd
      /\ Sent(o).ws = o.ws /\ Sent(o).lzb = o.lzb /\ Sent(o).op = o.op
  BY <1>2, Zenon DEF Client
<1> QED
  BY <1>1, <1>4, <1>5

\* The client sends its file from o, the table being t: its own, but for the pipe
\* the client may have opened first.
LEMMA SpliceStartStep ==
  ASSUME IInv, NEW c \in Clients, NEW o \in Client, NEW t \in Tables, SpliceStart(c, t, o),
         o.st = "ss_responce_file", cl[c].st = "ss_responce_file",
         o.fd = cl[c].fd, o.fileid = cl[c].fileid, o.ws = cl[c].ws, o.lzb = cl[c].lzb,
         o.ops = cl[c].ops, o.op = cl[c].op, Holds(cl[c]) \subseteq Holds(o),
         \A n \in Numbers :
           \/ t[n] = table[n]
           \/ /\ table[n] = Closed /\ t[n] = Of("pipe", c)
              /\ n \in {o.pfds[1], o.pfds[2]},
         past = {} => Owns(c, o, t) /\ o.pfds[1] # 0
  PROVE  /\ IInv'
         /\ past = {} => past' = {}
<1> DEFINE S == {o.pfds[1], o.pfds[2], o.fileid}
<1>1. /\ Shape(cl[c]) /\ server \in Servers /\ table \in Tables /\ past \subseteq Lines
      /\ past = {} => table[0] = Standard
  BY ClientsLemma
<1>2. o.lzb # "ws" /\ o.ws = 0 /\ o.op = "none" /\ o.ops # 0 /\ Live(o) /\ Live(cl[c])
  BY <1>1 DEF Shape, Awaiting, Sending, Ending, Live
<1>3. S \subseteq Numbers
  BY DEF Client
<1>4. past = {} => Own(c, t, S)
  <2>1. past = {} => \A n \in S : t[n] = Of("pipe", c) \/ t[n] = Of("file", c)
    BY <1>2 DEF Owns, Sending
  <2>2. "pipe" \in Kept /\ "file" \in Kept
    BY DEF Kept
  <2> QED
    BY <2>1, <2>2 DEF Own
<1>5. CASE server' = "aborted" /\ UNCHANGED <<table, cl, past>>
  BY <1>5, ServerStops DEF Servers
<1>6. CASE /\ UNCHANGED server
           /\ table' = Closing(t, S)
           /\ Leaves(c, Sent(o))
           /\ past' = past \cup Tells(c, t, "end", S)
  <2>1. table' = Closing(table, S)
    BY <1>6 DEF Closing
  <2>2. past' \subseteq Lines /\ past \subseteq past'
    <3>1. Tells(c, t, "end", S) \subseteq {"end"}
      BY TellsLine, Zenon
    <3> QED
      BY <1>1, <1>6, <3>1 DEF Lines
  <2>3. past = {} => past' = {}
    BY <1>4, <1>6, TellsOwn
  <2>4. Sent(o) \in Client /\ Shape(Sent(o)) /\ Live(Sent(o))
    BY <1>2, SentLemma DEF Shape, Unserved, Sending, Awaiting, Ending, Live
  <2>5. past = {} => Own(c, table, S)
    BY <1>3, <1>4 DEF Own
  <2>6. past = {} => Owns(c, Sent(o), table')
    <3>1. o.fd \in Numbers /\ (past = {} => t[o.fd] = Of("socket", c))
      BY <1>2 DEF Owns, Client
    <3>2. past = {} => o.fd \notin S
      <4>1. Of("socket", c) # Of("pipe", c) /\ Of("socket", c) # Of("file", c)
        BY DEF Of
      <4> QED
        BY <1>2, <3>1, <4>1 DEF Owns, Sending
    <3>3. past = {} => table'[o.fd] = Of("socket", c)
      BY <1>6, <3>1, <3>2 DEF Closing
    <3> QED
      BY <1>2, <3>3, SentLemma DEF Owns, Sending
  <2>7. Holds(cl[c]) \subseteq Holds(Sent(o)) \cup S
    BY <1>2, <2>4, SentLemma DEF Holds, Named, Set, Pipes
  <2> HIDE DEF S
  <2>8. past' = {} => past = {}
    BY <2>2
  <2> QED
    BY <1>1, <1>6, <2>1, <2>2, <2>3, <2>4, <2>5, <2>6, <2>7, <2>8, ClosingKeeps
<1>7. CASE /\ UNCHANGED <<server, past>>
           /\ table' = t
           /\ Leaves(c, [o EXCEPT !.st = "ss_responce_file2", !.left = "reading"])
  <2> DEFINE r == [o EXCEPT !.st = "ss_responce_file2", !.left = "reading"]
  <2>1. /\ r \in Client /\ r.st = "ss_responce_file2" /\ r.fd = o.fd /\ r.fileid = o.fileid
        /\ r.ws = o.ws /\ r.lzb = o.lzb /\ r.ops = o.ops /\ r.op = o.op /\ r.pfds = o.pfds
    BY DEF Client, States
  <2>2. Leaves(c, r)
    BY <1>7
  <2> HIDE DEF r
  <2>3. Shape(r) /\ Live(r)
    BY <1>2, <2>1 DEF Shape, Unserved, Sending, Awaiting, Ending, Live
  <2>4. ASSUME past = {}
        PROVE  Tidy(c, r)
    <3>1. table'[0] = Standard
      BY <1>1, <1>7, <2>4, KindsApart, NumbersAreNatural
    <3>2. Owns(c, r, table')
      BY <1>2, <1>7, <2>1, <2>4 DEF Owns, Sending
    <3>3. \A d \in Clients \ {c} : \A is \in Kept : \A n \in Numbers :
            table[n] = Of(is, d) => table'[n] = Of(is, d)
      BY <1>7, KindsApart
    <3>4. Holds(r) = Holds(o)
      BY <1>2, <2>1, <2>3 DEF Holds, Named, Pipes
    <3>5. \A n \in Numbers \ {0} : n \in {o.pfds[1], o.pfds[2]} => n \in Holds(o)
      BY <1>2, <2>4 DEF Holds, Named, Pipes
    <3>6. Of("pipe", c).of = c
      BY DEF Of
    <3> QED
      BY <1>7, <3>1, <3>2, <3>3, <3>4, <3>5, <3>6 DEF Tidy, Mine
  <2> QED
    BY <1>1, <1>7, <2>1, <2>2, <2>3, <2>4, LeavingKeeps
<1> HIDE DEF S
<1>8. \/ server' = "aborted" /\ UNCHANGED <<table, cl, past>>
      \/ /\ UNCHANGED server
         /\ table' = Closing(t, S)
         /\ Leaves(c, Sent(o))
         /\ past' = past \cup Tells(c, t, "end", S)
      \/ /\ UNCHANGED <<server, past>>
         /\ table' = t
         /\ Leaves(c, [o EXCEPT !.st = "ss_responce_file2", !.left = "reading"])
  BY DEF SpliceStart, S
<1> QED
  BY <1>5, <1>6, <1>7, <1>8


LEMMA SendFileStep ==
  ASSUME IInv, NEW c \in Clients, SendFile(c)
  PROVE  /\ IInv'
         /\ past = {} => past' = {}
<1> DEFINE p == cl[c]
<1>1. /\ p \in Client /\ Shape(p) /\ p.st = "ss_responce_file" /\ Live(p) /\ table \in Tables
      /\ past = {} => Owns(c, p, table) /\ table[0] = Standard
  BY ClientsLemma DEF SendFile, Completed, Live
<1>2. CASE Piped(p) /\ SpliceStart(c, table, p)
  BY <1>1, <1>2, SpliceStartStep DEF Piped
<1>3. CASE server' = "exited" /\ UNCHANGED <<table, cl, past>>
  BY <1>3, ServerStops DEF Servers
<1>4. CASE /\ ~Piped(p) /\ Cardinality(Free(table)) >= 2
           /\ SpliceStart(c, [table EXCEPT ![Pipe(table)[1]] = Of("pipe", c),
                                           ![Pipe(table)[2]] = Of("pipe", c)],
                          [p EXCEPT !.pfds = Pipe(table)])
  <2> DEFINE f == Pipe(table)
             t == [table EXCEPT ![f[1]] = Of("pipe", c), ![f[2]] = Of("pipe", c)]
             o == [p EXCEPT !.pfds = f]
  <2>1. f \in Numbers \X Numbers /\ table[f[1]] = Closed /\ table[f[2]] = Closed
    BY <1>4, PipeIsFree
  <2>2. SpliceStart(c, t, o) /\ p.pfds[1] = 0
    BY <1>4 DEF Piped
  <2> HIDE DEF f
  <2>3. Of("pipe", c) \in Description
    BY DescriptionsLemma DEF Kept
  <2>4. t \in Tables /\ t[f[1]] = Of("pipe", c) /\ t[f[2]] = Of("pipe", c)
    BY <1>1, <2>1, <2>3 DEF Tables
  <2>5. \A n \in Numbers \ {f[1], f[2]} : t[n] = table[n]
    BY <1>1, <2>1 DEF Tables
  <2>6. /\ o \in Client /\ o.pfds = f /\ o.st = p.st /\ o.fd = p.fd /\ o.fileid = p.fileid
        /\ o.ws = p.ws /\ o.lzb = p.lzb /\ o.ops = p.ops /\ o.op = p.op
    BY <1>1, <2>1 DEF Client
  <2> HIDE DEF t, o
  <2>7. \A n \in Numbers : \A is \in Kept : table[n] = Of(is, c) => t[n] = Of(is, c)
    BY <2>1, <2>5, KindsApart
  <2>8. past = {} => Owns(c, p, t)
    BY <1>1, <2>7, OwnsLemma
  <2>9. past = {} => Owns(c, o, t) /\ f[1] # 0
    BY <1>1, <2>1, <2>4, <2>6, <2>8, KindsApart DEF Owns
  <2>10. Holds(p) \subseteq Holds(o)
    BY <1>1, <2>2, <2>6 DEF Holds, Named, Pipes, Live
  <2>11. \A n \in Numbers :
           \/ t[n] = table[n]
           \/ /\ table[n] = Closed /\ t[n] = Of("pipe", c)
              /\ n \in {o.pfds[1], o.pfds[2]}
    BY <2>1, <2>4, <2>5, <2>6
  <2> QED
    BY <1>1, <2>2, <2>4, <2>6, <2>9, <2>10, <2>11, SpliceStartStep
<1> QED
  BY <1>2, <1>3, <1>4, Zenon DEF SendFile

LEMMA SplicedStep ==
  ASSUME IInv, NEW c \in Clients, Spliced(c)
  PROVE  IInv'
<1> DEFINE p == cl[c]
<1>0. PICK left \in {"reading", "read"} :
        Next1(c, [p EXCEPT !.st = "ss_responce_file", !.left = left])
  BY DEF Spliced
<1> DEFINE o == [p EXCEPT !.st = "ss_responce_file", !.left = left]
<1>1. p \in Client /\ Shape(p) /\ p.st = "ss_responce_file2" /\ Next1(c, o) /\ UNCHANGED table
  BY <1>0, ClientsLemma DEF Spliced, Completed
<1>2. /\ o \in Client /\ o.st = "ss_responce_file" /\ o.fd = p.fd /\ o.fileid = p.fileid
      /\ o.ws = p.ws /\ o.lzb = p.lzb /\ o.ops = p.ops /\ o.op = p.op /\ o.pfds = p.pfds
  <2>1. left \in {"unread", "reading", "read"}
    OBVIOUS
  <2>2. o \in Client
    BY <1>1, <2>1, Zenon DEF Client, States
  <2> QED
    BY <1>1, <2>2 DEF Client
<1> HIDE DEF o
<1>3. Shape(o) /\ Live(o) /\ Live(p) /\ p.st \in Sending
  BY <1>1, <1>2 DEF Shape, Unserved, Sending, Awaiting, Ending, Live
<1> QED
  BY <1>1, <1>2, <1>3, MovingOn

LEMMA ReadsLemma ==
  ASSUME NEW o \in Client, NEW t \in Tables
  PROVE  /\ Reads(o, t) \in Client /\ Reads(o, t).op = "read"
         /\ Reads(o, t).st = o.st /\ Reads(o, t).fd = o.fd /\ Reads(o, t).fileid = o.fileid
         /\ Reads(o, t).ws = o.ws /\ Reads(o, t).lzb = o.lzb /\ Reads(o, t).ops = o.ops
         /\ Reads(o, t).pfds = o.pfds /\ Reads(o, t).size = o.size
<1>1. t[o.ws] \in Description \cup {Closed}
  BY DEF Tables, Client
<1> QED
  BY <1>1 DEF Reads, Client

LEMMA OpenTerminalStep ==
  ASSUME IInv, NEW c \in Clients, OpenTerminal(c)
  PROVE  IInv'
<1> DEFINE p == cl[c]
           n == Lowest(table)
           q == [p EXCEPT !.st = "ws", !.fileid = n, !.ws = n, !.size = TRUE, !.lzb = "ws"]
           o == Reads(q, table')
<1>1. /\ p \in Client /\ Shape(p) /\ p.st = "ss_ws_open" /\ table \in Tables
      /\ past = {} => Owns(c, p, table) /\ table[0] = Standard
  BY ClientsLemma DEF OpenTerminal, Completed
<1>2. p.ops # 0 /\ p.fileid = 0 /\ p.pfds[1] = 0 /\ p.ws = 0 /\ Live(p)
  BY <1>1 DEF Shape, Unserved, Awaiting, Ending, Live
<1>3. ~Full /\ Opens(Of("pty", c)) /\ Next1(c, o)
  BY PipeIsFree DEF OpenTerminal, Full
<1>4. n \in Numbers /\ table'[n] = Of("pty", c)
  BY <1>3, OpensLemma
<1>5. table' \in Tables
  <2>1. Of("pty", c) \in Description
    BY DescriptionsLemma DEF Kept
  <2> QED
    BY <1>1, <1>3, <2>1 DEF Opens, Tables
<1>6. past = {} => n # 0
  BY <1>1, <1>3, LowestIsFree, KindsApart DEF Full
<1>7. past = {} => Owns(c, p, table')
  BY <1>1, <1>3, OpensLemma, OwnsLemma
<1> HIDE DEF n
<1>8. q \in Client
  BY <1>1, <1>4, Zenon DEF Client, States
<1>9. /\ q.st = "ws" /\ q.fileid = n /\ q.ws = n /\ q.size = TRUE /\ q.lzb = "ws"
      /\ q.fd = p.fd /\ q.ops = p.ops /\ q.pfds = p.pfds
  BY <1>1 DEF Client
<1> HIDE DEF q
<1>10. /\ o \in Client /\ o.op = "read" /\ o.st = "ws" /\ o.fileid = n /\ o.ws = n
       /\ o.size = TRUE /\ o.lzb = "ws" /\ o.fd = p.fd /\ o.ops # 0 /\ o.pfds = p.pfds
  BY <1>2, <1>5, <1>8, <1>9, ReadsLemma
<1> HIDE DEF o
<1>11. Shape(o) /\ Live(o)
  BY <1>10 DEF Shape, Unserved, Sending, Awaiting, Ending, Live
<1>12. past = {} => Owns(c, o, table')
  BY <1>2, <1>4, <1>7, <1>10, <1>11 DEF Owns
<1>13. Holds(p) \subseteq Holds(o) /\ (past = {} => n \in Holds(o))
  BY <1>2, <1>6, <1>10, <1>11 DEF Holds, Named, Pipes, Set
<1>14. Leaves(c, o) /\ UNCHANGED past /\ server' \in Servers /\ Of("pty", c) \in Openable(c)
  BY <1>3, ClientsLemma DEF Next1, Kept, Openable
<1> QED
  BY <1>3, <1>10, <1>11, <1>12, <1>13, <1>14, Opening DEF n

LEMMA TerminalStep ==
  ASSUME IInv, NEW c \in Clients, PtyRead(c) \/ WsSent(c)
  PROVE  IInv'
<1> DEFINE p == cl[c]
<1>1. p \in Client /\ Shape(p) /\ table \in Tables
  BY ClientsLemma
<1>2. PICK o \in Client :
        /\ Next1(c, o) /\ UNCHANGED table /\ p.op # "none" /\ o.st = p.st /\ o.fd = p.fd
        /\ o.fileid = p.fileid /\ o.ws = p.ws /\ o.lzb = p.lzb /\ o.ops = p.ops
        /\ o.pfds = p.pfds /\ o.size = p.size
  <2>1. CASE PtyRead(c)
    <3>1. PICK o : o = [p EXCEPT !.op = "send", !.on = Closed]
      OBVIOUS
    <3>2. /\ o \in Client /\ o.st = p.st /\ o.fd = p.fd
          /\ o.fileid = p.fileid /\ o.ws = p.ws /\ o.lzb = p.lzb /\ o.ops = p.ops
          /\ o.pfds = p.pfds /\ o.size = p.size
      BY <1>1, <3>1 DEF Client
    <3>3. Next1(c, o) /\ UNCHANGED table /\ p.op # "none"
      BY <2>1, <3>1 DEF PtyRead
    <3> QED
      BY <3>2, <3>3
  <2>2. CASE WsSent(c)
    <3>1. Next1(c, Reads(p, table)) /\ UNCHANGED table /\ p.op # "none"
      BY <2>2 DEF WsSent
    <3> QED
      BY <1>1, <3>1, ReadsLemma
  <2> QED
    BY <2>1, <2>2
<1>3. Shape(o) /\ Live(o) /\ Live(p) /\ o.st \notin Sending
  BY <1>1, <1>2 DEF Shape, Unserved, Sending, Awaiting, Ending, Live
<1> QED
  BY <1>2, <1>3, MovingOn


LEMMA ShutEndingLemma ==
  ASSUME NEW o \in Client, o.st \in Ending, o.st = "ss_shutdown" => o.ops # 0
  PROVE  /\ Shut(o) \in Client /\ Shut(o).st \in {"ss_shutdown", "stranded"}
         /\ Shut(o).st = "ss_shutdown" => Shut(o).ops # 0
         /\ Shut(o).fd = o.fd /\ Shut(o).fileid = o.fileid /\ Shut(o).ws = o.ws
         /\ Shut(o).pfds = o.pfds /\ Shut(o).size = o.size /\ Shut(o).lzb = o.lzb
         /\ Shut(o).op = o.op
<1>1. CASE o.st = "ws"
  <2>1. o.st \notin {"ss_shutdown", "stranded"} /\ o.ops + 1 # 0
    BY <1>1 DEF Client
  <2> QED
    BY <2>1, ShutLemma
<1>2. CASE o.st # "ws"
  <2>1. o.st \in {"ss_shutdown", "stranded"}
    BY <1>2 DEF Ending
  <2> QED
    BY <2>1, ShutLemma
<1> QED
  BY <1>1, <1>2

\* A terminal's client c, its operation failed or over, is shut down; ws is what is
\* left of its number.
LEMMA OverLemma ==
  ASSUME IInv, NEW c \in Clients, cl[c].op # "none", NEW ws \in {0, cl[c].ws},
         NEW o, o = Shut([cl[c] EXCEPT !.op = "none", !.on = Closed, !.ws = ws])
  PROVE  /\ o \in Client /\ Shape(o) /\ Live(o) /\ Live(cl[c])
         /\ o.fd = cl[c].fd /\ o.fileid = cl[c].fileid /\ o.ws = ws /\ o.lzb = "ws"
         /\ o.pfds = cl[c].pfds /\ o.st \notin Sending
<1> DEFINE p == cl[c]
           q == [p EXCEPT !.op = "none", !.on = Closed, !.ws = ws]
<1>1. /\ p \in Client /\ Shape(p) /\ p.op # "none" /\ p.lzb = "ws" /\ p.st \in Ending
      /\ Live(p) /\ p.size
  BY ClientsLemma DEF Shape, Ending, Live
<1>2. ws \in Numbers
  BY <1>1, NumbersAreNatural DEF Client
<1>3. /\ q \in Client /\ q.op = "none" /\ q.ws = ws /\ q.st = p.st /\ q.ops = p.ops
      /\ q.fd = p.fd /\ q.fileid = p.fileid /\ q.pfds = p.pfds /\ q.lzb = p.lzb
      /\ q.size = p.size
  BY <1>1, <1>2 DEF Client
<1>4. o = Shut(q)
  OBVIOUS
<1> HIDE DEF q
<1>5. /\ q.st \in Ending
      /\ q.st = "ss_shutdown" => q.ops # 0
  BY <1>1, <1>3 DEF Shape, Awaiting
<1>6. /\ Shut(q) \in Client /\ Shut(q).st \in {"ss_shutdown", "stranded"}
      /\ Shut(q).st = "ss_shutdown" => Shut(q).ops # 0
      /\ Shut(q).fd = q.fd /\ Shut(q).fileid = q.fileid /\ Shut(q).ws = q.ws
      /\ Shut(q).pfds = q.pfds /\ Shut(q).size = q.size /\ Shut(q).lzb = q.lzb
      /\ Shut(q).op = q.op
  BY <1>3, <1>5, ShutEndingLemma
<1>7. /\ o \in Client /\ o.st \in {"ss_shutdown", "stranded"}
      /\ o.st = "ss_shutdown" => o.ops # 0
      /\ o.fd = p.fd /\ o.fileid = p.fileid /\ o.ws = ws /\ o.pfds = p.pfds
      /\ o.size = p.size /\ o.lzb = "ws" /\ o.op = "none"
  BY <1>1, <1>3, <1>4, <1>6
<1>8. Shape(o) /\ Live(o) /\ o.st \notin Sending
  BY <1>1, <1>7 DEF Shape, Unserved, Sending, Awaiting, Ending, Live
<1> QED
  BY <1>1, <1>7, <1>8

LEMMA WsFailsStep ==
  ASSUME IInv, NEW c \in Clients, WsFails(c)
  PROVE  IInv'
<1> DEFINE p == cl[c]
<1>1. PICK o : o = Shut([p EXCEPT !.op = "none", !.on = Closed])
  OBVIOUS
<1>2. Next1(c, o) /\ UNCHANGED table /\ p.op # "none"
  BY <1>1 DEF WsFails
<1>3. o = Shut([p EXCEPT !.op = "none", !.on = Closed, !.ws = p.ws])
  <2>1. [p EXCEPT !.op = "none", !.on = Closed]
          = [p EXCEPT !.op = "none", !.on = Closed, !.ws = p.ws]
    BY ClientsLemma DEF Client
  <2> QED
    BY <1>1, <2>1
<1>4. /\ o \in Client /\ Shape(o) /\ Live(o) /\ Live(p)
      /\ o.fd = p.fd /\ o.fileid = p.fileid /\ o.ws = p.ws /\ o.lzb = "ws"
      /\ o.pfds = p.pfds /\ o.st \notin Sending
  <2>1. p.ws \in {0, p.ws}
    OBVIOUS
  <2> QED
    BY <1>2, <1>3, <2>1, OverLemma, Zenon
<1>5. p.lzb = "ws"
  BY <1>2, ClientsLemma DEF Shape
<1> QED
  BY <1>2, <1>4, <1>5, MovingOn

LEMMA HangUpStep ==
  ASSUME IInv, NEW c \in Clients, HangUp(c)
  PROVE  /\ IInv'
         /\ past = {} => past' \subseteq {"EIO"}
<1> DEFINE p == cl[c]
           S == {p.ws}
<1>1. PICK o : o = Shut([p EXCEPT !.op = "none", !.on = Closed, !.ws = 0])
  OBVIOUS
<1>2. /\ table' = Closing(table, S) /\ past' = past \cup Tells(c, table, "EIO", S)
      /\ Leaves(c, o) /\ UNCHANGED server /\ p.op # "none"
  BY <1>1 DEF HangUp
<1> HIDE DEF S
<1>3. /\ o \in Client /\ Shape(o) /\ Live(o) /\ Live(p)
      /\ o.fd = p.fd /\ o.fileid = p.fileid /\ o.ws = 0 /\ o.lzb = "ws"
      /\ o.pfds = p.pfds /\ o.st \notin Sending
  <2>1. 0 \in {0, p.ws}
    OBVIOUS
  <2> QED
    BY <1>1, <1>2, <2>1, OverLemma, Zenon
<1>4. /\ p \in Client /\ Shape(p) /\ table \in Tables /\ past \subseteq Lines
      /\ server \in Servers
      /\ past = {} => Owns(c, p, table) /\ table[0] = Standard
  BY ClientsLemma
<1>5. Tells(c, table, "EIO", S) \subseteq {"EIO"}
  BY TellsLine, Zenon
<1>6. past' \subseteq Lines /\ past \subseteq past' /\ (past = {} => past' \subseteq {"EIO"})
  BY <1>2, <1>4, <1>5 DEF Lines
<1>7. past' = {} => Own(c, table, S)
  <2>1. past' = {} => Tells(c, table, "EIO", S) = {}
    BY <1>2
  <2> QED
    BY <2>1, TellsOwn, Zenon
<1>8. past' = {} => Owns(c, o, table')
  <2>1. p.fd \in Numbers /\ p.pfds[1] \in Numbers /\ p.pfds[2] \in Numbers
    BY <1>4 DEF Client
  <2>2. past' = {} => p.ws # 0
    BY <1>4, <1>6, <1>7, KindsApart DEF S, Own
  <2>3. past' = {} => table[p.ws] = Of("pty", c)
    BY <1>3, <1>4, <1>6, <2>2 DEF Owns
  <2>4. Of("socket", c) # Of("pty", c) /\ Of("pipe", c) # Of("pty", c)
    BY DEF Of
  <2>5. past' = {} => table'[p.fd] = Of("socket", c)
    BY <1>2, <1>3, <1>4, <1>6, <2>1, <2>3, <2>4 DEF Owns, Closing, S
  <2>6. past' = {} /\ p.pfds[1] # 0 =>
          table'[p.pfds[1]] = Of("pipe", c) /\ table'[p.pfds[2]] = Of("pipe", c)
    BY <1>2, <1>3, <1>4, <1>6, <2>1, <2>3, <2>4 DEF Owns, Closing, S
  <2> QED
    BY <1>3, <2>5, <2>6 DEF Owns
<1>9. Holds(p) \subseteq Holds(o) \cup S
  BY <1>3 DEF Holds, Named, Pipes, Set, S
<1> QED
  BY <1>2, <1>3, <1>4, <1>6, <1>7, <1>8, <1>9, ClosingKeeps


\* A drained client o is released: whatever it closes is its own, but for the fileid
\* of a terminal whose pty has been closed.
LEMMA ReleasedStep ==
  ASSUME IInv, NEW c \in Clients, NEW o \in Client, Released(c, o), UNCHANGED server,
         Live(o), cl[c].st = "ss_shutdown", o.st = "ss_shutdown",
         o.fd = cl[c].fd, o.fileid = cl[c].fileid, o.ws = cl[c].ws, o.lzb = cl[c].lzb,
         o.op = cl[c].op, o.size = cl[c].size, o.pfds = cl[c].pfds
  PROVE  /\ IInv'
         /\ past = {} => past' \subseteq {"fileid"}
<1> DEFINE p == cl[c]
<1>1. /\ p \in Client /\ Shape(p) /\ table \in Tables /\ past \subseteq Lines
      /\ server' \in Servers
      /\ past = {} => Owns(c, p, table) /\ table[0] = Standard
  BY ClientsLemma
<1>2. /\ o.op # "none" => o.lzb = "ws"
      /\ o.lzb = "ws" => o.size /\ o.ws \in {0, o.fileid}
      /\ o.ws # 0 => o.lzb = "ws"
      /\ past = {} => Owns(c, o, table)
  BY <1>1 DEF Shape, Owns, Sending, Live
<1>3. /\ o.fd \in Numbers /\ o.fileid \in Numbers /\ o.ws \in Numbers
      /\ o.pfds[1] \in Numbers /\ o.pfds[2] \in Numbers
  BY DEF Client
<1>4. Holds(p) = Holds(o)
  BY DEF Holds, Live, Named, Pipes
<1>5. "socket" \in Kept /\ "file" \in Kept /\ "pipe" \in Kept /\ "pty" \in Kept
  BY DEF Kept
<1>6. past = {} => \A n \in Pty(o) \cup Pipes(o) \cup {o.fd} :
                     table[n] \in {Of(is, c) : is \in Kept}
  BY <1>2, <1>5 DEF Owns, Pty, Pipes, Set
<1>7. CASE o.lzb = "ws" /\ o.op # "none" /\ Waits(c, o)
  <2> DEFINE S == Pty(o)
             r == [o EXCEPT !.st = "stranded", !.ws = 0]
  <2>1. /\ table' = Closing(table, S) /\ past' = past \cup Tells(c, table, "rest", S)
        /\ Leaves(c, r)
    BY <1>7 DEF Waits
  <2>2. /\ r \in Client /\ r.st = "stranded" /\ r.ws = 0 /\ r.fd = o.fd /\ r.lzb = o.lzb
        /\ r.fileid = o.fileid /\ r.op = o.op /\ r.size = o.size /\ r.pfds = o.pfds
    BY NumbersAreNatural DEF Client, States
  <2> HIDE DEF S, r
  <2>3. Tells(c, table, "rest", S) \subseteq {"rest"}
    BY TellsLine, Zenon
  <2>4. past' \subseteq Lines /\ past \subseteq past'
    BY <1>1, <2>1, <2>3 DEF Lines
  <2>5. past = {} => Own(c, table, S)
    BY <1>6 DEF S, Own
  <2>6. past = {} => past' = {}
    <3>1. past = {} => Tells(c, table, "rest", S) = {}
      BY <2>5, TellsOwn, Zenon
    <3> QED
      BY <2>1, <3>1
  <2>7. Shape(r) /\ Live(r)
    BY <1>2, <1>7, <2>2 DEF Shape, Unserved, Sending, Awaiting, Ending, Live
  <2>8. past = {} => Owns(c, r, table')
    <3>1. Of("socket", c) # Of("pty", c) /\ Of("pipe", c) # Of("pty", c)
      BY DEF Of
    <3>2. past = {} => \A n \in S : table[n] = Of("pty", c)
      BY <1>2 DEF Owns, Pty, Set, S
    <3>3. past = {} => table'[o.fd] = Of("socket", c)
      BY <1>2, <1>3, <2>1, <3>1, <3>2 DEF Owns, Closing
    <3>4. past = {} /\ o.pfds[1] # 0 =>
            table'[o.pfds[1]] = Of("pipe", c) /\ table'[o.pfds[2]] = Of("pipe", c)
      BY <1>2, <1>3, <2>1, <3>1, <3>2 DEF Owns, Closing
    <3> QED
      BY <1>7, <2>2, <3>3, <3>4 DEF Owns
  <2>9. Holds(p) \subseteq Holds(r) \cup S
    BY <1>2, <1>4, <1>7, <2>2, <2>7 DEF Holds, Named, Pipes, Set, Pty, S
  <2>10. past' = {} => past = {}
    BY <2>4
  <2>11. IInv'
    BY <1>1, <2>1, <2>2, <2>4, <2>5, <2>7, <2>8, <2>9, <2>10, ClosingKeeps
  <2> QED
    BY <2>6, <2>11
<1>8. CASE ~(o.lzb = "ws" /\ o.op # "none") /\ o.lzb = "listing" /\ Mistaken(c, o)
  <2> DEFINE r == [o EXCEPT !.st = "stranded"]
  <2>1. UNCHANGED <<table, past>> /\ Leaves(c, r)
    BY <1>8 DEF Mistaken
  <2>2. /\ r \in Client /\ r.st = "stranded" /\ r.ws = o.ws /\ r.fd = o.fd /\ r.lzb = o.lzb
        /\ r.fileid = o.fileid /\ r.op = o.op /\ r.size = o.size /\ r.pfds = o.pfds
    BY DEF Client, States
  <2> HIDE DEF r
  <2>3. Shape(r) /\ Live(r) /\ r.st \notin Sending
    BY <1>2, <1>8, <2>2 DEF Shape, Unserved, Sending, Awaiting, Ending, Live
  <2>4. past = {} => Owns(c, r, table)
    BY <1>2, <2>2, <2>3 DEF Owns
  <2>5. Holds(p) \subseteq Holds(r)
    BY <1>4, <2>2, <2>3 DEF Holds, Named, Pipes
  <2>6. IInv'
    BY <1>1, <2>1, <2>2, <2>3, <2>4, <2>5, TableStays
  <2> QED
    BY <2>1, <2>6
<1>9. CASE ~(o.lzb = "ws" /\ o.op # "none") /\ FreeClient(c, o)
  <2> DEFINE S == Pty(o) \cup Pipes(o) \cup Set({o.fileid}) \cup {o.fd}
             A == Set({o.fileid})
             B == Pty(o) \cup Pipes(o) \cup {o.fd}
             r == Freed
  <2>1. /\ table' = Closing(table, S)
        /\ past' = past \cup Tells(c, table, Line(o), A) \cup Tells(c, table, "rest", B)
        /\ Leaves(c, r)
    BY <1>9 DEF FreeClient
  <2>2. /\ r \in Client /\ r.st = "freed" /\ r.ws = 0 /\ r.lzb = "null" /\ r.op = "none"
    BY NewLemma DEF Freed, New
  <2>3. S = A \cup B
    OBVIOUS
  <2>4. past = {} => Own(c, table, B)
    BY <1>6 DEF Own
  <2>5. past = {} /\ ~(o.lzb = "ws" /\ o.ws = 0) => Own(c, table, A)
    BY <1>2, <1>5 DEF Owns, Set, Own
  <2>6. Holds(p) \subseteq S
    BY <1>2, <1>4 DEF Holds, Named, Pipes, Set, Pty
  <2> HIDE DEF S, A, B, r
  <2>7. /\ Tells(c, table, "rest", B) \subseteq {"rest"}
        /\ Tells(c, table, Line(o), A) \subseteq {Line(o)}
    BY TellsLine, Zenon
  <2>8. Line(o) \in {"fileid", "rest"}
    BY DEF Line
  <2>9. past' \subseteq Lines /\ past \subseteq past'
    BY <1>1, <2>1, <2>7, <2>8 DEF Lines
  <2>10. past = {} => Tells(c, table, "rest", B) = {}
    BY <2>4, TellsOwn, Zenon
  <2>11. past = {} => Tells(c, table, Line(o), A) \subseteq {"fileid"}
    <3>1. CASE o.lzb = "ws" /\ o.ws = 0
      BY <2>7, <3>1 DEF Line
    <3>2. CASE ~(o.lzb = "ws" /\ o.ws = 0)
      <4>1. past = {} => Tells(c, table, Line(o), A) = {}
        BY <2>5, <3>2, TellsOwn, Zenon
      <4> QED
        BY <4>1
    <3> QED
      BY <3>1, <3>2
  <2>12. past = {} => past' \subseteq {"fileid"}
    BY <2>1, <2>10, <2>11
  <2>13. past' = {} => Own(c, table, S)
    <3>1. past' = {} => past = {} /\ Tells(c, table, Line(o), A) = {}
      BY <2>1
    <3>2. past' = {} => Own(c, table, A)
      BY <3>1, TellsOwn, Zenon
    <3> QED
      BY <2>3, <2>4, <3>1, <3>2 DEF Own
  <2>14. Shape(r) /\ ~Live(r)
    BY <1>2, <1>9, <2>2 DEF Shape, Unserved, Sending, Awaiting, Ending, Live
  <2>15. Owns(c, r, table')
    BY <2>14 DEF Owns
  <2>16. Holds(p) \subseteq Holds(r) \cup S
    BY <2>6
  <2>17. IInv'
    BY <1>1, <2>1, <2>2, <2>9, <2>13, <2>14, <2>15, <2>16, ClosingKeeps
  <2> QED
    BY <2>12, <2>17
<1> QED
  BY <1>7, <1>8, <1>9 DEF Released

LEMMA DrainsStep ==
  ASSUME IInv, NEW c \in Clients, Drains(c)
  PROVE  /\ IInv'
         /\ past = {} => past' \subseteq {"fileid"}
<1> DEFINE p == cl[c]
           n == p.ops - 1
           o == [p EXCEPT !.ops = n]
<1>1. p \in Client /\ Shape(p) /\ p.st = "ss_shutdown"
  BY ClientsLemma DEF Drains
<1>2. n \in Nat /\ (n > 0 => n # 0)
  BY <1>1 DEF Shape, Client
<1>3. UNCHANGED server /\ IF o.ops > 0 THEN Leaves(c, o) /\ UNCHANGED <<table, past>>
                          ELSE Released(c, o)
  BY DEF Drains
<1> HIDE DEF n
<1>4. /\ o \in Client /\ o.ops = n /\ o.st = "ss_shutdown" /\ o.fd = p.fd /\ o.ws = p.ws
      /\ o.fileid = p.fileid /\ o.lzb = p.lzb /\ o.op = p.op /\ o.size = p.size
      /\ o.pfds = p.pfds
  <2> QED
    BY <1>1, <1>2 DEF Client
<1> HIDE DEF o
<1>5. Live(o) /\ Live(p) /\ o.st \notin Sending
  BY <1>1, <1>4 DEF Live, Sending
<1>6. CASE o.ops > 0
  <2>1. Shape(o)
    BY <1>1, <1>2, <1>4, <1>6 DEF Shape, Unserved, Sending, Awaiting, Ending
  <2>2. Next1(c, o) /\ UNCHANGED <<table, past>>
    BY <1>3, <1>6 DEF Next1
  <2>3. IInv'
    BY <1>4, <1>5, <2>1, <2>2, MovingOn
  <2> QED
    BY <2>2, <2>3
<1>7. CASE ~(o.ops > 0)
  BY <1>1, <1>3, <1>4, <1>5, <1>7, ReleasedStep
<1> QED
  BY <1>6, <1>7

(***************************************************************************)
(* The theorems                                                            *)
(***************************************************************************)
LEMMA InitIInv ==
  Init => IInv
<1> SUFFICES ASSUME Init PROVE IInv
  OBVIOUS
<1>1. New \in Client /\ Shape(New) /\ \A c : Owns(c, New, table)
  BY NewLemma DEF New, Shape, Owns, Live, Unserved, Sending, Awaiting, Ending
<1>2. table \in Tables /\ table[0] = Standard /\ \A n \in Numbers \ {0} : table[n] = Closed
  BY NumbersAreNatural, DescriptionsLemma DEF Init, Tables, Standard
<1>3. TypeOK
  BY <1>1, <1>2 DEF Init, TypeOK, Tables
<1>4. Accounted
  BY <1>2 DEF Accounted
<1> QED
  BY <1>1, <1>2, <1>3, <1>4 DEF Init, IInv

\* Only the lines that close numbers can tell that they closed what was another's.
LEMMA StepIInv ==
  ASSUME IInv, [Next]_vars
  PROVE  /\ IInv'
         /\ past = {} => past' \subseteq {"EIO", "fileid"}
<1>1. CASE AcceptFails
  BY <1>1, ServerStops DEF AcceptFails, Servers
<1>2. CASE UNCHANGED vars
  <2>1. server' \in Servers
    BY <1>2 DEF IInv, TypeOK, Servers, vars
  <2> QED
    BY <1>2, <2>1, ServerStops DEF vars
<1>3. ASSUME NEW c \in Clients,
             \/ Accept(c) \/ Fails(c)
             \/ \E kind \in Kinds, refused \in Refusals : Request(c, kind, refused)
             \/ ReParse(c) \/ ReadDir(c) \/ ReParse2(c)
             \/ Spliced(c)
             \/ OpenTerminal(c) \/ ForkptyFails(c) \/ PtyRead(c) \/ WsSent(c) \/ WsFails(c)
      PROVE  IInv' /\ UNCHANGED past
  <2>1. IInv'
    BY <1>3, AcceptStep, FailsStep, RequestStep, ParsingStep, SplicedStep, OpenTerminalStep,
       ForkptyFailsStep, TerminalStep, WsFailsStep
  <2>2. UNCHANGED past
    BY <1>3 DEF Accept, Fails, Request, ReParse, ReadDir, ReParse2, Spliced, OpenTerminal,
       ForkptyFails, PtyRead, WsSent, WsFails, Next1
  <2> QED
    BY <2>1, <2>2
<1>4. ASSUME NEW c \in Clients, Drains(c) \/ SendFile(c) \/ HangUp(c)
      PROVE  IInv' /\ (past = {} => past' \subseteq {"EIO", "fileid"})
  BY <1>4, DrainsStep, SendFileStep, HangUpStep
<1> QED
  BY <1>1, <1>2, <1>3, <1>4 DEF Next, Ended

LEMMA Invariance ==
  Spec => []IInv
BY InitIInv, StepIInv, PTL DEF Spec

\* While no client has closed what was another's, the numbers that are open are those
\* that are kept, but for the leaks, and each is its keeper's.
THEOREM NumbersStayKept == Spec => []NumbersKept
<1>1. ASSUME IInv
      PROVE  NumbersKept
  <2>1. TypeOK
    BY <1>1 DEF IInv
  <2>2. ASSUME past = {}, NEW c \in Clients, NEW n \in Holds(cl[c])
        PROVE  \/ table[n].of = c /\ table[n] # Closed
               \/ n = cl[c].fileid /\ cl[c].lzb = "ws" /\ cl[c].ws = 0
    <3>1. Owns(c, cl[c], table) /\ Shape(cl[c])
      BY <1>1, <2>2, ClientsLemma
    <3>2. Live(cl[c]) /\ n \in Named(cl[c])
      BY <2>2 DEF Holds
    <3>3. \/ \E is \in Kept : table[n] = Of(is, c)
          \/ n = cl[c].fileid /\ cl[c].lzb = "ws" /\ cl[c].ws = 0
      BY <3>1, <3>2 DEF Owns, Shape, Named, Pipes, Set, Kept
    <3>4. \A is : Of(is, c).of = c
      BY DEF Of
    <3> QED
      BY <3>3, <3>4, KindsApart
  <2>3. \A c : Holds(cl[c]) = IF Connected(c) THEN Named(cl[c]) ELSE {}
    BY Zenon DEF Holds, Live, Connected
  <2>4. \A c : HeldBy(c) \subseteq Holds(cl[c])
    BY <2>3, Zenon DEF HeldBy
  <2>5. KeepsItsOwn
    BY <2>2, <2>4 DEF KeepsItsOwn
  <2>6. ASSUME past = {}, NEW n \in Numbers \ {0}, table[n] # Closed
        PROVE  Leaked(n) \/ \E c \in Clients : n \in HeldBy(c)
    <3>1. CASE table[n] = Left
      BY <3>1 DEF Leaked
    <3>2. ASSUME NEW c \in Clients, n \in Mine(c, cl[c], table)
          PROVE  Leaked(n) \/ n \in HeldBy(c)
      <4>1. n \in Named(cl[c]) /\ Connected(c) /\ table[n].of = c
        BY <2>3, <3>2 DEF Mine
      <4> QED
        BY <4>1 DEF Leaked, HeldBy
    <3> QED
      BY <1>1, <2>6, <3>1, <3>2 DEF IInv, Accounted
  <2> QED
    BY <2>1, <2>5, <2>6 DEF NumbersKept, OnlyNamedLeaks
<1> QED
  BY <1>1, Invariance, PTL

\* Two lines only can be the first to close what is another's: the one that closes the
\* pty at EIO, and the one that closes fileid.
THEOREM FirstStaleCloses == Spec => FirstStaleClose
<1>1. IInv /\ [Next]_vars => [past = {} => past' \subseteq {"EIO", "fileid"}]_vars
  BY StepIInv
<1> QED
  BY <1>1, Invariance, PTL DEF Spec, FirstStaleClose
=============================================================================
