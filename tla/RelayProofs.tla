----------------------------- MODULE RelayProofs -----------------------------
(***************************************************************************)
(* What the relays of both servers promise of a file's bytes, and what is  *)
(* asked for of one.                                                       *)
(*                                                                         *)
(* Windows: for every set of parts that are parts, every size of the       *)
(* buffer and of the word, the relay sends what was announced, in order,   *)
(* and implements Delivery.                                                *)
(*                                                                         *)
(* Linux: for files of any size and pieces of any, what is taken out of a  *)
(* file is sent or in the pipe; when no splice to the socket ends short    *)
(* the pipe is drained piece by piece, and the relay implements Delivery.  *)
(*                                                                         *)
(* Range headers: for texts and files of any length, a header is served as *)
(* it is meant, and none reaches out of the file.                          *)
(***************************************************************************)
EXTENDS MCFileRelay, SpliceRelay, SequenceTheorems, WellFoundedInduction, TLAPS

(***************************************************************************)
(* The Windows server                                                      *)
(***************************************************************************)
\* What the offset, the read in flight and the bytes sent have to do with each
\* other in each state.
IInv ==
  /\ part \in Parts
  /\ offset \in Nat /\ toRead \in Nat /\ got \in Nat
  /\ offset = part.first + got
  /\ offset <= part.stop
  /\ torn = FALSE
  /\ toRead <= BufSize
  /\ state \in {"ReadStaticFile", "SendPartFile", "LastSend", "done", "closed"}
  /\ state \in {"ReadStaticFile", "SendPartFile"} => offset < part.stop
  /\ state = "SendPartFile" => offset + toRead <= part.stop
  /\ state \in {"LastSend", "done"} => offset = part.stop

\* Below the word nothing wraps.
LEMMA NoWrap ==
  ASSUME NEW n \in Nat, NEW w \in Nat \ {0}, n < w
  PROVE  n % w = n
  OBVIOUS

\* A part asked for is one: numbers, in order, below the word.
LEMMA PartFacts ==
  ASSUME Ordered, NEW p \in Parts
  PROVE  /\ p.first \in Nat /\ p.stop \in Nat /\ p.size \in Nat
         /\ p.first < p.stop /\ p.stop <= p.size /\ p.size < Word
  BY RelayAssumption DEF Ordered

\* The initial states.
LEMMA InitInv == ASSUME Ordered, Init PROVE IInv
  BY PartFacts, RelayAssumption DEF Init, IInv

\* A read is asked for.
LEMMA ReadInv == ASSUME Ordered, IInv, ReadStaticFile PROVE IInv'
<1>1. /\ part.stop \in Nat /\ part.size \in Nat /\ part.stop <= part.size /\ part.size < Word
  BY PartFacts DEF IInv
<1>2. offset \in Nat /\ offset < part.stop
  BY DEF IInv, ReadStaticFile
<1>3. (part.stop - offset) % Word = part.stop - offset
  BY <1>1, <1>2, NoWrap, RelayAssumption
<1>4. /\ toRead' \in Nat /\ toRead' # 0 /\ toRead' <= BufSize
      /\ offset + toRead' <= part.stop
  BY <1>1, <1>2, <1>3, RelayAssumption DEF ReadStaticFile, Least
<1>5. state' = "SendPartFile"
  BY <1>1, <1>2, <1>4 DEF ReadStaticFile
<1> QED
  BY <1>1, <1>2, <1>4, <1>5 DEF IInv, ReadStaticFile

\* A piece is sent.
LEMMA SendInv == ASSUME Ordered, IInv, SendPartFile PROVE IInv'
<1>1. /\ part.first \in Nat /\ part.stop \in Nat /\ part.size \in Nat
      /\ part.stop <= part.size /\ part.size < Word
  BY PartFacts DEF IInv
<1>2. PICK n \in 1..Least(toRead, part.size - offset) :
        Sent(n) /\ offset' = (offset + n) % Word
  BY DEF SendPartFile
<1>3. /\ offset \in Nat /\ toRead \in Nat /\ got \in Nat /\ toRead <= BufSize
      /\ offset = part.first + got /\ offset + toRead <= part.stop
  BY DEF IInv, SendPartFile
<1>4. n \in Nat /\ n <= toRead
  BY <1>1, <1>2, <1>3 DEF Least
<1>5. offset' = offset + n
  <2>1. offset + n \in Nat /\ offset + n < Word
    BY <1>1, <1>3, <1>4, RelayAssumption
  <2> QED BY <1>2, <2>1, NoWrap, RelayAssumption
<1>6. got' = got + n /\ torn' = FALSE
  BY <1>2, <1>3 DEF Sent, IInv
<1> QED
  BY <1>1, <1>3, <1>4, <1>5, <1>6 DEF IInv, SendPartFile

\* Every other step, and none.
LEMMA OtherInv ==
  ASSUME IInv, RecvNextRequest \/ Abort \/ UNCHANGED vars
  PROVE  IInv'
<1>1. CASE RecvNextRequest BY <1>1 DEF IInv, RecvNextRequest
<1>2. CASE Abort BY <1>2 DEF IInv, Abort
<1>3. CASE UNCHANGED vars BY <1>3 DEF IInv, vars
<1> QED BY <1>1, <1>2, <1>3

\* IInv holds throughout, for parts that are parts.
THEOREM Invariance == ASSUME Ordered PROVE Spec => []IInv
<1>1. Init => IInv
  BY InitInv
<1>2. IInv /\ [Next]_vars => IInv'
  BY ReadInv, SendInv, OtherInv DEF Next
<1> QED BY <1>1, <1>2, PTL DEF Spec

\* Every variable keeps its type: no read is asked for that ctx->buf cannot hold.
THEOREM TypeCorrect == ASSUME Ordered PROVE Spec => []TypeOK
<1>1. ASSUME IInv PROVE TypeOK
  <2>1. part.stop \in Nat /\ part.stop < Word /\ Word \in Nat /\ BufSize \in Nat
    BY <1>1, PartFacts, RelayAssumption DEF IInv
  <2>2. offset \in 0..Word /\ toRead \in 0..BufSize
    BY <1>1, <2>1 DEF IInv
  <2> QED BY <1>1, <2>2 DEF IInv, TypeOK
<1> QED BY <1>1, Invariance, PTL

\* The bytes sent are those from the first on.
THEOREM SentInOrder == ASSUME Ordered PROVE Spec => []InOrder
<1>1. IInv => InOrder
  BY DEF IInv, InOrder
<1> QED BY <1>1, Invariance, PTL

\* What is announced of a part that is one does not wrap.
LEMMA AnnouncedIs ==
  ASSUME Ordered, IInv
  PROVE  /\ Announced = part.stop - part.first /\ Announced \in Nat
         /\ part.first \in Nat /\ part.stop \in Nat
<1>1. /\ part.first \in Nat /\ part.stop \in Nat /\ part.size \in Nat
      /\ part.first < part.stop /\ part.stop <= part.size /\ part.size < Word
  BY PartFacts DEF IInv
<1>2. part.stop - part.first \in Nat /\ part.stop - part.first < Word
  BY <1>1, RelayAssumption
<1> QED BY <1>1, <1>2, NoWrap, RelayAssumption DEF Announced

\* No more is sent than was announced.
THEOREM SentWithin == ASSUME Ordered PROVE Spec => []WithinAnnounced
<1>1. ASSUME IInv PROVE WithinAnnounced
  <2>1. Announced = part.stop - part.first /\ part.first \in Nat /\ part.stop \in Nat
    BY <1>1, AnnouncedIs
  <2>2. got \in Nat /\ part.first + got <= part.stop
    BY <1>1 DEF IInv
  <2> QED BY <2>1, <2>2 DEF WithinAnnounced
<1> QED BY <1>1, Invariance, PTL

\* No read fails at the end of the file.
THEOREM ReadsSucceed == ASSUME Ordered PROVE Spec => []NeverStuck
<1>1. IInv => NeverStuck
  BY DEF IInv, NeverStuck
<1> QED BY <1>1, Invariance, PTL

\* Where the relay is, as Delivery sees it.
Status == CASE state = "done" -> "complete"
            [] state = "closed" -> "broken"
            [] OTHER -> IF torn \/ state = "stuck" THEN "torn" ELSE "open"

LEMMA StatusIs ==
  ASSUME IInv
  PROVE  /\ state = "done" => Status = "complete"
         /\ state = "closed" => Status = "broken"
         /\ state \in {"ReadStaticFile", "SendPartFile", "LastSend"} => Status = "open"
  BY DEF IInv, Status

\* A piece sent is a Deliver.
LEMMA SendDelivers ==
  ASSUME Ordered, IInv, IInv', SendPartFile
  PROVE  D!Deliver
<1>1. PICK n \in 1..Least(toRead, part.size - offset) :
        Sent(n) /\ offset' = (offset + n) % Word
  BY DEF SendPartFile
<1>2. part' = part /\ Announced' = Announced
  BY DEF SendPartFile, Announced
<1>3. got' = got + n
  BY <1>1 DEF Sent
<1>4. /\ part.first \in Nat /\ part.stop \in Nat /\ part.size \in Nat
      /\ offset' = part.first + got' /\ offset' <= part.stop
      /\ got \in Nat /\ got' \in Nat /\ toRead \in Nat /\ offset \in Nat
  BY <1>2, PartFacts DEF IInv
<1>5. n \in Nat /\ n >= 1
  BY <1>4 DEF Least
<1>6. n \in 1..Announced /\ got + n <= Announced
  BY <1>3, <1>4, <1>5, AnnouncedIs
<1>7. Status = "open" /\ Status' = "open"
  <2>1. state \in {"ReadStaticFile", "SendPartFile", "LastSend"}
        /\ state' \in {"ReadStaticFile", "SendPartFile", "LastSend"}
    BY DEF SendPartFile
  <2> QED BY <2>1 DEF IInv, Status
<1> QED
  BY <1>2, <1>3, <1>6, <1>7 DEF D!Deliver, Status

\* Every step of the relay is one of Delivery's, or none.
LEMMA StepDelivers ==
  ASSUME Ordered, IInv, IInv', [Next]_vars
  PROVE  [D!Next]_(D!dvars)
<1>1. CASE ReadStaticFile
  <2>1. got' = got /\ Announced' = Announced
    BY <1>1 DEF ReadStaticFile, Announced
  <2>2. state' = "SendPartFile" /\ state = "ReadStaticFile"
    BY <1>1 DEF ReadStaticFile, IInv
  <2>3. Status' = Status
    BY <2>2 DEF IInv, Status
  <2> QED BY <2>1, <2>3 DEF D!dvars, Status
<1>2. CASE SendPartFile
  BY <1>2, SendDelivers DEF D!Next
<1>3. CASE RecvNextRequest
  <2>1. got' = got /\ Announced' = Announced
    BY <1>3 DEF RecvNextRequest, Announced
  <2>2. state = "LastSend" /\ state' = "done"
    BY <1>3 DEF RecvNextRequest
  <2>3. Status = "open" /\ Status' = "complete"
    BY <2>2 DEF IInv, Status
  <2>4. got = Announced
    <3>1. Announced = part.stop - part.first /\ part.first \in Nat /\ part.stop \in Nat
      BY AnnouncedIs
    <3>2. got \in Nat /\ part.first + got = part.stop
      BY <2>2 DEF IInv
    <3> QED BY <3>1, <3>2
  <2> QED BY <2>1, <2>3, <2>4 DEF D!Next, D!Complete, Status
<1>4. CASE Abort
  <2>1. got' = got /\ Announced' = Announced
    BY <1>4 DEF Abort, Announced
  <2>2. state \in {"ReadStaticFile", "SendPartFile", "LastSend"} /\ state' = "closed"
    BY <1>4 DEF Abort, IInv
  <2>3. Status = "open" /\ Status' = "broken"
    BY <2>2 DEF IInv, Status
  <2> QED BY <2>1, <2>3 DEF D!Next, D!Break, Status
<1>5. CASE UNCHANGED vars
  BY <1>5 DEF vars, D!dvars, Announced
<1> QED BY <1>1, <1>2, <1>3, <1>4, <1>5 DEF Next

\* The relay implements Delivery: for every part that is one, the bytes come in
\* order and the response is complete only when all that was announced is sent.
THEOREM Implements == ASSUME Ordered PROVE Spec => Delivers
<1>1. Init => D!Init
  <2>1. ASSUME Init PROVE D!Init
    <3>1. IInv BY <2>1, InitInv
    <3>2. Status = "open" BY <2>1 DEF Init, Status
    <3> QED BY <2>1, <3>1, <3>2, AnnouncedIs DEF Init, D!Init, Status
  <2> QED BY <2>1
<1>2. IInv /\ IInv' /\ [Next]_vars => [D!Next]_(D!dvars)
  BY StepDelivers
<1> QED BY <1>1, <1>2, Invariance, PTL DEF Spec, Delivers, D!Spec

(***************************************************************************)
(* The Linux server                                                        *)
(***************************************************************************)
\* The piece in flight fits what is announced and, on its way out, the pipe.
SpliceInv ==
  /\ SpliceTypeOK
  /\ NothingLost
  /\ so_type = "ss_responce_file2" => pos + piece <= filesize
  /\ so_type = "sending" => piece <= pipe
  /\ so_type = "ss_recv_header" => pos = filesize

\* The initial states.
LEMMA SpliceInitInv == ASSUME SpliceInit PROVE SpliceInv
  BY SpliceAssumption DEF SpliceInit, SpliceInv, SpliceTypeOK, NothingLost

\* A splice into the pipe is asked for.
LEMMA SpliceStartInv == ASSUME SpliceInv, SpliceStart PROVE SpliceInv'
<1>1. /\ filesize \in Nat /\ pos \in Nat /\ pos <= filesize
      /\ SpliceSize \in Nat /\ SpliceSize # 0
  BY SpliceAssumption DEF SpliceInv, SpliceTypeOK, NothingLost
<1>2. piece' \in 0..SpliceSize /\ pos + piece' <= filesize
  BY <1>1 DEF SpliceStart, Smaller
<1> QED
  BY <1>1, <1>2 DEF SpliceInv, SpliceTypeOK, NothingLost, SpliceStart

\* A piece has come into the pipe.
LEMMA SpliceStart2Inv == ASSUME SpliceInv, SpliceStart2 PROVE SpliceInv'
<1>1. /\ filesize \in Nat /\ pos \in Nat /\ pipe \in Nat /\ sent \in Nat
      /\ sent + pipe = pos /\ pos + piece <= filesize /\ piece \in 0..SpliceSize
      /\ SpliceSize \in Nat
  BY SpliceAssumption DEF SpliceInv, SpliceTypeOK, NothingLost, SpliceStart2
<1>2. PICK n \in 1..piece : pos' = pos + n /\ pipe' = pipe + n /\ piece' = n
  BY DEF SpliceStart2
<1>3. /\ pos' \in Nat /\ pipe' \in Nat /\ piece' \in 0..SpliceSize
      /\ sent + pipe' = pos' /\ pos' <= filesize /\ piece' <= pipe'
  BY <1>1, <1>2
<1> QED
  BY <1>1, <1>3 DEF SpliceInv, SpliceTypeOK, NothingLost, SpliceStart2

\* A piece, or some of it, has gone out of the pipe.
LEMMA SplicedInv == ASSUME SpliceInv, Spliced PROVE SpliceInv'
<1>1. /\ filesize \in Nat /\ pos \in Nat /\ pipe \in Nat /\ sent \in Nat
      /\ sent + pipe = pos /\ pos <= filesize /\ piece \in 0..SpliceSize
      /\ piece \in Nat /\ piece <= pipe
  BY SpliceAssumption DEF SpliceInv, SpliceTypeOK, NothingLost, Spliced
<1>2. PICK n \in 1..Smaller(piece, pipe) : sent' = sent + n /\ pipe' = pipe - n
  BY DEF Spliced
<1>3. n \in Nat /\ n <= pipe
  BY <1>1, <1>2 DEF Smaller
<1>4. /\ sent' \in Nat /\ pipe' \in Nat /\ sent' + pipe' = pos
  BY <1>1, <1>2, <1>3
<1> QED
  BY <1>1, <1>4 DEF SpliceInv, SpliceTypeOK, NothingLost, Spliced

\* The end, and no step.
LEMMA SpliceOtherInv == ASSUME SpliceInv, Closes \/ UNCHANGED svars PROVE SpliceInv'
<1>1. CASE Closes BY <1>1 DEF SpliceInv, SpliceTypeOK, NothingLost, Closes
<1>2. CASE UNCHANGED svars BY <1>2 DEF SpliceInv, SpliceTypeOK, NothingLost, svars
<1> QED BY <1>1, <1>2

\* SpliceInv holds throughout.
THEOREM SpliceInvariance == SpliceSpec => []SpliceInv
<1>1. SpliceInit => SpliceInv
  BY SpliceInitInv
<1>2. SpliceInv /\ [SpliceNext]_svars => SpliceInv'
  BY SpliceStartInv, SpliceStart2Inv, SplicedInv, SpliceOtherInv DEF SpliceNext
<1> QED BY <1>1, <1>2, PTL DEF SpliceSpec

\* Every variable keeps its type.
THEOREM SpliceTypeCorrect == SpliceSpec => []SpliceTypeOK
<1>1. SpliceInv => SpliceTypeOK
  BY DEF SpliceInv
<1> QED BY <1>1, SpliceInvariance, PTL

\* No byte taken out of the file is lost, however short the splices end.
THEOREM BytesAccounted == SpliceSpec => []NothingLost
<1>1. SpliceInv => NothingLost
  BY DEF SpliceInv
<1> QED BY <1>1, SpliceInvariance, PTL

-----------------------------------------------------------------------------
\* When no splice to the socket ends short the pipe holds the piece in flight, and
\* nothing else.
DrainedInv == PipeDrained /\ (so_type = "sending" => pipe = piece)

\* A splice to the socket drains the pipe.
LEMMA SplicedDrains ==
  ASSUME ~Interrupted, SpliceInv, DrainedInv, Spliced
  PROVE  /\ pipe' = 0 /\ sent' = sent + piece
         /\ piece \in Nat \ {0} /\ sent + piece <= filesize
<1>1. pipe \in Nat /\ piece \in Nat /\ pipe = piece /\ sent + pipe = pos /\ pos <= filesize
      /\ sent \in Nat /\ pos \in Nat /\ filesize \in Nat
  BY SpliceAssumption DEF SpliceInv, DrainedInv, SpliceTypeOK, NothingLost, Spliced
<1>2. PICK n \in 1..Smaller(piece, pipe) :
        n = Smaller(piece, pipe) /\ sent' = sent + n /\ pipe' = pipe - n
  BY DEF Spliced
<1>3. n = piece
  BY <1>1, <1>2 DEF Smaller
<1> QED BY <1>1, <1>2, <1>3

\* DrainedInv is kept.
LEMMA DrainedStep ==
  ASSUME ~Interrupted, SpliceInv, DrainedInv, [SpliceNext]_svars
  PROVE  DrainedInv'
<1>1. CASE SpliceStart BY <1>1 DEF DrainedInv, PipeDrained, SpliceStart
<1>2. CASE SpliceStart2
  <2>1. pipe = 0 BY <1>2 DEF DrainedInv, PipeDrained, SpliceStart2
  <2>2. piece \in Int
    BY SpliceAssumption DEF SpliceInv, SpliceTypeOK
  <2>3. pipe' = piece'
    BY <1>2, <2>1, <2>2 DEF SpliceStart2
  <2> QED BY <1>2, <2>3 DEF DrainedInv, PipeDrained, SpliceStart2
<1>3. CASE Spliced
  <2>1. pipe' = 0 /\ so_type' = "ss_responce_file"
    BY <1>3, SplicedDrains DEF Spliced
  <2> QED BY <2>1 DEF DrainedInv, PipeDrained
<1>4. CASE Closes BY <1>4 DEF DrainedInv, PipeDrained, Closes
<1>5. CASE UNCHANGED svars BY <1>5 DEF DrainedInv, PipeDrained, svars
<1> QED BY <1>1, <1>2, <1>3, <1>4, <1>5 DEF SpliceNext

LEMMA DrainedInvariance == ASSUME ~Interrupted PROVE SpliceSpec => [](SpliceInv /\ DrainedInv)
<1>1. SpliceInit => DrainedInv
  BY DEF SpliceInit, DrainedInv, PipeDrained
<1>2. SpliceInv /\ DrainedInv /\ [SpliceNext]_svars => DrainedInv'
  BY DrainedStep
<1> QED BY <1>1, <1>2, SpliceInvariance, PTL DEF SpliceSpec

\* The pipe takes a piece only when it is empty.
THEOREM PipeIsDrained == ASSUME ~Interrupted PROVE SpliceSpec => []PipeDrained
<1>1. DrainedInv => PipeDrained
  BY DEF DrainedInv
<1> QED BY <1>1, DrainedInvariance, PTL

\* Every step of the relay is one of Delivery's, or none.
LEMMA SpliceStepDelivers ==
  ASSUME ~Interrupted, SpliceInv, DrainedInv, [SpliceNext]_svars
  PROVE  [S!Next]_(S!dvars)
<1>1. CASE SpliceStart /\ filesize # pos
  BY <1>1 DEF SpliceStart, S!dvars
<1>2. CASE SpliceStart /\ filesize = pos
  <2>1. sent = filesize /\ so_type = "ss_responce_file" /\ so_type' = "ss_recv_header"
    BY <1>2 DEF SpliceStart, SpliceInv, SpliceTypeOK, NothingLost, DrainedInv, PipeDrained
  <2> QED BY <1>2, <2>1 DEF SpliceStart, S!Next, S!Complete
<1>3. CASE SpliceStart2
  BY <1>3 DEF SpliceStart2, S!dvars
<1>4. CASE Spliced
  <2>1. /\ sent' = sent + piece /\ piece \in Nat \ {0} /\ sent + piece <= filesize
        /\ sent \in Nat /\ filesize \in Nat
    BY <1>4, SplicedDrains, SpliceAssumption DEF SpliceInv, SpliceTypeOK
  <2>2. piece \in 1..filesize
    BY <2>1
  <2>3. so_type = "sending" /\ so_type' = "ss_responce_file" /\ filesize' = filesize
    BY <1>4 DEF Spliced
  <2> QED BY <2>1, <2>2, <2>3 DEF S!Next, S!Deliver
<1>5. CASE Closes
  BY <1>5 DEF Closes, S!Next, S!Break
<1>6. CASE UNCHANGED svars
  BY <1>6 DEF svars, S!dvars
<1> QED BY <1>1, <1>2, <1>3, <1>4, <1>5, <1>6 DEF SpliceNext

\* The relay implements Delivery.
THEOREM SpliceImplements == ASSUME ~Interrupted PROVE SpliceSpec => SpliceDelivers
<1>1. SpliceInit => S!Init
  BY SpliceAssumption DEF SpliceInit, S!Init
<1>2. SpliceInv /\ DrainedInv /\ [SpliceNext]_svars => [S!Next]_(S!dvars)
  BY SpliceStepDelivers
<1> QED BY <1>1, <1>2, DrainedInvariance, PTL DEF SpliceSpec, SpliceDelivers, S!Spec

(***************************************************************************)
(* Range headers                                                           *)
(***************************************************************************)
LessThan == {ss \in Nat \X Nat : ss[1] < ss[2]}

LEMMA LessThanIsWellFounded == IsWellFoundedOn(LessThan, Nat)
<1>1. OpToRel(<, Nat) = LessThan
  BY DEF OpToRel, LessThan
<1> QED
  BY <1>1, NatLessThanWellFounded, Zenon

\* Min of some numbers is one of them, and no other is less.
LEMMA MinIsMember ==
  ASSUME NEW T \in SUBSET Nat, T # {}
  PROVE  Min(T) \in T /\ \A y \in T : Min(T) =< y
<1>1. PICK x \in T : \A y \in T : <<y, x>> \notin LessThan
  BY WFMin, LessThanIsWellFounded
<1>2. \A y \in T : x =< y
  <2>1. \A m, n \in Nat : <<m, n>> \notin LessThan => n =< m
    BY DEF LessThan
  <2> QED
    BY <1>1, <2>1
<1> QED
  BY <1>2, Zenon DEF Min

\* Induction, for what a set says of a number.
LEMMA Induction ==
  ASSUME NEW T, 0 \in T, \A n \in Nat : n \in T => n + 1 \in T
  PROVE  Nat \subseteq T
<1> SUFFICES ASSUME Nat \ T # {} PROVE FALSE
  OBVIOUS
<1> DEFINE m == Min(Nat \ T)
<1>1. m \in Nat \ T /\ \A y \in Nat \ T : m =< y
  BY MinIsMember
<1> HIDE DEF m
<1>2. m # 0 /\ m - 1 \in Nat /\ m - 1 \notin Nat \ T
  BY <1>1
<1> QED
  BY <1>1, <1>2

Computes(w, x, N, F) == w[0] = x /\ \A n \in 1..N : w[n] = F[<<n, w[n - 1]>>]

\* A function of natural numbers defined from its value before is there.
LEMMA Recursion ==
  ASSUME NEW x \in Nat, NEW N \in Nat, NEW F \in [Nat \X Nat -> Nat]
  PROVE  \E w \in [0..N -> Nat] : Computes(w, x, N, F)
<1> DEFINE Good(n, w) == \A k \in 0..n : w[k] = IF k = 0 THEN x ELSE F[<<k, w[k - 1]>>]
           T == {n \in Nat : \E w \in [0..n -> Nat] : Good(n, w)}
<1>1. 0 \in T
  <2>1. [k \in 0..0 |-> x] \in [0..0 -> Nat] /\ Good(0, [k \in 0..0 |-> x])
    OBVIOUS
  <2> QED
    BY <2>1, Zenon
<1>2. ASSUME NEW n \in Nat, n \in T PROVE n + 1 \in T
  <2>1. PICK w \in [0..n -> Nat] : Good(n, w)
    BY <1>2
  <2> DEFINE v == [k \in 0..n + 1 |-> IF k = n + 1 THEN F[<<n + 1, w[n]>>] ELSE w[k]]
  <2>2. F[<<n + 1, w[n]>>] \in Nat
    BY <2>1
  <2>3. v \in [0..n + 1 -> Nat]
    BY <2>1, <2>2
  <2>4. Good(n + 1, v)
    <3>1. v[n + 1] = F[<<n + 1, w[n]>>] /\ \A k \in 0..n : v[k] = w[k]
      <4>1. n + 1 \in 0..n + 1 /\ \A k \in 0..n : k \in 0..n + 1 /\ k # n + 1
        OBVIOUS
      <4> QED
        BY <4>1, Zenon
    <3> HIDE DEF v
    <3>2. v[n + 1] = F[<<n + 1, v[n]>>]
      <4>1. n \in 0..n
        OBVIOUS
      <4> QED
        BY <3>1, <4>1, Zenon
    <3>3. ASSUME NEW k \in 0..n
          PROVE  v[k] = IF k = 0 THEN x ELSE F[<<k, v[k - 1]>>]
      <4>1. k # 0 => k - 1 \in 0..n
        OBVIOUS
      <4> QED
        BY <2>1, <3>1, <4>1
    <3>4. \A k \in 0..n + 1 : k \in 0..n \/ k = n + 1
      OBVIOUS
    <3> SUFFICES ASSUME NEW k \in 0..n + 1
                 PROVE  v[k] = IF k = 0 THEN x ELSE F[<<k, v[k - 1]>>]
      BY Zenon
    <3>5. CASE k = n + 1
      <4>1. k # 0 /\ k - 1 = n
        BY <3>5
      <4> QED
        BY <3>2, <3>5, <4>1
    <3> QED
      BY <3>3, <3>4, <3>5, Zenon
  <2>5. n + 1 \in Nat
    OBVIOUS
  <2> HIDE DEF v, Good
  <2> QED
    BY <2>3, <2>4, <2>5, Zenon
<1>3. N \in T
  BY <1>1, <1>2, Induction, Zenon
<1>4. PICK w \in [0..N -> Nat] : Good(N, w)
  BY <1>3
<1>5. 0 \in 0..N /\ \A n \in 1..N : n \in 0..N /\ n # 0
  OBVIOUS
<1> QED
  BY <1>4, <1>5, Zenon DEF Computes

\* What the digits read so far come to, by one digit more.
Counts(w, t) == w[0] = 0 /\ \A n \in 1..Len(t) : w[n] = w[n - 1] * 10 + t[n]
CountsWrapped(w, t) == w[0] = 0 /\ \A n \in 1..Len(t) : w[n] = (w[n - 1] * 10 + t[n]) % Wrap

LEMMA Digit ==
  ASSUME NEW n \in Nat, NEW d \in Nat
  PROVE  n * 10 + d \in Nat /\ n <= n * 10 + d /\ (n * 10 + d) % Wrap \in Nat
<1>1. n * 10 + d \in Nat /\ n <= n * 10 + d
  OBVIOUS
<1>2. \A m \in Nat, w \in Nat \ {0} : m % w \in Nat
  OBVIOUS
<1> QED
  BY <1>1, <1>2, RangeAssumption

LEMMA ValueRuns ==
  ASSUME NEW t \in Seq(Nat)
  PROVE  \E w \in [0..Len(t) -> Nat] : Counts(w, t) /\ Value(t) = w[Len(t)]
<1> DEFINE N == Len(t)
           F == [nx \in Nat \X Nat |-> IF nx[1] \in 1..N THEN nx[2] * 10 + t[nx[1]] ELSE 0]
           Step(f) == [k \in 0..N |-> IF k = 0 THEN 0 ELSE f[k - 1] * 10 + t[k]]
           f == CHOOSE g : g = Step(g)
<1>1. N \in Nat /\ 0 \in Nat /\ \A n \in 1..N : t[n] \in Nat
  OBVIOUS
<1>2. F \in [Nat \X Nat -> Nat]
  <2>1. \A n \in Nat, x \in Nat : (IF n \in 1..N THEN x * 10 + t[n] ELSE 0) \in Nat
    BY <1>1, Digit
  <2> HIDE DEF N
  <2> QED
    BY <2>1
<1>3. PICK w \in [0..N -> Nat] : Computes(w, 0, N, F)
  <2> HIDE DEF F, N
  <2> QED
    BY <1>1, <1>2, Recursion, Zenon
<1>4. w[0] = 0 /\ \A n \in 1..N : w[n] = w[n - 1] * 10 + t[n]
  <2>1. \A n \in 1..N : n \in Nat /\ n - 1 \in 0..N
    BY <1>1
  <2>2. \A n \in 1..N : F[<<n, w[n - 1]>>] = w[n - 1] * 10 + t[n]
    <3> SUFFICES ASSUME NEW n \in 1..N PROVE F[<<n, w[n - 1]>>] = w[n - 1] * 10 + t[n]
      OBVIOUS
    <3>1. <<n, w[n - 1]>> \in Nat \X Nat
      BY <1>3, <2>1
    <3> HIDE DEF N
    <3> QED
      BY <3>1
  <2> QED
    BY <1>3, <2>2, Zenon DEF Computes
<1>5. w = Step(w)
  <2>1. \A k \in 0..N : k # 0 => k \in 1..N
    OBVIOUS
  <2>2. w = [k \in 0..N |-> w[k]]
    BY <1>3
  <2>3. \A k \in 0..N : w[k] = IF k = 0 THEN 0 ELSE w[k - 1] * 10 + t[k]
    BY <1>4, <2>1, Zenon
  <2> QED
    BY <2>2, <2>3, Zenon
<1>6. f = Step(f)
  <2> HIDE DEF Step
  <2> QED
    BY <1>5, Zenon
<1>7. Value(t) = f[N]
  BY Zenon DEF Value
<1> HIDE DEF f
<1>8. f[0] = 0 /\ \A n \in 1..N : f[n] = f[n - 1] * 10 + t[n]
  <2>1. 0 \in 0..N /\ \A n \in 1..N : n \in 0..N /\ n # 0
    BY <1>1
  <2> QED
    BY <1>6, <2>1, Zenon
<1> DEFINE E == {m \in Nat : m \in 0..N => f[m] \in Nat}
<1>9. \A m \in 0..N : f[m] \in Nat
  <2>1. 0 \in E
    BY <1>8
  <2>2. ASSUME NEW n \in Nat, n \in E PROVE n + 1 \in E
    <3> SUFFICES ASSUME n + 1 \in 0..N PROVE f[n + 1] \in Nat
      OBVIOUS
    <3>1. n \in 0..N /\ n + 1 \in 1..N /\ (n + 1) - 1 = n
      BY <1>1
    <3>2. f[n] \in Nat /\ t[n + 1] \in Nat
      BY <1>1, <2>2, <3>1
    <3>3. f[n + 1] = f[n] * 10 + t[n + 1]
      BY <1>8, <3>1, Zenon
    <3> QED
      BY <3>2, <3>3, Digit
  <2>3. Nat \subseteq E
    <3> HIDE DEF E
    <3> QED
      BY <2>1, <2>2, Induction, Zenon
  <2> QED
    BY <2>3
<1>10. f \in [0..N -> Nat]
  BY <1>6, <1>9
<1> QED
  BY <1>7, <1>8, <1>10, Zenon DEF Counts

LEMMA WrappedRuns ==
  ASSUME NEW t \in Seq(Nat)
  PROVE  \E w \in [0..Len(t) -> Nat] : CountsWrapped(w, t) /\ Wrapped(t) = w[Len(t)]
<1> DEFINE N == Len(t)
           F == [nx \in Nat \X Nat |-> IF nx[1] \in 1..N THEN (nx[2] * 10 + t[nx[1]]) % Wrap ELSE 0]
           Step(f) == [k \in 0..N |-> IF k = 0 THEN 0 ELSE (f[k - 1] * 10 + t[k]) % Wrap]
           f == CHOOSE g : g = Step(g)
<1>1. N \in Nat /\ 0 \in Nat /\ \A n \in 1..N : t[n] \in Nat
  OBVIOUS
<1>2. F \in [Nat \X Nat -> Nat]
  <2>1. \A n \in Nat, x \in Nat : (IF n \in 1..N THEN (x * 10 + t[n]) % Wrap ELSE 0) \in Nat
    BY <1>1, Digit
  <2> HIDE DEF N
  <2> QED
    BY <2>1
<1>3. PICK w \in [0..N -> Nat] : Computes(w, 0, N, F)
  <2> HIDE DEF F, N
  <2> QED
    BY <1>1, <1>2, Recursion, Zenon
<1>4. w[0] = 0 /\ \A n \in 1..N : w[n] = (w[n - 1] * 10 + t[n]) % Wrap
  <2>1. \A n \in 1..N : n \in Nat /\ n - 1 \in 0..N
    BY <1>1
  <2>2. \A n \in 1..N : F[<<n, w[n - 1]>>] = (w[n - 1] * 10 + t[n]) % Wrap
    <3> SUFFICES ASSUME NEW n \in 1..N PROVE F[<<n, w[n - 1]>>] = (w[n - 1] * 10 + t[n]) % Wrap
      OBVIOUS
    <3>1. <<n, w[n - 1]>> \in Nat \X Nat
      BY <1>3, <2>1
    <3> HIDE DEF N
    <3> QED
      BY <3>1
  <2> QED
    BY <1>3, <2>2, Zenon DEF Computes
<1>5. w = Step(w)
  <2>1. \A k \in 0..N : k # 0 => k \in 1..N
    OBVIOUS
  <2>2. w = [k \in 0..N |-> w[k]]
    BY <1>3
  <2>3. \A k \in 0..N : w[k] = IF k = 0 THEN 0 ELSE (w[k - 1] * 10 + t[k]) % Wrap
    BY <1>4, <2>1, Zenon
  <2> QED
    BY <2>2, <2>3, Zenon
<1>6. f = Step(f)
  <2> HIDE DEF Step
  <2> QED
    BY <1>5, Zenon
<1>7. Wrapped(t) = f[N]
  BY Zenon DEF Wrapped
<1> HIDE DEF f
<1>8. f[0] = 0 /\ \A n \in 1..N : f[n] = (f[n - 1] * 10 + t[n]) % Wrap
  <2>1. 0 \in 0..N /\ \A n \in 1..N : n \in 0..N /\ n # 0
    BY <1>1
  <2> QED
    BY <1>6, <2>1, Zenon
<1> DEFINE E == {m \in Nat : m \in 0..N => f[m] \in Nat}
<1>9. \A m \in 0..N : f[m] \in Nat
  <2>1. 0 \in E
    BY <1>8
  <2>2. ASSUME NEW n \in Nat, n \in E PROVE n + 1 \in E
    <3> SUFFICES ASSUME n + 1 \in 0..N PROVE f[n + 1] \in Nat
      OBVIOUS
    <3>1. n \in 0..N /\ n + 1 \in 1..N /\ (n + 1) - 1 = n
      BY <1>1
    <3>2. f[n] \in Nat /\ t[n + 1] \in Nat
      BY <1>1, <2>2, <3>1
    <3>3. f[n + 1] = (f[n] * 10 + t[n + 1]) % Wrap
      BY <1>8, <3>1, Zenon
    <3> QED
      BY <3>2, <3>3, Digit
  <2>3. Nat \subseteq E
    <3> HIDE DEF E
    <3> QED
      BY <2>1, <2>2, Induction, Zenon
  <2> QED
    BY <2>3
<1>10. f \in [0..N -> Nat]
  BY <1>6, <1>9
<1> QED
  BY <1>7, <1>8, <1>10, Zenon DEF CountsWrapped

\* Digits come to a number, and to what they say when that is below Wrap.
LEMMA NumbersTyped ==
  ASSUME NEW t \in Seq(Nat)
  PROVE  Value(t) \in Nat /\ Wrapped(t) \in Nat
<1>1. Len(t) \in 0..Len(t)
  OBVIOUS
<1> QED
  BY <1>1, ValueRuns, WrappedRuns

LEMMA NotWrapped ==
  ASSUME NEW t \in Seq(Nat), Value(t) < Wrap
  PROVE  Wrapped(t) = Value(t)
<1> DEFINE N == Len(t)
<1>1. PICK v \in [0..N -> Nat] : Counts(v, t) /\ Value(t) = v[N]
  BY ValueRuns
<1>2. PICK w \in [0..N -> Nat] : CountsWrapped(w, t) /\ Wrapped(t) = w[N]
  BY WrappedRuns
<1>3. /\ v[0] = 0 /\ \A n \in 1..N : v[n] = v[n - 1] * 10 + t[n]
      /\ w[0] = 0 /\ \A n \in 1..N : w[n] = (w[n - 1] * 10 + t[n]) % Wrap
  BY <1>1, <1>2, Zenon DEF Counts, CountsWrapped
<1>4. N \in Nat /\ \A n \in 1..N : t[n] \in Nat
  OBVIOUS
<1> DEFINE E == {m \in Nat : m \in 0..N /\ v[m] < Wrap => w[m] = v[m]}
<1>5. 0 \in E
  BY <1>3
<1>6. ASSUME NEW n \in Nat, n \in E PROVE n + 1 \in E
  <2> SUFFICES ASSUME n + 1 \in 0..N, v[n + 1] < Wrap PROVE w[n + 1] = v[n + 1]
    OBVIOUS
  <2>1. n \in 0..N /\ n + 1 \in 1..N /\ (n + 1) - 1 = n
    BY <1>4
  <2>2. v[n] \in Nat /\ t[n + 1] \in Nat
    BY <1>1, <1>4, <2>1
  <2>3. /\ v[n + 1] = v[n] * 10 + t[n + 1]
        /\ w[n + 1] = (w[n] * 10 + t[n + 1]) % Wrap
    BY <1>3, <2>1, Zenon
  <2>4. v[n] < Wrap
    <3>1. v[n] <= v[n + 1]
      BY <2>2, <2>3, Digit
    <3>2. v[n + 1] \in Nat
      BY <2>2, <2>3, Digit
    <3> QED
      BY <2>2, <3>1, <3>2, RangeAssumption
  <2>5. w[n] = v[n]
    BY <1>6, <2>1, <2>4
  <2>6. v[n + 1] % Wrap = v[n + 1]
    <3>1. v[n + 1] \in Nat
      BY <2>2, <2>3, Digit
    <3> QED
      BY <3>1, NoWrap, RangeAssumption
  <2> QED
    BY <2>3, <2>5, <2>6, Zenon
<1>7. Nat \subseteq E
  <2> HIDE DEF E
  <2> QED
    BY <1>5, <1>6, Induction, Zenon
<1>8. N \in E
  BY <1>4, <1>7
<1> QED
  BY <1>1, <1>2, <1>4, <1>8

\* Where the loops stop: at the text's end at the latest, and at nothing they pass.
LEMMA SpacesStop ==
  ASSUME NEW s \in Seq(Nat), NEW i \in 1..Len(s) + 1
  PROVE  /\ SkipSpaces(s, i) \in i..Len(s) + 1
         /\ At(s, i) # Space => SkipSpaces(s, i) = i
<1> DEFINE T == {j \in i..Len(s) + 1 : At(s, j) # Space}
<1>1. Len(s) + 1 \in T /\ T \in SUBSET Nat
  BY DEF At, Space, NUL
<1>2. Min(T) \in T /\ \A y \in T : Min(T) =< y
  BY <1>1, MinIsMember
<1>3. SkipSpaces(s, i) = Min(T)
  BY Zenon DEF SkipSpaces
<1>4. At(s, i) # Space => i \in T
  OBVIOUS
<1>5. \A m \in T : m \in i..Len(s) + 1
  OBVIOUS
<1> HIDE DEF T
<1> QED
  BY <1>2, <1>3, <1>4, <1>5

LEMMA DigitsStop ==
  ASSUME NEW s \in Seq(Nat), NEW i \in 1..Len(s) + 1
  PROVE  /\ SkipDigits(s, i) \in i..Len(s) + 1
         /\ \A p \in i..Len(s) + 1 :
              At(s, p) \notin Digits /\ (\A j \in i..p - 1 : s[j] \in Digits)
                => SkipDigits(s, i) = p
<1> DEFINE T == {j \in i..Len(s) + 1 : At(s, j) \notin Digits}
<1>1. Len(s) + 1 \in T /\ T \in SUBSET Nat
  BY DEF At, Digits, NUL
<1>2. Min(T) \in T /\ \A y \in T : Min(T) =< y
  BY <1>1, MinIsMember
<1>3. SkipDigits(s, i) = Min(T)
  BY Zenon DEF SkipDigits
<1>4. \A m \in T : m \in i..Len(s) + 1 /\ At(s, m) \notin Digits
  OBVIOUS
<1>5. ASSUME NEW p \in i..Len(s) + 1, At(s, p) \notin Digits,
             \A j \in i..p - 1 : s[j] \in Digits
      PROVE  Min(T) = p
  <2>1. p \in T
    BY <1>5
  <2>2. Min(T) <= p /\ Min(T) \in i..p
    BY <1>2, <1>4, <2>1
  <2>3. Min(T) \notin i..p - 1
    <3>1. \A j \in i..p - 1 : At(s, j) = s[j]
      BY DEF At
    <3> HIDE DEF T
    <3> QED
      BY <1>2, <1>4, <1>5, <3>1, Zenon
  <2> QED
    BY <2>2, <2>3
<1> HIDE DEF T
<1> QED
  BY <1>2, <1>3, <1>4, <1>5

\* A number read is one.
LEMMA NumberTyped ==
  ASSUME NEW s \in Seq(Nat), NEW i \in 1..Len(s) + 1
  PROVE  Number(s, i) \in Nat
<1>1. SkipDigits(s, i) - 1 \in i - 1..Len(s)
  BY DigitsStop
<1>2. SubSeq(s, i, SkipDigits(s, i) - 1) \in Seq(Nat)
  BY <1>1
<1> QED
  BY <1>2, NumbersTyped, Zenon DEF Number

\* A piece of a text.
LEMMA PieceIs ==
  ASSUME NEW s \in Seq(Nat), NEW i \in 1..Len(s) + 1, NEW p \in i..Len(s) + 1
  PROVE  /\ SubSeq(s, i, p - 1) \in Seq(Nat)
         /\ Len(SubSeq(s, i, p - 1)) = p - i
         /\ \A k \in 1..p - i : SubSeq(s, i, p - 1)[k] = s[i + k - 1]
<1>1. /\ i \in Nat /\ p \in Nat /\ i >= 1 /\ i <= p /\ p - 1 <= Len(s)
      /\ (p - 1) - i + 1 = p - i
  OBVIOUS
<1>2. Len(SubSeq(s, i, p - 1)) = p - i
  BY <1>1
<1>3. SubSeq(s, i, p - 1) \in Seq(Nat)
  BY <1>1
<1>4. \A k \in 1..p - i : SubSeq(s, i, p - 1)[k] = s[i + k - 1]
  BY <1>1
<1> QED
  BY <1>2, <1>3, <1>4, Zenon

\* A numeral is nothing but digits, and something.
LEMMA NumeralHas ==
  ASSUME NEW t \in Seq(Nat), Numeral(t)
  PROVE  Len(t) # 0 /\ \A k \in 1..Len(t) : t[k] \in Digits
  BY DEF Numeral

\* The digits of a numeral come to what they say.
LEMMA NumberIs ==
  ASSUME NEW s \in Seq(Nat), NEW i \in 1..Len(s) + 1, NEW p \in i..Len(s) + 1,
         At(s, p) \notin Digits, Numeral(SubSeq(s, i, p - 1)),
         Value(SubSeq(s, i, p - 1)) < Wrap
  PROVE  /\ SkipDigits(s, i) = p
         /\ Number(s, i) = Value(SubSeq(s, i, p - 1))
<1> DEFINE t == SubSeq(s, i, p - 1)
<1>1. t \in Seq(Nat) /\ Len(t) = p - i /\ \A k \in 1..p - i : t[k] = s[i + k - 1]
  BY PieceIs
<1>2. \A k \in 1..p - i : t[k] \in Digits
  BY <1>1, NumeralHas, Zenon
<1>3. \A j \in i..p - 1 : s[j] \in Digits
  <2> SUFFICES ASSUME NEW j \in i..p - 1 PROVE s[j] \in Digits
    OBVIOUS
  <2>1. (j - i) + 1 \in 1..p - i /\ i + ((j - i) + 1) - 1 = j
    OBVIOUS
  <2> HIDE DEF t
  <2> QED
    BY <1>1, <1>2, <2>1
<1>4. SkipDigits(s, i) = p
  BY <1>3, DigitsStop
<1>5. Wrapped(t) = Value(t)
  BY <1>1, NotWrapped
<1> QED
  BY <1>4, <1>5, Zenon DEF Number

\* It starts with one.
LEMMA NumeralStarts ==
  ASSUME NEW s \in Seq(Nat), NEW i \in 1..Len(s) + 1, NEW p \in i..Len(s) + 1,
         Numeral(SubSeq(s, i, p - 1))
  PROVE  i <= p - 1 /\ i <= Len(s) /\ At(s, i) \in Digits
<1> DEFINE t == SubSeq(s, i, p - 1)
<1>1. t \in Seq(Nat) /\ Len(t) = p - i /\ \A k \in 1..p - i : t[k] = s[i + k - 1]
  BY PieceIs
<1>2. Len(t) # 0 /\ \A k \in 1..p - i : t[k] \in Digits
  BY <1>1, NumeralHas, Zenon
<1> HIDE DEF t
<1>3. 1 \in 1..p - i /\ i + 1 - 1 = i
  BY <1>1, <1>2
<1>4. t[1] = s[i]
  BY <1>1, <1>3
<1>5. t[1] \in Digits
  BY <1>2, <1>3
<1> QED
  BY <1>3, <1>4, <1>5 DEF At

\* The three outcomes of parse_range.
LEMMA ParseCases ==
  ASSUME NEW s, NEW n
  PROVE  LET i == SkipSpaces(s, 1)
         IN  /\ At(s, i) = Dash => parse_range(s, n) = Suffix(s, SkipSpaces(s, i + 1), n)
             /\ At(s, i) \in Digits => parse_range(s, n) = FromTo(s, i, n)
             /\ At(s, i) # Dash /\ At(s, i) \notin Digits => parse_range(s, n) = None
<1>1. Dash \notin Digits
  BY DEF Dash, Digits
<1> QED
  BY <1>1, Zenon DEF parse_range

\* What is served of each.
LEMMA ServedIs ==
  ASSUME NEW s, NEW n
  PROVE  /\ parse_range(s, n) = None => Served(s, n) = Whole(n)
         /\ \A a, b : parse_range(s, n) = Part(a, b)
              => Served(s, n) = [first |-> a, stop |-> b + 1, size |-> n]
<1>1. None.ok = FALSE
  BY DEF None
<1>2. Served(s, n) = IF parse_range(s, n).ok
                      THEN [first |-> parse_range(s, n).start,
                            stop |-> parse_range(s, n).end + 1, size |-> n]
                      ELSE Whole(n)
  BY Zenon DEF Served, Whole
<1>3. ASSUME parse_range(s, n) = None PROVE Served(s, n) = Whole(n)
  BY <1>1, <1>2, <1>3, Zenon
<1>4. ASSUME NEW a, NEW b, parse_range(s, n) = Part(a, b)
      PROVE  Served(s, n) = [first |-> a, stop |-> b + 1, size |-> n]
  <2>1. /\ parse_range(s, n).ok = TRUE
        /\ parse_range(s, n).start = a
        /\ parse_range(s, n).end = b
    BY <1>4 DEF Part
  <2> QED
    BY <1>2, <2>1, Zenon
<1> QED
  BY <1>3, <1>4, Zenon

Within(p, n) == p.first \in 0..n /\ p.stop \in 0..n /\ (n > 0 => p.stop > 0)

LEMMA SuffixWithin ==
  ASSUME NEW s \in Seq(Nat), NEW i \in 1..Len(s) + 1, NEW n \in Nat
  PROVE  \/ Suffix(s, i, n) = None
         \/ \E a \in 0..n : Suffix(s, i, n) = Part(a, n - 1)
<1>1. Number(s, i) \in Nat
  BY NumberTyped
<1>2. Number(s, i) < n => n - Number(s, i) \in 0..n
  BY <1>1
<1> QED
  BY <1>2, Zenon DEF Suffix

LEMMA FromToWithin ==
  ASSUME NEW s \in Seq(Nat), NEW i \in 1..Len(s) + 1, NEW n \in Nat
  PROVE  \/ FromTo(s, i, n) = None
         \/ \E a \in 0..n, b \in 0..n - 1 : FromTo(s, i, n) = Part(a, b)
<1> DEFINE dash == SkipSpaces(s, SkipDigits(s, i))
           last == SkipSpaces(s, dash + 1)
           a == Number(s, i)
           m == Number(s, last)
<1>1. a \in Nat
  BY NumberTyped
<1>2. dash \in 1..Len(s) + 1
  <2>1. SkipDigits(s, i) \in 1..Len(s) + 1
    BY DigitsStop
  <2>2. dash \in SkipDigits(s, i)..Len(s) + 1
    BY <2>1, SpacesStop
  <2> HIDE DEF dash
  <2> QED
    BY <2>1, <2>2
<1> HIDE DEF dash
<1> SUFFICES ASSUME ~(a >= n), At(s, dash) = Dash
             PROVE  \/ FromTo(s, i, n) = None
                    \/ \E x \in 0..n, y \in 0..n - 1 : FromTo(s, i, n) = Part(x, y)
  BY Zenon DEF FromTo, dash
<1>3. dash + 1 \in 1..Len(s) + 1
  <2>1. dash <= Len(s)
    BY <1>2 DEF At, Dash, NUL
  <2> QED
    BY <1>2, <2>1
<1>4. m \in Nat
  <2>1. last \in dash + 1..Len(s) + 1
    BY <1>3, SpacesStop
  <2>2. last \in 1..Len(s) + 1
    <3> HIDE DEF last
    <3> QED
      BY <1>3, <2>1
  <2> QED
    BY <2>2, NumberTyped
<1> HIDE DEF m, a
<1>5. a \in 0..n /\ n - 1 \in 0..n - 1
  BY <1>1
<1>6. ~(m >= n) => m \in 0..n - 1
  BY <1>4
<1> HIDE DEF last
<1>7. \/ FromTo(s, i, n) = None
      \/ FromTo(s, i, n) = Part(a, n - 1)
      \/ ~(m >= n) /\ FromTo(s, i, n) = Part(a, m)
  BY Zenon DEF FromTo, dash, last, a, m
<1> QED
  BY <1>5, <1>6, <1>7, Zenon

\* Whatever the text, what is served is within the file.
LEMMA AlwaysInFile ==
  ASSUME NEW s \in Seq(Nat), NEW n \in Nat
  PROVE  PartInFile(s, n)
<1> DEFINE i == SkipSpaces(s, 1)
<1>1. i \in 1..Len(s) + 1
  BY SpacesStop
<1> HIDE DEF i
<1>2. Within(Whole(n), n)
  BY DEF Within, Whole
<1>3. ASSUME NEW a \in 0..n, NEW b \in 0..n - 1
      PROVE  Within([first |-> a, stop |-> b + 1, size |-> n], n)
  BY DEF Within
<1>4. ASSUME NEW a \in 0..n
      PROVE  Within([first |-> a, stop |-> (n - 1) + 1, size |-> n], n)
  BY DEF Within
<1>5. /\ parse_range(s, n) = None => Served(s, n) = Whole(n)
      /\ \A a, b : parse_range(s, n) = Part(a, b)
           => Served(s, n) = [first |-> a, stop |-> b + 1, size |-> n]
  BY ServedIs
<1>6. CASE At(s, i) = Dash
  <2>1. i + 1 \in 1..Len(s) + 1
    <3>1. i <= Len(s)
      BY <1>1, <1>6 DEF At, Dash, NUL
    <3> QED
      BY <1>1, <3>1
  <2>2. SkipSpaces(s, i + 1) \in 1..Len(s) + 1
    <3>1. SkipSpaces(s, i + 1) \in i + 1..Len(s) + 1
      BY <2>1, SpacesStop
    <3> QED
      BY <2>1, <3>1
  <2>3. \/ parse_range(s, n) = None
        \/ \E a \in 0..n : parse_range(s, n) = Part(a, n - 1)
    BY <1>6, <2>2, ParseCases, SuffixWithin, Zenon DEF i
  <2>4. Within(Served(s, n), n)
    BY <1>2, <1>4, <1>5, <2>3, Zenon
  <2> QED
    BY <2>4 DEF Within, PartInFile
<1>7. CASE At(s, i) \in Digits
  <2>1. \/ parse_range(s, n) = None
        \/ \E a \in 0..n, b \in 0..n - 1 : parse_range(s, n) = Part(a, b)
    BY <1>1, <1>7, ParseCases, FromToWithin, Zenon DEF i
  <2>2. Within(Served(s, n), n)
    BY <1>2, <1>3, <1>5, <2>1, Zenon
  <2> QED
    BY <2>2 DEF Within, PartInFile
<1>8. CASE At(s, i) # Dash /\ At(s, i) \notin Digits
  <2>1. Served(s, n) = Whole(n)
    BY <1>5, <1>8, ParseCases, Zenon DEF i
  <2> QED
    BY <1>2, <2>1 DEF Within, PartInFile
<1> QED
  BY <1>6, <1>7, <1>8, Zenon

\* "a-b".
LEMMA FromToMeant ==
  ASSUME NEW s \in Seq(Nat), NEW n \in Nat, NEW d \in 1..Len(s), s[d] = Dash,
         Numeral(SubSeq(s, 1, d - 1)), Numeral(SubSeq(s, d + 1, Len(s))),
         Value(SubSeq(s, d + 1, Len(s))) < Wrap,
         Value(SubSeq(s, 1, d - 1)) <= Value(SubSeq(s, d + 1, Len(s)))
  PROVE  LET a == Value(SubSeq(s, 1, d - 1))
             b == Value(SubSeq(s, d + 1, Len(s)))
         IN  Served(s, n) = IF b < n THEN [first |-> a, stop |-> b + 1, size |-> n] ELSE Whole(n)
<1> DEFINE a == Value(SubSeq(s, 1, d - 1))
           b == Value(SubSeq(s, d + 1, Len(s)))
<1>1. /\ At(s, d) = Dash /\ Dash \notin Digits /\ Dash # Space
      /\ At(s, Len(s) + 1) \notin Digits /\ Space \notin Digits
  BY DEF At, Dash, Digits, Space, NUL
<1>2. /\ 1 \in 1..Len(s) + 1 /\ d \in 1..Len(s) + 1 /\ d + 1 \in 1..Len(s) + 1
      /\ Len(s) + 1 \in d + 1..Len(s) + 1 /\ (Len(s) + 1) - 1 = Len(s)
  OBVIOUS
<1>3. a \in Nat /\ b \in Nat /\ a < Wrap
  <2>1. SubSeq(s, 1, d - 1) \in Seq(Nat) /\ SubSeq(s, d + 1, Len(s)) \in Seq(Nat)
    OBVIOUS
  <2>2. a \in Nat /\ b \in Nat
    BY <2>1, NumbersTyped, Zenon
  <2> QED
    BY <2>2, RangeAssumption
<1>4. At(s, 1) \in Digits /\ At(s, d + 1) \in Digits
  BY <1>2, NumeralStarts
<1>5. SkipSpaces(s, 1) = 1 /\ SkipSpaces(s, d) = d /\ SkipSpaces(s, d + 1) = d + 1
  BY <1>1, <1>2, <1>4, SpacesStop, Zenon
<1>6. SkipDigits(s, 1) = d /\ Number(s, 1) = a
  BY <1>1, <1>2, <1>3, NumberIs
<1>7. Number(s, d + 1) = b
  BY <1>1, <1>2, NumberIs
<1>8. parse_range(s, n) = FromTo(s, 1, n)
  BY <1>4, <1>5, ParseCases, Zenon
<1> HIDE DEF a, b
<1>9. FromTo(s, 1, n) = IF a >= n \/ b >= n THEN None ELSE Part(a, b)
  BY <1>1, <1>4, <1>5, <1>6, <1>7, Zenon DEF FromTo
<1>10. a <= b
  BY DEF a, b
<1>11. /\ b < n => FromTo(s, 1, n) = Part(a, b)
       /\ ~(b < n) => FromTo(s, 1, n) = None
  BY <1>3, <1>9, <1>10
<1> QED
  BY <1>8, <1>11, ServedIs DEF a, b

\* "a-".
LEMMA FromMeant ==
  ASSUME NEW s \in Seq(Nat), NEW n \in Nat, NEW d \in 1..Len(s), s[d] = Dash,
         Numeral(SubSeq(s, 1, d - 1)), SubSeq(s, d + 1, Len(s)) = <<>>,
         Value(SubSeq(s, 1, d - 1)) < Wrap
  PROVE  LET a == Value(SubSeq(s, 1, d - 1))
         IN  Served(s, n) =
               IF a < n THEN [first |-> a, stop |-> (n - 1) + 1, size |-> n] ELSE Whole(n)
<1> DEFINE a == Value(SubSeq(s, 1, d - 1))
<1>1. d = Len(s)
  <2>1. Len(SubSeq(s, d + 1, Len(s))) = Len(s) - d
    OBVIOUS
  <2>2. Len(<<>>) = 0
    OBVIOUS
  <2>3. Len(SubSeq(s, d + 1, Len(s))) = 0
    BY <2>2, Zenon
  <2> QED
    BY <2>1, <2>3
<1>2. /\ At(s, d) = Dash /\ Dash \notin Digits /\ Dash # Space /\ Space \notin Digits
      /\ At(s, d + 1) \notin Digits /\ At(s, d + 1) # Space
  BY <1>1 DEF At, Dash, Digits, Space, NUL
<1>3. 1 \in 1..Len(s) + 1 /\ d \in 1..Len(s) + 1 /\ d + 1 \in 1..Len(s) + 1
  OBVIOUS
<1>4. a \in Nat
  <2>1. SubSeq(s, 1, d - 1) \in Seq(Nat)
    OBVIOUS
  <2> QED
    BY <2>1, NumbersTyped, Zenon
<1>5. At(s, 1) \in Digits
  BY <1>3, NumeralStarts
<1>6. SkipSpaces(s, 1) = 1 /\ SkipSpaces(s, d) = d /\ SkipSpaces(s, d + 1) = d + 1
  BY <1>2, <1>3, <1>5, SpacesStop, Zenon
<1>7. SkipDigits(s, 1) = d /\ Number(s, 1) = a
  BY <1>2, <1>3, NumberIs
<1>8. parse_range(s, n) = FromTo(s, 1, n)
  BY <1>5, <1>6, ParseCases, Zenon
<1> HIDE DEF a
<1>9. FromTo(s, 1, n) = IF a >= n THEN None ELSE Part(a, n - 1)
  BY <1>2, <1>6, <1>7, Zenon DEF FromTo
<1>10. /\ a < n => FromTo(s, 1, n) = Part(a, n - 1)
       /\ ~(a < n) => FromTo(s, 1, n) = None
  BY <1>4, <1>9
<1> QED
  BY <1>8, <1>10, ServedIs DEF a

\* "-n".
LEMMA SuffixMeant ==
  ASSUME NEW s \in Seq(Nat), NEW n \in Nat, 1 \in 1..Len(s), s[1] = Dash,
         Numeral(SubSeq(s, 2, Len(s))), Value(SubSeq(s, 2, Len(s))) < Wrap
  PROVE  LET b == Value(SubSeq(s, 2, Len(s)))
         IN  Served(s, n) =
               IF b < n THEN [first |-> n - b, stop |-> (n - 1) + 1, size |-> n] ELSE Whole(n)
<1> DEFINE b == Value(SubSeq(s, 2, Len(s)))
<1>1. /\ At(s, 1) = Dash /\ Dash # Space /\ Space \notin Digits
      /\ At(s, Len(s) + 1) \notin Digits
  BY DEF At, Dash, Digits, Space, NUL
<1>2. /\ 1 \in 1..Len(s) + 1 /\ 2 \in 1..Len(s) + 1 /\ 1 + 1 = 2
      /\ Len(s) + 1 \in 2..Len(s) + 1 /\ (Len(s) + 1) - 1 = Len(s)
  OBVIOUS
<1>3. b \in Nat
  <2>1. SubSeq(s, 2, Len(s)) \in Seq(Nat)
    OBVIOUS
  <2> QED
    BY <2>1, NumbersTyped, Zenon
<1>4. At(s, 2) \in Digits
  BY <1>2, NumeralStarts
<1>5. SkipSpaces(s, 1) = 1 /\ SkipSpaces(s, 2) = 2
  BY <1>1, <1>2, <1>4, SpacesStop, Zenon
<1>6. Number(s, 2) = b
  BY <1>1, <1>2, NumberIs
<1>7. parse_range(s, n) = Suffix(s, 2, n)
  BY <1>1, <1>2, <1>5, ParseCases, Zenon
<1> HIDE DEF b
<1>8. Suffix(s, 2, n) = IF b < n THEN Part(n - b, n - 1) ELSE None
  BY <1>4, <1>6, Zenon DEF Suffix
<1>9. /\ b < n => Suffix(s, 2, n) = Part(n - b, n - 1)
      /\ ~(b < n) => Suffix(s, 2, n) = None
  BY <1>8
<1> QED
  BY <1>7, <1>9, ServedIs DEF b

LEMMA AlwaysMeant ==
  ASSUME NEW s \in Seq(Nat), NEW n \in Nat
  PROVE  WellFormedMeant(s, n)
<1> SUFFICES ASSUME NEW d \in 1..Len(s), s[d] = Dash
             PROVE
               LET before == SubSeq(s, 1, d - 1)
                   after == SubSeq(s, d + 1, Len(s))
                   a == Value(before)
                   b == Value(after)
                   PartOf(x, y) == [first |-> x, stop |-> y + 1, size |-> n]
               IN  /\ Numeral(before) /\ Numeral(after) /\ b < Wrap /\ a <= b
                        => Served(s, n) = (IF b < n THEN PartOf(a, b) ELSE Whole(n))
                   /\ Numeral(before) /\ after = <<>> /\ a < Wrap
                        => Served(s, n) = (IF a < n THEN PartOf(a, n - 1) ELSE Whole(n))
                   /\ before = <<>> /\ Numeral(after) /\ b \in 1..Wrap - 1
                        => Served(s, n) = (IF b < n THEN PartOf(n - b, n - 1) ELSE Whole(n))
  <2>1. DOMAIN s = 1..Len(s)
    OBVIOUS
  <2> QED
    BY <2>1, Zenon DEF WellFormedMeant
<1> DEFINE before == SubSeq(s, 1, d - 1)
           after == SubSeq(s, d + 1, Len(s))
           a == Value(before)
           b == Value(after)
           PartOf(x, y) == [first |-> x, stop |-> y + 1, size |-> n]
<1>1. ASSUME Numeral(before), Numeral(after), b < Wrap, a <= b
      PROVE  Served(s, n) = IF b < n THEN PartOf(a, b) ELSE Whole(n)
  BY <1>1, FromToMeant, Zenon
<1>2. ASSUME Numeral(before), after = <<>>, a < Wrap
      PROVE  Served(s, n) = IF a < n THEN PartOf(a, n - 1) ELSE Whole(n)
  BY <1>2, FromMeant, Zenon
<1>3. ASSUME before = <<>>, Numeral(after), b \in 1..Wrap - 1
      PROVE  Served(s, n) = IF b < n THEN PartOf(n - b, n - 1) ELSE Whole(n)
  <2>1. d = 1
    <3>1. Len(SubSeq(s, 1, d - 1)) = d - 1
      OBVIOUS
    <3>2. Len(<<>>) = 0
      OBVIOUS
    <3>3. Len(SubSeq(s, 1, d - 1)) = 0
      BY <1>3, <3>2, Zenon
    <3> QED
      BY <3>1, <3>3
  <2>2. 1 \in 1..Len(s) /\ s[1] = Dash /\ d + 1 = 2
    BY <2>1
  <2>3. after = SubSeq(s, 2, Len(s))
    BY <2>2, Zenon
  <2>4. b < Wrap
    <3> HIDE DEF b
    <3> QED
      BY <1>3, RangeAssumption
  <2> QED
    BY <1>3, <2>2, <2>3, <2>4, SuffixMeant, Zenon
<1> QED
  BY <1>1, <1>2, <1>3, Zenon

\* What is asked for, and of how large a file.
AskInv == text \in Seq(Nat) /\ part.size \in Nat

LEMMA AskInitInv == ASSUME AskInit PROVE AskInv
<1>1. Characters \subseteq Nat
  BY RangeAssumption DEF Digits, Space, Dash, Other
<1>2. \A n \in 0..MaxLen : n \in Nat
  OBVIOUS
<1>3. \A n \in Nat : [1..n -> Characters] \subseteq Seq(Nat)
  <2>1. \A n \in Nat : [1..n -> Characters] \subseteq [1..n -> Nat]
    BY <1>1
  <2> QED
    BY <2>1, SeqDef, Zenon
<1>4. text \in Seq(Nat)
  BY <1>2, <1>3, Zenon DEF AskInit, Texts
<1>5. part.size \in Nat
  BY RelayAssumption DEF AskInit, Init
<1> QED
  BY <1>4, <1>5 DEF AskInv

LEMMA AskStepInv == ASSUME AskInv, [AskNext]_<<vars, text>> PROVE AskInv'
<1>1. part' = part
  <2>1. CASE Next
    BY <2>1 DEF Next, ReadStaticFile, SendPartFile, RecvNextRequest, Abort
  <2>2. CASE UNCHANGED <<vars, text>>
    BY <2>2 DEF vars
  <2> QED
    BY <2>1, <2>2 DEF AskNext
<1>2. text' = text \/ text' = <<>>
  BY DEF AskNext
<1>3. <<>> \in Seq(Nat)
  OBVIOUS
<1> QED
  BY <1>1, <1>2, <1>3, Zenon DEF AskInv

\* parse_range takes every header of the forms "a-b", "a-" and "-n" whose numbers do
\* not wrap for what it says, however long it is and however large the file; and of
\* any other text, spaces, junk and numbers that wrap, nothing outside the file is
\* served.
THEOREM RangesAreMeant == AskSpec => []RangesMeant
<1>1. AskInit => AskInv
  BY AskInitInv
<1>2. AskInv /\ [AskNext]_<<vars, text>> => AskInv'
  BY AskStepInv
<1>3. AskInv => RangesMeant
  BY AlwaysMeant, AlwaysInFile DEF AskInv, RangesMeant
<1> QED
  BY <1>1, <1>2, <1>3, PTL DEF AskSpec
=============================================================================
