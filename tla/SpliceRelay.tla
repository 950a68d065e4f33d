----------------------------- MODULE SpliceRelay -----------------------------
(***************************************************************************)
(* A file on its way to a browser of the Linux server: my_splice_start and *)
(* my_splice_start2 of src/src/linux/server.c, and the two states that run *)
(* them.  A piece is spliced from the file into a pipe, then as much as    *)
(* that from the pipe to the socket.                                       *)
(***************************************************************************)
EXTENDS Integers

CONSTANTS
  Sizes,         \* of files when they are asked for
  SpliceSize,    \* MY_SPLICE_SIZE
  Interrupted    \* whether a splice to the socket may end short

ASSUME SpliceAssumption ==
  /\ Sizes \subseteq Nat
  /\ SpliceSize \in Nat \ {0}
  /\ Interrupted \in BOOLEAN

VARIABLES
  filesize,  \* which was announced
  pos,       \* the file's position
  pipe,      \* bytes in pfds
  piece,     \* what the splice in flight is for
  sent,      \* history: bytes sent
  so_type

svars == <<filesize, pos, pipe, piece, sent, so_type>>

Smaller(a, b) == IF a < b THEN a ELSE b

SpliceInit ==
  /\ filesize \in Sizes
  /\ pos = 0 /\ pipe = 0 /\ piece = 0 /\ sent = 0
  /\ so_type = "ss_responce_file"

\* my_splice_start: the header or a piece has been sent.  At the end of the file
\* the pipe is closed with what is in it.
\* Mutant: a whole piece is asked for.
SpliceStartFull ==
  /\ so_type = "ss_responce_file"
  /\ piece' = SpliceSize
  /\ so_type' = IF filesize = pos THEN "ss_recv_header" ELSE "ss_responce_file2"
  /\ UNCHANGED <<filesize, pos, pipe, sent>>
SpliceStart ==
  /\ so_type = "ss_responce_file"
  /\ piece' = Smaller(filesize - pos, SpliceSize)
  /\ so_type' = IF filesize = pos THEN "ss_recv_header" ELSE "ss_responce_file2"
  /\ UNCHANGED <<filesize, pos, pipe, sent>>

\* my_splice_start2, of what came into the pipe.  A file that has become shorter
\* gives nothing, and the client is closed; one that has grown, no more than asked.
SpliceStart2 ==
  /\ so_type = "ss_responce_file2"
  /\ \E n \in 1..piece : pos' = pos + n /\ pipe' = pipe + n /\ piece' = n
  /\ so_type' = "sending"
  /\ UNCHANGED <<filesize, sent>>

\* The kernel's splice from the pipe to the socket.
Spliced ==
  /\ so_type = "sending"
  /\ \E n \in 1..Smaller(piece, pipe) :
       /\ ~Interrupted => n = Smaller(piece, pipe)
       /\ sent' = sent + n /\ pipe' = pipe - n
  /\ so_type' = "ss_responce_file"
  /\ UNCHANGED <<filesize, pos, piece>>

\* A splice that fails or moves nothing: my_delete_client_http.
Closes ==
  /\ so_type \in {"ss_responce_file", "ss_responce_file2", "sending"}
  /\ so_type' = "closed"
  /\ UNCHANGED <<filesize, pos, pipe, piece, sent>>

SpliceNext == SpliceStart \/ SpliceStart2 \/ Spliced \/ Closes

SpliceSpec == SpliceInit /\ [][SpliceNext]_svars

(***************************************************************************)
(* Properties                                                              *)
(***************************************************************************)
SpliceTypeOK ==
  /\ filesize \in Sizes
  /\ pos \in Nat /\ pipe \in Nat /\ piece \in 0..SpliceSize /\ sent \in Nat
  /\ so_type \in {"ss_responce_file", "ss_responce_file2", "sending", "ss_recv_header", "closed"}

\* Every byte taken out of the file has been sent, or is in the pipe, where the
\* next piece comes behind it; no more is taken than was announced.
NothingLost == sent + pipe = pos /\ pos <= filesize

\* The pipe takes a piece only when it is empty.
PipeDrained == so_type \in {"ss_responce_file", "ss_responce_file2", "ss_recv_header"} => pipe = 0

\* A response is as Delivery has it.
S == INSTANCE Delivery
     WITH want <- filesize, got <- sent,
          status <- CASE so_type = "ss_recv_header" -> "complete"
                      [] so_type = "closed" -> "broken"
                      [] OTHER -> "open"

SpliceDelivers == S!Spec
=============================================================================
