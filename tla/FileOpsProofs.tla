---------------------------- MODULE FileOpsProofs ----------------------------
(***************************************************************************)
(* What FileOps promises, for any requests, any tree, any links and any    *)
(* limits, whatever other processes do to the tree.                        *)
(***************************************************************************)
EXTENDS FileOps, SequenceTheorems, FiniteSetTheorems, WellFoundedInduction, TLAPS

(***************************************************************************)
(* The inductive invariant                                                 *)
(***************************************************************************)
Readers ==
  [url : Seq(Chars) \cup {Unset, Never}, newname : Seq(Chars) \cup {Unset},
   flags : SUBSET (Heads \cup {"finished"})]
Calls == [path : Seq(Chars), todo : SUBSET Chars]

\* What a piece brings of a request.
PieceOf(piece, r) ==
  /\ piece.fields \subseteq Fields(r)
  /\ piece.value # Unset => piece.value \in NewNamesOf(r)

\* The header being read, and what the callbacks have made of it.
Reading ==
  /\ reader \in Readers
  /\ req.left \in Seq(Pieces)
  /\ \A k \in DOMAIN req.left : PieceOf(req.left[k], req.ask)
  /\ req.left # <<>> => Len(req.left) < Len(req.ask.pieces)
  /\ pc # "recv" \/ past # {} \/ req.left # <<>> => count > 0
  /\ pc = "open" => req.ask.method \in {"GET", "DELETE"}
  /\ reader.url = Never <=> pc = "spins"
  /\ count > 0 /\ ~Split =>
       /\ pc = "spins" <=> OnUrl(Url) = Never
       /\ pc # "recv" => reader.url = OnUrl(Url)

\* The headers in force are this request's, or an earlier one's since the last
\* response that was not a file.
Asked == past \cup (IF pc = "recv" /\ req.left = <<>> THEN {} ELSE HeadsOf(req.ask))
Carried ==
  /\ reader.newname # Unset => "newname" \in Asked /\ reader.newname \in NewNames
  /\ "recursively" \in reader.flags => "recursively" \in Asked
  /\ "newname" \in reader.flags => "newname" \in Asked

\* X-NewName is in the pieces; there is a part of its value in them, and after the name.
Names(pieces) == \E k \in DOMAIN pieces : "newname" \in pieces[k].fields
Values(pieces) == \E k \in DOMAIN pieces : pieces[k].value # Unset
Ordered(pieces) ==
  \A k \in DOMAIN pieces : "newname" \in pieces[k].fields =>
    \E j \in DOMAIN pieces : k <= j /\ pieces[j].value # Unset

\* A header that is waited for to its end brings its new name with it.
Waits(pieces) ==
  /\ "finished" \notin reader.flags
  /\ "newname" \in Fields(req.ask) =>
       Names(pieces) \/ "newname" \in reader.flags \/ reader.newname # Unset
  /\ "newname" \in reader.flags => Values(pieces)
Brought == "newname" \in Fields(req.ask) => reader.newname # Unset
Coming ==
  /\ Ordered(req.left)
  /\ pc = "recv" /\ req.left = <<>> => reader.flags = {} \/ "finished" \in reader.flags
  /\ pc = "recv" /\ req.left # <<>> /\ ~req.early => Waits(req.left)
  /\ pc \notin {"recv", "spins"} =>
       "finished" \in reader.flags /\ (req.early \/ (req.left = <<>> /\ Brought))

\* The recursion starts at what url_str names; its other calls are for names alone.
Recursing ==
  /\ stack \in Seq(Calls)
  /\ stack # <<>> => stack[1].path = PathOf(reader.url) /\ reader.url \in Seq(Chars)
  /\ \A k \in DOMAIN stack : k > 1 => Len(stack[k].path) = 1
  /\ pc \in {"opendir", "readdir"} => reader.url # Unset /\ ~Empty(reader.url)

\* Nothing has been removed, or gone wrong, before the recursion.
Untouched ==
  /\ pc # "recv" => reply = None
  /\ pc \notin {"recv", "readdir"} => removed = {} /\ slips = {}

Errors == {"404", "errno", "no errno", "accepted"}
Answers == {"created", "listing", "file", "renamed", "deleted"} \cup Errors

IInv ==
  /\ TypeOK /\ Reading /\ Carried /\ Coming /\ Recursing /\ Untouched
  /\ OkMeansGone /\ ErrorsTouchNothing /\ DirsClosed
  /\ reply.kind \in Answers \cup {"none"}

(***************************************************************************)
(* Numbers, and functions by recursion                                     *)
(***************************************************************************)
Before == {ss \in Nat \X Nat : ss[1] < ss[2]}

LEMMA BeforeIsWellFounded == IsWellFoundedOn(Before, Nat)
<1>1. OpToRel(<, Nat) = Before
  BY DEF OpToRel, Before
<1> QED
  BY <1>1, NatLessThanWellFounded, Zenon

\* Min of some natural numbers is one of them, and no other is less.
LEMMA MinIsMember ==
  ASSUME NEW T \in SUBSET Nat, T # {}
  PROVE  Min(T) \in T /\ \A y \in T : Min(T) =< y
<1>1. PICK x \in T : \A y \in T : <<y, x>> \notin Before
  BY WFMin, BeforeIsWellFounded
<1>2. \A y \in T : x =< y
  <2>1. \A m, n \in Nat : <<m, n>> \notin Before => n =< m
    BY DEF Before
  <2> QED
    BY <1>1, <2>1
<1> QED
  BY <1>2, Zenon DEF Min

\* Induction, for what a set says of a number.
LEMMA Induction ==
  ASSUME NEW T, 0 \in T, \A n \in Nat : n \in T => n + 1 \in T
  PROVE  Nat \subseteq T
<1> SUFFICES ASSUME Nat \ T # {} PROVE FALSE
  OBVIOUS
<1> DEFINE m == Min(Nat \ T)
<1>1. m \in Nat \ T /\ \A y \in Nat \ T : m =< y
  BY MinIsMember
<1> HIDE DEF m
<1>2. m # 0 /\ m - 1 \in Nat /\ m - 1 \notin Nat \ T
  BY <1>1
<1> QED
  BY <1>1, <1>2

Computes(w, x, N, F) == w[0] = x /\ \A n \in 1..N : w[n] = F[<<n, w[n - 1]>>]

\* A function defined from its value before is there, and has its values in S.
LEMMA Recursion ==
  ASSUME NEW S, NEW x \in S, NEW N \in Nat, NEW F \in [Nat \X S -> S]
  PROVE  \E w \in [0..N -> S] : Computes(w, x, N, F)
<1> DEFINE Good(n, w) == \A k \in 0..n : w[k] = IF k = 0 THEN x ELSE F[<<k, w[k - 1]>>]
           T == {n \in Nat : \E w \in [0..n -> S] : Good(n, w)}
<1>1. 0 \in T
  <2>1. [k \in 0..0 |-> x] \in [0..0 -> S] /\ Good(0, [k \in 0..0 |-> x])
    OBVIOUS
  <2> QED
    BY <2>1, Zenon
<1>2. ASSUME NEW n \in Nat, n \in T PROVE n + 1 \in T
  <2>1. PICK w \in [0..n -> S] : Good(n, w)
    BY <1>2
  <2> DEFINE v == [k \in 0..n + 1 |-> IF k = n + 1 THEN F[<<n + 1, w[n]>>] ELSE w[k]]
  <2>2. F[<<n + 1, w[n]>>] \in S
    BY <2>1
  <2>3. v \in [0..n + 1 -> S]
    BY <2>1, <2>2
  <2>4. Good(n + 1, v)
    <3>1. v[n + 1] = F[<<n + 1, w[n]>>] /\ \A k \in 0..n : v[k] = w[k]
      <4>1. n + 1 \in 0..n + 1 /\ \A k \in 0..n : k \in 0..n + 1 /\ k # n + 1
        OBVIOUS
      <4> QED
        BY <4>1, Zenon
    <3> HIDE DEF v
    <3>2. v[n + 1] = F[<<n + 1, v[n]>>]
      <4>1. n \in 0..n
        OBVIOUS
      <4> QED
        BY <3>1, <4>1, Zenon
    <3>3. ASSUME NEW k \in 0..n
          PROVE  v[k] = IF k = 0 THEN x ELSE F[<<k, v[k - 1]>>]
      <4>1. k # 0 => k - 1 \in 0..n
        OBVIOUS
      <4> QED
        BY <2>1, <3>1, <4>1
    <3>4. \A k \in 0..n + 1 : k \in 0..n \/ k = n + 1
      OBVIOUS
    <3> SUFFICES ASSUME NEW k \in 0..n + 1
                 PROVE  v[k] = IF k = 0 THEN x ELSE F[<<k, v[k - 1]>>]
      BY Zenon
    <3>5. CASE k = n + 1
      <4>1. k # 0 /\ k - 1 = n
        BY <3>5
      <4> QED
        BY <3>2, <3>5, <4>1
    <3> QED
      BY <3>3, <3>4, <3>5, Zenon
  <2>5. n + 1 \in Nat
    OBVIOUS
  <2> HIDE DEF v, Good
  <2> QED
    BY <2>3, <2>4, <2>5, Zenon
<1>3. N \in T
  BY <1>1, <1>2, Induction, Zenon
<1>4. PICK w \in [0..N -> S] : Good(N, w)
  BY <1>3
<1>5. 0 \in 0..N /\ \A n \in 1..N : n \in 0..N /\ n # 0
  OBVIOUS
<1> QED
  BY <1>4, <1>5, Zenon DEF Computes

\* What holds of the first value, and of each when of the one before, holds of all.
LEMMA Stays ==
  ASSUME NEW f, NEW N \in Nat, NEW S, f[0] \in S,
         \A n \in 1..N : f[n - 1] \in S => f[n] \in S
  PROVE  \A n \in 0..N : f[n] \in S
<1> DEFINE T == {n \in Nat : n =< N => f[n] \in S}
<1>1. \A n \in Nat : n \in T => n + 1 \in T
  <2> SUFFICES ASSUME NEW n \in Nat, n \in T PROVE n + 1 =< N => f[n + 1] \in S
    OBVIOUS
  <2>1. n + 1 =< N => n + 1 \in 1..N /\ n + 1 - 1 = n /\ n =< N
    OBVIOUS
  <2> QED
    BY <2>1
<1>2. 0 \in T
  OBVIOUS
<1> HIDE DEF T
<1>3. Nat \subseteq T
  BY <1>1, <1>2, Induction, Zenon
<1> QED
  BY <1>3 DEF T

(***************************************************************************)
(* Urls and paths are characters                                           *)
(***************************************************************************)
LEMMA SomeCharacters == "i" \in Chars /\ " " \in Chars
BY FileOpsAssumption, Zenon

LEMMA LimitsAreNumbers ==
  MaxLinks \in Nat /\ MaxDirs \in Nat /\ MaxRequests \in Nat /\ MaxChanges \in Nat
BY FileOpsAssumption, Zenon

LEMMA WordsApart ==
  /\ Unset \notin Seq(Chars) /\ Never \notin Seq(Chars) /\ Nowhere \notin Seq(Chars)
  /\ Unset # Never
<1>1. Unset[1] \notin Chars /\ Never[1] \notin Chars /\ Nowhere[1] \notin Chars
  BY FileOpsAssumption DEF Unset, Never, Nowhere
<1>2. Len(Unset) = 1 /\ Len(Never) = 1 /\ Len(Nowhere) = 1
  BY DEF Unset, Never, Nowhere
<1>3. \A s \in Seq(Chars) : Len(s) = 1 => s[1] \in Chars
  OBVIOUS
<1>4. Unset # Never
  BY DEF Unset, Never
<1> QED
  BY <1>1, <1>2, <1>3, <1>4

LEMMA DecodedIsCharacter == \A c1, c2 : Decoded(c1, c2) \in Chars
BY FileOpsAssumption DEF Decoded

LEMMA IndexIsPath == Index \in Seq(Chars)
<1>1. \A c \in Chars : <<c>> \in Seq(Chars)
  OBVIOUS
<1> QED
  BY <1>1, SomeCharacters, Zenon DEF Index

States == [ptr : Nat \ {0}, str : Seq(Chars)]

LEMMA IterationTyped ==
  ASSUME NEW text \in Seq(Chars), NEW s \in States
  PROVE  Iteration(text, s) \in States
<1>1. s.ptr \in Nat \ {0} /\ s.str \in Seq(Chars)
  BY DEF States
<1>2. CASE s.ptr > Len(text) \/ Stuck(text, s.ptr)
  <2>1. s.ptr \notin Hexes(text)
    <3>1. \A n \in Hexes(text) : ~(n > Len(text))
      BY DEF Hexes
    <3> QED
      BY <1>2, <3>1 DEF Stuck
  <2> QED
    BY <1>2, <2>1, Zenon DEF Iteration
<1>3. CASE ~(s.ptr > Len(text) \/ Stuck(text, s.ptr))
  <2>1. s.ptr \in 1..Len(text)
    BY <1>1, <1>3
  <2>2. text[s.ptr] \in Chars
    BY <2>1
  <2> DEFINE c == IF text[s.ptr] = "+" THEN " " ELSE text[s.ptr]
             d == Decoded(text[s.ptr + 1], text[s.ptr + 2])
  <2>3. c \in Chars /\ d \in Chars
    BY <2>2, DecodedIsCharacter, SomeCharacters, Zenon
  <2>4. Iteration(text, s) = [ptr |-> s.ptr + 3, str |-> Append(s.str, d)]
        \/ Iteration(text, s) = [ptr |-> s.ptr + 1, str |-> Append(s.str, c)]
    BY <1>3 DEF Iteration
  <2> HIDE DEF c, d
  <2> QED
    <3>1. s.ptr + 3 \in Nat \ {0} /\ s.ptr + 1 \in Nat \ {0}
      BY <1>1
    <3>2. Append(s.str, d) \in Seq(Chars) /\ Append(s.str, c) \in Seq(Chars)
      BY <1>1, <2>3
    <3> QED
      <4>1. \A k \in Nat \ {0}, t \in Seq(Chars) : [ptr |-> k, str |-> t] \in States
        BY DEF States
      <4> QED
        BY <2>4, <3>1, <3>2, <4>1, Zenon
<1> QED
  BY <1>2, <1>3

\* The iterations of the loop, one from the other.
LEMMA IterationsAre ==
  ASSUME NEW text \in Seq(Chars)
  PROVE  /\ Iterations(text)[0] = [ptr |-> 1, str |-> <<>>]
         /\ \A n \in 1..Len(text) : Iterations(text)[n] = Iteration(text, Iterations(text)[n - 1])
         /\ \A n \in 0..Len(text) : Iterations(text)[n] \in States
<1> DEFINE x == [ptr |-> 1, str |-> <<>>]
           N == Len(text)
           F == [ks \in Nat \X States |-> Iteration(text, ks[2])]
           it == Iterations(text)
<1>1. x \in States /\ N \in Nat
  BY DEF States
<1>2. F \in [Nat \X States -> States]
  BY IterationTyped
<1> HIDE DEF x
<1>3. PICK w \in [0..N -> States] : Computes(w, x, N, F)
  <2> HIDE DEF F, N
  <2> QED
    BY <1>1, <1>2, Recursion
<1>4. \A n \in 1..N : w[n] = Iteration(text, w[n - 1])
  <2> SUFFICES ASSUME NEW n \in 1..N PROVE F[<<n, w[n - 1]>>] = Iteration(text, w[n - 1])
    BY <1>3, Zenon DEF Computes
  <2>1. n \in Nat /\ n - 1 \in 0..N
    BY <1>1
  <2>2. w[n - 1] \in States
    BY <1>3, <2>1
  <2> QED
    BY <2>1, <2>2
<1>5. w = [n \in 0..N |-> IF n = 0 THEN x ELSE Iteration(text, w[n - 1])]
  BY <1>3, <1>4 DEF Computes
<1>6. it = [n \in 0..N |-> IF n = 0 THEN x ELSE Iteration(text, it[n - 1])]
  BY <1>5, Zenon DEF Iterations, x
<1> HIDE DEF it, F
<1>7. it[0] = x /\ \A n \in 1..N : it[n] = Iteration(text, it[n - 1])
  <2>1. 0 \in 0..N /\ \A n \in 1..N : n \in 0..N /\ n # 0
    BY <1>1
  <2> HIDE DEF N
  <2> QED
    BY <1>6, <2>1, Zenon
<1>8. \A n \in 0..N : it[n] \in States
  <2>1. \A n \in 1..N : it[n - 1] \in States => it[n] \in States
    BY <1>7, IterationTyped
  <2> HIDE DEF N
  <2> QED
    BY <1>1, <1>7, <2>1, Stays, Zenon
<1> QED
  BY <1>7, <1>8 DEF it, x

\* The loop ends with a string of characters, or never.
LEMMA OnUrlTyped ==
  ASSUME NEW text \in Seq(Chars)
  PROVE  OnUrl(text) \in Seq(Chars) \cup {Unset, Never}
<1>1. ASSUME NEW t \in Seq(Chars) PROVE Loop(t) \in Seq(Chars) \cup {Never}
  <2>1. Iterations(t)[Len(t)] \in States
    BY IterationsAre
  <2> QED
    BY <2>1 DEF Loop, States
<1>2. Len(text) > 1 => Tail(text) \in Seq(Chars)
  OBVIOUS
<1>3. OnUrl(text) = Unset \/ (Len(text) > 1 /\ OnUrl(text) = Loop(Tail(text)))
  BY DEF OnUrl
<1> QED
  BY <1>1, <1>2, <1>3, Zenon

LEMMA PathTyped ==
  ASSUME NEW str \in Seq(Chars)
  PROVE  PathOf(str) \in Seq(Chars)
<1> DEFINE S == Seq(Chars)
           N == Len(str)
           x == << >>
           F == [np \in Nat \X S |-> IF np[1] \in 1..N THEN Longer(np[2], str[np[1]]) ELSE x]
           path == Slashless(str)
<1>1. x \in S /\ N \in Nat
  OBVIOUS
<1>2. \A n \in 1..N, p \in S : Longer(p, str[n]) \in S
  BY DEF Longer
<1>3. F \in [Nat \X S -> S]
  BY <1>1, <1>2
<1>4. PICK w \in [0..N -> S] : Computes(w, x, N, F)
  <2> HIDE DEF F, N, S, x
  <2> QED
    BY <1>1, <1>3, Recursion
<1>5. \A n \in 1..N : w[n] = Longer(w[n - 1], str[n])
  <2> SUFFICES ASSUME NEW n \in 1..N PROVE F[<<n, w[n - 1]>>] = Longer(w[n - 1], str[n])
    BY <1>4, Zenon DEF Computes
  <2>1. n \in Nat /\ n - 1 \in 0..N
    BY <1>1
  <2>2. w[n - 1] \in S
    BY <1>4, <2>1
  <2> QED
    BY <2>1, <2>2
<1>6. w = [n \in 0..N |-> IF n = 0 THEN x ELSE Longer(w[n - 1], str[n])]
  <2> HIDE DEF F, S, x, N
  <2> QED
    BY <1>1, <1>4, <1>5 DEF Computes
<1>7. path = [n \in 0..N |-> IF n = 0 THEN x ELSE Longer(path[n - 1], str[n])]
  BY <1>6, Zenon DEF Slashless, x
<1> HIDE DEF path, F
<1>8. path[0] = x /\ \A n \in 1..N : path[n] = Longer(path[n - 1], str[n])
  <2>1. 0 \in 0..N /\ \A n \in 1..N : n \in 0..N /\ n # 0
    BY <1>1
  <2> HIDE DEF N
  <2> QED
    BY <1>7, <2>1, Zenon
<1>9. \A n \in 0..N : path[n] \in S
  <2>1. \A n \in 1..N : path[n - 1] \in S => path[n] \in S
    BY <1>2, <1>8, Zenon
  <2> HIDE DEF N, S, x
  <2> QED
    BY <1>1, <1>8, <2>1, Stays, Zenon
<1>10. CASE Ends(str) = {}
  BY <1>1, <1>9, <1>10 DEF PathOf, path
<1>11. CASE Ends(str) # {}
  <2>1. Ends(str) \in SUBSET Nat /\ Ends(str) \subseteq 1..N
    BY DEF Ends
  <2>2. Min(Ends(str)) - 1 \in 0..N
    BY <1>11, <2>1, MinIsMember
  <2> QED
    BY <1>9, <1>11, <2>2 DEF PathOf, path
<1> QED
  BY <1>10, <1>11

(***************************************************************************)
(* Where paths lead                                                        *)
(***************************************************************************)
LEMMA KindsOfPaths ==
  ASSUME Tidy(tree), NEW p
  PROVE  /\ Kind(p) \in Kinds \cup {"none"}
         /\ Kind(p) # "none" => p \in Seq(Chars)
         /\ Kind(p) \notin {"none", "dir"} => p # << >>
         /\ Kind(p) # "none" /\ p # << >> =>
              p \in DOMAIN tree /\ tree[p] \in Nodes /\ tree[p].kind = Kind(p)
         /\ p \notin Seq(Chars) => p \notin DOMAIN tree
<1>1. << >> \in Seq(Chars)
  OBVIOUS
<1>2. p \in DOMAIN tree => p \in Seq(Chars) /\ tree[p] \in Nodes /\ tree[p].kind \in Kinds
  BY DEF Tidy, Nodes
<1>3. CASE p = << >>
  BY <1>1, <1>2, <1>3 DEF Kind, KindIn, Kinds
<1>4. CASE p # << >> /\ p \in DOMAIN tree
  BY <1>2, <1>4 DEF Kind, KindIn, Kinds
<1>5. CASE p # << >> /\ p \notin DOMAIN tree
  BY <1>5 DEF Kind, KindIn, Kinds
<1> QED
  BY <1>3, <1>4, <1>5

LEMMA FollowTyped ==
  ASSUME Tidy(tree), NEW last \in BOOLEAN
  PROVE  Follow(last) \in [Seq(Chars) -> Seq(Chars)]
<1> SUFFICES ASSUME NEW p \in Seq(Chars), LinksIn(p, last) # {}
             PROVE  tree[SubSeq(p, 1, Min(LinksIn(p, last)))].to
                      \o SubSeq(p, Min(LinksIn(p, last)) + 1, Len(p)) \in Seq(Chars)
  BY DEF Follow
<1> DEFINE k == Min(LinksIn(p, last))
<1>1. LinksIn(p, last) \in SUBSET Nat
  BY DEF LinksIn
<1>2. k \in LinksIn(p, last)
  BY <1>1, MinIsMember
<1> HIDE DEF k
<1>3. k \in 1..Len(p) /\ Kind(SubSeq(p, 1, k)) = "link"
  BY <1>2 DEF LinksIn
<1>4. tree[SubSeq(p, 1, k)] \in Nodes
  BY <1>3, KindsOfPaths
<1>5. tree[SubSeq(p, 1, k)].to \in Seq(Chars) /\ SubSeq(p, k + 1, Len(p)) \in Seq(Chars)
  BY <1>3, <1>4 DEF Nodes
<1> QED
  BY <1>5 DEF k

LEMMA WalkTyped ==
  ASSUME Tidy(tree), NEW p \in Seq(Chars), NEW last \in BOOLEAN
  PROVE  /\ Walk(p, last)[0] = p
         /\ \A n \in 1..MaxLinks : Walk(p, last)[n] = Follow(last)[Walk(p, last)[n - 1]]
         /\ \A n \in 0..MaxLinks : Walk(p, last)[n] \in Seq(Chars)
<1> DEFINE S == Seq(Chars)
           N == MaxLinks
           F == [np \in Nat \X S |-> Follow(last)[np[2]]]
           walk == Walk(p, last)
<1>1. N \in Nat
  BY LimitsAreNumbers
<1>2. Follow(last) \in [S -> S] /\ F \in [Nat \X S -> S]
  BY FollowTyped
<1>3. PICK w \in [0..N -> S] : Computes(w, p, N, F)
  <2> HIDE DEF F, N, S
  <2> QED
    BY <1>1, <1>2, Recursion DEF S
<1>4. \A n \in 1..N : w[n] = Follow(last)[w[n - 1]]
  <2> SUFFICES ASSUME NEW n \in 1..N PROVE F[<<n, w[n - 1]>>] = Follow(last)[w[n - 1]]
    BY <1>3, Zenon DEF Computes
  <2>1. n \in Nat /\ n - 1 \in 0..N
    BY <1>1
  <2>2. w[n - 1] \in S
    BY <1>3, <2>1
  <2> QED
    BY <2>1, <2>2
<1>5. w = [n \in 0..N |-> IF n = 0 THEN p ELSE Follow(last)[w[n - 1]]]
  <2> HIDE DEF F, S, N
  <2> QED
    BY <1>1, <1>3, <1>4 DEF Computes
<1>6. walk = [n \in 0..N |-> IF n = 0 THEN p ELSE Follow(last)[walk[n - 1]]]
  BY <1>5, Zenon DEF Walk
<1> HIDE DEF walk, F
<1>7. walk[0] = p /\ \A n \in 1..N : walk[n] = Follow(last)[walk[n - 1]]
  <2>1. 0 \in 0..N /\ \A n \in 1..N : n \in 0..N /\ n # 0
    BY <1>1
  <2> HIDE DEF N
  <2> QED
    BY <1>6, <2>1, Zenon
<1>8. \A n \in 0..N : walk[n] \in S
  <2>1. \A n \in 1..N : walk[n - 1] \in S => walk[n] \in S
    <3> HIDE DEF S
    <3> QED
      BY <1>2, <1>7
  <2> HIDE DEF N
  <2> QED
    BY <1>1, <1>7, <2>1, Stays, Zenon
<1> QED
  BY <1>7, <1>8 DEF walk

\* A path leads to one without links, to itself if it has none, or nowhere.
LEMMA RealTyped ==
  ASSUME Tidy(tree), NEW p \in Seq(Chars), NEW last \in BOOLEAN
  PROVE  /\ \/ Real(p, last) = Nowhere
            \/ Real(p, last) \in Seq(Chars) /\ LinksIn(Real(p, last), last) = {}
         /\ LinksIn(p, last) = {} => Real(p, last) = p
<1> DEFINE q == Walk(p, last)[MaxLinks]
<1>1. MaxLinks \in 0..MaxLinks
  BY LimitsAreNumbers
<1>2. q \in Seq(Chars)
  BY <1>1, WalkTyped
<1>3. LinksIn(p, last) = {} => q = p
  <2> SUFFICES ASSUME LinksIn(p, last) = {} PROVE q = p
    BY Zenon
  <2>1. Follow(last)[p] = p
    <3>1. DOMAIN Follow(last) = Seq(Chars)
      BY FollowTyped
    <3> QED
      BY <3>1 DEF Follow
  <2>2. \A n \in 1..MaxLinks : Walk(p, last)[n - 1] \in {p} => Walk(p, last)[n] \in {p}
    BY <2>1, WalkTyped
  <2>3. Walk(p, last)[0] \in {p}
    BY WalkTyped
  <2>4. \A n \in 0..MaxLinks : Walk(p, last)[n] \in {p}
    BY <2>2, <2>3, LimitsAreNumbers, Stays, Zenon
  <2> QED
    BY <1>1, <2>4
<1>4. Real(p, last) = IF LinksIn(q, last) = {} THEN q ELSE Nowhere
  <2>1. Real(p, last) = Arrived(last)[q]
    BY Zenon DEF Real
  <2>2. \A r \in Seq(Chars) : Arrived(last)[r] = IF LinksIn(r, last) = {} THEN r ELSE Nowhere
    BY DEF Arrived
  <2> QED
    BY <1>2, <2>1, <2>2, Zenon
<1> HIDE DEF q
<1> QED
  BY <1>2, <1>3, <1>4

LEMMA NothingNowhere ==
  ASSUME Tidy(tree)
  PROVE  Kind(Nowhere) = "none"
BY WordsApart, KindsOfPaths

\* What is there, links followed, is no link.
LEMMA NoLinkIsReal ==
  ASSUME Tidy(tree), NEW p \in Seq(Chars)
  PROVE  Kind(Real(p, TRUE)) \in {"none", "file", "dir"}
<1> DEFINE q == Real(p, TRUE)
<1>1. q = Nowhere \/ (q \in Seq(Chars) /\ LinksIn(q, TRUE) = {})
  BY RealTyped, Zenon
<1> HIDE DEF q
<1>2. CASE q = Nowhere
  BY <1>2, NothingNowhere, Zenon DEF q
<1>3. CASE q \in Seq(Chars) /\ LinksIn(q, TRUE) = {}
  <2>0. Kind(q) \in {"none", "file", "dir", "link"}
    BY KindsOfPaths DEF Kinds
  <2> SUFFICES ASSUME Kind(q) = "link" PROVE FALSE
    BY <2>0 DEF q
  <2>1. q # << >>
    BY KindsOfPaths
  <2>2. Len(q) \in 1..Len(q) /\ SubSeq(q, 1, Len(q)) = q
    BY <1>3, <2>1
  <2>3. Len(q) \in LinksIn(q, TRUE)
    BY <2>2 DEF LinksIn
  <2> QED
    BY <1>3, <2>3
<1> QED
  BY <1>1, <1>2, <1>3 DEF q

\* A name leads to what has this name in the root.
LEMMA NameIsReal ==
  ASSUME Tidy(tree), NEW p \in Seq(Chars), Len(p) = 1
  PROVE  Real(p, FALSE) = p
<1>1. LinksIn(p, FALSE) = {}
  BY DEF LinksIn
<1> QED
  BY <1>1, RealTyped, Zenon

LEMMA PathOrIndexTyped ==
  ASSUME NEW url \in Seq(Chars) \cup {Unset}
  PROVE  PathOrIndex(url) \in Seq(Chars) /\ (url # Unset => PathOrIndex(url) = PathOf(url))
BY IndexIsPath, PathTyped, Zenon DEF PathOrIndex

\* A string leads to a path without links, or nowhere.
LEMMA WhereTyped ==
  ASSUME Tidy(tree), NEW str \in Seq(Chars) \cup {Unset}, NEW last \in BOOLEAN
  PROVE  Where(str, last) \in Seq(Chars) \cup {Nowhere}
BY PathOrIndexTyped, RealTyped, Zenon DEF Where

LEMMA NoLinkIsThere ==
  ASSUME Tidy(tree), NEW str \in Seq(Chars) \cup {Unset}
  PROVE  Kind(Where(str, TRUE)) \in {"none", "file", "dir"}
<1>1. CASE Empty(str)
  BY <1>1, NothingNowhere DEF Where
<1>2. CASE ~Empty(str)
  BY <1>2, PathOrIndexTyped, NoLinkIsReal, Zenon DEF Where
<1> QED
  BY <1>1, <1>2

(***************************************************************************)
(* Trees stay trees                                                        *)
(***************************************************************************)
LEMMA FrontIs ==
  ASSUME NEW S, NEW s \in Seq(S), s # << >>
  PROVE  /\ Front(s) \in Seq(S) /\ Len(Front(s)) = Len(s) - 1
         /\ \A k \in 1..Len(s) - 1 : Front(s)[k] = s[k]
<1>1. Front(s) = SubSeq(s, 1, Len(s) - 1)
  BY Zenon DEF Front
<1>2. 1 \in 1..Len(s) + 1 /\ Len(s) - 1 \in 1 - 1..Len(s)
      /\ Len(s) - 1 - 1 + 1 = Len(s) - 1 /\ \A k \in 1..Len(s) - 1 : 1 + k - 1 = k
  OBVIOUS
<1>3. Front(s) \in Seq(S)
  BY <1>1
<1>4. Len(Front(s)) = Len(s) - 1
  BY <1>1, <1>2
<1>5. \A k \in 1..Len(s) - 1 : Front(s)[k] = s[k]
  BY <1>1, <1>2
<1> QED
  BY <1>3, <1>4, <1>5

LEMMA PrefixIs ==
  \A p, q \in Seq(Chars) :
    IsPrefix(q, p) <=> Len(q) <= Len(p) /\ \A n \in 1..Len(q) : q[n] = p[n]
<1> SUFFICES ASSUME NEW p \in Seq(Chars), NEW q \in Seq(Chars), Len(q) <= Len(p)
             PROVE  SubSeq(q, 1, Len(q)) = SubSeq(p, 1, Len(q)) <=> \A n \in 1..Len(q) : q[n] = p[n]
  BY DEF IsPrefix
<1>1. SubSeq(q, 1, Len(q)) = q
  OBVIOUS
<1> DEFINE r == SubSeq(p, 1, Len(q))
<1>2. r \in Seq(Chars) /\ Len(r) = Len(q) /\ \A n \in 1..Len(q) : r[n] = p[n]
  OBVIOUS
<1> HIDE DEF r
<1>3. q = r <=> \A n \in 1..Len(q) : q[n] = r[n]
  BY <1>2, SeqEqual
<1> QED
  BY <1>1, <1>2, <1>3 DEF r

LEMMA FrontIsPrefix ==
  ASSUME NEW p \in Seq(Chars), p # << >>
  PROVE  /\ Front(p) \in Seq(Chars) /\ Len(Front(p)) = Len(p) - 1
         /\ \A q \in Seq(Chars) : IsPrefix(q, Front(p)) <=> IsStrictPrefix(q, p)
<1>1. Front(p) \in Seq(Chars) /\ Len(Front(p)) = Len(p) - 1
      /\ \A n \in 1..Len(p) - 1 : Front(p)[n] = p[n]
  BY DEF Front
<1>2. ASSUME NEW q \in Seq(Chars)
      PROVE  IsPrefix(q, Front(p)) <=> IsStrictPrefix(q, p)
  <2>1. Len(q) <= Len(p) /\ (\A n \in 1..Len(q) : q[n] = p[n]) => (Len(q) = Len(p) <=> q = p)
    BY SeqEqual
  <2> DEFINE Same == \A n \in 1..Len(q) : q[n] = p[n]
  <2>2. IsPrefix(q, Front(p)) <=> Len(q) <= Len(p) - 1 /\ \A n \in 1..Len(q) : q[n] = Front(p)[n]
    BY <1>1, PrefixIs
  <2>3. Len(q) <= Len(p) - 1 => (Same <=> \A n \in 1..Len(q) : q[n] = Front(p)[n])
    <3>1. Len(q) <= Len(p) - 1 => \A n \in 1..Len(q) : Front(p)[n] = p[n]
      BY <1>1
    <3> QED
      BY <3>1
  <2>4. IsStrictPrefix(q, p) <=> Len(q) <= Len(p) /\ Same /\ q # p
    BY PrefixIs DEF IsStrictPrefix
  <2>5. Len(q) \in Nat /\ Len(p) \in Nat
    OBVIOUS
  <2> HIDE DEF Same
  <2> QED
    BY <2>1, <2>2, <2>3, <2>4, <2>5 DEF Same
<1> QED
  BY <1>1, <1>2

LEMMA PrefixReflexive == \A p \in Seq(Chars) : IsPrefix(p, p)
BY DEF IsPrefix

\* In a tidy tree, a path is in a directory.
LEMMA DirectoryOf ==
  ASSUME NEW t, Tidy(t), NEW p \in DOMAIN t
  PROVE  /\ p \in Seq(Chars) /\ p # << >> /\ t[p] \in Nodes
         /\ Front(p) \in Seq(Chars) /\ Len(Front(p)) = Len(p) - 1
         /\ Front(p) = << >> \/ (Front(p) \in DOMAIN t /\ t[Front(p)].kind = "dir")
<1>1. p \in Seq(Chars) /\ p # << >> /\ t[p] \in Nodes /\ KindIn(t, Front(p)) = "dir"
  BY DEF Tidy
<1>2. Front(p) = << >> \/ (Front(p) \in DOMAIN t /\ t[Front(p)].kind = "dir")
  BY <1>1 DEF KindIn
<1> QED
  BY <1>1, <1>2, FrontIsPrefix

LEMMA TidyIf ==
  ASSUME NEW t,
         \A p \in DOMAIN t :
           /\ p \in Seq(Chars) /\ p # << >> /\ t[p] \in Nodes
           /\ Front(p) = << >> \/ (Front(p) \in DOMAIN t /\ t[Front(p)].kind = "dir")
  PROVE  Tidy(t)
BY DEF Tidy, KindIn

\* Something new, in a directory.
LEMMA WithIsTidy ==
  ASSUME Tidy(tree), NEW p \in Seq(Chars), In(p), Kind(p) = "none", NEW kind \in Kinds
  PROVE  Tidy(With(p, kind))
<1> DEFINE t == With(p, kind)
<1>1. p # << >> /\ KindIn(tree, Front(p)) = "dir"
  BY DEF In, Kind
<1>2. p \notin DOMAIN tree
  <2>1. \A q \in DOMAIN tree : tree[q].kind # "none"
    BY DirectoryOf DEF Nodes, Kinds
  <2> QED
    BY <1>1, <2>1 DEF Kind, KindIn
<1>3. DOMAIN t = DOMAIN tree \cup {p} /\ t[p] = Plain(kind) /\ \A q \in DOMAIN tree : t[q] = tree[q]
  BY <1>2 DEF With
<1>4. Plain(kind) \in Nodes
  BY DEF Plain, Nodes
<1> HIDE DEF t
<1>5. Front(p) = << >> \/ (Front(p) \in DOMAIN tree /\ tree[Front(p)].kind = "dir")
  BY <1>1 DEF KindIn
<1> QED
  BY <1>1, <1>3, <1>4, <1>5, DirectoryOf, TidyIf DEF t

\* Something less, with nothing in it.
LEMMA WithoutIsTidy ==
  ASSUME Tidy(tree), NEW p \in Seq(Chars), Kind(p) # "dir" \/ Under(p) = {}
  PROVE  Tidy(Without({p}))
<1> DEFINE t == Without({p})
<1>1. DOMAIN t = DOMAIN tree \ {p} /\ \A q \in DOMAIN t : t[q] = tree[q]
  BY DEF Without
<1>2. ASSUME NEW q \in DOMAIN tree, Front(q) = p PROVE p = << >> /\ p \notin DOMAIN tree
  <2>1. p = << >> \/ (p \in DOMAIN tree /\ tree[p].kind = "dir")
    BY <1>2, DirectoryOf
  <2>2. q \in Under(p)
    BY <1>2, DirectoryOf, FrontIsPrefix, PrefixReflexive DEF Under
  <2>3. p \in DOMAIN tree => p # << >>
    BY DirectoryOf
  <2> QED
    BY <2>1, <2>2, <2>3 DEF Kind, KindIn
<1> HIDE DEF t
<1> QED
  BY <1>1, <1>2, DirectoryOf, TidyIf DEF t

\* What a path goes through is a directory.
LEMMA ThroughDirectories ==
  ASSUME Tidy(tree), NEW q \in Seq(Chars), NEW p \in Under(q)
  PROVE  Kind(q) = "dir"
<1> DEFINE S == {n \in Nat : \A r \in DOMAIN tree : Len(r) = n /\ IsStrictPrefix(q, r) => Kind(q) = "dir"}
<1>1. 0 \in S
  BY DirectoryOf
<1>2. ASSUME NEW n \in Nat, n \in S PROVE n + 1 \in S
  <2> SUFFICES ASSUME NEW r \in DOMAIN tree, Len(r) = n + 1, IsStrictPrefix(q, r)
               PROVE  Kind(q) = "dir"
    OBVIOUS
  <2>1. r \in Seq(Chars) /\ r # << >> /\ Front(r) \in Seq(Chars) /\ Len(Front(r)) = n
    BY DirectoryOf
  <2>2. IsPrefix(q, Front(r))
    BY <2>1, FrontIsPrefix
  <2>3. Front(r) = << >> \/ (Front(r) \in DOMAIN tree /\ tree[Front(r)].kind = "dir")
    BY DirectoryOf
  <2>4. KindIn(tree, Front(r)) = "dir"
    BY <2>3 DEF KindIn
  <2>5. CASE q = Front(r)
    BY <2>4, <2>5 DEF Kind
  <2>6. CASE q # Front(r)
    <3>1. IsStrictPrefix(q, Front(r))
      BY <2>2, <2>6 DEF IsStrictPrefix
    <3>2. Front(r) # << >>
      BY <2>1, <2>2, <2>6, PrefixIs
    <3> QED
      BY <1>2, <2>1, <2>3, <3>1, <3>2
  <2> QED
    BY <2>5, <2>6
<1> HIDE DEF S
<1>3. Nat \subseteq S
  BY <1>1, <1>2, Induction, Zenon
<1>4. p \in DOMAIN tree /\ IsStrictPrefix(q, p) /\ Len(p) \in Nat
  BY DirectoryOf DEF Under
<1> QED
  BY <1>3, <1>4 DEF S

\* Where what is at r goes when what is at p becomes q.
Goes(p, q, r) == q \o SubSeq(r, Len(p) + 1, Len(r))

\* g is r with q in the place of its first part, which is p.
Shifted(p, q, r, g) ==
  /\ g \in Seq(Chars) /\ Len(p) <= Len(r)
  /\ Len(g) = Len(q) + (Len(r) - Len(p))
  /\ \A n \in 1..Len(q) : g[n] = q[n]
  /\ \A n \in 1..Len(r) - Len(p) : g[Len(q) + n] = r[Len(p) + n]

LEMMA GoesIs ==
  ASSUME NEW p \in Seq(Chars), NEW q \in Seq(Chars), NEW r \in Seq(Chars), IsPrefix(p, r)
  PROVE  Shifted(p, q, r, Goes(p, q, r))
<1>1. Len(p) <= Len(r)
  BY DEF IsPrefix
<1> DEFINE s == SubSeq(r, Len(p) + 1, Len(r))
<1>2. s \in Seq(Chars) /\ Len(s) = Len(r) - Len(p)
      /\ \A n \in 1..Len(r) - Len(p) : s[n] = r[Len(p) + n]
  BY <1>1
<1> HIDE DEF s
<1>3. q \o s \in Seq(Chars) /\ Len(q \o s) = Len(q) + Len(s)
      /\ \A n \in 1..Len(q) + Len(s) : (q \o s)[n] = IF n <= Len(q) THEN q[n] ELSE s[n - Len(q)]
  BY <1>2, ConcatProperties, Zenon
<1>4. Len(q) \in Nat /\ Len(s) \in Nat
  BY <1>2
<1> DEFINE c == q \o s
<1> HIDE DEF c
<1>5. \A n \in 1..Len(q) : c[n] = q[n]
  BY <1>3, <1>4 DEF c
<1>6. \A n \in 1..Len(s) : c[Len(q) + n] = s[n]
  BY <1>3, <1>4 DEF c
<1> QED
  BY <1>1, <1>2, <1>3, <1>5, <1>6 DEF Shifted, Goes, s, c

\* It goes beside what was beside it, and nowhere else.
LEMMA GoesTogether ==
  ASSUME NEW p \in Seq(Chars), NEW q \in Seq(Chars)
  PROVE  /\ \A r, s \in Seq(Chars) :
              IsPrefix(p, r) /\ IsPrefix(p, s) /\ Goes(p, q, r) = Goes(p, q, s) => r = s
         /\ \A r \in Seq(Chars) : IsPrefix(p, r) => IsPrefix(q, Goes(p, q, r))
         /\ \A r \in Seq(Chars) : IsStrictPrefix(p, r) => Front(Goes(p, q, r)) = Goes(p, q, Front(r))
         /\ Goes(p, q, p) = q
<1>1. ASSUME NEW r \in Seq(Chars), NEW s \in Seq(Chars), IsPrefix(p, r), IsPrefix(p, s),
             Goes(p, q, r) = Goes(p, q, s)
      PROVE  r = s
  <2> DEFINE g == Goes(p, q, r)
  <2>0. Len(g) = Len(q) + (Len(r) - Len(p)) /\ Len(p) <= Len(r)
        /\ \A n \in 1..Len(r) - Len(p) : g[Len(q) + n] = r[Len(p) + n]
    <3>1. Shifted(p, q, r, g)
      BY <1>1, GoesIs
    <3> HIDE DEF g
    <3> QED
      BY <3>1 DEF Shifted
  <2>9. Len(g) = Len(q) + (Len(s) - Len(p)) /\ Len(p) <= Len(s)
        /\ \A n \in 1..Len(s) - Len(p) : g[Len(q) + n] = s[Len(p) + n]
    <3> DEFINE h == Goes(p, q, s)
    <3>1. Shifted(p, q, s, h)
      BY <1>1, GoesIs
    <3>2. g = h
      BY <1>1
    <3> HIDE DEF g, h
    <3> QED
      BY <3>1, <3>2 DEF Shifted
  <2> HIDE DEF g
  <2>1. Len(r) = Len(s)
    BY <2>0, <2>9
  <2>2. \A n \in 1..Len(p) : r[n] = s[n]
    BY <1>1, PrefixIs
  <2>3. \A n \in 1..Len(r) - Len(p) : r[Len(p) + n] = s[Len(p) + n]
    BY <2>0, <2>9, <2>1
  <2>4. \A n \in 1..Len(r) : r[n] = s[n]
    <3> SUFFICES ASSUME NEW n \in 1..Len(r), n > Len(p) PROVE r[n] = s[n]
      BY <2>0, <2>2
    <3>1. n - Len(p) \in 1..Len(r) - Len(p) /\ Len(p) + (n - Len(p)) = n
      OBVIOUS
    <3> QED
      BY <2>3, <3>1
  <2> QED
    BY <2>1, <2>4, SeqEqual
<1>2. ASSUME NEW r \in Seq(Chars), IsPrefix(p, r) PROVE IsPrefix(q, Goes(p, q, r))
  <2> DEFINE g == Goes(p, q, r)
  <2>1. g \in Seq(Chars) /\ Len(g) = Len(q) + (Len(r) - Len(p)) /\ Len(p) <= Len(r)
        /\ \A n \in 1..Len(q) : g[n] = q[n]
    <3>1. Shifted(p, q, r, g)
      BY <1>2, GoesIs
    <3> HIDE DEF g
    <3> QED
      BY <3>1 DEF Shifted
  <2> HIDE DEF g
  <2>2. Len(q) <= Len(g) /\ \A n \in 1..Len(q) : q[n] = g[n]
    BY <2>1
  <2>3. IsPrefix(q, g)
    BY <2>1, <2>2, PrefixIs
  <2> QED
    BY <2>3 DEF g
<1>3. ASSUME NEW r \in Seq(Chars), IsStrictPrefix(p, r)
      PROVE  Front(Goes(p, q, r)) = Goes(p, q, Front(r))
  <2> DEFINE g == Goes(p, q, r)
             h == Goes(p, q, Front(r))
  <2>1. IsPrefix(p, r) /\ r # << >>
    BY <1>3 DEF IsStrictPrefix, IsPrefix
  <2>2. Front(r) \in Seq(Chars) /\ Len(Front(r)) = Len(r) - 1 /\ IsPrefix(p, Front(r))
        /\ \A n \in 1..Len(r) - 1 : Front(r)[n] = r[n]
    <3>1. \A n \in 1..Len(r) - 1 : Front(r)[n] = r[n]
      BY <2>1 DEF Front
    <3> QED
      BY <1>3, <2>1, <3>1, FrontIsPrefix
  <2>3. g \in Seq(Chars) /\ Len(p) <= Len(r) /\ Len(g) = Len(q) + (Len(r) - Len(p))
        /\ (\A n \in 1..Len(q) : g[n] = q[n])
        /\ \A n \in 1..Len(r) - Len(p) : g[Len(q) + n] = r[Len(p) + n]
    <3>1. Shifted(p, q, r, g)
      BY <2>1, GoesIs
    <3> HIDE DEF g
    <3> QED
      BY <3>1 DEF Shifted
  <2> DEFINE f == Front(r)
  <2>7. h \in Seq(Chars) /\ Len(p) <= Len(f) /\ Len(h) = Len(q) + (Len(f) - Len(p))
        /\ (\A n \in 1..Len(q) : h[n] = q[n])
        /\ \A n \in 1..Len(f) - Len(p) : h[Len(q) + n] = f[Len(p) + n]
    <3>1. Shifted(p, q, f, h)
      BY <2>2, GoesIs
    <3> HIDE DEF h, f
    <3> QED
      BY <3>1 DEF Shifted
  <2> HIDE DEF g, h, f
  <2>8. f \in Seq(Chars) /\ Len(f) = Len(r) - 1 /\ \A n \in 1..Len(r) - 1 : f[n] = r[n]
    BY <2>2 DEF f
  <2>4. \A n \in 1..Len(h) : h[n] = g[n]
    <3>2. \A n \in 1..Len(q) : h[n] = g[n]
      BY <2>3, <2>7
    <3>3. \A n \in 1..Len(h) : n <= Len(q) => n \in 1..Len(q)
      BY <2>7
    <3> SUFFICES ASSUME NEW n \in 1..Len(h), ~(n <= Len(q)) PROVE h[n] = g[n]
      BY <3>2, <3>3, Zenon
    <3> DEFINE m == n - Len(q)
    <3>1. m \in 1..Len(f) - Len(p) /\ Len(q) + m = n /\ m \in 1..Len(r) - Len(p)
          /\ Len(p) + m \in 1..Len(r) - 1
      BY <2>3, <2>7, <2>8
    <3> HIDE DEF m
    <3> QED
      BY <2>3, <2>7, <2>8, <3>1
  <2>5. Front(g) \in Seq(Chars) /\ Len(Front(g)) = Len(g) - 1
        /\ \A n \in 1..Len(g) - 1 : Front(g)[n] = g[n]
    <3>1. Len(g) - 1 \in Nat
      BY <2>3, <2>7, <2>8
    <3> QED
      BY <2>3, <3>1 DEF Front
  <2>6. Front(g) = h
    <3>1. Len(Front(g)) = Len(h) /\ Len(g) - 1 = Len(h)
      BY <2>3, <2>7, <2>8, <2>5
    <3>2. \A n \in 1..Len(h) : Front(g)[n] = h[n]
      BY <2>4, <2>5, <3>1
    <3> QED
      BY <2>5, <2>7, <3>1, <3>2, SeqEqual
  <2> QED
    BY <2>6 DEF g, h, f
<1>4. Goes(p, q, p) = q
  <2>1. IsPrefix(p, p)
    BY PrefixReflexive
  <2>2. Goes(p, q, p) \in Seq(Chars) /\ Len(Goes(p, q, p)) = Len(q)
        /\ \A n \in 1..Len(q) : Goes(p, q, p)[n] = q[n]
    <3>1. Shifted(p, q, p, Goes(p, q, p))
      BY <2>1, GoesIs
    <3> QED
      BY <3>1 DEF Shifted
  <2> QED
    BY <2>2, SeqEqual
<1> QED
  BY <1>1, <1>2, <1>3, <1>4, Zenon

(***************************************************************************)
(* What the calls of the kernel find out                                   *)
(***************************************************************************)
LEMMA UnlinkOK == \A p : Unlink(p) = "OK" => Kind(p) \notin {"none", "dir"} /\ p \notin Protected
BY DEF Unlink

LEMMA RmdirOK == \A p : Rmdir(p) = "OK" => Kind(p) = "dir" /\ Under(p) = {} /\ p \notin Protected
BY DEF Rmdir

LEMMA RmdirFull == \A p : Rmdir(p) = "ENOTEMPTY" => Kind(p) = "dir"
BY DEF Rmdir

LEMMA MkdirOK == \A p : Mkdir(p) = "OK" => Kind(p) = "none" /\ In(p)
BY DEF Mkdir

LEMMA RenameOK ==
  \A p, q : Rename(p, q) = "OK" =>
    /\ Kind(p) # "none" /\ In(q) /\ p \notin Protected /\ ~IsStrictPrefix(p, q)
    /\ p # q /\ Kind(q) = "dir" => Kind(p) = "dir" /\ Under(q) = {}
BY DEF Rename

\* What is moved takes what is in it along.
LEMMA MovedIsTidy ==
  ASSUME Tidy(tree), NEW p \in Seq(Chars), NEW q \in Seq(Chars), Rename(p, q) = "OK"
  PROVE  Tidy(Moved(p, q))
<1> DEFINE D == DOMAIN tree
           moving == {p} \cup Under(p)
           to(m) == Goes(p, q, m)
           t == Moved(p, q)
<1>1. /\ Kind(p) # "none" /\ q # << >> /\ Kind(Front(q)) = "dir" /\ ~IsStrictPrefix(p, q)
      /\ p # q /\ Kind(q) = "dir" => Under(q) = {}
  BY RenameOK DEF In
<1>2. p # << >>
  <2> DEFINE e == << >>
  <2>1. e \in Seq(Chars) /\ Len(e) <= Len(q) /\ \A n \in 1..Len(e) : e[n] = q[n]
    OBVIOUS
  <2> HIDE DEF e
  <2>2. IsPrefix(e, q)
    BY <2>1, PrefixIs
  <2> QED
    BY <1>1, <2>2 DEF IsStrictPrefix, e
<1>3. p \in D
  BY <1>1, <1>2, KindsOfPaths
<1>4. \A m : m \in moving <=> m \in D /\ m \in Seq(Chars) /\ IsPrefix(p, m)
  BY <1>3, PrefixReflexive, DirectoryOf DEF Under, IsStrictPrefix
<1>5. \A m, n \in moving : to(m) = to(n) => m = n
  BY <1>4, GoesTogether
<1>6. \A m \in moving : /\ to(m) \in Seq(Chars) /\ IsPrefix(q, to(m))
                        /\ Len(to(m)) = Len(q) + (Len(m) - Len(p)) /\ Len(p) <= Len(m)
  BY <1>4, GoesIs, GoesTogether, Zenon DEF Shifted
<1> HIDE DEF moving, to
<1>7. /\ DOMAIN t = (D \ moving) \cup {to(m) : m \in moving}
      /\ \A r \in DOMAIN t :
           t[r] = IF \E m \in moving : to(m) = r THEN tree[CHOOSE m \in moving : to(m) = r]
                  ELSE tree[r]
  BY DEF Moved, Goes, moving, to
<1> HIDE DEF t
<1>8. \A m \in moving : to(m) \in DOMAIN t /\ t[to(m)] = tree[m]
  <2> SUFFICES ASSUME NEW m \in moving PROVE to(m) \in DOMAIN t /\ t[to(m)] = tree[m]
    OBVIOUS
  <2>1. (CHOOSE n \in moving : to(n) = to(m)) = m
    BY <1>5
  <2> QED
    BY <1>7, <2>1
<1>9. \A r \in D \ moving : r \in DOMAIN t /\ ((\A m \in moving : to(m) # r) => t[r] = tree[r])
  BY <1>7
\* What is under a directory that does not move is what it was.
<1>10. ASSUME NEW r \in D, r \notin moving, tree[r].kind = "dir",
              \A m \in moving : to(m) # r
       PROVE  r \in DOMAIN t /\ t[r].kind = "dir"
  BY <1>9, <1>10
<1>11. ASSUME NEW m \in moving
       PROVE  /\ to(m) # << >> /\ t[to(m)] \in Nodes
              /\ \/ Front(to(m)) = << >>
                 \/ Front(to(m)) \in DOMAIN t /\ t[Front(to(m))].kind = "dir"
  <2>1. to(m) # << >>
    BY <1>1, <1>6, PrefixIs
  <2>2. t[to(m)] \in Nodes
    BY <1>4, <1>8, DirectoryOf
  <2>3. CASE m = p
    <3>1. to(m) = q
      BY <2>3, GoesTogether DEF to
    <3> DEFINE f == Front(q)
    <3> SUFFICES ASSUME f # << >> PROVE f \in DOMAIN t /\ t[f].kind = "dir"
      BY <2>1, <2>2, <3>1
    <3>2. f \in D /\ tree[f].kind = "dir"
      BY <1>1 DEF Kind, KindIn
    <3>3. f \in Seq(Chars) /\ Len(f) = Len(q) - 1
      BY <1>1, FrontIsPrefix
    <3>4. f \notin moving
      BY <1>1, <1>4, <3>3, FrontIsPrefix
    <3>5. \A n \in moving : to(n) # f
      <4>1. \A n \in moving : Len(to(n)) >= Len(q)
        BY <1>4, <1>6
      <4> QED
        BY <3>3, <4>1
    <3> HIDE DEF f
    <3> QED
      BY <1>10, <3>2, <3>4, <3>5
  <2>4. CASE m # p
    <3>1. m \in Seq(Chars) /\ m \in D /\ IsStrictPrefix(p, m)
      BY <1>4, <2>4 DEF IsStrictPrefix
    <3>2. Front(to(m)) = to(Front(m))
      BY <3>1, GoesTogether DEF to
    <3>3. IsPrefix(p, Front(m)) /\ Front(m) \in Seq(Chars)
      BY <3>1, DirectoryOf, FrontIsPrefix
    <3>4. Front(m) # << >>
      BY <1>2, <3>3, PrefixIs
    <3>5. Front(m) \in D /\ tree[Front(m)].kind = "dir"
      BY <3>1, <3>4, DirectoryOf
    <3>6. Front(m) \in moving
      BY <1>4, <3>3, <3>5
    <3> QED
      BY <1>8, <2>1, <2>2, <3>2, <3>5, <3>6
  <2> QED
    BY <2>3, <2>4
<1>12. ASSUME NEW r \in D, r \notin moving, \A m \in moving : to(m) # r
       PROVE  /\ r \in Seq(Chars) /\ r # << >> /\ t[r] \in Nodes
              /\ Front(r) = << >> \/ (Front(r) \in DOMAIN t /\ t[Front(r)].kind = "dir")
  <2>1. r \in Seq(Chars) /\ r # << >> /\ t[r] \in Nodes
    BY <1>9, <1>12, DirectoryOf
  <2> DEFINE f == Front(r)
  <2> SUFFICES ASSUME f # << >> PROVE f \in DOMAIN t /\ t[f].kind = "dir"
    BY <2>1
  <2>2. f \in D /\ tree[f].kind = "dir" /\ f \in Seq(Chars)
    BY <1>12, DirectoryOf
  <2>3. ~IsPrefix(p, f)
    <3>1. IsPrefix(p, f) => IsPrefix(p, r)
      BY <2>1, FrontIsPrefix DEF IsStrictPrefix
    <3> QED
      BY <1>4, <1>12, <2>1, <3>1
  <2>4. f \notin moving
    BY <1>4, <2>3
  <2>5. ASSUME NEW m \in moving, to(m) = f PROVE FALSE
    <3>1. IsStrictPrefix(q, r)
      BY <1>6, <2>1, <2>5, FrontIsPrefix
    <3>2. r \in Under(q)
      BY <1>12, <3>1 DEF Under
    <3>3. Kind(q) = "dir"
      BY <3>2, ThroughDirectories
    <3>4. p = q
      BY <1>1, <3>2, <3>3
    <3>5. IsPrefix(p, f)
      BY <1>6, <2>5, <3>4
    <3> QED
      BY <2>3, <3>5
  <2> HIDE DEF f
  <2> QED
    BY <1>10, <2>2, <2>4, <2>5
<1>13. \A r \in DOMAIN t : (\E m \in moving : to(m) = r) \/ (r \in D /\ r \notin moving)
  BY <1>7
<1>14. ASSUME NEW r \in DOMAIN t
       PROVE  /\ r \in Seq(Chars) /\ r # << >> /\ t[r] \in Nodes
              /\ Front(r) = << >> \/ (Front(r) \in DOMAIN t /\ t[Front(r)].kind = "dir")
  <2>1. CASE \E m \in moving : to(m) = r
    <3>1. PICK m \in moving : to(m) = r
      BY <2>1
    <3> QED
      BY <1>6, <1>11, <3>1
  <2>2. CASE r \in D /\ r \notin moving /\ \A m \in moving : to(m) # r
    BY <1>12, <2>2
  <2> QED
    BY <1>13, <2>1, <2>2
<1>15. Tidy(t)
  BY <1>14, TidyIf
<1> QED
  BY <1>15 DEF t

(***************************************************************************)
(* What a step has to show                                                 *)
(***************************************************************************)
Serving == {"mkdir", "open", "delete", "opendir", "readdir"}

LEMMA ReadingAfter ==
  ASSUME Reading, pc \in Serving, pc' = "recv", req' = req, count' = count,
         reader' \in Readers, reader'.url \in {reader.url, Unset}
  PROVE  Reading'
<1>1. reader.url # Never /\ reader'.url # Never
  BY WordsApart DEF Reading, Serving
<1>2. count > 0
  BY DEF Reading, Serving
<1>3. (~Split => OnUrl(Url) # Never) /\ Split' = Split /\ Url' = Url
  BY <1>2 DEF Reading, Serving, Split, Url
<1> QED
  BY <1>1, <1>2, <1>3 DEF Reading

LEMMA ReadingStays ==
  ASSUME Reading, pc \in Serving, pc' \in Serving \ {"open"}, UNCHANGED request
  PROVE  Reading'
<1>1. reader' = reader /\ req' = req /\ count' = count /\ past' = past
  BY DEF request
<1>2. reader.url # Never /\ count > 0
  BY DEF Reading, Serving
<1>3. Split' = Split /\ Url' = Url
  BY <1>1 DEF Split, Url
<1> QED
  BY <1>1, <1>2, <1>3 DEF Reading, Serving

LEMMA CarriedStays ==
  ASSUME Carried, pc \in Serving, pc' \in Serving, UNCHANGED request
  PROVE  Carried'
BY DEF Carried, Asked, NewNames, Serving, request

LEMMA ComingStays ==
  ASSUME Coming, pc \in Serving, pc' \in Serving, UNCHANGED request
  PROVE  Coming'
BY Zenon DEF Coming, Waits, Brought, Serving, request

\* After a response, whatever it has left of the header.
LEMMA ComingAfter ==
  ASSUME Coming, pc \in Serving, pc' = "recv", req' = req,
         reader'.flags = {} \/ reader'.flags = reader.flags
  PROVE  Coming'
<1>1. "finished" \in reader.flags /\ (req.early \/ req.left = << >>) /\ Ordered(req.left)
  BY DEF Coming, Serving
<1> QED
  BY <1>1, Zenon DEF Coming

\* After a response that is not a file, no header is in force.
LEMMA ReParseClears ==
  ASSUME reader \in Readers, ReParse
  PROVE  /\ reader' \in Readers /\ reader'.url = reader.url
         /\ reader'.newname = Unset /\ reader'.flags = {}
<1>1. reader' = [reader EXCEPT !.newname = Unset, !.flags = {}]
  BY DEF ReParse
<1>2. reader'.url = reader.url /\ reader'.newname = Unset /\ reader'.flags = {}
  BY <1>1, Zenon DEF Readers
<1>3. reader' \in Readers
  BY <1>1, Zenon DEF Readers
<1> QED
  BY <1>2, <1>3

\* A response that is not a file.
LEMMA RespondingKeeps ==
  ASSUME IInv, pc \in Serving, NEW kind \in Answers, Responds(kind), Tidy(tree'),
         stack' = << >>, dirs' \in 0..MaxDirs, lost' \in Nat, DirsClosed',
         slips' \subseteq {"ignored", "stat"},
         kind = "deleted" => Named \notin DOMAIN tree' \/ "ignored" \in slips',
         kind \in Errors => removed' = {} \/ "stat" \in slips'
  PROVE  IInv'
<1>1. /\ reply' = [kind |-> kind, gone |-> Named \notin DOMAIN tree'] /\ pc' = "recv"
      /\ changes' = changes /\ req' = req /\ count' = count /\ st' = st
      /\ ReParse /\ past' = {}
  BY DEF Responds, Replies, ReParse
<1>2. /\ reader' \in Readers /\ reader'.url = reader.url
      /\ reader'.newname = Unset /\ reader'.flags = {}
  BY <1>1, ReParseClears DEF IInv, Reading
<1>3. reply'.kind = kind /\ reply'.gone = (Named \notin DOMAIN tree')
  BY <1>1
<1>4. TypeOK'
  BY <1>1, <1>2 DEF IInv, TypeOK
<1>5. Reading'
  BY <1>1, <1>2, ReadingAfter DEF IInv
<1>6. Carried' /\ Coming'
  <2>1. Carried'
    BY <1>1, <1>2 DEF Carried
  <2>2. Coming'
    BY <1>1, <1>2, ComingAfter, Zenon DEF IInv
  <2> QED
    BY <2>1, <2>2
<1>7. Recursing'
  BY <1>1 DEF Recursing
<1>8. Untouched'
  BY <1>1 DEF Untouched
<1>9. OkMeansGone'
  BY <1>3, Zenon DEF OkMeansGone
<1>10. ErrorsTouchNothing'
  BY <1>3, Zenon DEF ErrorsTouchNothing, Errors
<1>11. reply'.kind \in Answers \cup {"none"}
  BY <1>3
<1> QED
  BY <1>4, <1>5, <1>6, <1>7, <1>8, <1>9, <1>10, <1>11, Zenon DEF IInv

\* Before the recursion.
LEMMA Quiet ==
  ASSUME IInv, pc \in Serving \ {"readdir"}
  PROVE  /\ stack = << >> /\ removed = {} /\ slips = {} /\ reply = None
         /\ Tidy(tree) /\ dirs \in 0..MaxDirs /\ lost \in Nat
BY DEF IInv, TypeOK, Untouched, Serving

LEMMA UrlOfServing ==
  ASSUME IInv, pc \in Serving
  PROVE  reader.url \in Seq(Chars) \cup {Unset} /\ reader.newname \in Seq(Chars) \cup {Unset}
BY DEF IInv, Reading, Readers, Serving

LEMMA AnsweringKeeps ==
  ASSUME IInv, pc \in Serving \ {"readdir"}, NEW kind \in Answers, Responds(kind),
         UNCHANGED <<stack, dirs, lost, slips>>, Tidy(tree'),
         kind = "deleted" => Named \notin DOMAIN tree',
         kind \in Errors => removed' = {}
  PROVE  IInv'
<1>1. stack' = << >> /\ dirs' \in 0..MaxDirs /\ lost' \in Nat /\ slips' \subseteq {"ignored", "stat"}
  BY Quiet
<1>2. DirsClosed'
  BY DEF IInv, DirsClosed
<1>3. pc \in Serving
  OBVIOUS
<1> QED
  BY <1>1, <1>2, <1>3, RespondingKeeps, Zenon

LEMMA NamedTyped ==
  ASSUME IInv, pc \in Serving
  PROVE  /\ Named \in Seq(Chars) \cup {Nowhere}
         /\ Kind(Named) # "none" => Named \in Seq(Chars)
<1>1. Tidy(tree)
  BY DEF IInv, TypeOK
<1>2. reader.url \in Seq(Chars) \cup {Unset}
  BY UrlOfServing
<1>3. Named \in Seq(Chars) \cup {Nowhere}
  BY <1>1, <1>2, WhereTyped, Zenon DEF Named
<1> QED
  BY <1>1, <1>3, KindsOfPaths

LEMMA CreateDirKeeps ==
  ASSUME IInv, CreateDir PROVE IInv'
<1>1. pc \in Serving \ {"readdir"} /\ UNCHANGED <<stack, dirs, lost, removed, slips>>
  BY DEF CreateDir, Serving
<1>2. Tidy(tree) /\ removed' = {}
  BY <1>1, Quiet
<1>3. CASE Named # Nowhere /\ Mkdir(Named) = "OK" /\ tree' = With(Named, "dir") /\ Responds("created")
  <2>1. Named \in Seq(Chars)
    BY <1>1, <1>3, NamedTyped
  <2>2. "dir" \in Kinds /\ "created" \in Answers /\ "created" # "deleted"
    BY DEF Kinds, Answers
  <2>3. Tidy(tree')
    BY <1>2, <1>3, <2>1, <2>2, MkdirOK, WithIsTidy, Zenon
  <2> QED
    BY <1>1, <1>2, <1>3, <2>2, <2>3, AnsweringKeeps, Zenon
<1>4. CASE tree' = tree /\ Responds("errno")
  <2>1. "errno" \in Answers /\ "errno" # "deleted"
    BY DEF Answers, Errors
  <2>2. Tidy(tree')
    BY <1>2, <1>4
  <2> QED
    BY <1>1, <1>2, <1>4, <2>1, <2>2, AnsweringKeeps, Zenon
<1> QED
  BY <1>3, <1>4, Zenon DEF CreateDir

LEMMA DeleteHomeKeeps ==
  ASSUME IInv, DeleteHome PROVE IInv'
<1>1. /\ pc \in Serving \ {"readdir"} /\ UNCHANGED <<stack, dirs, lost, slips>>
      /\ tree' = tree /\ removed' = removed /\ Responds("no errno")
  BY DEF DeleteHome, Keeps, Serving
<1>2. Tidy(tree') /\ removed' = {}
  BY <1>1, Quiet
<1>3. "no errno" \in Answers /\ "no errno" # "deleted"
  BY DEF Answers, Errors
<1> QED
  BY <1>1, <1>2, <1>3, AnsweringKeeps, Zenon

LEMMA RenameItemKeeps ==
  ASSUME IInv, RenameItem PROVE IInv'
<1> DEFINE to == Where(reader.newname, FALSE)
<1>1. pc \in Serving \ {"readdir"} /\ UNCHANGED <<stack, dirs, lost, slips>> /\ reader.newname # Unset
  BY DEF RenameItem, Serving
<1>2. Tidy(tree) /\ removed = {}
  BY <1>1, Quiet
<1>3. CASE to # Nowhere /\ Rename(Named, to) = "OK" /\ tree' = Moved(Named, to) /\ Responds("renamed")
  <2>1. Named \in Seq(Chars)
    BY <1>1, <1>3, NamedTyped, RenameOK
  <2>2. reader.newname \in Seq(Chars) \cup {Unset}
    BY <1>1, UrlOfServing
  <2>3. to \in Seq(Chars)
    BY <1>2, <1>3, <2>2, WhereTyped, Zenon
  <2>4. "renamed" \in Answers /\ "renamed" # "deleted" /\ "renamed" \notin Errors
    BY DEF Answers, Errors
  <2>5. Tidy(tree')
    BY <1>2, <1>3, <2>1, <2>3, MovedIsTidy
  <2> QED
    BY <1>1, <1>3, <2>4, <2>5, AnsweringKeeps, Zenon
<1>4. CASE Keeps /\ Responds("errno")
  <2>1. "errno" \in Answers /\ "errno" # "deleted"
    BY DEF Answers, Errors
  <2>2. Tidy(tree') /\ removed' = {}
    BY <1>2, <1>4 DEF Keeps
  <2> QED
    BY <1>1, <1>4, <2>1, <2>2, AnsweringKeeps, Zenon
<1> QED
  BY <1>3, <1>4, Zenon DEF RenameItem

\* Further in my_request_delete, with nothing done yet.
LEMMA GoingOnKeeps ==
  ASSUME IInv, pc \in Serving \ {"readdir"}, pc' \in {"delete", "opendir"},
         UNCHANGED <<tree, changes, request, stack, result>>, st' \in {"none", "file", "dir"},
         pc' = "opendir" => reader.url # Unset /\ ~Empty(reader.url)
  PROVE  IInv'
<1>1. /\ tree' = tree /\ changes' = changes /\ reader' = reader /\ req' = req /\ count' = count
      /\ past' = past /\ stack' = stack /\ reply' = reply /\ dirs' = dirs /\ lost' = lost
      /\ removed' = removed /\ slips' = slips
  BY DEF request, result
<1>2. stack = << >> /\ removed = {} /\ slips = {} /\ reply = None
  BY Quiet
<1>3. TypeOK'
  BY <1>1, <1>2 DEF IInv, TypeOK
<1>4. Reading'
  BY ReadingStays DEF IInv, Serving
<1>5. Carried' /\ Coming'
  BY CarriedStays, ComingStays DEF IInv, Serving
<1>6. Recursing'
  BY <1>1, <1>2 DEF Recursing
<1>7. Untouched'
  BY <1>1, <1>2 DEF Untouched
<1>8. OkMeansGone' /\ ErrorsTouchNothing'
  BY <1>1, Zenon DEF IInv, OkMeansGone, ErrorsTouchNothing
<1>9. DirsClosed'
  BY <1>1, Zenon DEF IInv, DirsClosed
<1>10. reply'.kind \in Answers \cup {"none"}
  BY <1>1 DEF IInv
<1> QED
  BY <1>3, <1>4, <1>5, <1>6, <1>7, <1>8, <1>9, <1>10, Zenon DEF IInv

LEMMA DeleteDirKeeps ==
  ASSUME IInv, DeleteDir PROVE IInv'
<1>1. pc \in Serving \ {"readdir"} /\ UNCHANGED <<stack, dirs, lost, slips>> /\ reader.url # Unset
  BY DEF DeleteDir, Serving
<1>2. Tidy(tree) /\ removed = {}
  BY <1>1, Quiet
<1>3. "deleted" \in Answers \ Errors /\ "accepted" \in Answers /\ "errno" \in Answers
      /\ "errno" # "deleted" /\ "accepted" # "deleted"
  BY DEF Answers, Errors
<1>4. CASE Rmdir(Named) = "OK" /\ Removes(Named) /\ Responds("deleted")
  <2>1. Kind(Named) = "dir" /\ Under(Named) = {} /\ tree' = Without({Named})
    BY <1>4, RmdirOK DEF Removes
  <2>2. Named \in Seq(Chars)
    BY <1>1, <2>1, NamedTyped
  <2>3. Tidy(tree')
    BY <1>2, <2>1, <2>2, WithoutIsTidy
  <2>4. Named \notin DOMAIN tree'
    BY <2>1 DEF Without
  <2> QED
    BY <1>1, <1>3, <1>4, <2>3, <2>4, AnsweringKeeps, Zenon
<1>5. CASE /\ Rmdir(Named) = "ENOTEMPTY"
           /\ pc' = "opendir" /\ Keeps /\ UNCHANGED <<changes, request, st, reply>>
  <2>1. UNCHANGED <<tree, changes, request, stack, result>> /\ st' = st
    BY <1>1, <1>5 DEF Keeps, result
  <2>2. st \in {"none", "file", "dir"}
    BY DEF IInv, TypeOK
  <2>3. ~Empty(reader.url)
    BY <1>2, <1>5, NothingNowhere, RmdirFull DEF Named, Where
  <2> QED
    BY <1>1, <1>5, <2>1, <2>2, <2>3, GoingOnKeeps
<1>6. CASE Keeps /\ (Responds("accepted") \/ Responds("errno"))
  <2>1. Tidy(tree') /\ removed' = {}
    BY <1>2, <1>6 DEF Keeps
  <2> QED
    BY <1>1, <1>3, <1>6, <2>1, AnsweringKeeps, Zenon
<1> QED
  <2> DEFINE ok == Rmdir(Named) = "OK"
             full == Rmdir(Named) = "ENOTEMPTY"
             far == "recursively" \in reader.flags
  <2>1. ~(ok /\ full)
    OBVIOUS
  <2> HIDE DEF ok, full, far
  <2>2. \/ ok /\ Removes(Named) /\ Responds("deleted")
        \/ full /\ pc' = "opendir" /\ Keeps /\ UNCHANGED <<changes, request, st, reply>>
        \/ Keeps /\ (Responds("accepted") \/ Responds("errno"))
    BY <2>1 DEF DeleteDir, ok, full, far
  <2> QED
    BY <1>4, <1>5, <1>6, <2>2, Zenon DEF ok, full

LEMMA DeleteFileKeeps ==
  ASSUME IInv, DeleteFile PROVE IInv'
<1>1. pc \in Serving \ {"readdir"} /\ UNCHANGED <<stack, dirs, lost, slips>>
  BY DEF DeleteFile, Serving
<1>2. Tidy(tree) /\ removed = {}
  BY <1>1, Quiet
<1>3. "deleted" \in Answers \ Errors /\ "errno" \in Answers /\ "errno" # "deleted"
  BY DEF Answers, Errors
<1>4. CASE Unlink(Named) = "OK" /\ Removes(Named) /\ Responds("deleted")
  <2>1. Kind(Named) \notin {"none", "dir"} /\ tree' = Without({Named})
    BY <1>4, UnlinkOK DEF Removes
  <2>2. Named \in Seq(Chars)
    BY <1>1, <2>1, NamedTyped
  <2>3. Tidy(tree')
    BY <1>2, <2>1, <2>2, WithoutIsTidy
  <2>4. Named \notin DOMAIN tree'
    BY <2>1 DEF Without
  <2> QED
    BY <1>1, <1>3, <1>4, <2>3, <2>4, AnsweringKeeps, Zenon
<1>5. CASE Keeps /\ Responds("errno")
  <2>1. Tidy(tree') /\ removed' = {}
    BY <1>2, <1>5 DEF Keeps
  <2> QED
    BY <1>1, <1>3, <1>5, <2>1, AnsweringKeeps, Zenon
<1> QED
  BY <1>4, <1>5, Zenon DEF DeleteFile

\* What a request is made of.
LEMMA RequestIs ==
  ASSUME NEW r \in Requests
  PROVE  /\ r.method \in {"GET", "PUT", "DELETE"} /\ r.newname \in Seq(Chars)
         /\ r.pieces \in Seq(Pieces) /\ r.pieces # << >>
         /\ r.pieces[1].url \in Seq(Chars) /\ r.pieces[1].url # << >>
         /\ r.pieces[1].url[1] # "%"
         /\ \A k \in DOMAIN r.pieces : PieceOf(r.pieces[k], r)
         /\ HeadsOf(r) \subseteq Heads /\ Ordered(r.pieces)
<1>1. Request(r)
  BY FileOpsAssumption, Zenon
<1>2. /\ r.method \in {"GET", "PUT", "DELETE"} /\ r.newname \in Seq(Chars)
      /\ r.pieces \in Seq(Pieces) /\ r.pieces # << >>
      /\ r.pieces[1].url # << >> /\ r.pieces[1].url[1] # "%"
  BY <1>1, Zenon DEF Request
<1>3. \A k \in DOMAIN r.pieces : r.pieces[k] \in Pieces
  BY <1>2
<1>4. 1 \in DOMAIN r.pieces
  BY <1>2
<1>5. r.pieces[1].url \in Seq(Chars)
  BY <1>3, <1>4 DEF Pieces
<1>6. \A k \in DOMAIN r.pieces : r.pieces[k].fields \subseteq Heads
  BY <1>3 DEF Pieces
<1>7. ASSUME NEW k \in DOMAIN r.pieces PROVE PieceOf(r.pieces[k], r)
  <2>1. r.pieces[k].fields \subseteq Fields(r)
    BY Zenon DEF Fields
  <2>2. r.pieces[k].value # Unset => k \in Parts(r)
    BY Zenon DEF Parts
  <2>3. r.pieces[k].value # Unset => r.pieces[k].value \in NewNamesOf(r)
    BY <1>1, <2>2, Zenon DEF NewNamesOf, Request
  <2> QED
    BY <2>1, <2>3, Zenon DEF PieceOf
<1>8. HeadsOf(r) \subseteq Heads
  BY <1>1, <1>6, Zenon DEF HeadsOf, Fields, Request
<1>9. Ordered(r.pieces)
  BY <1>1, Zenon DEF Ordered, Request, Parts
<1> QED
  BY <1>2, <1>5, <1>7, <1>8, <1>9, Zenon

\* A file is the response that leaves the headers in force.
LEMMA FileKeeps ==
  ASSUME IInv, pc = "open", Replies("file"), reader' = [reader EXCEPT !.url = Unset],
         past' = past \cup HeadsOf(req.ask), UNCHANGED <<tree, removed, stack, dirs, lost, slips>>,
         UNCHANGED <<changes, req, count, st>>
  PROVE  IInv'
<1>1. reply' = [kind |-> "file", gone |-> Named \notin DOMAIN tree'] /\ pc' = "recv" /\ pc \in Serving
  BY DEF Replies, Serving
<1>2. stack = << >> /\ removed = {} /\ slips = {} /\ reply = None
  BY <1>1, Quiet
<1>3. reader \in Readers
  BY DEF IInv, Reading
<1>4. reader'.url = Unset /\ reader'.newname = reader.newname /\ reader'.flags = reader.flags
  BY <1>3, Zenon DEF Readers
<1>5. reader' \in Readers
  BY <1>3, Zenon DEF Readers
<1>6. count > 0
  BY DEF IInv, Reading
<1>7. HeadsOf(req.ask) \subseteq Heads
  BY <1>6, RequestIs DEF IInv, TypeOK
<1>8. TypeOK'
  BY <1>1, <1>2, <1>4, <1>7 DEF IInv, TypeOK
<1>9. Reading'
  BY <1>1, <1>4, <1>5, ReadingAfter DEF IInv
<1>10. Carried' /\ Coming'
  <2>1. Asked = past' /\ past' \subseteq Asked' /\ past \subseteq past'
    BY <1>1 DEF Asked
  <2>2. NewNames \subseteq NewNames'
    BY <2>1 DEF NewNames
  <2>3. Carried'
    BY <1>4, <2>1, <2>2 DEF IInv, Carried
  <2>4. Coming'
    BY <1>1, <1>4, ComingAfter DEF IInv
  <2> QED
    BY <2>3, <2>4
<1>11. Recursing'
  BY <1>1, <1>2 DEF Recursing
<1>12. Untouched'
  BY <1>1 DEF Untouched
<1>13. OkMeansGone' /\ ErrorsTouchNothing'
  BY <1>1, <1>2 DEF OkMeansGone, ErrorsTouchNothing
<1>14. DirsClosed'
  BY Zenon DEF IInv, DirsClosed
<1>15. reply'.kind \in Answers \cup {"none"}
  BY <1>1 DEF Answers
<1> QED
  BY <1>8, <1>9, <1>10, <1>11, <1>12, <1>13, <1>14, <1>15, Zenon DEF IInv

LEMMA OpenKeeps ==
  ASSUME IInv, Open PROVE IInv'
<1> DEFINE kind == Kind(Where(reader.url, TRUE))
<1>1. pc = "open" /\ pc \in Serving \ {"readdir"} /\ UNCHANGED <<tree, removed, stack, dirs, lost, slips>>
  BY DEF Open, Keeps, Serving
<1>2. Tidy(tree) /\ removed = {}
  BY <1>1, Quiet
<1>3. Tidy(tree') /\ removed' = {}
  BY <1>1, <1>2
<1>4. "404" \in Answers /\ "404" # "deleted" /\ "listing" \in Answers \ Errors /\ "listing" # "deleted"
  BY DEF Answers, Errors
<1>5. reader.url \in Seq(Chars) \cup {Unset}
  BY <1>1, UrlOfServing
<1>6. kind \in {"none", "file", "dir"}
  BY <1>2, <1>5, NoLinkIsThere, Zenon
<1>7. req.ask.method \in {"GET", "DELETE"}
  BY <1>1 DEF IInv, Reading
<1> HIDE DEF kind
<1>8. CASE Responds("404") \/ Responds("listing")
  BY <1>1, <1>3, <1>4, <1>8, AnsweringKeeps, Zenon
<1>9. CASE pc' = "delete" /\ st' = kind /\ UNCHANGED <<changes, request, reply>>
  <2>1. UNCHANGED <<tree, changes, request, stack, result>>
    BY <1>1, <1>9 DEF result
  <2> QED
    BY <1>1, <1>6, <1>9, <2>1, GoingOnKeeps
<1>10. CASE /\ Replies("file") /\ reader' = [reader EXCEPT !.url = Unset]
            /\ past' = past \cup HeadsOf(req.ask) /\ UNCHANGED <<changes, req, count, st>>
  BY <1>1, <1>10, FileKeeps
<1> QED
  <2> DEFINE file == /\ Replies("file") /\ reader' = [reader EXCEPT !.url = Unset]
                     /\ past' = past \cup HeadsOf(req.ask) /\ UNCHANGED <<changes, req, count, st>>
             deleting == pc' = "delete" /\ st' = kind /\ UNCHANGED <<changes, request, reply>>
  <2>1. (CASE kind = "none" -> Responds("404")
           [] kind # "none" /\ req.ask.method = "DELETE" -> deleting
           [] kind = "dir" /\ req.ask.method = "GET" -> Responds("listing")
           [] kind = "file" /\ req.ask.method = "GET" -> file)
    BY Zenon DEF Open, kind
  <2> HIDE DEF file, deleting
  <2>2. Responds("404") \/ Responds("listing") \/ deleting \/ file
    BY <1>6, <1>7, <2>1
  <2> QED
    BY <1>8, <1>9, <1>10, <2>2 DEF file, deleting

\* A call, with the names readdir returns.
LEMMA CallTyped ==
  ASSUME Tidy(tree), NEW p \in Seq(Chars)
  PROVE  Call(p) \in Calls /\ Call(p).path = p
<1> DEFINE names == {Last(q) : q \in Entries(Real(p, TRUE))}
<1>1. names \subseteq Chars
  <2> SUFFICES ASSUME NEW q \in Entries(Real(p, TRUE)) PROVE Last(q) \in Chars
    BY Zenon
  <2>1. q \in DOMAIN tree
    BY DEF Entries, Under
  <2>2. q \in Seq(Chars) /\ q # << >>
    BY <2>1, DirectoryOf
  <2>3. Len(q) \in 1..Len(q)
    BY <2>2
  <2>4. q[Len(q)] \in Chars
    BY <2>2, <2>3
  <2> QED
    BY <2>4 DEF Last
<1>2. Call(p) = [path |-> p, todo |-> names]
  BY Zenon DEF Call
<1> HIDE DEF names
<1> QED
  BY <1>1, <1>2 DEF Calls

\* The first call of the recursion.
LEMMA OpenDirKeeps ==
  ASSUME IInv, OpenDir PROVE IInv'
<1> DEFINE path == PathOf(reader.url)
<1>1. pc = "opendir" /\ pc \in Serving \ {"readdir"} /\ UNCHANGED <<tree, removed, lost, slips>>
  BY DEF OpenDir, Keeps, Serving
<1>2. /\ stack = << >> /\ removed = {} /\ slips = {} /\ reply = None
      /\ Tidy(tree) /\ dirs \in 0..MaxDirs /\ lost \in Nat
  BY <1>1, Quiet
<1>3. CASE Responds("errno") /\ UNCHANGED <<stack, dirs>>
  <2>1. "errno" \in Answers /\ "errno" # "deleted"
    BY DEF Answers, Errors
  <2>2. Tidy(tree') /\ removed' = {}
    BY <1>1, <1>2
  <2> QED
    BY <1>1, <1>3, <2>1, <2>2, AnsweringKeeps, Zenon
<1>4. CASE /\ dirs < MaxDirs /\ stack' = <<Call(path)>> /\ dirs' = dirs + 1 /\ pc' = "readdir"
           /\ UNCHANGED <<changes, request, st, reply>>
  <2>1. reader.url \in Seq(Chars) /\ path \in Seq(Chars) /\ reader.url # Unset /\ ~Empty(reader.url)
    BY <1>1, UrlOfServing, PathTyped DEF IInv, Recursing
  <2>2. Call(path) \in Calls /\ Call(path).path = path
    BY <1>2, <2>1, CallTyped
  <2> HIDE DEF path
  <2> DEFINE call == Call(path)
  <2> HIDE DEF call
  <2>3. stack' \in Seq(Calls) /\ Len(stack') = 1 /\ stack'[1] = call
    BY <1>4, <2>2 DEF call
  <2>4. reader' = reader /\ tree' = tree /\ reply' = reply
    BY <1>1, <1>4 DEF request
  <2>5. TypeOK'
    BY <1>1, <1>2, <1>4, <2>3, <2>4, LimitsAreNumbers DEF IInv, TypeOK, request
  <2>6. Reading'
    BY <1>1, <1>4, ReadingStays DEF IInv, Serving
  <2>7. Carried' /\ Coming'
    BY <1>1, <1>4, CarriedStays, ComingStays DEF IInv, Serving
  <2>8. Recursing'
    <3>1. stack'[1].path = path
      BY <2>2, <2>3 DEF call
    <3> QED
      BY <1>4, <2>1, <2>3, <2>4, <3>1 DEF Recursing, path
  <2>9. Untouched'
    BY <1>2, <1>4, <2>4 DEF Untouched
  <2>10. OkMeansGone' /\ ErrorsTouchNothing' /\ reply'.kind \in Answers \cup {"none"}
    BY <1>1, <2>4, Zenon DEF IInv, OkMeansGone, ErrorsTouchNothing
  <2>11. DirsClosed'
    BY <1>1, <1>2, <1>4, <2>3 DEF IInv, DirsClosed
  <2> QED
    BY <2>5, <2>6, <2>7, <2>8, <2>9, <2>10, <2>11, Zenon DEF IInv
<1> QED
  BY <1>3, <1>4, Zenon DEF OpenDir

(***************************************************************************)
(* A piece of a header                                                     *)
(***************************************************************************)
LEMMA TailIs ==
  ASSUME NEW S, NEW s \in Seq(S), s # << >>
  PROVE  /\ Len(s) \in Nat \ {0} /\ DOMAIN s = 1..Len(s) /\ Head(s) = s[1] /\ s[1] \in S
         /\ Tail(s) \in Seq(S) /\ Len(Tail(s)) = Len(s) - 1 /\ DOMAIN Tail(s) = 1..Len(s) - 1
         /\ \A k \in 1..Len(s) - 1 : Tail(s)[k] = s[k + 1]
         /\ Tail(s) = << >> <=> Len(s) = 1
<1>1. /\ Len(s) \in Nat \ {0} /\ DOMAIN s = 1..Len(s) /\ Head(s) = s[1] /\ s[1] \in S
  OBVIOUS
<1>2. Tail(s) \in Seq(S) /\ Len(Tail(s)) = Len(s) - 1
  OBVIOUS
<1>3. \A k \in 1..Len(s) - 1 : Tail(s)[k] = s[k + 1]
  OBVIOUS
<1> DEFINE t == Tail(s)
<1>4. t \in Seq(S) /\ Len(t) = Len(s) - 1
  BY <1>2
<1> HIDE DEF t
<1>5. DOMAIN t = 1..Len(t) /\ (t = << >> <=> Len(t) = 0)
  <2>1. DOMAIN t = 1..Len(t)
    BY <1>4
  <2>2. t = << >> <=> Len(t) = 0
    BY <1>4, EmptySeq
  <2> QED
    BY <2>1, <2>2
<1>6. Len(s) - 1 = 0 <=> Len(s) = 1
  BY <1>1
<1>7. DOMAIN t = 1..Len(s) - 1 /\ (t = << >> <=> Len(s) = 1)
  BY <1>4, <1>5, <1>6, Zenon
<1> QED
  BY <1>1, <1>2, <1>3, <1>7, Zenon DEF t

\* A name, or a value, of the pieces is in the first of them or after it.
LEMMA FirstOrLater ==
  ASSUME NEW s \in Seq(Pieces), s # << >>
  PROVE  /\ Names(s) => "newname" \in Head(s).fields \/ Names(Tail(s))
         /\ Values(s) => Head(s).value # Unset \/ Values(Tail(s))
<1>1. /\ DOMAIN s = 1..Len(s) /\ Head(s) = s[1] /\ DOMAIN Tail(s) = 1..Len(s) - 1
      /\ \A k \in 1..Len(s) - 1 : Tail(s)[k] = s[k + 1]
  BY TailIs
<1>2. \A k \in DOMAIN s : k = 1 \/ (k - 1 \in DOMAIN Tail(s) /\ Tail(s)[k - 1] = s[k])
  <2>1. ASSUME NEW k \in DOMAIN s, k # 1 PROVE k - 1 \in 1..Len(s) - 1 /\ (k - 1) + 1 = k
    BY <1>1, <2>1
  <2> QED
    BY <1>1, <2>1
<1> QED
  BY <1>1, <1>2, Zenon DEF Names, Values

LEMMA TailOrdered ==
  ASSUME NEW s \in Seq(Pieces), s # << >>, Ordered(s)
  PROVE  /\ Ordered(Tail(s))
         /\ "newname" \in Head(s).fields => Values(s)
<1>1. /\ DOMAIN s = 1..Len(s) /\ Head(s) = s[1] /\ DOMAIN Tail(s) = 1..Len(s) - 1
      /\ \A k \in 1..Len(s) - 1 : Tail(s)[k] = s[k + 1]
      /\ Len(s) \in Nat \ {0}
  BY TailIs
<1>2. ASSUME NEW k \in DOMAIN Tail(s), "newname" \in Tail(s)[k].fields
      PROVE  \E j \in DOMAIN Tail(s) : k <= j /\ Tail(s)[j].value # Unset
  <2>1. k \in 1..Len(s) - 1 /\ k + 1 \in DOMAIN s
    BY <1>1, <1>2
  <2>2. Tail(s)[k] = s[k + 1]
    BY <1>1, <2>1
  <2>3. PICK j \in DOMAIN s : k + 1 <= j /\ s[j].value # Unset
    BY <1>2, <2>1, <2>2 DEF Ordered
  <2>4. j - 1 \in 1..Len(s) - 1 /\ k <= j - 1 /\ (j - 1) + 1 = j
    BY <1>1, <2>1, <2>3
  <2>5. Tail(s)[j - 1] = s[j]
    BY <1>1, <2>4
  <2> QED
    BY <1>1, <2>3, <2>4, <2>5
<1>3. 1 \in DOMAIN s
  BY <1>1
<1> QED
  BY <1>1, <1>2, <1>3, Zenon DEF Ordered, Values

LEMMA NothingInNothing == ~Names(<< >>) /\ ~Values(<< >>)
BY DEF Names, Values

\* The new name after a piece: in the pieces to come, recognised, or there.
LEMMA NewNameComes ==
  ASSUME NEW left \in Seq(Pieces), left # << >>, Ordered(left), NEW r, NEW flags, NEW name,
         "newname" \in Fields(r) =>
           Names(left) \/ "newname" \in reader.flags \/ reader.newname # Unset,
         "newname" \in reader.flags => Values(left),
         LET seen == reader.flags \cup Head(left).fields
             takes == "newname" \in seen /\ Head(left).value # Unset
         IN  /\ name = IF takes THEN Head(left).value ELSE reader.newname
             /\ "newname" \in flags <=> "newname" \in seen /\ ~takes
  PROVE  /\ "newname" \in Fields(r) =>
              Names(Tail(left)) \/ "newname" \in flags \/ name # Unset
         /\ "newname" \in flags => Values(Tail(left))
<1> DEFINE named == "newname" \in Head(left).fields
           flag == "newname" \in reader.flags
           value == Head(left).value # Unset
<1>1. "newname" \in flags <=> (flag \/ named) /\ ~value
  OBVIOUS
<1>2. name # Unset \/ ((flag \/ named) => ~value)
  BY Zenon
<1>3. name = reader.newname \/ name # Unset
  BY Zenon
<1>4. /\ "newname" \in Fields(r) => Names(left) \/ flag \/ reader.newname # Unset
      /\ flag => Values(left)
  OBVIOUS
<1>5. Names(left) => named \/ Names(Tail(left))
  BY FirstOrLater
<1>6. Values(left) => value \/ Values(Tail(left))
  BY FirstOrLater
<1>7. named => Values(left)
  BY TailOrdered
<1> HIDE DEF named, flag, value
<1> QED
  BY <1>1, <1>2, <1>3, <1>4, <1>5, <1>6, <1>7, Zenon

LEMMA RecvKeeps ==
  ASSUME IInv, NEW r \in Requests, Recv(r) PROVE IInv'
<1> DEFINE left == IF req.left # << >> THEN req.left ELSE r.pieces
           piece == Head(left)
           url == IF piece.url = << >> THEN reader.url ELSE OnUrl(piece.url)
           seen == reader.flags \cup piece.fields
           takes == "newname" \in seen /\ piece.value # Unset
           flags == (IF takes THEN seen \ {"newname"} ELSE seen)
                      \cup (IF Len(left) = 1 THEN {"finished"} ELSE {})
           name == IF takes THEN piece.value ELSE reader.newname
           early == IF req.left # << >> THEN req.early ELSE "finished" \in reader.flags
<1>1. /\ pc = "recv" /\ reply' = None /\ removed' = {} /\ slips' = {} /\ st' = "none"
      /\ tree' = tree /\ changes' = changes /\ past' = past /\ stack' = stack
      /\ dirs' = dirs /\ lost' = lost
  BY DEF Recv
<1>2. \/ req.left # << >> /\ r = req.ask /\ count' = count
      \/ req.left = << >> /\ count < MaxRequests /\ count' = count + 1
  BY Zenon DEF Recv
<1>3. req' = [ask |-> r, left |-> Tail(left), early |-> early]
  BY Zenon DEF Recv
<1>4. reader' = [url |-> url, flags |-> flags, newname |-> name]
  BY Zenon DEF Recv
<1>5. pc' = IF url = Never THEN "spins"
            ELSE IF "finished" \notin flags THEN "recv"
            ELSE IF r.method = "PUT" THEN "mkdir" ELSE "open"
  BY Zenon DEF Recv
<1>6. stack = << >> /\ Tidy(tree) /\ count \in 0..MaxRequests
  BY <1>1 DEF IInv, TypeOK
<1>7. /\ left \in Seq(Pieces) /\ left # << >> /\ Len(left) <= Len(r.pieces)
      /\ (\A k \in DOMAIN left : PieceOf(left[k], r)) /\ Ordered(left)
      /\ Len(r.pieces) = 1 => left = r.pieces
  <2>1. r.pieces \in Seq(Pieces) /\ r.pieces # << >>
        /\ (\A k \in DOMAIN r.pieces : PieceOf(r.pieces[k], r)) /\ Ordered(r.pieces)
    BY RequestIs
  <2>2. CASE req.left = << >>
    BY <2>1, <2>2
  <2>3. CASE req.left # << >>
    <3>1. req.left \in Seq(Pieces) /\ Len(req.left) < Len(r.pieces)
          /\ (\A k \in DOMAIN req.left : PieceOf(req.left[k], r)) /\ Ordered(req.left)
      BY <1>2, <2>3 DEF IInv, Reading, Coming
    <3> QED
      BY <2>1, <2>3, <3>1
  <2> QED
    BY <2>2, <2>3
<1> HIDE DEF left
<1>8. /\ piece \in Pieces /\ piece.fields \subseteq HeadsOf(r)
      /\ piece.value # Unset => piece.value \in NewNamesOf(r)
  <2>1. 1 \in DOMAIN left /\ piece = left[1]
    BY <1>7
  <2> QED
    BY <1>7, <2>1 DEF PieceOf, HeadsOf
<1>9. /\ Tail(left) \in Seq(Pieces) /\ Len(Tail(left)) < Len(r.pieces)
      /\ \A k \in DOMAIN Tail(left) : PieceOf(Tail(left)[k], r)
      /\ Len(left) # 1 => Tail(left) # << >>
  <2>1. Tail(left) \in Seq(Pieces) /\ Len(Tail(left)) = Len(left) - 1
        /\ \A k \in 1..Len(left) - 1 : Tail(left)[k] = left[k + 1]
    BY <1>7
  <2>2. Len(left) \in Nat \ {0} /\ Len(r.pieces) \in Nat
    BY <1>7, RequestIs
  <2>3. Len(Tail(left)) < Len(r.pieces) /\ (Len(left) # 1 => Tail(left) # << >>)
    BY <1>7, <2>1, <2>2
  <2>4. ASSUME NEW k \in DOMAIN Tail(left) PROVE PieceOf(Tail(left)[k], r)
    <3>1. k \in 1..Len(left) - 1 /\ k + 1 \in DOMAIN left
      BY <1>7, <2>1, <2>2
    <3> QED
      BY <1>7, <2>1, <3>1
  <2> QED
    BY <2>1, <2>3, <2>4
<1>24. /\ name = IF takes THEN Head(left).value ELSE reader.newname
       /\ takes <=> "newname" \in reader.flags \cup Head(left).fields /\ Head(left).value # Unset
       /\ "newname" \in flags <=> "newname" \in reader.flags \cup Head(left).fields /\ ~takes
       /\ "finished" \in flags <=>
            Len(left) = 1 \/ "finished" \in reader.flags \cup Head(left).fields
  OBVIOUS
<1> HIDE DEF piece
<1>10. reader \in Readers /\ reader.url # Never
  BY <1>1 DEF IInv, Reading
<1>11. url \in Seq(Chars) \cup {Unset, Never}
  <2>1. piece.url \in Seq(Chars)
    BY <1>8 DEF Pieces
  <2>2. OnUrl(piece.url) \in Seq(Chars) \cup {Unset, Never}
    BY <2>1, OnUrlTyped
  <2> QED
    BY <1>10, <2>2 DEF Readers
<1>12. flags \subseteq Heads \cup {"finished"}
  BY <1>8, <1>10 DEF Readers, Pieces, Heads
<1>13. name \in Seq(Chars) \cup {Unset}
  BY <1>8, <1>10 DEF Readers, Pieces
<1>14. /\ url = Never <=> pc' = "spins"
       /\ pc' = "recv" => Len(left) # 1
       /\ pc' # "spins" => (pc' = "recv" <=> "finished" \notin flags)
       /\ pc' = "open" => r.method # "PUT"
       /\ pc' \in {"recv", "mkdir", "open", "spins"}
  BY <1>5
<1>25. /\ \A h \in Heads : h \in flags => h \in reader.flags \/ h \in piece.fields
       /\ name # reader.newname =>
            /\ "newname" \in reader.flags \/ "newname" \in piece.fields
            /\ piece.value # Unset /\ name = piece.value
  BY DEF Heads
<1> HIDE DEF url, flags, name, takes, seen
<1>15. /\ reader' \in Readers
       /\ reader'.url = url /\ reader'.flags = flags /\ reader'.newname = name
  BY <1>4, <1>11, <1>12, <1>13, Zenon DEF Readers
<1>16. req'.ask = r /\ req'.left = Tail(left) /\ req'.early = early
  BY <1>3
<1>17. count' \in 1..MaxRequests
  <2>1. req.left # << >> => count > 0
    BY DEF IInv, Reading
  <2> QED
    BY <1>2, <1>6, <2>1, LimitsAreNumbers
<1>18. TypeOK'
  BY <1>1, <1>6, <1>12, <1>14, <1>15, <1>16, <1>17 DEF IInv, TypeOK
<1>19. Reading'
  <2>1. ~Split' => left = r.pieces /\ Len(left) = 1 /\ url = OnUrl(Url')
    <3>1. Split' <=> Len(r.pieces) > 1
      BY <1>16 DEF Split
    <3>2. Url' = r.pieces[1].url /\ Url' # << >>
      BY <1>16, RequestIs DEF Url
    <3>3. left = r.pieces => piece = r.pieces[1]
      BY <1>7 DEF piece
    <3>4. Len(r.pieces) > 1 \/ Len(r.pieces) = 1
      <4>1. Len(r.pieces) \in Nat \ {0}
        BY RequestIs
      <4>2. \A n \in Nat \ {0} : n > 1 \/ n = 1
        OBVIOUS
      <4> QED
        BY <4>1, <4>2, Zenon
    <3> SUFFICES ASSUME ~Split' PROVE left = r.pieces /\ Len(left) = 1 /\ url = OnUrl(Url')
      OBVIOUS
    <3>5. Len(r.pieces) = 1
      BY <3>1, <3>4, Zenon
    <3>6. left = r.pieces /\ piece.url = Url'
      BY <1>7, <3>2, <3>3, <3>5
    <3>7. url = OnUrl(Url')
      BY <3>2, <3>6 DEF url
    <3> QED
      BY <3>5, <3>6, <3>7
  <2>2. r.method # "PUT" => r.method \in {"GET", "DELETE"}
    BY RequestIs
  <2>3. count' > 0
    BY <1>17
  <2>4. ~Split' => /\ pc' = "spins" <=> OnUrl(Url') = Never
                   /\ pc' # "recv" => reader'.url = OnUrl(Url')
    BY <1>14, <1>15, <2>1
  <2> QED
    BY <1>9, <1>14, <1>15, <1>16, <2>2, <2>3, <2>4, Zenon DEF Reading
<1>20. Carried'
  <2>1. Asked' = past \cup HeadsOf(r)
    <3>1. ~(pc' = "recv" /\ req'.left = << >>)
      BY <1>9, <1>14, <1>16
    <3> QED
      BY <1>1, <1>16, <3>1 DEF Asked
  <2>2. Asked \subseteq Asked'
    BY <1>1, <1>2, <2>1 DEF Asked
  <2>3. \A h \in Heads : h \in reader.flags \/ h \in piece.fields => h \in Asked'
    <3>1. \A h \in Heads : h \in reader.flags => h \in Asked
      BY DEF IInv, Carried, Heads
    <3> QED
      BY <1>8, <2>1, <2>2, <3>1
  <2>4. ASSUME reader'.newname # reader.newname
        PROVE  "newname" \in Asked' /\ reader'.newname \in NewNames'
    BY <1>8, <1>15, <1>16, <1>25, <2>3, <2>4 DEF NewNames, Heads
  <2>5. ASSUME reader'.newname = reader.newname, reader'.newname # Unset
        PROVE  "newname" \in Asked' /\ reader'.newname \in NewNames'
    <3>1. reader'.newname = reader.newname
      BY <2>5
    <3>2. "newname" \in Asked /\ reader.newname \in NewNames
      BY <2>5, <3>1 DEF IInv, Carried
    <3>3. CASE req.left # << >>
      BY <1>1, <1>2, <1>16, <2>2, <3>1, <3>2, <3>3 DEF NewNames
    <3>4. CASE req.left = << >>
      <4>1. "newname" \in past
        BY <1>1, <3>2, <3>4 DEF Asked
      <4>2. req.ask \in Requests
        BY <1>6, <4>1 DEF IInv, Reading, TypeOK
      <4>3. reader.newname \in UNION {NewNamesOf(q) : q \in Requests}
        BY <3>2, <4>1, <4>2, Zenon DEF NewNames
      <4> QED
        BY <1>1, <2>2, <3>1, <3>2, <4>1, <4>3 DEF NewNames
    <3> QED
      BY <3>3, <3>4
  <2> QED
    BY <1>15, <1>25, <2>3, <2>4, <2>5 DEF Carried, Heads
<1>26. Coming'
  <2>1. Ordered(Tail(left))
    BY <1>7, TailOrdered
  <2>2. Tail(left) = << >> <=> Len(left) = 1
    BY <1>7, TailIs
  <2>3. ASSUME ~early
        PROVE  /\ "finished" \notin reader.flags
               /\ "newname" \in Fields(r) =>
                    Names(left) \/ "newname" \in reader.flags \/ reader.newname # Unset
               /\ "newname" \in reader.flags => Values(left)
    <3>1. CASE req.left # << >>
      BY <1>1, <1>2, <2>3, <3>1, Zenon DEF IInv, Coming, Waits, left, early
    <3>2. CASE req.left = << >>
      <4>1. reader.flags = {}
        BY <1>1, <2>3, <3>2, Zenon DEF IInv, Coming, early
      <4>2. left = r.pieces
        BY <3>2 DEF left
      <4>3. "newname" \in Fields(r) => Names(r.pieces)
        BY Zenon DEF Fields, Names
      <4> QED
        BY <4>1, <4>2, <4>3
    <3> QED
      BY <3>1, <3>2
  <2> DEFINE Comes == /\ "newname" \in Fields(r) => 
                           Names(Tail(left)) \/ "newname" \in flags \/ name # Unset
                      /\ "newname" \in flags => Values(Tail(left))
  <2>4. ~early => Comes
    BY <1>7, <1>24, <2>3, NewNameComes, Zenon
  <2>5. ~early => ("finished" \in flags <=> Len(left) = 1)
    BY <1>8, <1>24, <2>3 DEF piece, Pieces, Heads
  <2>6. ~early /\ pc' = "recv" => Waits(req.left)'
    BY <1>14, <1>15, <1>16, <2>4, Zenon DEF Waits
  <2>7. ~early /\ pc' \notin {"recv", "spins"} => Tail(left) = << >> /\ Brought'
    <3>1. ~early /\ pc' \notin {"recv", "spins"} => Tail(left) = << >>
      BY <1>14, <2>2, <2>5, Zenon
    <3>2. ~early /\ Tail(left) = << >> => ("newname" \in Fields(r) => name # Unset)
      BY <2>4, NothingInNothing, Zenon
    <3> QED
      BY <1>15, <1>16, <3>1, <3>2, Zenon DEF Brought
  <2>8. pc' = "recv" => req'.left # << >>
    BY <1>14, <1>16, <2>2
  <2>9. pc' \notin {"recv", "spins"} => "finished" \in reader'.flags
    BY <1>14, <1>15
  <2> QED
    BY <1>16, <2>1, <2>6, <2>7, <2>8, <2>9, Zenon DEF Coming
<1>21. Recursing'
  <2>1. pc' \notin {"opendir", "readdir"} /\ stack' = << >>
    BY <1>1, <1>6, <1>14
  <2> QED
    BY <2>1 DEF Recursing
<1>22. Untouched' /\ OkMeansGone' /\ ErrorsTouchNothing' /\ reply'.kind \in Answers \cup {"none"}
  BY <1>1 DEF Untouched, OkMeansGone, ErrorsTouchNothing, None
<1>23. DirsClosed'
  BY <1>1 DEF IInv, DirsClosed
<1> QED
  BY <1>18, <1>19, <1>20, <1>21, <1>22, <1>23, <1>26, Zenon DEF IInv

(***************************************************************************)
(* The recursion                                                           *)
(***************************************************************************)
LEMMA InTheRecursion ==
  ASSUME IInv, pc = "readdir"
  PROVE  /\ Tidy(tree) /\ stack \in Seq(Calls) /\ stack # << >> /\ Len(stack) \in Nat \ {0}
         /\ Last(stack) = stack[Len(stack)] /\ Last(stack) \in Calls
         /\ Front(stack) \in Seq(Calls) /\ Len(Front(stack)) = Len(stack) - 1
         /\ \A k \in 1..Len(stack) - 1 : Front(stack)[k] = stack[k]
         /\ dirs = lost + Len(stack) /\ dirs \in 0..MaxDirs /\ lost \in Nat
         /\ slips \subseteq {"ignored", "stat"} /\ reply = None
<1>1. stack \in Seq(Calls) /\ stack # << >>
  BY DEF IInv, Recursing, TypeOK
<1>2. Len(stack) \in Nat \ {0}
  BY <1>1
<1>3. Last(stack) = stack[Len(stack)] /\ stack[Len(stack)] \in Calls
  BY <1>1, <1>2 DEF Last
<1>4. Front(stack) \in Seq(Calls) /\ Len(Front(stack)) = Len(stack) - 1
      /\ \A k \in 1..Len(stack) - 1 : Front(stack)[k] = stack[k]
  BY <1>1, FrontIs
<1>5. /\ Tidy(tree) /\ dirs = lost + Len(stack) /\ dirs \in 0..MaxDirs /\ lost \in Nat
      /\ slips \subseteq {"ignored", "stat"} /\ reply = None
  BY DEF IInv, TypeOK, DirsClosed, Untouched
<1> QED
  BY <1>1, <1>2, <1>3, <1>4, <1>5

\* A step from call to call.
LEMMA RecursingKeeps ==
  ASSUME IInv, pc = "readdir", UNCHANGED <<changes, request, pc, st, reply>>, Tidy(tree'),
         stack' \in Seq(Calls), stack' # << >>, stack'[1].path = stack[1].path,
         \A k \in DOMAIN stack' : k > 1 => Len(stack'[k].path) = 1,
         dirs' \in 0..MaxDirs, lost' \in Nat, DirsClosed', slips' \subseteq {"ignored", "stat"}
  PROVE  IInv'
<1>1. /\ changes' = changes /\ reader' = reader /\ req' = req /\ count' = count /\ past' = past
      /\ pc' = "readdir" /\ st' = st /\ reply' = None
  BY InTheRecursion DEF request
<1>2. pc \in Serving /\ pc' \in Serving \ {"open"}
  BY <1>1 DEF Serving
<1>3. TypeOK'
  BY <1>1 DEF IInv, TypeOK
<1>4. Reading'
  BY <1>2, ReadingStays DEF IInv
<1>5. Carried' /\ Coming'
  BY <1>2, CarriedStays, ComingStays DEF IInv
<1>6. Recursing'
  <2>1. stack[1].path = PathOf(reader.url) /\ reader.url \in Seq(Chars)
        /\ reader.url # Unset /\ ~Empty(reader.url)
    BY InTheRecursion DEF IInv, Recursing
  <2> QED
    BY <1>1, <2>1 DEF Recursing
<1>7. Untouched' /\ OkMeansGone' /\ ErrorsTouchNothing' /\ reply'.kind \in Answers \cup {"none"}
  BY <1>1 DEF Untouched, OkMeansGone, ErrorsTouchNothing, None
<1> QED
  BY <1>3, <1>4, <1>5, <1>6, <1>7, Zenon DEF IInv

\* The calls without an entry of the last one.
LEMMA RestIs ==
  ASSUME IInv, pc = "readdir", NEW e
  PROVE  /\ Rest(e) \in Seq(Calls) /\ Len(Rest(e)) = Len(stack) /\ Rest(e) # << >>
         /\ \A k \in 1..Len(stack) : Rest(e)[k].path = stack[k].path
<1> DEFINE n == Len(stack)
           call == [stack[n] EXCEPT !.todo = @ \ {e}]
<1>1. stack \in Seq(Calls) /\ n \in Nat \ {0} /\ stack[n] \in Calls
  BY InTheRecursion
<1>2. call \in Calls
  BY <1>1, Zenon DEF Calls
<1>3. call.path = stack[n].path
  BY <1>1, Zenon DEF Calls
<1>4. Rest(e) = [stack EXCEPT ![n] = call]
  BY <1>1 DEF Rest
<1> HIDE DEF call
<1> QED
  BY <1>1, <1>2, <1>3, <1>4

\* A return.
LEMMA ReturnKeeps ==
  ASSUME IInv, pc = "readdir", NEW kind \in Answers, Return(Front(stack), kind), Tidy(tree'),
         dirs' \in 0..MaxDirs, lost' \in Nat, dirs' = lost' + (Len(stack) - 1),
         slips' \subseteq {"ignored", "stat"},
         Len(stack) = 1 /\ kind = "deleted" => Named \notin DOMAIN tree' \/ "ignored" \in slips',
         kind \in Errors => "stat" \in slips'
  PROVE  IInv'
<1> DEFINE rest == Front(stack)
<1>1. /\ rest \in Seq(Calls) /\ Len(rest) = Len(stack) - 1 /\ Len(stack) \in Nat \ {0}
      /\ \A k \in 1..Len(stack) - 1 : rest[k] = stack[k]
  BY InTheRecursion
<1>2. /\ stack' = rest
      /\ IF rest = << >> THEN Responds(kind) ELSE UNCHANGED <<changes, request, pc, st, reply>>
  BY Zenon DEF Return
<1>3. DirsClosed'
  BY <1>1, <1>2 DEF DirsClosed
<1> HIDE DEF rest
<1>4. CASE rest = << >>
  <2>1. Len(stack) = 1 /\ pc \in Serving
    BY <1>1, <1>4 DEF Serving
  <2> QED
    BY <1>2, <1>3, <1>4, <2>1, RespondingKeeps, Zenon
<1>5. CASE rest # << >>
  <2>1. rest[1] = stack[1]
    BY <1>1, <1>5
  <2>2. \A k \in DOMAIN rest : k > 1 => Len(rest[k].path) = 1
    <3>1. \A k \in DOMAIN stack : k > 1 => Len(stack[k].path) = 1
      BY DEF IInv, Recursing
    <3>2. DOMAIN rest = 1..Len(stack) - 1 /\ DOMAIN stack = 1..Len(stack)
      BY <1>1, InTheRecursion
    <3>3. \A k \in DOMAIN rest : k \in DOMAIN stack /\ rest[k] = stack[k]
      BY <1>1, <3>2
    <3> QED
      BY <3>1, <3>3
  <2> QED
    BY <1>1, <1>2, <1>3, <1>5, <2>1, <2>2, RecursingKeeps
<1> QED
  BY <1>4, <1>5

LEMMA EntryPathTyped ==
  ASSUME IInv, pc = "readdir", NEW e \in Last(stack).todo
  PROVE  /\ EntryPath(e) \in Seq(Chars) /\ Len(EntryPath(e)) = 1
         /\ Real(EntryPath(e), FALSE) = EntryPath(e)
         /\ Kind(Real(EntryPath(e), TRUE)) \in {"none", "file", "dir"}
<1>1. Tidy(tree) /\ e \in Chars
  BY InTheRecursion DEF Calls
<1>2. EntryPath(e) \in Seq(Chars) /\ Len(EntryPath(e)) = 1
  BY <1>1 DEF EntryPath
<1> QED
  BY <1>1, <1>2, NameIsReal, NoLinkIsReal, Zenon

LEMMA EntryKeeps ==
  ASSUME IInv, pc = "readdir", NEW e \in Last(stack).todo, Entry(e)
  PROVE  IInv'
<1> DEFINE path == EntryPath(e)
           item == Real(path, FALSE)
           kind == Kind(Real(path, TRUE))
           n == Len(stack)
           same == UNCHANGED <<changes, request, pc, st, reply>>
           opens == stack' = Append(Rest(e), Call(path)) /\ dirs' = dirs + 1 /\ UNCHANGED slips
           fails == stack' = Rest(e) /\ slips' = slips \cup {"ignored"} /\ UNCHANGED dirs
           gone == Unlink(item) = "OK" /\ Removes(item) /\ UNCHANGED slips
           kept == Keeps /\ slips' = slips \cup {"ignored"}
           stat == /\ Keeps /\ UNCHANGED dirs /\ lost' = lost + 1
                   /\ Return(Front(stack), "errno")
                   /\ slips' = slips \cup {"stat"} \cup (IF n > 1 THEN {"ignored"} ELSE {})
<1>1. path \in Seq(Chars) /\ Len(path) = 1 /\ item = path /\ kind \in {"none", "file", "dir"}
  BY EntryPathTyped
<1>2. \/ stat
      \/ dirs < MaxDirs /\ opens /\ Keeps /\ same /\ UNCHANGED lost
      \/ fails /\ Keeps /\ same /\ UNCHANGED lost
      \/ stack' = Rest(e) /\ (gone \/ kept) /\ same /\ UNCHANGED <<dirs, lost>>
  <2> HIDE DEF same
  <2>1. (CASE kind = "none" -> stat
           [] kind = "dir" -> /\ IF dirs < MaxDirs THEN opens ELSE fails
                              /\ Keeps /\ same /\ UNCHANGED lost
           [] kind = "file" -> /\ stack' = Rest(e)
                               /\ IF Unlink(item) = "OK" THEN Removes(item) /\ UNCHANGED slips
                                  ELSE kept
                               /\ same /\ UNCHANGED <<dirs, lost>>)
    BY Zenon DEF Entry, same
  <2> HIDE DEF stat, opens, fails, kept, kind
  <2>2. \/ stat
        \/ (IF dirs < MaxDirs THEN opens ELSE fails) /\ Keeps /\ same /\ UNCHANGED lost
        \/ /\ stack' = Rest(e)
           /\ IF Unlink(item) = "OK" THEN Removes(item) /\ UNCHANGED slips ELSE kept
           /\ same /\ UNCHANGED <<dirs, lost>>
    BY <1>1, <2>1
  <2> QED
    BY <2>2, Zenon
<1> HIDE DEF path, item, kind
<1>3. /\ Tidy(tree) /\ n \in Nat \ {0} /\ dirs = lost + n /\ dirs \in 0..MaxDirs /\ lost \in Nat
      /\ slips \subseteq {"ignored", "stat"} /\ stack \in Seq(Calls)
  BY InTheRecursion
<1>4. Rest(e) \in Seq(Calls) /\ Len(Rest(e)) = n /\ Rest(e) # << >>
      /\ \A k \in 1..n : Rest(e)[k].path = stack[k].path
  BY RestIs
<1>5. \A k \in 1..n : k > 1 => Len(stack[k].path) = 1
  BY <1>3 DEF IInv, Recursing
<1>6. Rest(e)[1].path = stack[1].path /\ \A k \in DOMAIN Rest(e) : k > 1 => Len(Rest(e)[k].path) = 1
  BY <1>3, <1>4, <1>5
<1>7. CASE stat
  <2>1. Tidy(tree') /\ dirs' \in 0..MaxDirs /\ lost' \in Nat /\ dirs' = lost' + (n - 1)
    BY <1>3, <1>7 DEF Keeps
  <2>2. slips' \subseteq {"ignored", "stat"} /\ "stat" \in slips'
    BY <1>3, <1>7
  <2>3. "errno" \in Answers /\ "errno" # "deleted"
    BY DEF Answers, Errors
  <2> QED
    BY <1>7, <2>1, <2>2, <2>3, ReturnKeeps, Zenon
<1>8. CASE dirs < MaxDirs /\ opens /\ Keeps /\ same /\ UNCHANGED lost
  <2> DEFINE call == Call(path)
             calls == Append(Rest(e), call)
  <2>1. call \in Calls /\ call.path = path
    BY <1>1, <1>3, CallTyped
  <2> HIDE DEF call
  <2>2. /\ calls \in Seq(Calls) /\ Len(calls) = n + 1 /\ calls # << >> /\ calls[n + 1] = call
        /\ \A k \in 1..n : calls[k] = Rest(e)[k]
    BY <1>3, <1>4, <2>1
  <2> HIDE DEF calls
  <2>3. calls[1].path = stack[1].path
    BY <1>3, <1>6, <2>2
  <2>4. ASSUME NEW k \in DOMAIN calls, k > 1 PROVE Len(calls[k].path) = 1
    <3>1. k \in 1..n \/ k = n + 1
      BY <1>3, <2>2
    <3>2. \A l \in 1..n : l \in DOMAIN Rest(e)
      BY <1>4
    <3> QED
      BY <1>1, <1>6, <2>1, <2>2, <2>4, <3>1, <3>2
  <2>5. stack' = calls
    BY <1>8 DEF calls, call
  <2>6. dirs' \in 0..MaxDirs /\ lost' \in Nat /\ dirs' = lost' + Len(stack') /\ slips' = slips
        /\ tree' = tree
    BY <1>3, <1>8, <2>2, <2>5, LimitsAreNumbers DEF Keeps
  <2>7. DirsClosed'
    BY <2>6 DEF DirsClosed
  <2> QED
    BY <1>3, <1>8, <2>2, <2>3, <2>4, <2>5, <2>6, <2>7, RecursingKeeps
<1>9. CASE fails /\ Keeps /\ same /\ UNCHANGED lost
  <2>1. DirsClosed' /\ Tidy(tree') /\ slips' \subseteq {"ignored", "stat"}
    BY <1>3, <1>4, <1>9 DEF DirsClosed, Keeps
  <2> QED
    BY <1>3, <1>4, <1>6, <1>9, <2>1, RecursingKeeps
<1>10. CASE stack' = Rest(e) /\ (gone \/ kept) /\ same /\ UNCHANGED <<dirs, lost>>
  <2>1. Tidy(tree')
    <3>1. CASE gone
      <4>1. Kind(item) \notin {"none", "dir"} /\ tree' = Without({item})
        BY <3>1, UnlinkOK DEF Removes
      <4> QED
        BY <1>1, <1>3, <4>1, WithoutIsTidy
    <3>2. CASE kept
      BY <1>3, <3>2 DEF Keeps
    <3> QED
      BY <1>10, <3>1, <3>2
  <2>2. DirsClosed' /\ slips' \subseteq {"ignored", "stat"}
    BY <1>3, <1>4, <1>10 DEF DirsClosed
  <2> QED
    BY <1>3, <1>4, <1>6, <1>10, <2>1, <2>2, RecursingKeeps
<1> QED
  BY <1>2, <1>7, <1>8, <1>9, <1>10

LEMMA LeaveKeeps ==
  ASSUME IInv, Leave PROVE IInv'
<1> DEFINE item == Real(Path, FALSE)
           n == Len(stack)
<1>1. /\ pc = "readdir" /\ dirs' = dirs - 1 /\ lost' = lost /\ Return(Front(stack), "deleted")
      /\ \/ Rmdir(item) = "OK" /\ Removes(item) /\ slips' = slips
         \/ Keeps /\ slips' = slips \cup {"ignored"}
  BY Zenon DEF Leave
<1>2. /\ Tidy(tree) /\ n \in Nat \ {0} /\ dirs = lost + n /\ dirs \in 0..MaxDirs /\ lost \in Nat
      /\ slips \subseteq {"ignored", "stat"} /\ Last(stack) = stack[n] /\ Last(stack) \in Calls
  BY <1>1, InTheRecursion
<1>3. Path \in Seq(Chars)
  BY <1>2 DEF Path, Calls
<1>4. dirs' \in 0..MaxDirs /\ lost' \in Nat /\ dirs' = lost' + (n - 1)
      /\ slips' \subseteq {"ignored", "stat"}
  <2>1. dirs' = lost' + (n - 1) /\ dirs - 1 \in 0..MaxDirs
    BY <1>1, <1>2, LimitsAreNumbers
  <2>2. slips' \subseteq {"ignored", "stat"}
    BY <1>1, <1>2
  <2> QED
    BY <1>1, <1>2, <2>1, <2>2
<1>5. "deleted" \in Answers \ Errors
  BY DEF Answers, Errors
<1>6. n = 1 => item = Named
  <2> SUFFICES ASSUME n = 1 PROVE item = Named
    OBVIOUS
  <2>1. Path = PathOf(reader.url) /\ reader.url \in Seq(Chars)
    BY <1>1, <1>2, InTheRecursion DEF IInv, Recursing, Path
  <2>2. reader.url # Unset /\ ~Empty(reader.url)
    BY <1>1 DEF IInv, Recursing
  <2> QED
    BY <2>1, <2>2, Zenon DEF Named, Where, PathOrIndex
<1> HIDE DEF item
<1>7. CASE Rmdir(item) = "OK" /\ Removes(item)
  <2>1. Kind(item) = "dir" /\ Under(item) = {} /\ tree' = Without({item})
    BY <1>7, RmdirOK DEF Removes
  <2>2. item \in Seq(Chars)
    BY <1>2, <2>1, KindsOfPaths
  <2>3. Tidy(tree')
    BY <1>2, <2>1, <2>2, WithoutIsTidy
  <2>4. item \notin DOMAIN tree'
    BY <2>1 DEF Without
  <2> QED
    BY <1>1, <1>4, <1>5, <1>6, <2>3, <2>4, ReturnKeeps, Zenon
<1>8. CASE Keeps /\ slips' = slips \cup {"ignored"}
  <2>1. Tidy(tree') /\ "ignored" \in slips'
    BY <1>2, <1>8 DEF Keeps
  <2> QED
    BY <1>1, <1>4, <1>5, <2>1, ReturnKeeps, Zenon
<1> QED
  BY <1>1, <1>7, <1>8

(***************************************************************************)
(* Other processes                                                         *)
(***************************************************************************)
LEMMA OthersKeep ==
  ASSUME IInv, NEW p \in Creatable, Others(p) PROVE IInv'
<1>1. /\ changes < MaxChanges /\ changes' = changes + 1
      /\ \/ Kind(p) = "none" /\ In(p) /\ tree' = With(p, "file")
         \/ Kind(p) = "file" /\ tree' = Without({p})
      /\ UNCHANGED <<request, pc, st, stack, result>>
  BY DEF Others
<1>2. p \in Seq(Chars)
  BY FileOpsAssumption, Zenon
<1>3. Tidy(tree')
  <2>1. Tidy(tree) /\ "file" \in Kinds
    BY DEF IInv, TypeOK, Kinds
  <2> QED
    BY <1>1, <1>2, <2>1, WithIsTidy, WithoutIsTidy
<1>4. /\ reader' = reader /\ req' = req /\ count' = count /\ past' = past /\ pc' = pc /\ st' = st
      /\ stack' = stack /\ reply' = reply /\ dirs' = dirs /\ lost' = lost
      /\ removed' = removed /\ slips' = slips
  BY <1>1 DEF request, result
<1>5. TypeOK'
  <2>1. changes' \in 0..MaxChanges
    BY <1>1, LimitsAreNumbers DEF IInv, TypeOK
  <2> QED
    BY <1>3, <1>4, <2>1 DEF IInv, TypeOK
<1>6. Reading' /\ Carried' /\ Coming'
  <2>1. Asked' = Asked /\ NewNames' = NewNames
    BY <1>4 DEF Asked, NewNames
  <2>2. Carried'
    BY <1>4, <2>1 DEF IInv, Carried
  <2>3. Split' = Split /\ Url' = Url
    BY <1>4 DEF Split, Url
  <2>4. Reading'
    BY <1>4, <2>3 DEF IInv, Reading
  <2>5. Coming'
    BY <1>4, Zenon DEF IInv, Coming, Waits, Brought
  <2> QED
    BY <2>2, <2>4, <2>5
<1>7. Recursing' /\ Untouched' /\ DirsClosed'
  BY <1>4, Zenon DEF IInv, Recursing, Untouched, DirsClosed
<1>8. OkMeansGone' /\ ErrorsTouchNothing' /\ reply'.kind \in Answers \cup {"none"}
  BY <1>4, Zenon DEF IInv, OkMeansGone, ErrorsTouchNothing
<1> QED
  BY <1>5, <1>6, <1>7, <1>8, Zenon DEF IInv

(***************************************************************************)
(* The specification                                                       *)
(***************************************************************************)
LEMMA InitIInv == Init => IInv
<1> SUFFICES ASSUME Init PROVE IInv
  OBVIOUS
<1>1. /\ tree = Tree /\ changes = 0 /\ count = 0 /\ past = {} /\ pc = "recv" /\ st = "none"
      /\ stack = << >> /\ reply = None /\ dirs = 0 /\ lost = 0 /\ removed = {} /\ slips = {}
  BY DEF Init
<1>2. reader = [url |-> Unset, newname |-> Unset, flags |-> {}]
  BY DEF Init
<1>3. req.left = << >> /\ ~req.early
  BY DEF Init
<1>4. reader \in Readers /\ reader.url = Unset /\ reader.newname = Unset /\ reader.flags = {}
  BY <1>2, Zenon DEF Readers
<1>5. Tidy(tree)
  BY <1>1, FileOpsAssumption, Zenon
<1>6. TypeOK
  BY <1>1, <1>4, <1>5, LimitsAreNumbers DEF TypeOK
<1>7. Reading
  BY <1>1, <1>3, <1>4, WordsApart DEF Reading
<1>10. Coming
  BY <1>1, <1>3, <1>4 DEF Coming, Ordered
<1>8. Carried /\ Recursing /\ Untouched
  BY <1>1, <1>4 DEF Carried, Recursing, Untouched
<1>9. OkMeansGone /\ ErrorsTouchNothing /\ DirsClosed /\ reply.kind \in Answers \cup {"none"}
  BY <1>1 DEF OkMeansGone, ErrorsTouchNothing, DirsClosed, None
<1> QED
  BY <1>6, <1>7, <1>8, <1>9, <1>10, Zenon DEF IInv

LEMMA NextIInv == IInv /\ [Next]_vars => IInv'
<1> SUFFICES ASSUME IInv, [Next]_vars PROVE IInv'
  OBVIOUS
<1>1. CASE Handler
  <2>1. CASE pc = "readdir" /\ \E e \in Last(stack).todo : Entry(e)
    BY <2>1, EntryKeeps
  <2> QED
    BY <1>1, <2>1, CreateDirKeeps, OpenKeeps, DeleteHomeKeeps, RenameItemKeeps, DeleteDirKeeps,
       DeleteFileKeeps, OpenDirKeeps, LeaveKeeps, Zenon DEF Handler
<1>2. ASSUME NEW r \in Requests, Recv(r) PROVE IInv'
  BY <1>2, RecvKeeps
<1>3. ASSUME NEW p \in Creatable, Others(p) PROVE IInv'
  BY <1>3, OthersKeep
<1>4. CASE UNCHANGED vars
  <2>1. /\ tree' = tree /\ changes' = changes /\ reader' = reader /\ req' = req /\ count' = count
        /\ past' = past /\ pc' = pc /\ st' = st /\ stack' = stack /\ reply' = reply
        /\ dirs' = dirs /\ lost' = lost /\ removed' = removed /\ slips' = slips
    BY <1>4 DEF vars, request, result
  <2>2. TypeOK'
    BY <2>1 DEF IInv, TypeOK
  <2>3. Asked' = Asked /\ NewNames' = NewNames /\ Split' = Split /\ Url' = Url
    BY <2>1 DEF Asked, NewNames, Split, Url
  <2>4. Reading' /\ Carried' /\ Coming'
    <3>1. Coming'
      BY <2>1, Zenon DEF IInv, Coming, Waits, Brought
    <3> QED
      BY <2>1, <2>3, <3>1 DEF IInv, Reading, Carried
  <2>5. Recursing' /\ Untouched' /\ DirsClosed'
    BY <2>1, Zenon DEF IInv, Recursing, Untouched, DirsClosed
  <2>6. OkMeansGone' /\ ErrorsTouchNothing' /\ reply'.kind \in Answers \cup {"none"}
    BY <2>1, Zenon DEF IInv, OkMeansGone, ErrorsTouchNothing
  <2> QED
    BY <2>2, <2>4, <2>5, <2>6, Zenon DEF IInv
<1> QED
  BY <1>1, <1>2, <1>3, <1>4, Zenon DEF Next

\* The invariant, of whatever others do and wherever links lead.
THEOREM Invariant == Spec => []IInv
<1> QED
  BY InitIInv, NextIInv, PTL DEF Spec

\* The state is of its type: the tree is one, every file in a directory that is there,
\* and no more DIRs are open than the process can have.
THEOREM TypeCorrect == Spec => []TypeOK
<1>1. IInv => TypeOK
  BY DEF IInv
<1> QED
  BY <1>1, Invariant, PTL

\* What a response says of the tree is so, and only a failed stat leaves a directory
\* open: my_request_delete, its recursion and RE_PARSE.
THEOREM RepliesMeantTheorem == Spec => []RepliesMeant
<1>1. IInv => RepliesMeant
  BY DEF IInv, RepliesMeant
<1> QED
  BY <1>1, Invariant, PTL

Meant ==
  LET asked == HeadsOf(req.ask) \cup past
  IN  pc = "delete" =>
        /\ reply'.kind = "renamed" => "newname" \in asked
        /\ pc' = "opendir" => "recursively" \in asked
        /\ reply'.kind = "deleted" \/ pc' = "opendir" =>
             "newname" \notin req.ask.heads \cap Fields(req.ask) \/ req.early

LEMMA StepMeant == IInv /\ [Next]_vars => Meant
<1> SUFFICES ASSUME IInv, [Next]_vars, pc = "delete"
             PROVE  /\ reply'.kind = "renamed" => "newname" \in HeadsOf(req.ask) \cup past
                    /\ pc' = "opendir" => "recursively" \in HeadsOf(req.ask) \cup past
                    /\ reply'.kind = "deleted" \/ pc' = "opendir" =>
                         "newname" \notin req.ask.heads \cap Fields(req.ask) \/ req.early
  BY DEF Meant
<1>9. reader.newname = Unset => "newname" \notin Fields(req.ask) \/ req.early
  BY DEF IInv, Coming, Brought
<1>1. Asked = HeadsOf(req.ask) \cup past
  BY DEF Asked
<1>2. reply.kind = "none" /\ pc \in Serving
  BY DEF IInv, Untouched, None, Serving
<1>3. CASE RenameItem
  <2>1. "newname" \in Asked
    BY <1>3 DEF RenameItem, IInv, Carried
  <2>2. PICK kind \in {"renamed", "errno"} : Responds(kind)
    BY <1>3, Zenon DEF RenameItem
  <2>3. reply' = [kind |-> kind, gone |-> Named \notin DOMAIN tree'] /\ pc' = "recv"
    BY <2>2 DEF Responds, Replies
  <2>4. reply'.kind = kind
    BY <2>3
  <2> QED
    BY <1>1, <2>1, <2>3, <2>4
<1>4. CASE DeleteDir
  <2>1. \/ pc' = "opendir" /\ "recursively" \in reader.flags /\ reply' = reply
        \/ Responds("deleted") \/ Responds("accepted") \/ Responds("errno")
    <3> DEFINE ok == Rmdir(Named) = "OK"
               full == Rmdir(Named) = "ENOTEMPTY"
               far == "recursively" \in reader.flags
    <3>1. ~(ok /\ full)
      OBVIOUS
    <3> HIDE DEF ok, full, far
    <3> QED
      BY <1>4, <3>1 DEF DeleteDir, ok, full, far
  <2>2. ASSUME NEW kind \in {"deleted", "accepted", "errno"}, Responds(kind)
        PROVE  pc' = "recv" /\ reply'.kind # "renamed"
    <3>1. reply' = [kind |-> kind, gone |-> Named \notin DOMAIN tree'] /\ pc' = "recv"
      BY <2>2 DEF Responds, Replies
    <3>2. reply'.kind = kind
      BY <3>1
    <3> QED
      BY <3>1, <3>2
  <2>3. "recursively" \in reader.flags => "recursively" \in Asked
    BY DEF IInv, Carried
  <2>4. reader.newname = Unset
    BY <1>4, Zenon DEF DeleteDir
  <2> QED
    BY <1>1, <1>2, <1>9, <2>1, <2>2, <2>3, <2>4
<1>5. CASE DeleteFile \/ DeleteHome
  <2>4. DeleteFile => reader.newname = Unset
    BY Zenon DEF DeleteFile
  <2>5. CASE DeleteHome
    <3>1. reply' = [kind |-> "no errno", gone |-> Named \notin DOMAIN tree'] /\ pc' = "recv"
      BY <2>5, Zenon DEF DeleteHome, Responds, Replies
    <3>2. reply'.kind = "no errno"
      BY <3>1
    <3> QED
      BY <3>1, <3>2
  <2>1. PICK kind \in {"deleted", "no errno", "errno"} : Responds(kind)
    BY <1>5, Zenon DEF DeleteFile, DeleteHome
  <2>2. reply' = [kind |-> kind, gone |-> Named \notin DOMAIN tree'] /\ pc' = "recv"
    BY <2>1 DEF Responds, Replies
  <2>3. reply'.kind = kind
    BY <2>2
  <2> QED
    BY <1>5, <1>9, <2>2, <2>3, <2>4, <2>5
<1>6. CASE (\E p \in Creatable : Others(p)) \/ UNCHANGED vars
  <2>1. reply' = reply /\ pc' = pc
    BY <1>6 DEF Others, vars, result
  <2> QED
    BY <1>2, <2>1
<1>7. ~(CreateDir \/ Open \/ OpenDir \/ Leave) /\ \A r : ~Recv(r)
  BY DEF CreateDir, Open, OpenDir, Leave, Recv
<1>8. pc # "readdir"
  OBVIOUS
<1> QED
  BY <1>3, <1>4, <1>5, <1>6, <1>7, <1>8, Zenon DEF Next, Handler

\* A request renames, or removes what is in a directory, only if its header says so, or
\* that of an earlier one since the last response that was not a file; and a header whose
\* end is waited for does not delete what it gives a new name, if X-NewName comes whole.
THEOREM HeadersMeantTheorem == Spec => HeadersMeant
<1>1. IInv /\ [Next]_vars => [Meant]_vars
  BY StepMeant
<1> QED
  BY <1>1, Invariant, PTL DEF Spec, HeadersMeant, Meant

Within ==
  \A p \in removed' \ removed :
    \/ p = Named
    \/ \E name \in NewNames : p = Where(name, FALSE)
    \/ pc = "readdir" /\ Len(p) = 1

LEMMA StepWithin == IInv /\ [Next]_vars => Within
<1> SUFFICES ASSUME IInv, [Next]_vars PROVE Within
  OBVIOUS
<1>1. CASE removed' = removed \/ removed' = {}
  BY <1>1 DEF Within
<1>2. CASE RenameItem
  <2> DEFINE to == Where(reader.newname, FALSE)
  <2>1. removed' = removed \/ removed' = removed \cup {Named} \cup ({to} \cap DOMAIN tree)
    BY <1>2, Zenon DEF RenameItem, Keeps
  <2>2. reader.newname \in NewNames
    BY <1>2 DEF RenameItem, IInv, Carried
  <2> HIDE DEF to
  <2>3. ASSUME NEW p \in removed' \ removed PROVE p = Named \/ p = to
    BY <2>1, <2>3
  <2> QED
    BY <2>2, <2>3, Zenon DEF Within, to
<1>3. CASE removed' = removed \cup {Named}
  BY <1>3 DEF Within
<1>4. CASE pc = "readdir" /\ \E e \in Last(stack).todo : Entry(e)
  <2>1. PICK e \in Last(stack).todo : Entry(e)
    BY <1>4
  <2> DEFINE item == Real(EntryPath(e), FALSE)
  <2>2. item = EntryPath(e) /\ Len(item) = 1
    BY <1>4, EntryPathTyped
  <2>3. removed' = removed \/ removed' = removed \cup {item}
    <3> DEFINE kind == Kind(Real(EntryPath(e), TRUE))
    <3>1. kind \in {"none", "file", "dir"}
      BY <1>4, EntryPathTyped
    <3> DEFINE none == /\ UNCHANGED dirs /\ lost' = lost + 1 /\ Return(Front(stack), "errno")
                       /\ slips' = slips \cup {"stat"} \cup (IF Len(stack) > 1 THEN {"ignored"} ELSE {})
               dir == IF dirs < MaxDirs
                      THEN /\ stack' = Append(Rest(e), Call(EntryPath(e))) /\ dirs' = dirs + 1
                           /\ UNCHANGED slips
                      ELSE stack' = Rest(e) /\ slips' = slips \cup {"ignored"} /\ UNCHANGED dirs
               same == UNCHANGED <<changes, request, pc, st, reply>>
               ok == Unlink(item) = "OK"
               slip == slips' = slips \cup {"ignored"}
    <3>2. (CASE kind = "none" -> Keeps /\ none
             [] kind = "dir" -> dir /\ Keeps /\ same /\ UNCHANGED lost
             [] kind = "file" -> /\ stack' = Rest(e)
                                 /\ IF ok THEN Removes(item) /\ UNCHANGED slips ELSE Keeps /\ slip
                                 /\ same /\ UNCHANGED <<dirs, lost>>)
      BY <2>1, Zenon DEF Entry
    <3> HIDE DEF kind, item, none, dir, same, ok, slip
    <3>3. Keeps \/ Removes(item)
      BY <3>1, <3>2
    <3> QED
      BY <3>3, Zenon DEF Keeps, Removes
  <2> HIDE DEF item
  <2> QED
    BY <1>4, <2>2, <2>3 DEF Within
<1>5. CASE Leave
  <2> DEFINE item == Real(Path, FALSE)
             n == Len(stack)
  <2>1. pc = "readdir" /\ (removed' = removed \/ removed' = removed \cup {item})
    BY <1>5, Zenon DEF Leave, Keeps, Removes
  <2>2. /\ Tidy(tree) /\ stack \in Seq(Calls) /\ stack # << >> /\ n \in Nat \ {0}
        /\ Last(stack) = stack[n] /\ Last(stack) \in Calls
    BY <2>1, InTheRecursion
  <2>3. CASE n = 1
    <3>1. Path = PathOf(reader.url) /\ reader.url \in Seq(Chars)
      BY <2>2, <2>3 DEF IInv, Recursing, Path
    <3>2. reader.url # Unset /\ ~Empty(reader.url)
      BY <2>1 DEF IInv, Recursing
    <3>3. item = Named
      BY <3>1, <3>2, Zenon DEF Named, Where, PathOrIndex
    <3> QED
      BY <2>1, <3>3 DEF Within
  <2>4. CASE n # 1
    <3>1. n \in DOMAIN stack /\ n > 1
      <4>1. \A k \in Nat \ {0} : k \in 1..k /\ (k # 1 => k > 1)
        OBVIOUS
      <4>2. DOMAIN stack = 1..n
        BY <2>2
      <4> QED
        BY <2>2, <2>4, <4>1, <4>2, Zenon
    <3>2. Path \in Seq(Chars)
      BY <2>2 DEF Path, Calls
    <3>4. Len(Path) = 1
      BY <2>2, <3>1 DEF IInv, Recursing, Path
    <3>3. item = Path
      BY <2>2, <3>2, <3>4, NameIsReal
    <3> QED
      BY <2>1, <3>3, <3>4 DEF Within
  <2> QED
    BY <2>3, <2>4
<1>6. ASSUME CreateDir \/ Open \/ DeleteHome \/ OpenDir PROVE removed' = removed
  BY <1>6 DEF CreateDir, Open, DeleteHome, OpenDir, Keeps
<1>7. ASSUME DeleteDir \/ DeleteFile PROVE removed' = removed \/ removed' = removed \cup {Named}
  <2>1. CASE DeleteFile
    BY <2>1, Zenon DEF DeleteFile, Keeps, Removes
  <2>2. CASE DeleteDir
    <3> DEFINE ok == Rmdir(Named) = "OK"
               full == Rmdir(Named) = "ENOTEMPTY"
               far == "recursively" \in reader.flags
    <3>1. ~(ok /\ full)
      OBVIOUS
    <3> HIDE DEF ok, full, far
    <3>2. Keeps \/ Removes(Named)
      BY <2>2, <3>1 DEF DeleteDir, ok, full, far
    <3> QED
      BY <3>2, Zenon DEF Keeps, Removes
  <2> QED
    BY <1>7, <2>1, <2>2
<1>8. ASSUME (\E r \in Requests : Recv(r)) \/ (\E p \in Creatable : Others(p)) \/ UNCHANGED vars
      PROVE  removed' = removed \/ removed' = {}
  BY <1>8 DEF Recv, Others, vars, result
<1> QED
  BY <1>1, <1>2, <1>3, <1>4, <1>5, <1>6, <1>7, <1>8, Zenon DEF Next, Handler

\* Nothing is removed or moved but what url_str names, what has a new name that was asked
\* for, or a part of it if its value came in parts, and what has a name of the server's
\* own directory that the recursion has found: http_on_header_value, my_request_delete.
THEOREM WithinAskedTheorem == Spec => WithinAsked
<1>1. IInv /\ [Next]_vars => [Within]_vars
  BY StepWithin
<1> QED
  BY <1>1, Invariant, PTL DEF Spec, WithinAsked, Within

(***************************************************************************)
(* What a url says                                                         *)
(***************************************************************************)
Upto(text, at) == {n \in Starts(text) : n < at}
Rank(text, n) == Cardinality({m \in Starts(text) : m <= n})

\* What has been read before `at' is what it says, and each % of it is.
Sound(text, at, str) ==
  /\ at \in 2..Len(text) + 1 /\ str \in Seq(Chars)
  /\ \A h \in Hexes(text) : at \notin {h + 1, h + 2}
  /\ Len(str) = Cardinality(Upto(text, at))
  /\ \A n \in Upto(text, at) : str[Rank(text, n)] = Meaning(text, n)
  /\ \A n \in 1..at - 1 : text[n] = "%" => n \in Hexes(text)

LEMMA HexesAre ==
  ASSUME NEW text \in Seq(Chars), NEW h \in Hexes(text)
  PROVE  /\ h \in 1..Len(text) - 2 /\ text[h] = "%"
         /\ text[h + 1] # "%" /\ text[h + 2] # "%"
<1>1. h \in 1..Len(text) - 2 /\ text[h] = "%" /\ {text[h + 1], text[h + 2]} \subseteq Hex
  BY DEF Hexes
<1>2. "%" \notin Hex
  BY DEF Hex
<1> QED
  BY <1>1, <1>2

LEMMA MeaningTyped ==
  ASSUME NEW text \in Seq(Chars), NEW n \in DOMAIN text
  PROVE  Meaning(text, n) \in Chars
<1>1. text[n] \in Chars
  OBVIOUS
<1> QED
  BY <1>1, DecodedIsCharacter, SomeCharacters, Zenon DEF Meaning

LEMMA StartsFinite ==
  ASSUME NEW text \in Seq(Chars), NEW T \in SUBSET Starts(text)
  PROVE  IsFiniteSet(T) /\ Cardinality(T) \in Nat
<1>1. Starts(text) \subseteq 1..Len(text) /\ Len(text) \in Nat
  BY DEF Starts
<1>2. IsFiniteSet(1..Len(text))
  BY <1>1, FS_Interval
<1>3. IsFiniteSet(T)
  BY <1>1, <1>2, FS_Subset
<1> QED
  BY <1>3, FS_CardinalityType

\* A character, or an escape, more.
LEMMA SoundStep ==
  ASSUME NEW text \in Seq(Chars), NEW at, NEW str, Sound(text, at, str), NEW next,
         \/ at \in Hexes(text) /\ next = at + 3
         \/ at \in DOMAIN text /\ text[at] # "%" /\ next = at + 1
  PROVE  Sound(text, next, Append(str, Meaning(text, at)))
<1> DEFINE c == Meaning(text, at)
           more == Append(str, c)
           L == Len(text)
<1>1. /\ at \in 2..L + 1 /\ str \in Seq(Chars) /\ L \in Nat
      /\ \A h \in Hexes(text) : at \notin {h + 1, h + 2}
      /\ Len(str) = Cardinality(Upto(text, at))
      /\ \A n \in Upto(text, at) : str[Rank(text, n)] = Meaning(text, n)
      /\ \A n \in 1..at - 1 : text[n] = "%" => n \in Hexes(text)
  BY DEF Sound
<1>2. \A h \in Hexes(text) : /\ h \in 1..L - 2 /\ text[h] = "%"
                             /\ text[h + 1] # "%" /\ text[h + 2] # "%"
  BY HexesAre
<1>3. at \in 2..L /\ at \in DOMAIN text
  BY <1>1, <1>2
<1>4. at \in Starts(text)
  BY <1>1, <1>3 DEF Starts
<1>5. next \in 2..L + 1
  BY <1>1, <1>2, <1>3
<1>6. c \in Chars
  BY <1>3, MeaningTyped
<1> HIDE DEF c
<1>7. more \in Seq(Chars) /\ Len(more) = Len(str) + 1 /\ more[Len(str) + 1] = c
      /\ \A n \in 1..Len(str) : more[n] = str[n]
  BY <1>1, <1>6
<1>8. \A h \in Hexes(text) : next \notin {h + 1, h + 2}
  <2> SUFFICES ASSUME NEW h \in Hexes(text), next = h + 1 \/ next = h + 2 PROVE FALSE
    BY Zenon
  <2>1. h \in Nat /\ at \in Nat
    BY <1>2, <1>3
  <2>2. CASE at \in Hexes(text) /\ next = at + 3
    <3>1. h = at + 2 \/ h = at + 1
      BY <2>1, <2>2
    <3> QED
      BY <1>2, <2>2, <3>1
  <2>3. CASE text[at] # "%" /\ next = at + 1
    <3>1. h = at \/ at = h + 1
      BY <2>1, <2>3
    <3> QED
      BY <1>1, <1>2, <2>3, <3>1
  <2> QED
    BY <2>2, <2>3
<1>9. \A n \in 1..next - 1 : text[n] = "%" => n \in Hexes(text)
  <2> SUFFICES ASSUME NEW n \in 1..next - 1, text[n] = "%" PROVE n \in Hexes(text)
    OBVIOUS
  <2>1. \/ n \in 1..at - 1 \/ n = at
        \/ at \in Hexes(text) /\ (n = at + 1 \/ n = at + 2)
    BY <1>3, <1>5
  <2> QED
    BY <1>1, <1>2, <2>1
<1>10. Upto(text, next) = Upto(text, at) \cup {at} /\ at \notin Upto(text, at)
  <2>1. \A n \in Starts(text) : n \in Nat /\ \A h \in Hexes(text) : n # h + 1 /\ n # h + 2
    BY DEF Starts
  <2>2. \A n \in Starts(text) : n < next <=> n < at \/ n = at
    BY <1>3, <2>1
  <2> QED
    BY <1>3, <1>4, <2>2 DEF Upto
<1>11. {m \in Starts(text) : m <= at} = Upto(text, next)
  <2>1. \A m \in Starts(text) : m <= at <=> m < at \/ m = at
    BY <1>3 DEF Starts
  <2> QED
    BY <1>4, <1>10, <2>1 DEF Upto
<1>12. IsFiniteSet(Upto(text, at)) /\ Cardinality(Upto(text, at)) \in Nat
  BY StartsFinite DEF Upto
<1>13. Cardinality(Upto(text, next)) = Cardinality(Upto(text, at)) + 1
  BY <1>10, <1>12, FS_AddElement
<1>14. Rank(text, at) = Len(str) + 1
  BY <1>1, <1>11, <1>13 DEF Rank
<1>15. ASSUME NEW n \in Upto(text, at) PROVE Rank(text, n) \in 1..Len(str)
  <2> DEFINE T == {m \in Starts(text) : m <= n}
  <2>1. T \subseteq Upto(text, at) /\ n \in T
    <3>1. \A m \in Starts(text) : m \in Nat
      BY DEF Starts
    <3> QED
      BY <1>3, <3>1 DEF Upto
  <2>2. Cardinality(T) <= Cardinality(Upto(text, at))
    BY <1>12, <2>1, FS_Subset
  <2>3. IsFiniteSet(T) /\ Cardinality(T) \in Nat
    BY StartsFinite
  <2>4. Cardinality(T) # 0
    BY <2>1, <2>3, FS_EmptySet
  <2> HIDE DEF T
  <2>5. Cardinality(T) \in 1..Len(str)
    BY <1>1, <2>2, <2>3, <2>4
  <2> QED
    BY <2>5 DEF Rank, T
<1> HIDE DEF more
<1>16. \A n \in Upto(text, next) : more[Rank(text, n)] = Meaning(text, n)
  <2>1. ASSUME NEW n \in Upto(text, at) PROVE more[Rank(text, n)] = Meaning(text, n)
    BY <1>1, <1>7, <1>15
  <2>2. more[Rank(text, at)] = Meaning(text, at)
    BY <1>7, <1>14 DEF c
  <2> QED
    BY <1>10, <2>1, <2>2
<1>17. Len(more) = Cardinality(Upto(text, next))
  BY <1>1, <1>7, <1>13
<1> QED
  BY <1>5, <1>7, <1>8, <1>9, <1>16, <1>17 DEF Sound, more, c

\* Once it has ended, or never will, nothing changes.
LEMMA EndedStays ==
  ASSUME NEW text \in Seq(Chars), NEW s \in States,
         s.ptr > Len(text) \/ Stuck(text, s.ptr)
  PROVE  Iteration(text, s) = s
<1>1. s.ptr \notin Hexes(text)
  <2>1. \A n \in Hexes(text) : ~(n > Len(text))
    BY DEF Hexes
  <2> QED
    BY <2>1 DEF Stuck
<1> QED
  BY <1>1, Zenon DEF Iteration

\* The loop reads the url from its second character, and so do the % of both.
LEMMA TailReads ==
  ASSUME NEW text \in Seq(Chars), Len(text) > 1, text[1] # "%"
  PROVE  /\ Tail(text) \in Seq(Chars) /\ Len(Tail(text)) = Len(text) - 1
         /\ \A n \in 1..Len(text) - 1 : Tail(text)[n] = text[n + 1]
         /\ \A n \in Nat : n \in Hexes(Tail(text)) <=> n + 1 \in Hexes(text)
         /\ 1 \notin Hexes(text)
<1> DEFINE t == Tail(text)
           L == Len(text)
<1>1. L \in Nat /\ L > 1 /\ t \in Seq(Chars) /\ Len(t) = L - 1
      /\ \A n \in 1..L - 1 : t[n] = text[n + 1]
  OBVIOUS
<1>2. 1 \notin Hexes(text)
  BY HexesAre
<1>3. ASSUME NEW n \in Nat PROVE n \in Hexes(t) <=> n + 1 \in Hexes(text)
  <2> HIDE DEF t, L
  <2>1. n \in 1..Len(t) - 2 <=> n + 1 \in 1..L - 2 /\ n # 0
    BY <1>1
  <2>2. n \in 1..Len(t) - 2 => n \in 1..L - 1 /\ n + 1 \in 1..L - 1 /\ n + 2 \in 1..L - 1
    BY <1>1
  <2>3. n \in 1..Len(t) - 2 =>
          t[n] = text[n + 1] /\ t[n + 1] = text[n + 1 + 1] /\ t[n + 2] = text[n + 1 + 2]
    <3>1. n + 1 + 1 = n + 1 + 1 /\ n + 2 + 1 = n + 1 + 2
      OBVIOUS
    <3> QED
      BY <1>1, <2>2, <3>1
  <2>4. n = 0 => n + 1 \notin Hexes(text)
    BY <1>2
  <2>5. n \in Hexes(t) <=>
          n \in 1..Len(t) - 2 /\ t[n] = "%" /\ {t[n + 1], t[n + 2]} \subseteq Hex
    BY Zenon DEF Hexes
  <2>6. n + 1 \in Hexes(text) <=>
          n + 1 \in 1..L - 2 /\ text[n + 1] = "%" /\ {text[n + 1 + 1], text[n + 1 + 2]} \subseteq Hex
    BY Zenon DEF Hexes, L
  <2> QED
    BY <2>1, <2>3, <2>4, <2>5, <2>6, Zenon
<1> QED
  BY <1>1, <1>2, <1>3

\* An iteration goes on in the url, or the loop has ended or never will.
LEMMA UrlStep ==
  ASSUME NEW text \in Seq(Chars), Len(text) > 1, text[1] # "%",
         NEW s \in States, Sound(text, s.ptr + 1, s.str),
         NEW next, next = Iteration(Tail(text), s)
  PROVE  \/ next = s /\ (s.ptr > Len(Tail(text)) \/ Stuck(Tail(text), s.ptr))
         \/ next.ptr > s.ptr /\ Sound(text, next.ptr + 1, next.str)
<1> DEFINE t == Tail(text)
           p == s.ptr
           at == p + 1
           L == Len(text)
<1>1. p \in Nat \ {0} /\ s.str \in Seq(Chars)
  BY DEF States
<1>2. /\ t \in Seq(Chars) /\ Len(t) = L - 1 /\ L \in Nat
      /\ \A n \in 1..L - 1 : t[n] = text[n + 1]
      /\ \A n \in Nat : n \in Hexes(t) <=> n + 1 \in Hexes(text)
  BY TailReads
<1>3. CASE p > Len(t) \/ Stuck(t, p)
  <2>1. next = s
    BY <1>2, <1>3, EndedStays, Zenon
  <2> QED
    BY <1>3, <2>1
<1>4. CASE ~(p > Len(t) \/ Stuck(t, p))
  <2> HIDE DEF t, p, L
  <2>1. p \in 1..L - 1 /\ at \in 1..L /\ at \in Nat
    BY <1>1, <1>2, <1>4
  <2>2. t[p] = text[at] /\ (p \in Hexes(t) <=> at \in Hexes(text))
    BY <1>1, <1>2, <2>1, Zenon
  <2>3. at \in DOMAIN text
    BY <2>1 DEF L
  <2>4. CASE p \in Hexes(t)
    <3>1. at \in 1..L - 2
      BY <2>2, <2>4, HexesAre DEF L
    <3>2. p + 1 \in 1..L - 1 /\ p + 2 \in 1..L - 1 /\ p + 1 + 1 = at + 1 /\ p + 2 + 1 = at + 2
      BY <1>1, <1>2, <3>1
    <3>3. t[p + 1] = text[at + 1] /\ t[p + 2] = text[at + 2]
      <4>1. t[p + 1] = text[p + 1 + 1] /\ t[p + 2] = text[p + 2 + 1]
        BY <1>2, <3>2
      <4> QED
        BY <3>2, <4>1
    <3>4. next = [ptr |-> p + 3, str |-> Append(s.str, Decoded(t[p + 1], t[p + 2]))]
      BY <1>4, <2>4, Zenon DEF Iteration, t, p
    <3>5. Meaning(text, at) = Decoded(text[at + 1], text[at + 2])
      BY <2>2, <2>4, Zenon DEF Meaning
    <3>6. next = [ptr |-> p + 3, str |-> Append(s.str, Meaning(text, at))]
      BY <3>3, <3>4, <3>5
    <3>7. next.ptr = p + 3 /\ next.str = Append(s.str, Meaning(text, at))
      BY <3>6
    <3>8. next.ptr > p /\ next.ptr + 1 = at + 3
      BY <1>1, <3>7
    <3>9. Sound(text, at + 3, Append(s.str, Meaning(text, at)))
      BY <2>2, <2>4, SoundStep DEF p
    <3> QED
      BY <3>7, <3>8, <3>9, Zenon DEF p
  <2>5. CASE p \notin Hexes(t)
    <3>1. ~(p > Len(t)) => p <= Len(t)
      BY <1>1, <1>2
    <3>2. text[at] # "%"
      BY <1>4, <2>2, <2>5, <3>1, Zenon DEF Stuck
    <3>3. next = [ptr |-> p + 1, str |-> Append(s.str, IF t[p] = "+" THEN " " ELSE t[p])]
      BY <1>4, <2>5, Zenon DEF Iteration, t, p
    <3>4. Meaning(text, at) = IF text[at] = "+" THEN " " ELSE text[at]
      BY <2>2, <2>5, Zenon DEF Meaning
    <3>5. next = [ptr |-> p + 1, str |-> Append(s.str, Meaning(text, at))]
      BY <2>2, <3>3, <3>4
    <3>6. next.ptr = p + 1 /\ next.str = Append(s.str, Meaning(text, at))
      BY <3>5
    <3>7. next.ptr > p /\ next.ptr + 1 = at + 1
      BY <1>1, <3>6
    <3>8. Sound(text, at + 1, Append(s.str, Meaning(text, at)))
      BY <2>3, <3>2, SoundStep DEF p
    <3> QED
      BY <3>6, <3>7, <3>8, Zenon DEF p
  <2> QED
    BY <2>4, <2>5
<1> QED
  BY <1>3, <1>4

\* The loop ends where the url does, or at a % that is not an escape.
LEMMA LoopSound ==
  ASSUME NEW text \in Seq(Chars), Len(text) > 1, text[1] # "%",
         NEW s, s = Iterations(Tail(text))[Len(Tail(text))]
  PROVE  /\ s \in States /\ Sound(text, s.ptr + 1, s.str)
         /\ s.ptr > Len(Tail(text)) \/ Stuck(Tail(text), s.ptr)
<1> DEFINE t == Tail(text)
           N == Len(t)
           it == Iterations(t)
           Ended(r) == r.ptr > N \/ Stuck(t, r.ptr)
           S == {ns \in Nat \X States :
                   /\ Sound(text, ns[2].ptr + 1, ns[2].str)
                   /\ ns[2].ptr > ns[1] \/ Ended(ns[2])}
           f == [n \in 0..N |-> <<n, it[n]>>]
<1>1. t \in Seq(Chars) /\ N = Len(text) - 1 /\ N \in Nat /\ 1 \notin Hexes(text)
  BY TailReads
<1> HIDE DEF t, N
<1>2. /\ it[0] = [ptr |-> 1, str |-> <<>>]
      /\ \A n \in 1..N : it[n] = Iteration(t, it[n - 1])
      /\ \A n \in 0..N : it[n] \in States
  BY <1>1, IterationsAre, Zenon DEF N
<1> HIDE DEF it
<1>3. it[0].ptr = 1 /\ it[0].str = <<>> /\ it[0] \in States
  <2>1. 0 \in 0..N
    BY <1>1
  <2>2. it[0] \in States
    BY <1>2, <2>1
  <2>3. it[0].ptr = 1 /\ it[0].str = <<>>
    BY <1>2
  <2> QED
    BY <2>2, <2>3, Zenon
<1>4. Sound(text, 1 + 1, <<>>)
  <2>1. \A h \in Hexes(text) : h \in Nat /\ h > 1
    BY <1>1, HexesAre
  <2>2. \A h \in Hexes(text) : 2 \notin {h + 1, h + 2}
    BY <2>1
  <2>3. Upto(text, 2) = {}
    BY DEF Upto, Starts
  <2>4. Cardinality(Upto(text, 2)) = 0
    BY <2>3, FS_EmptySet
  <2>5. 2 \in 2..Len(text) + 1 /\ <<>> \in Seq(Chars) /\ Len(<<>>) = 0
    BY <1>1
  <2>6. \A n \in 1..2 - 1 : text[n] = "%" => n \in Hexes(text)
    OBVIOUS
  <2>7. 1 + 1 = 2
    OBVIOUS
  <2> QED
    BY <2>2, <2>3, <2>4, <2>5, <2>6, <2>7 DEF Sound
<1> HIDE DEF Ended
<1>5. \A n \in Nat, r \in States :
        <<n, r>> \in S <=> Sound(text, r.ptr + 1, r.str) /\ (r.ptr > n \/ Ended(r))
  OBVIOUS
<1>6. \A n \in 0..N : n \in Nat /\ f[n] = <<n, it[n]>>
  OBVIOUS
<1> HIDE DEF S, f
<1>7. f[0] \in S
  <2>1. 0 \in 0..N /\ it[0].ptr > 0
    BY <1>1, <1>3
  <2> QED
    BY <1>3, <1>4, <1>5, <1>6, <2>1, Zenon
<1>8. ASSUME NEW n \in 1..N, f[n - 1] \in S PROVE f[n] \in S
  <2> DEFINE r == it[n - 1]
             q == it[n]
  <2>1. n \in 0..N /\ n - 1 \in 0..N /\ n \in Nat /\ n - 1 \in Nat
    BY <1>1
  <2>2. r \in States /\ q \in States /\ q = Iteration(t, r)
    BY <1>2, <2>1
  <2>3. Sound(text, r.ptr + 1, r.str) /\ (r.ptr > n - 1 \/ Ended(r))
    BY <1>5, <1>6, <1>8, <2>1, <2>2, Zenon
  <2> HIDE DEF r, q
  <2>4. \/ q = r /\ Ended(r)
        \/ q.ptr > r.ptr /\ Sound(text, q.ptr + 1, q.str)
    BY <2>2, <2>3, UrlStep, Zenon DEF Ended, t, N
  <2>5. CASE q = r /\ Ended(r)
    <3>1. <<n, q>> \in S
      BY <1>5, <2>1, <2>2, <2>3, <2>5, Zenon
    <3> QED
      BY <1>6, <2>1, <3>1, Zenon DEF q
  <2>6. CASE q.ptr > r.ptr /\ Sound(text, q.ptr + 1, q.str)
    <3>1. q.ptr > n \/ Ended(r)
      <4>1. q.ptr \in Nat /\ r.ptr \in Nat
        BY <2>2 DEF States
      <4> QED
        BY <2>1, <2>3, <2>6, <4>1
    <3>2. Ended(r) => q = r
      BY <2>2, <2>6, EndedStays, <1>1, <2>3, Zenon DEF Ended, N
    <3>3. <<n, q>> \in S
      BY <1>5, <2>1, <2>2, <2>6, <3>1, <3>2, Zenon
    <3> QED
      BY <1>6, <2>1, <3>3, Zenon DEF q
  <2> QED
    BY <2>4, <2>5, <2>6
<1>9. \A n \in 0..N : f[n] \in S
  BY <1>1, <1>7, <1>8, Stays, Zenon
<1>10. s = it[N] /\ N \in 0..N
  BY <1>1 DEF it, t, N
<1>11. s \in States /\ Sound(text, s.ptr + 1, s.str) /\ (s.ptr > N \/ Ended(s))
  BY <1>2, <1>5, <1>6, <1>9, <1>10, Zenon
<1> QED
  BY <1>11, Zenon DEF Ended, N, t

Undecodable(text) == \E n \in DOMAIN text : text[n] = "%" /\ n \notin Hexes(text)

\* http_on_url reads what the url says, or a % of the url says nothing.
LEMMA OnUrlMeans ==
  ASSUME NEW text \in Seq(Chars), text # <<>>, text[1] # "%"
  PROVE  /\ OnUrl(text) = Never <=> Undecodable(text)
         /\ OnUrl(text) # Never =>
              IF Len(text) = 1 THEN OnUrl(text) = Unset ELSE Says(text, OnUrl(text))
<1>1. Len(text) \in Nat /\ Len(text) # 0 /\ DOMAIN text = 1..Len(text)
  OBVIOUS
<1>2. CASE Len(text) = 1
  <2>1. OnUrl(text) = Unset
    BY <1>2 DEF OnUrl
  <2>2. ~Undecodable(text)
    BY <1>2 DEF Undecodable
  <2> QED
    BY <1>2, <2>1, <2>2, WordsApart
<1>3. ASSUME NEW at, NEW str, Sound(text, at, str)
      PROVE  /\ at \in 2..Len(text) + 1
             /\ Len(str) = Cardinality(Upto(text, at))
             /\ \A n \in Upto(text, at) : str[Rank(text, n)] = Meaning(text, n)
             /\ \A n \in 1..at - 1 : text[n] = "%" => n \in Hexes(text)
  BY <1>3 DEF Sound
<1>4. CASE Len(text) > 1
  <2> DEFINE t == Tail(text)
             s == Iterations(t)[Len(t)]
             p == s.ptr
             L == Len(text)
  <2>1. s \in States /\ Sound(text, p + 1, s.str) /\ (p > Len(t) \/ Stuck(t, p))
    BY <1>4, LoopSound, Zenon
  <2>2. /\ t \in Seq(Chars) /\ Len(t) = L - 1 /\ L \in Nat
        /\ \A n \in 1..L - 1 : t[n] = text[n + 1]
        /\ \A n \in Nat : n \in Hexes(t) <=> n + 1 \in Hexes(text)
    BY <1>4, TailReads
  <2>3. OnUrl(text) = IF p > Len(t) THEN s.str ELSE Never
    BY <1>1, <1>4 DEF OnUrl, Loop
  <2>4. p \in Nat \ {0} /\ s.str \in Seq(Chars)
    BY <2>1 DEF States
  <2> HIDE DEF t, s, p
  <2>5. /\ p + 1 \in 2..Len(text) + 1
        /\ Len(s.str) = Cardinality(Upto(text, p + 1))
        /\ \A n \in Upto(text, p + 1) : s.str[Rank(text, n)] = Meaning(text, n)
        /\ \A n \in 1..(p + 1) - 1 : text[n] = "%" => n \in Hexes(text)
    <3>1. Sound(text, p + 1, s.str)
      BY <2>1
    <3> QED
      BY <1>3, <3>1, Zenon
  <2> HIDE DEF L
  <2>6. CASE p > Len(t)
    <3>1. p = L /\ p + 1 = L + 1 /\ (p + 1) - 1 = L
      <4>1. p + 1 \in 2..L + 1 /\ Len(t) = L - 1
        BY <2>2, <2>5 DEF L
      <4> QED
        BY <2>2, <2>4, <2>6, <4>1
    <3>2. OnUrl(text) = s.str /\ OnUrl(text) # Never
      BY <2>3, <2>4, <2>6, WordsApart
    <3>3. ~Undecodable(text)
      BY <1>1, <2>5, <3>1 DEF Undecodable, L
    <3>4. Upto(text, p + 1) = Starts(text)
      BY <1>1, <3>1 DEF Upto, Starts, L
    <3>5. Says(text, s.str)
      BY <2>5, <3>4, Zenon DEF Says, Rank
    <3>6. Len(text) # 1
      BY <1>1, <1>4
    <3> QED
      BY <3>2, <3>3, <3>5, <3>6, Zenon
  <2>7. CASE ~(p > Len(t))
    <3>1. Stuck(t, p)
      BY <2>1, <2>7 DEF p
    <3>2. p \in 1..L - 1 /\ p + 1 \in 1..L
      BY <2>2, <2>4, <2>7
    <3>3. t[p] = "%" /\ p \notin Hexes(t)
      BY <3>1 DEF Stuck
    <3>4. text[p + 1] = "%" /\ p + 1 \notin Hexes(text)
      BY <2>2, <2>4, <3>2, <3>3
    <3>5. Undecodable(text)
      BY <1>1, <3>2, <3>4, Zenon DEF Undecodable, L
    <3> QED
      BY <2>3, <2>7, <3>5
  <2> QED
    BY <2>6, <2>7
<1> QED
  BY <1>1, <1>2, <1>4

LEMMA UrlMeantHolds == IInv => UrlMeant
<1> SUFFICES ASSUME IInv, count > 0, ~Split
             PROVE  /\ pc = "spins" <=> Undecodable(Url)
                    /\ pc \in {"mkdir", "open", "delete", "opendir", "readdir"} =>
                         IF Len(Url) = 1 THEN reader.url = Unset ELSE Says(Url, reader.url)
  BY Zenon DEF UrlMeant, Undecodable
<1>1. count # 0
  BY LimitsAreNumbers DEF IInv, TypeOK
<1>2. Url \in Seq(Chars) /\ Url # <<>> /\ Url[1] # "%"
  <2>1. req.ask \in Requests
    BY <1>1 DEF IInv, TypeOK
  <2>2. Request(req.ask)
    BY <2>1, FileOpsAssumption
  <2>3. req.ask.pieces \in Seq(Pieces) \ {<<>>} /\ Url # <<>> /\ Url[1] # "%"
    BY <2>2 DEF Request, Url
  <2>4. req.ask.pieces[1] \in Pieces
    BY <2>3
  <2> QED
    BY <2>3, <2>4 DEF Pieces, Url
<1>3. /\ pc = "spins" <=> OnUrl(Url) = Never
      /\ pc # "recv" => reader.url = OnUrl(Url)
  BY Zenon DEF IInv, Reading
<1>4. /\ OnUrl(Url) = Never <=> Undecodable(Url)
      /\ OnUrl(Url) # Never =>
           IF Len(Url) = 1 THEN OnUrl(Url) = Unset ELSE Says(Url, OnUrl(Url))
  BY <1>2, OnUrlMeans
<1>5. pc \in {"mkdir", "open", "delete", "opendir", "readdir"} => pc # "recv" /\ pc # "spins"
  OBVIOUS
<1> QED
  BY <1>3, <1>4, <1>5, Zenon

\* For any characters and any url of any length that comes whole, url_str is what the
\* request line says but for its first character, and the thread is lost exactly when
\* the url has a % without two hexadecimal digits behind it: http_on_url.
THEOREM UrlMeantTheorem == Spec => []UrlMeant
<1>1. IInv => UrlMeant
  BY UrlMeantHolds
<1> QED
  BY <1>1, Invariant, PTL

=============================================================================
