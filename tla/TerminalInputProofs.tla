------------------------- MODULE TerminalInputProofs -------------------------
(***************************************************************************)
(* What TerminalInput promises, whatever is typed and however often the    *)
(* window changes, for slices, frames, buffers and ptys of any size: until *)
(* something has been lost in one of the ways of `hole', every byte of     *)
(* what was typed is with the shell or on its way to it, once and in       *)
(* order; what is left after that is in order; and the server closes no    *)
(* terminal in which only ASCII was typed.                                 *)
(***************************************************************************)
EXTENDS TerminalInput, SequenceTheorems, FiniteSetTheorems, WellFoundedInduction, TLAPS

(***************************************************************************)
(* Numbers, sequences, and functions by recursion                          *)
(***************************************************************************)
LessThan == {ss \in Nat \X Nat : ss[1] < ss[2]}

LEMMA LessThanIsWellFounded == IsWellFoundedOn(LessThan, Nat)
<1>1. OpToRel(<, Nat) = LessThan
  BY DEF OpToRel, LessThan
<1> QED
  BY <1>1, NatLessThanWellFounded, Zenon

\* Min of some natural numbers is one of them, and no other is less.
LEMMA MinIsMember ==
  ASSUME NEW T \in SUBSET Nat, T # {}
  PROVE  Min(T) \in T /\ \A y \in T : Min(T) =< y
<1>1. PICK x \in T : \A y \in T : <<y, x>> \notin LessThan
  BY WFMin, LessThanIsWellFounded
<1>2. \A y \in T : x =< y
  <2>1. \A m, n \in Nat : <<m, n>> \notin LessThan => n =< m
    BY DEF LessThan
  <2> QED
    BY <1>1, <2>1
<1> QED
  BY <1>2, Zenon DEF Min

\* Induction, for what a set says of a number.
LEMMA Induction ==
  ASSUME NEW T, 0 \in T, \A n \in Nat : n \in T => n + 1 \in T
  PROVE  Nat \subseteq T
<1> SUFFICES ASSUME Nat \ T # {} PROVE FALSE
  OBVIOUS
<1> DEFINE m == Min(Nat \ T)
<1>1. m \in Nat \ T /\ \A y \in Nat \ T : m =< y
  BY MinIsMember
<1> HIDE DEF m
<1>2. m # 0 /\ m - 1 \in Nat /\ m - 1 \notin Nat \ T
  BY <1>1
<1> QED
  BY <1>1, <1>2

Computes(w, x, N, F) == w[0] = x /\ \A n \in 1..N : w[n] = F[<<n, w[n - 1]>>]

\* A function defined from its value before is there, and has its values in S.
LEMMA Recursion ==
  ASSUME NEW S, NEW x \in S, NEW N \in Nat, NEW F \in [Nat \X S -> S]
  PROVE  \E w \in [0..N -> S] : Computes(w, x, N, F)
<1> DEFINE Good(n, w) == \A k \in 0..n : w[k] = IF k = 0 THEN x ELSE F[<<k, w[k - 1]>>]
           T == {n \in Nat : \E w \in [0..n -> S] : Good(n, w)}
<1>1. 0 \in T
  <2>1. [k \in 0..0 |-> x] \in [0..0 -> S] /\ Good(0, [k \in 0..0 |-> x])
    OBVIOUS
  <2> QED
    BY <2>1, Zenon
<1>2. ASSUME NEW n \in Nat, n \in T PROVE n + 1 \in T
  <2>1. PICK w \in [0..n -> S] : Good(n, w)
    BY <1>2
  <2> DEFINE v == [k \in 0..n + 1 |-> IF k = n + 1 THEN F[<<n + 1, w[n]>>] ELSE w[k]]
  <2>2. F[<<n + 1, w[n]>>] \in S
    BY <2>1
  <2>3. v \in [0..n + 1 -> S]
    BY <2>1, <2>2
  <2>4. Good(n + 1, v)
    <3>1. v[n + 1] = F[<<n + 1, w[n]>>] /\ \A k \in 0..n : v[k] = w[k]
      <4>1. n + 1 \in 0..n + 1 /\ \A k \in 0..n : k \in 0..n + 1 /\ k # n + 1
        OBVIOUS
      <4> QED
        BY <4>1, Zenon
    <3> HIDE DEF v
    <3>2. v[n + 1] = F[<<n + 1, v[n]>>]
      <4>1. n \in 0..n
        OBVIOUS
      <4> QED
        BY <3>1, <4>1, Zenon
    <3>3. ASSUME NEW k \in 0..n
          PROVE  v[k] = IF k = 0 THEN x ELSE F[<<k, v[k - 1]>>]
      <4>1. k # 0 => k - 1 \in 0..n
        OBVIOUS
      <4> QED
        BY <2>1, <3>1, <4>1
    <3>4. \A k \in 0..n + 1 : k \in 0..n \/ k = n + 1
      OBVIOUS
    <3> SUFFICES ASSUME NEW k \in 0..n + 1
                 PROVE  v[k] = IF k = 0 THEN x ELSE F[<<k, v[k - 1]>>]
      BY Zenon
    <3>5. CASE k = n + 1
      <4>1. k # 0 /\ k - 1 = n
        BY <3>5
      <4> QED
        BY <3>2, <3>5, <4>1
    <3> QED
      BY <3>3, <3>4, <3>5, Zenon
  <2>5. n + 1 \in Nat
    OBVIOUS
  <2> HIDE DEF v, Good
  <2> QED
    BY <2>3, <2>4, <2>5, Zenon
<1>3. N \in T
  BY <1>1, <1>2, Induction, Zenon
<1>4. PICK w \in [0..N -> S] : Good(N, w)
  BY <1>3
<1>5. 0 \in 0..N /\ \A n \in 1..N : n \in 0..N /\ n # 0
  OBVIOUS
<1> QED
  BY <1>4, <1>5, Zenon DEF Computes

\* Induction over sequences, for what a set says of them.
LEMMA SequenceInduction ==
  ASSUME NEW S, NEW P, << >> \in P,
         \A s \in Seq(S), x \in S : s \in P => Append(s, x) \in P
  PROVE  Seq(S) \subseteq P
<1> DEFINE T == {n \in Nat : \A s \in Seq(S) : Len(s) = n => s \in P}
<1>1. 0 \in T
  OBVIOUS
<1>2. ASSUME NEW n \in Nat, n \in T PROVE n + 1 \in T
  <2> SUFFICES ASSUME NEW s \in Seq(S), Len(s) = n + 1 PROVE s \in P
    OBVIOUS
  <2>1. s # << >>
    OBVIOUS
  <2>2. PICK t \in Seq(S), x \in S : s = Append(t, x)
    BY <2>1, SequenceEmptyOrAppend
  <2>3. Len(t) = n
    BY <2>2
  <2>4. t \in P
    BY <1>2, <2>3
  <2> QED
    BY <2>2, <2>4
<1>3. Nat \subseteq T
  <2> HIDE DEF T
  <2> QED
    BY <1>1, <1>2, Induction, Zenon
<1>4. \A s \in Seq(S) : Len(s) \in T
  BY <1>3
<1> QED
  BY <1>4

Runs(w, s) == w[0] = << >> /\ \A n \in 1..Len(s) : w[n] = w[n - 1] \o s[n]

\* FlattenSeq puts a sequence's elements behind each other.
LEMMA Running ==
  ASSUME NEW S, NEW s \in Seq(Seq(S))
  PROVE  \E w \in [0..Len(s) -> Seq(S)] : Runs(w, s) /\ FlattenSeq(s) = w[Len(s)]
<1> DEFINE N == Len(s)
           F == [nx \in Nat \X Seq(S) |-> IF nx[1] \in 1..N THEN nx[2] \o s[nx[1]] ELSE << >>]
           Step(f) == [i \in 1..N |-> IF i = 1 THEN s[i] ELSE f[i - 1] \o s[i]]
           f == CHOOSE g : g = Step(g)
<1>1. N \in Nat /\ << >> \in Seq(S) /\ \A n \in 1..N : s[n] \in Seq(S)
  OBVIOUS
<1>2. F \in [Nat \X Seq(S) -> Seq(S)]
  <2>1. \A n \in Nat, x \in Seq(S) :
          (IF n \in 1..N THEN x \o s[n] ELSE << >>) \in Seq(S)
    BY <1>1
  <2> HIDE DEF N
  <2> QED
    BY <2>1
<1>3. PICK w \in [0..N -> Seq(S)] : Computes(w, << >>, N, F)
  <2> HIDE DEF F, N
  <2> QED
    BY <1>1, <1>2, Recursion, Zenon
<1>4. w[0] = << >> /\ \A n \in 1..N : w[n] = w[n - 1] \o s[n]
  <2>1. \A n \in 1..N : n \in Nat /\ n - 1 \in 0..N
    BY <1>1
  <2>2. \A n \in 1..N : F[<<n, w[n - 1]>>] = w[n - 1] \o s[n]
    <3> SUFFICES ASSUME NEW n \in 1..N PROVE F[<<n, w[n - 1]>>] = w[n - 1] \o s[n]
      OBVIOUS
    <3>1. <<n, w[n - 1]>> \in Nat \X Seq(S)
      BY <1>3, <2>1
    <3> HIDE DEF N
    <3> QED
      BY <3>1
  <2> QED
    BY <1>3, <2>2, Zenon DEF Computes
<1>5. [i \in 1..N |-> w[i]] = Step([i \in 1..N |-> w[i]])
  <2> SUFFICES ASSUME NEW i \in 1..N
               PROVE  w[i] = IF i = 1 THEN s[i] ELSE [j \in 1..N |-> w[j]][i - 1] \o s[i]
    BY Zenon
  <2>1. CASE i = 1
    <3>1. s[i] \in Seq(S) /\ w[i] = w[i - 1] \o s[i]
      BY <1>1, <1>4
    <3>2. w[i - 1] = << >>
      BY <1>4, <2>1
    <3>3. << >> \o s[i] = s[i]
      BY <3>1
    <3> QED
      BY <2>1, <3>1, <3>2, <3>3, Zenon
  <2>2. CASE i # 1
    <3>1. i - 1 \in 1..N
      BY <2>2
    <3> QED
      BY <1>4, <2>2, <3>1
  <2> QED
    BY <2>1, <2>2
<1>6. f = Step(f)
  <2> HIDE DEF Step
  <2> QED
    BY <1>5, Zenon
<1>7. N # 0 => FlattenSeq(s) = f[N]
  BY <1>1, Zenon DEF FlattenSeq
<1> HIDE DEF f
<1>8. \A n \in Nat : n \in {m \in Nat : m \in 1..N => f[m] = w[m]}
  <2> DEFINE E == {m \in Nat : m \in 1..N => f[m] = w[m]}
  <2>1. 0 \in E
    OBVIOUS
  <2>2. ASSUME NEW n \in Nat, n \in E PROVE n + 1 \in E
    <3> SUFFICES ASSUME n + 1 \in 1..N PROVE f[n + 1] = w[n + 1]
      OBVIOUS
    <3>1. f[n + 1] = IF n + 1 = 1 THEN s[n + 1] ELSE f[(n + 1) - 1] \o s[n + 1]
      BY <1>6, Zenon
    <3>2. w[n + 1] = w[(n + 1) - 1] \o s[n + 1]
      BY <1>4, Zenon
    <3>3. (n + 1) - 1 = n /\ s[n + 1] \in Seq(S)
      BY <1>1
    <3>4. CASE n = 0
      <4>1. << >> \o s[n + 1] = s[n + 1]
        BY <3>3
      <4>2. n + 1 = 1 /\ (n + 1) - 1 = 0
        BY <3>4
      <4>3. w[n + 1] = << >> \o s[n + 1]
        BY <1>4, <3>2, <4>2, Zenon
      <4>4. f[n + 1] = s[n + 1]
        BY <3>1, <4>2, Zenon
      <4> QED
        BY <4>1, <4>3, <4>4, Zenon
    <3>5. CASE n # 0
      <4>1. n \in 1..N /\ n + 1 # 1
        BY <3>5
      <4>2. f[n] = w[n]
        BY <2>2, <4>1
      <4> QED
        BY <3>1, <3>2, <3>3, <4>1, <4>2, Zenon
    <3> QED
      BY <3>4, <3>5
  <2>3. Nat \subseteq E
    <3> HIDE DEF E
    <3> QED
      BY <2>1, <2>2, Induction, Zenon
  <2> QED
    BY <2>3
<1>9. FlattenSeq(s) = w[N]
  <2>1. CASE N = 0
    <3>1. s = << >> /\ FlattenSeq(s) = s
      BY <2>1 DEF FlattenSeq
    <3> QED
      BY <1>4, <2>1, <3>1
  <2>2. CASE N # 0
    <3>1. N \in 1..N
      BY <1>1, <2>2
    <3> QED
      BY <1>1, <1>7, <1>8, <2>2, <3>1
  <2> QED
    BY <2>1, <2>2
<1> QED
  BY <1>4, <1>9 DEF Runs

(***************************************************************************)
(* Sequences put behind each other                                         *)
(***************************************************************************)
LEMMA FlatEmpty == FlattenSeq(<< >>) = << >>
<1>1. Len(<< >>) = 0
  OBVIOUS
<1> QED
  BY <1>1, Zenon DEF FlattenSeq

LEMMA FlatTyped ==
  ASSUME NEW S, NEW s \in Seq(Seq(S))
  PROVE  FlattenSeq(s) \in Seq(S)
<1>1. Len(s) \in 0..Len(s)
  OBVIOUS
<1> QED
  BY <1>1, Running

LEMMA FlatAppend ==
  ASSUME NEW S, NEW s \in Seq(Seq(S)), NEW x \in Seq(S)
  PROVE  FlattenSeq(Append(s, x)) = FlattenSeq(s) \o x
<1> DEFINE t == Append(s, x)
           N == Len(s)
<1>1. /\ N \in Nat /\ t \in Seq(Seq(S)) /\ Len(t) = N + 1
      /\ t[N + 1] = x /\ \A n \in 1..N : t[n] = s[n]
  OBVIOUS
<1>2. PICK w \in [0..N -> Seq(S)] : Runs(w, s) /\ FlattenSeq(s) = w[N]
  BY Running
<1>3. PICK v \in [0..Len(t) -> Seq(S)] : Runs(v, t) /\ FlattenSeq(t) = v[Len(t)]
  BY <1>1, Running
<1> HIDE DEF t
<1>4. /\ w[0] = << >> /\ \A n \in 1..N : w[n] = w[n - 1] \o s[n]
      /\ v[0] = << >> /\ \A n \in 1..N + 1 : v[n] = v[n - 1] \o t[n]
  BY <1>1, <1>2, <1>3 DEF Runs
<1> DEFINE E == {m \in Nat : m \in 0..N => v[m] = w[m]}
<1>5. 0 \in E
  BY <1>4
<1>6. ASSUME NEW n \in Nat, n \in E PROVE n + 1 \in E
  <2> SUFFICES ASSUME n + 1 \in 0..N PROVE v[n + 1] = w[n + 1]
    OBVIOUS
  <2>1. n \in 0..N /\ n + 1 \in 1..N /\ n + 1 \in 1..N + 1 /\ (n + 1) - 1 = n
    BY <1>1
  <2>2. v[n] = w[n]
    BY <1>6, <2>1
  <2> HIDE DEF E, N
  <2> QED
    BY <1>1, <1>4, <2>1, <2>2, Zenon
<1>7. Nat \subseteq E
  <2> HIDE DEF E
  <2> QED
    BY <1>5, <1>6, Induction, Zenon
<1>8. v[N] = w[N]
  <2>1. N \in 0..N
    BY <1>1
  <2> QED
    BY <1>1, <1>7, <2>1
<1>9. v[N + 1] = v[N] \o x
  <2>1. N + 1 \in 1..N + 1 /\ (N + 1) - 1 = N
    BY <1>1
  <2> HIDE DEF N
  <2> QED
    BY <1>1, <1>4, <2>1, Zenon
<1> HIDE DEF N, E
<1>10. FlattenSeq(t) = FlattenSeq(s) \o x
  BY <1>1, <1>2, <1>3, <1>8, <1>9, Zenon
<1> QED
  BY <1>10 DEF t

LEMMA FlatConcat ==
  ASSUME NEW S, NEW s \in Seq(Seq(S)), NEW t \in Seq(Seq(S))
  PROVE  FlattenSeq(s \o t) = FlattenSeq(s) \o FlattenSeq(t)
<1> DEFINE P == {u \in Seq(Seq(S)) : FlattenSeq(s \o u) = FlattenSeq(s) \o FlattenSeq(u)}
<1>1. << >> \in P
  <2>1. s \o << >> = s /\ << >> \in Seq(Seq(S))
    OBVIOUS
  <2>2. FlattenSeq(s) \o << >> = FlattenSeq(s)
    BY FlatTyped, ConcatEmptySeq
  <2> QED
    BY <2>1, <2>2, FlatEmpty, Zenon
<1>2. \A a, b, c \in Seq(S) : (a \o b) \o c = a \o (b \o c)
  OBVIOUS
<1>3. ASSUME NEW u \in Seq(Seq(S)), NEW x \in Seq(S), u \in P PROVE Append(u, x) \in P
  <2>1. s \o Append(u, x) = Append(s \o u, x) /\ s \o u \in Seq(Seq(S))
    OBVIOUS
  <2>2. FlattenSeq(Append(s \o u, x)) = (FlattenSeq(s) \o FlattenSeq(u)) \o x
    BY <1>3, <2>1, FlatAppend
  <2>3. FlattenSeq(Append(u, x)) = FlattenSeq(u) \o x
    BY FlatAppend
  <2>4. (FlattenSeq(s) \o FlattenSeq(u)) \o x = FlattenSeq(s) \o (FlattenSeq(u) \o x)
    <3>1. FlattenSeq(s) \in Seq(S) /\ FlattenSeq(u) \in Seq(S)
      BY FlatTyped, Zenon
    <3> QED
      BY <1>2, <3>1, Zenon
  <2>5. Append(u, x) \in Seq(Seq(S))
    OBVIOUS
  <2> QED
    BY <2>1, <2>2, <2>3, <2>4, <2>5, Zenon
<1>4. Seq(Seq(S)) \subseteq P
  <2> HIDE DEF P
  <2> QED
    BY <1>1, <1>3, SequenceInduction, Zenon
<1> QED
  BY <1>4

LEMMA FlatOne ==
  ASSUME NEW S, NEW x \in Seq(S)
  PROVE  FlattenSeq(<<x>>) = x
<1>1. <<x>> = Append(<< >>, x) /\ << >> \in Seq(Seq(S)) /\ << >> \o x = x
  OBVIOUS
<1> QED
  BY <1>1, FlatAppend, FlatEmpty

LEMMA RangeAppend ==
  ASSUME NEW S, NEW s \in Seq(S), NEW x \in S
  PROVE  Range(Append(s, x)) = Range(s) \cup {x}
<1>1. Append(s, x) = s \o <<x>> /\ <<x>> \in Seq(S)
  OBVIOUS
<1>2. Range(<<x>>) = {x}
  BY DEF Range
<1>3. Range(s \o <<x>>) = Range(s) \cup Range(<<x>>)
  BY <1>1, RangeConcatenation, Zenon
<1> QED
  BY <1>1, <1>2, <1>3, Zenon

\* What is in the parts is in the whole, and nothing else.
LEMMA FlatRange ==
  ASSUME NEW S, NEW s \in Seq(Seq(S))
  PROVE  Range(FlattenSeq(s)) = UNION {Range(s[k]) : k \in DOMAIN s}
<1> DEFINE U(u) == UNION {Range(u[k]) : k \in DOMAIN u}
           P == {u \in Seq(Seq(S)) : Range(FlattenSeq(u)) = U(u)}
<1>1. << >> \in P
  <2>1. Range(<< >>) = {} /\ U(<< >>) = {} /\ << >> \in Seq(Seq(S))
    BY DEF Range
  <2> HIDE DEF U
  <2> QED
    BY <2>1, FlatEmpty, Zenon
<1>2. ASSUME NEW u \in Seq(Seq(S)), NEW x \in Seq(S), u \in P PROVE Append(u, x) \in P
  <2>1. Range(FlattenSeq(u) \o x) = Range(FlattenSeq(u)) \cup Range(x)
    BY FlatTyped, RangeConcatenation
  <2>2. U(Append(u, x)) = U(u) \cup Range(x)
    <3>1. /\ DOMAIN Append(u, x) = DOMAIN u \cup {Len(u) + 1}
          /\ Append(u, x)[Len(u) + 1] = x
          /\ \A k \in DOMAIN u : Append(u, x)[k] = u[k]
      OBVIOUS
    <3> QED
      BY <3>1, Zenon
  <2>3. Append(u, x) \in Seq(Seq(S))
    OBVIOUS
  <2> HIDE DEF U
  <2> QED
    BY <1>2, <2>1, <2>2, <2>3, FlatAppend, Zenon
<1>3. Seq(Seq(S)) \subseteq P
  <2> HIDE DEF P
  <2> QED
    BY <1>1, <1>2, SequenceInduction, Zenon
<1> QED
  BY <1>3

\* Parts of at most one element make a whole that is no longer than there are parts.
LEMMA FlatShort ==
  ASSUME NEW S, NEW s \in Seq(Seq(S)), \A k \in DOMAIN s : Len(s[k]) <= 1
  PROVE  Len(FlattenSeq(s)) <= Len(s)
<1> DEFINE Q(u) == \A k \in DOMAIN u : Len(u[k]) <= 1
           P == {u \in Seq(Seq(S)) : Q(u) => Len(FlattenSeq(u)) <= Len(u)}
<1>1. << >> \in P
  <2>1. Len(<< >>) <= Len(<< >>) /\ << >> \in Seq(Seq(S))
    OBVIOUS
  <2> QED
    BY <2>1, FlatEmpty
<1>2. ASSUME NEW u \in Seq(Seq(S)), NEW x \in Seq(S), u \in P PROVE Append(u, x) \in P
  <2>1. FlattenSeq(Append(u, x)) = FlattenSeq(u) \o x /\ FlattenSeq(u) \in Seq(S)
    BY FlatAppend, FlatTyped
  <2>2. Append(u, x) \in Seq(Seq(S))
    OBVIOUS
  <2> SUFFICES ASSUME Q(Append(u, x)) PROVE Len(FlattenSeq(Append(u, x))) <= Len(Append(u, x))
    BY <2>2
  <2>3. Len(x) <= 1 /\ Q(u)
    <3>1. /\ \A k \in DOMAIN u : k \in DOMAIN Append(u, x) /\ Append(u, x)[k] = u[k]
          /\ Len(u) + 1 \in DOMAIN Append(u, x) /\ Append(u, x)[Len(u) + 1] = x
      OBVIOUS
    <3> QED
      BY <3>1, Zenon
  <2>4. Len(FlattenSeq(u)) <= Len(u)
    BY <1>2, <2>3
  <2>5. Len(FlattenSeq(u) \o x) = Len(FlattenSeq(u)) + Len(x) /\ Len(Append(u, x)) = Len(u) + 1
    BY <2>1
  <2>6. Len(FlattenSeq(u)) \in Nat /\ Len(u) \in Nat /\ Len(x) \in Nat
    BY <2>1
  <2> QED
    BY <2>1, <2>3, <2>4, <2>5, <2>6
<1>3. Seq(Seq(S)) \subseteq P
  <2> HIDE DEF P
  <2> QED
    BY <1>1, <1>2, SequenceInduction, Zenon
<1> QED
  BY <1>3

(***************************************************************************)
(* Sequences in order                                                      *)
(***************************************************************************)
Apart(a, b) == Garbage \notin {a, b} => Before(a, b)
Sorted(s) == \A j, k \in DOMAIN s : j < k /\ Garbage \notin {s[j], s[k]} => Before(s[j], s[k])
Follows(s, t) == \A a \in Range(s), b \in Range(t) : Apart(a, b)

LEMMA SortedIs ==
  ASSUME NEW s
  PROVE  Sorted(s) <=> \A j, k \in DOMAIN s : j < k => Apart(s[j], s[k])
BY Zenon DEF Sorted, Apart

LEMMA SortedEmpty == Sorted(<< >>)
<1>1. DOMAIN << >> = {}
  OBVIOUS
<1> QED
  BY <1>1, Zenon DEF Sorted

LEMMA SortedConcat ==
  ASSUME NEW S, NEW s \in Seq(S), NEW t \in Seq(S)
  PROVE  Sorted(s \o t) <=> Sorted(s) /\ Sorted(t) /\ Follows(s, t)
<1>1. /\ s \o t \in Seq(S) /\ DOMAIN (s \o t) = 1..Len(s) + Len(t)
      /\ DOMAIN s = 1..Len(s) /\ DOMAIN t = 1..Len(t) /\ Len(s) \in Nat /\ Len(t) \in Nat
  OBVIOUS
<1>2. /\ \A j \in 1..Len(s) : (s \o t)[j] = s[j]
      /\ \A j \in 1..Len(t) : (s \o t)[Len(s) + j] = t[j]
  OBVIOUS
<1> DEFINE u == s \o t
<1>3. ASSUME Sorted(u) PROVE Sorted(s) /\ Sorted(t) /\ Follows(s, t)
  <2>1. \A j, k \in 1..Len(s) + Len(t) : j < k => Apart(u[j], u[k])
    BY <1>1, <1>3, SortedIs
  <2>2. \A j, k \in 1..Len(s) : j < k => Apart(s[j], s[k])
    <3>1. \A j \in 1..Len(s) : j \in 1..Len(s) + Len(t)
      BY <1>1
    <3> HIDE DEF u
    <3> QED
      BY <1>2, <2>1, <3>1, Zenon DEF u
  <2>3. \A j, k \in 1..Len(t) : j < k => Apart(t[j], t[k])
    <3>1. \A j \in 1..Len(t) : Len(s) + j \in 1..Len(s) + Len(t)
      BY <1>1
    <3>2. \A j, k \in 1..Len(t) : j < k => Len(s) + j < Len(s) + k
      BY <1>1
    <3> HIDE DEF u
    <3> QED
      BY <1>2, <2>1, <3>1, <3>2, Zenon DEF u
  <2>4. Follows(s, t)
    <3> SUFFICES ASSUME NEW j \in 1..Len(s), NEW k \in 1..Len(t) PROVE Apart(s[j], t[k])
      BY <1>1, Zenon DEF Follows, Range
    <3>1. j \in 1..Len(s) + Len(t) /\ Len(s) + k \in 1..Len(s) + Len(t) /\ j < Len(s) + k
      BY <1>1
    <3> HIDE DEF u
    <3> QED
      BY <1>2, <2>1, <3>1, Zenon DEF u
  <2> QED
    BY <1>1, <2>2, <2>3, <2>4, SortedIs
<1>4. ASSUME Sorted(s), Sorted(t), Follows(s, t) PROVE Sorted(u)
  <2> SUFFICES ASSUME NEW j \in 1..Len(s) + Len(t), NEW k \in 1..Len(s) + Len(t), j < k
               PROVE  Apart(u[j], u[k])
    BY <1>1, SortedIs
  <2>1. CASE k <= Len(s)
    <3>1. j \in 1..Len(s) /\ k \in 1..Len(s)
      BY <1>1, <2>1
    <3>2. Apart(s[j], s[k])
      BY <1>1, <1>4, <3>1, SortedIs
    <3> QED
      BY <1>2, <3>1, <3>2, Zenon
  <2>2. CASE j > Len(s)
    <3> DEFINE m == j - Len(s)
               n == k - Len(s)
    <3>1. m \in 1..Len(t) /\ n \in 1..Len(t) /\ m < n /\ j = Len(s) + m /\ k = Len(s) + n
      BY <1>1, <2>2
    <3> HIDE DEF m, n
    <3>2. Apart(t[m], t[n])
      BY <1>1, <1>4, <3>1, SortedIs
    <3> QED
      BY <1>2, <3>1, <3>2, Zenon
  <2>3. CASE j <= Len(s) /\ k > Len(s)
    <3> DEFINE n == k - Len(s)
    <3>1. j \in 1..Len(s) /\ n \in 1..Len(t) /\ k = Len(s) + n
      BY <1>1, <2>3
    <3> HIDE DEF n
    <3>2. s[j] \in Range(s) /\ t[n] \in Range(t)
      BY <1>1, <3>1, Zenon DEF Range
    <3>3. Apart(s[j], t[n])
      BY <1>4, <3>2, Zenon DEF Follows
    <3> QED
      BY <1>2, <3>1, <3>3, Zenon
  <2>4. k <= Len(s) \/ j > Len(s) \/ (j <= Len(s) /\ k > Len(s))
    BY <1>1
  <2> QED
    BY <2>1, <2>2, <2>3, <2>4, Zenon
<1> QED
  BY <1>3, <1>4

LEMMA SortedFlat ==
  ASSUME NEW S, NEW s \in Seq(Seq(S)),
         \A k \in DOMAIN s : Sorted(s[k]),
         \A j, k \in DOMAIN s : j < k => Follows(s[j], s[k])
  PROVE  Sorted(FlattenSeq(s))
<1> DEFINE Q(u) == /\ \A k \in DOMAIN u : Sorted(u[k])
                   /\ \A j, k \in DOMAIN u : j < k => Follows(u[j], u[k])
           P == {u \in Seq(Seq(S)) : Q(u) => Sorted(FlattenSeq(u))}
<1>1. << >> \in P
  <2>1. << >> \in Seq(Seq(S))
    OBVIOUS
  <2> HIDE DEF Q
  <2> QED
    BY <2>1, FlatEmpty, SortedEmpty, Zenon
<1>2. ASSUME NEW u \in Seq(Seq(S)), NEW x \in Seq(S), u \in P PROVE Append(u, x) \in P
  <2>1. FlattenSeq(Append(u, x)) = FlattenSeq(u) \o x /\ FlattenSeq(u) \in Seq(S)
    BY FlatAppend, FlatTyped
  <2>2. Append(u, x) \in Seq(Seq(S))
    OBVIOUS
  <2> HIDE DEF Q
  <2> SUFFICES ASSUME Q(Append(u, x)) PROVE Sorted(FlattenSeq(Append(u, x)))
    BY <2>2, Zenon
  <2>3. Q(u) /\ Sorted(x) /\ \A k \in DOMAIN u : Follows(u[k], x)
    <3>1. /\ \A k \in DOMAIN u : k \in DOMAIN Append(u, x) /\ Append(u, x)[k] = u[k]
          /\ Len(u) + 1 \in DOMAIN Append(u, x) /\ Append(u, x)[Len(u) + 1] = x
          /\ \A k \in DOMAIN u : k < Len(u) + 1
      OBVIOUS
    <3> QED
      BY <3>1, Zenon DEF Q
  <2>4. Sorted(FlattenSeq(u))
    BY <1>2, <2>3, Zenon
  <2>5. Follows(FlattenSeq(u), x)
    <3>1. Range(FlattenSeq(u)) = UNION {Range(u[k]) : k \in DOMAIN u}
      BY FlatRange
    <3> QED
      BY <2>3, <3>1, Zenon DEF Follows
  <2> QED
    BY <2>1, <2>3, <2>4, <2>5, SortedConcat
<1>3. Seq(Seq(S)) \subseteq P
  <2> HIDE DEF P
  <2> QED
    BY <1>1, <1>2, SequenceInduction, Zenon
<1>4. s \in P
  <2> HIDE DEF P
  <2> QED
    BY <1>3, Zenon
<1> QED
  BY <1>4, Zenon

\* Two sequences of the same bytes, both in order, are the same.
LEMMA SortedUnique ==
  ASSUME NEW S, Garbage \notin S, \A b \in S : b.of \in Int /\ b.i \in Int,
         NEW s \in Seq(S), NEW t \in Seq(S), Sorted(s), Sorted(t), Range(s) = Range(t)
  PROVE  s = t
<1>1. \A a, b \in S : ~(Before(a, b) /\ Before(b, a))
  BY DEF Before
<1>2. \A a, b \in S : Apart(a, b) => Before(a, b)
  BY Zenon DEF Apart
<1>3. ASSUME NEW u \in Seq(S), NEW x \in S, Sorted(Append(u, x))
      PROVE  Sorted(u) /\ \A a \in Range(u) : Before(a, x)
  <2>1. Append(u, x) = u \o <<x>> /\ <<x>> \in Seq(S) /\ Range(<<x>>) = {x}
    BY DEF Range
  <2>2. Sorted(u) /\ Follows(u, <<x>>)
    BY <1>3, <2>1, SortedConcat
  <2>3. \A a \in Range(u) : a \in S
    BY RangeOfSeq
  <2> QED
    BY <1>2, <2>1, <2>2, <2>3, Zenon DEF Follows
<1> DEFINE P == {u \in Seq(S) : \A v \in Seq(S) :
                   Sorted(u) /\ Sorted(v) /\ Range(u) = Range(v) => u = v}
<1>4. << >> \in P
  <2>1. \A v \in Seq(S) : v # << >> => v[1] \in Range(v)
    BY DEF Range
  <2>2. Range(<< >>) = {} /\ << >> \in Seq(S)
    BY DEF Range
  <2> QED
    BY <2>1, <2>2
<1>5. ASSUME NEW u \in Seq(S), NEW x \in S, u \in P PROVE Append(u, x) \in P
  <2>1. Append(u, x) \in Seq(S)
    OBVIOUS
  <2> SUFFICES ASSUME NEW v \in Seq(S), Sorted(Append(u, x)), Sorted(v),
                      Range(Append(u, x)) = Range(v)
               PROVE  Append(u, x) = v
    BY <2>1
  <2>2. Range(v) = Range(u) \cup {x}
    BY RangeAppend
  <2>3. v # << >>
    <3>1. Range(<< >>) = {}
      BY DEF Range
    <3> QED
      BY <2>2, <3>1
  <2>4. PICK w \in Seq(S), y \in S : v = Append(w, y)
    BY <2>3, SequenceEmptyOrAppend
  <2>5. Range(v) = Range(w) \cup {y}
    BY <2>4, RangeAppend
  <2>6. Sorted(u) /\ \A a \in Range(u) : Before(a, x)
    BY <1>3
  <2>7. Sorted(w) /\ \A a \in Range(w) : Before(a, y)
    BY <1>3, <2>4
  <2>8. x = y
    BY <1>1, <2>2, <2>5, <2>6, <2>7, Zenon
  <2>9. Range(u) = Range(w)
    <3>1. x \notin Range(u) /\ y \notin Range(w)
      BY <1>1, <2>6, <2>7, Zenon
    <3>2. \A z : z \in Range(u) <=> z \in Range(v) /\ z # x
      BY <2>2, <3>1
    <3>3. \A z : z \in Range(w) <=> z \in Range(v) /\ z # x
      BY <2>5, <2>8, <3>1
    <3> QED
      BY <3>2, <3>3
  <2>10. u = w
    BY <1>5, <2>6, <2>7, <2>9, Zenon
  <2> QED
    BY <2>4, <2>8, <2>10, Zenon
<1>6. Seq(S) \subseteq P
  <2> HIDE DEF P
  <2> QED
    BY <1>4, <1>5, SequenceInduction, Zenon
<1> QED
  BY <1>6

(***************************************************************************)
(* Characters, their units and their bytes                                 *)
(***************************************************************************)
\* What frames and buffers hold: bytes that are masked no longer.
Data == [of : Int, i : 0..9, by : {4}]

LEMMA DataIs ==
  /\ Garbage \in Data /\ Garbage.i = 9 /\ Garbage.of = 0
  /\ \A of \in Int, i \in 0..9 : Byte(of, i) \in Data
  /\ \A of, i : Byte(of, i).of = of /\ Byte(of, i).i = i /\ Byte(of, i).by = 4
  /\ \A b \in Data : b.of \in Int /\ b.i \in 0..9 /\ b.by = 4
BY DEF Data, Garbage, Byte

\* A character's bytes follow each other, from its first or, of NUL, from 0.
LEMMA Utf8Form ==
  ASSUME NEW id, NEW kind \in Kinds
  PROVE  \E n \in 1..4, z \in 0..1 :
           /\ Utf8(id, kind) = [i \in 1..n |-> Byte(id, i - z)]
           /\ kind \notin {"wide", "pair"} => n = 1
<1>1. CASE kind = "ascii"
  <2>1. Utf8(id, kind) = <<Byte(id, 1)>>
    BY <1>1, Zenon DEF Utf8
  <2>2. <<Byte(id, 1)>> = [i \in 1..1 |-> Byte(id, i - 0)]
    OBVIOUS
  <2>3. 1 \in 1..4 /\ 0 \in 0..1
    OBVIOUS
  <2> QED
    BY <2>1, <2>2, <2>3, Zenon
<1>2. CASE kind = "nul"
  <2>1. Utf8(id, kind) = <<Byte(id, 0)>>
    BY <1>2 DEF Utf8
  <2>2. <<Byte(id, 0)>> = [i \in 1..1 |-> Byte(id, i - 1)]
    OBVIOUS
  <2>3. 1 \in 1..4 /\ 1 \in 0..1
    OBVIOUS
  <2> QED
    BY <2>1, <2>2, <2>3, Zenon
<1>3. CASE kind = "wide"
  <2>1. Utf8(id, kind) = <<Byte(id, 1), Byte(id, 2)>>
    BY <1>3 DEF Utf8
  <2>2. <<Byte(id, 1), Byte(id, 2)>> = [i \in 1..2 |-> Byte(id, i - 0)]
    OBVIOUS
  <2>3. 2 \in 1..4 /\ 0 \in 0..1
    OBVIOUS
  <2> QED
    BY <1>3, <2>1, <2>2, <2>3, Zenon
<1>4. CASE kind = "pair"
  <2>1. Utf8(id, kind) = [i \in 1..4 |-> Byte(id, i)]
    BY <1>4 DEF Utf8
  <2>2. [i \in 1..4 |-> Byte(id, i)] = [i \in 1..4 |-> Byte(id, i - 0)]
    OBVIOUS
  <2>3. 4 \in 1..4 /\ 0 \in 0..1
    OBVIOUS
  <2> QED
    BY <1>4, <2>1, <2>2, <2>3, Zenon
<1> QED
  BY <1>1, <1>2, <1>3, <1>4, Zenon DEF Kinds

LEMMA Utf8Is ==
  ASSUME NEW id \in Nat \ {0}, NEW kind \in Kinds
  PROVE  /\ Utf8(id, kind) \in Seq(Data) /\ Utf8(id, kind) # << >>
         /\ Range(Utf8(id, kind)) \subseteq Data \ {Garbage}
         /\ \A b \in Range(Utf8(id, kind)) : b.of = id
         /\ Sorted(Utf8(id, kind))
         /\ kind \notin {"wide", "pair"} => Len(Utf8(id, kind)) = 1
<1>1. PICK n \in 1..4, z \in 0..1 :
        /\ Utf8(id, kind) = [i \in 1..n |-> Byte(id, i - z)]
        /\ kind \notin {"wide", "pair"} => n = 1
  BY Utf8Form
<1> DEFINE s == [i \in 1..n |-> Byte(id, i - z)]
<1>2. \A i \in 1..n : i - z \in 0..9 /\ i - z # 9
  OBVIOUS
<1>3. \A i \in 1..n : s[i] \in Data \ {Garbage} /\ s[i].of = id /\ s[i].i = i - z
  <2> SUFFICES ASSUME NEW i \in 1..n
               PROVE  Byte(id, i - z) \in Data \ {Garbage} /\ Byte(id, i - z).of = id
                      /\ Byte(id, i - z).i = i - z
    BY Zenon
  <2>1. id \in Int
    OBVIOUS
  <2>2. /\ Byte(id, i - z) \in Data /\ Byte(id, i - z).of = id
        /\ Byte(id, i - z).i = i - z
    <3>1. i - z \in 0..9
      BY <1>2
    <3> QED
      BY <2>1, <3>1, DataIs
  <2>3. Byte(id, i - z) # Garbage
    <3>1. Garbage.i = 9 /\ i - z # 9
      BY <1>2, DataIs
    <3> HIDE DEF s
    <3> QED
      BY <2>2, <3>1, Zenon
  <2> QED
    BY <2>2, <2>3, Zenon
<1>4. s \in Seq(Data) /\ Len(s) = n /\ DOMAIN s = 1..n /\ s # << >>
  <2>1. n \in Nat /\ n >= 1
    OBVIOUS
  <2>2. s \in [1..n -> Data]
    BY <1>3
  <2> HIDE DEF s
  <2>3. s \in Seq(Data) /\ DOMAIN s = 1..n
    BY <2>1, <2>2
  <2>4. Len(s) = n
    BY <2>1, <2>3
  <2> QED
    BY <2>1, <2>3, <2>4
<1> HIDE DEF s
<1>5. \A j, k \in 1..n : j < k => Before(s[j], s[k])
  <2> SUFFICES ASSUME NEW j \in 1..n, NEW k \in 1..n, j < k PROVE Before(s[j], s[k])
    OBVIOUS
  <2>1. j - z < k - z
    OBVIOUS
  <2> QED
    BY <1>3, <2>1 DEF Before
<1>6. Sorted(s)
  BY <1>4, <1>5, Zenon DEF Sorted
<1>7. Range(s) \subseteq Data \ {Garbage} /\ \A b \in Range(s) : b.of = id
  BY <1>3, <1>4, Zenon DEF Range
<1>8. s = Utf8(id, kind)
  BY <1>1 DEF s
<1> QED
  BY <1>1, <1>4, <1>6, <1>7, <1>8, Zenon

UnitSet == [of : Nat, i : 0..2]

LEMMA UnitIs ==
  /\ \A of \in Nat, i \in 0..2 : Unit(of, i) \in UnitSet
  /\ \A of, i : Unit(of, i).of = of /\ Unit(of, i).i = i
  /\ \A x \in UnitSet : x.of \in Nat /\ x.i \in 0..2 /\ x # Garbage
BY DataIs DEF UnitSet, Unit

\* Which character of what is typed a unit is of, and which half.
KindOf(x, e, first) == e[x.of - first + 1]
UnitOK(x, e, first) ==
  /\ x \in UnitSet
  /\ x.of - first + 1 \in DOMAIN e
  /\ IF KindOf(x, e, first) = "pair" THEN x.i \in {1, 2} ELSE x.i = 0

\* The units of what is typed at once.
LEMMA UnitsAre ==
  ASSUME NEW e \in Seq(Kinds), NEW first \in Nat \ {0}
  PROVE  /\ Units(e, first) \in Seq(UnitSet)
         /\ Sorted(Units(e, first))
         /\ \A x \in Range(Units(e, first)) : UnitOK(x, e, first)
         /\ \A n \in DOMAIN e : \E x \in Range(Units(e, first)) : x.of = first + n - 1
<1> DEFINE id(n) == first + n - 1
           Part(n) == IF e[n] = "pair" THEN <<Unit(id(n), 1), Unit(id(n), 2)>>
                      ELSE <<Unit(id(n), 0)>>
           s == [n \in DOMAIN e |-> Part(n)]
<1>1. \A n \in DOMAIN e : id(n) \in Nat /\ id(n) - first + 1 = n
  OBVIOUS
<1>2. ASSUME NEW n \in DOMAIN e
      PROVE  /\ Part(n) \in Seq(UnitSet) /\ Sorted(Part(n))
             /\ \A x \in Range(Part(n)) : x.of = id(n) /\ UnitOK(x, e, first)
             /\ \E x \in Range(Part(n)) : x.of = id(n)
  <2>1. id(n) \in Nat /\ id(n) - first + 1 = n
    BY <1>1
  <2> HIDE DEF id
  <2> DEFINE x0 == Unit(id(n), 0)
             x1 == Unit(id(n), 1)
             x2 == Unit(id(n), 2)
  <2>2. /\ x0 \in UnitSet /\ x1 \in UnitSet /\ x2 \in UnitSet
        /\ x0.of = id(n) /\ x1.of = id(n) /\ x2.of = id(n)
        /\ x0.i = 0 /\ x1.i = 1 /\ x2.i = 2
    <3>1. 0 \in 0..2 /\ 1 \in 0..2 /\ 2 \in 0..2
      OBVIOUS
    <3> QED
      BY <2>1, <3>1, UnitIs, Zenon
  <2> HIDE DEF x0, x1, x2
  <2>3. CASE e[n] = "pair"
    <3>1. Part(n) = <<x1, x2>>
      BY <2>3 DEF x1, x2
    <3>2. UnitOK(x1, e, first) /\ UnitOK(x2, e, first)
      BY <2>1, <2>2, <2>3, Zenon DEF UnitOK, KindOf
    <3>3. <<x1, x2>> \in Seq(UnitSet) /\ Range(<<x1, x2>>) = {x1, x2}
      BY <2>2 DEF Range
    <3>4. Before(x1, x2)
      BY <2>2 DEF Before
    <3>5. Sorted(<<x1, x2>>)
      <4>1. \A j, k \in DOMAIN <<x1, x2>> : j < k => <<x1, x2>>[j] = x1 /\ <<x1, x2>>[k] = x2
        OBVIOUS
      <4> QED
        BY <3>4, <4>1, Zenon DEF Sorted
    <3> HIDE DEF Part
    <3> QED
      BY <2>2, <3>1, <3>2, <3>3, <3>5, Zenon
  <2>4. CASE e[n] # "pair"
    <3>1. Part(n) = <<x0>>
      BY <2>4 DEF x0
    <3>2. UnitOK(x0, e, first)
      BY <2>1, <2>2, <2>4, Zenon DEF UnitOK, KindOf
    <3>3. <<x0>> \in Seq(UnitSet) /\ Range(<<x0>>) = {x0}
      BY <2>2 DEF Range
    <3>4. Sorted(<<x0>>)
      <4>1. \A j, k \in DOMAIN <<x0>> : ~(j < k)
        OBVIOUS
      <4> QED
        BY <4>1, Zenon DEF Sorted
    <3> HIDE DEF Part
    <3> QED
      BY <2>2, <3>1, <3>2, <3>3, <3>4, Zenon
  <2> QED
    BY <2>3, <2>4
<1>3. s \in Seq(Seq(UnitSet)) /\ DOMAIN s = DOMAIN e /\ \A n \in DOMAIN e : s[n] = Part(n)
  <2> HIDE DEF Part
  <2>1. s \in [1..Len(e) -> Seq(UnitSet)]
    BY <1>2
  <2> QED
    BY <2>1
<1>4. Units(e, first) = FlattenSeq(s)
  BY Zenon DEF Units
<1> HIDE DEF s, Part
<1>5. \A j, k \in DOMAIN s : j < k => Follows(s[j], s[k])
  <2> SUFFICES ASSUME NEW j \in DOMAIN e, NEW k \in DOMAIN e, j < k,
                      NEW a \in Range(Part(j)), NEW b \in Range(Part(k))
               PROVE  Before(a, b)
    BY <1>3, Zenon DEF Follows, Apart
  <2>1. id(j) < id(k)
    OBVIOUS
  <2>2. a.of = id(j) /\ b.of = id(k)
    BY <1>2
  <2> QED
    BY <2>1, <2>2 DEF Before
<1>6. Sorted(FlattenSeq(s))
  BY <1>2, <1>3, <1>5, SortedFlat
<1>7. Range(FlattenSeq(s)) = UNION {Range(s[k]) : k \in DOMAIN s}
  BY <1>3, FlatRange
<1>8. FlattenSeq(s) \in Seq(UnitSet)
  BY <1>3, FlatTyped
<1> HIDE DEF id
<1>9. \A n \in DOMAIN e : \E x \in Range(FlattenSeq(s)) : x.of = id(n)
  <2> SUFFICES ASSUME NEW n \in DOMAIN e
               PROVE  \E x \in Range(FlattenSeq(s)) : x.of = id(n)
    OBVIOUS
  <2>1. PICK x \in Range(Part(n)) : x.of = id(n)
    BY <1>2
  <2>2. n \in DOMAIN s /\ x \in Range(s[n])
    BY <1>3, Zenon
  <2>3. x \in Range(FlattenSeq(s))
    BY <1>7, <2>2, Zenon
  <2> QED
    BY <2>1, <2>3
<1>10. ASSUME NEW x \in Range(FlattenSeq(s)) PROVE UnitOK(x, e, first)
  <2>1. PICK n \in DOMAIN s : x \in Range(s[n])
    BY <1>7, Zenon
  <2> QED
    BY <1>2, <1>3, <2>1, Zenon
<1> QED
  BY <1>4, <1>6, <1>8, <1>9, <1>10, Zenon DEF id

\* A byte of the character that x is a unit of, the first if it has two.
OfUnit(b, x, e, first) == b \in Range(Utf8(x.of, KindOf(x, e, first))) /\ x.i <= 1

LEMMA UnitFacts ==
  ASSUME NEW e \in Seq(Kinds), NEW first \in Nat \ {0}, NEW x, UnitOK(x, e, first)
  PROVE  /\ x.of \in Nat \ {0} /\ x.of >= first /\ x.i \in 0..2 /\ KindOf(x, e, first) \in Kinds
         /\ Utf8(x.of, KindOf(x, e, first)) \in Seq(Data)
         /\ Range(Utf8(x.of, KindOf(x, e, first))) \subseteq Data \ {Garbage}
         /\ \A b \in Range(Utf8(x.of, KindOf(x, e, first))) : b.of = x.of
<1>1. x \in UnitSet /\ x.of - first + 1 \in DOMAIN e
  BY DEF UnitOK
<1>2. x.of \in Nat /\ x.i \in 0..2
  BY <1>1, UnitIs, Zenon
<1>3. KindOf(x, e, first) \in Kinds
  BY <1>1 DEF KindOf
<1>4. x.of - first + 1 \in 1..Len(e)
  BY <1>1
<1>5. x.of \in Nat \ {0} /\ x.of >= first
  BY <1>2, <1>4
<1> QED
  BY <1>2, <1>3, <1>5, Utf8Is, Zenon

\* Of units that follow each other the bytes do.
LEMMA UnitsApart ==
  ASSUME NEW e \in Seq(Kinds), NEW first \in Nat \ {0},
         NEW x, NEW y, UnitOK(x, e, first), UnitOK(y, e, first), Before(x, y),
         NEW a, NEW b, OfUnit(a, x, e, first), OfUnit(b, y, e, first)
  PROVE  Before(a, b)
<1>1. x.of \in Nat /\ y.of \in Nat /\ a.of = x.of /\ b.of = y.of
  <2>1. x.of \in Nat \ {0} /\ \A c \in Range(Utf8(x.of, KindOf(x, e, first))) : c.of = x.of
    BY UnitFacts, Zenon
  <2>2. y.of \in Nat \ {0} /\ \A c \in Range(Utf8(y.of, KindOf(y, e, first))) : c.of = y.of
    BY UnitFacts, Zenon
  <2> QED
    BY <2>1, <2>2, Zenon DEF OfUnit
<1>2. x.of < y.of
  <2> SUFFICES ASSUME x.of = y.of, x.i < y.i PROVE FALSE
    BY DEF Before
  <2>1. x.i <= 1 /\ y.i <= 1 /\ x.i \in 0..2 /\ y.i \in 0..2
    BY UnitFacts, Zenon DEF OfUnit
  <2>2. x.i = 0 /\ y.i = 1
    BY <2>1
  <2>3. KindOf(x, e, first) = KindOf(y, e, first)
    BY Zenon DEF KindOf
  <2>4. 0 \notin {1, 2} /\ 1 # 0
    OBVIOUS
  <2> QED
    BY <2>2, <2>3, <2>4, Zenon DEF UnitOK
<1> QED
  BY <1>1, <1>2 DEF Before

\* Units in order.
Pieces(u, e, first) ==
  /\ u \in Seq(UnitSet) /\ Sorted(u)
  /\ \A n \in DOMAIN u : UnitOK(u[n], e, first)

LEMMA PiecesInOrder ==
  ASSUME NEW e, NEW first, NEW u, Pieces(u, e, first),
         NEW p \in DOMAIN u, NEW q \in DOMAIN u, p < q
  PROVE  Before(u[p], u[q])
<1>1. u[p] # Garbage /\ u[q] # Garbage
  BY UnitIs, Zenon DEF Pieces, UnitOK
<1> QED
  BY <1>1, Zenon DEF Pieces, Sorted

\* Two units of a character are the halves of a pair.
LEMMA Halves ==
  ASSUME NEW e, NEW first, NEW u, Pieces(u, e, first),
         NEW p \in DOMAIN u, NEW q \in DOMAIN u, p < q, u[p].of = u[q].of
  PROVE  KindOf(u[p], e, first) = "pair" /\ u[p].i = 1 /\ u[q].i = 2
<1>1. UnitOK(u[p], e, first) /\ UnitOK(u[q], e, first) /\ Before(u[p], u[q])
  BY PiecesInOrder DEF Pieces
<1>2. KindOf(u[p], e, first) = KindOf(u[q], e, first)
  BY Zenon DEF KindOf
<1>3. u[p].of \in Nat /\ u[p].i \in 0..2 /\ u[q].i \in 0..2
  BY <1>1, UnitIs, Zenon DEF UnitOK
<1>4. u[p].i < u[q].i
  BY <1>1, <1>3 DEF Before
<1>5. KindOf(u[p], e, first) = "pair"
  <2>1. u[p].i = 0 /\ u[q].i = 0 => FALSE
    BY <1>4
  <2> QED
    BY <1>1, <1>2, <2>1, Zenon DEF UnitOK
<1>6. u[p].i \in {1, 2} /\ u[q].i \in {1, 2}
  BY <1>1, <1>2, <1>5, Zenon DEF UnitOK
<1>7. u[p].i = 1 /\ u[q].i = 2
  BY <1>4, <1>6
<1> QED
  BY <1>5, <1>7, Zenon

\* What a unit becomes: the bytes of its character, or nothing when the unit before it
\* has become them, or a replacement.
EncodedSound(E, u, n, e, first) ==
  /\ E \in Seq(Data) /\ Sorted(E)
  /\ \A b \in Range(E) : b = Garbage \/ OfUnit(b, u[n], e, first)
  /\ KindOf(u[n], e, first) \notin {"wide", "pair"} => Len(E) <= 1
  /\ n = 1 => E # << >>
  /\ \/ E = Utf8(u[n].of, KindOf(u[n], e, first))
     \/ Garbage \in Range(E)
     \/ /\ n - 1 \in DOMAIN u
        /\ Encoded(u, e, first, n - 1) = Utf8(u[n].of, KindOf(u[n], e, first))

LEMMA EncodedIs ==
  ASSUME NEW e \in Seq(Kinds), NEW first \in Nat \ {0}, NEW u, Pieces(u, e, first),
         NEW n \in DOMAIN u
  PROVE  EncodedSound(Encoded(u, e, first, n), u, n, e, first)
<1> DEFINE x == u[n]
           kind == KindOf(x, e, first)
           W == Utf8(x.of, kind)
           E == Encoded(u, e, first, n)
           whole(k) == {k, k + 1} \subseteq DOMAIN u /\ u[k].of = u[k + 1].of
<1>1. UnitOK(x, e, first)
  BY Zenon DEF Pieces
<1>2. /\ W \in Seq(Data) /\ W # << >> /\ Sorted(W)
      /\ Range(W) \subseteq Data \ {Garbage}
      /\ kind \notin {"wide", "pair"} => Len(W) = 1
  <2>1. x.of \in Nat \ {0} /\ kind \in Kinds
    BY <1>1, UnitFacts, Zenon
  <2> QED
    BY <2>1, Utf8Is, Zenon
<1>3. n \in Nat /\ DOMAIN u = 1..Len(u) /\ Len(u) \in Nat
  BY DEF Pieces
<1>4. E = IF kind # "pair" \/ whole(n) THEN W
          ELSE IF whole(n - 1) THEN << >> ELSE <<Garbage, Garbage, Garbage>>
  BY Zenon DEF Encoded, KindOf
<1> SUFFICES EncodedSound(E, u, n, e, first)
  OBVIOUS
<1>5. CASE kind # "pair" \/ whole(n)
  <2>1. E = W
    BY <1>4, <1>5, Zenon
  <2>2. x.i <= 1
    <3>1. CASE kind # "pair"
      <4>1. x.i = 0
        BY <1>1, <3>1, Zenon DEF UnitOK
      <4> QED
        BY <4>1
    <3>2. CASE whole(n)
      <4>1. n \in DOMAIN u /\ n + 1 \in DOMAIN u /\ n < n + 1 /\ u[n].of = u[n + 1].of
        BY <1>3, <3>2
      <4>2. x.i = 1
        BY <4>1, Halves
      <4> QED
        BY <4>2
    <3> QED
      BY <1>5, <3>1, <3>2, Zenon
  <2>3. kind \notin {"wide", "pair"} => Len(W) <= 1
    BY <1>2
  <2> HIDE DEF E, whole
  <2> QED
    BY <1>2, <2>1, <2>2, <2>3, Zenon DEF EncodedSound, OfUnit
<1>6. CASE kind = "pair" /\ ~whole(n) /\ whole(n - 1)
  <2>1. E = << >>
    BY <1>4, <1>6, Zenon
  <2>2. n - 1 \in DOMAIN u /\ (n - 1) + 1 = n /\ u[n - 1].of = x.of /\ n # 1
    BY <1>3, <1>6
  <2>3. Encoded(u, e, first, n - 1) = W
    <3>1. KindOf(u[n - 1], e, first) = kind
      BY <2>2, Zenon DEF KindOf
    <3>2. {n - 1, (n - 1) + 1} \subseteq DOMAIN u /\ u[n - 1].of = u[(n - 1) + 1].of
      BY <1>6, Zenon
    <3> QED
      BY <2>2, <3>1, <3>2, Zenon DEF Encoded, KindOf
  <2>4. << >> \in Seq(Data) /\ Range(<< >>) = {}
    BY DEF Range
  <2> HIDE DEF E, whole
  <2> QED
    BY <1>6, <2>1, <2>2, <2>3, <2>4, SortedEmpty, Zenon DEF EncodedSound
<1>7. CASE kind = "pair" /\ ~whole(n) /\ ~whole(n - 1)
  <2> DEFINE g == <<Garbage, Garbage, Garbage>>
  <2>1. E = g
    BY <1>4, <1>7, Zenon
  <2>2. g \in Seq(Data) /\ Range(g) = {Garbage} /\ g # << >>
    BY DataIs DEF Range
  <2>3. Sorted(g)
    <3>1. \A j \in DOMAIN g : g[j] = Garbage
      OBVIOUS
    <3> QED
      BY <3>1, Zenon DEF Sorted
  <2> HIDE DEF E, whole, g
  <2> QED
    BY <1>7, <2>1, <2>2, <2>3, Zenon DEF EncodedSound
<1> QED
  BY <1>5, <1>6, <1>7, Zenon

\* What units in order become together.
Plain(e) == \A n \in DOMAIN e : e[n] \notin {"wide", "pair"}
FrameSound(f, u, e, first) ==
  /\ f \in Seq(Data) /\ Sorted(f)
  /\ u # << >> => f # << >>
  /\ \A b \in Range(f) : b = Garbage \/ \E n \in DOMAIN u : OfUnit(b, u[n], e, first)
  /\ Plain(e) => Len(f) <= Len(u)
  /\ Garbage \notin Range(f) =>
       \A n \in DOMAIN u : Range(Utf8(u[n].of, KindOf(u[n], e, first))) \subseteq Range(f)

LEMMA BytesAre ==
  ASSUME NEW e \in Seq(Kinds), NEW first \in Nat \ {0}, NEW u, Pieces(u, e, first)
  PROVE  FrameSound(Bytes(u, e, first), u, e, first)
<1> DEFINE s == [n \in DOMAIN u |-> Encoded(u, e, first, n)]
           f == FlattenSeq(s)
<1>1. \A n \in DOMAIN u : EncodedSound(Encoded(u, e, first, n), u, n, e, first)
  BY EncodedIs
<1>2. DOMAIN u = 1..Len(u) /\ Len(u) \in Nat /\ u \in Seq(UnitSet)
  BY DEF Pieces
<1>3. /\ s \in Seq(Seq(Data)) /\ DOMAIN s = DOMAIN u /\ Len(s) = Len(u)
      /\ \A n \in DOMAIN u : s[n] = Encoded(u, e, first, n)
  <2>1. \A n \in DOMAIN u : Encoded(u, e, first, n) \in Seq(Data)
    BY <1>1, Zenon DEF EncodedSound
  <2>2. s \in [1..Len(u) -> Seq(Data)]
    BY <1>2, <2>1
  <2> QED
    BY <1>2, <2>2
<1>4. Bytes(u, e, first) = f
  BY Zenon DEF Bytes
<1> HIDE DEF s
<1>5. f \in Seq(Data) /\ Range(f) = UNION {Range(s[k]) : k \in DOMAIN s}
  BY <1>3, FlatTyped, FlatRange
<1>6. Sorted(f)
  <2>1. \A k \in DOMAIN s : Sorted(s[k])
    BY <1>1, <1>3, Zenon DEF EncodedSound
  <2>2. ASSUME NEW j \in DOMAIN s, NEW k \in DOMAIN s, j < k PROVE Follows(s[j], s[k])
    <3> SUFFICES ASSUME NEW a \in Range(s[j]), NEW b \in Range(s[k]), a # Garbage, b # Garbage
                 PROVE  Before(a, b)
      BY Zenon DEF Follows, Apart
    <3>1. OfUnit(a, u[j], e, first) /\ OfUnit(b, u[k], e, first)
      BY <1>1, <1>3, Zenon DEF EncodedSound
    <3>2. UnitOK(u[j], e, first) /\ UnitOK(u[k], e, first)
      BY <1>3, Zenon DEF Pieces
    <3>3. Before(u[j], u[k])
      BY <1>3, <2>2, PiecesInOrder
    <3> QED
      BY <3>1, <3>2, <3>3, UnitsApart
  <2> QED
    BY <1>3, <2>1, <2>2, SortedFlat
<1>7. u # << >> => f # << >>
  <2> SUFFICES ASSUME u # << >> PROVE f # << >>
    OBVIOUS
  <2>1. 1 \in DOMAIN u
    BY <1>2
  <2>2. s[1] \in Seq(Data) /\ s[1] # << >>
    BY <1>1, <1>3, <2>1, Zenon DEF EncodedSound
  <2>3. s[1][1] \in Range(s[1])
    BY <2>2 DEF Range
  <2>4. Range(f) # {}
    BY <1>3, <1>5, <2>1, <2>3, Zenon
  <2>5. Range(<< >>) = {}
    BY DEF Range
  <2> HIDE DEF f
  <2> QED
    BY <2>4, <2>5, Zenon
<1>8. \A b \in Range(f) : b = Garbage \/ \E n \in DOMAIN u : OfUnit(b, u[n], e, first)
  <2> SUFFICES ASSUME NEW b \in Range(f), b # Garbage
               PROVE  \E n \in DOMAIN u : OfUnit(b, u[n], e, first)
    BY Zenon
  <2>1. PICK k \in DOMAIN s : b \in Range(s[k])
    BY <1>5, Zenon
  <2> QED
    BY <1>1, <1>3, <2>1, Zenon DEF EncodedSound
<1>9. ASSUME Plain(e) PROVE Len(f) <= Len(u)
  <2>1. ASSUME NEW k \in DOMAIN s PROVE Len(s[k]) <= 1
    <3>1. UnitOK(u[k], e, first)
      BY <1>3, Zenon DEF Pieces
    <3>2. KindOf(u[k], e, first) \notin {"wide", "pair"}
      BY <1>9, <3>1, Zenon DEF Plain, UnitOK, KindOf
    <3> QED
      BY <1>1, <1>3, <3>2, Zenon DEF EncodedSound
  <2> QED
    BY <1>3, <2>1, FlatShort
<1>10. ASSUME Garbage \notin Range(f), NEW n \in DOMAIN u
       PROVE  Range(Utf8(u[n].of, KindOf(u[n], e, first))) \subseteq Range(f)
  <2>1. EncodedSound(s[n], u, n, e, first) /\ Range(s[n]) \subseteq Range(f)
    BY <1>1, <1>3, <1>5, Zenon
  <2>2. CASE s[n] = Utf8(u[n].of, KindOf(u[n], e, first))
    BY <2>1, <2>2, Zenon
  <2>3. CASE n - 1 \in DOMAIN u
             /\ Encoded(u, e, first, n - 1) = Utf8(u[n].of, KindOf(u[n], e, first))
    <3>1. Range(s[n - 1]) \subseteq Range(f)
      BY <1>3, <1>5, <2>3, Zenon
    <3> QED
      BY <1>3, <2>3, <3>1, Zenon
  <2> QED
    BY <1>10, <2>1, <2>2, <2>3, Zenon DEF EncodedSound
<1> HIDE DEF f
<1> QED
  BY <1>4, <1>5, <1>6, <1>7, <1>8, <1>9, <1>10, Zenon DEF FrameSound

(***************************************************************************)
(* Slices                                                                  *)
(***************************************************************************)
LEMMA TimesGrows ==
  ASSUME NEW a \in Nat, NEW b \in Nat, NEW c \in Nat, a <= b
  PROVE  a * c <= b * c
<1>1. b * c = a * c + (b - a) * c
  OBVIOUS
<1>2. (b - a) * c \in Nat
  OBVIOUS
<1>3. a * c \in Nat
  OBVIOUS
<1> QED
  BY <1>1, <1>2, <1>3

LEMMA RoundedUp ==
  ASSUME NEW n \in Nat, NEW d \in Nat \ {0}
  PROVE  /\ (n + d - 1) \div d \in Nat
         /\ n <= ((n + d - 1) \div d) * d
         /\ ((n + d - 1) \div d) * d < n + d
<1> DEFINE m == n + d - 1
           q == m \div d
           r == m % d
<1>1. m \in Nat
  OBVIOUS
<1> HIDE DEF m
<1>2. q \in Nat /\ r \in Nat /\ r < d /\ m = d * q + r
  BY <1>1
<1> HIDE DEF q, r
<1>3. d * q = q * d /\ q * d \in Nat
  BY <1>2
<1>4. n <= q * d /\ q * d < n + d
  <2> DEFINE y == q * d
  <2>1. m = y + r /\ y \in Nat
    BY <1>2, <1>3
  <2> HIDE DEF y
  <2>2. n <= y /\ y < n + d
    BY <1>2, <2>1 DEF m
  <2> QED
    BY <2>2 DEF y
<1> QED
  BY <1>2, <1>4 DEF m, q

\* The units before slice k, and what the slices are of the whole.
Lo(k) == (k - 1) * buffer_max
SlicesSound(sl, u) ==
  /\ \A k \in DOMAIN sl :
       /\ sl[k] # << >> /\ Len(sl[k]) <= buffer_max
       /\ \A p \in DOMAIN sl[k] : Lo(k) + p \in DOMAIN u /\ sl[k][p] = u[Lo(k) + p]
  /\ \A j, k \in DOMAIN sl : \A p \in DOMAIN sl[j], q \in DOMAIN sl[k] :
       j < k => Lo(j) + p < Lo(k) + q
  /\ \A n \in DOMAIN u : \E k \in DOMAIN sl : \E p \in DOMAIN sl[k] : n = Lo(k) + p

LEMMA LimitsAreNumbers ==
  /\ buffer_max \in Nat \ {0} /\ ShortMax \in Nat /\ BufferSize \in Nat /\ InRoom \in Nat
  /\ OutRoom \in Nat /\ MaxEvents \in Nat /\ MaxResizes \in Nat
  /\ buffer_max + 8 <= BufferSize /\ ShortMax + 8 <= BufferSize /\ ShortMax >= 5
BY InputAssumption

LEMMA SlicesAre ==
  ASSUME NEW S, NEW u \in Seq(S)
  PROVE  Slices(u) \in Seq(Seq(S)) /\ SlicesSound(Slices(u), u)
<1> DEFINE L == Len(u)
           N == (L + buffer_max - 1) \div buffer_max
           hi(k) == IF k * buffer_max < L THEN k * buffer_max ELSE L
           sl == Slices(u)
<1>1. buffer_max \in Nat \ {0} /\ L \in Nat /\ DOMAIN u = 1..L
  BY LimitsAreNumbers
<1>2. N \in Nat /\ L <= N * buffer_max /\ N * buffer_max < L + buffer_max
  BY <1>1, RoundedUp
<1>3. sl = [k \in 1..N |-> SubSeq(u, Lo(k) + 1, hi(k))]
  BY Zenon DEF Slices, Lo
<1> HIDE DEF N, L
<1>4. ASSUME NEW k \in 1..N
      PROVE  /\ Lo(k) \in Nat /\ k * buffer_max \in Nat /\ Lo(k) + buffer_max = k * buffer_max
             /\ Lo(k) < L /\ hi(k) \in Nat /\ hi(k) <= L /\ hi(k) <= k * buffer_max
             /\ Lo(k) < hi(k)
  <2>1. k \in Nat /\ k - 1 \in Nat /\ k <= N /\ k - 1 <= N
    BY <1>2
  <2>2. Lo(k) + buffer_max = k * buffer_max /\ Lo(k) \in Nat /\ k * buffer_max \in Nat
    BY <1>1, <2>1 DEF Lo
  <2>3. k * buffer_max <= N * buffer_max /\ N * buffer_max \in Nat
    BY <1>1, <1>2, <2>1, TimesGrows
  <2>4. Lo(k) < L
    BY <1>1, <1>2, <2>2, <2>3
  <2> QED
    BY <1>1, <2>2, <2>4
<1>5. ASSUME NEW k \in 1..N
      PROVE  /\ sl[k] \in Seq(S) /\ Len(sl[k]) = hi(k) - Lo(k)
             /\ DOMAIN sl[k] = 1..(hi(k) - Lo(k))
             /\ \A p \in 1..(hi(k) - Lo(k)) : sl[k][p] = u[Lo(k) + p] /\ Lo(k) + p \in 1..L
  <2> DEFINE a == Lo(k)
             b == hi(k)
  <2>1. a \in Nat /\ b \in Nat /\ a < b /\ b <= L
    BY <1>4
  <2>2. sl[k] = SubSeq(u, a + 1, b)
    BY <1>3, Zenon
  <2> HIDE DEF a, b, sl
  <2>3. /\ SubSeq(u, a + 1, b) \in Seq(S) /\ Len(SubSeq(u, a + 1, b)) = b - a
        /\ \A p \in 1..(b - a) : SubSeq(u, a + 1, b)[p] = u[a + p]
    BY <1>1, <2>1 DEF L
  <2>4. \A p \in 1..(b - a) : a + p \in 1..L
    BY <1>1, <2>1
  <2>5. DOMAIN sl[k] = 1..(b - a)
    BY <2>2, <2>3
  <2>6. /\ sl[k] \in Seq(S) /\ Len(sl[k]) = b - a /\ DOMAIN sl[k] = 1..(b - a)
        /\ \A p \in 1..(b - a) : sl[k][p] = u[a + p] /\ a + p \in 1..L
    BY <2>2, <2>3, <2>4, <2>5, Zenon
  <2> QED
    BY <2>6, Zenon DEF a, b
<1>6. sl \in Seq(Seq(S)) /\ DOMAIN sl = 1..N
  <2>1. DOMAIN sl = 1..N
    BY <1>3, Zenon
  <2>2. sl \in [1..N -> Seq(S)]
    <3>1. sl = [k \in 1..N |-> sl[k]]
      BY <1>3, Zenon
    <3> HIDE DEF sl
    <3> QED
      BY <1>5, <3>1
  <2> HIDE DEF sl
  <2> QED
    BY <1>2, <2>1, <2>2
<1> HIDE DEF sl
<1>7. ASSUME NEW k \in 1..N PROVE sl[k] # << >> /\ Len(sl[k]) <= buffer_max
  <2>1. Len(sl[k]) # 0 /\ Len(sl[k]) <= buffer_max
    <3> HIDE DEF hi
    <3> QED
      BY <1>1, <1>4, <1>5
  <2> QED
    BY <2>1
<1>8. ASSUME NEW j \in 1..N, NEW k \in 1..N, j < k,
             NEW p \in DOMAIN sl[j], NEW q \in DOMAIN sl[k]
      PROVE  Lo(j) + p < Lo(k) + q
  <2>1. j \in Nat /\ k - 1 \in Nat /\ j <= k - 1
    BY <1>2, <1>8
  <2>2. j * buffer_max <= Lo(k)
    BY <1>1, <2>1, TimesGrows DEF Lo
  <2> HIDE DEF hi
  <2>3. p \in 1..(hi(j) - Lo(j)) /\ q \in 1..(hi(k) - Lo(k))
    BY <1>5
  <2>4. /\ Lo(j) \in Nat /\ Lo(k) \in Nat /\ hi(j) \in Nat /\ hi(k) \in Nat
        /\ hi(j) <= j * buffer_max /\ j * buffer_max \in Nat
    BY <1>4
  <2> QED
    BY <2>2, <2>3, <2>4
<1>9. ASSUME NEW n \in 1..L PROVE \E k \in 1..N : \E p \in DOMAIN sl[k] : n = Lo(k) + p
  <2> DEFINE T == {k \in Nat : n <= k * buffer_max}
             k == Min(T)
  <2>1. N \in T
    BY <1>1, <1>2
  <2>2. k \in T /\ \A m \in T : k <= m
    BY <2>1, MinIsMember
  <2>3. k \in Nat /\ n <= k * buffer_max /\ k <= N
    BY <2>1, <2>2
  <2>4. k # 0
    <3> HIDE DEF k
    <3> QED
      BY <1>1, <2>3
  <2>5. k \in 1..N /\ k - 1 \in Nat /\ ~(k <= k - 1)
    <3> HIDE DEF k
    <3> QED
      BY <1>2, <2>3, <2>4
  <2>6. k - 1 \notin T
    BY <2>2, <2>5, Zenon
  <2>7. Lo(k) < n
    <3> HIDE DEF k
    <3>1. ~(n <= (k - 1) * buffer_max) /\ (k - 1) * buffer_max \in Nat
      BY <1>1, <2>5, <2>6
    <3> QED
      BY <3>1 DEF Lo
  <2> HIDE DEF k, T
  <2>8. n <= hi(k)
    BY <2>3
  <2>9. n - Lo(k) \in DOMAIN sl[k]
    <3>1. DOMAIN sl[k] = 1..(hi(k) - Lo(k)) /\ Lo(k) \in Nat /\ hi(k) \in Nat
      BY <1>4, <1>5, <2>5
    <3> HIDE DEF hi
    <3> QED
      BY <2>7, <2>8, <3>1
  <2>10. n = Lo(k) + (n - Lo(k))
    BY <1>4, <2>5
  <2> QED
    BY <2>5, <2>9, <2>10, Zenon
<1>10. \A k \in 1..N : \A p \in DOMAIN sl[k] : Lo(k) + p \in 1..L /\ sl[k][p] = u[Lo(k) + p]
  <2> HIDE DEF hi
  <2> QED
    BY <1>5, Zenon
<1>11. SlicesSound(sl, u)
  <2>1. \A k \in DOMAIN sl :
          /\ sl[k] # << >> /\ Len(sl[k]) <= buffer_max
          /\ \A p \in DOMAIN sl[k] : Lo(k) + p \in DOMAIN u /\ sl[k][p] = u[Lo(k) + p]
    BY <1>1, <1>6, <1>7, <1>10, Zenon
  <2>2. \A j, k \in DOMAIN sl : \A p \in DOMAIN sl[j], q \in DOMAIN sl[k] :
          j < k => Lo(j) + p < Lo(k) + q
    BY <1>6, <1>8, Zenon
  <2>3. \A n \in DOMAIN u : \E k \in DOMAIN sl : \E p \in DOMAIN sl[k] : n = Lo(k) + p
    BY <1>1, <1>6, <1>9, Zenon
  <2> QED
    BY <2>1, <2>2, <2>3, Zenon DEF SlicesSound
<1> QED
  BY <1>6, <1>11 DEF sl

(***************************************************************************)
(* What sendLarge makes of what is typed                                   *)
(***************************************************************************)
FramesOf(e, first) ==
  LET slices == Slices(Units(e, first)) IN [k \in DOMAIN slices |-> Bytes(slices[k], e, first)]

FramesSound(fs, e, first) ==
  /\ fs \in Seq(Seq(Data))
  /\ \A k \in DOMAIN fs :
       /\ fs[k] # << >> /\ Sorted(fs[k])
       /\ Plain(e) => Len(fs[k]) <= buffer_max
       /\ \A b \in Range(fs[k]) :
            b = Garbage \/ \E n \in DOMAIN e : b \in Range(Utf8(first + n - 1, e[n]))
  /\ \A j, k \in DOMAIN fs : j < k => Follows(fs[j], fs[k])
  /\ (\A k \in DOMAIN fs : Garbage \notin Range(fs[k])) =>
       \A n \in DOMAIN e : \A b \in Range(Utf8(first + n - 1, e[n])) :
         \E k \in DOMAIN fs : b \in Range(fs[k])

LEMMA FramesAre ==
  ASSUME NEW e \in Seq(Kinds), NEW first \in Nat \ {0}
  PROVE  FramesSound(FramesOf(e, first), e, first)
<1> DEFINE u == Units(e, first)
           sl == Slices(u)
           fs == FramesOf(e, first)
<1>1. /\ u \in Seq(UnitSet) /\ Sorted(u) /\ \A x \in Range(u) : UnitOK(x, e, first)
      /\ \A n \in DOMAIN e : \E x \in Range(u) : x.of = first + n - 1
  BY UnitsAre
<1>2. Pieces(u, e, first)
  <2>1. \A n \in DOMAIN u : u[n] \in Range(u)
    BY Zenon DEF Range
  <2> QED
    BY <1>1, <2>1, Zenon DEF Pieces
<1>3. sl \in Seq(Seq(UnitSet)) /\ SlicesSound(sl, u)
  BY <1>1, SlicesAre
<1> HIDE DEF u, sl
<1>4. fs = [k \in DOMAIN sl |-> Bytes(sl[k], e, first)]
  BY Zenon DEF FramesOf, sl, u
<1>5. ASSUME NEW k \in DOMAIN sl PROVE Pieces(sl[k], e, first)
  <2>1. sl[k] \in Seq(UnitSet) /\ DOMAIN sl[k] = 1..Len(sl[k])
    BY <1>3
  <2>2. \A p \in DOMAIN sl[k] : Lo(k) + p \in DOMAIN u /\ sl[k][p] = u[Lo(k) + p]
    BY <1>3, Zenon DEF SlicesSound
  <2>3. \A p \in DOMAIN sl[k] : UnitOK(sl[k][p], e, first)
    BY <1>2, <2>2, Zenon DEF Pieces
  <2>4. ASSUME NEW p \in DOMAIN sl[k], NEW q \in DOMAIN sl[k], p < q
        PROVE  Before(sl[k][p], sl[k][q])
    <3>1. Lo(k) + p < Lo(k) + q
      <4>1. DOMAIN u = 1..Len(u) /\ Len(u) \in Nat
        BY <1>1
      <4>2. buffer_max \in Nat /\ DOMAIN sl \subseteq Nat
        BY <1>3, LimitsAreNumbers
      <4>3. Lo(k) \in Int
        BY <4>2 DEF Lo
      <4>4. p \in Int /\ q \in Int
        BY <2>1
      <4> QED
        BY <2>4, <4>3, <4>4
    <3>2. Before(u[Lo(k) + p], u[Lo(k) + q])
      BY <1>2, <2>2, <3>1, PiecesInOrder
    <3> QED
      BY <2>2, <3>2, Zenon
  <2>5. Sorted(sl[k])
    BY <2>4, Zenon DEF Sorted
  <2> QED
    BY <2>1, <2>3, <2>5, Zenon DEF Pieces
<1>6. ASSUME NEW k \in DOMAIN sl PROVE FrameSound(fs[k], sl[k], e, first)
  <2>1. fs[k] = Bytes(sl[k], e, first)
    BY <1>4, Zenon
  <2> QED
    BY <1>5, <2>1, BytesAre
<1>7. fs \in Seq(Seq(Data)) /\ DOMAIN fs = DOMAIN sl
  <2>1. DOMAIN sl = 1..Len(sl) /\ Len(sl) \in Nat
    BY <1>3
  <2>2. DOMAIN fs = DOMAIN sl
    BY <1>4, Zenon
  <2>3. fs \in [1..Len(sl) -> Seq(Data)]
    <3>1. \A k \in DOMAIN sl : fs[k] \in Seq(Data)
      BY <1>6, Zenon DEF FrameSound
    <3>2. fs = [k \in DOMAIN sl |-> fs[k]]
      BY <1>4, Zenon
    <3> HIDE DEF fs
    <3> QED
      BY <2>1, <3>1, <3>2
  <2> HIDE DEF fs
  <2> QED
    BY <2>1, <2>2, <2>3
<1> HIDE DEF fs
<1>8. ASSUME NEW k \in DOMAIN sl, NEW n \in DOMAIN sl[k]
      PROVE  \E m \in DOMAIN e : /\ sl[k][n].of = first + m - 1
                                 /\ KindOf(sl[k][n], e, first) = e[m]
  <2> DEFINE x == sl[k][n]
             m == x.of - first + 1
  <2>1. UnitOK(x, e, first)
    BY <1>5, Zenon DEF Pieces
  <2>2. x.of \in Nat
    BY <2>1, UnitIs, Zenon DEF UnitOK
  <2>3. x.of = first + m - 1
    <3> HIDE DEF x
    <3> QED
      BY <2>2
  <2> QED
    BY <2>1, <2>3, Zenon DEF UnitOK, KindOf
<1>9. ASSUME NEW k \in DOMAIN sl
      PROVE  /\ fs[k] # << >> /\ Sorted(fs[k])
             /\ Plain(e) => Len(fs[k]) <= buffer_max
             /\ \A b \in Range(fs[k]) :
                  b = Garbage \/ \E n \in DOMAIN e : b \in Range(Utf8(first + n - 1, e[n]))
  <2>1. FrameSound(fs[k], sl[k], e, first)
    BY <1>6
  <2>2. sl[k] # << >> /\ Len(sl[k]) <= buffer_max
    BY <1>3, Zenon DEF SlicesSound
  <2>3. Plain(e) => Len(fs[k]) <= buffer_max
    <3>1. Len(fs[k]) \in Nat /\ Len(sl[k]) \in Nat /\ buffer_max \in Nat
      BY <1>3, <1>7, LimitsAreNumbers
    <3>2. Plain(e) => Len(fs[k]) <= Len(sl[k])
      BY <2>1, Zenon DEF FrameSound
    <3> QED
      BY <2>2, <3>1, <3>2
  <2>4. ASSUME NEW b \in Range(fs[k]), b # Garbage
        PROVE  \E n \in DOMAIN e : b \in Range(Utf8(first + n - 1, e[n]))
    <3>1. PICK n \in DOMAIN sl[k] : OfUnit(b, sl[k][n], e, first)
      BY <2>1, <2>4, Zenon DEF FrameSound
    <3>2. PICK m \in DOMAIN e : /\ sl[k][n].of = first + m - 1
                                /\ KindOf(sl[k][n], e, first) = e[m]
      BY <1>8
    <3>3. b \in Range(Utf8(first + m - 1, e[m]))
      BY <3>1, <3>2, Zenon DEF OfUnit
    <3> QED
      BY <3>3
  <2> QED
    BY <2>1, <2>2, <2>3, <2>4, Zenon DEF FrameSound
<1>10. ASSUME NEW j \in DOMAIN sl, NEW k \in DOMAIN sl, j < k PROVE Follows(fs[j], fs[k])
  <2> SUFFICES ASSUME NEW a \in Range(fs[j]), NEW b \in Range(fs[k]), a # Garbage, b # Garbage
               PROVE  Before(a, b)
    BY Zenon DEF Follows, Apart
  <2>1. PICK p \in DOMAIN sl[j] : OfUnit(a, sl[j][p], e, first)
    BY <1>6, Zenon DEF FrameSound
  <2>2. PICK q \in DOMAIN sl[k] : OfUnit(b, sl[k][q], e, first)
    BY <1>6, Zenon DEF FrameSound
  <2>3. /\ Lo(j) + p \in DOMAIN u /\ Lo(k) + q \in DOMAIN u /\ Lo(j) + p < Lo(k) + q
        /\ sl[j][p] = u[Lo(j) + p] /\ sl[k][q] = u[Lo(k) + q]
    BY <1>3, <1>10, Zenon DEF SlicesSound
  <2>4. Before(sl[j][p], sl[k][q])
    BY <1>2, <2>3, PiecesInOrder
  <2>5. UnitOK(sl[j][p], e, first) /\ UnitOK(sl[k][q], e, first)
    BY <1>5, Zenon DEF Pieces
  <2> QED
    BY <2>1, <2>2, <2>4, <2>5, UnitsApart
<1>11. ASSUME \A k \in DOMAIN fs : Garbage \notin Range(fs[k]),
              NEW m \in DOMAIN e, NEW b \in Range(Utf8(first + m - 1, e[m]))
       PROVE  \E k \in DOMAIN fs : b \in Range(fs[k])
  <2>1. PICK x \in Range(u) : x.of = first + m - 1
    BY <1>1
  <2>2. PICK n \in DOMAIN u : x = u[n]
    BY Zenon DEF Range
  <2>3. PICK k \in DOMAIN sl : \E p \in DOMAIN sl[k] : n = Lo(k) + p
    BY <1>3, Zenon DEF SlicesSound
  <2>4. PICK p \in DOMAIN sl[k] : n = Lo(k) + p
    BY <2>3
  <2>5. sl[k][p] = x
    BY <1>3, <2>2, <2>4, Zenon DEF SlicesSound
  <2>6. KindOf(x, e, first) = e[m]
    <3>1. x.of - first + 1 = m
      <4>1. m \in Int /\ first \in Int
        OBVIOUS
      <4> QED
        BY <2>1, <4>1
    <3> QED
      BY <3>1, Zenon DEF KindOf
  <2>7. Range(Utf8(x.of, KindOf(x, e, first))) \subseteq Range(fs[k])
    BY <1>6, <1>7, <1>11, <2>5, Zenon DEF FrameSound
  <2> QED
    BY <1>7, <2>1, <2>6, <2>7, Zenon
<1>12. FramesSound(fs, e, first)
  BY <1>7, <1>9, <1>10, <1>11, Zenon DEF FramesSound
<1> QED
  BY <1>12 DEF fs

(***************************************************************************)
(* What the server makes of a frame                                        *)
(***************************************************************************)
OnWire == [of : Int, i : 0..13, by : 0..4]

LEMMA MaskIs ==
  Mask \in Seq(OnWire) /\ Len(Mask) = 4 /\ \A k \in 1..4 : Mask[k] = Byte(0, 10 + k - 1)
<1>1. \A k \in 1..4 : Byte(0, 10 + k - 1) \in OnWire
  BY DEF Byte, OnWire
<1> QED
  BY <1>1 DEF Mask

LEMMA MaskedByte ==
  ASSUME NEW x \in Data, NEW r \in 0..4
  PROVE  [x EXCEPT !.by = r] \in OnWire
<1>1. [x EXCEPT !.by = r] = [of |-> x.of, i |-> x.i, by |-> r]
  BY DEF Data
<1>2. x.of \in Int /\ x.i \in 0..9
  BY DEF Data
<1>3. x.i \in 0..13
  BY <1>2
<1> QED
  BY <1>1, <1>2, <1>3, Zenon DEF OnWire

LEMMA MaskedIs ==
  ASSUME NEW p \in Seq(Data)
  PROVE  /\ Masked(p) \in Seq(OnWire) /\ Len(Masked(p)) = Len(p)
         /\ \A n \in 1..Len(p) : Masked(p)[n] = [p[n] EXCEPT !.by = (n - 1) % 4]
<1>1. DOMAIN p = 1..Len(p) /\ Len(p) \in Nat
  OBVIOUS
<1>2. \A n \in 1..Len(p) : p[n] \in Data /\ (n - 1) % 4 \in 0..4
  OBVIOUS
<1>3. \A n \in 1..Len(p) : [p[n] EXCEPT !.by = (n - 1) % 4] \in OnWire
  BY <1>2, MaskedByte, Zenon
<1> QED
  BY <1>1, <1>3 DEF Masked

LEMMA ThreeParts ==
  ASSUME NEW S, NEW s \in Seq(S), NEW m \in Seq(S), NEW t \in Seq(S)
  PROVE  /\ \A k \in 1..Len(m) : ((s \o m) \o t)[Len(s) + k] = m[k]
         /\ \A n \in 1..Len(t) : ((s \o m) \o t)[Len(s) + Len(m) + n] = t[n]
<1> DEFINE d == s \o m
           i == Len(s)
           j == Len(m)
<1>1. d \in Seq(S) /\ Len(d) = i + j /\ i \in Nat /\ j \in Nat
  OBVIOUS
<1>2. \A k \in 1..j : d[i + k] = m[k] /\ i + k \in 1..i + j
  OBVIOUS
<1> HIDE DEF d
<1>3. /\ \A k \in 1..i + j : (d \o t)[k] = d[k]
      /\ \A n \in 1..Len(t) : (d \o t)[i + j + n] = t[n]
  BY <1>1
<1> QED
  BY <1>2, <1>3, Zenon DEF d

\* Where the mask and the payload are on the wire.
LEMMA WireIs ==
  ASSUME NEW p \in Seq(Data), NEW h \in Nat, h = IF Len(p) > ShortMax THEN 4 ELSE 2
  PROVE  /\ \A k \in 1..4 : Wire(p)[h + k] = Byte(0, 10 + k - 1)
         /\ \A n \in 1..Len(p) : Wire(p)[h + 4 + n] = [p[n] EXCEPT !.by = (n - 1) % 4]
<1> DEFINE a == <<Garbage, Garbage>>
           b == IF Len(p) > ShortMax THEN <<Garbage, Garbage>> ELSE <<>>
           c == a \o b
           M == Masked(p)
<1>1. Garbage \in OnWire
  BY DEF Garbage, Byte, OnWire
<1>2. c \in Seq(OnWire) /\ Len(c) = h
  BY <1>1
<1>3. Wire(p) = (c \o Mask) \o M
  BY Zenon DEF Wire
<1>4. M \in Seq(OnWire) /\ Len(M) = Len(p)
      /\ \A n \in 1..Len(p) : M[n] = [p[n] EXCEPT !.by = (n - 1) % 4]
  BY MaskedIs, Zenon
<1> HIDE DEF c, M
<1>5. /\ \A k \in 1..4 : Wire(p)[h + k] = Mask[k]
      /\ \A n \in 1..Len(p) : Wire(p)[h + 4 + n] = M[n]
  <2> DEFINE m == Mask
  <2>1. m \in Seq(OnWire) /\ Len(m) = 4
    BY MaskIs
  <2> HIDE DEF m
  <2>2. /\ \A k \in 1..4 : ((c \o m) \o M)[h + k] = m[k]
        /\ \A n \in 1..Len(M) : ((c \o m) \o M)[h + 4 + n] = M[n]
    <3>1. /\ \A k \in 1..Len(m) : ((c \o m) \o M)[Len(c) + k] = m[k]
          /\ \A n \in 1..Len(M) : ((c \o m) \o M)[Len(c) + Len(m) + n] = M[n]
      <4>1. c \in Seq(OnWire) /\ m \in Seq(OnWire) /\ M \in Seq(OnWire)
        BY <1>2, <1>4, <2>1
      <4> QED
        BY <4>1, ThreeParts
    <3>2. Len(c) = h /\ Len(m) = 4
      BY <1>2, <2>1
    <3> QED
      BY <3>1, <3>2, Zenon
  <2> QED
    BY <1>3, <1>4, <2>2, Zenon DEF m
<1> QED
  BY <1>4, <1>5, MaskIs, Zenon

\* A frame that the buffer holds is received as it was sent.
LEMMA DecodedIs ==
  ASSUME NEW p \in Seq(Data), ~TooLong(p)
  PROVE  Decoded(p) = p
<1> DEFINE L == Len(p)
           W == Wire(p)
           R == Received(p)
           h == IF L > ShortMax THEN 4 ELSE 2
<1>1. L \in Nat /\ DOMAIN p = 1..L /\ ShortMax \in Nat /\ BufferSize \in Nat /\ h \in Nat
      /\ ShortMax + 8 <= BufferSize
  BY LimitsAreNumbers
<1>2. /\ \A k \in 1..4 : W[h + k] = Byte(0, 10 + k - 1)
      /\ \A n \in 1..L : W[h + 4 + n] = [p[n] EXCEPT !.by = (n - 1) % 4]
  BY <1>1, WireIs
<1>3. L + h + 4 <= BufferSize
  BY <1>1 DEF TooLong, Offset, Short
<1>4. ASSUME NEW n \in 1..L, NEW r \in 0..3
      PROVE  R[n + 3] = W[h + 4 + n] /\ R[r] = W[h + (r + 1)]
  <2> DEFINE v == Precv(p)
             last == v + L + Offset(p) - 1
  <2>1. /\ n + 3 \in 0..BufferSize - 1 /\ r \in 0..BufferSize - 1
    BY <1>1, <1>3
  <2>2. \A at \in 0..BufferSize - 1 :
          R[at] = IF at \in v..last THEN W[at - v + 7]
                  ELSE IF at < 4 /\ at < v THEN Moved(p, at) ELSE Garbage
    BY Zenon DEF Received
  <2> HIDE DEF R, W
  <2>3. CASE L <= ShortMax
    <3>1. v = 4 /\ Offset(p) = 0 /\ h = 2 /\ last = L + 3
      BY <1>1, <2>3 DEF Precv, Offset, Short
    <3>2. Moved(p, r) = W[r + 3]
      BY <2>3, Zenon DEF Moved, Short, W
    <3> HIDE DEF v, last, h
    <3>3. n + 3 \in v..last /\ (n + 3) - v + 7 = h + 4 + n
      BY <1>1, <3>1
    <3>4. ~(r \in v..last) /\ r < 4 /\ r < v /\ r + 3 = h + (r + 1)
      BY <1>1, <3>1
    <3>5. R[n + 3] = W[h + 4 + n]
      BY <2>1, <2>2, <3>3, Zenon
    <3>6. R[r] = W[h + (r + 1)]
      BY <2>1, <2>2, <3>2, <3>4, Zenon
    <3> QED
      BY <3>5, <3>6
  <2>4. CASE L > ShortMax
    <3>1. v = 2 /\ Offset(p) = 2 /\ h = 4 /\ last = L + 3
      BY <1>1, <2>4 DEF Precv, Offset, Short
    <3>2. Moved(p, r) = W[r + 5]
      <4>1. ~(L <= ShortMax)
        BY <1>1, <2>4
      <4> QED
        BY <4>1, Zenon DEF Moved, Short, W
    <3> HIDE DEF v, last, h
    <3>3. n + 3 \in v..last /\ (n + 3) - v + 7 = h + 4 + n
      BY <1>1, <3>1
    <3>4. R[n + 3] = W[h + 4 + n]
      BY <2>1, <2>2, <3>3, Zenon
    <3>5. CASE r >= 2
      <4>1. r \in v..last /\ r - v + 7 = h + (r + 1)
        BY <1>1, <3>1, <3>5
      <4> QED
        BY <2>1, <2>2, <3>4, <4>1, Zenon
    <3>6. CASE r < 2
      <4>1. ~(r \in v..last) /\ r < 4 /\ r < v /\ r + 5 = h + (r + 1)
        BY <1>1, <3>1, <3>6
      <4> QED
        BY <2>1, <2>2, <3>2, <3>4, <4>1, Zenon
    <3> QED
      BY <3>5, <3>6
  <2> QED
    BY <1>1, <2>3, <2>4
<1>5. ASSUME NEW n \in 1..L PROVE Unmask(R[n + 3], R[(n - 1) % 4]) = p[n]
  <2> DEFINE r == (n - 1) % 4
             b == [p[n] EXCEPT !.by = r]
  <2>1. r \in 0..3 /\ r + 1 \in 1..4 /\ 10 + (r + 1) - 1 = 10 + r
    OBVIOUS
  <2>2. R[n + 3] = b
    BY <1>2, <1>4, <2>1, Zenon
  <2>3. R[r] = Byte(0, 10 + r)
    <3> HIDE DEF r, R, W, h
    <3> QED
      BY <1>2, <1>4, <2>1
  <2>4. b.by = r /\ [b EXCEPT !.by = 4] = p[n]
    <3>1. p[n] \in Data
      OBVIOUS
    <3> HIDE DEF r
    <3> QED
      BY <3>1 DEF Data
  <2> HIDE DEF R, b
  <2> QED
    BY <2>2, <2>3, <2>4, Zenon DEF Unmask, r
<1>6. Decoded(p) = [n \in 1..L |-> Unmask(R[n + 3], R[(n - 1) % 4])]
  BY <1>1, Zenon DEF Decoded
<1>7. Decoded(p) = [n \in 1..L |-> p[n]]
  <2> HIDE DEF R, L
  <2> QED
    BY <1>5, <1>6, Zenon
<1> QED
  BY <1>1, <1>7

(***************************************************************************)
(* The inductive invariant                                                 *)
(***************************************************************************)
\* The bytes of characters, and what may arrive of them.
MeantOf(chars) == UNION {Range(Utf8(n, chars[n])) : n \in DOMAIN chars}
Known(chars) == MeantOf(chars) \cup {Garbage}

\* A frame is a size the window has had, or bytes of characters.
FrameSet(chars, n) ==
  {f \in Seq(Data) : /\ f # << >>
                     /\ \/ \E k \in 1..n : f = Resize(k)
                        \/ /\ Range(f) \subseteq Known(chars)
                           /\ Plain(chars) => Len(f) <= buffer_max}

\* All that was typed is there, and nothing that replaces it.
AllThere(way, chars) == MeantOf(chars) \subseteq Range(way) /\ Garbage \notin Range(way)

WayInv(way, chars, lost) ==
  /\ way \in Seq(Data) /\ Range(way) \subseteq Known(chars)
  /\ Sorted(way)
  /\ lost = {} => AllThere(way, chars)

Reached == got \o tty \o rest

ServerInv ==
  /\ srv = "ss_ws_read_data" => wire # << >> /\ ~TooLong(Head(wire))
  /\ srv = "closed" => wire = << >> /\ out = << >> /\ "refused" \in hole
  /\ "refused" \in hole => ~Plain(Chars)

\* Together with the types these are inductive: what the frames are and what a frame
\* may do to the buffer; that the bytes are those of characters, in order; and that
\* none is missing as long as nothing was lost.
IInv ==
  /\ TypeOK
  /\ got \in Seq(Data) /\ tty \in Seq(Data) /\ rest \in Seq(Data)
  /\ wire \in Seq(FrameSet(Chars, sizes)) /\ out \in Seq(FrameSet(Chars, sizes))
  /\ ServerInv
  /\ WayInv(OnTheirWay, Chars, hole)

(***************************************************************************)
(* Facts of its parts                                                      *)
(***************************************************************************)
LEMMA MeantOfIs ==
  ASSUME NEW chars \in Seq(Kinds)
  PROVE  /\ MeantOf(chars) \subseteq Data \ {Garbage}
         /\ \A b \in MeantOf(chars) : b.of \in 1..Len(chars)
<1> SUFFICES ASSUME NEW n \in DOMAIN chars, NEW b \in Range(Utf8(n, chars[n]))
             PROVE  b \in Data \ {Garbage} /\ b.of \in 1..Len(chars)
  BY Zenon DEF MeantOf
<1>1. n \in Nat \ {0} /\ n \in 1..Len(chars) /\ chars[n] \in Kinds
  OBVIOUS
<1> QED
  BY <1>1, Utf8Is, Zenon

LEMMA KnownIs ==
  ASSUME NEW chars \in Seq(Kinds)
  PROVE  /\ Known(chars) \subseteq Data
         /\ \A b \in Known(chars) : b.of \in 0..Len(chars)
<1>1. Len(chars) \in Nat
  OBVIOUS
<1>2. 1..Len(chars) \subseteq 0..Len(chars) /\ 0 \in 0..Len(chars)
  BY <1>1
<1> QED
  BY <1>2, MeantOfIs, DataIs, Zenon DEF Known

\* What more characters add.
Added(e, first) == UNION {Range(Utf8(first + n - 1, e[n])) : n \in DOMAIN e}

LEMMA MeantOfGrows ==
  ASSUME NEW chars \in Seq(Kinds), NEW e \in Seq(Kinds)
  PROVE  MeantOf(chars \o e) = MeantOf(chars) \cup Added(e, Len(chars) + 1)
<1> DEFINE c == chars \o e
           L == Len(chars)
<1>1. /\ L \in Nat /\ DOMAIN chars = 1..L /\ DOMAIN e = 1..Len(e) /\ Len(e) \in Nat
      /\ DOMAIN c = 1..L + Len(e)
      /\ \A n \in 1..L : c[n] = chars[n]
      /\ \A n \in 1..Len(e) : c[L + n] = e[n]
  OBVIOUS
<1> HIDE DEF c, L
<1>2. ASSUME NEW b \in MeantOf(c) PROVE b \in MeantOf(chars) \cup Added(e, L + 1)
  <2>1. PICK n \in DOMAIN c : b \in Range(Utf8(n, c[n]))
    BY Zenon DEF MeantOf
  <2>2. CASE n \in 1..L
    <3>1. b \in Range(Utf8(n, chars[n])) /\ n \in DOMAIN chars
      BY <1>1, <2>1, <2>2, Zenon
    <3> QED
      BY <3>1, Zenon DEF MeantOf
  <2>3. CASE n \notin 1..L
    <3> DEFINE m == n - L
    <3>1. m \in 1..Len(e) /\ L + 1 + m - 1 = n /\ L + m = n
      BY <1>1, <2>3
    <3> HIDE DEF m
    <3>2. m \in DOMAIN e /\ b \in Range(Utf8(L + 1 + m - 1, e[m]))
      BY <1>1, <2>1, <3>1, Zenon
    <3> QED
      BY <3>2, Zenon DEF Added
  <2> QED
    BY <2>2, <2>3
<1>3. ASSUME NEW b \in MeantOf(chars) PROVE b \in MeantOf(c)
  <2>1. PICK n \in DOMAIN chars : b \in Range(Utf8(n, chars[n]))
    BY Zenon DEF MeantOf
  <2>2. n \in DOMAIN c /\ c[n] = chars[n]
    BY <1>1
  <2> QED
    BY <2>1, <2>2, Zenon DEF MeantOf
<1>4. ASSUME NEW b \in Added(e, L + 1) PROVE b \in MeantOf(c)
  <2>1. PICK m \in DOMAIN e : b \in Range(Utf8(L + 1 + m - 1, e[m]))
    BY Zenon DEF Added
  <2>2. L + m \in DOMAIN c /\ c[L + m] = e[m]
    BY <1>1
  <2>3. L + 1 + m - 1 = L + m
    <3>1. L \in Int /\ m \in Int
      BY <1>1
    <3> QED
      BY <3>1
  <2> QED
    BY <2>1, <2>2, <2>3, Zenon DEF MeantOf
<1> QED
  BY <1>2, <1>3, <1>4, Zenon DEF c, L

LEMMA AddedIs ==
  ASSUME NEW e \in Seq(Kinds), NEW first \in Nat \ {0}
  PROVE  /\ Added(e, first) \subseteq Data \ {Garbage}
         /\ \A b \in Added(e, first) : b.of \in Nat /\ b.of >= first
<1> SUFFICES ASSUME NEW n \in DOMAIN e, NEW b \in Range(Utf8(first + n - 1, e[n]))
             PROVE  b \in Data \ {Garbage} /\ b.of \in Nat /\ b.of >= first
  BY Zenon DEF Added
<1> DEFINE id == first + n - 1
<1>1. id \in Nat \ {0} /\ id >= first /\ e[n] \in Kinds
  OBVIOUS
<1> HIDE DEF id
<1>2. b \in Data \ {Garbage} /\ b.of = id
  BY <1>1, Utf8Is, Zenon DEF id
<1> QED
  BY <1>1, <1>2

\* What should arrive, as one sequence.
LEMMA MeantIs ==
  ASSUME Chars \in Seq(Kinds)
  PROVE  /\ Meant \in Seq(Data \ {Garbage}) /\ Sorted(Meant)
         /\ Range(Meant) = MeantOf(Chars)
<1> DEFINE c == Chars
           s == [n \in DOMAIN c |-> Utf8(n, c[n])]
           S == Data \ {Garbage}
<1>1. c \in Seq(Kinds) /\ Meant = FlattenSeq(s)
  BY Zenon DEF Meant
<1> HIDE DEF c
<1>2. /\ DOMAIN c = 1..Len(c) /\ Len(c) \in Nat
      /\ \A n \in 1..Len(c) : n \in Nat \ {0} /\ c[n] \in Kinds
  BY <1>1
<1>3. ASSUME NEW n \in 1..Len(c)
      PROVE  /\ Utf8(n, c[n]) \in Seq(S) /\ Sorted(Utf8(n, c[n]))
             /\ \A b \in Range(Utf8(n, c[n])) : b.of = n
  <2> DEFINE w == Utf8(n, c[n])
  <2>1. w \in Seq(Data) /\ Range(w) \subseteq S /\ Sorted(w) /\ \A b \in Range(w) : b.of = n
    BY <1>2, Utf8Is, Zenon
  <2> HIDE DEF w
  <2>2. w \in Seq(S)
    <3> HIDE DEF S
    <3> QED
      BY <2>1 DEF Range
  <2> QED
    BY <2>1, <2>2 DEF w
<1> HIDE DEF S
<1>4. s \in Seq(Seq(S)) /\ DOMAIN s = 1..Len(c) /\ \A n \in 1..Len(c) : s[n] = Utf8(n, c[n])
  BY <1>2, <1>3
<1> HIDE DEF s
<1>5. \A j, k \in DOMAIN s : j < k => Follows(s[j], s[k])
  <2> SUFFICES ASSUME NEW j \in DOMAIN s, NEW k \in DOMAIN s, j < k,
                      NEW a \in Range(s[j]), NEW b \in Range(s[k])
               PROVE  Before(a, b)
    BY Zenon DEF Follows, Apart
  <2>1. a.of = j /\ b.of = k
    BY <1>3, <1>4, Zenon
  <2> QED
    BY <2>1, Zenon DEF Before
<1>6. \A k \in DOMAIN s : Sorted(s[k])
  BY <1>3, <1>4, Zenon
<1>7. Sorted(FlattenSeq(s))
  BY <1>4, <1>5, <1>6, SortedFlat, Zenon
<1>8. FlattenSeq(s) \in Seq(S) /\ Range(FlattenSeq(s)) = UNION {Range(s[k]) : k \in DOMAIN s}
  BY <1>4, FlatTyped, FlatRange, Zenon
<1>9. \A b : b \in Range(FlattenSeq(s)) <=> b \in MeantOf(c)
  BY <1>2, <1>4, <1>8, Zenon DEF MeantOf
<1> QED
  BY <1>1, <1>7, <1>8, <1>9, Zenon DEF S, c

LEMMA RangeOfBoth ==
  \A a, b \in Seq(Data) : Range(a \o b) = Range(a) \cup Range(b)
BY RangeConcatenation

LEMMA Regrouped ==
  \A a, b, c \in Seq(Data) : a \o (b \o c) = (a \o b) \o c
OBVIOUS

LEMMA SeqGrows ==
  ASSUME NEW A, NEW B, A \subseteq B, NEW s \in Seq(A)
  PROVE  s \in Seq(B)
OBVIOUS

LEMMA CharsAre ==
  ASSUME NEW t \in Seq(Events)
  PROVE  /\ FlattenSeq(t) \in Seq(Kinds)
         /\ \A e \in Events : e \in Seq(Kinds) /\ FlattenSeq(Append(t, e)) = FlattenSeq(t) \o e
<1>1. Events \subseteq Seq(Kinds)
  BY InputAssumption, Zenon
<1>2. t \in Seq(Seq(Kinds))
  BY <1>1, SeqGrows, Zenon
<1> QED
  BY <1>1, <1>2, FlatTyped, FlatAppend, Zenon

LEMMA ConcatIs ==
  ASSUME NEW S, NEW a \in Seq(S), NEW b \in Seq(S), NEW c \in Seq(S),
         Len(c) = Len(a) + Len(b),
         \A k \in 1..Len(a) : c[k] = a[k],
         \A k \in 1..Len(b) : c[Len(a) + k] = b[k]
  PROVE  c = a \o b
<1> DEFINE d == a \o b
<1>1. /\ d \in Seq(S) /\ Len(d) = Len(a) + Len(b) /\ Len(a) \in Nat /\ Len(b) \in Nat
      /\ \A k \in 1..Len(a) : d[k] = a[k]
      /\ \A k \in 1..Len(b) : d[Len(a) + k] = b[k]
  OBVIOUS
<1> HIDE DEF d
<1>2. ASSUME NEW k \in 1..Len(c) PROVE c[k] = d[k]
  <2>1. CASE k \in 1..Len(a)
    BY <1>1, <2>1
  <2>2. CASE k \notin 1..Len(a)
    <3> DEFINE m == k - Len(a)
    <3>1. m \in 1..Len(b) /\ Len(a) + m = k
      BY <1>1, <2>2
    <3> QED
      BY <1>1, <3>1
  <2> QED
    BY <2>1, <2>2
<1> QED
  BY <1>1, <1>2 DEF d

\* What a frame brings of the user's.
Part(f) == IF IsInput(f) THEN f ELSE << >>

LEMMA InputOfIs ==
  ASSUME NEW s \in Seq(Seq(Data))
  PROVE  /\ InputOf(s) \in Seq(Data)
         /\ \A f \in Seq(Data) : InputOf(<<f>>) = Part(f)
         /\ \A t \in Seq(Seq(Data)) : InputOf(s \o t) = InputOf(s) \o InputOf(t)
<1> DEFINE P(u) == [k \in DOMAIN u |-> Part(u[k])]
<1>1. \A u : InputOf(u) = FlattenSeq(P(u))
  BY Zenon DEF InputOf, Part
<1>2. \A f \in Seq(Data) : Part(f) \in Seq(Data)
  <2> SUFFICES ASSUME NEW f \in Seq(Data) PROVE Part(f) \in Seq(Data)
    OBVIOUS
  <2>1. << >> \in Seq(Data)
    OBVIOUS
  <2> QED
    BY <2>1, Zenon DEF Part
<1>3. ASSUME NEW u \in Seq(Seq(Data))
      PROVE  /\ P(u) \in Seq(Seq(Data)) /\ DOMAIN P(u) = 1..Len(u) /\ Len(P(u)) = Len(u)
             /\ \A k \in 1..Len(u) : P(u)[k] = Part(u[k])
  <2>1. DOMAIN u = 1..Len(u) /\ Len(u) \in Nat
    OBVIOUS
  <2>2. \A k \in 1..Len(u) : Part(u[k]) \in Seq(Data)
    BY <1>2
  <2>3. P(u) = [k \in 1..Len(u) |-> Part(u[k])]
    BY <2>1, Zenon
  <2> QED
    BY <2>1, <2>2, <2>3
<1> HIDE DEF P
<1>4. ASSUME NEW f \in Seq(Data) PROVE InputOf(<<f>>) = Part(f)
  <2>1. <<f>> \in Seq(Seq(Data)) /\ Len(<<f>>) = 1 /\ <<f>>[1] = f
    OBVIOUS
  <2> DEFINE u == <<f>>
  <2> HIDE DEF u
  <2>2. u \in Seq(Seq(Data)) /\ Len(u) = 1 /\ u[1] = f /\ 1 \in 1..1
    BY <2>1 DEF u
  <2>3. P(u) \in Seq(Seq(Data)) /\ Len(P(u)) = 1 /\ P(u)[1] = Part(f)
    BY <1>3, <2>2, Zenon
  <2>4. P(u) = <<Part(f)>>
    BY <2>3
  <2> QED
    BY <1>1, <1>2, <2>4, FlatOne, Zenon DEF u
<1>5. ASSUME NEW t \in Seq(Seq(Data)) PROVE P(s \o t) = P(s) \o P(t)
  <2> DEFINE u == s \o t
  <2>1. /\ u \in Seq(Seq(Data)) /\ Len(u) = Len(s) + Len(t)
        /\ Len(s) \in Nat /\ Len(t) \in Nat
        /\ \A k \in 1..Len(s) : u[k] = s[k]
        /\ \A k \in 1..Len(t) : u[Len(s) + k] = t[k]
    OBVIOUS
  <2> HIDE DEF u
  <2> DEFINE A == P(s)
             B == P(t)
             C == P(u)
  <2>2. /\ A \in Seq(Seq(Data)) /\ Len(A) = Len(s) /\ \A k \in 1..Len(s) : A[k] = Part(s[k])
        /\ B \in Seq(Seq(Data)) /\ Len(B) = Len(t) /\ \A k \in 1..Len(t) : B[k] = Part(t[k])
        /\ C \in Seq(Seq(Data)) /\ Len(C) = Len(u) /\ \A k \in 1..Len(u) : C[k] = Part(u[k])
    BY <1>3, <2>1, Zenon
  <2> HIDE DEF A, B, C
  <2>3. \A k \in 1..Len(s) : C[k] = A[k]
    <3>1. \A k \in 1..Len(s) : k \in 1..Len(u)
      BY <2>1
    <3> QED
      BY <2>1, <2>2, <3>1, Zenon
  <2>4. \A k \in 1..Len(t) : C[Len(s) + k] = B[k]
    <3>1. \A k \in 1..Len(t) : Len(s) + k \in 1..Len(u)
      BY <2>1
    <3> QED
      BY <2>1, <2>2, <3>1, Zenon
  <2>5. C = A \o B
    <3>1. /\ Len(C) = Len(A) + Len(B)
          /\ \A k \in 1..Len(A) : C[k] = A[k]
          /\ \A k \in 1..Len(B) : C[Len(A) + k] = B[k]
      BY <2>1, <2>2, <2>3, <2>4, Zenon
    <3>2. A \in Seq(Seq(Data)) /\ B \in Seq(Seq(Data)) /\ C \in Seq(Seq(Data))
      BY <2>2
    <3> QED
      BY <3>1, <3>2, ConcatIs, Zenon
  <2> QED
    BY <2>5 DEF A, B, C, u
<1> QED
  BY <1>1, <1>3, <1>4, <1>5, FlatTyped, FlatConcat, Zenon

LEMMA NothingIn == InputOf(<< >>) = << >>
<1> DEFINE s == [k \in DOMAIN << >> |-> IF IsInput(<< >>[k]) THEN << >>[k] ELSE << >>]
<1>1. DOMAIN << >> = {} /\ \A z : z \notin 1..0
  OBVIOUS
<1>2. s \in [1..0 -> {}]
  <2>1. 1..0 = {}
    OBVIOUS
  <2> QED
    BY <1>1, <2>1, Zenon
<1>3. s = << >>
  BY <1>2
<1> QED
  BY <1>3, FlatEmpty, Zenon DEF InputOf

\* A size is told from what was typed by its sign.
LEMMA ResizeIs ==
  ASSUME NEW n \in Nat \ {0}
  PROVE  /\ Resize(n) \in Seq(Data) /\ Len(Resize(n)) = 5
         /\ Resize(n)[1].of = -n /\ Resize(n)[2].of = -n /\ Resize(n)[1].i = 0
<1>1. \A i \in 1..5 : Byte(-n, i - 1) \in Data
  <2>1. \A i \in 1..5 : i - 1 \in 0..9 /\ -n \in Int
    OBVIOUS
  <2> QED
    BY <2>1, DataIs, Zenon
<1>2. Resize(n) \in Seq(Data) /\ Len(Resize(n)) = 5
  BY <1>1 DEF Resize
<1>3. Resize(n)[1] = Byte(-n, 0) /\ Resize(n)[2] = Byte(-n, 1)
  BY DEF Resize
<1>4. Byte(-n, 0).of = -n /\ Byte(-n, 1).of = -n /\ Byte(-n, 0).i = 0
  BY DEF Byte
<1> QED
  BY <1>2, <1>3, <1>4, Zenon

SizeFrame(f, n) ==
  /\ Part(f) = << >> /\ IsResize(f) /\ Len(f) = 5
  /\ f[2].of \in -n..-1
InputFrame(f, chars) ==
  /\ Part(f) = f /\ Range(f) \subseteq Known(chars)
  /\ Plain(chars) => Len(f) <= buffer_max
  /\ \A i \in DOMAIN f : f[i].of \in 0..Len(chars)

LEMMA FramesIn ==
  ASSUME NEW chars \in Seq(Kinds), NEW n \in Nat, NEW f \in FrameSet(chars, n)
  PROVE  f \in Seq(Data) /\ f # << >> /\ (SizeFrame(f, n) \/ InputFrame(f, chars))
<1>1. f \in Seq(Data) /\ f # << >> /\ 1 \in DOMAIN f
  <2>1. f \in Seq(Data) /\ f # << >>
    BY Zenon DEF FrameSet
  <2> QED
    BY <2>1
<1>2. CASE \E k \in 1..n : f = Resize(k)
  <2>1. PICK k \in 1..n : f = Resize(k)
    BY <1>2
  <2>2. k \in Nat \ {0} /\ k <= n
    OBVIOUS
  <2>3. Len(f) = 5 /\ f[1].of = -k /\ f[2].of = -k /\ f[1].i = 0
    BY <2>1, <2>2, ResizeIs, Zenon
  <2>4. Part(f) = << >>
    <3>1. ~IsInput(f)
      BY <2>2, <2>3 DEF IsInput
    <3> QED
      BY <3>1, Zenon DEF Part
  <2>5. IsResize(f)
    BY <2>3, Zenon DEF IsResize, IsNul
  <2>6. f[2].of \in -n..-1
    BY <2>2, <2>3
  <2> QED
    BY <1>1, <2>3, <2>4, <2>5, <2>6, Zenon DEF SizeFrame
<1>3. CASE Range(f) \subseteq Known(chars) /\ (Plain(chars) => Len(f) <= buffer_max)
  <2>1. \A i \in DOMAIN f : f[i].of \in 0..Len(chars)
    BY <1>3, KnownIs, Zenon DEF Range
  <2>2. Part(f) = f
    <3>1. f[1].of \in 0..Len(chars)
      BY <1>1, <2>1, Zenon
    <3>2. IsInput(f)
      BY <3>1 DEF IsInput
    <3> QED
      BY <3>2, Zenon DEF Part
  <2> QED
    BY <1>1, <1>3, <2>1, <2>2, Zenon DEF InputFrame
<1> QED
  BY <1>2, <1>3, Zenon DEF FrameSet

LEMMA FrameSetGrows ==
  ASSUME NEW chars \in Seq(Kinds), NEW e \in Seq(Kinds), NEW n \in Nat
  PROVE  /\ FrameSet(chars, n) \subseteq FrameSet(chars \o e, n)
         /\ FrameSet(chars, n) \subseteq FrameSet(chars, n + 1)
         /\ Known(chars) \subseteq Known(chars \o e)
         /\ Plain(chars \o e) => Plain(chars) /\ Plain(e)
<1>1. Known(chars) \subseteq Known(chars \o e)
  BY MeantOfGrows, Zenon DEF Known
<1>2. Plain(chars \o e) => Plain(chars) /\ Plain(e)
  <2> DEFINE c == chars \o e
             L == Len(chars)
  <2>1. /\ \A k \in DOMAIN chars : k \in DOMAIN c /\ c[k] = chars[k]
        /\ \A k \in DOMAIN e : L + k \in DOMAIN c /\ c[L + k] = e[k]
    OBVIOUS
  <2> HIDE DEF c
  <2> QED
    BY <2>1, Zenon DEF Plain, c
<1>3. 1..n \subseteq 1..n + 1
  OBVIOUS
<1> QED
  BY <1>1, <1>2, <1>3, Zenon DEF FrameSet

(***************************************************************************)
(* The steps                                                               *)
(***************************************************************************)
LEMMA TypesAre ==
  ASSUME IInv
  PROVE  /\ Chars \in Seq(Kinds) /\ sizes \in Nat /\ Len(Chars) \in Nat
         /\ FrameSet(Chars, sizes) \subseteq Seq(Data)
         /\ wire \in Seq(Seq(Data)) /\ out \in Seq(Seq(Data)) /\ Frames \in Seq(Seq(Data))
         /\ Reached \in Seq(Data) /\ InputOf(Frames) \in Seq(Data)
         /\ OnTheirWay = Reached \o InputOf(Frames)
<1>1. Chars \in Seq(Kinds)
  BY CharsAre, Zenon DEF IInv, TypeOK, Chars
<1>2. sizes \in Nat
  <2>1. sizes \in 0..MaxResizes /\ MaxResizes \in Nat
    BY LimitsAreNumbers, Zenon DEF IInv, TypeOK
  <2> QED
    BY <2>1
<1>3. FrameSet(Chars, sizes) \subseteq Seq(Data)
  BY Zenon DEF FrameSet
<1>4. wire \in Seq(Seq(Data)) /\ out \in Seq(Seq(Data))
  BY <1>3, SeqGrows, Zenon DEF IInv
<1>5. Frames \in Seq(Seq(Data))
  BY <1>4 DEF Frames
<1>6. Reached \in Seq(Data)
  <2>1. got \in Seq(Data) /\ tty \in Seq(Data) /\ rest \in Seq(Data)
    BY Zenon DEF IInv
  <2> QED
    BY <2>1 DEF Reached
<1>7. Len(Chars) \in Nat
  BY <1>1
<1> QED
  BY <1>1, <1>2, <1>3, <1>4, <1>5, <1>6, <1>7, InputOfIs, Zenon DEF OnTheirWay, Reached

\* What a step does that neither moves the user's bytes nor loses any.
Keeps == UNCHANGED <<typed, sizes, hole, wire, out, Reached>>

LEMMA KeepsWay ==
  ASSUME IInv, Keeps
  PROVE  WayInv(OnTheirWay, Chars, hole)' /\ wire' \in Seq(FrameSet(Chars, sizes)')
         /\ out' \in Seq(FrameSet(Chars, sizes)') /\ Chars' = Chars
<1>1. Chars' = Chars /\ Frames' = Frames /\ Reached' = Reached /\ hole' = hole
      /\ wire' = wire /\ out' = out /\ sizes' = sizes
  BY Zenon DEF Keeps, Chars, Frames
<1>2. OnTheirWay' = OnTheirWay
  <2>1. InputOf(Frames)' = InputOf(Frames)
    BY <1>1, Zenon DEF InputOf, IsInput
  <2> QED
    BY <1>1, <2>1, Zenon DEF OnTheirWay, Reached
<1>3. WayInv(OnTheirWay, Chars, hole)'
  BY <1>1, <1>2, Zenon DEF IInv
<1>4. FrameSet(Chars, sizes)' = FrameSet(Chars, sizes)
  BY <1>1, Zenon
<1> QED
  BY <1>1, <1>3, <1>4, Zenon DEF IInv

LEMMA OutputKeeps ==
  ASSUME IInv, Output
  PROVE  IInv'
<1>1. Keeps
  BY Zenon DEF Output, Keeps, Reached, input
<1>2. WayInv(OnTheirWay, Chars, hole)' /\ wire' \in Seq(FrameSet(Chars, sizes)')
      /\ out' \in Seq(FrameSet(Chars, sizes)') /\ Chars' = Chars
  BY <1>1, KeepsWay, Zenon
<1>3. TypeOK'
  <2>1. outq' \in 0..OutRoom
    BY LimitsAreNumbers DEF Output
  <2> QED
    BY <1>2, <2>1, Zenon DEF IInv, TypeOK, Output, input
<1>4. ServerInv'
  BY <1>2, Zenon DEF IInv, ServerInv, Output, input
<1> QED
  BY <1>2, <1>3, <1>4, Zenon DEF IInv, Output

LEMMA RelayKeeps ==
  ASSUME IInv, Relay
  PROVE  IInv'
<1>1. Keeps
  BY Zenon DEF Relay, Keeps, Reached, input
<1>2. WayInv(OnTheirWay, Chars, hole)' /\ wire' \in Seq(FrameSet(Chars, sizes)')
      /\ out' \in Seq(FrameSet(Chars, sizes)') /\ Chars' = Chars
  BY <1>1, KeepsWay, Zenon
<1>3. TypeOK'
  BY <1>2, Zenon DEF IInv, TypeOK, Relay, input
<1>4. ServerInv'
  BY <1>2, Zenon DEF IInv, ServerInv, Relay, input
<1> QED
  BY <1>2, <1>3, <1>4, Zenon DEF IInv, Relay

LEMMA ShellWritesKeeps ==
  ASSUME IInv, ShellWrites
  PROVE  IInv'
<1>1. Keeps
  BY Zenon DEF ShellWrites, Keeps, Reached, input
<1>2. WayInv(OnTheirWay, Chars, hole)' /\ wire' \in Seq(FrameSet(Chars, sizes)')
      /\ out' \in Seq(FrameSet(Chars, sizes)') /\ Chars' = Chars
  BY <1>1, KeepsWay, Zenon
<1>3. TypeOK'
  <2>1. outq \in 0..OutRoom /\ outq < OutRoom /\ outq' = outq + 1
    BY Zenon DEF IInv, TypeOK, ShellWrites
  <2>2. outq' \in 0..OutRoom
    BY <2>1, LimitsAreNumbers
  <2> QED
    BY <1>2, <2>2, Zenon DEF IInv, TypeOK, ShellWrites, input
<1>4. ServerInv'
  BY <1>2, Zenon DEF IInv, ServerInv, ShellWrites, input
<1> QED
  BY <1>2, <1>3, <1>4, Zenon DEF IInv, ShellWrites

LEMMA ShellReadsKeeps ==
  ASSUME IInv, ShellReads
  PROVE  IInv'
<1>1. got \in Seq(Data) /\ tty \in Seq(Data) /\ rest \in Seq(Data)
      /\ got' = got \o tty /\ tty' = << >> /\ rest' = rest
  BY Zenon DEF IInv, ShellReads
<1>2. /\ got' \in Seq(Data) /\ tty' \in Seq(Data) /\ rest' \in Seq(Data) /\ Len(tty') = 0
      /\ Reached' = Reached
  BY <1>1 DEF Reached
<1>3. Keeps
  BY <1>2, Zenon DEF ShellReads, Keeps, input
<1>4. WayInv(OnTheirWay, Chars, hole)' /\ wire' \in Seq(FrameSet(Chars, sizes)')
      /\ out' \in Seq(FrameSet(Chars, sizes)') /\ Chars' = Chars
  BY <1>3, KeepsWay, Zenon
<1>5. TypeOK'
  <2>1. Len(tty') <= InRoom
    BY <1>2, LimitsAreNumbers
  <2> QED
    BY <1>4, <2>1, Zenon DEF IInv, TypeOK, ShellReads, input, output
<1>6. ServerInv'
  BY <1>4, Zenon DEF IInv, ServerInv, ShellReads, input
<1> QED
  BY <1>2, <1>4, <1>5, <1>6, Zenon DEF IInv

LEMMA CutInTwo ==
  ASSUME NEW S, NEW s \in Seq(S), NEW n \in Nat, n <= Len(s)
  PROVE  s = SubSeq(s, 1, n) \o SubSeq(s, n + 1, Len(s))
<1>1. /\ SubSeq(s, 1, n) \in Seq(S) /\ Len(SubSeq(s, 1, n)) = n
      /\ \A k \in 1..n : SubSeq(s, 1, n)[k] = s[k]
  OBVIOUS
<1> DEFINE m == Len(s) - n
           b == SubSeq(s, n + 1, Len(s))
<1>2. /\ b \in Seq(S) /\ Len(b) = m /\ m \in Nat
      /\ \A k \in 1..m : b[k] = s[n + k]
  OBVIOUS
<1> DEFINE a == SubSeq(s, 1, n)
<1> HIDE DEF a, b
<1>3. a \in Seq(S) /\ Len(a) = n /\ \A k \in 1..n : s[k] = a[k]
  BY <1>1 DEF a
<1>4. \A k \in 1..m : s[n + k] = b[k]
  BY <1>2
<1>5. Len(s) = n + m
  OBVIOUS
<1> HIDE DEF m
<1>6. s = a \o b
  <2>1. /\ Len(s) = Len(a) + Len(b)
        /\ \A k \in 1..Len(a) : s[k] = a[k]
        /\ \A k \in 1..Len(b) : s[Len(a) + k] = b[k]
    BY <1>2, <1>3, <1>4, <1>5, Zenon
  <2> QED
    BY <1>2, <1>3, <2>1, ConcatIs, Zenon
<1> QED
  BY <1>6 DEF a, b

LEMMA WriteKeeps ==
  ASSUME IInv, Write
  PROVE  IInv'
<1> DEFINE n == Min({Len(rest), InRoom - Len(tty)})
<1>1. got \in Seq(Data) /\ tty \in Seq(Data) /\ rest \in Seq(Data)
      /\ Len(tty) < InRoom /\ got' = got /\ InRoom \in Nat
      /\ tty' = tty \o SubSeq(rest, 1, n) /\ rest' = SubSeq(rest, n + 1, Len(rest))
  BY LimitsAreNumbers, Zenon DEF IInv, Write
<1>2. n \in Nat /\ n <= Len(rest) /\ n <= InRoom - Len(tty)
  <2>1. {Len(rest), InRoom - Len(tty)} \subseteq Nat
    BY <1>1
  <2> DEFINE T == {Len(rest), InRoom - Len(tty)}
  <2>2. T \in SUBSET Nat /\ T # {} /\ Len(rest) \in T /\ InRoom - Len(tty) \in T
    BY <2>1
  <2> HIDE DEF T
  <2>3. Min(T) \in T /\ \A y \in T : Min(T) =< y
    BY <2>2, MinIsMember, Zenon
  <2>4. Min(T) \in Nat /\ Min(T) <= Len(rest) /\ Min(T) <= InRoom - Len(tty)
    BY <2>2, <2>3
  <2> QED
    BY <2>4 DEF T
<1> HIDE DEF n
<1> DEFINE a == SubSeq(rest, 1, n)
           b == SubSeq(rest, n + 1, Len(rest))
<1>3. a \in Seq(Data) /\ b \in Seq(Data) /\ Len(a) = n
  BY <1>1, <1>2
<1>4. rest = a \o b
  <2>1. rest \in Seq(Data) /\ n \in Nat /\ n <= Len(rest)
    BY <1>1, <1>2
  <2> QED
    BY <2>1, CutInTwo, Zenon DEF a, b
<1>5. tty' = tty \o a /\ rest' = b
  BY <1>1
<1> HIDE DEF a, b
<1>6. tty' \in Seq(Data) /\ rest' \in Seq(Data) /\ Len(tty') <= InRoom
  BY <1>1, <1>2, <1>3, <1>5
<1>7. (got \o (tty \o a)) \o b = (got \o tty) \o (a \o b)
  <2>1. got \in Seq(Data) /\ tty \in Seq(Data)
    BY <1>1
  <2> QED
    <3>1. got \o (tty \o a) = (got \o tty) \o a
      BY <1>3, <2>1
    <3> DEFINE e == got \o tty
    <3>2. e \in Seq(Data)
      BY <2>1
    <3> HIDE DEF e
    <3>3. (e \o a) \o b = e \o (a \o b)
      BY <1>3, <3>2
    <3> QED
      BY <3>1, <3>3 DEF e
<1>8. Reached' = Reached
  BY <1>1, <1>4, <1>5, <1>7, Zenon DEF Reached
<1>9. Keeps
  BY <1>8, Zenon DEF Write, Keeps, input
<1>10. WayInv(OnTheirWay, Chars, hole)' /\ wire' \in Seq(FrameSet(Chars, sizes)')
       /\ out' \in Seq(FrameSet(Chars, sizes)') /\ Chars' = Chars
  BY <1>9, KeepsWay, Zenon
<1>11. TypeOK'
  <2>1. srv' = IF rest' = << >> THEN "ss_ws_read6" ELSE "write"
    BY Zenon DEF Write
  <2>2. (srv' = "write" <=> rest' # << >>)
        /\ srv' \in {"ss_ws_read6", "ss_ws_read_data", "write", "closed"}
    BY <2>1, Zenon
  <2> QED
    BY <1>6, <1>10, <2>2, Zenon DEF IInv, TypeOK, Write, input, output
<1>12. ServerInv'
  <2>1. srv' # "ss_ws_read_data" /\ srv' # "closed"
    BY Zenon DEF Write
  <2> QED
    BY <1>10, <2>1, Zenon DEF IInv, ServerInv, Write, input
<1> QED
  BY <1>1, <1>6, <1>10, <1>11, <1>12, Zenon DEF IInv

LEMMA MovesWay ==
  ASSUME IInv, Reached' = Reached, hole' = hole, Chars' = Chars,
         InputOf(Frames)' = InputOf(Frames)
  PROVE  WayInv(OnTheirWay, Chars, hole)'
<1>1. OnTheirWay' = OnTheirWay
  BY Zenon DEF OnTheirWay, Reached
<1> QED
  BY <1>1, Zenon DEF IInv

LEMMA FlushKeeps ==
  ASSUME IInv, Flush
  PROVE  IInv'
<1> DEFINE F == FrameSet(Chars, sizes)
           f == Head(out)
           t == Tail(out)
<1>1. /\ wire \in Seq(F) /\ out \in Seq(F) /\ out # << >> /\ F \subseteq Seq(Data)
      /\ wire' = Append(wire, f) /\ out' = t
  BY TypesAre, Zenon DEF IInv, Flush
<1> HIDE DEF F
<1>2. f \in F /\ t \in Seq(F) /\ out = <<f>> \o t
  BY <1>1
<1> HIDE DEF f, t
<1>3. wire' \in Seq(F) /\ out' \in Seq(F)
  BY <1>1, <1>2
<1>4. Frames' = Frames
  <2>1. Append(wire, f) \o t = wire \o (<<f>> \o t)
    BY <1>1, <1>2
  <2> QED
    BY <1>1, <1>2, <2>1, Zenon DEF Frames
<1>5. Chars' = Chars /\ Reached' = Reached /\ hole' = hole /\ sizes' = sizes
  BY Zenon DEF Flush, Chars, Reached
<1>6. WayInv(OnTheirWay, Chars, hole)'
  BY <1>4, <1>5, MovesWay, Zenon
<1>7. F' = F
  BY <1>5, Zenon DEF F
<1>8. TypeOK'
  BY <1>5, Zenon DEF IInv, TypeOK, Flush, output
<1>9. ServerInv'
  <2>1. wire # << >> => Append(wire, f) # << >> /\ Head(Append(wire, f)) = Head(wire)
    <3>1. wire \in Seq(F) /\ f \in F
      BY <1>1, <1>2
    <3> QED
      BY <3>1
  <2> QED
    BY <1>1, <1>5, <2>1, Zenon DEF IInv, ServerInv, Flush
<1> QED
  BY <1>3, <1>6, <1>7, <1>8, <1>9, Zenon DEF IInv, Flush, F

LEMMA OnResizeKeeps ==
  ASSUME IInv, OnResize
  PROVE  IInv'
<1> DEFINE F == FrameSet(Chars, sizes)
           G == FrameSet(Chars, sizes')
           f == Resize(sizes')
<1>1. /\ wire \in Seq(F) /\ out \in Seq(F) /\ sizes \in Nat /\ Chars \in Seq(Kinds)
      /\ sizes' = sizes + 1 /\ wire' = wire
      /\ out' = IF srv = "closed" THEN out ELSE Append(out, f)
  BY TypesAre, Zenon DEF IInv, OnResize
<1>2. sizes' \in Nat \ {0} /\ sizes' \in 1..sizes'
  BY <1>1
<1>3. Chars' = Chars /\ Reached' = Reached /\ hole' = hole
  BY Zenon DEF OnResize, Chars, Reached
<1>4. F \subseteq G
  <2>1. << >> \in Seq(Kinds)
    OBVIOUS
  <2> QED
    BY <1>1, <2>1, FrameSetGrows, Zenon
<1>5. f \in Seq(Data) /\ Len(f) = 5
  BY <1>2, ResizeIs, Zenon
<1>6. f \in G
  <2>1. f # << >>
    BY <1>5
  <2> QED
    BY <1>2, <1>5, <2>1, Zenon DEF FrameSet
<1>7. Part(f) = << >>
  <2>1. ~(f[1].of >= 0)
    <3>1. f[1].of = -sizes'
      BY <1>2, ResizeIs, Zenon
    <3>2. \A k \in Nat \ {0} : ~(-k >= 0)
      OBVIOUS
    <3> QED
      BY <1>2, <3>1, <3>2, Zenon
  <2>2. ~IsInput(f)
    BY <2>1, Zenon DEF IsInput
  <2> QED
    BY <2>2, Zenon DEF Part
<1> HIDE DEF F, G, f
<1>8. wire' \in Seq(G) /\ out \in Seq(G)
  BY <1>1, <1>4, SeqGrows, Zenon
<1>9. out' \in Seq(G)
  <2>1. Append(out, f) \in Seq(G)
    BY <1>6, <1>8
  <2> QED
    BY <1>1, <1>8, <2>1, Zenon
<1>10. InputOf(Frames)' = InputOf(Frames)
  <2>1. wire \in Seq(Seq(Data)) /\ out \in Seq(Seq(Data))
        /\ Frames \in Seq(Seq(Data)) /\ InputOf(Frames) \in Seq(Data)
    BY TypesAre, Zenon
  <2>2. CASE srv = "closed"
    <3>1. out' = out
      BY <1>1, <2>2, Zenon
    <3> QED
      BY <1>1, <3>1, Zenon DEF Frames
  <2>3. CASE srv # "closed"
    <3>1. out' = Append(out, f)
      BY <1>1, <2>3, Zenon
    <3>2. <<f>> \in Seq(Seq(Data))
      BY <1>5
    <3>3. wire \o Append(out, f) = (wire \o out) \o <<f>>
      BY <1>5, <2>1
    <3>4. Frames' = Frames \o <<f>>
      BY <1>1, <3>1, <3>3, Zenon DEF Frames
    <3>5. InputOf(Frames \o <<f>>) = InputOf(Frames) \o << >>
      <4>1. InputOf(<<f>>) = << >>
        BY <1>5, <1>7, <2>1, InputOfIs, Zenon
      <4>2. InputOf(Frames \o <<f>>) = InputOf(Frames) \o InputOf(<<f>>)
        BY <2>1, <3>2, InputOfIs, Zenon
      <4> QED
        BY <4>1, <4>2, Zenon
    <3>6. InputOf(Frames) \o << >> = InputOf(Frames)
      BY <2>1
    <3> QED
      BY <3>4, <3>5, <3>6, Zenon
  <2> QED
    BY <2>2, <2>3
<1>11. WayInv(OnTheirWay, Chars, hole)'
  BY <1>3, <1>10, MovesWay, Zenon
<1>12. TypeOK'
  <2>1. sizes' \in 0..MaxResizes
    <3>1. sizes < MaxResizes
      BY Zenon DEF OnResize
    <3> QED
      BY <1>1, <3>1, LimitsAreNumbers
  <2> QED
    BY <1>3, <2>1, Zenon DEF IInv, TypeOK, OnResize, output
<1>13. ServerInv'
  BY <1>1, <1>3, Zenon DEF IInv, ServerInv, OnResize
<1> QED
  BY <1>3, <1>8, <1>9, <1>11, <1>12, <1>13, Zenon DEF IInv, OnResize, G

LEMMA Read6Keeps ==
  ASSUME IInv, Read6
  PROVE  IInv'
<1> DEFINE F == FrameSet(Chars, sizes)
           f == Head(wire)
<1>1. /\ wire \in Seq(F) /\ out \in Seq(F) /\ wire # << >>
      /\ sizes \in Nat /\ Chars \in Seq(Kinds)
  BY TypesAre, Zenon DEF IInv, Read6
<1>2. Chars' = Chars /\ Reached' = Reached /\ sizes' = sizes /\ rest = << >>
  BY Zenon DEF Read6, Chars, Reached, IInv, TypeOK
<1>3. F' = F
  BY <1>2, Zenon
<1> HIDE DEF F
<1>4. CASE ~TooLong(f)
  <2>1. srv' = "ss_ws_read_data" /\ hole' = hole /\ wire' = wire /\ out' = out
    BY <1>4, Zenon DEF Read6
  <2>2. Keeps
    BY <1>2, <2>1, Zenon DEF Keeps, Read6
  <2>3. WayInv(OnTheirWay, Chars, hole)'
    BY <2>2, KeepsWay, Zenon
  <2>4. TypeOK'
    BY <1>2, <2>1, Zenon DEF IInv, TypeOK, Read6, output
  <2>5. ServerInv'
    BY <1>1, <1>2, <1>4, <2>1, Zenon DEF IInv, ServerInv
  <2> QED
    BY <1>1, <1>3, <2>1, <2>3, <2>4, <2>5, Zenon DEF IInv, Read6, F
<1>5. CASE TooLong(f)
  <2>1. srv' = "closed" /\ hole' = hole \cup {"refused"} /\ wire' = << >> /\ out' = << >>
    BY <1>5, Zenon DEF Read6
  <2>2. ~Plain(Chars)
    <3>1. f \in F
      BY <1>1
    <3>2. f \in Seq(Data) /\ (SizeFrame(f, sizes) \/ InputFrame(f, Chars))
      BY <1>1, <3>1, FramesIn, Zenon DEF F
    <3>3. Len(f) + Offset(f) + 6 > BufferSize /\ Len(f) \in Nat
      <4>1. Len(f) \in Nat
        BY <3>2
      <4> QED
        BY <1>5, <4>1 DEF TooLong
    <3>4. /\ Len(f) <= ShortMax => Offset(f) = 0
          /\ Offset(f) \in 0..2
      BY <3>3, LimitsAreNumbers DEF Offset, Short
    <3> HIDE DEF f
    <3>5. \A l \in Nat, o \in 0..2 : l + o + 6 > BufferSize /\ (l <= ShortMax => o = 0)
                                    => l # 5 /\ ~(l <= buffer_max)
      BY LimitsAreNumbers
    <3>6. Len(f) # 5 /\ ~(Len(f) <= buffer_max)
      BY <3>3, <3>4, <3>5, Zenon
    <3> QED
      BY <3>2, <3>6, Zenon DEF SizeFrame, InputFrame
  <2>3. hole' # {} /\ "refused" \in hole'
    BY <2>1, Zenon
  <2>4. wire' \in Seq(F) /\ out' \in Seq(F)
    BY <2>1
  <2>5. WayInv(OnTheirWay, Chars, hole)'
    <3>1. Frames' = << >>
      <4>1. << >> \o << >> = << >>
        OBVIOUS
      <4> QED
        BY <2>1, <4>1, Zenon DEF Frames
    <3> DEFINE w == InputOf(Frames)
    <3>2. /\ Reached \in Seq(Data) /\ w \in Seq(Data)
          /\ WayInv(Reached \o w, Chars, hole)
      BY TypesAre, Zenon DEF IInv
    <3>3. OnTheirWay' = Reached
      <4>1. InputOf(<< >>) = << >>
        BY NothingIn, Zenon
      <4>2. Reached \o << >> = Reached
        BY <3>2
      <4> QED
        BY <1>2, <3>1, <4>1, <4>2, Zenon DEF OnTheirWay, Reached
    <3> HIDE DEF w
    <3>4. Sorted(Reached) /\ Range(Reached) \subseteq Known(Chars)
      <4>1. Sorted(Reached \o w) /\ Range(Reached \o w) \subseteq Known(Chars)
        BY <3>2, Zenon DEF WayInv
      <4>2. Range(Reached \o w) = Range(Reached) \cup Range(w)
        BY <3>2, RangeOfBoth, Zenon
      <4>3. Sorted(Reached)
        BY <3>2, <4>1, SortedConcat, Zenon
      <4> QED
        BY <4>1, <4>2, <4>3, Zenon
    <3> QED
      BY <1>2, <2>3, <3>2, <3>3, <3>4, Zenon DEF WayInv
  <2>6. TypeOK'
    <3>1. hole' \subseteq {"late", "cut", "refused", "size"}
      BY <2>1, Zenon DEF IInv, TypeOK
    <3> QED
      BY <1>2, <2>1, <3>1, Zenon DEF IInv, TypeOK, Read6, output
  <2>7. ServerInv'
    BY <1>2, <2>1, <2>2, Zenon DEF ServerInv
  <2> QED
    BY <1>3, <2>4, <2>5, <2>6, <2>7, Zenon DEF IInv, Read6, F
<1> QED
  BY <1>4, <1>5

\* What is left in order when something in the middle is lost.
LEMMA MiddleLost ==
  ASSUME NEW a \in Seq(Data), NEW b \in Seq(Data), NEW c \in Seq(Data), Sorted(a \o (b \o c))
  PROVE  Sorted(a \o c) /\ Range(a \o c) \subseteq Range(a \o (b \o c))
<1> DEFINE d == b \o c
<1>1. d \in Seq(Data)
  OBVIOUS
<1>2. Range(d) = Range(b) \cup Range(c)
  BY RangeOfBoth, Zenon
<1>3. Sorted(d) => Sorted(c)
  BY SortedConcat, Zenon
<1>4. Sorted(a \o d)
  OBVIOUS
<1> HIDE DEF d
<1>5. Sorted(a) /\ Sorted(d) /\ Follows(a, d)
  BY <1>1, <1>4, SortedConcat, Zenon
<1>6. Follows(a, c)
  BY <1>2, <1>5, Zenon DEF Follows
<1>7. Sorted(a \o c)
  BY <1>3, <1>5, <1>6, SortedConcat, Zenon
<1>8. Range(a \o c) = Range(a) \cup Range(c)
  BY RangeOfBoth, Zenon
<1>9. Range(a \o d) = Range(a) \cup Range(d)
  BY <1>1, RangeOfBoth, Zenon
<1> QED
  BY <1>2, <1>7, <1>8, <1>9, Zenon DEF d

LEMMA ReadDataKeeps ==
  ASSUME IInv, ReadData
  PROVE  IInv'
<1> DEFINE F == FrameSet(Chars, sizes)
           f == Head(wire)
           t == Tail(wire)
           g == t \o out
           X == InputOf(g)
           R == got \o tty
<1>1. /\ wire \in Seq(F) /\ out \in Seq(F) /\ F \subseteq Seq(Data)
      /\ sizes \in Nat /\ Chars \in Seq(Kinds)
      /\ got \in Seq(Data) /\ tty \in Seq(Data) /\ wire # << >> /\ ~TooLong(f)
      /\ rest = << >> /\ wire' = t
  BY TypesAre, Zenon DEF IInv, TypeOK, ServerInv, ReadData
<1>2. Chars' = Chars /\ sizes' = sizes /\ out' = out /\ got' = got /\ tty' = tty
  BY Zenon DEF ReadData, Chars
<1>3. F' = F
  BY <1>2, Zenon
<1> HIDE DEF F
<1>4. f \in F /\ t \in Seq(F) /\ wire = <<f>> \o t
  BY <1>1
<1>5. f \in Seq(Data) /\ f # << >> /\ (SizeFrame(f, sizes) \/ InputFrame(f, Chars))
  BY <1>1, <1>4, FramesIn, Zenon DEF F
<1>6. Decoded(f) = f
  BY <1>1, <1>5, DecodedIs, Zenon
<1> HIDE DEF f, t
<1>7. t \in Seq(Seq(Data)) /\ out \in Seq(Seq(Data)) /\ <<f>> \in Seq(Seq(Data))
  <2>1. t \in Seq(Seq(Data)) /\ out \in Seq(Seq(Data))
    BY <1>1, <1>4, SeqGrows, Zenon
  <2> QED
    BY <1>5, <2>1
<1>8. g \in Seq(Seq(Data)) /\ (<<f>> \o t) \o out = <<f>> \o g
  BY <1>7
<1>9. Frames = <<f>> \o g /\ Frames' = g
  BY <1>1, <1>2, <1>4, <1>8, Zenon DEF Frames
<1> HIDE DEF g
<1>10. /\ X \in Seq(Data) /\ Part(f) \in Seq(Data)
       /\ InputOf(Frames) = Part(f) \o X /\ InputOf(Frames)' = X
  <2>1. InputOf(<<f>>) = Part(f) /\ InputOf(<<f>>) \in Seq(Data) /\ X \in Seq(Data)
    BY <1>5, <1>7, <1>8, InputOfIs, Zenon
  <2>2. InputOf(<<f>> \o g) = InputOf(<<f>>) \o X
    BY <1>7, <1>8, InputOfIs, Zenon
  <2> QED
    BY <1>9, <2>1, <2>2, Zenon
<1> HIDE DEF X
<1>11. Reached = R /\ R \in Seq(Data)
  <2>1. R \in Seq(Data)
    BY <1>1
  <2> HIDE DEF R
  <2>2. R \o << >> = R
    BY <2>1
  <2> QED
    BY <1>1, <2>1, <2>2, Zenon DEF Reached, R
<1>12. OnTheirWay = R \o (Part(f) \o X) /\ WayInv(OnTheirWay, Chars, hole)
  BY <1>10, <1>11, TypesAre, Zenon DEF IInv
<1>13. wire' \in Seq(F) /\ out' \in Seq(F)
  BY <1>1, <1>2, <1>4, Zenon
<1>14. MaxResizes \in Nat /\ sizes <= MaxResizes /\ Len(Chars) \in Nat
  <2>1. sizes \in 0..MaxResizes /\ MaxResizes \in Nat /\ Len(Chars) \in Nat
    BY TypesAre, LimitsAreNumbers, Zenon DEF IInv, TypeOK
  <2> QED
    BY <2>1
<1> HIDE DEF R
<1>15. CASE IsResize(f)
  <2>1. /\ winsize' = f[2].of /\ srv' = "ss_ws_read6" /\ rest' = rest
        /\ hole' = IF f[2].of < 0 THEN hole ELSE hole \cup {"size"}
    BY <1>6, <1>15, Zenon DEF ReadData, f
  <2>2. Reached' = Reached
    BY <1>2, <2>1, Zenon DEF Reached
  <2>3. winsize' \in -MaxResizes..Len(Chars) /\ WayInv(OnTheirWay, Chars, hole)'
        /\ hole' \subseteq {"late", "cut", "refused", "size"}
        /\ ("refused" \in hole' => "refused" \in hole)
    <3>1. hole' \subseteq {"late", "cut", "refused", "size"}
          /\ ("refused" \in hole' => "refused" \in hole)
      BY <2>1, Zenon DEF IInv, TypeOK
    <3>2. CASE SizeFrame(f, sizes)
      <4>1. Part(f) = << >> /\ f[2].of \in -sizes..-1
        BY <3>2, Zenon DEF SizeFrame
      <4>2. f[2].of < 0 /\ f[2].of \in -MaxResizes..Len(Chars)
        BY <1>1, <1>14, <4>1
      <4>3. hole' = hole
        BY <2>1, <4>2, Zenon
      <4>4. << >> \o X = X
        BY <1>10
      <4>5. InputOf(Frames)' = InputOf(Frames)
        BY <1>10, <4>1, <4>4, Zenon
      <4>6. WayInv(OnTheirWay, Chars, hole)'
        BY <1>2, <2>2, <4>3, <4>5, MovesWay, Zenon
      <4> QED
        BY <2>1, <3>1, <4>2, <4>6, Zenon
    <3>3. CASE InputFrame(f, Chars)
      <4>1. Part(f) = f /\ \A i \in DOMAIN f : f[i].of \in 0..Len(Chars)
        BY <3>3, Zenon DEF InputFrame
      <4>2. 2 \in DOMAIN f
        <5>1. Len(f) = 5
          BY <1>15, Zenon DEF IsResize
        <5> QED
          BY <1>5, <5>1
      <4>3. f[2].of \in 0..Len(Chars)
        BY <4>1, <4>2
      <4>4. ~(f[2].of < 0) /\ f[2].of \in -MaxResizes..Len(Chars)
        BY <1>14, <4>3
      <4>5. hole' # {}
        BY <2>1, <4>4, Zenon
      <4>6. OnTheirWay' = R \o X
        BY <1>10, <1>11, <2>2, Zenon DEF OnTheirWay, Reached
      <4>7. Sorted(R \o (Part(f) \o X)) /\ Range(R \o (Part(f) \o X)) \subseteq Known(Chars)
        BY <1>12, Zenon DEF WayInv
      <4>8. Sorted(R \o X) /\ Range(R \o X) \subseteq Known(Chars)
        BY <1>10, <1>11, <4>7, MiddleLost, Zenon
      <4>9. R \o X \in Seq(Data)
        BY <1>10, <1>11
      <4>10. WayInv(OnTheirWay, Chars, hole)'
        BY <1>2, <4>5, <4>6, <4>8, <4>9, Zenon DEF WayInv
      <4> QED
        BY <2>1, <3>1, <4>4, <4>10, Zenon
    <3> QED
      BY <1>5, <3>2, <3>3
  <2>4. TypeOK'
    BY <1>1, <1>2, <2>1, <2>3, Zenon DEF IInv, TypeOK, ReadData, output
  <2>5. ServerInv'
    BY <1>2, <2>1, <2>3, Zenon DEF IInv, ServerInv
  <2> QED
    BY <1>2, <1>3, <1>13, <2>1, <2>3, <2>4, <2>5, Zenon DEF IInv, F
<1>16. CASE ~IsResize(f)
  <2>1. rest' = f /\ srv' = "write" /\ hole' = hole /\ winsize' = winsize
    BY <1>6, <1>16, Zenon DEF ReadData, f
  <2>2. Part(f) = f
    BY <1>5, <1>16, Zenon DEF SizeFrame, InputFrame
  <2>3. (R \o f) \o X = R \o (f \o X)
    BY <1>5, <1>10, <1>11
  <2>4. OnTheirWay' = (R \o f) \o X
    BY <1>2, <1>10, <2>1, Zenon DEF OnTheirWay, R
  <2>5. OnTheirWay' = OnTheirWay
    BY <1>12, <2>2, <2>3, <2>4, Zenon
  <2>6. WayInv(OnTheirWay, Chars, hole)'
    BY <1>2, <1>12, <2>1, <2>5, Zenon
  <2>7. TypeOK'
    BY <1>2, <1>5, <2>1, Zenon DEF IInv, TypeOK, ReadData, output
  <2>8. ServerInv'
    BY <1>2, <2>1, Zenon DEF IInv, ServerInv
  <2> QED
    BY <1>2, <1>3, <1>5, <1>13, <2>1, <2>6, <2>7, <2>8, Zenon DEF IInv, F
<1> QED
  BY <1>15, <1>16

LEMMA SendableIs ==
  ASSUME NEW fs \in Seq(Seq(Data))
  PROVE  Cardinality(Sendable(fs)) \in 0..Len(fs)
<1>1. DOMAIN fs = 1..Len(fs) /\ Len(fs) \in Nat
  OBVIOUS
<1>2. IsFiniteSet(1..Len(fs)) /\ Cardinality(1..Len(fs)) = Len(fs)
  <2>1. 1 \in Int /\ Len(fs) \in Int /\ ~(1 > Len(fs)) => Len(fs) - 1 + 1 = Len(fs)
    BY <1>1
  <2>2. IsFiniteSet(1..Len(fs))
        /\ Cardinality(1..Len(fs)) = IF 1 > Len(fs) THEN 0 ELSE Len(fs) - 1 + 1
    BY <1>1, FS_Interval
  <2>3. 1 > Len(fs) => Len(fs) = 0
    BY <1>1
  <2>4. ~(1 > Len(fs)) => Len(fs) - 1 + 1 = Len(fs)
    BY <1>1
  <2> QED
    BY <2>2, <2>3, <2>4, Zenon
<1>3. Sendable(fs) \subseteq 1..Len(fs)
  BY <1>1, Zenon DEF Sendable
<1>4. IsFiniteSet(Sendable(fs)) /\ Cardinality(Sendable(fs)) <= Len(fs)
  BY <1>2, <1>3, FS_Subset, Zenon
<1>5. Cardinality(Sendable(fs)) \in Nat
  BY <1>4, FS_CardinalityType, Zenon
<1> QED
  BY <1>1, <1>4, <1>5

\* What onData sends of the frames: all, or those before the socket has enough.
SentOf(fs) == IF Len(fs) = 1 THEN fs ELSE SubSeq(fs, 1, Cardinality(Sendable(fs)))

LEMMA SentIs ==
  ASSUME NEW fs \in Seq(Seq(Data))
  PROVE  /\ SentOf(fs) \in Seq(Seq(Data)) /\ DOMAIN SentOf(fs) \subseteq DOMAIN fs
         /\ \A k \in DOMAIN SentOf(fs) : SentOf(fs)[k] = fs[k]
<1> DEFINE c == Cardinality(Sendable(fs))
<1>1. c \in 0..Len(fs) /\ Len(fs) \in Nat
  BY SendableIs
<1> HIDE DEF c
<1> DEFINE s == SubSeq(fs, 1, c)
<1>2. s \in Seq(Seq(Data)) /\ DOMAIN s = 1..c /\ \A k \in 1..c : s[k] = fs[k]
  BY <1>1
<1>3. DOMAIN s \subseteq DOMAIN fs
  BY <1>1, <1>2
<1> HIDE DEF s
<1>4. SentOf(fs) = IF Len(fs) = 1 THEN fs ELSE s
  BY Zenon DEF SentOf, s, c
<1> QED
  BY <1>2, <1>3, <1>4, Zenon

\* Frames that bring nothing but what was typed.
LEMMA InputOfInput ==
  ASSUME NEW s \in Seq(Seq(Data)), \A k \in DOMAIN s : IsInput(s[k])
  PROVE  InputOf(s) = FlattenSeq(s)
<1>1. [k \in DOMAIN s |-> IF IsInput(s[k]) THEN s[k] ELSE << >>] = [k \in DOMAIN s |-> s[k]]
  BY Zenon
<1>2. [k \in DOMAIN s |-> s[k]] = s
  OBVIOUS
<1> QED
  BY <1>1, <1>2, Zenon DEF InputOf

\* What is sent of what is typed.
SentSound(s, chars, e, n, late) ==
  /\ s \in Seq(FrameSet(chars \o e, n))
  /\ InputOf(s) \in Seq(Data) /\ Sorted(InputOf(s))
  /\ Range(InputOf(s)) \subseteq Added(e, Len(chars) + 1) \cup {Garbage}
  /\ \/ late
     \/ \E k \in DOMAIN s : Garbage \in Range(s[k])
     \/ /\ Added(e, Len(chars) + 1) \subseteq Range(InputOf(s))
        /\ Garbage \notin Range(InputOf(s))

LEMMA SentIsSound ==
  ASSUME NEW chars \in Seq(Kinds), NEW e \in Seq(Kinds), NEW n \in Nat, NEW fs,
         FramesSound(fs, e, Len(chars) + 1)
  PROVE  SentSound(SentOf(fs), chars, e, n, SentOf(fs) # fs)
<1> DEFINE s == SentOf(fs)
           first == Len(chars) + 1
           c == chars \o e
           A == Added(e, first)
           I == InputOf(s)
<1>1. first \in Nat \ {0} /\ c \in Seq(Kinds)
  OBVIOUS
<1>2. /\ s \in Seq(Seq(Data)) /\ DOMAIN s \subseteq DOMAIN fs
      /\ \A k \in DOMAIN s : s[k] = fs[k]
  BY SentIs, Zenon DEF FramesSound
<1>3. Known(c) = Known(chars) \cup A
  BY MeantOfGrows, Zenon DEF Known
<1>4. \A z \in Known(c) : z.of \in 0..Len(c)
  BY <1>1, KnownIs, Zenon
<1>5. Plain(c) => Plain(e)
  BY FrameSetGrows, Zenon
<1> HIDE DEF first, c, s
<1>6. ASSUME NEW k \in DOMAIN s
      PROVE  /\ s[k] \in Seq(Data) /\ s[k] # << >> /\ Sorted(s[k])
             /\ Plain(e) => Len(s[k]) <= buffer_max
             /\ Range(s[k]) \subseteq A \cup {Garbage}
  <2>1. s[k] \in Seq(Data)
    BY <1>2
  <2>2. k \in DOMAIN fs /\ s[k] = fs[k]
    BY <1>2, Zenon
  <2> QED
    BY <2>1, <2>2, Zenon DEF FramesSound, Added, first
<1> HIDE DEF A
<1>7. ASSUME NEW k \in DOMAIN s PROVE s[k] \in FrameSet(c, n) /\ IsInput(s[k])
  <2>1. Range(s[k]) \subseteq Known(c)
    BY <1>3, <1>6, Zenon DEF Known
  <2>2. s[k] \in FrameSet(c, n)
    BY <1>5, <1>6, <2>1, Zenon DEF FrameSet
  <2>3. s[k][1] \in Range(s[k])
    <3>1. 1 \in DOMAIN s[k]
      BY <1>6
    <3> QED
      BY <3>1, Zenon DEF Range
  <2>4. s[k][1].of \in 0..Len(c)
    BY <1>4, <2>1, <2>3, Zenon
  <2>5. IsInput(s[k])
    BY <2>4 DEF IsInput
  <2> QED
    BY <2>2, <2>5
<1>8. I = FlattenSeq(s)
  BY <1>2, <1>7, InputOfInput, Zenon
<1>9. I \in Seq(Data) /\ Range(I) = UNION {Range(s[k]) : k \in DOMAIN s}
  BY <1>2, <1>8, FlatTyped, FlatRange, Zenon
<1>10. Sorted(I)
  <2>1. \A j, k \in DOMAIN s : j < k => Follows(s[j], s[k])
    BY <1>2, Zenon DEF FramesSound
  <2> QED
    BY <1>2, <1>6, <1>8, <2>1, SortedFlat, Zenon
<1>11. Range(I) \subseteq A \cup {Garbage}
  BY <1>6, <1>9, Zenon
<1>12. s \in Seq(FrameSet(c, n))
  <2> DEFINE F == FrameSet(c, n)
  <2>1. \A k \in DOMAIN s : s[k] \in F
    BY <1>7
  <2> HIDE DEF F
  <2> QED
    BY <1>2, <2>1 DEF F
<1>13. ASSUME s = fs, \A k \in DOMAIN s : Garbage \notin Range(s[k])
       PROVE  A \subseteq Range(I) /\ Garbage \notin Range(I)
  <2>1. \A m \in DOMAIN e : \A b \in Range(Utf8(first + m - 1, e[m])) :
          \E k \in DOMAIN s : b \in Range(s[k])
    BY <1>13, Zenon DEF FramesSound, first
  <2>2. A \subseteq UNION {Range(s[k]) : k \in DOMAIN s}
    BY <2>1, Zenon DEF A, Added
  <2> QED
    BY <1>9, <1>13, <2>2, Zenon
<1> QED
  <2>1. \/ s # fs
        \/ \E k \in DOMAIN s : Garbage \in Range(s[k])
        \/ A \subseteq Range(I) /\ Garbage \notin Range(I)
    <3>1. CASE s = fs /\ \A k \in DOMAIN s : Garbage \notin Range(s[k])
      <4>1. A \subseteq Range(I) /\ Garbage \notin Range(I)
        BY <1>13, <3>1
      <4> QED
        BY <4>1, Zenon
    <3>2. CASE ~(s = fs /\ \A k \in DOMAIN s : Garbage \notin Range(s[k]))
      BY <3>2, Zenon
    <3> QED
      BY <3>1, <3>2, Zenon
  <2> HIDE DEF I
  <2>2. SentSound(s, chars, e, n, s # fs)
    BY <1>9, <1>10, <1>11, <1>12, <2>1, Zenon DEF SentSound, A, c, first, I
  <2> QED
    BY <2>2 DEF s

LEMMA WayGrows ==
  ASSUME NEW c \in Seq(Kinds), NEW e \in Seq(Kinds), NEW w, NEW lost, WayInv(w, c, lost),
         NEW v \in Seq(Data), Sorted(v), Range(v) \subseteq Added(e, Len(c) + 1) \cup {Garbage},
         NEW more, more = {} => /\ lost = {}
                                /\ Added(e, Len(c) + 1) \subseteq Range(v)
                                /\ Garbage \notin Range(v)
  PROVE  WayInv(w \o v, c \o e, more)
<1> DEFINE first == Len(c) + 1
           A == Added(e, first)
           M == MeantOf(c)
           N == MeantOf(c \o e)
<1>1. /\ w \in Seq(Data) /\ Range(w) \subseteq M \cup {Garbage} /\ Sorted(w)
      /\ lost = {} => M \subseteq Range(w) /\ Garbage \notin Range(w)
  BY Zenon DEF WayInv, AllThere, Known
<1>2. N = M \cup A
  BY MeantOfGrows, Zenon
<1>3. \A z \in M : z.of \in 1..Len(c)
  BY MeantOfIs, Zenon
<1>4. first \in Nat \ {0} /\ Len(c) \in Nat
  OBVIOUS
<1>5. \A z \in A : z.of \in Nat /\ z.of >= first
  BY <1>4, AddedIs, Zenon
<1>6. \A i \in 1..Len(c), j \in Nat : j >= first => i < j
  BY <1>4
<1>7. w \o v \in Seq(Data)
  BY <1>1
<1> HIDE DEF first, A, M, N
<1>8. Range(v) \subseteq A \cup {Garbage}
  BY Zenon DEF A, first
<1>9. Range(w \o v) = Range(w) \cup Range(v)
  BY <1>1, RangeOfBoth, Zenon
<1>10. Follows(w, v)
  <2> SUFFICES ASSUME NEW a \in Range(w), NEW b \in Range(v), a # Garbage, b # Garbage
               PROVE  Before(a, b)
    BY Zenon DEF Follows, Apart
  <2>1. a \in M /\ b \in A
    BY <1>1, <1>8, Zenon
  <2>2. a.of < b.of
    BY <1>3, <1>5, <1>6, <2>1, Zenon
  <2> QED
    BY <2>2, Zenon DEF Before
<1>11. Sorted(w \o v)
  BY <1>1, <1>10, SortedConcat, Zenon
<1>12. Range(w \o v) \subseteq N \cup {Garbage}
  BY <1>1, <1>2, <1>8, <1>9, Zenon
<1>13. more = {} => N \subseteq Range(w \o v) /\ Garbage \notin Range(w \o v)
  <2>1. more = {} => lost = {} /\ A \subseteq Range(v) /\ Garbage \notin Range(v)
    BY Zenon DEF A, first
  <2> QED
    BY <1>1, <1>2, <1>9, <2>1, Zenon
<1> QED
  BY <1>7, <1>11, <1>12, <1>13, Zenon DEF WayInv, AllThere, Known, N

LEMMA FramesRegrouped ==
  \A a, b, c \in Seq(Seq(Data)) : a \o (b \o c) = (a \o b) \o c
<1> DEFINE S == Seq(Data)
<1> HIDE DEF S
<1>1. ASSUME NEW a \in Seq(S), NEW b \in Seq(S), NEW c \in Seq(S)
      PROVE  a \o (b \o c) = (a \o b) \o c
  OBVIOUS
<1> QED
  BY <1>1 DEF S

LEMMA OnDataKeeps ==
  ASSUME IInv, NEW e \in Events, OnData(e)
  PROVE  IInv'
<1> DEFINE C == Chars
           D == C \o e
           first == Len(C) + 1
           fs == FramesOf(e, first)
           s == SentOf(fs)
           W == InputOf(s)
           F == FrameSet(C, sizes)
           G == FrameSet(D, sizes)
           cut == \E k \in DOMAIN s : Garbage \in Range(s[k])
           more == hole \cup (IF s # fs THEN {"late"} ELSE {}) \cup (IF cut THEN {"cut"} ELSE {})
<1>1. /\ typed' = Append(typed, e) /\ hole' = more
      /\ out' = IF srv = "closed" THEN out ELSE out \o s
      /\ Len(typed) < MaxEvents
  BY Zenon DEF OnData, FramesOf, SentOf
<1>2. UNCHANGED <<sizes, wire, srv, rest, tty, got, shell, output, winsize>>
  BY Zenon DEF OnData
<1>3. /\ wire \in Seq(F) /\ out \in Seq(F) /\ sizes \in Nat /\ typed \in Seq(Events)
      /\ C \in Seq(Kinds) /\ Len(C) \in Nat
  BY TypesAre, Zenon DEF IInv, TypeOK
<1>4. e \in Seq(Kinds) /\ Chars' = D
  BY <1>1, <1>3, CharsAre, Zenon DEF Chars
<1>5. FramesSound(fs, e, first)
  <2>1. first \in Nat \ {0}
    BY <1>3
  <2> QED
    BY <1>4, <2>1, FramesAre, Zenon
<1> HIDE DEF fs
<1>6. SentSound(s, C, e, sizes, s # fs)
  BY <1>3, <1>4, <1>5, SentIsSound, Zenon
<1> HIDE DEF s
<1>7. /\ F \subseteq G /\ Known(C) \subseteq Known(D) /\ (Plain(D) => Plain(C))
  BY <1>3, <1>4, FrameSetGrows, Zenon
<1>8. FrameSet(Chars, sizes)' = G
  BY <1>2, <1>4, Zenon
<1> HIDE DEF C
<1>9. wire \in Seq(G) /\ out \in Seq(G) /\ s \in Seq(G)
  <2>1. s \in Seq(G)
    BY <1>6, Zenon DEF SentSound
  <2> HIDE DEF F, G
  <2> QED
    BY <1>3, <1>7, <2>1, SeqGrows, Zenon
<1>10. wire' \in Seq(G) /\ out' \in Seq(G)
  <2> HIDE DEF G
  <2>1. out \o s \in Seq(G)
    BY <1>9
  <2> QED
    BY <1>1, <1>2, <1>9, <2>1, Zenon
<1>11. /\ hole' \subseteq {"late", "cut", "refused", "size"}
       /\ "refused" \in hole' <=> "refused" \in hole
       /\ hole' = {} => hole = {} /\ s = fs /\ ~cut
  <2> HIDE DEF cut
  <2>1. hole \subseteq {"late", "cut", "refused", "size"}
    BY Zenon DEF IInv, TypeOK
  <2> QED
    BY <1>1, <2>1, Zenon
<1>12. /\ W \in Seq(Data) /\ Sorted(W) /\ Range(W) \subseteq Added(e, first) \cup {Garbage}
       /\ hole' = {} => hole = {} /\ Added(e, first) \subseteq Range(W) /\ Garbage \notin Range(W)
  BY <1>6, <1>11, Zenon DEF SentSound
<1>13. WayInv(OnTheirWay, C, hole)
  BY Zenon DEF IInv, C
<1>14. WayInv(OnTheirWay, Chars, hole)'
  <2>1. CASE srv = "closed"
    <3>1. out' = out /\ "refused" \in hole
      BY <1>1, <2>1, Zenon DEF IInv, ServerInv
    <3>2. OnTheirWay' = OnTheirWay
      BY <1>2, <3>1, Zenon DEF OnTheirWay, Frames
    <3>3. hole' # {}
      BY <1>11, <3>1, Zenon
    <3> QED
      BY <1>4, <1>7, <1>13, <3>2, <3>3, Zenon DEF WayInv
  <2>2. CASE srv # "closed"
    <3> HIDE DEF W
    <3> DEFINE I == InputOf(Frames)
    <3>1. Frames \in Seq(Seq(Data)) /\ I \in Seq(Data) /\ Reached \in Seq(Data)
          /\ OnTheirWay = Reached \o I /\ wire \in Seq(Seq(Data)) /\ out \in Seq(Seq(Data))
      BY TypesAre, Zenon
    <3>2. s \in Seq(Seq(Data))
      <4>1. G \subseteq Seq(Data)
        BY Zenon DEF FrameSet
      <4> HIDE DEF G
      <4> QED
        BY <1>9, <4>1, SeqGrows, Zenon
    <3>3. wire \o (out \o s) = (wire \o out) \o s
      <4>1. wire \in Seq(Seq(Data)) /\ out \in Seq(Seq(Data))
        BY <3>1
      <4> QED
        BY <3>2, <4>1, FramesRegrouped, Zenon
    <3>4. Frames' = Frames \o s
      BY <1>1, <1>2, <2>2, <3>3, Zenon DEF Frames
    <3>5. InputOf(Frames)' = I \o W
      BY <3>1, <3>2, <3>4, InputOfIs, Zenon DEF W
    <3> HIDE DEF I
    <3>6. Reached \o (I \o W) = (Reached \o I) \o W
      BY <1>12, <3>1, Regrouped, Zenon
    <3>7. OnTheirWay' = OnTheirWay \o W
      BY <1>2, <3>1, <3>5, <3>6, Zenon DEF OnTheirWay, Reached
    <3>8. WayInv(OnTheirWay \o W, D, hole')
      BY <1>3, <1>4, <1>12, <1>13, WayGrows, Zenon
    <3> QED
      BY <1>4, <3>7, <3>8, Zenon
  <2> QED
    BY <2>1, <2>2
<1>15. TypeOK'
  <2>1. typed' \in Seq(Events) /\ Len(typed') <= MaxEvents
    BY <1>1, <1>3, LimitsAreNumbers
  <2>2. winsize \in -MaxResizes..Len(Chars)'
    <3>1. Len(D) = Len(C) + Len(e) /\ Len(e) \in Nat
      BY <1>3, <1>4
    <3>2. winsize \in -MaxResizes..Len(C) /\ MaxResizes \in Nat
      BY LimitsAreNumbers, Zenon DEF IInv, TypeOK, C
    <3>3. winsize \in -MaxResizes..Len(D)
      <4> HIDE DEF D
      <4> QED
        BY <1>3, <3>1, <3>2
    <3> QED
      BY <1>4, <3>3, Zenon
  <2> QED
    BY <1>2, <1>11, <2>1, <2>2, Zenon DEF IInv, TypeOK, output
<1>16. ServerInv'
  <2>1. srv = "closed" => out' = out
    BY <1>1, Zenon
  <2> QED
    BY <1>2, <1>4, <1>7, <1>11, <2>1, Zenon DEF IInv, ServerInv, C
<1> QED
  BY <1>2, <1>8, <1>10, <1>14, <1>15, <1>16, Zenon DEF IInv

(***************************************************************************)
(* The theorems                                                            *)
(***************************************************************************)
LEMMA InitHolds ==
  ASSUME Init
  PROVE  IInv
<1>1. /\ typed = << >> /\ sizes = 0 /\ hole = {} /\ out = << >> /\ wire = << >>
      /\ srv = "ss_ws_read6" /\ rest = << >> /\ tty = << >> /\ got = << >>
      /\ shell = "reading" /\ outq = 0 /\ ws = "read" /\ winsize = 0
  BY Zenon DEF Init
<1>2. \A S : << >> \in Seq(S)
  OBVIOUS
<1>3. Chars = << >>
  BY <1>1, FlatEmpty, Zenon DEF Chars
<1>4. Len(<< >>) = 0 /\ DOMAIN << >> = {}
  OBVIOUS
<1>5. TypeOK
  <2>1. Len(typed) <= MaxEvents /\ sizes \in 0..MaxResizes /\ Len(tty) <= InRoom
        /\ outq \in 0..OutRoom /\ winsize \in -MaxResizes..Len(Chars)
    BY <1>1, <1>3, <1>4, LimitsAreNumbers
  <2> QED
    BY <1>1, <1>2, <2>1, Zenon DEF TypeOK
<1>6. OnTheirWay = << >>
  <2>1. << >> \o << >> = << >>
    OBVIOUS
  <2> QED
    BY <1>1, <2>1, NothingIn, Zenon DEF OnTheirWay, Frames
<1>7. WayInv(OnTheirWay, Chars, hole)
  <2>1. MeantOf(<< >>) = {}
    BY <1>4, Zenon DEF MeantOf
  <2>2. Range(<< >>) = {}
    BY <1>4, Zenon DEF Range
  <2> QED
    BY <1>2, <1>3, <1>6, <2>1, <2>2, SortedEmpty, Zenon DEF WayInv, AllThere
<1>8. ServerInv
  BY <1>1, Zenon DEF ServerInv
<1> QED
  BY <1>1, <1>2, <1>5, <1>7, <1>8, Zenon DEF IInv

LEMMA StutterKeeps ==
  ASSUME IInv, UNCHANGED vars
  PROVE  IInv'
<1>1. Keeps
  BY Zenon DEF vars, input, Keeps, Reached
<1>2. WayInv(OnTheirWay, Chars, hole)' /\ wire' \in Seq(FrameSet(Chars, sizes)')
      /\ out' \in Seq(FrameSet(Chars, sizes)') /\ Chars' = Chars
  BY <1>1, KeepsWay, Zenon
<1>3. TypeOK'
  BY <1>2, Zenon DEF IInv, TypeOK, vars, input, output
<1>4. ServerInv'
  BY <1>2, Zenon DEF IInv, ServerInv, vars, input
<1> QED
  BY <1>2, <1>3, <1>4, Zenon DEF IInv, vars

\* The invariant holds in every state: what has been typed and not been lost in a way
\* that `hole' names is in the sequence of bytes that the shell has read, the pty
\* holds, write() has left and the frames bring, and nothing else is.
THEOREM InputInvariance == Spec => []IInv
<1>1. Init => IInv
  BY InitHolds
<1>2. IInv /\ [Next]_vars => IInv'
  <2> SUFFICES ASSUME IInv, [Next]_vars PROVE IInv'
    OBVIOUS
  <2>1. CASE \E e \in Events : OnData(e)
    BY <2>1, OnDataKeeps, Zenon
  <2>2. CASE OnResize
    BY <2>2, OnResizeKeeps
  <2>3. CASE Flush
    BY <2>3, FlushKeeps
  <2>4. CASE Server
    BY <2>4, Read6Keeps, ReadDataKeeps, WriteKeeps, Zenon DEF Server
  <2>5. CASE Output
    BY <2>5, OutputKeeps
  <2>6. CASE Relay
    BY <2>6, RelayKeeps
  <2>7. CASE Shell
    BY <2>7, ShellReadsKeeps, ShellWritesKeeps, Zenon DEF Shell
  <2>8. CASE UNCHANGED vars
    BY <2>8, StutterKeeps
  <2> QED
    BY <2>1, <2>2, <2>3, <2>4, <2>5, <2>6, <2>7, <2>8, Zenon DEF Next
<1> QED
  BY <1>1, <1>2, PTL DEF Spec

\* Two sequences of the same bytes in order are one: with none missing and none
\* replaced, what is on its way is what was typed.
LEMMA NothingIsLost ==
  ASSUME IInv
  PROVE  NothingLost
<1> SUFFICES ASSUME hole = {} PROVE OnTheirWay = Meant
  BY Zenon DEF NothingLost
<1> DEFINE S == Data \ {Garbage}
           w == OnTheirWay
<1>1. Chars \in Seq(Kinds)
  BY TypesAre, Zenon
<1>2. Meant \in Seq(S) /\ Sorted(Meant) /\ Range(Meant) = MeantOf(Chars)
  BY <1>1, MeantIs, Zenon
<1>3. /\ w \in Seq(Data) /\ Range(w) \subseteq MeantOf(Chars) \cup {Garbage} /\ Sorted(w)
      /\ MeantOf(Chars) \subseteq Range(w) /\ Garbage \notin Range(w)
  BY Zenon DEF IInv, WayInv, AllThere, Known
<1>4. Garbage \notin S /\ \A b \in S : b.of \in Int /\ b.i \in Int
  <2>1. \A b \in S : b.of \in Int /\ b.i \in 0..9
    BY DataIs, Zenon
  <2> QED
    BY <2>1
<1> HIDE DEF w
<1>5. Range(w) = Range(Meant)
  <2>1. Garbage \notin MeantOf(Chars)
    BY <1>1, MeantOfIs, Zenon
  <2>2. \A z : z \in Range(w) <=> z \in MeantOf(Chars)
    BY <1>3, <2>1, Zenon
  <2>3. Range(w) = MeantOf(Chars)
    BY <2>2, Zenon
  <2> QED
    BY <1>2, <2>3, Zenon
<1>6. w \in Seq(S)
  <2>1. Range(w) \subseteq S
    BY <1>1, <1>3, MeantOfIs, Zenon
  <2> HIDE DEF S
  <2> QED
    BY <1>3, <2>1 DEF Range
<1> HIDE DEF S
<1>7. w = Meant
  BY <1>2, <1>3, <1>4, <1>5, <1>6, SortedUnique, Zenon
<1> QED
  BY <1>7 DEF w

\* However it is typed and pasted, and however it is cut into frames, frames into what
\* the buffer holds and that into what the pty takes: what onData of index.js is given
\* gets to the shell once, in order and byte for byte, until it is lost because
\* sendLarge was called again without it, cut within a character, refused as too long
\* or taken for a size; and what gets there after that is still in order.
THEOREM InputIsKept == Spec => []InputKept
<1>1. IInv => InputKept
  <2> SUFFICES ASSUME IInv PROVE InputKept
    OBVIOUS
  <2>1. InOrder
    BY Zenon DEF IInv, WayInv, Sorted, InOrder
  <2> QED
    BY <2>1, NothingIsLost, Zenon DEF InputKept, IInv
<1> QED
  BY <1>1, InputInvariance, PTL

\* ss_ws_read6 refuses no frame of index.js, and the terminal stays open, as long as
\* only characters of one byte have been typed: 1000 of them and the header fit into
\* read_buffer.
THEOREM OnlyWideIsRefused == Spec => []AsciiAccepted
<1>1. IInv => AsciiAccepted
  BY Zenon DEF IInv, ServerInv, AsciiAccepted, Plain
<1> QED
  BY <1>1, InputInvariance, PTL
=============================================================================
