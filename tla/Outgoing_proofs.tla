--------------------------- MODULE Outgoing_proofs ---------------------------
(***************************************************************************)
(* What leaves for other servers.                                          *)
(*                                                                         *)
(* Where a request goes and what it carries when it is sent, for every     *)
(* configuration of nodes, endpoints, bindings and policy, and however     *)
(* libraries and servers read names and segments.  And what the database   *)
(* reads of a value that is quoted in a statement, for every value.        *)
(***************************************************************************)
EXTENDS HttpPolicy, SqlLiterals, SequenceTheorems, WellFoundedInduction, TLAPS

-----------------------------------------------------------------------------
(* Recursion along a sequence. *)

\* A set of numbers has a least one.
LEMMA LeastNumber ==
    ASSUME NEW T \in SUBSET Nat, T # {}
    PROVE  \E x \in T : \A y \in T : x <= y
<1> DEFINE R == OpToRel(<, Nat)
<1>1. IsWellFoundedOn(R, Nat)
    BY NatLessThanWellFounded
<1>2. \A x, y \in Nat : x < y => <<x, y>> \in R
    BY DEF OpToRel
<1>3. \E x \in T : \A y \in T : ~(<<y, x>> \in R)
  <2> HIDE DEF R
  <2> QED
      BY <1>1, WFMin
<1> HIDE DEF R
<1>4. \A x, y \in T : <<y, x>> \notin R => x <= y
    BY <1>2
<1> QED
    BY <1>3, <1>4

\* What holds at 0 and from each number to the next, holds up to N.
LEMMA UpTo ==
    ASSUME NEW N \in Nat, NEW S \in SUBSET (0 .. N), 0 \in S,
           \A n \in 1 .. N : n - 1 \in S => n \in S
    PROVE  S = 0 .. N
<1> DEFINE T == (0 .. N) \ S
<1> SUFFICES ASSUME T # {} PROVE FALSE
    OBVIOUS
<1>1. T \in SUBSET Nat
    OBVIOUS
<1> HIDE DEF T
<1>2. PICK x \in T : \A y \in T : x <= y
    BY <1>1, LeastNumber
<1>3. x \in 0 .. N /\ x \notin S
    BY DEF T
<1>4. x # 0
    BY <1>3
<1>5. x - 1 \in 0 .. N /\ x \in 1 .. N
    BY <1>3, <1>4
<1>6. x - 1 \notin T
    BY <1>2, <1>3, <1>5
<1>7. x - 1 \in S
    BY <1>5, <1>6 DEF T
<1> QED
    BY <1>3, <1>5, <1>7

\* The values along the way, from a first one and what each step leads to.
Along(f, X, x0, N, D) ==
    f \in [0 .. N -> X] /\ f[0] = x0 /\ \A n \in 1 .. N : f[n] = D[<<f[n - 1], n>>]

\* There are such values.
LEMMA Recursion ==
    ASSUME NEW X, NEW x0 \in X, NEW N \in Nat, NEW D \in [X \X (1 .. N) -> X]
    PROVE  \E f : Along(f, X, x0, N, D)
<1> DEFINE Is(f, k) == f[0] = x0 /\ \A n \in 1 .. k : f[n] = D[<<f[n - 1], n>>]
           S == {k \in 0 .. N : \E f \in [0 .. k -> X] : Is(f, k)}
<1>1. 0 \in S
  <2> DEFINE f == [n \in 0 .. 0 |-> x0]
  <2>1. f \in [0 .. 0 -> X] /\ f[0] = x0 /\ \A n \in 1 .. 0 : f[n] = D[<<f[n - 1], n>>]
      OBVIOUS
  <2> HIDE DEF f
  <2>2. \E g \in [0 .. 0 -> X] : Is(g, 0)
      BY <2>1
  <2> QED
      BY <2>2
<1>2. ASSUME NEW n \in 1 .. N, n - 1 \in S PROVE n \in S
  <2>1. PICK f \in [0 .. (n - 1) -> X] : Is(f, n - 1)
      BY <1>2
  <2> DEFINE g == [k \in 0 .. n |-> IF k = n THEN D[<<f[n - 1], n>>] ELSE f[k]]
  <2>2. f[n - 1] \in X
      BY <2>1
  <2>3. D[<<f[n - 1], n>>] \in X
      BY <2>2
  <2>4. g \in [0 .. n -> X]
      BY <2>3
  <2>5. g[0] = x0
      BY <2>1
  <2>6. ASSUME NEW k \in 1 .. n PROVE g[k] = D[<<g[k - 1], k>>]
    <3>1. CASE k = n
      <4>1. g[n] = D[<<f[n - 1], n>>] /\ n - 1 \in 0 .. n /\ n - 1 # n
          OBVIOUS
      <4>2. g[n - 1] = f[n - 1]
          BY <4>1
      <4> HIDE DEF g
      <4> QED
          BY <3>1, <4>1, <4>2
    <3>2. CASE k # n
      <4>1. k \in 1 .. (n - 1) /\ k - 1 \in 0 .. n /\ k - 1 # n
          BY <3>2
      <4> QED
          BY <2>1, <4>1
    <3> QED
        BY <3>1, <3>2
  <2> HIDE DEF g
  <2> QED
      BY <2>4, <2>5, <2>6
<1>3. S \in SUBSET (0 .. N)
    OBVIOUS
<1> HIDE DEF S
<1>4. S = 0 .. N
    BY <1>1, <1>2, <1>3, UpTo
<1>5. N \in S
    BY <1>4
<1> QED
    BY <1>5 DEF S, Along

-----------------------------------------------------------------------------
(* Paths. *)

\* What has been read of a path, and where it has led, after n segments.
ReadAlong(f, X, read, path) ==
    /\ f \in [0 .. Len(path) -> Seq(X)]
    /\ f[0] = <<>> /\ \A n \in 1 .. Len(path) : f[n] = f[n - 1] \o read[path[n]]
    /\ SegmentsOf(read, path) = f[Len(path)]
LedAlong(f, X, path) ==
    /\ f \in [0 .. Len(path) -> Seq(X)]
    /\ f[0] = <<>> /\ \A n \in 1 .. Len(path) : f[n] = Enter(f[n - 1], path[n])
    /\ Resolved(path) = f[Len(path)]

\* Reading a path takes one segment after the other.
LEMMA SegmentsOfSteps ==
    ASSUME NEW X, NEW read \in [X -> Seq(X)], NEW path \in Seq(X)
    PROVE  \E f : ReadAlong(f, X, read, path)
<1> DEFINE N == Len(path)
           Y == Seq(X)
           K(at, n) == at \o read[path[n]]
           D == [a \in Y \X (1 .. N) |-> K(a[1], a[2])]
           Next(g) == [n \in 0 .. N |-> IF n = 0 THEN <<>> ELSE K(g[n - 1], n)]
           f == CHOOSE g : g = Next(g)
<1>1. N \in Nat /\ <<>> \in Y /\ \A at \in Y, n \in 1 .. N : K(at, n) \in Y
    OBVIOUS
<1>2. SegmentsOf(read, path) = f[N]
    BY DEF SegmentsOf
<1> HIDE DEF N, Y, K, f
<1>3. D \in [Y \X (1 .. N) -> Y] /\ \A at \in Y, n \in 1 .. N : D[<<at, n>>] = K(at, n)
    BY <1>1
<1>4. \E h : h = Next(h)
  <2> HIDE DEF D
  <2>0. PICK h : Along(h, Y, <<>>, N, D)
      BY <1>1, <1>3, Recursion, Zenon
  <2>1. h \in [0 .. N -> Y] /\ h[0] = <<>> /\ \A n \in 1 .. N : h[n] = D[<<h[n - 1], n>>]
      BY <2>0 DEF Along
  <2>2. \A n \in 1 .. N : h[n - 1] \in Y
      BY <1>1, <2>1
  <2>3. \A n \in 1 .. N : h[n] = K(h[n - 1], n)
      BY <1>3, <2>1, <2>2
  <2>4. h = Next(h)
      BY <2>1, <2>3
  <2> HIDE DEF Next
  <2> QED
      BY <2>4
<1>5. f = Next(f)
  <2> HIDE DEF Next
  <2> QED
      BY <1>4, Zenon DEF f
<1>6. DOMAIN f = 0 .. N /\ f[0] = <<>> /\ \A n \in 1 .. N : f[n] = K(f[n - 1], n)
    BY <1>1, <1>5
<1> DEFINE S == {n \in 0 .. N : f[n] \in Y}
<1>7. 0 \in S /\ \A n \in 1 .. N : n - 1 \in S => n \in S
    BY <1>1, <1>6
<1>8. S = 0 .. N
  <2>1. S \in SUBSET (0 .. N)
      OBVIOUS
  <2> HIDE DEF S
  <2> QED
      BY <1>1, <1>7, <2>1, UpTo
<1>9. f \in [0 .. N -> Y]
    BY <1>5, <1>8
<1> QED
  <2>1. ReadAlong(f, X, read, path)
      BY <1>2, <1>6, <1>9, Zenon DEF N, Y, K, ReadAlong
  <2> HIDE DEF f
  <2> QED
      BY <2>1, Zenon

\* Entering a segment stays among sequences of segments.
LEMMA EnterType ==
    ASSUME NEW X, NEW at \in Seq(X), NEW segment \in X
    PROVE  Enter(at, segment) \in Seq(X)
BY DEF Enter, Front

\* Following a path enters one segment after the other.
LEMMA ResolvedSteps ==
    ASSUME NEW X, NEW path \in Seq(X)
    PROVE  \E f : LedAlong(f, X, path)
<1> DEFINE N == Len(path)
           Y == Seq(X)
           K(at, n) == Enter(at, path[n])
           D == [a \in Y \X (1 .. N) |-> K(a[1], a[2])]
           Next(g) == [n \in 0 .. N |-> IF n = 0 THEN <<>> ELSE K(g[n - 1], n)]
           f == CHOOSE g : g = Next(g)
<1>1. N \in Nat /\ <<>> \in Y /\ \A at \in Y, n \in 1 .. N : K(at, n) \in Y
  <2>1. \A n \in 1 .. N : path[n] \in X
      OBVIOUS
  <2>2. \A at \in Y, n \in 1 .. N : K(at, n) \in Y
      BY <2>1, EnterType
  <2> QED
      BY <2>2
<1>2. Resolved(path) = f[N]
    BY DEF Resolved
<1> HIDE DEF N, Y, K, f
<1>3. D \in [Y \X (1 .. N) -> Y] /\ \A at \in Y, n \in 1 .. N : D[<<at, n>>] = K(at, n)
    BY <1>1
<1>4. \E h : h = Next(h)
  <2> HIDE DEF D
  <2>0. PICK h : Along(h, Y, <<>>, N, D)
      BY <1>1, <1>3, Recursion, Zenon
  <2>1. h \in [0 .. N -> Y] /\ h[0] = <<>> /\ \A n \in 1 .. N : h[n] = D[<<h[n - 1], n>>]
      BY <2>0 DEF Along
  <2>2. \A n \in 1 .. N : h[n - 1] \in Y
      BY <1>1, <2>1
  <2>3. \A n \in 1 .. N : h[n] = K(h[n - 1], n)
      BY <1>3, <2>1, <2>2
  <2>4. h = Next(h)
      BY <2>1, <2>3
  <2> HIDE DEF Next
  <2> QED
      BY <2>4
<1>5. f = Next(f)
  <2> HIDE DEF Next
  <2> QED
      BY <1>4, Zenon DEF f
<1>6. DOMAIN f = 0 .. N /\ f[0] = <<>> /\ \A n \in 1 .. N : f[n] = K(f[n - 1], n)
    BY <1>1, <1>5
<1> DEFINE S == {n \in 0 .. N : f[n] \in Y}
<1>7. 0 \in S /\ \A n \in 1 .. N : n - 1 \in S => n \in S
    BY <1>1, <1>6
<1>8. S = 0 .. N
  <2>1. S \in SUBSET (0 .. N)
      OBVIOUS
  <2> HIDE DEF S
  <2> QED
      BY <1>1, <1>7, <2>1, UpTo
<1>9. f \in [0 .. N -> Y]
    BY <1>5, <1>8
<1> QED
  <2>1. LedAlong(f, X, path)
      BY <1>2, <1>6, <1>9, Zenon DEF N, Y, K, LedAlong
  <2> HIDE DEF f
  <2> QED
      BY <2>1, Zenon

\* A path whose segments are each read as one, is read as those.
LEMMA ReadOneByOne ==
    ASSUME NEW X, NEW read \in [X -> Seq(X)], NEW path \in Seq(X), NEW seen \in Seq(X),
           Len(seen) = Len(path), \A i \in 1 .. Len(path) : read[path[i]] = <<seen[i]>>
    PROVE  SegmentsOf(read, path) = seen
<1> DEFINE N == Len(path)
<1>1. PICK f : ReadAlong(f, X, read, path)
    BY SegmentsOfSteps, Zenon
<1>2. /\ f \in [0 .. N -> Seq(X)]
      /\ f[0] = <<>> /\ \A n \in 1 .. N : f[n] = f[n - 1] \o read[path[n]]
      /\ SegmentsOf(read, path) = f[N]
    BY <1>1, Zenon DEF ReadAlong
<1>n. N \in Nat
    OBVIOUS
<1>3. \A n \in 1 .. N : f[n - 1] \in Seq(X) /\ f[n] = Append(f[n - 1], seen[n]) /\ seen[n] \in X
  <2> TAKE n \in 1 .. N
  <2>1. n - 1 \in 0 .. N /\ seen[n] \in X
      OBVIOUS
  <2>2. f[n - 1] \in Seq(X)
      BY <1>2, <2>1
  <2>3. f[n] = f[n - 1] \o <<seen[n]>>
      BY <1>2
  <2>4. Append(f[n - 1], seen[n]) = f[n - 1] \o <<seen[n]>>
      BY <2>1, <2>2, AppendIsConcat
  <2> QED
      BY <2>1, <2>2, <2>3, <2>4
<1> HIDE DEF N
<1> DEFINE S == {n \in 0 .. N : Len(f[n]) = n /\ \A i \in 1 .. n : f[n][i] = seen[i]}
<1>4. 0 \in S
    BY <1>2, <1>n
<1>5. ASSUME NEW n \in 1 .. N, n - 1 \in S PROVE n \in S
  <2> DEFINE s == f[n - 1]
  <2>1. Len(s) = n - 1 /\ \A i \in 1 .. (n - 1) : s[i] = seen[i]
      BY <1>5
  <2>2. /\ Len(f[n]) = Len(s) + 1 /\ f[n][Len(s) + 1] = seen[n]
        /\ \A i \in 1 .. Len(s) : f[n][i] = s[i]
    <3>1. s \in Seq(X) /\ seen[n] \in X /\ f[n] = Append(s, seen[n])
        BY <1>3
    <3> HIDE DEF s
    <3> QED
        BY <3>1, AppendProperties
  <2> HIDE DEF s
  <2>3. ASSUME NEW i \in 1 .. n PROVE f[n][i] = seen[i]
    <3>1. CASE i = n
      <4>1. Len(s) + 1 = n
          BY <1>n, <2>1
      <4> QED
          BY <2>2, <3>1, <4>1
    <3>2. CASE i # n
      <4>1. i \in 1 .. (n - 1) /\ i \in 1 .. Len(s)
          BY <1>n, <2>1, <3>2
      <4> QED
          BY <2>1, <2>2, <4>1
    <3> QED
        BY <3>1, <3>2
  <2> QED
      BY <1>n, <2>1, <2>2, <2>3
<1>6. S = 0 .. N
  <2>1. S \in SUBSET (0 .. N)
      OBVIOUS
  <2> HIDE DEF S
  <2> QED
      BY <1>n, <1>4, <1>5, <2>1, UpTo
<1>7. N \in S /\ f[N] \in Seq(X)
  <2>1. N \in 0 .. N
      BY <1>n
  <2> QED
      BY <1>2, <1>6, <2>1, Zenon
<1>8. Len(f[N]) = Len(seen) /\ \A i \in 1 .. Len(f[N]) : f[N][i] = seen[i]
    BY <1>7 DEF N
<1>9. f[N] = seen
    BY <1>7, <1>8, SeqEqual
<1> QED
    BY <1>2, <1>9

\* Concatenation of three sequences.
Associative(p, q, r) == (p \o q) \o r = p \o (q \o r)

\* It is associative.
LEMMA ConcatenationIsAssociative ==
    ASSUME NEW X, NEW p \in Seq(X), NEW q \in Seq(X), NEW r \in Seq(X)
    PROVE  Associative(p, q, r)
BY ConcatAssociative, SMTT(20) DEF Associative

\* A path is read as its parts are.
InParts(X, read, a, b) ==
    /\ SegmentsOf(read, a \o b) = SegmentsOf(read, a) \o SegmentsOf(read, b)
    /\ SegmentsOf(read, a) \in Seq(X)

\* Reading a path is reading its parts.
LEMMA ReadInParts ==
    ASSUME NEW X, NEW read \in [X -> Seq(X)], NEW a \in Seq(X), NEW b \in Seq(X)
    PROVE  InParts(X, read, a, b)
<1> DEFINE A == Len(a)
           B == Len(b)
           c == a \o b
<1>n. A \in Nat /\ B \in Nat
    OBVIOUS
<1>0. /\ c \in Seq(X) /\ Len(c) = A + B
      /\ \A n \in 1 .. A : c[n] = a[n]
      /\ \A n \in 1 .. B : c[A + n] = b[n] /\ read[b[n]] \in Seq(X)
    OBVIOUS
<1> HIDE DEF c
<1>1. PICK f : ReadAlong(f, X, read, c)
    BY <1>0, SegmentsOfSteps, Zenon
<1>2. PICK g : ReadAlong(g, X, read, a)
    BY SegmentsOfSteps, Zenon
<1>3. PICK h : ReadAlong(h, X, read, b)
    BY SegmentsOfSteps, Zenon
<1>4. /\ f[0] = <<>> /\ \A n \in 1 .. (A + B) : f[n] = f[n - 1] \o read[c[n]]
      /\ SegmentsOf(read, c) = f[A + B]
    BY <1>0, <1>1 DEF ReadAlong
<1>5. /\ g \in [0 .. A -> Seq(X)]
      /\ g[0] = <<>> /\ \A n \in 1 .. A : g[n] = g[n - 1] \o read[a[n]]
      /\ SegmentsOf(read, a) = g[A]
    BY <1>2 DEF ReadAlong
<1>6. /\ h \in [0 .. B -> Seq(X)]
      /\ h[0] = <<>> /\ \A n \in 1 .. B : h[n] = h[n - 1] \o read[b[n]]
      /\ SegmentsOf(read, b) = h[B]
    BY <1>3 DEF ReadAlong
<1> HIDE DEF A, B
<1>7. f[A] = g[A]
  <2> DEFINE S == {n \in 0 .. A : f[n] = g[n]}
  <2>1. 0 \in S
      BY <1>n, <1>4, <1>5
  <2>2. ASSUME NEW n \in 1 .. A, n - 1 \in S PROVE n \in S
    <3>1. n \in 1 .. (A + B)
        BY <1>n
    <3>2. f[n] = f[n - 1] \o read[a[n]]
        BY <1>0, <1>4, <3>1
    <3>3. f[n - 1] = g[n - 1]
        BY <2>2
    <3>4. f[n] = g[n]
        BY <1>5, <3>2, <3>3, Zenon
    <3> QED
        BY <1>n, <3>4
  <2>3. S = 0 .. A
    <3>1. S \in SUBSET (0 .. A)
        OBVIOUS
    <3> HIDE DEF S
    <3> QED
        BY <1>n, <2>1, <2>2, <3>1, UpTo
  <2> QED
      BY <1>n, <2>3
<1>8. f[A + B] = g[A] \o h[B]
  <2> DEFINE S == {n \in 0 .. B : f[A + n] = g[A] \o h[n]}
  <2>0. g[A] \in Seq(X)
      BY <1>n, <1>5
  <2>1. 0 \in S
    <3>1. g[A] \o <<>> = g[A]
        BY <2>0, ConcatEmptySeq
    <3>2. f[A] = g[A] \o h[0]
        BY <1>6, <1>7, <3>1, Zenon
    <3>3. A + 0 = A /\ 0 \in 0 .. B
        BY <1>n
    <3> QED
        BY <3>2, <3>3, Zenon
  <2>2. ASSUME NEW n \in 1 .. B, n - 1 \in S PROVE n \in S
    <3>1. A + n \in 1 .. (A + B) /\ (A + n) - 1 = A + (n - 1) /\ n - 1 \in 0 .. B
        BY <1>n
    <3>2. f[A + n] = f[A + (n - 1)] \o read[b[n]]
        BY <1>0, <1>4, <3>1
    <3>3. f[A + (n - 1)] = g[A] \o h[n - 1]
        BY <2>2
    <3>4. h[n - 1] \in Seq(X) /\ read[b[n]] \in Seq(X)
        BY <1>0, <1>6, <3>1, Zenon
    <3>6. f[A + n] = g[A] \o h[n]
      <4>1. (g[A] \o h[n - 1]) \o read[b[n]] = g[A] \o (h[n - 1] \o read[b[n]])
        <5>1. Associative(g[A], h[n - 1], read[b[n]])
            BY <2>0, <3>4, ConcatenationIsAssociative, Zenon
        <5> QED
            BY <5>1 DEF Associative
      <4>2. h[n - 1] \o read[b[n]] = h[n]
          BY <1>6, Zenon
      <4> QED
          BY <3>2, <3>3, <4>1, <4>2, Zenon
    <3>7. n \in 0 .. B
        BY <1>n
    <3> QED
        BY <3>6, <3>7, Zenon
  <2>3. S = 0 .. B
    <3>1. S \in SUBSET (0 .. B)
        OBVIOUS
    <3> HIDE DEF S
    <3> QED
        BY <1>n, <2>1, <2>2, <3>1, UpTo
  <2>4. B \in 0 .. B
      BY <1>n
  <2> QED
      BY <2>3, <2>4, Zenon
<1> QED
  <2>1. A \in 0 .. A
      BY <1>n
  <2> QED
      BY <1>4, <1>5, <1>6, <1>8, <2>1, Zenon DEF c, InParts

\* Without dots, a path leads to where it says.
LEMMA ResolvedPlain ==
    ASSUME NEW X, NEW a \in Seq(X), NEW b \in Seq(X), \A i \in 1 .. Len(b) : b[i] \notin Dots
    PROVE  Resolved(a) \in Seq(X) /\ Resolved(a \o b) = Resolved(a) \o b
<1> DEFINE A == Len(a)
           B == Len(b)
           c == a \o b
<1>n. A \in Nat /\ B \in Nat
    OBVIOUS
<1>0. /\ c \in Seq(X) /\ Len(c) = A + B
      /\ \A n \in 1 .. A : c[n] = a[n]
      /\ \A n \in 1 .. B : c[A + n] = b[n] /\ b[n] \in X
    OBVIOUS
<1> HIDE DEF c
<1>1. PICK f : LedAlong(f, X, c)
    BY <1>0, ResolvedSteps, Zenon
<1>2. PICK g : LedAlong(g, X, a)
    BY ResolvedSteps, Zenon
<1>4. /\ f \in [0 .. (A + B) -> Seq(X)]
      /\ f[0] = <<>> /\ \A n \in 1 .. (A + B) : f[n] = Enter(f[n - 1], c[n])
      /\ Resolved(c) = f[A + B]
    BY <1>0, <1>1 DEF LedAlong
<1>5. /\ g \in [0 .. A -> Seq(X)]
      /\ g[0] = <<>> /\ \A n \in 1 .. A : g[n] = Enter(g[n - 1], a[n])
      /\ Resolved(a) = g[A]
    BY <1>2 DEF LedAlong
<1> HIDE DEF A, B
<1> DEFINE q == g[A]
           d == q \o b
<1>6. q \in Seq(X) /\ f[A + B] \in Seq(X)
    BY <1>n, <1>4, <1>5
<1>7. f[A] = q
  <2> DEFINE S == {n \in 0 .. A : f[n] = g[n]}
  <2>1. 0 \in S
      BY <1>n, <1>4, <1>5
  <2>2. ASSUME NEW n \in 1 .. A, n - 1 \in S PROVE n \in S
    <3>1. n \in 1 .. (A + B)
        BY <1>n
    <3>2. f[n] = Enter(f[n - 1], a[n])
        BY <1>0, <1>4, <3>1
    <3>3. f[n - 1] = g[n - 1]
        BY <2>2
    <3>4. f[n] = g[n]
        BY <1>5, <3>2, <3>3, Zenon
    <3> QED
        BY <1>n, <3>4
  <2>3. S = 0 .. A
    <3>1. S \in SUBSET (0 .. A)
        OBVIOUS
    <3> HIDE DEF S
    <3> QED
        BY <1>n, <2>1, <2>2, <3>1, UpTo
  <2> QED
      BY <1>n, <2>3
<1> HIDE DEF q
<1>8. /\ Len(f[A + B]) = Len(q) + B
      /\ \A i \in 1 .. Len(q) : f[A + B][i] = q[i]
      /\ \A i \in 1 .. B : f[A + B][Len(q) + i] = b[i]
  <2> DEFINE Is(s, n) == /\ Len(s) = Len(q) + n
                         /\ \A i \in 1 .. Len(q) : s[i] = q[i]
                         /\ \A i \in 1 .. n : s[Len(q) + i] = b[i]
             S == {n \in 0 .. B : Is(f[A + n], n)}
  <2>0. Len(q) \in Nat
      BY <1>6
  <2>1. 0 \in S
    <3>1. A + 0 = A /\ 0 \in 0 .. B
        BY <1>n
    <3>2. Is(q, 0)
        BY <2>0
    <3> HIDE DEF Is
    <3> QED
        BY <1>7, <3>1, <3>2
  <2>2. ASSUME NEW n \in 1 .. B, n - 1 \in S PROVE n \in S
    <3> DEFINE s == f[A + (n - 1)]
               t == f[A + n]
    <3>1. A + n \in 1 .. (A + B) /\ (A + n) - 1 = A + (n - 1) /\ A + (n - 1) \in 0 .. (A + B)
        BY <1>n
    <3>2. s \in Seq(X) /\ b[n] \in X
        BY <1>0, <1>4, <3>1
    <3>3. t = Enter(s, b[n])
        BY <1>0, <1>4, <3>1
    <3>4. b[n] \notin Dots
        BY DEF B
    <3>5. t = Append(s, b[n])
      <4> HIDE DEF s, t
      <4> QED
          BY <3>3, <3>4 DEF Enter, Dots
    <3>6. Is(s, n - 1)
        BY <2>2
    <3> HIDE DEF s, t
    <3>7. /\ Len(t) = Len(s) + 1 /\ t[Len(s) + 1] = b[n]
          /\ \A i \in 1 .. Len(s) : t[i] = s[i]
        BY <3>2, <3>5, AppendProperties
    <3>8. Len(s) = Len(q) + (n - 1) /\ Len(t) = Len(q) + n
        BY <1>n, <2>0, <3>6, <3>7
    <3>9. ASSUME NEW i \in 1 .. Len(q) PROVE t[i] = q[i]
      <4>1. i \in 1 .. Len(s)
          BY <1>n, <2>0, <3>8
      <4> QED
          BY <3>6, <3>7, <4>1
    <3>10. ASSUME NEW i \in 1 .. n PROVE t[Len(q) + i] = b[i]
      <4>1. CASE i = n
        <5>1. Len(s) + 1 = Len(q) + n
            BY <1>n, <2>0, <3>8
        <5> QED
            BY <3>7, <4>1, <5>1
      <4>2. CASE i # n
        <5>1. i \in 1 .. (n - 1) /\ Len(q) + i \in 1 .. Len(s)
            BY <1>n, <2>0, <3>8, <4>2
        <5> QED
            BY <3>6, <3>7, <5>1
      <4> QED
          BY <4>1, <4>2
    <3>11. Is(t, n)
        BY <3>8, <3>9, <3>10
    <3>12. n \in 0 .. B
        BY <1>n
    <3> HIDE DEF Is
    <3> QED
        BY <3>11, <3>12 DEF t
  <2>3. S = 0 .. B
    <3>1. S \in SUBSET (0 .. B)
        OBVIOUS
    <3> HIDE DEF S
    <3> QED
        BY <1>n, <2>1, <2>2, <3>1, UpTo
  <2>4. B \in S
    <3>1. B \in 0 .. B
        BY <1>n
    <3> HIDE DEF S
    <3> QED
        BY <2>3, <3>1
  <2> QED
      BY <2>4
<1>9. /\ d \in Seq(X) /\ Len(d) = Len(q) + B
      /\ \A i \in 1 .. (Len(q) + B) : d[i] = IF i <= Len(q) THEN q[i] ELSE b[i - Len(q)]
    BY <1>6, ConcatProperties DEF B
<1> HIDE DEF d
<1>10. ASSUME NEW i \in 1 .. Len(d) PROVE f[A + B][i] = d[i]
  <2>0. Len(q) \in Nat
      BY <1>6
  <2>1. CASE i <= Len(q)
    <3>1. i \in 1 .. Len(q)
        BY <1>n, <1>9, <2>0, <2>1
    <3> QED
        BY <1>8, <1>9, <2>1, <3>1
  <2>2. CASE ~(i <= Len(q))
    <3>1. i - Len(q) \in 1 .. B /\ Len(q) + (i - Len(q)) = i
        BY <1>n, <1>9, <2>0, <2>2
    <3> QED
        BY <1>8, <1>9, <2>2, <3>1
  <2> QED
      BY <2>1, <2>2
<1>11. f[A + B] = d
  <2> DEFINE s == f[A + B]
  <2>1. s \in Seq(X) /\ d \in Seq(X) /\ Len(s) = Len(d) /\ \A i \in 1 .. Len(s) : s[i] = d[i]
      BY <1>6, <1>8, <1>9, <1>10
  <2> HIDE DEF s
  <2> QED
      BY <2>1, SeqEqual DEF s
<1> QED
    BY <1>4, <1>5, <1>6, <1>11, Zenon DEF c, d, q

\* A sequence is a strict prefix of what extends it.
LEMMA Extended ==
    ASSUME NEW X, NEW u \in Seq(X), NEW v \in Seq(X), Len(v) > 0
    PROVE  IsStrictPrefix(u, u \o v)
<1> DEFINE w == u \o v
<1>1. w \in Seq(X) /\ Len(w) = Len(u) + Len(v) /\ \A i \in 1 .. Len(u) : w[i] = u[i]
    BY ConcatProperties
<1> HIDE DEF w
<1>2. Len(u) <= Len(w) /\ u # w /\ Len(u) \in Nat
    BY <1>1
<1>3. SubSeq(u, 1, Len(u)) = SubSeq(w, 1, Len(u))
    BY <1>1, <1>2
<1> QED
    BY <1>2, <1>3 DEF IsStrictPrefix, IsPrefix, w

\* A path of an endpoint that validate_endpoint_path accepts: appended to a base
\* path, it leads below what a server takes the base path for.
LEMMA BelowBase ==
    ASSUME NEW base \in Seq(Segments), NEW path \in Seq(Segments),
           \A i \in DOMAIN base : Parsed[base[i]] = <<base[i]>> /\ base[i] \notin Dots,
           validate_endpoint_path(path)
    PROVE  IsStrictPrefix(AsServed(base), AsServed(Normalized(base \o path)))
<1> DEFINE X == Segments
           P == Len(path)
           kept == [i \in 1 .. P |-> Parsed[path[i]][1]]
           seen == [i \in 1 .. P |-> Decoded[path[i]][1]]
<1>0. Parsed \in [X -> Seq(X)] /\ Decoded \in [X -> Seq(X)] /\ P \in Nat
    BY PathAssumption
<1>1. \A i \in 1 .. P : /\ path[i] \in X /\ Parsed[path[i]] \in Seq(X) /\ Decoded[path[i]] \in Seq(X)
                        /\ Len(Decoded[path[i]]) = 1 /\ Decoded[path[i]][1] \notin Dots
  <2>1. DOMAIN path = 1 .. P /\ \A i \in 1 .. P : path[i] \in X
      OBVIOUS
  <2>2. \A i \in 1 .. P : Len(Decoded[path[i]]) = 1 /\ Decoded[path[i]][1] \notin Dots
      BY <2>1, Zenon DEF validate_endpoint_path
  <2>3. \A i \in 1 .. P : Parsed[path[i]] \in Seq(X) /\ Decoded[path[i]] \in Seq(X)
      BY <1>0, <2>1, Zenon
  <2> QED
      BY <2>1, <2>2, <2>3, Zenon
<1>2. \A i \in 1 .. P : Len(Parsed[path[i]]) = 1 /\ Decoded[Parsed[path[i]][1]] = Decoded[path[i]]
    BY <1>1, PathAssumption
<1>3. \A s \in Seq(X) : Len(s) = 1 => s[1] \in X /\ s = <<s[1]>>
    OBVIOUS
<1>4. \A i \in 1 .. P : /\ Parsed[path[i]] = <<kept[i]>> /\ kept[i] \in X
                        /\ Decoded[kept[i]] = <<seen[i]>> /\ seen[i] \in X /\ seen[i] \notin Dots
  <2> TAKE i \in 1 .. P
  <2>1. Parsed[path[i]] = <<Parsed[path[i]][1]>> /\ Parsed[path[i]][1] \in X
      BY <1>1, <1>2, <1>3, Zenon
  <2>2. Decoded[path[i]] = <<Decoded[path[i]][1]>> /\ Decoded[path[i]][1] \in X
      BY <1>1, <1>3, Zenon
  <2>3. kept[i] = Parsed[path[i]][1] /\ seen[i] = Decoded[path[i]][1]
      BY Zenon
  <2> QED
      BY <1>1, <1>2, <2>1, <2>2, <2>3, Zenon
<1>5. \A i \in 1 .. P : kept[i] \notin Dots
  <2> SUFFICES ASSUME NEW i \in 1 .. P, kept[i] \in Dots PROVE FALSE
      BY Zenon
  <2>1. Decoded[kept[i]] = <<kept[i]>>
      BY <1>4, PathAssumption, Zenon
  <2>2. <<kept[i]>> = <<seen[i]>>
      BY <1>4, <2>1, Zenon
  <2>3. kept[i] = seen[i]
      BY <2>2
  <2> QED
      BY <1>4, <2>3, Zenon
<1>6. kept \in Seq(X) /\ seen \in Seq(X) /\ Len(kept) = P /\ Len(seen) = P
    BY <1>0, <1>4
<1> HIDE DEF kept, seen
<1>7. Normalized(base \o path) = base \o kept
  <2>1. SegmentsOf(Parsed, path) = kept
    <3>1. \A i \in 1 .. Len(path) : Parsed[path[i]] = <<kept[i]>>
        BY <1>4, Zenon
    <3> QED
        BY <1>0, <1>6, <3>1, ReadOneByOne, Zenon
  <2>2. SegmentsOf(Parsed, base) = base
    <3>1. \A i \in 1 .. Len(base) : Parsed[base[i]] = <<base[i]>>
        OBVIOUS
    <3> QED
        BY <1>0, <3>1, ReadOneByOne
  <2>3. SegmentsOf(Parsed, base \o path) = base \o kept
    <3>1. SegmentsOf(Parsed, base \o path) = SegmentsOf(Parsed, base) \o SegmentsOf(Parsed, path)
      <4>1. InParts(X, Parsed, base, path)
          BY <1>0, ReadInParts, Zenon
      <4> QED
          BY <4>1, Zenon DEF InParts
    <3> QED
        BY <2>1, <2>2, <3>1, Zenon
  <2>4. Resolved(base) = base
    <3>1. <<>> \in Seq(X) /\ \A i \in 1 .. Len(base) : base[i] \notin Dots
        OBVIOUS
    <3>2. Resolved(<<>>) = <<>>
      <4>1. PICK f : LedAlong(f, X, <<>>)
          BY <3>1, ResolvedSteps, Zenon
      <4> QED
          BY <4>1 DEF LedAlong
    <3>3. Resolved(<<>> \o base) = Resolved(<<>>) \o base
        BY <3>1, ResolvedPlain
    <3>4. <<>> \o base = base
        OBVIOUS
    <3> QED
        BY <3>2, <3>3, <3>4
  <2>5. Resolved(base \o kept) = base \o kept
      BY <1>5, <1>6, <2>4, ResolvedPlain
  <2> QED
      BY <2>3, <2>5 DEF Normalized
<1> DEFINE under == AsServed(base)
<1>8. under \in Seq(X) /\ AsServed(base \o kept) = under \o seen
  <2> DEFINE read == SegmentsOf(Decoded, base)
  <2>1. SegmentsOf(Decoded, kept) = seen
    <3>1. Len(seen) = Len(kept) /\ \A i \in 1 .. Len(kept) : Decoded[kept[i]] = <<seen[i]>>
        BY <1>4, <1>6, Zenon
    <3> QED
        BY <1>0, <1>6, <3>1, ReadOneByOne, Zenon
  <2>2. SegmentsOf(Decoded, base \o kept) = read \o seen /\ read \in Seq(X)
    <3>1. /\ SegmentsOf(Decoded, base \o kept) = read \o SegmentsOf(Decoded, kept)
          /\ read \in Seq(X)
      <4>1. InParts(X, Decoded, base, kept)
          BY <1>0, <1>6, ReadInParts, Zenon
      <4> QED
          BY <4>1, Zenon DEF InParts
    <3> QED
        BY <2>1, <3>1, Zenon
  <2> HIDE DEF read
  <2>3. Resolved(read) \in Seq(X) /\ Resolved(read \o seen) = Resolved(read) \o seen
      BY <1>4, <1>6, <2>2, ResolvedPlain
  <2> QED
      BY <2>2, <2>3 DEF AsServed, read
<1>9. P > 0
  <2>1. path # <<>>
      BY DEF validate_endpoint_path
  <2> QED
      BY <2>1, EmptySeq
<1> HIDE DEF under
<1>10. IsStrictPrefix(under, under \o seen)
    BY <1>6, <1>8, <1>9, Extended
<1> QED
    BY <1>7, <1>8, <1>10 DEF under

-----------------------------------------------------------------------------
(* Addresses. *)

\* 16 bits are a natural number.
LEMMA Bits16Natural == Bits16 \subseteq Nat
BY DEF Bits16

\* The bytes of a 16-bit number.
LEMMA Bytes ==
    ASSUME NEW n \in Bits16
    PROVE  /\ n \div 256 \in 0 .. 255 /\ n % 256 \in 0 .. 255
           /\ n = (n \div 256) * 256 + (n % 256)
BY SMTT(20) DEF Bits16

\* Masking a number leaves the beginning of the block it is in.
LEMMA Masked ==
    ASSUME NEW n \in Nat
    PROVE  /\ n - (n % 64) = 65152 <=> 65152 <= n /\ n < 65216
           /\ n - (n % 512) = 64512 <=> 64512 <= n /\ n < 65024
<1>1. n - (n % 64) = 65152 <=> 65152 <= n /\ n < 65216
  <2> DEFINE q == n \div 64
             m == n % 64
  <2>1. q \in Nat /\ m \in 0 .. 63 /\ n = q * 64 + m
      OBVIOUS
  <2> HIDE DEF q, m
  <2>2. n - m = 65152 <=> 65152 <= n /\ n < 65216
      BY <2>1
  <2> QED
      BY <2>2 DEF m
<1>2. n - (n % 512) = 64512 <=> 64512 <= n /\ n < 65024
  <2> DEFINE q == n \div 512
             m == n % 512
  <2>1. q \in Nat /\ m \in 0 .. 511 /\ n = q * 512 + m
      OBVIOUS
  <2> HIDE DEF q, m
  <2>2. n - m = 64512 <=> 64512 <= n /\ n < 65024
      BY <2>1
  <2> QED
      BY <2>2 DEF m
<1> QED
    BY <1>1, <1>2

\* check_blocked_ipv4 refuses the internal networks, and nothing else.
LEMMA BlockedV4 ==
    ASSUME NEW n \in Bits16
    PROVE  check_blocked_ipv4(n) <=>
                \/ InNetwork(n, 0, 0, 256) \/ InNetwork(n, 10, 0, 256)
                \/ InNetwork(n, 100, 64, 64) \/ InNetwork(n, 127, 0, 256)
                \/ InNetwork(n, 169, 254, 1) \/ InNetwork(n, 172, 16, 16)
                \/ InNetwork(n, 192, 168, 1)
<1> DEFINE hi == n \div 256
           lo == n % 256
<1>1. hi \in 0 .. 255 /\ lo \in 0 .. 255 /\ n = hi * 256 + lo
    BY Bytes
<1>2. check_blocked_ipv4(n) <=>
        \/ hi \in {0, 10, 127} \/ (hi = 100 /\ lo \in 64 .. 127) \/ (hi = 169 /\ lo = 254)
        \/ (hi = 172 /\ lo \in 16 .. 31) \/ (hi = 192 /\ lo = 168)
    BY DEF check_blocked_ipv4
<1> HIDE DEF hi, lo
<1>3. /\ hi = 0 <=> InNetwork(n, 0, 0, 256)
      /\ hi = 10 <=> InNetwork(n, 10, 0, 256)
      /\ hi = 127 <=> InNetwork(n, 127, 0, 256)
    BY <1>1 DEF InNetwork
<1>4. /\ hi = 100 /\ lo \in 64 .. 127 <=> InNetwork(n, 100, 64, 64)
      /\ hi = 169 /\ lo = 254 <=> InNetwork(n, 169, 254, 1)
      /\ hi = 172 /\ lo \in 16 .. 31 <=> InNetwork(n, 172, 16, 16)
      /\ hi = 192 /\ lo = 168 <=> InNetwork(n, 192, 168, 1)
    BY <1>1 DEF InNetwork
<1> QED
    BY <1>2, <1>3, <1>4

\* check_blocked_ip refuses the addresses of the internal networks, and no others.
LEMMA BlockedIsInternal ==
    ASSUME NEW a \in {"v4", "mapped", "v6"} \X Bits16 \X Bits16
    PROVE  check_blocked_ip(a) <=> Internal(a)
<1>1. a[1] \in {"v4", "mapped", "v6"} /\ a[2] \in Bits16 /\ a[3] \in Bits16
    OBVIOUS
<1>2. CASE a[1] \in {"v4", "mapped"}
  <2>1. a[1] # "v6"
      BY <1>2
  <2> QED
      BY <1>1, <1>2, <2>1, BlockedV4 DEF check_blocked_ip, Internal
<1>3. CASE a[1] = "v6"
  <2> DEFINE n == a[2]
             m == a[3]
  <2>1. n \in Nat /\ m \in Nat
      BY <1>1, Bits16Natural
  <2>2. check_blocked_ip(a) <=>
            \/ (n = 0 /\ m \in {0, 1}) \/ n - (n % 64) = 65152 \/ n - (n % 512) = 64512
      BY <1>3 DEF check_blocked_ip
  <2>3. Internal(a) <=>
            \/ (n = 0 /\ m <= 1) \/ InNetwork(n, 254, 128, 64) \/ InNetwork(n, 252, 0, 512)
      BY <1>3 DEF Internal
  <2> HIDE DEF n, m
  <2>4. /\ n - (n % 64) = 65152 <=> InNetwork(n, 254, 128, 64)
        /\ n - (n % 512) = 64512 <=> InNetwork(n, 252, 0, 512)
      BY <2>1, Masked DEF InNetwork
  <2>5. m \in {0, 1} <=> m <= 1
      BY <2>1
  <2> QED
      BY <2>2, <2>3, <2>4, <2>5
<1> QED
    BY <1>1, <1>2, <1>3

-----------------------------------------------------------------------------
(* What each check has left behind. *)

Prepared == {"scheme", "allowlist", "bind", "assemble", "connect", "sent"}

\* The request as prepare_request gives it, and with the parameters of the bindings.
Value == prepare_request.value
Completed == [Value EXCEPT !.url.query = @ \cup BoundQuery]

\* What validate_destinations found, before the parameters were added.
Distinct ==
    LET bound == {Lower[h] : h \in request.bindings.headers}
    IN  /\ \A h \in request.headers :
            /\ Lower[h] \notin bound
            /\ request.bindings.headers \cup request.bindings.query \cup request.bindings.form # {}
                    => Lower[h] # "host"
        /\ Value.credential_header \notin bound
        /\ \A q \in Value.url.query : DecodedName[q.name] \notin request.bindings.query

\* What the client connected to.
Reached ==
    request.security = "restricted" /\ prepared.url.host \notin DOMAIN LiteralHosts =>
        address \in Addresses /\ ~check_blocked_ip(address)

\* Every stage knows what the checks before it found.
PolicyInv ==
    /\ request \in Requests
    /\ stage \in {"prepare"} \cup Prepared => validate
    /\ stage \in Prepared => prepare_request.ok
    /\ stage \in {"scheme", "allowlist", "bind"} => prepared = Value
    /\ stage \in {"assemble", "connect", "sent"} => prepared = Completed /\ Distinct
    /\ stage \in Prepared \ {"scheme"} => validate_scheme
    /\ stage \in Prepared \ {"scheme", "allowlist"} => validate_allowlist
    /\ stage \in {"connect", "sent"} => fields = [headers |-> Assembled, form |-> FormBody]
    /\ stage = "sent" => Reached

\* What depends on the request alone.
LEMMA RequestAlone ==
    ASSUME request' = request
    PROVE  /\ validate' = validate /\ prepare_request' = prepare_request
           /\ BoundQuery' = BoundQuery /\ FormBody' = FormBody
           /\ Value' = Value /\ Completed' = Completed /\ Distinct' = Distinct
<1>1. validate' = validate
    BY DEF validate, BindingsValid, form_mode
<1>2. prepare_request' = prepare_request
    BY DEF prepare_request, prepare_endpoint_request
<1>3. BoundQuery' = BoundQuery /\ FormBody' = FormBody
    BY DEF BoundQuery, FormBody
<1>4. Value' = Value
    BY <1>2 DEF Value
<1>5. Completed' = Completed
    BY <1>3, <1>4 DEF Completed
<1>6. Distinct' = Distinct
    BY <1>4 DEF Distinct
<1> QED
    BY <1>1, <1>2, <1>3, <1>4, <1>5, <1>6

\* What depends on what was prepared as well.
LEMMA PreparedAlone ==
    ASSUME request' = request, prepared' = prepared
    PROVE  /\ validate_scheme' = validate_scheme /\ validate_allowlist' = validate_allowlist
           /\ Assembled' = Assembled
<1>1. validate_scheme' = validate_scheme /\ validate_allowlist' = validate_allowlist
    BY DEF validate_scheme, validate_allowlist
<1>2. Assembled' = Assembled
    BY DEF Assembled, TypedBody, form_mode
<1> QED
    BY <1>1, <1>2

\* The parts of a request that has been prepared.
LEMMA ValueParts ==
    ASSUME request \in Requests
    PROVE  /\ \E s, h, p, q, c :
                Value = [url |-> [scheme |-> s, host |-> h, path |-> p, query |-> q],
                         credential_header |-> c]
           /\ Value.credential_header = CredentialHeader(request.server)
           /\ Value.url.query = Fields(request.url.query, "request") \cup
                Fields(IF request.server.auth = "query" THEN request.server.query ELSE {}, "endpoint")
<1>1. request \in Request /\ (~request.endpoint => request.server = NoServer)
    BY RequestsAssumption
<1>2. CASE request.endpoint
  <2> DEFINE server == request.server
             composed == Normalized(server.path \o request.url.path)
             credentials == IF server.auth = "query" THEN server.query ELSE {}
  <2>1. Value = [url |-> [scheme |-> server.base, host |-> server.host, path |-> composed,
                          query |-> Fields(request.url.query, "request")
                                        \cup Fields(credentials, "endpoint")],
                 credential_header |-> CredentialHeader(server)]
      BY <1>2 DEF Value, prepare_request, prepare_endpoint_request
  <2> HIDE DEF composed, credentials
  <2>2. /\ Value.credential_header = CredentialHeader(request.server)
        /\ Value.url.query = Fields(request.url.query, "request")
                                        \cup Fields(credentials, "endpoint")
      BY <2>1
  <2> QED
      BY <2>1, <2>2 DEF credentials
<1>3. CASE ~request.endpoint
  <2> DEFINE path == Normalized(request.url.path)
             query == Fields(request.url.query, "request")
  <2>1. Value = [url |-> [request.url EXCEPT !.query = query, !.path = path],
                 credential_header |-> NoName]
      BY <1>3 DEF Value, prepare_request
  <2>2. request.url \in Url
      BY <1>1 DEF Request
  <2> HIDE DEF path, query
  <2>3. Value = [url |-> [scheme |-> request.url.scheme, host |-> request.url.host,
                          path |-> path, query |-> query],
                 credential_header |-> NoName]
      BY <2>1, <2>2 DEF Url
  <2>4. CredentialHeader(request.server) = NoName /\ request.server.auth = "none"
      BY <1>1, <1>3 DEF CredentialHeader, NoServer
  <2>5. Fields(IF request.server.auth = "query" THEN request.server.query ELSE {}, "endpoint") = {}
      BY <2>4 DEF Fields
  <2> QED
      BY <2>3, <2>4, <2>5 DEF query
<1> QED
    BY <1>2, <1>3

\* Adding the parameters of the bindings changes the query alone.
LEMMA CompletedParts ==
    ASSUME request \in Requests
    PROVE  /\ Completed.url.scheme = Value.url.scheme /\ Completed.url.host = Value.url.host
           /\ Completed.url.path = Value.url.path
           /\ Completed.url.query = Value.url.query \cup BoundQuery
           /\ Completed.credential_header = Value.credential_header
<1>1. PICK s, h, p, q, c :
        Value = [url |-> [scheme |-> s, host |-> h, path |-> p, query |-> q],
                 credential_header |-> c]
    BY ValueParts
<1> QED
    BY <1>1 DEF Completed

\* The host of a request is a sequence of labels.
LEMMA HostType ==
    ASSUME request \in Requests
    PROVE  Completed.url.host \in Seq(STRING)
<1>1. request \in Request
    BY RequestsAssumption
<1>2. request.url.host \in Seq(STRING) /\ request.server.host \in Seq(STRING) /\ request.url \in Url
    BY <1>1 DEF Request, Server, Url
<1>3. Value.url.host \in {request.url.host, request.server.host}
    BY <1>2 DEF Value, prepare_request, prepare_endpoint_request, Url
<1> QED
    BY <1>2, <1>3, CompletedParts

-----------------------------------------------------------------------------
(* The inductive invariant. *)

\* A request begins before every check.
LEMMA PolicyInit == HttpInit => PolicyInv
BY DEF HttpInit, PolicyInv, Prepared

\* A check that is passed adds what it found, and one that is not ends the request.
LEMMA PolicyCheck ==
    ASSUME PolicyInv, ValidateOptions \/ CheckScheme \/ CheckAllowlist
    PROVE  PolicyInv'
<1>1. request' = request /\ prepared' = prepared /\ fields' = fields
    BY DEF ValidateOptions, CheckScheme, CheckAllowlist, Check
<1>2. /\ validate' = validate /\ prepare_request' = prepare_request /\ Value' = Value
      /\ validate_scheme' = validate_scheme /\ validate_allowlist' = validate_allowlist
    BY <1>1, RequestAlone, PreparedAlone
<1>3. \/ stage = "validate" /\ stage' = (IF validate THEN "prepare" ELSE "refused")
      \/ stage = "scheme" /\ stage' = (IF validate_scheme THEN "allowlist" ELSE "refused")
      \/ stage = "allowlist" /\ stage' = (IF validate_allowlist THEN "bind" ELSE "refused")
    BY DEF ValidateOptions, CheckScheme, CheckAllowlist, Check
<1> QED
    BY <1>1, <1>2, <1>3 DEF PolicyInv, Prepared

\* Preparing a request.
LEMMA PolicyPrepare ==
    ASSUME PolicyInv, PrepareRequest
    PROVE  PolicyInv'
<1>1. /\ request' = request /\ stage = "prepare"
      /\ stage' = (IF prepare_request.ok THEN "scheme" ELSE "refused")
      /\ prepare_request.ok => prepared' = Value
    BY DEF PrepareRequest, Check, Value
<1>2. validate' = validate /\ prepare_request' = prepare_request /\ Value' = Value
    BY <1>1, RequestAlone
<1> QED
    BY <1>1, <1>2 DEF PolicyInv, Prepared

\* Resolving the bindings.
LEMMA PolicyBind ==
    ASSUME PolicyInv, ResolveBindings
    PROVE  PolicyInv'
<1>1. /\ request' = request /\ stage = "bind" /\ prepared = Value
      /\ stage' = (IF validate_destinations THEN "assemble" ELSE "refused")
    BY DEF PolicyInv, ResolveBindings, Check
<1>2. /\ validate' = validate /\ prepare_request' = prepare_request /\ Value' = Value
      /\ Completed' = Completed /\ Distinct' = Distinct
    BY <1>1, RequestAlone
<1>3. CASE ~validate_destinations
    BY <1>1, <1>2, <1>3 DEF PolicyInv, Prepared
<1>4. CASE validate_destinations
  <2>1. prepared' = Completed
      BY <1>1, <1>4 DEF ResolveBindings, Completed
  <2>2. Distinct
      BY <1>1, <1>4 DEF validate_destinations, Distinct
  <2>3. prepared'.url.scheme = prepared.url.scheme /\ prepared'.url.host = prepared.url.host
      BY <1>1, <2>1, CompletedParts DEF PolicyInv
  <2>4. validate_scheme' /\ validate_allowlist'
    <3>1. validate_scheme /\ validate_allowlist
        BY <1>1 DEF PolicyInv, Prepared
    <3> QED
        BY <1>1, <2>3, <3>1 DEF validate_scheme, validate_allowlist
  <2> QED
      BY <1>1, <1>2, <1>4, <2>1, <2>2, <2>4 DEF PolicyInv, Prepared
<1> QED
    BY <1>3, <1>4

\* Putting the request together.
LEMMA PolicyAssemble ==
    ASSUME PolicyInv, AssembleRequest
    PROVE  PolicyInv'
<1>1. /\ request' = request /\ prepared' = prepared /\ stage = "assemble" /\ stage' = "connect"
      /\ fields' = [headers |-> Assembled, form |-> FormBody]
    BY DEF AssembleRequest, Check
<1>2. /\ validate' = validate /\ prepare_request' = prepare_request /\ Value' = Value
      /\ Completed' = Completed /\ Distinct' = Distinct /\ FormBody' = FormBody
      /\ validate_scheme' = validate_scheme /\ validate_allowlist' = validate_allowlist
      /\ Assembled' = Assembled
    BY <1>1, RequestAlone, PreparedAlone
<1> QED
    BY <1>1, <1>2 DEF PolicyInv, Prepared

\* Connecting.
LEMMA PolicyConnect ==
    ASSUME PolicyInv, NEW a \in Addresses, NEW b \in Addresses, Connect({a, b})
    PROVE  PolicyInv'
<1>1. /\ request' = request /\ prepared' = prepared /\ fields' = fields
      /\ stage = "connect" /\ stage' \in {"refused", "sent"}
    BY DEF Connect
<1>2. /\ validate' = validate /\ prepare_request' = prepare_request /\ Value' = Value
      /\ Completed' = Completed /\ Distinct' = Distinct /\ FormBody' = FormBody
      /\ validate_scheme' = validate_scheme /\ validate_allowlist' = validate_allowlist
      /\ Assembled' = Assembled
    BY <1>1, RequestAlone, PreparedAlone
<1>3. stage' = "sent" => Reached'
  <2> SUFFICES ASSUME stage' = "sent", request.security = "restricted",
                      prepared.url.host \notin DOMAIN LiteralHosts
               PROVE  address' \in Addresses /\ (~check_blocked_ip(address))'
      BY <1>1 DEF Reached
  <2>1. address' \in {x \in {a, b} : ~check_blocked_ip(x)}
      BY DEF Connect
  <2> QED
      BY <2>1 DEF check_blocked_ip
<1> QED
    BY <1>1, <1>2, <1>3 DEF PolicyInv, Prepared

\* Every step keeps what the checks found.
LEMMA PolicyInductive ==
    ASSUME PolicyInv, [HttpNext]_httpvars
    PROVE  PolicyInv'
<1>1. CASE UNCHANGED httpvars
  <2>1. /\ request' = request /\ prepared' = prepared /\ fields' = fields
        /\ address' = address /\ stage' = stage
      BY <1>1 DEF httpvars
  <2>2. /\ validate' = validate /\ prepare_request' = prepare_request /\ Value' = Value
        /\ Completed' = Completed /\ Distinct' = Distinct /\ FormBody' = FormBody
        /\ validate_scheme' = validate_scheme /\ validate_allowlist' = validate_allowlist
        /\ Assembled' = Assembled
      BY <2>1, RequestAlone, PreparedAlone
  <2>3. Reached' = Reached
      BY <2>1 DEF Reached, check_blocked_ip
  <2> QED
      BY <2>1, <2>2, <2>3 DEF PolicyInv, Prepared
<1>2. CASE HttpNext
  <2>1. ASSUME NEW a \in Addresses, NEW b \in Addresses, Connect({a, b}) PROVE PolicyInv'
      BY <2>1, PolicyConnect
  <2> QED
      BY <1>2, <2>1, PolicyCheck, PolicyPrepare, PolicyBind, PolicyAssemble DEF HttpNext
<1> QED
    BY <1>1, <1>2

\* The checks of a request are those of its stage, in every state.
LEMMA PolicyInvariant == HttpSpec => []PolicyInv
<1>1. PolicyInv /\ [HttpNext]_httpvars => PolicyInv'
    BY PolicyInductive
<1> QED
    BY <1>1, PolicyInit, PTL DEF HttpSpec

-----------------------------------------------------------------------------
(* Destinations. *)

\* The order of checks that execute_http.rs:176 spells out, for every request,
\* allowlist and answer of the resolver: what is sent goes to an allowed place.
THEOREM DestinationsAllowed == HttpSpec => []OnlyAllowedDestinations
<1>1. PolicyInv => OnlyAllowedDestinations
  <2> SUFFICES ASSUME PolicyInv, stage = "sent"
               PROVE  /\ request.security # "disabled"
                      /\ request.security = "restricted" =>
                            /\ prepared.url.scheme = "https"
                            /\ ~Internal(address)
                            /\ \/ prepared.url.host \in ExactDomains
                               \/ \E s \in DomainSuffixes : IsStrictSuffix(s, prepared.url.host)
                      /\ request.endpoint =>
                            /\ prepared.url.scheme = "https"
                            /\ prepared.url.host = request.server.host
                            /\ IsStrictPrefix(AsServed(request.server.path),
                                              AsServed(prepared.url.path))
      BY DEF OnlyAllowedDestinations
  <2>1. /\ request \in Requests /\ prepare_request.ok /\ prepared = Completed
        /\ validate_scheme /\ validate_allowlist /\ Reached
      BY DEF PolicyInv, Prepared
  <2>2. request.security # "disabled"
      BY <2>1 DEF validate_allowlist
  <2>3. ASSUME request.security = "restricted"
        PROVE  /\ prepared.url.scheme = "https" /\ ~Internal(address)
               /\ \/ prepared.url.host \in ExactDomains
                  \/ \E s \in DomainSuffixes : IsStrictSuffix(s, prepared.url.host)
    <3>1. prepared.url.scheme = "https"
        BY <2>1, <2>3 DEF validate_scheme
    <3>2. AllowedDomain(prepared.url.host)
        BY <2>1, <2>3 DEF validate_allowlist
    <3>3. address \in Addresses /\ ~check_blocked_ip(address)
        BY <2>1, <2>3, <3>2 DEF Reached, AllowedDomain
    <3>4. ~Internal(address)
        BY <3>3, AddressAssumption, BlockedIsInternal
    <3>5. \A s : Len(prepared.url.host) > Len(s) => s # prepared.url.host
      <4>1. prepared.url.host \in Seq(STRING)
          BY <2>1, HostType
      <4> QED
          BY <4>1
    <3> QED
        BY <3>1, <3>2, <3>4, <3>5 DEF AllowedDomain, IsStrictSuffix
  <2>4. ASSUME request.endpoint
        PROVE  /\ prepared.url.scheme = "https"
               /\ prepared.url.host = request.server.host
               /\ IsStrictPrefix(AsServed(request.server.path), AsServed(prepared.url.path))
    <3>1. /\ prepared.url.scheme = request.server.base
          /\ prepared.url.host = request.server.host
          /\ prepared.url.path = Normalized(request.server.path \o request.url.path)
        BY <2>1, <2>4, CompletedParts DEF Value, prepare_request, prepare_endpoint_request
    <3>2. /\ validate_endpoint_path(request.url.path)
          /\ from_options(request.server) /\ request.server.base # "none"
        BY <2>1, <2>4 DEF prepare_request, prepare_endpoint_request
    <3>3. /\ request.server.path \in Seq(Segments) /\ request.url.path \in Seq(Segments)
          /\ \A i \in DOMAIN request.server.path :
                /\ Parsed[request.server.path[i]] = <<request.server.path[i]>>
                /\ request.server.path[i] \notin Dots
      <4>1. request \in Request
          BY <2>1, RequestsAssumption
      <4>2. request.server.path \in Seq(Segments) /\ request.url.path \in Seq(Segments)
          BY <4>1 DEF Request, Server, Url
      <4> QED
          BY <2>1, <4>2, RequestsAssumption, Zenon
    <3>4. IsStrictPrefix(AsServed(request.server.path), AsServed(prepared.url.path))
        BY <3>1, <3>2, <3>3, BelowBase
    <3> QED
        BY <3>1, <3>2, <3>4 DEF from_options
  <2> QED
      BY <2>2, <2>3, <2>4
<1> QED
    BY <1>1, PolicyInvariant, PTL

-----------------------------------------------------------------------------
(* Credentials. *)

\* The members of a set of fields.
LEMMA FieldsMembers ==
    ASSUME NEW names, NEW from
    PROVE  /\ \A f \in Fields(names, from) : f.name \in names /\ f.from = from /\ f = Field(f.name, from)
           /\ \A n \in names : Field(n, from) \in Fields(names, from)
BY DEF Fields, Field

\* The parts of a field.
LEMMA FieldParts == \A n, from : Field(n, from).name = n /\ Field(n, from).from = from
BY DEF Field

\* Only the bound headers could be replaced, and no other has the name of one.
Ordinary == {h \in request.headers : TypedBody => Lower[h] # "content-type"}
OfEndpoint == {CredentialHeader(request.server)} \ {NoName}
OfBindings == {Lower[n] : n \in request.bindings.headers}
OfClient == IF TypedBody THEN {"content-type"} ELSE {}

\* The types of the names of a request.
LEMMA NamesType ==
    ASSUME request \in Requests
    PROVE  /\ request.headers \subseteq FieldNames /\ request.bindings.headers \subseteq FieldNames
           /\ request.bindings \in Bindings
           /\ request.url.query \subseteq FieldNames /\ request.server.query \subseteq FieldNames
           /\ request.form_fields \subseteq FieldNames
<1>1. request \in Request
    BY RequestsAssumption
<1>2. request.bindings \in Bindings /\ request.url \in Url /\ request.server \in Server
    BY <1>1 DEF Request
<1> QED
    BY <1>1, <1>2 DEF Request, Bindings, Url, Server

\* The names of the headers of each origin, as they are compared.
LEMMA HeaderNames ==
    ASSUME request \in Requests, validate, prepare_request.ok, Distinct
    PROVE  /\ \A n \in Ordinary : Lower[n] \notin OfEndpoint \cup OfBindings \cup OfClient
           /\ \A n \in OfEndpoint : n \in FieldNames /\ Lower[n] = n /\ n \notin OfBindings \cup OfClient
           /\ \A n \in OfBindings : n \in FieldNames /\ Lower[n] = n /\ n \notin OfClient
           /\ \A n \in OfClient : n \in FieldNames /\ Lower[n] = n
           /\ "host" \notin OfEndpoint \cup OfBindings \cup OfClient
<1> DEFINE server == request.server
           c == CredentialHeader(server)
<1>1. request \in Request /\ server \in Server
      /\ (~request.endpoint => server = NoServer)
      /\ (server.auth = "header" => server.header_name # NoName)
    BY RequestsAssumption DEF Request
<1>2. request.endpoint =>
        /\ from_options(server)
        /\ \A h \in request.headers : Lower[h] \notin {"host", c}
    BY DEF prepare_request, prepare_endpoint_request
<1>3. c # NoName => request.endpoint
    BY <1>1 DEF CredentialHeader, NoServer
<1>4. c # NoName =>
        /\ c \in FieldNames /\ Lower[c] = c
        /\ c = "authorization" \/ c \notin Routing
  <2>1. CASE server.auth = "bearer"
      BY <2>1, SpellingAssumption DEF CredentialHeader
  <2>2. CASE server.auth = "header"
    <3>1. server.header_name \in FieldNames
        BY <1>1, <2>2 DEF Server
    <3>2. c = Lower[server.header_name]
        BY <2>2 DEF CredentialHeader
    <3>3. request.endpoint
      <4>1. NoServer.auth = "none"
          BY DEF NoServer
      <4> QED
          BY <1>1, <2>2, <4>1
    <3>4. Lower[server.header_name] \notin Routing
        BY <1>2, <2>2, <3>3 DEF from_options
    <3> QED
        BY <3>1, <3>2, <3>4, SpellingAssumption
  <2>3. CASE server.auth \notin {"bearer", "header"}
      BY <2>3 DEF CredentialHeader
  <2> QED
      BY <2>1, <2>2, <2>3
<1>5. "authorization" # "host" /\ "authorization" # "content-type"
    OBVIOUS
<1>6. "host" \in Routing /\ "content-type" \in Routing
    BY DEF Routing
<1>7. Value.credential_header = c
    BY ValueParts
<1>8. \A n \in OfBindings : n \in FieldNames /\ Lower[n] = n /\ n \notin Routing
  <2>1. \A m \in request.bindings.headers : m \in FieldNames /\ Lower[m] \notin Routing
      BY NamesType DEF validate, BindingsValid
  <2> QED
      BY <2>1, SpellingAssumption DEF OfBindings
<1>9. c # NoName => c \notin OfBindings
    BY <1>7 DEF Distinct, OfBindings
<1> HIDE DEF c
<1>10. OfEndpoint = {c} \ {NoName}
    BY DEF OfEndpoint, c
<1>11. \A n \in Ordinary : Lower[n] \notin OfEndpoint \cup OfBindings \cup OfClient
  <2> TAKE n \in Ordinary
  <2>1. n \in request.headers /\ (TypedBody => Lower[n] # "content-type")
      BY DEF Ordinary
  <2>2. Lower[n] \notin OfBindings
      BY <2>1 DEF Distinct, OfBindings
  <2> QED
      BY <1>2, <1>3, <1>10, <2>1, <2>2 DEF OfClient
<1>12. \A n \in OfEndpoint : n \in FieldNames /\ Lower[n] = n /\ n \notin OfBindings \cup OfClient
    BY <1>4, <1>5, <1>6, <1>9, <1>10 DEF OfClient
<1>13. \A n \in OfClient : n \in FieldNames /\ Lower[n] = n
    BY SpellingAssumption DEF OfClient
<1>14. "host" \notin OfEndpoint \cup OfBindings \cup OfClient
  <2>1. "host" # "content-type"
      OBVIOUS
  <2> QED
      BY <1>4, <1>5, <1>6, <1>8, <1>10, <2>1 DEF OfClient
<1> QED
    BY <1>6, <1>8, <1>11, <1>12, <1>13, <1>14 DEF OfClient

\* No header is replaced.
LEMMA AssembledParts ==
    ASSUME request \in Requests, validate, prepare_request.ok, Distinct,
           prepared.credential_header = CredentialHeader(request.server)
    PROVE  Assembled = Fields(Ordinary, "request") \cup Fields(OfEndpoint, "endpoint")
                        \cup Fields(OfBindings, "secret") \cup Fields(OfClient, "client")
<1> DEFINE old == Fields(Ordinary, "request") \cup Fields(OfEndpoint, "endpoint")
           new == Fields(OfBindings, "secret")
<1>1. Assembled = Replace(old, new) \cup Fields(OfClient, "client")
    BY DEF Assembled, Ordinary, OfEndpoint, OfBindings, OfClient
<1>2. \A f \in old : Lower[f.name] \notin {Lower[n.name] : n \in new}
  <2>1. \A f \in old : f.name \in Ordinary \cup OfEndpoint
      BY FieldsMembers
  <2>2. \A n \in new : n.name \in OfBindings
      BY FieldsMembers
  <2> HIDE DEF old, new
  <2>3. \A f \in old, n \in new : Lower[f.name] # Lower[n.name]
      BY <2>1, <2>2, HeaderNames
  <2> QED
      BY <2>3
<1> HIDE DEF old, new
<1>3. Replace(old, new) = old \cup new
    BY <1>2 DEF Replace
<1> QED
    BY <1>1, <1>3 DEF old, new

\* One field of four kinds has a name that no other kind has.
LEMMA OnceAmong ==
    ASSUME NEW set, NEW read, NEW name, NEW from, NEW f \in set, f.from = from, read[f.name] = name,
           \A g \in set : read[g.name] = name => g = f
    PROVE  Once(set, read, name, from)
BY DEF Once, Named

\* Credentials in the headers.
LEMMA HeadersOnce ==
    ASSUME request \in Requests, validate, prepare_request.ok, Distinct,
           prepared.credential_header = CredentialHeader(request.server)
    PROVE  /\ CredentialHeader(request.server) # NoName =>
                Once(Assembled, Lower, CredentialHeader(request.server), "endpoint")
           /\ \A n \in request.bindings.headers : Once(Assembled, Lower, Lower[n], "secret")
           /\ Fields(Ordinary, "request") \subseteq Assembled
           /\ request.bindings # NoBindings \/ request.endpoint =>
                Named(Assembled, Lower, "host") = {}
           /\ TypedBody => Once(Assembled, Lower, "content-type", "client")
<1>1. \A f \in Assembled :
        \/ f.name \in Ordinary
        \/ f = Field(f.name, "endpoint") /\ f.name \in OfEndpoint
        \/ f = Field(f.name, "secret") /\ f.name \in OfBindings
        \/ f = Field(f.name, "client") /\ f.name \in OfClient
    BY AssembledParts, FieldsMembers
<1>2. /\ \A n \in OfEndpoint : Field(n, "endpoint") \in Assembled
      /\ \A n \in OfBindings : Field(n, "secret") \in Assembled
      /\ \A n \in OfClient : Field(n, "client") \in Assembled
    BY AssembledParts, FieldsMembers
<1>3. \A n, from : Field(n, from).name = n /\ Field(n, from).from = from
    BY FieldParts
<1>4. ASSUME NEW n \in OfEndpoint PROVE Once(Assembled, Lower, n, "endpoint")
  <2>1. Lower[n] = n /\ \A g \in Assembled : Lower[g.name] = n => g = Field(n, "endpoint")
      BY <1>1, HeaderNames
  <2> DEFINE f == Field(n, "endpoint")
  <2>2. f \in Assembled /\ f.from = "endpoint" /\ Lower[f.name] = n
      BY <1>2, <1>3, <2>1
  <2> HIDE DEF f
  <2> QED
      BY <2>1, <2>2, OnceAmong DEF f
<1>5. ASSUME NEW n \in OfBindings PROVE Once(Assembled, Lower, n, "secret")
  <2>1. Lower[n] = n /\ \A g \in Assembled : Lower[g.name] = n => g = Field(n, "secret")
      BY <1>1, HeaderNames
  <2> DEFINE f == Field(n, "secret")
  <2>2. f \in Assembled /\ f.from = "secret" /\ Lower[f.name] = n
      BY <1>2, <1>3, <2>1
  <2> HIDE DEF f
  <2> QED
      BY <2>1, <2>2, OnceAmong DEF f
<1>6. ASSUME NEW n \in OfClient PROVE Once(Assembled, Lower, n, "client")
  <2>1. Lower[n] = n /\ \A g \in Assembled : Lower[g.name] = n => g = Field(n, "client")
      BY <1>1, HeaderNames
  <2> DEFINE f == Field(n, "client")
  <2>2. f \in Assembled /\ f.from = "client" /\ Lower[f.name] = n
      BY <1>2, <1>3, <2>1
  <2> HIDE DEF f
  <2> QED
      BY <2>1, <2>2, OnceAmong DEF f
<1>7. Fields(Ordinary, "request") \subseteq Assembled
    BY AssembledParts
<1>8. ASSUME request.bindings # NoBindings \/ request.endpoint
      PROVE  Named(Assembled, Lower, "host") = {}
  <2>1. \A h \in request.headers : Lower[h] # "host"
    <3>1. CASE request.endpoint
        BY <3>1 DEF prepare_request, prepare_endpoint_request
    <3>2. CASE request.bindings # NoBindings
      <4>1. request.bindings \in Bindings
          BY NamesType
      <4>2. request.bindings.headers \cup request.bindings.query \cup request.bindings.form # {}
          BY <3>2, <4>1 DEF Bindings, NoBindings
      <4> QED
          BY <4>2 DEF Distinct
    <3> QED
        BY <1>8, <3>1, <3>2
  <2>2. \A n \in Ordinary : Lower[n] # "host"
      BY <2>1 DEF Ordinary
  <2>3. \A n \in OfEndpoint \cup OfBindings \cup OfClient : Lower[n] # "host"
      BY HeaderNames
  <2> QED
      BY <1>1, <2>2, <2>3 DEF Named
<1>9. CredentialHeader(request.server) # NoName =>
        Once(Assembled, Lower, CredentialHeader(request.server), "endpoint")
    BY <1>4 DEF OfEndpoint
<1>10. \A n \in request.bindings.headers : Once(Assembled, Lower, Lower[n], "secret")
    BY <1>5 DEF OfBindings
<1>11. TypedBody => Once(Assembled, Lower, "content-type", "client")
    BY <1>6 DEF OfClient
<1> QED
    BY <1>7, <1>8, <1>9, <1>10, <1>11

\* Credentials in the query.
LEMMA QueryOnce ==
    ASSUME request \in Requests, prepare_request.ok, Distinct
    PROVE  /\ request.server.auth = "query" =>
                \A q \in request.server.query :
                    /\ Field(q, "endpoint") \in Completed.url.query
                    /\ \A f \in Named(Completed.url.query, DecodedName, DecodedName[q]) :
                            f.from = "endpoint"
           /\ \A n \in request.bindings.query : Once(Completed.url.query, DecodedName, n, "secret")
<1> DEFINE credentials == IF request.server.auth = "query" THEN request.server.query ELSE {}
           given == Fields(request.url.query, "request")
           endpoint == Fields(credentials, "endpoint")
           query == Completed.url.query
<1>1. Value.url.query = given \cup endpoint /\ query = given \cup endpoint \cup BoundQuery
    BY ValueParts, CompletedParts
<1>2. \A f \in BoundQuery :
        \E n \in request.bindings.query : f = Field(Encoded[n], "secret") /\ f.name = Encoded[n]
    BY FieldsMembers DEF BoundQuery
<1>3. \A n \in request.bindings.query :
        Field(Encoded[n], "secret") \in BoundQuery /\ DecodedName[Encoded[n]] = n
  <2>1. request.bindings.query \subseteq DOMAIN Encoded
      BY NamesType DEF Bindings
  <2> QED
      BY <2>1, FieldsMembers, SpellingAssumption DEF BoundQuery
<1>4. /\ \A f \in given : f.name \in request.url.query /\ f.from = "request"
      /\ \A f \in endpoint : f.name \in credentials /\ f.from = "endpoint"
      /\ \A q \in credentials : Field(q, "endpoint") \in endpoint
    BY FieldsMembers
<1>5. \A f \in given \cup endpoint : DecodedName[f.name] \notin request.bindings.query
    BY <1>1 DEF Distinct
<1>6. ASSUME NEW q \in credentials, NEW f \in given PROVE DecodedName[f.name] # DecodedName[q]
  <2>1. request.server.auth = "query" /\ q \in request.server.query
      OBVIOUS
  <2>2. request.endpoint
    <3>1. NoServer.auth = "none"
        BY DEF NoServer
    <3> QED
        BY <2>1, <3>1, RequestsAssumption
  <2>3. \A m \in request.url.query : DecodedName[m] # DecodedName[q]
      BY <2>1, <2>2 DEF prepare_request, prepare_endpoint_request
  <2> QED
      BY <1>4, <2>3
<1> HIDE DEF credentials, given, endpoint, query
<1>7. ASSUME NEW q \in credentials
      PROVE  /\ Field(q, "endpoint") \in query
             /\ \A f \in Named(query, DecodedName, DecodedName[q]) : f.from = "endpoint"
  <2>1. Field(q, "endpoint") \in endpoint /\ Field(q, "endpoint") \in query
      BY <1>1, <1>4
  <2>2. DecodedName[q] \notin request.bindings.query
      BY <1>5, <2>1, FieldParts
  <2>3. \A f \in BoundQuery : DecodedName[f.name] \in request.bindings.query
      BY <1>2, <1>3
  <2> QED
      BY <1>1, <1>4, <1>6, <2>1, <2>2, <2>3 DEF Named
<1>8. ASSUME NEW n \in request.bindings.query PROVE Once(query, DecodedName, n, "secret")
  <2> DEFINE f == Field(Encoded[n], "secret")
  <2>1. f \in query /\ f.from = "secret" /\ DecodedName[f.name] = n
      BY <1>1, <1>3, FieldParts
  <2>2. \A g \in BoundQuery : DecodedName[g.name] = n => g = f
      BY <1>2, <1>3
  <2>3. \A g \in query : DecodedName[g.name] = n => g = f
      BY <1>1, <1>5, <2>2
  <2> HIDE DEF f
  <2> QED
      BY <2>1, <2>3, OnceAmong
<1> QED
    BY <1>7, <1>8 DEF credentials, query

\* Secrets in the form.
LEMMA FormOnce ==
    ASSUME request \in Requests, validate
    PROVE  /\ \A n \in request.bindings.form : Once(FormBody, AsIs, n, "secret")
           /\ Fields(request.form_fields, "request") \subseteq FormBody
<1> DEFINE given == request.form_fields
           bound == request.bindings.form
<1>1. given \subseteq FieldNames /\ bound \subseteq FieldNames
    BY NamesType DEF Bindings
<1>2. given \cap bound = {}
  <2>1. CASE form_mode
      BY <2>1 DEF validate
  <2>2. CASE ~form_mode
      BY <2>2 DEF form_mode
  <2> QED
      BY <2>1, <2>2
<1>3. FormBody = Fields(given, "request") \cup Fields(bound, "secret")
  <2>1. given \ bound = given
      BY <1>2
  <2> QED
      BY <2>1 DEF FormBody
<1> HIDE DEF given, bound
<1>4. /\ \A f \in FormBody : \/ f.name \in given
                             \/ f = Field(f.name, "secret") /\ f.name \in bound
      /\ \A n \in bound : Field(n, "secret") \in FormBody
    BY <1>3, FieldsMembers
<1>5. \A n \in FieldNames : AsIs[n] = n
    BY DEF AsIs
<1>6. ASSUME NEW n \in bound PROVE Once(FormBody, AsIs, n, "secret")
  <2>1. \A f \in FormBody : AsIs[f.name] = f.name
      BY <1>1, <1>4, <1>5
  <2>2. \A f \in FormBody : AsIs[f.name] = n => f = Field(n, "secret")
      BY <1>2, <1>4, <2>1
  <2> QED
    <3> DEFINE f == Field(n, "secret")
    <3>1. f \in FormBody /\ f.from = "secret" /\ AsIs[f.name] = n
        BY <1>1, <1>4, <1>5, FieldParts
    <3> HIDE DEF f
    <3> QED
        BY <2>2, <3>1, OnceAmong DEF f
<1> QED
    BY <1>3, <1>6 DEF given, bound

\* Credentials and the rest of a request never meet under one name, for every
\* endpoint, set of bindings and spelling (secrets.rs:189, endpoints.rs:145).
THEOREM CredentialsOnce == HttpSpec => []CredentialsArriveOnce
<1>1. PolicyInv => CredentialsArriveOnce
  <2> SUFFICES ASSUME PolicyInv, stage = "sent" PROVE CredentialsArriveOnce
      BY DEF CredentialsArriveOnce
  <2>1. /\ request \in Requests /\ validate /\ prepare_request.ok /\ Distinct
        /\ prepared = Completed /\ fields = [headers |-> Assembled, form |-> FormBody]
      BY DEF PolicyInv, Prepared
  <2>2. prepared.credential_header = CredentialHeader(request.server)
      BY <2>1, ValueParts, CompletedParts
  <2>3. fields.headers = Assembled /\ fields.form = FormBody
        /\ prepared.url.query = Completed.url.query
      BY <2>1
  <2> QED
      BY <2>1, <2>2, <2>3, HeadersOnce, QueryOnce, FormOnce DEF CredentialsArriveOnce, Ordinary
<1> QED
    BY <1>1, PolicyInvariant, PTL

-----------------------------------------------------------------------------
(* String literals. *)

\* What a character is written as.
Wide(ch, chars) == IF ch \in chars THEN <<ch, ch>> ELSE <<ch>>

\* The text after n characters.
WrittenAlong(f, X, s, chars) ==
    /\ f \in [0 .. Len(s) -> Seq(X)]
    /\ f[0] = <<>> /\ \A n \in 1 .. Len(s) : f[n] = f[n - 1] \o Wide(s[n], chars)
    /\ Doubled(s, chars) = f[Len(s)]

\* Doubling writes one character after the other.
LEMMA DoubledSteps ==
    ASSUME NEW X, NEW s \in Seq(X), NEW chars
    PROVE  \E f : WrittenAlong(f, X, s, chars)
<1> DEFINE N == Len(s)
           Y == Seq(X)
           K(at, n) == at \o Wide(s[n], chars)
           D == [a \in Y \X (1 .. N) |-> K(a[1], a[2])]
           Next(g) == [n \in 0 .. N |-> IF n = 0 THEN <<>> ELSE K(g[n - 1], n)]
           f == CHOOSE g : g = Next(g)
<1>1. N \in Nat /\ <<>> \in Y /\ \A at \in Y, n \in 1 .. N : K(at, n) \in Y
  <2>1. \A n \in 1 .. N : Wide(s[n], chars) \in Y
    <3> TAKE n \in 1 .. N
    <3>1. s[n] \in X
        OBVIOUS
    <3>2. <<s[n], s[n]>> \in Y /\ <<s[n]>> \in Y
        BY <3>1
    <3> QED
        BY <3>2 DEF Wide
  <2> QED
      BY <2>1
<1>2. Doubled(s, chars) = f[N]
    BY DEF Doubled, Wide
<1> HIDE DEF N, Y, K, f
<1>3. D \in [Y \X (1 .. N) -> Y] /\ \A at \in Y, n \in 1 .. N : D[<<at, n>>] = K(at, n)
    BY <1>1
<1>4. \E h : h = Next(h)
  <2> HIDE DEF D
  <2>0. PICK h : Along(h, Y, <<>>, N, D)
      BY <1>1, <1>3, Recursion, Zenon
  <2>1. h \in [0 .. N -> Y] /\ h[0] = <<>> /\ \A n \in 1 .. N : h[n] = D[<<h[n - 1], n>>]
      BY <2>0 DEF Along
  <2>2. \A n \in 1 .. N : h[n - 1] \in Y
      BY <1>1, <2>1
  <2>3. \A n \in 1 .. N : h[n] = K(h[n - 1], n)
      BY <1>3, <2>1, <2>2
  <2>4. h = Next(h)
      BY <2>1, <2>3
  <2> HIDE DEF Next
  <2> QED
      BY <2>4
<1>5. f = Next(f)
  <2> HIDE DEF Next
  <2> QED
      BY <1>4, Zenon DEF f
<1>6. DOMAIN f = 0 .. N /\ f[0] = <<>> /\ \A n \in 1 .. N : f[n] = K(f[n - 1], n)
    BY <1>1, <1>5
<1> DEFINE S == {n \in 0 .. N : f[n] \in Y}
<1>7. 0 \in S /\ \A n \in 1 .. N : n - 1 \in S => n \in S
    BY <1>1, <1>6
<1>8. S = 0 .. N
  <2>1. S \in SUBSET (0 .. N)
      OBVIOUS
  <2> HIDE DEF S
  <2> QED
      BY <1>1, <1>7, <2>1, UpTo
<1>9. f \in [0 .. N -> Y]
    BY <1>5, <1>8
<1> QED
  <2>1. WrittenAlong(f, X, s, chars)
      BY <1>2, <1>6, <1>9, Zenon DEF N, Y, K, WrittenAlong
  <2> HIDE DEF f
  <2> QED
      BY <2>1, Zenon

\* Where a scan can be.
Scans(X) == [at : Nat \ {0}, value : Seq(X), open : BOOLEAN]
ScanStart == [at |-> 1, value |-> <<>>, open |-> TRUE]

\* A step of the scan leads from such a place to another.
LEMMA ReadStepType ==
    ASSUME NEW X, "'" \in X, NEW s \in Seq(X), NEW escapes \in BOOLEAN, NEW scan \in Scans(X)
    PROVE  ReadStep(s, escapes, scan) \in Scans(X)
<1>1. scan.at \in Nat \ {0} /\ scan.value \in Seq(X) /\ Len(s) \in Nat
    BY DEF Scans
<1>2. ASSUME NEW n \in {1, 2}, NEW ch \in X
      PROVE  [at |-> scan.at + n, value |-> Append(scan.value, ch), open |-> TRUE] \in Scans(X)
    BY <1>1 DEF Scans
<1>3. [at |-> scan.at + 1, value |-> scan.value, open |-> FALSE] \in Scans(X)
    BY <1>1 DEF Scans
<1>4. scan.at <= Len(s) => s[scan.at] \in X
    BY <1>1
<1>5. scan.at < Len(s) => s[scan.at + 1] \in X
    BY <1>1
<1>6. ReadStep(s, escapes, scan) \in
        {scan, [at |-> scan.at + 2, value |-> Append(scan.value, "'"), open |-> TRUE],
         [at |-> scan.at + 1, value |-> scan.value, open |-> FALSE]}
      \/ /\ scan.at < Len(s)
         /\ ReadStep(s, escapes, scan) =
                [at |-> scan.at + 2, value |-> Append(scan.value, s[scan.at + 1]), open |-> TRUE]
      \/ /\ scan.at <= Len(s)
         /\ ReadStep(s, escapes, scan) =
                [at |-> scan.at + 1, value |-> Append(scan.value, s[scan.at]), open |-> TRUE]
  <2>1. scan.at > Len(s) \/ scan.at <= Len(s)
      BY <1>1
  <2> QED
      BY <2>1, Zenon DEF ReadStep, TakeCharacter
<1>7. [at |-> scan.at + 2, value |-> Append(scan.value, "'"), open |-> TRUE] \in Scans(X)
    BY <1>2
<1>8. scan.at < Len(s) =>
        [at |-> scan.at + 2, value |-> Append(scan.value, s[scan.at + 1]), open |-> TRUE] \in Scans(X)
    BY <1>2, <1>5
<1>9. scan.at <= Len(s) =>
        [at |-> scan.at + 1, value |-> Append(scan.value, s[scan.at]), open |-> TRUE] \in Scans(X)
    BY <1>2, <1>4
<1> QED
    BY <1>3, <1>6, <1>7, <1>8, <1>9, Zenon

\* The scan after n steps.
ScanAlong(f, X, s, escapes) ==
    /\ f \in [0 .. Len(s) -> Scans(X)]
    /\ f[0] = ScanStart /\ \A n \in 1 .. Len(s) : f[n] = ReadStep(s, escapes, f[n - 1])
    /\ ReadLiteral(s, escapes) =
            [value |-> f[Len(s)].value,
             rest |-> IF f[Len(s)].open THEN <<"end">> ELSE SubSeq(s, f[Len(s)].at, Len(s))]

\* Reading goes one step after the other.
LEMMA ReadLiteralSteps ==
    ASSUME NEW X, "'" \in X, NEW s \in Seq(X), NEW escapes \in BOOLEAN
    PROVE  \E f : ScanAlong(f, X, s, escapes)
<1> DEFINE N == Len(s)
           K(scan, n) == ReadStep(s, escapes, scan)
           D == [a \in Scans(X) \X (1 .. N) |-> K(a[1], a[2])]
           Next(g) == [n \in 0 .. N |-> IF n = 0 THEN ScanStart ELSE K(g[n - 1], n)]
           f == CHOOSE g : g = Next(g)
<1>1. N \in Nat /\ ScanStart \in Scans(X) /\ \A scan \in Scans(X), n \in 1 .. N : K(scan, n) \in Scans(X)
  <2>1. N \in Nat /\ ScanStart \in Scans(X)
      BY DEF Scans, ScanStart
  <2>2. \A scan \in Scans(X), n \in 1 .. N : K(scan, n) \in Scans(X)
      BY ReadStepType
  <2> QED
      BY <2>1, <2>2
<1>2. ReadLiteral(s, escapes) =
            [value |-> f[N].value, rest |-> IF f[N].open THEN <<"end">> ELSE SubSeq(s, f[N].at, N)]
    BY DEF ReadLiteral, ReadResult, ScanStart
<1> HIDE DEF N, K, f
<1>3. /\ D \in [Scans(X) \X (1 .. N) -> Scans(X)]
      /\ \A scan \in Scans(X), n \in 1 .. N : D[<<scan, n>>] = K(scan, n)
    BY <1>1
<1>4. \E h : h = Next(h)
  <2> HIDE DEF D
  <2>0. PICK h : Along(h, Scans(X), ScanStart, N, D)
      BY <1>1, <1>3, Recursion, Zenon
  <2>1. h \in [0 .. N -> Scans(X)] /\ h[0] = ScanStart /\ \A n \in 1 .. N : h[n] = D[<<h[n - 1], n>>]
      BY <2>0 DEF Along
  <2>2. \A n \in 1 .. N : h[n - 1] \in Scans(X)
      BY <1>1, <2>1
  <2>3. \A n \in 1 .. N : h[n] = K(h[n - 1], n)
      BY <1>3, <2>1, <2>2
  <2>4. h = Next(h)
      BY <2>1, <2>3
  <2> HIDE DEF Next
  <2> QED
      BY <2>4
<1>5. f = Next(f)
  <2> HIDE DEF Next
  <2> QED
      BY <1>4, Zenon DEF f
<1>6. DOMAIN f = 0 .. N /\ f[0] = ScanStart /\ \A n \in 1 .. N : f[n] = K(f[n - 1], n)
    BY <1>1, <1>5
<1> DEFINE S == {n \in 0 .. N : f[n] \in Scans(X)}
<1>7. 0 \in S /\ \A n \in 1 .. N : n - 1 \in S => n \in S
    BY <1>1, <1>6
<1>8. S = 0 .. N
  <2>1. S \in SUBSET (0 .. N)
      OBVIOUS
  <2> HIDE DEF S
  <2> QED
      BY <1>1, <1>7, <2>1, UpTo
<1>9. f \in [0 .. N -> Scans(X)]
    BY <1>5, <1>8
<1> QED
  <2>1. ScanAlong(f, X, s, escapes)
      BY <1>2, <1>6, <1>9, Zenon DEF N, K, ScanAlong
  <2> HIDE DEF f
  <2> QED
      BY <2>1, Zenon

\* What was written stays.
LEMMA WrittenStays ==
    ASSUME NEW X, NEW s \in Seq(X), NEW chars, NEW f, WrittenAlong(f, X, s, chars), NEW n \in 0 .. Len(s)
    PROVE  /\ Len(f[n]) \in Nat /\ Len(f[n]) <= Len(Doubled(s, chars))
           /\ \A i \in 1 .. Len(f[n]) : Doubled(s, chars)[i] = f[n][i]
<1> DEFINE N == Len(s)
           Kept(m) == Len(f[n]) <= Len(f[m]) /\ \A i \in 1 .. Len(f[n]) : f[m][i] = f[n][i]
           S == {m \in 0 .. N : m >= n => Kept(m)}
<1>1. N \in Nat /\ n \in 0 .. N /\ \A m \in 0 .. N : f[m] \in Seq(X) /\ Len(f[m]) \in Nat
  <2>1. N \in Nat /\ n \in 0 .. N
      OBVIOUS
  <2>2. \A m \in 0 .. N : f[m] \in Seq(X)
      BY DEF WrittenAlong
  <2> QED
      BY <2>1, <2>2
<1>2. \A m \in 1 .. N : f[m] = f[m - 1] \o Wide(s[m], chars)
    BY DEF WrittenAlong
<1>3. \A m \in 1 .. N : Wide(s[m], chars) \in Seq(X)
  <2> TAKE m \in 1 .. N
  <2>1. s[m] \in X
      OBVIOUS
  <2>2. <<s[m], s[m]>> \in Seq(X) /\ <<s[m]>> \in Seq(X)
      BY <2>1
  <2> QED
      BY <2>2 DEF Wide
<1>4. Doubled(s, chars) = f[N]
    BY DEF WrittenAlong
<1> HIDE DEF N
<1>5. Kept(n)
    BY <1>1
<1>6. 0 \in S
  <2>1. 0 >= n => n = 0
      BY <1>1
  <2> QED
      BY <2>1, <1>1, <1>5
<1>7. ASSUME NEW m \in 1 .. N, m - 1 \in S PROVE m \in S
  <2>1. CASE m > n
    <3>1. m - 1 \in 0 .. N /\ m - 1 >= n /\ m \in 0 .. N
        BY <2>1, <1>1
    <3>2. Kept(m - 1)
        BY <3>1, <1>7
    <3> DEFINE a == f[m - 1]
               b == Wide(s[m], chars)
               c == f[n]
    <3>3. a \in Seq(X) /\ b \in Seq(X) /\ c \in Seq(X) /\ f[m] = a \o b
        BY <3>1, <1>1, <1>2, <1>3
    <3>4. Len(c) <= Len(a) /\ \A i \in 1 .. Len(c) : a[i] = c[i]
        BY <3>2
    <3> HIDE DEF a, b, c
    <3>5. Len(a \o b) = Len(a) + Len(b) /\ \A i \in 1 .. Len(a) : (a \o b)[i] = a[i]
        BY <3>3
    <3>6. Len(a) \in Nat /\ Len(b) \in Nat /\ Len(c) \in Nat
        BY <3>3
    <3>7. Len(c) <= Len(a \o b) /\ \A i \in 1 .. Len(c) : (a \o b)[i] = c[i]
        BY ONLY <3>4, <3>5, <3>6
    <3>8. Kept(m)
        BY <3>3, <3>7 DEF c
    <3> QED
        BY <3>1, <3>8
  <2>2. CASE m = n
      BY <2>2, <1>1, <1>5
  <2>3. CASE m < n
      BY <2>3, <1>1
  <2> QED
      BY <2>1, <2>2, <2>3, <1>1
<1>8. S \in SUBSET (0 .. N)
    OBVIOUS
<1> HIDE DEF S
<1>9. S = 0 .. N
    BY <1>1, <1>6, <1>7, <1>8, UpTo
<1>10. Kept(N)
  <2>1. N \in S /\ N >= n
      BY <1>1, <1>9
  <2> QED
      BY <2>1 DEF S
<1> QED
    BY <1>1, <1>4, <1>10

\* Where a character is written.
LEMMA WrittenWhere ==
    ASSUME NEW X, NEW s \in Seq(X), NEW chars, NEW f, WrittenAlong(f, X, s, chars), NEW n \in 1 .. Len(s)
    PROVE  LET k == Len(f[n - 1])
               d == Doubled(s, chars)
           IN  /\ k \in Nat /\ k + 1 <= Len(d) /\ d[k + 1] = s[n]
               /\ s[n] \in chars => Len(f[n]) = k + 2 /\ k + 2 <= Len(d) /\ d[k + 2] = s[n]
               /\ s[n] \notin chars => Len(f[n]) = k + 1
<1> DEFINE a == f[n - 1]
           b == Wide(s[n], chars)
           k == Len(a)
           d == Doubled(s, chars)
<1>1. n \in 0 .. Len(s) /\ n - 1 \in 0 .. Len(s) /\ s[n] \in X
    OBVIOUS
<1>2. a \in Seq(X) /\ f[n] = a \o b
    BY <1>1 DEF WrittenAlong
<1>3. /\ b \in Seq(X) /\ b[1] = s[n]
      /\ s[n] \in chars => Len(b) = 2 /\ b[2] = s[n]
      /\ s[n] \notin chars => Len(b) = 1
  <2>1. PICK ch \in X : ch = s[n]
      BY <1>1
  <2>2. /\ <<ch, ch>> \in Seq(X) /\ Len(<<ch, ch>>) = 2 /\ <<ch, ch>>[1] = ch /\ <<ch, ch>>[2] = ch
        /\ <<ch>> \in Seq(X) /\ Len(<<ch>>) = 1 /\ <<ch>>[1] = ch
      OBVIOUS
  <2>3. b = IF ch \in chars THEN <<ch, ch>> ELSE <<ch>>
      BY <2>1 DEF Wide
  <2> HIDE DEF b
  <2> QED
      BY <2>1, <2>2, <2>3
<1>4. /\ Len(f[n]) \in Nat /\ Len(f[n]) <= Len(d)
      /\ \A i \in 1 .. Len(f[n]) : d[i] = f[n][i]
    BY <1>1, WrittenStays
<1> HIDE DEF a, b, d
<1>5. /\ Len(a \o b) = Len(a) + Len(b)
      /\ \A i \in 1 .. Len(b) : (a \o b)[Len(a) + i] = b[i]
    BY <1>2, <1>3
<1>6. Len(f[n]) = k + Len(b) /\ \A i \in 1 .. Len(b) : f[n][k + i] = b[i]
    BY <1>2, <1>5
<1>7. k \in Nat
    BY <1>2
<1>8. Len(b) \in {1, 2} /\ Len(d) \in Nat
  <2>1. d \in Seq(X)
      BY DEF WrittenAlong, d
  <2> QED
      BY <2>1, <1>3
<1> HIDE DEF k
<1>9. \A i \in 1 .. Len(b) : d[k + i] = b[i] /\ k + i <= Len(d)
  <2> TAKE i \in 1 .. Len(b)
  <2>1. k + i \in 1 .. Len(f[n]) /\ k + i <= Len(d)
      BY ONLY <1>4, <1>6, <1>7, <1>8, i \in 1 .. Len(b)
  <2> QED
      BY <2>1, <1>4, <1>6
<1>10. 1 \in 1 .. Len(b) /\ (s[n] \in chars => 2 \in 1 .. Len(b))
    BY <1>3, <1>8
<1> QED
    BY <1>3, <1>6, <1>7, <1>9, <1>10 DEF k, a, d

\* The texts in which a character means itself.
Agree(ch, chars, escapes) ==
    /\ ch = "'" => ch \in chars
    /\ ch = "\\" => (ch \in chars <=> escapes)
    /\ ch \notin {"'", "\\"} => ch \notin chars

\* A character ch stands in the text w, as it was written, after k others.
StandsAfter(X, w, chars, ch, k) ==
    /\ w \in Seq(X) /\ k \in Nat /\ k + 1 < Len(w)
    /\ w[k + 1] = ch /\ (ch \in chars => w[k + 2] = ch)

\* The server reads it as ch and goes on behind it.
ReadAs(w, escapes, chars, ch, k, v) ==
    ReadStep(w, escapes, [at |-> k + 1, value |-> v, open |-> TRUE]) =
        [at |-> IF ch \in chars THEN k + 3 ELSE k + 2, value |-> Append(v, ch), open |-> TRUE]

\* A step reads a character as it was written.
LEMMA ReadCharacter ==
    ASSUME NEW X, NEW w, NEW escapes \in BOOLEAN, NEW chars, NEW ch, NEW k, NEW v,
           Agree(ch, chars, escapes), StandsAfter(X, w, chars, ch, k)
    PROVE  ReadAs(w, escapes, chars, ch, k, v)
<1> DEFINE scan == [at |-> k + 1, value |-> v, open |-> TRUE]
<1>0. /\ w \in Seq(X) /\ k \in Nat /\ k + 1 < Len(w)
      /\ w[k + 1] = ch /\ (ch \in chars => w[k + 2] = ch)
    BY DEF StandsAfter
<1>1. Len(w) \in Nat /\ (k + 1) + 1 = k + 2 /\ (k + 1) + 2 = k + 3 /\ ~(k + 1 > Len(w))
    BY <1>0
<1>2. scan.at = k + 1 /\ scan.value = v /\ scan.open = TRUE
    OBVIOUS
<1> HIDE DEF scan
<1>3. CASE ch = "'"
  <2>1. ch \in chars /\ w[(k + 1) + 1] = "'"
      BY <1>0, <1>1, <1>3 DEF Agree
  <2> QED
      BY <2>1, <1>0, <1>1, <1>2, <1>3 DEF ReadAs, ReadStep, TakeCharacter, scan
<1>4. CASE ch = "\\" /\ escapes
  <2>1. ch \in chars /\ w[(k + 1) + 1] = ch /\ ch # "'"
      BY <1>0, <1>1, <1>4 DEF Agree
  <2> QED
      BY <2>1, <1>0, <1>1, <1>2, <1>4 DEF ReadAs, ReadStep, TakeCharacter, scan
<1>5. CASE ch # "'" /\ ~(ch = "\\" /\ escapes)
  <2>1. ch \notin chars
      BY <1>5 DEF Agree
  <2> QED
      BY <2>1, <1>0, <1>1, <1>2, <1>5 DEF ReadAs, ReadStep, TakeCharacter, scan
<1> QED
    BY <1>3, <1>4, <1>5

\* A text has at least as many characters as were written.
LEMMA WrittenLength ==
    ASSUME NEW X, NEW s \in Seq(X), NEW chars
    PROVE  Doubled(s, chars) \in Seq(X) /\ Len(s) <= Len(Doubled(s, chars))
<1> DEFINE N == Len(s)
<1>1. PICK f : WrittenAlong(f, X, s, chars)
    BY DoubledSteps, Zenon
<1> DEFINE S == {n \in 0 .. N : n <= Len(f[n])}
<1>2. N \in Nat /\ Doubled(s, chars) = f[N] /\ \A n \in 0 .. N : f[n] \in Seq(X) /\ Len(f[n]) \in Nat
  <2>1. N \in Nat /\ Doubled(s, chars) = f[N] /\ \A n \in 0 .. N : f[n] \in Seq(X)
      BY <1>1 DEF WrittenAlong
  <2> QED
      BY <2>1
<1>3. \A n \in 1 .. N : Len(f[n]) \in {Len(f[n - 1]) + 1, Len(f[n - 1]) + 2}
    BY <1>1, WrittenWhere
<1> HIDE DEF N
<1>4. 0 \in S
    BY <1>2
<1>5. ASSUME NEW n \in 1 .. N, n - 1 \in S PROVE n \in S
  <2>1. n \in 0 .. N /\ n - 1 \in 0 .. N /\ n - 1 <= Len(f[n - 1])
      BY <1>2, <1>5
  <2>2. Len(f[n]) \in {Len(f[n - 1]) + 1, Len(f[n - 1]) + 2} /\ Len(f[n - 1]) \in Nat
      BY <2>1, <1>2, <1>3
  <2>3. n <= Len(f[n])
      BY <2>1, <2>2
  <2> QED
      BY <2>1, <2>3
<1>6. S \in SUBSET (0 .. N)
    OBVIOUS
<1> HIDE DEF S
<1>7. S = 0 .. N
    BY <1>2, <1>4, <1>5, <1>6, UpTo
<1>8. N \in S /\ N \in 0 .. N
    BY <1>2, <1>7
<1> QED
    BY <1>2, <1>8 DEF S, N

\* The characters one by one.
LEMMA OneMore ==
    ASSUME NEW X, NEW s \in Seq(X), NEW n \in 1 .. Len(s)
    PROVE  Append(SubSeq(s, 1, n - 1), s[n]) = SubSeq(s, 1, n)
OBVIOUS

\* The text of a literal: what was doubled, the closing quote, and what follows.
LiteralText(d, rest) == (d \o <<"'">>) \o rest

\* What stands where in such a text.
LEMMA TextParts ==
    ASSUME NEW X, "'" \in X, NEW d \in Seq(X), NEW rest \in Seq(X)
    PROVE  LET w == LiteralText(d, rest)
               k == Len(d)
           IN  /\ w \in Seq(X) /\ Len(w) = k + 1 + Len(rest)
               /\ \A i \in 1 .. k : w[i] = d[i]
               /\ w[k + 1] = "'"
               /\ \A i \in 1 .. Len(rest) : w[k + 1 + i] = rest[i]
               /\ SubSeq(w, k + 2, Len(w)) = rest
<1> DEFINE q == <<"'">>
           e == d \o q
           w == e \o rest
           k == Len(d)
<1>1. q \in Seq(X) /\ Len(q) = 1 /\ q[1] = "'"
    OBVIOUS
<1> HIDE DEF q
<1>2. /\ e \in Seq(X) /\ Len(e) = k + 1
      /\ \A i \in 1 .. k : e[i] = d[i]
      /\ e[k + 1] = "'"
  <2>1. /\ e \in Seq(X) /\ Len(e) = Len(d) + Len(q)
        /\ \A i \in 1 .. Len(d) : e[i] = d[i]
        /\ \A i \in 1 .. Len(q) : e[Len(d) + i] = q[i]
    <3>1. ASSUME NEW a \in Seq(X), NEW b \in Seq(X)
          PROVE  /\ a \o b \in Seq(X) /\ Len(a \o b) = Len(a) + Len(b)
                 /\ \A i \in 1 .. Len(a) : (a \o b)[i] = a[i]
                 /\ \A i \in 1 .. Len(b) : (a \o b)[Len(a) + i] = b[i]
        OBVIOUS
    <3> QED
        BY <1>1, <3>1
  <2>2. 1 \in 1 .. Len(q)
      BY <1>1
  <2> HIDE DEF e
  <2> QED
      BY <1>1, <2>1, <2>2
<1> HIDE DEF e
<1>3. /\ w \in Seq(X) /\ Len(w) = Len(e) + Len(rest)
      /\ \A i \in 1 .. Len(e) : w[i] = e[i]
      /\ \A i \in 1 .. Len(rest) : w[Len(e) + i] = rest[i]
    BY <1>2
<1>4. k \in Nat /\ Len(rest) \in Nat
    OBVIOUS
<1> HIDE DEF w, k
<1>5. Len(w) = k + 1 + Len(rest)
    BY ONLY <1>2, <1>3, <1>4
<1>6. \A i \in 1 .. k : w[i] = d[i]
  <2>1. \A i \in 1 .. k : i \in 1 .. Len(e)
      BY ONLY <1>2, <1>4
  <2> QED
      BY <2>1, <1>2, <1>3
<1>7. w[k + 1] = "'"
  <2>1. k + 1 \in 1 .. Len(e)
      BY ONLY <1>2, <1>4
  <2> QED
      BY <2>1, <1>2, <1>3
<1>8. \A i \in 1 .. Len(rest) : w[k + 1 + i] = rest[i]
    BY <1>2, <1>3
<1>9. SubSeq(w, k + 2, Len(w)) = rest
  <2> DEFINE t == SubSeq(w, k + 2, Len(w))
  <2>1. PICK m \in Nat : m = Len(w)
      BY <1>3
  <2>2. k + 2 \in 1 .. m + 1 /\ m \in (k + 2) - 1 .. m /\ (m - (k + 2)) + 1 = Len(rest)
      BY ONLY <1>4, <1>5, <2>1
  <2>3. /\ t \in Seq(X) /\ Len(t) = (m - (k + 2)) + 1
        /\ \A i \in 1 .. (m - (k + 2)) + 1 : t[i] = w[(k + 2) + i - 1]
    <3>1. \A i \in k + 2 .. m : w[i] \in X
        BY <2>1, <1>3, <1>4
    <3>2. k + 2 \in Int /\ m \in Int
        BY ONLY <2>1, <1>4
    <3>3. /\ t \in Seq(X) /\ Len(t) = (IF k + 2 <= m THEN m - (k + 2) + 1 ELSE 0)
          /\ \A i \in 1 .. m - (k + 2) + 1 : t[i] = w[(k + 2) + i - 1]
        BY <2>1, <3>1, <3>2, SubSeqProperties
    <3>4. (IF k + 2 <= m THEN m - (k + 2) + 1 ELSE 0) = (m - (k + 2)) + 1
        BY ONLY <2>1, <2>2, <1>4
    <3> HIDE DEF t
    <3> QED
        BY ONLY <3>3, <3>4
  <2> HIDE DEF t
  <2>4. \A i \in 1 .. Len(rest) : (k + 2) + i - 1 = k + 1 + i
      BY ONLY <1>4
  <2>5. Len(t) = Len(rest) /\ \A i \in 1 .. Len(rest) : t[i] = rest[i]
      BY <2>2, <2>3, <2>4, <1>8
  <2>6. t = rest
      BY <2>3, <2>5, SeqEqual
  <2> QED
      BY <2>6 DEF t
<1> QED
    BY <1>3, <1>5, <1>6, <1>7, <1>8, <1>9 DEF LiteralText, w, e, q, k

\* The scan of a literal, when its characters have been read up to the n-th.
Halfway(f, s, g, n) == g[n] = [at |-> Len(f[n]) + 1, value |-> SubSeq(s, 1, n), open |-> TRUE]

\* Character by character the scan comes to the closing quote.
LEMMA ReadToQuote ==
    ASSUME NEW X, "'" \in X, NEW s \in Seq(X), NEW chars, NEW escapes \in BOOLEAN, NEW rest \in Seq(X),
           \A i \in 1 .. Len(s) : Agree(s[i], chars, escapes),
           NEW f, WrittenAlong(f, X, s, chars), NEW g,
           ScanAlong(g, X, LiteralText(Doubled(s, chars), rest), escapes)
    PROVE  Halfway(f, s, g, Len(s))
<1> DEFINE N == Len(s)
           d == Doubled(s, chars)
           w == LiteralText(d, rest)
           S == {n \in 0 .. N : Halfway(f, s, g, n)}
<1>1. d \in Seq(X) /\ N \in Nat /\ N <= Len(d)
    BY WrittenLength
<1>2. /\ w \in Seq(X) /\ Len(w) = Len(d) + 1 + Len(rest)
      /\ \A i \in 1 .. Len(d) : w[i] = d[i]
    BY <1>1, TextParts
<1>3. g[0] = ScanStart /\ \A n \in 1 .. Len(w) : g[n] = ReadStep(w, escapes, g[n - 1])
    BY DEF ScanAlong
<1>4. f[0] = <<>>
    BY DEF WrittenAlong
<1>5. \A n \in 1 .. N :
            /\ Len(f[n - 1]) \in Nat /\ Len(f[n - 1]) + 1 <= Len(d) /\ d[Len(f[n - 1]) + 1] = s[n]
            /\ s[n] \in chars => /\ Len(f[n]) = Len(f[n - 1]) + 2 /\ Len(f[n - 1]) + 2 <= Len(d)
                                 /\ d[Len(f[n - 1]) + 2] = s[n]
            /\ s[n] \notin chars => Len(f[n]) = Len(f[n - 1]) + 1
    BY WrittenWhere
<1>6. Len(d) \in Nat /\ Len(rest) \in Nat /\ \A n \in 1 .. N : s[n] \in X
    BY <1>1
<1> HIDE DEF d, w
<1>7. 0 \in S
  <2>1. Len(f[0]) + 1 = 1 /\ SubSeq(s, 1, 0) = <<>>
      BY <1>4
  <2>2. g[0] = [at |-> Len(f[0]) + 1, value |-> SubSeq(s, 1, 0), open |-> TRUE]
      BY ONLY <2>1, <1>3 DEF ScanStart
  <2>3. 0 \in 0 .. N
      BY ONLY <1>1
  <2> QED
      BY ONLY <2>2, <2>3 DEF Halfway, S
<1>8. ASSUME NEW n \in 1 .. N, n - 1 \in S PROVE n \in S
  <2>1. PICK k : k = Len(f[n - 1])
      OBVIOUS
  <2>2. PICK ch : ch = s[n]
      OBVIOUS
  <2>3. /\ k \in Nat /\ k + 1 <= Len(d) /\ d[k + 1] = ch
        /\ ch \in chars => Len(f[n]) = k + 2 /\ k + 2 <= Len(d) /\ d[k + 2] = ch
        /\ ch \notin chars => Len(f[n]) = k + 1
      BY <2>1, <2>2, <1>5
  <2>4. ch \in X /\ Agree(ch, chars, escapes)
      BY <2>2, <1>6 DEF N
  <2>5. k + 1 < Len(w) /\ n \in 1 .. Len(w) /\ k + 1 \in 1 .. Len(d) /\ (ch \in chars => k + 2 \in 1 .. Len(d))
      BY ONLY <2>3, <1>1, <1>2, <1>6, n \in 1 .. N
  <2>6. w[k + 1] = ch /\ (ch \in chars => w[k + 2] = ch)
      BY ONLY <2>3, <2>5, <1>2
  <2>7. g[n - 1] = [at |-> k + 1, value |-> SubSeq(s, 1, n - 1), open |-> TRUE]
      BY <2>1, <1>8 DEF Halfway
  <2>8. g[n] = [at |-> IF ch \in chars THEN k + 3 ELSE k + 2,
                value |-> Append(SubSeq(s, 1, n - 1), ch), open |-> TRUE]
    <3> DEFINE v == SubSeq(s, 1, n - 1)
    <3> HIDE DEF v
    <3>1. ReadAs(w, escapes, chars, ch, k, v)
      <4>1. StandsAfter(X, w, chars, ch, k)
          BY ONLY <2>3, <2>5, <2>6, <1>2 DEF StandsAfter
      <4> QED
          BY ONLY <4>1, <2>4, escapes \in BOOLEAN, ReadCharacter, Zenon
    <3>2. g[n] = ReadStep(w, escapes, g[n - 1])
        BY <2>5, <1>3
    <3> QED
        BY <3>1, <3>2, <2>7 DEF v, ReadAs
  <2>9. (IF ch \in chars THEN k + 3 ELSE k + 2) = Len(f[n]) + 1
      BY ONLY <2>3
  <2>10. Append(SubSeq(s, 1, n - 1), ch) = SubSeq(s, 1, n)
      BY <2>2, OneMore DEF N
  <2>11. n \in 0 .. N
      BY <1>1
  <2> QED
      BY <2>8, <2>9, <2>10, <2>11 DEF Halfway
<1>9. S \in SUBSET (0 .. N)
    OBVIOUS
<1> HIDE DEF S, N
<1>10. S = 0 .. N
    BY <1>1, <1>7, <1>8, <1>9, UpTo
<1>11. N \in S
    BY <1>1, <1>10
<1> QED
    BY <1>11 DEF S, N

\* The text after a literal does not continue it.
Apart(rest) == rest # <<>> => rest[1] # "'"

\* The doubled characters are those the server takes in pairs.
AgreeAll(s, chars, escapes) == \A i \in 1 .. Len(s) : Agree(s[i], chars, escapes)

Reads(w, escapes, value, rest) == ReadLiteral(w, escapes) = [value |-> value, rest |-> rest]

\* The server reads what was written, and goes on after the closing quote.
LEMMA ReadBack ==
    ASSUME NEW X, "'" \in X, NEW s \in Seq(X), NEW chars, NEW escapes, escapes \in BOOLEAN,
           NEW rest \in Seq(X), AgreeAll(s, chars, escapes), Apart(rest)
    PROVE  Reads(LiteralText(Doubled(s, chars), rest), escapes, s, rest)
<1> DEFINE N == Len(s)
           d == Doubled(s, chars)
           k == Len(d)
           w == LiteralText(d, rest)
           M == Len(w)
<1>1. d \in Seq(X) /\ N \in Nat /\ N <= k /\ k \in Nat /\ Len(rest) \in Nat
  <2>1. d \in Seq(X) /\ N \in Nat /\ N <= k /\ Len(rest) \in Nat
      BY WrittenLength
  <2> QED
      BY <2>1
<1>2. /\ w \in Seq(X) /\ M = k + 1 + Len(rest)
      /\ w[k + 1] = "'"
      /\ \A i \in 1 .. Len(rest) : w[k + 1 + i] = rest[i]
      /\ SubSeq(w, k + 2, M) = rest
  <2>1. d \in Seq(X)
      BY <1>1
  <2> HIDE DEF d
  <2> QED
      BY ONLY <2>1, rest \in Seq(X), "'" \in X, TextParts, Zenon DEF w, k, M
<1>3. PICK f : WrittenAlong(f, X, s, chars)
    BY DoubledSteps, Zenon
<1>4. PICK g : ScanAlong(g, X, w, escapes)
  <2> HIDE DEF w
  <2> QED
      BY <1>2, ReadLiteralSteps, Zenon
<1>5. Halfway(f, s, g, N)
    BY <1>3, <1>4, ReadToQuote DEF AgreeAll
<1>6. f[N] = d
    BY <1>3 DEF WrittenAlong
<1>7. SubSeq(s, 1, N) = s
    OBVIOUS
<1>8. /\ \A n \in 1 .. M : g[n] = ReadStep(w, escapes, g[n - 1])
      /\ ReadLiteral(w, escapes) =
            [value |-> g[M].value, rest |-> IF g[M].open THEN <<"end">> ELSE SubSeq(w, g[M].at, M)]
    BY <1>4 DEF ScanAlong
<1> HIDE DEF N, d, w, k, M
<1>9. g[N] = [at |-> k + 1, value |-> s, open |-> TRUE]
    BY <1>5, <1>6, <1>7 DEF Halfway, k
<1>10. M \in Nat /\ N + 1 \in 1 .. M /\ (N + 1) - 1 = N /\ (k + 1) + 1 = k + 2 /\ ~(k + 1 > M)
    BY ONLY <1>1, <1>2
<1> DEFINE end == [at |-> k + 2, value |-> s, open |-> FALSE]
<1>11. g[N + 1] = end
  <2> DEFINE scan == [at |-> k + 1, value |-> s, open |-> TRUE]
  <2>1. scan.at = k + 1 /\ scan.value = s /\ scan.open = TRUE
      OBVIOUS
  <2>2. g[N + 1] = ReadStep(w, escapes, scan)
      BY <1>8, <1>9, <1>10
  <2> HIDE DEF scan
  <2>3. ~(k + 1 < M /\ w[(k + 1) + 1] = "'")
    <3> SUFFICES ASSUME k + 1 < M PROVE w[(k + 1) + 1] # "'"
        OBVIOUS
    <3>1. 1 \in 1 .. Len(rest) /\ Len(rest) # 0
        BY ONLY <1>1, <1>2, k + 1 < M
    <3>2. rest # <<>>
        BY <3>1
    <3> QED
        BY <3>1, <3>2, <1>2 DEF Apart
  <2> QED
      BY <2>1, <2>2, <2>3, <1>2, <1>10 DEF ReadStep, M
<1> DEFINE S == {n \in 0 .. M : n >= N + 1 => g[n] = end}
<1> HIDE DEF end
<1>12. 0 \in S
    BY <1>1, <1>10
<1>13. ASSUME NEW n \in 1 .. M, n - 1 \in S PROVE n \in S
  <2>1. CASE n > N + 1
    <3>1. n - 1 >= N + 1 /\ n \in 0 .. M
        BY <2>1, <1>1, <1>10
    <3>2. g[n - 1] = end
        BY <3>1, <1>13
    <3>3. end.open = FALSE
        BY DEF end
    <3>4. ReadStep(w, escapes, end) = end
        BY <3>3 DEF ReadStep
    <3> QED
        BY <3>1, <3>2, <3>4, <1>8
  <2>2. CASE n = N + 1
      BY <2>2, <1>10, <1>11
  <2>3. CASE n < N + 1
      BY <2>3, <1>1, <1>10
  <2> QED
      BY <2>1, <2>2, <2>3, <1>1
<1>14. S \in SUBSET (0 .. M)
    OBVIOUS
<1>15. g[M] = end
  <2>1. S = 0 .. M
    <3> HIDE DEF S
    <3> QED
        BY <1>10, <1>12, <1>13, <1>14, UpTo
  <2>2. M \in S /\ M >= N + 1
      BY <2>1, <1>1, <1>10
  <2> QED
      BY <2>2
<1>16. g[M].value = s /\ g[M].open = FALSE /\ g[M].at = k + 2
    BY <1>15 DEF end
<1> QED
    BY <1>2, <1>8, <1>16 DEF w, d, Reads

Same(a, b) == a = b

\* A literal is an opening, the text of the value, and the closing quote.
LEMMA Together ==
    ASSUME NEW X, NEW a \in Seq(X), NEW b \in Seq(X), NEW c \in Seq(X), NEW e \in Seq(X)
    PROVE  Same(((a \o b) \o c) \o e, a \o ((b \o c) \o e))
<1>1. PICK m : m = b \o c
    OBVIOUS
<1>2. m \in Seq(X)
    BY ONLY <1>1, b \in Seq(X), c \in Seq(X), ConcatProperties
<1>3. (a \o b) \o c = a \o m
    BY ONLY <1>1, a \in Seq(X), b \in Seq(X), c \in Seq(X), ConcatAssociative
<1>4. (a \o m) \o e = a \o (m \o e)
    BY ONLY <1>2, a \in Seq(X), e \in Seq(X), ConcatAssociative
<1> QED
    BY ONLY <1>1, <1>3, <1>4 DEF Same

\* Two pieces of text and a third, whichever two come first.
LEMMA Regrouped ==
    ASSUME NEW X, NEW a \in Seq(X), NEW b \in Seq(X), NEW c \in Seq(X)
    PROVE  Same((a \o b) \o c, a \o (b \o c))
BY ConcatAssociative DEF Same

\* Both forms of quote_literal, with what follows, are an opening before such a text.
LEMMA Opened ==
    ASSUME NEW X, "'" \in X, "E" \in X, Blank \in X, NEW d \in Seq(X), NEW rest \in Seq(X)
    PROVE  /\ (<<Blank, "E", "'">> \o d \o <<"'">>) \o rest = <<Blank>> \o (<<"E", "'">> \o LiteralText(d, rest))
           /\ (<<"'">> \o d \o <<"'">>) \o rest = <<"'">> \o LiteralText(d, rest)
<1>1. PICK p, q, r : p = <<Blank>> /\ q = <<"'">> /\ r = <<"E", "'">>
    OBVIOUS
<1>2. p \in Seq(X) /\ q \in Seq(X) /\ r \in Seq(X)
    BY <1>1
<1>3. PICK m : m = <<Blank, "E", "'">> /\ m \in Seq(X)
  <2>1. <<Blank, "E", "'">> \in Seq(X)
      OBVIOUS
  <2> QED
      BY <2>1
<1>4. p \o r = m
  <2>1. Len(p) = 1 /\ p[1] = Blank /\ Len(r) = 2 /\ r[1] = "E" /\ r[2] = "'"
      BY <1>1
  <2>2. PICK n \in Seq(X) : n = p \o r
      BY ONLY <1>2, ConcatProperties
  <2>3. Len(n) = 3 /\ n[1] = Blank /\ n[2] = "E" /\ n[3] = "'"
    <3>1. Len(n) = 3 /\ \A i \in 1 .. 3 : n[i] = IF i <= 1 THEN p[i] ELSE r[i - 1]
      <4>1. /\ Len(p \o r) = Len(p) + Len(r)
            /\ \A i \in 1 .. Len(p) + Len(r) : (p \o r)[i] = IF i <= Len(p) THEN p[i] ELSE r[i - Len(p)]
          BY ONLY <1>2, ConcatProperties
      <4> QED
          BY ONLY <2>1, <2>2, <4>1
    <3>2. 1 \in 1 .. 3 /\ 2 \in 1 .. 3 /\ 3 \in 1 .. 3 /\ 2 - 1 = 1 /\ 3 - 1 = 2 /\ ~(2 <= 1) /\ ~(3 <= 1)
        OBVIOUS
    <3> QED
        BY ONLY <2>1, <3>1, <3>2
  <2>4. Len(m) = 3 /\ m[1] = Blank /\ m[2] = "E" /\ m[3] = "'"
      BY <1>3
  <2>5. Len(n) = Len(m) /\ \A i \in 1 .. Len(n) : n[i] = m[i]
      BY ONLY <2>3, <2>4
  <2> QED
      BY ONLY <1>3, <2>2, <2>5, SeqEqual
<1>5. PICK w \in Seq(X) : w = LiteralText(d, rest) /\ w = (d \o q) \o rest
  <2>1. PICK n \in Seq(X) : n = d \o q
      BY ONLY <1>2, d \in Seq(X), ConcatProperties
  <2>2. n \o rest \in Seq(X)
      BY ONLY n \in Seq(X), rest \in Seq(X), ConcatProperties
  <2> QED
      BY ONLY <1>1, <2>1, <2>2 DEF LiteralText
<1>6. ((q \o d) \o q) \o rest = q \o w
  <2>1. Same(((q \o d) \o q) \o rest, q \o ((d \o q) \o rest))
      BY ONLY <1>2, d \in Seq(X), rest \in Seq(X), Together, Zenon
  <2> QED
      BY ONLY <2>1, <1>5, Zenon DEF Same
<1>7. ((m \o d) \o q) \o rest = m \o w
  <2>1. Same(((m \o d) \o q) \o rest, m \o ((d \o q) \o rest))
      BY ONLY <1>2, <1>3, d \in Seq(X), rest \in Seq(X), Together, Zenon
  <2> QED
      BY ONLY <2>1, <1>5, Zenon DEF Same
<1>8. (p \o r) \o w = p \o (r \o w)
  <2>1. Same((p \o r) \o w, p \o (r \o w))
      BY ONLY <1>2, w \in Seq(X), Regrouped, Zenon
  <2> QED
      BY ONLY <2>1 DEF Same
<1>9. (((<<Blank, "E", "'">>) \o d) \o q) \o rest = p \o (r \o w)
    BY ONLY <1>3, <1>4, <1>7, <1>8, Zenon
<1> QED
    BY ONLY <1>1, <1>5, <1>6, <1>9, Zenon

\* Where the text begins behind a quote, and behind an E and a quote.
LEMMA AfterOne ==
    ASSUME NEW X, "'" \in X, NEW w \in Seq(X)
    PROVE  LET t == <<"'">> \o w
           IN  t \in Seq(X) /\ Head(t) = "'" /\ Tail(t) = w /\ BeginsLiteral(t)
<1>1. PICK q : q = <<"'">>
    OBVIOUS
<1>2. q \in Seq(X) /\ Len(q) = 1 /\ q[1] = "'"
    BY <1>1
<1>3. PICK t : t = q \o w
    OBVIOUS
<1>4. t \in Seq(X) /\ Len(t) = 1 + Len(w) /\ t[1] = "'" /\ \A i \in 1 .. Len(w) : t[1 + i] = w[i]
  <2>1. /\ t \in Seq(X) /\ Len(t) = 1 + Len(w)
        /\ \A i \in 1 .. 1 + Len(w) : t[i] = IF i <= 1 THEN q[i] ELSE w[i - 1]
    <3>1. /\ q \o w \in Seq(X) /\ Len(q \o w) = Len(q) + Len(w)
          /\ \A i \in 1 .. Len(q) + Len(w) : (q \o w)[i] = IF i <= Len(q) THEN q[i] ELSE w[i - Len(q)]
        BY ONLY <1>2, w \in Seq(X), ConcatProperties
    <3> QED
        BY ONLY <1>2, <1>3, <3>1
  <2>2. Len(w) \in Nat
      OBVIOUS
  <2>3. /\ 1 \in 1 .. 1 + Len(w)
        /\ \A i \in 1 .. Len(w) : 1 + i \in 1 .. 1 + Len(w) /\ ~(1 + i <= 1) /\ (1 + i) - 1 = i
      BY ONLY <2>2
  <2> QED
      BY ONLY <1>2, <2>1, <2>3
<1>5. Head(t) = "'" /\ t # <<>>
    BY <1>4
<1>6. Tail(t) = w
  <2>1. PICK u \in Seq(X) : u = Tail(t)
      BY <1>4, <1>5
  <2>2. Len(u) = Len(w) /\ \A i \in 1 .. Len(w) : u[i] = w[i]
      BY <1>4, <1>5, <2>1
  <2>3. u = w
      BY <2>2, SeqEqual
  <2> QED
      BY <2>1, <2>3
<1>7. Len(q) <= Len(t) /\ SubSeq(q, 1, Len(q)) = q
    BY <1>2, <1>4
<1>8. SubSeq(t, 1, Len(q)) = q
  <2>1. PICK u : u = SubSeq(t, 1, 1)
      OBVIOUS
  <2>2. u \in Seq(X) /\ Len(u) = 1 /\ u[1] = "'"
      BY <1>4, <2>1
  <2>3. Len(u) = Len(q) /\ \A i \in 1 .. Len(u) : u[i] = q[i]
      BY ONLY <1>2, <2>2
  <2> QED
      BY ONLY <1>2, <2>1, <2>2, <2>3, SeqEqual
<1>9. BeginsLiteral(t)
    BY ONLY <1>1, <1>7, <1>8 DEF BeginsLiteral, IsPrefix
<1> QED
    BY ONLY <1>1, <1>3, <1>4, <1>5, <1>6, <1>9

LEMMA AfterTwo ==
    ASSUME NEW X, "'" \in X, "E" \in X, NEW w \in Seq(X)
    PROVE  LET t == <<"E", "'">> \o w
           IN  t \in Seq(X) /\ Head(t) = "E" /\ SubSeq(t, 3, Len(t)) = w /\ BeginsLiteral(t)
<1>1. PICK q : q = <<"E", "'">>
    OBVIOUS
<1>2. q \in Seq(X) /\ Len(q) = 2 /\ q[1] = "E" /\ q[2] = "'"
    BY <1>1
<1>3. PICK t : t = q \o w
    OBVIOUS
<1>4. /\ t \in Seq(X) /\ Len(t) = 2 + Len(w) /\ t[1] = "E" /\ t[2] = "'"
      /\ \A i \in 1 .. Len(w) : t[2 + i] = w[i]
  <2>1. /\ t \in Seq(X) /\ Len(t) = 2 + Len(w)
        /\ \A i \in 1 .. 2 + Len(w) : t[i] = IF i <= 2 THEN q[i] ELSE w[i - 2]
    <3>1. /\ q \o w \in Seq(X) /\ Len(q \o w) = Len(q) + Len(w)
          /\ \A i \in 1 .. Len(q) + Len(w) : (q \o w)[i] = IF i <= Len(q) THEN q[i] ELSE w[i - Len(q)]
        BY ONLY <1>2, w \in Seq(X), ConcatProperties
    <3> QED
        BY ONLY <1>2, <1>3, <3>1
  <2>2. Len(w) \in Nat
      OBVIOUS
  <2>3. /\ 1 \in 1 .. 2 + Len(w) /\ 2 \in 1 .. 2 + Len(w)
        /\ \A i \in 1 .. Len(w) : 2 + i \in 1 .. 2 + Len(w) /\ ~(2 + i <= 2) /\ (2 + i) - 2 = i
      BY ONLY <2>2
  <2> QED
      BY ONLY <1>2, <2>1, <2>3
<1>5. Head(t) = "E" /\ t # <<>>
    BY <1>4
<1>6. SubSeq(t, 3, Len(t)) = w
  <2>1. PICK u \in Seq(X) : u = SubSeq(t, 3, Len(t))
      BY <1>4
  <2>2. Len(u) = Len(w) /\ \A i \in 1 .. Len(w) : u[i] = w[i]
      BY <1>4, <2>1
  <2>3. u = w
      BY <2>2, SeqEqual
  <2> QED
      BY <2>1, <2>3
<1>7. Len(q) <= Len(t) /\ SubSeq(q, 1, Len(q)) = q
    BY <1>2, <1>4
<1>8. SubSeq(t, 1, Len(q)) = q
  <2>1. PICK u : u = SubSeq(t, 1, 2)
      OBVIOUS
  <2>2. u \in Seq(X) /\ Len(u) = 2 /\ u[1] = "E" /\ u[2] = "'"
      BY <1>4, <2>1
  <2>3. Len(u) = Len(q) /\ \A i \in 1 .. Len(u) : u[i] = q[i]
      BY ONLY <1>2, <2>2
  <2> QED
      BY ONLY <1>2, <2>1, <2>2, <2>3, SeqEqual
<1>9. BeginsLiteral(t)
    BY ONLY <1>1, <1>7, <1>8 DEF BeginsLiteral, IsPrefix
<1> QED
    BY ONLY <1>1, <1>3, <1>4, <1>5, <1>6, <1>9

\* Whatever characters a value holds, quotes and backslashes among them, the server
\* reads the literal that quote_literal makes of it as that value, and goes on with
\* the text after it (types.rs:737): V1 under either setting of
\* standard_conforming_strings, the literals of older versions under the setting that
\* prepare_sql_quoting insists on.  The text after it is the template's; a quote there
\* would continue the literal.
THEOREM QuotedIsRead ==
    ASSUME NEW X, {"'", "E", Blank} \subseteq X, NEW s \in Seq(X), NEW version \in {"Legacy", "V1"},
           NEW standard_strings \in BOOLEAN, version = "Legacy" => standard_strings,
           NEW rest \in Seq(X), rest # <<>> => rest[1] # "'"
    PROVE  \E t \in Seq(X) :
              /\ quote_literal(s, version) \o rest \in {t, <<Blank>> \o t}
              /\ BeginsLiteral(t)
              /\ LiteralAt(t, standard_strings) = [value |-> s, rest |-> rest]
<1>0. "'" \in X /\ "E" \in X /\ Blank \in X
    OBVIOUS
<1>1. \A i \in 1 .. Len(s) : s[i] \in Range(s)
  <2>1. DOMAIN s = 1 .. Len(s)
      OBVIOUS
  <2> QED
      BY <2>1 DEF Range
<1>2. CASE version = "V1" /\ "\\" \in Range(s)
  <2> DEFINE d == Doubled(s, {"'", "\\"})
             w == LiteralText(d, rest)
             t == <<"E", "'">> \o w
  <2>1. AgreeAll(s, {"'", "\\"}, TRUE) /\ Apart(rest)
      BY DEF Agree, AgreeAll, Apart
  <2>2. Reads(w, TRUE, s, rest)
    <3>1. TRUE \in BOOLEAN
        OBVIOUS
    <3> QED
        BY <1>0, <2>1, <3>1, ReadBack, Zenon
  <2>3. d \in Seq(X) /\ w \in Seq(X)
      BY <1>0, WrittenLength, TextParts
  <2>4. quote_literal(s, version) = <<Blank, "E", "'">> \o d \o <<"'">>
      BY <1>2 DEF quote_literal
  <2> HIDE DEF d
  <2>5. quote_literal(s, version) \o rest = <<Blank>> \o t
      BY <1>0, <2>3, <2>4, Opened
  <2> HIDE DEF w
  <2>6. t \in Seq(X) /\ Head(t) = "E" /\ SubSeq(t, 3, Len(t)) = w /\ BeginsLiteral(t)
      BY <1>0, <2>3, AfterTwo
  <2>7. LiteralAt(t, standard_strings) = [value |-> s, rest |-> rest]
      BY <2>2, <2>6 DEF LiteralAt, Reads
  <2> HIDE DEF t
  <2> QED
      BY <2>5, <2>6, <2>7
<1>3. CASE ~(version = "V1" /\ "\\" \in Range(s))
  <2> DEFINE d == Doubled(s, {"'"})
             w == LiteralText(d, rest)
             t == <<"'">> \o w
  <2>1. AgreeAll(s, {"'"}, ~standard_strings) /\ Apart(rest)
      BY <1>1, <1>3 DEF Agree, AgreeAll, Apart
  <2>2. Reads(w, ~standard_strings, s, rest)
    <3>1. (~standard_strings) \in BOOLEAN
        OBVIOUS
    <3> QED
        BY <1>0, <2>1, <3>1, ReadBack, Zenon
  <2>3. d \in Seq(X) /\ w \in Seq(X)
      BY <1>0, WrittenLength, TextParts
  <2>4. quote_literal(s, version) = <<"'">> \o d \o <<"'">>
      BY <1>3 DEF quote_literal
  <2> HIDE DEF d
  <2>5. quote_literal(s, version) \o rest = t
      BY <1>0, <2>3, <2>4, Opened
  <2> HIDE DEF w
  <2>6. t \in Seq(X) /\ Head(t) = "'" /\ Tail(t) = w /\ BeginsLiteral(t)
      BY <1>0, <2>3, AfterOne
  <2>7. LiteralAt(t, standard_strings) = [value |-> s, rest |-> rest]
      BY <2>2, <2>6 DEF LiteralAt, Reads
  <2> HIDE DEF t
  <2> QED
      BY <2>5, <2>6, <2>7
<1> QED
    BY <1>2, <1>3
==============================================================================
