--------------------------- MODULE HandlersProofs ---------------------------
(***************************************************************************)
(* Proofs about Handlers and Audit for every set of requests, every        *)
(* content of the batches and every width of the counters.  The storage is *)
(* compared with the list of the metrics that were applied: what a loop    *)
(* over that list leaves is computed by recursive functions, so the first  *)
(* lemmas are induction over the naturals, stated for a set, and what each *)
(* of these functions is from one index to the next.                       *)
(***************************************************************************)
EXTENDS Handlers, SequenceTheorems, FiniteSetTheorems, TLAPS

(* A set with 0 in it that is closed under the successor has every natural  *)
(* number: a least element outside it would have a predecessor outside.     *)
LEMMA SetInduction ==
  ASSUME NEW S, 0 \in S, \A n \in Nat : n \in S => n + 1 \in S
  PROVE  Nat \subseteq S
<1> DEFINE T == Nat \ S
<1> DEFINE R == OpToRel(<, Nat)
<1> SUFFICES ASSUME T # {} PROVE FALSE
  OBVIOUS
<1>1. PICK x \in T : \A y \in T : ~ (<<y, x>> \in R)
  <2>1. IsWellFoundedOn(R, Nat)
    BY NatLessThanWellFounded
  <2>2. T \subseteq Nat
    OBVIOUS
  <2> HIDE DEF R, T
  <2> QED BY <2>1, <2>2, WFMin
<1>2. x \in Nat /\ x # 0 /\ x - 1 \in T
  OBVIOUS
<1>3. <<x - 1, x>> \in R
  BY <1>2 DEF OpToRel
<1> QED BY <1>1, <1>2, <1>3

-----------------------------------------------------------------------------
(* The arithmetic of Wrap.                                                  *)

(* Division with remainder.                                                 *)
LEMMA DivMod ==
  \A n \in Int : \A d \in Nat \ {0} :
      n % d \in 0..(d - 1) /\ n \div d \in Int /\ n = d * (n \div d) + (n % d)
BY SMT

(* Two remainders that differ by a multiple of the divisor are the same.    *)
LEMMA RemainderUnique ==
  \A d \in Nat \ {0} : \A q \in Int : \A a, b \in 0..(d - 1) : a = d * q + b => a = b
BY SMT

(* Wrap gives an int64 that differs from its argument by a multiple of the  *)
(* number of all int64.                                                     *)
LEMMA WrapIs ==
  \A n \in Int : Wrap(n) \in Int64 /\ \E q \in Int : n = 2 * Half * q + Wrap(n)
<1> SUFFICES ASSUME NEW n \in Int
             PROVE  Wrap(n) \in Int64 /\ \E q \in Int : n = 2 * Half * q + Wrap(n)
  OBVIOUS
<1> DEFINE d == 2 * Half
           q == (n + Half) \div d
<1>1. d \in Nat \ {0} /\ n + Half \in Int
  BY HalfAssumption
<1>2. (n + Half) % d \in 0..(d - 1) /\ q \in Int /\ n + Half = d * q + ((n + Half) % d)
  BY <1>1, DivMod
<1>3. Wrap(n) \in Int64
  BY <1>2, HalfAssumption DEF Wrap, Int64
<1>4. n = 2 * Half * q + Wrap(n)
  BY <1>2, HalfAssumption DEF Wrap
<1> QED BY <1>2, <1>3, <1>4

LEMMA Int64IsInt == \A a \in Int64 : a \in Int
BY HalfAssumption DEF Int64

(* There is one such int64.                                                 *)
LEMMA WrapUnique ==
  \A x, y \in Int64 : \A q \in Int : x = 2 * Half * q + y => x = y
<1> SUFFICES ASSUME NEW x \in Int64, NEW y \in Int64, NEW q \in Int, x = 2 * Half * q + y
             PROVE  x = y
  OBVIOUS
<1>1. 2 * Half \in Nat \ {0} /\ x + Half \in 0..(2 * Half - 1) /\ y + Half \in 0..(2 * Half - 1)
  BY HalfAssumption DEF Int64
<1>2. x + Half = (2 * Half) * q + (y + Half)
  BY HalfAssumption DEF Int64
<1> QED BY <1>1, <1>2, RemainderUnique, HalfAssumption DEF Int64

(* Reducing after every addition or once at the end is the same.            *)
LEMMA WrapAdds == \A a, b \in Int : Wrap(Wrap(a) + b) = Wrap(a + b)
<1> SUFFICES ASSUME NEW a \in Int, NEW b \in Int
             PROVE  Wrap(Wrap(a) + b) = Wrap(a + b)
  OBVIOUS
<1>1. Wrap(a) \in Int64 /\ Wrap(a + b) \in Int64
  BY WrapIs
<1>2. PICK q1 \in Int : a = 2 * Half * q1 + Wrap(a)
  BY WrapIs
<1>3. Wrap(a) \in Int /\ Wrap(a) + b \in Int
  BY <1>1 DEF Int64
<1>4. Wrap(Wrap(a) + b) \in Int64
  BY <1>3, WrapIs
<1>5. PICK q2 \in Int : Wrap(a) + b = 2 * Half * q2 + Wrap(Wrap(a) + b)
  BY <1>3, WrapIs
<1>6. PICK q3 \in Int : a + b = 2 * Half * q3 + Wrap(a + b)
  BY WrapIs
<1> DEFINE x == Wrap(Wrap(a) + b)
           y == Wrap(a + b)
           w == Wrap(a)
<1>7. x \in Int /\ y \in Int /\ w \in Int
  BY <1>1, <1>4, Int64IsInt
<1>8. x = 2 * Half * (q3 - q1 - q2) + y
  <2> HIDE DEF x, y, w
  <2>1. a = 2 * Half * q1 + w /\ w + b = 2 * Half * q2 + x /\ a + b = 2 * Half * q3 + y
    BY <1>2, <1>5, <1>6 DEF x, y, w
  <2> QED BY <2>1, <1>7, HalfAssumption
<1> QED BY <1>1, <1>4, <1>8, WrapUnique

(* A value that fits stays as it is.                                        *)
LEMMA WrapFits == \A a \in Int64 : Wrap(a) = a
<1> SUFFICES ASSUME NEW a \in Int64 PROVE Wrap(a) = a
  OBVIOUS
<1>1. a \in Int
  BY Int64IsInt
<1>2. PICK q \in Int : a = 2 * Half * q + Wrap(a)
  BY <1>1, WrapIs
<1>3. Wrap(a) \in Int64
  BY <1>1, WrapIs
<1>4. a = Wrap(a)
  <2> DEFINE w == Wrap(a)
  <2> HIDE DEF w
  <2>1. w \in Int64 /\ a = 2 * Half * q + w
    BY <1>2, <1>3 DEF w
  <2>2. a = w
    BY <2>1, WrapUnique
  <2> QED BY <2>2 DEF w
<1> QED BY <1>4

LEMMA ZeroFits == 0 \in Int64
BY HalfAssumption DEF Int64

-----------------------------------------------------------------------------
(* The recursive functions, from one index to the next.                     *)

(* Rounds is what its equation says.                                        *)
LEMMA RoundsDef ==
  ASSUME NEW b, NEW s, NEW ms, Len(ms) \in Nat
  PROVE  Rounds(b, s, ms) = [n \in 0..Len(ms) |->
             IF n = 0 THEN s ELSE BatchRound(b, Rounds(b, s, ms)[n - 1], ms[n])]
<1> DEFINE Good(f, n) == f = [i \in 0..n |-> IF i = 0 THEN s ELSE BatchRound(b, f[i - 1], ms[i])]
<1> DEFINE S == {n \in Nat : \E f : Good(f, n)}
<1>1. 0 \in S
  <2>1. Good([i \in 0..0 |-> s], 0)
    OBVIOUS
  <2> QED BY <2>1
<1>2. ASSUME NEW n \in Nat, n \in S PROVE n + 1 \in S
  <2>1. PICK g : Good(g, n)
    BY <1>2
  <2> DEFINE h == [i \in 0..(n + 1) |-> IF i <= n THEN g[i] ELSE BatchRound(b, g[n], ms[n + 1])]
  <2>2. Good(h, n + 1)
    BY <2>1
  <2>3. \E f : Good(f, n + 1)
    <3> HIDE DEF h, Good
    <3> QED BY <2>2
  <2> QED BY <2>3
<1>3. \E f : Good(f, Len(ms))
  BY <1>1, <1>2, SetInduction
<1> QED BY <1>3 DEF Rounds

LEMMA RoundsStep ==
  ASSUME NEW b, NEW s, NEW ms, Len(ms) \in Nat
  PROVE  /\ Rounds(b, s, ms)[0] = s
         /\ \A n \in 1..Len(ms) :
                Rounds(b, s, ms)[n] = BatchRound(b, Rounds(b, s, ms)[n - 1], ms[n])
<1> DEFINE R == Rounds(b, s, ms)
<1>1. R = [n \in 0..Len(ms) |-> IF n = 0 THEN s ELSE BatchRound(b, R[n - 1], ms[n])]
  BY RoundsDef
<1> HIDE DEF R
<1>2. R[0] = s /\ \A n \in 1..Len(ms) : R[n] = BatchRound(b, R[n - 1], ms[n])
  BY <1>1
<1> QED BY <1>2 DEF R

(* The same for Sums.                                                       *)
LEMMA SumsDef ==
  ASSUME NEW ms, NEW k, Len(ms) \in Nat
  PROVE  Sums(ms, k) = [n \in 0..Len(ms) |->
             IF n = 0 THEN 0
             ELSE Sums(ms, k)[n - 1] + (IF n \in Updates(ms, k) THEN ms[n].val ELSE 0)]
<1> DEFINE D(i) == IF i \in Updates(ms, k) THEN ms[i].val ELSE 0
<1> DEFINE Good(f, n) == f = [i \in 0..n |-> IF i = 0 THEN 0 ELSE f[i - 1] + D(i)]
<1> DEFINE S == {n \in Nat : \E f : Good(f, n)}
<1> HIDE DEF D
<1>1. 0 \in S
  <2>1. Good([i \in 0..0 |-> 0], 0)
    OBVIOUS
  <2> QED BY <2>1
<1>2. ASSUME NEW n \in Nat, n \in S PROVE n + 1 \in S
  <2>1. PICK g : Good(g, n)
    BY <1>2
  <2> DEFINE h == [i \in 0..(n + 1) |-> IF i <= n THEN g[i] ELSE g[n] + D(n + 1)]
  <2>2. Good(h, n + 1)
    BY <2>1
  <2>3. \E f : Good(f, n + 1)
    <3> HIDE DEF h, Good
    <3> QED BY <2>2
  <2> QED BY <2>3
<1>3. \E f : Good(f, Len(ms))
  BY <1>1, <1>2, SetInduction
<1> QED BY <1>3 DEF Sums, D

LEMMA SumsStep ==
  ASSUME NEW ms, NEW k, Len(ms) \in Nat
  PROVE  /\ Sums(ms, k)[0] = 0
         /\ \A n \in 1..Len(ms) : Sums(ms, k)[n] =
                Sums(ms, k)[n - 1] + (IF n \in Updates(ms, k) THEN ms[n].val ELSE 0)
<1> DEFINE R == Sums(ms, k)
           D(n) == IF n \in Updates(ms, k) THEN ms[n].val ELSE 0
<1>1. R = [n \in 0..Len(ms) |-> IF n = 0 THEN 0 ELSE R[n - 1] + D(n)]
  BY SumsDef
<1> HIDE DEF R, D
<1>2. R[0] = 0 /\ \A n \in 1..Len(ms) : R[n] = R[n - 1] + D(n)
  BY <1>1
<1> QED BY <1>2 DEF R, D

(* The function inside FlattenSeq.                                          *)
Cat(s, t) == s \o t

Flatten(ss) ==
    LET flatten[i \in 1..Len(ss)] == IF i = 1 THEN ss[i] ELSE Cat(flatten[i - 1], ss[i])
    IN  flatten

LEMMA FlattenDef ==
  ASSUME NEW ss, Len(ss) \in Nat
  PROVE  Flatten(ss) = [i \in 1..Len(ss) |-> IF i = 1 THEN ss[i] ELSE Cat(Flatten(ss)[i - 1], ss[i])]
<1> DEFINE Good(f, n) == f = [i \in 1..n |-> IF i = 1 THEN ss[i] ELSE Cat(f[i - 1], ss[i])]
<1> DEFINE S == {n \in Nat : \E f : Good(f, n)}
<1>1. 0 \in S
  <2>1. Good([i \in 1..0 |-> ss[i]], 0)
    OBVIOUS
  <2> QED BY <2>1
<1>2. ASSUME NEW n \in Nat, n \in S PROVE n + 1 \in S
  <2>1. PICK g : Good(g, n)
    BY <1>2
  <2> DEFINE last == IF n = 0 THEN ss[n + 1] ELSE Cat(g[n], ss[n + 1])
  <2> DEFINE h == [i \in 1..(n + 1) |-> IF i <= n THEN g[i] ELSE last]
  <2>2. Good(h, n + 1)
    <3>1. ASSUME NEW i \in 1..(n + 1)
          PROVE  h[i] = IF i = 1 THEN ss[i] ELSE Cat(h[i - 1], ss[i])
      <4>1. CASE i <= n
        <5>1. i \in 1..n /\ h[i] = g[i] /\ (i # 1 => h[i - 1] = g[i - 1])
          BY <4>1
        <5> QED BY <2>1, <5>1
      <4>2. CASE i = n + 1
        <5>1. h[i] = last /\ (n # 0 => h[i - 1] = g[n])
          BY <4>2
        <5> HIDE DEF h
        <5> QED BY <4>2, <5>1
      <4> QED BY <4>1, <4>2
    <3>2. h = [i \in 1..(n + 1) |-> h[i]]
      OBVIOUS
    <3> HIDE DEF h
    <3> QED BY <3>1, <3>2
  <2>3. \E f : Good(f, n + 1)
    <3> HIDE DEF h, Good
    <3> QED BY <2>2
  <2> QED BY <2>3
<1>3. \E f : Good(f, Len(ss))
  <2> HIDE DEF Good
  <2>1. Nat \subseteq S
    <3> HIDE DEF S
    <3> QED BY <1>1, <1>2, SetInduction
  <2> QED BY <2>1
<1> QED BY <1>3 DEF Flatten

LEMMA FlattenStep ==
  ASSUME NEW ss, Len(ss) \in Nat
  PROVE  /\ Len(ss) # 0 => Flatten(ss)[1] = ss[1]
         /\ \A i \in 2..Len(ss) : Flatten(ss)[i] = Cat(Flatten(ss)[i - 1], ss[i])
<1> DEFINE R == Flatten(ss)
<1>1. R = [i \in 1..Len(ss) |-> IF i = 1 THEN ss[i] ELSE Cat(R[i - 1], ss[i])]
  BY FlattenDef
<1> HIDE DEF R
<1>2. \A i \in 1..Len(ss) : R[i] = IF i = 1 THEN ss[i] ELSE Cat(R[i - 1], ss[i])
  BY <1>1
<1>3. Len(ss) # 0 => R[1] = ss[1]
  BY <1>2
<1>4. \A i \in 2..Len(ss) : R[i] = Cat(R[i - 1], ss[i])
  BY <1>2
<1> QED BY <1>3, <1>4 DEF R

LEMMA FlattenSeqIs ==
  ASSUME NEW ss
  PROVE  FlattenSeq(ss) = IF Len(ss) = 0 THEN ss ELSE Flatten(ss)[Len(ss)]
BY DEF FlattenSeq, Flatten, Cat

(* Flattening sequences gives a sequence, and one more sequence at the end  *)
(* comes behind what the others give.                                       *)
LEMMA FlattenAppend ==
  ASSUME NEW T, NEW ss \in Seq(Seq(T)), NEW x \in Seq(T)
  PROVE  /\ FlattenSeq(ss) \in Seq(T)
         /\ FlattenSeq(Append(ss, x)) = FlattenSeq(ss) \o x
<1> DEFINE tt == Append(ss, x)
           N == Len(ss)
<1>1. N \in Nat /\ Len(tt) = N + 1 /\ tt[N + 1] = x /\ \A i \in 1..N : tt[i] = ss[i]
  OBVIOUS
<1> DEFINE F == Flatten(ss)
           G == Flatten(tt)
<1>2. (N # 0 => F[1] = ss[1]) /\ \A i \in 2..N : F[i] = Cat(F[i - 1], ss[i])
  BY <1>1, FlattenStep
<1>3. G[1] = tt[1] /\ \A i \in 2..(N + 1) : G[i] = Cat(G[i - 1], tt[i])
  <2> HIDE DEF tt
  <2>1. Len(tt) \in Nat
    BY <1>1
  <2>2. (Len(tt) # 0 => G[1] = tt[1]) /\ \A i \in 2..Len(tt) : G[i] = Cat(G[i - 1], tt[i])
    BY <2>1, FlattenStep
  <2> QED BY <1>1, <2>2
<1> DEFINE S == {n \in Nat : n \in 1..N => F[n] \in Seq(T) /\ G[n] = F[n]}
<1>4. N \in S
  <2> HIDE DEF F, G, tt, N
  <2>1. 0 \in S
    OBVIOUS
  <2>2. ASSUME NEW n \in Nat, n \in S PROVE n + 1 \in S
    <3> SUFFICES ASSUME n + 1 \in 1..N PROVE F[n + 1] \in Seq(T) /\ G[n + 1] = F[n + 1]
      OBVIOUS
    <3>1. ss[n + 1] \in Seq(T) /\ tt[n + 1] = ss[n + 1]
      BY <1>1 DEF N
    <3>2. CASE n = 0
      <4>1. n + 1 = 1 /\ N # 0
        BY <1>1, <3>2
      <4>2. F[n + 1] = ss[n + 1] /\ G[n + 1] = tt[n + 1]
        BY <1>2, <1>3, <4>1
      <4> QED BY <3>1, <4>2
    <3>3. CASE n # 0
      <4>1. F[n] \in Seq(T) /\ G[n] = F[n]
        BY <2>2, <3>3, <1>1
      <4>2. n + 1 \in 2..N /\ n + 1 \in 2..(N + 1) /\ (n + 1) - 1 = n
        BY <1>1, <3>3
      <4>3. F[n + 1] = Cat(F[n], ss[n + 1])
        BY <1>2, <4>2
      <4>4. G[n + 1] = Cat(G[n], tt[n + 1])
        BY <1>3, <4>2
      <4> QED BY <4>1, <4>3, <4>4, <3>1 DEF Cat
    <3> QED BY <3>2, <3>3
  <2>3. Nat \subseteq S
    <3> HIDE DEF S
    <3> QED BY <2>1, <2>2, SetInduction
  <2> QED BY <2>3, <1>1
<1>5. FlattenSeq(ss) = IF N = 0 THEN ss ELSE F[N]
  BY FlattenSeqIs
<1>6. FlattenSeq(tt) = G[N + 1]
  <2> HIDE DEF tt
  <2>1. Len(tt) # 0 /\ Len(tt) = N + 1
    BY <1>1
  <2> QED BY <2>1, FlattenSeqIs
<1>7. CASE N = 0
  <2>1. ss = <<>>
    BY <1>7
  <2>2. G[N + 1] = x
    BY <1>1, <1>3, <1>7
  <2>3. FlattenSeq(ss) = <<>>
    BY <1>5, <1>7, <2>1
  <2> QED BY <1>6, <2>2, <2>3
<1>8. CASE N # 0
  <2>1. F[N] \in Seq(T) /\ G[N] = F[N]
    <3> HIDE DEF F, G
    <3> QED BY <1>1, <1>4, <1>8
  <2>2. G[N + 1] = G[N] \o x
    <3> HIDE DEF G, tt, N
    <3>1. N + 1 \in 2..(N + 1) /\ (N + 1) - 1 = N
      BY <1>1, <1>8
    <3>2. G[N + 1] = Cat(G[N], tt[N + 1])
      BY <1>3, <3>1
    <3> QED BY <1>1, <3>2 DEF Cat
  <2> QED BY <1>5, <1>6, <1>8, <2>1, <2>2
<1> QED BY <1>7, <1>8

LEMMA FlattenEmpty == FlattenSeq(<<>>) = <<>>
BY FlattenSeqIs

-----------------------------------------------------------------------------
(* A loop over two sequences, one after the other.                          *)

(* The storage after the first rounds depends on nothing but their metrics, *)
(* and a batch can be cut in two.                                           *)
LEMMA BatchInTwo ==
  ASSUME NEW b, NEW s, NEW T, NEW A \in Seq(T), NEW B \in Seq(T)
  PROVE  UpdateBatch(b, s, A \o B) = UpdateBatch(b, UpdateBatch(b, s, A), B)
<1> DEFINE C == A \o B
           RA == Rounds(b, s, A)
           RC == Rounds(b, s, C)
           mid == RA[Len(A)]
           RB == Rounds(b, mid, B)
<1>1. /\ Len(A) \in Nat /\ Len(B) \in Nat /\ Len(C) = Len(A) + Len(B)
      /\ \A i \in 1..Len(A) : C[i] = A[i]
      /\ \A i \in 1..Len(B) : C[Len(A) + i] = B[i]
  OBVIOUS
<1> HIDE DEF C
<1>2. /\ RA[0] = s
      /\ \A n \in 1..Len(A) : RA[n] = BatchRound(b, RA[n - 1], A[n])
  BY <1>1, RoundsStep
<1>3. /\ RC[0] = s
      /\ \A n \in 1..(Len(A) + Len(B)) : RC[n] = BatchRound(b, RC[n - 1], C[n])
  <2>1. Len(C) \in Nat
    BY <1>1
  <2>2. RC[0] = s /\ \A n \in 1..Len(C) : RC[n] = BatchRound(b, RC[n - 1], C[n])
    BY <2>1, RoundsStep
  <2> QED BY <1>1, <2>2
<1>4. /\ RB[0] = mid
      /\ \A n \in 1..Len(B) : RB[n] = BatchRound(b, RB[n - 1], B[n])
  <2> HIDE DEF mid
  <2> QED BY <1>1, RoundsStep
<1> DEFINE S == {n \in Nat : n <= Len(A) => RC[n] = RA[n]}
<1>5. RC[Len(A)] = mid
  <2> HIDE DEF RA, RC
  <2>1. 0 \in S
    BY <1>2, <1>3
  <2>2. ASSUME NEW n \in Nat, n \in S PROVE n + 1 \in S
    <3> SUFFICES ASSUME n + 1 <= Len(A) PROVE RC[n + 1] = RA[n + 1]
      OBVIOUS
    <3>1. RC[n] = RA[n]
      BY <1>1, <2>2
    <3>2. RC[n + 1] = BatchRound(b, RC[n], C[n + 1])
      BY <1>1, <1>3
    <3>3. RA[n + 1] = BatchRound(b, RA[n], A[n + 1])
      BY <1>1, <1>2
    <3> QED BY <1>1, <3>1, <3>2, <3>3
  <2>3. Nat \subseteq S
    <3> HIDE DEF S
    <3> QED BY <2>1, <2>2, SetInduction
  <2> QED BY <2>3, <1>1
<1> DEFINE U == {n \in Nat : n <= Len(B) => RC[Len(A) + n] = RB[n]}
<1>6. RC[Len(A) + Len(B)] = RB[Len(B)]
  <2> HIDE DEF RB, RC, mid
  <2>1. 0 \in U
    BY <1>1, <1>4, <1>5
  <2>2. ASSUME NEW n \in Nat, n \in U PROVE n + 1 \in U
    <3> SUFFICES ASSUME n + 1 <= Len(B) PROVE RC[Len(A) + (n + 1)] = RB[n + 1]
      OBVIOUS
    <3>1. RC[Len(A) + n] = RB[n]
      BY <1>1, <2>2
    <3>2. RC[Len(A) + (n + 1)] = BatchRound(b, RC[Len(A) + n], C[Len(A) + (n + 1)])
      <4> DEFINE j == Len(A) + (n + 1)
      <4>1. j \in 1..(Len(A) + Len(B)) /\ j - 1 = Len(A) + n
        BY <1>1
      <4> HIDE DEF j
      <4>2. RC[j] = BatchRound(b, RC[j - 1], C[j])
        BY <1>3, <4>1
      <4>3. RC[j] = BatchRound(b, RC[Len(A) + n], C[j])
        BY <4>1, <4>2
      <4> QED BY <4>3 DEF j
    <3>3. RB[n + 1] = BatchRound(b, RB[n], B[n + 1])
      BY <1>1, <1>4
    <3>4. C[Len(A) + (n + 1)] = B[n + 1]
      BY <1>1
    <3> QED BY <3>1, <3>2, <3>3, <3>4
  <2>3. Nat \subseteq U
    <3> HIDE DEF U
    <3> QED BY <2>1, <2>2, SetInduction
  <2> QED BY <2>3, <1>1
<1> QED BY <1>1, <1>6 DEF UpdateBatch, C

-----------------------------------------------------------------------------
(* What the rounds of one batch do to a storage.                            *)

KnownKeys == {k \in STRING \X STRING : k[1] \in {Gauge, Counter}}

(* A storage is a function with finitely many metrics of the two types, and *)
(* in memory its counters are 64 bits wide.                                 *)
StorageOK(b, s) ==
    /\ DOMAIN s \subseteq KnownKeys
    /\ IsFiniteSet(DOMAIN s)
    /\ s = [k \in DOMAIN s |-> s[k]]
    /\ \A k \in DOMAIN s : s[k] \in Int
    /\ b = "mem" => \A k \in DOMAIN s : k[1] = Counter => s[k] \in Int64

LEMMA EmptyStorage == \A b : StorageOK(b, <<>>)
<1>1. DOMAIN <<>> = {} /\ <<>> = [k \in {} |-> 0]
  OBVIOUS
<1> QED BY <1>1, FS_EmptySet DEF StorageOK

(* What one update does, for the metric and for the others.                 *)
Old(s, m) == IF Key(m) \in DOMAIN s THEN s[Key(m)] ELSE 0

Effect(b, s, m, t) ==
    /\ DOMAIN t = DOMAIN s \cup {Key(m)}
    /\ t = [k \in DOMAIN t |-> t[k]]
    /\ \A k \in DOMAIN s : k # Key(m) => t[k] = s[k]
    /\ m.mtype = Gauge => t[Key(m)] = m.val
    /\ m.mtype = Counter =>
           t[Key(m)] = IF b = "mem" THEN Wrap(Old(s, m) + m.val) ELSE Old(s, m) + m.val
    /\ Old(s, m) \in Int /\ m.val \in Int
    /\ Key(m) \in KnownKeys /\ Key(m)[1] = m.mtype

LEMMA RoundEffect ==
  ASSUME NEW b, NEW s, StorageOK(b, s), NEW m \in Metric, Known(m), m.val # None
  PROVE  Effect(b, s, m, BatchRound(b, s, m))
<1> DEFINE t == BatchRound(b, s, m)
           old == Old(s, m)
           new == IF m.mtype = Gauge THEN m.val
                  ELSE IF b = "mem" THEN Wrap(old + m.val) ELSE old + m.val
<1>1. t = [k \in DOMAIN s \cup {Key(m)} |-> IF k # Key(m) THEN s[k] ELSE new]
  BY DEF BatchRound, UpdateOne, Old
<1>2. old \in Int /\ m.val \in Int
  BY DEF StorageOK, Metric, Old
<1>3. Key(m) \in KnownKeys /\ Key(m)[1] = m.mtype
  BY DEF Key, Metric, KnownKeys, Known
<1>4. m.mtype = Counter => m.mtype # Gauge
  BY DEF Counter, Gauge
<1> HIDE DEF t
<1>5. /\ DOMAIN t = DOMAIN s \cup {Key(m)}
      /\ t = [k \in DOMAIN t |-> t[k]]
      /\ \A k \in DOMAIN s : k # Key(m) => t[k] = s[k]
      /\ t[Key(m)] = new
  <2> HIDE DEF new
  <2> QED BY <1>1
<1> QED BY <1>2, <1>3, <1>4, <1>5 DEF t, Effect

(* A round leaves a storage.                                                *)
LEMMA RoundTyped ==
  ASSUME NEW b, NEW s, StorageOK(b, s), NEW m \in Metric
  PROVE  StorageOK(b, BatchRound(b, s, m))
<1>1. CASE ~ (Known(m) /\ m.val # None)
  BY <1>1 DEF BatchRound
<1>2. CASE Known(m) /\ m.val # None
  <2> DEFINE t == BatchRound(b, s, m)
             old == Old(s, m)
  <2>1. /\ DOMAIN t = DOMAIN s \cup {Key(m)}
        /\ t = [k \in DOMAIN t |-> t[k]]
        /\ \A k \in DOMAIN s : k # Key(m) => t[k] = s[k]
        /\ m.mtype = Gauge => t[Key(m)] = m.val
        /\ m.mtype = Counter => t[Key(m)] = IF b = "mem" THEN Wrap(old + m.val) ELSE old + m.val
        /\ old \in Int /\ m.val \in Int
        /\ Key(m) \in KnownKeys /\ Key(m)[1] = m.mtype
    BY <1>2, RoundEffect DEF Effect
  <2> HIDE DEF t, old
  <2>2. Wrap(old + m.val) \in Int64 /\ Wrap(old + m.val) \in Int
    BY <2>1, WrapIs, Int64IsInt
  <2>3. t[Key(m)] \in Int /\ (b = "mem" /\ m.mtype = Counter => t[Key(m)] \in Int64)
    BY <1>2, <2>1, <2>2 DEF Known
  <2>4. IsFiniteSet(DOMAIN t)
    BY <2>1, FS_AddElement DEF StorageOK
  <2>5. \A k \in DOMAIN t : t[k] \in Int
    BY <2>1, <2>3 DEF StorageOK
  <2>6. b = "mem" => \A k \in DOMAIN t : k[1] = Counter => t[k] \in Int64
    BY <2>1, <2>3 DEF StorageOK
  <2>7. DOMAIN t \subseteq KnownKeys
    BY <2>1 DEF StorageOK
  <2> QED BY <2>1, <2>4, <2>5, <2>6, <2>7 DEF StorageOK, t
<1> QED BY <1>1, <1>2

LEMMA RoundsTyped ==
  ASSUME NEW b, NEW s, StorageOK(b, s), NEW ms \in Seq(Metric)
  PROVE  \A n \in 0..Len(ms) : StorageOK(b, Rounds(b, s, ms)[n])
<1> DEFINE R == Rounds(b, s, ms)
           S == {n \in Nat : n <= Len(ms) => StorageOK(b, R[n])}
<1>1. Len(ms) \in Nat
  OBVIOUS
<1>2. R[0] = s /\ \A n \in 1..Len(ms) : R[n] = BatchRound(b, R[n - 1], ms[n])
  BY <1>1, RoundsStep
<1> HIDE DEF R
<1>3. 0 \in S
  BY <1>2
<1>4. ASSUME NEW n \in Nat, n \in S PROVE n + 1 \in S
  <2> SUFFICES ASSUME n + 1 <= Len(ms) PROVE StorageOK(b, R[n + 1])
    OBVIOUS
  <2>1. StorageOK(b, R[n]) /\ ms[n + 1] \in Metric
    BY <1>1, <1>4
  <2>2. R[n + 1] = BatchRound(b, R[n], ms[n + 1])
    BY <1>1, <1>2
  <2>3. StorageOK(b, BatchRound(b, R[n], ms[n + 1]))
    BY <2>1, RoundTyped
  <2> QED BY <2>2, <2>3
<1>5. Nat \subseteq S
  <2> HIDE DEF S
  <2> QED BY <1>3, <1>4, SetInduction
<1>6. \A n \in 0..Len(ms) : StorageOK(b, R[n])
  BY <1>1, <1>5
<1> QED BY <1>6 DEF R

LEMMA BatchTyped ==
  ASSUME NEW b, NEW s, StorageOK(b, s), NEW ms \in Seq(Metric)
  PROVE  StorageOK(b, UpdateBatch(b, s, ms))
<1>1. Len(ms) \in 0..Len(ms)
  OBVIOUS
<1> QED BY <1>1, RoundsTyped DEF UpdateBatch

(* The updates of a metric in the first n of a sequence, and what they make *)
(* of it when the storage was empty.                                        *)
UpTo(ms, k, n) == Updates(ms, k) \cap (1..n)

Agrees(b, ms, n, k) ==
    LET s == Rounds(b, <<>>, ms)[n]
        sum == Sums(ms, k)[n]
        us == UpTo(ms, k, n)
    IN  /\ sum \in Int
        /\ us = {} => k \notin DOMAIN s /\ sum = 0
        /\ us # {} => /\ k \in DOMAIN s
                      /\ k[1] = Gauge => s[k] = ms[Max(us)].val
                      /\ k[1] = Counter => s[k] = IF b = "mem" THEN Wrap(sum) ELSE sum

LEMMA MaxIs ==
  ASSUME NEW us, NEW n \in Nat, us \subseteq 1..n, n \in us
  PROVE  Max(us) = n
<1> DEFINE P(x) == x \in us /\ \A y \in us : x >= y
<1>1. P(n)
  OBVIOUS
<1>2. ASSUME NEW x, P(x) PROVE x = n
  <2>1. x \in 1..n /\ x >= n
    BY <1>2
  <2> QED BY <2>1
<1>3. Max(us) = CHOOSE x : P(x)
  BY DEF Max
<1> HIDE DEF P
<1>4. P(CHOOSE x : P(x))
  BY <1>1
<1> QED BY <1>2, <1>3, <1>4

(* A round that does not touch the metric.                                  *)
LEMMA RoundElsewhere ==
  ASSUME NEW b, NEW ms \in Seq(Metric), NEW n \in Nat, n + 1 <= Len(ms),
         NEW k \in KnownKeys, Agrees(b, ms, n, k),
         ~ (Key(ms[n + 1]) = k /\ ms[n + 1].val # None)
  PROVE  Agrees(b, ms, n + 1, k)
<1> DEFINE R == Rounds(b, <<>>, ms)
           F == Sums(ms, k)
           m == ms[n + 1]
<1>1. Len(ms) \in Nat /\ n + 1 \in 1..Len(ms) /\ (n + 1) - 1 = n /\ n \in 0..Len(ms) /\ m \in Metric
  OBVIOUS
<1>2. R[n + 1] = BatchRound(b, R[n], m)
  BY <1>1, RoundsStep
<1>3. n + 1 \notin Updates(ms, k)
  BY DEF Updates
<1>4. F[n + 1] = F[n] + 0
  BY <1>1, <1>3, SumsStep
<1>5. UpTo(ms, k, n + 1) = UpTo(ms, k, n)
  BY <1>1, <1>3 DEF UpTo
<1>6. StorageOK(b, R[n])
  BY <1>1, RoundsTyped, EmptyStorage
<1>7. (k \in DOMAIN R[n + 1] <=> k \in DOMAIN R[n]) /\ (k \in DOMAIN R[n] => R[n + 1][k] = R[n][k])
  <2> HIDE DEF R, m
  <2>1. CASE ~ (Known(m) /\ m.val # None)
    BY <1>2, <2>1 DEF BatchRound
  <2>2. CASE Known(m) /\ m.val # None
    <3>1. Key(m) # k
      BY <2>2 DEF m
    <3> DEFINE s == R[n]
               u == BatchRound(b, s, m)
    <3>2. m \in Metric /\ StorageOK(b, s)
      BY <1>1, <1>6
    <3> HIDE DEF s
    <3>3. Effect(b, s, m, u)
      BY <2>2, <3>2, RoundEffect
    <3>4. R[n + 1] = u
      BY <1>2 DEF s
    <3> HIDE DEF u
    <3>5. (k \in DOMAIN u <=> k \in DOMAIN s) /\ (k \in DOMAIN s => u[k] = s[k])
      BY <3>1, <3>3 DEF Effect
    <3> QED BY <3>4, <3>5 DEF s
  <2> QED BY <2>1, <2>2
<1> HIDE DEF R, F, m
<1>8. F[n] \in Int => F[n + 1] = F[n]
  BY <1>4
<1> QED BY <1>5, <1>7, <1>8 DEF Agrees, R, F

(* A round that does.                                                       *)
LEMMA RoundHere ==
  ASSUME NEW b, NEW ms \in Seq(Metric), NEW n \in Nat, n + 1 <= Len(ms),
         NEW k \in KnownKeys, Agrees(b, ms, n, k),
         Key(ms[n + 1]) = k, ms[n + 1].val # None
  PROVE  Agrees(b, ms, n + 1, k)
<1> DEFINE R == Rounds(b, <<>>, ms)
           F == Sums(ms, k)
           m == ms[n + 1]
           old == IF k \in DOMAIN R[n] THEN R[n][k] ELSE 0
<1>1. Len(ms) \in Nat /\ n + 1 \in 1..Len(ms) /\ (n + 1) - 1 = n /\ n \in 0..Len(ms) /\ m \in Metric
  OBVIOUS
<1>2. R[n + 1] = BatchRound(b, R[n], m)
  BY <1>1, RoundsStep
<1>3. n + 1 \in Updates(ms, k)
  BY <1>1 DEF Updates
<1>4. F[n + 1] = F[n] + m.val
  BY <1>1, <1>3, SumsStep
<1>5. n + 1 \in UpTo(ms, k, n + 1) /\ Max(UpTo(ms, k, n + 1)) = n + 1
  <2> DEFINE N == n + 1
             us == UpTo(ms, k, N)
  <2>1. N \in Nat /\ us \subseteq 1..N /\ N \in us
    BY <1>3 DEF UpTo
  <2> HIDE DEF us, N
  <2>2. Max(us) = N
    BY <2>1, MaxIs
  <2> QED BY <2>1, <2>2 DEF us, N
<1>6. StorageOK(b, R[n])
  BY <1>1, RoundsTyped, EmptyStorage
<1>7. Known(m)
  <2>1. Key(m)[1] = m.mtype /\ k[1] \in {Gauge, Counter}
    BY DEF Key, KnownKeys
  <2> QED BY <2>1 DEF Known
<1>8. /\ k \in DOMAIN R[n + 1]
      /\ m.mtype = Gauge => R[n + 1][k] = m.val
      /\ m.mtype = Counter => R[n + 1][k] = IF b = "mem" THEN Wrap(old + m.val) ELSE old + m.val
      /\ old \in Int /\ m.val \in Int
      /\ k[1] = m.mtype
  <2> HIDE DEF R, m
  <2>1. Key(m) = k /\ m.val # None
    BY DEF m
  <2> DEFINE s == R[n]
             u == BatchRound(b, s, m)
  <2>2. m \in Metric /\ StorageOK(b, s)
    BY <1>1, <1>6
  <2> HIDE DEF s
  <2>3. Effect(b, s, m, u)
    BY <1>7, <2>1, <2>2, RoundEffect
  <2>4. R[n + 1] = u /\ Old(s, m) = old
    BY <1>2, <2>1 DEF s, Old
  <2> HIDE DEF u, old
  <2> QED BY <2>1, <2>3, <2>4 DEF Effect
<1>9. F[n] \in Int /\ (UpTo(ms, k, n) = {} => k \notin DOMAIN R[n] /\ F[n] = 0)
  BY DEF Agrees
<1>10. UpTo(ms, k, n) # {} =>
           /\ k \in DOMAIN R[n]
           /\ k[1] = Counter => R[n][k] = IF b = "mem" THEN Wrap(F[n]) ELSE F[n]
  BY DEF Agrees
<1> HIDE DEF R, F, m
<1>11. F[n + 1] \in Int
  BY <1>4, <1>8, <1>9
<1>12. k[1] = Counter => R[n + 1][k] = IF b = "mem" THEN Wrap(F[n + 1]) ELSE F[n + 1]
  <2> SUFFICES ASSUME k[1] = Counter
               PROVE  R[n + 1][k] = IF b = "mem" THEN Wrap(F[n + 1]) ELSE F[n + 1]
    OBVIOUS
  <2>1. R[n + 1][k] = IF b = "mem" THEN Wrap(old + m.val) ELSE old + m.val
    BY <1>8
  <2>2. CASE UpTo(ms, k, n) = {}
    <3>1. old = F[n]
      BY <1>9, <2>2
    <3> QED BY <1>4, <2>1, <3>1
  <2>3. CASE UpTo(ms, k, n) # {}
    <3>1. old = IF b = "mem" THEN Wrap(F[n]) ELSE F[n]
      BY <1>10, <2>3
    <3>2. Wrap(Wrap(F[n]) + m.val) = Wrap(F[n] + m.val)
      BY <1>8, <1>9, WrapAdds
    <3> QED BY <1>4, <2>1, <3>1, <3>2
  <2> QED BY <2>2, <2>3
<1>13. k[1] = Gauge => R[n + 1][k] = ms[n + 1].val
  BY <1>8 DEF m
<1> QED BY <1>5, <1>8, <1>11, <1>12, <1>13 DEF Agrees, R, F

(* The storage after a sequence of metrics is what the definition with the  *)
(* last value and the sum says.                                             *)
LEMMA RoundsAgree ==
  ASSUME NEW b, NEW ms \in Seq(Metric), NEW k \in KnownKeys
  PROVE  Agrees(b, ms, Len(ms), k)
<1> DEFINE S == {n \in Nat : n <= Len(ms) => Agrees(b, ms, n, k)}
<1>1. 0 \in S
  <2>1. Len(ms) \in Nat /\ DOMAIN <<>> = {}
    OBVIOUS
  <2>2. Rounds(b, <<>>, ms)[0] = <<>> /\ Sums(ms, k)[0] = 0
    BY <2>1, RoundsStep, SumsStep
  <2>3. UpTo(ms, k, 0) = {}
    BY DEF UpTo
  <2> QED BY <2>1, <2>2, <2>3 DEF Agrees
<1>2. ASSUME NEW n \in Nat, n \in S PROVE n + 1 \in S
  <2> SUFFICES ASSUME n + 1 <= Len(ms) PROVE Agrees(b, ms, n + 1, k)
    OBVIOUS
  <2>1. Agrees(b, ms, n, k)
    BY <1>2
  <2> QED BY <2>1, RoundElsewhere, RoundHere
<1>3. Nat \subseteq S
  <2> HIDE DEF S
  <2> QED BY <1>1, <1>2, SetInduction
<1> QED BY <1>3

(* What Value says of a sequence of metrics.                                *)
ValueOf(b, ms, k) ==
    LET us == Updates(ms, k)
        total == Sums(ms, k)[Len(ms)]
    IN  IF us = {} THEN None
        ELSE IF k[1] = Gauge THEN ms[Max(us)].val
        ELSE IF b = "mem" THEN Wrap(total) ELSE total

(* So the storage has a metric exactly if there was an update of it, and    *)
(* with the value of the definition.                                        *)
LEMMA BatchAgrees ==
  ASSUME NEW b, NEW ms \in Seq(Metric), NEW k \in KnownKeys
  PROVE  /\ Lookup(UpdateBatch(b, <<>>, ms), k) = ValueOf(b, ms, k)
         /\ k \in DOMAIN UpdateBatch(b, <<>>, ms) => Updates(ms, k) # {}
<1> DEFINE s == UpdateBatch(b, <<>>, ms)
<1>1. Agrees(b, ms, Len(ms), k)
  BY RoundsAgree
<1>2. UpTo(ms, k, Len(ms)) = Updates(ms, k)
  BY DEF UpTo, Updates
<1>3. k[1] \in {Gauge, Counter}
  BY DEF KnownKeys
<1>4. /\ Updates(ms, k) = {} => k \notin DOMAIN s
      /\ Updates(ms, k) # {} => /\ k \in DOMAIN s
                                /\ k[1] = Gauge => s[k] = ms[Max(Updates(ms, k))].val
      /\ Updates(ms, k) # {} /\ k[1] = Counter =>
             s[k] = IF b = "mem" THEN Wrap(Sums(ms, k)[Len(ms)]) ELSE Sums(ms, k)[Len(ms)]
  BY <1>1, <1>2 DEF Agrees, UpdateBatch
<1> HIDE DEF s
<1>5. Lookup(s, k) = ValueOf(b, ms, k)
  BY <1>3, <1>4 DEF Lookup, ValueOf
<1> QED BY <1>4, <1>5 DEF s

-----------------------------------------------------------------------------
(* A snapshot and its way back.                                             *)

Entry(s, k) == [mtype |-> k[1], id |-> k[2], val |-> s[k]]

(* What Snapshot writes for a metric is a metric that Load takes.           *)
LEMMA EntryIs ==
  ASSUME NEW b, NEW s, StorageOK(b, s), NEW k \in DOMAIN s
  PROVE  LET m == Entry(s, k)
         IN  /\ m \in Metric /\ Known(m) /\ m.val # None
             /\ Key(m) = k /\ m.val = s[k] /\ m.mtype = k[1]
<1>1. k \in KnownKeys /\ s[k] \in Int
  BY DEF StorageOK
<1>2. k[1] \in {Gauge, Counter} /\ k[1] \in STRING /\ k[2] \in STRING /\ k = <<k[1], k[2]>>
  BY <1>1 DEF KnownKeys
<1> QED BY <1>1, <1>2, NoneAssumption DEF Entry, Metric, Known, Key

(* An order of the snapshot is a sequence with every metric of the storage  *)
(* in it once.                                                              *)
LEMMA SnapshotOrder ==
  ASSUME NEW b, NEW s, StorageOK(b, s), NEW ms \in SetToSeqs(Snapshot(s))
  PROVE  /\ ms \in Seq(Metric)
         /\ \A i \in 1..Len(ms) : Key(ms[i]) \in DOMAIN s /\ ms[i] = Entry(s, Key(ms[i]))
         /\ \A i, j \in 1..Len(ms) : i # j => Key(ms[i]) # Key(ms[j])
         /\ \A k \in DOMAIN s : \E i \in 1..Len(ms) : Key(ms[i]) = k
<1> DEFINE D == DOMAIN s
           Snap == Snapshot(s)
           N == Cardinality(Snap)
           f == [k \in D |-> Entry(s, k)]
<1>1. Snap = {Entry(s, k) : k \in D}
  BY DEF Snapshot, Entry
<1>2. IsFiniteSet(D)
  BY DEF StorageOK
<1>3. \A k \in D : /\ Entry(s, k) \in Metric /\ Known(Entry(s, k)) /\ Entry(s, k).val # None
                   /\ Key(Entry(s, k)) = k
  BY EntryIs
<1>4. f \in Surjection(D, Snap)
  BY <1>1 DEF Surjection
<1>5. IsFiniteSet(Snap)
  <2> HIDE DEF f, Snap, D
  <2> QED BY <1>2, <1>4, FS_Surjection
<1>6. N \in Nat
  <2> HIDE DEF Snap
  <2> QED BY <1>5, FS_CardinalityType
<1>7. ms \in [1..N -> Snap] /\ \A i, j \in 1..N : i # j => ms[i] # ms[j]
  BY DEF SetToSeqs
<1> HIDE DEF Snap, N, f
<1>8. ms \in Injection(1..N, Snap)
  BY <1>7 DEF Injection, IsInjective
<1>9. Cardinality(1..N) = N
  BY <1>6, FS_Interval
<1>10. ms \in Surjection(1..N, Snap)
  BY <1>5, <1>8, <1>9, FS_Injection DEF N
<1>11. \A x \in Snap : \E i \in 1..N : ms[i] = x
  BY <1>10 DEF Surjection
<1>12. \A i \in 1..N : Key(ms[i]) \in D /\ ms[i] = Entry(s, Key(ms[i])) /\ ms[i] \in Metric
  BY <1>1, <1>3, <1>7
<1>13. ms \in Seq(Metric) /\ Len(ms) = N
  BY <1>6, <1>7, <1>12
<1>14. \A i, j \in 1..N : i # j => Key(ms[i]) # Key(ms[j])
  BY <1>7, <1>12
<1>15. ASSUME NEW k \in D PROVE \E i \in 1..N : Key(ms[i]) = k
  <2>1. Entry(s, k) \in Snap
    BY <1>1
  <2>2. PICK i \in 1..N : ms[i] = Entry(s, k)
    BY <1>11, <2>1
  <2>3. Key(ms[i]) = k
    BY <1>3, <2>2
  <2> QED BY <2>3
<1> QED BY <1>12, <1>13, <1>14, <1>15

(* Replayed in that order it gives the storage back.                        *)
LEMMA ReplayRestores ==
  ASSUME NEW b, NEW s, StorageOK(b, s), NEW ms \in SetToSeqs(Snapshot(s))
  PROVE  UpdateBatch(b, <<>>, ms) = s
<1> DEFINE R == Rounds(b, <<>>, ms)
           N == Len(ms)
           K(i) == Key(ms[i])
           S == {n \in Nat : n <= N => /\ DOMAIN R[n] = {K(i) : i \in 1..n}
                                       /\ \A i \in 1..n : R[n][K(i)] = s[K(i)]}
<1>1. ms \in Seq(Metric) /\ N \in Nat
  BY SnapshotOrder
<1>2. /\ \A i \in 1..N : K(i) \in DOMAIN s /\ ms[i] = Entry(s, K(i))
      /\ \A i, j \in 1..N : i # j => K(i) # K(j)
      /\ \A k \in DOMAIN s : \E i \in 1..N : K(i) = k
  BY SnapshotOrder
<1>3. R[0] = <<>> /\ \A n \in 1..N : R[n] = BatchRound(b, R[n - 1], ms[n])
  BY <1>1, RoundsStep
<1>4. \A n \in 0..N : StorageOK(b, R[n])
  BY <1>1, RoundsTyped, EmptyStorage
<1> HIDE DEF R, N
<1>5. 0 \in S
  <2>1. DOMAIN <<>> = {}
    OBVIOUS
  <2> QED BY <1>3, <2>1
<1>6. ASSUME NEW n \in Nat, n \in S PROVE n + 1 \in S
  <2> SUFFICES ASSUME n + 1 <= N
               PROVE  /\ DOMAIN R[n + 1] = {K(i) : i \in 1..(n + 1)}
                      /\ \A i \in 1..(n + 1) : R[n + 1][K(i)] = s[K(i)]
    OBVIOUS
  <2> DEFINE m == ms[n + 1]
             t == R[n]
             u == BatchRound(b, t, m)
  <2>1. /\ n + 1 \in 1..N /\ n \in 0..N /\ (n + 1) - 1 = n
        /\ DOMAIN t = {K(i) : i \in 1..n} /\ \A i \in 1..n : t[K(i)] = s[K(i)]
    BY <1>1, <1>6
  <2>2. R[n + 1] = u
    BY <1>3, <2>1
  <2>3. Key(m) = K(n + 1) /\ K(n + 1) \in DOMAIN s /\ m = Entry(s, K(n + 1))
    BY <1>2, <2>1
  <2>4. /\ m \in Metric /\ Known(m) /\ m.val # None
        /\ m.val = s[Key(m)] /\ m.mtype = Key(m)[1]
    BY <2>3, EntryIs
  <2>5. Key(m) \notin DOMAIN t
    <3>1. \A i \in 1..n : i \in 1..N /\ i # n + 1
      BY <1>1, <2>1
    <3> QED BY <1>2, <2>1, <3>1
  <2>6. StorageOK(b, t)
    BY <1>4, <2>1
  <2> HIDE DEF t, m
  <2>7. Effect(b, t, m, u)
    BY <2>4, <2>6, RoundEffect
  <2>8. u[Key(m)] = m.val
    <3>1. Old(t, m) = 0 /\ m.val \in Int
      BY <2>5, <2>7 DEF Old, Effect
    <3>2. CASE m.mtype = Gauge
      BY <2>7, <3>2 DEF Effect
    <3>3. CASE m.mtype = Counter
      <4>1. u[Key(m)] = IF b = "mem" THEN Wrap(0 + m.val) ELSE 0 + m.val
        BY <2>7, <3>1, <3>3 DEF Effect
      <4>2. b = "mem" => m.val \in Int64
        BY <2>3, <2>4, <3>3 DEF StorageOK
      <4>3. b = "mem" => Wrap(m.val) = m.val
        BY <4>2, WrapFits
      <4>4. 0 + m.val = m.val
        BY <3>1
      <4> QED BY <4>1, <4>3, <4>4
    <3> QED BY <2>4, <3>2, <3>3 DEF Known
  <2>9. DOMAIN u = DOMAIN t \cup {Key(m)} /\ \A k \in DOMAIN t : k # Key(m) => u[k] = t[k]
    BY <2>7 DEF Effect
  <2> HIDE DEF u, K
  <2>10. {K(i) : i \in 1..(n + 1)} = {K(i) : i \in 1..n} \cup {K(n + 1)}
    <3>1. \A i : i \in 1..(n + 1) <=> i \in 1..n \/ i = n + 1
      OBVIOUS
    <3> QED BY <3>1
  <2>11. DOMAIN R[n + 1] = {K(i) : i \in 1..(n + 1)}
    BY <2>1, <2>2, <2>3, <2>9, <2>10
  <2>12. ASSUME NEW i \in 1..(n + 1) PROVE R[n + 1][K(i)] = s[K(i)]
    <3>1. CASE i = n + 1
      BY <2>2, <2>3, <2>4, <2>8, <3>1
    <3>2. CASE i # n + 1
      <4>1. i \in 1..n
        BY <3>2
      <4>2. K(i) \in DOMAIN t /\ t[K(i)] = s[K(i)]
        BY <2>1, <4>1
      <4> QED BY <2>2, <2>5, <2>9, <4>2
    <3> QED BY <3>1, <3>2
  <2> QED BY <2>11, <2>12
<1>7. Nat \subseteq S
  <2> HIDE DEF S
  <2> QED BY <1>5, <1>6, SetInduction
<1> DEFINE t == R[N]
<1>8. DOMAIN t = {K(i) : i \in 1..N} /\ \A i \in 1..N : t[K(i)] = s[K(i)]
  <2> HIDE DEF K
  <2> QED BY <1>1, <1>7
<1>9. StorageOK(b, t)
  BY <1>1, <1>4
<1> HIDE DEF t, K
<1>10. DOMAIN t = DOMAIN s /\ \A k \in DOMAIN s : t[k] = s[k]
  BY <1>2, <1>8
<1>11. t = s
  BY <1>9, <1>10 DEF StorageOK
<1> QED BY <1>11 DEF t, R, N, UpdateBatch

-----------------------------------------------------------------------------
(* The definitions of the properties, without the variables: bd is the      *)
(* bodies of the requests and l a sequence of requests.                     *)

MetricsIn(bd, r) ==
    IF bd[r].kind = "rpc"
    THEN [i \in DOMAIN bd[r].metrics |-> FromProto(bd[r].metrics[i])]
    ELSE bd[r].metrics

AppliedIn(bd, l, n) == FlattenSeq([i \in 1..n |-> MetricsIn(bd, l[i])])

KeysIn(bd) == UNION {{k \in {Key(bd[r].metrics[i]) : i \in DOMAIN bd[r].metrics} :
                         k[1] \in {Gauge, Counter}} : r \in Requests}

(* The metrics that requests with these bodies hand to the storage.         *)
Sent(bd) == {m \in Metric : Known(m) => Key(m) \in KeysIn(bd)}

LEMMA Definitions ==
  /\ \A r : Metrics(r) = MetricsIn(body, r)
  /\ \A n : Applied(n) = AppliedIn(body, log, n)
  /\ \A n, k : Value(n, k) = ValueOf(backend, AppliedIn(body, log, n), k)
  /\ Keys = KeysIn(body)
<1>1. \A r : Metrics(r) = MetricsIn(body, r)
  BY DEF Metrics, MetricsIn
<1>2. ASSUME NEW n PROVE Applied(n) = AppliedIn(body, log, n)
  BY <1>1 DEF Applied, AppliedIn
<1>3. \A n, k : Value(n, k) = ValueOf(backend, Applied(n), k)
  BY DEF Value, ValueOf
<1>4. Keys = KeysIn(body)
  BY DEF Keys, KeysIn
<1> QED BY <1>1, <1>2, <1>3, <1>4

LEMMA KeysAreKnown ==
  ASSUME NEW bd \in Scenarios
  PROVE  KeysIn(bd) \subseteq KnownKeys
<1> SUFFICES ASSUME NEW r \in Requests, NEW i \in DOMAIN bd[r].metrics,
                    Key(bd[r].metrics[i])[1] \in {Gauge, Counter}
             PROVE  Key(bd[r].metrics[i]) \in KnownKeys
  BY DEF KeysIn
<1>1. bd[r].metrics \in Seq(Metric)
  BY ScenariosAssumption
<1>2. bd[r].metrics[i] \in Metric
  BY <1>1
<1> QED BY <1>2 DEF KnownKeys, Key, Metric

(* What reaches the storage is typed and keeps its names and types, also on *)
(* the way through protobuf.                                                *)
LEMMA MetricsTyped ==
  ASSUME NEW bd \in Scenarios, NEW r \in Requests
  PROVE  MetricsIn(bd, r) \in Seq(Sent(bd))
<1> DEFINE ms == bd[r].metrics
<1>1. ms \in Seq(Metric)
  BY ScenariosAssumption
<1>2. ASSUME NEW i \in DOMAIN ms
      PROVE  ms[i] \in Sent(bd) /\ FromProto(ms[i]) \in Sent(bd)
  <2> DEFINE m == ms[i]
  <2>1. m \in Metric
    BY <1>1
  <2>2. Known(m) => Key(m) \in KeysIn(bd)
    <3>1. Key(m)[1] = m.mtype
      BY DEF Key
    <3> QED BY <3>1 DEF KeysIn, Known
  <2> HIDE DEF m
  <2>3. FromProto(m) \in Metric /\ FromProto(m).mtype = m.mtype /\ FromProto(m).id = m.id
    BY <2>1 DEF FromProto, Metric
  <2>4. Key(FromProto(m)) = Key(m) /\ (Known(FromProto(m)) <=> Known(m))
    BY <2>3 DEF Key, Known
  <2> QED BY <2>1, <2>2, <2>3, <2>4 DEF Sent, m
<1> HIDE DEF ms
<1>3. DOMAIN ms = 1..Len(ms) /\ Len(ms) \in Nat
  BY <1>1
<1>4. ms \in Seq(Sent(bd))
  BY <1>1, <1>2, <1>3
<1>5. [i \in DOMAIN ms |-> FromProto(ms[i])] \in Seq(Sent(bd))
  BY <1>2, <1>3
<1> QED BY <1>4, <1>5 DEF MetricsIn, ms

(* One more request adds its metrics behind those of the others and changes *)
(* nothing of what was there.                                               *)
LEMMA AppliedTyped ==
  ASSUME NEW bd \in Scenarios, NEW l \in Seq(Requests), NEW n \in 0..Len(l)
  PROVE  /\ [i \in 1..n |-> MetricsIn(bd, l[i])] \in Seq(Seq(Sent(bd)))
         /\ AppliedIn(bd, l, n) \in Seq(Sent(bd))
<1> DEFINE ss == [i \in 1..n |-> MetricsIn(bd, l[i])]
<1>1. ss \in Seq(Seq(Sent(bd)))
  <2>1. \A i \in 1..n : l[i] \in Requests
    OBVIOUS
  <2>2. \A i \in 1..n : MetricsIn(bd, l[i]) \in Seq(Sent(bd))
    BY <2>1, MetricsTyped
  <2> QED BY <2>2
<1> HIDE DEF ss
<1>2. <<>> \in Seq(Sent(bd))
  OBVIOUS
<1>3. FlattenSeq(ss) \in Seq(Sent(bd))
  BY <1>1, <1>2, FlattenAppend
<1> QED BY <1>1, <1>3 DEF ss, AppliedIn

LEMMA AppliedAppend ==
  ASSUME NEW bd \in Scenarios, NEW l \in Seq(Requests), NEW r \in Requests
  PROVE  /\ \A n \in 0..Len(l) : AppliedIn(bd, Append(l, r), n) = AppliedIn(bd, l, n)
         /\ AppliedIn(bd, Append(l, r), Len(l) + 1) = AppliedIn(bd, l, Len(l)) \o MetricsIn(bd, r)
<1> DEFINE N == Len(l)
           a == Append(l, r)
           M(x) == MetricsIn(bd, x)
           ss == [i \in 1..N |-> M(l[i])]
<1>1. N \in Nat /\ Len(a) = N + 1 /\ a[N + 1] = r /\ \A i \in 1..N : a[i] = l[i]
  OBVIOUS
<1> HIDE DEF a, M
<1>2. ASSUME NEW n \in 0..N PROVE AppliedIn(bd, a, n) = AppliedIn(bd, l, n)
  <2>1. [i \in 1..n |-> M(a[i])] = [i \in 1..n |-> M(l[i])]
    BY <1>1
  <2> QED BY <2>1 DEF AppliedIn, M
<1>3. ss \in Seq(Seq(Sent(bd))) /\ M(r) \in Seq(Sent(bd))
  BY <1>1, AppliedTyped, MetricsTyped DEF M
<1>4. [i \in 1..(N + 1) |-> M(a[i])] = Append(ss, M(r))
  BY <1>1
<1>5. FlattenSeq(Append(ss, M(r))) = FlattenSeq(ss) \o M(r)
  <2> HIDE DEF ss
  <2> QED BY <1>3, FlattenAppend
<1>6. AppliedIn(bd, a, N + 1) = AppliedIn(bd, l, N) \o M(r)
  BY <1>4, <1>5 DEF AppliedIn, M
<1> QED BY <1>2, <1>6 DEF a, M

-----------------------------------------------------------------------------
(* The inductive invariant.                                                 *)

DataTypeOK ==
    /\ backend \in {"mem", "db"}
    /\ body \in Scenarios
    /\ outcome \in [Requests -> {"none", "ok", "error"}]
    /\ answer \in [Requests -> Int \cup {None}]
    /\ log \in Seq(Requests)

(* The log has the requests whose storage call succeeded, each once, and    *)
(* they had passed the checks of their endpoint.                            *)
LogInv ==
    /\ \A i, j \in 1..Len(log) : log[i] = log[j] => i = j
    /\ \A i \in 1..Len(log) : outcome[log[i]] = "ok"
    /\ \A r \in Requests : outcome[r] = "ok" => Accepted(r) /\ \E i \in 1..Len(log) : log[i] = r

(* The storage is what one batch of all applied metrics would have made of  *)
(* an empty one, and no counter has left its width.                         *)
StoreInv ==
    /\ store = UpdateBatch(backend, <<>>, AppliedIn(body, log, Len(log)))
    /\ \A k \in DOMAIN store : k[1] = Counter => store[k] \in Int64

AnswersIn(b, bd, l, ans) ==
    \A r \in Requests : ans[r] # None =>
        \E i \in 1..Len(l) : l[i] = r /\
            \E n \in i..Len(l) : ans[r] = ValueOf(b, AppliedIn(bd, l, n), Key(bd[r].metrics[1]))

AnswerInv == AnswersIn(backend, body, log, answer)

HInv == DataTypeOK /\ LogInv /\ StoreInv /\ AnswerInv

LEMMA SentAreMetrics == \A bd : Seq(Sent(bd)) \subseteq Seq(Metric)
<1>1. \A bd : Sent(bd) \subseteq Metric
  BY DEF Sent
<1> QED BY <1>1

(* The storage is well formed, and agrees with the definition of Value.     *)
LEMMA StoreFacts ==
  ASSUME DataTypeOK, StoreInv
  PROVE  /\ StorageOK(backend, store)
         /\ \A k \in KnownKeys : Lookup(store, k) = Value(Len(log), k)
         /\ DOMAIN store \subseteq Keys
<1> DEFINE ms == AppliedIn(body, log, Len(log))
<1>1. ms \in Seq(Sent(body))
  <2>1. body \in Scenarios /\ log \in Seq(Requests) /\ Len(log) \in 0..Len(log)
    BY DEF DataTypeOK
  <2> QED BY <2>1, AppliedTyped
<1>2. ms \in Seq(Metric) /\ store = UpdateBatch(backend, <<>>, ms)
  BY <1>1, SentAreMetrics DEF StoreInv
<1> HIDE DEF ms
<1>3. StorageOK(backend, store)
  BY <1>2, BatchTyped, EmptyStorage
<1>4. \A k \in KnownKeys : /\ Lookup(store, k) = ValueOf(backend, ms, k)
                           /\ k \in DOMAIN store => Updates(ms, k) # {}
  BY <1>2, BatchAgrees
<1>5. \A k \in KnownKeys : Lookup(store, k) = Value(Len(log), k)
  BY <1>4, Definitions DEF ms
<1>6. ASSUME NEW k \in DOMAIN store PROVE k \in Keys
  <2>1. k \in KnownKeys
    BY <1>3 DEF StorageOK
  <2>2. PICK i \in DOMAIN ms : Key(ms[i]) = k
    BY <1>4, <2>1 DEF Updates
  <2>3. ms[i] \in Sent(body)
    BY <1>1
  <2>4. Key(ms[i])[1] = ms[i].mtype
    BY DEF Key
  <2>5. k[1] \in {Gauge, Counter}
    BY <2>1 DEF KnownKeys
  <2>6. Known(ms[i])
    BY <2>2, <2>4, <2>5 DEF Known
  <2> QED BY <2>2, <2>3, <2>6, Definitions DEF Sent
<1> QED BY <1>3, <1>5, <1>6

LEMMA HInvInit == HandlersInit => HInv
<1> SUFFICES ASSUME HandlersInit PROVE HInv
  OBVIOUS
<1> USE DEF HandlersInit
<1>1. log = <<>> /\ Len(log) = 0 /\ log \in Seq(Requests) /\ 1..0 = {}
  OBVIOUS
<1>2. DataTypeOK
  BY <1>1 DEF DataTypeOK
<1>3. LogInv
  BY <1>1 DEF LogInv
<1>4. StoreInv
  <2>1. AppliedIn(body, log, Len(log)) = <<>>
    <3>1. [i \in 1..Len(log) |-> MetricsIn(body, log[i])] = <<>>
      BY <1>1
    <3> QED BY <3>1, FlattenEmpty DEF AppliedIn
  <2>2. Len(<<>>) = 0 /\ Len(<<>>) \in Nat /\ DOMAIN <<>> = {}
    OBVIOUS
  <2>3. UpdateBatch(backend, <<>>, <<>>) = <<>>
    BY <2>2, RoundsStep DEF UpdateBatch
  <2> QED BY <2>1, <2>2, <2>3 DEF StoreInv
<1>5. AnswerInv
  BY DEF AnswerInv, AnswersIn
<1> QED BY <1>2, <1>3, <1>4, <1>5 DEF HInv

LEMMA HInvUnchanged == HInv /\ UNCHANGED dataVars => HInv'
<1> SUFFICES ASSUME HInv, UNCHANGED dataVars PROVE HInv'
  OBVIOUS
<1>1. UNCHANGED <<backend, body, store, outcome, answer, log>>
  BY DEF dataVars
<1>2. \A r : Accepted(r)' <=> Accepted(r)
  BY <1>1 DEF Accepted
<1>3. DataTypeOK' /\ StoreInv' /\ AnswerInv'
  BY <1>1 DEF HInv, DataTypeOK, StoreInv, AnswerInv
<1>4. LogInv'
  BY <1>1, <1>2 DEF HInv, LogInv
<1> QED BY <1>3, <1>4 DEF HInv

(* A storage call that succeeds.                                            *)
LEMMA HInvStore ==
  ASSUME HInv, NEW r \in Requests, Store(r)
  PROVE  HInv'
<1> DEFINE ms == MetricsIn(body, r)
           A == AppliedIn(body, log, Len(log))
<1> USE DEF HInv
<1>1. /\ body \in Scenarios /\ log \in Seq(Requests) /\ Len(log) \in Nat
      /\ outcome \in [Requests -> {"none", "ok", "error"}]
      /\ body' = body /\ backend' = backend /\ answer' = answer
      /\ log' = Append(log, r) /\ outcome' = [outcome EXCEPT ![r] = "ok"]
      /\ outcome[r] = "none" /\ Accepted(r)
  BY DEF DataTypeOK, Store, Storing
<1>2. log' \in Seq(Requests) /\ Len(log') = Len(log) + 1 /\ log'[Len(log) + 1] = r
  BY <1>1
<1>3. \A i \in 1..Len(log) : log'[i] = log[i]
  BY <1>1
<1>4. DataTypeOK'
  BY <1>1, <1>2 DEF DataTypeOK
<1>5. LogInv'
  <2>1. \A i \in 1..Len(log) : log[i] \in Requests /\ log[i] # r /\ outcome[log[i]] = "ok"
    BY <1>1 DEF LogInv
  <2>2. \A i \in 1..Len(log') : i \in 1..Len(log) \/ i = Len(log) + 1
    BY <1>1, <1>2
  <2>3. \A i, j \in 1..Len(log') : log'[i] = log'[j] => i = j
    BY <1>2, <1>3, <2>1, <2>2 DEF LogInv
  <2>4. \A i \in 1..Len(log') : outcome'[log'[i]] = "ok"
    BY <1>1, <1>2, <1>3, <2>1, <2>2
  <2>5. ASSUME NEW q \in Requests, outcome'[q] = "ok"
        PROVE  Accepted(q)' /\ \E i \in 1..Len(log') : log'[i] = q
    <3>1. Accepted(q)' <=> Accepted(q)
      BY <1>1 DEF Accepted
    <3>2. CASE q = r
      <4>1. Len(log) + 1 \in 1..Len(log')
        BY <1>1, <1>2
      <4> QED BY <1>1, <1>2, <3>1, <3>2, <4>1
    <3>3. CASE q # r
      <4>1. outcome[q] = "ok"
        BY <1>1, <2>5, <3>3
      <4>2. Accepted(q) /\ \E i \in 1..Len(log) : log[i] = q
        BY <4>1 DEF LogInv
      <4>3. 1..Len(log) \subseteq 1..Len(log')
        BY <1>1, <1>2
      <4> QED BY <1>3, <3>1, <4>2, <4>3
    <3> QED BY <3>2, <3>3
  <2> QED BY <2>3, <2>4, <2>5 DEF LogInv
<1>6. A \in Seq(Sent(body)) /\ ms \in Seq(Sent(body))
  <2>1. Len(log) \in 0..Len(log)
    BY <1>1
  <2> QED BY <1>1, <2>1, AppliedTyped, MetricsTyped
<1>7. store' = UpdateBatch(backend, store, ms) /\ store = UpdateBatch(backend, <<>>, A)
  BY Definitions DEF Store, StoreInv
<1>8. AppliedIn(body', log', Len(log')) = A \o ms
  <2>1. AppliedIn(body, Append(log, r), Len(log) + 1) = A \o ms
    BY <1>1, AppliedAppend
  <2> HIDE DEF A, ms
  <2>2. body' = body /\ log' = Append(log, r) /\ Len(log') = Len(log) + 1
    BY <1>1, <1>2
  <2> QED BY <2>1, <2>2
<1>9. StoreInv'
  <2>1. ms \in Seq(Metric)
    BY <1>6, SentAreMetrics
  <2>2. StorageOK(backend, store)
    BY StoreFacts
  <2> HIDE DEF A, ms
  <2>3. UpdateBatch(backend, <<>>, A \o ms) = store'
    BY <1>6, <1>7, BatchInTwo
  <2>4. StorageOK(backend, store')
    BY <1>7, <2>1, <2>2, BatchTyped
  <2>5. \A k \in DOMAIN store' : k[1] = Counter => store'[k] \in Int64
    <3>1. CASE backend = "mem"
      BY <2>4, <3>1 DEF StorageOK
    <3>2. CASE backend = "db"
      <4>1. ~ Overflows(store, ms)
        BY Definitions DEF Store, ms
      <4>2. Len(ms) \in 0..Len(ms)
        BY <2>1
      <4>3. Rounds(backend, store, ms)[Len(ms)] = store'
        BY <1>7 DEF UpdateBatch
      <4> QED BY <3>2, <4>1, <4>2, <4>3 DEF Overflows
    <3> QED BY <3>1, <3>2 DEF DataTypeOK
  <2> QED BY <1>1, <1>8, <2>3, <2>5 DEF StoreInv
<1>10. AnswerInv'
  <2> SUFFICES ASSUME NEW q \in Requests, answer[q] # None
               PROVE  \E i \in 1..Len(log') : log'[i] = q /\
                          \E n \in i..Len(log') : answer[q] =
                              ValueOf(backend, AppliedIn(body, log', n), Key(body[q].metrics[1]))
    BY <1>1 DEF AnswerInv, AnswersIn
  <2>1. PICK i \in 1..Len(log) : log[i] = q /\
            \E n \in i..Len(log) : answer[q] =
                ValueOf(backend, AppliedIn(body, log, n), Key(body[q].metrics[1]))
    BY DEF AnswerInv, AnswersIn
  <2>2. PICK n \in i..Len(log) : answer[q] =
            ValueOf(backend, AppliedIn(body, log, n), Key(body[q].metrics[1]))
    BY <2>1
  <2>3. n \in 0..Len(log) /\ n \in i..Len(log') /\ i \in 1..Len(log')
    BY <1>1, <1>2
  <2>4. AppliedIn(body, log', n) = AppliedIn(body, log, n)
    BY <1>1, <2>3, AppliedAppend
  <2> QED BY <1>3, <2>1, <2>2, <2>3, <2>4
<1> QED BY <1>4, <1>5, <1>9, <1>10

LEMMA HInvStoreFails ==
  ASSUME HInv, NEW r \in Requests, StoreFails(r)
  PROVE  HInv'
<1>1. /\ UNCHANGED <<backend, body, store, answer, log>>
      /\ outcome[r] = "none" /\ outcome' = [outcome EXCEPT ![r] = "error"]
  BY DEF StoreFails, Storing
<1>2. DataTypeOK' /\ StoreInv' /\ AnswerInv'
  BY <1>1 DEF HInv, DataTypeOK, StoreInv, AnswerInv
<1>3. LogInv'
  <2>1. \A i \in 1..Len(log) : log[i] \in Requests /\ log[i] # r
    BY <1>1 DEF HInv, DataTypeOK, LogInv
  <2>2. \A q \in Requests : (q # r => outcome'[q] = outcome[q]) /\ outcome'[r] = "error"
    BY <1>1 DEF HInv, DataTypeOK
  <2>3. \A q : Accepted(q)' <=> Accepted(q)
    BY <1>1 DEF Accepted
  <2> QED BY <1>1, <2>1, <2>2, <2>3 DEF HInv, LogInv
<1> QED BY <1>2, <1>3 DEF HInv

(* The read-back of POST /update.                                           *)
LEMMA HInvFinish ==
  ASSUME HInv, NEW r \in Requests, Finish(r)
  PROVE  HInv'
<1>1. /\ UNCHANGED <<backend, body, store, outcome, log>>
      /\ outcome[r] = "ok" /\ ReadBack(r)
  BY DEF Finish
<1>2. LogInv' /\ StoreInv'
  BY <1>1 DEF HInv, LogInv, StoreInv, Accepted
<1> DEFINE k == Key(body[r].metrics[1])
<1>3. CASE body[r].kind # "json"
  <2>1. answer' = answer
    BY <1>1, <1>3 DEF ReadBack
  <2> QED BY <1>1, <1>2, <2>1 DEF HInv, DataTypeOK, AnswerInv
<1>4. CASE body[r].kind = "json"
  <2>1. answer' = [answer EXCEPT ![r] = Lookup(store, k)]
    BY <1>1, <1>4 DEF ReadBack
  <2>2. PICK i \in 1..Len(log) : log[i] = r
    BY <1>1 DEF HInv, LogInv
  <2>3. Accepted(r) /\ body[r].metrics \in Seq(Metric)
    BY <1>1, ScenariosAssumption DEF HInv, LogInv, DataTypeOK
  <2>4. 1 \in DOMAIN body[r].metrics /\ body[r].metrics[1] \in Metric
    <3>1. body[r].metrics # <<>>
      BY <2>3 DEF Accepted
    <3> DEFINE ms == body[r].metrics
    <3> HIDE DEF ms
    <3>2. ms \in Seq(Metric) /\ ms # <<>>
      BY <2>3, <3>1 DEF ms
    <3>3. 1 \in DOMAIN ms /\ ms[1] \in Metric
      BY <3>2
    <3> QED BY <3>3 DEF ms
  <2>5. Known(body[r].metrics[1])
    BY <1>4, <2>3, <2>4 DEF Accepted
  <2>6. k \in KnownKeys
    BY <2>4, <2>5 DEF KnownKeys, Key, Metric, Known
  <2>7. StorageOK(backend, store) /\ Lookup(store, k) = Value(Len(log), k)
    BY <2>6, StoreFacts DEF HInv
  <2> HIDE DEF k
  <2>8. Lookup(store, k) = ValueOf(backend, AppliedIn(body, log, Len(log)), k)
    BY <2>7, Definitions
  <2>9. Lookup(store, k) \in Int \cup {None}
    BY <2>7 DEF StorageOK, Lookup
  <2>10. DataTypeOK'
    BY <1>1, <2>1, <2>9 DEF HInv, DataTypeOK
  <2>11. AnswersIn(backend, body, log, answer')
    <3> SUFFICES ASSUME NEW q \in Requests, answer'[q] # None
                 PROVE  \E j \in 1..Len(log) : log[j] = q /\
                            \E n \in j..Len(log) : answer'[q] =
                                ValueOf(backend, AppliedIn(body, log, n), Key(body[q].metrics[1]))
      BY DEF AnswersIn
    <3>1. CASE q # r
      <4>1. answer'[q] = answer[q]
        BY <2>1, <3>1 DEF HInv, DataTypeOK
      <4> QED BY <4>1 DEF HInv, AnswerInv, AnswersIn
    <3>2. CASE q = r
      <4>1. answer'[q] = Lookup(store, k)
        BY <2>1, <3>2 DEF HInv, DataTypeOK
      <4>2. Len(log) \in i..Len(log)
        BY <2>2 DEF HInv, DataTypeOK
      <4> QED BY <2>2, <2>8, <3>2, <4>1, <4>2 DEF k
    <3> QED BY <3>1, <3>2
  <2>12. AnswerInv'
    BY <1>1, <2>11 DEF AnswerInv
  <2> QED BY <1>2, <2>10, <2>12 DEF HInv
<1> QED BY <1>3, <1>4

LEMMA HInvNext == HInv /\ [HandlersNext]_handlerVars => HInv'
<1> SUFFICES ASSUME HInv, [HandlersNext]_handlerVars PROVE HInv'
  OBVIOUS
<1>1. CASE UNCHANGED dataVars
  BY <1>1, HInvUnchanged
<1>2. ASSUME NEW r \in Requests, HandleRequest(r) PROVE HInv'
  <2>1. CASE Store(r)
    BY <2>1, HInvStore
  <2>2. CASE StoreFails(r)
    BY <2>2, HInvStoreFails
  <2>3. CASE Finish(r)
    BY <2>3, HInvFinish
  <2>4. CASE Refuse(r) \/ (Respond(r) /\ UNCHANGED dataVars)
    BY <1>1, <2>4 DEF Refuse
  <2> QED BY <1>2, <2>1, <2>2, <2>3, <2>4 DEF HandleRequest
<1>3. CASE UNCHANGED handlerVars
  BY <1>1, <1>3 DEF handlerVars
<1> QED BY <1>1, <1>2, <1>3 DEF HandlersNext

LEMMA HInvHolds == HandlersSpec => []HInv
BY HInvInit, HInvNext, PTL DEF HandlersSpec

(* MemStorage.UpdateBatch, UpdateGauge and UpdateCounter and the statements *)
(* of DBStorage: with any requests of all endpoints, in any order and with  *)
(* any values, every metric is what the applied updates make it.            *)
THEOREM MetricsMatchLog == HandlersSpec => []StoreMatchesLog
<1>1. HInv => StoreMatchesLog
  <2> SUFFICES ASSUME HInv PROVE StoreMatchesLog
    OBVIOUS
  <2>1. Keys \subseteq KnownKeys
    BY Definitions, KeysAreKnown DEF HInv, DataTypeOK
  <2> QED BY <2>1, StoreFacts DEF HInv, StoreMatchesLog
<1> QED BY <1>1, HInvHolds, PTL

(* UpdateMetricJSON's GetMetric: the answer is the value of the metric at a *)
(* moment after the request's own update.                                   *)
THEOREM AnswersIncludeUpdates == HandlersSpec => []AnswerIncludesUpdate
<1>1. HInv => AnswerIncludesUpdate
  BY Definitions DEF HInv, AnswerInv, AnswersIn, AnswerIncludesUpdate
<1> QED BY <1>1, HInvHolds, PTL

(* FileBackedStorage.Load of what Snapshot wrote, in any order of the maps, *)
(* is the storage again.                                                    *)
THEOREM SnapshotsRestore == HandlersSpec => []LoadRestores
<1>1. HInv => LoadRestores
  BY StoreFacts, ReplayRestores DEF HInv, LoadRestores, Load
<1> QED BY <1>1, HInvHolds, PTL

(* The storage call of a request: it is applied at most once, only after    *)
(* the checks of its endpoint, and an "ok" of the storage means that it was *)
(* applied; and no counter, of memory or of the database, leaves int64.     *)
RequestsAppliedOnce ==
    /\ \A i, j \in 1..Len(log) : log[i] = log[j] => i = j
    /\ \A r \in Requests : outcome[r] = "ok" <=> \E i \in 1..Len(log) : log[i] = r
    /\ \A i \in 1..Len(log) : Accepted(log[i])
    /\ \A k \in DOMAIN store : k[1] = Counter => store[k] \in Int64

(* MetricService and the storages: RequestsAppliedOnce holds for any        *)
(* requests.                                                                *)
THEOREM AppliedOnceAndInRange == HandlersSpec => []RequestsAppliedOnce
<1>1. HInv => RequestsAppliedOnce
  BY DEF HInv, DataTypeOK, LogInv, StoreInv, RequestsAppliedOnce
<1> QED BY <1>1, HInvHolds, PTL

-----------------------------------------------------------------------------
(* The audit trail.                                                         *)

AuditTypeOK ==
    /\ status \in {"running", "stopping", "closing", "closed", "down"}
    /\ drained \in BOOLEAN
    /\ pc \in [Requests -> {"new", "handle", "respond", "acked", "rejected", "lost"}]
    /\ notify \in [Requests -> 0..(Len(Observers) + 1)]
    /\ received \in [Sinks -> SUBSET Requests]
    /\ tried \in [Sinks -> SUBSET Requests]
    /\ failures \in Nat

(* A goroutine of Notify belongs to an HTTP request whose update has        *)
(* succeeded, and every such request has one.                               *)
StartedInv ==
    \A r \in Requests :
        /\ notify[r] # 0 => r \in HTTPRequests /\ Observers # <<>>
        /\ pc[r] \in {"new", "handle", "rejected"} => notify[r] = 0
        /\ r \in HTTPRequests /\ Observers # <<>> /\ pc[r] \in {"respond", "acked"} => notify[r] # 0

(* The observers it has called are those before the next one.               *)
OrderInv ==
    /\ \A r \in Requests : \A i \in 1..Len(Observers) : r \in tried[Observers[i]] <=> i < notify[r]
    /\ \A o \in Sinks : (\A i \in 1..Len(Observers) : Observers[i] # o) => tried[o] = {}

(* Without failures a call has delivered its event, except to the file      *)
(* after it was closed.                                                     *)
ReceivedInv ==
    failures = 0 =>
        /\ received["url"] = tried["url"]
        /\ status \notin {"closed", "down"} => received["file"] = tried["file"]

AInv == AuditTypeOK /\ StartedInv /\ OrderInv /\ ReceivedInv

LEMMA ObserverFacts ==
  /\ Len(Observers) \in Nat
  /\ \A i \in 1..Len(Observers) : Observers[i] \in Sinks
  /\ \A i, j \in 1..Len(Observers) : Observers[i] = Observers[j] => i = j
  /\ Observers # <<>> => Len(Observers) >= 1
<1>1. CASE Observers = <<>>
  BY <1>1 DEF Sinks
<1>2. CASE Observers = <<"file">> \/ Observers = <<"url">>
  BY <1>2 DEF Sinks
<1>3. CASE Observers = <<"file", "url">>
  BY <1>3 DEF Sinks
<1> QED BY <1>1, <1>2, <1>3, ObserversAssumption

LEMMA AInvInit == Init => AInv
<1> SUFFICES ASSUME Init PROVE AInv
  OBVIOUS
<1> USE DEF Init
<1>1. AuditTypeOK
  <2>1. 0 \in 0..(Len(Observers) + 1)
    BY ObserverFacts
  <2>2. notify \in [Requests -> 0..(Len(Observers) + 1)]
    BY <2>1
  <2>3. drained \in BOOLEAN /\ failures \in Nat
    OBVIOUS
  <2> QED BY <2>2, <2>3 DEF AuditTypeOK
<1>2. StartedInv
  BY DEF StartedInv
<1>3. OrderInv
  BY ObserverFacts DEF OrderInv
<1>4. ReceivedInv
  BY DEF ReceivedInv, Sinks
<1> QED BY <1>1, <1>2, <1>3, <1>4 DEF AInv

(* Steps of a handler that leave the audit trail alone.                     *)
LEMMA AInvHandle ==
  ASSUME AInv, NEW r \in Requests, Receive(r) \/ Reject(r) \/ Respond(r)
  PROVE  AInv'
<1>1. UNCHANGED <<status, drained, notify, received, tried, failures>>
  BY DEF Receive, Reject, Respond
<1>2. PICK x \in {"handle", "rejected", "acked"} :
          /\ pc' = [pc EXCEPT ![r] = x]
          /\ x \in {"handle", "rejected"} => pc[r] \in {"new", "handle"}
          /\ x = "acked" => pc[r] = "respond"
  BY DEF Receive, Reject, Respond
<1>3. AuditTypeOK'
  BY <1>1, <1>2 DEF AInv, AuditTypeOK
<1>4. StartedInv'
  <2> SUFFICES ASSUME NEW q \in Requests
               PROVE  /\ notify[q] # 0 => q \in HTTPRequests /\ Observers # <<>>
                      /\ pc'[q] \in {"new", "handle", "rejected"} => notify[q] = 0
                      /\ q \in HTTPRequests /\ Observers # <<>> /\ pc'[q] \in {"respond", "acked"}
                             => notify[q] # 0
    BY <1>1 DEF StartedInv
  <2>1. pc'[q] = IF q = r THEN x ELSE pc[q]
    BY <1>2 DEF AInv, AuditTypeOK
  <2>2. CASE q # r
    BY <2>1, <2>2 DEF AInv, StartedInv
  <2>3. CASE q = r
    BY <1>2, <2>1, <2>3 DEF AInv, StartedInv
  <2> QED BY <2>2, <2>3
<1>5. OrderInv' /\ ReceivedInv'
  BY <1>1 DEF AInv, OrderInv, ReceivedInv
<1> QED BY <1>3, <1>4, <1>5 DEF AInv

(* emitAudit.                                                               *)
LEMMA AInvUpdate ==
  ASSUME AInv, NEW r \in Requests, Update(r)
  PROVE  AInv'
<1>1. /\ UNCHANGED <<status, drained, received, tried, failures>>
      /\ pc[r] = "handle" /\ pc' = [pc EXCEPT ![r] = "respond"] /\ emitAudit(r)
  BY DEF Update
<1>2. notify[r] = 0
  BY <1>1 DEF AInv, StartedInv
<1>3. pc'[r] = "respond" /\ \A q \in Requests : q # r => pc'[q] = pc[q]
  BY <1>1 DEF AInv, AuditTypeOK
<1>4. /\ \A q \in Requests : q # r => notify'[q] = notify[q]
      /\ notify'[r] = IF r \in HTTPRequests /\ Observers # <<>> THEN 1 ELSE 0
  BY <1>1, <1>2 DEF AInv, AuditTypeOK, emitAudit
<1>5. AuditTypeOK'
  <2>1. 1 \in 0..(Len(Observers) + 1)
    BY ObserverFacts
  <2> QED BY <1>1, <2>1 DEF AInv, AuditTypeOK, emitAudit
<1>6. StartedInv'
  <2> SUFFICES ASSUME NEW q \in Requests
               PROVE  /\ notify'[q] # 0 => q \in HTTPRequests /\ Observers # <<>>
                      /\ pc'[q] \in {"new", "handle", "rejected"} => notify'[q] = 0
                      /\ q \in HTTPRequests /\ Observers # <<>> /\ pc'[q] \in {"respond", "acked"}
                             => notify'[q] # 0
    BY DEF StartedInv
  <2>1. CASE q # r
    BY <1>3, <1>4, <2>1 DEF AInv, StartedInv
  <2>2. CASE q = r
    BY <1>3, <1>4, <2>2
  <2> QED BY <2>1, <2>2
<1>7. OrderInv'
  <2>1. ASSUME NEW q \in Requests, NEW i \in 1..Len(Observers)
        PROVE  q \in tried[Observers[i]] <=> i < notify'[q]
    <3>1. q \in tried[Observers[i]] <=> i < notify[q]
      BY DEF AInv, OrderInv
    <3>2. i \in Nat /\ i >= 1
      BY ObserverFacts
    <3> QED BY <1>2, <1>4, <3>1, <3>2
  <2> QED BY <1>1, <2>1 DEF AInv, OrderInv
<1>8. ReceivedInv'
  BY <1>1 DEF AInv, ReceivedInv
<1> QED BY <1>5, <1>6, <1>7, <1>8 DEF AInv

(* A call of an observer, whatever comes of it.                             *)
LEMMA AInvNotify ==
  ASSUME AInv, NEW r \in Requests, Notify(r)
  PROVE  AInv'
<1> DEFINE n == notify[r]
           o == Observers[n]
<1>1. /\ n \in 1..Len(Observers) /\ UNCHANGED <<status, drained, pc>>
      /\ tried' = [tried EXCEPT ![o] = @ \cup {r}]
      /\ notify' = [notify EXCEPT ![r] = @ + 1]
  BY DEF Notify, NotifyOk, NotifyFails, NotifyClosed, Notifying
<1>2. \/ /\ received' = [received EXCEPT ![o] = @ \cup {r}] /\ failures' = failures
      \/ /\ received' = received /\ failures' = failures + 1
      \/ /\ received' = received /\ failures' = failures
         /\ o # "url" /\ status = "closed"
  BY DEF Notify, NotifyOk, NotifyFails, NotifyClosed, CanReceive
<1>3. o \in Sinks /\ n \in Nat /\ n + 1 \in 0..(Len(Observers) + 1)
  BY <1>1, ObserverFacts
<1>4. /\ \A q \in Requests : q # r => notify'[q] = notify[q]
      /\ notify'[r] = n + 1
  BY <1>1 DEF AInv, AuditTypeOK
<1>5. tried'[o] = tried[o] \cup {r} /\ \A p \in Sinks : p # o => tried'[p] = tried[p]
  BY <1>1, <1>3 DEF AInv, AuditTypeOK
<1>6. AuditTypeOK'
  <2>1. notify' \in [Requests -> 0..(Len(Observers) + 1)]
    BY <1>1, <1>3 DEF AInv, AuditTypeOK
  <2>2. tried' \in [Sinks -> SUBSET Requests] /\ received' \in [Sinks -> SUBSET Requests]
    BY <1>1, <1>2, <1>3 DEF AInv, AuditTypeOK
  <2>3. failures' \in Nat
    BY <1>2 DEF AInv, AuditTypeOK
  <2> QED BY <1>1, <2>1, <2>2, <2>3 DEF AInv, AuditTypeOK
<1>7. StartedInv'
  <2>1. n # 0 /\ n + 1 # 0
    BY <1>1
  <2> HIDE DEF o
  <2> QED BY <1>1, <1>4, <2>1 DEF AInv, StartedInv
<1>8. OrderInv'
  <2>1. ASSUME NEW q \in Requests, NEW i \in 1..Len(Observers)
        PROVE  q \in tried'[Observers[i]] <=> i < notify'[q]
    <3>1. q \in tried[Observers[i]] <=> i < notify[q]
      BY DEF AInv, OrderInv
    <3>2. Observers[i] \in Sinks /\ (Observers[i] = o <=> i = n) /\ i \in Nat
      BY <1>1, ObserverFacts
    <3> HIDE DEF o
    <3>3. CASE q # r
      BY <1>4, <1>5, <3>1, <3>2, <3>3
    <3>4. CASE q = r /\ i = n
      BY <1>3, <1>4, <1>5, <3>2, <3>4
    <3>5. CASE q = r /\ i # n
      <4>1. tried'[Observers[i]] = tried[Observers[i]]
        BY <1>5, <3>2, <3>5
      <4>2. i < n <=> i < n + 1
        BY <1>3, <3>2, <3>5
      <4> QED BY <1>4, <3>1, <3>5, <4>1, <4>2
    <3> QED BY <3>3, <3>4, <3>5
  <2>2. \A p \in Sinks : (\A i \in 1..Len(Observers) : Observers[i] # p) => tried'[p] = {}
    BY <1>1, <1>5 DEF AInv, OrderInv
  <2> QED BY <2>1, <2>2 DEF OrderInv
<1>9. ReceivedInv'
  <2> SUFFICES ASSUME failures' = 0
               PROVE  /\ received'["url"] = tried'["url"]
                      /\ status \notin {"closed", "down"} => received'["file"] = tried'["file"]
    BY <1>1 DEF ReceivedInv
  <2>1. failures = 0 /\ failures' # failures + 1
    BY <1>2 DEF AInv, AuditTypeOK
  <2>2. /\ received["url"] = tried["url"]
        /\ status \notin {"closed", "down"} => received["file"] = tried["file"]
    BY <2>1 DEF AInv, ReceivedInv
  <2>3. "url" \in Sinks /\ "file" \in Sinks
    BY DEF Sinks
  <2> HIDE DEF o, n
  <2>4. CASE received' = [received EXCEPT ![o] = @ \cup {r}]
    <3>1. received'[o] = received[o] \cup {r} /\ \A p \in Sinks : p # o => received'[p] = received[p]
      BY <1>3, <2>4 DEF AInv, AuditTypeOK
    <3>2. received'["url"] = tried'["url"]
      BY <1>5, <2>2, <2>3, <3>1
    <3>3. status \notin {"closed", "down"} => received'["file"] = tried'["file"]
      BY <1>5, <2>2, <2>3, <3>1
    <3> QED BY <3>2, <3>3
  <2>5. CASE received' = received /\ o # "url" /\ status = "closed"
    BY <1>5, <2>2, <2>3, <2>5
  <2> QED BY <1>2, <2>1, <2>4, <2>5
<1> QED BY <1>6, <1>7, <1>8, <1>9 DEF AInv

(* The steps of main.                                                       *)
LEMMA AInvMain ==
  ASSUME AInv, Signal \/ Main \/ UNCHANGED vars
  PROVE  AInv'
<1>1. UNCHANGED <<notify, received, tried, failures>>
  BY DEF Signal, Main, WaitReturns, PublisherClose, Exit, vars
<1>2. AuditTypeOK'
  <2>1. CASE Exit
    BY <1>1, <2>1 DEF AInv, AuditTypeOK, Exit
  <2>2. CASE Signal \/ WaitReturns \/ PublisherClose \/ UNCHANGED vars
    BY <1>1, <2>2 DEF AInv, AuditTypeOK, Signal, WaitReturns, Drained, PublisherClose, vars
  <2> QED BY <2>1, <2>2 DEF Main
<1>3. \A q \in Requests : pc'[q] = pc[q] \/ pc'[q] = "lost"
  BY DEF Signal, Main, WaitReturns, PublisherClose, Exit, vars
<1>4. StartedInv'
  BY <1>1, <1>3 DEF AInv, StartedInv
<1>5. OrderInv'
  BY <1>1 DEF AInv, OrderInv
<1>6. status' \notin {"closed", "down"} => status \notin {"closed", "down"}
  BY DEF Signal, Main, WaitReturns, PublisherClose, Exit, vars
<1>7. ReceivedInv'
  BY <1>1, <1>6 DEF AInv, ReceivedInv
<1> QED BY <1>2, <1>4, <1>5, <1>7 DEF AInv

LEMMA AInvNext == AInv /\ [Next]_vars => AInv'
<1> SUFFICES ASSUME AInv, [Next]_vars PROVE AInv'
  OBVIOUS
<1>1. ASSUME NEW r \in Requests, Receive(r) \/ Handle(r) \/ Notify(r) PROVE AInv'
  BY <1>1, AInvHandle, AInvUpdate, AInvNotify DEF Handle
<1>2. CASE Signal \/ Main \/ Terminated \/ UNCHANGED vars
  BY <1>2, AInvMain DEF Terminated
<1> QED BY <1>1, <1>2 DEF Next

LEMMA AInvHolds == Spec => []AInv
BY AInvInit, AInvNext, PTL DEF Spec

(* Publisher.Notify calls the observers of a request one after the other in *)
(* their order; an acknowledged HTTP update has its goroutine; and without  *)
(* a failing observer the event of such an update is missing somewhere only *)
(* if the goroutine has not come that far, or came to the file after it was *)
(* closed.                                                                  *)
AuditTrailComplete ==
    /\ \A r \in Requests : \A i \in 1..Len(Observers) : r \in tried[Observers[i]] <=> i < notify[r]
    /\ \A r \in HTTPRequests : \A i \in 1..Len(Observers) :
           pc[r] = "acked" /\ failures = 0 =>
               \/ r \in received[Observers[i]]
               \/ notify[r] \in 1..i
               \/ Observers[i] = "file" /\ status \in {"closed", "down"}

(* emitAudit and Publisher.Notify, for any requests and observers.          *)
THEOREM EventsInOrder == Spec => []AuditTrailComplete
<1>1. AInv => AuditTrailComplete
  <2> SUFFICES ASSUME AInv PROVE AuditTrailComplete
    OBVIOUS
  <2>1. ASSUME NEW r \in HTTPRequests, NEW i \in 1..Len(Observers), pc[r] = "acked", failures = 0,
               r \notin received[Observers[i]],
               ~ (Observers[i] = "file" /\ status \in {"closed", "down"})
        PROVE  notify[r] \in 1..i
    <3>1. r \in Requests /\ Observers[i] \in {"file", "url"} /\ Observers # <<>>
      BY ObserverFacts DEF Requests, Sinks
    <3>2. notify[r] \in Nat /\ notify[r] # 0 /\ i \in Nat
      BY <2>1, <3>1, ObserverFacts DEF AInv, AuditTypeOK, StartedInv
    <3>3. received[Observers[i]] = tried[Observers[i]]
      BY <2>1, <3>1 DEF AInv, ReceivedInv
    <3>4. ~ (i < notify[r])
      BY <2>1, <3>1, <3>3 DEF AInv, OrderInv
    <3> QED BY <3>2, <3>4
  <2> QED BY <2>1 DEF AInv, OrderInv, AuditTrailComplete
<1> QED BY <1>1, AInvHolds, PTL

-----------------------------------------------------------------------------
(* The handlers around the audit trail.                                     *)

LEMMA NextRunsAudit == [HandlersNext]_handlerVars => [Next]_vars
<1> SUFFICES ASSUME [HandlersNext]_handlerVars PROVE [Next]_vars
  OBVIOUS
<1>1. ASSUME NEW r \in Requests, HandleRequest(r) PROVE [Next]_vars
  <2>1. CASE Store(r) \/ StoreFails(r)
    BY <2>1 DEF Store, StoreFails
  <2>2. CASE Refuse(r) \/ Finish(r) \/ (Respond(r) /\ UNCHANGED dataVars)
    BY <2>2 DEF Refuse, Finish, Next, Handle
  <2> QED BY <1>1, <2>1, <2>2 DEF HandleRequest
<1>2. ASSUME NEW r \in Requests, Receive(r) \/ Notify(r) PROVE [Next]_vars
  BY <1>2 DEF Next
<1>3. CASE Signal \/ Main \/ Terminated
  BY <1>3 DEF Next
<1>4. CASE UNCHANGED handlerVars
  BY <1>4 DEF handlerVars
<1> QED BY <1>1, <1>2, <1>3, <1>4 DEF HandlersNext

(* The handlers with their data do nothing to the audit trail and the       *)
(* shutdown that Audit alone could not do.                                  *)
THEOREM HandlersRunAudit == HandlersSpec => Spec
<1>1. HandlersInit => Init
  BY DEF HandlersInit
<1> QED BY <1>1, NextRunsAudit, PTL DEF HandlersSpec, Spec

(* A handler gets past its update only with an "ok" of the storage.         *)
StoredInv == \A r \in Requests : notify[r] # 0 \/ pc[r] \in {"respond", "acked"} => outcome[r] = "ok"

LEMMA StoredInvNext ==
  HInv /\ AInv /\ StoredInv /\ [HandlersNext]_handlerVars => StoredInv'
<1> SUFFICES ASSUME HInv, AInv, StoredInv, [HandlersNext]_handlerVars PROVE StoredInv'
  OBVIOUS
<1> USE DEF HInv, DataTypeOK, AInv, AuditTypeOK
<1>1. ASSUME UNCHANGED outcome,
             \A r \in Requests : /\ notify'[r] # 0 => notify[r] # 0
                                 /\ pc'[r] \in {"respond", "acked"} => pc[r] \in {"respond", "acked"}
      PROVE  StoredInv'
  BY <1>1 DEF StoredInv
<1>2. ASSUME NEW r \in Requests, HandleRequest(r) PROVE StoredInv'
  <2>1. CASE Store(r) \/ StoreFails(r)
    <3>1. UNCHANGED vars /\ outcome[r] # "ok" /\ \A q \in Requests : q # r => outcome'[q] = outcome[q]
      BY <2>1 DEF Store, StoreFails, Storing
    <3>2. UNCHANGED <<pc, notify>>
      BY <3>1 DEF vars
    <3> QED BY <3>1, <3>2 DEF StoredInv
  <2>2. CASE Finish(r)
    <3>1. outcome[r] = "ok" /\ UNCHANGED outcome
      BY <2>2 DEF Finish
    <3>2. \A q \in Requests : q # r => pc'[q] = pc[q] /\ notify'[q] = notify[q]
      BY <2>2 DEF Finish, Update, emitAudit
    <3> QED BY <3>1, <3>2 DEF StoredInv
  <2>3. CASE Refuse(r) \/ (Respond(r) /\ UNCHANGED dataVars)
    <3>1. UNCHANGED <<notify, outcome>>
      BY <2>3 DEF Refuse, Reject, Respond, dataVars
    <3>2. /\ \A q \in Requests : q # r => pc'[q] = pc[q]
          /\ pc'[r] = "rejected" \/ pc[r] = "respond"
      BY <2>3 DEF Refuse, Reject, Respond
    <3> QED BY <1>1, <3>1, <3>2
  <2> QED BY <1>2, <2>1, <2>2, <2>3 DEF HandleRequest
<1>3. ASSUME NEW r \in Requests, Receive(r) \/ Notify(r), UNCHANGED dataVars PROVE StoredInv'
  <2>1. UNCHANGED outcome
    BY <1>3 DEF dataVars
  <2>2. CASE Receive(r)
    <3>1. /\ \A q \in Requests : q # r => pc'[q] = pc[q]
          /\ pc'[r] = "handle" /\ UNCHANGED notify
      BY <2>2 DEF Receive
    <3> QED BY <1>1, <2>1, <3>1
  <2>3. CASE Notify(r)
    <3>1. UNCHANGED pc /\ notify[r] # 0 /\ \A q \in Requests : q # r => notify'[q] = notify[q]
      BY <2>3, ObserverFacts DEF Notify, NotifyOk, NotifyFails, NotifyClosed, Notifying
    <3> QED BY <1>1, <2>1, <3>1
  <2> QED BY <1>3, <2>2, <2>3
<1>4. CASE (Signal \/ Main \/ Terminated) /\ UNCHANGED dataVars
  <2>1. UNCHANGED <<notify, outcome>>
    BY <1>4 DEF dataVars, Signal, Main, WaitReturns, PublisherClose, Exit, Terminated, vars
  <2>2. \A q \in Requests : pc'[q] = pc[q] \/ pc'[q] = "lost"
    BY <1>4 DEF Signal, Main, WaitReturns, PublisherClose, Exit, Terminated, vars
  <2> QED BY <1>1, <2>1, <2>2
<1>5. CASE UNCHANGED handlerVars
  BY <1>1, <1>5 DEF handlerVars, vars, dataVars
<1> QED BY <1>2, <1>3, <1>4, <1>5 DEF HandlersNext

(* Every event is of an update that came through HTTP and is in the         *)
(* storage: nothing that was refused, rolled back or sent over gRPC is      *)
(* reported, and nothing is answered with success that was not applied.     *)
EventsOfUpdates ==
    /\ \A o \in Sinks : \A r \in tried[o] :
           r \in HTTPRequests /\ \E i \in 1..Len(log) : log[i] = r
    /\ \A r \in Requests : pc[r] = "acked" => \E i \in 1..Len(log) : log[i] = r

(* The handlers emit after the update, and MetricsServer never does.        *)
THEOREM EventsWereApplied == HandlersSpec => []EventsOfUpdates
<1>1. HandlersInit => StoredInv
  BY DEF HandlersInit, Init, StoredInv
<1>2. HandlersSpec => []AInv
  BY HandlersRunAudit, AInvHolds, PTL
<1>3. HInv /\ AInv /\ StoredInv => EventsOfUpdates
  <2> SUFFICES ASSUME HInv, AInv, StoredInv PROVE EventsOfUpdates
    OBVIOUS
  <2>1. ASSUME NEW o \in Sinks, NEW r \in tried[o]
        PROVE  r \in Requests /\ notify[r] # 0
    <3>1. r \in Requests
      BY DEF AInv, AuditTypeOK
    <3>2. PICK i \in 1..Len(Observers) : Observers[i] = o
      BY DEF AInv, OrderInv
    <3>3. i < notify[r] /\ notify[r] \in Nat /\ i \in Nat
      BY <3>1, <3>2, ObserverFacts DEF AInv, OrderInv, AuditTypeOK
    <3> QED BY <3>1, <3>3
  <2>2. \A r \in Requests : outcome[r] = "ok" => \E i \in 1..Len(log) : log[i] = r
    BY DEF HInv, LogInv
  <2> QED BY <2>1, <2>2 DEF AInv, StartedInv, StoredInv, EventsOfUpdates
<1> QED BY <1>1, <1>2, <1>3, HInvHolds, StoredInvNext, PTL DEF HandlersSpec

(* The types: of the audit trail, of the requests and of the metrics.       *)
HandlersTypeOK == AuditTypeOK /\ DataTypeOK /\ StorageOK(backend, store)

(* Every state of the handlers, storages and observers is well typed.       *)
THEOREM TypeCorrect == HandlersSpec => []HandlersTypeOK
<1>1. HandlersSpec => []AInv
  BY HandlersRunAudit, AInvHolds, PTL
<1>2. HInv /\ AInv => HandlersTypeOK
  BY StoreFacts DEF HInv, AInv, HandlersTypeOK
<1> QED BY <1>1, <1>2, HInvHolds, PTL
=============================================================================
