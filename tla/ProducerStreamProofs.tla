------------------------ MODULE ProducerStreamProofs ------------------------
(***************************************************************************)
(* Proofs about ProducerStream, for every base, size of the prefix and     *)
(* limits, any number of packets of any length that the prefix can tell,   *)
(* and whatever pieces the stream is sent and read in.                     *)
(*                                                                         *)
(* What recursive functions compute is proved by induction over a set of   *)
(* numbers, Below, which is proved from the well-founded order of Nat.     *)
(***************************************************************************)
EXTENDS ProducerStream, SequenceTheorems, WellFoundedInduction, TLAPS

-----------------------------------------------------------------------------
(* Recursive functions on 0 .. N.                                          *)

\* Induction up to a number.
LEMMA Below ==
  ASSUME NEW N \in Nat, NEW P, 0 \in P, \A i \in 1 .. N : i - 1 \in P => i \in P
  PROVE  \A i \in 0 .. N : i \in P
<1> DEFINE less == OpToRel(<, Nat)
           Bad == (0 .. N) \ P
<1>1. \A x, y \in Nat : <<x, y>> \in less <=> x < y
  BY DEF OpToRel
<1>2. IsWellFoundedOn(less, Nat)
  BY NatLessThanWellFounded
<1> HIDE DEF less
<1>3. SUFFICES ASSUME Bad # {} PROVE FALSE
  OBVIOUS
<1>4. PICK x \in Bad : \A y \in Bad : <<y, x>> \notin less
  BY <1>2, <1>3, WFMin, Bad \subseteq Nat
<1>5. x \in 1 .. N /\ x \notin P
  OBVIOUS
<1>6. x - 1 \in 0 .. N /\ x - 1 < x /\ x - 1 \in Nat /\ x \in Nat
  BY <1>5
<1>7. x - 1 \notin Bad
  BY <1>1, <1>4, <1>6
<1> QED
  BY <1>5, <1>6, <1>7

\* Some function starts at base and goes on by step.
Solvable(N, S, base, step) ==
  \E f \in [0 .. N -> S] : f[0] = base /\ \A i \in 1 .. N : f[i] = step[<<i, f[i - 1]>>]

\* A recursive definition has a solution.
LEMMA Solution ==
  ASSUME NEW N \in Nat, NEW S, NEW base \in S, NEW step \in [(1 .. N) \X S -> S]
  PROVE  Solvable(N, S, base, step)
<1> DEFINE Is(f, k) == f[0] = base /\ \A i \in 1 .. k : f[i] = step[<<i, f[i - 1]>>]
           P == {k \in 0 .. N : \E f \in [0 .. k -> S] : Is(f, k)}
<1>1. 0 \in P
  <2>1. [i \in 0 .. 0 |-> base] \in [0 .. 0 -> S] /\ Is([i \in 0 .. 0 |-> base], 0)
    OBVIOUS
  <2> HIDE DEF Is
  <2> QED
    BY <2>1
<1>2. ASSUME NEW k \in 1 .. N, k - 1 \in P PROVE k \in P
  <2>1. PICK f \in [0 .. k - 1 -> S] : Is(f, k - 1)
    BY <1>2
  <2> DEFINE g == [i \in 0 .. k |-> IF i = k THEN step[<<k, f[k - 1]>>] ELSE f[i]]
  <2>2. k \in Nat /\ k # 0 /\ k \in 0 .. k /\ k - 1 \in 0 .. k - 1 /\ k - 1 # k
    OBVIOUS
  <2>3. step[<<k, f[k - 1]>>] \in S
    BY <2>2
  <2>4. g \in [0 .. k -> S]
    BY <2>3
  <2>5. g[k] = step[<<k, f[k - 1]>>] /\ \A i \in 0 .. k - 1 : g[i] = f[i]
    BY <2>2
  <2> HIDE DEF g
  <2>6. g[0] = base
    BY <2>1, <2>2, <2>5
  <2>7. ASSUME NEW i \in 1 .. k PROVE g[i] = step[<<i, g[i - 1]>>]
    <3>1. CASE i = k
      BY <2>2, <2>5, <3>1
    <3>2. CASE i # k
      <4>1. i \in 0 .. k - 1 /\ i - 1 \in 0 .. k - 1 /\ i \in 1 .. k - 1
        BY <2>2, <3>2
      <4> QED
        BY <2>1, <2>5, <4>1
    <3> QED
      BY <3>1, <3>2
  <2>8. Is(g, k)
    BY <2>6, <2>7
  <2> HIDE DEF Is
  <2> QED
    BY <2>4, <2>8
<1> HIDE DEF P
<1>3. N \in P
  BY <1>1, <1>2, Below
<1> QED
  BY <1>3 DEF P, Solvable

-----------------------------------------------------------------------------
(* The prefix.                                                             *)

LEMMA BaseIs == Base \in Nat \ {0, 1} /\ PrefixSize \in Nat \ {0} /\ Base - 1 \in Nat
  BY BaseAssumption

LEMMA ShiftedIs ==
  ASSUME NEW n \in Nat
  PROVE  /\ Shifted(n) \in [0 .. PrefixSize -> Nat]
         /\ Shifted(n)[0] = n
         /\ \A i \in 1 .. PrefixSize : Shifted(n)[i] = Shifted(n)[i - 1] \div Base
<1> DEFINE Is(f) == f = [i \in 0 .. PrefixSize |-> IF i = 0 THEN n ELSE f[i - 1] \div Base]
           step == [x \in (1 .. PrefixSize) \X Nat |-> x[2] \div Base]
           s == Shifted(n)
<1>1. \A m \in Nat : m \div Base \in Nat
  <2> SUFFICES ASSUME NEW m \in Nat PROVE m \div Base \in Nat
    OBVIOUS
  <2>1. Base \in Nat /\ Base > 0
    BY BaseIs
  <2> QED
    BY <2>1
<1>2. \E f : Is(f)
  <2>1. step \in [(1 .. PrefixSize) \X Nat -> Nat]
    BY <1>1
  <2>2. \A i \in 1 .. PrefixSize : \A m \in Nat : step[<<i, m>>] = m \div Base
    OBVIOUS
  <2>3. PrefixSize \in Nat /\ 0 \in Nat
    BY BaseIs
  <2> HIDE DEF step
  <2>4. Solvable(PrefixSize, Nat, n, step)
    BY <2>1, <2>3, Solution
  <2>5. PICK f \in [0 .. PrefixSize -> Nat] :
          f[0] = n /\ \A i \in 1 .. PrefixSize : f[i] = step[<<i, f[i - 1]>>]
    BY <2>4 DEF Solvable
  <2>6. ASSUME NEW i \in 0 .. PrefixSize
        PROVE  f[i] = IF i = 0 THEN n ELSE f[i - 1] \div Base
    <3>1. CASE i = 0
      BY <2>5, <3>1
    <3>2. CASE i # 0
      <4>1. i \in 1 .. PrefixSize /\ i - 1 \in 0 .. PrefixSize
        BY <3>2, BaseIs
      <4>2. f[i - 1] \in Nat
        BY <4>1
      <4> QED
        BY <2>2, <2>5, <3>2, <4>1, <4>2
    <3> QED
      BY <3>1, <3>2
  <2>7. Is(f)
    BY <2>6
  <2> QED
    BY <2>7
<1>3. s = CHOOSE f : Is(f)
  BY DEF Shifted
<1> HIDE DEF s
<1>4. s = [i \in 0 .. PrefixSize |-> IF i = 0 THEN n ELSE s[i - 1] \div Base]
  BY <1>2, <1>3
<1>5. \A i \in 0 .. PrefixSize : s[i] = IF i = 0 THEN n ELSE s[i - 1] \div Base
  BY <1>4
<1>6. s[0] = n /\ \A i \in 1 .. PrefixSize : s[i] = s[i - 1] \div Base
  <2>1. 0 \in 0 .. PrefixSize /\ \A i \in 1 .. PrefixSize : i \in 0 .. PrefixSize /\ i # 0
    BY BaseIs
  <2> QED
    BY <1>5, <2>1
<1>7. \A i \in 0 .. PrefixSize : s[i] \in Nat
  <2> DEFINE P == {i \in 0 .. PrefixSize : s[i] \in Nat}
  <2>1. 0 \in 0 .. PrefixSize
    BY BaseIs
  <2>2. 0 \in P
    BY <1>6, <2>1
  <2>3. ASSUME NEW i \in 1 .. PrefixSize, i - 1 \in P PROVE i \in P
    BY <1>1, <1>6, <2>3
  <2> HIDE DEF P
  <2>4. \A i \in 0 .. PrefixSize : i \in P
    BY <2>2, <2>3, BaseIs, Below
  <2> QED
    BY <2>4 DEF P
<1>8. s \in [0 .. PrefixSize -> Nat]
  BY <1>4, <1>7
<1> QED
  BY <1>6, <1>8 DEF s

LEMMA ValueIs ==
  ASSUME NEW bytes \in Seq(Byte), Len(bytes) >= PrefixSize
  PROVE  \E v \in [0 .. PrefixSize -> Nat] :
           /\ v[0] = 0 /\ \A i \in 1 .. PrefixSize : v[i] = v[i - 1] * Base + bytes[i]
           /\ Value(bytes) = v[PrefixSize]
<1> DEFINE Is(f) == f = [i \in 0 .. PrefixSize |-> IF i = 0 THEN 0 ELSE f[i - 1] * Base + bytes[i]]
           step == [x \in (1 .. PrefixSize) \X Nat |-> x[2] * Base + bytes[x[1]]]
           v == CHOOSE f : Is(f)
<1>1. \A i \in 1 .. PrefixSize : \A m \in Nat : m * Base + bytes[i] \in Nat
  <2> SUFFICES ASSUME NEW i \in 1 .. PrefixSize, NEW m \in Nat PROVE m * Base + bytes[i] \in Nat
    OBVIOUS
  <2>1. i \in 1 .. Len(bytes)
    BY BaseIs
  <2>2. bytes[i] \in Byte
    BY <2>1
  <2>3. bytes[i] \in Nat
    BY <2>2, BaseIs DEF Byte
  <2>4. m * Base \in Nat
    BY BaseIs
  <2> QED
    BY <2>3, <2>4
<1>2. \E f : Is(f)
  <2>1. step \in [(1 .. PrefixSize) \X Nat -> Nat]
    BY <1>1
  <2>2. \A i \in 1 .. PrefixSize : \A m \in Nat : step[<<i, m>>] = m * Base + bytes[i]
    OBVIOUS
  <2>3. PrefixSize \in Nat /\ 0 \in Nat
    BY BaseIs
  <2> HIDE DEF step
  <2>4. Solvable(PrefixSize, Nat, 0, step)
    BY <2>1, <2>3, Solution
  <2>5. PICK f \in [0 .. PrefixSize -> Nat] :
          f[0] = 0 /\ \A i \in 1 .. PrefixSize : f[i] = step[<<i, f[i - 1]>>]
    BY <2>4 DEF Solvable
  <2>6. ASSUME NEW i \in 0 .. PrefixSize
        PROVE  f[i] = IF i = 0 THEN 0 ELSE f[i - 1] * Base + bytes[i]
    <3>1. CASE i = 0
      BY <2>5, <3>1
    <3>2. CASE i # 0
      <4>1. i \in 1 .. PrefixSize /\ i - 1 \in 0 .. PrefixSize
        BY <3>2, BaseIs
      <4>2. f[i - 1] \in Nat
        BY <4>1
      <4> QED
        BY <2>2, <2>5, <3>2, <4>1, <4>2
    <3> QED
      BY <3>1, <3>2
  <2>7. Is(f)
    BY <2>6
  <2> QED
    BY <2>7
<1>3. Value(bytes) = v[PrefixSize]
  BY DEF Value
<1>4. Is(v)
  BY <1>2
<1> HIDE DEF v
<1>5. \A i \in 0 .. PrefixSize : v[i] = IF i = 0 THEN 0 ELSE v[i - 1] * Base + bytes[i]
  BY <1>4
<1>6. v[0] = 0 /\ \A i \in 1 .. PrefixSize : v[i] = v[i - 1] * Base + bytes[i]
  <2>1. 0 \in 0 .. PrefixSize /\ \A i \in 1 .. PrefixSize : i \in 0 .. PrefixSize /\ i # 0
    BY BaseIs
  <2> QED
    BY <1>5, <2>1
<1>7. \A i \in 0 .. PrefixSize : v[i] \in Nat
  <2> DEFINE P == {i \in 0 .. PrefixSize : v[i] \in Nat}
  <2>1. 0 \in 0 .. PrefixSize
    BY BaseIs
  <2>2. 0 \in P
    BY <1>6, <2>1
  <2>3. ASSUME NEW i \in 1 .. PrefixSize, i - 1 \in P PROVE i \in P
    <3>1. v[i - 1] \in Nat /\ v[i] = v[i - 1] * Base + bytes[i] /\ i \in 0 .. PrefixSize
      BY <1>6, <2>3, BaseIs
    <3>2. v[i] \in Nat
      BY <1>1, <3>1
    <3> QED
      BY <3>1, <3>2
  <2> HIDE DEF P
  <2>4. \A i \in 0 .. PrefixSize : i \in P
    BY <2>2, <2>3, BaseIs, Below
  <2> QED
    BY <2>4 DEF P
<1>8. v \in [0 .. PrefixSize -> Nat]
  BY <1>4, <1>7
<1> QED
  BY <1>3, <1>6, <1>8

LEMMA PrefixIs ==
  ASSUME NEW n \in Nat
  PROVE  /\ Prefix(n) \in Seq(Byte) /\ Len(Prefix(n)) = PrefixSize
         /\ \A i \in 1 .. PrefixSize : Prefix(n)[i] = Shifted(n)[PrefixSize - i] % Base
<1>1. \A i \in 1 .. PrefixSize : Shifted(n)[PrefixSize - i] % Base \in Byte
  <2> SUFFICES ASSUME NEW i \in 1 .. PrefixSize
               PROVE  Shifted(n)[PrefixSize - i] % Base \in Byte
    OBVIOUS
  <2>1. PrefixSize - i \in 0 .. PrefixSize
    BY BaseIs
  <2> DEFINE m == Shifted(n)[PrefixSize - i]
  <2>2. m \in Nat
    BY <2>1, ShiftedIs
  <2> HIDE DEF m
  <2>3. m % Base \in 0 .. Base - 1
    BY <2>2, BaseIs
  <2> QED
    BY <2>3 DEF m, Byte
<1>2. Prefix(n) \in [1 .. PrefixSize -> Byte]
  BY <1>1 DEF Prefix
<1> QED
  BY <1>2, BaseIs DEF Prefix

LEMMA DivMod ==
  ASSUME NEW m \in Nat
  PROVE  (m \div Base) * Base + (m % Base) = m
BY BaseIs

\* ntohl undoes htonl, whatever follows the prefix.
LEMMA RoundTrip ==
  ASSUME NEW n \in Nat, Shifted(n)[PrefixSize] = 0, NEW rest \in Seq(Byte)
  PROVE  Value(Prefix(n) \o rest) = n
<1> DEFINE bytes == Prefix(n) \o rest
           s == Shifted(n)
<1>1. /\ bytes \in Seq(Byte) /\ Len(bytes) >= PrefixSize
      /\ \A i \in 1 .. PrefixSize : bytes[i] = s[PrefixSize - i] % Base
  BY PrefixIs, BaseIs, ConcatProperties
<1>2. /\ s \in [0 .. PrefixSize -> Nat] /\ s[0] = n /\ s[PrefixSize] = 0
      /\ \A i \in 1 .. PrefixSize : s[i] = s[i - 1] \div Base
  BY ShiftedIs
<1> HIDE DEF bytes, s
<1>3. PICK v \in [0 .. PrefixSize -> Nat] :
        /\ v[0] = 0 /\ \A i \in 1 .. PrefixSize : v[i] = v[i - 1] * Base + bytes[i]
        /\ Value(bytes) = v[PrefixSize]
  BY <1>1, ValueIs
<1> DEFINE P == {i \in 0 .. PrefixSize : v[i] = s[PrefixSize - i]}
<1>4. 0 \in 0 .. PrefixSize /\ PrefixSize \in 0 .. PrefixSize /\ PrefixSize - 0 = PrefixSize
      /\ PrefixSize - PrefixSize = 0 /\ PrefixSize \in Nat
  BY BaseIs
<1>5. 0 \in P
  BY <1>2, <1>3, <1>4
<1>6. ASSUME NEW i \in 1 .. PrefixSize, i - 1 \in P PROVE i \in P
  <2> DEFINE m == s[PrefixSize - i]
  <2>1. /\ PrefixSize - i \in 0 .. PrefixSize /\ PrefixSize - (i - 1) \in 1 .. PrefixSize
        /\ (PrefixSize - (i - 1)) - 1 = PrefixSize - i /\ i \in 0 .. PrefixSize
    BY <1>4
  <2>2. m \in Nat
    BY <1>2, <2>1
  <2>3. s[PrefixSize - (i - 1)] = m \div Base
    BY <1>2, <2>1
  <2>4. v[i - 1] = m \div Base
    BY <1>6, <2>3
  <2>5. v[i] = v[i - 1] * Base + bytes[i] /\ bytes[i] = m % Base
    BY <1>1, <1>3
  <2> HIDE DEF m
  <2>6. v[i] = (m \div Base) * Base + (m % Base)
    BY <2>4, <2>5
  <2>7. v[i] = m
    BY <2>2, <2>6, DivMod
  <2> QED
    BY <2>1, <2>7 DEF m
<1> HIDE DEF P
<1>7. PrefixSize \in P
  BY <1>4, <1>5, <1>6, Below
<1>8. v[PrefixSize] = n
  BY <1>2, <1>4, <1>7 DEF P
<1> QED
  BY <1>3, <1>8 DEF bytes

-----------------------------------------------------------------------------
(* The bytes on the wire.                                                  *)

\* What sendPacket sends for a packet.
Framed(p) == Prefix(Len(p)) \o p

LEMMA PacketIs ==
  ASSUME NEW p \in Packets
  PROVE  /\ p \in Seq(Byte) /\ Len(p) \in Nat /\ Shifted(Len(p))[PrefixSize] = 0
         /\ Framed(p) \in Seq(Byte) /\ Len(Framed(p)) = PrefixSize + Len(p)
<1>1. p \in Seq(Byte) /\ Shifted(Len(p))[PrefixSize] = 0
  BY PacketsAssumption
<1>2. Len(p) \in Nat
  BY <1>1, EmptySeq
<1> QED
  BY <1>1, <1>2, PrefixIs, ConcatProperties DEF Framed

LEMMA WireIs ==
  ASSUME NEW ps \in Seq(Packets)
  PROVE  /\ Wire(ps) \in [0 .. Len(ps) -> Seq(Byte)]
         /\ Wire(ps)[0] = << >>
         /\ \A n \in 1 .. Len(ps) :
              Wire(ps)[n] = Framed(ps[Len(ps) - n + 1]) \o Wire(ps)[n - 1]
<1> DEFINE N == Len(ps)
           Part(n) == Framed(ps[Len(ps) - n + 1])
           Is(f) == f = [n \in 0 .. N |-> IF n = 0 THEN << >> ELSE Part(n) \o f[n - 1]]
           step == [x \in (1 .. N) \X Seq(Byte) |-> Part(x[1]) \o x[2]]
           w == Wire(ps)
<1>1. w = CHOOSE f : Is(f)
  BY DEF Wire, Framed
<1>2. \A n \in 1 .. N : Part(n) \in Seq(Byte)
  <2> SUFFICES ASSUME NEW n \in 1 .. N PROVE Part(n) \in Seq(Byte)
    OBVIOUS
  <2>1. ps[Len(ps) - n + 1] \in Packets
    OBVIOUS
  <2> QED
    BY <2>1, PacketIs
<1>3. N \in Nat /\ 0 \in 0 .. N /\ << >> \in Seq(Byte)
  OBVIOUS
<1> HIDE DEF N, Part, w
<1>4. \A n \in 1 .. N : \A b \in Seq(Byte) : Part(n) \o b \in Seq(Byte)
  BY <1>2, ConcatProperties
<1>5. \E f : Is(f)
  <2>1. step \in [(1 .. N) \X Seq(Byte) -> Seq(Byte)]
    BY <1>4
  <2>2. \A n \in 1 .. N : \A b \in Seq(Byte) : step[<<n, b>>] = Part(n) \o b
    OBVIOUS
  <2> HIDE DEF step
  <2>3. Solvable(N, Seq(Byte), << >>, step)
    BY <1>3, <2>1, Solution
  <2>4. PICK f \in [0 .. N -> Seq(Byte)] :
          f[0] = << >> /\ \A i \in 1 .. N : f[i] = step[<<i, f[i - 1]>>]
    BY <2>3 DEF Solvable
  <2>5. ASSUME NEW n \in 0 .. N
        PROVE  f[n] = IF n = 0 THEN << >> ELSE Part(n) \o f[n - 1]
    <3>1. CASE n = 0
      BY <2>4, <3>1
    <3>2. CASE n # 0
      <4>1. n \in 1 .. N /\ n - 1 \in 0 .. N
        BY <1>3, <3>2
      <4>2. f[n - 1] \in Seq(Byte)
        BY <4>1
      <4> QED
        BY <2>2, <2>4, <3>2, <4>1, <4>2
    <3> QED
      BY <3>1, <3>2
  <2>6. Is(f)
    BY <2>5
  <2> QED
    BY <2>6
<1>6. w = [n \in 0 .. N |-> IF n = 0 THEN << >> ELSE Part(n) \o w[n - 1]]
  BY <1>1, <1>5
<1>7. w[0] = << >> /\ \A n \in 1 .. N : w[n] = Part(n) \o w[n - 1]
  <2>1. \A n \in 1 .. N : n \in 0 .. N /\ n # 0
    BY <1>3
  <2>2. \A n \in 0 .. N : w[n] = IF n = 0 THEN << >> ELSE Part(n) \o w[n - 1]
    BY <1>6
  <2> QED
    BY <1>3, <2>1, <2>2
<1>8. \A n \in 0 .. N : w[n] \in Seq(Byte)
  <2> DEFINE P == {n \in 0 .. N : w[n] \in Seq(Byte)}
  <2>1. 0 \in P
    BY <1>3, <1>7
  <2>2. ASSUME NEW n \in 1 .. N, n - 1 \in P PROVE n \in P
    <3>1. n \in 0 .. N /\ w[n - 1] \in Seq(Byte) /\ w[n] = Part(n) \o w[n - 1]
      BY <1>3, <1>7, <2>2
    <3>2. w[n] \in Seq(Byte)
      BY <1>4, <3>1
    <3> QED
      BY <3>1, <3>2
  <2> HIDE DEF P
  <2>3. \A n \in 0 .. N : n \in P
    BY <1>3, <2>1, <2>2, Below
  <2> QED
    BY <2>3 DEF P
<1>9. w \in [0 .. N -> Seq(Byte)]
  BY <1>6, <1>8
<1> QED
  BY <1>7, <1>9 DEF N, Part, w

\* The provers find a regrouping faster when it has a name.
Associative(x, y, z) == (x \o y) \o z = x \o (y \o z)

LEMMA Regroup ==
  ASSUME NEW S, NEW x \in Seq(S), NEW y \in Seq(S), NEW z \in Seq(S)
  PROVE  Associative(x, y, z)
BY ConcatAssociative DEF Associative

\* One more packet comes behind everything else.
LEMMA WireOfOneMore ==
  ASSUME NEW ps \in Seq(Packets), NEW p \in Packets, NEW k \in 0 .. Len(ps)
  PROVE  Wire(Append(ps, p))[k + 1] = Wire(ps)[k] \o Framed(p)
<1> DEFINE N == Len(ps)
           qs == Append(ps, p)
           w == Wire(ps)
           v == Wire(qs)
           P == {n \in 0 .. N : v[n + 1] = w[n] \o Framed(p)}
<1>1. /\ qs \in Seq(Packets) /\ Len(qs) = N + 1 /\ N \in Nat /\ qs[N + 1] = p
      /\ \A i \in 1 .. N : qs[i] = ps[i]
  BY AppendProperties
<1>2. /\ w \in [0 .. N -> Seq(Byte)] /\ w[0] = << >>
      /\ \A n \in 1 .. N : w[n] = Framed(ps[N - n + 1]) \o w[n - 1]
  BY WireIs
<1>3. /\ v \in [0 .. N + 1 -> Seq(Byte)] /\ v[0] = << >>
      /\ \A n \in 1 .. N + 1 : v[n] = Framed(qs[(N + 1) - n + 1]) \o v[n - 1]
  BY <1>1, WireIs
<1>4. Framed(p) \in Seq(Byte)
  BY PacketIs
<1> HIDE DEF N, qs, w, v
<1>5. 0 \in P
  <2>1. 1 \in 1 .. N + 1 /\ (N + 1) - 1 + 1 = N + 1 /\ 1 - 1 = 0 /\ 0 \in 0 .. N /\ 0 + 1 = 1
    BY <1>1
  <2>2. v[1] = Framed(p) \o << >>
    BY <1>1, <1>3, <2>1
  <2>3. v[1] = << >> \o Framed(p)
    BY <1>4, <2>2, ConcatEmptySeq
  <2> QED
    BY <1>2, <2>1, <2>3
<1>6. ASSUME NEW n \in 1 .. N, n - 1 \in P PROVE n \in P
  <2> DEFINE q == ps[N - n + 1]
  <2>1. /\ n + 1 \in 1 .. N + 1 /\ (N + 1) - (n + 1) + 1 = N - n + 1 /\ (n + 1) - 1 = n
        /\ N - n + 1 \in 1 .. N /\ n - 1 \in 0 .. N /\ n \in 0 .. N /\ (n - 1) + 1 = n
    BY <1>1
  <2>2. v[n + 1] = Framed(q) \o v[n]
    BY <1>1, <1>3, <2>1
  <2>3. v[n] = w[n - 1] \o Framed(p)
    BY <1>6, <2>1
  <2>4. w[n] = Framed(q) \o w[n - 1] /\ w[n - 1] \in Seq(Byte)
    BY <1>2, <2>1
  <2>5. q \in Packets
    BY <2>1 DEF N
  <2>6. Framed(q) \in Seq(Byte)
    BY <2>5, PacketIs
  <2> HIDE DEF q
  <2>7. v[n + 1] = (Framed(q) \o w[n - 1]) \o Framed(p)
    <3> DEFINE x == Framed(q)
               y == w[n - 1]
               z == Framed(p)
    <3>1. x \in Seq(Byte) /\ y \in Seq(Byte) /\ z \in Seq(Byte) /\ v[n + 1] = x \o (y \o z)
      BY <1>4, <2>2, <2>3, <2>4, <2>6
    <3> HIDE DEF x, y, z
    <3>2. (x \o y) \o z = x \o (y \o z)
      <4>1. Associative(x, y, z)
        BY <3>1, Regroup
      <4> QED
        BY <4>1 DEF Associative
    <3>3. v[n + 1] = (x \o y) \o z
      BY <3>1, <3>2
    <3> QED
      BY <3>3 DEF x, y, z
  <2> QED
    BY <2>1, <2>4, <2>7
<1> HIDE DEF P
<1>7. \A n \in 0 .. N : n \in P
  BY <1>1, <1>5, <1>6, Below
<1> QED
  BY <1>7 DEF P, N, v, w, qs

-----------------------------------------------------------------------------
(* Cutting a stream of bytes.                                              *)


LEMMA CutIs ==
  ASSUME NEW S, NEW s \in Seq(S), NEW n \in 0 .. Len(s)
  PROVE  /\ Take(s, n) \in Seq(S) /\ Len(Take(s, n)) = n
         /\ Drop(s, n) \in Seq(S) /\ Len(Drop(s, n)) = Len(s) - n
         /\ Take(s, n) \o Drop(s, n) = s
         /\ \A i \in 1 .. n : Take(s, n)[i] = s[i]
<1>1. n \in Nat /\ Len(s) \in Nat /\ 1 \in 1 .. Len(s) + 1 /\ n \in 1 - 1 .. Len(s)
      /\ Len(s) \in n .. Len(s)
  OBVIOUS
<1>2. Take(s, n) \o Drop(s, n) = SubSeq(s, 1, Len(s))
  BY <1>1, ConcatAdjacentSubSeq DEF Take, Drop
<1>3. SubSeq(s, 1, Len(s)) = s
  BY SubSeqFull
<1>4. Take(s, n) \in Seq(S) /\ Len(Take(s, n)) = n /\ \A i \in 1 .. n : Take(s, n)[i] = s[i]
  <2>1. \A i \in 1 .. n : s[i] \in S
    OBVIOUS
  <2> QED
    BY <1>1, <2>1, SubSeqProperties DEF Take
<1>5. Drop(s, n) \in Seq(S) /\ Len(Drop(s, n)) = Len(s) - n
  <2>1. \A i \in n + 1 .. Len(s) : s[i] \in S
    OBVIOUS
  <2> QED
    BY <1>1, <2>1, SubSeqProperties DEF Drop
<1> QED
  BY <1>2, <1>3, <1>4, <1>5

\* Two cuts of one stream: the shorter piece is the beginning of the longer one.
LEMMA CutsAgree ==
  ASSUME NEW S, NEW a \in Seq(S), NEW b \in Seq(S), NEW c \in Seq(S), NEW d \in Seq(S),
         a \o b = c \o d, Len(c) <= Len(a)
  PROVE  Take(a, Len(c)) = c /\ Drop(a, Len(c)) \o b = d
<1> DEFINE n == Len(c)
           h == Take(a, n)
           t == Drop(a, n)
<1>1. n \in 0 .. Len(a) /\ n \in Nat
  OBVIOUS
<1>2. h \in Seq(S) /\ Len(h) = n /\ t \in Seq(S) /\ h \o t = a /\ \A i \in 1 .. n : h[i] = a[i]
  BY <1>1, CutIs
<1> HIDE DEF n, h, t
<1>3. ASSUME NEW i \in 1 .. n PROVE h[i] = c[i]
  <2>1. i \in 1 .. Len(a) + Len(b) /\ i <= Len(a) /\ i \in 1 .. Len(c) + Len(d) /\ i <= Len(c)
    BY <1>1 DEF n
  <2>2. (a \o b)[i] = a[i] /\ (c \o d)[i] = c[i]
    BY <2>1, ConcatProperties
  <2> QED
    BY <1>2, <2>2
<1>4. h = c
  BY <1>2, <1>3, SeqEqual DEF n
<1>5. c \o (t \o b) = c \o d
  <2>1. (c \o t) \o b = c \o d
    BY <1>2, <1>4
  <2>2. c \in Seq(S) /\ t \in Seq(S) /\ b \in Seq(S)
    BY <1>2
  <2>3. (c \o t) \o b = c \o (t \o b)
    <3>1. Associative(c, t, b)
      BY <2>2, Regroup
    <3> QED
      BY <3>1 DEF Associative
  <2> QED
    BY <2>1, <2>3
<1>6. t \o b \in Seq(S)
  BY <1>2, ConcatProperties
<1>7. t \o b = d
  BY <1>5, <1>6, ConcatSimplifications
<1> QED
  BY <1>4, <1>7 DEF n, h, t

\* The packet at the head of what is to come, when its bytes have been read.
LEMMA NextPacket ==
  ASSUME NEW ps \in Seq(Packets), NEW k \in 0 .. Len(ps),
         NEW b \in Seq(Byte), NEW r \in Seq(Byte), b \o r = Wire(ps)[k], Len(b) >= PrefixSize
  PROVE  /\ k >= 1
         /\ ps[Len(ps) - k + 1] \in Packets
         /\ Take(b, PrefixSize) = Prefix(Len(ps[Len(ps) - k + 1]))
         /\ Value(b) = Len(ps[Len(ps) - k + 1])
         /\ Len(b) >= PrefixSize + Value(b) =>
              /\ SubSeq(b, PrefixSize + 1, PrefixSize + Value(b)) = ps[Len(ps) - k + 1]
              /\ Drop(b, PrefixSize + Value(b)) \o r = Wire(ps)[k - 1]
<1> DEFINE p == ps[Len(ps) - k + 1]
           w == Wire(ps)
<1>0. Len(ps) \in Nat
  OBVIOUS
<1>1. /\ w \in [0 .. Len(ps) -> Seq(Byte)] /\ w[0] = << >>
      /\ \A n \in 1 .. Len(ps) : w[n] = Framed(ps[Len(ps) - n + 1]) \o w[n - 1]
  BY WireIs
<1>2. k >= 1
  <2>1. SUFFICES ASSUME k = 0 PROVE FALSE
    OBVIOUS
  <2>2. b \o r = << >>
    BY <1>1, <2>1
  <2>3. b = << >>
    BY <2>2, ConcatEqualIffEmpty
  <2> QED
    BY <2>3, BaseIs
<1>3. p \in Packets /\ k - 1 \in 0 .. Len(ps) /\ k \in 1 .. Len(ps)
  BY <1>0, <1>1, <1>2
<1>4. w[k] = Framed(p) \o w[k - 1] /\ w[k - 1] \in Seq(Byte)
  BY <1>1, <1>3
<1>5. b \o r = w[k]
  OBVIOUS
<1> DEFINE l == Len(p)
           x == Prefix(l)
           rest == w[k - 1]
<1>6. /\ p \in Seq(Byte) /\ l \in Nat /\ Shifted(l)[PrefixSize] = 0 /\ Framed(p) = x \o p
      /\ Framed(p) \in Seq(Byte) /\ Len(Framed(p)) = PrefixSize + l
  BY <1>3, PacketIs DEF Framed
<1>7. x \in Seq(Byte) /\ Len(x) = PrefixSize
  BY <1>6, PrefixIs
<1>8. b \o r = (x \o p) \o rest /\ rest \in Seq(Byte)
  BY <1>4, <1>5, <1>6
<1> HIDE DEF l, x, rest, w, p
<1>9. b \o r = x \o (p \o rest) /\ p \o rest \in Seq(Byte)
  <2>1. (x \o p) \o rest = x \o (p \o rest)
    <3>1. x \in Seq(Byte) /\ p \in Seq(Byte) /\ rest \in Seq(Byte)
      BY <1>6, <1>7, <1>8
    <3>2. Associative(x, p, rest)
      BY <3>1, Regroup
    <3> QED
      BY <3>2 DEF Associative
  <2>2. p \o rest \in Seq(Byte)
    BY <1>6, <1>8, ConcatProperties
  <2> QED
    BY <1>8, <2>1, <2>2
<1>10. Take(b, PrefixSize) = x
  BY <1>6, <1>7, <1>9, CutsAgree
<1>11. Value(b) = l
  <2> DEFINE t == Drop(b, PrefixSize)
  <2>1. PrefixSize \in 0 .. Len(b)
    BY BaseIs
  <2>2. t \in Seq(Byte) /\ x \o t = b
    BY <1>10, <2>1, CutIs
  <2> HIDE DEF t
  <2>3. Value(x \o t) = l
    BY <1>6, <2>2, RoundTrip DEF x
  <2> QED
    BY <2>2, <2>3
<1>12. ASSUME Len(b) >= PrefixSize + l
       PROVE  /\ SubSeq(b, PrefixSize + 1, PrefixSize + l) = p
              /\ Drop(b, PrefixSize + l) \o r = rest
  <2>1. Take(b, PrefixSize + l) = x \o p /\ Drop(b, PrefixSize + l) \o r = rest
    <3> DEFINE c == x \o p
    <3>1. c \in Seq(Byte) /\ Len(c) = PrefixSize + l /\ b \o r = c \o rest
      BY <1>6, <1>8
    <3> HIDE DEF c
    <3>2. Take(b, Len(c)) = c /\ Drop(b, Len(c)) \o r = rest
      <4>1. /\ b \in Seq(Byte) /\ r \in Seq(Byte) /\ c \in Seq(Byte) /\ rest \in Seq(Byte)
            /\ b \o r = c \o rest /\ Len(c) <= Len(b)
        BY <1>8, <1>12, <3>1
      <4> QED
        BY <4>1, CutsAgree
    <3> QED
      BY <3>1, <3>2 DEF c
  <2>2. SubSeq(b, PrefixSize + 1, PrefixSize + l) = p
    <3> DEFINE s == SubSeq(b, PrefixSize + 1, PrefixSize + l)
    <3>1. \A i \in PrefixSize + 1 .. PrefixSize + l : b[i] \in Byte
      BY <1>6, <1>12, BaseIs
    <3>2. /\ PrefixSize + 1 \in Int /\ PrefixSize + l \in Int
          /\ (PrefixSize + l) - (PrefixSize + 1) + 1 = l
      BY <1>6, BaseIs
    <3>3. s \in Seq(Byte) /\ Len(s) = l
          /\ \A i \in 1 .. l : s[i] = b[(PrefixSize + 1) + i - 1]
      BY <1>6, <3>1, <3>2, BaseIs, SubSeqProperties
    <3> HIDE DEF s
    <3>4. PrefixSize + l \in 0 .. Len(b)
      BY <1>6, <1>12, BaseIs
    <3>5. ASSUME NEW i \in 1 .. l PROVE s[i] = p[i]
      <4>1. (PrefixSize + 1) + i - 1 = PrefixSize + i /\ PrefixSize + i \in 1 .. PrefixSize + l
            /\ ~(PrefixSize + i <= PrefixSize) /\ (PrefixSize + i) - PrefixSize = i
        BY <1>6, BaseIs
      <4>2. b[PrefixSize + i] = Take(b, PrefixSize + l)[PrefixSize + i]
        BY <3>4, <4>1, CutIs
      <4>3. (x \o p)[PrefixSize + i] = p[i]
        <5>1. PrefixSize + i \in 1 .. Len(x) + Len(p) /\ Len(x) = PrefixSize
          BY <1>6, <1>7, <4>1, BaseIs DEF l
        <5>2. (x \o p)[PrefixSize + i]
                = IF PrefixSize + i <= Len(x) THEN x[PrefixSize + i]
                  ELSE p[(PrefixSize + i) - Len(x)]
          BY <1>6, <1>7, <5>1, ConcatProperties
        <5> QED
          BY <4>1, <5>1, <5>2
      <4> QED
        BY <2>1, <3>3, <4>1, <4>2, <4>3
    <3>6. s = p
      BY <1>6, <3>3, <3>5, SeqEqual DEF l
    <3> QED
      BY <3>6 DEF s
  <2> QED
    BY <2>1, <2>2
<1> QED
  BY <1>2, <1>3, <1>10, <1>11, <1>12 DEF x, l, rest, w, p

-----------------------------------------------------------------------------
(* Types.                                                                  *)

LEMMA StreamIs ==
  TypeOK => /\ recv_buffer \in Seq(Byte) /\ pipe \in Seq(Byte) /\ unsent \in Seq(Byte)
            /\ Len(recv_buffer) \in Nat /\ Len(pipe) \in Nat /\ Len(unsent) \in Nat
  BY DEF TypeOK

LEMMA FrameSizeIs ==
  ASSUME TypeOK, HasPrefix
  PROVE  FrameSize \in Nat
<1>1. recv_buffer \in Seq(Byte) /\ Len(recv_buffer) >= PrefixSize
  BY DEF TypeOK, HasPrefix
<1>2. PICK v \in [0 .. PrefixSize -> Nat] : Value(recv_buffer) = v[PrefixSize]
  BY <1>1, ValueIs
<1>3. PrefixSize \in 0 .. PrefixSize
  BY BaseIs
<1> QED
  BY <1>2, <1>3 DEF FrameSize

LEMMA SniffDoes ==
  ASSUME TypeOK, Sniff
  PROVE  \/ /\ Len(recv_buffer) < PrefixSize
            /\ gpc' = "wait" /\ kind' = kind /\ recv_buffer' = recv_buffer
         \/ /\ Len(recv_buffer) >= PrefixSize /\ Take(recv_buffer, PrefixSize) = Get
            /\ gpc' = "wait" /\ kind' = "viewer" /\ recv_buffer' = << >>
         \/ /\ Len(recv_buffer) >= PrefixSize /\ Take(recv_buffer, PrefixSize) # Get
            /\ gpc' = "parse" /\ kind' = "producer" /\ recv_buffer' = recv_buffer
<1>1. PrefixSize \in Nat /\ Len(recv_buffer) \in Nat
  BY BaseIs, StreamIs
<1>2. CASE Len(recv_buffer) < PrefixSize
  BY <1>1, <1>2 DEF Sniff
<1>3. CASE Len(recv_buffer) >= PrefixSize /\ Take(recv_buffer, PrefixSize) = Get
  BY <1>1, <1>3 DEF Sniff
<1>4. CASE Len(recv_buffer) >= PrefixSize /\ Take(recv_buffer, PrefixSize) # Get
  BY <1>1, <1>4 DEF Sniff
<1> QED
  BY <1>1, <1>2, <1>3, <1>4

LEMMA InitTypeOK == Init => TypeOK
BY BoundsAssumption DEF Init, TypeOK

LEMMA NextTypeOK == TypeOK /\ [Next]_vars => TypeOK'
<1> SUFFICES ASSUME TypeOK, [Next]_vars PROVE TypeOK'
  OBVIOUS
<1>1. /\ packets \in Seq(Packets) /\ delivered \in Seq(Seq(Byte))
      /\ ready_frames \in Seq(Seq(Byte))
      /\ unsent \in Seq(Byte) /\ pipe \in Seq(Byte) /\ recv_buffer \in Seq(Byte)
      /\ Len(pipe) <= PipeSize
      /\ client \in {"open", "closed"} /\ server \in {"open", "closed"}
      /\ kind \in {"unknown", "viewer", "producer"} /\ gpc \in {"wait", "sniff", "parse"}
  BY DEF TypeOK
<1>2. Len(pipe) \in Nat /\ Len(unsent) \in Nat /\ Len(recv_buffer) \in Nat
  BY <1>1
<1>3. PipeSize \in Nat
  BY BoundsAssumption
<1>4. CASE SendPacket
  <2>1. PICK p \in Packets : packets' = Append(packets, p) /\ unsent' = Framed(p)
    BY <1>4 DEF SendPacket, Framed
  <2>2. packets' \in Seq(Packets) /\ unsent' \in Seq(Byte)
    BY <1>1, <2>1, AppendProperties, PacketIs
  <2> QED
    BY <1>1, <1>4, <2>2 DEF SendPacket, serverVars, TypeOK
<1>5. ASSUME NEW n \in 1 .. Len(unsent), SendSome(n) PROVE TypeOK'
  <2>1. /\ Take(unsent, n) \in Seq(Byte) /\ Len(Take(unsent, n)) = n
        /\ Drop(unsent, n) \in Seq(Byte)
    BY <1>1, <1>2, CutIs
  <2>2. pipe' = pipe \o Take(unsent, n) /\ unsent' = Drop(unsent, n)
        /\ Len(pipe) + n <= PipeSize
    BY <1>5 DEF SendSome
  <2>3. pipe' \in Seq(Byte) /\ Len(pipe') = Len(pipe) + n
    BY <1>1, <2>1, <2>2, ConcatProperties
  <2> QED
    BY <1>1, <1>5, <2>1, <2>2, <2>3 DEF SendSome, serverVars, TypeOK
<1>6. CASE SendFails
  BY <1>1, <1>6 DEF SendFails, serverVars, TypeOK
<1>7. CASE CloseConnection
  BY <1>1, <1>7 DEF CloseConnection, serverVars, TypeOK
<1>8. ASSUME NEW n \in 1 .. Len(pipe), Read(n) PROVE TypeOK'
  <2>1. /\ Take(pipe, n) \in Seq(Byte) /\ Drop(pipe, n) \in Seq(Byte)
        /\ Len(Drop(pipe, n)) = Len(pipe) - n
    <3>1. n \in 0 .. Len(pipe)
      BY <1>2
    <3> QED
      BY <1>1, <3>1, CutIs
  <2>2. pipe' \in Seq(Byte) /\ Len(pipe') <= PipeSize
    BY <1>1, <1>2, <1>3, <1>8, <2>1 DEF Read
  <2>3. recv_buffer' \in Seq(Byte) /\ gpc' \in {"wait", "sniff", "parse"}
    <3>1. recv_buffer \o Take(pipe, n) \in Seq(Byte)
      BY <1>1, <2>1, ConcatProperties
    <3> QED
      BY <1>1, <1>8, <3>1 DEF Read
  <2> QED
    BY <1>1, <1>8, <2>2, <2>3 DEF Read, clientVars, TypeOK
<1>9. CASE Sniff
  <2>1. recv_buffer' \in Seq(Byte) /\ gpc' \in {"wait", "sniff", "parse"}
        /\ kind' \in {"unknown", "viewer", "producer"}
    <3>1. << >> \in Seq(Byte)
      OBVIOUS
    <3> QED
      BY <1>1, <1>9, <3>1, SniffDoes, Zenon
  <2> QED
    BY <1>1, <1>9, <2>1 DEF Sniff, clientVars, TypeOK
<1>10. CASE ParseFrame
  <2> DEFINE m == PrefixSize + FrameSize
  <2>1. FrameSize \in Nat /\ m \in 0 .. Len(recv_buffer) /\ PrefixSize \in Nat
    BY <1>2, <1>10, FrameSizeIs, BaseIs DEF ParseFrame, Whole
  <2>2. Drop(recv_buffer, m) \in Seq(Byte)
    BY <1>1, <2>1, CutIs
  <2>3. SubSeq(recv_buffer, PrefixSize + 1, m) \in Seq(Byte)
    <3>1. \A i \in PrefixSize + 1 .. m : recv_buffer[i] \in Byte
      BY <1>1, <2>1
    <3> QED
      BY <2>1, <3>1, SubSeqProperties
  <2> HIDE DEF m
  <2>4. /\ recv_buffer' = Drop(recv_buffer, m)
        /\ ready_frames' = Append(ready_frames, SubSeq(recv_buffer, PrefixSize + 1, m))
    BY <1>10 DEF ParseFrame, m
  <2>5. ready_frames' \in Seq(Seq(Byte))
    BY <1>1, <2>3, <2>4, AppendProperties
  <2> QED
    BY <1>1, <1>10, <2>2, <2>4, <2>5 DEF ParseFrame, clientVars, TypeOK
<1>11. CASE ParseEnds
  <2>1. delivered \o ready_frames \in Seq(Seq(Byte))
    BY <1>1, ConcatProperties
  <2> QED
    BY <1>1, <1>11, <2>1 DEF ParseEnds, clientVars, TypeOK
<1>12. CASE ParseInvalid
  BY <1>1, <1>12 DEF ParseInvalid, clientVars, TypeOK
<1>13. CASE HangUp
  BY <1>1, <1>13 DEF HangUp, clientVars, TypeOK
<1>14. CASE UNCHANGED vars
  BY <1>1, <1>14 DEF vars, clientVars, serverVars, TypeOK
<1> QED
  BY <1>4, <1>5, <1>6, <1>7, <1>8, <1>9, <1>10, <1>11, <1>12, <1>13, <1>14
  DEF Next, Client, Gateway, Quiet

\* The variables of both ends keep their types, whatever is sent and however the
\* stream is cut (FramedTcpClient::sendPacket, TcpServer::handleProducerBytes).
THEOREM TypeCorrect == Spec => []TypeOK
<1>1. TypeOK /\ [Next]_vars => TypeOK'
  BY NextTypeOK
<1> QED
  BY <1>1, InitTypeOK, PTL DEF Spec

-----------------------------------------------------------------------------
(* Memory.                                                                 *)

LEMMA InitBounded == Init => BufferBounded
BY BaseIs, BoundsAssumption DEF Init, BufferBounded

LEMMA NextBounded == TypeOK /\ BufferBounded /\ [Next]_vars => BufferBounded'
<1> SUFFICES ASSUME TypeOK, BufferBounded, [Next]_vars PROVE BufferBounded'
  OBVIOUS
<1>1. /\ recv_buffer \in Seq(Byte) /\ pipe \in Seq(Byte) /\ Len(recv_buffer) \in Nat
      /\ Len(pipe) \in Nat
  BY StreamIs
<1>2. PrefixSize \in Nat \ {0} /\ MaxFrameSize \in Nat \ {0} /\ ReadSize \in Nat \ {0}
  BY BaseIs, BoundsAssumption
<1>3. /\ Len(recv_buffer) < PrefixSize + MaxFrameSize + ReadSize
      /\ gpc = "wait" => Len(recv_buffer) < PrefixSize + MaxFrameSize
  BY DEF BufferBounded
<1>4. CASE UNCHANGED <<recv_buffer, gpc>>
  BY <1>4 DEF BufferBounded
<1>5. ASSUME NEW n \in 1 .. Len(pipe), Read(n) PROVE BufferBounded'
  <2>1. CASE kind = "viewer"
    BY <1>4, <1>5, <2>1 DEF Read
  <2>2. CASE kind # "viewer"
    <3>1. /\ gpc = "wait" /\ gpc' # "wait" /\ n <= ReadSize
          /\ recv_buffer' = recv_buffer \o Take(pipe, n)
      BY <1>5, <2>2 DEF Read
    <3>2. Take(pipe, n) \in Seq(Byte) /\ Len(Take(pipe, n)) = n
      BY <1>1, CutIs
    <3>3. Len(recv_buffer') = Len(recv_buffer) + n
      BY <1>1, <3>1, <3>2, ConcatProperties
    <3>4. Len(recv_buffer') < PrefixSize + MaxFrameSize + ReadSize
      BY <1>1, <1>2, <1>3, <3>1, <3>3
    <3> QED
      BY <3>1, <3>4 DEF BufferBounded
  <2> QED
    BY <2>1, <2>2
<1>6. ASSUME recv_buffer' = << >> PROVE BufferBounded'
  <2>1. Len(recv_buffer') = 0
    BY <1>6
  <2> QED
    BY <1>2, <2>1 DEF BufferBounded
<1>7. CASE Sniff
  <2>1. CASE Len(recv_buffer) < PrefixSize /\ recv_buffer' = recv_buffer
    <3>1. /\ Len(recv_buffer') < PrefixSize + MaxFrameSize
          /\ Len(recv_buffer') < PrefixSize + MaxFrameSize + ReadSize
      BY <1>1, <1>2, <2>1
    <3> QED
      BY <3>1 DEF BufferBounded
  <2>2. CASE recv_buffer' = recv_buffer /\ gpc' = "parse"
    BY <1>3, <2>2 DEF BufferBounded
  <2> QED
    BY <1>6, <1>7, <2>1, <2>2, SniffDoes
<1>8. CASE ParseFrame
  <2> DEFINE m == PrefixSize + FrameSize
  <2>1. FrameSize \in Nat /\ m \in 0 .. Len(recv_buffer)
    BY <1>1, <1>2, <1>8, FrameSizeIs DEF ParseFrame, Whole
  <2>2. Len(Drop(recv_buffer, m)) = Len(recv_buffer) - m
    BY <1>1, <2>1, CutIs
  <2>3. Len(recv_buffer') = Len(recv_buffer) - m /\ gpc' = gpc /\ gpc = "parse"
    BY <1>8, <2>2 DEF ParseFrame
  <2> HIDE DEF m
  <2>4. Len(recv_buffer') < PrefixSize + MaxFrameSize + ReadSize
    BY <1>1, <1>2, <1>3, <2>1, <2>3
  <2> QED
    BY <2>3, <2>4 DEF BufferBounded
<1>9. CASE ParseEnds
  <2>1. Len(recv_buffer) < PrefixSize + MaxFrameSize
    <3>1. CASE HasPrefix
      <4>1. FrameSize \in Nat /\ FrameSize <= MaxFrameSize
            /\ ~(Len(recv_buffer) >= PrefixSize + FrameSize)
        BY <1>9, <3>1, FrameSizeIs DEF ParseEnds, Legal, Whole
      <4> QED
        BY <1>1, <1>2, <4>1
    <3>2. CASE ~HasPrefix
      BY <1>1, <1>2, <3>2 DEF HasPrefix
    <3> QED
      BY <3>1, <3>2
  <2> QED
    BY <1>3, <1>9, <2>1 DEF ParseEnds, BufferBounded
<1>10. CASE SendPacket \/ SendFails \/ CloseConnection \/ UNCHANGED vars
  BY <1>4, <1>10 DEF SendPacket, SendFails, CloseConnection, vars, serverVars
<1>11. ASSUME NEW n \in 1 .. Len(unsent), SendSome(n) PROVE BufferBounded'
  BY <1>4, <1>11 DEF SendSome, serverVars
<1>12. CASE ParseInvalid \/ HangUp
  BY <1>6, <1>12 DEF ParseInvalid, HangUp
<1> QED
  BY <1>5, <1>7, <1>8, <1>9, <1>10, <1>11, <1>12 DEF Next, Client, Gateway, Quiet

\* Whatever lengths the prefixes claim, the gateway keeps less than one packet for a
\* connection between two reads, and one read more during one
\* (TcpServer::handleProducerBytes with its check against MAX_FRAME_SIZE).
THEOREM MemoryIsBounded == Spec => []BufferBounded
<1>1. TypeOK /\ BufferBounded /\ [Next]_vars => BufferBounded'
  BY NextBounded
<1> QED
  BY <1>1, InitBounded, TypeCorrect, PTL DEF Spec

-----------------------------------------------------------------------------
(* No byte is lost.                                                        *)

\* The packets found so far, the number of those still to find, and the bytes under way.
Found == delivered \o ready_frames
Left == Len(packets) - Len(Found)
Stream == (recv_buffer \o pipe) \o unsent

\* Where the gateway's thread is, and what it can hold there.
Control ==
  /\ gpc # "wait" => server = "open"
  /\ gpc = "sniff" => kind = "unknown"
  /\ gpc = "parse" => kind = "producer"
  /\ gpc # "parse" => ready_frames = << >>
  /\ client = "closed" => unsent = << >>
  /\ NeverAViewer
  /\ kind = "unknown" => delivered = << >>

\* What is buffered, in flight and unsent continues the packets found.  Once the
\* client has gone some bytes may be missing, at the end only.
Lossless ==
  /\ IsPrefix(Found, packets)
  /\ server = "open" =>
       \E rest \in Seq(Byte) :
         /\ Stream \o rest = Wire(packets)[Left]
         /\ client = "open" => rest = << >>

LEMMA PrefixMeans ==
  ASSUME NEW S, NEW s \in Seq(S), NEW t \in Seq(S)
  PROVE  IsPrefix(s, t) <=> Len(s) <= Len(t) /\ \A i \in 1 .. Len(s) : s[i] = t[i]
<1>1. CASE Len(s) <= Len(t)
  <2> DEFINE h == SubSeq(t, 1, Len(s))
  <2>1. SubSeq(s, 1, Len(s)) = s
    BY SubSeqFull
  <2>2. \A i \in 1 .. Len(s) : t[i] \in S
    BY <1>1
  <2>3. Len(s) \in Nat /\ 1 \in Int /\ Len(s) \in Int
    OBVIOUS
  <2>4. h \in Seq(S) /\ Len(h) = Len(s) /\ \A i \in 1 .. Len(s) : h[i] = t[i]
    BY <2>2, <2>3, SubSeqProperties
  <2>5. IsPrefix(s, t) <=> s = h
    BY <1>1, <2>1 DEF IsPrefix
  <2> HIDE DEF h
  <2>6. s = h <=> \A i \in 1 .. Len(s) : s[i] = h[i]
    BY <2>4, SeqEqual
  <2> QED
    BY <1>1, <2>4, <2>5, <2>6
<1>2. CASE ~(Len(s) <= Len(t))
  BY <1>2 DEF IsPrefix
<1> QED
  BY <1>1, <1>2

\* The packets found are the first ones sent.
LEMMA FoundIs ==
  ASSUME TypeOK, IsPrefix(Found, packets)
  PROVE  /\ packets \in Seq(Packets) /\ packets \in Seq(Seq(Byte)) /\ Found \in Seq(Seq(Byte))
         /\ Left \in 0 .. Len(packets) /\ Len(Found) = Len(packets) - Left
         /\ Len(packets) \in Nat /\ Len(Found) \in Nat
         /\ \A i \in 1 .. Len(Found) : Found[i] = packets[i]
<1>1. packets \in Seq(Packets) /\ delivered \in Seq(Seq(Byte)) /\ ready_frames \in Seq(Seq(Byte))
  BY DEF TypeOK
<1>2. packets \in Seq(Seq(Byte))
  BY <1>1, PacketIs, SeqMonotonic
<1>3. Found \in Seq(Seq(Byte))
  BY <1>1, ConcatProperties DEF Found
<1>4. Len(packets) \in Nat /\ Len(Found) \in Nat
  BY <1>2, <1>3
<1>5. Len(Found) <= Len(packets) /\ \A i \in 1 .. Len(Found) : Found[i] = packets[i]
  BY <1>2, <1>3, PrefixMeans
<1> QED
  BY <1>1, <1>2, <1>3, <1>4, <1>5 DEF Left

\* The stream of what is read, in flight, unsent and lost, from its front.
Regrouped(a, b, c, d) == ((a \o b) \o c) \o d = a \o ((b \o c) \o d)

LEMMA FromTheFront ==
  ASSUME NEW a \in Seq(Byte), NEW b \in Seq(Byte), NEW c \in Seq(Byte), NEW d \in Seq(Byte)
  PROVE  Regrouped(a, b, c, d)
<1> DEFINE x == b \o c
<1>0. x \in Seq(Byte)
  BY ConcatProperties
<1>1. (a \o b) \o c = a \o x
  <2>1. Associative(a, b, c)
    BY Regroup
  <2> QED
    BY <2>1 DEF Associative, x
<1> HIDE DEF x
<1>2. (a \o x) \o d = a \o (x \o d)
  <2>1. Associative(a, x, d)
    BY <1>0, Regroup
  <2> QED
    BY <2>1 DEF Associative
<1> QED
  BY <1>1, <1>2 DEF x, Regrouped

LEMMA StreamBytes ==
  ASSUME TypeOK
  PROVE  Stream \in Seq(Byte) /\ recv_buffer \o pipe \in Seq(Byte)
<1>1. recv_buffer \in Seq(Byte) /\ pipe \in Seq(Byte) /\ unsent \in Seq(Byte)
  BY StreamIs
<1>2. recv_buffer \o pipe \in Seq(Byte)
  BY <1>1, ConcatProperties
<1> QED
  BY <1>1, <1>2, ConcatProperties DEF Stream

LEMMA InitLossless == Init => Control /\ Lossless
<1> SUFFICES ASSUME Init PROVE Control /\ Lossless
  OBVIOUS
<1>1. /\ packets = << >> /\ Found = << >> /\ Stream = << >> /\ Left = 0 /\ client = "open"
      /\ << >> \in Seq(Byte) /\ << >> \in Seq(Packets) /\ << >> \in Seq(Seq(Byte))
  BY DEF Init, Found, Stream, Left
<1>2. IsPrefix(Found, packets)
  BY <1>1 DEF IsPrefix
<1>3. Wire(packets)[Left] = << >>
  BY <1>1, WireIs
<1>4. Stream \o << >> = Wire(packets)[Left]
  BY <1>1, <1>3
<1>5. Lossless
  BY <1>1, <1>2, <1>4 DEF Lossless
<1>6. Control
  BY DEF Init, Control, NeverAViewer
<1> QED
  BY <1>5, <1>6

LEMMA SendPacketLossless == TypeOK /\ Control /\ Lossless /\ SendPacket => Lossless'
<1> SUFFICES ASSUME TypeOK, Control, Lossless, SendPacket PROVE Lossless'
  OBVIOUS
<1>1. PICK p \in Packets : packets' = Append(packets, p) /\ unsent' = Framed(p)
  BY DEF SendPacket, Framed
<1>2. /\ client = "open" /\ unsent = << >> /\ client' = client /\ server' = server
      /\ pipe' = pipe /\ recv_buffer' = recv_buffer
      /\ ready_frames' = ready_frames /\ delivered' = delivered
  BY DEF SendPacket, serverVars
<1>3. /\ packets \in Seq(Packets) /\ packets \in Seq(Seq(Byte)) /\ Found \in Seq(Seq(Byte))
      /\ Left \in 0 .. Len(packets) /\ Len(Found) = Len(packets) - Left
      /\ Len(packets) \in Nat /\ Len(Found) \in Nat
      /\ \A i \in 1 .. Len(Found) : Found[i] = packets[i]
  BY FoundIs DEF Lossless
<1>4. p \in Seq(Byte) /\ Framed(p) \in Seq(Byte)
  BY PacketIs
<1>5. Found' = Found
  BY <1>2 DEF Found
<1>6. /\ packets' \in Seq(Seq(Byte)) /\ Len(packets') = Len(packets) + 1
      /\ \A i \in 1 .. Len(packets) : packets'[i] = packets[i]
  BY <1>1, <1>3, <1>4, AppendProperties
<1>7. IsPrefix(Found', packets')
  <2>1. Len(Found) <= Len(packets') /\ \A i \in 1 .. Len(Found) : Found[i] = packets'[i]
    BY <1>3, <1>6
  <2> QED
    BY <1>3, <1>5, <1>6, <2>1, PrefixMeans
<1>8. Left' = Left + 1
  BY <1>3, <1>5, <1>6 DEF Left
<1>9. ASSUME server' = "open"
      PROVE  Stream' \o << >> = Wire(packets')[Left'] /\ << >> \in Seq(Byte)
  <2> DEFINE y == recv_buffer \o pipe
  <2>1. PICK rest \in Seq(Byte) :
          Stream \o rest = Wire(packets)[Left] /\ (client = "open" => rest = << >>)
    BY <1>2, <1>9 DEF Lossless
  <2>2. y \in Seq(Byte)
    BY StreamBytes
  <2>3. Stream = y \o << >> /\ Stream' = y \o Framed(p)
    BY <1>1, <1>2 DEF Stream
  <2> HIDE DEF y
  <2>4. Stream = y
    BY <2>2, <2>3, ConcatEmptySeq
  <2>5. Stream \o << >> = y
    BY <2>2, <2>4, ConcatEmptySeq
  <2>6. Wire(packets)[Left] = y
    BY <1>2, <2>1, <2>5
  <2>7. Wire(packets')[Left'] = y \o Framed(p)
    BY <1>1, <1>3, <1>8, <2>6, WireOfOneMore
  <2>8. (y \o Framed(p)) \o << >> = y \o Framed(p)
    BY <1>4, <2>2, ConcatProperties, ConcatEmptySeq
  <2> QED
    BY <2>3, <2>7, <2>8
<1> QED
  BY <1>2, <1>7, <1>9 DEF Lossless

\* A step that only moves bytes along, or takes the last ones away for good.
LEMMA MovedLossless ==
  ASSUME TypeOK, Lossless,
         UNCHANGED <<packets, delivered, ready_frames>>, server' = "open" => server = "open",
         server' = "open" =>
           \/ Stream' = Stream /\ client' = client
           \/ client' # "open" /\ \E gone \in Seq(Byte) : Stream = Stream' \o gone /\ Stream' \in Seq(Byte)
  PROVE  Lossless'
<1>1. Found' = Found /\ Left' = Left /\ packets' = packets
  BY DEF Found, Left
<1>2. IsPrefix(Found', packets')
  BY <1>1 DEF Lossless
<1>3. ASSUME server' = "open"
      PROVE  \E rest \in Seq(Byte) :
               Stream' \o rest = Wire(packets)[Left] /\ (client' = "open" => rest = << >>)
  <2>1. PICK rest \in Seq(Byte) :
          Stream \o rest = Wire(packets)[Left] /\ (client = "open" => rest = << >>)
    BY <1>3 DEF Lossless
  <2>2. CASE Stream' = Stream /\ client' = client
    BY <2>1, <2>2
  <2>3. ASSUME client' # "open", NEW gone \in Seq(Byte),
               Stream = Stream' \o gone, Stream' \in Seq(Byte)
        PROVE  \E x \in Seq(Byte) :
                 Stream' \o x = Wire(packets)[Left] /\ (client' = "open" => x = << >>)
    <3> DEFINE s == Stream'
    <3>1. s \in Seq(Byte) /\ (s \o gone) \o rest = Wire(packets)[Left]
      BY <2>1, <2>3
    <3> HIDE DEF s
    <3>2. s \o (gone \o rest) = Wire(packets)[Left]
      <4>1. s \in Seq(Byte)
        BY <3>1
      <4>2. (s \o gone) \o rest = s \o (gone \o rest)
        <5>1. Associative(s, gone, rest)
          BY <4>1, Regroup
        <5> QED
          BY <5>1 DEF Associative
      <4> QED
        BY <3>1, <4>2
    <3>3. gone \o rest \in Seq(Byte)
      BY ConcatProperties
    <3> QED
      BY <2>3, <3>2, <3>3 DEF s
  <2> QED
    BY <1>3, <2>2, <2>3
<1> QED
  BY <1>1, <1>2, <1>3 DEF Lossless

LEMMA SendSomeLossless ==
  ASSUME TypeOK, Lossless, NEW n \in 1 .. Len(unsent), SendSome(n)
  PROVE  Lossless'
<1> DEFINE t == Take(unsent, n)
           d == Drop(unsent, n)
<1>1. recv_buffer \in Seq(Byte) /\ pipe \in Seq(Byte) /\ unsent \in Seq(Byte)
      /\ n \in 0 .. Len(unsent)
  BY StreamIs
<1>2. t \in Seq(Byte) /\ d \in Seq(Byte) /\ t \o d = unsent
  BY <1>1, CutIs
<1>3. /\ pipe' = pipe \o t /\ unsent' = d /\ recv_buffer' = recv_buffer
      /\ UNCHANGED <<packets, delivered, ready_frames>> /\ server' = server /\ client' = client
  BY DEF SendSome, serverVars
<1> HIDE DEF t, d
<1>4. Stream' = (recv_buffer \o (pipe \o t)) \o d
  BY <1>3 DEF Stream
<1>5. (recv_buffer \o (pipe \o t)) \o d = (recv_buffer \o pipe) \o (t \o d)
  <2> DEFINE x == recv_buffer \o pipe
  <2>1. recv_buffer \in Seq(Byte) /\ pipe \in Seq(Byte) /\ t \in Seq(Byte) /\ d \in Seq(Byte)
    BY <1>1, <1>2
  <2>2. x \o t = recv_buffer \o (pipe \o t)
    <3>1. Associative(recv_buffer, pipe, t)
      BY <2>1, Regroup
    <3> QED
      BY <3>1 DEF Associative
  <2>3. x \in Seq(Byte) /\ t \in Seq(Byte) /\ d \in Seq(Byte)
    BY <1>2, StreamBytes
  <2> HIDE DEF x
  <2>4. (x \o t) \o d = x \o (t \o d)
    <3>1. Associative(x, t, d)
      BY <2>3, Regroup
    <3> QED
      BY <3>1 DEF Associative
  <2> QED
    BY <2>2, <2>4 DEF x
<1>6. Stream' = Stream
  BY <1>2, <1>4, <1>5 DEF Stream
<1> QED
  BY <1>3, <1>6, MovedLossless

LEMMA ReadLossless ==
  ASSUME TypeOK, Control, Lossless, NEW n \in 1 .. Len(pipe), Read(n)
  PROVE  Lossless'
<1> DEFINE t == Take(pipe, n)
           d == Drop(pipe, n)
<1>1. recv_buffer \in Seq(Byte) /\ pipe \in Seq(Byte) /\ unsent \in Seq(Byte)
      /\ n \in 0 .. Len(pipe)
  BY StreamIs
<1>2. t \in Seq(Byte) /\ d \in Seq(Byte) /\ t \o d = pipe
  BY <1>1, CutIs
<1>3. /\ pipe' = d /\ unsent' = unsent /\ recv_buffer' = recv_buffer \o t
      /\ UNCHANGED <<packets, delivered, ready_frames>> /\ server' = server /\ client' = client
  BY DEF Read, clientVars, Control, NeverAViewer
<1> HIDE DEF t, d
<1>4. (recv_buffer \o t) \o d = recv_buffer \o (t \o d)
  <2>1. recv_buffer \in Seq(Byte) /\ t \in Seq(Byte) /\ d \in Seq(Byte)
    BY <1>1, <1>2
  <2>2. Associative(recv_buffer, t, d)
    BY <2>1, Regroup
  <2> QED
    BY <2>2 DEF Associative
<1>5. Stream' = Stream
  BY <1>2, <1>3, <1>4 DEF Stream
<1> QED
  BY <1>3, <1>5, MovedLossless

LEMMA ClientGoesLossless ==
  ASSUME TypeOK, Lossless, SendFails \/ CloseConnection
  PROVE  Lossless'
<1>1. /\ unsent' = << >> /\ client' = "closed" /\ pipe' = pipe /\ recv_buffer' = recv_buffer
      /\ UNCHANGED <<packets, delivered, ready_frames>> /\ server' = server
  BY DEF SendFails, CloseConnection, serverVars
<1> DEFINE y == recv_buffer \o pipe
<1>2. y \in Seq(Byte) /\ unsent \in Seq(Byte)
  BY StreamBytes, StreamIs
<1>3. Stream' = y \o << >> /\ Stream = y \o unsent
  BY <1>1 DEF Stream
<1> HIDE DEF y
<1>4. Stream' = y
  BY <1>2, <1>3, ConcatEmptySeq
<1>5. Stream' \in Seq(Byte) /\ Stream = Stream' \o unsent
  BY <1>2, <1>3, <1>4
<1> QED
  BY <1>1, <1>2, <1>5, MovedLossless

\* What the bytes read so far say about the next packet.
LEMMA HeadOfStream ==
  ASSUME TypeOK, Lossless, server = "open", Len(recv_buffer) >= PrefixSize
  PROVE  /\ Left >= 1
         /\ packets[Len(Found) + 1] \in Packets
         /\ Take(recv_buffer, PrefixSize) = Prefix(Len(packets[Len(Found) + 1]))
         /\ FrameSize = Len(packets[Len(Found) + 1])
         /\ Whole =>
              /\ SubSeq(recv_buffer, PrefixSize + 1, PrefixSize + FrameSize)
                   = packets[Len(Found) + 1]
              /\ \E rest \in Seq(Byte) :
                   /\ ((Drop(recv_buffer, PrefixSize + FrameSize) \o pipe) \o unsent) \o rest
                        = Wire(packets)[Left - 1]
                   /\ client = "open" => rest = << >>
<1>1. /\ packets \in Seq(Packets) /\ Left \in 0 .. Len(packets) /\ Len(packets) \in Nat
      /\ Len(Found) = Len(packets) - Left
  BY FoundIs DEF Lossless
<1>2. PICK rest \in Seq(Byte) :
        Stream \o rest = Wire(packets)[Left] /\ (client = "open" => rest = << >>)
  BY DEF Lossless
<1> DEFINE b == recv_buffer
           r == (pipe \o unsent) \o rest
           p == packets[Len(packets) - Left + 1]
<1>3. b \in Seq(Byte) /\ pipe \in Seq(Byte) /\ unsent \in Seq(Byte)
  BY StreamIs
<1>4. r \in Seq(Byte)
  <2>1. pipe \o unsent \in Seq(Byte)
    BY <1>3, ConcatProperties
  <2> QED
    BY <2>1, ConcatProperties
<1>5. b \o r = Wire(packets)[Left]
  <2>1. recv_buffer \in Seq(Byte) /\ pipe \in Seq(Byte) /\ unsent \in Seq(Byte)
        /\ rest \in Seq(Byte)
    BY <1>3
  <2>2. ((recv_buffer \o pipe) \o unsent) \o rest = recv_buffer \o ((pipe \o unsent) \o rest)
    <3>1. Regrouped(recv_buffer, pipe, unsent, rest)
      BY <2>1, FromTheFront
    <3> QED
      BY <3>1 DEF Regrouped
  <2>3. b \o r = Stream \o rest
    BY <2>2 DEF Stream
  <2> QED
    BY <1>2, <2>3
<1>6. Len(packets) - Left + 1 = Len(Found) + 1
  BY <1>1
<1> HIDE DEF b, r
<1>7. /\ Left >= 1 /\ p \in Packets /\ Take(b, PrefixSize) = Prefix(Len(p))
      /\ Value(b) = Len(p)
      /\ Len(b) >= PrefixSize + Value(b) =>
           /\ SubSeq(b, PrefixSize + 1, PrefixSize + Value(b)) = p
           /\ Drop(b, PrefixSize + Value(b)) \o r = Wire(packets)[Left - 1]
  <2>1. Len(b) >= PrefixSize
    BY DEF b
  <2> QED
    BY <1>1, <1>3, <1>4, <1>5, <2>1, NextPacket
<1>8. ASSUME Whole
      PROVE  ((Drop(b, PrefixSize + Value(b)) \o pipe) \o unsent) \o rest = Wire(packets)[Left - 1]
  <2> DEFINE m == PrefixSize + Value(b)
             d == Drop(b, m)
  <2>1. Value(b) \in Nat /\ Len(b) \in Nat
    BY <1>3, <1>7, PacketIs
  <2>2. Len(b) >= m /\ m \in 0 .. Len(b)
    BY <1>8, <2>1, BaseIs DEF Whole, FrameSize, b
  <2>3. d \in Seq(Byte)
    BY <1>3, <2>2, CutIs
  <2>4. d \o r = Wire(packets)[Left - 1]
    BY <1>7, <2>2
  <2> HIDE DEF d
  <2>5. ((d \o pipe) \o unsent) \o rest = d \o ((pipe \o unsent) \o rest)
    <3>1. d \in Seq(Byte) /\ pipe \in Seq(Byte) /\ unsent \in Seq(Byte) /\ rest \in Seq(Byte)
      BY <1>3, <2>3
    <3> QED
      <4>1. Regrouped(d, pipe, unsent, rest)
        BY <3>1, FromTheFront
      <4> QED
        BY <4>1 DEF Regrouped
  <2> QED
    BY <2>4, <2>5 DEF d, r
<1>9. Whole => Len(b) >= PrefixSize + Value(b)
  BY DEF Whole, FrameSize, b
<1> QED
  BY <1>2, <1>6, <1>7, <1>8, <1>9 DEF b, FrameSize

LEMMA SniffLossless ==
  ASSUME TypeOK, Control, Lossless, Sniff
  PROVE  Lossless' /\ kind' # "viewer" /\ recv_buffer' = recv_buffer
<1>1. gpc = "sniff" /\ server = "open"
  BY DEF Sniff, Control
<1>2. ~(Len(recv_buffer) >= PrefixSize /\ Take(recv_buffer, PrefixSize) = Get)
  <2>1. SUFFICES ASSUME Len(recv_buffer) >= PrefixSize, Take(recv_buffer, PrefixSize) = Get
                 PROVE  FALSE
    OBVIOUS
  <2>2. PICK p \in Packets : Take(recv_buffer, PrefixSize) = Prefix(Len(p))
    BY <1>1, <2>1, HeadOfStream
  <2> QED
    BY <2>1, <2>2, GetAssumption
<1>3. kind' \in {kind, "producer"} /\ recv_buffer' = recv_buffer
  BY <1>2, SniffDoes
<1>4. /\ pipe' = pipe /\ unsent' = unsent /\ server' = server /\ client' = client
      /\ UNCHANGED <<packets, delivered, ready_frames>>
  BY DEF Sniff, clientVars
<1>5. Stream' = Stream
  BY <1>3, <1>4 DEF Stream
<1>6. Lossless'
  BY <1>4, <1>5, MovedLossless
<1> QED
  BY <1>3, <1>6 DEF Control, NeverAViewer

LEMMA ParseFrameLossless ==
  ASSUME TypeOK, Control, Lossless, ParseFrame
  PROVE  Lossless'
<1>1. gpc = "parse" /\ server = "open" /\ Len(recv_buffer) >= PrefixSize /\ Whole
  BY DEF ParseFrame, Control, HasPrefix
<1> DEFINE p == packets[Len(Found) + 1]
           m == PrefixSize + FrameSize
<1>2. /\ Left >= 1 /\ p \in Packets
      /\ SubSeq(recv_buffer, PrefixSize + 1, m) = p
      /\ \E rest \in Seq(Byte) :
           /\ ((Drop(recv_buffer, m) \o pipe) \o unsent) \o rest = Wire(packets)[Left - 1]
           /\ client = "open" => rest = << >>
  BY <1>1, HeadOfStream
<1>3. /\ packets \in Seq(Packets) /\ packets \in Seq(Seq(Byte)) /\ Found \in Seq(Seq(Byte))
      /\ Left \in 0 .. Len(packets) /\ Len(Found) = Len(packets) - Left
      /\ Len(packets) \in Nat /\ Len(Found) \in Nat
      /\ \A i \in 1 .. Len(Found) : Found[i] = packets[i]
  BY FoundIs DEF Lossless
<1>4. /\ recv_buffer' = Drop(recv_buffer, m)
      /\ ready_frames' = Append(ready_frames, SubSeq(recv_buffer, PrefixSize + 1, m))
      /\ UNCHANGED <<packets, unsent, client, pipe, server, delivered>>
  BY DEF ParseFrame, clientVars
<1>5. p \in Seq(Byte)
  BY <1>2, PacketIs
<1> HIDE DEF p, m
<1>6. Found' = Append(Found, p)
  <2>1. delivered \in Seq(Seq(Byte)) /\ ready_frames \in Seq(Seq(Byte))
    BY DEF TypeOK
  <2>2. Found' = delivered \o Append(ready_frames, p)
    BY <1>2, <1>4 DEF Found
  <2>3. Append(ready_frames, p) = ready_frames \o <<p>>
    BY <1>5, <2>1, AppendIsConcat
  <2>4. Append(Found, p) = Found \o <<p>>
    BY <1>3, <1>5, AppendIsConcat
  <2>5. <<p>> \in Seq(Seq(Byte))
    BY <1>5
  <2>6. (delivered \o ready_frames) \o <<p>> = delivered \o (ready_frames \o <<p>>)
    <3>1. Associative(delivered, ready_frames, <<p>>)
      BY <2>1, <2>5, Regroup
    <3> QED
      BY <3>1 DEF Associative
  <2> QED
    BY <2>2, <2>3, <2>4, <2>6 DEF Found
<1>7. /\ Found' \in Seq(Seq(Byte)) /\ Len(Found') = Len(Found) + 1
      /\ \A i \in 1 .. Len(Found) : Found'[i] = Found[i]
      /\ Found'[Len(Found) + 1] = p
  BY <1>3, <1>5, <1>6, AppendProperties
<1>8. IsPrefix(Found', packets')
  <2>1. Len(Found') <= Len(packets)
    BY <1>2, <1>3, <1>7
  <2>2. ASSUME NEW i \in 1 .. Len(Found') PROVE Found'[i] = packets[i]
    <3>1. CASE i = Len(Found) + 1
      BY <1>7, <3>1 DEF p
    <3>2. CASE i # Len(Found) + 1
      <4>1. i \in 1 .. Len(Found)
        <5>1. i \in 1 .. Len(Found) + 1 /\ Len(Found) \in Nat
          BY <1>3, <1>7
        <5> QED
          BY <3>2, <5>1
      <4> QED
        BY <1>3, <1>7, <4>1
    <3> QED
      BY <3>1, <3>2
  <2>3. IsPrefix(Found', packets)
    BY <1>3, <1>7, <2>1, <2>2, PrefixMeans
  <2> QED
    BY <1>4, <2>3
<1>9. Left' = Left - 1
  BY <1>3, <1>4, <1>7 DEF Left
<1>10. \E rest \in Seq(Byte) :
         Stream' \o rest = Wire(packets')[Left'] /\ (client' = "open" => rest = << >>)
  BY <1>2, <1>4, <1>9 DEF Stream
<1> QED
  BY <1>8, <1>10 DEF Lossless

LEMMA ParseEndsLossless ==
  ASSUME TypeOK, Lossless, ParseEnds
  PROVE  Lossless'
<1>1. /\ delivered' = delivered \o ready_frames /\ ready_frames' = << >>
      /\ UNCHANGED <<packets, unsent, client, pipe, server, recv_buffer>>
  BY DEF ParseEnds, clientVars
<1>2. Found \in Seq(Seq(Byte))
  BY FoundIs DEF Lossless
<1>3. Found' = Found \o << >>
  BY <1>1 DEF Found
<1>4. Found' = Found
  BY <1>2, <1>3, ConcatEmptySeq
<1>5. Left' = Left /\ Stream' = Stream /\ packets' = packets /\ server' = server
      /\ client' = client
  BY <1>1, <1>4 DEF Left, Stream
<1> QED
  BY <1>4, <1>5 DEF Lossless

\* The packets of a broken connection: those handed on before stay.
LEMMA BrokenLossless ==
  ASSUME TypeOK, Control, Lossless, ParseInvalid \/ HangUp
  PROVE  Lossless'
<1>1. /\ delivered' = delivered /\ ready_frames' = << >> /\ server' = "closed"
      /\ packets' = packets
  BY DEF ParseInvalid, HangUp, clientVars, Control
<1>2. /\ packets \in Seq(Seq(Byte)) /\ Len(packets) \in Nat /\ Len(Found) \in Nat
      /\ Len(Found) <= Len(packets) /\ \A i \in 1 .. Len(Found) : Found[i] = packets[i]
  BY FoundIs DEF Lossless
<1>3. delivered \in Seq(Seq(Byte)) /\ ready_frames \in Seq(Seq(Byte))
  BY DEF TypeOK
<1>4. Found' = delivered \o << >>
  BY <1>1 DEF Found
<1>5. Found' = delivered
  BY <1>3, <1>4, ConcatEmptySeq
<1>6. Len(delivered) <= Len(Found) /\ \A i \in 1 .. Len(delivered) : Found[i] = delivered[i]
  <2>1. Len(delivered) \in Nat /\ Len(ready_frames) \in Nat
    BY <1>3
  <2>2. Len(Found) = Len(delivered) + Len(ready_frames)
        /\ \A i \in 1 .. Len(delivered) + Len(ready_frames) : Found[i] =
             IF i <= Len(delivered) THEN delivered[i] ELSE ready_frames[i - Len(delivered)]
    BY <1>3, ConcatProperties DEF Found
  <2> QED
    BY <2>1, <2>2
<1>7. Len(delivered) <= Len(packets) /\ \A i \in 1 .. Len(delivered) : delivered[i] = packets[i]
  <2>1. Len(delivered) \in Nat
    BY <1>3
  <2> QED
    BY <1>2, <1>6, <2>1
<1>8. IsPrefix(delivered, packets)
  BY <1>2, <1>3, <1>7, PrefixMeans
<1> QED
  BY <1>1, <1>5, <1>8 DEF Lossless

LEMMA NextLossless == TypeOK /\ Control /\ Lossless /\ [Next]_vars => Control' /\ Lossless'
<1> SUFFICES ASSUME TypeOK, Control, Lossless, [Next]_vars PROVE Control' /\ Lossless'
  OBVIOUS
<1> USE DEF Control, NeverAViewer
<1>1. CASE SendPacket
  BY <1>1, SendPacketLossless DEF SendPacket, serverVars
<1>2. CASE SendFails \/ CloseConnection
  BY <1>2, ClientGoesLossless DEF SendFails, CloseConnection, serverVars
<1>3. ASSUME NEW n \in 1 .. Len(unsent), SendSome(n) PROVE Control' /\ Lossless'
  BY <1>3, SendSomeLossless DEF SendSome, serverVars
<1>4. ASSUME NEW n \in 1 .. Len(pipe), Read(n) PROVE Control' /\ Lossless'
  <2>1. Lossless'
    BY <1>4, ReadLossless
  <2>2. Control'
    BY <1>4 DEF Read, clientVars, TypeOK
  <2> QED
    BY <2>1, <2>2
<1>5. CASE Sniff
  <2>1. Lossless' /\ kind' # "viewer" /\ recv_buffer' = recv_buffer
    BY <1>5, SniffLossless
  <2>2. \/ gpc' = "wait" /\ kind' = kind
        \/ gpc' = "parse" /\ kind' = "producer"
    BY <1>5, <2>1, SniffDoes
  <2>3. Control'
    BY <1>5, <2>1, <2>2 DEF Sniff, clientVars
  <2> QED
    BY <2>1, <2>3
<1>6. CASE ParseFrame
  BY <1>6, ParseFrameLossless DEF ParseFrame, clientVars
<1>7. CASE ParseEnds
  BY <1>7, ParseEndsLossless DEF ParseEnds, clientVars
<1>8. CASE ParseInvalid \/ HangUp
  BY <1>8, BrokenLossless DEF ParseInvalid, HangUp, clientVars
<1>9. CASE UNCHANGED vars
  <2>1. Stream' = Stream /\ client' = client
    BY <1>9 DEF Stream, vars, clientVars, serverVars
  <2>2. UNCHANGED <<packets, delivered, ready_frames>> /\ server' = server
    BY <1>9 DEF vars, clientVars, serverVars
  <2>3. Lossless'
    BY <2>1, <2>2, MovedLossless
  <2> QED
    BY <1>9, <2>3 DEF vars, clientVars, serverVars
<1> QED
  BY <1>1, <1>2, <1>3, <1>4, <1>5, <1>6, <1>7, <1>8, <1>9 DEF Next, Client, Gateway, Quiet

LEMMA Inductive == Spec => [](TypeOK /\ Control /\ Lossless)
<1>1. Init => TypeOK /\ Control /\ Lossless
  BY InitTypeOK, InitLossless
<1>2. (TypeOK /\ Control /\ Lossless) /\ [Next]_vars => (TypeOK /\ Control /\ Lossless)'
  BY NextTypeOK, NextLossless
<1> QED
  BY <1>1, <1>2, PTL DEF Spec

\* As long as both ends are open, no byte is lost, doubled or moved: what is buffered,
\* in flight and unsent is exactly what remains of the packets not yet found
\* (FramedTcpClient::sendAll, TcpServer::handleProducerBytes).
THEOREM EveryByteArrives == Spec => []NoByteLost
<1>1. TypeOK /\ Control /\ Lossless => NoByteLost
  <2> SUFFICES ASSUME TypeOK, Lossless, client = "open", server = "open"
               PROVE  /\ IsPrefix(Found, packets)
                      /\ (recv_buffer \o pipe) \o unsent = Wire(packets)[Left]
    BY DEF NoByteLost, Found, Left
  <2>1. PICK rest \in Seq(Byte) : Stream \o rest = Wire(packets)[Left] /\ rest = << >>
    BY DEF Lossless
  <2>2. Stream \o << >> = Stream
    BY StreamBytes, ConcatEmptySeq
  <2> QED
    BY <2>1, <2>2 DEF Lossless, Stream
<1> QED
  BY <1>1, Inductive, PTL

\* The camera process is never taken for a viewer, however its first bytes arrive
\* (the recognition in TcpServer::start): a prefix is no GET.
THEOREM CameraIsNoViewer == Spec => []NeverAViewer
<1>1. TypeOK /\ Control /\ Lossless => NeverAViewer
  BY DEF Control
<1> QED
  BY <1>1, Inductive, PTL

-----------------------------------------------------------------------------
(* The channel of packets.                                                 *)

LEMMA InitChannel == Init => Channel!Init
BY DEF Init, Channel!Init

LEMMA NextChannel ==
  TypeOK /\ Control /\ Lossless /\ [Next]_vars => [Channel!Next]_(Channel!channelVars)
<1> SUFFICES ASSUME TypeOK, Control, Lossless, [Next]_vars
             PROVE  [Channel!Next]_(Channel!channelVars)
  OBVIOUS
<1> USE DEF Channel!channelVars
<1>1. CASE SendPacket
  <2>1. Channel!Hand
    BY <1>1 DEF SendPacket, serverVars, Channel!Hand
  <2> QED
    BY <2>1 DEF Channel!Next
<1>2. CASE UNCHANGED <<packets, delivered, server>>
  BY <1>2
<1>3. CASE ParseEnds
  <2>1. /\ delivered' = Found /\ packets' = packets /\ server' = server /\ server = "open"
    BY <1>3 DEF ParseEnds, clientVars, Found, Control
  <2>2. /\ delivered \in Seq(Seq(Byte)) /\ ready_frames \in Seq(Seq(Byte))
        /\ Len(delivered) \in Nat /\ Len(ready_frames) \in Nat
    BY DEF TypeOK
  <2>3. CASE ready_frames = << >>
    <3>1. Found = delivered
      BY <2>2, <2>3, ConcatEmptySeq DEF Found
    <3> QED
      BY <1>2, <2>1, <3>1
  <2>4. CASE ready_frames # << >>
    <3>1. Len(ready_frames) \in Nat \ {0}
      BY <2>2, <2>4, EmptySeq
    <3>2. Len(Found) = Len(delivered) + Len(ready_frames)
      BY <2>2, ConcatProperties DEF Found
    <3>3. /\ Found \in Seq(Seq(Byte)) /\ Len(packets) \in Nat
          /\ Len(Found) <= Len(packets)
      BY FoundIs DEF Lossless
    <3>4. Len(Found) \in Len(delivered) + 1 .. Len(packets)
      BY <2>2, <3>1, <3>2, <3>3
    <3>5. Found = SubSeq(packets, 1, Len(Found))
      BY <3>3, SubSeqFull DEF Lossless, IsPrefix
    <3>6. Channel!Deliver
      BY <2>1, <3>4, <3>5 DEF Channel!Deliver
    <3> QED
      BY <3>6 DEF Channel!Next
  <2> QED
    BY <2>3, <2>4
<1>4. CASE ParseInvalid \/ HangUp
  <2>1. Channel!Break
    BY <1>4 DEF ParseInvalid, HangUp, clientVars, Channel!Break
  <2> QED
    BY <2>1 DEF Channel!Next
<1>5. CASE SendFails \/ CloseConnection \/ Sniff \/ ParseFrame \/ UNCHANGED vars
  <2>1. UNCHANGED <<packets, delivered, server>>
    BY <1>5 DEF SendFails, CloseConnection, Sniff, ParseFrame, vars, clientVars, serverVars
  <2> QED
    BY <1>2, <2>1
<1>6. ASSUME NEW n \in 1 .. Len(unsent), SendSome(n) PROVE UNCHANGED <<packets, delivered, server>>
  BY <1>6 DEF SendSome, serverVars
<1>7. ASSUME NEW n \in 1 .. Len(pipe), Read(n) PROVE UNCHANGED <<packets, delivered, server>>
  BY <1>7 DEF Read, clientVars
<1> QED
  BY <1>1, <1>2, <1>3, <1>4, <1>5, <1>6, <1>7 DEF Next, Client, Gateway, Quiet

\* Seen from outside the two ends are a channel of whole packets, delivered in order and
\* once each until it breaks: FramedTcpClient and the reassembly implement FrameChannel.
THEOREM StreamIsAChannel == Spec => ImplementsFrameChannel
<1>1. TypeOK /\ Control /\ Lossless /\ [Next]_vars => [Channel!Next]_(Channel!channelVars)
  BY NextChannel
<1> QED
  BY <1>1, InitChannel, Inductive, PTL DEF Spec, ImplementsFrameChannel, Channel!Spec
=============================================================================
