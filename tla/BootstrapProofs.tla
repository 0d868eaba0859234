--------------------------- MODULE BootstrapProofs ---------------------------
(***************************************************************************)
(* Proofs about Bootstrap, for every set of NAL units that an encoder may  *)
(* make, packets of any length and any number of packets.                  *)
(*                                                                         *)
(* The bytes of a packet are laid out first, the start codes that a scan   *)
(* comes to are then found to be those of its NAL units, and the caches    *)
(* follow by induction over the packets.                                   *)
(***************************************************************************)
EXTENDS Bootstrap, WellFoundedInduction, TLAPS

-----------------------------------------------------------------------------
(* Sets of numbers.                                                        *)

\* A set of naturals that is not empty has a least element.
LEMMA LeastElement ==
  ASSUME NEW S \in SUBSET Nat, S # {}
  PROVE  \E x \in S : \A y \in S : x <= y
<1> DEFINE less == OpToRel(<, Nat)
<1>1. \A x, y \in Nat : <<x, y>> \in less <=> x < y
  BY DEF OpToRel
<1>2. IsWellFoundedOn(less, Nat)
  BY NatLessThanWellFounded
<1> HIDE DEF less
<1>3. PICK x \in S : \A y \in S : <<y, x>> \notin less
  BY <1>2, WFMin
<1>4. \A y \in S : x <= y
  <2> SUFFICES ASSUME NEW y \in S PROVE x <= y
    OBVIOUS
  <2>1. x \in Nat /\ y \in Nat /\ ~(y < x)
    BY <1>1, <1>3
  <2> QED
    BY <2>1
<1> QED
  BY <1>4

LEMMA MinIs ==
  ASSUME NEW S \in SUBSET Int, NEW x \in S, \A y \in S : x <= y
  PROVE  Min(S) = x
<1>1. \A z \in S : (\A y \in S : z <= y) => z = x
  OBVIOUS
<1> QED
  BY <1>1 DEF Min

LEMMA MaxIs ==
  ASSUME NEW S \in SUBSET Int, NEW x \in S, \A y \in S : x >= y
  PROVE  Max(S) = x
<1>1. \A z \in S : (\A y \in S : z >= y) => z = x
  OBVIOUS
<1> QED
  BY <1>1 DEF Max

-----------------------------------------------------------------------------
(* Sequences one after another.                                            *)

IsParts(seqs, f) ==
  f = [n \in 0 .. Len(seqs) |-> IF n = 0 THEN << >> ELSE f[n - 1] \o seqs[n]]

\* What the first n of the sequences make, for every n.
Parts(seqs) == CHOOSE f : IsParts(seqs, f)

LEMMA Joined ==
  ASSUME NEW T, NEW s \in Seq(T), NEW t \in Seq(T)
  PROVE  /\ s \o t \in Seq(T) /\ Len(s) \in Nat /\ Len(t) \in Nat
         /\ Len(s \o t) = Len(s) + Len(t)
         /\ \A i \in 1 .. Len(s) : (s \o t)[i] = s[i]
         /\ \A i \in 1 .. Len(t) : (s \o t)[Len(s) + i] = t[i]
  OBVIOUS

LEMMA SequenceOf ==
  ASSUME NEW T, NEW n \in Nat, NEW f \in [1 .. n -> T]
  PROVE  f \in Seq(T) /\ Len(f) = n
  OBVIOUS

LEMMA SameSequence ==
  ASSUME NEW T, NEW s \in Seq(T), NEW t \in Seq(T), Len(s) = Len(t),
         \A i \in 1 .. Len(s) : s[i] = t[i]
  PROVE  s = t
  OBVIOUS

\* The definition of Parts by recursion is sound.
LEMMA PartsExist ==
  ASSUME NEW T, NEW seqs \in Seq(Seq(T))
  PROVE  IsParts(seqs, Parts(seqs))
<1> DEFINE N == Len(seqs)
           next(prev, n) == prev \o seqs[n]
           Is(f, k) == f = [n \in 0 .. k |-> IF n = 0 THEN << >> ELSE next(f[n - 1], n)]
           Bad == {k \in 0 .. N : ~ \E f : Is(f, k)}
<1>1. N \in Nat
  OBVIOUS
<1>2. Bad = {}
  <2> SUFFICES ASSUME Bad # {} PROVE FALSE
    OBVIOUS
  <2>1. PICK k \in Bad : \A j \in Bad : k <= j
    <3>1. Bad \in SUBSET Nat
      <4> HIDE DEF Is
      <4> QED
        BY <1>1
    <3> HIDE DEF Bad
    <3> QED
      BY <3>1, LeastElement
  <2>2. CASE k = 0
    <3> DEFINE g == [n \in 0 .. 0 |-> << >>]
    <3>1. g = [n \in 0 .. 0 |-> IF n = 0 THEN << >> ELSE next(g[n - 1], n)]
      OBVIOUS
    <3>2. Is(g, k)
      BY <2>2, <3>1
    <3> QED
      BY <3>2
  <2>3. CASE k # 0
    <3>1. k \in 0 .. N /\ k - 1 \in 0 .. N /\ ~(k <= k - 1)
      BY <2>3
    <3>2. k - 1 \notin Bad
      <4> HIDE DEF Bad
      <4> QED
        BY <2>1, <3>1
    <3>3. PICK f : Is(f, k - 1)
      BY <3>1, <3>2
    <3> DEFINE g == [n \in 0 .. k |-> IF n = k THEN next(f[k - 1], k) ELSE f[n]]
    <3> HIDE DEF next
    <3>4. \A n \in 0 .. k - 1 : f[n] = IF n = 0 THEN << >> ELSE next(f[n - 1], n)
      BY <3>3
    <3>5. ASSUME NEW n \in 0 .. k PROVE g[n] = IF n = 0 THEN << >> ELSE next(g[n - 1], n)
      <4>1. CASE n = k
        <5>1. g[n] = next(f[k - 1], k) /\ g[k - 1] = f[k - 1]
          BY <3>1, <4>1
        <5> QED
          BY <2>3, <4>1, <5>1
      <4>2. CASE n # k
        <5>1. n \in 0 .. k - 1 /\ g[n] = f[n]
          BY <3>1, <4>2
        <5>2. n # 0 => g[n - 1] = f[n - 1]
          BY <3>1, <5>1
        <5> QED
          BY <3>4, <5>1, <5>2
      <4> QED
        BY <4>1, <4>2
    <3>6. g = [n \in 0 .. k |-> IF n = 0 THEN << >> ELSE next(g[n - 1], n)]
      <4>1. g = [n \in 0 .. k |-> g[n]]
        OBVIOUS
      <4> HIDE DEF g
      <4> QED
        BY <3>5, <4>1
    <3>7. Is(g, k)
      BY <3>6
    <3> QED
      BY <2>1, <3>7
  <2> QED
    BY <2>2, <2>3
<1>3. \E f : Is(f, N)
  <2> HIDE DEF Is
  <2> QED
    BY <1>1, <1>2
<1>4. \A f : Is(f, N) => IsParts(seqs, f)
  BY DEF IsParts
<1> HIDE DEF Is
<1> QED
  BY <1>3, <1>4 DEF Parts

LEMMA PartsAre ==
  ASSUME NEW T, NEW seqs \in Seq(Seq(T))
  PROVE  /\ Len(seqs) \in Nat
         /\ Parts(seqs)[0] = << >>
         /\ \A n \in 1 .. Len(seqs) : Parts(seqs)[n] = Parts(seqs)[n - 1] \o seqs[n]
         /\ \A n \in 0 .. Len(seqs) : Parts(seqs)[n] \in Seq(T)
<1> DEFINE N == Len(seqs)
           p == Parts(seqs)
<1>1. N \in Nat
  OBVIOUS
<1>2. \A n \in 0 .. N : p[n] = IF n = 0 THEN << >> ELSE p[n - 1] \o seqs[n]
  BY PartsExist DEF IsParts
<1> HIDE DEF p
<1>3. p[0] = << >> /\ \A n \in 1 .. N : p[n] = p[n - 1] \o seqs[n]
  <2>1. 0 \in 0 .. N /\ \A n \in 1 .. N : n \in 0 .. N /\ n # 0
    BY <1>1
  <2> HIDE DEF N
  <2> QED
    BY <1>2, <2>1, Zenon
<1>4. \A n \in 0 .. N : p[n] \in Seq(T)
  <2> DEFINE Bad == {n \in 0 .. N : p[n] \notin Seq(T)}
  <2> SUFFICES ASSUME Bad # {} PROVE FALSE
    OBVIOUS
  <2>1. Bad \in SUBSET Nat
    BY <1>1
  <2>2. PICK k \in Bad : \A j \in Bad : k <= j
    <3> HIDE DEF Bad
    <3> QED
      BY <2>1, LeastElement
  <2>3. k \in 0 .. N /\ p[k] \notin Seq(T)
    OBVIOUS
  <2>4. k # 0 /\ k \in 1 .. N
    <3>1. << >> \in Seq(T)
      OBVIOUS
    <3>2. k # 0
      BY <1>3, <2>3, <3>1
    <3> QED
      BY <1>1, <2>3, <3>2
  <2>5. k - 1 \in 0 .. N /\ k - 1 \notin Bad
    <3>1. k - 1 \in 0 .. N /\ ~(k <= k - 1)
      BY <2>4
    <3> HIDE DEF Bad
    <3> QED
      BY <2>2, <3>1
  <2>6. p[k - 1] \in Seq(T) /\ seqs[k] \in Seq(T)
    BY <2>4, <2>5
  <2>7. p[k] = p[k - 1] \o seqs[k]
    BY <1>3, <2>4
  <2> QED
    BY <2>3, <2>6, <2>7, Joined
<1> QED
  BY <1>1, <1>3, <1>4 DEF p

\* Each sequence is found in the result, right behind the one before it.
LEMMA PartsLast ==
  ASSUME NEW T, NEW seqs \in Seq(Seq(T)), NEW n \in 0 .. Len(seqs),
         NEW k \in 1 .. n
  PROVE  /\ Len(Parts(seqs)[k]) = Len(Parts(seqs)[k - 1]) + Len(seqs[k])
         /\ Len(Parts(seqs)[k]) <= Len(Parts(seqs)[n])
         /\ \A j \in 1 .. Len(seqs[k]) : Parts(seqs)[n][Len(Parts(seqs)[k - 1]) + j] = seqs[k][j]
<1> DEFINE N == Len(seqs)
           p == Parts(seqs)
           In(m) == /\ Len(p[k]) <= Len(p[m])
                    /\ \A j \in 1 .. Len(seqs[k]) : p[m][Len(p[k - 1]) + j] = seqs[k][j]
           Bad == {m \in k .. n : ~In(m)}
<1>1. /\ N \in Nat /\ \A m \in 1 .. N : p[m] = p[m - 1] \o seqs[m]
      /\ \A m \in 0 .. N : p[m] \in Seq(T)
  BY PartsAre
<1>0. \A m \in 1 .. N : seqs[m] \in Seq(T)
  OBVIOUS
<1> HIDE DEF p, N
<1>2. n \in 0 .. N /\ k \in 1 .. N /\ k - 1 \in 0 .. N
  BY <1>1 DEF N
<1>3. /\ Len(p[k]) = Len(p[k - 1]) + Len(seqs[k])
      /\ Len(p[k]) \in Nat /\ Len(p[k - 1]) \in Nat /\ Len(seqs[k]) \in Nat
      /\ In(k)
  <2> DEFINE s == p[k - 1]
             t == seqs[k]
  <2>1. p[k] = s \o t /\ s \in Seq(T) /\ t \in Seq(T)
    BY <1>0, <1>1, <1>2
  <2> HIDE DEF s, t
  <2>2. /\ Len(p[k]) = Len(s) + Len(t) /\ Len(s) \in Nat /\ Len(t) \in Nat
        /\ \A j \in 1 .. Len(t) : p[k][Len(s) + j] = t[j]
    BY <2>1, Joined
  <2>3. Len(p[k]) \in Nat /\ Len(p[k]) <= Len(p[k])
    BY <2>2
  <2> QED
    BY <2>2, <2>3 DEF s, t
<1>4. Bad = {}
  <2> SUFFICES ASSUME Bad # {} PROVE FALSE
    OBVIOUS
  <2>1. Bad \in SUBSET Nat
    BY <1>2
  <2>2. PICK m \in Bad : \A j \in Bad : m <= j
    <3> HIDE DEF Bad
    <3> QED
      BY <2>1, LeastElement
  <2>3. m \in k .. n /\ ~In(m)
    OBVIOUS
  <2>4. m # k /\ m \in 1 .. N /\ m - 1 \in 0 .. N
    <3> HIDE DEF In
    <3> QED
      BY <1>1, <1>2, <1>3, <2>3
  <2>5. In(m - 1)
    <3>1. m - 1 \in k .. n /\ ~(m <= m - 1)
      BY <2>3, <2>4
    <3>2. m - 1 \notin Bad
      <4> HIDE DEF Bad
      <4> QED
        BY <2>2, <3>1
    <3> HIDE DEF In
    <3> QED
      BY <3>1, <3>2
  <2> DEFINE s == p[m - 1]
             t == seqs[m]
  <2>6. p[m] = s \o t /\ s \in Seq(T) /\ t \in Seq(T)
    BY <1>0, <1>1, <2>4
  <2>7. /\ Len(p[k]) <= Len(s)
        /\ \A j \in 1 .. Len(seqs[k]) : s[Len(p[k - 1]) + j] = seqs[k][j]
    BY <2>5
  <2> HIDE DEF s, t
  <2>8. /\ Len(p[m]) = Len(s) + Len(t) /\ Len(s) \in Nat /\ Len(t) \in Nat
        /\ \A j \in 1 .. Len(s) : p[m][j] = s[j]
    BY <2>6, Joined
  <2> DEFINE a == Len(p[k - 1])
             b == Len(seqs[k])
  <2>9. a \in Nat /\ b \in Nat /\ Len(p[k]) = a + b /\ Len(p[k]) \in Nat
    BY <1>3
  <2>10. \A j \in 1 .. b : a + j \in 1 .. Len(s) /\ s[a + j] = seqs[k][j]
    <3> HIDE DEF a, b
    <3>1. \A j \in 1 .. b : a + j \in 1 .. Len(s)
      BY <2>7, <2>8, <2>9
    <3> QED
      BY <2>7, <3>1 DEF a, b
  <2>11. Len(p[k]) <= Len(p[m])
    <3> HIDE DEF a, b
    <3> QED
      BY <2>7, <2>8, <2>9
  <2>12. In(m)
    BY <2>8, <2>10, <2>11
  <2> QED
    BY <2>3, <2>12
<1>5. n \in k .. n
  BY <1>1
<1>6. In(n)
  BY <1>4, <1>5
<1> QED
  BY <1>3, <1>6 DEF p

LEMMA FlattenIs ==
  ASSUME NEW T, NEW seqs \in Seq(Seq(T))
  PROVE  FlattenSeq(seqs) = Parts(seqs)[Len(seqs)]
<1> DEFINE N == Len(seqs)
           p == Parts(seqs)
<1>1. /\ N \in Nat /\ p[0] = << >> /\ \A n \in 1 .. N : p[n] = p[n - 1] \o seqs[n]
      /\ \A n \in 0 .. N : p[n] \in Seq(T)
  BY PartsAre
<1>0. \A m \in 1 .. N : seqs[m] \in Seq(T)
  OBVIOUS
<1> HIDE DEF p
<1>2. CASE N = 0
  <2>1. seqs = << >>
    BY <1>2
  <2>2. FlattenSeq(seqs) = seqs
    BY <1>2 DEF FlattenSeq
  <2> QED
    BY <1>1, <1>2, <2>1, <2>2 DEF p
<1>3. CASE N # 0
  <2> DEFINE next(prev, n) == prev \o seqs[n]
             Is(f) == f = [i \in 1 .. N |-> IF i = 1 THEN seqs[i] ELSE next(f[i - 1], i)]
             fl == CHOOSE f : Is(f)
             g == [i \in 1 .. N |-> p[i]]
  <2>1. FlattenSeq(seqs) = fl[N]
    BY <1>3 DEF FlattenSeq
  <2>2. p[1] = seqs[1] /\ \A i \in 1 .. N : i # 1 => p[i] = next(p[i - 1], i)
    <3>1. 1 \in 1 .. N
      BY <1>1, <1>3
    <3>2. \A s \in Seq(T) : << >> \o s = s
      OBVIOUS
    <3>3. p[1] = p[0] \o seqs[1]
      <4>1. p[1] = p[1 - 1] \o seqs[1]
        BY <1>1, <3>1
      <4> QED
        BY <4>1
    <3> QED
      BY <1>0, <1>1, <3>1, <3>2, <3>3
  <2> HIDE DEF next
  <2>3. \A i \in 1 .. N : g[i] = IF i = 1 THEN seqs[i] ELSE next(g[i - 1], i)
    <3> TAKE i \in 1 .. N
    <3>1. g[i] = p[i] /\ (i # 1 => i - 1 \in 1 .. N /\ g[i - 1] = p[i - 1])
      BY <1>1
    <3> HIDE DEF g
    <3> QED
      BY <2>2, <3>1
  <2>4. Is(g)
    <3>1. g = [i \in 1 .. N |-> g[i]]
      OBVIOUS
    <3> HIDE DEF g
    <3> QED
      BY <2>3, <3>1
  <2>5. Is(fl)
    BY <2>4
  <2> HIDE DEF fl
  <2>6. \A i \in 1 .. N : fl[i] = IF i = 1 THEN seqs[i] ELSE next(fl[i - 1], i)
    BY <2>5
  <2> DEFINE Bad == {i \in 1 .. N : fl[i] # p[i]}
  <2>7. Bad = {}
    <3> SUFFICES ASSUME Bad # {} PROVE FALSE
      OBVIOUS
    <3>1. Bad \in SUBSET Nat
      BY <1>1
    <3>2. PICK k \in Bad : \A j \in Bad : k <= j
      <4> HIDE DEF Bad
      <4> QED
        BY <3>1, LeastElement
    <3>3. k \in 1 .. N /\ fl[k] # p[k]
      OBVIOUS
    <3>4. k # 1
      BY <2>2, <2>6, <3>3
    <3>5. k - 1 \in 1 .. N /\ k - 1 \notin Bad
      <4>1. k - 1 \in 1 .. N /\ ~(k <= k - 1)
        BY <3>3, <3>4
      <4> HIDE DEF Bad
      <4> QED
        BY <3>2, <4>1
    <3>6. fl[k - 1] = p[k - 1]
      BY <3>5
    <3> QED
      BY <2>2, <2>6, <3>3, <3>4, <3>6
  <2>8. N \in 1 .. N
    BY <1>1, <1>3
  <2> QED
    BY <2>1, <2>7, <2>8 DEF p
<1> QED
  BY <1>2, <1>3

-----------------------------------------------------------------------------
(* The bytes of a packet.                                                  *)

Byte == 0 .. 255

\* A NAL unit is its start code, the byte with its type and its payload.
LEMMA NalBytesAre ==
  ASSUME NEW nal \in Nals
  PROVE  /\ NalBytes(nal) \in Seq(Byte)
         /\ nal.code \in {3, 4} /\ nal.type \in 1 .. 31 /\ Len(nal.payload) \in Nat
         /\ Len(NalBytes(nal)) = nal.code + 1 + Len(nal.payload)
         /\ NalBytes(nal)[1] = 0 /\ NalBytes(nal)[2] = 0
         /\ nal.code = 3 => NalBytes(nal)[3] = 1
         /\ nal.code = 4 => NalBytes(nal)[3] = 0 /\ NalBytes(nal)[4] = 1
         /\ NalBytes(nal)[nal.code + 1] = 96 + nal.type
         /\ \A j \in 1 .. Len(nal.payload) : NalBytes(nal)[nal.code + 1 + j] = nal.payload[j]
<1> DEFINE code == IF nal.code = 3 THEN <<0, 0, 1>> ELSE <<0, 0, 0, 1>>
           head == code \o <<96 + nal.type>>
           payload == nal.payload
<1>1. nal.code \in {3, 4} /\ nal.type \in 1 .. 31 /\ payload \in Seq(Byte)
  BY NalsAssumption DEF Byte
<1>2. 0 \in Byte /\ 1 \in Byte /\ 96 + nal.type \in Byte
  <2>1. \A t \in 1 .. 31 : 96 + t \in 0 .. 255
    OBVIOUS
  <2>2. 0 \in 0 .. 255 /\ 1 \in 0 .. 255
    OBVIOUS
  <2>3. nal.type \in 1 .. 31
    BY <1>1
  <2> QED
    BY <2>1, <2>2, <2>3 DEF Byte
<1>3. /\ code \in Seq(Byte) /\ Len(code) = nal.code /\ code[1] = 0 /\ code[2] = 0
      /\ nal.code = 3 => code[3] = 1
      /\ nal.code = 4 => code[3] = 0 /\ code[4] = 1
  BY <1>1, <1>2
<1> DEFINE type == <<96 + nal.type>>
<1>4. type \in Seq(Byte) /\ Len(type) = 1 /\ type[1] = 96 + nal.type
  BY <1>2
<1> HIDE DEF code, type
<1>5. /\ head \in Seq(Byte) /\ Len(head) = nal.code + 1
      /\ \A i \in 1 .. nal.code : head[i] = code[i]
      /\ head[nal.code + 1] = 96 + nal.type
  <2>1. head = code \o type
    BY DEF type
  <2> HIDE DEF head
  <2>2. /\ head \in Seq(Byte) /\ Len(head) = Len(code) + Len(type)
        /\ \A i \in 1 .. Len(code) : head[i] = code[i]
        /\ \A i \in 1 .. Len(type) : head[Len(code) + i] = type[i]
    BY <1>3, <1>4, <2>1, Joined
  <2>3. 1 \in 1 .. Len(type)
    BY <1>4
  <2> QED
    BY <1>3, <1>4, <2>2, <2>3
<1>6. NalBytes(nal) = head \o payload
  BY DEF NalBytes, code
<1> HIDE DEF head, payload
<1>7. /\ NalBytes(nal) \in Seq(Byte) /\ Len(NalBytes(nal)) = nal.code + 1 + Len(payload)
      /\ Len(payload) \in Nat
      /\ \A i \in 1 .. nal.code + 1 : NalBytes(nal)[i] = head[i]
      /\ \A j \in 1 .. Len(payload) : NalBytes(nal)[nal.code + 1 + j] = payload[j]
  <2>1. /\ NalBytes(nal) \in Seq(Byte) /\ Len(NalBytes(nal)) = Len(head) + Len(payload)
        /\ Len(payload) \in Nat
        /\ \A i \in 1 .. Len(head) : NalBytes(nal)[i] = head[i]
        /\ \A j \in 1 .. Len(payload) : NalBytes(nal)[Len(head) + j] = payload[j]
    <3>1. head \in Seq(Byte) /\ payload \in Seq(Byte)
      BY <1>1, <1>5
    <3> QED
      BY <1>6, <3>1, Joined
  <2> QED
    BY <1>5, <2>1
<1>8. \A i \in 1 .. nal.code : NalBytes(nal)[i] = code[i]
  BY <1>1, <1>5, <1>7
<1>9. /\ 1 \in 1 .. nal.code /\ 2 \in 1 .. nal.code /\ 3 \in 1 .. nal.code
      /\ nal.code = 4 => 4 \in 1 .. nal.code
      /\ nal.code + 1 \in 1 .. nal.code + 1
  BY <1>1
<1> QED
  BY <1>1, <1>3, <1>5, <1>7, <1>8, <1>9 DEF payload

\* No start code begins in what comes after the type of a NAL unit, whatever follows it.
LEMMA NoCodeInside ==
  ASSUME NEW nal \in Nals, NEW j \in nal.code + 2 .. Len(NalBytes(nal))
  PROVE  LET b == NalBytes(nal) IN
         /\ j = Len(b) => b[j] # 0
         /\ j + 1 = Len(b) => b[j + 1] # 0
         /\ j + 2 <= Len(b) /\ b[j] = 0 /\ b[j + 1] = 0 => b[j + 2] > 2
<1> DEFINE b == NalBytes(nal)
           p == nal.payload
           c == nal.code + 1
           n == Len(p)
<1>1. /\ c \in 4 .. 5 /\ n \in Nat /\ Len(b) = c + n
      /\ \A i \in 1 .. n : b[c + i] = p[i]
  <2> DEFINE t == nal.code
  <2>1. /\ t \in {3, 4} /\ n \in Nat /\ Len(b) = t + 1 + n
        /\ \A i \in 1 .. n : b[t + 1 + i] = p[i]
    BY NalBytesAre
  <2> HIDE DEF t, b, p, n
  <2>2. t + 1 \in 4 .. 5
    BY <2>1
  <2> QED
    BY <2>1, <2>2 DEF t
<1>2. \A i \in 1 .. n : /\ i = n => p[i] # 0
                        /\ i > 2 /\ p[i - 1] = 0 /\ p[i - 2] = 0 => p[i] > 2
  BY NalsAssumption
<1>3. j \in c + 1 .. c + n
  BY <1>1, NalBytesAre
<1> HIDE DEF b, p, c, n
<1> DEFINE i == j - c
<1>4. i \in 1 .. n /\ j = c + i /\ b[j] = p[i]
  <2>1. i \in 1 .. n /\ j = c + i
    BY <1>1, <1>3
  <2> HIDE DEF i
  <2> QED
    BY <1>1, <2>1
<1> HIDE DEF i
<1>5. j = Len(b) => b[j] # 0
  <2>1. j = Len(b) => i = n
    BY <1>1, <1>4
  <2> QED
    BY <1>2, <1>4, <2>1
<1>6. j + 1 = Len(b) => b[j + 1] # 0
  <2> SUFFICES ASSUME j + 1 = Len(b) PROVE b[j + 1] # 0
    OBVIOUS
  <2>1. i + 1 = n /\ i + 1 \in 1 .. n /\ j + 1 = c + (i + 1)
    BY <1>1, <1>4
  <2> QED
    BY <1>1, <1>2, <2>1
<1>7. j + 2 <= Len(b) /\ b[j] = 0 /\ b[j + 1] = 0 => b[j + 2] > 2
  <2> SUFFICES ASSUME j + 2 <= Len(b), b[j] = 0, b[j + 1] = 0 PROVE b[j + 2] > 2
    OBVIOUS
  <2>1. /\ i + 1 \in 1 .. n /\ j + 1 = c + (i + 1)
        /\ i + 2 \in 1 .. n /\ j + 2 = c + (i + 2) /\ i + 2 > 2
        /\ (i + 2) - 1 = i + 1 /\ (i + 2) - 2 = i
    BY <1>1, <1>4
  <2>2. p[i] = 0 /\ p[i + 1] = 0 /\ b[j + 2] = p[i + 2]
    BY <1>1, <1>4, <2>1
  <2> QED
    BY <1>2, <2>1, <2>2
<1> QED
  BY <1>5, <1>6, <1>7 DEF b

Pieces(packet) == [i \in 1 .. Len(packet) |-> NalBytes(packet[i])]

\* The position of the last byte of the NAL unit k in the bytes of its packet.
Off(packet, k) == Len(Parts(Pieces(packet))[k])

LEMMA BytesAre ==
  ASSUME NEW packet \in Seq(Nals)
  PROVE  /\ Len(packet) \in Nat /\ Bytes(packet) \in Seq(Byte) /\ Len(Bytes(packet)) \in Nat
         /\ Off(packet, 0) = 0 /\ Off(packet, Len(packet)) = Len(Bytes(packet))
         /\ \A k \in 0 .. Len(packet) : Off(packet, k) \in Nat
         /\ \A k \in 1 .. Len(packet) :
              /\ Off(packet, k) = Off(packet, k - 1) + Len(NalBytes(packet[k]))
              /\ Off(packet, k) <= Len(Bytes(packet))
              /\ \A j \in 1 .. Len(NalBytes(packet[k])) :
                   Bytes(packet)[Off(packet, k - 1) + j] = NalBytes(packet[k])[j]
<1> DEFINE ps == Pieces(packet)
           m == Len(packet)
<1>1. m \in Nat /\ \A k \in 1 .. m : packet[k] \in Nals
  OBVIOUS
<1>2. \A k \in 1 .. m : NalBytes(packet[k]) \in Seq(Byte)
  BY <1>1, NalBytesAre
<1>3. ps \in Seq(Seq(Byte)) /\ Len(ps) = m /\ \A k \in 1 .. m : ps[k] = NalBytes(packet[k])
  BY <1>1, <1>2 DEF Pieces
<1>4. Bytes(packet) = FlattenSeq(ps)
  BY DEF Bytes, Pieces
<1> HIDE DEF ps, m
<1>5. Bytes(packet) = Parts(ps)[m]
  BY <1>3, <1>4, FlattenIs
<1>6. Parts(ps)[0] = << >> /\ \A k \in 0 .. m : Parts(ps)[k] \in Seq(Byte)
  BY <1>3, PartsAre
<1>7. \A k : Off(packet, k) = Len(Parts(ps)[k])
  BY DEF Off, ps
<1>8. \A s \in Seq(Byte) : Len(s) \in Nat
  OBVIOUS
<1>9. \A k \in 0 .. m : Off(packet, k) \in Nat
  BY <1>6, <1>7, <1>8
<1>10. Off(packet, 0) = 0
  <2>1. Len(<< >>) = 0
    OBVIOUS
  <2> QED
    BY <1>6, <1>7, <2>1
<1>11. ASSUME NEW k \in 1 .. m
       PROVE  /\ Off(packet, k) = Off(packet, k - 1) + Len(NalBytes(packet[k]))
              /\ Off(packet, k) <= Len(Bytes(packet))
              /\ \A j \in 1 .. Len(NalBytes(packet[k])) :
                   Bytes(packet)[Off(packet, k - 1) + j] = NalBytes(packet[k])[j]
  <2>1. m \in 0 .. Len(ps) /\ k \in 1 .. m
    BY <1>1, <1>3
  <2>2. /\ Len(Parts(ps)[k]) = Len(Parts(ps)[k - 1]) + Len(ps[k])
        /\ Len(Parts(ps)[k]) <= Len(Parts(ps)[m])
        /\ \A j \in 1 .. Len(ps[k]) : Parts(ps)[m][Len(Parts(ps)[k - 1]) + j] = ps[k][j]
    BY <1>3, <2>1, PartsLast
  <2> QED
    BY <1>3, <1>5, <1>7, <2>2
<1>12. Bytes(packet) \in Seq(Byte) /\ Len(Bytes(packet)) \in Nat
       /\ Off(packet, m) = Len(Bytes(packet))
  <2>1. m \in 0 .. m
    BY <1>1
  <2> QED
    BY <1>5, <1>6, <1>7, <1>8, <2>1
<1> QED
  BY <1>1, <1>9, <1>10, <1>11, <1>12 DEF m

-----------------------------------------------------------------------------
(* The scan.                                                               *)

\* Where a NAL unit of the packet begins the scan sees its start code and its type.
LEMMA AtStart ==
  ASSUME NEW packet \in Seq(Nals), NEW k \in 1 .. Len(packet)
  PROVE  LET data == Bytes(packet)
             start == Off(packet, k - 1) + 1
         IN  /\ start \in 1 .. Len(data) - 3 /\ StartCodeAt(data, start)
             /\ packet[k] \in Nals /\ packet[k].code \in {3, 4}
             /\ NalIndex(data, start) = start + packet[k].code
             /\ NalIndex(data, start) <= Off(packet, k)
             /\ NalType(data, start) = packet[k].type
<1> DEFINE data == Bytes(packet)
           o == Off(packet, k - 1)
           nal == packet[k]
           b == NalBytes(nal)
           c == nal.code
           n == Len(nal.payload)
<1>1. nal \in Nals /\ k - 1 \in 0 .. Len(packet) /\ k \in 0 .. Len(packet)
  OBVIOUS
<1>2. /\ Len(data) \in Nat /\ o \in Nat
      /\ Off(packet, k) = o + Len(b) /\ Off(packet, k) <= Len(data)
      /\ \A j \in 1 .. Len(b) : data[o + j] = b[j]
  BY <1>1, BytesAre
<1>3. /\ c \in {3, 4} /\ nal.type \in 1 .. 31 /\ n \in Nat /\ Len(b) = c + 1 + n
      /\ b[1] = 0 /\ b[2] = 0
      /\ c = 3 => b[3] = 1
      /\ c = 4 => b[3] = 0 /\ b[4] = 1
      /\ b[c + 1] = 96 + nal.type
  BY <1>1, NalBytesAre
<1> HIDE DEF data, o, b, n, c
<1>4. o + 1 \in 1 .. Len(data) - 3 /\ o + 1 + c <= Off(packet, k)
  <2> DEFINE l == Len(b)
             e == Off(packet, k)
             N == Len(data)
  <2>1. /\ o \in Nat /\ N \in Nat /\ e = o + l /\ e <= N
        /\ c \in {3, 4} /\ n \in Nat /\ l = c + 1 + n
    BY <1>2, <1>3
  <2> HIDE DEF l, e, N
  <2>2. o + 1 \in 1 .. N - 3 /\ o + 1 + c <= e
    BY <2>1
  <2> QED
    BY <2>2 DEF e, N
<1>5. /\ data[o + 1] = 0 /\ data[o + 2] = 0 /\ data[o + 3] = b[3] /\ data[o + 4] = b[4]
      /\ data[o + (c + 1)] = 96 + nal.type
  <2>1. 1 \in 1 .. Len(b) /\ 2 \in 1 .. Len(b) /\ 3 \in 1 .. Len(b) /\ 4 \in 1 .. Len(b)
        /\ c + 1 \in 1 .. Len(b)
    BY <1>3
  <2> QED
    BY <1>2, <1>3, <2>1
<1>6. /\ o + 1 + 1 = o + 2 /\ o + 1 + 2 = o + 3 /\ o + 1 + 3 = o + 4
      /\ o + 1 + c = o + (c + 1)
  BY <1>2, <1>3
<1>7. StartCodeAt(data, o + 1)
  BY <1>3, <1>5, <1>6 DEF StartCodeAt
<1>8. PrefixLen(data, o + 1) = c
  BY <1>3, <1>5, <1>6 DEF PrefixLen
<1>9. NalIndex(data, o + 1) = o + 1 + c
  BY <1>8 DEF NalIndex
<1>10. NalType(data, o + 1) = nal.type
  <2>1. \A t \in 1 .. 31 : (96 + t) % 32 = t
    OBVIOUS
  <2>2. NalType(data, o + 1) = (96 + nal.type) % 32
    BY <1>5, <1>6, <1>9 DEF NalType
  <2> QED
    BY <1>3, <2>1, <2>2
<1> QED
  BY <1>1, <1>3, <1>4, <1>7, <1>9, <1>10 DEF data, o, c

\* Behind the type of a NAL unit no start code begins before the next one's, also where
\* the zeros of the payload and those of the next start code meet.
LEMMA NothingInside ==
  ASSUME NEW packet \in Seq(Nals), NEW k \in 1 .. Len(packet),
         NEW i \in Off(packet, k - 1) + packet[k].code + 2 .. Off(packet, k)
  PROVE  ~StartCodeAt(Bytes(packet), i)
<1> DEFINE data == Bytes(packet)
           o == Off(packet, k - 1)
           nal == packet[k]
           b == NalBytes(nal)
           c == nal.code
           j == i - o
<1>1. nal \in Nals /\ k - 1 \in 0 .. Len(packet) /\ k \in 0 .. Len(packet)
  OBVIOUS
<1>2. /\ o \in Nat /\ Off(packet, k) = o + Len(b)
      /\ \A l \in 1 .. Len(b) : data[o + l] = b[l]
  BY <1>1, BytesAre
<1>3. c \in {3, 4} /\ Len(b) \in Nat /\ b \in Seq(Byte)
  BY <1>1, NalBytesAre
<1>4. j \in c + 2 .. Len(b) /\ i = o + j
  <2> DEFINE l == Len(b)
  <2>1. o \in Nat /\ l \in Nat /\ c \in {3, 4} /\ i \in o + c + 2 .. o + l
    BY <1>2, <1>3
  <2> HIDE DEF o, c, l
  <2>2. i - o \in c + 2 .. l /\ i = o + (i - o)
    BY <2>1
  <2> QED
    BY <2>2 DEF l
<1>5. /\ j = Len(b) => b[j] # 0
      /\ j + 1 = Len(b) => b[j + 1] # 0
      /\ j + 2 <= Len(b) /\ b[j] = 0 /\ b[j + 1] = 0 => b[j + 2] > 2
  BY <1>1, <1>4, NoCodeInside
<1> HIDE DEF data, o, b, c, j
<1>6. data[i] = b[j]
  <2>1. j \in 1 .. Len(b)
    BY <1>3, <1>4
  <2> QED
    BY <1>2, <1>4, <2>1
<1>7. j + 1 <= Len(b) => data[i + 1] = b[j + 1]
  <2> SUFFICES ASSUME j + 1 <= Len(b) PROVE data[i + 1] = b[j + 1]
    OBVIOUS
  <2>1. j + 1 \in 1 .. Len(b) /\ i + 1 = o + (j + 1)
    BY <1>2, <1>3, <1>4
  <2> QED
    BY <1>2, <2>1
<1>8. j + 2 <= Len(b) => data[i + 2] = b[j + 2]
  <2> SUFFICES ASSUME j + 2 <= Len(b) PROVE data[i + 2] = b[j + 2]
    OBVIOUS
  <2>1. j + 2 \in 1 .. Len(b) /\ i + 2 = o + (j + 2)
    BY <1>2, <1>3, <1>4
  <2> QED
    BY <1>2, <2>1
<1>9. j = Len(b) \/ j + 1 = Len(b) \/ j + 2 <= Len(b)
  BY <1>3, <1>4
<1>10. SUFFICES ASSUME StartCodeAt(data, i) PROVE FALSE
  BY DEF data
<1>11. data[i] = 0 /\ data[i + 1] = 0 /\ data[i + 2] \in {0, 1}
  BY <1>10 DEF StartCodeAt
<1>12. j # Len(b)
  BY <1>5, <1>6, <1>11
<1>13. j + 1 # Len(b)
  <2> SUFFICES ASSUME j + 1 = Len(b) PROVE FALSE
    OBVIOUS
  <2>1. j + 1 <= Len(b)
    BY <1>3
  <2> QED
    BY <1>5, <1>7, <1>11, <2>1
<1>14. j + 2 <= Len(b) /\ j + 1 <= Len(b)
  BY <1>3, <1>4, <1>9, <1>12, <1>13
<1>15. b[j + 2] > 2 /\ b[j + 2] \in {0, 1}
  BY <1>5, <1>6, <1>7, <1>8, <1>11, <1>14
<1> QED
  BY <1>15

\* Where the scan goes on behind the NAL unit k.
After(packet, k) == IF k = 0 THEN 1 ELSE Off(packet, k - 1) + packet[k].code + 2

\* From there it finds the next NAL unit of the packet, and nothing after the last one.
LEMMA FindsNext ==
  ASSUME NEW packet \in Seq(Nals), NEW k \in 0 .. Len(packet)
  PROVE  /\ After(packet, k) \in 1 .. Off(packet, k) + 1
         /\ FindStartCode(Bytes(packet), After(packet, k))
              = IF k = Len(packet) THEN 0 ELSE Off(packet, k) + 1
<1> DEFINE data == Bytes(packet)
           N == Len(data)
           m == Len(packet)
           from == After(packet, k)
           o == Off(packet, k)
           found == {i \in from .. N - 3 : StartCodeAt(data, i)}
<1>1. m \in Nat /\ N \in Nat /\ o \in Nat /\ Off(packet, 0) = 0 /\ Off(packet, m) = N
  BY BytesAre
<1>2. from \in 1 .. o + 1 /\ \A i \in from .. o : ~StartCodeAt(data, i)
  <2>1. CASE k = 0
    <3>1. from = 1 /\ o = 0
      BY <1>1, <2>1 DEF After
    <3> QED
      BY <3>1
  <2>2. CASE k # 0
    <3>1. k \in 1 .. m /\ k - 1 \in 0 .. m
      BY <1>1, <2>2
    <3>2. Off(packet, k - 1) \in Nat
      BY <3>1, BytesAre
    <3>3. packet[k].code \in {3, 4} /\ Off(packet, k - 1) + 1 + packet[k].code <= o
      BY <3>1, AtStart
    <3>4. from = Off(packet, k - 1) + packet[k].code + 2
      BY <2>2 DEF After
    <3>5. from \in 1 .. o + 1
      <4> DEFINE c == packet[k].code
                 a == Off(packet, k - 1)
      <4> HIDE DEF from, o, c, a
      <4>1. c \in {3, 4} /\ a \in Nat /\ a + 1 + c <= o /\ from = a + c + 2 /\ o \in Nat
        BY <1>1, <3>2, <3>3, <3>4 DEF c, a
      <4> QED
        BY <4>1
    <3>6. \A i \in from .. o : ~StartCodeAt(data, i)
      BY <3>1, <3>4, NothingInside
    <3> QED
      BY <3>5, <3>6
  <2> QED
    BY <2>1, <2>2
<1>3. FindStartCode(data, from) = IF found = {} THEN 0 ELSE Min(found)
  BY DEF FindStartCode
<1>4. CASE k = m
  <2>1. o = N
    BY <1>1, <1>4
  <2>2. found = {}
    <3> HIDE DEF from, o, N
    <3>1. from .. N - 3 \subseteq from .. o
      BY <1>1, <1>2, <2>1
    <3> QED
      BY <1>2, <3>1
  <2> QED
    BY <1>2, <1>3, <1>4, <2>2
<1>5. CASE k # m
  <2>1. k + 1 \in 1 .. m /\ (k + 1) - 1 = k
    BY <1>1, <1>5
  <2>2. o + 1 \in 1 .. N - 3 /\ StartCodeAt(data, o + 1)
    BY <2>1, AtStart
  <2> HIDE DEF from, o, N, data
  <2>3. o + 1 \in found
    BY <1>1, <1>2, <2>2
  <2>4. \A i \in found : o + 1 <= i
    <3> SUFFICES ASSUME NEW i \in found, i < o + 1 PROVE FALSE
      BY <1>1, <1>2
    <3>1. i \in from .. o
      BY <1>1, <1>2
    <3> QED
      BY <1>2, <3>1
  <2>5. found \in SUBSET Int
    BY <1>1, <1>2
  <2> HIDE DEF found
  <2>6. Min(found) = o + 1 /\ found # {}
    BY <2>3, <2>4, <2>5, MinIs
  <2> QED
    BY <1>2, <1>3, <1>5, <2>6 DEF from, o, N, data
<1> QED
  BY <1>4, <1>5

\* A search that finds a start code goes on farther right, so a scan ends.
LEMMA FindsForward ==
  ASSUME NEW data \in Seq(Byte), NEW i \in 1 .. Len(data) + 1,
         FindStartCode(data, i) # 0, NalIndex(data, FindStartCode(data, i)) <= Len(data)
  PROVE  NalIndex(data, FindStartCode(data, i)) + 1 \in i + 1 .. Len(data) + 1
<1> DEFINE N == Len(data)
           found == {j \in i .. N - 3 : StartCodeAt(data, j)}
           start == FindStartCode(data, i)
<1>1. N \in Nat
  OBVIOUS
<1>2. start = Min(found) /\ found # {}
  BY DEF FindStartCode
<1>3. start \in i .. N
  <2>1. found \in SUBSET Nat
    BY <1>1
  <2>2. \A j \in found : j \in i .. N
    BY <1>1
  <2> HIDE DEF found, start
  <2>3. PICK x \in found : \A y \in found : x <= y
    BY <1>2, <2>1, LeastElement
  <2>4. Min(found) = x
    <3>1. found \in SUBSET Int
      BY <2>1
    <3> QED
      BY <2>3, <3>1, MinIs
  <2> QED
    BY <1>2, <2>2, <2>4
<1> HIDE DEF start
<1>4. NalIndex(data, start) \in {start + 3, start + 4}
  BY DEF NalIndex, PrefixLen
<1>5. NalIndex(data, start) <= N
  BY DEF start
<1> HIDE DEF N
<1>6. NalIndex(data, start) + 1 \in i + 1 .. N + 1
  BY <1>1, <1>3, <1>4, <1>5
<1> QED
  BY <1>6 DEF start, N

Ends(data, i) ==
  FindStartCode(data, i) = 0 \/ NalIndex(data, FindStartCode(data, i)) > Len(data)

\* The start codes found from position i on, by those found from farther positions on.
Scanned(data, f, i) ==
  IF Ends(data, i) THEN << >>
  ELSE <<FindStartCode(data, i)>> \o f[NalIndex(data, FindStartCode(data, i)) + 1]

\* The definition of Starts by recursion is sound.
LEMMA ScanExists ==
  ASSUME NEW data \in Seq(Byte)
  PROVE  \E f : /\ \A i \in 1 .. Len(data) + 1 : f[i] = Scanned(data, f, i)
                /\ Starts(data) = f[1]
<1> DEFINE N == Len(data)
           Is(f, d) == f = [i \in N + 2 - d .. N + 1 |-> Scanned(data, f, i)]
           Bad == {d \in 0 .. N + 1 : ~ \E f : Is(f, d)}
<1>1. N \in Nat
  OBVIOUS
<1>2. \A i \in 1 .. N + 1 : ~Ends(data, i) =>
        NalIndex(data, FindStartCode(data, i)) + 1 \in i + 1 .. N + 1
  <2> SUFFICES ASSUME NEW i \in 1 .. N + 1, ~Ends(data, i)
               PROVE  NalIndex(data, FindStartCode(data, i)) + 1 \in i + 1 .. N + 1
    OBVIOUS
  <2>1. FindStartCode(data, i) # 0 /\ ~(NalIndex(data, FindStartCode(data, i)) > N)
    BY DEF Ends
  <2>2. NalIndex(data, FindStartCode(data, i)) \in Int
    <3> DEFINE found == {j \in i .. N - 3 : StartCodeAt(data, j)}
               start == FindStartCode(data, i)
    <3>1. start = Min(found) /\ found # {}
      BY <2>1 DEF FindStartCode
    <3>2. found \in SUBSET Nat
      BY <1>1
    <3> HIDE DEF found, start
    <3>3. PICK x \in found : \A y \in found : x <= y
      BY <3>1, <3>2, LeastElement
    <3>4. start \in Int
      <4>1. found \in SUBSET Int
        BY <3>2
      <4> QED
        BY <3>1, <3>2, <3>3, <4>1, MinIs
    <3>5. PrefixLen(data, start) \in Int
      BY DEF PrefixLen
    <3>6. NalIndex(data, start) \in Int
      BY <3>4, <3>5 DEF NalIndex
    <3> QED
      BY <3>6 DEF start
  <2>3. NalIndex(data, FindStartCode(data, i)) <= N
    BY <1>1, <2>1, <2>2
  <2> QED
    BY <2>1, <2>3, FindsForward
<1> HIDE DEF N
<1>3. Bad = {}
  <2> SUFFICES ASSUME Bad # {} PROVE FALSE
    OBVIOUS
  <2>1. PICK d \in Bad : \A e \in Bad : d <= e
    <3>1. Bad \in SUBSET Nat
      <4> HIDE DEF Is
      <4> QED
        BY <1>1
    <3> HIDE DEF Bad
    <3> QED
      BY <3>1, LeastElement
  <2>2. d \in 0 .. N + 1 /\ ~ \E f : Is(f, d)
    OBVIOUS
  <2>3. CASE d = 0
    <3> DEFINE g == [i \in N + 2 .. N + 1 |-> << >>]
    <3>1. N + 2 .. N + 1 = {} /\ N + 2 - 0 = N + 2
      BY <1>1
    <3>2. g = [i \in N + 2 .. N + 1 |-> Scanned(data, g, i)]
      BY <3>1
    <3>3. Is(g, d)
      BY <2>3, <3>1, <3>2
    <3> QED
      BY <2>2, <3>3
  <2>4. CASE d # 0
    <3>1. d - 1 \in 0 .. N + 1 /\ ~(d <= d - 1)
      BY <1>1, <2>2, <2>4
    <3>2. d - 1 \notin Bad
      <4> HIDE DEF Bad
      <4> QED
        BY <2>1, <3>1
    <3>3. PICK f : Is(f, d - 1)
      <4> HIDE DEF Is
      <4> QED
        BY <3>1, <3>2
    <3> DEFINE k == N + 2 - d
               g == [i \in k .. N + 1 |-> IF i = k THEN Scanned(data, f, k) ELSE f[i]]
    <3>4. k \in 1 .. N + 1 /\ N + 2 - (d - 1) = k + 1
      BY <1>1, <2>2, <2>4
    <3>5. \A i \in k + 1 .. N + 1 : f[i] = Scanned(data, f, i)
      BY <3>3, <3>4
    <3>6. ASSUME NEW i \in k .. N + 1 PROVE g[i] = Scanned(data, g, i)
      <4> DEFINE next == NalIndex(data, FindStartCode(data, i)) + 1
      <4>1. Scanned(data, g, i) = Scanned(data, f, i)
        <5>1. CASE Ends(data, i)
          BY <5>1 DEF Scanned
        <5>2. CASE ~Ends(data, i)
          <6> HIDE DEF k
          <6>1. i \in 1 .. N + 1
            BY <1>1, <3>4
          <6>2. next \in i + 1 .. N + 1
            BY <1>2, <5>2, <6>1
          <6> HIDE DEF next
          <6>3. next \in k .. N + 1 /\ next # k
            BY <1>1, <3>4, <6>2
          <6>4. g[next] = f[next]
            BY <6>3
          <6> HIDE DEF g
          <6> QED
            BY <5>2, <6>4 DEF Scanned, next
        <5> QED
          BY <5>1, <5>2
      <4>2. g[i] = Scanned(data, f, i)
        <5>1. CASE i = k
          BY <5>1
        <5>2. CASE i # k
          <6>1. g[i] = f[i]
            BY <5>2
          <6> HIDE DEF k
          <6>2. i \in k + 1 .. N + 1
            BY <1>1, <3>4, <5>2
          <6> QED
            BY <3>5, <6>1, <6>2
        <5> QED
          BY <5>1, <5>2
      <4> QED
        BY <4>1, <4>2
    <3>7. g = [i \in k .. N + 1 |-> Scanned(data, g, i)]
      <4>1. g = [i \in k .. N + 1 |-> g[i]]
        OBVIOUS
      <4> HIDE DEF g
      <4> QED
        BY <3>6, <4>1
    <3>8. Is(g, d)
      BY <3>7
    <3> QED
      BY <2>2, <3>8
  <2> QED
    BY <2>3, <2>4
<1>4. \E f : Is(f, N + 1)
  <2>1. N + 1 \in 0 .. N + 1
    BY <1>1
  <2> HIDE DEF Is
  <2> QED
    BY <1>3, <2>1
<1> DEFINE Scan(f) == f = [i \in 1 .. N + 1 |-> Scanned(data, f, i)]
           scan == CHOOSE f : Scan(f)
<1>5. \E f : Scan(f)
  <2>1. N + 2 - (N + 1) = 1
    BY <1>1
  <2> QED
    BY <1>4, <2>1
<1>6. Starts(data) = scan[1]
  BY DEF Starts, Scanned, Ends, N
<1>7. Scan(scan)
  <2> HIDE DEF Scan
  <2> QED
    BY <1>5
<1> HIDE DEF scan
<1>8. \A i \in 1 .. N + 1 : scan[i] = Scanned(data, scan, i)
  BY <1>7
<1> QED
  BY <1>6, <1>8 DEF N

\* The scan comes to the NAL units of the packet, all of them and in order.
LEMMA StartsAre ==
  ASSUME NEW packet \in Seq(Nals)
  PROVE  Starts(Bytes(packet)) = [i \in 1 .. Len(packet) |-> Off(packet, i - 1) + 1]
<1> DEFINE data == Bytes(packet)
           m == Len(packet)
           o(k) == Off(packet, k)
           from(k) == [i \in 1 .. m - k |-> o(k + i - 1) + 1]
<1>1. /\ m \in Nat /\ data \in Seq(Byte) /\ Len(data) \in Nat /\ o(0) = 0 /\ o(m) = Len(data)
      /\ \A k \in 0 .. m : o(k) \in Nat
      /\ \A k \in 1 .. m : o(k) <= Len(data)
  BY BytesAre
<1>2. PICK f : /\ \A i \in 1 .. Len(data) + 1 : f[i] = Scanned(data, f, i)
               /\ Starts(data) = f[1]
  BY <1>1, ScanExists
<1> DEFINE Bad == {d \in 0 .. m : f[After(packet, m - d)] # from(m - d)}
<1>3. \A k \in 0 .. m : After(packet, k) \in 1 .. Len(data) + 1
  <2> TAKE k \in 0 .. m
  <2>1. After(packet, k) \in 1 .. o(k) + 1
    BY FindsNext
  <2>2. o(k) <= Len(data) /\ o(k) \in Nat
    BY <1>1
  <2> HIDE DEF o, data, m
  <2> QED
    BY <1>1, <2>1, <2>2
<1>4. Bad = {}
  <2> SUFFICES ASSUME Bad # {} PROVE FALSE
    OBVIOUS
  <2>1. PICK d \in Bad : \A e \in Bad : d <= e
    <3> HIDE DEF from
    <3>1. Bad \in SUBSET Nat
      BY <1>1
    <3> HIDE DEF Bad
    <3> QED
      BY <3>1, LeastElement
  <2> DEFINE k == m - d
  <2>2. d \in 0 .. m /\ f[After(packet, k)] # from(k)
    OBVIOUS
  <2>3. k \in 0 .. m
    BY <1>1, <2>2
  <2>4. f[After(packet, k)] = Scanned(data, f, After(packet, k))
    BY <1>2, <1>3, <2>3
  <2>5. CASE d = 0
    <3>1. k = m
      BY <1>1, <2>5
    <3>2. FindStartCode(data, After(packet, k)) = 0
      BY <2>3, <3>1, FindsNext
    <3>3. Scanned(data, f, After(packet, k)) = << >>
      BY <3>2 DEF Scanned, Ends
    <3>4. from(m) = << >>
      <4>1. 1 .. m - m = {}
        BY <1>1
      <4> QED
        BY <4>1
    <3> QED
      BY <2>2, <2>4, <3>1, <3>3, <3>4
  <2>6. CASE d # 0
    <3>1. k + 1 \in 1 .. m /\ k + 1 \in 0 .. m /\ m - (d - 1) = k + 1 /\ (k + 1) - 1 = k /\ k # m
      BY <1>1, <2>2, <2>6
    <3>2. f[After(packet, k + 1)] = from(k + 1)
      <4>1. d - 1 \in 0 .. m /\ ~(d <= d - 1)
        BY <1>1, <2>2, <2>6
      <4>2. d - 1 \notin Bad
        <5> HIDE DEF Bad
        <5> QED
          BY <2>1, <4>1
      <4> HIDE DEF from
      <4> QED
        BY <3>1, <4>1, <4>2
    <3> HIDE DEF k
    <3>3. FindStartCode(data, After(packet, k)) = o(k) + 1
      BY <2>3, <3>1, FindsNext
    <3>4. /\ o(k) + 1 # 0
          /\ packet[k + 1].code \in {3, 4}
          /\ NalIndex(data, o(k) + 1) = o(k) + 1 + packet[k + 1].code
          /\ NalIndex(data, o(k) + 1) <= Len(data)
      <4>1. /\ packet[k + 1].code \in {3, 4}
            /\ NalIndex(data, o(k) + 1) = o(k) + 1 + packet[k + 1].code
            /\ NalIndex(data, o(k) + 1) <= o(k + 1)
        BY <3>1, AtStart
      <4>2. o(k) \in Nat /\ o(k + 1) \in Nat /\ o(k + 1) <= Len(data)
        BY <1>1, <2>3, <3>1
      <4> DEFINE c == packet[k + 1].code
                 x == NalIndex(data, o(k) + 1)
      <4> HIDE DEF o, data, c, x
      <4>3. c \in {3, 4} /\ x = o(k) + 1 + c /\ x <= o(k + 1)
        BY <4>1 DEF c, x
      <4>4. o(k) + 1 # 0 /\ x <= Len(data)
        BY <1>1, <4>2, <4>3
      <4> QED
        BY <4>1, <4>4 DEF c, x
    <3>5. ~Ends(data, After(packet, k))
      <4> DEFINE x == NalIndex(data, o(k) + 1)
      <4>1. x \in Int
        <5>1. o(k) \in Nat
          BY <1>1, <2>3
        <5> HIDE DEF o
        <5>2. \A c \in {3, 4} : o(k) + 1 + c \in Int
          BY <5>1
        <5> QED
          BY <3>4, <5>2
      <4>2. x <= Len(data)
        BY <3>4
      <4> HIDE DEF x
      <4>3. ~(x > Len(data))
        BY <1>1, <4>1, <4>2
      <4> QED
        BY <3>3, <3>4, <4>3 DEF Ends, x
    <3>6. NalIndex(data, o(k) + 1) + 1 = After(packet, k + 1)
      <4> DEFINE c == packet[k + 1].code
      <4>1. After(packet, k + 1) = o(k) + c + 2
        BY <2>3, <3>1 DEF After
      <4>2. o(k) \in Nat /\ c \in {3, 4}
        BY <1>1, <2>3, <3>4
      <4> HIDE DEF o, c
      <4>3. o(k) + 1 + c + 1 = o(k) + c + 2
        BY <4>2
      <4> QED
        BY <3>4, <4>1, <4>3 DEF c
    <3>7. f[After(packet, k)] = <<o(k) + 1>> \o from(k + 1)
      BY <2>4, <3>2, <3>3, <3>5, <3>6 DEF Scanned
    <3>8. from(k) = <<o(k) + 1>> \o from(k + 1)
      <4> DEFINE a == <<o(k) + 1>>
                 b == from(k + 1)
                 c == from(k)
      <4>1. \A l \in 0 .. m : o(l) + 1 \in Nat
        BY <1>1
      <4> HIDE DEF o
      <4>2. m - k \in Nat /\ m - (k + 1) \in Nat /\ m - k = 1 + (m - (k + 1))
        BY <1>1, <2>3, <3>1
      <4>3. c \in Seq(Nat) /\ Len(c) = m - k
        <5>1. \A i \in 1 .. m - k : k + i - 1 \in 0 .. m
          BY <1>1, <2>3
        <5>2. c \in [1 .. m - k -> Nat]
          BY <4>1, <5>1
        <5> QED
          BY <4>2, <5>2, SequenceOf
      <4>4. b \in Seq(Nat) /\ Len(b) = m - (k + 1)
        <5>1. \A i \in 1 .. m - (k + 1) : (k + 1) + i - 1 \in 0 .. m
          BY <1>1, <2>3
        <5>2. b \in [1 .. m - (k + 1) -> Nat]
          BY <4>1, <5>1
        <5> DEFINE n == m - (k + 1)
        <5>3. n \in Nat /\ b \in [1 .. n -> Nat]
          BY <4>2, <5>2
        <5> HIDE DEF n, b
        <5>4. b \in Seq(Nat) /\ Len(b) = n
          BY <5>3, SequenceOf
        <5> QED
          BY <5>4 DEF n
      <4>5. a \in Seq(Nat) /\ Len(a) = 1 /\ a[1] = o(k) + 1
        BY <2>3, <4>1
      <4>6. c[1] = a[1]
        <5>1. 1 \in 1 .. m - k /\ k + 1 - 1 = k
          BY <2>3, <4>2
        <5> QED
          BY <4>5, <5>1
      <4>7. \A i \in 1 .. m - (k + 1) : c[1 + i] = b[i]
        <5> TAKE i \in 1 .. m - (k + 1)
        <5>1. 1 + i \in 1 .. m - k /\ k + (1 + i) - 1 = (k + 1) + i - 1
          BY <2>3, <4>2
        <5> QED
          BY <5>1
      <4> HIDE DEF a, b, c
      <4>8. c = a \o b
        <5>1. /\ a \o b \in Seq(Nat) /\ Len(a \o b) = Len(c)
              /\ (a \o b)[1] = a[1] /\ \A i \in 1 .. Len(b) : (a \o b)[1 + i] = b[i]
          <6>1. 1 \in 1 .. Len(a)
            BY <4>5
          <6>2. /\ a \o b \in Seq(Nat) /\ Len(a \o b) = Len(a) + Len(b)
                /\ \A i \in 1 .. Len(a) : (a \o b)[i] = a[i]
                /\ \A i \in 1 .. Len(b) : (a \o b)[Len(a) + i] = b[i]
            <7>1. a \in Seq(Nat) /\ b \in Seq(Nat)
              BY <4>4, <4>5
            <7> QED
              BY <7>1, Joined
          <6>3. Len(a) + Len(b) = Len(c)
            BY <4>2, <4>3, <4>4, <4>5
          <6> HIDE DEF m
          <6> QED
            BY <4>5, <6>1, <6>2, <6>3
        <5>2. \A i \in 1 .. Len(c) : c[i] = (a \o b)[i]
          <6> SUFFICES ASSUME NEW i \in 1 .. Len(c) PROVE c[i] = (a \o b)[i]
            OBVIOUS
          <6>1. CASE i = 1
            BY <4>6, <5>1, <6>1
          <6>2. CASE i # 1
            <7>1. i - 1 \in 1 .. m - (k + 1) /\ 1 + (i - 1) = i
              BY <4>2, <4>3, <6>2
            <7>2. c[i] = b[i - 1]
              BY <4>7, <7>1
            <7>3. (a \o b)[i] = b[i - 1]
              <8>1. i - 1 \in 1 .. Len(b)
                BY <4>4, <7>1
              <8>2. (a \o b)[1 + (i - 1)] = b[i - 1]
                BY <5>1, <8>1
              <8> QED
                BY <7>1, <8>2
            <7> QED
              BY <7>2, <7>3
          <6> QED
            BY <6>1, <6>2
        <5> QED
          BY <4>3, <5>1, <5>2, SameSequence
      <4> QED
        BY <4>8 DEF a, b, c
    <3> QED
      BY <2>2, <3>7, <3>8 DEF k
  <2> QED
    BY <2>5, <2>6
<1>5. f[After(packet, 0)] = from(0)
  <2>1. m \in 0 .. m /\ m - m = 0
    BY <1>1
  <2> HIDE DEF from
  <2> QED
    BY <1>4, <2>1
<1>6. from(0) = [i \in 1 .. m |-> o(i - 1) + 1]
  <2>1. m - 0 = m /\ \A i \in 1 .. m : 0 + i - 1 = i - 1
    BY <1>1
  <2> QED
    BY <2>1
<1> QED
  BY <1>2, <1>5, <1>6 DEF After

-----------------------------------------------------------------------------
(* What the scan takes from a packet.                                      *)

Config == {Sps, Pps, Sei}

\* The bytes of the NAL units of a packet that belong to the configuration.
ConfigPieces(packet) ==
  [i \in 1 .. Len(packet) |->
     IF packet[i].type \in Config THEN NalBytes(packet[i]) ELSE << >>]

LEMMA SubSeqIs ==
  ASSUME NEW T, NEW s \in Seq(T), NEW t \in Seq(T), NEW a \in Nat,
         a + Len(t) <= Len(s), \A j \in 1 .. Len(t) : s[a + j] = t[j]
  PROVE  SubSeq(s, a + 1, a + Len(t)) = t
<1> DEFINE n == Len(t)
           u == SubSeq(s, a + 1, a + n)
<1>1. n \in Nat /\ Len(s) \in Nat
  OBVIOUS
<1> HIDE DEF n
<1>2. u = [i \in 1 .. n |-> s[a + i]]
  <2>1. u = [i \in 1 .. (1 + (a + n) - (a + 1)) |-> s[i + (a + 1) - 1]]
    BY <1>1
  <2>2. 1 + (a + n) - (a + 1) = n /\ \A i \in 1 .. n : i + (a + 1) - 1 = a + i
    BY <1>1
  <2> QED
    BY <2>1, <2>2
<1> HIDE DEF u
<1>3. \A i \in 1 .. n : u[i] = t[i]
  BY <1>2 DEF n
<1>4. t = [i \in 1 .. n |-> t[i]] /\ u = [i \in 1 .. n |-> u[i]]
  BY <1>2 DEF n
<1> QED
  BY <1>3, <1>4 DEF n, u

\* From one start code to the byte before the next one is one NAL unit, whole.
LEMMA UnitIsCut ==
  ASSUME NEW packet \in Seq(Nals), NEW k \in 1 .. Len(packet)
  PROVE  LET data == Bytes(packet)
             start == Off(packet, k - 1) + 1
         IN  SubSeq(data, start, NalEnd(data, start)) = NalBytes(packet[k])
<1> DEFINE data == Bytes(packet)
           o == Off(packet, k - 1)
           b == NalBytes(packet[k])
           e == Off(packet, k)
           m == Len(packet)
<1>1. /\ k - 1 \in 0 .. m /\ k \in 0 .. m /\ k # 0 /\ packet[k] \in Nals /\ m \in Nat
  OBVIOUS
<1>2. /\ data \in Seq(Byte) /\ Len(data) \in Nat /\ o \in Nat /\ e \in Nat
      /\ Off(packet, m) = Len(data)
      /\ e = o + Len(b) /\ e <= Len(data)
      /\ \A j \in 1 .. Len(b) : data[o + j] = b[j]
  BY <1>1, BytesAre
<1>3. b \in Seq(Byte)
  BY <1>1, NalBytesAre
<1>4. NalIndex(data, o + 1) + 1 = After(packet, k)
  <2> DEFINE c == packet[k].code
  <2>1. NalIndex(data, o + 1) = o + 1 + c /\ c \in {3, 4}
    BY AtStart
  <2>2. After(packet, k) = o + c + 2
    BY <1>1 DEF After
  <2> HIDE DEF o, c
  <2>3. o + 1 + c + 1 = o + c + 2
    BY <1>2, <2>1
  <2> QED
    BY <2>1, <2>2, <2>3
<1>5. FindStartCode(data, After(packet, k)) = IF k = m THEN 0 ELSE e + 1
  BY <1>1, FindsNext
<1>6. NalEnd(data, o + 1) = e
  <2>1. NalEnd(data, o + 1) =
          IF FindStartCode(data, After(packet, k)) = 0 THEN Len(data)
          ELSE FindStartCode(data, After(packet, k)) - 1
    BY <1>4 DEF NalEnd
  <2>2. CASE k = m
    BY <1>2, <1>5, <2>1, <2>2
  <2>3. CASE k # m
    <3>1. e \in Nat
      BY <1>2
    <3>2. FindStartCode(data, After(packet, k)) = e + 1
      BY <1>5, <2>3
    <3> HIDE DEF e, data
    <3>3. e + 1 # 0 /\ e + 1 - 1 = e
      BY <3>1
    <3> QED
      BY <3>1, <2>1, <3>2, <3>3
  <2> QED
    BY <2>2, <2>3
<1> HIDE DEF data, o, b, e
<1>7. SubSeq(data, o + 1, o + Len(b)) = b
  BY <1>2, <1>3, SubSeqIs
<1> QED
  BY <1>2, <1>6, <1>7 DEF data, o, b

\* The configuration is the parameter sets and SEI units, whole and in order.
LEMMA ExtractIs ==
  ASSUME NEW packet \in Seq(Nals)
  PROVE  ExtractBootstrapConfig(Bytes(packet)) = FlattenSeq(ConfigPieces(packet))
<1> DEFINE data == Bytes(packet)
           m == Len(packet)
           piece(i) == LET start == Starts(data)[i] IN
                       IF NalType(data, start) \in {Sps, Pps, Sei}
                       THEN SubSeq(data, start, NalEnd(data, start)) ELSE << >>
<1>1. Starts(data) = [i \in 1 .. m |-> Off(packet, i - 1) + 1]
  BY StartsAre
<1>2. Len(Starts(data)) = m
  <2>1. m \in Nat
    OBVIOUS
  <2> HIDE DEF m, data
  <2> QED
    BY <1>1, <2>1
<1>3. ASSUME NEW i \in 1 .. m
      PROVE  piece(i) = IF packet[i].type \in Config THEN NalBytes(packet[i]) ELSE << >>
  <2> DEFINE start == Off(packet, i - 1) + 1
  <2>1. Starts(data)[i] = start
    BY <1>1
  <2>2. NalType(data, start) = packet[i].type
    BY AtStart
  <2>3. SubSeq(data, start, NalEnd(data, start)) = NalBytes(packet[i])
    BY UnitIsCut
  <2> HIDE DEF start, data
  <2> QED
    BY <2>1, <2>2, <2>3 DEF Config
<1>4. ExtractBootstrapConfig(data) = FlattenSeq([i \in 1 .. m |-> piece(i)])
  <2> HIDE DEF m
  <2> QED
    BY <1>2 DEF ExtractBootstrapConfig
<1> HIDE DEF piece
<1>5. [i \in 1 .. m |-> piece(i)] = ConfigPieces(packet)
  BY <1>3 DEF ConfigPieces
<1> QED
  BY <1>4, <1>5

LEMMA ContainsIs ==
  ASSUME NEW packet \in Seq(Nals), NEW type
  PROVE  ContainsNalType(Bytes(packet), type) <=> Carries(packet, {type})
<1> DEFINE data == Bytes(packet)
           m == Len(packet)
<1>1. Starts(data) = [i \in 1 .. m |-> Off(packet, i - 1) + 1]
  BY StartsAre
<1>2. Len(Starts(data)) = m
  <2>1. m \in Nat
    OBVIOUS
  <2> HIDE DEF m, data
  <2> QED
    BY <1>1, <2>1
<1>3. \A i \in 1 .. m : NalType(data, Starts(data)[i]) = packet[i].type
  <2> TAKE i \in 1 .. m
  <2>1. Starts(data)[i] = Off(packet, i - 1) + 1
    BY <1>1
  <2> QED
    BY <2>1, AtStart
<1> HIDE DEF data, m
<1>4. ContainsNalType(data, type) <=> \E i \in 1 .. m : packet[i].type = type
  BY <1>2, <1>3 DEF ContainsNalType
<1> QED
  BY <1>4 DEF Carries, data, m

\* What is taken for the configuration is not empty exactly if the packet carries any.
LEMMA ConfigFound ==
  ASSUME NEW packet \in Seq(Nals)
  PROVE  FlattenSeq(ConfigPieces(packet)) # << >> <=> Carries(packet, Config)
<1> DEFINE ps == ConfigPieces(packet)
           m == Len(packet)
           p == Parts(ps)
<1>1. m \in Nat /\ \A i \in 1 .. m : packet[i] \in Nals
  OBVIOUS
<1>2. \A i \in 1 .. m : NalBytes(packet[i]) \in Seq(Byte) /\ Len(NalBytes(packet[i])) > 0
  <2> TAKE i \in 1 .. m
  <2> DEFINE nal == packet[i]
             c == nal.code
             n == Len(nal.payload)
             l == Len(NalBytes(nal))
  <2>1. c \in {3, 4} /\ n \in Nat /\ l = c + 1 + n /\ NalBytes(nal) \in Seq(Byte)
    BY <1>1, NalBytesAre
  <2> HIDE DEF c, n, l
  <2>2. l > 0
    BY <2>1
  <2> QED
    BY <2>1, <2>2 DEF l
<1>3. << >> \in Seq(Byte)
  OBVIOUS
<1>4. /\ ps \in [1 .. m -> Seq(Byte)]
      /\ \A i \in 1 .. m : ps[i] = IF packet[i].type \in Config THEN NalBytes(packet[i]) ELSE << >>
  BY <1>2, <1>3 DEF ConfigPieces
<1> HIDE DEF ps, p, m
<1>5. ps \in Seq(Seq(Byte)) /\ Len(ps) = m
  BY <1>1, <1>4, SequenceOf
<1>6. FlattenSeq(ps) = p[m]
  BY <1>5, FlattenIs DEF p
<1>7. /\ p[0] = << >> /\ \A n \in 0 .. m : p[n] \in Seq(Byte)
      /\ \A n \in 1 .. m : p[n] = p[n - 1] \o ps[n]
  BY <1>5, PartsAre DEF p
<1>8. ASSUME NEW k \in 1 .. m, packet[k].type \in Config PROVE p[m] # << >>
  <2>1. m \in 0 .. Len(ps) /\ k \in 1 .. m /\ k - 1 \in 0 .. m /\ k \in 0 .. m
    BY <1>1, <1>5
  <2>2. Len(p[k]) = Len(p[k - 1]) + Len(ps[k]) /\ Len(p[k]) <= Len(p[m])
    BY <1>5, <2>1, PartsLast DEF p
  <2>3. Len(p[k - 1]) \in Nat /\ Len(p[m]) \in Nat /\ Len(p[k]) \in Nat
    <3>1. p[k - 1] \in Seq(Byte) /\ p[m] \in Seq(Byte) /\ p[k] \in Seq(Byte)
      BY <1>1, <1>5, <1>7, <2>1
    <3> QED
      BY <3>1
  <2>4. Len(ps[k]) > 0 /\ Len(ps[k]) \in Nat
    <3>1. ps[k] = NalBytes(packet[k])
      BY <1>4, <1>8
    <3> QED
      BY <1>2, <3>1
  <2> DEFINE a == Len(p[k - 1])
             b == Len(ps[k])
             c == Len(p[k])
             d == Len(p[m])
  <2> HIDE DEF a, b, c, d
  <2>0. d > 0
    <3>1. a \in Nat /\ b \in Nat /\ b > 0 /\ c = a + b /\ c <= d /\ d \in Nat
      BY <2>2, <2>3, <2>4 DEF a, b, c, d
    <3> QED
      BY <3>1
  <2>5. Len(p[m]) > 0
    BY <2>0 DEF d
  <2>6. Len(<< >>) = 0
    OBVIOUS
  <2> QED
    BY <2>5, <2>6
<1>9. ASSUME \A k \in 1 .. m : packet[k].type \notin Config PROVE p[m] = << >>
  <2> DEFINE Bad == {n \in 0 .. m : p[n] # << >>}
  <2>1. Bad = {}
    <3> SUFFICES ASSUME Bad # {} PROVE FALSE
      OBVIOUS
    <3>1. PICK n \in Bad : \A i \in Bad : n <= i
      <4>1. Bad \in SUBSET Nat
        BY <1>1
      <4> HIDE DEF Bad
      <4> QED
        BY <4>1, LeastElement
    <3>2. n \in 0 .. m /\ p[n] # << >> /\ n # 0
      BY <1>7
    <3>3. n \in 1 .. m /\ n - 1 \in 0 .. m /\ ~(n <= n - 1)
      BY <1>1, <3>2
    <3>4. n - 1 \notin Bad
      <4> HIDE DEF Bad
      <4> QED
        BY <3>1, <3>3
    <3>5. p[n] = << >> \o << >>
      BY <1>4, <1>7, <1>9, <3>3, <3>4
    <3>6. << >> \o << >> = << >>
      OBVIOUS
    <3> QED
      BY <3>2, <3>5, <3>6
  <2> QED
    BY <1>1, <2>1
<1>10. p[m] # << >> <=> \E k \in 1 .. m : packet[k].type \in Config
  BY <1>8, <1>9
<1> QED
  BY <1>6, <1>10 DEF Carries, ps, m

-----------------------------------------------------------------------------
(* The caches.                                                             *)

\* LastWith for any sequence of packets.
LastOf(packets, types) ==
  LET found == {i \in 1 .. Len(packets) : Carries(packets[i], types)} IN
  IF found = {} THEN << >> ELSE packets[Max(found)]

\* A packet that carries such a NAL unit is the last one that does, until another comes.
LEMMA LastOfAppended ==
  ASSUME NEW T, NEW packets \in Seq(T), NEW packet \in T, NEW types
  PROVE  LastOf(Append(packets, packet), types)
           = IF Carries(packet, types) THEN packet ELSE LastOf(packets, types)
<1> DEFINE n == Len(packets)
           more == Append(packets, packet)
           found == {i \in 1 .. n : Carries(packets[i], types)}
           then == {i \in 1 .. n + 1 : Carries(more[i], types)}
<1>1. /\ n \in Nat /\ Len(more) = n + 1 /\ more[n + 1] = packet
      /\ \A i \in 1 .. n : more[i] = packets[i]
  OBVIOUS
<1>2. LastOf(more, types) = IF then = {} THEN << >> ELSE more[Max(then)]
  <2> HIDE DEF more, n
  <2> QED
    BY <1>1 DEF LastOf
<1>3. LastOf(packets, types) = IF found = {} THEN << >> ELSE packets[Max(found)]
  BY DEF LastOf
<1> HIDE DEF more, n
<1>4. CASE Carries(packet, types)
  <2>1. n + 1 \in then /\ then \in SUBSET Int /\ \A i \in then : n + 1 >= i
    BY <1>1, <1>4
  <2> HIDE DEF then
  <2>2. Max(then) = n + 1
    BY <2>1, MaxIs
  <2> QED
    BY <1>1, <1>2, <1>4, <2>1, <2>2 DEF more
<1>5. CASE ~Carries(packet, types)
  <2>1. then = found
    <3>1. \A i \in 1 .. n + 1 : i \in 1 .. n \/ i = n + 1
      BY <1>1
    <3>2. \A i \in 1 .. n : i \in 1 .. n + 1
      BY <1>1
    <3> QED
      BY <1>1, <1>5, <3>1, <3>2
  <2>2. ASSUME found # {} PROVE Max(found) \in 1 .. n
    <3> DEFINE below == {n - i : i \in found}
    <3>1. below \in SUBSET Nat /\ below # {}
      BY <1>1, <2>2
    <3> HIDE DEF below
    <3>2. PICK x \in below : \A y \in below : x <= y
      BY <3>1, LeastElement
    <3>3. PICK i \in found : x = n - i
      BY DEF below
    <3>4. \A j \in found : n - j \in below
      BY DEF below
    <3>5. i \in 1 .. n /\ \A j \in found : j \in 1 .. n
      OBVIOUS
    <3> HIDE DEF found
    <3>6. \A j \in found : i >= j
      <4> SUFFICES ASSUME NEW j \in found PROVE i >= j
        OBVIOUS
      <4>1. n - i <= n - j /\ j \in 1 .. n
        BY <3>2, <3>3, <3>4, <3>5
      <4> QED
        BY <1>1, <3>5, <4>1
    <3>7. Max(found) = i
      <4>1. found \in SUBSET Int
        BY <3>5
      <4> QED
        BY <3>3, <3>6, <4>1, MaxIs
    <3> QED
      BY <3>5, <3>7
  <2> HIDE DEF found, then
  <2> QED
    BY <1>1, <1>2, <1>3, <1>5, <2>1, <2>2 DEF more
<1> QED
  BY <1>4, <1>5 DEF more

\* The caches are those of the packets so far: CachesExact, and what the packets are made of.
Kept ==
  /\ received \in Seq(Seq(Nals))
  /\ bootstrap_config = FlattenSeq(ConfigPieces(LastOf(received, Config)))
  /\ bootstrap_frame = Bytes(LastOf(received, {Idr}))

LEMMA NothingOfNothing ==
  ASSUME NEW types
  PROVE  /\ LastOf(<< >>, types) = << >>
         /\ FlattenSeq(ConfigPieces(<< >>)) = << >> /\ Bytes(<< >>) = << >>
<1>1. Len(<< >>) = 0 /\ 1 .. 0 = {}
  OBVIOUS
<1>2. LastOf(<< >>, types) = << >>
  BY <1>1 DEF LastOf
<1>3. << >> \in Seq(Nals) /\ ~Carries(<< >>, Config)
  BY <1>1 DEF Carries
<1>4. FlattenSeq(ConfigPieces(<< >>)) = << >>
  BY <1>3, ConfigFound
<1>5. Bytes(<< >>) = << >>
  <2>1. Bytes(<< >>) \in Seq(Byte) /\ Len(Bytes(<< >>)) = 0
    BY <1>1, <1>3, BytesAre
  <2> QED
    BY <2>1
<1> QED
  BY <1>2, <1>4, <1>5

LEMMA KeptInductive == Spec => []Kept
<1>1. Init => Kept
  <2> SUFFICES ASSUME Init PROVE Kept
    OBVIOUS
  <2>1. received = << >> /\ bootstrap_config = << >> /\ bootstrap_frame = << >>
    BY DEF Init
  <2>2. << >> \in Seq(Seq(Nals))
    OBVIOUS
  <2> QED
    BY <2>1, <2>2, NothingOfNothing DEF Kept
<1>2. Kept /\ [Next]_vars => Kept'
  <2> SUFFICES ASSUME Kept, [Next]_vars PROVE Kept'
    OBVIOUS
  <2>1. CASE UNCHANGED vars
    BY <2>1 DEF Kept, vars
  <2>2. ASSUME NEW packet \in Packets, HandleCompleteFrame(packet) PROVE Kept'
    <3> DEFINE config == ExtractBootstrapConfig(Bytes(packet))
    <3>1. packet \in Seq(Nals)
      BY PacketsAssumption
    <3>2. /\ received' = Append(received, packet)
          /\ bootstrap_config' = IF config # << >> THEN config ELSE bootstrap_config
          /\ bootstrap_frame' = IF ContainsNalType(Bytes(packet), Idr)
                                THEN Bytes(packet) ELSE bootstrap_frame
      BY <2>2 DEF HandleCompleteFrame
    <3>3. \A types : LastOf(received', types)
                       = IF Carries(packet, types) THEN packet ELSE LastOf(received, types)
      BY <3>1, <3>2, LastOfAppended DEF Kept
    <3>4. received' \in Seq(Seq(Nals))
      BY <3>1, <3>2 DEF Kept
    <3>5. bootstrap_config' = FlattenSeq(ConfigPieces(LastOf(received', Config)))
      <4>1. config = FlattenSeq(ConfigPieces(packet))
        BY <3>1, ExtractIs
      <4>2. config # << >> <=> Carries(packet, Config)
        BY <3>1, <4>1, ConfigFound
      <4> QED
        BY <3>2, <3>3, <4>1, <4>2 DEF Kept
    <3>6. bootstrap_frame' = Bytes(LastOf(received', {Idr}))
      <4>1. ContainsNalType(Bytes(packet), Idr) <=> Carries(packet, {Idr})
        BY <3>1, ContainsIs
      <4> QED
        BY <3>2, <3>3, <4>1 DEF Kept
    <3> QED
      BY <3>4, <3>5, <3>6 DEF Kept
  <2> QED
    BY <2>1, <2>2 DEF Next
<1> QED
  BY <1>1, <1>2, PTL DEF Spec

\* Whatever NAL units the packets are made of, the gateway's caches are the parameter sets
\* and SEI units of the last packet that had any and the last packet with an IDR slice:
\* handleCompleteFrame neither misses nor invents a NAL unit (TcpServer.cpp).
THEOREM CachesAreExact == Spec => []CachesExact
<1>1. Kept => CachesExact
  <2> SUFFICES ASSUME Kept PROVE CachesExact
    OBVIOUS
  <2>1. \A types : LastWith(types) = LastOf(received, types)
    BY DEF LastWith, LastOf
  <2>2. \A last : ConfigPieces(last) =
          [i \in 1 .. Len(last) |->
             IF last[i].type \in {Sps, Pps, Sei} THEN NalBytes(last[i]) ELSE << >>]
    BY DEF ConfigPieces, Config
  <2>3. bootstrap_config = FlattenSeq(ConfigPieces(LastWith({Sps, Pps, Sei})))
    BY <2>1 DEF Kept, Config
  <2>4. bootstrap_frame = Bytes(LastWith({Idr}))
    BY <2>1 DEF Kept
  <2> QED
    BY <2>2, <2>3, <2>4 DEF CachesExact
<1> QED
  BY <1>1, KeptInductive, PTL
=============================================================================
