---------------------------- MODULE EncodingProofs ----------------------------
(***************************************************************************)
(* What is written by internal/storage reads back, for any byte base, any  *)
(* texts that fit their length fields and any order of a map; index keys   *)
(* and generated ids keep apart what differs.                              *)
(***************************************************************************)
EXTENDS Encoding, Integers, FunctionTheorems, FiniteSetTheorems, WellFoundedInduction, TLAPS

-----------------------------------------------------------------------------
(* Loops: what one turn keeps, all of them keep.                           *)

\* What holds of 0 and passes from each number to the next holds up to N.
LEMMA Climb ==
  ASSUME NEW N \in Nat, NEW P, 0 \in P, \A n \in 1..N : n - 1 \in P => n \in P
  PROVE  0..N \subseteq P
<1> DEFINE Q == (0..N) \ P
<1>1. SUFFICES ASSUME Q # {} PROVE FALSE
  OBVIOUS
<1>2. Q \subseteq Nat
  OBVIOUS
<1>3. \A a, b \in Nat : a < b => <<a, b>> \in OpToRel(<, Nat)
  BY DEF OpToRel
<1> HIDE DEF Q
<1>4. PICK x \in Q : \A y \in Q : <<y, x>> \notin OpToRel(<, Nat)
  BY <1>1, <1>2, WFMin, NatLessThanWellFounded
<1>5. \A y \in Q : ~(y < x)
  BY <1>2, <1>3, <1>4
<1>6. x \in 1..N /\ x - 1 \in 0..N /\ x - 1 < x
  <2>1. x \in 0..N /\ x # 0
    BY <1>4 DEF Q
  <2> QED
    BY <2>1
<1>7. x - 1 \in P
  BY <1>5, <1>6 DEF Q
<1>8. x \in P
  BY <1>6, <1>7
<1> QED
  BY <1>4, <1>8 DEF Q

\* Each of N turns makes a value of S from the one before; f has the values.
Steps(h, N, S) == h \in [1..N -> [S -> S]]
Turns(f, a, h, N, S) == f \in [0..N -> S] /\ f[0] = a /\ \A n \in 1..N : f[n] = h[n][f[n - 1]]

\* A loop has a value after each turn.
LEMMA Loop ==
  ASSUME NEW S, NEW a \in S, NEW N \in Nat, NEW h, Steps(h, N, S)
  PROVE  \E f : Turns(f, a, h, N, S)
<1> DEFINE P == {m \in 0..N : \E f : Turns(f, a, h, m, S)}
<1>1. 0 \in P
  <2> DEFINE f == [n \in 0..0 |-> a]
  <2>1. f \in [0..0 -> S] /\ f[0] = a /\ 1..0 = {}
    OBVIOUS
  <2>2. Turns(f, a, h, 0, S)
    BY <2>1 DEF Turns
  <2> QED
    BY <2>2
<1>2. ASSUME NEW m \in 1..N, m - 1 \in P
      PROVE  m \in P
  <2>1. PICK f : Turns(f, a, h, m - 1, S)
    BY <1>2
  <2>t. /\ f \in [0..m - 1 -> S] /\ f[0] = a
        /\ \A n \in 1..m - 1 : f[n] = h[n][f[n - 1]]
    BY <2>1 DEF Turns
  <2> DEFINE g == [n \in 0..m |-> IF n = m THEN h[m][f[m - 1]] ELSE f[n]]
  <2>2. f[m - 1] \in S
    BY <2>t
  <2>3. h[m][f[m - 1]] \in S
    BY <2>2 DEF Steps
  <2>4. g \in [0..m -> S]
    BY <2>t, <2>3
  <2>5. g[0] = a
    BY <2>t
  <2>6. ASSUME NEW n \in 1..m PROVE g[n] = h[n][g[n - 1]]
    <3>1. CASE n = m
      BY <3>1
    <3>2. CASE n # m
      <4>1. n \in 1..m - 1 /\ n - 1 \in 0..m /\ n - 1 # m /\ n \in 0..m
        BY <3>2
      <4>2. f[n] = h[n][f[n - 1]]
        BY <2>t, <4>1
      <4> QED
        BY <3>2, <4>1, <4>2
    <3> QED
      BY <3>1, <3>2
  <2> HIDE DEF g
  <2>7. Turns(g, a, h, m, S)
    BY <2>4, <2>5, <2>6 DEF Turns
  <2> QED
    BY <2>7
<1> HIDE DEF P
<1>3. 0..N \subseteq P
  BY <1>1, <1>2, Climb
<1>4. N \in P
  BY <1>3
<1> QED
  BY <1>4 DEF P

-----------------------------------------------------------------------------
(* Parts, one after the other.                                             *)

\* What has been copied after each part, up to the whole.
LEMMA JoinedParts ==
  ASSUME NEW T, NEW parts \in Seq(Seq(T))
  PROVE  \E c \in [0..Len(parts) -> Seq(T)] :
           /\ c[0] = <<>> /\ \A n \in 1..Len(parts) : c[n] = c[n - 1] \o parts[n]
           /\ Joined(parts) = c[Len(parts)]
<1> DEFINE N == Len(parts)
           S == Seq(T)
           copied[n \in 0..N] == IF n = 0 THEN <<>> ELSE copied[n - 1] \o parts[n]
           h == [n \in 1..N |-> [s \in S |-> s \o parts[n]]]
<1>1. N \in Nat
  OBVIOUS
<1>2. \A n \in 1..N : \A s \in S : s \o parts[n] \in S
  OBVIOUS
<1>3. Steps(h, N, S)
  BY <1>2 DEF Steps
<1>4. \A n \in 1..N : \A s \in S : h[n][s] = s \o parts[n]
  OBVIOUS
<1>5. Joined(parts) = copied[N]
  BY DEF Joined
<1>6. <<>> \in S
  OBVIOUS
<1> DEFINE a == <<>>
<1> HIDE DEF h, S, N, a
<1>7. \E f : Turns(f, a, h, N, S)
  BY <1>1, <1>3, <1>6, Loop DEF a
<1>8. copied = [n \in 0..N |-> IF n = 0 THEN <<>> ELSE copied[n - 1] \o parts[n]]
  <2>1. PICK f : Turns(f, a, h, N, S)
    BY <1>7
  <2>2. ASSUME NEW n \in 0..N
        PROVE  f[n] = IF n = 0 THEN <<>> ELSE f[n - 1] \o parts[n]
    <3>1. CASE n = 0
      BY <2>1, <3>1 DEF Turns, a
    <3>2. CASE n # 0
      <4>1. n \in 1..N /\ n - 1 \in 0..N
        BY <1>1, <3>2
      <4>2. f[n] = h[n][f[n - 1]] /\ f[n - 1] \in S
        BY <2>1, <4>1 DEF Turns
      <4> QED
        BY <1>4, <3>2, <4>1, <4>2
    <3> QED
      BY <3>1, <3>2
  <2>3. f \in [0..N -> S]
    BY <2>1 DEF Turns
  <2> DEFINE E(n) == IF n = 0 THEN <<>> ELSE f[n - 1] \o parts[n]
  <2>4. \A n \in 0..N : f[n] = E(n)
    BY <2>2
  <2> HIDE DEF E
  <2>5. f = [n \in 0..N |-> E(n)]
    BY <2>3, <2>4
  <2>6. f = [n \in 0..N |-> IF n = 0 THEN <<>> ELSE f[n - 1] \o parts[n]]
    BY <2>5 DEF E
  <2> QED
    BY <2>6
<1> HIDE DEF copied
<1>9. copied[0] = <<>> /\ \A n \in 1..N : copied[n] = copied[n - 1] \o parts[n]
  <2>1. 0 \in 0..N /\ \A n \in 1..N : n \in 0..N /\ n # 0
    BY <1>1
  <2> QED
    BY <1>8, <2>1
<1>10. copied \in [0..N -> S]
  <2> DEFINE P == {n \in 0..N : copied[n] \in S}
  <2>1. 0 \in P
    BY <1>1, <1>6, <1>9
  <2>2. ASSUME NEW n \in 1..N, n - 1 \in P PROVE n \in P
    <3>1. copied[n - 1] \in S /\ n \in 0..N
      BY <1>1, <2>2
    <3>2. copied[n - 1] \o parts[n] \in S
      BY <1>2, <3>1
    <3> QED
      BY <1>9, <3>1, <3>2
  <2> HIDE DEF P
  <2>3. 0..N \subseteq P
    BY <1>1, <2>1, <2>2, Climb
  <2>4. \A n \in 0..N : copied[n] \in S
    BY <2>3 DEF P
  <2>5. copied = [n \in 0..N |-> copied[n]]
    BY <1>8
  <2> QED
    BY <2>4, <2>5
<1> QED
  BY <1>5, <1>9, <1>10 DEF N, S

\* The sum of the sizes after each.
LEMMA TotalSizes ==
  ASSUME NEW sizes \in Seq(Nat)
  PROVE  \E c \in [0..Len(sizes) -> Nat] :
           /\ c[0] = 0 /\ \A n \in 1..Len(sizes) : c[n] = c[n - 1] + sizes[n]
           /\ Total(sizes) = c[Len(sizes)]
<1> DEFINE N == Len(sizes)
           S == Nat
           a == 0
           sum[n \in 0..N] == IF n = 0 THEN 0 ELSE sum[n - 1] + sizes[n]
           h == [n \in 1..N |-> [s \in S |-> s + sizes[n]]]
<1>1. N \in Nat
  OBVIOUS
<1>2. \A n \in 1..N : \A s \in S : s + sizes[n] \in S
  OBVIOUS
<1>3. Steps(h, N, S)
  BY <1>2 DEF Steps
<1>4. \A n \in 1..N : \A s \in S : h[n][s] = s + sizes[n]
  OBVIOUS
<1>5. Total(sizes) = sum[N]
  BY DEF Total
<1>6. a \in S
  OBVIOUS
<1> HIDE DEF h, S, N, a
<1>7. \E f : Turns(f, a, h, N, S)
  BY <1>1, <1>3, <1>6, Loop
<1>8. sum = [n \in 0..N |-> IF n = 0 THEN 0 ELSE sum[n - 1] + sizes[n]]
  <2>1. PICK f : Turns(f, a, h, N, S)
    BY <1>7
  <2>2. ASSUME NEW n \in 0..N
        PROVE  f[n] = IF n = 0 THEN 0 ELSE f[n - 1] + sizes[n]
    <3>1. CASE n = 0
      BY <2>1, <3>1 DEF Turns, a
    <3>2. CASE n # 0
      <4>1. n \in 1..N /\ n - 1 \in 0..N
        BY <1>1, <3>2
      <4>2. f[n] = h[n][f[n - 1]] /\ f[n - 1] \in S
        BY <2>1, <4>1 DEF Turns
      <4> QED
        BY <1>4, <3>2, <4>1, <4>2
    <3> QED
      BY <3>1, <3>2
  <2>3. f \in [0..N -> S]
    BY <2>1 DEF Turns
  <2> DEFINE E(n) == IF n = 0 THEN 0 ELSE f[n - 1] + sizes[n]
  <2>4. \A n \in 0..N : f[n] = E(n)
    BY <2>2
  <2> HIDE DEF E
  <2>5. f = [n \in 0..N |-> E(n)]
    BY <2>3, <2>4
  <2>6. f = [n \in 0..N |-> IF n = 0 THEN 0 ELSE f[n - 1] + sizes[n]]
    BY <2>5 DEF E
  <2> QED
    BY <2>6
<1> HIDE DEF sum
<1>9. sum[0] = 0 /\ \A n \in 1..N : sum[n] = sum[n - 1] + sizes[n]
  <2>1. 0 \in 0..N /\ \A n \in 1..N : n \in 0..N /\ n # 0
    BY <1>1
  <2> QED
    BY <1>8, <2>1
<1>10. sum \in [0..N -> S]
  <2> DEFINE P == {n \in 0..N : sum[n] \in S}
  <2>1. 0 \in P
    BY <1>1, <1>6, <1>9 DEF a
  <2>2. ASSUME NEW n \in 1..N, n - 1 \in P PROVE n \in P
    <3>1. sum[n - 1] \in S /\ n \in 0..N
      BY <1>1, <2>2
    <3>2. sum[n - 1] + sizes[n] \in S
      BY <1>2, <3>1
    <3> QED
      BY <1>9, <3>1, <3>2
  <2> HIDE DEF P
  <2>3. 0..N \subseteq P
    BY <1>1, <2>1, <2>2, Climb
  <2>4. \A n \in 0..N : sum[n] \in S
    BY <2>3 DEF P
  <2>5. sum = [n \in 0..N |-> sum[n]]
    BY <1>8
  <2> QED
    BY <2>4, <2>5
<1> QED
  BY <1>5, <1>9, <1>10 DEF N, S

-----------------------------------------------------------------------------
(* Numbers.                                                                *)

\* Division with a rest.
LEMMA Rest ==
  ASSUME NEW n \in Nat, NEW d \in Nat, d > 0, NEW q \in Int, q = n \div d,
         NEW r \in Int, r = n % d
  PROVE  q \in Nat /\ n = q * d + r
<1>1. n = d * q + r /\ q >= 0
  OBVIOUS
<1> QED
  BY <1>1

\* A number is its quotient times the divisor and a rest below it.
LEMMA Division ==
  ASSUME NEW n \in Nat, NEW d \in Nat, d > 0
  PROVE  \E q \in Nat, r \in 0..d - 1 : q = n \div d /\ r = n % d /\ n = q * d + r
<1>1. n % d \in 0..d - 1 /\ n \div d \in Int /\ n % d \in Int
  OBVIOUS
<1>2. PICK q \in Int, r \in Int : q = n \div d /\ r = n % d
  BY <1>1
<1>3. q \in Nat /\ n = q * d + r
  BY <1>2, Rest
<1> QED
  BY <1>1, <1>2, <1>3

\* A greater quotient makes a number greater by one divisor at least.
LEMMA Monotone ==
  ASSUME NEW a \in Nat, NEW b \in Nat, NEW d \in Nat, a < b
  PROVE  a * d + d <= b * d
OBVIOUS

\* There is one quotient and one rest.
LEMMA DivisionIsUnique ==
  ASSUME NEW d \in Nat, NEW q \in Nat, NEW r \in Nat, NEW p \in Nat, NEW s \in Nat,
         r < d, s < d, q * d + r = p * d + s
  PROVE  q = p /\ r = s
<1>1. ~(q < p)
  BY Monotone
<1>2. ~(p < q)
  BY Monotone
<1> QED
  BY <1>1, <1>2

\* What is smaller than a product has a quotient smaller than the other factor.
LEMMA QuotientBound ==
  ASSUME NEW d \in Nat, NEW m \in Nat, NEW q \in Nat, NEW r \in Nat, q * d + r < m * d
  PROVE  q < m
<1>1. CASE m < q
  BY <1>1, Monotone
<1> QED
  BY <1>1

\* A number smaller than the divisor is its own rest.
LEMMA SmallRest ==
  ASSUME NEW n \in Nat, NEW d \in Nat, n < d
  PROVE  n % d = n
OBVIOUS

\* Products of naturals are naturals, and not 0 unless a factor is.
LEMMA Products ==
  ASSUME NEW a \in Nat, NEW b \in Nat
  PROVE  a * b \in Nat /\ (a > 0 /\ b > 0 => a * b > 0)
OBVIOUS

\* Two divisions by the same number are one by its square.
LEMMA TwoDigits ==
  ASSUME NEW base \in Nat, NEW n \in Nat, NEW q \in Nat, NEW r \in Nat, NEW p \in Nat,
         NEW s \in Nat, n = q * base + r, q = p * base + s
  PROVE  n = p * (base * base) + (s * base + r)
<1>1. q * base = p * base * base + s * base
  OBVIOUS
<1>2. p * base * base = p * (base * base)
  OBVIOUS
<1> QED
  BY <1>1, <1>2

\* There are bytes and pairs of bytes.
LEMMA BaseType == Base \in Nat /\ Base > 1 /\ Base * Base \in Nat /\ Base * Base > 0
BY EncodingAssumption, Products

-----------------------------------------------------------------------------
(* Lengths are written and read.                                           *)

\* Sequences put together keep their elements in their places.
LEMMA Concat ==
  ASSUME NEW T, NEW p \in Seq(T), NEW q \in Seq(T)
  PROVE  /\ p \o q \in Seq(T) /\ Len(p \o q) = Len(p) + Len(q)
         /\ \A m \in 1..Len(p) : (p \o q)[m] = p[m]
         /\ \A m \in 1..Len(q) : (p \o q)[Len(p) + m] = q[m]
OBVIOUS

\* A u16 is two bytes.
LEMMA U16Bytes ==
  ASSUME NEW n \in Nat
  PROVE  U16(n) \in Seq(Byte) /\ Len(U16(n)) = 2
<1>1. PICK q \in Nat, r \in 0..Base - 1 : q = n \div Base /\ r = n % Base
  BY BaseType, Division
<1>2. PICK s \in 0..Base - 1 : s = q % Base
  BY BaseType, Division
<1>3. <<s, r>> \in Seq(Byte) /\ Len(<<s, r>>) = 2
  BY DEF Byte
<1>4. U16(n) = <<s, r>>
  BY <1>1, <1>2 DEF U16
<1> QED
  BY <1>3, <1>4

\* A u32 is four bytes.
LEMMA U32Bytes ==
  ASSUME NEW n \in Nat
  PROVE  U32(n) \in Seq(Byte) /\ Len(U32(n)) = 4
<1>1. PICK q \in Nat : q = n \div (Base * Base)
  BY BaseType, Division
<1> DEFINE high == U16(q)
           low == U16(n)
<1>2. high \in Seq(Byte) /\ Len(high) = 2 /\ low \in Seq(Byte) /\ Len(low) = 2
  BY <1>1, U16Bytes
<1> HIDE DEF high, low
<1>3. high \o low \in Seq(Byte)
  BY <1>2
<1>4. Len(high \o low) = Len(high) + Len(low)
  BY <1>2, Concat
<1>5. Len(high \o low) = 4
  BY <1>2, <1>4
<1> QED
  BY <1>1, <1>3, <1>5 DEF U32, high, low

\* part stands in b from the place from on.
Occurs(b, from, part) ==
  \A m \in 1..Len(part) : from + m - 1 \in DOMAIN b /\ b[from + m - 1] = part[m]

\* A text occurs in itself.
LEMMA OccursWhole ==
  ASSUME NEW b \in Seq(Byte)
  PROVE  Occurs(b, 1, b)
BY DEF Occurs

\* Where two parts in a row occur, the second does after the first.
LEMMA OccursConcat ==
  ASSUME NEW b \in Seq(Byte), NEW from \in Nat \ {0},
         NEW p \in Seq(Byte), NEW q \in Seq(Byte), Occurs(b, from, p \o q)
  PROVE  Occurs(b, from, p) /\ Occurs(b, from + Len(p), q)
<1> DEFINE r == p \o q
<1>1. Len(r) = Len(p) + Len(q)
  OBVIOUS
<1>2. \A m \in 1..Len(p) : r[m] = p[m]
  OBVIOUS
<1>3. \A m \in 1..Len(q) : r[Len(p) + m] = q[m]
  OBVIOUS
<1>4. Len(p) \in Nat /\ Len(q) \in Nat
  OBVIOUS
<1>5. Occurs(b, from, r)
  OBVIOUS
<1> HIDE DEF r
<1>6. Occurs(b, from, p)
  BY <1>1, <1>2, <1>4, <1>5 DEF Occurs
<1>7. ASSUME NEW m \in 1..Len(q)
      PROVE  from + Len(p) + m - 1 \in DOMAIN b /\ b[from + Len(p) + m - 1] = q[m]
  <2>1. Len(p) + m \in 1..Len(r)
    BY <1>1, <1>4
  <2>2. from + (Len(p) + m) - 1 \in DOMAIN b /\ b[from + (Len(p) + m) - 1] = r[Len(p) + m]
    BY <1>5, <2>1 DEF Occurs
  <2>3. from + (Len(p) + m) - 1 = from + Len(p) + m - 1
    BY <1>4
  <2> QED
    BY <1>3, <2>2, <2>3
<1> QED
  BY <1>6, <1>7 DEF Occurs

\* The digits that a number is read from.
LEMMA ByteAtIs ==
  ASSUME NEW b \in Seq(Byte), NEW at
  PROVE  ByteAt(b, at) \in Byte
BY BaseType DEF ByteAt, Byte

\* What is read of two bytes is a number.
LEMMA U16AtIs ==
  ASSUME NEW b \in Seq(Byte), NEW at
  PROVE  U16At(b, at) \in Nat
<1>1. ByteAt(b, at) \in Nat /\ ByteAt(b, at + 1) \in Nat
  BY ByteAtIs, BaseType DEF Byte
<1> QED
  BY <1>1, BaseType, Products DEF U16At

\* What is read of four bytes is a number.
LEMMA U32AtIs ==
  ASSUME NEW b \in Seq(Byte), NEW at
  PROVE  U32At(b, at) \in Nat
<1>1. U16At(b, at) \in Nat /\ U16At(b, at + 2) \in Nat
  BY U16AtIs
<1> QED
  BY <1>1, BaseType, Products DEF U32At

\* Of a number that is too large the lowest two digits are read back.
LEMMA ReadRest ==
  ASSUME NEW b \in Seq(Byte), NEW at \in Nat \ {0}, NEW n \in Nat, Occurs(b, at, U16(n))
  PROVE  U16At(b, at) = n % (Base * Base)
<1>1. PICK q \in Nat, r \in 0..Base - 1 : q = n \div Base /\ r = n % Base /\ n = q * Base + r
  BY BaseType, Division
<1>2. PICK p \in Nat, s \in 0..Base - 1 : p = q \div Base /\ s = q % Base /\ q = p * Base + s
  BY BaseType, Division
<1>3. U16(n) = <<s, r>>
  BY <1>1, <1>2 DEF U16
<1>4. at \in DOMAIN b /\ b[at] = s /\ at + 1 \in DOMAIN b /\ b[at + 1] = r
  <2>1. Len(<<s, r>>) = 2 /\ <<s, r>>[1] = s /\ <<s, r>>[2] = r
    OBVIOUS
  <2>2. 1 \in 1..2 /\ 2 \in 1..2 /\ at + 1 - 1 = at /\ at + 2 - 1 = at + 1
    OBVIOUS
  <2> QED
    BY <1>3, <2>1, <2>2 DEF Occurs
<1>5. U16At(b, at) = s * Base + r
  BY <1>4 DEF U16At, ByteAt
<1> DEFINE d == Base * Base
           x == s * Base + r
<1>6. d \in Nat /\ d > 0 /\ x \in Nat /\ x < d
  <2>1. s * Base + Base <= Base * Base
    BY <1>2, BaseType, Monotone
  <2>2. s * Base \in Nat
    BY BaseType, Products
  <2> QED
    BY <1>1, <1>2, <2>1, <2>2, BaseType
<1>7. n = p * d + x
  <2>1. r \in Nat /\ s \in Nat /\ Base \in Nat
    BY <1>1, <1>2, BaseType
  <2>2. n = q * Base + r /\ q = p * Base + s
    BY <1>1, <1>2
  <2>3. n = p * (Base * Base) + (s * Base + r)
    BY ONLY <2>1, <2>2, TwoDigits, n \in Nat, p \in Nat, q \in Nat
  <2> QED
    BY <2>3
<1> HIDE DEF d, x
<1>8. PICK u \in Nat, v \in 0..d - 1 : u = n \div d /\ v = n % d /\ n = u * d + v
  BY <1>6, Division
<1>9. v = x
  BY <1>6, <1>7, <1>8, DivisionIsUnique, SMTT(20)
<1> QED
  BY <1>5, <1>8, <1>9 DEF d, x

\* A number that two bytes hold reads back as it was.
LEMMA ReadU16 ==
  ASSUME NEW b \in Seq(Byte), NEW at \in Nat \ {0}, NEW n \in Nat, n < Base * Base,
         Occurs(b, at, U16(n))
  PROVE  U16At(b, at) = n
BY ReadRest, SmallRest, BaseType

\* A number that four bytes hold reads back as it was.
LEMMA ReadU32 ==
  ASSUME NEW b \in Seq(Byte), NEW at \in Nat \ {0}, NEW n \in Nat,
         n < Base * Base * Base * Base, Occurs(b, at, U32(n))
  PROVE  U32At(b, at) = n
<1> DEFINE d == Base * Base
<1>1. d \in Nat /\ d > 0 /\ n < d * d
  BY BaseType
<1> HIDE DEF d, U32At
<1>2. PICK q \in Nat, r \in 0..d - 1 : q = n \div d /\ r = n % d /\ n = q * d + r
  BY <1>1, Division
<1>3. q < d
  BY <1>1, <1>2, QuotientBound
<1>4. U16(q) \in Seq(Byte) /\ U16(n) \in Seq(Byte) /\ Len(U16(q)) = 2
  BY <1>2, U16Bytes
<1>5. Occurs(b, at, U16(q) \o U16(n))
  BY <1>2 DEF U32, d
<1>6. Occurs(b, at, U16(q)) /\ Occurs(b, at + 2, U16(n))
  BY <1>4, <1>5, OccursConcat
<1>7. U16At(b, at) = q
  BY <1>2, <1>3, <1>6, ReadU16 DEF d
<1>8. U16At(b, at + 2) = r
  BY <1>2, <1>6, ReadRest DEF d
<1>9. U32At(b, at) = U16At(b, at) * d + U16At(b, at + 2)
  BY DEF U32At, d
<1> QED
  BY <1>2, <1>7, <1>8, <1>9

-----------------------------------------------------------------------------
(* Texts after their lengths are written and read.                         *)

\* The reading of a text ends at some place.
LEMMA TextIs ==
  ASSUME NEW b \in Seq(Byte), NEW from \in Nat, NEW width \in {2, 4}
  PROVE  Text(b, from, width).next \in Nat
<1>1. U16At(b, from) \in Nat /\ U32At(b, from) \in Nat
  BY U16AtIs, U32AtIs
<1> QED
  BY <1>1 DEF Text

\* Where the texts in a row begin.
LEMMA TextsTurns ==
  ASSUME NEW b \in Seq(Byte), NEW from \in Nat, NEW widths \in Seq({2, 4})
  PROVE  \E c \in [0..Len(widths) -> Nat] :
           /\ c[0] = from
           /\ \A n \in 1..Len(widths) : c[n] = Text(b, c[n - 1], widths[n]).next
           /\ Texts(b, from, widths) =
                [texts |-> [n \in 1..Len(widths) |-> Text(b, c[n - 1], widths[n]).text],
                 next |-> c[Len(widths)]]
<1> DEFINE N == Len(widths)
           S == Nat
           a == from
           next[n \in 0..N] == IF n = 0 THEN from ELSE Text(b, next[n - 1], widths[n]).next
           h == [n \in 1..N |-> [s \in S |-> Text(b, s, widths[n]).next]]
<1>1. N \in Nat
  OBVIOUS
<1>2. \A n \in 1..N : \A s \in S : Text(b, s, widths[n]).next \in S
  <2>1. ASSUME NEW n \in 1..N PROVE widths[n] \in {2, 4}
    OBVIOUS
  <2> QED
    BY <2>1, TextIs
<1>3. Steps(h, N, S)
  BY <1>2 DEF Steps
<1>4. \A n \in 1..N : \A s \in S : h[n][s] = Text(b, s, widths[n]).next
  OBVIOUS
<1>5. Texts(b, from, widths) =
        [texts |-> [n \in 1..N |-> Text(b, next[n - 1], widths[n]).text], next |-> next[N]]
  BY DEF Texts
<1>6. a \in S
  OBVIOUS
<1> HIDE DEF h, S, N, a
<1>7. \E f : Turns(f, a, h, N, S)
  BY <1>1, <1>3, <1>6, Loop
<1>8. next = [n \in 0..N |-> IF n = 0 THEN from ELSE Text(b, next[n - 1], widths[n]).next]
  <2>1. PICK f : Turns(f, a, h, N, S)
    BY <1>7
  <2> DEFINE E(n) == IF n = 0 THEN from ELSE Text(b, f[n - 1], widths[n]).next
  <2>2. ASSUME NEW n \in 0..N
        PROVE  f[n] = E(n)
    <3>1. CASE n = 0
      BY <2>1, <3>1 DEF Turns, a
    <3>2. CASE n # 0
      <4>1. n \in 1..N /\ n - 1 \in 0..N
        BY <1>1, <3>2
      <4>2. f[n] = h[n][f[n - 1]] /\ f[n - 1] \in S
        BY <2>1, <4>1 DEF Turns
      <4> QED
        BY <1>4, <3>2, <4>1, <4>2
    <3> QED
      BY <3>1, <3>2
  <2>3. f \in [0..N -> S]
    BY <2>1 DEF Turns
  <2> HIDE DEF E
  <2>4. f = [n \in 0..N |-> E(n)]
    BY <2>2, <2>3
  <2>5. f = [n \in 0..N |-> IF n = 0 THEN from ELSE Text(b, f[n - 1], widths[n]).next]
    BY <2>4 DEF E
  <2> QED
    BY <2>5
<1> HIDE DEF next
<1>9. next[0] = a /\ \A n \in 1..N : next[n] = Text(b, next[n - 1], widths[n]).next
  <2>1. 0 \in 0..N /\ \A n \in 1..N : n \in 0..N /\ n # 0
    BY <1>1
  <2> QED
    BY <1>8, <2>1 DEF a
<1>10. next \in [0..N -> S]
  <2> DEFINE P == {n \in 0..N : next[n] \in S}
  <2>1. 0 \in P
    BY <1>1, <1>6, <1>9
  <2>2. ASSUME NEW n \in 1..N, n - 1 \in P PROVE n \in P
    <3>1. next[n - 1] \in S /\ n \in 0..N
      BY <1>1, <2>2
    <3> QED
      BY <1>2, <1>9, <3>1
  <2> HIDE DEF P
  <2>3. 0..N \subseteq P
    BY <1>1, <2>1, <2>2, Climb
  <2>4. \A n \in 0..N : next[n] \in S
    BY <2>3 DEF P
  <2>5. next = [n \in 0..N |-> next[n]]
    BY <1>8
  <2> QED
    BY <2>4, <2>5
<1> QED
  BY <1>5, <1>9, <1>10 DEF N, S, a

\* The texts that a length of so many bytes counts.
Fits(text, width) == Len(text) < IF width = 2 THEN Base * Base ELSE Base * Base * Base * Base

\* A field is its length and its text.
LEMMA FieldBytes ==
  ASSUME NEW text \in Seq(Byte), NEW width \in {2, 4}
  PROVE  Field(text, width) \in Seq(Byte) /\ Len(Field(text, width)) = width + Len(text)
<1> DEFINE size == IF width = 2 THEN U16(Len(text)) ELSE U32(Len(text))
<1>1. size \in Seq(Byte) /\ Len(size) = width
  <2>1. Len(text) \in Nat
    OBVIOUS
  <2>2. CASE width = 2
    BY <2>1, <2>2, U16Bytes
  <2>3. CASE width = 4
    BY <2>1, <2>3, U32Bytes
  <2> QED
    BY <2>2, <2>3
<1>2. Field(text, width) = size \o text
  BY DEF Field
<1> HIDE DEF size
<1> QED
  BY <1>1, <1>2, Concat

\* A field whose length fits reads back, up to its end.
LEMMA ReadField ==
  ASSUME NEW b \in Seq(Byte), NEW from \in Nat \ {0}, NEW text \in Seq(Byte),
         NEW width \in {2, 4}, Fits(text, width), Occurs(b, from, Field(text, width))
  PROVE  Text(b, from, width) = [text |-> text, next |-> from + Len(Field(text, width))]
<1> DEFINE size == IF width = 2 THEN U16(Len(text)) ELSE U32(Len(text))
           n == IF width = 2 THEN U16At(b, from) ELSE U32At(b, from)
<1>1. size \in Seq(Byte) /\ Len(size) = width
  <2>1. Len(text) \in Nat
    OBVIOUS
  <2>2. CASE width = 2
    BY <2>1, <2>2, U16Bytes
  <2>3. CASE width = 4
    BY <2>1, <2>3, U32Bytes
  <2> QED
    BY <2>2, <2>3
<1>2. Field(text, width) = size \o text
  BY DEF Field
<1> HIDE DEF size
<1>3. Occurs(b, from, size) /\ Occurs(b, from + width, text)
  BY <1>1, <1>2, OccursConcat
<1>4. n = Len(text)
  BY <1>3, ReadU16, ReadU32 DEF size, Fits
<1>5. Text(b, from, width) =
        [text |-> [m \in 1..n |-> ByteAt(b, from + width + m - 1)], next |-> from + width + n]
  BY DEF Text
<1> HIDE DEF n
<1>6. \A m \in 1..Len(text) : ByteAt(b, from + width + m - 1) = text[m]
  BY <1>3 DEF Occurs, ByteAt
<1>7. [m \in 1..n |-> ByteAt(b, from + width + m - 1)] = text
  BY <1>4, <1>6
<1>8. from + width + n = from + Len(Field(text, width))
  <2>1. Len(Field(text, width)) = width + Len(text)
    BY FieldBytes, Zenon
  <2>2. Len(text) \in Nat
    OBVIOUS
  <2> QED
    BY <1>4, <2>1, <2>2
<1> QED
  BY <1>5, <1>7, <1>8

\* The parts that are put one after the other.
Parts(texts, widths) == [n \in 1..Len(texts) |-> Field(texts[n], widths[n])]

\* The parts are bytes, each as long as its length and its text.
LEMMA PartsBytes ==
  ASSUME NEW texts \in Seq(Seq(Byte)), NEW widths \in Seq({2, 4}), Len(widths) = Len(texts)
  PROVE  /\ Parts(texts, widths) \in Seq(Seq(Byte)) /\ Len(Parts(texts, widths)) = Len(texts)
         /\ Fields(texts, widths) = Joined(Parts(texts, widths))
         /\ \A n \in 1..Len(texts) :
              /\ Parts(texts, widths)[n] = Field(texts[n], widths[n])
              /\ Len(Parts(texts, widths)[n]) = widths[n] + Len(texts[n])
              /\ texts[n] \in Seq(Byte) /\ widths[n] \in {2, 4}
<1>1. \A n \in 1..Len(texts) : texts[n] \in Seq(Byte) /\ widths[n] \in {2, 4}
  OBVIOUS
<1>2. \A n \in 1..Len(texts) :
        /\ Field(texts[n], widths[n]) \in Seq(Byte)
        /\ Len(Field(texts[n], widths[n])) = widths[n] + Len(texts[n])
  BY <1>1, FieldBytes
<1>3. Parts(texts, widths) \in Seq(Seq(Byte)) /\ Len(Parts(texts, widths)) = Len(texts)
  BY <1>2 DEF Parts
<1>4. \A n \in 1..Len(texts) : Parts(texts, widths)[n] = Field(texts[n], widths[n])
  BY DEF Parts
<1>5. Fields(texts, widths) = Joined(Parts(texts, widths))
  BY DEF Fields, Parts
<1> QED
  BY <1>1, <1>2, <1>3, <1>4, <1>5

\* Texts in a row are read as they were written, and the reading ends where
\* the writing did.
LEMMA ReadFields ==
  ASSUME NEW b \in Seq(Byte), NEW from \in Nat \ {0}, NEW texts \in Seq(Seq(Byte)),
         NEW widths \in Seq({2, 4}), Len(widths) = Len(texts),
         \A n \in 1..Len(texts) : Fits(texts[n], widths[n]),
         Occurs(b, from, Fields(texts, widths))
  PROVE  Texts(b, from, widths) =
           [texts |-> texts, next |-> from + Len(Fields(texts, widths))]
<1> DEFINE N == Len(texts)
           parts == Parts(texts, widths)
<1>1. /\ parts \in Seq(Seq(Byte)) /\ Len(parts) = N /\ N \in Nat
      /\ Fields(texts, widths) = Joined(parts)
      /\ \A n \in 1..N : /\ parts[n] = Field(texts[n], widths[n])
                         /\ texts[n] \in Seq(Byte) /\ widths[n] \in {2, 4}
  BY PartsBytes, SMTT(20)
<1> HIDE DEF parts
<1>2. PICK c \in [0..N -> Seq(Byte)] :
        /\ c[0] = <<>> /\ \A n \in 1..N : c[n] = c[n - 1] \o parts[n]
        /\ Joined(parts) = c[N]
  <2>1. \E c \in [0..Len(parts) -> Seq(Byte)] :
          /\ c[0] = <<>> /\ \A n \in 1..Len(parts) : c[n] = c[n - 1] \o parts[n]
          /\ Joined(parts) = c[Len(parts)]
    BY <1>1, JoinedParts
  <2> HIDE DEF N
  <2> QED
    BY <1>1, <2>1
<1>3. PICK d \in [0..N -> Nat] :
        /\ d[0] = from
        /\ \A n \in 1..N : d[n] = Text(b, d[n - 1], widths[n]).next
        /\ Texts(b, from, widths) =
             [texts |-> [n \in 1..N |-> Text(b, d[n - 1], widths[n]).text], next |-> d[N]]
  <2>1. \E d \in [0..Len(widths) -> Nat] :
          /\ d[0] = from
          /\ \A n \in 1..Len(widths) : d[n] = Text(b, d[n - 1], widths[n]).next
          /\ Texts(b, from, widths) =
               [texts |-> [n \in 1..Len(widths) |-> Text(b, d[n - 1], widths[n]).text],
                next |-> d[Len(widths)]]
    BY TextsTurns
  <2>2. Len(widths) = N
    OBVIOUS
  <2> HIDE DEF N
  <2> QED
    BY <2>1, <2>2
<1> HIDE DEF N
<1>4. \A n \in 1..N : parts[n] \in Seq(Byte)
  BY <1>1
<1>5. \A n \in 1..N :
        /\ c[n - 1] \in Seq(Byte) /\ c[n] = c[n - 1] \o parts[n]
        /\ Len(c[n]) = Len(c[n - 1]) + Len(parts[n])
  <2> SUFFICES ASSUME NEW n \in 1..N
               PROVE  /\ c[n - 1] \in Seq(Byte) /\ c[n] = c[n - 1] \o parts[n]
                      /\ Len(c[n]) = Len(c[n - 1]) + Len(parts[n])
    OBVIOUS
  <2>1. n - 1 \in 0..N
    BY <1>1
  <2>2. c[n - 1] \in Seq(Byte) /\ c[n] = c[n - 1] \o parts[n] /\ parts[n] \in Seq(Byte)
    BY <1>2, <1>4, <2>1
  <2> QED
    BY <2>2, Concat
<1>6. \A n \in 0..N : Occurs(b, from, c[n])
  <2> DEFINE Q == {n \in 0..N : Occurs(b, from, c[N - n])}
  <2>1. 0 \in Q
    BY <1>1, <1>2
  <2>2. ASSUME NEW n \in 1..N, n - 1 \in Q PROVE n \in Q
    <3>1. N - n + 1 \in 1..N /\ N - (n - 1) = N - n + 1 /\ (N - n + 1) - 1 = N - n
      BY <1>1
    <3>2. /\ c[N - n] \in Seq(Byte) /\ parts[N - n + 1] \in Seq(Byte)
          /\ c[N - n + 1] = c[N - n] \o parts[N - n + 1]
      BY <1>4, <1>5, <3>1
    <3>3. Occurs(b, from, c[N - n + 1])
      BY <2>2, <3>1
    <3>4. Occurs(b, from, c[N - n])
      BY <3>2, <3>3, OccursConcat
    <3> QED
      BY <3>4
  <2>3. 0..N \subseteq Q
    <3> HIDE DEF Q
    <3> QED
      BY <1>1, <2>1, <2>2, Climb
  <2> TAKE n \in 0..N
  <2>4. N - n \in 0..N /\ N - (N - n) = n
    BY <1>1
  <2>5. N - n \in Q
    BY <2>3, <2>4
  <2> QED
    BY <2>4, <2>5
<1>7. \A n \in 1..N : Occurs(b, from + Len(c[n - 1]), parts[n])
  <2> TAKE n \in 1..N
  <2>1. n \in 0..N
    OBVIOUS
  <2>2. Occurs(b, from, c[n - 1] \o parts[n])
    BY <1>5, <1>6, <2>1
  <2> QED
    BY <1>4, <1>5, <2>2, OccursConcat
<1>8. \A n \in 1..N : d[n - 1] = from + Len(c[n - 1]) =>
        Text(b, d[n - 1], widths[n]) = [text |-> texts[n], next |-> from + Len(c[n])]
  <2> TAKE n \in 1..N
  <2> HAVE d[n - 1] = from + Len(c[n - 1])
  <2>0. Len(c[n - 1]) \in Nat /\ n \in 1..N
    BY <1>5
  <2>1. d[n - 1] \in Nat \ {0} /\ texts[n] \in Seq(Byte) /\ widths[n] \in {2, 4}
    BY <1>1, <2>0
  <2>2. Occurs(b, d[n - 1], Field(texts[n], widths[n])) /\ Fits(texts[n], widths[n])
    BY <1>1, <1>7 DEF N
  <2>3. Text(b, d[n - 1], widths[n]) =
          [text |-> texts[n], next |-> d[n - 1] + Len(Field(texts[n], widths[n]))]
    BY <2>1, <2>2, ReadField, ZenonT(30)
  <2>4. d[n - 1] + Len(parts[n]) = from + Len(c[n])
    <3>1. parts[n] \in Seq(Byte)
      BY <1>4
    <3>2. Len(parts[n]) \in Nat
      BY <3>1
    <3>3. Len(c[n]) = Len(c[n - 1]) + Len(parts[n])
      BY <1>5
    <3>4. PICK w \in Nat, x \in Nat : w = Len(c[n - 1]) /\ x = Len(parts[n])
      BY <2>0, <3>2
    <3>5. (from + w) + x = from + (w + x)
      OBVIOUS
    <3> QED
      BY <3>3, <3>4, <3>5, Zenon
  <2> QED
    BY <1>1, <2>3, <2>4
<1>9. \A n \in 0..N : d[n] = from + Len(c[n])
  <2> DEFINE R == {n \in 0..N : d[n] = from + Len(c[n])}
  <2>1. 0 \in R
    <3>1. Len(c[0]) = 0 /\ 0 \in 0..N
      BY <1>1, <1>2
    <3> QED
      BY <1>3, <3>1
  <2>2. ASSUME NEW n \in 1..N, n - 1 \in R PROVE n \in R
    <3>1. d[n - 1] = from + Len(c[n - 1]) /\ n \in 0..N
      BY <2>2
    <3>2. Text(b, d[n - 1], widths[n]) = [text |-> texts[n], next |-> from + Len(c[n])]
      BY <1>8, <3>1
    <3>3. Text(b, d[n - 1], widths[n]).next = from + Len(c[n])
      BY <3>2
    <3> QED
      BY <1>3, <3>1, <3>3
  <2>3. 0..N \subseteq R
    <3> HIDE DEF R
    <3> QED
      BY <1>1, <2>1, <2>2, Climb
  <2> QED
    BY <2>3
<1>10. \A n \in 1..N : Text(b, d[n - 1], widths[n]).text = texts[n]
  <2> TAKE n \in 1..N
  <2>1. n - 1 \in 0..N
    BY <1>1
  <2>2. d[n - 1] = from + Len(c[n - 1])
    BY <1>9, <2>1
  <2>3. Text(b, d[n - 1], widths[n]) = [text |-> texts[n], next |-> from + Len(c[n])]
    BY <1>8, <2>2
  <2> QED
    BY <2>3
<1>11. [n \in 1..N |-> Text(b, d[n - 1], widths[n]).text] = texts
  <2>1. texts = [n \in 1..N |-> texts[n]]
    BY DEF N
  <2> DEFINE read(n) == Text(b, d[n - 1], widths[n]).text
  <2>2. \A n \in 1..N : read(n) = texts[n]
    BY <1>10
  <2> HIDE DEF read
  <2>3. [n \in 1..N |-> read(n)] = texts
    BY <2>1, <2>2
  <2> QED
    BY <2>3 DEF read
<1>12. d[N] = from + Len(Fields(texts, widths))
  <2>1. N \in 0..N
    BY <1>1
  <2>2. d[N] = from + Len(c[N])
    BY <1>9, <2>1
  <2> QED
    BY <1>1, <1>2, <2>2
<1> QED
  BY <1>3, <1>11, <1>12

-----------------------------------------------------------------------------
(* Property maps are written and read.                                     *)

\* An even number and the odd one before it.
LEMMA Even ==
  ASSUME NEW m \in Nat
  PROVE  (2 * m) % 2 = 0 /\ (2 * m) \div 2 = m
<1>1. PICK q \in Nat, r \in 0..1 : q = (2 * m) \div 2 /\ r = (2 * m) % 2 /\ 2 * m = q * 2 + r
  <2>1. 2 * m \in Nat /\ 2 \in Nat /\ 2 > 0 /\ 2 - 1 = 1
    OBVIOUS
  <2> QED
    BY <2>1, Division
<1>2. q = m /\ r = 0
  BY <1>1
<1> QED
  BY <1>1, <1>2

\* The odd places of a walk are those of the keys.
LEMMA Odd ==
  ASSUME NEW m \in Nat \ {0}
  PROVE  (2 * m - 1) % 2 = 1 /\ (2 * m - 1 + 1) \div 2 = m
<1>1. PICK q \in Nat, r \in 0..1 :
        q = (2 * m - 1) \div 2 /\ r = (2 * m - 1) % 2 /\ 2 * m - 1 = q * 2 + r
  <2>1. 2 * m - 1 \in Nat /\ 2 \in Nat /\ 2 > 0 /\ 2 - 1 = 1
    OBVIOUS
  <2> QED
    BY <2>1, Division
<1>2. r = 1
  BY <1>1
<1>3. 2 * m - 1 + 1 = 2 * m
  OBVIOUS
<1>4. (2 * m) \div 2 = m
  BY Even
<1> QED
  BY <1>1, <1>2, <1>3, <1>4

\* Every place of a walk is that of a key or of a value.
LEMMA Halves ==
  ASSUME NEW k \in Nat, NEW n \in 1..2 * k
  PROVE  \E m \in 1..k : n = 2 * m - 1 \/ n = 2 * m
<1>1. PICK q \in Nat, r \in 0..1 : q = n \div 2 /\ r = n % 2 /\ n = q * 2 + r
  <2>1. n \in Nat /\ 2 \in Nat /\ 2 > 0 /\ 2 - 1 = 1
    OBVIOUS
  <2> QED
    BY <2>1, Division
<1>2. CASE r = 0
  <2>1. q \in 1..k /\ n = 2 * q
    BY <1>1, <1>2
  <2> QED
    BY <2>1
<1>3. CASE r = 1
  <2>1. q + 1 \in 1..k /\ n = 2 * (q + 1) - 1
    BY <1>1, <1>3
  <2> QED
    BY <2>1
<1> QED
  BY <1>2, <1>3

\* Texts are bytes.
LEMMA CharsBytes ==
  ASSUME NEW t \in Seq(Chars)
  PROVE  t \in Seq(Byte)
BY EncodingAssumption

\* The keys and values of a row, each with a length that its field holds.
LEMMA RowTexts ==
  ASSUME NEW props \in Props, NEW k \in DOMAIN props
  PROVE  /\ k \in Seq(Chars) /\ props[k] \in Seq(Chars)
         /\ k \in Seq(Byte) /\ props[k] \in Seq(Byte)
         /\ Fits(k, 2) /\ Fits(props[k], 4) /\ Len(props[k]) \in Nat
<1>1. k \in Seq(Chars) /\ props[k] \in Seq(Chars)
  BY EncodingAssumption
<1>2. k \in Texts16 /\ Len(props[k]) <= MaxRowBytes
  BY FitsAssumption DEF Texts16
<1>3. Len(k) < Base * Base
  BY <1>2, FitsAssumption
<1>4. Len(props[k]) \in Nat /\ MaxRowBytes \in Nat
  BY <1>1, EncodingAssumption
<1>5. 12 + 3 * MaxRowBytes < Base * Base * Base * Base /\ Base * Base * Base * Base \in Nat
  BY FitsAssumption, BaseType, Products
<1>6. Len(props[k]) < Base * Base * Base * Base
  <2>1. \A x, y, z \in Nat : x <= y /\ 12 + 3 * y < z => x < z
    OBVIOUS
  <2> QED
    BY <1>2, <1>4, <1>5, <2>1
<1> QED
  BY <1>1, <1>3, <1>4, <1>6, CharsBytes DEF Fits

\* A map is walked through all of its keys, each once.
LEMMA OrderFacts ==
  ASSUME NEW props \in Props, NEW order \in SetToSeqs(DOMAIN props)
  PROVE  /\ Len(order) \in Nat /\ Len(order) < Base * Base
         /\ order \in [1..Len(order) -> DOMAIN props]
         /\ \A n, m \in 1..Len(order) : order[n] = order[m] => n = m
         /\ \A k \in DOMAIN props : \E n \in 1..Len(order) : order[n] = k
<1> DEFINE D == DOMAIN props
           N == Cardinality(D)
<1>1. IsFiniteSet(D) /\ N < Base * Base
  BY EncodingAssumption, FitsAssumption
<1>2. N \in Nat
  BY <1>1, FS_CardinalityType
<1>3. order \in [1..N -> D] /\ \A n, m \in 1..N : n # m => order[n] # order[m]
  BY DEF SetToSeqs
<1> HIDE DEF D, N
<1>4. Len(order) = N
  BY <1>2, <1>3
<1>5. order \in Injection(1..N, D)
  BY <1>3 DEF Injection, IsInjective
<1>6. IsFiniteSet(1..N) /\ Cardinality(1..N) = N
  BY <1>2, FS_Interval
<1>7. order \in Surjection(1..N, D)
  BY <1>1, <1>5, <1>6, FS_Injection DEF N
<1>8. \A k \in D : \E n \in 1..N : order[n] = k
  BY <1>7 DEF Surjection
<1> QED
  BY <1>1, <1>2, <1>3, <1>4, <1>8 DEF D

\* A walk as a sequence of texts.
LEMMA WalkTexts ==
  ASSUME NEW props \in Props, NEW order \in SetToSeqs(DOMAIN props)
  PROVE  LET walk == Walk(props, order)
             widths == PropWidths(Len(order))
         IN  /\ walk \in Seq(Seq(Byte)) /\ widths \in Seq({2, 4})
             /\ Len(walk) = 2 * Len(order) /\ Len(widths) = Len(walk)
             /\ \A n \in 1..Len(walk) : Fits(walk[n], widths[n])
             /\ \A n \in 1..Len(order) :
                  /\ 2 * n - 1 \in 1..Len(walk) /\ 2 * n \in 1..Len(walk)
                  /\ walk[2 * n - 1] = order[n] /\ walk[2 * n] = props[order[n]]
                  /\ widths[2 * n - 1] = 2 /\ widths[2 * n] = 4
<1> DEFINE K == Len(order)
           walk == Walk(props, order)
           widths == PropWidths(K)
           at(n) == IF n % 2 = 1 THEN order[(n + 1) \div 2] ELSE props[order[n \div 2]]
           width(n) == IF n % 2 = 1 THEN 2 ELSE 4
<1>1. K \in Nat /\ \A n \in 1..K : order[n] \in DOMAIN props
  BY OrderFacts
<1>2. walk = [n \in 1..2 * K |-> at(n)] /\ widths = [n \in 1..2 * K |-> width(n)]
  BY DEF Walk, PropWidths
<1>3. \A n \in 1..K : /\ at(2 * n - 1) = order[n] /\ at(2 * n) = props[order[n]]
                      /\ width(2 * n - 1) = 2 /\ width(2 * n) = 4
  <2> TAKE n \in 1..K
  <2>1. n \in Nat /\ n \in Nat \ {0}
    BY <1>1
  <2>2. (2 * n) % 2 = 0 /\ (2 * n) \div 2 = n
    BY <2>1, Even
  <2>3. (2 * n - 1) % 2 = 1 /\ (2 * n - 1 + 1) \div 2 = n
    BY <2>1, Odd
  <2>4. at(2 * n - 1) = order[n] /\ width(2 * n - 1) = 2
    BY <2>3, Zenon
  <2>5. at(2 * n) = props[order[n]] /\ width(2 * n) = 4
    BY <2>2
  <2> QED
    BY <2>4, <2>5
<1> HIDE DEF K, walk, widths, at, width
<1>4. \A n \in 1..K : 2 * n - 1 \in 1..2 * K /\ 2 * n \in 1..2 * K
  BY <1>1
<1>5. \A n \in 1..K : /\ walk[2 * n - 1] = order[n] /\ walk[2 * n] = props[order[n]]
                      /\ widths[2 * n - 1] = 2 /\ widths[2 * n] = 4
  <2> TAKE n \in 1..K
  <2>1. 2 * n - 1 \in 1..2 * K /\ 2 * n \in 1..2 * K
    BY <1>4
  <2>2. /\ walk[2 * n - 1] = at(2 * n - 1) /\ walk[2 * n] = at(2 * n)
        /\ widths[2 * n - 1] = width(2 * n - 1) /\ widths[2 * n] = width(2 * n)
    BY <1>2, <2>1
  <2> QED
    BY <1>3, <2>2
<1>6. ASSUME NEW n \in 1..2 * K
      PROVE  walk[n] \in Seq(Byte) /\ widths[n] \in {2, 4} /\ Fits(walk[n], widths[n])
  <2>1. PICK m \in 1..K : n = 2 * m - 1 \/ n = 2 * m
    BY <1>1, Halves
  <2>2. order[m] \in DOMAIN props
    BY <1>1
  <2>3. /\ order[m] \in Seq(Byte) /\ props[order[m]] \in Seq(Byte)
        /\ Fits(order[m], 2) /\ Fits(props[order[m]], 4)
    BY <2>2, RowTexts
  <2>4. CASE n = 2 * m - 1
    <3>1. walk[n] = order[m] /\ widths[n] = 2
      BY <1>5, <2>4
    <3> QED
      BY <2>3, <3>1
  <2>5. CASE n = 2 * m
    <3>1. walk[n] = props[order[m]] /\ widths[n] = 4
      BY <1>5, <2>5
    <3> QED
      BY <2>3, <3>1
  <2> QED
    BY <2>1, <2>4, <2>5
<1>7. 2 * K \in Nat
  BY <1>1
<1>8. walk \in Seq(Seq(Byte)) /\ Len(walk) = 2 * K
  <2> DEFINE L == 2 * K
  <2>1. DOMAIN walk = 1..L /\ walk = [n \in 1..L |-> walk[n]]
    BY <1>2
  <2> HIDE DEF L
  <2> QED
    BY <1>6, <1>7, <2>1 DEF L
<1>9. widths \in Seq({2, 4}) /\ Len(widths) = 2 * K
  <2> DEFINE L == 2 * K
  <2>1. DOMAIN widths = 1..L /\ widths = [n \in 1..L |-> widths[n]]
    BY <1>2
  <2> HIDE DEF L
  <2> QED
    BY <1>6, <1>7, <2>1 DEF L
<1>10. /\ \A n \in 1..Len(walk) : Fits(walk[n], widths[n])
       /\ \A n \in 1..K : 2 * n - 1 \in 1..Len(walk) /\ 2 * n \in 1..Len(walk)
  BY <1>4, <1>6, <1>8
<1> QED
  BY <1>5, <1>8, <1>9, <1>10 DEF K, walk, widths

\* Parts put together are made of what the parts are.
LEMMA JoinedIn ==
  ASSUME NEW T, NEW parts \in Seq(Seq(T))
  PROVE  Joined(parts) \in Seq(T)
<1>1. PICK c \in [0..Len(parts) -> Seq(T)] : Joined(parts) = c[Len(parts)]
  BY JoinedParts
<1>2. Len(parts) \in 0..Len(parts)
  OBVIOUS
<1> QED
  BY <1>1, <1>2

\* Fields are bytes.
LEMMA FieldsIn ==
  ASSUME NEW texts \in Seq(Seq(Byte)), NEW widths \in Seq({2, 4}), Len(widths) = Len(texts)
  PROVE  Fields(texts, widths) \in Seq(Byte)
BY PartsBytes, JoinedIn

\* The lengths after each of some parts.
LEMMA JoinedLengths ==
  ASSUME NEW parts \in Seq(Seq(Byte))
  PROVE  \E c \in [0..Len(parts) -> Nat] :
           /\ c[0] = 0 /\ \A n \in 1..Len(parts) : c[n] = c[n - 1] + Len(parts[n])
           /\ Len(Joined(parts)) = c[Len(parts)]
<1> DEFINE N == Len(parts)
<1>1. N \in Nat /\ \A n \in 1..N : parts[n] \in Seq(Byte)
  OBVIOUS
<1>2. PICK c \in [0..N -> Seq(Byte)] :
        /\ c[0] = <<>> /\ \A n \in 1..N : c[n] = c[n - 1] \o parts[n]
        /\ Joined(parts) = c[N]
  BY JoinedParts
<1> DEFINE l == [n \in 0..N |-> Len(c[n])]
<1> HIDE DEF N
<1>3. l \in [0..N -> Nat] /\ \A n \in 0..N : l[n] = Len(c[n])
  OBVIOUS
<1> HIDE DEF l
<1>4. l[0] = 0 /\ Len(Joined(parts)) = l[N]
  <2>1. 0 \in 0..N /\ N \in 0..N
    BY <1>1
  <2> QED
    BY <1>2, <1>3, <2>1
<1>5. ASSUME NEW n \in 1..N PROVE l[n] = l[n - 1] + Len(parts[n])
  <2>1. n - 1 \in 0..N /\ n \in 0..N
    BY <1>1
  <2>2. c[n - 1] \in Seq(Byte) /\ parts[n] \in Seq(Byte) /\ c[n] = c[n - 1] \o parts[n]
    BY <1>1, <1>2, <2>1
  <2>3. Len(c[n]) = Len(c[n - 1]) + Len(parts[n])
    BY <2>2, Concat
  <2> QED
    BY <1>3, <2>1, <2>3
<1> QED
  BY <1>3, <1>4, <1>5 DEF N

\* The bytes of a map are as many as the code makes room for.
LEMMA PropsLength ==
  ASSUME NEW props \in Props, NEW order \in SetToSeqs(DOMAIN props)
  PROVE  /\ PropBytes(props, order) \in Seq(Byte)
         /\ Len(PropBytes(props, order)) = 2 + Total(PropSizes(props, order))
         /\ Total(PropSizes(props, order)) \in Nat
<1> DEFINE K == Len(order)
           walk == Walk(props, order)
           widths == PropWidths(K)
           parts == Parts(walk, widths)
           sizes == PropSizes(props, order)
<1>1. /\ K \in Nat /\ order \in [1..K -> DOMAIN props]
  BY OrderFacts
<1>2. /\ walk \in Seq(Seq(Byte)) /\ widths \in Seq({2, 4})
      /\ Len(walk) = 2 * K /\ Len(widths) = Len(walk)
      /\ \A n \in 1..K : /\ 2 * n - 1 \in 1..Len(walk) /\ 2 * n \in 1..Len(walk)
                         /\ walk[2 * n - 1] = order[n] /\ walk[2 * n] = props[order[n]]
                         /\ widths[2 * n - 1] = 2 /\ widths[2 * n] = 4
  BY WalkTexts
<1>3. \A n \in 1..K : Len(order[n]) \in Nat /\ Len(props[order[n]]) \in Nat
  <2> TAKE n \in 1..K
  <2>1. order[n] \in DOMAIN props
    BY <1>1
  <2>2. order[n] \in Seq(Byte) /\ props[order[n]] \in Seq(Byte)
    BY <2>1, RowTexts
  <2> QED
    BY <2>2
<1>4. /\ sizes \in Seq(Nat) /\ Len(sizes) = K
      /\ \A n \in 1..K : sizes[n] = 2 + Len(order[n]) + 4 + Len(props[order[n]])
  <2> DEFINE size(n) == 2 + Len(order[n]) + 4 + Len(props[order[n]])
  <2>1. sizes = [n \in 1..K |-> size(n)]
    BY DEF PropSizes
  <2>2. \A n \in 1..K : size(n) \in Nat
    <3> TAKE n \in 1..K
    <3>1. PICK x \in Nat, y \in Nat : x = Len(order[n]) /\ y = Len(props[order[n]])
      BY <1>3
    <3>2. size(n) = 2 + x + 4 + y
      BY <3>1
    <3> HIDE DEF size
    <3> QED
      BY <3>2
  <2> HIDE DEF size, sizes, K
  <2>3. sizes \in Seq(Nat) /\ Len(sizes) = K /\ \A n \in 1..K : sizes[n] = size(n)
    BY <1>1, <2>1, <2>2
  <2> QED
    BY <2>3 DEF size, sizes, K
<1> HIDE DEF walk, widths, sizes, K
<1>5. /\ parts \in Seq(Seq(Byte)) /\ Len(parts) = 2 * K
      /\ Fields(walk, widths) = Joined(parts)
      /\ \A n \in 1..2 * K : Len(parts[n]) = widths[n] + Len(walk[n])
  <2>1. Len(walk) = 2 * K
    BY <1>2
  <2>2. /\ Parts(walk, widths) \in Seq(Seq(Byte)) /\ Len(Parts(walk, widths)) = Len(walk)
        /\ Fields(walk, widths) = Joined(Parts(walk, widths))
    BY <1>2, PartsBytes, Zenon
  <2>3. \A n \in 1..Len(walk) : Len(Parts(walk, widths)[n]) = widths[n] + Len(walk[n])
    BY <1>2, PartsBytes, Zenon
  <2> QED
    BY <2>1, <2>2, <2>3, Zenon
<1> HIDE DEF parts
<1>6. PICK c \in [0..2 * K -> Nat] :
        /\ c[0] = 0 /\ \A n \in 1..2 * K : c[n] = c[n - 1] + Len(parts[n])
        /\ Len(Joined(parts)) = c[2 * K]
  <2>1. \E c \in [0..Len(parts) -> Nat] :
          /\ c[0] = 0 /\ \A n \in 1..Len(parts) : c[n] = c[n - 1] + Len(parts[n])
          /\ Len(Joined(parts)) = c[Len(parts)]
    BY <1>5, JoinedLengths
  <2> QED
    BY <1>5, <2>1
<1>7. PICK s \in [0..K -> Nat] :
        /\ s[0] = 0 /\ \A n \in 1..K : s[n] = s[n - 1] + sizes[n]
        /\ Total(sizes) = s[K]
  <2>1. \E s \in [0..Len(sizes) -> Nat] :
          /\ s[0] = 0 /\ \A n \in 1..Len(sizes) : s[n] = s[n - 1] + sizes[n]
          /\ Total(sizes) = s[Len(sizes)]
    BY <1>4, TotalSizes
  <2> QED
    BY <1>4, <2>1
<1>8. \A n \in 1..K : c[2 * n] = c[2 * (n - 1)] + sizes[n]
  <2> TAKE n \in 1..K
  <2>1. /\ 2 * n - 1 \in 1..2 * K /\ 2 * n \in 1..2 * K /\ (2 * n - 1) - 1 = 2 * (n - 1)
        /\ 2 * (n - 1) \in 0..2 * K
    BY <1>1
  <2>2. PICK x \in Nat, y \in Nat, u \in Nat :
          x = Len(order[n]) /\ y = Len(props[order[n]]) /\ u = c[2 * (n - 1)]
    BY <1>3, <1>6, <2>1
  <2>3. Len(parts[2 * n - 1]) = 2 + x /\ Len(parts[2 * n]) = 4 + y
    BY <1>2, <1>5, <2>1, <2>2
  <2>4. c[2 * n - 1] = u + (2 + x)
    BY <1>6, <2>1, <2>2, <2>3
  <2>5. c[2 * n] = c[2 * n - 1] + Len(parts[2 * n])
    BY <1>6, <2>1
  <2>6. sizes[n] = 2 + x + 4 + y
    BY <1>4, <2>2
  <2>7. c[2 * n] = (u + (2 + x)) + (4 + y)
    BY <2>3, <2>4, <2>5
  <2>8. (u + (2 + x)) + (4 + y) = u + (2 + x + 4 + y)
    OBVIOUS
  <2> QED
    BY <2>2, <2>6, <2>7, <2>8
<1>9. \A n \in 0..K : c[2 * n] = s[n]
  <2> DEFINE P == {n \in 0..K : c[2 * n] = s[n]}
  <2>1. 0 \in P
    BY <1>1, <1>6, <1>7
  <2>2. ASSUME NEW n \in 1..K, n - 1 \in P PROVE n \in P
    <3>1. c[2 * (n - 1)] = s[n - 1] /\ n \in 0..K
      BY <1>1, <2>2
    <3> QED
      BY <1>7, <1>8, <3>1
  <2>3. 0..K \subseteq P
    <3> HIDE DEF P
    <3> QED
      BY <1>1, <2>1, <2>2, Climb
  <2> QED
    BY <2>3
<1>10. Len(Fields(walk, widths)) = Total(sizes) /\ Total(sizes) \in Nat
  <2>1. K \in 0..K
    BY <1>1
  <2> QED
    BY <1>5, <1>6, <1>7, <1>9, <2>1
<1>11. U16(K) \in Seq(Byte) /\ Len(U16(K)) = 2
  BY <1>1, U16Bytes
<1>12. Fields(walk, widths) \in Seq(Byte)
  BY <1>2, FieldsIn
<1>13. PropBytes(props, order) = U16(K) \o Fields(walk, widths)
  BY DEF PropBytes, K, walk, widths
<1> DEFINE x == U16(K)
           y == Fields(walk, widths)
<1>14. x \in Seq(Byte) /\ y \in Seq(Byte)
  BY <1>11, <1>12
<1> HIDE DEF x, y
<1>15. x \o y \in Seq(Byte) /\ Len(x \o y) = Len(x) + Len(y)
  BY <1>14, Concat
<1> QED
  BY <1>10, <1>11, <1>13, <1>15 DEF sizes, x, y

\* A map reads back as it was, in whatever order it was walked.
LEMMA ReadProps ==
  ASSUME NEW props \in Props, NEW order \in SetToSeqs(DOMAIN props),
         NEW b \in Seq(Byte), NEW from \in Nat \ {0},
         Occurs(b, from, PropBytes(props, order))
  PROVE  PropsAt(b, from) = [props |-> props, next |-> from + Len(PropBytes(props, order))]
<1> DEFINE K == Len(order)
           walk == Walk(props, order)
           widths == PropWidths(K)
           t == Texts(b, from + 2, PropWidths(U16At(b, from)))
           read == {t.texts[2 * n - 1] : n \in 1..U16At(b, from)}
<1>1. /\ K \in Nat /\ K < Base * Base /\ order \in [1..K -> DOMAIN props]
      /\ \A n, m \in 1..K : order[n] = order[m] => n = m
      /\ \A k \in DOMAIN props : \E n \in 1..K : order[n] = k
  BY OrderFacts
<1>2. /\ walk \in Seq(Seq(Byte)) /\ widths \in Seq({2, 4}) /\ Len(widths) = Len(walk)
      /\ \A n \in 1..Len(walk) : Fits(walk[n], widths[n])
      /\ \A n \in 1..K : walk[2 * n - 1] = order[n] /\ walk[2 * n] = props[order[n]]
  BY WalkTexts
<1>3. PropBytes(props, order) = U16(K) \o Fields(walk, widths)
  BY DEF PropBytes
<1>4. PropsAt(b, from) =
        [props |-> [k \in read |->
           t.texts[2 * (CHOOSE n \in 1..U16At(b, from) : t.texts[2 * n - 1] = k)]],
         next |-> t.next]
  BY DEF PropsAt
<1> HIDE DEF walk, K
<1>5. U16(K) \in Seq(Byte) /\ Len(U16(K)) = 2 /\ Fields(walk, widths) \in Seq(Byte)
  BY <1>1, <1>2, U16Bytes, FieldsIn
<1>6. Occurs(b, from, U16(K)) /\ Occurs(b, from + 2, Fields(walk, widths))
  BY <1>3, <1>5, OccursConcat
<1>7. U16At(b, from) = K
  BY <1>1, <1>6, ReadU16
<1> DEFINE end == from + 2 + Len(Fields(walk, widths))
<1>8. t = [texts |-> walk, next |-> end]
  BY <1>2, <1>6, <1>7, ReadFields
<1> HIDE DEF t, end
<1>9. \A n \in 1..K : t.texts[2 * n - 1] = order[n] /\ t.texts[2 * n] = props[order[n]]
  BY <1>2, <1>8
<1>10. read = DOMAIN props
  <2>1. ASSUME NEW k \in DOMAIN props PROVE k \in read
    <3>1. PICK n \in 1..K : order[n] = k
      BY <1>1
    <3>2. t.texts[2 * n - 1] = k /\ n \in 1..U16At(b, from)
      BY <1>7, <1>9, <3>1
    <3> QED
      BY <3>2
  <2>2. ASSUME NEW k \in read PROVE k \in DOMAIN props
    <3>1. PICK n \in 1..K : k = t.texts[2 * n - 1]
      BY <1>7
    <3>2. k = order[n]
      BY <1>9, <3>1
    <3>3. order[n] \in DOMAIN props
      BY <1>1
    <3> QED
      BY <3>2, <3>3
  <2> HIDE DEF read
  <2> QED
    BY <2>1, <2>2
<1> DEFINE which(k) == CHOOSE n \in 1..U16At(b, from) : t.texts[2 * n - 1] = k
<1>11. \A k \in DOMAIN props : t.texts[2 * which(k)] = props[k]
  <2> TAKE k \in DOMAIN props
  <2>1. \E n \in 1..U16At(b, from) : t.texts[2 * n - 1] = k
    BY <1>10
  <2>2. which(k) \in 1..U16At(b, from) /\ t.texts[2 * which(k) - 1] = k
    BY <2>1
  <2> HIDE DEF which
  <2> QED
    BY <1>7, <1>9, <2>2
<1> HIDE DEF which
<1>12. [k \in read |-> t.texts[2 * which(k)]] = props
  <2>1. props = [k \in DOMAIN props |-> props[k]]
    BY EncodingAssumption
  <2> DEFINE value(k) == t.texts[2 * which(k)]
  <2>2. \A k \in DOMAIN props : value(k) = props[k]
    BY <1>11
  <2> HIDE DEF value
  <2>3. [k \in DOMAIN props |-> value(k)] = props
    BY <2>1, <2>2
  <2> HIDE DEF read
  <2> QED
    BY <1>10, <2>3 DEF value
<1>13. end = from + Len(PropBytes(props, order))
  <2>1. PICK x \in Nat : x = Len(Fields(walk, widths))
    BY <1>5
  <2> DEFINE u == U16(K)
             v == Fields(walk, widths)
  <2>2. Len(u \o v) = Len(u) + Len(v)
    <3>1. u \in Seq(Byte) /\ v \in Seq(Byte)
      BY <1>5
    <3> HIDE DEF u, v
    <3> QED
      BY <3>1, Concat
  <2>3. Len(PropBytes(props, order)) = 2 + x
    BY <1>3, <1>5, <2>1, <2>2
  <2> QED
    BY <2>1, <2>3 DEF end
<1> HIDE DEF read
<1> QED
  BY <1>4, <1>8, <1>12, <1>13 DEF which

-----------------------------------------------------------------------------
(* Rows are written and read.                                              *)

\* A buffer of the right size is filled to its end.
LEMMA Exact ==
  ASSUME NEW bytes \in Seq(Byte), NEW size, size = Len(bytes)
  PROVE  Filling(size, bytes) = bytes
<1>1. size \in Nat /\ ~(Len(bytes) > size) /\ size - Len(bytes) = 0
  OBVIOUS
<1> DEFINE rest == [z \in 1..0 |-> 0]
<1>2. Filling(size, bytes) = bytes \o rest
  BY <1>1 DEF Filling
<1>3. rest = <<>>
  OBVIOUS
<1> HIDE DEF rest
<1>4. bytes \o <<>> = bytes
  OBVIOUS
<1> QED
  BY <1>2, <1>3, <1>4

\* Two parts and the buffer that holds them.
LEMMA TwoParts ==
  ASSUME NEW x \in Seq(Byte), NEW y \in Seq(Byte), NEW b, b = x \o y
  PROVE  /\ b \in Seq(Byte) /\ Len(b) = Len(x) + Len(y)
         /\ Len(x) \in Nat /\ Len(y) \in Nat
         /\ 1 + Len(x) \in Nat \ {0} /\ 1 + Len(x) + Len(y) = Len(b) + 1
         /\ Occurs(b, 1, x) /\ Occurs(b, 1 + Len(x), y)
<1>1. b \in Seq(Byte) /\ Len(b) = Len(x) + Len(y)
  BY Concat
<1>2. PICK n \in Nat, m \in Nat : n = Len(x) /\ m = Len(y)
  OBVIOUS
<1>3. 1 + Len(x) \in Nat \ {0} /\ 1 + Len(x) + Len(y) = Len(b) + 1
  BY <1>1, <1>2
<1>4. Occurs(b, 1, x \o y)
  BY <1>1, OccursWhole
<1>5. 1 \in Nat \ {0}
  OBVIOUS
<1>6. Occurs(b, 1, x) /\ Occurs(b, 1 + Len(x), y)
  BY <1>1, <1>4, <1>5, OccursConcat
<1> QED
  BY <1>1, <1>2, <1>3, <1>6

\* Ids, labels and endpoints fit fields of two bytes.
LEMMA NameTexts ==
  ASSUME NEW t \in Names
  PROVE  t \in Seq(Chars) /\ t \in Seq(Byte) /\ Fits(t, 2)
<1>1. t \in Seq(Chars)
  BY EncodingAssumption, HashAssumption DEF Names
<1>2. t \in Texts16
  BY DEF Texts16
<1> QED
  BY <1>1, <1>2, CharsBytes, FitsAssumption DEF Fits

\* The value of a node reads back as its row.
LEMMA NodeValue ==
  ASSUME NEW label \in Labels, NEW props \in Props, NEW order \in SetToSeqs(DOMAIN props)
  PROVE  LET b == EncodeNodeValue(label, props, order)
         IN  /\ b \in Seq(Byte) /\ b # <<>> /\ Len(b) <= MaxRowBytes
             /\ NodeRead(b) = {[label |-> label, props |-> props]}
<1> DEFINE x == Field(label, 2)
           y == PropBytes(props, order)
           total == Total(PropSizes(props, order))
           size == 4 + Len(label) + total
           b == EncodeNodeValue(label, props, order)
<1>1. label \in Seq(Byte) /\ Fits(label, 2)
  BY NameTexts DEF Names
<1>2. x \in Seq(Byte) /\ Len(x) = 2 + Len(label)
  BY <1>1, FieldBytes
<1>3. y \in Seq(Byte) /\ Len(y) = 2 + total /\ total \in Nat
  BY PropsLength
<1>4. b = Filling(size, x \o y)
  BY DEF EncodeNodeValue
<1>5. Len(b) <= MaxRowBytes
  BY FitsAssumption
<1>6. PICK n \in Nat : n = Len(label)
  BY <1>1
<1> HIDE DEF x, y, total, b
<1>7. x \o y \in Seq(Byte) /\ Len(x \o y) = Len(x) + Len(y)
  BY <1>2, <1>3, Concat
<1>8. size = Len(x \o y)
  BY <1>2, <1>3, <1>6, <1>7
<1>9. b = x \o y
  BY <1>4, <1>7, <1>8, Exact
<1>10. b \in Seq(Byte) /\ Len(b) = 2 + n + Len(y)
  BY <1>2, <1>6, <1>7, <1>9
<1>11. Occurs(b, 1, x) /\ Occurs(b, 1 + Len(x), y)
  BY <1>2, <1>3, <1>9, TwoParts
<1>12. Text(b, 1, 2) = [text |-> label, next |-> 1 + Len(x)]
  BY <1>1, <1>10, <1>11, ReadField DEF x
<1>13. 1 + Len(x) \in Nat \ {0}
  BY <1>2, <1>3, TwoParts
<1>14. PropsAt(b, 1 + Len(x)) = [props |-> props, next |-> 1 + Len(x) + Len(y)]
  BY <1>10, <1>11, <1>13, ReadProps DEF y
<1>15. 1 + Len(x) + Len(y) = Len(b) + 1
  <2>1. x \in Seq(Byte) /\ y \in Seq(Byte)
    BY <1>2, <1>3
  <2> QED
    BY <1>9, <2>1, TwoParts
<1>16. NodeRead(b) = {[label |-> label, props |-> props]}
  BY <1>12, <1>14, <1>15 DEF NodeRead, Whole
<1>17. b # <<>>
  BY <1>2, <1>3, <1>6, <1>10
<1> QED
  BY <1>5, <1>10, <1>16, <1>17 DEF b

\* The rows of edges, their ids in.
Edges == [id : EdgeIds \cup {FormatUint(x) : x \in State}, label : Labels, src : NodeIds,
          dst : NodeIds, props : Props]

\* The four texts of an edge fit their fields, and their lengths add up.
LEMMA EdgeFields ==
  ASSUME NEW e \in Edges
  PROVE  /\ EdgeTexts(e) \in Seq(Seq(Byte)) /\ EdgeWidths \in Seq({2, 4})
         /\ Len(EdgeTexts(e)) = 4 /\ Len(EdgeWidths) = 4
         /\ \A n \in 1..4 : Fits(EdgeTexts(e)[n], EdgeWidths[n])
         /\ Len(Fields(EdgeTexts(e), EdgeWidths)) =
              2 + Len(e.id) + 2 + Len(e.label) + 2 + Len(e.src) + 2 + Len(e.dst)
         /\ {Len(e.id), Len(e.label), Len(e.src), Len(e.dst)} \subseteq Nat
<1> DEFINE texts == EdgeTexts(e)
           parts == Parts(texts, EdgeWidths)
<1>1. {e.id, e.label, e.src, e.dst} \subseteq Names
  BY DEF Edges, Names
<1>2. \A t \in {e.id, e.label, e.src, e.dst} : t \in Seq(Byte) /\ Fits(t, 2)
  BY <1>1, NameTexts
<1>3. texts \in Seq(Seq(Byte)) /\ Len(texts) = 4
  BY <1>2 DEF EdgeTexts
<1>4. texts[1] = e.id /\ texts[2] = e.label /\ texts[3] = e.src /\ texts[4] = e.dst
  BY DEF EdgeTexts
<1>5. EdgeWidths \in Seq({2, 4}) /\ Len(EdgeWidths) = 4 /\ \A n \in 1..4 : EdgeWidths[n] = 2
  BY DEF EdgeWidths
<1> HIDE DEF texts
<1>6. \A n \in 1..4 : Fits(texts[n], EdgeWidths[n])
  <2> TAKE n \in 1..4
  <2>1. texts[n] \in {e.id, e.label, e.src, e.dst}
    BY <1>4
  <2> QED
    BY <1>2, <1>5, <2>1
<1>7. /\ parts \in Seq(Seq(Byte)) /\ Len(parts) = 4
      /\ Fields(texts, EdgeWidths) = Joined(parts)
      /\ \A n \in 1..4 : Len(parts[n]) = EdgeWidths[n] + Len(texts[n])
  <2> DEFINE w == EdgeWidths
  <2>1. texts \in Seq(Seq(Byte)) /\ w \in Seq({2, 4}) /\ Len(w) = Len(texts)
    BY <1>3, <1>5
  <2> HIDE DEF w
  <2>2. /\ Parts(texts, w) \in Seq(Seq(Byte)) /\ Len(Parts(texts, w)) = Len(texts)
        /\ Fields(texts, w) = Joined(Parts(texts, w))
    BY <2>1, PartsBytes, Zenon
  <2>3. \A n \in 1..Len(texts) : Len(Parts(texts, w)[n]) = w[n] + Len(texts[n])
    BY <2>1, PartsBytes, Zenon
  <2>4. parts = Parts(texts, w) /\ w = EdgeWidths
    BY DEF w
  <2> HIDE DEF parts
  <2> QED
    BY <1>3, <2>2, <2>3, <2>4
<1> HIDE DEF parts
<1>8. PICK c \in [0..4 -> Nat] :
        /\ c[0] = 0 /\ \A n \in 1..4 : c[n] = c[n - 1] + Len(parts[n])
        /\ Len(Joined(parts)) = c[4]
  BY <1>7, JoinedLengths
<1>9. PICK i \in Nat, l \in Nat, s \in Nat, d \in Nat :
        i = Len(e.id) /\ l = Len(e.label) /\ s = Len(e.src) /\ d = Len(e.dst)
  <2>1. Len(e.id) \in Nat /\ Len(e.label) \in Nat
    BY <1>2
  <2>2. Len(e.src) \in Nat /\ Len(e.dst) \in Nat
    BY <1>2
  <2> QED
    BY <2>1, <2>2, Zenon
<1>10. /\ Len(parts[1]) = 2 + i /\ Len(parts[2]) = 2 + l /\ Len(parts[3]) = 2 + s
       /\ Len(parts[4]) = 2 + d
  <2>1. 1 \in 1..4 /\ 2 \in 1..4 /\ 3 \in 1..4 /\ 4 \in 1..4
    OBVIOUS
  <2>2. \A n \in 1..4 : Len(parts[n]) = 2 + Len(texts[n])
    BY <1>5, <1>7
  <2> QED
    BY <1>4, <1>9, <2>1, <2>2
<1>11. c[4] = 2 + i + 2 + l + 2 + s + 2 + d
  <2>1. c[1] = c[0] + Len(parts[1])
    BY <1>8
  <2>2. c[2] = c[1] + Len(parts[2])
    BY <1>8
  <2>3. c[3] = c[2] + Len(parts[3])
    BY <1>8
  <2>4. c[4] = c[3] + Len(parts[4])
    BY <1>8
  <2> QED
    BY <1>8, <1>10, <2>1, <2>2, <2>3, <2>4
<1>12. Len(Fields(texts, EdgeWidths)) =
         2 + Len(e.id) + 2 + Len(e.label) + 2 + Len(e.src) + 2 + Len(e.dst)
  BY <1>7, <1>8, <1>9, <1>11
<1> QED
  BY <1>3, <1>5, <1>6, <1>9, <1>12 DEF texts

\* The value of an edge reads back as its row.
LEMMA EdgeValue ==
  ASSUME NEW e \in Edges, NEW order \in SetToSeqs(DOMAIN e.props)
  PROVE  LET b == EncodeEdgeValue(e, order)
         IN  b \in Seq(Byte) /\ Len(b) <= MaxRowBytes /\ EdgeRead(b) = {e}
<1> DEFINE x == Fields(EdgeTexts(e), EdgeWidths)
           y == PropBytes(e.props, order)
           total == Total(PropSizes(e.props, order))
           size == 2 + Len(e.id) + 2 + Len(e.label) + 2 + Len(e.src) + 2 + Len(e.dst) + 2 + total
           b == EncodeEdgeValue(e, order)
<1>1. e.props \in Props
  BY DEF Edges
<1>2. /\ EdgeTexts(e) \in Seq(Seq(Byte)) /\ EdgeWidths \in Seq({2, 4})
      /\ Len(EdgeTexts(e)) = 4 /\ Len(EdgeWidths) = 4
      /\ \A n \in 1..4 : Fits(EdgeTexts(e)[n], EdgeWidths[n])
      /\ Len(x) = 2 + Len(e.id) + 2 + Len(e.label) + 2 + Len(e.src) + 2 + Len(e.dst)
      /\ {Len(e.id), Len(e.label), Len(e.src), Len(e.dst)} \subseteq Nat
  BY EdgeFields
<1>3. x \in Seq(Byte)
  BY <1>2, FieldsIn
<1>4. y \in Seq(Byte) /\ Len(y) = 2 + total /\ total \in Nat
  BY <1>1, PropsLength
<1>5. b = Filling(size, x \o y)
  BY DEF EncodeEdgeValue
<1>6. Len(b) <= MaxRowBytes
  <2>1. /\ e.id \in EdgeIds \cup {FormatUint(z) : z \in State}
        /\ e.label \in Labels /\ e.src \in NodeIds /\ e.dst \in NodeIds
    BY DEF Edges
  <2>2. e = [id |-> e.id, label |-> e.label, src |-> e.src, dst |-> e.dst, props |-> e.props]
    BY DEF Edges
  <2> QED
    BY <1>1, <2>1, <2>2, FitsAssumption
<1> HIDE DEF x, y, total, b
<1>7. x \o y \in Seq(Byte) /\ Len(x \o y) = Len(x) + Len(y)
  BY <1>3, <1>4, Concat
<1>8. size = Len(x \o y)
  <2>1. PICK i \in Nat, l \in Nat, s \in Nat, d \in Nat :
          i = Len(e.id) /\ l = Len(e.label) /\ s = Len(e.src) /\ d = Len(e.dst)
    BY <1>2
  <2>2. Len(x) = 2 + i + 2 + l + 2 + s + 2 + d
    BY <1>2, <2>1
  <2>3. size = 2 + i + 2 + l + 2 + s + 2 + d + 2 + total
    BY <2>1
  <2> HIDE DEF size
  <2> QED
    BY <1>4, <1>7, <2>2, <2>3
<1>9. b = x \o y
  BY <1>5, <1>7, <1>8, Exact
<1>10. b \in Seq(Byte)
  BY <1>7, <1>9
<1>11. Occurs(b, 1, x) /\ Occurs(b, 1 + Len(x), y)
  BY <1>3, <1>4, <1>9, TwoParts
<1>12. Texts(b, 1, EdgeWidths) = [texts |-> EdgeTexts(e), next |-> 1 + Len(x)]
  <2>1. \A n \in 1..Len(EdgeTexts(e)) : Fits(EdgeTexts(e)[n], EdgeWidths[n])
    BY <1>2
  <2>2. 1 \in Nat \ {0} /\ Len(EdgeWidths) = Len(EdgeTexts(e))
    BY <1>2
  <2>3. Occurs(b, 1, Fields(EdgeTexts(e), EdgeWidths))
    BY <1>11 DEF x
  <2> QED
    BY <1>2, <1>10, <2>1, <2>2, <2>3, ReadFields DEF x
<1>13. 1 + Len(x) \in Nat \ {0}
  BY <1>3, <1>4, TwoParts
<1>14. PropsAt(b, 1 + Len(x)) = [props |-> e.props, next |-> 1 + Len(x) + Len(y)]
  BY <1>1, <1>10, <1>11, <1>13, ReadProps DEF y
<1>15. 1 + Len(x) + Len(y) = Len(b) + 1
  BY <1>3, <1>4, <1>9, TwoParts, ZenonT(30)
<1>16. EdgeRead(b) = {[id |-> e.id, label |-> e.label, src |-> e.src, dst |-> e.dst,
                       props |-> e.props]}
  BY <1>12, <1>14, <1>15 DEF EdgeRead, Whole, EdgeTexts
<1>17. e = [id |-> e.id, label |-> e.label, src |-> e.src, dst |-> e.dst, props |-> e.props]
  BY DEF Edges
<1> QED
  BY <1>6, <1>10, <1>16, <1>17 DEF b

-----------------------------------------------------------------------------
(* Blobs and fat batches are written and read.                             *)

\* Three values, as long as rows may be.
LEMMA MegaBlob ==
  ASSUME NEW edge \in Seq(Byte), NEW src \in Seq(Byte), NEW dst \in Seq(Byte),
         \A t \in {edge, src, dst} : Len(t) <= MaxRowBytes
  PROVE  LET b == EncodeMegaBlob(edge, src, dst)
         IN  /\ b \in Seq(Byte) /\ Len(b) <= 12 + 3 * MaxRowBytes
             /\ BlobRead(b) = {[edge |-> e, src |-> EndpointRead(src), dst |-> EndpointRead(dst)] :
                                 e \in EdgeRead(edge)}
<1> DEFINE texts == <<edge, src, dst>>
           parts == Parts(texts, BlobWidths)
           b == EncodeMegaBlob(edge, src, dst)
           size == 4 + Len(edge) + 4 + Len(src) + 4 + Len(dst)
<1>1. texts \in Seq(Seq(Byte)) /\ Len(texts) = 3
  OBVIOUS
<1>2. texts[1] = edge /\ texts[2] = src /\ texts[3] = dst
  OBVIOUS
<1>3. BlobWidths \in Seq({2, 4}) /\ Len(BlobWidths) = 3 /\ \A n \in 1..3 : BlobWidths[n] = 4
  BY DEF BlobWidths
<1>4. b = Filling(size, Fields(texts, BlobWidths))
  BY DEF EncodeMegaBlob
<1> HIDE DEF texts, b
<1>5. PICK e \in Nat, s \in Nat, d \in Nat : e = Len(edge) /\ s = Len(src) /\ d = Len(dst)
  OBVIOUS
<1>6. MaxRowBytes \in Nat /\ e <= MaxRowBytes /\ s <= MaxRowBytes /\ d <= MaxRowBytes
  BY <1>5, EncodingAssumption
<1>7. \A n \in 1..3 : Fits(texts[n], BlobWidths[n])
  <2> DEFINE whole == Base * Base * Base * Base
  <2>1. whole \in Nat /\ 12 + 3 * MaxRowBytes < whole
    BY FitsAssumption, BaseType, Products
  <2> HIDE DEF whole
  <2>2. e < whole /\ s < whole /\ d < whole
    BY <1>6, <2>1
  <2>3. Len(edge) < whole /\ Len(src) < whole /\ Len(dst) < whole
    BY <1>5, <2>2
  <2> TAKE n \in 1..3
  <2>4. Len(texts[n]) < whole
    BY <1>2, <2>3
  <2> QED
    BY <1>3, <2>4 DEF Fits, whole
<1>8. /\ parts \in Seq(Seq(Byte)) /\ Len(parts) = 3
      /\ Fields(texts, BlobWidths) = Joined(parts)
      /\ \A n \in 1..3 : Len(parts[n]) = BlobWidths[n] + Len(texts[n])
  <2>1. Len(BlobWidths) = Len(texts)
    BY <1>1, <1>3
  <2>2. /\ parts \in Seq(Seq(Byte)) /\ Len(parts) = Len(texts)
        /\ Fields(texts, BlobWidths) = Joined(parts)
        /\ \A n \in 1..Len(texts) : Len(parts[n]) = BlobWidths[n] + Len(texts[n])
    BY <1>1, <1>3, <2>1, PartsBytes
  <2> HIDE DEF parts
  <2> QED
    BY <1>1, <2>2
<1> HIDE DEF parts
<1>9. PICK c \in [0..3 -> Nat] :
        /\ c[0] = 0 /\ \A n \in 1..3 : c[n] = c[n - 1] + Len(parts[n])
        /\ Len(Joined(parts)) = c[3]
  BY <1>8, JoinedLengths
<1>10. Len(parts[1]) = 4 + e /\ Len(parts[2]) = 4 + s /\ Len(parts[3]) = 4 + d
  <2>1. 1 \in 1..3 /\ 2 \in 1..3 /\ 3 \in 1..3
    OBVIOUS
  <2>2. \A n \in 1..3 : Len(parts[n]) = 4 + Len(texts[n])
    BY <1>3, <1>8
  <2> QED
    BY <1>2, <1>5, <2>1, <2>2
<1>11. c[3] = 4 + e + 4 + s + 4 + d
  <2>1. c[1] = c[0] + Len(parts[1])
    BY <1>9
  <2>2. c[2] = c[1] + Len(parts[2])
    BY <1>9
  <2>3. c[3] = c[2] + Len(parts[3])
    BY <1>9
  <2> QED
    BY <1>9, <1>10, <2>1, <2>2, <2>3
<1> DEFINE f == Fields(texts, BlobWidths)
<1>12. f \in Seq(Byte)
  BY <1>1, <1>3, FieldsIn
<1>13. Len(f) = 4 + e + 4 + s + 4 + d
  BY <1>8, <1>9, <1>11
<1>14. size = Len(f)
  BY <1>5, <1>13
<1> HIDE DEF f, size
<1>15. b = f
  BY <1>4, <1>12, <1>14, Exact DEF f
<1>16. Len(b) <= 12 + 3 * MaxRowBytes
  BY <1>6, <1>13, <1>15
<1>17. Occurs(b, 1, Fields(texts, BlobWidths))
  BY <1>12, <1>15, OccursWhole DEF f
<1>18. Texts(b, 1, BlobWidths) = [texts |-> texts, next |-> 1 + Len(f)]
  <2>1. /\ \A n \in 1..Len(texts) : Fits(texts[n], BlobWidths[n])
        /\ 1 \in Nat \ {0} /\ Len(BlobWidths) = Len(texts)
    BY <1>1, <1>3, <1>7
  <2> QED
    BY <1>1, <1>3, <1>12, <1>15, <1>17, <2>1, ReadFields DEF f
<1>19. 1 + Len(f) = Len(b) + 1
  <2>1. PICK n \in Nat : n = Len(f)
    BY <1>12
  <2> QED
    BY <1>15, <2>1
<1>20. BlobRead(b) = {[edge |-> r, src |-> EndpointRead(src), dst |-> EndpointRead(dst)] :
                        r \in EdgeRead(edge)}
  BY <1>2, <1>18, <1>19 DEF BlobRead
<1> QED
  BY <1>12, <1>15, <1>16, <1>20 DEF b

\* As many blobs as are put, each as long as a blob may be.
LEMMA FatBatch ==
  ASSUME NEW blobsB \in Seq(Seq(Byte)), Len(blobsB) <= MaxPuts,
         \A n \in 1..Len(blobsB) : Len(blobsB[n]) <= 12 + 3 * MaxRowBytes
  PROVE  LET b == EncodeFatBatch(blobsB)
         IN  /\ b \in Seq(Byte) /\ b # <<>>
             /\ FatRead(b) = [n \in 1..Len(blobsB) |-> BlobRead(blobsB[n])]
<1> DEFINE K == Len(blobsB)
           widths == FatWidths(K)
           parts == Parts(blobsB, widths)
           sizes == [n \in 1..K |-> 4 + Len(blobsB[n])]
           b == EncodeFatBatch(blobsB)
           x == U32(K)
           y == Fields(blobsB, widths)
           whole == Base * Base * Base * Base
<1>1. K \in Nat /\ \A n \in 1..K : blobsB[n] \in Seq(Byte) /\ Len(blobsB[n]) \in Nat
  OBVIOUS
<1>2. whole \in Nat /\ 12 + 3 * MaxRowBytes < whole /\ MaxPuts < whole
  BY FitsAssumption, BaseType, Products
<1>3. b = Filling(4 + Total(sizes), x \o y)
  BY DEF EncodeFatBatch
<1>4. widths = [n \in 1..K |-> 4]
  BY DEF FatWidths
<1> HIDE DEF K, whole, b
<1>5. widths \in Seq({2, 4}) /\ Len(widths) = K /\ \A n \in 1..K : widths[n] = 4
  BY <1>1, <1>4
<1>6. sizes \in Seq(Nat) /\ Len(sizes) = K /\ \A n \in 1..K : sizes[n] = 4 + Len(blobsB[n])
  <2> DEFINE at(n) == 4 + Len(blobsB[n])
  <2>1. \A n \in 1..K : at(n) \in Nat
    BY <1>1
  <2> HIDE DEF at
  <2>2. [n \in 1..K |-> at(n)] \in Seq(Nat) /\ Len([n \in 1..K |-> at(n)]) = K
    BY <1>1, <2>1
  <2> QED
    BY <2>2 DEF at
<1> HIDE DEF widths, sizes
<1>7. /\ parts \in Seq(Seq(Byte)) /\ Len(parts) = K /\ y = Joined(parts)
      /\ \A n \in 1..K : Len(parts[n]) = widths[n] + Len(blobsB[n])
  BY <1>5, PartsBytes DEF K
<1> HIDE DEF parts
<1>8. y \in Seq(Byte)
  BY <1>5, FieldsIn DEF K
<1>9. x \in Seq(Byte) /\ Len(x) = 4
  BY <1>1, U32Bytes
<1> HIDE DEF x, y
<1>10. Len(y) = Total(sizes)
  <2>1. PICK c \in [0..K -> Nat] :
          /\ c[0] = 0 /\ \A n \in 1..K : c[n] = c[n - 1] + Len(parts[n])
          /\ Len(Joined(parts)) = c[K]
    <3>1. \E c \in [0..Len(parts) -> Nat] :
            /\ c[0] = 0 /\ \A n \in 1..Len(parts) : c[n] = c[n - 1] + Len(parts[n])
            /\ Len(Joined(parts)) = c[Len(parts)]
      BY <1>7, JoinedLengths
    <3> QED
      BY <1>7, <3>1
  <2>2. PICK s \in [0..K -> Nat] :
          /\ s[0] = 0 /\ \A n \in 1..K : s[n] = s[n - 1] + sizes[n]
          /\ Total(sizes) = s[K]
    <3>1. \E s \in [0..Len(sizes) -> Nat] :
            /\ s[0] = 0 /\ \A n \in 1..Len(sizes) : s[n] = s[n - 1] + sizes[n]
            /\ Total(sizes) = s[Len(sizes)]
      BY <1>6, TotalSizes
    <3> QED
      BY <1>6, <3>1
  <2>3. \A n \in 1..K : Len(parts[n]) = sizes[n]
    BY <1>5, <1>6, <1>7
  <2> DEFINE P == {n \in 0..K : c[n] = s[n]}
  <2>4. 0 \in P
    BY <1>1, <2>1, <2>2
  <2>5. ASSUME NEW n \in 1..K, n - 1 \in P PROVE n \in P
    <3>1. c[n - 1] = s[n - 1] /\ n \in 0..K
      BY <1>1, <2>5
    <3>2. c[n] = c[n - 1] + Len(parts[n]) /\ s[n] = s[n - 1] + sizes[n]
      BY <2>1, <2>2
    <3> QED
      BY <2>3, <3>1, <3>2
  <2>6. 0..K \subseteq P
    <3> HIDE DEF P
    <3> QED
      BY <1>1, <2>4, <2>5, Climb
  <2>7. c[K] = s[K]
    BY <1>1, <2>6
  <2> QED
    BY <1>7, <2>1, <2>2, <2>7
<1>11. x \o y \in Seq(Byte) /\ 4 + Total(sizes) = Len(x \o y)
  <2>1. x \o y \in Seq(Byte) /\ Len(x \o y) = Len(x) + Len(y)
    BY <1>8, <1>9, Concat
  <2> QED
    BY <1>9, <1>10, <2>1
<1>12. b = x \o y
  BY <1>3, <1>11, Exact
<1>13. /\ b \in Seq(Byte) /\ Len(b) = Len(x) + Len(y) /\ Len(y) \in Nat
       /\ 1 + Len(x) + Len(y) = Len(b) + 1
       /\ Occurs(b, 1, x) /\ Occurs(b, 1 + Len(x), y)
  BY <1>8, <1>9, <1>12, TwoParts, ZenonT(30)
<1>14. 1 + Len(x) = 5
  BY <1>9
<1>15. b # <<>>
  <2>1. Len(<<>>) = 0
    OBVIOUS
  <2> QED
    BY <1>9, <1>13, <2>1
<1>16. U32At(b, 1) = K
  <2>1. K < Base * Base * Base * Base
    <3>1. MaxPuts \in Nat /\ K <= MaxPuts
      BY EncodingAssumption DEF K
    <3> QED
      BY <1>1, <1>2, <3>1 DEF whole
  <2>2. Occurs(b, 1, U32(K)) /\ 1 \in Nat \ {0}
    BY <1>13 DEF x
  <2> QED
    BY <1>1, <1>13, <2>1, <2>2, ReadU32
<1>17. \A n \in 1..K : Fits(blobsB[n], widths[n])
  <2> TAKE n \in 1..K
  <2>1. PICK l \in Nat : l = Len(blobsB[n])
    BY <1>1
  <2>2. l <= 12 + 3 * MaxRowBytes /\ MaxRowBytes \in Nat
    BY <2>1, EncodingAssumption DEF K
  <2>3. l < whole
    BY <1>2, <2>2
  <2> QED
    BY <1>5, <2>1, <2>3 DEF Fits, whole
<1>18. Texts(b, 5, widths) = [texts |-> blobsB, next |-> 5 + Len(y)]
  <2>1. /\ \A n \in 1..Len(blobsB) : Fits(blobsB[n], widths[n])
        /\ 5 \in Nat \ {0} /\ Len(widths) = Len(blobsB)
    BY <1>5, <1>17 DEF K
  <2>2. Occurs(b, 5, Fields(blobsB, widths))
    BY <1>13, <1>14 DEF y
  <2> QED
    BY <1>5, <1>13, <2>1, <2>2, ReadFields DEF y
<1>19. 5 + Len(y) = Len(b) + 1
  BY <1>13, <1>14
<1>20. FatRead(b) = [n \in 1..K |-> BlobRead(blobsB[n])]
  <2> DEFINE t == Texts(b, 5, FatWidths(U32At(b, 1)))
  <2>1. t = [texts |-> blobsB, next |-> 5 + Len(y)]
    BY <1>16, <1>18 DEF widths
  <2>2. FatRead(b) =
          IF t.next = Len(b) + 1 THEN [n \in 1..Len(t.texts) |-> BlobRead(t.texts[n])] ELSE <<>>
    BY DEF FatRead
  <2> HIDE DEF t
  <2>3. t.next = Len(b) + 1 /\ t.texts = blobsB
    BY <1>19, <2>1
  <2> QED
    BY <2>2, <2>3 DEF K
<1> QED
  BY <1>13, <1>15, <1>20 DEF b, K

-----------------------------------------------------------------------------
(* Index keys.                                                             *)

\* The separator is a byte.
LEMMA SepIs == SEP \in Byte /\ <<SEP>> \in Seq(Byte) /\ Len(<<SEP>>) = 1
<1>1. SEP \in Byte
  BY BaseType DEF SEP, Byte
<1> QED
  BY <1>1

\* Texts of the same bytes are the same.
LEMMA Same ==
  ASSUME NEW a \in Seq(Byte), NEW b \in Seq(Byte), Len(a) = Len(b),
         \A k \in 1..Len(a) : a[k] = b[k]
  PROVE  a = b
OBVIOUS

\* Elements of a sequence are of its type.
LEMMA Elements ==
  ASSUME NEW T, NEW parts \in Seq(T)
  PROVE  \A n \in 1..Len(parts) : parts[n] \in T
OBVIOUS

\* Two parts put together.
LEMMA JoinedTwo ==
  ASSUME NEW parts \in Seq(Seq(Byte)), Len(parts) = 2
  PROVE  Joined(parts) = parts[1] \o parts[2]
<1>1. PICK c \in [0..Len(parts) -> Seq(Byte)] :
        /\ c[0] = <<>> /\ \A n \in 1..Len(parts) : c[n] = c[n - 1] \o parts[n]
        /\ Joined(parts) = c[Len(parts)]
  BY JoinedParts
<1>2. 1 \in 1..Len(parts) /\ 2 \in 1..Len(parts) /\ 1 - 1 = 0 /\ 2 - 1 = 1
  OBVIOUS
<1>3. c[1] = c[1 - 1] \o parts[1] /\ c[2] = c[2 - 1] \o parts[2]
  BY <1>1, <1>2
<1>4. parts[1] \in Seq(Byte)
  <2>1. \A n \in 1..Len(parts) : parts[n] \in Seq(Byte)
    BY Elements
  <2> QED
    BY <1>2, <2>1
<1>5. <<>> \o parts[1] = parts[1]
  BY <1>4
<1> QED
  BY <1>1, <1>2, <1>3, <1>5

\* Three parts put together.
LEMMA JoinedThree ==
  ASSUME NEW parts \in Seq(Seq(Byte)), Len(parts) = 3
  PROVE  Joined(parts) = (parts[1] \o parts[2]) \o parts[3]
<1>1. PICK c \in [0..Len(parts) -> Seq(Byte)] :
        /\ c[0] = <<>> /\ \A n \in 1..Len(parts) : c[n] = c[n - 1] \o parts[n]
        /\ Joined(parts) = c[Len(parts)]
  BY JoinedParts
<1>2. /\ 1 \in 1..Len(parts) /\ 2 \in 1..Len(parts) /\ 3 \in 1..Len(parts)
      /\ 1 - 1 = 0 /\ 2 - 1 = 1 /\ 3 - 1 = 2
  OBVIOUS
<1>3. /\ c[1] = c[1 - 1] \o parts[1] /\ c[2] = c[2 - 1] \o parts[2]
      /\ c[3] = c[3 - 1] \o parts[3]
  BY <1>1, <1>2
<1>4. parts[1] \in Seq(Byte)
  <2>1. \A n \in 1..Len(parts) : parts[n] \in Seq(Byte)
    BY Elements
  <2> QED
    BY <1>2, <2>1
<1>5. <<>> \o parts[1] = parts[1]
  BY <1>4
<1> QED
  BY <1>1, <1>2, <1>3, <1>5

\* Putting together is associative.
LEMMA Associative ==
  ASSUME NEW a \in Seq(Byte), NEW b \in Seq(Byte), NEW c \in Seq(Byte)
  PROVE  (a \o b) \o c = a \o (b \o c)
<1> DEFINE x == (a \o b) \o c
           y == a \o (b \o c)
<1>1. PICK l \in Nat, m \in Nat, n \in Nat : l = Len(a) /\ m = Len(b) /\ n = Len(c)
  OBVIOUS
<1>2. a \o b \in Seq(Byte) /\ b \o c \in Seq(Byte)
  BY Concat
<1>3. Len(a \o b) = l + m /\ Len(b \o c) = m + n
  BY <1>1, Concat
<1>4. x \in Seq(Byte) /\ y \in Seq(Byte)
  BY <1>2, Concat
<1>5. Len(x) = (l + m) + n /\ Len(y) = l + (m + n)
  BY <1>1, <1>2, <1>3, Concat
<1>6. ASSUME NEW k \in 1..l + m + n PROVE x[k] = y[k]
  <2>1. CASE k \in 1..l
    <3>1. k \in 1..l + m
      BY <2>1
    <3>2. x[k] = (a \o b)[k] /\ (a \o b)[k] = a[k]
      BY <1>1, <1>2, <1>3, <2>1, <3>1, Concat
    <3>3. y[k] = a[k]
      BY <1>1, <1>2, <2>1, Concat
    <3> QED
      BY <3>2, <3>3
  <2>2. CASE k \in l + 1..l + m
    <3>1. k - l \in 1..m /\ k - l \in 1..m + n /\ k \in 1..l + m /\ l + (k - l) = k
      BY <2>2
    <3>2. x[k] = (a \o b)[k] /\ (a \o b)[l + (k - l)] = b[k - l]
      BY <1>1, <1>2, <1>3, <3>1, Concat
    <3>3. y[l + (k - l)] = (b \o c)[k - l] /\ (b \o c)[k - l] = b[k - l]
      BY <1>1, <1>2, <1>3, <3>1, Concat
    <3> QED
      BY <3>1, <3>2, <3>3
  <2>3. CASE k \in l + m + 1..l + m + n
    <3>1. /\ k - (l + m) \in 1..n /\ k - l \in 1..m + n /\ (l + m) + (k - (l + m)) = k
          /\ l + (k - l) = k /\ m + (k - (l + m)) = k - l
      BY <2>3
    <3>2. x[(l + m) + (k - (l + m))] = c[k - (l + m)]
      BY <1>1, <1>2, <1>3, <3>1, Concat
    <3>3. y[l + (k - l)] = (b \o c)[k - l]
      BY <1>1, <1>2, <1>3, <3>1, Concat
    <3>4. (b \o c)[m + (k - (l + m))] = c[k - (l + m)]
      BY <1>1, <3>1, Concat
    <3> QED
      BY <3>1, <3>2, <3>3, <3>4
  <2>4. k \in Nat /\ 1 <= k /\ k <= l + m + n
    OBVIOUS
  <2>5. k \in 1..l \/ k \in l + 1..l + m \/ k \in l + m + 1..l + m + n
    BY <2>4
  <2> QED
    BY <2>1, <2>2, <2>3, <2>5
<1>7. Len(x) = l + m + n /\ Len(y) = l + m + n
  BY <1>5
<1> HIDE DEF x, y
<1>8. x = y
  BY <1>4, <1>6, <1>7
<1> QED
  BY <1>8 DEF x, y

\* A text, the separator and what follows.
Splits(w, a, r) ==
  /\ w \in Seq(Byte) /\ Len(w) = Len(a) + (1 + Len(r))
  /\ \A k \in 1..Len(a) : w[k] = a[k]
  /\ w[Len(a) + 1] = SEP
  /\ \A k \in 1..Len(r) : w[Len(a) + (1 + k)] = r[k]

LEMMA Split ==
  ASSUME NEW a \in Seq(Byte), NEW r \in Seq(Byte)
  PROVE  Splits(a \o (<<SEP>> \o r), a, r)
<1> DEFINE u == <<SEP>> \o r
           w == a \o u
<1>1. /\ u \in Seq(Byte) /\ Len(u) = 1 + Len(r) /\ u[1] = SEP
      /\ \A k \in 1..Len(r) : u[1 + k] = r[k]
  <2>1. u \in Seq(Byte) /\ Len(u) = 1 + Len(r)
    BY SepIs, Concat
  <2>2. u[1] = <<SEP>>[1]
    BY SepIs, Concat
  <2>3. \A k \in 1..Len(r) : u[1 + k] = r[k]
    BY SepIs, Concat
  <2> QED
    BY <2>1, <2>2, <2>3
<1>2. w = a \o u
  OBVIOUS
<1> HIDE DEF u, w
<1>3. /\ w \in Seq(Byte) /\ Len(w) = Len(a) + Len(u)
      /\ \A k \in 1..Len(a) : w[k] = a[k]
      /\ \A k \in 1..Len(u) : w[Len(a) + k] = u[k]
  <2>1. a \in Seq(Byte) /\ u \in Seq(Byte)
    BY <1>1
  <2>2. /\ a \o u \in Seq(Byte) /\ Len(a \o u) = Len(a) + Len(u)
        /\ \A k \in 1..Len(a) : (a \o u)[k] = a[k]
        /\ \A k \in 1..Len(u) : (a \o u)[Len(a) + k] = u[k]
    BY <2>1, Concat
  <2> QED
    BY <1>2, <2>2, Zenon
<1>4. PICK i \in Nat : i = Len(r)
  OBVIOUS
<1>5. 1 \in 1..Len(u) /\ \A k \in 1..i : 1 + k \in 1..Len(u)
  BY <1>1, <1>4
<1>6. w[Len(a) + 1] = SEP
  BY <1>1, <1>3, <1>5
<1>7. \A k \in 1..i : w[Len(a) + (1 + k)] = r[k]
  BY <1>1, <1>3, <1>4, <1>5
<1>8. Splits(w, a, r)
  BY <1>1, <1>3, <1>4, <1>6, <1>7 DEF Splits
<1> QED
  BY <1>8 DEF w, u

\* First parts of the same length are the same, and so is what follows.
LEMMA SameSplit ==
  ASSUME NEW a \in Seq(Byte), NEW r \in Seq(Byte), NEW b \in Seq(Byte), NEW s \in Seq(Byte),
         a \o (<<SEP>> \o r) = b \o (<<SEP>> \o s), Len(a) = Len(b)
  PROVE  a = b /\ r = s
<1>t. a \in Seq(Byte) /\ r \in Seq(Byte) /\ b \in Seq(Byte) /\ s \in Seq(Byte)
  OBVIOUS
<1>1. PICK w : w = a \o (<<SEP>> \o r) /\ w = b \o (<<SEP>> \o s)
  OBVIOUS
<1>2. PICK n \in Nat, i \in Nat, j \in Nat :
        n = Len(a) /\ n = Len(b) /\ i = Len(r) /\ j = Len(s)
  OBVIOUS
<1>3. /\ Len(w) = n + (1 + i) /\ \A k \in 1..n : w[k] = a[k]
      /\ \A k \in 1..i : w[n + (1 + k)] = r[k]
  <2>1. Splits(w, a, r)
    BY <1>1, <1>t, Split, Zenon
  <2> QED
    BY <1>2, <2>1 DEF Splits
<1>4. /\ Len(w) = n + (1 + j) /\ \A k \in 1..n : w[k] = b[k]
      /\ \A k \in 1..j : w[n + (1 + k)] = s[k]
  <2>1. Splits(w, b, s)
    BY <1>1, <1>t, Split, Zenon
  <2> QED
    BY <1>2, <2>1 DEF Splits
<1>5. i = j
  BY <1>3, <1>4
<1>6. \A k \in 1..n : a[k] = b[k]
  BY <1>3, <1>4
<1>7. \A k \in 1..i : r[k] = s[k]
  BY <1>3, <1>4, <1>5
<1> QED
  BY <1>2, <1>5, <1>6, <1>7, Same

\* A plain text has no separator at any place.
LEMMA PlainIs ==
  ASSUME NEW t \in Seq(Byte)
  PROVE  Plain(t) <=> \A k \in 1..Len(t) : t[k] # SEP
BY DEF Plain, Range

\* What is copied into a key.
Copied(parts) == [n \in 1..Len(parts) |-> IF n = 1 THEN parts[n] ELSE <<SEP>> \o parts[n]]

\* The key of a pair: its texts, the separator between them.
LEMMA PairKey ==
  ASSUME NEW a \in Seq(Byte), NEW b \in Seq(Byte)
  PROVE  IdxKey(<<a, b>>) = a \o (<<SEP>> \o b) /\ IdxKey(<<a, b>>) \in Seq(Byte)
<1> DEFINE parts == <<a, b>>
           copied == Copied(parts)
           s == <<SEP>> \o b
           sizes == Lengths(parts)
<1>1. Len(parts) = 2 /\ parts[1] = a /\ parts[2] = b
  OBVIOUS
<1>2. s \in Seq(Byte) /\ Len(s) = 1 + Len(b)
  BY SepIs, Concat
<1>3. IdxKey(parts) = Filling(Len(parts) - 1 + Total(sizes), Joined(copied))
  BY DEF IdxKey, Copied
<1> DEFINE at(n) == IF n = 1 THEN parts[n] ELSE <<SEP>> \o parts[n]
<1>4. copied = [n \in 1..2 |-> at(n)]
  BY <1>1 DEF Copied
<1>5. at(1) = a /\ at(2) = s
  BY <1>1
<1>6. sizes = [n \in 1..2 |-> Len(parts[n])]
  BY <1>1 DEF Lengths
<1> HIDE DEF parts, copied, s, sizes, at
<1>7. copied \in Seq(Seq(Byte)) /\ Len(copied) = 2 /\ copied[1] = a /\ copied[2] = s
  <2>1. \A n \in 1..2 : at(n) \in Seq(Byte)
    BY <1>2, <1>5
  <2>2. 2 \in Nat
    OBVIOUS
  <2> QED
    BY <1>4, <1>5, <2>1, <2>2
<1>8. PICK l \in Nat, m \in Nat : l = Len(a) /\ m = Len(b)
  OBVIOUS
<1>9. sizes \in Seq(Nat) /\ Len(sizes) = 2 /\ sizes[1] = l /\ sizes[2] = m
  <2>1. \A n \in 1..2 : Len(parts[n]) \in Nat
    BY <1>1, <1>8
  <2> QED
    BY <1>1, <1>6, <1>8, <2>1
<1>10. Joined(copied) = a \o s
  BY <1>7, JoinedTwo
<1>11. Total(sizes) = l + m
  <2>1. PICK c \in [0..2 -> Nat] :
          c[0] = 0 /\ (\A n \in 1..2 : c[n] = c[n - 1] + sizes[n]) /\ Total(sizes) = c[2]
    BY <1>9, TotalSizes
  <2>2. c[1] = c[0] + sizes[1]
    BY <2>1
  <2>3. c[2] = c[1] + sizes[2]
    BY <2>1
  <2> QED
    BY <1>9, <2>1, <2>2, <2>3
<1>12. a \o s \in Seq(Byte) /\ Len(a \o s) = Len(a) + Len(s)
  BY <1>2, Concat
<1>13. Len(parts) - 1 + Total(sizes) = Len(a \o s)
  BY <1>1, <1>2, <1>8, <1>11, <1>12
<1> DEFINE k == a \o s
           size == Len(parts) - 1 + Total(sizes)
<1>14. IdxKey(parts) = Filling(size, k) /\ size = Len(k) /\ k \in Seq(Byte)
  BY <1>3, <1>10, <1>12, <1>13
<1> HIDE DEF k, size
<1>15. IdxKey(parts) = k /\ k \in Seq(Byte)
  BY <1>14, Exact
<1> QED
  BY <1>15 DEF k, s, parts

\* The key of a triple: its texts, separators between them.
LEMMA TripleKey ==
  ASSUME NEW a \in Seq(Byte), NEW b \in Seq(Byte), NEW c \in Seq(Byte)
  PROVE  /\ IdxKey(<<a, b, c>>) = a \o (<<SEP>> \o (b \o (<<SEP>> \o c)))
         /\ IdxKey(<<a, b, c>>) \in Seq(Byte)
<1> DEFINE parts == <<a, b, c>>
           copied == Copied(parts)
           s == <<SEP>> \o b
           t == <<SEP>> \o c
           sizes == Lengths(parts)
<1>1. Len(parts) = 3 /\ parts[1] = a /\ parts[2] = b /\ parts[3] = c
  OBVIOUS
<1>2. s \in Seq(Byte) /\ Len(s) = 1 + Len(b) /\ t \in Seq(Byte) /\ Len(t) = 1 + Len(c)
  BY SepIs, Concat
<1>3. IdxKey(parts) = Filling(Len(parts) - 1 + Total(sizes), Joined(copied))
  BY DEF IdxKey, Copied
<1> DEFINE at(n) == IF n = 1 THEN parts[n] ELSE <<SEP>> \o parts[n]
<1>4. copied = [n \in 1..3 |-> at(n)]
  BY <1>1 DEF Copied
<1>5. at(1) = a /\ at(2) = s /\ at(3) = t
  BY <1>1
<1>6. sizes = [n \in 1..3 |-> Len(parts[n])]
  BY <1>1 DEF Lengths
<1>0. (a \o s) \o t = a \o (<<SEP>> \o (b \o t))
  <2> DEFINE z == <<SEP>>
  <2>1. z \in Seq(Byte)
    BY SepIs
  <2> HIDE DEF z, t
  <2>0. z \o b \in Seq(Byte) /\ t \in Seq(Byte)
    BY <1>2, <2>1, Concat
  <2>2. (a \o (z \o b)) \o t = a \o ((z \o b) \o t)
    BY <2>0, Associative, SMTT(20)
  <2>3. (z \o b) \o t = z \o (b \o t)
    BY <1>2, <2>1, Associative
  <2> QED
    BY <2>2, <2>3 DEF z
<1> HIDE DEF parts, copied, s, t, sizes, at
<1>7. /\ copied \in Seq(Seq(Byte)) /\ Len(copied) = 3
      /\ copied[1] = a /\ copied[2] = s /\ copied[3] = t
  <2>1. \A n \in 1..3 : at(n) \in Seq(Byte)
    BY <1>2, <1>5
  <2>2. 3 \in Nat
    OBVIOUS
  <2> QED
    BY <1>4, <1>5, <2>1, <2>2
<1>8. PICK l \in Nat, m \in Nat, n \in Nat : l = Len(a) /\ m = Len(b) /\ n = Len(c)
  OBVIOUS
<1>9. /\ sizes \in Seq(Nat) /\ Len(sizes) = 3
      /\ sizes[1] = l /\ sizes[2] = m /\ sizes[3] = n
  <2>1. \A k \in 1..3 : Len(parts[k]) \in Nat
    BY <1>1, <1>8
  <2> QED
    BY <1>1, <1>6, <1>8, <2>1
<1>10. Joined(copied) = (a \o s) \o t
  BY <1>7, JoinedThree
<1>11. Total(sizes) = l + m + n
  <2>1. PICK d \in [0..3 -> Nat] :
          d[0] = 0 /\ (\A k \in 1..3 : d[k] = d[k - 1] + sizes[k]) /\ Total(sizes) = d[3]
    BY <1>9, TotalSizes
  <2>2. d[1] = d[0] + sizes[1]
    BY <2>1
  <2>3. d[2] = d[1] + sizes[2]
    BY <2>1
  <2>4. d[3] = d[2] + sizes[3]
    BY <2>1
  <2> QED
    BY <1>9, <2>1, <2>2, <2>3, <2>4
<1>12. a \o s \in Seq(Byte) /\ Len(a \o s) = Len(a) + Len(s)
  BY <1>2, Concat
<1> DEFINE k == (a \o s) \o t
           size == Len(parts) - 1 + Total(sizes)
<1>13. k \in Seq(Byte) /\ Len(k) = Len(a \o s) + Len(t)
  BY <1>2, <1>12, Concat
<1>14. IdxKey(parts) = Filling(size, k)
  BY <1>3, <1>10
<1>15. size = Len(k)
  <2>1. Len(k) = (l + (1 + m)) + (1 + n)
    BY <1>2, <1>8, <1>12, <1>13
  <2>2. size = 3 - 1 + (l + m + n)
    BY <1>1, <1>11
  <2> HIDE DEF k, size
  <2> QED
    BY <2>1, <2>2
<1> HIDE DEF k, size
<1>16. IdxKey(parts) = k /\ k \in Seq(Byte)
  BY <1>13, <1>14, <1>15, Exact
<1> QED
  BY <1>0, <1>16 DEF k, t, parts

\* A pair without separators shares its key with no other.
LEMMA PairsApart ==
  ASSUME NEW a \in Seq(Byte), NEW b \in Seq(Byte), NEW x \in Seq(Byte), NEW y \in Seq(Byte),
         Plain(a), Plain(b), a \o (<<SEP>> \o b) = x \o (<<SEP>> \o y)
  PROVE  a = x /\ b = y
<1>t. a \in Seq(Byte) /\ b \in Seq(Byte) /\ x \in Seq(Byte) /\ y \in Seq(Byte)
  OBVIOUS
<1>1. PICK w : w = a \o (<<SEP>> \o b) /\ w = x \o (<<SEP>> \o y)
  OBVIOUS
<1>2. PICK n \in Nat, m \in Nat, i \in Nat, j \in Nat :
        n = Len(a) /\ m = Len(b) /\ i = Len(x) /\ j = Len(y)
  OBVIOUS
<1>3. /\ Len(w) = n + (1 + m) /\ \A k \in 1..n : w[k] = a[k]
      /\ \A k \in 1..m : w[n + (1 + k)] = b[k]
  <2>1. Splits(w, a, b)
    BY <1>1, <1>t, Split, Zenon
  <2> QED
    BY <1>2, <2>1 DEF Splits
<1>4. Len(w) = i + (1 + j) /\ w[i + 1] = SEP
  <2>1. Splits(w, x, y)
    BY <1>1, <1>t, Split, Zenon
  <2> QED
    BY <1>2, <2>1 DEF Splits
<1>5. (\A k \in 1..n : a[k] # SEP) /\ (\A k \in 1..m : b[k] # SEP)
  BY <1>2, PlainIs
<1>6. ~(i < n)
  <2>1. SUFFICES ASSUME i < n PROVE FALSE
    OBVIOUS
  <2>2. i + 1 \in 1..n
    BY <2>1
  <2> QED
    BY <1>3, <1>4, <1>5, <2>2
<1>7. ~(n < i)
  <2>1. SUFFICES ASSUME n < i PROVE FALSE
    OBVIOUS
  <2>2. i - n \in 1..m /\ n + (1 + (i - n)) = i + 1
    BY <1>3, <1>4, <2>1
  <2>3. w[n + (1 + (i - n))] = b[i - n]
    BY <1>3, <2>2
  <2> QED
    BY <1>4, <1>5, <2>2, <2>3
<1>8. Len(a) = Len(x)
  BY <1>2, <1>6, <1>7
<1> QED
  BY <1>8, SameSplit

\* The bytes of a triple's key.
Tripled(a, b, c) == a \o (<<SEP>> \o (b \o (<<SEP>> \o c)))

\* A triple without separators shares its key with no other.
LEMMA TriplesApart ==
  ASSUME NEW a \in Seq(Byte), NEW b \in Seq(Byte), NEW c \in Seq(Byte),
         NEW x \in Seq(Byte), NEW y \in Seq(Byte), NEW z \in Seq(Byte),
         Plain(a), Plain(b), Plain(c),
         Tripled(a, b, c) = Tripled(x, y, z)
  PROVE  a = x /\ b = y /\ c = z
<1> DEFINE v == b \o (<<SEP>> \o c)
           u == y \o (<<SEP>> \o z)
<1>0. v = b \o (<<SEP>> \o c) /\ u = y \o (<<SEP>> \o z)
  OBVIOUS
<1>1. PICK w : w = a \o (<<SEP>> \o v) /\ w = x \o (<<SEP>> \o u)
  BY DEF Tripled
<1>s. /\ a \in Seq(Byte) /\ b \in Seq(Byte) /\ c \in Seq(Byte)
      /\ x \in Seq(Byte) /\ y \in Seq(Byte) /\ z \in Seq(Byte)
  OBVIOUS
<1> HIDE DEF v, u
<1>2. PICK n \in Nat, m \in Nat, l \in Nat, i \in Nat, j \in Nat, h \in Nat :
        n = Len(a) /\ m = Len(b) /\ l = Len(c) /\ i = Len(x) /\ j = Len(y) /\ h = Len(z)
  OBVIOUS
<1>3. /\ v \in Seq(Byte) /\ Len(v) = m + (1 + l) /\ \A k \in 1..m : v[k] = b[k]
      /\ \A k \in 1..l : v[m + (1 + k)] = c[k]
  <2>1. Splits(v, b, c)
    BY <1>0, <1>s, Split, Zenon
  <2> QED
    BY <1>2, <2>1 DEF Splits
<1>4. u \in Seq(Byte) /\ Len(u) = j + (1 + h) /\ u[j + 1] = SEP
  <2>1. Splits(u, y, z)
    BY <1>0, <1>s, Split, Zenon
  <2> QED
    BY <1>2, <2>1 DEF Splits
<1>t. v \in Seq(Byte) /\ u \in Seq(Byte)
  BY <1>3, <1>4
<1>5. /\ Len(w) = n + (1 + (m + (1 + l))) /\ \A k \in 1..n : w[k] = a[k]
      /\ \A k \in 1..m + (1 + l) : w[n + (1 + k)] = v[k]
  <2>1. Splits(w, a, v)
    BY <1>1, <1>s, <1>t, Split, Zenon
  <2> QED
    BY <1>2, <1>3, <1>4, <2>1 DEF Splits
<1>6. /\ Len(w) = i + (1 + (j + (1 + h))) /\ w[i + 1] = SEP
      /\ \A k \in 1..j + (1 + h) : w[i + (1 + k)] = u[k]
  <2>1. Splits(w, x, u)
    BY <1>1, <1>s, <1>t, Split, Zenon
  <2> QED
    BY <1>2, <1>3, <1>4, <2>1 DEF Splits
<1>7. /\ \A k \in 1..n : a[k] # SEP
      /\ \A k \in 1..m : b[k] # SEP
      /\ \A k \in 1..l : c[k] # SEP
  BY <1>2, PlainIs
<1>8. ASSUME NEW k \in 1..n + (1 + (m + (1 + l))), w[k] = SEP
      PROVE  k = n + 1 \/ k = n + (m + 2)
  <2>1. k \notin 1..n
    BY <1>5, <1>7, <1>8
  <2>2. k - (n + 1) \notin 1..m
    <3>1. SUFFICES ASSUME k - (n + 1) \in 1..m PROVE FALSE
      OBVIOUS
    <3>2. PICK e \in 1..m : k = n + (1 + e)
      BY <3>1
    <3>3. e \in 1..m + (1 + l)
      BY <3>2
    <3>4. w[n + (1 + e)] = b[e]
      BY <1>3, <1>5, <3>3
    <3> QED
      BY <1>7, <1>8, <3>2, <3>4
  <2>3. k - (n + (m + 2)) \notin 1..l
    <3>1. SUFFICES ASSUME k - (n + (m + 2)) \in 1..l PROVE FALSE
      OBVIOUS
    <3>2. PICK e \in 1..l : k = n + (1 + (m + (1 + e)))
      BY <3>1
    <3>3. m + (1 + e) \in 1..m + (1 + l)
      BY <3>2
    <3>4. w[n + (1 + (m + (1 + e)))] = c[e]
      BY <1>3, <1>5, <3>3
    <3> QED
      BY <1>7, <1>8, <3>2, <3>4
  <2> QED
    BY <2>1, <2>2, <2>3
<1>9. w[i + (j + 2)] = SEP
  <2>1. j + 1 \in 1..j + (1 + h) /\ i + (1 + (j + 1)) = i + (j + 2)
    OBVIOUS
  <2>2. w[i + (1 + (j + 1))] = u[j + 1]
    BY <1>6, <2>1
  <2> QED
    BY <1>4, <2>1, <2>2
<1>10. i = n
  <2>1. i + 1 \in 1..n + (1 + (m + (1 + l))) /\ i + (j + 2) \in 1..n + (1 + (m + (1 + l)))
    BY <1>5, <1>6
  <2>2. i + 1 = n + 1 \/ i + 1 = n + (m + 2)
    BY <1>6, <1>8, <2>1
  <2>3. i + (j + 2) = n + 1 \/ i + (j + 2) = n + (m + 2)
    BY <1>8, <1>9, <2>1
  <2> QED
    BY <2>2, <2>3
<1>11. a = x /\ v = u
  <2>1. a \o (<<SEP>> \o v) = x \o (<<SEP>> \o u) /\ Len(a) = Len(x)
    BY <1>1, <1>2, <1>10
  <2> QED
    BY <1>s, <1>t, <2>1, SameSplit, Zenon
<1> QED
  BY <1>0, <1>11, PairsApart

\* Triples with plain ends are told apart, whatever is between the ends.
LEMMA EndsApart ==
  ASSUME NEW a \in Seq(Byte), NEW b \in Seq(Byte), NEW c \in Seq(Byte),
         NEW x \in Seq(Byte), NEW y \in Seq(Byte), NEW z \in Seq(Byte),
         Plain(a), Plain(c), Plain(x), Plain(z),
         Tripled(a, b, c) = Tripled(x, y, z)
  PROVE  a = x /\ b = y /\ c = z
<1> DEFINE v == b \o (<<SEP>> \o c)
           u == y \o (<<SEP>> \o z)
<1>0. v = b \o (<<SEP>> \o c) /\ u = y \o (<<SEP>> \o z)
  OBVIOUS
<1>1. PICK w : w = a \o (<<SEP>> \o v) /\ w = x \o (<<SEP>> \o u)
  BY DEF Tripled
<1>s. /\ a \in Seq(Byte) /\ b \in Seq(Byte) /\ c \in Seq(Byte)
      /\ x \in Seq(Byte) /\ y \in Seq(Byte) /\ z \in Seq(Byte)
  OBVIOUS
<1> HIDE DEF v, u
<1>2. PICK n \in Nat, m \in Nat, l \in Nat, i \in Nat, j \in Nat, h \in Nat :
        n = Len(a) /\ m = Len(b) /\ l = Len(c) /\ i = Len(x) /\ j = Len(y) /\ h = Len(z)
  OBVIOUS
<1>3. /\ v \in Seq(Byte) /\ Len(v) = m + (1 + l) /\ v[m + 1] = SEP
      /\ \A k \in 1..l : v[m + (1 + k)] = c[k]
  <2>1. Splits(v, b, c)
    BY <1>0, <1>s, Split, Zenon
  <2> QED
    BY <1>2, <2>1 DEF Splits
<1>4. /\ u \in Seq(Byte) /\ Len(u) = j + (1 + h) /\ u[j + 1] = SEP
      /\ \A k \in 1..h : u[j + (1 + k)] = z[k]
  <2>1. Splits(u, y, z)
    BY <1>0, <1>s, Split, Zenon
  <2> QED
    BY <1>2, <2>1 DEF Splits
<1>t. v \in Seq(Byte) /\ u \in Seq(Byte)
  BY <1>3, <1>4
<1>5. (\A k \in 1..n : w[k] = a[k]) /\ w[n + 1] = SEP
  <2>1. Splits(w, a, v)
    BY <1>1, <1>s, <1>t, Split, Zenon
  <2> QED
    BY <1>2, <1>3, <1>4, <2>1 DEF Splits
<1>6. (\A k \in 1..i : w[k] = x[k]) /\ w[i + 1] = SEP
  <2>1. Splits(w, x, u)
    BY <1>1, <1>s, <1>t, Split, Zenon
  <2> QED
    BY <1>2, <1>3, <1>4, <2>1 DEF Splits
<1>7. /\ (\A k \in 1..n : a[k] # SEP) /\ (\A k \in 1..l : c[k] # SEP)
      /\ (\A k \in 1..i : x[k] # SEP) /\ (\A k \in 1..h : z[k] # SEP)
  BY <1>2, PlainIs
<1>8. n = i
  <2>1. i + 1 \notin 1..n
    BY <1>5, <1>6, <1>7
  <2>2. n + 1 \notin 1..i
    BY <1>5, <1>6, <1>7
  <2> QED
    BY <2>1, <2>2
<1>9. a = x /\ v = u
  <2>1. a \o (<<SEP>> \o v) = x \o (<<SEP>> \o u) /\ Len(a) = Len(x)
    BY <1>1, <1>2, <1>8
  <2> QED
    BY <1>s, <1>t, <2>1, SameSplit, Zenon
<1>10. j = m
  <2>1. ~(j < m)
    <3>1. SUFFICES ASSUME j < m PROVE FALSE
      OBVIOUS
    <3>2. m - j \in 1..h /\ j + (1 + (m - j)) = m + 1
      BY <1>3, <1>4, <1>9, <3>1
    <3>3. u[j + (1 + (m - j))] = z[m - j]
      BY <1>4, <3>2
    <3> QED
      BY <1>3, <1>7, <1>9, <3>2, <3>3
  <2>2. ~(m < j)
    <3>1. SUFFICES ASSUME m < j PROVE FALSE
      OBVIOUS
    <3>2. j - m \in 1..l /\ m + (1 + (j - m)) = j + 1
      BY <1>3, <1>4, <1>9, <3>1
    <3>3. v[m + (1 + (j - m))] = c[j - m]
      BY <1>3, <3>2
    <3> QED
      BY <1>4, <1>7, <1>9, <3>2, <3>3
  <2> QED
    BY <2>1, <2>2
<1> QED
  <2>1. b \o (<<SEP>> \o c) = y \o (<<SEP>> \o z) /\ Len(b) = Len(y)
    BY <1>0, <1>2, <1>9, <1>10
  <2> QED
    BY <1>s, <1>9, <2>1, SameSplit, Zenon

-----------------------------------------------------------------------------
(* The state of MakeEdgeID.                                                *)

\* The modulus is the last of the powers of 2.
LEMMA Powers ==
  /\ Width \in Nat
  /\ \E c \in [0..Width -> Nat] :
       c[0] = 1 /\ (\A n \in 1..Width : c[n] = 2 * c[n - 1]) /\ Modulus = c[Width]
<1>0. Width \in Nat
  BY HashAssumption
<1> SUFFICES \E c \in [0..Width -> Nat] :
       c[0] = 1 /\ (\A n \in 1..Width : c[n] = 2 * c[n - 1]) /\ Modulus = c[Width]
  BY <1>0
<1> DEFINE N == Width
           S == Nat
           a == 1
           power[n \in 0..N] == IF n = 0 THEN 1 ELSE 2 * power[n - 1]
           h == [n \in 1..N |-> [s \in S |-> 2 * s]]
<1>1. N \in Nat
  BY <1>0
<1>2. \A n \in 1..N : \A s \in S : 2 * s \in S
  OBVIOUS
<1>3. Steps(h, N, S)
  BY <1>2 DEF Steps
<1>4. \A n \in 1..N : \A s \in S : h[n][s] = 2 * s
  OBVIOUS
<1>5. Modulus = power[N]
  BY DEF Modulus
<1>6. a \in S
  OBVIOUS
<1> HIDE DEF h, S, N, a
<1>7. \E f : Turns(f, a, h, N, S)
  BY <1>1, <1>3, <1>6, Loop
<1>8. power = [n \in 0..N |-> IF n = 0 THEN 1 ELSE 2 * power[n - 1]]
  <2>1. PICK f : Turns(f, a, h, N, S)
    BY <1>7
  <2> DEFINE E(n) == IF n = 0 THEN 1 ELSE 2 * f[n - 1]
  <2>2. ASSUME NEW n \in 0..N
        PROVE  f[n] = E(n)
    <3>1. CASE n = 0
      BY <2>1, <3>1 DEF Turns, a
    <3>2. CASE n # 0
      <4>1. n \in 1..N /\ n - 1 \in 0..N
        BY <1>1, <3>2
      <4>2. f[n] = h[n][f[n - 1]] /\ f[n - 1] \in S
        BY <2>1, <4>1 DEF Turns
      <4> QED
        BY <1>4, <3>2, <4>1, <4>2
    <3> QED
      BY <3>1, <3>2
  <2>3. f \in [0..N -> S]
    BY <2>1 DEF Turns
  <2> HIDE DEF E
  <2>4. f = [n \in 0..N |-> E(n)]
    BY <2>2, <2>3
  <2>5. f = [n \in 0..N |-> IF n = 0 THEN 1 ELSE 2 * f[n - 1]]
    BY <2>4 DEF E
  <2> QED
    BY <2>5
<1> HIDE DEF power
<1>9. power[0] = a /\ \A n \in 1..N : power[n] = 2 * power[n - 1]
  <2>1. 0 \in 0..N /\ \A n \in 1..N : n \in 0..N /\ n # 0
    BY <1>1
  <2> QED
    BY <1>8, <2>1 DEF a
<1>10. power \in [0..N -> S]
  <2> DEFINE P == {n \in 0..N : power[n] \in S}
  <2>1. 0 \in P
    BY <1>1, <1>6, <1>9
  <2>2. ASSUME NEW n \in 1..N, n - 1 \in P PROVE n \in P
    <3>1. power[n - 1] \in S /\ n \in 0..N
      BY <1>1, <2>2
    <3> QED
      BY <1>2, <1>9, <3>1
  <2> HIDE DEF P
  <2>3. 0..N \subseteq P
    BY <1>1, <2>1, <2>2, Climb
  <2>4. \A n \in 0..N : power[n] \in S
    BY <2>3 DEF P
  <2>5. power = [n \in 0..N |-> power[n]]
    BY <1>8
  <2> QED
    BY <2>4, <2>5
<1> QED
  BY <1>5, <1>9, <1>10 DEF N, S, a

\* Every power is positive, and the last one is the modulus.
LEMMA PositivePowers ==
  ASSUME NEW c \in [0..Width -> Nat], c[0] = 1, \A n \in 1..Width : c[n] = 2 * c[n - 1]
  PROVE  c[Width] > 0
<1> DEFINE P == {n \in 0..Width : c[n] > 0}
<1>1. Width \in Nat
  BY HashAssumption
<1>2. 0 \in P
  BY <1>1
<1>3. ASSUME NEW n \in 1..Width, n - 1 \in P PROVE n \in P
  <2>1. c[n] = 2 * c[n - 1] /\ c[n - 1] \in Nat /\ c[n - 1] > 0 /\ n \in 0..Width
    BY <1>1, <1>3
  <2> QED
    BY <2>1
<1>4. 0..Width \subseteq P
  <2> HIDE DEF P
  <2> QED
    BY <1>1, <1>2, <1>3, Climb
<1> QED
  BY <1>1, <1>4

\* States are numbers below the modulus.
LEMMA StateType ==
  /\ Modulus \in Nat /\ Modulus > 0 /\ State = 0..(Modulus - 1) /\ State \subseteq Nat
  /\ Multiplier \in State /\ Seed \in State
<1>1. Modulus \in Nat /\ Modulus > 0
  <2>1. PICK c \in [0..Width -> Nat] :
          c[0] = 1 /\ (\A n \in 1..Width : c[n] = 2 * c[n - 1]) /\ Modulus = c[Width]
    BY Powers
  <2>2. Width \in 0..Width
    BY Powers
  <2> QED
    BY <2>1, <2>2, PositivePowers
<1>2. State = 0..(Modulus - 1)
  BY DEF State
<1> QED
  BY <1>1, <1>2, HashAssumption

\* A turn of the loop ends in a state.
LEMMA MixIs ==
  ASSUME NEW x \in State, NEW unit \in State
  PROVE  Mix(x, unit) \in State /\ (x * Multiplier) % Modulus \in State
<1>1. x * Multiplier \in Nat
  BY StateType, Products
<1>2. PICK q \in Nat, r \in 0..Modulus - 1 : r = (x * Multiplier) % Modulus
  BY <1>1, StateType, Division
<1>3. r \in State
  BY StateType
<1>4. BitXor(r, unit) \in State
  BY <1>3, HashAssumption
<1> QED
  BY <1>2, <1>3, <1>4 DEF Mix

\* The states of the loop, one after each character.
LEMMA MixedTurns ==
  ASSUME NEW text \in Seq(State)
  PROVE  \E c \in [0..Len(text) -> State] :
           /\ c[0] = Seed /\ \A n \in 1..Len(text) : c[n] = Mix(c[n - 1], text[n])
           /\ Mixed(text) = c[Len(text)]
<1> DEFINE N == Len(text)
           S == State
           a == Seed
           x[n \in 0..N] == IF n = 0 THEN Seed ELSE Mix(x[n - 1], text[n])
           h == [n \in 1..N |-> [s \in S |-> Mix(s, text[n])]]
<1>1. N \in Nat
  OBVIOUS
<1>2. \A n \in 1..N : \A s \in S : Mix(s, text[n]) \in S
  <2>1. \A n \in 1..N : text[n] \in State
    BY Elements
  <2> QED
    BY <2>1, MixIs
<1>3. Steps(h, N, S)
  BY <1>2 DEF Steps
<1>4. \A n \in 1..N : \A s \in S : h[n][s] = Mix(s, text[n])
  OBVIOUS
<1>5. Mixed(text) = x[N]
  BY DEF Mixed
<1>6. a \in S
  BY StateType
<1> HIDE DEF h, S, N, a
<1>7. \E f : Turns(f, a, h, N, S)
  BY <1>1, <1>3, <1>6, Loop
<1>8. x = [n \in 0..N |-> IF n = 0 THEN Seed ELSE Mix(x[n - 1], text[n])]
  <2>1. PICK f : Turns(f, a, h, N, S)
    BY <1>7
  <2> DEFINE E(n) == IF n = 0 THEN Seed ELSE Mix(f[n - 1], text[n])
  <2>2. ASSUME NEW n \in 0..N
        PROVE  f[n] = E(n)
    <3>1. CASE n = 0
      BY <2>1, <3>1 DEF Turns, a
    <3>2. CASE n # 0
      <4>1. n \in 1..N /\ n - 1 \in 0..N
        BY <1>1, <3>2
      <4>2. f[n] = h[n][f[n - 1]] /\ f[n - 1] \in S
        BY <2>1, <4>1 DEF Turns
      <4> QED
        BY <1>4, <3>2, <4>1, <4>2
    <3> QED
      BY <3>1, <3>2
  <2>3. f \in [0..N -> S]
    BY <2>1 DEF Turns
  <2> HIDE DEF E
  <2>4. f = [n \in 0..N |-> E(n)]
    BY <2>2, <2>3
  <2>5. f = [n \in 0..N |-> IF n = 0 THEN Seed ELSE Mix(f[n - 1], text[n])]
    BY <2>4 DEF E
  <2> QED
    BY <2>5
<1> HIDE DEF x
<1>9. x[0] = a /\ \A n \in 1..N : x[n] = Mix(x[n - 1], text[n])
  <2>1. 0 \in 0..N /\ \A n \in 1..N : n \in 0..N /\ n # 0
    BY <1>1
  <2> QED
    BY <1>8, <2>1 DEF a
<1>10. x \in [0..N -> S]
  <2> DEFINE P == {n \in 0..N : x[n] \in S}
  <2>1. 0 \in P
    BY <1>1, <1>6, <1>9
  <2>2. ASSUME NEW n \in 1..N, n - 1 \in P PROVE n \in P
    <3>1. x[n - 1] \in S /\ n \in 0..N
      BY <1>1, <2>2
    <3> QED
      BY <1>2, <1>9, <3>1
  <2> HIDE DEF P
  <2>3. 0..N \subseteq P
    BY <1>1, <2>1, <2>2, Climb
  <2>4. \A n \in 0..N : x[n] \in S
    BY <2>3 DEF P
  <2>5. x = [n \in 0..N |-> x[n]]
    BY <1>8
  <2> QED
    BY <2>4, <2>5
<1> QED
  BY <1>5, <1>9, <1>10 DEF N, S, a

\* Products and odd numbers under names of their own.
Times(x, y) == x * y
IsOdd(x) == \E m \in Nat : x = 2 * m + 1

\* An odd number takes no factor 2 away.
LEMMA OddStep ==
  ASSUME NEW q \in Nat, NEW o \in Nat, NEW z \in Nat, IsOdd(o), Times(q, o) = Times(2, z)
  PROVE  \E h \in Nat : q = Times(2, h) /\ Times(h, o) = z
<1>1. PICK m \in Nat : o = 2 * m + 1
  BY DEF IsOdd
<1>2. PICK t \in Nat : t = 2 * z
  OBVIOUS
<1>3. q * o = t
  BY <1>2 DEF Times
<1>4. PICK p \in Nat : p = q * m
  BY Products
<1>5. q * o = 2 * p + q
  <2>1. q * (2 * m + 1) = 2 * (q * m) + q
    OBVIOUS
  <2> QED
    BY <1>1, <1>4, <2>1
<1>6. PICK h \in Nat : q = 2 * h /\ h = z - p
  <2>1. 2 * p + q = 2 * z
    BY <1>2, <1>3, <1>5
  <2> QED
    BY <1>4, <2>1
<1>7. (2 * h) * o = 2 * (h * o)
  OBVIOUS
<1>8. PICK w \in Nat : w = h * o
  BY Products
<1>9. 2 * w = 2 * z
  BY <1>2, <1>3, <1>6, <1>7, <1>8
<1>10. w = z
  BY <1>9
<1> QED
  BY <1>6, <1>8, <1>10 DEF Times

\* A state below the modulus whose product with the multiplier is a multiple
\* of the modulus is 0: the factors 2 are taken out one by one.
LEMMA NoZeroProduct ==
  ASSUME NEW d \in State, NEW k \in Nat, d * Multiplier = k * Modulus
  PROVE  d = 0
<1>1. PICK c \in [0..Width -> Nat] :
        c[0] = 1 /\ (\A n \in 1..Width : c[n] = 2 * c[n - 1]) /\ Modulus = c[Width]
  BY Powers
<1>2. Width \in Nat /\ d \in Nat /\ d < Modulus /\ Modulus \in Nat
  BY Powers, StateType
<1>3. PICK m \in Nat : Multiplier = 2 * m + 1
  <2>1. Multiplier \in Nat /\ Multiplier % 2 = 1 /\ 2 \in Nat /\ 2 > 0 /\ 2 - 1 = 1
    BY StateType, HashAssumption
  <2>2. PICK q \in Nat, r \in 0..1 :
          q = Multiplier \div 2 /\ r = Multiplier % 2 /\ Multiplier = q * 2 + r
    BY <2>1, Division
  <2>3. Multiplier = 2 * q + 1
    BY <2>1, <2>2
  <2> QED
    BY <2>3
<1> DEFINE P == {n \in 0..Width : \E q \in Nat :
                   d = q * c[n] /\ q * (2 * m + 1) = k * c[Width - n]}
<1>4. 0 \in P
  <2>1. d = d * c[0]
    BY <1>1, <1>2
  <2>2. Width - 0 = Width /\ 0 \in 0..Width
    BY <1>2
  <2>3. d * (2 * m + 1) = k * c[Width - 0]
    BY <1>1, <1>3, <2>2
  <2> QED
    BY <1>2, <2>1, <2>2, <2>3
<1>5. ASSUME NEW n \in 1..Width, n - 1 \in P PROVE n \in P
  <2>1. PICK q \in Nat : d = q * c[n - 1] /\ q * (2 * m + 1) = k * c[Width - (n - 1)]
    BY <1>5
  <2>2. /\ n \in 0..Width /\ n - 1 \in 0..Width /\ Width - n \in 0..Width
        /\ Width - (n - 1) \in 1..Width /\ (Width - (n - 1)) - 1 = Width - n
    BY <1>2
  <2>3. PICK e \in Nat, f \in Nat : e = c[Width - n] /\ f = c[n - 1]
    BY <2>2
  <2>4. c[Width - (n - 1)] = 2 * e
    BY <1>1, <2>2, <2>3
  <2>5. c[n] = 2 * f
    BY <1>1, <2>3
  <2>6. k * (2 * e) = 2 * (k * e) /\ k * e \in Nat
    BY Products
  <2>7. q * (2 * m + 1) = 2 * (k * e)
    <3>1. q * (2 * m + 1) = k * c[Width - (n - 1)]
      BY <2>1
    <3>2. q * (2 * m + 1) = k * (2 * e)
      BY ONLY <3>1, <2>4, Zenon
    <3> QED
      BY <3>2, <2>6
  <2>8. PICK h \in Nat : q = 2 * h /\ h * (2 * m + 1) = k * e
    <3>1. PICK w \in Nat : w = k * e
      BY <2>6
    <3>2. q * (2 * m + 1) = 2 * w
      BY <2>7, <3>1
    <3>3. PICK o \in Nat : o = 2 * m + 1
      OBVIOUS
    <3>4. IsOdd(o)
      BY <3>3 DEF IsOdd
    <3>5. Times(q, o) = Times(2, w)
      BY <3>2, <3>3 DEF Times
    <3>6. \E h \in Nat : q = Times(2, h) /\ Times(h, o) = w
      BY ONLY <3>4, <3>5, OddStep, q \in Nat, o \in Nat, w \in Nat
    <3> QED
      BY <3>1, <3>3, <3>6 DEF Times
  <2>9. (2 * h) * f = h * (2 * f)
    OBVIOUS
  <2>10. d = h * c[n]
    BY <2>1, <2>3, <2>5, <2>8, <2>9
  <2>11. h * (2 * m + 1) = k * c[Width - n]
    BY <2>3, <2>8
  <2> QED
    BY <2>2, <2>10, <2>11
<1>6. 0..Width \subseteq P
  <2> HIDE DEF P
  <2> QED
    BY <1>2, <1>4, <1>5, Climb
<1>7. PICK q \in Nat : d = q * Modulus
  <2>1. Width \in P
    BY <1>2, <1>6
  <2> QED
    BY <1>1, <2>1
<1>8. CASE q = 0
  BY <1>2, <1>7, <1>8
<1>9. CASE q > 0
  <2>1. 0 * Modulus + Modulus <= q * Modulus
    BY <1>2, <1>9, Monotone
  <2> QED
    BY <1>2, <1>7, <2>1
<1> QED
  BY <1>8, <1>9

\* States with the same product are the same.
LEMMA OddFactor ==
  ASSUME NEW x \in State, NEW y \in State, y <= x,
         (x * Multiplier) % Modulus = (y * Multiplier) % Modulus
  PROVE  x = y
<1>1. /\ x \in Nat /\ y \in Nat /\ Multiplier \in Nat /\ Modulus \in Nat /\ Modulus > 0
      /\ x < Modulus
  BY StateType
<1> DEFINE d == x - y
           u == x * Multiplier
           v == y * Multiplier
           z == d * Multiplier
<1>2. d \in State /\ d \in Nat
  BY <1>1, StateType
<1>3. u \in Nat /\ v \in Nat /\ z \in Nat
  BY <1>1, <1>2, Products
<1>4. u = v + z
  BY <1>1
<1>5. u % Modulus = v % Modulus
  OBVIOUS
<1> HIDE DEF u, v, z
<1>6. PICK q \in Nat, r \in 0..Modulus - 1 :
        q = u \div Modulus /\ r = u % Modulus /\ u = q * Modulus + r
  BY <1>1, <1>3, Division
<1>7. PICK p \in Nat, s \in 0..Modulus - 1 :
        p = v \div Modulus /\ s = v % Modulus /\ v = p * Modulus + s
  BY <1>1, <1>3, Division
<1>8. s = r
  BY <1>5, <1>6, <1>7
<1>9. PICK e \in Nat, f \in Nat : e = q * Modulus /\ f = p * Modulus
  BY <1>1, Products
<1>10. e = f + z
  <2>1. r \in Nat /\ u = e + r /\ v = f + r
    BY <1>1, <1>6, <1>7, <1>8, <1>9
  <2> QED
    BY <1>3, <1>4, <2>1
<1>11. ~(q < p)
  <2>1. ASSUME q < p PROVE FALSE
    <3>1. e + Modulus <= f
      BY <1>1, <1>9, <2>1, Monotone
    <3> QED
      BY <1>1, <1>3, <1>10, <3>1
  <2> QED
    BY <2>1
<1>12. PICK k \in Nat : q = p + k
  <2>1. q - p \in Nat /\ q = p + (q - p)
    BY <1>11
  <2> QED
    BY <2>1
<1>13. (p + k) * Modulus = p * Modulus + k * Modulus
  BY <1>1
<1>14. z = k * Modulus
  <2>1. k * Modulus \in Nat
    BY <1>1, Products
  <2>2. f + z = f + k * Modulus
    BY <1>9, <1>10, <1>12, <1>13
  <2> QED
    BY <1>3, <2>1, <2>2
<1>15. d = 0
  BY <1>2, <1>14, NoZeroProduct DEF z
<1> QED
  BY <1>1, <1>15

-----------------------------------------------------------------------------
(* Generated ids.                                                          *)

\* Different states of the loop stay different when the same character is read,
\* as an odd multiplier is no divisor of zero.
LEMMA MixKeepsApart ==
  ASSUME NEW x \in State, NEW y \in State, NEW unit \in State, Mix(x, unit) = Mix(y, unit)
  PROVE  x = y
<1>1. PICK r \in State, s \in State :
        r = (x * Multiplier) % Modulus /\ s = (y * Multiplier) % Modulus
  BY MixIs
<1>2. BitXor(r, unit) = BitXor(s, unit)
  BY <1>1 DEF Mix
<1>3. r = s
  BY <1>2, HashAssumption
<1>4. (x * Multiplier) % Modulus = (y * Multiplier) % Modulus
  BY <1>1, <1>3
<1>5. x \in Nat /\ y \in Nat
  BY StateType
<1>6. x <= y \/ y <= x
  BY <1>5
<1> QED
  BY <1>4, <1>6, OddFactor, Zenon

\* Different characters make different states of the same one.
LEMMA MixTells ==
  ASSUME NEW x \in State, NEW u \in State, NEW v \in State, Mix(x, u) = Mix(x, v)
  PROVE  u = v
<1>1. PICK r \in State : r = (x * Multiplier) % Modulus
  BY MixIs
<1>2. BitXor(r, u) = BitXor(r, v)
  BY <1>1 DEF Mix
<1>3. BitXor(r, BitXor(r, u)) = u /\ BitXor(r, BitXor(r, v)) = v
  BY HashAssumption
<1> QED
  BY <1>2, <1>3

\* From the one character on in which two texts differ, the states differ.
LEMMA OneCharacter ==
  ASSUME NEW s \in Seq(State), NEW t \in Seq(State), Len(s) = Len(t),
         NEW j \in 1..Len(s), s[j] # t[j], \A n \in 1..Len(s) : n # j => s[n] = t[n]
  PROVE  Mixed(s) # Mixed(t)
<1>1. PICK c \in [0..Len(s) -> State] :
        /\ c[0] = Seed /\ \A n \in 1..Len(s) : c[n] = Mix(c[n - 1], s[n])
        /\ Mixed(s) = c[Len(s)]
  BY MixedTurns
<1>2. PICK d \in [0..Len(t) -> State] :
        /\ d[0] = Seed /\ \A n \in 1..Len(t) : d[n] = Mix(d[n - 1], t[n])
        /\ Mixed(t) = d[Len(t)]
  BY MixedTurns
<1>3. PICK N \in Nat : N = Len(s) /\ N = Len(t)
  OBVIOUS
<1> DEFINE P == {n \in 0..N : IF n < j THEN c[n] = d[n] ELSE c[n] # d[n]}
<1>4. 0 \in P
  BY <1>1, <1>2, <1>3
<1>5. ASSUME NEW n \in 1..N, n - 1 \in P PROVE n \in P
  <2>1. n - 1 \in 0..N /\ n \in 0..N /\ n \in Nat /\ j \in Nat
    BY <1>3
  <2>2. c[n - 1] \in State /\ d[n - 1] \in State /\ s[n] \in State /\ t[n] \in State
    BY <1>3, <2>1, Elements
  <2>3. c[n] = Mix(c[n - 1], s[n]) /\ d[n] = Mix(d[n - 1], t[n])
    BY <1>1, <1>2, <1>3
  <2>4. IF n - 1 < j THEN c[n - 1] = d[n - 1] ELSE c[n - 1] # d[n - 1]
    BY <1>5
  <2>5. CASE n < j
    <3>1. n - 1 < j /\ n # j
      BY <2>1, <2>5
    <3>2. s[n] = t[n]
      BY <1>3, <3>1
    <3>3. c[n] = d[n]
      BY <2>3, <2>4, <3>1, <3>2
    <3> QED
      BY <2>1, <2>5, <3>3
  <2>6. CASE n = j
    <3>1. n - 1 < j /\ ~(n < j)
      BY <2>1, <2>6
    <3>2. s[n] # t[n] /\ c[n - 1] = d[n - 1]
      BY <2>4, <2>6, <3>1
    <3>3. c[n] # d[n]
      BY <2>2, <2>3, <3>2, MixTells
    <3> QED
      BY <2>1, <3>1, <3>3
  <2>7. CASE n > j
    <3>1. ~(n - 1 < j) /\ ~(n < j) /\ n # j
      BY <2>1, <2>7
    <3>2. s[n] = t[n] /\ c[n - 1] # d[n - 1]
      BY <1>3, <2>4, <3>1
    <3>3. c[n] # d[n]
      BY <2>2, <2>3, <3>2, MixKeepsApart
    <3> QED
      BY <2>1, <3>1, <3>3
  <2> QED
    BY <2>1, <2>5, <2>6, <2>7
<1>6. N \in P
  <2> HIDE DEF P
  <2>1. 0..N \subseteq P
    BY <1>3, <1>4, <1>5, Climb
  <2> QED
    BY <1>3, <2>1
<1>7. ~(N < j)
  BY <1>3
<1> QED
  BY <1>1, <1>2, <1>3, <1>6, <1>7

\* Sequences that are apart in one place differ there and nowhere else.
LEMMA OnePlace ==
  ASSUME NEW s \in Seq(State), NEW t, Cardinality(Apart(s, t)) = 1
  PROVE  \E j \in 1..Len(s) : s[j] # t[j] /\ \A n \in 1..Len(s) : n # j => s[n] = t[n]
<1>1. PICK N \in Nat : N = Len(s)
  OBVIOUS
<1>2. DOMAIN s = 1..N /\ Apart(s, t) \subseteq 1..N
  BY <1>1 DEF Apart
<1>3. IsFiniteSet(1..N)
  BY FS_Interval
<1>4. IsFiniteSet(Apart(s, t))
  BY <1>2, <1>3, FS_Subset
<1>5. PICK j : Apart(s, t) = {j}
  BY <1>4, FS_Singleton
<1> QED
  BY <1>1, <1>2, <1>5 DEF Apart

\* What is mixed into an id are states of the loop.
LEMMA TripleStates ==
  ASSUME NEW src \in Seq(Chars), NEW label \in Seq(Chars), NEW dst \in Seq(Chars)
  PROVE  Triple(src, label, dst) \in Seq(State)
<1>1. src \in Seq(State) /\ label \in Seq(State) /\ dst \in Seq(State)
  BY HashAssumption
<1>2. <<Bar>> \in Seq(State)
  BY HashAssumption
<1>3. src \o <<Bar>> \in Seq(State)
  BY <1>1, <1>2, Concat
<1>4. src \o <<Bar>> \o label \in Seq(State)
  BY <1>1, <1>3, Concat
<1>5. src \o <<Bar>> \o label \o <<Bar>> \in Seq(State)
  BY <1>2, <1>4, Concat
<1>6. src \o <<Bar>> \o label \o <<Bar>> \o dst \in Seq(State)
  BY <1>1, <1>5, Concat
<1> QED
  BY <1>6 DEF Triple

\* The loop ends in one of its states.
LEMMA MixedState ==
  ASSUME NEW text \in Seq(State)
  PROVE  Mixed(text) \in State
<1>1. PICK c \in [0..Len(text) -> State] : Mixed(text) = c[Len(text)]
  BY MixedTurns
<1>2. Len(text) \in 0..Len(text)
  OBVIOUS
<1> QED
  BY <1>1, <1>2

\* Generated ids are texts.
LEMMA MadeIds ==
  ASSUME NEW src \in NodeIds, NEW label \in Labels, NEW dst \in NodeIds
  PROVE  MakeEdgeID(src, label, dst) \in {FormatUint(x) : x \in State}
<1>1. src \in Seq(Chars) /\ label \in Seq(Chars) /\ dst \in Seq(Chars)
  BY EncodingAssumption
<1>2. Mixed(Triple(src, label, dst)) \in State
  BY <1>1, TripleStates, MixedState
<1> QED
  BY <1>2 DEF MakeEdgeID

\* Ids of texts that differ in one character differ.
LEMMA IdsDiffer ==
  ASSUME NEW e \in Edges, NEW f \in Edges,
         e.id = MakeEdgeID(e.src, e.label, e.dst), f.id = MakeEdgeID(f.src, f.label, f.dst),
         Len(Triple(e.src, e.label, e.dst)) = Len(Triple(f.src, f.label, f.dst)),
         Cardinality(Apart(Triple(e.src, e.label, e.dst), Triple(f.src, f.label, f.dst))) = 1
  PROVE  e.id # f.id
<1> DEFINE s == Triple(e.src, e.label, e.dst)
           t == Triple(f.src, f.label, f.dst)
<1>1. {e.src, e.label, e.dst, f.src, f.label, f.dst} \subseteq Seq(Chars)
  BY EncodingAssumption DEF Edges
<1>2. s \in Seq(State) /\ t \in Seq(State)
  BY <1>1, TripleStates
<1>3. Len(s) = Len(t) /\ Cardinality(Apart(s, t)) = 1
  OBVIOUS
<1>4. e.id = FormatUint(Mixed(s)) /\ f.id = FormatUint(Mixed(t))
  BY DEF MakeEdgeID
<1> HIDE DEF s, t
<1>5. PICK j \in 1..Len(s) : s[j] # t[j] /\ \A n \in 1..Len(s) : n # j => s[n] = t[n]
  BY <1>2, <1>3, OnePlace
<1>6. Mixed(s) # Mixed(t)
  BY <1>2, <1>3, <1>5, OneCharacter
<1>7. Mixed(s) \in State /\ Mixed(t) \in State
  BY <1>2, MixedState
<1> QED
  BY <1>4, <1>6, <1>7, HashAssumption

-----------------------------------------------------------------------------
(* The invariant.                                                          *)

\* What a node's row holds, what an edge put in this ingestion is.
Values == [label : Labels, props : Props]
PutEdges == {e \in Edges : e.id \in EdgeIds \/ e.id = MakeEdgeID(e.src, e.label, e.dst)}
Blobs == [edge : PutEdges, src : SUBSET Values, dst : SUBSET Values]

\* Every cached node has bytes, not too many, that say its row.
NodesKept ==
  /\ DOMAIN nodes = DOMAIN cache /\ DOMAIN cache \subseteq NodeIds
  /\ \A id \in DOMAIN cache :
       /\ nodes[id] \in Values
       /\ cache[id] \in Seq(Byte) /\ cache[id] # <<>> /\ Len(cache[id]) <= MaxRowBytes
       /\ NodeRead(cache[id]) = {nodes[id]}

\* Every pending blob says its edge and the endpoints that were cached.
BlobsKept ==
  /\ puts \in 0..MaxPuts
  /\ pending \in Seq(Seq(Byte)) /\ blobs \in Seq(Blobs)
  /\ Len(pending) = Len(blobs) /\ Len(blobs) <= puts
  /\ \A n \in 1..Len(pending) : /\ Len(pending[n]) <= 12 + 3 * MaxRowBytes
                                /\ BlobRead(pending[n]) = {blobs[n]}

\* The latest fat batch says the blobs it was made from.
FatKept == fat \in Seq(Byte) /\ FatBatchReadable

\* The keys are those of the entries, which are tuples of one size in a family.
Families == {"prop", "src", "dst"}
Tuples == [f \in Families |-> IF f = "prop" THEN Seq(Chars) \X Seq(Chars) \X Seq(Chars)
                                            ELSE Seq(Chars) \X Seq(Chars)]
KeysKept ==
  /\ DOMAIN keys = Families /\ DOMAIN entries = Families
  /\ \A f \in Families : /\ IsFiniteSet(entries[f]) /\ entries[f] \subseteq Tuples[f]
                         /\ keys[f] = {IdxKey(p) : p \in entries[f]}

IInv == NodesKept /\ BlobsKept /\ FatKept /\ KeysKept

\* Nothing is stored before the first put.
THEOREM InitialInvariant == Init => IInv
<1>1. SUFFICES ASSUME Init PROVE IInv
  OBVIOUS
<1>2. NodesKept
  BY <1>1 DEF Init, Nowhere, NodesKept
<1>3. BlobsKept
  <2>1. pending = <<>> /\ blobs = <<>> /\ puts = 0
    BY <1>1 DEF Init
  <2>2. MaxPuts \in Nat
    BY EncodingAssumption
  <2> QED
    BY <2>1, <2>2 DEF BlobsKept
<1>4. FatKept
  BY <1>1 DEF Init, FatKept, FatBatchReadable
<1>5. KeysKept
  <2>1. keys = [f \in Families |-> {}] /\ entries = [f \in Families |-> {}]
    BY <1>1 DEF Init, Families
  <2>2. IsFiniteSet({})
    BY FS_EmptySet
  <2> QED
    BY <2>1, <2>2 DEF KeysKept
<1> QED
  BY <1>2, <1>3, <1>4, <1>5 DEF IInv

\* Lower case is of the same length and characters.
LEMMA NormChars ==
  ASSUME NEW text \in Seq(Chars)
  PROVE  Norm(text) \in Seq(Chars)
<1>1. Lower \in [Chars -> Chars]
  BY EncodingAssumption
<1>2. DOMAIN text = 1..Len(text) /\ \A n \in 1..Len(text) : text[n] \in Chars
  OBVIOUS
<1>3. Norm(text) = [n \in 1..Len(text) |-> Lower[text[n]]]
  BY <1>2 DEF Norm
<1>4. \A n \in 1..Len(text) : Lower[text[n]] \in Chars
  BY <1>1, <1>2
<1> QED
  BY <1>3, <1>4

\* The entries of a row's properties are finitely many triples.
LEMMA PropTuples ==
  ASSUME NEW props \in Props, NEW id \in Seq(Chars)
  PROVE  PropParts(props, id) \subseteq Tuples["prop"] /\ IsFiniteSet(PropParts(props, id))
<1> DEFINE D == DOMAIN props
           T == PropParts(props, id)
           part == [k \in D |-> <<k, Norm(props[k]), id>>]
<1>1. \A k \in D : k \in Seq(Chars) /\ props[k] \in Seq(Chars)
  BY RowTexts
<1>2. T = {<<k, Norm(props[k]), id>> : k \in D}
  BY DEF PropParts
<1>3. T \subseteq Seq(Chars) \X Seq(Chars) \X Seq(Chars)
  BY <1>1, <1>2, NormChars
<1>4. part \in Surjection(D, T)
  BY <1>2 DEF Surjection
<1>5. IsFiniteSet(D)
  BY EncodingAssumption
<1> HIDE DEF D, T, part
<1>6. IsFiniteSet(T)
  BY <1>4, <1>5, FS_Surjection
<1> QED
  BY <1>3, <1>6 DEF T, Tuples, Families

\* New entries come with their keys.
LEMMA IndexKeeps ==
  ASSUME KeysKept, NEW family \in SUBSET Families, NEW parts, Index(family, parts),
         \A f \in family : parts[f] \subseteq Tuples[f] /\ IsFiniteSet(parts[f])
  PROVE  KeysKept'
<1>1. /\ entries' = [f \in Families |->
                       entries[f] \cup (IF f \in family THEN parts[f] ELSE {})]
      /\ keys' = [f \in Families |->
                    keys[f] \cup (IF f \in family THEN {IdxKey(p) : p \in parts[f]} ELSE {})]
  BY DEF KeysKept, Index
<1>2. ASSUME NEW f \in Families
      PROVE  /\ IsFiniteSet(entries'[f]) /\ entries'[f] \subseteq Tuples[f]
             /\ keys'[f] = {IdxKey(p) : p \in entries'[f]}
  <2>1. /\ IsFiniteSet(entries[f]) /\ entries[f] \subseteq Tuples[f]
        /\ keys[f] = {IdxKey(p) : p \in entries[f]}
    BY DEF KeysKept
  <2>2. CASE f \in family
    <3>1. entries'[f] = entries[f] \cup parts[f]
      BY <1>1, <2>2
    <3>2. keys'[f] = keys[f] \cup {IdxKey(p) : p \in parts[f]}
      BY <1>1, <2>2
    <3>3. IsFiniteSet(entries[f] \cup parts[f])
      BY <2>1, <2>2, FS_Union
    <3>4. entries[f] \cup parts[f] \subseteq Tuples[f]
      BY <2>1, <2>2
    <3>5. keys[f] \cup {IdxKey(p) : p \in parts[f]} = {IdxKey(p) : p \in entries[f] \cup parts[f]}
      BY <2>1
    <3> QED
      BY <3>1, <3>2, <3>3, <3>4, <3>5, Zenon
  <2>3. CASE f \notin family
    <3>1. entries'[f] = entries[f] /\ keys'[f] = keys[f]
      BY <1>1, <2>3
    <3> QED
      BY <2>1, <3>1
  <2> QED
    BY <2>2, <2>3
<1> QED
  BY <1>1, <1>2 DEF KeysKept

\* A node is put: its bytes say its row, the others are as before.
LEMMA PutNodeKeeps == IInv /\ PutNode => IInv'
<1>1. SUFFICES ASSUME IInv, PutNode PROVE IInv'
  OBVIOUS
<1>2. PICK id \in NodeIds, label \in Labels, props \in Props :
        \E order \in SetToSeqs(DOMAIN props) :
          /\ nodes' = With(nodes, id, [label |-> label, props |-> props])
          /\ cache' = With(cache, id, EncodeNodeValue(label, props, order))
          /\ Index({"prop"}, [f \in {"prop"} |-> PropParts(props, id)])
  BY <1>1 DEF PutNode
<1>3. PICK order \in SetToSeqs(DOMAIN props) :
        /\ nodes' = With(nodes, id, [label |-> label, props |-> props])
        /\ cache' = With(cache, id, EncodeNodeValue(label, props, order))
        /\ Index({"prop"}, [f \in {"prop"} |-> PropParts(props, id)])
  BY <1>2
<1>4. /\ puts < MaxPuts /\ puts' = puts + 1
      /\ pending' = pending /\ blobs' = blobs /\ fat' = fat /\ batch' = batch
  BY <1>1 DEF PutNode
<1>5. NodesKept'
  <2> DEFINE b == EncodeNodeValue(label, props, order)
             row == [label |-> label, props |-> props]
  <2>1. b \in Seq(Byte) /\ b # <<>> /\ Len(b) <= MaxRowBytes /\ NodeRead(b) = {row}
    BY NodeValue
  <2>2. row \in Values
    BY DEF Values
  <2>3. cache' = With(cache, id, b) /\ nodes' = With(nodes, id, row)
    BY <1>3
  <2> HIDE DEF b, row
  <2>4. DOMAIN cache' = DOMAIN cache \cup {id} /\ DOMAIN nodes' = DOMAIN nodes \cup {id}
    BY <2>3 DEF With
  <2>5. cache'[id] = b /\ nodes'[id] = row
    BY <2>3 DEF With
  <2>6. \A x \in DOMAIN cache : x # id => cache'[x] = cache[x] /\ nodes'[x] = nodes[x]
    BY <1>1, <2>3 DEF With, IInv, NodesKept
  <2>7. NodesKept
    BY <1>1 DEF IInv
  <2>8. ASSUME NEW x \in DOMAIN cache'
        PROVE  /\ nodes'[x] \in Values
               /\ cache'[x] \in Seq(Byte) /\ cache'[x] # <<>> /\ Len(cache'[x]) <= MaxRowBytes
               /\ NodeRead(cache'[x]) = {nodes'[x]}
    <3>1. CASE x = id
      BY <2>1, <2>2, <2>5, <3>1
    <3>2. CASE x # id
      <4>1. x \in DOMAIN cache /\ cache'[x] = cache[x] /\ nodes'[x] = nodes[x]
        BY <2>4, <2>6, <3>2
      <4> QED
        BY <2>7, <4>1 DEF NodesKept
    <3> QED
      BY <3>1, <3>2
  <2>9. DOMAIN nodes' = DOMAIN cache' /\ DOMAIN cache' \subseteq NodeIds
    BY <2>4, <2>7 DEF NodesKept
  <2> QED
    BY <2>8, <2>9 DEF NodesKept
<1>6. BlobsKept'
  <2>1. BlobsKept /\ MaxPuts \in Nat
    BY <1>1, EncodingAssumption DEF IInv
  <2>2. puts' \in 0..MaxPuts /\ Len(blobs) <= puts'
    BY <1>4, <2>1 DEF BlobsKept
  <2> QED
    BY <1>4, <2>1, <2>2 DEF BlobsKept
<1>7. FatKept'
  BY <1>1, <1>4 DEF IInv, FatKept, FatBatchReadable
<1>8. KeysKept'
  <2> DEFINE parts == [f \in {"prop"} |-> PropParts(props, id)]
  <2>1. id \in Seq(Chars)
    BY EncodingAssumption
  <2>2. \A f \in {"prop"} : parts[f] \subseteq Tuples[f] /\ IsFiniteSet(parts[f])
    BY <2>1, PropTuples
  <2>3. Index({"prop"}, parts) /\ KeysKept /\ {"prop"} \in SUBSET Families
    BY <1>1, <1>3 DEF IInv, Families
  <2> HIDE DEF parts
  <2> QED
    BY <2>2, <2>3, IndexKeeps
<1> QED
  BY <1>5, <1>6, <1>7, <1>8 DEF IInv

\* What an edge takes from the cache says what is known of the endpoint.
LEMMA EndpointIs ==
  ASSUME NodesKept, NEW id
  PROVE  /\ Cached(id) \in Seq(Byte) /\ Len(Cached(id)) <= MaxRowBytes
         /\ EndpointRead(Cached(id)) = Known(id) /\ Known(id) \in SUBSET Values
<1>1. CASE id \in DOMAIN cache
  <2>1. Cached(id) = cache[id] /\ Known(id) = {nodes[id]}
    BY <1>1 DEF Cached, Known, NodesKept
  <2> QED
    BY <1>1, <2>1 DEF NodesKept, EndpointRead
<1>2. CASE id \notin DOMAIN cache
  <2>1. Cached(id) = <<>> /\ Known(id) = {}
    BY <1>2 DEF Cached, Known, NodesKept
  <2>2. MaxRowBytes \in Nat
    BY EncodingAssumption
  <2> QED
    BY <2>1, <2>2 DEF EndpointRead
<1> QED
  BY <1>1, <1>2

\* A sequence with one element more.
LEMMA Appended ==
  ASSUME NEW T, NEW s \in Seq(T), NEW x \in T
  PROVE  /\ Append(s, x) \in Seq(T) /\ Len(Append(s, x)) = Len(s) + 1
         /\ \A n \in 1..Len(s) : Append(s, x)[n] = s[n]
         /\ Append(s, x)[Len(s) + 1] = x
OBVIOUS

\* One blob more on both sides, which say the same.
LEMMA AppendKeeps ==
  ASSUME BlobsKept, NEW b \in Seq(Byte), Len(b) <= 12 + 3 * MaxRowBytes,
         NEW v \in Blobs, BlobRead(b) = {v}, puts < MaxPuts, puts' = puts + 1,
         pending' = Append(pending, b), blobs' = Append(blobs, v)
  PROVE  BlobsKept'
<1>1. MaxPuts \in Nat /\ puts \in 0..MaxPuts
  BY EncodingAssumption DEF BlobsKept
<1>2. pending \in Seq(Seq(Byte)) /\ blobs \in Seq(Blobs)
  BY DEF BlobsKept
<1>3. PICK N \in Nat : N = Len(pending) /\ N = Len(blobs) /\ N <= puts
  BY <1>2 DEF BlobsKept
<1>4. /\ pending' \in Seq(Seq(Byte)) /\ Len(pending') = N + 1
      /\ (\A n \in 1..N : pending'[n] = pending[n]) /\ pending'[N + 1] = b
  <2> DEFINE T == Seq(Byte)
  <2>1. pending \in Seq(T) /\ b \in T
    BY <1>2
  <2> HIDE DEF T
  <2>2. /\ Append(pending, b) \in Seq(T) /\ Len(Append(pending, b)) = Len(pending) + 1
        /\ (\A n \in 1..Len(pending) : Append(pending, b)[n] = pending[n])
        /\ Append(pending, b)[Len(pending) + 1] = b
    BY <2>1, Appended
  <2>3. pending' \in Seq(T)
    BY <2>2
  <2> QED
    BY <1>3, <2>2, <2>3 DEF T
<1>5. /\ blobs' \in Seq(Blobs) /\ Len(blobs') = N + 1
      /\ (\A n \in 1..N : blobs'[n] = blobs[n]) /\ blobs'[N + 1] = v
  BY <1>2, <1>3, Appended
<1>8. ASSUME NEW n \in 1..Len(pending')
      PROVE  Len(pending'[n]) <= 12 + 3 * MaxRowBytes /\ BlobRead(pending'[n]) = {blobs'[n]}
  <2>1. CASE n \in 1..N
    BY <1>3, <1>4, <1>5, <2>1 DEF BlobsKept
  <2>2. CASE n = N + 1
    BY <1>4, <1>5, <2>2
  <2>3. n \in 1..N \/ n = N + 1
    BY <1>4
  <2> QED
    BY <2>1, <2>2, <2>3
<1>9. puts' \in 0..MaxPuts /\ N + 1 <= puts'
  BY <1>1, <1>3
<1> QED
  BY <1>4, <1>5, <1>8, <1>9 DEF BlobsKept

\* An edge is put: its blob says its row and what is known of its endpoints.
LEMMA PutEdgeKeeps == IInv /\ PutEdge => IInv'
<1>1. SUFFICES ASSUME IInv, PutEdge PROVE IInv'
  OBVIOUS
<1>2. PICK cell \in EdgeIds, label \in Labels, src \in NodeIds, dst \in NodeIds, props \in Props :
        \E id \in {IF cell = <<>> THEN MakeEdgeID(src, label, dst) ELSE cell} :
        LET e == [id |-> id, label |-> label, src |-> src, dst |-> dst, props |-> props]
        IN  \E order \in SetToSeqs(DOMAIN props) :
              /\ blobs' = Append(blobs, [edge |-> e, src |-> Known(src), dst |-> Known(dst)])
              /\ pending' = Append(pending, EncodeMegaBlob(EncodeEdgeValue(e, order),
                                                           Cached(src), Cached(dst)))
              /\ Index({"prop", "src", "dst"},
                       [prop |-> PropParts(props, id),
                        src |-> {<<src, id>>}, dst |-> {<<dst, id>>}])
  BY <1>1 DEF PutEdge
<1>20. PICK id \in {IF cell = <<>> THEN MakeEdgeID(src, label, dst) ELSE cell} :
        LET e == [id |-> id, label |-> label, src |-> src, dst |-> dst, props |-> props]
        IN  \E order \in SetToSeqs(DOMAIN props) :
              /\ blobs' = Append(blobs, [edge |-> e, src |-> Known(src), dst |-> Known(dst)])
              /\ pending' = Append(pending, EncodeMegaBlob(EncodeEdgeValue(e, order),
                                                           Cached(src), Cached(dst)))
              /\ Index({"prop", "src", "dst"},
                       [prop |-> PropParts(props, id),
                        src |-> {<<src, id>>}, dst |-> {<<dst, id>>}])
  BY <1>2
<1> DEFINE e == [id |-> id, label |-> label, src |-> src, dst |-> dst, props |-> props]
           v == [edge |-> e, src |-> Known(src), dst |-> Known(dst)]
<1>3. PICK order \in SetToSeqs(DOMAIN props) :
        /\ blobs' = Append(blobs, v)
        /\ pending' = Append(pending, EncodeMegaBlob(EncodeEdgeValue(e, order),
                                                     Cached(src), Cached(dst)))
        /\ Index({"prop", "src", "dst"},
                 [prop |-> PropParts(props, id), src |-> {<<src, id>>}, dst |-> {<<dst, id>>}])
  BY <1>20
<1>4. /\ puts < MaxPuts /\ puts' = puts + 1
      /\ cache' = cache /\ nodes' = nodes /\ fat' = fat /\ batch' = batch
  BY <1>1 DEF PutEdge
<1>5. NodesKept /\ BlobsKept /\ FatKept /\ KeysKept
  BY <1>1 DEF IInv
<1>6. MakeEdgeID(src, label, dst) \in {FormatUint(x) : x \in State}
  BY MadeIds
<1>7. e \in PutEdges
  <2>1. id \in EdgeIds \/ id = MakeEdgeID(src, label, dst)
    BY <1>20
  <2>2. id \in EdgeIds \cup {FormatUint(x) : x \in State}
    BY <1>6, <2>1
  <2>3. e \in Edges
    BY <2>2 DEF Edges
  <2>4. e.id = id /\ e.src = src /\ e.label = label /\ e.dst = dst
    OBVIOUS
  <2> HIDE DEF e
  <2> QED
    BY <2>1, <2>3, <2>4 DEF PutEdges
<1>8. NodesKept'
  BY <1>4, <1>5 DEF NodesKept
<1>9. BlobsKept'
  <2> DEFINE edge == EncodeEdgeValue(e, order)
             b == EncodeMegaBlob(edge, Cached(src), Cached(dst))
  <2>1. e \in Edges /\ e.props = props
    BY <1>7 DEF PutEdges
  <2> HIDE DEF e
  <2>2. edge \in Seq(Byte) /\ Len(edge) <= MaxRowBytes /\ EdgeRead(edge) = {e}
    BY <2>1, EdgeValue
  <2>3. /\ Cached(src) \in Seq(Byte) /\ Len(Cached(src)) <= MaxRowBytes
        /\ EndpointRead(Cached(src)) = Known(src) /\ Known(src) \in SUBSET Values
    BY <1>5, EndpointIs
  <2>4. /\ Cached(dst) \in Seq(Byte) /\ Len(Cached(dst)) <= MaxRowBytes
        /\ EndpointRead(Cached(dst)) = Known(dst) /\ Known(dst) \in SUBSET Values
    BY <1>5, EndpointIs
  <2>5. pending' = Append(pending, b)
    BY <1>3
  <2> HIDE DEF edge
  <2>6. \A t \in {edge, Cached(src), Cached(dst)} : Len(t) <= MaxRowBytes
    BY <2>2, <2>3, <2>4
  <2>7. /\ b \in Seq(Byte) /\ Len(b) <= 12 + 3 * MaxRowBytes
        /\ BlobRead(b) = {[edge |-> x, src |-> EndpointRead(Cached(src)),
                           dst |-> EndpointRead(Cached(dst))] : x \in EdgeRead(edge)}
    BY <2>2, <2>3, <2>4, <2>6, MegaBlob
  <2> HIDE DEF b
  <2>8. BlobRead(b) = {v}
    BY <2>2, <2>3, <2>4, <2>7
  <2>9. v \in Blobs
    BY <1>7, <2>3, <2>4 DEF Blobs
  <2>10. blobs' = Append(blobs, v)
    BY <1>3
  <2> HIDE DEF v
  <2> QED
    BY <1>4, <1>5, <2>5, <2>7, <2>8, <2>9, <2>10, AppendKeeps
<1>10. FatKept'
  BY <1>4, <1>5 DEF FatKept, FatBatchReadable
<1>11. KeysKept'
  <2> DEFINE parts == [prop |-> PropParts(props, id), src |-> {<<src, id>>}, dst |-> {<<dst, id>>}]
  <2>1. src \in Seq(Chars) /\ dst \in Seq(Chars) /\ id \in Seq(Chars)
    <3>1. src \in Seq(Chars) /\ dst \in Seq(Chars)
      BY EncodingAssumption
    <3>2. MakeEdgeID(src, label, dst) \in Seq(Chars)
      BY <1>6, HashAssumption
    <3>3. cell \in Seq(Chars)
      BY EncodingAssumption
    <3> QED
      BY <1>20, <3>1, <3>2, <3>3
  <2>2. parts["prop"] \subseteq Tuples["prop"] /\ IsFiniteSet(parts["prop"])
    BY <2>1, PropTuples
  <2>3. parts["src"] = {<<src, id>>} /\ parts["dst"] = {<<dst, id>>}
    OBVIOUS
  <2>4. Index(Families, parts)
    BY <1>3 DEF Families
  <2> HIDE DEF parts
  <2>5. /\ parts["src"] \subseteq Tuples["src"] /\ IsFiniteSet(parts["src"])
        /\ parts["dst"] \subseteq Tuples["dst"] /\ IsFiniteSet(parts["dst"])
    <3>1. Tuples["src"] = Seq(Chars) \X Seq(Chars) /\ Tuples["dst"] = Seq(Chars) \X Seq(Chars)
      BY DEF Tuples, Families
    <3>2. IsFiniteSet({<<src, id>>}) /\ IsFiniteSet({<<dst, id>>})
      BY FS_Singleton
    <3> QED
      BY <2>1, <2>3, <3>1, <3>2
  <2>6. \A f \in Families : parts[f] \subseteq Tuples[f] /\ IsFiniteSet(parts[f])
    BY <2>2, <2>5 DEF Families
  <2> QED
    BY <1>5, <2>4, <2>6, IndexKeeps
<1> QED
  BY <1>8, <1>9, <1>10, <1>11 DEF IInv

\* A fat batch is written: it says the blobs that were pending.
LEMMA WriteFatBatchKeeps == IInv /\ WriteFatBatch => IInv'
<1>1. SUFFICES ASSUME IInv, WriteFatBatch PROVE IInv'
  OBVIOUS
<1>2. NodesKept /\ BlobsKept /\ FatKept /\ KeysKept
  BY <1>1 DEF IInv
<1>3. /\ fat' = EncodeFatBatch(pending) /\ batch' = blobs
      /\ pending' = <<>> /\ blobs' = <<>>
      /\ cache' = cache /\ nodes' = nodes /\ keys' = keys /\ entries' = entries /\ puts' = puts
  BY <1>1 DEF WriteFatBatch
<1>4. NodesKept' /\ KeysKept'
  BY <1>2, <1>3 DEF NodesKept, KeysKept
<1>5. BlobsKept'
  BY <1>2, <1>3, EncodingAssumption DEF BlobsKept
<1>6. FatKept'
  <2>1. pending \in Seq(Seq(Byte)) /\ blobs \in Seq(Blobs)
    BY <1>2 DEF BlobsKept
  <2>2. PICK N \in Nat : N = Len(pending) /\ N = Len(blobs)
    BY <1>2, <2>1 DEF BlobsKept
  <2>3. N <= MaxPuts
    <3>1. N <= puts /\ puts \in 0..MaxPuts /\ MaxPuts \in Nat
      BY <1>2, <2>2, EncodingAssumption DEF BlobsKept
    <3> QED
      BY <3>1
  <2>4. \A n \in 1..N : /\ Len(pending[n]) <= 12 + 3 * MaxRowBytes
                        /\ BlobRead(pending[n]) = {blobs[n]}
    BY <1>2, <2>2 DEF BlobsKept
  <2> DEFINE b == EncodeFatBatch(pending)
  <2>5. /\ b \in Seq(Byte) /\ b # <<>>
        /\ FatRead(b) = [n \in 1..Len(pending) |-> BlobRead(pending[n])]
    BY <2>1, <2>2, <2>3, <2>4, FatBatch
  <2> HIDE DEF b
  <2>6. DOMAIN blobs = 1..N
    BY <2>1, <2>2
  <2>7. FatRead(b) = [n \in 1..N |-> {blobs[n]}]
    BY <2>2, <2>4, <2>5
  <2>8. Singles(blobs) = [n \in 1..N |-> {blobs[n]}]
    BY <2>6 DEF Singles
  <2>9. fat' = b /\ batch' = blobs
    BY <1>3 DEF b
  <2> QED
    BY <2>5, <2>7, <2>8, <2>9 DEF FatKept, FatBatchReadable, Singles
<1> QED
  BY <1>4, <1>5, <1>6 DEF IInv

\* Each put and each write of a fat batch keeps the invariant.
THEOREM InvariantKept == IInv /\ [Next]_vars => IInv'
<1>1. ASSUME IInv, UNCHANGED vars PROVE IInv'
  <2>1. NodesKept' /\ BlobsKept' /\ FatKept' /\ KeysKept'
    BY <1>1 DEF IInv, vars, NodesKept, BlobsKept, FatKept, FatBatchReadable, Singles, KeysKept
  <2> QED
    BY <2>1 DEF IInv
<1> QED
  BY <1>1, PutNodeKeeps, PutEdgeKeeps, WriteFatBatchKeeps DEF Next

\* The invariant holds in every state of every run.
THEOREM InvariantHolds == Spec => []IInv
BY InitialInvariant, InvariantKept, PTL DEF Spec

-----------------------------------------------------------------------------
(* The properties.                                                         *)

\* Two entries of one family with the same key are the same, if one of them
\* holds no separator, or neither holds one in its first or last part.
Told(p, q) ==
  \/ \A n \in DOMAIN p : Plain(p[n])
  \/ \A n \in {1, Len(p)} : Plain(p[n]) /\ Plain(q[n])

LEMMA KeysApart ==
  ASSUME NEW f \in Families, NEW p \in Tuples[f], NEW q \in Tuples[f], IdxKey(p) = IdxKey(q),
         Told(p, q)
  PROVE  p = q
<1>1. CASE f = "prop"
  <2>1. p \in Seq(Chars) \X Seq(Chars) \X Seq(Chars) /\ q \in Seq(Chars) \X Seq(Chars) \X Seq(Chars)
    BY <1>1 DEF Tuples, Families
  <2>2. PICK a \in Seq(Chars), b \in Seq(Chars), c \in Seq(Chars) : p = <<a, b, c>>
    BY <2>1
  <2>3. PICK x \in Seq(Chars), y \in Seq(Chars), z \in Seq(Chars) : q = <<x, y, z>>
    BY <2>1
  <2>4. a \in Seq(Byte) /\ b \in Seq(Byte) /\ c \in Seq(Byte)
    BY CharsBytes
  <2>5. x \in Seq(Byte) /\ y \in Seq(Byte) /\ z \in Seq(Byte)
    BY CharsBytes
  <2>6. IdxKey(p) = a \o (<<SEP>> \o (b \o (<<SEP>> \o c)))
    BY <2>2, <2>4, TripleKey, Zenon
  <2>7. IdxKey(q) = x \o (<<SEP>> \o (y \o (<<SEP>> \o z)))
    BY <2>3, <2>5, TripleKey, Zenon
  <2>8. Tripled(a, b, c) = Tripled(x, y, z)
    BY <2>6, <2>7, Zenon DEF Tripled
  <2>9. \/ Plain(a) /\ Plain(b) /\ Plain(c)
        \/ Plain(a) /\ Plain(c) /\ Plain(x) /\ Plain(z)
    <3>1. /\ Len(p) = 3 /\ DOMAIN p = 1..3 /\ p[1] = a /\ p[2] = b /\ p[3] = c
          /\ q[1] = x /\ q[3] = z
      BY <2>2, <2>3
    <3> QED
      BY <3>1 DEF Told
  <2>10. CASE Plain(a) /\ Plain(b) /\ Plain(c)
    <3>1. a = x /\ b = y /\ c = z
      BY <2>4, <2>5, <2>8, <2>10, TriplesApart
    <3> QED
      BY <2>2, <2>3, <3>1
  <2>11. CASE Plain(a) /\ Plain(c) /\ Plain(x) /\ Plain(z)
    <3>1. a = x /\ b = y /\ c = z
      BY <2>4, <2>5, <2>8, <2>11, EndsApart
    <3> QED
      BY <2>2, <2>3, <3>1
  <2> QED
    BY <2>9, <2>10, <2>11
<1>2. CASE f # "prop"
  <2>1. p \in Seq(Chars) \X Seq(Chars) /\ q \in Seq(Chars) \X Seq(Chars)
    BY <1>2 DEF Tuples, Families
  <2>2. PICK a \in Seq(Chars), b \in Seq(Chars) : p = <<a, b>>
    BY <2>1
  <2>3. PICK x \in Seq(Chars), y \in Seq(Chars) : q = <<x, y>>
    BY <2>1
  <2>4. a \in Seq(Byte) /\ b \in Seq(Byte) /\ x \in Seq(Byte) /\ y \in Seq(Byte)
    BY CharsBytes
  <2>5. IdxKey(p) = a \o (<<SEP>> \o b) /\ IdxKey(q) = x \o (<<SEP>> \o y)
    BY <2>2, <2>3, <2>4, PairKey, Zenon
  <2>6. a \o (<<SEP>> \o b) = x \o (<<SEP>> \o y)
    BY <2>5, Zenon
  <2>7. Plain(a) /\ Plain(b)
    <3>1. Len(p) = 2 /\ DOMAIN p = 1..2 /\ p[1] = a /\ p[2] = b
      BY <2>2
    <3> QED
      BY <3>1 DEF Told
  <2>8. a = x /\ b = y
    BY <2>4, <2>6, <2>7, PairsApart
  <2> QED
    BY <2>2, <2>3, <2>8
<1> QED
  BY <1>1, <1>2

\* Keys are bytes.
LEMMA KeyBytes ==
  ASSUME NEW f \in Families, NEW p \in Tuples[f]
  PROVE  IdxKey(p) \in Seq(Byte)
<1>1. CASE f = "prop"
  <2>1. p \in Seq(Chars) \X Seq(Chars) \X Seq(Chars)
    BY <1>1 DEF Tuples, Families
  <2>2. PICK a \in Seq(Chars), b \in Seq(Chars), c \in Seq(Chars) : p = <<a, b, c>>
    BY <2>1
  <2> QED
    BY <2>2, CharsBytes, TripleKey
<1>2. CASE f # "prop"
  <2>1. p \in Seq(Chars) \X Seq(Chars)
    BY <1>2 DEF Tuples, Families
  <2>2. PICK a \in Seq(Chars), b \in Seq(Chars) : p = <<a, b>>
    BY <2>1
  <2> QED
    BY <2>2, CharsBytes, PairKey
<1> QED
  BY <1>1, <1>2

\* Only bytes are stored and no encoder of internal/storage panics, for any
\* byte base, texts, property maps and number of rows whose lengths fit.
THEOREM EncodingTypes == Spec => []TypeOK
<1>1. ASSUME IInv PROVE TypeOK
  <2>1. NodesKept /\ BlobsKept /\ FatKept /\ KeysKept
    BY <1>1 DEF IInv
  <2>2. \A id \in DOMAIN cache : cache[id] \in Seq(Byte)
    BY <2>1 DEF NodesKept
  <2>3. \A n \in DOMAIN pending : pending[n] \in Seq(Byte)
    <3> DEFINE T == Seq(Byte)
    <3>1. pending \in Seq(T)
      BY <2>1 DEF BlobsKept
    <3> HIDE DEF T
    <3>2. \A n \in DOMAIN pending : pending[n] \in T
      BY <3>1
    <3> QED
      BY <3>2 DEF T
  <2>4. \A f \in DOMAIN keys : keys[f] \subseteq Seq(Byte)
    BY <2>1, KeyBytes DEF KeysKept
  <2> QED
    BY <2>1, <2>2, <2>3, <2>4 DEF TypeOK, FatKept, BlobsKept
<1> QED
  BY <1>1, InvariantHolds, PTL

\* The bytes of a node that EncodeNodeValue makes read back as its row, in
\* whatever order the map of its properties is walked.
THEOREM NodesAlwaysReadable == Spec => []NodesReadable
<1>1. IInv => NodesReadable
  BY DEF IInv, NodesKept, NodesReadable
<1> QED
  BY <1>1, InvariantHolds, PTL

\* A fat batch of EncodeFatBatch reads back as the edges put since the last,
\* in their order, each with its row and those of its endpoints.
THEOREM FatBatchAlwaysReadable == Spec => []FatBatchReadable
<1>1. IInv => FatBatchReadable
  BY DEF IInv, FatKept
<1> QED
  BY <1>1, InvariantHolds, PTL

\* An index entry that holds no NUL shares its key with no other; if ids and
\* names of properties hold none, no two entries share a key, whatever their
\* values hold: for any texts, empty ones and such with a NUL among them.
THEOREM IndexKeysAlwaysDistinct == Spec => []IndexKeysDistinct
<1>1. ASSUME IInv PROVE IndexKeysDistinct
  <2>1. SUFFICES ASSUME NEW f \in DOMAIN keys, NEW key \in keys[f],
                        NEW p \in {e \in entries[f] : IdxKey(e) = key},
                        NEW q \in {e \in entries[f] : IdxKey(e) = key},
                        Told(p, q)
                 PROVE  p = q
    BY DEF IndexKeysDistinct, Told
  <2>2. f \in Families /\ p \in Tuples[f] /\ q \in Tuples[f]
    BY <1>1, <2>1 DEF IInv, KeysKept
  <2>3. IdxKey(p) = IdxKey(q)
    BY <2>1
  <2> QED
    BY <2>1, <2>2, <2>3, KeysApart
<1> QED
  BY <1>1, InvariantHolds, PTL

\* MakeEdgeID gives different ids to edges whose endpoints and labels, put
\* together, differ in one character of as many, wherever that character is:
\* for any odd multiplier, any seed and any number of bits.
THEOREM OneCharacterAlwaysTells == Spec => []OneCharacterTells
<1>1. ASSUME IInv PROVE OneCharacterTells
  <2>1. SUFFICES
          ASSUME NEW n \in DOMAIN blobs, NEW m \in DOMAIN blobs,
                 {blobs[n].edge.id, blobs[m].edge.id} \cap EdgeIds = {},
                 Len(Triple(blobs[n].edge.src, blobs[n].edge.label, blobs[n].edge.dst))
                   = Len(Triple(blobs[m].edge.src, blobs[m].edge.label, blobs[m].edge.dst)),
                 Cardinality(Apart(
                   Triple(blobs[n].edge.src, blobs[n].edge.label, blobs[n].edge.dst),
                   Triple(blobs[m].edge.src, blobs[m].edge.label, blobs[m].edge.dst))) = 1
          PROVE  blobs[n].edge.id # blobs[m].edge.id
    BY DEF OneCharacterTells
  <2>2. blobs \in Seq(Blobs)
    BY <1>1 DEF IInv, BlobsKept
  <2>3. blobs[n] \in Blobs /\ blobs[m] \in Blobs
    BY <2>2
  <2>4. PICK e, f : e = blobs[n].edge /\ f = blobs[m].edge
    OBVIOUS
  <2>5. e \in PutEdges /\ f \in PutEdges
    BY <2>3, <2>4 DEF Blobs
  <2>6. e.id \notin EdgeIds /\ f.id \notin EdgeIds
    BY <2>1, <2>4
  <2>7. /\ e \in Edges /\ e.id = MakeEdgeID(e.src, e.label, e.dst)
        /\ f \in Edges /\ f.id = MakeEdgeID(f.src, f.label, f.dst)
    BY <2>5, <2>6 DEF PutEdges
  <2>8. /\ Len(Triple(e.src, e.label, e.dst)) = Len(Triple(f.src, f.label, f.dst))
        /\ Cardinality(Apart(Triple(e.src, e.label, e.dst), Triple(f.src, f.label, f.dst))) = 1
    BY <2>1, <2>4
  <2>9. e.id # f.id
    BY <2>7, <2>8, IdsDiffer
  <2> QED
    BY <2>4, <2>9
<1> QED
  BY <1>1, InvariantHolds, PTL
=============================================================================
