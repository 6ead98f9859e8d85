-------------------------- MODULE CommandLineProofs --------------------------
(***************************************************************************)
(* What a user quotes arrives, and options say the same in any order, for  *)
(* any pieces of text, any words made of them and any commands.            *)
(***************************************************************************)
EXTENDS CommandLine, Integers, WellFoundedInduction, TLAPS

-----------------------------------------------------------------------------
(* Loops: what one turn keeps, all of them keep.                           *)

\* What holds of 0 and passes from each number to the next holds up to N.
LEMMA Climb ==
  ASSUME NEW N \in Nat, NEW P, 0 \in P, \A n \in 1..N : n - 1 \in P => n \in P
  PROVE  0..N \subseteq P
<1> DEFINE Q == (0..N) \ P
<1>1. SUFFICES ASSUME Q # {} PROVE FALSE
  OBVIOUS
<1>2. Q \subseteq Nat
  OBVIOUS
<1>3. \A a, b \in Nat : a < b => <<a, b>> \in OpToRel(<, Nat)
  BY DEF OpToRel
<1> HIDE DEF Q
<1>4. PICK x \in Q : \A y \in Q : <<y, x>> \notin OpToRel(<, Nat)
  BY <1>1, <1>2, WFMin, NatLessThanWellFounded
<1>5. \A y \in Q : ~(y < x)
  BY <1>2, <1>3, <1>4
<1>6. x \in 1..N /\ x - 1 \in 0..N /\ x - 1 < x
  <2>1. x \in 0..N /\ x # 0
    BY <1>4 DEF Q
  <2> QED
    BY <2>1
<1>7. x - 1 \in P
  BY <1>5, <1>6 DEF Q
<1>8. x \in P
  BY <1>6, <1>7
<1> QED
  BY <1>4, <1>8 DEF Q

\* Each of N turns makes a value of S from the one before; f has the values.
Steps(h, N, S) == h \in [1..N -> [S -> S]]
Turns(f, a, h, N, S) == f \in [0..N -> S] /\ f[0] = a /\ \A n \in 1..N : f[n] = h[n][f[n - 1]]

\* A loop has a value after each turn.
LEMMA Loop ==
  ASSUME NEW S, NEW a \in S, NEW N \in Nat, NEW h, Steps(h, N, S)
  PROVE  \E f : Turns(f, a, h, N, S)
<1> DEFINE P == {m \in 0..N : \E f : Turns(f, a, h, m, S)}
<1>1. 0 \in P
  <2> DEFINE f == [n \in 0..0 |-> a]
  <2>1. f \in [0..0 -> S] /\ f[0] = a /\ 1..0 = {}
    OBVIOUS
  <2>2. Turns(f, a, h, 0, S)
    BY <2>1 DEF Turns
  <2> QED
    BY <2>2
<1>2. ASSUME NEW m \in 1..N, m - 1 \in P
      PROVE  m \in P
  <2>1. PICK f : Turns(f, a, h, m - 1, S)
    BY <1>2
  <2>2. /\ f \in [0..m - 1 -> S] /\ f[0] = a
        /\ \A n \in 1..m - 1 : f[n] = h[n][f[n - 1]]
    BY <2>1 DEF Turns
  <2> DEFINE g == [n \in 0..m |-> IF n = m THEN h[m][f[m - 1]] ELSE f[n]]
  <2>3. f[m - 1] \in S
    BY <2>2
  <2>4. h[m][f[m - 1]] \in S
    BY <2>3 DEF Steps
  <2>5. g \in [0..m -> S]
    BY <2>2, <2>4
  <2>6. g[0] = a
    BY <2>2
  <2>7. ASSUME NEW n \in 1..m PROVE g[n] = h[n][g[n - 1]]
    <3>1. CASE n = m
      BY <3>1
    <3>2. CASE n # m
      <4>1. n \in 1..m - 1 /\ n - 1 \in 0..m /\ n - 1 # m /\ n \in 0..m
        BY <3>2
      <4>2. f[n] = h[n][f[n - 1]]
        BY <2>2, <4>1
      <4> QED
        BY <3>2, <4>1, <4>2
    <3> QED
      BY <3>1, <3>2
  <2> HIDE DEF g
  <2>8. Turns(g, a, h, m, S)
    BY <2>5, <2>6, <2>7 DEF Turns
  <2> QED
    BY <2>8
<1> HIDE DEF P
<1>3. 0..N \subseteq P
  BY <1>1, <1>2, Climb
<1>4. N \in P
  BY <1>3
<1> QED
  BY <1>4 DEF P

-----------------------------------------------------------------------------
(* Sequences.                                                              *)

\* Sequences put together keep their elements in their places.
LEMMA Concat ==
  ASSUME NEW T, NEW p \in Seq(T), NEW q \in Seq(T)
  PROVE  /\ p \o q \in Seq(T) /\ Len(p \o q) = Len(p) + Len(q)
         /\ \A m \in 1..Len(p) : (p \o q)[m] = p[m]
         /\ \A m \in 1..Len(q) : (p \o q)[Len(p) + m] = q[m]
OBVIOUS

\* Putting together is associative.
LEMMA Associative ==
  ASSUME NEW T, NEW a \in Seq(T), NEW b \in Seq(T), NEW c \in Seq(T)
  PROVE  (a \o b) \o c = a \o (b \o c)
<1> DEFINE x == (a \o b) \o c
           y == a \o (b \o c)
<1>1. PICK l \in Nat, m \in Nat, n \in Nat : l = Len(a) /\ m = Len(b) /\ n = Len(c)
  OBVIOUS
<1>2. a \o b \in Seq(T) /\ b \o c \in Seq(T)
  BY Concat
<1>3. Len(a \o b) = l + m /\ Len(b \o c) = m + n
  BY <1>1, Concat
<1>4. x \in Seq(T) /\ y \in Seq(T)
  BY <1>2, Concat
<1>5. Len(x) = (l + m) + n /\ Len(y) = l + (m + n)
  BY <1>1, <1>2, <1>3, Concat
<1>6. ASSUME NEW k \in 1..l + m + n PROVE x[k] = y[k]
  <2>1. CASE k \in 1..l
    <3>1. k \in 1..l + m
      BY <2>1
    <3>2. x[k] = (a \o b)[k] /\ (a \o b)[k] = a[k]
      BY <1>1, <1>2, <1>3, <2>1, <3>1, Concat
    <3>3. y[k] = a[k]
      BY <1>1, <1>2, <2>1, Concat
    <3> QED
      BY <3>2, <3>3
  <2>2. CASE k \in l + 1..l + m
    <3>1. k - l \in 1..m /\ k - l \in 1..m + n /\ k \in 1..l + m /\ l + (k - l) = k
      BY <2>2
    <3>2. x[k] = (a \o b)[k] /\ (a \o b)[l + (k - l)] = b[k - l]
      BY <1>1, <1>2, <1>3, <3>1, Concat
    <3>3. y[l + (k - l)] = (b \o c)[k - l] /\ (b \o c)[k - l] = b[k - l]
      BY <1>1, <1>2, <1>3, <3>1, Concat
    <3> QED
      BY <3>1, <3>2, <3>3
  <2>3. CASE k \in l + m + 1..l + m + n
    <3>1. /\ k - (l + m) \in 1..n /\ k - l \in 1..m + n /\ (l + m) + (k - (l + m)) = k
          /\ l + (k - l) = k /\ m + (k - (l + m)) = k - l
      BY <2>3
    <3>2. x[(l + m) + (k - (l + m))] = c[k - (l + m)]
      BY <1>1, <1>2, <1>3, <3>1, Concat
    <3>3. y[l + (k - l)] = (b \o c)[k - l]
      BY <1>1, <1>2, <1>3, <3>1, Concat
    <3>4. (b \o c)[m + (k - (l + m))] = c[k - (l + m)]
      BY <1>1, <3>1, Concat
    <3> QED
      BY <3>1, <3>2, <3>3, <3>4
  <2>4. k \in Nat /\ 1 <= k /\ k <= l + m + n
    OBVIOUS
  <2>5. k \in 1..l \/ k \in l + 1..l + m \/ k \in l + m + 1..l + m + n
    BY <2>4
  <2> QED
    BY <2>1, <2>2, <2>3, <2>5
<1>7. Len(x) = l + m + n /\ Len(y) = l + m + n
  BY <1>5
<1> HIDE DEF x, y
<1>8. x = y
  BY <1>4, <1>6, <1>7
<1> QED
  BY <1>8 DEF x, y

\* The same for all sequences over a set.
LEMMA SeqsAssociative ==
  ASSUME NEW T
  PROVE  \A a, b, c \in Seq(T) : (a \o b) \o c = a \o (b \o c)
BY Associative

\* A sequence with one element more.
LEMMA Appended ==
  ASSUME NEW T, NEW s \in Seq(T), NEW x \in T
  PROVE  /\ Append(s, x) \in Seq(T) /\ Len(Append(s, x)) = Len(s) + 1
         /\ \A n \in 1..Len(s) : Append(s, x)[n] = s[n]
         /\ Append(s, x)[Len(s) + 1] = x
OBVIOUS

\* Sequences with the same elements are the same.
LEMMA SameElements ==
  ASSUME NEW T, NEW x \in Seq(T), NEW y \in Seq(T), Len(x) = Len(y),
         \A m \in 1..Len(y) : x[m] = y[m]
  PROVE  x = y
OBVIOUS

\* Nothing before or after a sequence leaves it as it is.
LEMMA ConcatEmpty ==
  ASSUME NEW T, NEW s \in Seq(T)
  PROVE  <<>> \o s = s /\ s \o <<>> = s
OBVIOUS

\* One element and a sequence.
LEMMA ConcatOne ==
  ASSUME NEW T, NEW x \in T, NEW s \in Seq(T)
  PROVE  /\ <<x>> \o s \in Seq(T) /\ Len(<<x>> \o s) = Len(s) + 1
         /\ (<<x>> \o s)[1] = x
         /\ \A m \in 1..Len(s) : (<<x>> \o s)[m + 1] = s[m]
         /\ Append(s, x) = s \o <<x>>
OBVIOUS

\* What is left of s from the place n on.
Left(s, n) == SubSeq(s, n, Len(s))

\* The elements of what is left.
LEMMA LeftIs ==
  ASSUME NEW T, NEW s \in Seq(T), NEW n \in 1..Len(s) + 1
  PROVE  /\ Left(s, n) \in Seq(T) /\ Len(Left(s, n)) = Len(s) + 1 - n
         /\ \A m \in 1..Len(s) + 1 - n : Left(s, n)[m] = s[n + m - 1]
BY DEF Left

\* All is left from 1 on, and nothing from the end on.
LEMMA LeftEnds ==
  ASSUME NEW T, NEW s \in Seq(T)
  PROVE  /\ Left(s, 1) = s /\ Left(s, Len(s) + 1) = <<>>
         /\ \A n \in 1..Len(s) + 1 : Left(s, n) = <<>> => n = Len(s) + 1
<1>1. Left(s, 1) = s /\ Left(s, Len(s) + 1) = <<>>
  BY DEF Left
<1>2. ASSUME NEW n \in 1..Len(s) + 1, Left(s, n) = <<>> PROVE n = Len(s) + 1
  <2>1. Len(Left(s, n)) = 0 /\ Len(Left(s, n)) = Len(s) + 1 - n /\ Len(s) \in Nat
    BY <1>2, LeftIs
  <2> QED
    BY <2>1
<1> QED
  BY <1>1, <1>2

\* The first element of what is left, and what is left after it.
LEMMA LeftNext ==
  ASSUME NEW T, NEW s \in Seq(T), NEW n \in 1..Len(s)
  PROVE  Left(s, n) = <<s[n]>> \o Left(s, n + 1)
<1>1. PICK l \in Nat : l = Len(s)
  OBVIOUS
<1> DEFINE x == Left(s, n)
           y == Left(s, n + 1)
           z == <<s[n]>> \o y
<1>2. n + 1 \in 1..l + 1 /\ n \in 1..l + 1 /\ s[n] \in T
  BY <1>1
<1>3. x \in Seq(T) /\ Len(x) = l + 1 - n /\ \A m \in 1..l + 1 - n : x[m] = s[n + m - 1]
  BY <1>1, <1>2, LeftIs
<1>4. y \in Seq(T) /\ Len(y) = l + 1 - (n + 1)
      /\ \A m \in 1..l + 1 - (n + 1) : y[m] = s[(n + 1) + m - 1]
  BY <1>1, <1>2, LeftIs
<1> HIDE DEF x, y
<1>5. z \in Seq(T) /\ Len(z) = Len(y) + 1 /\ z[1] = s[n]
      /\ \A m \in 1..Len(y) : z[m + 1] = y[m]
  BY <1>2, <1>4, ConcatOne, SMTT(30)
<1> HIDE DEF z
<1>6. Len(z) = l + 1 - n
  BY <1>1, <1>4, <1>5
<1>7. ASSUME NEW m \in 1..l + 1 - n PROVE x[m] = z[m]
  <2>1. CASE m = 1
    <3>1. n + m - 1 = n
      BY <1>1, <2>1
    <3> QED
      BY <1>3, <1>5, <2>1, <3>1
  <2>2. CASE m # 1
    <3>1. m - 1 \in 1..Len(y) /\ (m - 1) + 1 = m /\ (n + 1) + (m - 1) - 1 = n + m - 1
      BY <1>1, <1>4, <2>2
    <3>2. m - 1 \in 1..l + 1 - (n + 1)
      BY <1>1, <2>2
    <3>3. z[(m - 1) + 1] = y[m - 1] /\ y[m - 1] = s[(n + 1) + (m - 1) - 1]
      BY <1>4, <1>5, <3>1, <3>2
    <3> QED
      BY <1>3, <3>1, <3>3
  <2> QED
    BY <2>1, <2>2
<1>8. x = z
  BY <1>3, <1>5, <1>6, <1>7
<1> QED
  BY <1>8 DEF x, y, z

\* What is left tells the element at that place and what is left after it.
LEMMA LeftStarts ==
  ASSUME NEW T, NEW s \in Seq(T), NEW n \in 1..Len(s) + 1, NEW x \in T, NEW r \in Seq(T),
         Left(s, n) = <<x>> \o r
  PROVE  n \in 1..Len(s) /\ s[n] = x /\ Left(s, n + 1) = r /\ Len(s) - n = Len(r)
<1>1. Len(s) \in Nat /\ Len(r) \in Nat
  OBVIOUS
<1>2. Len(<<x>> \o r) = Len(r) + 1 /\ (<<x>> \o r)[1] = x
  BY ConcatOne
<1>3. Len(Left(s, n)) = Len(s) + 1 - n
  BY LeftIs
<1>4. n \in 1..Len(s) /\ Len(s) - n = Len(r)
  BY <1>1, <1>2, <1>3
<1>5. Left(s, n) = <<s[n]>> \o Left(s, n + 1) /\ s[n] \in T
  BY <1>4, LeftNext, SMTT(30)
<1>6. Left(s, n + 1) \in Seq(T)
  BY <1>1, <1>4, LeftIs
<1> DEFINE y == Left(s, n + 1)
<1> HIDE DEF y
<1>7. <<s[n]>> \o y = <<x>> \o r /\ y \in Seq(T)
  BY <1>5, <1>6 DEF y
<1>8. s[n] = x /\ Len(y) = Len(r)
  <2>1. Len(<<s[n]>> \o y) = Len(y) + 1 /\ (<<s[n]>> \o y)[1] = s[n] /\ Len(y) \in Nat
    BY <1>5, <1>7, ConcatOne
  <2> QED
    BY <1>1, <1>2, <1>7, <2>1
<1>9. ASSUME NEW m \in 1..Len(r) PROVE y[m] = r[m]
  <2>1. (<<s[n]>> \o y)[m + 1] = y[m]
    BY <1>5, <1>7, <1>8, ConcatOne
  <2>2. (<<x>> \o r)[m + 1] = r[m]
    BY ConcatOne
  <2> QED
    BY <1>7, <2>1, <2>2
<1>10. y = r
  BY <1>7, <1>8, <1>9, SameElements
<1> QED
  BY <1>4, <1>8, <1>10 DEF y

\* A beginning grows by the next element.
LEMMA BeginningGrows ==
  ASSUME NEW T, NEW s \in Seq(T), NEW m \in 0..Len(s) - 1
  PROVE  SubSeq(s, 1, m + 1) = Append(SubSeq(s, 1, m), s[m + 1])
<1>1. PICK l \in Nat : l = Len(s)
  OBVIOUS
<1> DEFINE x == SubSeq(s, 1, m + 1)
           y == SubSeq(s, 1, m)
           z == Append(y, s[m + 1])
<1>2. x \in Seq(T) /\ Len(x) = m + 1 /\ \A k \in 1..m + 1 : x[k] = s[k]
  OBVIOUS
<1>3. y \in Seq(T) /\ Len(y) = m /\ \A k \in 1..m : y[k] = s[k]
  OBVIOUS
<1>4. s[m + 1] \in T /\ m \in Nat
  BY <1>1
<1> HIDE DEF x, y
<1>5. z \in Seq(T) /\ Len(z) = m + 1 /\ (\A k \in 1..m : z[k] = y[k]) /\ z[m + 1] = s[m + 1]
  BY <1>3, <1>4, Appended
<1>6. ASSUME NEW k \in 1..m + 1 PROVE x[k] = z[k]
  <2>1. k \in 1..m \/ k = m + 1
    BY <1>4
  <2> QED
    BY <1>2, <1>3, <1>5, <2>1
<1> HIDE DEF z
<1>7. x = z
  BY <1>2, <1>5, <1>6
<1> QED
  BY <1>7 DEF x, y, z

\* A whole beginning, and an empty one.
LEMMA BeginningEnds ==
  ASSUME NEW T, NEW s \in Seq(T)
  PROVE  SubSeq(s, 1, Len(s)) = s /\ SubSeq(s, 1, 0) = <<>>
OBVIOUS

-----------------------------------------------------------------------------
(* Parts, put together.                                                    *)

\* The last parts are the first of them and the others.
LEMMA EndingIs ==
  ASSUME NEW T, NEW parts \in Seq(Seq(T))
  PROVE  /\ Ending(parts, 0) = <<>>
         /\ \A k \in 0..Len(parts) : Ending(parts, k) \in Seq(T)
         /\ \A k \in 1..Len(parts) :
              Ending(parts, k) = parts[Len(parts) + 1 - k] \o Ending(parts, k - 1)
<1> DEFINE N == Len(parts)
           S == Seq(T)
           a == <<>>
           joined[n \in 0..N] == IF n = 0 THEN <<>> ELSE parts[Len(parts) + 1 - n] \o joined[n - 1]
           h == [n \in 1..N |-> [s \in S |-> parts[Len(parts) + 1 - n] \o s]]
<1>1. N \in Nat
  OBVIOUS
<1>2. \A n \in 1..N : \A s \in S : parts[Len(parts) + 1 - n] \o s \in S
  <2>1. ASSUME NEW n \in 1..N, NEW s \in S PROVE parts[Len(parts) + 1 - n] \o s \in S
    <3>1. Len(parts) + 1 - n \in 1..Len(parts)
      BY <1>1
    <3> DEFINE p == parts[Len(parts) + 1 - n]
    <3>2. p \in Seq(T)
      BY <3>1
    <3> HIDE DEF p
    <3> QED
      BY <3>2
  <2> QED
    BY <2>1
<1>3. Steps(h, N, S)
  BY <1>2 DEF Steps
<1>4. \A n \in 1..N : \A s \in S : h[n][s] = parts[Len(parts) + 1 - n] \o s
  OBVIOUS
<1>5. \A k \in 0..N : Ending(parts, k) = joined[k]
  BY DEF Ending
<1>6. a \in S
  OBVIOUS
<1> HIDE DEF h, S, N, a
<1>7. \E f : Turns(f, a, h, N, S)
  BY <1>1, <1>3, <1>6, Loop
<1>8. joined = [n \in 0..N |-> IF n = 0 THEN <<>> ELSE parts[Len(parts) + 1 - n] \o joined[n - 1]]
  <2>1. PICK f : Turns(f, a, h, N, S)
    BY <1>7
  <2> DEFINE E(n) == IF n = 0 THEN <<>> ELSE parts[Len(parts) + 1 - n] \o f[n - 1]
  <2>2. ASSUME NEW n \in 0..N
        PROVE  f[n] = E(n)
    <3>1. CASE n = 0
      BY <2>1, <3>1 DEF Turns, a
    <3>2. CASE n # 0
      <4>1. n \in 1..N /\ n - 1 \in 0..N
        BY <1>1, <3>2
      <4>2. f[n] = h[n][f[n - 1]] /\ f[n - 1] \in S
        BY <2>1, <4>1 DEF Turns
      <4> QED
        BY <1>4, <3>2, <4>1, <4>2
    <3> QED
      BY <3>1, <3>2
  <2>3. f \in [0..N -> S]
    BY <2>1 DEF Turns
  <2> HIDE DEF E
  <2>4. f = [n \in 0..N |-> E(n)]
    BY <2>2, <2>3
  <2>5. f = [n \in 0..N |-> IF n = 0 THEN <<>> ELSE parts[Len(parts) + 1 - n] \o f[n - 1]]
    BY <2>4 DEF E
  <2> QED
    BY <2>5
<1> HIDE DEF joined
<1>9. joined[0] = a /\ \A n \in 1..N : joined[n] = parts[Len(parts) + 1 - n] \o joined[n - 1]
  <2>1. 0 \in 0..N /\ \A n \in 1..N : n \in 0..N /\ n # 0
    BY <1>1
  <2> QED
    BY <1>8, <2>1 DEF a
<1>10. joined \in [0..N -> S]
  <2> DEFINE P == {n \in 0..N : joined[n] \in S}
  <2>1. 0 \in P
    BY <1>1, <1>6, <1>9
  <2>2. ASSUME NEW n \in 1..N, n - 1 \in P PROVE n \in P
    <3>1. joined[n - 1] \in S /\ n \in 0..N
      BY <1>1, <2>2
    <3> QED
      BY <1>2, <1>9, <3>1
  <2> HIDE DEF P
  <2>3. 0..N \subseteq P
    BY <1>1, <2>1, <2>2, Climb
  <2>4. \A n \in 0..N : joined[n] \in S
    BY <2>3 DEF P
  <2>5. joined = [n \in 0..N |-> joined[n]]
    BY <1>8
  <2> QED
    BY <2>4, <2>5
<1>11. 0 \in 0..N /\ \A k \in 1..N : k \in 0..N /\ k - 1 \in 0..N
  BY <1>1
<1>12. \A k \in 0..N : Ending(parts, k) \in S
  BY <1>5, <1>10
<1>13. Ending(parts, 0) = <<>>
  BY <1>5, <1>9, <1>11 DEF a
<1>14. \A k \in 1..N : Ending(parts, k) = parts[Len(parts) + 1 - k] \o Ending(parts, k - 1)
  BY <1>5, <1>9, <1>11
<1> QED
  BY <1>12, <1>13, <1>14 DEF N, S

\* There is a least element of a set of naturals.
LEMMA Least ==
  ASSUME NEW S \in SUBSET Nat, S # {}
  PROVE  Min(S) \in S /\ \A n \in S : Min(S) <= n
<1>1. \A a, b \in Nat : a < b => <<a, b>> \in OpToRel(<, Nat)
  BY DEF OpToRel
<1>2. PICK x \in S : \A y \in S : <<y, x>> \notin OpToRel(<, Nat)
  BY WFMin, NatLessThanWellFounded
<1>3. S \subseteq Nat
  OBVIOUS
<1>4. \A y \in S : ~(y < x)
  BY <1>1, <1>2, <1>3
<1>5. \A y \in S : x <= y
  BY <1>3, <1>4
<1> QED
  BY <1>5 DEF Min

\* There is a greatest element of a set of naturals with a bound.
LEMMA Greatest ==
  ASSUME NEW S \in SUBSET Nat, S # {}, NEW b \in Nat, \A n \in S : n <= b
  PROVE  Max(S) \in S /\ \A n \in S : Max(S) >= n
<1> DEFINE R == {b - n : n \in S}
<1>1. R \in SUBSET Nat /\ R # {}
  <2>1. \A n \in S : b - n \in Nat
    OBVIOUS
  <2> QED
    BY <2>1
<1>2. Min(R) \in R /\ \A n \in R : Min(R) <= n
  <2> HIDE DEF R
  <2> QED
    BY <1>1, Least
<1>3. PICK x \in S : Min(R) = b - x
  BY <1>2
<1>4. \A y \in S : b - x <= b - y
  BY <1>2, <1>3
<1>5. \A y \in S : x >= y
  BY <1>4
<1> QED
  BY <1>5 DEF Max

-----------------------------------------------------------------------------
(* Characters, words and lines.                                            *)

\* What a command is written with.
Stop == ";"
Back == "\\"
Solid == Runes \ {Stop}

\* Texts put together, for all of them at once.
LEMMA TextsAssociative == \A a, b, c \in Seq(Runes) : (a \o b) \o c = a \o (b \o c)
BY SeqsAssociative

\* The special characters are apart from each other and from the others.
LEMMA Characters ==
  /\ Blank \in Solid /\ Back \in Solid /\ Stop \notin Solid /\ Stop \in Runes /\ Solid \subseteq Runes
  /\ Blank # Back /\ Meta \subseteq Solid /\ Meta \cap Special = {}
  /\ \A q \in Quotes : q \in Solid /\ q # Blank /\ q # Back /\ q \in Special
  /\ Quotings \subseteq Quotes /\ Blank \in Special /\ Back \in Special
  /\ Special \ {";"} \subseteq Solid /\ Plain \subseteq Solid
BY CommandLineAssumption, Zenon DEF Solid, Runes, Special, Quotes, Blank, Stop, Back

\* A sequence over some elements is one over more.
LEMMA WiderSeq ==
  ASSUME NEW S, NEW T, S \subseteq T, NEW s \in Seq(S)
  PROVE  s \in Seq(T)
OBVIOUS

\* So are sequences of sequences.
LEMMA WiderSeqSeq ==
  ASSUME NEW S, NEW T, S \subseteq T, NEW s \in Seq(Seq(S))
  PROVE  s \in Seq(Seq(T))
<1> DEFINE A == Seq(S)
           B == Seq(T)
<1>1. A \subseteq B
  BY WiderSeq
<1> HIDE DEF A, B
<1>2. s \in Seq(B)
  <2>1. s \in Seq(A)
    BY DEF A
  <2> QED
    BY <1>1, <2>1, WiderSeq
<1> QED
  BY <1>2 DEF B

\* The words of a command, each as it is written or heard.
LEMMA WordsTyped ==
  ASSUME NEW c \in Command
  PROVE  /\ Words(c) \in Seq(Seq(Solid)) /\ Len(Words(c)) \in Nat /\ Len(Words(c)) >= 1
         /\ Words(c)[1] = c.name /\ \E m \in Meta : c.name = <<m>>
<1> DEFINE S == Seq(Solid)
<1>1. PICK m \in Meta : c.name = <<m>>
  BY DEF Command
<1>2. c.name \in S
  <2>1. m \in Solid
    BY Characters
  <2> QED
    BY <1>1, <2>1
<1>3. Word \subseteq S
  <2>1. (Plain \cup Special) \ {";"} \subseteq Solid
    BY Characters
  <2> QED
    BY <2>1, WiderSeq DEF Word
<1>4. c.file \in Seq(S)
  <2>1. c.file \in Seq(Word)
    BY DEF Command
  <2> HIDE DEF S
  <2> QED
    BY <1>3, <2>1, WiderSeq
<1>5. Joined(c.options) \in Seq(S)
  <2>1. c.options \in Seq(Seq(Word)) /\ Len(c.options) \in Nat
    BY DEF Command
  <2> HIDE DEF S
  <2>2. c.options \in Seq(Seq(S))
    BY <1>3, <2>1, WiderSeqSeq
  <2>3. Len(c.options) \in 0..Len(c.options)
    BY <2>1
  <2> QED
    BY <2>2, <2>3, EndingIs DEF Joined
<1> DEFINE o == Joined(c.options)
           f == <<c.name>> \o c.file
           w == f \o o
<1> HIDE DEF S, o
<1>6. f \in Seq(S) /\ Len(f) = Len(c.file) + 1 /\ f[1] = c.name
  BY <1>2, <1>4, ConcatOne
<1>7. Len(c.file) \in Nat /\ Len(o) \in Nat
  BY <1>4, <1>5 DEF o
<1> HIDE DEF f
<1>8. w \in Seq(S) /\ Len(w) = Len(f) + Len(o) /\ \A k \in 1..Len(f) : w[k] = f[k]
  BY <1>5, <1>6, Concat, ZenonT(60) DEF o
<1> HIDE DEF w
<1>9. Len(w) \in Nat /\ Len(w) >= 1 /\ 1 \in 1..Len(f)
  BY <1>6, <1>7, <1>8
<1>10. Words(c) = w
  BY DEF Words, w, f, o
<1> QED
  BY <1>1, <1>6, <1>8, <1>9, <1>10 DEF S

\* Each character of a word, with a backslash or without.
LEMMA EscapesIs ==
  ASSUME NEW word \in Seq(Solid), NEW q \in Solid
  PROVE  /\ Escapes(word, q) \in Seq(Seq(Solid)) /\ Len(Escapes(word, q)) = Len(word)
         /\ \A n \in 1..Len(word) :
              Escapes(word, q)[n] = IF word[n] \in {q, Back} THEN <<Back, word[n]>> ELSE <<word[n]>>
<1> DEFINE S == Seq(Solid)
           E(n) == IF word[n] \in {q, Back} THEN <<Back, word[n]>> ELSE <<word[n]>>
<1>1. PICK l \in Nat : l = Len(word) /\ DOMAIN word = 1..l
  OBVIOUS
<1>2. ASSUME NEW n \in 1..l PROVE E(n) \in S
  <2> DEFINE c == word[n]
             b == Back
  <2>1. c \in Solid /\ b \in Solid
    <3>1. c \in Solid
      BY <1>1
    <3>2. b \in Solid
      BY Characters, Zenon
    <3> QED
      BY <3>1, <3>2
  <2> HIDE DEF c, b
  <2>2. <<b, c>> \in S /\ <<c>> \in S
    BY <2>1
  <2> HIDE DEF S
  <2>3. E(n) = <<b, c>> \/ E(n) = <<c>>
    BY Zenon DEF b, c
  <2> QED
    BY <2>2, <2>3, Zenon
<1>3. Escapes(word, q) = [n \in 1..l |-> E(n)]
  BY <1>1, Zenon DEF Escapes, Back
<1> HIDE DEF S, E
<1>4. [n \in 1..l |-> E(n)] \in Seq(S) /\ Len([n \in 1..l |-> E(n)]) = l
  BY <1>2
<1>5. \A n \in 1..l : Escapes(word, q)[n] = E(n)
  BY <1>3
<1> QED
  BY <1>1, <1>3, <1>4, <1>5 DEF S, E

\* A word in quotes: the quote, the characters and the quote.
LEMMA EscapesEnd ==
  ASSUME NEW word \in Seq(Solid), NEW q \in Solid, NEW k \in 0..Len(word)
  PROVE  /\ Ending(Escapes(word, q), k) \in Seq(Solid)
         /\ k = 0 => Ending(Escapes(word, q), k) = <<>>
         /\ k > 0 => Ending(Escapes(word, q), k)
                       = Escapes(word, q)[Len(word) + 1 - k] \o Ending(Escapes(word, q), k - 1)
<1>1. Escapes(word, q) \in Seq(Seq(Solid)) /\ Len(Escapes(word, q)) = Len(word)
  BY EscapesIs
<1>2. k \in 0..Len(Escapes(word, q)) /\ (k > 0 => k \in 1..Len(Escapes(word, q)))
  BY <1>1
<1> QED
  BY <1>1, <1>2, EndingIs

\* A word is written with something, and something that is not blank at its end.
LEMMA WrittenIs ==
  ASSUME NEW word \in Seq(Solid), NEW q \in Quotings
  PROVE  /\ Written(word, q) \in Seq(Solid) /\ Len(Written(word, q)) \in Nat
         /\ Len(Written(word, q)) > 0
         /\ Written(word, q)[Len(Written(word, q))] # Blank
<1>1. q \in Solid /\ q # Blank
  BY Characters
<1>2. CASE IsPlain(word)
  <2>1. Written(word, q) = word
    BY <1>2 DEF Written
  <2>2. Len(word) \in Nat /\ Len(word) > 0 /\ Len(word) \in DOMAIN word
    BY <1>2 DEF IsPlain
  <2>3. word[Len(word)] \in Range(word)
    BY <2>2 DEF Range
  <2>4. word[Len(word)] # Blank
    BY <1>2, <2>3, Characters DEF IsPlain
  <2> QED
    BY <2>1, <2>2, <2>4
<1>3. CASE ~IsPlain(word)
  <2> DEFINE e == Ending(Escapes(word, q), Len(word))
             y == e \o <<q>>
             x == <<q>> \o y
  <2>1. e \in Seq(Solid) /\ Len(e) \in Nat
    <3>1. Len(word) \in 0..Len(word)
      OBVIOUS
    <3>2. e \in Seq(Solid)
      BY <1>1, <3>1, EscapesEnd
    <3> HIDE DEF e
    <3> QED
      BY <3>2
  <2>2. Len(Escapes(word, q)) = Len(word)
    BY <1>1, EscapesIs
  <2>3. Written(word, q) = x
    BY <1>3, <2>2 DEF Written, Joined
  <2> HIDE DEF e
  <2>4. y \in Seq(Solid) /\ Len(y) = Len(e) + 1 /\ y[Len(e) + 1] = q
    BY <1>1, <2>1
  <2> HIDE DEF y
  <2>5. x \in Seq(Solid) /\ Len(x) = Len(y) + 1 /\ x[Len(y) + 1] = q
    <3>1. Len(y) \in 1..Len(y) /\ Len(y) \in Nat
      BY <2>1, <2>4
    <3>2. x \in Seq(Solid) /\ Len(x) = Len(y) + 1 /\ x[Len(y) + 1] = y[Len(y)]
      BY <1>1, <2>4, <3>1, ConcatOne
    <3> QED
      BY <2>4, <3>2
  <2> HIDE DEF x
  <2> QED
    BY <1>1, <2>1, <2>3, <2>4, <2>5
<1> QED
  BY <1>2, <1>3

\* What stands after a word in its line.
Gap(words, w) == IF w = Len(words) THEN <<>> ELSE <<Blank>>

\* Each word of a line, and the blank after it.
LEMMA SpacedIs ==
  ASSUME NEW words \in Seq(Seq(Solid)), NEW q \in Quotings
  PROVE  /\ Spaced(words, q) \in Seq(Seq(Solid)) /\ Len(Spaced(words, q)) = Len(words)
         /\ \A n \in 1..Len(words) : Spaced(words, q)[n] = Written(words[n], q) \o Gap(words, n)
<1> DEFINE S == Seq(Solid)
           E(n) == Written(words[n], q) \o Gap(words, n)
<1>1. PICK l \in Nat : l = Len(words) /\ DOMAIN words = 1..l
  OBVIOUS
<1>2. ASSUME NEW n \in 1..l PROVE E(n) \in S
  <2> DEFINE v == words[n]
             x == Written(v, q)
             g == Gap(words, n)
  <2>1. v \in Seq(Solid)
    BY <1>1
  <2> HIDE DEF v
  <2>2. x \in Seq(Solid)
    BY <2>1, WrittenIs
  <2>3. g \in Seq(Solid)
    <3>1. Blank \in Solid
      BY Characters, Zenon
    <3>2. <<Blank>> \in Seq(Solid) /\ <<>> \in Seq(Solid)
      BY <3>1
    <3> QED
      BY <3>2, Zenon DEF Gap
  <2> HIDE DEF x, g
  <2>4. x \o g \in Seq(Solid)
    BY <2>2, <2>3
  <2> QED
    BY <2>4 DEF x, g, v
<1>3. Spaced(words, q) = [n \in 1..l |-> E(n)]
  BY <1>1 DEF Spaced, Gap
<1> HIDE DEF S, E
<1>4. [n \in 1..l |-> E(n)] \in Seq(S) /\ Len([n \in 1..l |-> E(n)]) = l
  BY <1>2
<1>5. \A n \in 1..l : Spaced(words, q)[n] = E(n)
  BY <1>3
<1> QED
  BY <1>1, <1>3, <1>4, <1>5 DEF S, E

\* What stands after a word, to the end of its line.
After(words, q, w) == Gap(words, w) \o Ending(Spaced(words, q), Len(words) - w)

\* The rest of a line is a word and what stands after it: nothing or a blank
\* and the rest of the line.
LEMMA LineSplits ==
  ASSUME NEW words \in Seq(Seq(Solid)), NEW q \in Quotings, NEW w \in 1..Len(words)
  PROVE  /\ After(words, q, w) \in Seq(Solid)
         /\ Ending(Spaced(words, q), Len(words) + 1 - w) \in Seq(Solid)
         /\ Ending(Spaced(words, q), Len(words) + 1 - w)
              = Written(words[w], q) \o After(words, q, w)
         /\ w = Len(words) => After(words, q, w) = <<>>
         /\ w # Len(words) =>
              After(words, q, w) = <<Blank>> \o Ending(Spaced(words, q), Len(words) - w)
<1> DEFINE s == Spaced(words, q)
           x == Written(words[w], q)
           g == Gap(words, w)
           e == Ending(s, Len(words) - w)
<1>1. PICK l \in Nat : l = Len(words)
  OBVIOUS
<1>2. /\ s \in Seq(Seq(Solid)) /\ Len(s) = l /\ \A n \in 1..l : s[n] = Written(words[n], q) \o Gap(words, n)
  BY <1>1, SpacedIs
<1>3. x \in Seq(Solid)
  <2> DEFINE v == words[w]
  <2>1. v \in Seq(Solid)
    OBVIOUS
  <2> HIDE DEF v
  <2>2. Written(v, q) \in Seq(Solid)
    BY <2>1, WrittenIs
  <2> QED
    BY <2>2 DEF v
<1> HIDE DEF s, x
<1>4. /\ l + 1 - w \in 1..l /\ l - w \in 0..l /\ l + 1 - w \in 0..l /\ (l + 1 - w) - 1 = l - w
      /\ l + 1 - (l + 1 - w) = w
  BY <1>1
<1>5. e \in Seq(Solid) /\ Ending(s, l + 1 - w) \in Seq(Solid)
  BY <1>1, <1>2, <1>4, EndingIs
<1>6. Ending(s, l + 1 - w) = s[w] \o e
  <2>1. Ending(s, l + 1 - w) = s[Len(s) + 1 - (l + 1 - w)] \o Ending(s, (l + 1 - w) - 1)
    BY <1>2, <1>4, EndingIs
  <2> QED
    BY <1>1, <1>2, <1>4, <2>1
<1>7. s[w] = x \o g
  BY <1>1, <1>2 DEF x
<1>8. g \in Seq(Solid) /\ (w = l => g = <<>>) /\ (w # l => g = <<Blank>>)
  <2>1. Blank \in Solid
    BY Characters, Zenon
  <2>2. <<Blank>> \in Seq(Solid) /\ <<>> \in Seq(Solid)
    BY <2>1
  <2> QED
    BY <1>1, <2>2, Zenon DEF Gap
<1>9. w = l => e = <<>>
  <2>1. Ending(s, 0) = <<>>
    BY <1>2, EndingIs
  <2>2. w = l => l - w = 0
    BY <1>1
  <2> QED
    BY <1>1, <2>1, <2>2
<1>10. After(words, q, w) = g \o e
  BY DEF After, s
<1> HIDE DEF e, g
<1>11. g \o e \in Seq(Solid)
  BY <1>5, <1>8, Concat
<1>12. (x \o g) \o e = x \o (g \o e)
  <2>1. x \in Seq(Solid) /\ g \in Seq(Solid) /\ e \in Seq(Solid)
    BY <1>3, <1>5, <1>8
  <2> QED
    BY <2>1, Associative, SMTT(30)
<1>13. w = l => g \o e = <<>>
  BY <1>8, <1>9
<1>14. w # l => g \o e = <<Blank>> \o e
  BY <1>8
<1> QED
  BY <1>1, <1>5, <1>6, <1>7, <1>10, <1>11, <1>12, <1>13, <1>14, Zenon DEF x, e, s

\* What ends with something that is not blank does so after anything else.
LEMMA LastKept ==
  ASSUME NEW T, NEW p \in Seq(T), NEW r \in Seq(T), Len(r) > 0
  PROVE  /\ Len(p \o r) \in Nat /\ Len(p \o r) > 0
         /\ (p \o r)[Len(p \o r)] = r[Len(r)]
<1>1. Len(p) \in Nat /\ Len(r) \in Nat /\ Len(r) \in 1..Len(r)
  OBVIOUS
<1>2. Len(p \o r) = Len(p) + Len(r) /\ (p \o r)[Len(p) + Len(r)] = r[Len(r)]
  BY <1>1, Concat
<1> QED
  BY <1>1, <1>2

\* A line does not end with a blank.
LEMMA LineEnds ==
  ASSUME NEW words \in Seq(Seq(Solid)), NEW q \in Quotings, NEW k \in 1..Len(words)
  PROVE  LET e == Ending(Spaced(words, q), k)
         IN  e \in Seq(Solid) /\ Len(e) \in Nat /\ Len(e) > 0 /\ e[Len(e)] # Blank
<1> DEFINE L == Len(words)
           e(n) == Ending(Spaced(words, q), n)
           Good(s) == s \in Seq(Solid) /\ Len(s) \in Nat /\ Len(s) > 0 /\ s[Len(s)] # Blank
           P == {n \in 0..L : n = 0 \/ Good(e(n))}
<1>1. L \in Nat
  OBVIOUS
<1>2. 0 \in P
  BY <1>1
<1>3. ASSUME NEW n \in 1..L, n - 1 \in P PROVE n \in P
  <2> DEFINE w == L + 1 - n
             x == Written(words[w], q)
             a == After(words, q, w)
  <2>1. w \in 1..L /\ L + 1 - w = n /\ L - w = n - 1 /\ (w = L <=> n = 1) /\ n \in 0..L
    BY <1>1
  <2>2. Good(x)
    <3> DEFINE v == words[w]
    <3>1. v \in Seq(Solid)
      BY <2>1
    <3> HIDE DEF v
    <3>2. Good(Written(v, q))
      BY <3>1, WrittenIs
    <3> QED
      BY <3>2 DEF v
  <2>3. /\ a \in Seq(Solid) /\ e(n) \in Seq(Solid) /\ e(n) = x \o a
        /\ (w = L => a = <<>>) /\ (w # L => a = <<Blank>> \o e(n - 1))
    <3> HIDE DEF w
    <3> QED
      BY <2>1, LineSplits
  <2> HIDE DEF w, x, a, e
  <2>4. CASE n = 1
    <3>1. a = <<>>
      BY <2>1, <2>3, <2>4
    <3>2. x \o <<>> = x
      BY <2>2, ConcatEmpty
    <3>3. e(n) = x
      BY <2>3, <3>1, <3>2
    <3> QED
      BY <2>1, <2>2, <3>3
  <2>5. CASE n # 1
    <3>1. Good(e(n - 1))
      <4>1. n - 1 # 0
        BY <2>5
      <4> QED
        BY <1>3, <4>1
    <3>2. a = <<Blank>> \o e(n - 1) /\ <<Blank>> \in Seq(Solid)
      <4>1. Blank \in Solid
        BY Characters, Zenon
      <4> QED
        BY <2>1, <2>3, <2>5, <4>1, SMTT(30)
    <3> DEFINE y == e(n - 1)
               b == <<Blank>>
    <3> HIDE DEF y, b
    <3>3. Len(a) > 0 /\ a[Len(a)] = y[Len(y)]
      BY <3>1, <3>2, LastKept DEF y, b
    <3>4. Len(x \o a) \in Nat /\ Len(x \o a) > 0 /\ (x \o a)[Len(x \o a)] = a[Len(a)]
      BY <2>2, <2>3, <3>3, LastKept
    <3>5. Good(e(n))
      BY <2>3, <3>1, <3>3, <3>4 DEF y
    <3> QED
      BY <2>1, <3>5
  <2> QED
    BY <2>4, <2>5
<1> HIDE DEF P
<1>4. 0..L \subseteq P
  BY <1>1, <1>2, <1>3, Climb
<1>5. k \in P /\ k # 0
  <2>1. k \in 0..L /\ k # 0
    BY <1>1
  <2> QED
    BY <1>4, <2>1
<1>6. Good(e(k))
  BY <1>5 DEF P
<1> QED
  BY <1>6

\* A line begins with its command and does not end with a blank.
LEMMA LineIs ==
  ASSUME NEW c \in Command, NEW q \in Quotings
  PROVE  /\ Line(c, q) \in Seq(Solid) /\ Len(Line(c, q)) \in Nat /\ Len(Line(c, q)) > 0
         /\ Line(c, q)[1] \in Meta /\ Line(c, q)[Len(Line(c, q))] # Blank
         /\ Line(c, q) = Ending(Spaced(Words(c), q), Len(Words(c)))
<1> DEFINE words == Words(c)
           s == Spaced(words, q)
           e == Ending(s, Len(words))
           a == After(words, q, 1)
<1>1. /\ words \in Seq(Seq(Solid)) /\ Len(words) \in Nat /\ Len(words) >= 1
      /\ words[1] = c.name /\ \E m \in Meta : c.name = <<m>>
  BY WordsTyped
<1> HIDE DEF words
<1>2. Len(s) = Len(words)
  BY <1>1, SpacedIs
<1>3. Line(c, q) = e
  BY <1>2 DEF Line, Joined, words
<1>4. Len(words) \in 1..Len(words) /\ 1 \in 1..Len(words) /\ Len(words) + 1 - 1 = Len(words)
  BY <1>1
<1>5. e \in Seq(Solid) /\ Len(e) \in Nat /\ Len(e) > 0 /\ e[Len(e)] # Blank
  BY <1>1, <1>4, LineEnds
<1>6. PICK m \in Meta : words[1] = <<m>>
  BY <1>1
<1>7. Written(<<m>>, q) = <<m>>
  <2>1. m \notin Special
    BY <1>6, Characters
  <2>2. IsPlain(<<m>>)
    BY <2>1 DEF IsPlain, Range
  <2> QED
    BY <2>2 DEF Written
<1>8. e = <<m>> \o a /\ a \in Seq(Solid)
  <2>1. Ending(s, Len(words) + 1 - 1) = Written(words[1], q) \o a /\ a \in Seq(Solid)
    BY <1>1, <1>4, LineSplits
  <2> QED
    BY <1>4, <1>6, <1>7, <2>1
<1>9. m \in Solid
  BY <1>6, Characters
<1> HIDE DEF a, e
<1>10. e[1] = m
  BY <1>8, <1>9, ConcatOne
<1> QED
  BY <1>3, <1>5, <1>6, <1>10 DEF e, s, words

\* What is trimmed is text of the same characters.
LEMMA TrimmedTyped ==
  ASSUME NEW T, NEW text \in Seq(T)
  PROVE  Trimmed(text) \in Seq(T)
<1> DEFINE solid == {n \in DOMAIN text : text[n] # Blank}
<1>1. solid \in SUBSET Nat /\ \A n \in solid : n \in 1..Len(text)
  OBVIOUS
<1>2. CASE solid = {}
  BY <1>2 DEF Trimmed
<1>3. CASE solid # {}
  <2>1. Len(text) \in Nat /\ \A n \in solid : n <= Len(text)
    BY <1>1
  <2> HIDE DEF solid
  <2>2. Min(solid) \in solid /\ Max(solid) \in solid
    BY <1>1, <1>3, <2>1, Least, Greatest
  <2>3. Min(solid) \in 1..Len(text) /\ Max(solid) \in 1..Len(text)
    BY <1>1, <2>2
  <2>4. SubSeq(text, Min(solid), Max(solid)) \in Seq(T)
    BY <2>3
  <2>5. Trimmed(text) = SubSeq(text, Min(solid), Max(solid))
    BY <1>3 DEF Trimmed, solid
  <2> QED
    BY <2>4, <2>5
<1> QED
  BY <1>2, <1>3

\* A blank before a line is trimmed, and nothing else.
LEMMA TrimmedLine ==
  ASSUME NEW T, NEW x \in Seq(T), NEW p \in Seq(T), Blank \in T, p = <<>> \/ p = <<Blank>>,
         Len(x) > 0, x[1] # Blank, x[Len(x)] # Blank
  PROVE  Trimmed(p \o x) = x
<1> DEFINE y == p \o x
           solid == {n \in DOMAIN y : y[n] # Blank}
<1>1. PICK l \in Nat, k \in Nat : l = Len(x) /\ k = Len(p)
  OBVIOUS
<1>2. k = 0 \/ k = 1
  <2>1. Len(<<>>) = 0 /\ Len(<<Blank>>) = 1
    OBVIOUS
  <2> QED
    BY <1>1, <2>1
<1>3. y \in Seq(T) /\ Len(y) = k + l /\ (\A n \in 1..k : y[n] = p[n])
      /\ \A n \in 1..l : y[k + n] = x[n]
  BY <1>1, Concat
<1>4. \A n \in 1..k : y[n] = Blank
  BY <1>1, <1>3
<1> HIDE DEF y
<1>5. DOMAIN y = 1..k + l
  BY <1>3
<1>6. k + 1 \in solid /\ k + l \in solid
  <2>1. k + 1 \in 1..k + l /\ k + l \in 1..k + l /\ 1 \in 1..l /\ l \in 1..l
    BY <1>1
  <2> QED
    BY <1>1, <1>3, <1>5, <2>1
<1>7. \A n \in solid : n \in Nat /\ n <= k + l /\ n >= k + 1
  <2>1. \A n \in solid : n \in 1..k + l /\ n \notin 1..k
    BY <1>4, <1>5
  <2> QED
    BY <2>1
<1> HIDE DEF solid
<1>8. solid \in SUBSET Nat /\ solid # {} /\ k + l \in Nat
  BY <1>6, <1>7
<1>9. /\ Min(solid) \in solid /\ \A n \in solid : Min(solid) <= n
  BY <1>8, Least
<1>10. /\ Max(solid) \in solid /\ \A n \in solid : Max(solid) >= n
  BY <1>7, <1>8, Greatest
<1>11. Min(solid) = k + 1
  <2> DEFINE a == Min(solid)
  <2> HIDE DEF a
  <2>1. a \in Nat /\ a <= k + 1 /\ a >= k + 1
    BY <1>6, <1>7, <1>9 DEF a
  <2>2. a = k + 1
    BY <2>1
  <2> QED
    BY <2>2 DEF a
<1>12. Max(solid) = k + l
  <2> DEFINE a == Max(solid)
  <2> HIDE DEF a
  <2>1. a \in Nat /\ a <= k + l /\ a >= k + l
    BY <1>6, <1>7, <1>10 DEF a
  <2>2. a = k + l
    BY <2>1
  <2> QED
    BY <2>2 DEF a
<1>13. Trimmed(y) = SubSeq(y, k + 1, k + l)
  BY <1>8, <1>11, <1>12 DEF Trimmed, solid
<1> DEFINE z == SubSeq(y, k + 1, k + l)
<1>14. z \in Seq(T) /\ Len(z) = l /\ \A n \in 1..l : z[n] = y[(k + 1) + n - 1]
  BY <1>3
<1> HIDE DEF z
<1>15. \A n \in 1..l : z[n] = x[n]
  <2>1. \A n \in 1..l : (k + 1) + n - 1 = k + n
    BY <1>1
  <2> QED
    BY <1>3, <1>14, <2>1
<1>16. z = x
  BY <1>1, <1>14, <1>15, SameElements
<1> QED
  BY <1>13, <1>16 DEF y, z

\* Where the first command of a text ends.
EndOf(text) == Min({n \in DOMAIN text : text[n] = ";"} \cup {Len(text) + 1})

\* It ends within the text or right after it.
LEMMA EndOfIs ==
  ASSUME NEW T, NEW text \in Seq(T)
  PROVE  /\ EndOf(text) \in 1..Len(text) + 1
         /\ \A n \in 1..Len(text) : n < EndOf(text) => text[n] # Stop
         /\ EndOf(text) # Len(text) + 1 => text[EndOf(text)] = Stop
<1> DEFINE S == {n \in DOMAIN text : text[n] = Stop} \cup {Len(text) + 1}
<1>1. PICK l \in Nat : l = Len(text) /\ DOMAIN text = 1..l
  OBVIOUS
<1>2. S = {n \in 1..l : text[n] = Stop} \cup {l + 1}
  BY <1>1
<1>3. EndOf(text) = Min(S)
  BY Zenon DEF EndOf, Stop
<1> HIDE DEF S
<1>4. S \in SUBSET Nat /\ S # {} /\ S \subseteq 1..l + 1
  <2>1. 1..l + 1 \subseteq Nat /\ 1..l \subseteq 1..l + 1 /\ l + 1 \in 1..l + 1
    BY <1>1
  <2>2. S \subseteq 1..l + 1 /\ l + 1 \in S
    BY <1>2, <2>1, Zenon
  <2> QED
    BY <2>1, <2>2
<1>5. \A n \in 1..l : text[n] = Stop => n \in S
  BY <1>2
<1>6. \A n \in S : n # l + 1 => text[n] = Stop
  BY <1>2
<1> DEFINE m == Min(S)
<1>7. m \in S /\ \A n \in S : m <= n
  BY <1>4, Least
<1> HIDE DEF m
<1>8. m \in 1..l + 1 /\ m \in Nat
  BY <1>4, <1>7
<1>9. ASSUME NEW n \in 1..l, n < m PROVE text[n] # Stop
  <2>1. text[n] = Stop => m <= n
    BY <1>5, <1>7
  <2>2. n \in Nat /\ m \in Nat /\ n < m
    BY <1>8, <1>9
  <2>3. ~(m <= n)
    BY <2>2
  <2> QED
    BY <2>1, <2>3
<1> QED
  BY <1>1, <1>6, <1>3, <1>7, <1>8, <1>9 DEF m

\* A text is cut at its first semicolon.
LEMMA CutAt ==
  ASSUME NEW a \in Seq(Solid), NEW b \in Seq(Runes), NEW text,
         text = a \o (<<Stop>> \o b)
  PROVE  /\ text \in Seq(Runes) /\ SubSeq(text, 1, EndOf(text) - 1) = a
         /\ SubSeq(text, EndOf(text) + 1, Len(text)) = b
<1> DEFINE c == <<Stop>> \o b
           e == EndOf(text)
<1>1. PICK l \in Nat, k \in Nat : l = Len(a) /\ k = Len(b)
  OBVIOUS
<1>2. a \in Seq(Runes) /\ Stop \in Runes
  <2>1. Solid \subseteq Runes /\ Stop \in Runes
    BY Characters, Zenon
  <2> QED
    BY <2>1, WiderSeq
<1>3. c \in Seq(Runes) /\ Len(c) = k + 1 /\ c[1] = Stop /\ \A n \in 1..k : c[n + 1] = b[n]
  BY <1>1, <1>2, ConcatOne
<1> HIDE DEF c
<1>4. /\ text \in Seq(Runes) /\ Len(text) = l + (k + 1) /\ (\A n \in 1..l : text[n] = a[n])
      /\ \A n \in 1..k + 1 : text[l + n] = c[n]
  BY <1>1, <1>2, <1>3, Concat DEF c
<1>5. e \in 1..l + (k + 1) + 1 /\ (\A n \in 1..l + (k + 1) : n < e => text[n] # Stop)
      /\ (e # l + (k + 1) + 1 => text[e] = Stop)
  BY <1>4, EndOfIs
<1> HIDE DEF e
<1>6. \A n \in 1..l : text[n] # Stop
  <2>1. \A n \in 1..l : a[n] \in Solid
    BY <1>1
  <2> QED
    BY <1>4, <2>1 DEF Solid
<1>7. text[l + 1] = Stop
  <2>1. 1 \in 1..k + 1
    BY <1>1
  <2> QED
    BY <1>3, <1>4, <2>1
<1>8. e = l + 1
  <2>1. ~(l + 1 < e)
    <3>1. l + 1 \in 1..l + (k + 1)
      BY <1>1
    <3> QED
      BY <1>5, <1>7, <3>1
  <2>2. e \notin 1..l
    <3>1. \A n \in 1..l : n # l + (k + 1) + 1
      BY <1>1
    <3>2. \A n \in 1..l : n = e => text[e] = Stop
      BY <1>5, <3>1
    <3>3. \A n \in 1..l : n # e
      BY <1>6, <3>2
    <3> QED
      BY <3>3
  <2> QED
    BY <1>1, <1>5, <2>1, <2>2
<1> DEFINE x == SubSeq(text, 1, l)
           y == SubSeq(text, l + 2, l + (k + 1))
<1>9. x \in Seq(Runes) /\ Len(x) = l /\ \A n \in 1..l : x[n] = text[n]
  BY <1>1, <1>4
<1>10. y \in Seq(Runes) /\ Len(y) = k /\ \A n \in 1..k : y[n] = text[(l + 2) + n - 1]
  BY <1>1, <1>4
<1> HIDE DEF x, y
<1>11. x = a
  BY <1>1, <1>2, <1>4, <1>9, SameElements
<1>12. ASSUME NEW n \in 1..k PROVE y[n] = b[n]
  <2>1. n + 1 \in 1..k + 1 /\ (l + 2) + n - 1 = l + (n + 1)
    BY <1>1
  <2>2. text[l + (n + 1)] = c[n + 1]
    BY <1>4, <2>1
  <2> QED
    BY <1>3, <1>10, <2>1, <2>2
<1>13. y = b
  BY <1>1, <1>10, <1>12, SameElements
<1>14. e - 1 = l /\ e + 1 = l + 2
  BY <1>1, <1>8
<1> QED
  BY <1>4, <1>11, <1>13, <1>14 DEF x, y, e

\* A text without one is not cut.
LEMMA CutNowhere ==
  ASSUME NEW a \in Seq(Solid)
  PROVE  /\ SubSeq(a, 1, EndOf(a) - 1) = a /\ SubSeq(a, EndOf(a) + 1, Len(a)) = <<>>
<1> DEFINE e == EndOf(a)
<1>1. PICK l \in Nat : l = Len(a)
  OBVIOUS
<1>2. e \in 1..l + 1 /\ (e # l + 1 => a[e] = Stop)
  BY <1>1, EndOfIs
<1> HIDE DEF e
<1>3. e = l + 1
  <2>1. \A n \in 1..l : a[n] # Stop
    BY <1>1 DEF Solid
  <2>2. e \notin 1..l
    <3>1. \A n \in 1..l : n # l + 1
      BY <1>1
    <3> QED
      BY <1>2, <2>1, <3>1
  <2> QED
    BY <1>1, <1>2, <2>2
<1>4. e - 1 = l /\ e + 1 = l + 2
  BY <1>1, <1>3
<1>5. SubSeq(a, 1, l) = a
  BY <1>1, BeginningEnds
<1>6. SubSeq(a, l + 2, l) = <<>>
  BY <1>1
<1> QED
  BY <1>1, <1>4, <1>5, <1>6 DEF e

-----------------------------------------------------------------------------
(* The text of several commands.                                           *)

Before(n) == IF n = 1 THEN <<>> ELSE <<Blank>>
Behind(commands, n) == IF n = Len(commands) THEN <<>> ELSE <<Stop>>

\* What is written before and behind a line.
LEMMA AroundIs ==
  ASSUME NEW commands, NEW n
  PROVE  /\ Before(n) \in Seq(Solid) /\ (Before(n) = <<>> \/ Before(n) = <<Blank>>)
         /\ Behind(commands, n) \in Seq(Runes)
<1>1. Blank \in Solid /\ Stop \in Runes
  BY Characters, Zenon
<1>2. <<Blank>> \in Seq(Solid) /\ <<>> \in Seq(Solid) /\ <<Stop>> \in Seq(Runes) /\ <<>> \in Seq(Runes)
  BY <1>1
<1> QED
  BY <1>2, Zenon DEF Before, Behind

\* Each command of a text.
LEMMA PartedIs ==
  ASSUME NEW commands \in Seq(Command), NEW q \in Quotings
  PROVE  /\ Parted(commands, q) \in Seq(Seq(Runes)) /\ Len(Parted(commands, q)) = Len(commands)
         /\ \A n \in 1..Len(commands) :
              Parted(commands, q)[n] = Before(n) \o (Line(commands[n], q) \o Behind(commands, n))
<1> DEFINE S == Seq(Runes)
           E(n) == Before(n) \o (Line(commands[n], q) \o Behind(commands, n))
<1>1. PICK l \in Nat : l = Len(commands) /\ DOMAIN commands = 1..l
  OBVIOUS
<1>2. ASSUME NEW n \in 1..l PROVE E(n) \in S
  <2> DEFINE a == Before(n)
             x == Line(commands[n], q)
             b == Behind(commands, n)
  <2>1. Solid \subseteq Runes
    BY Characters, Zenon
  <2>2. x \in Seq(Runes)
    <3>1. commands[n] \in Command
      BY <1>1
    <3>2. x \in Seq(Solid)
      BY <3>1, LineIs
    <3> QED
      BY <2>1, <3>2, WiderSeq
  <2>3. a \in Seq(Runes) /\ b \in Seq(Runes)
    BY <2>1, AroundIs, WiderSeq
  <2> HIDE DEF a, x, b
  <2>4. x \o b \in Seq(Runes)
    BY <2>2, <2>3
  <2>5. a \o (x \o b) \in Seq(Runes)
    BY <2>3, <2>4, Concat
  <2> QED
    BY <2>5 DEF a, x, b
<1>3. Parted(commands, q) = [n \in 1..l |-> E(n)]
  BY <1>1, Zenon DEF Parted, Before, Behind, Stop
<1> HIDE DEF S, E
<1>4. [n \in 1..l |-> E(n)] \in Seq(S) /\ Len([n \in 1..l |-> E(n)]) = l
  BY <1>2
<1>5. \A n \in 1..l : Parted(commands, q)[n] = E(n)
  BY <1>3
<1> QED
  BY <1>1, <1>3, <1>4, <1>5 DEF S, E

\* The rest of a text is a command, as it is cut off and trimmed, and the rest
\* of the text behind it.
LEMMA TextSplits ==
  ASSUME NEW commands \in Seq(Command), NEW q \in Quotings, NEW n \in 1..Len(commands),
         NEW text, text = Ending(Parted(commands, q), Len(commands) + 1 - n)
  PROVE  /\ text # <<>>
         /\ Trimmed(SubSeq(text, 1, EndOf(text) - 1)) = Line(commands[n], q)
         /\ SubSeq(text, EndOf(text) + 1, Len(text))
              = Ending(Parted(commands, q), Len(commands) - n)
<1> DEFINE p == Parted(commands, q)
           x == Line(commands[n], q)
           a == Before(n)
           b == Behind(commands, n)
           r == Ending(p, Len(commands) - n)
           y == a \o x
<1>1. PICK l \in Nat : l = Len(commands)
  OBVIOUS
<1>2. /\ p \in Seq(Seq(Runes)) /\ Len(p) = l
      /\ \A m \in 1..l : p[m] = Before(m) \o (Line(commands[m], q) \o Behind(commands, m))
  BY <1>1, PartedIs
<1>3. x \in Seq(Solid) /\ Len(x) \in Nat /\ Len(x) > 0 /\ x[1] # Blank /\ x[Len(x)] # Blank
  <2>1. commands[n] \in Command
    OBVIOUS
  <2>2. Meta \cap Special = {} /\ Blank \in Special
    BY Characters, Zenon
  <2> QED
    BY <2>1, <2>2, LineIs
<1>4. a \in Seq(Solid) /\ (a = <<>> \/ a = <<Blank>>) /\ b \in Seq(Runes)
  BY AroundIs
<1> HIDE DEF p, x, a
<1>5. /\ l + 1 - n \in 1..l /\ l - n \in 0..l /\ (l + 1 - n) - 1 = l - n /\ l + 1 - (l + 1 - n) = n
      /\ (n = l => l - n = 0)
  BY <1>1
<1>6. text = p[n] \o r /\ r \in Seq(Runes)
  <2>1. text = p[Len(p) + 1 - (l + 1 - n)] \o Ending(p, (l + 1 - n) - 1)
    BY <1>1, <1>2, <1>5, EndingIs DEF p
  <2>2. r \in Seq(Runes)
    BY <1>1, <1>2, <1>5, EndingIs
  <2> QED
    BY <1>1, <1>2, <1>5, <2>1, <2>2
<1>7. p[n] = a \o (x \o b)
  BY <1>1, <1>2 DEF a, x
<1>8. y \in Seq(Solid) /\ Len(y) = Len(a) + Len(x)
  BY <1>3, <1>4, Concat
<1>9. Solid \subseteq Runes /\ Blank \in Solid
  BY Characters, Zenon
<1>10. x \in Seq(Runes) /\ a \in Seq(Runes) /\ y \in Seq(Runes)
  BY <1>3, <1>4, <1>8, <1>9, WiderSeq
<1>11. Trimmed(y) = x
  BY <1>3, <1>4, <1>9, TrimmedLine
<1>12. CASE n = l
  <2>1. b = <<>> /\ r = <<>>
    <3>1. b = <<>>
      BY <1>1, <1>12, Zenon DEF Behind
    <3>2. Ending(p, 0) = <<>>
      BY <1>2, EndingIs
    <3> QED
      BY <1>1, <1>5, <1>12, <3>1, <3>2
  <2> HIDE DEF b, r
  <2>2. x \o b = x
    BY <1>3, <2>1, ConcatEmpty
  <2>3. text = y
    <3>1. y \o r = y
      BY <1>8, <2>1, ConcatEmpty
    <3>2. text = y \o r
      BY <1>6, <1>7, <2>2
    <3> QED
      BY <3>1, <3>2
  <2>4. y # <<>>
    <3>1. Len(a) \in Nat
      BY <1>4
    <3> HIDE DEF y
    <3>2. Len(y) > 0
      BY <1>3, <1>8, <3>1
    <3> QED
      BY <3>2
  <2> HIDE DEF y
  <2>5. SubSeq(y, 1, EndOf(y) - 1) = y /\ SubSeq(y, EndOf(y) + 1, Len(y)) = <<>>
    BY <1>8, CutNowhere
  <2> QED
    BY <1>1, <1>11, <2>1, <2>3, <2>4, <2>5 DEF x, r, p
<1>13. CASE n # l
  <2> DEFINE s == <<Stop>>
             z == s \o r
  <2>1. b = s
    BY <1>1, <1>13, Zenon DEF Behind
  <2>2. s \in Seq(Runes)
    <3>1. Stop \in Runes
      BY Characters, Zenon
    <3> QED
      BY <3>1
  <2> HIDE DEF b, r, s
  <2>3. (a \o (x \o s)) \o r = y \o z
    <3>1. a \o (x \o s) = y \o s
      BY <1>10, <2>2, Associative, SMTT(30)
    <3> HIDE DEF y
    <3>2. (y \o s) \o r = y \o (s \o r)
      <4>1. y \in Seq(Runes) /\ s \in Seq(Runes) /\ r \in Seq(Runes)
        BY <1>6, <1>10, <2>2
      <4> QED
        BY <4>1, TextsAssociative, SMTT(30)
    <3> QED
      BY <3>1, <3>2
  <2>4. text = y \o z
    BY <1>6, <1>7, <2>1, <2>3
  <2> HIDE DEF y
  <2>5. /\ text \in Seq(Runes) /\ SubSeq(text, 1, EndOf(text) - 1) = y
        /\ SubSeq(text, EndOf(text) + 1, Len(text)) = r
    BY <1>6, <1>8, <2>4, CutAt, ZenonT(60) DEF s
  <2>6. text # <<>>
    <3>1. z \in Seq(Runes)
      BY <1>6, <2>2, Concat
    <3> HIDE DEF z
    <3>2. Len(text) = Len(y) + Len(z) /\ Len(z) \in Nat /\ Len(a) \in Nat
      BY <1>4, <1>10, <2>4, <3>1, Concat
    <3>3. Len(text) > 0
      BY <1>3, <1>8, <3>2
    <3> QED
      BY <3>3
  <2> QED
    BY <1>1, <1>11, <2>5, <2>6 DEF x, r, p
<1> QED
  BY <1>12, <1>13

-----------------------------------------------------------------------------
(* The place of parseArgs in a line: its w-th word, of which m characters  *)
(* are read.  k is the quote that is open, rest what is left of the line.  *)

Unquoted(words, q, w, m, k, rest) ==
  /\ IsPlain(words[w]) /\ k = Blank
  /\ rest = Left(words[w], m + 1) \o After(words, q, w)

Unopened(words, q, w, m, k, rest) ==
  /\ ~IsPlain(words[w]) /\ k = Blank /\ m = 0
  /\ rest = Written(words[w], q) \o After(words, q, w)

Inside(words, q, w, m, k, rest) ==
  /\ ~IsPlain(words[w]) /\ k = q
  /\ rest = Ending(Escapes(words[w], q), Len(words[w]) - m) \o (<<q>> \o After(words, q, w))

Closed(words, q, w, m, k, rest) ==
  /\ ~IsPlain(words[w]) /\ k = Blank /\ m = Len(words[w])
  /\ rest = After(words, q, w)

Position(words, q, w, m, k, rest) ==
  \/ Unquoted(words, q, w, m, k, rest) \/ Unopened(words, q, w, m, k, rest)
  \/ Inside(words, q, w, m, k, rest) \/ Closed(words, q, w, m, k, rest)

\* A word and what stands after it are text.
LEMMA Pieces ==
  ASSUME NEW words \in Seq(Seq(Solid)), NEW q \in Quotings, NEW w \in 1..Len(words)
  PROVE  /\ words[w] \in Seq(Solid) /\ words[w] \in Seq(Runes) /\ Len(words[w]) \in Nat
         /\ After(words, q, w) \in Seq(Runes) /\ Written(words[w], q) \in Seq(Runes)
         /\ q \in Runes /\ q \in Solid /\ q \in Quotes /\ q # Blank /\ q # Back /\ q \in Special
         /\ Back \in Runes /\ Blank \in Runes
<1> DEFINE v == words[w]
           a == After(words, q, w)
           x == Written(v, q)
<1>1. v \in Seq(Solid) /\ a \in Seq(Solid)
  BY LineSplits
<1> HIDE DEF v, a
<1>2. x \in Seq(Solid)
  BY <1>1, WrittenIs
<1> HIDE DEF x
<1>3. /\ Solid \subseteq Runes /\ q \in Solid /\ q \in Quotes /\ q # Blank /\ q # Back /\ q \in Special
      /\ Back \in Solid /\ Blank \in Solid
  BY Characters, Zenon
<1>4. v \in Seq(Runes) /\ a \in Seq(Runes) /\ x \in Seq(Runes)
  BY <1>1, <1>2, <1>3, WiderSeq
<1>5. Len(v) \in Nat
  BY <1>1
<1>6. q \in Runes /\ Back \in Runes /\ Blank \in Runes
  BY <1>3, Zenon
<1> QED
  BY <1>1, <1>3, <1>4, <1>5, <1>6, Zenon DEF v, a, x

\* In a word without quotes its next character follows, which is not special.
LEMMA UnquotedNext ==
  ASSUME NEW words \in Seq(Seq(Solid)), NEW q \in Quotings, NEW w \in 1..Len(words),
         NEW m \in Nat, m <= Len(words[w]), NEW k, NEW rest, Unquoted(words, q, w, m, k, rest)
  PROVE  /\ m = Len(words[w]) => rest = After(words, q, w)
         /\ m < Len(words[w]) =>
              \E r \in Seq(Runes) :
                /\ words[w][m + 1] \in Runes /\ words[w][m + 1] \notin Special
                /\ rest = <<words[w][m + 1]>> \o r
                /\ Unquoted(words, q, w, m + 1, k, r)
<1> DEFINE v == words[w]
           a == After(words, q, w)
           c == v[m + 1]
           y == Left(v, m + 2)
           r == y \o a
<1>1. v \in Seq(Runes) /\ Len(v) \in Nat /\ a \in Seq(Runes)
  BY Pieces
<1>2. IsPlain(v) /\ k = Blank /\ rest = Left(v, m + 1) \o a
  BY DEF Unquoted
<1>3. Unquoted(words, q, w, m + 1, k, r)
  <2>1. (m + 1) + 1 = m + 2
    OBVIOUS
  <2> QED
    BY <1>2, <2>1, Zenon DEF Unquoted
<1> HIDE DEF a
<1>4. ASSUME m = Len(v) PROVE rest = a
  <2>1. Left(v, m + 1) = <<>>
    BY <1>1, <1>4, LeftEnds
  <2>2. <<>> \o a = a
    BY <1>1, ConcatEmpty
  <2> QED
    BY <1>2, <2>1, <2>2
<1>5. ASSUME m < Len(v)
      PROVE  c \in Runes /\ c \notin Special /\ r \in Seq(Runes) /\ rest = <<c>> \o r
  <2> HIDE DEF v
  <2>1. m + 1 \in 1..Len(v) /\ (m + 1) + 1 = m + 2 /\ m + 2 \in 1..Len(v) + 1 /\ m + 1 \in DOMAIN v
    BY <1>1, <1>5
  <2>2. c \in Runes /\ c \in Range(v)
    BY <1>1, <2>1 DEF Range
  <2>3. c \notin Special
    BY <1>2, <2>2 DEF IsPlain
  <2>4. Left(v, m + 1) = <<c>> \o y
    BY <1>1, <2>1, LeftNext
  <2>5. y \in Seq(Runes)
    BY <1>1, <2>1, LeftIs
  <2>6. <<c>> \in Seq(Runes)
    BY <2>2
  <2> HIDE DEF c, y
  <2>7. r \in Seq(Runes)
    BY <1>1, <2>5, Concat
  <2> DEFINE s == <<c>>
  <2> HIDE DEF s
  <2>8. (s \o y) \o a = s \o (y \o a)
    <3>1. s \in Seq(Runes) /\ y \in Seq(Runes) /\ a \in Seq(Runes)
      BY <1>1, <2>5, <2>6 DEF s
    <3> QED
      BY <3>1, Associative, SMTT(30)
  <2> QED
    BY <1>2, <2>2, <2>3, <2>4, <2>7, <2>8 DEF s
<1> QED
  BY <1>3, <1>4, <1>5, Zenon DEF a

\* Before the quote of a word the quote follows.
LEMMA UnopenedNext ==
  ASSUME NEW words \in Seq(Seq(Solid)), NEW q \in Quotings, NEW w \in 1..Len(words),
         NEW m \in Nat, NEW k, NEW rest, Unopened(words, q, w, m, k, rest)
  PROVE  \E r \in Seq(Runes) : rest = <<q>> \o r /\ Inside(words, q, w, 0, q, r)
<1> DEFINE v == words[w]
           a == After(words, q, w)
           e == Ending(Escapes(v, q), Len(v))
           s == <<q>>
           r == e \o (s \o a)
<1>1. v \in Seq(Solid) /\ Len(v) \in Nat /\ a \in Seq(Runes) /\ q \in Runes /\ q \in Solid
  BY Pieces
<1>2. ~IsPlain(v) /\ rest = Written(v, q) \o a
  BY DEF Unopened
<1>3. Inside(words, q, w, 0, q, r)
  <2>1. Len(v) - 0 = Len(v)
    BY <1>1
  <2> QED
    BY <1>2, <2>1, Zenon DEF Inside
<1> HIDE DEF a, v
<1>4. Len(Escapes(v, q)) = Len(v)
  BY <1>1, EscapesIs
<1>5. Written(v, q) = s \o (e \o s)
  BY <1>2, <1>4 DEF Written, Joined
<1>6. e \in Seq(Runes)
  <2>1. Len(v) \in 0..Len(v)
    BY <1>1
  <2>2. e \in Seq(Solid)
    BY <1>1, <2>1, EscapesEnd
  <2>3. Solid \subseteq Runes
    BY Characters, Zenon
  <2> QED
    BY <2>2, <2>3, WiderSeq
<1>7. s \in Seq(Runes)
  BY <1>1
<1> HIDE DEF e, s
<1>8. e \o s \in Seq(Runes) /\ s \o a \in Seq(Runes)
  BY <1>1, <1>6, <1>7, Concat
<1>9. r \in Seq(Runes)
  <2> DEFINE z == s \o a
  <2>1. z \in Seq(Runes)
    BY <1>8
  <2> HIDE DEF z
  <2>2. e \o z \in Seq(Runes)
    BY <1>6, <2>1, Concat
  <2> QED
    BY <2>2 DEF z
<1>10. (s \o (e \o s)) \o a = s \o r
  <2>1. e \in Seq(Runes) /\ s \in Seq(Runes) /\ a \in Seq(Runes)
    BY <1>1, <1>6, <1>7
  <2>2. (e \o s) \o a = e \o (s \o a)
    BY <2>1, Associative, SMTT(30)
  <2> DEFINE x == e \o s
  <2>3. s \in Seq(Runes) /\ x \in Seq(Runes) /\ a \in Seq(Runes)
    BY <1>8, <2>1
  <2> HIDE DEF x
  <2>4. (s \o x) \o a = s \o (x \o a)
    BY <2>3, Associative, SMTT(30)
  <2> QED
    BY <2>2, <2>4 DEF x
<1> QED
  BY <1>2, <1>3, <1>5, <1>9, <1>10 DEF s

\* The character c is next in quotes, as it is written there, and then r.
Goes(c, q, rest, r) ==
  /\ c \in Runes
  /\ c \in {q, Back} => rest = <<Back>> \o (<<c>> \o r)
  /\ c \notin {q, Back} => rest = <<c>> \o r

\* In quotes the next character follows, after a backslash if it needs one, or
\* the quote that ends the word.
LEMMA InsideNext ==
  ASSUME NEW words \in Seq(Seq(Solid)), NEW q \in Quotings, NEW w \in 1..Len(words),
         NEW m \in Nat, m <= Len(words[w]), NEW k, NEW rest, Inside(words, q, w, m, k, rest)
  PROVE  /\ m = Len(words[w]) => rest = <<q>> \o After(words, q, w)
         /\ m < Len(words[w]) =>
              \E r \in Seq(Runes) :
                Goes(words[w][m + 1], q, rest, r) /\ Inside(words, q, w, m + 1, k, r)
<1> DEFINE v == words[w]
           l == Len(v)
           a == After(words, q, w)
           z == <<q>> \o a
           c == v[m + 1]
           s == Escapes(v, q)
           e == Ending(s, l - (m + 1))
           r == e \o z
<1>1. /\ v \in Seq(Solid) /\ v \in Seq(Runes) /\ l \in Nat /\ a \in Seq(Runes) /\ q \in Runes
      /\ q \in Solid /\ Back \in Runes
  BY Pieces
<1>2. ~IsPlain(v) /\ k = q /\ rest = Ending(s, l - m) \o z
  BY DEF Inside
<1>3. Inside(words, q, w, m + 1, k, r)
  BY <1>2, Zenon DEF Inside
<1>4. z \in Seq(Runes)
  <2> HIDE DEF a
  <2> QED
    BY <1>1, ConcatOne
<1> HIDE DEF z, v
<1>5. ASSUME m = l PROVE rest = z
  <2>1. l - m = 0 /\ 0 \in 0..l
    BY <1>1, <1>5
  <2>2. Ending(s, 0) = <<>>
    BY <1>1, <2>1, EscapesEnd
  <2>3. <<>> \o z = z
    BY <1>4, ConcatEmpty
  <2> QED
    BY <1>2, <2>1, <2>2, <2>3
<1>6. ASSUME m < l
      PROVE  /\ c \in Runes /\ r \in Seq(Runes)
             /\ c \in {q, Back} => rest = <<Back>> \o (<<c>> \o r)
             /\ c \notin {q, Back} => rest = <<c>> \o r
  <2>1. /\ m + 1 \in 1..l /\ l - m \in 1..l /\ l - m \in 0..l /\ l - (m + 1) \in 0..l
        /\ (l - m) - 1 = l - (m + 1) /\ l + 1 - (l - m) = m + 1 /\ l - m > 0
    BY <1>1, <1>6
  <2>2. c \in Runes
    BY <1>1, <2>1
  <2>3. Ending(s, l - m) = s[m + 1] \o e
    <3>1. Ending(s, l - m) = s[l + 1 - (l - m)] \o Ending(s, (l - m) - 1)
      BY <1>1, <2>1, EscapesEnd
    <3> QED
      BY <2>1, <3>1
  <2>4. s[m + 1] = IF c \in {q, Back} THEN <<Back, c>> ELSE <<c>>
    <3>1. \A n \in 1..l : s[n] = IF v[n] \in {q, Back} THEN <<Back, v[n]>> ELSE <<v[n]>>
      BY <1>1, EscapesIs, Zenon
    <3> QED
      BY <2>1, <3>1, Zenon
  <2>5. e \in Seq(Runes)
    <3>1. e \in Seq(Solid)
      BY <1>1, <2>1, EscapesEnd
    <3>2. Solid \subseteq Runes
      BY Characters, Zenon
    <3> HIDE DEF e
    <3> QED
      BY <3>1, <3>2, WiderSeq
  <2> DEFINE b == Back
             x == <<c>>
             y == <<b>>
  <2> HIDE DEF c, e, b
  <2>6. b \in Runes /\ x \in Seq(Runes) /\ y \in Seq(Runes)
    BY <1>1, <2>2 DEF b
  <2>7. r \in Seq(Runes)
    BY <1>4, <2>5, Concat
  <2>8. <<b, c>> = y \o x
    BY <2>2, <2>6
  <2> HIDE DEF x, y
  <2>9. (x \o e) \o z = x \o r
    <3>1. x \in Seq(Runes) /\ e \in Seq(Runes) /\ z \in Seq(Runes)
      BY <1>4, <2>5, <2>6
    <3> QED
      BY <3>1, TextsAssociative
  <2>10. ((y \o x) \o e) \o z = y \o (x \o r)
    <3>1. y \in Seq(Runes) /\ x \in Seq(Runes) /\ e \in Seq(Runes)
      BY <2>5, <2>6
    <3>2. (y \o x) \o e = y \o (x \o e)
      BY <3>1, TextsAssociative
    <3> DEFINE f == x \o e
    <3>3. y \in Seq(Runes) /\ f \in Seq(Runes) /\ z \in Seq(Runes)
      <4>1. f \in Seq(Runes)
        BY <3>1, Concat
      <4> QED
        BY <1>4, <2>6, <4>1
    <3> HIDE DEF f
    <3>4. (y \o f) \o z = y \o (f \o z)
      BY <3>3, TextsAssociative
    <3> QED
      BY <2>9, <3>2, <3>4 DEF f
  <2>11. CASE c \in {q, b}
    <3>1. s[m + 1] = y \o x
      BY <2>4, <2>8, <2>11 DEF b
    <3>2. rest = y \o (x \o r)
      BY <1>2, <2>3, <2>10, <3>1
    <3> QED
      BY <2>2, <2>7, <2>11, <3>2 DEF b, x, y
  <2>12. CASE c \notin {q, b}
    <3>1. s[m + 1] = x
      BY <2>4, <2>12 DEF b, x
    <3>2. rest = x \o r
      BY <1>2, <2>3, <2>9, <3>1
    <3> QED
      BY <2>2, <2>7, <2>12, <3>2 DEF b, x
  <2> QED
    BY <2>11, <2>12
<1> QED
  BY <1>3, <1>5, <1>6, Zenon DEF v, z, Goes

\* Where a word begins, so it does.
LEMMA WordStarts ==
  ASSUME NEW words \in Seq(Seq(Solid)), NEW q \in Quotings, NEW w \in 1..Len(words)
  PROVE  LET e == Ending(Spaced(words, q), Len(words) + 1 - w)
         IN  e \in Seq(Runes) /\ Position(words, q, w, 0, Blank, e)
<1> DEFINE l == Len(words)
           e == Ending(Spaced(words, q), l + 1 - w)
           a == After(words, q, w)
           v == words[w]
<1>1. e = Written(v, q) \o a /\ e \in Seq(Solid)
  BY LineSplits
<1>2. e \in Seq(Runes)
  <2>1. Solid \subseteq Runes
    BY Characters, Zenon
  <2> HIDE DEF e
  <2> QED
    BY <1>1, <2>1, WiderSeq
<1>3. v \in Seq(Runes)
  BY Pieces
<1> HIDE DEF e
<1>4. Position(words, q, w, 0, Blank, e)
  <2>1. CASE IsPlain(v)
    <3>1. Written(v, q) = v
      BY <2>1 DEF Written
    <3>2. Left(v, 0 + 1) = v
      BY <1>3, LeftEnds
    <3>3. Unquoted(words, q, w, 0, Blank, e)
      BY <1>1, <2>1, <3>1, <3>2 DEF Unquoted
    <3> QED
      BY <3>3 DEF Position
  <2>2. CASE ~IsPlain(v)
    <3>1. Unopened(words, q, w, 0, Blank, e)
      BY <1>1, <2>2 DEF Unopened
    <3> QED
      BY <3>1 DEF Position
  <2> QED
    BY <2>1, <2>2
<1> QED
  BY <1>2, <1>4 DEF e

\* After a word its line ends, or a blank follows, and the next word.
LEMMA AfterNext ==
  ASSUME NEW words \in Seq(Seq(Solid)), NEW q \in Quotings, NEW w \in 1..Len(words)
  PROVE  /\ w = Len(words) => After(words, q, w) = <<>>
         /\ w # Len(words) =>
              /\ w + 1 \in 1..Len(words)
              /\ \E r \in Seq(Runes) :
                   After(words, q, w) = <<Blank>> \o r /\ Position(words, q, w + 1, 0, Blank, r)
<1> DEFINE l == Len(words)
           e == Ending(Spaced(words, q), l - w)
<1>1. l \in Nat
  OBVIOUS
<1>2. w = l => After(words, q, w) = <<>>
  BY LineSplits
<1>3. ASSUME w # l
      PROVE  w + 1 \in 1..l /\ After(words, q, w) = <<Blank>> \o e
             /\ e \in Seq(Runes) /\ Position(words, q, w + 1, 0, Blank, e)
  <2>1. w + 1 \in 1..l /\ l + 1 - (w + 1) = l - w
    BY <1>1, <1>3
  <2>2. After(words, q, w) = <<Blank>> \o e
    BY <1>3, LineSplits
  <2>3. e \in Seq(Runes) /\ Position(words, q, w + 1, 0, Blank, e)
    BY <2>1, WordStarts
  <2> QED
    BY <2>1, <2>2, <2>3
<1> QED
  BY <1>2, <1>3, Zenon

-----------------------------------------------------------------------------
(* The words that are heard.                                               *)

Kept(words) == [n \in DOMAIN words |-> IF words[n] = <<>> THEN <<>> ELSE <<words[n]>>]

\* args with one more word, unless it is empty.
Flush(a, word) == IF word = <<>> THEN a ELSE Append(a, word)

\* Each word is heard, or nothing of it.
LEMMA KeptIs ==
  ASSUME NEW T, NEW words \in Seq(T)
  PROVE  /\ Kept(words) \in Seq(Seq(T)) /\ Len(Kept(words)) = Len(words)
         /\ \A n \in 1..Len(words) :
              Kept(words)[n] = IF words[n] = <<>> THEN <<>> ELSE <<words[n]>>
         /\ Heard(words) = Ending(Kept(words), Len(words))
<1> DEFINE S == Seq(T)
           E(n) == IF words[n] = <<>> THEN <<>> ELSE <<words[n]>>
<1>1. PICK l \in Nat : l = Len(words) /\ DOMAIN words = 1..l
  OBVIOUS
<1>2. ASSUME NEW n \in 1..l PROVE E(n) \in S
  <2> DEFINE c == words[n]
  <2>1. c \in T
    BY <1>1
  <2> HIDE DEF c
  <2>2. <<>> \in S /\ <<c>> \in S
    BY <2>1
  <2> HIDE DEF S
  <2> QED
    BY <2>2, Zenon DEF c
<1>3. Kept(words) = [n \in 1..l |-> E(n)]
  BY <1>1 DEF Kept
<1> HIDE DEF S, E
<1>4. [n \in 1..l |-> E(n)] \in Seq(S) /\ Len([n \in 1..l |-> E(n)]) = l
  BY <1>2
<1>5. \A n \in 1..l : Kept(words)[n] = E(n)
  BY <1>3
<1>6. Heard(words) = Ending(Kept(words), Len(words))
  <2>1. Heard(words) = Joined(Kept(words))
    BY Zenon DEF Heard, Kept
  <2>2. Len(Kept(words)) = Len(words)
    BY <1>1, <1>3, <1>4
  <2> QED
    BY <2>1, <2>2 DEF Joined
<1> QED
  BY <1>1, <1>3, <1>4, <1>5, <1>6 DEF S, E

\* A word that ends joins those before it.
LEMMA KeptNext ==
  ASSUME NEW T, NEW words \in Seq(T), NEW w \in 1..Len(words), NEW a \in Seq(T),
         a \o Ending(Kept(words), Len(words) + 1 - w) = Heard(words)
  PROVE  /\ Flush(a, words[w]) \in Seq(T)
         /\ Flush(a, words[w]) \o Ending(Kept(words), Len(words) - w) = Heard(words)
         /\ w = Len(words) => Flush(a, words[w]) = Heard(words)
<1> DEFINE k == Kept(words)
           v == words[w]
           e == Ending(k, Len(words) - w)
           x == k[w]
<1>1. PICK l \in Nat : l = Len(words)
  OBVIOUS
<1>2. /\ k \in Seq(Seq(T)) /\ Len(k) = l
      /\ \A n \in 1..l : k[n] = IF words[n] = <<>> THEN <<>> ELSE <<words[n]>>
  BY <1>1, KeptIs
<1>3. v \in T
  OBVIOUS
<1>4. x = IF v = <<>> THEN <<>> ELSE <<v>>
  BY <1>1, <1>2, Zenon
<1>5. /\ l + 1 - w \in 1..l /\ l - w \in 0..l /\ (l + 1 - w) - 1 = l - w /\ l + 1 - (l + 1 - w) = w
      /\ (w = l => l - w = 0)
  BY <1>1
<1> HIDE DEF k, v
<1>6. Ending(k, l + 1 - w) = x \o e
  <2>1. Ending(k, l + 1 - w) = k[Len(k) + 1 - (l + 1 - w)] \o Ending(k, (l + 1 - w) - 1)
    BY <1>2, <1>5, EndingIs
  <2> QED
    BY <1>1, <1>2, <1>5, <2>1
<1>7. e \in Seq(T) /\ (w = l => e = <<>>)
  <2>1. e \in Seq(T)
    BY <1>1, <1>2, <1>5, EndingIs
  <2>2. Ending(k, 0) = <<>>
    BY <1>2, EndingIs
  <2> QED
    BY <1>1, <1>5, <2>1, <2>2
<1> HIDE DEF e, x
<1>8. x \in Seq(T) /\ Flush(a, v) = a \o x
  <2>1. <<v>> \in Seq(T) /\ <<>> \in Seq(T)
    BY <1>3
  <2>2. Append(a, v) = a \o <<v>> /\ a \o <<>> = a
    BY <1>3, ConcatEmpty, ConcatOne
  <2> QED
    BY <1>4, <2>1, <2>2, Zenon DEF Flush
<1>9. a \o x \in Seq(T)
  BY <1>8, Concat
<1>10. (a \o x) \o e = Heard(words)
  <2>1. (a \o x) \o e = a \o (x \o e)
    <3>1. a \in Seq(T) /\ x \in Seq(T) /\ e \in Seq(T)
      BY <1>7, <1>8
    <3> QED
      BY <3>1, SeqsAssociative, SMTT(60)
  <2>2. a \o (x \o e) = Heard(words)
    BY <1>1, <1>6 DEF k
  <2> QED
    BY <2>1, <2>2
<1>11. w = l => a \o x = Heard(words)
  <2> DEFINE y == a \o x
  <2> HIDE DEF y
  <2>1. y \o <<>> = y
    BY <1>9, ConcatEmpty DEF y
  <2> QED
    BY <1>7, <1>10, <2>1 DEF y
<1> QED
  BY <1>1, <1>8, <1>9, <1>10, <1>11 DEF v, e, k

-----------------------------------------------------------------------------
(* The text that is left is the rest of what is meant.                     *)

Place(words, q, w, m) ==
  /\ args \o Ending(Kept(words), Len(words) + 1 - w) = Heard(words)
  /\ current = SubSeq(words[w], 1, m)
  /\ Position(words, q, w, m, quote, Left(runes, i))

Splitting(words, q) ==
  \E w \in 1..Len(words) : \E m \in 0..Len(words[w]) : Place(words, q, w, m)

Between == i = 1 /\ args = <<>> /\ current = <<>> /\ quote = Blank

Ahead(q) ==
  LET n == Len(done)
      rest(m) == Ending(Parted(meant, q), Len(meant) - m)
  IN  \/ runes = <<>> /\ n \in 0..Len(meant) /\ Between /\ batch = rest(n)
      \/ /\ runes # <<>> /\ n + 1 \in 1..Len(meant) /\ batch = rest(n + 1)
         /\ Splitting(Words(meant[n + 1]), q)

Arrived ==
  /\ \E S : done \in Seq(S)
  /\ \A n \in 1..Len(done) :
       /\ n \in 1..Len(meant) /\ "args" \in DOMAIN done[n] /\ "options" \in DOMAIN done[n]
       /\ done[n].args = Heard(Words(meant[n]))
       /\ done[n].options = OptionsOf(Heard(Words(meant[n])))

IInv ==
  /\ TypeOK
  /\ meant # <<>> => /\ meant \in Seq(Command) /\ Arrived
                     /\ \E q \in Quotings : Ahead(q)

-----------------------------------------------------------------------------
(* Types.                                                                  *)

\* NextCommand, with the place of the first semicolon named.
LEMMA NextCommandIs ==
  ASSUME NextCommand
  PROVE  LET piece == Trimmed(SubSeq(batch, 1, EndOf(batch) - 1))
         IN  /\ runes = <<>> /\ batch # <<>>
             /\ batch' = SubSeq(batch, EndOf(batch) + 1, Len(batch))
             /\ \/ piece = <<>> /\ runes' = runes /\ done' = done
                \/ piece # <<>> /\ piece[1] \in Meta \cup {Back} /\ runes' = piece /\ done' = done
                \/ piece # <<>> /\ piece[1] \notin Meta \cup {Back}
                   /\ runes' = runes /\ done' = Append(done, [query |-> piece])
             /\ meant' = meant /\ i' = i /\ args' = args /\ current' = current /\ quote' = quote
BY Zenon DEF NextCommand, EndOf, Stop, Back

\* The text of what is meant is text.
LEMMA TextIs ==
  ASSUME NEW commands \in Seq(Command), NEW q \in Quotings
  PROVE  /\ Text(commands, q) \in Seq(Runes)
         /\ Text(commands, q) = Ending(Parted(commands, q), Len(commands))
<1> DEFINE p == Parted(commands, q)
<1>1. p \in Seq(Seq(Runes)) /\ Len(p) = Len(commands) /\ Len(commands) \in Nat
  BY PartedIs
<1> HIDE DEF p
<1>2. Len(p) \in 0..Len(p)
  BY <1>1
<1>3. Ending(p, Len(p)) \in Seq(Runes)
  BY <1>1, <1>2, EndingIs
<1> QED
  BY <1>1, <1>3 DEF Text, Joined, p

\* The state at the start is typed.
LEMMA InitialTypes ==
  ASSUME Init
  PROVE  TypeOK
<1>1. batch \in Seq(Runes)
  <2>1. ASSUME NEW commands \in Intended, NEW q \in Quotings, batch = Text(commands, q)
        PROVE  batch \in Seq(Runes)
    BY <2>1, CommandLineAssumption, TextIs
  <2>2. ASSUME batch \in Broken PROVE batch \in Seq(Runes)
    BY <2>2, CommandLineAssumption
  <2> QED
    BY <2>1, <2>2 DEF Init
<1>2. runes = <<>> /\ i = 1 /\ args = <<>> /\ current = <<>> /\ quote = Blank
  BY DEF Init
<1> QED
  BY <1>1, <1>2 DEF TypeOK

\* A word that ends leaves words.
LEMMA FlushedIs ==
  ASSUME NEW T, args \in Seq(Seq(T) \ {<<>>}), current \in Seq(T)
  PROVE  Flushed \in Seq(Seq(T) \ {<<>>})
<1> DEFINE S == Seq(T) \ {<<>>}
<1>1. CASE current = <<>>
  BY <1>1 DEF Flushed
<1>2. CASE current # <<>>
  <2>1. current \in S
    BY <1>2
  <2> HIDE DEF S
  <2>2. Append(args, current) \in Seq(S)
    <3>1. args \in Seq(S)
      BY DEF S
    <3> QED
      BY <2>1, <3>1
  <2> QED
    BY <1>2, <2>2 DEF Flushed, S
<1> QED
  BY <1>1, <1>2

\* Each step keeps the types.
LEMMA TypesKept ==
  ASSUME TypeOK, [Next]_vars
  PROVE  TypeOK'
<1> USE DEF TypeOK
<1>1. Len(runes) \in Nat /\ i \in Nat
  OBVIOUS
<1>2. ASSUME Reading PROVE i \in 1..Len(runes) /\ runes[i] \in Runes /\ i + 1 \in 1..Len(runes) + 1
  <2>1. i \in 1..Len(runes)
    BY <1>1, <1>2 DEF Reading
  <2> QED
    BY <1>1, <2>1
<1>3. \A x \in Runes : Append(current, x) \in Seq(Runes)
  OBVIOUS
<1>4. CASE NextCommand
  <2> DEFINE piece == Trimmed(SubSeq(batch, 1, EndOf(batch) - 1))
  <2>1. EndOf(batch) \in 1..Len(batch) + 1 /\ Len(batch) \in Nat
    BY EndOfIs
  <2>2. batch' \in Seq(Runes)
    <3> DEFINE e == EndOf(batch)
    <3> HIDE DEF e
    <3>1. SubSeq(batch, e + 1, Len(batch)) \in Seq(Runes)
      BY <2>1 DEF e
    <3> QED
      BY <1>4, <3>1, NextCommandIs DEF e
  <2>3. piece \in Seq(Runes)
    <3> DEFINE e == EndOf(batch)
    <3> HIDE DEF e
    <3>1. SubSeq(batch, 1, e - 1) \in Seq(Runes)
      BY <2>1 DEF e
    <3> QED
      BY <3>1, TrimmedTyped DEF e
  <2> HIDE DEF piece
  <2>4. /\ runes = <<>> /\ (runes' = runes \/ runes' = piece)
        /\ i' = i /\ args' = args /\ current' = current /\ quote' = quote
    BY <1>4, NextCommandIs DEF piece
  <2>5. runes' \in Seq(Runes) /\ i' \in 1..Len(runes') + 1
    <3>1. i = 1
      BY <2>4
    <3>2. runes' \in Seq(Runes)
      BY <2>3, <2>4
    <3>3. Len(runes') \in Nat
      BY <3>2
    <3> QED
      BY <2>4, <3>1, <3>2, <3>3
  <2> QED
    BY <2>2, <2>4, <2>5
<1>5. CASE CloseQuote
  BY <1>1, <1>2, <1>5 DEF CloseQuote, Rest
<1>6. CASE Escape
  <2>1. i + 1 \in 1..Len(runes) /\ i + 2 \in 1..Len(runes) + 1
    BY <1>1, <1>2, <1>6 DEF Escape
  <2>2. runes[i + 1] \in Runes
    BY <2>1
  <2>3. current' \in Seq(Runes)
    BY <1>3, <1>6, <2>2 DEF Escape
  <2> QED
    BY <1>6, <2>1, <2>3 DEF Escape, Rest
<1>7. CASE QuotedRune
  BY <1>1, <1>2, <1>3, <1>7 DEF QuotedRune, Rest
<1>8. CASE EndWord
  <2>1. Flushed \in Seq(Seq(Runes) \ {<<>>})
    BY FlushedIs
  <2> QED
    BY <1>1, <1>2, <1>8, <2>1 DEF EndWord, Rest
<1>9. CASE OpenQuote
  BY <1>1, <1>2, <1>9 DEF OpenQuote, Rest
<1>10. CASE PlainRune
  BY <1>1, <1>2, <1>3, <1>10 DEF PlainRune, Rest
<1>11. CASE EndCommand
  <2>1. runes' = <<>> /\ i' = 1 /\ args' = <<>> /\ current' = <<>> /\ quote' = Blank /\ batch' = batch
    BY <1>11 DEF EndCommand
  <2> QED
    BY <2>1
<1>12. CASE UNCHANGED vars
  BY <1>12 DEF vars, parser
<1> QED
  BY <1>4, <1>5, <1>6, <1>7, <1>8, <1>9, <1>10, <1>11, <1>12 DEF Next

-----------------------------------------------------------------------------
(* The loop of parseArgs.                                                  *)

\* The character that is read, when what is left begins with it.
LEMMA ReadNext ==
  ASSUME TypeOK, NEW x \in Runes, NEW r \in Seq(Runes), Left(runes, i) = <<x>> \o r
  PROVE  /\ Reading /\ runes[i] = x /\ Left(runes, i + 1) = r /\ i + 1 \in 1..Len(runes) + 1
         /\ Len(runes) - i = Len(r) /\ Len(r) \in Nat /\ Len(runes) \in Nat /\ i \in Nat
<1>1. runes \in Seq(Runes) /\ i \in 1..Len(runes) + 1 /\ Len(runes) \in Nat /\ Len(r) \in Nat
  BY DEF TypeOK
<1>2. i \in 1..Len(runes) /\ runes[i] = x /\ Left(runes, i + 1) = r /\ Len(runes) - i = Len(r)
  BY ONLY <1>1, LeftStarts, Left(runes, i) = <<x>> \o r
<1>3. i <= Len(runes) /\ i + 1 \in 1..Len(runes) + 1 /\ i \in Nat
  BY <1>1, <1>2
<1> QED
  BY <1>1, <1>2, <1>3 DEF Reading

\* The two characters that are read.
LEMMA ReadTwo ==
  ASSUME TypeOK, NEW x \in Runes, NEW y \in Runes, NEW r \in Seq(Runes), NEW z,
         z = <<y>> \o r, Left(runes, i) = <<x>> \o z
  PROVE  /\ Reading /\ runes[i] = x /\ i + 1 <= Len(runes) /\ runes[i + 1] = y
         /\ Left(runes, i + 2) = r
<1>1. z \in Seq(Runes)
  BY ConcatOne
<1>2. /\ Reading /\ runes[i] = x /\ Left(runes, i + 1) = z /\ i + 1 \in 1..Len(runes) + 1
      /\ i \in Nat /\ Len(runes) \in Nat
  BY <1>1, ReadNext
<1>3. runes \in Seq(Runes)
  BY DEF TypeOK
<1>4. PICK n : n = i + 1
  OBVIOUS
<1>5. n \in 1..Len(runes) + 1 /\ Left(runes, n) = <<y>> \o r
  BY <1>2, <1>4
<1>6. n \in 1..Len(runes) /\ runes[n] = y /\ Left(runes, n + 1) = r
  BY ONLY <1>3, <1>5, LeftStarts, y \in Runes, r \in Seq(Runes)
<1>7. n + 1 = i + 2 /\ n <= Len(runes)
  BY <1>2, <1>4, <1>6
<1> QED
  BY <1>2, <1>4, <1>6, <1>7

\* Nothing is left when the text ends.
LEMMA ReadAll ==
  ASSUME TypeOK
  PROVE  Reading <=> Left(runes, i) # <<>>
<1>1. runes \in Seq(Runes) /\ i \in 1..Len(runes) + 1 /\ Len(runes) \in Nat
  BY DEF TypeOK
<1>2. Left(runes, i) = <<>> => i = Len(runes) + 1
  BY <1>1, LeftEnds
<1>3. i = Len(runes) + 1 => Left(runes, i) = <<>>
  BY <1>1, LeftEnds
<1>4. Reading <=> i # Len(runes) + 1
  BY <1>1 DEF Reading
<1> QED
  BY <1>2, <1>3, <1>4

\* Outside quotes a word has ended, or its next character follows, or its quote.
LEMMA OutsideQuotes ==
  ASSUME NEW words \in Seq(Seq(Solid)), NEW q \in Quotings, NEW w \in 1..Len(words),
         NEW m \in 0..Len(words[w]), NEW k, NEW rest, Position(words, q, w, m, k, rest), k = Blank
  PROVE  \/ m = Len(words[w]) /\ rest = After(words, q, w)
         \/ m < Len(words[w]) /\ \E r \in Seq(Runes) :
              /\ words[w][m + 1] \in Runes /\ words[w][m + 1] \notin Special
              /\ rest = <<words[w][m + 1]>> \o r
              /\ Unquoted(words, q, w, m + 1, k, r)
         \/ m = 0 /\ \E r \in Seq(Runes) : rest = <<q>> \o r /\ Inside(words, q, w, 0, q, r)
<1>1. Len(words[w]) \in Nat /\ q # Blank
  BY Pieces
<1>2. m \in Nat /\ m <= Len(words[w]) /\ (m = Len(words[w]) \/ m < Len(words[w]))
  BY <1>1
<1>3. CASE Unquoted(words, q, w, m, k, rest)
  BY <1>2, <1>3, UnquotedNext, ZenonT(60)
<1>4. CASE Unopened(words, q, w, m, k, rest)
  <2>1. m = 0
    BY <1>4, Zenon DEF Unopened
  <2>2. \E r \in Seq(Runes) : rest = <<q>> \o r /\ Inside(words, q, w, 0, q, r)
    BY <1>2, <1>4, UnopenedNext
  <2> QED
    BY <2>1, <2>2, Zenon
<1>5. CASE Inside(words, q, w, m, k, rest)
  BY <1>1, <1>5, Zenon DEF Inside
<1>6. CASE Closed(words, q, w, m, k, rest)
  BY <1>6, Zenon DEF Closed
<1> QED
  BY <1>3, <1>4, <1>5, <1>6, Zenon DEF Position

\* In quotes the word and its quote are the same as at its beginning.
LEMMA InQuotes ==
  ASSUME NEW words, NEW q, NEW w, NEW m, NEW k, NEW rest, Position(words, q, w, m, k, rest),
         k # Blank
  PROVE  Inside(words, q, w, m, k, rest) /\ k = q
BY Zenon DEF Position, Unquoted, Unopened, Inside, Closed

\* What each turn of the loop leaves as it is, and its place in a line.
LEMMA SamePlace ==
  ASSUME NEW words \in Seq(Seq(Solid)), NEW q \in Quotings, NEW w \in 1..Len(words),
         NEW m \in 0..Len(words[w]), NEW n \in 0..Len(words[w]), Place(words, q, w, m),
         args' = args, current' = SubSeq(words[w], 1, n),
         Position(words, q, w, n, quote', Left(runes, i)')
  PROVE  Splitting(words, q)'
<1>1. args' \o Ending(Kept(words), Len(words) + 1 - w) = Heard(words)
  BY Zenon DEF Place
<1>2. Place(words, q, w, n)'
  BY <1>1, Zenon DEF Place
<1> QED
  BY <1>2, Zenon DEF Splitting

\* A character more of a word.
LEMMA CurrentGrows ==
  ASSUME NEW words \in Seq(Seq(Solid)), NEW q \in Quotings, NEW w \in 1..Len(words),
         NEW m \in 0..Len(words[w]), m < Len(words[w]), Place(words, q, w, m)
  PROVE  /\ m + 1 \in 0..Len(words[w]) /\ m \in Nat
         /\ Append(current, words[w][m + 1]) = SubSeq(words[w], 1, m + 1)
<1> DEFINE v == words[w]
<1>1. v \in Seq(Solid) /\ Len(v) \in Nat
  BY Pieces
<1> HIDE DEF v
<1>2. m \in 0..Len(v) - 1 /\ m + 1 \in 0..Len(v)
  BY <1>1 DEF v
<1>3. current = SubSeq(v, 1, m)
  BY Zenon DEF Place, v
<1>4. SubSeq(v, 1, m + 1) = Append(SubSeq(v, 1, m), v[m + 1])
  BY <1>1, <1>2, BeginningGrows
<1> QED
  BY <1>2, <1>3, <1>4 DEF v

\* A quote is closed behind its word.
LEMMA CloseQuoteKeeps ==
  ASSUME TypeOK, NEW words \in Seq(Seq(Solid)), NEW q \in Quotings, NEW w \in 1..Len(words),
         NEW m \in 0..Len(words[w]), Place(words, q, w, m), CloseQuote
  PROVE  Splitting(words, q)'
<1> DEFINE v == words[w]
           left == Left(runes, i)
<1>1. /\ v \in Seq(Runes) /\ Len(v) \in Nat /\ After(words, q, w) \in Seq(Runes)
      /\ q \in Runes /\ Back \in Runes /\ q # Back
  BY Pieces
<1>2. m \in Nat /\ m <= Len(v) /\ (m = Len(v) \/ m < Len(v))
  BY <1>1
<1>3. Inside(words, q, w, m, quote, left)
  BY InQuotes DEF CloseQuote, Place
<1>4. runes[i] = q /\ Reading
  BY InQuotes DEF CloseQuote, Place
<1>5. CASE m < Len(v)
  <2>1. PICK r \in Seq(Runes) : Goes(v[m + 1], q, left, r)
    BY <1>2, <1>3, <1>5, InsideNext
  <2>2. /\ v[m + 1] \in Runes
        /\ v[m + 1] \in {q, Back} => left = <<Back>> \o (<<v[m + 1]>> \o r)
        /\ v[m + 1] \notin {q, Back} => left = <<v[m + 1]>> \o r
    BY <2>1, Zenon DEF Goes
  <2> HIDE DEF v
  <2>3. CASE v[m + 1] \in {q, Back}
    <3>1. <<v[m + 1]>> \o r \in Seq(Runes)
      BY <2>2, ConcatOne
    <3>2. runes[i] = Back
      BY <1>1, <2>2, <2>3, <3>1, ReadNext
    <3> QED
      BY <1>1, <1>4, <3>2
  <2>4. CASE v[m + 1] \notin {q, Back}
    <3>1. runes[i] = v[m + 1]
      BY <2>2, <2>4, ReadNext
    <3> QED
      BY <1>4, <2>4, <3>1
  <2> QED
    BY <2>3, <2>4
<1>6. CASE m = Len(v)
  <2>1. left = <<q>> \o After(words, q, w)
    BY <1>2, <1>3, <1>6, InsideNext
  <2>2. Left(runes, i + 1) = After(words, q, w)
    BY <1>1, <2>1, ReadNext
  <2>3. /\ runes' = runes /\ i' = i + 1 /\ quote' = Blank /\ args' = args /\ current' = current
    BY DEF CloseQuote, Rest
  <2>4. Closed(words, q, w, m, Blank, After(words, q, w))
    BY <1>3, <1>6, Zenon DEF Closed, Inside
  <2>5. Position(words, q, w, m, quote', Left(runes, i)')
    BY <2>2, <2>3, <2>4, Zenon DEF Position
  <2>6. current' = SubSeq(words[w], 1, m)
    BY <2>3, Zenon DEF Place
  <2> QED
    BY <2>3, <2>5, <2>6, SamePlace
<1> QED
  BY <1>2, <1>5, <1>6

\* In quotes, where a character is left, it is read with or without a backslash.
LEMMA InsideRead ==
  ASSUME TypeOK, NEW words \in Seq(Seq(Solid)), NEW q \in Quotings, NEW w \in 1..Len(words),
         NEW m \in 0..Len(words[w]), Place(words, q, w, m), quote # Blank, runes[i] # quote
  PROVE  /\ m < Len(words[w]) /\ quote = q
         /\ \E r \in Seq(Runes) :
              /\ words[w][m + 1] \in Runes
              /\ Inside(words, q, w, m + 1, q, r)
              /\ words[w][m + 1] \in {q, Back} =>
                   /\ runes[i] = Back /\ i + 1 <= Len(runes)
                   /\ runes[i + 1] = words[w][m + 1] /\ Left(runes, i + 2) = r
              /\ words[w][m + 1] \notin {q, Back} =>
                   runes[i] = words[w][m + 1] /\ Left(runes, i + 1) = r
<1> DEFINE v == words[w]
           left == Left(runes, i)
           c == v[m + 1]
<1>1. /\ v \in Seq(Runes) /\ Len(v) \in Nat /\ After(words, q, w) \in Seq(Runes)
      /\ q \in Runes /\ Back \in Runes /\ q # Back
  BY Pieces
<1>2. m \in Nat /\ m <= Len(v) /\ (m = Len(v) \/ m < Len(v))
  BY <1>1
<1>3. Inside(words, q, w, m, quote, left)
  BY InQuotes DEF Place
<1>4. quote = q
  BY InQuotes DEF Place
<1>5. m < Len(v)
  <2>1. ASSUME m = Len(v) PROVE FALSE
    <3>1. left = <<q>> \o After(words, q, w)
      BY <1>2, <1>3, <2>1, InsideNext
    <3>2. runes[i] = q
      BY <1>1, <3>1, ReadNext
    <3> QED
      BY <1>4, <3>2
  <2> QED
    BY <1>2, <2>1
<1>6. PICK r \in Seq(Runes) : Goes(c, q, left, r) /\ Inside(words, q, w, m + 1, quote, r)
  BY <1>2, <1>3, <1>5, InsideNext
<1>7. Inside(words, q, w, m + 1, q, r)
  BY <1>4, <1>6
<1> HIDE DEF c
<1>8. /\ c \in Runes
      /\ c \in {q, Back} => left = <<Back>> \o (<<c>> \o r)
      /\ c \notin {q, Back} => left = <<c>> \o r
  BY <1>6, Zenon DEF Goes
<1>9. ASSUME c \in {q, Back}
      PROVE  runes[i] = Back /\ i + 1 <= Len(runes) /\ runes[i + 1] = c /\ Left(runes, i + 2) = r
  <2>1. left = <<Back>> \o (<<c>> \o r)
    BY <1>8, <1>9
  <2> QED
    BY <1>1, <1>8, <2>1, ReadTwo
<1>10. ASSUME c \notin {q, Back}
       PROVE  runes[i] = c /\ Left(runes, i + 1) = r
  <2>1. left = <<c>> \o r
    BY <1>8, <1>10
  <2> QED
    BY <1>8, <2>1, ReadNext
<1> QED
  BY <1>4, <1>5, <1>7, <1>8, <1>9, <1>10, Zenon DEF c

\* A character with a backslash is read without it.
LEMMA EscapeKeeps ==
  ASSUME TypeOK, NEW words \in Seq(Seq(Solid)), NEW q \in Quotings, NEW w \in 1..Len(words),
         NEW m \in 0..Len(words[w]), Place(words, q, w, m), Escape
  PROVE  Splitting(words, q)'
<1> DEFINE v == words[w]
           c == v[m + 1]
<1>1. quote # Blank /\ runes[i] = Back
  BY Zenon DEF Escape, Back
<1>2. /\ current' = Append(current, runes[i + 1]) /\ i' = i + 2 /\ args' = args
      /\ quote' = quote /\ runes' = runes
  BY DEF Escape, Rest
<1>3. runes[i] # quote
  <2>1. quote = q
    BY <1>1, InQuotes DEF Place
  <2>2. q # Back
    BY Pieces
  <2> QED
    BY <1>1, <2>1, <2>2
<1>4. m < Len(v) /\ quote = q
  BY <1>1, <1>3, InsideRead
<1>5. PICK r \in Seq(Runes) :
        /\ Inside(words, q, w, m + 1, q, r)
        /\ c \in {q, Back} => runes[i + 1] = c /\ Left(runes, i + 2) = r
        /\ c \notin {q, Back} => runes[i] = c
  BY <1>1, <1>3, InsideRead, Zenon
<1> HIDE DEF c
<1>6. c \in {q, Back}
  BY <1>1, <1>5
<1>7. runes[i + 1] = c /\ Left(runes, i + 2) = r
  BY <1>5, <1>6
<1>8. Append(current, c) = SubSeq(v, 1, m + 1) /\ m + 1 \in 0..Len(v)
  BY <1>4, CurrentGrows DEF c
<1>9. current' = SubSeq(words[w], 1, m + 1)
  BY <1>2, <1>7, <1>8
<1>10. Left(runes, i)' = r
  BY <1>2, <1>7
<1>11. Position(words, q, w, m + 1, quote', Left(runes, i)')
  BY <1>2, <1>4, <1>5, <1>10, Zenon DEF Position
<1> QED
  BY <1>2, <1>8, <1>9, <1>11, SamePlace

\* A character without one is read as it is.
LEMMA QuotedRuneKeeps ==
  ASSUME TypeOK, NEW words \in Seq(Seq(Solid)), NEW q \in Quotings, NEW w \in 1..Len(words),
         NEW m \in 0..Len(words[w]), Place(words, q, w, m), QuotedRune
  PROVE  Splitting(words, q)'
<1> DEFINE v == words[w]
           c == v[m + 1]
<1>1. quote # Blank /\ runes[i] # quote /\ (runes[i] = Back => i = Len(runes))
  BY Zenon DEF QuotedRune, Back
<1>2. /\ current' = Append(current, runes[i]) /\ i' = i + 1 /\ args' = args
      /\ quote' = quote /\ runes' = runes
  BY DEF QuotedRune, Rest
<1>4. m < Len(v) /\ quote = q
  BY <1>1, InsideRead
<1>5. PICK r \in Seq(Runes) :
        /\ c \in Runes
        /\ Inside(words, q, w, m + 1, q, r)
        /\ c \in {q, Back} =>
             /\ runes[i] = Back /\ i + 1 <= Len(runes)
             /\ runes[i + 1] = c /\ Left(runes, i + 2) = r
        /\ c \notin {q, Back} => runes[i] = c /\ Left(runes, i + 1) = r
  <2> QED
    BY <1>1, InsideRead, ZenonT(60)
<1> HIDE DEF c
<1>6. c \notin {q, Back}
  <2>1. Len(runes) \in Nat /\ i \in Nat
    BY DEF TypeOK
  <2>2. ~(i = Len(runes) /\ i + 1 <= Len(runes))
    BY <2>1
  <2> QED
    BY <1>1, <1>5, <2>2, Zenon
<1>7. runes[i] = c /\ Left(runes, i + 1) = r
  BY <1>5, <1>6
<1>8. Append(current, c) = SubSeq(v, 1, m + 1) /\ m + 1 \in 0..Len(v)
  BY <1>4, CurrentGrows DEF c
<1>9. current' = SubSeq(words[w], 1, m + 1)
  BY <1>2, <1>7, <1>8
<1>10. Left(runes, i)' = r
  BY <1>2, <1>7
<1>11. Position(words, q, w, m + 1, quote', Left(runes, i)')
  BY <1>2, <1>4, <1>5, <1>10, Zenon DEF Position
<1> QED
  BY <1>2, <1>8, <1>9, <1>11, SamePlace

\* What comes next outside quotes: the line has ended, or a blank, a character or
\* a quote is read.
LineOver(words, w, m) == m = Len(words[w]) /\ w = Len(words) /\ ~Reading

WordOver(words, q, w, m) ==
  /\ m = Len(words[w]) /\ w + 1 \in 1..Len(words) /\ Reading /\ runes[i] = Blank
  /\ Position(words, q, w + 1, 0, Blank, Left(runes, i + 1))

RuneNext(words, q, w, m) ==
  /\ m < Len(words[w]) /\ Reading /\ runes[i] = words[w][m + 1] /\ runes[i] \notin Special
  /\ Position(words, q, w, m + 1, Blank, Left(runes, i + 1))

QuoteNext(words, q, w, m) ==
  /\ m = 0 /\ Reading /\ runes[i] = q
  /\ Position(words, q, w, 0, q, Left(runes, i + 1))

\* One of the four comes next.
LEMMA OutsideRead ==
  ASSUME TypeOK, NEW words \in Seq(Seq(Solid)), NEW q \in Quotings, NEW w \in 1..Len(words),
         NEW m \in 0..Len(words[w]), Place(words, q, w, m), quote = Blank
  PROVE  \/ LineOver(words, w, m) \/ WordOver(words, q, w, m)
         \/ RuneNext(words, q, w, m) \/ QuoteNext(words, q, w, m)
<1> DEFINE v == words[w]
           left == Left(runes, i)
<1>1. /\ q \in Runes /\ Blank \in Runes /\ Len(v) \in Nat
  BY Pieces
<1>2. Position(words, q, w, m, quote, left)
  BY Zenon DEF Place
<1>3. \/ m = Len(words[w]) /\ left = After(words, q, w)
      \/ m < Len(words[w]) /\ \E r \in Seq(Runes) :
           /\ words[w][m + 1] \in Runes /\ words[w][m + 1] \notin Special
           /\ left = <<words[w][m + 1]>> \o r
           /\ Unquoted(words, q, w, m + 1, quote, r)
      \/ m = 0 /\ \E r \in Seq(Runes) : left = <<q>> \o r /\ Inside(words, q, w, 0, q, r)
  BY <1>2, OutsideQuotes
<1>4. CASE m = Len(v) /\ left = After(words, q, w)
  <2>1. CASE w = Len(words)
    <3>1. left = <<>>
      BY <1>4, <2>1, AfterNext
    <3> QED
      BY <1>4, <2>1, <3>1, ReadAll DEF LineOver
  <2>2. CASE w # Len(words)
    <3>1. w + 1 \in 1..Len(words)
      BY <2>2, AfterNext
    <3>2. PICK r \in Seq(Runes) :
            After(words, q, w) = <<Blank>> \o r /\ Position(words, q, w + 1, 0, Blank, r)
      BY <2>2, AfterNext
    <3>3. left = <<Blank>> \o r
      BY <1>4, <3>2
    <3>4. Reading /\ runes[i] = Blank /\ Left(runes, i + 1) = r
      BY <1>1, <3>3, ReadNext
    <3>5. WordOver(words, q, w, m)
      BY <1>4, <3>1, <3>2, <3>4, Zenon DEF WordOver
    <3> QED
      BY <3>5
  <2> QED
    BY <2>1, <2>2
<1>5. ASSUME m < Len(v), NEW r \in Seq(Runes), v[m + 1] \in Runes, v[m + 1] \notin Special,
             left = <<v[m + 1]>> \o r, Unquoted(words, q, w, m + 1, quote, r)
      PROVE  RuneNext(words, q, w, m)
  <2> DEFINE c == v[m + 1]
  <2> HIDE DEF c
  <2>1. c \in Runes /\ left = <<c>> \o r
    BY <1>5 DEF c
  <2>2. Reading /\ runes[i] = c /\ Left(runes, i + 1) = r
    BY <2>1, ReadNext
  <2>3. Position(words, q, w, m + 1, Blank, r)
    BY <1>5, Zenon DEF Position
  <2> QED
    BY <1>5, <2>2, <2>3, Zenon DEF RuneNext, c
<1>6. ASSUME m = 0, NEW r \in Seq(Runes), left = <<q>> \o r, Inside(words, q, w, 0, q, r)
      PROVE  QuoteNext(words, q, w, m)
  <2>2. Reading /\ runes[i] = q /\ Left(runes, i + 1) = r
    BY <1>1, <1>6, ReadNext
  <2>3. Position(words, q, w, 0, q, r)
    BY <1>6, Zenon DEF Position
  <2> QED
    BY <1>6, <2>2, <2>3, Zenon DEF QuoteNext
<1> QED
  BY <1>3, <1>4, <1>5, <1>6, Zenon

\* A whole word has been read.
LEMMA WholeWord ==
  ASSUME TypeOK, NEW words \in Seq(Seq(Solid)), NEW q \in Quotings, NEW w \in 1..Len(words),
         NEW m \in 0..Len(words[w]), Place(words, q, w, m), m = Len(words[w])
  PROVE  /\ Flushed \in Seq(Seq(Runes))
         /\ Flushed \o Ending(Kept(words), Len(words) - w) = Heard(words)
         /\ w = Len(words) => Flushed = Heard(words)
<1> DEFINE S == Seq(Runes)
           v == words[w]
<1>1. v \in Seq(Solid)
  BY Pieces
<1> HIDE DEF v
<1>2. current = v
  <2>1. current = SubSeq(v, 1, Len(v))
    BY Zenon DEF Place, v
  <2> QED
    BY <1>1, <2>1, BeginningEnds
<1>3. Flushed = Flush(args, v)
  BY <1>2 DEF Flushed, Flush
<1>4. words \in Seq(S)
  <2>1. Solid \subseteq Runes
    BY Characters, Zenon
  <2> QED
    BY <2>1, WiderSeqSeq
<1>5. args \in Seq(S)
  <2>1. S \ {<<>>} \subseteq S /\ args \in Seq(S \ {<<>>})
    BY DEF TypeOK
  <2> HIDE DEF S
  <2> QED
    BY <2>1, WiderSeq
<1>6. args \o Ending(Kept(words), Len(words) + 1 - w) = Heard(words)
  BY Zenon DEF Place
<1> HIDE DEF S
<1>7. /\ Flush(args, words[w]) \in Seq(S)
      /\ Flush(args, words[w]) \o Ending(Kept(words), Len(words) - w) = Heard(words)
      /\ w = Len(words) => Flush(args, words[w]) = Heard(words)
  BY <1>4, <1>5, <1>6, KeptNext
<1> QED
  BY <1>3, <1>7 DEF S, v

\* A blank ends a word.
LEMMA EndWordKeeps ==
  ASSUME TypeOK, NEW words \in Seq(Seq(Solid)), NEW q \in Quotings, NEW w \in 1..Len(words),
         NEW m \in 0..Len(words[w]), Place(words, q, w, m), EndWord
  PROVE  Splitting(words, q)'
<1>1. quote = Blank /\ runes[i] = Blank /\ Reading
  BY DEF EndWord
<1>2. q # Blank /\ Blank \in Special
  BY Characters, Pieces
<1>3. WordOver(words, q, w, m)
  <2>1. ~LineOver(words, w, m) /\ ~RuneNext(words, q, w, m) /\ ~QuoteNext(words, q, w, m)
    BY <1>1, <1>2, Zenon DEF LineOver, RuneNext, QuoteNext
  <2> QED
    BY <1>1, <2>1, OutsideRead
<1>4. /\ m = Len(words[w]) /\ w + 1 \in 1..Len(words)
      /\ Position(words, q, w + 1, 0, Blank, Left(runes, i + 1))
  BY <1>3, Zenon DEF WordOver
<1>5. /\ args' = Flushed /\ current' = <<>> /\ i' = i + 1 /\ quote' = quote /\ runes' = runes
  BY DEF EndWord, Rest
<1>6. args' \o Ending(Kept(words), Len(words) - w) = Heard(words)
  BY <1>4, <1>5, WholeWord
<1>7. Len(words) + 1 - (w + 1) = Len(words) - w
  <2>1. Len(words) \in Nat /\ w \in Nat
    OBVIOUS
  <2> QED
    BY <2>1
<1>8. words[w + 1] \in Seq(Solid) /\ 0 \in 0..Len(words[w + 1])
  <2> DEFINE n == w + 1
  <2> HIDE DEF n
  <2>1. words[n] \in Seq(Solid) /\ Len(words[n]) \in Nat
    BY <1>4, Pieces DEF n
  <2> QED
    BY <2>1 DEF n
<1>9. current' = SubSeq(words[w + 1], 1, 0)
  BY <1>5, <1>8, BeginningEnds
<1>10. Position(words, q, w + 1, 0, quote', Left(runes, i)')
  BY <1>1, <1>4, <1>5, Zenon
<1>11. args' \o Ending(Kept(words), Len(words) + 1 - (w + 1)) = Heard(words)
  BY <1>6, <1>7
<1>12. Place(words, q, w + 1, 0)'
  BY <1>9, <1>10, <1>11, Zenon DEF Place
<1> QED
  BY <1>4, <1>8, <1>12, Zenon DEF Splitting

\* A quote opens a word that is written in quotes.
LEMMA OpenQuoteKeeps ==
  ASSUME TypeOK, NEW words \in Seq(Seq(Solid)), NEW q \in Quotings, NEW w \in 1..Len(words),
         NEW m \in 0..Len(words[w]), Place(words, q, w, m), OpenQuote
  PROVE  Splitting(words, q)'
<1>1. quote = Blank /\ runes[i] \in Quotes /\ Reading
  BY DEF OpenQuote
<1>2. runes[i] # Blank /\ runes[i] \in Special
  BY <1>1, Characters, Zenon
<1>3. QuoteNext(words, q, w, m)
  <2>1. ~LineOver(words, w, m) /\ ~RuneNext(words, q, w, m) /\ ~WordOver(words, q, w, m)
    BY <1>1, <1>2, Zenon DEF LineOver, RuneNext, WordOver
  <2> QED
    BY <1>1, <2>1, OutsideRead
<1>4. m = 0 /\ runes[i] = q /\ Position(words, q, w, 0, q, Left(runes, i + 1))
  BY <1>3, Zenon DEF QuoteNext
<1>5. quote' = runes[i] /\ i' = i + 1 /\ args' = args /\ current' = current /\ runes' = runes
  BY DEF OpenQuote, Rest
<1>6. current' = SubSeq(words[w], 1, m)
  BY <1>5, Zenon DEF Place
<1>7. Position(words, q, w, m, quote', Left(runes, i)')
  BY <1>4, <1>5, Zenon
<1> QED
  BY <1>5, <1>6, <1>7, SamePlace

\* A character of a word without quotes is read as it is.
LEMMA PlainRuneKeeps ==
  ASSUME TypeOK, NEW words \in Seq(Seq(Solid)), NEW q \in Quotings, NEW w \in 1..Len(words),
         NEW m \in 0..Len(words[w]), Place(words, q, w, m), PlainRune
  PROVE  Splitting(words, q)'
<1>1. quote = Blank /\ runes[i] \notin Quotes \cup {Blank} /\ Reading
  BY DEF PlainRune
<1>2. q \in Quotes
  BY Pieces
<1>3. RuneNext(words, q, w, m)
  <2>1. ~LineOver(words, w, m) /\ ~QuoteNext(words, q, w, m) /\ ~WordOver(words, q, w, m)
    BY <1>1, <1>2, Zenon DEF LineOver, QuoteNext, WordOver
  <2> QED
    BY <1>1, <2>1, OutsideRead
<1>4. /\ m < Len(words[w]) /\ runes[i] = words[w][m + 1]
      /\ Position(words, q, w, m + 1, Blank, Left(runes, i + 1))
  BY <1>3, Zenon DEF RuneNext
<1>5. /\ current' = Append(current, runes[i]) /\ i' = i + 1 /\ args' = args /\ quote' = quote
      /\ runes' = runes
  BY DEF PlainRune, Rest
<1>6. /\ m + 1 \in 0..Len(words[w])
      /\ Append(current, words[w][m + 1]) = SubSeq(words[w], 1, m + 1)
  BY <1>4, CurrentGrows
<1>7. current' = SubSeq(words[w], 1, m + 1)
  BY <1>4, <1>5, <1>6, Zenon
<1>8. Position(words, q, w, m + 1, quote', Left(runes, i)')
  BY <1>1, <1>4, <1>5, Zenon
<1> QED
  BY <1>5, <1>6, <1>7, <1>8, SamePlace

\* Where the text of a command ends, its last word has been read.
LEMMA LastWord ==
  ASSUME TypeOK, NEW words \in Seq(Seq(Solid)), NEW q \in Quotings, NEW w \in 1..Len(words),
         NEW m \in 0..Len(words[w]), Place(words, q, w, m), ~Reading
  PROVE  Flushed = Heard(words)
<1>1. quote = Blank
  <2>1. ASSUME quote # Blank PROVE FALSE
    <3>1. Inside(words, q, w, m, quote, Left(runes, i))
      BY <2>1, InQuotes DEF Place
    <3>2. /\ After(words, q, w) \in Seq(Runes) /\ q \in Runes /\ Back \in Runes
          /\ Len(words[w]) \in Nat
      BY Pieces
    <3>3. m \in Nat /\ m <= Len(words[w]) /\ (m = Len(words[w]) \/ m < Len(words[w]))
      BY <3>2
    <3>4. CASE m = Len(words[w])
      <4>1. Left(runes, i) = <<q>> \o After(words, q, w)
        BY <3>1, <3>3, <3>4, InsideNext
      <4> QED
        BY <3>2, <4>1, ReadNext
    <3>5. CASE m < Len(words[w])
      <4> DEFINE c == words[w][m + 1]
      <4>1. PICK r \in Seq(Runes) : Goes(c, q, Left(runes, i), r)
        BY <3>1, <3>3, <3>5, InsideNext
      <4> HIDE DEF c
      <4>2. /\ c \in Runes /\ (c \in {q, Back} => Left(runes, i) = <<Back>> \o (<<c>> \o r))
            /\ (c \notin {q, Back} => Left(runes, i) = <<c>> \o r)
        BY <4>1, Zenon DEF Goes
      <4>3. CASE c \in {q, Back}
        BY <3>2, <4>2, <4>3, ReadTwo
      <4>4. CASE c \notin {q, Back}
        BY <4>2, <4>4, ReadNext
      <4> QED
        BY <4>3, <4>4
    <3> QED
      BY <3>3, <3>4, <3>5
  <2> QED
    BY <2>1
<1>2. LineOver(words, w, m)
  <2>1. ~RuneNext(words, q, w, m) /\ ~QuoteNext(words, q, w, m) /\ ~WordOver(words, q, w, m)
    BY Zenon DEF RuneNext, QuoteNext, WordOver
  <2> QED
    BY <1>1, <2>1, OutsideRead
<1> QED
  BY <1>2, WholeWord DEF LineOver

-----------------------------------------------------------------------------
(* Commands.                                                               *)

\* A line that is to be split is at its beginning.
LEMMA SplittingStarts ==
  ASSUME NEW c \in Command, NEW q \in Quotings, runes' = Line(c, q), i' = 1, args' = <<>>,
         current' = <<>>, quote' = Blank
  PROVE  Splitting(Words(c), q)'
<1> DEFINE words == Words(c)
           line == Line(c, q)
<1>1. words \in Seq(Seq(Solid)) /\ Len(words) \in Nat /\ Len(words) >= 1
  BY WordsTyped
<1>2. line = Ending(Spaced(words, q), Len(words))
  BY LineIs
<1> HIDE DEF words, line
<1>3. 1 \in 1..Len(words) /\ Len(words) + 1 - 1 = Len(words)
  BY <1>1
<1>4. words[1] \in Seq(Solid) /\ 0 \in 0..Len(words[1])
  <2>1. words[1] \in Seq(Solid) /\ Len(words[1]) \in Nat
    BY <1>1, <1>3, Pieces
  <2> QED
    BY <2>1
<1>5. line \in Seq(Runes) /\ Position(words, q, 1, 0, Blank, line)
  BY <1>1, <1>2, <1>3, WordStarts
<1>6. Left(runes, i)' = line
  <2>1. Left(line, 1) = line
    BY <1>5, LeftEnds
  <2> QED
    BY <2>1 DEF line
<1>7. Position(words, q, 1, 0, quote', Left(runes, i)')
  BY <1>5, <1>6
<1>8. current' = SubSeq(words[1], 1, 0)
  BY <1>4, BeginningEnds
<1>9. args' \o Ending(Kept(words), Len(words) + 1 - 1) = Heard(words)
  <2> DEFINE S == Seq(Solid)
             e == Ending(Kept(words), Len(words))
  <2>1. words \in Seq(S)
    BY <1>1
  <2> HIDE DEF S
  <2>2. Heard(words) = e /\ Kept(words) \in Seq(Seq(S)) /\ Len(Kept(words)) = Len(words)
    BY <2>1, KeptIs
  <2>3. Len(words) \in 0..Len(Kept(words))
    BY <1>1, <2>2
  <2>4. e \in Seq(S)
    BY <2>2, <2>3, EndingIs
  <2> HIDE DEF e
  <2>5. <<>> \o e = e
    BY <2>4, ConcatEmpty
  <2> QED
    BY <1>3, <2>2, <2>5 DEF e
<1>10. Place(words, q, 1, 0)'
  BY <1>7, <1>8, <1>9, Zenon DEF Place
<1> QED
  BY <1>3, <1>4, <1>10, Zenon DEF Splitting, words

\* One element more, of any kind.
LEMMA OneMore ==
  ASSUME NEW S, NEW s \in Seq(S), NEW x
  PROVE  /\ Append(s, x) \in Seq(S \cup {x}) /\ Len(s) \in Nat
         /\ Len(Append(s, x)) = Len(s) + 1
         /\ \A n \in 1..Len(s) : Append(s, x)[n] = s[n]
         /\ Append(s, x)[Len(s) + 1] = x
<1> DEFINE R == S \cup {x}
<1>1. s \in Seq(R) /\ x \in R
  BY WiderSeq
<1> HIDE DEF R
<1>2. /\ Append(s, x) \in Seq(R) /\ Len(Append(s, x)) = Len(s) + 1
      /\ \A n \in 1..Len(s) : Append(s, x)[n] = s[n]
      /\ Append(s, x)[Len(s) + 1] = x
  BY <1>1, Appended
<1>3. Len(s) \in Nat
  OBVIOUS
<1> QED
  BY <1>2, <1>3 DEF R

\* What is meant at the start is ahead.
LEMMA InitialInvariant == Init => IInv
<1> SUFFICES ASSUME Init PROVE IInv
  OBVIOUS
<1>1. TypeOK
  BY InitialTypes
<1>2. ASSUME meant # <<>>
      PROVE  meant \in Seq(Command) /\ Arrived /\ \E q \in Quotings : Ahead(q)
  <2>1. PICK q \in Quotings : meant \in Intended /\ batch = Text(meant, q)
    BY <1>2 DEF Init
  <2>2. meant \in Seq(Command) /\ Len(meant) \in Nat
    BY <2>1, CommandLineAssumption
  <2>3. runes = <<>> /\ i = 1 /\ args = <<>> /\ current = <<>> /\ quote = Blank /\ done = <<>>
    BY DEF Init
  <2>4. Len(done) = 0 /\ done \in Seq({})
    BY <2>3
  <2>5. Arrived
    BY <2>4 DEF Arrived
  <2>6. batch = Ending(Parted(meant, q), Len(meant))
    BY <2>1, <2>2, TextIs
  <2>7. Len(meant) - 0 = Len(meant) /\ 0 \in 0..Len(meant)
    BY <2>2
  <2>8. Ahead(q)
    BY <2>3, <2>4, <2>6, <2>7, Zenon DEF Ahead, Between
  <2> QED
    BY <2>2, <2>5, <2>8
<1> QED
  BY <1>1, <1>2 DEF IInv

\* The next command of what is meant is cut off.
LEMMA NextCommandKeeps ==
  ASSUME TypeOK, meant \in Seq(Command), Arrived, NEW q \in Quotings, Ahead(q), NextCommand
  PROVE  Arrived' /\ Ahead(q)'
<1> DEFINE n == Len(done)
           p == Parted(meant, q)
           l == Len(meant)
           piece == Trimmed(SubSeq(batch, 1, EndOf(batch) - 1))
           rest == SubSeq(batch, EndOf(batch) + 1, Len(batch))
<1>1. runes = <<>> /\ batch # <<>>
  BY NextCommandIs
<1>2. n \in 0..l /\ Between /\ batch = Ending(p, l - n)
  BY <1>1, Zenon DEF Ahead
<1>3. l \in Nat
  OBVIOUS
<1>4. n # l
  <2>1. p \in Seq(Seq(Runes))
    BY PartedIs
  <2> HIDE DEF p
  <2>2. Ending(p, 0) = <<>>
    BY <2>1, EndingIs
  <2>3. n = l => l - n = 0
    BY <1>3
  <2> QED
    BY <1>1, <1>2, <2>2, <2>3
<1>5. n + 1 \in 1..l /\ l + 1 - (n + 1) = l - n /\ n \in Nat
  BY <1>2, <1>3, <1>4
<1>6. PICK k : k = n + 1
  OBVIOUS
<1>7. k \in 1..l /\ batch = Ending(p, l + 1 - k)
  BY <1>2, <1>5, <1>6
<1> HIDE DEF n
<1>8. piece = Line(meant[k], q) /\ rest = Ending(p, l - k)
  BY <1>7, TextSplits
<1>9. meant[k] \in Command
  BY <1>7
<1>10. piece # <<>> /\ piece[1] \in Meta
  BY <1>8, <1>9, LineIs
<1> HIDE DEF piece, rest
<1>11. /\ batch' = rest /\ runes' = piece /\ done' = done /\ meant' = meant
       /\ i' = i /\ args' = args /\ current' = current /\ quote' = quote
  BY <1>10, NextCommandIs, Zenon DEF piece, rest
<1>12. i = 1 /\ args = <<>> /\ current = <<>> /\ quote = Blank
  BY <1>2 DEF Between
<1>13. Splitting(Words(meant[k]), q)'
  <2>1. PICK c : c = meant[k]
    OBVIOUS
  <2>2. c \in Command /\ runes' = Line(c, q)
    BY <1>8, <1>9, <1>11, <2>1
  <2>3. Splitting(Words(c), q)'
    BY <1>11, <1>12, <2>2, SplittingStarts
  <2>4. meant'[k] = c
    BY <1>11, <2>1
  <2> QED
    BY <2>3, <2>4
<1>14. Arrived'
  BY <1>11 DEF Arrived
<1>15. Ahead(q)'
  BY <1>6, <1>7, <1>8, <1>10, <1>11, <1>13 DEF Ahead, n, p, l
<1> QED
  BY <1>14, <1>15

\* A command that has been split arrives.
LEMMA EndCommandKeeps ==
  ASSUME TypeOK, meant \in Seq(Command), Arrived, NEW q \in Quotings, Ahead(q), EndCommand
  PROVE  Arrived' /\ Ahead(q)'
<1> DEFINE l == Len(meant)
<1>1. runes # <<>> /\ ~Reading
  BY DEF EndCommand
<1>2. PICK k : k = Len(done) + 1
  OBVIOUS
<1>3. /\ k \in 1..l /\ batch = Ending(Parted(meant, q), l - k)
      /\ Splitting(Words(meant[k]), q)
  BY <1>1, <1>2, Zenon DEF Ahead
<1>4. PICK words : words = Words(meant[k])
  OBVIOUS
<1>5. words \in Seq(Seq(Solid))
  BY <1>3, <1>4, WordsTyped
<1>6. Flushed = Heard(words)
  <2>1. PICK w \in 1..Len(words) : \E m \in 0..Len(words[w]) : Place(words, q, w, m)
    BY <1>3, <1>4, Zenon DEF Splitting
  <2>2. PICK m \in 0..Len(words[w]) : Place(words, q, w, m)
    BY <2>1
  <2> QED
    BY <1>1, <1>5, <2>2, LastWord
<1> DEFINE x == [args |-> Flushed, options |-> OptionsOf(Flushed), refused |-> Refused(Flushed)]
<1>7. /\ done' = Append(done, x) /\ runes' = <<>> /\ i' = 1 /\ args' = <<>> /\ current' = <<>>
      /\ quote' = Blank /\ meant' = meant /\ batch' = batch
  BY DEF EndCommand
<1>8. /\ "args" \in DOMAIN x /\ "options" \in DOMAIN x
      /\ x.args = Heard(words) /\ x.options = OptionsOf(Heard(words))
  BY <1>6
<1> HIDE DEF x
<1>9. PICK S : done \in Seq(S)
  BY DEF Arrived
<1>10. /\ done' \in Seq(S \cup {x}) /\ Len(done) \in Nat /\ Len(done') = Len(done) + 1
       /\ (\A n \in 1..Len(done) : done'[n] = done[n]) /\ done'[Len(done) + 1] = x
  BY <1>7, <1>9, OneMore
<1>11. ASSUME NEW n \in 1..Len(done')
       PROVE  /\ n \in 1..Len(meant') /\ "args" \in DOMAIN done'[n] /\ "options" \in DOMAIN done'[n]
              /\ done'[n].args = Heard(Words(meant'[n]))
              /\ done'[n].options = OptionsOf(Heard(Words(meant'[n])))
  <2>1. n \in 1..Len(done) \/ n = k
    BY <1>2, <1>10
  <2>2. CASE n = k
    <3>1. done'[n] = x
      BY <1>2, <1>10, <2>2
    <3> QED
      BY <1>3, <1>4, <1>7, <1>8, <2>2, <3>1
  <2>3. CASE n \in 1..Len(done)
    <3>1. done'[n] = done[n]
      BY <1>10, <2>3
    <3>2. /\ n \in 1..Len(meant) /\ "args" \in DOMAIN done[n] /\ "options" \in DOMAIN done[n]
          /\ done[n].args = Heard(Words(meant[n]))
          /\ done[n].options = OptionsOf(Heard(Words(meant[n])))
      BY <2>3, Zenon DEF Arrived
    <3> QED
      BY <1>7, <3>1, <3>2
  <2> QED
    BY <2>1, <2>2, <2>3
<1>12. Arrived'
  <2>1. \E R : done' \in Seq(R)
    BY <1>10
  <2> QED
    BY <1>11, <2>1, Zenon DEF Arrived
<1>13. Len(done') = k /\ k \in 0..l
  BY <1>2, <1>3, <1>10
<1>14. Ahead(q)'
  BY <1>3, <1>7, <1>13, Zenon DEF Ahead, Between
<1> QED
  BY <1>12, <1>14

\* A turn of the loop stays in its line.
LEMMA TurnKeeps ==
  ASSUME TypeOK, meant \in Seq(Command), Arrived, NEW q \in Quotings, Ahead(q),
         CloseQuote \/ Escape \/ QuotedRune \/ EndWord \/ OpenQuote \/ PlainRune
  PROVE  Arrived' /\ Ahead(q)'
<1> DEFINE l == Len(meant)
<1>1. Reading /\ meant' = meant /\ batch' = batch /\ runes' = runes /\ done' = done
  BY DEF CloseQuote, Escape, QuotedRune, EndWord, OpenQuote, PlainRune, Rest
<1>2. runes # <<>>
  <2>1. ASSUME runes = <<>> PROVE FALSE
    <3>1. i \in 1..Len(runes) + 1 /\ Len(runes) = 0 /\ i <= Len(runes)
      BY <1>1, <2>1 DEF TypeOK, Reading
    <3> QED
      BY <3>1
  <2> QED
    BY <2>1
<1>3. PICK k : k = Len(done) + 1
  OBVIOUS
<1>4. /\ k \in 1..l /\ batch = Ending(Parted(meant, q), l - k)
      /\ Splitting(Words(meant[k]), q)
  BY <1>2, <1>3, Zenon DEF Ahead
<1>5. PICK words : words = Words(meant[k])
  OBVIOUS
<1>6. words \in Seq(Seq(Solid))
  BY <1>4, <1>5, WordsTyped
<1>7. PICK w \in 1..Len(words) : \E m \in 0..Len(words[w]) : Place(words, q, w, m)
  BY <1>4, <1>5, Zenon DEF Splitting
<1>8. PICK m \in 0..Len(words[w]) : Place(words, q, w, m)
  BY <1>7
<1>9. Splitting(words, q)'
  BY <1>6, <1>8, CloseQuoteKeeps, EscapeKeeps, QuotedRuneKeeps, EndWordKeeps, OpenQuoteKeeps,
     PlainRuneKeeps
<1>10. Splitting(Words(meant[k]), q)'
  BY <1>1, <1>5, <1>9
<1>11. Arrived'
  BY <1>1, Zenon DEF Arrived
<1>12. Ahead(q)'
  BY <1>1, <1>2, <1>3, <1>4, <1>10, Zenon DEF Ahead
<1> QED
  BY <1>11, <1>12

\* Every step keeps the invariant.
LEMMA InvariantKept ==
  ASSUME IInv, [Next]_vars
  PROVE  IInv'
<1>1. TypeOK'
  BY TypesKept DEF IInv
<1>2. meant' = meant
  BY Zenon DEF Next, vars, parser, Rest, NextCommand, CloseQuote, Escape, QuotedRune, EndWord, OpenQuote,
     PlainRune, EndCommand
<1>3. ASSUME meant # <<>>
      PROVE  meant \in Seq(Command) /\ Arrived' /\ \E q \in Quotings : Ahead(q)'
  <2>1. TypeOK /\ meant \in Seq(Command) /\ Arrived
    BY <1>3 DEF IInv
  <2>2. PICK q \in Quotings : Ahead(q)
    BY <1>3 DEF IInv
  <2>3. Arrived' /\ Ahead(q)'
    <3>1. CASE NextCommand
      BY <2>1, <2>2, <3>1, NextCommandKeeps
    <3>2. CASE CloseQuote \/ Escape \/ QuotedRune \/ EndWord \/ OpenQuote \/ PlainRune
      BY <2>1, <2>2, <3>2, TurnKeeps
    <3>3. CASE EndCommand
      BY <2>1, <2>2, <3>3, EndCommandKeeps
    <3>4. CASE UNCHANGED vars
      <4>1. /\ meant' = meant /\ batch' = batch /\ runes' = runes /\ i' = i /\ args' = args
            /\ current' = current /\ quote' = quote /\ done' = done
        BY <3>4 DEF vars, parser
      <4>2. Arrived'
        BY <2>1, <4>1, Zenon DEF Arrived
      <4>3. Ahead(q)'
        BY <2>2, <4>1, Zenon DEF Ahead, Between, Splitting, Place
      <4> QED
        BY <4>2, <4>3
    <3> QED
      BY <3>1, <3>2, <3>3, <3>4 DEF Next
  <2> QED
    BY <2>1, <2>3
<1> QED
  BY <1>1, <1>2, <1>3 DEF IInv

\* What has arrived is what was meant, and all of it in the end.
LEMMA InvariantArrives == IInv => CommandsArrive
<1> SUFFICES ASSUME IInv, meant # <<>>
             PROVE  /\ \A n \in DOMAIN done :
                         n \in DOMAIN meant /\ "args" \in DOMAIN done[n]
                         /\ done[n].args = Heard(Words(meant[n]))
                    /\ batch = <<>> /\ runes = <<>> => Len(done) = Len(meant)
  BY Zenon DEF CommandsArrive
<1>1. meant \in Seq(Command) /\ Arrived /\ \E q \in Quotings : Ahead(q)
  BY DEF IInv
<1>2. PICK S : done \in Seq(S)
  BY <1>1 DEF Arrived
<1>3. DOMAIN done = 1..Len(done) /\ DOMAIN meant = 1..Len(meant)
  BY <1>1, <1>2
<1>4. \A n \in DOMAIN done :
        n \in DOMAIN meant /\ "args" \in DOMAIN done[n] /\ done[n].args = Heard(Words(meant[n]))
  BY <1>1, <1>3, Zenon DEF Arrived
<1>5. ASSUME batch = <<>>, runes = <<>> PROVE Len(done) = Len(meant)
  <2>1. PICK q \in Quotings : Ahead(q)
    BY <1>1
  <2>2. PICK n : n = Len(done)
    OBVIOUS
  <2>3. n \in 0..Len(meant) /\ batch = Ending(Parted(meant, q), Len(meant) - n)
    BY <1>5, <2>1, <2>2, Zenon DEF Ahead
  <2>4. ASSUME n # Len(meant) PROVE FALSE
    <3>1. PICK k : k = n + 1
      OBVIOUS
    <3>2. k \in 1..Len(meant) /\ Len(meant) + 1 - k = Len(meant) - n
      <4>1. Len(meant) \in Nat
        BY <1>1
      <4> QED
        BY <2>3, <2>4, <3>1, <4>1
    <3>3. batch = Ending(Parted(meant, q), Len(meant) + 1 - k)
      BY <2>3, <3>2
    <3> QED
      BY <1>1, <1>5, <3>2, <3>3, TextSplits
  <2> QED
    BY <2>2, <2>4
<1> QED
  BY <1>4, <1>5

\* The invariant holds in every state.
THEOREM InvariantHolds == Spec => []IInv
<1>1. Init => IInv
  BY InitialInvariant
<1>2. IInv /\ [Next]_vars => IInv'
  BY InvariantKept
<1> QED
  BY <1>1, <1>2, PTL DEF Spec

\* parseArgs never reads past the end of its text.
THEOREM CommandLineTypes == Spec => []TypeOK
<1>1. IInv => TypeOK
  BY DEF IInv
<1> QED
  BY <1>1, InvariantHolds, PTL

\* Every command of the batch runs with the words that its user meant, whatever
\* they hold, and no other command runs.
THEOREM CommandsAlwaysArrive == Spec => []CommandsArrive
<1>1. IInv => CommandsArrive
  BY InvariantArrives
<1> QED
  BY <1>1, InvariantHolds, PTL

-----------------------------------------------------------------------------
(* Names of options.                                                       *)

Bench == <<"\\benchmark">>
Load == <<"\\i">>
FastNames == {<<"--fast">>, <<"-fast">>}
ColdNames == {<<"--cold">>, <<"-cold">>}
YoloNames == {<<"--yolo">>, <<"-yolo">>}
CmdNames == {<<"--restart-cmd">>, <<"-restart-cmd">>}
NameNames == {<<"--name">>, <<"-name">>}
NodesNames == {<<"-n">>}
EdgesNames == {<<"-e">>}

\* A text of one piece is not one of another.
LEMMA OnePiece == \A x, y : x # y => <<x>> # <<y>>
<1>1. ASSUME NEW x, NEW y, <<x>> = <<y>> PROVE x = y
  <2>1. <<x>>[1] = x /\ <<y>>[1] = y
    OBVIOUS
  <2> QED
    BY <1>1, <2>1, Zenon
<1> QED
  BY <1>1

\* No name is one of two options, and none is empty.
LEMMA NamesApart ==
  /\ \A x \in FastNames : x \notin ColdNames \cup YoloNames \cup CmdNames \cup NameNames
                                     \cup NodesNames \cup EdgesNames
  /\ \A x \in ColdNames : x \notin YoloNames \cup CmdNames \cup NameNames \cup NodesNames \cup EdgesNames
  /\ \A x \in YoloNames : x \notin CmdNames \cup NameNames \cup NodesNames \cup EdgesNames
  /\ \A x \in CmdNames : x \notin NameNames \cup NodesNames \cup EdgesNames
  /\ \A x \in NameNames : x \notin NodesNames \cup EdgesNames
  /\ \A x \in NodesNames : x \notin EdgesNames
  /\ \A x \in FastNames \cup ColdNames \cup YoloNames \cup CmdNames \cup NameNames
                \cup NodesNames \cup EdgesNames : x # <<>>
BY DEF FastNames, ColdNames, YoloNames, CmdNames, NameNames, NodesNames, EdgesNames

\* \i is not \benchmark.
LEMMA LoadIsNotBench == Load # Bench
<1>1. "\\i" # "\\benchmark"
  BY Zenon
<1> QED
  BY <1>1, OnePiece, Zenon DEF Load, Bench

\* Which flag a word is, for a command.
LEMMA FlagIs ==
  ASSUME NEW name, NEW a
  PROVE  LET f == FlagOf(name, a)
         IN  /\ f \in {"fast", "cold", "yolo", Nothing}
             /\ f = "fast" <=> name = Bench /\ a \in FastNames
             /\ f = "cold" <=> name = Bench /\ a \in ColdNames
             /\ f = "yolo" <=> name = Load /\ a \in YoloNames
<1> DEFINE f == FlagOf(name, a)
<1>1. f = CASE name = Bench /\ a \in FastNames -> "fast"
            [] name = Bench /\ a \in ColdNames -> "cold"
            [] name = Load /\ a \in YoloNames -> "yolo"
            [] OTHER -> Nothing
  BY Zenon DEF FlagOf, Bench, Load, FastNames, ColdNames, YoloNames
<1> HIDE DEF f
<1>2. /\ ~(a \in FastNames /\ a \in ColdNames) /\ ~(a \in FastNames /\ a \in YoloNames)
      /\ ~(a \in ColdNames /\ a \in YoloNames)
  BY NamesApart, Zenon
<1>3. Nothing \notin {"fast", "cold", "yolo"}
  BY DEF Nothing
<1> QED
  BY <1>1, <1>2, <1>3 DEF f

\* Which option with a value a word is, for a command.
LEMMA ValueIs ==
  ASSUME NEW name, NEW a
  PROVE  LET f == ValueOf(name, a)
         IN  /\ f \in {"cmd", "name", "nodes", "edges", Nothing}
             /\ f = "cmd" <=> name = Bench /\ a \in CmdNames
             /\ f = "name" <=> name = Bench /\ a \in NameNames
             /\ f = "nodes" <=> name # Bench /\ a \in NodesNames
             /\ f = "edges" <=> name # Bench /\ a \in EdgesNames
<1> DEFINE f == ValueOf(name, a)
<1>1. f = CASE name = Bench /\ a \in CmdNames -> "cmd"
            [] name = Bench /\ a \in NameNames -> "name"
            [] name # Bench /\ a \in NodesNames -> "nodes"
            [] name # Bench /\ a \in EdgesNames -> "edges"
            [] OTHER -> Nothing
  <2>1. \A x : a \in {x} <=> a = x
    OBVIOUS
  <2> QED
    BY <2>1, Zenon DEF ValueOf, Bench, CmdNames, NameNames, NodesNames, EdgesNames
<1> HIDE DEF f
<1>2. /\ ~(a \in CmdNames /\ a \in NameNames) /\ ~(a \in NodesNames /\ a \in EdgesNames)
  BY NamesApart, Zenon
<1>3. Nothing \notin {"cmd", "name", "nodes", "edges"}
  BY DEF Nothing
<1> QED
  BY <1>1, <1>2, <1>3 DEF f

-----------------------------------------------------------------------------
(* The loop over options.                                                  *)

Fields == {"fast", "cold", "yolo", "pending", "cmd", "name", "nodes", "edges"}
Settings(T) == [Fields -> BOOLEAN \cup T \cup {<<>>} \cup Fields \cup {Nothing}]

\* A turn of the loop makes settings of settings.
LEMMA ReadOptionIs ==
  ASSUME NEW T, NEW name, NEW s \in Settings(T), NEW a \in T
  PROVE  ReadOption(name, s, a) \in Settings(T)
<1> DEFINE V == BOOLEAN \cup T \cup {<<>>} \cup Fields \cup {Nothing}
           f == FlagOf(name, a)
           g == ValueOf(name, a)
<1>1. s \in [Fields -> V]
  BY DEF Settings
<1>2. f \in Fields \cup {Nothing} /\ g \in Fields \cup {Nothing}
  BY FlagIs, ValueIs DEF Fields
<1>3. a \in V /\ TRUE \in V /\ Nothing \in V /\ g \in V
  BY <1>2
<1> HIDE DEF V, f, g
<1>4. [s EXCEPT ![s.pending] = a, !.pending = Nothing] \in [Fields -> V]
  BY <1>1, <1>3
<1>5. [s EXCEPT ![f] = TRUE] \in [Fields -> V]
  BY <1>1, <1>3
<1>6. [s EXCEPT !.pending = g] \in [Fields -> V]
  BY <1>1, <1>3
<1> QED
  BY <1>4, <1>5, <1>6 DEF ReadOption, Settings, V, f, g

\* No option is set at first.
LEMMA NoOptionsIs ==
  ASSUME NEW T
  PROVE  NoOptions \in Settings(T)
<1> DEFINE V == {FALSE, <<>>, Nothing}
<1>1. DOMAIN NoOptions = Fields
  BY DEF NoOptions, Fields
<1>2. NoOptions = [x \in Fields |-> NoOptions[x]]
  BY <1>1 DEF NoOptions
<1>3. /\ NoOptions["fast"] = FALSE /\ NoOptions["cold"] = FALSE /\ NoOptions["yolo"] = FALSE
      /\ NoOptions["pending"] = Nothing /\ NoOptions["cmd"] = <<>> /\ NoOptions["name"] = <<>>
      /\ NoOptions["nodes"] = <<>> /\ NoOptions["edges"] = <<>>
  BY DEF NoOptions
<1>4. \A x \in Fields : NoOptions[x] \in V
  BY <1>3, Zenon DEF Fields
<1>5. V \subseteq BOOLEAN \cup T \cup {<<>>} \cup Fields \cup {Nothing}
  OBVIOUS
<1> HIDE DEF V
<1>6. \A x \in Fields : NoOptions[x] \in BOOLEAN \cup T \cup {<<>>} \cup Fields \cup {Nothing}
  BY <1>4, <1>5
<1> QED
  BY <1>2, <1>6, Zenon DEF Settings

\* c has the settings after each turn of the loop.
ReadBy(name, words, c) ==
  /\ c[0] = NoOptions
  /\ \A n \in 1..Len(words) : c[n] = ReadOption(name, c[n - 1], words[n])
  /\ OptionsIn(name, words) = [c[Len(words)] EXCEPT !.pending = Nothing]

\* There are settings after each turn.
LEMMA OptionsTurns ==
  ASSUME NEW T, NEW name, NEW words \in Seq(T)
  PROVE  \E c : ReadBy(name, words, c)
<1> DEFINE N == Len(words)
           S == Settings(T)
           a == NoOptions
           read[n \in 0..N] == IF n = 0 THEN NoOptions ELSE ReadOption(name, read[n - 1], words[n])
           h == [n \in 1..N |-> [s \in S |-> ReadOption(name, s, words[n])]]
<1>1. N \in Nat
  OBVIOUS
<1>2. \A n \in 1..N : \A s \in S : ReadOption(name, s, words[n]) \in S
  <2>1. ASSUME NEW n \in 1..N, NEW s \in S PROVE ReadOption(name, s, words[n]) \in S
    <3> DEFINE w == words[n]
    <3>1. w \in T
      BY <1>1
    <3> HIDE DEF w
    <3>2. ReadOption(name, s, w) \in S
      BY <3>1, ReadOptionIs
    <3> QED
      BY <3>2 DEF w
  <2> QED
    BY <2>1
<1>3. Steps(h, N, S)
  BY <1>2 DEF Steps
<1>4. \A n \in 1..N : \A s \in S : h[n][s] = ReadOption(name, s, words[n])
  OBVIOUS
<1>5. OptionsIn(name, words) = [read[Len(words)] EXCEPT !.pending = Nothing]
  BY DEF OptionsIn
<1>6. a \in S
  BY NoOptionsIs
<1> HIDE DEF h, S, N, a
<1>7. \E f : Turns(f, a, h, N, S)
  BY <1>1, <1>3, <1>6, Loop
<1>8. read = [n \in 0..N |-> IF n = 0 THEN NoOptions ELSE ReadOption(name, read[n - 1], words[n])]
  <2>1. PICK f : Turns(f, a, h, N, S)
    BY <1>7
  <2> DEFINE E(n) == IF n = 0 THEN NoOptions ELSE ReadOption(name, f[n - 1], words[n])
  <2>2. ASSUME NEW n \in 0..N
        PROVE  f[n] = E(n)
    <3>1. CASE n = 0
      BY <2>1, <3>1 DEF Turns, a
    <3>2. CASE n # 0
      <4>1. n \in 1..N /\ n - 1 \in 0..N
        BY <1>1, <3>2
      <4>2. f[n] = h[n][f[n - 1]] /\ f[n - 1] \in S
        BY <2>1, <4>1 DEF Turns
      <4> QED
        BY <1>4, <3>2, <4>1, <4>2
    <3> QED
      BY <3>1, <3>2
  <2>3. f \in [0..N -> S]
    BY <2>1 DEF Turns
  <2> HIDE DEF E
  <2>4. f = [n \in 0..N |-> E(n)]
    BY <2>2, <2>3
  <2>5. f = [n \in 0..N |-> IF n = 0 THEN NoOptions ELSE ReadOption(name, f[n - 1], words[n])]
    BY <2>4 DEF E
  <2> QED
    BY <2>5
<1> HIDE DEF read
<1>9. read[0] = a /\ \A n \in 1..N : read[n] = ReadOption(name, read[n - 1], words[n])
  <2>1. 0 \in 0..N /\ \A n \in 1..N : n \in 0..N /\ n # 0
    BY <1>1
  <2> QED
    BY <1>8, <2>1 DEF a
<1> QED
  BY <1>5, <1>9 DEF N, a, ReadBy

-----------------------------------------------------------------------------
(* What the options of a command say.                                      *)

Has(c, names, many) == \E n \in 1..many : c.options[n][1] \in names
ValueIn(c, names, many) ==
  IF Has(c, names, many)
  THEN c.options[CHOOSE n \in 1..many : c.options[n][1] \in names][2] ELSE <<>>

\* What they say, field by field.
LEMMA SaidIs ==
  ASSUME NEW c, NEW many
  PROVE  Said(c, many) =
           [fast |-> c.name = Bench /\ Has(c, FastNames, many),
            cold |-> c.name = Bench /\ Has(c, ColdNames, many),
            yolo |-> c.name # Bench /\ Has(c, YoloNames, many),
            pending |-> Nothing,
            cmd |-> ValueIn(c, CmdNames, many), name |-> ValueIn(c, NameNames, many),
            nodes |-> ValueIn(c, NodesNames, many), edges |-> ValueIn(c, EdgesNames, many)]
BY Zenon DEF Said, Has, ValueIn, Bench, FastNames, ColdNames, YoloNames, CmdNames, NameNames,
  NodesNames, EdgesNames

\* One of more options has a name, or the last of them.
LEMMA HasNext ==
  ASSUME NEW c, NEW names, NEW j \in Nat
  PROVE  Has(c, names, j + 1) <=> Has(c, names, j) \/ c.options[j + 1][1] \in names
<1>1. \A n : n \in 1..j + 1 <=> n \in 1..j \/ n = j + 1
  OBVIOUS
<1> QED
  BY <1>1, Zenon DEF Has

\* The name is one that no two options have.
Single(c, names) ==
  \A a, b \in 1..Len(c.options) :
    c.options[a][1] \in names /\ c.options[b][1] \in names => a = b

\* Then its value is that of any option that has it.
LEMMA ValueOfSingle ==
  ASSUME NEW c, NEW names, Single(c, names), NEW j \in Nat, 1..j \subseteq 1..Len(c.options)
  PROVE  /\ \A n \in 1..j : c.options[n][1] \in names => ValueIn(c, names, j) = c.options[n][2]
         /\ ~Has(c, names, j) => ValueIn(c, names, j) = <<>>
<1>1. ASSUME NEW n \in 1..j, c.options[n][1] \in names
      PROVE  ValueIn(c, names, j) = c.options[n][2]
  <2> DEFINE m == CHOOSE k \in 1..j : c.options[k][1] \in names
  <2>1. m \in 1..j /\ c.options[m][1] \in names
    BY <1>1, Zenon
  <2>2. Has(c, names, j)
    BY <1>1, Zenon DEF Has
  <2>3. ValueIn(c, names, j) = c.options[m][2]
    BY <2>2, Zenon DEF ValueIn
  <2> HIDE DEF m
  <2>4. m = n
    BY <1>1, <2>1, Zenon DEF Single
  <2> QED
    BY <2>3, <2>4
<1>2. ~Has(c, names, j) => ValueIn(c, names, j) = <<>>
  BY Zenon DEF ValueIn
<1> QED
  BY <1>1, <1>2

\* An option more has its own value, or leaves the value as it is.
LEMMA ValueNext ==
  ASSUME NEW c, NEW names, Single(c, names), NEW j \in Nat, j + 1 \in 1..Len(c.options),
         Len(c.options) \in Nat
  PROVE  ValueIn(c, names, j + 1) =
           IF c.options[j + 1][1] \in names THEN c.options[j + 1][2] ELSE ValueIn(c, names, j)
<1>1. PICK k : k = j + 1 /\ k \in Nat /\ k \in 1..k
  OBVIOUS
<1>2. \A n : n \in 1..k <=> n \in 1..j \/ n = k
  BY <1>1
<1>3. PICK l \in Nat : l = Len(c.options)
  OBVIOUS
<1>4. 1..j \subseteq 1..l /\ 1..k \subseteq 1..l
  <2>1. k \in 1..l
    BY <1>1, <1>3
  <2>2. \A n \in 1..k : n \in 1..l
    BY <1>1, <2>1
  <2> QED
    BY <1>2, <2>2
<1>5. CASE c.options[k][1] \in names
  BY <1>1, <1>3, <1>4, <1>5, ValueOfSingle
<1>6. CASE c.options[k][1] \notin names
  <2>1. CASE Has(c, names, j)
    <3>1. PICK n \in 1..j : c.options[n][1] \in names
      BY <2>1, Zenon DEF Has
    <3>2. n \in 1..k
      BY <1>2
    <3>3. ValueIn(c, names, j) = c.options[n][2] /\ ValueIn(c, names, k) = c.options[n][2]
      BY <1>1, <1>3, <1>4, <3>1, <3>2, ValueOfSingle
    <3> QED
      BY <1>1, <1>6, <3>3
  <2>2. CASE ~Has(c, names, j)
    <3>1. ~Has(c, names, k)
      BY <1>1, <1>6, <2>2, HasNext
    <3>2. ValueIn(c, names, j) = <<>> /\ ValueIn(c, names, k) = <<>>
      BY <1>1, <1>3, <1>4, <2>2, <3>1, ValueOfSingle
    <3> QED
      BY <1>1, <1>6, <3>2
  <2> QED
    BY <2>1, <2>2
<1> QED
  BY <1>1, <1>5, <1>6

\* Each option of a complete command is a flag, or has a value.
LEMMA CompleteIs ==
  ASSUME NEW c \in Command, Complete(c), NEW n \in 1..Len(c.options)
  PROVE  LET o == c.options[n]
             flag == FlagOf(c.name, o[1])
             value == ValueOf(c.name, o[1])
         IN  /\ o \in Seq(Word)
             /\ \/ Len(o) = 1 /\ flag \in {"fast", "cold", "yolo"}
                \/ Len(o) = 2 /\ o[2] # <<>> /\ value \in {"cmd", "name", "nodes", "edges"}
                   /\ \A m \in 1..Len(c.options) :
                        ValueOf(c.name, c.options[m][1]) = value => m = n
<1> DEFINE o == c.options[n]
           flag == FlagOf(c.name, o[1])
           value == ValueOf(c.name, o[1])
<1>1. c.options \in Seq(Seq(Word)) /\ n \in DOMAIN c.options /\ DOMAIN c.options = 1..Len(c.options)
  BY DEF Command
<1>2. o \in Seq(Word)
  <2> DEFINE S == Seq(Word)
  <2>1. c.options \in Seq(S)
    BY <1>1
  <2> HIDE DEF S
  <2>2. o \in S
    BY <1>1, <2>1
  <2> QED
    BY <2>2 DEF S
<1>3. \/ Len(o) = 1 /\ flag # Nothing
      \/ Len(o) = 2 /\ o[2] # <<>> /\ value # Nothing
         /\ \A m \in DOMAIN c.options \ {n} : ValueOf(c.name, c.options[m][1]) # value
  BY <1>1, Zenon DEF Complete
<1>4. flag \in {"fast", "cold", "yolo", Nothing} /\ value \in {"cmd", "name", "nodes", "edges", Nothing}
  BY FlagIs, ValueIs
<1> HIDE DEF o, flag, value
<1>5. (\A m \in DOMAIN c.options \ {n} : ValueOf(c.name, c.options[m][1]) # value)
        => \A m \in 1..Len(c.options) : ValueOf(c.name, c.options[m][1]) = value => m = n
  BY <1>1, Zenon
<1> QED
  BY <1>2, <1>3, <1>4, <1>5, Zenon DEF o, flag, value

\* Each option with a value is there once.
LEMMA CompleteSingle ==
  ASSUME NEW c \in Command, Complete(c)
  PROVE  /\ Single(c, CmdNames) /\ Single(c, NameNames) /\ Single(c, NodesNames)
         /\ Single(c, EdgesNames)
<1> DEFINE first(n) == c.options[n][1]
           value(n) == ValueOf(c.name, first(n))
           flag(n) == FlagOf(c.name, first(n))
           J == Len(c.options)
<1>1. ASSUME NEW n \in 1..J
      PROVE  \/ flag(n) \in {"fast", "cold", "yolo"}
             \/ /\ value(n) \in {"cmd", "name", "nodes", "edges"}
                /\ \A m \in 1..J : value(m) = value(n) => m = n
  BY CompleteIs
<1>2. ASSUME NEW n \in 1..J
      PROVE  /\ flag(n) \in {"fast", "cold", "yolo"} =>
                  first(n) \in FastNames \cup ColdNames \cup YoloNames
             /\ value(n) = "cmd" => first(n) \in CmdNames
             /\ value(n) = "name" => first(n) \in NameNames
             /\ value(n) = "nodes" => first(n) \in NodesNames
             /\ value(n) = "edges" => first(n) \in EdgesNames
  <2> DEFINE x == first(n)
  <2> HIDE DEF x
  <2>1. LET f == FlagOf(c.name, x)
        IN  /\ f = "fast" <=> c.name = Bench /\ x \in FastNames
            /\ f = "cold" <=> c.name = Bench /\ x \in ColdNames
            /\ f = "yolo" <=> c.name = Load /\ x \in YoloNames
    BY FlagIs, Zenon
  <2>2. LET f == ValueOf(c.name, x)
        IN  /\ f = "cmd" <=> c.name = Bench /\ x \in CmdNames
            /\ f = "name" <=> c.name = Bench /\ x \in NameNames
            /\ f = "nodes" <=> c.name # Bench /\ x \in NodesNames
            /\ f = "edges" <=> c.name # Bench /\ x \in EdgesNames
    BY ValueIs, Zenon
  <2> QED
    BY <2>1, <2>2, Zenon DEF x
<1> HIDE DEF first, value, flag
<1>3. ASSUME NEW n \in 1..J
      PROVE  /\ first(n) \in CmdNames => value(n) = "cmd" /\ \A m \in 1..J : value(m) = value(n) => m = n
             /\ first(n) \in NameNames => value(n) = "name" /\ \A m \in 1..J : value(m) = value(n) => m = n
             /\ first(n) \in NodesNames => value(n) = "nodes" /\ \A m \in 1..J : value(m) = value(n) => m = n
             /\ first(n) \in EdgesNames => value(n) = "edges" /\ \A m \in 1..J : value(m) = value(n) => m = n
  <2> DEFINE x == first(n)
             once == \A m \in 1..J : value(m) = value(n) => m = n
  <2>1. \/ x \in FastNames \cup ColdNames \cup YoloNames
        \/ once /\ value(n) = "cmd" /\ x \in CmdNames
        \/ once /\ value(n) = "name" /\ x \in NameNames
        \/ once /\ value(n) = "nodes" /\ x \in NodesNames
        \/ once /\ value(n) = "edges" /\ x \in EdgesNames
    BY <1>1, <1>2, Zenon
  <2> HIDE DEF x, once
  <2>2. \/ x \notin CmdNames \cup NameNames \cup NodesNames \cup EdgesNames
        \/ once /\ value(n) = "cmd" /\ x \notin NameNames \cup NodesNames \cup EdgesNames
        \/ once /\ value(n) = "name" /\ x \notin CmdNames \cup NodesNames \cup EdgesNames
        \/ once /\ value(n) = "nodes" /\ x \notin CmdNames \cup NameNames \cup EdgesNames
        \/ once /\ value(n) = "edges" /\ x \notin CmdNames \cup NameNames \cup NodesNames
    BY <2>1, NamesApart
  <2> QED
    BY <2>2, Zenon DEF x, once
<1> QED
  BY <1>3, Zenon DEF Single, first

\* The settings when a command says so much.
Settled(fast, cold, yolo, cmd, name, nodes, edges) ==
  [fast |-> fast, cold |-> cold, yolo |-> yolo, pending |-> Nothing,
   cmd |-> cmd, name |-> name, nodes |-> nodes, edges |-> edges]

\* An option with its value: two turns of the loop.
Given(s, f, v) == [[s EXCEPT !.pending = f] EXCEPT ![f] = v, !.pending = Nothing]

\* Settings change one at a time.
LEMMA SettledNext ==
  ASSUME NEW fast, NEW cold, NEW yolo, NEW cmd, NEW name, NEW nodes, NEW edges, NEW v, NEW s,
         s = Settled(fast, cold, yolo, cmd, name, nodes, edges)
  PROVE  /\ [s EXCEPT !["fast"] = v] = Settled(v, cold, yolo, cmd, name, nodes, edges)
         /\ [s EXCEPT !["cold"] = v] = Settled(fast, v, yolo, cmd, name, nodes, edges)
         /\ [s EXCEPT !["yolo"] = v] = Settled(fast, cold, v, cmd, name, nodes, edges)
         /\ Given(s, "cmd", v) = Settled(fast, cold, yolo, v, name, nodes, edges)
         /\ Given(s, "name", v) = Settled(fast, cold, yolo, cmd, v, nodes, edges)
         /\ Given(s, "nodes", v) = Settled(fast, cold, yolo, cmd, name, v, edges)
         /\ Given(s, "edges", v) = Settled(fast, cold, yolo, cmd, name, nodes, v)
<1>1. [s EXCEPT !["fast"] = v] = Settled(v, cold, yolo, cmd, name, nodes, edges)
  BY DEF Settled
<1>2. [s EXCEPT !["cold"] = v] = Settled(fast, v, yolo, cmd, name, nodes, edges)
  BY DEF Settled
<1>3. [s EXCEPT !["yolo"] = v] = Settled(fast, cold, v, cmd, name, nodes, edges)
  BY DEF Settled
<1>4. [s EXCEPT !["cmd"] = v] = Settled(fast, cold, yolo, v, name, nodes, edges)
  BY DEF Settled
<1>5. [s EXCEPT !["name"] = v] = Settled(fast, cold, yolo, cmd, v, nodes, edges)
  BY DEF Settled
<1>6. [s EXCEPT !["nodes"] = v] = Settled(fast, cold, yolo, cmd, name, v, edges)
  BY DEF Settled
<1>7. [s EXCEPT !["edges"] = v] = Settled(fast, cold, yolo, cmd, name, nodes, v)
  BY DEF Settled
<1>8. s.pending = Nothing /\ s = [x \in Fields |-> s[x]]
  BY DEF Settled, Fields
<1>9. ASSUME NEW f \in Fields, f # "pending" PROVE Given(s, f, v) = [s EXCEPT ![f] = v]
  BY ONLY <1>8, <1>9 DEF Given
<1>10. "pending" \notin {"cmd", "name", "nodes", "edges"} /\ {"cmd", "name", "nodes", "edges"} \subseteq Fields
  BY DEF Fields
<1> QED
  BY ONLY <1>1, <1>2, <1>3, <1>4, <1>5, <1>6, <1>7, <1>9, <1>10

\* What options say, field by field.
LEMMA SaidSettled ==
  ASSUME NEW c, NEW j
  PROVE  Said(c, j) = Settled(c.name = Bench /\ Has(c, FastNames, j),
                              c.name = Bench /\ Has(c, ColdNames, j),
                              c.name # Bench /\ Has(c, YoloNames, j),
                              ValueIn(c, CmdNames, j), ValueIn(c, NameNames, j),
                              ValueIn(c, NodesNames, j), ValueIn(c, EdgesNames, j))
BY SaidIs, Zenon DEF Settled

\* No options say nothing.
LEMMA SaidAtFirst ==
  ASSUME NEW c
  PROVE  Said(c, 0) = NoOptions
<1>1. \A names : ~Has(c, names, 0)
  <2>1. \A n : n \notin 1..0
    OBVIOUS
  <2> QED
    BY <2>1, Zenon DEF Has
<1>2. \A names : ValueIn(c, names, 0) = <<>>
  BY <1>1, Zenon DEF ValueIn
<1>3. \A A, names : (A /\ Has(c, names, 0)) = FALSE
  BY <1>1
<1> QED
  BY <1>2, <1>3, SaidIs DEF NoOptions

\* A flag more is set, and nothing else.
LEMMA SaidFlag ==
  ASSUME NEW c \in Command, Complete(c), NEW j \in Nat, j + 1 \in 1..Len(c.options), NEW f,
         f = FlagOf(c.name, c.options[j + 1][1]), f \in {"fast", "cold", "yolo"}
  PROVE  Said(c, j + 1) = [Said(c, j) EXCEPT ![f] = TRUE]
<1> DEFINE x == c.options[j + 1][1]
<1>1. /\ f = "fast" <=> c.name = Bench /\ x \in FastNames
      /\ f = "cold" <=> c.name = Bench /\ x \in ColdNames
      /\ f = "yolo" <=> c.name = Load /\ x \in YoloNames
  BY FlagIs
<1>2. Len(c.options) \in Nat
  BY DEF Command
<1>3. /\ Has(c, FastNames, j + 1) <=> Has(c, FastNames, j) \/ x \in FastNames
      /\ Has(c, ColdNames, j + 1) <=> Has(c, ColdNames, j) \/ x \in ColdNames
      /\ Has(c, YoloNames, j + 1) <=> Has(c, YoloNames, j) \/ x \in YoloNames
  BY HasNext
<1>4. \A names \in {CmdNames, NameNames, NodesNames, EdgesNames} :
        Single(c, names) /\ (x \notin names => ValueIn(c, names, j + 1) = ValueIn(c, names, j))
  <2>1. \A names \in {CmdNames, NameNames, NodesNames, EdgesNames} : Single(c, names)
    BY CompleteSingle
  <2> QED
    BY <1>2, <2>1, ValueNext
<1> HIDE DEF x
<1>5. x \notin CmdNames \cup NameNames \cup NodesNames \cup EdgesNames
  BY <1>1, NamesApart
<1>6. /\ ValueIn(c, CmdNames, j + 1) = ValueIn(c, CmdNames, j)
      /\ ValueIn(c, NameNames, j + 1) = ValueIn(c, NameNames, j)
      /\ ValueIn(c, NodesNames, j + 1) = ValueIn(c, NodesNames, j)
      /\ ValueIn(c, EdgesNames, j + 1) = ValueIn(c, EdgesNames, j)
  BY <1>4, <1>5
<1> DEFINE fast(k) == c.name = Bench /\ Has(c, FastNames, k)
           cold(k) == c.name = Bench /\ Has(c, ColdNames, k)
           yolo(k) == c.name # Bench /\ Has(c, YoloNames, k)
<1>7. /\ fast(j + 1) = (IF f = "fast" THEN TRUE ELSE fast(j))
      /\ cold(j + 1) = (IF f = "cold" THEN TRUE ELSE cold(j))
      /\ yolo(j + 1) = (IF f = "yolo" THEN TRUE ELSE yolo(j))
  <2>1. fast(j + 1) <=> f = "fast" \/ fast(j)
    BY <1>1, <1>3, Zenon
  <2>2. cold(j + 1) <=> f = "cold" \/ cold(j)
    BY <1>1, <1>3, Zenon
  <2>3. yolo(j + 1) <=> f = "yolo" \/ yolo(j)
    <3>1. f = "yolo" => c.name # Bench
      BY <1>1, LoadIsNotBench, Zenon
    <3>2. f \in {"fast", "cold"} => c.name = Bench
      BY <1>1, Zenon
    <3>3. f \in {"fast", "cold"} \/ f = "yolo"
      OBVIOUS
    <3> QED
      BY <1>1, <1>3, <3>1, <3>2, <3>3, Zenon
  <2> QED
    BY <2>1, <2>2, <2>3, Zenon
<1>8. \A k : Said(c, k) = Settled(fast(k), cold(k), yolo(k),
                ValueIn(c, CmdNames, k), ValueIn(c, NameNames, k),
                ValueIn(c, NodesNames, k), ValueIn(c, EdgesNames, k))
  BY SaidSettled
<1> HIDE DEF fast, cold, yolo
<1>9. PICK fast1, cold1, yolo1 : fast1 = fast(j) /\ cold1 = cold(j) /\ yolo1 = yolo(j)
  OBVIOUS
<1>10. PICK cmd1, name1, nodes1, edges1 :
         /\ cmd1 = ValueIn(c, CmdNames, j) /\ name1 = ValueIn(c, NameNames, j)
         /\ nodes1 = ValueIn(c, NodesNames, j) /\ edges1 = ValueIn(c, EdgesNames, j)
  OBVIOUS
<1>11. Said(c, j) = Settled(fast1, cold1, yolo1, cmd1, name1, nodes1, edges1)
  BY <1>8, <1>9, <1>10
<1>12. Said(c, j + 1) = Settled(IF f = "fast" THEN TRUE ELSE fast1, IF f = "cold" THEN TRUE ELSE cold1,
                                IF f = "yolo" THEN TRUE ELSE yolo1, cmd1, name1, nodes1, edges1)
  BY <1>6, <1>7, <1>8, <1>9, <1>10
<1>13. CASE f = "fast"
  <2>1. Said(c, j + 1) = Settled(TRUE, cold1, yolo1, cmd1, name1, nodes1, edges1)
    BY <1>12, <1>13
  <2>2. PICK yes : yes = TRUE
    OBVIOUS
  <2>3. [Settled(fast1, cold1, yolo1, cmd1, name1, nodes1, edges1) EXCEPT !["fast"] = yes]
          = Settled(yes, cold1, yolo1, cmd1, name1, nodes1, edges1)
    BY DEF Settled
  <2> QED
    BY <1>11, <1>13, <2>1, <2>2, <2>3
<1>14. CASE f = "cold"
  <2>1. Said(c, j + 1) = Settled(fast1, TRUE, yolo1, cmd1, name1, nodes1, edges1)
    BY <1>12, <1>14
  <2>2. PICK yes : yes = TRUE
    OBVIOUS
  <2>3. [Settled(fast1, cold1, yolo1, cmd1, name1, nodes1, edges1) EXCEPT !["cold"] = yes]
          = Settled(fast1, yes, yolo1, cmd1, name1, nodes1, edges1)
    BY DEF Settled
  <2> QED
    BY <1>11, <1>14, <2>1, <2>2, <2>3
<1>15. CASE f = "yolo"
  <2>1. Said(c, j + 1) = Settled(fast1, cold1, TRUE, cmd1, name1, nodes1, edges1)
    BY <1>12, <1>15
  <2>2. PICK yes : yes = TRUE
    OBVIOUS
  <2>3. [Settled(fast1, cold1, yolo1, cmd1, name1, nodes1, edges1) EXCEPT !["yolo"] = yes]
          = Settled(fast1, cold1, yes, cmd1, name1, nodes1, edges1)
    BY DEF Settled
  <2> QED
    BY <1>11, <1>15, <2>1, <2>2, <2>3
<1> QED
  BY <1>13, <1>14, <1>15

\* A value more is given, and nothing else.
LEMMA SaidValue ==
  ASSUME NEW c \in Command, Complete(c), NEW j \in Nat, j + 1 \in 1..Len(c.options), NEW f,
         f = ValueOf(c.name, c.options[j + 1][1]), f \in {"cmd", "name", "nodes", "edges"}
  PROVE  Said(c, j + 1) = Given(Said(c, j), f, c.options[j + 1][2])
<1> DEFINE x == c.options[j + 1][1]
           v == c.options[j + 1][2]
<1>1. /\ f = "cmd" <=> c.name = Bench /\ x \in CmdNames
      /\ f = "name" <=> c.name = Bench /\ x \in NameNames
      /\ f = "nodes" <=> c.name # Bench /\ x \in NodesNames
      /\ f = "edges" <=> c.name # Bench /\ x \in EdgesNames
  BY ValueIs
<1>2. Len(c.options) \in Nat
  BY DEF Command
<1>3. /\ Has(c, FastNames, j + 1) <=> Has(c, FastNames, j) \/ x \in FastNames
      /\ Has(c, ColdNames, j + 1) <=> Has(c, ColdNames, j) \/ x \in ColdNames
      /\ Has(c, YoloNames, j + 1) <=> Has(c, YoloNames, j) \/ x \in YoloNames
  BY HasNext
<1>4. \A names \in {CmdNames, NameNames, NodesNames, EdgesNames} :
        ValueIn(c, names, j + 1) = IF x \in names THEN v ELSE ValueIn(c, names, j)
  <2>1. \A names \in {CmdNames, NameNames, NodesNames, EdgesNames} : Single(c, names)
    BY CompleteSingle
  <2> QED
    BY <1>2, <2>1, ValueNext
<1> HIDE DEF x, v
<1>5. /\ x \notin FastNames \cup ColdNames \cup YoloNames
      /\ x \in CmdNames <=> f = "cmd"
      /\ x \in NameNames <=> f = "name"
      /\ x \in NodesNames <=> f = "nodes"
      /\ x \in EdgesNames <=> f = "edges"
  BY <1>1, NamesApart
<1>6. /\ ValueIn(c, CmdNames, j + 1) = (IF f = "cmd" THEN v ELSE ValueIn(c, CmdNames, j))
      /\ ValueIn(c, NameNames, j + 1) = (IF f = "name" THEN v ELSE ValueIn(c, NameNames, j))
      /\ ValueIn(c, NodesNames, j + 1) = (IF f = "nodes" THEN v ELSE ValueIn(c, NodesNames, j))
      /\ ValueIn(c, EdgesNames, j + 1) = (IF f = "edges" THEN v ELSE ValueIn(c, EdgesNames, j))
  BY <1>4, <1>5
<1> DEFINE fast(k) == c.name = Bench /\ Has(c, FastNames, k)
           cold(k) == c.name = Bench /\ Has(c, ColdNames, k)
           yolo(k) == c.name # Bench /\ Has(c, YoloNames, k)
<1>7. fast(j + 1) = fast(j) /\ cold(j + 1) = cold(j) /\ yolo(j + 1) = yolo(j)
  <2>1. fast(j + 1) <=> fast(j)
    BY <1>3, <1>5
  <2>2. cold(j + 1) <=> cold(j)
    BY <1>3, <1>5
  <2>3. yolo(j + 1) <=> yolo(j)
    BY <1>3, <1>5
  <2> QED
    BY <2>1, <2>2, <2>3, Zenon
<1>8. \A k : Said(c, k) = Settled(fast(k), cold(k), yolo(k),
                ValueIn(c, CmdNames, k), ValueIn(c, NameNames, k),
                ValueIn(c, NodesNames, k), ValueIn(c, EdgesNames, k))
  BY SaidSettled
<1> HIDE DEF fast, cold, yolo
<1>9. PICK fast1, cold1, yolo1 : fast1 = fast(j) /\ cold1 = cold(j) /\ yolo1 = yolo(j)
  OBVIOUS
<1>10. PICK cmd1, name1, nodes1, edges1 :
         /\ cmd1 = ValueIn(c, CmdNames, j) /\ name1 = ValueIn(c, NameNames, j)
         /\ nodes1 = ValueIn(c, NodesNames, j) /\ edges1 = ValueIn(c, EdgesNames, j)
  OBVIOUS
<1>11. PICK s : s = Settled(fast1, cold1, yolo1, cmd1, name1, nodes1, edges1)
  OBVIOUS
<1>12. Said(c, j) = s
  BY <1>8, <1>9, <1>10, <1>11
<1>13. Said(c, j + 1) = Settled(fast1, cold1, yolo1,
                                IF f = "cmd" THEN v ELSE cmd1, IF f = "name" THEN v ELSE name1,
                                IF f = "nodes" THEN v ELSE nodes1, IF f = "edges" THEN v ELSE edges1)
  BY <1>6, <1>7, <1>8, <1>9, <1>10
<1>14. /\ Given(s, "cmd", v) = Settled(fast1, cold1, yolo1, v, name1, nodes1, edges1)
       /\ Given(s, "name", v) = Settled(fast1, cold1, yolo1, cmd1, v, nodes1, edges1)
       /\ Given(s, "nodes", v) = Settled(fast1, cold1, yolo1, cmd1, name1, v, edges1)
       /\ Given(s, "edges", v) = Settled(fast1, cold1, yolo1, cmd1, name1, nodes1, v)
  BY <1>11, SettledNext
<1>15. Said(c, j + 1) = Given(s, f, v)
  BY <1>13, <1>14
<1> QED
  BY <1>12, <1>15 DEF v

-----------------------------------------------------------------------------
(* Options among the words of a command.                                   *)

\* When no word is empty, all are heard.
LEMMA HeardAll ==
  ASSUME NEW T, NEW words \in Seq(T), \A n \in 1..Len(words) : words[n] # <<>>
  PROVE  Heard(words) = words
<1> DEFINE k == Kept(words)
           P == {n \in 0..Len(words) : Ending(k, n) = Left(words, Len(words) + 1 - n)}
<1>1. PICK l \in Nat : l = Len(words)
  OBVIOUS
<1>2. /\ k \in Seq(Seq(T)) /\ Len(k) = l /\ Heard(words) = Ending(k, l)
      /\ \A n \in 1..l : k[n] = <<words[n]>>
  BY <1>1, KeptIs
<1> HIDE DEF k
<1>3. 0 \in P
  <2>1. Ending(k, 0) = <<>> /\ Left(words, l + 1) = <<>>
    BY <1>1, <1>2, EndingIs, LeftEnds
  <2> QED
    BY <1>1, <2>1
<1>4. ASSUME NEW n \in 1..l, n - 1 \in P PROVE n \in P
  <2>1. /\ l + 1 - n \in 1..l /\ (l + 1 - n) + 1 = l + 1 - (n - 1) /\ n \in 0..l
        /\ l + 1 - (l + 1 - n) = n
    BY <1>1
  <2> DEFINE m == l + 1 - n
  <2> HIDE DEF m
  <2>2. Ending(k, n) = k[m] \o Ending(k, n - 1)
    BY <1>2, <2>1, EndingIs DEF m
  <2>3. Ending(k, n - 1) = Left(words, m + 1)
    BY <1>1, <1>4, <2>1 DEF m
  <2>4. Left(words, m) = <<words[m]>> \o Left(words, m + 1)
    BY <1>1, <2>1, LeftNext DEF m
  <2>5. Ending(k, n) = Left(words, l + 1 - n)
    BY <1>2, <2>1, <2>2, <2>3, <2>4 DEF m
  <2> QED
    BY <1>1, <2>1, <2>5
<1> HIDE DEF P
<1>5. 0..l \subseteq P
  BY <1>1, <1>3, <1>4, Climb
<1>6. Ending(k, l) = Left(words, l + 1 - l)
  BY <1>1, <1>5 DEF P
<1> QED
  BY <1>1, <1>2, <1>6, LeftEnds

\* After a sequence, what follows it is left.
LEMMA LeftAfter ==
  ASSUME NEW T, NEW p \in Seq(T), NEW o \in Seq(T), NEW n, n = Len(p) + 1
  PROVE  Left(p \o o, n) = o
<1> DEFINE s == p \o o
           y == Left(s, n)
<1>1. PICK k \in Nat, l \in Nat : k = Len(p) /\ l = Len(o)
  OBVIOUS
<1>2. s \in Seq(T) /\ Len(s) = k + l /\ \A m \in 1..l : s[k + m] = o[m]
  BY <1>1, Concat
<1> HIDE DEF s
<1>3. n = k + 1 /\ n \in 1..Len(s) + 1 /\ Len(s) + 1 - n = l
  BY <1>1, <1>2
<1>4. y \in Seq(T) /\ Len(y) = l /\ \A m \in 1..l : y[m] = s[n + m - 1]
  BY <1>2, <1>3, LeftIs
<1>5. \A m \in 1..l : n + m - 1 = k + m
  BY <1>1, <1>3
<1> HIDE DEF y
<1>6. \A m \in 1..l : y[m] = o[m]
  BY <1>2, <1>4, <1>5
<1>7. y = o
  BY <1>1, <1>4, <1>6, SameElements
<1> QED
  BY <1>7 DEF y, s

\* A sequence is one over any set that has its elements.
LEMMA NarrowSeq ==
  ASSUME NEW S, NEW T, NEW s \in Seq(S), \A n \in 1..Len(s) : s[n] \in S => s[n] \in T
  PROVE  s \in Seq(T)
<1>1. PICK l \in Nat : l = Len(s) /\ s \in [1..l -> S]
  OBVIOUS
<1>2. s \in [1..l -> T]
  BY <1>1
<1> QED
  BY <1>2

\* A word that is not empty.
Heeded == Seq(Solid) \ {<<>>}

\* No word of a complete command is empty.
LEMMA CompleteTyped ==
  ASSUME NEW c \in Command, Complete(c)
  PROVE  /\ c.name \in Heeded /\ c.file \in Seq(Heeded) /\ c.options \in Seq(Seq(Heeded))
         /\ Len(c.options) \in Nat
         /\ Len(c.file) = IF c.name = Bench THEN 1 ELSE 0
<1>1. c.name \in Heeded
  <2>1. PICK m \in Meta : c.name = <<m>>
    BY DEF Command
  <2>2. m \in Solid
    BY Characters
  <2> QED
    BY <2>1, <2>2 DEF Heeded
<1>2. Word \subseteq Seq(Solid)
  <2>1. (Plain \cup Special) \ {";"} \subseteq Solid
    BY Characters
  <2> QED
    BY <2>1, WiderSeq DEF Word
<1>3. Len(c.file) = IF c.name = Bench THEN 1 ELSE 0
  BY Zenon DEF Complete, Bench
<1>4. c.file \in Seq(Heeded)
  <2>1. c.file \in Seq(Word) /\ \A n \in DOMAIN c.file : c.file[n] # <<>>
    BY DEF Command, Complete
  <2> QED
    BY <1>2, <2>1, NarrowSeq DEF Heeded
<1>5. ASSUME NEW n \in 1..Len(c.options) PROVE c.options[n] \in Seq(Heeded)
  <2> DEFINE o == c.options[n]
  <2>1. /\ o \in Seq(Word)
        /\ \/ Len(o) = 1 /\ FlagOf(c.name, o[1]) \in {"fast", "cold", "yolo"}
           \/ Len(o) = 2 /\ o[2] # <<>> /\ ValueOf(c.name, o[1]) \in {"cmd", "name", "nodes", "edges"}
    BY CompleteIs, Zenon
  <2> HIDE DEF o
  <2>2. FlagOf(c.name, o[1]) \in {"fast", "cold", "yolo"} => o[1] # <<>>
    <3> DEFINE x == o[1]
    <3> HIDE DEF x
    <3>1. FlagOf(c.name, x) \in {"fast", "cold", "yolo"} => x \in FastNames \cup ColdNames \cup YoloNames
      BY FlagIs
    <3> QED
      BY <3>1, NamesApart DEF x
  <2>3. ValueOf(c.name, o[1]) \in {"cmd", "name", "nodes", "edges"} => o[1] # <<>>
    <3> DEFINE x == o[1]
    <3> HIDE DEF x
    <3>1. ValueOf(c.name, x) \in {"cmd", "name", "nodes", "edges"}
            => x \in CmdNames \cup NameNames \cup NodesNames \cup EdgesNames
      BY ValueIs
    <3> QED
      BY <3>1, NamesApart DEF x
  <2>5. \A k \in 1..Len(o) : o[k] # <<>>
    <3>1. o[1] # <<>> /\ (Len(o) = 1 \/ (Len(o) = 2 /\ o[2] # <<>>))
      BY <2>1, <2>2, <2>3, Zenon
    <3> QED
      BY ONLY <3>1
  <2>7. o \in Seq(Heeded)
    BY <1>2, <2>1, <2>5, NarrowSeq DEF Heeded
  <2> QED
    BY <2>7 DEF o
<1>6. c.options \in Seq(Seq(Heeded)) /\ Len(c.options) \in Nat
  <2> DEFINE S == Seq(Heeded)
  <2>1. c.options \in Seq(Seq(Word))
    BY DEF Command
  <2>2. \A n \in 1..Len(c.options) : c.options[n] \in S
    BY <1>5
  <2>3. Len(c.options) \in Nat
    BY <2>1
  <2> HIDE DEF S
  <2>4. c.options \in Seq(S)
    BY <2>1, <2>2, NarrowSeq
  <2> QED
    BY <2>3, <2>4 DEF S
<1> QED
  BY <1>1, <1>3, <1>4, <1>6

\* All the words of a complete command are heard, and its options begin where
\* the loop over options does.
LEMMA CompleteWords ==
  ASSUME NEW c \in Command, Complete(c)
  PROVE  /\ Heard(Words(c)) = Words(c) /\ Joined(c.options) \in Seq(Heeded)
         /\ OptionsOf(Words(c)) = OptionsIn(c.name, Joined(c.options))
<1> DEFINE o == Joined(c.options)
           f == <<c.name>> \o c.file
           w == f \o o
<1>1. /\ c.name \in Heeded /\ c.file \in Seq(Heeded) /\ c.options \in Seq(Seq(Heeded))
      /\ Len(c.options) \in Nat /\ Len(c.file) = IF c.name = Bench THEN 1 ELSE 0
  BY CompleteTyped
<1>2. o \in Seq(Heeded)
  <2>1. Len(c.options) \in 0..Len(c.options)
    BY <1>1
  <2> QED
    BY <1>1, <2>1, EndingIs DEF Joined
<1>3. f \in Seq(Heeded) /\ Len(f) = Len(c.file) + 1 /\ f[1] = c.name
  BY <1>1, ConcatOne
<1>4. Len(f) + 1 = IF c.name = Bench THEN 3 ELSE 2
  BY <1>1, <1>3
<1> HIDE DEF f, o
<1>5. w \in Seq(Heeded) /\ Len(w) = Len(f) + Len(o) /\ \A k \in 1..Len(f) : w[k] = f[k]
  BY <1>2, <1>3, Concat, ZenonT(60)
<1>6. w[1] = c.name
  <2>1. 1 \in 1..Len(f)
    BY <1>4
  <2> QED
    BY <1>3, <1>5, <2>1
<1>7. Left(w, IF c.name = Bench THEN 3 ELSE 2) = o
  BY <1>2, <1>3, <1>4, LeftAfter
<1>8. Words(c) = w
  BY DEF Words, w, f, o
<1> HIDE DEF w
<1>9. \A n \in 1..Len(w) : w[n] # <<>>
  BY <1>5 DEF Heeded
<1>10. Heard(w) = w
  BY <1>5, <1>9, HeardAll
<1>11. OptionsOf(w) = OptionsIn(c.name, o)
  <2>1. OptionsOf(w) = OptionsIn(w[1], Left(w, IF w[1] = Bench THEN 3 ELSE 2))
    BY Zenon DEF OptionsOf, Left, Bench
  <2> QED
    BY <1>6, <1>7, <2>1
<1> QED
  BY <1>2, <1>8, <1>10, <1>11 DEF o

\* No word is both a flag and an option with a value.
LEMMA FlagOrValue ==
  ASSUME NEW name, NEW a, ValueOf(name, a) # Nothing
  PROVE  FlagOf(name, a) = Nothing
<1>1. a \in CmdNames \cup NameNames \cup NodesNames \cup EdgesNames
  BY ValueIs
<1>2. a \notin FastNames \cup ColdNames \cup YoloNames
  BY <1>1, NamesApart
<1> QED
  BY <1>2, FlagIs

\* One turn of the loop reads a flag.
LEMMA ReadFlag ==
  ASSUME NEW c \in Command, Complete(c), NEW j \in Nat, j + 1 \in 1..Len(c.options),
         FlagOf(c.name, c.options[j + 1][1]) \in {"fast", "cold", "yolo"}
  PROVE  ReadOption(c.name, Said(c, j), c.options[j + 1][1]) = Said(c, j + 1)
<1>1. PICK f : f = FlagOf(c.name, c.options[j + 1][1])
  OBVIOUS
<1>2. Said(c, j + 1) = [Said(c, j) EXCEPT ![f] = TRUE]
  BY <1>1, SaidFlag
<1>3. PICK s : s = Said(c, j)
  OBVIOUS
<1>4. s.pending = Nothing
  BY <1>3, SaidIs
<1>5. f # Nothing
  BY <1>1 DEF Nothing
<1>6. ReadOption(c.name, s, c.options[j + 1][1]) = [s EXCEPT ![f] = TRUE]
  BY <1>1, <1>4, <1>5, Zenon DEF ReadOption
<1> QED
  BY <1>2, <1>3, <1>6

\* Two turns read an option and its value.
LEMMA ReadValue ==
  ASSUME NEW c \in Command, Complete(c), NEW j \in Nat, j + 1 \in 1..Len(c.options),
         ValueOf(c.name, c.options[j + 1][1]) \in {"cmd", "name", "nodes", "edges"}
  PROVE  ReadOption(c.name, ReadOption(c.name, Said(c, j), c.options[j + 1][1]),
                    c.options[j + 1][2]) = Said(c, j + 1)
<1>1. PICK f : f = ValueOf(c.name, c.options[j + 1][1])
  OBVIOUS
<1>2. PICK s : s = Said(c, j)
  OBVIOUS
<1>3. PICK v : v = c.options[j + 1][2]
  OBVIOUS
<1>4. Said(c, j + 1) = Given(s, f, v)
  BY <1>1, <1>2, <1>3, SaidValue
<1>5. s.pending = Nothing /\ "pending" \in DOMAIN s
  BY <1>2, SaidIs
<1>6. f # Nothing /\ FlagOf(c.name, c.options[j + 1][1]) = Nothing
  <2>1. f # Nothing
    BY <1>1 DEF Nothing
  <2> QED
    BY <1>1, <2>1, FlagOrValue
<1> DEFINE t == [s EXCEPT !.pending = f]
<1>7. ReadOption(c.name, s, c.options[j + 1][1]) = t
  BY <1>1, <1>5, <1>6, Zenon DEF ReadOption
<1>8. t.pending = f
  BY <1>5
<1> HIDE DEF t
<1>9. ReadOption(c.name, t, v) = [t EXCEPT ![f] = v, !.pending = Nothing]
  BY <1>6, <1>8, Zenon DEF ReadOption
<1>10. ReadOption(c.name, t, v) = Given(s, f, v)
  BY <1>9 DEF Given, t
<1> QED
  BY <1>2, <1>3, <1>4, <1>7, <1>10

\* Sequences of one element and of two.
LEMMA ShortSeqs ==
  ASSUME NEW T, NEW s \in Seq(T)
  PROVE  /\ Len(s) = 1 => s[1] \in T /\ s = <<s[1]>>
         /\ Len(s) = 2 => s[1] \in T /\ s[2] \in T /\ s = <<s[1]>> \o <<s[2]>>
<1>1. ASSUME Len(s) = 1 PROVE s[1] \in T /\ s = <<s[1]>>
  <2>1. s[1] \in T /\ \A m \in 1..Len(s) : m = 1
    BY <1>1
  <2>2. <<s[1]>> \in Seq(T) /\ Len(<<s[1]>>) = 1 /\ <<s[1]>>[1] = s[1]
    BY <2>1
  <2> QED
    BY <1>1, <2>1, <2>2, SameElements
<1>2. ASSUME Len(s) = 2 PROVE s[1] \in T /\ s[2] \in T /\ s = <<s[1]>> \o <<s[2]>>
  <2>1. s[1] \in T /\ s[2] \in T /\ \A m \in 1..Len(s) : m = 1 \/ m = 2
    BY <1>2
  <2> DEFINE p == <<s[1]>> \o <<s[2]>>
  <2>2. p \in Seq(T) /\ Len(p) = 2 /\ p[1] = s[1] /\ p[2] = s[2]
    BY <2>1
  <2> HIDE DEF p
  <2>3. \A m \in 1..Len(s) : s[m] = p[m]
    BY <2>1, <2>2
  <2>4. s = p
    BY <1>2, <2>2, <2>3, SameElements
  <2> QED
    BY <2>1, <2>4 DEF p
<1> QED
  BY <1>1, <1>2

\* After some turns, the first j options are read and the others are left.
ReadUpTo(c, given, read, j) ==
  \E n \in 0..Len(given) :
    read[n] = Said(c, j) /\ Left(given, n + 1) = Ending(c.options, Len(c.options) - j)

\* What the loop has after each turn.
Loops(c, given, read) ==
  /\ given = Joined(c.options) /\ given \in Seq(Heeded) /\ read[0] = NoOptions
  /\ \A n \in 1..Len(given) : read[n] = ReadOption(c.name, read[n - 1], given[n])

\* What is left tells its first element, for all that may be left.
LEMMA LeftReads ==
  ASSUME NEW T, NEW t \in Seq(T)
  PROVE  \A a \in 1..Len(t) + 1, x \in T, s \in Seq(T) :
           Left(t, a) = <<x>> \o s => a \in 1..Len(t) /\ t[a] = x /\ Left(t, a + 1) = s
BY LeftStarts

\* Some turns more read the next option.
LEMMA ReadUpToNext ==
  ASSUME NEW c \in Command, Complete(c), NEW given, NEW read, Loops(c, given, read),
         NEW j \in Nat, j + 1 \in 1..Len(c.options), ReadUpTo(c, given, read, j)
  PROVE  ReadUpTo(c, given, read, j + 1)
<1>1. PICK k \in Nat : k = j + 1
  OBVIOUS
<1>2. /\ c.options \in Seq(Seq(Heeded)) /\ given \in Seq(Heeded)
      /\ \A n \in 1..Len(given) : read[n] = ReadOption(c.name, read[n - 1], given[n])
  BY CompleteTyped DEF Loops
<1>3. PICK J \in Nat, N \in Nat : J = Len(c.options) /\ N = Len(given)
  BY <1>2
<1>4. PICK n \in 0..N : read[n] = Said(c, j) /\ Left(given, n + 1) = Ending(c.options, J - j)
  BY <1>3 DEF ReadUpTo
<1> DEFINE o == c.options[k]
           r == Ending(c.options, J - k)
<1>5. k \in 1..J /\ J - j \in 1..J /\ (J - j) - 1 = J - k /\ J + 1 - (J - j) = k /\ J - k \in 0..J
  BY <1>1, <1>3
<1>6. Ending(c.options, J - j) = o \o r /\ r \in Seq(Heeded)
  BY <1>2, <1>3, <1>5, EndingIs
<1>7. o \in Seq(Heeded)
  <2> DEFINE S == Seq(Heeded)
  <2>1. c.options \in Seq(S)
    BY <1>2
  <2> HIDE DEF S
  <2>2. o \in S
    BY <1>3, <1>5, <2>1
  <2> QED
    BY <2>2 DEF S
<1>8. /\ \/ Len(o) = 1 /\ FlagOf(c.name, o[1]) \in {"fast", "cold", "yolo"}
         \/ Len(o) = 2 /\ ValueOf(c.name, o[1]) \in {"cmd", "name", "nodes", "edges"}
  BY <1>3, <1>5, CompleteIs, Zenon
<1>9. n + 1 \in 1..Len(given) + 1
  BY <1>3
<1>10. FlagOf(c.name, o[1]) \in {"fast", "cold", "yolo"}
         => ReadOption(c.name, Said(c, j), o[1]) = Said(c, k)
  BY <1>1, <1>3, <1>5, ReadFlag
<1>11. ValueOf(c.name, o[1]) \in {"cmd", "name", "nodes", "edges"}
         => ReadOption(c.name, ReadOption(c.name, Said(c, j), o[1]), o[2]) = Said(c, k)
  BY <1>1, <1>3, <1>5, ReadValue
<1> HIDE DEF o, r
<1>12. given \in Seq(Heeded) /\ r \in Seq(Heeded)
  BY <1>2, <1>6
<1>13. \A a \in 1..Len(given) + 1, x \in Heeded, s \in Seq(Heeded) :
         Left(given, a) = <<x>> \o s =>
           a \in 1..Len(given) /\ given[a] = x /\ Left(given, a + 1) = s
  BY <1>12, LeftReads
<1>14. CASE Len(o) = 1 /\ FlagOf(c.name, o[1]) \in {"fast", "cold", "yolo"}
  <2>1. PICK x : x = o[1]
    OBVIOUS
  <2>2. x \in Heeded /\ o = <<x>>
    BY <1>7, <1>14, <2>1, ShortSeqs
  <2>3. Left(given, n + 1) = <<x>> \o r
    BY <1>4, <1>6, <2>2
  <2>4. n + 1 \in 1..Len(given) /\ given[n + 1] = x /\ Left(given, (n + 1) + 1) = r
    BY <1>9, <1>12, <2>2, <2>3, <1>13
  <2>5. read[n + 1] = ReadOption(c.name, read[(n + 1) - 1], given[n + 1]) /\ (n + 1) - 1 = n
    BY <1>2, <2>4
  <2>6. read[n + 1] = Said(c, k)
    BY <1>4, <1>10, <1>14, <2>1, <2>4, <2>5
  <2>7. n + 1 \in 0..Len(given)
    BY <2>4
  <2> QED
    BY <1>1, <1>3, <2>4, <2>6, <2>7 DEF ReadUpTo, r
<1>15. CASE Len(o) = 2 /\ ValueOf(c.name, o[1]) \in {"cmd", "name", "nodes", "edges"}
  <2>1. PICK x, y : x = o[1] /\ y = o[2]
    OBVIOUS
  <2>2. x \in Heeded /\ y \in Heeded /\ o = <<x>> \o <<y>>
    BY <1>7, <1>15, <2>1, ShortSeqs
  <2> DEFINE m == <<y>> \o r
  <2>3. o \o r = <<x>> \o m
    <3>1. <<x>> \in Seq(Heeded) /\ <<y>> \in Seq(Heeded)
      BY <2>2
    <3>2. (<<x>> \o <<y>>) \o r = <<x>> \o (<<y>> \o r)
      BY <1>12, <3>1, SeqsAssociative
    <3> QED
      BY <2>2, <3>2
  <2>4. m \in Seq(Heeded)
    BY <1>12, <2>2, ConcatOne
  <2>5. Left(given, n + 1) = <<x>> \o m
    BY <1>4, <1>6, <2>3
  <2> HIDE DEF m
  <2>6. n + 1 \in 1..Len(given) /\ given[n + 1] = x /\ Left(given, (n + 1) + 1) = m
    BY <1>9, <1>12, <1>13, <2>2, <2>4, <2>5
  <2>7. PICK p \in Nat : p = n + 1 /\ p \in 0..Len(given) /\ p + 1 \in 1..Len(given) + 1 /\ p - 1 = n
    BY <1>3, <2>6
  <2>8. Left(given, p + 1) = <<y>> \o r
    BY <2>6, <2>7 DEF m
  <2>9. p + 1 \in 1..Len(given) /\ given[p + 1] = y /\ Left(given, (p + 1) + 1) = r
    BY <1>12, <1>13, <2>2, <2>7, <2>8
  <2>10. read[p] = ReadOption(c.name, Said(c, j), x)
    <3>1. read[p] = ReadOption(c.name, read[p - 1], given[p])
      BY <1>2, <2>6, <2>7
    <3> QED
      BY <1>4, <2>6, <2>7, <3>1
  <2>11. read[p + 1] = Said(c, k)
    <3>1. read[p + 1] = ReadOption(c.name, read[(p + 1) - 1], given[p + 1]) /\ (p + 1) - 1 = p
      BY <1>2, <2>9
    <3> QED
      BY <1>11, <1>15, <2>1, <2>9, <2>10, <3>1
  <2>12. p + 1 \in 0..Len(given)
    BY <2>9
  <2> QED
    BY <1>1, <1>3, <2>9, <2>11, <2>12 DEF ReadUpTo, r
<1> QED
  BY <1>8, <1>14, <1>15

\* The loop ends with what all the options of a command say.
LEMMA OptionsArrive ==
  ASSUME NEW c \in Command, Complete(c)
  PROVE  OptionsOf(Heard(Words(c))) = Said(c, Len(c.options))
<1>1. PICK given : given = Joined(c.options)
  OBVIOUS
<1>2. /\ given \in Seq(Heeded) /\ OptionsOf(Heard(Words(c))) = OptionsIn(c.name, given)
  BY <1>1, CompleteWords
<1>3. c.options \in Seq(Seq(Heeded))
  BY CompleteTyped
<1>4. PICK J \in Nat, N \in Nat : J = Len(c.options) /\ N = Len(given)
  BY <1>2, <1>3
<1>5. PICK read : ReadBy(c.name, given, read)
  BY <1>2, OptionsTurns
<1>6. Loops(c, given, read)
  BY <1>1, <1>2, <1>5, Zenon DEF Loops, ReadBy
<1> DEFINE P == {j \in 0..J : ReadUpTo(c, given, read, j)}
<1>7. 0 \in P
  <2>1. Left(given, 0 + 1) = given
    BY <1>2, LeftEnds
  <2>2. given = Ending(c.options, Len(c.options) - 0)
    BY <1>1, <1>4 DEF Joined
  <2>3. read[0] = Said(c, 0) /\ 0 \in 0..Len(given)
    BY <1>4, <1>5, SaidAtFirst DEF ReadBy
  <2>4. ReadUpTo(c, given, read, 0)
    BY <2>1, <2>2, <2>3 DEF ReadUpTo
  <2> QED
    BY <1>4, <2>4
<1>8. ASSUME NEW j \in 1..J, j - 1 \in P PROVE j \in P
  <2>1. PICK k \in Nat : k = j - 1 /\ k + 1 = j
    BY <1>4
  <2>2. k + 1 \in 1..Len(c.options) /\ ReadUpTo(c, given, read, k)
    BY <1>4, <1>8, <2>1
  <2>3. ReadUpTo(c, given, read, k + 1)
    BY <1>6, <2>2, ReadUpToNext
  <2> QED
    BY <1>4, <2>1, <2>3
<1> HIDE DEF P
<1>9. 0..J \subseteq P
  BY <1>4, <1>7, <1>8, Climb
<1>10. ReadUpTo(c, given, read, J)
  BY <1>4, <1>9 DEF P
<1>11. PICK n \in 0..N : read[n] = Said(c, J) /\ Left(given, n + 1) = Ending(c.options, J - J)
  BY <1>4, <1>10 DEF ReadUpTo
<1>12. n = N
  <2>1. Left(given, n + 1) = <<>>
    <3>1. Ending(c.options, 0) = <<>>
      BY <1>3, EndingIs
    <3> QED
      BY <1>4, <1>11, <3>1
  <2>2. n + 1 = Len(given) + 1
    <3>1. n + 1 \in 1..Len(given) + 1
      BY <1>4
    <3> QED
      BY <1>2, <2>1, <3>1, LeftEnds
  <2> QED
    BY <1>4, <2>2
<1>13. PICK s : s = Said(c, J)
  OBVIOUS
<1>14. [s EXCEPT !.pending = Nothing] = s
  BY <1>13, SaidIs
<1> QED
  BY <1>2, <1>4, <1>5, <1>11, <1>12, <1>13, <1>14 DEF ReadBy

\* Every command that has run has the options that its user gave.
LEMMA InvariantOptions == IInv => OptionsInAnyOrder
<1> SUFFICES ASSUME IInv, NEW n \in DOMAIN done \cap DOMAIN meant, Complete(meant[n])
             PROVE  done[n].options = Said(meant[n], Len(meant[n].options))
  BY Zenon DEF OptionsInAnyOrder
<1>1. meant # <<>>
  OBVIOUS
<1>2. meant \in Seq(Command) /\ Arrived
  BY <1>1 DEF IInv
<1>3. PICK S : done \in Seq(S)
  BY <1>2 DEF Arrived
<1>4. n \in 1..Len(done) /\ n \in 1..Len(meant)
  BY <1>2, <1>3
<1>5. done[n].options = OptionsOf(Heard(Words(meant[n])))
  BY <1>2, <1>4, Zenon DEF Arrived
<1>6. meant[n] \in Command
  BY <1>2, <1>4
<1> QED
  BY <1>5, <1>6, OptionsArrive

\* Every command that has run has the options that its user gave, in whatever
\* order they stood and whatever their values look like.
THEOREM OptionsAlwaysInAnyOrder == Spec => []OptionsInAnyOrder
<1>1. IInv => OptionsInAnyOrder
  BY InvariantOptions
<1> QED
  BY <1>1, InvariantHolds, PTL

=============================================================================
