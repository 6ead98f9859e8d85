--------------------------- MODULE SessionProofs ---------------------------
(***************************************************************************)
(* Proofs about sessions: types, what the prompt says of the server, and   *)
(* that databases survive, for any targets, names, databases and faults.   *)
(***************************************************************************)
EXTENDS Session, Integers, WellFoundedInduction, TLAPS

\* A session that has a database selected on a server had it mounted there, and
\* only a restart may have taken it away since.
Selection ==
  mode = "remote" /\ activeDB # "" /\ "lost" \notin Faults =>
    remotePort = ServerPort /\ mounted \in {activeDB, NoDB}

SessionInv == TypeOK /\ Selection

-----------------------------------------------------------------------------
-----------------------------------------------------------------------------
(* Loops: what one turn keeps, all of them keep.                           *)

\* What holds of 0 and passes from each number to the next holds up to N.
LEMMA Climb ==
  ASSUME NEW N \in Nat, NEW P, 0 \in P, \A n \in 1..N : n - 1 \in P => n \in P
  PROVE  0..N \subseteq P
<1> DEFINE Q == (0..N) \ P
<1>1. SUFFICES ASSUME Q # {} PROVE FALSE
  OBVIOUS
<1>2. Q \subseteq Nat
  OBVIOUS
<1>3. \A a, b \in Nat : a < b => <<a, b>> \in OpToRel(<, Nat)
  BY DEF OpToRel
<1> HIDE DEF Q
<1>4. PICK x \in Q : \A y \in Q : <<y, x>> \notin OpToRel(<, Nat)
  BY <1>1, <1>2, WFMin, NatLessThanWellFounded
<1>5. \A y \in Q : ~(y < x)
  BY <1>2, <1>3, <1>4
<1>6. x \in 1..N /\ x - 1 \in 0..N /\ x - 1 < x
  <2>1. x \in 0..N /\ x # 0
    BY <1>4 DEF Q
  <2> QED
    BY <2>1
<1>7. x - 1 \in P
  BY <1>5, <1>6 DEF Q
<1>8. x \in P
  BY <1>6, <1>7
<1> QED
  BY <1>4, <1>8 DEF Q

\* Each of N turns makes a value of S from the one before; f has the values.
Steps(h, N, S) == h \in [1..N -> [S -> S]]
Turns(f, a, h, N, S) == f \in [0..N -> S] /\ f[0] = a /\ \A n \in 1..N : f[n] = h[n][f[n - 1]]

\* A loop has a value after each turn.
LEMMA Loop ==
  ASSUME NEW S, NEW a \in S, NEW N \in Nat, NEW h, Steps(h, N, S)
  PROVE  \E f : Turns(f, a, h, N, S)
<1> DEFINE P == {m \in 0..N : \E f : Turns(f, a, h, m, S)}
<1>1. 0 \in P
  <2> DEFINE f == [n \in 0..0 |-> a]
  <2>1. f \in [0..0 -> S] /\ f[0] = a /\ 1..0 = {}
    OBVIOUS
  <2>2. Turns(f, a, h, 0, S)
    BY <2>1 DEF Turns
  <2> QED
    BY <2>2
<1>2. ASSUME NEW m \in 1..N, m - 1 \in P
      PROVE  m \in P
  <2>1. PICK f : Turns(f, a, h, m - 1, S)
    BY <1>2
  <2>t. /\ f \in [0..m - 1 -> S] /\ f[0] = a
        /\ \A n \in 1..m - 1 : f[n] = h[n][f[n - 1]]
    BY <2>1 DEF Turns
  <2> DEFINE g == [n \in 0..m |-> IF n = m THEN h[m][f[m - 1]] ELSE f[n]]
  <2>2. f[m - 1] \in S
    BY <2>t
  <2>3. h[m][f[m - 1]] \in S
    BY <2>2 DEF Steps
  <2>4. g \in [0..m -> S]
    BY <2>t, <2>3
  <2>5. g[0] = a
    BY <2>t
  <2>6. ASSUME NEW n \in 1..m PROVE g[n] = h[n][g[n - 1]]
    <3>1. CASE n = m
      BY <3>1
    <3>2. CASE n # m
      <4>1. n \in 1..m - 1 /\ n - 1 \in 0..m /\ n - 1 # m /\ n \in 0..m
        BY <3>2
      <4>2. f[n] = h[n][f[n - 1]]
        BY <2>t, <4>1
      <4> QED
        BY <3>2, <4>1, <4>2
    <3> QED
      BY <3>1, <3>2
  <2> HIDE DEF g
  <2>7. Turns(g, a, h, m, S)
    BY <2>4, <2>5, <2>6 DEF Turns
  <2> QED
    BY <2>7
<1> HIDE DEF P
<1>3. 0..N \subseteq P
  BY <1>1, <1>2, Climb
<1>4. N \in P
  BY <1>3
<1> QED
  BY <1>4 DEF P

-----------------------------------------------------------------------------
(* Paths.                                                                  *)

\* Paths of the same length are the same if their elements are.
LEMMA SamePath ==
  ASSUME NEW p \in Directory, NEW q \in Directory, Len(p) = Len(q),
         \A i \in 1..Len(p) : p[i] = q[i]
  PROVE  p = q
  BY DEF Directory

\* A path lies under another if it begins with the same elements.
LEMMA PrefixIs ==
  ASSUME NEW p \in Directory, NEW q \in Directory
  PROVE  IsPrefix(p, q) <=> Len(p) <= Len(q) /\ \A i \in 1..Len(p) : p[i] = q[i]
<1>1. Len(p) \in Nat /\ Len(q) \in Nat
  BY DEF Directory
<1>2. ASSUME IsPrefix(p, q) PROVE Len(p) <= Len(q) /\ \A i \in 1..Len(p) : p[i] = q[i]
  <2>1. Len(p) <= Len(q) /\ SubSeq(p, 1, Len(p)) = SubSeq(q, 1, Len(p))
    BY <1>2, <1>1 DEF IsPrefix
  <2>2. ASSUME NEW i \in 1..Len(p) PROVE p[i] = q[i]
    <3>1. SubSeq(p, 1, Len(p))[i] = p[i] /\ SubSeq(q, 1, Len(p))[i] = q[i]
      BY <1>1, <2>1 DEF Directory
    <3> QED
      BY <2>1, <3>1
  <2> QED
    BY <2>1, <2>2
<1>3. ASSUME Len(p) <= Len(q), \A i \in 1..Len(p) : p[i] = q[i] PROVE IsPrefix(p, q)
  <2>1. SubSeq(p, 1, Len(p)) = SubSeq(q, 1, Len(p))
    BY <1>1, <1>3 DEF Directory
  <2> QED
    BY <1>3, <2>1 DEF IsPrefix
<1> QED
  BY <1>2, <1>3

\* The directory above.
LEMMA FrontIs ==
  ASSUME NEW p \in Directory, p # <<>>
  PROVE  /\ Front(p) \in Directory /\ Len(p) \in Nat /\ Len(Front(p)) = Len(p) - 1
         /\ \A i \in 1..Len(p) - 1 : Front(p)[i] = p[i]
<1>1. Len(p) \in Nat /\ Len(p) # 0
  BY DEF Directory
<1>2. PICK n \in Nat : n = Len(p) - 1 /\ n <= Len(p)
  BY <1>1
<1>3. /\ SubSeq(p, 1, n) \in Seq(Elements) /\ Len(SubSeq(p, 1, n)) = n
      /\ \A i \in 1..n : SubSeq(p, 1, n)[i] = p[i]
  BY <1>1, <1>2 DEF Directory
<1> QED
  BY <1>1, <1>2, <1>3 DEF Directory, Front

\* What lies under a path below a third lies under that one.
LEMMA PrefixFacts ==
  /\ \A p \in Directory : IsPrefix(p, p) /\ IsPrefix(<<>>, p)
  /\ \A p, q, r \in Directory : IsPrefix(p, q) /\ IsPrefix(q, r) => IsPrefix(p, r)
<1>1. <<>> \in Directory /\ Len(<<>>) = 0
  BY DEF Directory
<1>2. \A p \in Directory : Len(p) \in Nat
  BY DEF Directory
<1>3. ASSUME NEW p \in Directory PROVE IsPrefix(p, p) /\ IsPrefix(<<>>, p)
  BY <1>1, <1>2, PrefixIs
<1>4. ASSUME NEW p \in Directory, NEW q \in Directory, NEW r \in Directory,
             IsPrefix(p, q), IsPrefix(q, r)
      PROVE  IsPrefix(p, r)
  <2>1. Len(p) <= Len(q) /\ \A i \in 1..Len(p) : p[i] = q[i]
    BY <1>4, PrefixIs
  <2>2. Len(q) <= Len(r) /\ \A i \in 1..Len(q) : q[i] = r[i]
    BY <1>4, PrefixIs
  <2>3. Len(p) <= Len(r) /\ \A i \in 1..Len(p) : p[i] = r[i]
    BY <1>2, <2>1, <2>2
  <2> QED
    BY <2>3, PrefixIs
<1> QED
  BY <1>3, <1>4

\* A directory lies under the one above it, and not the other way; what lies
\* under a path is that path, or the directory above it lies there too.
LEMMA FrontFacts ==
  ASSUME NEW p \in Directory, p # <<>>
  PROVE  /\ IsPrefix(Front(p), p) /\ ~IsPrefix(p, Front(p))
         /\ \A q \in Directory : IsPrefix(q, p) /\ q # p => IsPrefix(q, Front(p))
<1>1. /\ Front(p) \in Directory /\ Len(p) \in Nat /\ Len(Front(p)) = Len(p) - 1
      /\ \A i \in 1..Len(p) - 1 : Front(p)[i] = p[i]
  BY FrontIs
<1>2. IsPrefix(Front(p), p)
  BY <1>1, PrefixIs
<1>3. ~IsPrefix(p, Front(p))
  BY <1>1, PrefixIs
<1>4. ASSUME NEW q \in Directory, IsPrefix(q, p), q # p PROVE IsPrefix(q, Front(p))
  <2>1. Len(q) \in Nat /\ Len(q) <= Len(p) /\ \A i \in 1..Len(q) : q[i] = p[i]
    BY <1>4, PrefixIs DEF Directory
  <2>2. Len(q) # Len(p)
    BY <1>4, <2>1, SamePath
  <2>3. Len(q) <= Len(p) - 1
    BY <1>1, <2>1, <2>2
  <2>4. \A i \in 1..Len(q) : q[i] = Front(p)[i]
    BY <1>1, <2>1, <2>3
  <2> QED
    BY <1>1, <2>3, <2>4, PrefixIs
<1> QED
  BY <1>2, <1>3, <1>4

\* One element more.
LEMMA Turned ==
  ASSUME NEW p \in Directory, NEW e \in Elements \cup Dots
  PROVE  /\ Step(p, e) \in Directory
         /\ e \in Elements => Step(p, e) = Append(p, e)
         /\ e # ".." => IsPrefix(p, Step(p, e))
<1>1. e \in Elements => e \notin {"", ".", ".."}
  BY SessionAssumption DEF Dots
<1>2. ASSUME e \in Elements
      PROVE  Append(p, e) \in Directory /\ IsPrefix(p, Append(p, e))
  <2> DEFINE q == Append(p, e)
  <2>1. /\ q \in Directory /\ Len(p) \in Nat /\ Len(q) = Len(p) + 1
        /\ \A i \in 1..Len(p) : p[i] = q[i]
    BY <1>2 DEF Directory
  <2> HIDE DEF q
  <2>2. IsPrefix(p, q)
    BY <2>1, PrefixIs
  <2> QED
    BY <2>1, <2>2 DEF q
<1>3. CASE e \in Elements
  BY <1>1, <1>2, <1>3 DEF Step
<1>4. CASE e \in {"", "."}
  <2>1. Step(p, e) = p
    BY <1>4 DEF Step
  <2> QED
    BY <1>1, <1>4, <2>1, PrefixFacts
<1>5. CASE e = ".."
  <2>1. e \notin {"", "."}
    BY <1>5
  <2>2. Step(p, e) = IF p = <<>> THEN <<>> ELSE Front(p)
    BY <1>5, <2>1 DEF Step
  <2>3. <<>> \in Directory
    BY DEF Directory
  <2> QED
    BY <1>1, <1>5, <2>2, <2>3, FrontIs
<1>6. e \in Elements \/ e \in {"", "."} \/ e = ".."
  BY DEF Dots
<1> QED
  BY <1>3, <1>4, <1>5, <1>6

\* The directories a path leads through, one after each of its elements.
Leads(c, path) ==
  /\ c \in [0..Len(path) -> Directory] /\ c[0] = <<>>
  /\ \A n \in 1..Len(path) : c[n] = Step(c[n - 1], path[n])
  /\ Cleaned(path) = c[Len(path)]

LEMMA CleanedLeads ==
  ASSUME NEW path \in Path
  PROVE  \E c : Leads(c, path)
<1> DEFINE N == Len(path)
           S == Directory
           a == <<>>
           x[n \in 0..N] == IF n = 0 THEN <<>> ELSE Step(x[n - 1], path[n])
           h == [n \in 1..N |-> [s \in S |-> Step(s, path[n])]]
<1>1. N \in Nat /\ \A n \in 1..N : path[n] \in Elements \cup Dots
  BY DEF Path
<1>2. \A n \in 1..N : \A s \in S : Step(s, path[n]) \in S
  BY <1>1, Turned
<1>3. Steps(h, N, S)
  BY <1>2 DEF Steps
<1>4. \A n \in 1..N : \A s \in S : h[n][s] = Step(s, path[n])
  OBVIOUS
<1>5. Cleaned(path) = x[N]
  BY DEF Cleaned
<1>6. a \in S
  BY DEF Directory
<1> HIDE DEF h, S, N, a
<1>7. \E f : Turns(f, a, h, N, S)
  BY <1>1, <1>3, <1>6, Loop
<1>8. x = [n \in 0..N |-> IF n = 0 THEN <<>> ELSE Step(x[n - 1], path[n])]
  <2>1. PICK f : Turns(f, a, h, N, S)
    BY <1>7
  <2> DEFINE E(n) == IF n = 0 THEN <<>> ELSE Step(f[n - 1], path[n])
  <2>2. ASSUME NEW n \in 0..N
        PROVE  f[n] = E(n)
    <3>1. CASE n = 0
      BY <2>1, <3>1 DEF Turns, a
    <3>2. CASE n # 0
      <4>1. n \in 1..N /\ n - 1 \in 0..N
        BY <1>1, <3>2
      <4>2. f[n] = h[n][f[n - 1]] /\ f[n - 1] \in S
        BY <2>1, <4>1 DEF Turns
      <4> QED
        BY <1>4, <3>2, <4>1, <4>2
    <3> QED
      BY <3>1, <3>2
  <2>3. f \in [0..N -> S]
    BY <2>1 DEF Turns
  <2> HIDE DEF E
  <2>4. f = [n \in 0..N |-> E(n)]
    BY <2>2, <2>3
  <2>5. f = [n \in 0..N |-> IF n = 0 THEN <<>> ELSE Step(f[n - 1], path[n])]
    BY <2>4 DEF E
  <2> QED
    BY <2>5
<1> HIDE DEF x
<1>9. x[0] = a /\ \A n \in 1..N : x[n] = Step(x[n - 1], path[n])
  <2>1. 0 \in 0..N /\ \A n \in 1..N : n \in 0..N /\ n # 0
    BY <1>1
  <2> QED
    BY <1>8, <2>1 DEF a
<1>10. x \in [0..N -> S]
  <2> DEFINE P == {n \in 0..N : x[n] \in S}
  <2>1. 0 \in P
    BY <1>1, <1>6, <1>9
  <2>2. ASSUME NEW n \in 1..N, n - 1 \in P PROVE n \in P
    <3>1. x[n - 1] \in S /\ n \in 0..N
      BY <1>1, <2>2
    <3> QED
      BY <1>2, <1>9, <3>1
  <2> HIDE DEF P
  <2>3. 0..N \subseteq P
    BY <1>1, <2>1, <2>2, Climb
  <2>4. \A n \in 0..N : x[n] \in S
    BY <2>3 DEF P
  <2>5. x = [n \in 0..N |-> x[n]]
    BY <1>8
  <2> QED
    BY <2>4, <2>5
<1> QED
  BY <1>5, <1>9, <1>10 DEF N, S, a, Leads

\* A path names a directory.
LEMMA CleanedType ==
  ASSUME NEW path \in Path
  PROVE  Cleaned(path) \in Directory
<1>1. PICK c : Leads(c, path)
  BY CleanedLeads
<1>2. Len(path) \in 0..Len(path)
  BY DEF Path
<1> QED
  BY <1>1, <1>2 DEF Leads

\* A directory, and what is said after it.
LEMMA Longer ==
  ASSUME NEW root \in Directory, NEW rest \in Path
  PROVE  LET path == root \o rest
         IN  /\ path \in Path /\ Len(root) \in Nat /\ Len(rest) \in Nat
             /\ Len(path) = Len(root) + Len(rest)
             /\ \A n \in 1..Len(root) : path[n] = root[n] /\ path[n] \in Elements
             /\ \A n \in 1..Len(rest) : path[Len(root) + n] = rest[n]
<1>1. root \in Seq(Elements \cup Dots) /\ \A n \in 1..Len(root) : root[n] \in Elements
  BY DEF Directory
<1> QED
  BY <1>1, SMTT(30) DEF Path

\* On the way through a path that begins with a directory, that one is reached.
LEMMA RootReached ==
  ASSUME NEW root \in Directory, NEW rest \in Path, NEW c, Leads(c, root \o rest)
  PROVE  c[Len(root)] = root
<1> DEFINE path == root \o rest
           N == Len(root)
           P == {n \in 0..N : c[n] = SubSeq(root, 1, n)}
<1>1. /\ Len(path) = N + Len(rest) /\ N \in Nat /\ Len(rest) \in Nat
      /\ \A n \in 1..N : path[n] = root[n] /\ path[n] \in Elements
  BY Longer
<1>2. /\ c \in [0..Len(path) -> Directory] /\ c[0] = <<>>
      /\ \A n \in 1..Len(path) : c[n] = Step(c[n - 1], path[n])
  BY DEF Leads
<1>3. SubSeq(root, 1, 0) = <<>> /\ SubSeq(root, 1, N) = root
  BY DEF Directory
<1>4. 0 \in P
  <2>1. 0 \in 0..N
    BY <1>1
  <2>2. c[0] = SubSeq(root, 1, 0)
    BY <1>2, <1>3
  <2> QED
    BY <2>1, <2>2
<1>5. ASSUME NEW n \in 1..N, n - 1 \in P PROVE n \in P
  <2>1. n \in 0..N /\ n - 1 \in 0..N /\ n \in 1..Len(path) /\ n - 1 \in 0..Len(path)
    BY <1>1
  <2>2. c[n - 1] \in Directory /\ c[n] = Step(c[n - 1], path[n]) /\ path[n] \in Elements
    BY <1>1, <1>2, <2>1
  <2>3. c[n] = Append(c[n - 1], root[n])
    BY <1>1, <2>2, Turned
  <2>4. c[n - 1] = SubSeq(root, 1, n - 1)
    BY <1>5
  <2>5. Append(SubSeq(root, 1, n - 1), root[n]) = SubSeq(root, 1, n)
    BY <1>1 DEF Directory
  <2> QED
    BY <2>1, <2>3, <2>4, <2>5
<1> HIDE DEF P
<1>6. 0..N \subseteq P
  BY <1>1, <1>4, <1>5, Climb
<1>7. N \in P
  BY <1>1, <1>6
<1> QED
  BY <1>3, <1>7 DEF P

\* A name that does not climb stays within the root, and a single element names
\* the entry of the root that has that name.
LEMMA JoinFacts ==
  ASSUME NEW root \in Directory, NEW name \in Names
  PROVE  /\ Join(root, name) \in Directory
         /\ Inward(name) => IsPrefix(root, Join(root, name))
         /\ Single(name) => /\ Join(root, name) = root \o NamePath[name]
                            /\ Join(root, name) # <<>> /\ Front(Join(root, name)) = root
<1> DEFINE rest == NamePath[name]
           path == root \o rest
           N == Len(root)
           M == Len(rest)
<1>1. rest \in Path
  BY SessionAssumption
<1>2. /\ path \in Path /\ N \in Nat /\ M \in Nat
      /\ Len(path) = N + M
      /\ \A n \in 1..M : path[N + n] = rest[n]
  BY <1>1, Longer
<1>3. PICK c : Leads(c, path)
  BY <1>2, CleanedLeads
<1>4. /\ c \in [0..Len(path) -> Directory]
      /\ \A n \in 1..Len(path) : c[n] = Step(c[n - 1], path[n])
      /\ Join(root, name) = c[N + M]
  BY <1>2, <1>3 DEF Leads, Join
<1>5. c[N] = root
  BY <1>1, <1>3, RootReached
<1>6. Join(root, name) \in Directory
  BY <1>2, <1>4
<1>7. ASSUME Inward(name) PROVE IsPrefix(root, Join(root, name))
  <2> DEFINE P == {n \in 0..M : IsPrefix(root, c[N + n])}
  <2>1. 0 \in P
    BY <1>2, <1>5, PrefixFacts
  <2>2. ASSUME NEW n \in 1..M, n - 1 \in P PROVE n \in P
    <3>1. n \in 0..M /\ N + n \in 1..Len(path) /\ N + (n - 1) \in 0..Len(path)
          /\ (N + n) - 1 = N + (n - 1) /\ N + n \in 0..Len(path)
      BY <1>2
    <3>2. c[N + n] = Step(c[N + (n - 1)], rest[n])
      BY <1>2, <1>4, <3>1
    <3>3. rest[n] \in Elements \cup Dots
      BY <1>1, <1>2 DEF Path
    <3>4. rest[n] # ".."
      <4>1. rest[n] \in Range(rest)
        BY <1>1, <1>2 DEF Path, Range
      <4> QED
        BY <1>7, <4>1 DEF Inward
    <3>5. c[N + (n - 1)] \in Directory /\ c[N + n] \in Directory
      BY <1>4, <3>1
    <3>6. IsPrefix(c[N + (n - 1)], c[N + n])
      BY <3>2, <3>3, <3>4, <3>5, Turned
    <3>7. IsPrefix(root, c[N + (n - 1)])
      BY <2>2
    <3>8. IsPrefix(root, c[N + n])
      BY <3>5, <3>6, <3>7, PrefixFacts
    <3> QED
      BY <3>1, <3>8
  <2> HIDE DEF P
  <2>3. 0..M \subseteq P
    BY <1>2, <2>1, <2>2, Climb
  <2>4. M \in P
    BY <1>2, <2>3
  <2> QED
    BY <1>4, <2>4 DEF P
<1>8. ASSUME Single(name)
      PROVE  /\ Join(root, name) = root \o NamePath[name]
             /\ Join(root, name) # <<>> /\ Front(Join(root, name)) = root
  <2>1. PICK e \in Elements : rest = <<e>>
    BY <1>8 DEF Single
  <2>2. M = 1 /\ rest[1] = e
    BY <2>1
  <2>3. N + 1 \in 1..Len(path) /\ (N + 1) - 1 = N
    BY <1>2, <2>2
  <2>4. c[N + 1] = Step(root, e)
    BY <1>2, <1>4, <1>5, <2>2, <2>3
  <2>5. c[N + 1] = Append(root, e)
    BY <2>4, Turned
  <2>6. /\ Append(root, e) = root \o <<e>> /\ Append(root, e) # <<>>
        /\ Front(Append(root, e)) = root
    BY DEF Directory, Front
  <2> QED
    BY <1>4, <2>1, <2>2, <2>5, <2>6
<1> QED
  BY <1>6, <1>7, <1>8

-----------------------------------------------------------------------------
(* The server's own steps, and the requests.                               *)

\* Whatever the server does on its own keeps its types, and leaves mounted what
\* was or nothing.
LEMMA ServerAlone ==
  ASSUME ServerTypeOK, Crashes \/ Boots \/ OrphanEnds
  PROVE  ServerTypeOK' /\ mounted' \in {mounted, NoDB}
  BY DEF ServerTypeOK, Crashes, Boots, OrphanEnds, Gone

\* A \c that is answered mounts the database; one that fails without its answer
\* getting lost leaves things as they were.
LEMMA UseDatabaseMounts ==
  ASSUME ServerTypeOK, NEW db, NEW ok \in BOOLEAN, UseDatabase(db, ok)
  PROVE  /\ ServerTypeOK'
         /\ ok => mounted' = db
         /\ ~ok /\ "lost" \notin Faults => mounted' = mounted
  BY DEF ServerTypeOK, UseDatabase

-----------------------------------------------------------------------------
(* The disk.                                                               *)

\* Directories, each in another, up to the root of the disk.
DiskType ==
  /\ DOMAIN disk \subseteq Directory /\ <<>> \in DOMAIN disk
  /\ \A p \in DOMAIN disk : disk[p] \in Contents /\ (p # <<>> => Front(p) \in DOMAIN disk)

\* Changes of the disk by the commands.
Mkdir == \E p \in Directory : \E made \in Prefixes(p) : disk' = Made(made)
Removal == \E p \in Directory : RemoveAll(p) \/ RemoveFile(p)
Load ==
  \E p \in Directory : \E content \in Contents :
    (p # <<>> => Front(p) \in DOMAIN disk) /\ disk' = Holding(p, content)

\* In local mode every name has its place.
LEMMA PlaceTypes ==
  ASSUME TypeOK, NEW name \in Names
  PROVE  Place(name) \in Directory
  BY JoinFacts DEF TypeOK, Place

\* The beginnings of a path are directories above it, with all above them.
LEMMA PrefixesAre ==
  ASSUME NEW p \in Directory
  PROVE  /\ Prefixes(p) \subseteq Directory
         /\ \A q \in Prefixes(p) : q # <<>> => Front(q) \in Prefixes(p)
<1>1. Len(p) \in Nat
  BY DEF Directory
<1>2. ASSUME NEW q \in Prefixes(p)
      PROVE  q \in Directory /\ (q # <<>> => Front(q) \in Prefixes(p))
  <2>1. PICK n \in 0..Len(p) : q = SubSeq(p, 1, n)
    BY DEF Prefixes
  <2>2. q \in Directory /\ Len(q) = n
    BY <1>1, <2>1 DEF Directory
  <2>3. ASSUME q # <<>> PROVE Front(q) \in Prefixes(p)
    <3>1. n # 0
      BY <1>1, <2>1, <2>2, <2>3 DEF Directory
    <3>2. n - 1 \in 0..Len(p)
      BY <1>1, <3>1
    <3>3. SubSeq(q, 1, n - 1) = SubSeq(p, 1, n - 1)
      BY <1>1, <2>1, <2>2, <3>2 DEF Directory
    <3>4. Front(q) = SubSeq(p, 1, n - 1)
      BY <2>2, <3>3 DEF Front
    <3> QED
      BY <3>2, <3>4 DEF Prefixes
  <2> QED
    BY <2>2, <2>3
<1> QED
  BY <1>2

\* \create leaves the disk well-typed.
LEMMA MkdirTypes == DiskType /\ Mkdir => DiskType'
<1> SUFFICES ASSUME DiskType, Mkdir PROVE DiskType'
  OBVIOUS
<1>1. PICK r \in Directory : \E made \in Prefixes(r) : disk' = Made(made)
  BY DEF Mkdir
<1>2. PICK p \in Directory : disk' = Made(p)
  BY <1>1, PrefixesAre
<1>3. DOMAIN disk' = DOMAIN disk \cup Prefixes(p)
  BY <1>2 DEF Made
<1>4. \A q \in DOMAIN disk' : disk'[q] = IF q \in DOMAIN disk THEN disk[q] ELSE "empty"
  BY <1>2, <1>3 DEF Made
<1>5. DOMAIN disk \subseteq Directory /\ <<>> \in DOMAIN disk
  BY DEF DiskType
<1>6. DOMAIN disk' \subseteq Directory /\ <<>> \in DOMAIN disk'
  BY <1>3, <1>5, PrefixesAre
<1>7. ASSUME NEW q \in DOMAIN disk'
      PROVE  disk'[q] \in Contents /\ (q # <<>> => Front(q) \in DOMAIN disk')
  <2>1. CASE q \in DOMAIN disk
    BY <1>3, <1>4, <2>1 DEF DiskType
  <2>2. CASE q \notin DOMAIN disk
    <3>1. disk'[q] = "empty" /\ q \in Prefixes(p)
      BY <1>3, <1>4, <2>2
    <3>2. q # <<>> => Front(q) \in DOMAIN disk'
      BY <1>3, <3>1, PrefixesAre
    <3> QED
      BY <3>1, <3>2 DEF Contents
  <2> QED
    BY <2>1, <2>2
<1> QED
  BY <1>6, <1>7 DEF DiskType

\* An \i leaves it well-typed.
LEMMA LoadTypes == DiskType /\ Load => DiskType'
<1> SUFFICES ASSUME DiskType, Load PROVE DiskType'
  OBVIOUS
<1>1. PICK p \in Directory : \E content \in Contents :
        (p # <<>> => Front(p) \in DOMAIN disk) /\ disk' = Holding(p, content)
  BY DEF Load
<1>2. PICK content \in Contents : disk' = Holding(p, content)
  BY <1>1
<1>3. DOMAIN disk' = DOMAIN disk \cup {p}
  BY <1>2 DEF Holding
<1>4. \A q \in DOMAIN disk' : disk'[q] = IF q = p THEN content ELSE disk[q]
  BY <1>2, <1>3 DEF Holding
<1>5. DOMAIN disk' \subseteq Directory /\ <<>> \in DOMAIN disk'
  BY <1>3 DEF DiskType
<1>6. ASSUME NEW q \in DOMAIN disk'
      PROVE  disk'[q] \in Contents /\ (q # <<>> => Front(q) \in DOMAIN disk')
  <2>1. CASE q = p
    BY <1>1, <1>3, <1>4, <2>1
  <2>2. CASE q # p
    BY <1>3, <1>4, <2>2 DEF DiskType
  <2> QED
    BY <2>1, <2>2
<1> QED
  BY <1>5, <1>6 DEF DiskType

\* What RemoveAll leaves, and of what it may have taken files.
Left(p, kept, spoilt) ==
  /\ kept \subseteq Below(p) /\ Below(p) \cap {<<>>} \subseteq kept
  /\ spoilt \subseteq kept
  /\ \A q \in kept : q = p \/ Front(q) \in kept
  /\ DOMAIN disk' = (DOMAIN disk \ Below(p)) \cup kept
  /\ \A q \in DOMAIN disk' : disk'[q] = IF q \in spoilt THEN "partial" ELSE disk[q]

LEMMA RemoveAllLeaves ==
  ASSUME NEW p \in Directory, RemoveAll(p)
  PROVE  \E kept, spoilt : Left(p, kept, spoilt)
<1>1. PICK kept \in SUBSET Below(p) : \E spoilt \in SUBSET {q \in kept : disk[q] = "loaded"} :
        /\ Below(p) \cap {<<>>} \subseteq kept
        /\ \A q \in kept : q = p \/ Front(q) \in kept
        /\ disk' = [q \in (DOMAIN disk \ Below(p)) \cup kept |->
                      IF q \in spoilt THEN "partial" ELSE disk[q]]
  BY DEF RemoveAll
<1>2. PICK spoilt \in SUBSET {q \in kept : disk[q] = "loaded"} :
        /\ Below(p) \cap {<<>>} \subseteq kept
        /\ \A q \in kept : q = p \/ Front(q) \in kept
        /\ disk' = [q \in (DOMAIN disk \ Below(p)) \cup kept |->
                      IF q \in spoilt THEN "partial" ELSE disk[q]]
  BY <1>1
<1>3. DOMAIN disk' = (DOMAIN disk \ Below(p)) \cup kept
  BY <1>2
<1>4. \A q \in DOMAIN disk' : disk'[q] = IF q \in spoilt THEN "partial" ELSE disk[q]
  BY <1>2, <1>3
<1> QED
  BY <1>1, <1>2, <1>3, <1>4 DEF Left

\* A \drop leaves it well-typed.
LEMMA RemovalTypes == DiskType /\ Removal => DiskType'
<1> SUFFICES ASSUME DiskType, Removal PROVE DiskType'
  OBVIOUS
<1>1. PICK p \in Directory : RemoveAll(p) \/ RemoveFile(p)
  BY DEF Removal
<1>t. /\ DOMAIN disk \subseteq Directory /\ <<>> \in DOMAIN disk
      /\ \A q \in DOMAIN disk : disk[q] \in Contents /\ (q # <<>> => Front(q) \in DOMAIN disk)
  BY DEF DiskType
<1>2. CASE RemoveAll(p)
  <2>1. PICK kept, spoilt : Left(p, kept, spoilt)
    BY <1>2, RemoveAllLeaves
  <2>2. /\ kept \subseteq Below(p) /\ Below(p) \cap {<<>>} \subseteq kept
        /\ \A q \in kept : q = p \/ Front(q) \in kept
        /\ DOMAIN disk' = (DOMAIN disk \ Below(p)) \cup kept
        /\ \A q \in DOMAIN disk' : disk'[q] = IF q \in spoilt THEN "partial" ELSE disk[q]
    BY <2>1 DEF Left
  <2>3. Below(p) \subseteq DOMAIN disk /\ \A q \in DOMAIN disk : q \in Below(p) <=> IsPrefix(p, q)
    BY DEF Below
  <2>4. DOMAIN disk' \subseteq Directory /\ <<>> \in DOMAIN disk'
    BY <1>t, <2>2, <2>3
  <2>5. ASSUME NEW q \in DOMAIN disk'
        PROVE  disk'[q] \in Contents
    <3>1. q \in DOMAIN disk
      BY <2>2, <2>3
    <3> QED
      BY <1>t, <2>2, <3>1 DEF Contents
  <2>6. ASSUME NEW q \in DOMAIN disk', q # <<>> PROVE Front(q) \in DOMAIN disk'
    <3>1. q \in Directory /\ q \in DOMAIN disk /\ Front(q) \in DOMAIN disk
      BY <1>t, <2>2, <2>3, <2>6
    <3>2. Front(q) \in Directory /\ IsPrefix(Front(q), q) /\ ~IsPrefix(q, Front(q))
      BY <1>t, <2>6, <3>1, FrontFacts
    <3>3. CASE q \in kept /\ q # p
      BY <2>2, <3>3
    <3>4. CASE q = p
      BY <2>2, <2>3, <3>1, <3>2, <3>4
    <3>5. CASE q \notin Below(p)
      <4>1. ~IsPrefix(p, q)
        BY <2>3, <3>1, <3>5
      <4>2. ~IsPrefix(p, Front(q))
        BY <3>1, <3>2, <4>1, PrefixFacts
      <4> QED
        BY <2>2, <2>3, <3>1, <4>2
    <3> QED
      BY <2>2, <3>3, <3>4, <3>5
  <2> QED
    BY <2>4, <2>5, <2>6 DEF DiskType
<1>3. CASE RemoveFile(p)
  <2>1. Front(p) \in DOMAIN disk /\ disk' = Holding(Front(p), "partial")
    BY <1>3 DEF RemoveFile
  <2>2. Front(p) \in Directory /\ (Front(p) # <<>> => Front(Front(p)) \in DOMAIN disk)
    BY <1>t, <2>1
  <2>3. Load
    BY <2>1, <2>2 DEF Load, Contents
  <2> QED
    BY <2>3, LoadTypes
<1> QED
  BY <1>1, <1>2, <1>3

\* The commands of local mode.
LEMMA LocalCommands ==
  ASSUME TypeOK, CreateDB \/ DropDB \/ IngestDB
  PROVE  Mkdir \/ Removal \/ Load
<1>1. CASE CreateDB
  BY <1>1, PlaceTypes DEF CreateDB, Mkdir
<1>2. CASE DropDB
  BY <1>2, PlaceTypes DEF DropDB, Removal
<1>3. CASE IngestDB
  <2>1. activeDB \in Names
    BY <1>3 DEF TypeOK, IngestDB
  <2>2. Place(activeDB) \in Directory
    BY <2>1, PlaceTypes
  <2> QED
    BY <1>3, <2>2 DEF IngestDB, Load, Contents
<1> QED
  BY <1>1, <1>2, <1>3

-----------------------------------------------------------------------------
(* The invariant.                                                          *)

\* A new process has nothing selected.
LEMMA InitSession == Init => SessionInv
<1> SUFFICES ASSUME Init PROVE SessionInv
  OBVIOUS
<1>1. TypeOK
  <2>1. /\ mode = "none" /\ activeDB = "" /\ localRoot = <<>> /\ remotePort = ""
        /\ showResults = FALSE /\ ServerTypeOK
    BY DEF Init, NewState, ServerTypeOK
  <2>2. <<>> \in Directory
    BY DEF Directory
  <2>3. /\ DOMAIN disk = Existing /\ \A p \in Existing : disk[p] = "empty"
    BY DEF Init
  <2>4. DiskType
    BY <2>3, SessionAssumption DEF DiskType, Contents
  <2> QED
    BY <2>1, <2>2, <2>4 DEF TypeOK, DiskType
<1>2. Selection
  BY DEF Init, NewState, Selection
<1> QED
  BY <1>1, <1>2 DEF SessionInv

\* Steps after which nothing is selected, or what was.
LEMMA SelectionKept ==
  ASSUME SessionInv,
         activeDB' = "" \/ (/\ UNCHANGED <<mode, activeDB, remotePort>>
                            /\ \/ mounted' \in {mounted, NoDB}
                               \/ mounted' = activeDB)
  PROVE  Selection'
  BY DEF SessionInv, Selection

\* Every command, and the server, keeps the invariant.
LEMMA NextSession == SessionInv /\ [Next]_vars => SessionInv'
<1> SUFFICES ASSUME SessionInv, [Next]_vars PROVE TypeOK' /\ Selection'
  BY DEF SessionInv
<1> USE SessionAssumption
<1>t. TypeOK
  BY DEF SessionInv
<1>s. ServerTypeOK
  BY <1>t DEF TypeOK
<1>1. ASSUME Connect PROVE TypeOK' /\ Selection'
  <2>1. PICK t \in Targets :
          /\ ConnectLocal(t) \/ ConnectRemote(t)
          /\ UNCHANGED <<showResults, disk, command, serverVars>>
    BY <1>1 DEF Connect
  <2>2. t # <<>> /\ "" \notin Names
    OBVIOUS
  <2>3. TypeOK'
    <3>1. CASE ConnectLocal(t)
      <4>1. Cleaned(TargetPath[t]) \in Directory
        BY <3>1, CleanedType DEF ConnectLocal
      <4> QED
        BY <1>t, <4>1, <2>1, <2>2, <3>1 DEF TypeOK, ConnectLocal, ServerTypeOK, serverVars
    <3>2. CASE ConnectRemote(t)
      <4>1. t[Len(t)] \in Ports
        BY <3>2 DEF ConnectRemote
      <4>2. t[Len(t)] # ""
        BY <4>1
      <4> QED
        BY <1>t, <2>1, <3>2, <4>1, <4>2 DEF TypeOK, ConnectRemote, ServerTypeOK, serverVars
    <3> QED
      BY <2>1, <3>1, <3>2
  <2>4. activeDB' = ""
    BY <2>1 DEF ConnectLocal, ConnectRemote
  <2> QED
    BY <2>3, <2>4, SelectionKept
<1>2. ASSUME Use PROVE TypeOK' /\ Selection'
  <2>1. PICK db \in Names :
          /\ activeDB' = db
          /\ IF mode = "remote" THEN Listening /\ UseDatabase(db, TRUE)
                                ELSE UNCHANGED serverVars
          /\ UNCHANGED <<mode, localRoot, remotePort, showResults, disk, command>>
    BY <1>2 DEF Use
  <2>2. CASE mode = "remote"
    <3>1. ServerTypeOK' /\ mounted' = db
      BY <1>s, <2>1, <2>2, UseDatabaseMounts
    <3>2. remotePort = ServerPort
      BY <2>1, <2>2 DEF Listening
    <3> QED
      BY <1>t, <2>1, <2>2, <3>1, <3>2 DEF TypeOK, Selection
  <2>3. CASE mode # "remote"
    BY <1>t, <2>1, <2>3 DEF TypeOK, Selection, ServerTypeOK, serverVars
  <2> QED
    BY <2>2, <2>3
<1>3. ASSUME UseFails PROVE TypeOK' /\ Selection'
  <2>1. PICK db \in Names :
          /\ IF Listening THEN UseDatabase(db, FALSE) ELSE UNCHANGED serverVars
          /\ UNCHANGED <<sessionVars, disk>>
    BY <1>3 DEF UseFails
  <2>2. /\ ServerTypeOK'
        /\ "lost" \notin Faults => mounted' = mounted
    BY <1>s, <2>1, UseDatabaseMounts DEF ServerTypeOK, serverVars
  <2> QED
    BY <1>t, <2>1, <2>2 DEF SessionInv, TypeOK, Selection, sessionVars
<1>4. ASSUME CreateDB \/ DropDB \/ IngestDB PROVE TypeOK' /\ Selection'
  <2>1. UNCHANGED <<sessionVars, serverVars>>
    BY <1>4 DEF CreateDB, DropDB, IngestDB
  <2>2. DiskType'
    BY <1>t, <1>4, LocalCommands, MkdirTypes, RemovalTypes, LoadTypes DEF TypeOK, DiskType
  <2>3. TypeOK'
    BY <1>t, <2>1, <2>2 DEF TypeOK, DiskType, sessionVars, serverVars, ServerTypeOK
  <2> QED
    BY <2>1, <2>3, SelectionKept DEF sessionVars, serverVars
<1>5. ASSUME Query PROVE TypeOK' /\ Selection'
  <2>1. UNCHANGED <<sessionVars, disk, mounted, status>> /\ orphan' \in BOOLEAN
    BY <1>5, <1>s DEF Query, Begin, Abandon, serverVars, ServerTypeOK
  <2>2. TypeOK'
    BY <1>t, <2>1 DEF TypeOK, sessionVars, ServerTypeOK
  <2> QED
    BY <2>1, <2>2, SelectionKept DEF sessionVars
<1>6. ASSUME RunBenchmark PROVE TypeOK' /\ Selection'
  <2>1. UNCHANGED <<sessionVars, disk>>
    BY <1>6 DEF RunBenchmark
  <2>2. ServerTypeOK' /\ (mounted' \in {mounted, NoDB} \/ mounted' = activeDB)
    <3>1. CASE UNCHANGED serverVars
      BY <1>s, <3>1 DEF ServerTypeOK, serverVars
    <3>2. CASE orphan' \in {orphan} \cup Abandoned /\ UNCHANGED <<status, mounted>>
      BY <1>s, <3>2 DEF ServerTypeOK, Abandoned
    <3>3. CASE \E next \in {"starting", "down"} : Gone(next)
      BY <1>s, <3>3 DEF ServerTypeOK, Gone
    <3>4. CASE /\ status' = "up" /\ mounted' \in {NoDB} \cup ({activeDB} \cap Databases)
               /\ orphan' \in {FALSE} \cup Abandoned
      BY <3>4 DEF ServerTypeOK, Abandoned
    <3> QED
      BY <1>6, <3>1, <3>2, <3>3, <3>4 DEF RunBenchmark
  <2>3. TypeOK'
    BY <1>t, <2>1, <2>2 DEF TypeOK, sessionVars
  <2> QED
    BY <2>1, <2>2, <2>3, SelectionKept DEF sessionVars
<1>7. ASSUME Environment PROVE TypeOK' /\ Selection'
  <2>1. UNCHANGED <<sessionVars, disk>> /\ ServerTypeOK' /\ mounted' \in {mounted, NoDB}
    BY <1>7, <1>s, ServerAlone DEF Environment
  <2>2. TypeOK'
    BY <1>t, <2>1 DEF TypeOK, sessionVars
  <2> QED
    BY <2>1, <2>2, SelectionKept DEF sessionVars
<1>8. ASSUME ToggleResults \/ UNCHANGED vars PROVE TypeOK' /\ Selection'
  <2>1. /\ UNCHANGED <<mode, activeDB, localRoot, remotePort, disk, serverVars>>
        /\ showResults' \in BOOLEAN
    BY <1>8, <1>t DEF ToggleResults, vars, sessionVars, serverVars, TypeOK
  <2>2. TypeOK'
    BY <1>t, <2>1 DEF TypeOK, ServerTypeOK, serverVars
  <2> QED
    BY <2>1, <2>2, SelectionKept DEF serverVars
<1>9. ASSUME Quit PROVE TypeOK' /\ Selection'
  <2>1. TypeOK'
    BY <1>t, <1>9 DEF Quit, TypeOK, ServerTypeOK, serverVars
  <2> QED
    BY <1>9, <2>1, SelectionKept DEF Quit
<1> QED
  BY <1>1, <1>2, <1>3, <1>4, <1>5, <1>6, <1>7, <1>8, <1>9 DEF Next

\* The invariant holds throughout every session.
LEMMA SessionAlways == Spec => []SessionInv
  BY InitSession, NextSession, PTL DEF Spec

-----------------------------------------------------------------------------
(* The theorems.                                                           *)

\* Modes, roots, ports, databases and the server's state have their types.
THEOREM SessionTypes == Spec => []TypeOK
<1>1. SessionInv => TypeOK
  BY DEF SessionInv
<1> QED
  BY <1>1, SessionAlways, PTL

\* The prompt of a remote session tells which database the server has mounted,
\* through any sequence of commands, refusals, crashes and benchmarks.
THEOREM PromptIsTrue == Spec => []PromptTellsServer
<1>1. SessionInv => PromptTellsServer
  BY DEF SessionInv, Selection, PromptTellsServer, Prompt, Listening
<1> QED
  BY <1>1, SessionAlways, PTL

\* Which command may take away a directory, or touch its load, and by what name.
Allowed(p, name) ==
  /\ mode = "local" /\ command' \in {<<"drop", name>>, <<"ingest", name>>}
  /\ command' = <<"ingest", name>> =>
       name = activeDB /\ p = Place(name) /\ p \in DOMAIN disk'
  /\ Inward(name) /\ localRoot \in DOMAIN disk => IsPrefix(localRoot, p)
  /\ Single(name) => \/ IsPrefix(localRoot \o NamePath[name], p)
                     \/ p = localRoot /\ p \in DOMAIN disk'

\* A \drop takes what lies below the path it is given, or a file of the store above.
LEMMA DropLoses ==
  ASSUME TypeOK, DropDB, NEW p \in DOMAIN disk, Lost(p)
  PROVE  \E name \in Names : Allowed(p, name)
<1>1. PICK name \in Names :
        /\ mode = "local"
        /\ RemoveAll(Place(name)) \/ RemoveFile(Place(name))
        /\ command' = <<"drop", name>>
  BY DEF DropDB
<1> DEFINE at == Place(name)
<1>2. /\ p \in Directory /\ localRoot \in Directory /\ at \in Directory
      /\ DOMAIN disk \subseteq Directory
  BY PlaceTypes DEF TypeOK
<1>3. /\ Inward(name) => IsPrefix(localRoot, at)
      /\ Single(name) => /\ at = localRoot \o NamePath[name]
                         /\ at # <<>> /\ Front(at) = localRoot
  BY <1>2, JoinFacts DEF Place
<1>4. command' # <<"ingest", name>>
  BY <1>1
<1> HIDE DEF at
<1>5. CASE RemoveAll(at)
  <2>1. PICK kept, spoilt : Left(at, kept, spoilt)
    BY <1>2, <1>5, RemoveAllLeaves
  <2>2. IsPrefix(at, p)
    <3>1. SUFFICES ASSUME ~IsPrefix(at, p) PROVE FALSE
      OBVIOUS
    <3>2. p \notin Below(at)
      BY <3>1 DEF Below
    <3>3. p \in DOMAIN disk' /\ disk'[p] = disk[p]
      BY <2>1, <3>2 DEF Left
    <3> QED
      BY <3>3 DEF Lost
  <2>3. Inward(name) => IsPrefix(localRoot, p)
    BY <1>2, <1>3, <2>2, PrefixFacts
  <2>4. Single(name) => IsPrefix(localRoot \o NamePath[name], p)
    BY <1>3, <2>2
  <2> QED
    BY <1>1, <1>4, <2>3, <2>4 DEF Allowed
<1>6. CASE RemoveFile(at)
  <2>1. /\ at \notin DOMAIN disk /\ Front(at) \in DOMAIN disk
        /\ disk' = Holding(Front(at), "partial")
    BY <1>6 DEF RemoveFile
  <2>2. p = Front(at) /\ p \in DOMAIN disk'
    BY <2>1 DEF Holding, Lost
  <2>3. at # <<>>
    BY <2>1 DEF TypeOK
  <2>4. Inward(name) /\ localRoot \in DOMAIN disk => IsPrefix(localRoot, p)
    BY <1>2, <1>3, <2>1, <2>2, <2>3, FrontFacts
  <2>5. Single(name) => p = localRoot
    BY <1>3, <2>2
  <2> QED
    BY <1>1, <1>4, <2>2, <2>4, <2>5 DEF Allowed
<1> QED
  BY <1>1, <1>5, <1>6 DEF at

\* An \i touches the load of the active database, and leaves the directory.
LEMMA IngestTouches ==
  ASSUME TypeOK, IngestDB, NEW p \in DOMAIN disk, Lost(p)
  PROVE  Allowed(p, activeDB) /\ activeDB \in Names
<1>1. activeDB \in Names /\ mode = "local" /\ command' = <<"ingest", activeDB>>
  BY DEF TypeOK, IngestDB
<1> DEFINE at == Place(activeDB)
<1>2. localRoot \in Directory /\ at \in Directory
  BY <1>1, PlaceTypes DEF TypeOK
<1>3. /\ Inward(activeDB) => IsPrefix(localRoot, at)
      /\ Single(activeDB) => at = localRoot \o NamePath[activeDB]
  BY <1>1, <1>2, JoinFacts DEF Place
<1>4. \E content : disk' = Holding(at, content)
  BY DEF IngestDB
<1> HIDE DEF at
<1>5. p \in DOMAIN disk' /\ (p # at => disk'[p] = disk[p])
  BY <1>4 DEF Holding
<1>6. p = at
  BY <1>5 DEF Lost
<1>7. IsPrefix(at, at)
  BY <1>2, PrefixFacts
<1> QED
  BY <1>1, <1>3, <1>5, <1>6, <1>7 DEF Allowed, at

\* No other step takes a directory away or touches a load.
LEMMA SurvivalStep ==
  ASSUME SessionInv, [Next]_vars, NEW p \in DOMAIN disk, Lost(p)
  PROVE  \E name \in Names : Allowed(p, name)
<1>t. TypeOK
  BY DEF SessionInv
<1>1. disk' # disk
  BY DEF Lost
<1>2. ~CreateDB
  <2>1. SUFFICES ASSUME CreateDB PROVE FALSE
    OBVIOUS
  <2>2. PICK made : disk' = Made(made)
    BY <2>1 DEF CreateDB
  <2>3. p \in DOMAIN disk' /\ disk'[p] = disk[p]
    BY <2>2 DEF Made
  <2> QED
    BY <2>3 DEF Lost
<1>3. CreateDB \/ DropDB \/ IngestDB
  BY <1>1 DEF Next, vars, Connect, Use, UseFails, Query, RunBenchmark, ToggleResults,
              Quit, Environment
<1> QED
  BY <1>t, <1>2, <1>3, DropLoses, IngestTouches

\* Whatever names and roots are given, as words or as paths that climb, and
\* whatever fails: directories and their loads are taken away by a \drop, or
\* touched by an \i into the active database, only where that may happen.
THEOREM DatabasesAlwaysSurvive == Spec => DatabasesSurvive
<1>1. SessionInv /\ [Next]_vars =>
        [\A p \in DOMAIN disk : Lost(p) =>
           \E name \in Names :
             /\ mode = "local" /\ command' \in {<<"drop", name>>, <<"ingest", name>>}
             /\ command' = <<"ingest", name>> =>
                  name = activeDB /\ p = Place(name) /\ p \in DOMAIN disk'
             /\ Inward(name) /\ localRoot \in DOMAIN disk => IsPrefix(localRoot, p)
             /\ Single(name) => \/ IsPrefix(localRoot \o NamePath[name], p)
                                \/ p = localRoot /\ p \in DOMAIN disk']_vars
  BY SurvivalStep DEF Allowed
<1> QED
  BY <1>1, SessionAlways, PTL DEF Spec, DatabasesSurvive
=============================================================================
