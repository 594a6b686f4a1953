----------------------------- MODULE WireProofs -----------------------------
(***************************************************************************)
(* Proofs about the text of messages: what split, Join and Total compute   *)
(* for strings of any length over any tokens, and from that the            *)
(* invariants of module Wire.                                              *)
(***************************************************************************)
EXTENDS Wire, SequenceTheorems, FiniteSetTheorems, TLAPS

-----------------------------------------------------------------------------
(***************************************************************************)
(* Induction.                                                              *)
(***************************************************************************)
\* Every non-empty set of natural numbers has a least element.
LEMMA SmallestNumber ==
    ASSUME NEW T \in SUBSET Nat, T # {}
    PROVE  \E x \in T : \A y \in T : x <= y
<1> DEFINE R == StrictSubsetOrdering(Nat)
           U == {0 .. x : x \in T}
<1>1. U \subseteq FiniteSubsetsOf(Nat)
  <2> SUFFICES ASSUME NEW x \in T PROVE 0 .. x \in FiniteSubsetsOf(Nat)
    OBVIOUS
  <2>1. IsFiniteSet(0 .. x)
    BY FS_Interval
  <2> QED
    BY <2>1 DEF FiniteSubsetsOf
<1>2. U # {}
  OBVIOUS
<1>3. IsWellFoundedOn(R, FiniteSubsetsOf(Nat))
  BY FS_StrictSubsetOrderingWellFounded
<1>4. PICK u \in U : \A v \in U : ~ (<<v, u>> \in R)
  <2> HIDE DEF R, U
  <2> QED
    BY <1>1, <1>2, <1>3, WFMin
<1>5. PICK x \in T : u = 0 .. x
  OBVIOUS
<1>6. ASSUME NEW y \in T, y < x PROVE FALSE
  <2>1. <<0 .. y, 0 .. x>> \notin R
    BY <1>4, <1>5
  <2>2. 0 .. y \subseteq 0 .. x /\ x \in 0 .. x /\ x \notin 0 .. y
    BY <1>6
  <2>3. 0 .. y \subseteq Nat /\ 0 .. x \subseteq Nat
    OBVIOUS
  <2> QED
    BY <2>1, <2>2, <2>3 DEF StrictSubsetOrdering
<1> QED
  BY <1>6

\* A set of sequences that holds the empty one and with each sequence those that are one
\* element longer, holds them all.
LEMMA AllSequences ==
    ASSUME NEW T, NEW P \in SUBSET Seq(T), <<>> \in P,
           \A s \in P, t \in T : Append(s, t) \in P
    PROVE  \A s \in Seq(T) : s \in P
<1> DEFINE Bad == {Len(s) : s \in Seq(T) \ P}
<1> SUFFICES ASSUME Bad # {} PROVE FALSE
  OBVIOUS
<1>1. Bad \in SUBSET Nat
  BY LenProperties
<1>2. PICK n \in Bad : \A m \in Bad : n <= m
  <2> HIDE DEF Bad
  <2> QED
    BY <1>1, SmallestNumber
<1>3. PICK s \in Seq(T) : s \notin P /\ n = Len(s)
  OBVIOUS
<1>4. s # <<>>
  BY <1>3
<1>5. PICK r \in Seq(T), t \in T : s = Append(r, t)
  BY <1>4, SequenceEmptyOrAppend
<1>6. Len(r) \in Nat /\ Len(s) = Len(r) + 1
  BY <1>5, AppendProperties, LenProperties
<1>7. Len(r) \notin Bad
  <2>1. \A m \in Bad : m \in Nat /\ n <= m
    BY <1>1, <1>2
  <2> HIDE DEF Bad
  <2> QED
    BY <1>3, <1>6, <2>1
<1>8. r \in P
  BY <1>7
<1> QED
  BY <1>3, <1>5, <1>8

\* Two histories that begin alike and go on alike.
Alike(f, g, n) == f[0] = g[0] /\ \A k \in 1 .. n : f[k - 1] = g[k - 1] => f[k] = g[k]

\* They end alike.
LEMMA SameEnd == ASSUME NEW n \in Nat, NEW f, NEW g, Alike(f, g, n) PROVE f[n] = g[n]
<1> DEFINE T == {k \in 0 .. n : f[k] # g[k]}
<1> SUFFICES ASSUME T # {} PROVE FALSE
  OBVIOUS
<1>1. T \in SUBSET Nat
  OBVIOUS
<1>2. PICK x \in T : \A y \in T : x <= y
  <2> HIDE DEF T
  <2> QED
    BY <1>1, SmallestNumber
<1>3. x \in 1 .. n /\ x - 1 \in 0 .. n /\ x - 1 \notin T
  BY <1>2 DEF Alike
<1> QED
  BY <1>2, <1>3 DEF Alike

\* There is a history for every beginning and every step.
History(f, n, S, a, step) == f \in [0 .. n -> S] /\ f[0] = a /\ \A k \in 1 .. n : f[k] = step[k][f[k - 1]]

\* Whatever the steps are, there is a history of them.
LEMMA HistoryExists ==
    ASSUME NEW n \in Nat, NEW S, NEW a \in S, NEW step \in [1 .. n -> [S -> S]]
    PROVE  \E f : History(f, n, S, a, step)
<1> DEFINE Bad == {m \in 0 .. n : ~ \E f : History(f, m, S, a, step)}
<1> SUFFICES ASSUME Bad # {} PROVE FALSE
  <2>1. n \notin Bad
    OBVIOUS
  <2> QED
    BY <2>1
<1>1. Bad \in SUBSET Nat
  OBVIOUS
<1>2. PICK m \in Bad : \A x \in Bad : m <= x
  <2> HIDE DEF Bad
  <2> QED
    BY <1>1, SmallestNumber
<1>3. m # 0
  <2>1. History([k \in 0 .. 0 |-> a], 0, S, a, step)
    BY DEF History
  <2> QED
    BY <1>2, <2>1
<1>4. m \in 1 .. n /\ m - 1 \in 0 .. n /\ m - 1 \notin Bad
  BY <1>2, <1>3
<1>5. PICK f : History(f, m - 1, S, a, step)
  BY <1>4
<1> DEFINE g == [k \in 0 .. m |-> IF k = m THEN step[m][f[m - 1]] ELSE f[k]]
<1>6. step[m] \in [S -> S] /\ f[m - 1] \in S /\ f \in [0 .. m - 1 -> S]
  BY <1>4, <1>5 DEF History
<1>7. g \in [0 .. m -> S] /\ g[0] = a
  BY <1>4, <1>5, <1>6 DEF History
<1>8. ASSUME NEW k \in 1 .. m PROVE g[k] = step[k][g[k - 1]]
  <2>1. k - 1 \in 0 .. m - 1 /\ g[k - 1] = f[k - 1]
    BY <1>4
  <2>2. CASE k = m
    BY <2>1, <2>2
  <2>3. CASE k # m
    BY <1>4, <1>5, <2>1, <2>3 DEF History
  <2> QED
    BY <2>2, <2>3
<1>9. History(g, m, S, a, step)
  BY <1>7, <1>8 DEF History
<1> QED
  BY <1>2, <1>9

-----------------------------------------------------------------------------
(***************************************************************************)
(* Short sequences and parts of sequences.                                 *)
(***************************************************************************)
\* A sequence of one element.
LEMMA Singleton ==
    ASSUME NEW S, NEW x \in S
    PROVE  <<x>> \in Seq(S)
OBVIOUS

\* A sequence of two.
LEMMA Pair ==
    ASSUME NEW S, NEW a \in S, NEW b \in S
    PROVE  <<a, b>> \in Seq(S) /\ Len(<<a, b>>) = 2
OBVIOUS

\* A sequence of three.
LEMMA Triple ==
    ASSUME NEW S, NEW a \in S, NEW b \in S, NEW c \in S
    PROVE  <<a, b, c>> \in Seq(S) /\ Len(<<a, b, c>>) = 3
OBVIOUS

\* Sequences of elements of A are sequences of elements of a larger set.
LEMMA SeqSubset == ASSUME NEW A, NEW B, A \subseteq B PROVE Seq(A) \subseteq Seq(B)
OBVIOUS

\* So it is with sequences of strings.
LEMMA SeqMore == ASSUME NEW T, NEW U \in SUBSET T PROVE Seq(Seq(U)) \subseteq Seq(Seq(T))
BY SeqSubset

\* A sequence is a function.
LEMMA SeqFunction ==
    ASSUME NEW S, NEW q \in Seq(S)
    PROVE  q = [k \in DOMAIN q |-> q[k]] /\ DOMAIN q = 1 .. Len(q) /\ \A k \in DOMAIN q : q[k] \in S
OBVIOUS

\* A function on 1 .. n is a sequence.
LEMMA FunctionSeq ==
    ASSUME NEW S, NEW n \in Nat, NEW q \in [1 .. n -> S]
    PROVE  q \in Seq(S) /\ Len(q) = n
OBVIOUS

\* The elements of short sequences.
LEMMA Elements ==
    ASSUME NEW S, NEW q \in Seq(S)
    PROVE  /\ Len(q) = 2 => q[2] \in S
           /\ Len(q) = 3 => q[2] \in S /\ q[3] \in S
           /\ Len(q) = 5 => q[4] \in S
OBVIOUS

\* How to recognise a sequence as another one with an element more.
LEMMA IsAppend ==
    ASSUME NEW T, NEW u \in Seq(T), NEW t \in Seq(T), NEW x \in T, Len(u) = Len(t) + 1, u[Len(t) + 1] = x,
           \A k \in 1 .. Len(t) : u[k] = t[k]
    PROVE  u = Append(t, x)
<1>1. PICK v \in Seq(T) : v = Append(t, x)
  BY AppendProperties
<1>2. Len(t) \in Nat /\ Len(v) = Len(t) + 1 /\ v[Len(t) + 1] = x /\ \A k \in 1 .. Len(t) : v[k] = t[k]
  BY <1>1, AppendProperties, LenProperties
<1>3. \A k \in 1 .. Len(u) : k \in 1 .. Len(t) \/ k = Len(t) + 1
  BY <1>2
<1>4. \A k \in 1 .. Len(u) : u[k] = v[k]
  BY <1>2, <1>3, Zenon
<1>5. u = v
  BY <1>2, <1>4, SeqEqual
<1> QED
  BY <1>1, <1>5

\* A pair, put together.
LEMMA PairOf ==
    ASSUME NEW S, NEW a \in S, NEW b \in S
    PROVE  Append(<<a>>, b) = <<a, b>> /\ <<a>> \o <<b>> = <<a, b>>
<1>1. PICK t \in Seq(S) : t = <<a>> /\ Len(t) = 1 /\ t[1] = a
  <2>1. <<a>> \in Seq(S)
    BY Singleton
  <2>2. Len(<<a>>) = 1 /\ <<a>>[1] = a
    OBVIOUS
  <2> QED
    BY <2>1, <2>2, Zenon
<1>2. PICK u \in Seq(S) : u = <<a, b>> /\ Len(u) = 2 /\ u[1] = a /\ u[2] = b
  <2>1. <<a, b>> \in Seq(S)
    BY Pair
  <2>2. Len(<<a, b>>) = 2 /\ <<a, b>>[1] = a /\ <<a, b>>[2] = b
    OBVIOUS
  <2> QED
    BY <2>1, <2>2, Zenon
<1>3. Len(u) = Len(t) + 1 /\ u[Len(t) + 1] = b /\ \A k \in 1 .. Len(t) : u[k] = t[k]
  BY <1>1, <1>2
<1>4. u = Append(t, b)
  BY <1>3, IsAppend
<1>5. Append(t, b) = t \o <<b>>
  BY AppendIsConcat
<1> QED
  BY <1>1, <1>2, <1>4, <1>5, Zenon

\* Two parts by their names.
LEMMA TwoParts ==
    ASSUME NEW S, NEW p \in Seq(S), Len(p) = 2
    PROVE  \E a, b \in S : a = p[1] /\ b = p[2] /\ p = <<a, b>>
<1>1. p[1] \in S /\ p[2] \in S
  <2>1. \A k \in 1 .. 2 : p[k] \in S
    BY ElementOfSeq
  <2> QED
    BY <2>1
<1>2. p = <<p[1], p[2]>>
  OBVIOUS
<1> QED
  BY <1>1, <1>2, Zenon

\* Three parts by their names.
LEMMA ThreeParts ==
    ASSUME NEW S, NEW p \in Seq(S), Len(p) = 3
    PROVE  \E a, b, c \in S : a = p[1] /\ b = p[2] /\ c = p[3] /\ p = <<a, b, c>>
<1>1. p[1] \in S /\ p[2] \in S /\ p[3] \in S
  <2>1. \A k \in 1 .. 3 : p[k] \in S
    BY ElementOfSeq
  <2> QED
    BY <2>1
<1>2. p = <<p[1], p[2], p[3]>>
  OBVIOUS
<1> QED
  BY <1>1, <1>2, Zenon

\* Five parts by their names.
LEMMA FiveParts ==
    ASSUME NEW S, NEW p \in Seq(S), Len(p) = 5
    PROVE  \E a, b, c, d, e \in S :
              a = p[1] /\ b = p[2] /\ c = p[3] /\ d = p[4] /\ e = p[5] /\ p = <<a, b, c, d, e>>
<1>1. p[1] \in S /\ p[2] \in S /\ p[3] \in S /\ p[4] \in S /\ p[5] \in S
  <2>1. \A k \in 1 .. 5 : p[k] \in S
    BY ElementOfSeq
  <2> QED
    BY <2>1
<1>2. p = <<p[1], p[2], p[3], p[4], p[5]>>
  OBVIOUS
<1> QED
  BY <1>1, <1>2, Zenon

\* A sequence with an element put before it.
LEMMA Prefixed ==
    ASSUME NEW S, NEW x \in S, NEW f \in Seq(S)
    PROVE  LET p == <<x>> \o f
           IN  /\ p \in Seq(S) /\ Len(p) = Len(f) + 1 /\ p # <<>> /\ p[1] = x
               /\ (Len(f) >= 1 => p[2] = f[1]) /\ (Len(f) >= 2 => p[3] = f[2]) /\ (Len(f) >= 3 => p[4] = f[3])
<1>1. PICK t \in Seq(S) : t = <<x>> /\ Len(t) = 1 /\ t[1] = x
  <2>1. <<x>> \in Seq(S)
    BY Singleton
  <2>2. Len(<<x>>) = 1 /\ <<x>>[1] = x
    OBVIOUS
  <2> QED
    BY <2>1, <2>2, Zenon
<1>2. Len(f) \in Nat
  BY LenProperties
<1>3. /\ t \o f \in Seq(S) /\ Len(t \o f) = 1 + Len(f)
      /\ \A k \in 1 .. 1 + Len(f) : (t \o f)[k] = IF k <= 1 THEN t[k] ELSE f[k - 1]
  BY <1>1, ConcatProperties
<1> DEFINE p == t \o f
<1> HIDE DEF p
<1>4. p \in Seq(S) /\ Len(p) = Len(f) + 1 /\ \A k \in 1 .. 1 + Len(f) : p[k] = IF k <= 1 THEN t[k] ELSE f[k - 1]
  BY <1>2, <1>3 DEF p
<1>5. p # <<>>
  BY <1>2, <1>4, EmptySeq
<1>6. p[1] = x
  BY <1>1, <1>2, <1>4
<1>7. Len(f) >= 1 => p[2] = f[1]
  BY <1>2, <1>4
<1>8. Len(f) >= 2 => p[3] = f[2]
  BY <1>2, <1>4
<1>9. Len(f) >= 3 => p[4] = f[3]
  BY <1>2, <1>4
<1> QED
  BY <1>1, <1>4, <1>5, <1>6, <1>7, <1>8, <1>9 DEF p

-----------------------------------------------------------------------------
(***************************************************************************)
(* Total, token by token.                                                  *)
(***************************************************************************)
\* How it comes about, step by step.
TotalHistory(f, s, w) ==
    f[0] = 0 /\ \A k \in 1 .. Len(s) : f[k] = f[k - 1] + w[s[k]]

\* Total is the end of the one history that the recursive function in its definition has.
LEMMA TotalOf ==
    ASSUME NEW T, NEW s \in Seq(T), NEW w \in [T -> Nat]
    PROVE  \E f : TotalHistory(f, s, w) /\ Total(s, w) = f[Len(s)] /\ f[Len(s)] \in Nat
<1> DEFINE n == Len(s)
           step == [k \in 1 .. n |-> [x \in Nat |-> x + w[s[k]]]]
           result == CHOOSE f : f = [k \in 0 .. n |-> IF k = 0 THEN 0 ELSE f[k - 1] + w[s[k]]]
<1>1. n \in Nat
  BY LenProperties
<1>2. 0 \in Nat /\ step \in [1 .. n -> [Nat -> Nat]]
  BY <1>1, ElementOfSeq
<1>3. PICK f : History(f, n, Nat, 0, step)
  <2>1. 0 \in Nat
    BY <1>2
  <2>2. step \in [1 .. n -> [Nat -> Nat]]
    BY <1>2
  <2> HIDE DEF n, step
  <2> QED
    BY ONLY <1>1, <2>1, <2>2, HistoryExists
<1>4. f \in [0 .. n -> Nat] /\ f[0] = 0 /\ \A k \in 1 .. n : f[k] = step[k][f[k - 1]]
  BY <1>3 DEF History
<1>5. \A k \in 1 .. n : f[k] = f[k - 1] + w[s[k]]
  <2> SUFFICES ASSUME NEW k \in 1 .. n PROVE f[k] = f[k - 1] + w[s[k]]
    OBVIOUS
  <2>1. k - 1 \in 0 .. n
    <3> HIDE DEF n
    <3> QED
      BY <1>1
  <2>2. f[k - 1] \in Nat
    BY <1>4, <2>1
  <2>3. f[k] = step[k][f[k - 1]]
    BY <1>4
  <2> QED
    BY <2>2, <2>3
<1>6. \A k \in 0 .. n : k = 0 \/ k \in 1 .. n
  <2> HIDE DEF n
  <2> QED
    BY <1>1
<1>7. f = [k \in 0 .. n |-> IF k = 0 THEN 0 ELSE f[k - 1] + w[s[k]]]
  <2> HIDE DEF n, step
  <2>1. \A k \in 0 .. n : f[k] = IF k = 0 THEN 0 ELSE f[k - 1] + w[s[k]]
    BY <1>4, <1>5, <1>6, Zenon
  <2> QED
    BY <1>4, <2>1, Zenon
<1>8. result = [k \in 0 .. n |-> IF k = 0 THEN 0 ELSE result[k - 1] + w[s[k]]]
  BY <1>7, Zenon
<1>9. Total(s, w) = result[n]
  BY DEF Total
<1> HIDE DEF n, step, result
<1>10. \A k \in 0 .. n : result[k] = IF k = 0 THEN 0 ELSE result[k - 1] + w[s[k]]
  BY <1>8, Zenon
<1>11. 0 \in 0 .. n /\ n \in 0 .. n /\ \A k \in 1 .. n : k \in 0 .. n /\ k # 0
  BY <1>1
<1>12. Alike(result, f, n)
  BY <1>4, <1>5, <1>10, <1>11, Zenon DEF Alike
<1>13. result[n] = f[n]
  BY <1>1, <1>12, SameEnd, Zenon
<1>14. TotalHistory(f, s, w) /\ f[n] \in Nat
  <2>1. f[n] \in Nat
    BY <1>4, <1>11, Zenon
  <2> QED
    BY <1>4, <1>5, <2>1, Zenon DEF TotalHistory, n
<1> QED
  BY <1>9, <1>13, <1>14, Zenon DEF n

\* The empty string has none.
LEMMA TotalEmpty == ASSUME NEW T, NEW w \in [T -> Nat] PROVE Total(<<>>, w) = 0
<1>1. <<>> \in Seq(T) /\ Len(<<>>) = 0
  BY EmptySeq
<1>2. PICK f : TotalHistory(f, <<>>, w) /\ Total(<<>>, w) = f[0]
  BY <1>1, TotalOf, Zenon
<1> QED
  BY <1>2 DEF TotalHistory

\* Its type.
LEMMA TotalType == ASSUME NEW T, NEW s \in Seq(T), NEW w \in [T -> Nat] PROVE Total(s, w) \in Nat
BY TotalOf, Zenon

\* One more token.
LEMMA TotalAppend ==
    ASSUME NEW T, NEW s \in Seq(T), NEW t \in T, NEW w \in [T -> Nat]
    PROVE  Total(Append(s, t), w) = Total(s, w) + w[t]
<1> DEFINE n == Len(s)
           r == Append(s, t)
<1>1. n \in Nat /\ Len(r) = n + 1 /\ r[n + 1] = t /\ \A k \in 1 .. n : r[k] = s[k]
  BY AppendProperties, LenProperties
<1>2. r \in Seq(T)
  BY AppendProperties
<1>3. PICK f : TotalHistory(f, s, w) /\ Total(s, w) = f[n]
  BY TotalOf, Zenon
<1>4. PICK g : TotalHistory(g, r, w) /\ Total(r, w) = g[Len(r)]
  <2> HIDE DEF r
  <2> QED
    BY <1>2, TotalOf, Zenon
<1>5. f[0] = 0 /\ \A k \in 1 .. n : f[k] = f[k - 1] + w[s[k]]
  BY <1>3, Zenon DEF TotalHistory
<1> HIDE DEF n, r
<1>6. g[0] = 0 /\ \A k \in 1 .. n + 1 : g[k] = g[k - 1] + w[r[k]]
  BY <1>1, <1>4, Zenon DEF TotalHistory
<1>7. n + 1 \in 1 .. n + 1 /\ (n + 1) - 1 = n /\ \A k \in 1 .. n : k \in 1 .. n + 1
  BY <1>1
<1>8. Alike(f, g, n)
  BY <1>1, <1>5, <1>6, <1>7, Zenon DEF Alike
<1>9. f[n] = g[n]
  BY <1>1, <1>8, SameEnd, Zenon
<1>10. g[n + 1] = g[n] + w[t]
  BY <1>1, <1>6, <1>7, Zenon
<1> QED
  BY <1>1, <1>3, <1>4, <1>9, <1>10, Zenon DEF r

-----------------------------------------------------------------------------
(***************************************************************************)
(* split, token by token.                                                  *)
(***************************************************************************)
\* One or more strings.
Components(T) == Seq(Seq(T)) \ {<<>>}

\* add_token keeps the components a non-empty list of strings.
LEMMA ComponentsType ==
    ASSUME NEW T, NEW sep
    PROVE  /\ <<<<>>>> \in Components(T)
           /\ \A x \in Components(T), t \in T \cup {sep} : add_token(x, t, sep) \in Components(T)
<1>1. <<<<>>>> \in Components(T)
  <2>1. <<>> \in Seq(T)
    BY EmptySeq
  <2> QED
    BY <2>1 DEF Components
<1>2. ASSUME NEW x \in Components(T), NEW t \in T \cup {sep} PROVE add_token(x, t, sep) \in Components(T)
  <2>1. x \in Seq(Seq(T)) /\ x # <<>> /\ Len(x) \in Nat /\ Len(x) \in 1 .. Len(x)
    BY LenProperties, EmptySeq DEF Components
  <2>2. x[Len(x)] \in Seq(T)
    BY <2>1, ElementOfSeq
  <2>3. Append(x, <<>>) \in Components(T)
    BY <2>1, EmptySeq, AppendProperties DEF Components
  <2>4. SUFFICES ASSUME t # sep PROVE [x EXCEPT ![Len(x)] = Append(@, t)] \in Components(T)
    BY <2>3 DEF add_token
  <2>5. Append(x[Len(x)], t) \in Seq(T)
    BY <2>2, <2>4, AppendProperties
  <2>6. [x EXCEPT ![Len(x)] = Append(@, t)] \in Components(T)
    <3> DEFINE y == Append(x[Len(x)], t)
    <3>1. [x EXCEPT ![Len(x)] = y] \in Seq(Seq(T)) /\ Len([x EXCEPT ![Len(x)] = y]) = Len(x)
      <4> HIDE DEF y
      <4>1. y \in Seq(T)
        BY <2>5 DEF y
      <4> QED
        BY <2>1, <4>1, ExceptSeq
    <3>2. [x EXCEPT ![Len(x)] = y] # <<>>
      BY <2>1, <3>1, EmptySeq
    <3> QED
      BY <3>1, <3>2 DEF Components
  <2> QED
    BY <2>6
<1> QED
  BY <1>1, <1>2

\* How it comes about, step by step.
SplitHistory(f, s, sep) ==
    f[0] = <<<<>>>> /\ \A k \in 1 .. Len(s) : f[k] = add_token(f[k - 1], s[k], sep)

\* split is the end of its history.
LEMMA SplitOf ==
    ASSUME NEW T, NEW s \in Seq(T), NEW sep
    PROVE  \E f : SplitHistory(f, s, sep) /\ split(s, sep) = f[Len(s)] /\ f[Len(s)] \in Components(T)
<1> DEFINE n == Len(s)
           step == [k \in 1 .. n |-> [x \in Components(T) |-> add_token(x, s[k], sep)]]
           result == CHOOSE f : f = [k \in 0 .. n |-> IF k = 0 THEN <<<<>>>> ELSE add_token(f[k - 1], s[k], sep)]
<1>1. n \in Nat
  BY LenProperties
<1>2. <<<<>>>> \in Components(T) /\ step \in [1 .. n -> [Components(T) -> Components(T)]]
  <2>1. \A k \in 1 .. n : s[k] \in T
    BY ElementOfSeq
  <2> HIDE DEF n
  <2> QED
    BY <2>1, ComponentsType, Zenon
<1>3. PICK f : History(f, n, Components(T), <<<<>>>>, step)
  <2>1. <<<<>>>> \in Components(T)
    BY <1>2
  <2>2. step \in [1 .. n -> [Components(T) -> Components(T)]]
    BY <1>2
  <2> HIDE DEF n, step
  <2> QED
    BY ONLY <1>1, <2>1, <2>2, HistoryExists
<1>4. f \in [0 .. n -> Components(T)] /\ f[0] = <<<<>>>> /\ \A k \in 1 .. n : f[k] = step[k][f[k - 1]]
  BY <1>3 DEF History
<1>5. \A k \in 1 .. n : f[k] = add_token(f[k - 1], s[k], sep)
  <2> SUFFICES ASSUME NEW k \in 1 .. n PROVE f[k] = add_token(f[k - 1], s[k], sep)
    OBVIOUS
  <2>1. k - 1 \in 0 .. n
    <3> HIDE DEF n
    <3> QED
      BY <1>1
  <2>2. f[k - 1] \in Components(T)
    BY <1>4, <2>1
  <2>3. f[k] = step[k][f[k - 1]]
    BY <1>4
  <2> QED
    BY <2>2, <2>3
<1>6. \A k \in 0 .. n : k = 0 \/ k \in 1 .. n
  <2> HIDE DEF n
  <2> QED
    BY <1>1
<1>7. f = [k \in 0 .. n |-> IF k = 0 THEN <<<<>>>> ELSE add_token(f[k - 1], s[k], sep)]
  <2> HIDE DEF n, step
  <2>1. \A k \in 0 .. n : f[k] = IF k = 0 THEN <<<<>>>> ELSE add_token(f[k - 1], s[k], sep)
    BY <1>4, <1>5, <1>6, Zenon
  <2> QED
    BY <1>4, <2>1, Zenon
<1>8. result = [k \in 0 .. n |-> IF k = 0 THEN <<<<>>>> ELSE add_token(result[k - 1], s[k], sep)]
  BY <1>7, Zenon
<1>9. split(s, sep) = result[n]
  BY DEF split
<1> HIDE DEF n, step, result
<1>10. \A k \in 0 .. n : result[k] = IF k = 0 THEN <<<<>>>> ELSE add_token(result[k - 1], s[k], sep)
  BY <1>8, Zenon
<1>11. 0 \in 0 .. n /\ n \in 0 .. n /\ \A k \in 1 .. n : k \in 0 .. n /\ k # 0
  BY <1>1
<1>12. Alike(result, f, n)
  BY <1>4, <1>5, <1>10, <1>11, Zenon DEF Alike
<1>13. result[n] = f[n]
  BY <1>1, <1>12, SameEnd, Zenon
<1>14. SplitHistory(f, s, sep) /\ f[n] \in Components(T)
  <2>1. f[n] \in Components(T)
    BY <1>4, <1>11, Zenon
  <2> QED
    BY <1>4, <1>5, <2>1, Zenon DEF SplitHistory, n
<1> QED
  BY <1>9, <1>13, <1>14, Zenon DEF n

\* The empty string has one empty component.
LEMMA SplitEmpty == ASSUME NEW T, NEW sep PROVE split(<<>>, sep) = <<<<>>>>
<1>1. <<>> \in Seq(T) /\ Len(<<>>) = 0
  BY EmptySeq
<1>2. PICK f : SplitHistory(f, <<>>, sep) /\ split(<<>>, sep) = f[0]
  BY <1>1, SplitOf, Zenon
<1> QED
  BY <1>2 DEF SplitHistory

\* Its type.
LEMMA SplitType == ASSUME NEW T, NEW s \in Seq(T), NEW sep PROVE split(s, sep) \in Components(T)
BY SplitOf, Zenon

\* One more token.
LEMMA SplitAppend ==
    ASSUME NEW T, NEW s \in Seq(T), NEW t \in T, NEW sep
    PROVE  split(Append(s, t), sep) = add_token(split(s, sep), t, sep)
<1> DEFINE n == Len(s)
           r == Append(s, t)
<1>1. n \in Nat /\ Len(r) = n + 1 /\ r[n + 1] = t /\ \A k \in 1 .. n : r[k] = s[k]
  BY AppendProperties, LenProperties
<1>2. r \in Seq(T)
  BY AppendProperties
<1>3. PICK f : SplitHistory(f, s, sep) /\ split(s, sep) = f[n]
  BY SplitOf, Zenon
<1>4. PICK g : SplitHistory(g, r, sep) /\ split(r, sep) = g[Len(r)]
  <2> HIDE DEF r
  <2> QED
    BY <1>2, SplitOf, Zenon
<1>5. f[0] = <<<<>>>> /\ \A k \in 1 .. n : f[k] = add_token(f[k - 1], s[k], sep)
  BY <1>3, Zenon DEF SplitHistory
<1> HIDE DEF n, r
<1>6. g[0] = <<<<>>>> /\ \A k \in 1 .. n + 1 : g[k] = add_token(g[k - 1], r[k], sep)
  BY <1>1, <1>4, Zenon DEF SplitHistory
<1>7. n + 1 \in 1 .. n + 1 /\ (n + 1) - 1 = n /\ \A k \in 1 .. n : k \in 1 .. n + 1
  BY <1>1
<1>8. Alike(f, g, n)
  BY <1>1, <1>5, <1>6, <1>7, Zenon DEF Alike
<1>9. f[n] = g[n]
  BY <1>1, <1>8, SameEnd, Zenon
<1>10. g[n + 1] = add_token(g[n], t, sep)
  BY <1>1, <1>6, <1>7, Zenon
<1> QED
  BY <1>1, <1>3, <1>4, <1>9, <1>10, Zenon DEF r

-----------------------------------------------------------------------------
(***************************************************************************)
(* Join, part by part.                                                     *)
(***************************************************************************)
\* How it comes about, step by step.
JoinHistory(f, s, glue) ==
    f[0] = <<>> /\ \A k \in 1 .. Len(s) : f[k] = f[k - 1] \o (IF k > 1 THEN glue ELSE <<>>) \o s[k]

\* Join is the end of its history.
LEMMA JoinOf ==
    ASSUME NEW T, NEW s \in Seq(Seq(T)), NEW glue \in Seq(T)
    PROVE  \E f : JoinHistory(f, s, glue) /\ Join(s, glue) = f[Len(s)] /\ f[Len(s)] \in Seq(T)
<1> DEFINE n == Len(s)
           step == [k \in 1 .. n |-> [x \in Seq(T) |-> x \o (IF k > 1 THEN glue ELSE <<>>) \o s[k]]]
           result == CHOOSE f : f = [k \in 0 .. n |-> IF k = 0 THEN <<>> ELSE f[k - 1] \o (IF k > 1 THEN glue ELSE <<>>) \o s[k]]
<1>1. n \in Nat
  BY LenProperties
<1>2. <<>> \in Seq(T) /\ step \in [1 .. n -> [Seq(T) -> Seq(T)]]
  <2>1. <<>> \in Seq(T)
    BY EmptySeq
  <2>2. ASSUME NEW k \in 1 .. n, NEW x \in Seq(T)
        PROVE  x \o (IF k > 1 THEN glue ELSE <<>>) \o s[k] \in Seq(T)
    <3>1. PICK p \in Seq(T) : p = s[k]
      BY ElementOfSeq
    <3>2. PICK q \in Seq(T) : q = IF k > 1 THEN glue ELSE <<>>
      BY <2>1
    <3>3. x \o q \o p \in Seq(T)
      BY ConcatProperties
    <3> QED
      BY <3>1, <3>2, <3>3
  <2> HIDE DEF n
  <2> QED
    BY <2>1, <2>2, Zenon
<1>3. PICK f : History(f, n, Seq(T), <<>>, step)
  <2>1. <<>> \in Seq(T)
    BY <1>2
  <2>2. step \in [1 .. n -> [Seq(T) -> Seq(T)]]
    BY <1>2
  <2> HIDE DEF n, step
  <2> QED
    BY ONLY <1>1, <2>1, <2>2, HistoryExists
<1>4. f \in [0 .. n -> Seq(T)] /\ f[0] = <<>> /\ \A k \in 1 .. n : f[k] = step[k][f[k - 1]]
  BY <1>3 DEF History
<1>5. \A k \in 1 .. n : f[k] = f[k - 1] \o (IF k > 1 THEN glue ELSE <<>>) \o s[k]
  <2> SUFFICES ASSUME NEW k \in 1 .. n PROVE f[k] = f[k - 1] \o (IF k > 1 THEN glue ELSE <<>>) \o s[k]
    OBVIOUS
  <2>1. k - 1 \in 0 .. n
    <3> HIDE DEF n
    <3> QED
      BY <1>1
  <2>2. f[k - 1] \in Seq(T)
    BY <1>4, <2>1
  <2>3. f[k] = step[k][f[k - 1]]
    BY <1>4
  <2> QED
    BY <2>2, <2>3
<1>6. \A k \in 0 .. n : k = 0 \/ k \in 1 .. n
  <2> HIDE DEF n
  <2> QED
    BY <1>1
<1>7. f = [k \in 0 .. n |-> IF k = 0 THEN <<>> ELSE f[k - 1] \o (IF k > 1 THEN glue ELSE <<>>) \o s[k]]
  <2> HIDE DEF n, step
  <2>1. \A k \in 0 .. n : f[k] = IF k = 0 THEN <<>> ELSE f[k - 1] \o (IF k > 1 THEN glue ELSE <<>>) \o s[k]
    BY <1>4, <1>5, <1>6, Zenon
  <2> QED
    BY <1>4, <2>1, Zenon
<1>8. result = [k \in 0 .. n |-> IF k = 0 THEN <<>> ELSE result[k - 1] \o (IF k > 1 THEN glue ELSE <<>>) \o s[k]]
  BY <1>7, Zenon
<1>9. Join(s, glue) = result[n]
  BY DEF Join
<1> HIDE DEF n, step, result
<1>10. \A k \in 0 .. n : result[k] = IF k = 0 THEN <<>> ELSE result[k - 1] \o (IF k > 1 THEN glue ELSE <<>>) \o s[k]
  BY <1>8, Zenon
<1>11. 0 \in 0 .. n /\ n \in 0 .. n /\ \A k \in 1 .. n : k \in 0 .. n /\ k # 0
  BY <1>1
<1>12. Alike(result, f, n)
  BY <1>4, <1>5, <1>10, <1>11, Zenon DEF Alike
<1>13. result[n] = f[n]
  BY <1>1, <1>12, SameEnd, Zenon
<1>14. JoinHistory(f, s, glue) /\ f[n] \in Seq(T)
  <2>1. f[n] \in Seq(T)
    BY <1>4, <1>11, Zenon
  <2> QED
    BY <1>4, <1>5, <2>1, Zenon DEF JoinHistory, n
<1> QED
  BY <1>9, <1>13, <1>14, Zenon DEF n

\* No parts.
LEMMA JoinEmpty == ASSUME NEW T, NEW glue \in Seq(T) PROVE Join(<<>>, glue) = <<>>
<1>1. <<>> \in Seq(Seq(T)) /\ Len(<<>>) = 0
  BY EmptySeq
<1>2. PICK f : JoinHistory(f, <<>>, glue) /\ Join(<<>>, glue) = f[0]
  BY <1>1, JoinOf, Zenon
<1> QED
  BY <1>2 DEF JoinHistory

\* Its type.
LEMMA JoinType == ASSUME NEW T, NEW s \in Seq(Seq(T)), NEW glue \in Seq(T) PROVE Join(s, glue) \in Seq(T)
BY JoinOf, Zenon

\* One more part.
LEMMA JoinAppend ==
    ASSUME NEW T, NEW s \in Seq(Seq(T)), NEW t \in Seq(T), NEW glue \in Seq(T)
    PROVE  Join(Append(s, t), glue) = IF s = <<>> THEN t ELSE Join(s, glue) \o glue \o t
<1> DEFINE n == Len(s)
           r == Append(s, t)
<1>1. n \in Nat /\ Len(r) = n + 1 /\ r[n + 1] = t /\ \A k \in 1 .. n : r[k] = s[k]
  BY AppendProperties, LenProperties
<1>2. r \in Seq(Seq(T))
  BY AppendProperties
<1>3. PICK f : JoinHistory(f, s, glue) /\ Join(s, glue) = f[n]
  BY JoinOf, Zenon
<1>4. PICK g : JoinHistory(g, r, glue) /\ Join(r, glue) = g[Len(r)]
  <2> HIDE DEF r
  <2> QED
    BY <1>2, JoinOf, Zenon
<1>5. f[0] = <<>> /\ \A k \in 1 .. n : f[k] = f[k - 1] \o (IF k > 1 THEN glue ELSE <<>>) \o s[k]
  BY <1>3, Zenon DEF JoinHistory
<1> HIDE DEF n, r
<1>6. g[0] = <<>> /\ \A k \in 1 .. n + 1 : g[k] = g[k - 1] \o (IF k > 1 THEN glue ELSE <<>>) \o r[k]
  BY <1>1, <1>4, Zenon DEF JoinHistory
<1>7. n + 1 \in 1 .. n + 1 /\ (n + 1) - 1 = n /\ \A k \in 1 .. n : k \in 1 .. n + 1
  BY <1>1
<1>8. Alike(f, g, n)
  BY <1>1, <1>5, <1>6, <1>7, Zenon DEF Alike
<1>9. f[n] = g[n]
  BY <1>1, <1>8, SameEnd, Zenon
<1>10. g[n + 1] = g[n] \o (IF n + 1 > 1 THEN glue ELSE <<>>) \o t
  BY <1>1, <1>6, <1>7, Zenon
<1>11. CASE s = <<>>
  <2>1. n = 0
    BY <1>11 DEF n
  <2>2. Join(r, glue) = <<>> \o <<>> \o t
    BY <1>1, <1>4, <1>6, <1>10, <2>1
  <2>3. <<>> \o <<>> \o t = t
    BY ONLY t \in Seq(T), EmptySeq, ConcatEmptySeq
  <2> QED
    BY <1>11, <2>2, <2>3 DEF r
<1>12. CASE s # <<>>
  <2>1. n # 0
    BY <1>12, EmptySeq DEF n
  <2>2. n + 1 > 1
    BY <1>1, <2>1
  <2> QED
    BY <1>1, <1>3, <1>4, <1>9, <1>10, <1>12, <2>2, Zenon DEF r
<1> QED
  BY <1>11, <1>12

-----------------------------------------------------------------------------
(***************************************************************************)
(* Strings and sums, put together and taken apart.                         *)
(***************************************************************************)
\* Appending to a concatenation.
LEMMA ConcatAppend ==
    ASSUME NEW T, NEW s \in Seq(T), NEW r \in Seq(T), NEW t \in T
    PROVE  s \o Append(r, t) = Append(s \o r, t)
<1>1. <<t>> \in Seq(T) /\ s \o r \in Seq(T)
  BY ConcatProperties
<1>2. Append(r, t) = r \o <<t>> /\ Append(s \o r, t) = (s \o r) \o <<t>>
  BY <1>1, AppendIsConcat
<1>3. (s \o r) \o <<t>> = s \o (r \o <<t>>)
  BY ONLY <1>1, s \in Seq(T), r \in Seq(T), ConcatAssociative
<1> QED
  BY <1>2, <1>3

\* The total of two strings.
LEMMA TotalConcat ==
    ASSUME NEW T, NEW s \in Seq(T), NEW r \in Seq(T), NEW w \in [T -> Nat]
    PROVE  Total(s \o r, w) = Total(s, w) + Total(r, w)
<1> DEFINE P == {q \in Seq(T) : Total(s \o q, w) = Total(s, w) + Total(q, w)}
<1>1. <<>> \in P
  <2>1. Total(<<>>, w) = 0 /\ Total(s, w) \in Nat /\ s \o <<>> = s
    BY TotalEmpty, TotalType, ConcatEmptySeq
  <2> QED
    BY <2>1, EmptySeq
<1>2. ASSUME NEW q \in P, NEW t \in T PROVE Append(q, t) \in P
  <2>1. PICK u \in Seq(T) : u = s \o q
    BY ConcatProperties
  <2>2. s \o Append(q, t) = Append(u, t)
    BY <2>1, ConcatAppend
  <2>3. Total(Append(u, t), w) = Total(u, w) + w[t]
    BY TotalAppend
  <2>4. Total(Append(q, t), w) = Total(q, w) + w[t]
    BY TotalAppend
  <2>5. Total(s, w) \in Nat /\ Total(q, w) \in Nat /\ w[t] \in Nat
    BY TotalType
  <2>6. Total(s \o Append(q, t), w) = Total(s, w) + Total(Append(q, t), w)
    BY <2>1, <2>2, <2>3, <2>4, <2>5
  <2> QED
    BY <2>6, AppendProperties
<1>3. P \in SUBSET Seq(T)
  OBVIOUS
<1> HIDE DEF P
<1>4. \A q \in Seq(T) : q \in P
  BY <1>1, <1>2, <1>3, AllSequences
<1> QED
  BY <1>4 DEF P

\* The total of joined parts.
LEMMA TotalJoin ==
    ASSUME NEW T, NEW p \in Seq(Seq(T)), NEW x \in Seq(T), NEW glue \in Seq(T), NEW w \in [T -> Nat]
    PROVE  Total(Join(Append(p, x), glue), w) =
             IF p = <<>> THEN Total(x, w) ELSE Total(Join(p, glue), w) + Total(glue, w) + Total(x, w)
<1>1. PICK u \in Seq(T) : u = Join(p, glue)
  BY JoinType
<1>2. Join(Append(p, x), glue) = IF p = <<>> THEN x ELSE u \o glue \o x
  BY <1>1, JoinAppend
<1>3. PICK v \in Seq(T) : v = u \o glue
  BY ConcatProperties
<1>4. Total(u \o glue \o x, w) = Total(u, w) + Total(glue, w) + Total(x, w)
  <2>1. Total(v, w) = Total(u, w) + Total(glue, w)
    BY <1>3, TotalConcat
  <2>2. Total(v \o x, w) = Total(v, w) + Total(x, w)
    BY TotalConcat
  <2> QED
    BY <1>3, <2>1, <2>2
<1> QED
  BY <1>1, <1>2, <1>4

\* A token that is no separator, and the component it belongs to.
LEMMA AddTokenLast ==
    ASSUME NEW T, NEW z \in Seq(Seq(T)), NEW e \in Seq(T), NEW t \in T, NEW sep, t # sep
    PROVE  add_token(Append(z, e), t, sep) = Append(z, Append(e, t))
<1>1. PICK a \in Seq(T) : a = Append(e, t)
  BY AppendProperties
<1>2. PICK y \in Seq(Seq(T)) : y = Append(z, e)
  BY AppendProperties
<1>3. Len(y) \in 1 .. Len(y) /\ y[Len(y)] = e
  BY <1>2, AppendProperties, LenProperties
<1>4. add_token(y, t, sep) = [y EXCEPT ![Len(y)] = a]
  BY <1>1, <1>3 DEF add_token
<1>5. [y EXCEPT ![Len(y)] = a] = Append(z, a)
  <2>1. [y EXCEPT ![Len(y)] = a] \in Seq(Seq(T)) /\ Append(z, a) \in Seq(Seq(T))
    BY <1>3, ExceptSeq, AppendProperties
  <2>2. Len([y EXCEPT ![Len(y)] = a]) = Len(y) /\ Len(Append(z, a)) = Len(y)
    BY <1>2, <1>3, ExceptSeq, AppendProperties
  <2>3. ASSUME NEW k \in 1 .. Len(y) PROVE [y EXCEPT ![Len(y)] = a][k] = Append(z, a)[k]
    <3>1. Len(z) \in Nat /\ Len(y) = Len(z) + 1 /\ Append(z, a)[Len(z) + 1] = a
      BY <1>2, AppendProperties, LenProperties
    <3>2. \A i \in 1 .. Len(z) : y[i] = z[i] /\ Append(z, a)[i] = z[i]
      BY <1>2, AppendProperties
    <3>3. DOMAIN y = 1 .. Len(y)
      BY LenProperties
    <3>4. CASE k = Len(y)
      BY <3>1, <3>3, <3>4
    <3>5. CASE k # Len(y)
      BY <3>1, <3>2, <3>3, <3>5
    <3> QED
      BY <3>4, <3>5
  <2> DEFINE l == [y EXCEPT ![Len(y)] = a]
             m == Append(z, a)
  <2>4. l \in Seq(Seq(T)) /\ m \in Seq(Seq(T)) /\ Len(l) = Len(m) /\ \A k \in 1 .. Len(l) : l[k] = m[k]
    BY <2>1, <2>2, <2>3
  <2> HIDE DEF l, m
  <2>5. l = m
    BY ONLY <2>4, SeqEqual
  <2> QED
    BY <2>5 DEF l, m
<1> QED
  BY <1>1, <1>2, <1>4, <1>5

\* A token only concerns the last component.
LEMMA AddTokenConcat ==
    ASSUME NEW T, NEW x \in Components(T), NEW y \in Components(T), NEW t \in T, NEW sep
    PROVE  add_token(x \o y, t, sep) = x \o add_token(y, t, sep)
<1>1. x \in Seq(Seq(T)) /\ y \in Seq(Seq(T)) /\ y # <<>>
  BY DEF Components
<1>2. CASE t = sep
  <2>1. <<>> \in Seq(T)
    BY EmptySeq
  <2>2. x \o Append(y, <<>>) = Append(x \o y, <<>>)
    BY <1>1, <2>1, ConcatAppend
  <2> QED
    BY <1>2, <2>2 DEF add_token
<1>3. CASE t # sep
  <2>1. PICK z \in Seq(Seq(T)), e \in Seq(T) : y = Append(z, e)
    BY <1>1, SequenceEmptyOrAppend
  <2>2. PICK u \in Seq(Seq(T)) : u = x \o z
    BY <1>1, ConcatProperties
  <2>3. x \o y = Append(u, e)
    BY <1>1, <2>1, <2>2, ConcatAppend
  <2>4. Append(e, t) \in Seq(T)
    BY AppendProperties
  <2>5. add_token(Append(u, e), t, sep) = Append(u, Append(e, t))
    BY <1>3, AddTokenLast
  <2>6. add_token(y, t, sep) = Append(z, Append(e, t))
    BY <1>3, <2>1, AddTokenLast
  <2>7. x \o Append(z, Append(e, t)) = Append(u, Append(e, t))
    BY <1>1, <2>2, <2>4, ConcatAppend, SMTT(60)
  <2> QED
    BY <2>3, <2>5, <2>6, <2>7
<1> QED
  BY <1>2, <1>3

\* A string that ends in a separator, and another string.
LEMMA SplitConcat ==
    ASSUME NEW T, NEW s \in Seq(T), NEW sep \in T, NEW r \in Seq(T)
    PROVE  split(s \o <<sep>> \o r, sep) = split(s, sep) \o split(r, sep)
<1> DEFINE P == {q \in Seq(T) : split(s \o <<sep>> \o q, sep) = split(s, sep) \o split(q, sep)}
<1>1. PICK u \in Seq(T) : u = s \o <<sep>>
  <2>1. <<sep>> \in Seq(T)
    OBVIOUS
  <2> QED
    BY <2>1, ConcatProperties
<1>2. PICK x \in Components(T) : x = split(s, sep)
  BY SplitType
<1>3. x \in Seq(Seq(T))
  BY DEF Components
<1>4. <<>> \in P
  <2>1. u \o <<>> = u /\ u = Append(s, sep)
    BY <1>1, ConcatEmptySeq, AppendIsConcat
  <2>2. split(u, sep) = add_token(x, sep, sep)
    BY <1>2, <2>1, SplitAppend
  <2>3. split(u, sep) = Append(x, <<>>)
    BY <2>2 DEF add_token
  <2>4. <<>> \in Seq(T)
    BY EmptySeq
  <2>5. Append(x, <<>>) = x \o <<<<>>>>
    BY <1>3, <2>4, AppendIsConcat
  <2>6. split(<<>>, sep) = <<<<>>>>
    BY SplitEmpty
  <2> QED
    BY <1>1, <1>2, <2>1, <2>3, <2>4, <2>5, <2>6
<1>5. ASSUME NEW q \in P, NEW t \in T PROVE Append(q, t) \in P
  <2>1. PICK y \in Components(T) : y = split(q, sep)
    BY SplitType
  <2>2. PICK v \in Seq(T) : v = u \o q
    BY ConcatProperties
  <2>3. u \o Append(q, t) = Append(v, t)
    BY <2>2, ConcatAppend, SMTT(60)
  <2>4. split(Append(v, t), sep) = add_token(x \o y, t, sep)
    BY <1>1, <1>2, <2>1, <2>2, SplitAppend
  <2>5. split(Append(q, t), sep) = add_token(y, t, sep)
    BY <2>1, SplitAppend
  <2>6. add_token(x \o y, t, sep) = x \o add_token(y, t, sep)
    BY AddTokenConcat
  <2> QED
    BY <1>1, <1>2, <2>3, <2>4, <2>5, <2>6, AppendProperties
<1>6. P \in SUBSET Seq(T)
  OBVIOUS
<1> HIDE DEF P
<1>7. \A q \in Seq(T) : q \in P
  BY <1>4, <1>5, <1>6, AllSequences
<1> QED
  BY <1>7 DEF P

\* A string without separators is its only component.
LEMMA SplitPlain ==
    ASSUME NEW T, NEW sep, NEW s \in Seq(T \ {sep})
    PROVE  split(s, sep) = <<s>>
<1> DEFINE P == {q \in Seq(T \ {sep}) : split(q, sep) = <<q>>}
<1>1. <<>> \in P
  BY SplitEmpty, EmptySeq
<1>2. ASSUME NEW q \in P, NEW t \in T \ {sep} PROVE Append(q, t) \in P
  <2>1. split(Append(q, t), sep) = add_token(<<q>>, t, sep)
    BY SplitAppend
  <2>2. PICK e \in Seq(T \ {sep}) : e = q
    OBVIOUS
  <2>3. add_token(<<e>>, t, sep) = <<Append(e, t)>>
    <3> HIDE DEF P
    <3>1. Len(<<e>>) = 1 /\ <<e>>[1] = e
      OBVIOUS
    <3>2. [<<e>> EXCEPT ![1] = Append(e, t)] = <<Append(e, t)>>
      OBVIOUS
    <3> QED
      BY <3>1, <3>2 DEF add_token
  <2> QED
    BY <2>1, <2>2, <2>3, AppendProperties
<1>3. P \in SUBSET Seq(T \ {sep})
  OBVIOUS
<1> HIDE DEF P
<1>4. \A q \in Seq(T \ {sep}) : q \in P
  BY <1>1, <1>2, <1>3, AllSequences
<1> QED
  BY <1>4 DEF P

\* No component holds a separator.
LEMMA SplitComponents ==
    ASSUME NEW T, NEW sep, NEW s \in Seq(T)
    PROVE  split(s, sep) \in Components(T \ {sep})
<1> DEFINE P == {q \in Seq(T) : split(q, sep) \in Components(T \ {sep})}
<1>1. <<>> \in P
  BY SplitEmpty, ComponentsType, EmptySeq
<1>2. ASSUME NEW q \in P, NEW t \in T PROVE Append(q, t) \in P
  <2>1. split(Append(q, t), sep) = add_token(split(q, sep), t, sep)
    BY SplitAppend
  <2>2. add_token(split(q, sep), t, sep) \in Components(T \ {sep})
    BY ComponentsType
  <2> QED
    BY <2>1, <2>2, AppendProperties
<1>3. P \in SUBSET Seq(T)
  OBVIOUS
<1> HIDE DEF P
<1>4. \A q \in Seq(T) : q \in P
  BY <1>1, <1>2, <1>3, AllSequences
<1> QED
  BY <1>4 DEF P

\* A single part.
LEMMA JoinOne == ASSUME NEW T, NEW x \in Seq(T), NEW glue \in Seq(T) PROVE Join(<<x>>, glue) = x
<1>1. <<x>> = Append(<<>>, x) /\ <<>> \in Seq(Seq(T))
  OBVIOUS
<1> QED
  BY <1>1, JoinAppend

\* One more token of the last part; one more part, still empty.
LEMMA JoinLonger ==
    ASSUME NEW T, NEW y \in Seq(Seq(T)), NEW z \in Seq(T), NEW t \in T, NEW glue \in Seq(T)
    PROVE  Join(Append(y, Append(z, t)), glue) = Append(Join(Append(y, z), glue), t)
<1>1. PICK a \in Seq(T) : a = Append(z, t)
  BY AppendProperties
<1>2. PICK j \in Seq(T) : j = Join(y, glue)
  BY JoinType
<1>3. PICK u \in Seq(T) : u = j \o glue
  BY ConcatProperties
<1>4. Join(Append(y, a), glue) = IF y = <<>> THEN a ELSE j \o glue \o a
  BY <1>2, JoinAppend
<1>5. Join(Append(y, z), glue) = IF y = <<>> THEN z ELSE j \o glue \o z
  BY <1>2, JoinAppend
<1>6. u \o Append(z, t) = Append(u \o z, t)
  BY ConcatAppend, SMTT(60)
<1> QED
  BY <1>1, <1>3, <1>4, <1>5, <1>6

\* An empty part at the end leaves the separator before it.
LEMMA JoinNone ==
    ASSUME NEW T, NEW x \in Seq(Seq(T)), x # <<>>, NEW sep \in T
    PROVE  Join(Append(x, <<>>), <<sep>>) = Append(Join(x, <<sep>>), sep)
<1>1. <<sep>> \in Seq(T) /\ <<>> \in Seq(T)
  OBVIOUS
<1>2. PICK glue \in Seq(T), none \in Seq(T) : glue = <<sep>> /\ none = <<>>
  BY <1>1
<1>3. PICK j \in Seq(T) : j = Join(x, glue)
  BY JoinType
<1>4. Join(Append(x, none), glue) = j \o glue \o none
  BY <1>3, JoinAppend
<1>5. j \o glue \in Seq(T) /\ Append(j, sep) = j \o glue
  BY <1>2, ConcatProperties, AppendIsConcat
<1>6. j \o glue \o none = j \o glue
  BY <1>2, <1>5, ConcatEmptySeq
<1> QED
  BY <1>2, <1>3, <1>4, <1>5, <1>6

\* The components with separators between them are the string.
LEMMA JoinSplit ==
    ASSUME NEW T, NEW sep \in T, NEW s \in Seq(T)
    PROVE  Join(split(s, sep), <<sep>>) = s
<1> DEFINE P == {q \in Seq(T) : Join(split(q, sep), <<sep>>) = q}
<1>1. <<sep>> \in Seq(T) /\ <<>> \in Seq(T)
  OBVIOUS
<1>2. <<>> \in P
  BY <1>1, SplitEmpty, JoinOne
<1>3. ASSUME NEW q \in P, NEW t \in T PROVE Append(q, t) \in P
  <2>1. PICK x \in Seq(Seq(T)) : x = split(q, sep) /\ x # <<>>
    BY SplitType DEF Components
  <2>2. split(Append(q, t), sep) = add_token(x, t, sep)
    BY <2>1, SplitAppend
  <2>3. Append(q, t) \in Seq(T) /\ Join(x, <<sep>>) = q
    BY <2>1, AppendProperties
  <2>4. SUFFICES Join(add_token(x, t, sep), <<sep>>) = Append(q, t)
    BY <2>2, <2>3
  <2> HIDE DEF P
  <2>5. CASE t = sep
    <3>1. Join(Append(x, <<>>), <<sep>>) = Append(q, sep)
      BY <2>1, <2>3, JoinNone
    <3> QED
      BY <2>5, <3>1 DEF add_token
  <2>6. CASE t # sep
    <3>1. PICK y \in Seq(Seq(T)), z \in Seq(T) : x = Append(y, z)
      BY <2>1, SequenceEmptyOrAppend
    <3>2. add_token(x, t, sep) = Append(y, Append(z, t))
      BY <2>6, <3>1, AddTokenLast
    <3>3. PICK glue \in Seq(T) : glue = <<sep>>
      BY <1>1
    <3>4. Join(Append(y, Append(z, t)), glue) = Append(Join(Append(y, z), glue), t)
      BY JoinLonger
    <3> QED
      BY <2>3, <3>1, <3>2, <3>3, <3>4
  <2> QED
    BY <2>5, <2>6
<1>4. P \in SUBSET Seq(T)
  OBVIOUS
<1> HIDE DEF P
<1>5. \A q \in Seq(T) : q \in P
  BY <1>2, <1>3, <1>4, AllSequences
<1> QED
  BY <1>5 DEF P

\* The components of parts that have been joined: as many
\* when there are no more than the parts, then they are the parts.
LEMMA SplitJoin ==
    ASSUME NEW T, NEW sep \in T, NEW p \in Seq(Seq(T)), p # <<>>
    PROVE  LET x == split(Join(p, <<sep>>), sep)
           IN  Len(x) >= Len(p) /\ (Len(x) = Len(p) => x = p)
<1> DEFINE x(q) == split(Join(q, <<sep>>), sep)
           P == {q \in Seq(Seq(T)) : q # <<>> => Len(x(q)) >= Len(q) /\ (Len(x(q)) = Len(q) => x(q) = q)}
<1>1. <<sep>> \in Seq(T) /\ <<>> \in Seq(Seq(T))
  OBVIOUS
<1>2. <<>> \in P
  BY <1>1
<1>3. ASSUME NEW e \in Seq(T) PROVE Len(split(e, sep)) >= 1 /\ (Len(split(e, sep)) = 1 => split(e, sep) = <<e>>)
  <2>1. PICK c \in Seq(Seq(T)) : c = split(e, sep) /\ c # <<>>
    BY SplitType DEF Components
  <2>2. Len(c) \in Nat /\ Len(c) >= 1
    BY <2>1, LenProperties, EmptySeq
  <2>3. ASSUME Len(c) = 1 PROVE c = <<e>>
    <3>1. PICK a \in Seq(T) : a = c[1]
      BY <2>3, 1 \in 1 .. 1, ElementOfSeq
    <3>2. c = <<a>>
      BY <2>3, <3>1
    <3>3. Join(c, <<sep>>) = a
      BY <1>1, <3>2, JoinOne
    <3>4. Join(c, <<sep>>) = e
      BY <2>1, JoinSplit
    <3> QED
      BY <3>2, <3>3, <3>4
  <2> QED
    BY <2>1, <2>2, <2>3
<1>4. ASSUME NEW q \in P, NEW e \in Seq(T) PROVE Append(q, e) \in P
  <2>1. Append(q, e) \in Seq(Seq(T)) /\ Len(Append(q, e)) = Len(q) + 1 /\ Len(q) \in Nat
    BY AppendProperties, LenProperties
  <2>2. PICK c \in Seq(Seq(T)) : c = split(e, sep)
    BY SplitType DEF Components
  <2>3. SUFFICES /\ Len(x(Append(q, e))) >= Len(q) + 1
                 /\ Len(x(Append(q, e))) = Len(q) + 1 => x(Append(q, e)) = Append(q, e)
    BY <2>1
  <2>4. CASE q = <<>>
    <3>1. Append(q, e) = <<e>> /\ Len(q) = 0
      BY <2>4
    <3>2. x(Append(q, e)) = c
      BY <1>1, <2>2, <3>1, JoinOne
    <3> QED
      BY <1>3, <2>2, <3>1, <3>2
  <2>5. CASE q # <<>>
    <3>1. PICK j \in Seq(T) : j = Join(q, <<sep>>)
      BY <1>1, JoinType
    <3>2. PICK d \in Seq(Seq(T)) : d = split(j, sep)
      BY SplitType DEF Components
    <3>3. Join(Append(q, e), <<sep>>) = j \o <<sep>> \o e
      BY <1>1, <2>5, <3>1, JoinAppend, ZenonT(60)
    <3>4. x(Append(q, e)) = d \o c
      <4>1. split(j \o <<sep>> \o e, sep) = d \o c
        BY <2>2, <3>2, SplitConcat
      <4> QED
        BY <3>3, <4>1
    <3>5. Len(d) >= Len(q) /\ (Len(d) = Len(q) => d = q)
      BY <2>5, <3>1, <3>2
    <3>6. Len(c) >= 1 /\ (Len(c) = 1 => c = <<e>>)
      BY <1>3, <2>2
    <3>7. Len(d) \in Nat /\ Len(c) \in Nat /\ Len(d \o c) = Len(d) + Len(c)
      BY LenProperties, ConcatProperties
    <3>8. Append(q, e) = q \o <<e>>
      BY AppendIsConcat
    <3> DEFINE m == Len(d)
               n == Len(c)
               l == Len(q)
    <3>9. m + n >= l + 1 /\ (m + n = l + 1 => m = l /\ n = 1)
      <4>1. m \in Nat /\ n \in Nat /\ l \in Nat /\ m >= l /\ n >= 1
        BY <2>1, <3>5, <3>6, <3>7
      <4> HIDE DEF m, n, l
      <4> QED
        BY ONLY <4>1
    <3> HIDE DEF x, P
    <3> QED
      BY <3>4, <3>5, <3>6, <3>7, <3>8, <3>9
  <2> QED
    BY <2>4, <2>5
<1>5. P \in SUBSET Seq(Seq(T))
  OBVIOUS
<1> HIDE DEF P
<1>6. \A q \in Seq(Seq(T)) : q \in P
  BY <1>2, <1>4, <1>5, AllSequences
<1> QED
  BY <1>6 DEF P

\* Parts without separators are the components of what they are joined to.
LEMMA SplitJoinPlain ==
    ASSUME NEW T, NEW sep \in T, NEW p \in Seq(Seq(T \ {sep})), p # <<>>
    PROVE  split(Join(p, <<sep>>), sep) = p
<1> DEFINE P == {q \in Seq(Seq(T \ {sep})) : q # <<>> => split(Join(q, <<sep>>), sep) = q}
<1>1. <<sep>> \in Seq(T) /\ <<>> \in Seq(Seq(T \ {sep}))
  BY EmptySeq
<1>2. <<>> \in P
  BY <1>1
<1>3. ASSUME NEW r \in P, NEW e \in Seq(T \ {sep}) PROVE Append(r, e) \in P
  <2>1. PICK q \in Seq(Seq(T)), d \in Seq(T) : q = r /\ d = e
    <3>1. Seq(T \ {sep}) \subseteq Seq(T)
      BY SeqMonotonic
    <3>2. r \in Seq(Seq(T))
      BY <3>1, SeqMonotonic
    <3> QED
      BY <3>1, <3>2
  <2>2. Append(r, e) \in Seq(Seq(T \ {sep}))
    BY AppendProperties
  <2>3. q # <<>> => split(Join(q, <<sep>>), sep) = q
    BY <2>1
  <2>4. SUFFICES split(Join(Append(q, d), <<sep>>), sep) = Append(q, d)
    BY <2>1, <2>2
  <2> HIDE DEF P
  <2>5. split(d, sep) = <<d>>
    BY <2>1, SplitPlain
  <2>6. PICK glue \in Seq(T) : glue = <<sep>>
    BY <1>1
  <2>7. PICK j \in Seq(T) : j = Join(q, glue)
    BY JoinType
  <2>8. Join(Append(q, d), glue) = IF q = <<>> THEN d ELSE j \o glue \o d
    BY <2>7, JoinAppend
  <2>9. CASE q = <<>>
    BY <2>5, <2>6, <2>8, <2>9
  <2>10. CASE q # <<>>
    <3>1. split(j \o <<sep>> \o d, sep) = split(j, sep) \o split(d, sep)
      BY SplitConcat, ZenonT(60)
    <3>2. q \o <<d>> = Append(q, d)
      BY AppendIsConcat
    <3> QED
      BY <2>3, <2>5, <2>6, <2>7, <2>8, <2>10, <3>1, <3>2
  <2> QED
    BY <2>9, <2>10
<1>4. P \in SUBSET Seq(Seq(T \ {sep}))
  OBVIOUS
<1> HIDE DEF P
<1>5. \A q \in Seq(Seq(T \ {sep})) : q \in P
  BY <1>2, <1>3, <1>4, AllSequences
<1> QED
  BY <1>5 DEF P

\* A first part without separators is the first component, whatever follows.
LEMMA SplitFirst ==
    ASSUME NEW T, NEW sep \in T, NEW w \in Seq(T \ {sep}), NEW p \in Seq(Seq(T))
    PROVE  split(Join(<<w>> \o p, <<sep>>), sep)[1] = w
<1> DEFINE P == {q \in Seq(Seq(T)) : split(Join(<<w>> \o q, <<sep>>), sep)[1] = w}
<1>1. w \in Seq(T)
  BY SeqMonotonic
<1>2. PICK glue \in Seq(T), v \in Seq(Seq(T)) : glue = <<sep>> /\ v = <<w>>
  <2>1. <<sep>> \in Seq(T) /\ <<w>> \in Seq(Seq(T))
    BY <1>1
  <2> QED
    BY <2>1
<1>3. <<>> \in P
  <2>1. v \o <<>> = v /\ <<>> \in Seq(Seq(T))
    BY ConcatEmptySeq, EmptySeq
  <2>2. Join(v, glue) = w
    BY <1>1, <1>2, JoinOne
  <2>3. split(w, sep) = <<w>>
    BY SplitPlain
  <2> QED
    BY <1>2, <2>1, <2>2, <2>3
<1>4. ASSUME NEW r \in P, NEW e \in Seq(T) PROVE Append(r, e) \in P
  <2>1. PICK q \in Seq(Seq(T)) : q = r
    OBVIOUS
  <2>2. Append(q, e) \in Seq(Seq(T))
    BY AppendProperties
  <2>3. SUFFICES split(Join(v \o Append(q, e), glue), sep)[1] = w
    BY <1>2, <2>1, <2>2
  <2>4. split(Join(v \o q, glue), sep)[1] = w
    BY <1>2, <2>1
  <2> HIDE DEF P
  <2>5. PICK u \in Seq(Seq(T)) : u = v \o q
    BY ConcatProperties
  <2>6. v \o Append(q, e) = Append(u, e)
    <3>1. PICK S : S = Seq(T)
      OBVIOUS
    <3>2. v \in Seq(S) /\ q \in Seq(S) /\ e \in S
      BY <3>1
    <3>3. v \o Append(q, e) = Append(v \o q, e)
      BY ONLY <3>2, ConcatAppend, SMTT(60)
    <3> QED
      BY <2>5, <3>3, Zenon
  <2>7. u # <<>>
    <3>1. Len(u) = Len(v) + Len(q) /\ Len(v) = 1 /\ Len(q) \in Nat
      BY <1>2, <2>5, ConcatProperties, LenProperties
    <3> QED
      BY <3>1, EmptySeq
  <2>8. PICK j \in Seq(T) : j = Join(u, glue)
    BY JoinType
  <2>9. Join(Append(u, e), glue) = j \o glue \o e
    BY <2>7, <2>8, JoinAppend, ZenonT(60)
  <2>10. split(j \o <<sep>> \o e, sep) = split(j, sep) \o split(e, sep)
    BY SplitConcat, ZenonT(60)
  <2>11. PICK c \in Seq(Seq(T)), d \in Seq(Seq(T)) : c = split(j, sep) /\ d = split(e, sep) /\ c # <<>>
    BY SplitType DEF Components
  <2>12. (c \o d)[1] = c[1]
    <3>1. 1 \in 1 .. Len(c)
      BY <2>11, LenProperties, EmptySeq
    <3> QED
      BY <3>1, ConcatProperties
  <2> QED
    BY <1>2, <2>4, <2>5, <2>6, <2>8, <2>9, <2>10, <2>11, <2>12
<1>5. P \in SUBSET Seq(Seq(T))
  OBVIOUS
<1> HIDE DEF P
<1>6. \A q \in Seq(Seq(T)) : q \in P
  BY <1>3, <1>4, <1>5, AllSequences
<1> QED
  BY <1>6 DEF P

\* split counts separators.
LEMMA SplitCount ==
    ASSUME NEW sep \in Tokens, NEW s \in String
    PROVE  Len(split(s, sep)) = Total(s, One({sep})) + 1
<1> DEFINE w == One({sep})
           P == {q \in Seq(Tokens) : Len(split(q, sep)) = Total(q, w) + 1}
<1>1. w \in [Tokens -> Nat] /\ \A t \in Tokens : w[t] = IF t = sep THEN 1 ELSE 0
  BY DEF One
<1> HIDE DEF w
<1>2. <<>> \in P
  <2>1. Len(<<<<>>>>) = 1 /\ <<>> \in Seq(Tokens)
    BY EmptySeq
  <2>2. Total(<<>>, w) = 0
    BY <1>1, TotalEmpty
  <2>3. split(<<>>, sep) = <<<<>>>>
    BY SplitEmpty
  <2>4. Len(split(<<>>, sep)) = 1
    BY <2>1, <2>3, Zenon
  <2>5. Len(split(<<>>, sep)) = Total(<<>>, w) + 1
    <3> DEFINE m == Len(split(<<>>, sep))
               n == Total(<<>>, w)
    <3>1. m = 1 /\ n = 0
      BY <2>2, <2>4, Zenon
    <3> HIDE DEF m, n
    <3>2. m = n + 1
      BY <3>1
    <3> QED
      BY <3>2 DEF m, n
  <2> QED
    BY <2>1, <2>5
<1>3. ASSUME NEW q \in P, NEW t \in Tokens PROVE Append(q, t) \in P
  <2>1. PICK c \in Seq(Seq(Tokens)) : c = split(q, sep) /\ c # <<>>
    BY SplitType DEF Components
  <2>2. split(Append(q, t), sep) = add_token(c, t, sep)
    BY <2>1, SplitAppend
  <2>3. Total(Append(q, t), w) = Total(q, w) + w[t] /\ Total(q, w) \in Nat
    BY <1>1, TotalAppend, TotalType
  <2>4. Append(q, t) \in Seq(Tokens) /\ Len(c) = Total(q, w) + 1
    BY <2>1, AppendProperties
  <2> HIDE DEF P
  <2>5. Len(add_token(c, t, sep)) = Len(c) + IF t = sep THEN 1 ELSE 0
    <3>1. PICK y \in Seq(Seq(Tokens)), z \in Seq(Tokens) : c = Append(y, z)
      BY <2>1, SequenceEmptyOrAppend
    <3>2. Len(c) \in Nat
      BY LenProperties
    <3>3. CASE t = sep
      <4>1. Len(Append(c, <<>>)) = Len(c) + 1
        BY EmptySeq, AppendProperties
      <4> QED
        BY <3>3, <4>1 DEF add_token
    <3>4. CASE t # sep
      <4>1. add_token(c, t, sep) = Append(y, Append(z, t))
        BY <3>1, <3>4, AddTokenLast
      <4>2. Append(z, t) \in Seq(Tokens)
        BY AppendProperties
      <4>3. Len(Append(y, Append(z, t))) = Len(y) + 1 /\ Len(c) = Len(y) + 1
        BY <3>1, <4>2, AppendProperties
      <4> QED
        BY <3>2, <3>4, <4>1, <4>3
    <3> QED
      BY <3>3, <3>4
  <2>6. Len(add_token(c, t, sep)) = Total(Append(q, t), w) + 1
    BY <1>1, <2>3, <2>4, <2>5
  <2> QED
    BY <2>2, <2>4, <2>6 DEF P
<1>4. P \in SUBSET Seq(Tokens)
  OBVIOUS
<1> HIDE DEF P
<1>5. \A q \in Seq(Tokens) : q \in P
  BY <1>2, <1>3, <1>4, AllSequences
<1> QED
  BY <1>5 DEF P, String, w

-----------------------------------------------------------------------------
(***************************************************************************)
(* Words and numerals.                                                     *)
(***************************************************************************)
Word == Seq(Tokens \ Separators)

\* Words are strings without separators.
LEMMA WordType ==
    /\ Word \subseteq String
    /\ \A sep \in Separators : sep \in Tokens /\ Word \subseteq Seq(Tokens \ {sep})
<1>1. \A T : Tokens \ Separators \subseteq T => Word \subseteq Seq(T)
  BY SeqMonotonic DEF Word
<1> QED
  BY <1>1, NamesAssumption DEF String

\* The name of an enumerator is a word.
LEMMA ToStr == ASSUME NEW e \in Enumerators PROVE to_str[e] \in Word
BY NamesAssumption DEF Word

\* So is the numeral of a number.
LEMMA ToString_ == ASSUME NEW n \in Number PROVE to_string[n] \in Word
BY NumbersAssumption DEF Word, Number

\* What is written is read again, and only what can be read is taken.
LEMMA ParseWritten == ASSUME NEW n \in Number PROVE parse_positive_int(to_string[n]) = {n}
<1>1. to_string[n] \in DOMAIN stoi /\ stoi[to_string[n]] = n /\ n > 0
  BY NumbersAssumption DEF Number, Id
<1>2. {to_string[n]} \cap DOMAIN stoi = {to_string[n]}
  BY <1>1
<1> QED
  BY <1>1, <1>2 DEF parse_positive_int

\* What parse_positive_int returns is the number that stoi has read.
LEMMA ParseRead ==
    ASSUME NEW s, NEW n \in parse_positive_int(s)
    PROVE  n \in Number /\ s \in DOMAIN stoi /\ n = stoi[s]
<1>1. s \in DOMAIN stoi /\ n = stoi[s] /\ n > 0
  BY DEF parse_positive_int
<1>2. n \in DOMAIN to_string /\ n \in Int
  BY <1>1, NumbersAssumption
<1> QED
  BY <1>1, <1>2 DEF Number, Id

\* An enumerator is found under its name.
LEMMA StrToWritten ==
    ASSUME NEW enum \in SUBSET Enumerators, NEW e \in enum
    PROVE  str_to(to_str[e], enum) = {e}
BY NamesAssumption DEF str_to

\* What is found has the name that was looked for.
LEMMA StrToRead ==
    ASSUME NEW enum \in SUBSET Enumerators, NEW s, NEW e \in str_to(s, enum)
    PROVE  e \in enum /\ s = to_str[e]
BY DEF str_to

\* Statuses, modes and types are enumerators.
LEMMA Enums ==
    /\ ItemStatus \subseteq Enumerators /\ OrderStatus \subseteq Enumerators
    /\ ClientMode \subseteq Enumerators /\ MessageType \subseteq Enumerators
BY DEF Enumerators, ItemStatus, OrderStatus

-----------------------------------------------------------------------------
(***************************************************************************)
(* Items.                                                                  *)
(***************************************************************************)
item_fields(item) ==
    <<to_string[item.order_id], to_string[item.id], to_str[item.status], item.desc, to_string[item.qty]>>

\* The text of an item consists of its five fields.
LEMMA ItemFields ==
    ASSUME NEW item \in OrderItem
    PROVE  /\ item_fields(item) \in Seq(String) /\ Len(item_fields(item)) = 5
           /\ encode_item(item) = Join(item_fields(item), <<":">>) /\ encode_item(item) \in String
<1>1. /\ to_string[item.order_id] \in String /\ to_string[item.id] \in String /\ to_string[item.qty] \in String
      /\ to_str[item.status] \in String /\ item.desc \in String
  BY ToStr, ToString_, WordType, Enums DEF OrderItem
<1>2. item_fields(item) \in Seq(String) /\ Len(item_fields(item)) = 5
  BY <1>1 DEF item_fields
<1>3. encode_item(item) = Join(item_fields(item), <<":">>)
  BY DEF encode_item, item_fields
<1>4. ":" \in Tokens
  BY WordType DEF Separators
<1>5. <<":">> \in Seq(Tokens)
  BY <1>4
<1> QED
  BY <1>2, <1>3, <1>5, JoinType DEF String

\* decode_item refuses what encode_item has made, or gives it back.
LEMMA ItemNeverMisread ==
    ASSUME NEW item \in OrderItem
    PROVE  /\ decode_item(encode_item(item)) \subseteq {item}
           /\ Len(split(encode_item(item), ":")) = 5 => decode_item(encode_item(item)) = {item}
<1> DEFINE parts == split(encode_item(item), ":")
           p == item_fields(item)
<1>1. p \in Seq(Seq(Tokens)) /\ Len(p) = 5 /\ p # <<>> /\ encode_item(item) = Join(p, <<":">>)
  <2>1. p \in Seq(Seq(Tokens)) /\ Len(p) = 5 /\ encode_item(item) = Join(p, <<":">>)
    BY ItemFields DEF String
  <2> HIDE DEF p
  <2> QED
    BY <2>1, EmptySeq
<1>2. ASSUME Len(parts) = 5 PROVE decode_item(encode_item(item)) = {item}
  <2>1. parts = p
    <3>1. ":" \in Tokens
      BY WordType DEF Separators
    <3> HIDE DEF p
    <3> QED
      BY <1>1, <1>2, <3>1, SplitJoin
  <2>2. /\ parse_positive_int(p[1]) = {item.order_id} /\ parse_positive_int(p[2]) = {item.id}
        /\ str_to(p[3], ItemStatus) = {item.status} /\ p[4] = item.desc
        /\ parse_positive_int(p[5]) = {item.qty}
    <3>1. item.order_id \in Number /\ item.id \in Number /\ item.qty \in Number /\ item.status \in ItemStatus
      BY DEF OrderItem
    <3>2. /\ p[1] = to_string[item.order_id] /\ p[2] = to_string[item.id] /\ p[3] = to_str[item.status]
          /\ p[4] = item.desc /\ p[5] = to_string[item.qty]
      BY DEF item_fields
    <3> HIDE DEF p
    <3> QED
      BY <3>1, <3>2, ParseWritten, StrToWritten, Enums
  <2>3. item = [order_id |-> item.order_id, id |-> item.id, status |-> item.status, desc |-> item.desc, qty |-> item.qty]
    BY DEF OrderItem
  <2> HIDE DEF p, parts
  <2>4. decode_item(encode_item(item)) =
            {[order_id |-> order_id, id |-> id, status |-> status, desc |-> parts[4], qty |-> qty] :
                 order_id \in parse_positive_int(parts[1]), id \in parse_positive_int(parts[2]),
                 status \in str_to(parts[3], ItemStatus), qty \in parse_positive_int(parts[5])}
    BY <1>2 DEF decode_item, parts
  <2> QED
    BY <2>1, <2>2, <2>3, <2>4
<1>3. ASSUME Len(parts) # 5 PROVE decode_item(encode_item(item)) = {}
  BY <1>3 DEF decode_item
<1> QED
  BY <1>2, <1>3

PlainItem == [order_id : Number, id : Number, status : ItemStatus, desc : Word, qty : Number]

\* An item with a description without separators is written without any but ":", and read
\* as it was.
LEMMA PlainItemArrives ==
    ASSUME NEW item \in PlainItem
    PROVE  /\ item \in OrderItem
           /\ encode_item(item) \in Seq(Tokens \ {"|", ",", ";"})
           /\ decode_item(encode_item(item)) = {item}
<1>1. item \in OrderItem
  BY WordType DEF PlainItem, OrderItem
<1>2. /\ to_string[item.order_id] \in Word /\ to_string[item.id] \in Word /\ to_string[item.qty] \in Word
      /\ to_str[item.status] \in Word /\ item.desc \in Word
  BY ToStr, ToString_, Enums DEF PlainItem
<1>3. item_fields(item) \in Seq(Word) /\ Len(item_fields(item)) = 5 /\ item_fields(item) # <<>>
  BY <1>2 DEF item_fields
<1> DEFINE p == item_fields(item)
           T == Tokens \ {"|", ",", ";"}
<1>4. p \in Seq(Seq(T)) /\ <<":">> \in Seq(T)
  <2>1. Word \subseteq Seq(T)
    <3>1. Tokens \ Separators \subseteq T
      BY DEF Separators
    <3> HIDE DEF T
    <3> QED
      BY <3>1, SeqMonotonic DEF Word
  <2>2. ":" \in T
    BY WordType DEF Separators
  <2>3. <<":">> \in Seq(T)
    BY <2>2
  <2> HIDE DEF p, T
  <2>4. p \in Seq(Word)
    BY <1>3 DEF p
  <2> QED
    BY ONLY <2>1, <2>3, <2>4, SeqMonotonic
<1>5. encode_item(item) = Join(p, <<":">>)
  BY <1>1, ItemFields
<1>6. encode_item(item) \in Seq(T)
  <2> HIDE DEF p, T
  <2> QED
    BY <1>4, <1>5, JoinType
<1>7. Len(split(encode_item(item), ":")) = 5
  <2>1. Word \subseteq Seq(Tokens \ {":"}) /\ ":" \in Tokens
    BY WordType DEF Separators
  <2> HIDE DEF p, T
  <2>2. p \in Seq(Seq(Tokens \ {":"}))
    BY <1>3, <2>1, SeqMonotonic DEF p
  <2>3. split(encode_item(item), ":") = p
    BY <1>3, <1>5, <2>1, <2>2, SplitJoinPlain DEF p
  <2> QED
    BY <1>3, <2>3 DEF p
<1> QED
  BY <1>1, <1>6, <1>7, ItemNeverMisread

-----------------------------------------------------------------------------
(***************************************************************************)
(* Counting.                                                               *)
(***************************************************************************)
\* The weights of One are 0 and 1.
LEMMA OneType == ASSUME NEW S PROVE One(S) \in [Tokens -> Nat] /\ \A t \in Tokens : One(S)[t] = IF t \in S THEN 1 ELSE 0
BY DEF One

\* A string has no tokens of S exactly when its total is zero.
LEMMA NoneOf ==
    ASSUME NEW S, NEW s \in String
    PROVE  Total(s, One(S)) = 0 <=> s \in Seq(Tokens \ S)
<1> DEFINE w == One(S)
           P == {q \in Seq(Tokens) : Total(q, w) = 0 <=> q \in Seq(Tokens \ S)}
<1>1. w \in [Tokens -> Nat] /\ \A t \in Tokens : w[t] = IF t \in S THEN 1 ELSE 0
  BY OneType
<1> HIDE DEF w
<1>2. <<>> \in P
  BY <1>1, TotalEmpty, EmptySeq
<1>3. ASSUME NEW q \in P, NEW t \in Tokens PROVE Append(q, t) \in P
  <2>1. Total(Append(q, t), w) = Total(q, w) + w[t] /\ Total(q, w) \in Nat
    BY <1>1, TotalAppend, TotalType
  <2>2. Append(q, t) \in Seq(Tokens)
    BY AppendProperties
  <2>3. Append(q, t) \in Seq(Tokens \ S) <=> q \in Seq(Tokens \ S) /\ t \notin S
    <3>1. ASSUME q \in Seq(Tokens \ S), t \notin S PROVE Append(q, t) \in Seq(Tokens \ S)
      BY <3>1, AppendProperties
    <3>2. ASSUME Append(q, t) \in Seq(Tokens \ S) PROVE q \in Seq(Tokens \ S) /\ t \notin S
      <4>1. PICK r \in Seq(Tokens \ S) : r = Append(q, t)
        BY <3>2
      <4>2. q \in Seq(Tokens) /\ Len(q) \in Nat /\ Len(r) = Len(q) + 1 /\ r[Len(q) + 1] = t /\ \A i \in 1 .. Len(q) : r[i] = q[i]
        BY <4>1, AppendProperties, LenProperties
      <4> HIDE DEF P
      <4>3. \A i \in 1 .. Len(r) : r[i] \in Tokens \ S
        BY ElementOfSeq
      <4>4. t \in Tokens \ S /\ \A i \in 1 .. Len(q) : q[i] \in Tokens \ S
        BY <4>2, <4>3
      <4>5. q \in Seq(Tokens \ S)
        BY <4>2, <4>4, SeqMonotonic
      <4> QED
        BY <4>4, <4>5
    <3> QED
      BY <3>1, <3>2
  <2>4. Total(q, w) = 0 <=> q \in Seq(Tokens \ S)
    OBVIOUS
  <2> HIDE DEF P
  <2>5. Total(Append(q, t), w) = 0 <=> Append(q, t) \in Seq(Tokens \ S)
    BY <1>1, <2>1, <2>3, <2>4
  <2> QED
    BY <2>2, <2>5 DEF P
<1>4. P \in SUBSET Seq(Tokens)
  OBVIOUS
<1> HIDE DEF P
<1>5. \A q \in Seq(Tokens) : q \in P
  BY <1>2, <1>3, <1>4, AllSequences
<1> QED
  BY <1>5 DEF P, String, w

\* Separators of two kinds are no more than all separators.
LEMMA TwoKinds ==
    ASSUME NEW s \in String
    PROVE  Total(s, One({":"})) + Total(s, One({";"})) <= Total(s, One(Separators))
<1> DEFINE c == One({":"})
           d == One({";"})
           w == One(Separators)
           P == {q \in Seq(Tokens) : Total(q, c) + Total(q, d) <= Total(q, w)}
<1>1. c \in [Tokens -> Nat] /\ d \in [Tokens -> Nat] /\ w \in [Tokens -> Nat]
  BY OneType
<1>2. \A t \in Tokens : c[t] + d[t] <= w[t]
  <2> SUFFICES ASSUME NEW t \in Tokens PROVE c[t] + d[t] <= w[t]
    OBVIOUS
  <2>1. c[t] = IF t = ":" THEN 1 ELSE 0
    BY DEF One
  <2>2. d[t] = IF t = ";" THEN 1 ELSE 0
    BY DEF One
  <2>3. w[t] = IF t \in Separators THEN 1 ELSE 0
    BY DEF One
  <2> DEFINE x == c[t]
             y == d[t]
             z == w[t]
  <2>4. (x = 0 /\ y = 0 /\ z \in {0, 1}) \/ (x = 1 /\ y = 0 /\ z = 1) \/ (x = 0 /\ y = 1 /\ z = 1)
    <3> HIDE DEF x, y, z, c, d, w
    <3>1. x = (IF t = ":" THEN 1 ELSE 0) /\ y = (IF t = ";" THEN 1 ELSE 0) /\ z = IF t \in Separators THEN 1 ELSE 0
      BY <2>1, <2>2, <2>3, Zenon DEF x, y, z
    <3>2. ":" # ";" /\ ":" \in Separators /\ ";" \in Separators
      BY DEF Separators
    <3> QED
      BY ONLY <3>1, <3>2
  <2> HIDE DEF x, y, z
  <2>5. x + y <= z
    BY ONLY <2>4
  <2> QED
    BY <2>5 DEF x, y, z
<1> HIDE DEF c, d, w
<1>3. <<>> \in P
  <2>1. Total(<<>>, c) = 0 /\ Total(<<>>, d) = 0 /\ Total(<<>>, w) = 0 /\ <<>> \in Seq(Tokens)
    BY <1>1, TotalEmpty, EmptySeq
  <2> QED
    BY <2>1
<1>4. ASSUME NEW q \in P, NEW t \in Tokens PROVE Append(q, t) \in P
  <2>1. /\ Total(Append(q, t), c) = Total(q, c) + c[t] /\ Total(q, c) \in Nat /\ c[t] \in Nat
        /\ Total(Append(q, t), d) = Total(q, d) + d[t] /\ Total(q, d) \in Nat /\ d[t] \in Nat
        /\ Total(Append(q, t), w) = Total(q, w) + w[t] /\ Total(q, w) \in Nat /\ w[t] \in Nat
    BY <1>1, TotalAppend, TotalType
  <2>2. Append(q, t) \in Seq(Tokens) /\ Total(q, c) + Total(q, d) <= Total(q, w)
    BY AppendProperties
  <2> HIDE DEF P
  <2>3. Total(Append(q, t), c) + Total(Append(q, t), d) <= Total(Append(q, t), w)
    <3> DEFINE a1 == Total(q, c)
               a2 == Total(q, d)
               a3 == Total(q, w)
               b1 == c[t]
               b2 == d[t]
               b3 == w[t]
    <3>1. a1 \in Nat /\ a2 \in Nat /\ a3 \in Nat /\ b1 \in Nat /\ b2 \in Nat /\ b3 \in Nat
      BY <2>1
    <3>2. a1 + a2 <= a3 /\ b1 + b2 <= b3
      BY <1>2, <2>2
    <3> HIDE DEF a1, a2, a3, b1, b2, b3
    <3>3. a1 + b1 + (a2 + b2) <= a3 + b3
      BY ONLY <3>1, <3>2
    <3> QED
      BY <2>1, <3>3, Zenon DEF a1, a2, a3, b1, b2, b3
  <2> QED
    BY <2>2, <2>3 DEF P
<1>5. P \in SUBSET Seq(Tokens)
  OBVIOUS
<1> HIDE DEF P
<1>6. \A q \in Seq(Tokens) : q \in P
  BY <1>3, <1>4, <1>5, AllSequences
<1> QED
  BY <1>6 DEF P, String, c, d, w

\* The total of fields, one by one; of three, and of five.
LEMMA TotalMore ==
    ASSUME NEW w \in [Tokens -> Nat], NEW sep \in Tokens, NEW p \in Seq(String), NEW x \in String
    PROVE  Total(Join(Append(p, x), <<sep>>), w) =
             IF p = <<>> THEN Total(x, w) ELSE Total(Join(p, <<sep>>), w) + w[sep] + Total(x, w)
<1>1. <<sep>> \in Seq(Tokens) /\ <<>> \in Seq(Tokens) /\ <<sep>> = Append(<<>>, sep)
  OBVIOUS
<1>2. PICK glue \in Seq(Tokens) : glue = <<sep>>
  BY <1>1
<1>3. Total(glue, w) = w[sep]
  <2>1. Total(<<sep>>, w) = Total(<<>>, w) + w[sep] /\ Total(<<>>, w) = 0
    BY <1>1, TotalAppend, TotalEmpty
  <2> QED
    BY <1>2, <2>1
<1>4. PICK q \in Seq(Seq(Tokens)), y \in Seq(Tokens) : q = p /\ y = x
  BY DEF String
<1>5. Total(Join(Append(q, y), glue), w) =
        IF q = <<>> THEN Total(y, w) ELSE Total(Join(q, glue), w) + Total(glue, w) + Total(y, w)
  BY TotalJoin
<1> QED
  BY <1>2, <1>3, <1>4, <1>5

\* The sum over three parts with two separators.
LEMMA TotalThree ==
    ASSUME NEW w \in [Tokens -> Nat], NEW sep \in Tokens, NEW a \in String, NEW b \in String, NEW c \in String
    PROVE  Total(Join(<<a, b, c>>, <<sep>>), w) = Total(a, w) + Total(b, w) + Total(c, w) + 2 * w[sep]
<1>1. PICK p0 \in Seq(String), p1 \in Seq(String), p2 \in Seq(String) : p0 = <<>> /\ p1 = <<a>> /\ p2 = <<a, b>>
  <2>1. <<>> \in Seq(String) /\ <<a>> \in Seq(String) /\ <<a, b>> \in Seq(String)
    OBVIOUS
  <2> QED
    BY <2>1
<1>2. p1 = Append(p0, a) /\ p2 = Append(p1, b) /\ <<a, b, c>> = Append(p2, c)
  BY <1>1
<1>3. p0 = <<>> /\ p1 # <<>> /\ p2 # <<>>
  BY <1>1
<1>4. /\ Total(Join(Append(p0, a), <<sep>>), w) = Total(a, w)
      /\ Total(Join(Append(p1, b), <<sep>>), w) = Total(Join(p1, <<sep>>), w) + w[sep] + Total(b, w)
      /\ Total(Join(Append(p2, c), <<sep>>), w) = Total(Join(p2, <<sep>>), w) + w[sep] + Total(c, w)
  BY <1>3, TotalMore, Zenon
<1>5. Total(a, w) \in Nat /\ Total(b, w) \in Nat /\ Total(c, w) \in Nat /\ w[sep] \in Nat
  BY TotalType DEF String
<1>6. Total(Join(<<a, b, c>>, <<sep>>), w) = Total(a, w) + w[sep] + Total(b, w) + w[sep] + Total(c, w)
  BY <1>2, <1>4, Zenon
<1> QED
  <2> DEFINE A == Total(a, w)
             B == Total(b, w)
             C == Total(c, w)
             S == w[sep]
  <2>1. A \in Nat /\ B \in Nat /\ C \in Nat /\ S \in Nat
    BY <1>5
  <2> HIDE DEF A, B, C, S
  <2>2. A + S + B + S + C = A + B + C + 2 * S
    BY ONLY <2>1
  <2> QED
    BY <1>6, <2>2, Zenon DEF A, B, C, S

\* The sum over five parts with four separators.
LEMMA TotalFive ==
    ASSUME NEW w \in [Tokens -> Nat], NEW sep \in Tokens,
           NEW a \in String, NEW b \in String, NEW c \in String, NEW d \in String, NEW e \in String
    PROVE  Total(Join(<<a, b, c, d, e>>, <<sep>>), w) =
             Total(a, w) + Total(b, w) + Total(c, w) + Total(d, w) + Total(e, w) + 4 * w[sep]
<1>1. PICK p3 \in Seq(String), p4 \in Seq(String) : p3 = <<a, b, c>> /\ p4 = <<a, b, c, d>>
  <2>1. <<a, b, c>> \in Seq(String) /\ <<a, b, c, d>> \in Seq(String)
    OBVIOUS
  <2> QED
    BY <2>1
<1>2. p4 = Append(p3, d) /\ <<a, b, c, d, e>> = Append(p4, e)
  BY <1>1
<1>3. p3 # <<>> /\ p4 # <<>>
  BY <1>1
<1>4. /\ Total(Join(Append(p3, d), <<sep>>), w) = Total(Join(p3, <<sep>>), w) + w[sep] + Total(d, w)
      /\ Total(Join(Append(p4, e), <<sep>>), w) = Total(Join(p4, <<sep>>), w) + w[sep] + Total(e, w)
  BY <1>3, TotalMore, Zenon
<1>5. Total(Join(p3, <<sep>>), w) = Total(a, w) + Total(b, w) + Total(c, w) + 2 * w[sep]
  <2>1. Total(Join(<<a, b, c>>, <<sep>>), w) = Total(a, w) + Total(b, w) + Total(c, w) + 2 * w[sep]
    BY TotalThree
  <2> QED
    BY <1>1, <2>1, Zenon
<1>6. /\ Total(a, w) \in Nat /\ Total(b, w) \in Nat /\ Total(c, w) \in Nat /\ w[sep] \in Nat
      /\ Total(d, w) \in Nat /\ Total(e, w) \in Nat
  BY TotalType DEF String
<1>7. Total(Join(<<a, b, c, d, e>>, <<sep>>), w) =
         Total(a, w) + Total(b, w) + Total(c, w) + 2 * w[sep] + w[sep] + Total(d, w) + w[sep] + Total(e, w)
  BY <1>2, <1>4, <1>5, Zenon
<1> QED
  <2> DEFINE A == Total(a, w)
             B == Total(b, w)
             C == Total(c, w)
             D == Total(d, w)
             E == Total(e, w)
             S == w[sep]
  <2>1. A \in Nat /\ B \in Nat /\ C \in Nat /\ D \in Nat /\ E \in Nat /\ S \in Nat
    BY <1>6
  <2> HIDE DEF A, B, C, D, E, S
  <2>2. A + B + C + 2 * S + S + D + S + E = A + B + C + D + E + 4 * S
    BY ONLY <2>1
  <2> QED
    BY <1>7, <2>2, Zenon DEF A, B, C, D, E, S

-----------------------------------------------------------------------------
(***************************************************************************)
(* The items of an order.                                                  *)
(***************************************************************************)
texts(items) == [k \in DOMAIN items |-> encode_item(items[k])]

descs(items) == [k \in DOMAIN items |-> items[k].desc]

\* Both are as long as the list of items.
LEMMA ItemsType ==
    ASSUME NEW items \in Seq(OrderItem)
    PROVE  /\ texts(items) \in Seq(String) /\ Len(texts(items)) = Len(items)
           /\ descs(items) \in Seq(String) /\ Len(descs(items)) = Len(items)
           /\ \A k \in 1 .. Len(items) : texts(items)[k] = encode_item(items[k]) /\ descs(items)[k] = items[k].desc
           /\ texts(items) = <<>> <=> items = <<>>
<1>1. DOMAIN items = 1 .. Len(items) /\ Len(items) \in Nat /\ \A k \in 1 .. Len(items) : items[k] \in OrderItem
  BY LenProperties, ElementOfSeq
<1>2. \A k \in 1 .. Len(items) : encode_item(items[k]) \in String /\ items[k].desc \in String
  BY <1>1, ItemFields DEF OrderItem
<1>3. texts(items) \in Seq(String) /\ Len(texts(items)) = Len(items)
  BY <1>1, <1>2 DEF texts
<1>4. descs(items) \in Seq(String) /\ Len(descs(items)) = Len(items)
  BY <1>1, <1>2 DEF descs
<1>5. \A k \in 1 .. Len(items) : texts(items)[k] = encode_item(items[k]) /\ descs(items)[k] = items[k].desc
  BY <1>1 DEF texts, descs
<1>6. texts(items) = <<>> <=> items = <<>>
  BY <1>1, <1>3, EmptySeq
<1> QED
  BY <1>3, <1>4, <1>5, <1>6

\* Another item adds its text and its description.
LEMMA ItemsAppend ==
    ASSUME NEW items \in Seq(OrderItem), NEW item \in OrderItem
    PROVE  /\ texts(Append(items, item)) = Append(texts(items), encode_item(item))
           /\ descs(Append(items, item)) = Append(descs(items), item.desc)
<1>1. PICK more \in Seq(OrderItem) : more = Append(items, item)
  BY AppendProperties
<1> DEFINE n == Len(items)
<1>2. n \in Nat /\ Len(more) = n + 1 /\ more[n + 1] = item /\ \A k \in 1 .. n : more[k] = items[k]
  BY <1>1, AppendProperties, LenProperties
<1>3. n + 1 \in 1 .. n + 1 /\ \A k \in 1 .. n : k \in 1 .. n + 1
  <2> HIDE DEF n
  <2> QED
    BY <1>2
<1>4. texts(more) = Append(texts(items), encode_item(item))
  <2>1. PICK t \in Seq(String) : t = texts(items) /\ Len(t) = n /\ \A k \in 1 .. n : t[k] = encode_item(items[k])
    BY ItemsType
  <2>2. PICK u \in Seq(String) : u = texts(more) /\ Len(u) = n + 1 /\ \A k \in 1 .. n + 1 : u[k] = encode_item(more[k])
    BY <1>2, ItemsType
  <2>3. PICK x \in String : x = encode_item(item)
    BY ItemFields
  <2> HIDE DEF n
  <2>4. u[n + 1] = x /\ \A k \in 1 .. n : u[k] = t[k]
    BY <1>2, <1>3, <2>1, <2>2, <2>3, Zenon
  <2>5. u = Append(t, x)
    <3>1. Len(u) = Len(t) + 1 /\ u[Len(t) + 1] = x /\ \A k \in 1 .. Len(t) : u[k] = t[k]
      BY <2>1, <2>2, <2>4, Zenon
    <3> QED
      BY <3>1, IsAppend, ZenonT(60)
  <2> QED
    BY <2>1, <2>2, <2>3, <2>5
<1>5. descs(more) = Append(descs(items), item.desc)
  <2>1. PICK t \in Seq(String) : t = descs(items) /\ Len(t) = n /\ \A k \in 1 .. n : t[k] = items[k].desc
    BY ItemsType
  <2>2. PICK u \in Seq(String) : u = descs(more) /\ Len(u) = n + 1 /\ \A k \in 1 .. n + 1 : u[k] = more[k].desc
    BY <1>2, ItemsType
  <2>3. PICK x \in String : x = item.desc
    BY DEF OrderItem
  <2> HIDE DEF n
  <2>4. u[n + 1] = x /\ \A k \in 1 .. n : u[k] = t[k]
    BY <1>2, <1>3, <2>1, <2>2, <2>3, ZenonT(60)
  <2>5. u = Append(t, x)
    <3>1. Len(u) = Len(t) + 1 /\ u[Len(t) + 1] = x /\ \A k \in 1 .. Len(t) : u[k] = t[k]
      BY <2>1, <2>2, <2>4, Zenon
    <3> QED
      BY <3>1, IsAppend, ZenonT(60)
  <2> QED
    BY <2>1, <2>2, <2>3, <2>5
<1> QED
  BY <1>1, <1>4, <1>5

\* What the free text of an order counts.
Descs(items) == Join(descs(items), <<>>)

\* Its tokens are added to those of all the descriptions.
LEMMA DescsAppend ==
    ASSUME NEW items \in Seq(OrderItem), NEW item \in OrderItem, NEW w \in [Tokens -> Nat]
    PROVE  /\ Descs(items) \in String /\ Descs(<<>>) = <<>>
           /\ Total(Descs(Append(items, item)), w) = Total(Descs(items), w) + Total(item.desc, w)
<1>1. PICK none \in Seq(Tokens) : none = <<>>
  BY EmptySeq
<1>2. PICK d \in Seq(Seq(Tokens)), x \in Seq(Tokens) : d = descs(items) /\ x = item.desc
  BY ItemsType DEF String, OrderItem
<1>3. Descs(Append(items, item)) = Join(Append(d, x), none)
  BY <1>1, <1>2, ItemsAppend DEF Descs
<1>4. Total(Join(Append(d, x), none), w) =
        IF d = <<>> THEN Total(x, w) ELSE Total(Join(d, none), w) + Total(none, w) + Total(x, w)
  BY TotalJoin
<1>5. Total(none, w) = 0 /\ Join(<<>>, none) = <<>>
  BY <1>1, TotalEmpty, JoinEmpty
<1>6. Descs(<<>>) = <<>>
  <2>1. descs(<<>>) = <<>>
    BY DEF descs
  <2> QED
    BY <1>1, <1>5, <2>1 DEF Descs
<1>7. Join(d, none) \in Seq(Tokens) /\ Descs(items) = Join(d, none)
  BY <1>1, <1>2, JoinType DEF Descs
<1>8. Total(x, w) \in Nat /\ Total(Join(d, none), w) \in Nat
  BY <1>7, TotalType
<1>9. CASE d = <<>>
  <2>1. Total(Join(d, none), w) = 0
    BY <1>1, <1>5, <1>9
  <2> QED
    BY <1>2, <1>3, <1>4, <1>6, <1>7, <1>8, <1>9, <2>1 DEF String
<1>10. CASE d # <<>>
  BY <1>2, <1>3, <1>4, <1>5, <1>6, <1>7, <1>8, <1>10 DEF String
<1> QED
  BY <1>9, <1>10

\* When it counts no separator, no description holds one.
LEMMA DescsPlain ==
    ASSUME NEW items \in Seq(OrderItem), Total(Descs(items), One(Separators)) = 0
    PROVE  items \in Seq(PlainItem)
<1> DEFINE w == One(Separators)
           P == {q \in Seq(OrderItem) : Total(Descs(q), w) = 0 => q \in Seq(PlainItem)}
<1>1. w \in [Tokens -> Nat]
  BY OneType
<1> HIDE DEF w
<1>2. <<>> \in P
  BY EmptySeq
<1>3. ASSUME NEW q \in P, NEW x \in OrderItem PROVE Append(q, x) \in P
  <2>1. Append(q, x) \in Seq(OrderItem)
    BY AppendProperties
  <2>2. SUFFICES ASSUME Total(Descs(Append(q, x)), w) = 0 PROVE Append(q, x) \in Seq(PlainItem)
    BY <2>1
  <2>3. Total(Descs(Append(q, x)), w) = Total(Descs(q), w) + Total(x.desc, w) /\ Descs(q) \in String
    BY <1>1, DescsAppend
  <2>4. Total(Descs(q), w) \in Nat /\ Total(x.desc, w) \in Nat
    BY <1>1, <2>3, TotalType DEF String, OrderItem
  <2>5. Total(Descs(q), w) = 0 /\ Total(x.desc, w) = 0
    <3> DEFINE m == Total(Descs(q), w)
               n == Total(x.desc, w)
    <3>1. m \in Nat /\ n \in Nat /\ m + n = 0
      BY <2>2, <2>3, <2>4
    <3> HIDE DEF m, n
    <3>2. m = 0 /\ n = 0
      BY ONLY <3>1
    <3> QED
      BY <3>2 DEF m, n
  <2>6. q \in Seq(PlainItem)
    BY <2>5
  <2>7. x \in PlainItem
    BY <2>5, NoneOf DEF OrderItem, PlainItem, Word, w
  <2> QED
    BY <2>6, <2>7, AppendProperties
<1>4. P \in SUBSET Seq(OrderItem)
  OBVIOUS
<1> HIDE DEF P
<1>5. \A q \in Seq(OrderItem) : q \in P
  BY <1>2, <1>3, <1>4, AllSequences
<1> QED
  BY <1>5 DEF P, w

\* The colons and semicolons of an item, of the items of an order, and of strings that
\* decode_item accepts.
LEMMA ItemCount ==
    ASSUME NEW item \in OrderItem
    PROVE  /\ Total(encode_item(item), One({":"})) = Total(item.desc, One({":"})) + 4
           /\ Total(encode_item(item), One({";"})) = Total(item.desc, One({";"}))
<1> DEFINE a == to_string[item.order_id]
           b == to_string[item.id]
           c == to_str[item.status]
           d == item.desc
           e == to_string[item.qty]
<1>1. a \in Word /\ b \in Word /\ c \in Word /\ e \in Word
  BY ToStr, ToString_, Enums DEF OrderItem
<1>2. a \in String /\ b \in String /\ c \in String /\ d \in String /\ e \in String
  BY <1>1, WordType DEF OrderItem
<1>3. encode_item(item) = Join(<<a, b, c, d, e>>, <<":">>)
  BY DEF encode_item
<1> HIDE DEF a, b, c, d, e
<1>4. ASSUME NEW sep \in Separators
      PROVE  Total(encode_item(item), One({sep})) = Total(d, One({sep})) + 4 * One({sep})[":"]
  <2>1. \A s \in Word : s \in String => Total(s, One({sep})) = 0
    BY WordType, NoneOf
  <2>2. PICK w \in [Tokens -> Nat] : w = One({sep})
    BY OneType
  <2>3. ":" \in Tokens
    BY WordType DEF Separators
  <2>4. Total(Join(<<a, b, c, d, e>>, <<":">>), w) =
          Total(a, w) + Total(b, w) + Total(c, w) + Total(d, w) + Total(e, w) + 4 * w[":"]
    BY <1>2, <2>3, TotalFive
  <2>5. Total(a, w) = 0 /\ Total(b, w) = 0 /\ Total(c, w) = 0 /\ Total(e, w) = 0
    BY <1>1, <1>2, <2>1, <2>2
  <2>6. Total(d, w) \in Nat /\ w[":"] \in Nat
    BY <1>2, <2>3, TotalType DEF String
  <2>7. Total(encode_item(item), w) = Total(d, w) + 4 * w[":"]
    BY <1>3, <2>4, <2>5, <2>6
  <2> QED
    BY <2>2, <2>7
<1>5. ":" \in Separators /\ ";" \in Separators /\ ":" \in Tokens /\ ":" # ";"
  BY WordType DEF Separators
<1>6. One({":"})[":"] = 1 /\ One({";"})[":"] = 0
  BY <1>5 DEF One
<1>7. Total(d, One({":"})) \in Nat /\ Total(d, One({";"})) \in Nat
  BY <1>2, OneType, TotalType DEF String
<1> DEFINE xc == Total(d, One({":"}))
           xs == Total(d, One({";"}))
           yc == Total(encode_item(item), One({":"}))
           ys == Total(encode_item(item), One({";"}))
           zc == One({":"})[":"]
           zs == One({";"})[":"]
<1>8. yc = xc + 4 * zc /\ ys = xs + 4 * zs
  BY <1>4, <1>5
<1>9. xc \in Nat /\ xs \in Nat /\ zc = 1 /\ zs = 0
  BY <1>6, <1>7
<1> HIDE DEF xc, xs, yc, ys, zc, zs
<1>10. yc = xc + 4 /\ ys = xs
  BY ONLY <1>8, <1>9
<1> QED
  BY <1>10 DEF xc, xs, yc, ys, d

\* The items have four colons each and a semicolon between them, besides those in the
\* descriptions.
LEMMA ItemsCount ==
    ASSUME NEW items \in Seq(OrderItem), items # <<>>
    PROVE  /\ Total(encode_items(items), One({":"})) = Total(Descs(items), One({":"})) + 4 * Len(items)
           /\ Total(encode_items(items), One({";"})) = Total(Descs(items), One({";"})) + Len(items) - 1
<1> DEFINE c == One({":"})
           d == One({";"})
           P == {q \in Seq(OrderItem) : q # <<>> =>
                    /\ Total(encode_items(q), c) = Total(Descs(q), c) + 4 * Len(q)
                    /\ Total(encode_items(q), d) = Total(Descs(q), d) + Len(q) - 1}
<1>1. c \in [Tokens -> Nat] /\ d \in [Tokens -> Nat]
  BY OneType
<1>2. c[";"] = 0 /\ d[";"] = 1 /\ ";" \in Tokens
  BY WordType DEF One, Separators
<1>3. ASSUME NEW x \in OrderItem
      PROVE  Total(encode_item(x), c) = Total(x.desc, c) + 4 /\ Total(encode_item(x), d) = Total(x.desc, d)
  BY ItemCount
<1> HIDE DEF c, d
<1>4. <<>> \in P
  BY EmptySeq
<1>5. ASSUME NEW q \in P, NEW x \in OrderItem PROVE Append(q, x) \in P
  <2>1. Append(q, x) \in Seq(OrderItem) /\ Len(Append(q, x)) = Len(q) + 1 /\ Len(q) \in Nat
    BY AppendProperties, LenProperties
  <2>2. q # <<>> => /\ Total(encode_items(q), c) = Total(Descs(q), c) + 4 * Len(q)
                    /\ Total(encode_items(q), d) = Total(Descs(q), d) + Len(q) - 1
    OBVIOUS
  <2>3. SUFFICES /\ Total(encode_items(Append(q, x)), c) = Total(Descs(Append(q, x)), c) + 4 * (Len(q) + 1)
                 /\ Total(encode_items(Append(q, x)), d) = Total(Descs(Append(q, x)), d) + Len(q)
    BY <2>1
  <2>4. q \in Seq(OrderItem)
    OBVIOUS
  <2> HIDE DEF P
  <2>5. PICK t \in Seq(String), y \in String : t = texts(q) /\ y = encode_item(x) /\ (t = <<>> <=> q = <<>>)
    BY <2>4, ItemsType, ItemFields
  <2>6. encode_items(Append(q, x)) = Join(Append(t, y), <<";">>) /\ encode_items(q) = Join(t, <<";">>)
    BY <2>4, <2>5, ItemsAppend DEF encode_items, texts
  <2>7. ASSUME NEW w \in [Tokens -> Nat]
        PROVE  /\ Total(encode_items(Append(q, x)), w) =
                    IF q = <<>> THEN Total(y, w) ELSE Total(encode_items(q), w) + w[";"] + Total(y, w)
               /\ Total(Descs(Append(q, x)), w) = Total(Descs(q), w) + Total(x.desc, w)
               /\ Total(Descs(q), w) \in Nat /\ Total(x.desc, w) \in Nat
               /\ q = <<>> => Total(Descs(q), w) = 0
    <3>1. Total(Join(Append(t, y), <<";">>), w) =
            IF t = <<>> THEN Total(y, w) ELSE Total(Join(t, <<";">>), w) + w[";"] + Total(y, w)
      BY <1>2, TotalMore
    <3>2. Descs(q) \in String /\ Descs(<<>>) = <<>>
          /\ Total(Descs(Append(q, x)), w) = Total(Descs(q), w) + Total(x.desc, w)
      BY <2>4, DescsAppend
    <3>3. Total(Descs(q), w) \in Nat /\ Total(x.desc, w) \in Nat
      BY <3>2, TotalType DEF String, OrderItem
    <3>4. q = <<>> => Total(Descs(q), w) = 0
      BY <3>2, TotalEmpty
    <3> QED
      BY <2>5, <2>6, <3>1, <3>2, <3>3, <3>4, Zenon
  <2>8. Total(y, c) = Total(x.desc, c) + 4 /\ Total(y, d) = Total(x.desc, d)
    BY <1>3, <2>5
  <2> DEFINE n == Len(q)
             Ec == Total(encode_items(q), c)
             Ed == Total(encode_items(q), d)
             Fc == Total(encode_items(Append(q, x)), c)
             Fd == Total(encode_items(Append(q, x)), d)
             Dc == Total(Descs(q), c)
             Dd == Total(Descs(q), d)
             Gc == Total(Descs(Append(q, x)), c)
             Gd == Total(Descs(Append(q, x)), d)
             yc == Total(y, c)
             yd == Total(y, d)
             xc == Total(x.desc, c)
             xd == Total(x.desc, d)
             sc == c[";"]
             sd == d[";"]
  <2>9. /\ n \in Nat /\ Dc \in Nat /\ Dd \in Nat /\ xc \in Nat /\ xd \in Nat /\ sc = 0 /\ sd = 1
        /\ yc = xc + 4 /\ yd = xd /\ Gc = Dc + xc /\ Gd = Dd + xd
    BY <1>1, <1>2, <2>1, <2>7, <2>8
  <2>10. CASE q = <<>>
    <3>1. n = 0 /\ Dc = 0 /\ Dd = 0 /\ Fc = yc /\ Fd = yd
      BY <1>1, <2>7, <2>10, EmptySeq
    <3> HIDE DEF n, Ec, Ed, Fc, Fd, Dc, Dd, Gc, Gd, yc, yd, xc, xd, sc, sd
    <3>2. Fc = Gc + 4 * (n + 1) /\ Fd = Gd + n
      BY ONLY <2>9, <3>1
    <3> QED
      BY <3>2 DEF n, Fc, Fd, Gc, Gd
  <2>11. CASE q # <<>>
    <3>1. Fc = Ec + sc + yc /\ Fd = Ed + sd + yd /\ Ec = Dc + 4 * n /\ Ed = Dd + n - 1
      BY <1>1, <2>2, <2>7, <2>11
    <3> HIDE DEF n, Ec, Ed, Fc, Fd, Dc, Dd, Gc, Gd, yc, yd, xc, xd, sc, sd
    <3>2. Fc = Gc + 4 * (n + 1) /\ Fd = Gd + n
      BY ONLY <2>9, <3>1
    <3> QED
      BY <3>2 DEF n, Fc, Fd, Gc, Gd
  <2> QED
    BY <2>10, <2>11
<1>6. P \in SUBSET Seq(OrderItem)
  OBVIOUS
<1> HIDE DEF P
<1>7. \A q \in Seq(OrderItem) : q \in P
  BY <1>4, <1>5, <1>6, AllSequences
<1> QED
  BY <1>7 DEF P, c, d

\* Strings that fall into five fields each have four colons each.
LEMMA AcceptedCount ==
    ASSUME NEW p \in Seq(String), \A k \in 1 .. Len(p) : Len(split(p[k], ":")) = 5
    PROVE  Total(Join(p, <<";">>), One({":"})) = 4 * Len(p)
<1> DEFINE c == One({":"})
           P == {q \in Seq(String) : (\A k \in 1 .. Len(q) : Len(split(q[k], ":")) = 5) =>
                                         Total(Join(q, <<";">>), c) = 4 * Len(q)}
<1>1. c \in [Tokens -> Nat] /\ c[";"] = 0 /\ ";" \in Tokens /\ ":" \in Tokens
  BY OneType, WordType DEF One, Separators
<1>2. ASSUME NEW s \in String, Len(split(s, ":")) = 5 PROVE Total(s, c) = 4
  <2>1. Total(s, c) \in Nat
    BY <1>1, TotalType DEF String
  <2>2. 5 = Total(s, c) + 1
    BY <1>1, <1>2, SplitCount
  <2> HIDE DEF c
  <2> QED
    BY <2>1, <2>2
<1> HIDE DEF c
<1>3. <<>> \in P
  <2>1. PICK glue \in Seq(Tokens) : glue = <<";">>
    <3>1. ";" \in Tokens
      BY <1>1
    <3>2. <<";">> \in Seq(Tokens)
      BY <3>1, Singleton
    <3> QED
      BY <3>2
  <2>2. Join(<<>>, glue) = <<>> /\ Total(<<>>, c) = 0
    BY <1>1, JoinEmpty, TotalEmpty
  <2> DEFINE T == Total(Join(<<>>, <<";">>), c)
             n == Len(<<>>)
  <2>3. T = 0 /\ n = 0
    BY <2>1, <2>2, EmptySeq
  <2> HIDE DEF T, n
  <2>4. T = 4 * n
    BY ONLY <2>3
  <2>5. <<>> \in Seq(String) /\ Total(Join(<<>>, <<";">>), c) = 4 * Len(<<>>)
    BY <2>4, EmptySeq DEF T, n
  <2> QED
    BY <2>5, Zenon
<1>4. ASSUME NEW q \in P, NEW x \in String PROVE Append(q, x) \in P
  <2>0. /\ q \in Seq(String)
        /\ (\A k \in 1 .. Len(q) : Len(split(q[k], ":")) = 5) => Total(Join(q, <<";">>), c) = 4 * Len(q)
    OBVIOUS
  <2>a. ASSUME /\ Append(q, x) \in Seq(String)
               /\ (\A k \in 1 .. Len(Append(q, x)) : Len(split(Append(q, x)[k], ":")) = 5) =>
                     Total(Join(Append(q, x), <<";">>), c) = 4 * Len(Append(q, x))
        PROVE  Append(q, x) \in P
    BY <2>a, Zenon
  <2> HIDE DEF P
  <2>1. /\ Append(q, x) \in Seq(String) /\ Len(Append(q, x)) = Len(q) + 1 /\ Len(q) \in Nat
        /\ Append(q, x)[Len(q) + 1] = x /\ \A k \in 1 .. Len(q) : Append(q, x)[k] = q[k]
    <3>1. PICK r \in Seq(String) : r = q
      BY <2>0
    <3>2. /\ Append(r, x) \in Seq(String) /\ Len(Append(r, x)) = Len(r) + 1 /\ Len(r) \in Nat
          /\ Append(r, x)[Len(r) + 1] = x /\ \A k \in 1 .. Len(r) : Append(r, x)[k] = r[k]
      BY AppendProperties, LenProperties
    <3> QED
      BY <3>1, <3>2, Zenon
  <2>2. SUFFICES ASSUME \A k \in 1 .. Len(q) + 1 : Len(split(Append(q, x)[k], ":")) = 5
                 PROVE  Total(Join(Append(q, x), <<";">>), c) = 4 * (Len(q) + 1)
    BY <2>1, <2>a, Zenon
  <2>3. Len(q) + 1 \in 1 .. Len(q) + 1 /\ \A k \in 1 .. Len(q) : k \in 1 .. Len(q) + 1
    BY <2>1
  <2>4. Len(split(x, ":")) = 5 /\ \A k \in 1 .. Len(q) : Len(split(q[k], ":")) = 5
    BY <2>1, <2>2, <2>3, Zenon
  <2>5. Total(x, c) = 4 /\ Total(Join(q, <<";">>), c) = 4 * Len(q)
    BY <1>2, <2>0, <2>4
  <2>7. Total(Join(Append(q, x), <<";">>), c) =
          IF q = <<>> THEN Total(x, c) ELSE Total(Join(q, <<";">>), c) + c[";"] + Total(x, c)
    BY <1>1, <2>0, TotalMore
  <2> DEFINE n == Len(q)
             F == Total(Join(Append(q, x), <<";">>), c)
  <2>8. n \in Nat /\ (F = 4 * n + 0 + 4 \/ (F = 4 /\ n = 0))
    BY <1>1, <2>1, <2>5, <2>7, EmptySeq
  <2> HIDE DEF n, F
  <2>9. F = 4 * (n + 1)
    BY ONLY <2>8
  <2> QED
    BY <2>9 DEF n, F
<1>5. P \in SUBSET Seq(String)
  OBVIOUS
<1> HIDE DEF P
<1>6. \A q \in Seq(String) : q \in P
  BY <1>3, <1>4, <1>5, AllSequences
<1> QED
  BY <1>6 DEF P, c

\* The descriptions are a string.
LEMMA DescsType == ASSUME NEW items \in Seq(OrderItem) PROVE Descs(items) \in String
<1>1. PICK d \in Seq(Seq(Tokens)) : d = descs(items)
  BY ItemsType DEF String
<1>2. PICK none \in Seq(Tokens) : none = <<>>
  BY EmptySeq
<1>3. Join(d, none) \in Seq(Tokens)
  BY JoinType
<1> QED
  BY <1>1, <1>2, <1>3 DEF Descs, String

\* If every part of the items' text is to have five fields, then the parts are as many as
\* the items, and these, or one more for every five separators in the descriptions.
LEMMA ItemsSeparate ==
    ASSUME NEW items \in Seq(OrderItem), items # <<>>,
           NEW c, c = split(encode_items(items), ";"), \A k \in DOMAIN c : Len(split(c[k], ":")) = 5
    PROVE  /\ Len(c) \in Nat /\ DOMAIN c = 1 .. Len(c) /\ Len(items) \in Nat
           /\ c = texts(items)
              \/ (Len(c) > Len(items) /\ 5 * (Len(c) - Len(items)) <= Total(Descs(items), One(Separators)))
<1>1. PICK t \in Seq(String) : t = texts(items) /\ Len(t) = Len(items) /\ t # <<>>
  BY ItemsType
<1>2. ";" \in Tokens /\ ":" \in Tokens
  BY WordType DEF Separators
<1>3. <<";">> \in Seq(Tokens)
  BY <1>2, Singleton
<1>4. Join(t, <<";">>) \in String
  BY <1>3, JoinType DEF String
<1>5. PICK s \in String : s = Join(t, <<";">>) /\ s = encode_items(items)
  BY <1>1, <1>4 DEF encode_items, texts
<1>6. c \in Components(Tokens) /\ c = split(s, ";")
  BY <1>5, SplitType DEF String
<1>7. c \in Seq(String)
  BY <1>6 DEF Components, String
<1>8. Join(c, <<";">>) = s
  BY <1>2, <1>6, JoinSplit DEF String
<1>9. \A k \in 1 .. Len(c) : Len(split(c[k], ":")) = 5
  BY <1>7, LenProperties
<1>10. Total(s, One({":"})) = 4 * Len(c)
  BY <1>7, <1>8, <1>9, AcceptedCount
<1>11. Len(c) = Total(s, One({";"})) + 1
  BY <1>2, <1>6, SplitCount
<1>12. /\ Total(s, One({":"})) = Total(Descs(items), One({":"})) + 4 * Len(items)
       /\ Total(s, One({";"})) = Total(Descs(items), One({";"})) + Len(items) - 1
  BY <1>5, ItemsCount
<1>13. Descs(items) \in String
  BY DescsType
<1>14. /\ Total(Descs(items), One({":"})) + Total(Descs(items), One({";"})) <= Total(Descs(items), One(Separators))
  BY <1>13, TwoKinds
<1>15. /\ Total(Descs(items), One({":"})) \in Nat /\ Total(Descs(items), One({";"})) \in Nat
       /\ Total(Descs(items), One(Separators)) \in Nat
  BY <1>13, OneType, TotalType DEF String
<1> DEFINE a == Total(Descs(items), One({":"}))
           b == Total(Descs(items), One({";"}))
           all == Total(Descs(items), One(Separators))
           sa == Total(s, One({":"}))
           sb == Total(s, One({";"}))
           n == Len(items)
           m == Len(c)
<1>16. /\ a \in Nat /\ b \in Nat /\ all \in Nat /\ n \in Nat /\ m \in Nat
       /\ a + b <= all /\ sa = a + 4 * n /\ sb = b + n - 1 /\ m = sb + 1 /\ sa = 4 * m
  BY <1>7, <1>10, <1>11, <1>12, <1>14, <1>15, LenProperties
<1> HIDE DEF a, b, all, sa, sb, n, m
<1>17. m >= n /\ 5 * (m - n) <= all
  BY ONLY <1>16
<1>18. t \in Seq(Seq(Tokens))
  BY DEF String
<1>19. Len(c) = Len(t) => c = t
  BY <1>1, <1>2, <1>5, <1>6, <1>18, SplitJoin
<1>20. CASE m = n
  BY <1>1, <1>7, <1>16, <1>19, <1>20, LenProperties DEF m, n
<1>21. CASE m # n
  <2>1. m > n
    BY ONLY <1>16, <1>17, <1>21
  <2> QED
    BY <1>7, <1>16, <1>17, <2>1, LenProperties DEF m, n, all
<1> QED
  BY <1>20, <1>21

\* The text of the items is a string.
LEMMA EncodeItemsType == ASSUME NEW items \in Seq(OrderItem) PROVE encode_items(items) \in String
<1>1. PICK t \in Seq(Seq(Tokens)) : t = texts(items)
  BY ItemsType DEF String
<1>2. ";" \in Tokens
  BY WordType DEF Separators
<1>3. PICK glue \in Seq(Tokens) : glue = <<";">>
  BY <1>2, Singleton
<1>4. Join(t, glue) \in Seq(Tokens)
  BY JoinType
<1> QED
  BY <1>1, <1>3, <1>4 DEF encode_items, texts, String

\* The three fields of an order's text are the ones it was made of, if they are three.
LEMMA SplitThree ==
    ASSUME NEW a \in String, NEW b \in String, NEW e \in String, Len(split(Join(<<a, b, e>>, <<",">>), ",")) = 3
    PROVE  split(Join(<<a, b, e>>, <<",">>), ",") = <<a, b, e>>
<1>1. PICK p \in Seq(Seq(Tokens)) : p = <<a, b, e>> /\ Len(p) = 3
  <2>1. <<a, b, e>> \in Seq(String) /\ Len(<<a, b, e>>) = 3
    BY Triple, Zenon
  <2> QED
    BY <2>1 DEF String
<1>2. p # <<>>
  BY <1>1, EmptySeq
<1>3. "," \in Tokens
  BY WordType DEF Separators
<1>4. split(Join(p, <<",">>), ",") = p
  BY <1>1, <1>2, <1>3, SplitJoin
<1> QED
  BY <1>1, <1>4

\* What decode_order lets through.
LEMMA DecodeOrder ==
    ASSUME NEW s, NEW r \in decode_order(s)
    PROVE  LET f == split(s, ",")
           IN  /\ Len(f) = 3
               /\ \E id \in parse_positive_int(f[1]), status \in str_to(f[2], OrderStatus), items \in decode_items(f[3]) :
                     r = [id |-> id, status |-> status, items |-> items]
<1>1. PICK f : f = split(s, ",")
  OBVIOUS
<1>2. r \in decode_order_fields(f)
  BY <1>1 DEF decode_order
<1>3. /\ Len(f) = 3
      /\ \E id \in parse_positive_int(f[1]), status \in str_to(f[2], OrderStatus), items \in decode_items(f[3]) :
            r = [id |-> id, status |-> status, items |-> items]
  BY <1>2 DEF decode_order_fields
<1> QED
  BY <1>1, <1>3, Zenon

\* There are more items than there were.
More(r, items) ==
    LET more == Len(r) - Len(items) IN more > 0 /\ 5 * more <= Total(Descs(items), One(Separators))

\* The items of an order are read as they were, or there are more of them.
LEMMA ItemsNeverMisread ==
    ASSUME NEW items \in Seq(OrderItem), items # <<>>, NEW r \in decode_items(encode_items(items))
    PROVE  r = items \/ More(r, items)
<1> DEFINE c == split(encode_items(items), ";")
<1>1. /\ r \in [DOMAIN c -> UNION {decode_item(c[k]) : k \in DOMAIN c}]
      /\ \A k \in DOMAIN c : r[k] \in decode_item(c[k])
  BY DEF decode_items
<1> HIDE DEF c
<1>2. \A k \in DOMAIN c : Len(split(c[k], ":")) = 5
  BY <1>1 DEF decode_item
<1>3. /\ Len(c) \in Nat /\ DOMAIN c = 1 .. Len(c) /\ Len(items) \in Nat
      /\ c = texts(items)
         \/ (Len(c) > Len(items) /\ 5 * (Len(c) - Len(items)) <= Total(Descs(items), One(Separators)))
  BY <1>2, ItemsSeparate DEF c
<1>4. CASE c = texts(items)
  <2>1. DOMAIN c = DOMAIN items /\ \A k \in DOMAIN c : c[k] = encode_item(items[k]) /\ items[k] \in OrderItem
    BY <1>4 DEF texts
  <2>2. \A k \in DOMAIN items : r[k] = items[k]
    BY <1>1, <2>1, ItemNeverMisread
  <2>3. DOMAIN r = DOMAIN items
    BY <1>1, <2>1
  <2>4. r = [k \in DOMAIN items |-> r[k]] /\ items = [k \in DOMAIN items |-> items[k]]
    BY <1>1, <2>3
  <2> QED
    BY <2>2, <2>4
<1>5. CASE c # texts(items)
  <2>1. Len(r) = Len(c)
    <3>1. PICK R : r \in [1 .. Len(c) -> R]
      BY <1>1, <1>3
    <3> QED
      BY <1>3, <3>1, FunctionSeq
  <2> QED
    BY <1>3, <1>5, <2>1 DEF More
<1> QED
  BY <1>4, <1>5

\* decode_order reads the order that encode_order has written, or one with more items, or
\* nothing.
LEMMA OrderNeverMisread ==
    ASSUME NEW o \in FullOrder, NEW s \in encode_order(o), NEW r \in decode_order(s)
    PROVE  r = o \/ (r.id = o.id /\ r.status = o.status /\ More(r.items, o.items))
<1>1. o.items \in Seq(OrderItem) /\ o.items # <<>> /\ o.id \in Number /\ o.status \in OrderStatus
  BY DEF FullOrder, encode_order
<1> DEFINE a == to_string[o.id]
           b == to_str[o.status]
           e == encode_items(o.items)
<1>2. s = Join(<<a, b, e>>, <<",">>)
  BY DEF encode_order
<1>3. a \in String /\ b \in String /\ e \in String
  BY <1>1, ToString_, ToStr, Enums, WordType, EncodeItemsType
<1>4. parse_positive_int(a) = {o.id} /\ str_to(b, OrderStatus) = {o.status}
  BY <1>1, ParseWritten, StrToWritten, Enums
<1> HIDE DEF a, b, e
<1> DEFINE f == split(s, ",")
<1>6. /\ Len(f) = 3
      /\ \E id \in parse_positive_int(f[1]), status \in str_to(f[2], OrderStatus), items \in decode_items(f[3]) :
            r = [id |-> id, status |-> status, items |-> items]
  BY DecodeOrder, ZenonT(60)
<1>7. f = <<a, b, e>>
  BY <1>2, <1>3, <1>6, SplitThree
<1> HIDE DEF f
<1>8. f[1] = a /\ f[2] = b /\ f[3] = e
  BY <1>7
<1>9. PICK items \in decode_items(e) : r = [id |-> o.id, status |-> o.status, items |-> items]
  BY <1>4, <1>6, <1>8
<1>10. items = o.items \/ More(items, o.items)
  BY <1>1, ItemsNeverMisread DEF e
<1>11. r.id = o.id /\ r.status = o.status /\ r.items = items
  BY <1>9
<1> QED
  BY <1>9, <1>10, <1>11 DEF FullOrder

\* Orders as the server accepts them: with items, and without separators in descriptions.
PlainOrder == [id : Number, status : OrderStatus, items : Seq(PlainItem) \ {<<>>}]

\* The items of such an order are read as they were.
LEMMA PlainItemsArrive ==
    ASSUME NEW items \in Seq(PlainItem), items # <<>>
    PROVE  /\ items \in Seq(OrderItem) /\ encode_items(items) \in Seq(Tokens \ {"|", ","})
           /\ decode_items(encode_items(items)) = {items}
<1>1. \A item \in PlainItem : /\ item \in OrderItem /\ encode_item(item) \in Seq(Tokens \ {"|", ",", ";"})
                              /\ decode_item(encode_item(item)) = {item}
  BY PlainItemArrives
<1>2. items \in Seq(OrderItem)
  <2>1. PlainItem \subseteq OrderItem
    BY <1>1
  <2> QED
    BY <2>1, SeqSubset
<1> DEFINE T == Tokens \ {"|", ","}
           U == Tokens \ {"|", ",", ";"}
<1>3. ";" \in T /\ T \ {";"} = U
  BY WordType DEF Separators
<1>4. texts(items) \in Seq(Seq(U)) /\ texts(items) # <<>>
  <2>1. texts(items) \in Seq(String) /\ Len(texts(items)) = Len(items) /\ texts(items) # <<>>
    BY <1>2, ItemsType
  <2>2. \A k \in 1 .. Len(items) : texts(items)[k] = encode_item(items[k]) /\ items[k] \in PlainItem
    BY <1>2, ItemsType
  <2>3. \A k \in 1 .. Len(items) : texts(items)[k] \in Seq(U)
    BY <1>1, <2>2
  <2> HIDE DEF U
  <2> QED
    BY <2>1, <2>3
<1> HIDE DEF T, U
<1>5. PICK t \in Seq(Seq(T \ {";"})) : t = texts(items) /\ t # <<>>
  BY <1>3, <1>4
<1>6. split(Join(t, <<";">>), ";") = t
  BY <1>3, <1>5, SplitJoinPlain
<1>7. Join(t, <<";">>) \in Seq(T)
  <2>1. PICK glue \in Seq(T) : glue = <<";">>
    BY <1>3, Singleton
  <2>2. Seq(Seq(T \ {";"})) \subseteq Seq(Seq(T))
    BY SeqMore
  <2>3. t \in Seq(Seq(T))
    BY <2>2
  <2>4. Join(t, glue) \in Seq(T)
    BY <2>3, JoinType
  <2> QED
    BY <2>1, <2>4
<1>8. encode_items(items) = Join(t, <<";">>)
  BY <1>5 DEF encode_items, texts
<1> DEFINE s == encode_items(items)
<1>9. s \in Seq(T) /\ split(s, ";") = texts(items)
  BY <1>5, <1>6, <1>7, <1>8
<1>10. /\ DOMAIN texts(items) = DOMAIN items
       /\ \A k \in DOMAIN items : items[k] \in PlainItem /\ texts(items)[k] = encode_item(items[k])
  BY SeqFunction DEF texts
<1>11. \A k \in DOMAIN items : decode_item(texts(items)[k]) = {items[k]}
  BY <1>1, <1>10
<1> HIDE DEF s
<1> DEFINE c == texts(items)
           R == UNION {decode_item(c[k]) : k \in DOMAIN c}
<1>12. decode_items(s) = {r \in [DOMAIN c -> R] : \A k \in DOMAIN c : r[k] \in decode_item(c[k])}
  BY <1>9, Zenon DEF decode_items
<1>13. DOMAIN c = DOMAIN items /\ \A k \in DOMAIN items : items[k] \in R
  BY <1>10, <1>11
<1>14. items = [k \in DOMAIN items |-> items[k]]
  BY SeqFunction
<1> HIDE DEF R, c
<1>15. items \in [DOMAIN c -> R]
  BY <1>13, <1>14
<1>16. items \in decode_items(s)
  BY <1>11, <1>12, <1>13, <1>15 DEF c
<1>17. ASSUME NEW r \in decode_items(s) PROVE r = items
  <2>1. r \in [DOMAIN c -> R] /\ \A k \in DOMAIN c : r[k] \in decode_item(c[k])
    BY <1>12
  <2>2. r \in [DOMAIN items -> R] /\ \A k \in DOMAIN items : r[k] = items[k]
    BY <1>11, <1>13, <2>1 DEF c
  <2> QED
    BY <1>14, <2>2
<1>18. decode_items(s) = {items}
  BY <1>16, <1>17
<1> QED
  BY <1>2, <1>9, <1>18 DEF s, T

\* decode_order accepts the three fields that encode_order writes.
LEMMA OrderFields ==
    ASSUME NEW o \in PlainOrder, NEW f, Len(f) = 3, f[1] = to_string[o.id], f[2] = to_str[o.status],
           decode_items(f[3]) = {o.items}
    PROVE  decode_order_fields(f) = {o}
<1>1. parse_positive_int(f[1]) = {o.id} /\ str_to(f[2], OrderStatus) = {o.status}
  BY ParseWritten, StrToWritten, Enums, ZenonT(60) DEF PlainOrder
<1>2. o = [id |-> o.id, status |-> o.status, items |-> o.items]
  BY DEF PlainOrder
<1>3. PICK i, st, q : i = o.id /\ st = o.status /\ q = o.items
  OBVIOUS
<1>4. decode_order_fields(f) = {[id |-> i, status |-> st, items |-> q]}
  BY <1>1, <1>3 DEF decode_order_fields
<1> QED
  BY <1>2, <1>3, <1>4

\* Such an order can be written, without a bar, and is read as it was.
LEMMA PlainOrderArrives ==
    ASSUME NEW o \in PlainOrder
    PROVE  /\ o \in FullOrder /\ encode_order(o) # {}
           /\ \A s \in encode_order(o) : s \in Seq(Tokens \ {"|"}) /\ decode_order(s) = {o}
<1>1. o.items \in Seq(PlainItem) /\ o.items # <<>> /\ o.id \in Number /\ o.status \in OrderStatus
  BY DEF PlainOrder
<1>2. PICK a, b, e : a = to_string[o.id] /\ b = to_str[o.status] /\ e = encode_items(o.items)
  OBVIOUS
<1>3. encode_order(o) = {Join(<<a, b, e>>, <<",">>)}
  BY <1>1, <1>2 DEF encode_order
<1> DEFINE T == Tokens \ {"|"}
<1>4. "," \in T /\ T \ {","} = Tokens \ {"|", ","} /\ Word \subseteq Seq(T \ {","})
  <2>1. "," \in T /\ T \ {","} = Tokens \ {"|", ","} /\ Tokens \ Separators \subseteq T \ {","}
    BY WordType DEF Separators
  <2> HIDE DEF T
  <2> QED
    BY <2>1, SeqSubset DEF Word
<1>5. e \in Seq(T \ {","}) /\ decode_items(e) = {o.items} /\ o.items \in Seq(OrderItem)
  BY <1>1, <1>2, <1>4, PlainItemsArrive
<1>6. a \in Seq(T \ {","}) /\ b \in Seq(T \ {","})
  BY <1>1, <1>2, <1>4, ToString_, ToStr, Enums
<1>7. parse_positive_int(a) = {o.id} /\ str_to(b, OrderStatus) = {o.status}
  BY <1>1, <1>2, ParseWritten, StrToWritten, Enums
<1> HIDE DEF T
<1>8. PICK p \in Seq(Seq(T \ {","})) : p = <<a, b, e>> /\ Len(p) = 3
  BY <1>5, <1>6, Triple
<1>9. p # <<>>
  BY <1>8, EmptySeq
<1>10. split(Join(p, <<",">>), ",") = p
  BY <1>4, <1>9, SplitJoinPlain
<1>11. Join(p, <<",">>) \in Seq(T)
  <2>1. PICK glue \in Seq(T) : glue = <<",">>
    BY <1>4, Singleton
  <2>2. p \in Seq(Seq(T))
    BY SeqMore
  <2>3. Join(p, glue) \in Seq(T)
    BY <2>2, JoinType
  <2> QED
    BY <2>1, <2>3
<1>12. decode_order_fields(p) = {o}
  <2>1. p[1] = a /\ p[2] = b /\ p[3] = e
    BY <1>8
  <2>2. Len(p) = 3 /\ p[1] = to_string[o.id] /\ p[2] = to_str[o.status] /\ decode_items(p[3]) = {o.items}
    BY <1>2, <1>5, <1>8, <2>1, Zenon
  <2> QED
    BY <2>2, OrderFields, Zenon
<1>13. o \in FullOrder
  BY <1>1, <1>5 DEF FullOrder, PlainOrder
<1>14. decode_order(Join(p, <<",">>)) = {o}
  BY <1>10, <1>12 DEF decode_order
<1> QED
  BY <1>3, <1>8, <1>11, <1>13, <1>14 DEF T

-----------------------------------------------------------------------------
(***************************************************************************)
(* Messages.                                                               *)
(***************************************************************************)
\* decode reads the fields as those of the type that the first one names, if they are as
\* many as that type has.
LEMMA DecodeFields ==
    ASSUME NEW type \in MessageType, NEW f, f[1] = to_str[type]
    PROVE  decode_fields(f) = IF Len(f) = FieldCount(type) THEN decode_as(type, f) ELSE {}
<1>1. str_to(f[1], MessageType) = {type}
  BY StrToWritten, Enums
<1>2. PICK S : S = {t \in str_to(f[1], MessageType) : Len(f) = FieldCount(t)}
  OBVIOUS
<1>3. S = IF Len(f) = FieldCount(type) THEN {type} ELSE {}
  BY <1>1, <1>2
<1>4. decode_fields(f) = UNION {decode_as(t, f) : t \in S}
  BY <1>2 DEF decode_fields
<1> QED
  BY <1>3, <1>4

\* What decode returns is of one of the types, with its number of fields.
LEMMA DecodeRead ==
    ASSUME NEW f, NEW m \in decode_fields(f)
    PROVE  \E type \in MessageType : Len(f) = FieldCount(type) /\ m \in decode_as(type, f)
BY DEF decode_fields, str_to

\* What decode_as makes of the fields, by type.
LEMMA ReadLogin ==
    ASSUME NEW p
    PROVE  decode_as("LOGIN", p) =
             {[type |-> "LOGIN", client_mode |-> mode, str |-> p[3]] : mode \in str_to(p[2], ClientMode)}
BY DEF decode_as

\* QUIT, OK and ERROR carry any string.
LEMMA ReadStr ==
    ASSUME NEW type \in {"QUIT", "OK", "ERROR"}, NEW p
    PROVE  decode_as(type, p) = {[type |-> type, str |-> p[2]]}
BY DEF decode_as

\* ORDER_NEW and DISP_ORDER carry what decode_order accepts.
LEMMA ReadOrder ==
    ASSUME NEW type \in {"ORDER_NEW", "DISP_ORDER"}, NEW p
    PROVE  decode_as(type, p) = {[type |-> type, order |-> o] : o \in decode_order(p[2])}
BY DEF decode_as

\* The updates of an item carry two ids and a status.
LEMMA ReadItemUpdate ==
    ASSUME NEW type \in {"ITEM_UPDATE", "DISP_ITEM_UPDATE"}, NEW p
    PROVE  decode_as(type, p) =
             {[type |-> type, order_id |-> order_id, item_id |-> item_id, item_status |-> item_status] :
                order_id \in parse_positive_int(p[2]), item_id \in parse_positive_int(p[3]),
                item_status \in str_to(p[4], ItemStatus)}
BY DEF decode_as

\* The updates of an order carry an id and a status.
LEMMA ReadOrderUpdate ==
    ASSUME NEW type \in {"ORDER_UPDATE", "DISP_ORDER_UPDATE"}, NEW p
    PROVE  decode_as(type, p) =
             {[type |-> type, order_id |-> order_id, order_status |-> order_status] :
                order_id \in parse_positive_int(p[2]), order_status \in str_to(p[3], OrderStatus)}
BY DEF decode_as

\* A heartbeat carries nothing.
LEMMA ReadHeartbeat == ASSUME NEW p PROVE decode_as("DISP_HEARTBEAT", p) = {[type |-> "DISP_HEARTBEAT"]}
BY DEF decode_as

\* The kinds of messages, with their fields.
WrittenLogin(m, f) ==
    /\ m \in [type : {"LOGIN"}, client_mode : ClientMode, str : String]
    /\ m.str # <<>> /\ f = <<to_str[m.client_mode], m.str>>

WrittenStr(m, f) ==
    m \in [type : {"QUIT", "OK", "ERROR"}, str : String] /\ m.str # <<>> /\ f = <<m.str>>

WrittenOrder(m, f) ==
    /\ m \in [type : {"ORDER_NEW", "DISP_ORDER"}, order : FullOrder]
    /\ \E s \in encode_order(m.order) : f = <<s>>

WrittenItemUpdate(m, f) ==
    /\ m \in [type : {"ITEM_UPDATE", "DISP_ITEM_UPDATE"}, order_id : Number, item_id : Number, item_status : ItemStatus]
    /\ f = <<to_string[m.order_id], to_string[m.item_id], to_str[m.item_status]>>

WrittenOrderUpdate(m, f) ==
    /\ m \in [type : {"ORDER_UPDATE", "DISP_ORDER_UPDATE"}, order_id : Number, order_status : OrderStatus]
    /\ f = <<to_string[m.order_id], to_str[m.order_status]>>

WrittenHeartbeat(m, f) == m \in [type : {"DISP_HEARTBEAT"}] /\ f = <<>>

\* What encode writes is of one of these kinds.
LEMMA Written ==
    ASSUME NEW m \in Message, NEW f \in encode_fields(m)
    PROVE  \/ WrittenLogin(m, f) \/ WrittenStr(m, f) \/ WrittenOrder(m, f)
           \/ WrittenItemUpdate(m, f) \/ WrittenOrderUpdate(m, f) \/ WrittenHeartbeat(m, f)
<1>1. CASE m \in [type : {"LOGIN"}, client_mode : ClientMode, str : String]
  BY <1>1 DEF encode_fields, WrittenLogin
<1>2. CASE m \in [type : {"QUIT", "OK", "ERROR"}, str : String]
  BY <1>2 DEF encode_fields, WrittenStr
<1>3. CASE m \in [type : {"ORDER_NEW", "DISP_ORDER"}, order : FullOrder]
  BY <1>3 DEF encode_fields, WrittenOrder
<1>4. CASE m \in [type : {"ITEM_UPDATE", "DISP_ITEM_UPDATE"}, order_id : Number, item_id : Number, item_status : ItemStatus]
  BY <1>4 DEF encode_fields, WrittenItemUpdate
<1>5. CASE m \in [type : {"ORDER_UPDATE", "DISP_ORDER_UPDATE"}, order_id : Number, order_status : OrderStatus]
  BY <1>5 DEF encode_fields, WrittenOrderUpdate
<1>6. CASE m \in [type : {"DISP_HEARTBEAT"}]
  BY <1>6 DEF encode_fields, WrittenHeartbeat
<1> QED
  BY <1>1, <1>2, <1>3, <1>4, <1>5, <1>6 DEF Message

\* The text of an order is a string.
LEMMA EncodeOrderType == ASSUME NEW o \in FullOrder, NEW s \in encode_order(o) PROVE s \in String
<1>1. PICK a, b, e : a = to_string[o.id] /\ b = to_str[o.status] /\ e = encode_items(o.items)
  OBVIOUS
<1>2. s = Join(<<a, b, e>>, <<",">>)
  BY <1>1 DEF encode_order
<1>3. a \in String /\ b \in String /\ e \in String
  BY <1>1, ToString_, ToStr, Enums, WordType, EncodeItemsType DEF FullOrder
<1>4. "," \in Tokens
  BY WordType DEF Separators
<1>5. PICK glue \in Seq(Tokens) : glue = <<",">>
  BY <1>4, Singleton
<1>6. PICK p \in Seq(Seq(Tokens)) : p = <<a, b, e>>
  BY <1>3, Triple DEF String
<1>7. Join(p, glue) \in Seq(Tokens)
  BY JoinType
<1> QED
  BY <1>2, <1>5, <1>6, <1>7 DEF String

\* Every message has as many fields as decode wants.
LEMMA WrittenType ==
    ASSUME NEW m \in Message, NEW f \in encode_fields(m)
    PROVE  m.type \in MessageType /\ f \in Seq(String) /\ Len(f) + 1 = FieldCount(m.type)
<1>0. /\ \A n \in Number : to_string[n] \in String
      /\ \A e \in ClientMode \cup ItemStatus \cup OrderStatus : to_str[e] \in String
  BY ToString_, ToStr, Enums, WordType
<1>1. CASE WrittenLogin(m, f)
  <2>1. m.type = "LOGIN" /\ f = <<to_str[m.client_mode], m.str>> /\ m.client_mode \in ClientMode /\ m.str \in String
    BY <1>1 DEF WrittenLogin
  <2>2. to_str[m.client_mode] \in String
    BY <1>0, <2>1
  <2>3. f \in Seq(String) /\ Len(f) = 2
    BY <2>1, <2>2, Pair
  <2> QED
    BY <2>1, <2>3 DEF MessageType, FieldCount
<1>2. CASE WrittenStr(m, f)
  <2>1. m.type \in {"QUIT", "OK", "ERROR"} /\ f = <<m.str>> /\ m.str \in String
    BY <1>2 DEF WrittenStr
  <2>2. f \in Seq(String) /\ Len(f) = 1
    BY <2>1, Singleton
  <2> QED
    BY <2>1, <2>2 DEF MessageType, FieldCount
<1>3. CASE WrittenOrder(m, f)
  <2>1. PICK s \in encode_order(m.order) : f = <<s>>
    BY <1>3 DEF WrittenOrder
  <2>2. m.type \in {"ORDER_NEW", "DISP_ORDER"} /\ m.order \in FullOrder
    BY <1>3 DEF WrittenOrder
  <2>3. s \in String
    BY <2>2, EncodeOrderType
  <2>4. f \in Seq(String) /\ Len(f) = 1
    BY <2>1, <2>3, Singleton
  <2> QED
    BY <2>2, <2>4 DEF MessageType, FieldCount
<1>4. CASE WrittenItemUpdate(m, f)
  <2>1. /\ m.type \in {"ITEM_UPDATE", "DISP_ITEM_UPDATE"}
        /\ f = <<to_string[m.order_id], to_string[m.item_id], to_str[m.item_status]>>
        /\ m.order_id \in Number /\ m.item_id \in Number /\ m.item_status \in ItemStatus
    BY <1>4 DEF WrittenItemUpdate
  <2>2. to_string[m.order_id] \in String /\ to_string[m.item_id] \in String /\ to_str[m.item_status] \in String
    BY <1>0, <2>1
  <2>3. f \in Seq(String) /\ Len(f) = 3
    BY <2>1, <2>2, Triple
  <2> QED
    BY <2>1, <2>3 DEF MessageType, FieldCount
<1>5. CASE WrittenOrderUpdate(m, f)
  <2>1. /\ m.type \in {"ORDER_UPDATE", "DISP_ORDER_UPDATE"} /\ f = <<to_string[m.order_id], to_str[m.order_status]>>
        /\ m.order_id \in Number /\ m.order_status \in OrderStatus
    BY <1>5 DEF WrittenOrderUpdate
  <2>2. to_string[m.order_id] \in String /\ to_str[m.order_status] \in String
    BY <1>0, <2>1
  <2>3. f \in Seq(String) /\ Len(f) = 2
    BY <2>1, <2>2, Pair
  <2> QED
    BY <2>1, <2>3 DEF MessageType, FieldCount
<1>6. CASE WrittenHeartbeat(m, f)
  <2>1. m.type = "DISP_HEARTBEAT" /\ f = <<>>
    BY <1>6 DEF WrittenHeartbeat
  <2>2. f \in Seq(String) /\ Len(f) = 0
    BY <2>1, EmptySeq
  <2> QED
    BY <2>1, <2>2 DEF MessageType, FieldCount
<1> QED
  BY <1>1, <1>2, <1>3, <1>4, <1>5, <1>6, Written

\* The update of an item is read from the fields it was written in.
LEMMA ItemUpdateFields ==
    ASSUME NEW m \in [type : {"ITEM_UPDATE", "DISP_ITEM_UPDATE"}, order_id : Number, item_id : Number,
                      item_status : ItemStatus],
           NEW p, p[2] = to_string[m.order_id], p[3] = to_string[m.item_id], p[4] = to_str[m.item_status]
    PROVE  decode_as(m.type, p) = {m}
<1>1. PICK type \in {"ITEM_UPDATE", "DISP_ITEM_UPDATE"}, a \in Number, b \in Number, c \in ItemStatus :
        /\ type = m.type /\ a = m.order_id /\ b = m.item_id /\ c = m.item_status
        /\ m = [type |-> type, order_id |-> a, item_id |-> b, item_status |-> c]
  OBVIOUS
<1>2. parse_positive_int(p[2]) = {a} /\ parse_positive_int(p[3]) = {b} /\ str_to(p[4], ItemStatus) = {c}
  BY <1>1, ParseWritten, StrToWritten, Enums, ZenonT(60)
<1>3. decode_as(type, p) = {[type |-> type, order_id |-> a, item_id |-> b, item_status |-> c]}
  BY <1>2, ReadItemUpdate
<1> QED
  BY <1>1, <1>3

\* And so is the update of an order.
LEMMA OrderUpdateFields ==
    ASSUME NEW m \in [type : {"ORDER_UPDATE", "DISP_ORDER_UPDATE"}, order_id : Number, order_status : OrderStatus],
           NEW p, p[2] = to_string[m.order_id], p[3] = to_str[m.order_status]
    PROVE  decode_as(m.type, p) = {m}
<1>1. PICK type \in {"ORDER_UPDATE", "DISP_ORDER_UPDATE"}, a \in Number, c \in OrderStatus :
        /\ type = m.type /\ a = m.order_id /\ c = m.order_status
        /\ m = [type |-> type, order_id |-> a, order_status |-> c]
  OBVIOUS
<1>2. parse_positive_int(p[2]) = {a} /\ str_to(p[3], OrderStatus) = {c}
  BY <1>1, ParseWritten, StrToWritten, Enums
<1>3. decode_as(type, p) = {[type |-> type, order_id |-> a, order_status |-> c]}
  BY <1>2, ReadOrderUpdate
<1> QED
  BY <1>1, <1>3

\* Without separators in the descriptions an order is read as it was.
LEMMA FewSeparators ==
    ASSUME NEW o \in FullOrder, Total(Descs(o.items), One(Separators)) = 0, NEW s \in encode_order(o)
    PROVE  o \in PlainOrder /\ s \in Seq(Tokens \ {"|"}) /\ decode_order(s) = {o}
<1>1. o.items \in Seq(OrderItem) /\ o.items # <<>>
  BY DEF FullOrder, encode_order
<1>2. o.items \in Seq(PlainItem)
  BY <1>1, DescsPlain
<1>3. o \in PlainOrder
  BY <1>1, <1>2 DEF FullOrder, PlainOrder
<1> QED
  BY <1>3, PlainOrderArrives

\* Read in the fields it was written with, a message is itself; an order may have more
\* items or be refused.
LEMMA WrittenRead ==
    ASSUME NEW m \in Message, NEW f \in encode_fields(m), NEW p, p = <<to_str[m.type]>> \o f
    PROVE  /\ \A got \in decode_as(m.type, p) : got = m \/ TakenApart(got, m)
           /\ SeparatorCount(m) = 0 => decode_as(m.type, p) = {m}
<1>1. m.type \in MessageType /\ f \in Seq(String)
  BY WrittenType
<1>2. to_str[m.type] \in String
  BY <1>1, ToStr, Enums, WordType
<1>3. /\ Len(f) >= 1 => p[2] = f[1]
      /\ Len(f) >= 2 => p[3] = f[2]
      /\ Len(f) >= 3 => p[4] = f[3]
  BY <1>1, <1>2, Prefixed
<1>4. CASE WrittenLogin(m, f)
  <2>1. /\ m.type = "LOGIN" /\ f = <<to_str[m.client_mode], m.str>> /\ m.client_mode \in ClientMode
        /\ m = [type |-> m.type, client_mode |-> m.client_mode, str |-> m.str]
    BY <1>4 DEF WrittenLogin
  <2>2. p[2] = to_str[m.client_mode] /\ p[3] = m.str
    BY <1>3, <2>1
  <2>3. str_to(p[2], ClientMode) = {m.client_mode}
    BY <2>1, <2>2, StrToWritten, Enums
  <2>4. decode_as("LOGIN", p) =
             {[type |-> "LOGIN", client_mode |-> mode, str |-> m.str] : mode \in {m.client_mode}}
    BY <2>2, <2>3, ReadLogin, ZenonT(60)
  <2> QED
    BY <2>1, <2>4
<1>5. CASE WrittenStr(m, f)
  <2>1. m.type \in {"QUIT", "OK", "ERROR"} /\ f = <<m.str>> /\ m = [type |-> m.type, str |-> m.str]
    BY <1>5 DEF WrittenStr
  <2>2. p[2] = m.str
    BY <1>3, <2>1
  <2>3. decode_as(m.type, p) = {[type |-> m.type, str |-> m.str]}
    BY <2>1, <2>2, ReadStr, ZenonT(60)
  <2> QED
    BY <2>1, <2>3
<1>6. CASE WrittenOrder(m, f)
  <2>1. PICK s \in encode_order(m.order) : f = <<s>>
    BY <1>6 DEF WrittenOrder
  <2>2. /\ m.type \in {"ORDER_NEW", "DISP_ORDER"} /\ m.order \in FullOrder
        /\ m = [type |-> m.type, order |-> m.order]
    BY <1>6 DEF WrittenOrder
  <2>3. p[2] = s
    BY <1>3, <2>1
  <2>4. decode_as(m.type, p) = {[type |-> m.type, order |-> o] : o \in decode_order(s)}
    BY <2>2, <2>3, ReadOrder
  <2>5. SeparatorCount(m) = Total(Descs(m.order.items), One(Separators))
    BY <2>2 DEF SeparatorCount, FreeText, Descs, descs
  <2>6. ASSUME NEW got \in decode_as(m.type, p) PROVE got = m \/ TakenApart(got, m)
    <3>1. PICK o \in decode_order(s) : got = [type |-> m.type, order |-> o]
      BY <2>4
    <3>2. o = m.order \/ (o.id = m.order.id /\ o.status = m.order.status /\ More(o.items, m.order.items))
      BY <2>2, OrderNeverMisread
    <3>3. got.type = m.type /\ got.order = o
      BY <3>1
    <3>4. CASE o = m.order
      BY <2>2, <3>1, <3>4
    <3>5. CASE o # m.order
      BY <2>2, <2>5, <3>2, <3>3, <3>5 DEF TakenApart, More
    <3> QED
      BY <3>4, <3>5
  <2>7. SeparatorCount(m) = 0 => decode_order(s) = {m.order}
    BY <2>2, <2>5, FewSeparators
  <2> QED
    BY <2>2, <2>4, <2>6, <2>7
<1>7. CASE WrittenItemUpdate(m, f)
  <2>1. f = <<to_string[m.order_id], to_string[m.item_id], to_str[m.item_status]>>
    BY <1>7 DEF WrittenItemUpdate
  <2>2. p[2] = to_string[m.order_id] /\ p[3] = to_string[m.item_id] /\ p[4] = to_str[m.item_status]
    BY <1>3, <2>1
  <2>3. decode_as(m.type, p) = {m}
    BY <1>7, <2>2, ItemUpdateFields, Zenon DEF WrittenItemUpdate
  <2> QED
    BY <2>3
<1>8. CASE WrittenOrderUpdate(m, f)
  <2>1. f = <<to_string[m.order_id], to_str[m.order_status]>>
    BY <1>8 DEF WrittenOrderUpdate
  <2>2. p[2] = to_string[m.order_id] /\ p[3] = to_str[m.order_status]
    BY <1>3, <2>1
  <2>3. decode_as(m.type, p) = {m}
    BY <1>8, <2>2, OrderUpdateFields, Zenon DEF WrittenOrderUpdate
  <2> QED
    BY <2>3
<1>9. CASE WrittenHeartbeat(m, f)
  <2>1. m.type = "DISP_HEARTBEAT" /\ m = [type |-> m.type]
    BY <1>9 DEF WrittenHeartbeat
  <2> QED
    BY <2>1, ReadHeartbeat
<1> QED
  BY <1>4, <1>5, <1>6, <1>7, <1>8, <1>9, Written

\* Without separators in the free text no field has a bar in it.
LEMMA WrittenPlain ==
    ASSUME NEW m \in Message, NEW f \in encode_fields(m), SeparatorCount(m) = 0
    PROVE  f \in Seq(Seq(Tokens \ {"|"}))
<1> DEFINE T == Seq(Tokens \ {"|"})
<1>0. /\ Word \subseteq T
      /\ \A n \in Number : to_string[n] \in Word
      /\ \A e \in ClientMode \cup ItemStatus \cup OrderStatus : to_str[e] \in Word
  BY ToString_, ToStr, Enums, WordType DEF Separators
<1>1. ASSUME NEW str \in String, Total(str, One(Separators)) = 0 PROVE str \in Word
  BY <1>1, NoneOf DEF Word
<1>2. SUFFICES f \in Seq(T)
  OBVIOUS
<1>a. ASSUME NEW s \in Seq(Tokens \ {"|"}) PROVE s \in T
  OBVIOUS
<1> HIDE DEF T
<1>3. CASE WrittenLogin(m, f)
  <2>1. m.type = "LOGIN" /\ f = <<to_str[m.client_mode], m.str>> /\ m.client_mode \in ClientMode /\ m.str \in String
    BY <1>3 DEF WrittenLogin
  <2>2. m.str \in Word
    BY <1>1, <2>1 DEF SeparatorCount, FreeText
  <2>3. m.str \in T /\ to_str[m.client_mode] \in T
    BY <1>0, <2>1, <2>2
  <2> QED
    BY <2>1, <2>3, Pair
<1>4. CASE WrittenStr(m, f)
  <2>1. m.type \in {"QUIT", "OK", "ERROR"} /\ f = <<m.str>> /\ m.str \in String
    BY <1>4 DEF WrittenStr
  <2>2. m.str \in Word
    BY <1>1, <2>1 DEF SeparatorCount, FreeText
  <2>3. m.str \in T
    BY <1>0, <2>2
  <2> QED
    BY <2>1, <2>3, Singleton
<1>5. CASE WrittenOrder(m, f)
  <2>1. PICK s \in encode_order(m.order) : f = <<s>>
    BY <1>5 DEF WrittenOrder
  <2>2. m.type \in {"ORDER_NEW", "DISP_ORDER"} /\ m.order \in FullOrder
    BY <1>5 DEF WrittenOrder
  <2>3. Total(Descs(m.order.items), One(Separators)) = 0
    BY <2>2 DEF SeparatorCount, FreeText, Descs, descs
  <2>4. s \in Seq(Tokens \ {"|"})
    BY <2>2, <2>3, FewSeparators
  <2>5. s \in T
    BY <1>a, <2>4
  <2> QED
    BY <2>1, <2>5, Singleton
<1>6. CASE WrittenItemUpdate(m, f)
  <2>1. /\ f = <<to_string[m.order_id], to_string[m.item_id], to_str[m.item_status]>>
        /\ m.order_id \in Number /\ m.item_id \in Number /\ m.item_status \in ItemStatus
    BY <1>6 DEF WrittenItemUpdate
  <2>2. to_string[m.order_id] \in T /\ to_string[m.item_id] \in T /\ to_str[m.item_status] \in T
    BY <1>0, <2>1
  <2> QED
    BY <2>1, <2>2, Triple
<1>7. CASE WrittenOrderUpdate(m, f)
  <2>1. /\ f = <<to_string[m.order_id], to_str[m.order_status]>>
        /\ m.order_id \in Number /\ m.order_status \in OrderStatus
    BY <1>7 DEF WrittenOrderUpdate
  <2>2. to_string[m.order_id] \in T /\ to_str[m.order_status] \in T
    BY <1>0, <2>1
  <2> QED
    BY <2>1, <2>2, Pair
<1>8. CASE WrittenHeartbeat(m, f)
  <2>1. f = <<>>
    BY <1>8 DEF WrittenHeartbeat
  <2> QED
    BY <2>1, EmptySeq
<1> QED
  BY <1>3, <1>4, <1>5, <1>6, <1>7, <1>8, Written

\* The text of a message is read as that message or as one with more items, or refused;
\* without separators in its free text, it is read.
LEMMA RoundTrip ==
    ASSUME NEW m \in Message, NEW s \in encode(m)
    PROVE  /\ s \in String
           /\ \A got \in decode(s) : got = m \/ TakenApart(got, m)
           /\ SeparatorCount(m) = 0 => decode(s) = {m}
<1>1. PICK f \in encode_fields(m) : s = Join(<<to_str[m.type]>> \o f, <<"|">>)
  BY DEF encode
<1>2. m.type \in MessageType /\ f \in Seq(String) /\ Len(f) + 1 = FieldCount(m.type)
  BY WrittenType
<1>3. PICK w \in Word : w = to_str[m.type]
  BY <1>2, ToStr, Enums
<1>4. w \in String /\ "|" \in Tokens /\ w \in Seq(Tokens \ {"|"})
  BY WordType DEF Separators
<1>5. PICK p \in Seq(String) : p = <<w>> \o f /\ Len(p) = Len(f) + 1 /\ p # <<>>
  BY <1>2, <1>4, Prefixed
<1>6. p \in Seq(Seq(Tokens)) /\ s = Join(p, <<"|">>)
  BY <1>1, <1>3, <1>5 DEF String
<1>7. PICK glue \in Seq(Tokens) : glue = <<"|">>
  BY <1>4, Singleton
<1>8. s \in String
  BY <1>6, <1>7, JoinType DEF String
<1>9. PICK x : x = split(s, "|")
  OBVIOUS
<1>10. x[1] = to_str[m.type]
  <2>1. f \in Seq(Seq(Tokens))
    BY <1>2 DEF String
  <2>2. split(Join(<<w>> \o f, <<"|">>), "|")[1] = w
    BY <1>4, <2>1, SplitFirst
  <2> QED
    BY <1>3, <1>5, <1>6, <1>9, <2>2
<1>11. Len(x) = Len(p) => x = p
  BY <1>4, <1>5, <1>6, <1>9, SplitJoin
<1>12. SeparatorCount(m) = 0 => x = p
  <2>1. HAVE SeparatorCount(m) = 0
  <2>2. f \in Seq(Seq(Tokens \ {"|"}))
    BY <2>1, WrittenPlain
  <2>3. p \in Seq(Seq(Tokens \ {"|"}))
    BY <1>4, <1>5, <2>2, Prefixed
  <2> QED
    BY <1>4, <1>5, <1>6, <1>9, <2>3, SplitJoinPlain
<1>13. Len(p) = FieldCount(m.type)
  BY <1>2, <1>5
<1>14. decode(s) = IF Len(x) = Len(p) THEN decode_as(m.type, x) ELSE {}
  <2>1. decode_fields(x) = IF Len(x) = FieldCount(m.type) THEN decode_as(m.type, x) ELSE {}
    BY <1>2, <1>10, DecodeFields
  <2> QED
    BY <1>9, <1>13, <2>1 DEF decode
<1>15. /\ \A got \in decode_as(m.type, p) : got = m \/ TakenApart(got, m)
       /\ SeparatorCount(m) = 0 => decode_as(m.type, p) = {m}
  BY <1>3, <1>5, WrittenRead
<1>16. \A got \in decode(s) : got = m \/ TakenApart(got, m)
  BY <1>11, <1>14, <1>15
<1>17. SeparatorCount(m) = 0 => decode(s) = {m}
  BY <1>12, <1>14, <1>15
<1> QED
  BY <1>8, <1>16, <1>17

-----------------------------------------------------------------------------
(***************************************************************************)
(* What decode lets through.                                               *)
(***************************************************************************)
Single(S) == \A x, y \in S : x = y

\* Numbers and names are read in at most one way.
LEMMA SingleParts ==
    /\ \A s : Single(parse_positive_int(s))
    /\ \A s : Single(str_to(s, ItemStatus)) /\ Single(str_to(s, OrderStatus))
              /\ Single(str_to(s, ClientMode)) /\ Single(str_to(s, MessageType))
<1>1. ASSUME NEW s PROVE Single(parse_positive_int(s))
  BY DEF Single, parse_positive_int
<1>2. ASSUME NEW enum \in SUBSET Enumerators, NEW s PROVE Single(str_to(s, enum))
  BY NamesAssumption DEF Single, str_to
<1> QED
  BY <1>1, <1>2, Enums

\* An item's fields: five, of which the fourth is the description.
LEMMA ItemParts ==
    ASSUME NEW s, NEW item \in decode_item(s)
    PROVE  LET p == split(s, ":")
           IN  /\ Len(p) = 5
               /\ \E a \in parse_positive_int(p[1]), b \in parse_positive_int(p[2]), c \in str_to(p[3], ItemStatus),
                     e \in parse_positive_int(p[5]) :
                     item = [order_id |-> a, id |-> b, status |-> c, desc |-> p[4], qty |-> e]
BY DEF decode_item

\* So are items,
LEMMA ItemSingle == ASSUME NEW s PROVE Single(decode_item(s))
<1>1. SUFFICES ASSUME NEW x \in decode_item(s), NEW y \in decode_item(s) PROVE x = y
  BY DEF Single
<1>2. PICK p : p = split(s, ":")
  OBVIOUS
<1>3. PICK a \in parse_positive_int(p[1]), b \in parse_positive_int(p[2]), c \in str_to(p[3], ItemStatus),
           e \in parse_positive_int(p[5]) :
        x = [order_id |-> a, id |-> b, status |-> c, desc |-> p[4], qty |-> e]
  BY <1>2, ItemParts
<1>4. PICK f \in parse_positive_int(p[1]), g \in parse_positive_int(p[2]), h \in str_to(p[3], ItemStatus),
           i \in parse_positive_int(p[5]) :
        y = [order_id |-> f, id |-> g, status |-> h, desc |-> p[4], qty |-> i]
  BY <1>2, ItemParts
<1>5. a = f /\ b = g /\ c = h /\ e = i
  BY SingleParts DEF Single
<1> QED
  BY <1>3, <1>4, <1>5

\* Positive numbers, a status, and a description without separators.
LEMMA ItemWords ==
    ASSUME NEW s, NEW item \in decode_item(s), split(s, ":") \in Seq(Word)
    PROVE  item \in PlainItem
<1>1. PICK p \in Seq(Word) : p = split(s, ":")
  OBVIOUS
<1>2. PICK a \in parse_positive_int(p[1]), b \in parse_positive_int(p[2]), c \in str_to(p[3], ItemStatus),
           e \in parse_positive_int(p[5]) :
        item = [order_id |-> a, id |-> b, status |-> c, desc |-> p[4], qty |-> e]
  BY <1>1, ItemParts
<1>3. Len(p) = 5
  BY <1>1, ItemParts
<1>4. a \in Number /\ b \in Number /\ c \in ItemStatus /\ e \in Number
  BY ParseRead, StrToRead, Enums
<1>5. p[4] \in Word
  BY <1>3, Elements
<1> QED
  BY <1>2, <1>4, <1>5 DEF PlainItem

\* An item taken from a part between semicolons has such a description.
LEMMA ItemRead ==
    ASSUME NEW s \in Seq(Tokens \ {"|", ",", ";"}), NEW item \in decode_item(s)
    PROVE  item \in PlainItem
<1> DEFINE T == Tokens \ {"|", ",", ";"}
<1>1. T \ {":"} = Tokens \ Separators
  BY DEF Separators
<1> HIDE DEF T
<1>2. split(s, ":") \in Components(T \ {":"})
  BY SplitComponents DEF T
<1>3. split(s, ":") \in Seq(Word)
  BY <1>1, <1>2 DEF Components, Word
<1> QED
  BY <1>3, ItemWords

\* their lists,
LEMMA ItemsSingle == ASSUME NEW s PROVE Single(decode_items(s))
<1>1. SUFFICES ASSUME NEW x \in decode_items(s), NEW y \in decode_items(s) PROVE x = y
  BY DEF Single
<1>2. PICK c : c = split(s, ";")
  OBVIOUS
<1>3. PICK R : R = UNION {decode_item(c[k]) : k \in DOMAIN c}
  OBVIOUS
<1>4. /\ x \in [DOMAIN c -> R] /\ \A k \in DOMAIN c : x[k] \in decode_item(c[k])
      /\ y \in [DOMAIN c -> R] /\ \A k \in DOMAIN c : y[k] \in decode_item(c[k])
  BY <1>2, <1>3, Zenon DEF decode_items
<1>5. \A k \in DOMAIN c : x[k] = y[k]
  BY <1>4, ItemSingle DEF Single
<1> QED
  BY <1>4, <1>5

\* The list of items is not empty, for split returns at least one component.
LEMMA ItemsRead ==
    ASSUME NEW s \in Seq(Tokens \ {"|", ","}), NEW items \in decode_items(s)
    PROVE  items \in Seq(PlainItem) /\ items # <<>>
<1>1. PICK c : c = split(s, ";")
  OBVIOUS
<1>2. PICK R : R = UNION {decode_item(c[k]) : k \in DOMAIN c}
  OBVIOUS
<1>3. items \in [DOMAIN c -> R] /\ \A k \in DOMAIN c : items[k] \in decode_item(c[k])
  BY <1>1, <1>2, Zenon DEF decode_items
<1> DEFINE T == Tokens \ {"|", ","}
<1>4. T \ {";"} = Tokens \ {"|", ",", ";"}
  OBVIOUS
<1> HIDE DEF T
<1>5. c \in Components(T \ {";"})
  BY <1>1, SplitComponents DEF T
<1>6. c \in Seq(Seq(Tokens \ {"|", ",", ";"})) /\ c # <<>>
  BY <1>4, <1>5 DEF Components
<1>7. DOMAIN c = 1 .. Len(c) /\ Len(c) \in Nat /\ \A k \in DOMAIN c : c[k] \in Seq(Tokens \ {"|", ",", ";"})
  BY <1>6, SeqFunction, LenProperties
<1>8. \A k \in DOMAIN c : items[k] \in PlainItem
  BY <1>3, <1>7, ItemRead
<1>9. DOMAIN items = 1 .. Len(c) /\ items = [k \in 1 .. Len(c) |-> items[k]]
  BY <1>3, <1>7
<1>10. items \in [1 .. Len(c) -> PlainItem]
  BY <1>7, <1>8, <1>9
<1>11. items \in Seq(PlainItem) /\ Len(items) = Len(c)
  BY <1>7, <1>10, FunctionSeq
<1>12. Len(c) # 0
  BY <1>6, EmptySeq
<1>13. items # <<>>
  BY <1>11, <1>12, EmptySeq
<1> QED
  BY <1>11, <1>13

\* and orders.
LEMMA OrderSingle == ASSUME NEW s PROVE Single(decode_order(s))
<1>1. SUFFICES ASSUME NEW x \in decode_order(s), NEW y \in decode_order(s) PROVE x = y
  BY DEF Single
<1>2. PICK f : f = split(s, ",")
  OBVIOUS
<1>3. PICK a \in parse_positive_int(f[1]), b \in str_to(f[2], OrderStatus), c \in decode_items(f[3]) :
        x = [id |-> a, status |-> b, items |-> c]
  BY <1>2, DecodeOrder, ZenonT(60)
<1>4. PICK d \in parse_positive_int(f[1]), e \in str_to(f[2], OrderStatus), g \in decode_items(f[3]) :
        y = [id |-> d, status |-> e, items |-> g]
  BY <1>2, DecodeOrder, ZenonT(60)
<1>5. a = d /\ b = e /\ c = g
  BY SingleParts, ItemsSingle DEF Single
<1> QED
  BY <1>3, <1>4, <1>5

\* An order made of what the three fields are read as.
LEMMA OrderParts ==
    ASSUME NEW f, Len(f) = 3, NEW a \in parse_positive_int(f[1]), NEW b \in str_to(f[2], OrderStatus),
           NEW c \in Seq(PlainItem), c # <<>>
    PROVE  [id |-> a, status |-> b, items |-> c] \in PlainOrder
BY ParseRead, StrToRead, Enums DEF PlainOrder

\* What decode_order accepts from a field between bars has the form of PlainOrder.
LEMMA OrderRead ==
    ASSUME NEW s \in Seq(Tokens \ {"|"}), NEW o \in decode_order(s)
    PROVE  o \in PlainOrder
<1>1. PICK f : f = split(s, ",")
  OBVIOUS
<1>2. Len(f) = 3
  BY <1>1, DecodeOrder
<1> DEFINE T == Tokens \ {"|"}
<1>3. T \ {","} = Tokens \ {"|", ","}
  OBVIOUS
<1> HIDE DEF T
<1>4. f \in Components(T \ {","})
  BY <1>1, SplitComponents DEF T
<1>5. f \in Seq(Seq(Tokens \ {"|", ","}))
  BY <1>3, <1>4 DEF Components
<1>6. f[3] \in Seq(Tokens \ {"|", ","})
  BY <1>2, <1>5, Elements
<1>7. \E a \in parse_positive_int(f[1]), b \in str_to(f[2], OrderStatus), c \in decode_items(f[3]) :
         o = [id |-> a, status |-> b, items |-> c]
  BY <1>1, DecodeOrder, ZenonT(60)
<1>8. \A c \in decode_items(f[3]) : c \in Seq(PlainItem) /\ c # <<>>
  BY <1>6, ItemsRead
<1> QED
  BY <1>2, <1>7, <1>8, OrderParts, Zenon

\* A message of a given type is read in at most one way.
LEMMA AsSingle ==
    ASSUME NEW type \in MessageType, NEW f PROVE Single(decode_as(type, f))
<1>1. CASE type = "LOGIN"
  BY <1>1, ReadLogin, SingleParts DEF Single
<1>2. CASE type \in {"QUIT", "OK", "ERROR"}
  BY <1>2, ReadStr DEF Single
<1>3. CASE type \in {"ORDER_NEW", "DISP_ORDER"}
  BY <1>3, ReadOrder, OrderSingle DEF Single
<1>4. CASE type \in {"ITEM_UPDATE", "DISP_ITEM_UPDATE"}
  BY <1>4, ReadItemUpdate, SingleParts DEF Single
<1>5. CASE type \in {"ORDER_UPDATE", "DISP_ORDER_UPDATE"}
  BY <1>5, ReadOrderUpdate, SingleParts DEF Single
<1>6. CASE type = "DISP_HEARTBEAT"
  BY <1>6, ReadHeartbeat DEF Single
<1> QED
  BY <1>1, <1>2, <1>3, <1>4, <1>5, <1>6 DEF MessageType

\* It is a message the programs could have made, if the orders in it are.
LEMMA AsMessage ==
    ASSUME NEW type \in MessageType, NEW f \in Seq(String), Len(f) = FieldCount(type), NEW m \in decode_as(type, f),
           Len(f) = 2 => \A o \in decode_order(f[2]) : o \in PlainOrder
    PROVE  m \in Message /\ m.type = type /\ (type \in {"ORDER_NEW", "DISP_ORDER"} => m.order \in PlainOrder)
<1>0. PlainOrder \subseteq FullOrder
  BY PlainOrderArrives
<1>1. CASE type = "LOGIN"
  <2>1. Len(f) = 3
    BY <1>1 DEF FieldCount
  <2>2. f[3] \in String
    BY <2>1, Elements
  <2>3. PICK mode \in str_to(f[2], ClientMode) : m = [type |-> "LOGIN", client_mode |-> mode, str |-> f[3]]
    BY <1>1, ReadLogin
  <2>4. mode \in ClientMode
    BY StrToRead, Enums
  <2> QED
    BY <1>1, <2>2, <2>3, <2>4 DEF Message
<1>2. CASE type \in {"QUIT", "OK", "ERROR"}
  <2>1. Len(f) = 2
    BY <1>2 DEF FieldCount
  <2>2. f[2] \in String
    BY <2>1, Elements
  <2>3. m = [type |-> type, str |-> f[2]]
    BY <1>2, ReadStr
  <2> QED
    BY <1>2, <2>2, <2>3 DEF Message
<1>3. CASE type \in {"ORDER_NEW", "DISP_ORDER"}
  <2>1. Len(f) = 2
    BY <1>3 DEF FieldCount
  <2>2. PICK o \in decode_order(f[2]) : m = [type |-> type, order |-> o]
    BY <1>3, ReadOrder
  <2>3. o \in PlainOrder /\ o \in FullOrder
    BY <1>0, <2>1
  <2> QED
    BY <1>3, <2>2, <2>3 DEF Message
<1>4. CASE type \in {"ITEM_UPDATE", "DISP_ITEM_UPDATE"}
  <2>1. PICK a \in parse_positive_int(f[2]), b \in parse_positive_int(f[3]), c \in str_to(f[4], ItemStatus) :
          m = [type |-> type, order_id |-> a, item_id |-> b, item_status |-> c]
    BY <1>4, ReadItemUpdate
  <2>2. a \in Number /\ b \in Number /\ c \in ItemStatus
    BY ParseRead, StrToRead, Enums
  <2> QED
    BY <1>4, <2>1, <2>2 DEF Message
<1>5. CASE type \in {"ORDER_UPDATE", "DISP_ORDER_UPDATE"}
  <2>1. PICK a \in parse_positive_int(f[2]), c \in str_to(f[3], OrderStatus) :
          m = [type |-> type, order_id |-> a, order_status |-> c]
    BY <1>5, ReadOrderUpdate
  <2>2. a \in Number /\ c \in OrderStatus
    BY ParseRead, StrToRead, Enums
  <2> QED
    BY <1>5, <2>1, <2>2 DEF Message
<1>6. CASE type = "DISP_HEARTBEAT"
  BY <1>6, ReadHeartbeat DEF Message
<1> QED
  BY <1>1, <1>2, <1>3, <1>4, <1>5, <1>6 DEF MessageType

\* What the receiver of any text may have.
Decoded(X) ==
    Single(X) /\ \A m \in X : m \in Message /\ (m.type \in {"ORDER_NEW", "DISP_ORDER"} => m.order \in PlainOrder)

\* Whatever text arrives, decode returns at most one message, and one that the programs
\* could have made; an order in it has items, and no separators in its descriptions.
THEOREM DecodedText == ASSUME NEW s \in String PROVE Decoded(decode(s))
<1>1. PICK f : f = split(s, "|") /\ decode(s) = decode_fields(f)
  BY DEF decode
<1>2. f \in Components(Tokens \ {"|"})
  BY <1>1, SplitComponents DEF String
<1>3. f \in Seq(Seq(Tokens \ {"|"}))
  BY <1>2 DEF Components
<1>4. f \in Seq(String)
  BY <1>3, SeqMore DEF String
<1>5. Len(f) = 2 => f[2] \in Seq(Tokens \ {"|"})
  BY <1>3, Elements
<1>6. Len(f) = 2 => \A o \in decode_order(f[2]) : o \in PlainOrder
  BY <1>5, OrderRead
<1>7. ASSUME NEW m \in decode(s)
      PROVE  m \in Message /\ (m.type \in {"ORDER_NEW", "DISP_ORDER"} => m.order \in PlainOrder)
  <2>1. PICK type \in MessageType : Len(f) = FieldCount(type) /\ m \in decode_as(type, f)
    BY <1>1, DecodeRead
  <2>2. m \in Message /\ m.type = type /\ (type \in {"ORDER_NEW", "DISP_ORDER"} => m.order \in PlainOrder)
    BY <1>4, <1>6, <2>1, AsMessage
  <2> QED
    BY <2>2
<1>8. Single(decode(s))
  <2>1. SUFFICES ASSUME NEW x \in decode_fields(f), NEW y \in decode_fields(f) PROVE x = y
    BY <1>1 DEF Single
  <2>2. PICK t \in str_to(f[1], MessageType) : x \in decode_as(t, f)
    BY DEF decode_fields
  <2>3. PICK u \in str_to(f[1], MessageType) : y \in decode_as(u, f)
    BY DEF decode_fields
  <2>4. t = u /\ t \in MessageType
    BY SingleParts, StrToRead, Enums DEF Single
  <2>5. Single(decode_as(t, f))
    BY <2>4, AsSingle
  <2> QED
    BY <2>2, <2>3, <2>4, <2>5 DEF Single
<1> QED
  BY <1>7, <1>8 DEF Decoded

-----------------------------------------------------------------------------
(***************************************************************************)
(* The inductive invariant.                                                *)
(***************************************************************************)
\* n is the order o as the server has renumbered it, in whatever status.
Renewed(o, n) ==
    /\ n \in PlainOrder /\ n.id = NewId /\ DOMAIN n.items = DOMAIN o.items
    /\ \A k \in DOMAIN o.items :
          /\ n.items[k].order_id = NewId /\ n.items[k].id = o.items[k].id
          /\ n.items[k].desc = o.items[k].desc /\ n.items[k].qty = o.items[k].qty

TextInv ==
    /\ text \in String
    /\ stage \in {"sent", "received"} => \A m \in sent : m \in Message /\ text \in encode(m)
    /\ stage \in {"displayed", "shown"} => text \in encode(DISP_ORDER(order))

ReceivedInv ==
    /\ Decoded(received)
    /\ stage \in {"received", "stored", "worked", "shown"} => received = decode(text)

OrderInv ==
    /\ stage \in {"stored", "worked", "displayed", "shown"} => order \in PlainOrder
    /\ stage \in {"stored", "worked"} => \E m \in received : m.type = "ORDER_NEW" /\ Renewed(m.order, order)

WireInv ==
    /\ stage \in {"idle", "sent", "received", "stored", "worked", "displayed", "shown"}
    /\ TextInv /\ ReceivedInv /\ OrderInv

\* A list of items with others in their places.
LEMMA RenewItems ==
    ASSUME NEW items \in Seq(PlainItem), items # <<>>, NEW r, DOMAIN r = DOMAIN items,
           r = [k \in DOMAIN items |-> r[k]], \A k \in DOMAIN items : r[k] \in PlainItem
    PROVE  r \in Seq(PlainItem) \ {<<>>}
<1>1. DOMAIN items = 1 .. Len(items) /\ Len(items) \in Nat /\ Len(items) # 0
  BY LenProperties, EmptySeq
<1>2. r \in [1 .. Len(items) -> PlainItem]
  BY <1>1
<1>3. r \in Seq(PlainItem) /\ Len(r) = Len(items)
  BY <1>1, <1>2, FunctionSeq
<1> QED
  BY <1>1, <1>3, EmptySeq

\* An order made of its three fields.
LEMMA IsPlainOrder ==
    ASSUME NEW a \in Number, NEW b \in OrderStatus, NEW c \in Seq(PlainItem) \ {<<>>},
           NEW n, n = [id |-> a, status |-> b, items |-> c]
    PROVE  n \in PlainOrder /\ n.id = a /\ n.items = c
<1> DEFINE S == Seq(PlainItem) \ {<<>>}
<1>1. c \in S /\ PlainOrder = [id : Number, status : OrderStatus, items : S]
  BY DEF PlainOrder
<1> HIDE DEF S
<1> QED
  BY <1>1

\* process_new_order renumbers the order.
LEMMA NewOrder ==
    ASSUME NEW o \in PlainOrder,
           NEW n, n = [o EXCEPT !.id = NewId, !.status = "NEW",
                          !.items = [k \in DOMAIN @ |-> [@[k] EXCEPT !.order_id = NewId]]]
    PROVE  Renewed(o, n)
<1> DEFINE r == [k \in DOMAIN o.items |-> [o.items[k] EXCEPT !.order_id = NewId]]
<1>1. n = [id |-> NewId, status |-> "NEW", items |-> r]
  BY DEF PlainOrder
<1>2. o.items \in Seq(PlainItem) /\ o.items # <<>> /\ \A k \in DOMAIN o.items : o.items[k] \in PlainItem
  BY DEF PlainOrder
<1>3. NewId \in Number
  BY NumbersAssumption
<1>4. ASSUME NEW i \in PlainItem
      PROVE  LET j == [i EXCEPT !.order_id = NewId]
             IN  j \in PlainItem /\ j.order_id = NewId /\ j.id = i.id /\ j.desc = i.desc /\ j.qty = i.qty
  BY <1>3 DEF PlainItem
<1>5. \A k \in DOMAIN o.items : r[k] \in PlainItem /\ r[k].order_id = NewId /\ r[k].id = o.items[k].id
                                /\ r[k].desc = o.items[k].desc /\ r[k].qty = o.items[k].qty
  BY <1>2, <1>4
<1>6. DOMAIN r = DOMAIN o.items /\ r = [k \in DOMAIN o.items |-> r[k]]
  OBVIOUS
<1> HIDE DEF r
<1>7. r \in Seq(PlainItem) \ {<<>>}
  BY <1>2, <1>5, <1>6, RenewItems
<1>8. n \in PlainOrder /\ n.id = NewId /\ n.items = r
  <2>1. "NEW" \in OrderStatus
    BY DEF OrderStatus
  <2> QED
    BY ONLY <1>1, <1>3, <1>7, <2>1, IsPlainOrder
<1> QED
  BY <1>5, <1>6, <1>8 DEF Renewed

\* Work leaves its numbers, descriptions and quantities as they are.
LEMMA WorkedOrder ==
    ASSUME NEW o, NEW n, Renewed(o, n), NEW status \in OrderStatus, NEW statuses \in [DOMAIN n.items -> ItemStatus],
           NEW w, w = [n EXCEPT !.status = status,
                          !.items = [k \in DOMAIN @ |-> [@[k] EXCEPT !.status = statuses[k]]]]
    PROVE  Renewed(o, w)
<1> DEFINE r == [k \in DOMAIN n.items |-> [n.items[k] EXCEPT !.status = statuses[k]]]
<1>1. n \in PlainOrder
  BY DEF Renewed
<1>2. w = [id |-> n.id, status |-> status, items |-> r]
  BY <1>1 DEF PlainOrder
<1>3. n.items \in Seq(PlainItem) /\ n.items # <<>> /\ \A k \in DOMAIN n.items : n.items[k] \in PlainItem
  BY <1>1 DEF PlainOrder
<1>4. ASSUME NEW i \in PlainItem, NEW st \in ItemStatus
      PROVE  LET j == [i EXCEPT !.status = st]
             IN  j \in PlainItem /\ j.order_id = i.order_id /\ j.id = i.id /\ j.desc = i.desc /\ j.qty = i.qty
  BY DEF PlainItem
<1>5. \A k \in DOMAIN n.items : r[k] \in PlainItem /\ r[k].order_id = n.items[k].order_id /\ r[k].id = n.items[k].id
                                /\ r[k].desc = n.items[k].desc /\ r[k].qty = n.items[k].qty
  BY <1>3, <1>4
<1>6. DOMAIN r = DOMAIN n.items /\ r = [k \in DOMAIN n.items |-> r[k]]
  OBVIOUS
<1> HIDE DEF r
<1>7. r \in Seq(PlainItem) \ {<<>>}
  BY <1>3, <1>5, <1>6, RenewItems
<1>8. w \in PlainOrder /\ w.id = n.id /\ w.items = r
  <2>1. n.id \in Number
    BY <1>1 DEF PlainOrder
  <2> QED
    BY ONLY <1>2, <1>7, <2>1, IsPlainOrder
<1>9. /\ n.id = NewId /\ DOMAIN n.items = DOMAIN o.items
      /\ \A k \in DOMAIN o.items : /\ n.items[k].order_id = NewId /\ n.items[k].id = o.items[k].id
                                   /\ n.items[k].desc = o.items[k].desc /\ n.items[k].qty = o.items[k].qty
  BY DEF Renewed
<1>10. \A k \in DOMAIN o.items : r[k].order_id = NewId /\ r[k].id = o.items[k].id
                                 /\ r[k].desc = o.items[k].desc /\ r[k].qty = o.items[k].qty
  BY <1>5, <1>9
<1> QED
  BY <1>6, <1>8, <1>9, <1>10 DEF Renewed

\* The DISP_ORDER of such an order is a message without separators in its free text.
LEMMA DisplayedText ==
    ASSUME NEW o \in PlainOrder
    PROVE  DISP_ORDER(o) \in Message /\ SeparatorCount(DISP_ORDER(o)) = 0
<1>1. o \in FullOrder /\ o.items \in Seq(PlainItem) /\ o.items # <<>>
  BY PlainOrderArrives DEF PlainOrder
<1>2. DISP_ORDER(o) \in Message
  BY <1>1 DEF DISP_ORDER, Message
<1>3. PICK items \in Seq(PlainItem) : items = o.items /\ items # <<>> /\ items \in Seq(OrderItem)
  BY <1>1, PlainItemsArrive
<1>4. \A k \in 1 .. Len(items) : descs(items)[k] \in Word
  <2>1. \A k \in 1 .. Len(items) : descs(items)[k] = items[k].desc /\ items[k] \in PlainItem
    BY <1>3, ItemsType
  <2> QED
    BY <2>1 DEF PlainItem
<1>5. descs(items) \in Seq(Word)
  <2>1. PICK d \in Seq(String) : d = descs(items) /\ Len(d) = Len(items)
    BY <1>3, ItemsType
  <2>2. \A k \in 1 .. Len(d) : d[k] \in Word
    BY <1>4, <2>1
  <2>3. d \in Seq(Word)
    BY <2>2
  <2> QED
    BY <2>1, <2>3
<1>6. PICK none \in Word : none = <<>>
  BY EmptySeq DEF Word
<1>7. Join(descs(items), none) \in Word
  BY <1>5, JoinType DEF Word
<1>8. Total(Descs(items), One(Separators)) = 0
  BY <1>6, <1>7, NoneOf, WordType DEF Descs, Word
<1>9. SeparatorCount(DISP_ORDER(o)) = Total(Descs(o.items), One(Separators))
  BY DEF SeparatorCount, FreeText, DISP_ORDER, Descs, descs
<1> QED
  BY <1>2, <1>3, <1>8, <1>9

\* It holds at the beginning.
LEMMA WireInvInit == ASSUME Init PROVE WireInv
<1>1. text = <<>> /\ received = {} /\ stage = "idle" /\ sent = {}
  BY DEF Init
<1>2. text \in String
  BY <1>1, EmptySeq DEF String
<1>3. Decoded(received)
  BY <1>1 DEF Decoded, Single
<1> QED
  BY <1>1, <1>2, <1>3 DEF WireInv, TextInv, ReceivedInv, OrderInv

\* An action may take a stage to any that it names; the parts of the invariant that do not
\* speak of that stage need no proof.
LEMMA WireInvNext == ASSUME WireInv, [Next]_vars PROVE WireInv'
<1>1. /\ text \in String /\ Decoded(received)
      /\ stage \in {"received", "stored", "worked", "shown"} => received = decode(text)
      /\ stage \in {"sent", "received"} => \A m \in sent : m \in Message /\ text \in encode(m)
      /\ stage \in {"displayed", "shown"} => text \in encode(DISP_ORDER(order))
      /\ stage \in {"stored", "worked", "displayed", "shown"} => order \in PlainOrder
      /\ stage \in {"stored", "worked"} => \E m \in received : m.type = "ORDER_NEW" /\ Renewed(m.order, order)
  BY DEF WireInv, TextInv, ReceivedInv, OrderInv
<1>2. ASSUME NEW msg \in Outgoing, Send(msg) PROVE WireInv'
  <2>1. msg \in Message
    BY MessagesAssumption
  <2>2. text' \in encode(msg) /\ stage' = "sent" /\ sent' = {msg} /\ received' = received
    BY <1>2 DEF Send
  <2>3. text' \in String
    BY <2>1, <2>2, RoundTrip
  <2> QED
    BY <1>1, <2>1, <2>2, <2>3 DEF WireInv, TextInv, ReceivedInv, OrderInv
<1>3. ASSUME NEW s \in OtherTexts, SendOther(s) PROVE WireInv'
  <2>1. stage' = "sent" /\ sent' = {} /\ received' = received /\ text' = s
    BY <1>3 DEF SendOther
  <2>2. text' \in String
    BY <2>1, MessagesAssumption
  <2> QED
    BY <1>1, <2>1, <2>2 DEF WireInv, TextInv, ReceivedInv, OrderInv
<1>4. ASSUME Receive PROVE WireInv'
  <2>1. stage = "sent" /\ stage' = "received" /\ received' = decode(text) /\ sent' = sent /\ text' = text
    BY <1>4 DEF Receive
  <2>2. Decoded(received')
    BY <1>1, <2>1, DecodedText
  <2> QED
    BY <1>1, <2>1, <2>2 DEF WireInv, TextInv, ReceivedInv, OrderInv
<1>5. ASSUME process_new_order PROVE WireInv'
  <2>1. stage = "received" /\ stage' = "stored" /\ UNCHANGED <<sent, text, received>>
    BY <1>5 DEF process_new_order
  <2>2. PICK msg \in received :
          /\ msg.type = "ORDER_NEW"
          /\ order' = [msg.order EXCEPT !.id = NewId, !.status = "NEW",
                          !.items = [k \in DOMAIN @ |-> [@[k] EXCEPT !.order_id = NewId]]]
    BY <1>5 DEF process_new_order
  <2>3. msg.order \in PlainOrder
    BY <1>1, <2>2 DEF Decoded
  <2>4. Renewed(msg.order, order')
    BY <2>2, <2>3, NewOrder
  <2>5. order' \in PlainOrder
    BY <2>4 DEF Renewed
  <2>6. msg \in received' /\ msg.type = "ORDER_NEW"
    BY <2>1, <2>2
  <2>7. OrderInv'
    BY <2>4, <2>5, <2>6 DEF OrderInv
  <2>8. TextInv' /\ ReceivedInv'
    BY <1>1, <2>1 DEF TextInv, ReceivedInv
  <2> QED
    BY <2>1, <2>7, <2>8 DEF WireInv
<1>6. ASSUME NEW status \in OrderStatus, NEW statuses \in [DOMAIN order.items -> ItemStatus], Work(status, statuses)
      PROVE  WireInv'
  <2>1. stage = "stored" /\ stage' = "worked" /\ UNCHANGED <<sent, text, received>>
    BY <1>6 DEF Work
  <2>2. order' = [order EXCEPT !.status = status,
                    !.items = [k \in DOMAIN @ |-> [@[k] EXCEPT !.status = statuses[k]]]]
    BY <1>6 DEF Work
  <2>3. PICK m \in received : m.type = "ORDER_NEW" /\ Renewed(m.order, order)
    BY <1>1, <2>1
  <2>4. Renewed(m.order, order')
    <3>1. PICK o, n, w : o = m.order /\ n = order /\ w = order'
      OBVIOUS
    <3>2. Renewed(o, n) /\ statuses \in [DOMAIN n.items -> ItemStatus]
      BY <2>3, <3>1
    <3>3. w = [n EXCEPT !.status = status, !.items = [k \in DOMAIN @ |-> [@[k] EXCEPT !.status = statuses[k]]]]
      BY <2>2, <3>1
    <3>4. Renewed(o, w)
      BY <3>2, <3>3, WorkedOrder, ZenonT(60)
    <3> QED
      BY <3>1, <3>4
  <2>5. order' \in PlainOrder
    BY <2>4 DEF Renewed
  <2>6. m \in received' /\ m.type = "ORDER_NEW"
    BY <2>1, <2>3
  <2>7. OrderInv'
    BY <2>4, <2>5, <2>6 DEF OrderInv
  <2>8. TextInv' /\ ReceivedInv'
    BY <1>1, <2>1 DEF TextInv, ReceivedInv
  <2> QED
    BY <2>1, <2>7, <2>8 DEF WireInv
<1>7. ASSUME SendOrder PROVE WireInv'
  <2>1. /\ stage = "worked" /\ stage' = "displayed" /\ received' = received /\ order' = order
        /\ text' \in encode(DISP_ORDER(order))
    BY <1>7 DEF SendOrder
  <2>2. DISP_ORDER(order) \in Message /\ order \in PlainOrder
    BY <1>1, <2>1, DisplayedText
  <2>3. text' \in String
    BY <2>1, <2>2, RoundTrip
  <2>4. text' \in encode(DISP_ORDER(order'))
    BY <2>1
  <2> QED
    BY <1>1, <2>1, <2>2, <2>3, <2>4 DEF WireInv, TextInv, ReceivedInv, OrderInv
<1>8. ASSUME ReceiveOrder PROVE WireInv'
  <2>1. stage = "displayed" /\ stage' = "shown" /\ received' = decode(text) /\ text' = text /\ order' = order
    BY <1>8 DEF ReceiveOrder
  <2>2. Decoded(received')
    BY <1>1, <2>1, DecodedText
  <2>3. text' \in encode(DISP_ORDER(order')) /\ order' \in PlainOrder
    BY <1>1, <2>1
  <2> QED
    BY <1>1, <2>1, <2>2, <2>3 DEF WireInv, TextInv, ReceivedInv, OrderInv
<1>9. ASSUME SendOrderFails \/ Done PROVE WireInv'
  <2>1. stage' = "idle" /\ text' = <<>> /\ received' = {}
    BY <1>9 DEF SendOrderFails, Done
  <2>2. text' \in String
    BY <2>1, EmptySeq DEF String
  <2>3. Decoded(received')
    BY <2>1 DEF Decoded, Single
  <2> QED
    BY <2>1, <2>2, <2>3 DEF WireInv, TextInv, ReceivedInv, OrderInv
<1>10. ASSUME UNCHANGED vars PROVE WireInv'
  BY <1>10 DEF vars, WireInv, TextInv, ReceivedInv, OrderInv
<1> QED
  BY <1>2, <1>3, <1>4, <1>5, <1>6, <1>7, <1>8, <1>9, <1>10 DEF Next

\* The invariant the others follow from: strings are strings, what was received is what
\* decode makes of the text, and the order is the renumbered one of an ORDER_NEW.
THEOREM WireInvariant == Spec => []WireInv
BY WireInvInit, WireInvNext, PTL DEF Spec

-----------------------------------------------------------------------------
(***************************************************************************)
(* The properties of module Wire.                                          *)
(***************************************************************************)
\* A set of at most one element, counted.
LEMMA SingleCardinality == ASSUME NEW X, Single(X) PROVE Cardinality(X) <= 1
<1>1. CASE X = {}
  BY <1>1, FS_EmptySet
<1>2. CASE X # {}
  <2>1. PICK x : X = {x}
    BY <1>2 DEF Single
  <2>2. Cardinality({x}) = 1
    BY FS_Singleton
  <2> QED
    BY <2>1, <2>2
<1> QED
  BY <1>1, <1>2

\* A word has no separators in it.
LEMMA WordTokens == ASSUME NEW d \in Word PROVE Separators \cap ToSet(d) = {}
<1>1. \A k \in DOMAIN d : d[k] \in Tokens \ Separators
  BY SeqFunction DEF Word
<1> QED
  BY <1>1 DEF ToSet

\* Orders of this form are what modules OrderModel and Server assume.
LEMMA PlainOrderForm ==
    ASSUME NEW o \in PlainOrder
    PROVE  /\ o.id \in Id /\ o.status \in OrderStatus /\ o.items # <<>>
           /\ \A k \in DOMAIN o.items :
                 LET item == o.items[k]
                 IN  item.order_id \in Id /\ item.id \in Id /\ item.qty \in Id /\ item.status \in ItemStatus
                     /\ Separators \cap ToSet(item.desc) = {}
<1>1. o.id \in Number /\ o.status \in OrderStatus /\ o.items \in Seq(PlainItem) /\ o.items # <<>>
  BY DEF PlainOrder
<1>2. \A k \in DOMAIN o.items : o.items[k] \in PlainItem
  BY <1>1, SeqFunction
<1>3. Number \subseteq Id
  BY DEF Number
<1>4. \A i \in PlainItem : /\ i.order_id \in Id /\ i.id \in Id /\ i.qty \in Id /\ i.status \in ItemStatus
                           /\ Separators \cap ToSet(i.desc) = {}
  BY <1>3, WordTokens DEF PlainItem
<1> QED
  BY <1>1, <1>2, <1>3, <1>4

\* The type invariant follows.
LEMMA WireInvTypeOK == ASSUME WireInv PROVE WireTypeOK
<1>1. Decoded(received) /\ stage \in {"idle", "sent", "received", "stored", "worked", "displayed", "shown"}
  BY DEF WireInv, ReceivedInv
<1>2. Cardinality(received) <= 1
  BY <1>1, SingleCardinality DEF Decoded
<1>3. ASSUME NEW msg \in received, msg.type \in {"ORDER_NEW", "DISP_ORDER"}
      PROVE  /\ msg.order.id \in Id /\ msg.order.status \in OrderStatus /\ msg.order.items # <<>>
             /\ \A k \in DOMAIN msg.order.items :
                   LET item == msg.order.items[k]
                   IN  item.order_id \in Id /\ item.id \in Id /\ item.qty \in Id /\ item.status \in ItemStatus
                       /\ Separators \cap ToSet(item.desc) = {}
  <2>1. msg.order \in PlainOrder
    BY <1>1, <1>3 DEF Decoded
  <2> QED
    BY <2>1, PlainOrderForm
<1>4. ASSUME NEW msg \in received,
             msg.type \in {"ITEM_UPDATE", "DISP_ITEM_UPDATE", "ORDER_UPDATE", "DISP_ORDER_UPDATE"}
      PROVE  msg.order_id \in Id
  <2>1. msg \in Message
    BY <1>1 DEF Decoded
  <2>2. msg.order_id \in Number
    BY <1>4, <2>1 DEF Message
  <2> QED
    BY <2>2 DEF Number
<1> QED
  BY <1>1, <1>2, <1>3, <1>4 DEF WireTypeOK

\* Whatever tokens a text consists of, decode lets through at most one message, with
\* positive ids and quantities, valid statuses, at least one item in an order and no
\* separator in a description.
THEOREM WireTypeCorrect == Spec => []WireTypeOK
BY WireInvariant, WireInvTypeOK, PTL

\* decode returns every message that encode has written, if its free text is free of
\* separators: wire.cpp's two halves agree, for all messages of any length.
THEOREM PlainMessagesAlwaysArrive == Spec => []PlainMessagesArrive
<1>1. ASSUME WireInv PROVE PlainMessagesArrive
  <2>1. SUFFICES ASSUME stage = "received", NEW msg \in sent, SeparatorCount(msg) = 0 PROVE received = {msg}
    BY DEF PlainMessagesArrive
  <2>2. msg \in Message /\ text \in encode(msg) /\ received = decode(text)
    BY <1>1, <2>1 DEF WireInv, TextInv, ReceivedInv
  <2> QED
    BY <2>1, <2>2, RoundTrip
<1> QED
  BY <1>1, WireInvariant, PTL

\* Whatever separators its free text holds, however many items and whatever words it has,
\* a message that encode has written is refused, arrives unchanged, or is an order whose
\* descriptions were taken for further items, with five separators or more for each.
THEOREM MisreadAlwaysAsMoreItems == Spec => []MisreadOnlyAsMoreItems
<1>1. ASSUME WireInv PROVE MisreadOnlyAsMoreItems
  <2>1. SUFFICES ASSUME stage = "received", NEW msg \in sent, NEW got \in received
                 PROVE  got = msg \/ TakenApart(got, msg)
    BY DEF MisreadOnlyAsMoreItems
  <2>2. msg \in Message /\ text \in encode(msg) /\ received = decode(text)
    BY <1>1, <2>1 DEF WireInv, TextInv, ReceivedInv
  <2> QED
    BY <2>1, <2>2, RoundTrip
<1> QED
  BY <1>1, WireInvariant, PTL

\* The DISP_ORDER of an order without separators in its descriptions can be encoded.
LEMMA DisplayedEncoded == ASSUME NEW o \in PlainOrder PROVE encode(DISP_ORDER(o)) # {}
<1>1. PICK s : s \in encode_order(o)
  BY PlainOrderArrives
<1>2. <<s>> \in encode_fields(DISP_ORDER(o))
  BY <1>1 DEF encode_fields, DISP_ORDER
<1> QED
  BY <1>2 DEF encode

\* An order that the server has accepted from any text, renumbered and worked on, has an
\* encoding, and the displays decode it as exactly this order.
THEOREM DisplaysAlwaysDecodeTheOrder == Spec => []DisplaysDecodeTheOrder
<1>1. ASSUME WireInv PROVE DisplaysDecodeTheOrder
  <2>1. ASSUME order \in PlainOrder
        PROVE  /\ encode(DISP_ORDER(order)) # {}
               /\ \A s \in encode(DISP_ORDER(order)) : decode(s) = {DISP_ORDER(order)}
    BY <2>1, DisplayedEncoded, DisplayedText, RoundTrip
  <2>2. stage \in {"worked", "shown"} => order \in PlainOrder
    BY <1>1 DEF WireInv, OrderInv
  <2>3. stage = "shown" => text \in encode(DISP_ORDER(order)) /\ received = decode(text)
    BY <1>1 DEF WireInv, TextInv, ReceivedInv
  <2> QED
    BY <2>1, <2>2, <2>3 DEF DisplaysDecodeTheOrder
<1> QED
  BY <1>1, WireInvariant, PTL

-----------------------------------------------------------------------------
(***************************************************************************)
(* How long texts become.                                                  *)
(***************************************************************************)
\* Lengths are natural numbers.
LEMMA TextLenType ==
    /\ TokenLen \in [Tokens -> Nat]
    /\ \A s \in String : TextLen(s) \in Nat
    /\ \A sep \in Tokens : TokenLen[sep] \in Nat
<1>1. TokenLen \in [Tokens -> Nat]
  BY LengthAssumption
<1>2. \A s \in String : TextLen(s) \in Nat
  BY <1>1, TotalType DEF TextLen, String
<1> QED
  BY <1>1, <1>2

\* Joined parts are a string, and have a length.
LEMMA JoinText ==
    ASSUME NEW sep \in Tokens, NEW p \in Seq(String)
    PROVE  Join(p, <<sep>>) \in String /\ TextLen(Join(p, <<sep>>)) \in Nat
<1>1. PICK glue \in Seq(Tokens) : glue = <<sep>>
  BY Singleton
<1>2. p \in Seq(Seq(Tokens))
  BY DEF String
<1>3. Join(p, glue) \in Seq(Tokens)
  BY <1>2, JoinType
<1>4. Join(p, <<sep>>) \in String
  BY <1>1, <1>3 DEF String
<1> QED
  BY <1>4, TextLenType

\* The length of a text with another part.
LEMMA TextMore ==
    ASSUME NEW sep \in Tokens, NEW p \in Seq(String), NEW x \in String
    PROVE  TextLen(Join(Append(p, x), <<sep>>)) =
             IF p = <<>> THEN TextLen(x) ELSE TextLen(Join(p, <<sep>>)) + TokenLen[sep] + TextLen(x)
BY TextLenType, TotalMore DEF TextLen

\* PartGrowth is a number.
LEMMA PartGrowthType == PartGrowth \in Nat /\ TextLen(to_string[NewId]) + 7 = PartGrowth
<1>1. to_string[NewId] \in String
  BY NumbersAssumption, ToString_, WordType
<1>2. TextLen(to_string[NewId]) \in Nat
  BY <1>1, TextLenType
<1> DEFINE t == TextLen(to_string[NewId])
<1> HIDE DEF t
<1>3. t \in Nat => t - 1 + 8 \in Nat /\ t + 7 = t - 1 + 8
  OBVIOUS
<1> QED
  BY <1>2, <1>3 DEF PartGrowth, t

\* If no part becomes longer by more than d characters, their text becomes longer by at
\* most d for each.
LEMMA JoinBound ==
    ASSUME NEW d \in Nat, NEW sep \in Tokens, NEW p \in Seq(String), NEW q \in Seq(String), Len(q) = Len(p),
           \A k \in 1 .. Len(p) : TextLen(q[k]) <= TextLen(p[k]) + d
    PROVE  TextLen(Join(q, <<sep>>)) <= TextLen(Join(p, <<sep>>)) + d * Len(p)
<1> DEFINE Near(a, b) == Len(b) = Len(a) /\ \A k \in 1 .. Len(a) : TextLen(b[k]) <= TextLen(a[k]) + d
           Bound(a, b) == TextLen(Join(b, <<sep>>)) <= TextLen(Join(a, <<sep>>)) + d * Len(a)
           P == {a \in Seq(String) : \A b \in Seq(String) : Near(a, b) => Bound(a, b)}
<1>1. <<>> \in P
  <2>1. SUFFICES ASSUME NEW b \in Seq(String), Near(<<>>, b) PROVE Bound(<<>>, b)
    BY EmptySeq
  <2>2. b = <<>> /\ Len(<<>>) = 0
    BY <2>1, EmptySeq
  <2>3. PICK e \in Seq(String) : e = <<>>
    BY EmptySeq
  <2>4. TextLen(Join(e, <<sep>>)) \in Nat /\ Len(e) = 0
    BY <2>2, <2>3, JoinText
  <2> DEFINE t == TextLen(Join(e, <<sep>>))
             n == Len(e)
  <2>5. t \in Nat /\ n = 0
    BY <2>4
  <2> HIDE DEF t, n
  <2>6. t <= t + d * n
    BY ONLY <2>5
  <2> QED
    BY <2>2, <2>3, <2>6 DEF t, n
<1>2. ASSUME NEW a \in P, NEW x \in String PROVE Append(a, x) \in P
  <2>1. a \in Seq(String) /\ \A b \in Seq(String) : Near(a, b) => Bound(a, b)
    BY DEF P
  <2>a. ASSUME Append(a, x) \in Seq(String), \A b \in Seq(String) : Near(Append(a, x), b) => Bound(Append(a, x), b)
        PROVE  Append(a, x) \in P
    BY <2>a DEF P
  <2> HIDE DEF P
  <2>2. /\ Append(a, x) \in Seq(String) /\ Len(Append(a, x)) = Len(a) + 1 /\ Len(a) \in Nat
        /\ Append(a, x)[Len(a) + 1] = x /\ \A k \in 1 .. Len(a) : Append(a, x)[k] = a[k]
    <3> HIDE DEF Near, Bound
    <3> QED
      BY <2>1, AppendProperties, LenProperties
  <2>3. SUFFICES ASSUME NEW b \in Seq(String), Near(Append(a, x), b) PROVE Bound(Append(a, x), b)
    BY <2>2, <2>a
  <2>4. /\ Len(b) = Len(a) + 1
        /\ \A k \in 1 .. Len(a) + 1 : TextLen(b[k]) <= TextLen(Append(a, x)[k]) + d
    BY <2>2, <2>3, Zenon
  <2> HIDE DEF Near, Bound
  <2>5. b # <<>>
    BY <2>2, <2>4, EmptySeq
  <2>6. PICK r \in Seq(String), y \in String : b = Append(r, y)
    BY <2>5, SequenceEmptyOrAppend
  <2>7. Len(b) = Len(r) + 1 /\ Len(r) \in Nat /\ b[Len(r) + 1] = y /\ \A k \in 1 .. Len(r) : b[k] = r[k]
    BY <2>6, AppendProperties, LenProperties
  <2>8. Len(r) = Len(a)
    BY <2>2, <2>4, <2>7
  <2>9. Len(a) + 1 \in 1 .. Len(a) + 1 /\ \A k \in 1 .. Len(a) : k \in 1 .. Len(a) + 1
    BY <2>2
  <2>10. TextLen(y) <= TextLen(x) + d /\ \A k \in 1 .. Len(a) : TextLen(r[k]) <= TextLen(a[k]) + d
    BY <2>2, <2>4, <2>7, <2>8, <2>9, Zenon
  <2>11. Bound(a, r)
    BY <2>1, <2>8, <2>10, Zenon DEF Near
  <2>12. a = <<>> <=> r = <<>>
    BY <2>1, <2>8, EmptySeq
  <2> DEFINE A == TextLen(Join(a, <<sep>>))
             R == TextLen(Join(r, <<sep>>))
             AX == TextLen(Join(Append(a, x), <<sep>>))
             RY == TextLen(Join(Append(r, y), <<sep>>))
             X == TextLen(x)
             Y == TextLen(y)
             g == TokenLen[sep]
             n == Len(a)
  <2>13. A \in Nat /\ R \in Nat /\ X \in Nat /\ Y \in Nat /\ g \in Nat /\ n \in Nat
    BY <2>1, <2>2, JoinText, TextLenType
  <2>14. R <= A + d * n /\ Y <= X + d
    BY <2>10, <2>11 DEF Bound
  <2>15. IF a = <<>> THEN AX = X /\ RY = Y ELSE AX = A + g + X /\ RY = R + g + Y
    BY <2>1, <2>12, TextMore
  <2> HIDE DEF A, R, AX, RY, X, Y, g, n
  <2>16. RY <= AX + d * (n + 1)
    BY ONLY <2>13, <2>14, <2>15, SMTT(60)
  <2> QED
    BY <2>2, <2>6, <2>16 DEF Bound, AX, RY, n
<1>3. P \in SUBSET Seq(String)
  OBVIOUS
<1>4. Near(p, q)
  OBVIOUS
<1> HIDE DEF P
<1>5. \A a \in Seq(String) : a \in P
  BY <1>1, <1>2, <1>3, AllSequences
<1>6. Near(p, q) => Bound(p, q)
  BY <1>5, Zenon DEF P
<1> QED
  BY <1>4, <1>6

\* An item becomes longer by at most PartGrowth when it is renumbered and worked on.
LEMMA ItemGrowth ==
    ASSUME NEW s \in String, NEW old \in decode_item(s), NEW new \in OrderItem,
           new.order_id = NewId, new.id = old.id, new.desc = old.desc, new.qty = old.qty
    PROVE  TextLen(encode_item(new)) <= TextLen(s) + PartGrowth
<1>1. PICK p : p = split(s, ":")
  OBVIOUS
<1>2. p \in Seq(String)
  BY <1>1, SplitType DEF Components, String
<1>3. ":" \in Tokens
  BY WordType DEF Separators
<1>4. Join(p, <<":">>) = s
  BY <1>1, <1>3, JoinSplit DEF String
<1>5. Len(p) = 5
  BY <1>1, ItemParts
<1>6. PICK a \in parse_positive_int(p[1]), b \in parse_positive_int(p[2]), c \in str_to(p[3], ItemStatus),
           e \in parse_positive_int(p[5]) :
        old = [order_id |-> a, id |-> b, status |-> c, desc |-> p[4], qty |-> e]
  BY <1>1, ItemParts
<1>7. PICK p1, p2, p3, p4, p5 \in String :
        p1 = p[1] /\ p2 = p[2] /\ p3 = p[3] /\ p4 = p[4] /\ p5 = p[5] /\ p = <<p1, p2, p3, p4, p5>>
  BY <1>2, <1>5, FiveParts
<1>8. /\ TextLen(to_string[new.id]) <= TextLen(p2) /\ TextLen(to_string[new.qty]) <= TextLen(p5)
      /\ TextLen(p1) >= 1 /\ TextLen(p3) >= 3 /\ new.desc = p4
  <2>1. new.id = b /\ new.desc = p4 /\ new.qty = e
    BY <1>6, <1>7
  <2>2. /\ p1 \in DOMAIN stoi /\ p2 \in DOMAIN stoi /\ p5 \in DOMAIN stoi
        /\ b = stoi[p2] /\ e = stoi[p5] /\ p3 = to_str[c] /\ c \in ItemStatus
    BY <1>6, <1>7, ParseRead, StrToRead, Enums
  <2>3. c \in OrderStatus
    BY <2>2 DEF ItemStatus, OrderStatus
  <2>4. TextLen(p3) \in 3 .. 11
    BY <2>2, <2>3, LengthAssumption
  <2>5. TextLen(p3) >= 3
    BY <2>4
  <2>6. /\ TextLen(to_string[b]) <= TextLen(p2) /\ TextLen(to_string[e]) <= TextLen(p5) /\ TextLen(p1) >= 1
    BY <2>2, LengthAssumption
  <2> QED
    BY <2>1, <2>5, <2>6
<1>9. TextLen(to_string[NewId]) + 7 = PartGrowth /\ TextLen(to_str[new.status]) <= 11
  <2>1. new.status \in OrderStatus
    BY DEF OrderItem, ItemStatus, OrderStatus
  <2>2. TextLen(to_str[new.status]) \in 3 .. 11
    BY <2>1, LengthAssumption
  <2>3. TextLen(to_str[new.status]) <= 11
    BY <2>2
  <2> QED
    BY <2>3, PartGrowthType
<1>10. PICK q1, q2, q3, q4, q5 \in String :
         q1 = to_string[new.order_id] /\ q2 = to_string[new.id] /\ q3 = to_str[new.status]
         /\ q4 = new.desc /\ q5 = to_string[new.qty]
  BY ToString_, ToStr, Enums, WordType DEF OrderItem
<1>11. encode_item(new) = Join(<<q1, q2, q3, q4, q5>>, <<":">>)
  BY <1>10 DEF encode_item
<1>12. /\ TextLen(s) = TextLen(p1) + TextLen(p2) + TextLen(p3) + TextLen(p4) + TextLen(p5) + 4 * TokenLen[":"]
       /\ TextLen(encode_item(new)) =
            TextLen(q1) + TextLen(q2) + TextLen(q3) + TextLen(q4) + TextLen(q5) + 4 * TokenLen[":"]
  <2>1. TextLen(Join(<<p1, p2, p3, p4, p5>>, <<":">>)) =
          TextLen(p1) + TextLen(p2) + TextLen(p3) + TextLen(p4) + TextLen(p5) + 4 * TokenLen[":"]
    BY <1>3, TextLenType, TotalFive, SMTT(60) DEF TextLen
  <2>2. TextLen(Join(<<q1, q2, q3, q4, q5>>, <<":">>)) =
          TextLen(q1) + TextLen(q2) + TextLen(q3) + TextLen(q4) + TextLen(q5) + 4 * TokenLen[":"]
    BY <1>3, TextLenType, TotalFive, SMTT(60) DEF TextLen
  <2> QED
    BY <1>4, <1>7, <1>11, <2>1, <2>2, Zenon
<1> DEFINE a1 == TextLen(p1)
           a2 == TextLen(p2)
           a3 == TextLen(p3)
           a4 == TextLen(p4)
           a5 == TextLen(p5)
           b1 == TextLen(q1)
           b2 == TextLen(q2)
           b3 == TextLen(q3)
           b4 == TextLen(q4)
           b5 == TextLen(q5)
           g == TokenLen[":"]
           d == PartGrowth
<1>13. /\ a1 \in Nat /\ a2 \in Nat /\ a3 \in Nat /\ a4 \in Nat /\ a5 \in Nat /\ g \in Nat
       /\ b1 \in Nat /\ b2 \in Nat /\ b3 \in Nat /\ b4 \in Nat /\ b5 \in Nat
       /\ d \in Nat
  BY <1>3, TextLenType, PartGrowthType
<1>14. a1 >= 1 /\ b1 + 7 = d /\ b2 <= a2 /\ a3 >= 3 /\ b3 <= 11 /\ b4 = a4 /\ b5 <= a5
  BY <1>8, <1>9, <1>10
<1> HIDE DEF a1, a2, a3, a4, a5, b1, b2, b3, b4, b5, g, d
<1>15. b1 + b2 + b3 + b4 + b5 + 4 * g <= a1 + a2 + a3 + a4 + a5 + 4 * g + d
  BY ONLY <1>13, <1>14
<1> QED
  BY <1>12, <1>15 DEF a1, a2, a3, a4, a5, b1, b2, b3, b4, b5, g, d

\* The length of a text of three parts,
LEMMA TextThree ==
    ASSUME NEW sep \in Tokens, NEW a \in String, NEW b \in String, NEW c \in String
    PROVE  TextLen(Join(<<a, b, c>>, <<sep>>)) = TextLen(a) + TextLen(b) + TextLen(c) + 2 * TokenLen[sep]
BY TextLenType, TotalThree DEF TextLen

\* and of two.
LEMMA TextTwo ==
    ASSUME NEW sep \in Tokens, NEW a \in String, NEW b \in String
    PROVE  TextLen(Join(<<a, b>>, <<sep>>)) = TextLen(a) + TokenLen[sep] + TextLen(b)
<1>1. PICK p \in Seq(String) : p = <<a>> /\ p # <<>>
  <2>1. <<a>> \in Seq(String) /\ <<a>> # <<>>
    BY Singleton
  <2> QED
    BY <2>1
<1>2. PICK glue \in Seq(Tokens) : glue = <<sep>>
  BY Singleton
<1>3. Append(p, b) = <<a, b>>
  BY <1>1, PairOf
<1>4. Join(<<a>>, glue) = a
  BY JoinOne DEF String
<1>5. TextLen(Join(Append(p, b), <<sep>>)) = TextLen(Join(p, <<sep>>)) + TokenLen[sep] + TextLen(b)
  BY <1>1, TextMore
<1> QED
  BY <1>1, <1>2, <1>3, <1>4, <1>5, Zenon

\* The items become longer by at most PartGrowth each.
LEMMA ItemsGrowth ==
    ASSUME NEW s \in String, NEW old \in decode_items(s), NEW new \in Seq(OrderItem), DOMAIN new = DOMAIN old,
           \A k \in DOMAIN old : /\ new[k].order_id = NewId /\ new[k].id = old[k].id
                                 /\ new[k].desc = old[k].desc /\ new[k].qty = old[k].qty
    PROVE  TextLen(encode_items(new)) <= TextLen(s) + PartGrowth * Len(new)
<1>1. PICK c : c = split(s, ";")
  OBVIOUS
<1>2. PICK R : R = UNION {decode_item(c[k]) : k \in DOMAIN c}
  OBVIOUS
<1>3. old \in [DOMAIN c -> R] /\ \A k \in DOMAIN c : old[k] \in decode_item(c[k])
  BY <1>1, <1>2, ZenonT(60) DEF decode_items
<1>4. c \in Seq(String)
  BY <1>1, SplitType DEF Components, String
<1>5. ";" \in Tokens
  BY WordType DEF Separators
<1>6. Join(c, <<";">>) = s
  BY <1>1, <1>5, JoinSplit DEF String
<1>7. DOMAIN old = DOMAIN c
  BY <1>3
<1>8. DOMAIN c = 1 .. Len(c) /\ DOMAIN new = 1 .. Len(new) /\ Len(c) \in Nat /\ Len(new) \in Nat
  BY <1>4, LenProperties
<1>9. Len(new) = Len(c)
  <2>1. 1 .. Len(c) = 1 .. Len(new)
    BY <1>7, <1>8
  <2>2. ASSUME NEW a \in Nat, NEW b \in Nat, 1 .. a = 1 .. b PROVE a = b
    <3>1. a \in 1 .. a => a \in 1 .. b
      BY <2>2
    <3>2. b \in 1 .. b => b \in 1 .. a
      BY <2>2
    <3> QED
      BY <3>1, <3>2
  <2> QED
    BY <1>8, <2>1, <2>2
<1>10. PICK t \in Seq(String) : t = texts(new) /\ Len(t) = Len(new) /\ \A k \in 1 .. Len(new) : t[k] = encode_item(new[k])
  BY ItemsType
<1>11. ASSUME NEW k \in 1 .. Len(c) PROVE TextLen(t[k]) <= TextLen(c[k]) + PartGrowth
  <2>1. k \in DOMAIN c /\ k \in DOMAIN old /\ k \in 1 .. Len(new)
    BY <1>7, <1>8, <1>9
  <2>2. c[k] \in String /\ new[k] \in OrderItem
    BY <1>4, <2>1, ElementOfSeq
  <2>3. old[k] \in decode_item(c[k]) /\ t[k] = encode_item(new[k])
    BY <1>3, <1>10, <2>1
  <2>4. /\ new[k].order_id = NewId /\ new[k].id = old[k].id
        /\ new[k].desc = old[k].desc /\ new[k].qty = old[k].qty
    BY <2>1
  <2> QED
    BY <2>2, <2>3, <2>4, ItemGrowth
<1>12. TextLen(Join(t, <<";">>)) <= TextLen(Join(c, <<";">>)) + PartGrowth * Len(c)
  BY <1>4, <1>5, <1>9, <1>10, <1>11, PartGrowthType, JoinBound
<1>13. encode_items(new) = Join(t, <<";">>)
  BY <1>10 DEF encode_items, texts
<1> QED
  BY <1>6, <1>9, <1>12, <1>13, Zenon

\* So does the order, with its id and status for one more.
LEMMA OrderGrowth ==
    ASSUME NEW s \in String, NEW o \in decode_order(s), NEW n, Renewed(o, n), NEW z \in encode_order(n)
    PROVE  TextLen(z) <= TextLen(s) + PartGrowth * (1 + Len(n.items))
<1>1. PICK f : f = split(s, ",")
  OBVIOUS
<1>2. Len(f) = 3
  BY <1>1, DecodeOrder
<1>3. PICK a \in parse_positive_int(f[1]), b \in str_to(f[2], OrderStatus), items \in decode_items(f[3]) :
        o = [id |-> a, status |-> b, items |-> items]
  BY <1>1, DecodeOrder, ZenonT(60)
<1>4. f \in Seq(String)
  BY <1>1, SplitType DEF Components, String
<1>5. "," \in Tokens
  BY WordType DEF Separators
<1>6. Join(f, <<",">>) = s
  BY <1>1, <1>5, JoinSplit DEF String
<1>7. PICK f1, f2, f3 \in String : f1 = f[1] /\ f2 = f[2] /\ f3 = f[3] /\ f = <<f1, f2, f3>>
  BY <1>2, <1>4, ThreeParts
<1>8. n \in PlainOrder /\ n \in FullOrder /\ n.id = NewId /\ n.status \in OrderStatus /\ n.items \in Seq(OrderItem)
  BY PlainOrderArrives DEF Renewed, FullOrder
<1>9. TextLen(encode_items(n.items)) <= TextLen(f3) + PartGrowth * Len(n.items)
  <2>1. o.items = items
    BY <1>3
  <2>2. items \in decode_items(f3)
    BY <1>7
  <2>3. /\ DOMAIN n.items = DOMAIN items
        /\ \A k \in DOMAIN items : /\ n.items[k].order_id = NewId /\ n.items[k].id = items[k].id
                                   /\ n.items[k].desc = items[k].desc /\ n.items[k].qty = items[k].qty
    BY <2>1 DEF Renewed
  <2> QED
    BY <1>8, <2>2, <2>3, ItemsGrowth
<1>10. TextLen(f1) >= 1 /\ TextLen(f2) >= 3
  <2>1. f1 \in DOMAIN stoi /\ f2 = to_str[b] /\ b \in OrderStatus
    BY <1>7, ParseRead, StrToRead, Enums
  <2>2. TextLen(f2) \in 3 .. 11
    BY <2>1, LengthAssumption
  <2>3. TextLen(f2) >= 3
    BY <2>2
  <2> QED
    BY <2>1, <2>3, LengthAssumption
<1>11. TextLen(to_string[NewId]) + 7 = PartGrowth /\ TextLen(to_str[n.status]) <= 11
  <2>1. TextLen(to_str[n.status]) \in 3 .. 11
    BY <1>8, LengthAssumption
  <2>2. TextLen(to_str[n.status]) <= 11
    BY <2>1
  <2> QED
    BY <2>2, PartGrowthType
<1>12. PICK q1, q2, q3 \in String : q1 = to_string[NewId] /\ q2 = to_str[n.status] /\ q3 = encode_items(n.items)
  BY <1>8, NumbersAssumption, ToString_, ToStr, Enums, WordType, EncodeItemsType
<1>13. z = Join(<<q1, q2, q3>>, <<",">>)
  BY <1>8, <1>12 DEF encode_order
<1>14. /\ TextLen(s) = TextLen(f1) + TextLen(f2) + TextLen(f3) + 2 * TokenLen[","]
       /\ TextLen(z) = TextLen(q1) + TextLen(q2) + TextLen(q3) + 2 * TokenLen[","]
  <2>1. PICK sep \in Tokens : sep = ","
    BY <1>5
  <2>2. TextLen(Join(<<f1, f2, f3>>, <<sep>>)) = TextLen(f1) + TextLen(f2) + TextLen(f3) + 2 * TokenLen[sep]
    BY TextThree
  <2>3. TextLen(Join(<<q1, q2, q3>>, <<sep>>)) = TextLen(q1) + TextLen(q2) + TextLen(q3) + 2 * TokenLen[sep]
    BY TextThree
  <2> QED
    BY <1>6, <1>7, <1>13, <2>1, <2>2, <2>3, Zenon
<1> DEFINE a1 == TextLen(f1)
           a2 == TextLen(f2)
           a3 == TextLen(f3)
           b1 == TextLen(q1)
           b2 == TextLen(q2)
           b3 == TextLen(q3)
           g == TokenLen[","]
           m == Len(n.items)
           d == PartGrowth
<1>15. /\ a1 \in Nat /\ a2 \in Nat /\ a3 \in Nat /\ g \in Nat /\ b1 \in Nat /\ b2 \in Nat /\ b3 \in Nat
       /\ m \in Nat /\ d \in Nat
  BY <1>5, <1>8, TextLenType, LenProperties, PartGrowthType
<1>16. a1 >= 1 /\ b1 + 7 = d /\ a2 >= 3 /\ b2 <= 11 /\ b3 <= a3 + d * m
  BY <1>9, <1>10, <1>11, <1>12
<1> HIDE DEF a1, a2, a3, b1, b2, b3, g, m, d
<1>17. b1 + b2 + b3 + 2 * g <= a1 + a2 + a3 + 2 * g + d * (1 + m)
  BY ONLY <1>15, <1>16
<1> QED
  BY <1>14, <1>17 DEF a1, a2, a3, b1, b2, b3, g, m, d

\* The DISP_ORDER of an order is longer than the ORDER_NEW text it came with by at most
\* Growth.
LEMMA MessageGrowth ==
    ASSUME NEW s \in String, NEW m \in decode(s), m.type = "ORDER_NEW", NEW n, Renewed(m.order, n),
           NEW z \in encode(DISP_ORDER(n))
    PROVE  FramedLen(z) <= FramedLen(s) + Growth(Len(n.items))
<1>1. PICK f : f = split(s, "|") /\ decode(s) = decode_fields(f)
  BY DEF decode
<1>2. f \in Seq(String)
  BY <1>1, SplitType DEF Components, String
<1>3. PICK type \in str_to(f[1], MessageType) : Len(f) = FieldCount(type) /\ m \in decode_as(type, f)
  BY <1>1 DEF decode_fields
<1>4. type \in MessageType /\ f[1] = to_str[type]
  BY StrToRead, Enums
<1>5. type = "ORDER_NEW"
  <2>1. m.type = type
    <3>1. CASE type = "LOGIN"
      BY <1>3, <3>1, ReadLogin
    <3>2. CASE type \in {"QUIT", "OK", "ERROR"}
      BY <1>3, <3>2, ReadStr
    <3>3. CASE type \in {"ORDER_NEW", "DISP_ORDER"}
      BY <1>3, <3>3, ReadOrder
    <3>4. CASE type \in {"ITEM_UPDATE", "DISP_ITEM_UPDATE"}
      BY <1>3, <3>4, ReadItemUpdate
    <3>5. CASE type \in {"ORDER_UPDATE", "DISP_ORDER_UPDATE"}
      BY <1>3, <3>5, ReadOrderUpdate
    <3>6. CASE type = "DISP_HEARTBEAT"
      BY <1>3, <3>6, ReadHeartbeat
    <3> QED
      BY <1>4, <3>1, <3>2, <3>3, <3>4, <3>5, <3>6 DEF MessageType
  <2> QED
    BY <2>1
<1>6. Len(f) = 2
  BY <1>3, <1>5 DEF FieldCount
<1>7. PICK f1, f2 \in String : f1 = f[1] /\ f2 = f[2] /\ f = <<f1, f2>>
  BY <1>2, <1>6, TwoParts
<1>8. m.order \in decode_order(f2) /\ f1 = to_str["ORDER_NEW"]
  BY <1>3, <1>4, <1>5, <1>7, ReadOrder
<1>9. "|" \in Tokens
  BY WordType DEF Separators
<1>10. Join(f, <<"|">>) = s
  BY <1>1, <1>9, JoinSplit DEF String
<1>11. n \in PlainOrder /\ n \in FullOrder
  BY PlainOrderArrives DEF Renewed
<1>12. PICK g \in encode_fields(DISP_ORDER(n)) : z = Join(<<to_str["DISP_ORDER"]>> \o g, <<"|">>)
  BY DEF encode, DISP_ORDER
<1>13. PICK y \in encode_order(n) : g = <<y>>
  BY <1>12 DEF encode_fields, DISP_ORDER
<1>14. y \in String
  BY <1>11, EncodeOrderType
<1>15. PICK w \in String : w = to_str["DISP_ORDER"]
  BY ToStr, Enums, WordType DEF MessageType
<1>16. z = Join(<<w, y>>, <<"|">>)
  <2>1. <<w>> \o <<y>> = <<w, y>>
    BY <1>14, PairOf, Zenon
  <2> QED
    BY <1>12, <1>13, <1>15, <2>1, Zenon
<1>17. TextLen(y) <= TextLen(f2) + PartGrowth * (1 + Len(n.items))
  BY <1>8, OrderGrowth
<1>18. /\ TextLen(s) = TextLen(f1) + TokenLen["|"] + TextLen(f2)
       /\ TextLen(z) = TextLen(w) + TokenLen["|"] + TextLen(y)
  <2>1. PICK sep \in Tokens : sep = "|"
    BY <1>9
  <2>2. TextLen(Join(<<f1, f2>>, <<sep>>)) = TextLen(f1) + TokenLen[sep] + TextLen(f2)
    BY TextTwo
  <2>3. TextLen(Join(<<w, y>>, <<sep>>)) = TextLen(w) + TokenLen[sep] + TextLen(y)
    BY <1>14, TextTwo
  <2> QED
    BY <1>7, <1>10, <1>16, <2>1, <2>2, <2>3, Zenon
<1>19. TextLen(w) = TextLen(f1) + 1
  BY <1>8, <1>15, LengthAssumption
<1> DEFINE a1 == TextLen(f1)
           a2 == TextLen(f2)
           b1 == TextLen(w)
           b2 == TextLen(y)
           bar == TokenLen["|"]
           k == Len(n.items)
           d == PartGrowth
           S == TextLen(s)
           Z == TextLen(z)
<1>20. a1 \in Nat /\ a2 \in Nat /\ b2 \in Nat /\ bar \in Nat /\ k \in Nat /\ d \in Nat
  BY <1>9, <1>11, <1>14, TextLenType, LenProperties, PartGrowthType DEF FullOrder
<1>21. b1 = a1 + 1 /\ b2 <= a2 + d * (1 + k) /\ S = a1 + bar + a2 /\ Z = b1 + bar + b2
  BY <1>17, <1>18, <1>19
<1> HIDE DEF a1, a2, b1, b2, bar, k, d, S, Z
<1>22. Z + 1 <= S + 1 + (1 + d * (1 + k))
  BY ONLY <1>20, <1>21
<1> QED
  BY <1>22 DEF FramedLen, Growth, k, d, S, Z

\* Whoever wrote an ORDER_NEW and however many items it has: while the order is worked on,
\* its DISP_ORDER is longer than that text by at most Growth, so that IO::send takes it
\* whenever the ORDER_NEW left that much room in its frame.
THEOREM GrowthAlwaysBounded == Spec => []GrowthIsBounded
<1>1. ASSUME WireInv PROVE GrowthIsBounded
  <2>1. SUFFICES ASSUME stage = "worked", NEW s \in encode(DISP_ORDER(order))
                 PROVE  FramedLen(s) <= FramedLen(text) + Growth(Len(order.items))
    BY DEF GrowthIsBounded
  <2>2. text \in String /\ received = decode(text)
    BY <1>1, <2>1 DEF WireInv, TextInv, ReceivedInv
  <2>3. PICK m \in received : m.type = "ORDER_NEW" /\ Renewed(m.order, order)
    BY <1>1, <2>1 DEF WireInv, OrderInv
  <2> QED
    BY <2>1, <2>2, <2>3, MessageGrowth
<1> QED
  BY <1>1, WireInvariant, PTL

\* Under the wire's own limit: if the ORDER_NEW of an order left room for Growth, then
\* IO::send takes its DISP_ORDER in every status.
THEOREM OrdersWithRoomFit ==
    Spec => [](stage = "worked" /\ FramedLen(text) + Growth(Len(order.items)) <= MaxFramed => EveryOrderCanBeDisplayed)
<1>1. ASSUME WireInv, GrowthIsBounded, stage = "worked", FramedLen(text) + Growth(Len(order.items)) <= MaxFramed
      PROVE  EveryOrderCanBeDisplayed
  <2>1. SUFFICES ASSUME NEW s \in encode(DISP_ORDER(order)) PROVE FramedLen(s) <= MaxFramed
    BY DEF EveryOrderCanBeDisplayed
  <2>2. order \in PlainOrder /\ text \in String
    BY <1>1 DEF WireInv, TextInv, OrderInv
  <2>3. s \in String
    BY <2>2, DisplayedText, RoundTrip
  <2>4. order.items \in Seq(PlainItem)
    BY <2>2 DEF PlainOrder
  <2> DEFINE a == FramedLen(s)
             b == FramedLen(text)
             g == Growth(Len(order.items))
  <2>5. a \in Nat /\ b \in Nat
    BY <2>2, <2>3, TextLenType DEF FramedLen
  <2>6. g \in Nat
    <3> DEFINE n == Len(order.items)
               d == PartGrowth
    <3>1. n \in Nat /\ d \in Nat
      BY <2>4, LenProperties, PartGrowthType
    <3> HIDE DEF n, d
    <3>2. 1 + d * (1 + n) \in Nat
      BY <3>1
    <3> QED
      BY <3>2 DEF Growth, n, d
  <2>7. a <= b + g /\ b + g <= MaxFramed
    BY <1>1, <2>1 DEF GrowthIsBounded
  <2> HIDE DEF a, b, g
  <2>8. a <= MaxFramed
    BY <2>5, <2>6, <2>7 DEF MaxFramed
  <2> QED
    BY <2>8 DEF a
<1> QED
  BY <1>1, WireInvariant, GrowthAlwaysBounded, PTL
=============================================================================
