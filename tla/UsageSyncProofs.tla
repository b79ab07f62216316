---------------------------- MODULE UsageSyncProofs ----------------------------
(***************************************************************************)
(* For every log, page and bound: no cursor that moves on acceptance steps *)
(* over a row the server has not got (the invariant says what a banked     *)
(* value promises about the rows below it), and what OMP's cursor has      *)
(* passed is accounted for (the invariant says where its batches are).     *)
(***************************************************************************)
EXTENDS UsageSync, WellFoundedInduction, FiniteSetTheorems, SequenceTheorems, TLAPS

USE DEF Sources, Uploaders

\* The sources whose cursor waits for the server.
Waiting == Sources \ {"omp"}

\* Row n of s is at the server, or its second is another row's too.
Safe(s, n) == <<s, n>> \in stored \/ SharesItsSecond(s, n)

\* Logs and cursors.
LogInv == /\ stamp \in Logs
          /\ written \in [Sources -> Nat]
          /\ \A s \in Sources : written[s] <= Len(stamp[s])
          /\ cursor \in [Sources -> Nat]

\* A cursor may stand where it is.
CursorInv == \A s \in Waiting : \A n \in Rows(s) : stamp[s][n] <= cursor[s] => Safe(s, n)

\* Every row below the value is in the batch or safe.
Promise(b, to) == b.source \in Waiting =>
    \A n \in Rows(b.source) : stamp[b.source][n] <= to => n \in b.rows \/ Safe(b.source, n)

\* A banked value may be the cursor once the rows of its batch are stored, and
\* its batch is one the envelope takes.
BankInv == \A k \in bank : /\ k.to \in Nat
                           /\ k.batch.source \in Waiting => Valid(k.batch)
                           /\ Promise(k.batch, k.to)

\* What an upload is done with is stored, or no batch that was ever banked.
PostedInv == /\ DOMAIN posted = Uploaders
             /\ \A u \in Uploaders : \A e \in posted[u] :
                  /\ e.verdict = "stored" => RowsOf(e.batch) \subseteq stored
                  /\ e.verdict = "invalid" => ~Valid(e.batch)

\* A batch in hand may move its cursor: to what is banked, then to the value taken.
HandInv == /\ DOMAIN hand = Uploaders /\ DOMAIN up = Uploaders
           /\ \A u \in Uploaders :
                /\ up[u] = "advance" => \/ RowsOf(hand[u].batch) \subseteq stored
                                        \/ ~Valid(hand[u].batch)
                /\ up[u] = "set" =>
                     /\ hand[u].to \in Nat
                     /\ hand[u].batch.source \in Waiting =>
                          \A n \in Rows(hand[u].batch.source) :
                             stamp[hand[u].batch.source][n] <= hand[u].to =>
                                Safe(hand[u].batch.source, n)

IInv == LogInv /\ CursorInv /\ BankInv /\ PostedInv /\ HandInv

-------------------------------------------------------------------------------
(* Pages *)

LEMMA Greatest ==
    ASSUME NEW have \in Nat, NEW S \in SUBSET (1..have), S # {}
    PROVE  IsFiniteSet(S) /\ \E n \in S : \A m \in S : m <= n
<1> DEFINE Above(n) == {m \in S : m > n}
           T == {Above(n) : n \in S}
<1>0. IsFiniteSet(1..have)
  BY FS_Interval
<1>1. IsFiniteSet(S)
  BY <1>0, FS_Subset
<1>2. T # {} /\ T \subseteq FiniteSubsetsOf(S)
  <2>1. \A n \in S : Above(n) \in SUBSET S /\ IsFiniteSet(Above(n))
    BY <1>1, FS_Subset
  <2> QED BY <2>1 DEF FiniteSubsetsOf
<1>3. PICK x \in T : \A y \in T : ~ (<<y, x>> \in StrictSubsetOrdering(S))
  <2> HIDE DEF T
  <2> QED BY <1>1, <1>2, FS_StrictSubsetOrderingWellFounded, WFMin
<1>4. PICK n \in S : x = Above(n)
  OBVIOUS
<1>5. ASSUME NEW m \in S, m > n
      PROVE  <<Above(m), Above(n)>> \in StrictSubsetOrdering(S)
  <2>1. Above(m) \in SUBSET S /\ Above(n) \in SUBSET S
    OBVIOUS
  <2>2. Above(m) \subseteq Above(n)
    <3>1. ASSUME NEW k \in S, k > m PROVE k > n
      BY <1>5, <3>1
    <3> QED BY <3>1
  <2>3. m \in Above(n) /\ m \notin Above(m)
    BY <1>5
  <2> HIDE DEF Above
  <2> QED BY <2>1, <2>2, <2>3 DEF StrictSubsetOrdering
<1>6. \A m \in S : ~ (m > n)
  BY <1>3, <1>4, <1>5
<1> QED BY <1>1, <1>6

\* A page of rows: at most Page[s] of them, its end above the cursor; what lies
\* below the last of them is in the page, below the cursor, or of its second.
LEMMA PageOfRows ==
    ASSUME LogInv, NEW s \in Sources, NEW have \in Nat, have <= Len(stamp[s]),
           NextPage(s, have) # {}
    PROVE  /\ Cardinality(NextPage(s, have)) <= Page[s]
           /\ HighWater(s, NextPage(s, have)) \in Nat
           /\ HighWater(s, NextPage(s, have)) > cursor[s]
           /\ \A n \in Rows(s) : stamp[s][n] <= HighWater(s, NextPage(s, have)) =>
                \/ n \in NextPage(s, have)
                \/ stamp[s][n] <= cursor[s]
                \/ SharesItsSecond(s, n)
<1> DEFINE P == NextPage(s, have)
           Before(n) == {m \in Unread(s, have) : m < n}
<1>1. /\ stamp \in [Sources -> Seq(Nat \ {0})]
      /\ \A m, n \in DOMAIN stamp[s] : m < n => stamp[s][m] <= stamp[s][n]
      /\ DOMAIN stamp[s] = 1..Len(stamp[s]) /\ Len(stamp[s]) \in Nat
      /\ \A n \in 1..have : n \in DOMAIN stamp[s] /\ stamp[s][n] \in Nat
  <2>1. stamp \in Logs
    BY DEF LogInv
  <2>2. /\ stamp \in [Sources -> Seq(Nat \ {0})]
        /\ \A m, n \in DOMAIN stamp[s] : m < n => stamp[s][m] <= stamp[s][n]
    BY <2>1, LogAssumption
  <2>3. stamp[s] \in Seq(Nat \ {0})
    BY <2>2
  <2>4. DOMAIN stamp[s] = 1..Len(stamp[s]) /\ Len(stamp[s]) \in Nat
    BY <2>3
  <2>5. \A n \in 1..have : n \in DOMAIN stamp[s]
    BY <2>4
  <2>6. \A n \in DOMAIN stamp[s] : stamp[s][n] \in Nat
    BY <2>3
  <2> QED BY <2>2, <2>4, <2>5, <2>6
<1>0. \A n \in Rows(s) : stamp[s][n] \in Nat
  <2>1. stamp \in Logs
    BY DEF LogInv
  <2>2. stamp[s] \in Seq(Nat \ {0})
    BY <2>1, LogAssumption
  <2> QED BY <2>2 DEF Rows
<1>2. P \subseteq Unread(s, have) /\ Unread(s, have) \subseteq 1..have
  BY DEF NextPage, Unread
<1>3. IsFiniteSet(Unread(s, have)) /\ \A n \in 1..have : IsFiniteSet(Before(n))
  <2>1. IsFiniteSet(1..have)
    BY FS_Interval
  <2> QED BY <2>1, <1>2, FS_Subset
<1>4. PICK top \in P : \A m \in P : m <= top
  BY <1>2, Greatest
<1>5. HighWater(s, P) = stamp[s][top]
  <2>1. (CHOOSE n \in P : \A m \in P : m <= n) = top
    BY <1>2, <1>4
  <2> QED BY <2>1 DEF HighWater
<1>6. top \in 1..have /\ Cardinality(Before(top)) < Page[s]
  BY <1>2 DEF NextPage
<1>7. Cardinality(P) <= Page[s]
  <2>1. /\ IsFiniteSet(Before(top) \cup {top})
        /\ Cardinality(Before(top) \cup {top}) = Cardinality(Before(top)) + 1
    <3>1. IsFiniteSet(Before(top)) /\ top \notin Before(top)
      BY <1>3, <1>6
    <3> HIDE DEF Before
    <3> QED BY <3>1, FS_AddElement
  <2>2. P \subseteq Before(top) \cup {top}
    BY <1>2, <1>4
  <2>3. Cardinality(P) <= Cardinality(Before(top) \cup {top})
    BY <2>1, <2>2, FS_Subset
  <2>4. Cardinality(Before(top)) \in Nat /\ Cardinality(P) \in Nat
    <3>1. IsFiniteSet(P)
      BY <2>1, <2>2, FS_Subset
    <3> QED BY <1>3, <1>6, <3>1, FS_CardinalityType
  <2>5. Page[s] \in Nat
    BY BoundAssumption
  <2> QED BY <1>6, <2>1, <2>3, <2>4, <2>5
<1>8. ASSUME NEW n \in Rows(s), stamp[s][n] <= stamp[s][top]
      PROVE  n \in P \/ stamp[s][n] <= cursor[s] \/ SharesItsSecond(s, n)
  <2>1. CASE n = top
    BY <2>1
  <2>2. CASE n > top
    <3>1. stamp[s][top] <= stamp[s][n] /\ stamp[s][n] \in Nat /\ stamp[s][top] \in Nat
      BY <1>0, <1>1, <1>6, <2>2 DEF Rows
    <3>2. stamp[s][n] = stamp[s][top] /\ top \in Rows(s) /\ top # n
      BY <1>1, <1>6, <1>8, <2>2, <3>1 DEF Rows
    <3> QED BY <3>2 DEF SharesItsSecond
  <2>3. CASE n < top /\ stamp[s][n] > cursor[s]
    <3>1. n \in Unread(s, have) /\ Before(n) \subseteq Before(top)
      BY <1>1, <1>2, <1>6, <2>3 DEF Unread, Rows
    <3>2. Cardinality(Before(n)) <= Cardinality(Before(top))
      BY <1>3, <1>6, <3>1, FS_Subset
    <3>3. Cardinality(Before(n)) \in Nat /\ Cardinality(Before(top)) \in Nat
      BY <1>2, <1>3, <1>6, <3>1, FS_CardinalityType
    <3>4. Cardinality(Before(n)) < Page[s]
      BY <1>6, <3>2, <3>3, BoundAssumption
    <3> QED BY <3>1, <3>4 DEF NextPage
  <2>4. n \in Nat /\ top \in Nat /\ stamp[s][n] \in Nat /\ cursor[s] \in Nat
    <3>1. n \in Nat
      BY <1>1 DEF Rows
    <3>2. cursor[s] \in Nat
      BY DEF LogInv
    <3> QED BY <1>0, <1>6, <3>1, <3>2
  <2> QED BY <2>1, <2>2, <2>3, <2>4
<1>9. stamp[s][top] \in Nat /\ stamp[s][top] > cursor[s]
  BY <1>1, <1>2, <1>6 DEF Unread
<1> QED BY <1>5, <1>7, <1>8, <1>9

\* A page makes a batch the envelope takes.
LEMMA PageIsValid ==
    ASSUME LogInv, NEW s \in Sources, NEW have \in Nat, have <= Len(stamp[s]),
           NextPage(s, have) # {}
    PROVE  Valid(Batch(s, NextPage(s, have)))
<1> DEFINE rows == NextPage(s, have)
<1>1. Page[s] <= BatchRows /\ Page[s] \in Nat /\ BatchRows \in Nat
  BY BoundAssumption, PageAssumption
<1>2. Cardinality(rows) \in Nat
  <2>1. rows \subseteq 1..have
    BY DEF NextPage, Unread
  <2>2. IsFiniteSet(rows)
    <3> HIDE DEF rows
    <3> QED BY <2>1, Greatest, FS_EmptySet
  <2> QED BY <2>2, FS_CardinalityType
<1>3. Cardinality(rows) <= Page[s]
  BY PageOfRows
<1>4. Batch(s, rows).rows = rows /\ Batch(s, rows).covers = 0
  BY DEF Batch
<1> HIDE DEF rows
<1> QED BY <1>1, <1>2, <1>3, <1>4 DEF Valid, rows

-------------------------------------------------------------------------------
(* Sequences *)

LEMMA SeqElements ==
    ASSUME NEW X, NEW q \in Seq(X)
    PROVE  InSeq(q) \subseteq X
BY DEF InSeq

LEMMA AppendElements ==
    ASSUME NEW X, NEW q \in Seq(X), NEW e \in X
    PROVE  Append(q, e) \in Seq(X) /\ InSeq(Append(q, e)) = InSeq(q) \cup {e}
<1> DEFINE a == Append(q, e)
<1>1. a \in Seq(X) /\ DOMAIN q = 1..Len(q) /\ DOMAIN a = 1..(Len(q) + 1) /\ Len(q) \in Nat
  OBVIOUS
<1>2. a[Len(q) + 1] = e /\ \A i \in 1..Len(q) : a[i] = q[i]
  OBVIOUS
<1>3. \A i \in 1..(Len(q) + 1) : i \in 1..Len(q) \/ i = Len(q) + 1
  BY <1>1
<1>4. Len(q) + 1 \in 1..(Len(q) + 1) /\ \A i \in 1..Len(q) : i \in 1..(Len(q) + 1)
  BY <1>1
<1> HIDE DEF a
<1> QED BY <1>1, <1>2, <1>3, <1>4 DEF InSeq, a

LEMMA ConcatElements ==
    ASSUME NEW X, NEW q \in Seq(X), NEW r \in Seq(X)
    PROVE  q \o r \in Seq(X) /\ InSeq(q \o r) = InSeq(q) \cup InSeq(r)
<1> DEFINE c == q \o r
<1>1. /\ c \in Seq(X) /\ Len(q) \in Nat /\ Len(r) \in Nat
      /\ DOMAIN q = 1..Len(q) /\ DOMAIN r = 1..Len(r) /\ DOMAIN c = 1..(Len(q) + Len(r))
  OBVIOUS
<1>2. \A i \in 1..(Len(q) + Len(r)) : c[i] = IF i <= Len(q) THEN q[i] ELSE r[i - Len(q)]
  BY ConcatProperties
<1>3. ASSUME NEW i \in 1..(Len(q) + Len(r))
      PROVE  \/ i \in 1..Len(q) /\ c[i] = q[i]
             \/ i - Len(q) \in 1..Len(r) /\ c[i] = r[i - Len(q)]
  <2> HIDE DEF c
  <2>1. c[i] = IF i <= Len(q) THEN q[i] ELSE r[i - Len(q)]
    BY <1>2
  <2>2. CASE i <= Len(q)
    <3>1. i \in 1..Len(q)
      BY <1>1, <2>2
    <3> QED BY <2>1, <2>2, <3>1
  <2>3. CASE ~ (i <= Len(q))
    <3>1. i - Len(q) \in 1..Len(r)
      BY <1>1, <2>3
    <3> QED BY <2>1, <2>3, <3>1
  <2> QED BY <2>2, <2>3
<1>4. \A i \in 1..Len(q) : i \in 1..(Len(q) + Len(r)) /\ c[i] = q[i]
  BY <1>1, <1>2
<1>5. \A i \in 1..Len(r) : i + Len(q) \in 1..(Len(q) + Len(r)) /\ c[i + Len(q)] = r[i]
  <2> TAKE i \in 1..Len(r)
  <2>1. i + Len(q) \in 1..(Len(q) + Len(r)) /\ ~ (i + Len(q) <= Len(q)) /\ (i + Len(q)) - Len(q) = i
    BY <1>1
  <2> QED BY <1>2, <2>1
<1> HIDE DEF c
<1>6. InSeq(c) \subseteq InSeq(q) \cup InSeq(r)
  BY <1>1, <1>3 DEF InSeq
<1>7. InSeq(q) \subseteq InSeq(c) /\ InSeq(r) \subseteq InSeq(c)
  BY <1>1, <1>4, <1>5 DEF InSeq
<1> QED BY <1>1, <1>6, <1>7 DEF c

LEMMA HeadTailElements ==
    ASSUME NEW X, NEW q \in Seq(X), q # <<>>
    PROVE  /\ Head(q) \in X /\ Tail(q) \in Seq(X)
           /\ InSeq(q) = {Head(q)} \cup InSeq(Tail(q))
<1> DEFINE t == Tail(q)
<1>1. /\ t \in Seq(X) /\ Len(q) \in Nat /\ Len(q) >= 1 /\ Len(t) = Len(q) - 1
      /\ DOMAIN q = 1..Len(q) /\ DOMAIN t = 1..Len(t)
      /\ Head(q) = q[1] /\ Head(q) \in X
  OBVIOUS
<1>2. \A i \in 1..Len(t) : t[i] = q[i + 1] /\ i + 1 \in 1..Len(q)
  BY <1>1
<1>3. \A i \in 1..Len(q) : i = 1 \/ (i - 1 \in 1..Len(t) /\ t[i - 1] = q[i])
  <2> TAKE i \in 1..Len(q)
  <2> HIDE DEF t
  <2>1. i = 1 \/ i - 1 \in 1..Len(t)
    BY <1>1
  <2>2. i - 1 \in 1..Len(t) => t[i - 1] = q[(i - 1) + 1]
    BY <1>2
  <2>3. (i - 1) + 1 = i
    OBVIOUS
  <2>4. i - 1 \in 1..Len(t) => t[i - 1] = q[i]
    BY <2>2, <2>3, Zenon
  <2> QED BY <2>1, <2>4
<1> HIDE DEF t
<1>4. InSeq(q) \subseteq {q[1]} \cup InSeq(t)
  BY <1>1, <1>3 DEF InSeq
<1>5. {q[1]} \cup InSeq(t) \subseteq InSeq(q)
  <2>1. 1 \in 1..Len(q)
    BY <1>1
  <2>2. q[1] \in InSeq(q)
    BY <1>1, <2>1 DEF InSeq
  <2>3. ASSUME NEW i \in 1..Len(t) PROVE t[i] \in InSeq(q)
    BY <1>1, <1>2 DEF InSeq
  <2> QED BY <1>1, <2>2, <2>3 DEF InSeq
<1> QED BY <1>1, <1>4, <1>5 DEF t

LEMMA SplitElements ==
    ASSUME NEW X, NEW q \in Seq(X), NEW n \in 0..Len(q)
    PROVE  /\ SubSeq(q, 1, n) \in Seq(X) /\ SubSeq(q, n + 1, Len(q)) \in Seq(X)
           /\ InSeq(q) = InSeq(SubSeq(q, 1, n)) \cup InSeq(SubSeq(q, n + 1, Len(q)))
<1> DEFINE a == SubSeq(q, 1, n)
           z == SubSeq(q, n + 1, Len(q))
<1>1. /\ a \in Seq(X) /\ z \in Seq(X) /\ n \in Nat /\ Len(q) \in Nat /\ n <= Len(q)
      /\ DOMAIN q = 1..Len(q) /\ DOMAIN a = 1..n /\ DOMAIN z = 1..(Len(q) - n)
  OBVIOUS
<1>2. /\ \A i \in 1..n : a[i] = q[i] /\ i \in 1..Len(q)
      /\ \A i \in 1..(Len(q) - n) : z[i] = q[n + i] /\ n + i \in 1..Len(q)
  OBVIOUS
<1>3. \A i \in 1..Len(q) : i \in 1..n \/ (i - n \in 1..(Len(q) - n) /\ n + (i - n) = i)
  BY <1>1
<1> HIDE DEF a, z
<1>4. InSeq(q) \subseteq InSeq(a) \cup InSeq(z)
  <2> SUFFICES ASSUME NEW i \in 1..Len(q) PROVE q[i] \in InSeq(a) \cup InSeq(z)
    BY <1>1 DEF InSeq
  <2>1. CASE i \in 1..n
    BY <1>1, <1>2, <2>1 DEF InSeq
  <2>2. CASE i - n \in 1..(Len(q) - n) /\ n + (i - n) = i
    BY <1>1, <1>2, <2>2 DEF InSeq
  <2> QED BY <1>3, <2>1, <2>2
<1>5. InSeq(a) \cup InSeq(z) \subseteq InSeq(q)
  BY <1>1, <1>2 DEF InSeq
<1> QED BY <1>1, <1>4, <1>5 DEF a, z

\* Kept takes the elements it is told to, and no others.
LEMMA KeptElements ==
ASSUME NEW X, NEW q \in Seq(X), NEW S
    PROVE  /\ Kept(q, S) \in Seq(X)
           /\ InSeq(Kept(q, S)) = InSeq(q) \cap S
<1> DEFINE I == {i \in DOMAIN q : q[i] \in S}
           Upto(i) == {j \in I : j <= i}
           N == Cardinality(I)
           rank == [i \in I |-> Cardinality(Upto(i))]
           nth(k) == CHOOSE i \in I : Cardinality(Upto(i)) = k
<1>1. /\ I \subseteq 1..Len(q) /\ I \subseteq Nat
      /\ \A i \in I : q[i] \in X /\ q[i] \in S
      /\ IsFiniteSet(I) /\ N \in Nat
  <2>1. DOMAIN q = 1..Len(q) /\ Len(q) \in Nat /\ \A i \in 1..Len(q) : q[i] \in X
    OBVIOUS
  <2>2. IsFiniteSet(1..Len(q))
    BY <2>1, FS_Interval
  <2>3. IsFiniteSet(I)
    BY <2>1, <2>2, FS_Subset
  <2> QED BY <2>1, <2>3, FS_CardinalityType
<1>2. \A i \in I : IsFiniteSet(Upto(i)) /\ Cardinality(Upto(i)) \in 1..N
  <2> TAKE i \in I
  <2>1. IsFiniteSet(Upto(i)) /\ Cardinality(Upto(i)) <= N
    BY <1>1, FS_Subset
  <2>2. Upto(i) # {}
    BY <1>1
  <2>3. Cardinality(Upto(i)) \in Nat /\ Cardinality(Upto(i)) # 0
    <3> HIDE DEF Upto
    <3> QED BY <2>1, <2>2, FS_CardinalityType, FS_EmptySet
  <2> QED BY <1>1, <2>1, <2>3
<1>3. \A i, j \in I : i < j => Cardinality(Upto(i)) < Cardinality(Upto(j))
  <2> SUFFICES ASSUME NEW i \in I, NEW j \in I, i < j
               PROVE  Cardinality(Upto(i)) < Cardinality(Upto(j))
    OBVIOUS
  <2>0. j \notin Upto(i)
    BY <1>1
  <2>1. IsFiniteSet(Upto(i))
    <3> HIDE DEF Upto, I
    <3> QED BY <1>2
  <2>2. /\ IsFiniteSet(Upto(i) \cup {j})
        /\ Cardinality(Upto(i) \cup {j}) = Cardinality(Upto(i)) + 1
    <3> HIDE DEF Upto
    <3> QED BY <2>0, <2>1, FS_AddElement
  <2>3. Upto(i) \cup {j} \subseteq Upto(j)
    BY <1>1
  <2> HIDE DEF Upto, I, N
  <2>4. Cardinality(Upto(i) \cup {j}) <= Cardinality(Upto(j))
    BY <1>2, <2>3, FS_Subset
  <2>5. Cardinality(Upto(i)) \in Nat /\ Cardinality(Upto(j)) \in Nat
    BY <1>2
  <2> QED BY <2>2, <2>4, <2>5
<1>4. \A i, j \in I : Cardinality(Upto(i)) = Cardinality(Upto(j)) => i = j
  <2> SUFFICES ASSUME NEW i \in I, NEW j \in I,
                      Cardinality(Upto(i)) = Cardinality(Upto(j)), i # j
               PROVE  FALSE
    OBVIOUS
  <2>1. i < j \/ j < i
    BY <1>1
  <2> HIDE DEF Upto, I, N
  <2>2. Cardinality(Upto(i)) \in Int
    BY <1>2
  <2> QED BY <1>3, <2>1, <2>2
<1>5. rank \in Bijection(I, 1..N)
  <2>1. rank \in Injection(I, 1..N)
    <3>1. rank \in [I -> 1..N]
      BY <1>2
    <3>2. \A i, j \in I : rank[i] = rank[j] => i = j
      BY <1>4
    <3> HIDE DEF rank, I
    <3> QED BY <3>1, <3>2 DEF Injection, IsInjective
  <2>2. IsFiniteSet(1..N) /\ Cardinality(1..N) = N
    BY <1>1, FS_Interval
  <2>3. rank \in Surjection(I, 1..N)
    <3> HIDE DEF rank, I
    <3> QED BY <2>1, <2>2, FS_Injection DEF N
  <2> HIDE DEF rank, I
  <2> QED BY <2>1, <2>3 DEF Bijection
<1>6. \A k \in 1..N : nth(k) \in I
  <2> TAKE k \in 1..N
  <2>1. PICK i \in I : rank[i] = k
    <3> HIDE DEF rank, I
    <3> QED BY <1>5 DEF Bijection, Surjection
  <2> QED BY <2>1
<1>7. \A i \in I : \E k \in 1..N : nth(k) = i
  <2> TAKE i \in I
  <2> HIDE DEF Upto, I, N
  <2>1. Cardinality(Upto(i)) \in 1..N
    BY <1>2
  <2>2. nth(Cardinality(Upto(i))) = i
    BY <1>4
  <2> QED BY <2>1, <2>2
<1>8. Kept(q, S) = [k \in 1..N |-> q[nth(k)]]
  BY DEF Kept
<1>9. Kept(q, S) \in Seq(X)
  <2> HIDE DEF nth, I, N
  <2>1. \A k \in 1..N : q[nth(k)] \in X
    BY <1>1, <1>6
  <2>2. [k \in 1..N |-> q[nth(k)]] \in [1..N -> X]
    BY <2>1
  <2>3. [k \in 1..N |-> q[nth(k)]] \in Seq(X)
    BY <1>1, <2>2
  <2> QED BY <1>8, <2>3
<1>10. InSeq(Kept(q, S)) = {q[i] : i \in I}
  <2> HIDE DEF nth, I, N
  <2> QED BY <1>6, <1>7, <1>8 DEF InSeq
<1> QED BY <1>9, <1>10 DEF InSeq

-------------------------------------------------------------------------------
(* Steps *)

LEMMA InitHolds == Init => IInv
<1> SUFFICES ASSUME Init PROVE IInv
  OBVIOUS
<1>1. LogInv
  <2>1. stamp \in [Sources -> Seq(Nat \ {0})]
    BY LogAssumption DEF Init
  <2> QED BY <2>1 DEF Init, LogInv
<1>2. CursorInv
  <2>1. \A s \in Sources : stamp[s] \in Seq(Nat \ {0})
    BY LogAssumption DEF Init
  <2>2. \A s \in Sources : \A n \in Rows(s) : stamp[s][n] > 0
    BY <2>1 DEF Rows
  <2>3. \A s \in Sources : \A n \in Rows(s) : stamp[s][n] \in Nat
    BY <2>1 DEF Rows
  <2> QED BY <2>2, <2>3 DEF Init, CursorInv, Waiting
<1>3. BankInv /\ PostedInv /\ HandInv
  BY DEF Init, BankInv, PostedInv, HandInv
<1> QED BY <1>1, <1>2, <1>3 DEF IInv

\* What holds of stored rows survives when the server takes more of them.
LEMMA SafeStays ==
    ASSUME stamp' = stamp, stored \subseteq stored'
    PROVE  \A s, n : Safe(s, n) => Safe(s, n)'
BY DEF Safe, SharesItsSecond, Rows

\* Steps that leave the cursors, the bank and the uploads alone.
LEMMA QuietStep ==
    ASSUME IInv, UNCHANGED <<logs, bank, stored, posted, hand>>,
           DOMAIN up' = DOMAIN up,
           \A u \in Uploaders : up'[u] \in {"advance", "set"} => up'[u] = up[u]
    PROVE  IInv'
<1> USE DEF IInv, logs
<1>1. LogInv' /\ CursorInv' /\ BankInv' /\ PostedInv'
  BY DEF LogInv, CursorInv, BankInv, PostedInv, Promise, Safe, SharesItsSecond, Rows,
         Valid, RowsOf
<1>2. HandInv'
  BY DEF HandInv, Safe, SharesItsSecond, Rows, Valid, RowsOf
<1> QED BY <1>1, <1>2

\* A page is banked; nothing else that counts changes.
LEMMA CollectStep ==
    ASSUME IInv, NEW s \in Waiting, NEW then \in PassPlaces, CollectBanked(s, then)
    PROVE  IInv'
<1>0. PICK rows : rows = NextPage(s, written'[s])
  OBVIOUS
<1> DEFINE b == Batch(s, rows)
<1>1. /\ UNCHANGED <<stamp, cursor, stored, posted, hand, up>>
      /\ s \in Sources /\ s # "omp"
  BY DEF CollectBanked, uploading, Waiting
<1>2. /\ written' \in [Sources -> Nat] /\ \A t \in Sources : written'[t] <= Len(stamp[t])
      /\ written'[s] \in Nat /\ written'[s] <= Len(stamp[s])
  <2>1. PICK n \in written[s]..Len(stamp[s]) : written' = [written EXCEPT ![s] = n]
    BY DEF CollectBanked, Written
  <2>2. written[s] \in Nat /\ stamp[s] \in Seq(Nat \ {0})
    BY <1>1, LogAssumption DEF IInv, LogInv
  <2>3. n \in Nat /\ n <= Len(stamp[s])
    BY <2>1, <2>2
  <2> QED BY <1>1, <2>1, <2>3 DEF IInv, LogInv
<1>3. LogInv' /\ CursorInv' /\ PostedInv' /\ HandInv'
  <2>1. LogInv'
    BY <1>1, <1>2 DEF IInv, LogInv
  <2>2. CursorInv'
    BY <1>1 DEF IInv, CursorInv, Safe, SharesItsSecond, Rows
  <2>3. PostedInv'
    BY <1>1 DEF IInv, PostedInv, Valid, RowsOf
  <2>4. HandInv'
    BY <1>1 DEF IInv, HandInv, Safe, SharesItsSecond, Rows, Valid, RowsOf
  <2> QED BY <2>1, <2>2, <2>3, <2>4
<1>4. \A k \in bank : /\ k.to \in Nat
                       /\ (k.batch.source \in Waiting => Valid(k.batch))'
                       /\ Promise(k.batch, k.to)'
  BY <1>1 DEF Valid, IInv, BankInv, Promise, Safe, SharesItsSecond, Rows
<1>5. CASE rows = {}
  <2>1. bank' = bank
    BY <1>0, <1>5 DEF CollectBanked, Batch
  <2>2. BankInv'
    BY <1>4, <2>1 DEF BankInv
  <2> QED BY <1>3, <2>2 DEF IInv
<1>6. CASE rows # {}
  <2>0. PICK to : to = HighWater(s, rows)
    OBVIOUS
  <2>1. bank' \subseteq bank \cup {[batch |-> b, to |-> to]}
    BY <1>0, <1>1, <1>6, <2>0 DEF CollectBanked, Batch, HighWater
  <2>2. /\ Cardinality(rows) <= Page[s] /\ to \in Nat
        /\ \A n \in Rows(s) : stamp[s][n] <= to =>
              n \in rows \/ stamp[s][n] <= cursor[s] \/ SharesItsSecond(s, n)
    <3>1. LogInv
      BY DEF IInv
    <3> QED BY <1>0, <1>1, <1>2, <1>6, <2>0, <3>1, PageOfRows
  <2>3. b.source = s /\ b.rows = rows /\ b.covers = 0
    BY DEF Batch
  <2>4. Valid(b)
    <3>1. LogInv
      BY DEF IInv
    <3> QED BY <1>0, <1>1, <1>2, <1>6, <3>1, PageIsValid
  <2>5. Promise(b, to)'
    <3>1. \A n \in Rows(s) : stamp[s][n] <= to => n \in rows \/ Safe(s, n)
      BY <2>2 DEF IInv, CursorInv, Safe
    <3>2. (\A n \in Rows(s) : stamp[s][n] <= to => n \in rows \/ Safe(s, n))'
      BY <1>1, <3>1 DEF Safe, SharesItsSecond, Rows
    <3> QED BY <2>3, <3>2 DEF Promise
  <2>6. BankInv'
    <3> SUFFICES ASSUME NEW k \in bank'
                 PROVE  (/\ k.to \in Nat
                         /\ k.batch.source \in Waiting => Valid(k.batch)
                         /\ Promise(k.batch, k.to))'
      BY DEF BankInv
    <3>1. CASE k \in bank
      BY <1>4, <3>1
    <3>2. CASE k = [batch |-> b, to |-> to]
      <4>1. k.batch = b /\ k.to = to
        BY <3>2
      <4> HIDE DEF b
      <4> QED BY <2>2, <2>4, <2>5, <4>1 DEF Valid
    <3> QED BY <2>1, <3>1, <3>2
  <2> QED BY <1>3, <2>6 DEF IInv
<1> QED BY <1>5, <1>6

\* OMP's cursor and what is banked for it promise nothing.
LEMMA DrainStep == ASSUME IInv, DrainOmp PROVE IInv'
<1>0. PICK rows : rows = NextPage("omp", written'["omp"])
  OBVIOUS
<1> DEFINE b == Batch("omp", rows)
<1>1. /\ UNCHANGED <<stamp, stored, posted, hand, up>>
      /\ rows # {}
  BY <1>0 DEF DrainOmp, uploading, Batch
<1>2. /\ written' \in [Sources -> Nat] /\ \A t \in Sources : written'[t] <= Len(stamp[t])
      /\ written'["omp"] \in Nat /\ written'["omp"] <= Len(stamp["omp"])
  <2>1. PICK n \in written["omp"]..Len(stamp["omp"]) : written' = [written EXCEPT !["omp"] = n]
    BY DEF DrainOmp, Written
  <2>2. written["omp"] \in Nat /\ stamp["omp"] \in Seq(Nat \ {0})
    BY <1>1, LogAssumption DEF IInv, LogInv
  <2>3. n \in Nat /\ n <= Len(stamp["omp"])
    BY <2>1, <2>2
  <2> QED BY <1>1, <2>1, <2>3 DEF IInv, LogInv
<1>3. PICK to : to = HighWater("omp", rows)
  OBVIOUS
<1>4. to \in Nat
  <2>1. LogInv
    BY DEF IInv
  <2> QED BY <1>0, <1>1, <1>2, <1>3, <2>1, PageOfRows
<1>5. /\ cursor' = [cursor EXCEPT !["omp"] = to]
      /\ bank' = bank \cup {[batch |-> b, to |-> to]}
  BY <1>0, <1>1, <1>3 DEF DrainOmp, Batch, HighWater
<1>6. LogInv' /\ CursorInv' /\ PostedInv' /\ HandInv'
  <2>1. LogInv'
    BY <1>1, <1>2, <1>4, <1>5 DEF IInv, LogInv
  <2>2. CursorInv'
    BY <1>1, <1>5 DEF IInv, LogInv, CursorInv, Waiting, Safe, SharesItsSecond, Rows
  <2>3. PostedInv'
    BY <1>1 DEF IInv, PostedInv, Valid, RowsOf
  <2>4. HandInv'
    BY <1>1 DEF IInv, HandInv, Safe, SharesItsSecond, Rows, Valid, RowsOf
  <2> QED BY <2>1, <2>2, <2>3, <2>4
<1>7. BankInv'
  <2>1. \A k \in bank : /\ k.to \in Nat
                         /\ (k.batch.source \in Waiting => Valid(k.batch))'
                         /\ Promise(k.batch, k.to)'
    BY <1>1 DEF Valid, IInv, BankInv, Promise, Safe, SharesItsSecond, Rows
  <2>2. b.source \notin Waiting
    BY DEF Batch, Waiting
  <2> SUFFICES ASSUME NEW k \in bank'
               PROVE  (/\ k.to \in Nat
                       /\ k.batch.source \in Waiting => Valid(k.batch)
                       /\ Promise(k.batch, k.to))'
    BY DEF BankInv
  <2>3. CASE k \in bank
    BY <2>1, <2>3
  <2>4. CASE k = [batch |-> b, to |-> to]
    <3>1. k.batch = b /\ k.to = to
      BY <2>4
    <3> HIDE DEF b
    <3> QED BY <1>4, <2>2, <3>1 DEF Promise
  <2> QED BY <1>5, <2>3, <2>4
<1> QED BY <1>6, <1>7 DEF IInv

\* The server takes more rows, and an upload may learn which, or end.
LEMMA PostStep == ASSUME IInv, NEW u \in Uploaders, Post(u) PROVE IInv'
<1>1. PICK taken, refused :
        /\ stored' = stored \cup RowsIn(taken)
        /\ \/ /\ posted' = [posted EXCEPT ![u] = Entries(taken, "stored")
                                                   \cup Entries(refused, "refused")]
              /\ up' = up
           \/ /\ up' = [up EXCEPT ![u] = "idle"]
              /\ posted' = [posted EXCEPT ![u] = {}]
  BY DEF Post
<1>2. UNCHANGED <<stamp, written, cursor, bank, hand>> /\ stored \subseteq stored'
  BY <1>1 DEF Post, logs
<1>3. \A s, n : Safe(s, n) => Safe(s, n)'
  BY <1>2, SafeStays
<1>4. LogInv' /\ CursorInv' /\ BankInv'
  BY <1>2, <1>3 DEF IInv, LogInv, CursorInv, BankInv, Promise, Rows, Valid
<1>5. PostedInv'
  <2>1. \A b \in taken : RowsOf(b) \subseteq stored'
    BY <1>1 DEF RowsIn
  <2>2. \A e \in Entries(taken, "stored") : e.batch \in taken /\ e.verdict = "stored"
    BY DEF Entries
  <2>3. \A e \in Entries(refused, "refused") : e.verdict = "refused"
    BY DEF Entries
  <2>4. DOMAIN posted = Uploaders /\ DOMAIN posted' = Uploaders
    BY <1>1 DEF IInv, PostedInv
  <2>5. ASSUME NEW v \in Uploaders, NEW e \in posted'[v]
        PROVE  /\ e.verdict = "stored" => RowsOf(e.batch) \subseteq stored'
               /\ e.verdict = "invalid" => ~Valid(e.batch)
    <3>1. CASE e \in posted[v]
      BY <1>2, <3>1 DEF IInv, PostedInv
    <3>2. CASE e \in Entries(taken, "stored") \cup Entries(refused, "refused")
      BY <2>1, <2>2, <2>3, <3>2
    <3> QED BY <1>1, <2>4, <2>5, <3>1, <3>2
  <2> QED BY <2>4, <2>5 DEF PostedInv, RowsOf, Valid
<1>6. HandInv'
  <2>1. DOMAIN up' = Uploaders
        /\ \A v \in Uploaders : up'[v] \in {"advance", "set"} => up'[v] = up[v]
    BY <1>1 DEF IInv, HandInv
  <2> QED BY <1>2, <1>3, <2>1 DEF IInv, HandInv, Rows, RowsOf, Valid
<1> QED BY <1>4, <1>5, <1>6 DEF IInv

\* The envelope is assembled.
LEMMA ReadStep == ASSUME IInv, NEW u \in Uploaders, ReadPending(u) PROVE IInv'
<1>1. /\ UNCHANGED <<stamp, written, cursor, bank, hand, stored>>
      /\ posted' = [posted EXCEPT ![u] = Entries({b \in Pending : Valid(b)}, "sent")
                                           \cup Entries({b \in Pending : ~Valid(b)}, "invalid")]
      /\ DOMAIN up' = DOMAIN up
      /\ \A v \in Uploaders : up'[v] \in {"advance", "set"} => up'[v] = up[v]
  BY DEF ReadPending, logs, IInv, HandInv
<1>2. LogInv' /\ CursorInv' /\ BankInv' /\ HandInv'
  BY <1>1 DEF IInv, LogInv, CursorInv, BankInv, HandInv, Promise, Safe, SharesItsSecond,
     Rows, Valid, RowsOf
<1>3. PostedInv'
  <2>1. \A e \in Entries({b \in Pending : Valid(b)}, "sent") : e.verdict = "sent"
    BY DEF Entries
  <2>2. \A e \in Entries({b \in Pending : ~Valid(b)}, "invalid") :
          e.verdict = "invalid" /\ ~Valid(e.batch)
    BY DEF Entries
  <2>3. ASSUME NEW v \in Uploaders, NEW e \in posted'[v]
        PROVE  /\ e.verdict = "stored" => RowsOf(e.batch) \subseteq stored'
               /\ e.verdict = "invalid" => ~Valid(e.batch)
    BY <1>1, <2>1, <2>2, <2>3 DEF IInv, PostedInv
  <2>4. DOMAIN posted' = Uploaders
    BY <1>1 DEF IInv, PostedInv
  <2> QED BY <2>3, <2>4 DEF PostedInv, RowsOf, Valid
<1> QED BY <1>2, <1>3 DEF IInv

\* A batch is taken in hand.
LEMMA TakeStep ==
    ASSUME IInv, NEW u \in Uploaders, NEW b, NEW verdict, NEW place,
           Take(u, b, verdict, place), place # "set",
           place = "advance" => verdict \in {"stored", "invalid"},
           UNCHANGED <<logs, bank, stored>>
    PROVE  IInv'
<1> DEFINE e == [batch |-> b, verdict |-> verdict]
<1>1. /\ e \in posted[u]
      /\ posted' = [posted EXCEPT ![u] = @ \ {e}]
      /\ hand' = [hand EXCEPT ![u] = [batch |-> b, to |-> 0]]
      /\ up' = [up EXCEPT ![u] = place]
      /\ UNCHANGED <<stamp, written, cursor, bank, stored>>
  BY DEF Take, logs
<1>2. LogInv' /\ CursorInv' /\ BankInv'
  BY <1>1 DEF IInv, LogInv, CursorInv, BankInv, Promise, Safe, SharesItsSecond, Rows, Valid
<1>3. PostedInv'
  BY <1>1 DEF IInv, PostedInv, RowsOf, Valid
<1>4. place = "advance" => RowsOf(b) \subseteq stored \/ ~Valid(b)
  <2>1. e.verdict = verdict /\ e.batch = b
    OBVIOUS
  <2> HIDE DEF e
  <2> QED BY <1>1, <2>1 DEF IInv, PostedInv
<1>5. HandInv'
  <2>1. /\ DOMAIN hand' = Uploaders /\ DOMAIN up' = Uploaders
        /\ hand'[u].batch = b /\ up'[u] = place
        /\ \A v \in Uploaders \ {u} : hand'[v] = hand[v] /\ up'[v] = up[v]
    BY <1>1 DEF IInv, HandInv
  <2>2. ASSUME NEW v \in Uploaders, up'[v] = "advance"
        PROVE  RowsOf(hand'[v].batch) \subseteq stored' \/ ~Valid(hand'[v].batch)
    BY <1>1, <1>4, <2>1, <2>2 DEF IInv, HandInv
  <2>3. ASSUME NEW v \in Uploaders, up'[v] = "set"
        PROVE  /\ hand'[v].to \in Nat
               /\ hand'[v].batch.source \in Waiting =>
                    \A n \in Rows(hand'[v].batch.source) :
                       stamp[hand'[v].batch.source][n] <= hand'[v].to =>
                          Safe(hand'[v].batch.source, n)
    <3>1. hand'[v] = hand[v] /\ up[v] = "set"
      BY <2>1, <2>3
    <3> QED BY <3>1 DEF IInv, HandInv
  <2>4. \A t, n : Safe(t, n)' = Safe(t, n)
    BY <1>1 DEF Safe, SharesItsSecond, Rows
  <2> QED BY <1>1, <2>1, <2>2, <2>3, <2>4 DEF HandInv, Rows, RowsOf, Valid
<1> QED BY <1>2, <1>3, <1>5 DEF IInv

\* The bank keeps its promise to a batch that is settled.
LEMMA TakeBankedStep == ASSUME IInv, NEW u \in Uploaders, TakeBanked(u) PROVE IInv'
<1> DEFINE b == hand[u].batch
<1>1. /\ UNCHANGED <<stamp, written, cursor, stored, posted>>
      /\ bank' \subseteq bank /\ up[u] = "advance"
      /\ \/ /\ up' = [up EXCEPT ![u] = "settle"]
            /\ hand' = [hand EXCEPT ![u] = EmptyHand]
         \/ \E k \in bank : /\ k.batch = b
                              /\ hand' = [hand EXCEPT ![u] = k]
                              /\ up' = [up EXCEPT ![u] = "set"]
  BY DEF TakeBanked, GoOn, logs
<1>2. LogInv' /\ CursorInv' /\ BankInv' /\ PostedInv'
  BY <1>1 DEF IInv, LogInv, CursorInv, BankInv, PostedInv, Promise, Safe, SharesItsSecond,
     Rows, RowsOf, Valid
<1>3. /\ DOMAIN hand' = Uploaders /\ DOMAIN up' = Uploaders
      /\ \A v \in Uploaders \ {u} : hand'[v] = hand[v] /\ up'[v] = up[v]
      /\ up'[u] # "advance"
  BY <1>1 DEF IInv, HandInv
<1>4. ASSUME up'[u] = "set"
      PROVE  /\ hand'[u].to \in Nat
             /\ hand'[u].batch.source \in Waiting =>
                  \A n \in Rows(hand'[u].batch.source) :
                     stamp[hand'[u].batch.source][n] <= hand'[u].to =>
                        Safe(hand'[u].batch.source, n)
  <2>1. PICK k \in bank : k.batch = b /\ hand'[u] = k
    BY <1>1, <1>4 DEF IInv, HandInv
  <2>2. /\ k.to \in Nat /\ Promise(k.batch, k.to)
        /\ k.batch.source \in Waiting => Valid(k.batch)
    BY DEF IInv, BankInv
  <2>3. RowsOf(k.batch) \subseteq stored \/ ~Valid(k.batch)
    BY <1>1, <2>1 DEF IInv, HandInv
  <2>4. ASSUME k.batch.source \in Waiting, NEW n \in Rows(k.batch.source),
               stamp[k.batch.source][n] <= k.to
        PROVE  Safe(k.batch.source, n)
    BY <2>2, <2>3, <2>4 DEF Promise, Safe, RowsOf
  <2> QED BY <2>1, <2>2, <2>4
<1>5. HandInv'
  BY <1>1, <1>3, <1>4 DEF IInv, HandInv, Safe, SharesItsSecond, Rows, RowsOf, Valid
<1> QED BY <1>2, <1>5 DEF IInv

\* An upload goes on to its next batch.
LEMMA GoOnStep ==
    ASSUME IInv, NEW u \in Uploaders, GoOn(u), UNCHANGED <<logs, bank, stored, posted>>
    PROVE  IInv'
<1>1. /\ UNCHANGED <<stamp, written, cursor, bank, stored, posted>>
      /\ up' = [up EXCEPT ![u] = "settle"]
      /\ hand' = [hand EXCEPT ![u] = EmptyHand]
  BY DEF GoOn, logs
<1>2. LogInv' /\ CursorInv' /\ BankInv' /\ PostedInv'
  BY <1>1 DEF IInv, LogInv, CursorInv, BankInv, PostedInv, Promise, Safe, SharesItsSecond,
     Rows, RowsOf, Valid
<1>3. HandInv'
  BY <1>1 DEF IInv, HandInv, Safe, SharesItsSecond, Rows, RowsOf, Valid
<1> QED BY <1>2, <1>3 DEF IInv

\* The value taken becomes the cursor.
LEMMA SetCursorStep == ASSUME IInv, NEW u \in Uploaders, SetCursor(u) PROVE IInv'
<1> DEFINE s == hand[u].batch.source
<1>1. /\ UNCHANGED <<stamp, written, bank, stored, posted>>
      /\ up[u] = "set" /\ cursor' = [cursor EXCEPT ![s] = hand[u].to]
      /\ up' = [up EXCEPT ![u] = "settle"]
      /\ hand' = [hand EXCEPT ![u] = EmptyHand]
  BY DEF SetCursor, GoOn
<1>2. /\ hand[u].to \in Nat
      /\ s \in Waiting => \A n \in Rows(s) : stamp[s][n] <= hand[u].to => Safe(s, n)
  BY <1>1 DEF IInv, HandInv
<1>3. LogInv' /\ BankInv' /\ PostedInv' /\ HandInv'
  <2>1. LogInv'
    <3>1. cursor' \in [Sources -> Nat]
      <4> HIDE DEF s
      <4> QED BY <1>1, <1>2 DEF IInv, LogInv
    <3> QED BY <1>1, <3>1 DEF IInv, LogInv
  <2>2. BankInv' /\ PostedInv'
    BY <1>1 DEF IInv, BankInv, PostedInv, Promise, Safe, SharesItsSecond, Rows, RowsOf, Valid
  <2>3. HandInv'
    BY <1>1 DEF IInv, HandInv, Safe, SharesItsSecond, Rows, RowsOf, Valid
  <2> QED BY <2>1, <2>2, <2>3
<1>4. CursorInv'
  <2> SUFFICES ASSUME NEW t \in Waiting, NEW n \in Rows(t), stamp[t][n] <= cursor'[t]
               PROVE  Safe(t, n)
    BY <1>1 DEF CursorInv, Safe, SharesItsSecond, Rows
  <2>1. t \in Sources /\ DOMAIN cursor = Sources
    BY DEF Waiting, IInv, LogInv
  <2>2. CASE t = s
    BY <1>1, <1>2, <2>1, <2>2
  <2>3. CASE t # s
    BY <1>1, <2>1, <2>3 DEF IInv, CursorInv
  <2> QED BY <2>2, <2>3
<1> QED BY <1>3, <1>4 DEF IInv

LEMMA DieStep == ASSUME IInv, Die PROVE IInv'
<1>1. UNCHANGED <<stamp, written, cursor, bank, stored>>
  BY DEF Die, logs
<1>2. LogInv' /\ CursorInv' /\ BankInv'
  BY <1>1 DEF IInv, LogInv, CursorInv, BankInv, Promise, Safe, SharesItsSecond, Rows, Valid
<1>3. PostedInv' /\ HandInv'
  BY DEF Die, PostedInv, HandInv
<1> QED BY <1>2, <1>3 DEF IInv

LEMMA StepHolds == IInv /\ [Next]_vars => IInv'
<1> SUFFICES ASSUME IInv, [Next]_vars PROVE IInv'
  OBVIOUS
<1>1. DOMAIN up = Uploaders
  BY DEF IInv, HandInv
<1>2. CASE LoopCollects
  BY <1>2, QuietStep DEF LoopCollects, uploading
<1>3. CASE PassStep
  <2>1. CASE CollectNative
    BY <2>1, CollectStep DEF CollectNative, Waiting, PassPlaces
  <2>2. CASE CollectHarness
    BY <2>2, CollectStep DEF CollectHarness, Waiting, PassPlaces
  <2>3. CASE DrainOmp
    BY <2>3, DrainStep
  <2>4. CASE OmpDrained \/ OmpFails \/ Beat \/ Persist
    BY <2>4, QuietStep DEF OmpDrained, OmpFails, Beat, Persist, uploading
  <2>5. ASSUME PassEnds, UNCHANGED <<logs, bank, stored>> PROVE IInv'
    BY <1>1, <2>5, QuietStep DEF PassEnds
  <2>6. CASE TrimSpool
    <3>1. UNCHANGED <<logs, bank, stored>>
      BY <2>6 DEF TrimSpool
    <3>2. PassEnds \/ UNCHANGED uploading
      BY <2>6 DEF TrimSpool
    <3> QED BY <2>5, <3>1, <3>2, QuietStep DEF uploading
  <2>7. CASE MarkGap
    BY <2>5, <2>7 DEF MarkGap
  <2>8. CASE PassFails
    BY <2>5, <2>8 DEF PassFails
  <2> QED BY <1>3, <2>1, <2>2, <2>3, <2>4, <2>6, <2>7, <2>8 DEF PassStep
<1>4. CASE BeginExit
  BY <1>1, <1>4, QuietStep DEF BeginExit
<1>5. ASSUME NEW u \in Uploaders, UploadStep(u) PROVE IInv'
  <2>1. CASE UploadCollects(u)
    BY <1>1, <2>1, QuietStep DEF UploadCollects
  <2>2. CASE ReadPending(u)
    BY <2>2, ReadStep
  <2>3. CASE Post(u)
    BY <2>3, PostStep
  <2>4. CASE Discard(u)
    <3>1. PICK verdict \in {"stored", "invalid"} :
            \E b : Take(u, b, verdict, "advance")
      BY <2>4 DEF Discard
    <3>2. PICK b : Take(u, b, verdict, "advance")
      BY <3>1
    <3> QED BY <2>4, <3>2, TakeStep DEF Discard
  <2>5. CASE Quarantine(u)
    <3>1. PICK b : Take(u, b, "refused", "unspool")
      BY <2>5 DEF Quarantine
    <3> QED BY <2>5, <3>1, TakeStep DEF Quarantine
  <2>6. CASE Unspool(u)
    <3>1. GoOn(u) /\ UNCHANGED <<logs, bank, stored, posted>>
      BY <2>6 DEF Unspool
    <3> QED BY <3>1, GoOnStep
  <2>7. CASE TakeBanked(u)
    BY <2>7, TakeBankedStep
  <2>8. CASE SetCursor(u)
    BY <2>8, SetCursorStep
  <2>9. CASE EndRound(u)
    BY <1>1, <2>9, QuietStep DEF EndRound
  <2> QED BY <1>5, <2>1, <2>2, <2>3, <2>4, <2>5, <2>6, <2>7, <2>8, <2>9 DEF UploadStep
<1>6. CASE EndExit \/ Die
  BY <1>6, DieStep DEF EndExit
<1>7. CASE UNCHANGED vars
  BY <1>7, QuietStep DEF vars, logs, uploading
<1> QED BY <1>2, <1>3, <1>4, <1>5, <1>6, <1>7 DEF Next

\* A cursor that moves on acceptance steps over nothing the server has not got,
\* rows of one second apart.
THEOREM CursorIsSafe == Spec => []CursorWaitsForAcceptance
<1>1. IInv => CursorWaitsForAcceptance
  <2> SUFFICES ASSUME IInv, NEW s \in Sources \ {"omp"}, NEW n \in 1..written[s],
                      stamp[s][n] <= cursor[s]
               PROVE  <<s, n>> \in stored \/ SharesItsSecond(s, n)
    BY DEF CursorWaitsForAcceptance
  <2>1. stamp[s] \in Seq(Nat \ {0}) /\ written[s] \in Nat /\ written[s] <= Len(stamp[s])
    BY LogAssumption DEF IInv, LogInv
  <2>2. n \in Rows(s)
    BY <2>1 DEF Rows
  <2> QED BY <2>2 DEF IInv, CursorInv, Waiting, Safe
<1> QED BY <1>1, InitHolds, StepHolds, PTL DEF Spec

-------------------------------------------------------------------------------
(* Types *)

\* Batches of rows the log has.
LoggedBatches == {b \in Batches : b.rows \subseteq Rows(b.source)}

\* Batches, wherever they are.
StockInv == /\ bank \subseteq [batch : LoggedBatches, to : Nat]
            /\ spool \in Seq(LoggedBatches) /\ held \in Seq(LoggedBatches)
            /\ quarantine \subseteq LoggedBatches
            /\ posted \in [Uploaders -> SUBSET [batch : LoggedBatches, verdict : Verdicts]]
            /\ hand \in [Uploaders -> [batch : LoggedBatches \cup {NoBatch}, to : Nat]]

\* Rows, wherever they are.
RowsInv == gap \cup dropped \cup stored \cup trimmed \cup lost \subseteq AllRows

\* Everything else.
PlaceInv == /\ beats \in Nat /\ counting \in BOOLEAN
            /\ pass \in PassPlaces /\ owner \in Uploaders \cup {"loop"}
            /\ up \in [Uploaders -> UploadPlaces] /\ last \in [Uploaders -> BOOLEAN]
            /\ exiting \in BOOLEAN
            /\ trouble \in 0..MaxTrouble[stamp] /\ deaths \in 0..MaxDeaths

TypeInv == StockInv /\ RowsInv /\ PlaceInv

LEMMA LogShape ==
    ASSUME LogInv
    PROVE  /\ stamp \in [Sources -> Seq(Nat \ {0})]
           /\ \A s \in Sources : Rows(s) = 1..Len(stamp[s]) /\ Len(stamp[s]) \in Nat
           /\ \A s \in Sources : Rows(s) \subseteq Nat
           /\ \A n \in Rows("omp") : stamp["omp"][n] = n
           /\ MaxTrouble[stamp] \in Nat
<1>1. stamp \in Logs
  BY DEF LogInv
<1>2. stamp \in [Sources -> Seq(Nat \ {0})] /\ \A n \in DOMAIN stamp["omp"] : stamp["omp"][n] = n
  BY <1>1, LogAssumption
<1>3. MaxTrouble[stamp] \in Nat
  BY <1>1, BoundAssumption
<1>4. \A s \in Sources : Rows(s) = 1..Len(stamp[s]) /\ Len(stamp[s]) \in Nat
  <2> TAKE s \in Sources
  <2>1. stamp[s] \in Seq(Nat \ {0})
    BY <1>2
  <2> QED BY <2>1 DEF Rows
<1> QED BY <1>2, <1>3, <1>4 DEF Rows

\* The log is settled from the start.
LEMMA LogStays == ASSUME Next PROVE stamp' = stamp
<1>1. LoopCollects => stamp' = stamp
  BY DEF LoopCollects, logs
<1>2. PassStep => stamp' = stamp
  BY DEF PassStep, CollectNative, CollectHarness, CollectBanked, DrainOmp, OmpDrained,
     OmpFails, Beat, Persist, TrimSpool, MarkGap, PassFails, logs
<1>3. BeginExit \/ EndExit \/ Die => stamp' = stamp
  BY DEF BeginExit, EndExit, Die, logs
<1>4. ASSUME NEW u \in Uploaders, UploadStep(u) PROVE stamp' = stamp
  BY <1>4 DEF UploadStep, UploadCollects, ReadPending, Post, Discard, Quarantine, Unspool,
     TakeBanked, SetCursor, EndRound, logs
<1> QED BY <1>1, <1>2, <1>3, <1>4 DEF Next

LEMMA SameLog ==
    ASSUME stamp' = stamp
    PROVE  LoggedBatches' = LoggedBatches /\ AllRows' = AllRows
BY DEF LoggedBatches, Batches, AllRows, Rows

LEMMA RowsOfLogged ==
    ASSUME NEW bs \in SUBSET LoggedBatches
    PROVE  RowsIn(bs) \subseteq AllRows /\ UNION {b.gap : b \in bs} \subseteq AllRows
<1>1. ASSUME NEW b \in bs PROVE RowsOf(b) \subseteq AllRows /\ b.gap \subseteq AllRows
  <2>1. b.source \in Sources /\ b.rows \subseteq Rows(b.source) /\ b.gap \subseteq AllRows
    BY DEF LoggedBatches, Batches
  <2> QED BY <2>1 DEF RowsOf, AllRows
<1> QED BY <1>1 DEF RowsIn

\* A page makes a batch.
LEMMA PageIsLogged ==
    ASSUME LogInv, NEW s \in Sources, NEW have \in Nat, have <= Len(stamp[s])
    PROVE  /\ Batch(s, NextPage(s, have)) \in LoggedBatches
           /\ Batch(s, NextPage(s, have)).rows = NextPage(s, have)
           /\ Batch(s, NextPage(s, have)).source = s
           /\ NextPage(s, have) # {} => HighWater(s, NextPage(s, have)) \in Nat
<1>1. NextPage(s, have) \subseteq Rows(s) /\ Rows(s) \subseteq Nat
  <2>1. NextPage(s, have) \subseteq 1..have
    BY DEF NextPage, Unread
  <2>2. Rows(s) = 1..Len(stamp[s]) /\ Len(stamp[s]) \in Nat
    BY LogShape
  <2> QED BY <2>1, <2>2
<1>2. Batch(s, NextPage(s, have)) \in Batches
  BY <1>1 DEF Batch, Batches
<1>3. /\ Batch(s, NextPage(s, have)).rows = NextPage(s, have)
      /\ Batch(s, NextPage(s, have)).source = s
  BY DEF Batch
<1> QED BY <1>1, <1>2, <1>3, PageOfRows DEF LoggedBatches

\* Coverage rows leave the other sources' batches alone.
LEMMA CoverageElements ==
    ASSUME LogInv, NEW q \in Seq(LoggedBatches), NEW covers \in Nat,
           NEW declared \in SUBSET AllRows, beats \in Nat
    PROVE  /\ WithCoverage(q, covers, declared) \in Seq(LoggedBatches)
           /\ OfOmp(InSeq(WithCoverage(q, covers, declared))) = OfOmp(InSeq(q))
<1>1. CASE covers = 0
  BY <1>1 DEF WithCoverage
<1>2. CASE covers # 0
  <2> DEFINE native == {b \in InSeq(q) : b.source = "native"}
             merged == [source |-> "native", rows |-> UNION {b.rows : b \in native},
                        beat |-> beats + 1, covers |-> covers, gap |-> declared]
             others == Kept(q, InSeq(q) \ native)
  <2>1. UNION {b.rows : b \in native} \subseteq Rows("native") /\ Rows("native") \subseteq Nat
    <3>1. InSeq(q) \subseteq LoggedBatches
      BY SeqElements
    <3>2. \A b \in native : b.rows \subseteq Rows("native")
      BY <3>1 DEF LoggedBatches
    <3>3. Rows("native") \subseteq Nat
      BY LogShape
    <3> QED BY <3>2, <3>3
  <2>2. merged \in LoggedBatches /\ merged.source = "native"
    <3> DEFINE rows == UNION {b.rows : b \in native}
    <3>1. rows \subseteq Rows("native") /\ rows \in SUBSET Nat
      BY <2>1
    <3>2. beats + 1 \in Nat
      OBVIOUS
    <3> HIDE DEF rows
    <3> QED BY <3>1, <3>2 DEF LoggedBatches, Batches, rows
  <2>3. others \in Seq(LoggedBatches) /\ InSeq(others) = InSeq(q) \cap (InSeq(q) \ native)
    BY KeptElements
  <2>4. WithCoverage(q, covers, declared) = Append(others, merged)
    BY <1>2 DEF WithCoverage
  <2>5. /\ Append(others, merged) \in Seq(LoggedBatches)
        /\ InSeq(Append(others, merged)) = InSeq(others) \cup {merged}
    <3> HIDE DEF others, merged
    <3> QED BY <2>2, <2>3, AppendElements
  <2>6. OfOmp(InSeq(others) \cup {merged}) = OfOmp(InSeq(q))
    <3> HIDE DEF others, merged
    <3>1. ASSUME NEW b \in InSeq(q), b.source = "omp" PROVE b \in InSeq(others)
      BY <2>3, <3>1
    <3>2. InSeq(others) \subseteq InSeq(q)
      BY <2>3
    <3> QED BY <2>2, <3>1, <3>2 DEF OfOmp
  <2> QED BY <2>4, <2>5, <2>6
<1> QED BY <1>1, <1>2

LEMMA PlaceStep ==
    ASSUME IInv, PlaceInv, [Next]_vars
    PROVE  PlaceInv'
<1> USE DEF PlaceInv, PassPlaces, UploadPlaces
<1>1. MaxTrouble[stamp] \in Nat /\ MaxDeaths \in Nat
  BY LogShape, BoundAssumption DEF IInv
<1>2. stamp' = stamp
  BY LogStays DEF vars, logs
<1>3. CASE LoopCollects
  BY <1>2, <1>3 DEF LoopCollects, BeginPass, coverage, uploading, bounds
<1>4. CASE PassStep
  <2>1. CASE CollectNative \/ CollectHarness
    BY <1>2, <2>1 DEF CollectNative, CollectHarness, CollectBanked, coverage, uploading, bounds
  <2>2. CASE DrainOmp \/ OmpDrained \/ Persist
    BY <1>2, <2>2 DEF DrainOmp, OmpDrained, Persist, coverage, uploading, bounds
  <2>3. CASE OmpFails
    BY <1>1, <1>2, <2>3 DEF OmpFails, coverage, uploading
  <2>4. CASE Beat
    BY <1>2, <2>4 DEF Beat, uploading, bounds
  <2>5. CASE TrimSpool
    <3>1. UNCHANGED <<coverage, exiting, bounds>>
      BY <2>5 DEF TrimSpool
    <3>2. PassEnds \/ (pass' = "mark" /\ UNCHANGED <<owner, uploading>>)
      BY <2>5 DEF TrimSpool
    <3> QED BY <1>2, <3>1, <3>2 DEF PassEnds, coverage, uploading, bounds
  <2>6. CASE MarkGap
    BY <1>2, <2>6 DEF MarkGap, PassEnds, bounds
  <2>7. CASE PassFails
    BY <1>1, <1>2, <2>7 DEF PassFails, PassEnds, coverage
  <2> QED BY <1>4, <2>1, <2>2, <2>3, <2>4, <2>5, <2>6, <2>7 DEF PassStep
<1>5. CASE BeginExit
  <2>1. /\ exiting' = TRUE /\ beats' = beats + 1 /\ counting' = FALSE
        /\ up' = [up EXCEPT !["exit"] = "collect"]
        /\ UNCHANGED <<pass, owner, last, trouble, deaths>>
    BY <1>5 DEF BeginExit, collecting, bounds
  <2>2. up' \in [Uploaders -> UploadPlaces]
    BY <2>1
  <2>3. beats' \in Nat /\ trouble' \in 0..MaxTrouble[stamp'] /\ deaths' \in 0..MaxDeaths
    BY <1>2, <2>1
  <2> QED BY <2>1, <2>2, <2>3
<1>6. ASSUME NEW u \in Uploaders, UploadStep(u) PROVE PlaceInv'
  <2>1. CASE UploadCollects(u)
    BY <1>2, <2>1 DEF UploadCollects, BeginPass, collecting, coverage, bounds
  <2>2. CASE ReadPending(u)
    BY <1>2, <2>2 DEF ReadPending, collecting, coverage, bounds
  <2>3. CASE Post(u)
    <3>1. /\ trouble' \in {trouble, trouble + 1} /\ trouble' <= MaxTrouble[stamp]
          /\ UNCHANGED <<coverage, collecting, exiting, deaths>>
          /\ up' = up \/ up' = [up EXCEPT ![u] = "idle"]
          /\ last' = last \/ last' \in {[last EXCEPT ![u] = TRUE], [last EXCEPT ![u] = FALSE]}
      BY <2>3 DEF Post
    <3>2. trouble' \in 0..MaxTrouble[stamp]
      BY <1>1, <3>1
    <3>3. up' \in [Uploaders -> UploadPlaces] /\ last' \in [Uploaders -> BOOLEAN]
      BY <3>1
    <3> QED BY <1>2, <3>1, <3>2, <3>3 DEF collecting, coverage
  <2>4. CASE Discard(u)
    <3>1. up' = [up EXCEPT ![u] = "advance"]
      BY <2>4 DEF Discard, Take
    <3> QED BY <1>2, <2>4, <3>1 DEF Discard, collecting, coverage, bounds
  <2>5. CASE Quarantine(u)
    <3>1. up' = [up EXCEPT ![u] = "unspool"]
      BY <2>5 DEF Quarantine, Take
    <3> QED BY <1>2, <2>5, <3>1 DEF Quarantine, collecting, coverage, bounds
  <2>6. CASE Unspool(u)
    BY <1>2, <2>6 DEF Unspool, GoOn, collecting, coverage, bounds
  <2>7. CASE TakeBanked(u)
    <3>1. /\ up' \in {[up EXCEPT ![u] = "set"], [up EXCEPT ![u] = "settle"]}
          /\ UNCHANGED <<coverage, collecting, last, exiting, bounds>>
      BY <2>7 DEF TakeBanked, GoOn
    <3> QED BY <1>2, <3>1 DEF collecting, coverage, bounds
  <2>8. CASE SetCursor(u)
    BY <1>2, <2>8 DEF SetCursor, GoOn, collecting, coverage, bounds
  <2>9. CASE EndRound(u)
    BY <1>2, <2>9 DEF EndRound, collecting, coverage, bounds
  <2> QED BY <1>6, <2>1, <2>2, <2>3, <2>4, <2>5, <2>6, <2>7, <2>8, <2>9 DEF UploadStep
<1>7. CASE EndExit \/ Die
  <2>1. /\ deaths < MaxDeaths /\ deaths' = deaths + 1
        /\ exiting' = FALSE /\ pass' = "idle" /\ owner' = "loop"
        /\ up' = [u \in Uploaders |-> "idle"] /\ last' = [u \in Uploaders |-> FALSE]
        /\ UNCHANGED <<beats, counting, trouble>>
    BY <1>7 DEF EndExit, Die, coverage
  <2>2. deaths' \in 0..MaxDeaths
    BY <1>1, <2>1
  <2> QED BY <1>2, <2>1, <2>2
<1>8. CASE UNCHANGED vars
  BY <1>8 DEF vars, logs, coverage, collecting, uploading, bounds
<1> QED BY <1>3, <1>4, <1>5, <1>6, <1>7, <1>8 DEF Next

\* What a pass makes of the batches and the rows.
LEMMA PassTypes ==
    ASSUME IInv, TypeInv, PassStep, stamp' = stamp
    PROVE  StockInv' /\ RowsInv'
<1> USE DEF StockInv, RowsInv
<1>1. LoggedBatches' = LoggedBatches /\ AllRows' = AllRows
  BY SameLog
<1>2. /\ InSeq(held) \subseteq LoggedBatches /\ InSeq(spool) \subseteq LoggedBatches
      /\ LogInv /\ beats \in Nat
  BY SeqElements DEF TypeInv, IInv, PlaceInv
<1>3. \A bs \in SUBSET LoggedBatches : RowsIn(bs) \subseteq AllRows
  BY RowsOfLogged
<1>4. ASSUME PassEnds, UNCHANGED <<bank, spool, quarantine, stored>>,
             gap' \cup trimmed' \cup lost' \subseteq AllRows
      PROVE  StockInv' /\ RowsInv'
  BY <1>1, <1>4 DEF TypeInv, PassEnds
<1>5. ASSUME NEW s \in Sources, CollectBanked(s, "omp") \/ CollectBanked(s, "beat")
      PROVE  StockInv' /\ RowsInv'
  <2> DEFINE b == Batch(s, NextPage(s, written'[s]))
  <2>1. PICK n \in written[s]..Len(stamp[s]) : written' = [written EXCEPT ![s] = n]
    BY <1>5 DEF CollectBanked, Written
  <2>2. written'[s] \in Nat /\ written'[s] <= Len(stamp[s])
    <3>1. written[s] \in Nat /\ Len(stamp[s]) \in Nat /\ DOMAIN written = Sources
      BY <1>2, LogShape DEF LogInv
    <3> QED BY <2>1, <3>1
  <2>3. /\ b \in LoggedBatches /\ b.rows = NextPage(s, written'[s])
        /\ NextPage(s, written'[s]) # {} => HighWater(s, NextPage(s, written'[s])) \in Nat
    BY <1>2, <2>2, PageIsLogged
  <2>4. /\ UNCHANGED <<stamp, spool, quarantine, gap, dropped, posted, hand, stored, trimmed, lost>>
        /\ \/ UNCHANGED <<bank, held>>
           \/ /\ b.rows # {}
              /\ bank' = {k \in bank : k.batch # b}
                           \cup {[batch |-> b, to |-> HighWater(s, b.rows)]}
              /\ held' = Append(held, b)
    BY <1>5 DEF CollectBanked, coverage, uploading, history
  <2> HIDE DEF b
  <2>5. held' \in Seq(LoggedBatches)
    <3>1. Append(held, b) \in Seq(LoggedBatches) /\ held \in Seq(LoggedBatches)
      BY <2>3, AppendElements DEF TypeInv
    <3> QED BY <2>4, <3>1
  <2>6. bank' \subseteq [batch : LoggedBatches, to : Nat]
    BY <2>3, <2>4 DEF TypeInv
  <2> QED BY <1>1, <2>4, <2>5, <2>6 DEF TypeInv
<1>6. CASE CollectNative \/ CollectHarness
  BY <1>5, <1>6 DEF CollectNative, CollectHarness
<1>7. CASE DrainOmp
  <2> DEFINE b == Batch("omp", NextPage("omp", written'["omp"]))
  <2>1. PICK n \in written["omp"]..Len(stamp["omp"]) : written' = [written EXCEPT !["omp"] = n]
    BY <1>7 DEF DrainOmp, Written
  <2>2. written'["omp"] \in Nat /\ written'["omp"] <= Len(stamp["omp"])
    <3>1. written["omp"] \in Nat /\ Len(stamp["omp"]) \in Nat /\ DOMAIN written = Sources
      BY <1>2, LogShape DEF LogInv
    <3> QED BY <2>1, <3>1
  <2>3. /\ b \in LoggedBatches /\ b.rows = NextPage("omp", written'["omp"])
        /\ NextPage("omp", written'["omp"]) # {} =>
             HighWater("omp", NextPage("omp", written'["omp"])) \in Nat
    BY <1>2, <2>2, PageIsLogged
  <2>4. /\ UNCHANGED <<spool, quarantine, gap, dropped, posted, hand, stored, trimmed, lost>>
        /\ b.rows # {}
        /\ bank' = bank \cup {[batch |-> b, to |-> HighWater("omp", b.rows)]}
        /\ held' = Append(held, b)
    BY <1>7 DEF DrainOmp, coverage, uploading, history
  <2> HIDE DEF b
  <2>5. held' \in Seq(LoggedBatches)
    BY <2>3, <2>4, AppendElements DEF TypeInv
  <2>6. bank' \subseteq [batch : LoggedBatches, to : Nat]
    BY <2>3, <2>4 DEF TypeInv
  <2> QED BY <1>1, <2>4, <2>5, <2>6 DEF TypeInv
<1>8. CASE OmpDrained
  BY <1>1, <1>8 DEF OmpDrained, TypeInv, coverage, uploading, history
<1>9. CASE OmpFails
  <2>1. OfOmp(InSeq(held)) \subseteq LoggedBatches
    BY <1>2 DEF OfOmp
  <2>2. lost' \subseteq AllRows
    BY <1>3, <1>9, <2>1 DEF OmpFails, TypeInv
  <2>3. held' \in Seq(LoggedBatches)
    BY <1>9, KeptElements DEF OmpFails, TypeInv
  <2> QED BY <1>1, <1>9, <2>2, <2>3 DEF OmpFails, TypeInv, coverage, uploading
<1>10. CASE Beat
  <2>1. PICK covers \in Nat, declared \in SUBSET AllRows :
          held' = WithCoverage(held, covers, declared)
    <3>1. Intervals \in Nat /\ gap \in SUBSET AllRows /\ {} \in SUBSET AllRows
      BY BoundAssumption DEF TypeInv
    <3>2. CASE counting
      <4>1. Intervals + (IF gap = {} THEN 0 ELSE 1) \in Nat
        BY <3>1
      <4> QED BY <1>10, <3>1, <3>2, <4>1 DEF Beat
    <3>3. CASE ~counting
      BY <1>10, <3>1, <3>3 DEF Beat
    <3> QED BY <3>2, <3>3
  <2>2. held' \in Seq(LoggedBatches)
    BY <1>2, <2>1, CoverageElements DEF TypeInv
  <2>3. gap' \subseteq AllRows
    BY <1>10 DEF Beat, TypeInv
  <2> QED BY <1>1, <1>10, <2>2, <2>3 DEF Beat, TypeInv, uploading, history
<1>11. CASE Persist
  <2>1. Head(held) \in LoggedBatches /\ held' \in Seq(LoggedBatches)
    BY <1>11, HeadTailElements DEF Persist, TypeInv
  <2>2. spool' \in Seq(LoggedBatches)
    BY <1>11, <2>1, AppendElements DEF Persist, Spooled, TypeInv
  <2> QED BY <1>1, <1>11, <2>1, <2>2 DEF Persist, TypeInv, coverage, uploading, history
<1>12. CASE TrimSpool
  <2> DEFINE excess == Len(spool) - SpoolCap
             old == InSeq(SubSeq(spool, 1, excess))
  <2>1. CASE PassEnds /\ UNCHANGED <<spool, trimmed>>
    <3>1. UNCHANGED <<bank, quarantine, gap, stored, lost>>
      BY <1>12 DEF TrimSpool, coverage
    <3> QED BY <1>4, <2>1, <3>1 DEF TypeInv
  <2>2. CASE /\ excess > 0
             /\ spool' = SubSeq(spool, excess + 1, Len(spool))
             /\ dropped' = RowsIn(old) \cup UNION {b.gap : b \in old}
             /\ trimmed' = trimmed \cup RowsIn(old)
             /\ UNCHANGED <<held, uploading>>
    <3>1. excess \in 0..Len(spool)
      BY <2>2, BoundAssumption DEF TypeInv
    <3>2. /\ spool' \in Seq(LoggedBatches)
          /\ SubSeq(spool, 1, excess) \in Seq(LoggedBatches)
      <4> HIDE DEF excess
      <4> QED BY <2>2, <3>1, SplitElements DEF TypeInv
    <3>3. old \subseteq LoggedBatches
      <4> HIDE DEF excess
      <4> QED BY <3>2, SeqElements
    <3>4. RowsIn(old) \subseteq AllRows /\ UNION {b.gap : b \in old} \subseteq AllRows
      <4> HIDE DEF old
      <4> QED BY <3>3, RowsOfLogged
    <3>5. UNCHANGED <<bank, quarantine, gap, posted, hand, stored, lost>>
      BY <1>12, <2>2 DEF TrimSpool, coverage, uploading
    <3> HIDE DEF old, excess
    <3> QED BY <1>1, <2>2, <3>2, <3>4, <3>5 DEF TypeInv
  <2> QED BY <1>12, <2>1, <2>2 DEF TrimSpool
<1>13. CASE MarkGap
  BY <1>4, <1>13 DEF MarkGap, TypeInv, history
<1>14. CASE PassFails
  <2>1. OfOmp(InSeq(held)) \subseteq LoggedBatches
    BY <1>2 DEF OfOmp
  <2>2. lost' \subseteq AllRows
    BY <1>3, <1>14, <2>1 DEF PassFails, TypeInv
  <2> QED BY <1>4, <1>14, <2>2 DEF PassFails, TypeInv, coverage
<1> QED BY <1>6, <1>7, <1>8, <1>9, <1>10, <1>11, <1>12, <1>13, <1>14 DEF PassStep

\* What the uploads make of them.
LEMMA UploadTypes ==
    ASSUME IInv, TypeInv, NEW u \in Uploaders, UploadStep(u), stamp' = stamp
    PROVE  StockInv' /\ RowsInv'
<1> USE DEF StockInv, RowsInv
<1>1. LoggedBatches' = LoggedBatches /\ AllRows' = AllRows
  BY SameLog
<1>2. InSeq(spool) \subseteq LoggedBatches
  BY SeqElements DEF TypeInv
<1>3. ASSUME NEW bs \in SUBSET LoggedBatches, NEW verdict \in Verdicts
      PROVE  Entries(bs, verdict) \in SUBSET [batch : LoggedBatches, verdict : Verdicts]
  BY DEF Entries
<1>4. ASSUME NEW verdict PROVE With(u, {verdict}) \subseteq LoggedBatches
  BY DEF TypeInv, With
<1>5. ASSUME NEW b \in LoggedBatches \cup {NoBatch}, NEW to \in Nat,
             hand' = [hand EXCEPT ![u] = [batch |-> b, to |-> to]]
      PROVE  hand' \in [Uploaders -> [batch : LoggedBatches \cup {NoBatch}, to : Nat]]
  BY <1>5 DEF TypeInv
<1>6. GoOn(u) => hand' \in [Uploaders -> [batch : LoggedBatches \cup {NoBatch}, to : Nat]]
  BY <1>5 DEF GoOn, EmptyHand
<1>7. CASE UploadCollects(u)
  BY <1>1, <1>7 DEF UploadCollects, BeginPass, TypeInv, coverage, collecting, history
<1>8. CASE ReadPending(u)
  <2>1. Pending \subseteq LoggedBatches
    <3> SUFFICES ASSUME NEW b \in Pending PROVE b \in LoggedBatches
      OBVIOUS
    <3>1. PICK S : b = Head(Kept(spool, S)) /\ S \subseteq InSeq(spool) /\ S # {}
      BY DEF Pending
    <3>2. Kept(spool, S) \in Seq(LoggedBatches) /\ InSeq(Kept(spool, S)) = S
      <4>1. /\ Kept(spool, S) \in Seq(LoggedBatches)
            /\ InSeq(Kept(spool, S)) = InSeq(spool) \cap S
        BY KeptElements DEF TypeInv
      <4> QED BY <3>1, <4>1
    <3>3. Kept(spool, S) # <<>>
      BY <3>1, <3>2 DEF InSeq
    <3> QED BY <3>1, <3>2, <3>3, HeadTailElements
  <2>2. posted' = [posted EXCEPT ![u] = Entries({b \in Pending : Valid(b)}, "sent")
                                          \cup Entries({b \in Pending : ~Valid(b)}, "invalid")]
    BY <1>8 DEF ReadPending
  <2>3. posted' \in [Uploaders -> SUBSET [batch : LoggedBatches, verdict : Verdicts]]
    <3>1. /\ Entries({b \in Pending : Valid(b)}, "sent")
               \in SUBSET [batch : LoggedBatches, verdict : Verdicts]
          /\ Entries({b \in Pending : ~Valid(b)}, "invalid")
               \in SUBSET [batch : LoggedBatches, verdict : Verdicts]
      BY <1>3, <2>1 DEF Verdicts
    <3> QED BY <2>2, <3>1 DEF TypeInv
  <2> QED BY <1>1, <1>8, <2>3 DEF ReadPending, TypeInv, coverage, collecting, history
<1>9. CASE Post(u)
  <2>1. PICK taken \in SUBSET With(u, {"sent"}), refused \in SUBSET With(u, {"sent"}) :
          /\ stored' = stored \cup RowsIn(taken)
          /\ posted' \in {[posted EXCEPT ![u] = {}],
                          [posted EXCEPT ![u] = Entries(taken, "stored")
                                                  \cup Entries(refused, "refused")]}
    BY <1>9 DEF Post
  <2>2. taken \in SUBSET LoggedBatches /\ refused \in SUBSET LoggedBatches
    BY <1>4
  <2>3. stored' \subseteq AllRows
    BY <2>1, <2>2, RowsOfLogged DEF TypeInv
  <2>4. posted' \in [Uploaders -> SUBSET [batch : LoggedBatches, verdict : Verdicts]]
    <3>1. /\ Entries(taken, "stored") \in SUBSET [batch : LoggedBatches, verdict : Verdicts]
          /\ Entries(refused, "refused") \in SUBSET [batch : LoggedBatches, verdict : Verdicts]
      BY <1>3, <2>2 DEF Verdicts
    <3> QED BY <2>1, <3>1 DEF TypeInv
  <2>5. UNCHANGED <<bank, spool, quarantine, gap, held, dropped, hand, trimmed, lost>>
    BY <1>9 DEF Post, coverage, collecting, history
  <2> QED BY <1>1, <2>3, <2>4, <2>5 DEF TypeInv
<1>10. ASSUME NEW b \in LoggedBatches, NEW verdict, NEW place, Take(u, b, verdict, place)
       PROVE  /\ posted' \in [Uploaders -> SUBSET [batch : LoggedBatches, verdict : Verdicts]]
              /\ hand' \in [Uploaders -> [batch : LoggedBatches \cup {NoBatch}, to : Nat]]
  BY <1>5, <1>10 DEF Take, TypeInv
<1>11. CASE Discard(u)
  <2>0. PICK verdict \in {"stored", "invalid"} : \E b \in With(u, {verdict}) :
          Take(u, b, verdict, "advance") /\ spool' = Without(spool, b)
    BY <1>11 DEF Discard
  <2>1. PICK b \in LoggedBatches : Take(u, b, verdict, "advance") /\ spool' = Without(spool, b)
    BY <1>4, <2>0
  <2>2. spool' \in Seq(LoggedBatches)
    BY <2>1, KeptElements DEF TypeInv, Without
  <2> QED BY <1>1, <1>10, <1>11, <2>1, <2>2 DEF Discard, TypeInv, coverage, collecting, history
<1>12. CASE Quarantine(u)
  <2>1. PICK b \in LoggedBatches :
          Take(u, b, "refused", "unspool") /\ quarantine' = quarantine \cup {b}
    BY <1>4, <1>12 DEF Quarantine
  <2> QED BY <1>1, <1>10, <1>12, <2>1 DEF Quarantine, TypeInv, coverage, collecting, history
<1>13. CASE Unspool(u)
  <2>1. spool' \in Seq(LoggedBatches)
    BY <1>13, KeptElements DEF Unspool, TypeInv, Without
  <2> QED BY <1>1, <1>6, <1>13, <2>1 DEF Unspool, TypeInv, coverage, collecting, history
<1>14. CASE TakeBanked(u)
  <2>1. /\ bank' \subseteq bank
        /\ GoOn(u) \/ \E k \in bank : hand' = [hand EXCEPT ![u] = k]
        /\ UNCHANGED <<spool, quarantine, gap, held, dropped, posted, stored, trimmed, lost>>
    BY <1>14 DEF TakeBanked, coverage, collecting, history
  <2>2. hand' \in [Uploaders -> [batch : LoggedBatches \cup {NoBatch}, to : Nat]]
    BY <1>6, <2>1 DEF TypeInv
  <2> QED BY <1>1, <2>1, <2>2 DEF TypeInv
<1>15. CASE SetCursor(u)
  BY <1>1, <1>6, <1>15 DEF SetCursor, TypeInv, coverage, collecting, history
<1>16. CASE EndRound(u)
  BY <1>1, <1>16 DEF EndRound, TypeInv, coverage, collecting, history
<1> QED BY <1>7, <1>8, <1>9, <1>11, <1>12, <1>13, <1>14, <1>15, <1>16 DEF UploadStep

LEMMA TypeStep == ASSUME IInv, TypeInv, [Next]_vars PROVE TypeInv'
<1> USE DEF StockInv, RowsInv
<1>1. stamp' = stamp
  BY LogStays DEF vars, logs
<1>2. LoggedBatches' = LoggedBatches /\ AllRows' = AllRows
  BY <1>1, SameLog
<1>3. PlaceInv'
  BY PlaceStep DEF TypeInv
<1>4. CASE LoopCollects
  BY <1>2, <1>3, <1>4 DEF LoopCollects, BeginPass, TypeInv, coverage, uploading, history
<1>5. CASE PassStep
  BY <1>1, <1>3, <1>5, PassTypes DEF TypeInv
<1>6. CASE BeginExit
  <2>1. /\ <<>> \in Seq(LoggedBatches) /\ Intervals \in Nat /\ {} \in SUBSET AllRows
        /\ beats \in Nat /\ LogInv
    BY BoundAssumption DEF TypeInv, IInv, PlaceInv
  <2>2. WithCoverage(<<>>, Intervals, {}) \in Seq(LoggedBatches)
    BY <2>1, CoverageElements
  <2>3. spool' \in Seq(LoggedBatches)
    BY <1>6, <2>2, ConcatElements DEF BeginExit, TypeInv
  <2> QED BY <1>2, <1>3, <1>6, <2>3 DEF BeginExit, TypeInv, collecting, history
<1>7. ASSUME NEW u \in Uploaders, UploadStep(u) PROVE TypeInv'
  BY <1>1, <1>3, <1>7, UploadTypes DEF TypeInv
<1>8. CASE EndExit \/ Die
  <2>1. OfOmp(InSeq(held)) \in SUBSET LoggedBatches
    BY SeqElements DEF OfOmp, TypeInv
  <2>2. lost' \subseteq AllRows
    BY <1>8, <2>1, RowsOfLogged DEF EndExit, Die, TypeInv
  <2>3. /\ UNCHANGED <<bank, spool, quarantine, gap, stored, trimmed>>
        /\ held' = <<>> /\ dropped' = {}
        /\ posted' = [u \in Uploaders |-> {}] /\ hand' = [u \in Uploaders |-> EmptyHand]
    BY <1>8 DEF EndExit, Die, coverage
  <2>4. hand' \in [Uploaders -> [batch : LoggedBatches \cup {NoBatch}, to : Nat]]
    BY <2>3 DEF EmptyHand
  <2> QED BY <1>2, <1>3, <2>2, <2>3, <2>4 DEF TypeInv
<1>9. CASE UNCHANGED vars
  BY <1>2, <1>3, <1>9 DEF TypeInv, vars, coverage, collecting, uploading, history
<1> QED BY <1>4, <1>5, <1>6, <1>7, <1>8, <1>9 DEF Next

LEMMA InitTypes == Init => TypeInv
<1> SUFFICES ASSUME Init PROVE TypeInv
  OBVIOUS
<1>1. MaxTrouble[stamp] \in Nat /\ MaxDeaths \in Nat
  BY BoundAssumption DEF Init
<1>2. PlaceInv
  <2>1. up \in [Uploaders -> UploadPlaces] /\ last \in [Uploaders -> BOOLEAN]
    BY DEF Init, UploadPlaces
  <2>2. trouble \in 0..MaxTrouble[stamp] /\ deaths \in 0..MaxDeaths
    BY <1>1 DEF Init
  <2> QED BY <2>1, <2>2 DEF Init, PlaceInv, PassPlaces
<1>3. StockInv /\ RowsInv
  BY DEF Init, StockInv, RowsInv, EmptyHand
<1> QED BY <1>2, <1>3 DEF TypeInv

\* Every variable keeps its type: batches and sets hold rows the log has.
THEOREM TypeCorrect == Spec => []TypeOK
<1>1. IInv /\ TypeInv => TypeOK
  <2> SUFFICES ASSUME IInv, TypeInv PROVE TypeOK
    OBVIOUS
  <2>1. LoggedBatches \subseteq Batches
    BY DEF LoggedBatches
  <2>2. spool \in Seq(Batches) /\ held \in Seq(Batches)
    BY <2>1, SeqMonotonic DEF TypeInv, StockInv
  <2>3. /\ bank \subseteq [batch : Batches, to : Nat] /\ quarantine \subseteq Batches
        /\ posted \in [Uploaders -> SUBSET [batch : Batches, verdict : Verdicts]]
        /\ hand \in [Uploaders -> [batch : Batches \cup {NoBatch}, to : Nat]]
    BY <2>1 DEF TypeInv, StockInv
  <2> HIDE DEF Sources, Uploaders
  <2> QED BY <2>2, <2>3 DEF TypeOK, TypeInv, RowsInv, PlaceInv, IInv, LogInv
<1> QED BY <1>1, InitHolds, StepHolds, InitTypes, TypeStep, PTL DEF Spec

-------------------------------------------------------------------------------
(* Rows behind OMP's cursor *)

\* Batches the program still has.
AtHand == InSeq(held) \cup InSeq(spool) \cup quarantine

\* A row behind OMP's cursor is accounted for.
OmpInv == \A n \in Rows("omp") : n <= cursor["omp"] =>
              <<"omp", n>> \in stored \cup trimmed \cup lost \cup RowsIn(AtHand)

\* Nothing that is banked is ahead of OMP's cursor.
OmpBankInv == \A k \in bank : k.batch.source = "omp" => k.to <= cursor["omp"]

\* OMP's batches are such as the envelope takes.
OmpValidInv == \A b \in OfOmp(InSeq(held) \cup InSeq(spool)) : Valid(b)

\* An upload never sets OMP's cursor, and lets go only of what is kept aside.
OmpHandInv == \A u \in Uploaders :
    /\ up[u] = "set" => hand[u].batch.source # "omp"
    /\ up[u] = "unspool" => hand[u].batch \in quarantine

\* The spool is trimmed when every batch of the pass is in it.
MarkInv == pass = "mark" => held = <<>>

KeptInv == OmpInv /\ OmpBankInv /\ OmpValidInv /\ OmpHandInv /\ MarkInv

\* A batch may go if its rows are somewhere else.
LEMMA OmpRowsStay ==
    ASSUME OmpInv, stamp' = stamp, cursor'["omp"] = cursor["omp"],
           stored \subseteq stored', trimmed \subseteq trimmed', lost \subseteq lost',
           \A b \in OfOmp(AtHand) : \/ b \in AtHand'
                                    \/ RowsOf(b) \subseteq stored' \cup trimmed' \cup lost'
    PROVE  OmpInv'
<1> SUFFICES ASSUME NEW n \in Rows("omp"), n <= cursor["omp"]
             PROVE  <<"omp", n>> \in stored' \cup trimmed' \cup lost' \cup RowsIn(AtHand')
  BY DEF OmpInv, Rows, RowsIn, RowsOf
<1>1. <<"omp", n>> \in stored \cup trimmed \cup lost \cup RowsIn(AtHand)
  BY DEF OmpInv
<1>2. ASSUME NEW b \in AtHand, <<"omp", n>> \in RowsOf(b)
      PROVE  <<"omp", n>> \in stored' \cup trimmed' \cup lost' \cup RowsIn(AtHand')
  <2>1. b \in OfOmp(AtHand)
    BY <1>2 DEF RowsOf, OfOmp
  <2> QED BY <1>2, <2>1 DEF RowsIn
<1> QED BY <1>1, <1>2 DEF RowsIn

\* Steps that leave the batches and OMP's cursor alone.
LEMMA KeptQuietly ==
    ASSUME KeptInv, UNCHANGED <<stamp, cursor, bank, spool, quarantine, held, hand>>,
           stored \subseteq stored', trimmed \subseteq trimmed', lost \subseteq lost',
           \A u \in Uploaders : up'[u] \in {"set", "unspool"} => up'[u] = up[u],
           pass' # "mark" \/ pass' = pass
    PROVE  KeptInv'
<1>1. OmpInv'
  <2>1. AtHand' = AtHand
    BY DEF AtHand
  <2> QED BY <2>1, OmpRowsStay DEF KeptInv, OfOmp
<1>2. OmpBankInv' /\ OmpValidInv' /\ OmpHandInv' /\ MarkInv'
  BY DEF KeptInv, OmpBankInv, OmpValidInv, OmpHandInv, MarkInv, OfOmp, Valid
<1> QED BY <1>1, <1>2 DEF KeptInv

\* Steps of a pass or of a death: the uploads are left alone or end.
LEMMA KeptByPass ==
    ASSUME KeptInv, UNCHANGED <<stamp, cursor, bank, quarantine, stored>>,
           trimmed \subseteq trimmed', lost \subseteq lost',
           \A b \in OfOmp(AtHand) : b \in AtHand' \/ RowsOf(b) \subseteq trimmed' \cup lost',
           OfOmp(InSeq(held') \cup InSeq(spool')) \subseteq InSeq(held) \cup InSeq(spool),
           \A u \in Uploaders : up'[u] \in {"set", "unspool"} =>
                                   up'[u] = up[u] /\ hand'[u] = hand[u],
           pass' = "mark" => held' = <<>>
    PROVE  KeptInv'
<1>1. OmpInv'
  BY OmpRowsStay DEF KeptInv
<1>2. OmpValidInv'
  BY DEF KeptInv, OmpValidInv, OfOmp, Valid
<1>3. OmpBankInv' /\ OmpHandInv' /\ MarkInv'
  BY DEF KeptInv, OmpBankInv, OmpHandInv, MarkInv
<1> QED BY <1>1, <1>2, <1>3 DEF KeptInv

LEMMA KeptByCollection ==
    ASSUME IInv, TypeInv, KeptInv, NEW s \in Sources \ {"omp"}, NEW then \in {"omp", "beat"},
           CollectBanked(s, then), stamp' = stamp
    PROVE  KeptInv'
<1> DEFINE b == Batch(s, NextPage(s, written'[s]))
<1>1. /\ UNCHANGED <<cursor, spool, quarantine, up, hand, stored, trimmed, lost>>
      /\ pass' = then
      /\ \/ UNCHANGED <<bank, held>>
         \/ /\ bank' \subseteq bank \cup {[batch |-> b, to |-> HighWater(s, b.rows)]}
            /\ held' = Append(held, b)
  BY DEF CollectBanked, uploading, history
<1>2. b.source = s
  BY DEF Batch
<1>3. b \in LoggedBatches
  <2>1. PICK n \in written[s]..Len(stamp[s]) : written' = [written EXCEPT ![s] = n]
    BY DEF CollectBanked, Written
  <2>2. written[s] \in Nat /\ Len(stamp[s]) \in Nat /\ DOMAIN written = Sources /\ LogInv
    BY LogShape DEF IInv, LogInv
  <2>3. written'[s] \in Nat /\ written'[s] <= Len(stamp[s])
    BY <2>1, <2>2
  <2> QED BY <2>2, <2>3, PageIsLogged
<1> HIDE DEF b
<1>4. InSeq(held') \in {InSeq(held), InSeq(held) \cup {b}}
  <2>1. InSeq(Append(held, b)) = InSeq(held) \cup {b}
    BY <1>3, AppendElements DEF TypeInv, StockInv
  <2> QED BY <1>1, <2>1
<1>5. OmpInv'
  <2>1. AtHand \subseteq AtHand'
    BY <1>1, <1>4 DEF AtHand
  <2> QED BY <1>1, <2>1, OmpRowsStay DEF KeptInv, OfOmp
<1>6. OmpBankInv'
  BY <1>1, <1>2 DEF KeptInv, OmpBankInv
<1>7. OmpValidInv'
  BY <1>1, <1>2, <1>4 DEF KeptInv, OmpValidInv, OfOmp, Valid
<1>8. OmpHandInv' /\ MarkInv'
  BY <1>1 DEF KeptInv, OmpHandInv, MarkInv
<1> QED BY <1>5, <1>6, <1>7, <1>8 DEF KeptInv

LEMMA KeptByDrain ==
    ASSUME IInv, TypeInv, KeptInv, DrainOmp, stamp' = stamp
    PROVE  KeptInv'
<1> DEFINE rows == NextPage("omp", written'["omp"])
           b == Batch("omp", rows)
           to == HighWater("omp", rows)
<1>1. LogInv /\ written'["omp"] \in Nat /\ written'["omp"] <= Len(stamp["omp"])
  <2>1. PICK n \in written["omp"]..Len(stamp["omp"]) : written' = [written EXCEPT !["omp"] = n]
    BY DEF DrainOmp, Written
  <2>2. /\ written["omp"] \in Nat /\ Len(stamp["omp"]) \in Nat
        /\ DOMAIN written = Sources /\ LogInv
    BY LogShape DEF IInv, LogInv
  <2> QED BY <2>1, <2>2
<1>2. /\ b \in LoggedBatches /\ b.rows = rows /\ b.source = "omp"
  BY <1>1, PageIsLogged
<1>3. /\ rows # {} /\ pass' = "omp"
      /\ cursor' = [cursor EXCEPT !["omp"] = to]
      /\ bank' = bank \cup {[batch |-> b, to |-> to]}
      /\ held' = Append(held, b)
      /\ UNCHANGED <<spool, quarantine, up, hand, stored, trimmed, lost>>
  BY <1>2 DEF DrainOmp, uploading, history
<1>4. /\ Valid(b) /\ to \in Nat /\ to > cursor["omp"] /\ cursor["omp"] \in Nat
      /\ \A n \in Rows("omp") : n <= to => n \in rows \/ n <= cursor["omp"]
  <2>1. Valid(b)
    BY <1>1, <1>3, PageIsValid
  <2>2. /\ to \in Nat /\ to > cursor["omp"]
        /\ \A n \in Rows("omp") : stamp["omp"][n] <= to =>
             n \in rows \/ stamp["omp"][n] <= cursor["omp"] \/ SharesItsSecond("omp", n)
    BY <1>1, <1>3, PageOfRows
  <2>3. \A n \in Rows("omp") : stamp["omp"][n] = n /\ ~ SharesItsSecond("omp", n)
    BY <1>1, LogShape DEF SharesItsSecond
  <2>4. cursor["omp"] \in Nat
    BY <1>1 DEF LogInv
  <2> HIDE DEF rows, to
  <2>5. \A n \in Rows("omp") : n <= to => n \in rows \/ n <= cursor["omp"]
    BY <2>2, <2>3
  <2> QED BY <2>1, <2>2, <2>4, <2>5 DEF to, rows
<1> HIDE DEF rows, b, to
<1>5. InSeq(held') = InSeq(held) \cup {b}
  <2>1. held \in Seq(LoggedBatches)
    BY DEF TypeInv, StockInv
  <2> QED BY <1>2, <1>3, <2>1, AppendElements
<1>6. cursor'["omp"] = to
  BY <1>1, <1>3 DEF LogInv
<1>7. OmpInv'
  <2> SUFFICES ASSUME NEW n \in Rows("omp"), n <= to
               PROVE  <<"omp", n>> \in stored' \cup trimmed' \cup lost' \cup RowsIn(AtHand')
    BY <1>6 DEF OmpInv, Rows, RowsIn, RowsOf
  <2>1. AtHand \subseteq AtHand' /\ b \in AtHand'
    BY <1>3, <1>5 DEF AtHand
  <2>2. CASE n \in rows
    BY <1>2, <2>1, <2>2 DEF RowsIn, RowsOf
  <2>3. CASE n <= cursor["omp"]
    BY <1>3, <2>1, <2>3 DEF KeptInv, OmpInv, RowsIn
  <2> QED BY <1>4, <2>2, <2>3
<1>8. OmpBankInv'
  <2> SUFFICES ASSUME NEW k \in bank', k.batch.source = "omp" PROVE k.to <= to
    BY <1>6 DEF OmpBankInv
  <2>1. CASE k \in bank
    <3>1. k.to <= cursor["omp"] /\ k.to \in Nat
      BY <2>1 DEF KeptInv, OmpBankInv, IInv, BankInv
    <3> QED BY <1>4, <3>1
  <2>2. CASE k = [batch |-> b, to |-> to]
    BY <1>4, <2>2
  <2> QED BY <1>3, <2>1, <2>2
<1>9. OmpValidInv'
  BY <1>3, <1>4, <1>5 DEF KeptInv, OmpValidInv, OfOmp, Valid
<1>10. OmpHandInv' /\ MarkInv'
  BY <1>3 DEF KeptInv, OmpHandInv, MarkInv
<1> QED BY <1>7, <1>8, <1>9, <1>10 DEF KeptInv

LEMMA KeptByPassStep ==
    ASSUME IInv, TypeInv, KeptInv, PassStep, stamp' = stamp
    PROVE  KeptInv'
<1>1. /\ held \in Seq(LoggedBatches) /\ spool \in Seq(LoggedBatches)
      /\ LogInv /\ beats \in Nat
      /\ DOMAIN up = Uploaders
  BY DEF TypeInv, StockInv, IInv, PlaceInv, HandInv
<1>2. ASSUME PassEnds PROVE /\ \A u \in Uploaders : up'[u] \in {"set", "unspool"} =>
                                    up'[u] = up[u] /\ hand'[u] = hand[u]
                            /\ InSeq(held') = {} /\ pass' = "idle" /\ held' = <<>>
  BY <1>1, <1>2 DEF PassEnds, InSeq
<1>3. CASE CollectNative \/ CollectHarness
  BY <1>3, KeptByCollection DEF CollectNative, CollectHarness
<1>4. CASE DrainOmp
  BY <1>4, KeptByDrain
<1>5. CASE OmpDrained
  BY <1>5, KeptQuietly DEF OmpDrained, logs, uploading, history
<1>6. CASE OmpFails
  <2>1. InSeq(held') = InSeq(held) \ OfOmp(InSeq(held))
    <3>1. InSeq(held') = InSeq(held) \cap (InSeq(held) \ OfOmp(InSeq(held)))
      BY <1>1, <1>6, KeptElements DEF OmpFails
    <3> QED BY <3>1
  <2>2. /\ UNCHANGED <<cursor, bank, spool, quarantine, stored, trimmed, up, hand>>
        /\ lost' = lost \cup RowsIn(OfOmp(InSeq(held))) /\ pass' = "harness"
    BY <1>6 DEF OmpFails, logs, uploading
  <2>3. \A b \in OfOmp(AtHand) : b \in AtHand' \/ RowsOf(b) \subseteq lost'
    BY <2>1, <2>2 DEF AtHand, OfOmp, RowsIn
  <2>4. OfOmp(InSeq(held') \cup InSeq(spool')) \subseteq InSeq(held) \cup InSeq(spool)
    BY <2>1, <2>2 DEF OfOmp
  <2> QED BY <2>2, <2>3, <2>4, KeptByPass
<1>7. CASE Beat
  <2>1. PICK covers \in Nat, declared \in SUBSET AllRows :
          held' = WithCoverage(held, covers, declared)
    <3>1. Intervals \in Nat /\ gap \in SUBSET AllRows /\ {} \in SUBSET AllRows
      BY BoundAssumption DEF TypeInv, RowsInv
    <3>2. CASE counting
      <4>1. Intervals + (IF gap = {} THEN 0 ELSE 1) \in Nat
        BY <3>1
      <4> QED BY <1>7, <3>1, <3>2, <4>1 DEF Beat
    <3>3. CASE ~counting
      BY <1>7, <3>1, <3>3 DEF Beat
    <3> QED BY <3>2, <3>3
  <2>2. OfOmp(InSeq(held')) = OfOmp(InSeq(held))
    BY <1>1, <2>1, CoverageElements
  <2>3. /\ UNCHANGED <<cursor, bank, spool, quarantine, stored, trimmed, lost, up, hand>>
        /\ pass' = "persist"
    BY <1>7 DEF Beat, logs, uploading, history
  <2>4. \A b \in OfOmp(AtHand) : b \in AtHand'
    BY <2>2, <2>3 DEF AtHand, OfOmp
  <2>5. OfOmp(InSeq(held') \cup InSeq(spool')) \subseteq InSeq(held) \cup InSeq(spool)
    BY <2>2, <2>3 DEF OfOmp
  <2> QED BY <2>3, <2>4, <2>5, KeptByPass
<1>8. CASE Persist
  <2>1. /\ Head(held) \in LoggedBatches /\ InSeq(held) = {Head(held)} \cup InSeq(Tail(held))
        /\ held' = Tail(held) /\ pass' = pass /\ pass = "persist"
        /\ UNCHANGED <<cursor, bank, quarantine, stored, trimmed, lost, up, hand>>
    BY <1>1, <1>8, HeadTailElements DEF Persist, logs, uploading, history
  <2>2. InSeq(spool') = InSeq(spool) \cup {Head(held)}
    <3>1. CASE Head(held) \in InSeq(spool)
      BY <1>8, <3>1 DEF Persist, Spooled
    <3>2. CASE Head(held) \notin InSeq(spool)
      BY <1>1, <1>8, <2>1, <3>2, AppendElements DEF Persist, Spooled
    <3> QED BY <3>1, <3>2
  <2>3. InSeq(held') \cup InSeq(spool') = InSeq(held) \cup InSeq(spool)
    BY <2>1, <2>2
  <2>4. AtHand' = AtHand
    BY <2>1, <2>3 DEF AtHand
  <2> QED BY <2>1, <2>3, <2>4, KeptByPass DEF OfOmp
<1>9. CASE TrimSpool
  <2> DEFINE excess == Len(spool) - SpoolCap
             old == InSeq(SubSeq(spool, 1, excess))
  <2>1. /\ held = <<>> /\ InSeq(held) = {}
        /\ UNCHANGED <<cursor, bank, quarantine, stored, lost>>
    BY <1>9 DEF TrimSpool, logs, InSeq
  <2>2. CASE PassEnds /\ UNCHANGED <<spool, trimmed>>
    <3>1. AtHand' = AtHand
      BY <1>2, <2>1, <2>2 DEF AtHand
    <3> QED BY <1>2, <2>1, <2>2, <3>1, KeptByPass DEF OfOmp
  <2>3. CASE /\ excess > 0
             /\ spool' = SubSeq(spool, excess + 1, Len(spool))
             /\ trimmed' = trimmed \cup RowsIn(old)
             /\ UNCHANGED <<held, uploading>>
    <3>1. excess \in 0..Len(spool)
      BY <1>1, <2>3, BoundAssumption
    <3>2. InSeq(spool) = old \cup InSeq(spool')
      <4> HIDE DEF excess
      <4> QED BY <1>1, <2>3, <3>1, SplitElements
    <3> HIDE DEF old, excess
    <3>3. \A b \in OfOmp(AtHand) : b \in AtHand' \/ RowsOf(b) \subseteq trimmed'
      BY <2>1, <2>3, <3>2 DEF AtHand, OfOmp, RowsIn
    <3>4. OfOmp(InSeq(held') \cup InSeq(spool')) \subseteq InSeq(held) \cup InSeq(spool)
      BY <2>3, <3>2 DEF OfOmp
    <3> QED BY <2>1, <2>3, <3>3, <3>4, KeptByPass DEF uploading
  <2> QED BY <1>9, <2>2, <2>3 DEF TrimSpool
<1>10. CASE MarkGap
  <2>1. /\ InSeq(held) = {}
        /\ UNCHANGED <<cursor, bank, spool, quarantine, stored, trimmed, lost>>
    BY <1>10 DEF MarkGap, logs, history, KeptInv, MarkInv, InSeq
  <2>2. PassEnds
    BY <1>10 DEF MarkGap
  <2>3. AtHand' = AtHand
    BY <1>2, <2>1, <2>2 DEF AtHand
  <2> QED BY <1>2, <2>1, <2>2, <2>3, KeptByPass DEF OfOmp
<1>11. CASE PassFails
  <2>1. /\ UNCHANGED <<cursor, bank, spool, quarantine, stored, trimmed>>
        /\ lost' = lost \cup RowsIn(OfOmp(InSeq(held))) /\ PassEnds
    BY <1>11 DEF PassFails, logs
  <2>2. \A b \in OfOmp(AtHand) : b \in AtHand' \/ RowsOf(b) \subseteq lost'
    BY <2>1 DEF AtHand, OfOmp, RowsIn
  <2> QED BY <1>2, <2>1, <2>2, KeptByPass DEF OfOmp
<1> QED BY <1>3, <1>4, <1>5, <1>6, <1>7, <1>8, <1>9, <1>10, <1>11 DEF PassStep

LEMMA KeptByDeath ==
    ASSUME KeptInv, Die, stamp' = stamp
    PROVE  KeptInv'
<1>1. /\ UNCHANGED <<cursor, bank, spool, quarantine, stored, trimmed>>
      /\ lost' = lost \cup RowsIn(OfOmp(InSeq(held)))
      /\ pass' = "idle" /\ held' = <<>> /\ up' = [u \in Uploaders |-> "idle"]
  BY DEF Die, logs
<1>2. \A b \in OfOmp(AtHand) : b \in AtHand' \/ RowsOf(b) \subseteq lost'
  BY <1>1 DEF AtHand, OfOmp, RowsIn
<1>3. InSeq(held') = {}
  BY <1>1 DEF InSeq
<1> QED BY <1>1, <1>2, <1>3, KeptByPass DEF OfOmp

\* The last batch of the program's run holds coverage rows alone.
LEMMA KeptByExit ==
    ASSUME IInv, TypeInv, KeptInv, BeginExit, stamp' = stamp
    PROVE  KeptInv'
<1> DEFINE final == WithCoverage(<<>>, Intervals, {})
<1>1. /\ <<>> \in Seq(LoggedBatches) /\ Intervals \in Nat /\ {} \in SUBSET AllRows
      /\ beats \in Nat /\ LogInv /\ spool \in Seq(LoggedBatches)
      /\ DOMAIN up = Uploaders
  BY BoundAssumption DEF TypeInv, StockInv, IInv, PlaceInv, HandInv
<1>2. final \in Seq(LoggedBatches) /\ OfOmp(InSeq(final)) = {}
  <2>1. OfOmp(InSeq(<<>>)) = {}
    BY DEF OfOmp, InSeq
  <2> QED BY <1>1, <2>1, CoverageElements
<1>3. /\ UNCHANGED <<cursor, bank, quarantine, held, pass, hand, stored, trimmed, lost>>
      /\ spool' = spool \o final /\ up' = [up EXCEPT !["exit"] = "collect"]
  BY DEF BeginExit, logs, collecting, history
<1> HIDE DEF final
<1>4. InSeq(spool') = InSeq(spool) \cup InSeq(final)
  BY <1>1, <1>2, <1>3, ConcatElements
<1>5. \A b \in OfOmp(AtHand) : b \in AtHand'
  BY <1>3, <1>4 DEF AtHand, OfOmp
<1>6. OfOmp(InSeq(held') \cup InSeq(spool')) \subseteq InSeq(held) \cup InSeq(spool)
  BY <1>2, <1>3, <1>4 DEF OfOmp
<1>7. pass' = "mark" => held' = <<>>
  BY <1>3 DEF KeptInv, MarkInv
<1> QED BY <1>1, <1>3, <1>5, <1>6, <1>7, KeptByPass

\* An upload takes a batch off the spool: its rows are elsewhere.
LEMMA KeptByUnspooling ==
    ASSUME KeptInv, TypeInv, NEW u \in Uploaders, NEW b, spool' = Without(spool, b),
           UNCHANGED <<stamp, cursor, bank, quarantine, held, pass, stored, trimmed, lost>>,
           b \in quarantine \/ RowsOf(b) \subseteq stored \/ ~ Valid(b),
           \A v \in Uploaders : up'[v] \in {"set", "unspool"} =>
                                   up'[v] = up[v] /\ hand'[v] = hand[v]
    PROVE  KeptInv'
<1>1. InSeq(spool') = InSeq(spool) \ {b}
  <2>1. InSeq(spool') = InSeq(spool) \cap (InSeq(spool) \ {b})
    BY KeptElements DEF TypeInv, StockInv, Without
  <2> QED BY <2>1
<1>2. OmpInv'
  <2>1. ASSUME NEW c \in OfOmp(AtHand), c \notin AtHand'
        PROVE  RowsOf(c) \subseteq stored'
    <3>1. c = b /\ c \in OfOmp(InSeq(spool)) /\ c \notin quarantine
      BY <1>1, <2>1 DEF AtHand, OfOmp
    <3>2. Valid(c)
      BY <3>1 DEF KeptInv, OmpValidInv, OfOmp
    <3> QED BY <3>1, <3>2
  <2> QED BY <2>1, OmpRowsStay DEF KeptInv
<1>3. OmpBankInv' /\ OmpHandInv' /\ MarkInv'
  BY DEF KeptInv, OmpBankInv, OmpHandInv, MarkInv
<1>4. OmpValidInv'
  BY <1>1 DEF KeptInv, OmpValidInv, OfOmp, Valid
<1> QED BY <1>2, <1>3, <1>4 DEF KeptInv

LEMMA KeptByUpload ==
    ASSUME IInv, TypeInv, KeptInv, NEW u \in Uploaders, UploadStep(u), stamp' = stamp
    PROVE  KeptInv'
<1>1. DOMAIN up = Uploaders /\ DOMAIN hand = Uploaders
  BY DEF IInv, HandInv
<1>2. CASE UploadCollects(u)
  <2>1. /\ UNCHANGED <<cursor, bank, spool, quarantine, held, hand, stored, trimmed, lost>>
        /\ pass' = "native" \/ pass' = pass
        /\ up' \in {[up EXCEPT ![u] = "wait"], [up EXCEPT ![u] = "read"]}
    BY <1>2 DEF UploadCollects, BeginPass, logs, collecting, history
  <2> QED BY <1>1, <2>1, KeptQuietly
<1>3. CASE ReadPending(u)
  <2>1. /\ UNCHANGED <<cursor, bank, spool, quarantine, held, pass, hand, stored, trimmed, lost>>
        /\ up' \in {[up EXCEPT ![u] = "idle"], [up EXCEPT ![u] = "settle"]}
    BY <1>3 DEF ReadPending, logs, collecting, history
  <2> QED BY <1>1, <2>1, KeptQuietly
<1>4. CASE Post(u)
  <2>1. /\ UNCHANGED <<cursor, bank, spool, quarantine, held, pass, hand, trimmed, lost>>
        /\ stored \subseteq stored'
        /\ up' \in {up, [up EXCEPT ![u] = "idle"]}
    BY <1>4 DEF Post, logs, collecting, history
  <2> QED BY <1>1, <2>1, KeptQuietly
<1>5. CASE Discard(u)
  <2>1. PICK verdict \in {"stored", "invalid"} : \E b \in With(u, {verdict}) :
          Take(u, b, verdict, "advance") /\ spool' = Without(spool, b)
    BY <1>5 DEF Discard
  <2>2. PICK b : Take(u, b, verdict, "advance") /\ spool' = Without(spool, b)
    BY <2>1
  <2> DEFINE e == [batch |-> b, verdict |-> verdict]
  <2>3. /\ e \in posted[u] /\ e.batch = b /\ e.verdict = verdict
        /\ hand' = [hand EXCEPT ![u] = [batch |-> b, to |-> 0]]
        /\ up' = [up EXCEPT ![u] = "advance"]
    BY <2>2 DEF Take
  <2> HIDE DEF e
  <2>4. RowsOf(b) \subseteq stored \/ ~ Valid(b)
    BY <2>1, <2>3 DEF IInv, PostedInv
  <2>5. UNCHANGED <<cursor, bank, quarantine, held, pass, stored, trimmed, lost>>
    BY <1>5 DEF Discard, logs, collecting, history
  <2>6. \A v \in Uploaders : up'[v] \in {"set", "unspool"} =>
                                up'[v] = up[v] /\ hand'[v] = hand[v]
    BY <1>1, <2>3
  <2> QED BY <2>2, <2>4, <2>5, <2>6, KeptByUnspooling
<1>6. CASE Quarantine(u)
  <2>1. PICK b : Take(u, b, "refused", "unspool") /\ quarantine' = quarantine \cup {b}
    BY <1>6 DEF Quarantine
  <2>2. /\ UNCHANGED <<cursor, bank, spool, held, pass, stored, trimmed, lost>>
        /\ hand' = [hand EXCEPT ![u] = [batch |-> b, to |-> 0]]
        /\ up' = [up EXCEPT ![u] = "unspool"]
    BY <1>6, <2>1 DEF Quarantine, Take, logs, collecting, history
  <2>3. OmpInv'
    <3>1. AtHand \subseteq AtHand'
      BY <2>1, <2>2 DEF AtHand
    <3> QED BY <2>2, <3>1, OmpRowsStay DEF KeptInv, OfOmp
  <2>4. OmpBankInv' /\ OmpValidInv' /\ MarkInv'
    BY <2>2 DEF KeptInv, OmpBankInv, OmpValidInv, MarkInv, OfOmp, Valid
  <2>5. OmpHandInv'
    BY <1>1, <2>1, <2>2 DEF KeptInv, OmpHandInv
  <2> QED BY <2>3, <2>4, <2>5 DEF KeptInv
<1>7. CASE Unspool(u)
  <2>1. /\ UNCHANGED <<cursor, bank, quarantine, held, pass, stored, trimmed, lost>>
        /\ spool' = Without(spool, hand[u].batch) /\ up[u] = "unspool"
        /\ up' = [up EXCEPT ![u] = "settle"] /\ hand' = [hand EXCEPT ![u] = EmptyHand]
    BY <1>7 DEF Unspool, GoOn, logs, collecting, history
  <2>2. hand[u].batch \in quarantine
    BY <2>1 DEF KeptInv, OmpHandInv
  <2>3. \A v \in Uploaders : up'[v] \in {"set", "unspool"} =>
                                up'[v] = up[v] /\ hand'[v] = hand[v]
    BY <1>1, <2>1
  <2> QED BY <2>1, <2>2, <2>3, KeptByUnspooling
<1>8. CASE TakeBanked(u)
  <2>1. /\ UNCHANGED <<cursor, spool, quarantine, held, pass, stored, trimmed, lost>>
        /\ bank' \subseteq bank
        /\ \/ up' = [up EXCEPT ![u] = "settle"] /\ hand' = [hand EXCEPT ![u] = EmptyHand]
           \/ \E k \in bank : /\ k.to > cursor[k.batch.source]
                              /\ hand' = [hand EXCEPT ![u] = k]
                              /\ up' = [up EXCEPT ![u] = "set"]
    BY <1>8 DEF TakeBanked, GoOn, logs, collecting, history
  <2>2. OmpInv' /\ OmpBankInv' /\ OmpValidInv' /\ MarkInv'
    <3>1. AtHand' = AtHand
      BY <2>1 DEF AtHand
    <3>2. OmpInv'
      BY <2>1, <3>1, OmpRowsStay DEF KeptInv, OfOmp
    <3> QED BY <2>1, <3>2 DEF KeptInv, OmpBankInv, OmpValidInv, MarkInv, OfOmp, Valid
  <2>3. OmpHandInv'
    <3>1. ASSUME NEW k \in bank, k.to > cursor[k.batch.source] PROVE k.batch.source # "omp"
      <4>1. k.to \in Nat /\ cursor["omp"] \in Nat
        BY DEF IInv, BankInv, LogInv
      <4> QED BY <3>1, <4>1 DEF KeptInv, OmpBankInv
    <3> QED BY <1>1, <2>1, <3>1 DEF KeptInv, OmpHandInv
  <2> QED BY <2>2, <2>3 DEF KeptInv
<1>9. CASE SetCursor(u)
  <2>1. /\ UNCHANGED <<bank, spool, quarantine, held, pass, stored, trimmed, lost>>
        /\ up[u] = "set" /\ cursor' = [cursor EXCEPT ![hand[u].batch.source] = hand[u].to]
        /\ up' = [up EXCEPT ![u] = "settle"] /\ hand' = [hand EXCEPT ![u] = EmptyHand]
    BY <1>9 DEF SetCursor, GoOn, collecting, history
  <2>2. cursor'["omp"] = cursor["omp"]
    BY <2>1 DEF KeptInv, OmpHandInv
  <2>3. OmpInv'
    <3>1. AtHand' = AtHand
      BY <2>1 DEF AtHand
    <3> QED BY <2>1, <2>2, <3>1, OmpRowsStay DEF KeptInv, OfOmp
  <2>4. OmpBankInv' /\ OmpValidInv' /\ MarkInv'
    BY <2>1, <2>2 DEF KeptInv, OmpBankInv, OmpValidInv, MarkInv, OfOmp, Valid
  <2>5. OmpHandInv'
    BY <1>1, <2>1 DEF KeptInv, OmpHandInv
  <2> QED BY <2>3, <2>4, <2>5 DEF KeptInv
<1>10. CASE EndRound(u)
  <2>1. /\ UNCHANGED <<cursor, bank, spool, quarantine, held, pass, hand, stored, trimmed, lost>>
        /\ up' \in {[up EXCEPT ![u] = "idle"], [up EXCEPT ![u] = "read"]}
    BY <1>10 DEF EndRound, logs, collecting, history
  <2> QED BY <1>1, <2>1, KeptQuietly
<1> QED BY <1>2, <1>3, <1>4, <1>5, <1>6, <1>7, <1>8, <1>9, <1>10 DEF UploadStep

LEMMA KeptStep == ASSUME IInv, TypeInv, KeptInv, [Next]_vars PROVE KeptInv'
<1>1. stamp' = stamp
  BY LogStays DEF vars, logs
<1>2. CASE LoopCollects
  BY <1>1, <1>2, KeptQuietly DEF LoopCollects, BeginPass, logs, uploading, history
<1>3. CASE PassStep
  BY <1>1, <1>3, KeptByPassStep
<1>4. CASE BeginExit
  BY <1>1, <1>4, KeptByExit
<1>5. ASSUME NEW u \in Uploaders, UploadStep(u) PROVE KeptInv'
  BY <1>1, <1>5, KeptByUpload
<1>6. CASE EndExit \/ Die
  BY <1>1, <1>6, KeptByDeath DEF EndExit
<1>7. CASE UNCHANGED vars
  BY <1>7, KeptQuietly DEF vars, logs, collecting, uploading, history
<1> QED BY <1>2, <1>3, <1>4, <1>5, <1>6, <1>7 DEF Next

LEMMA InitKept == Init => KeptInv
<1> SUFFICES ASSUME Init PROVE KeptInv
  OBVIOUS
<1>1. LogInv
  BY InitHolds DEF IInv
<1>2. \A n \in Rows("omp") : n > 0 /\ n \in Nat
  BY <1>1, LogShape
<1>3. OmpInv
  BY <1>2 DEF Init, OmpInv
<1>4. OmpBankInv /\ OmpValidInv /\ OmpHandInv /\ MarkInv
  BY DEF Init, OmpBankInv, OmpValidInv, OmpHandInv, MarkInv, OfOmp, InSeq
<1> QED BY <1>3, <1>4 DEF KeptInv

\* A row that OMP's cursor has passed is at the server, in the spool, kept aside or
\* with the pass, unless the cap or a broken pass has dropped it.
THEOREM CollectedRowsAreKept == Spec => []CollectedRowIsKept
<1>1. IInv /\ KeptInv => CollectedRowIsKept
  <2> SUFFICES ASSUME IInv, KeptInv, NEW n \in 1..written["omp"], n <= cursor["omp"]
               PROVE  <<"omp", n>> \in stored \cup trimmed \cup lost \cup RowsIn(AtHand)
    BY DEF CollectedRowIsKept, AtHand
  <2>1. /\ written["omp"] \in Nat /\ written["omp"] <= Len(stamp["omp"])
        /\ Rows("omp") = 1..Len(stamp["omp"]) /\ Len(stamp["omp"]) \in Nat
    BY LogShape DEF IInv, LogInv
  <2>2. n \in Rows("omp")
    BY <2>1
  <2> QED BY <2>2 DEF KeptInv, OmpInv
<1> QED BY <1>1, InitHolds, StepHolds, InitTypes, TypeStep, InitKept, KeptStep, PTL DEF Spec
=============================================================================
