------------------------- MODULE TransactionParts_proofs -------------------------
(***************************************************************************)
(* How a request is split into transactions: proofs.  For every amount,    *)
(* fee and number of notes:                                                *)
(*   - a returned plan can be executed, delivers the requests in their     *)
(*     order and is the shortest one (PlanExecutes);                       *)
(*   - a request is given up only when no plan exists (PlanFound);         *)
(*   - the fee estimation agrees with the transaction (EstimateAgrees);    *)
(*   - without dust the maximum shown is exact (MaxExactNoDust).           *)
(* The proofs compare running balances: Left, after each aggregation, and  *)
(* After, after each transfer that follows them.  The invariant PartsInv   *)
(* says that the search has refused every smaller number of aggregations;  *)
(* LastGroup is why it need not try the one that takes every group.        *)
(* Recursive functions are reasoned about with Upto: a set that contains 0 *)
(* and the successor of each of its elements contains every number up to n.*)
(***************************************************************************)
EXTENDS TransactionParts, SequenceTheorems, WellFoundedInduction, TLAPS

-----------------------------------------------------------------------------
(* Running totals.                                                         *)

\* A set of naturals that is not empty has a least element.
LEMMA NatLeast ==
    ASSUME NEW S, S \subseteq Nat, S # {}
    PROVE  \E m \in S : \A k \in S : m <= k
<1>1. IsWellFoundedOn(OpToRel(<, Nat), Nat)
  BY NatLessThanWellFounded, Zenon
<1>2. PICK m \in S : \A k \in S : <<k, m>> \notin OpToRel(<, Nat)
  BY <1>1, WFMin, Zenon
<1>3. \A k \in S : ~ (k < m)
  BY <1>2, Zenon DEF OpToRel
<1> QED BY <1>3, SMT

\* Induction up to n.
LEMMA Upto ==
    ASSUME NEW n \in Nat, NEW S, 0 \in S, \A k \in 0 .. (n - 1) : k \in S => k + 1 \in S
    PROVE  \A k \in 0 .. n : k \in S
<1> DEFINE out == {k \in 0 .. n : k \notin S}
<1>1. SUFFICES ASSUME out # {} PROVE FALSE
  OBVIOUS
<1>2. PICK m \in out : \A k \in out : m <= k
  <2>1. out \subseteq Nat
    OBVIOUS
  <2> HIDE DEF out
  <2> QED BY <1>1, <2>1, NatLeast
<1>3. m - 1 \in 0 .. (n - 1) /\ m - 1 \notin out /\ (m - 1) + 1 = m
  BY <1>2
<1>4. m - 1 \in S
  BY <1>3
<1>5. m \in S
  BY <1>3, <1>4
<1> QED BY <1>5

\* The equations of Running.
LEMMA RunningIs ==
    ASSUME NEW b \in Int, NEW d \in Seq(Int)
    PROVE  /\ Running(b, d) \in [0 .. Len(d) -> Int] /\ Running(b, d)[0] = b
           /\ \A k \in 1 .. Len(d) : Running(b, d)[k] = Running(b, d)[k - 1] + d[k]
<1> DEFINE n == Len(d)
           Good(f, k) == f \in [0 .. k -> Int] /\ f[0] = b /\ \A j \in 1 .. k : f[j] = f[j - 1] + d[j]
           S == {k \in 0 .. n : \E f : Good(f, k)}
<1>1. n \in Nat /\ \A k \in 1 .. n : d[k] \in Int
  OBVIOUS
<1> HIDE DEF n
<1>2. 0 \in S
  <2>1. Good([j \in 0 .. 0 |-> b], 0)
    OBVIOUS
  <2> HIDE DEF Good
  <2> QED BY <1>1, <2>1
<1>3. ASSUME NEW k \in 0 .. (n - 1), k \in S
      PROVE  k + 1 \in S
  <2>1. PICK f : Good(f, k)
    BY <1>3
  <2>2. k \in Nat /\ k + 1 \in 0 .. n /\ k + 1 \in 1 .. n
    BY <1>1
  <2> DEFINE g == [j \in 0 .. (k + 1) |-> IF j <= k THEN f[j] ELSE f[k] + d[k + 1]]
  <2>3. g \in [0 .. (k + 1) -> Int] /\ g[0] = b
    BY <1>1, <2>1, <2>2
  <2>4. ASSUME NEW j \in 1 .. (k + 1) PROVE g[j] = g[j - 1] + d[j]
    <3>1. CASE j <= k
      BY <2>1, <2>2, <3>1
    <3>2. CASE j = k + 1
      BY <2>1, <2>2, <3>2
    <3> QED BY <2>2, <3>1, <3>2
  <2>5. Good(g, k + 1)
    BY <2>3, <2>4
  <2> HIDE DEF Good, g
  <2> QED BY <2>2, <2>5
<1>4. n \in S
  <2> HIDE DEF S
  <2>1. \A k \in 0 .. n : k \in S
    BY <1>1, <1>2, <1>3, Upto
  <2> QED BY <1>1, <2>1
<1>5. PICK f : Good(f, n)
  BY <1>4
<1>6. f = [k \in 0 .. n |-> IF k = 0 THEN b ELSE f[k - 1] + d[k]]
  BY <1>1, <1>5
<1> DEFINE r == Running(b, d)
<1>7. r = [k \in 0 .. n |-> IF k = 0 THEN b ELSE r[k - 1] + d[k]]
  BY <1>6 DEF Running, n
<1> HIDE DEF r, Good
<1> DEFINE R == {k \in 0 .. n : r[k] \in Int}
<1>8. 0 \in R
  BY <1>1, <1>7
<1>9. ASSUME NEW k \in 0 .. (n - 1), k \in R PROVE k + 1 \in R
  <2>1. k + 1 \in 0 .. n /\ k + 1 \in 1 .. n /\ (k + 1) - 1 = k /\ k + 1 # 0
    BY <1>1
  <2>2. r[k + 1] = r[k] + d[k + 1]
    BY <1>7, <2>1
  <2> QED BY <1>1, <1>9, <2>1, <2>2
<1>10. \A k \in 0 .. n : k \in R
  <2> HIDE DEF R
  <2> QED BY <1>1, <1>8, <1>9, Upto
<1>11. r \in [0 .. n -> Int]
  BY <1>7, <1>10
<1>12. r[0] = b /\ \A k \in 1 .. n : r[k] = r[k - 1] + d[k]
  BY <1>1, <1>7
<1> QED BY <1>11, <1>12 DEF r, n

\* One more change.
LEMMA RunningNext ==
    ASSUME NEW b \in Int, NEW d \in Seq(Int), NEW k \in Nat, k + 1 <= Len(d)
    PROVE  /\ Running(b, d)[k + 1] = Running(b, d)[k] + d[k + 1]
           /\ Running(b, d)[k] \in Int /\ Running(b, d)[k + 1] \in Int /\ d[k + 1] \in Int
<1>1. k + 1 \in 1 .. Len(d) /\ (k + 1) - 1 = k /\ k \in 0 .. Len(d) /\ k + 1 \in 0 .. Len(d)
  OBVIOUS
<1>2. d[k + 1] \in Int
  BY <1>1
<1>3. Running(b, d) \in [0 .. Len(d) -> Int]
  BY RunningIs
<1>4. Running(b, d)[k + 1] = Running(b, d)[(k + 1) - 1] + d[k + 1]
  BY <1>1, RunningIs
<1> QED BY <1>1, <1>2, <1>3, <1>4

\* Two runs that agree on their changes up to n.
LEMMA RunningSame ==
    ASSUME NEW b \in Int, NEW d \in Seq(Int), NEW e \in Seq(Int), NEW n \in Nat,
           n <= Len(d), n <= Len(e), \A k \in 1 .. n : d[k] = e[k]
    PROVE  \A k \in 0 .. n : Running(b, d)[k] = Running(b, e)[k]
<1> DEFINE S == {k \in 0 .. n : Running(b, d)[k] = Running(b, e)[k]}
<1>1. 0 \in S
  BY RunningIs
<1>2. ASSUME NEW k \in 0 .. (n - 1), k \in S PROVE k + 1 \in S
  <2>1. k \in Nat /\ k + 1 <= Len(d) /\ k + 1 <= Len(e) /\ k + 1 \in 1 .. n /\ k + 1 \in 0 .. n
    OBVIOUS
  <2>2. Running(b, d)[k + 1] = Running(b, d)[k] + d[k + 1]
    BY <2>1, RunningNext
  <2>3. Running(b, e)[k + 1] = Running(b, e)[k] + e[k + 1]
    BY <2>1, RunningNext
  <2> QED BY <1>2, <2>1, <2>2, <2>3
<1>3. \A k \in 0 .. n : k \in S
  <2> HIDE DEF S
  <2> QED BY <1>1, <1>2, Upto
<1> QED BY <1>3

\* A run that goes on from what it has reached after m changes.
LEMMA RunningFrom ==
    ASSUME NEW b \in Int, NEW d \in Seq(Int), NEW e \in Seq(Int), NEW m \in Nat, NEW n \in Nat,
           m + n <= Len(d), n <= Len(e), \A k \in 1 .. n : e[k] = d[m + k]
    PROVE  \A k \in 0 .. n : Running(b, d)[m + k] = Running(Running(b, d)[m], e)[k]
<1> DEFINE c == Running(b, d)[m]
           S == {k \in 0 .. n : Running(b, d)[m + k] = Running(c, e)[k]}
<1>1. c \in Int
  <2>1. m \in 0 .. Len(d)
    OBVIOUS
  <2> QED BY <2>1, RunningIs
<1>2. 0 \in S
  <2>1. Running(c, e)[0] = c /\ m + 0 = m
    BY <1>1, RunningIs
  <2> QED BY <2>1
<1>3. ASSUME NEW k \in 0 .. (n - 1), k \in S PROVE k + 1 \in S
  <2>1. k \in Nat /\ k + 1 <= Len(e) /\ m + k \in Nat /\ (m + k) + 1 <= Len(d) /\ k + 1 \in 1 .. n
        /\ k + 1 \in 0 .. n /\ (m + k) + 1 = m + (k + 1)
    OBVIOUS
  <2>2. Running(b, d)[(m + k) + 1] = Running(b, d)[m + k] + d[(m + k) + 1]
    BY <2>1, RunningNext
  <2> HIDE DEF c
  <2>3. Running(c, e)[k + 1] = Running(c, e)[k] + e[k + 1]
    BY <1>1, <2>1, RunningNext
  <2> QED BY <1>3, <2>1, <2>2, <2>3
<1>4. \A k \in 0 .. n : k \in S
  <2> HIDE DEF S
  <2> QED BY <1>2, <1>3, Upto
<1> QED BY <1>4

\* The first n changes of f are those of d and of e.
Both(d, e, f, n) ==
    /\ d \in Seq(Int) /\ e \in Seq(Int) /\ f \in Seq(Int) /\ n \in Nat
    /\ n <= Len(d) /\ n <= Len(e) /\ n <= Len(f)
    /\ \A k \in 1 .. n : f[k] = d[k] + e[k]

\* The sum of two runs.
LEMMA RunningSum ==
    ASSUME NEW b \in Int, NEW d, NEW e, NEW f, NEW n, Both(d, e, f, n)
    PROVE  \A k \in 0 .. n : Running(b, f)[k] = Running(b, d)[k] + Running(0, e)[k]
<1> DEFINE S == {k \in 0 .. n : Running(b, f)[k] = Running(b, d)[k] + Running(0, e)[k]}
<1> USE DEF Both
<1>1. 0 \in S
  <2>1. 0 \in Int /\ b + 0 = b
    OBVIOUS
  <2> QED BY <2>1, RunningIs
<1>2. ASSUME NEW k \in 0 .. (n - 1), k \in S PROVE k + 1 \in S
  <2>1. k \in Nat /\ k + 1 <= Len(d) /\ k + 1 <= Len(e) /\ k + 1 <= Len(f) /\ k + 1 \in 1 .. n
        /\ k + 1 \in 0 .. n
    OBVIOUS
  <2>2. Running(b, d)[k + 1] = Running(b, d)[k] + d[k + 1] /\ Running(b, d)[k] \in Int /\ d[k + 1] \in Int
    BY <2>1, RunningNext
  <2>0. 0 \in Int
    OBVIOUS
  <2>3. Running(0, e)[k + 1] = Running(0, e)[k] + e[k + 1] /\ Running(0, e)[k] \in Int /\ e[k + 1] \in Int
    BY <2>0, <2>1, RunningNext
  <2>4. Running(b, f)[k + 1] = Running(b, f)[k] + f[k + 1]
    BY <2>1, RunningNext
  <2>5. f[k + 1] = d[k + 1] + e[k + 1] /\ Running(b, f)[k] = Running(b, d)[k] + Running(0, e)[k]
    BY <1>2, <2>1
  <2> DEFINE x == Running(b, d)[k]
             y == Running(0, e)[k]
             u == d[k + 1]
             v == e[k + 1]
  <2>6. x \in Int /\ y \in Int /\ u \in Int /\ v \in Int
    BY <2>2, <2>3
  <2>7. Running(b, f)[k + 1] = (x + y) + (u + v)
    BY <2>4, <2>5
  <2>8. Running(b, d)[k + 1] = x + u /\ Running(0, e)[k + 1] = y + v
    BY <2>2, <2>3
  <2> HIDE DEF x, y, u, v
  <2>9. (x + y) + (u + v) = (x + u) + (y + v)
    BY <2>6
  <2>10. Running(b, f)[k + 1] = Running(b, d)[k + 1] + Running(0, e)[k + 1]
    BY <2>7, <2>8, <2>9
  <2> QED BY <2>1, <2>10
<1>3. \A k \in 0 .. n : k \in S
  <2> HIDE DEF S
  <2> QED BY <1>1, <1>2, Upto
<1> QED BY <1>3

\* A run that never loses does not decrease.
LEMMA RunningGrows ==
    ASSUME NEW b \in Int, NEW d \in Seq(Int), NEW m \in Nat, NEW n \in Nat, m + n <= Len(d),
           \A k \in 1 .. n : d[m + k] >= 0
    PROVE  \A k \in 0 .. n : Running(b, d)[m + k] >= Running(b, d)[m]
<1> DEFINE S == {k \in 0 .. n : Running(b, d)[m + k] >= Running(b, d)[m]}
<1>1. m \in 0 .. Len(d)
  OBVIOUS
<1>2. 0 \in S
  <2>1. m + 0 = m /\ m \in 0 .. Len(d)
    OBVIOUS
  <2>2. Running(b, d)[m] \in Int
    BY <2>1, RunningIs
  <2> QED BY <2>1, <2>2
<1>3. ASSUME NEW k \in 0 .. (n - 1), k \in S PROVE k + 1 \in S
  <2>1. m + k \in Nat /\ (m + k) + 1 <= Len(d) /\ k + 1 \in 1 .. n /\ k + 1 \in 0 .. n
        /\ (m + k) + 1 = m + (k + 1) 
    OBVIOUS
  <2>2. Running(b, d)[(m + k) + 1] = Running(b, d)[m + k] + d[(m + k) + 1] /\ Running(b, d)[m + k] \in Int
        /\ d[(m + k) + 1] \in Int
    BY <2>1, RunningNext
  <2>3. Running(b, d)[m] \in Int
    BY <1>1, RunningIs
  <2>4. d[m + (k + 1)] >= 0 /\ Running(b, d)[m + k] >= Running(b, d)[m]
    BY <1>3, <2>1
  <2>5. Running(b, d)[m + (k + 1)] >= Running(b, d)[m]
    BY <2>1, <2>2, <2>3, <2>4
  <2> QED BY <2>1, <2>5
<1>4. \A k \in 0 .. n : k \in S
  <2> HIDE DEF S
  <2> QED BY <1>2, <1>3, Upto
<1> QED BY <1>4

\* Running from another start.
LEMMA RunningShift ==
    ASSUME NEW b \in Int, NEW d \in Seq(Int), NEW k \in 0 .. Len(d)
    PROVE  Running(b, d)[k] = b + Running(0, d)[k]
<1> DEFINE n == Len(d)
           S == {j \in 0 .. n : Running(b, d)[j] = b + Running(0, d)[j]}
<1>1. n \in Nat /\ 0 \in Int
  OBVIOUS
<1>2. 0 \in S
  <2>1. Running(b, d)[0] = b /\ Running(0, d)[0] = 0
    BY <1>1, RunningIs
  <2> QED BY <1>1, <2>1
<1>3. ASSUME NEW j \in 0 .. (n - 1), j \in S PROVE j + 1 \in S
  <2>1. j \in Nat /\ j + 1 <= Len(d) /\ j + 1 \in 0 .. n
    BY <1>1
  <2>2. Running(b, d)[j + 1] = Running(b, d)[j] + d[j + 1] /\ Running(b, d)[j] \in Int /\ d[j + 1] \in Int
    BY <2>1, RunningNext
  <2>3. Running(0, d)[j + 1] = Running(0, d)[j] + d[j + 1] /\ Running(0, d)[j] \in Int
    BY <1>1, <2>1, RunningNext
  <2>4. Running(b, d)[j] = b + Running(0, d)[j]
    BY <1>3
  <2> QED BY <2>1, <2>2, <2>3, <2>4
<1>4. \A j \in 0 .. n : j \in S
  <2> HIDE DEF S, n
  <2> QED BY <1>1, <1>2, <1>3, Upto
<1> QED BY <1>4

\* A run of numbers that are not negative does not decrease.
LEMMA RunningUp ==
    ASSUME NEW b \in Int, NEW d \in Seq(Nat), NEW j \in 0 .. Len(d), NEW k \in j .. Len(d)
    PROVE  Running(b, d)[j] <= Running(b, d)[k]
<1>1. d \in Seq(Int) /\ j \in Nat /\ k - j \in Nat /\ j + (k - j) = k /\ k - j \in 0 .. (k - j)
      /\ j + (k - j) <= Len(d)
  OBVIOUS
<1>2. \A l \in 1 .. (k - j) : d[j + l] >= 0
  OBVIOUS
<1>3. \A l \in 0 .. (k - j) : Running(b, d)[j + l] >= Running(b, d)[j]
  BY <1>1, <1>2, RunningGrows
<1>4. Running(b, d)[k] >= Running(b, d)[j]
  BY <1>1, <1>3
<1>5. Running(b, d)[k] \in Int /\ Running(b, d)[j] \in Int
  <2>1. Running(b, d) \in [0 .. Len(d) -> Int]
    BY <1>1, RunningIs
  <2>2. k \in 0 .. Len(d)
    OBVIOUS
  <2> QED BY <2>1, <2>2
<1> QED BY <1>4, <1>5

\* A total is an integer; nothing adds up to 0; what is not negative to a natural.
LEMMA TotalIs ==
    ASSUME NEW s \in Seq(Int)
    PROVE  Total(s) \in Int
<1>1. Len(s) \in 0 .. Len(s)
  OBVIOUS
<1> QED BY <1>1, RunningIs DEF Total

\* Nothing adds up to 0.
LEMMA TotalOfNone == Total(<<>>) = 0
<1>1. <<>> \in Seq(Int) /\ Len(<<>>) = 0 /\ 0 \in Int
  OBVIOUS
<1>2. Running(0, <<>>)[0] = 0
  BY <1>1, RunningIs
<1> QED BY <1>1, <1>2 DEF Total

\* The total of naturals is one.
LEMMA TotalNat ==
    ASSUME NEW s \in Seq(Nat)
    PROVE  Total(s) \in Nat
<1>1. s \in Seq(Int) /\ 0 \in 0 .. Len(s) /\ Len(s) \in 0 .. Len(s)
  OBVIOUS
<1>2. Running(0, s)[0] <= Running(0, s)[Len(s)]
  BY <1>1, RunningUp
<1>3. Running(0, s)[0] = 0 /\ Total(s) \in Int
  BY <1>1, RunningIs, TotalIs
<1> QED BY <1>2, <1>3 DEF Total

\* The total of a segment is the difference of two running totals.
LEMMA TotalOfSegment ==
    ASSUME NEW s \in Seq(Int), NEW a \in 0 .. Len(s), NEW b \in a .. Len(s)
    PROVE  Total(SubSeq(s, a + 1, b)) = Running(0, s)[b] - Running(0, s)[a]
<1> DEFINE e == SubSeq(s, a + 1, b)
           c == Running(0, s)[a]
<1>1. a \in Nat /\ b - a \in Nat /\ a + (b - a) <= Len(s) /\ a + (b - a) = b /\ b \in 0 .. Len(s)
      /\ b - a \in 0 .. (b - a)
  OBVIOUS
<1>2. e \in Seq(Int) /\ Len(e) = b - a /\ \A k \in 1 .. (b - a) : e[k] = s[a + k]
  <2>1. e \in Seq(Int) /\ Len(e) = b - a
    OBVIOUS
  <2>2. ASSUME NEW k \in 1 .. (b - a) PROVE e[k] = s[a + k]
    <3>1. e[k] = s[(a + 1) + k - 1]
      OBVIOUS
    <3>2. (a + 1) + k - 1 = a + k
      OBVIOUS
    <3> QED BY <3>1, <3>2
  <2> QED BY <2>1, <2>2
<1> HIDE DEF e
<1>3. \A k \in 0 .. (b - a) : Running(0, s)[a + k] = Running(Running(0, s)[a], e)[k]
  <2>1. 0 \in Int /\ b - a <= Len(e)
    BY <1>1, <1>2
  <2> QED BY <1>1, <1>2, <2>1, RunningFrom
<1>4. Running(0, s)[b] = Running(c, e)[b - a]
  BY <1>1, <1>3
<1>5. c \in Int /\ Running(0, s)[b] \in Int
  <2>1. Running(0, s) \in [0 .. Len(s) -> Int]
    BY RunningIs
  <2> QED BY <1>1, <2>1
<1> HIDE DEF c
<1>6. Running(c, e)[b - a] = c + Running(0, e)[b - a]
  <2>1. b - a \in 0 .. Len(e)
    BY <1>1, <1>2
  <2> QED BY <1>2, <1>5, <2>1, RunningShift
<1>7. Total(e) = Running(0, e)[b - a] /\ Total(e) \in Int
  BY <1>2, TotalIs DEF Total
<1>8. Running(0, s)[b] = c + Total(e)
  BY <1>4, <1>6, <1>7
<1> QED BY <1>5, <1>7, <1>8 DEF c, e

-----------------------------------------------------------------------------
(* Chunks: how notes are grouped, and requests put into transactions.      *)

\* How many elements are in the first k chunks.
Cut(s, n, k) == IF k * n < Len(s) THEN k * n ELSE Len(s)

\* The number of chunks: the last one may be shorter.
LEMMA Division ==
    ASSUME NEW L \in Nat, NEW n \in Nat, n > 0
    PROVE  LET N == (L + n - 1) \div n
           IN  N \in Nat /\ L <= N * n /\ (N > 0 => (N - 1) * n < L) /\ (L > 0 => N > 0)
<1> DEFINE x == L + n - 1
           N == x \div n
           r == x % n
<1>1. x \in Nat /\ n \in Nat /\ n > 0
  OBVIOUS
<1>2. N \in Int /\ r \in 0 .. (n - 1) /\ x = N * n + r
  <2> HIDE DEF x
  <2> QED BY <1>1
<1>3. N * n \in Int /\ (N - 1) * n = N * n - n
  BY <1>1, <1>2
<1>4. L = N * n + r - n + 1
  BY <1>2
<1> HIDE DEF x, r, N
<1>5. L <= N * n
  BY <1>1, <1>2, <1>3, <1>4
<1>6. (N - 1) * n < L
  BY <1>1, <1>2, <1>3, <1>4
<1>7. N >= 0
  <2> SUFFICES ASSUME N <= -1 PROVE FALSE
    BY <1>2
  <2>1. N * n <= 0 - n
    BY <1>1, <1>2
  <2> QED BY <1>1, <1>2, <1>5, <2>1
<1>8. L > 0 => N > 0
  <2> SUFFICES ASSUME N = 0 PROVE L <= 0
    BY <1>2, <1>7
  <2>1. N * n = 0
    BY <1>1
  <2> QED BY <1>5, <2>1
<1> QED BY <1>2, <1>5, <1>6, <1>7, <1>8 DEF N, x

\* The chunks follow each other from the first element to the last.
LEMMA ChunksAre ==
    ASSUME NEW D, NEW s \in Seq(D), NEW n \in Nat, n > 0
    PROVE  /\ Chunks(s, n) \in Seq(Seq(D)) /\ Cut(s, n, 0) = 0
           /\ Cut(s, n, Len(Chunks(s, n))) = Len(s)
           /\ \A k \in Nat : Cut(s, n, k) \in 0 .. Len(s)
           /\ \A k \in Nat : k >= Len(Chunks(s, n)) => k * n >= Len(s)
           /\ \A k \in 1 .. Len(Chunks(s, n)) :
                 /\ Chunks(s, n)[k] = SubSeq(s, Cut(s, n, k - 1) + 1, Cut(s, n, k))
                 /\ Cut(s, n, k - 1) = (k - 1) * n /\ Cut(s, n, k - 1) < Cut(s, n, k)
           /\ (s # <<>> => Len(Chunks(s, n)) > 0)
<1> DEFINE L == Len(s)
           N == (L + n - 1) \div n
           cut(k) == Cut(s, n, k)
<1>1. L \in Nat /\ (s # <<>> => L > 0)
  OBVIOUS
<1>2. N \in Nat /\ L <= N * n /\ (N > 0 => (N - 1) * n < L) /\ (L > 0 => N > 0)
  <2> HIDE DEF L
  <2> QED BY <1>1, Division
<1> HIDE DEF N
<1>3. \A j, k \in Nat : j <= k => j * n <= k * n
  <2> SUFFICES ASSUME NEW j \in Nat, NEW k \in Nat, j <= k PROVE j * n <= k * n
    OBVIOUS
  <2>1. k - j \in Nat /\ k = j + (k - j)
    OBVIOUS
  <2>2. (k - j) * n \in Nat
    BY <2>1
  <2>3. k * n = j * n + (k - j) * n
    BY <2>1
  <2>4. j * n \in Nat
    OBVIOUS
  <2> QED BY <2>2, <2>3, <2>4
<1>4. \A k \in Nat : k * n \in Nat
  OBVIOUS
<1>5. \A k \in Nat : cut(k) \in 0 .. L
  BY <1>1, <1>4 DEF Cut
<1>6. cut(0) = 0
  <2>1. 0 * n = 0
    OBVIOUS
  <2> QED BY <1>1, <2>1 DEF Cut
<1>7. \A k \in Nat : k >= N => k * n >= L
  <2> SUFFICES ASSUME NEW k \in Nat, k >= N PROVE k * n >= L
    OBVIOUS
  <2>1. N * n <= k * n
    BY <1>2, <1>3
  <2> HIDE DEF L
  <2> QED BY <1>1, <1>2, <1>4, <2>1
<1>8. cut(N) = L
  BY <1>1, <1>2, <1>4 DEF Cut
<1>9. ASSUME NEW k \in 1 .. N
      PROVE  cut(k - 1) = (k - 1) * n /\ cut(k - 1) < cut(k)
  <2>1. k - 1 \in Nat /\ N - 1 \in Nat /\ k - 1 <= N - 1 /\ N > 0 /\ k \in Nat
    BY <1>2
  <2>2. (k - 1) * n <= (N - 1) * n
    BY <1>3, <2>1
  <2>3. (k - 1) * n < L
    <3>1. (k - 1) * n \in Nat /\ (N - 1) * n \in Nat
      BY <1>4, <2>1
    <3> HIDE DEF L
    <3> QED BY <1>1, <1>2, <2>1, <2>2, <3>1
  <2>4. cut(k - 1) = (k - 1) * n
    BY <2>3 DEF Cut
  <2>5. (k - 1) * n < k * n
    <3>1. k * n = (k - 1) * n + n
      BY <2>1
    <3>2. (k - 1) * n \in Nat
      BY <1>4, <2>1
    <3> QED BY <3>1, <3>2
  <2>6. cut(k - 1) < cut(k)
    BY <2>3, <2>4, <2>5 DEF Cut
  <2> QED BY <2>4, <2>6
<1>10. Chunks(s, n) = [k \in 1 .. N |-> SubSeq(s, (k - 1) * n + 1, cut(k))]
  BY DEF Chunks, N, Cut
<1>11. \A k \in 1 .. N : Chunks(s, n)[k] = SubSeq(s, cut(k - 1) + 1, cut(k))
  BY <1>9, <1>10
<1>12. \A k \in 1 .. N : SubSeq(s, cut(k - 1) + 1, cut(k)) \in Seq(D)
  <2> SUFFICES ASSUME NEW k \in 1 .. N PROVE SubSeq(s, cut(k - 1) + 1, cut(k)) \in Seq(D)
    OBVIOUS
  <2>1. k - 1 \in Nat /\ k \in Nat
    BY <1>2
  <2>2. cut(k - 1) \in 0 .. L /\ cut(k) \in 0 .. L
    BY <1>5, <2>1
  <2> HIDE DEF cut
  <2>3. \A j \in (cut(k - 1) + 1) .. cut(k) : s[j] \in D
    BY <2>2
  <2> QED BY <2>2, <2>3
<1>13. Chunks(s, n) \in Seq(Seq(D)) /\ Len(Chunks(s, n)) = N
  <2>1. \A k \in 1 .. N : SubSeq(s, (k - 1) * n + 1, cut(k)) \in Seq(D)
    BY <1>9, <1>12
  <2> HIDE DEF cut
  <2> QED BY <1>2, <1>10, <2>1
<1> HIDE DEF cut, L
<1> QED BY <1>1, <1>2, <1>5, <1>6, <1>7, <1>8, <1>9, <1>11, <1>13 DEF cut, L

\* The running total of the chunks is the one of the elements, at the cuts.
LEMMA ChunkTotals ==
    ASSUME NEW s \in Seq(Int), NEW n \in Nat, n > 0, NEW sums,
           sums = [k \in DOMAIN Chunks(s, n) |-> Total(Chunks(s, n)[k])]
    PROVE  /\ sums \in Seq(Int) /\ Len(sums) = Len(Chunks(s, n))
           /\ \A k \in 0 .. Len(sums) : Running(0, sums)[k] = Running(0, s)[Cut(s, n, k)]
           /\ Total(sums) = Total(s)
<1> DEFINE C == Chunks(s, n)
           P == Running(0, s)
           N == Len(C)
           cut(k) == Cut(s, n, k)
<1>1. C \in Seq(Seq(Int)) /\ N \in Nat /\ cut(0) = 0 /\ cut(N) = Len(s)
  <2>1. Chunks(s, n) \in Seq(Seq(Int)) /\ Cut(s, n, 0) = 0 /\ Cut(s, n, Len(Chunks(s, n))) = Len(s)
    BY ChunksAre
  <2> QED BY <2>1
<1>2. \A k \in Nat : cut(k) \in 0 .. Len(s)
  BY ChunksAre
<1>3. \A k \in 1 .. N : C[k] = SubSeq(s, cut(k - 1) + 1, cut(k)) /\ cut(k - 1) < cut(k)
  BY ChunksAre
<1>4. P \in [0 .. Len(s) -> Int] /\ P[0] = 0
  BY RunningIs
<1>5. sums = [k \in 1 .. N |-> Total(C[k])]
  BY <1>1
<1> HIDE DEF C, N, P, cut
<1>6. ASSUME NEW k \in 1 .. N PROVE sums[k] = P[cut(k)] - P[cut(k - 1)]
  <2>1. k \in Nat /\ k - 1 \in Nat
    BY <1>1
  <2>2. cut(k) \in 0 .. Len(s) /\ cut(k - 1) \in 0 .. Len(s) /\ cut(k - 1) < cut(k)
    BY <1>2, <1>3, <2>1
  <2>3. cut(k) \in cut(k - 1) .. Len(s)
    BY <2>2
  <2>4. Total(SubSeq(s, cut(k - 1) + 1, cut(k))) = P[cut(k)] - P[cut(k - 1)]
    BY <2>2, <2>3, TotalOfSegment DEF P
  <2> QED BY <1>3, <1>5, <2>4
<1>7. \A k \in 1 .. N : P[cut(k)] \in Int /\ P[cut(k - 1)] \in Int
  <2> SUFFICES ASSUME NEW k \in 1 .. N PROVE P[cut(k)] \in Int /\ P[cut(k - 1)] \in Int
    OBVIOUS
  <2>1. k \in Nat /\ k - 1 \in Nat
    BY <1>1
  <2>2. cut(k) \in 0 .. Len(s) /\ cut(k - 1) \in 0 .. Len(s)
    BY <1>2, <2>1
  <2> QED BY <1>4, <2>2
<1>8. sums \in Seq(Int) /\ Len(sums) = N
  <2>1. \A k \in 1 .. N : Total(C[k]) \in Int
    BY <1>5, <1>6, <1>7
  <2>2. N \in Nat
    BY <1>1
  <2> QED BY <1>5, <2>1, <2>2
<1> DEFINE S == {k \in 0 .. N : Running(0, sums)[k] = P[cut(k)]}
<1>9. 0 \in S
  <2>1. 0 \in Int /\ Running(0, sums)[0] = 0
    BY <1>8, RunningIs
  <2> QED BY <1>1, <1>4, <2>1
<1>10. ASSUME NEW k \in 0 .. (N - 1), k \in S PROVE k + 1 \in S
  <2>1. k \in Nat /\ k + 1 \in 1 .. N /\ (k + 1) - 1 = k /\ k + 1 <= Len(sums) /\ k + 1 \in 0 .. N /\ 0 \in Int
    BY <1>1, <1>8
  <2>2. Running(0, sums)[k + 1] = Running(0, sums)[k] + sums[k + 1]
    BY <1>8, <2>1, RunningNext
  <2>3. sums[k + 1] = P[cut(k + 1)] - P[cut((k + 1) - 1)]
    BY <1>6, <2>1
  <2>4. P[cut(k + 1)] \in Int /\ P[cut((k + 1) - 1)] \in Int
    BY <1>7, <2>1
  <2>5. cut((k + 1) - 1) = cut(k)
    BY <2>1
  <2>6. Running(0, sums)[k] = P[cut(k)]
    BY <1>10
  <2>7. Running(0, sums)[k + 1] = P[cut(k + 1)]
    BY <2>2, <2>3, <2>4, <2>5, <2>6
  <2> QED BY <2>1, <2>7
<1>11. \A k \in 0 .. N : k \in S
  <2> HIDE DEF S
  <2> QED BY <1>1, <1>9, <1>10, Upto
<1>12. \A k \in 0 .. N : Running(0, sums)[k] = P[cut(k)]
  BY <1>11
<1>13. Total(sums) = Total(s)
  <2>1. N \in 0 .. N
    BY <1>1
  <2>2. Running(0, sums)[N] = P[Len(s)]
    BY <1>1, <1>12, <2>1
  <2> QED BY <1>8, <2>2 DEF Total, P
<1> QED BY <1>8, <1>12, <1>13 DEF C, N, P, cut

\* The largest of some naturals up to n.
LEMMA MaxIs ==
    ASSUME NEW n \in Nat, NEW S, S \subseteq 0 .. n, S # {}
    PROVE  Max(S) \in S /\ \A k \in S : k <= Max(S)
<1> DEFINE R == {n - k : k \in S}
<1>1. R \subseteq Nat /\ R # {}
  <2>1. \A k \in S : n - k \in Nat
    OBVIOUS
  <2>2. PICK k : k \in S
    OBVIOUS
  <2>3. n - k \in R
    BY <2>2
  <2> QED BY <2>1, <2>3
<1>2. PICK r \in R : \A k \in R : r <= k
  <2> HIDE DEF R
  <2> QED BY <1>1, NatLeast
<1>3. PICK m \in S : r = n - m
  BY <1>2
<1>4. \A k \in S : m >= k
  <2> SUFFICES ASSUME NEW k \in S PROVE m >= k
    OBVIOUS
  <2>1. n - k \in R /\ k \in Int /\ m \in Int
    OBVIOUS
  <2>2. n - m <= n - k
    BY <1>2, <1>3, <2>1
  <2> QED BY <2>1, <2>2
<1>5. \E x \in S : \A y \in S : x >= y
  BY <1>4
<1>6. Max(S) \in S /\ \A y \in S : Max(S) >= y
  BY <1>5, Zenon DEF Max
<1> HIDE DEF R
<1>7. Max(S) \in Int /\ \A y \in S : y \in Int
  <2>1. \A y \in S : y \in Int
    OBVIOUS
  <2> QED BY <1>6, <2>1
<1> QED BY <1>6, <1>7

-----------------------------------------------------------------------------
(* The input: groups of notes, transfers and their fees.                   *)

\* What Init chooses.
InputOK ==
    /\ type \in {"transfer", "withdraw"} /\ balance \in Nat
    /\ notes \in Seq(Nat) /\ requests \in Seq(Nat \ {0}) /\ requests # <<>>

\* What the k-th transaction of a plan spends.
Spent(k) == Total(SubSeq(notes, (k - 1) * In + 1, IF k * In < Len(notes) THEN k * In ELSE Len(notes)))

\* The k-th transaction spends the k-th group, and nothing when there is none.
LEMMA GroupsAre ==
    ASSUME InputOK
    PROVE  /\ groups \in Seq(Nat) /\ Total(groups) = Total(notes)
           /\ \A k \in Nat \ {0} : GroupAt(k) \in Nat /\ Spent(k) = GroupAt(k)
           /\ \A k \in 1 .. Len(groups) : GroupAt(k) = groups[k]
           /\ \A k \in Nat : k > Len(groups) => GroupAt(k) = 0
<1> DEFINE C == Chunks(notes, In)
<1>1. In \in Nat /\ In > 0
  BY PartsAssumption
<1>2. notes \in Seq(Nat) /\ notes \in Seq(Int) /\ Len(notes) \in Nat
  BY DEF InputOK
<1>3. C \in Seq(Seq(Nat)) /\ \A k \in Nat : k >= Len(C) => k * In >= Len(notes)
  BY <1>1, <1>2, ChunksAre
<1>4. \A k \in 1 .. Len(C) : /\ C[k] = SubSeq(notes, Cut(notes, In, k - 1) + 1, Cut(notes, In, k))
                             /\ Cut(notes, In, k - 1) = (k - 1) * In
  BY <1>1, <1>2, ChunksAre
<1>5. groups = [k \in DOMAIN C |-> Total(C[k])]
  BY DEF groups
<1>6. Len(groups) = Len(C) /\ Total(groups) = Total(notes)
  BY <1>1, <1>2, <1>5, ChunkTotals
<1> HIDE DEF C
<1>7. groups \in Seq(Nat)
  <2>1. DOMAIN C = 1 .. Len(C) /\ Len(C) \in Nat
    BY <1>3
  <2>2. \A k \in DOMAIN C : C[k] \in Seq(Nat)
    BY <1>3
  <2>3. \A k \in 1 .. Len(C) : Total(C[k]) \in Nat
    BY <2>1, <2>2, TotalNat
  <2> QED BY <1>5, <2>1, <2>3
<1>8. DOMAIN groups = 1 .. Len(groups) /\ Len(groups) \in Nat
  BY <1>7
<1>9. \A k \in 1 .. Len(groups) : GroupAt(k) = groups[k] /\ groups[k] \in Nat
  BY <1>7, <1>8 DEF GroupAt
<1>10. \A k \in Nat : k > Len(groups) => GroupAt(k) = 0
  BY <1>8 DEF GroupAt
<1>11. ASSUME NEW k \in Nat \ {0} PROVE Spent(k) = GroupAt(k)
  <2>1. CASE k <= Len(groups)
    <3>1. k \in 1 .. Len(C) /\ k \in 1 .. Len(groups)
      BY <1>6, <1>8, <2>1
    <3>2. Spent(k) = Total(C[k])
      BY <1>4, <3>1 DEF Spent, Cut
    <3>3. DOMAIN C = 1 .. Len(C)
      BY <1>3
    <3>4. groups[k] = Total(C[k])
      BY <1>5, <3>1, <3>3
    <3> QED BY <1>9, <3>1, <3>2, <3>4
  <2>2. CASE k > Len(groups)
    <3>1. k - 1 \in Nat /\ k - 1 >= Len(C) /\ k \in Nat /\ k >= Len(C)
      BY <1>6, <1>8, <2>2
    <3>2. (k - 1) * In >= Len(notes) /\ k * In >= Len(notes)
      BY <1>3, <3>1
    <3>3. (k - 1) * In \in Nat /\ k * In \in Nat
      BY <1>1, <3>1
    <3>4. Spent(k) = Total(SubSeq(notes, (k - 1) * In + 1, Len(notes)))
      BY <1>2, <3>2, <3>3 DEF Spent
    <3> DEFINE a == (k - 1) * In + 1
    <3>5. a \in Nat /\ a > Len(notes)
      BY <1>2, <3>2, <3>3
    <3> HIDE DEF a
    <3>6. SubSeq(notes, a, Len(notes)) = <<>>
      BY <1>2, <3>5
    <3> QED BY <1>10, <2>2, <3>4, <3>6, TotalOfNone DEF a
  <2> QED BY <1>8, <2>1, <2>2
<1> QED BY <1>6, <1>7, <1>8, <1>9, <1>10, <1>11

\* There is a transfer, each delivers something, and its fee is a natural.
LEMMA TransfersAre ==
    ASSUME InputOK
    PROVE  /\ transfers \in Seq(Seq(Nat \ {0})) /\ Len(transfers) \in Nat \ {0}
           /\ \A k \in 1 .. Len(transfers) :
                 transfers[k] \in Seq(Nat \ {0}) /\ Total(transfers[k]) \in Nat \ {0} /\ FinalFee(k) \in Nat
           /\ AggregationFee \in Nat
<1>1. Out \in Nat /\ Out > 0 /\ BaseFee \in Nat /\ NoteFee \in Nat /\ WithdrawFee \in Nat
  BY PartsAssumption
<1>2. requests \in Seq(Nat \ {0}) /\ requests \in Seq(Int) /\ requests # <<>>
  BY DEF InputOK
<1>3. transfers \in Seq(Seq(Nat \ {0})) /\ (requests # <<>> => Len(transfers) > 0)
  BY <1>1, <1>2, ChunksAre DEF transfers
<1>4. Len(transfers) \in Nat \ {0}
  BY <1>2, <1>3
<1>5. \A m \in Nat : Fee(type, m) \in Nat /\ Fee("transfer", m) \in Nat
  <2> SUFFICES ASSUME NEW m \in Nat PROVE Fee(type, m) \in Nat /\ Fee("transfer", m) \in Nat
    OBVIOUS
  <2>1. m * NoteFee \in Nat
    BY <1>1
  <2> QED BY <1>1, <2>1 DEF Fee
<1>6. ASSUME NEW k \in 1 .. Len(transfers)
      PROVE  transfers[k] \in Seq(Nat \ {0}) /\ Total(transfers[k]) \in Nat \ {0} /\ FinalFee(k) \in Nat
  <2>1. transfers[k] \in Seq(Nat \ {0}) /\ Len(transfers[k]) \in Nat
    BY <1>3
  <2>2. FinalFee(k) \in Nat
    BY <1>5, <2>1 DEF FinalFee
  <2> DEFINE s == transfers[k]
  <2>3. s \in Seq(Int) /\ s \in Seq(Nat) /\ s # <<>>
    <3>1. s \in Seq(Int) /\ s \in Seq(Nat)
      BY <2>1
    <3> DEFINE a == Cut(requests, Out, k - 1)
               b == Cut(requests, Out, k)
    <3>2. k - 1 \in Nat /\ k \in Nat
      BY <1>4
    <3>3. s = SubSeq(requests, a + 1, b) /\ a < b
      BY <1>1, <1>2, ChunksAre DEF transfers
    <3>4. a \in 0 .. Len(requests) /\ b \in 0 .. Len(requests)
      BY <1>1, <1>2, <3>2, ChunksAre
    <3> HIDE DEF a, b
    <3>5. s # <<>>
      <4> HIDE DEF s
      <4>1. Len(SubSeq(requests, a + 1, b)) = b - a
        BY <1>2, <3>3, <3>4
      <4> QED BY <3>3, <3>4, <4>1
    <3> QED BY <3>1, <3>5
  <2>4. s[1] \in Nat \ {0} /\ 0 \in Nat /\ 1 \in 0 .. Len(s) /\ Len(s) \in 1 .. Len(s) /\ 0 + 1 <= Len(s)
    BY <2>1, <2>3
  <2> HIDE DEF s
  <2>5. Running(0, s)[0 + 1] = Running(0, s)[0] + s[0 + 1]
    BY <2>3, <2>4, RunningNext
  <2>6. Running(0, s)[0] = 0
    BY <2>3, RunningIs
  <2>7. Running(0, s)[1] <= Running(0, s)[Len(s)]
    BY <2>3, <2>4, RunningUp
  <2>8. Total(s) \in Nat
    BY <2>3, TotalNat
  <2>9. Running(0, s)[1] = s[1]
    BY <2>4, <2>5, <2>6
  <2>10. Total(s) >= s[1]
    BY <2>7, <2>9 DEF Total
  <2>11. Total(s) \in Nat \ {0}
    BY <2>4, <2>8, <2>10
  <2> QED BY <2>1, <2>2, <2>11 DEF s
<1>7. AggregationFee \in Nat
  BY <1>5 DEF AggregationFee
<1> QED BY <1>3, <1>4, <1>6, <1>7

-----------------------------------------------------------------------------
(* Balances.                                                               *)

\* The balance after each of the possible aggregations.
Left == Running(balance, [k \in 1 .. Len(groups) |-> groups[k] - AggregationFee])

\* What the k-th transfer changes when it is sent after `from` aggregations.
Change(from, k) == GroupAt(from + k) - Total(transfers[k]) - FinalFee(k)

\* The balance never becomes negative when m aggregations come first.
Pays(m) ==
    /\ \A k \in 1 .. m : Left[k] >= 0
    /\ \A j \in 1 .. Len(transfers) : After(Left[m], m)[j] >= 0

\* The equations of Left.
LEMMA LeftIs ==
    ASSUME InputOK
    PROVE  /\ Left \in [0 .. Len(groups) -> Int] /\ Left[0] = balance
           /\ \A k \in 1 .. Len(groups) : Left[k] = Left[k - 1] + (groups[k] - AggregationFee)
<1> DEFINE d == [k \in 1 .. Len(groups) |-> groups[k] - AggregationFee]
<1>1. groups \in Seq(Nat) /\ AggregationFee \in Nat /\ balance \in Int
  BY GroupsAre, TransfersAre DEF InputOK
<1>2. d \in Seq(Int) /\ Len(d) = Len(groups) /\ \A k \in 1 .. Len(groups) : d[k] = groups[k] - AggregationFee
  BY <1>1
<1> HIDE DEF d
<1>3. /\ Running(balance, d) \in [0 .. Len(d) -> Int] /\ Running(balance, d)[0] = balance
      /\ \A k \in 1 .. Len(d) : Running(balance, d)[k] = Running(balance, d)[k - 1] + d[k]
  BY <1>1, <1>2, RunningIs
<1>4. Left = Running(balance, d)
  BY DEF Left, d
<1> QED BY <1>2, <1>3, <1>4

\* The equations of After.
LEMMA AfterIs ==
    ASSUME InputOK, NEW start \in Int, NEW from \in Nat
    PROVE  /\ After(start, from) \in [0 .. Len(transfers) -> Int] /\ After(start, from)[0] = start
           /\ \A k \in 1 .. Len(transfers) :
                 /\ Change(from, k) \in Int
                 /\ After(start, from)[k] = After(start, from)[k - 1] + Change(from, k)
<1> DEFINE T == Len(transfers)
           d == [k \in 1 .. T |-> GroupAt(from + k) - Total(transfers[k]) - FinalFee(k)]
<1>1. T \in Nat /\ \A k \in 1 .. T : Total(transfers[k]) \in Nat /\ FinalFee(k) \in Nat
  BY TransfersAre
<1>2. \A k \in 1 .. T : GroupAt(from + k) \in Nat
  <2> SUFFICES ASSUME NEW k \in 1 .. T PROVE GroupAt(from + k) \in Nat
    OBVIOUS
  <2>1. from + k \in Nat \ {0}
    BY <1>1
  <2> QED BY <2>1, GroupsAre
<1> HIDE DEF T
<1>3. \A k \in 1 .. T : Change(from, k) \in Int /\ d[k] = Change(from, k)
  BY <1>1, <1>2 DEF Change
<1>4. d \in Seq(Int) /\ Len(d) = T
  BY <1>1, <1>2
<1> HIDE DEF d
<1>5. /\ Running(start, d) \in [0 .. Len(d) -> Int] /\ Running(start, d)[0] = start
      /\ \A k \in 1 .. Len(d) : Running(start, d)[k] = Running(start, d)[k - 1] + d[k]
  BY <1>4, RunningIs
<1>6. After(start, from) = Running(start, d)
  BY DEF After, d, T
<1>7. \A k \in 1 .. T : After(start, from)[k] = After(start, from)[k - 1] + Change(from, k)
  BY <1>3, <1>4, <1>5, <1>6
<1> QED BY <1>3, <1>4, <1>5, <1>6, <1>7 DEF T

\* tryToPrepareTransfers prepares the first transfers, and all of them exactly when
\* the balance never becomes negative.
LEMMA PreparedIs ==
    ASSUME InputOK, NEW start \in Int, NEW from \in Nat
    PROVE  \E p \in 0 .. Len(transfers) :
              /\ Prepared(start, from) =
                     [k \in 1 .. p |-> Part(GroupAt(from + k), transfers[k], FinalFee(k))]
              /\ Len(Prepared(start, from)) = p
              /\ p = Len(transfers) <=> \A j \in 1 .. Len(transfers) : After(start, from)[j] >= 0
<1> DEFINE T == Len(transfers)
           enough == {k \in 0 .. T : \A j \in 1 .. k : After(start, from)[j] >= 0}
           p == Max(enough)
           q == [k \in 1 .. p |-> Part(GroupAt(from + k), transfers[k], FinalFee(k))]
<1>1. T \in Nat
  BY TransfersAre
<1> HIDE DEF T
<1>2. 0 \in enough
  BY <1>1
<1>3. p \in enough /\ \A k \in enough : k <= p
  <2>1. enough \subseteq 0 .. T /\ enough # {}
    BY <1>2
  <2> HIDE DEF enough
  <2> QED BY <1>1, <2>1, MaxIs
<1>4. p \in 0 .. T
  BY <1>3
<1>5. p = T => \A j \in 1 .. T : After(start, from)[j] >= 0
  BY <1>3
<1>6. ASSUME \A j \in 1 .. T : After(start, from)[j] >= 0 PROVE p = T
  <2>1. T \in enough
    BY <1>1, <1>6
  <2> HIDE DEF enough
  <2> QED BY <1>1, <1>3, <1>4, <2>1
<1>7. Prepared(start, from) = q
  BY DEF Prepared, T
<1> HIDE DEF p
<1>8. Len(q) = p
  BY <1>1, <1>4
<1> HIDE DEF q
<1> QED BY <1>4, <1>5, <1>6, <1>7, <1>8 DEF T, q

\* The fields of a part.
LEMMA PartIs ==
    ASSUME NEW in, NEW out, NEW fee
    PROVE  Part(in, out, fee).in = in /\ Part(in, out, fee).out = out /\ Part(in, out, fee).fee = fee
BY DEF Part

\* A plan of m aggregations can be executed exactly when the balance covers it.
LEMMA ExecutesIs ==
    ASSUME InputOK, NEW m \in 0 .. Len(groups)
    PROVE  Executes(Plan(m)) <=> Pays(m)
<1> DEFINE T == Len(transfers)
           plan == Plan(m)
           c == [k \in 1 .. Len(plan) |-> Spent(k) - Total(plan[k].out) - plan[k].fee]
           d == [k \in 1 .. Len(groups) |-> groups[k] - AggregationFee]
           e == [k \in 1 .. T |-> GroupAt(m + k) - Total(transfers[k]) - FinalFee(k)]
<1>1. T \in Nat /\ m \in Nat /\ Len(groups) \in Nat /\ m <= Len(groups) /\ AggregationFee \in Nat /\ balance \in Int
  BY TransfersAre, GroupsAre DEF InputOK
<1>2. \A k \in 1 .. T : Total(transfers[k]) \in Nat /\ FinalFee(k) \in Nat
  BY TransfersAre
<1>3. \A k \in 1 .. (m + T) : GroupAt(k) \in Nat /\ Spent(k) = GroupAt(k)
  <2> SUFFICES ASSUME NEW k \in 1 .. (m + T) PROVE GroupAt(k) \in Nat /\ Spent(k) = GroupAt(k)
    OBVIOUS
  <2>1. k \in Nat \ {0}
    BY <1>1
  <2> QED BY <2>1, GroupsAre
<1>4. \A k \in 1 .. Len(groups) : GroupAt(k) = groups[k] /\ groups[k] \in Nat
  BY GroupsAre
<1> HIDE DEF T
<1>5. Len(plan) = m + T /\ DOMAIN plan = 1 .. (m + T)
  BY <1>1 DEF Plan, T
<1>6. ASSUME NEW k \in 1 .. m
      PROVE  k \in 1 .. (m + T) /\ plan[k] = Part(GroupAt(k), <<>>, AggregationFee)
  BY <1>1, <1>6 DEF Plan, T
<1>7. ASSUME NEW k \in 1 .. m
       PROVE  /\ k \in 1 .. (m + T) /\ k \in 1 .. Len(groups)
              /\ plan[k].in = GroupAt(k) /\ plan[k].out = <<>> /\ plan[k].fee = AggregationFee
  <2>1. k \in 1 .. (m + T) /\ k \in 1 .. Len(groups)
    BY <1>1
  <2> HIDE DEF plan
  <2> QED BY <1>6, <2>1, PartIs
<1>8. ASSUME NEW j \in 1 .. T
      PROVE  m + j \in 1 .. (m + T) /\ plan[m + j] = Part(GroupAt(m + j), transfers[j], FinalFee(j))
  <2>1. m + j \in 1 .. (m + T) /\ ~(m + j <= m) /\ (m + j) - m = j
    BY <1>1
  <2> QED BY <2>1 DEF Plan, T
<1> HIDE DEF plan
<1>9. ASSUME NEW j \in 1 .. T
       PROVE  /\ m + j \in 1 .. (m + T) /\ plan[m + j].in = GroupAt(m + j)
              /\ plan[m + j].out = transfers[j] /\ plan[m + j].fee = FinalFee(j)
  BY <1>8, PartIs
<1>10. \A k \in 1 .. m : Spent(k) - Total(plan[k].out) - plan[k].fee = groups[k] - AggregationFee
  <2> SUFFICES ASSUME NEW k \in 1 .. m
               PROVE  Spent(k) - Total(plan[k].out) - plan[k].fee = groups[k] - AggregationFee
    OBVIOUS
  <2>1. k \in 1 .. (m + T) /\ plan[k].out = <<>> /\ plan[k].fee = AggregationFee /\ k \in 1 .. Len(groups)
    BY <1>7
  <2>2. Total(plan[k].out) = 0
    BY <2>1, TotalOfNone
  <2>3. Spent(k) = groups[k] /\ groups[k] \in Nat
    BY <1>3, <1>4, <2>1
  <2> QED BY <1>1, <2>1, <2>2, <2>3
<1>11. \A j \in 1 .. T : Spent(m + j) - Total(plan[m + j].out) - plan[m + j].fee
                            = GroupAt(m + j) - Total(transfers[j]) - FinalFee(j)
  BY <1>3, <1>9
<1>12. \A k \in 1 .. (m + T) : k \in 1 .. m \/ \E j \in 1 .. T : k = m + j
  <2> SUFFICES ASSUME NEW k \in 1 .. (m + T), k \notin 1 .. m PROVE \E j \in 1 .. T : k = m + j
    OBVIOUS
  <2>1. k - m \in 1 .. T /\ k = m + (k - m)
    BY <1>1
  <2> QED BY <2>1
<1>13. \A k \in 1 .. (m + T) : plan[k].in = Spent(k)
  <2> SUFFICES ASSUME NEW k \in 1 .. (m + T) PROVE plan[k].in = Spent(k)
    OBVIOUS
  <2>1. CASE k \in 1 .. m
    BY <1>3, <1>7, <2>1
  <2>2. CASE \E j \in 1 .. T : k = m + j
    BY <1>3, <1>9, <2>2
  <2> QED BY <1>12, <2>1, <2>2
<1>14. d \in Seq(Int) /\ Len(d) = Len(groups) /\ \A k \in 1 .. Len(groups) : d[k] = groups[k] - AggregationFee
  BY <1>1, <1>4
<1>15. /\ e \in Seq(Int) /\ Len(e) = T
       /\ \A k \in 1 .. T : e[k] = GroupAt(m + k) - Total(transfers[k]) - FinalFee(k)
  <2>1. \A k \in 1 .. T : GroupAt(m + k) - Total(transfers[k]) - FinalFee(k) \in Int
    <3> SUFFICES ASSUME NEW k \in 1 .. T PROVE GroupAt(m + k) - Total(transfers[k]) - FinalFee(k) \in Int
      OBVIOUS
    <3>1. GroupAt(m + k) \in Nat
      BY <1>3, <1>8
    <3> QED BY <1>2, <3>1
  <2> QED BY <1>1, <2>1
<1>16. /\ \A k \in 1 .. m : c[k] = d[k]
       /\ \A j \in 1 .. T : c[m + j] = e[j]
  <2>1. \A k \in 1 .. m : k \in 1 .. (m + T) /\ k \in 1 .. Len(groups)
    BY <1>1
  <2>2. \A k \in 1 .. m : c[k] = d[k]
    BY <1>5, <1>10, <2>1
  <2>3. \A j \in 1 .. T : c[m + j] = e[j]
    BY <1>5, <1>9, <1>11
  <2> QED BY <2>2, <2>3
<1>17. m + T \in Nat /\ Len(c) = m + T /\ c = [k \in 1 .. (m + T) |-> c[k]]
  BY <1>1, <1>5
<1> HIDE DEF c, d, e
<1>18. c \in Seq(Int)
  <2>1. \A k \in 1 .. m : c[k] \in Int
    <3> SUFFICES ASSUME NEW k \in 1 .. m PROVE c[k] \in Int
      OBVIOUS
    <3>1. k \in 1 .. Len(d) /\ c[k] = d[k]
      BY <1>7, <1>14, <1>16
    <3>2. d[k] \in Int
      BY <1>14, <3>1
    <3> QED BY <3>1, <3>2
  <2>2. \A j \in 1 .. T : c[m + j] \in Int
    <3> SUFFICES ASSUME NEW k \in 1 .. T PROVE c[m + k] \in Int
      OBVIOUS
    <3>1. k \in 1 .. Len(e) /\ c[m + k] = e[k]
      BY <1>15, <1>16
    <3>2. e[k] \in Int
      BY <1>15, <3>1
    <3> QED BY <3>1, <3>2
  <2>3. \A k \in 1 .. (m + T) : c[k] \in Int
    BY <1>12, <2>1, <2>2
  <2> QED BY <1>17, <2>3
<1>19. \A k \in 0 .. m : Running(balance, c)[k] = Left[k]
  <2>1. m <= Len(c) /\ m <= Len(d)
    BY <1>1, <1>14, <1>17
  <2>2. \A k \in 0 .. m : Running(balance, c)[k] = Running(balance, d)[k]
    BY <1>1, <1>14, <1>16, <1>18, <2>1, RunningSame
  <2> QED BY <2>2 DEF Left, d
<1>20. \A j \in 0 .. T : Running(balance, c)[m + j] = After(Left[m], m)[j]
  <2>1. m + T <= Len(c) /\ T <= Len(e) /\ \A k \in 1 .. T : e[k] = c[m + k]
    <3>1. m + T <= Len(c)
      BY <1>17
    <3>2. T <= Len(e)
      BY <1>1, <1>15
    <3>3. \A k \in 1 .. T : e[k] = c[m + k]
      BY <1>16
    <3> QED BY <3>1, <3>2, <3>3
  <2>5. c \in Seq(Int) /\ e \in Seq(Int) /\ balance \in Int /\ m \in Nat /\ T \in Nat
    BY <1>1, <1>15, <1>18
  <2>2. \A j \in 0 .. T : Running(balance, c)[m + j] = Running(Running(balance, c)[m], e)[j]
    BY <2>1, <2>5, RunningFrom
  <2>3. Running(balance, c)[m] = Left[m]
    BY <1>1, <1>19
  <2>4. After(Left[m], m) = Running(Left[m], e)
    BY DEF After, e, T
  <2> QED BY <2>2, <2>3, <2>4
<1>21. Executes(plan) <=> \A k \in 1 .. (m + T) : Running(balance, c)[k] >= 0 /\ plan[k].in = Spent(k)
  BY <1>5 DEF Executes, c, Spent
<1>22. (\A k \in 1 .. (m + T) : Running(balance, c)[k] >= 0)
         <=> (\A k \in 1 .. m : Left[k] >= 0) /\ (\A j \in 1 .. T : After(Left[m], m)[j] >= 0)
  <2>1. \A k \in 1 .. m : k \in 0 .. m /\ k \in 1 .. (m + T)
    BY <1>1
  <2>2. \A j \in 1 .. T : j \in 0 .. T /\ m + j \in 1 .. (m + T)
    BY <1>1
  <2> QED BY <1>12, <1>19, <1>20, <2>1, <2>2
<1> QED BY <1>13, <1>21, <1>22 DEF Pays, plan, T

\* Aggregating the last group as well makes nothing possible: the first transfer
\* spends it anyway.
LEMMA LastGroup ==
    ASSUME InputOK, Len(groups) > 0, Pays(Len(groups))
    PROVE  Pays(Len(groups) - 1)
<1> DEFINE N == Len(groups)
           T == Len(transfers)
           m == N - 1
           a == Left[m]
           b == Left[N]
           X == After(a, m)
           Y == After(b, N)
<1>1. N \in Nat /\ m \in Nat /\ N \in 1 .. N /\ m \in 0 .. N /\ m + 1 = N /\ T \in Nat \ {0} /\ AggregationFee \in Nat
  BY GroupsAre, TransfersAre
<1> HIDE DEF N, T, m
<1>2. a \in Int /\ b \in Int
  BY <1>1, LeftIs DEF N
<1>3. b = a + (GroupAt(N) - AggregationFee) /\ GroupAt(N) \in Nat
  <2>1. Left[N] = Left[N - 1] + (groups[N] - AggregationFee) /\ GroupAt(N) = groups[N] /\ groups[N] \in Nat
    BY <1>1, LeftIs, GroupsAre DEF N
  <2> QED BY <2>1 DEF m
<1> HIDE DEF a, b
<1>4. X \in [0 .. T -> Int] /\ X[0] = a /\ \A k \in 1 .. T : X[k] = X[k - 1] + Change(m, k)
  BY <1>1, <1>2, AfterIs DEF T
<1>5. Y \in [0 .. T -> Int] /\ Y[0] = b /\ \A k \in 1 .. T : Y[k] = Y[k - 1] + Change(N, k)
  BY <1>1, <1>2, AfterIs DEF T
<1>6. \A k \in 1 .. T : Total(transfers[k]) \in Nat /\ FinalFee(k) \in Nat
  BY TransfersAre DEF T
<1>7. \A k \in 1 .. T : GroupAt(N + k) = 0
  <2>1. \A k \in 1 .. T : N + k \in Nat /\ N + k > N
    BY <1>1
  <2> QED BY <2>1, GroupsAre DEF N
<1>8. \A k \in 1 .. T : k > 1 => GroupAt(m + k) = 0
  <2>1. \A k \in 1 .. T : k > 1 => m + k \in Nat /\ m + k > N
    BY <1>1
  <2> QED BY <2>1, GroupsAre DEF N
<1> HIDE DEF X, Y
<1> DEFINE S == {k \in 0 .. T : k = 0 \/ X[k] = Y[k] + AggregationFee}
<1>9. 0 \in S
  BY <1>1
<1>10. ASSUME NEW k \in 0 .. (T - 1), k \in S PROVE k + 1 \in S
  <2>1. k + 1 \in 1 .. T /\ (k + 1) - 1 = k /\ k + 1 \in 0 .. T /\ k \in 0 .. T /\ k \in Nat
    BY <1>1
  <2>2. X[k + 1] = X[k] + Change(m, k + 1) /\ Y[k + 1] = Y[k] + Change(N, k + 1)
    BY <1>4, <1>5, <2>1
  <2>3. X[k] \in Int /\ Y[k] \in Int
    BY <1>4, <1>5, <2>1
  <2> DEFINE t == Total(transfers[k + 1])
             f == FinalFee(k + 1)
  <2>4. t \in Nat /\ f \in Nat
    BY <1>6, <2>1
  <2>5. Change(N, k + 1) = 0 - t - f
    BY <1>7, <2>1, <2>4 DEF Change
  <2>6. Change(m, k + 1) = GroupAt(m + (k + 1)) - t - f
    BY DEF Change
  <2> HIDE DEF t, f
  <2>7. CASE k = 0
    <3>1. m + (k + 1) = N
      BY <1>1, <2>7
    <3>2. X[k + 1] = a + (GroupAt(N) - t - f) /\ Y[k + 1] = b + (0 - t - f)
      BY <1>4, <1>5, <2>2, <2>5, <2>6, <2>7, <3>1
    <3>3. X[k + 1] = Y[k + 1] + AggregationFee
      <4> DEFINE g == GroupAt(N)
                 r == AggregationFee
      <4>1. a \in Int /\ g \in Int /\ r \in Int /\ t \in Int /\ f \in Int /\ b = a + (g - r)
        BY <1>1, <1>2, <1>3, <2>4
      <4>2. X[k + 1] = a + (g - t - f) /\ Y[k + 1] = b + (0 - t - f)
        BY <3>2
      <4> HIDE DEF g, r
      <4>3. a + (g - t - f) = (b + (0 - t - f)) + r
        BY <4>1
      <4> QED BY <4>2, <4>3 DEF r
    <3> QED BY <2>1, <3>3
  <2>8. CASE k # 0
    <3>1. GroupAt(m + (k + 1)) = 0
      BY <1>8, <2>1, <2>8
    <3>2. X[k] = Y[k] + AggregationFee
      BY <1>10, <2>8
    <3>3. X[k + 1] = Y[k + 1] + AggregationFee
      BY <1>1, <2>2, <2>3, <2>4, <2>5, <2>6, <3>1, <3>2
    <3> QED BY <2>1, <3>3
  <2> QED BY <2>7, <2>8
<1>11. \A k \in 0 .. T : k \in S
  <2> HIDE DEF S
  <2> QED BY <1>1, <1>9, <1>10, Upto
<1>12. \A k \in 1 .. T : Y[k] >= 0 /\ Y[k] \in Int
  BY <1>5 DEF Pays, N, T, Y, b
<1>13. \A k \in 1 .. T : X[k] >= 0
  <2>1. \A k \in 1 .. T : X[k] = Y[k] + AggregationFee
    BY <1>1, <1>11
  <2> QED BY <1>1, <1>12, <2>1
<1>14. \A k \in 1 .. m : Left[k] >= 0
  <2>1. \A k \in 1 .. m : k \in 1 .. N
    BY <1>1
  <2> QED BY <2>1 DEF Pays, N
<1> QED BY <1>13, <1>14 DEF Pays, X, a, m, N, T

-----------------------------------------------------------------------------
(* The search.                                                             *)

\* What the search has found out.
PartsInv ==
    /\ InputOK
    /\ i \in 0 .. Len(groups) /\ account = Left[i]
    /\ \A k \in 0 .. i : Left[k] >= 0
    /\ aggregation = [k \in 1 .. i |-> Part(GroupAt(k), <<>>, AggregationFee)]
    /\ pc \in {"try", "done", "failed"}
    /\ pc = "try" => parts = <<>> /\ (i < Len(groups) \/ i = 0)
    /\ pc # "failed" => \A m \in 0 .. (i - 1) : ~Pays(m)
    /\ pc = "done" => parts = Plan(i) /\ Pays(i)
    /\ pc = "failed" => \A m \in 0 .. Len(groups) : ~Pays(m)

\* The initial states.
LEMMA InitParts == Init => PartsInv
<1> SUFFICES ASSUME Init PROVE PartsInv
  OBVIOUS
<1>1. type \in {"transfer", "withdraw"} /\ balance \in Nat
  BY PartsAssumption DEF Init
<1>2. ASSUME NEW S, NEW R, S \subseteq R, NEW n \in Nat, NEW s \in Inputs(S, n) PROVE s \in Seq(R)
  <2>1. PICK k \in 0 .. n : s \in [1 .. k -> S]
    BY DEF Inputs
  <2>2. k \in Nat /\ \A j \in 1 .. k : s[j] \in R
    BY <1>2, <2>1
  <2>3. s = [j \in 1 .. k |-> s[j]]
    BY <2>1
  <2> QED BY <2>2, <2>3
<1>3. notes \in Seq(Nat)
  <2>1. NoteValues \subseteq Nat /\ MaxNotes \in Nat /\ notes \in Inputs(NoteValues, MaxNotes)
    BY PartsAssumption DEF Init
  <2> QED BY <1>2, <2>1
<1>4. requests \in Seq(Nat \ {0}) /\ requests # <<>>
  <2> DEFINE n == IF type = "transfer" THEN MaxRequests ELSE 1
  <2>1. n \in Nat /\ requests \in Inputs(Amounts, n) /\ requests # <<>>
    BY PartsAssumption DEF Init
  <2>2. Amounts \subseteq Nat \ {0}
    BY PartsAssumption
  <2> HIDE DEF n
  <2> QED BY <1>2, <2>1, <2>2
<1>5. InputOK
  BY <1>1, <1>3, <1>4 DEF InputOK
<1>6. Left[0] = balance /\ Len(groups) \in Nat
  BY <1>5, LeftIs, GroupsAre
<1>7. i = 0 /\ account = balance /\ aggregation = <<>> /\ parts = <<>> /\ pc = "try"
  BY DEF Init
<1>8. 0 .. i = {0} /\ 0 .. (i - 1) = {} /\ 1 .. i = {}
  BY <1>7
<1>9. aggregation = [k \in 1 .. i |-> Part(GroupAt(k), <<>>, AggregationFee)]
  BY <1>7, <1>8
<1> QED BY <1>1, <1>5, <1>6, <1>7, <1>8, <1>9 DEF PartsInv

\* When the transfers do not all fit, this number of aggregations is not enough.
LEMMA NotAllFit ==
    ASSUME PartsInv, pc = "try"
    PROVE  /\ Len(Prepared(account, i)) = Len(transfers) => Pays(i) /\ aggregation \o Prepared(account, i) = Plan(i)
           /\ Len(Prepared(account, i)) < Len(transfers) => \A m \in 0 .. i : ~Pays(m)
           /\ Len(Prepared(account, i)) \in 0 .. Len(transfers)
<1> DEFINE T == Len(transfers)
<1>1. InputOK /\ i \in Nat /\ i \in 0 .. Len(groups) /\ account = Left[i] /\ \A k \in 0 .. i : Left[k] >= 0
  BY DEF PartsInv
<1>2. account \in Int /\ T \in Nat \ {0}
  BY <1>1, LeftIs, TransfersAre
<1>3. PICK p \in 0 .. T :
         /\ Prepared(account, i) = [k \in 1 .. p |-> Part(GroupAt(i + k), transfers[k], FinalFee(k))]
         /\ Len(Prepared(account, i)) = p
         /\ p = T <=> \A j \in 1 .. T : After(account, i)[j] >= 0
  BY <1>1, <1>2, PreparedIs
<1>4. Pays(i) <=> p = T
  <2>1. \A k \in 1 .. i : Left[k] >= 0
    BY <1>1
  <2> QED BY <1>1, <1>3, <2>1 DEF Pays
<1>5. p = T => aggregation \o Prepared(account, i) = Plan(i)
  <2> SUFFICES ASSUME p = T PROVE aggregation \o Prepared(account, i) = Plan(i)
    OBVIOUS
  <2> DEFINE a == [k \in 1 .. i |-> Part(GroupAt(k), <<>>, AggregationFee)]
             b == [k \in 1 .. T |-> Part(GroupAt(i + k), transfers[k], FinalFee(k))]
  <2>1. aggregation = a /\ Prepared(account, i) = b
    BY <1>3 DEF PartsInv
  <2> HIDE DEF T
  <2>2. Len(a) = i /\ Len(b) = T
    BY <1>1, <1>2
  <2>3. a \o b = [k \in 1 .. (i + T) |-> IF k <= i THEN a[k] ELSE b[k - i]]
    BY <1>1, <1>2, <2>2
  <2>4. \A k \in 1 .. (i + T) : k <= i => a[k] = Part(GroupAt(k), <<>>, AggregationFee)
    BY <1>1, <1>2
  <2>5. \A k \in 1 .. (i + T) : ~(k <= i) => b[k - i] = Part(GroupAt(k), transfers[k - i], FinalFee(k - i))
    <3> SUFFICES ASSUME NEW k \in 1 .. (i + T), ~(k <= i)
                 PROVE  b[k - i] = Part(GroupAt(k), transfers[k - i], FinalFee(k - i))
      OBVIOUS
    <3>1. k - i \in 1 .. T /\ i + (k - i) = k
      BY <1>1, <1>2
    <3> QED BY <3>1
  <2> HIDE DEF a, b
  <2>6. a \o b = [k \in 1 .. (i + T) |->
                     IF k <= i THEN Part(GroupAt(k), <<>>, AggregationFee)
                     ELSE Part(GroupAt(k), transfers[k - i], FinalFee(k - i))]
    BY <2>3, <2>4, <2>5
  <2> QED BY <2>1, <2>6 DEF Plan, T
<1>6. p < T => \A m \in 0 .. i : ~Pays(m)
  <2> SUFFICES ASSUME p < T, NEW m \in 0 .. i PROVE ~Pays(m)
    OBVIOUS
  <2>1. CASE m = i
    BY <1>2, <1>4, <2>1
  <2>2. CASE m # i
    <3>1. m \in 0 .. (i - 1)
      BY <1>1, <2>2
    <3> QED BY <3>1 DEF PartsInv
  <2> QED BY <2>1, <2>2
<1> QED BY <1>3, <1>4, <1>5, <1>6

\* No more aggregations than these: the next one cannot be paid, or there is none.
LEMMA NoMore ==
    ASSUME InputOK, NEW n \in 0 .. Len(groups), \A m \in 0 .. n : ~Pays(m),
           n < Len(groups) => Left[n + 1] < 0
    PROVE  \A m \in 0 .. Len(groups) : ~Pays(m)
<1> SUFFICES ASSUME NEW m \in 0 .. Len(groups), m > n PROVE ~Pays(m)
  OBVIOUS
<1>1. Len(groups) \in Nat /\ n \in Nat /\ n < Len(groups) /\ n + 1 \in 1 .. m /\ n + 1 \in 0 .. Len(groups)
  BY GroupsAre
<1>2. Left[n + 1] < 0 /\ Left[n + 1] \in Int
  BY <1>1, LeftIs
<1>3. ~(Left[n + 1] >= 0)
  BY <1>2
<1> QED BY <1>1, <1>3 DEF Pays

\* The balance after one more aggregation, when there are groups.
LEMMA NextLeft ==
    ASSUME PartsInv, pc = "try", groups # <<>>
    PROVE  /\ i < Len(groups) /\ i + 1 \in 1 .. Len(groups)
           /\ Left[i + 1] = account + GroupAt(i + 1) - AggregationFee
           /\ account \in Int /\ GroupAt(i + 1) \in Nat /\ AggregationFee \in Nat
           /\ CanAggregate <=> Left[i + 1] >= 0
<1>1. InputOK /\ i \in Nat /\ i \in 0 .. Len(groups) /\ account = Left[i] /\ (i < Len(groups) \/ i = 0)
  BY DEF PartsInv
<1>2. groups \in Seq(Nat) /\ Len(groups) \in Nat /\ Len(groups) > 0
  BY <1>1, GroupsAre
<1>3. i < Len(groups) /\ i + 1 \in 1 .. Len(groups) /\ (i + 1) - 1 = i
  BY <1>1, <1>2
<1>4. account \in Int /\ AggregationFee \in Nat
  BY <1>1, LeftIs, TransfersAre
<1>5. GroupAt(i + 1) = groups[i + 1] /\ GroupAt(i + 1) \in Nat
  <2>1. GroupAt(i + 1) = groups[i + 1]
    BY <1>1, <1>3, GroupsAre
  <2>2. groups[i + 1] \in Nat
    BY <1>2, <1>3
  <2> QED BY <2>1, <2>2
<1>6. Left[i + 1] = account + (GroupAt(i + 1) - AggregationFee)
  <2>1. Left[i + 1] = Left[(i + 1) - 1] + (groups[i + 1] - AggregationFee)
    BY <1>1, <1>3, LeftIs
  <2> QED BY <1>1, <1>3, <1>5, <2>1
<1>7. Left[i + 1] = account + GroupAt(i + 1) - AggregationFee
  BY <1>4, <1>5, <1>6
<1>8. CanAggregate <=> account + GroupAt(i + 1) >= AggregationFee
  BY DEF CanAggregate
<1> QED BY <1>3, <1>4, <1>5, <1>7, <1>8

\* A step leaves the input alone.
LEMMA SameInput ==
    ASSUME UNCHANGED input
    PROVE  /\ InputOK' = InputOK /\ groups' = groups /\ transfers' = transfers /\ Left' = Left
           /\ \A m : Pays(m)' = Pays(m) /\ Plan(m)' = Plan(m)
           /\ \A k : GroupAt(k)' = GroupAt(k)
<1>1. type' = type /\ balance' = balance /\ notes' = notes /\ requests' = requests
  BY DEF input
<1>2. groups' = groups
  BY <1>1 DEF groups
<1>3. transfers' = transfers
  BY <1>1 DEF transfers
<1>4. Left' = Left
  BY <1>1, <1>2 DEF Left
<1>5. \A k : GroupAt(k)' = GroupAt(k)
  BY <1>2 DEF GroupAt
<1>6. \A k : FinalFee(k)' = FinalFee(k)
  BY <1>1, <1>3 DEF FinalFee, Fee
<1>7. \A m : Plan(m)' = Plan(m)
  BY <1>3, <1>5, <1>6 DEF Plan
<1>8. \A m : After(Left[m], m)' = After(Left[m], m)
  BY <1>3, <1>4, <1>5, <1>6 DEF After
<1>9. \A m : Pays(m)' = Pays(m)
  BY <1>3, <1>4, <1>8 DEF Pays
<1>10. InputOK' = InputOK
  BY <1>1 DEF InputOK
<1> QED BY <1>2, <1>3, <1>4, <1>5, <1>7, <1>9, <1>10

\* Fit keeps the invariant.
LEMMA FitStep == PartsInv /\ Fit => PartsInv'
<1> SUFFICES ASSUME PartsInv, Fit PROVE PartsInv'
  OBVIOUS
<1>1. UNCHANGED <<input, i, account, aggregation>> /\ pc = "try" /\ pc' = "done"
      /\ parts' = aggregation \o Prepared(account, i) /\ Len(Prepared(account, i)) = Len(transfers)
  BY DEF Fit
<1>2. Pays(i) /\ parts' = Plan(i)
  BY <1>1, NotAllFit
<1>3. InputOK' /\ groups' = groups /\ transfers' = transfers /\ Left' = Left
      /\ (\A m : Pays(m)' = Pays(m) /\ Plan(m)' = Plan(m)) /\ \A k : GroupAt(k)' = GroupAt(k)
  BY <1>1, SameInput DEF PartsInv
<1>4. Pays(i)' /\ parts' = Plan(i)'
  <2>1. Pays(i)' = Pays(i') /\ Plan(i)' = Plan(i')
    BY <1>1, <1>3
  <2> QED BY <1>1, <1>2, <1>3
<1> QED BY <1>1, <1>3, <1>4 DEF PartsInv

\* Giving up keeps the invariant.
LEMMA GiveUpStep == PartsInv /\ GiveUp => PartsInv'
<1> SUFFICES ASSUME PartsInv, GiveUp PROVE PartsInv'
  OBVIOUS
<1>1. UNCHANGED <<input, i, account, aggregation>> /\ pc = "try" /\ pc' = "failed" /\ ~CanAggregate
      /\ Len(Prepared(account, i)) < Len(transfers)
  BY DEF GiveUp
<1>2. \A m \in 0 .. i : ~Pays(m)
  BY <1>1, NotAllFit
<1>3. i \in 0 .. Len(groups) /\ InputOK
  BY DEF PartsInv
<1>4. i < Len(groups) => Left[i + 1] < 0
  <2> SUFFICES ASSUME i < Len(groups) PROVE Left[i + 1] < 0
    OBVIOUS
  <2>1. groups # <<>>
    <3>1. i >= 0 /\ i \in Int
      BY <1>3
    <3>2. Len(<<>>) = 0
      OBVIOUS
    <3> QED BY <3>1, <3>2
  <2>2. ~(Left[i + 1] >= 0) /\ Left[i + 1] = account + GroupAt(i + 1) - AggregationFee
        /\ account \in Int /\ GroupAt(i + 1) \in Nat /\ AggregationFee \in Nat
    BY <1>1, <2>1, NextLeft
  <2> QED BY <2>2
<1>5. \A m \in 0 .. Len(groups) : ~Pays(m)
  BY <1>2, <1>3, <1>4, NoMore
<1>6. InputOK' /\ groups' = groups /\ transfers' = transfers /\ Left' = Left
      /\ (\A m : Pays(m)' = Pays(m) /\ Plan(m)' = Plan(m)) /\ \A k : GroupAt(k)' = GroupAt(k)
  BY <1>1, SameInput DEF PartsInv
<1> QED BY <1>1, <1>5, <1>6 DEF PartsInv

\* Aggregation keeps the invariant: when it takes the last group, the plan with all
\* aggregations is not tried, and need not be (LastGroup).
LEMMA AggregateStep == PartsInv /\ Aggregate => PartsInv'
<1> SUFFICES ASSUME PartsInv, Aggregate PROVE PartsInv'
  OBVIOUS
<1>1. UNCHANGED input /\ pc = "try" /\ CanAggregate /\ Len(Prepared(account, i)) < Len(transfers)
      /\ i' = i + 1 /\ account' = account + GroupAt(i + 1) - AggregationFee
      /\ aggregation' = Append(aggregation, Part(GroupAt(i + 1), <<>>, AggregationFee))
      /\ (IF i' < Len(groups) THEN UNCHANGED <<parts, pc>> ELSE pc' = "failed")
  BY DEF Aggregate
<1>2. \A m \in 0 .. i : ~Pays(m)
  BY <1>1, NotAllFit
<1>3. i \in 0 .. Len(groups) /\ InputOK /\ (\A k \in 0 .. i : Left[k] >= 0) /\ parts = <<>>
      /\ aggregation = [k \in 1 .. i |-> Part(GroupAt(k), <<>>, AggregationFee)]
  BY <1>1 DEF PartsInv
<1>4. i < Len(groups) /\ i + 1 \in 1 .. Len(groups) /\ Left[i + 1] = account + GroupAt(i + 1) - AggregationFee
      /\ Left[i + 1] >= 0
  <2>1. groups # <<>>
    BY <1>1 DEF CanAggregate
  <2> QED BY <1>1, <2>1, NextLeft
<1>5. account' = Left[i'] /\ i' \in 0 .. Len(groups) /\ \A k \in 0 .. i' : Left[k] >= 0
  <2>1. i' \in 0 .. Len(groups)
    BY <1>1, <1>4
  <2>2. \A k \in 0 .. i' : k = i + 1 \/ k \in 0 .. i
    BY <1>1, <1>3
  <2> QED BY <1>1, <1>3, <1>4, <2>1, <2>2
<1>6. aggregation' = [k \in 1 .. i' |-> Part(GroupAt(k), <<>>, AggregationFee)]
  <2> DEFINE a == [k \in 1 .. i |-> Part(GroupAt(k), <<>>, AggregationFee)]
             x == Part(GroupAt(i + 1), <<>>, AggregationFee)
  <2>1. i \in Nat /\ i' = i + 1
    BY <1>1, <1>3
  <2>2. Len(a) = i
    BY <2>1
  <2>3. Append(a, x) = [k \in 1 .. (i + 1) |-> IF k = i + 1 THEN x ELSE a[k]]
    BY <2>1, <2>2
  <2>4. \A k \in 1 .. (i + 1) : (IF k = i + 1 THEN x ELSE a[k]) = Part(GroupAt(k), <<>>, AggregationFee)
    BY <2>1
  <2>5. aggregation' = Append(a, x)
    BY <1>1, <1>3
  <2> HIDE DEF a, x
  <2>6. Append(a, x) = [k \in 1 .. (i + 1) |-> Part(GroupAt(k), <<>>, AggregationFee)]
    BY <2>3, <2>4
  <2> QED BY <2>1, <2>5, <2>6
<1>7. \A m \in 0 .. (i' - 1) : ~Pays(m)
  <2>1. i' - 1 = i
    BY <1>1, <1>3
  <2> QED BY <1>2, <2>1
<1>8. ASSUME ~(i' < Len(groups)) PROVE \A m \in 0 .. Len(groups) : ~Pays(m)
  <2> DEFINE N == Len(groups)
  <2>1. N \in Nat /\ i + 1 = N /\ N > 0 /\ i = N - 1 /\ i \in 0 .. i
    BY <1>1, <1>3, <1>4, <1>8, GroupsAre
  <2>2. ~Pays(N - 1)
    BY <1>2, <2>1
  <2>3. ~Pays(N)
    BY <1>3, <2>1, <2>2, LastGroup
  <2> HIDE DEF N
  <2>4. \A m \in 0 .. N : m = N \/ m \in 0 .. i
    BY <2>1
  <2> QED BY <1>2, <2>3, <2>4 DEF N
<1>9. InputOK' /\ groups' = groups /\ transfers' = transfers /\ Left' = Left
      /\ (\A m : Pays(m)' = Pays(m) /\ Plan(m)' = Plan(m)) /\ \A k : GroupAt(k)' = GroupAt(k)
  BY <1>1, <1>3, SameInput
<1>10. AggregationFee' = AggregationFee
  BY DEF AggregationFee, Fee
<1>11. PartsInv!1' /\ PartsInv!2' /\ PartsInv!3' /\ PartsInv!4'
  BY <1>5, <1>6, <1>9, <1>10
<1>12. CASE i' < Len(groups)
  <2>1. parts' = <<>> /\ pc' = "try"
    BY <1>1, <1>3, <1>12
  <2> QED BY <1>7, <1>9, <1>11, <1>12, <2>1 DEF PartsInv
<1>13. CASE ~(i' < Len(groups))
  <2>1. pc' = "failed"
    BY <1>1, <1>13
  <2> QED BY <1>8, <1>9, <1>11, <1>13, <2>1 DEF PartsInv
<1> QED BY <1>12, <1>13

\* The inductive invariant.
LEMMA NextParts == PartsInv /\ [Next]_vars => PartsInv'
<1> SUFFICES ASSUME PartsInv, [Next]_vars PROVE PartsInv'
  OBVIOUS
<1>1. CASE Next
  BY <1>1, FitStep, GiveUpStep, AggregateStep DEF Next
<1>2. CASE UNCHANGED vars
  <2>1. UNCHANGED input /\ UNCHANGED <<i, account, aggregation, parts, pc>>
    BY <1>2 DEF vars, input
  <2>2. InputOK' /\ groups' = groups /\ transfers' = transfers /\ Left' = Left
        /\ (\A m : Pays(m)' = Pays(m) /\ Plan(m)' = Plan(m)) /\ \A k : GroupAt(k)' = GroupAt(k)
    BY <2>1, SameInput DEF PartsInv
  <2>3. AggregationFee' = AggregationFee
    BY DEF AggregationFee, Fee
  <2> QED BY <2>1, <2>2, <2>3 DEF PartsInv
<1> QED BY <1>1, <1>2

\* The invariant holds throughout.
LEMMA PartsAlways == Spec => []PartsInv
BY InitParts, NextParts, PTL DEF Spec

\* A request is given up only if no number of aggregations makes it possible
\* (getTransactionParts).
THEOREM PlanFoundHolds == Spec => []PlanFound
<1>1. PartsInv => PlanFound
  <2> SUFFICES ASSUME PartsInv, pc = "failed", NEW m \in 0 .. Len(groups) PROVE ~Executes(Plan(m))
    BY DEF PlanFound
  <2> QED BY ExecutesIs DEF PartsInv
<1> QED BY <1>1, PartsAlways, PTL

-----------------------------------------------------------------------------
(* What a plan delivers and costs.                                         *)

\* Changes of 0 change nothing.
LEMMA RunningFlat ==
    ASSUME NEW b \in Int, NEW d \in Seq(Int), NEW m \in Nat, NEW n \in Nat, m + n <= Len(d),
           \A k \in 1 .. n : d[m + k] = 0
    PROVE  Running(b, d)[m + n] = Running(b, d)[m]
<1> DEFINE S == {k \in 0 .. n : Running(b, d)[m + k] = Running(b, d)[m]}
<1>1. 0 \in S
  <2>1. m + 0 = m
    OBVIOUS
  <2> QED BY <2>1
<1>2. ASSUME NEW k \in 0 .. (n - 1), k \in S PROVE k + 1 \in S
  <2>1. m + k \in Nat /\ (m + k) + 1 <= Len(d) /\ k + 1 \in 1 .. n /\ k + 1 \in 0 .. n
        /\ (m + k) + 1 = m + (k + 1)
    OBVIOUS
  <2>2. /\ Running(b, d)[(m + k) + 1] = Running(b, d)[m + k] + d[(m + k) + 1]
        /\ Running(b, d)[m + k] \in Int
    BY <2>1, RunningNext
  <2>3. d[m + (k + 1)] = 0 /\ Running(b, d)[m + k] = Running(b, d)[m]
    BY <1>2, <2>1
  <2>4. Running(b, d)[m + (k + 1)] = Running(b, d)[m]
    BY <2>1, <2>2, <2>3
  <2> QED BY <2>1, <2>4
<1>3. \A k \in 0 .. n : k \in S
  <2> HIDE DEF S
  <2> QED BY <1>1, <1>2, Upto
<1>4. n \in 0 .. n
  OBVIOUS
<1> QED BY <1>3, <1>4

\* What a aggregations and then p transfers create.
Outs(a, p) == [k \in 1 .. (a + p) |-> IF k <= a THEN <<>> ELSE transfers[k - a]]

\* What the requests of each transfer add up to.
Sums == [k \in DOMAIN transfers |-> Total(transfers[k])]

\* All transfers together deliver all requests, and fewer of them deliver less.
LEMMA SumsAre ==
    ASSUME InputOK
    PROVE  /\ Sums \in Seq(Int) /\ Len(Sums) = Len(transfers)
           /\ \A k \in 1 .. Len(transfers) : Sums[k] = Total(transfers[k])
           /\ \A p \in 0 .. Len(transfers) : Running(0, Sums)[p] \in Nat
           /\ Running(0, Sums)[Len(transfers)] = Total(requests)
           /\ \A p \in 0 .. (Len(transfers) - 1) : Running(0, Sums)[p] < Total(requests)
<1> DEFINE T == Len(transfers)
<1>1. T \in Nat \ {0} /\ DOMAIN transfers = 1 .. T /\ \A k \in 1 .. T : Total(transfers[k]) \in Nat \ {0}
  BY TransfersAre
<1>2. Out \in Nat /\ Out > 0 /\ requests \in Seq(Int)
  BY PartsAssumption DEF InputOK
<1>3. Sums \in Seq(Int) /\ Len(Sums) = T /\ Total(Sums) = Total(requests)
  <2>1. Sums = [k \in DOMAIN Chunks(requests, Out) |-> Total(Chunks(requests, Out)[k])]
    BY DEF Sums, transfers
  <2> QED BY <1>2, <2>1, ChunkTotals DEF transfers
<1> HIDE DEF T
<1>4. \A k \in 1 .. T : Sums[k] = Total(transfers[k])
  BY <1>1 DEF Sums
<1>5. Sums \in Seq(Nat)
  <2>1. \A k \in 1 .. T : Sums[k] \in Nat
    BY <1>1, <1>4
  <2>2. T \in Nat /\ Sums = [k \in 1 .. T |-> Sums[k]]
    BY <1>1, <1>3
  <2> QED BY <2>1, <2>2
<1>6. Running(0, Sums)[0] = 0 /\ Running(0, Sums)[T] = Total(requests)
  BY <1>3, RunningIs DEF Total
<1>7. \A p \in 0 .. T : Running(0, Sums)[p] \in Nat
  <2> SUFFICES ASSUME NEW p \in 0 .. T PROVE Running(0, Sums)[p] \in Nat
    OBVIOUS
  <2>1. 0 \in 0 .. Len(Sums) /\ p \in 0 .. Len(Sums)
    BY <1>1, <1>3
  <2>2. Running(0, Sums)[0] <= Running(0, Sums)[p]
    BY <1>5, <2>1, RunningUp
  <2>3. Running(0, Sums)[p] \in Int
    <3>1. Running(0, Sums) \in [0 .. Len(Sums) -> Int]
      BY <1>3, RunningIs
    <3> QED BY <2>1, <3>1
  <2> QED BY <1>6, <2>2, <2>3
<1>8. \A p \in 0 .. (T - 1) : Running(0, Sums)[p] < Total(requests)
  <2> SUFFICES ASSUME NEW p \in 0 .. (T - 1) PROVE Running(0, Sums)[p] < Total(requests)
    OBVIOUS
  <2>1. p \in Nat /\ p + 1 <= Len(Sums) /\ p + 1 \in 1 .. T /\ p + 1 \in 0 .. Len(Sums) /\ T \in (p + 1) .. Len(Sums)
        /\ p \in 0 .. T /\ p + 1 \in 0 .. T /\ T \in 0 .. T
    <3>1. T \in Nat \ {0} /\ Len(Sums) = T
      BY <1>1, <1>3
    <3> QED BY <3>1
  <2>2. Running(0, Sums)[p + 1] = Running(0, Sums)[p] + Sums[p + 1]
    BY <1>3, <2>1, RunningNext
  <2>3. Running(0, Sums)[p + 1] <= Running(0, Sums)[T]
    BY <1>5, <2>1, RunningUp
  <2>4. Sums[p + 1] \in Nat \ {0}
    BY <1>1, <1>4, <2>1
  <2>5. Running(0, Sums)[p] \in Nat /\ Running(0, Sums)[p + 1] \in Nat /\ Running(0, Sums)[T] \in Nat
    BY <1>7, <2>1
  <2> QED BY <1>6, <2>2, <2>3, <2>4, <2>5
<1> QED BY <1>3, <1>4, <1>6, <1>7, <1>8 DEF T

\* What is sent is what the transfers in the plan deliver.
LEMMA SentIs ==
    ASSUME InputOK, NEW a \in Nat, NEW p \in 0 .. Len(transfers)
    PROVE  Total([k \in DOMAIN Outs(a, p) |-> Total(Outs(a, p)[k])]) = Running(0, Sums)[p]
<1> DEFINE d == [k \in DOMAIN Outs(a, p) |-> Total(Outs(a, p)[k])]
<1>1. p \in Nat /\ a + p \in Nat /\ DOMAIN Outs(a, p) = 1 .. (a + p)
  BY TransfersAre DEF Outs
<1>2. ASSUME NEW k \in 1 .. (a + p), k <= a PROVE Total(Outs(a, p)[k]) = 0
  <2>1. Outs(a, p)[k] = <<>>
    BY <1>2 DEF Outs
  <2> QED BY <2>1, TotalOfNone
<1>3. ASSUME NEW j \in 1 .. p PROVE a + j \in 1 .. (a + p) /\ Total(Outs(a, p)[a + j]) = Sums[j] /\ Sums[j] \in Int
  <2>1. a + j \in 1 .. (a + p) /\ ~(a + j <= a) /\ (a + j) - a = j /\ j \in 1 .. Len(transfers)
    BY <1>1, TransfersAre
  <2>2. Outs(a, p)[a + j] = transfers[j]
    BY <2>1 DEF Outs
  <2>3. Sums[j] = Total(transfers[j])
    BY <2>1, SumsAre
  <2>4. Total(transfers[j]) \in Nat
    BY <2>1, TransfersAre
  <2> QED BY <2>1, <2>2, <2>3, <2>4
<1>4. \A k \in 1 .. (a + p) : ~(k <= a) => \E j \in 1 .. p : k = a + j
  <2> SUFFICES ASSUME NEW k \in 1 .. (a + p), ~(k <= a) PROVE \E j \in 1 .. p : k = a + j
    OBVIOUS
  <2>1. k - a \in 1 .. p /\ k = a + (k - a)
    BY <1>1
  <2> QED BY <2>1
<1>5. d = [k \in 1 .. (a + p) |-> Total(Outs(a, p)[k])]
  BY <1>1
<1> HIDE DEF d
<1>6. \A k \in 1 .. (a + p) : d[k] \in Int
  <2> SUFFICES ASSUME NEW k \in 1 .. (a + p) PROVE d[k] \in Int
    OBVIOUS
  <2>1. CASE k <= a
    BY <1>2, <1>5, <2>1
  <2>2. CASE ~(k <= a)
    <3>1. PICK j \in 1 .. p : k = a + j
      BY <1>4, <2>2
    <3> QED BY <1>3, <1>5, <3>1
  <2> QED BY <2>1, <2>2
<1>7. d \in Seq(Int) /\ Len(d) = a + p
  BY <1>1, <1>5, <1>6
<1>8. \A k \in 1 .. a : d[0 + k] = 0
  <2> SUFFICES ASSUME NEW k \in 1 .. a PROVE d[0 + k] = 0
    OBVIOUS
  <2>1. k \in 1 .. (a + p) /\ k <= a /\ 0 + k = k
    BY <1>1
  <2> QED BY <1>2, <1>5, <2>1
<1>9. Running(0, d)[a] = 0
  <2>1. 0 \in Int /\ 0 \in Nat /\ 0 + a <= Len(d) /\ 0 + a = a
    BY <1>1, <1>7
  <2>2. Running(0, d)[0 + a] = Running(0, d)[0]
    BY <1>7, <1>8, <2>1, RunningFlat
  <2>3. Running(0, d)[0] = 0
    BY <1>7, <2>1, RunningIs
  <2> QED BY <2>1, <2>2, <2>3, Zenon
<1>10. \A k \in 1 .. p : Sums[k] = d[a + k]
  BY <1>3, <1>5
<1>11. \A k \in 0 .. p : Running(0, d)[a + k] = Running(Running(0, d)[a], Sums)[k]
  <2>1. 0 \in Int /\ a + p <= Len(d) /\ p <= Len(Sums) /\ Sums \in Seq(Int)
    <3>1. Sums \in Seq(Int) /\ Len(Sums) = Len(transfers)
      BY SumsAre
    <3>2. p <= Len(transfers)
      BY <1>1
    <3>3. a + p <= Len(d)
      BY <1>1, <1>7
    <3> QED BY <3>1, <3>2, <3>3
  <2> QED BY <1>1, <1>7, <1>10, <2>1, RunningFrom
<1>12. Total(d) = Running(0, d)[a + p] /\ p \in 0 .. p
  BY <1>1, <1>7 DEF Total
<1> QED BY <1>9, <1>11, <1>12 DEF d

\* The groups that a plan spends are among the notes.
LEMMA SpentAtMost ==
    ASSUME InputOK, NEW M \in Nat
    PROVE  /\ [k \in 1 .. M |-> GroupAt(k)] \in Seq(Int)
           /\ Running(0, [k \in 1 .. M |-> GroupAt(k)])[M] <= Total(notes)
<1> DEFINE N == Len(groups)
           g == [k \in 1 .. M |-> GroupAt(k)]
           h == [k \in 1 .. (N + M) |-> GroupAt(k)]
<1>1. groups \in Seq(Nat) /\ N \in Nat /\ Total(groups) = Total(notes)
  BY GroupsAre
<1> HIDE DEF N
<1>2. \A k \in 1 .. (N + M) : GroupAt(k) \in Nat
  <2>1. \A k \in 1 .. (N + M) : k \in Nat \ {0}
    BY <1>1
  <2> QED BY <2>1, GroupsAre
<1>3. h \in Seq(Nat) /\ h \in Seq(Int) /\ Len(h) = N + M
  BY <1>1, <1>2
<1>4. \A k \in 1 .. M : k \in 1 .. (N + M)
  BY <1>1
<1>5. g \in Seq(Int) /\ Len(g) = M
  <2>1. \A k \in 1 .. M : GroupAt(k) \in Int
    BY <1>2, <1>4
  <2> QED BY <2>1
<1>6. \A k \in 1 .. M : g[k] = h[k]
  BY <1>4
<1>7. \A k \in 1 .. N : groups[k] = h[k]
  <2>1. \A k \in 1 .. N : k \in 1 .. (N + M)
    BY <1>1
  <2>2. \A k \in 1 .. N : GroupAt(k) = groups[k]
    BY GroupsAre DEF N
  <2> QED BY <2>1, <2>2
<1>8. \A k \in 1 .. M : h[N + k] = 0
  <2>1. \A k \in 1 .. M : N + k \in 1 .. (N + M) /\ N + k \in Nat /\ N + k > N
    BY <1>1
  <2>2. \A k \in 1 .. M : GroupAt(N + k) = 0
    BY <2>1, GroupsAre DEF N
  <2> QED BY <2>1, <2>2
<1> HIDE DEF g, h
<1>9. 0 \in Int /\ M <= Len(g) /\ M <= Len(h) /\ N <= Len(h) /\ N <= Len(groups) /\ N + M <= Len(h)
      /\ M \in 0 .. M /\ N \in 0 .. N /\ M \in 0 .. Len(h) /\ N + M \in M .. Len(h) /\ groups \in Seq(Int)
  BY <1>1, <1>3, <1>5 DEF N
<1>10. Running(0, g)[M] = Running(0, h)[M]
  <2>1. \A k \in 0 .. M : Running(0, g)[k] = Running(0, h)[k]
    BY <1>3, <1>5, <1>6, <1>9, RunningSame
  <2> QED BY <1>9, <2>1
<1>11. Running(0, groups)[N] = Running(0, h)[N]
  <2>1. \A k \in 0 .. N : Running(0, groups)[k] = Running(0, h)[k]
    BY <1>1, <1>3, <1>7, <1>9, RunningSame
  <2> QED BY <1>9, <2>1
<1>12. Running(0, h)[M] <= Running(0, h)[N + M]
  BY <1>3, <1>9, RunningUp
<1>13. Running(0, h)[N + M] = Running(0, h)[N]
  BY <1>1, <1>3, <1>8, <1>9, RunningFlat
<1>14. Total(notes) = Running(0, groups)[N]
  BY <1>1 DEF Total, N
<1> QED BY <1>5, <1>10, <1>11, <1>12, <1>13, <1>14 DEF g

\* A plan that can be executed costs no more than the user has.
LEMMA AffordedIs ==
    ASSUME InputOK, NEW m \in 0 .. Len(groups), Executes(Plan(m))
    PROVE  LET plan == Plan(m)
           IN  /\ Total([k \in DOMAIN plan |-> Total(plan[k].out)]) + Total([k \in DOMAIN plan |-> plan[k].fee])
                 <= balance + Total(notes)
               /\ Total([k \in DOMAIN plan |-> plan[k].fee]) \in Int
<1> DEFINE T == Len(transfers)
           M == m + T
           plan == Plan(m)
           c == [k \in 1 .. M |-> Spent(k) - Total(plan[k].out) - plan[k].fee]
           out == [k \in 1 .. M |-> Total(plan[k].out)]
           fee == [k \in 1 .. M |-> plan[k].fee]
           g == [k \in 1 .. M |-> GroupAt(k)]
           h == [k \in 1 .. M |-> c[k] + out[k]]
<1>1. T \in Nat \ {0} /\ m \in Nat /\ AggregationFee \in Nat /\ balance \in Int
  BY TransfersAre, GroupsAre DEF InputOK
<1>2. \A k \in 1 .. T : Total(transfers[k]) \in Nat /\ FinalFee(k) \in Nat
  BY TransfersAre
<1> HIDE DEF T
<1>3. M \in Nat /\ M \in 1 .. M /\ DOMAIN plan = 1 .. M /\ Len(plan) = M
  BY <1>1 DEF Plan, T
<1>4. ASSUME NEW k \in 1 .. M
      PROVE  Total(plan[k].out) \in Int /\ plan[k].fee \in Int
  <2>1. CASE k <= m
    <3>1. plan[k] = Part(GroupAt(k), <<>>, AggregationFee)
      BY <2>1 DEF Plan, T
    <3> QED BY <1>1, <3>1, PartIs, TotalOfNone
  <2>2. CASE ~(k <= m)
    <3>1. k - m \in 1 .. T
      BY <1>1, <2>2
    <3>2. plan[k] = Part(GroupAt(k), transfers[k - m], FinalFee(k - m))
      BY <2>2 DEF Plan, T
    <3> HIDE DEF plan
    <3>3. plan[k].out = transfers[k - m] /\ plan[k].fee = FinalFee(k - m)
      BY <3>2, PartIs
    <3>4. Total(transfers[k - m]) \in Nat /\ FinalFee(k - m) \in Nat
      BY <1>2, <3>1
    <3> QED BY <3>3, <3>4
  <2> QED BY <1>1, <2>1, <2>2
<1>5. \A k \in 1 .. M : GroupAt(k) \in Nat /\ Spent(k) = GroupAt(k)
  <2>1. \A k \in 1 .. M : k \in Nat \ {0}
    BY <1>3
  <2> QED BY <2>1, GroupsAre
<1>6. Running(balance, c)[M] >= 0
  <2>1. \A k \in DOMAIN plan : Running(balance, [j \in 1 .. Len(plan) |->
                                   Spent(j) - Total(plan[j].out) - plan[j].fee])[k] >= 0
    BY DEF Executes, Spent
  <2> HIDE DEF M, plan
  <2> QED BY <1>3, <2>1
<1> HIDE DEF plan, M
<1>7. \A k \in 1 .. M : Spent(k) - Total(plan[k].out) - plan[k].fee \in Int
  BY <1>4, <1>5
<1>8. /\ c \in Seq(Int) /\ Len(c) = M /\ out \in Seq(Int) /\ Len(out) = M
      /\ fee \in Seq(Int) /\ Len(fee) = M
  BY <1>3, <1>4, <1>7
<1>9. g \in Seq(Int) /\ Len(g) = M /\ Running(0, g)[M] <= Total(notes)
  <2>1. Len(g) = M
    BY <1>3
  <2> QED BY <1>3, <2>1, SpentAtMost
<1>10. \A k \in 1 .. M : c[k] \in Int /\ out[k] \in Int /\ fee[k] \in Int
  BY <1>4, <1>7
<1>11. h \in Seq(Int) /\ Len(h) = M /\ \A k \in 1 .. M : h[k] = c[k] + out[k]
  <2> HIDE DEF c, out
  <2>1. \A k \in 1 .. M : c[k] + out[k] \in Int
    BY <1>10
  <2> QED BY <1>3, <2>1
<1>12. \A k \in 1 .. M : g[k] = h[k] + fee[k]
  <2> SUFFICES ASSUME NEW k \in 1 .. M PROVE g[k] = h[k] + fee[k]
    OBVIOUS
  <2> DEFINE x == Total(plan[k].out)
             y == plan[k].fee
             z == GroupAt(k)
  <2>1. x \in Int /\ y \in Int /\ z \in Int /\ Spent(k) = z
    BY <1>4, <1>5
  <2>2. g[k] = z /\ fee[k] = y /\ out[k] = x /\ c[k] = z - x - y
    BY <2>1
  <2>3. h[k] = (z - x - y) + x
    BY <2>2, <1>11
  <2> HIDE DEF x, y, z, g, h, fee
  <2>4. z = ((z - x - y) + x) + y
    BY <2>1
  <2> QED BY <2>2, <2>3, <2>4
<1> HIDE DEF c, out, fee, g, h
<1>13. 0 \in Int /\ M <= M /\ balance + 0 = balance /\ M \in 0 .. M
  BY <1>1, <1>3
<1>14. Running(balance, h)[M] = Running(balance, c)[M] + Running(0, out)[M]
  <2>1. M <= Len(c) /\ M <= Len(out) /\ M <= Len(h)
    BY <1>8, <1>11, <1>13
  <2>3. Both(c, out, h, M)
    BY <1>3, <1>8, <1>11, <2>1 DEF Both
  <2>2. \A k \in 0 .. M : Running(balance, h)[k] = Running(balance, c)[k] + Running(0, out)[k]
    BY <1>1, <2>3, RunningSum
  <2> QED BY <1>13, <2>2
<1>15. Running(balance, g)[M] = Running(balance, h)[M] + Running(0, fee)[M]
  <2>1. M <= Len(g) /\ M <= Len(fee) /\ M <= Len(h)
    BY <1>8, <1>9, <1>11, <1>13
  <2>3. Both(h, fee, g, M)
    BY <1>3, <1>8, <1>9, <1>11, <1>12, <2>1 DEF Both
  <2>2. \A k \in 0 .. M : Running(balance, g)[k] = Running(balance, h)[k] + Running(0, fee)[k]
    BY <1>1, <2>3, RunningSum
  <2> QED BY <1>13, <2>2
<1>16. Running(balance, g)[M] = balance + Running(0, g)[M]
  <2>1. M \in 0 .. Len(g)
    BY <1>9, <1>13
  <2> QED BY <1>1, <1>9, <2>1, RunningShift
<1>17. /\ Running(balance, c)[M] \in Int /\ Running(0, out)[M] \in Int /\ Running(0, fee)[M] \in Int
       /\ Running(0, g)[M] \in Int
  <2>1. Running(balance, c) \in [0 .. M -> Int] /\ Running(0, out) \in [0 .. M -> Int]
    BY <1>1, <1>8, <1>13, RunningIs
  <2>2. Running(0, fee) \in [0 .. M -> Int] /\ Running(0, g) \in [0 .. M -> Int]
    BY <1>8, <1>9, <1>13, RunningIs
  <2> QED BY <1>13, <2>1, <2>2
<1>18. Total(notes) \in Int
  BY TotalIs DEF InputOK
<1>19. Running(0, out)[M] + Running(0, fee)[M] <= balance + Total(notes)
  <2> DEFINE u == Running(balance, c)[M]
             v == Running(0, out)[M]
             w == Running(0, fee)[M]
             x == Running(0, g)[M]
             y == Total(notes)
  <2>1. u \in Int /\ v \in Int /\ w \in Int /\ x \in Int /\ y \in Int /\ balance \in Int /\ u >= 0 /\ x <= y
    BY <1>1, <1>6, <1>9, <1>17, <1>18
  <2>2. balance + x = (u + v) + w
    BY <1>14, <1>15, <1>16
  <2> HIDE DEF u, v, w, x, y
  <2>3. v + w <= balance + y
    BY <2>1, <2>2
  <2> QED BY <2>3 DEF v, w, y
<1>20. Total(out) = Running(0, out)[M] /\ Total(fee) = Running(0, fee)[M]
  BY <1>8 DEF Total
<1>21. out = [k \in DOMAIN plan |-> Total(plan[k].out)] /\ fee = [k \in DOMAIN plan |-> plan[k].fee]
  BY <1>3 DEF out, fee
<1> QED BY <1>17, <1>19, <1>20, <1>21 DEF plan

\* What is returned delivers the first p of the transfers: all of them exactly
\* when the search has succeeded.
Delivered ==
    pc # "try" =>
        \E a \in 0 .. Len(groups), p \in 0 .. Len(transfers) :
            /\ DOMAIN parts = 1 .. (a + p) /\ Len(parts) = a + p
            /\ [k \in DOMAIN parts |-> parts[k].out] = Outs(a, p)
            /\ p = Len(transfers) <=> pc = "done"

\* What the last steps return.
Returned(a) == [k \in 1 .. a |-> Part(GroupAt(k), <<>>, AggregationFee)] \o Prepared(account, i)

\* What a last step creates.
LEMMA PartsOut ==
    ASSUME PartsInv, pc = "try", NEW a \in 0 .. Len(groups)
    PROVE  \E p \in 0 .. Len(transfers) :
              /\ p = Len(Prepared(account, i))
              /\ DOMAIN Returned(a) = 1 .. (a + p) /\ Len(Returned(a)) = a + p
              /\ [k \in DOMAIN Returned(a) |-> Returned(a)[k].out] = Outs(a, p)
<1> DEFINE T == Len(transfers)
<1>1. InputOK /\ i \in Nat /\ account = Left[i] /\ i \in 0 .. Len(groups)
  BY DEF PartsInv
<1>2. account \in Int /\ T \in Nat /\ a \in Nat
  <2>1. T \in Nat
    BY <1>1, TransfersAre
  <2>2. Left[i] \in Int
    BY <1>1, LeftIs
  <2> QED BY <1>1, <2>1, <2>2
<1>3. PICK p \in 0 .. T :
         /\ Prepared(account, i) = [k \in 1 .. p |-> Part(GroupAt(i + k), transfers[k], FinalFee(k))]
         /\ Len(Prepared(account, i)) = p
  BY <1>1, <1>2, PreparedIs
<1> DEFINE s == [k \in 1 .. a |-> Part(GroupAt(k), <<>>, AggregationFee)]
           r == Returned(a)
           b == [k \in 1 .. p |-> Part(GroupAt(i + k), transfers[k], FinalFee(k))]
<1> HIDE DEF T
<1>4. p \in Nat /\ Len(s) = a /\ Len(b) = p
  BY <1>2
<1>5. \A k \in 1 .. a : s[k] = Part(GroupAt(k), <<>>, AggregationFee)
  OBVIOUS
<1>6. \A k \in 1 .. p : b[k] = Part(GroupAt(i + k), transfers[k], FinalFee(k))
  OBVIOUS
<1> DEFINE q == [k \in 1 .. (a + p) |-> IF k <= a THEN s[k] ELSE b[k - a]]
<1>7. s \o b = q
  BY <1>2, <1>4
<1>8. r = s \o b
  BY <1>3 DEF Returned
<1> HIDE DEF r
<1>9. a + p \in Nat /\ DOMAIN q = 1 .. (a + p) /\ Len(q) = a + p
  BY <1>2, <1>4
<1>10. a + p \in Nat /\ DOMAIN r = 1 .. (a + p) /\ Len(r) = a + p
  BY <1>7, <1>8, <1>9
<1>11. ASSUME NEW k \in 1 .. (a + p)
       PROVE  r[k].out = IF k <= a THEN <<>> ELSE transfers[k - a]
  <2>1. CASE k <= a
    <3>1. k \in 1 .. a /\ r[k] = s[k]
      BY <1>2, <1>7, <1>8, <2>1
    <3> QED BY <1>5, <2>1, <3>1, PartIs
  <2>2. CASE ~(k <= a)
    <3>1. k - a \in 1 .. p /\ r[k] = b[k - a]
      BY <1>2, <1>4, <1>7, <1>8, <2>2
    <3>2. r[k] = Part(GroupAt(i + (k - a)), transfers[k - a], FinalFee(k - a))
      BY <1>6, <3>1
    <3>3. Part(GroupAt(i + (k - a)), transfers[k - a], FinalFee(k - a)).out = transfers[k - a]
      BY PartIs
    <3> QED BY <2>2, <3>2, <3>3
  <2> QED BY <2>1, <2>2
<1>12. [k \in DOMAIN r |-> r[k].out] = Outs(a, p)
  BY <1>10, <1>11 DEF Outs
<1> QED BY <1>3, <1>10, <1>12 DEF T, r

\* No step returns anything else.
LEMMA NextDelivered == PartsInv /\ Delivered /\ [Next]_vars => Delivered'
<1> SUFFICES ASSUME PartsInv, Delivered, [Next]_vars PROVE Delivered'
  OBVIOUS
<1>1. ASSUME Fit \/ GiveUp PROVE Delivered'
  <2>1. UNCHANGED input /\ pc = "try" /\ parts' = aggregation \o Prepared(account, i)
        /\ (pc' = "done" <=> Len(Prepared(account, i)) = Len(transfers)) /\ pc' \in {"done", "failed"}
    <3>1. Len(Prepared(account, i)) \in 0 .. Len(transfers) /\ Len(transfers) \in Nat
      BY <1>1, NotAllFit, TransfersAre DEF Fit, GiveUp, PartsInv
    <3> QED BY <1>1, <3>1 DEF Fit, GiveUp
  <2>2. i \in 0 .. Len(groups) /\ aggregation = [k \in 1 .. i |-> Part(GroupAt(k), <<>>, AggregationFee)]
    BY DEF PartsInv
  <2>3. PICK p \in 0 .. Len(transfers) :
           /\ p = Len(Prepared(account, i))
           /\ DOMAIN parts' = 1 .. (i + p) /\ Len(parts') = i + p
           /\ [k \in DOMAIN parts' |-> parts'[k].out] = Outs(i, p)
    <3>1. parts' = Returned(i)
      BY <2>1, <2>2 DEF Returned
    <3> QED BY <2>1, <2>2, <3>1, PartsOut
  <2>4. groups' = groups /\ transfers' = transfers
    BY <2>1, SameInput
  <2>5. \E a \in 0 .. Len(groups') : \E q \in 0 .. Len(transfers') :
            /\ DOMAIN parts' = 1 .. (a + q) /\ Len(parts') = a + q
            /\ [k \in DOMAIN parts' |-> parts'[k].out] =
                   [k \in 1 .. (a + q) |-> IF k <= a THEN <<>> ELSE transfers'[k - a]]
            /\ (q = Len(transfers') <=> pc' = "done")
    BY <2>1, <2>2, <2>3, <2>4 DEF Outs
  <2> QED BY <2>5 DEF Delivered, Outs
<1>2. ASSUME Aggregate PROVE Delivered'
  <2>1. UNCHANGED input /\ pc = "try" /\ Len(Prepared(account, i)) < Len(transfers) /\ i' = i + 1
        /\ aggregation' = Append(aggregation, Part(GroupAt(i + 1), <<>>, AggregationFee))
        /\ (IF i' < Len(groups) THEN UNCHANGED <<parts, pc>>
            ELSE parts' = aggregation' \o Prepared(account, i) /\ pc' = "failed")
    BY <1>2 DEF Aggregate
  <2>2. groups' = groups /\ transfers' = transfers
    BY <2>1, SameInput
  <2>3. CASE i' < Len(groups)
    BY <2>1, <2>3 DEF Delivered
  <2>4. CASE ~(i' < Len(groups))
    <3>1. i' \in 0 .. Len(groups') /\ aggregation' = [k \in 1 .. i' |-> Part(GroupAt(k)', <<>>, AggregationFee')]
      BY <1>2, AggregateStep DEF PartsInv
    <3>2. aggregation' = [k \in 1 .. i' |-> Part(GroupAt(k), <<>>, AggregationFee)]
      BY <2>1, <3>1, SameInput DEF AggregationFee, Fee
    <3>3. PICK p \in 0 .. Len(transfers) :
             /\ p = Len(Prepared(account, i))
             /\ DOMAIN parts' = 1 .. (i' + p) /\ Len(parts') = i' + p
             /\ [k \in DOMAIN parts' |-> parts'[k].out] = Outs(i', p)
      <4>1. parts' = Returned(i')
        BY <2>1, <2>4, <3>2 DEF Returned
      <4>2. i' \in 0 .. Len(groups)
        BY <2>2, <3>1
      <4> QED BY <2>1, <4>1, <4>2, PartsOut
    <3>4. p # Len(transfers)
      <4>1. Len(transfers) \in Nat
        BY TransfersAre DEF PartsInv
      <4> QED BY <2>1, <3>3, <4>1
    <3>5. \E a \in 0 .. Len(groups') : \E q \in 0 .. Len(transfers') :
              /\ DOMAIN parts' = 1 .. (a + q) /\ Len(parts') = a + q
              /\ [k \in DOMAIN parts' |-> parts'[k].out] =
                     [k \in 1 .. (a + q) |-> IF k <= a THEN <<>> ELSE transfers'[k - a]]
              /\ (q = Len(transfers') <=> pc' = "done")
      BY <2>1, <2>2, <2>4, <3>1, <3>3, <3>4 DEF Outs
    <3> QED BY <3>5 DEF Delivered, Outs
  <2> QED BY <2>3, <2>4
<1>3. CASE UNCHANGED vars
  <2>1. UNCHANGED input /\ pc' = pc /\ parts' = parts
    BY <1>3 DEF vars, input
  <2>2. groups' = groups /\ transfers' = transfers
    BY <2>1, SameInput
  <2> QED BY <2>1, <2>2 DEF Delivered, Outs
<1> QED BY <1>1, <1>2, <1>3 DEF Next

\* Both invariants hold throughout.
LEMMA DeliveredAlways == Spec => [](PartsInv /\ Delivered)
<1>1. Init => Delivered
  BY DEF Init, Delivered
<1> QED BY <1>1, InitParts, NextParts, NextDelivered, PTL DEF Spec

\* The estimation says "insufficient" exactly when the request is given up
\* (feeEstimateInternal, which asks getTransactionParts for a partial plan).
THEOREM EstimateAgreesHolds == Spec => []EstimateAgrees
<1>1. ASSUME PartsInv, Delivered, pc # "try" PROVE Insufficient <=> pc = "failed"
  <2>1. InputOK /\ i \in 0 .. Len(groups) /\ pc \in {"done", "failed"}
    BY <1>1 DEF PartsInv
  <2>2. PICK a \in 0 .. Len(groups), p \in 0 .. Len(transfers) :
           /\ DOMAIN parts = 1 .. (a + p) /\ Len(parts) = a + p
           /\ [k \in DOMAIN parts |-> parts[k].out] = Outs(a, p)
           /\ p = Len(transfers) <=> pc = "done"
    BY <1>1 DEF Delivered
  <2>3. Len(groups) \in Nat /\ Len(transfers) \in Nat \ {0} /\ a \in Nat /\ p \in Nat
    BY <2>1, GroupsAre, TransfersAre
  <2> DEFINE sent == Total([k \in DOMAIN parts |-> Total(parts[k].out)])
             fees == Total([k \in DOMAIN parts |-> parts[k].fee])
  <2>4. sent = Running(0, Sums)[p]
    <3>1. \A k \in DOMAIN parts : parts[k].out = Outs(a, p)[k]
      BY <2>2
    <3>2. DOMAIN Outs(a, p) = DOMAIN parts
      BY <2>2 DEF Outs
    <3>3. [k \in DOMAIN parts |-> Total(parts[k].out)] = [k \in DOMAIN Outs(a, p) |-> Total(Outs(a, p)[k])]
      BY <3>1, <3>2
    <3> QED BY <2>1, <2>3, <3>3, SentIs
  <2>5. CASE pc = "failed"
    <3>1. p \in 0 .. (Len(transfers) - 1)
      BY <2>2, <2>3, <2>5
    <3>2. sent < Total(requests)
      BY <2>1, <2>4, <3>1, SumsAre
    <3> QED BY <2>5, <3>2 DEF Insufficient
  <2>6. CASE pc = "done"
    <3>1. p = Len(transfers) /\ parts = Plan(i) /\ Pays(i)
      BY <1>1, <2>2, <2>6 DEF PartsInv
    <3>2. sent = Total(requests) /\ Total(requests) \in Int
      BY <2>1, <2>3, <2>4, <3>1, SumsAre
    <3>3. Executes(Plan(i))
      BY <2>1, <3>1, ExecutesIs
    <3>4. sent + fees <= balance + Total(notes)
      BY <2>1, <3>1, <3>3, AffordedIs
    <3>5. parts # <<>>
      <4>1. Len(<<>>) = 0 /\ Len(parts) > 0
        BY <2>2, <2>3, <3>1
      <4> QED BY <4>1
    <3>6. Total(notes) \in Int /\ balance \in Int /\ fees \in Int
      <4>1. Total(notes) \in Int /\ balance \in Int
        BY <2>1, TotalIs DEF InputOK
      <4> QED BY <2>1, <3>1, <3>3, <4>1, AffordedIs
    <3> HIDE DEF sent, fees
    <3>7. ~(sent < Total(requests)) /\ ~(sent + fees > balance + Total(notes))
      BY <3>2, <3>4, <3>6
    <3> QED BY <2>6, <3>5, <3>7 DEF Insufficient, sent, fees
  <2> QED BY <2>1, <2>5, <2>6
<1>2. PartsInv /\ Delivered => EstimateAgrees
  BY <1>1 DEF EstimateAgrees
<1> QED BY <1>2, DeliveredAlways, PTL

-----------------------------------------------------------------------------
(* The requests, in their order.                                           *)

\* The equations of FlattenSeq.
LEMMA FlattenIs ==
    ASSUME NEW D, NEW s \in Seq(Seq(D)), Len(s) > 0
    PROVE  \E F : /\ F[1] = s[1] /\ FlattenSeq(s) = F[Len(s)]
                  /\ \A k \in 2 .. Len(s) : F[k] = F[k - 1] \o s[k]
<1> DEFINE n == Len(s)
           Good(f, k) == /\ f = [j \in 1 .. k |-> f[j]] /\ f[1] = s[1]
                         /\ \A j \in 2 .. k : f[j] = f[j - 1] \o s[j]
           S == {k \in 0 .. (n - 1) : \E f : Good(f, k + 1)}
<1>1. n \in Nat /\ n > 0 /\ n - 1 \in Nat
  OBVIOUS
<1> HIDE DEF n
<1>2. 0 \in S
  <2>1. Good([j \in 1 .. 1 |-> s[1]], 1)
    OBVIOUS
  <2>2. 0 + 1 = 1
    OBVIOUS
  <2> HIDE DEF Good
  <2> QED BY <1>1, <2>1, <2>2
<1>3. ASSUME NEW k \in 0 .. ((n - 1) - 1), k \in S PROVE k + 1 \in S
  <2>1. PICK f : Good(f, k + 1)
    BY <1>3
  <2>2. k \in Nat /\ k + 1 \in 0 .. (n - 1)
    BY <1>1
  <2> DEFINE g == [j \in 1 .. ((k + 1) + 1) |-> IF j <= k + 1 THEN f[j] ELSE f[k + 1] \o s[(k + 1) + 1]]
  <2>3. g = [j \in 1 .. ((k + 1) + 1) |-> g[j]] /\ g[1] = s[1]
    BY <2>1, <2>2
  <2>4. ASSUME NEW j \in 2 .. ((k + 1) + 1) PROVE g[j] = g[j - 1] \o s[j]
    <3>1. CASE j <= k + 1
      <4>1. g[j] = f[j] /\ g[j - 1] = f[j - 1] /\ j \in 2 .. (k + 1)
        BY <2>2, <3>1
      <4> HIDE DEF g
      <4> QED BY <2>1, <4>1
    <3>2. CASE j = (k + 1) + 1
      <4>1. (k + 1) + 1 \in 1 .. ((k + 1) + 1) /\ k + 1 \in 1 .. ((k + 1) + 1)
            /\ ~((k + 1) + 1 <= k + 1) /\ k + 1 <= k + 1 /\ ((k + 1) + 1) - 1 = k + 1
        BY <2>2
      <4>2. g[(k + 1) + 1] = f[k + 1] \o s[(k + 1) + 1]
        BY <4>1
      <4>3. g[k + 1] = f[k + 1]
        BY <4>1
      <4> HIDE DEF g
      <4>4. j - 1 = k + 1
        BY <2>2, <3>2
      <4>5. g[j] = f[k + 1] \o s[j]
        BY <3>2, <4>2, Zenon
      <4>6. g[j - 1] = f[k + 1]
        BY <4>3, <4>4, Zenon
      <4> QED BY <4>5, <4>6, Zenon
    <3>3. j <= k + 1 \/ j = (k + 1) + 1
      BY <2>2
    <3> HIDE DEF g
    <3> QED BY <3>1, <3>2, <3>3
  <2>5. Good(g, (k + 1) + 1)
    <3>1. \A j \in 2 .. ((k + 1) + 1) : g[j] = g[j - 1] \o s[j]
      BY <2>4
    <3> HIDE DEF g
    <3> QED BY <2>3, <3>1
  <2> HIDE DEF Good, g
  <2> QED BY <2>2, <2>5
<1>4. n - 1 \in S
  <2> HIDE DEF S
  <2>1. \A k \in 0 .. (n - 1) : k \in S
    BY <1>1, <1>2, <1>3, Upto
  <2> QED BY <1>1, <2>1
<1>5. PICK f : Good(f, n)
  <2>1. (n - 1) + 1 = n
    BY <1>1
  <2> HIDE DEF Good
  <2> QED BY <1>4, <2>1
<1> DEFINE Rec(g) == g = [j \in 1 .. n |-> IF j = 1 THEN s[j] ELSE g[j - 1] \o s[j]]
           F == CHOOSE g : Rec(g)
<1>6. Rec(f)
  <2>1. ASSUME NEW j \in 1 .. n PROVE f[j] = IF j = 1 THEN s[j] ELSE f[j - 1] \o s[j]
    <3>1. CASE j = 1
      BY <1>5, <3>1
    <3>2. CASE j # 1
      <4>1. j \in 2 .. n
        BY <1>1, <3>2
      <4> QED BY <1>5, <3>2, <4>1
    <3> QED BY <3>1, <3>2
  <2>2. f = [j \in 1 .. n |-> f[j]]
    BY <1>5
  <2> QED BY <2>1, <2>2
<1>7. Rec(F)
  <2> HIDE DEF Rec
  <2> QED BY <1>6, Zenon
<1>8. F[1] = s[1] /\ \A j \in 2 .. n : F[j] = F[j - 1] \o s[j]
  <2> DEFINE e(j) == IF j = 1 THEN s[j] ELSE F[j - 1] \o s[j]
  <2>1. F = [j \in 1 .. n |-> e(j)]
    BY <1>7
  <2>2. 1 \in 1 .. n /\ \A j \in 2 .. n : j \in 1 .. n /\ j # 1
    BY <1>1
  <2>3. \A j \in 1 .. n : F[j] = e(j)
    <3> HIDE DEF e
    <3> HIDE DEF F
    <3> QED BY <2>1
  <2> HIDE DEF F
  <2> QED BY <2>2, <2>3
<1>9. FlattenSeq(s) = F[n]
  BY <1>1 DEF FlattenSeq, n
<1> HIDE DEF F
<1> QED BY <1>8, <1>9 DEF n

\* Gluing a segment to what comes before it.
LEMMA Glued ==
    ASSUME NEW D, NEW s \in Seq(D), NEW a \in 0 .. Len(s), NEW b \in a .. Len(s)
    PROVE  SubSeq(s, 1, a) \o SubSeq(s, a + 1, b) = SubSeq(s, 1, b)
<1> DEFINE x == SubSeq(s, 1, a)
           y == SubSeq(s, a + 1, b)
           z == SubSeq(s, 1, b)
<1>1. a \in Nat /\ b \in Nat /\ a <= b /\ b <= Len(s)
  OBVIOUS
<1>2. x \in Seq(D) /\ Len(x) = a /\ \A k \in 1 .. a : x[k] = s[k]
  BY <1>1
<1>3. y \in Seq(D) /\ Len(y) = b - a /\ \A k \in 1 .. (b - a) : y[k] = s[(a + 1) + k - 1]
  BY <1>1
<1>4. z \in Seq(D) /\ Len(z) = b /\ \A k \in 1 .. b : z[k] = s[k]
  BY <1>1
<1> HIDE DEF x, y, z
<1>5. x \o y \in Seq(D) /\ Len(x \o y) = b
  BY <1>1, <1>2, <1>3
<1>6. ASSUME NEW k \in 1 .. b PROVE (x \o y)[k] = z[k]
  <2>1. CASE k <= a
    <3>1. (x \o y)[k] = x[k]
      BY <1>1, <1>2, <1>3, <2>1
    <3> QED BY <1>1, <1>2, <1>4, <2>1, <3>1
  <2>2. CASE ~(k <= a)
    <3>1. (x \o y)[k] = y[k - a] /\ k - a \in 1 .. (b - a) /\ (a + 1) + (k - a) - 1 = k
      BY <1>1, <1>2, <1>3, <2>2
    <3> QED BY <1>3, <1>4, <3>1
  <2> QED BY <2>1, <2>2
<1>7. x \o y = z
  <2> DEFINE w == x \o y
  <2>1. w \in Seq(D) /\ Len(w) = Len(z) /\ \A k \in 1 .. Len(w) : w[k] = z[k]
    BY <1>4, <1>5, <1>6
  <2> HIDE DEF w
  <2>2. w = z
    BY <1>4, <2>1, SeqEqual
  <2> QED BY <2>2 DEF w
<1> QED BY <1>7 DEF x, y, z

\* All transfers of a plan, one after the other, are the requests in their order.
LEMMA FlatOuts ==
    ASSUME InputOK, NEW a \in Nat
    PROVE  FlattenSeq(Outs(a, Len(transfers))) = requests
<1> DEFINE T == Len(transfers)
           D == Nat \ {0}
           s == Outs(a, T)
           cut(k) == Cut(requests, Out, k)
           upto(k) == IF k <= a THEN 0 ELSE cut(k - a)
<1>1. T \in Nat \ {0} /\ \A k \in 1 .. T : transfers[k] \in Seq(D)
  BY TransfersAre
<1>2. requests \in Seq(D) /\ Out \in Nat /\ Out > 0
  BY PartsAssumption DEF InputOK
<1>3. cut(0) = 0 /\ cut(T) = Len(requests)
  BY <1>2, ChunksAre DEF transfers
<1>4. \A k \in Nat : cut(k) \in 0 .. Len(requests)
  BY <1>2, ChunksAre
<1>5. \A k \in 1 .. T : transfers[k] = SubSeq(requests, cut(k - 1) + 1, cut(k)) /\ cut(k - 1) < cut(k)
  BY <1>2, ChunksAre DEF transfers
<1> HIDE DEF T, D, cut
<1>6. \A k \in 1 .. (a + T) : k <= a => s[k] = <<>>
  BY DEF Outs
<1>7. \A k \in 1 .. (a + T) : ~(k <= a) => s[k] = transfers[k - a] /\ k - a \in 1 .. T
  BY <1>1 DEF Outs
<1>8. a + T \in Nat /\ a + T > 0 /\ Len(s) = a + T /\ s = [k \in 1 .. (a + T) |-> s[k]]
  BY <1>1 DEF Outs
<1> HIDE DEF s
<1>9. s \in Seq(Seq(D)) /\ Len(s) > 0
  <2>1. ASSUME NEW k \in 1 .. (a + T) PROVE s[k] \in Seq(D)
    <3>1. CASE k <= a
      <4>1. s[k] = <<>> /\ <<>> \in Seq(D)
        BY <1>6, <3>1
      <4> QED BY <4>1
    <3>2. CASE ~(k <= a)
      BY <1>1, <1>7, <3>2
    <3> QED BY <3>1, <3>2
  <2> QED BY <1>8, <2>1
<1>10. PICK F : /\ F[1] = s[1] /\ FlattenSeq(s) = F[Len(s)]
                /\ \A k \in 2 .. Len(s) : F[k] = F[k - 1] \o s[k]
  BY <1>9, FlattenIs
<1>11. ASSUME NEW k \in 1 .. (a + T)
       PROVE  /\ upto(k) \in 0 .. Len(requests) /\ upto(k - 1) \in 0 .. upto(k)
              /\ s[k] = SubSeq(requests, upto(k - 1) + 1, upto(k))
  <2>1. CASE k <= a
    <3>1. upto(k) = 0 /\ upto(k - 1) = 0
      BY <2>1
    <3>2. SubSeq(requests, 0 + 1, 0) = <<>>
      BY <1>2
    <3> HIDE DEF upto
    <3>3. s[k] = <<>>
      BY <1>6, <2>1
    <3>4. Len(requests) \in Nat
      BY <1>2
    <3> QED BY <3>1, <3>2, <3>3, <3>4
  <2>2. CASE ~(k <= a)
    <3>1. k - a \in 1 .. T /\ s[k] = transfers[k - a] /\ k - a \in Nat /\ (k - a) - 1 \in Nat
      BY <1>1, <1>7, <2>2
    <3>2. upto(k) = cut(k - a)
      BY <2>2
    <3>3. upto(k - 1) = cut((k - a) - 1)
      <4>1. CASE k - 1 <= a
        <5>1. (k - a) - 1 = 0
          BY <2>2, <4>1
        <5> QED BY <1>3, <4>1, <5>1
      <4>2. CASE ~(k - 1 <= a)
        <5>1. (k - 1) - a = (k - a) - 1
          OBVIOUS
        <5> QED BY <4>2, <5>1
      <4> QED BY <4>1, <4>2
    <3> HIDE DEF upto
    <3>4. cut(k - a) \in 0 .. Len(requests) /\ cut((k - a) - 1) \in 0 .. Len(requests)
      BY <1>4, <3>1
    <3>5. transfers[k - a] = SubSeq(requests, cut((k - a) - 1) + 1, cut(k - a)) /\ cut((k - a) - 1) < cut(k - a)
      BY <1>5, <3>1
    <3>6. upto(k - 1) < upto(k) /\ upto(k) \in 0 .. Len(requests) /\ upto(k - 1) \in 0 .. Len(requests)
      BY <3>2, <3>3, <3>4, <3>5
    <3>7. s[k] = SubSeq(requests, upto(k - 1) + 1, upto(k))
      BY <3>1, <3>2, <3>3, <3>5
    <3>8. upto(k - 1) \in 0 .. upto(k)
      BY <3>6
    <3> QED BY <3>6, <3>7, <3>8
  <2> QED BY <2>1, <2>2
<1> DEFINE S == {k \in 0 .. (a + T - 1) : F[k + 1] = SubSeq(requests, 1, upto(k + 1))}
<1>12. 0 \in S
  <2>1. 1 \in 1 .. (a + T) /\ 0 \in 0 .. (a + T - 1) /\ 0 + 1 = 1 /\ upto(1 - 1) = 0
    BY <1>1, <1>3
  <2> HIDE DEF upto
  <2>2. s[1] = SubSeq(requests, upto(1 - 1) + 1, upto(1))
    BY <1>11, <2>1
  <2>3. s[1] = SubSeq(requests, 0 + 1, upto(1))
    BY <2>1, <2>2
  <2> QED BY <1>10, <2>1, <2>3
<1>13. ASSUME NEW k \in 0 .. ((a + T - 1) - 1), k \in S PROVE k + 1 \in S
  <2>1. k \in Nat /\ (k + 1) + 1 \in 2 .. Len(s) /\ (k + 1) + 1 \in 1 .. (a + T) /\ ((k + 1) + 1) - 1 = k + 1
        /\ k + 1 \in 0 .. (a + T - 1)
    BY <1>1, <1>8
  <2> HIDE DEF upto
  <2>2. F[(k + 1) + 1] = F[((k + 1) + 1) - 1] \o s[(k + 1) + 1]
    BY <1>10, <2>1
  <2>3. F[k + 1] = SubSeq(requests, 1, upto(k + 1))
    BY <1>13
  <2>4. /\ upto((k + 1) + 1) \in 0 .. Len(requests)
        /\ upto(((k + 1) + 1) - 1) \in 0 .. upto((k + 1) + 1)
        /\ s[(k + 1) + 1] = SubSeq(requests, upto(((k + 1) + 1) - 1) + 1, upto((k + 1) + 1))
    BY <1>11, <2>1
  <2> DEFINE x == upto(k + 1)
             y == upto((k + 1) + 1)
  <2>5. /\ y \in 0 .. Len(requests) /\ x \in 0 .. y
        /\ F[(k + 1) + 1] = SubSeq(requests, 1, x) \o SubSeq(requests, x + 1, y)
    BY <2>1, <2>2, <2>3, <2>4
  <2> HIDE DEF x, y
  <2>6. x \in 0 .. Len(requests) /\ y \in x .. Len(requests)
    BY <1>2, <2>5
  <2>7. F[(k + 1) + 1] = SubSeq(requests, 1, y)
    BY <1>2, <2>5, <2>6, Glued
  <2> QED BY <2>1, <2>7 DEF y
<1>14. \A k \in 0 .. (a + T - 1) : k \in S
  <2>1. a + T - 1 \in Nat
    BY <1>1
  <2> HIDE DEF S
  <2> QED BY <1>12, <1>13, <2>1, Upto
<1>15. F[a + T] = SubSeq(requests, 1, upto(a + T))
  <2>1. a + T - 1 \in 0 .. (a + T - 1) /\ (a + T - 1) + 1 = a + T
    BY <1>1
  <2>2. a + T - 1 \in S
    BY <1>14, <2>1
  <2> HIDE DEF upto
  <2> QED BY <2>1, <2>2
<1>16. upto(a + T) = Len(requests)
  <2>1. ~(a + T <= a) /\ (a + T) - a = T
    BY <1>1
  <2> QED BY <1>3, <2>1
<1>17. SubSeq(requests, 1, Len(requests)) = requests
  BY <1>2
<1> HIDE DEF upto
<1> QED BY <1>8, <1>10, <1>15, <1>16, <1>17 DEF s, T

\* A plan that is returned can be executed, delivers the requests in their order,
\* and no shorter one can be executed (getTransactionParts).
THEOREM PlanExecutesHolds == Spec => []PlanExecutes
<1>1. ASSUME PartsInv, Delivered, pc = "done" PROVE PlanExecutes
  <2>1. InputOK /\ i \in 0 .. Len(groups) /\ parts = Plan(i) /\ Pays(i) /\ \A m \in 0 .. (i - 1) : ~Pays(m)
    BY <1>1 DEF PartsInv
  <2>2. Len(groups) \in Nat /\ i \in Nat
    BY <2>1, GroupsAre
  <2>3. Executes(parts)
    BY <2>1, ExecutesIs
  <2>4. \A m \in 0 .. (i - 1) : ~Executes(Plan(m))
    <3> SUFFICES ASSUME NEW m \in 0 .. (i - 1) PROVE ~Executes(Plan(m))
      OBVIOUS
    <3>1. m \in 0 .. Len(groups)
      BY <2>1, <2>2
    <3> QED BY <2>1, <3>1, ExecutesIs
  <2>5. FlattenSeq([k \in DOMAIN parts |-> parts[k].out]) = requests
    <3>1. PICK a \in 0 .. Len(groups), p \in 0 .. Len(transfers) :
             [k \in DOMAIN parts |-> parts[k].out] = Outs(a, p) /\ (p = Len(transfers) <=> pc = "done")
      BY <1>1 DEF Delivered
    <3>2. a \in Nat /\ p = Len(transfers)
      BY <1>1, <2>2, <3>1
    <3> QED BY <2>1, <3>1, <3>2, FlatOuts
  <2> QED BY <2>1, <2>3, <2>4, <2>5 DEF PlanExecutes
<1>2. PartsInv /\ Delivered => PlanExecutes
  BY <1>1 DEF PlanExecutes
<1> QED BY <1>2, DeliveredAlways, PTL

-----------------------------------------------------------------------------
(* The maximum that is shown.                                              *)

\* The search succeeds exactly when some number of aggregations is enough.
LEMMA DoneIff ==
    ASSUME PartsInv, pc # "try"
    PROVE  pc = "done" <=> \E m \in 0 .. Len(groups) : Pays(m)
BY DEF PartsInv

\* The fee of the last transaction, and what calcMaxAvailableTransfer runs through.
Final == IF type = "transfer" THEN Fee(type, 1) ELSE WithdrawFee
Steps == Running(balance, [k \in 1 .. Len(groups) |->
                              groups[k] - (IF k = Len(groups) THEN Final ELSE AggregationFee)])

\* The amount asked for in a single request is what its one transfer delivers.
LEMMA OneTransfer ==
    ASSUME InputOK, Len(requests) = 1
    PROVE  /\ Len(transfers) = 1 /\ Total(transfers[1]) = requests[1] /\ requests[1] \in Nat \ {0}
           /\ FinalFee(1) = Final /\ Final = Fee(type, 1) /\ Final \in Nat
<1>1. Out \in Nat /\ Out > 0 /\ requests \in Seq(Nat \ {0}) /\ requests[1] \in Nat \ {0} /\ requests \in Seq(Int)
  BY PartsAssumption DEF InputOK
<1>2. Len(transfers) \in Nat \ {0}
  BY TransfersAre
<1>3. \A k \in 1 .. Len(transfers) :
         /\ transfers[k] = SubSeq(requests, Cut(requests, Out, k - 1) + 1, Cut(requests, Out, k))
         /\ Cut(requests, Out, k - 1) < Cut(requests, Out, k)
  BY <1>1, ChunksAre DEF transfers
<1>4. \A k \in Nat : Cut(requests, Out, k) \in 0 .. 1
  BY <1>1, ChunksAre
<1>5. Cut(requests, Out, 0) = 0 /\ Cut(requests, Out, 1) = 1 /\ transfers[1] = SubSeq(requests, 1, 1)
  <2>1. 1 \in 1 .. Len(transfers) /\ 1 - 1 = 0 /\ 0 \in Nat /\ 1 \in Nat
    BY <1>2
  <2>2. Cut(requests, Out, 0) < Cut(requests, Out, 1) /\ Cut(requests, Out, 0) \in 0 .. 1
        /\ Cut(requests, Out, 1) \in 0 .. 1
    BY <1>3, <1>4, <2>1
  <2>3. Cut(requests, Out, 0) = 0 /\ Cut(requests, Out, 1) = 1
    BY <2>2
  <2>4. transfers[1] = SubSeq(requests, Cut(requests, Out, 1 - 1) + 1, Cut(requests, Out, 1))
    BY <1>3, <2>1
  <2>5. Cut(requests, Out, 1 - 1) + 1 = 1
    BY <2>1, <2>3
  <2> QED BY <2>3, <2>4, <2>5
<1>6. Len(transfers) = 1
  <2> SUFFICES ASSUME Len(transfers) # 1 PROVE FALSE
    OBVIOUS
  <2>1. 2 \in 1 .. Len(transfers) /\ 2 - 1 = 1 /\ 2 \in Nat
    BY <1>2
  <2>2. Cut(requests, Out, 1) < Cut(requests, Out, 2) /\ Cut(requests, Out, 2) \in 0 .. 1
    BY <1>3, <1>4, <2>1
  <2> QED BY <1>5, <2>2
<1>7. transfers[1] = requests
  <2>1. SubSeq(requests, 1, Len(requests)) = requests
    BY <1>1
  <2> QED BY <1>5, <2>1
<1>8. Total(requests) = requests[1]
  <2>1. 0 \in Nat /\ 0 + 1 <= Len(requests) /\ 0 + 1 = 1 /\ 0 \in Int
    OBVIOUS
  <2>2. Running(0, requests)[0 + 1] = Running(0, requests)[0] + requests[0 + 1]
    BY <1>1, <2>1, RunningNext
  <2>3. Running(0, requests)[0] = 0
    BY <1>1, <2>1, RunningIs
  <2>4. Running(0, requests)[1] = requests[1]
    BY <1>1, <2>1, <2>2, <2>3
  <2> QED BY <2>4 DEF Total
<1>9. FinalFee(1) = Fee(type, 1) /\ Final = Fee(type, 1)
  BY <1>7 DEF FinalFee, Final, Fee
<1>10. FinalFee(1) \in Nat
  BY <1>2, TransfersAre
<1> QED BY <1>1, <1>6, <1>7, <1>8, <1>9, <1>10

\* With one transfer: what m aggregations make possible.
LEMMA PaysOne ==
    ASSUME InputOK, Len(requests) = 1, NEW m \in 0 .. Len(groups)
    PROVE  /\ Pays(m) <=> (\A k \in 1 .. m : Left[k] >= 0)
                          /\ Left[m] + GroupAt(m + 1) - requests[1] - Final >= 0
           /\ Left[m] \in Int /\ GroupAt(m + 1) \in Nat
<1>1. Len(transfers) = 1 /\ Total(transfers[1]) = requests[1] /\ requests[1] \in Nat \ {0}
      /\ FinalFee(1) = Final /\ Final \in Nat
  BY OneTransfer
<1>2. Left[m] \in Int /\ m \in Nat /\ GroupAt(m + 1) \in Nat
  <2>1. m \in Nat /\ m + 1 \in Nat \ {0}
    BY GroupsAre
  <2>2. Left[m] \in Int
    BY LeftIs
  <2> QED BY <2>1, <2>2, GroupsAre
<1>3. 1 \in 1 .. Len(transfers) /\ 1 - 1 = 0 /\ 1 .. Len(transfers) = {1}
  BY <1>1
<1>4. After(Left[m], m)[0] = Left[m] /\ After(Left[m], m)[1] = After(Left[m], m)[1 - 1] + Change(m, 1)
  BY <1>2, <1>3, AfterIs
<1>5. Change(m, 1) = GroupAt(m + 1) - requests[1] - Final
  BY <1>1 DEF Change
<1>6. After(Left[m], m)[1] = Left[m] + GroupAt(m + 1) - requests[1] - Final
  BY <1>1, <1>2, <1>3, <1>4, <1>5
<1> QED BY <1>2, <1>3, <1>6 DEF Pays

\* Without dust the balance never decreases, and the last group decides.
LEMMA NoDustLeft ==
    ASSUME InputOK, NoDust, Fee(type, 1) \in Nat
    PROVE  \A j \in 0 .. Len(groups), k \in 0 .. Len(groups) : j <= k => Left[j] <= Left[k]
<1> DEFINE d == [k \in 1 .. Len(groups) |-> groups[k] - AggregationFee]
<1>1. groups \in Seq(Nat) /\ Len(groups) \in Nat /\ AggregationFee \in Nat /\ balance \in Int
  BY GroupsAre, TransfersAre DEF InputOK
<1>2. \A k \in 1 .. Len(groups) : groups[k] \in Nat /\ groups[k] >= AggregationFee
  BY <1>1 DEF NoDust
<1>3. d \in Seq(Nat) /\ Len(d) = Len(groups)
  <2>1. \A k \in 1 .. Len(groups) : groups[k] - AggregationFee \in Nat
    BY <1>1, <1>2
  <2> QED BY <1>1, <2>1
<1>4. Left = Running(balance, d)
  BY DEF Left
<1> HIDE DEF d
<1> SUFFICES ASSUME NEW j \in 0 .. Len(groups), NEW k \in 0 .. Len(groups), j <= k PROVE Left[j] <= Left[k]
  OBVIOUS
<1>5. j \in 0 .. Len(d) /\ k \in j .. Len(d)
  BY <1>1, <1>3
<1> QED BY <1>1, <1>3, <1>4, <1>5, RunningUp

\* What calcMaxAvailableTransfer runs through: the aggregations, and then the
\* last transaction.
LEMMA StepsAre ==
    ASSUME InputOK, Final \in Nat
    PROVE  /\ \A k \in 0 .. (Len(groups) - 1) : Steps[k] = Left[k]
           /\ Len(groups) > 0 =>
                 Steps[Len(groups)] = Left[Len(groups) - 1] + groups[Len(groups)] - Final
<1> DEFINE N == Len(groups)
           d == [k \in 1 .. N |-> groups[k] - AggregationFee]
           e == [k \in 1 .. N |-> groups[k] - (IF k = N THEN Final ELSE AggregationFee)]
<1>1. groups \in Seq(Nat) /\ N \in Nat /\ AggregationFee \in Nat /\ balance \in Int
      /\ \A k \in 1 .. N : groups[k] \in Nat
  <2>1. groups \in Seq(Nat) /\ AggregationFee \in Nat /\ balance \in Int
    BY GroupsAre, TransfersAre DEF InputOK
  <2> QED BY <2>1
<1> HIDE DEF N
<1>2. d \in Seq(Int) /\ Len(d) = N /\ e \in Seq(Int) /\ Len(e) = N
  BY <1>1
<1>3. Left = Running(balance, d) /\ Steps = Running(balance, e)
  BY DEF Left, Steps, N
<1>4. \A k \in 1 .. (N - 1) : e[k] = d[k]
  BY <1>1
<1>5. N > 0 => e[N] = groups[N] - Final
  BY <1>1
<1> HIDE DEF d, e
<1>6. CASE N = 0
  <2>1. 0 .. (N - 1) = {} /\ ~(N > 0)
    BY <1>6
  <2> QED BY <2>1 DEF N
<1>7. CASE N > 0
  <2>1. N - 1 \in Nat /\ N - 1 <= Len(d) /\ N - 1 <= Len(e) /\ (N - 1) + 1 <= Len(e) /\ (N - 1) + 1 = N
        /\ N - 1 \in 0 .. (N - 1)
    BY <1>1, <1>2, <1>7
  <2>2. \A k \in 0 .. (N - 1) : Running(balance, e)[k] = Running(balance, d)[k]
    BY <1>1, <1>2, <1>4, <2>1, RunningSame
  <2>3. /\ Running(balance, e)[(N - 1) + 1] = Running(balance, e)[N - 1] + e[(N - 1) + 1]
        /\ Running(balance, e)[N - 1] \in Int
    BY <1>1, <1>2, <2>1, RunningNext
  <2>4. Steps[N] = Left[N - 1] + (groups[N] - Final) /\ Left[N - 1] \in Int
    BY <1>3, <1>5, <1>7, <2>1, <2>2, <2>3
  <2>5. groups[N] \in Int
    BY <1>1, <1>7
  <2>6. Steps[N] = Left[N - 1] + groups[N] - Final
    BY <2>4, <2>5
  <2> QED BY <1>3, <2>2, <2>6 DEF N
<1> QED BY <1>1, <1>6, <1>7

\* The largest of numbers, one of which is known to be the largest.
LEMMA LargestIs ==
    ASSUME NEW S, S \subseteq Int, NEW x \in S, \A y \in S : y <= x
    PROVE  Max(S) = x
<1>1. \E z \in S : \A y \in S : z >= y
  <2>1. \A y \in S : x >= y
    OBVIOUS
  <2> QED BY <2>1
<1>2. Max(S) \in S /\ \A y \in S : Max(S) >= y
  BY <1>1, Zenon DEF Max
<1>3. Max(S) \in Int /\ x \in Int
  BY <1>2
<1> QED BY <1>2, <1>3

\* Without dust the maximum is what the last transaction can send.
LEMMA MaxIsLast ==
    ASSUME InputOK, NoDust, Final \in Nat, Final = Fee(type, 1)
    PROVE  MaxAvailable = IF Len(groups) > 0 THEN Left[Len(groups) - 1] + groups[Len(groups)] - Final
                          ELSE IF balance >= Final THEN balance - Final ELSE 0
<1> DEFINE N == Len(groups)
           reached == {k \in 1 .. N : \A j \in 1 .. k : Steps[j] >= 0}
           S == {0, balance - Final} \cup {Steps[k] : k \in reached}
<1>1. groups \in Seq(Nat) /\ N \in Nat /\ AggregationFee \in Nat /\ balance \in Nat
  BY GroupsAre, TransfersAre DEF InputOK
<1>2. MaxAvailable = Max(S)
  BY DEF MaxAvailable, Steps, Final
<1> HIDE DEF N
<1>3. CASE N = 0
  <2>1. S = {0, balance - Final}
    BY <1>3
  <2> DEFINE x == IF balance >= Final THEN balance - Final ELSE 0
  <2>2. S \subseteq Int /\ x \in S /\ \A y \in S : y <= x
    <3>1. balance - Final \in Int /\ (x = 0 \/ x = balance - Final) /\ 0 <= x /\ balance - Final <= x
      BY <1>1
    <3> HIDE DEF x, S
    <3>2. S \subseteq Int /\ x \in S
      BY <2>1, <3>1
    <3>3. \A y \in S : y = 0 \/ y = balance - Final
      BY <2>1
    <3>4. \A y \in S : y <= x
      BY <3>1, <3>3
    <3> QED BY <3>2, <3>4
  <2> HIDE DEF S, x
  <2>3. Max(S) = x
    BY <2>2, LargestIs
  <2> QED BY <1>2, <1>3, <2>3 DEF x, N
<1>4. CASE N > 0
  <2> DEFINE x == Left[N - 1] + groups[N] - Final
  <2>1. N \in 1 .. N /\ N - 1 \in 0 .. N /\ groups[N] \in Nat /\ groups[N] >= Final
    BY <1>1, <1>4 DEF NoDust, N
  <2>2. Left \in [0 .. N -> Int] /\ Left[0] = balance
    BY LeftIs DEF N
  <2>3. \A j \in 0 .. N, k \in 0 .. N : j <= k => Left[j] <= Left[k]
    BY NoDustLeft DEF N
  <2>4. \A k \in 0 .. N : Left[k] \in Int /\ Left[k] >= balance
    <3>1. 0 \in 0 .. N /\ \A k \in 0 .. N : 0 <= k
      BY <1>1
    <3>2. \A k \in 0 .. N : Left[0] <= Left[k]
      BY <2>3, <3>1
    <3> QED BY <1>1, <2>2, <3>2
  <2>5. Steps[N] = x /\ \A k \in 0 .. (N - 1) : Steps[k] = Left[k]
    BY <1>4, StepsAre DEF N
  <2>6. x \in Int /\ x >= Left[N - 1] /\ Left[N - 1] >= balance
    BY <2>1, <2>4
  <2>7. \A k \in 1 .. N : Steps[k] \in Int /\ Steps[k] >= 0 /\ Steps[k] <= x
    <3> SUFFICES ASSUME NEW k \in 1 .. N PROVE Steps[k] \in Int /\ Steps[k] >= 0 /\ Steps[k] <= x
      OBVIOUS
    <3> HIDE DEF x
    <3>1. CASE k = N
      BY <1>1, <2>4, <2>1, <2>5, <2>6, <3>1
    <3>2. CASE k # N
      <4>1. k \in 0 .. (N - 1) /\ k \in 0 .. N /\ k <= N - 1
        BY <1>1, <3>2
      <4>2. Steps[k] = Left[k] /\ Left[k] \in Int /\ Left[k] >= balance /\ Left[k] <= Left[N - 1]
        BY <2>1, <2>3, <2>4, <2>5, <4>1
      <4>3. Left[N - 1] \in Int
        BY <2>1, <2>4
      <4> QED BY <1>1, <2>6, <4>2, <4>3
    <3> QED BY <3>1, <3>2
  <2> HIDE DEF x
  <2>8. N \in reached
    BY <2>1, <2>7
  <2>9. x \in S
    BY <2>5, <2>8
  <2>10. Left[N - 1] \in Int
    BY <2>1, <2>4
  <2>11. S \subseteq Int /\ \A y \in S : y <= x
    <3> SUFFICES ASSUME NEW y \in S PROVE y \in Int /\ y <= x
      OBVIOUS
    <3>1. CASE y = 0 \/ y = balance - Final
      BY <1>1, <2>6, <2>10, <3>1
    <3>2. CASE \E k \in reached : y = Steps[k]
      BY <2>7, <3>2
    <3> QED BY <3>1, <3>2
  <2> HIDE DEF S
  <2>12. Max(S) = x
    BY <2>9, <2>11, LargestIs
  <2> QED BY <1>2, <1>4, <2>12 DEF x, N
<1> QED BY <1>1, <1>3, <1>4

\* Without dust the last number of aggregations that is tried is the best.
LEMMA BestIsLast ==
    ASSUME InputOK, NoDust, Len(requests) = 1, Len(groups) > 0
    PROVE  (\E m \in 0 .. Len(groups) : Pays(m))
               <=> requests[1] <= Left[Len(groups) - 1] + groups[Len(groups)] - Final
<1> DEFINE N == Len(groups)
           r == requests[1]
           best == Left[N - 1] + groups[N] - Final
<1>1. groups \in Seq(Nat) /\ N \in Nat /\ AggregationFee \in Nat /\ balance \in Nat
  <2>1. groups \in Seq(Nat) /\ AggregationFee \in Nat
    BY GroupsAre, TransfersAre
  <2> QED BY <2>1 DEF InputOK
<1>2. r \in Nat \ {0} /\ Final \in Nat /\ Final = Fee(type, 1)
  BY OneTransfer
<1> HIDE DEF N, r
<1>3. N > 0 /\ N \in 1 .. N /\ N - 1 \in 0 .. N /\ (N - 1) + 1 = N /\ groups[N] \in Nat
  BY <1>1 DEF N
<1>4. \A k \in 1 .. N : GroupAt(k) = groups[k] /\ groups[k] \in Nat /\ groups[k] >= Final
  <2>1. \A k \in 1 .. N : GroupAt(k) = groups[k]
    BY GroupsAre DEF N
  <2>2. DOMAIN groups = 1 .. N /\ \A k \in 1 .. N : groups[k] \in Nat
    BY <1>1 DEF N
  <2> QED BY <1>2, <2>1, <2>2 DEF NoDust
<1>5. Final >= AggregationFee
  BY <1>2 DEF NoDust
<1>6. Left \in [0 .. N -> Int] /\ Left[0] = balance
      /\ \A k \in 1 .. N : Left[k] = Left[k - 1] + (groups[k] - AggregationFee)
  BY LeftIs DEF N
<1>7. \A j \in 0 .. N, k \in 0 .. N : j <= k => Left[j] <= Left[k]
  BY <1>2, NoDustLeft DEF N
<1>8. \A k \in 1 .. N : Left[k] >= 0
  <2> SUFFICES ASSUME NEW k \in 1 .. N PROVE Left[k] >= 0
    OBVIOUS
  <2>1. 0 \in 0 .. N /\ k \in 0 .. N /\ 0 <= k
    BY <1>1
  <2>2. Left[0] <= Left[k] /\ Left[k] \in Int
    BY <1>6, <1>7, <2>1
  <2> QED BY <1>1, <1>6, <2>2
<1>9. \A m \in 0 .. N : /\ Pays(m) <=> (\A k \in 1 .. m : Left[k] >= 0) /\ Left[m] + GroupAt(m + 1) - r - Final >= 0
                        /\ Left[m] \in Int /\ GroupAt(m + 1) \in Nat
  BY PaysOne DEF N, r
<1>10. Left[N - 1] \in Int
  BY <1>3, <1>6
<1>11. ASSUME r <= best PROVE Pays(N - 1)
  <2>1. \A k \in 1 .. (N - 1) : Left[k] >= 0
    BY <1>1, <1>8
  <2>2. GroupAt((N - 1) + 1) = groups[N]
    BY <1>3, <1>4
  <2>3. Left[N - 1] + groups[N] - r - Final >= 0
    BY <1>2, <1>3, <1>10, <1>11
  <2> QED BY <1>3, <1>9, <2>1, <2>2, <2>3
<1>12. ASSUME NEW m \in 0 .. (N - 1), Pays(m) PROVE r <= best
  <2>1. m \in 0 .. N /\ m + 1 \in 1 .. N /\ (m + 1) - 1 = m
    BY <1>1
  <2>2. Left[m] + GroupAt(m + 1) - r - Final >= 0 /\ Left[m] \in Int /\ GroupAt(m + 1) \in Nat
    BY <1>9, <1>12, <2>1
  <2>3. GroupAt(m + 1) = groups[m + 1]
    BY <1>4, <2>1
  <2>4. CASE m = N - 1
    <3>1. m + 1 = N
      BY <1>1, <2>4
    <3>2. Left[N - 1] + groups[N] - r - Final >= 0
      BY <2>2, <2>3, <2>4, <3>1
    <3>3. Left[N - 1] \in Int /\ groups[N] \in Int /\ r \in Int /\ Final \in Int
      BY <1>2, <1>3, <1>10
    <3> QED BY <3>2, <3>3, SMTT(30)
  <2>5. CASE m # N - 1
    <3>1. m + 1 \in 0 .. N /\ m + 1 <= N - 1
      BY <1>1, <2>5
    <3>2. Left[m + 1] = Left[m] + (groups[m + 1] - AggregationFee)
      BY <1>6, <2>1
    <3>3. Left[m + 1] <= Left[N - 1]
      BY <1>3, <1>7, <3>1
    <3>4. groups[N] >= Final /\ Left[m + 1] \in Int
      BY <1>3, <1>4, <1>6, <3>1
    <3> DEFINE g == groups[m + 1]
               h == groups[N]
               x == Left[m]
               y == Left[N - 1]
    <3>5. /\ g \in Int /\ h \in Int /\ x \in Int /\ y \in Int /\ r \in Int /\ Final \in Int /\ AggregationFee \in Int
          /\ x + g - r - Final >= 0 /\ x + (g - AggregationFee) <= y /\ h >= Final /\ Final >= AggregationFee
      <4>1. g \in Int /\ h \in Int /\ x \in Int /\ y \in Int /\ r \in Int /\ Final \in Int /\ AggregationFee \in Int
        <5>1. groups[m + 1] \in Int /\ groups[N] \in Int
          BY <1>3, <2>2, <2>3
        <5>2. Left[m] \in Int /\ Left[N - 1] \in Int
          BY <1>10, <2>2
        <5> QED BY <1>1, <1>2, <5>1, <5>2
      <4>2. x + g - r - Final >= 0
        BY <2>2, <2>3
      <4>3. x + (g - AggregationFee) <= y /\ h >= Final /\ Final >= AggregationFee
        BY <1>5, <3>2, <3>3, <3>4
      <4> QED BY <4>1, <4>2, <4>3
    <3>6. best = y + h - Final
      OBVIOUS
    <3> HIDE DEF g, h, x, y, best
    <3>7. r <= y + h - Final
      BY <3>5
    <3> QED BY <3>6, <3>7
  <2> QED BY <2>4, <2>5
<1>13. Pays(N) => Pays(N - 1)
  BY <1>3, LastGroup DEF N
<1> HIDE DEF best
<1>14. ASSUME NEW m \in 0 .. N, Pays(m) PROVE r <= best
  <2>1. CASE m \in 0 .. (N - 1)
    BY <1>12, <1>14, <2>1
  <2>2. CASE m = N
    <3>1. N - 1 \in 0 .. (N - 1) /\ Pays(N - 1)
      BY <1>1, <1>3, <1>13, <1>14, <2>2
    <3> QED BY <1>12, <3>1
  <2>3. m \in 0 .. (N - 1) \/ m = N
    BY <1>1
  <2> QED BY <2>1, <2>2, <2>3
<1>15. (\E m \in 0 .. N : Pays(m)) <=> r <= best
  BY <1>3, <1>11, <1>14
<1> QED BY <1>15 DEF N, r, best

\* As long as no group of notes is worth less than a fee, the maximum shown is
\* exactly what can be sent in one request (calcMaxAvailableTransfer against
\* getTransactionParts).
THEOREM MaxExactNoDustHolds == Spec => []MaxExactNoDust
<1>1. ASSUME PartsInv, NoDust, Len(requests) = 1, pc # "try"
      PROVE  pc = "done" <=> requests[1] <= MaxAvailable
  <2>1. InputOK
    BY <1>1 DEF PartsInv
  <2>2. pc = "done" <=> \E m \in 0 .. Len(groups) : Pays(m)
    BY <1>1, DoneIff
  <2>3. Final \in Nat /\ Final = Fee(type, 1) /\ requests[1] \in Nat \ {0}
    BY <1>1, <2>1, OneTransfer
  <2>4. Len(groups) \in Nat /\ balance \in Nat
    BY <2>1, GroupsAre DEF InputOK
  <2>5. CASE Len(groups) > 0
    <3>1. MaxAvailable = Left[Len(groups) - 1] + groups[Len(groups)] - Final
      BY <1>1, <2>1, <2>3, <2>5, MaxIsLast
    <3> QED BY <1>1, <2>1, <2>2, <2>5, <3>1, BestIsLast
  <2>6. CASE Len(groups) = 0
    <3>1. MaxAvailable = IF balance >= Final THEN balance - Final ELSE 0
      <4>1. ~(Len(groups) > 0)
        BY <2>6
      <4> QED BY <1>1, <2>1, <2>3, <4>1, MaxIsLast
    <3>2. 0 .. Len(groups) = {0} /\ 0 \in 0 .. Len(groups) /\ 1 .. 0 = {}
      BY <2>6
    <3>3. Left[0] = balance /\ GroupAt(0 + 1) = 0
      <4>1. 0 + 1 \in Nat /\ 0 + 1 > Len(groups)
        BY <2>6
      <4> QED BY <2>1, <4>1, LeftIs, GroupsAre
    <3>4. Pays(0) <=> (\A k \in 1 .. 0 : Left[k] >= 0) /\ Left[0] + GroupAt(0 + 1) - requests[1] - Final >= 0
      BY <1>1, <2>1, <3>2, PaysOne
    <3>5. Pays(0) <=> balance + 0 - requests[1] - Final >= 0
      BY <3>2, <3>3, <3>4
    <3>6. (\E m \in 0 .. Len(groups) : Pays(m)) <=> Pays(0)
      BY <3>2
    <3>7. (balance + 0 - requests[1] - Final >= 0) <=> requests[1] <= MaxAvailable
      BY <2>3, <2>4, <3>1
    <3> QED BY <2>2, <3>5, <3>6, <3>7
  <2> QED BY <2>4, <2>5, <2>6
<1>2. PartsInv => MaxExactNoDust
  BY <1>1 DEF MaxExactNoDust, MaxExact
<1> QED BY <1>2, PartsAlways, PTL

-----------------------------------------------------------------------------
(* The type invariant.                                                     *)

\* Type correctness.
THEOREM TypeCorrect == Spec => []TypeOK
<1>1. PartsInv /\ Delivered => i \in 0 .. Len(groups) /\ account >= 0 /\ Len(aggregation) = i
                               /\ Len(parts) <= Len(groups) + Len(transfers) /\ pc \in {"try", "done", "failed"}
  <2> SUFFICES ASSUME PartsInv, Delivered
               PROVE  i \in 0 .. Len(groups) /\ account >= 0 /\ Len(aggregation) = i
                      /\ Len(parts) <= Len(groups) + Len(transfers) /\ pc \in {"try", "done", "failed"}
    OBVIOUS
  <2>1. InputOK /\ i \in 0 .. Len(groups) /\ account = Left[i] /\ (\A k \in 0 .. i : Left[k] >= 0)
        /\ aggregation = [k \in 1 .. i |-> Part(GroupAt(k), <<>>, AggregationFee)]
        /\ pc \in {"try", "done", "failed"} /\ (pc = "try" => parts = <<>>)
    BY DEF PartsInv
  <2>2. Len(groups) \in Nat /\ Len(transfers) \in Nat /\ i \in 0 .. i /\ i \in Nat
    BY <2>1, GroupsAre, TransfersAre
  <2>3. account >= 0
    BY <2>1, <2>2
  <2>4. Len(aggregation) = i
    BY <2>1, <2>2
  <2>5. Len(parts) <= Len(groups) + Len(transfers)
    <3>1. CASE pc = "try"
      <4>1. Len(parts) = 0
        BY <2>1, <3>1
      <4> QED BY <2>2, <4>1
    <3>2. CASE pc # "try"
      <4>1. PICK a \in 0 .. Len(groups), p \in 0 .. Len(transfers) : Len(parts) = a + p
        BY <3>2 DEF Delivered
      <4> QED BY <2>2, <4>1
    <3> QED BY <3>1, <3>2
  <2> QED BY <2>1, <2>3, <2>4, <2>5
<1> DEFINE Chosen == type \in Types /\ balance \in Balances
<1>2. Init => Chosen
  BY DEF Init
<1>3. Chosen /\ [Next]_vars => Chosen'
  BY DEF Next, Fit, Aggregate, GiveUp, input, vars
<1>4. Chosen /\ PartsInv /\ Delivered => TypeOK
  BY <1>1 DEF TypeOK
<1> QED BY <1>2, <1>3, <1>4, DeliveredAlways, PTL DEF Spec
==============================================================================
