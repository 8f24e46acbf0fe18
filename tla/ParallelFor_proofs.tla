------------------------- MODULE ParallelFor_proofs --------------------------
(***************************************************************************)
(* parallel_for for any number of workers, any image height, chunk and     *)
(* number of cores: the table splits the rows of the image without a gap   *)
(* or an overlap, no row is lost or claimed twice whether a scheduler      *)
(* hands the tasks out or the workers race for them, and the call returns  *)
(* only when the loop's body has run for each row.                         *)
(***************************************************************************)
EXTENDS ParallelFor, SequenceTheorems, FiniteSetTheorems,
        WellFoundedInduction, TLAPS

\* A set of natural numbers that is not empty has a least element.
LEMMA Least ==
    ASSUME NEW S \in SUBSET Nat, S # {}
    PROVE  \E m \in S : \A n \in S : m <= n
<1> DEFINE R == OpToRel(<, Nat)
<1>1. IsWellFoundedOn(R, Nat)
  BY NatLessThanWellFounded
<1>2. \A x, y \in Nat : x < y => <<x, y>> \in R
  BY DEF OpToRel
<1> HIDE DEF R
<1>3. PICK m \in S : \A n \in S : ~ (<<n, m>> \in R)
  BY <1>1, WFMin
<1>4. \A n \in S : ~ (n < m)
  BY <1>2, <1>3
<1>5. \A n \in S : m <= n
  BY <1>4
<1>6. QED
  BY <1>5

\* Bounds that rise from 0 to h cut 0..h-1 in pieces: each number is in one.
LEMMA Pieces ==
    ASSUME NEW n \in Nat \ {0}, NEW h \in Nat, NEW s \in [0..n -> Nat],
           s[0] = 0, s[n] = h,
           \A a, b \in 0..n : a <= b => s[a] <= s[b],
           NEW r \in 0..(h - 1)
    PROVE  \E i \in 0..(n - 1) :
             \A a \in 0..(n - 1) : r \in s[a]..(s[a + 1] - 1) <=> a = i
<1> DEFINE S == {a \in 0..n : r < s[a]}
<1>1. S \in SUBSET Nat /\ n \in S
  OBVIOUS
<1>2. PICK m \in S : \A a \in S : m <= a
  BY <1>1, Least
<1>3. m \in 1..n /\ m - 1 \in 0..(n - 1) /\ r < s[m]
  BY <1>2
<1>4. s[m - 1] <= r
  BY <1>2, <1>3
<1>5. ASSUME NEW a \in 0..(n - 1)
      PROVE  r \in s[a]..(s[a + 1] - 1) <=> a = m - 1
  <2>1. s[a] \in Nat /\ s[a + 1] \in Nat /\ s[m] \in Nat /\ s[m - 1] \in Nat
    BY <1>3
  <2>2. CASE a < m - 1
    <3>1. a + 1 <= m - 1 /\ a + 1 \in 0..n /\ m - 1 \in 0..n
      BY <1>3, <2>2
    <3>2. s[a + 1] <= s[m - 1]
      BY <3>1
    <3>3. QED
      BY <1>4, <2>1, <2>2, <3>2
  <2>3. CASE a > m - 1
    <3>1. m <= a /\ m \in 0..n /\ a \in 0..n
      BY <1>3, <2>3
    <3>2. s[m] <= s[a]
      BY <3>1
    <3>3. QED
      BY <1>3, <2>1, <2>3, <3>2
  <2>4. CASE a = m - 1
    BY <1>3, <1>4, <2>1, <2>4
  <2>5. QED
    BY <1>3, <2>2, <2>3, <2>4
<1>6. QED
  BY <1>3, <1>5
-----------------------------------------------------------------------------
\* What the loop is given.
Given ==
    /\ max_nw \in Nat /\ max_nw >= 2
    /\ height \in Nat /\ height > 0 /\ chunk \in Nat

\* Division as the code uses it, and products of what is ordered.
LEMMA Quotient ==
    ASSUME NEW a \in Nat, NEW b \in Nat \ {0}
    PROVE  /\ a \div b \in Nat /\ a % b \in 0..(b - 1)
           /\ a = b * (a \div b) + (a % b)
OBVIOUS

\* A product is no smaller for a factor that is not.
LEMMA Times == \A a, b, c \in Int : a <= b /\ c >= 0 => a * c <= b * c
OBVIOUS

\* A product of natural numbers is one.
LEMMA TimesNat == \A a, b \in Nat : a * b \in Nat
OBVIOUS

\* (a + b - 1) / b is the least number of tasks of b rows that hold a rows.
LEMMA RoundedUp ==
    ASSUME NEW a \in Nat \ {0}, NEW b \in Nat \ {0}
    PROVE  LET n == (a + b - 1) \div b
           IN  n \in 1..a /\ n * b >= a /\ (n - 1) * b < a
<1>1. LET n == (a + b - 1) \div b IN n \in Nat /\ n * b >= a /\ (n - 1) * b < a
  OBVIOUS
<1> DEFINE n == (a + b - 1) \div b
<1>2. n \in Nat /\ n * b >= a /\ (n - 1) * b < a
  BY <1>1
<1> HIDE DEF n
<1>3. n # 0
  BY <1>2
<1>4. (n - 1) * 1 <= (n - 1) * b
  BY <1>2, <1>3
<1>5. n <= a
  BY <1>2, <1>4
<1>6. QED
  BY <1>2, <1>3, <1>5 DEF n

\* min() of two numbers.
LEMMA MinFacts ==
    \A a, b \in Int : /\ MinOf(a, b) \in Int /\ MinOf(a, b) <= a /\ MinOf(a, b) <= b
                      /\ MinOf(a, b) = a \/ MinOf(a, b) = b
BY DEF MinOf
-----------------------------------------------------------------------------
\* init_data_static(): the blocks of StaticEntry and the rows in one of them.
LEMMA StaticSplit ==
    ASSUME Given
    PROVE  /\ \A i \in Worker : /\ StaticEntry(i).ntask = 1
                                /\ StaticEntry(i).task \in RowSpan
                                /\ StaticEntry(i) \in [ntask : Int, task : RowSpan]
                                /\ StaticEntry(i).task.stop - StaticEntry(i).task.start
                                     <= StaticChunk
           /\ StaticChunk \in 1..height
           /\ \A r \in Row : \E i \in Worker :
                \A a \in Worker : r \in Rows(StaticEntry(a).task) <=> a = i
<1> DEFINE q == height \div max_nw
           r == height % max_nw
           first(j) == j * q + MinOf(j, r)
           s == [j \in 0..max_nw |-> first(j)]
<1>a. /\ max_nw \in Nat \ {0} /\ height \in Nat
      /\ Worker = 0..(max_nw - 1) /\ Row = 0..(height - 1)
  BY DEF Given, Worker, Row
<1>1. q \in Nat /\ r \in 0..(max_nw - 1) /\ height = max_nw * q + r
  BY ONLY <1>a, Quotient
<1>2. /\ StaticChunk \in 1..height
      /\ StaticChunk * max_nw >= height
  BY RoundedUp DEF Given, StaticChunk
<1>3. \A i \in Worker : StaticEntry(i) = [ntask |-> 1, task |-> Span(first(i), first(i + 1))]
  BY DEF StaticEntry
<1> HIDE DEF q, r
<1>4. first(0) = 0 /\ first(max_nw) = height
  BY <1>1 DEF MinOf, Given
<1>5. \A j \in 0..max_nw : first(j) \in Nat
  BY <1>1, TimesNat DEF MinOf, Given
<1>6. \A a, b \in 0..max_nw : a <= b => first(a) <= first(b)
  BY <1>1, Times DEF MinOf, Given
<1>7. \A j \in 0..(max_nw - 1) : first(j + 1) - first(j) = IF j < r THEN q + 1 ELSE q
  BY <1>1 DEF MinOf, Given
<1>8. r > 0 => StaticChunk >= q + 1
  <2> SUFFICES ASSUME r > 0, StaticChunk <= q PROVE FALSE
    BY <1>1, <1>2
  <2>1. StaticChunk * max_nw <= q * max_nw
    BY <1>1, <1>2, Times DEF Given
  <2>2. QED
    BY <2>1, <1>1, <1>2 DEF Given
<1>9. StaticChunk >= q
  <2> SUFFICES ASSUME StaticChunk + 1 <= q PROVE FALSE
    BY <1>1, <1>2
  <2>1. (StaticChunk + 1) * max_nw <= q * max_nw
    BY <1>1, <1>2, Times DEF Given
  <2>2. QED
    BY <2>1, <1>1, <1>2 DEF Given
<1>10. /\ s \in [0..max_nw -> Nat] /\ s[0] = 0 /\ s[max_nw] = height
       /\ \A a, b \in 0..max_nw : a <= b => s[a] <= s[b]
       /\ \A a \in 0..(max_nw - 1) : s[a] = first(a) /\ s[a + 1] = first(a + 1)
       /\ \A a \in 0..max_nw : s[a] = first(a)
  BY <1>4, <1>5, <1>6 DEF Given
<1> HIDE DEF s, first
<1>11. \A j \in Row : \E i \in Worker :
           \A a \in Worker : j \in s[a]..(s[a + 1] - 1) <=> a = i
  <2> SUFFICES ASSUME NEW j \in 0..(height - 1)
               PROVE  \E i \in 0..(max_nw - 1) : \A a \in 0..(max_nw - 1) :
                        j \in s[a]..(s[a + 1] - 1) <=> a = i
    BY <1>a
  <2>1. /\ s \in [0..max_nw -> Nat] /\ s[0] = 0 /\ s[max_nw] = height
        /\ \A a, b \in 0..max_nw : a <= b => s[a] <= s[b]
    BY <1>10
  <2>2. QED
    BY ONLY <1>a, <2>1, Pieces, j \in 0..(height - 1)
<1>12. \A a \in Worker : Rows(StaticEntry(a).task) = s[a]..(s[a + 1] - 1)
  BY <1>3, <1>10 DEF Rows, Span, Worker
<1>13. \A i \in Worker : first(i) \in 0..height /\ first(i + 1) \in 0..height
  <2> SUFFICES ASSUME NEW a \in 0..max_nw PROVE s[a] \in 0..height
    BY <1>10 DEF Worker, Given
  <2>1. s[a] <= s[max_nw]
    BY <1>10 DEF Given
  <2>2. QED
    BY <2>1, <1>10 DEF Given
<1>14. ASSUME NEW i \in Worker
       PROVE  /\ StaticEntry(i).ntask = 1
              /\ StaticEntry(i).task \in RowSpan
              /\ StaticEntry(i) \in [ntask : Int, task : RowSpan]
              /\ StaticEntry(i).task.stop - StaticEntry(i).task.start
                   <= StaticChunk
  <2>1. Span(first(i), first(i + 1)) \in RowSpan
    BY <1>13 DEF Span, RowSpan
  <2>2. /\ Span(first(i), first(i + 1)).start = first(i)
        /\ Span(first(i), first(i + 1)).stop = first(i + 1)
    BY DEF Span
  <2>3. first(i + 1) - first(i) <= StaticChunk
    BY <1>a, <1>1, <1>2, <1>7, <1>8, <1>9
  <2>4. QED
    BY <1>3, <2>1, <2>2, <2>3
<1>15. QED
  BY <1>2, <1>11, <1>12, <1>14
-----------------------------------------------------------------------------
\* init_data() counts the tasks and shares them out: what Before(i) says.
LEMMA Sharing ==
    ASSUME Given, chunk > 0
    PROVE  /\ NumTasks \in 1..height /\ NumTasks * chunk >= height
           /\ Ntxw \in Nat \ {0} /\ Leftover \in {0, 1}
           /\ \A i \in 0..max_nw : Before(i) \in 0..NumTasks
           /\ \A a, b \in 0..max_nw : a <= b => Before(a) <= Before(b)
           /\ Before(0) = 0 /\ Before(max_nw) = NumTasks - Leftover
           /\ \A i \in Worker : Before(i) = NumTasks =>
                Leftover = 0 /\ Before(i + 1) = NumTasks /\ NumTasks < max_nw
           /\ Leftover = 1 => /\ Before(max_nw) - Before(max_nw - 1) = Ntxw
                              /\ NumTasks >= max_nw
                              /\ Ntxw = 1 => NumTasks = max_nw + 1
           /\ NumTasks < max_nw => \A i \in NumTasks..(max_nw - 1) : Before(i) = NumTasks
<1>a. /\ max_nw \in Nat \ {0, 1} /\ height \in Nat \ {0} /\ chunk \in Nat \ {0}
      /\ Worker = 0..(max_nw - 1)
  BY DEF Given, Worker
<1>1. NumTasks \in 1..height /\ NumTasks * chunk >= height
  BY <1>a, RoundedUp DEF NumTasks
<1>2. CASE NumTasks < max_nw
  <2>1. Ntxw = 1 /\ \A i \in Int : Before(i) = MinOf(i, NumTasks)
    BY <1>2 DEF Ntxw, Before
  <2>2. Leftover = 0
    BY <1>a, <1>1, <1>2, <2>1 DEF Leftover, MinOf
  <2>3. QED
    BY <1>a, <1>1, <1>2, <2>1, <2>2 DEF MinOf
<1>3. CASE NumTasks >= max_nw
  <2> DEFINE q == NumTasks \div max_nw
             o == NumTasks % max_nw
             e(i) == IF o > 1 THEN MinOf(i, o) ELSE 0
  <2>1. q \in Nat /\ o \in 0..(max_nw - 1) /\ NumTasks = max_nw * q + o
    <3>1. NumTasks \in Nat /\ max_nw \in Nat \ {0}
      BY <1>a, <1>1
    <3>2. QED
      BY ONLY <3>1, Quotient
  <2>2. Ntxw = q /\ \A i \in Int : Before(i) = i * q + e(i)
    BY <1>a, <1>1, <1>3 DEF Ntxw, Before, Odd
  <2> HIDE DEF q, o
  <2>3. q # 0
    <3> SUFFICES ASSUME q = 0 PROVE FALSE
      OBVIOUS
    <3>1. max_nw * q = 0
      BY <1>a
    <3>2. QED
      BY <1>a, <1>1, <1>3, <2>1, <3>1
  <2>4. /\ \A a, b \in 0..max_nw : a <= b => e(a) <= e(b)
        /\ \A a \in 0..max_nw : e(a) \in Nat
    BY <1>a, <2>1 DEF MinOf
  <2>5. e(0) = 0 /\ e(max_nw) = (IF o > 1 THEN o ELSE 0)
    BY <1>a, <2>1 DEF MinOf
  <2>6. o = 1 => e(max_nw - 1) = 0
    OBVIOUS
  <2>7. \A i \in 0..(max_nw - 1) : (i + 1) * q = i * q + q
    BY <1>a, <2>1
  <2>8. \A a, b \in 0..max_nw : a <= b => a * q <= b * q /\ a * q \in Nat
    BY <1>a, <2>1, Times, TimesNat
  <2>9. 0 * q = 0 /\ max_nw * q = NumTasks - o /\ max_nw * q \in Nat
    BY <1>a, <1>1, <2>1, TimesNat
  <2> HIDE DEF e
  <2>10. \A a \in 0..max_nw : e(a) \in Nat /\ Before(a) = a * q + e(a)
    BY <1>a, <2>2, <2>4
  <2>11. \A a, b \in 0..max_nw : a <= b => Before(a) <= Before(b) /\ Before(a) \in Nat
    BY <1>a, <2>4, <2>8, <2>10
  <2>12. /\ Before(0) = 0
         /\ Before(max_nw) = NumTasks - (IF o = 1 THEN 1 ELSE 0)
    <3>1. 0 \in 0..max_nw /\ max_nw \in 0..max_nw
      BY <1>a
    <3>2. Before(0) = 0 * q + e(0) /\ Before(max_nw) = max_nw * q + e(max_nw)
      BY <2>10, <3>1
    <3>3. QED
      BY <1>1, <2>1, <2>5, <2>9, <3>2
  <2>13. Leftover = IF o = 1 THEN 1 ELSE 0
    BY <1>1, <2>12 DEF Leftover
  <2>14. \A i \in 0..max_nw : Before(i) \in 0..NumTasks
    BY <1>a, <1>1, <2>11, <2>12
  <2>15. \A i \in Worker : Before(i + 1) >= Before(i) + q
    BY <1>a, <2>1, <2>4, <2>7, <2>8, <2>10
  <2>16. \A i \in Worker : Before(i) < NumTasks
    BY <1>a, <1>1, <2>1, <2>3, <2>14, <2>15
  <2>17. Leftover = 1 => Before(max_nw) - Before(max_nw - 1) = Ntxw
    <3> SUFFICES ASSUME Leftover = 1 PROVE Before(max_nw) - Before(max_nw - 1) = q
      BY <2>2
    <3>1. o = 1 /\ e(max_nw) = 0 /\ e(max_nw - 1) = 0
      BY <2>5, <2>6, <2>13
    <3>2. /\ Before(max_nw) = max_nw * q /\ Before(max_nw - 1) = (max_nw - 1) * q
          /\ max_nw * q = (max_nw - 1) * q + q
      BY <1>a, <2>1, <2>7, <2>10, <3>1, TimesNat
    <3>3. QED
      BY <3>2, <1>a, <2>1, TimesNat
  <2>18. Leftover = 1 /\ Ntxw = 1 => NumTasks = max_nw + 1
    BY <1>a, <1>1, <2>1, <2>2, <2>13
  <2>19. Before(max_nw) = NumTasks - Leftover /\ Leftover \in {0, 1}
    BY <2>12, <2>13
  <2>20. Ntxw \in Nat \ {0}
    BY <2>1, <2>2, <2>3
  <2>21. ~ (NumTasks < max_nw)
    BY <1>a, <1>1, <1>3
  <2>22. \A i \in Worker : Before(i) # NumTasks
    BY <1>1, <2>14, <2>16, <1>a
  <2>23. \A a, b \in 0..max_nw : a <= b => Before(a) <= Before(b)
    BY <2>11
  <2>24. QED
    BY <1>1, <1>3, <2>12, <2>14, <2>17, <2>18, <2>19, <2>20, <2>21, <2>22, <2>23
<1>4. QED
  BY <1>a, <1>1, <1>2, <1>3

\* The chunk init_data() leaves behind.
DynamicChunk == IF Doubled THEN 2 * chunk ELSE chunk

\* What init_data() puts in the entry of one worker.
LEMMA EntryFacts ==
    ASSUME Given, chunk > 0, NEW i \in Worker
    PROVE  LET e == DynamicEntry(i)
               start == MinOf(Before(i) * chunk, height)
               stop == IF i = max_nw - 1 THEN height
                       ELSE MinOf(Before(i + 1) * chunk, height)
           IN  /\ e \in [ntask : 0..height, task : RowSpan]
               /\ Rows(e.task) = start..(stop - 1)
               /\ e.task.stop - e.task.start <= e.ntask * DynamicChunk
               /\ Before(i) + e.ntask <= DynamicTotal
               /\ i < max_nw - 1 => Before(i) + e.ntask <= Before(i + 1)
               /\ i >= DynamicTotal => e.task = Span(0, 0)
<1> DEFINE e == DynamicEntry(i)
           c == chunk
           start == MinOf(Before(i) * c, height)
           next == MinOf(Before(i + 1) * c, height)
           stop == IF i = max_nw - 1 THEN height ELSE next
<1>a. /\ max_nw \in Nat \ {0, 1} /\ height \in Nat \ {0} /\ c \in Nat \ {0}
      /\ i \in 0..(max_nw - 1) /\ i \in Nat
  BY DEF Given, Worker
<1>b. /\ NumTasks \in 1..height /\ NumTasks * c >= height
      /\ Ntxw \in Nat \ {0} /\ Leftover \in {0, 1}
      /\ Before(i) \in 0..NumTasks /\ Before(i + 1) \in 0..NumTasks
      /\ Before(i) <= Before(i + 1)
      /\ Before(max_nw) = NumTasks - Leftover
      /\ Before(i) = NumTasks =>
           Leftover = 0 /\ Before(i + 1) = NumTasks /\ NumTasks < max_nw
      /\ Leftover = 1 => /\ Before(max_nw) - Before(max_nw - 1) = Ntxw
                         /\ NumTasks >= max_nw
                         /\ Ntxw = 1 => NumTasks = max_nw + 1
  <2>1. i \in 0..max_nw /\ i + 1 \in 0..max_nw /\ i <= i + 1
    BY <1>a
  <2>2. QED
    BY Sharing, <2>1
<1>c. \A x, y \in Int : x <= y =>
        /\ MinOf(x, height) <= MinOf(y, height)
        /\ MinOf(y, height) - MinOf(x, height) <= y - x
        /\ height <= y => height - MinOf(x, height) <= y - x
  BY <1>a DEF MinOf
<1>d. /\ Before(i) * c \in Nat /\ Before(i + 1) * c \in Nat /\ NumTasks * c \in Nat
      /\ Before(i) * c <= Before(i + 1) * c /\ Before(i) * c <= NumTasks * c
      /\ Before(i + 1) * c - Before(i) * c = (Before(i + 1) - Before(i)) * c
      /\ NumTasks * c - Before(i) * c = (NumTasks - Before(i)) * c
  BY <1>a, <1>b, Times, TimesNat
<1>e. /\ start \in 0..height /\ next \in 0..height /\ start <= next
      /\ next - start <= (Before(i + 1) - Before(i)) * c
      /\ height - start <= (NumTasks - Before(i)) * c
  BY <1>a, <1>b, <1>c, <1>d DEF MinOf
<1>f. i = max_nw - 1 /\ Leftover = 0 => next = height
  <2>1. i = max_nw - 1 /\ Leftover = 0 => Before(i + 1) = NumTasks
    BY <1>a, <1>b
  <2>2. QED
    BY <1>a, <1>b, <1>d, <2>1 DEF MinOf
<1> HIDE DEF start, next
<1>g. DynamicChunk = (IF Leftover = 1 /\ Ntxw = 1 THEN 2 * c ELSE c)
  BY DEF DynamicChunk, Doubled
<1>h. DynamicTotal = (IF Leftover = 1 /\ Ntxw = 1 THEN NumTasks - 1 ELSE NumTasks)
  BY DEF DynamicTotal, Doubled
<1>1. CASE Before(i) = NumTasks
  <2>1. e = [ntask |-> 0, task |-> Span(0, 0)]
    BY <1>1 DEF DynamicEntry
  <2>2. start = height /\ next = height
    BY <1>1, <1>a, <1>b, <1>d DEF start, next, MinOf
  <2>3. Rows(e.task) = start..(stop - 1)
    <3>1. Rows(e.task) = 0..(0 - 1)
      BY <2>1 DEF Rows, Span
    <3>2. stop = height
      BY <2>2
    <3>3. QED
      BY <1>a, <2>2, <3>1, <3>2
  <2>4. e \in [ntask : 0..height, task : RowSpan]
    BY <1>a, <2>1 DEF Span, RowSpan
  <2>5. e.ntask * DynamicChunk = 0 /\ e.task.stop - e.task.start = 0
    BY <1>a, <1>g, <2>1 DEF Span
  <2>6. Before(i) + e.ntask = NumTasks /\ DynamicTotal = NumTasks
    BY <1>1, <1>b, <1>h, <2>1
  <2>7. QED
    BY <1>1, <1>b, <2>1, <2>3, <2>4, <2>5, <2>6 DEF start, next
<1>2. CASE Before(i) # NumTasks /\ i = max_nw - 1 /\ Leftover = 1
  <2> DEFINE m == IF Ntxw > 1 THEN Ntxw + 1 ELSE 1
  <2>1. Before(i + 1) - Before(i) = Ntxw /\ Before(i + 1) = NumTasks - 1
    BY <1>a, <1>b, <1>2
  <2>2. e = [ntask |-> m, task |-> Span(start, height)]
    BY <1>a, <1>b, <1>2, <2>1 DEF DynamicEntry, start
  <2>3. m \in 1..height /\ NumTasks - Before(i) = Ntxw + 1
    BY <1>a, <1>b, <2>1
  <2>4. (Ntxw + 1) * c <= m * DynamicChunk
    BY <1>a, <1>b, <1>2, <1>g
  <2>5. Before(i) + m <= DynamicTotal
    BY <1>a, <1>b, <1>2, <1>h, <2>1, <2>3
  <2>6. i >= DynamicTotal => FALSE
    BY <1>a, <1>b, <1>2, <1>h
  <2>7. /\ e \in [ntask : 0..height, task : RowSpan]
        /\ e.task.stop = height /\ e.task.start = start /\ e.ntask = m
    BY <1>a, <1>e, <2>2, <2>3 DEF Span, RowSpan
  <2> HIDE DEF e, m
  <2>8. e.task.stop - e.task.start <= e.ntask * DynamicChunk
    <3>1. (Ntxw + 1) * c \in Nat /\ m * DynamicChunk \in Nat
      BY <1>a, <1>b, <1>g, <2>3, TimesNat
    <3>2. QED
      BY <1>a, <1>e, <2>3, <2>4, <2>7, <3>1
  <2>9. Rows(e.task) = start..(stop - 1)
    BY <1>2, <2>7 DEF Rows
  <2>10. QED
    BY <1>2, <2>5, <2>6, <2>7, <2>8, <2>9 DEF e, start, next
<1>3. CASE Before(i) # NumTasks /\ ~ (i = max_nw - 1 /\ Leftover = 1)
  <2> DEFINE m == Before(i + 1) - Before(i)
  <2>1. e = [ntask |-> m, task |-> Span(start, next)]
    BY <1>a, <1>b, <1>3 DEF DynamicEntry, start, next
  <2>2. m \in 0..height
    BY <1>a, <1>b
  <2>3. m * c <= m * DynamicChunk /\ m * c \in Nat /\ m * DynamicChunk \in Nat
    BY <1>a, <1>g, <2>2, TimesNat
  <2>4. Before(i) + m <= DynamicTotal
    <3>1. CASE Leftover = 1 /\ Ntxw = 1
      <4>1. Before(i + 1) <= Before(max_nw)
        BY <1>a, Sharing
      <4>2. QED
        BY <1>b, <1>h, <3>1, <4>1
    <3>2. CASE ~ (Leftover = 1 /\ Ntxw = 1)
      BY <1>b, <1>h, <3>2
    <3>3. QED
      BY <3>1, <3>2
  <2>5. i >= DynamicTotal => FALSE
    <3> SUFFICES ASSUME i >= DynamicTotal PROVE FALSE
      OBVIOUS
    <3>1. NumTasks < max_nw /\ Leftover = 0
      BY <1>a, <1>b, <1>h
    <3>2. i \in NumTasks..(max_nw - 1)
      BY <1>a, <1>b, <1>h, <3>1
    <3>3. QED
      BY <1>3, <3>1, <3>2, Sharing
  <2>6. stop = next
    BY <1>a, <1>b, <1>3, <1>f
  <2>7. /\ e \in [ntask : 0..height, task : RowSpan]
        /\ e.task.stop = next /\ e.task.start = start /\ e.ntask = m
    BY <1>a, <1>e, <2>1, <2>2 DEF Span, RowSpan
  <2>8. Before(i) + m <= Before(i + 1)
    BY <1>b
  <2> HIDE DEF e
  <2>9. e.task.stop - e.task.start <= e.ntask * DynamicChunk
    BY <1>a, <1>e, <2>2, <2>3, <2>7
  <2>10. Rows(e.task) = start..(stop - 1)
    BY <2>6, <2>7 DEF Rows
  <2> HIDE DEF m
  <2>11. QED
    BY <2>4, <2>5, <2>7, <2>8, <2>9, <2>10 DEF e, start, next
<1>4. QED
  BY <1>1, <1>2, <1>3

\* init_data(): the entries cut the rows of the image in pieces.
LEMMA DynamicPieces ==
    ASSUME Given, chunk > 0
    PROVE  \A r \in Row : \E i \in Worker :
             \A a \in Worker : r \in Rows(DynamicEntry(a).task) <=> a = i
<1> DEFINE p(j) == Before(j) * chunk
           s == [j \in 0..max_nw |-> IF j = max_nw THEN height
                                     ELSE MinOf(p(j), height)]
<1>a. /\ max_nw \in Nat \ {0, 1} /\ height \in Nat \ {0} /\ chunk \in Nat \ {0}
      /\ Worker = 0..(max_nw - 1) /\ Row = 0..(height - 1)
  BY DEF Given, Worker, Row
<1>b. /\ \A a \in 0..max_nw : Before(a) \in Nat
      /\ \A a, b \in 0..max_nw : a <= b => Before(a) <= Before(b)
      /\ Before(0) = 0
  BY Sharing
<1>1. /\ \A a, b \in 0..max_nw : a <= b => p(a) <= p(b)
      /\ \A a \in 0..max_nw : p(a) \in Nat
  BY <1>a, <1>b, Times, TimesNat
<1>2. 0 * chunk = 0 /\ p(0) = 0
  BY <1>a, <1>b
<1>5. ASSUME NEW a \in Worker
      PROVE  Rows(DynamicEntry(a).task) = s[a]..(s[a + 1] - 1)
  <2>1. a \in 0..max_nw /\ a + 1 \in 0..max_nw /\ a # max_nw
        /\ (a + 1 = max_nw <=> a = max_nw - 1)
    BY <1>a
  <2>2. QED
    BY <2>1, EntryFacts
<1> HIDE DEF p
<1>3. s \in [0..max_nw -> Nat] /\ s[0] = 0 /\ s[max_nw] = height
  BY <1>a, <1>1, <1>2 DEF MinOf
<1>4. \A a, b \in 0..max_nw : a <= b => s[a] <= s[b]
  BY <1>a, <1>1 DEF MinOf
<1> HIDE DEF s
<1>6. ASSUME NEW r \in 0..(height - 1)
      PROVE  \E i \in 0..(max_nw - 1) : \A a \in 0..(max_nw - 1) :
               r \in s[a]..(s[a + 1] - 1) <=> a = i
  <2>1. max_nw \in Nat \ {0} /\ height \in Nat
    BY <1>a
  <2>2. QED
    BY ONLY <1>3, <1>4, <2>1, Pieces, r \in 0..(height - 1)
<1>7. ASSUME NEW r \in Row
      PROVE  \E i \in Worker : \A a \in Worker :
               r \in Rows(DynamicEntry(a).task) <=> a = i
  <2>1. PICK i \in 0..(max_nw - 1) : \A a \in 0..(max_nw - 1) :
               r \in s[a]..(s[a + 1] - 1) <=> a = i
    BY <1>a, <1>6
  <2>2. i \in Worker /\ \A a \in Worker : r \in Rows(DynamicEntry(a).task) <=> a = i
    BY <1>a, <1>5, <2>1
  <2>3. QED
    BY <2>2
<1>8. QED
  BY <1>7

\* Each row is in the entry of one worker.
Shared(table) ==
    \A r \in Row : \E i \in Worker :
        \A a \in Worker : r \in Rows(table[a].task) <=> a = i

Entry == [ntask : Int, task : RowSpan]

\* The tasks of the table can be numbered, up to total.
Numbered(ntasks, total) ==
    \E base \in [Worker -> Nat] :
        /\ \A i \in Worker : base[i] + ntasks[i] <= total
        /\ \A i, j \in Worker : i < j => base[i] + ntasks[i] <= base[j]

\* setloop() and setF(): the table, the number of tasks and that of workers.
LEMMA NewTable ==
    ASSUME Given, SetLoop
    PROVE  /\ data' \in [Worker -> Entry] /\ chunk' \in Nat \ {0}
           /\ Shared(data')
           /\ \A i \in Worker :
                /\ data'[i].ntask \in 0..height
                /\ data'[i].task.stop - data'[i].task.start <= data'[i].ntask * chunk'
           /\ nw' \in 1..max_nw /\ totaltasks' \in 1..(height + max_nw)
           /\ schedRunning' => nw' = max_nw
           /\ \A i \in nw'..(max_nw - 1) : data'[i].task = Span(0, 0)
           /\ schedRunning' => Numbered([i \in Worker |-> data'[i].ntask], totaltasks')
           /\ chunk' \in {chunk, 2 * chunk} \cup 1..height
           /\ schedRunning' \in BOOLEAN /\ static' \in BOOLEAN
           /\ main' = IF nw' = 1 THEN "inline" ELSE "start"
<1>a. /\ max_nw \in Nat \ {0, 1} /\ height \in Nat \ {0} /\ chunk \in Nat
      /\ Worker = 0..(max_nw - 1)
  BY DEF Given, Worker
<1>1. CASE chunk = 0
  <2>a. /\ data' = [i \in Worker |-> StaticEntry(i)] /\ chunk' = StaticChunk
        /\ totaltasks' = max_nw /\ nw' = max_nw
        /\ main' = IF nw' = 1 THEN "inline" ELSE "start"
    BY <1>a, <1>1 DEF SetLoop
  <2>b. ~ schedRunning' /\ schedRunning' \in BOOLEAN /\ static' \in BOOLEAN
    <3> DEFINE running == IF max_nw <= max_nw THEN max_nw ELSE max_nw
    <3>1. /\ schedRunning' = (max_nw > running /\ running < numCores)
          /\ static' = (chunk = 0)
      BY <1>1 DEF SetLoop
    <3>2. ~ (max_nw > running /\ running < numCores)
      BY <1>a
    <3> HIDE DEF running
    <3>3. QED
      BY <3>1, <3>2, Zenon
  <2>1. /\ data' = [i \in Worker |-> StaticEntry(i)] /\ chunk' = StaticChunk
        /\ totaltasks' = max_nw /\ nw' = max_nw
    BY <2>a
  <2>2. \A i \in Worker : data'[i] = StaticEntry(i)
    BY <2>1
  <2>3. Shared(data') /\ chunk' \in 1..height
    BY <2>1, <2>2, StaticSplit DEF Shared
  <2>4. \A i \in Worker :
          /\ data'[i] \in Entry /\ data'[i].ntask = 1
          /\ data'[i].task.stop - data'[i].task.start <= chunk'
    BY <2>1, <2>2, StaticSplit DEF Entry
  <2>5. /\ data' \in [Worker -> Entry]
        /\ \A i \in Worker :
             /\ data'[i].ntask \in 0..height
             /\ data'[i].task.stop - data'[i].task.start <= data'[i].ntask * chunk'
    BY <1>a, <2>1, <2>2, <2>3, <2>4
  <2>6. nw'..(max_nw - 1) = {}
    BY <1>a, <2>1
  <2>7. /\ nw' \in 1..max_nw /\ totaltasks' \in 1..(height + max_nw)
        /\ chunk' \in Nat \ {0}
    <3>1. height \in Int /\ max_nw \in Int /\ height >= 0 /\ max_nw >= 1
      BY <1>a
    <3>2. nw' = max_nw /\ totaltasks' = max_nw
      BY <2>1
    <3>3. QED
      BY ONLY <3>1, <3>2, <2>3
  <2>8. QED
    BY ONLY <2>a, <2>b, <2>3, <2>5, <2>6, <2>7
<1>2. CASE chunk > 0
  <2> DEFINE total == DynamicTotal
  <2>a. NumTasks \in 1..height /\ total \in 1..height /\ total <= NumTasks
    BY <1>a, <1>2, Sharing DEF DynamicTotal, Doubled
  <2> HIDE DEF total
  <2>1. /\ data' = [i \in Worker |-> DynamicEntry(i)] /\ chunk' = DynamicChunk
        /\ totaltasks' = total
        /\ nw' = IF total <= max_nw THEN total ELSE max_nw
        /\ main' = IF nw' = 1 THEN "inline" ELSE "start"
    BY <1>a, <1>2 DEF SetLoop, total, DynamicChunk
  <2>b. /\ schedRunning' <=> (total > nw' /\ nw' < numCores)
        /\ schedRunning' \in BOOLEAN /\ static' \in BOOLEAN
    <3> DEFINE some == IF chunk = 0 THEN max_nw ELSE DynamicTotal
               running == IF some <= max_nw THEN some ELSE max_nw
    <3>1. /\ schedRunning' = (some > running /\ running < numCores)
          /\ static' = (chunk = 0) /\ nw' = running
      BY DEF SetLoop
    <3>2. some = total
      BY <1>a, <1>2 DEF total
    <3> HIDE DEF some, running
    <3>3. QED
      BY <3>1, <3>2, Zenon
  <2>2. \A i \in Worker : data'[i] = DynamicEntry(i)
    BY <2>1
  <2>3. Shared(data') /\ chunk' \in {chunk, 2 * chunk} /\ chunk' \in Nat \ {0}
    <3>1. Shared(data')
      BY <1>2, <2>2, DynamicPieces DEF Shared
    <3>2. QED
      BY <1>a, <1>2, <2>1, <3>1 DEF DynamicChunk
  <2>4. ASSUME NEW i \in Worker
        PROVE  /\ data'[i] \in [ntask : 0..height, task : RowSpan]
               /\ data'[i].task.stop - data'[i].task.start <= data'[i].ntask * chunk'
               /\ Before(i) + data'[i].ntask <= total
               /\ i < max_nw - 1 => Before(i) + data'[i].ntask <= Before(i + 1)
               /\ i >= total => data'[i].task = Span(0, 0)
    BY <1>2, <2>1, <2>2, EntryFacts DEF total
  <2>5. data' \in [Worker -> Entry] /\ \A i \in Worker : data'[i].ntask \in 0..height
    BY <2>1, <2>2, <2>4 DEF Entry
  <2>6. nw' \in 1..max_nw /\ total <= height
    BY <1>a, <2>a, <2>1
  <2>7. \A i \in nw'..(max_nw - 1) : data'[i].task = Span(0, 0)
    BY <1>a, <2>a, <2>1, <2>4
  <2>8. schedRunning' => nw' = max_nw
    BY <1>a, <2>a, <2>b, <2>1
  <2> DEFINE base == [i \in Worker |-> Before(i)]
  <2>9. base \in [Worker -> Nat]
    BY <1>a, <1>2, Sharing
  <2>10. \A i \in Worker : base[i] + data'[i].ntask <= totaltasks'
    BY <2>1, <2>4
  <2>11. ASSUME NEW i \in Worker, NEW j \in Worker, i < j
         PROVE  base[i] + data'[i].ntask <= base[j]
    <3>1. i + 1 \in 0..max_nw /\ j \in 0..max_nw /\ i + 1 <= j /\ i < max_nw - 1
      BY <1>a, <2>11
    <3>2. Before(i + 1) <= Before(j)
      BY <1>2, <3>1, Sharing
    <3>3. Before(i) + data'[i].ntask <= Before(i + 1)
      BY <2>4, <3>1
    <3>4. Before(i) \in Nat /\ Before(i + 1) \in Nat /\ Before(j) \in Nat
      BY <1>a, <1>2, <3>1, Sharing
    <3>5. QED
      BY <2>5, <3>2, <3>3, <3>4
  <2> HIDE DEF base
  <2>12. Numbered([i \in Worker |-> data'[i].ntask], totaltasks')
    BY <2>9, <2>10, <2>11 DEF Numbered
  <2>13. \A i \in Worker :
           data'[i].task.stop - data'[i].task.start <= data'[i].ntask * chunk'
    BY <2>4
  <2>14. totaltasks' \in 1..(height + max_nw)
    BY <1>a, <2>a, <2>1
  <2>15. QED
    BY ONLY <2>b, <2>1, <2>3, <2>5, <2>6, <2>7, <2>8, <2>12, <2>13, <2>14
<1>3. QED
  <2>1. chunk = 0 \/ chunk > 0
    BY <1>a
  <2>2. QED
    BY ONLY <1>1, <1>2, <2>1
-----------------------------------------------------------------------------
\* The types, without the bounds of ntask and totaltasks from below: what each
\* group of variables may hold, and which thread the caller is at.
Item == RowSpan \cup {GO_OUT}

Params ==
    \E l \in Loops :
        /\ max_nw = l.max_nw /\ height = l.height /\ numCores = l.numCores
        /\ chunk \in {l.chunk, 2 * l.chunk} \cup 1..height
        /\ main \in {"warmup", "setloop"} => chunk = l.chunk

TableTypes ==
    /\ data \in [Worker -> Entry] /\ \A i \in Worker : data[i].ntask <= height
    /\ maxid \in -1..(max_nw - 1)

LoopTypes ==
    /\ nw \in 1..max_nw /\ static \in BOOLEAN /\ schedRunning \in BOOLEAN
    /\ schedRunning => nw = max_nw
    /\ main \notin {"warmup", "setloop"} => chunk > 0

QueueTypes ==
    /\ in \in [Worker -> Seq(Item)] /\ out \in [Worker -> Nat]
    /\ eossent \in [Worker -> BOOLEAN]

ThreadTypes ==
    /\ pc \in [Thread -> Busy \cup Idle \cup {"svc", "collect"}]
    /\ pc[LB] \notin Busy /\ \A i \in Worker : pc[i] \notin {"svc", "collect"}
    /\ task \in [Worker -> RowSpan] /\ id \in [Worker -> Worker]

FreezeTypes ==
    /\ freezing \in [Thread -> 0..2]
    /\ frozen \in [Thread -> BOOLEAN] /\ stp \in [Thread -> BOOLEAN]

MainTypes ==
    /\ main \in {"warmup", "setloop", "inline", "start", "thaw", "wait",
                 "stop", "join", "exit", "returned"}
    /\ k \in 0..(max_nw + 1)
    /\ main \in {"setloop", "inline", "start", "stop"} => k = 0
    /\ main \in {"warmup", "join", "exit"} => k <= max_nw
    /\ main = "thaw" => k <= LastThawed
    /\ main = "wait" => k < nw /\ (schedRunning => k = 0)

ImageTypes == handed \in [Row -> Nat] /\ stamps \in [Row -> Nat]

Types ==
    /\ Params /\ TableTypes /\ LoopTypes /\ QueueTypes /\ ThreadTypes
    /\ FreezeTypes /\ MainTypes /\ ImageTypes /\ totaltasks \in Int

\* What the loop is given does not change, nor what depends on it.
Fixed == max_nw' = max_nw /\ height' = height /\ numCores' = numCores

\* No step changes the image, the workers or the cores.
LEMMA AlwaysFixed == [Next]_vars => Fixed
BY DEF Fixed, Next, Main, WaitWarmup, SetLoop, RunInline, SendFirst, Thaw, Wait,
       Stop, JoinThaw, JoinExit, Scheduler, ThreadRoutine, WorkerStep, Finished,
       loopVars, vars

\* So the sets made of them stay as they are.
LEMMA SameSets ==
    ASSUME Fixed
    PROVE  /\ Worker' = Worker /\ LB' = LB /\ Thread' = Thread /\ Row' = Row
           /\ RowSpan' = RowSpan /\ Entry' = Entry /\ Item' = Item
BY DEF Fixed, Worker, LB, Thread, Row, RowSpan, Entry, Item

\* The sizes of the image and of the pool are positive numbers.
LEMMA GivenHolds ==
    ASSUME Params
    PROVE  /\ Given /\ Worker = 0..(max_nw - 1) /\ Thread = 0..max_nw
           /\ LB = max_nw /\ LB \notin Worker /\ LB \in Thread
           /\ Worker \subseteq Thread /\ IsFiniteSet(Worker) /\ Row = 0..(height - 1)
<1>1. PICK l \in Loops :
        /\ max_nw = l.max_nw /\ height = l.height
        /\ chunk \in {l.chunk, 2 * l.chunk} \cup 1..height
  BY DEF Params
<1>2. l.max_nw \in 2..MaxNw /\ l.height \in Nat \ {0} /\ l.chunk \in Nat
  BY PFAssumption
<1>3. max_nw \in Nat /\ max_nw >= 2 /\ height \in Nat \ {0} /\ chunk \in Nat
  BY <1>1, <1>2, PFAssumption
<1>4. IsFiniteSet(0..(max_nw - 1))
  BY <1>3, FS_Interval
<1>5. QED
  BY <1>3, <1>4 DEF Given, Worker, Thread, LB, Row

\* min() of the code is a number between those it is of.
LEMMA TaskFacts ==
    ASSUME Given, NEW e \in Entry
    PROVE  /\ NextTask(e) \in RowSpan /\ NextTask(e) # GO_OUT
           /\ NextTask(e).start = e.task.start
           /\ NextTask(e).stop = MinOf(e.task.start + chunk, e.task.stop)
           /\ Taken(e) \in Entry /\ Taken(e).ntask = e.ntask - 1
           /\ Taken(e).task.start = NextTask(e).stop
           /\ Taken(e).task.stop = e.task.stop
<1>1. /\ e.ntask \in Int /\ e.task \in RowSpan
      /\ e.task.start \in 0..height /\ e.task.stop \in 0..height
  BY DEF Entry, RowSpan
<1> DEFINE m == MinOf(e.task.start + chunk, e.task.stop)
<1>2. m \in 0..height
  BY <1>1 DEF MinOf, Given
<1> HIDE DEF m
<1>3. NextTask(e) = [start |-> e.task.start, stop |-> m]
  BY DEF NextTask, Span, m
<1>4. NextTask(e) \in RowSpan
  BY <1>1, <1>2, <1>3 DEF RowSpan
<1>5. RowSpan \subseteq [start : Nat, stop : Nat]
  BY DEF RowSpan, Given
<1>6. NextTask(e) # GO_OUT
  BY <1>4, <1>5, PFAssumption
<1>7. Taken(e) = [ntask |-> e.ntask - 1, task |-> [start |-> m, stop |-> e.task.stop]]
  BY <1>3 DEF Taken, Span
<1>8. QED
  BY <1>1, <1>2, <1>3, <1>4, <1>6, <1>7 DEF Entry, RowSpan, m

\* No row span is the pointer that ends a worker.
LEMMA SpanNotGoOut ==
    ASSUME Given, NEW x \in RowSpan
    PROVE  x # GO_OUT
<1>1. RowSpan \subseteq [start : Nat, stop : Nat]
  BY DEF RowSpan, Given
<1>2. QED
  BY <1>1, PFAssumption

\* One task is taken out of entry e and put behind queue q: what is left is f
\* and s.
HandedOut(e, q, f, s) ==
    e.ntask > 0 /\ f = Taken(e) /\ s = Append(q, NextTask(e))

\* A task handed out leaves an entry, and lengthens a queue, of their types.
LEMMA HandedOutTypes ==
    ASSUME Given, NEW e \in Entry, NEW q \in Seq(Item), NEW f, NEW s,
           HandedOut(e, q, f, s)
    PROVE  f \in Entry /\ s \in Seq(Item) /\ f.ntask = e.ntask - 1 /\ e.ntask > 0
<1>1. f \in Entry /\ f.ntask = e.ntask - 1 /\ NextTask(e) \in Item /\ e.ntask > 0
  BY TaskFacts DEF HandedOut, Item
<1>2. s \in Seq(Item)
  BY <1>1, AppendProperties DEF HandedOut
<1>3. QED
  BY <1>1, <1>2

\* sendTask() leaves a worker as it is or hands it one task, or two.
Untouched(i) == data'[i] = data[i] /\ in'[i] = in[i]
DealtOne(i) == HandedOut(data[i], in[i], data'[i], in'[i])
DealtTwo(i) ==
    \E e \in Entry, q \in Seq(Item) :
        HandedOut(data[i], in[i], e, q) /\ HandedOut(e, q, data'[i], in'[i])

\* sendTask(): each entry and its queue stay, or hand out a task, or two in turn.
LEMMA SendTaskFacts ==
    ASSUME Given, data \in [Worker -> Entry], in \in [Worker -> Seq(Item)],
           eossent \in [Worker -> BOOLEAN], NEW skip \in BOOLEAN, sendTask(skip)
    PROVE  /\ \A i \in Worker : Untouched(i) \/ DealtOne(i) \/ (~ skip /\ DealtTwo(i))
           /\ data' \in [Worker -> Entry] /\ in' \in [Worker -> Seq(Item)]
           /\ \A i \in Worker : data'[i].ntask <= data[i].ntask
           /\ eossent' \in [Worker -> BOOLEAN]
<1> DEFINE S == Served(data)
           once == Deal(data)
           more == ~skip /\ S = 0..(nw - 1) /\ totaltasks >= 4 * nw
           given(i) == IF i \in S THEN <<NextTask(data[i])>> ELSE <<>>
           again(i) == IF more /\ i \in Served(once) THEN <<NextTask(once[i])>> ELSE <<>>
<1>1. /\ data' = IF more THEN Deal(once) ELSE once
      /\ in' = [i \in Worker |-> in[i] \o given(i) \o again(i)]
      /\ eossent' = [i \in Worker |-> eossent[i] /\ i \notin S]
  BY DEF sendTask
<1>2. \A i \in Worker : once[i] = IF i \in S THEN Taken(data[i]) ELSE data[i]
  BY DEF Deal
<1>3. once \in [Worker -> Entry]
  BY TaskFacts DEF Deal
<1>4. \A i \in Worker :
        /\ i \in S => data[i].ntask > 0
        /\ i \in Served(once) => once[i].ntask > 0
  BY DEF Served
<1> HIDE DEF S, once, more
<1>5. \A i \in Worker :
        data'[i] = IF more /\ i \in Served(once) THEN Taken(once[i]) ELSE once[i]
  <2>1. CASE more
    BY <1>1, <2>1 DEF Deal
  <2>2. CASE ~ more
    BY <1>1, <2>2
  <2>3. QED
    BY <2>1, <2>2
<1>6. \A i \in Worker : in'[i] = in[i] \o given(i) \o again(i)
  BY <1>1
<1>7. more => ~ skip /\ (\A i \in Served(once) : i \in S)
  BY DEF more, Served
<1>8. ASSUME NEW i \in Worker
      PROVE  Untouched(i) \/ DealtOne(i) \/ (~ skip /\ DealtTwo(i))
  <2> DEFINE x == NextTask(data[i])
             y == NextTask(once[i])
             q == in[i]
  <2>1. x \in Item /\ y \in Item /\ q \in Seq(Item) /\ data[i] \in Entry /\ once[i] \in Entry
    BY <1>3, TaskFacts DEF Item
  <2>2. /\ q \o <<>> \o <<>> = q /\ q \o <<x>> \o <<>> = Append(q, x)
        /\ q \o <<x>> \o <<y>> = Append(Append(q, x), y)
        /\ Append(q, x) \in Seq(Item)
    <3> HIDE DEF x, y, q
    <3>1. /\ <<x>> \in Seq(Item) /\ <<y>> \in Seq(Item) /\ Append(q, x) \in Seq(Item)
          /\ q \o <<x>> = Append(q, x) /\ Append(q, x) \o <<y>> = Append(Append(q, x), y)
          /\ q \o <<>> = q /\ Append(q, x) \o <<>> = Append(q, x)
      BY <2>1, AppendIsConcat, ConcatEmptySeq, AppendProperties
    <3>2. QED
      BY <3>1
  <2> HIDE DEF x, y, q
  <2>3. CASE i \notin S
    <3>1. data'[i] = data[i] /\ given(i) = <<>> /\ again(i) = <<>>
      BY <1>2, <1>5, <1>7, <2>3
    <3>2. in'[i] = q
      BY <1>6, <2>2, <3>1 DEF q
    <3>3. QED
      BY <3>1, <3>2 DEF Untouched, q
  <2>4. CASE i \in S /\ ~ (more /\ i \in Served(once))
    <3>1. data'[i] = Taken(data[i]) /\ given(i) = <<x>> /\ again(i) = <<>>
      BY <1>2, <1>5, <2>4 DEF x
    <3>2. in'[i] = Append(q, x)
      BY <1>6, <2>2, <3>1 DEF q
    <3>3. QED
      BY <1>4, <2>4, <3>1, <3>2 DEF DealtOne, HandedOut, q, x
  <2>5. CASE i \in S /\ more /\ i \in Served(once)
    <3>1. /\ once[i] = Taken(data[i]) /\ data'[i] = Taken(once[i])
          /\ given(i) = <<x>> /\ again(i) = <<y>>
      BY <1>2, <1>5, <2>5 DEF x, y
    <3>2. in'[i] = Append(Append(q, x), y)
      BY <1>6, <2>2, <3>1 DEF q
    <3>3. /\ HandedOut(data[i], in[i], once[i], Append(q, x))
          /\ HandedOut(once[i], Append(q, x), data'[i], in'[i])
      BY <1>4, <2>5, <3>1, <3>2 DEF HandedOut, q, x, y
    <3>4. DealtTwo(i)
      BY <2>1, <2>2, <3>3 DEF DealtTwo
    <3>5. QED
      BY <1>7, <2>5, <3>4
  <2>6. QED
    BY <2>3, <2>4, <2>5
<1>9. ASSUME NEW i \in Worker
      PROVE  /\ data'[i] \in Entry /\ in'[i] \in Seq(Item)
             /\ data'[i].ntask <= data[i].ntask
  <2>1. data[i] \in Entry /\ in[i] \in Seq(Item) /\ data[i].ntask \in Int
    BY DEF Entry
  <2>2. CASE Untouched(i)
    BY <2>1, <2>2 DEF Untouched
  <2>3. CASE DealtOne(i)
    BY <2>1, <2>3, HandedOutTypes DEF DealtOne
  <2>4. CASE DealtTwo(i)
    <3>1. PICK e \in Entry, q \in Seq(Item) :
             HandedOut(data[i], in[i], e, q) /\ HandedOut(e, q, data'[i], in'[i])
      BY <2>4 DEF DealtTwo
    <3>2. e.ntask = data[i].ntask - 1
      BY <2>1, <3>1, HandedOutTypes
    <3>3. /\ data'[i] \in Entry /\ in'[i] \in Seq(Item)
          /\ data'[i].ntask = e.ntask - 1
      BY <3>1, HandedOutTypes
    <3>4. QED
      BY <2>1, <3>2, <3>3
  <2>5. QED
    BY <1>8, <2>2, <2>3, <2>4
<1>10. DOMAIN data' = Worker /\ data' = [i \in Worker |-> data'[i]]
  <2>1. CASE more
    BY <1>1, <2>1 DEF Deal
  <2>2. CASE ~ more
    BY <1>1, <1>3, <2>2
  <2>3. QED
    BY <2>1, <2>2
<1>11. /\ data' \in [Worker -> Entry] /\ in' \in [Worker -> Seq(Item)]
       /\ eossent' \in [Worker -> BOOLEAN]
  <2>1. in' = [i \in Worker |-> in'[i]]
    BY <1>1
  <2>2. \A i \in Worker : (eossent[i] /\ i \notin S) \in BOOLEAN
    OBVIOUS
  <2>3. eossent' \in [Worker -> BOOLEAN]
    BY <1>1, <2>2
  <2>4. QED
    BY <1>9, <1>10, <2>1, <2>3
<1>12. QED
  BY <1>8, <1>9, <1>11
-----------------------------------------------------------------------------
\* The entry whose task nextTask() takes is one of the table's.
LEMMA VictimFacts ==
    ASSUME Types, NEW i \in Worker
    PROVE  MaxElement \in Worker /\ Victim(i) \in Worker
<1>1. /\ Given /\ Worker = 0..(max_nw - 1)
      /\ \A j \in Worker : data[j].ntask \in Int /\ data[j].ntask <= height
      /\ maxid \in -1..(max_nw - 1)
  BY GivenHolds DEF Types, TableTypes, Entry
<1> DEFINE left == {height - data[j].ntask : j \in Worker}
           largest == {j \in Worker : \A a \in Worker : data[a].ntask <= data[j].ntask}
<1>2. \E j \in Worker : \A a \in Worker : data[a].ntask <= data[j].ntask
  <2>1. left \in SUBSET Nat /\ left # {}
    BY <1>1 DEF Given
  <2>2. PICK m \in left : \A n \in left : m <= n
    BY <2>1, Least
  <2>3. PICK j \in Worker : m = height - data[j].ntask
    BY <2>2
  <2>4. \A a \in Worker : height - data[j].ntask <= height - data[a].ntask
    BY <2>2, <2>3
  <2>5. \A a \in Worker : data[a].ntask <= data[j].ntask
    <3> TAKE a \in Worker
    <3>1. /\ height \in Int /\ data[j].ntask \in Int /\ data[a].ntask \in Int
          /\ height - data[j].ntask <= height - data[a].ntask
      BY <1>1, <2>4 DEF Given
    <3>2. QED
      BY ONLY <3>1
  <2>6. QED
    BY <2>5
<1>3. largest \in SUBSET Nat /\ largest # {}
  <2>1. Worker \subseteq Nat
    BY ONLY <1>1 DEF Given
  <2>2. largest \subseteq Worker
    OBVIOUS
  <2>3. largest # {}
    BY ONLY <1>2
  <2>4. QED
    BY ONLY <2>1, <2>2, <2>3
<1>4. PICK m \in largest : \A n \in largest : m <= n
  BY <1>3, Least
<1>5. /\ m \in Worker
      /\ \A j \in Worker : data[j].ntask <= data[m].ntask
      /\ \A j \in Worker : j < m => data[j].ntask < data[m].ntask
  <2>1. m \in Worker /\ \A j \in Worker : data[j].ntask <= data[m].ntask
    BY <1>4
  <2>2. \A j \in Worker : j \in Int /\ data[j].ntask \in Int
    BY <1>1 DEF Given
  <2>3. ASSUME NEW j \in Worker, j < m PROVE data[j].ntask < data[m].ntask
    <3>1. j \notin largest
      <4>1. j \in Int /\ m \in Int
        BY <2>1, <2>2
      <4> HIDE DEF largest
      <4>2. QED
        BY ONLY <1>4, <2>3, <4>1
    <3>2. PICK a \in Worker : ~ (data[a].ntask <= data[j].ntask)
      BY <3>1
    <3>3. data[a].ntask <= data[m].ntask
      BY <2>1
    <3>4. data[a].ntask \in Int /\ data[j].ntask \in Int /\ data[m].ntask \in Int
      BY <2>1, <2>2
    <3>5. QED
      BY ONLY <3>2, <3>3, <3>4
  <2>4. QED
    BY <2>1, <2>3
<1>6. MaxElement \in Worker
  BY <1>5 DEF MaxElement
<1>7. maxid >= 0 => maxid \in Worker
  BY <1>1 DEF Given
<1>8. QED
  BY <1>6, <1>7 DEF Victim

\* What the loop is given stays what the code passes to ParallelFor.
LEMMA ParamsKept ==
    ASSUME Params, Fixed, chunk' = chunk,
           main' \in {"warmup", "setloop"} => main \in {"warmup", "setloop"}
    PROVE  Params'
BY DEF Params, Fixed

\* Every variable keeps to its type: the threads' ends and sleeps.
LEMMA ThreadKeepsTypes ==
    ASSUME Types, NEW t \in Thread, ThreadRoutine(t)
    PROVE  Types'
<1>1. Fixed
  BY DEF ThreadRoutine, Fixed, loopVars
<1>2. UNCHANGED <<loopVars, tableVars, schedVars, in, out, task, id, stp, main, k, imageVars>>
  BY DEF ThreadRoutine
<1>3. Given /\ LB \notin Worker
  BY GivenHolds DEF Types
<1>4. /\ pc' \in [Thread -> Busy \cup Idle \cup {"svc", "collect"}]
      /\ pc'[LB] \notin Busy /\ \A i \in Worker : pc'[i] \notin {"svc", "collect"}
  <2>1. /\ pc \in [Thread -> Busy \cup Idle \cup {"svc", "collect"}]
        /\ pc[LB] \notin Busy /\ \A i \in Worker : pc[i] \notin {"svc", "collect"}
    BY DEF Types, ThreadTypes
  <2>2. PICK l \in Idle \cup (IF t = LB THEN {"svc"} ELSE {"pop"}) : Goto(t, l)
    BY DEF ThreadRoutine, Freeze, Wake, Again, Leave, Idle
  <2>3. QED
    BY <1>3, <2>1, <2>2 DEF Goto, Busy, Idle
<1>5. FreezeTypes'
  <2>1. freezing \in [Thread -> 0..2] /\ frozen \in [Thread -> BOOLEAN] /\ stp \in [Thread -> BOOLEAN]
    BY DEF Types, FreezeTypes
  <2>2. freezing' \in [Thread -> 0..2]
    BY <2>1 DEF ThreadRoutine, Freeze, Wake, Again, Leave
  <2>3. frozen' \in [Thread -> BOOLEAN]
    <3>1. Freeze(t) => frozen' \in [Thread -> BOOLEAN]
      BY <2>1 DEF Freeze
    <3>2. Wake(t) \/ Again(t) => frozen' \in [Thread -> BOOLEAN]
      BY <2>1 DEF Wake, Again
    <3>3. Leave(t) => frozen' \in [Thread -> BOOLEAN]
      BY <2>1 DEF Leave
    <3>4. QED
      BY <3>1, <3>2, <3>3 DEF ThreadRoutine
  <2>4. QED
    BY <1>1, <1>2, <2>1, <2>2, <2>3, SameSets DEF FreezeTypes
<1>6. ThreadTypes'
  BY <1>1, <1>2, <1>4, SameSets DEF Types, ThreadTypes
<1>7. Params'
  BY <1>1, <1>2, ParamsKept DEF Types, loopVars
<1>8. TableTypes' /\ LoopTypes' /\ QueueTypes' /\ MainTypes' /\ ImageTypes' /\ totaltasks' \in Int
  BY <1>1, <1>2, SameSets
     DEF Types, TableTypes, LoopTypes, QueueTypes, MainTypes, ImageTypes, Fixed, LastThawed,
         loopVars, tableVars, schedVars, imageVars
<1>9. QED
  BY <1>5, <1>6, <1>7, <1>8 DEF Types

\* The steps of the workers.
LEMMA WorkerKeepsTypes ==
    ASSUME Types, NEW i \in Worker, WorkerStep(i)
    PROVE  Types'
<1>1. Fixed
  BY DEF WorkerStep, Fixed, loopVars
<1>2. UNCHANGED <<loopVars, schedVars, freezeVars, main, k>>
  BY DEF WorkerStep
<1>3. Given /\ LB \notin Worker /\ LB \in Thread /\ Worker \subseteq Thread
      /\ Worker = 0..(max_nw - 1)
  BY GivenHolds DEF Types
<1>4. Pop(i) \/ Apply(i) \/ nextTaskConcurrent(i)
  BY DEF WorkerStep
<1>5. /\ data \in [Worker -> Entry] /\ \A j \in Worker : data[j].ntask <= height
      /\ maxid \in -1..(max_nw - 1)
      /\ in \in [Worker -> Seq(Item)] /\ out \in [Worker -> Nat]
      /\ task \in [Worker -> RowSpan] /\ id \in [Worker -> Worker]
      /\ handed \in [Row -> Nat] /\ stamps \in [Row -> Nat]
  BY DEF Types, TableTypes, QueueTypes, ThreadTypes, ImageTypes
<1>6. ThreadTypes'
  <2>1. /\ pc \in [Thread -> Busy \cup Idle \cup {"svc", "collect"}]
        /\ pc[LB] \notin Busy /\ \A j \in Worker : pc[j] \notin {"svc", "collect"}
    BY DEF Types, ThreadTypes
  <2>2. PICK l \in Busy \cup {"freeze"} : Goto(i, l)
    BY <1>4 DEF Pop, Apply, nextTaskConcurrent, TestTasks, LoadStart, Claim, ClaimFails,
                CountTask, ChooseVictim, LookAtVictim, Busy
  <2>3. /\ pc' \in [Thread -> Busy \cup Idle \cup {"svc", "collect"}]
        /\ pc'[LB] \notin Busy /\ \A j \in Worker : pc'[j] \notin {"svc", "collect"}
    BY <1>3, <2>1, <2>2 DEF Goto, Busy, Idle
  <2>4. task' \in [Worker -> RowSpan]
    <3>1. CASE Pop(i)
      <4>1. in[i] \in Seq(Item) /\ in[i] # <<>>
        BY <1>5, <3>1 DEF Pop
      <4>2. Head(in[i]) \in Item
        BY ONLY <4>1, HeadTailProperties
      <4>3. task' = task \/ (Head(in[i]) # GO_OUT /\ task' = [task EXCEPT ![i] = Head(in[i])])
        BY <3>1 DEF Pop
      <4>4. QED
        BY <1>5, <4>2, <4>3 DEF Item
    <3>2. CASE LoadStart(i)
      <4>1. data[id[i]] \in Entry
        BY <1>5
      <4>2. NextTask(data[id[i]]) \in RowSpan
        BY <1>3, <4>1, TaskFacts
      <4>3. QED
        BY <1>5, <3>2, <4>2 DEF LoadStart
    <3>3. CASE ~ Pop(i) /\ ~ LoadStart(i)
      BY <1>4, <1>5, <3>3
         DEF Apply, nextTaskConcurrent, TestTasks, Claim, ClaimFails,
             CountTask, ChooseVictim, LookAtVictim
    <3>4. QED
      BY <3>1, <3>2, <3>3
  <2>5. id' \in [Worker -> Worker]
    BY <1>4, <1>5
       DEF Pop, Apply, nextTaskConcurrent, TestTasks, LoadStart, Claim, ClaimFails,
           CountTask, ChooseVictim, LookAtVictim
  <2>6. QED
    BY <1>1, <2>3, <2>4, <2>5, SameSets DEF ThreadTypes
<1>7. TableTypes'
  <2>1. maxid' \in -1..(max_nw - 1)
    BY <1>3, <1>4, <1>5
       DEF Pop, Apply, nextTaskConcurrent, TestTasks, LoadStart, Claim, ClaimFails,
           CountTask, ChooseVictim, LookAtVictim, Given
  <2>2. data' \in [Worker -> Entry] /\ \A j \in Worker : data'[j].ntask <= height
    <3> DEFINE v == id[i]
    <3>1. /\ v \in Worker /\ data[v] \in Entry
          /\ data[v].ntask \in Int /\ data[v].ntask <= height
          /\ data[v].task \in RowSpan /\ task[i].stop \in 0..height
      BY <1>5 DEF Entry, RowSpan
    <3>2. CASE Claim(i)
      <4> DEFINE e == [data[v] EXCEPT !.task.start = task[i].stop]
      <4>1. data' = [data EXCEPT ![v] = e]
        BY <3>2 DEF Claim
      <4>2. e \in Entry /\ e.ntask = data[v].ntask
        BY <3>1 DEF Entry, RowSpan
      <4> HIDE DEF e, v
      <4>3. QED
        BY <1>5, <3>1, <4>1, <4>2
    <3>3. CASE CountTask(i)
      <4> DEFINE e == [data[v] EXCEPT !.ntask = @ - 1]
      <4>1. data' = [data EXCEPT ![v] = e]
        BY <3>3 DEF CountTask
      <4>2. e \in Entry /\ e.ntask = data[v].ntask - 1
        BY <3>1 DEF Entry
      <4>3. e.ntask <= height
        BY <1>3, <3>1, <4>2 DEF Given
      <4> HIDE DEF e, v
      <4>4. QED
        BY <1>5, <3>1, <4>1, <4>2, <4>3
    <3>4. CASE ~ Claim(i) /\ ~ CountTask(i)
      BY <1>4, <1>5, <3>4
         DEF Pop, Apply, nextTaskConcurrent, TestTasks, LoadStart, ClaimFails,
             ChooseVictim, LookAtVictim
    <3>5. QED
      BY <3>2, <3>3, <3>4
  <2>3. QED
    BY <1>1, <2>1, <2>2, SameSets DEF TableTypes, Fixed
<1>8. QueueTypes'
  <2>1. in' \in [Worker -> Seq(Item)]
    <3>1. CASE Pop(i)
      <4>1. in[i] \in Seq(Item) /\ in[i] # <<>>
        BY <1>5, <3>1 DEF Pop
      <4>2. Tail(in[i]) \in Seq(Item)
        BY ONLY <4>1, HeadTailProperties
      <4>3. QED
        BY <1>5, <3>1, <4>2 DEF Pop
    <3>2. CASE ~ Pop(i)
      BY <1>4, <1>5, <3>2
         DEF Apply, nextTaskConcurrent, TestTasks, LoadStart, Claim, ClaimFails,
             CountTask, ChooseVictim, LookAtVictim
    <3>3. QED
      BY <3>1, <3>2
  <2>2. out' \in [Worker -> Nat]
    <3>1. out' = out \/ out' = [out EXCEPT ![i] = @ + 1]
      <4>1. CASE Apply(i)
        BY <4>1 DEF Apply
      <4>2. CASE ~ Apply(i)
        BY <1>4, <4>2
           DEF Pop, nextTaskConcurrent, TestTasks, LoadStart, Claim, ClaimFails,
               CountTask, ChooseVictim, LookAtVictim
      <4>3. QED
        BY <4>1, <4>2
    <3>2. QED
      BY <1>5, <3>1
  <2>3. QED
    BY <1>1, <1>2, <2>1, <2>2, SameSets DEF QueueTypes, Types, schedVars
<1>9. ImageTypes'
  <2>1. CASE Apply(i)
    <3> DEFINE rows == Rows(task[i])
    <3>1. task[i].start \in Nat /\ task[i].stop \in Nat
      BY <1>5 DEF RowSpan
    <3>2. Cardinality(rows) \in Nat
      <4>1. rows = task[i].start..(task[i].stop - 1) /\ task[i].stop - 1 \in Int
        BY <3>1 DEF Rows
      <4> HIDE DEF rows
      <4>2. IsFiniteSet(rows)
        <5>1. \A a, b \in Int : IsFiniteSet(a..b)
          BY FS_Interval
        <5>2. task[i].start \in Int
          BY <3>1
        <5>3. QED
          BY <4>1, <5>1, <5>2
      <4>3. QED
        BY <4>2, FS_CardinalityType
    <3>3. /\ handed' = [r \in Row |-> handed[r] + (IF r \in rows THEN 1 ELSE 0)]
          /\ stamps' = [r \in Row |-> stamps[r] + (IF r \in rows THEN Cardinality(rows) ELSE 0)]
      BY <2>1 DEF Apply, Stamp
    <3> HIDE DEF rows
    <3>4. handed' \in [Row -> Nat] /\ stamps' \in [Row -> Nat]
      BY <1>5, <3>2, <3>3
    <3>5. QED
      BY <1>1, <3>4, SameSets DEF ImageTypes
  <2>2. CASE ~ Apply(i)
    <3>1. UNCHANGED imageVars
      BY <1>4, <2>2
         DEF Pop, nextTaskConcurrent, TestTasks, LoadStart, Claim, ClaimFails,
             CountTask, ChooseVictim, LookAtVictim
    <3>2. QED
      BY <1>1, <1>5, <3>1, SameSets DEF ImageTypes, imageVars
  <2>3. QED
    BY <2>1, <2>2
<1>10. Params'
  BY <1>1, <1>2, ParamsKept DEF Types, loopVars
<1>11. LoopTypes' /\ FreezeTypes' /\ MainTypes' /\ totaltasks' \in Int
  BY <1>1, <1>2, SameSets
     DEF Types, LoopTypes, FreezeTypes, MainTypes, Fixed, LastThawed, loopVars, schedVars, freezeVars
<1>12. QED
  BY <1>6, <1>7, <1>8, <1>9, <1>10, <1>11 DEF Types

\* The steps of the scheduler.
LEMMA SchedulerKeepsTypes ==
    ASSUME Types, Scheduler
    PROVE  Types'
<1>1. Fixed
  BY DEF Scheduler, Fixed, loopVars
<1>2. UNCHANGED <<loopVars, task, id, freezeVars, main, k, imageVars>>
  BY DEF Scheduler
<1>3. Given /\ LB \notin Worker /\ LB \in Thread /\ Worker \subseteq Thread
      /\ Worker = 0..(max_nw - 1)
  BY GivenHolds DEF Types
<1>5. /\ data \in [Worker -> Entry] /\ \A j \in Worker : data[j].ntask <= height
      /\ \A j \in Worker : data[j].ntask \in Int
      /\ maxid \in -1..(max_nw - 1)
      /\ in \in [Worker -> Seq(Item)] /\ out \in [Worker -> Nat]
      /\ eossent \in [Worker -> BOOLEAN] /\ totaltasks \in Int
  BY DEF Types, TableTypes, QueueTypes, Entry
<1>6. ThreadTypes'
  <2>1. /\ pc \in [Thread -> Busy \cup Idle \cup {"svc", "collect"}]
        /\ pc[LB] \notin Busy /\ \A j \in Worker : pc[j] \notin {"svc", "collect"}
    BY DEF Types, ThreadTypes
  <2>2. PICK l \in {"freeze", "collect"} : Goto(LB, l)
    BY DEF Scheduler, FirstSvc, Schedule
  <2>3. /\ pc' \in [Thread -> Busy \cup Idle \cup {"svc", "collect"}]
        /\ pc'[LB] \notin Busy /\ \A j \in Worker : pc'[j] \notin {"svc", "collect"}
    BY <1>3, <2>1, <2>2 DEF Goto, Busy, Idle
  <2>4. QED
    BY <1>1, <1>2, <2>3, SameSets DEF Types, ThreadTypes
<1>7. GO_OUT \in Item
  BY DEF Item
<1>8. /\ data' \in [Worker -> Entry] /\ \A j \in Worker : data'[j].ntask <= height
      /\ in' \in [Worker -> Seq(Item)] /\ out' \in [Worker -> Nat]
      /\ eossent' \in [Worker -> BOOLEAN]
      /\ maxid' \in -1..(max_nw - 1) /\ totaltasks' \in Int
  <2>1. CASE FirstSvc /\ totaltasks = 0
    <3>1. /\ in' = [i \in Worker |-> Append(in[i], GO_OUT)]
          /\ UNCHANGED <<data, eossent, totaltasks, maxid, out>>
      BY <2>1 DEF FirstSvc
    <3>2. \A i \in Worker : Append(in[i], GO_OUT) \in Seq(Item)
      BY <1>5, <1>7, AppendProperties
    <3>3. QED
      BY <1>5, <3>1, <3>2
  <2>2. CASE FirstSvc /\ totaltasks # 0
    <3>1. sendTask(FALSE) /\ UNCHANGED <<totaltasks, maxid, out>>
      BY <2>2 DEF FirstSvc
    <3>2. /\ data' \in [Worker -> Entry] /\ in' \in [Worker -> Seq(Item)]
          /\ \A i \in Worker : data'[i].ntask <= data[i].ntask
          /\ eossent' \in [Worker -> BOOLEAN]
      BY <1>3, <1>5, <3>1, SendTaskFacts
    <3>3. \A i \in Worker : data'[i].ntask \in Int
      BY <3>2 DEF Entry
    <3>4. \A i \in Worker : data'[i].ntask <= height
      <4> TAKE i \in Worker
      <4>1. /\ data'[i].ntask \in Int /\ data[i].ntask \in Int /\ height \in Int
            /\ data'[i].ntask <= data[i].ntask /\ data[i].ntask <= height
        BY <1>3, <1>5, <3>2, <3>3 DEF Given
      <4>2. QED
        BY ONLY <4>1
    <3>5. QED
      BY <1>5, <3>1, <3>2, <3>4
  <2>3. ASSUME NEW i \in Worker, Schedule(i)
        PROVE  /\ data' \in [Worker -> Entry] /\ \A j \in Worker : data'[j].ntask <= height
               /\ in' \in [Worker -> Seq(Item)] /\ out' \in [Worker -> Nat]
               /\ eossent' \in [Worker -> BOOLEAN]
               /\ maxid' \in -1..(max_nw - 1) /\ totaltasks' \in Int
    <3>1. Victim(i) \in Worker
      BY VictimFacts
    <3> DEFINE v == Victim(i)
    <3>2. out' \in [Worker -> Nat] /\ totaltasks' \in Int
      BY <1>5, <2>3 DEF Schedule
    <3>3. maxid' = v \/ maxid' = maxid
      BY <2>3 DEF Schedule
    <3>4. /\ Taken(data[v]) \in Entry /\ NextTask(data[v]) \in Item
          /\ Taken(data[v]).ntask = data[v].ntask - 1
      BY <1>3, <1>5, <3>1, TaskFacts DEF Item
    <3>5. \/ /\ data' = [data EXCEPT ![v] = Taken(data[v])] /\ UNCHANGED eossent
             /\ in' = [in EXCEPT ![i] = Append(in[i], NextTask(data[v]))]
          \/ /\ UNCHANGED data /\ eossent' = [eossent EXCEPT ![i] = TRUE]
             /\ in' = in \/ in' = [in EXCEPT ![i] = Append(in[i], GO_OUT)]
      BY <2>3 DEF Schedule, SendGoOut, Send
    <3> HIDE DEF v
    <3>6. Append(in[i], NextTask(data[v])) \in Seq(Item) /\ Append(in[i], GO_OUT) \in Seq(Item)
      BY <1>5, <1>7, <3>4, AppendProperties
    <3>7. data' \in [Worker -> Entry] /\ in' \in [Worker -> Seq(Item)]
          /\ eossent' \in [Worker -> BOOLEAN]
      BY <1>5, <3>1, <3>4, <3>5, <3>6 DEF v
    <3>8. \A j \in Worker : data'[j].ntask <= height
      <4>1. \A j \in Worker : data'[j] = data[j] \/ (j = v /\ data'[j] = Taken(data[v]))
        BY <1>5, <3>1, <3>5 DEF v
      <4>2. \A j \in Worker : data[j].ntask - 1 <= height
        BY <1>3, <1>5 DEF Given
      <4>3. QED
        BY <1>5, <3>4, <4>1, <4>2
    <3>9. maxid' \in -1..(max_nw - 1)
      <4>1. v \in -1..(max_nw - 1)
        BY <1>3, <3>1 DEF v, Given
      <4>2. QED
        BY ONLY <1>5, <3>3, <4>1
    <3>10. QED
      BY <3>2, <3>7, <3>8, <3>9
  <2>4. QED
    BY <2>1, <2>2, <2>3 DEF Scheduler
<1>9. TableTypes' /\ QueueTypes'
  BY <1>1, <1>8, SameSets DEF TableTypes, QueueTypes, Fixed
<1>10. Params'
  BY <1>1, <1>2, ParamsKept DEF Types, loopVars
<1>11. LoopTypes' /\ FreezeTypes' /\ MainTypes' /\ ImageTypes'
  BY <1>1, <1>2, SameSets
     DEF Types, LoopTypes, FreezeTypes, MainTypes, ImageTypes, Fixed, LastThawed, loopVars, freezeVars, imageVars
<1>12. QED
  BY <1>6, <1>8, <1>9, <1>10, <1>11 DEF Types

\* The thread that thaw(), wait_freezing() or wait() is at.
LEMMA CallerFacts ==
    ASSUME Types
    PROVE  /\ main = "thaw" => Thawed \in Thread /\ LastThawed \in Nat
           /\ main \in {"warmup", "wait", "join", "exit"} => k \in Thread
           /\ main = "wait" => nw - 1 \in Nat
<1>1. /\ Given /\ Thread = 0..max_nw /\ LB = max_nw
  BY GivenHolds DEF Types
<1>2. /\ nw \in 1..max_nw /\ k \in 0..(max_nw + 1)
      /\ schedRunning => nw = max_nw
      /\ main \in {"warmup", "join", "exit"} => k <= max_nw
      /\ main = "thaw" => k <= LastThawed
      /\ main = "wait" => k < nw
  BY DEF Types, LoopTypes, MainTypes
<1>3. LastThawed \in Nat /\ (main = "thaw" => Thawed \in Thread)
  <2>1. CASE schedRunning
    BY <1>1, <1>2, <2>1 DEF LastThawed, Thawed, Given
  <2>2. CASE ~ schedRunning
    BY <1>1, <1>2, <2>2 DEF LastThawed, Thawed, Given
  <2>3. QED
    BY <2>1, <2>2
<1>4. QED
  BY <1>1, <1>2, <1>3 DEF Given

\* The steps of the caller.
LEMMA MainKeepsTypes ==
    ASSUME Types, Main
    PROVE  Types'
<1>1. Fixed
  BY DEF Main, WaitWarmup, SetLoop, RunInline, SendFirst, Thaw, Wait, Stop, JoinThaw,
         JoinExit, Fixed, loopVars
<1>3. /\ Given /\ LB \notin Worker /\ LB \in Thread /\ Worker \subseteq Thread
      /\ Worker = 0..(max_nw - 1) /\ LB = max_nw /\ Thread = 0..max_nw
      /\ Row = 0..(height - 1)
  BY GivenHolds DEF Types
<1>4. /\ data \in [Worker -> Entry] /\ \A j \in Worker : data[j].ntask <= height
      /\ \A j \in Worker : data[j].ntask \in Int
      /\ maxid \in -1..(max_nw - 1)
      /\ in \in [Worker -> Seq(Item)] /\ out \in [Worker -> Nat]
      /\ eossent \in [Worker -> BOOLEAN] /\ totaltasks \in Int
  BY DEF Types, TableTypes, QueueTypes, Entry
<1>5. /\ freezing \in [Thread -> 0..2]
      /\ frozen \in [Thread -> BOOLEAN] /\ stp \in [Thread -> BOOLEAN]
  BY DEF Types, FreezeTypes
<1>6. /\ nw \in 1..max_nw /\ schedRunning \in BOOLEAN /\ static \in BOOLEAN
      /\ schedRunning => nw = max_nw
      /\ main \notin {"warmup", "setloop"} => chunk > 0
  BY DEF Types, LoopTypes
<1>7. /\ k \in 0..(max_nw + 1)
      /\ main \in {"setloop", "inline", "start", "stop"} => k = 0
      /\ main \in {"warmup", "join", "exit"} => k <= max_nw
      /\ main = "thaw" => k <= LastThawed
      /\ main = "wait" => k < nw /\ (schedRunning => k = 0)
  BY DEF Types, MainTypes
<1>8. CASE SetLoop
  <2>1. /\ data' \in [Worker -> Entry] /\ chunk' \in Nat \ {0}
        /\ \A i \in Worker : data'[i].ntask \in 0..height
        /\ nw' \in 1..max_nw /\ totaltasks' \in 1..(height + max_nw)
        /\ schedRunning' => nw' = max_nw
        /\ chunk' \in {chunk, 2 * chunk} \cup 1..height
        /\ schedRunning' \in BOOLEAN /\ static' \in BOOLEAN
        /\ main' = IF nw' = 1 THEN "inline" ELSE "start"
    BY ONLY <1>3, <1>8, NewTable
  <2>2. /\ main = "setloop" /\ maxid' = -1
        /\ UNCHANGED <<max_nw, height, numCores, eossent, threadVars, freezeVars, k, imageVars>>
    BY <1>8 DEF SetLoop
  <2>3. main' \in {"inline", "start"}
    BY <2>1
  <2>4. Params'
    <3>1. PICK l \in Loops : /\ max_nw = l.max_nw /\ height = l.height /\ numCores = l.numCores
                             /\ chunk = l.chunk
      BY <2>2 DEF Types, Params
    <3>2. chunk' \in {l.chunk, 2 * l.chunk} \cup 1..height
      BY <2>1, <3>1
    <3>3. QED
      BY <1>1, <2>3, <3>1, <3>2 DEF Params, Fixed
  <2>5. TableTypes'
    <3>1. maxid' \in -1..(max_nw - 1)
      BY <1>3, <2>2 DEF Given
    <3>2. \A i \in Worker : data'[i].ntask <= height
      BY <1>3, <2>1 DEF Given
    <3>3. QED
      BY <1>1, <2>1, <3>1, <3>2, SameSets DEF TableTypes, Fixed
  <2>6. LoopTypes'
    BY <1>1, <2>1, SameSets DEF LoopTypes, Fixed
  <2>7. QueueTypes' /\ ThreadTypes' /\ FreezeTypes' /\ ImageTypes'
    BY <1>1, <2>2, SameSets
       DEF Types, QueueTypes, ThreadTypes, FreezeTypes, ImageTypes, threadVars, freezeVars, imageVars
  <2>8. MainTypes'
    BY <1>1, <1>7, <2>2, <2>3 DEF MainTypes, Fixed
  <2>9. totaltasks' \in Int
    BY <2>1
  <2>10. QED
    BY <2>4, <2>5, <2>6, <2>7, <2>8, <2>9 DEF Types
<1>9. CASE ~ SetLoop
  <2>1. /\ UNCHANGED <<loopVars, maxid, totaltasks, out, pc, task, id>>
        /\ main' \notin {"warmup", "setloop"} => main # "warmup"
    BY <1>9 DEF Main, WaitWarmup, RunInline, SendFirst, Thaw, Wait, Stop, JoinThaw,
                JoinExit, loopVars, tableVars, schedVars, threadVars
  <2>2. main' \in {"warmup", "setloop"} => main \in {"warmup", "setloop"}
    BY <1>9 DEF Main, WaitWarmup, RunInline, SendFirst, Thaw, Wait, Stop, JoinThaw, JoinExit
  <2>3. main = "setloop" => main' = "setloop"
    BY <1>9 DEF Main, WaitWarmup, RunInline, SendFirst, Thaw, Wait, Stop, JoinThaw, JoinExit
  <2>4. Params'
    BY <1>1, <2>1, <2>2, ParamsKept DEF Types, loopVars
  <2>5. LoopTypes'
    BY <1>1, <1>6, <2>1, <2>3 DEF LoopTypes, loopVars
  <2>6. ThreadTypes' /\ totaltasks' \in Int
    BY <1>1, <2>1, SameSets DEF Types, ThreadTypes
  <2>7. TableTypes' /\ QueueTypes'
    <3>1. CASE SendFirst /\ ~ schedRunning
      <4>1. sendTask(TRUE)
        BY <3>1 DEF SendFirst
      <4>2. /\ data' \in [Worker -> Entry] /\ in' \in [Worker -> Seq(Item)]
            /\ \A i \in Worker : data'[i].ntask <= data[i].ntask
            /\ eossent' \in [Worker -> BOOLEAN]
        BY <1>3, <1>4, <4>1, SendTaskFacts
      <4>3. \A i \in Worker : data'[i].ntask \in Int
        BY <4>2 DEF Entry
      <4>4. \A i \in Worker : data'[i].ntask <= height
        <5> TAKE i \in Worker
        <5>1. /\ data'[i].ntask \in Int /\ data[i].ntask \in Int /\ height \in Int
              /\ data'[i].ntask <= data[i].ntask /\ data[i].ntask <= height
          BY <1>3, <1>4, <4>2, <4>3 DEF Given
        <5>2. QED
          BY ONLY <5>1
      <4>5. QED
        BY <1>1, <1>4, <2>1, <4>2, <4>4, SameSets DEF TableTypes, QueueTypes, Fixed
    <3>2. CASE ~ (SendFirst /\ ~ schedRunning)
      <4>1. UNCHANGED <<data, in, eossent>>
        BY <1>9, <3>2
           DEF Main, WaitWarmup, RunInline, SendFirst, Thaw, Wait, Stop, JoinThaw, JoinExit,
               tableVars, schedVars, threadVars
      <4>2. QED
        BY <1>1, <1>4, <2>1, <4>1, SameSets DEF TableTypes, QueueTypes, Fixed
    <3>3. QED
      BY <3>1, <3>2
  <2>8. ImageTypes'
    <3>0. handed \in [Row -> Nat] /\ stamps \in [Row -> Nat]
      BY DEF Types, ImageTypes
    <3>1. CASE RunInline
      <4> DEFINE rows == Rows(Span(0, height))
      <4>1. rows = Row /\ IsFiniteSet(Row)
        BY <1>3, FS_Interval DEF Rows, Span, Given
      <4>2. Cardinality(rows) \in Nat
        BY <4>1, FS_CardinalityType
      <4>3. /\ handed' = [r \in Row |-> handed[r] + (IF r \in rows THEN 1 ELSE 0)]
            /\ stamps' = [r \in Row |-> stamps[r] + (IF r \in rows THEN Cardinality(rows) ELSE 0)]
        BY <3>1 DEF RunInline, Stamp
      <4> HIDE DEF rows
      <4>4. handed' \in [Row -> Nat] /\ stamps' \in [Row -> Nat]
        BY <3>0, <4>2, <4>3
      <4>5. QED
        BY <1>1, <4>4, SameSets DEF ImageTypes
    <3>2. CASE ~ RunInline
      <4>1. UNCHANGED imageVars
        BY <1>9, <3>2 DEF Main, WaitWarmup, SendFirst, Thaw, Wait, Stop, JoinThaw, JoinExit
      <4>2. QED
        BY <1>1, <3>0, <4>1, SameSets DEF ImageTypes, imageVars
    <3>3. QED
      BY <3>1, <3>2
  <2>9. FreezeTypes'
    <3>1. freezing' \in [Thread -> 0..2]
      <4>1. \/ freezing' = freezing
            \/ freezing' = [freezing EXCEPT ![Thawed] = 2]
            \/ freezing' = [freezing EXCEPT ![k] = 0]
        BY <1>9 DEF Main, WaitWarmup, RunInline, SendFirst, Thaw, Wait, Stop, JoinThaw,
                    JoinExit, freezeVars
      <4>2. QED
        BY <1>5, <4>1
    <3>2. frozen' \in [Thread -> BOOLEAN]
      <4>1. Thaw => frozen' \in [Thread -> BOOLEAN]
        BY <1>5 DEF Thaw
      <4>2. JoinThaw => frozen' \in [Thread -> BOOLEAN]
        BY <1>5 DEF JoinThaw
      <4>3. ~ Thaw /\ ~ JoinThaw => frozen' = frozen
        BY <1>9 DEF Main, WaitWarmup, RunInline, SendFirst, Wait, Stop, JoinExit, freezeVars
      <4>4. QED
        BY <1>5, <4>1, <4>2, <4>3
    <3>3. stp' \in [Thread -> BOOLEAN]
      BY <1>5, <1>9 DEF Main, WaitWarmup, RunInline, SendFirst, Thaw, Wait, Stop, JoinThaw,
                        JoinExit, freezeVars
    <3>4. QED
      BY <1>1, <3>1, <3>2, <3>3, SameSets DEF FreezeTypes
  <2>10. MainTypes'
    <3>1. max_nw' = max_nw /\ nw' = nw /\ schedRunning' = schedRunning /\ LastThawed' = LastThawed
      BY <2>1 DEF loopVars, LastThawed
    <3>2. max_nw \in Nat /\ max_nw >= 2 /\ nw \in 1..max_nw
      BY <1>3, <1>6 DEF Given
    <3>3. LastThawed \in Nat /\ LastThawed <= max_nw
      BY <1>6, <3>2 DEF LastThawed
    <3>4. CASE WaitWarmup
      <4>1. k \in 0..max_nw /\ k' = (k + 1) % (max_nw + 1)
        BY <1>7, <3>4 DEF WaitWarmup
      <4>2. k' = IF k = max_nw THEN 0 ELSE k + 1
        BY <3>2, <4>1
      <4>3. k' \in 0..max_nw /\ (k = LB => k' = 0) /\ main' = IF k = LB THEN "setloop" ELSE "warmup"
        BY <1>3, <3>2, <3>4, <4>1, <4>2 DEF WaitWarmup
      <4>4. QED
        BY <3>1, <3>2, <4>3 DEF MainTypes
    <3>5. CASE Thaw
      <4>1. k \in Nat /\ k <= LastThawed
        BY <1>7, <3>2, <3>5 DEF Thaw
      <4>2. \/ k' = 0 /\ main' = "wait"
            \/ k # LastThawed /\ k' = k + 1 /\ main' = "thaw"
        BY <3>5 DEF Thaw
      <4>3. QED
        BY <3>1, <3>2, <3>3, <4>1, <4>2 DEF MainTypes
    <3>6. CASE Wait
      <4>1. k \in Nat /\ k < nw /\ (schedRunning => k = 0)
        BY <1>7, <3>2, <3>6 DEF Wait
      <4>2. \/ schedRunning /\ k' = k /\ main' = "stop"
            \/ ~ schedRunning /\ k' = 0 /\ main' = "stop"
            \/ ~ schedRunning /\ k # nw - 1 /\ k' = k + 1 /\ main' = "wait"
        BY <3>6 DEF Wait
      <4>3. QED
        BY <3>1, <3>2, <4>1, <4>2 DEF MainTypes
    <3>7. CASE RunInline \/ SendFirst
      <4>1. k' = 0 /\ main' \in {"stop", "thaw"}
        BY <1>7, <3>7 DEF RunInline, SendFirst
      <4>2. QED
        BY <3>1, <3>2, <3>3, <4>1 DEF MainTypes
    <3>8. CASE Stop \/ JoinThaw \/ JoinExit
      <4>1. k \in 0..max_nw
        BY <1>7, <3>2, <3>8 DEF Stop, JoinThaw, JoinExit
      <4>2. \/ k' = k /\ main' \in {"join", "exit"}
            \/ k' = k + 1 /\ main' = "returned"
            \/ k # LB /\ k' = k + 1 /\ main' = "join"
        BY <3>8 DEF Stop, JoinThaw, JoinExit
      <4>3. QED
        BY <1>3, <3>1, <3>2, <4>1, <4>2 DEF MainTypes
    <3>9. QED
      BY <1>9, <3>4, <3>5, <3>6, <3>7, <3>8 DEF Main
  <2>11. QED
    BY <2>4, <2>5, <2>6, <2>7, <2>8, <2>9, <2>10 DEF Types
<1>10. QED
  BY <1>8, <1>9

\* The constructor's state has the types.
LEMMA InitTypes == Init => Types
<1> SUFFICES ASSUME Init PROVE Types
  OBVIOUS
<1>1. Params
  BY DEF Init, Params
<1>2. /\ Given /\ LB \notin Worker /\ LB \in Thread /\ Worker \subseteq Thread
      /\ Worker = 0..(max_nw - 1)
  BY <1>1, GivenHolds
<1>3. Span(0, 0) \in RowSpan /\ <<>> \in Seq(Item)
  BY <1>2 DEF Span, RowSpan, Given
<1>4. TableTypes
  <2>1. [ntask |-> 0, task |-> Span(0, 0)] \in Entry
    BY <1>3 DEF Entry
  <2>2. QED
    BY <1>2, <2>1 DEF Init, TableTypes, Given
<1>5. LoopTypes /\ MainTypes
  <2>1. nw = max_nw /\ main = "warmup" /\ k = 0 /\ max_nw \in Nat /\ max_nw >= 2
    BY <1>2 DEF Init, Given
  <2>2. static \in BOOLEAN /\ schedRunning \in BOOLEAN
    BY Zenon DEF Init
  <2>3. LoopTypes
    BY <2>1, <2>2 DEF LoopTypes
  <2>4. MainTypes
    BY <2>1 DEF MainTypes
  <2>5. QED
    BY <2>3, <2>4
<1>6. QueueTypes
  BY <1>3 DEF Init, QueueTypes
<1>7. ThreadTypes
  BY <1>2, <1>3 DEF Init, ThreadTypes, Busy, Idle
<1>8. FreezeTypes /\ ImageTypes /\ totaltasks \in Int
  BY DEF Init, FreezeTypes, ImageTypes
<1>9. QED
  BY <1>1, <1>4, <1>5, <1>6, <1>7, <1>8 DEF Types

\* Every step keeps them.
LEMMA KeepsTypes == Types /\ [Next]_vars => Types'
<1> SUFFICES ASSUME Types, [Next]_vars PROVE Types'
  OBVIOUS
<1>1. CASE UNCHANGED vars
  <2>1. Fixed
    BY <1>1 DEF vars, loopVars, Fixed
  <2>2. QED
    BY <1>1, <2>1, SameSets, ParamsKept
       DEF Types, TableTypes, LoopTypes, QueueTypes, ThreadTypes, FreezeTypes, MainTypes,
           ImageTypes, Fixed, LastThawed, vars, loopVars, tableVars, schedVars, freezeVars, imageVars
<1>2. QED
  BY <1>1, MainKeepsTypes, SchedulerKeepsTypes, ThreadKeepsTypes, WorkerKeepsTypes
     DEF Next, Finished
-----------------------------------------------------------------------------
(* Before the loop starts no thread has a task: the queues hold at most    *)
(* GO_OUT, and the caller leaves the warm-up when each thread is asleep.   *)
Resting ==
    /\ \A t \in Thread :
        /\ freezing[t] = 1 /\ ~ stp[t]
        /\ pc[t] \in {"freeze", "frozen"} \cup (IF t = LB THEN {"svc"} ELSE {"pop"})
        /\ frozen[t] => pc[t] = "frozen"
    /\ \A t \in Thread : (main = "warmup" => t < k) => frozen[t]
    /\ \A i \in Worker :
        /\ in[i] = <<>> \/ (in[i] = <<GO_OUT>> /\ pc[i] = "pop")
        /\ pc[LB] = "svc" => in[i] = <<>> /\ pc[i] = "pop"
    /\ \A r \in Row : handed[r] = 0

Rest ==
    /\ main \in {"warmup", "setloop", "inline", "start"} => Resting
    /\ main \in {"warmup", "setloop"} => totaltasks = 0 /\ nw > 1
    /\ main = "inline" => nw = 1
    /\ nw = 1 => main \in {"inline", "stop", "join", "exit", "returned"}

\* Threads the loop does not use sleep until they are stopped: all of them
\* where the caller does the loop itself, and without scheduler the balancer
\* and the workers from nw on.
Quiet(t) ==
    \/ pc[t] = "frozen" /\ freezing[t] = 1
    \/ stp[t] /\ pc[t] \in {"frozen", "again", "leave", "exited"}

Inline ==
    /\ nw = 1 => \A t \in Thread : Quiet(t)
    /\ main \notin {"warmup", "setloop"} /\ ~ schedRunning =>
          \A t \in Thread : t >= nw => Quiet(t)
    /\ IF main \in {"join", "exit", "returned"} THEN \A t \in Thread : stp[t]
       ELSE \A t \in Thread : ~ stp[t]

\* The threads that were just spawned are on their way to the first freeze.
LEMMA InitRest == Init => Rest /\ Inline
<1> SUFFICES ASSUME Init PROVE Rest /\ Inline
  OBVIOUS
<1>1. /\ Given /\ LB \notin Worker /\ Thread = 0..max_nw
  BY InitTypes, GivenHolds DEF Types
<1>2. main = "warmup" /\ k = 0 /\ nw > 1 /\ totaltasks = 0
  BY <1>1 DEF Init, Given
<1>3. Resting
  <2>1. \A t \in Thread : freezing[t] = 1 /\ ~ stp[t] /\ ~ frozen[t]
    BY DEF Init
  <2>2. \A t \in Thread : pc[t] = IF t = LB THEN "svc" ELSE "pop"
    BY DEF Init
  <2>3. \A t \in Thread : ~ (t < k)
    BY <1>1, <1>2 DEF Given
  <2>4. \A i \in Worker : in[i] = <<>> /\ pc[i] = "pop"
    <3>1. \A i \in Worker : i # LB /\ i \in Thread
      BY <1>1, InitTypes, GivenHolds DEF Types
    <3>2. QED
      BY <2>2, <3>1 DEF Init
  <2>5. \A r \in Row : handed[r] = 0
    BY DEF Init
  <2>6. QED
    BY <1>2, <2>1, <2>2, <2>3, <2>4, <2>5 DEF Resting
<1>4. \A t \in Thread : ~ stp[t]
  BY DEF Init
<1>5. QED
  BY <1>2, <1>3, <1>4 DEF Rest, Inline

\* Threads that freeze, wake up or end.
LEMMA ThreadKeepsRest ==
    ASSUME Types, Rest, Inline, NEW u \in Thread, ThreadRoutine(u)
    PROVE  Rest' /\ Inline'
<1>1. Fixed
  BY DEF ThreadRoutine, Fixed, loopVars
<1>2. UNCHANGED <<loopVars, tableVars, schedVars, in, out, task, id, stp, main, k, imageVars>>
  BY DEF ThreadRoutine
<1>3. /\ Worker' = Worker /\ LB' = LB /\ Thread' = Thread /\ Row' = Row
  BY <1>1, SameSets
<1>4. /\ pc \in [Thread -> Busy \cup Idle \cup {"svc", "collect"}]
      /\ freezing \in [Thread -> 0..2] /\ frozen \in [Thread -> BOOLEAN]
  BY DEF Types, ThreadTypes, FreezeTypes
<1>5. \A t \in Thread : t # u =>
        pc'[t] = pc[t] /\ freezing'[t] = freezing[t] /\ (frozen'[t] <=> frozen[t])
  <2>1. \A t \in Thread : t # u => pc'[t] = pc[t] /\ freezing'[t] = freezing[t]
    BY <1>4 DEF ThreadRoutine, Freeze, Wake, Again, Leave, Goto
  <2>2. \A t \in Thread : t # u => frozen'[t] = frozen[t]
    <3>1. Freeze(u) => \A t \in Thread : t # u => frozen'[t] = frozen[t]
      BY <1>4 DEF Freeze
    <3>2. Wake(u) \/ Again(u) => \A t \in Thread : t # u => frozen'[t] = frozen[t]
      BY DEF Wake, Again
    <3>3. Leave(u) => \A t \in Thread : t # u => frozen'[t] = frozen[t]
      BY <1>4 DEF Leave
    <3>4. QED
      BY <3>1, <3>2, <3>3 DEF ThreadRoutine
  <2>3. QED
    BY <2>1, <2>2, Zenon
<1>6. Resting => Resting'
  <2> SUFFICES ASSUME Resting PROVE Resting'
    OBVIOUS
  <2>1. freezing[u] = 1 /\ ~ stp[u] /\ pc[u] \in {"freeze", "frozen", "svc", "pop"}
    BY DEF Resting
  <2>2. /\ pc[u] = "freeze" /\ pc' = [pc EXCEPT ![u] = "frozen"] /\ freezing' = freezing
        /\ frozen' = [frozen EXCEPT ![u] = TRUE]
    BY <2>1 DEF ThreadRoutine, Freeze, Wake, Again, Leave, Goto
  <2>3. pc'[u] = "frozen" /\ frozen'[u] /\ freezing'[u] = 1
    <3>1. pc'[u] = "frozen" /\ freezing'[u] = 1
      BY <1>4, <2>1, <2>2
    <3>2. frozen'[u]
      BY <1>4, <2>2, Zenon
    <3>3. QED
      BY <3>1, <3>2
  <2>4. /\ stp' = stp /\ main' = main /\ k' = k /\ in' = in /\ handed' = handed
    BY <1>2 DEF imageVars
  <2>5. \A t \in Thread :
          /\ freezing'[t] = 1 /\ ~ stp'[t]
          /\ pc'[t] \in {"freeze", "frozen"} \cup (IF t = LB THEN {"svc"} ELSE {"pop"})
          /\ frozen'[t] => pc'[t] = "frozen"
          /\ (main = "warmup" => t < k) => frozen'[t]
    <3> TAKE t \in Thread
    <3>1. CASE t = u
      BY <2>1, <2>3, <2>4, <3>1
    <3>2. CASE t # u
      BY <1>5, <2>4, <3>2 DEF Resting
    <3>3. QED
      BY <3>1, <3>2
  <2>6. ASSUME NEW i \in Worker
        PROVE  /\ in[i] = <<>> \/ (in[i] = <<GO_OUT>> /\ pc'[i] = "pop")
               /\ pc'[LB] = "svc" => in[i] = <<>> /\ pc'[i] = "pop"
    <3>1. /\ in[i] = <<>> \/ (in[i] = <<GO_OUT>> /\ pc[i] = "pop")
          /\ pc[LB] = "svc" => in[i] = <<>> /\ pc[i] = "pop"
      BY DEF Resting
    <3>2. i \in Thread /\ LB \in Thread
      BY GivenHolds DEF Types
    <3>3. /\ pc[i] = "pop" => pc'[i] = "pop"
          /\ pc'[LB] = "svc" => pc[LB] = "svc"
      BY <1>4, <2>2, <3>2
    <3>4. QED
      BY <3>1, <3>3
  <2>7. QED
    BY <1>3, <2>4, <2>5, <2>6 DEF Resting
<1>7. Rest'
  BY <1>2, <1>6 DEF Rest, loopVars, schedVars
<1>8. Inline'
  <2>1. \A t \in Thread : Quiet(t) => Quiet(t)'
    <3> SUFFICES ASSUME NEW t \in Thread, Quiet(t) PROVE Quiet(t)'
      OBVIOUS
    <3>1. stp' = stp
      BY <1>2
    <3>2. CASE t # u
      BY <1>5, <3>1, <3>2 DEF Quiet
    <3>3. CASE t = u
      <4>1. stp[u] /\ pc[u] \in {"frozen", "again", "leave", "exited"}
        BY <3>3 DEF Quiet, ThreadRoutine, Freeze, Wake, Again, Leave
      <4>2. pc'[u] \in {"again", "leave", "exited"}
        BY <1>4, <4>1 DEF ThreadRoutine, Freeze, Wake, Again, Leave, Goto
      <4>3. QED
        BY <3>1, <3>3, <4>1, <4>2 DEF Quiet
    <3>4. QED
      BY <3>2, <3>3
  <2>2. QED
    BY <1>2, <1>3, <2>1 DEF Inline, loopVars
<1>9. QED
  BY <1>7, <1>8

\* The scheduler, whose first svc() is the warm-up.
LEMMA SchedulerKeepsRest ==
    ASSUME Types, Rest, Inline, Scheduler
    PROVE  Rest' /\ Inline'
<1>1. Fixed
  BY DEF Scheduler, Fixed, loopVars
<1>2. UNCHANGED <<loopVars, task, id, freezeVars, main, k, imageVars>>
  BY DEF Scheduler
<1>3. /\ Worker' = Worker /\ LB' = LB /\ Thread' = Thread /\ Row' = Row
  BY <1>1, SameSets
<1>4. /\ pc \in [Thread -> Busy \cup Idle \cup {"svc", "collect"}]
      /\ in \in [Worker -> Seq(Item)] /\ LB \in Thread /\ LB \notin Worker
  BY GivenHolds DEF Types, ThreadTypes, QueueTypes
<1>5. pc[LB] \in {"svc", "collect"}
  BY DEF Scheduler, FirstSvc, Schedule
<1>6. nw # 1
  BY <1>4, <1>5 DEF Inline, Quiet
<1>7. Resting /\ main \in {"warmup", "setloop", "inline", "start"} =>
        Resting' /\ totaltasks' = totaltasks
  <2> SUFFICES ASSUME Resting, main \in {"warmup", "setloop", "inline", "start"}
               PROVE  Resting' /\ totaltasks' = totaltasks
    OBVIOUS
  <2>1. pc[LB] = "svc" /\ main = "warmup" /\ totaltasks = 0
    BY <1>4, <1>5 DEF Resting, Rest
  <2>2. /\ in' = [i \in Worker |-> Append(in[i], GO_OUT)]
        /\ pc' = [pc EXCEPT ![LB] = "freeze"] /\ totaltasks' = totaltasks
    BY <2>1 DEF Scheduler, FirstSvc, Schedule, Goto
  <2>3. ~ frozen[LB]
    BY <1>4, <2>1 DEF Resting
  <2>4. \A t \in Thread :
          /\ freezing'[t] = 1 /\ ~ stp'[t]
          /\ pc'[t] \in {"freeze", "frozen"} \cup (IF t = LB THEN {"svc"} ELSE {"pop"})
          /\ frozen'[t] => pc'[t] = "frozen"
          /\ (main' = "warmup" => t < k') => frozen'[t]
    <3> TAKE t \in Thread
    <3>1. /\ freezing' = freezing /\ stp' = stp /\ frozen' = frozen /\ main' = main /\ k' = k
      BY <1>2 DEF freezeVars
    <3>2. CASE t = LB
      <4>1. pc'[t] = "freeze"
        BY <1>4, <2>2, <3>2
      <4>2. QED
        BY <2>3, <3>1, <3>2, <4>1 DEF Resting
    <3>3. CASE t # LB
      <4>1. pc'[t] = pc[t]
        BY <1>4, <2>2, <3>3
      <4>2. QED
        BY <3>1, <4>1 DEF Resting
    <3>4. QED
      BY <3>2, <3>3
  <2>5. ASSUME NEW i \in Worker
        PROVE  in'[i] = <<GO_OUT>> /\ pc'[i] = "pop" /\ pc'[LB] # "svc"
    <3>1. in[i] = <<>> /\ pc[i] = "pop"
      BY <2>1 DEF Resting
    <3>2. i # LB /\ i \in Thread
      BY <1>4, GivenHolds DEF Types
    <3>3. in'[i] = Append(<<>>, GO_OUT)
      BY <2>2, <3>1
    <3>4. Append(<<>>, GO_OUT) = <<GO_OUT>>
      OBVIOUS
    <3>5. QED
      BY <1>4, <2>2, <3>1, <3>2, <3>3, <3>4
  <2>6. \A r \in Row : handed'[r] = 0
    BY <1>2 DEF Resting, imageVars
  <2>7. QED
    BY <1>3, <2>2, <2>4, <2>5, <2>6 DEF Resting
<1>8. Rest'
  BY <1>2, <1>7 DEF Rest, loopVars
<1>9. main \notin {"warmup", "setloop"} => schedRunning
  <2>1. LB >= nw
    BY GivenHolds DEF Types, LoopTypes, Given
  <2>2. ~ Quiet(LB)
    BY <1>5 DEF Quiet
  <2>3. QED
    BY <1>4, <2>1, <2>2 DEF Inline
<1>10. Inline'
  BY <1>2, <1>3, <1>6, <1>9 DEF Inline, loopVars, freezeVars
<1>11. QED
  BY <1>8, <1>10

\* The workers, which are sent GO_OUT to warm up.
LEMMA WorkerKeepsRest ==
    ASSUME Types, Rest, Inline, NEW i \in Worker, WorkerStep(i)
    PROVE  Rest' /\ Inline'
<1>1. Fixed
  BY DEF WorkerStep, Fixed, loopVars
<1>2. UNCHANGED <<loopVars, schedVars, freezeVars, main, k>>
  BY DEF WorkerStep
<1>3. /\ Worker' = Worker /\ LB' = LB /\ Thread' = Thread /\ Row' = Row
  BY <1>1, SameSets
<1>4. /\ pc \in [Thread -> Busy \cup Idle \cup {"svc", "collect"}]
      /\ in \in [Worker -> Seq(Item)] /\ LB \in Thread /\ LB \notin Worker /\ i \in Thread
  BY GivenHolds DEF Types, ThreadTypes, QueueTypes
<1>5. pc[i] \in Busy
  BY DEF WorkerStep, Pop, Apply, nextTaskConcurrent, TestTasks, LoadStart, Claim, ClaimFails,
         CountTask, ChooseVictim, LookAtVictim, Busy
<1>6. nw # 1
  BY <1>4, <1>5 DEF Inline, Quiet, Busy
<1>7. Resting => Resting'
  <2> SUFFICES ASSUME Resting PROVE Resting'
    OBVIOUS
  <2>1. pc[i] = "pop" /\ i # LB
    BY <1>4, <1>5 DEF Resting, Busy
  <2>2. Pop(i)
    BY <2>1 DEF WorkerStep, Apply, nextTaskConcurrent, TestTasks, LoadStart, Claim, ClaimFails,
                CountTask, ChooseVictim, LookAtVictim
  <2> DEFINE q == in[i]
  <2>3. q \in Seq(Item) /\ q # <<>>
    BY <1>4, <2>2 DEF Pop
  <2>4. q = <<GO_OUT>>
    BY <2>3 DEF Resting
  <2> HIDE DEF q
  <2>6. Head(q) = GO_OUT
    BY <2>4
  <2>7. /\ in' = [in EXCEPT ![i] = Tail(q)] /\ pc' = [pc EXCEPT ![i] = "freeze"]
        /\ UNCHANGED imageVars
    BY <2>2, <2>6 DEF Pop, Goto, q
  <2>8. ~ frozen[i]
    BY <1>4, <2>1 DEF Resting
  <2>9. \A t \in Thread :
          /\ freezing'[t] = 1 /\ ~ stp'[t]
          /\ pc'[t] \in {"freeze", "frozen"} \cup (IF t = LB THEN {"svc"} ELSE {"pop"})
          /\ frozen'[t] => pc'[t] = "frozen"
          /\ (main' = "warmup" => t < k') => frozen'[t]
    <3> TAKE t \in Thread
    <3>1. /\ freezing' = freezing /\ stp' = stp /\ frozen' = frozen /\ main' = main /\ k' = k
      BY <1>2 DEF freezeVars
    <3>2. CASE t = i
      <4>1. pc'[t] = "freeze"
        BY <1>4, <2>7, <3>2
      <4>2. QED
        BY <2>8, <3>1, <3>2, <4>1 DEF Resting
    <3>3. CASE t # i
      <4>1. pc'[t] = pc[t]
        BY <1>4, <2>7, <3>3
      <4>2. QED
        BY <3>1, <4>1 DEF Resting
    <3>4. QED
      BY <3>2, <3>3
  <2>10. ASSUME NEW v \in Worker
         PROVE  /\ in'[v] = <<>> \/ (in'[v] = <<GO_OUT>> /\ pc'[v] = "pop")
                /\ pc'[LB] = "svc" => in'[v] = <<>> /\ pc'[v] = "pop"
    <3>1. pc'[LB] = pc[LB] /\ pc[LB] # "svc"
      BY <1>4, <2>1, <2>3, <2>7 DEF Resting, q
    <3>2. CASE v = i
      <4>1. q = <<GO_OUT>>
        BY <2>3 DEF Resting, q
      <4>2. Tail(q) = <<>>
        BY <4>1
      <4>3. QED
        BY <1>4, <2>7, <3>1, <3>2, <4>2
    <3>3. CASE v # i
      <4>1. in'[v] = in[v] /\ pc'[v] = pc[v]
        BY <1>4, <2>7, <3>3, GivenHolds DEF Types
      <4>2. QED
        BY <3>1, <4>1 DEF Resting
    <3>4. QED
      BY <3>2, <3>3
  <2>11. \A r \in Row : handed'[r] = 0
    BY <2>7 DEF Resting, imageVars
  <2>12. QED
    BY <1>3, <2>9, <2>10, <2>11 DEF Resting
<1>8. Rest'
  BY <1>2, <1>7 DEF Rest, loopVars, schedVars
<1>9. \A t \in Thread : Quiet(t) => Quiet(t)'
  <2>1. \E l : Goto(i, l)
    BY DEF WorkerStep, Pop, Apply, nextTaskConcurrent, TestTasks, LoadStart, Claim, ClaimFails,
           CountTask, ChooseVictim, LookAtVictim
  <2>2. ~ Quiet(i)
    BY <1>5 DEF Quiet, Busy
  <2>3. \A t \in Thread \ {i} : pc'[t] = pc[t]
    BY <1>4, <2>1 DEF Goto
  <2>4. freezing' = freezing /\ stp' = stp
    BY <1>2 DEF freezeVars
  <2>5. QED
    BY <2>2, <2>3, <2>4 DEF Quiet
<1>10. Inline'
  BY <1>2, <1>3, <1>6, <1>9 DEF Inline, loopVars, freezeVars
<1>11. QED
  BY <1>8, <1>10

\* The caller: the loop is set up when every thread is asleep.
LEMMA MainKeepsRest ==
    ASSUME Types, Rest, Inline, Main
    PROVE  Rest' /\ Inline'
<1>1. Fixed
  BY DEF Main, WaitWarmup, SetLoop, RunInline, SendFirst, Thaw, Wait, Stop, JoinThaw,
         JoinExit, Fixed, loopVars
<1>2. /\ Worker' = Worker /\ LB' = LB /\ Thread' = Thread /\ Row' = Row
  BY <1>1, SameSets
<1>3. /\ Given /\ LB = max_nw /\ Thread = 0..max_nw
      /\ nw \in 1..max_nw /\ k \in 0..(max_nw + 1)
      /\ main = "warmup" => k <= max_nw
  BY GivenHolds DEF Types, LoopTypes, MainTypes
<1>4. CASE WaitWarmup
  <2>1. /\ main = "warmup" /\ frozen[k] /\ main' \in {"warmup", "setloop"}
        /\ UNCHANGED <<loopVars, tableVars, schedVars, threadVars, freezeVars, imageVars>>
    BY <1>4 DEF WaitWarmup
  <2>2. k \in 0..max_nw /\ k' = (k + 1) % (max_nw + 1) /\ main' = IF k = LB THEN "setloop" ELSE "warmup"
    BY <1>3, <1>4, <2>1 DEF WaitWarmup
  <2>3. k' = IF k = max_nw THEN 0 ELSE k + 1
    BY <1>3, <2>2 DEF Given
  <2>4. \A t \in Thread : (main' = "warmup" => t < k') => t < k \/ t = k
    BY <1>3, <2>2, <2>3 DEF Given
  <2>5. Resting
    BY <2>1 DEF Rest
  <2>6. \A t \in Thread : (main' = "warmup" => t < k') => frozen[t]
    BY <2>1, <2>4, <2>5 DEF Resting
  <2>7. Resting'
    <3>1. /\ freezing' = freezing /\ stp' = stp /\ frozen' = frozen /\ pc' = pc /\ in' = in
          /\ handed' = handed
      BY <2>1 DEF freezeVars, threadVars, imageVars
    <3>2. QED
      BY <1>2, <2>5, <2>6, <3>1 DEF Resting
  <2>8. nw' = nw /\ totaltasks' = totaltasks /\ nw > 1 /\ totaltasks = 0 /\ stp' = stp
    BY <2>1 DEF Rest, loopVars, schedVars, freezeVars
  <2>9. \A t \in Thread : ~ stp[t]
    BY <2>5 DEF Resting
  <2>10. Rest'
    BY <1>3, <2>1, <2>7, <2>8 DEF Rest
  <2>11. Inline'
    BY <1>2, <1>3, <2>1, <2>8, <2>9 DEF Inline
  <2>12. QED
    BY <2>10, <2>11
<1>5. CASE SetLoop
  <2>1. nw' \in 1..max_nw /\ main' = IF nw' = 1 THEN "inline" ELSE "start"
    BY ONLY <1>3, <1>5, NewTable
  <2>2. main = "setloop" /\ UNCHANGED <<threadVars, freezeVars, k, imageVars>>
    BY <1>5 DEF SetLoop
  <2>3. Resting
    BY <2>2 DEF Rest
  <2>4. /\ freezing' = freezing /\ stp' = stp /\ frozen' = frozen /\ pc' = pc /\ in' = in
        /\ handed' = handed /\ main' \in {"inline", "start"} /\ main' # "warmup"
    BY <2>1, <2>2 DEF freezeVars, threadVars, imageVars
  <2>5. \A t \in Thread : frozen[t]
    BY <2>2, <2>3 DEF Resting
  <2>6. Resting'
    BY <1>2, <2>3, <2>4, <2>5 DEF Resting
  <2>7. \A t \in Thread : Quiet(t)' /\ ~ stp'[t]
    BY <2>3, <2>4, <2>5 DEF Resting, Quiet
  <2>8. Rest'
    BY <2>1, <2>4, <2>6 DEF Rest
  <2>9. Inline'
    BY <1>2, <2>4, <2>7 DEF Inline
  <2>10. QED
    BY <2>8, <2>9
<1>6. CASE Stop
  <2>1. /\ stp' = [t \in Thread |-> TRUE] /\ main' = "join" /\ nw' = nw /\ pc' = pc
        /\ schedRunning' = schedRunning /\ main = "stop" /\ freezing' = freezing
    BY <1>6 DEF Stop, loopVars, threadVars
  <2>2. \A t \in Thread : stp'[t]
    BY <2>1
  <2>3. \A t \in Thread : Quiet(t) => Quiet(t)'
    BY <2>1, <2>2 DEF Quiet
  <2>4. Rest'
    BY <2>1 DEF Rest
  <2>5. Inline'
    BY <1>2, <2>1, <2>2, <2>3 DEF Inline
  <2>6. QED
    BY <2>4, <2>5
<1>7. CASE JoinThaw \/ JoinExit
  <2>1. /\ stp' = stp /\ main \in {"join", "exit"} /\ main' \in {"join", "exit", "returned"}
        /\ nw' = nw /\ pc' = pc /\ schedRunning' = schedRunning
    BY <1>7 DEF JoinThaw, JoinExit, loopVars, threadVars, freezeVars
  <2>2. \A t \in Thread : stp[t]
    BY <2>1 DEF Inline
  <2>3. \A t \in Thread : Quiet(t) => Quiet(t)'
    BY <2>1, <2>2 DEF Quiet
  <2>4. Rest'
    BY <2>1 DEF Rest
  <2>5. Inline'
    BY <1>2, <2>1, <2>2, <2>3 DEF Inline
  <2>6. QED
    BY <2>4, <2>5
<1>8. CASE RunInline \/ SendFirst \/ Wait
  <2>1. /\ main \in {"inline", "start", "wait"} /\ main' \in {"thaw", "wait", "stop"}
        /\ main \in {"start", "wait"} \/ main' = "stop"
        /\ nw' = nw /\ schedRunning' = schedRunning
        /\ pc' = pc /\ freezing' = freezing /\ stp' = stp
    BY <1>8 DEF RunInline, SendFirst, Wait, loopVars, threadVars, freezeVars
  <2>2. \A t \in Thread : (Quiet(t) => Quiet(t)') /\ ~ stp[t]
    BY <2>1 DEF Quiet, Inline
  <2>3. Rest'
    BY <2>1 DEF Rest
  <2>4. Inline'
    BY <1>2, <2>1, <2>2 DEF Inline
  <2>5. QED
    BY <2>3, <2>4
<1>9. CASE Thaw
  <2>1. /\ main = "thaw" /\ main' \in {"thaw", "wait"}
        /\ nw' = nw /\ schedRunning' = schedRunning
        /\ pc' = pc /\ freezing' = [freezing EXCEPT ![Thawed] = 2] /\ stp' = stp
    BY <1>9 DEF Thaw, loopVars, threadVars
  <2>2. nw # 1
    BY <2>1 DEF Rest
  <2>3. ~ schedRunning => Thawed < nw
    BY <1>3, <2>1 DEF Types, MainTypes, LastThawed, Thawed
  <2>4. \A t \in Thread : ~ stp[t]
    BY <2>1 DEF Inline
  <2>5. ~ schedRunning => \A t \in Thread : t >= nw => Quiet(t)'
    <3> SUFFICES ASSUME ~ schedRunning, NEW t \in Thread, t >= nw PROVE Quiet(t)'
      OBVIOUS
    <3>1. Quiet(t) /\ t # Thawed
      BY <1>3, <2>1, <2>3 DEF Inline
    <3>2. freezing'[t] = freezing[t]
      BY <2>1, <3>1 DEF Types, FreezeTypes
    <3>3. QED
      BY <2>1, <3>1, <3>2 DEF Quiet
  <2>6. Rest'
    BY <2>1, <2>2 DEF Rest
  <2>7. Inline'
    BY <1>2, <2>1, <2>2, <2>4, <2>5 DEF Inline
  <2>8. QED
    BY <2>6, <2>7
<1>10. QED
  BY <1>4, <1>5, <1>6, <1>7, <1>8, <1>9 DEF Main

\* Until the loop starts all threads rest, and they sleep through an inline loop.
LEMMA KeepsRest == Types /\ Rest /\ Inline /\ [Next]_vars => Rest' /\ Inline'
<1> SUFFICES ASSUME Types, Rest, Inline, [Next]_vars PROVE Rest' /\ Inline'
  OBVIOUS
<1>1. CASE UNCHANGED vars
  <2>1. Worker' = Worker /\ LB' = LB /\ Thread' = Thread /\ Row' = Row
    BY <1>1, SameSets DEF Fixed, vars, loopVars
  <2>2. QED
    BY <1>1, <2>1 DEF Rest, Resting, Inline, Quiet, vars, loopVars, schedVars, freezeVars, imageVars
<1>2. QED
  BY <1>1, MainKeepsRest, SchedulerKeepsRest, ThreadKeepsRest, WorkerKeepsRest
     DEF Next, Finished
-----------------------------------------------------------------------------
(* The places of a row, worker by worker: it is in the rows that are left  *)
(* of i's tasks, at the positions Que of i's queue, or with i.             *)
Tab(i, r) == r \in Rows(data[i].task)
Que(q, r) == {j \in DOMAIN q : q[j] # GO_OUT /\ r \in Rows(q[j])}
Cla(i, r) == pc[i] \in {"count", "apply"} /\ r \in Rows(task[i])

NoTable(r) == nw = 1 \/ \A i \in Worker : ~ Tab(i, r)
NoQueue(r) == \A i \in Worker : Que(in[i], r) = {}
NoClaim(r) == \A i \in Worker : ~ Cla(i, r)
OneTable(r) == nw > 1 /\ \E a \in Worker : \A i \in Worker : Tab(i, r) <=> i = a
OneQueue(r) ==
    \E a \in Worker : \E n \in Nat :
        \A i \in Worker : Que(in[i], r) = IF i = a THEN {n} ELSE {}
OneClaim(r) == \E a \in Worker : \A i \in Worker : Cla(i, r) <=> i = a

Alone(r) ==
    \/ OneTable(r) /\ NoQueue(r) /\ NoClaim(r) /\ handed[r] = 0
    \/ NoTable(r) /\ OneQueue(r) /\ NoClaim(r) /\ handed[r] = 0
    \/ NoTable(r) /\ NoQueue(r) /\ OneClaim(r) /\ handed[r] = 0
    \/ NoTable(r) /\ NoQueue(r) /\ NoClaim(r) /\ handed[r] = 1

Conserved ==
    main \notin {"warmup", "setloop", "inline"} => \A r \in Row : Alone(r)

\* What a worker is about to claim reaches to the end of the entry's next task.
ClaimKnown ==
    \A i \in Worker :
        pc[i] = "claim" =>
            task[i].stop = MinOf(task[i].start + chunk, data[id[i]].task.stop)

\* Places counted one by one are places counted.
LEMMA AloneCounts ==
    ASSUME Types, NEW r \in Row, Alone(r)
    PROVE  Cardinality(InTable(r)) + Cardinality(InQueue(r)) + Cardinality(Claimed(r))
             + handed[r] = 1
<1>1. /\ InTable(r) = {i \in Worker : nw > 1 /\ Tab(i, r)}
      /\ InQueue(r) = UNION {{<<i, j>> : j \in Que(in[i], r)} : i \in Worker}
      /\ Claimed(r) = {i \in Worker : Cla(i, r)}
  BY DEF InTable, InQueue, Claimed, Tab, Que, Cla
<1>2. Cardinality({}) = 0 /\ \A x : Cardinality({x}) = 1
  BY FS_EmptySet, FS_Singleton
<1>3. NoTable(r) => InTable(r) = {}
  BY <1>1 DEF NoTable
<1>4. NoQueue(r) => InQueue(r) = {}
  BY <1>1 DEF NoQueue
<1>5. NoClaim(r) => Claimed(r) = {}
  BY <1>1 DEF NoClaim
<1>6. OneTable(r) => Cardinality(InTable(r)) = 1
  <2> SUFFICES ASSUME OneTable(r) PROVE Cardinality(InTable(r)) = 1
    OBVIOUS
  <2>1. PICK a \in Worker : nw > 1 /\ \A i \in Worker : Tab(i, r) <=> i = a
    BY DEF OneTable
  <2>2. InTable(r) = {a}
    BY <1>1, <2>1
  <2>3. QED
    BY <1>2, <2>2
<1>7. OneQueue(r) => Cardinality(InQueue(r)) = 1
  <2> SUFFICES ASSUME OneQueue(r) PROVE Cardinality(InQueue(r)) = 1
    OBVIOUS
  <2>1. PICK a \in Worker, n \in Nat :
          \A i \in Worker : Que(in[i], r) = IF i = a THEN {n} ELSE {}
    BY DEF OneQueue
  <2>2. InQueue(r) = {<<a, n>>}
    BY <1>1, <2>1
  <2>3. QED
    BY <1>2, <2>2
<1>8. OneClaim(r) => Cardinality(Claimed(r)) = 1
  <2> SUFFICES ASSUME OneClaim(r) PROVE Cardinality(Claimed(r)) = 1
    OBVIOUS
  <2>1. PICK a \in Worker : \A i \in Worker : Cla(i, r) <=> i = a
    BY DEF OneClaim
  <2>2. Claimed(r) = {a}
    BY <1>1, <2>1
  <2>3. QED
    BY <1>2, <2>2
<1>9. QED
  BY <1>2, <1>3, <1>4, <1>5, <1>6, <1>7, <1>8 DEF Alone

\* A task put at the end of a queue, and one taken from its head.
LEMMA QueAppend ==
    ASSUME NEW q \in Seq(Item), NEW x \in Item, NEW r
    PROVE  Que(Append(q, x), r) =
             Que(q, r) \cup (IF x # GO_OUT /\ r \in Rows(x) THEN {Len(q) + 1} ELSE {})
<1>1. /\ DOMAIN q = 1..Len(q) /\ Len(q) \in Nat
      /\ DOMAIN Append(q, x) = 1..(Len(q) + 1)
      /\ \A j \in 1..Len(q) : Append(q, x)[j] = q[j]
      /\ Append(q, x)[Len(q) + 1] = x
  BY AppendProperties
<1> DEFINE s == Append(q, x)
<1> HIDE DEF s
<1>2. \A j \in DOMAIN s : j \in DOMAIN q \/ j = Len(q) + 1
  BY <1>1 DEF s
<1>3. QED
  BY <1>1, <1>2 DEF Que, s

\* Where row r waits in a queue, and in what pop() leaves of it.
LEMMA QueTail ==
    ASSUME NEW q \in Seq(Item), q # <<>>, NEW r
    PROVE  /\ Que(q, r) = {} =>
                Que(Tail(q), r) = {} /\ ~ (Head(q) # GO_OUT /\ r \in Rows(Head(q)))
           /\ \A n \in Nat : Que(q, r) = {n} =>
                \/ Que(Tail(q), r) = {} /\ Head(q) # GO_OUT /\ r \in Rows(Head(q))
                \/ /\ \E m \in Nat : Que(Tail(q), r) = {m}
                   /\ ~ (Head(q) # GO_OUT /\ r \in Rows(Head(q)))
<1> DEFINE s == Tail(q)
           h == Head(q) # GO_OUT /\ r \in Rows(Head(q))
<1>1. /\ Head(q) = q[1] /\ 1 \in DOMAIN q /\ DOMAIN q = 1..Len(q) /\ Len(q) \in Nat \ {0}
      /\ DOMAIN s = 1..(Len(q) - 1)
      /\ \A j \in DOMAIN s : s[j] = q[j + 1]
  BY HeadTailProperties
<1>2. \A j \in 1..(Len(q) - 1) : j \in Que(s, r) <=> j + 1 \in Que(q, r)
  BY <1>1 DEF Que
<1>3. 1 \in Que(q, r) <=> h
  BY <1>1 DEF Que
<1>4. Que(s, r) \subseteq 1..(Len(q) - 1) /\ Que(q, r) \subseteq 1..Len(q)
  BY <1>1 DEF Que
<1> HIDE DEF s, h
<1>5. Que(q, r) = {} => Que(s, r) = {} /\ ~ h
  BY <1>2, <1>3, <1>4
<1>6. ASSUME NEW n \in Nat, Que(q, r) = {n}
      PROVE  (Que(s, r) = {} /\ h) \/ ((\E m \in Nat : Que(s, r) = {m}) /\ ~ h)
  <2>1. CASE n = 1
    <3>1. \A j \in 1..(Len(q) - 1) : j \notin Que(s, r)
      BY <1>1, <1>2, <1>6, <2>1
    <3>2. QED
      BY <1>3, <1>4, <1>6, <2>1, <3>1
  <2>2. CASE n # 1
    <3>1. n \in 1..Len(q) /\ n - 1 \in 1..(Len(q) - 1) /\ n - 1 \in Nat
      BY <1>1, <1>4, <1>6, <2>2
    <3>2. \A j \in 1..(Len(q) - 1) : j \in Que(s, r) <=> j = n - 1
      BY <1>1, <1>2, <1>6, <3>1
    <3>3. Que(s, r) = {n - 1}
      BY <1>4, <3>1, <3>2
    <3>4. QED
      BY <1>3, <1>6, <2>2, <3>1, <3>3
  <2>3. QED
    BY <2>1, <2>2
<1>7. QED
  BY <1>5, <1>6 DEF s, h

\* A row is either not in the task that is handed out, or moves with it.
LEMMA HandedOutRows ==
    ASSUME Given, NEW e \in Entry, NEW q \in Seq(Item), NEW f, NEW s,
           HandedOut(e, q, f, s), NEW r \in Row
    PROVE  /\ f.task.stop = e.task.stop
           /\ \/ (r \in Rows(f.task) <=> r \in Rows(e.task)) /\ Que(s, r) = Que(q, r)
              \/ /\ r \in Rows(e.task) /\ r \notin Rows(f.task)
                 /\ \E n \in Nat : Que(s, r) = Que(q, r) \cup {n}
<1> DEFINE x == NextTask(e)
<1>1. /\ f = Taken(e) /\ s = Append(q, x) /\ x \in RowSpan /\ x # GO_OUT /\ x \in Item
      /\ x.start = e.task.start
      /\ x.stop = MinOf(e.task.start + chunk, e.task.stop)
      /\ f.task.start = x.stop /\ f.task.stop = e.task.stop
  BY TaskFacts DEF HandedOut, Item
<1>2. e.task.start \in Int /\ e.task.stop \in Int /\ chunk \in Nat
  BY DEF Entry, RowSpan, Given
<1> HIDE DEF x
<1>3. /\ r \in Rows(f.task) <=> (r \in Rows(e.task) /\ r \notin Rows(x))
      /\ r \in Rows(x) => r \in Rows(e.task)
  BY <1>1, <1>2 DEF Rows, MinOf, Row
<1>4. /\ Que(s, r) = Que(q, r) \cup (IF r \in Rows(x) THEN {Len(q) + 1} ELSE {})
      /\ Len(q) + 1 \in Nat
  BY <1>1, QueAppend
<1>5. QED
  BY <1>1, <1>3, <1>4

\* What a step does to row r: it stays where it is, ...
SameRows(r) ==
    \A i \in Worker :
        (r \in Rows(data'[i].task) <=> Tab(i, r)) /\ Que(in'[i], r) = Que(in[i], r)

\* ... or goes from entry v of the table to the queue of worker i.
Dealt(r, v, i) ==
    /\ Tab(v, r) /\ r \notin Rows(data'[v].task)
    /\ \A a \in Worker \ {v} : r \in Rows(data'[a].task) <=> Tab(a, r)
    /\ \E n \in Nat : Que(in'[i], r) = Que(in[i], r) \cup {n}
    /\ \A a \in Worker \ {i} : Que(in'[a], r) = Que(in[a], r)

\* The workers and what they hold are as before.
SameClaims(r) ==
    /\ \A i \in Worker : Cla(i, r)' <=> Cla(i, r)
    /\ handed'[r] = handed[r]

\* A row nothing is done with is still in one place.
LEMMA AloneStays ==
    ASSUME Fixed, nw' = nw, NEW r, Alone(r), SameRows(r), SameClaims(r)
    PROVE  Alone(r)'
<1>1. Worker' = Worker
  BY SameSets
<1>2. \A i \in Worker : /\ Tab(i, r)' <=> Tab(i, r)
                        /\ Que(in[i], r)' = Que(in[i], r)
  BY DEF SameRows, Tab, Que
<1>3. /\ NoTable(r)' <=> NoTable(r)
      /\ OneTable(r)' <=> OneTable(r)
  BY <1>1, <1>2 DEF NoTable, OneTable
<1>4. /\ NoQueue(r)' <=> NoQueue(r)
      /\ OneQueue(r) => OneQueue(r)'
  <2>1. \A i \in Worker : Que(in'[i], r) = Que(in[i], r)
    BY DEF SameRows
  <2>2. NoQueue(r)' <=> NoQueue(r)
    BY <1>1, <2>1 DEF NoQueue
  <2>3. OneQueue(r) => OneQueue(r)'
    <3> SUFFICES ASSUME OneQueue(r) PROVE OneQueue(r)'
      OBVIOUS
    <3>1. PICK a \in Worker, n \in Nat :
            \A i \in Worker : Que(in[i], r) = IF i = a THEN {n} ELSE {}
      BY DEF OneQueue
    <3>2. \A i \in Worker : Que(in'[i], r) = IF i = a THEN {n} ELSE {}
      BY <2>1, <3>1
    <3>3. QED
      BY <1>1, <3>2 DEF OneQueue
  <2>4. QED
    BY <2>2, <2>3
<1>5. /\ NoClaim(r)' <=> NoClaim(r)
      /\ OneClaim(r)' <=> OneClaim(r)
  BY <1>1 DEF SameClaims, NoClaim, OneClaim
<1>6. handed'[r] = handed[r]
  BY DEF SameClaims
<1>7. (handed[r])' = handed[r]
  <2>1. r' = r
    OBVIOUS
  <2>2. QED
    BY <1>6, <2>1
<1>8. QED
  BY <1>3, <1>4, <1>5, <1>7 DEF Alone

\* A row that goes from an entry to a queue is still in one place.
LEMMA AloneDealt ==
    ASSUME Fixed, nw' = nw, nw \in Nat, nw > 1, NEW r, Alone(r), SameClaims(r),
           NEW v \in Worker, NEW i \in Worker, Dealt(r, v, i)
    PROVE  Alone(r)'
<1>1. Worker' = Worker
  BY SameSets
<1>2. Tab(v, r)
  BY DEF Dealt
<1>3. OneTable(r) /\ NoQueue(r) /\ NoClaim(r) /\ handed[r] = 0
  BY <1>2 DEF Alone, NoTable
<1>4. \A a \in Worker : Tab(a, r) <=> a = v
  BY <1>2, <1>3 DEF OneTable
<1>5. NoTable(r)'
  <2>1. \A a \in Worker : r \notin Rows(data'[a].task)
    BY <1>4 DEF Dealt
  <2>2. QED
    BY <1>1, <2>1 DEF NoTable, Tab
<1>6. OneQueue(r)'
  <2>1. PICK n \in Nat : Que(in'[i], r) = Que(in[i], r) \cup {n}
    BY DEF Dealt
  <2>2. \A a \in Worker : Que(in'[a], r) = IF a = i THEN {n} ELSE {}
    BY <1>3, <2>1 DEF Dealt, NoQueue
  <2>3. QED
    BY <1>1, <2>2 DEF OneQueue
<1>7. NoClaim(r)'
  BY <1>1, <1>3 DEF SameClaims, NoClaim
<1>8. (handed[r])' = 0
  BY <1>3 DEF SameClaims
<1>9. QED
  BY <1>5, <1>6, <1>7, <1>8 DEF Alone

\* sendTask() takes a row from the entry of a worker for that worker's queue.
LEMMA SendTaskRows ==
    ASSUME Types, NEW skip \in BOOLEAN, sendTask(skip), NEW r \in Row, Alone(r),
           Fixed, nw' = nw, nw > 1, SameClaims(r)
    PROVE  Alone(r)'
<1>1. /\ Given /\ data \in [Worker -> Entry] /\ in \in [Worker -> Seq(Item)]
      /\ eossent \in [Worker -> BOOLEAN] /\ nw \in Nat
  BY GivenHolds DEF Types, TableTypes, QueueTypes, LoopTypes
<1>2. \A i \in Worker : Untouched(i) \/ DealtOne(i) \/ DealtTwo(i)
  BY <1>1, SendTaskFacts
<1> DEFINE Same(i) == (r \in Rows(data'[i].task) <=> Tab(i, r)) /\ Que(in'[i], r) = Que(in[i], r)
           Moved(i) == /\ Tab(i, r) /\ r \notin Rows(data'[i].task)
                       /\ \E n \in Nat : Que(in'[i], r) = Que(in[i], r) \cup {n}
<1>3. ASSUME NEW i \in Worker
      PROVE  Same(i) \/ Moved(i)
  <2>1. data[i] \in Entry /\ in[i] \in Seq(Item)
    BY <1>1
  <2>2. CASE Untouched(i)
    BY <2>2 DEF Untouched, Tab
  <2>3. CASE DealtOne(i)
    BY <1>1, <2>1, <2>3, HandedOutRows DEF DealtOne, Tab
  <2>4. CASE DealtTwo(i)
    <3>1. PICK e \in Entry, q \in Seq(Item) :
             HandedOut(data[i], in[i], e, q) /\ HandedOut(e, q, data'[i], in'[i])
      BY <2>4 DEF DealtTwo
    <3>2. \/ (r \in Rows(e.task) <=> Tab(i, r)) /\ Que(q, r) = Que(in[i], r)
          \/ /\ Tab(i, r) /\ r \notin Rows(e.task)
             /\ \E n \in Nat : Que(q, r) = Que(in[i], r) \cup {n}
      BY <1>1, <2>1, <3>1, HandedOutRows DEF Tab
    <3>3. \/ (r \in Rows(data'[i].task) <=> r \in Rows(e.task)) /\ Que(in'[i], r) = Que(q, r)
          \/ /\ r \in Rows(e.task) /\ r \notin Rows(data'[i].task)
             /\ \E n \in Nat : Que(in'[i], r) = Que(q, r) \cup {n}
      <4> DEFINE f == data'[i]
                 s == in'[i]
      <4>1. HandedOut(e, q, f, s) /\ Given /\ e \in Entry /\ q \in Seq(Item) /\ r \in Row
        BY <1>1, <3>1
      <4> HIDE DEF f, s
      <4>2. \/ (r \in Rows(f.task) <=> r \in Rows(e.task)) /\ Que(s, r) = Que(q, r)
            \/ /\ r \in Rows(e.task) /\ r \notin Rows(f.task)
               /\ \E n \in Nat : Que(s, r) = Que(q, r) \cup {n}
        BY ONLY <4>1, HandedOutRows
      <4>3. QED
        BY <4>2 DEF f, s
    <3>4. QED
      BY <3>2, <3>3
  <2>5. QED
    BY <1>2, <2>2, <2>3, <2>4
<1>4. CASE \A i \in Worker : Same(i)
  BY <1>4, AloneStays DEF SameRows
<1>5. ASSUME NEW v \in Worker, ~ Same(v)
      PROVE  Alone(r)'
  <2>1. Moved(v)
    BY <1>3, <1>5
  <2>2. OneTable(r)
    BY <2>1, <1>1 DEF Alone, NoTable
  <2>3. \A a \in Worker \ {v} : ~ Tab(a, r)
    BY <2>1, <2>2 DEF OneTable
  <2>4. \A a \in Worker \ {v} : Same(a)
    BY <1>3, <2>3
  <2>5. Dealt(r, v, v)
    BY <2>1, <2>4 DEF Dealt
  <2>6. QED
    BY <1>1, <2>5, AloneDealt
<1>6. QED
  BY <1>4, <1>5

\* Whether a thread steps or not, what it has claimed is told by its place.
LEMMA ThreadKeepsRows ==
    ASSUME Types, Conserved, NEW u \in Thread, ThreadRoutine(u)
    PROVE  Conserved'
<1>1. Fixed
  BY DEF ThreadRoutine, Fixed, loopVars
<1>2. UNCHANGED <<loopVars, tableVars, schedVars, in, out, task, id, stp, main, k, imageVars>>
  BY DEF ThreadRoutine
<1>3. Row' = Row /\ Worker \subseteq Thread
  BY <1>1, SameSets, GivenHolds DEF Types
<1>4. pc \in [Thread -> Busy \cup Idle \cup {"svc", "collect"}]
  BY DEF Types, ThreadTypes
<1>5. \A i \in Worker :
        \/ pc'[i] = pc[i]
        \/ pc[i] \notin {"count", "apply"} /\ pc'[i] \notin {"count", "apply"}
  <2>1. PICK l \in Idle \cup {"svc", "pop"} : Goto(u, l)
    BY DEF ThreadRoutine, Freeze, Wake, Again, Leave, Idle
  <2>2. pc[u] \notin {"count", "apply"}
    BY DEF ThreadRoutine, Freeze, Wake, Again, Leave
  <2>3. QED
    BY <1>3, <1>4, <2>1, <2>2 DEF Goto, Idle
<1>6. ASSUME NEW r \in Row, Alone(r)
      PROVE  Alone(r)'
  <2>1. nw' = nw /\ data' = data /\ in' = in /\ task' = task /\ handed' = handed
    BY <1>2 DEF loopVars, tableVars, imageVars
  <2>2. SameRows(r)
    BY <2>1 DEF SameRows, Tab
  <2>3. SameClaims(r)
    BY <1>5, <2>1 DEF SameClaims, Cla
  <2>4. QED
    BY <1>1, <1>6, <2>1, <2>2, <2>3, AloneStays
<1>7. QED
  BY <1>2, <1>3, <1>6 DEF Conserved

\* The scheduler: GO_OUT is no row, and a task goes from the table to a queue.
LEMMA SchedulerKeepsRows ==
    ASSUME Types, Rest, Inline, Conserved, Scheduler
    PROVE  Conserved'
<1>1. Fixed
  BY DEF Scheduler, Fixed, loopVars
<1>2. UNCHANGED <<loopVars, task, id, freezeVars, main, k, imageVars>>
  BY DEF Scheduler
<1>3. Row' = Row /\ Worker \subseteq Thread /\ Given /\ LB \in Thread /\ LB \notin Worker
  BY <1>1, SameSets, GivenHolds DEF Types
<1>4. /\ data \in [Worker -> Entry] /\ in \in [Worker -> Seq(Item)]
      /\ pc \in [Thread -> Busy \cup Idle \cup {"svc", "collect"}]
      /\ nw \in 1..max_nw
  BY DEF Types, TableTypes, QueueTypes, ThreadTypes, LoopTypes
<1>5. nw > 1 /\ nw \in Nat
  <2>1. pc[LB] \in {"svc", "collect"}
    BY DEF Scheduler, FirstSvc, Schedule
  <2>2. nw # 1
    BY <1>3, <2>1 DEF Inline, Quiet
  <2>3. QED
    BY <1>3, <1>4, <2>2 DEF Given
<1>6. ASSUME NEW r \in Row PROVE SameClaims(r)
  <2>1. \A i \in Worker : pc'[i] = pc[i]
    BY <1>3, <1>4 DEF Scheduler, FirstSvc, Schedule, Goto
  <2>2. QED
    BY <1>2, <2>1 DEF SameClaims, Cla, imageVars
<1>7. ASSUME NEW r \in Row, Alone(r) PROVE Alone(r)'
  <2>1. nw' = nw /\ SameClaims(r)
    BY <1>2, <1>6 DEF loopVars
  <2> DEFINE Silent(i) == in'[i] = in[i] \/ in'[i] = Append(in[i], GO_OUT)
  <2>2. ASSUME NEW i \in Worker, Silent(i) PROVE Que(in'[i], r) = Que(in[i], r)
    <3> DEFINE q == in[i]
    <3>1. q \in Seq(Item) /\ GO_OUT \in Item
      BY <1>4 DEF Item
    <3> HIDE DEF q
    <3>2. Que(Append(q, GO_OUT), r) = Que(q, r)
      BY <3>1, QueAppend
    <3>3. QED
      BY <2>2, <3>2 DEF q
  <2>3. CASE FirstSvc /\ totaltasks = 0
    <3>1. /\ data' = data /\ \A i \in Worker : Silent(i)
      BY <2>3 DEF FirstSvc
    <3>2. SameRows(r)
      BY <2>2, <3>1 DEF SameRows, Tab
    <3>3. QED
      BY <1>1, <1>7, <2>1, <3>2, AloneStays
  <2>4. CASE FirstSvc /\ totaltasks # 0
    <3>1. sendTask(FALSE)
      BY <2>4 DEF FirstSvc
    <3>2. QED
      BY <1>1, <1>5, <1>7, <2>1, <3>1, SendTaskRows
  <2>5. ASSUME NEW i \in Worker, Schedule(i) PROVE Alone(r)'
    <3> DEFINE v == Victim(i)
    <3>1. v \in Worker
      BY VictimFacts
    <3>2. \/ /\ data' = [data EXCEPT ![v] = Taken(data[v])] /\ data[v].ntask > 0
             /\ in' = [in EXCEPT ![i] = Append(in[i], NextTask(data[v]))]
          \/ /\ UNCHANGED data
             /\ in' = in \/ in' = [in EXCEPT ![i] = Append(in[i], GO_OUT)]
      BY <2>5 DEF Schedule, SendGoOut, Send
    <3> HIDE DEF v
    <3>3. CASE UNCHANGED data /\ (in' = in \/ in' = [in EXCEPT ![i] = Append(in[i], GO_OUT)])
      <4>1. \A a \in Worker : Silent(a)
        BY <1>4, <3>3
      <4>2. SameRows(r)
        BY <2>2, <3>3, <4>1 DEF SameRows, Tab
      <4>3. QED
        BY <1>1, <1>7, <2>1, <4>2, AloneStays
    <3>4. CASE /\ data' = [data EXCEPT ![v] = Taken(data[v])] /\ data[v].ntask > 0
               /\ in' = [in EXCEPT ![i] = Append(in[i], NextTask(data[v]))]
      <4> DEFINE e == data[v]
                 q == in[i]
                 f == data'[v]
                 s == in'[i]
      <4>1. /\ e \in Entry /\ q \in Seq(Item) /\ f = Taken(e) /\ s = Append(q, NextTask(e))
            /\ e.ntask > 0
        BY <1>4, <3>1, <3>4
      <4>2. /\ \A a \in Worker \ {v} : data'[a] = data[a]
            /\ \A a \in Worker \ {i} : in'[a] = in[a]
        BY <1>4, <3>4
      <4> HIDE DEF e, q, f, s
      <4>3. \/ (r \in Rows(f.task) <=> r \in Rows(e.task)) /\ Que(s, r) = Que(q, r)
            \/ /\ r \in Rows(e.task) /\ r \notin Rows(f.task)
               /\ \E n \in Nat : Que(s, r) = Que(q, r) \cup {n}
        <5>1. HandedOut(e, q, f, s) /\ Given /\ e \in Entry /\ q \in Seq(Item) /\ r \in Row
          BY <1>3, <4>1 DEF HandedOut
        <5>2. QED
          BY ONLY <5>1, HandedOutRows
      <4>4. CASE (r \in Rows(f.task) <=> r \in Rows(e.task)) /\ Que(s, r) = Que(q, r)
        <5>1. SameRows(r)
          BY <4>2, <4>4 DEF SameRows, Tab, e, q, f, s
        <5>2. QED
          BY <1>1, <1>7, <2>1, <5>1, AloneStays
      <4>5. CASE /\ r \in Rows(e.task) /\ r \notin Rows(f.task)
                 /\ \E n \in Nat : Que(s, r) = Que(q, r) \cup {n}
        <5>1. Dealt(r, v, i)
          BY <4>2, <4>5 DEF Dealt, Tab, e, q, f, s
        <5>2. QED
          BY <1>1, <1>5, <1>7, <2>1, <3>1, <5>1, AloneDealt
      <4>6. QED
        BY <4>3, <4>4, <4>5
    <3>5. QED
      BY <3>2, <3>3, <3>4
  <2>6. QED
    BY <2>3, <2>4, <2>5 DEF Scheduler
<1>8. QED
  BY <1>2, <1>3, <1>7 DEF Conserved

\* A worker takes a task from its queue, and with it its rows.
LEMMA PopRows ==
    ASSUME Types, Fixed, nw' = nw, NEW i \in Worker, Pop(i), NEW r, Alone(r)
    PROVE  Alone(r)'
<1>1. Worker' = Worker
  BY SameSets
<1>2. /\ in \in [Worker -> Seq(Item)] /\ Worker \subseteq Thread
      /\ pc \in [Thread -> Busy \cup Idle \cup {"svc", "collect"}]
      /\ task \in [Worker -> RowSpan]
  BY GivenHolds DEF Types, QueueTypes, ThreadTypes
<1> DEFINE q == in[i]
           h == Head(q) # GO_OUT /\ r \in Rows(Head(q))
<1>3. q \in Seq(Item) /\ q # <<>>
  BY <1>2 DEF Pop
<1>4. /\ data' = data /\ handed' = handed
      /\ in'[i] = Tail(q) /\ \A a \in Worker \ {i} : in'[a] = in[a]
  BY <1>2 DEF Pop, imageVars
<1>5. /\ ~ Cla(i, r) /\ (Cla(i, r)' <=> h)
      /\ \A a \in Worker \ {i} : Cla(a, r)' <=> Cla(a, r)
  <2>1. pc[i] = "pop"
    BY DEF Pop
  <2>2. CASE Head(q) = GO_OUT
    <3>1. pc'[i] = "freeze" /\ task' = task /\ \A a \in Worker \ {i} : pc'[a] = pc[a]
      BY <1>2, <2>2 DEF Pop, Goto
    <3>2. QED
      BY <2>1, <2>2, <3>1 DEF Cla
  <2>3. CASE Head(q) # GO_OUT
    <3>1. /\ pc'[i] = "apply" /\ task'[i] = Head(q)
          /\ \A a \in Worker \ {i} : pc'[a] = pc[a] /\ task'[a] = task[a]
      BY <1>2, <2>3 DEF Pop, Goto
    <3>2. QED
      BY <2>1, <2>3, <3>1 DEF Cla
  <2>4. QED
    BY <2>2, <2>3
<1> HIDE DEF q, h
<1>6. /\ Que(q, r) = {} => Que(Tail(q), r) = {} /\ ~ h
      /\ \A n \in Nat : Que(q, r) = {n} =>
           \/ Que(Tail(q), r) = {} /\ h
           \/ (\E m \in Nat : Que(Tail(q), r) = {m}) /\ ~ h
  BY ONLY <1>3, QueTail DEF h
<1>7. CASE Que(q, r) = {}
  <2>1. SameRows(r) /\ SameClaims(r)
    BY <1>4, <1>5, <1>6, <1>7 DEF SameRows, SameClaims, Tab, q
  <2>2. QED
    BY <2>1, AloneStays
<1>8. CASE Que(q, r) # {}
  <2>1. NoTable(r) /\ OneQueue(r) /\ NoClaim(r) /\ handed[r] = 0
    BY <1>8 DEF Alone, NoQueue, q
  <2>2. PICK n \in Nat : Que(q, r) = {n} /\ \A a \in Worker \ {i} : Que(in[a], r) = {}
    BY <1>8, <2>1 DEF OneQueue, q
  <2>3. NoTable(r)' /\ (handed[r])' = 0
    BY <1>1, <1>4, <2>1 DEF NoTable, Tab
  <2>4. CASE Que(Tail(q), r) = {} /\ h
    <3>1. NoQueue(r)'
      <4>1. \A a \in Worker : Que(in'[a], r) = {}
        BY <1>4, <2>2, <2>4
      <4>2. QED
        BY <1>1, <4>1 DEF NoQueue
    <3>2. OneClaim(r)'
      <4>1. \A a \in Worker : Cla(a, r)' <=> a = i
        BY <1>5, <2>1, <2>4 DEF NoClaim
      <4>2. QED
        BY <1>1, <4>1 DEF OneClaim
    <3>3. QED
      BY <2>3, <3>1, <3>2 DEF Alone
  <2>5. CASE (\E m \in Nat : Que(Tail(q), r) = {m}) /\ ~ h
    <3>1. PICK m \in Nat : Que(Tail(q), r) = {m}
      BY <2>5
    <3>2. OneQueue(r)'
      <4>1. \A a \in Worker : Que(in'[a], r) = IF a = i THEN {m} ELSE {}
        BY <1>4, <2>2, <3>1
      <4>2. QED
        BY <1>1, <4>1 DEF OneQueue
    <3>3. NoClaim(r)'
      <4>1. \A a \in Worker : ~ Cla(a, r)'
        BY <1>5, <2>1, <2>5 DEF NoClaim
      <4>2. QED
        BY <1>1, <4>1 DEF NoClaim
    <3>4. QED
      BY <2>3, <3>2, <3>3 DEF Alone
  <2>6. QED
    BY <1>6, <2>2, <2>4, <2>5
<1>9. QED
  BY <1>7, <1>8

\* F is called for the rows of the worker's task.
LEMMA ApplyRows ==
    ASSUME Types, Fixed, nw' = nw, NEW i \in Worker, Apply(i), NEW r \in Row, Alone(r)
    PROVE  Alone(r)'
<1>1. Worker' = Worker
  BY SameSets
<1>2. /\ Worker \subseteq Thread /\ handed \in [Row -> Nat]
      /\ pc \in [Thread -> Busy \cup Idle \cup {"svc", "collect"}]
  BY GivenHolds DEF Types, ImageTypes, ThreadTypes
<1>3. /\ data' = data /\ in' = in /\ task' = task
      /\ handed'[r] = handed[r] + (IF r \in Rows(task[i]) THEN 1 ELSE 0)
      /\ pc[i] = "apply" /\ handed[r] \in Nat
  BY <1>2 DEF Apply, Stamp
<1>4. pc'[i] \in {"pop", "test"} /\ \A a \in Worker \ {i} : pc'[a] = pc[a]
  BY <1>2 DEF Apply, Goto
<1>5. SameRows(r)
  BY <1>3 DEF SameRows, Tab
<1>6. ~ Cla(i, r)' /\ \A a \in Worker \ {i} : Cla(a, r)' <=> Cla(a, r)
  BY <1>3, <1>4 DEF Cla
<1>7. CASE r \in Rows(task[i])
  <2>1. Cla(i, r)
    BY <1>3, <1>7 DEF Cla
  <2>2. NoTable(r) /\ NoQueue(r) /\ OneClaim(r) /\ handed[r] = 0
    BY <2>1 DEF Alone, NoClaim
  <2>3. \A a \in Worker : ~ Cla(a, r)'
    BY <1>6, <2>1, <2>2 DEF OneClaim
  <2>4. NoClaim(r)'
    BY <1>1, <2>3 DEF NoClaim
  <2>5. NoTable(r)'
    BY <1>1, <1>3, <2>2 DEF NoTable, Tab
  <2>6. NoQueue(r)'
    BY <1>1, <1>3, <2>2 DEF NoQueue
  <2>7. (handed[r])' = 1
    BY <1>3, <1>7, <2>2
  <2>8. QED
    BY <2>4, <2>5, <2>6, <2>7 DEF Alone
<1>8. CASE r \notin Rows(task[i])
  <2>1. ~ Cla(i, r) /\ handed'[r] = handed[r]
    BY <1>3, <1>8 DEF Cla
  <2>2. SameClaims(r)
    BY <1>6, <2>1 DEF SameClaims
  <2>3. QED
    BY <1>5, <2>2, AloneStays
<1>9. QED
  BY <1>7, <1>8

\* The compare-and-exchange succeeds: the rows it claims leave the table.
LEMMA ClaimRows ==
    ASSUME Types, ClaimKnown, Fixed, nw' = nw, nw > 1, NEW i \in Worker, Claim(i),
           NEW r \in Row, Alone(r)
    PROVE  Alone(r)'
<1>1. Worker' = Worker
  BY SameSets
<1>2. /\ Worker \subseteq Thread /\ Given /\ id[i] \in Worker
      /\ pc \in [Thread -> Busy \cup Idle \cup {"svc", "collect"}]
      /\ data \in [Worker -> Entry] /\ task[i] \in RowSpan /\ nw \in Nat
  BY GivenHolds DEF Types, TableTypes, ThreadTypes, LoopTypes
<1> DEFINE v == id[i]
           e == data[v]
           f == [e EXCEPT !.task.start = task[i].stop]
           x == task[i]
<1>3. /\ data' = [data EXCEPT ![v] = f] /\ e.task.start = x.start
      /\ in' = in /\ task' = task /\ handed' = handed /\ pc[i] = "claim"
      /\ pc' = [pc EXCEPT ![i] = "count"]
  BY DEF Claim, Goto, imageVars
<1>4. x.stop = MinOf(x.start + chunk, e.task.stop)
  BY <1>3 DEF ClaimKnown
<1>5. /\ e \in Entry /\ v \in Worker /\ x.start \in Int /\ x.stop \in Int
      /\ e.task.start \in Int /\ e.task.stop \in Int /\ chunk \in Nat
  BY <1>2 DEF Entry, RowSpan, Given
<1>6. f.task.start = x.stop /\ f.task.stop = e.task.stop
  BY <1>5 DEF Entry, RowSpan
<1>7. data'[v] = f /\ \A a \in Worker \ {v} : data'[a] = data[a]
  BY <1>2, <1>3
<1> HIDE DEF f, e, x
<1>8. /\ r \in Rows(f.task) <=> (r \in Rows(e.task) /\ r \notin Rows(x))
      /\ r \in Rows(x) => r \in Rows(e.task)
  BY <1>3, <1>4, <1>5, <1>6 DEF Rows, MinOf
<1>9. /\ r \in Rows(data'[v].task) <=> (Tab(v, r) /\ r \notin Rows(x))
      /\ r \in Rows(x) => Tab(v, r)
      /\ \A a \in Worker \ {v} : r \in Rows(data'[a].task) <=> Tab(a, r)
  <2>1. Tab(v, r) <=> r \in Rows(e.task)
    BY DEF Tab, e
  <2>2. QED
    BY <1>7, <1>8, <2>1 DEF Tab
<1>10. /\ ~ Cla(i, r) /\ (Cla(i, r)' <=> r \in Rows(x))
       /\ \A a \in Worker \ {i} : Cla(a, r)' <=> Cla(a, r)
  <2>1. pc'[i] = "count" /\ \A a \in Worker \ {i} : pc'[a] = pc[a]
    BY <1>2, <1>3
  <2>2. QED
    BY <1>3, <2>1 DEF Cla, x
<1>11. CASE r \in Rows(x)
  <2>1. OneTable(r) /\ NoQueue(r) /\ NoClaim(r) /\ handed[r] = 0
    BY <1>2, <1>5, <1>9, <1>11 DEF Alone, NoTable
  <2>2. \A a \in Worker : r \notin Rows(data'[a].task)
    BY <1>5, <1>9, <1>11, <2>1 DEF OneTable
  <2>3. NoTable(r)'
    BY <1>1, <2>2 DEF NoTable, Tab
  <2>4. NoQueue(r)'
    BY <1>1, <1>3, <2>1 DEF NoQueue
  <2>5. OneClaim(r)'
    <3>1. \A a \in Worker : Cla(a, r)' <=> a = i
      BY <1>10, <1>11, <2>1 DEF NoClaim
    <3>2. QED
      BY <1>1, <3>1 DEF OneClaim
  <2>6. (handed[r])' = 0
    BY <1>3, <2>1
  <2>7. QED
    BY <2>3, <2>4, <2>5, <2>6 DEF Alone
<1>12. CASE r \notin Rows(x)
  <2>1. r \in Rows(data'[v].task) <=> Tab(v, r)
    BY <1>9, <1>12
  <2>2. SameRows(r)
    BY <1>3, <1>9, <2>1 DEF SameRows
  <2>3. SameClaims(r)
    BY <1>3, <1>10, <1>12 DEF SameClaims
  <2>4. QED
    BY <2>2, <2>3, AloneStays
<1>13. QED
  BY <1>11, <1>12

\* The other steps of nextTaskConcurrent() only look for a task.
LEMMA WorkerKeepsRows ==
    ASSUME Types, Inline, ClaimKnown, Conserved, NEW i \in Worker, WorkerStep(i)
    PROVE  Conserved'
<1>1. Fixed
  BY DEF WorkerStep, Fixed, loopVars
<1>2. UNCHANGED <<loopVars, schedVars, freezeVars, main, k>>
  BY DEF WorkerStep
<1>3. /\ Row' = Row /\ Worker \subseteq Thread /\ Given
      /\ nw \in 1..max_nw /\ nw' = nw
      /\ pc \in [Thread -> Busy \cup Idle \cup {"svc", "collect"}]
      /\ data \in [Worker -> Entry] /\ task \in [Worker -> RowSpan] /\ id[i] \in Worker
  BY <1>1, <1>2, SameSets, GivenHolds DEF Types, LoopTypes, TableTypes, ThreadTypes, loopVars
<1>4. nw > 1
  <2>1. pc[i] \in Busy
    BY DEF WorkerStep, Pop, Apply, nextTaskConcurrent, TestTasks, LoadStart, Claim, ClaimFails,
           CountTask, ChooseVictim, LookAtVictim, Busy
  <2>2. nw # 1
    BY <1>3, <2>1 DEF Inline, Quiet, Busy
  <2>3. QED
    BY <1>3, <2>2 DEF Given
<1>5. ASSUME NEW r \in Row, Alone(r) PROVE Alone(r)'
  <2>1. CASE Pop(i)
    BY <1>1, <1>3, <1>5, <2>1, PopRows
  <2>2. CASE Apply(i)
    BY <1>1, <1>3, <1>5, <2>2, ApplyRows
  <2>3. CASE Claim(i)
    BY <1>1, <1>3, <1>4, <1>5, <2>3, ClaimRows
  <2>4. CASE TestTasks(i) \/ LoadStart(i) \/ ClaimFails(i) \/ ChooseVictim(i) \/ LookAtVictim(i)
    <3>1. /\ data' = data /\ in' = in /\ handed' = handed
          /\ \A a \in Worker \ {i} : task'[a] = task[a]
      BY <1>3, <2>4 DEF TestTasks, LoadStart, ClaimFails, ChooseVictim, LookAtVictim, imageVars
    <3>2. PICK l \in {"load", "victim", "claim", "test", "freeze", "look"} : Goto(i, l)
      BY <2>4 DEF TestTasks, LoadStart, ClaimFails, ChooseVictim, LookAtVictim
    <3>3. pc[i] \notin {"count", "apply"}
      BY <2>4 DEF TestTasks, LoadStart, ClaimFails, ChooseVictim, LookAtVictim
    <3>4. /\ pc'[i] \notin {"count", "apply"}
          /\ \A a \in Worker \ {i} : pc'[a] = pc[a]
      BY <1>3, <3>2 DEF Goto
    <3>5. SameRows(r) /\ SameClaims(r)
      BY <3>1, <3>3, <3>4 DEF SameRows, SameClaims, Tab, Cla
    <3>6. QED
      BY <1>1, <1>3, <1>5, <3>5, AloneStays
  <2>5. CASE CountTask(i)
    <3> DEFINE v == id[i]
               f == [data[v] EXCEPT !.ntask = @ - 1]
    <3>1. /\ data' = [data EXCEPT ![v] = f]
          /\ in' = in /\ handed' = handed /\ task' = task /\ pc[i] = "count"
          /\ pc' = [pc EXCEPT ![i] = IF task[i].start < task[i].stop THEN "apply" ELSE "victim"]
      BY <2>5 DEF CountTask, Goto, imageVars
    <3>2. f.task = data[v].task
      BY <1>3 DEF Entry
    <3> HIDE DEF f
    <3>3. \A a \in Worker : data'[a].task = data[a].task
      BY <1>3, <3>1, <3>2
    <3>4. task[i].start >= task[i].stop => r \notin Rows(task[i])
      BY <1>3 DEF Rows, RowSpan, Given
    <3>5. task[i].start \in Int /\ task[i].stop \in Int
      BY <1>3 DEF RowSpan
    <3>6. /\ pc'[i] = (IF task[i].start < task[i].stop THEN "apply" ELSE "victim")
          /\ \A a \in Worker \ {i} : pc'[a] = pc[a]
      BY <1>3, <3>1
    <3>7. Cla(i, r)' <=> Cla(i, r)
      BY <3>1, <3>4, <3>5, <3>6 DEF Cla
    <3>8. SameRows(r)
      BY <3>1, <3>3 DEF SameRows, Tab
    <3>9. \A a \in Worker \ {i} : Cla(a, r)' <=> Cla(a, r)
      BY <3>1, <3>6 DEF Cla
    <3>10. SameClaims(r)
      BY <3>1, <3>7, <3>9 DEF SameClaims
    <3>11. QED
      BY <1>1, <1>3, <1>5, <3>8, <3>10, AloneStays
  <2>6. QED
    BY <2>1, <2>2, <2>3, <2>4, <2>5 DEF WorkerStep, nextTaskConcurrent
<1>6. QED
  BY <1>2, <1>3, <1>5 DEF Conserved

\* The caller sets the table up, does the rows itself or sends the first tasks.
LEMMA MainKeepsRows ==
    ASSUME Types, Rest, Conserved, Main
    PROVE  Conserved'
<1>1. Fixed
  BY DEF Main, WaitWarmup, SetLoop, RunInline, SendFirst, Thaw, Wait, Stop, JoinThaw,
         JoinExit, Fixed, loopVars
<1>2. /\ Worker' = Worker /\ Row' = Row /\ Worker \subseteq Thread /\ Given
      /\ LB \notin Worker /\ Row = 0..(height - 1)
      /\ nw \in 1..max_nw
  BY <1>1, SameSets, GivenHolds DEF Types, LoopTypes
<1>3. ASSUME Resting, NEW r \in Row
      PROVE  NoQueue(r) /\ NoClaim(r) /\ handed[r] = 0
  <2>1. \A i \in Worker : pc[i] \notin {"count", "apply"}
    BY <1>2, <1>3 DEF Resting
  <2>2. QED
    BY <1>3, <2>1 DEF Resting, NoQueue, NoClaim, Que, Cla
<1>4. CASE SetLoop
  <2>1. /\ nw' \in 1..max_nw /\ main' = IF nw' = 1 THEN "inline" ELSE "start"
        /\ Shared(data')
    BY ONLY <1>2, <1>4, NewTable
  <2>2. main = "setloop" /\ UNCHANGED <<threadVars, imageVars>>
    BY <1>4 DEF SetLoop
  <2>3. Resting
    BY <2>2 DEF Rest
  <2>4. ASSUME NEW r \in Row, main' # "inline" PROVE Alone(r)'
    <3>1. nw' > 1
      BY <1>2, <2>1, <2>4 DEF Given
    <3>2. PICK a \in Worker : \A i \in Worker : r \in Rows(data'[i].task) <=> i = a
      BY <2>1, <2>4 DEF Shared
    <3>3. OneTable(r)'
      BY <1>2, <3>1, <3>2 DEF OneTable, Tab
    <3>4. NoQueue(r) /\ NoClaim(r) /\ handed[r] = 0
      BY <1>3, <2>3, <2>4
    <3>5. in' = in /\ pc' = pc /\ task' = task /\ handed' = handed
      BY <2>2 DEF threadVars, imageVars
    <3>6. NoQueue(r)' /\ NoClaim(r)' /\ (handed[r])' = 0
      BY <1>2, <3>4, <3>5 DEF NoQueue, NoClaim, Cla
    <3>7. QED
      BY <3>3, <3>6 DEF Alone
  <2>5. QED
    BY <1>2, <2>4 DEF Conserved
<1>5. CASE RunInline
  <2>1. /\ main = "inline" /\ Stamp(Span(0, height))
        /\ UNCHANGED <<loopVars, tableVars, schedVars, threadVars, freezeVars>>
    BY <1>5 DEF RunInline
  <2>2. Resting /\ nw = 1
    BY <2>1 DEF Rest
  <2>3. ASSUME NEW r \in Row PROVE Alone(r)'
    <3>1. NoQueue(r) /\ NoClaim(r) /\ handed[r] = 0
      BY <1>3, <2>2, <2>3
    <3>2. in' = in /\ pc' = pc /\ task' = task /\ nw' = nw
      BY <2>1 DEF threadVars, loopVars
    <3>3. r \in Rows(Span(0, height))
      BY <1>2 DEF Rows, Span
    <3>4. handed'[r] = handed[r] + 1
      BY <2>1, <3>3 DEF Stamp
    <3>5. (handed[r])' = 1
      BY <3>1, <3>4
    <3>6. NoTable(r)'
      BY <2>2, <3>2 DEF NoTable
    <3>7. NoQueue(r)' /\ NoClaim(r)'
      BY <1>2, <3>1, <3>2 DEF NoQueue, NoClaim, Cla
    <3>8. QED
      BY <3>5, <3>6, <3>7 DEF Alone
  <2>4. QED
    BY <1>2, <2>3 DEF Conserved
<1>6. CASE WaitWarmup
  BY <1>6 DEF WaitWarmup, Conserved
<1>7. CASE SendFirst \/ Thaw \/ Wait \/ Stop \/ JoinThaw \/ JoinExit
  <2>1. main \notin {"warmup", "setloop", "inline"}
    BY <1>7 DEF SendFirst, Thaw, Wait, Stop, JoinThaw, JoinExit
  <2>2. nw' = nw /\ pc' = pc /\ task' = task /\ handed' = handed
    BY <1>7 DEF SendFirst, Thaw, Wait, Stop, JoinThaw, JoinExit, loopVars, threadVars, imageVars
  <2>3. ASSUME NEW r \in Row PROVE Alone(r)'
    <3>1. Alone(r)
      BY <2>1, <2>3 DEF Conserved
    <3>2. SameClaims(r)
      BY <2>2 DEF SameClaims, Cla
    <3>3. CASE SendFirst /\ ~ schedRunning
      <4>1. sendTask(TRUE) /\ main = "start"
        BY <3>3 DEF SendFirst
      <4>2. nw > 1
        BY <1>2, <4>1 DEF Rest, Given
      <4>3. QED
        BY <1>1, <2>2, <2>3, <3>1, <3>2, <4>1, <4>2, SendTaskRows
    <3>4. CASE ~ (SendFirst /\ ~ schedRunning)
      <4>1. data' = data /\ in' = in
        BY <1>7, <3>4 DEF SendFirst, Thaw, Wait, Stop, JoinThaw, JoinExit, tableVars, threadVars
      <4>2. SameRows(r)
        BY <4>1 DEF SameRows, Tab
      <4>3. QED
        BY <1>1, <2>2, <3>1, <3>2, <4>2, AloneStays
    <3>5. QED
      BY <3>3, <3>4
  <2>4. QED
    BY <1>2, <2>3 DEF Conserved
<1>8. QED
  BY <1>4, <1>5, <1>6, <1>7 DEF Main

\* Every step keeps each row in one place.
LEMMA KeepsRows ==
    Types /\ Rest /\ Inline /\ ClaimKnown /\ Conserved /\ [Next]_vars => Conserved'
<1> SUFFICES ASSUME Types, Rest, Inline, ClaimKnown, Conserved, [Next]_vars PROVE Conserved'
  OBVIOUS
<1>1. CASE UNCHANGED vars
  <2>1. Fixed /\ nw' = nw /\ data' = data /\ in' = in /\ pc' = pc /\ task' = task
        /\ handed' = handed /\ main' = main
    BY <1>1 DEF Fixed, vars, loopVars, tableVars, imageVars
  <2>2. ASSUME NEW r \in Row, Alone(r) PROVE Alone(r)'
    <3>1. SameRows(r) /\ SameClaims(r)
      BY <2>1 DEF SameRows, SameClaims, Tab, Cla
    <3>2. QED
      BY <2>1, <2>2, <3>1, AloneStays
  <2>3. QED
    BY <2>1, <2>2, SameSets DEF Conserved
<1>2. QED
  BY <1>1, MainKeepsRows, SchedulerKeepsRows, ThreadKeepsRows, WorkerKeepsRows
     DEF Next, Finished

\* Once the table is set up, no step changes the chunk or where an entry ends.
LEMMA EndsStay ==
    ASSUME Types, [Next]_vars, ~ SetLoop
    PROVE  /\ chunk' = chunk
           /\ \A i \in Worker : data'[i].task.stop = data[i].task.stop
<1>1. chunk' = chunk
  BY DEF Next, Main, WaitWarmup, RunInline, SendFirst, Thaw, Wait, Stop, JoinThaw,
         JoinExit, Scheduler, ThreadRoutine, WorkerStep, Finished, loopVars, vars
<1>2. /\ Given /\ data \in [Worker -> Entry] /\ in \in [Worker -> Seq(Item)]
      /\ eossent \in [Worker -> BOOLEAN]
      /\ id \in [Worker -> Worker] /\ task \in [Worker -> RowSpan]
  BY GivenHolds DEF Types, TableTypes, QueueTypes, ThreadTypes
<1>3. ASSUME NEW e \in Entry
      PROVE  Taken(e) \in Entry /\ Taken(e).task.stop = e.task.stop
  BY <1>2, TaskFacts
<1>4. ASSUME NEW skip \in BOOLEAN, sendTask(skip), NEW i \in Worker
      PROVE  data'[i].task.stop = data[i].task.stop
  <2>1. data' = Deal(data) \/ data' = Deal(Deal(data))
    BY <1>4 DEF sendTask
  <2>2. ASSUME NEW d \in [Worker -> Entry]
        PROVE  Deal(d) \in [Worker -> Entry] /\ Deal(d)[i].task.stop = d[i].task.stop
    <3>1. Deal(d) \in [Worker -> Entry]
      BY <1>3 DEF Deal
    <3>2. d[i] \in Entry /\ (Deal(d)[i] = d[i] \/ Deal(d)[i] = Taken(d[i]))
      BY DEF Deal
    <3>3. QED
      BY <1>3, <3>1, <3>2
  <2>3. QED
    BY <1>2, <2>1, <2>2
<1>5. CASE UNCHANGED data
  BY <1>1, <1>5
<1>6. CASE SendFirst /\ ~ schedRunning
  <2>1. sendTask(TRUE)
    BY <1>6 DEF SendFirst
  <2>2. QED
    BY <1>1, <1>4, <2>1
<1>7. CASE FirstSvc /\ totaltasks # 0
  <2>1. sendTask(FALSE)
    BY <1>7 DEF FirstSvc
  <2>2. QED
    BY <1>1, <1>4, <2>1
<1>8. ASSUME NEW i \in Worker, Schedule(i)
      PROVE  \A a \in Worker : data'[a].task.stop = data[a].task.stop
  <2> DEFINE v == Victim(i)
  <2>1. v \in Worker
    BY VictimFacts
  <2>2. data' = data \/ data' = [data EXCEPT ![v] = Taken(data[v])]
    BY <1>8 DEF Schedule, SendGoOut
  <2> HIDE DEF v
  <2>3. QED
    BY <1>2, <1>3, <2>1, <2>2
<1>9. ASSUME NEW i \in Worker, Claim(i) \/ CountTask(i)
      PROVE  \A a \in Worker : data'[a].task.stop = data[a].task.stop
  <2> DEFINE v == id[i]
             e == data[v]
             f == [e EXCEPT !.task.start = task[i].stop]
             g == [e EXCEPT !.ntask = @ - 1]
  <2>1. v \in Worker /\ e \in Entry
    BY <1>2
  <2>2. data' = [data EXCEPT ![v] = f] \/ data' = [data EXCEPT ![v] = g]
    BY <1>9 DEF Claim, CountTask
  <2>3. f.task.stop = e.task.stop /\ g.task.stop = e.task.stop
    BY <2>1 DEF Entry, RowSpan
  <2> HIDE DEF f, g, v
  <2>4. QED
    BY <1>2, <2>1, <2>2, <2>3
<1>10. \/ UNCHANGED data
       \/ SendFirst /\ ~ schedRunning
       \/ FirstSvc /\ totaltasks # 0
       \/ \E i \in Worker : Schedule(i) \/ Claim(i) \/ CountTask(i)
  BY DEF Next, Main, WaitWarmup, RunInline, SendFirst, Thaw, Wait, Stop, JoinThaw,
         JoinExit, Scheduler, FirstSvc, ThreadRoutine, WorkerStep, Pop, Apply,
         nextTaskConcurrent, TestTasks, LoadStart, ClaimFails, ChooseVictim, LookAtVictim,
         Finished, tableVars, vars
<1>11. QED
  BY <1>1, <1>5, <1>6, <1>7, <1>8, <1>9, <1>10

\* A worker about to claim or to count knows the rows its task ends before.
LEMMA KeepsClaims == Types /\ Rest /\ ClaimKnown /\ [Next]_vars => ClaimKnown'
<1> SUFFICES ASSUME Types, Rest, ClaimKnown, [Next]_vars PROVE ClaimKnown'
  OBVIOUS
<1>1. Worker' = Worker
  BY AlwaysFixed, SameSets
<1>2. /\ Given /\ Worker \subseteq Thread /\ LB \notin Worker
      /\ pc \in [Thread -> Busy \cup Idle \cup {"svc", "collect"}]
      /\ data \in [Worker -> Entry] /\ id \in [Worker -> Worker]
      /\ task \in [Worker -> RowSpan]
  BY GivenHolds DEF Types, TableTypes, ThreadTypes
<1>3. CASE SetLoop
  <2>1. main = "setloop" /\ pc' = pc
    BY <1>3 DEF SetLoop, threadVars
  <2>2. \A i \in Worker : pc[i] # "claim"
    BY <1>2, <2>1 DEF Rest, Resting
  <2>3. QED
    BY <1>1, <2>1, <2>2 DEF ClaimKnown
<1>4. CASE ~ SetLoop
  <2>1. /\ chunk' = chunk /\ \A i \in Worker : data'[i].task.stop = data[i].task.stop
    BY <1>4, EndsStay
  <2>2. ASSUME NEW i \in Worker, pc'[i] = "claim"
        PROVE  task'[i].stop = MinOf(task'[i].start + chunk, data[id'[i]].task.stop)
               /\ id'[i] \in Worker
    <3>1. ASSUME pc[i] = "claim", task'[i] = task[i], id'[i] = id[i]
          PROVE  task'[i].stop = MinOf(task'[i].start + chunk, data[id'[i]].task.stop)
                 /\ id'[i] \in Worker
      BY <1>2, <3>1 DEF ClaimKnown
    <3>2. CASE Main \/ Scheduler \/ Finished \/ UNCHANGED vars
      <4>1. task' = task /\ id' = id
        BY <3>2 DEF Main, WaitWarmup, SetLoop, RunInline, SendFirst, Thaw, Wait, Stop, JoinThaw,
                    JoinExit, Scheduler, Finished, threadVars, vars
      <4>2. pc'[i] = pc[i]
        <5>1. pc' = pc \/ \E l : Goto(LB, l)
          BY <3>2 DEF Main, WaitWarmup, SetLoop, RunInline, SendFirst, Thaw, Wait, Stop, JoinThaw,
                      JoinExit, Scheduler, FirstSvc, Schedule, Finished, threadVars, vars
        <5>2. QED
          BY <1>2, <5>1 DEF Goto
      <4>3. QED
        BY <2>2, <3>1, <4>1, <4>2
    <3>3. ASSUME NEW t \in Thread, ThreadRoutine(t)
          PROVE  pc'[i] = pc[i] /\ task' = task /\ id' = id
      <4>1. task' = task /\ id' = id
        BY <3>3 DEF ThreadRoutine
      <4>2. PICK l \in Idle \cup {"svc", "pop"} : Goto(t, l)
        BY <3>3 DEF ThreadRoutine, Freeze, Wake, Again, Leave, Idle
      <4>3. i # t
        BY <1>2, <2>2, <4>2 DEF Goto, Idle
      <4>4. QED
        BY <1>2, <4>1, <4>2, <4>3 DEF Goto
    <3>4. ASSUME NEW w \in Worker, WorkerStep(w), w # i
          PROVE  pc'[i] = pc[i] /\ task'[i] = task[i] /\ id'[i] = id[i]
      <4>1. \E l : Goto(w, l)
        BY <3>4 DEF WorkerStep, Pop, Apply, nextTaskConcurrent, TestTasks, LoadStart, Claim,
                    ClaimFails, CountTask, ChooseVictim, LookAtVictim
      <4>2. pc'[i] = pc[i]
        BY <1>2, <3>4, <4>1 DEF Goto
      <4>3. task'[i] = task[i]
        BY <1>2, <3>4 DEF WorkerStep, Pop, Apply, nextTaskConcurrent, TestTasks, LoadStart, Claim,
                    ClaimFails, CountTask, ChooseVictim, LookAtVictim
      <4>4. id'[i] = id[i]
        BY <1>2, <3>4 DEF WorkerStep, Pop, Apply, nextTaskConcurrent, TestTasks, LoadStart, Claim,
                    ClaimFails, CountTask, ChooseVictim, LookAtVictim
      <4>5. QED
        BY <4>2, <4>3, <4>4
    <3>5. ASSUME WorkerStep(i)
          PROVE  /\ task'[i].stop = MinOf(task'[i].start + chunk, data[id'[i]].task.stop)
                 /\ id'[i] \in Worker
      <4>1. i \in Thread
        BY <1>2
      <4>2. LoadStart(i)
        <5>1. ~ LoadStart(i) => \E l \in (Busy \ {"claim"}) \cup {"freeze"} : Goto(i, l)
          BY <3>5 DEF WorkerStep, Pop, Apply, nextTaskConcurrent, TestTasks, LoadStart, Claim,
                      ClaimFails, CountTask, ChooseVictim, LookAtVictim, Busy
        <5>2. QED
          BY <1>2, <2>2, <4>1, <5>1 DEF Goto, Busy
      <4>3. /\ task' = [task EXCEPT ![i] = NextTask(data[id[i]])] /\ id' = id
        BY <4>2 DEF LoadStart
      <4>4. data[id[i]] \in Entry /\ id[i] \in Worker
        BY <1>2
      <4> DEFINE e == data[id[i]]
      <4>5. /\ NextTask(e).start = e.task.start
            /\ NextTask(e).stop = MinOf(e.task.start + chunk, e.task.stop)
        BY <1>2, <4>4, TaskFacts
      <4>6. task'[i] = NextTask(e) /\ id'[i] = id[i]
        BY <1>2, <4>3
      <4>7. QED
        BY <4>4, <4>5, <4>6
    <3>6. CASE \E t \in Thread : ThreadRoutine(t)
      BY <2>2, <3>1, <3>3, <3>6
    <3>7. CASE \E w \in Worker : WorkerStep(w)
      BY <2>2, <3>1, <3>4, <3>5, <3>7
    <3>8. QED
      BY <3>2, <3>6, <3>7 DEF Next
  <2>3. QED
    BY <1>1, <2>1, <2>2 DEF ClaimKnown
<1>5. QED
  BY <1>3, <1>4
-----------------------------------------------------------------------------
\* The inductive invariant of the rows.
RowsInv == Types /\ Rest /\ Inline /\ ClaimKnown /\ Conserved

\* The rows, and the types they rest on, hold before the first loop.
LEMMA RowsAtInit == Init => RowsInv
<1> SUFFICES ASSUME Init PROVE RowsInv
  OBVIOUS
<1>1. Worker \subseteq Thread /\ LB \notin Worker
  BY InitTypes, GivenHolds DEF Types
<1>2. \A i \in Worker : pc[i] = "pop"
  BY <1>1 DEF Init
<1>3. ClaimKnown /\ Conserved
  BY <1>2 DEF Init, ClaimKnown, Conserved
<1>4. QED
  BY <1>3, InitTypes, InitRest DEF RowsInv

\* No step of the threads breaks them.
LEMMA RowsKept == Spec => []RowsInv
<1>1. RowsInv /\ [Next]_vars => RowsInv'
  BY KeepsTypes, KeepsRest, KeepsClaims, KeepsRows DEF RowsInv
<1>2. QED
  BY <1>1, RowsAtInit, PTL DEF Spec

(* While the loop runs, each row of the image is in one place: the table,  *)
(* a queue, with the worker that has claimed it, or handed to F.           *)
THEOREM RowsAreConserved == Spec => []RowConservation
<1>1. RowsInv => RowConservation
  <2> SUFFICES ASSUME RowsInv, main \notin {"warmup", "setloop", "inline"}, NEW r \in Row
               PROVE  Cardinality(InTable(r)) + Cardinality(InQueue(r))
                        + Cardinality(Claimed(r)) + handed[r] = 1
    BY DEF RowConservation
  <2>1. Types /\ Alone(r)
    BY DEF RowsInv, Conserved
  <2>2. QED
    BY <2>1, AloneCounts
<1>2. QED
  BY <1>1, RowsKept, PTL

------------------------------------------------------------------------------
(* parallel_for_idx() returns when each row has been handed to F.  What an *)
(* entry of the table still holds, and what the workers know of it:        *)
Empty(v) == data[v].task.start >= data[v].task.stop

\* Who has claimed a task of entry v and not counted it yet.
Counting(v) == {i \in Worker : pc[i] = "count" /\ id[i] = v}

\* n tasks are enough for the rows of entry e.
EnoughFor(e, n) ==
    e.task.start >= e.task.stop \/ e.task.stop - e.task.start <= n * chunk

\* ntask tells a worker that there are no rows when there are none.
Enough ==
    main \notin {"warmup", "setloop"} => \A v \in Worker :
        /\ EnoughFor(data[v], data[v].ntask - Cardinality(Counting(v)))
        /\ v >= nw => Empty(v)

\* A worker that has claimed no rows at all has found the entry empty.
NothingClaimed ==
    \A i \in Worker :
        pc[i] = "count" /\ task[i].start >= task[i].stop => Empty(id[i])

\* What the step of another thread leaves of worker i.
LEMMA OthersStep ==
    ASSUME Types, [Next]_vars, NEW i \in Worker, ~ WorkerStep(i)
    PROVE  /\ task'[i] = task[i] /\ id'[i] = id[i]
           /\ \/ pc'[i] = pc[i]
              \/ ThreadRoutine(i) /\ pc[i] \in Idle /\ pc'[i] \in Idle \cup {"pop"}
<1>1. /\ Worker \subseteq Thread /\ LB \notin Worker
      /\ pc \in [Thread -> Busy \cup Idle \cup {"svc", "collect"}]
      /\ id \in [Worker -> Worker] /\ task \in [Worker -> RowSpan]
  BY GivenHolds DEF Types, ThreadTypes
<1>2. CASE Main \/ Scheduler \/ Finished \/ UNCHANGED vars
  <2>1. task' = task /\ id' = id
    BY <1>2 DEF Main, WaitWarmup, SetLoop, RunInline, SendFirst, Thaw, Wait, Stop, JoinThaw,
                JoinExit, Scheduler, Finished, threadVars, vars
  <2>2. pc' = pc \/ \E l : Goto(LB, l)
    BY <1>2 DEF Main, WaitWarmup, SetLoop, RunInline, SendFirst, Thaw, Wait, Stop, JoinThaw,
                JoinExit, Scheduler, FirstSvc, Schedule, Finished, threadVars, vars
  <2>3. QED
    BY <1>1, <2>1, <2>2 DEF Goto
<1>3. ASSUME NEW t \in Thread, ThreadRoutine(t)
      PROVE  /\ task' = task /\ id' = id
             /\ pc'[i] = pc[i] \/ (t = i /\ pc[i] \in Idle /\ pc'[i] \in Idle \cup {"pop"})
  <2>1. task' = task /\ id' = id
    BY <1>3 DEF ThreadRoutine
  <2>2. CASE t # i
    <3>1. \E l : Goto(t, l)
      BY <1>3 DEF ThreadRoutine, Freeze, Wake, Again, Leave
    <3>2. QED
      BY <1>1, <2>1, <2>2, <3>1 DEF Goto
  <2>3. CASE t = i
    <3>1. t # LB
      BY <1>1, <2>3
    <3>2. PICK l \in Idle \cup {"pop"} : Goto(t, l)
      BY <1>3, <3>1 DEF ThreadRoutine, Freeze, Wake, Again, Leave, Idle
    <3>3. pc[t] \in Idle
      BY <1>3 DEF ThreadRoutine, Freeze, Wake, Again, Leave, Idle
    <3>4. QED
      BY <1>1, <2>1, <2>3, <3>2, <3>3 DEF Goto
  <2>4. QED
    BY <2>2, <2>3
<1>4. ASSUME NEW w \in Worker, WorkerStep(w)
      PROVE  pc'[i] = pc[i] /\ task'[i] = task[i] /\ id'[i] = id[i]
  <2>1. w # i
    BY <1>4
  <2>2. \E l : Goto(w, l)
    BY <1>4 DEF WorkerStep, Pop, Apply, nextTaskConcurrent, TestTasks, LoadStart, Claim,
                ClaimFails, CountTask, ChooseVictim, LookAtVictim
  <2>3. pc'[i] = pc[i]
    BY <1>1, <2>1, <2>2 DEF Goto
  <2>4. task' = task \/ \E x : task' = [task EXCEPT ![w] = x]
    BY <1>4 DEF WorkerStep, Pop, Apply, nextTaskConcurrent, TestTasks, LoadStart, Claim,
                ClaimFails, CountTask, ChooseVictim, LookAtVictim
  <2>5. id' = id \/ \E x : id' = [id EXCEPT ![w] = x]
    BY <1>4 DEF WorkerStep, Pop, Apply, nextTaskConcurrent, TestTasks, LoadStart, Claim,
                ClaimFails, CountTask, ChooseVictim, LookAtVictim
  <2>6. QED
    BY <1>1, <2>1, <2>3, <2>4, <2>5
<1>5. QED
  BY <1>2, <1>3, <1>4 DEF Next

\* The steps that change an entry of the table, once it has been set up.
Dealing(v) ==
    \/ data[v].ntask > 0 /\ data'[v] = Taken(data[v])
    \/ \E e \in Entry : /\ data[v].ntask > 0 /\ e = Taken(data[v])
                        /\ e.ntask > 0 /\ data'[v] = Taken(e)
Claiming(i, v) ==
    /\ Claim(i) /\ id[i] = v
    /\ data'[v] \in Entry /\ data'[v].ntask = data[v].ntask
    /\ data'[v].task = Taken(data[v]).task
    /\ task[i].start = data[v].task.start /\ task[i].stop = Taken(data[v]).task.start
Uncounting(i, v) ==
    /\ CountTask(i) /\ id[i] = v
    /\ data'[v] \in Entry /\ data'[v].ntask = data[v].ntask - 1
    /\ data'[v].task = data[v].task

\* An entry changes only by a task dealt, a claim, or a claim counted.
LEMMA TableSteps ==
    ASSUME Types, ClaimKnown, [Next]_vars, ~ SetLoop, NEW v \in Worker
    PROVE  \/ /\ data'[v] = data[v]
              /\ \A i \in Worker : WorkerStep(i) /\ (Claim(i) \/ CountTask(i)) => id[i] # v
           \/ /\ Dealing(v) /\ \A i \in Worker : ~ WorkerStep(i)
           \/ \E i \in Worker : WorkerStep(i) /\ (Claiming(i, v) \/ Uncounting(i, v))
<1>1. /\ Given /\ data \in [Worker -> Entry] /\ in \in [Worker -> Seq(Item)]
      /\ eossent \in [Worker -> BOOLEAN]
      /\ id \in [Worker -> Worker] /\ task \in [Worker -> RowSpan]
      /\ data[v] \in Entry
      /\ LB \notin Worker /\ LB \in Thread /\ Worker \subseteq Thread
      /\ pc \in [Thread -> Busy \cup Idle \cup {"svc", "collect"}]
  BY GivenHolds DEF Types, TableTypes, QueueTypes, ThreadTypes
<1>2. ASSUME NEW i \in Worker, WorkerStep(i), Claim(i), id[i] = v
      PROVE  Claiming(i, v)
  <2> DEFINE e == data[v]
             f == [e EXCEPT !.task.start = task[i].stop]
  <2>1. /\ data' = [data EXCEPT ![v] = f] /\ e.task.start = task[i].start
        /\ pc[i] = "claim"
    BY <1>2 DEF Claim
  <2>2. /\ e \in Entry /\ task[i] \in RowSpan
        /\ task[i].stop = MinOf(task[i].start + chunk, e.task.stop)
    BY <1>1, <1>2, <2>1 DEF ClaimKnown
  <2>3. /\ Taken(e) \in Entry /\ Taken(e).task.start = task[i].stop
        /\ Taken(e).task.stop = e.task.stop
    BY <1>1, <2>1, <2>2, TaskFacts
  <2>4. /\ f \in Entry /\ f.ntask = e.ntask
        /\ f.task = [start |-> task[i].stop, stop |-> e.task.stop]
    BY <2>2 DEF Entry, RowSpan
  <2>5. Taken(e).task = [start |-> task[i].stop, stop |-> e.task.stop]
    BY <2>3 DEF Entry, RowSpan
  <2>6. data'[v] = f
    BY <1>1, <2>1
  <2> HIDE DEF e, f
  <2>7. QED
    BY <1>2, <2>1, <2>3, <2>4, <2>5, <2>6 DEF Claiming, e
<1>3. ASSUME NEW i \in Worker, WorkerStep(i), CountTask(i), id[i] = v
      PROVE  Uncounting(i, v)
  <2> DEFINE e == data[v]
             f == [e EXCEPT !.ntask = @ - 1]
  <2>1. data' = [data EXCEPT ![v] = f]
    BY <1>3 DEF CountTask
  <2>2. e \in Entry /\ data'[v] = f
    BY <1>1, <2>1
  <2>3. f \in Entry /\ f.ntask = e.ntask - 1 /\ f.task = e.task
    <3> HIDE DEF e
    <3>1. QED
      BY <2>2 DEF Entry
  <2>4. QED
    BY <1>3, <2>2, <2>3 DEF Uncounting
<1>4. CASE \E i \in Worker : WorkerStep(i) /\ (Claim(i) \/ CountTask(i)) /\ id[i] = v
  BY <1>2, <1>3, <1>4
<1>5. CASE \A i \in Worker : WorkerStep(i) /\ (Claim(i) \/ CountTask(i)) => id[i] # v
  <2>1. ASSUME NEW i \in Worker, WorkerStep(i)
        PROVE  data'[v] = data[v]
    <3>1. CASE Claim(i) \/ CountTask(i)
      <4>1. id[i] # v
        BY <1>5, <2>1, <3>1
      <4>2. \E x : data' = [data EXCEPT ![id[i]] = x]
        BY <3>1 DEF Claim, CountTask
      <4>3. QED
        BY <1>1, <4>1, <4>2
    <3>2. CASE ~ (Claim(i) \/ CountTask(i))
      BY <2>1, <3>2 DEF WorkerStep, Pop, Apply, nextTaskConcurrent, TestTasks, LoadStart,
                        ClaimFails, ChooseVictim, LookAtVictim
    <3>3. QED
      BY <3>1, <3>2
  <2>2. CASE \E i \in Worker : WorkerStep(i)
    BY <1>5, <2>1, <2>2
  <2>3. CASE \A i \in Worker : ~ WorkerStep(i)
    <3>1. ASSUME NEW skip \in BOOLEAN, sendTask(skip)
          PROVE  data'[v] = data[v] \/ Dealing(v)
      <4>1. Untouched(v) \/ DealtOne(v) \/ DealtTwo(v)
        BY <1>1, <3>1, SendTaskFacts
      <4>2. CASE Untouched(v)
        BY <4>2 DEF Untouched
      <4>3. CASE DealtOne(v)
        BY <4>3 DEF DealtOne, HandedOut, Dealing
      <4>4. CASE DealtTwo(v)
        BY <4>4 DEF DealtTwo, HandedOut, Dealing
      <4>5. QED
        BY <4>1, <4>2, <4>3, <4>4
    <3>2. ASSUME NEW i \in Worker, Schedule(i)
          PROVE  data'[v] = data[v] \/ Dealing(v)
      <4> DEFINE w == Victim(i)
      <4>1. w \in Worker
        BY VictimFacts
      <4>2. data' = data \/ (data' = [data EXCEPT ![w] = Taken(data[w])] /\ data[w].ntask > 0)
        BY <3>2 DEF Schedule, SendGoOut
      <4> HIDE DEF w
      <4>3. QED
        BY <1>1, <4>1, <4>2 DEF Dealing
    <3>3. \/ UNCHANGED data
          \/ sendTask(TRUE) \/ sendTask(FALSE)
          \/ \E i \in Worker : Schedule(i)
      BY <2>3 DEF Next, Main, WaitWarmup, RunInline, SendFirst, Thaw, Wait, Stop, JoinThaw,
             JoinExit, Scheduler, FirstSvc, ThreadRoutine, Finished, tableVars, vars
    <3>4. data'[v] = data[v] \/ Dealing(v)
      BY <3>1, <3>2, <3>3
    <3>5. QED
      BY <2>3, <3>4
  <2>4. QED
    BY <2>2, <2>3
<1>6. QED
  BY <1>4, <1>5

\* The rows that one task takes.
LEMMA TakenFacts ==
    ASSUME Given, NEW e \in Entry
    PROVE  /\ Taken(e) \in Entry /\ Taken(e).ntask = e.ntask - 1
           /\ Taken(e).task.stop = e.task.stop
           /\ Taken(e).task.start = MinOf(e.task.start + chunk, e.task.stop)
           /\ e.task.start >= e.task.stop => Taken(e).task.start >= Taken(e).task.stop
           /\ \A n \in Int : EnoughFor(e, n) => EnoughFor(Taken(e), n - 1)
<1>1. /\ Taken(e) \in Entry /\ Taken(e).ntask = e.ntask - 1
      /\ Taken(e).task.stop = e.task.stop
      /\ Taken(e).task.start = MinOf(e.task.start + chunk, e.task.stop)
  BY TaskFacts
<1> DEFINE a == e.task.start
           b == e.task.stop
           c == MinOf(a + chunk, b)
<1>2. a \in Int /\ b \in Int /\ chunk \in Nat
  BY DEF Entry, RowSpan, Given
<1> HIDE DEF a, b
<1>3. \A n \in Int : (n - 1) * chunk = n * chunk - chunk /\ n * chunk \in Int
  BY <1>2
<1>4. a >= b => c >= b
  BY <1>2 DEF MinOf
<1>5. ASSUME NEW n \in Int, a >= b \/ b - a <= n * chunk
      PROVE  c >= b \/ b - c <= (n - 1) * chunk
  <2>1. CASE c = b
    BY <1>2, <2>1
  <2>2. CASE c # b
    <3>1. c = a + chunk /\ c < b
      BY <1>2, <2>2 DEF MinOf
    <3>2. QED
      BY <1>2, <1>3, <1>5, <3>1
  <2>3. QED
    BY <2>1, <2>2
<1>6. QED
  BY <1>1, <1>4, <1>5 DEF EnoughFor, a, b

\* Rows that are gone do not come back.
LEMMA EmptyStays ==
    ASSUME Types, ClaimKnown, [Next]_vars, ~ SetLoop, NEW v \in Worker, Empty(v)
    PROVE  Empty(v)'
<1>1. Given /\ data[v] \in Entry
  BY GivenHolds DEF Types, TableTypes
<1>2. CASE data'[v] = data[v]
  BY <1>2 DEF Empty
<1>3. CASE Dealing(v)
  BY <1>1, <1>3, TakenFacts DEF Dealing, Empty
<1>4. CASE \E i \in Worker : Claiming(i, v)
  BY <1>1, <1>4, TakenFacts DEF Claiming, Empty
<1>5. CASE \E i \in Worker : Uncounting(i, v)
  BY <1>1, <1>5 DEF Uncounting, Empty
<1>6. QED
  BY <1>2, <1>3, <1>4, <1>5, TableSteps

\* A worker steps alone, and only the two atomic operations on the table lead
\* to "count" and away from it.
LEMMA WorkerMoves ==
    ASSUME Types, NEW i \in Worker, WorkerStep(i)
    PROVE  /\ pc[i] = "count" <=> CountTask(i)
           /\ pc'[i] = "count" <=> Claim(i)
           /\ Claim(i) \/ CountTask(i) => id' = id
           /\ pc[i] \in Busy /\ pc'[i] # pc[i]
           /\ \A j \in Worker \ {i} : pc'[j] = pc[j] /\ ~ WorkerStep(j)
<1>1. /\ pc \in [Thread -> Busy \cup Idle \cup {"svc", "collect"}]
      /\ Worker \subseteq Thread
  BY GivenHolds DEF Types, ThreadTypes
<1>2. \E l : Goto(i, l)
  BY DEF WorkerStep, Pop, Apply, nextTaskConcurrent, TestTasks, LoadStart, Claim,
         ClaimFails, CountTask, ChooseVictim, LookAtVictim
<1>3. \A j \in Worker \ {i} : pc'[j] = pc[j]
  BY <1>1, <1>2 DEF Goto
<1>4. ASSUME NEW j \in Worker, WorkerStep(j)
      PROVE  /\ pc[j] = "count" <=> CountTask(j)
             /\ pc'[j] = "count" <=> Claim(j)
             /\ pc[j] \in Busy /\ pc'[j] # pc[j]
  <2>1. j \in Thread
    BY <1>1
  <2>2. \A l : Goto(j, l) => pc'[j] = l
    BY <1>1, <2>1 DEF Goto
  <2>3. CASE Pop(j) \/ Apply(j)
    BY <2>2, <2>3 DEF Pop, Apply, CountTask, Claim, Busy
  <2>4. CASE nextTaskConcurrent(j)
    BY <2>2, <2>4 DEF nextTaskConcurrent, TestTasks, LoadStart, Claim,
         ClaimFails, CountTask, ChooseVictim, LookAtVictim, Busy
  <2>5. QED
    BY <1>4, <2>3, <2>4 DEF WorkerStep
<1>5. Claim(i) \/ CountTask(i) => id' = id
  BY DEF Claim, CountTask
<1>6. QED
  BY <1>3, <1>4, <1>5

\* So a worker counts for entry v from its claim until it has counted.
LEMMA CountingSteps ==
    ASSUME Types, [Next]_vars, NEW v \in Worker
    PROVE  /\ Cardinality(Counting(v)) \in Nat
           /\ (\A i \in Worker : WorkerStep(i) /\ (Claim(i) \/ CountTask(i)) => id[i] # v)
                => Counting(v)' = Counting(v)
           /\ \A i \in Worker : WorkerStep(i) /\ Claim(i) /\ id[i] = v =>
                Cardinality(Counting(v)') = Cardinality(Counting(v)) + 1
           /\ \A i \in Worker : WorkerStep(i) /\ CountTask(i) /\ id[i] = v =>
                Cardinality(Counting(v)') = Cardinality(Counting(v)) - 1
<1>1. /\ Worker' = Worker /\ IsFiniteSet(Worker)
  BY AlwaysFixed, SameSets, GivenHolds DEF Types
<1>2. Counting(v)' = {i \in Worker : pc'[i] = "count" /\ id'[i] = v}
  BY <1>1 DEF Counting
<1>3. IsFiniteSet(Counting(v)) /\ Cardinality(Counting(v)) \in Nat
  <2>1. Counting(v) \in SUBSET Worker
    BY DEF Counting
  <2>2. QED
    BY <1>1, <2>1, FS_Subset, FS_CardinalityType
<1>4. ASSUME NEW j \in Worker, ~ WorkerStep(j)
      PROVE  (pc'[j] = "count" /\ id'[j] = v) <=> (pc[j] = "count" /\ id[j] = v)
  BY <1>4, OthersStep DEF Idle
<1>5. ASSUME \A i \in Worker : WorkerStep(i) /\ (Claim(i) \/ CountTask(i)) => id[i] # v
      PROVE  Counting(v)' = Counting(v)
  <2>1. ASSUME NEW j \in Worker, WorkerStep(j)
        PROVE  (pc'[j] = "count" /\ id'[j] = v) <=> (pc[j] = "count" /\ id[j] = v)
    BY <1>5, <2>1, WorkerMoves
  <2>2. \A j \in Worker :
          (pc'[j] = "count" /\ id'[j] = v) <=> (pc[j] = "count" /\ id[j] = v)
    BY <1>4, <2>1
  <2>3. QED
    BY <1>2, <2>2 DEF Counting
<1>6. ASSUME NEW i \in Worker, WorkerStep(i), Claim(i), id[i] = v
      PROVE  Cardinality(Counting(v)') = Cardinality(Counting(v)) + 1
  <2>1. /\ pc[i] # "count" /\ pc'[i] = "count" /\ id'[i] = v
        /\ \A j \in Worker \ {i} : ~ WorkerStep(j)
    BY <1>6, WorkerMoves
  <2>2. Counting(v)' = Counting(v) \cup {i} /\ i \notin Counting(v)
    BY <1>2, <1>4, <2>1 DEF Counting
  <2>3. QED
    BY <1>3, <2>2, FS_AddElement
<1>7. ASSUME NEW i \in Worker, WorkerStep(i), CountTask(i), id[i] = v
      PROVE  Cardinality(Counting(v)') = Cardinality(Counting(v)) - 1
  <2>1. /\ pc[i] = "count" /\ pc'[i] # "count"
        /\ \A j \in Worker \ {i} : ~ WorkerStep(j)
    BY <1>7, WorkerMoves
  <2>2. Counting(v)' = Counting(v) \ {i} /\ i \in Counting(v)
    BY <1>2, <1>4, <1>7, <2>1 DEF Counting
  <2>3. QED
    BY <1>3, <2>2, FS_RemoveElement
<1>8. QED
  BY <1>3, <1>5, <1>6, <1>7

\* The new table has enough tasks, and nobody has claimed any.
LEMMA SetLoopEnough ==
    ASSUME Types, Rest, [Next]_vars, SetLoop
    PROVE  Enough' /\ NothingClaimed'
<1>1. /\ Given /\ Worker = 0..(max_nw - 1) /\ LB \notin Worker /\ Worker \subseteq Thread
      /\ Worker' = Worker /\ max_nw' = max_nw
  BY AlwaysFixed, SameSets, GivenHolds DEF Types, Fixed
<1>2. main = "setloop" /\ pc' = pc
  BY DEF SetLoop, threadVars
<1>3. \A i \in Worker : pc'[i] # "count"
  BY <1>1, <1>2 DEF Rest, Resting
<1>4. \A v \in Worker : Counting(v)' = {}
  <2>1. \A v \in Worker : Counting(v)' = {i \in Worker : pc'[i] = "count" /\ id'[i] = v}
    BY <1>1 DEF Counting
  <2>2. QED
    BY <1>3, <2>1
<1>5. /\ data' \in [Worker -> Entry] /\ chunk' \in Nat
      /\ \A i \in Worker :
           /\ data'[i].ntask \in 0..height
           /\ data'[i].task.stop - data'[i].task.start <= data'[i].ntask * chunk'
      /\ nw' \in 1..max_nw
      /\ \A i \in nw'..(max_nw - 1) : data'[i].task = Span(0, 0)
  BY <1>1, NewTable
<1>6. ASSUME NEW v \in Worker
      PROVE  /\ EnoughFor(data[v], data[v].ntask - Cardinality(Counting(v)))'
             /\ (v >= nw => Empty(v))'
  <2>1. Cardinality(Counting(v)') = 0
    BY <1>4, FS_EmptySet
  <2>2. data'[v].ntask - Cardinality(Counting(v)') = data'[v].ntask
    BY <1>5, <2>1
  <2>3. data'[v].task.stop - data'[v].task.start <= data'[v].ntask * chunk'
    BY <1>5
  <2>4. EnoughFor(data[v], data[v].ntask - Cardinality(Counting(v)))'
    BY <2>2, <2>3 DEF EnoughFor
  <2>5. v >= nw' => data'[v].task = Span(0, 0)
    BY <1>1, <1>5
  <2>6. (v >= nw => Empty(v))'
    BY <2>5 DEF Empty, Span
  <2>7. QED
    BY <2>4, <2>6
<1>7. QED
  BY <1>1, <1>3, <1>6 DEF Enough, NothingClaimed

\* The tasks that are left stay enough: a task and its rows go together, those
\* of a claim a moment before it is counted.
LEMMA KeepsEnough ==
    Types /\ Rest /\ ClaimKnown /\ Enough /\ NothingClaimed /\ [Next]_vars
      => Enough' /\ NothingClaimed'
<1> SUFFICES ASSUME Types, Rest, ClaimKnown, Enough, NothingClaimed, [Next]_vars, ~ SetLoop
             PROVE  Enough' /\ NothingClaimed'
  BY SetLoopEnough
<1>1. /\ Given /\ data \in [Worker -> Entry] /\ id \in [Worker -> Worker]
      /\ task \in [Worker -> RowSpan]
      /\ Worker \subseteq Thread /\ Worker' = Worker
  BY AlwaysFixed, SameSets, GivenHolds DEF Types, TableTypes, ThreadTypes
<1>2. chunk' = chunk
  BY EndsStay
<1>3. main \in {"warmup", "setloop"} => main' \in {"warmup", "setloop"}
  BY DEF Next, Main, WaitWarmup, RunInline, SendFirst, Thaw, Wait, Stop, JoinThaw,
         JoinExit, Scheduler, ThreadRoutine, WorkerStep, Finished, vars
<1>4. nw' = nw
  BY DEF Next, Main, WaitWarmup, RunInline, SendFirst, Thaw, Wait, Stop, JoinThaw,
         JoinExit, Scheduler, ThreadRoutine, WorkerStep, Finished, loopVars, vars
<1>5. ASSUME NEW v \in Worker, main \notin {"warmup", "setloop"}
      PROVE  /\ EnoughFor(data[v], data[v].ntask - Cardinality(Counting(v)))'
             /\ (v >= nw => Empty(v))'
  <2> DEFINE e == data[v]
             f == data'[v]
             c == Cardinality(Counting(v))
             d == Cardinality(Counting(v)')
  <2>1. e \in Entry /\ e.ntask \in Int /\ c \in Nat
    BY <1>1, CountingSteps DEF Entry
  <2>2. EnoughFor(e, e.ntask - c) /\ (v >= nw => Empty(v))
    BY <1>5 DEF Enough
  <2>3. \A n \in Int : EnoughFor(e, n) => EnoughFor(Taken(e), n - 1)
    BY <1>1, <2>1, TakenFacts
  <2>4. Taken(e) \in Entry /\ Taken(e).ntask = e.ntask - 1
    BY <1>1, <2>1, TakenFacts
  <2>5. (v >= nw => Empty(v))'
    BY <1>4, <2>2, EmptyStays
  <2>6. \/ f = e /\ d = c
        \/ Dealing(v) /\ d = c
        \/ \E i \in Worker : Claiming(i, v) /\ d = c + 1
        \/ \E i \in Worker : Uncounting(i, v) /\ d = c - 1
    <3>1. CASE /\ f = e
               /\ \A i \in Worker : WorkerStep(i) /\ (Claim(i) \/ CountTask(i)) => id[i] # v
      BY <3>1, CountingSteps
    <3>2. CASE Dealing(v) /\ \A i \in Worker : ~ WorkerStep(i)
      BY <3>2, CountingSteps
    <3>3. ASSUME NEW i \in Worker, WorkerStep(i), Claiming(i, v)
          PROVE  d = c + 1
      BY <3>3, CountingSteps DEF Claiming
    <3>4. ASSUME NEW i \in Worker, WorkerStep(i), Uncounting(i, v)
          PROVE  d = c - 1
      BY <3>4, CountingSteps DEF Uncounting
    <3>5. QED
      BY <3>1, <3>2, <3>3, <3>4, TableSteps
  <2>7. EnoughFor(f, f.ntask - d)
    <3>1. CASE f = e /\ d = c
      BY <2>2, <3>1
    <3>2. CASE Dealing(v) /\ d = c
      <4>1. EnoughFor(Taken(e), (e.ntask - c) - 1)
        BY <2>1, <2>2, <2>3
      <4>2. (e.ntask - c) - 1 = Taken(e).ntask - c
        BY <2>1, <2>4
      <4>3. CASE f = Taken(e)
        BY <3>2, <4>1, <4>2, <4>3
      <4>4. CASE f = Taken(Taken(e))
        <5> DEFINE g == Taken(e)
        <5>1. g \in Entry /\ g.ntask \in Int /\ g.ntask - c \in Int
          BY <2>1, <2>4 DEF Entry
        <5>2. /\ EnoughFor(Taken(g), (g.ntask - c) - 1)
              /\ Taken(g).ntask = g.ntask - 1
          BY <1>1, <4>1, <4>2, <5>1, TakenFacts
        <5> HIDE DEF g
        <5>3. (g.ntask - c) - 1 = Taken(g).ntask - c
          BY <2>1, <5>1, <5>2
        <5>4. QED
          BY <3>2, <4>4, <5>2, <5>3 DEF g
      <4>5. QED
        BY <3>2, <4>3, <4>4 DEF Dealing
    <3>3. CASE \E i \in Worker : Claiming(i, v) /\ d = c + 1
      <4>1. f.ntask = e.ntask /\ f.task = Taken(e).task /\ d = c + 1
        BY <3>3 DEF Claiming
      <4>2. EnoughFor(Taken(e), (e.ntask - c) - 1)
        BY <2>1, <2>2, <2>3
      <4>3. f.ntask - d = (e.ntask - c) - 1
        BY <2>1, <4>1
      <4>4. QED
        BY <4>1, <4>2, <4>3 DEF EnoughFor
    <3>4. CASE \E i \in Worker : Uncounting(i, v) /\ d = c - 1
      <4>1. f.ntask = e.ntask - 1 /\ f.task = e.task /\ d = c - 1
        BY <3>4 DEF Uncounting
      <4>2. f.ntask - d = e.ntask - c
        BY <2>1, <4>1
      <4>3. QED
        BY <2>2, <4>1, <4>2 DEF EnoughFor
    <3>5. QED
      BY <2>6, <3>1, <3>2, <3>3, <3>4
  <2>8. EnoughFor(data[v], data[v].ntask - Cardinality(Counting(v)))'
        <=> EnoughFor(f, f.ntask - d)
    BY <1>2 DEF EnoughFor
  <2>9. QED
    BY <2>5, <2>7, <2>8
<1>6. ASSUME NEW i \in Worker, pc'[i] = "count", task'[i].start >= task'[i].stop
      PROVE  Empty(id[i])'
  <2>1. CASE ~ WorkerStep(i)
    <3>1. pc[i] = "count" /\ task'[i] = task[i] /\ id'[i] = id[i]
      BY <1>6, <2>1, OthersStep DEF Idle
    <3>2. Empty(id[i]) /\ id[i] \in Worker
      BY <1>1, <1>6, <3>1 DEF NothingClaimed
    <3> DEFINE v == id[i]
    <3>3. v \in Worker /\ data'[v].task.start >= data'[v].task.stop
      BY <3>2, EmptyStays DEF Empty
    <3>4. QED
      BY <3>1, <3>3 DEF Empty
  <2>2. CASE WorkerStep(i)
    <3>1. Claim(i) /\ id' = id /\ task' = task
      BY <1>6, <2>2, WorkerMoves DEF Claim
    <3> DEFINE v == id[i]
    <3>2. v \in Worker /\ data[v] \in Entry
      BY <1>1
    <3>3. Claiming(i, v)
      <4>1. ~ CountTask(i)
        BY <3>1 DEF Claim, CountTask
      <4>2. \A j \in Worker : WorkerStep(j) => j = i
        BY <2>2, WorkerMoves
      <4>3. ~ Uncounting(i, v)
        BY <4>1 DEF Uncounting
      <4>4. QED
        BY <2>2, <3>1, <3>2, <4>2, <4>3, TableSteps
    <3>4. main \notin {"warmup", "setloop"}
      <4>1. pc[i] = "claim"
        BY <3>1 DEF Claim
      <4>2. QED
        BY <1>1, <4>1 DEF Rest, Resting
    <3>5. chunk > 0
      BY <3>4 DEF Types, LoopTypes
    <3>6. Empty(v)
      <4> DEFINE e == data[v]
      <4>1. /\ task[i].start = e.task.start
            /\ task[i].stop = MinOf(e.task.start + chunk, e.task.stop)
        BY <1>1, <3>2, <3>3, TakenFacts DEF Claiming
      <4>2. e.task.start \in Int /\ e.task.stop \in Int /\ chunk \in Nat
        BY <1>1, <3>2 DEF Entry, RowSpan, Given
      <4>3. task[i].start >= task[i].stop
        BY <1>6, <3>1
      <4>4. QED
        BY <3>5, <4>1, <4>2, <4>3 DEF MinOf, Empty
    <3>7. data'[v].task.start >= data'[v].task.stop
      BY <3>2, <3>6, EmptyStays DEF Empty
    <3>8. QED
      BY <3>1, <3>7 DEF Empty
  <2>3. QED
    BY <2>1, <2>2
<1>7. QED
  BY <1>1, <1>3, <1>5, <1>6 DEF Enough, NothingClaimed
-----------------------------------------------------------------------------
(* Without scheduler the caller sends each worker its first task, thaws    *)
(* them one by one, k being the next, and waits until each is frozen.  A   *)
(* worker goes to freeze when it has found no row of its own is left.      *)
OwnWorker(i) ==
    /\ in[i] = <<>> \/ (i < nw /\ \E x \in RowSpan : in[i] = <<x>>)
    /\ pc[i] \notin {"frozen", "again", "pop"} => in[i] = <<>>
    /\ pc[i] \in {"victim", "look", "freeze"} => Empty(i)
    /\ pc[i] \in {"test", "load", "claim", "count"} /\ id[i] # i => Empty(i)
    /\ pc[i] # "leave"

OwnFrozen(i) ==
    /\ main = "thaw" /\ i >= k => pc[i] = "frozen" /\ freezing[i] = 1
    /\ (main = "wait" \/ i < k) /\ i < nw /\ frozen[i] =>
          Empty(i) /\ in[i] = <<>> /\ pc[i] = "frozen" /\ freezing[i] = 1
    /\ main = "wait" /\ i < k => frozen[i]

Own ==
    main \in {"thaw", "wait"} /\ ~ schedRunning =>
        \A i \in Worker : OwnWorker(i) /\ OwnFrozen(i)

\* The first tasks: one at most in the queue of each worker that is to run.
LEMMA FirstSent ==
    ASSUME Types, Rest, SendFirst, ~ schedRunning, NEW i \in Worker
    PROVE  OwnWorker(i)' /\ OwnFrozen(i)'
<1>1. /\ Given /\ Worker = 0..(max_nw - 1) /\ Worker \subseteq Thread
      /\ RowSpan' = RowSpan /\ data[i] \in Entry /\ in[i] \in Seq(Item) /\ nw \in Nat
  <2>1. Fixed
    BY DEF SendFirst, loopVars, Fixed
  <2>2. QED
    BY <2>1, SameSets, GivenHolds DEF Types, TableTypes, QueueTypes, LoopTypes
<1>2. main = "start" /\ main' = "thaw" /\ k' = k /\ nw' = nw /\ pc' = pc /\ freezing' = freezing
  BY DEF SendFirst, loopVars, freezeVars
<1>3. k = 0
  BY <1>2 DEF Types, MainTypes
<1>4. pc[i] = "frozen" /\ freezing[i] = 1 /\ in[i] = <<>>
  <2>1. Resting /\ i \in Thread
    BY <1>1, <1>2 DEF Rest
  <2>2. frozen[i] /\ freezing[i] = 1
    BY <1>2, <2>1 DEF Resting
  <2>3. QED
    BY <2>1, <2>2 DEF Resting
<1>5. in'[i] = <<>> \/ (i < nw /\ \E x \in RowSpan : in'[i] = <<x>>)
  <2> DEFINE x == NextTask(data[i])
  <2>1. sendTask(TRUE)
    BY DEF SendFirst
  <2>2. in' = [j \in Worker |->
                 in[j] \o (IF j \in Served(data) THEN <<NextTask(data[j])>> ELSE <<>>) \o <<>>]
    BY <2>1 DEF sendTask
  <2>3. in'[i] = <<>> \o (IF i \in Served(data) THEN <<x>> ELSE <<>>) \o <<>>
    BY <1>4, <2>2
  <2>4. i \in Served(data) => i < nw
    BY <1>1 DEF Served
  <2>5. x \in RowSpan
    BY <1>1, TaskFacts
  <2> HIDE DEF x
  <2>6. /\ <<>> \o <<x>> \o <<>> = <<x>>
        /\ <<>> \o <<>> \o <<>> = <<>>
    BY ONLY <2>5
  <2>7. QED
    BY <2>3, <2>4, <2>5, <2>6
<1>6. OwnWorker(i)'
  BY <1>1, <1>2, <1>4, <1>5 DEF OwnWorker
<1>7. OwnFrozen(i)'
  BY <1>1, <1>2, <1>3, <1>4 DEF OwnFrozen
<1>8. QED
  BY <1>6, <1>7

\* The steps of a worker that has been thawed.
LEMMA OwnSteps ==
    ASSUME Types, Inline, Enough, NothingClaimed, ClaimKnown, [Next]_vars,
           main \in {"thaw", "wait"}, ~ schedRunning,
           NEW i \in Worker, WorkerStep(i), OwnWorker(i), OwnFrozen(i)
    PROVE  OwnWorker(i)' /\ OwnFrozen(i)'
<1>1. /\ Given /\ Worker \subseteq Thread /\ Worker' = Worker /\ RowSpan' = RowSpan
      /\ pc \in [Thread -> Busy \cup Idle \cup {"svc", "collect"}]
      /\ data \in [Worker -> Entry] /\ in[i] \in Seq(Item) /\ in \in [Worker -> Seq(Item)]
      /\ id \in [Worker -> Worker] /\ task \in [Worker -> RowSpan]
      /\ i \in Thread /\ i \in Int /\ nw \in Int /\ k \in Int
  BY AlwaysFixed, SameSets, GivenHolds
     DEF Types, TableTypes, QueueTypes, ThreadTypes, LoopTypes, MainTypes, Given
<1>2. /\ nw' = nw /\ main' = main /\ k' = k /\ frozen' = frozen /\ freezing' = freezing
      /\ schedRunning' = schedRunning
  BY DEF WorkerStep, loopVars, freezeVars
<1>3. pc[i] \in Busy
  BY WorkerMoves
<1>4. ~ (main = "thaw" /\ i >= k) /\ (i < nw => ~ frozen[i])
  BY <1>1, <1>3 DEF OwnFrozen, Busy
<1>5. OwnFrozen(i)'
  BY <1>1, <1>2, <1>4 DEF OwnFrozen
<1>6. Empty(i) => Empty(i)'
  <2>1. ~ SetLoop
    BY DEF SetLoop
  <2>2. QED
    BY <2>1, EmptyStays
<1>7. \A l : Goto(i, l) => pc'[i] = l
  BY <1>1 DEF Goto
<1>8. CASE Pop(i)
  <2>1. pc[i] = "pop" /\ in[i] # <<>> /\ in' = [in EXCEPT ![i] = Tail(in[i])]
    BY <1>8 DEF Pop
  <2>2. PICK x \in RowSpan : in[i] = <<x>>
    BY <2>1 DEF OwnWorker
  <2>3. Head(in[i]) = x /\ Tail(in[i]) = <<>> /\ x # GO_OUT
    BY <1>1, <2>2, SpanNotGoOut
  <2>4. pc'[i] = "apply" /\ in'[i] = <<>>
    BY <1>1, <1>7, <1>8, <2>1, <2>3 DEF Pop
  <2>5. QED
    BY <1>5, <2>4 DEF OwnWorker
<1>9. CASE ~ Pop(i)
  <2>1. /\ in' = in
    BY <1>9 DEF WorkerStep, Apply, nextTaskConcurrent, TestTasks, LoadStart, Claim,
                ClaimFails, CountTask, ChooseVictim, LookAtVictim
  <2>2. pc[i] \in Busy \ {"pop"}
    BY <1>9 DEF WorkerStep, Apply, nextTaskConcurrent, TestTasks, LoadStart, Claim,
                ClaimFails, CountTask, ChooseVictim, LookAtVictim, Busy
  <2>3. in[i] = <<>> /\ in'[i] = <<>>
    BY <2>1, <2>2 DEF OwnWorker, Busy
  <2>4. /\ pc'[i] \in {"victim", "look", "freeze"} => Empty(i)
        /\ pc'[i] \in {"test", "load", "claim", "count"} /\ id'[i] # i => Empty(i)
        /\ pc'[i] # "leave"
    <3>1. CASE Apply(i)
      <4>1. pc'[i] = "test" /\ id' = [id EXCEPT ![i] = i]
        BY <1>7, <3>1 DEF Apply
      <4>2. QED
        BY <1>1, <4>1
    <3>2. CASE TestTasks(i)
      <4>1. /\ pc[i] = "test" /\ id' = id
            /\ pc'[i] = IF data[id[i]].ntask > 0 THEN "load" ELSE "victim"
        BY <1>7, <3>2 DEF TestTasks
      <4>2. CASE data[id[i]].ntask > 0
        BY <4>1, <4>2 DEF OwnWorker
      <4>3. CASE ~ (data[id[i]].ntask > 0)
        <5>1. id[i] # i => Empty(i)
          BY <4>1 DEF OwnWorker
        <5>2. id[i] = i => Empty(i)
          <6> DEFINE e == data[i]
                     c == Cardinality(Counting(i))
          <6>1. e \in Entry /\ c \in Nat /\ EnoughFor(e, e.ntask - c)
            BY <1>1, CountingSteps DEF Enough
          <6>2. id[i] = i => ~ (e.ntask > 0)
            BY <4>3
          <6>3. e.ntask \in Int /\ e.task.start \in Int /\ e.task.stop \in Int /\ chunk \in Nat
            BY <1>1, <6>1 DEF Entry, RowSpan, Given
          <6> HIDE DEF e, c
          <6>4. ASSUME NEW n \in Int, n <= 0
                PROVE  n * chunk <= 0
            BY ONLY <6>3, <6>4, Times
          <6>5. ~ (e.ntask > 0) => (e.ntask - c) * chunk <= 0 /\ (e.ntask - c) * chunk \in Int
            BY <6>1, <6>3, <6>4
          <6>6. ~ (e.ntask > 0) => e.task.start >= e.task.stop
            BY <6>1, <6>3, <6>5 DEF EnoughFor
          <6>7. QED
            BY <6>2, <6>6 DEF Empty, e
        <5>3. QED
          BY <4>1, <4>3, <5>1, <5>2
      <4>4. QED
        BY <4>2, <4>3
    <3>3. CASE LoadStart(i) \/ Claim(i) \/ ClaimFails(i)
      <4>1. /\ id' = id /\ pc[i] \in {"load", "claim"} /\ pc'[i] \in {"claim", "count", "test"}
        BY <1>7, <3>3 DEF LoadStart, Claim, ClaimFails
      <4>2. QED
        BY <4>1 DEF OwnWorker
    <3>4. CASE CountTask(i)
      <4>1. /\ id' = id /\ pc[i] = "count"
            /\ pc'[i] = IF task[i].start < task[i].stop THEN "apply" ELSE "victim"
        BY <1>7, <3>4 DEF CountTask
      <4>2. task[i].start \in Int /\ task[i].stop \in Int
        BY <1>1 DEF RowSpan
      <4>3. CASE task[i].start < task[i].stop
        BY <4>1, <4>3
      <4>4. CASE ~ (task[i].start < task[i].stop)
        <5>1. Empty(id[i])
          BY <4>1, <4>2, <4>4 DEF NothingClaimed
        <5>2. Empty(i)
          BY <4>1, <5>1 DEF OwnWorker
        <5>3. QED
          BY <4>1, <4>4, <5>2
      <4>5. QED
        BY <4>3, <4>4
    <3>5. CASE ChooseVictim(i) \/ LookAtVictim(i)
      <4>1. pc[i] \in {"victim", "look"} /\ pc'[i] \in {"freeze", "look", "test"}
        BY <1>7, <3>5 DEF ChooseVictim, LookAtVictim
      <4>2. QED
        BY <4>1 DEF OwnWorker
    <3>6. QED
      BY <1>9, <3>1, <3>2, <3>3, <3>4, <3>5 DEF WorkerStep, nextTaskConcurrent
  <2>5. QED
    BY <1>5, <1>6, <2>3, <2>4 DEF OwnWorker
<1>10. QED
  BY <1>8, <1>9

\* Where no scheduler runs only worker i takes tasks from its queue.
LEMMA QueueStays ==
    ASSUME Types, Inline, [Next]_vars, main \in {"thaw", "wait"}, ~ schedRunning,
           NEW i \in Worker, ~ WorkerStep(i)
    PROVE  in'[i] = in[i]
<1>1. in \in [Worker -> Seq(Item)] /\ LB \in Thread /\ LB >= nw
  BY GivenHolds DEF Types, QueueTypes, LoopTypes, Given
<1>2. pc[LB] = "frozen"
  <2>1. ~ stp[LB] /\ Quiet(LB)
    BY <1>1 DEF Inline
  <2>2. QED
    BY <2>1 DEF Quiet
<1>3. ~ Scheduler
  BY <1>2 DEF Scheduler, FirstSvc, Schedule
<1>4. ASSUME NEW j \in Worker, WorkerStep(j)
      PROVE  in'[i] = in[i]
  <2>1. j # i
    BY <1>4
  <2>2. in' = in \/ \E x : in' = [in EXCEPT ![j] = x]
    BY <1>4 DEF WorkerStep, Pop, Apply, nextTaskConcurrent, TestTasks, LoadStart, Claim,
         ClaimFails, CountTask, ChooseVictim, LookAtVictim
  <2>3. QED
    BY <1>1, <2>1, <2>2
<1>5. Main \/ (\E t \in Thread : ThreadRoutine(t)) \/ Finished \/ UNCHANGED vars => in' = in
  BY DEF Main, WaitWarmup, SetLoop, RunInline, SendFirst, Thaw, Wait, Stop, JoinThaw,
         JoinExit, ThreadRoutine, Finished, threadVars, vars
<1>6. QED
  BY <1>3, <1>4, <1>5 DEF Next

\* A worker that freezes has no rows left; only one that is thawed wakes up.
LEMMA OwnThread ==
    ASSUME Types, Inline, ClaimKnown, [Next]_vars, main \in {"thaw", "wait"}, ~ schedRunning,
           NEW i \in Worker, ThreadRoutine(i), OwnWorker(i), OwnFrozen(i)
    PROVE  OwnWorker(i)' /\ OwnFrozen(i)'
<1>1. /\ Worker \subseteq Thread /\ LB \notin Worker /\ RowSpan' = RowSpan
      /\ pc \in [Thread -> Busy \cup Idle \cup {"svc", "collect"}]
      /\ freezing \in [Thread -> 0..2] /\ frozen \in [Thread -> BOOLEAN]
      /\ i \in Thread /\ i # LB
  BY AlwaysFixed, SameSets, GivenHolds DEF Types, ThreadTypes, FreezeTypes
<1>2. /\ nw' = nw /\ main' = main /\ k' = k /\ schedRunning' = schedRunning
      /\ in' = in /\ id' = id /\ data' = data
  BY DEF ThreadRoutine, loopVars, tableVars
<1>3. Empty(i)' <=> Empty(i)
  BY <1>2 DEF Empty
<1>4. ~ stp[i]
  BY <1>1 DEF Inline
<1>5. \A l : Goto(i, l) => pc'[i] = l
  BY <1>1 DEF Goto
<1>6. CASE Freeze(i) /\ freezing[i] = 1
  <2>1. /\ pc[i] = "freeze" /\ frozen' = [frozen EXCEPT ![i] = TRUE]
        /\ pc'[i] = "frozen" /\ freezing' = freezing
    BY <1>4, <1>5, <1>6 DEF Freeze
  <2>2. Empty(i) /\ in[i] = <<>>
    BY <2>1 DEF OwnWorker
  <2>3. frozen'[i] /\ freezing'[i] = 1
    BY <1>1, <1>6, <2>1
  <2>4. OwnWorker(i)'
    BY <1>1, <1>2, <2>1, <2>2 DEF OwnWorker
  <2>5. OwnFrozen(i)'
    BY <1>2, <1>3, <2>1, <2>2, <2>3 DEF OwnFrozen
  <2>6. QED
    BY <2>4, <2>5
<1>7. CASE (Freeze(i) /\ freezing[i] # 1) \/ Wake(i)
  <2>1. /\ pc[i] \in {"freeze", "frozen"} /\ freezing[i] # 1 /\ pc'[i] = "again"
        /\ frozen' = frozen
    BY <1>4, <1>5, <1>7 DEF Freeze, Wake
  <2>2. OwnWorker(i)'
    BY <1>1, <1>2, <2>1 DEF OwnWorker
  <2>3. OwnFrozen(i)'
    BY <1>2, <1>3, <2>1 DEF OwnFrozen
  <2>4. QED
    BY <2>2, <2>3
<1>8. CASE Again(i)
  <2>1. pc[i] = "again" /\ pc'[i] = "pop" /\ frozen' = frozen /\ freezing' = freezing
    BY <1>1, <1>4, <1>5, <1>8 DEF Again
  <2>2. OwnWorker(i)'
    BY <1>1, <1>2, <2>1 DEF OwnWorker
  <2>3. OwnFrozen(i)'
    BY <1>2, <1>3, <2>1 DEF OwnFrozen
  <2>4. QED
    BY <2>2, <2>3
<1>9. ~ Leave(i)
  BY DEF Leave, OwnWorker
<1>10. QED
  BY <1>6, <1>7, <1>8, <1>9 DEF ThreadRoutine

\* What the others, and the caller above all, do with a worker.
LEMMA OwnOthers ==
    ASSUME Types, Rest, Inline, ClaimKnown, [Next]_vars, main \in {"thaw", "wait"},
           main' \in {"thaw", "wait"}, ~ schedRunning,
           NEW i \in Worker, ~ WorkerStep(i), ~ ThreadRoutine(i), OwnWorker(i), OwnFrozen(i)
    PROVE  OwnWorker(i)' /\ OwnFrozen(i)'
<1>1. /\ Given /\ Worker = 0..(max_nw - 1) /\ Worker \subseteq Thread /\ RowSpan' = RowSpan
      /\ freezing \in [Thread -> 0..2] /\ frozen \in [Thread -> BOOLEAN]
      /\ i \in Thread /\ i \in Nat /\ nw \in Nat /\ k \in Nat
  BY AlwaysFixed, SameSets, GivenHolds
     DEF Types, FreezeTypes, LoopTypes, MainTypes, Given
<1>2. pc'[i] = pc[i] /\ id'[i] = id[i] /\ in'[i] = in[i]
  BY OthersStep, QueueStays
<1>3. ~ SetLoop
  BY DEF SetLoop
<1>4. nw' = nw
  BY <1>3 DEF Next, Main, WaitWarmup, RunInline, SendFirst, Thaw, Wait, Stop, JoinThaw,
         JoinExit, Scheduler, ThreadRoutine, WorkerStep, Finished, loopVars, vars
<1>5. Empty(i) => Empty(i)'
  BY <1>3, EmptyStays
<1>6. OwnWorker(i)'
  BY <1>1, <1>2, <1>4, <1>5 DEF OwnWorker
<1>7. CASE Thaw
  <2>1. /\ main = "thaw" /\ freezing' = [freezing EXCEPT ![k] = 2]
        /\ frozen' = [frozen EXCEPT ![k] = FALSE] /\ k < nw /\ k \in Thread
    BY <1>1, <1>7 DEF Thaw, Thawed, Types, MainTypes, LastThawed, LoopTypes, Given, Thread, Worker
  <2>2. \/ k = nw - 1 /\ k' = 0 /\ main' = "wait"
        \/ k' = k + 1 /\ main' = "thaw"
    BY <1>7 DEF Thaw, LastThawed
  <2>3. CASE i = k
    <3>1. ~ frozen'[i]
      BY <1>1, <2>1, <2>3
    <3>2. ~ (main' = "thaw" /\ i >= k') /\ ~ (main' = "wait" /\ i < k')
      BY <1>1, <2>2, <2>3
    <3>3. QED
      BY <1>6, <3>1, <3>2 DEF OwnFrozen
  <2>4. CASE i # k
    <3>1. freezing'[i] = freezing[i] /\ (frozen'[i] <=> frozen[i])
      BY <1>1, <2>1, <2>4
    <3>2. main' = "thaw" /\ i >= k' => i >= k
      BY <1>1, <2>2
    <3>3. (main' = "wait" \/ i < k') /\ i < nw => i < k
      BY <1>1, <2>2, <2>4
    <3>4. ~ (main' = "wait" /\ i < k')
      BY <1>1, <2>2
    <3>5. OwnFrozen(i)'
      BY <1>2, <1>4, <1>5, <2>1, <3>1, <3>2, <3>3, <3>4 DEF OwnFrozen
    <3>6. QED
      BY <1>6, <3>5
  <2>5. QED
    BY <2>3, <2>4
<1>8. CASE ~ Thaw
  <2>1. /\ freezing'[i] = freezing[i] /\ (frozen'[i] <=> frozen[i])
    <3>1. ASSUME NEW t \in Thread, ThreadRoutine(t)
          PROVE  /\ freezing'[i] = freezing[i] /\ (frozen'[i] <=> frozen[i])
      <4>1. t # i
        BY <3>1
      <4>2. freezing' = freezing \/ \E x : freezing' = [freezing EXCEPT ![t] = x]
        BY <3>1 DEF ThreadRoutine, Freeze, Wake, Again, Leave
      <4>3. frozen' = frozen \/ \E x : frozen' = [frozen EXCEPT ![t] = x]
        BY <3>1 DEF ThreadRoutine, Freeze, Wake, Again, Leave
      <4>4. QED
        BY <1>1, <4>1, <4>2, <4>3
    <3>2. ~ (\E t \in Thread : ThreadRoutine(t)) => freezing' = freezing /\ frozen' = frozen
      BY <1>8 DEF Next, Main, WaitWarmup, SetLoop, RunInline, SendFirst, Wait, Stop, JoinThaw,
         JoinExit, Scheduler, WorkerStep, Finished, freezeVars, vars
    <3>3. QED
      BY <3>1, <3>2
  <2>2. \/ main' = main /\ k' = k
        \/ main = "wait" /\ main' = "wait" /\ frozen[k] /\ k' = k + 1
    <3>1. CASE Wait
      BY <3>1 DEF Wait
    <3>2. CASE ~ Wait
      BY <1>8, <3>2 DEF Next, Main, WaitWarmup, SetLoop, RunInline, SendFirst, Stop, JoinThaw,
         JoinExit, Scheduler, ThreadRoutine, WorkerStep, Finished, vars
    <3>3. QED
      BY <3>1, <3>2
  <2>3. OwnFrozen(i)'
    <3>1. CASE main' = main /\ k' = k
      BY <1>2, <1>4, <1>5, <2>1, <3>1 DEF OwnFrozen
    <3>2. CASE main = "wait" /\ main' = "wait" /\ frozen[k] /\ k' = k + 1
      <4>1. i < k' => i < k \/ i = k
        BY <1>1, <3>2
      <4>2. QED
        BY <1>2, <1>4, <1>5, <2>1, <3>2, <4>1 DEF OwnFrozen
    <3>3. QED
      BY <2>2, <3>1, <3>2
  <2>4. QED
    BY <1>6, <2>3
<1>9. QED
  BY <1>7, <1>8

\* Without scheduler a worker freezes only when it has no rows of its own.
LEMMA KeepsOwn ==
    /\ Types /\ Rest /\ Inline /\ ClaimKnown /\ Enough /\ NothingClaimed /\ Own
    /\ [Next]_vars
    => Own'
<1>a. [Next]_vars => Worker' = Worker
  BY AlwaysFixed, SameSets
<1> SUFFICES ASSUME Types, Rest, Inline, ClaimKnown, Enough, NothingClaimed, Own, [Next]_vars,
                    main' \in {"thaw", "wait"}, ~ schedRunning', NEW i \in Worker
             PROVE  OwnWorker(i)' /\ OwnFrozen(i)'
  BY <1>a DEF Own
<1>1. CASE main \in {"thaw", "wait"}
  <2>1. ~ SetLoop
    BY <1>1 DEF SetLoop
  <2>2. schedRunning' = schedRunning
    BY <2>1 DEF Next, Main, WaitWarmup, RunInline, SendFirst, Thaw, Wait, Stop, JoinThaw,
         JoinExit, Scheduler, ThreadRoutine, WorkerStep, Finished, loopVars, vars
  <2>3. OwnWorker(i) /\ OwnFrozen(i) /\ ~ schedRunning
    BY <1>1, <2>2 DEF Own
  <2>4. QED
    BY <1>1, <2>3, OwnSteps, OwnThread, OwnOthers
<1>2. CASE main \notin {"thaw", "wait"}
  <2>1. SendFirst
    BY <1>2 DEF Next, Main, WaitWarmup, SetLoop, RunInline, SendFirst, Thaw, Wait, Stop, JoinThaw,
         JoinExit, Scheduler, ThreadRoutine, WorkerStep, Finished, vars
  <2>2. ~ schedRunning
    BY <2>1 DEF SendFirst, loopVars
  <2>3. QED
    BY <2>1, <2>2, FirstSent
<1>3. QED
  BY <1>1, <1>2
-----------------------------------------------------------------------------
(* Where the scheduler runs it counts totaltasks down, once for each task  *)
(* that comes back.  Weight(i) is what worker i still has of them: in its  *)
(* entry of the table, in its queue, in hand, or on their way back.        *)
Spans(q) == {j \in DOMAIN q : q[j] # GO_OUT}
WeightOf(e, q, place, back) ==
    e.ntask + Cardinality(Spans(q)) + (IF place = "apply" THEN 1 ELSE 0) + back
Weight(i) == WeightOf(data[i], in[i], pc[i], out[i])
Weights == [i \in Worker |-> Weight(i)]

\* Where a worker is only when it claims tasks itself.
Seeking == {"test", "load", "claim", "count", "victim", "look"}

Account ==
    /\ main \in {"warmup", "setloop"} => \A i \in Worker : out[i] = 0
    /\ main \notin {"warmup", "setloop"} /\ schedRunning =>
         /\ \A i \in Worker : pc[i] \notin Seeking /\ data[i].ntask >= 0
         /\ Numbered(Weights, totaltasks)

\* How a queue's number of tasks changes.
LEMMA SpansFinite ==
    ASSUME NEW q \in Seq(Item)
    PROVE  IsFiniteSet(Spans(q)) /\ Cardinality(Spans(q)) \in Nat
<1>1. Spans(q) \in SUBSET (1..Len(q)) /\ Len(q) \in Nat
  BY DEF Spans
<1>2. IsFiniteSet(1..Len(q))
  BY <1>1, FS_Interval
<1>3. QED
  BY <1>1, <1>2, FS_Subset, FS_CardinalityType

\* A push adds a task to the queue, unless it is the end of the loop.
LEMMA SpansAppend ==
    ASSUME NEW q \in Seq(Item), NEW x \in Item
    PROVE  Cardinality(Spans(Append(q, x))) =
             Cardinality(Spans(q)) + (IF x = GO_OUT THEN 0 ELSE 1)
<1> DEFINE n == Len(q) + 1
           s == Append(q, x)
<1>1. /\ n \in Nat /\ DOMAIN q = 1..Len(q) /\ Len(q) \in Nat /\ DOMAIN s = 1..n
      /\ \A j \in 1..Len(q) : s[j] = q[j]
      /\ s[n] = x
  BY AppendProperties
<1> HIDE DEF s
<1>2. \A j \in DOMAIN s : j \in DOMAIN q \/ j = n
  BY <1>1
<1>3. CASE x = GO_OUT
  <2>1. Spans(s) = Spans(q)
    BY <1>1, <1>2, <1>3 DEF Spans
  <2>2. QED
    BY <1>3, <2>1, SpansFinite DEF s
<1>4. CASE x # GO_OUT
  <2>1. Spans(s) = Spans(q) \cup {n} /\ n \notin Spans(q)
    BY <1>1, <1>2, <1>4 DEF Spans
  <2>2. QED
    BY <1>4, <2>1, SpansFinite, FS_AddElement DEF s
<1>5. QED
  BY <1>3, <1>4

\* A pop takes a task from it, unless it takes the end of the loop.
LEMMA SpansTail ==
    ASSUME NEW q \in Seq(Item), q # <<>>
    PROVE  Cardinality(Spans(Tail(q))) =
             Cardinality(Spans(q)) - (IF Head(q) = GO_OUT THEN 0 ELSE 1)
<1> DEFINE s == Tail(q)
           T == Spans(s)
           P == Spans(q) \ {1}
           f == [j \in T |-> j + 1]
<1>1. /\ Len(q) \in Nat \ {0} /\ DOMAIN q = 1..Len(q) /\ Head(q) = q[1]
      /\ s \in Seq(Item) /\ DOMAIN s = 1..(Len(q) - 1)
      /\ \A j \in 1..(Len(q) - 1) : s[j] = q[j + 1]
  BY EmptySeq, HeadTailProperties
<1> HIDE DEF s
<1>2. f \in Bijection(T, P)
  <2>1. f \in [T -> P]
    BY <1>1 DEF Spans
  <2>2. \A i, j \in T : f[i] = f[j] => i = j
    BY <1>1 DEF Spans
  <2>3. \A j \in P : j - 1 \in T /\ f[j - 1] = j
    BY <1>1 DEF Spans
  <2>4. \A j \in P : \E i \in T : f[i] = j
    BY <2>3
  <2>5. QED
    BY <2>1, <2>2, <2>4 DEF Bijection, Injection, Surjection, IsInjective
<1>3. Cardinality(P) = Cardinality(T)
  <2>1. IsFiniteSet(T)
    BY <1>1, SpansFinite
  <2>2. QED
    BY <1>2, <2>1, FS_Bijection DEF ExistsBijection
<1>4. Cardinality(P) = Cardinality(Spans(q)) - (IF Head(q) = GO_OUT THEN 0 ELSE 1)
  <2>1. 1 \in Spans(q) <=> Head(q) # GO_OUT
    BY <1>1 DEF Spans
  <2>2. IsFiniteSet(Spans(q)) /\ Cardinality(Spans(q)) \in Nat
    BY SpansFinite
  <2>3. Cardinality(P) = IF 1 \in Spans(q) THEN Cardinality(Spans(q)) - 1
                         ELSE Cardinality(Spans(q))
    BY <2>2, FS_RemoveElement
  <2>4. QED
    BY <2>1, <2>2, <2>3
<1>5. QED
  BY <1>3, <1>4 DEF s

\* A task handed out is one less in the entry and one more in the queue.
LEMMA HandedOutCount ==
    ASSUME Given, NEW e \in Entry, NEW q \in Seq(Item), NEW f, NEW s,
           HandedOut(e, q, f, s)
    PROVE  /\ f \in Entry /\ s \in Seq(Item) /\ f.ntask >= 0
           /\ f.ntask + Cardinality(Spans(s)) = e.ntask + Cardinality(Spans(q))
<1>1. f \in Entry /\ s \in Seq(Item) /\ f.ntask = e.ntask - 1 /\ e.ntask > 0
  BY HandedOutTypes
<1>2. NextTask(e) \in Item /\ NextTask(e) # GO_OUT
  BY TaskFacts DEF Item
<1>3. Cardinality(Spans(s)) = Cardinality(Spans(q)) + 1 /\ Cardinality(Spans(q)) \in Nat
  BY <1>2, SpansAppend, SpansFinite DEF HandedOut
<1>4. e.ntask \in Int
  BY DEF Entry
<1>5. QED
  BY <1>1, <1>3, <1>4

\* Numbers stay as they are when the worker has less to number, ...
LEMMA NumberedLess ==
    ASSUME NEW w \in [Worker -> Int], NEW x \in [Worker -> Int], NEW T \in Int,
           Numbered(w, T), \A i \in Worker : x[i] <= w[i]
    PROVE  Numbered(x, T)
<1>1. PICK base \in [Worker -> Nat] :
        /\ \A i \in Worker : base[i] + w[i] <= T
        /\ \A i, j \in Worker : i < j => base[i] + w[i] <= base[j]
  BY DEF Numbered
<1>2. \A i \in Worker : base[i] \in Nat /\ w[i] \in Int /\ x[i] \in Int
  BY <1>1
<1>3. /\ \A i \in Worker : base[i] + x[i] <= T
      /\ \A i, j \in Worker : i < j => base[i] + x[i] <= base[j]
  BY <1>1, <1>2
<1>4. QED
  BY <1>3 DEF Numbered

\* ... and those above a task that is done go down by one.
LEMMA NumberedDone ==
    ASSUME Given, NEW w \in [Worker -> Int], NEW x \in [Worker -> Int], NEW T \in Int,
           Numbered(w, T), NEW a \in Worker, w[a] >= 1, x[a] <= w[a] - 1,
           \A i \in Worker : w[i] >= 0 /\ x[i] <= w[i]
    PROVE  Numbered(x, T - 1)
<1>1. PICK base \in [Worker -> Nat] :
        /\ \A i \in Worker : base[i] + w[i] <= T
        /\ \A i, j \in Worker : i < j => base[i] + w[i] <= base[j]
  BY DEF Numbered
<1>2. \A i \in Worker : i \in Int /\ base[i] \in Nat /\ w[i] \in Int /\ x[i] \in Int
                        /\ w[i] >= 0 /\ x[i] <= w[i]
  <2>1. \A i \in Worker : i \in Int
    BY DEF Worker, Given
  <2> TAKE i \in Worker
  <2>2. QED
    BY <1>1, <2>1
<1> DEFINE rest == [i \in Worker |-> IF i > a THEN base[i] - 1 ELSE base[i]]
<1>3. ASSUME NEW i \in Worker
      PROVE  /\ rest[i] \in Nat /\ rest[i] = IF i > a THEN base[i] - 1 ELSE base[i]
             /\ rest[i] + x[i] <= T - 1
  <2>1. /\ i \in Int /\ base[i] \in Nat /\ w[i] \in Int /\ x[i] \in Int
        /\ w[i] >= 0 /\ x[i] <= w[i]
        /\ a \in Int /\ base[a] \in Nat /\ w[a] \in Int /\ x[a] \in Int
        /\ base[i] + w[i] <= T /\ base[a] + w[a] <= T
        /\ i < a => base[i] + w[i] <= base[a]
        /\ a < i => base[a] + w[a] <= base[i]
        /\ w[a] >= 1 /\ x[a] <= w[a] - 1 /\ T \in Int
    BY <1>1, <1>2
  <2>2. rest[i] = IF i > a THEN base[i] - 1 ELSE base[i]
    OBVIOUS
  <2> HIDE DEF rest
  <2>3. CASE i < a
    BY ONLY <2>1, <2>2, <2>3
  <2>4. CASE i = a
    BY ONLY <2>1, <2>2, <2>4
  <2>5. CASE i > a
    BY ONLY <2>1, <2>2, <2>5
  <2>6. QED
    BY <2>1, <2>3, <2>4, <2>5
<1>4. rest \in [Worker -> Nat]
  BY <1>3
<1> HIDE DEF rest
<1>5. ASSUME NEW i \in Worker, NEW j \in Worker, i < j
      PROVE  rest[i] + x[i] <= rest[j]
  <2>1. /\ i \in Int /\ base[i] \in Nat /\ w[i] \in Int /\ x[i] \in Int
        /\ w[i] >= 0 /\ x[i] <= w[i] /\ j \in Int /\ base[j] \in Nat
        /\ a \in Int /\ base[a] \in Nat /\ w[a] \in Int /\ x[a] \in Int
        /\ base[i] + w[i] <= base[j]
        /\ i < a => base[i] + w[i] <= base[a]
        /\ a < j => base[a] + w[a] <= base[j]
        /\ w[a] >= 1 /\ x[a] <= w[a] - 1
    BY <1>1, <1>2, <1>5
  <2>2. /\ rest[i] = IF i > a THEN base[i] - 1 ELSE base[i]
        /\ rest[j] = IF j > a THEN base[j] - 1 ELSE base[j]
    BY <1>3
  <2>3. CASE j <= a
    BY ONLY <1>5, <2>1, <2>2, <2>3
  <2>4. CASE j > a /\ i < a
    BY ONLY <2>1, <2>2, <2>4
  <2>5. CASE j > a /\ i = a
    BY ONLY <2>1, <2>2, <2>5
  <2>6. CASE j > a /\ i > a
    BY ONLY <2>1, <2>2, <2>6
  <2>7. QED
    BY <2>1, <2>3, <2>4, <2>5, <2>6
<1>6. QED
  BY <1>3, <1>4, <1>5 DEF Numbered

\* What a worker weighs is a number, and what takes part in it.
LEMMA WeightFacts ==
    ASSUME Types, Fixed
    PROVE  /\ Given /\ Worker' = Worker
           /\ data \in [Worker -> Entry] /\ in \in [Worker -> Seq(Item)]
           /\ out \in [Worker -> Nat] /\ totaltasks \in Int
           /\ \A i \in Worker :
                /\ data[i] \in Entry /\ data[i].ntask \in Int /\ out[i] \in Nat
                /\ in[i] \in Seq(Item) /\ Cardinality(Spans(in[i])) \in Nat
                /\ Weight(i)' = WeightOf(data'[i], in'[i], pc'[i], out'[i])
                /\ Weight(i) \in Int
           /\ Weights \in [Worker -> Int] /\ Weights' = [i \in Worker |-> Weight(i)']
<1>1. /\ Given /\ Worker' = Worker
      /\ data \in [Worker -> Entry] /\ in \in [Worker -> Seq(Item)]
      /\ out \in [Worker -> Nat] /\ totaltasks \in Int
  BY SameSets, GivenHolds DEF Types, TableTypes, QueueTypes
<1>2. ASSUME NEW i \in Worker
      PROVE  /\ data[i] \in Entry /\ data[i].ntask \in Int /\ out[i] \in Nat
             /\ in[i] \in Seq(Item) /\ Cardinality(Spans(in[i])) \in Nat
             /\ Weight(i)' = WeightOf(data'[i], in'[i], pc'[i], out'[i])
             /\ Weight(i) \in Int
  <2>1. /\ data[i] \in Entry /\ data[i].ntask \in Int /\ out[i] \in Nat
        /\ in[i] \in Seq(Item) /\ Cardinality(Spans(in[i])) \in Nat
    BY <1>1, SpansFinite DEF Entry
  <2>2. Weight(i)' = WeightOf(data'[i], in'[i], pc'[i], out'[i])
    BY DEF Weight
  <2>3. Weight(i) \in Int
    BY <2>1 DEF Weight, WeightOf
  <2>4. QED
    BY <2>1, <2>2, <2>3
<1>3. Weights \in [Worker -> Int] /\ Weights' = [i \in Worker |-> Weight(i)']
  BY <1>1, <1>2 DEF Weights
<1>4. QED
  BY <1>1, <1>2, <1>3

\* A worker that no step of its own or the scheduler's touches weighs the same.
LEMMA WeightSame ==
    ASSUME Types, [Next]_vars, NEW i \in Worker, ~ WorkerStep(i)
    PROVE  /\ pc[i] \notin Seeking => pc'[i] \notin Seeking
           /\ pc'[i] = "apply" <=> pc[i] = "apply"
           /\ data'[i] = data[i] /\ in'[i] = in[i] /\ out'[i] = out[i] => Weight(i)' = Weight(i)
<1>1. pc'[i] = "apply" <=> pc[i] = "apply"
  BY OthersStep DEF Idle
<1>2. pc[i] \notin Seeking => pc'[i] \notin Seeking
  BY OthersStep DEF Idle, Seeking
<1>3. Weight(i)' = WeightOf(data'[i], in'[i], pc'[i], out'[i])
  BY DEF Weight
<1>4. QED
  BY <1>1, <1>2, <1>3 DEF Weight, WeightOf

\* A worker's own steps: the task it takes from its queue it has in hand, and
\* when F is done it is on its way back.
LEMMA WeightWorker ==
    ASSUME Types, [Next]_vars, schedRunning, NEW i \in Worker, WorkerStep(i),
           pc[i] \notin Seeking
    PROVE  /\ pc'[i] \notin Seeking /\ Weight(i)' = Weight(i) /\ data' = data
           /\ \A j \in Worker \ {i} : in'[j] = in[j] /\ out'[j] = out[j]
<1>1. /\ data[i].ntask \in Int /\ out \in [Worker -> Nat] /\ out[i] \in Nat
      /\ in \in [Worker -> Seq(Item)] /\ in[i] \in Seq(Item) /\ Cardinality(Spans(in[i])) \in Nat
      /\ Weight(i)' = WeightOf(data'[i], in'[i], pc'[i], out'[i])
  BY AlwaysFixed, WeightFacts
<1>2. \A l : Goto(i, l) => pc'[i] = l
  <2>1. pc \in [Thread -> Busy \cup Idle \cup {"svc", "collect"}] /\ i \in Thread
    BY GivenHolds DEF Types, ThreadTypes
  <2>2. QED
    BY <2>1 DEF Goto
<1>3. Pop(i) \/ Apply(i)
  BY DEF WorkerStep, nextTaskConcurrent, TestTasks, LoadStart, Claim,
         ClaimFails, CountTask, ChooseVictim, LookAtVictim, Seeking
<1>4. CASE Pop(i)
  <2> DEFINE q == in[i]
  <2>1. /\ pc[i] = "pop" /\ q # <<>> /\ in' = [in EXCEPT ![i] = Tail(q)]
        /\ data' = data /\ out' = out
        /\ pc'[i] = IF Head(q) = GO_OUT THEN "freeze" ELSE "apply"
    BY <1>2, <1>4 DEF Pop
  <2>2. in'[i] = Tail(q)
    BY <1>1, <2>1
  <2>3. Cardinality(Spans(Tail(q))) = Cardinality(Spans(q)) - (IF Head(q) = GO_OUT THEN 0 ELSE 1)
    BY <1>1, <2>1, SpansTail
  <2>4. \A j \in Worker \ {i} : in'[j] = in[j] /\ out'[j] = out[j]
    BY <1>1, <2>1
  <2> HIDE DEF q
  <2> DEFINE m == data[i].ntask
             c == Cardinality(Spans(q))
             d == Cardinality(Spans(Tail(q)))
             o == out[i]
  <2>5. /\ Weight(i)' = m + d + (IF pc'[i] = "apply" THEN 1 ELSE 0) + o
        /\ Weight(i) = m + c + 0 + o
    BY <1>1, <2>1, <2>2 DEF Weight, WeightOf, q
  <2>6. c \in Nat /\ m \in Int /\ o \in Nat /\ d = c - (IF Head(q) = GO_OUT THEN 0 ELSE 1)
    BY <1>1, <2>3 DEF q
  <2> HIDE DEF m, c, d, o
  <2>7. Weight(i)' = Weight(i)
    <3>1. CASE Head(q) = GO_OUT
      <4>1. /\ Weight(i)' = m + d + 0 + o /\ d = c - 0
        BY <2>1, <2>5, <2>6, <3>1
      <4>2. QED
        BY ONLY <2>5, <2>6, <4>1
    <3>2. CASE Head(q) # GO_OUT
      <4>1. /\ Weight(i)' = m + d + 1 + o /\ d = c - 1
        BY <2>1, <2>5, <2>6, <3>2
      <4>2. QED
        BY ONLY <2>5, <2>6, <4>1
    <3>3. QED
      BY <3>1, <3>2
  <2>8. QED
    BY <2>1, <2>4, <2>7 DEF Seeking
<1>5. CASE Apply(i)
  <2>1. /\ pc[i] = "apply" /\ pc'[i] = "pop" /\ in' = in /\ data' = data
        /\ out' = [out EXCEPT ![i] = @ + 1]
    BY <1>2, <1>5 DEF Apply
  <2>2. out'[i] = out[i] + 1 /\ \A j \in Worker \ {i} : out'[j] = out[j]
    BY <1>1, <2>1
  <2> DEFINE m == data[i].ntask
             c == Cardinality(Spans(in[i]))
             o == out[i]
  <2>3. /\ Weight(i)' = m + c + 0 + (o + 1) /\ Weight(i) = m + c + 1 + o
    BY <1>1, <2>1, <2>2 DEF Weight, WeightOf
  <2>4. m \in Int /\ c \in Nat /\ o \in Nat
    BY <1>1
  <2> HIDE DEF m, c, o
  <2>5. Weight(i)' = Weight(i)
    BY ONLY <2>3, <2>4
  <2>6. QED
    BY <2>1, <2>2, <2>5 DEF Seeking
<1>6. QED
  BY <1>3, <1>4, <1>5

\* The scheduler: handing out changes no weight, a task that comes back does,
\* and totaltasks with it.
LEMMA WeightFirst ==
    ASSUME Types, Account, [Next]_vars, main \notin {"warmup", "setloop"}, schedRunning,
           Scheduler, FirstSvc, NEW i \in Worker, ~ WorkerStep(i)
    PROVE  Weight(i)' = Weight(i) /\ data'[i].ntask >= 0 /\ totaltasks' = totaltasks
<1>1. /\ Given /\ data \in [Worker -> Entry] /\ in \in [Worker -> Seq(Item)]
      /\ eossent \in [Worker -> BOOLEAN]
      /\ data[i] \in Entry /\ data[i].ntask \in Int /\ out[i] \in Nat
      /\ in[i] \in Seq(Item) /\ Cardinality(Spans(in[i])) \in Nat
      /\ Weight(i)' = WeightOf(data'[i], in'[i], pc'[i], out'[i])
  BY AlwaysFixed, WeightFacts DEF Types, QueueTypes
<1>2. data[i].ntask >= 0
  BY DEF Account
<1>3. out' = out /\ totaltasks' = totaltasks
  BY DEF FirstSvc
<1>4. pc'[i] = "apply" <=> pc[i] = "apply"
  BY WeightSame
<1>5. /\ data'[i].ntask + Cardinality(Spans(in'[i])) = data[i].ntask + Cardinality(Spans(in[i]))
      /\ data'[i].ntask >= 0 /\ data'[i].ntask \in Int /\ Cardinality(Spans(in'[i])) \in Nat
  <2>1. CASE totaltasks = 0
    <3>1. data' = data /\ in'[i] = Append(in[i], GO_OUT)
      BY <2>1 DEF FirstSvc
    <3>2. Cardinality(Spans(Append(in[i], GO_OUT))) = Cardinality(Spans(in[i]))
      BY <1>1, SpansAppend DEF Item
    <3>3. QED
      BY <1>1, <1>2, <3>1, <3>2
  <2>2. CASE totaltasks # 0
    <3>1. sendTask(FALSE)
      BY <2>2 DEF FirstSvc
    <3>2. Untouched(i) \/ DealtOne(i) \/ DealtTwo(i)
      BY <1>1, <3>1, SendTaskFacts
    <3> DEFINE f == data'[i]
               s == in'[i]
    <3>3. CASE Untouched(i)
      BY <1>1, <1>2, <3>3 DEF Untouched
    <3>4. CASE DealtOne(i)
      <4>1. HandedOut(data[i], in[i], f, s)
        BY <3>4 DEF DealtOne
      <4> HIDE DEF f, s
      <4>2. /\ f \in Entry /\ s \in Seq(Item) /\ f.ntask >= 0
            /\ f.ntask + Cardinality(Spans(s)) = data[i].ntask + Cardinality(Spans(in[i]))
        BY <1>1, <4>1, HandedOutCount
      <4>3. f.ntask \in Int /\ Cardinality(Spans(s)) \in Nat
        BY <4>2, SpansFinite DEF Entry
      <4>4. QED
        BY <4>2, <4>3 DEF f, s
    <3>5. CASE DealtTwo(i)
      <4>1. PICK e \in Entry, q \in Seq(Item) :
              HandedOut(data[i], in[i], e, q) /\ HandedOut(e, q, f, s)
        BY <3>5 DEF DealtTwo
      <4> HIDE DEF f, s
      <4>2. e.ntask + Cardinality(Spans(q)) = data[i].ntask + Cardinality(Spans(in[i]))
        BY <1>1, <4>1, HandedOutCount
      <4>3. /\ f \in Entry /\ s \in Seq(Item) /\ f.ntask >= 0
            /\ f.ntask + Cardinality(Spans(s)) = e.ntask + Cardinality(Spans(q))
        BY <1>1, <4>1, HandedOutCount
      <4>4. f.ntask \in Int /\ Cardinality(Spans(s)) \in Nat
        BY <4>3, SpansFinite DEF Entry
      <4>5. QED
        BY <4>2, <4>3, <4>4 DEF f, s
    <3>6. QED
      BY <3>2, <3>3, <3>4, <3>5
  <2>3. QED
    BY <2>1, <2>2
<1>6. Weight(i)' = Weight(i)
  <2> DEFINE m == data'[i].ntask
             c == Cardinality(Spans(in'[i]))
  <2>1. Weight(i)' = m + c + (IF pc'[i] = "apply" THEN 1 ELSE 0) + out[i]
    BY <1>1, <1>3 DEF WeightOf
  <2>2. m + c = data[i].ntask + Cardinality(Spans(in[i])) /\ m \in Int /\ c \in Nat
    BY <1>5
  <2> HIDE DEF m, c
  <2>3. QED
    BY <1>1, <1>4, <2>1, <2>2 DEF Weight, WeightOf
<1>7. QED
  BY <1>3, <1>5, <1>6

\* The scheduler counts a task when it comes back: one worker weighs one less.
LEMMA WeightSchedule ==
    ASSUME Types, Account, [Next]_vars, main \notin {"warmup", "setloop"}, schedRunning,
           \A j \in Worker : ~ WorkerStep(j), NEW i \in Worker, Schedule(i)
    PROVE  /\ totaltasks' = totaltasks - 1
           /\ \A j \in Worker : data'[j].ntask >= 0
           /\ \E a \in Worker :
                /\ Weight(a) >= 1 /\ Weight(a)' = Weight(a) - 1
                /\ \A j \in Worker \ {a} : Weight(j)' = Weight(j)
<1>1. /\ Given /\ data \in [Worker -> Entry] /\ in \in [Worker -> Seq(Item)]
      /\ out \in [Worker -> Nat]
      /\ \A j \in Worker :
           /\ data[j] \in Entry /\ data[j].ntask \in Int /\ out[j] \in Nat
           /\ in[j] \in Seq(Item) /\ Cardinality(Spans(in[j])) \in Nat
           /\ Weight(j)' = WeightOf(data'[j], in'[j], pc'[j], out'[j])
  BY AlwaysFixed, WeightFacts
<1>2. \A j \in Worker : data[j].ntask >= 0
  BY DEF Account
<1>3. /\ out[i] > 0 /\ out' = [out EXCEPT ![i] = @ - 1] /\ totaltasks' = totaltasks - 1
  BY DEF Schedule
<1>4. PICK v \in Worker : v = Victim(i)
  BY VictimFacts
<1> DEFINE x == NextTask(data[v])
           e == Taken(data[v])
<1>5. \/ /\ data[v].ntask > 0
         /\ data' = [data EXCEPT ![v] = e] /\ in' = [in EXCEPT ![i] = Append(in[i], x)]
      \/ /\ data' = data
         /\ in' = in \/ in' = [in EXCEPT ![i] = Append(in[i], GO_OUT)]
  BY <1>4 DEF Schedule, SendGoOut, Send
<1>6. \A j \in Worker : pc'[j] = "apply" <=> pc[j] = "apply"
  BY WeightSame
<1>7. x \in Item /\ x # GO_OUT /\ e.ntask = data[v].ntask - 1
  BY <1>1, <1>4, TaskFacts DEF Item
<1> HIDE DEF x, e
<1>8. \A j \in Worker : out'[j] = out[j] - (IF j = i THEN 1 ELSE 0)
  BY <1>1, <1>3
<1> DEFINE Ap(j) == IF pc[j] = "apply" THEN 1 ELSE 0
           c(j) == Cardinality(Spans(in[j]))
           d(j) == Cardinality(Spans(in'[j]))
<1>9. ASSUME NEW j \in Worker
      PROVE  /\ Weight(j) = data[j].ntask + c(j) + Ap(j) + out[j]
             /\ Weight(j)' = data'[j].ntask + d(j) + Ap(j) + out'[j]
             /\ Ap(j) \in {0, 1} /\ c(j) \in Nat
  BY <1>1, <1>6 DEF Weight, WeightOf
<1> HIDE DEF Ap
<1>10. ASSUME NEW j \in Worker, NEW m \in Int, NEW n \in Int,
              data'[j].ntask = data[j].ntask + m, d(j) = c(j) + n
       PROVE  Weight(j)' = Weight(j) + m + n - (IF j = i THEN 1 ELSE 0)
  <2>1. /\ data[j].ntask \in Int /\ c(j) \in Nat /\ Ap(j) \in {0, 1} /\ out[j] \in Nat
        /\ out'[j] = out[j] - (IF j = i THEN 1 ELSE 0)
        /\ Weight(j) = data[j].ntask + c(j) + Ap(j) + out[j]
        /\ Weight(j)' = data'[j].ntask + d(j) + Ap(j) + out'[j]
    BY <1>1, <1>8, <1>9
  <2> HIDE DEF c, d
  <2>2. CASE j = i
    BY ONLY <1>10, <2>1, <2>2
  <2>3. CASE j # i
    BY ONLY <1>10, <2>1, <2>3
  <2>4. QED
    BY <2>2, <2>3
<1>11. ASSUME NEW j \in Worker, data[j].ntask >= 1 \/ j = i
       PROVE  Weight(j) >= 1
  <2>1. /\ data[j].ntask \in Int /\ c(j) \in Nat /\ Ap(j) \in {0, 1} /\ out[j] \in Nat
        /\ data[j].ntask >= 0 /\ (j = i => out[j] > 0)
        /\ Weight(j) = data[j].ntask + c(j) + Ap(j) + out[j]
    BY <1>1, <1>2, <1>3, <1>9
  <2> HIDE DEF c
  <2>2. QED
    BY ONLY <1>11, <2>1
<1>12. \A j \in Worker : Weight(j) \in Int
  BY AlwaysFixed, WeightFacts
<1>13. \A j \in Worker \ {i} : d(j) = c(j)
  <2>1. \A j \in Worker \ {i} : in'[j] = in[j]
    BY <1>1, <1>5
  <2>2. QED
    BY <2>1
<1>14. CASE /\ data[v].ntask > 0
            /\ data' = [data EXCEPT ![v] = e] /\ in' = [in EXCEPT ![i] = Append(in[i], x)]
  <2>1. /\ data'[v].ntask = data[v].ntask - 1
        /\ \A j \in Worker \ {v} : data'[j].ntask = data[j].ntask
    BY <1>1, <1>4, <1>7, <1>14
  <2>2. d(i) = c(i) + 1
    <3>1. in'[i] = Append(in[i], x)
      BY <1>1, <1>14
    <3>2. QED
      BY <1>1, <1>7, <3>1, SpansAppend
  <2>3. \A j \in Worker : data'[j].ntask >= 0
    BY <1>1, <1>2, <1>4, <1>14, <2>1
  <2>4. /\ \A j \in Worker : data'[j].ntask = data[j].ntask + (IF j = v THEN -1 ELSE 0)
        /\ \A j \in Worker : d(j) = c(j) + (IF j = i THEN 1 ELSE 0)
    <3>1. \A j \in Worker : c(j) \in Nat /\ data[j].ntask \in Int
      BY <1>1
    <3> HIDE DEF c, d
    <3>2. QED
      BY <1>4, <1>13, <2>1, <2>2, <3>1
  <2> HIDE DEF c, d
  <2>5. ASSUME NEW j \in Worker
        PROVE  Weight(j)' = Weight(j) + (IF j = v THEN -1 ELSE 0) + (IF j = i THEN 1 ELSE 0)
                              - (IF j = i THEN 1 ELSE 0)
    <3>1. (IF j = v THEN -1 ELSE 0) \in Int /\ (IF j = i THEN 1 ELSE 0) \in Int
      OBVIOUS
    <3>2. QED
      BY <1>10, <2>4, <3>1
  <2>6. Weight(v)' = Weight(v) - 1 /\ \A j \in Worker \ {v} : Weight(j)' = Weight(j)
    BY <1>4, <1>12, <2>5
  <2>7. Weight(v) >= 1
    BY <1>1, <1>4, <1>11, <1>14
  <2>8. QED
    BY <1>3, <1>4, <2>3, <2>6, <2>7
<1>15. CASE /\ data' = data
            /\ in' = in \/ in' = [in EXCEPT ![i] = Append(in[i], GO_OUT)]
  <2>1. d(i) = c(i)
    <3>1. in'[i] = in[i] \/ in'[i] = Append(in[i], GO_OUT)
      BY <1>1, <1>15
    <3>2. Cardinality(Spans(Append(in[i], GO_OUT))) = Cardinality(Spans(in[i]))
      BY <1>1, SpansAppend DEF Item
    <3>3. QED
      BY <3>1, <3>2
  <2>2. \A j \in Worker : data'[j].ntask = data[j].ntask + 0 /\ d(j) = c(j) + 0
    <3>1. \A j \in Worker : c(j) \in Nat /\ data[j].ntask \in Int
      BY <1>1
    <3> HIDE DEF c, d
    <3>2. QED
      BY <1>13, <1>15, <2>1, <3>1
  <2> HIDE DEF c, d
  <2>3. \A j \in Worker : Weight(j)' = Weight(j) + 0 + 0 - (IF j = i THEN 1 ELSE 0)
    BY <1>10, <2>2
  <2>4. Weight(i)' = Weight(i) - 1 /\ \A j \in Worker \ {i} : Weight(j)' = Weight(j)
    BY <1>12, <2>3
  <2>5. Weight(i) >= 1
    BY <1>11
  <2>6. QED
    BY <1>2, <1>3, <1>15, <2>4, <2>5
<1>16. QED
  BY <1>5, <1>14, <1>15

\* The table is set up: totaltasks are all in it.
LEMMA AccountSet ==
    ASSUME Types, Rest, Account, [Next]_vars, SetLoop
    PROVE  Account'
<1>1. /\ Given /\ Worker' = Worker /\ Worker \subseteq Thread /\ LB \notin Worker
      /\ \A i \in Worker : Weight(i)' = WeightOf(data'[i], in'[i], pc'[i], out'[i])
      /\ Weights' = [i \in Worker |-> Weight(i)']
  BY AlwaysFixed, WeightFacts, GivenHolds DEF Types
<1>2. main = "setloop" /\ pc' = pc /\ in' = in /\ out' = out /\ main' \in {"inline", "start"}
  BY DEF SetLoop, threadVars
<1>3. \A i \in Worker : pc[i] = "frozen" /\ in[i] = <<>> /\ out[i] = 0
  BY <1>1, <1>2 DEF Rest, Resting, Account
<1>4. /\ data' \in [Worker -> Entry] /\ \A i \in Worker : data'[i].ntask \in 0..height
      /\ schedRunning' => Numbered([i \in Worker |-> data'[i].ntask], totaltasks')
  BY <1>1, NewTable
<1>5. \A i \in Worker : Weight(i)' = data'[i].ntask
  <2>1. Spans(<<>>) = {}
    BY DEF Spans
  <2>2. Cardinality(Spans(<<>>)) = 0
    BY <2>1, FS_EmptySet
  <2>3. \A i \in Worker : data'[i].ntask \in Int
    BY <1>4 DEF Entry
  <2> TAKE i \in Worker
  <2>4. Weight(i)' = data'[i].ntask + 0 + 0 + 0
    BY <1>1, <1>2, <1>3, <2>2 DEF WeightOf
  <2>5. QED
    BY <2>3, <2>4
<1>6. Weights' = [i \in Worker |-> data'[i].ntask]
  BY <1>1, <1>5
<1>7. schedRunning' => Numbered(Weights', totaltasks')
  BY <1>4, <1>6
<1>8. Numbered(Weights', totaltasks') <=> Numbered(Weights, totaltasks)'
  BY <1>1 DEF Numbered
<1>9. \A i \in Worker : pc'[i] \notin Seeking /\ data'[i].ntask >= 0
  BY <1>2, <1>3, <1>4 DEF Seeking
<1>10. QED
  BY <1>1, <1>2, <1>7, <1>8, <1>9 DEF Account

\* The tasks that remain stay numbered below totaltasks.
LEMMA KeepsAccount ==
    Types /\ Rest /\ Inline /\ Account /\ [Next]_vars => Account'
<1> SUFFICES ASSUME Types, Rest, Inline, Account, [Next]_vars, ~ SetLoop PROVE Account'
  BY AccountSet
<1>1. /\ Given /\ Worker' = Worker /\ Worker \subseteq Thread /\ LB \notin Worker
      /\ data \in [Worker -> Entry] /\ out \in [Worker -> Nat] /\ in \in [Worker -> Seq(Item)]
      /\ totaltasks \in Int
      /\ Weights \in [Worker -> Int] /\ Weights' = [i \in Worker |-> Weight(i)']
      /\ \A i \in Worker : Weight(i) \in Int
  BY AlwaysFixed, WeightFacts, GivenHolds DEF Types
<1>2. Numbered(Weights', totaltasks') <=> Numbered(Weights, totaltasks)'
  BY <1>1 DEF Numbered
<1>3. main \in {"warmup", "setloop"} <=> main' \in {"warmup", "setloop"}
  BY DEF Next, Main, WaitWarmup, RunInline, SendFirst, Thaw, Wait, Stop, JoinThaw,
         JoinExit, Scheduler, ThreadRoutine, WorkerStep, Finished, vars
<1>4. CASE main \in {"warmup", "setloop"}
  <2>1. \A i \in Worker : pc[i] \in {"freeze", "frozen", "pop"} /\ pc[LB] # "collect" /\ out[i] = 0
    <3>1. LB \in Thread
      BY GivenHolds DEF Types
    <3>2. QED
      BY <1>1, <1>4, <3>1 DEF Rest, Resting, Account
  <2>2. out' = out
    <3>1. \A i \in Worker : WorkerStep(i) => out' = out
      BY <2>1 DEF WorkerStep, Pop, Apply, nextTaskConcurrent, TestTasks, LoadStart, Claim,
         ClaimFails, CountTask, ChooseVictim, LookAtVictim
    <3>2. Scheduler => out' = out
      BY <2>1 DEF Scheduler, FirstSvc, Schedule
    <3>3. QED
      BY <3>1, <3>2 DEF Next, Main, WaitWarmup, SetLoop, RunInline, SendFirst, Thaw, Wait, Stop,
         JoinThaw, JoinExit, ThreadRoutine, Finished, threadVars, vars
  <2>3. QED
    BY <1>1, <1>3, <1>4, <2>1, <2>2 DEF Account
<1>5. CASE main \notin {"warmup", "setloop"} /\ schedRunning
  <2>1. /\ \A i \in Worker : pc[i] \notin Seeking /\ data[i].ntask >= 0
        /\ Numbered(Weights, totaltasks)
    BY <1>5 DEF Account
  <2>2. ASSUME NEW i \in Worker, WorkerStep(i)
        PROVE  /\ \A j \in Worker : pc'[j] \notin Seeking /\ data'[j].ntask >= 0
                                    /\ Weight(j)' = Weight(j)
               /\ totaltasks' = totaltasks
    <3>1. /\ pc'[i] \notin Seeking /\ Weight(i)' = Weight(i) /\ data' = data
          /\ \A j \in Worker \ {i} : in'[j] = in[j] /\ out'[j] = out[j]
      BY <1>5, <2>1, <2>2, WeightWorker
    <3>2. ASSUME NEW j \in Worker \ {i}
          PROVE  pc'[j] \notin Seeking /\ Weight(j)' = Weight(j)
      <4>1. ~ WorkerStep(j)
        BY <2>2, WorkerMoves
      <4>2. QED
        BY <2>1, <3>1, <4>1, WeightSame
    <3>3. totaltasks' = totaltasks
      BY <2>2 DEF WorkerStep, schedVars
    <3>4. QED
      BY <2>1, <3>1, <3>2, <3>3
  <2>3. ASSUME \A j \in Worker : Weight(j)' = Weight(j), totaltasks' = totaltasks
        PROVE  Numbered(Weights', totaltasks')
    <3>1. Weights' = Weights
      BY <1>1, <2>3 DEF Weights
    <3>2. QED
      BY <2>1, <2>3, <3>1
  <2>4. /\ \A j \in Worker : pc'[j] \notin Seeking /\ data'[j].ntask >= 0
        /\ Numbered(Weights', totaltasks')
    <3>1. CASE \E i \in Worker : WorkerStep(i)
      BY <2>2, <2>3, <3>1
    <3>2. ASSUME \A i \in Worker : ~ WorkerStep(i)
          PROVE  \A j \in Worker : pc'[j] \notin Seeking
      BY <2>1, <3>2, WeightSame
    <3>3. CASE Scheduler /\ FirstSvc /\ \A i \in Worker : ~ WorkerStep(i)
      <4>1. \A j \in Worker : Weight(j)' = Weight(j) /\ data'[j].ntask >= 0
        BY <1>5, <3>3, WeightFirst
      <4>2. totaltasks' = totaltasks
        BY <3>3 DEF FirstSvc
      <4>3. QED
        BY <2>3, <3>2, <3>3, <4>1, <4>2
    <3>4. ASSUME NEW i \in Worker, Schedule(i), \A j \in Worker : ~ WorkerStep(j)
          PROVE  /\ \A j \in Worker : data'[j].ntask >= 0
                 /\ Numbered(Weights', totaltasks')
      <4>1. /\ totaltasks' = totaltasks - 1
            /\ \A j \in Worker : data'[j].ntask >= 0
        BY <1>5, <3>4, WeightSchedule
      <4>2. PICK a \in Worker :
              /\ Weight(a) >= 1 /\ Weight(a)' = Weight(a) - 1
              /\ \A j \in Worker \ {a} : Weight(j)' = Weight(j)
        BY <1>5, <3>4, WeightSchedule
      <4> DEFINE w == Weights
                 x == Weights'
      <4>3. \A j \in Worker : w[j] = Weight(j) /\ x[j] = Weight(j)'
        BY <1>1 DEF Weights
      <4>4. \A j \in Worker : Weight(j)' \in Int /\ Weight(j)' <= Weight(j)
        <5> TAKE j \in Worker
        <5>1. Weight(j) \in Int
          BY <1>1
        <5>2. CASE j = a
          BY <4>2, <5>1, <5>2
        <5>3. CASE j # a
          BY <4>2, <5>1, <5>3
        <5>4. QED
          BY <5>2, <5>3
      <4>5. x \in [Worker -> Int] /\ w \in [Worker -> Int]
        BY <1>1, <4>4
      <4>6. \A j \in Worker : w[j] >= 0
        <5> TAKE j \in Worker
        <5>1. /\ data[j].ntask \in Int /\ data[j].ntask >= 0
              /\ Cardinality(Spans(in[j])) \in Nat /\ out[j] \in Nat
          BY <2>1, AlwaysFixed, WeightFacts
        <5>2. w[j] = data[j].ntask + Cardinality(Spans(in[j]))
                       + (IF pc[j] = "apply" THEN 1 ELSE 0) + out[j]
          BY <4>3 DEF Weight, WeightOf
        <5> HIDE DEF w
        <5>3. QED
          BY <5>1, <5>2
      <4> HIDE DEF w, x
      <4>7. w[a] >= 1 /\ x[a] <= w[a] - 1
        BY <1>1, <4>2, <4>3, <4>4
      <4>8. \A j \in Worker : w[j] >= 0 /\ x[j] <= w[j]
        BY <4>3, <4>4, <4>6
      <4>9. Numbered(w, totaltasks)
        BY <2>1 DEF w
      <4>10. Numbered(x, totaltasks - 1)
        BY <1>1, <4>5, <4>7, <4>8, <4>9, NumberedDone
      <4>11. QED
        BY <4>1, <4>10 DEF x
    <3>5. CASE ~ Scheduler /\ \A i \in Worker : ~ WorkerStep(i)
      <4>1. data' = data /\ in' = in /\ out' = out /\ totaltasks' = totaltasks
        BY <1>5, <3>5 DEF Next, Main, WaitWarmup, RunInline, SendFirst, Thaw, Wait, Stop,
           JoinThaw, JoinExit, ThreadRoutine, Finished, tableVars, schedVars, threadVars, vars
      <4>2. \A j \in Worker : Weight(j)' = Weight(j) /\ data'[j].ntask >= 0
        BY <2>1, <3>5, <4>1, WeightSame
      <4>3. QED
        BY <2>3, <3>2, <3>5, <4>1, <4>2
    <3>6. QED
      BY <3>1, <3>2, <3>3, <3>4, <3>5 DEF Scheduler
  <2>5. QED
    BY <1>1, <1>2, <1>3, <1>5, <2>4 DEF Account
<1>6. CASE main \notin {"warmup", "setloop"} /\ ~ schedRunning
  <2>1. schedRunning' = schedRunning
    BY DEF Next, Main, WaitWarmup, RunInline, SendFirst, Thaw, Wait, Stop, JoinThaw,
         JoinExit, Scheduler, ThreadRoutine, WorkerStep, Finished, loopVars, vars
  <2>2. QED
    BY <1>3, <1>6, <2>1 DEF Account
<1>7. QED
  BY <1>4, <1>5, <1>6

\* No worker has more of the tasks than are counted.
LEMMA WeightBound ==
    ASSUME Types, Account, main \notin {"warmup", "setloop"}, schedRunning, NEW i \in Worker
    PROVE  /\ totaltasks \in Int
           /\ data[i].ntask \in Int /\ data[i].ntask >= 0 /\ data[i].ntask <= totaltasks
           /\ Cardinality(Spans(in[i])) \in Nat /\ Cardinality(Spans(in[i])) <= totaltasks
           /\ out[i] \in Nat /\ out[i] <= totaltasks
           /\ pc[i] = "apply" => totaltasks >= 1
<1>1. /\ data[i] \in Entry /\ in[i] \in Seq(Item) /\ out[i] \in Nat /\ totaltasks \in Int
  BY DEF Types, TableTypes, QueueTypes
<1>2. PICK base \in [Worker -> Nat] : \A j \in Worker : base[j] + Weights[j] <= totaltasks
  BY DEF Account, Numbered
<1> DEFINE e == data[i].ntask
           c == Cardinality(Spans(in[i]))
           a == IF pc[i] = "apply" THEN 1 ELSE 0
           o == out[i]
           b == base[i]
<1>3. b \in Nat /\ b + (e + c + a + o) <= totaltasks
  BY <1>2 DEF Weights, Weight, WeightOf
<1>4. /\ e \in Int /\ e >= 0 /\ c \in Nat /\ a \in {0, 1} /\ o \in Nat
      /\ (pc[i] = "apply" => a = 1)
  BY <1>1, SpansFinite DEF Account, Entry
<1> HIDE DEF e, c, a, o, b
<1>5. /\ e <= totaltasks /\ c <= totaltasks /\ o <= totaltasks /\ a <= totaltasks
  BY ONLY <1>1, <1>3, <1>4
<1>6. QED
  BY <1>1, <1>4, <1>5 DEF e, c, o
-----------------------------------------------------------------------------
(* totaltasks is at least 0 and counted down by the scheduler only, which  *)
(* has frozen again when it is 0: the caller waits for that and no more.   *)
Counted ==
    /\ totaltasks \in 0..(height + max_nw)
    /\ main \in {"start", "thaw", "wait"} /\ schedRunning =>
         /\ pc[LB] # "leave"
         /\ pc[LB] = "freeze" => totaltasks = 0
         /\ (main = "wait" \/ (main = "thaw" /\ k > 0)) /\ frozen[LB] => totaltasks = 0

\* The scheduler is at work only when the loop has one.
LEMMA SchedulerRuns ==
    ASSUME Types, Rest, Inline, pc[LB] = "collect"
    PROVE  main \notin {"warmup", "setloop"} /\ schedRunning
<1>1. LB \in Thread /\ LB >= nw
  BY GivenHolds DEF Types, LoopTypes, Given
<1>2. main \notin {"warmup", "setloop"}
  BY <1>1 DEF Rest, Resting
<1>3. CASE ~ schedRunning
  BY <1>1, <1>2, <1>3 DEF Inline, Quiet
<1>4. QED
  BY <1>2, <1>3

\* The scheduler stops counting at 0, and freezes there.
LEMMA KeepsCounted ==
    Types /\ Rest /\ Inline /\ Account /\ Counted /\ [Next]_vars => Counted'
<1> SUFFICES ASSUME Types, Rest, Inline, Account, Counted, [Next]_vars PROVE Counted'
  OBVIOUS
<1>1. /\ Given /\ LB \in Thread /\ LB \notin Worker /\ Worker \subseteq Thread
      /\ LB' = LB /\ max_nw' = max_nw /\ height' = height /\ LB = max_nw
      /\ pc \in [Thread -> Busy \cup Idle \cup {"svc", "collect"}]
      /\ frozen \in [Thread -> BOOLEAN] /\ freezing \in [Thread -> 0..2]
      /\ totaltasks \in Int /\ nw \in 1..max_nw /\ k \in Int
  BY AlwaysFixed, SameSets, GivenHolds
     DEF Types, Fixed, ThreadTypes, FreezeTypes, LoopTypes, MainTypes
<1>2. ASSUME NEW i \in Worker, Schedule(i)
      PROVE  /\ totaltasks' = totaltasks - 1 /\ totaltasks >= 1 /\ pc[LB] = "collect"
             /\ main \notin {"warmup", "setloop"} /\ schedRunning
  <2>1. pc[LB] = "collect" /\ out[i] > 0 /\ totaltasks' = totaltasks - 1
    BY <1>2 DEF Schedule
  <2>2. main \notin {"warmup", "setloop"} /\ schedRunning
    BY <2>1, SchedulerRuns
  <2>3. out[i] \in Nat /\ out[i] <= totaltasks
    BY <2>2, WeightBound
  <2>4. QED
    BY <1>1, <2>1, <2>2, <2>3
<1>3. totaltasks' \in 0..(height + max_nw)
  <2>1. CASE SetLoop
    <3>1. totaltasks' \in 1..(height + max_nw)
      BY <1>1, <2>1, NewTable
    <3>2. QED
      BY <1>1, <3>1 DEF Given
  <2>2. CASE \E i \in Worker : Schedule(i)
    BY <1>1, <1>2, <2>2 DEF Counted, Given
  <2>3. CASE ~ SetLoop /\ ~ \E i \in Worker : Schedule(i)
    <3>1. totaltasks' = totaltasks
      BY <2>3 DEF Next, Main, WaitWarmup, RunInline, SendFirst, Thaw, Wait, Stop, JoinThaw,
           JoinExit, Scheduler, FirstSvc, ThreadRoutine, WorkerStep, Finished, schedVars, vars
    <3>2. QED
      BY <3>1 DEF Counted
  <2>4. QED
    BY <2>1, <2>2, <2>3
<1> DEFINE After == /\ pc[LB] # "leave"
                    /\ pc[LB] = "freeze" => totaltasks = 0
                    /\ (main = "wait" \/ (main = "thaw" /\ k > 0)) /\ frozen[LB] => totaltasks = 0
<1>4. ASSUME main' \in {"start", "thaw", "wait"}, schedRunning'
      PROVE  After'
  <2>1. CASE SetLoop
    <3>1. pc' = pc /\ main = "setloop" /\ main' \in {"inline", "start"}
      BY <2>1 DEF SetLoop, threadVars
    <3>2. pc[LB] = "frozen"
      BY <1>1, <3>1 DEF Rest, Resting
    <3>3. QED
      BY <1>1, <3>1, <3>2
  <2>2. CASE ~ SetLoop
    <3>1. /\ main \in {"start", "thaw", "wait"} /\ schedRunning /\ ~ WaitWarmup /\ ~ RunInline
          /\ ~ Wait /\ ~ Stop /\ ~ JoinThaw /\ ~ JoinExit
      <4>1. schedRunning' = schedRunning
        BY <2>2 DEF Next, Main, WaitWarmup, RunInline, SendFirst, Thaw, Wait, Stop, JoinThaw,
             JoinExit, Scheduler, ThreadRoutine, WorkerStep, Finished, loopVars, vars
      <4>2. /\ ~ WaitWarmup /\ ~ RunInline /\ ~ Stop /\ ~ JoinThaw /\ ~ JoinExit
        BY <1>4 DEF WaitWarmup, RunInline, Stop, JoinThaw, JoinExit
      <4>3. ~ Wait
        BY <1>4, <4>1 DEF Wait
      <4>4. main \in {"start", "thaw", "wait"}
        BY <1>4, <2>2, <4>2, <4>3 DEF Next, Main, SendFirst, Thaw,
             Scheduler, ThreadRoutine, WorkerStep, Finished, vars
      <4>5. QED
        BY <1>4, <4>1, <4>2, <4>3, <4>4
    <3>2. After
      BY <3>1 DEF Counted
    <3>3. CASE SendFirst
      <4>1. /\ main = "start" /\ main' = "thaw" /\ k' = k /\ pc' = pc /\ totaltasks' = totaltasks
        BY <3>3 DEF SendFirst
      <4>2. k = 0
        BY <4>1 DEF Types, MainTypes
      <4>3. QED
        BY <1>1, <3>2, <4>1, <4>2
    <3>4. CASE Thaw
      <4>1. /\ main = "thaw" /\ pc' = pc /\ totaltasks' = totaltasks
            /\ frozen' = [frozen EXCEPT ![Thawed] = FALSE]
        BY <3>4 DEF Thaw, schedVars, threadVars
      <4>2. CASE k = 0
        <5>1. ~ frozen'[LB]
          BY <1>1, <3>1, <4>1, <4>2 DEF Thawed
        <5>2. QED
          BY <1>1, <3>2, <4>1, <5>1
      <4>3. CASE k # 0
        <5>1. Thawed = k - 1 /\ k <= nw /\ k > 0
          BY <1>1, <3>1, <4>1, <4>3 DEF Thawed, Types, MainTypes, LastThawed
        <5>2. Thawed # LB
          BY <1>1, <5>1 DEF Given
        <5>3. frozen'[LB] <=> frozen[LB]
          BY <1>1, <4>1, <5>2
        <5>4. QED
          BY <1>1, <3>2, <4>1, <5>1, <5>3
      <4>4. QED
        BY <4>2, <4>3
    <3>5. CASE Scheduler
      <4>1. frozen' = frozen /\ main' = main /\ k' = k
        BY <3>5 DEF Scheduler, freezeVars
      <4>2. \A l : Goto(LB, l) => pc'[LB] = l
        BY <1>1 DEF Goto
      <4>3. CASE FirstSvc
        <5>1. /\ totaltasks' = totaltasks
              /\ pc'[LB] = IF totaltasks = 0 THEN "freeze" ELSE "collect"
          BY <4>2, <4>3 DEF FirstSvc
        <5>2. QED
          BY <1>1, <3>2, <4>1, <5>1
      <4>4. CASE \E i \in Worker : Schedule(i)
        <5>1. PICK i \in Worker : Schedule(i)
          BY <4>4
        <5>2. pc'[LB] = IF totaltasks' = 0 THEN "freeze" ELSE "collect"
          BY <4>2, <5>1 DEF Schedule
        <5>3. totaltasks # 0
          BY <1>1, <1>2, <5>1
        <5>4. ~ ((main = "wait" \/ (main = "thaw" /\ k > 0)) /\ frozen[LB])
          BY <3>2, <5>3
        <5>5. QED
          BY <1>1, <4>1, <5>2, <5>4
      <4>5. QED
        BY <3>5, <4>3, <4>4 DEF Scheduler
    <3>6. CASE ThreadRoutine(LB)
      <4>1. main' = main /\ k' = k /\ totaltasks' = totaltasks
        BY <3>6 DEF ThreadRoutine, schedVars
      <4>2. \A l : Goto(LB, l) => pc'[LB] = l
        BY <1>1 DEF Goto
      <4>3. ~ stp[LB]
        BY <1>1, <3>1 DEF Inline
      <4>4. CASE Freeze(LB)
        <5>1. totaltasks = 0 /\ pc'[LB] \in {"frozen", "again"}
          BY <3>2, <4>2, <4>4 DEF Freeze
        <5>2. QED
          BY <1>1, <4>1, <5>1
      <4>5. CASE Wake(LB) \/ Again(LB)
        <5>1. pc'[LB] \in {"again", "svc"} /\ frozen' = frozen
          BY <4>2, <4>3, <4>5 DEF Wake, Again
        <5>2. QED
          BY <1>1, <3>2, <4>1, <5>1
      <4>6. ~ Leave(LB)
        BY <3>2 DEF Leave
      <4>7. QED
        BY <3>6, <4>4, <4>5, <4>6 DEF ThreadRoutine
    <3>7. ASSUME pc'[LB] = pc[LB], frozen'[LB] = frozen[LB], main' = main, k' = k,
                 totaltasks' = totaltasks
          PROVE  After'
      BY <1>1, <3>2, <3>7
    <3>8. CASE \E t \in Thread : t # LB /\ ThreadRoutine(t)
      <4>1. PICK t \in Thread : t # LB /\ ThreadRoutine(t)
        BY <3>8
      <4>2. main' = main /\ k' = k /\ totaltasks' = totaltasks
        BY <4>1 DEF ThreadRoutine, schedVars
      <4>3. (\E l : Goto(t, l)) /\ (frozen' = frozen \/ \E x : frozen' = [frozen EXCEPT ![t] = x])
        BY <4>1 DEF ThreadRoutine, Freeze, Wake, Again, Leave
      <4>4. pc'[LB] = pc[LB] /\ frozen'[LB] = frozen[LB]
        BY <1>1, <4>1, <4>3 DEF Goto
      <4>5. QED
        BY <3>7, <4>2, <4>4
    <3>9. CASE \E i \in Worker : WorkerStep(i)
      <4>1. PICK i \in Worker : WorkerStep(i)
        BY <3>9
      <4>2. main' = main /\ k' = k /\ totaltasks' = totaltasks /\ frozen' = frozen
        BY <4>1 DEF WorkerStep, schedVars, freezeVars
      <4>3. \E l : Goto(i, l)
        BY <4>1 DEF WorkerStep, Pop, Apply, nextTaskConcurrent, TestTasks, LoadStart, Claim,
           ClaimFails, CountTask, ChooseVictim, LookAtVictim
      <4>4. pc'[LB] = pc[LB]
        BY <1>1, <4>3 DEF Goto
      <4>5. QED
        BY <3>7, <4>2, <4>4
    <3>10. CASE UNCHANGED vars
      BY <3>7, <3>10 DEF vars, schedVars, freezeVars
    <3>11. QED
      BY <2>2, <3>1, <3>3, <3>4, <3>5, <3>6, <3>8, <3>9, <3>10 DEF Next, Main, Finished
  <2>3. QED
    BY <2>1, <2>2
<1>5. QED
  BY <1>1, <1>3, <1>4 DEF Counted
-----------------------------------------------------------------------------
\* A row in no entry, no queue and no worker's hands has been handed to F.
LEMMA NowhereElse ==
    ASSUME NEW r \in Row, Alone(r), NoTable(r), NoQueue(r), NoClaim(r)
    PROVE  handed[r] = 1
<1>1. ~ OneTable(r)
  BY DEF OneTable, NoTable
<1>2. ~ OneClaim(r) /\ ~ OneQueue(r)
  BY DEF OneClaim, OneQueue, NoClaim, NoQueue
<1>3. QED
  BY <1>1, <1>2 DEF Alone

\* An entry that is empty and a queue without tasks hold no row.
LEMMA EmptyRows ==
    ASSUME Types, NEW i \in Worker, NEW r \in Row
    PROVE  /\ Empty(i) => ~ Tab(i, r)
           /\ Cardinality(Spans(in[i])) = 0 => Que(in[i], r) = {}
<1>1. data[i] \in Entry /\ in[i] \in Seq(Item)
  BY DEF Types, TableTypes, QueueTypes
<1>2. Empty(i) => ~ Tab(i, r)
  <2> DEFINE a == data[i].task.start
             b == data[i].task.stop
  <2>1. a \in Int /\ b \in Int /\ (Tab(i, r) <=> r \in a..(b - 1)) /\ (Empty(i) <=> a >= b)
    BY <1>1, GivenHolds DEF Types, Entry, RowSpan, Tab, Rows, Empty, Given
  <2> HIDE DEF a, b
  <2>2. QED
    BY <2>1
<1>3. Cardinality(Spans(in[i])) = 0 => Spans(in[i]) = {}
  BY <1>1, SpansFinite, FS_EmptySet
<1>4. QED
  BY <1>2, <1>3 DEF Que, Spans

\* The scheduler has counted every task: none is anywhere.
LEMMA SchedulerEnds ==
    ASSUME Types, Enough, Account, Conserved, main \notin {"warmup", "setloop", "inline"},
           schedRunning, totaltasks = 0, NEW r \in Row
    PROVE  handed[r] = 1
<1>1. ASSUME NEW i \in Worker
      PROVE  ~ Tab(i, r) /\ Que(in[i], r) = {} /\ ~ Cla(i, r)
  <2>1. /\ data[i].ntask \in Int /\ data[i].ntask <= 0 /\ Cardinality(Spans(in[i])) = 0
        /\ pc[i] # "apply"
    BY WeightBound
  <2>2. Que(in[i], r) = {}
    BY <2>1, EmptyRows
  <2>3. pc[i] # "count"
    BY DEF Account, Seeking
  <2>4. ~ Cla(i, r)
    BY <2>1, <2>3 DEF Cla
  <2>5. Empty(i)
    <3> DEFINE e == data[i]
    <3>1. e \in Entry /\ chunk \in Nat
      BY GivenHolds DEF Types, TableTypes, Given
    <3>2. e.task.start \in Int /\ e.task.stop \in Int /\ e.ntask \in Int /\ e.ntask <= 0
      BY <2>1, <3>1, GivenHolds DEF Types, Entry, RowSpan, Given
    <3> DEFINE c == Cardinality(Counting(i))
    <3>3. Counting(i) = {}
      BY DEF Account, Seeking, Counting
    <3>4. c = 0
      BY <3>3, FS_EmptySet
    <3>5. EnoughFor(e, e.ntask - c)
      BY DEF Enough
    <3> HIDE DEF e, c
    <3>6. e.ntask * chunk <= 0 /\ e.ntask * chunk \in Int
      BY <3>1, <3>2, Times
    <3>7. e.ntask - c = e.ntask
      BY <3>2, <3>4
    <3>8. e.task.start >= e.task.stop
      BY <3>2, <3>5, <3>6, <3>7 DEF EnoughFor
    <3>9. QED
      BY <3>8 DEF Empty, e
  <2>6. QED
    BY <2>2, <2>4, <2>5, EmptyRows
<1>2. NoTable(r) /\ NoQueue(r) /\ NoClaim(r)
  BY <1>1 DEF NoTable, NoQueue, NoClaim
<1>3. Alone(r)
  BY DEF Conserved
<1>4. QED
  BY <1>2, <1>3, NowhereElse

\* Every worker has frozen: none has a row left, nor have those that slept.
LEMMA WorkersEnd ==
    ASSUME Types, Inline, Enough, Own, Conserved, main = "wait", ~ schedRunning,
           k = nw - 1, frozen[k], NEW r \in Row
    PROVE  handed[r] = 1
<1>1. /\ Worker = 0..(max_nw - 1) /\ Worker \subseteq Thread /\ nw \in Nat
      /\ \A i \in Worker : in[i] \in Seq(Item)
  BY GivenHolds DEF Types, LoopTypes, QueueTypes, Given
<1>2. ASSUME NEW i \in Worker
      PROVE  Empty(i) /\ in[i] = <<>> /\ pc[i] = "frozen"
  <2>1. OwnWorker(i) /\ OwnFrozen(i)
    BY DEF Own
  <2>2. CASE i < nw
    <3>1. i < k \/ i = k
      BY <1>1, <2>2
    <3>2. frozen[i]
      BY <2>1, <3>1 DEF OwnFrozen
    <3>3. QED
      BY <2>1, <2>2, <3>2 DEF OwnFrozen
  <2>3. CASE i >= nw
    <3>1. Quiet(i) /\ ~ stp[i]
      BY <1>1, <2>3 DEF Inline
    <3>2. pc[i] = "frozen"
      BY <3>1 DEF Quiet
    <3>3. in[i] = <<>>
      BY <1>1, <2>1, <2>3 DEF OwnWorker
    <3>4. Empty(i)
      BY <2>3 DEF Enough
    <3>5. QED
      BY <3>2, <3>3, <3>4
  <2>4. QED
    BY <1>1, <2>2, <2>3
<1>3. ASSUME NEW i \in Worker
      PROVE  ~ Tab(i, r) /\ Que(in[i], r) = {} /\ ~ Cla(i, r)
  <2>1. Que(<<>>, r) = {}
    BY DEF Que
  <2>2. QED
    BY <1>2, <2>1, EmptyRows DEF Cla
<1>4. NoTable(r) /\ NoQueue(r) /\ NoClaim(r)
  BY <1>3 DEF NoTable, NoQueue, NoClaim
<1>5. Alone(r)
  BY DEF Conserved
<1>6. QED
  BY <1>4, <1>5, NowhereElse

\* F is called for rows, and no call is taken back.
LEMMA HandedGrows ==
    ASSUME Types, [Next]_vars, NEW r \in Row
    PROVE  handed[r] \in Nat /\ handed'[r] \in Nat /\ handed'[r] >= handed[r]
<1>1. handed \in [Row -> Nat]
  BY DEF Types, ImageTypes
<1>2. ASSUME NEW span, Stamp(span)
      PROVE  handed'[r] \in Nat /\ handed'[r] >= handed[r]
  <2>1. handed'[r] = handed[r] + (IF r \in Rows(span) THEN 1 ELSE 0)
    BY <1>2 DEF Stamp
  <2>2. QED
    BY <1>1, <2>1
<1>3. handed' = handed \/ \E span : Stamp(span)
  BY DEF Next, Main, WaitWarmup, SetLoop, RunInline, SendFirst, Thaw, Wait, Stop, JoinThaw,
         JoinExit, Scheduler, ThreadRoutine, WorkerStep, Pop, Apply, nextTaskConcurrent,
         TestTasks, LoadStart, Claim, ClaimFails, CountTask, ChooseVictim, LookAtVictim,
         Finished, imageVars, vars
<1>4. QED
  BY <1>1, <1>2, <1>3

\* The loop is done when parallel_for_idx() returns, and stays done.
LEMMA KeepsDone ==
    /\ Types /\ Rest /\ Inline /\ Enough /\ Own /\ Account /\ Counted /\ Conserved
    /\ Conserved' /\ LoopDone /\ [Next]_vars
    => LoopDone'
<1>a. [Next]_vars /\ Types => Row' = Row /\ Given /\ LB = max_nw
  BY AlwaysFixed, SameSets, GivenHolds DEF Types
<1> DEFINE Over == {"stop", "join", "exit", "returned"}
<1> SUFFICES ASSUME Types, Rest, Inline, Enough, Own, Account, Counted, Conserved,
                    Conserved', LoopDone, [Next]_vars, main' \in Over, NEW r \in Row
             PROVE  handed'[r] = 1
  BY <1>a DEF LoopDone
<1>1. CASE main \in Over
  <2>1. handed[r] = 1
    BY <1>1 DEF LoopDone
  <2>2. handed'[r] \in Nat /\ handed'[r] >= 1
    BY <2>1, HandedGrows
  <2>3. Alone(r)'
    BY <1>a DEF Conserved
  <2>4. handed'[r] \in {0, 1}
    BY <2>3 DEF Alone
  <2>5. QED
    BY <2>2, <2>4
<1>2. CASE RunInline
  <2>1. Stamp(Span(0, height)) /\ main = "inline"
    BY <1>2 DEF RunInline
  <2>2. handed[r] = 0
    BY <2>1 DEF Rest, Resting
  <2>3. r \in Rows(Span(0, height))
    BY <1>a DEF Row, Rows, Span, Given
  <2>4. handed'[r] = handed[r] + (IF r \in Rows(Span(0, height)) THEN 1 ELSE 0)
    BY <2>1 DEF Stamp
  <2>5. QED
    BY <2>2, <2>3, <2>4
<1>3. CASE Wait
  <2>1. main = "wait" /\ handed' = handed
    BY <1>3 DEF Wait, imageVars
  <2>2. CASE schedRunning
    <3>1. frozen[LB]
      BY <1>3, <2>2 DEF Wait
    <3>2. totaltasks = 0
      BY <2>1, <2>2, <3>1 DEF Counted
    <3>3. QED
      BY <2>1, <2>2, <3>2, SchedulerEnds
  <2>3. CASE ~ schedRunning
    <3>1. frozen[k] /\ k = nw - 1
      BY <1>3, <2>1, <2>3 DEF Wait
    <3>2. QED
      BY <2>1, <2>3, <3>1, WorkersEnd
  <2>4. QED
    BY <2>2, <2>3
<1>4. main \in Over \/ RunInline \/ Wait
  BY DEF Next, Main, WaitWarmup, SetLoop, RunInline, SendFirst, Thaw, Wait, Stop, JoinThaw,
         JoinExit, Scheduler, ThreadRoutine, WorkerStep, Finished, vars
<1>5. QED
  BY <1>1, <1>2, <1>3, <1>4
-----------------------------------------------------------------------------
(* ntask goes below 0 when workers have tested the entry and others take   *)
(* its last rows first: by one for each worker that is past the test.      *)
Poised(v) == {i \in Worker : pc[i] \in {"load", "claim", "count"} /\ id[i] = v}
Bounded == \A v \in Worker : data[v].ntask - Cardinality(Poised(v)) >= -max_nw

\* Who is past the test for entry v.
LEMMA PoisedSteps ==
    ASSUME Types, [Next]_vars, NEW v \in Worker
    PROVE  /\ Cardinality(Poised(v)) \in 0..max_nw
           /\ Cardinality(Poised(v)') \in 0..max_nw
           /\ \/ Poised(v)' \subseteq Poised(v)
              \/ data'[v] = data[v] /\ data[v].ntask > 0
           /\ \A i \in Worker : WorkerStep(i) /\ CountTask(i) /\ id[i] = v =>
                Cardinality(Poised(v)') <= Cardinality(Poised(v)) - 1
<1>1. /\ Worker' = Worker /\ Worker = 0..(max_nw - 1) /\ max_nw \in Nat /\ max_nw >= 2
      /\ Worker \subseteq Thread /\ pc \in [Thread -> Busy \cup Idle \cup {"svc", "collect"}]
      /\ id \in [Worker -> Worker]
  BY AlwaysFixed, SameSets, GivenHolds DEF Types, Given, ThreadTypes
<1>2. Poised(v)' = {i \in Worker : pc'[i] \in {"load", "claim", "count"} /\ id'[i] = v}
  BY <1>1 DEF Poised
<1>3. /\ IsFiniteSet(Worker) /\ Cardinality(Worker) = max_nw
  <2>1. \A a, b \in Int : IsFiniteSet(a..b) /\ Cardinality(a..b) = IF a > b THEN 0 ELSE b - a + 1
    BY FS_Interval
  <2>2. IsFiniteSet(Worker) /\ Cardinality(Worker) = (max_nw - 1) - 0 + 1
    BY <1>1, <2>1
  <2>3. QED
    BY <1>1, <2>2
<1>4. \A S \in SUBSET Worker : IsFiniteSet(S) /\ Cardinality(S) \in 0..max_nw
  <2> TAKE S \in SUBSET Worker
  <2>1. IsFiniteSet(S) /\ Cardinality(S) <= Cardinality(Worker) /\ Cardinality(S) \in Nat
    BY <1>3, FS_Subset, FS_CardinalityType
  <2>2. QED
    BY <1>1, <1>3, <2>1
<1>5. Poised(v) \in SUBSET Worker /\ Poised(v)' \in SUBSET Worker
  BY <1>2 DEF Poised
<1>6. ASSUME NEW i \in Worker, ~ WorkerStep(i), i \in Poised(v)'
      PROVE  i \in Poised(v)
  BY <1>2, <1>6, OthersStep DEF Idle, Poised
<1>7. \A i \in Worker : \A l : Goto(i, l) => pc'[i] = l
  BY <1>1 DEF Goto
<1>8. ASSUME NEW i \in Worker, WorkerStep(i), i \in Poised(v)', i \notin Poised(v)
      PROVE  data' = data /\ data[v].ntask > 0
  <2>1. pc'[i] \in {"load", "claim", "count"} /\ id'[i] = v
    BY <1>2, <1>8
  <2>2. TestTasks(i)
    <3>1. ~ (Pop(i) \/ Apply(i) \/ ClaimFails(i) \/ CountTask(i) \/ ChooseVictim(i)
             \/ LookAtVictim(i))
      BY <1>7, <2>1 DEF Pop, Apply, ClaimFails, CountTask, ChooseVictim, LookAtVictim
    <3>2. ~ (LoadStart(i) \/ Claim(i))
      BY <1>8, <2>1 DEF LoadStart, Claim, Poised
    <3>3. QED
      BY <1>8, <3>1, <3>2 DEF WorkerStep, nextTaskConcurrent
  <2>3. /\ data' = data /\ id' = id
        /\ pc'[i] = IF data[id[i]].ntask > 0 THEN "load" ELSE "victim"
    BY <1>7, <2>2 DEF TestTasks
  <2>4. QED
    BY <2>1, <2>3
<1>9. Poised(v)' \subseteq Poised(v) \/ (data'[v] = data[v] /\ data[v].ntask > 0)
  BY <1>5, <1>6, <1>8
<1>10. ASSUME NEW i \in Worker, WorkerStep(i), CountTask(i), id[i] = v
       PROVE  Cardinality(Poised(v)') <= Cardinality(Poised(v)) - 1
  <2>1. /\ pc[i] = "count" /\ pc'[i] \in {"apply", "victim"}
        /\ \A j \in Worker \ {i} : ~ WorkerStep(j)
    BY <1>7, <1>10, WorkerMoves DEF CountTask
  <2>2. i \in Poised(v) /\ i \notin Poised(v)'
    BY <1>2, <1>10, <2>1 DEF Poised
  <2>3. Poised(v)' \in SUBSET (Poised(v) \ {i})
    BY <1>5, <1>6, <2>1, <2>2
  <2>4. /\ IsFiniteSet(Poised(v) \ {i})
        /\ Cardinality(Poised(v) \ {i}) = Cardinality(Poised(v)) - 1
    BY <1>4, <1>5, <2>2, FS_RemoveElement
  <2>5. QED
    BY <2>3, <2>4, FS_Subset
<1>11. QED
  BY <1>4, <1>5, <1>9, <1>10

\* Each worker past the test takes ntask down by one at most.
LEMMA KeepsBounded ==
    Types /\ Rest /\ ClaimKnown /\ Bounded /\ [Next]_vars => Bounded'
<1> SUFFICES ASSUME Types, Rest, ClaimKnown, Bounded, [Next]_vars, NEW v \in Worker
             PROVE  data'[v].ntask - Cardinality(Poised(v)') >= -max_nw
  <2>1. [Next]_vars => Worker' = Worker /\ max_nw' = max_nw
    BY AlwaysFixed, SameSets DEF Fixed
  <2>2. QED
    BY <2>1 DEF Bounded
<1> DEFINE n == data[v].ntask
           m == data'[v].ntask
           p == Cardinality(Poised(v))
           q == Cardinality(Poised(v)')
<1>1. /\ Given /\ data[v] \in Entry /\ n \in Int /\ max_nw \in Nat
      /\ n - p >= -max_nw
  BY GivenHolds DEF Types, TableTypes, Entry, Given, Bounded
<1>2. p \in 0..max_nw /\ q \in 0..max_nw
  BY PoisedSteps
<1>3. m \in Int /\ m >= 0 => m - q >= -max_nw
  <2> HIDE DEF m, q
  <2>1. QED
    BY <1>1, <1>2
<1>4. Poised(v)' \subseteq Poised(v) => q <= p
  <2>1. IsFiniteSet(Poised(v))
    <3>1. IsFiniteSet(Worker) /\ Poised(v) \in SUBSET Worker
      BY GivenHolds DEF Types, Poised
    <3>2. QED
      BY <3>1, FS_Subset
  <2>2. QED
    BY <2>1, FS_Subset
<1>5. CASE SetLoop
  <2>1. m \in 0..height
    BY <1>1, <1>5, NewTable
  <2>2. QED
    BY <1>1, <1>3, <2>1 DEF Given
<1>6. CASE ~ SetLoop
  <2>1. CASE m = n
    <3>1. CASE Poised(v)' \subseteq Poised(v)
      <4>1. q <= p
        BY <1>4, <3>1
      <4>2. m - q >= -max_nw
        <5>1. n - p >= -max_nw /\ n \in Int /\ max_nw \in Int
          BY <1>1
        <5> HIDE DEF m, n, p, q
        <5>2. QED
          BY ONLY <5>1, <1>2, <2>1, <4>1
      <4>3. QED
        BY <4>2
    <3>2. CASE n > 0
      <4>1. m \in Int /\ m >= 0
        BY <1>1, <2>1, <3>2
      <4>2. QED
        BY <1>3, <4>1
    <3>3. QED
      BY <3>1, <3>2, PoisedSteps
  <2>2. CASE Dealing(v)
    <3>1. CASE data[v].ntask > 0 /\ data'[v] = Taken(data[v])
      <4>1. m = n - 1 /\ n > 0
        BY <1>1, <3>1, TakenFacts
      <4>2. QED
        BY <1>1, <1>3, <4>1
    <3>2. CASE \E e \in Entry : /\ data[v].ntask > 0 /\ e = Taken(data[v])
                                /\ e.ntask > 0 /\ data'[v] = Taken(e)
      <4>1. PICK e \in Entry : e.ntask > 0 /\ data'[v] = Taken(e)
        BY <3>2
      <4>2. m = e.ntask - 1 /\ e.ntask \in Int
        BY <1>1, <4>1, TakenFacts DEF Entry
      <4>3. QED
        BY <1>3, <4>1, <4>2
    <3>3. QED
      BY <2>2, <3>1, <3>2 DEF Dealing
  <2>3. ASSUME NEW i \in Worker, WorkerStep(i), Claiming(i, v)
        PROVE  m = n
    BY <2>3 DEF Claiming
  <2>4. ASSUME NEW i \in Worker, WorkerStep(i), Uncounting(i, v)
        PROVE  m - q >= -max_nw
    <3>1. m = n - 1 /\ q <= p - 1
      BY <2>4, PoisedSteps DEF Uncounting
    <3> HIDE DEF m, n, p, q
    <3>2. QED
      BY <1>1, <1>2, <3>1
  <2>5. QED
    BY <1>6, <2>1, <2>2, <2>3, <2>4, TableSteps
<1>7. QED
  BY <1>5, <1>6
-----------------------------------------------------------------------------
LoopInv ==
    /\ RowsInv /\ Enough /\ NothingClaimed /\ Own /\ Account /\ Counted /\ Bounded
    /\ LoopDone

\* No loop has started: nothing is in the table or the queues.
LEMMA InitLoop == Init => LoopInv
<1> SUFFICES ASSUME Init PROVE LoopInv
  OBVIOUS
<1>1. RowsInv
  BY RowsAtInit
<1>2. /\ Given /\ Worker \subseteq Thread /\ LB \notin Worker
  BY InitTypes, GivenHolds DEF Types
<1>3. \A i \in Worker : pc[i] = "pop" /\ out[i] = 0 /\ data[i].ntask = 0
  BY <1>2 DEF Init
<1>4. main = "warmup" /\ totaltasks = 0
  BY DEF Init
<1>5. Enough /\ NothingClaimed /\ Own /\ Account /\ LoopDone
  BY <1>3, <1>4 DEF Enough, NothingClaimed, Own, Account, LoopDone
<1>6. Counted
  BY <1>2, <1>4 DEF Counted, Given
<1>7. Bounded
  <2>1. \A v \in Worker : Poised(v) = {}
    BY <1>3 DEF Poised
  <2>2. \A v \in Worker : Cardinality(Poised(v)) = 0
    BY <2>1, FS_EmptySet
  <2>3. QED
    BY <1>2, <1>3, <2>2 DEF Bounded, Given
<1>8. QED
  BY <1>1, <1>5, <1>6, <1>7 DEF LoopInv

\* The inductive invariant of a loop.
LEMMA LoopKept == Spec => []LoopInv
<1>1. LoopInv /\ [Next]_vars => LoopInv'
  <2> SUFFICES ASSUME LoopInv, [Next]_vars PROVE LoopInv'
    OBVIOUS
  <2>1. Types /\ Rest /\ Inline /\ ClaimKnown /\ Conserved
    BY DEF LoopInv, RowsInv
  <2>2. Types' /\ Rest' /\ Inline' /\ ClaimKnown' /\ Conserved'
    BY <2>1, KeepsTypes, KeepsRest, KeepsClaims, KeepsRows
  <2>3. Enough' /\ NothingClaimed' /\ Own'
    BY <2>1, KeepsEnough, KeepsOwn DEF LoopInv
  <2>4. Account' /\ Counted' /\ Bounded'
    BY <2>1, KeepsAccount, KeepsCounted, KeepsBounded DEF LoopInv
  <2>5. LoopDone'
    BY <2>1, <2>2, KeepsDone DEF LoopInv
  <2>6. QED
    BY <2>2, <2>3, <2>4, <2>5 DEF LoopInv, RowsInv
<1>2. QED
  BY <1>1, InitLoop, PTL DEF Spec

(* parallel_for_idx() returns only when F has returned for each row.       *)
THEOREM LoopIsDone == Spec => []LoopDone
<1>1. LoopInv => LoopDone
  BY DEF LoopInv
<1>2. QED
  BY <1>1, LoopKept, PTL

(* Every variable keeps its type: totaltasks does not pass 0, and ntask    *)
(* falls below it by one for each worker at most.                          *)
THEOREM TypeCorrect == Spec => []TypeOK
<1>1. LoopInv => TypeOK
  <2> SUFFICES ASSUME LoopInv PROVE TypeOK
    OBVIOUS
  <2>1. Types /\ Bounded /\ Counted
    BY DEF LoopInv, RowsInv
  <2>2. \E l \in Loops :
          /\ max_nw = l.max_nw /\ height = l.height /\ numCores = l.numCores
          /\ chunk \in {l.chunk, 2 * l.chunk} \cup 1..height
    BY <2>1 DEF Types, Params
  <2>3. ASSUME NEW i \in Worker
        PROVE  data[i].ntask \in -max_nw..height /\ data[i].task \in RowSpan
    <3>1. /\ data[i].ntask \in Int /\ data[i].ntask <= height /\ data[i].task \in RowSpan
          /\ max_nw \in Nat /\ height \in Nat
      BY <2>1, GivenHolds DEF Types, TableTypes, Entry, Given
    <3>2. Cardinality(Poised(i)) \in Nat
      <4>1. IsFiniteSet(Worker) /\ Poised(i) \in SUBSET Worker
        BY <2>1, GivenHolds DEF Types, Poised
      <4>2. QED
        BY <4>1, FS_Subset, FS_CardinalityType
    <3>3. data[i].ntask - Cardinality(Poised(i)) >= -max_nw
      BY <2>1 DEF Bounded
    <3>4. QED
      BY <3>1, <3>2, <3>3
  <2>4. /\ maxid \in -1..(max_nw - 1) /\ nw \in 0..max_nw /\ static \in BOOLEAN
        /\ schedRunning \in BOOLEAN
    BY <2>1, GivenHolds DEF Types, TableTypes, LoopTypes, Given
  <2>5. totaltasks \in 0..(height + max_nw)
    BY <2>1 DEF Counted
  <2>6. /\ eossent \in [Worker -> BOOLEAN] /\ in \in [Worker -> Seq(RowSpan \cup {GO_OUT})]
        /\ out \in [Worker -> Nat]
    BY <2>1 DEF Types, QueueTypes, Item
  <2>7. /\ pc \in [Thread -> Busy \cup Idle \cup {"svc", "collect"}]
        /\ task \in [Worker -> RowSpan] /\ id \in [Worker -> Worker]
        /\ freezing \in [Thread -> 0..2]
        /\ frozen \in [Thread -> BOOLEAN] /\ stp \in [Thread -> BOOLEAN]
    BY <2>1 DEF Types, ThreadTypes, FreezeTypes
  <2>8. /\ main \in {"warmup", "setloop", "inline", "start", "thaw", "wait",
                     "stop", "join", "exit", "returned"}
        /\ k \in 0..(max_nw + 1)
        /\ handed \in [Row -> Nat] /\ stamps \in [Row -> Nat]
    BY <2>1 DEF Types, MainTypes, ImageTypes
  <2>9. QED
    BY ONLY <2>2, <2>3, <2>4, <2>5, <2>6, <2>7, <2>8 DEF TypeOK
<1>2. QED
  BY <1>1, LoopKept, PTL
=============================================================================
