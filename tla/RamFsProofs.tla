---------------------------- MODULE RamFsProofs ----------------------------
(***************************************************************************)
(* Proofs about the files and directories of the RAM file system, for      *)
(* every word size, every size of writes and every number of entries.      *)
(***************************************************************************)
EXTENDS RamFs, WellFoundedInduction, SequenceTheorems, TLAPS

-----------------------------------------------------------------------------
(* Numbers. *)

(* A set of natural numbers has a least one. *)
LEMMA Least == ASSUME NEW T, T \subseteq Nat, T # {}
               PROVE  \E x \in T : \A y \in T : x <= y
<1> DEFINE R == {p \in Nat \X Nat : p[1] < p[2]}
<1>1. IsWellFoundedOn(R, Nat)
    BY NatLessThanWellFounded DEF OpToRel
<1>2. PICK x \in T : \A y \in T : ~ (<<y, x>> \in R)
  <2> HIDE DEF R
  <2> QED BY <1>1, WFMin
<1>3. \A y \in T : ~ (y < x)
    BY <1>2
<1> QED BY <1>3

LEMMA Divided == ASSUME NEW a \in Nat, NEW b \in Nat \ {0}
                 PROVE  a \div b \in Nat /\ a % b \in 0 .. b - 1 /\ a = b * (a \div b) + (a % b)
OBVIOUS

LEMMA Products == ASSUME NEW a \in Nat, NEW b \in Nat, NEW c \in Nat
                  PROVE  /\ a * b \in Nat
                         /\ a # 0 /\ b # 0 => a * b # 0
                         /\ b * (a + c) = b * a + b * c
                         /\ (a * b) * c = b * (a * c)
OBVIOUS

LEMMA DividedOnce ==
    ASSUME NEW b \in Nat \ {0}, NEW q \in Nat, NEW p \in Nat,
           NEW r \in 0 .. b - 1, NEW s \in 0 .. b - 1, b * q + r = b * p + s
    PROVE  q = p /\ r = s
<1>1. ASSUME NEW x \in Nat, NEW y \in Nat, x < y PROVE b * x + b <= b * y
  <2>1. y - x - 1 \in Nat /\ b * (y - x - 1) \in Nat
      BY <1>1
  <2>2. b * y = b * x + b + b * (y - x - 1)
      BY <1>1
  <2> QED BY <2>1, <2>2
<1>2. b * q \in Nat /\ b * p \in Nat
    OBVIOUS
<1>3. q = p
    BY <1>1, <1>2
<1> QED BY <1>2, <1>3

(* The blocks, the words and the bytes that are left make up the count. *)
LEMMA Touches == ASSUME NEW count \in Nat PROVE Touched(count) = 0 .. count - 1
<1> USE WordAssumption
<1> DEFINE block  == Unroll * Word
           blocks == count \div block
           rest   == count % block
           words  == rest \div Word
           tail   == rest % Word
           m      == Unroll * blocks
<1>1. Word \in Nat \ {0} /\ Unroll \in Nat \ {0}
    OBVIOUS
<1>2. block \in Nat \ {0}
    BY <1>1, Products
<1>3. blocks \in Nat /\ rest \in Nat /\ count = block * blocks + rest
  <2> HIDE DEF block
  <2> QED BY <1>2, Divided
<1>4. words \in Nat /\ tail \in 0 .. Word - 1 /\ rest = Word * words + tail
  <2> HIDE DEF rest
  <2> QED BY <1>1, <1>3, Divided
<1>5. /\ count \div Word \in Nat /\ count % Word \in 0 .. Word - 1
      /\ count = Word * (count \div Word) + (count % Word)
    BY <1>1, Divided
<1>6. block * blocks = Word * m /\ m \in Nat
  <2>1. blocks \in Nat /\ Word \in Nat /\ Unroll \in Nat
      BY <1>1, <1>3
  <2> HIDE DEF blocks
  <2> QED BY <2>1, Products
<1> HIDE DEF block, blocks, rest, words, tail, m
<1>7. Word * (m + words) = Word * m + Word * words /\ Word * words \in Nat
  <2>1. m \in Nat /\ words \in Nat /\ Word \in Nat
      BY <1>1, <1>4, <1>6
  <2> QED BY <2>1, Products
<1>8. count = Word * (m + words) + tail /\ m + words \in Nat
    BY <1>3, <1>4, <1>6, <1>7
<1> DEFINE q == count \div Word
           r == count % Word
           p == m + words
           total == block * blocks + Word * words + r
<1>9. q \in Nat /\ r \in 0 .. Word - 1 /\ p \in Nat /\ Word * q + r = Word * p + tail
    BY <1>5, <1>8
<1> HIDE DEF q, r, p
<1>10. r = tail
    BY <1>1, <1>4, <1>9, DividedOnce
<1>11. block \in Nat /\ block * blocks \in Nat /\ Word * words \in Nat
    BY <1>2, <1>3, <1>7, Products
<1>12. total = count
    BY <1>3, <1>4, <1>10, <1>11
<1>13. Touched(count) = 0 .. total - 1
    BY DEF Touched, total, block, blocks, rest, words, r
<1> HIDE DEF total
<1> QED BY <1>12, <1>13

(* What goes on from a state step by step is a function. *)
GoesBy(f, base, step, n) == f[0] = base /\ \A i \in 1 .. n : f[i] = step[i][f[i - 1]]

LEMMA Recursion ==
    ASSUME NEW S, NEW n \in Nat, NEW base \in S, NEW step \in [1 .. n -> [S -> S]]
    PROVE  \E f \in [0 .. n -> S] : GoesBy(f, base, step, n)
<1> DEFINE Done(k) == \E f \in [0 .. k -> S] : GoesBy(f, base, step, k)
           T == {k \in 0 .. n : ~ Done(k)}
<1>1. Done(0)
  <2> DEFINE f == [i \in 0 .. 0 |-> base]
  <2>1. f \in [0 .. 0 -> S] /\ GoesBy(f, base, step, 0)
      BY DEF GoesBy
  <2> HIDE DEF f
  <2> QED BY <2>1
<1>2. ASSUME NEW k \in 1 .. n, Done(k - 1) PROVE Done(k)
  <2>1. PICK before \in [0 .. k - 1 -> S] : GoesBy(before, base, step, k - 1)
      BY <1>2
  <2> DEFINE last == step[k][before[k - 1]]
             f == [i \in 0 .. k |-> IF i = k THEN last ELSE before[i]]
  <2>2. last \in S
    <3>1. before[k - 1] \in S /\ step[k] \in [S -> S]
        BY <2>1
    <3> QED BY <3>1
  <2>3. f \in [0 .. k -> S]
    <3> HIDE DEF last
    <3> QED BY <2>1, <2>2
  <2>4. /\ \A i \in 0 .. k - 1 : f[i] = before[i]
        /\ f[k] = last
      OBVIOUS
  <2> HIDE DEF f
  <2>5. f[0] = base
      BY <2>1, <2>4 DEF GoesBy
  <2>6. ASSUME NEW i \in 1 .. k PROVE f[i] = step[i][f[i - 1]]
    <3>1. i - 1 \in 0 .. k - 1 /\ f[i - 1] = before[i - 1]
        BY <2>4
    <3>2. CASE i = k
        BY <2>4, <3>1, <3>2
    <3>3. CASE i # k
      <4>1. i \in 1 .. k - 1 /\ i \in 0 .. k - 1
          BY <3>3
      <4>2. before[i] = step[i][before[i - 1]]
          BY <2>1, <4>1 DEF GoesBy
      <4> QED BY <2>4, <3>1, <4>1, <4>2
    <3> QED BY <3>2, <3>3
  <2> QED BY <2>3, <2>5, <2>6 DEF GoesBy
<1> HIDE DEF Done
<1>3. ASSUME NEW k \in T, \A j \in T : k <= j PROVE FALSE
  <2>1. k \in 1 .. n /\ ~ Done(k) /\ k - 1 \in 0 .. n /\ k - 1 < k
      BY <1>1
  <2>2. k - 1 \notin T
    <3> HIDE DEF T
    <3> QED BY <1>3, <2>1
  <2> QED BY <1>2, <2>1, <2>2
<1>4. T = {}
  <2>1. T \subseteq Nat
      OBVIOUS
  <2> HIDE DEF T
  <2> QED BY <1>3, <2>1, Least
<1> QED BY <1>4 DEF Done

-----------------------------------------------------------------------------
(* Vectors. *)

LEMMA CopiedIs ==
    ASSUME NEW dest, NEW at, NEW src, NEW from, NEW count \in Nat
    PROVE  Copied(dest, at, src, from, count) =
               [k \in DOMAIN dest |-> IF k - at \in 0 .. count - 1 THEN Loaded(src, from + k - at) ELSE dest[k]]
BY Touches DEF Copied

LEMMA FilledIs ==
    ASSUME NEW dest, NEW at, NEW value, NEW count \in Nat
    PROVE  Filled(dest, at, value, count) =
               [k \in DOMAIN dest |-> IF k - at \in 0 .. count - 1 THEN value ELSE dest[k]]
BY Touches DEF Filled

(* A vector whose cells in use hold items. *)
Holding(items, v) == /\ DOMAIN v = {"cells", "size", "capacity"}
                     /\ VectorOf(items, v)
                     /\ \A k \in 0 .. v.size - 1 : v.cells[k] \in items

(* Moved to new memory, which has room for what is in use. *)
LEMMA ReallocatedHolds ==
    ASSUME NEW items, NEW v, Holding(items, v), NEW n \in Nat, v.size <= n
    PROVE  LET w == Reallocated(v, n)
           IN  /\ Holding(items, w) /\ w.size = v.size /\ w.capacity = n
               /\ \A k \in 0 .. v.size - 1 : w.cells[k] = v.cells[k]
<1> DEFINE cells == [k \in 0 .. n - 1 |-> IF k < v.size THEN v.cells[k] ELSE Junk]
           w == Reallocated(v, n)
<1>1. v.size \in Nat /\ \A k \in 0 .. v.size - 1 : v.cells[k] \in items
    BY DEF Holding, VectorOf
<1>2. cells \in [0 .. n - 1 -> items \cup {Junk}] /\ \A k \in 0 .. v.size - 1 : cells[k] = v.cells[k]
    BY <1>1
<1>3. w = [v EXCEPT !.cells = cells, !.capacity = n]
    BY DEF Reallocated
<1>4. /\ DOMAIN w = {"cells", "size", "capacity"}
      /\ w.cells = cells /\ w.size = v.size /\ w.capacity = n
  <2> HIDE DEF cells, w
  <2> QED BY <1>3 DEF Holding
<1> HIDE DEF cells, w
<1>5. Holding(items, w)
    BY <1>1, <1>2, <1>4 DEF Holding, VectorOf
<1> QED BY <1>2, <1>4, <1>5 DEF w

(* The doublings reach every size. *)
Doublings(f, from, n) ==
    f = [k \in 0 .. n |-> IF k = 0 THEN from ELSE IF f[k - 1] = 0 THEN 2 ELSE 2 * f[k - 1]]

LEMMA DoublingsThere == ASSUME NEW from \in Nat, NEW n \in Nat
                        PROVE  \E f : Doublings(f, from, n)
<1> DEFINE twice == [c \in Nat |-> IF c = 0 THEN 2 ELSE 2 * c]
           step == [k \in 1 .. n |-> twice]
<1>1. step \in [1 .. n -> [Nat -> Nat]]
    OBVIOUS
<1>2. \A k \in 1 .. n : step[k] = twice
    OBVIOUS
<1> HIDE DEF step
<1>3. PICK f \in [0 .. n -> Nat] : GoesBy(f, from, step, n)
    BY <1>1, Recursion
<1>4. ASSUME NEW k \in 0 .. n
      PROVE  f[k] = IF k = 0 THEN from ELSE IF f[k - 1] = 0 THEN 2 ELSE 2 * f[k - 1]
  <2>1. CASE k = 0
      BY <1>3, <2>1 DEF GoesBy
  <2>2. CASE k # 0
    <3>1. k \in 1 .. n /\ k - 1 \in 0 .. n
        BY <2>2
    <3>2. f[k] = twice[f[k - 1]] /\ f[k - 1] \in Nat
        BY <1>2, <1>3, <3>1 DEF GoesBy
    <3> QED BY <2>2, <3>2
  <2> QED BY <2>1, <2>2
<1>5. f = [k \in 0 .. n |-> IF k = 0 THEN from ELSE IF f[k - 1] = 0 THEN 2 ELSE 2 * f[k - 1]]
    BY <1>3, <1>4
<1>6. Doublings(f, from, n)
    BY <1>5 DEF Doublings
<1> QED BY <1>6

LEMMA DoublingsGrow ==
    ASSUME NEW from \in Nat, NEW n \in Nat, NEW f, Doublings(f, from, n)
    PROVE  \A k \in 0 .. n : f[k] \in Nat /\ f[k] >= k
<1> DEFINE T == {k \in 0 .. n : ~ (f[k] \in Nat /\ f[k] >= k)}
<1>1. \A k \in 0 .. n : f[k] = IF k = 0 THEN from ELSE IF f[k - 1] = 0 THEN 2 ELSE 2 * f[k - 1]
    BY DEF Doublings
<1>2. f[0] = from
    BY <1>1
<1>3. ASSUME NEW k \in T, \A j \in T : k <= j PROVE FALSE
  <2>1. k \in 1 .. n /\ k - 1 \in 0 .. n /\ k - 1 < k
      BY <1>2
  <2>2. k - 1 \notin T
    <3> HIDE DEF T
    <3> QED BY <1>3, <2>1
  <2>3. f[k - 1] \in Nat /\ f[k - 1] >= k - 1
      BY <2>1, <2>2
  <2>4. f[k] = IF f[k - 1] = 0 THEN 2 ELSE 2 * f[k - 1]
      BY <1>1, <2>1
  <2>5. f[k - 1] = 0 => k = 1
      BY <2>1, <2>3
  <2>6. f[k] \in Nat /\ f[k] >= k
      BY <2>1, <2>3, <2>4, <2>5
  <2> QED BY <2>6
<1>4. T = {}
  <2>1. T \subseteq Nat
      OBVIOUS
  <2> HIDE DEF T
  <2> QED BY <1>3, <2>1, Least
<1> QED BY <1>4

LEMMA GrownHolds ==
    ASSUME NEW items, NEW v, Holding(items, v), NEW n \in Nat, v.size < n
    PROVE  LET w == Grown(v, n)
           IN  /\ Holding(items, w) /\ w.size = v.size /\ n <= w.capacity
               /\ \A k \in 0 .. v.size - 1 : w.cells[k] = v.cells[k]
<1> DEFINE f == CHOOSE f : Doublings(f, v.capacity, n)
           Enough(k) == f[k] >= n /\ \A j \in 0 .. k - 1 : f[j] < n
           turns == CHOOSE k \in 0 .. n : Enough(k)
           T == {k \in 0 .. n : f[k] >= n}
<1>1. v.capacity \in Nat /\ v.size \in Nat /\ v.size <= v.capacity
    BY DEF Holding, VectorOf
<1>2. Doublings(f, v.capacity, n)
    BY <1>1, DoublingsThere
<1>3. Grown(v, n) = IF turns = 0 THEN v ELSE Reallocated(v, f[turns])
    BY DEF Grown, Doublings
<1> HIDE DEF f
<1>4. f[0] = v.capacity /\ \A k \in 0 .. n : f[k] \in Nat /\ f[k] >= k
  <2> DEFINE c == v.capacity
  <2>1. c \in Nat /\ Doublings(f, c, n)
      BY <1>1, <1>2
  <2> HIDE DEF c
  <2>2. \A k \in 0 .. n : f[k] \in Nat /\ f[k] >= k
      BY <2>1, DoublingsGrow
  <2>3. f[0] = c
      BY <2>1 DEF Doublings
  <2> QED BY <2>2, <2>3 DEF c
<1>5. \E k \in 0 .. n : Enough(k)
  <2>1. n \in T /\ T \subseteq Nat
      BY <1>4
  <2>2. PICK k \in T : \A j \in T : k <= j
    <3> HIDE DEF T
    <3> QED BY <2>1, Least
  <2>3. ASSUME NEW j \in 0 .. k - 1 PROVE f[j] < n
    <3>1. j \in 0 .. n /\ ~ (k <= j)
        BY <2>2
    <3>2. j \notin T
      <4> HIDE DEF T
      <4> QED BY <2>2, <3>1
    <3> QED BY <1>4, <3>1, <3>2
  <2> QED BY <2>3
<1>6. turns \in 0 .. n /\ Enough(turns)
  <2> HIDE DEF Enough
  <2> QED BY <1>5
<1> HIDE DEF turns
<1>7. f[turns] \in Nat /\ f[turns] >= n
    BY <1>4, <1>6
<1>8. CASE turns = 0
    BY <1>3, <1>4, <1>7, <1>8
<1>9. CASE turns # 0
  <2> DEFINE m == f[turns]
  <2>1. Grown(v, n) = Reallocated(v, m)
      BY <1>3, <1>9
  <2>2. m \in Nat /\ v.size <= m /\ n <= m
      BY <1>1, <1>7
  <2> HIDE DEF m
  <2>3. LET w == Reallocated(v, m)
        IN  /\ Holding(items, w) /\ w.size = v.size /\ w.capacity = m
            /\ \A k \in 0 .. v.size - 1 : w.cells[k] = v.cells[k]
      BY <2>2, ReallocatedHolds
  <2> QED BY <2>1, <2>2, <2>3
<1> QED BY <1>8, <1>9

LEMMA ResizedHolds ==
    ASSUME NEW items, NEW v, Holding(items, v), NEW n \in Nat, v.size < n, NEW zero \in items
    PROVE  LET w == Resized(v, n, zero)
           IN  /\ Holding(items, w) /\ w.size = n
               /\ \A k \in 0 .. n - 1 : w.cells[k] = IF k < v.size THEN v.cells[k] ELSE zero
<1> DEFINE g == Grown(v, n)
           cells == Filled(g.cells, v.size, zero, n - v.size)
           w == Resized(v, n, zero)
<1>1. /\ Holding(items, g) /\ g.size = v.size /\ n <= g.capacity
      /\ \A k \in 0 .. v.size - 1 : g.cells[k] = v.cells[k]
    BY GrownHolds
<1>2. v.size \in Nat /\ \A k \in 0 .. v.size - 1 : v.cells[k] \in items
    BY DEF Holding, VectorOf
<1>3. w = [g EXCEPT !.cells = cells, !.size = n]
    BY <1>2 DEF Resized
<1> HIDE DEF g
<1>4. g.capacity \in Nat /\ g.cells \in [0 .. g.capacity - 1 -> items \cup {Junk}]
    BY <1>1 DEF Holding, VectorOf
<1>5. cells = [k \in 0 .. g.capacity - 1 |-> IF k - v.size \in 0 .. n - v.size - 1 THEN zero ELSE g.cells[k]]
  <2>1. n - v.size \in Nat
      BY <1>2
  <2> QED BY <1>4, <2>1, FilledIs
<1> HIDE DEF cells, w
<1>6. /\ cells \in [0 .. g.capacity - 1 -> items \cup {Junk}]
      /\ \A k \in 0 .. n - 1 : cells[k] = IF k < v.size THEN v.cells[k] ELSE zero
  <2>1. cells \in [0 .. g.capacity - 1 -> items \cup {Junk}]
      BY <1>4, <1>5
  <2>2. ASSUME NEW k \in 0 .. n - 1 PROVE cells[k] = IF k < v.size THEN v.cells[k] ELSE zero
    <3>1. k \in 0 .. g.capacity - 1
        BY <1>1, <1>4
    <3>2. k < v.size => k \in 0 .. v.size - 1
        BY <1>2
    <3>3. k - v.size \in 0 .. n - v.size - 1 <=> ~ (k < v.size)
        BY <1>2
    <3> QED BY <1>1, <1>5, <3>1, <3>2, <3>3
  <2> QED BY <2>1, <2>2
<1>7. /\ DOMAIN w = {"cells", "size", "capacity"}
      /\ w.cells = cells /\ w.size = n /\ w.capacity = g.capacity
    BY <1>1, <1>3 DEF Holding
<1>8. Holding(items, w)
  <2>1. \A k \in 0 .. n - 1 : cells[k] \in items
    <3> SUFFICES ASSUME NEW k \in 0 .. n - 1 PROVE cells[k] \in items
        OBVIOUS
    <3>1. k < v.size => k \in 0 .. v.size - 1
        BY <1>2
    <3> QED BY <1>2, <1>6, <3>1
  <2> QED BY <1>1, <1>4, <1>6, <1>7, <2>1 DEF Holding, VectorOf
<1> QED BY <1>6, <1>7, <1>8 DEF w

LEMMA PushedHolds ==
    ASSUME NEW items, NEW v, Holding(items, v), NEW value \in items
    PROVE  LET w == Pushed(v, value)
           IN  /\ Holding(items, w) /\ w.size = v.size + 1
               /\ \A k \in 0 .. v.size - 1 : w.cells[k] = v.cells[k]
               /\ w.cells[v.size] = value
<1> DEFINE g == IF v.size >= v.capacity THEN Reallocated(v, Doubled(v)) ELSE v
           cells == [g.cells EXCEPT ![v.size] = value]
           w == Pushed(v, value)
<1>1. v.size \in Nat /\ v.capacity \in Nat /\ v.size <= v.capacity
    BY DEF Holding, VectorOf
<1>2. /\ Holding(items, g) /\ g.size = v.size /\ v.size < g.capacity
      /\ \A k \in 0 .. v.size - 1 : g.cells[k] = v.cells[k]
  <2>1. CASE v.size >= v.capacity
    <3> DEFINE m == Doubled(v)
    <3>1. m \in Nat /\ v.size < m /\ v.size <= m
        BY <1>1, <2>1 DEF Doubled
    <3> HIDE DEF m
    <3>2. LET r == Reallocated(v, m)
          IN  /\ Holding(items, r) /\ r.size = v.size /\ r.capacity = m
              /\ \A k \in 0 .. v.size - 1 : r.cells[k] = v.cells[k]
        BY <3>1, ReallocatedHolds
    <3> QED BY <2>1, <3>1, <3>2 DEF m
  <2>2. CASE ~ (v.size >= v.capacity)
      BY <1>1, <2>2
  <2> QED BY <2>1, <2>2
<1>3. w = [g EXCEPT !.cells = cells, !.size = g.size + 1]
    BY DEF Pushed
<1> HIDE DEF g
<1>4. /\ g.capacity \in Nat /\ g.cells \in [0 .. g.capacity - 1 -> items \cup {Junk}]
      /\ v.size \in 0 .. g.capacity - 1
    BY <1>1, <1>2 DEF Holding, VectorOf
<1>5. /\ cells \in [0 .. g.capacity - 1 -> items \cup {Junk}]
      /\ cells[v.size] = value
      /\ \A k \in 0 .. v.size - 1 : cells[k] = v.cells[k]
  <2>1. \A k \in 0 .. v.size - 1 : k \in 0 .. g.capacity - 1 /\ k # v.size
      BY <1>1, <1>4
  <2>2. cells \in [0 .. g.capacity - 1 -> items \cup {Junk}]
      BY <1>4
  <2>3. cells[v.size] = value
      BY <1>4
  <2>4. \A k \in 0 .. v.size - 1 : cells[k] = g.cells[k]
      BY <1>4, <2>1
  <2> QED BY <1>2, <2>2, <2>3, <2>4
<1> HIDE DEF cells, w
<1>6. /\ DOMAIN w = {"cells", "size", "capacity"}
      /\ w.cells = cells /\ w.size = v.size + 1 /\ w.capacity = g.capacity
    BY <1>2, <1>3 DEF Holding
<1>7. Holding(items, w)
  <2>1. \A k \in 0 .. v.size : cells[k] \in items
    <3> SUFFICES ASSUME NEW k \in 0 .. v.size PROVE cells[k] \in items
        OBVIOUS
    <3>1. k = v.size \/ k \in 0 .. v.size - 1
        BY <1>1
    <3> QED BY <1>5, <3>1 DEF Holding
  <2>2. v.size + 1 - 1 = v.size /\ v.size + 1 \in 0 .. g.capacity
      BY <1>1, <1>4
  <2> QED BY <1>4, <1>5, <1>6, <2>1, <2>2 DEF Holding, VectorOf
<1> QED BY <1>5, <1>6, <1>7 DEF w

-----------------------------------------------------------------------------
(* A file and a directory. *)

(* The inductive invariant: what is in use of the two vectors is bytes and *)
(* nodes.  RamFsInv leaves open what the cells in use hold.                *)
FsInv == /\ Holding(Bytes, file_data)
         /\ length = file_data.size
         /\ Holding(Children, children)

LEMMA Start == Init => FsInv
<1> DEFINE none == [k \in {} |-> Junk]
<1>1. EmptyVector = [cells |-> none, size |-> 0, capacity |-> 0]
    BY DEF EmptyVector
<1>2. 0 .. 0 - 1 = {}
    OBVIOUS
<1>3. \A items : none \in [0 .. 0 - 1 -> items \cup {Junk}]
    BY <1>2
<1> HIDE DEF none
<1>4. /\ DOMAIN EmptyVector = {"cells", "size", "capacity"}
      /\ EmptyVector.cells = none /\ EmptyVector.size = 0 /\ EmptyVector.capacity = 0
    BY <1>1
<1>5. \A items : Holding(items, EmptyVector)
    BY <1>2, <1>3, <1>4 DEF Holding, VectorOf
<1> QED BY <1>4, <1>5 DEF Init, FsInv

LEMMA ChunksTyped == ASSUME NEW chunk \in Chunks
                     PROVE  chunk \in Seq(Bytes) /\ Len(chunk) \in 0 .. MaxSize /\ DOMAIN chunk = 1 .. Len(chunk)
<1>1. PICK n \in 0 .. MaxSize : chunk \in [1 .. n -> Bytes]
    BY DEF Chunks
<1>2. n \in Nat
    OBVIOUS
<1>3. chunk \in Seq(Bytes)
    BY <1>1, <1>2, SeqDef
<1>4. 1 .. Len(chunk) = 1 .. n /\ Len(chunk) \in Nat /\ DOMAIN chunk = 1 .. Len(chunk)
    BY <1>1, <1>3, LenProperties
<1>5. Len(chunk) = n
  <2> DEFINE m == Len(chunk)
  <2>1. 1 .. m = 1 .. n /\ m \in Nat
      BY <1>4
  <2> HIDE DEF m
  <2>2. m = n
      BY <1>2, <2>1
  <2> QED BY <2>2 DEF m
<1> QED BY <1>3, <1>4, <1>5

(* The longer of the file and what the write reaches, its bytes the old    *)
(* ones, the written ones and zeros.                                       *)
LEMMA WriteDoes ==
    ASSUME FsInv, NEW offset \in 0 .. MaxOffset, NEW chunk \in Chunks, write(offset, chunk)
    PROVE  /\ FsInv'
           /\ length' = IF length > offset + Len(chunk) THEN length ELSE offset + Len(chunk)
           /\ \A k \in 0 .. length' - 1 :
                 file_data'.cells[k] = IF k - offset \in 0 .. Len(chunk) - 1 THEN chunk[k - offset + 1]
                                       ELSE IF k < length THEN file_data.cells[k]
                                       ELSE Zero
<1> DEFINE n == Len(chunk)
           end == offset + n
           room == IF end > length THEN Resized(file_data, end, Zero) ELSE file_data
           buffer == Buffer(chunk)
           cells == Copied(room.cells, offset, buffer, 0, n)
<1>1. /\ n \in Nat /\ offset \in Nat /\ end \in Nat
      /\ length \in Nat /\ length = file_data.size /\ Holding(Bytes, file_data)
      /\ chunk \in Seq(Bytes)
    BY ChunksTyped, BoundsAssumption DEF FsInv, Holding, VectorOf
<1>2. /\ file_data' = [room EXCEPT !.cells = cells]
      /\ length' = IF end > length THEN end ELSE length
      /\ children' = children
    BY DEF write
<1> HIDE DEF n, end
<1>3. /\ Holding(Bytes, room) /\ room.size = length'
      /\ \A k \in 0 .. length' - 1 : room.cells[k] = IF k < length THEN file_data.cells[k] ELSE Zero
  <2>1. CASE end > length
    <3>1. LET w == Resized(file_data, end, Zero)
          IN  /\ Holding(Bytes, w) /\ w.size = end
              /\ \A k \in 0 .. end - 1 : w.cells[k] = IF k < file_data.size THEN file_data.cells[k] ELSE Zero
        BY <1>1, <2>1, ResizedHolds, BytesAssumption
    <3> QED BY <1>1, <1>2, <2>1, <3>1
  <2>2. CASE ~ (end > length)
      BY <1>1, <1>2, <2>2
  <2> QED BY <2>1, <2>2
<1> HIDE DEF room
<1>4. /\ room.capacity \in Nat /\ length' \in 0 .. room.capacity
      /\ room.cells \in [0 .. room.capacity - 1 -> Bytes \cup {Junk}]
      /\ \A k \in 0 .. length' - 1 : room.cells[k] \in Bytes
    BY <1>3 DEF Holding, VectorOf
<1>5. \A k \in 0 .. n - 1 : Loaded(buffer, k) = chunk[k + 1] /\ chunk[k + 1] \in Bytes
  <2> SUFFICES ASSUME NEW k \in 0 .. n - 1 PROVE Loaded(buffer, k) = chunk[k + 1] /\ chunk[k + 1] \in Bytes
      OBVIOUS
  <2>1. buffer = [j \in 0 .. n - 1 |-> chunk[j + 1]]
      BY DEF Buffer, n
  <2>2. k + 1 \in 1 .. Len(chunk)
      BY <1>1 DEF n
  <2> HIDE DEF buffer
  <2> QED BY <1>1, <2>1, <2>2, ElementOfSeq DEF Loaded
<1>6. cells = [k \in 0 .. room.capacity - 1 |->
                 IF k - offset \in 0 .. n - 1 THEN Loaded(buffer, k - offset) ELSE room.cells[k]]
  <2>1. cells = [k \in DOMAIN room.cells |->
                   IF k - offset \in 0 .. n - 1 THEN Loaded(buffer, 0 + k - offset) ELSE room.cells[k]]
      BY <1>1, CopiedIs
  <2>2. \A k \in 0 .. room.capacity - 1 : 0 + k - offset = k - offset
      BY <1>1
  <2> HIDE DEF cells, buffer
  <2> QED BY <1>4, <2>1, <2>2
<1> HIDE DEF cells, buffer
<1>7. cells \in [0 .. room.capacity - 1 -> Bytes \cup {Junk}]
  <2>1. ASSUME NEW k \in 0 .. room.capacity - 1
        PROVE  (IF k - offset \in 0 .. n - 1 THEN Loaded(buffer, k - offset) ELSE room.cells[k]) \in Bytes \cup {Junk}
      BY <1>4, <1>5
  <2> QED BY <1>6, <2>1
<1>8. \A k \in 0 .. length' - 1 :
         cells[k] = IF k - offset \in 0 .. n - 1 THEN chunk[k - offset + 1]
                    ELSE IF k < length THEN file_data.cells[k] ELSE Zero
  <2> SUFFICES ASSUME NEW k \in 0 .. length' - 1
               PROVE  cells[k] = IF k - offset \in 0 .. n - 1 THEN chunk[k - offset + 1]
                                 ELSE IF k < length THEN file_data.cells[k] ELSE Zero
      OBVIOUS
  <2>1. k \in 0 .. room.capacity - 1
      BY <1>4
  <2> QED BY <1>3, <1>5, <1>6, <2>1
<1>9. \A k \in 0 .. length' - 1 : cells[k] \in Bytes
  <2> SUFFICES ASSUME NEW k \in 0 .. length' - 1 PROVE cells[k] \in Bytes
      OBVIOUS
  <2>1. k \in 0 .. room.capacity - 1
      BY <1>4
  <2> QED BY <1>4, <1>5, <1>6, <2>1
<1>10. /\ DOMAIN file_data' = {"cells", "size", "capacity"}
       /\ file_data'.cells = cells /\ file_data'.size = length' /\ file_data'.capacity = room.capacity
    BY <1>2, <1>3 DEF Holding
<1>11. Holding(Bytes, file_data')
    BY <1>4, <1>7, <1>9, <1>10 DEF Holding, VectorOf
<1>12. FsInv'
    BY <1>2, <1>10, <1>11 DEF FsInv
<1>13. length' = IF length > end THEN length ELSE end
    BY <1>1, <1>2
<1> QED BY <1>8, <1>10, <1>12, <1>13 DEF n, end

LEMMA AddDoes ==
    ASSUME FsInv, NEW child \in Children, add_child(child)
    PROVE  /\ FsInv' /\ UNCHANGED <<file_data, length>>
           /\ children'.size = children.size + 1
           /\ \A k \in 0 .. children.size - 1 : children'.cells[k] = children.cells[k]
           /\ children'.cells[children.size] = child
<1>1. LET w == Pushed(children, child)
      IN  /\ Holding(Children, w) /\ w.size = children.size + 1
          /\ \A k \in 0 .. children.size - 1 : w.cells[k] = children.cells[k]
          /\ w.cells[children.size] = child
    BY PushedHolds DEF FsInv
<1> QED BY <1>1 DEF add_child, FsInv

LEMMA Holds == Spec => []FsInv
<1>1. FsInv /\ [Next]_vars => FsInv'
  <2>1. FsInv /\ Next => FsInv'
      BY WriteDoes, AddDoes DEF Next
  <2>2. FsInv /\ UNCHANGED vars => FsInv'
      BY DEF FsInv, vars
  <2> QED BY <2>1, <2>2
<1> QED BY Start, <1>1, PTL DEF Spec

(* A read stops at the end of the file. *)
LEMMA ReadsTo ==
    ASSUME FsInv, NEW offset \in Nat, NEW size \in Nat, NEW k \in 0 .. size - 1
    PROVE  ReadBuffer(offset, size)[k] =
               IF offset + k < length THEN Contents[offset + k + 1] ELSE Untouched
<1> DEFINE n == ReadSize(offset, size)
           dest == [i \in 0 .. size - 1 |-> Untouched]
           cells == file_data.cells
<1>1. /\ length \in Nat /\ file_data.capacity \in Nat /\ length <= file_data.capacity
      /\ DOMAIN cells = 0 .. file_data.capacity - 1
    BY DEF FsInv, Holding, VectorOf
<1>2. n \in 0 .. size /\ (k < n <=> offset + k < length)
    BY <1>1 DEF ReadSize
<1> HIDE DEF n
<1>3. ReadBuffer(offset, size) =
         [i \in DOMAIN dest |-> IF i - 0 \in 0 .. n - 1 THEN Loaded(cells, offset + i - 0) ELSE dest[i]]
  <2>1. ReadBuffer(offset, size) = Copied(dest, 0, cells, offset, n)
      BY DEF ReadBuffer, n
  <2>2. n \in Nat
      BY <1>2
  <2> HIDE DEF dest, cells
  <2> QED BY <2>1, <2>2, CopiedIs
<1>4. ReadBuffer(offset, size)[k] = IF k < n THEN Loaded(cells, offset + k) ELSE Untouched
  <2>1. k - 0 = k /\ offset + k - 0 = offset + k /\ (k \in 0 .. n - 1 <=> k < n)
      BY <1>2
  <2>2. DOMAIN dest = 0 .. size - 1 /\ dest[k] = Untouched
      OBVIOUS
  <2> HIDE DEF dest, cells
  <2> QED BY <1>3, <2>1, <2>2
<1> HIDE DEF cells
<1>5. offset + k < length => Loaded(cells, offset + k) = Contents[offset + k + 1]
  <2> SUFFICES ASSUME offset + k < length PROVE Loaded(cells, offset + k) = Contents[offset + k + 1]
      OBVIOUS
  <2> DEFINE i == offset + k
  <2>1. i \in Nat /\ i \in 0 .. file_data.capacity - 1 /\ i + 1 \in 1 .. length /\ i + 1 - 1 = i
      BY <1>1
  <2> HIDE DEF i
  <2>2. Loaded(cells, i) = cells[i]
      BY <1>1, <2>1 DEF Loaded
  <2>3. Contents[i + 1] = cells[i]
      BY <2>1 DEF Contents, cells
  <2> QED BY <2>2, <2>3 DEF i
<1> QED BY <1>2, <1>4, <1>5

-----------------------------------------------------------------------------
(* What AbstractRamFs sees of it. *)

LEMMA ContentsTyped == ASSUME FsInv
                       PROVE  Contents \in Seq(Bytes) /\ Len(Contents) = length /\ DOMAIN Contents = 1 .. length
<1>1. length \in Nat /\ \A k \in 0 .. length - 1 : file_data.cells[k] \in Bytes
    BY DEF FsInv, Holding, VectorOf
<1>2. Contents \in [1 .. length -> Bytes]
  <2>1. \A i \in 1 .. length : i - 1 \in 0 .. length - 1
      BY <1>1
  <2> QED BY <1>1, <2>1 DEF Contents
<1> DEFINE s == Contents
<1> HIDE DEF s
<1>3. s \in [1 .. length -> Bytes]
    BY <1>2 DEF s
<1>4. s \in Seq(Bytes)
    BY <1>1, <1>3, SeqDef
<1>5. 1 .. Len(s) = 1 .. length /\ Len(s) \in Nat
    BY <1>3, <1>4, LenProperties
<1> QED BY <1>1, <1>3, <1>4, <1>5 DEF s

(* readdir ends at the vector's size, as no node in use is null. *)
ListedWhole == /\ Listed = [i \in 1 .. children.size |-> children.cells[i - 1]]
               /\ Listed \in Seq(Children) /\ Len(Listed) = children.size

LEMMA ListedIs == FsInv => ListedWhole
<1> SUFFICES ASSUME FsInv PROVE ListedWhole
    OBVIOUS
<1> DEFINE n == children.size
           Ends(m) == /\ \A i \in 0 .. m - 1 : Readdir(i) # Junk
                      /\ Readdir(m) = Junk
           last == CHOOSE m \in 0 .. children.capacity : Ends(m)
<1>1. /\ n \in Nat /\ children.capacity \in Nat /\ n \in 0 .. children.capacity
      /\ \A k \in 0 .. n - 1 : children.cells[k] \in Children
    BY DEF FsInv, Holding, VectorOf
<1>2. ASSUME NEW i \in Nat PROVE Readdir(i) = IF i >= n THEN Junk ELSE children.cells[i]
    BY DEF Readdir
<1> HIDE DEF n
<1>3. \A i \in 0 .. n - 1 : Readdir(i) = children.cells[i] /\ Readdir(i) # Junk
  <2>1. \A i \in 0 .. n - 1 : i \in Nat /\ ~ (i >= n)
      BY <1>1
  <2> QED BY <1>1, <1>2, <2>1, BytesAssumption
<1>4. Ends(n)
    BY <1>1, <1>2, <1>3
<1>5. ASSUME NEW m \in 0 .. children.capacity, Ends(m) PROVE m = n
  <2>1. ~ (m < n)
      BY <1>1, <1>3, <1>5
  <2>2. ~ (n < m)
      BY <1>1, <1>4, <1>5
  <2> QED BY <1>1, <2>1, <2>2
<1>6. last = n
  <2> HIDE DEF Ends
  <2> QED BY <1>1, <1>4, <1>5
<1>7. Listed = [i \in 1 .. last |-> Readdir(i - 1)]
    BY DEF Listed
<1> HIDE DEF last
<1>8. Listed = [i \in 1 .. n |-> children.cells[i - 1]]
  <2>1. \A i \in 1 .. n : i - 1 \in 0 .. n - 1
      BY <1>1
  <2> QED BY <1>3, <1>6, <1>7, <2>1
<1>9. Listed \in [1 .. n -> Children]
  <2>1. \A i \in 1 .. n : i - 1 \in 0 .. n - 1
      BY <1>1
  <2> QED BY <1>1, <1>8, <2>1
<1> DEFINE s == Listed
<1> HIDE DEF s
<1>10. s \in [1 .. n -> Children]
    BY <1>9 DEF s
<1>11. s \in Seq(Children)
    BY <1>1, <1>10, SeqDef
<1>12. 1 .. Len(s) = 1 .. n /\ Len(s) \in Nat
    BY <1>10, <1>11, LenProperties
<1> QED BY <1>1, <1>8, <1>11, <1>12 DEF s, n, ListedWhole

LEMMA ListedAfter == FsInv' => ListedWhole'
BY ListedIs, PTL

LEMMA WriteKeepsPromise ==
    ASSUME FsInv, NEW offset \in 0 .. MaxOffset, NEW chunk \in Chunks, write(offset, chunk)
    PROVE  Promise!Write(offset, chunk)
<1> DEFINE n == Len(chunk)
           long == Promise!Longer(Len(Contents), offset + n)
           after == [i \in 1 .. long |-> IF i - offset \in DOMAIN chunk THEN chunk[i - offset]
                                         ELSE IF i \in DOMAIN Contents THEN Contents[i] ELSE Zero]
<1>1. /\ n \in Nat /\ DOMAIN chunk = 1 .. n /\ offset \in Nat
      /\ length \in Nat /\ Len(Contents) = length /\ DOMAIN Contents = 1 .. length
    BY ChunksTyped, ContentsTyped, BoundsAssumption DEF FsInv, Holding, VectorOf
<1>2. length' = IF length > offset + n THEN length ELSE offset + n
    BY WriteDoes
<1>3. \A k \in 0 .. length' - 1 :
         file_data'.cells[k] = IF k - offset \in 0 .. n - 1 THEN chunk[k - offset + 1]
                               ELSE IF k < length THEN file_data.cells[k] ELSE Zero
    BY WriteDoes
<1> HIDE DEF n
<1>4. long = length'
    BY <1>1, <1>2 DEF Promise!Longer
<1>5. length' \in Nat
    BY <1>1, <1>2
<1>6. ASSUME NEW i \in 1 .. length'
      PROVE  file_data'.cells[i - 1] = IF i - offset \in DOMAIN chunk THEN chunk[i - offset]
                                       ELSE IF i \in DOMAIN Contents THEN Contents[i] ELSE Zero
  <2> DEFINE k == i - 1
  <2>1. /\ k \in 0 .. length' - 1
        /\ k - offset + 1 = i - offset
        /\ (k < length) <=> (i \in 1 .. length)
    <3>1. i \in Int /\ 1 <= i /\ i <= length' /\ offset \in Int /\ length \in Int
        BY <1>1, <1>5
    <3>2. k \in 0 .. length' - 1
      <4> DEFINE m == length'
      <4>1. m \in Int /\ i \in Int /\ 1 <= i /\ i <= m
          BY <1>5, <3>1
      <4> HIDE DEF m
      <4>2. k \in 0 .. m - 1
          BY <4>1
      <4> QED BY <4>2 DEF m
    <3>3. k - offset + 1 = i - offset
        BY <3>1
    <3>4. (k < length) <=> (i \in 1 .. length)
        BY <3>1
    <3> QED BY <3>2, <3>3, <3>4
  <2>5. (k - offset \in 0 .. n - 1) <=> (i - offset \in 1 .. n)
    <3>1. i \in Int /\ offset \in Int /\ n \in Int
        BY <1>1, <1>5
    <3> QED BY <3>1
  <2>2. i \in 1 .. length => Contents[i] = file_data.cells[k]
      BY DEF Contents
  <2> HIDE DEF k
  <2>3. file_data'.cells[k] = IF k - offset \in 0 .. n - 1 THEN chunk[k - offset + 1]
                              ELSE IF k < length THEN file_data.cells[k] ELSE Zero
      BY <1>3, <2>1
  <2>4. file_data'.cells[k] = IF i - offset \in DOMAIN chunk THEN chunk[i - offset]
                              ELSE IF i \in DOMAIN Contents THEN Contents[i] ELSE Zero
      BY <1>1, <2>1, <2>2, <2>3, <2>5
  <2> QED BY <2>4 DEF k
<1> HIDE DEF long
<1>7. Contents' = after
    BY <1>4, <1>6 DEF Contents
<1>8. Listed' = Listed
    BY DEF write, Listed, Readdir
<1> QED BY <1>7, <1>8 DEF Promise!Write, after, long, n

LEMMA AddKeepsPromise ==
    ASSUME FsInv, NEW child \in Children, add_child(child)
    PROVE  Promise!Add(child)
<1> DEFINE n == children.size
           more == Append(Listed, child)
           now == Listed'
<1>1. /\ FsInv' /\ UNCHANGED <<file_data, length>> /\ children'.size = n + 1
      /\ \A k \in 0 .. n - 1 : children'.cells[k] = children.cells[k]
      /\ children'.cells[n] = child
    BY AddDoes
<1>2. /\ n \in Nat
      /\ Listed = [i \in 1 .. n |-> children.cells[i - 1]] /\ Listed \in Seq(Children) /\ Len(Listed) = n
    BY ListedIs DEF ListedWhole, FsInv, Holding, VectorOf
<1>3. /\ now = [i \in 1 .. n + 1 |-> children'.cells[i - 1]]
      /\ now \in Seq(Children) /\ Len(now) = n + 1
    BY <1>1, ListedAfter DEF ListedWhole
<1>4. /\ more \in Seq(Children) /\ Len(more) = n + 1
      /\ \A i \in 1 .. n : more[i] = Listed[i]
      /\ more[n + 1] = child
    BY <1>2, AppendProperties
<1> HIDE DEF n, more, now
<1>5. ASSUME NEW i \in 1 .. Len(now) PROVE now[i] = more[i]
  <2>1. CASE i = n + 1
    <3>1. i - 1 = n
        BY <1>2, <2>1
    <3> QED BY <1>1, <1>3, <1>4, <2>1, <3>1
  <2>2. CASE i # n + 1
    <3>1. i \in 1 .. n /\ i - 1 \in 0 .. n - 1
        BY <1>2, <1>3, <2>2
    <3> QED BY <1>1, <1>2, <1>3, <1>4, <3>1
  <2> QED BY <2>1, <2>2
<1>6. now = more
    BY <1>3, <1>4, <1>5, SeqEqual
<1>7. Contents' = Contents
    BY <1>1 DEF Contents
<1> QED BY <1>6, <1>7 DEF Promise!Add, now, more

-----------------------------------------------------------------------------
(* memmove. *)

(* How far its first steps have come. *)
Edge(count, k) == IF k <= count \div Word THEN k * Word
                  ELSE (count \div Word) * Word + k - (count \div Word)

LEMMA Edges ==
    ASSUME NEW count \in Nat
    PROVE  LET steps == (count \div Word) + (count % Word)
           IN  /\ steps \in Nat /\ Edge(count, 0) = 0 /\ Edge(count, steps) = count
               /\ \A k \in 0 .. steps : Edge(count, k) \in 0 .. count
               /\ \A k \in 1 .. steps :
                     /\ Edge(count, k - 1) <= Edge(count, k)
                     /\ UpStep(count, k) = Edge(count, k - 1) .. Edge(count, k) - 1
                     /\ DownStep(count, k) = count - Edge(count, k) .. count - Edge(count, k - 1) - 1
<1> DEFINE words == count \div Word
           rest  == count % Word
           steps == words + rest
<1>1. Word \in Nat \ {0}
    BY WordAssumption
<1>2. words \in Nat /\ rest \in 0 .. Word - 1 /\ count = Word * words + rest
    BY <1>1, Divided
<1>3. \A k : Edge(count, k) = IF k <= words THEN k * Word ELSE words * Word + k - words
    BY DEF Edge
<1>4. \A k : UpStep(count, k) = IF k <= words THEN (k - 1) * Word .. k * Word - 1
                                ELSE {words * Word + k - words - 1}
    BY DEF UpStep
<1>5. \A k : DownStep(count, k) = IF k <= words THEN count - k * Word .. count - (k - 1) * Word - 1
                                  ELSE {rest - (k - words)}
    BY DEF DownStep
<1> HIDE DEF words, rest
<1>6. \A k \in Nat : k * Word \in Nat /\ (k - 1) * Word = k * Word - Word
    BY <1>1
<1>7. words * Word = Word * words /\ words * Word \in Nat
    BY <1>1, <1>2
<1>8. \A k \in 0 .. words : k * Word <= words * Word
  <2> SUFFICES ASSUME NEW k \in 0 .. words PROVE k * Word <= words * Word
      OBVIOUS
  <2>1. words - k \in Nat /\ (words - k) * Word \in Nat /\ words * Word = k * Word + (words - k) * Word
      BY <1>1, <1>2
  <2>2. k * Word \in Nat
      BY <1>2, <1>6
  <2> QED BY <1>7, <2>1, <2>2
<1>9. steps \in Nat /\ Edge(count, 0) = 0 /\ Edge(count, steps) = count
  <2>1. Edge(count, 0) = 0
      BY <1>1, <1>2, <1>3
  <2>2. CASE rest = 0
    <3>1. steps = words /\ words <= words
        BY <1>2, <2>2
    <3> HIDE DEF steps
    <3>2. Edge(count, steps) = words * Word
        BY <1>3, <3>1
    <3> QED BY <1>2, <1>7, <2>1, <2>2, <3>1, <3>2
  <2>3. CASE rest # 0
    <3>1. steps \in Nat /\ ~ (steps <= words) /\ steps - words = rest
        BY <1>2, <2>3
    <3>2. words * Word + steps - words = words * Word + rest
        BY <1>2, <1>7
    <3> HIDE DEF steps
    <3>3. Edge(count, steps) = words * Word + steps - words
        BY <1>3, <3>1
    <3> QED BY <1>2, <1>7, <2>1, <3>1, <3>2, <3>3
  <2> QED BY <2>2, <2>3
<1>10. \A k \in 0 .. steps : Edge(count, k) \in 0 .. count
  <2> SUFFICES ASSUME NEW k \in 0 .. steps PROVE Edge(count, k) \in 0 .. count
      OBVIOUS
  <2>1. CASE k <= words
    <3>1. k \in 0 .. words /\ k \in Nat
        BY <1>2, <2>1
    <3>2. k * Word \in Nat /\ k * Word <= words * Word /\ Edge(count, k) = k * Word
        BY <1>3, <1>6, <1>8, <2>1, <3>1
    <3> QED BY <1>2, <1>7, <3>2
  <2>2. CASE ~ (k <= words)
    <3>1. Edge(count, k) = words * Word + k - words
        BY <1>3, <2>2
    <3> QED BY <1>2, <1>7, <2>2, <3>1
  <2> QED BY <2>1, <2>2
<1>11. ASSUME NEW k \in 1 .. steps
       PROVE  /\ Edge(count, k - 1) <= Edge(count, k)
              /\ UpStep(count, k) = Edge(count, k - 1) .. Edge(count, k) - 1
              /\ DownStep(count, k) = count - Edge(count, k) .. count - Edge(count, k - 1) - 1
  <2>1. CASE k <= words
    <3>1. k - 1 <= words /\ k \in Nat
        BY <1>2, <2>1
    <3>2. Edge(count, k) = k * Word /\ Edge(count, k - 1) = (k - 1) * Word
        BY <1>3, <2>1, <3>1
    <3>3. k * Word \in Nat /\ (k - 1) * Word = k * Word - Word
        BY <1>6, <3>1
    <3>4. (k - 1) * Word <= k * Word
        BY <1>1, <3>3
    <3> QED BY <1>4, <1>5, <2>1, <3>2, <3>4
  <2>2. CASE ~ (k <= words)
    <3> DEFINE e == words * Word + k - words
    <3>1. e \in Int /\ k \in Nat /\ e - 1 = words * Word + (k - 1) - words /\ e - 1 = words * Word + k - words - 1
        BY <1>2, <1>7
    <3>2. Edge(count, k) = e
        BY <1>3, <2>2
    <3>3. Edge(count, k - 1) = e - 1
      <4>1. CASE k - 1 <= words
        <5>1. k - 1 = words
            BY <1>2, <2>2, <4>1
        <5>2. e - 1 = words * Word
            BY <1>2, <1>7, <5>1
        <5> HIDE DEF e
        <5>3. Edge(count, k - 1) = (k - 1) * Word
            BY <1>3, <4>1
        <5> QED BY <5>1, <5>2, <5>3
      <4>2. CASE ~ (k - 1 <= words)
        <5>1. Edge(count, k - 1) = words * Word + (k - 1) - words
            BY <1>3, <4>2
        <5> QED BY <3>1, <5>1
      <4> QED BY <4>1, <4>2
    <3>4. UpStep(count, k) = {e - 1}
        BY <1>4, <2>2, <3>1
    <3>5. DownStep(count, k) = {count - e}
      <4>1. rest - (k - words) = count - e
          BY <1>2, <1>7
      <4> QED BY <1>5, <2>2, <4>1
    <3> HIDE DEF e
    <3>6. {e - 1} = e - 1 .. e - 1 /\ {count - e} = count - e .. count - (e - 1) - 1 /\ e - 1 <= e
        BY <3>1
    <3> QED BY <3>2, <3>3, <3>4, <3>5, <3>6
  <2> QED BY <2>1, <2>2
<1> QED BY <1>9, <1>10, <1>11 DEF words, rest

StepOf(dest, src, count, k) ==
    IF dest < src \/ dest >= src + count THEN UpStep(count, k) ELSE DownStep(count, k)

(* Of a recursive function: it moves memory step by step. *)
Moves(after, memory, dest, src, count, steps) ==
    after = [k \in 0 .. steps |->
               IF k = 0 THEN memory
               ELSE [i \in DOMAIN memory |-> IF i - dest \in StepOf(dest, src, count, k)
                                             THEN after[k - 1][src + i - dest]
                                             ELSE after[k - 1][i]]]

LEMMA StepInside ==
    ASSUME NEW dest \in Nat, NEW src \in Nat, NEW count \in Nat,
           NEW k \in 1 .. (count \div Word) + (count % Word)
    PROVE  StepOf(dest, src, count, k) \subseteq 0 .. count - 1
<1> DEFINE steps == (count \div Word) + (count % Word)
           high == Edge(count, k)
           low == Edge(count, k - 1)
<1>1. /\ steps \in Nat /\ high \in 0 .. count /\ low <= high
      /\ UpStep(count, k) = low .. high - 1
      /\ DownStep(count, k) = count - high .. count - low - 1
    BY Edges
<1>2. low \in 0 .. count
  <2>1. k - 1 \in 0 .. steps
      BY <1>1
  <2> QED BY <2>1, Edges
<1> HIDE DEF steps, high, low
<1>3. UpStep(count, k) \subseteq 0 .. count - 1 /\ DownStep(count, k) \subseteq 0 .. count - 1
    BY <1>1, <1>2
<1> QED BY <1>3 DEF StepOf

LEMMA MovesThere ==
    ASSUME NEW last \in Nat, NEW dest \in Nat, NEW src \in Nat, NEW count \in Nat,
           dest + count <= last + 1, src + count <= last + 1,
           NEW V, NEW memory \in [0 .. last -> V]
    PROVE  \E after : Moves(after, memory, dest, src, count, (count \div Word) + (count % Word))
<1> DEFINE steps == (count \div Word) + (count % Word)
           D == 0 .. last
           S == [D -> V]
           Stepped(k, m) == [i \in D |-> IF i - dest \in StepOf(dest, src, count, k)
                                         THEN m[src + i - dest] ELSE m[i]]
           step == [k \in 1 .. steps |-> [m \in S |-> Stepped(k, m)]]
<1>1. steps \in Nat
    BY Edges
<1>2. ASSUME NEW k \in 1 .. steps, NEW m \in S PROVE Stepped(k, m) \in S
  <2>1. StepOf(dest, src, count, k) \subseteq 0 .. count - 1
      BY StepInside
  <2>2. ASSUME NEW i \in D, i - dest \in StepOf(dest, src, count, k) PROVE src + i - dest \in D
      BY <2>1, <2>2
  <2>3. ASSUME NEW i \in D
        PROVE  (IF i - dest \in StepOf(dest, src, count, k) THEN m[src + i - dest] ELSE m[i]) \in V
      BY <2>2
  <2> QED BY <2>3
<1> HIDE DEF Stepped, S, steps
<1>3. step \in [1 .. steps -> [S -> S]]
    BY <1>2
<1>4. \A k \in 1 .. steps, m \in S : step[k][m] = Stepped(k, m)
    OBVIOUS
<1>5. memory \in S
    BY DEF S
<1> HIDE DEF step
<1>6. PICK after \in [0 .. steps -> S] : GoesBy(after, memory, step, steps)
    BY <1>1, <1>3, <1>5, Recursion
<1>7. ASSUME NEW k \in 0 .. steps
      PROVE  after[k] = IF k = 0 THEN memory ELSE Stepped(k, after[k - 1])
  <2>1. CASE k = 0
      BY <1>6, <2>1 DEF GoesBy
  <2>2. CASE k # 0
    <3>1. k \in 1 .. steps /\ k - 1 \in 0 .. steps
        BY <1>1, <2>2
    <3>2. after[k - 1] \in S /\ after[k] = step[k][after[k - 1]]
        BY <1>6, <3>1 DEF GoesBy
    <3> QED BY <1>4, <2>2, <3>1, <3>2
  <2> QED BY <2>1, <2>2
<1>8. after = [k \in 0 .. steps |-> IF k = 0 THEN memory ELSE Stepped(k, after[k - 1])]
    BY <1>6, <1>7
<1>9. DOMAIN memory = D
    OBVIOUS
<1>10. Moves(after, memory, dest, src, count, steps)
    BY <1>8, <1>9 DEF Moves, Stepped
<1> QED BY <1>10 DEF steps

(* The bytes that the first k steps have moved. *)
MovedBy(dest, src, count, k) ==
    IF dest < src \/ dest >= src + count THEN 0 .. Edge(count, k) - 1
                                         ELSE count - Edge(count, k) .. count - 1

MovedTo(now, memory, dest, src, count, k, last) ==
    \A i \in 0 .. last :
        now[i] = IF i - dest \in MovedBy(dest, src, count, k) THEN memory[src + i - dest] ELSE memory[i]

(* What the first steps have moved: none reads what another has written. *)
LEMMA MovesOn ==
    ASSUME NEW last \in Nat, NEW dest \in Nat, NEW src \in Nat, NEW count \in Nat,
           dest + count <= last + 1, src + count <= last + 1, dest # src,
           NEW V, NEW memory \in [0 .. last -> V], NEW after,
           Moves(after, memory, dest, src, count, (count \div Word) + (count % Word)),
           NEW k \in 0 .. (count \div Word) + (count % Word)
    PROVE  MovedTo(after[k], memory, dest, src, count, k, last)
<1> DEFINE steps == (count \div Word) + (count % Word)
           up == dest < src \/ dest >= src + count
           Moved_(n) == MovedBy(dest, src, count, n)
           Good(n) == \A i \in 0 .. last :
                         after[n][i] = IF i - dest \in Moved_(n) THEN memory[src + i - dest] ELSE memory[i]
           T == {n \in 0 .. steps : ~ Good(n)}
<1>1. steps \in Nat /\ Edge(count, 0) = 0
    BY Edges
<1>2. DOMAIN memory = 0 .. last
    OBVIOUS
<1>3. /\ after[0] = memory
      /\ \A n \in 1 .. steps :
           after[n] = [i \in 0 .. last |-> IF i - dest \in StepOf(dest, src, count, n)
                                           THEN after[n - 1][src + i - dest]
                                           ELSE after[n - 1][i]]
  <2>1. \A n \in 0 .. steps :
           after[n] = IF n = 0 THEN memory
                      ELSE [i \in 0 .. last |-> IF i - dest \in StepOf(dest, src, count, n)
                                                THEN after[n - 1][src + i - dest]
                                                ELSE after[n - 1][i]]
      BY <1>2 DEF Moves
  <2>2. 0 \in 0 .. steps /\ \A n \in 1 .. steps : n \in 0 .. steps /\ n # 0
      BY <1>1
  <2> HIDE DEF steps
  <2> QED BY <2>1, <2>2
<1>4. Good(0)
  <2>1. Moved_(0) = {}
      BY <1>1 DEF MovedBy
  <2> HIDE DEF Moved_
  <2> QED BY <1>3, <2>1
<1>5. ASSUME NEW n \in 1 .. steps, Good(n - 1) PROVE Good(n)
  <2> DEFINE low == Edge(count, n - 1)
             high == Edge(count, n)
  <2>1. /\ n - 1 \in 0 .. steps /\ n \in 0 .. steps
      BY <1>1
  <2>2. low \in 0 .. count /\ high \in 0 .. count
      BY <2>1, Edges
  <2>3. /\ low <= high
        /\ UpStep(count, n) = low .. high - 1
        /\ DownStep(count, n) = count - high .. count - low - 1
      BY Edges
  <2>4. Moved_(n) = IF up THEN 0 .. high - 1 ELSE count - high .. count - 1
      BY DEF MovedBy
  <2>5. Moved_(n - 1) = IF up THEN 0 .. low - 1 ELSE count - low .. count - 1
      BY DEF MovedBy
  <2>6. StepOf(dest, src, count, n) = IF up THEN low .. high - 1 ELSE count - high .. count - low - 1
      BY <2>3 DEF StepOf
  <2> HIDE DEF Moved_, low, high, steps
  <2>7. ASSUME NEW i \in 0 .. last, i - dest \in StepOf(dest, src, count, n)
        PROVE  /\ src + i - dest \in 0 .. last
               /\ src + i - dest - dest \notin Moved_(n - 1)
               /\ i - dest \in Moved_(n)
    <3>1. CASE up
        BY <2>2, <2>3, <2>4, <2>5, <2>6, <2>7, <3>1
    <3>2. CASE ~up
        BY <2>2, <2>3, <2>4, <2>5, <2>6, <2>7, <3>2
    <3> QED BY <3>1, <3>2
  <2>8. ASSUME NEW i \in 0 .. last, i - dest \notin StepOf(dest, src, count, n)
        PROVE  i - dest \in Moved_(n - 1) <=> i - dest \in Moved_(n)
    <3>1. CASE up
        BY <2>2, <2>3, <2>4, <2>5, <2>6, <2>8, <3>1
    <3>2. CASE ~up
        BY <2>2, <2>3, <2>4, <2>5, <2>6, <2>8, <3>2
    <3> QED BY <3>1, <3>2
  <2>9. ASSUME NEW i \in 0 .. last
        PROVE  after[n][i] = IF i - dest \in Moved_(n) THEN memory[src + i - dest] ELSE memory[i]
    <3>1. after[n][i] = IF i - dest \in StepOf(dest, src, count, n)
                        THEN after[n - 1][src + i - dest] ELSE after[n - 1][i]
        BY <1>3
    <3>2. CASE i - dest \in StepOf(dest, src, count, n)
      <4> DEFINE j == src + i - dest
      <4>1. j \in 0 .. last /\ j - dest \notin Moved_(n - 1) /\ i - dest \in Moved_(n)
          BY <2>7, <3>2
      <4>2. after[n][i] = after[n - 1][j]
          BY <3>1, <3>2
      <4> HIDE DEF j
      <4>3. after[n - 1][j] = memory[j]
          BY <1>5, <4>1
      <4> QED BY <4>1, <4>2, <4>3 DEF j
    <3>3. CASE i - dest \notin StepOf(dest, src, count, n)
      <4>1. after[n][i] = after[n - 1][i]
          BY <3>1, <3>3
      <4> QED BY <1>5, <2>8, <3>3, <4>1
    <3> QED BY <3>2, <3>3
  <2> QED BY <2>9
<1> HIDE DEF Good, steps
<1>6. ASSUME NEW n \in T, \A m \in T : n <= m PROVE FALSE
  <2>1. n \in 1 .. steps /\ n - 1 \in 0 .. steps /\ n - 1 < n /\ ~ Good(n)
      BY <1>1, <1>4
  <2>2. n - 1 \notin T
    <3> HIDE DEF T
    <3> QED BY <1>6, <2>1
  <2> QED BY <1>5, <2>1, <2>2
<1>7. T = {}
  <2>1. T \subseteq Nat
      OBVIOUS
  <2> HIDE DEF T
  <2> QED BY <1>6, <2>1, Least
<1>8. Good(k)
    BY <1>7 DEF steps
<1> QED BY <1>8 DEF Good, MovedTo

(* A memory of cells 0 .. last in which a block has been moved. *)
Whole(memory, dest, src, count, last) ==
    [i \in 0 .. last |-> IF i - dest \in 0 .. count - 1 THEN memory[src + i - dest] ELSE memory[i]]

LEMMA MovedIs ==
    ASSUME NEW last \in Nat, NEW dest \in Nat, NEW src \in Nat, NEW count \in Nat,
           dest + count <= last + 1, src + count <= last + 1,
           NEW V, NEW memory \in [0 .. last -> V]
    PROVE  Moved(memory, dest, src, count) = Whole(memory, dest, src, count, last)
<1> DEFINE steps == (count \div Word) + (count % Word)
           after == CHOOSE f : Moves(f, memory, dest, src, count, steps)
           whole == Whole(memory, dest, src, count, last)
<1>1. Moved(memory, dest, src, count) = IF dest = src THEN memory ELSE after[steps]
    BY DEF Moved, Moves, StepOf
<1>2. CASE dest = src
  <2>1. \A i \in 0 .. last : src + i - dest = i
      BY <1>2
  <2>2. whole = [i \in 0 .. last |-> memory[i]]
      BY <2>1 DEF Whole
  <2>3. memory = [i \in 0 .. last |-> memory[i]]
      OBVIOUS
  <2> HIDE DEF whole
  <2> QED BY <1>1, <1>2, <2>2, <2>3 DEF whole
<1>3. CASE dest # src
  <2>1. Moves(after, memory, dest, src, count, steps)
      BY MovesThere
  <2>2. steps \in Nat /\ Edge(count, steps) = count /\ Edge(count, 0) = 0
      BY Edges
  <2> HIDE DEF after
  <2>3. DOMAIN after[steps] = 0 .. last
    <3>1. /\ after[steps] = IF steps = 0 THEN memory
                            ELSE [i \in DOMAIN memory |-> IF i - dest \in StepOf(dest, src, count, steps)
                                                          THEN after[steps - 1][src + i - dest]
                                                          ELSE after[steps - 1][i]]
      <4> HIDE DEF steps
      <4>1. steps \in 0 .. steps
          BY <2>2
      <4> QED BY <2>1, <4>1 DEF Moves
    <3> HIDE DEF steps
    <3> QED BY <3>1
  <2>4. \A i \in 0 .. last :
           after[steps][i] = IF i - dest \in MovedBy(dest, src, count, steps)
                             THEN memory[src + i - dest] ELSE memory[i]
    <3>1. steps \in 0 .. steps
        BY <2>2
    <3>2. MovedTo(after[steps], memory, dest, src, count, steps, last)
        BY <1>3, <2>1, <3>1, MovesOn
    <3> QED BY <3>2 DEF MovedTo
  <2>5. \A i \in 0 .. last : after[steps][i] = whole[i]
    <3> HIDE DEF steps
    <3>1. MovedBy(dest, src, count, steps) = 0 .. count - 1
        BY <2>2 DEF MovedBy
    <3> QED BY <2>4, <3>1 DEF Whole
  <2>6. after[steps] = [i \in 0 .. last |-> after[steps][i]]
    <3>1. after[steps] = [i \in DOMAIN after[steps] |-> after[steps][i]]
      <4> HIDE DEF steps
      <4>1. steps \in 0 .. steps
          BY <2>2
      <4>2. after[steps] = IF steps = 0 THEN memory
                           ELSE [i \in DOMAIN memory |-> IF i - dest \in StepOf(dest, src, count, steps)
                                                         THEN after[steps - 1][src + i - dest]
                                                         ELSE after[steps - 1][i]]
          BY <2>1, <4>1 DEF Moves
      <4> QED BY <4>2
    <3> HIDE DEF steps
    <3> QED BY <2>3, <3>1
  <2>7. whole = [i \in 0 .. last |-> whole[i]]
      BY DEF Whole
  <2> HIDE DEF steps, whole
  <2>8. after[steps] = whole
      BY <2>5, <2>6, <2>7
  <2> QED BY <1>1, <1>3, <2>8 DEF whole
<1> QED BY <1>2, <1>3

LEMMA MovesWholeAlways == MovesWhole
<1> DEFINE last == 2 * Unroll * Word + 1
<1>1. last \in Nat
  <2>1. Unroll \in Nat /\ Word \in Nat /\ 2 * Unroll \in Nat
      BY WordAssumption
  <2>2. (2 * Unroll) * Word \in Nat
      BY <2>1, Products
  <2> QED BY <2>2
<1>2. ASSUME NEW dest \in 0 .. last, NEW src \in 0 .. last, NEW count \in 0 .. last,
             {dest, src} \subseteq 0 .. last + 1 - count
      PROVE  Moved([i \in 0 .. last |-> i], dest, src, count) =
                 [i \in 0 .. last |-> IF i - dest \in 0 .. count - 1 THEN src + i - dest ELSE i]
  <2> HIDE DEF last
  <2> DEFINE memory == [i \in 0 .. last |-> i]
  <2>1. /\ dest \in Nat /\ src \in Nat /\ count \in Nat
        /\ dest + count <= last + 1 /\ src + count <= last + 1
        /\ memory \in [0 .. last -> Int]
      BY <1>1, <1>2
  <2>2. Moved(memory, dest, src, count) = Whole(memory, dest, src, count, last)
    <3> HIDE DEF memory
    <3> QED BY <1>1, <2>1, MovedIs
  <2>3. ASSUME NEW i \in 0 .. last
        PROVE  (IF i - dest \in 0 .. count - 1 THEN memory[src + i - dest] ELSE memory[i]) =
                   IF i - dest \in 0 .. count - 1 THEN src + i - dest ELSE i
    <3>1. i - dest \in 0 .. count - 1 => src + i - dest \in 0 .. last
        BY <1>1, <2>1
    <3> QED BY <3>1
  <2> HIDE DEF memory
  <2> QED BY <2>2, <2>3 DEF memory, Whole
<1> QED BY <1>2 DEF MovesWhole

-----------------------------------------------------------------------------
(* The theorems. *)

(* For every word size and any writes: a vector never uses cells it does   *)
(* not have, a file's length is its vector's size (ramfs.cpp, write), a    *)
(* read gives what is in the file up to its end, and memmove moves every   *)
(* overlap right (memmove.cpp).                                            *)
THEOREM ReadsRight == Spec => []RamFsInv
<1>1. FsInv => RamFsInv
  <2> SUFFICES ASSUME FsInv PROVE RamFsInv
      OBVIOUS
  <2>1. TypeOK
      BY DEF TypeOK, FsInv, Holding
  <2>2. ReadsContents
    <3>1. \A offset \in 0 .. MaxOffset + MaxSize : offset \in Nat
        OBVIOUS
    <3>2. \A size \in 0 .. MaxSize : size \in Nat
        OBVIOUS
    <3> QED BY <3>1, <3>2, ReadsTo DEF ReadsContents
  <2> QED BY <2>1, <2>2, MovesWholeAlways DEF RamFsInv
<1> QED BY Holds, <1>1, PTL

(* For every word size and any writes and additions: writes overlay the    *)
(* file, extend it and fill the hole with zeros, and the listing is what   *)
(* was added, whatever memory the vectors were moved to held before        *)
(* (ramfs.cpp, Vector.hpp, memcpy.cpp, memset.cpp).                        *)
THEOREM Refinement == Spec => RamFsSpec
<1>1. Init => Promise!Init
  <2> SUFFICES ASSUME Init PROVE Contents = <<>> /\ Listed = <<>>
      BY DEF Promise!Init
  <2>1. FsInv
      BY Start
  <2>2. length = 0 /\ children.size = 0
      BY DEF Init, EmptyVector
  <2>3. /\ Contents \in Seq(Bytes) /\ Len(Contents) = 0
        /\ Listed \in Seq(Children) /\ Len(Listed) = 0
      BY <2>1, <2>2, ContentsTyped, ListedIs DEF ListedWhole
  <2> QED BY <2>3, EmptySeq
<1>2. FsInv /\ [Next]_vars => [Promise!Next]_<<Contents, Listed>>
  <2>1. FsInv /\ Next => Promise!Next
      BY WriteKeepsPromise, AddKeepsPromise DEF Next, Promise!Next
  <2>2. UNCHANGED vars => UNCHANGED <<Contents, Listed>>
      BY DEF vars, Contents, Listed, Readdir
  <2> QED BY <2>1, <2>2
<1> QED BY Holds, <1>1, <1>2, PTL DEF Spec, RamFsSpec, Promise!Spec
=============================================================================
