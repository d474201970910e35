--------------------------- MODULE DesktopProofs ---------------------------
(***************************************************************************)
(* Proofs about Desktop, for every screen and every set of windows: the    *)
(* list is a chain in both directions and changes as ZOrder says, a        *)
(* release ends a drag, and a press acts on the part of the window that is *)
(* drawn at the pointer.                                                   *)
(***************************************************************************)
EXTENDS Desktop, FiniteSetTheorems, SequenceTheorems, WellFoundedInduction, TLAPS

-----------------------------------------------------------------------------
(* A set of natural numbers has a least one. *)
LEMMA Least == ASSUME NEW T, T \subseteq Nat, T # {}
               PROVE  \E x \in T : \A y \in T : x <= y
<1> DEFINE R == {p \in Nat \X Nat : p[1] < p[2]}
<1>1. IsWellFoundedOn(R, Nat)
    BY NatLessThanWellFounded DEF OpToRel
<1>2. PICK x \in T : \A y \in T : ~ (<<y, x>> \in R)
  <2> HIDE DEF R
  <2> QED BY <1>1, WFMin
<1>3. \A y \in T : ~ (y < x)
    BY <1>2
<1> QED BY <1>3

-----------------------------------------------------------------------------
(* The list. *)

(* A window is on it once. *)
Injective(order) == \A i, j \in 1 .. Len(order) : order[i] = order[j] => i = j

(* The pointer `start` and the pointers of `field` lead through order. *)
Leads(order, start, field) ==
    /\ Len(order) = 0 => start = Null
    /\ Len(order) > 0 => start = order[1]
    /\ \A i \in 1 .. Len(order) - 1 : field[order[i]] = order[i + 1]
    /\ Len(order) > 0 => field[order[Len(order)]] = Null

LEMMA Fits == ASSUME NEW order \in Seq(Windows), Injective(order)
              PROVE  /\ Cardinality(Windows) \in Nat
                     /\ Len(order) \in Nat
                     /\ Len(order) <= Cardinality(Windows)
<1>1. Len(order) \in Nat /\ order \in [1 .. Len(order) -> Windows]
    BY LenProperties
<1>2. order \in Injection(1 .. Len(order), Windows)
    BY <1>1 DEF Injection, IsInjective, Injective
<1>3. Cardinality(1 .. Len(order)) <= Cardinality(Windows)
    BY <1>2, FS_Injection, NullAssumption
<1>4. Cardinality(1 .. Len(order)) = Len(order)
    BY <1>1, FS_Interval
<1>5. Cardinality(Windows) \in Nat
    BY FS_CardinalityType, NullAssumption
<1> QED BY <1>1, <1>3, <1>4, <1>5

(* What a walk meets. *)
LEMMA WalkIs == ASSUME NEW order \in Seq(Windows), Injective(order),
                       NEW start, NEW field, Leads(order, start, field)
                PROVE  Walk(start, field) = order
<1> DEFINE N == Cardinality(Windows)
           steps == 0 .. N
           onwards == [w \in Windows \cup {Null} |-> IF w = Null THEN Null ELSE field[w]]
           IsNode(f) == f = [i \in steps |-> IF i = 0 THEN start ELSE onwards[f[i - 1]]]
           node == CHOOSE f : IsNode(f)
           nodes == [i \in 1 .. N + 1 |-> node[i - 1]]
           met == [i \in steps |-> IF i < Len(order) THEN order[i + 1] ELSE Null]
<1>1. N \in Nat /\ Len(order) \in Nat /\ Len(order) <= N
    BY Fits
<1>2. order \in [1 .. Len(order) -> Windows]
    BY LenProperties
<1>3. Walk(start, field) = SubSeq(nodes, 1, Cardinality({i \in steps : node[i] # Null}))
    BY DEF Walk
<1> HIDE DEF N
<1>4. IsNode(met)
  <2>1. start = IF 0 < Len(order) THEN order[1] ELSE Null
      BY <1>1 DEF Leads
  <2>2. ASSUME NEW i \in steps, i # 0
        PROVE  met[i] = onwards[met[i - 1]]
    <3>1. i - 1 \in steps /\ i - 1 + 1 = i
        BY <1>1, <2>2
    <3>2. CASE i < Len(order)
      <4>1. met[i - 1] = order[i] /\ met[i] = order[i + 1]
          BY <1>1, <3>1, <3>2
      <4>2. order[i] \in Windows /\ field[order[i]] = order[i + 1]
          BY <1>1, <1>2, <2>2, <3>2 DEF Leads
      <4> QED BY <4>1, <4>2, NullAssumption
    <3>3. CASE i = Len(order)
      <4>1. met[i - 1] = order[i] /\ met[i] = Null
          BY <1>1, <3>1, <3>3
      <4>2. order[i] \in Windows /\ field[order[i]] = Null
          BY <1>1, <1>2, <2>2, <3>3 DEF Leads
      <4> QED BY <4>1, <4>2, NullAssumption
    <3>4. CASE i > Len(order)
      <4>1. met[i - 1] = Null /\ met[i] = Null
          BY <1>1, <3>1, <3>4
      <4> QED BY <4>1
    <3> QED BY <1>1, <3>2, <3>3, <3>4
  <2>3. met[0] = start
      BY <1>1, <2>1
  <2> HIDE DEF onwards
  <2>4. \A i \in steps : met[i] = IF i = 0 THEN start ELSE onwards[met[i - 1]]
      BY <2>2, <2>3
  <2> DEFINE other == [i \in steps |-> IF i = 0 THEN start ELSE onwards[met[i - 1]]]
  <2>5. \A i \in steps : other[i] = met[i]
    <3> HIDE DEF met
    <3> QED BY <2>4
  <2>6. DOMAIN met = steps /\ DOMAIN other = steps /\ met = [i \in steps |-> met[i]]
      OBVIOUS
  <2>7. other = [i \in steps |-> other[i]]
      OBVIOUS
  <2> HIDE DEF met, other
  <2>8. met = other
      BY <2>5, <2>6, <2>7
  <2> QED BY <2>8 DEF other
<1>5. IsNode(node)
  <2> HIDE DEF IsNode
  <2> QED BY <1>4
<1>6. \A i \in steps : node[i] = met[i]
  <2> SUFFICES ASSUME \E i \in steps : node[i] # met[i] PROVE FALSE
      OBVIOUS
  <2> HIDE DEF node, met, onwards
  <2> DEFINE T == {i \in steps : node[i] # met[i]}
  <2>1. PICK n \in T : \A m \in T : n <= m
    <3>1. T \subseteq Nat /\ T # {}
        BY <1>1
    <3> HIDE DEF T
    <3> QED BY <3>1, Least
  <2>2. n \in steps /\ node[n] # met[n]
      BY <2>1
  <2>3. /\ node[n] = IF n = 0 THEN start ELSE onwards[node[n - 1]]
        /\ met[n] = IF n = 0 THEN start ELSE onwards[met[n - 1]]
      BY <1>4, <1>5, <2>2
  <2>4. n # 0 /\ n - 1 \in steps
      BY <1>1, <2>2, <2>3
  <2>5. node[n - 1] = met[n - 1]
      BY <1>1, <2>1, <2>4
  <2> QED BY <2>2, <2>3, <2>4, <2>5
<1>7. {i \in steps : node[i] # Null} = 0 .. Len(order) - 1
  <2> HIDE DEF node
  <2>1. \A i \in steps : node[i] # Null <=> i < Len(order)
    <3> TAKE i \in steps
    <3>1. CASE i < Len(order)
        BY <1>1, <1>2, <1>6, <3>1, NullAssumption
    <3>2. CASE ~(i < Len(order))
        BY <1>1, <1>6, <3>2
    <3> QED BY <3>1, <3>2
  <2> QED BY <1>1, <2>1
<1>8. Cardinality({i \in steps : node[i] # Null}) = Len(order)
  <2>1. 0 \in Int /\ Len(order) - 1 \in Int
      BY <1>1
  <2>2. Cardinality(0 .. Len(order) - 1)
          = IF 0 > Len(order) - 1 THEN 0 ELSE Len(order) - 1 - 0 + 1
      BY <2>1, FS_Interval
  <2>3. Cardinality(0 .. Len(order) - 1) = Len(order)
      BY <1>1, <2>2
  <2> QED BY <1>7, <2>3
<1>9. \A i \in 1 .. Len(order) : nodes[i] = order[i] /\ nodes[i] \in Windows
  <2> TAKE i \in 1 .. Len(order)
  <2>1. i \in 1 .. N + 1 /\ i - 1 \in steps /\ i - 1 < Len(order)
      BY <1>1
  <2> HIDE DEF node
  <2>2. nodes[i] = node[i - 1]
      BY <2>1
  <2>3. met[i - 1] = order[i]
      BY <1>1, <2>1
  <2> QED BY <1>2, <1>6, <2>1, <2>2, <2>3
<1> HIDE DEF nodes
<1>10. /\ SubSeq(nodes, 1, Len(order)) \in Seq(Windows)
       /\ Len(SubSeq(nodes, 1, Len(order))) = Len(order)
       /\ \A i \in 1 .. Len(order) : SubSeq(nodes, 1, Len(order))[i] = nodes[i]
  <2>1. 1 \in Int /\ Len(order) \in Int
      BY <1>1
  <2>2. /\ SubSeq(nodes, 1, Len(order)) \in Seq(Windows)
        /\ Len(SubSeq(nodes, 1, Len(order))) = IF 1 <= Len(order) THEN Len(order) - 1 + 1 ELSE 0
        /\ \A i \in 1 .. Len(order) - 1 + 1 : SubSeq(nodes, 1, Len(order))[i] = nodes[1 + i - 1]
      BY <1>9, <2>1, SubSeqProperties
  <2> QED BY <1>1, <2>2
<1>11. SubSeq(nodes, 1, Len(order)) = order
    BY <1>9, <1>10, SeqEqual
<1> QED BY <1>3, <1>8, <1>11

(* The pointer `end` and the pointers of `field` lead back through order. *)
LeadsBack(order, end, field) ==
    /\ Len(order) = 0 => end = Null
    /\ Len(order) > 0 => end = order[Len(order)]
    /\ \A i \in 2 .. Len(order) : field[order[i]] = order[i - 1]
    /\ Len(order) > 0 => field[order[1]] = Null

Chain(order, h, t, n, p) == /\ order \in Seq(Windows)
                            /\ Injective(order)
                            /\ Leads(order, h, n)
                            /\ LeadsBack(order, t, p)

LEMMA Reversed == ASSUME NEW order \in Seq(Windows), Injective(order),
                         NEW end, NEW field, LeadsBack(order, end, field)
                  PROVE  /\ Reverse(order) \in Seq(Windows)
                         /\ Injective(Reverse(order))
                         /\ Leads(Reverse(order), end, field)
<1> DEFINE L == Len(order)
           back == [i \in 1 .. L |-> order[(L - i) + 1]]
<1>1. L \in Nat /\ order \in [1 .. L -> Windows]
    BY LenProperties
<1>2. Reverse(order) = back
    BY DEF Reverse
<1>3. back \in [1 .. L -> Windows]
  <2>1. \A i \in 1 .. L : (L - i) + 1 \in 1 .. L
      BY <1>1
  <2> QED BY <1>1, <2>1
<1>4. back \in Seq(Windows) /\ Len(back) = L
  <2>1. back \in Seq(Windows)
    <3> HIDE DEF back
    <3> QED BY <1>1, <1>3, SeqDef
  <2>2. DOMAIN back = 1 .. L /\ DOMAIN back = 1 .. Len(back) /\ Len(back) \in Nat
    <3> HIDE DEF back
    <3> QED BY <1>3, <2>1, LenProperties
  <2> QED BY <1>1, <2>2
<1>5. \A i \in 1 .. L : back[i] = order[(L - i) + 1]
    OBVIOUS
<1> HIDE DEF back
<1>6. Injective(back)
  <2> SUFFICES ASSUME NEW i \in 1 .. L, NEW j \in 1 .. L, back[i] = back[j] PROVE i = j
      BY <1>4 DEF Injective
  <2>1. (L - i) + 1 \in 1 .. L /\ (L - j) + 1 \in 1 .. L
      BY <1>1
  <2>2. (L - i) + 1 = (L - j) + 1
      BY <1>5, <2>1 DEF Injective
  <2> QED BY <1>1, <2>2
<1>7. Leads(back, end, field)
  <2>1. L = 0 => end = Null
      BY DEF LeadsBack
  <2>2. L > 0 => end = back[1]
      BY <1>1, <1>5 DEF LeadsBack
  <2>3. ASSUME NEW i \in 1 .. L - 1 PROVE field[back[i]] = back[i + 1]
    <3>1. (L - i) + 1 \in 2 .. L /\ i \in 1 .. L /\ i + 1 \in 1 .. L
        BY <1>1
    <3>2. back[i] = order[(L - i) + 1] /\ back[i + 1] = order[(L - i) + 1 - 1]
        BY <1>1, <1>5, <3>1
    <3> QED BY <3>1, <3>2 DEF LeadsBack
  <2>4. L > 0 => field[back[L]] = Null
    <3> HAVE L > 0
    <3>1. back[L] = order[1]
        BY <1>1, <1>5
    <3> QED BY <3>1 DEF LeadsBack
  <2> QED BY <1>4, <2>1, <2>2, <2>3, <2>4 DEF Leads
<1> QED BY <1>2, <1>4, <1>6, <1>7

(* Both walks of a chain. *)
LEMMA Walks == ASSUME NEW order, NEW h, NEW t, NEW n, NEW p, Chain(order, h, t, n, p)
               PROVE  Walk(h, n) = order /\ Walk(t, p) = Reverse(order)
<1>1. Walk(h, n) = order
    BY WalkIs DEF Chain
<1>2. /\ Reverse(order) \in Seq(Windows) /\ Injective(Reverse(order))
      /\ Leads(Reverse(order), t, p)
    BY Reversed DEF Chain
<1> QED BY <1>1, <1>2, WalkIs

-----------------------------------------------------------------------------
(* A window leaves a chain. *)
Without(order, k) == [i \in 1 .. Len(order) - 1 |-> IF i < k THEN order[i] ELSE order[i + 1]]

LEMMA WithoutIs ==
    ASSUME NEW order \in Seq(Windows), NEW k \in 1 .. Len(order)
    PROVE  /\ Without(order, k) \in Seq(Windows)
           /\ Len(Without(order, k)) = Len(order) - 1
           /\ \A i \in 1 .. Len(order) - 1 :
                 Without(order, k)[i] = IF i < k THEN order[i] ELSE order[i + 1]
<1> DEFINE L == Len(order)
           rest == Without(order, k)
<1>1. L \in Nat /\ L > 0 /\ order \in [1 .. L -> Windows]
    BY LenProperties
<1>2. \A i \in 1 .. L - 1 : rest[i] = IF i < k THEN order[i] ELSE order[i + 1]
    BY DEF Without
<1>3. rest \in [1 .. L - 1 -> Windows]
  <2>1. \A i \in 1 .. L - 1 : i \in 1 .. L /\ i + 1 \in 1 .. L
      BY <1>1
  <2> QED BY <1>1, <2>1 DEF Without
<1>4. rest \in Seq(Windows)
    BY <1>1, <1>3, SeqDef
<1>5. DOMAIN rest = 1 .. L - 1 /\ DOMAIN rest = 1 .. Len(rest) /\ Len(rest) \in Nat
    BY <1>3, <1>4, LenProperties
<1>6. Len(rest) = L - 1
  <2> HIDE DEF rest, L
  <2> QED BY <1>1, <1>5
<1> QED BY <1>2, <1>4, <1>6

(* The neighbours of a window on the chain, and its ends. *)
LEMMA Neighbours ==
    ASSUME NEW order, NEW h, NEW t, NEW n, NEW p, Chain(order, h, t, n, p),
           NEW k \in 1 .. Len(order)
    PROVE  /\ Len(order) \in Nat \ {0} /\ order \in [1 .. Len(order) -> Windows]
           /\ order[k] = h <=> k = 1
           /\ order[k] = t <=> k = Len(order)
           /\ k < Len(order) => n[order[k]] = order[k + 1]
           /\ k = Len(order) => n[order[k]] = Null
           /\ k > 1 => p[order[k]] = order[k - 1]
           /\ k = 1 => p[order[k]] = Null
<1>1. Len(order) \in Nat \ {0} /\ order \in [1 .. Len(order) -> Windows]
    BY LenProperties DEF Chain
<1>2. h = order[1] /\ t = order[Len(order)]
    BY <1>1 DEF Chain, Leads, LeadsBack
<1>3. \A i \in 1 .. Len(order) : order[k] = order[i] => k = i
    BY DEF Chain, Injective
<1>4. order[k] = h <=> k = 1
  <2>1. 1 \in 1 .. Len(order)
      BY <1>1
  <2> QED BY <1>2, <1>3, <2>1
<1>7. order[k] = t <=> k = Len(order)
  <2>1. Len(order) \in 1 .. Len(order)
      BY <1>1
  <2> QED BY <1>2, <1>3, <2>1
<1>5. /\ k < Len(order) => n[order[k]] = order[k + 1]
      /\ k = Len(order) => n[order[k]] = Null
  <2>1. /\ \A i \in 1 .. Len(order) - 1 : n[order[i]] = order[i + 1]
        /\ n[order[Len(order)]] = Null
      BY <1>1 DEF Chain, Leads
  <2>2. k < Len(order) => k \in 1 .. Len(order) - 1
      BY <1>1
  <2> QED BY <2>1, <2>2
<1>6. /\ k > 1 => p[order[k]] = order[k - 1]
      /\ k = 1 => p[order[k]] = Null
  <2>1. k > 1 => k \in 2 .. Len(order)
      BY <1>1
  <2> QED BY <1>1, <2>1 DEF Chain, LeadsBack
<1> QED BY <1>1, <1>4, <1>5, <1>6, <1>7

LEMMA Detached ==
    ASSUME NEW order, NEW h, NEW t, NEW n, NEW p, Chain(order, h, t, n, p),
           NEW k \in 1 .. Len(order), NEW w, w = order[k],
           NEW h2, h2 = IF w = h THEN n[w] ELSE h,
           NEW t2, t2 = IF w = t THEN p[w] ELSE t,
           NEW n2, \A v \in Windows \ {w} : n2[v] = IF v = p[w] THEN n[w] ELSE n[v],
           NEW p2, \A v \in Windows \ {w} : p2[v] = IF v = n[w] THEN p[w] ELSE p[v]
    PROVE  Chain(Without(order, k), h2, t2, n2, p2)
<1> DEFINE L == Len(order)
           rest == Without(order, k)
<1>1. L \in Nat \ {0} /\ order \in [1 .. L -> Windows]
    BY Neighbours
<1>2. /\ \A i \in 1 .. L - 1 : n[order[i]] = order[i + 1]
      /\ n[order[L]] = Null
      /\ \A i \in 2 .. L : p[order[i]] = order[i - 1]
      /\ p[order[1]] = Null
      /\ h = order[1] /\ t = order[L]
    BY <1>1 DEF Chain, Leads, LeadsBack
<1>3. \A i, j \in 1 .. L : order[i] = order[j] => i = j
    BY DEF Chain, Injective
<1>4. /\ rest \in Seq(Windows) /\ Len(rest) = L - 1
      /\ \A i \in 1 .. L - 1 : rest[i] = IF i < k THEN order[i] ELSE order[i + 1]
    BY WithoutIs DEF Chain
<1>0. k \in 1 .. L
    OBVIOUS
<1> HIDE DEF rest, L
<1>5. Injective(rest)
  <2> SUFFICES ASSUME NEW i \in 1 .. L - 1, NEW j \in 1 .. L - 1, rest[i] = rest[j] PROVE i = j
      BY <1>4 DEF Injective
  <2> QED BY <1>0, <1>1, <1>3, <1>4
<1>6. \A i \in 1 .. L : i # k => order[i] \in Windows \ {w}
    BY <1>0, <1>1, <1>3
<1>7. (w = h <=> k = 1) /\ (w = t <=> k = L)
    BY <1>0, <1>1, <1>2, <1>3
<1>8. ASSUME NEW i \in 1 .. L, i # k, i # k - 1 PROVE n2[order[i]] = n[order[i]]
  <2>1. order[i] # p[w]
      BY <1>0, <1>1, <1>2, <1>3, <1>8, NullAssumption
  <2> QED BY <1>6, <1>8, <2>1
<1>9. ASSUME NEW i \in 1 .. L, i # k, i # k + 1 PROVE p2[order[i]] = p[order[i]]
  <2>1. order[i] # n[w]
      BY <1>0, <1>1, <1>2, <1>3, <1>9, NullAssumption
  <2> QED BY <1>6, <1>9, <2>1
<1>10. k > 1 => n2[order[k - 1]] = n[w]
    BY <1>0, <1>1, <1>2, <1>6
<1>11. k < L => p2[order[k + 1]] = p[w]
    BY <1>0, <1>1, <1>2, <1>6
<1>12. Leads(rest, h2, n2)
  <2>1. L - 1 = 0 => h2 = Null
      BY <1>0, <1>1, <1>2, <1>7
  <2>2. L - 1 > 0 => h2 = rest[1]
      BY <1>0, <1>1, <1>2, <1>4, <1>7
  <2>3. ASSUME NEW i \in 1 .. L - 2 PROVE n2[rest[i]] = rest[i + 1]
    <3>1. CASE i + 1 < k
      <4>1. rest[i] = order[i] /\ rest[i + 1] = order[i + 1]
          BY <1>0, <1>1, <1>4, <3>1
      <4> QED BY <1>0, <1>1, <1>2, <1>8, <3>1, <4>1
    <3>2. CASE i + 1 = k
      <4>1. rest[i] = order[k - 1] /\ rest[i + 1] = order[k + 1]
          BY <1>0, <1>1, <1>4, <3>2
      <4> QED BY <1>0, <1>1, <1>2, <1>10, <3>2, <4>1
    <3>3. CASE i + 1 > k
      <4>1. rest[i] = order[i + 1] /\ rest[i + 1] = order[i + 1 + 1]
          BY <1>0, <1>1, <1>4, <3>3
      <4>2. i + 1 \in 1 .. L - 1 /\ i + 1 \in 1 .. L /\ i + 1 # k /\ i + 1 # k - 1
          BY <1>0, <1>1, <3>3
      <4>3. n2[order[i + 1]] = n[order[i + 1]]
          BY <1>8, <4>2
      <4> QED BY <1>2, <4>1, <4>2, <4>3
    <3> QED BY <1>0, <1>1, <3>1, <3>2, <3>3
  <2>4. L - 1 > 0 => n2[rest[L - 1]] = Null
    <3> HAVE L - 1 > 0
    <3>1. CASE k = L
      <4>1. rest[L - 1] = order[k - 1]
          BY <1>0, <1>1, <1>4, <3>1
      <4> QED BY <1>0, <1>1, <1>2, <1>10, <3>1, <4>1
    <3>2. CASE k < L
      <4>1. rest[L - 1] = order[L]
          BY <1>0, <1>1, <1>4, <3>2
      <4> QED BY <1>0, <1>1, <1>2, <1>8, <3>2, <4>1
    <3> QED BY <1>0, <1>1, <3>1, <3>2
  <2> QED BY <1>0, <1>1, <1>4, <2>1, <2>2, <2>3, <2>4 DEF Leads
<1>13. LeadsBack(rest, t2, p2)
  <2>1. L - 1 = 0 => t2 = Null
      BY <1>0, <1>1, <1>2, <1>7
  <2>2. L - 1 > 0 => t2 = rest[L - 1]
      BY <1>0, <1>1, <1>2, <1>4, <1>7
  <2>3. ASSUME NEW i \in 2 .. L - 1 PROVE p2[rest[i]] = rest[i - 1]
    <3>1. CASE i < k
      <4>1. rest[i] = order[i] /\ rest[i - 1] = order[i - 1]
          BY <1>0, <1>1, <1>4, <3>1
      <4>2. i \in 2 .. L /\ i \in 1 .. L /\ i # k /\ i # k + 1
          BY <1>0, <1>1, <3>1
      <4>3. p2[order[i]] = p[order[i]]
          BY <1>9, <4>2
      <4> QED BY <1>2, <4>1, <4>2, <4>3
    <3>2. CASE i = k
      <4>1. rest[i] = order[k + 1] /\ rest[i - 1] = order[k - 1]
          BY <1>0, <1>1, <1>4, <3>2
      <4> QED BY <1>0, <1>1, <1>2, <1>11, <3>2, <4>1
    <3>3. CASE i > k
      <4>1. rest[i] = order[i + 1] /\ rest[i - 1] = order[i + 1 - 1]
          BY <1>0, <1>1, <1>4, <3>3
      <4>2. i + 1 \in 2 .. L /\ i + 1 \in 1 .. L /\ i + 1 # k /\ i + 1 # k + 1
          BY <1>0, <1>1, <3>3
      <4>3. p2[order[i + 1]] = p[order[i + 1]]
          BY <1>9, <4>2
      <4> QED BY <1>2, <4>1, <4>2, <4>3
    <3> QED BY <1>0, <1>1, <3>1, <3>2, <3>3
  <2>4. L - 1 > 0 => p2[rest[1]] = Null
    <3> HAVE L - 1 > 0
    <3>1. CASE k = 1
      <4>1. rest[1] = order[k + 1]
          BY <1>0, <1>1, <1>4, <3>1
      <4> QED BY <1>0, <1>1, <1>2, <1>11, <3>1, <4>1
    <3>2. CASE k > 1
      <4>1. rest[1] = order[1]
          BY <1>0, <1>1, <1>4, <3>2
      <4> QED BY <1>0, <1>1, <1>2, <1>9, <3>2, <4>1
    <3> QED BY <1>0, <1>1, <3>1, <3>2
  <2> QED BY <1>0, <1>1, <1>4, <2>1, <2>2, <2>3, <2>4 DEF LeadsBack
<1> QED BY <1>4, <1>5, <1>12, <1>13 DEF Chain, rest

(* A window comes in on top. *)
LEMMA Attached ==
    ASSUME NEW order, NEW h, NEW t, NEW n, NEW p, Chain(order, h, t, n, p),
           NEW w \in Windows, \A i \in 1 .. Len(order) : order[i] # w,
           NEW h2, h2 = IF h = Null THEN w ELSE h,
           NEW n2, n2[w] = Null, \A v \in Windows \ {w} : n2[v] = IF v = t THEN w ELSE n[v],
           NEW p2, p2[w] = t, \A v \in Windows \ {w} : p2[v] = p[v]
    PROVE  Chain(Append(order, w), h2, w, n2, p2)
<1> DEFINE L == Len(order)
           more == Append(order, w)
<1>1. L \in Nat /\ order \in [1 .. L -> Windows]
    BY LenProperties DEF Chain
<1>2. /\ more \in Seq(Windows) /\ Len(more) = L + 1
      /\ \A i \in 1 .. L : more[i] = order[i]
      /\ more[L + 1] = w
    BY AppendProperties DEF Chain
<1> HIDE DEF more, L
<1>3. Injective(more)
    BY <1>1, <1>2 DEF Chain, Injective, L
<1>4. \A i \in 1 .. L : order[i] \in Windows \ {w}
    BY <1>1 DEF L
<1>5. L > 0 => h \in Windows /\ h = order[1] /\ t = order[L]
    BY <1>1 DEF Chain, Leads, LeadsBack, L
<1>6. L = 0 => h = Null /\ t = Null
    BY DEF Chain, Leads, LeadsBack, L
<1>7. Leads(more, h2, n2)
  <2>1. h2 = more[1]
      BY <1>1, <1>2, <1>5, <1>6, NullAssumption
  <2>2. ASSUME NEW i \in 1 .. L PROVE n2[more[i]] = more[i + 1]
    <3>1. CASE i = L
        BY <1>1, <1>2, <1>4, <1>5, <3>1
    <3>2. CASE i < L
      <4>1. more[i] = order[i] /\ more[i + 1] = order[i + 1]
          BY <1>1, <1>2, <3>2
      <4>2. order[i] # t
          BY <1>1, <1>5, <3>2 DEF Chain, Injective, L
      <4>3. n[order[i]] = order[i + 1]
          BY <1>1, <3>2 DEF Chain, Leads, L
      <4> QED BY <1>4, <4>1, <4>2, <4>3
    <3> QED BY <1>1, <3>1, <3>2
  <2> QED BY <1>1, <1>2, <2>1, <2>2 DEF Leads
<1>8. LeadsBack(more, w, p2)
  <2>1. ASSUME NEW i \in 2 .. L + 1 PROVE p2[more[i]] = more[i - 1]
    <3>1. CASE i = L + 1
        BY <1>1, <1>2, <1>5, <3>1
    <3>2. CASE i < L + 1
      <4>1. more[i] = order[i] /\ more[i - 1] = order[i - 1]
          BY <1>1, <1>2, <3>2
      <4>2. p[order[i]] = order[i - 1]
          BY <1>1, <3>2 DEF Chain, LeadsBack, L
      <4> QED BY <1>1, <1>4, <3>2, <4>1, <4>2
    <3> QED BY <1>1, <3>1, <3>2
  <2>2. p2[more[1]] = Null
    <3>1. CASE L = 0
        BY <1>2, <1>6, <3>1
    <3>2. CASE L > 0
      <4>1. more[1] = order[1] /\ p[order[1]] = Null
          BY <1>1, <1>2, <3>2 DEF Chain, LeadsBack, L
      <4> QED BY <1>1, <1>4, <3>2, <4>1
    <3> QED BY <1>1, <3>1, <3>2
  <2> QED BY <1>1, <1>2, <2>1, <2>2 DEF LeadsBack
<1> QED BY <1>2, <1>3, <1>7, <1>8 DEF Chain, more

-----------------------------------------------------------------------------
(* The compositor's operations. *)

On(order) == {order[i] : i \in 1 .. Len(order)}

ListInv == /\ next \in [Windows -> Windows \cup {Null}]
           /\ prev \in [Windows -> Windows \cup {Null}]
           /\ deleted \subseteq opened
           /\ opened \subseteq Windows
           /\ Chain(BottomUp, head, tail, next, prev)
           /\ On(BottomUp) = opened \ deleted

LEMMA NewOrder == ASSUME NEW order, Chain(order, head', tail', next', prev')
                  PROVE  BottomUp' = order /\ TopDown' = Reverse(order)
BY Walks DEF BottomUp, TopDown

LEMMA ChainTypes ==
    ASSUME ListInv
    PROVE  /\ Len(BottomUp) \in Nat
           /\ BottomUp \in Seq(Windows)
           /\ BottomUp \in [1 .. Len(BottomUp) -> Windows]
           /\ \A i, j \in 1 .. Len(BottomUp) : BottomUp[i] = BottomUp[j] => i = j
           /\ \A w \in Windows : w \in opened \ deleted
                                <=> \E i \in 1 .. Len(BottomUp) : w = BottomUp[i]
           /\ ToSet(BottomUp) = opened \ deleted
<1>1. BottomUp \in Seq(Windows) /\ Injective(BottomUp)
    BY DEF ListInv, Chain
<1>2. /\ Len(BottomUp) \in Nat
      /\ BottomUp \in [1 .. Len(BottomUp) -> Windows]
      /\ DOMAIN BottomUp = 1 .. Len(BottomUp)
    BY <1>1, LenProperties
<1>3. ToSet(BottomUp) = On(BottomUp)
    BY <1>2 DEF ToSet, On
<1>4. \A w \in Windows : w \in opened \ deleted
                        <=> \E i \in 1 .. Len(BottomUp) : w = BottomUp[i]
    BY <1>2 DEF ListInv, On
<1> QED BY <1>1, <1>2, <1>3, <1>4 DEF ListInv, Injective

LEMMA ListStart == ASSUME ListInit PROVE ListInv /\ BottomUp = <<>> /\ TopDown = <<>>
<1>1. <<>> \in Seq(Windows) /\ Len(<<>>) = 0
    BY EmptySeq
<1>2. Chain(<<>>, head, tail, next, prev)
    BY <1>1 DEF ListInit, Chain, Injective, Leads, LeadsBack
<1>3. BottomUp = <<>> /\ TopDown = Reverse(<<>>)
    BY <1>2, Walks DEF BottomUp, TopDown
<1>4. Reverse(<<>>) = <<>>
  <2>1. Reverse(<<>>) \in Seq(Windows)
      BY <1>2, Reversed DEF Chain
  <2>2. DOMAIN Reverse(<<>>) = {}
      BY <1>1 DEF Reverse
  <2>3. Len(Reverse(<<>>)) = 0
      BY <2>1, <2>2, LenProperties
  <2> QED BY <1>1, <2>1, <2>3, EmptySeq
<1>5. On(<<>>) = {}
    BY <1>1 DEF On
<1> QED BY <1>2, <1>3, <1>4, <1>5 DEF ListInv, ListInit

LEMMA ListSame == ASSUME ListInv, UNCHANGED listVars
                  PROVE  ListInv' /\ BottomUp' = BottomUp /\ TopDown' = TopDown
<1>1. BottomUp' = BottomUp /\ TopDown' = TopDown
    BY DEF listVars, BottomUp, TopDown
<1> QED BY <1>1 DEF listVars, ListInv

LEMMA AddKeeps == ASSUME ListInv, NEW w \in Windows, add_window(w)
                  PROVE  /\ ListInv' /\ BottomUp' = Append(BottomUp, w)
                         /\ w \notin ToSet(BottomUp)
<1> DEFINE order == BottomUp
<1>1. /\ Len(order) \in Nat /\ order \in Seq(Windows) /\ order \in [1 .. Len(order) -> Windows]
      /\ ToSet(order) = opened \ deleted
    BY ChainTypes
<1>2. \A i \in 1 .. Len(order) : order[i] # w
    BY ChainTypes DEF add_window
<1>3. Chain(order, head, tail, next, prev)
    BY DEF ListInv
<1>4. tail \in Windows \cup {Null} /\ tail # w
  <2>1. CASE Len(order) = 0
      BY <1>3, <2>1, NullAssumption DEF Chain, LeadsBack
  <2>2. CASE Len(order) > 0
      BY <1>1, <1>2, <1>3, <2>2 DEF Chain, LeadsBack
  <2> QED BY <1>1, <2>1, <2>2
<1>5. /\ head' = IF head = Null THEN w ELSE head
      /\ tail' = w
      /\ prev' = [prev EXCEPT ![w] = tail]
      /\ next' = Stored([next EXCEPT ![w] = Null], tail, w)
      /\ opened' = opened \cup {w} /\ deleted' = deleted /\ w \notin opened
    BY DEF add_window
<1>6. /\ next' \in [Windows -> Windows \cup {Null}]
      /\ prev' \in [Windows -> Windows \cup {Null}]
    BY <1>4, <1>5 DEF ListInv, Stored
<1>7. next'[w] = Null /\ \A v \in Windows \ {w} : next'[v] = IF v = tail THEN w ELSE next[v]
    BY <1>4, <1>5, NullAssumption DEF ListInv, Stored
<1>8. prev'[w] = tail /\ \A v \in Windows \ {w} : prev'[v] = prev[v]
    BY <1>5 DEF ListInv
<1> HIDE DEF order
<1>9. Chain(Append(order, w), head', tail', next', prev')
  <2>1. head' = IF head = Null THEN w ELSE head
      BY <1>5
  <2>2. Chain(Append(order, w), head', w, next', prev')
      BY <1>2, <1>3, <1>7, <1>8, <2>1, Attached
  <2> QED BY <1>5, <2>2
<1>10. BottomUp' = Append(order, w)
    BY <1>9, NewOrder
<1>11. On(Append(order, w)) = opened' \ deleted'
  <2>1. /\ Len(Append(order, w)) = Len(order) + 1
        /\ \A i \in 1 .. Len(order) : Append(order, w)[i] = order[i]
        /\ Append(order, w)[Len(order) + 1] = w
      BY <1>1, AppendProperties
  <2>2. On(Append(order, w)) = On(order) \cup {w}
      BY <1>1, <2>1 DEF On
  <2>3. On(order) = opened \ deleted /\ w \notin deleted
      BY <1>5 DEF ListInv, order
  <2> QED BY <1>5, <2>2, <2>3
<1>12. ListInv'
    BY <1>5, <1>6, <1>9, <1>10, <1>11 DEF ListInv
<1> QED BY <1>1, <1>5, <1>10, <1>12 DEF order

(* Without the window at k the others are left. *)
LEMMA WithoutOn == ASSUME NEW order \in Seq(Windows), Injective(order), NEW k \in 1 .. Len(order)
                   PROVE  On(Without(order, k)) = On(order) \ {order[k]}
<1> DEFINE L == Len(order)
           rest == Without(order, k)
<1>1. L \in Nat /\ k \in 1 .. L
    BY LenProperties
<1>2. /\ Len(rest) = L - 1
      /\ \A i \in 1 .. L - 1 : rest[i] = IF i < k THEN order[i] ELSE order[i + 1]
    BY WithoutIs
<1>3. \A i, j \in 1 .. L : order[i] = order[j] => i = j
    BY DEF Injective
<1> HIDE DEF L, rest
<1>4. ASSUME NEW i \in 1 .. L - 1 PROVE rest[i] \in {order[j] : j \in 1 .. L} \ {order[k]}
  <2>1. CASE i < k
    <3>1. i \in 1 .. L /\ i # k /\ rest[i] = order[i]
        BY <1>1, <1>2, <2>1
    <3> QED BY <1>1, <1>3, <3>1
  <2>2. CASE ~(i < k)
    <3>1. i + 1 \in 1 .. L /\ i + 1 # k
        BY <1>1, <2>2
    <3> QED BY <1>1, <1>2, <1>3, <2>2, <3>1
  <2> QED BY <2>1, <2>2
<1>5. ASSUME NEW j \in 1 .. L, order[j] # order[k] PROVE \E i \in 1 .. L - 1 : order[j] = rest[i]
  <2>1. CASE j < k
    <3>1. j \in 1 .. L - 1
        BY <1>1, <2>1
    <3> QED BY <1>2, <2>1, <3>1
  <2>2. CASE j > k
    <3>1. j - 1 \in 1 .. L - 1 /\ ~(j - 1 < k) /\ j - 1 + 1 = j
        BY <1>1, <2>2
    <3> QED BY <1>2, <3>1
  <2> QED BY <1>1, <1>5, <2>1, <2>2
<1>6. {rest[i] : i \in 1 .. L - 1} = {order[j] : j \in 1 .. L} \ {order[k]}
    BY <1>4, <1>5
<1> QED BY <1>2, <1>6 DEF On, L, rest

(* The neighbours of a window on the list. *)
LEMMA Around ==
    ASSUME ListInv, NEW w \in Windows, w \in opened \ deleted
    PROVE  /\ prev[w] \in Windows \cup {Null} /\ next[w] \in Windows \cup {Null}
           /\ prev[w] # w /\ next[w] # w
           /\ prev[w] # Null => prev[w] # next[w]
           /\ next[w] \in (opened \ deleted) \cup {Null}
           /\ (w = head => prev[w] = Null) /\ (w = tail <=> next[w] = Null)
           /\ \E k \in 1 .. Len(BottomUp) : w = BottomUp[k]
<1> DEFINE order == BottomUp
           L == Len(order)
<1>1. /\ L \in Nat /\ order \in [1 .. L -> Windows]
      /\ \A i, j \in 1 .. L : order[i] = order[j] => i = j
      /\ \E k \in 1 .. L : w = order[k]
      /\ \A v \in Windows : v \in opened \ deleted <=> \E i \in 1 .. L : v = order[i]
    BY ChainTypes
<1>2. PICK k \in 1 .. L : w = order[k]
    BY <1>1
<1>3. /\ order[k] = head <=> k = 1
      /\ order[k] = tail <=> k = L
      /\ k < L => next[order[k]] = order[k + 1]
      /\ k = L => next[order[k]] = Null
      /\ k > 1 => prev[order[k]] = order[k - 1]
      /\ k = 1 => prev[order[k]] = Null
    BY Neighbours DEF ListInv
<1> HIDE DEF order, L
<1>4. k < L => k + 1 \in 1 .. L
    BY <1>1
<1>5. k > 1 => k - 1 \in 1 .. L /\ k - 1 # k + 1
    BY <1>1
<1>6. prev[w] \in Windows \cup {Null} /\ next[w] \in Windows \cup {Null}
    BY DEF ListInv
<1>7. prev[w] # w
  <2>1. CASE k = 1
      BY <1>2, <1>3, <2>1, NullAssumption
  <2>2. CASE k > 1
      BY <1>1, <1>2, <1>3, <1>5, <2>2
  <2> QED BY <1>1, <2>1, <2>2
<1>8. next[w] # w /\ next[w] \in (opened \ deleted) \cup {Null} /\ (w = tail <=> next[w] = Null)
  <2>1. CASE k = L
      BY <1>2, <1>3, <2>1, NullAssumption
  <2>2. CASE k < L
    <3>1. next[w] = order[k + 1] /\ order[k + 1] \in Windows
        BY <1>1, <1>2, <1>3, <1>4, <2>2
    <3>2. order[k + 1] # order[k]
        BY <1>1, <1>4, <2>2
    <3>3. order[k + 1] \in opened \ deleted
        BY <1>1, <1>4, <2>2, <3>1
    <3>4. w # tail
        BY <1>1, <1>2, <1>3, <2>2
    <3> QED BY <1>2, <3>1, <3>2, <3>3, <3>4, NullAssumption
  <2> QED BY <1>1, <2>1, <2>2
<1>9. prev[w] # Null => prev[w] # next[w]
  <2> HAVE prev[w] # Null
  <2>1. k > 1 /\ prev[w] = order[k - 1] /\ order[k - 1] \in Windows
      BY <1>1, <1>2, <1>3, <1>5
  <2>2. CASE k = L
      BY <1>2, <1>3, <2>1, <2>2, NullAssumption
  <2>3. CASE k < L
      BY <1>1, <1>2, <1>3, <1>4, <1>5, <2>1, <2>3
  <2> QED BY <1>1, <2>2, <2>3
<1>10. w = head => prev[w] = Null
    BY <1>2, <1>3
<1> QED BY <1>2, <1>6, <1>7, <1>8, <1>9, <1>10 DEF order, L

LEMMA DeleteKeeps ==
    ASSUME ListInv, NEW w \in Windows, w \in opened \ deleted, delete_window(w)
    PROVE  /\ ListInv'
           /\ \E k \in 1 .. Len(BottomUp) : w = BottomUp[k] /\ BottomUp' = Without(BottomUp, k)
<1> DEFINE order == BottomUp
<1>1. PICK k \in 1 .. Len(order) : w = order[k]
    BY Around
<1>2. Chain(order, head, tail, next, prev)
    BY DEF ListInv
<1>3. /\ prev[w] \in Windows \cup {Null} /\ next[w] \in Windows \cup {Null}
      /\ prev[w] # w /\ next[w] # w
    BY Around
<1>4. /\ head' = IF w = head THEN next[w] ELSE head
      /\ tail' = IF w = tail THEN prev[w] ELSE tail
      /\ next' = [Stored(next, prev[w], next[w]) EXCEPT ![w] = Null]
      /\ prev' = [Stored(prev, next[w], prev[w]) EXCEPT ![w] = Null]
      /\ deleted' = deleted \cup {w} /\ opened' = opened
    BY DEF delete_window
<1>5. /\ next' \in [Windows -> Windows \cup {Null}]
      /\ \A v \in Windows \ {w} : next'[v] = IF v = prev[w] THEN next[w] ELSE next[v]
    BY <1>3, <1>4, NullAssumption DEF ListInv, Stored
<1>6. /\ prev' \in [Windows -> Windows \cup {Null}]
      /\ \A v \in Windows \ {w} : prev'[v] = IF v = next[w] THEN prev[w] ELSE prev[v]
    BY <1>3, <1>4, NullAssumption DEF ListInv, Stored
<1> HIDE DEF order
<1>7. Chain(Without(order, k), head', tail', next', prev')
    BY <1>1, <1>2, <1>4, <1>5, <1>6, Detached
<1>8. BottomUp' = Without(order, k)
    BY <1>7, NewOrder
<1>9. On(Without(order, k)) = opened' \ deleted'
  <2>1. On(Without(order, k)) = On(order) \ {w}
      BY <1>1, <1>2, WithoutOn DEF Chain
  <2>2. On(order) = opened \ deleted
      BY DEF ListInv, order
  <2> QED BY <1>4, <2>1, <2>2
<1>10. ListInv'
    BY <1>4, <1>5, <1>6, <1>7, <1>8, <1>9 DEF ListInv
<1> QED BY <1>1, <1>8, <1>10 DEF order

LEMMA FocusKeeps ==
    ASSUME ListInv, NEW w \in Windows, w \in opened \ deleted, focus_window(w)
    PROVE  /\ ListInv' /\ tail' = w /\ UNCHANGED <<opened, deleted>>
           /\ \/ UNCHANGED listVars
              \/ \E k \in 1 .. Len(BottomUp) :
                    w = BottomUp[k] /\ BottomUp' = Append(Without(BottomUp, k), w)
<1>0. ToSet(BottomUp) = opened \ deleted
    BY ChainTypes
<1>1. CASE w = tail
  <2>1. UNCHANGED listVars
      BY <1>1 DEF focus_window
  <2> QED BY <1>1, <2>1, ListSame DEF listVars
<1>2. CASE w # tail
  <2> DEFINE order == BottomUp
             n2 == Stored(next, prev[w], next[w])
             p2 == [prev EXCEPT ![next[w]] = prev[w]]
  <2>1. PICK k \in 1 .. Len(order) : w = order[k]
      BY Around
  <2>2. Chain(order, head, tail, next, prev)
      BY DEF ListInv
  <2>3. /\ prev[w] \in Windows \cup {Null} /\ next[w] \in Windows
        /\ prev[w] # w /\ next[w] # w
      BY <1>2, Around
  <2>4. /\ head' = IF w = head THEN next[w] ELSE head
        /\ tail' = w
        /\ next' = [n2 EXCEPT ![w] = Null, ![tail] = w]
        /\ prev' = [prev EXCEPT ![next[w]] = prev[w], ![w] = tail]
        /\ opened' = opened /\ deleted' = deleted
      BY <1>0, <1>2 DEF focus_window
  <2>5. /\ n2 \in [Windows -> Windows \cup {Null}]
        /\ \A v \in Windows \ {w} : n2[v] = IF v = prev[w] THEN next[w] ELSE next[v]
      BY <2>3, NullAssumption DEF ListInv, Stored
  <2>6. /\ p2 \in [Windows -> Windows \cup {Null}]
        /\ \A v \in Windows \ {w} : p2[v] = IF v = next[w] THEN prev[w] ELSE prev[v]
      BY <2>3, NullAssumption DEF ListInv
  <2> HIDE DEF order, n2, p2
  <2>7. Chain(Without(order, k), head', tail, n2, p2)
      BY <1>2, <2>1, <2>2, <2>4, <2>5, <2>6, Detached
  <2>8. tail \in Windows
    <3>1. Len(order) \in Nat /\ Len(order) > 0 /\ order \in [1 .. Len(order) -> Windows]
        BY <2>1, <2>2, LenProperties DEF Chain
    <3> QED BY <2>2, <3>1 DEF Chain, LeadsBack
  <2>9. /\ next' \in [Windows -> Windows \cup {Null}]
        /\ next'[w] = Null
        /\ \A v \in Windows \ {w} : next'[v] = IF v = tail THEN w ELSE n2[v]
      BY <1>2, <2>4, <2>5, <2>8
  <2>10. prev' = [p2 EXCEPT ![w] = tail]
      BY <2>3, <2>4 DEF p2
  <2>11. /\ prev' \in [Windows -> Windows \cup {Null}]
         /\ prev'[w] = tail /\ \A v \in Windows \ {w} : prev'[v] = p2[v]
      BY <2>6, <2>8, <2>10
  <2>12. On(Without(order, k)) = On(order) \ {w}
      BY <2>1, <2>2, WithoutOn DEF Chain
  <2>13. head' # Null
    <3>1. head' \in {next[w], head}
        BY <2>4
    <3>2. head \in Windows
      <4>1. Len(order) \in Nat /\ Len(order) > 0 /\ order \in [1 .. Len(order) -> Windows]
          BY <2>1, <2>2, LenProperties DEF Chain
      <4> QED BY <2>2, <4>1 DEF Chain, Leads
    <3> QED BY <2>3, <3>1, <3>2, NullAssumption
  <2>14. \A i \in 1 .. Len(Without(order, k)) : Without(order, k)[i] # w
      BY <2>12 DEF On
  <2>15. Chain(Append(Without(order, k), w), head', tail', next', prev')
    <3>1. head' = IF head' = Null THEN w ELSE head'
        BY <2>13
    <3>2. Chain(Append(Without(order, k), w), head', w, next', prev')
        BY <2>7, <2>9, <2>11, <2>14, <3>1, Attached
    <3> QED BY <2>4, <3>2
  <2>16. BottomUp' = Append(Without(order, k), w)
      BY <2>15, NewOrder
  <2>17. On(Append(Without(order, k), w)) = opened' \ deleted'
    <3> DEFINE few == Without(order, k)
    <3>1. few \in Seq(Windows) /\ Len(few) \in Nat
        BY <2>7, LenProperties DEF Chain
    <3> HIDE DEF few
    <3>2. /\ Len(Append(few, w)) = Len(few) + 1
          /\ \A i \in 1 .. Len(few) : Append(few, w)[i] = few[i]
          /\ Append(few, w)[Len(few) + 1] = w
        BY <3>1, AppendProperties
    <3>3. On(Append(few, w)) = On(few) \cup {w}
        BY <3>1, <3>2 DEF On
    <3>4. On(order) = opened \ deleted
        BY DEF ListInv, order
    <3> QED BY <2>4, <2>12, <3>3, <3>4 DEF few
  <2>18. ListInv'
      BY <2>4, <2>9, <2>11, <2>15, <2>16, <2>17 DEF ListInv
  <2> QED BY <2>1, <2>4, <2>16, <2>18 DEF order
<1> QED BY <1>1, <1>2

-----------------------------------------------------------------------------
(* Hit testing. *)

LEMMA Wraps == ASSUME NEW a \in Int
               PROVE  /\ a % Modulus \in 0 .. Modulus - 1
                      /\ 0 <= a => a % Modulus <= a
                      /\ a \in 0 .. Modulus - 1 => /\ a % Modulus = a
                                                   /\ (a + Modulus) % Modulus = a
BY ScreenAssumption

(* The first window under the pointer, if there is one. *)
LEMMA HitIsFirst ==
    ASSUME NEW nodes \in Seq(Windows), NEW x, NEW y, NEW lx, NEW ly
    PROVE  \/ /\ Hit(nodes, x, y, lx, ly) = Null
              /\ \A i \in 1 .. Len(nodes) : ~ Under(nodes[i], x, y, lx, ly)
           \/ \E i \in 1 .. Len(nodes) :
                 /\ Hit(nodes, x, y, lx, ly) = nodes[i]
                 /\ Under(nodes[i], x, y, lx, ly)
                 /\ \A j \in 1 .. Len(nodes) : j < i => ~ Under(nodes[j], x, y, lx, ly)
<1> DEFINE I == {i \in 1 .. Len(nodes) : Under(nodes[i], x, y, lx, ly)}
<1>1. SelectInSeq(nodes, LAMBDA w : Under(w, x, y, lx, ly)) = IF I # {} THEN Min(I) ELSE 0
    BY DEF SelectInSeq
<1>2. Len(nodes) \in Nat
    BY LenProperties
<1>3. CASE I = {}
  <2>1. Hit(nodes, x, y, lx, ly) = Null
      BY <1>1, <1>3 DEF Hit
  <2> QED BY <1>3, <2>1
<1>4. CASE I # {}
  <2>1. I \subseteq Nat
      BY <1>2
  <2> DEFINE least == Min(I)
  <2>2. least \in I /\ \A j \in I : least <= j
    <3> HIDE DEF I
    <3>1. \E i \in I : \A j \in I : i <= j
        BY <1>4, <2>1, Least
    <3> QED BY <3>1 DEF Min
  <2> HIDE DEF least
  <2>3. Hit(nodes, x, y, lx, ly) = IF least = 0 THEN Null ELSE nodes[least]
      BY <1>1, <1>4 DEF Hit, least
  <2>4. least \in 1 .. Len(nodes) /\ Under(nodes[least], x, y, lx, ly)
      BY <2>2
  <2>5. Hit(nodes, x, y, lx, ly) = nodes[least]
      BY <1>2, <2>3, <2>4
  <2>6. \A j \in 1 .. Len(nodes) : j < least => ~ Under(nodes[j], x, y, lx, ly)
      BY <1>2, <2>2, <2>4
  <2> QED BY <2>4, <2>5, <2>6
<1> QED BY <1>3, <1>4

(* The list from the top. *)
LEMMA FromTop == ASSUME ListInv
                 PROVE  /\ TopDown = Reverse(BottomUp)
                        /\ TopDown \in Seq(Windows) /\ Len(TopDown) = Len(BottomUp)
                        /\ \A i \in 1 .. Len(BottomUp) :
                              TopDown[i] = BottomUp[(Len(BottomUp) - i) + 1]
                        /\ \A i \in 1 .. Len(TopDown) : TopDown[i] \in opened \ deleted
<1> DEFINE L == Len(BottomUp)
<1>1. TopDown = Reverse(BottomUp)
    BY Walks DEF ListInv, TopDown
<1>2. TopDown \in Seq(Windows)
    BY <1>1, Reversed DEF ListInv, Chain
<1>3. L \in Nat
    BY ChainTypes
<1>4. DOMAIN TopDown = 1 .. L
    BY <1>1 DEF Reverse
<1>5. Len(TopDown) = L
  <2>1. 1 .. Len(TopDown) = 1 .. L /\ Len(TopDown) \in Nat
      BY <1>2, <1>4, LenProperties
  <2> HIDE DEF L
  <2> QED BY <1>3, <2>1
<1>6. \A i \in 1 .. L : TopDown[i] = BottomUp[(L - i) + 1]
    BY <1>1 DEF Reverse
<1>7. ASSUME NEW i \in 1 .. L PROVE TopDown[i] \in opened \ deleted
  <2>1. (L - i) + 1 \in 1 .. L
      BY <1>3
  <2>2. BottomUp[(L - i) + 1] \in opened \ deleted
      BY <2>1, ChainTypes
  <2> QED BY <1>6, <2>2
<1> QED BY <1>1, <1>2, <1>5, <1>6, <1>7

LEMMA HitOnList == ASSUME ListInv, NEW x, NEW y, NEW lx, NEW ly
                   PROVE  LET w == Hit(TopDown, x, y, lx, ly)
                          IN  w # Null => w \in opened \ deleted /\ Under(w, x, y, lx, ly)
<1> DEFINE w == Hit(TopDown, x, y, lx, ly)
<1>1. TopDown \in Seq(Windows) /\ \A i \in 1 .. Len(TopDown) : TopDown[i] \in opened \ deleted
    BY FromTop
<1>2. \/ w = Null
      \/ \E i \in 1 .. Len(TopDown) : w = TopDown[i] /\ Under(TopDown[i], x, y, lx, ly)
    BY <1>1, HitIsFirst
<1> QED BY <1>1, <1>2

-----------------------------------------------------------------------------
(* The invariant, part by part. *)

ListPart == /\ ListInv
            /\ should_close \subseteq opened
            /\ current \in (opened \ deleted) \cup {Null}

TurnPart == /\ pc \in {"boot", "wait", "keys", "mouse", "poll", "cleanup"}
            /\ active_context \in {"TERMINAL", "GUI"}
            /\ in_picture \subseteq Windows

PointerPart == /\ events \in Seq([move : Moves, left : BOOLEAN])
               /\ Len(events) <= EventCapacity
               /\ mouseX \in 0 .. ScreenWidth - 1
               /\ left_was_down \in BOOLEAN
               /\ WithinReach(events, mouseY)

(* A window that is dragged is held at its title bar. *)
DragPart == /\ locX \in [Windows -> 0 .. Modulus - 1]
            /\ locY \in [Windows -> 0 .. Modulus - 1]
            /\ dragging \subseteq Windows
            /\ drag_offset \in [Windows -> Nat \X Nat]
            /\ \A w \in dragging : /\ drag_offset[w][1] <= Width[w]
                                  /\ drag_offset[w][2] < TitleHeight

DeskInv == ListPart /\ TurnPart /\ PointerPart /\ DragPart

LEMMA Reach == ASSUME NEW queue \in Seq([move : Moves, left : BOOLEAN]), NEW from,
                      WithinReach(queue, from)
               PROVE  from \in 0 .. MaxY
<1>1. PICK reach \in [0 .. Len(queue) -> 0 .. MaxY] : reach[0] = from
    BY DEF WithinReach
<1>2. 0 \in 0 .. Len(queue)
    BY LenProperties
<1> QED BY <1>1, <1>2

LEMMA ReachOn == ASSUME NEW queue \in Seq([move : Moves, left : BOOLEAN]), NEW from,
                        queue # <<>>, WithinReach(queue, from)
                 PROVE  WithinReach(Tail(queue), AtLeast0(from + Head(queue).move[2]))
<1>1. PICK reach \in [0 .. Len(queue) -> 0 .. MaxY] :
         /\ reach[0] = from
         /\ \A i \in 1 .. Len(queue) : reach[i] = AtLeast0(reach[i - 1] + queue[i].move[2])
    BY DEF WithinReach
<1>2. /\ Len(queue) \in Nat \ {0} /\ Len(Tail(queue)) = Len(queue) - 1
      /\ \A i \in 1 .. Len(Tail(queue)) : Tail(queue)[i] = queue[i + 1]
      /\ Head(queue) = queue[1]
    BY LenProperties, EmptySeq, HeadTailProperties
<1> DEFINE onwards == [i \in 0 .. Len(Tail(queue)) |-> reach[i + 1]]
<1>3. onwards \in [0 .. Len(Tail(queue)) -> 0 .. MaxY]
  <2>1. \A i \in 0 .. Len(Tail(queue)) : i + 1 \in 0 .. Len(queue)
      BY <1>2
  <2> QED BY <2>1
<1>4. onwards[0] = AtLeast0(from + Head(queue).move[2])
  <2>1. onwards[0] = reach[1] /\ 1 \in 1 .. Len(queue)
      BY <1>2
  <2>2. reach[1] = AtLeast0(reach[1 - 1] + queue[1].move[2])
      BY <1>1, <2>1
  <2> QED BY <1>1, <1>2, <2>1, <2>2
<1>5. ASSUME NEW i \in 1 .. Len(Tail(queue))
      PROVE  onwards[i] = AtLeast0(onwards[i - 1] + Tail(queue)[i].move[2])
  <2>1. /\ i + 1 \in 1 .. Len(queue) /\ i + 1 - 1 = i
        /\ onwards[i] = reach[i + 1] /\ onwards[i - 1] = reach[i]
      BY <1>2
  <2>2. reach[i + 1] = AtLeast0(reach[i + 1 - 1] + queue[i + 1].move[2])
      BY <1>1, <2>1
  <2> QED BY <1>2, <2>1, <2>2
<1> HIDE DEF onwards
<1> QED BY <1>3, <1>4, <1>5 DEF WithinReach

(* Where an event takes the pointer and the window that is dragged. *)
LEMMA EventMoves ==
    ASSUME PointerPart, events # <<>>
    PROVE  /\ Head(events).move[1] \in Int /\ Head(events).move[2] \in Int
           /\ Head(events).left \in BOOLEAN
           /\ mouseY \in 0 .. MaxY
           /\ MovedY(Head(events).move[2]) \in 0 .. MaxY
           /\ MovedX(Head(events).move[1], Head(events).move[2]) \in 0 .. ScreenWidth - 1
           /\ Tail(events) \in Seq([move : Moves, left : BOOLEAN])
           /\ Len(Tail(events)) <= EventCapacity
           /\ WithinReach(Tail(events), MovedY(Head(events).move[2]))
<1>1. events \in Seq([move : Moves, left : BOOLEAN])
    BY DEF PointerPart
<1>2. /\ Head(events) \in [move : Moves, left : BOOLEAN]
      /\ Tail(events) \in Seq([move : Moves, left : BOOLEAN])
      /\ Len(Tail(events)) = Len(events) - 1 /\ Len(events) \in Nat
    BY <1>1, HeadTailProperties, LenProperties
<1>3. Head(events).move[1] \in Int /\ Head(events).move[2] \in Int /\ Head(events).left \in BOOLEAN
    BY <1>2, MouseAssumption
<1>4. mouseY \in 0 .. MaxY
    BY <1>1, Reach DEF PointerPart
<1>5. WithinReach(Tail(events), MovedY(Head(events).move[2]))
    BY <1>1, ReachOn DEF PointerPart, MovedY
<1>6. MovedY(Head(events).move[2]) \in 0 .. MaxY
    BY <1>2, <1>5, Reach
<1>7. MovedX(Head(events).move[1], Head(events).move[2]) \in 0 .. ScreenWidth - 1
    BY <1>3, ScreenAssumption DEF MovedX, AtLeast0, PointerPart
<1>8. Len(Tail(events)) <= EventCapacity
    BY <1>2, MouseAssumption DEF PointerPart
<1> QED BY <1>2, <1>3, <1>4, <1>5, <1>6, <1>7, <1>8

(* Where the windows are once the one on top has followed the pointer. *)
FollowedX(x) == IF tail \in dragging THEN [locX EXCEPT ![tail] = MovedTo(x, tail, 1)] ELSE locX
FollowedY(y) == IF tail \in dragging THEN [locY EXCEPT ![tail] = MovedTo(y, tail, 2)] ELSE locY

LEMMA Followed == ASSUME DragPart, NEW x \in Int, NEW y \in Int
                  PROVE  /\ FollowedX(x) \in [Windows -> 0 .. Modulus - 1]
                         /\ FollowedY(y) \in [Windows -> 0 .. Modulus - 1]
<1>1. CASE tail \in dragging
  <2>1. tail \in Windows /\ drag_offset[tail][1] \in Int /\ drag_offset[tail][2] \in Int
      BY <1>1 DEF DragPart
  <2>2. MovedTo(x, tail, 1) \in 0 .. Modulus - 1 /\ MovedTo(y, tail, 2) \in 0 .. Modulus - 1
    <3>1. /\ x - drag_offset[tail][1] + Modulus \in Int
          /\ y - drag_offset[tail][2] + Modulus \in Int
        BY <2>1, ScreenAssumption
    <3> QED BY <3>1, Wraps DEF MovedTo
  <2> QED BY <1>1, <2>1, <2>2 DEF DragPart, FollowedX, FollowedY
<1>2. CASE tail \notin dragging
    BY <1>2 DEF DragPart, FollowedX, FollowedY
<1> QED BY <1>1, <1>2

(* A grip is inside the window. *)
LEMMA GripInside ==
    ASSUME NEW w \in Windows, NEW x \in Int, NEW y \in Int,
           NEW lx \in [Windows -> 0 .. Modulus - 1], NEW ly \in [Windows -> 0 .. Modulus - 1],
           Under(w, x, y, lx, ly)
    PROVE  /\ x - lx[w] \in Nat /\ x - lx[w] <= Width[w]
           /\ y - ly[w] \in Nat /\ y - ly[w] <= Height[w]
<1>1. /\ lx[w] \in Nat /\ ly[w] \in Nat /\ Width[w] \in Nat /\ Height[w] \in Nat
    BY WindowAssumption, ScreenAssumption
<1>2. /\ (lx[w] + Width[w]) % Modulus <= lx[w] + Width[w]
      /\ (ly[w] + Height[w]) % Modulus <= ly[w] + Height[w]
      /\ (lx[w] + Width[w]) % Modulus \in Int /\ (ly[w] + Height[w]) % Modulus \in Int
    BY <1>1, Wraps
<1>3. /\ x >= lx[w] /\ x <= (lx[w] + Width[w]) % Modulus
      /\ y >= ly[w] /\ y <= (ly[w] + Height[w]) % Modulus
    BY DEF Under
<1> QED BY <1>1, <1>2, <1>3

(* What a button does to the list and to what is dragged. *)
LEMMA ButtonKeeps ==
    ASSUME ListPart, DragPart, NEW left \in BOOLEAN, NEW x \in Int, NEW y \in Int,
           NEW lx \in [Windows -> 0 .. Modulus - 1], NEW ly \in [Windows -> 0 .. Modulus - 1],
           Button(left, x, y, lx, ly), current' = current, locX' = lx, locY' = ly
    PROVE  /\ ListPart' /\ DragPart'
           /\ \/ BottomUp' = BottomUp
              \/ \E k \in 1 .. Len(BottomUp) :
                    BottomUp' = Append(Without(BottomUp, k), BottomUp[k])
<1> DEFINE w == Hit(TopDown, x, y, lx, ly)
<1>1. w # Null => w \in opened \ deleted /\ Under(w, x, y, lx, ly)
    BY HitOnList DEF ListPart
<1>2. opened \subseteq Windows
    BY DEF ListPart, ListInv
<1> HIDE DEF w
<1>3. ASSUME NoPress PROVE ListPart' /\ BottomUp' = BottomUp
  <2>1. ListInv' /\ BottomUp' = BottomUp
      BY <1>3, ListSame DEF NoPress, ListPart
  <2> QED BY <1>3, <2>1 DEF NoPress, ListPart, listVars
<1>4. ASSUME Unmoved PROVE DragPart'
    BY <1>4 DEF Unmoved, DragPart
<1>5. CASE w = Null \/ left = left_was_down
  <2>1. NoPress /\ Unmoved
      BY <1>5 DEF Button, w
  <2> QED BY <1>3, <1>4, <2>1
<1>6. CASE w # Null /\ left # left_was_down /\ left = FALSE
  <2>1. NoPress /\ Release(w)
      BY <1>6 DEF Button, w
  <2>2. w \in Windows
      BY <1>1, <1>2, <1>6
  <2>3. dragging' = dragging \ {w} /\ drag_offset' = [drag_offset EXCEPT ![w] = <<0, 0>>]
      BY <2>1 DEF Release
  <2>4. DragPart'
      BY <2>2, <2>3 DEF DragPart
  <2> QED BY <1>3, <2>1, <2>4
<1>7. CASE w # Null /\ left # left_was_down /\ left = TRUE
  <2>1. Press(w, x - lx[w], y - ly[w])
      BY <1>7 DEF Button, w
  <2>2. w \in Windows /\ w \in opened \ deleted /\ Under(w, x, y, lx, ly)
      BY <1>1, <1>2, <1>7
  <2>3. /\ ListInv' /\ opened' = opened /\ deleted' = deleted
        /\ \/ BottomUp' = BottomUp
           \/ \E k \in 1 .. Len(BottomUp) : BottomUp' = Append(Without(BottomUp, k), BottomUp[k])
    <3>1. focus_window(w)
        BY <2>1 DEF Press
    <3>2. /\ ListInv' /\ UNCHANGED <<opened, deleted>>
          /\ \/ UNCHANGED listVars
             \/ \E k \in 1 .. Len(BottomUp) :
                   w = BottomUp[k] /\ BottomUp' = Append(Without(BottomUp, k), w)
        BY <2>2, <3>1, FocusKeeps DEF ListPart
    <3>3. UNCHANGED listVars => BottomUp' = BottomUp
        BY ListSame DEF ListPart
    <3> QED BY <3>2, <3>3
  <2>4. should_close' \subseteq opened
      BY <2>1, <2>2 DEF Press, ListPart
  <2>5. ListPart'
      BY <2>3, <2>4 DEF ListPart
  <2>6. /\ x - lx[w] \in Nat /\ x - lx[w] <= Width[w]
        /\ y - ly[w] \in Nat
      BY <2>2, GripInside
  <2>7. DragPart'
    <3> DEFINE a == x - lx[w]
               b == y - ly[w]
    <3>1. \/ dragging' = dragging /\ drag_offset' = drag_offset
          \/ /\ b < TitleHeight
             /\ dragging' = dragging \cup {w}
             /\ drag_offset' = [drag_offset EXCEPT ![w] = <<a, b>>]
        BY <2>1 DEF Press
    <3>2. a \in Nat /\ a <= Width[w] /\ b \in Nat
        BY <2>6
    <3> HIDE DEF a, b
    <3>3. CASE dragging' = dragging /\ drag_offset' = drag_offset
        BY <3>3 DEF DragPart
    <3>4. CASE /\ b < TitleHeight
               /\ dragging' = dragging \cup {w}
               /\ drag_offset' = [drag_offset EXCEPT ![w] = <<a, b>>]
        BY <2>2, <3>2, <3>4 DEF DragPart
    <3> QED BY <3>1, <3>3, <3>4
  <2> QED BY <2>3, <2>5, <2>7
<1>8. left = TRUE \/ left = FALSE
    OBVIOUS
<1> QED BY <1>5, <1>6, <1>7, <1>8

LEMMA EventKeeps ==
    ASSUME DeskInv, ProcessEvent
    PROVE  /\ DeskInv'
           /\ \/ BottomUp' = BottomUp
              \/ \E k \in 1 .. Len(BottomUp) :
                    BottomUp' = Append(Without(BottomUp, k), BottomUp[k])
<1> DEFINE e == Head(events)
           x == MovedX(e.move[1], e.move[2])
           y == MovedY(e.move[2])
<1>1. ListPart /\ TurnPart /\ PointerPart /\ DragPart
    BY DEF DeskInv
<1>2. /\ mouseX' = x /\ mouseY' = y /\ left_was_down' = e.left
      /\ events' = Tail(events) /\ events # <<>>
      /\ UNCHANGED <<current, pc, active_context, in_picture>>
    BY DEF ProcessEvent
<1>3. \/ UNCHANGED <<windowVars, listVars, should_close>>
      \/ /\ locX' = FollowedX(x) /\ locY' = FollowedY(y)
         /\ Button(e.left, x, y, FollowedX(x), FollowedY(y))
    BY DEF ProcessEvent, FollowedX, FollowedY
<1>4. /\ e.left \in BOOLEAN
      /\ y \in 0 .. MaxY /\ x \in 0 .. ScreenWidth - 1
      /\ Tail(events) \in Seq([move : Moves, left : BOOLEAN])
      /\ Len(Tail(events)) <= EventCapacity
      /\ WithinReach(Tail(events), y)
    BY <1>1, <1>2, EventMoves
<1> HIDE DEF e, x, y
<1>5. TurnPart'
    BY <1>1, <1>2 DEF TurnPart
<1>6. PointerPart'
    BY <1>2, <1>4 DEF PointerPart
<1>7. /\ ListPart' /\ DragPart'
      /\ \/ BottomUp' = BottomUp
         \/ \E k \in 1 .. Len(BottomUp) :
               BottomUp' = Append(Without(BottomUp, k), BottomUp[k])
  <2>1. CASE UNCHANGED <<windowVars, listVars, should_close>>
    <3>1. ListInv' /\ BottomUp' = BottomUp
        BY <1>1, <2>1, ListSame DEF ListPart
    <3> QED BY <1>1, <1>2, <2>1, <3>1 DEF ListPart, DragPart, windowVars, listVars
  <2>2. CASE /\ locX' = FollowedX(x) /\ locY' = FollowedY(y)
             /\ Button(e.left, x, y, FollowedX(x), FollowedY(y))
    <3>1. x \in Int /\ y \in Int
        BY <1>4, ScreenAssumption
    <3>2. /\ FollowedX(x) \in [Windows -> 0 .. Modulus - 1]
          /\ FollowedY(y) \in [Windows -> 0 .. Modulus - 1]
        BY <1>1, <3>1, Followed
    <3> QED BY <1>1, <1>2, <1>4, <2>2, <3>1, <3>2, ButtonKeeps
  <2> QED BY <1>3, <2>1, <2>2
<1> QED BY <1>5, <1>6, <1>7 DEF DeskInv

-----------------------------------------------------------------------------
(* The other steps. *)

LEMMA Drawn == ASSUME ListInv, Draw PROVE in_picture' \subseteq Windows
<1>1. in_picture' = Visible(BottomUp, locX, locY, mouseX, mouseY)
    BY DEF Draw
<1>2. BottomUp \in [DOMAIN BottomUp -> Windows]
    BY ChainTypes
<1> QED BY <1>1, <1>2 DEF Visible

LEMMA Start == ASSUME Init PROVE DeskInv
<1>1. ListInv
    BY ListStart DEF Init
<1>2. ListPart
    BY <1>1 DEF Init, ListInit, ListPart
<1>3. TurnPart
    BY DEF Init, TurnPart
<1>4. PointerPart
  <2>1. <<>> \in Seq([move : Moves, left : BOOLEAN]) /\ Len(<<>>) = 0
      BY EmptySeq
  <2>2. ASSUME NEW queue, Len(queue) = 0 PROVE WithinReach(queue, 0)
    <3> DEFINE reach == [i \in 0 .. 0 |-> 0]
    <3>1. reach \in [0 .. Len(queue) -> 0 .. MaxY]
        BY <2>2, ScreenAssumption
    <3>2. reach[0] = 0
        OBVIOUS
    <3>3. \A i \in 1 .. Len(queue) : FALSE
        BY <2>2
    <3> HIDE DEF reach
    <3>4. \A i \in 1 .. Len(queue) : reach[i] = AtLeast0(reach[i - 1] + queue[i].move[2])
        BY <3>3
    <3> QED BY <3>1, <3>2, <3>4 DEF WithinReach
  <2>3. events = <<>> /\ mouseY = 0 /\ mouseX = 0 /\ left_was_down = FALSE
      BY DEF Init
  <2>4. events \in Seq([move : Moves, left : BOOLEAN]) /\ Len(events) = 0
      BY <2>1, <2>3
  <2>5. WithinReach(events, mouseY)
      BY <2>2, <2>3, <2>4
  <2>6. Len(events) <= EventCapacity
      BY <2>4, MouseAssumption
  <2>7. mouseX \in 0 .. ScreenWidth - 1
      BY <2>3, ScreenAssumption
  <2>8. left_was_down \in BOOLEAN
      BY <2>3
  <2> QED BY <2>4, <2>5, <2>6, <2>7, <2>8 DEF PointerPart
<1>5. DragPart
  <2>1. StartX \in [Windows -> 0 .. Modulus - 1] /\ StartY \in [Windows -> 0 .. Modulus - 1]
      BY ScreenAssumption, WindowAssumption
  <2> QED BY <2>1 DEF Init, DragPart
<1> QED BY <1>2, <1>3, <1>4, <1>5 DEF DeskInv

LEMMA OpenKeeps == ASSUME DeskInv, NEW w \in Windows, Open(w)
                   PROVE  /\ DeskInv' /\ BottomUp' = Append(BottomUp, w)
                          /\ w \notin ToSet(BottomUp)
<1>1. ListInv' /\ BottomUp' = Append(BottomUp, w) /\ w \notin ToSet(BottomUp)
    BY AddKeeps DEF Open, DeskInv, ListPart
<1>2. ListPart'
    BY <1>1 DEF Open, add_window, DeskInv, ListPart
<1> QED BY <1>1, <1>2 DEF Open, DeskInv, TurnPart, PointerPart, DragPart, pointerVars, windowVars

LEMMA CleanUpKeeps ==
    ASSUME DeskInv, CleanUp
    PROVE  /\ DeskInv'
           /\ \/ BottomUp' = BottomUp
              \/ \E k \in 1 .. Len(BottomUp) : BottomUp' = Without(BottomUp, k)
<1>1. /\ current \in opened \ deleted /\ current \in Windows /\ ListInv
      /\ should_close \subseteq opened
    BY DEF DeskInv, ListPart, ListInv, CleanUp, CleanUpOne
<1>2. current' = next[current] /\ should_close' = should_close
    BY DEF CleanUp, CleanUpOne
<1>3. next[current] \in (opened \ deleted) \cup {Null} /\ next[current] # current
    BY <1>1, Around
<1>4. /\ ListPart'
      /\ \/ BottomUp' = BottomUp
         \/ \E k \in 1 .. Len(BottomUp) : BottomUp' = Without(BottomUp, k)
  <2>1. CASE current \in should_close
    <3>1. delete_window(current)
        BY <2>1 DEF CleanUp, CleanUpOne
    <3>2. /\ ListInv'
          /\ \E k \in 1 .. Len(BottomUp) : BottomUp' = Without(BottomUp, k)
        BY <1>1, <3>1, DeleteKeeps
    <3>3. deleted' = deleted \cup {current} /\ opened' = opened
        BY <3>1 DEF delete_window
    <3> QED BY <1>1, <1>2, <1>3, <3>2, <3>3 DEF ListPart
  <2>2. CASE current \notin should_close
    <3>1. UNCHANGED listVars
        BY <2>2 DEF CleanUp, CleanUpOne
    <3>2. ListInv' /\ BottomUp' = BottomUp
        BY <1>1, <3>1, ListSame
    <3> QED BY <1>1, <1>2, <1>3, <3>1, <3>2 DEF ListPart, listVars
  <2> QED BY <2>1, <2>2
<1> QED BY <1>4 DEF CleanUp, DeskInv, TurnPart, PointerPart, DragPart, pointerVars, windowVars

(* Steps that leave the list as it is. *)
LEMMA ListStays == ASSUME ListPart, UNCHANGED listVars, should_close' \subseteq opened,
                          current' \in {current, head}
                   PROVE  ListPart' /\ BottomUp' = BottomUp
<1>1. ListInv' /\ BottomUp' = BottomUp
    BY ListSame DEF ListPart
<1>2. head \in (opened \ deleted) \cup {Null}
  <2>1. Len(BottomUp) \in Nat /\ BottomUp \in [1 .. Len(BottomUp) -> Windows]
      BY ChainTypes DEF ListPart
  <2>2. CASE Len(BottomUp) = 0
      BY <2>2 DEF ListPart, ListInv, Chain, Leads
  <2>3. CASE Len(BottomUp) > 0
    <3>1. head = BottomUp[1]
        BY <2>3 DEF ListPart, ListInv, Chain, Leads
    <3>2. 1 \in 1 .. Len(BottomUp)
        BY <2>1, <2>3
    <3>3. BottomUp[1] \in opened \ deleted
        BY <2>1, <3>2, ChainTypes DEF ListPart
    <3> QED BY <3>1, <3>3
  <2> QED BY <2>1, <2>2, <2>3
<1> QED BY <1>1, <1>2 DEF ListPart, listVars

LEMMA TopIsOpen == ASSUME ListInv
                   PROVE  /\ Len(BottomUp) = 0 => tail = Null
                          /\ Len(BottomUp) > 0 => /\ tail = BottomUp[Len(BottomUp)]
                                                  /\ tail \in opened \ deleted
<1>1. Len(BottomUp) \in Nat /\ BottomUp \in [1 .. Len(BottomUp) -> Windows]
    BY ChainTypes
<1>2. /\ Len(BottomUp) = 0 => tail = Null
      /\ Len(BottomUp) > 0 => tail = BottomUp[Len(BottomUp)]
    BY DEF ListInv, Chain, LeadsBack
<1>3. Len(BottomUp) > 0 => BottomUp[Len(BottomUp)] \in opened \ deleted
  <2> HAVE Len(BottomUp) > 0
  <2>1. Len(BottomUp) \in 1 .. Len(BottomUp)
      BY <1>1
  <2> QED BY <1>1, <2>1, ChainTypes
<1> QED BY <1>2, <1>3

(* Every other action. *)
OtherStep == \/ Booted \/ KeysDone \/ EventsDone \/ Render \/ CleanedUp \/ ServeTerminal
             \/ SwitchDisplay \/ TypeExit \/ TimerIrq
             \/ \E move \in Moves, left \in BOOLEAN : MouseIrq(move, left)

LEMMA OtherKeeps == ASSUME DeskInv, OtherStep PROVE DeskInv' /\ BottomUp' = BottomUp
<1>1. ListPart /\ TurnPart /\ PointerPart /\ DragPart /\ ListInv
    BY DEF DeskInv, ListPart
<1>2. UNCHANGED listVars
    BY DEF OtherStep, Booted, KeysDone, EventsDone, Render, CleanedUp, ServeTerminal,
           SwitchDisplay, TypeExit, TimerIrq, MouseIrq
<1>3. UNCHANGED windowVars
    BY DEF OtherStep, Booted, KeysDone, EventsDone, Render, CleanedUp, ServeTerminal,
           SwitchDisplay, TypeExit, TimerIrq, MouseIrq
<1>4. UNCHANGED pointerVars
    BY DEF OtherStep, Booted, KeysDone, EventsDone, Render, CleanedUp, ServeTerminal,
           SwitchDisplay, TypeExit, TimerIrq, MouseIrq
<1>5. DragPart'
    BY <1>1, <1>3 DEF DragPart, windowVars
<1>6. PointerPart'
  <2>1. CASE events' = events
      BY <1>1, <1>4, <2>1 DEF PointerPart, pointerVars
  <2>2. ASSUME NEW move \in Moves, NEW left \in BOOLEAN, MouseIrq(move, left) PROVE PointerPart'
    <3>1. /\ events' = Append(events, [move |-> move, left |-> left])
          /\ Len(events) < EventCapacity
          /\ WithinReach(events', mouseY)
        BY <2>2 DEF MouseIrq
    <3>2. /\ events' \in Seq([move : Moves, left : BOOLEAN])
          /\ Len(events') = Len(events) + 1 /\ Len(events) \in Nat
      <4>1. [move |-> move, left |-> left] \in [move : Moves, left : BOOLEAN]
          OBVIOUS
      <4> QED BY <1>1, <3>1, <4>1, AppendProperties, LenProperties DEF PointerPart
    <3> QED BY <1>1, <1>4, <3>1, <3>2, MouseAssumption DEF PointerPart, pointerVars
  <2>3. \/ events' = events
        \/ \E move \in Moves, left \in BOOLEAN : MouseIrq(move, left)
      BY DEF OtherStep, Booted, KeysDone, EventsDone, Render, CleanedUp, ServeTerminal,
             SwitchDisplay, TypeExit, TimerIrq
  <2> QED BY <2>1, <2>2, <2>3
<1>7. TurnPart'
  <2>1. CASE Booted \/ Render
    <3>1. Draw
        BY <2>1 DEF Booted, Render
    <3>2. in_picture' \subseteq Windows
        BY <1>1, <3>1, Drawn
    <3> QED BY <1>1, <2>1, <3>2 DEF Booted, Render, TurnPart
  <2>2. CASE ~ (Booted \/ Render)
      BY <1>1, <2>2 DEF OtherStep, KeysDone, EventsDone, CleanedUp, ServeTerminal,
             SwitchDisplay, TypeExit, TimerIrq, MouseIrq, TurnPart, Woken
  <2> QED BY <2>1, <2>2
<1>8. current' \in {current, head}
    BY DEF OtherStep, Booted, KeysDone, EventsDone, Render, CleanedUp, ServeTerminal,
           SwitchDisplay, TypeExit, TimerIrq, MouseIrq
<1>9. should_close' \subseteq opened
  <2>1. CASE TypeExit
    <3>1. tail \in Windows /\ should_close' = should_close \cup {tail}
        BY <2>1, WindowAssumption DEF TypeExit
    <3>2. tail \in opened
        BY <1>1, <3>1, TopIsOpen, ChainTypes, NullAssumption
    <3> QED BY <1>1, <3>1, <3>2 DEF ListPart
  <2>2. CASE ~ TypeExit
    <3>1. should_close' = should_close
        BY <2>2 DEF OtherStep, Booted, KeysDone, EventsDone, Render, CleanedUp, ServeTerminal,
               SwitchDisplay, TimerIrq, MouseIrq
    <3> QED BY <1>1, <3>1 DEF ListPart
  <2> QED BY <2>1, <2>2
<1>10. ListPart' /\ BottomUp' = BottomUp
    BY <1>1, <1>2, <1>8, <1>9, ListStays
<1> QED BY <1>5, <1>6, <1>7, <1>10 DEF DeskInv

LEMMA StutterKeeps == ASSUME DeskInv, UNCHANGED vars PROVE DeskInv' /\ BottomUp' = BottomUp
<1>1. ListPart' /\ BottomUp' = BottomUp
    BY ListStays DEF DeskInv, ListPart, vars
<1> QED BY <1>1 DEF vars, pointerVars, windowVars, DeskInv, TurnPart, PointerPart, DragPart

LEMMA NextSteps == ASSUME Next
                   PROVE  \/ \E w \in Windows : Open(w)
                          \/ ProcessEvent
                          \/ CleanUp
                          \/ OtherStep
BY DEF Next, LoopStep, OtherStep

LEMMA StepKeeps == DeskInv /\ [Next]_vars => DeskInv'
BY OpenKeeps, EventKeeps, CleanUpKeeps, OtherKeeps, StutterKeeps, NextSteps

LEMMA Holds == Spec => []DeskInv
<1>1. Init => DeskInv
    BY Start
<1> QED BY <1>1, StepKeeps, PTL DEF Spec

-----------------------------------------------------------------------------
(* The theorems. *)

LEMMA TypesHold == ASSUME DeskInv PROVE TypeOK
<1>1. mouseY \in 0 .. MaxY
    BY Reach DEF DeskInv, PointerPart
<1>2. head \in Windows \cup {Null} /\ tail \in Windows \cup {Null}
  <2>1. Len(BottomUp) \in Nat /\ BottomUp \in [1 .. Len(BottomUp) -> Windows]
      BY ChainTypes DEF DeskInv, ListPart
  <2>2. /\ Len(BottomUp) = 0 => head = Null /\ tail = Null
        /\ Len(BottomUp) > 0 => head = BottomUp[1] /\ tail = BottomUp[Len(BottomUp)]
      BY DEF DeskInv, ListPart, ListInv, Chain, Leads, LeadsBack
  <2> QED BY <2>1, <2>2
<1>3. ListTypeOK
    BY <1>2 DEF DeskInv, ListPart, ListInv, ListTypeOK
<1> QED BY <1>1, <1>3 DEF DeskInv, TurnPart, PointerPart, DragPart, TypeOK

LEMMA LinkedHolds == ASSUME ListInv PROVE Linked
<1> DEFINE L == Len(BottomUp)
<1>1. /\ L \in Nat /\ BottomUp \in [1 .. L -> Windows]
      /\ \A i, j \in 1 .. L : BottomUp[i] = BottomUp[j] => i = j
      /\ On(BottomUp) = opened \ deleted
      /\ ToSet(BottomUp) = opened \ deleted
    BY ChainTypes DEF ListInv
<1>2. BottomUp \in Bijection(1 .. L, opened \ deleted)
  <2>1. BottomUp \in [1 .. L -> opened \ deleted]
      BY <1>1 DEF On
  <2>2. \A w \in opened \ deleted : \E i \in 1 .. L : BottomUp[i] = w
      BY <1>1 DEF On
  <2> QED BY <1>1, <2>1, <2>2 DEF Bijection, Injection, Surjection, IsInjective
<1>3. Cardinality(opened \ deleted) = Cardinality(1 .. L)
  <2>1. IsFiniteSet(1 .. L)
      BY <1>1, FS_Interval
  <2> QED BY <1>2, <2>1, FS_Bijection DEF ExistsBijection
<1>4. Cardinality(1 .. L) = L
    BY <1>1, FS_Interval
<1>5. TopDown = Reverse(BottomUp)
    BY FromTop
<1> QED BY <1>1, <1>3, <1>4, <1>5 DEF Linked

(* Types, and a list whose two directions agree and meet exactly the       *)
(* windows that are open, also while the clean-up edits the list it walks  *)
(* (Compositor.cpp), for any windows, screen, mouse and queue.             *)
THEOREM ListIntact == Spec => []DesktopInv
<1>1. DeskInv => DesktopInv
    BY TypesHold, LinkedHolds DEF DesktopInv, CleanUpOnList, DeskInv, ListPart
<1> QED BY Holds, <1>1, PTL

LEMMA Removed == ASSUME NEW order \in Seq(Windows), NEW k \in 1 .. Len(order)
                 PROVE  RemoveAt(order, k) = Without(order, k)
<1> DEFINE L == Len(order)
           low == SubSeq(order, 1, k - 1)
           high == SubSeq(order, k + 1, L)
<1>1. L \in Nat /\ k \in 1 .. L /\ order \in [1 .. L -> Windows]
    BY LenProperties
<1>2. /\ low \in Seq(Windows) /\ Len(low) = k - 1
      /\ \A i \in 1 .. k - 1 : low[i] = order[i]
  <2>1. 1 \in Int /\ k - 1 \in Int /\ \A i \in 1 .. k - 1 : order[i] \in Windows
      BY <1>1
  <2>2. /\ low \in Seq(Windows)
        /\ Len(low) = IF 1 <= k - 1 THEN k - 1 - 1 + 1 ELSE 0
        /\ \A i \in 1 .. k - 1 - 1 + 1 : low[i] = order[1 + i - 1]
      BY <2>1, SubSeqProperties
  <2> HIDE DEF low
  <2> QED BY <1>1, <2>2
<1>3. /\ high \in Seq(Windows) /\ Len(high) = L - k
      /\ \A i \in 1 .. L - k : high[i] = order[k + i]
  <2>1. k + 1 \in Int /\ L \in Int /\ \A i \in k + 1 .. L : order[i] \in Windows
      BY <1>1
  <2>2. /\ high \in Seq(Windows)
        /\ Len(high) = IF k + 1 <= L THEN L - (k + 1) + 1 ELSE 0
        /\ \A i \in 1 .. L - (k + 1) + 1 : high[i] = order[k + 1 + i - 1]
      BY <2>1, SubSeqProperties
  <2> HIDE DEF high, L
  <2>3. Len(high) = L - k
      BY <1>1, <2>2
  <2>4. \A i \in 1 .. L - k : i \in 1 .. L - (k + 1) + 1 /\ k + 1 + i - 1 = k + i
      BY <1>1
  <2> QED BY <2>2, <2>3, <2>4
<1> HIDE DEF low, high, L
<1>4. /\ low \o high \in Seq(Windows) /\ Len(low \o high) = L - 1
      /\ \A i \in 1 .. L - 1 : (low \o high)[i] = IF i < k THEN order[i] ELSE order[i + 1]
  <2>1. /\ low \o high \in Seq(Windows) /\ Len(low \o high) = Len(low) + Len(high)
        /\ \A i \in 1 .. Len(low) + Len(high) :
              (low \o high)[i] = IF i <= Len(low) THEN low[i] ELSE high[i - Len(low)]
      BY <1>2, <1>3, ConcatProperties
  <2>2. Len(low) + Len(high) = L - 1
      BY <1>1, <1>2, <1>3
  <2>3. ASSUME NEW i \in 1 .. L - 1
        PROVE  (low \o high)[i] = IF i < k THEN order[i] ELSE order[i + 1]
    <3>1. (low \o high)[i] = IF i <= k - 1 THEN low[i] ELSE high[i - (k - 1)]
        BY <1>2, <2>1, <2>2
    <3>2. CASE i < k
      <4>1. i <= k - 1 /\ i \in 1 .. k - 1
          BY <1>1, <3>2
      <4> QED BY <1>2, <3>1, <3>2, <4>1
    <3>3. CASE ~(i < k)
      <4>1. ~(i <= k - 1) /\ i - (k - 1) \in 1 .. L - k /\ k + (i - (k - 1)) = i + 1
          BY <1>1, <3>3
      <4> QED BY <1>3, <3>1, <3>3, <4>1
    <3> QED BY <3>2, <3>3
  <2> QED BY <2>1, <2>2, <2>3
<1>5. /\ Without(order, k) \in Seq(Windows)
      /\ Len(Without(order, k)) = L - 1
      /\ \A i \in 1 .. L - 1 : Without(order, k)[i] = IF i < k THEN order[i] ELSE order[i + 1]
    BY WithoutIs DEF L
<1>6. low \o high = Without(order, k)
    BY <1>4, <1>5, SeqEqual
<1> QED BY <1>6 DEF RemoveAt, low, high, L

LEMMA OrderStep == ASSUME DeskInv, Next PROVE Order!Next \/ BottomUp' = BottomUp
<1>1. BottomUp \in Seq(Windows) /\ DOMAIN BottomUp = 1 .. Len(BottomUp)
  <2>1. BottomUp \in Seq(Windows)
      BY ChainTypes DEF DeskInv, ListPart
  <2> QED BY <2>1, LenProperties
<1>2. ASSUME NEW w \in Windows, Open(w) PROVE Order!Next
  <2>1. Order!Open(w)
      BY <1>2, OpenKeeps DEF Order!Open, Order!ToSet, ToSet
  <2> QED BY <2>1 DEF Order!Next
<1>3. ASSUME ProcessEvent PROVE Order!Next \/ BottomUp' = BottomUp
  <2>1. CASE \E k \in 1 .. Len(BottomUp) : BottomUp' = Append(Without(BottomUp, k), BottomUp[k])
    <3>1. PICK k \in 1 .. Len(BottomUp) : BottomUp' = Append(Without(BottomUp, k), BottomUp[k])
        BY <2>1
    <3>2. RemoveAt(BottomUp, k) = Without(BottomUp, k)
        BY <1>1, Removed
    <3>3. Order!Raise(k)
        BY <3>1, <3>2 DEF Order!Raise, Order!RemoveAt, RemoveAt
    <3> QED BY <1>1, <3>3 DEF Order!Next
  <2> QED BY <1>3, <2>1, EventKeeps
<1>4. ASSUME CleanUp PROVE Order!Next \/ BottomUp' = BottomUp
  <2>1. CASE \E k \in 1 .. Len(BottomUp) : BottomUp' = Without(BottomUp, k)
    <3>1. PICK k \in 1 .. Len(BottomUp) : BottomUp' = Without(BottomUp, k)
        BY <2>1
    <3>2. RemoveAt(BottomUp, k) = Without(BottomUp, k)
        BY <1>1, Removed
    <3>3. Order!Leave(k)
        BY <3>1, <3>2 DEF Order!Leave, Order!RemoveAt, RemoveAt
    <3> QED BY <1>1, <3>3 DEF Order!Next
  <2> QED BY <1>4, <2>1, CleanUpKeeps
<1>5. ASSUME OtherStep PROVE BottomUp' = BottomUp
    BY <1>5, OtherKeeps
<1> QED BY <1>2, <1>3, <1>4, <1>5, NextSteps

(* Opening, focusing, dragging and cleaning up do to the windows' order on *)
(* the screen what ZOrder says: the pointer surgery of focus_window and    *)
(* delete_window is a move to the top and a removal, for any windows.      *)
THEOREM Refinement == Spec => ZOrderSpec
<1>1. Init => Order!Init
    BY ListStart DEF Init, Order!Init
<1>2. DeskInv /\ [Next]_vars => [Order!Next]_BottomUp
    BY OrderStep, StutterKeeps
<1> QED BY Holds, <1>1, <1>2, PTL DEF Spec, ZOrderSpec, Order!Spec

(* A release on the window on top finds it, unless its position wrapped. *)
LEMMA ReleaseFinds ==
    ASSUME DeskInv, Next, Clicked(FALSE), tail' \in dragging'
    PROVE  mouseX' < drag_offset[tail][1] \/ mouseY' < drag_offset[tail][2]
<1> DEFINE e == Head(events)
           x == MovedX(e.move[1], e.move[2])
           y == MovedY(e.move[2])
           w == Hit(TopDown, x, y, FollowedX(x), FollowedY(y))
<1>1. ListInv /\ PointerPart /\ DragPart
    BY DEF DeskInv, ListPart
<1>2. ProcessEvent
  <2>1. left_was_down' # left_was_down
      BY DEF Clicked
  <2> QED BY <2>1 DEF Next, LoopStep, Open, Booted, KeysDone, EventsDone, Render, CleanUp, CleanedUp,
                      ServeTerminal, SwitchDisplay, TypeExit, TimerIrq, MouseIrq, pointerVars
<1>3. /\ mouseX' = x /\ mouseY' = y /\ e.left = FALSE /\ left_was_down # FALSE
      /\ events # <<>>
      /\ Button(e.left, x, y, FollowedX(x), FollowedY(y))
    BY <1>2 DEF ProcessEvent, Clicked, FollowedX, FollowedY
<1>4. y \in 0 .. MaxY /\ x \in 0 .. ScreenWidth - 1
    BY <1>1, <1>3, EventMoves
<1> HIDE DEF x, y
<1>5. \/ w = Null /\ NoPress /\ Unmoved
      \/ w # Null /\ NoPress /\ Release(w)
    BY <1>3 DEF Button
<1>6. tail' = tail /\ tail \in dragging
  <2>1. tail' = tail
      BY <1>5 DEF NoPress, listVars
  <2>2. dragging' \subseteq dragging
      BY <1>5 DEF Unmoved, Release
  <2> QED BY <2>1, <2>2
<1> SUFFICES ASSUME x >= drag_offset[tail][1], y >= drag_offset[tail][2] PROVE FALSE
  <2>1. drag_offset[tail][1] \in Int /\ drag_offset[tail][2] \in Int
      BY <1>1, <1>6 DEF DragPart
  <2> QED BY <1>3, <1>4, <2>1
<1> DEFINE a == drag_offset[tail][1]
           b == drag_offset[tail][2]
<1>7. /\ tail \in Windows /\ a \in Nat /\ b \in Nat
      /\ a <= Width[tail] /\ b < TitleHeight
    BY <1>1, <1>6 DEF DragPart
<1>8. /\ Width[tail] \in Nat /\ Height[tail] \in Nat /\ Width[tail] <= ScreenWidth
      /\ TitleHeight <= Height[tail] /\ MaxY + Height[tail] < Modulus
    BY <1>7, WindowAssumption, ScreenAssumption
<1>9. /\ MovedTo(x, tail, 1) = x - a
      /\ MovedTo(y, tail, 2) = y - b
  <2>1. x - a + Modulus \in Int /\ y - b + Modulus \in Int
      BY <1>4, <1>7, ScreenAssumption
  <2>2. x - a \in 0 .. Modulus - 1 /\ y - b \in 0 .. Modulus - 1
      BY <1>4, <1>7, ScreenAssumption
  <2>3. (x - a + Modulus) % Modulus = x - a /\ (y - b + Modulus) % Modulus = y - b
    <3> HIDE DEF a, b
    <3> QED BY <2>2, Wraps
  <2> QED BY <2>3 DEF MovedTo
<1>10. FollowedX(x)[tail] = x - a /\ FollowedY(y)[tail] = y - b
    BY <1>1, <1>6, <1>7, <1>9 DEF FollowedX, FollowedY, DragPart
<1>11. Under(tail, x, y, FollowedX(x), FollowedY(y))
  <2>1. /\ (x - a) + Width[tail] \in 0 .. Modulus - 1
        /\ (y - b) + Height[tail] \in 0 .. Modulus - 1
      BY <1>4, <1>7, <1>8, ScreenAssumption
  <2>2. /\ ((x - a) + Width[tail]) % Modulus = (x - a) + Width[tail]
        /\ ((y - b) + Height[tail]) % Modulus = (y - b) + Height[tail]
      BY <2>1, Wraps
  <2>3. /\ x >= x - a /\ x <= (x - a) + Width[tail]
        /\ y >= y - b /\ y <= (y - b) + Height[tail]
    <3> HIDE DEF a, b
    <3> QED BY <1>4, <1>7, <1>8, ScreenAssumption, WindowAssumption
  <2> HIDE DEF a, b
  <2> QED BY <1>10, <2>2, <2>3 DEF Under
<1>12. Len(TopDown) > 0 /\ TopDown[1] = tail /\ TopDown \in Seq(Windows) /\ Len(TopDown) \in Nat
  <2>1. Len(BottomUp) \in Nat
      BY <1>1, ChainTypes
  <2>2. Len(BottomUp) > 0 /\ tail = BottomUp[Len(BottomUp)]
      BY <1>1, <1>7, <2>1, TopIsOpen, NullAssumption
  <2>3. TopDown \in Seq(Windows) /\ Len(TopDown) = Len(BottomUp)
      BY <1>1, FromTop
  <2>4. TopDown[1] = BottomUp[(Len(BottomUp) - 1) + 1]
      BY <1>1, <2>1, <2>2, FromTop
  <2>5. (Len(BottomUp) - 1) + 1 = Len(BottomUp)
      BY <2>1
  <2> QED BY <2>1, <2>2, <2>3, <2>4, <2>5
<1>13. w = tail
  <2>1. 1 \in 1 .. Len(TopDown)
      BY <1>12
  <2>2. \/ \A i \in 1 .. Len(TopDown) : ~ Under(TopDown[i], x, y, FollowedX(x), FollowedY(y))
        \/ \E i \in 1 .. Len(TopDown) :
              /\ w = TopDown[i]
              /\ \A j \in 1 .. Len(TopDown) :
                    j < i => ~ Under(TopDown[j], x, y, FollowedX(x), FollowedY(y))
      BY <1>12, HitIsFirst
  <2> HIDE DEF w
  <2> QED BY <1>11, <1>12, <2>1, <2>2
<1>14. dragging' = dragging \ {tail}
    BY <1>5, <1>7, <1>13, NullAssumption DEF Release
<1> QED BY <1>6, <1>14

(* A release ends the drag of the window on top, unless the window was     *)
(* dragged over the left or the upper edge: hit testing finds the window   *)
(* that followed the pointer (inject_mouse_move, inject_mouse_button), for *)
(* any windows and screen.                                                 *)
THEOREM DragEnds == Spec => ReleaseEndsDrag
<1>1. DeskInv /\ [Next]_vars =>
        [Clicked(FALSE) /\ tail' \in dragging' =>
           mouseX' < drag_offset[tail][1] \/ mouseY' < drag_offset[tail][2]]_vars
    BY ReleaseFinds
<1> QED BY Holds, <1>1, PTL DEF Spec, ReleaseEndsDrag

-----------------------------------------------------------------------------
(* The picture and hit testing. *)

(* Rows of the screen follow one another. *)
LEMMA RowOrder == ASSUME NEW r \in Nat, NEW s \in Nat, r <= s
                  PROVE  /\ r * ScreenWidth \in Nat
                         /\ s * ScreenWidth \in Nat
                         /\ r * ScreenWidth <= s * ScreenWidth
                         /\ (r + 1) * ScreenWidth = r * ScreenWidth + ScreenWidth
BY ScreenAssumption

LEMMA RowsApart == ASSUME NEW r \in Nat, NEW s \in Nat, r < s
                   PROVE  /\ r * ScreenWidth \in Nat
                          /\ s * ScreenWidth \in Nat
                          /\ r * ScreenWidth + ScreenWidth <= s * ScreenWidth
<1>1. r + 1 \in Nat /\ r + 1 <= s /\ r <= s
    OBVIOUS
<1>2. r * ScreenWidth \in Nat /\ s * ScreenWidth \in Nat
    BY <1>1, RowOrder
<1>3. (r + 1) * ScreenWidth <= s * ScreenWidth
    BY <1>1, RowOrder
<1>4. (r + 1) * ScreenWidth = r * ScreenWidth + ScreenWidth
    BY <1>1, RowOrder
<1> QED BY <1>2, <1>3, <1>4

LEMMA SamePlace ==
    ASSUME NEW r \in Nat, NEW s \in Nat,
           NEW c \in 0 .. ScreenWidth - 1, NEW d \in 0 .. ScreenWidth - 1,
           Address(c, r) = Address(d, s)
    PROVE  r = s /\ c = d
<1>1. r * ScreenWidth + c = s * ScreenWidth + d
    BY DEF Address
<1>2. r * ScreenWidth \in Nat /\ s * ScreenWidth \in Nat
    BY RowOrder
<1>3. ~(r < s)
  <2> SUFFICES ASSUME r < s PROVE FALSE
      OBVIOUS
  <2>1. r * ScreenWidth + ScreenWidth <= s * ScreenWidth
      BY RowsApart
  <2> QED BY <1>1, <1>2, <2>1, ScreenAssumption
<1>4. ~(s < r)
  <2> SUFFICES ASSUME s < r PROVE FALSE
      OBVIOUS
  <2>1. s * ScreenWidth + ScreenWidth <= r * ScreenWidth
      BY RowsApart
  <2> QED BY <1>1, <1>2, <2>1, ScreenAssumption
<1>5. r = s
    BY <1>3, <1>4
<1> QED BY <1>1, <1>2, <1>5, ScreenAssumption

(* A window that stands on the screen, at a pixel x, y of the screen. *)
OnScreen(w, x, y, lx, ly) == /\ w \in Windows
                             /\ lx \in [Windows -> 0 .. Modulus - 1]
                             /\ ly \in [Windows -> 0 .. Modulus - 1]
                             /\ lx[w] + Width[w] \in 0 .. ScreenWidth
                             /\ ly[w] < ScreenHeight
                             /\ x \in 0 .. ScreenWidth - 1
                             /\ y \in 0 .. ScreenHeight - 1

Inside(w, x, y, lx, ly) == /\ x - lx[w] \in 0 .. Width[w] - 1
                           /\ y - ly[w] \in 0 .. Height[w] - 1

LEMMA Sizes == ASSUME NEW w, NEW x, NEW y, NEW lx, NEW ly, OnScreen(w, x, y, lx, ly)
               PROVE  /\ ScreenWidth \in Nat /\ ScreenHeight \in Nat
                      /\ x \in Nat /\ y \in Nat /\ x < ScreenWidth /\ y < ScreenHeight
                      /\ Width[w] \in Nat /\ Height[w] \in Nat /\ TitleHeight \in Nat
                      /\ lx[w] \in Nat /\ ly[w] \in Nat
                      /\ lx[w] + Width[w] <= ScreenWidth /\ lx[w] < ScreenWidth
                      /\ lx[w] + Width[w] < Modulus
                      /\ ly[w] < ScreenHeight /\ ly[w] + Height[w] < Modulus
<1>1. /\ Width[w] \in Nat \ {0} /\ Height[w] \in Nat /\ TitleHeight \in Nat
      /\ MaxY + Height[w] < Modulus
    BY WindowAssumption DEF OnScreen
<1>2. lx[w] \in Nat /\ ly[w] \in Nat
    BY ScreenAssumption DEF OnScreen
<1>3. ScreenWidth \in Nat /\ ScreenHeight \in Nat /\ x \in Nat /\ y \in Nat
    BY ScreenAssumption DEF OnScreen
<1> QED BY <1>1, <1>2, <1>3, ScreenAssumption DEF OnScreen

(* The rows of the window that come to lie at the pixel: the one there. *)
LEMMA RowThere ==
    ASSUME NEW w, NEW x, NEW y, NEW lx, NEW ly, OnScreen(w, x, y, lx, ly)
    PROVE  RowsAt(w, Address(x, y), lx[w], ly[w])
             = IF Inside(w, x, y, lx, ly) THEN {y - ly[w]} ELSE {}
<1> DEFINE a == lx[w]
           b == ly[w]
           W == Width[w]
           H == Height[w]
           pixel == Address(x, y)
<1>1. /\ ScreenWidth \in Nat /\ ScreenHeight \in Nat
      /\ x \in Nat /\ y \in Nat /\ x < ScreenWidth /\ y < ScreenHeight
      /\ W \in Nat /\ H \in Nat /\ a \in Nat /\ b \in Nat
      /\ a + W <= ScreenWidth /\ a < ScreenWidth
      /\ b < ScreenHeight /\ b + H < Modulus
    BY Sizes
<1>2. RowsAt(w, pixel, a, b)
        = {row \in 0 .. H - 1 : /\ a < ScreenWidth /\ (b + row) % Modulus < ScreenHeight
                                /\ pixel - Address(a, (b + row) % Modulus) \in 0 .. W - 1}
    BY DEF RowsAt, Copied, RowStart
<1>3. Inside(w, x, y, lx, ly) <=> x - a \in 0 .. W - 1 /\ y - b \in 0 .. H - 1
    BY DEF Inside
<1> HIDE DEF a, b, W, H
<1>4. ASSUME NEW row \in 0 .. H - 1 PROVE (b + row) % Modulus = b + row /\ b + row \in Nat
  <2>1. b + row \in 0 .. Modulus - 1 /\ b + row \in Int
      BY <1>1, ScreenAssumption
  <2> QED BY <1>1, <2>1, Wraps
<1>5. ASSUME NEW row \in 0 .. H - 1, b + row < ScreenHeight,
             pixel - Address(a, b + row) \in 0 .. W - 1
      PROVE  row = y - b /\ x - a \in 0 .. W - 1
  <2>1. b + row \in Nat
      BY <1>4
  <2> DEFINE d == pixel - Address(a, b + row)
             r == b + row
  <2>2. d \in 0 .. W - 1
      BY <1>5
  <2>3. y * ScreenWidth \in Nat /\ r * ScreenWidth \in Nat
      BY <1>1, <2>1, RowOrder
  <2>4. d = (y * ScreenWidth + x) - (r * ScreenWidth + a)
      BY DEF Address
  <2> HIDE DEF d, r
  <2>5. y * ScreenWidth + x = r * ScreenWidth + (a + d)
      BY <1>1, <2>2, <2>3, <2>4
  <2>6. /\ x \in 0 .. ScreenWidth - 1 /\ a + d \in 0 .. ScreenWidth - 1 /\ r \in Nat
        /\ Address(x, y) = Address(a + d, r)
      BY <1>1, <2>1, <2>2, <2>5 DEF Address, r
  <2>7. y = r /\ x = a + d
      BY <1>1, <2>6, SamePlace
  <2> QED BY <1>1, <2>2, <2>7 DEF r
<1>6. ASSUME x - a \in 0 .. W - 1, y - b \in 0 .. H - 1
      PROVE  pixel - Address(a, b + (y - b)) \in 0 .. W - 1
  <2>1. b + (y - b) = y
      BY <1>1
  <2>2. y * ScreenWidth \in Nat
      BY <1>1, RowOrder
  <2>3. pixel - Address(a, y) = (y * ScreenWidth + x) - (y * ScreenWidth + a)
      BY DEF Address
  <2>4. pixel - Address(a, y) = x - a
      BY <1>1, <2>2, <2>3
  <2> QED BY <1>6, <2>1, <2>4
<1> HIDE DEF pixel
<1>7. CASE Inside(w, x, y, lx, ly)
  <2>1. x - a \in 0 .. W - 1 /\ y - b \in 0 .. H - 1
      BY <1>3, <1>7
  <2>2. b + (y - b) < ScreenHeight
      BY <1>1
  <2>3. y - b \in RowsAt(w, pixel, a, b)
      BY <1>1, <1>2, <1>4, <1>6, <2>1, <2>2
  <2>4. ASSUME NEW row \in RowsAt(w, pixel, a, b) PROVE row = y - b
      BY <1>2, <1>4, <1>5
  <2> QED BY <1>7, <2>3, <2>4 DEF pixel, a, b
<1>8. CASE ~ Inside(w, x, y, lx, ly)
  <2>1. ASSUME NEW row \in RowsAt(w, pixel, a, b) PROVE FALSE
    <3>1. row \in 0 .. H - 1 /\ row = y - b /\ x - a \in 0 .. W - 1
        BY <1>2, <1>4, <1>5
    <3> QED BY <1>3, <1>8, <3>1
  <2> QED BY <1>8, <2>1 DEF pixel, a, b
<1> QED BY <1>7, <1>8

(* Off the border lines hit testing finds the window where it is drawn. *)
LEMMA UnderIsInside ==
    ASSUME NEW w, NEW x, NEW y, NEW lx, NEW ly, OnScreen(w, x, y, lx, ly),
           x # lx[w] + Width[w], y # ly[w] + Height[w]
    PROVE  Under(w, x, y, lx, ly) <=> Inside(w, x, y, lx, ly)
<1> DEFINE a == lx[w]
           b == ly[w]
           W == Width[w]
           H == Height[w]
<1>1. /\ x \in Nat /\ y \in Nat
      /\ W \in Nat /\ H \in Nat /\ a \in Nat /\ b \in Nat
      /\ a + W < Modulus /\ b + H < Modulus
    BY Sizes
<1>2. Under(w, x, y, lx, ly) <=> x >= a /\ x <= (a + W) % Modulus /\ y >= b /\ y <= (b + H) % Modulus
    BY DEF Under
<1>3. Inside(w, x, y, lx, ly) <=> x - a \in 0 .. W - 1 /\ y - b \in 0 .. H - 1
    BY DEF Inside
<1>4. x # a + W /\ y # b + H
    OBVIOUS
<1> HIDE DEF a, b, W, H
<1>5. a + W \in 0 .. Modulus - 1 /\ b + H \in 0 .. Modulus - 1 /\ a + W \in Int /\ b + H \in Int
    BY <1>1, ScreenAssumption
<1>6. (a + W) % Modulus = a + W /\ (b + H) % Modulus = b + H
    BY <1>5, Wraps
<1> QED BY <1>1, <1>2, <1>3, <1>4, <1>6

(* The part that shows there. *)
LEMMA PartThere ==
    ASSUME NEW w, NEW x, NEW y, NEW lx, NEW ly, OnScreen(w, x, y, lx, ly),
           Inside(w, x, y, lx, ly)
    PROVE  PartAt(w, Address(x, y), lx[w], ly[w])
             = IF y - ly[w] >= TitleHeight THEN "text"
               ELSE IF x - lx[w] < Width[w] - TitleHeight THEN "title" ELSE "close"
<1> DEFINE row == Max(RowsAt(w, Address(x, y), lx[w], ly[w]))
           column == Address(x, y) - RowStart(row, lx[w], ly[w])
<1>1. /\ ScreenWidth \in Nat /\ x \in Nat /\ y \in Nat /\ lx[w] \in Nat /\ ly[w] \in Nat
      /\ Height[w] \in Nat /\ ly[w] + Height[w] < Modulus
    BY Sizes
<1>2. row = y - ly[w]
  <2>1. RowsAt(w, Address(x, y), lx[w], ly[w]) = {y - ly[w]}
      BY RowThere
  <2>2. y - ly[w] \in Int
      BY <1>1
  <2>3. \A n \in Int : (CHOOSE m \in {n} : \A k \in {n} : m >= k) = n
      OBVIOUS
  <2> QED BY <2>1, <2>2, <2>3 DEF Max
<1>3. column = x - lx[w]
  <2>1. (ly[w] + (y - ly[w])) % Modulus = y
    <3>1. ly[w] + (y - ly[w]) = y /\ y \in 0 .. Modulus - 1 /\ y \in Int
        BY <1>1, ScreenAssumption DEF Inside
    <3> QED BY <3>1, Wraps
  <2>2. column = (y * ScreenWidth + x) - (y * ScreenWidth + lx[w])
      BY <1>2, <2>1 DEF RowStart, Address
  <2>3. y * ScreenWidth \in Nat
      BY <1>1, RowOrder
  <2> HIDE DEF column
  <2> QED BY <1>1, <2>2, <2>3
<1>4. PartAt(w, Address(x, y), lx[w], ly[w])
        = IF row >= TitleHeight THEN "text"
          ELSE IF column < Width[w] - TitleHeight THEN "title" ELSE "close"
    BY DEF PartAt
<1> QED BY <1>2, <1>3, <1>4

(* Hit testing, which walks from the top, finds the uppermost window there. *)
LEMMA HitFromTop ==
    ASSUME ListInv, NEW x, NEW y, NEW lx, NEW ly
    PROVE  LET w == Hit(TopDown, x, y, lx, ly)
           IN  \/ /\ w = Null
                  /\ \A i \in 1 .. Len(BottomUp) : ~ Under(BottomUp[i], x, y, lx, ly)
               \/ \E i \in 1 .. Len(BottomUp) :
                     /\ w = BottomUp[i]
                     /\ Under(BottomUp[i], x, y, lx, ly)
                     /\ \A j \in i + 1 .. Len(BottomUp) : ~ Under(BottomUp[j], x, y, lx, ly)
<1> DEFINE w == Hit(TopDown, x, y, lx, ly)
           L == Len(BottomUp)
           under(v) == Under(v, x, y, lx, ly)
<1>1. /\ TopDown \in Seq(Windows) /\ Len(TopDown) = L
      /\ \A i \in 1 .. L : TopDown[i] = BottomUp[(L - i) + 1]
    BY FromTop
<1>2. L \in Nat
    BY ChainTypes
<1>3. \/ w = Null /\ \A i \in 1 .. L : ~ under(TopDown[i])
      \/ \E i \in 1 .. L : /\ w = TopDown[i] /\ under(TopDown[i])
                           /\ \A j \in 1 .. L : j < i => ~ under(TopDown[j])
    BY <1>1, HitIsFirst
<1> HIDE DEF w, L, under
<1>4. ASSUME NEW i \in 1 .. L
      PROVE  (L - i) + 1 \in 1 .. L /\ BottomUp[i] = TopDown[(L - i) + 1]
  <2>1. (L - i) + 1 \in 1 .. L /\ (L - ((L - i) + 1)) + 1 = i
      BY <1>2
  <2>2. TopDown[(L - i) + 1] = BottomUp[(L - ((L - i) + 1)) + 1]
      BY <1>1, <2>1
  <2> QED BY <2>1, <2>2
<1>5. CASE w = Null /\ \A i \in 1 .. L : ~ under(TopDown[i])
  <2>1. \A i \in 1 .. L : ~ under(BottomUp[i])
      BY <1>4, <1>5
  <2> QED BY <1>5, <2>1 DEF w, L, under
<1>6. CASE \E i \in 1 .. L : /\ w = TopDown[i] /\ under(TopDown[i])
                             /\ \A j \in 1 .. L : j < i => ~ under(TopDown[j])
  <2>1. PICK i \in 1 .. L : /\ w = TopDown[i] /\ under(TopDown[i])
                            /\ \A j \in 1 .. L : j < i => ~ under(TopDown[j])
      BY <1>6
  <2> DEFINE k == (L - i) + 1
  <2>2. k \in 1 .. L /\ w = BottomUp[k] /\ under(BottomUp[k])
      BY <1>1, <1>2, <2>1
  <2>3. ASSUME NEW j \in k + 1 .. L PROVE ~ under(BottomUp[j])
    <3>1. j \in 1 .. L /\ (L - j) + 1 \in 1 .. L /\ (L - j) + 1 < i
        BY <1>2
    <3>2. BottomUp[j] = TopDown[(L - j) + 1]
        BY <1>4, <3>1
    <3> QED BY <2>1, <3>1, <3>2
  <2> HIDE DEF k
  <2> QED BY <2>2, <2>3 DEF w, L, under
<1> QED BY <1>3, <1>5, <1>6 DEF w

(* What shows at the pixel is what hit testing finds there. *)
ShownAt(x, y, lx, ly) ==
    {v \in Windows : \E i \in DOMAIN BottomUp :
        v = BottomUp[i] /\ Shows(BottomUp, i, Address(x, y), lx, ly)}

LEMMA ShownIsHit ==
    ASSUME ListInv, NEW x, NEW y, NEW lx, NEW ly,
           \A i \in 1 .. Len(BottomUp) : /\ OnScreen(BottomUp[i], x, y, lx, ly)
                                         /\ x # lx[BottomUp[i]] + Width[BottomUp[i]]
                                         /\ y # ly[BottomUp[i]] + Height[BottomUp[i]]
    PROVE  LET w == Hit(TopDown, x, y, lx, ly)
           IN  /\ ShownAt(x, y, lx, ly) = IF w = Null THEN {} ELSE {w}
               /\ w # Null => /\ w \in Windows /\ w \in opened \ deleted
                              /\ OnScreen(w, x, y, lx, ly) /\ Inside(w, x, y, lx, ly)
<1> DEFINE w == Hit(TopDown, x, y, lx, ly)
           L == Len(BottomUp)
           under(v) == Under(v, x, y, lx, ly)
           shows(i) == Shows(BottomUp, i, Address(x, y), lx, ly)
<1>1. /\ L \in Nat /\ DOMAIN BottomUp = 1 .. L
      /\ \A i \in 1 .. L : BottomUp[i] \in Windows /\ BottomUp[i] \in opened \ deleted
    BY ChainTypes
<1>2. ASSUME NEW i \in 1 .. L
      PROVE  /\ under(BottomUp[i]) <=> Inside(BottomUp[i], x, y, lx, ly)
             /\ under(BottomUp[i])
                  <=> RowsAt(BottomUp[i], Address(x, y), lx[BottomUp[i]], ly[BottomUp[i]]) # {}
  <2> DEFINE v == BottomUp[i]
  <2>1. OnScreen(v, x, y, lx, ly) /\ x # lx[v] + Width[v] /\ y # ly[v] + Height[v]
      OBVIOUS
  <2> HIDE DEF v
  <2>2. under(v) <=> Inside(v, x, y, lx, ly)
      BY <2>1, UnderIsInside
  <2>3. RowsAt(v, Address(x, y), lx[v], ly[v]) = IF Inside(v, x, y, lx, ly) THEN {y - ly[v]} ELSE {}
      BY <2>1, RowThere
  <2> HIDE DEF under
  <2> QED BY <2>2, <2>3 DEF v
<1>3. ASSUME NEW i \in 1 .. L
      PROVE  shows(i) <=> under(BottomUp[i]) /\ \A j \in i + 1 .. L : ~ under(BottomUp[j])
  <2>1. \A j \in i + 1 .. L : j \in 1 .. L
      BY <1>1
  <2> QED BY <1>2, <2>1 DEF Shows
<1>4. \/ w = Null /\ \A i \in 1 .. L : ~ under(BottomUp[i])
      \/ \E i \in 1 .. L : /\ w = BottomUp[i] /\ under(BottomUp[i])
                           /\ \A j \in i + 1 .. L : ~ under(BottomUp[j])
    BY HitFromTop
<1>5. ShownAt(x, y, lx, ly) = {v \in Windows : \E i \in 1 .. L : v = BottomUp[i] /\ shows(i)}
    BY <1>1 DEF ShownAt
<1>6. \A i \in 1 .. L : OnScreen(BottomUp[i], x, y, lx, ly)
    OBVIOUS
<1> HIDE DEF w, L, under, shows
<1>7. CASE w = Null /\ \A i \in 1 .. L : ~ under(BottomUp[i])
  <2>1. ShownAt(x, y, lx, ly) = {}
      BY <1>3, <1>5, <1>7
  <2> QED BY <1>7, <2>1 DEF w
<1>8. CASE \E i \in 1 .. L : /\ w = BottomUp[i] /\ under(BottomUp[i])
                             /\ \A j \in i + 1 .. L : ~ under(BottomUp[j])
  <2>1. PICK i \in 1 .. L : /\ w = BottomUp[i] /\ under(BottomUp[i])
                            /\ \A j \in i + 1 .. L : ~ under(BottomUp[j])
      BY <1>8
  <2>2. w \in Windows /\ w # Null /\ w \in opened \ deleted
      BY <1>1, <2>1, NullAssumption
  <2>3. w \in ShownAt(x, y, lx, ly)
      BY <1>3, <1>5, <2>1, <2>2
  <2>4. ASSUME NEW k \in 1 .. L, shows(k) PROVE k = i
    <3>1. under(BottomUp[k]) /\ \A j \in k + 1 .. L : ~ under(BottomUp[j])
        BY <1>3, <2>4
    <3>2. ~(k < i)
        BY <1>1, <2>1, <3>1
    <3>3. ~(i < k)
        BY <1>1, <2>1, <3>1
    <3> QED BY <1>1, <3>2, <3>3
  <2>5. ShownAt(x, y, lx, ly) = {w}
      BY <1>5, <2>1, <2>3, <2>4
  <2>6. OnScreen(w, x, y, lx, ly) /\ Inside(w, x, y, lx, ly)
      BY <1>2, <1>6, <2>1
  <2> QED BY <2>2, <2>5, <2>6 DEF w
<1> QED BY <1>4, <1>7, <1>8

(* What a press does to the window it finds. *)
LEMMA PressDoes ==
    ASSUME ListInv, NEW w \in Windows, w \in opened \ deleted,
           NEW x, NEW y, NEW lx, NEW ly,
           OnScreen(w, x, y, lx, ly), Inside(w, x, y, lx, ly), Press(w, x - lx[w], y - ly[w])
    PROVE  LET part == PartAt(w, Address(x, y), lx[w], ly[w])
           IN  /\ tail' = w
               /\ should_close' = should_close \cup IF part = "close" THEN {w} ELSE {}
               /\ dragging' = dragging \cup IF part = "title" THEN {w} ELSE {}
<1> DEFINE a == x - lx[w]
           b == y - ly[w]
           part == PartAt(w, Address(x, y), lx[w], ly[w])
<1>1. tail' = w
    BY FocusKeeps DEF Press
<1>2. part = IF b >= TitleHeight THEN "text"
             ELSE IF a < Width[w] - TitleHeight THEN "title" ELSE "close"
    BY PartThere
<1>3. a \in 0 .. Width[w] - 1 /\ b \in 0 .. Height[w] - 1
    BY DEF Inside
<1>4. Width[w] \in Nat /\ Height[w] \in Nat /\ TitleHeight \in Nat
    BY Sizes
<1>5. \/ /\ a < Width[w] /\ a >= Width[w] - TitleHeight /\ b < TitleHeight
         /\ should_close' = should_close \cup {w} /\ dragging' = dragging
      \/ /\ ~(a < Width[w] /\ a >= Width[w] - TitleHeight /\ b < TitleHeight)
         /\ should_close' = should_close
         /\ \/ b < TitleHeight /\ dragging' = dragging \cup {w}
            \/ ~(b < TitleHeight) /\ dragging' = dragging
    BY DEF Press, OnCloseButton
<1> HIDE DEF a, b, part
<1>6. CASE b >= TitleHeight
  <2>1. part = "text" /\ should_close' = should_close /\ dragging' = dragging
      BY <1>2, <1>3, <1>4, <1>5, <1>6
  <2> QED BY <1>1, <2>1 DEF part
<1>7. CASE b < TitleHeight /\ a < Width[w] - TitleHeight
  <2>1. part = "title" /\ should_close' = should_close /\ dragging' = dragging \cup {w}
      BY <1>2, <1>3, <1>4, <1>5, <1>7
  <2> QED BY <1>1, <2>1 DEF part
<1>8. CASE b < TitleHeight /\ a >= Width[w] - TitleHeight
  <2>1. part = "close" /\ should_close' = should_close \cup {w} /\ dragging' = dragging
      BY <1>2, <1>3, <1>4, <1>5, <1>8
  <2> QED BY <1>1, <2>1 DEF part
<1> QED BY <1>3, <1>4, <1>6, <1>7, <1>8

LEMMA PressFinds ==
    ASSUME DeskInv, Next, Clicked(TRUE), Plain(mouseX', mouseY', locX', locY')
    PROVE  LET pixel == Address(mouseX', mouseY')
               shown == ShownAt(mouseX', mouseY', locX', locY')
               showing(part) == {v \in shown : PartAt(v, pixel, locX'[v], locY'[v]) = part}
           IN  /\ tail' \in IF shown = {} THEN {tail} ELSE shown
               /\ should_close' = should_close \cup showing("close")
               /\ dragging' = dragging \cup showing("title")
<1> DEFINE e == Head(events)
           x == MovedX(e.move[1], e.move[2])
           y == MovedY(e.move[2])
           lx == FollowedX(x)
           ly == FollowedY(y)
           w == Hit(TopDown, x, y, lx, ly)
           shown == ShownAt(x, y, lx, ly)
           part(v) == PartAt(v, Address(x, y), lx[v], ly[v])
<1>1. ListInv /\ PointerPart /\ DragPart
    BY DEF DeskInv, ListPart
<1>2. ProcessEvent
  <2>1. left_was_down' # left_was_down
      BY DEF Clicked
  <2> QED BY <2>1 DEF Next, LoopStep, Open, Booted, KeysDone, EventsDone, Render, CleanUp, CleanedUp,
                      ServeTerminal, SwitchDisplay, TypeExit, TimerIrq, MouseIrq, pointerVars
<1>3. /\ mouseX' = x /\ mouseY' = y /\ locX' = lx /\ locY' = ly
      /\ e.left = TRUE /\ left_was_down # TRUE /\ events # <<>>
      /\ Button(e.left, x, y, lx, ly)
    BY <1>2 DEF ProcessEvent, Clicked, FollowedX, FollowedY
<1>4. y \in 0 .. MaxY /\ x \in 0 .. ScreenWidth - 1
    BY <1>1, <1>3, EventMoves
<1>5. Plain(x, y, lx, ly)
    BY <1>3
<1> HIDE DEF x, y
<1>6. lx \in [Windows -> 0 .. Modulus - 1] /\ ly \in [Windows -> 0 .. Modulus - 1]
  <2>1. x \in Int /\ y \in Int
      BY <1>4, ScreenAssumption
  <2> QED BY <1>1, <2>1, Followed
<1> HIDE DEF lx, ly
<1>7. ASSUME NEW i \in 1 .. Len(BottomUp)
      PROVE  /\ OnScreen(BottomUp[i], x, y, lx, ly)
             /\ x # lx[BottomUp[i]] + Width[BottomUp[i]]
             /\ y # ly[BottomUp[i]] + Height[BottomUp[i]]
  <2> DEFINE v == BottomUp[i]
  <2>1. v \in Windows /\ v \in ToSet(BottomUp)
      BY <1>1, ChainTypes
  <2> HIDE DEF v
  <2>2. /\ lx[v] + Width[v] \in 0 .. ScreenWidth /\ ly[v] < ScreenHeight
        /\ x # lx[v] + Width[v] /\ y # ly[v] + Height[v]
      BY <1>5, <2>1 DEF Plain
  <2>3. y \in 0 .. ScreenHeight - 1
      BY <1>4, <1>5, ScreenAssumption DEF Plain
  <2> QED BY <1>4, <1>6, <2>1, <2>2, <2>3 DEF OnScreen, v
<1>8. /\ shown = IF w = Null THEN {} ELSE {w}
      /\ w # Null => /\ w \in Windows /\ w \in opened \ deleted
                     /\ OnScreen(w, x, y, lx, ly) /\ Inside(w, x, y, lx, ly)
    BY <1>1, <1>7, ShownIsHit
<1>9. IF w = Null THEN NoPress /\ Unmoved ELSE Press(w, x - lx[w], y - ly[w])
    BY <1>3 DEF Button
<1> SUFFICES /\ tail' \in IF shown = {} THEN {tail} ELSE shown
             /\ should_close' = should_close \cup {v \in shown : part(v) = "close"}
             /\ dragging' = dragging \cup {v \in shown : part(v) = "title"}
    BY <1>3
<1> HIDE DEF w, shown
<1>10. CASE w = Null
  <2>1. shown = {} /\ tail' = tail /\ should_close' = should_close /\ dragging' = dragging
      BY <1>8, <1>9, <1>10 DEF NoPress, Unmoved, listVars
  <2> QED BY <2>1
<1>11. CASE w # Null
  <2>1. shown = {w} /\ w \in Windows /\ w \in opened \ deleted
      BY <1>8, <1>11
  <2>2. Press(w, x - lx[w], y - ly[w])
      BY <1>9, <1>11
  <2>3. /\ tail' = w
        /\ should_close' = should_close \cup IF part(w) = "close" THEN {w} ELSE {}
        /\ dragging' = dragging \cup IF part(w) = "title" THEN {w} ELSE {}
      BY <1>1, <1>8, <1>11, <2>1, <2>2, PressDoes
  <2> HIDE DEF part
  <2> QED BY <2>1, <2>3
<1> QED BY <1>10, <1>11

(* A press does what the picture promises, for any windows and screen: the *)
(* window hit testing finds is the one drawn there last, and the part of   *)
(* it on_mouse_button acts on is the part drawn there, as long as no       *)
(* window crosses the edge of the screen (inject_mouse_button, render,     *)
(* on_mouse_button, focus_window).                                         *)
THEOREM PressShown == Spec => PressActsOnWhatShows
<1>1. DeskInv /\ [Next]_vars =>
        [Clicked(TRUE) /\ Plain(mouseX', mouseY', locX', locY') =>
           LET pixel == Address(mouseX', mouseY')
               shown == {w \in Windows : \E i \in DOMAIN BottomUp :
                            w = BottomUp[i] /\ Shows(BottomUp, i, pixel, locX', locY')}
               showing(part) == {w \in shown : PartAt(w, pixel, locX'[w], locY'[w]) = part}
           IN  /\ tail' \in IF shown = {} THEN {tail} ELSE shown
               /\ should_close' = should_close \cup showing("close")
               /\ dragging' = dragging \cup showing("title")]_vars
    BY PressFinds DEF ShownAt
<1> QED BY Holds, <1>1, PTL DEF Spec, PressActsOnWhatShows
=============================================================================
