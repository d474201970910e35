----------------------------- MODULE VfsProofs ------------------------------
(***************************************************************************)
(* Proofs about Vfs, for all names, any number of nodes and paths of any   *)
(* length: what the commands make keeps names unique and parents leading   *)
(* back, and what is mounted shows; and, as long as only main mounts,      *)
(* paths lead where they say and the nodes are the tree of PathTree.       *)
(***************************************************************************)
EXTENDS Vfs, SequenceTheorems, WellFoundedInduction, TLAPS

-----------------------------------------------------------------------------
(* A set of natural numbers has a least one, and, if it is bounded, a      *)
(* greatest.                                                               *)
LEMMA Least == ASSUME NEW T, T \subseteq Nat, T # {}
               PROVE  \E x \in T : \A y \in T : x <= y
<1> DEFINE R == {p \in Nat \X Nat : p[1] < p[2]}
<1>1. IsWellFoundedOn(R, Nat)
    BY NatLessThanWellFounded DEF OpToRel
<1>2. PICK x \in T : \A y \in T : ~ (<<y, x>> \in R)
  <2> HIDE DEF R
  <2> QED BY <1>1, WFMin
<1>3. \A y \in T : ~ (y < x)
    BY <1>2
<1> QED BY <1>3

LEMMA Greatest == ASSUME NEW n \in Nat, NEW T, T \subseteq 1 .. n, T # {}
                  PROVE  Max(T) \in T /\ \A y \in T : Max(T) >= y
<1> DEFINE gaps == {n - y : y \in T}
<1>1. gaps \subseteq Nat /\ gaps # {}
    OBVIOUS
<1>2. PICK g \in gaps : \A h \in gaps : g <= h
  <2> HIDE DEF gaps
  <2> QED BY <1>1, Least
<1>3. PICK x \in T : g = n - x
    OBVIOUS
<1>4. ASSUME NEW y \in T PROVE x >= y
  <2>1. n - y \in gaps
      OBVIOUS
  <2>2. n - x <= n - y
      BY <1>2, <1>3, <2>1
  <2> QED BY <2>2
<1>5. \E m \in T : \A y \in T : m >= y
    BY <1>4
<1> QED BY <1>5 DEF Max

(* Sequences of known length are functions. *)
LEMMA AsSeq == ASSUME NEW S, NEW n \in Nat, NEW f \in [1 .. n -> S]
               PROVE  f \in Seq(S) /\ Len(f) = n
<1>1. f \in Seq(S)
    BY SeqDef
<1>2. 1 .. Len(f) = 1 .. n /\ Len(f) \in Nat
    BY <1>1, LenProperties
<1> QED BY <1>1, <1>2

LEMMA AsFunction == ASSUME NEW S, NEW f \in Seq(S), NEW n \in Nat, Len(f) = n
                    PROVE  f \in [1 .. n -> S]
BY LenProperties

(* A function from 0 on, each value made of the one before it. *)
Iterated(f, start, step, n) == f[0] = start /\ \A i \in 1 .. n : f[i] = step[i][f[i - 1]]

LEMMA Iterates ==
    ASSUME NEW S, NEW n \in Nat, NEW start \in S, NEW step \in [1 .. n -> [S -> S]]
    PROVE  \E f \in [0 .. n -> S] : Iterated(f, start, step, n)
<1> DEFINE Done(k) == \E f \in [0 .. k -> S] : Iterated(f, start, step, k)
           T == {k \in 0 .. n : ~ Done(k)}
<1>1. Done(0)
  <2> DEFINE f == [i \in 0 .. 0 |-> start]
  <2>1. f \in [0 .. 0 -> S] /\ f[0] = start
      OBVIOUS
  <2> HIDE DEF f
  <2> QED BY <2>1 DEF Iterated
<1>2. ASSUME NEW k \in 1 .. n, Done(k - 1) PROVE Done(k)
  <2>1. PICK before \in [0 .. k - 1 -> S] : Iterated(before, start, step, k - 1)
      BY <1>2
  <2> DEFINE last == step[k][before[k - 1]]
             f == [i \in 0 .. k |-> IF i = k THEN last ELSE before[i]]
  <2>2. last \in S
    <3>1. before[k - 1] \in S
        BY <2>1
    <3> QED BY <3>1
  <2>3. f \in [0 .. k -> S]
    <3> HIDE DEF last
    <3> QED BY <2>1, <2>2
  <2>4. f[k] = last /\ \A i \in 0 .. k - 1 : f[i] = before[i]
      OBVIOUS
  <2> HIDE DEF f
  <2>5. ASSUME NEW i \in 1 .. k PROVE f[i] = step[i][f[i - 1]]
    <3>1. i - 1 \in 0 .. k - 1 /\ (i # k => i \in 1 .. k - 1)
        OBVIOUS
    <3> QED BY <2>1, <2>4, <3>1 DEF Iterated
  <2>6. f[0] = start
      BY <2>1, <2>4 DEF Iterated
  <2> QED BY <2>3, <2>5, <2>6 DEF Iterated
<1> HIDE DEF Done
<1>3. ASSUME NEW k \in T, \A j \in T : k <= j PROVE FALSE
  <2>1. k \in 0 .. n /\ ~ Done(k)
      OBVIOUS
  <2>2. k \in 1 .. n /\ k - 1 \in 0 .. n /\ k - 1 < k
      BY <1>1, <2>1
  <2>3. k - 1 \notin T
    <3> HIDE DEF T
    <3> QED BY <1>3, <2>2
  <2> QED BY <1>2, <2>1, <2>2, <2>3
<1>4. T = {}
  <2>1. T \subseteq Nat
      OBVIOUS
  <2> HIDE DEF T
  <2> QED BY <1>3, <2>1, Least
<1> QED BY <1>4 DEF Done

(* Two that go on alike from the same start are the same. *)
GoAlike(f, g, n) == f[0] = g[0] /\ \A i \in 1 .. n : f[i - 1] = g[i - 1] => f[i] = g[i]

LEMMA IteratesAlike ==
    ASSUME NEW n \in Nat, NEW f, NEW g, GoAlike(f, g, n)
    PROVE  \A i \in 0 .. n : f[i] = g[i]
<1> DEFINE T == {i \in 0 .. n : f[i] # g[i]}
<1>1. ASSUME NEW i \in T, \A j \in T : i <= j PROVE FALSE
  <2>1. i \in 0 .. n /\ f[i] # g[i]
      OBVIOUS
  <2>2. i \in 1 .. n /\ i - 1 \in 0 .. n /\ i - 1 < i
      BY <2>1 DEF GoAlike
  <2>3. i - 1 \notin T
    <3> HIDE DEF T
    <3> QED BY <1>1, <2>2
  <2> QED BY <2>1, <2>2, <2>3 DEF GoAlike
<1>2. T = {}
  <2>1. T \subseteq Nat
      OBVIOUS
  <2> HIDE DEF T
  <2> QED BY <1>1, <2>1, Least
<1> QED BY <1>2

-----------------------------------------------------------------------------
(* Paths and what is cut from them. *)

Tokens == Names \cup {Slash, ".", ".."}

LEMMA PathsTyped == ASSUME NEW path \in Paths
                    PROVE  path \in Seq(Tokens) /\ Len(path) \in Nat \ {0}
<1>1. PICK n \in 1 .. MaxTokens : path \in [1 .. n -> Tokens]
    BY DEF Paths, Tokens
<1>2. n \in Nat
    OBVIOUS
<1>3. path \in Seq(Tokens)
    BY <1>1, <1>2, SeqDef
<1>4. 1 .. Len(path) = 1 .. n /\ Len(path) \in Nat
    BY <1>1, <1>3, LenProperties
<1> QED BY <1>3, <1>4

LEMMA Skips == ASSUME NEW path \in Seq(Tokens), NEW p \in 1 .. Len(path) + 1
               PROVE  /\ SkipSlashes(path, p) \in p .. Len(path) + 1
                      /\ SkipSlashes(path, p) <= Len(path) => path[SkipSlashes(path, p)] # Slash
                      /\ \A r \in p .. SkipSlashes(path, p) - 1 : path[r] = Slash
<1> DEFINE T == {q \in p .. Len(path) + 1 : q > Len(path) \/ path[q] # Slash}
           least == SkipSlashes(path, p)
<1>1. Len(path) \in Nat
    BY LenProperties
<1>2. T \subseteq Nat /\ Len(path) + 1 \in T
    BY <1>1
<1>3. \E q \in T : \A r \in T : q <= r
  <2> HIDE DEF T
  <2> QED BY <1>2, Least
<1>4. Min(T) \in T /\ \A r \in T : Min(T) <= r
  <2> HIDE DEF T
  <2> QED BY <1>3 DEF Min
<1>5. least \in T /\ \A r \in T : least <= r
    BY <1>4 DEF SkipSlashes
<1> HIDE DEF least
<1>6. least \in p .. Len(path) + 1 /\ (least > Len(path) \/ path[least] # Slash)
    BY <1>5
<1>7. ASSUME NEW r \in p .. least - 1 PROVE path[r] = Slash
  <2>1. r \in p .. Len(path) + 1 /\ r < least
      BY <1>1, <1>6
  <2>2. r \notin T
    <3> HIDE DEF T
    <3> QED BY <1>1, <1>5, <1>6, <2>1
  <2> QED BY <2>1, <2>2
<1> QED BY <1>1, <1>6, <1>7 DEF least

(* The loop that cuts a path ends, whatever the path. *)
CutFrom(path, from) ==
    \A p \in DOMAIN from : from[p] = IF p > Len(path) \/ path[p] = Slash THEN <<>>
                                     ELSE <<path[p]>> \o from[SkipSlashes(path, p + 1)]

LEMMA Cuts == ASSUME NEW path \in Seq(Tokens)
              PROVE  \A k \in 1 .. Len(path) + 1 :
                        \E from \in [k .. Len(path) + 1 -> Seq(Tokens)] : CutFrom(path, from)
<1> DEFINE L == Len(path)
           Done(k) == \E from \in [k .. L + 1 -> Seq(Tokens)] : CutFrom(path, from)
           T == {n \in 0 .. L : ~ Done(L + 1 - n)}
<1>1. L \in Nat /\ path \in [1 .. L -> Tokens]
    BY LenProperties
<1>2. Done(L + 1)
  <2> DEFINE from == [p \in {L + 1} |-> <<>>]
  <2>1. from \in [L + 1 .. L + 1 -> Seq(Tokens)]
    <3>1. L + 1 .. L + 1 = {L + 1} /\ <<>> \in Seq(Tokens)
        BY <1>1, EmptySeq
    <3> QED BY <3>1
  <2>2. CutFrom(path, from)
      BY <1>1 DEF CutFrom
  <2> QED BY <2>1, <2>2
<1>3. ASSUME NEW k \in 1 .. L, Done(k + 1) PROVE Done(k)
  <2>1. PICK rest \in [k + 1 .. L + 1 -> Seq(Tokens)] : CutFrom(path, rest)
      BY <1>3
  <2>2. k + 1 \in 1 .. L + 1 /\ path[k] \in Tokens
      BY <1>1
  <2>3. SkipSlashes(path, k + 1) \in k + 1 .. L + 1
      BY <2>2, Skips
  <2> DEFINE first == IF path[k] = Slash THEN <<>> ELSE <<path[k]>> \o rest[SkipSlashes(path, k + 1)]
             from == [p \in k .. L + 1 |-> IF p = k THEN first ELSE rest[p]]
  <2>4. first \in Seq(Tokens)
    <3>1. <<path[k]>> \in Seq(Tokens) /\ <<>> \in Seq(Tokens)
        BY <2>2
    <3>2. rest[SkipSlashes(path, k + 1)] \in Seq(Tokens)
        BY <2>1, <2>3
    <3> QED BY <3>1, <3>2, ConcatProperties
  <2>5. from \in [k .. L + 1 -> Seq(Tokens)]
      BY <1>1, <2>4
  <2>6. CutFrom(path, from)
    <3> SUFFICES ASSUME NEW p \in k .. L + 1
                 PROVE  from[p] = IF p > L \/ path[p] = Slash THEN <<>>
                                  ELSE <<path[p]>> \o from[SkipSlashes(path, p + 1)]
        BY DEF CutFrom
    <3>1. CASE p = k
      <4>1. SkipSlashes(path, p + 1) \in k .. L + 1 /\ SkipSlashes(path, p + 1) # k
          BY <1>1, <2>3, <3>1
      <4>2. from[SkipSlashes(path, p + 1)] = rest[SkipSlashes(path, p + 1)]
          BY <4>1
      <4>3. from[p] = first /\ p <= L
          BY <1>1, <3>1
      <4> HIDE DEF from
      <4> QED BY <1>1, <3>1, <4>2, <4>3
    <3>2. CASE p # k
      <4>1. p \in k + 1 .. L + 1 /\ from[p] = rest[p]
          BY <1>1, <3>2
      <4>2. rest[p] = IF p > L \/ path[p] = Slash THEN <<>>
                      ELSE <<path[p]>> \o rest[SkipSlashes(path, p + 1)]
          BY <2>1, <4>1 DEF CutFrom
      <4>3. CASE p > L
          BY <4>1, <4>2, <4>3
      <4>4. CASE p <= L
        <5>1. p + 1 \in 1 .. L + 1
            BY <1>1, <4>1, <4>4
        <5>2. SkipSlashes(path, p + 1) \in p + 1 .. L + 1
            BY <5>1, Skips
        <5>3. SkipSlashes(path, p + 1) \in k .. L + 1 /\ SkipSlashes(path, p + 1) # k
            BY <1>1, <4>1, <5>2
        <5>4. from[SkipSlashes(path, p + 1)] = rest[SkipSlashes(path, p + 1)]
            BY <5>3
        <5> QED BY <4>1, <4>2, <5>4
      <4> QED BY <1>1, <4>1, <4>3, <4>4
    <3> QED BY <3>1, <3>2
  <2> QED BY <2>5, <2>6
<1> HIDE DEF L, Done
<1>4. T = {}
  <2> SUFFICES ASSUME T # {} PROVE FALSE
      OBVIOUS
  <2>1. T \subseteq Nat
      BY <1>1
  <2>2. PICK n \in T : \A m \in T : n <= m
    <3> HIDE DEF T
    <3> QED BY <2>1, Least
  <2>3. n \in 0 .. L /\ ~ Done(L + 1 - n)
      OBVIOUS
  <2>4. n # 0
      BY <1>1, <1>2, <2>3
  <2>5. n - 1 \in 0 .. L /\ n - 1 \notin T
    <3>1. n \in Nat /\ n - 1 \in 0 .. L /\ n - 1 \in Nat /\ n - 1 < n
        BY <1>1, <2>3, <2>4
    <3> HIDE DEF T
    <3> QED BY <2>1, <2>2, <3>1
  <2>6. Done(L + 1 - (n - 1))
      BY <2>5
  <2>7. n \in Nat /\ L + 1 - n \in 1 .. L /\ L + 1 - (n - 1) = (L + 1 - n) + 1
      BY <1>1, <2>3, <2>4
  <2> QED BY <1>3, <2>3, <2>6, <2>7
<1>5. ASSUME NEW k \in 1 .. L + 1 PROVE Done(k)
  <2>1. L + 1 - k \in 0 .. L /\ L + 1 - (L + 1 - k) = k
      BY <1>1
  <2> QED BY <1>4, <2>1
<1> QED BY <1>5 DEF L, Done

LEMMA CutTyped ==
    ASSUME NEW path \in Seq(Tokens), NEW from, DOMAIN from = 1 .. Len(path) + 1, CutFrom(path, from)
    PROVE  \A p \in 1 .. Len(path) + 1 : from[p] \in Seq(Tokens)
<1> DEFINE L == Len(path)
           T == {n \in 0 .. L : from[L + 1 - n] \notin Seq(Tokens)}
<1>1. L \in Nat /\ path \in [1 .. L -> Tokens]
    BY LenProperties
<1>2. ASSUME NEW n \in T, \A m \in T : n <= m PROVE FALSE
  <2> DEFINE p == L + 1 - n
             q == SkipSlashes(path, p + 1)
  <2>1. /\ n \in 0 .. L /\ p \in 1 .. L + 1 /\ from[p] \notin Seq(Tokens)
        /\ (p <= L => path[p] \in Tokens)
      BY <1>1
  <2>2. from[p] = IF p > L \/ path[p] = Slash THEN <<>> ELSE <<path[p]>> \o from[q]
      BY <2>1 DEF CutFrom
  <2>3. <<>> \in Seq(Tokens)
      BY EmptySeq
  <2>4. p \in 1 .. L /\ path[p] \in Tokens /\ from[p] = <<path[p]>> \o from[q]
    <3> HIDE DEF p, q
    <3> QED BY <1>1, <2>1, <2>2, <2>3
  <2>5. q \in p + 1 .. L + 1
    <3>1. p + 1 \in 1 .. L + 1
        BY <1>1, <2>4
    <3> HIDE DEF p
    <3> QED BY <3>1, Skips
  <2>6. L + 1 - q \in 0 .. L /\ L + 1 - q < n /\ L + 1 - (L + 1 - q) = q
    <3> HIDE DEF q
    <3> QED BY <1>1, <2>1, <2>5
  <2>7. L + 1 - q \notin T
    <3> HIDE DEF p, q, T
    <3> QED BY <1>1, <1>2, <2>1, <2>6
  <2>8. from[q] \in Seq(Tokens)
    <3> HIDE DEF q
    <3> QED BY <2>6, <2>7
  <2> HIDE DEF p, q
  <2>9. <<path[p]>> \in Seq(Tokens)
      BY <2>4
  <2> QED BY <2>1, <2>4, <2>8, <2>9, ConcatProperties
<1>3. T = {}
  <2>1. T \subseteq Nat
      BY <1>1
  <2> HIDE DEF T
  <2> QED BY <1>2, <2>1, Least
<1>4. ASSUME NEW p \in 1 .. L + 1 PROVE from[p] \in Seq(Tokens)
  <2>1. L + 1 - p \in 0 .. L /\ L + 1 - (L + 1 - p) = p
      BY <1>1
  <2> HIDE DEF L
  <2> QED BY <1>3, <2>1
<1> QED BY <1>4

(* What the loop cuts from a path. *)
LEMMA SegmentsCut ==
    ASSUME NEW path \in Seq(Tokens)
    PROVE  \E from : /\ DOMAIN from = 1 .. Len(path) + 1
                     /\ CutFrom(path, from)
                     /\ Segments(path) = from[IF Absolute(path) THEN SkipSlashes(path, 1) ELSE 1]
<1> DEFINE L == Len(path)
           Body(from) == [p \in 1 .. L + 1 |-> IF p > L \/ path[p] = Slash THEN <<>>
                                               ELSE <<path[p]>> \o from[SkipSlashes(path, p + 1)]]
           cut == CHOOSE from : from = Body(from)
<1>1. PICK from \in [1 .. L + 1 -> Seq(Tokens)] : CutFrom(path, from)
  <2>1. 1 \in 1 .. L + 1
      BY LenProperties
  <2> QED BY <2>1, Cuts
<1>2. from = Body(from)
    BY <1>1 DEF CutFrom
<1>3. cut = Body(cut)
  <2> HIDE DEF Body
  <2> QED BY <1>2
<1>4. Segments(path) = cut[IF Absolute(path) THEN SkipSlashes(path, 1) ELSE 1]
    BY DEF Segments
<1> HIDE DEF cut
<1>5. DOMAIN cut = 1 .. Len(path) + 1
    BY <1>3
<1>6. CutFrom(path, cut)
  <2>1. \A p \in 1 .. L + 1 : cut[p] = Body(cut)[p]
      BY <1>3
  <2> QED BY <1>5, <2>1 DEF CutFrom
<1> QED BY <1>4, <1>5, <1>6

LEMMA SegmentsTyped == ASSUME NEW path \in Seq(Tokens) PROVE Segments(path) \in Seq(Tokens)
<1> DEFINE start == IF Absolute(path) THEN SkipSlashes(path, 1) ELSE 1
<1>1. PICK from : DOMAIN from = 1 .. Len(path) + 1 /\ CutFrom(path, from) /\ Segments(path) = from[start]
    BY SegmentsCut
<1>2. start \in 1 .. Len(path) + 1
  <2>1. 1 \in 1 .. Len(path) + 1 /\ Len(path) \in Nat
      BY LenProperties
  <2> QED BY <2>1, Skips
<1> HIDE DEF start
<1> QED BY <1>1, <1>2, CutTyped

LEMMA SplitTyped == ASSUME NEW split \in Splits
                    PROVE  split.dir.segs \in Seq(Tokens) /\ split.base \in Names \cup OddNames
<1>1. PICK path \in Paths : split = Split(path)
    BY DEF Splits
<1>2. /\ split.dir.segs = Segments(Dirname(path))
      /\ split.base = Basename(path)
    BY <1>1 DEF Split, Way
<1>3. path \in Seq(Tokens) /\ Len(path) \in Nat \ {0}
    BY PathsTyped
<1> DEFINE L == Len(path)
<1>4. Slashes(path) = {k \in 1 .. L : path[k] = Slash}
    BY <1>3, LenProperties DEF Slashes
<1>5. /\ LastSlash(path) \in 0 .. L
      /\ path[L] = Slash => LastSlash(path) = L
  <2>1. CASE Slashes(path) = {}
      BY <1>3, <1>4, <2>1 DEF LastSlash
  <2>2. CASE Slashes(path) # {}
    <3> DEFINE S == Slashes(path)
    <3>1. S \subseteq 1 .. L /\ (path[L] = Slash => L \in S)
        BY <1>3, <1>4
    <3>2. Max(S) \in S /\ \A k \in S : Max(S) >= k
        BY <1>3, <2>2, <3>1, Greatest
    <3>3. LastSlash(path) = Max(S)
        BY <2>2 DEF LastSlash
    <3> HIDE DEF S
    <3>4. Max(S) \in 1 .. L
        BY <3>1, <3>2
    <3>5. path[L] = Slash => Max(S) >= L
        BY <3>1, <3>2
    <3> QED BY <1>3, <3>3, <3>4, <3>5
  <2> QED BY <2>1, <2>2
<1>6. Dirname(path) \in Seq(Tokens)
  <2>1. <<".">> \in Seq(Tokens) /\ <<Slash>> \in Seq(Tokens)
      BY DEF Tokens
  <2>2. CASE LastSlash(path) \in {0, 1}
      BY <2>1, <2>2 DEF Dirname
  <2>3. CASE LastSlash(path) \notin {0, 1}
    <3>1. \A k \in 1 .. LastSlash(path) - 1 : path[k] \in Tokens
        BY <1>3, <1>5, LenProperties
    <3>2. SubSeq(path, 1, LastSlash(path) - 1) \in Seq(Tokens)
        BY <1>5, <3>1, SubSeqProperties
    <3>3. Dirname(path) = SubSeq(path, 1, LastSlash(path) - 1)
        BY <1>5, <2>3 DEF Dirname
    <3> QED BY <3>2, <3>3
  <2> QED BY <2>2, <2>3
<1>7. Basename(path) \in Names \cup OddNames
  <2>1. CASE LastSlash(path) = L
      BY <2>1 DEF Basename, OddNames
  <2>2. CASE LastSlash(path) # L
    <3>1. Basename(path) = path[L] /\ path[L] # Slash
        BY <1>5, <2>2 DEF Basename, Last
    <3>2. path[L] \in Tokens
        BY <1>3, LenProperties
    <3> QED BY <3>1, <3>2 DEF Tokens, OddNames
  <2> QED BY <2>1, <2>2
<1> QED BY <1>2, <1>6, <1>7, SegmentsTyped

-----------------------------------------------------------------------------
(* The turns of path resolution. *)

WaysThere == [absolute : BOOLEAN, segs : Seq(Tokens)]

(* Flags other than a mount point's go with no target. *)
MountsFlagged == \A node \in Made : flags[node] # "MOUNTPOINT" => mount_target[node] = Null

IInv == TypeOK /\ MountsFlagged /\ UniqueNames /\ ListedOnce /\ ParentLeadsBack

Places == Made \cup {Null}

LEMMA MadeNodes == ASSUME TypeOK
                   PROVE  /\ made \in Nat \ {0} /\ made <= MaxNodes /\ Null \notin Made
                          /\ cwd \in Made
                          /\ \A node \in Made : /\ parent[node] \in Places
                                                /\ mount_target[node] \in Places
                                                /\ children[node] \in Seq(Made)
<1>1. made \in 1 .. MaxNodes /\ MaxNodes \in Nat /\ Null \notin 1 .. MaxNodes
    BY NodesAssumption DEF TypeOK, Nodes
<1>2. Null \notin Made
    BY <1>1 DEF Made
<1> QED BY <1>1, <1>2 DEF TypeOK, Places

(* The first entry of that name, if there is one. *)
LEMMA Looked ==
    ASSUME TypeOK, NEW dir \in Made, NEW seg
    PROVE  \/ /\ lookup(dir, seg) = Null
              /\ \A i \in 1 .. Len(children[dir]) : name[children[dir][i]] # seg
           \/ /\ lookup(dir, seg) \in Made
              /\ lookup(dir, seg) \in ToSet(children[dir])
              /\ name[lookup(dir, seg)] = seg
<1> DEFINE kids == children[dir]
           found == {i \in DOMAIN kids : name[kids[i]] = seg}
           first == CHOOSE i \in found : \A j \in found : i <= j
<1>1. kids \in Seq(Made) /\ Len(kids) \in Nat /\ DOMAIN kids = 1 .. Len(kids)
    BY MadeNodes, LenProperties
<1>2. lookup(dir, seg) = IF found = {} THEN Null ELSE kids[first]
    BY DEF lookup
<1>3. CASE found = {}
    BY <1>1, <1>2, <1>3
<1>4. CASE found # {}
  <2>1. found \subseteq Nat
      BY <1>1
  <2>2. first \in found
    <3> HIDE DEF found
    <3>1. \E i \in found : \A j \in found : i <= j
        BY <1>4, <2>1, Least
    <3> QED BY <3>1
  <2>3. kids[first] \in Made /\ kids[first] \in ToSet(kids) /\ name[kids[first]] = seg
    <3> HIDE DEF first, kids
    <3> QED BY <1>1, <2>2, ElementOfSeq DEF ToSet
  <2> QED BY <1>2, <1>4, <2>3
<1> QED BY <1>3, <1>4

LEMMA FollowTyped == ASSUME TypeOK, NEW node \in Places, NEW seg
                     PROVE  Follow(node, seg) \in Places
<1>1. CASE ~ IsDirectory(node)
    BY <1>1 DEF Follow
<1>2. CASE IsDirectory(node)
  <2>1. node \in Made
      BY <1>2 DEF IsDirectory, Places
  <2>2. Above(node) \in Places
      BY <2>1, MadeNodes DEF Above, Places
  <2>3. ThroughMount(lookup(node, seg)) \in Places
      BY <2>1, Looked, MadeNodes DEF ThroughMount, Places
  <2> QED BY <1>2, <2>1, <2>2, <2>3 DEF Follow
<1> QED BY <1>1, <1>2

(* The turns go on from one another, as far as the way goes, on nodes. *)
GoOn(node, start, segs, n) ==
    /\ node[0] = start
    /\ \A i \in 1 .. n : node[i] = Follow(node[i - 1], segs[i])

LEMMA GoOnTyped ==
    ASSUME TypeOK, NEW n \in Nat, NEW start \in Places, NEW segs, NEW node, GoOn(node, start, segs, n)
    PROVE  \A i \in 0 .. n : node[i] \in Places
<1> DEFINE T == {i \in 0 .. n : node[i] \notin Places}
<1>1. ASSUME NEW i \in T, \A j \in T : i <= j PROVE FALSE
  <2>1. i \in 0 .. n /\ node[i] \notin Places
      OBVIOUS
  <2>2. i # 0
      BY <2>1 DEF GoOn
  <2>3. i \in 1 .. n /\ i - 1 \in 0 .. n /\ i - 1 < i
      BY <2>1, <2>2
  <2>4. i - 1 \notin T
    <3> HIDE DEF T
    <3> QED BY <1>1, <2>3
  <2>5. node[i - 1] \in Places
      BY <2>3, <2>4
  <2>6. node[i] = Follow(node[i - 1], segs[i])
      BY <2>3 DEF GoOn
  <2> QED BY <2>1, <2>5, <2>6, FollowTyped
<1>2. T = {}
  <2>1. T \subseteq Nat
      OBVIOUS
  <2> HIDE DEF T
  <2> QED BY <1>1, <2>1, Least
<1> QED BY <1>2

LEMMA GoesOn ==
    ASSUME TypeOK, NEW n \in Nat, NEW start \in Places, NEW segs
    PROVE  \E node \in [0 .. n -> Places] : GoOn(node, start, segs, n)
<1> DEFINE turn == [i \in 1 .. n |-> [node \in Places |-> Follow(node, segs[i])]]
<1>1. turn \in [1 .. n -> [Places -> Places]]
    BY FollowTyped
<1>2. \A i \in 1 .. n : \A node \in Places : turn[i][node] = Follow(node, segs[i])
    OBVIOUS
<1> HIDE DEF turn
<1>3. PICK node \in [0 .. n -> Places] : Iterated(node, start, turn, n)
    BY <1>1, Iterates
<1>4. \A i \in 1 .. n : node[i - 1] \in Places
    OBVIOUS
<1> QED BY <1>2, <1>3, <1>4 DEF Iterated, GoOn

(* So does the function that resolution is, for every way. *)
StartOf(way) == IF way.absolute THEN fs_root ELSE cwd

TurnsGoOn ==
    \A way \in WaysThere :
        /\ GoOn(Turns(way), StartOf(way), way.segs, Len(way.segs))
        /\ \A i \in 0 .. Len(way.segs) : Turns(way)[i] \in Places

LEMMA TurnsThere == TypeOK => TurnsGoOn
<1> SUFFICES ASSUME TypeOK, NEW way \in WaysThere
             PROVE  /\ GoOn(Turns(way), StartOf(way), way.segs, Len(way.segs))
                    /\ \A i \in 0 .. Len(way.segs) : Turns(way)[i] \in Places
    BY DEF TurnsGoOn
<1> DEFINE n == Len(way.segs)
           start == StartOf(way)
           Body(f) == [i \in 0 .. n |-> IF i = 0 THEN start ELSE Follow(f[i - 1], way.segs[i])]
           turns == CHOOSE f : f = Body(f)
<1>1. n \in Nat
    BY LenProperties DEF WaysThere
<1>2. start \in Places
    BY MadeNodes DEF StartOf, fs_root, Places, Made
<1>3. Turns(way) = turns
    BY DEF Turns, StartOf
<1> HIDE DEF start
<1>4. PICK f \in [0 .. n -> Places] : GoOn(f, start, way.segs, n)
    BY <1>1, <1>2, GoesOn
<1>5. f = Body(f)
  <2>1. DOMAIN f = 0 .. n
      OBVIOUS
  <2>2. ASSUME NEW i \in 0 .. n
        PROVE  f[i] = IF i = 0 THEN start ELSE Follow(f[i - 1], way.segs[i])
    <3>1. i # 0 => i \in 1 .. n
        BY <1>1
    <3> QED BY <1>4, <3>1 DEF GoOn
  <2> QED BY <2>1, <2>2
<1>6. turns = Body(turns)
  <2> HIDE DEF Body
  <2> QED BY <1>5
<1> HIDE DEF turns
<1>7. GoOn(turns, start, way.segs, n)
  <2>1. \A i \in 0 .. n : turns[i] = Body(turns)[i]
      BY <1>6
  <2>2. \A i \in 0 .. n : turns[i] = IF i = 0 THEN start ELSE Follow(turns[i - 1], way.segs[i])
      BY <2>1
  <2>3. 0 \in 0 .. n /\ \A i \in 1 .. n : i \in 0 .. n /\ i # 0
      BY <1>1
  <2> QED BY <2>2, <2>3 DEF GoOn
<1> HIDE DEF Body
<1>8. \A i \in 0 .. n : turns[i] \in Places
    BY <1>1, <1>2, <1>7, GoOnTyped
<1> QED BY <1>3, <1>7, <1>8 DEF start

LEMMA TurnsThereAfter == TypeOK' => TurnsGoOn'
BY TurnsThere, PTL

LEMMA WaysTyped == ASSUME NEW way \in Ways PROVE way \in WaysThere
<1>1. PICK path \in Paths : way = Way(path)
    BY DEF Ways
<1>2. Segments(path) \in Seq(Tokens)
    BY PathsTyped, SegmentsTyped
<1> QED BY <1>1, <1>2 DEF Way, Absolute, WaysThere

LEMMA Resolved == ASSUME TypeOK, NEW way \in WaysThere
                  PROVE  vfs_resolve_path(way) \in Places
<1>1. Len(way.segs) \in 0 .. Len(way.segs)
    BY LenProperties DEF WaysThere
<1> QED BY <1>1, TurnsThere DEF TurnsGoOn, vfs_resolve_path

(* The directory of a split is that of a way. *)
LEMMA SplitDir == ASSUME NEW split \in Splits
                  PROVE  split.dir \in WaysThere /\ split.base \in Names \cup OddNames
<1>1. PICK path \in Paths : split = Split(path)
    BY DEF Splits
<1>2. split.dir = Way(Dirname(path))
    BY <1>1 DEF Split
<1>3. split.dir.segs \in Seq(Tokens) /\ split.base \in Names \cup OddNames
    BY SplitTyped
<1> QED BY <1>2, <1>3 DEF Way, Absolute, WaysThere

-----------------------------------------------------------------------------
(* The commands. *)

Kinds == {"FILE", "DIRECTORY", "MOUNTPOINT"}
NodeNames == Names \cup OddNames \cup {"/", "second"}

(* The tree once a node was added to a directory. *)
LEMMA Added ==
    ASSUME TypeOK, NEW dir \in Made, NEW kind \in Kinds, NEW new_name \in NodeNames,
           AddChild(dir, kind, new_name)
    PROVE  /\ made' = made + 1 /\ Made' = Made \cup {made + 1} /\ made + 1 \notin Made
           /\ flags' \in [Made' -> Kinds]
           /\ name' \in [Made' -> NodeNames]
           /\ parent' \in [Made' -> Made' \cup {Null}]
           /\ mount_target' \in [Made' -> Made' \cup {Null}]
           /\ children' \in [Made' -> Seq(Made')]
           /\ \A node \in Made : /\ flags'[node] = flags[node]
                                 /\ name'[node] = name[node]
                                 /\ parent'[node] = parent[node]
                                 /\ mount_target'[node] = mount_target[node]
                                 /\ node # dir => children'[node] = children[node]
           /\ flags'[made + 1] = kind
           /\ name'[made + 1] = new_name
           /\ parent'[made + 1] = dir
           /\ mount_target'[made + 1] = Null
           /\ children'[made + 1] = <<>>
           /\ children'[dir] = Append(children[dir], made + 1)
<1> DEFINE n == made
           new == made + 1
<1>1. n \in Nat \ {0} /\ Made = 1 .. n
    BY MadeNodes DEF Made
<1>2. /\ made' = new /\ Made' = 1 .. n + 1
      /\ Made' = Made \cup {new} /\ new \notin Made /\ new \in Made'
  <2>1. made' = new
      BY DEF AddChild
  <2>2. Made' = 1 .. n + 1
      BY <2>1 DEF Made
  <2> HIDE DEF n
  <2>3. 1 .. n + 1 = (1 .. n) \cup {n + 1} /\ n + 1 \notin 1 .. n
      BY <1>1
  <2> QED BY <1>1, <2>1, <2>2, <2>3 DEF n
<1>3. /\ flags \in [1 .. n -> Kinds]
      /\ name \in [1 .. n -> NodeNames]
      /\ parent \in [1 .. n -> Made' \cup {Null}]
      /\ mount_target \in [1 .. n -> Made' \cup {Null}]
      /\ children \in [1 .. n -> Seq(Made)]
    BY <1>1, <1>2 DEF TypeOK, Kinds, NodeNames
<1> DEFINE kids == [children EXCEPT ![dir] = Append(@, new)]
<1>4. /\ flags' = Append(flags, kind) /\ name' = Append(name, new_name)
      /\ parent' = Append(parent, dir) /\ mount_target' = Append(mount_target, Null)
      /\ children' = Append(kids, <<>>)
    BY DEF AddChild
<1>5. kids \in [1 .. n -> Seq(Made')]
  <2>1. \A node \in 1 .. n : children[node] \in Seq(Made')
      BY <1>2, <1>3, SeqMonotonic
  <2>2. Append(children[dir], new) \in Seq(Made')
      BY <1>1, <1>2, <2>1, AppendProperties
  <2> QED BY <1>3, <2>1, <2>2
<1>6. /\ kids[dir] = Append(children[dir], new)
      /\ \A node \in 1 .. n : node # dir => kids[node] = children[node]
    BY <1>1, <1>3
<1> HIDE DEF n, new, kids
<1>7. flags' \in [1 .. n + 1 -> Kinds] /\ flags'[n + 1] = kind
     /\ \A node \in 1 .. n : flags'[node] = flags[node]
  <2>1. flags \in Seq(Kinds) /\ Len(flags) = n /\ kind \in Kinds
      BY <1>1, <1>3, AsSeq
  <2>2. Append(flags, kind) \in Seq(Kinds) /\ Len(Append(flags, kind)) = n + 1
        /\ Append(flags, kind)[n + 1] = kind
        /\ \A node \in 1 .. n : Append(flags, kind)[node] = flags[node]
      BY <2>1, AppendProperties
  <2>3. n + 1 \in Nat
      BY <1>1
  <2> QED BY <1>4, <2>2, <2>3, AsFunction
<1>8. name' \in [1 .. n + 1 -> NodeNames] /\ name'[n + 1] = new_name
     /\ \A node \in 1 .. n : name'[node] = name[node]
  <2>1. name \in Seq(NodeNames) /\ Len(name) = n /\ new_name \in NodeNames
      BY <1>1, <1>3, AsSeq
  <2>2. Append(name, new_name) \in Seq(NodeNames) /\ Len(Append(name, new_name)) = n + 1
        /\ Append(name, new_name)[n + 1] = new_name
        /\ \A node \in 1 .. n : Append(name, new_name)[node] = name[node]
      BY <2>1, AppendProperties
  <2>3. n + 1 \in Nat
      BY <1>1
  <2> QED BY <1>4, <2>2, <2>3, AsFunction
<1> DEFINE S == Made' \cup {Null}
<1>12. parent \in [1 .. n -> S] /\ mount_target \in [1 .. n -> S] /\ dir \in S /\ Null \in S
    BY <1>2, <1>3
<1> HIDE DEF S
<1>9. parent' \in [1 .. n + 1 -> S] /\ parent'[n + 1] = dir
     /\ \A node \in 1 .. n : parent'[node] = parent[node]
  <2>1. parent \in Seq(S) /\ Len(parent) = n /\ dir \in S
      BY <1>1, <1>12, AsSeq
  <2>2. Append(parent, dir) \in Seq(S) /\ Len(Append(parent, dir)) = n + 1
        /\ Append(parent, dir)[n + 1] = dir
        /\ \A node \in 1 .. n : Append(parent, dir)[node] = parent[node]
      BY <2>1, AppendProperties
  <2>3. n + 1 \in Nat
      BY <1>1
  <2> QED BY <1>4, <2>2, <2>3, AsFunction
<1>10. mount_target' \in [1 .. n + 1 -> S] /\ mount_target'[n + 1] = Null
      /\ \A node \in 1 .. n : mount_target'[node] = mount_target[node]
  <2>1. mount_target \in Seq(S) /\ Len(mount_target) = n /\ Null \in S
      BY <1>1, <1>12, AsSeq
  <2>2. Append(mount_target, Null) \in Seq(S) /\ Len(Append(mount_target, Null)) = n + 1
        /\ Append(mount_target, Null)[n + 1] = Null
        /\ \A node \in 1 .. n : Append(mount_target, Null)[node] = mount_target[node]
      BY <2>1, AppendProperties
  <2>3. n + 1 \in Nat
      BY <1>1
  <2> QED BY <1>4, <2>2, <2>3, AsFunction
<1> DEFINE Q == Seq(Made')
           none == <<>>
<1>13. kids \in [1 .. n -> Q] /\ none \in Q /\ children' = Append(kids, none)
    BY <1>4, <1>5, EmptySeq
<1> HIDE DEF Q, none
<1>11. children' \in [1 .. n + 1 -> Q] /\ children'[n + 1] = none
      /\ \A node \in 1 .. n : children'[node] = kids[node]
  <2>1. kids \in Seq(Q) /\ Len(kids) = n /\ none \in Q
      BY <1>1, <1>13, AsSeq
  <2>2. Append(kids, none) \in Seq(Q) /\ Len(Append(kids, none)) = n + 1
        /\ Append(kids, none)[n + 1] = none
        /\ \A node \in 1 .. n : Append(kids, none)[node] = kids[node]
      BY <2>1, AppendProperties
  <2>3. n + 1 \in Nat
      BY <1>1
  <2> QED BY <1>13, <2>2, <2>3, AsFunction
<1> QED BY <1>1, <1>2, <1>6, <1>7, <1>8, <1>9, <1>10, <1>11 DEF n, new, S, Q, none

(* What a directory lists. *)
LEMMA Lists == ASSUME NEW S, NEW kids \in Seq(S)
               PROVE  /\ ToSet(kids) = {kids[i] : i \in 1 .. Len(kids)}
                      /\ ToSet(kids) \subseteq S
                      /\ DOMAIN kids = 1 .. Len(kids) /\ Len(kids) \in Nat
                      /\ IsInjective(kids) <=> \A i, j \in 1 .. Len(kids) : kids[i] = kids[j] => i = j
BY LenProperties DEF ToSet, IsInjective

LEMMA ListsMore == ASSUME NEW S, NEW kids \in Seq(S), NEW node \in S
                   PROVE  /\ Append(kids, node) \in Seq(S)
                          /\ Len(Append(kids, node)) = Len(kids) + 1
                          /\ ToSet(Append(kids, node)) = ToSet(kids) \cup {node}
                          /\ \A i \in 1 .. Len(kids) : Append(kids, node)[i] = kids[i]
                          /\ Append(kids, node)[Len(kids) + 1] = node
<1>1. /\ Append(kids, node) \in Seq(S)
      /\ Len(Append(kids, node)) = Len(kids) + 1
      /\ \A i \in 1 .. Len(kids) : Append(kids, node)[i] = kids[i]
      /\ Append(kids, node)[Len(kids) + 1] = node
    BY AppendProperties
<1>2. Len(kids) \in Nat
    BY LenProperties
<1>3. /\ ToSet(Append(kids, node)) = {Append(kids, node)[i] : i \in 1 .. Len(kids) + 1}
      /\ ToSet(kids) = {kids[i] : i \in 1 .. Len(kids)}
    BY <1>1, Lists
<1>4. ToSet(Append(kids, node)) = ToSet(kids) \cup {node}
    BY <1>1, <1>2, <1>3
<1> QED BY <1>1, <1>4

LEMMA AddKeeps ==
    ASSUME IInv, NEW dir \in Made, flags[dir] = "DIRECTORY",
           NEW kind \in {"FILE", "DIRECTORY"}, NEW new_name \in Names \cup OddNames,
           made < MaxNodes, ~ Taken(dir, new_name), AddChild(dir, kind, new_name), cwd' = cwd
    PROVE  IInv'
<1> DEFINE new == made + 1
<1>1. /\ TypeOK /\ MountsFlagged /\ UniqueNames /\ ListedOnce /\ ParentLeadsBack
      /\ kind \in Kinds /\ new_name \in NodeNames
    BY DEF IInv, Kinds, NodeNames
<1>2. /\ made' = new /\ Made' = Made \cup {new} /\ new \notin Made
      /\ flags' \in [Made' -> Kinds]
      /\ name' \in [Made' -> NodeNames]
      /\ parent' \in [Made' -> Made' \cup {Null}]
      /\ mount_target' \in [Made' -> Made' \cup {Null}]
      /\ children' \in [Made' -> Seq(Made')]
      /\ flags'[new] = kind
      /\ name'[new] = new_name
      /\ parent'[new] = dir
      /\ mount_target'[new] = Null
      /\ children'[new] = <<>>
      /\ children'[dir] = Append(children[dir], new)
    BY <1>1, Added
<1>3. \A node \in Made : /\ flags'[node] = flags[node]
                         /\ name'[node] = name[node]
                         /\ parent'[node] = parent[node]
                         /\ mount_target'[node] = mount_target[node]
                         /\ node # dir => children'[node] = children[node]
    BY <1>1, Added
<1>4. /\ made \in Nat \ {0} /\ made < MaxNodes /\ Null \notin Made /\ cwd \in Made
      /\ \A node \in Made : children[node] \in Seq(Made) /\ parent[node] \in Places
    BY <1>1, MadeNodes
<1>5. TypeOK'
  <2>1. made' \in Nodes
      BY <1>2, <1>4, NodesAssumption DEF Nodes
  <2>2. cwd' \in Made'
      BY <1>2, <1>4
  <2> QED BY <1>2, <2>1, <2>2 DEF TypeOK, Kinds, NodeNames
<1> HIDE DEF new
<1>6. MountsFlagged'
    BY <1>1, <1>2, <1>3 DEF MountsFlagged
<1> DEFINE m == Len(children[dir])
<1>7. /\ m \in Nat
      /\ Len(children'[dir]) = m + 1
      /\ DOMAIN children'[dir] = 1 .. m + 1 /\ DOMAIN children[dir] = 1 .. m
      /\ \A i \in 1 .. m : children'[dir][i] = children[dir][i] /\ children[dir][i] \in Made
      /\ children'[dir][m + 1] = new
      /\ ToSet(children'[dir]) = ToSet(children[dir]) \cup {new}
  <2>1. children[dir] \in Seq(Made') /\ children[dir] \in Seq(Made) /\ new \in Made'
      BY <1>2, <1>4, SeqMonotonic
  <2>2. /\ Append(children[dir], new) \in Seq(Made')
        /\ Len(Append(children[dir], new)) = m + 1
        /\ ToSet(Append(children[dir], new)) = ToSet(children[dir]) \cup {new}
        /\ \A i \in 1 .. m : Append(children[dir], new)[i] = children[dir][i]
        /\ Append(children[dir], new)[m + 1] = new
      BY <2>1, ListsMore
  <2>3. m \in Nat /\ DOMAIN children[dir] = 1 .. m /\ \A i \in 1 .. m : children[dir][i] \in Made
      BY <2>1, LenProperties
  <2>4. DOMAIN Append(children[dir], new) = 1 .. m + 1
      BY <2>2, LenProperties
  <2> QED BY <1>2, <2>2, <2>3, <2>4
<1>8. \A i \in 1 .. m : name[children[dir][i]] # new_name
  <2>1. lookup(dir, new_name) = Null
      BY DEF Taken
  <2>2. lookup(dir, new_name) \notin Made
      BY <1>4, <2>1
  <2> QED BY <1>1, <2>2, Looked
<1> HIDE DEF m
<1>9. UniqueNames'
  <2> SUFFICES ASSUME NEW d \in Made', NEW i \in DOMAIN children'[d], NEW j \in DOMAIN children'[d],
                      name'[children'[d][i]] = name'[children'[d][j]]
               PROVE  i = j
      BY DEF UniqueNames
  <2>1. CASE d = new
    <3>1. DOMAIN children'[d] = {}
        BY <1>2, <2>1
    <3> QED BY <3>1
  <2>2. CASE d \in Made /\ d # dir
    <3>1. children'[d] = children[d] /\ children[d] \in Seq(Made)
        BY <1>3, <1>4, <2>2
    <3>2. children[d][i] \in Made /\ children[d][j] \in Made
        BY <3>1, LenProperties
    <3>3. name[children[d][i]] = name[children[d][j]]
        BY <1>3, <3>1, <3>2
    <3> QED BY <1>1, <2>2, <3>1, <3>3 DEF UniqueNames
  <2>3. CASE d = dir
    <3>1. i \in 1 .. m + 1 /\ j \in 1 .. m + 1
        BY <1>7, <2>3
    <3>2. ASSUME NEW k \in 1 .. m
          PROVE  name'[children'[dir][k]] = name[children[dir][k]] /\ name[children[dir][k]] # new_name
        BY <1>3, <1>7, <1>8
    <3>3. name'[children'[dir][m + 1]] = new_name
        BY <1>2, <1>7
    <3>4. CASE i \in 1 .. m /\ j \in 1 .. m
      <4>1. name[children[dir][i]] = name[children[dir][j]]
          BY <2>3, <3>2, <3>4
      <4>2. i \in DOMAIN children[dir] /\ j \in DOMAIN children[dir]
          BY <1>7, <3>4
      <4> QED BY <1>1, <4>1, <4>2 DEF UniqueNames
    <3>5. CASE i = m + 1 /\ j \in 1 .. m
        BY <2>3, <3>2, <3>3, <3>5
    <3>6. CASE i \in 1 .. m /\ j = m + 1
        BY <2>3, <3>2, <3>3, <3>6
    <3> QED BY <1>7, <3>1, <3>4, <3>5, <3>6
  <2> QED BY <1>2, <2>1, <2>2, <2>3
<1>10. ListedOnce'
  <2>1. \A d \in Made : ToSet(children[d]) \subseteq Made
      BY <1>4, Lists
  <2>2. ToSet(children'[new]) = {} /\ IsInjective(children'[new])
    <3>1. DOMAIN children'[new] = {}
        BY <1>2
    <3> QED BY <3>1 DEF ToSet, IsInjective
  <2>3. IsInjective(children'[dir])
    <3>1. IsInjective(children[dir])
        BY <1>1 DEF ListedOnce
    <3>2. \A i, j \in 1 .. m : children[dir][i] = children[dir][j] => i = j
        BY <1>7, <3>1 DEF IsInjective
    <3>3. \A i \in 1 .. m : children'[dir][i] # children'[dir][m + 1]
        BY <1>2, <1>7
    <3>4. \A i \in 1 .. m + 1 : i \in 1 .. m \/ i = m + 1
        BY <1>7
    <3>5. \A i, j \in 1 .. m + 1 : children'[dir][i] = children'[dir][j] => i = j
        BY <1>7, <3>2, <3>3, <3>4
    <3> QED BY <1>7, <3>5 DEF IsInjective
  <2>4. \A d \in Made : flags'[d] = "FILE" => d # dir /\ children'[d] = <<>>
      BY <1>1, <1>3 DEF ListedOnce
  <2>5. \A d \in Made' : (flags'[d] = "FILE" => children'[d] = <<>>) /\ IsInjective(children'[d])
      BY <1>1, <1>2, <1>3, <2>2, <2>3, <2>4 DEF ListedOnce
  <2>6. ASSUME NEW d \in Made', NEW other \in Made' \ {d}
        PROVE  ToSet(children'[d]) \cap ToSet(children'[other]) = {}
    <3>1. \A a, b \in Made : a # b => ToSet(children[a]) \cap ToSet(children[b]) = {}
        BY <1>1 DEF ListedOnce
    <3>2. \A a \in Made : ToSet(children'[a]) = IF a = dir THEN ToSet(children[a]) \cup {new}
                                                ELSE ToSet(children[a])
        BY <1>3, <1>7
    <3>3. CASE d = new \/ other = new
        BY <2>2, <3>3
    <3>4. CASE d \in Made /\ other \in Made
      <4>1. ToSet(children[d]) \cap ToSet(children[other]) = {}
          BY <3>1, <3>4
      <4>2. new \notin ToSet(children[d]) /\ new \notin ToSet(children[other])
          BY <1>2, <2>1, <3>4
      <4>3. d # dir \/ other # dir
          OBVIOUS
      <4> QED BY <3>2, <3>4, <4>1, <4>2, <4>3
    <3> QED BY <1>2, <3>3, <3>4
  <2> QED BY <2>5, <2>6 DEF ListedOnce
<1>11. ParentLeadsBack'
  <2> SUFFICES ASSUME NEW node \in Made', parent'[node] # Null
               PROVE  \/ node \in ToSet(children'[parent'[node]])
                      \/ mount_target'[parent'[node]] = node
      BY DEF ParentLeadsBack
  <2>1. CASE node = new
      BY <1>2, <1>7, <2>1
  <2>2. CASE node \in Made
    <3>1. parent'[node] = parent[node] /\ parent[node] \in Made
        BY <1>3, <1>4, <2>2 DEF Places
    <3>2. node \in ToSet(children[parent[node]]) \/ mount_target[parent[node]] = node
        BY <1>1, <2>2, <3>1 DEF ParentLeadsBack
    <3>3. ToSet(children[parent[node]]) \subseteq ToSet(children'[parent[node]])
        BY <1>3, <1>7, <3>1
    <3>4. mount_target'[parent[node]] = mount_target[parent[node]]
        BY <1>3, <3>1
    <3> QED BY <3>1, <3>2, <3>3, <3>4
  <2> QED BY <1>2, <2>1, <2>2
<1> QED BY <1>5, <1>6, <1>9, <1>10, <1>11 DEF IInv

LEMMA CreateKeeps ==
    ASSUME IInv, NEW split \in Splits, NEW kind \in {"FILE", "DIRECTORY"}, Create(split, kind)
    PROVE  IInv'
<1> DEFINE dir == vfs_resolve_path(split.dir)
<1>1. dir \in Places
    BY SplitDir, Resolved DEF IInv
<1>2. dir \in Made /\ flags[dir] = "DIRECTORY"
    BY <1>1 DEF Create, IsDirectory, Places
<1>3. split.base \in Names \cup OddNames
    BY SplitDir
<1>4. made < MaxNodes /\ ~ Taken(dir, split.base) /\ AddChild(dir, kind, split.base) /\ cwd' = cwd
    BY DEF Create
<1> HIDE DEF dir
<1> QED BY <1>2, <1>3, <1>4, AddKeeps

LEMMA CdKeeps == ASSUME IInv, NEW way \in Ways, Cd(way) PROVE IInv'
<1>1. cwd' \in Made
  <2>1. vfs_resolve_path(way) \in Places
      BY WaysTyped, Resolved DEF IInv
  <2> QED BY <2>1 DEF Cd, IsDirectory, Places
<1> QED BY <1>1 DEF Cd, treeVars, IInv, TypeOK, Made, MountsFlagged, UniqueNames, ListedOnce, ParentLeadsBack

LEMMA MountKeeps ==
    ASSUME IInv, NEW source \in Made, NEW target \in Made, Mount(source, target)
    PROVE  IInv'
<1>1. /\ TypeOK /\ MountsFlagged /\ UniqueNames /\ ListedOnce /\ ParentLeadsBack
    BY DEF IInv
<1>2. /\ flags[target] = "DIRECTORY" /\ source # target
      /\ flags' = [flags EXCEPT ![target] = "MOUNTPOINT"]
      /\ mount_target' = [mount_target EXCEPT ![target] = source]
      /\ parent' = [parent EXCEPT ![source] = target]
      /\ made' = made /\ name' = name /\ children' = children /\ cwd' = cwd /\ Made' = Made
    BY DEF Mount, IsDirectory, Made
<1>3. mount_target[target] = Null /\ Null \notin Made
    BY <1>1, <1>2, MadeNodes DEF MountsFlagged
<1>4. TypeOK'
    BY <1>1, <1>2 DEF TypeOK
<1>5. MountsFlagged'
    BY <1>1, <1>2 DEF MountsFlagged, TypeOK
<1>6. UniqueNames'
    BY <1>1, <1>2 DEF UniqueNames
<1>7. ListedOnce'
  <2>1. \A d \in Made : flags'[d] = "FILE" => flags[d] = "FILE"
      BY <1>1, <1>2 DEF TypeOK
  <2> QED BY <1>1, <1>2, <2>1 DEF ListedOnce
<1>8. ParentLeadsBack'
  <2> SUFFICES ASSUME NEW node \in Made, parent'[node] # Null
               PROVE  \/ node \in ToSet(children[parent'[node]])
                      \/ mount_target'[parent'[node]] = node
      BY <1>2 DEF ParentLeadsBack
  <2>1. CASE node = source
      BY <1>1, <1>2, <2>1 DEF TypeOK
  <2>2. CASE node # source
    <3>1. parent'[node] = parent[node] /\ parent[node] \in Made
        BY <1>1, <1>2, <2>2 DEF TypeOK
    <3>2. node \in ToSet(children[parent[node]]) \/ mount_target[parent[node]] = node
        BY <1>1, <3>1 DEF ParentLeadsBack
    <3>3. mount_target[parent[node]] = node => mount_target'[parent[node]] = node
        BY <1>1, <1>2, <1>3, <3>1 DEF TypeOK
    <3> QED BY <3>1, <3>2, <3>3
  <2> QED BY <2>1, <2>2
<1> QED BY <1>4, <1>5, <1>6, <1>7, <1>8 DEF IInv

LEMMA Start == ASSUME Init PROVE IInv
<1>1. /\ made = 4 /\ cwd = 1 /\ Made = {1, 2, 3, 4}
      /\ flags = <<"DIRECTORY", "FILE", "MOUNTPOINT", "DIRECTORY">>
      /\ name = <<"/", "test.txt", "mnt", "second">>
      /\ parent = <<Null, 1, 1, 3>>
      /\ mount_target = <<Null, Null, 4, Null>>
      /\ children = <<<<2, 3>>, <<>>, <<>>, <<>>>>
    BY DEF Init, fs_root, Made
<1>2. 1 .. 4 = {1, 2, 3, 4}
    OBVIOUS
<1>3. children[1] = <<2, 3>> /\ children[2] = <<>> /\ children[3] = <<>> /\ children[4] = <<>>
    BY <1>1
<1>4. \A d \in Made : children[d] \in Seq(Made)
  <2>1. <<2, 3>> \in Seq(Made) /\ <<>> \in Seq(Made)
      BY <1>1
  <2> QED BY <1>1, <1>3, <2>1
<1>5. TypeOK
  <2>1. made \in Nodes /\ cwd \in Made
      BY <1>1, NodesAssumption DEF Nodes
  <2>2. flags \in [Made -> {"FILE", "DIRECTORY", "MOUNTPOINT"}]
      BY <1>1, <1>2
  <2>3. name \in [Made -> Names \cup OddNames \cup {"/", "second"}]
      BY <1>1, <1>2, NamesAssumption
  <2>4. parent \in [Made -> Made \cup {Null}] /\ mount_target \in [Made -> Made \cup {Null}]
      BY <1>1, <1>2
  <2>5. children \in [Made -> Seq(Made)]
    <3>1. DOMAIN children = Made
        BY <1>1, <1>2
    <3>2. children = [d \in Made |-> children[d]]
        BY <1>1, <1>2
    <3> QED BY <1>4, <3>2
  <2> QED BY <2>1, <2>2, <2>3, <2>4, <2>5 DEF TypeOK
<1>6. MountsFlagged
    BY <1>1 DEF MountsFlagged
<1>7. /\ ToSet(children[1]) = {2, 3} /\ ToSet(children[2]) = {}
      /\ ToSet(children[3]) = {} /\ ToSet(children[4]) = {}
      /\ DOMAIN children[1] = {1, 2} /\ \A d \in {2, 3, 4} : DOMAIN children[d] = {}
    BY <1>3 DEF ToSet
<1>8. UniqueNames
    BY <1>1, <1>3, <1>7 DEF UniqueNames
<1>9. ListedOnce
    BY <1>1, <1>3, <1>7 DEF ListedOnce, IsInjective
<1>10. ParentLeadsBack
  <2>1. parent[2] = 1 /\ parent[3] = 1 /\ parent[4] = 3 /\ parent[1] = Null /\ mount_target[3] = 4
      BY <1>1
  <2> QED BY <1>1, <1>7, <2>1 DEF ParentLeadsBack
<1> QED BY <1>5, <1>6, <1>8, <1>9, <1>10 DEF IInv

LEMMA ReachedMade == ASSUME TypeOK, NEW node \in Reached, IsDirectory(node) PROVE node \in Made
<1>1. PICK way \in Ways : node = vfs_resolve_path(way)
    BY DEF Reached
<1>2. node \in Places
    BY <1>1, WaysTyped, Resolved
<1> QED BY <1>2 DEF Places, IsDirectory

LEMMA StepKeeps == IInv /\ [Next]_vars => IInv'
<1> SUFFICES ASSUME IInv, [Next]_vars PROVE IInv'
    OBVIOUS
<1>1. ASSUME NEW way \in Ways, Cd(way) PROVE IInv'
    BY <1>1, CdKeeps
<1>2. ASSUME NEW split \in Splits, Touch(split) \/ Mkdir(split) PROVE IInv'
    BY <1>2, CreateKeeps DEF Touch, Mkdir
<1>3. ASSUME NEW source \in Reached, NEW target \in Reached, Mount(source, target) PROVE IInv'
  <2>1. source \in Made /\ target \in Made
      BY <1>3, ReachedMade DEF Mount, IInv
  <2> QED BY <1>3, <2>1, MountKeeps
<1>4. CASE UNCHANGED vars
    BY <1>4 DEF vars, treeVars, IInv, TypeOK, Made, MountsFlagged, UniqueNames, ListedOnce, ParentLeadsBack
<1> QED BY <1>1, <1>2, <1>3, <1>4 DEF Next

LEMMA Holds == Spec => []IInv
<1>1. Init => IInv
    BY Start
<1> QED BY <1>1, StepKeeps, PTL DEF Spec

(* Whatever paths touch, mkdir and mount are given, every node is listed   *)
(* once, by a directory or a mount point, and under a name of its own      *)
(* there: a file that was created is found again (vfs_add_child, and the   *)
(* look-ups of builtin_touch and builtin_mkdir before it).                 *)
THEOREM NamesUnique == Spec => []VfsInv
<1>1. IInv => VfsInv
    BY DEF IInv, VfsInv
<1> QED BY <1>1, Holds, PTL

(* ".." leads to what lists the directory or what it is mounted on, after  *)
(* any mounts: vfs_mount rewrites a parent only to a node that leads back, *)
(* and never one that another mount needs.                                 *)
THEOREM LeadsBack == Spec => []ParentLeadsBack
<1>1. IInv => ParentLeadsBack
    BY DEF IInv
<1> QED BY <1>1, Holds, PTL

-----------------------------------------------------------------------------
(* Mounts show. *)

LEMMA MountLeads ==
    ASSUME IInv, IInv', NEW source \in Made, NEW target \in Made, Mount(source, target),
           target # fs_root, \A node \in Made : mount_target[node] # target,
           NEW way \in NameWays, vfs_resolve_path(way) = target,
           \A i \in 0 .. Len(way.segs) - 1 : Turns(way)[i] # target
    PROVE  vfs_resolve_path(way)' = source
<1> DEFINE n == Len(way.segs)
           turns == Turns(way)
           after == Turns(way)'
<1>1. /\ TypeOK /\ Null \notin Made
      /\ flags[target] = "DIRECTORY" /\ source # target
      /\ flags' = [flags EXCEPT ![target] = "MOUNTPOINT"]
      /\ mount_target' = [mount_target EXCEPT ![target] = source]
      /\ made' = made /\ name' = name /\ children' = children /\ cwd' = cwd /\ Made' = Made
    BY MadeNodes DEF IInv, Mount, IsDirectory, Made
<1>2. /\ way \in WaysThere /\ n \in Nat /\ way.absolute = TRUE
      /\ \A i \in 1 .. n : way.segs[i] \notin {".", ".."}
  <2>1. way \in WaysThere /\ way.absolute /\ ToSet(way.segs) \cap {".", ".."} = {}
      BY WaysTyped DEF NameWays
  <2>2. n \in Nat /\ DOMAIN way.segs = 1 .. n
      BY <2>1, LenProperties DEF WaysThere
  <2> QED BY <2>1, <2>2 DEF ToSet, WaysThere
<1>3. /\ turns[0] = fs_root
      /\ \A i \in 1 .. n : turns[i] = Follow(turns[i - 1], way.segs[i])
      /\ \A i \in 0 .. n : turns[i] \in Places
    BY <1>1, <1>2, TurnsThere DEF TurnsGoOn, GoOn, StartOf
<1>4. /\ after[0] = fs_root
      /\ \A i \in 1 .. n : after[i] = Follow(turns[i - 1], way.segs[i])'
    BY <1>2, TurnsThereAfter DEF IInv, TurnsGoOn, GoOn, StartOf, fs_root
<1>5. turns[n] = target /\ n # 0 /\ \A i \in 0 .. n - 1 : turns[i] # target
  <2>1. turns[n] = target
      BY DEF vfs_resolve_path
  <2> QED BY <1>3, <2>1
<1> HIDE DEF n
<1> DEFINE Via(v) == IF v = Null \/ flags'[v] # "MOUNTPOINT" \/ mount_target'[v] = Null
                     THEN v ELSE mount_target'[v]
<1>6. ASSUME NEW i \in 1 .. n, after[i - 1] = turns[i - 1]
      PROVE  after[i] = IF ~ IsDirectory(turns[i - 1]) THEN turns[i - 1]
                        ELSE Via(lookup(turns[i - 1], way.segs[i]))
  <2>1. after[i] = Follow(turns[i - 1], way.segs[i])'
      BY <1>4
  <2>2. way.segs[i] # "." /\ way.segs[i] # ".."
      BY <1>2
  <2>3. lookup(turns[i - 1], way.segs[i])' = lookup(turns[i - 1], way.segs[i])
      BY <1>1, <1>6 DEF lookup
  <2>4. turns[i - 1] \in Places /\ turns[i - 1] # target
      BY <1>2, <1>3, <1>5
  <2>5. IsDirectory(turns[i - 1])' <=> IsDirectory(turns[i - 1])
      BY <1>1, <1>6, <2>4 DEF IsDirectory, Places, TypeOK
  <2>6. ThroughMount(lookup(turns[i - 1], way.segs[i]))' = Via(lookup(turns[i - 1], way.segs[i]))
      BY <2>3 DEF ThroughMount
  <2>7. Follow(turns[i - 1], way.segs[i])'
          = IF ~ IsDirectory(turns[i - 1])' THEN after[i - 1]
            ELSE ThroughMount(lookup(turns[i - 1], way.segs[i]))'
      BY <2>2 DEF Follow
  <2> QED BY <1>6, <2>1, <2>5, <2>6, <2>7
<1>7. ASSUME NEW i \in 1 .. n, IsDirectory(turns[i - 1])
      PROVE  /\ lookup(turns[i - 1], way.segs[i]) \in Places
             /\ turns[i] = ThroughMount(lookup(turns[i - 1], way.segs[i]))
  <2>1. turns[i - 1] \in Made
      BY <1>2, <1>3, <1>7 DEF IsDirectory, Places
  <2>2. lookup(turns[i - 1], way.segs[i]) \in Places
      BY <1>1, <2>1, Looked DEF Places
  <2>3. turns[i] = Follow(turns[i - 1], way.segs[i]) /\ way.segs[i] # "." /\ way.segs[i] # ".."
      BY <1>2, <1>3
  <2> QED BY <1>7, <2>2, <2>3 DEF Follow
<1>8. ThroughMount(target) = target
    BY <1>1 DEF ThroughMount
<1>9. \A v \in Places : v # target => Via(v) = ThroughMount(v)
    BY <1>1 DEF Via, ThroughMount, Places, TypeOK
<1>10. Via(target) = source
    BY <1>1 DEF Via, TypeOK
<1> HIDE DEF turns, after, Via
<1>11. \A i \in 0 .. n - 1 : after[i] = turns[i]
  <2> SUFFICES ASSUME NEW k \in 0 .. n - 1, after[k] # turns[k] PROVE FALSE
      OBVIOUS
  <2> DEFINE T == {i \in Nat : i <= n - 1 /\ after[i] # turns[i]}
  <2>1. k \in T
      BY <1>2
  <2>2. PICK i \in T : \A j \in T : i <= j
      BY <2>1, Least
  <2>3. i # 0
      BY <1>3, <1>4, <2>2
  <2>4. i \in 1 .. n /\ i - 1 \notin T /\ after[i - 1] = turns[i - 1]
      BY <1>2, <2>2, <2>3
  <2>5. CASE ~ IsDirectory(turns[i - 1])
    <3>1. turns[i] = turns[i - 1]
        BY <1>3, <2>4, <2>5 DEF Follow
    <3> QED BY <1>6, <2>2, <2>4, <2>5, <3>1
  <2>6. CASE IsDirectory(turns[i - 1])
    <3>1. lookup(turns[i - 1], way.segs[i]) # target
        BY <1>2, <1>5, <1>7, <1>8, <2>2, <2>4, <2>6
    <3> QED BY <1>6, <1>7, <1>9, <2>2, <2>4, <2>6, <3>1
  <2> QED BY <2>5, <2>6
<1>12. n \in 1 .. n /\ n - 1 \in 0 .. n - 1
    BY <1>2, <1>5
<1>13. IsDirectory(turns[n - 1])
  <2> SUFFICES ASSUME ~ IsDirectory(turns[n - 1]) PROVE FALSE
      OBVIOUS
  <2>1. turns[n] = turns[n - 1]
      BY <1>3, <1>12 DEF Follow
  <2> QED BY <1>5, <1>12, <2>1
<1>14. lookup(turns[n - 1], way.segs[n]) = target
  <2>1. \A v \in Places : ThroughMount(v) = target => v = target
      BY <1>1, MadeNodes DEF ThroughMount, Places
  <2> QED BY <1>5, <1>7, <1>12, <1>13, <2>1
<1>15. after[n] = source
    BY <1>6, <1>10, <1>11, <1>12, <1>13, <1>14
<1> QED BY <1>15 DEF after, n, vfs_resolve_path

(* Only a mount makes a directory a mount point. *)
LEMMA MountAlone ==
    ASSUME IInv, Next, NEW target \in Made, flags[target] = "DIRECTORY", flags'[target] = "MOUNTPOINT"
    PROVE  \E source \in Made : Mount(source, target) /\ mount_target'[target] = source
<1>1. TypeOK
    BY DEF IInv
<1>2. ASSUME NEW way \in Ways, Cd(way) PROVE FALSE
    BY <1>2 DEF Cd, treeVars
<1>3. ASSUME NEW split \in Splits, NEW kind \in {"FILE", "DIRECTORY"}, Create(split, kind) PROVE FALSE
  <2> DEFINE dir == vfs_resolve_path(split.dir)
  <2>1. dir \in Places
      BY <1>1, SplitDir, Resolved
  <2>2. dir \in Made
      BY <1>3, <2>1 DEF Create, IsDirectory, Places
  <2>3. split.base \in NodeNames /\ kind \in Kinds
      BY SplitDir DEF NodeNames, Kinds
  <2>4. made < MaxNodes /\ AddChild(dir, kind, split.base)
      BY <1>3 DEF Create
  <2> HIDE DEF dir
  <2>5. flags'[target] = flags[target]
      BY <1>1, <2>2, <2>3, <2>4, Added
  <2> QED BY <2>5
<1>4. ASSUME NEW source \in Reached, NEW other \in Reached, Mount(source, other)
      PROVE  \E from \in Made : Mount(from, target) /\ mount_target'[target] = from
  <2>1. source \in Made /\ other \in Made
      BY <1>1, <1>4, ReachedMade DEF Mount
  <2>2. other = target
      BY <1>1, <1>4, <2>1 DEF Mount, TypeOK
  <2>3. mount_target'[target] = source
      BY <1>1, <1>4, <2>2 DEF Mount, TypeOK
  <2> QED BY <1>4, <2>1, <2>2, <2>3
<1> QED BY <1>2, <1>3, <1>4 DEF Next, Touch, Mkdir

(* A mount shows: every path of names that led to the directory, and met   *)
(* it at its end only, leads to what was mounted on it, whatever else is   *)
(* mounted, as the first turns of vfs_resolve_path are what they were and  *)
(* the last one goes through the mount (vfs_mount, vfs_resolve_path).      *)
THEOREM MountsShow == Spec => MountShows
<1> DEFINE Shown(target) ==
             \A way \in NameWays :
                /\ vfs_resolve_path(way) = target
                /\ \A i \in 0 .. Len(way.segs) - 1 : Turns(way)[i] # target
                => vfs_resolve_path(way)' = mount_target'[target]
           Shows == \A target \in Made :
                /\ flags[target] = "DIRECTORY"
                /\ flags'[target] = "MOUNTPOINT"
                /\ target # fs_root
                /\ \A node \in Made : mount_target[node] # target
                => Shown(target)
<1>1. IInv /\ IInv' /\ [Next]_vars => [Shows]_vars
  <2> SUFFICES ASSUME IInv, IInv', Next,
                      NEW target \in Made, flags[target] = "DIRECTORY", flags'[target] = "MOUNTPOINT",
                      target # fs_root, \A node \in Made : mount_target[node] # target
               PROVE  Shown(target)
      OBVIOUS
  <2>1. PICK source \in Made : Mount(source, target) /\ mount_target'[target] = source
      BY MountAlone
  <2> QED BY <2>1, MountLeads
<1>2. IInv /\ [Next]_vars => IInv'
    BY StepKeeps
<1> QED BY <1>1, <1>2, Holds, PTL DEF Spec, MountShows

-----------------------------------------------------------------------------
(* The tree, as long as only main mounts. *)

(* What is true of the nodes from main on, and of all of them while only   *)
(* main's mount is there: parents are older, and directories list their    *)
(* children.                                                               *)
Listing == /\ \A node \in Made \ {1, 4} : /\ parent[node] \in Made /\ parent[node] < node
                                          /\ flags[parent[node]] = "DIRECTORY"
                                          /\ node \in ToSet(children[parent[node]])
                                          /\ name[node] \in Names \cup OddNames
           /\ \A dir \in Made : \A node \in ToSet(children[dir]) : parent[node] = dir

MainsNodes == /\ parent[1] = Null /\ parent[3] = 1 /\ parent[4] = 3
              /\ name[3] = "mnt"
              /\ mount_target[3] = 4
              /\ flags[1] = "DIRECTORY" /\ flags[4] = "DIRECTORY"

TreeInv == /\ made >= 4 /\ flags[3] = "MOUNTPOINT" /\ mount_target[3] # Null
           /\ OnlyMainsMount => /\ Listing
                                /\ MainsNodes
                                /\ \A node \in Made : flags[node] = "MOUNTPOINT" => node = 3
                                /\ flags[cwd] = "DIRECTORY"

LEMMA TreeStart == ASSUME Init PROVE TreeInv
<1>1. /\ made = 4 /\ cwd = 1 /\ Made = {1, 2, 3, 4}
      /\ flags = <<"DIRECTORY", "FILE", "MOUNTPOINT", "DIRECTORY">>
      /\ name = <<"/", "test.txt", "mnt", "second">>
      /\ parent = <<Null, 1, 1, 3>>
      /\ mount_target = <<Null, Null, 4, Null>>
      /\ children = <<<<2, 3>>, <<>>, <<>>, <<>>>>
    BY DEF Init, fs_root, Made
<1>2. Null \notin {1, 2, 3, 4}
    BY <1>1, Start, MadeNodes DEF IInv
<1>3. children[1] = <<2, 3>> /\ children[2] = <<>> /\ children[3] = <<>> /\ children[4] = <<>>
    BY <1>1
<1>4. /\ ToSet(children[1]) = {2, 3} /\ ToSet(children[2]) = {}
      /\ ToSet(children[3]) = {} /\ ToSet(children[4]) = {}
    BY <1>3 DEF ToSet
<1>5. parent[1] = Null /\ parent[2] = 1 /\ parent[3] = 1 /\ parent[4] = 3
    BY <1>1
<1>6. /\ name[2] = "test.txt" /\ name[3] = "mnt"
      /\ flags[1] = "DIRECTORY" /\ flags[2] = "FILE" /\ flags[3] = "MOUNTPOINT" /\ flags[4] = "DIRECTORY"
      /\ mount_target[3] = 4
    BY <1>1
<1>7. Listing
  <2>1. Made \ {1, 4} = {2, 3}
      BY <1>1
  <2>2. \A dir \in Made : \A node \in ToSet(children[dir]) : parent[node] = dir
      BY <1>1, <1>4, <1>5
  <2>3. \A node \in {2, 3} : name[node] \in Names \cup OddNames
      BY <1>6, NamesAssumption
  <2> QED BY <1>1, <1>4, <1>5, <1>6, <2>1, <2>2, <2>3 DEF Listing
<1>8. MainsNodes
    BY <1>5, <1>6 DEF MainsNodes
<1>9. \A node \in Made : flags[node] = "MOUNTPOINT" => node = 3
    BY <1>1, <1>6
<1> QED BY <1>1, <1>2, <1>6, <1>7, <1>8, <1>9 DEF TreeInv

(* Nothing unmounts: another mount than main's is there to stay. *)
LEMMA MountEnds ==
    ASSUME IInv, TreeInv, NEW source \in Made, NEW target \in Made, Mount(source, target)
    PROVE  /\ ~ OnlyMainsMount'
           /\ made' = made /\ flags'[3] = "MOUNTPOINT" /\ mount_target'[3] # Null
<1>1. /\ TypeOK /\ flags[3] = "MOUNTPOINT" /\ mount_target[3] # Null /\ 3 \in Made /\ Null \notin Made
    BY MadeNodes DEF IInv, TreeInv, Made
<1>2. /\ flags[target] = "DIRECTORY"
      /\ flags' = [flags EXCEPT ![target] = "MOUNTPOINT"]
      /\ mount_target' = [mount_target EXCEPT ![target] = source]
      /\ made' = made /\ Made' = Made
    BY DEF Mount, IsDirectory, Made
<1>3. target # 3
    BY <1>1, <1>2
<1>4. mount_target'[target] # Null /\ mount_target'[3] # Null /\ flags'[3] = "MOUNTPOINT"
    BY <1>1, <1>2, <1>3 DEF TypeOK
<1>5. target \in {node \in Made' : mount_target'[node] # Null}
    BY <1>2, <1>4
<1> QED BY <1>2, <1>3, <1>4, <1>5 DEF OnlyMainsMount

LEMMA AddKeepsTree ==
    ASSUME IInv, TreeInv, NEW dir \in Made, flags[dir] = "DIRECTORY",
           NEW kind \in {"FILE", "DIRECTORY"}, NEW new_name \in Names \cup OddNames,
           AddChild(dir, kind, new_name), cwd' = cwd
    PROVE  /\ OnlyMainsMount' <=> OnlyMainsMount
           /\ TreeInv'
<1> DEFINE new == made + 1
<1>1. TypeOK /\ kind \in Kinds /\ new_name \in NodeNames /\ ListedOnce
    BY DEF IInv, Kinds, NodeNames
<1>2. /\ made' = new /\ Made' = Made \cup {new} /\ new \notin Made
      /\ flags'[new] = kind
      /\ name'[new] = new_name
      /\ parent'[new] = dir
      /\ mount_target'[new] = Null
      /\ children'[new] = <<>>
      /\ children'[dir] = Append(children[dir], new)
    BY <1>1, Added
<1>3. \A node \in Made : /\ flags'[node] = flags[node]
                         /\ name'[node] = name[node]
                         /\ parent'[node] = parent[node]
                         /\ mount_target'[node] = mount_target[node]
                         /\ node # dir => children'[node] = children[node]
    BY <1>1, Added
<1>4. /\ made \in Nat /\ made >= 4 /\ {1, 3, 4} \subseteq Made /\ cwd \in Made
      /\ \A node \in Made : children[node] \in Seq(Made)
      /\ \A node \in Made : node \in Nat /\ node < new
      /\ new \notin {1, 3, 4} /\ new \in Nat
    BY <1>1, MadeNodes DEF TreeInv, Made
<1> HIDE DEF new
<1>5. OnlyMainsMount' <=> OnlyMainsMount
  <2>1. {node \in Made' : mount_target'[node] # Null} = {node \in Made : mount_target[node] # Null}
      BY <1>2, <1>3
  <2> QED BY <2>1 DEF OnlyMainsMount
<1>6. /\ ToSet(children'[dir]) = ToSet(children[dir]) \cup {new}
      /\ ToSet(children'[new]) = {}
      /\ \A node \in Made : ToSet(children[node]) \subseteq Made
  <2>1. children[dir] \in Seq(Made') /\ new \in Made'
      BY <1>2, <1>4, SeqMonotonic
  <2>2. ToSet(Append(children[dir], new)) = ToSet(children[dir]) \cup {new}
      BY <2>1, ListsMore
  <2>3. ToSet(<<>>) = {}
      BY DEF ToSet
  <2> QED BY <1>2, <1>4, <2>2, <2>3, Lists
<1>7. ASSUME OnlyMainsMount
      PROVE  /\ Listing' /\ MainsNodes'
             /\ \A node \in Made' : flags'[node] = "MOUNTPOINT" => node = 3
             /\ flags'[cwd'] = "DIRECTORY"
  <2>1. Listing /\ MainsNodes /\ flags[cwd] = "DIRECTORY"
        /\ \A node \in Made : flags[node] = "MOUNTPOINT" => node = 3
      BY <1>7 DEF TreeInv
  <2>2. ASSUME NEW node \in Made' \ {1, 4}
        PROVE  /\ parent'[node] \in Made' /\ parent'[node] < node
               /\ flags'[parent'[node]] = "DIRECTORY"
               /\ node \in ToSet(children'[parent'[node]])
               /\ name'[node] \in Names \cup OddNames
    <3>1. CASE node = new
        BY <1>2, <1>3, <1>4, <1>6, <3>1
    <3>2. CASE node # new
      <4>1. node \in Made \ {1, 4}
          BY <1>2, <3>2
      <4>2. /\ parent[node] \in Made /\ parent[node] < node
            /\ flags[parent[node]] = "DIRECTORY"
            /\ node \in ToSet(children[parent[node]])
            /\ name[node] \in Names \cup OddNames
          BY <2>1, <4>1 DEF Listing
      <4>3. node \in ToSet(children'[parent[node]])
          BY <1>3, <1>6, <4>2
      <4> QED BY <1>2, <1>3, <4>1, <4>2, <4>3
    <3> QED BY <3>1, <3>2
  <2>3. ASSUME NEW d \in Made', NEW node \in ToSet(children'[d]) PROVE parent'[node] = d
    <3>1. CASE d = new
        BY <1>6, <3>1
    <3>2. CASE d # new /\ node = new
      <4>1. d \in Made
          BY <1>2, <3>2
      <4>2. d = dir
          BY <1>3, <1>2, <1>6, <3>2, <4>1
      <4> QED BY <1>2, <3>2, <4>2
    <3>3. CASE d # new /\ node # new
      <4>1. d \in Made /\ node \in ToSet(children[d])
          BY <1>2, <1>3, <1>6, <3>3
      <4> QED BY <1>3, <1>6, <2>1, <4>1 DEF Listing
    <3> QED BY <3>1, <3>2, <3>3
  <2>4. Listing'
      BY <2>2, <2>3 DEF Listing
  <2>5. MainsNodes'
      BY <1>3, <1>4, <2>1 DEF MainsNodes
  <2>6. flags'[cwd'] = "DIRECTORY"
      BY <1>3, <1>4, <2>1
  <2>7. \A node \in Made' : flags'[node] = "MOUNTPOINT" => node = 3
      BY <1>2, <1>3, <2>1
  <2> QED BY <2>4, <2>5, <2>6, <2>7
<1>8. made' >= 4 /\ flags'[3] = "MOUNTPOINT" /\ mount_target'[3] # Null
    BY <1>2, <1>3, <1>4 DEF TreeInv, new
<1> QED BY <1>5, <1>7, <1>8 DEF TreeInv

LEMMA TreeKeeps == IInv /\ TreeInv /\ [Next]_vars => TreeInv'
<1> SUFFICES ASSUME IInv, TreeInv, [Next]_vars PROVE TreeInv'
    OBVIOUS
<1>1. ASSUME NEW way \in Ways, Cd(way) PROVE TreeInv'
  <2>1. cwd' = vfs_resolve_path(way) /\ flags[cwd'] = "DIRECTORY"
      BY <1>1 DEF Cd, IsDirectory
  <2>2. UNCHANGED treeVars
      BY <1>1 DEF Cd
  <2> QED BY <2>1, <2>2 DEF treeVars, TreeInv, OnlyMainsMount, Listing, MainsNodes, Made
<1>2. ASSUME NEW split \in Splits, NEW kind \in {"FILE", "DIRECTORY"}, Create(split, kind) PROVE TreeInv'
  <2> DEFINE dir == vfs_resolve_path(split.dir)
  <2>1. dir \in Places /\ split.base \in Names \cup OddNames
      BY SplitDir, Resolved DEF IInv
  <2>2. dir \in Made /\ flags[dir] = "DIRECTORY" /\ AddChild(dir, kind, split.base) /\ cwd' = cwd
      BY <1>2, <2>1 DEF Create, IsDirectory, Places
  <2> HIDE DEF dir
  <2> QED BY <2>1, <2>2, AddKeepsTree
<1>3. ASSUME NEW source \in Reached, NEW target \in Reached, Mount(source, target) PROVE TreeInv'
  <2>1. source \in Made /\ target \in Made
      BY <1>3, ReachedMade DEF IInv, Mount
  <2> QED BY <1>3, <2>1, MountEnds DEF TreeInv
<1>4. CASE UNCHANGED vars
    BY <1>4 DEF vars, treeVars, TreeInv, OnlyMainsMount, Listing, MainsNodes, Made
<1> QED BY <1>1, <1>2, <1>3, <1>4 DEF Next, Touch, Mkdir

LEMMA TreeHolds == Spec => [](IInv /\ TreeInv)
<1>1. Init => TreeInv
    BY TreeStart
<1> QED BY <1>1, Holds, TreeKeeps, PTL DEF Spec

-----------------------------------------------------------------------------
(* Places. *)

SegNames == Names \cup OddNames

OnlyMains == IInv /\ TreeInv /\ OnlyMainsMount

(* The place of a node, by those of older ones. *)
PlaceBy(place, node) ==
    IF node = 1 THEN <<>> ELSE IF node = 4 THEN place[3] ELSE Append(place[parent[node]], name[node])

LEMMA OlderParents ==
    ASSUME OnlyMains
    PROVE  /\ made \in Nat /\ made >= 4 /\ Made = 1 .. made
           /\ parent[4] = 3 /\ mount_target[3] = 4
           /\ \A node \in Made \ {1, 4} : /\ parent[node] \in 1 .. node - 1
                                          /\ name[node] \in SegNames
                                          /\ mount_target[parent[node]] # node
<1>1. TypeOK /\ Listing /\ MainsNodes /\ made >= 4
    BY DEF OnlyMains, IInv, TreeInv
<1>2. made \in Nat /\ Made = 1 .. made /\ Null \notin Made
    BY <1>1, MadeNodes DEF Made
<1>3. \A node \in Made : mount_target[node] # Null => node = 3
    BY DEF OnlyMains, OnlyMainsMount
<1> QED BY <1>1, <1>2, <1>3 DEF Listing, MainsNodes, SegNames

LEMMA PlacesBuilt ==
    ASSUME OnlyMains
    PROVE  \E place \in [Made -> Seq(SegNames)] : \A node \in Made : place[node] = PlaceBy(place, node)
<1> DEFINE Done(k) == \E place \in [1 .. k -> Seq(SegNames)] :
                         \A node \in 1 .. k : place[node] = PlaceBy(place, node)
           T == {k \in Made : ~ Done(k)}
<1>1. /\ made \in Nat /\ made >= 4 /\ Made = 1 .. made
      /\ \A node \in Made \ {1, 4} : parent[node] \in 1 .. node - 1 /\ name[node] \in SegNames
    BY OlderParents
<1>2. Done(1)
  <2> DEFINE place == [node \in 1 .. 1 |-> <<>>]
  <2>1. <<>> \in Seq(SegNames)
      OBVIOUS
  <2>2. place \in [1 .. 1 -> Seq(SegNames)] /\ place[1] = <<>> /\ 1 .. 1 = {1}
      BY <2>1
  <2> HIDE DEF place
  <2> QED BY <2>2 DEF PlaceBy
<1>3. ASSUME NEW k \in Made, k # 1, Done(k - 1) PROVE Done(k)
  <2>1. PICK before \in [1 .. k - 1 -> Seq(SegNames)] :
            \A node \in 1 .. k - 1 : before[node] = PlaceBy(before, node)
      BY <1>3
  <2> DEFINE last == PlaceBy(before, k)
             place == [node \in 1 .. k |-> IF node = k THEN last ELSE before[node]]
  <2>2. k \in Nat /\ k >= 2
      BY <1>1, <1>3
  <2>3. last \in Seq(SegNames)
    <3>1. CASE k = 4
        BY <2>1, <3>1 DEF PlaceBy
    <3>2. CASE k # 4
      <4>1. parent[k] \in 1 .. k - 1 /\ name[k] \in SegNames
          BY <1>1, <1>3, <3>2
      <4>2. before[parent[k]] \in Seq(SegNames)
          BY <2>1, <4>1
      <4>3. last = Append(before[parent[k]], name[k])
          BY <1>3, <3>2 DEF PlaceBy
      <4> HIDE DEF last
      <4> QED BY <4>1, <4>2, <4>3, AppendProperties
    <3> QED BY <3>1, <3>2
  <2>4. place \in [1 .. k -> Seq(SegNames)]
    <3> HIDE DEF last
    <3> QED BY <2>1, <2>2, <2>3
  <2>5. /\ place[k] = last
        /\ \A node \in 1 .. k - 1 : place[node] = before[node]
      BY <2>2
  <2> HIDE DEF place
  <2>6. ASSUME NEW node \in 1 .. k PROVE PlaceBy(place, node) = PlaceBy(before, node)
    <3>1. node = 4 => 3 \in 1 .. k - 1
        BY <2>2
    <3>2. node \notin {1, 4} => parent[node] \in 1 .. k - 1
      <4>1. node \in Made
          BY <1>1, <2>2
      <4> QED BY <1>1, <2>2, <4>1
    <3> QED BY <2>5, <3>1, <3>2 DEF PlaceBy
  <2>7. \A node \in 1 .. k : place[node] = PlaceBy(place, node)
    <3>1. \A node \in 1 .. k : node = k \/ node \in 1 .. k - 1
        BY <2>2
    <3> QED BY <2>1, <2>5, <2>6, <3>1
  <2> QED BY <2>4, <2>7
<1> HIDE DEF Done
<1>4. ASSUME NEW k \in T, \A j \in T : k <= j PROVE FALSE
  <2>1. k \in Made /\ ~ Done(k) /\ k # 1
      BY <1>2
  <2>2. k - 1 \in Made /\ k - 1 < k
      BY <1>1, <2>1
  <2>3. k - 1 \notin T
    <3> HIDE DEF T
    <3> QED BY <1>1, <1>4, <2>1, <2>2
  <2> QED BY <1>3, <2>1, <2>2, <2>3
<1>5. T = {}
  <2>1. T \subseteq Nat
      BY <1>1
  <2> HIDE DEF T
  <2> QED BY <1>4, <2>1, Least
<1>6. Done(made)
    BY <1>1, <1>5
<1> QED BY <1>1, <1>6 DEF Done

(* What PlaceOf is. *)
Placed == /\ PlaceOf \in [Made -> Seq(SegNames)]
          /\ PlaceOf[1] = <<>> /\ PlaceOf[4] = PlaceOf[3]
          /\ \A node \in Made \ {1, 4} : PlaceOf[node] = Append(PlaceOf[parent[node]], name[node])

LEMMA PlacesThere == OnlyMains => Placed
<1> SUFFICES ASSUME OnlyMains PROVE Placed
    OBVIOUS
<1> DEFINE Body(place) == [node \in Made |-> IF node = fs_root THEN <<>>
                                             ELSE IF mount_target[parent[node]] = node THEN place[parent[node]]
                                             ELSE Append(place[parent[node]], name[node])]
           chosen == CHOOSE place : place = Body(place)
<1>1. PlaceOf = chosen
    BY DEF PlaceOf
<1>2. /\ made \in Nat /\ made >= 4 /\ Made = 1 .. made
      /\ parent[4] = 3 /\ mount_target[3] = 4
      /\ \A node \in Made \ {1, 4} : /\ parent[node] \in 1 .. node - 1
                                     /\ name[node] \in SegNames
                                     /\ mount_target[parent[node]] # node
    BY OlderParents
<1>3. ASSUME NEW place PROVE Body(place) = [node \in Made |-> PlaceBy(place, node)]
  <2>1. \A node \in Made : (IF node = fs_root THEN <<>>
                            ELSE IF mount_target[parent[node]] = node THEN place[parent[node]]
                            ELSE Append(place[parent[node]], name[node])) = PlaceBy(place, node)
      BY <1>2 DEF PlaceBy, fs_root
  <2> QED BY <2>1
<1> HIDE DEF Body
<1>4. PICK place \in [Made -> Seq(SegNames)] : \A node \in Made : place[node] = PlaceBy(place, node)
    BY PlacesBuilt
<1>5. place = Body(place)
  <2>1. place = [node \in Made |-> PlaceBy(place, node)]
      BY <1>4
  <2> QED BY <1>3, <2>1
<1>6. chosen = Body(chosen)
    BY <1>5
<1> HIDE DEF chosen
<1>7. chosen = [node \in Made |-> PlaceBy(chosen, node)]
    BY <1>3, <1>6
<1>8. DOMAIN chosen = Made /\ \A node \in Made : chosen[node] = PlaceBy(chosen, node)
    BY <1>7
<1> DEFINE T == {node \in Made : chosen[node] \notin Seq(SegNames)}
<1>9. ASSUME NEW k \in T, \A j \in T : k <= j PROVE FALSE
  <2>1. k \in Made /\ chosen[k] \notin Seq(SegNames) /\ chosen[k] = PlaceBy(chosen, k)
      BY <1>8
  <2>2. \A j \in 1 .. k - 1 : j \in Made /\ chosen[j] \in Seq(SegNames)
    <3>1. \A j \in 1 .. k - 1 : j \in Made /\ j < k
        BY <1>2, <2>1
    <3>2. \A j \in 1 .. k - 1 : j \notin T
      <4> HIDE DEF T
      <4> QED BY <1>2, <1>9, <2>1, <3>1
    <3> QED BY <3>1, <3>2
  <2>3. CASE k = 1
    <3>1. <<>> \in Seq(SegNames)
        OBVIOUS
    <3> QED BY <2>1, <2>3, <3>1 DEF PlaceBy
  <2>4. CASE k = 4
      BY <2>1, <2>2, <2>4 DEF PlaceBy
  <2>5. CASE k \notin {1, 4}
    <3>1. parent[k] \in 1 .. k - 1 /\ name[k] \in SegNames
        BY <1>2, <2>1, <2>5
    <3>2. Append(chosen[parent[k]], name[k]) \in Seq(SegNames)
        BY <2>2, <3>1, AppendProperties
    <3> QED BY <2>1, <2>5, <3>2 DEF PlaceBy
  <2> QED BY <2>3, <2>4, <2>5
<1>10. T = {}
  <2>1. T \subseteq Nat
      BY <1>2
  <2> HIDE DEF T
  <2> QED BY <1>9, <2>1, Least
<1>11. chosen \in [Made -> Seq(SegNames)]
    BY <1>7, <1>10
<1>12. {1, 3, 4} \subseteq Made
    BY <1>2
<1> QED BY <1>1, <1>8, <1>11, <1>12 DEF Placed, PlaceBy

LEMMA PlacesThereAfter == OnlyMains' => Placed'
BY PlacesThere, PTL

(* No two nodes have one place, but for main's mount point and its root. *)
OneAtEach == \A a, b \in Made \ {3} : PlaceOf[a] = PlaceOf[b] => a = b

LEMMA OneThere == OnlyMains => OneAtEach
<1> SUFFICES ASSUME OnlyMains PROVE OneAtEach
    OBVIOUS
<1> DEFINE At(node) == IF node = 4 THEN 3 ELSE node
           T == {a \in Made \ {3} : \E b \in Made \ {3} : b < a /\ PlaceOf[a] = PlaceOf[b]}
<1>1. /\ made \in Nat /\ made >= 4 /\ Made = 1 .. made
      /\ \A node \in Made \ {1, 4} : parent[node] \in 1 .. node - 1 /\ name[node] \in SegNames
    BY OlderParents
<1>2. Placed
    BY PlacesThere
<1>3. /\ UniqueNames /\ flags[3] = "MOUNTPOINT" /\ parent[3] = 1
      /\ \A node \in Made \ {1, 4} : /\ flags[parent[node]] = "DIRECTORY"
                                     /\ node \in ToSet(children[parent[node]])
    BY DEF OnlyMains, IInv, TreeInv, Listing, MainsNodes
<1>4. ASSUME NEW node \in Made \ {1, 3}
      PROVE  /\ At(node) \in Made \ {1, 4}
             /\ parent[At(node)] \in Made \ {3} /\ parent[At(node)] < node
             /\ PlaceOf[node] = Append(PlaceOf[parent[At(node)]], name[At(node)])
  <2>1. At(node) \in Made \ {1, 4} /\ At(node) <= node
      BY <1>1
  <2>2. PlaceOf[node] = PlaceOf[At(node)]
      BY <1>2 DEF Placed
  <2> HIDE DEF At
  <2>3. parent[At(node)] \in 1 .. At(node) - 1 /\ flags[parent[At(node)]] = "DIRECTORY"
      BY <1>1, <1>3, <2>1
  <2>4. parent[At(node)] # 3
      BY <1>3, <2>3
  <2>5. parent[At(node)] \in Made \ {3} /\ parent[At(node)] < node
    <3>1. At(node) \in Nat /\ At(node) <= made /\ node \in Nat
        BY <1>1, <2>1
    <3> QED BY <1>1, <2>1, <2>3, <2>4, <3>1
  <2>6. PlaceOf[At(node)] = Append(PlaceOf[parent[At(node)]], name[At(node)])
      BY <1>2, <2>1 DEF Placed
  <2> QED BY <2>1, <2>2, <2>5, <2>6
<1>5. ASSUME NEW a \in T, \A j \in T : a <= j PROVE FALSE
  <2>1. PICK b \in Made \ {3} : b < a /\ PlaceOf[a] = PlaceOf[b]
      OBVIOUS
  <2>2. a \in Made \ {1, 3}
      BY <1>1, <2>1
  <2>3. b # 1
    <3>1. /\ PlaceOf[a] = Append(PlaceOf[parent[At(a)]], name[At(a)])
          /\ PlaceOf[parent[At(a)]] \in Seq(SegNames) /\ name[At(a)] \in SegNames
        BY <1>1, <1>2, <1>4, <2>2 DEF Placed
    <3> HIDE DEF At
    <3>2. Len(PlaceOf[a]) # 0
        BY <3>1, AppendProperties
    <3> QED BY <1>2, <2>1, <3>2 DEF Placed
  <2> DEFINE up == parent[At(a)]
             along == parent[At(b)]
  <2>4. /\ At(a) \in Made \ {1, 4} /\ up \in Made \ {3} /\ up < a
        /\ PlaceOf[a] = Append(PlaceOf[up], name[At(a)])
      BY <1>4, <2>2
  <2>5. /\ At(b) \in Made \ {1, 4} /\ along \in Made \ {3} /\ along < b
        /\ PlaceOf[b] = Append(PlaceOf[along], name[At(b)])
      BY <1>4, <2>1, <2>3
  <2>6. At(a) # At(b)
    <3>1. a # b /\ a # 3 /\ b # 3
        BY <1>1, <2>1, <2>2
    <3> QED BY <3>1
  <2> HIDE DEF At
  <2>7. PlaceOf[up] = PlaceOf[along] /\ name[At(a)] = name[At(b)]
    <3>1. /\ PlaceOf[up] \in Seq(SegNames) /\ PlaceOf[along] \in Seq(SegNames)
          /\ name[At(a)] \in SegNames /\ name[At(b)] \in SegNames
        BY <1>1, <1>2, <2>4, <2>5 DEF Placed
    <3> DEFINE p == PlaceOf[up]
               q == PlaceOf[along]
    <3>2. Append(p, name[At(a)]) = Append(q, name[At(b)])
        BY <2>1, <2>4, <2>5
    <3>3. p \in Seq(SegNames) /\ q \in Seq(SegNames)
        BY <3>1
    <3> DEFINE m == name[At(a)]
               n == name[At(b)]
    <3>4. m \in SegNames /\ n \in SegNames /\ Append(p, m) = Append(q, n)
        BY <3>1, <3>2
    <3> HIDE DEF p, q, m, n
    <3>5. p = q /\ m = n
        BY <3>3, <3>4, AppendInjective
    <3> QED BY <3>5 DEF p, q, m, n
  <2>8. up = along
    <3>1. up \in Nat /\ along \in Nat /\ a \in Nat /\ b \in Nat /\ b < a
        BY <1>1, <2>1, <2>2, <2>4, <2>5
    <3>2. CASE up < along
      <4>1. along \in T
          BY <2>4, <2>5, <2>7, <3>2
      <4> HIDE DEF T, up, along
      <4> QED BY <1>5, <2>5, <3>1, <4>1
    <3>3. CASE along < up
      <4>1. up \in T
          BY <2>4, <2>5, <2>7, <3>3
      <4> HIDE DEF T, up, along
      <4> QED BY <1>5, <2>4, <3>1, <4>1
    <3> HIDE DEF up, along
    <3> QED BY <3>1, <3>2, <3>3
  <2>9. At(a) \in ToSet(children[up]) /\ At(b) \in ToSet(children[up])
      BY <1>3, <2>4, <2>5, <2>8
  <2>10. PICK i, j \in DOMAIN children[up] : children[up][i] = At(a) /\ children[up][j] = At(b)
    <3> HIDE DEF up
    <3> QED BY <2>9 DEF ToSet
  <2>11. i = j
    <3> HIDE DEF up
    <3> QED BY <1>3, <2>4, <2>7, <2>10 DEF UniqueNames
  <2> QED BY <2>6, <2>10, <2>11
<1>6. T = {}
  <2>1. T \subseteq Nat
      BY <1>1
  <2> HIDE DEF T
  <2> QED BY <1>5, <2>1, Least
<1>7. \A a, b \in Made \ {3} : a < b \/ b < a \/ a = b
    BY <1>1
<1> QED BY <1>6, <1>7 DEF OneAtEach

(* The nodes a path can lead to, and the place that is expected for them.  *)
Ends == (Made \ {3}) \cup {Null}
PlaceAt(node) == IF node = Null THEN Tree!NotFound ELSE PlaceOf[node]

(* The places of the tree are those of the nodes. *)
PlacesAreNodes ==
    /\ \A node \in Made \ {3} : /\ PlaceOf[node] \in Kind("DIRECTORY") <=> flags[node] = "DIRECTORY"
                                /\ PlaceOf[node] \in Kind("DIRECTORY") \cup Kind("FILE")
                                /\ PlaceOf[node] # Tree!NotFound
    /\ \A place \in Kind("DIRECTORY") \cup Kind("FILE") :
          \E node \in Made \ {3} : place = PlaceOf[node]

LEMMA NodesPlaced == OnlyMains => PlacesAreNodes
<1> SUFFICES ASSUME OnlyMains PROVE PlacesAreNodes
    OBVIOUS
<1>1. /\ flags \in [Made -> {"FILE", "DIRECTORY", "MOUNTPOINT"}]
      /\ flags[3] = "MOUNTPOINT"
      /\ \A node \in Made : flags[node] = "MOUNTPOINT" => node = 3
    BY DEF OnlyMains, IInv, TypeOK, TreeInv
<1>2. OneAtEach /\ Placed
    BY OneThere, PlacesThere
<1>3. \A node \in Made \ {3} : PlaceOf[node] \in Kind("DIRECTORY") <=> flags[node] = "DIRECTORY"
    BY <1>1, <1>2 DEF Kind, OneAtEach
<1>4. \A node \in Made \ {3} : PlaceOf[node] \in Kind("DIRECTORY") \cup Kind("FILE")
    BY <1>1 DEF Kind
<1>5. \A place \in Kind("DIRECTORY") \cup Kind("FILE") : \E node \in Made \ {3} : place = PlaceOf[node]
    BY <1>1 DEF Kind
<1>6. ASSUME NEW node \in Made, PlaceOf[node] = Tree!NotFound PROVE FALSE
  <2>1. PlaceOf[node] \in Seq(SegNames) /\ PlaceOf[node] = <<"/">>
      BY <1>2, <1>6 DEF Placed, Tree!NotFound
  <2>2. 1 \in 1 .. Len(<<"/">>) /\ <<"/">>[1] = "/"
      OBVIOUS
  <2>3. "/" \in SegNames
      BY <2>1, <2>2, ElementOfSeq
  <2> QED BY <2>3, NamesAssumption DEF SegNames, OddNames, Slash
<1> QED BY <1>3, <1>4, <1>5, <1>6 DEF PlacesAreNodes

(* An entry of a directory is at the directory's place and its name, and   *)
(* where there is no entry there is no place.                              *)
LEMMA ChildPlaced ==
    ASSUME OnlyMains, NEW node \in Made \ {3}, flags[node] = "DIRECTORY", NEW seg \in SegNames
    PROVE  IF lookup(node, seg) = Null
           THEN Append(PlaceOf[node], seg) \notin Kind("DIRECTORY") \cup Kind("FILE")
           ELSE /\ ThroughMount(lookup(node, seg)) \in Made \ {3}
                /\ PlaceOf[ThroughMount(lookup(node, seg))] = Append(PlaceOf[node], seg)
<1>1. /\ TypeOK /\ made \in Nat /\ made >= 4 /\ Made = 1 .. made /\ Null \notin Made
      /\ \A n \in Made \ {1, 4} : parent[n] \in 1 .. n - 1 /\ name[n] \in SegNames
    BY OlderParents, MadeNodes DEF OnlyMains, IInv
<1>2. /\ OneAtEach /\ Placed /\ PlacesAreNodes
    BY OneThere, PlacesThere, NodesPlaced
<1>3. /\ Listing /\ MainsNodes /\ flags[3] = "MOUNTPOINT"
      /\ \A n \in Made : flags[n] = "MOUNTPOINT" => n = 3
    BY DEF OnlyMains, TreeInv
<1> DEFINE found == lookup(node, seg)
<1>4. CASE found # Null
  <2>1. found \in Made /\ found \in ToSet(children[node]) /\ name[found] = seg
      BY <1>1, <1>4, Looked
  <2> HIDE DEF found
  <2>2. parent[found] = node
      BY <1>3, <2>1 DEF Listing
  <2>3. found \notin {1, 4}
      BY <1>1, <1>3, <2>2 DEF MainsNodes
  <2>4. PlaceOf[found] = Append(PlaceOf[node], seg)
      BY <1>2, <2>1, <2>2, <2>3 DEF Placed
  <2>5. CASE found = 3
    <3>1. ThroughMount(found) = 4
        BY <1>1, <1>3, <2>5 DEF ThroughMount, MainsNodes
    <3>2. PlaceOf[4] = PlaceOf[found] /\ 4 \in Made \ {3}
        BY <1>1, <1>2, <2>5 DEF Placed
    <3> QED BY <1>4, <2>4, <3>1, <3>2 DEF found
  <2>6. CASE found # 3
    <3>1. ThroughMount(found) = found
        BY <1>3, <2>1, <2>6 DEF ThroughMount
    <3> QED BY <1>4, <2>1, <2>4, <2>6, <3>1 DEF found
  <2> QED BY <2>5, <2>6
<1>5. CASE found = Null
  <2> SUFFICES ASSUME Append(PlaceOf[node], seg) \in Kind("DIRECTORY") \cup Kind("FILE")
               PROVE FALSE
      BY <1>5
  <2>1. PICK there \in Made \ {3} : Append(PlaceOf[node], seg) = PlaceOf[there]
      BY <1>2 DEF PlacesAreNodes
  <2> DEFINE at == IF there = 4 THEN 3 ELSE there
  <2>2. PlaceOf[node] \in Seq(SegNames) /\ PlaceOf[there] = PlaceOf[at]
      BY <1>2, <2>1 DEF Placed
  <2>3. at \in Made \ {1, 4}
    <3>1. Len(PlaceOf[there]) # 0
        BY <2>1, <2>2, AppendProperties
    <3>2. there # 1
        BY <1>2, <3>1 DEF Placed
    <3> QED BY <1>1, <2>1, <3>2
  <2> HIDE DEF at
  <2> DEFINE up == parent[at]
  <2>4. /\ up \in Made /\ flags[up] = "DIRECTORY" /\ up # 3
        /\ at \in ToSet(children[up]) /\ name[at] \in SegNames
        /\ PlaceOf[at] = Append(PlaceOf[up], name[at])
      BY <1>2, <1>3, <2>3 DEF Listing, Placed, SegNames
  <2>5. PlaceOf[up] \in Seq(SegNames)
      BY <1>2, <2>4 DEF Placed
  <2>6. PlaceOf[up] = PlaceOf[node] /\ name[at] = seg
    <3> DEFINE p == PlaceOf[node]
               q == PlaceOf[up]
               n == name[at]
    <3>1. p \in Seq(SegNames) /\ q \in Seq(SegNames) /\ n \in SegNames /\ Append(q, n) = Append(p, seg)
        BY <2>1, <2>2, <2>4, <2>5
    <3> HIDE DEF p, q, n
    <3>2. q = p /\ n = seg
        BY <3>1, AppendInjective
    <3> QED BY <3>2 DEF p, q, n
  <2>7. up = node
    <3> HIDE DEF up
    <3> QED BY <1>2, <2>4, <2>6 DEF OneAtEach
  <2>8. at \in ToSet(children[node])
      BY <2>4, <2>7
  <2>9. children[node] \in Seq(Made)
      BY <1>1, MadeNodes
  <2>10. PICK i \in 1 .. Len(children[node]) : children[node][i] = at
      BY <2>8, <2>9, Lists
  <2>11. lookup(node, seg) \notin Made
      BY <1>1, <1>5
  <2> QED BY <1>1, <2>6, <2>10, <2>11, Looked
<1> QED BY <1>4, <1>5

(* Going up: what is left of the place without its last name. *)
LEMMA AbovePlaced ==
    ASSUME OnlyMains, NEW node \in Made \ {3}
    PROVE  /\ Above(node) \in Made \ {3}
           /\ IF PlaceOf[node] = <<>> THEN Above(node) = node
                                      ELSE PlaceOf[Above(node)] = Front(PlaceOf[node])
<1>1. /\ TypeOK /\ made \in Nat /\ made >= 4 /\ Made = 1 .. made /\ Null \notin Made
      /\ \A n \in Made \ {1, 4} : parent[n] \in 1 .. n - 1 /\ name[n] \in SegNames
    BY OlderParents, MadeNodes DEF OnlyMains, IInv
<1>2. Placed
    BY PlacesThere
<1>3. /\ Listing /\ MainsNodes /\ flags[3] = "MOUNTPOINT"
    BY DEF OnlyMains, TreeInv
<1>4. ASSUME NEW up \in Made, NEW seg \in SegNames, PlaceOf[node] = Append(PlaceOf[up], seg)
      PROVE  PlaceOf[node] # <<>> /\ Front(PlaceOf[node]) = PlaceOf[up]
  <2> DEFINE p == PlaceOf[up]
  <2>1. p \in Seq(SegNames) /\ PlaceOf[node] = Append(p, seg)
      BY <1>2, <1>4 DEF Placed
  <2> HIDE DEF p
  <2>2. /\ Append(p, seg) \in Seq(SegNames) /\ Len(Append(p, seg)) = Len(p) + 1 /\ Len(p) \in Nat
        /\ \A i \in 1 .. Len(p) : Append(p, seg)[i] = p[i]
      BY <2>1, AppendProperties, LenProperties
  <2>3. Append(p, seg) # <<>>
      BY <2>2
  <2>4. Front(Append(p, seg)) = p
    <3>1. Front(Append(p, seg)) = [i \in 1 .. Len(p) |-> p[i]]
        BY <2>2 DEF Front
    <3>2. p = [i \in 1 .. Len(p) |-> p[i]]
        BY <2>1, LenProperties
    <3> QED BY <3>1, <3>2
  <2> QED BY <2>1, <2>3, <2>4 DEF p
<1>5. CASE node = 1
  <2>1. Above(node) = node
      BY <1>3, <1>5 DEF Above, MainsNodes
  <2> QED BY <1>2, <1>5, <2>1 DEF Placed
<1>6. CASE node = 4
  <2>1. Above(node) = 1
      BY <1>1, <1>3, <1>6 DEF Above, MainsNodes
  <2>2. 3 \in Made \ {1, 4} /\ parent[3] = 1
      BY <1>1, <1>3 DEF MainsNodes
  <2>3. PlaceOf[3] = Append(PlaceOf[parent[3]], name[3]) /\ name[3] \in SegNames
      BY <1>1, <1>2, <2>2 DEF Placed
  <2>4. PlaceOf[node] = Append(PlaceOf[1], name[3])
      BY <1>2, <1>6, <2>2, <2>3 DEF Placed
  <2>5. 1 \in Made \ {3} /\ name[3] \in SegNames
      BY <1>1, <2>3
  <2>6. PlaceOf[node] # <<>> /\ Front(PlaceOf[node]) = PlaceOf[1]
      BY <1>4, <2>4, <2>5
  <2> QED BY <2>1, <2>5, <2>6
<1>7. CASE node \notin {1, 4}
  <2>1. /\ parent[node] \in Made /\ flags[parent[node]] = "DIRECTORY" /\ name[node] \in SegNames
        /\ PlaceOf[node] = Append(PlaceOf[parent[node]], name[node])
      BY <1>1, <1>2, <1>3, <1>7 DEF Placed, Listing
  <2>2. Above(node) = parent[node]
      BY <1>1, <2>1 DEF Above
  <2>3. parent[node] # 3
      BY <1>3, <2>1
  <2>4. PlaceOf[node] # <<>> /\ Front(PlaceOf[node]) = PlaceOf[parent[node]]
      BY <1>4, <2>1
  <2> QED BY <2>1, <2>2, <2>3, <2>4
<1> QED BY <1>5, <1>6, <1>7

Dotted == Names \cup {".", ".."}

(* A turn of the loop follows the place. *)
LEMMA FollowsPlace ==
    ASSUME OnlyMains, NEW node \in Ends, NEW seg \in Dotted
    PROVE  /\ Follow(node, seg) \in Ends
           /\ Tree!Step(PlaceAt(node), seg) = PlaceAt(Follow(node, seg))
<1>1. /\ PlacesAreNodes /\ Placed /\ OnlyMainsMount
      /\ Null \notin Made /\ seg \in SegNames
    BY NodesPlaced, PlacesThere, MadeNodes DEF OnlyMains, IInv, SegNames, Dotted, OddNames
<1> DEFINE place == PlaceAt(node)
<1>2. Tree!Step(place, seg) =
          IF place \notin Kind("DIRECTORY") THEN place
          ELSE IF seg = "." \/ (seg = ".." /\ place = <<>>) THEN place
          ELSE IF seg = ".." THEN Front(place)
          ELSE IF Append(place, seg) \in Kind("DIRECTORY") \cup Kind("FILE") THEN Append(place, seg)
          ELSE Tree!NotFound
    BY <1>1 DEF Tree!Step, Tree!Front, Front
<1>3. CASE ~ IsDirectory(node)
  <2>1. Follow(node, seg) = node
      BY <1>3 DEF Follow
  <2>2. place \notin Kind("DIRECTORY")
    <3>1. CASE node = Null
      <4>1. place = Tree!NotFound
          BY <3>1 DEF PlaceAt
      <4> HIDE DEF place
      <4> QED BY <1>1, <4>1 DEF PlacesAreNodes
    <3>2. CASE node # Null
      <4>1. node \in Made \ {3} /\ place = PlaceOf[node] /\ flags[node] # "DIRECTORY"
          BY <1>3, <3>2 DEF Ends, PlaceAt, IsDirectory
      <4> HIDE DEF place
      <4> QED BY <1>1, <4>1 DEF PlacesAreNodes
    <3> QED BY <3>1, <3>2
  <2> QED BY <1>2, <2>1, <2>2
<1>4. CASE IsDirectory(node)
  <2>1. node \in Made \ {3} /\ flags[node] = "DIRECTORY" /\ place = PlaceOf[node]
      BY <1>4 DEF IsDirectory, Ends, PlaceAt
  <2>2. place \in Kind("DIRECTORY")
      BY <1>1, <2>1 DEF PlacesAreNodes
  <2>3. Follow(node, seg) = IF seg = "." THEN node ELSE IF seg = ".." THEN Above(node)
                            ELSE ThroughMount(lookup(node, seg))
      BY <1>4 DEF Follow
  <2>4. CASE seg = "."
      BY <1>2, <2>2, <2>3, <2>4
  <2>5. CASE seg = ".."
    <3>1. /\ Above(node) \in Made \ {3}
          /\ IF PlaceOf[node] = <<>> THEN Above(node) = node
                                     ELSE PlaceOf[Above(node)] = Front(PlaceOf[node])
        BY <2>1, AbovePlaced
    <3>2. PlaceAt(Above(node)) = PlaceOf[Above(node)] /\ Above(node) \in Ends
        BY <1>1, <3>1 DEF PlaceAt, Ends
    <3> HIDE DEF place
    <3> QED BY <1>2, <2>1, <2>2, <2>3, <2>5, <3>1, <3>2 DEF place
  <2>6. CASE seg \notin {".", ".."}
    <3>1. IF lookup(node, seg) = Null
          THEN Append(PlaceOf[node], seg) \notin Kind("DIRECTORY") \cup Kind("FILE")
          ELSE /\ ThroughMount(lookup(node, seg)) \in Made \ {3}
               /\ PlaceOf[ThroughMount(lookup(node, seg))] = Append(PlaceOf[node], seg)
        BY <1>1, <2>1, ChildPlaced
    <3>2. CASE lookup(node, seg) = Null
      <4>1. Follow(node, seg) = Null
          BY <2>3, <2>6, <3>2 DEF ThroughMount
      <4> HIDE DEF place
      <4>2. Tree!Step(place, seg) = Tree!NotFound
          BY <1>2, <2>1, <2>2, <2>6, <3>1, <3>2
      <4> QED BY <4>1, <4>2 DEF PlaceAt, Ends, place
    <3>3. CASE lookup(node, seg) # Null
      <4> DEFINE found == ThroughMount(lookup(node, seg))
      <4>1. Follow(node, seg) = found /\ found \in Made \ {3} /\ PlaceOf[found] = Append(place, seg)
          BY <2>1, <2>3, <2>6, <3>1, <3>3
      <4> HIDE DEF found, place
      <4>2. PlaceOf[found] \in Kind("DIRECTORY") \cup Kind("FILE")
          BY <1>1, <4>1 DEF PlacesAreNodes
      <4>3. Tree!Step(place, seg) = PlaceOf[found]
          BY <1>2, <2>2, <2>6, <4>1, <4>2
      <4>4. found # Null
          BY <1>1, <4>1
      <4> QED BY <4>1, <4>3, <4>4 DEF PlaceAt, Ends, place
    <3> QED BY <3>2, <3>3
  <2> QED BY <2>4, <2>5, <2>6
<1> QED BY <1>3, <1>4

(* A way leads to the node whose place the path names. *)
LEMMA SamePlaces ==
    ASSUME OnlyMains, NEW way \in WaysThere, way.segs \in Seq(Dotted),
           NEW p, p.absolute = way.absolute, p.segs = way.segs
    PROVE  /\ vfs_resolve_path(way) \in Ends
           /\ Tree!PlaceOf(p) = PlaceAt(vfs_resolve_path(way))
<1> DEFINE n == Len(way.segs)
           turns == Turns(way)
           first == IF way.absolute THEN <<>> ELSE PlaceOf[cwd]
           Body(f) == [i \in 0 .. n |-> IF i = 0 THEN first ELSE Tree!Step(f[i - 1], way.segs[i])]
           steps == CHOOSE f : f = Body(f)
           expected == [i \in 0 .. n |-> PlaceAt(turns[i])]
           T == {i \in 0 .. n : turns[i] \notin Ends}
<1>1. n \in Nat /\ \A i \in 1 .. n : way.segs[i] \in Dotted
    BY LenProperties
<1>2. TypeOK /\ OnlyMainsMount /\ Placed /\ Null \notin Made
    BY MadeNodes, PlacesThere DEF OnlyMains, IInv
<1>3. Tree!Steps(p) = steps /\ Tree!PlaceOf(p) = steps[n] /\ vfs_resolve_path(way) = turns[n]
  <2>1. Tree!Steps(p) = steps
      BY <1>2 DEF Tree!Steps
  <2> HIDE DEF steps
  <2> QED BY <2>1 DEF Tree!PlaceOf, vfs_resolve_path
<1>4. GoOn(turns, StartOf(way), way.segs, n)
    BY <1>2, TurnsThere DEF TurnsGoOn
<1>5. turns[0] \in Ends /\ PlaceAt(turns[0]) = first
  <2>1. turns[0] = StartOf(way)
      BY <1>4 DEF GoOn
  <2>2. cwd \in Made \ {3} /\ 1 \in Made \ {3}
    <3>1. flags[cwd] = "DIRECTORY" /\ flags[3] = "MOUNTPOINT" /\ cwd \in Made
        BY <1>2, MadeNodes DEF OnlyMains, TreeInv
    <3>2. 1 \in Made
        BY OlderParents
    <3> QED BY <3>1, <3>2
  <2> HIDE DEF turns
  <2>3. StartOf(way) \in Made \ {3} /\ PlaceOf[StartOf(way)] = first
      BY <1>2, <2>2 DEF StartOf, fs_root, Placed
  <2> HIDE DEF first
  <2> QED BY <1>2, <2>1, <2>3 DEF Ends, PlaceAt
<1> HIDE DEF turns, first
<1>6. ASSUME NEW i \in 1 .. n, turns[i - 1] \in Ends
      PROVE  turns[i] \in Ends /\ Tree!Step(PlaceAt(turns[i - 1]), way.segs[i]) = PlaceAt(turns[i])
  <2>1. turns[i] = Follow(turns[i - 1], way.segs[i])
      BY <1>4 DEF GoOn
  <2>2. way.segs[i] \in Dotted
      BY <1>1
  <2> QED BY <1>6, <2>1, <2>2, FollowsPlace
<1>7. ASSUME NEW i \in T, \A j \in T : i <= j PROVE FALSE
  <2>1. i \in 0 .. n /\ turns[i] \notin Ends
      OBVIOUS
  <2>2. i # 0
      BY <1>5, <2>1
  <2>3. i \in 1 .. n /\ i - 1 \in 0 .. n /\ i - 1 < i
      BY <1>1, <2>1, <2>2
  <2>4. i - 1 \notin T
    <3> HIDE DEF T
    <3> QED BY <1>7, <2>3
  <2>5. turns[i - 1] \in Ends
      BY <2>3, <2>4
  <2> QED BY <1>6, <2>1, <2>3, <2>5
<1>8. T = {}
  <2>1. T \subseteq Nat
      BY <1>1
  <2> HIDE DEF T
  <2> QED BY <1>7, <2>1, Least
<1>9. \A i \in 0 .. n : turns[i] \in Ends
    BY <1>8
<1> HIDE DEF T
<1>10. expected = Body(expected)
  <2>1. ASSUME NEW i \in 0 .. n
        PROVE  expected[i] = IF i = 0 THEN first ELSE Tree!Step(expected[i - 1], way.segs[i])
    <3>1. CASE i = 0
        BY <1>1, <1>5, <3>1
    <3>2. CASE i # 0
      <4>1. i \in 1 .. n /\ i - 1 \in 0 .. n
          BY <1>1, <3>2
      <4>2. expected[i] = PlaceAt(turns[i]) /\ expected[i - 1] = PlaceAt(turns[i - 1])
          BY <4>1
      <4>3. Tree!Step(PlaceAt(turns[i - 1]), way.segs[i]) = PlaceAt(turns[i])
          BY <1>6, <1>9, <4>1
      <4> HIDE DEF expected
      <4> QED BY <3>2, <4>2, <4>3
    <3> QED BY <3>1, <3>2
  <2>2. expected = [i \in 0 .. n |-> expected[i]]
      OBVIOUS
  <2> HIDE DEF expected
  <2> QED BY <2>1, <2>2
<1>11. steps = Body(steps)
  <2> HIDE DEF Body, expected
  <2> QED BY <1>10
<1> HIDE DEF steps
<1>12. /\ \A i \in 0 .. n : steps[i] = IF i = 0 THEN first ELSE Tree!Step(steps[i - 1], way.segs[i])
       /\ \A i \in 0 .. n : expected[i] = IF i = 0 THEN first ELSE Tree!Step(expected[i - 1], way.segs[i])
  <2> HIDE DEF expected
  <2>1. \A i \in 0 .. n : steps[i] = Body(steps)[i]
      BY <1>11
  <2>2. \A i \in 0 .. n : expected[i] = Body(expected)[i]
      BY <1>10
  <2> QED BY <2>1, <2>2
<1> HIDE DEF Body, expected
<1>13. \A i \in 0 .. n : steps[i] = expected[i]
  <2>1. 0 \in 0 .. n /\ \A i \in 1 .. n : i \in 0 .. n /\ i # 0
      BY <1>1
  <2>2. GoAlike(steps, expected, n)
      BY <1>12, <2>1 DEF GoAlike
  <2> HIDE DEF n
  <2> QED BY <1>1, <2>2, IteratesAlike
<1>14. steps[n] = expected[n] /\ expected[n] = PlaceAt(turns[n])
  <2>1. n \in 0 .. n
      BY <1>1
  <2>2. steps[n] = expected[n]
    <3> HIDE DEF expected
    <3> QED BY <1>13, <2>1
  <2>3. expected[n] = PlaceAt(turns[n])
      BY <2>1 DEF expected
  <2> QED BY <2>2, <2>3
<1>15. turns[n] \in Ends
    BY <1>1, <1>9
<1> QED BY <1>3, <1>14, <1>15

(* A node is found at its place. *)
LEMMA FoundAtPlace == ASSUME OnlyMains, NEW node \in Ends PROVE NodeAt(PlaceAt(node)) = node
<1>1. /\ OneAtEach /\ PlacesAreNodes /\ Null \notin Made
      /\ \A n \in Made : flags[n] = "MOUNTPOINT" <=> n = 3
    BY OneThere, NodesPlaced, MadeNodes DEF OnlyMains, IInv, TreeInv, Made
<1>2. CASE node = Null
    BY <1>2 DEF PlaceAt, NodeAt
<1>3. CASE node \in Made \ {3}
  <2>1. PlaceAt(node) = PlaceOf[node] /\ PlaceOf[node] # Tree!NotFound
      BY <1>1, <1>3 DEF PlaceAt, PlacesAreNodes
  <2> DEFINE Is(n) == n \in Made /\ flags[n] # "MOUNTPOINT" /\ PlaceOf[n] = PlaceOf[node]
  <2>2. NodeAt(PlaceAt(node)) = CHOOSE n \in Made : flags[n] # "MOUNTPOINT" /\ PlaceOf[n] = PlaceOf[node]
      BY <2>1 DEF NodeAt
  <2>3. \A n \in Made : flags[n] # "MOUNTPOINT" /\ PlaceOf[n] = PlaceOf[node] <=> n = node
      BY <1>1, <1>3 DEF OneAtEach
  <2> QED BY <1>3, <2>2, <2>3
<1> QED BY <1>2, <1>3 DEF Ends

-----------------------------------------------------------------------------
(* Names on paths. *)

(* The names on a path, up to each of its tokens. *)
NamedUpto(path, upto) ==
    /\ upto[0] = <<>>
    /\ \A k \in 1 .. Len(path) : upto[k] = IF path[k] = Slash THEN upto[k - 1]
                                           ELSE Append(upto[k - 1], path[k])

LEMMA NamedThere ==
    ASSUME NEW path \in Seq(Tokens)
    PROVE  \E upto \in [0 .. Len(path) -> Seq(Dotted)] :
              NamedUpto(path, upto) /\ Named(path) = upto[Len(path)]
<1> DEFINE n == Len(path)
           Body(f) == [k \in 0 .. n |-> IF k = 0 THEN <<>>
                                        ELSE IF path[k] = Slash THEN f[k - 1]
                                        ELSE Append(f[k - 1], path[k])]
           chosen == CHOOSE f : f = Body(f)
           step == [k \in 1 .. n |-> [s \in Seq(Dotted) |-> IF path[k] = Slash THEN s ELSE Append(s, path[k])]]
<1>1. n \in Nat /\ \A k \in 1 .. n : path[k] \in Tokens
    BY LenProperties
<1>2. Named(path) = chosen[n]
    BY DEF Named
<1>3. step \in [1 .. n -> [Seq(Dotted) -> Seq(Dotted)]]
  <2>1. ASSUME NEW k \in 1 .. n, NEW s \in Seq(Dotted), path[k] # Slash PROVE Append(s, path[k]) \in Seq(Dotted)
    <3>1. path[k] \in Dotted
        BY <1>1, <2>1 DEF Tokens, Dotted
    <3> QED BY <3>1, AppendProperties
  <2> QED BY <2>1
<1>4. \A k \in 1 .. n : \A s \in Seq(Dotted) : step[k][s] = IF path[k] = Slash THEN s ELSE Append(s, path[k])
    OBVIOUS
<1> HIDE DEF step
<1>5. PICK f \in [0 .. n -> Seq(Dotted)] : Iterated(f, <<>>, step, n)
  <2>1. <<>> \in Seq(Dotted)
      OBVIOUS
  <2> HIDE DEF n
  <2> QED BY <1>1, <1>3, <2>1, Iterates
<1>6. NamedUpto(path, f)
  <2>1. \A k \in 1 .. n : k - 1 \in 0 .. n
      BY <1>1
  <2> QED BY <1>4, <1>5, <2>1 DEF NamedUpto, Iterated
<1>7. f = Body(f)
  <2>1. \A k \in 0 .. n : f[k] = IF k = 0 THEN <<>> ELSE IF path[k] = Slash THEN f[k - 1] ELSE Append(f[k - 1], path[k])
    <3>1. \A k \in 0 .. n : k # 0 => k \in 1 .. n
        BY <1>1
    <3> QED BY <1>6, <3>1 DEF NamedUpto
  <2>2. f = [k \in 0 .. n |-> f[k]]
      OBVIOUS
  <2> QED BY <2>1, <2>2
<1>8. chosen = Body(chosen)
  <2> HIDE DEF Body
  <2> QED BY <1>7
<1> HIDE DEF chosen
<1>9. NamedUpto(path, chosen)
  <2>1. \A k \in 0 .. n : chosen[k] = Body(chosen)[k]
      BY <1>8
  <2>2. 0 \in 0 .. n /\ \A k \in 1 .. n : k \in 0 .. n /\ k # 0
      BY <1>1
  <2> QED BY <2>1, <2>2 DEF NamedUpto
<1>10. chosen[n] = f[n]
  <2> HIDE DEF Body
  <2>1. GoAlike(chosen, f, n)
      BY <1>6, <1>9 DEF NamedUpto, GoAlike
  <2>2. \A k \in 0 .. n : chosen[k] = f[k]
    <3> HIDE DEF n
    <3> QED BY <1>1, <2>1, IteratesAlike
  <2> QED BY <1>1, <2>2
<1> QED BY <1>2, <1>6, <1>10

(* No name is added by slashes. *)
LEMMA SlashesAddNone ==
    ASSUME NEW path \in Seq(Tokens), NEW upto, NamedUpto(path, upto),
           NEW p \in 1 .. Len(path) + 1, NEW q \in p .. Len(path) + 1,
           \A r \in p .. q - 1 : path[r] = Slash
    PROVE  upto[q - 1] = upto[p - 1]
<1> DEFINE T == {r \in p - 1 .. q - 1 : upto[r] # upto[p - 1]}
<1>1. Len(path) \in Nat
    BY LenProperties
<1>2. ASSUME NEW r \in T, \A s \in T : r <= s PROVE FALSE
  <2>1. r \in p - 1 .. q - 1 /\ upto[r] # upto[p - 1]
      OBVIOUS
  <2>2. r \in p .. q - 1 /\ r - 1 \in p - 1 .. q - 1 /\ r - 1 < r /\ r \in 1 .. Len(path)
      BY <1>1, <2>1
  <2>3. r - 1 \notin T
    <3> HIDE DEF T
    <3> QED BY <1>2, <2>1, <2>2
  <2>4. upto[r - 1] = upto[p - 1]
      BY <2>2, <2>3
  <2> QED BY <2>1, <2>2, <2>4 DEF NamedUpto
<1>3. T = {}
  <2>1. T \subseteq Nat
      BY <1>1
  <2> HIDE DEF T
  <2> QED BY <1>2, <2>1, Least
<1>4. q - 1 \in p - 1 .. q - 1
    BY <1>1
<1> QED BY <1>3, <1>4

(* The loop cuts the names from a path. *)
LEMMA SegmentsAreNames ==
    ASSUME NEW path \in Seq(Tokens), Len(path) # 0
    PROVE  Segments(path) = Named(path) /\ Named(path) \in Seq(Dotted)
<1> DEFINE L == Len(path)
           start == IF Absolute(path) THEN SkipSlashes(path, 1) ELSE 1
<1>1. L \in Nat /\ L >= 1 /\ \A k \in 1 .. L : path[k] \in Tokens
    BY LenProperties
<1>2. PICK upto \in [0 .. L -> Seq(Dotted)] : NamedUpto(path, upto) /\ Named(path) = upto[L]
    BY NamedThere
<1>3. PICK from : /\ DOMAIN from = 1 .. L + 1
                  /\ CutFrom(path, from)
                  /\ Segments(path) = from[start]
    BY SegmentsCut
<1> DEFINE Begins(p) == p > L \/ path[p] # Slash
           T == {n \in 0 .. L : Begins(L + 1 - n) /\ upto[L - n] \o from[L + 1 - n] # upto[L]}
<1>4. ASSUME NEW n \in T, \A m \in T : n <= m PROVE FALSE
  <2> DEFINE p == L + 1 - n
             q == SkipSlashes(path, p + 1)
  <2>1. n \in 0 .. L /\ p \in 1 .. L + 1 /\ Begins(p) /\ upto[p - 1] \o from[p] # upto[L]
    <3>1. n \in 0 .. L /\ Begins(L + 1 - n) /\ upto[L - n] \o from[L + 1 - n] # upto[L]
        OBVIOUS
    <3>2. p - 1 = L - n /\ p \in 1 .. L + 1
        BY <1>1, <3>1
    <3> QED BY <3>1, <3>2
  <2>2. from[p] = IF p > L \/ path[p] = Slash THEN <<>> ELSE <<path[p]>> \o from[q]
    <3>1. p \in DOMAIN from
        BY <1>3, <2>1
    <3> HIDE DEF p
    <3> QED BY <1>3, <3>1 DEF CutFrom
  <2>3. p <= L
    <3> SUFFICES ASSUME p > L PROVE FALSE
        BY <1>1, <2>1
    <3>1. p - 1 = L /\ from[p] = <<>>
        BY <1>1, <2>1, <2>2
    <3>2. upto[L] \o <<>> = upto[L]
      <4>1. upto[L] \in Seq(Dotted)
          BY <1>1, <1>2
      <4> QED BY <4>1, ConcatEmptySeq
    <3> HIDE DEF p
    <3> QED BY <2>1, <3>1, <3>2
  <2>4. p \in 1 .. L /\ p + 1 \in 1 .. L + 1 /\ path[p] # Slash
    <3> HIDE DEF p
    <3> QED BY <1>1, <2>1, <2>3
  <2>5. from[p] = <<path[p]>> \o from[q] /\ path[p] \in Dotted
    <3>1. path[p] \in Dotted
      <4> HIDE DEF p
      <4> QED BY <1>1, <2>4 DEF Tokens, Dotted
    <3> HIDE DEF p, q
    <3> QED BY <1>1, <2>2, <2>4, <3>1
  <2>6. q \in p + 1 .. L + 1 /\ Begins(q) /\ \A r \in p + 1 .. q - 1 : path[r] = Slash
    <3> HIDE DEF p
    <3> QED BY <1>1, <2>4, Skips
  <2>7. upto[q - 1] = upto[p]
    <3> DEFINE next == p + 1
    <3>1. next \in 1 .. L + 1 /\ q \in next .. L + 1 /\ \A r \in next .. q - 1 : path[r] = Slash
        BY <2>4, <2>6
    <3>2. next - 1 = p
        BY <2>4
    <3> HIDE DEF next, p, q
    <3>3. upto[q - 1] = upto[next - 1]
        BY <1>2, <3>1, SlashesAddNone
    <3> QED BY <3>2, <3>3
  <2>8. upto[p] = Append(upto[p - 1], path[p]) /\ upto[p - 1] \in Seq(Dotted)
    <3>1. p - 1 \in 0 .. L
        BY <1>1, <2>4
    <3> HIDE DEF p
    <3>2. upto[p] = Append(upto[p - 1], path[p])
        BY <1>2, <2>4 DEF NamedUpto
    <3>3. upto[p - 1] \in Seq(Dotted)
        BY <1>2, <3>1
    <3> QED BY <3>2, <3>3
  <2>9. from[q] \in Seq(Tokens)
    <3> HIDE DEF q
    <3> QED BY <1>1, <1>3, <2>4, <2>6, CutTyped
  <2>10. upto[p - 1] \o from[p] = upto[q - 1] \o from[q]
    <3> DEFINE before == upto[p - 1]
               this == path[p]
               after == from[q]
    <3>1. before \in Seq(Tokens) /\ this \in Tokens /\ after \in Seq(Tokens)
      <4>1. Seq(Dotted) \subseteq Seq(Tokens)
        <5>1. Dotted \subseteq Tokens
            BY DEF Dotted, Tokens
        <5> QED BY <5>1, SeqMonotonic
      <4> HIDE DEF p, q
      <4> QED BY <1>1, <2>4, <2>8, <2>9, <4>1
    <3>2. from[p] = <<this>> \o after /\ upto[q - 1] = Append(before, this)
      <4> HIDE DEF p, q
      <4> QED BY <2>5, <2>7, <2>8
    <3> HIDE DEF before, this, after
    <3>3. Append(before, this) = before \o <<this>> /\ <<this>> \in Seq(Tokens)
        BY <3>1, AppendIsConcat
    <3>4. (before \o <<this>>) \o after = before \o (<<this>> \o after)
        BY <3>1, <3>3, ConcatAssociative
    <3> QED BY <3>2, <3>3, <3>4 DEF before, this, after
  <2>11. L + 1 - q \in 0 .. L /\ L + 1 - q < n /\ L + 1 - (L + 1 - q) = q /\ L - (L + 1 - q) = q - 1
    <3>1. L + 1 - p = n
        BY <1>1, <2>1
    <3> HIDE DEF p, q
    <3> QED BY <1>1, <2>4, <2>6, <3>1
  <2>12. L + 1 - q \notin T
    <3> HIDE DEF p, q, T
    <3> QED BY <1>1, <1>4, <2>1, <2>11
  <2>13. upto[q - 1] \o from[q] = upto[L]
    <3> HIDE DEF q
    <3> QED BY <2>6, <2>11, <2>12
  <2> HIDE DEF p, q
  <2> QED BY <2>1, <2>10, <2>13
<1>5. T = {}
  <2>1. T \subseteq Nat
      BY <1>1
  <2> HIDE DEF T
  <2> QED BY <1>4, <2>1, Least
<1>6. start \in 1 .. L + 1 /\ Begins(start) /\ upto[start - 1] = <<>>
  <2>1. 1 \in 1 .. L + 1 /\ Absolute(path) = (path[1] = Slash) /\ upto[0] = <<>>
      BY <1>1, <1>2 DEF Absolute, NamedUpto
  <2>2. CASE Absolute(path)
    <3>1. start = SkipSlashes(path, 1)
        BY <2>2
    <3> HIDE DEF start
    <3>2. start \in 1 .. L + 1 /\ Begins(start) /\ \A r \in 1 .. start - 1 : path[r] = Slash
        BY <1>1, <2>1, <3>1, Skips
    <3>3. upto[start - 1] = upto[1 - 1]
        BY <1>2, <2>1, <3>2, SlashesAddNone
    <3> QED BY <2>1, <3>2, <3>3
  <2>3. CASE ~ Absolute(path)
    <3>1. start = 1 /\ path[1] # Slash /\ 1 - 1 = 0
        BY <2>1, <2>3
    <3> HIDE DEF start
    <3> QED BY <2>1, <3>1
  <2> QED BY <2>2, <2>3
<1> HIDE DEF start
<1>7. upto[start - 1] \o from[start] = upto[L]
  <2>1. L + 1 - start \in 0 .. L /\ L + 1 - (L + 1 - start) = start /\ L - (L + 1 - start) = start - 1
      BY <1>1, <1>6
  <2> QED BY <1>5, <1>6, <2>1
<1>8. from[start] \in Seq(Tokens)
    BY <1>3, <1>6, CutTyped
<1>9. <<>> \o from[start] = from[start]
    BY <1>8, ConcatEmptySeq
<1> QED BY <1>1, <1>2, <1>3, <1>6, <1>7, <1>9

(* The names on the beginning of a path are the first of its names. *)
LEMMA PrefixNamed ==
    ASSUME NEW path \in Seq(Tokens), NEW dir \in Seq(Tokens), Len(dir) <= Len(path),
           \A k \in 1 .. Len(dir) : dir[k] = path[k], NEW upto, NamedUpto(path, upto)
    PROVE  Named(dir) = upto[Len(dir)]
<1> DEFINE n == Len(dir)
<1>1. n \in Nat /\ Len(path) \in Nat /\ \A k \in 1 .. n : k \in 1 .. Len(path)
    BY LenProperties
<1>2. PICK f \in [0 .. n -> Seq(Dotted)] : NamedUpto(dir, f) /\ Named(dir) = f[n]
    BY NamedThere
<1>3. GoAlike(f, upto, n)
    BY <1>1, <1>2 DEF NamedUpto, GoAlike
<1> HIDE DEF n
<1>4. \A k \in 0 .. n : f[k] = upto[k]
    BY <1>1, <1>3, IteratesAlike
<1> QED BY <1>1, <1>2, <1>4 DEF n

LEMMA AddedLast == ASSUME NEW S, NEW s \in Seq(S), NEW e \in S
                   PROVE  Last(Append(s, e)) = e /\ Front(Append(s, e)) = s /\ Append(s, e) # <<>>
<1>1. /\ Append(s, e) \in Seq(S) /\ Len(Append(s, e)) = Len(s) + 1 /\ Len(s) \in Nat
      /\ Append(s, e)[Len(s) + 1] = e
      /\ \A i \in 1 .. Len(s) : Append(s, e)[i] = s[i]
    BY AppendProperties, LenProperties
<1>2. Front(Append(s, e)) = [i \in 1 .. Len(s) |-> s[i]]
    BY <1>1 DEF Front
<1>3. s = [i \in 1 .. Len(s) |-> s[i]]
    BY LenProperties
<1> QED BY <1>1, <1>2, <1>3 DEF Last

(* A path that ends in a name is split into the way of the names before    *)
(* it, or "." if there are none, and the name.                             *)
LEMMA SplitNames ==
    ASSUME NEW path \in Paths, EndsInName(Meaning(path))
    PROVE  LET dir == Split(path).dir
           IN  /\ Split(path).base = Last(Named(path))
               /\ dir \in WaysThere /\ dir.segs \in Seq(Dotted)
               /\ \/ dir.absolute = Absolute(path) /\ dir.segs = Front(Named(path))
                  \/ /\ ~ Absolute(path) /\ Front(Named(path)) = <<>>
                     /\ dir = [absolute |-> FALSE, segs |-> <<".">>]
<1> DEFINE L == Len(path)
           base == Basename(path)
           dirname == Dirname(path)
<1>1. /\ path \in Seq(Tokens) /\ L \in Nat /\ L >= 1
      /\ \A k \in 1 .. L : path[k] \in Tokens
    BY PathsTyped, LenProperties
<1>2. \A k \in 1 .. L - 1 : path[k] = Slash \/ path[k + 1] = Slash
    BY DEF Paths
<1>3. path[L] # Slash /\ path[L] \in Dotted
  <2>1. Last(path) # Slash
      BY DEF EndsInName, Meaning
  <2> QED BY <1>1, <2>1 DEF Last, Tokens, Dotted
<1>4. LastSlash(path) = L - 1 /\ (L = 1 \/ path[L - 1] = Slash)
  <2> DEFINE S == Slashes(path)
  <2>1. S = {k \in 1 .. L : path[k] = Slash}
      BY <1>1, LenProperties DEF Slashes
  <2>2. CASE L = 1
    <3>1. S = {}
        BY <1>3, <2>1, <2>2
    <3> QED BY <2>2, <3>1 DEF LastSlash
  <2>3. CASE L # 1
    <3>1. L - 1 \in Nat /\ L - 1 \in 1 .. L - 1 /\ (L - 1) + 1 = L
      <4>1. L \in Nat /\ L >= 1
          BY <1>1
      <4> HIDE DEF L
      <4> QED BY <2>3, <4>1
    <3>2. path[L - 1] = Slash
        BY <1>2, <1>3, <3>1
    <3>3. L - 1 \in S /\ S \subseteq 1 .. L - 1
        BY <1>1, <1>3, <2>1, <3>1, <3>2
    <3> HIDE DEF S, L
    <3>4. Max(S) \in S /\ \A k \in S : Max(S) >= k
      <4> DEFINE m == L - 1
      <4>1. m \in Nat /\ S \subseteq 1 .. m /\ S # {}
          BY <3>1, <3>3
      <4> HIDE DEF m
      <4> QED BY <4>1, Greatest
    <3>5. Max(S) = L - 1
      <4>1. Max(S) \in 1 .. L - 1 /\ Max(S) >= L - 1
          BY <3>3, <3>4
      <4> QED BY <3>1, <4>1
    <3>6. LastSlash(path) = Max(S)
        BY <3>3 DEF LastSlash, S
    <3> QED BY <3>2, <3>5, <3>6
  <2> QED BY <2>2, <2>3
<1>5. PICK upto \in [0 .. L -> Seq(Dotted)] : NamedUpto(path, upto) /\ Named(path) = upto[L]
    BY <1>1, NamedThere
<1>6. Named(path) = Append(upto[L - 1], path[L]) /\ upto[L - 1] \in Seq(Dotted)
  <2>1. L \in 1 .. L /\ L - 1 \in 0 .. L
      BY <1>1
  <2>2. upto[L] = Append(upto[L - 1], path[L])
      BY <1>3, <1>5, <2>1 DEF NamedUpto
  <2>3. upto[L - 1] \in Seq(Dotted)
      BY <1>5, <2>1
  <2> QED BY <1>5, <2>2, <2>3
<1>7. Last(Named(path)) = path[L] /\ Front(Named(path)) = upto[L - 1]
  <2> DEFINE before == upto[L - 1]
             end == path[L]
  <2>1. before \in Seq(Dotted) /\ end \in Dotted /\ Named(path) = Append(before, end)
      BY <1>3, <1>6
  <2> HIDE DEF before, end
  <2>2. Last(Named(path)) = end /\ Front(Named(path)) = before
      BY <2>1, AddedLast
  <2> QED BY <2>2 DEF before, end
<1>8. base = path[L]
  <2>1. LastSlash(path) # L
      BY <1>1, <1>4
  <2> QED BY <2>1 DEF Basename, Last
<1>9. /\ Split(path).base = base
      /\ Split(path).dir = [absolute |-> Absolute(dirname), segs |-> Segments(dirname)]
    BY DEF Split, Way
<1>10. Absolute(path) = (path[1] = Slash)
    BY <1>1 DEF Absolute
<1>11. upto[0] = <<>>
    BY <1>5 DEF NamedUpto
<1>12. CASE L = 1
  <2>1. dirname = <<".">>
      BY <1>4, <1>12 DEF Dirname
  <2>2. dirname \in Seq(Tokens) /\ Len(dirname) = 1 /\ dirname[1] = "."
    <3>1. <<".">> \in Seq(Tokens)
        BY DEF Tokens
    <3> QED BY <2>1, <3>1
  <2> HIDE DEF dirname
  <2>3. Segments(dirname) = Named(dirname) /\ Named(dirname) \in Seq(Dotted)
    <3>1. Len(dirname) # 0
        BY <2>2
    <3> QED BY <2>2, <3>1, SegmentsAreNames
  <2>4. "." # Slash
      BY DEF Slash
  <2>5. Named(dirname) = <<".">>
    <3>1. PICK f \in [0 .. 1 -> Seq(Dotted)] : NamedUpto(dirname, f) /\ Named(dirname) = f[1]
        BY <2>2, NamedThere
    <3>2. f[1] = Append(f[0], ".") /\ f[0] = <<>>
        BY <2>2, <2>4, <3>1 DEF NamedUpto
    <3> QED BY <3>1, <3>2
  <2>6. Absolute(dirname) = FALSE
      BY <2>1, <2>4 DEF Absolute
  <2>7. Absolute(path) = FALSE /\ upto[L - 1] = <<>>
    <3>1. path[1] # Slash
        BY <1>3, <1>12
    <3>2. L - 1 = 0
        BY <1>12
    <3> HIDE DEF L
    <3> QED BY <1>10, <1>11, <3>1, <3>2
  <2>8. Split(path).dir = [absolute |-> FALSE, segs |-> <<".">>]
      BY <1>9, <2>3, <2>5, <2>6
  <2>9. <<".">> \in Seq(Dotted) /\ <<".">> \in Seq(Tokens)
      BY DEF Dotted, Tokens
  <2>10. Split(path).dir \in WaysThere /\ Split(path).dir.segs \in Seq(Dotted)
      BY <2>8, <2>9 DEF WaysThere
  <2>11. Split(path).base = Last(Named(path)) /\ Front(Named(path)) = <<>>
      BY <1>7, <1>8, <1>9, <2>7
  <2> QED BY <2>7, <2>8, <2>10, <2>11
<1>13. CASE L # 1
  <2> DEFINE m == Len(dirname)
  <2>1. /\ dirname \in Seq(Tokens) /\ m \in 1 .. L - 1
        /\ \A k \in 1 .. m : dirname[k] = path[k]
        /\ upto[m] = upto[L - 1]
    <3>1. CASE L = 2
      <4>1. dirname = <<Slash>>
          BY <1>4, <3>1 DEF Dirname
      <4>2. <<Slash>> \in Seq(Tokens)
          BY DEF Tokens
      <4> QED BY <1>4, <3>1, <4>1, <4>2
    <3>2. CASE L # 2
      <4>1. dirname = SubSeq(path, 1, L - 2)
          BY <1>1, <1>4, <1>13, <3>2 DEF Dirname
      <4>2. L - 2 \in 1 .. L - 1 /\ L - 1 \in 1 .. L /\ (L - 1) - 1 = L - 2
          BY <1>1, <1>13, <3>2
      <4>3. /\ SubSeq(path, 1, L - 2) \in Seq(Tokens)
            /\ Len(SubSeq(path, 1, L - 2)) = L - 2
            /\ \A k \in 1 .. L - 2 : SubSeq(path, 1, L - 2)[k] = path[k]
        <5>1. \A k \in 1 .. L - 2 : path[k] \in Tokens
            BY <1>1
        <5> QED BY <1>1, <4>2, <5>1, SubSeqProperties
      <4>4. upto[L - 1] = upto[L - 2]
          BY <1>4, <1>5, <1>13, <4>2 DEF NamedUpto
      <4> QED BY <4>1, <4>2, <4>3, <4>4
    <3> QED BY <3>1, <3>2
  <2>2. Named(dirname) = upto[L - 1]
    <3>1. Len(dirname) <= Len(path)
        BY <1>1, <2>1
    <3> HIDE DEF dirname
    <3> QED BY <1>1, <1>5, <2>1, <3>1, PrefixNamed
  <2>3. Absolute(dirname) = Absolute(path)
    <3>1. 1 \in 1 .. m
        BY <2>1
    <3> HIDE DEF dirname
    <3>2. Absolute(dirname) = (dirname[1] = Slash)
        BY <2>1, <3>1 DEF Absolute
    <3> QED BY <1>10, <2>1, <3>1, <3>2
  <2>4. Segments(dirname) = Named(dirname) /\ Named(dirname) \in Seq(Dotted)
    <3>1. Len(dirname) # 0
        BY <2>1
    <3> HIDE DEF dirname
    <3> QED BY <2>1, <3>1, SegmentsAreNames
  <2>5. Seq(Dotted) \subseteq Seq(Tokens)
    <3>1. Dotted \subseteq Tokens
        BY DEF Dotted, Tokens
    <3> QED BY <3>1, SeqMonotonic
  <2>6. Absolute(path) \in BOOLEAN
      BY <1>10
  <2>7. Split(path).base = Last(Named(path))
      BY <1>7, <1>8, <1>9
  <2> HIDE DEF dirname, base
  <2>8. Split(path).dir \in WaysThere /\ Split(path).dir.segs \in Seq(Dotted)
      BY <1>9, <2>3, <2>4, <2>5, <2>6 DEF WaysThere
  <2>9. Split(path).dir.absolute = Absolute(path) /\ Split(path).dir.segs = Front(Named(path))
      BY <1>7, <1>9, <2>2, <2>3, <2>4
  <2> QED BY <2>7, <2>8, <2>9
<1> QED BY <1>12, <1>13

(* "." leads where no name leads. *)
LEMMA DotLeads ==
    ASSUME TypeOK
    PROVE  vfs_resolve_path([absolute |-> FALSE, segs |-> <<".">>])
              = vfs_resolve_path([absolute |-> FALSE, segs |-> <<>>])
<1> DEFINE dot == [absolute |-> FALSE, segs |-> <<".">>]
           none == [absolute |-> FALSE, segs |-> <<>>]
<1>1. dot \in WaysThere /\ none \in WaysThere
  <2>1. <<".">> \in Seq(Tokens) /\ <<>> \in Seq(Tokens)
      BY DEF Tokens
  <2> QED BY <2>1 DEF WaysThere
<1>2. /\ dot.segs = <<".">> /\ Len(dot.segs) = 1 /\ dot.segs[1] = "." /\ StartOf(dot) = cwd
      /\ none.segs = <<>> /\ Len(none.segs) = 0 /\ StartOf(none) = cwd
    BY DEF StartOf
<1> HIDE DEF dot, none
<1>3. Turns(dot)[0] = cwd /\ Turns(dot)[1] = Follow(Turns(dot)[0], ".") /\ Turns(none)[0] = cwd
  <2>1. GoOn(Turns(dot), cwd, dot.segs, 1) /\ GoOn(Turns(none), cwd, none.segs, 0)
      BY <1>1, <1>2, TurnsThere DEF TurnsGoOn
  <2> QED BY <1>2, <2>1 DEF GoOn
<1>4. Follow(cwd, ".") = cwd
    BY DEF Follow
<1>5. vfs_resolve_path(dot) = vfs_resolve_path(none)
    BY <1>2, <1>3, <1>4 DEF vfs_resolve_path
<1> QED BY <1>5 DEF dot, none

(* What a path leads to, and, if it ends in a name, what its directory     *)
(* does, in places.                                                        *)
LEMMA PathPlaced ==
    ASSUME OnlyMains, NEW path \in Paths
    PROVE  /\ vfs_resolve_path(Way(path)) \in Ends
           /\ Tree!PlaceOf(Meaning(path)) = PlaceAt(vfs_resolve_path(Way(path)))
<1>1. path \in Seq(Tokens) /\ Len(path) # 0
    BY PathsTyped
<1>2. Way(path).segs = Named(path) /\ Named(path) \in Seq(Dotted)
    BY <1>1, SegmentsAreNames DEF Way
<1>3. Way(path) \in WaysThere
    BY WaysTyped DEF Ways
<1>4. Meaning(path).absolute = Way(path).absolute /\ Meaning(path).segs = Way(path).segs
    BY <1>2 DEF Meaning, Way
<1> QED BY <1>2, <1>3, <1>4, SamePlaces

LEMMA SplitPlaced ==
    ASSUME OnlyMains, NEW path \in Paths, EndsInName(Meaning(path))
    PROVE  /\ Split(path).base = Last(Meaning(path).segs)
           /\ vfs_resolve_path(Split(path).dir) \in Ends
           /\ Tree!PlaceOf([Meaning(path) EXCEPT !.segs = Front(@)])
                 = PlaceAt(vfs_resolve_path(Split(path).dir))
<1> DEFINE dir == Split(path).dir
           front == Front(Named(path))
           p == [Meaning(path) EXCEPT !.segs = Front(@)]
           none == [absolute |-> FALSE, segs |-> <<>>]
<1>1. /\ Split(path).base = Last(Named(path))
      /\ dir \in WaysThere /\ dir.segs \in Seq(Dotted)
      /\ \/ dir.absolute = Absolute(path) /\ dir.segs = front
         \/ /\ ~ Absolute(path) /\ front = <<>>
            /\ dir = [absolute |-> FALSE, segs |-> <<".">>]
    BY SplitNames
<1>2. p.absolute = Absolute(path) /\ p.segs = front /\ Meaning(path).segs = Named(path)
    BY DEF Meaning
<1> HIDE DEF dir, front, p
<1>3. CASE dir.absolute = Absolute(path) /\ dir.segs = front
  <2>1. vfs_resolve_path(dir) \in Ends /\ Tree!PlaceOf(p) = PlaceAt(vfs_resolve_path(dir))
      BY <1>1, <1>2, <1>3, SamePlaces
  <2> QED BY <1>1, <1>2, <2>1 DEF p, dir
<1>4. CASE ~ Absolute(path) /\ front = <<>> /\ dir = [absolute |-> FALSE, segs |-> <<".">>]
  <2>1. vfs_resolve_path(dir) = vfs_resolve_path(none)
      BY <1>4, DotLeads DEF OnlyMains, IInv
  <2>2. none \in WaysThere /\ none.segs \in Seq(Dotted) /\ none.segs = <<>> /\ none.absolute = FALSE
      BY DEF WaysThere
  <2>3. p.absolute = none.absolute /\ p.segs = none.segs
      BY <1>2, <1>4, <2>2 DEF Absolute
  <2> HIDE DEF none
  <2>4. vfs_resolve_path(none) \in Ends /\ Tree!PlaceOf(p) = PlaceAt(vfs_resolve_path(none))
      BY <2>2, <2>3, SamePlaces
  <2> QED BY <1>1, <1>2, <2>1, <2>4 DEF p, dir
<1> QED BY <1>1, <1>3, <1>4

(* Paths lead where they say. *)
THEOREM PathsLead == Spec => []ResolvesPlaces
<1>1. IInv /\ TreeInv => ResolvesPlaces
  <2> SUFFICES ASSUME OnlyMains, NEW reading \in Readings
               PROVE  LET meaning == reading.meaning
                      IN  /\ vfs_resolve_path(reading.way) = NodeAt(Tree!PlaceOf(meaning))
                          /\ EndsInName(meaning) =>
                               /\ reading.split.base = Last(meaning.segs)
                               /\ vfs_resolve_path(reading.split.dir) =
                                     NodeAt(Tree!PlaceOf([meaning EXCEPT !.segs = Front(@)]))
      BY DEF ResolvesPlaces, OnlyMains
  <2>1. PICK path \in Paths : reading = [way |-> Way(path), split |-> Split(path), meaning |-> Meaning(path)]
      BY DEF Readings
  <2>2. reading.way = Way(path) /\ reading.split = Split(path) /\ reading.meaning = Meaning(path)
      BY <2>1
  <2>3. vfs_resolve_path(Way(path)) = NodeAt(Tree!PlaceOf(Meaning(path)))
      BY PathPlaced, FoundAtPlace
  <2>4. ASSUME EndsInName(Meaning(path))
        PROVE  /\ Split(path).base = Last(Meaning(path).segs)
               /\ vfs_resolve_path(Split(path).dir)
                     = NodeAt(Tree!PlaceOf([Meaning(path) EXCEPT !.segs = Front(@)]))
      BY <2>4, SplitPlaced, FoundAtPlace
  <2> QED BY <2>2, <2>3, <2>4
<1> QED BY <1>1, TreeHolds, PTL

-----------------------------------------------------------------------------
(* The tree of paths. *)

LEMMA OnlyMainsAfter == OnlyMains' => Placed' /\ PlacesAreNodes'
<1>1. OnlyMains => Placed /\ PlacesAreNodes
    BY PlacesThere, NodesPlaced
<1> QED BY <1>1, PTL

(* Nodes stay at their places when one is added. *)
LEMMA PlacesStay ==
    ASSUME OnlyMains, OnlyMains', Made \subseteq Made',
           \A node \in Made : parent'[node] = parent[node] /\ name'[node] = name[node]
    PROVE  \A node \in Made : PlaceOf'[node] = PlaceOf[node]
<1> DEFINE T == {node \in Made : PlaceOf'[node] # PlaceOf[node]}
<1>1. /\ made \in Nat /\ made >= 4 /\ Made = 1 .. made
      /\ \A node \in Made \ {1, 4} : parent[node] \in 1 .. node - 1
    BY OlderParents
<1>2. Placed /\ Placed'
    BY PlacesThere, OnlyMainsAfter
<1>3. ASSUME NEW k \in T, \A j \in T : k <= j PROVE FALSE
  <2>1. k \in Made /\ k \in Made' /\ PlaceOf'[k] # PlaceOf[k]
      OBVIOUS
  <2>2. ASSUME NEW j \in 1 .. k - 1 PROVE PlaceOf'[j] = PlaceOf[j]
    <3>1. j \in Made /\ j < k /\ ~ k <= j
        BY <1>1, <2>1
    <3>2. j \notin T
      <4> HIDE DEF T
      <4> QED BY <1>3, <3>1
    <3> QED BY <3>1, <3>2
  <2>3. k # 1
      BY <1>2, <2>1 DEF Placed
  <2>4. k # 4
    <3> SUFFICES ASSUME k = 4 PROVE FALSE
        OBVIOUS
    <3>1. PlaceOf'[3] = PlaceOf[3]
        BY <2>2
    <3> QED BY <1>2, <2>1, <3>1 DEF Placed
  <2>5. parent[k] \in 1 .. k - 1 /\ PlaceOf[k] = Append(PlaceOf[parent[k]], name[k])
      BY <1>1, <1>2, <2>1, <2>3, <2>4 DEF Placed
  <2>6. PlaceOf'[k] = Append(PlaceOf'[parent'[k]], name'[k])
      BY <1>2, <2>1, <2>3, <2>4 DEF Placed
  <2> QED BY <2>1, <2>2, <2>5, <2>6
<1>4. T = {}
  <2>1. T \subseteq Nat
      BY <1>1
  <2> HIDE DEF T
  <2> QED BY <1>3, <2>1, Least
<1> QED BY <1>4

(* A node that is added is at a place that was free, and all else stays.   *)
Joins(dir, kind, base) ==
    LET place == Append(PlaceOf[dir], base)
    IN  /\ place \notin Kind("DIRECTORY") \cup Kind("FILE")
        /\ \A k \in {"DIRECTORY", "FILE"} : Kind(k)' = IF k = kind THEN Kind(k) \cup {place} ELSE Kind(k)
        /\ PlaceOf'[cwd'] = PlaceOf[cwd]

LEMMA NodeJoins ==
    ASSUME OnlyMains, TreeInv', IInv', NEW dir \in Made \ {3}, flags[dir] = "DIRECTORY",
           NEW kind \in {"FILE", "DIRECTORY"}, NEW base \in SegNames,
           ~ Taken(dir, base), AddChild(dir, kind, base), cwd' = cwd
    PROVE  OnlyMainsMount' /\ Joins(dir, kind, base)
<1> DEFINE new == made + 1
           place == Append(PlaceOf[dir], base)
<1>1. /\ IInv /\ TreeInv /\ TypeOK /\ Placed /\ Null \notin Made
      /\ kind \in Kinds /\ base \in NodeNames /\ base \in Names \cup OddNames
      /\ cwd \in Made /\ made >= 4 /\ made \in Nat /\ Made = 1 .. made
    BY PlacesThere, OlderParents, MadeNodes DEF OnlyMains, IInv, Kinds, NodeNames, SegNames
<1>2. OnlyMainsMount' /\ OnlyMains'
    BY <1>1, AddKeepsTree DEF OnlyMains
<1>3. /\ Made' = Made \cup {new} /\ new \notin Made
      /\ flags'[new] = kind /\ name'[new] = base /\ parent'[new] = dir
      /\ \A node \in Made : /\ flags'[node] = flags[node]
                            /\ name'[node] = name[node]
                            /\ parent'[node] = parent[node]
    BY <1>1, Added
<1>4. \A node \in Made : PlaceOf'[node] = PlaceOf[node]
  <2>1. Made \subseteq Made'
      BY <1>3
  <2>2. \A node \in Made : parent'[node] = parent[node] /\ name'[node] = name[node]
      BY <1>3
  <2> QED BY <1>2, <2>1, <2>2, PlacesStay
<1>5. PlaceOf'[new] = place
  <2>1. new \in Made' \ {1, 4}
      BY <1>1, <1>3
  <2> HIDE DEF new
  <2>2. PlaceOf'[new] = Append(PlaceOf'[parent'[new]], name'[new])
      BY <1>2, <2>1, OnlyMainsAfter DEF Placed
  <2> QED BY <1>3, <1>4, <2>2
<1>6. place \notin Kind("DIRECTORY") \cup Kind("FILE")
  <2>1. lookup(dir, base) = Null
      BY DEF Taken
  <2> QED BY <2>1, ChildPlaced
<1> HIDE DEF new, place
<1>7. ASSUME NEW k \in {"DIRECTORY", "FILE"}
      PROVE  Kind(k)' = IF k = kind THEN Kind(k) \cup {place} ELSE Kind(k)
  <2>1. Kind(k)' = {PlaceOf'[node] : node \in {n \in Made' : flags'[n] = k}}
      BY DEF Kind
  <2>2. Kind(k) = {PlaceOf[node] : node \in {n \in Made : flags[n] = k}}
      BY DEF Kind
  <2>3. CASE k = kind
    <3>1. {n \in Made' : flags'[n] = k} = {n \in Made : flags[n] = k} \cup {new}
        BY <1>3, <2>3
    <3> QED BY <1>4, <1>5, <2>1, <2>2, <2>3, <3>1
  <2>4. CASE k # kind
    <3>1. {n \in Made' : flags'[n] = k} = {n \in Made : flags[n] = k}
        BY <1>3, <2>4
    <3> QED BY <1>4, <2>1, <2>2, <2>4, <3>1
  <2> QED BY <2>3, <2>4
<1>8. PlaceOf'[cwd'] = PlaceOf[cwd]
    BY <1>1, <1>4
<1> QED BY <1>2, <1>6, <1>7, <1>8 DEF Joins, place

(* What joins is what PathTree adds. *)
LEMMA JoinAdds ==
    ASSUME OnlyMainsMount, OnlyMainsMount', NEW dir, NEW kind \in {"FILE", "DIRECTORY"}, NEW base,
           Joins(dir, kind, base)
    PROVE  /\ Append(PlaceOf[dir], base) \notin Kind("DIRECTORY") \cup Kind("FILE")
           /\ Tree!Add(Append(PlaceOf[dir], base))
           /\ PlaceOf'[cwd'] = PlaceOf[cwd]
<1>1. CASE kind = "DIRECTORY"
    BY <1>1 DEF Joins, Tree!Add
<1>2. CASE kind = "FILE"
    BY <1>2 DEF Joins, Tree!Add
<1> QED BY <1>1, <1>2

(* Only a path that ends in a name is split into a name. *)
LEMMA NameEnds ==
    ASSUME NEW path \in Paths, Basename(path) \in Names
    PROVE  EndsInName(Meaning(path))
<1> DEFINE L == Len(path)
<1>1. path \in Seq(Tokens) /\ L \in Nat /\ L >= 1 /\ L \in 1 .. L /\ L - 1 \in 0 .. L
  <2>1. path \in Seq(Tokens) /\ L \in Nat /\ L # 0
      BY PathsTyped
  <2> HIDE DEF L
  <2>2. L >= 1
      BY <2>1
  <2> QED BY <2>1, <2>2
<1>2. path[L] # Slash
  <2> SUFFICES ASSUME path[L] = Slash PROVE FALSE
      OBVIOUS
  <2> DEFINE S == Slashes(path)
  <2>1. S \subseteq 1 .. L /\ L \in S
    <3>1. L \in 1 .. L /\ DOMAIN path = 1 .. L
      <4>1. DOMAIN path = 1 .. L
          BY <1>1, LenProperties
      <4> HIDE DEF L
      <4> QED BY <1>1, <4>1
    <3> HIDE DEF L
    <3> QED BY <3>1 DEF Slashes
  <2>2. LastSlash(path) = Max(S)
      BY <2>1 DEF LastSlash
  <2> HIDE DEF S
  <2>3. Max(S) \in S /\ \A k \in S : Max(S) >= k
    <3> HIDE DEF L
    <3> QED BY <1>1, <2>1, Greatest
  <2>4. Max(S) = L
    <3>1. Max(S) \in 1 .. L /\ Max(S) >= L
        BY <2>1, <2>3
    <3> HIDE DEF L
    <3> QED BY <1>1, <3>1
  <2>5. Basename(path) = ""
      BY <2>2, <2>4 DEF Basename
  <2> QED BY <2>5, NamesAssumption DEF OddNames
<1>3. PICK upto \in [0 .. L -> Seq(Dotted)] : NamedUpto(path, upto) /\ Named(path) = upto[L]
    BY <1>1, NamedThere
<1>5. upto[L] = Append(upto[L - 1], path[L])
    BY <1>2, <1>3, <1>1 DEF NamedUpto
<1>6. upto[L - 1] \in Seq(Dotted) /\ path[L] \in Dotted
  <2>1. path[L] \in Tokens
      BY <1>1, LenProperties
  <2> QED BY <1>2, <1>3, <1>1, <2>1 DEF Tokens, Dotted
<1>7. Named(path) # <<>>
  <2> DEFINE before == upto[L - 1]
             end == path[L]
  <2>1. before \in Seq(Dotted) /\ end \in Dotted /\ Named(path) = Append(before, end)
      BY <1>3, <1>5, <1>6
  <2> HIDE DEF before, end
  <2> QED BY <2>1, AddedLast
<1>8. Last(path) # Slash
    BY <1>2 DEF Last
<1> QED BY <1>7, <1>8 DEF EndsInName, Meaning

LEMMA CreateStep ==
    ASSUME OnlyMains, TreeInv', IInv', NEW split \in Splits, NEW kind \in {"FILE", "DIRECTORY"},
           Create(split, kind)
    PROVE  Tree!Next
<1> DEFINE dir == vfs_resolve_path(split.dir)
           base == split.base
           place == Append(PlaceOf[dir], base)
<1>1. PICK path \in Paths : split = Split(path)
    BY DEF Splits
<1>2. /\ flags[dir] = "DIRECTORY" /\ dir # Null /\ ~ Taken(dir, base)
      /\ AddChild(dir, kind, base) /\ cwd' = cwd
    BY DEF Create, IsDirectory
<1>3. dir \in Made \ {3} /\ base \in SegNames
  <2>1. dir \in Places /\ base \in SegNames
      BY SplitDir, Resolved DEF OnlyMains, IInv, SegNames
  <2>2. flags[3] = "MOUNTPOINT"
      BY DEF OnlyMains, TreeInv
  <2> QED BY <1>2, <2>1, <2>2 DEF Places
<1> HIDE DEF dir, base
<1>4. OnlyMainsMount /\ OnlyMainsMount' /\ Joins(dir, kind, base)
    BY <1>2, <1>3, NodeJoins DEF OnlyMains
<1>5. /\ place \notin Kind("DIRECTORY") \cup Kind("FILE") /\ Tree!Add(place)
      /\ PlaceOf'[cwd'] = PlaceOf[cwd]
    BY <1>4, JoinAdds
<1>6. PlaceOf[dir] \in Kind("DIRECTORY")
    BY <1>2, <1>3, NodesPlaced DEF PlacesAreNodes
<1>7. CASE base \in OddNames
  <2>1. Tree!CreateOdd
    <3> HIDE DEF place
    <3>1. place = Append(PlaceOf[dir], base)
        BY DEF place
    <3> QED BY <1>4, <1>5, <1>6, <1>7, <3>1 DEF Tree!CreateOdd, Tree!OddNames, OddNames
  <2> QED BY <2>1 DEF Tree!Next
<1>8. CASE base \in Names
  <2> DEFINE meaning == Meaning(path)
             parent_place == Tree!PlaceOf([meaning EXCEPT !.segs = Front(@)])
  <2>1. EndsInName(meaning)
    <3>1. Basename(path) \in Names
        BY <1>1, <1>8 DEF base, Split
    <3> QED BY <3>1, NameEnds
  <2>2. base = Last(meaning.segs) /\ parent_place = PlaceAt(dir)
      BY <1>1, <2>1, SplitPlaced DEF base, dir
  <2>3. parent_place = PlaceOf[dir]
    <3>1. dir # Null
        BY <1>2
    <3> HIDE DEF parent_place
    <3> QED BY <2>2, <3>1 DEF PlaceAt
  <2>4. place = Append(PlaceOf[dir], base)
      OBVIOUS
  <2>5. meaning \in Meanings /\ meaning.segs # <<>> /\ meaning.slash = FALSE
      BY <2>1 DEF Meanings, EndsInName, Meaning
  <2>6. Tree!Place(meaning, place)
    <3> HIDE DEF place, meaning
    <3> QED BY <1>4, <1>5, <1>6, <2>2, <2>3, <2>4 DEF Tree!Place, Tree!Front, Tree!Last, Front, Last
  <2>7. Tree!Create(meaning)
    <3> HIDE DEF place, meaning
    <3>1. place = Append(PlaceOf[dir], Last(meaning.segs)) /\ Last(meaning.segs) \in Names
        BY <1>8, <2>2, <2>4
    <3> QED BY <1>4, <1>5, <1>6, <2>5, <2>6, <3>1 DEF Tree!Create, Tree!Last, Last
  <2> HIDE DEF meaning
  <2> QED BY <2>5, <2>7 DEF Tree!Next
<1> QED BY <1>3, <1>7, <1>8 DEF SegNames

LEMMA CreateMounts ==
    ASSUME IInv, TreeInv, NEW split \in Splits, NEW kind \in {"FILE", "DIRECTORY"}, Create(split, kind)
    PROVE  OnlyMainsMount' <=> OnlyMainsMount
<1> DEFINE dir == vfs_resolve_path(split.dir)
<1>1. dir \in Places /\ split.base \in Names \cup OddNames
    BY SplitDir, Resolved DEF IInv
<1>2. dir \in Made /\ flags[dir] = "DIRECTORY" /\ AddChild(dir, kind, split.base) /\ cwd' = cwd
    BY <1>1 DEF Create, IsDirectory, Places
<1> HIDE DEF dir
<1> QED BY <1>1, <1>2, AddKeepsTree

LEMMA CdStep ==
    ASSUME OnlyMains, NEW way \in Ways, Cd(way)
    PROVE  Tree!Next
<1> DEFINE node == vfs_resolve_path(way)
<1>1. PICK path \in Paths : way = Way(path)
    BY DEF Ways
<1>2. node # Null /\ flags[node] = "DIRECTORY" /\ cwd' = node /\ UNCHANGED treeVars
    BY DEF Cd, IsDirectory
<1>3. node \in Ends /\ Tree!PlaceOf(Meaning(path)) = PlaceAt(node)
    BY <1>1, PathPlaced
<1> HIDE DEF node
<1>4. PlaceAt(node) = PlaceOf[node] /\ PlaceOf[node] \in Kind("DIRECTORY")
    BY <1>2, <1>3, NodesPlaced DEF PlaceAt, Ends, PlacesAreNodes
<1>5. /\ PlaceOf' = PlaceOf /\ OnlyMainsMount' /\ OnlyMainsMount
      /\ Kind("DIRECTORY")' = Kind("DIRECTORY") /\ Kind("FILE")' = Kind("FILE")
  <2>1. PlaceOf' = PlaceOf
      BY <1>2 DEF treeVars, PlaceOf, Made
  <2> QED BY <1>2, <2>1 DEF treeVars, Kind, Made, OnlyMainsMount, OnlyMains
<1>6. PlaceOf'[cwd'] = PlaceOf[node]
    BY <1>2, <1>5
<1>7. Tree!ChangeDir(Meaning(path))
    BY <1>3, <1>4, <1>5, <1>6 DEF Tree!ChangeDir
<1>8. Meaning(path) \in Meanings
    BY DEF Meanings
<1> QED BY <1>7, <1>8 DEF Tree!Next

LEMMA TreeStarts == ASSUME Init PROVE Tree!Init
<1>1. IInv /\ TreeInv
    BY Start, TreeStart
<1>2. /\ made = 4 /\ Made = {1, 2, 3, 4} /\ cwd = 1
      /\ flags = <<"DIRECTORY", "FILE", "MOUNTPOINT", "DIRECTORY">>
      /\ name = <<"/", "test.txt", "mnt", "second">>
      /\ parent = <<Null, 1, 1, 3>>
      /\ mount_target = <<Null, Null, 4, Null>>
    BY DEF Init, fs_root, Made
<1>3. OnlyMainsMount
  <2>1. Null \notin {1, 2, 3, 4}
      BY <1>1, <1>2, MadeNodes DEF IInv
  <2> QED BY <1>2, <2>1 DEF OnlyMainsMount
<1>4. Placed
    BY <1>1, <1>3, PlacesThere DEF OnlyMains
<1>5. PlaceOf[1] = <<>> /\ PlaceOf[2] = <<"test.txt">> /\ PlaceOf[4] = <<"mnt">>
  <2>1. 2 \in Made \ {1, 4} /\ 3 \in Made \ {1, 4}
      BY <1>2
  <2>2. PlaceOf[2] = Append(PlaceOf[parent[2]], name[2]) /\ PlaceOf[3] = Append(PlaceOf[parent[3]], name[3])
      BY <1>4, <2>1 DEF Placed
  <2>3. parent[2] = 1 /\ parent[3] = 1 /\ name[2] = "test.txt" /\ name[3] = "mnt"
      BY <1>2
  <2>4. PlaceOf[1] = <<>> /\ PlaceOf[4] = PlaceOf[3]
      BY <1>4 DEF Placed
  <2>5. PlaceOf[2] = Append(<<>>, "test.txt") /\ PlaceOf[4] = Append(<<>>, "mnt")
      BY <2>2, <2>3, <2>4
  <2> QED BY <2>4, <2>5
<1>6. {n \in Made : flags[n] = "DIRECTORY"} = {1, 4} /\ {n \in Made : flags[n] = "FILE"} = {2}
  <2>1. flags[1] = "DIRECTORY" /\ flags[2] = "FILE" /\ flags[3] = "MOUNTPOINT" /\ flags[4] = "DIRECTORY"
      BY <1>2
  <2> QED BY <1>2, <2>1
<1>7. Kind("DIRECTORY") = {<<>>, <<"mnt">>} /\ Kind("FILE") = {<<"test.txt">>}
  <2>1. /\ Kind("DIRECTORY") = {PlaceOf[node] : node \in {1, 4}}
        /\ Kind("FILE") = {PlaceOf[node] : node \in {2}}
      BY <1>6 DEF Kind
  <2>2. Kind("DIRECTORY") = {PlaceOf[1], PlaceOf[4]} /\ Kind("FILE") = {PlaceOf[2]}
      BY <2>1
  <2> QED BY <1>5, <2>2
<1> QED BY <1>2, <1>3, <1>5, <1>7 DEF Tree!Init

(* Touching, making directories and changing to them, by any paths, does   *)
(* to the tree of paths what PathTree says, until the shell mounts (Shell  *)
(* commands over vfs_resolve_path, vfs_split_path and vfs_add_child).      *)
THEOREM Refinement == Spec => PathTreeSpec
<1> DEFINE Steps == OnlyMainsMount' => Tree!Next
<1>1. (IInv /\ TreeInv) /\ (IInv /\ TreeInv)' /\ [Next]_vars => [Steps]_Tree!vars
  <2> SUFFICES ASSUME IInv, TreeInv, IInv', TreeInv', [Next]_vars PROVE [Steps]_Tree!vars
      OBVIOUS
  <2>1. ASSUME NEW way \in Ways, Cd(way) PROVE Steps
    <3>1. OnlyMainsMount' <=> OnlyMainsMount
        BY <2>1 DEF Cd, treeVars, OnlyMainsMount, Made
    <3> QED BY <2>1, <3>1, CdStep DEF OnlyMains
  <2>2. ASSUME NEW split \in Splits, NEW kind \in {"FILE", "DIRECTORY"}, Create(split, kind) PROVE Steps
    <3>1. OnlyMainsMount' => OnlyMainsMount
        BY <2>2, CreateMounts
    <3> QED BY <2>2, <3>1, CreateStep DEF OnlyMains
  <2>3. ASSUME NEW source \in Reached, NEW target \in Reached, Mount(source, target) PROVE Steps
    <3>1. source \in Made /\ target \in Made
        BY <2>3, ReachedMade DEF Mount, IInv
    <3> QED BY <2>3, <3>1, MountEnds
  <2>4. CASE UNCHANGED vars
    <3>1. PlaceOf' = PlaceOf /\ cwd' = cwd
        BY <2>4 DEF vars, treeVars, PlaceOf, Made
    <3>2. Kind("DIRECTORY")' = Kind("DIRECTORY") /\ Kind("FILE")' = Kind("FILE")
          /\ (OnlyMainsMount' <=> OnlyMainsMount)
        BY <2>4, <3>1 DEF vars, treeVars, Kind, Made, OnlyMainsMount
    <3> QED BY <3>1, <3>2 DEF Tree!vars
  <2> QED BY <2>1, <2>2, <2>3, <2>4 DEF Next, Touch, Mkdir
<1>2. Init => Tree!Init
    BY TreeStarts
<1>3. IInv /\ TreeInv /\ [Next]_vars => (IInv /\ TreeInv)'
    BY StepKeeps, TreeKeeps
<1> QED BY <1>1, <1>2, TreeHolds, PTL DEF Spec, PathTreeSpec
=============================================================================
