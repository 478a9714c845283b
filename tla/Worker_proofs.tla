---------------------------- MODULE Worker_proofs ----------------------------
(***************************************************************************)
(* Proofs about the worker: what its rules mean, of what type it finds an  *)
(* image to be, and what it answers.  Then about the durable object it     *)
(* exports that purges the CDN, for any tags, calls and batch size.        *)
(***************************************************************************)
EXTENDS Worker, BucketCachePurge, FiniteSetTheorems, WellFoundedInduction, SequenceTheorems, TLAPS

-----------------------------------------------------------------------------
(* Least elements.                                                         *)

LEMMA LeastNat ==
    ASSUME NEW T, T \subseteq Nat, T # {}
    PROVE  \E m \in T : \A k \in T : m <= k
<1> DEFINE R == {ss \in Nat \X Nat : ss[1] < ss[2]}
<1>1. IsWellFoundedOn(R, Nat)
  <2>1. R = OpToRel(<, Nat)
    BY DEF OpToRel
  <2> QED
    BY <2>1, NatLessThanWellFounded, Zenon
<1>2. PICK m \in T : \A k \in T : ~(<<k, m>> \in R)
  <2> HIDE DEF R
  <2> QED
    BY <1>1, WFMin
<1>3. ASSUME NEW k \in T PROVE m <= k
  <2>1. <<k, m>> \in Nat \X Nat /\ <<k, m>>[1] = k /\ <<k, m>>[2] = m
    OBVIOUS
  <2>2. ~(k < m)
    BY <1>2, <2>1
  <2> QED
    BY <2>2
<1> QED
  BY <1>3

LEMMA MinIsLeast ==
    ASSUME NEW T, T \subseteq Nat, T # {}
    PROVE  Min(T) \in T /\ \A k \in T : Min(T) <= k
  BY LeastNat DEF Min

-----------------------------------------------------------------------------
(* What a rule matches.                                                    *)

LEMMA PrefixIs ==
    ASSUME NEW S, NEW s \in Seq(S), NEW t \in Seq(S)
    PROVE  IsPrefix(s, t) <=> /\ Len(s) <= Len(t)
                              /\ \A i \in 1 .. Len(s) : s[i] = t[i]
<1>1. SUFFICES ASSUME Len(s) <= Len(t)
               PROVE  SubSeq(s, 1, Len(s)) = SubSeq(t, 1, Len(s))
                        <=> \A i \in 1 .. Len(s) : s[i] = t[i]
  BY DEF IsPrefix
<1>2. SubSeq(s, 1, Len(s)) = [i \in 1 .. Len(s) |-> s[i]]
  OBVIOUS
<1>3. SubSeq(t, 1, Len(s)) = [i \in 1 .. Len(s) |-> t[i]]
  BY <1>1
<1> QED
  BY <1>2, <1>3

LEMMA SuffixIs ==
    ASSUME NEW S, NEW s \in Seq(S), NEW t \in Seq(S)
    PROVE  IsSuffix(s, t) <=> /\ Len(s) <= Len(t)
                              /\ \A i \in 1 .. Len(s) : s[i] = t[Len(t) - Len(s) + i]
<1> DEFINE m == Len(s)
           n == Len(t)
<1>1. m \in Nat /\ n \in Nat
  OBVIOUS
<1>2. /\ Reverse(s) \in Seq(S) /\ Len(Reverse(s)) = m /\ \A i \in 1 .. m : Reverse(s)[i] = s[m - i + 1]
      /\ Reverse(t) \in Seq(S) /\ Len(Reverse(t)) = n /\ \A i \in 1 .. n : Reverse(t)[i] = t[n - i + 1]
  BY DEF Reverse
<1>3. IsSuffix(s, t) <=> m <= n /\ \A i \in 1 .. m : s[m - i + 1] = t[n - i + 1]
  <2>1. IsSuffix(s, t) <=> m <= n /\ \A i \in 1 .. m : Reverse(s)[i] = Reverse(t)[i]
    BY <1>2, PrefixIs DEF IsSuffix
  <2>2. m <= n => \A i \in 1 .. m : i \in 1 .. n
    BY <1>1
  <2> QED
    BY <1>2, <2>1, <2>2
<1> HIDE DEF m, n
<1>4. (\A i \in 1 .. m : s[m - i + 1] = t[n - i + 1]) <=> \A i \in 1 .. m : s[i] = t[n - m + i]
  <2>1. ASSUME \A i \in 1 .. m : s[m - i + 1] = t[n - i + 1], NEW i \in 1 .. m
        PROVE  s[i] = t[n - m + i]
    <3>1. m - i + 1 \in 1 .. m /\ m - (m - i + 1) + 1 = i /\ n - (m - i + 1) + 1 = n - m + i
      BY <1>1
    <3> QED
      BY <2>1, <3>1
  <2>2. ASSUME \A i \in 1 .. m : s[i] = t[n - m + i], NEW i \in 1 .. m
        PROVE  s[m - i + 1] = t[n - i + 1]
    <3>1. m - i + 1 \in 1 .. m /\ n - m + (m - i + 1) = n - i + 1
      BY <1>1
    <3> QED
      BY <2>2, <3>1
  <2> QED
    BY <2>1, <2>2
<1> QED
  BY <1>3, <1>4 DEF m, n

\* The code takes a pattern without a star for the path itself.
LEMMA MatchWithoutStar ==
    ASSUME NEW pattern \in Seq(STRING), NEW path, \A i \in DOMAIN pattern : pattern[i] # "*"
    PROVE  MatchRule(pattern, path) <=> path = pattern
<1> DEFINE stars == {i \in 1 .. Len(pattern) : pattern[i] = "*"}
<1>1. stars = {}
  OBVIOUS
<1>2. SelectInSeq(pattern, LAMBDA c : c = "*") = 0
  BY <1>1 DEF SelectInSeq
<1> QED
  BY <1>2 DEF MatchRule

\* It cuts one with a star at the first: what is before starts the path, what is
\* after ends it.
LEMMA MatchWithStar ==
    ASSUME NEW pattern \in Seq(STRING), NEW path \in Seq(STRING),
           NEW s \in DOMAIN pattern, pattern[s] = "*", \A i \in DOMAIN pattern : pattern[i] = "*" => s <= i
    PROVE  MatchRule(pattern, path) <=>
            /\ Len(path) >= Len(pattern) - 1
            /\ \A i \in 1 .. s - 1 : path[i] = pattern[i]
            /\ \A i \in s + 1 .. Len(pattern) : path[Len(path) - Len(pattern) + i] = pattern[i]
<1> DEFINE stars == {i \in 1 .. Len(pattern) : pattern[i] = "*"}
           before == SubSeq(pattern, 1, s - 1)
           after == SubSeq(pattern, s + 1, Len(pattern))
           n == Len(pattern)
           m == Len(path)
<1>1. s \in 1 .. n /\ n \in Nat /\ m \in Nat
  OBVIOUS
<1>2. SelectInSeq(pattern, LAMBDA c : c = "*") = s
  <2>1. stars \subseteq Nat /\ s \in stars /\ \A i \in stars : s <= i
    OBVIOUS
  <2> HIDE DEF stars
  <2>2. Min(stars) \in stars /\ Min(stars) <= s
    BY <2>1, MinIsLeast
  <2>3. Min(stars) = s
    <3>1. PICK k : k = Min(stars)
      OBVIOUS
    <3>2. k \in Nat /\ s \in Nat /\ k <= s /\ s <= k
      BY <2>1, <2>2, <3>1
    <3> QED
      BY <3>1, <3>2
  <2> QED
    BY <2>1, <2>3 DEF SelectInSeq, stars
<1>3. /\ before \in Seq(STRING) /\ Len(before) = s - 1 /\ \A i \in 1 .. s - 1 : before[i] = pattern[i]
      /\ after \in Seq(STRING) /\ Len(after) = n - s /\ \A i \in 1 .. n - s : after[i] = pattern[s + i]
  BY <1>1
<1>4. MatchRule(pattern, path) <=> m >= (s - 1) + (n - s) /\ IsPrefix(before, path) /\ IsSuffix(after, path)
  <2>1. s # 0
    BY <1>1
  <2> HIDE DEF before, after
  <2> QED
    BY <1>2, <1>3, <2>1 DEF MatchRule, before, after
<1> HIDE DEF before, after, n, m
<1>5. IsPrefix(before, path) <=> s - 1 <= m /\ \A i \in 1 .. s - 1 : pattern[i] = path[i]
  BY <1>3, PrefixIs DEF m
<1>6. IsSuffix(after, path) <=> n - s <= m /\ \A i \in 1 .. n - s : pattern[s + i] = path[m - (n - s) + i]
  <2>1. IsSuffix(after, path) <=> /\ Len(after) <= Len(path)
                                  /\ \A i \in 1 .. Len(after) : after[i] = path[Len(path) - Len(after) + i]
    BY <1>3, SuffixIs
  <2> QED
    BY <1>3, <2>1 DEF m
<1>7. (\A i \in 1 .. n - s : pattern[s + i] = path[m - (n - s) + i])
        <=> \A i \in s + 1 .. n : path[m - n + i] = pattern[i]
  <2>1. ASSUME \A i \in 1 .. n - s : pattern[s + i] = path[m - (n - s) + i], NEW i \in s + 1 .. n
        PROVE  path[m - n + i] = pattern[i]
    <3>1. i - s \in 1 .. n - s /\ s + (i - s) = i /\ m - (n - s) + (i - s) = m - n + i
      BY <1>1
    <3> QED
      BY <2>1, <3>1
  <2>2. ASSUME \A i \in s + 1 .. n : path[m - n + i] = pattern[i], NEW i \in 1 .. n - s
        PROVE  pattern[s + i] = path[m - (n - s) + i]
    <3>1. s + i \in s + 1 .. n /\ m - n + (s + i) = m - (n - s) + i
      BY <1>1
    <3> QED
      BY <2>2, <3>1
  <2> QED
    BY <2>1, <2>2
<1> QED
  BY <1>1, <1>4, <1>5, <1>6, <1>7 DEF n, m

-----------------------------------------------------------------------------
(* A pattern of at most one star matches what it means.                    *)

\* Where the characters before a star end, and those after it, counted from the end.
LEMMA EndsWithoutStar ==
    ASSUME NEW n \in Nat, NEW end \in [0 .. n -> Nat], end[0] = 0, NEW s \in 0 .. n,
           \A i \in 1 .. s : end[i] = end[i - 1] + 1
    PROVE  \A i \in 0 .. s : end[i] = i
<1> DEFINE T == {i \in 0 .. s : end[i] # i}
<1>1. SUFFICES ASSUME T # {} PROVE FALSE
  OBVIOUS
<1>2. PICK k \in T : \A i \in T : k <= i
  <2>1. T \subseteq Nat
    OBVIOUS
  <2> HIDE DEF T
  <2> QED
    BY <1>1, <2>1, LeastNat
<1>3. k \in 1 .. s
  OBVIOUS
<1>4. k - 1 \in 0 .. s /\ k - 1 \notin T
  BY <1>2, <1>3
<1>5. end[k - 1] = k - 1
  BY <1>4
<1> QED
  BY <1>3, <1>5

LEMMA EndsAfterStar ==
    ASSUME NEW n \in Nat, NEW end \in [0 .. n -> Nat], NEW s \in 0 .. n,
           \A i \in s + 1 .. n : end[i] = end[i - 1] + 1
    PROVE  \A i \in s .. n : end[i] = end[n] - (n - i)
<1> DEFINE T == {j \in 0 .. n - s : end[n - j] # end[n] - j}
<1>1. SUFFICES ASSUME T # {} PROVE FALSE
  <2>1. ASSUME T = {}, NEW i \in s .. n
        PROVE  end[i] = end[n] - (n - i)
    <3>1. n - i \in 0 .. n - s /\ n - (n - i) = i
      OBVIOUS
    <3>2. end[n - (n - i)] = end[n] - (n - i)
      BY <2>1, <3>1
    <3> QED
      BY <3>1, <3>2
  <2> QED
    BY <2>1
<1>2. PICK k \in T : \A j \in T : k <= j
  <2>1. T \subseteq Nat
    OBVIOUS
  <2> HIDE DEF T
  <2> QED
    BY <1>1, <2>1, LeastNat
<1>3. k \in 1 .. n - s
  OBVIOUS
<1>4. k - 1 \in 0 .. n - s /\ k - 1 \notin T
  BY <1>2, <1>3
<1>5. end[n - (k - 1)] = end[n] - (k - 1)
  BY <1>4
<1>6. /\ n - (k - 1) \in s + 1 .. n /\ n - (k - 1) - 1 = n - k
      /\ n - k \in 0 .. n /\ n \in 0 .. n
  BY <1>3
<1>7. end[n - (k - 1)] = end[n - k] + 1
  BY <1>6
<1>8. end[n - k] \in Nat /\ end[n] \in Nat /\ k \in Nat
  BY <1>3, <1>6
<1>9. end[n - k] = end[n] - k
  BY <1>5, <1>7, <1>8
<1> QED
  BY <1>9

LEMMA MatchIsGlob ==
    ASSUME NEW pattern \in Seq(STRING), NEW path \in Seq(STRING), OneStar(pattern)
    PROVE  MatchRule(pattern, path) <=> Glob(pattern, path)
<1> DEFINE n == Len(pattern)
           m == Len(path)
           Cut(end) == /\ end[0] = 0 /\ end[n] = m
                       /\ \A i \in 1 .. n : IF pattern[i] = "*" THEN end[i - 1] <= end[i]
                                           ELSE end[i] = end[i - 1] + 1 /\ path[end[i]] = pattern[i]
<1>1. n \in Nat /\ m \in Nat /\ DOMAIN pattern = 1 .. n /\ DOMAIN path = 1 .. m
  OBVIOUS
<1>2. Glob(pattern, path) <=> \E end \in [0 .. n -> 0 .. m] : Cut(end)
  <2>1. Glob(pattern, path) <=>
        \E end \in [0 .. n -> 0 .. m] :
            /\ end[0] = 0 /\ end[n] = m
            /\ \A i \in DOMAIN pattern : IF pattern[i] = "*" THEN end[i - 1] <= end[i]
                                          ELSE end[i] = end[i - 1] + 1 /\ path[end[i]] = pattern[i]
    BY Zenon DEF Glob
  <2>2. DOMAIN pattern = 1 .. n
    BY <1>1
  <2> QED
    BY <2>1, <2>2, Zenon
<1>3. CASE \A i \in 1 .. n : pattern[i] # "*"
  <2>1. MatchRule(pattern, path) <=> path = pattern
    BY <1>1, <1>3, MatchWithoutStar
  <2> HIDE DEF n, m
  <2>2. ASSUME path = pattern
        PROVE  \E end \in [0 .. n -> 0 .. m] : Cut(end)
    <3> DEFINE end == [i \in 0 .. n |-> i]
    <3>1. n = m
      BY <2>2 DEF n, m
    <3>2. end \in [0 .. n -> 0 .. m]
      BY <3>1
    <3>3. \A i \in 1 .. n : end[i] = end[i - 1] + 1 /\ end[i] = i
      BY <1>1
    <3>4. end[0] = 0 /\ end[n] = m
      BY <1>1, <3>1
    <3>5. Cut(end)
      <4> HIDE DEF end
      <4> QED
        BY <1>3, <2>2, <3>3, <3>4
    <3> QED
      BY <3>2, <3>5
  <2>3. ASSUME NEW end \in [0 .. n -> 0 .. m], Cut(end)
        PROVE  path = pattern
    <3>1. \A i \in 1 .. n : end[i] = end[i - 1] + 1 /\ path[end[i]] = pattern[i]
      BY <1>3, <2>3
    <3>2. end \in [0 .. n -> Nat] /\ end[0] = 0 /\ n \in 0 .. n
      BY <1>1, <2>3
    <3>3. \A i \in 0 .. n : end[i] = i
      <4>1. n \in Nat /\ \A i \in 1 .. n : end[i] = end[i - 1] + 1
        BY <1>1, <3>1
      <4> HIDE DEF n, m
      <4> QED
        BY <3>2, <4>1, EndsWithoutStar, Zenon
    <3>4. m = n
      BY <1>1, <2>3, <3>3
    <3>5. \A i \in 1 .. n : path[i] = pattern[i]
      BY <1>1, <3>1, <3>3
    <3> QED
      BY <3>4, <3>5 DEF n, m
  <2> QED
    BY <1>2, <2>1, <2>2, <2>3
<1>4. ASSUME NEW s \in 1 .. n, pattern[s] = "*"
      PROVE  MatchRule(pattern, path) <=> Glob(pattern, path)
  <2>1. \A i \in 1 .. n : pattern[i] = "*" => i = s
    BY <1>1, <1>4 DEF OneStar
  <2>2. MatchRule(pattern, path) <=>
            /\ m >= n - 1
            /\ \A i \in 1 .. s - 1 : path[i] = pattern[i]
            /\ \A i \in s + 1 .. n : path[m - n + i] = pattern[i]
    <3>1. s \in DOMAIN pattern /\ \A i \in DOMAIN pattern : pattern[i] = "*" => s <= i
      BY <1>1, <2>1
    <3> QED
      BY <1>4, <3>1, MatchWithStar
  <2> HIDE DEF n, m
  <2>3. ASSUME m >= n - 1,
               \A i \in 1 .. s - 1 : path[i] = pattern[i],
               \A i \in s + 1 .. n : path[m - n + i] = pattern[i]
        PROVE  \E end \in [0 .. n -> 0 .. m] : Cut(end)
    <3> DEFINE end == [i \in 0 .. n |-> IF i < s THEN i ELSE m - n + i]
    <3>1. end \in [0 .. n -> 0 .. m]
      BY <1>1, <2>3
    <3>2. end[0] = 0 /\ end[n] = m
      BY <1>1
    <3>3. ASSUME NEW i \in 1 .. n
          PROVE  IF pattern[i] = "*" THEN end[i - 1] <= end[i]
                 ELSE end[i] = end[i - 1] + 1 /\ path[end[i]] = pattern[i]
      <4>1. i \in 0 .. n /\ i - 1 \in 0 .. n /\ i \in Nat /\ i - 1 \in Nat
        BY <1>1
      <4>2. CASE i = s
        BY <1>1, <1>4, <2>3, <4>1, <4>2
      <4>3. CASE i < s
        <5>1. end[i] = i /\ end[i - 1] = i - 1 /\ i \in 1 .. s - 1 /\ pattern[i] # "*"
          BY <1>1, <2>1, <4>1, <4>3
        <5> HIDE DEF end
        <5> QED
          BY <2>3, <4>1, <5>1
      <4>4. CASE i > s
        <5>1. end[i] = m - n + i /\ end[i - 1] = m - n + (i - 1) /\ i \in s + 1 .. n /\ pattern[i] # "*"
          BY <1>1, <2>1, <4>1, <4>4
        <5>2. m - n + i = (m - n + (i - 1)) + 1
          BY <1>1, <4>1
        <5> HIDE DEF end
        <5> QED
          BY <2>3, <5>1, <5>2
      <4> QED
        BY <4>1, <4>2, <4>3, <4>4
    <3>4. Cut(end)
      <4> HIDE DEF end
      <4> QED
        BY <3>2, <3>3
    <3> QED
      BY <3>1, <3>4
  <2>4. ASSUME NEW end \in [0 .. n -> 0 .. m], Cut(end)
        PROVE  /\ m >= n - 1
               /\ \A i \in 1 .. s - 1 : path[i] = pattern[i]
               /\ \A i \in s + 1 .. n : path[m - n + i] = pattern[i]
    <3>1. end \in [0 .. n -> Nat] /\ end[0] = 0 /\ end[n] = m
      BY <2>4
    <3>2. \A i \in 1 .. n : i # s => end[i] = end[i - 1] + 1 /\ path[end[i]] = pattern[i]
      BY <2>1, <2>4
    <3>3. end[s - 1] <= end[s]
      BY <1>4, <2>4
    <3>4. \A i \in 0 .. s - 1 : end[i] = i
      <4>1. s - 1 \in 0 .. n /\ \A i \in 1 .. s - 1 : i \in 1 .. n /\ i # s
        BY <1>1
      <4>2. \A i \in 1 .. s - 1 : end[i] = end[i - 1] + 1
        BY <3>2, <4>1
      <4> QED
        BY <1>1, <3>1, <4>1, <4>2, EndsWithoutStar, Zenon
    <3>5. \A i \in s .. n : end[i] = m - (n - i)
      <4>1. s \in 0 .. n /\ \A i \in s + 1 .. n : i \in 1 .. n /\ i # s
        BY <1>1
      <4>2. \A i \in s + 1 .. n : end[i] = end[i - 1] + 1
        BY <3>2, <4>1
      <4>3. \A i \in s .. n : end[i] = end[n] - (n - i)
        BY <1>1, <3>1, <4>1, <4>2, EndsAfterStar, Zenon
      <4> QED
        BY <3>1, <4>3
    <3>6. m >= n - 1
      <4>1. end[s - 1] = s - 1 /\ end[s] = m - (n - s)
        BY <1>1, <3>4, <3>5
      <4> QED
        BY <1>1, <3>3, <4>1
    <3>7. ASSUME NEW i \in 1 .. s - 1
          PROVE  path[i] = pattern[i]
      <4>1. i \in 1 .. n /\ i # s /\ end[i] = i
        BY <1>1, <3>4
      <4> QED
        BY <3>2, <4>1
    <3>8. ASSUME NEW i \in s + 1 .. n
          PROVE  path[m - n + i] = pattern[i]
      <4>1. i \in 1 .. n /\ i # s /\ end[i] = m - (n - i) /\ m - (n - i) = m - n + i
        BY <1>1, <3>5
      <4> QED
        BY <3>2, <4>1
    <3> QED
      BY <3>6, <3>7, <3>8
  <2> QED
    BY <1>2, <2>2, <2>3, <2>4
<1> QED
  BY <1>3, <1>4

-----------------------------------------------------------------------------
(* The rules of a configuration decide what they mean, in whatever order.  *)

Verdicts == {"undecided", "included", "excluded"}

\* What the loop has found after each of the first n rules.
Finds(found, n, rules, path) ==
    /\ found[0] = "undecided"
    /\ \A i \in 1 .. n : found[i] = Consider(found[i - 1], rules[i], path)

LEMMA VerdictsOnly ==
    ASSUME NEW verdict \in Verdicts, NEW rule, NEW path
    PROVE  Consider(verdict, rule, path) \in Verdicts
  BY DEF Consider, Verdicts

LEMMA LoopRuns ==
    ASSUME NEW rules \in Seq(Rule), NEW path
    PROVE  \A n \in 0 .. Len(rules) : \E found \in [0 .. n -> Verdicts] : Finds(found, n, rules, path)
<1> DEFINE Runs(n) == \E found \in [0 .. n -> Verdicts] : Finds(found, n, rules, path)
           T == {n \in 0 .. Len(rules) : ~Runs(n)}
<1>1. SUFFICES ASSUME T # {} PROVE FALSE
  OBVIOUS
<1>2. PICK n \in T : \A k \in T : n <= k
  <2>1. T \subseteq Nat
    OBVIOUS
  <2> HIDE DEF T
  <2> QED
    BY <1>1, <2>1, LeastNat
<1>3. n \in 0 .. Len(rules) /\ ~Runs(n)
  OBVIOUS
<1>4. CASE n = 0
  <2> DEFINE found == [i \in 0 .. 0 |-> "undecided"]
  <2>1. found \in [0 .. 0 -> Verdicts] /\ Finds(found, 0, rules, path)
    BY DEF Finds, Verdicts
  <2> QED
    BY <1>3, <1>4, <2>1
<1>5. CASE n # 0
  <2>1. n \in Nat /\ n - 1 \in 0 .. Len(rules) /\ ~(n <= n - 1)
    BY <1>3, <1>5
  <2>2. n - 1 \notin T
    BY <1>2, <2>1
  <2>3. PICK before \in [0 .. n - 1 -> Verdicts] : Finds(before, n - 1, rules, path)
    BY <2>1, <2>2
  <2> DEFINE last == Consider(before[n - 1], rules[n], path)
             found == [i \in 0 .. n |-> IF i = n THEN last ELSE before[i]]
  <2>4. last \in Verdicts
    BY <2>1, <2>3, VerdictsOnly
  <2> HIDE DEF last
  <2>5. found \in [0 .. n -> Verdicts]
    BY <2>1, <2>3, <2>4
  <2>6. found[0] = "undecided"
    BY <1>5, <2>1, <2>3 DEF Finds
  <2>7. ASSUME NEW i \in 1 .. n
        PROVE  found[i] = Consider(found[i - 1], rules[i], path)
    <3>1. found[i - 1] = before[i - 1]
      BY <2>1
    <3>2. CASE i = n
      BY <2>1, <3>1, <3>2 DEF last
    <3>3. CASE i # n
      <4>1. i \in 1 .. n - 1 /\ found[i] = before[i]
        BY <2>1, <3>3
      <4>2. before[i] = Consider(before[i - 1], rules[i], path)
        BY <2>3, <4>1 DEF Finds
      <4> QED
        BY <3>1, <4>1, <4>2
    <3> QED
      BY <3>2, <3>3
  <2>8. Finds(found, n, rules, path)
    <3> HIDE DEF found
    <3> QED
      BY <2>6, <2>7 DEF Finds
  <2> QED
    BY <1>3, <2>5, <2>8
<1> QED
  BY <1>4, <1>5

\* A negative match excludes for good, wherever it stands; a positive one includes
\* when there is none.
LEMMA LoopFinds ==
    ASSUME NEW rules \in Seq(Rule), NEW path,
           NEW found, Finds(found, Len(rules), rules, path)
    PROVE  found[Len(rules)] = "included" <=>
            /\ \E i \in DOMAIN rules : rules[i].positive /\ MatchRule(rules[i].pattern, path)
            /\ \A i \in DOMAIN rules : ~rules[i].positive => ~MatchRule(rules[i].pattern, path)
<1> DEFINE Hit(i) == MatchRule(rules[i].pattern, path)
           Positive(i) == rules[i].positive
           Included(n) == \E j \in 1 .. n : Positive(j) /\ Hit(j)
           Excluded(n) == \E j \in 1 .. n : ~Positive(j) /\ Hit(j)
           Known(n) == /\ found[n] \in Verdicts
                       /\ found[n] = "excluded" <=> Excluded(n)
                       /\ found[n] = "included" <=> Included(n) /\ ~Excluded(n)
           T == {n \in 0 .. Len(rules) : ~Known(n)}
<1>1. SUFFICES Known(Len(rules))
  OBVIOUS
<1>2. SUFFICES ASSUME T # {} PROVE FALSE
  OBVIOUS
<1>3. PICK n \in T : \A k \in T : n <= k
  <2>1. T \subseteq Nat
    OBVIOUS
  <2> HIDE DEF T
  <2> QED
    BY <1>2, <2>1, LeastNat
<1>4. n \in 0 .. Len(rules) /\ ~Known(n)
  OBVIOUS
<1>5. CASE n = 0
  <2>1. found[0] = "undecided"
    BY DEF Finds
  <2>2. ~Included(0) /\ ~Excluded(0)
    OBVIOUS
  <2> HIDE DEF Included, Excluded
  <2> QED
    BY <1>4, <1>5, <2>1, <2>2 DEF Verdicts
<1>6. CASE n # 0
  <2>1. n \in 1 .. Len(rules) /\ n - 1 \in 0 .. Len(rules) /\ ~(n <= n - 1)
    BY <1>4, <1>6
  <2>2. n - 1 \notin T
    BY <1>3, <2>1
  <2>3. Known(n - 1)
    BY <2>1, <2>2
  <2>4. found[n] = Consider(found[n - 1], rules[n], path)
    BY <2>1 DEF Finds
  <2>5. /\ Included(n) <=> Included(n - 1) \/ (Positive(n) /\ Hit(n))
        /\ Excluded(n) <=> Excluded(n - 1) \/ (~Positive(n) /\ Hit(n))
    <3>1. 1 .. n = 1 .. n - 1 \cup {n}
      BY <2>1
    <3> HIDE DEF Positive, Hit
    <3> QED
      BY <3>1
  <2>6. Hit(n) <=> MatchRule(rules[n].pattern, path)
    OBVIOUS
  <2>7. Positive(n) <=> rules[n].positive
    OBVIOUS
  <2> HIDE DEF Included, Excluded, Hit, Positive
  <2>8. Known(n)
    BY <2>3, <2>4, <2>5, <2>6, <2>7 DEF Consider, Verdicts
  <2> QED
    BY <1>4, <2>8
<1> QED
  BY <1>5, <1>6

LEMMA RulesMean ==
    ASSUME NEW rules \in Seq(Rule), NEW path \in Seq(STRING), Understood(rules)
    PROVE  RulesInclude(rules, path) <=> Means(rules, path)
<1> DEFINE Run(found) == [i \in 0 .. Len(rules) |->
                            IF i = 0 THEN "undecided" ELSE Consider(found[i - 1], rules[i], path)]
           found == CHOOSE f : f = Run(f)
<1>1. RulesInclude(rules, path) <=> found[Len(rules)] = "included"
  BY DEF RulesInclude
<1>2. Len(rules) \in Nat
  OBVIOUS
<1>3. \E f : f = Run(f)
  <2>1. PICK f \in [0 .. Len(rules) -> Verdicts] : Finds(f, Len(rules), rules, path)
    BY <1>2, LoopRuns
  <2>2. \A i \in 0 .. Len(rules) :
            f[i] = IF i = 0 THEN "undecided" ELSE Consider(f[i - 1], rules[i], path)
    BY <1>2, <2>1 DEF Finds
  <2>3. f = [i \in 0 .. Len(rules) |-> f[i]]
    BY <2>1
  <2>4. f = Run(f)
    BY <2>2, <2>3
  <2> QED
    BY <2>4
<1>4. found = Run(found)
  <2> HIDE DEF Run
  <2> QED
    BY <1>3
<1> HIDE DEF found
<1>5. Finds(found, Len(rules), rules, path)
  BY <1>2, <1>4 DEF Finds
<1>6. \A i \in DOMAIN rules : MatchRule(rules[i].pattern, path) <=> Glob(rules[i].pattern, path)
  <2>1. ASSUME NEW i \in DOMAIN rules
        PROVE  rules[i].pattern \in Seq(STRING) /\ OneStar(rules[i].pattern)
    <3>1. rules[i] \in Rule
      OBVIOUS
    <3>2. rules[i].pattern \in Seq(STRING)
      BY <3>1 DEF Rule
    <3> QED
      BY <3>2 DEF Understood
  <2> QED
    BY <2>1, MatchIsGlob
<1> QED
  BY <1>1, <1>5, <1>6, LoopFinds DEF Means

-----------------------------------------------------------------------------
(* The type of a file is found from its first bytes.                       *)

\* The bytes that tell a signature from the others.
Starts(i, b) ==
    /\ i = 1 => b[1] = 255 /\ b[2] = 216
    /\ i = 2 => b[1] = 137
    /\ i = 3 => b[1] = 71
    /\ i = 4 => b[1] = 82
    /\ i \in {5, 6} => b[1] = 60
    /\ i = 7 => Matches(Ftyp, b) /\ b[5] = 102 /\ b[9] = 97
    /\ i = 8 => 4 \in DOMAIN b /\ b[1] = 0 /\ b[2] = 0 /\ b[3] = 1 /\ b[4] = 0
    /\ i = 9 => b[1] = 105
    /\ i = 10 => b[1] = 73
    /\ i = 11 => b[1] = 66
    /\ i = 12 => b[1] = 255 /\ b[2] = 10
    /\ i = 13 => b[1] = 0 /\ b[3] = 0 /\ b[5] = 74
    /\ i = 14 => Matches(Ftyp, b) /\ b[5] = 102 /\ b[9] = 104
    /\ i = 15 => b[1] = 0 /\ b[3] = 0 /\ b[5] = 106

SignatureType == <<"jpeg", "png", "gif", "webp", "svg", "svg", "avif", "ico", "icns",
                   "tiff", "bmp", "jxl", "jxl", "heic", "jp2">>

LEMMA SignatureTypes ==
    /\ DOMAIN Signatures = 1 .. 15 /\ Len(Signatures) = 15
    /\ \A i \in 1 .. 15 : Signatures[i].type = SignatureType[i]
<1>1. DOMAIN Signatures = 1 .. 15 /\ Len(Signatures) = 15
  BY DEF Signatures
<1>2. /\ Signatures[1].type = SignatureType[1]
      /\ Signatures[2].type = SignatureType[2]
      /\ Signatures[3].type = SignatureType[3]
      /\ Signatures[4].type = SignatureType[4]
      /\ Signatures[5].type = SignatureType[5]
  BY DEF Signatures, Signature, SignatureType
<1>3. /\ Signatures[6].type = SignatureType[6]
      /\ Signatures[7].type = SignatureType[7]
      /\ Signatures[8].type = SignatureType[8]
      /\ Signatures[9].type = SignatureType[9]
      /\ Signatures[10].type = SignatureType[10]
  BY DEF Signatures, Signature, SignatureType
<1>4. /\ Signatures[11].type = SignatureType[11]
      /\ Signatures[12].type = SignatureType[12]
      /\ Signatures[13].type = SignatureType[13]
      /\ Signatures[14].type = SignatureType[14]
      /\ Signatures[15].type = SignatureType[15]
  BY DEF Signatures, Signature, SignatureType
<1>5. ASSUME NEW i \in 1 .. 15
      PROVE  Signatures[i].type = SignatureType[i]
  <2>1. \/ i = 1 \/ i = 2 \/ i = 3 \/ i = 4 \/ i = 5 \/ i = 6 \/ i = 7 \/ i = 8
        \/ i = 9 \/ i = 10 \/ i = 11 \/ i = 12 \/ i = 13 \/ i = 14 \/ i = 15
    OBVIOUS
  <2> QED
    BY <1>2, <1>3, <1>4, <2>1
<1> QED
  BY <1>1, <1>5

LEMMA MatchesAt ==
    ASSUME NEW s, NEW b, Matches(s, b), NEW i \in DOMAIN s, s[i] # Wild
    PROVE  i \in DOMAIN b /\ b[i] = s[i]
  BY DEF Matches

LEMMA FtypIs ==
    /\ Ftyp \in Seq(Nat) /\ Len(Ftyp) = 8
    /\ Ftyp[5] = 102
  BY DEF Ftyp, Anything, Wild

\* A brand after the type of the first box.
LEMMA BrandStarts ==
    ASSUME NEW brand \in Seq(Nat), Len(brand) = 4, brand[1] # Wild, NEW b, Matches(Ftyp \o brand, b)
    PROVE  Matches(Ftyp, b) /\ b[5] = 102 /\ b[9] = brand[1]
<1> DEFINE s == Ftyp \o brand
<1>1. Ftyp \in Seq(Nat) /\ Len(Ftyp) = 8 /\ Len(brand) = 4
  BY FtypIs
<1>2. /\ s \in Seq(Nat) /\ Len(s) = Len(Ftyp) + Len(brand)
      /\ \A i \in 1 .. Len(Ftyp) + Len(brand) : s[i] = IF i <= Len(Ftyp) THEN Ftyp[i] ELSE brand[i - Len(Ftyp)]
  BY <1>1, ConcatProperties
<1> HIDE DEF s
<1>3. /\ DOMAIN s = 1 .. 12 /\ DOMAIN Ftyp = 1 .. 8
      /\ \A i \in 1 .. 8 : s[i] = Ftyp[i]
  BY <1>1, <1>2
<1>4. s[9] = brand[1]
  BY <1>1, <1>2
<1>5. Matches(s, b)
  BY DEF s
<1>6. b[5] = 102 /\ b[9] = brand[1]
  <2>1. 5 \in DOMAIN s /\ s[5] = 102 /\ 9 \in DOMAIN s
    BY <1>3, FtypIs
  <2> QED
    BY <1>4, <1>5, <2>1, MatchesAt DEF Wild
<1>7. Matches(Ftyp, b)
  BY <1>3, <1>5 DEF Matches
<1> QED
  BY <1>6, <1>7

LEMMA SignatureStarts ==
    ASSUME NEW b, NEW i \in 1 .. 15, Matches(Signatures[i].bytes, b)
    PROVE  Starts(i, b)
<1>1. CASE i = 1
  <2>1. Signatures[1].bytes = <<255, 216, 255>>
    BY DEF Signatures, Signature
  <2>2. b[1] = 255 /\ b[2] = 216
    BY <1>1, <2>1, MatchesAt DEF Wild
  <2> QED
    BY <1>1, <2>2 DEF Starts
<1>2. CASE i = 2
  <2>1. Signatures[2].bytes = <<137, 80, 78, 71, 13, 10, 26, 10>>
    BY DEF Signatures, Signature
  <2>2. b[1] = 137
    BY <1>2, <2>1, MatchesAt DEF Wild
  <2> QED
    BY <1>2, <2>2 DEF Starts
<1>3. CASE i = 3
  <2>1. Signatures[3].bytes = <<71, 73, 70, 56>>
    BY DEF Signatures, Signature
  <2>2. b[1] = 71
    BY <1>3, <2>1, MatchesAt DEF Wild
  <2> QED
    BY <1>3, <2>2 DEF Starts
<1>4. CASE i = 4
  <2>1. Signatures[4].bytes = <<82, 73, 70, 70>> \o Anything \o <<87, 69, 66, 80>>
    BY DEF Signatures, Signature
  <2>2. Signatures[4].bytes[1] = 82 /\ 1 \in DOMAIN Signatures[4].bytes
    BY <2>1 DEF Anything, Wild
  <2>3. b[1] = 82
    BY <1>4, <2>2, MatchesAt DEF Wild
  <2> QED
    BY <1>4, <2>3 DEF Starts
<1>5. CASE i = 5
  <2>1. Signatures[5].bytes = <<60, 63, 120, 109, 108>>
    BY DEF Signatures, Signature
  <2>2. b[1] = 60
    BY <1>5, <2>1, MatchesAt DEF Wild
  <2> QED
    BY <1>5, <2>2 DEF Starts
<1>6. CASE i = 6
  <2>1. Signatures[6].bytes = <<60, 115, 118, 103>>
    BY DEF Signatures, Signature
  <2>2. b[1] = 60
    BY <1>6, <2>1, MatchesAt DEF Wild
  <2> QED
    BY <1>6, <2>2 DEF Starts
<1>7. CASE i = 7
  <2> DEFINE brand == <<97, 118, 105, 102>>
  <2>1. Signatures[7].bytes = Ftyp \o brand
    BY DEF Signatures, Signature
  <2>2. Matches(Ftyp, b) /\ b[5] = 102 /\ b[9] = 97
    <3>1. brand \in Seq(Nat) /\ Len(brand) = 4 /\ brand[1] = 97
      OBVIOUS
    <3>2. Matches(Ftyp \o brand, b)
      BY <1>7, <2>1
    <3> HIDE DEF brand
    <3> QED
      BY <3>1, <3>2, BrandStarts DEF Wild
  <2> QED
    BY <1>7, <2>2 DEF Starts
<1>8. CASE i = 8
  <2>1. Signatures[8].bytes = <<0, 0, 1, 0>>
    BY DEF Signatures, Signature
  <2>2. 4 \in DOMAIN b /\ b[1] = 0 /\ b[2] = 0 /\ b[3] = 1 /\ b[4] = 0
    BY <1>8, <2>1, MatchesAt DEF Wild
  <2> QED
    BY <1>8, <2>2 DEF Starts
<1>9. CASE i = 9
  <2>1. Signatures[9].bytes = <<105, 99, 110, 115>>
    BY DEF Signatures, Signature
  <2>2. b[1] = 105
    BY <1>9, <2>1, MatchesAt DEF Wild
  <2> QED
    BY <1>9, <2>2 DEF Starts
<1>10. CASE i = 10
  <2>1. Signatures[10].bytes = <<73, 73, 42, 0>>
    BY DEF Signatures, Signature
  <2>2. b[1] = 73
    BY <1>10, <2>1, MatchesAt DEF Wild
  <2> QED
    BY <1>10, <2>2 DEF Starts
<1>11. CASE i = 11
  <2>1. Signatures[11].bytes = <<66, 77>>
    BY DEF Signatures, Signature
  <2>2. b[1] = 66
    BY <1>11, <2>1, MatchesAt DEF Wild
  <2> QED
    BY <1>11, <2>2 DEF Starts
<1>12. CASE i = 12
  <2>1. Signatures[12].bytes = <<255, 10>>
    BY DEF Signatures, Signature
  <2>2. b[1] = 255 /\ b[2] = 10
    BY <1>12, <2>1, MatchesAt DEF Wild
  <2> QED
    BY <1>12, <2>2 DEF Starts
<1>13. CASE i = 13
  <2>1. Signatures[13].bytes = <<0, 0, 0, 12, 74, 88, 76, 32, 13, 10, 135, 10>>
    BY DEF Signatures, Signature
  <2>2. b[1] = 0 /\ b[3] = 0 /\ b[5] = 74
    BY <1>13, <2>1, MatchesAt DEF Wild
  <2> QED
    BY <1>13, <2>2 DEF Starts
<1>14. CASE i = 14
  <2> DEFINE brand == <<104, 101, 105, 99>>
  <2>1. Signatures[14].bytes = Ftyp \o brand
    BY DEF Signatures, Signature
  <2>2. Matches(Ftyp, b) /\ b[5] = 102 /\ b[9] = 104
    <3>1. brand \in Seq(Nat) /\ Len(brand) = 4 /\ brand[1] = 104
      OBVIOUS
    <3>2. Matches(Ftyp \o brand, b)
      BY <1>14, <2>1
    <3> HIDE DEF brand
    <3> QED
      BY <3>1, <3>2, BrandStarts DEF Wild
  <2> QED
    BY <1>14, <2>2 DEF Starts
<1>15. CASE i = 15
  <2>1. Signatures[15].bytes = <<0, 0, 0, 12, 106, 80, 32, 32, 13, 10, 135, 10>>
    BY DEF Signatures, Signature
  <2>2. b[1] = 0 /\ b[3] = 0 /\ b[5] = 106
    BY <1>15, <2>1, MatchesAt DEF Wild
  <2> QED
    BY <1>15, <2>2 DEF Starts
<1> QED
  BY <1>1, <1>2, <1>3, <1>4, <1>5, <1>6, <1>7, <1>8, <1>9, <1>10, <1>11, <1>12, <1>13, <1>14, <1>15

\* The type that is found is that of the first signature that matches.
LEMMA FirstSignature ==
    ASSUME NEW b
    PROVE  \/ DetectImageContentType(b) = Null /\ \A i \in 1 .. 15 : ~Matches(Signatures[i].bytes, b)
           \/ \E k \in 1 .. 15 : /\ DetectImageContentType(b) = SignatureType[k]
                                 /\ Matches(Signatures[k].bytes, b)
                                 /\ \A i \in 1 .. 15 : Matches(Signatures[i].bytes, b) => k <= i
<1> DEFINE I == {i \in 1 .. Len(Signatures) : Matches(Signatures[i].bytes, b)}
<1>1. DetectImageContentType(b) = LET first == IF I # {} THEN Min(I) ELSE 0
                                  IN  IF first = 0 THEN Null ELSE Signatures[first].type
  BY DEF DetectImageContentType, SelectInSeq
<1>2. CASE I = {}
  BY <1>1, <1>2, SignatureTypes
<1>3. CASE I # {}
  <2>1. I \subseteq Nat /\ \A i \in I : i \in 1 .. 15
    BY SignatureTypes
  <2> HIDE DEF I
  <2>2. Min(I) \in I /\ \A i \in I : Min(I) <= i
    BY <1>3, <2>1, MinIsLeast
  <2>3. PICK k : k = Min(I)
    OBVIOUS
  <2>4. k \in 1 .. 15 /\ k \in I /\ \A i \in I : k <= i
    BY <2>1, <2>2, <2>3
  <2>5. DetectImageContentType(b) = SignatureType[k]
    BY <1>1, <1>3, <2>3, <2>4, SignatureTypes
  <2> QED
    BY <2>4, <2>5, SignatureTypes DEF I
<1> QED
  BY <1>2, <1>3

LEMMA Branded ==
    \A i \in 1 .. 15 : SignatureType[i] \in {"avif", "heic"} => i \in {7, 14}
<1> SUFFICES ASSUME NEW i \in 1 .. 15, i \notin {7, 14}
             PROVE  SignatureType[i] \notin {"avif", "heic"}
  OBVIOUS
<1>1. \/ i = 1 \/ i = 2 \/ i = 3 \/ i = 4 \/ i = 5 \/ i = 6 \/ i = 8
      \/ i = 9 \/ i = 10 \/ i = 11 \/ i = 12 \/ i = 13 \/ i = 15
  OBVIOUS
<1>2. CASE i = 1 \/ i = 2 \/ i = 3 \/ i = 4 \/ i = 5 \/ i = 6 \/ i = 8
  BY <1>2 DEF SignatureType
<1>3. CASE i = 9 \/ i = 10 \/ i = 11 \/ i = 12 \/ i = 13 \/ i = 15
  BY <1>3 DEF SignatureType
<1> QED
  BY <1>1, <1>2, <1>3

LEMMA DetectedIs ==
    ASSUME NEW file \in Files
    PROVE  \/ DetectImageContentType(file.bytes) = file.type
           \/ file.type = "heic" /\ SubSeq(file.bytes, 1, 4) = <<0, 0, 1, 0>>
<1> DEFINE b == file.bytes
           Hit(i) == Matches(Signatures[i].bytes, b)
<1>1. /\ b \in Seq(0 .. 255)
      /\ \/ file.type = Null /\ \A i \in 1 .. 15 : ~Hit(i)
         \/ \E i \in 1 .. 15 : file.type = SignatureType[i] /\ Hit(i)
      /\ Matches(Ftyp, b) => file.type \in {"avif", "heic"} /\ b[1] = 0
  BY FilesAssumption, SignatureTypes
<1>2. \A i \in 1 .. 15 : Hit(i) => Starts(i, b)
  BY SignatureStarts
<1>3. \/ DetectImageContentType(b) = Null /\ \A i \in 1 .. 15 : ~Hit(i)
      \/ \E k \in 1 .. 15 : /\ DetectImageContentType(b) = SignatureType[k]
                            /\ Hit(k)
                            /\ \A i \in 1 .. 15 : Hit(i) => k <= i
  BY FirstSignature
<1> HIDE DEF Hit, b
<1>4. CASE \A i \in 1 .. 15 : ~Hit(i)
  BY <1>1, <1>3, <1>4 DEF b
<1>5. ASSUME NEW i \in 1 .. 15, file.type = SignatureType[i], Hit(i),
             NEW k \in 1 .. 15, DetectImageContentType(b) = SignatureType[k], Hit(k), k <= i
      PROVE  \/ SignatureType[k] = file.type
             \/ file.type = "heic" /\ SubSeq(b, 1, 4) = <<0, 0, 1, 0>>
  <2>1. Starts(i, b) /\ Starts(k, b)
    BY <1>2, <1>5
  <2>2. CASE k = 8 /\ i = 14
    <3>1. 4 \in DOMAIN b /\ b[1] = 0 /\ b[2] = 0 /\ b[3] = 1 /\ b[4] = 0
      BY <2>1, <2>2 DEF Starts
    <3>2. /\ SubSeq(b, 1, 4) \in Seq(0 .. 255) /\ Len(SubSeq(b, 1, 4)) = 4
          /\ \A j \in 1 .. 4 : SubSeq(b, 1, 4)[j] = b[j]
      BY <1>1, <3>1
    <3>3. SubSeq(b, 1, 4) = <<0, 0, 1, 0>>
      <4> DEFINE t == <<0, 0, 1, 0>>
      <4>1. t \in Seq(Nat) /\ Len(t) = 4 /\ t[1] = 0 /\ t[2] = 0 /\ t[3] = 1 /\ t[4] = 0
        OBVIOUS
      <4>2. SubSeq(b, 1, 4) \in Seq(Nat)
        BY <3>2
      <4> HIDE DEF t
      <4>3. \A j \in 1 .. 4 : SubSeq(b, 1, 4)[j] = t[j]
        BY <3>1, <3>2, <4>1
      <4>4. SubSeq(b, 1, 4) = t
        BY <3>2, <4>1, <4>2, <4>3, SeqEqual
      <4> QED
        BY <4>4 DEF t
    <3> QED
      BY <1>5, <2>2, <3>3 DEF SignatureType
  <2>3. CASE ~(k = 8 /\ i = 14)
    <3>1. i \notin {7, 14} => ~Matches(Ftyp, b)
      <4>1. SignatureType[i] \in {"avif", "heic"} => i \in {7, 14}
        BY <1>5, Branded
      <4> QED
        BY <1>1, <1>5, <4>1 DEF b
    <3>2. i \in {7, 14} => b[1] = 0
      BY <1>1, <2>1 DEF Starts
    <3>3. k = i \/ (k = 5 /\ i = 6)
      BY <1>5, <2>1, <2>3, <3>1, <3>2 DEF Starts
    <3> QED
      BY <1>5, <3>3 DEF SignatureType
  <2> QED
    BY <2>2, <2>3
<1> QED
  BY <1>1, <1>3, <1>4, <1>5 DEF b

-----------------------------------------------------------------------------
(* What is true of every request.                                          *)

\* An answer that is an image declares what it is, in a format that it may have.
TrueReply(r, reply) ==
    /\ \/ reply.declared = reply.body
       \/ reply.body = "heic" /\ SubSeq(image[r].file.bytes, 1, 4) = <<0, 0, 1, 0>>
    /\ IsImage(r) =>
        \/ reply.declared \in {Detected(r)} \cup (request[r].accept \cap ToSet(Formats))
        \/ reply.declared = "webp" /\ "avif" \in request[r].accept \cup {Detected(r)}

\* The variables are arrays of a request each.
Arrays ==
    /\ request = [r \in Requests |-> request[r]]
    /\ at = [r \in Requests |-> at[r]]
    /\ parsed = [r \in Requests |-> parsed[r]]
    /\ left = [r \in Requests |-> left[r]]
    /\ image = [r \in Requests |-> image[r]]
    /\ answer = [r \in Requests |-> answer[r]]

RowTyped(r) ==
    /\ at[r] \in Stages
    /\ left[r] \in 0 .. MaxRedirects
    /\ IF at[r] = "idle" THEN request[r] = Null ELSE request[r] \in Inputs
    /\ IF at[r] = "done" THEN answer[r] \in Replies ELSE answer[r] = Null
    /\ at[r] \in {"header", "transform"} => image[r].file \in Files /\ image[r].immutable \in BOOLEAN

\* Who handles a request, and with what.
RowHandled(r) ==
    /\ at[r] \in {"fetch", "header", "transform"} =>
        /\ request[r].to \in {"image", "cdn"}
        /\ parsed[r] = Parsed(request[r]) /\ parsed[r] # Null
    /\ at[r] = "transform" => IsImage(r) /\ ~Refused(r)
    /\ at[r] \in {"routing", "asset"} => request[r].to = "app"
    /\ at[r] = "asset" =>
        /\ config.assets /\ request[r].method \in {"GET", "HEAD"}
        /\ IsUserWorkerFirst(config.runFirst, request[r].path)

\* Only a GET that is told that nothing was modified is given an endless body.
GoodReply(r, reply) ==
    /\ reply.declared # Null => TrueReply(r, reply)
    /\ reply.body = "endless" => request[r].method = "GET" /\ reply.status = 304

RowAnswered(r) == at[r] = "done" => GoodReply(r, answer[r])

RowInv(r) == RowTyped(r) /\ RowHandled(r) /\ RowAnswered(r)

Inv ==
    /\ config \in Configs
    /\ origin = Undefined \/ \E input \in Inputs : origin = input.host
    /\ Arrays
    /\ \A r \in Requests : RowInv(r)

Row(r) == <<request[r], at[r], parsed[r], left[r], image[r], answer[r]>>

\* What a step leaves of the other requests.
Others(r) == config' = config /\ \A s \in Requests \ {r} : UNCHANGED Row(s)

LEMMA RowKept ==
    ASSUME NEW r \in Requests, RowInv(r), UNCHANGED <<config, Row(r)>>
    PROVE  RowInv(r)'
<1>1. UNCHANGED <<request[r], at[r], parsed[r], left[r], image[r], answer[r]>> /\ config' = config
  BY DEF Row
<1>2. UNCHANGED <<Detected(r), IsImage(r)>>
  BY <1>1 DEF Detected, IsImage
<1>3. RowTyped(r)'
  BY <1>1 DEF RowInv, RowTyped
<1>4. RowHandled(r)'
  <2>1. UNCHANGED Refused(r)
    BY <1>1, <1>2 DEF Refused
  <2> QED
    BY <1>1, <1>2, <2>1 DEF RowInv, RowHandled
<1>5. RowAnswered(r)'
  BY <1>1, <1>2 DEF RowInv, RowAnswered, GoodReply, TrueReply
<1> QED
  BY <1>3, <1>4, <1>5 DEF RowInv

\* What is answered without an image.
Texts == {reply \in Replies : reply.declared = Null /\ reply.body = "text"}

LEMMA TextReplies ==
    /\ \A status \in Nat : Text(status) \in Texts /\ Upstream(status) \in Texts
    /\ Thrown \in Texts
<1>1. ASSUME NEW status \in Nat
      PROVE  Text(status) \in Texts
  <2>1. Text(status) = [status |-> status, declared |-> Null, body |-> "text", immutable |-> FALSE]
    BY DEF Text, Reply
  <2> QED
    BY <2>1 DEF Texts, Replies
<1>2. Thrown \in Texts
  BY <1>1 DEF Thrown
<1> QED
  BY <1>1, <1>2 DEF Upstream

LEMMA TextsAreGood ==
    ASSUME NEW r, NEW reply \in Texts
    PROVE  reply \in Replies /\ GoodReply(r, reply)
  BY DEF Texts, GoodReply

LEMMA AssetReplies ==
    ASSUME NEW r, AssetAnswers(r)
    PROVE  \/ Goto(r, "routed")
           \/ \E reply \in Replies :
                Finish(r, reply) /\ (request[r].method \in {"GET", "HEAD"} => GoodReply(r, reply))
<1>1. CASE Finish(r, Thrown)
  BY <1>1, TextReplies, TextsAreGood
<1>2. CASE ~Finish(r, Thrown) /\ ~Goto(r, "routed")
  <2>1. PICK status \in {200, 304} :
            LET body == IF status = 304 \/ request[r].method = "HEAD" THEN Null ELSE "text"
            IN  Finish(r, Reply(status, Null, GetResponseBody(request[r].method, body), FALSE))
    BY <1>2, Zenon DEF AssetAnswers
  <2> DEFINE body == IF status = 304 \/ request[r].method = "HEAD" THEN Null ELSE "text"
             given == GetResponseBody(request[r].method, body)
             reply == Reply(status, Null, given, FALSE)
  <2>2. Finish(r, reply)
    BY <2>1
  <2>3. /\ given \in {"text", "endless", Null}
        /\ given = "endless" => request[r].method # "HEAD" /\ status = 304
    BY NullAssumption DEF GetResponseBody
  <2> HIDE DEF given
  <2>4. reply \in Replies /\ reply.declared = Null /\ reply.body = given /\ reply.status = status
    BY <2>3 DEF Reply, Replies
  <2>5. request[r].method \in {"GET", "HEAD"} => GoodReply(r, reply)
    BY <2>3, <2>4 DEF GoodReply
  <2> HIDE DEF reply
  <2> QED
    BY <2>2, <2>4, <2>5
<1> QED
  BY <1>1, <1>2

LEMMA OneAtATime ==
    ASSUME Arrays, NEW r \in Requests, (\E input \in Inputs : Receive(r, input)) \/ Answers(r)
    PROVE  Arrays' /\ Others(r)
<1> USE DEF Arrays, Others, Row, routing, Finish, Goto
<1>1. ASSUME NEW input \in Inputs, Receive(r, input)
      PROVE  Arrays' /\ Others(r)
  <2>1. \E stage, reply : at' = [at EXCEPT ![r] = stage] /\ answer' \in {answer, [answer EXCEPT ![r] = reply]}
    BY <1>1 DEF Receive, StartImage
  <2> QED
    BY <1>1, <2>1 DEF Receive
<1>2. CASE Served(r)
  BY <1>2 DEF Served
<1>3. CASE Redirected(r)
  BY <1>3 DEF Redirected
<1>4. CASE FetchFails(r)
  BY <1>4 DEF FetchFails
<1>5. CASE NoImage(r)
  <2>1. \E reply : at' = [at EXCEPT ![r] = "done"] /\ answer' = [answer EXCEPT ![r] = reply]
    BY <1>5 DEF NoImage
  <2>2. UNCHANGED <<config, request, parsed, left, image>>
    BY <1>5 DEF NoImage
  <2> QED
    BY <2>1, <2>2
<1>6. CASE GotImage(r)
  BY <1>6 DEF GotImage
<1>7. CASE ReadHeader(r)
  BY <1>7 DEF ReadHeader, AsIs
<1>8. CASE HeaderLost(r)
  BY <1>8 DEF HeaderLost
<1>9. CASE Transformed(r)
  BY <1>9 DEF Transformed
<1>10. CASE TransformFails(r)
  BY <1>10 DEF TransformFails
<1>11. CASE AskForAsset(r)
  BY <1>11 DEF AskForAsset
<1>12. CASE AssetAnswers(r)
  <2>1. \E stage, reply : at' = [at EXCEPT ![r] = stage] /\ answer' \in {answer, [answer EXCEPT ![r] = reply]}
    <3>1. CASE Goto(r, "routed")
      BY <3>1
    <3>2. CASE \E reply : Finish(r, reply)
      BY <3>2
    <3> QED
      BY <1>12, <3>1, <3>2, AssetReplies
  <2>2. UNCHANGED <<config, request, parsed, left, image>>
    BY <1>12 DEF AssetAnswers
  <2> QED
    BY <2>1, <2>2
<1> QED
  BY <1>1, <1>2, <1>3, <1>4, <1>5, <1>6, <1>7, <1>8, <1>9, <1>10, <1>11, <1>12 DEF Answers

LEMMA DetectedTypes ==
    ASSUME NEW bytes
    PROVE  DetectImageContentType(bytes) \in ContentTypes \cup {Null}
<1>1. \A k \in 1 .. 15 : SignatureType[k] \in ContentTypes
  BY DEF SignatureType, ContentTypes
<1> QED
  BY <1>1, FirstSignature

LEMMA FileTypes ==
    ASSUME NEW file \in Files
    PROVE  file.type \in ContentTypes \cup {Null}
<1>1. \A k \in 1 .. 15 : SignatureType[k] \in ContentTypes
  BY DEF SignatureType, ContentTypes
<1>2. file.type = Null \/ \E i \in DOMAIN Signatures : file.type = Signatures[i].type
  BY FilesAssumption
<1>3. file.type = Null \/ \E i \in 1 .. 15 : file.type = SignatureType[i]
  BY <1>2, SignatureTypes
<1> QED
  BY <1>1, <1>3

\* A request that is answered keeps to what is true of it when its reply does.
LEMMA FinishRow ==
    ASSUME Arrays, NEW r \in Requests, RowInv(r), at[r] \notin {"idle", "done"},
           NEW reply \in Replies, GoodReply(r, reply),
           Finish(r, reply), UNCHANGED <<config, request, parsed, left, image>>
    PROVE  RowInv(r)'
<1>1. at'[r] = "done" /\ answer'[r] = reply
  BY DEF Arrays, Finish
<1>2. RowTyped(r)'
  BY <1>1 DEF RowInv, RowTyped, Stages
<1>3. RowHandled(r)'
  BY <1>1 DEF RowHandled
<1>4. RowAnswered(r)'
  <2>1. UNCHANGED <<Detected(r), IsImage(r)>>
    BY DEF Detected, IsImage
  <2> QED
    BY <1>1, <2>1 DEF RowAnswered, GoodReply, TrueReply
<1> QED
  BY <1>2, <1>3, <1>4 DEF RowInv

LEMMA FormatAccepted ==
    ASSUME NEW accept
    PROVE  Format(accept) = Null \/ Format(accept) \in accept \cap ToSet(Formats)
<1> DEFINE I == {i \in 1 .. Len(Formats) : Formats[i] \in accept}
<1>1. Format(accept) = LET first == IF I # {} THEN Min(I) ELSE 0
                       IN  IF first = 0 THEN Null ELSE Formats[first]
  BY DEF Format, SelectInSeq
<1>2. CASE I = {}
  BY <1>1, <1>2
<1>3. CASE I # {}
  <2>1. I \subseteq Nat /\ \A i \in I : i \in 1 .. Len(Formats) /\ Formats[i] \in accept
    OBVIOUS
  <2> HIDE DEF I
  <2>2. Min(I) \in I
    BY <1>3, <2>1, MinIsLeast
  <2>3. PICK m : m = Min(I)
    OBVIOUS
  <2>4. m \in 1 .. Len(Formats) /\ Formats[m] \in accept /\ m # 0
    <3>1. m \in I
      BY <2>2, <2>3
    <3>2. m \in 1 .. Len(Formats) /\ Formats[m] \in accept
      BY <2>1, <3>1
    <3>3. Len(Formats) \in Nat
      BY FormatsAssumption
    <3> QED
      BY <3>2, <3>3
  <2>5. Format(accept) = Formats[m]
    BY <1>1, <1>3, <2>3, <2>4
  <2>6. Formats[m] \in ToSet(Formats)
    BY <2>4, FormatsAssumption DEF ToSet
  <2> QED
    BY <2>4, <2>5, <2>6
<1> QED
  BY <1>2, <1>3

\* One that goes on to another stage needs what is true at that stage.
LEMMA GotoRow ==
    ASSUME Arrays, NEW r \in Requests, RowInv(r), at[r] \notin {"idle", "done"},
           NEW stage \in Stages \ {"idle", "done", "fetch", "header"},
           stage = "transform" => at[r] = "header" /\ IsImage(r) /\ ~Refused(r),
           stage = "routing" => request[r].to = "app",
           stage = "asset" => /\ request[r].to = "app"
                              /\ config.assets /\ request[r].method \in {"GET", "HEAD"}
                              /\ IsUserWorkerFirst(config.runFirst, request[r].path),
           Goto(r, stage), UNCHANGED <<config, request, parsed, left, image>>
    PROVE  RowInv(r)'
<1>1. at'[r] = stage /\ answer' = answer
  BY DEF Arrays, Goto
<1>2. RowTyped(r)'
  BY <1>1 DEF RowInv, RowTyped
<1>3. RowHandled(r)'
  <2>1. UNCHANGED <<Detected(r), IsImage(r)>>
    BY DEF Detected, IsImage
  <2>2. UNCHANGED Refused(r)
    BY <2>1 DEF Refused
  <2> QED
    BY <1>1, <2>1, <2>2 DEF RowInv, RowHandled
<1>4. RowAnswered(r)'
  BY <1>1 DEF RowAnswered
<1> QED
  BY <1>2, <1>3, <1>4 DEF RowInv

-----------------------------------------------------------------------------
(* Every action keeps it.                                                  *)

LEMMA ReceiveRow ==
    ASSUME Arrays, NEW r \in Requests, RowInv(r), NEW input \in Inputs, Receive(r, input)
    PROVE  RowInv(r)'
<1>1. /\ at[r] = "idle" /\ request'[r] = input /\ parsed'[r] = Parsed(input)
      /\ UNCHANGED <<config, left, image>>
  BY DEF Receive, Arrays
<1>2. answer[r] = Null /\ left[r] \in 0 .. MaxRedirects
  BY <1>1 DEF RowInv, RowTyped
<1> USE DEF RowInv, RowTyped, RowHandled, RowAnswered, Stages
<1>3. CASE Goto(r, "forwarded")
  <2>1. at'[r] = "forwarded" /\ answer'[r] = Null
    BY <1>2, <1>3 DEF Goto, Arrays
  <2> QED
    BY <1>1, <1>2, <2>1
<1>4. CASE input.to \in {"cdn", "image"} /\ StartImage(r, Parsed(input))
  <2>1. CASE Finish(r, Text(400)) \/ Finish(r, Text(404))
    <3>1. at'[r] = "done" /\ answer'[r] \in Texts
      BY <2>1, TextReplies DEF Finish, Arrays
    <3> QED
      BY <1>1, <1>2, <3>1 DEF Texts, GoodReply
  <2>2. CASE Goto(r, "fetch") /\ Parsed(input) # Null
    <3>1. at'[r] = "fetch" /\ answer'[r] = Null
      BY <1>2, <2>2 DEF Goto, Arrays
    <3>2. parsed'[r] = Parsed(request'[r])
      BY <1>1
    <3> QED
      BY <1>1, <1>2, <1>4, <2>2, <3>1, <3>2
  <2> QED
    BY <1>4, <2>1, <2>2 DEF StartImage
<1>5. CASE input.to = "app" /\ Goto(r, "routing")
  <2>1. at'[r] = "routing" /\ answer'[r] = Null
    BY <1>2, <1>5 DEF Goto, Arrays
  <2> QED
    BY <1>1, <1>2, <1>5, <2>1
<1> QED
  BY <1>3, <1>4, <1>5 DEF Receive

LEMMA RedirectedRow ==
    ASSUME Arrays, NEW r \in Requests, RowInv(r), Redirected(r)
    PROVE  RowInv(r)'
<1>1. CASE Finish(r, Text(508)) /\ UNCHANGED left
  BY <1>1, TextReplies, TextsAreGood, FinishRow DEF Redirected, routing
<1>2. CASE ~OutOfRedirects(left[r]) /\ left' = [left EXCEPT ![r] = left[r] - 1] /\ UNCHANGED <<at, answer>>
  <2>1. left[r] \in 0 .. MaxRedirects /\ at[r] = "fetch"
    BY DEF RowInv, RowTyped, Redirected
  <2>2. left'[r] = left[r] - 1 /\ left'[r] \in 0 .. MaxRedirects
    BY <1>2, <2>1, RedirectsAssumption DEF Arrays, OutOfRedirects
  <2>3. UNCHANGED <<config, request, at, parsed, image, answer>>
    BY <1>2 DEF Redirected, routing
  <2> QED
    BY <2>1, <2>2, <2>3 DEF RowInv, RowTyped, RowHandled, RowAnswered
<1> QED
  BY <1>1, <1>2 DEF Redirected

LEMMA GotImageRow ==
    ASSUME Arrays, NEW r \in Requests, RowInv(r), GotImage(r)
    PROVE  RowInv(r)'
<1>1. at[r] = "fetch" /\ at'[r] = "header" /\ UNCHANGED <<config, request, parsed, left, answer>>
  BY DEF GotImage, Goto, Arrays, routing
<1>2. image'[r].file \in Files /\ image'[r].immutable \in BOOLEAN
  <2>1. PICK file \in Files, claim \in BOOLEAN :
            image' = [image EXCEPT ![r] =
                [file |-> file, immutable |-> IsImage(r) /\ (parsed[r].url.static \/ claim)]]
    BY DEF GotImage
  <2>2. image'[r] = [file |-> file, immutable |-> IsImage(r) /\ (parsed[r].url.static \/ claim)]
    BY <2>1 DEF Arrays
  <2> QED
    BY <2>2
<1> QED
  BY <1>1, <1>2 DEF RowInv, RowTyped, RowHandled, RowAnswered, Stages

LEMMA ReadHeaderRow ==
    ASSUME Arrays, NEW r \in Requests, RowInv(r), ReadHeader(r)
    PROVE  RowInv(r)'
<1>1. at[r] = "header" /\ UNCHANGED <<config, request, parsed, left, image>>
  BY DEF ReadHeader, routing
<1>2. CASE Finish(r, Text(400))
  BY <1>1, <1>2, TextReplies, TextsAreGood, FinishRow
<1>3. CASE IsImage(r) /\ ~Refused(r) /\ Goto(r, "transform")
  BY <1>1, <1>3, GotoRow DEF Stages
<1>4. CASE AsIs(r)
  <2> DEFINE reply == ImageReply(r, Detected(r), image[r].file.type)
  <2>1. image[r].file \in Files /\ image[r].immutable \in BOOLEAN
    BY <1>1 DEF RowInv, RowTyped
  <2>2. image[r].file.type \in ContentTypes \cup {Null} /\ Detected(r) \in ContentTypes \cup {Null}
    BY <2>1, FileTypes, DetectedTypes DEF Detected
  <2>3. /\ reply \in Replies
        /\ reply.declared = Detected(r) /\ reply.body = image[r].file.type
    BY <2>1, <2>2 DEF ImageReply, Reply, Replies
  <2>4. GoodReply(r, reply)
    <3>1. reply.declared # Null => TrueReply(r, reply)
      BY <2>1, <2>3, DetectedIs DEF TrueReply, Detected
    <3>2. reply.body # "endless"
      BY <2>2, <2>3, NullAssumption DEF ContentTypes
    <3> QED
      BY <3>1, <3>2 DEF GoodReply
  <2>5. Finish(r, reply)
    BY <1>4 DEF AsIs
  <2> HIDE DEF reply
  <2> QED
    BY <1>1, <2>3, <2>4, <2>5, FinishRow
<1> QED
  BY <1>2, <1>3, <1>4 DEF ReadHeader

LEMMA TransformedRow ==
    ASSUME Arrays, NEW r \in Requests, RowInv(r), Transformed(r)
    PROVE  RowInv(r)'
<1>1. at[r] = "transform" /\ UNCHANGED <<config, request, parsed, left, image>>
  BY DEF Transformed, routing
<1>2. PICK output \in {OutputFormat(r)} \cup (IF OutputFormat(r) = "avif" THEN {"webp"} ELSE {}) :
            Finish(r, ImageReply(r, output, output))
  BY DEF Transformed, DeclaredFormat
<1>3. /\ IsImage(r) /\ ~Refused(r) /\ request[r].to = "image"
      /\ parsed[r] = Parsed(request[r]) /\ parsed[r] # Null /\ image[r].immutable \in BOOLEAN
  BY <1>1 DEF RowInv, RowTyped, RowHandled, IsImage
<1>4. parsed[r].format = Format(request[r].accept)
  BY <1>3 DEF Parsed, ParseImageRequest
<1>5. OutputFormat(r) \in {Detected(r)} \cup (request[r].accept \cap ToSet(Formats))
  BY <1>4, FormatAccepted DEF OutputFormat
<1>6. ToSet(Formats) \subseteq ContentTypes
  BY FormatsAssumption DEF ToSet, ContentTypes
<1> DEFINE reply == ImageReply(r, output, output)
<1>7. output \in ContentTypes \cup {Null}
  BY <1>5, <1>6, DetectedTypes DEF Detected, ContentTypes
<1>8. reply \in Replies /\ reply.declared = output /\ reply.body = output
  BY <1>3, <1>7 DEF ImageReply, Reply, Replies
<1>9. GoodReply(r, reply)
  <2>1. TrueReply(r, reply)
    BY <1>2, <1>5, <1>8 DEF TrueReply
  <2>2. reply.body # "endless"
    BY <1>7, <1>8, NullAssumption DEF ContentTypes
  <2> QED
    BY <2>1, <2>2 DEF GoodReply
<1> HIDE DEF reply
<1> QED
  BY <1>1, <1>2, <1>8, <1>9, FinishRow DEF reply

LEMMA ActionRow ==
    ASSUME Arrays, NEW r \in Requests, RowInv(r), (\E input \in Inputs : Receive(r, input)) \/ Answers(r)
    PROVE  RowInv(r)'
<1> USE DEF routing
<1>1. CASE Served(r)
  BY <1>1, TextReplies, TextsAreGood, FinishRow DEF Served
<1>2. CASE FetchFails(r)
  BY <1>2, TextReplies, TextsAreGood, FinishRow DEF FetchFails
<1>3. CASE NoImage(r)
  <2>1. PICK status \in {204, 302, 304, 404} : Finish(r, Upstream(status))
    BY <1>3 DEF NoImage
  <2>2. Upstream(status) \in Replies /\ GoodReply(r, Upstream(status))
    BY TextReplies, TextsAreGood
  <2>3. at[r] = "fetch" /\ UNCHANGED <<config, request, parsed, left, image>>
    BY <1>3 DEF NoImage
  <2> QED
    BY <2>1, <2>2, <2>3, FinishRow
<1>4. CASE HeaderLost(r)
  BY <1>4, TextReplies, TextsAreGood, FinishRow DEF HeaderLost
<1>5. CASE TransformFails(r)
  BY <1>5, TextReplies, TextsAreGood, FinishRow DEF TransformFails
<1>6. CASE AskForAsset(r)
  <2>1. at[r] = "routing" /\ request[r].to = "app" /\ UNCHANGED <<config, request, parsed, left, image>>
    BY <1>6 DEF AskForAsset, RowInv, RowHandled
  <2>2. \/ Goto(r, "routed")
        \/ /\ Goto(r, "asset") /\ config.assets /\ request[r].method \in {"GET", "HEAD"}
           /\ IsUserWorkerFirst(config.runFirst, request[r].path)
    BY <1>6 DEF AskForAsset
  <2> QED
    BY <2>1, <2>2, GotoRow DEF Stages
<1>7. CASE AssetAnswers(r)
  <2>1. at[r] = "asset" /\ UNCHANGED <<config, request, parsed, left, image>>
    BY <1>7 DEF AssetAnswers
  <2>4. request[r].method \in {"GET", "HEAD"}
    BY <2>1 DEF RowInv, RowHandled
  <2>2. CASE Goto(r, "routed")
    BY <2>1, <2>2, GotoRow DEF Stages
  <2>3. CASE \E reply \in Replies : Finish(r, reply) /\ GoodReply(r, reply)
    BY <2>1, <2>3, FinishRow
  <2> QED
    BY <1>7, <2>2, <2>3, <2>4, AssetReplies
<1> QED
  BY <1>1, <1>2, <1>3, <1>4, <1>5, <1>6, <1>7,
     ReceiveRow, RedirectedRow, GotImageRow, ReadHeaderRow, TransformedRow DEF Answers

LEMMA InvInit == Init => Inv
<1> SUFFICES ASSUME Init PROVE Inv
  OBVIOUS
<1>1. Arrays
  BY DEF Init, Arrays
<1>2. ASSUME NEW r \in Requests PROVE RowInv(r)
  BY RedirectsAssumption DEF Init, RowInv, RowTyped, RowHandled, RowAnswered, Stages
<1>3. config \in Configs /\ (origin = Undefined \/ \E input \in Inputs : origin = input.host)
  BY DEF Init
<1> QED
  BY <1>1, <1>2, <1>3 DEF Inv

LEMMA InvStep == Inv /\ [Next]_vars => Inv'
<1> SUFFICES ASSUME Inv, [Next]_vars PROVE Inv'
  OBVIOUS
<1>1. Arrays /\ \A r \in Requests : RowInv(r)
  BY DEF Inv
<1>2. ASSUME NEW r \in Requests, (\E input \in Inputs : Receive(r, input)) \/ Answers(r)
      PROVE  Inv'
  <2>1. Arrays' /\ Others(r)
    BY <1>1, <1>2, OneAtATime
  <2>2. RowInv(r)'
    BY <1>1, <1>2, ActionRow
  <2>3. ASSUME NEW s \in Requests \ {r} PROVE RowInv(s)'
    BY <1>1, <2>1, RowKept DEF Others
  <2>4. origin' = Undefined \/ \E input \in Inputs : origin' = input.host
    <3>1. CASE \E input \in Inputs : Receive(r, input)
      BY <3>1 DEF Inv, Receive, Initialised, Origin
    <3>2. CASE Answers(r)
      BY <3>2 DEF Inv, Answers, Served, Redirected, FetchFails, NoImage, GotImage, ReadHeader, HeaderLost,
                  Transformed, TransformFails, AskForAsset, AssetAnswers, routing
    <3> QED
      BY <1>2, <3>1, <3>2
  <2>5. config' \in Configs
    BY <2>1 DEF Inv, Others
  <2> QED
    BY <2>1, <2>2, <2>3, <2>4, <2>5 DEF Inv
<1>3. CASE UNCHANGED vars
  <2>1. ASSUME NEW r \in Requests PROVE RowInv(r)'
    BY <1>1, <1>3, RowKept DEF vars, routing, Row
  <2> QED
    BY <1>3, <2>1 DEF Inv, vars, routing, Arrays
<1> QED
  BY <1>2, <1>3 DEF Next

THEOREM Invariance == Spec => []Inv
  BY InvInit, InvStep, PTL DEF Spec

\* Every variable keeps its type: no image is followed through more redirects than
\* the build allows, and a request has one answer, when its handler is done.
THEOREM TypeCorrect == Spec => []TypeOK
<1>1. Inv => TypeOK
  <2> SUFFICES ASSUME Inv PROVE TypeOK
    OBVIOUS
  <2>1. Arrays /\ \A r \in Requests : RowTyped(r)
    BY DEF Inv, RowInv
  <2>2. at \in [Requests -> Stages] /\ left \in [Requests -> 0 .. MaxRedirects]
    BY <2>1 DEF Arrays, RowTyped
  <2>3. ASSUME NEW r \in Requests
        PROVE  /\ (request[r] = Null) <=> (at[r] = "idle")
               /\ at[r] # "idle" => request[r] \in Inputs
               /\ IF at[r] = "done" THEN answer[r] \in Replies ELSE answer[r] = Null
               /\ at[r] \in {"header", "transform"} => image[r].file \in Files
    BY <2>1, InputsAssumption DEF RowTyped
  <2> QED
    BY <2>2, <2>3 DEF Inv, TypeOK
<1> QED
  BY <1>1, Invariance, PTL

\* An image is declared to be what it is, and is of a type that its request may be
\* answered with: createImageResponse() is called with nothing else.
THEOREM ImagesAreTrue == Spec => []TrueImages
<1>1. Inv => TrueImages
  <2> SUFFICES ASSUME Inv PROVE TrueImages
    OBVIOUS
  <2>1. ASSUME NEW r \in Requests, IsAnImage(r)
        PROVE  TrueReply(r, answer[r])
    BY <2>1 DEF Inv, RowInv, RowTyped, RowAnswered, GoodReply, IsAnImage
  <2> QED
    BY <2>1 DEF TrueImages, TruthfulType, ServedFormat, TrueReply
<1> QED
  BY <1>1, Invariance, PTL

\* isUserWorkerFirst() finds the paths that its rules of one star mean, whatever
\* their order, and maybeGetAssetResult() asks for an asset of no others.
THEOREM AssetsFollowRules == Spec => []RulesDecide
<1>1. Inv => RulesDecide
  <2> SUFFICES ASSUME Inv, NEW r \in Requests, at[r] \in {"routing", "asset"}
               PROVE  /\ at[r] = "asset" =>
                            /\ config.assets /\ request[r].method \in {"GET", "HEAD"}
                            /\ ~config.runFirst.list => config.runFirst.all
                      /\ config.runFirst.list /\ Understood(config.runFirst.rules) =>
                            /\ at[r] = "asset" => Means(config.runFirst.rules, request[r].path)
                            /\ at[r] = "routing" =>
                                 (Means(config.runFirst.rules, request[r].path)
                                    <=> IsUserWorkerFirst(config.runFirst, request[r].path))
    BY DEF RulesDecide
  <2>1. /\ request[r] \in Inputs /\ request[r].to = "app" /\ config \in Configs
        /\ at[r] = "asset" => /\ config.assets /\ request[r].method \in {"GET", "HEAD"}
                              /\ IsUserWorkerFirst(config.runFirst, request[r].path)
    BY DEF Inv, RowInv, RowTyped, RowHandled
  <2>2. request[r].path \in Seq(STRING) /\ config.runFirst.rules \in Seq(Rule)
    BY <2>1, InputsAssumption, ConfigsAssumption
  <2>3. config.runFirst.list /\ Understood(config.runFirst.rules) =>
            (Means(config.runFirst.rules, request[r].path)
               <=> IsUserWorkerFirst(config.runFirst, request[r].path))
    BY <2>2, RulesMean DEF IsUserWorkerFirst
  <2> QED
    BY <2>1, <2>3 DEF IsUserWorkerFirst
<1> QED
  BY <1>1, Invariance, PTL

\* The body of an answer ends, unless it is one that getResponseBody() made up for
\* a GET: for a HEAD, and for what no asset answers, it makes up none.
THEOREM BodiesEnd == Spec => [](\A r \in Requests : at[r] = "done" => BodyEnds(r))
<1>1. Inv => \A r \in Requests : at[r] = "done" => BodyEnds(r)
  BY DEF Inv, RowInv, RowAnswered, GoodReply, BodyEnds
<1> QED
  BY <1>1, Invariance, PTL

-----------------------------------------------------------------------------
(* Every step of a handler brings its request closer to its answer.        *)

\* How many awaits a request has before it, at most.
Ahead(r) ==
    CASE at[r] = "fetch" -> left[r] + 3
      [] at[r] = "routing" -> 3
      [] at[r] \in {"header", "asset"} -> 2
      [] at[r] \in {"transform", "routed", "forwarded"} -> 1
      [] OTHER -> 0

\* A request that was received is left alone by a step, or comes closer to its answer.
Closer(r) == at[r] # "idle" => UNCHANGED Row(r) \/ (Ahead(r)' \in Nat /\ Ahead(r)' < Ahead(r))

LEMMA StagesFollow ==
    ASSUME Arrays, NEW r \in Requests, Answers(r)
    PROVE  \/ at[r] = "fetch" /\ at'[r] = "fetch" /\ ~OutOfRedirects(left[r]) /\ left'[r] = left[r] - 1
           \/ at[r] = "fetch" /\ at'[r] \in {"header", "done"}
           \/ at[r] = "header" /\ at'[r] \in {"transform", "done"}
           \/ at[r] = "transform" /\ at'[r] = "done"
           \/ at[r] = "routing" /\ at'[r] \in {"asset", "routed", "done"}
           \/ at[r] = "asset" /\ at'[r] \in {"routed", "done"}
           \/ at[r] \in {"forwarded", "routed"} /\ at'[r] = "done"
<1>1. /\ \A stage : Goto(r, stage) => at'[r] = stage
      /\ \A reply : Finish(r, reply) => at'[r] = "done"
  BY DEF Goto, Finish, Arrays
<1>2. CASE Served(r)
  BY <1>1, <1>2 DEF Served
<1>3. CASE Redirected(r)
  <2>1. CASE OutOfRedirects(left[r])
    BY <1>1, <1>3, <2>1 DEF Redirected
  <2>2. CASE ~OutOfRedirects(left[r])
    BY <1>3, <2>2 DEF Redirected, Arrays
  <2> QED
    BY <2>1, <2>2
<1>4. CASE FetchFails(r) \/ NoImage(r) \/ GotImage(r)
  BY <1>1, <1>4 DEF FetchFails, NoImage, GotImage
<1>5. CASE ReadHeader(r) \/ HeaderLost(r)
  BY <1>1, <1>5 DEF ReadHeader, AsIs, HeaderLost
<1>6. CASE Transformed(r) \/ TransformFails(r)
  BY <1>1, <1>6 DEF Transformed, TransformFails
<1>7. CASE AskForAsset(r)
  BY <1>1, <1>7 DEF AskForAsset
<1>8. CASE AssetAnswers(r)
  <2>1. at[r] = "asset"
    BY <1>8 DEF AssetAnswers
  <2> QED
    BY <1>1, <1>8, <2>1, AssetReplies
<1> QED
  BY <1>2, <1>3, <1>4, <1>5, <1>6, <1>7, <1>8 DEF Answers

LEMMA AnswersCloser ==
    ASSUME Arrays, NEW r \in Requests, RowInv(r), Answers(r)
    PROVE  Ahead(r)' \in Nat /\ Ahead(r)' < Ahead(r)
<1>1. left[r] \in Nat
  BY RedirectsAssumption DEF RowInv, RowTyped
<1>2. RowInv(r)'
  BY ActionRow
<1>3. left'[r] \in Nat
  BY <1>2, RedirectsAssumption DEF RowInv, RowTyped
<1> QED
  BY <1>1, <1>3, StagesFollow DEF Ahead, OutOfRedirects

\* A handler cannot run forever: no request makes more steps to its answer than the
\* redirects of its image and three, whatever the others do.
THEOREM HandlersAdvance == Spec => [][\A r \in Requests : Closer(r)]_vars
<1>1. Inv /\ [Next]_vars => [\A r \in Requests : Closer(r)]_vars
  <2> SUFFICES ASSUME Inv, Next PROVE \A r \in Requests : Closer(r)
    BY DEF vars
  <2>1. Arrays /\ \A r \in Requests : RowInv(r)
    BY DEF Inv
  <2>2. PICK r \in Requests : (\E input \in Inputs : Receive(r, input)) \/ Answers(r)
    BY DEF Next
  <2>3. \A s \in Requests \ {r} : UNCHANGED Row(s)
    BY <2>1, <2>2, OneAtATime DEF Others
  <2>4. CASE \E input \in Inputs : Receive(r, input)
    BY <2>3, <2>4 DEF Receive, Closer
  <2>5. CASE Answers(r)
    BY <2>1, <2>3, <2>5, AnswersCloser DEF Closer
  <2> QED
    BY <2>2, <2>4, <2>5
<1> QED
  BY <1>1, Invariance, PTL DEF Spec

-----------------------------------------------------------------------------
(* BucketCachePurge: what is purged at once.                               *)

USE BatchAssumption, BoundAssumption

\* A batch is made of rows of the table, fits the limit of the API, and leaves
\* rows behind only if it is full (SELECT ... LIMIT).
LEMMA FirstRowsFit ==
    ASSUME NEW rows \in SUBSET Tags, NEW some \in FirstRows(rows)
    PROVE  /\ some \subseteq rows
           /\ some \subseteq Tags
           /\ Cardinality(some) <= BatchSize
           /\ Cardinality(some) < BatchSize => some = rows
  BY DEF FirstRows

LEMMA EmptyBatchFits == Cardinality({}) <= BatchSize
  BY FS_EmptySet

\* What selecting the next batch does to the handler and the batch.
LEMMA PurgeSelects ==
    ASSUME NEW rows \in SUBSET Tags, Purge(rows)
    PROVE  /\ handler' \in {"idle", "sent"}
           /\ batch' \subseteq Tags
           /\ Cardinality(batch') <= BatchSize
           /\ handler' = "idle" => rows = {}
           /\ Cardinality(batch') < BatchSize => batch' = rows
  <1>1. CASE rows = {}
    BY <1>1, EmptyBatchFits DEF Purge
  <1>2. CASE rows # {}
    BY <1>2, FirstRowsFit DEF Purge
  <1> QED  BY <1>1, <1>2

-----------------------------------------------------------------------------
LEMMA PurgeTypeInit == PurgeInit => PurgeTypeOK
  <1> SUFFICES ASSUME PurgeInit PROVE PurgeTypeOK
    OBVIOUS
  <1>1. batch \subseteq Tags /\ Cardinality(batch) <= BatchSize
    BY EmptyBatchFits DEF PurgeInit
  <1>2. /\ call \in [Calls -> {"idle", "inserted", "acknowledged", "failed"}]
        /\ asked \in [Calls -> SUBSET Tags]
    BY DEF PurgeInit
  <1>3. /\ table \subseteq Tags
        /\ alarm \in BOOLEAN
        /\ handler \in {"idle", "sent", "purged", "unpurged"}
    BY DEF PurgeInit
  <1>4. /\ {attempts, limited, crashes} \subseteq Nat
        /\ {outdated, refused, overtaken} \subseteq SUBSET Tags
    BY DEF PurgeInit
  <1> QED  BY <1>1, <1>2, <1>3, <1>4 DEF PurgeTypeOK

LEMMA PurgeTypeStep == PurgeTypeOK /\ [PurgeNext]_purgeVars => PurgeTypeOK'
  <1> SUFFICES ASSUME PurgeTypeOK, [PurgeNext]_purgeVars PROVE PurgeTypeOK'
    OBVIOUS
  <1> USE DEF PurgeTypeOK, platform, history
  <1>1. ASSUME NEW c \in Calls, NEW tags \in SUBSET Tags, Insert(c, tags) PROVE PurgeTypeOK'
    BY <1>1 DEF Insert
  <1>2. ASSUME NEW c \in Calls, SetAlarm(c) PROVE PurgeTypeOK'
    BY <1>2 DEF SetAlarm
  <1>3. CASE FireAlarm
    BY <1>3, PurgeSelects DEF FireAlarm
  <1>4. CASE CdnPurges
    BY <1>4 DEF CdnPurges
  <1>5. CASE Answer
    <2>1. table' \in SUBSET Tags
      BY <1>5 DEF Answer
    <2>2. /\ handler' \in {"idle", "sent"}
          /\ batch' \subseteq Tags
          /\ Cardinality(batch') <= BatchSize
      <3>1. CASE Cardinality(batch) < BatchSize
        BY <1>5, <3>1, EmptyBatchFits DEF Answer, NextBatch
      <3>2. CASE ~(Cardinality(batch) < BatchSize)
        BY <1>5, <2>1, <3>2, PurgeSelects DEF Answer, NextBatch
      <3> QED  BY <3>1, <3>2
    <2> QED  BY <1>5, <2>1, <2>2 DEF Answer
  <1>6. CASE RateLimited
    BY <1>6, EmptyBatchFits DEF RateLimited
  <1>7. CASE Crash
    BY <1>7, EmptyBatchFits DEF Crash
  <1>8. CASE UNCHANGED purgeVars
    BY <1>8 DEF purgeVars
  <1> QED  BY <1>1, <1>2, <1>3, <1>4, <1>5, <1>6, <1>7, <1>8 DEF PurgeNext

\* Every variable keeps its type, and no batch exceeds what the purge API
\* accepts (MAX_NUMBER_OF_TAGS_PER_PURGE).
THEOREM PurgeTypeCorrect == PurgeSpec => []PurgeTypeOK
  BY PurgeTypeInit, PurgeTypeStep, PTL DEF PurgeSpec

-----------------------------------------------------------------------------
(* No purge is forgotten.                                                  *)

\* Once the API has purged a batch, only a tag asked for again is outdated.
PurgedBatch == handler = "purged" => outdated \cap batch \subseteq overtaken

PurgeInv == NoPurgeForgotten /\ PurgedBatch

LEMMA PurgeInvStep == PurgeInv /\ [PurgeNext]_purgeVars => PurgeInv'
  <1> SUFFICES ASSUME PurgeInv, [PurgeNext]_purgeVars PROVE PurgeInv'
    OBVIOUS
  <1> USE DEF PurgeInv, NoPurgeForgotten, PurgedBatch, platform, history
  <1>1. ASSUME NEW c \in Calls, NEW tags \in SUBSET Tags, Insert(c, tags) PROVE PurgeInv'
    BY <1>1 DEF Insert
  <1>2. ASSUME NEW c \in Calls, SetAlarm(c) PROVE PurgeInv'
    BY <1>2 DEF SetAlarm
  <1>3. CASE FireAlarm
    BY <1>3 DEF FireAlarm, Purge
  <1>4. CASE CdnPurges
    BY <1>4 DEF CdnPurges
  <1>5. CASE Answer
    <2>1. NoPurgeForgotten'
      BY <1>5 DEF Answer, DeletedRows
    <2>2. handler' # "purged"
      BY <1>5 DEF Answer, NextBatch, Purge
    <2> QED  BY <2>1, <2>2
  <1>6. CASE RateLimited
    BY <1>6 DEF RateLimited
  <1>7. CASE Crash
    BY <1>7 DEF Crash
  <1>8. CASE UNCHANGED purgeVars
    BY <1>8 DEF purgeVars
  <1> QED  BY <1>1, <1>2, <1>3, <1>4, <1>5, <1>6, <1>7, <1>8 DEF PurgeNext

\* A tag asked for and not purged since has a row, but for the two losses the
\* code has: the API failed, or the row went with the answer to an older purge.
THEOREM PurgesAreKept == PurgeSpec => []NoPurgeForgotten
  <1>1. PurgeInit => PurgeInv
    BY DEF PurgeInit, PurgeInv, NoPurgeForgotten, PurgedBatch
  <1>2. PurgeInv => NoPurgeForgotten
    BY DEF PurgeInv
  <1> QED  BY <1>1, <1>2, PurgeInvStep, PTL DEF PurgeSpec

-----------------------------------------------------------------------------
(* Rows have an alarm.                                                     *)

CallPending == \E c \in Calls : call[c] \in {"inserted", "failed"}

\* The retries counted are among the answers 429.
AttemptsCounted == attempts <= limited

\* Rows that the last batch leaves behind were inserted since: they are of a
\* call that sets, or has set, the next alarm.
LeftBehind ==
    handler # "idle" /\ Cardinality(batch) < BatchSize /\ ~(table \subseteq batch)
        => alarm \/ CallPending \/ limited > PlatformRetries

AlarmInv == RowsHaveAlarm /\ AttemptsCounted /\ LeftBehind

LEMMA PendingKept ==
    ASSUME PurgeTypeOK, [PurgeNext]_purgeVars, CallPending,
           ~(\E c \in Calls : SetAlarm(c))
    PROVE  CallPending'
  <1> PICK q \in Calls : call[q] \in {"inserted", "failed"}
    BY DEF CallPending
  <1> USE DEF CallPending, PurgeTypeOK, platform, history
  <1>1. ASSUME NEW c \in Calls, NEW tags \in SUBSET Tags, Insert(c, tags) PROVE CallPending'
    BY <1>1 DEF Insert
  <1>2. CASE Crash
    BY <1>2 DEF Crash
  <1>3. CASE FireAlarm \/ CdnPurges \/ Answer \/ RateLimited \/ UNCHANGED purgeVars
    BY <1>3 DEF FireAlarm, CdnPurges, Answer, RateLimited, purgeVars
  <1> QED  BY <1>1, <1>2, <1>3 DEF PurgeNext

LEMMA AlarmInvStep == PurgeTypeOK /\ AlarmInv /\ [PurgeNext]_purgeVars => AlarmInv'
  <1> SUFFICES ASSUME PurgeTypeOK, AlarmInv, [PurgeNext]_purgeVars PROVE AlarmInv'
    OBVIOUS
  <1> USE DEF AlarmInv, AttemptsCounted, platform, history
  <1>0. /\ table \subseteq Tags
        /\ {attempts, limited} \subseteq Nat
        /\ RowsHaveAlarm = (table # {} =>
                alarm \/ handler # "idle" \/ CallPending \/ limited > PlatformRetries)
        /\ RowsHaveAlarm' = (table' # {} =>
                alarm' \/ handler' # "idle" \/ CallPending' \/ limited' > PlatformRetries)
    BY DEF PurgeTypeOK, RowsHaveAlarm, CallPending
  <1>1. ASSUME NEW c \in Calls, NEW tags \in SUBSET Tags, Insert(c, tags) PROVE AlarmInv'
    <2>1. CallPending'
      BY <1>1 DEF Insert, CallPending, PurgeTypeOK
    <2> QED  BY <1>0, <1>1, <2>1 DEF Insert, LeftBehind
  <1>2. ASSUME NEW c \in Calls, SetAlarm(c) PROVE AlarmInv'
    <2>1. alarm' /\ attempts' <= limited'
      BY <1>0, <1>2 DEF SetAlarm
    <2> QED  BY <1>0, <2>1 DEF LeftBehind
  <1>3. CASE FireAlarm
    <2>1. /\ handler' = "idle" => table = {}
          /\ Cardinality(batch') < BatchSize => batch' = table
      BY <1>0, <1>3, PurgeSelects DEF FireAlarm
    <2>2. AttemptsCounted' /\ table' = table
      BY <1>3 DEF FireAlarm
    <2>3. RowsHaveAlarm'
      BY <1>0, <2>1, <2>2
    <2>4. LeftBehind'
      BY <2>1, <2>2 DEF LeftBehind
    <2> QED  BY <2>2, <2>3, <2>4
  <1>4. CASE CdnPurges
    <2>1. /\ handler # "idle" /\ handler' # "idle"
          /\ UNCHANGED <<table, alarm, attempts, batch, limited, call>>
      BY <1>4 DEF CdnPurges
    <2> QED  BY <1>0, <2>1 DEF LeftBehind, CallPending
  <1>5. CASE Answer
    <2>1. table' \in SUBSET Tags /\ table' = table \ batch
      BY <1>0, <1>5 DEF Answer, DeletedRows
    <2>2. UNCHANGED <<alarm, attempts, limited, call>> /\ handler # "idle"
      BY <1>5 DEF Answer
    <2>3. CallPending' = CallPending
      BY <2>2 DEF CallPending
    <2>4. CASE Cardinality(batch) < BatchSize
      <3>1. handler' = "idle"
        BY <1>5, <2>4 DEF Answer, NextBatch
      <3>2. table' # {} => alarm \/ CallPending \/ limited > PlatformRetries
        BY <2>1, <2>2, <2>4 DEF LeftBehind
      <3> QED  BY <1>0, <2>2, <2>3, <3>1, <3>2 DEF LeftBehind
    <2>5. CASE ~(Cardinality(batch) < BatchSize)
      <3>1. Purge(table')
        BY <1>5, <2>5 DEF Answer, NextBatch
      <3>2. /\ handler' = "idle" => table' = {}
            /\ Cardinality(batch') < BatchSize => batch' = table'
        BY <2>1, <3>1, PurgeSelects
      <3> QED  BY <1>0, <2>2, <2>3, <3>2 DEF LeftBehind
    <2> QED  BY <2>4, <2>5
  <1>6. CASE RateLimited
    <2>1. /\ handler' = "idle"
          /\ limited' = limited + 1
          /\ attempts' = IF alarm THEN attempts ELSE attempts + 1
          /\ alarm' \/ attempts >= PlatformRetries
      BY <1>0, <1>6 DEF RateLimited
    <2>2. AttemptsCounted' /\ (alarm' \/ limited' > PlatformRetries)
      BY <1>0, <2>1
    <2> QED  BY <1>0, <2>1, <2>2 DEF LeftBehind
  <1>7. CASE Crash
    <2>1. CallPending => CallPending'
      BY <1>7, PendingKept DEF Crash, SetAlarm
    <2>2. /\ alarm' = (alarm \/ handler # "idle")
          /\ handler' = "idle"
          /\ UNCHANGED <<table, attempts, limited>>
      BY <1>7 DEF Crash
    <2> QED  BY <1>0, <2>1, <2>2 DEF LeftBehind
  <1>8. CASE UNCHANGED purgeVars
    BY <1>0, <1>8 DEF purgeVars, LeftBehind, CallPending
  <1> QED  BY <1>1, <1>2, <1>3, <1>4, <1>5, <1>6, <1>7, <1>8 DEF PurgeNext

\* Rows have an alarm, or a run of alarm(), that will purge them, unless a
\* call failed or the API answered 429 more often than the platform retries.
THEOREM RowsAreScheduled == PurgeSpec => []RowsHaveAlarm
  <1>1. PurgeInit => AlarmInv
    BY DEF PurgeInit, AlarmInv, RowsHaveAlarm, AttemptsCounted, LeftBehind
  <1>2. AlarmInv => RowsHaveAlarm
    BY DEF AlarmInv
  <1> QED  BY <1>1, <1>2, PurgeTypeCorrect, AlarmInvStep, PTL DEF PurgeSpec
-----------------------------------------------------------------------------
(* What TableEmptied says but for fairness.                                *)

\* A batch in progress is made of rows, and of one at least.
BatchInv == handler # "idle" => batch # {} /\ batch \subseteq table

\* What is left of the alarm that is set, and of alarm() with its batch.
AlarmSteps ==
    (IF alarm THEN 3 ELSE 0)
        + (CASE handler = "sent" -> 2
             [] handler \in {"purged", "unpurged"} -> 1
             [] OTHER -> 0)

CallSteps(c) ==
    CASE call[c] = "idle" -> 2
      [] call[c] = "inserted" -> 1
      [] OTHER -> 0

\* Rows leave the table, or those in it come closer to leaving it.
Emptier ==
    \/ table' \subseteq table /\ table' # table
    \/ table' = table /\ AlarmSteps' < AlarmSteps

\* A call brings its rows or its alarm, once.
CallMoves(c) ==
    /\ CallSteps(c)' < CallSteps(c)
    /\ \A d \in Calls : d # c => call'[d] = call[d]

\* The API answers 429, or the object is reset.
Disturbed ==
    \/ limited' = limited + 1 /\ crashes' = crashes
    \/ crashes' = crashes + 1 /\ limited' = limited

LEMMA BatchStep == PurgeTypeOK /\ BatchInv /\ [PurgeNext]_purgeVars => BatchInv'
  <1> SUFFICES ASSUME PurgeTypeOK, BatchInv, [PurgeNext]_purgeVars PROVE BatchInv'
    OBVIOUS
  <1> USE DEF BatchInv, PurgeTypeOK, platform, history
  <1>1. ASSUME NEW rows \in SUBSET Tags, Purge(rows)
        PROVE  handler' # "idle" => batch' # {} /\ batch' \subseteq rows
    <2>1. CASE rows = {}
      BY <1>1, <2>1 DEF Purge
    <2>2. CASE rows # {}
      <3>1. batch' \in FirstRows(rows)
        BY <1>1, <2>2 DEF Purge
      <3>2. batch' # {}
        <4> SUFFICES ASSUME batch' = {} PROVE FALSE
          OBVIOUS
        <4>1. Cardinality(batch') = BatchSize
          BY <2>2, <3>1 DEF FirstRows
        <4> QED  BY <4>1, FS_EmptySet
      <3> QED  BY <3>1, <3>2 DEF FirstRows
    <2> QED  BY <2>1, <2>2
  <1>2. ASSUME NEW c \in Calls, NEW tags \in SUBSET Tags, Insert(c, tags) PROVE BatchInv'
    BY <1>2 DEF Insert
  <1>3. CASE FireAlarm
    BY <1>1, <1>3 DEF FireAlarm
  <1>4. CASE Answer
    <2>1. table' \in SUBSET Tags
      BY <1>4 DEF Answer
    <2>2. CASE Cardinality(batch) < BatchSize
      BY <1>4, <2>2 DEF Answer, NextBatch
    <2>3. CASE ~(Cardinality(batch) < BatchSize)
      BY <1>4, <2>1, <2>3, <1>1 DEF Answer, NextBatch
    <2> QED  BY <2>2, <2>3
  <1>5. CASE \/ \E c \in Calls : SetAlarm(c)
             \/ CdnPurges \/ RateLimited \/ Crash \/ UNCHANGED purgeVars
    BY <1>5 DEF SetAlarm, CdnPurges, RateLimited, Crash, purgeVars
  <1> QED  BY <1>2, <1>3, <1>4, <1>5 DEF PurgeNext

\* alarm() does not spin, over a full table either: but for the calls that bring rows,
\* answers 429 and crashes, every step takes rows off the table or comes closer to it.
THEOREM PurgesAdvance ==
    PurgeSpec => [][Emptier \/ Disturbed \/ \E c \in Calls : CallMoves(c)]_purgeVars
  <1>1. PurgeTypeOK /\ BatchInv /\ [PurgeNext]_purgeVars =>
            [Emptier \/ Disturbed \/ \E c \in Calls : CallMoves(c)]_purgeVars
    <2> SUFFICES ASSUME PurgeTypeOK, BatchInv, PurgeNext
                 PROVE  Emptier \/ Disturbed \/ \E c \in Calls : CallMoves(c)
      OBVIOUS
    <2>t. /\ alarm \in BOOLEAN /\ handler \in {"idle", "sent", "purged", "unpurged"}
          /\ call \in [Calls -> {"idle", "inserted", "acknowledged", "failed"}]
      BY DEF PurgeTypeOK
    <2>1. CASE \E c \in Calls, tags \in SUBSET Tags : Insert(c, tags)
      <3>1. PICK c \in Calls : call[c] = "idle" /\ call' = [call EXCEPT ![c] = "inserted"]
        BY <2>1 DEF Insert
      <3> QED  BY <2>t, <3>1 DEF CallMoves, CallSteps
    <2>2. CASE \E c \in Calls : SetAlarm(c)
      <3>1. PICK c \in Calls : call[c] = "inserted" /\ call' = [call EXCEPT ![c] = "acknowledged"]
        BY <2>2 DEF SetAlarm
      <3> QED  BY <2>t, <3>1 DEF CallMoves, CallSteps
    <2>3. CASE FireAlarm
      <3>1. /\ alarm /\ handler = "idle" /\ ~alarm' /\ table' = table
            /\ handler' \in {"idle", "sent"}
        BY <2>3 DEF FireAlarm, Purge
      <3> QED  BY <3>1 DEF Emptier, AlarmSteps
    <2>4. CASE CdnPurges
      <3>1. /\ handler = "sent" /\ handler' \in {"purged", "unpurged"}
            /\ table' = table /\ alarm' = alarm
        BY <2>4 DEF CdnPurges, platform
      <3> QED  BY <3>1 DEF Emptier, AlarmSteps
    <2>5. CASE Answer
      <3>1. table' = table \ batch /\ batch # {} /\ batch \subseteq table
        BY <2>5 DEF Answer, DeletedRows, BatchInv
      <3> QED  BY <3>1 DEF Emptier
    <2>6. CASE RateLimited \/ Crash
      BY <2>6 DEF RateLimited, Crash, Disturbed
    <2> QED  BY <2>1, <2>2, <2>3, <2>4, <2>5, <2>6 DEF PurgeNext
  <1>2. PurgeInit => BatchInv
    BY DEF PurgeInit, BatchInv
  <1> QED  BY <1>1, <1>2, PurgeTypeCorrect, BatchStep, PTL DEF PurgeSpec

=============================================================================
