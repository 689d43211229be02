--------------------------- MODULE PromptTextProofs ---------------------------
(***************************************************************************)
(* What is proved of the prompt analysis as an algorithm, for texts of any *)
(* length: where the preamble is found, what a template with its           *)
(* placeholders filled looks like, and what the loop that carves the       *)
(* untrusted regions out of it brings to light.                            *)
(***************************************************************************)
EXTENDS PromptText, WellFoundedInduction, TLAPS

(***************************************************************************)
(* Numbers.  Induction is over a set: the provers cannot instantiate an    *)
(* induction rule that takes a predicate.                                  *)
(***************************************************************************)
LEMMA LeastNumber ==
    ASSUME NEW S \in SUBSET Nat, S # {}
    PROVE  Min(S) \in S /\ \A m \in S : Min(S) <= m
<1>1. \E n \in S : \A m \in S : <<m, n>> \notin OpToRel(<, Nat)
  BY NatLessThanWellFounded, WFMin
<1>2. PICK n \in S : \A m \in S : <<m, n>> \notin OpToRel(<, Nat)
  BY <1>1
<1>3. \A m \in S : ~(m < n)
  BY <1>2 DEF OpToRel
<1>4. \A m \in S : n <= m
  BY <1>3
<1> QED BY <1>4 DEF Min

LEMMA LargestNumber ==
    ASSUME NEW n \in Nat, NEW S \in SUBSET (0 .. n), S # {}
    PROVE  Max(S) \in S /\ \A m \in S : m <= Max(S)
<1> DEFINE D == {n - m : m \in S}
<1>1. D \in SUBSET Nat /\ D # {}
  <2>1. \A m \in S : n - m \in Nat
    OBVIOUS
  <2> QED BY <2>1
<1>2. PICK d \in D : \A c \in D : d <= c
  BY <1>1, LeastNumber
<1>3. PICK x \in S : d = n - x
  BY <1>2
<1>4. \A m \in S : n - x <= n - m
  BY <1>2, <1>3
<1>5. \A m \in S : x >= m
  BY <1>4
<1> QED BY <1>5 DEF Max

LEMMA Induction ==
    ASSUME NEW S, 0 \in S, \A n \in Nat : n \in S => n + 1 \in S
    PROVE  Nat \subseteq S
<1> SUFFICES ASSUME Nat \ S # {} PROVE FALSE
  OBVIOUS
<1>1. PICK n \in Nat \ S : \A m \in Nat \ S : n <= m
  BY LeastNumber
<1>2. n # 0 /\ n - 1 \in Nat
  BY <1>1
<1>3. n - 1 \in S
  BY <1>1, <1>2
<1> QED BY <1>2, <1>3

\* Induction up to a bound, from a start.
LEMMA InductionWithin ==
    ASSUME NEW from \in Nat, NEW to \in Nat, NEW S, from \in S,
           \A n \in from .. to - 1 : n \in S => n + 1 \in S
    PROVE  from .. to \subseteq S
<1> DEFINE D == {d \in Nat : from + d \in S \/ from + d > to}
<1>1. 0 \in D
  OBVIOUS
<1>2. ASSUME NEW d \in Nat, d \in D PROVE d + 1 \in D
  <2>1. CASE from + d + 1 > to
    BY <2>1
  <2>2. CASE from + d + 1 <= to
    <3>1. from + d \in from .. to - 1 /\ from + d \in S
      BY <1>2, <2>2
    <3>2. (from + d) + 1 \in S
      BY <3>1
    <3>3. (from + d) + 1 = from + (d + 1)
      OBVIOUS
    <3> QED BY <3>2, <3>3
  <2> QED BY <2>1, <2>2
<1> HIDE DEF D
<1>3. Nat \subseteq D
  BY <1>1, <1>2, Induction
<1> SUFFICES ASSUME NEW n \in from .. to PROVE n \in S
  OBVIOUS
<1>4. n - from \in Nat /\ from + (n - from) = n /\ ~(n > to)
  OBVIOUS
<1>5. n - from \in D
  BY <1>3, <1>4
<1> QED BY <1>4, <1>5 DEF D

-------------------------------------------------------------------------------
(***************************************************************************)
(* Texts: where a segment is found, and what trimming leaves.              *)
(***************************************************************************)

\* One text after another.
LEMMA Joined ==
    ASSUME NEW u \in Text, NEW v \in Text
    PROVE  /\ u \o v \in Text
           /\ Len(u) \in Nat /\ Len(v) \in Nat
           /\ Len(u \o v) = Len(u) + Len(v)
           /\ \A p \in 1 .. Len(u) : (u \o v)[p] = u[p]
           /\ \A p \in 1 .. Len(v) : (u \o v)[Len(u) + p] = v[p]
BY DEF Text

LEMMA SameText ==
    ASSUME NEW u \in Text, NEW v \in Text, Len(u) = Len(v),
           \A i \in 1 .. Len(u) : u[i] = v[i]
    PROVE  u = v
<1>1. u = [i \in 1 .. Len(u) |-> u[i]] /\ v = [i \in 1 .. Len(v) |-> v[i]]
  BY DEF Text
<1> QED BY <1>1

LEMMA JoinedTwice ==
    ASSUME NEW u \in Text, NEW v \in Text, NEW w \in Text
    PROVE  (u \o v) \o w = u \o (v \o w)
BY DEF Text

\* A segment that is found is found where it first occurs.
LEMMA IndexIs ==
    ASSUME NEW t \in Text, NEW s \in Text
    PROVE  LET p == IndexOf(t, s)
               places == 1 .. Len(t) - Len(s) + 1
           IN  /\ p = 0 => \A q \in places : SubSeq(t, q, q + Len(s) - 1) # s
               /\ p # 0 => /\ p \in places
                           /\ SubSeq(t, p, p + Len(s) - 1) = s
                           /\ \A q \in places : SubSeq(t, q, q + Len(s) - 1) = s => p <= q
<1> DEFINE places == 1 .. Len(t) - Len(s) + 1
           found == {q \in places : SubSeq(t, q, q + Len(s) - 1) = s}
<1>1. IndexOf(t, s) = IF found = {} THEN 0 ELSE Min(found)
  BY DEF IndexOf
<1>2. found \in SUBSET Nat /\ \A q \in found : q # 0
  OBVIOUS
<1>3. found # {} => Min(found) \in found /\ \A m \in found : Min(found) <= m
  BY <1>2, LeastNumber
<1>4. CASE found = {}
  <2>1. IndexOf(t, s) = 0
    BY <1>1, <1>4
  <2> QED BY <1>4, <2>1
<1>5. CASE found # {}
  <2>1. IndexOf(t, s) = Min(found) /\ Min(found) # 0
    BY <1>1, <1>2, <1>3, <1>5
  <2> HIDE DEF found
  <2>2. IndexOf(t, s) \in found /\ \A m \in found : IndexOf(t, s) <= m
    BY <1>3, <1>5, <2>1
  <2> QED BY <2>1, <2>2 DEF found
<1> QED BY <1>4, <1>5

\* A text is found at the start of one that opens with it.
LEMMA IndexOfPrefix ==
    ASSUME NEW s \in Text, NEW u \in Text
    PROVE  IndexOf(s \o u, s) = 1
<1> DEFINE t == s \o u
<1>1. t \in Text /\ Len(t) = Len(s) + Len(u)
  BY DEF Text
<1>2. SubSeq(t, 1, 1 + Len(s) - 1) = s
  BY DEF Text
<1>3. 1 \in 1 .. Len(t) - Len(s) + 1
  BY <1>1 DEF Text
<1> DEFINE p == IndexOf(t, s)
<1> HIDE DEF t
<1>4. /\ p = 0 => \A q \in 1 .. Len(t) - Len(s) + 1 : SubSeq(t, q, q + Len(s) - 1) # s
      /\ p # 0 => /\ p \in 1 .. Len(t) - Len(s) + 1
                  /\ \A q \in 1 .. Len(t) - Len(s) + 1 :
                        SubSeq(t, q, q + Len(s) - 1) = s => p <= q
  BY <1>1, IndexIs
<1> HIDE DEF p
<1>5. p # 0
  BY <1>2, <1>3, <1>4
<1>6. p \in Nat /\ p <= 1
  <2>1. p \in 1 .. Len(t) - Len(s) + 1 /\ p <= 1
    BY <1>2, <1>3, <1>4, <1>5
  <2> QED BY <2>1
<1>7. p = 1
  BY <1>5, <1>6
<1> QED BY <1>7 DEF p, t

\* What follows a segment is cut into a region and the rest, either before
\* the first occurrence of the next segment or at the end.
LEMMA RegionIs ==
    ASSUME NEW rest \in Text, NEW after \in Text, NEW next \in Text
    PROVE  \E m \in 0 .. Len(after) :
             /\ Region(after, next) = SubSeq(after, 1, m)
             /\ NextRest(rest, after, Region(after, next)) = SubSeq(after, m + 1, Len(after))
             /\ \/ /\ m = Len(after)
                   /\ next = <<>> \/ IndexOf(after, next) = 0
                \/ next # <<>> /\ IndexOf(after, next) = m + 1
<1> DEFINE p == IndexOf(after, next)
<1>1. CASE next = <<>> \/ p = 0
  <2>1. Region(after, next) = after /\ SubSeq(after, 1, Len(after)) = after
    BY <1>1 DEF Region, Text
  <2>2. Len(after) \in 0 .. Len(after)
    BY DEF Text
  <2> QED BY <1>1, <2>1, <2>2 DEF NextRest
<1>2. CASE next # <<>> /\ p # 0
  <2>1. p \in 1 .. Len(after) - Len(next) + 1 /\ Len(next) > 0
    BY <1>2, IndexIs DEF Text
  <2>2. p - 1 \in 0 .. Len(after) /\ p = (p - 1) + 1
    BY <2>1 DEF Text
  <2>3. Region(after, next) = SubSeq(after, 1, p - 1)
    BY <1>2 DEF Region
  <2> HIDE DEF p
  <2>4. Len(SubSeq(after, 1, p - 1)) = p - 1
    BY <2>2 DEF Text
  <2> QED BY <1>2, <2>2, <2>3, <2>4 DEF NextRest, p
<1> QED BY <1>1, <1>2

\* Trimming a text with something in it keeps every visible token.
LEMMA TrimIs ==
    ASSUME NEW t \in Text, ~IsBlank(t)
    PROVE  /\ Min(Visible(t)) \in Visible(t) /\ Max(Visible(t)) \in Visible(t)
           /\ \A i \in Visible(t) : Min(Visible(t)) <= i /\ i <= Max(Visible(t))
           /\ Visible(t) \subseteq 1 .. Len(t)
           /\ Trim(t) \in Text
           /\ \A i \in Visible(t) : \E j \in DOMAIN Trim(t) : Trim(t)[j] = t[i]
<1> DEFINE lo == Min(Visible(t))
           hi == Max(Visible(t))
<1>1. Visible(t) \subseteq 1 .. Len(t) /\ Visible(t) # {} /\ Len(t) \in Nat
  BY DEF Visible, IsBlank, Text
<1>2. lo \in Visible(t) /\ \A i \in Visible(t) : lo <= i
  BY <1>1, LeastNumber
<1>3. hi \in Visible(t) /\ \A i \in Visible(t) : i <= hi
  <2>1. Visible(t) \in SUBSET (0 .. Len(t))
    BY <1>1
  <2> QED BY <1>1, <2>1, LargestNumber
<1>4. Trim(t) = SubSeq(t, lo, hi)
  BY DEF Trim
<1> HIDE DEF lo, hi
<1>5. lo \in 1 .. Len(t) /\ hi \in 1 .. Len(t) /\ lo <= hi
  BY <1>1, <1>2, <1>3
<1>6. Trim(t) \in Text
  BY <1>4, <1>5 DEF Text
<1>7. ASSUME NEW i \in Visible(t)
      PROVE  \E j \in DOMAIN Trim(t) : Trim(t)[j] = t[i]
  <2>1. i \in lo .. hi
    BY <1>1, <1>2, <1>3, <1>5
  <2>2. i - lo + 1 \in DOMAIN Trim(t) /\ Trim(t)[i - lo + 1] = t[i]
    BY <1>4, <1>5, <2>1 DEF Text
  <2> QED BY <2>2
<1> QED BY <1>1, <1>2, <1>3, <1>6, <1>7 DEF lo, hi
-------------------------------------------------------------------------------
(***************************************************************************)
(* A template with its placeholders filled.                                *)
(***************************************************************************)
Fills(value, t) == \A i \in DOMAIN t : t[i] \in Slots => value[t[i]] \in Text

LEMMA FilledIsText ==
    ASSUME NEW t \in Text, NEW value, Fills(value, t), NEW i \in DOMAIN t
    PROVE  Filled(t[i], value) \in Text
<1>1. t[i] \in Tokens
  BY DEF Text
<1> QED BY <1>1 DEF Filled, Fills, Text

\* The text of the first i tokens, one token at a time.
LEMMA InterpolationIs ==
    ASSUME NEW t \in Text, NEW value
    PROVE  LET g == Interpolation(t, value)
           IN  /\ g[0] = <<>>
               /\ \A i \in 1 .. Len(t) : g[i] = g[i - 1] \o Filled(t[i], value)
<1> DEFINE Upto(n, g) == g = [i \in 0 .. n |->
                IF i = 0 THEN <<>> ELSE g[i - 1] \o Filled(t[i], value)]
           S == {n \in Nat : \E g : Upto(n, g)}
<1>1. 0 \in S
  <2> DEFINE g == [i \in 0 .. 0 |-> <<>>]
  <2>1. Upto(0, g)
    OBVIOUS
  <2> QED BY <2>1
<1>2. ASSUME NEW n \in Nat, n \in S PROVE n + 1 \in S
  <2>1. PICK g : Upto(n, g)
    BY <1>2
  <2> DEFINE h == [i \in 0 .. n + 1 |->
                     IF i = n + 1 THEN g[n] \o Filled(t[n + 1], value) ELSE g[i]]
  <2>2. \A i \in 0 .. n : h[i] = g[i]
    OBVIOUS
  <2>3. \A i \in 0 .. n + 1 :
           h[i] = IF i = 0 THEN <<>> ELSE h[i - 1] \o Filled(t[i], value)
    <3> SUFFICES ASSUME NEW i \in 0 .. n + 1
                 PROVE  h[i] = IF i = 0 THEN <<>> ELSE h[i - 1] \o Filled(t[i], value)
      OBVIOUS
    <3>1. CASE i = 0
      <4>1. g[0] = <<>>
        BY <2>1
      <4> QED BY <2>2, <3>1, <4>1
    <3>2. CASE i \in 1 .. n
      <4>1. i - 1 \in 0 .. n /\ i \in 0 .. n /\ i # 0
        BY <3>2
      <4>2. g[i] = g[i - 1] \o Filled(t[i], value)
        BY <2>1, <4>1
      <4> HIDE DEF h
      <4> QED BY <2>2, <4>1, <4>2
    <3>3. CASE i = n + 1
      <4>1. i # 0 /\ i - 1 = n /\ n \in 0 .. n
        BY <3>3
      <4>2. h[i] = g[n] \o Filled(t[n + 1], value)
        BY <3>3
      <4> HIDE DEF h
      <4> QED BY <2>2, <3>3, <4>1, <4>2
    <3> QED BY <3>1, <3>2, <3>3
  <2>4. h = [i \in 0 .. n + 1 |-> h[i]]
    OBVIOUS
  <2> HIDE DEF h
  <2>5. Upto(n + 1, h)
    BY <2>3, <2>4
  <2> HIDE DEF Upto
  <2> QED BY <2>5
<1> HIDE DEF S
<1>3. Nat \subseteq S
  BY <1>1, <1>2, Induction
<1>4. Len(t) \in Nat
  BY DEF Text
<1>5. \E g : Upto(Len(t), g)
  BY <1>3, <1>4 DEF S
<1>6. Upto(Len(t), CHOOSE g : Upto(Len(t), g))
  <2> HIDE DEF Upto
  <2> QED BY <1>5, Zenon
<1>7. Interpolation(t, value) = CHOOSE g : Upto(Len(t), g)
  BY Zenon DEF Interpolation
<1>8. Upto(Len(t), Interpolation(t, value))
  BY <1>6, <1>7, Zenon
<1> DEFINE g == Interpolation(t, value)
<1>9. g = [i \in 0 .. Len(t) |-> IF i = 0 THEN <<>> ELSE g[i - 1] \o Filled(t[i], value)]
  BY <1>8, Zenon
<1> HIDE DEF g, Upto
<1>10. g[0] = <<>>
  BY <1>4, <1>9
<1>11. ASSUME NEW i \in 1 .. Len(t)
       PROVE  g[i] = g[i - 1] \o Filled(t[i], value)
  <2>1. i \in 0 .. Len(t) /\ i # 0
    BY <1>4
  <2> QED BY <1>9, <2>1
<1> QED BY <1>10, <1>11 DEF g

LEMMA InterpolationIsText ==
    ASSUME NEW t \in Text, NEW value, Fills(value, t)
    PROVE  /\ \A i \in 0 .. Len(t) : Interpolation(t, value)[i] \in Text
           /\ Interpolate(t, value) \in Text
<1> DEFINE g == Interpolation(t, value)
           S == {i \in 0 .. Len(t) : g[i] \in Text}
<1>1. Len(t) \in Nat /\ DOMAIN t = 1 .. Len(t)
  BY DEF Text
<1>2. /\ g[0] = <<>>
      /\ \A i \in 1 .. Len(t) : g[i] = g[i - 1] \o Filled(t[i], value)
  BY InterpolationIs
<1> HIDE DEF g
<1>3. 0 \in S
  <2>1. 0 \in 0 .. Len(t) /\ <<>> \in Text
    BY <1>1 DEF Text
  <2> QED BY <1>2, <2>1
<1>4. ASSUME NEW n \in 0 .. Len(t) - 1, n \in S PROVE n + 1 \in S
  <2>1. n + 1 \in 1 .. Len(t) /\ (n + 1) - 1 = n /\ n + 1 \in 0 .. Len(t)
    BY <1>1
  <2>2. g[n + 1] = g[n] \o Filled(t[n + 1], value)
    BY <1>2, <2>1
  <2>3. Filled(t[n + 1], value) \in Text /\ g[n] \in Text
    BY <1>1, <1>4, <2>1, FilledIsText
  <2>4. g[n] \o Filled(t[n + 1], value) \in Text
    BY <2>3 DEF Text
  <2> QED BY <2>1, <2>2, <2>4
<1> HIDE DEF S
<1>5. 0 .. Len(t) \subseteq S
  BY <1>1, <1>3, <1>4, InductionWithin
<1>6. \A i \in 0 .. Len(t) : g[i] \in Text
  BY <1>5 DEF S
<1>7. Len(t) \in 0 .. Len(t)
  BY <1>1
<1> QED BY <1>6, <1>7 DEF g, Interpolate

\* How much text the first i tokens have become.
Reach(t, value, i) == Len(Interpolation(t, value)[i])

\* Each token is followed by the text of the next ones.
LEMMA InterpolationGrows ==
    ASSUME NEW t \in Text, NEW value, Fills(value, t), NEW i \in 0 .. Len(t)
    PROVE  \A k \in i .. Len(t) :
             /\ Reach(t, value, i) <= Reach(t, value, k)
             /\ \A p \in 1 .. Reach(t, value, i) :
                  Interpolation(t, value)[k][p] = Interpolation(t, value)[i][p]
<1> DEFINE g == Interpolation(t, value)
           S == {k \in i .. Len(t) : /\ Len(g[i]) <= Len(g[k])
                                     /\ \A p \in 1 .. Len(g[i]) : g[k][p] = g[i][p]}
<1>1. Len(t) \in Nat /\ DOMAIN t = 1 .. Len(t)
  BY DEF Text
<1>2. \A k \in 1 .. Len(t) : g[k] = g[k - 1] \o Filled(t[k], value)
  BY InterpolationIs
<1>3. \A k \in 0 .. Len(t) : g[k] \in Text
  BY InterpolationIsText
<1> HIDE DEF g
<1>4. i \in S
  <2>1. g[i] \in Text
    BY <1>3
  <2>2. Len(g[i]) <= Len(g[i])
    BY <2>1 DEF Text
  <2> QED BY <1>1, <2>2
<1>5. ASSUME NEW k \in i .. Len(t) - 1, k \in S PROVE k + 1 \in S
  <2>1. k + 1 \in 1 .. Len(t) /\ (k + 1) - 1 = k /\ k + 1 \in i .. Len(t) /\ k \in 0 .. Len(t)
    BY <1>1
  <2>2. g[k + 1] = g[k] \o Filled(t[k + 1], value) /\ g[k] \in Text /\ g[i] \in Text
    BY <1>2, <1>3, <2>1
  <2>3. Filled(t[k + 1], value) \in Text
    BY <1>1, <2>1, FilledIsText
  <2> HIDE DEF S
  <2> DEFINE part == Filled(t[k + 1], value)
             whole == g[k + 1]
             before == g[k]
             start == g[i]
  <2>4. whole = before \o part /\ before \in Text /\ part \in Text /\ start \in Text
    BY <2>2, <2>3
  <2>5. Len(start) <= Len(before) /\ \A p \in 1 .. Len(start) : before[p] = start[p]
    BY <1>5 DEF S
  <2> HIDE DEF part, whole, before, start
  <2>6. /\ Len(part) \in Nat /\ Len(before) \in Nat
        /\ Len(whole) = Len(before) + Len(part)
        /\ \A p \in 1 .. Len(before) : whole[p] = before[p]
    BY <2>4, Joined
  <2>7. Len(start) \in Nat
    BY <2>4 DEF Text
  <2>8. Len(start) <= Len(whole)
    BY <2>5, <2>6, <2>7
  <2>9. ASSUME NEW p \in 1 .. Len(start) PROVE whole[p] = start[p]
    <3>1. p \in 1 .. Len(before)
      BY <2>5, <2>6, <2>7
    <3> QED BY <2>5, <2>6, <3>1
  <2> QED BY <2>1, <2>8, <2>9 DEF S, whole, start
<1> HIDE DEF S
<1>6. i .. Len(t) \subseteq S
  <2>1. i \in Nat
    BY <1>1
  <2> QED BY <1>1, <1>4, <1>5, <2>1, InductionWithin
<1> QED BY <1>6 DEF S, g, Reach

\* Where the text of token i lies in the whole.
LEMMA FilledLies ==
    ASSUME NEW t \in Text, NEW value, Fills(value, t), NEW i \in 1 .. Len(t)
    PROVE  LET X == Interpolate(t, value)
               from == Reach(t, value, i - 1)
               part == Filled(t[i], value)
           IN  /\ from \in Nat /\ part \in Text
               /\ Reach(t, value, i) = from + Len(part)
               /\ Reach(t, value, i) \in 0 .. Len(X)
               /\ \A j \in 1 .. Len(part) : X[from + j] = part[j]
<1> DEFINE g == Interpolation(t, value)
           part == Filled(t[i], value)
<1>1. /\ Len(t) \in Nat /\ i - 1 \in 0 .. Len(t) /\ i \in 0 .. Len(t) /\ i \in DOMAIN t
      /\ Len(t) \in i .. Len(t)
  BY DEF Text
<1>2. g[i] = g[i - 1] \o part
  BY InterpolationIs
<1>3. g[i - 1] \in Text /\ part \in Text /\ g[i] \in Text /\ g[Len(t)] \in Text
  BY <1>1, InterpolationIsText, FilledIsText
<1>4. /\ Len(g[i]) <= Len(g[Len(t)])
      /\ \A p \in 1 .. Len(g[i]) : g[Len(t)][p] = g[i][p]
  <2>1. /\ Reach(t, value, i) <= Reach(t, value, Len(t))
        /\ \A p \in 1 .. Reach(t, value, i) :
              Interpolation(t, value)[Len(t)][p] = Interpolation(t, value)[i][p]
    <3> HIDE DEF part, g
    <3> QED BY <1>1, InterpolationGrows
  <2> QED BY <2>1, Zenon DEF Reach
<1> HIDE DEF g, part
<1>5. /\ Len(g[i - 1]) \in Nat /\ Len(g[i]) = Len(g[i - 1]) + Len(part)
      /\ \A j \in 1 .. Len(part) : /\ g[i][Len(g[i - 1]) + j] = part[j]
                                   /\ Len(g[i - 1]) + j \in 1 .. Len(g[i])
  BY <1>2, <1>3 DEF Text
<1>6. \A j \in 1 .. Len(part) : g[Len(t)][Len(g[i - 1]) + j] = part[j]
  BY <1>4, <1>5
<1>7. Len(g[i]) \in 0 .. Len(g[Len(t)])
  BY <1>3, <1>4 DEF Text
<1> QED BY <1>3, <1>5, <1>6, <1>7 DEF g, part, Reach, Interpolate

\* Tokens without a placeholder among them are their own text.
LEMMA StaticRun ==
    ASSUME NEW t \in Text, NEW value, Fills(value, t),
           NEW o \in 0 .. Len(t), NEW n \in o .. Len(t),
           \A i \in o + 1 .. n : t[i] \notin Slots
    PROVE  /\ Reach(t, value, o) \in Nat
           /\ Reach(t, value, n) = Reach(t, value, o) + (n - o)
           /\ \A j \in 1 .. n - o : Interpolate(t, value)[Reach(t, value, o) + j] = t[o + j]
<1> DEFINE X == Interpolate(t, value)
           L(i) == Reach(t, value, i)
           S == {k \in o .. n : /\ L(k) = L(o) + (k - o)
                                /\ \A j \in 1 .. k - o : X[L(o) + j] = t[o + j]}
<1>1. Len(t) \in Nat /\ o \in Nat /\ n \in Nat
  BY DEF Text
<1>2. L(o) \in Nat
  <2>1. Interpolation(t, value)[o] \in Text
    BY InterpolationIsText
  <2> QED BY <2>1 DEF Reach, Text
<1>3. \A i \in o + 1 .. n : /\ L(i) = L(i - 1) + 1
                            /\ X[L(i - 1) + 1] = t[i]
  <2> SUFFICES ASSUME NEW i \in o + 1 .. n
               PROVE  L(i) = L(i - 1) + 1 /\ X[L(i - 1) + 1] = t[i]
    OBVIOUS
  <2>1. i \in 1 .. Len(t)
    BY <1>1
  <2>2. Filled(t[i], value) = <<t[i]>> /\ Len(<<t[i]>>) = 1 /\ 1 \in 1 .. 1
    BY DEF Filled
  <2>3. /\ Reach(t, value, i) = Reach(t, value, i - 1) + Len(Filled(t[i], value))
        /\ \A j \in 1 .. Len(Filled(t[i], value)) :
              X[Reach(t, value, i - 1) + j] = Filled(t[i], value)[j]
    BY <2>1, FilledLies
  <2> HIDE DEF X
  <2> QED BY <2>2, <2>3
<1> HIDE DEF L, X
<1>4. o \in S
  BY <1>1, <1>2
<1>5. ASSUME NEW k \in o .. n - 1, k \in S PROVE k + 1 \in S
  <2>1. k + 1 \in o + 1 .. n /\ k + 1 \in o .. n /\ (k + 1) - 1 = k /\ k \in Nat
    BY <1>1
  <2>2. L(k + 1) = L(k) + 1 /\ X[L(k) + 1] = t[k + 1]
    BY <1>3, <2>1
  <2>3. L(k) = L(o) + (k - o) /\ \A j \in 1 .. k - o : X[L(o) + j] = t[o + j]
    BY <1>5
  <2>4. L(k + 1) = L(o) + ((k + 1) - o)
    BY <1>1, <1>2, <2>1, <2>2, <2>3
  <2>5. ASSUME NEW j \in 1 .. (k + 1) - o PROVE X[L(o) + j] = t[o + j]
    <3>1. CASE j \in 1 .. k - o
      BY <2>3, <3>1
    <3>2. CASE j = (k + 1) - o
      <4>1. L(o) + j = L(k) + 1 /\ o + j = k + 1
        BY <1>1, <1>2, <2>1, <2>3, <3>2
      <4> QED BY <2>2, <4>1
    <3>3. j \in 1 .. k - o \/ j = (k + 1) - o
      BY <1>1, <2>1
    <3> QED BY <3>1, <3>2, <3>3
  <2> QED BY <2>1, <2>4, <2>5
<1> HIDE DEF S
<1>6. o .. n \subseteq S
  BY <1>1, <1>4, <1>5, InductionWithin
<1>7. n \in S
  BY <1>1, <1>6
<1> QED BY <1>2, <1>7 DEF S, L, X
-------------------------------------------------------------------------------
(***************************************************************************)
(* Where a preamble is found.  What precedes the first visible token of a  *)
(* template, and that token unless it is a placeholder, opens the rendered *)
(* prompt too.                                                             *)
(***************************************************************************)
FirstVisible(t) == Min(Visible(t))

LEMMA FirstVisibleIs ==
    ASSUME NEW t \in Text, ~IsBlank(t)
    PROVE  /\ FirstVisible(t) \in 1 .. Len(t)
           /\ t[FirstVisible(t)] # Blank
           /\ \A i \in 1 .. FirstVisible(t) - 1 : t[i] = Blank
<1>1. DOMAIN t = 1 .. Len(t) /\ Len(t) \in Nat
  BY DEF Text
<1>2. FirstVisible(t) \in Visible(t) /\ \A i \in Visible(t) : FirstVisible(t) <= i
  BY TrimIs DEF FirstVisible
<1>3. FirstVisible(t) \in 1 .. Len(t) /\ t[FirstVisible(t)] # Blank
  BY <1>1, <1>2 DEF Visible
<1>4. ASSUME NEW i \in 1 .. FirstVisible(t) - 1 PROVE t[i] = Blank
  <2>1. i \in DOMAIN t /\ ~(FirstVisible(t) <= i)
    BY <1>1, <1>3
  <2> QED BY <1>2, <2>1 DEF Visible
<1> QED BY <1>3, <1>4

\* The first visible token is known by what precedes it.
LEMMA FirstVisibleAt ==
    ASSUME NEW t \in Text, NEW n \in 1 .. Len(t), t[n] # Blank,
           \A i \in 1 .. n - 1 : t[i] = Blank
    PROVE  ~IsBlank(t) /\ FirstVisible(t) = n
<1>1. DOMAIN t = 1 .. Len(t) /\ Len(t) \in Nat
  BY DEF Text
<1>2. ~IsBlank(t)
  BY <1>1 DEF IsBlank, Visible
<1>3. /\ FirstVisible(t) \in 1 .. Len(t) /\ t[FirstVisible(t)] # Blank
      /\ \A i \in 1 .. FirstVisible(t) - 1 : t[i] = Blank
  BY <1>2, FirstVisibleIs
<1>4. ~(FirstVisible(t) < n) /\ ~(n < FirstVisible(t))
  BY <1>1, <1>3
<1> QED BY <1>1, <1>2, <1>3, <1>4

LEMMA OpeningIsTheTemplates ==
    ASSUME NEW t \in Text, NEW value, Fills(value, t),
           ~IsBlank(t), t[FirstVisible(t)] \notin Slots
    PROVE  LET X == Interpolate(t, value)
               lo == FirstVisible(t)
           IN  /\ X \in Text /\ ~IsBlank(X)
               /\ lo \in 1 .. Len(X) /\ FirstVisible(X) = lo
               /\ \A i \in 1 .. lo : X[i] = t[i]
<1> DEFINE X == Interpolate(t, value)
           lo == FirstVisible(t)
<1>1. /\ Len(t) \in Nat /\ lo \in 1 .. Len(t) /\ t[lo] # Blank
      /\ \A i \in 1 .. lo - 1 : t[i] = Blank
  BY FirstVisibleIs DEF Text
<1>2. X \in Text /\ Len(X) \in Nat
  BY InterpolationIsText DEF Text
<1>3. Reach(t, value, 0) = 0
  <2>1. Interpolation(t, value)[0] = <<>>
    BY InterpolationIs
  <2> QED BY <2>1 DEF Reach
<1> HIDE DEF X, lo
<1>4. \A i \in 1 .. lo : t[i] \notin Slots
  <2>1. t[lo] \notin Slots
    BY DEF lo
  <2> QED BY <1>1, <2>1, TokensAreDistinct
<1>5. 0 \in 0 .. Len(t) /\ lo \in 0 .. Len(t) /\ \A i \in 0 + 1 .. lo : t[i] \notin Slots
  BY <1>1, <1>4
<1>6. /\ Reach(t, value, lo) = 0 + (lo - 0)
      /\ \A j \in 1 .. lo - 0 : X[0 + j] = t[0 + j]
  BY <1>3, <1>5, StaticRun DEF X
<1>7. \A i \in 1 .. lo : X[i] = t[i]
  BY <1>1, <1>6
<1>8. Reach(t, value, lo) \in 0 .. Len(X)
  BY <1>1, FilledLies DEF X
<1>9. lo \in 1 .. Len(X)
  BY <1>1, <1>6, <1>8
<1>10. X[lo] # Blank /\ \A i \in 1 .. lo - 1 : X[i] = Blank
  BY <1>1, <1>7
<1>11. ~IsBlank(X) /\ FirstVisible(X) = lo
  BY <1>2, <1>9, <1>10, FirstVisibleAt
<1> QED BY <1>2, <1>7, <1>9, <1>11 DEF X, lo

LEMMA OpensWithIs ==
    ASSUME NEW t \in Text, NEW value, Fills(value, t),
           ~IsBlank(t), t[FirstVisible(t)] \notin Slots, NEW token
    PROVE  OpensWith(Interpolate(t, value), token) <=> OpensWith(t, token)
<1>1. FirstVisible(t) \in 1 .. FirstVisible(t)
  BY FirstVisibleIs DEF Text
<1> QED BY <1>1, OpeningIsTheTemplates DEF OpensWith, FirstVisible

\* A prompt whose preamble the host removed opens with the host's marker.
LEMMA StrippedOpens ==
    ASSUME NEW u \in Text
    PROVE  LET r == <<Marker, Blank>> \o u
           IN  /\ r \in Text /\ OpensWith(r, Marker) /\ ~OpensWith(r, Open)
               /\ HostRemovedScaffolding(r)
<1> DEFINE r == <<Marker, Blank>> \o u
<1>1. <<Marker, Blank>> \in Text /\ Marker # Blank /\ Marker # Open
  BY TokensAreDistinct DEF Text, Tokens
<1>2. r \in Text /\ Len(r) = 2 + Len(u) /\ Len(u) \in Nat /\ r[1] = Marker /\ r[2] = Blank
  BY <1>1 DEF Text
<1> HIDE DEF r
<1>3. ~IsBlank(r) /\ FirstVisible(r) = 1
  <2>1. 1 \in 1 .. Len(r) /\ r[1] # Blank /\ \A i \in 1 .. 1 - 1 : r[i] = Blank
    BY <1>1, <1>2
  <2> QED BY <1>2, <2>1, FirstVisibleAt
<1>4. r[1 + 1] = Blank
  BY <1>2
<1>5. OpensWith(r, Marker) /\ ~OpensWith(r, Open)
  BY <1>1, <1>2, <1>3 DEF OpensWith, FirstVisible
<1>6. HostRemovedScaffolding(r)
  BY <1>3, <1>4, <1>5 DEF HostRemovedScaffolding, FirstVisible
<1> QED BY <1>2, <1>5, <1>6 DEF r

\* What is left of a text from a position on.
LEMMA FromIsText ==
    ASSUME NEW t \in Text, NEW n \in 1 .. Len(t) + 1
    PROVE  /\ SubSeq(t, n, Len(t)) \in Text
           /\ Len(SubSeq(t, n, Len(t))) = (Len(t) + 1) - n
           /\ \A i \in 1 .. (Len(t) + 1) - n : SubSeq(t, n, Len(t))[i] = t[(n + i) - 1]
BY DEF Text

LEMMA DropBlanksIs ==
    ASSUME NEW t \in Text
    PROVE  \E n \in 1 .. Len(t) + 1 :
             /\ DropBlanks(t) = SubSeq(t, n, Len(t))
             /\ \A i \in 1 .. n - 1 : t[i] = Blank
             /\ n <= Len(t) => t[n] # Blank
<1>1. Len(t) \in Nat /\ DOMAIN t = 1 .. Len(t)
  BY DEF Text
<1>2. CASE IsBlank(t)
  <2>1. DropBlanks(t) = SubSeq(t, Len(t) + 1, Len(t))
    BY <1>1, <1>2 DEF DropBlanks, Text
  <2>2. \A i \in 1 .. (Len(t) + 1) - 1 : t[i] = Blank
    BY <1>1, <1>2 DEF IsBlank, Visible
  <2>3. Len(t) + 1 \in 1 .. Len(t) + 1 /\ ~(Len(t) + 1 <= Len(t))
    BY <1>1
  <2> QED BY <2>1, <2>2, <2>3
<1>3. CASE ~IsBlank(t)
  <2>1. FirstVisible(t) \in 1 .. Len(t) + 1
    BY <1>1, <1>3, FirstVisibleIs
  <2> QED BY <1>3, <2>1, FirstVisibleIs DEF DropBlanks, FirstVisible
<1> QED BY <1>2, <1>3

LEMMA DropBlanksIsText ==
    ASSUME NEW t \in Text
    PROVE  DropBlanks(t) \in Text
<1>1. PICK n \in 1 .. Len(t) + 1 : DropBlanks(t) = SubSeq(t, n, Len(t))
  BY DropBlanksIs
<1> QED BY <1>1, FromIsText

\* Where a block ends, and how its end is known.
LEMMA BlockEndIs ==
    ASSUME NEW t \in Text, ClosedBlock(t)
    PROVE  /\ ~IsBlank(t) /\ t[FirstVisible(t)] = Open
           /\ Len(t) \in Nat /\ FirstVisible(t) \in 1 .. Len(t)
           /\ BlockEnd(t) \in FirstVisible(t) + 1 .. Len(t)
           /\ t[BlockEnd(t)] = Close
           /\ \A i \in FirstVisible(t) + 1 .. BlockEnd(t) - 1 : t[i] # Close
<1>1. ~IsBlank(t) /\ t[FirstVisible(t)] = Open /\ Closings(t) # {}
  BY DEF ClosedBlock, OpensWith, FirstVisible
<1>2. FirstVisible(t) \in 1 .. Len(t) /\ Len(t) \in Nat /\ DOMAIN t = 1 .. Len(t)
  BY <1>1, FirstVisibleIs DEF Text
<1>3. Closings(t) = {i \in 1 .. Len(t) : i > FirstVisible(t) /\ t[i] = Close}
  BY <1>2 DEF Closings, FirstVisible
<1>4. BlockEnd(t) \in Closings(t) /\ \A m \in Closings(t) : BlockEnd(t) <= m
  <2>1. Closings(t) \in SUBSET Nat
    BY <1>3
  <2> QED BY <1>1, <2>1, LeastNumber DEF BlockEnd
<1> HIDE DEF FirstVisible
<1>5. /\ BlockEnd(t) \in FirstVisible(t) + 1 .. Len(t)
      /\ t[BlockEnd(t)] = Close
  BY <1>2, <1>3, <1>4
<1>6. ASSUME NEW i \in FirstVisible(t) + 1 .. BlockEnd(t) - 1, t[i] = Close PROVE FALSE
  <2>1. i \in 1 .. Len(t) /\ i > FirstVisible(t) /\ ~(BlockEnd(t) <= i)
    BY <1>2, <1>5
  <2> QED BY <1>3, <1>4, <1>6, <2>1
<1> QED BY <1>1, <1>2, <1>5, <1>6

LEMMA BlockEndAt ==
    ASSUME NEW t \in Text, OpensWith(t, Open),
           NEW n \in FirstVisible(t) + 1 .. Len(t), t[n] = Close
    PROVE  /\ ClosedBlock(t) /\ BlockEnd(t) <= n
           /\ (\A i \in FirstVisible(t) + 1 .. n - 1 : t[i] # Close) => BlockEnd(t) = n
<1>1. ~IsBlank(t)
  BY DEF OpensWith
<1>2. FirstVisible(t) \in 1 .. Len(t) /\ Len(t) \in Nat /\ DOMAIN t = 1 .. Len(t)
  BY <1>1, FirstVisibleIs DEF Text
<1>3. n \in 1 .. Len(t) /\ n > FirstVisible(t)
  BY <1>2
<1>4. n \in Closings(t)
  BY <1>2, <1>3 DEF Closings, FirstVisible
<1>5. ClosedBlock(t)
  BY <1>4 DEF ClosedBlock
<1>6. /\ BlockEnd(t) \in FirstVisible(t) + 1 .. Len(t) /\ t[BlockEnd(t)] = Close
      /\ \A i \in FirstVisible(t) + 1 .. BlockEnd(t) - 1 : t[i] # Close
  BY <1>5, BlockEndIs
<1>7. ~(n < BlockEnd(t))
  BY <1>2, <1>3, <1>6
<1>8. BlockEnd(t) <= n
  BY <1>2, <1>3, <1>6, <1>7
<1>9. ASSUME \A i \in FirstVisible(t) + 1 .. n - 1 : t[i] # Close PROVE BlockEnd(t) = n
  <2>1. BlockEnd(t) \notin FirstVisible(t) + 1 .. n - 1
    BY <1>6, <1>9
  <2> QED BY <1>2, <1>3, <1>6, <1>8, <2>1
<1> QED BY <1>5, <1>8, <1>9

LEMMA StripIsText ==
    ASSUME NEW t \in Text, ClosedBlock(t)
    PROVE  /\ SubSeq(t, BlockEnd(t) + 1, Len(t)) \in Text
           /\ DropBlanks(SubSeq(t, BlockEnd(t) + 1, Len(t))) \in Text
           /\ StripFrameworkScaffolding(t) =
                 <<Marker, Blank>> \o DropBlanks(SubSeq(t, BlockEnd(t) + 1, Len(t)))
<1> DEFINE n == BlockEnd(t) + 1
<1>1. n \in 1 .. Len(t) + 1
  BY BlockEndIs
<1> HIDE DEF n
<1>2. SubSeq(t, n, Len(t)) \in Text
  BY <1>1, FromIsText
<1>3. DropBlanks(SubSeq(t, n, Len(t))) \in Text
  BY <1>2, DropBlanksIsText
<1> QED BY <1>2, <1>3 DEF n, StripFrameworkScaffolding

\* No text of a range of tokens is some token if none of theirs is.
LEMMA NoneAmong ==
    ASSUME NEW t \in Text, NEW value, Fills(value, t), NEW token,
           NEW o \in 0 .. Len(t), NEW n \in o .. Len(t),
           \A i \in o + 1 .. n : \A j \in 1 .. Len(Filled(t[i], value)) :
              Filled(t[i], value)[j] # token
    PROVE  \A p \in Reach(t, value, o) + 1 .. Reach(t, value, n) :
              Interpolate(t, value)[p] # token
<1> DEFINE X == Interpolate(t, value)
           L(i) == Reach(t, value, i)
           S == {k \in o .. n : \A p \in L(o) + 1 .. L(k) : X[p] # token}
<1>1. Len(t) \in Nat /\ o \in Nat /\ n \in Nat
  BY DEF Text
<1>2. L(o) \in Nat
  <2>1. Interpolation(t, value)[o] \in Text
    BY InterpolationIsText
  <2> QED BY <2>1 DEF Reach, Text
<1>3. ASSUME NEW k \in o .. n - 1
      PROVE  /\ L(k) \in Nat
             /\ \A p \in L(k) + 1 .. L(k + 1) : X[p] # token
  <2> DEFINE i == k + 1
             part == Filled(t[i], value)
  <2>1. i \in 1 .. Len(t) /\ i \in o + 1 .. n /\ i - 1 = k
    BY <1>1
  <2>2. \A j \in 1 .. Len(part) : part[j] # token
    BY <2>1
  <2> HIDE DEF i
  <2>3. /\ L(i - 1) \in Nat /\ part \in Text
        /\ L(i) = L(i - 1) + Len(part)
        /\ \A j \in 1 .. Len(part) : X[L(i - 1) + j] = part[j]
    BY <2>1, FilledLies
  <2> HIDE DEF X, L, part
  <2>4. ASSUME NEW p \in L(k) + 1 .. L(i) PROVE X[p] # token
    <3>1. Len(part) \in Nat
      BY <2>3 DEF Text
    <3>2. p - L(k) \in 1 .. Len(part) /\ L(k) + (p - L(k)) = p
      BY <2>1, <2>3, <3>1
    <3> QED BY <2>1, <2>2, <2>3, <3>2
  <2> QED BY <2>1, <2>3, <2>4 DEF i
<1> HIDE DEF X, L
<1>4. o \in S
  <2>1. \A p \in L(o) + 1 .. L(o) : FALSE
    BY <1>2
  <2> QED BY <1>1, <2>1
<1>5. ASSUME NEW k \in o .. n - 1, k \in S PROVE k + 1 \in S
  <2>1. k + 1 \in o .. n
    BY <1>1
  <2>2. ASSUME NEW p \in L(o) + 1 .. L(k + 1) PROVE X[p] # token
    <3>1. p \in L(o) + 1 .. L(k) \/ p \in L(k) + 1 .. L(k + 1)
      BY <1>2, <1>3
    <3> QED BY <1>3, <1>5, <3>1
  <2> QED BY <2>1, <2>2
<1> HIDE DEF S
<1>6. o .. n \subseteq S
  BY <1>1, <1>4, <1>5, InductionWithin
<1>7. n \in S
  BY <1>1, <1>6
<1> QED BY <1>7 DEF S, L, X

\* The template's own closing tag closes the rendered block, at the latest: no value
\* can put the end off.
LEMMA ClosesNoLater ==
    ASSUME NEW t \in Text, NEW value, Fills(value, t), ClosedBlock(t)
    PROVE  LET X == Interpolate(t, value)
               end == Reach(t, value, BlockEnd(t))
           IN  /\ X \in Text /\ OpensWith(X, Open)
               /\ FirstVisible(X) = FirstVisible(t)
               /\ Reach(t, value, FirstVisible(t)) = FirstVisible(t)
               /\ Reach(t, value, BlockEnd(t) - 1) \in Nat
               /\ end = Reach(t, value, BlockEnd(t) - 1) + 1
               /\ end \in FirstVisible(X) + 1 .. Len(X) /\ X[end] = Close
               /\ ClosedBlock(X) /\ BlockEnd(X) <= end
<1> DEFINE X == Interpolate(t, value)
           lo == FirstVisible(t)
           c == BlockEnd(t)
           L(i) == Reach(t, value, i)
<1>1. /\ ~IsBlank(t) /\ t[lo] = Open /\ Len(t) \in Nat /\ lo \in 1 .. Len(t)
      /\ c \in lo + 1 .. Len(t) /\ t[c] = Close
  BY BlockEndIs
<1>2. Open \notin Slots /\ Close \notin Slots
  BY TokensAreDistinct
<1>3. /\ X \in Text /\ ~IsBlank(X) /\ lo \in 1 .. Len(X) /\ FirstVisible(X) = lo
      /\ \A i \in 1 .. lo : X[i] = t[i]
  BY <1>1, <1>2, OpeningIsTheTemplates
<1>4. L(lo) = lo
  <2>1. \A i \in 1 .. lo : t[i] \notin Slots
    <3>1. \A i \in 1 .. lo - 1 : t[i] = Blank
      BY <1>1, FirstVisibleIs
    <3>2. \A i \in 1 .. lo : i = lo \/ i \in 1 .. lo - 1
      BY <1>1
    <3> HIDE DEF lo
    <3> QED BY <1>1, <1>2, <3>1, <3>2, TokensAreDistinct
  <2> HIDE DEF lo, X, L
  <2>2. Reach(t, value, 0) = 0
    <3>1. Interpolation(t, value)[0] = <<>>
      BY InterpolationIs
    <3> QED BY <3>1 DEF Reach
  <2>3. 0 \in 0 .. Len(t) /\ lo \in 0 .. Len(t) /\ \A i \in 0 + 1 .. lo : t[i] \notin Slots
    BY <1>1, <2>1
  <2>4. Reach(t, value, lo) = Reach(t, value, 0) + (lo - 0)
    BY <2>3, StaticRun
  <2> QED BY <1>1, <2>2, <2>4 DEF L
<1>5. c \in 1 .. Len(t) /\ lo \in 0 .. Len(t) /\ c - 1 \in lo .. Len(t)
  BY <1>1
<1>6. Filled(t[c], value) = <<Close>> /\ Len(<<Close>>) = 1 /\ <<Close>>[1] = Close /\ 1 \in 1 .. 1
  BY <1>1, <1>2 DEF Filled
<1>7. /\ L(c - 1) \in Nat
      /\ L(c) = L(c - 1) + Len(Filled(t[c], value))
      /\ L(c) \in 0 .. Len(X)
      /\ \A j \in 1 .. Len(Filled(t[c], value)) : X[L(c - 1) + j] = Filled(t[c], value)[j]
  <2> HIDE DEF c
  <2> QED BY <1>5, FilledLies
<1>8. L(lo) <= L(c - 1)
  <2> HIDE DEF c, lo
  <2> QED BY <1>5, InterpolationGrows
<1>9. L(c) = L(c - 1) + 1 /\ X[L(c - 1) + 1] = Close
  <2> HIDE DEF c, lo, X, L
  <2> QED BY <1>6, <1>7
<1>10. OpensWith(X, Open)
  <2>1. lo \in 1 .. lo
    BY <1>1
  <2> HIDE DEF X
  <2>2. X[lo] = Open
    BY <1>1, <1>3, <2>1
  <2> QED BY <1>3, <2>2 DEF OpensWith, FirstVisible
<1> HIDE DEF c, lo, X, L
<1>11. L(c) \in FirstVisible(X) + 1 .. Len(X) /\ X[L(c)] = Close
  <2>1. Len(X) \in Nat
    BY <1>3 DEF Text
  <2> QED BY <1>1, <1>3, <1>4, <1>7, <1>8, <1>9, <2>1
<1>12. ClosedBlock(X) /\ BlockEnd(X) <= L(c)
  BY <1>3, <1>10, <1>11, BlockEndAt
<1> QED BY <1>3, <1>4, <1>7, <1>9, <1>10, <1>11, <1>12 DEF X, lo, c, L

\* It does close it where no value has a closing tag.
LEMMA ClosesWithTheTemplate ==
    ASSUME NEW t \in Text, NEW value, Fills(value, t), ClosedBlock(t),
           \A i \in 1 .. Len(t) : t[i] \in Slots =>
              \A j \in DOMAIN value[t[i]] : value[t[i]][j] # Close
    PROVE  BlockEnd(Interpolate(t, value)) = Reach(t, value, BlockEnd(t))
<1> DEFINE X == Interpolate(t, value)
           lo == FirstVisible(t)
           c == BlockEnd(t)
           L(i) == Reach(t, value, i)
<1>1. /\ Len(t) \in Nat /\ lo \in 1 .. Len(t) /\ c \in lo + 1 .. Len(t)
      /\ \A i \in lo + 1 .. c - 1 : t[i] # Close
  BY BlockEndIs
<1>2. /\ X \in Text /\ OpensWith(X, Open) /\ FirstVisible(X) = lo /\ L(lo) = lo
      /\ L(c - 1) \in Nat /\ L(c) = L(c - 1) + 1
      /\ L(c) \in FirstVisible(X) + 1 .. Len(X) /\ X[L(c)] = Close
  BY ClosesNoLater
<1> HIDE DEF c, lo, X
<1>3. ASSUME NEW i \in lo + 1 .. c - 1, NEW j \in 1 .. Len(Filled(t[i], value))
      PROVE  Filled(t[i], value)[j] # Close
  <2>1. i \in 1 .. Len(t) /\ i \in DOMAIN t
    BY <1>1 DEF Text
  <2>2. CASE t[i] \in Slots
    <3>1. Filled(t[i], value) = value[t[i]] /\ value[t[i]] \in Text
      BY <2>1, <2>2 DEF Filled, Fills
    <3>2. DOMAIN value[t[i]] = 1 .. Len(value[t[i]])
      BY <3>1 DEF Text
    <3> QED BY <2>1, <2>2, <3>1, <3>2
  <2>3. CASE t[i] \notin Slots
    <3>1. Filled(t[i], value) = <<t[i]>>
      BY <2>3 DEF Filled
    <3>2. t[i] # Close /\ j = 1
      BY <1>1, <3>1
    <3> QED BY <3>1, <3>2
  <2> QED BY <2>2, <2>3
<1>4. \A p \in L(lo) + 1 .. L(c - 1) : X[p] # Close
  <2> DEFINE o == lo
             n == c - 1
  <2>1. o \in 0 .. Len(t) /\ n \in o .. Len(t)
    BY <1>1
  <2>2. \A i \in o + 1 .. n : \A j \in 1 .. Len(Filled(t[i], value)) :
           Filled(t[i], value)[j] # Close
    BY <1>3
  <2> HIDE DEF o, n
  <2>3. \A p \in Reach(t, value, o) + 1 .. Reach(t, value, n) : Interpolate(t, value)[p] # Close
    BY <2>1, <2>2, NoneAmong
  <2> QED BY <2>3 DEF o, n, X
<1> HIDE DEF L
<1>5. \A p \in FirstVisible(X) + 1 .. L(c) - 1 : X[p] # Close
  BY <1>2, <1>4
<1>6. BlockEnd(X) = L(c)
  BY <1>2, <1>5, BlockEndAt
<1> QED BY <1>6 DEF X, c, L

\* The host removes a preamble only where the template opens one.
LEMMA HostRenderIs ==
    ASSUME NEW t \in Text, NEW value, Fills(value, t),
           ~IsBlank(t), t[FirstVisible(t)] \notin Slots, NEW removes
    PROVE  LET X == Interpolate(t, value)
               R == HostRender(t, value, removes)
           IN  \/ R = X
               \/ /\ removes /\ ClosedBlock(X) /\ OpensWith(t, Open)
                  /\ R = StripFrameworkScaffolding(X)
BY OpensWithIs DEF HostRender, ClosedBlock

\* Where the preamble is found.
LEMMA PreambleIs ==
    ASSUME NEW t \in Text, NEW value, Fills(value, t),
           ~IsBlank(t), t[FirstVisible(t)] \notin Slots, NEW removes
    PROVE  LET X == Interpolate(t, value)
               R == HostRender(t, value, removes)
               found == AnalyzeFrameworkScaffolding(R, t)
           IN  \/ R = X /\ found = "rendered" /\ OpensWith(t, Open)
               \/ R = X /\ found = "none"
               \/ R = X /\ found = "removed" /\ OpensWith(t, Marker)
               \/ /\ removes /\ ClosedBlock(X) /\ OpensWith(t, Open)
                  /\ R = StripFrameworkScaffolding(X)
                  /\ found = IF DetectFrameworkScaffolding(t) THEN "template" ELSE "removed"
<1> DEFINE X == Interpolate(t, value)
           R == HostRender(t, value, removes)
<1>1. CASE R = X
  <2>1. /\ DetectFrameworkScaffolding(R) => OpensWith(t, Open)
        /\ HostRemovedScaffolding(R) => OpensWith(t, Marker)
    BY <1>1, OpensWithIs DEF DetectFrameworkScaffolding, ClosedBlock, HostRemovedScaffolding
  <2>2. OpensWith(t, Marker) => ~DetectFrameworkScaffolding(t)
    BY TokensAreDistinct DEF DetectFrameworkScaffolding, ClosedBlock, OpensWith
  <2> HIDE DEF X, R
  <2>3. AnalyzeFrameworkScaffolding(R, t) =
           IF DetectFrameworkScaffolding(R) THEN "rendered"
           ELSE IF HostRemovedScaffolding(R) THEN "removed" ELSE "none"
    BY <2>1, <2>2, Zenon DEF AnalyzeFrameworkScaffolding
  <2> QED BY <1>1, <2>1, <2>3 DEF X, R
<1>2. CASE removes /\ ClosedBlock(X) /\ OpensWith(t, Open) /\ R = StripFrameworkScaffolding(X)
  <2>1. X \in Text
    BY InterpolationIsText
  <2> HIDE DEF X
  <2>2. HostRemovedScaffolding(R) /\ ~DetectFrameworkScaffolding(R)
    BY <1>2, <2>1, StripIsText, StrippedOpens DEF DetectFrameworkScaffolding, ClosedBlock
  <2> HIDE DEF R
  <2>3. AnalyzeFrameworkScaffolding(R, t) =
           IF DetectFrameworkScaffolding(t) THEN "template" ELSE "removed"
    BY <2>2, Zenon DEF AnalyzeFrameworkScaffolding
  <2> QED BY <1>2, <2>3 DEF X, R
<1>3. \/ R = X
      \/ removes /\ ClosedBlock(X) /\ OpensWith(t, Open) /\ R = StripFrameworkScaffolding(X)
  BY HostRenderIs
<1> QED BY <1>1, <1>2, <1>3, Zenon

-------------------------------------------------------------------------------
(***************************************************************************)
(* The loop, one token of the template at a time.                          *)
(***************************************************************************)
LEMMA ExtractionIs ==
    ASSUME NEW t \in Text, NEW r
    PROVE  LET g == Extraction(t, r)
           IN  /\ g[0] = [rest |-> r, regions |-> <<>>]
               /\ \A i \in 1 .. Len(t) :
                     g[i] = IF t[i] \in Slots THEN ExtractNext(t, g[i - 1], i) ELSE g[i - 1]
<1> DEFINE Step(a, i) == IF t[i] \in Slots THEN ExtractNext(t, a, i) ELSE a
           start == [rest |-> r, regions |-> <<>>]
           Upto(n, g) == g = [i \in 0 .. n |->
                IF i = 0 THEN start
                ELSE IF t[i] \in Slots THEN ExtractNext(t, g[i - 1], i)
                ELSE g[i - 1]]
           S == {n \in Nat : \E g : Upto(n, g)}
<1>1. 0 \in S
  <2> DEFINE g == [i \in 0 .. 0 |-> start]
  <2> HIDE DEF start
  <2>1. Upto(0, g)
    OBVIOUS
  <2> QED BY <2>1
<1>2. ASSUME NEW n \in Nat, n \in S PROVE n + 1 \in S
  <2>1. PICK g : Upto(n, g)
    BY <1>2
  <2> DEFINE h == [i \in 0 .. n + 1 |-> IF i = n + 1 THEN Step(g[n], n + 1) ELSE g[i]]
  <2> HIDE DEF Step, start
  <2>2. \A i \in 0 .. n : g[i] = IF i = 0 THEN start ELSE Step(g[i - 1], i)
    <3>1. g = [i \in 0 .. n |-> IF i = 0 THEN start
                                ELSE IF t[i] \in Slots THEN ExtractNext(t, g[i - 1], i)
                                ELSE g[i - 1]]
      BY <2>1
    <3> SUFFICES ASSUME NEW i \in 0 .. n
                 PROVE  g[i] = IF i = 0 THEN start ELSE Step(g[i - 1], i)
      OBVIOUS
    <3>2. g[i] = IF i = 0 THEN start
                 ELSE IF t[i] \in Slots THEN ExtractNext(t, g[i - 1], i) ELSE g[i - 1]
      BY <3>1
    <3> QED BY <3>2, Zenon DEF Step
  <2>3. \A i \in 0 .. n : h[i] = g[i]
    OBVIOUS
  <2>4. h[n + 1] = Step(g[n], n + 1)
    OBVIOUS
  <2>5. h = [i \in 0 .. n + 1 |-> h[i]]
    OBVIOUS
  <2> HIDE DEF h
  <2>6. \A i \in 0 .. n + 1 : h[i] = IF i = 0 THEN start ELSE Step(h[i - 1], i)
    <3> SUFFICES ASSUME NEW i \in 0 .. n + 1
                 PROVE  h[i] = IF i = 0 THEN start ELSE Step(h[i - 1], i)
      OBVIOUS
    <3>1. CASE i = 0
      <4>1. 0 \in 0 .. n
        OBVIOUS
      <4> QED BY <2>2, <2>3, <3>1, <4>1
    <3>2. CASE i \in 1 .. n
      <4>1. i - 1 \in 0 .. n /\ i \in 0 .. n /\ i # 0
        BY <3>2
      <4> QED BY <2>2, <2>3, <4>1
    <3>3. CASE i = n + 1
      <4>1. i # 0 /\ i - 1 = n /\ n \in 0 .. n
        BY <3>3
      <4> QED BY <2>3, <2>4, <3>3, <4>1
    <3> QED BY <3>1, <3>2, <3>3
  <2>7. h = [i \in 0 .. n + 1 |-> IF i = 0 THEN start ELSE Step(h[i - 1], i)]
    BY <2>5, <2>6
  <2>8. Upto(n + 1, h)
    BY <2>7, Zenon DEF Step
  <2> HIDE DEF Upto
  <2> QED BY <2>8
<1> HIDE DEF S
<1>3. Nat \subseteq S
  BY <1>1, <1>2, Induction
<1>4. Len(t) \in Nat
  BY DEF Text
<1>5. \E g : Upto(Len(t), g)
  BY <1>3, <1>4 DEF S
<1>6. Upto(Len(t), CHOOSE g : Upto(Len(t), g))
  <2> HIDE DEF Upto
  <2> QED BY <1>5, Zenon
<1>7. Extraction(t, r) = CHOOSE g : Upto(Len(t), g)
  BY Zenon DEF Extraction
<1>8. Upto(Len(t), Extraction(t, r))
  BY <1>6, <1>7, Zenon
<1> DEFINE g == Extraction(t, r)
<1>9. g = [i \in 0 .. Len(t) |-> IF i = 0 THEN start ELSE Step(g[i - 1], i)]
  BY <1>8, Zenon
<1> HIDE DEF g, Upto, start, Step
<1>10. g[0] = start
  BY <1>4, <1>9
<1>11. ASSUME NEW i \in 1 .. Len(t) PROVE g[i] = Step(g[i - 1], i)
  <2>1. i \in 0 .. Len(t) /\ i # 0
    BY <1>4
  <2> QED BY <1>9, <2>1
<1> QED BY <1>10, <1>11, Zenon DEF g, start, Step

\* The placeholders around position i: none between it and the last one before
\* it is at o, none between it and the next one is at n.
LEMMA SegmentsAre ==
    ASSUME NEW t \in Text, NEW i \in Placeholders(t)
    PROVE  /\ i \in 1 .. Len(t)
           /\ \A o \in 0 .. i - 1 :
                 /\ o # 0 => t[o] \in Slots
                 /\ \A j \in o + 1 .. i - 1 : t[j] \notin Slots
                 => SegmentBefore(t, i) = SubSeq(t, o + 1, i - 1)
           /\ \A n \in i + 1 .. Len(t) + 1 :
                 /\ n # Len(t) + 1 => t[n] \in Slots
                 /\ \A j \in i + 1 .. n - 1 : t[j] \notin Slots
                 => SegmentAfter(t, i) = SubSeq(t, i + 1, n - 1)
<1>1. /\ Len(t) \in Nat /\ DOMAIN t = 1 .. Len(t) /\ i \in 1 .. Len(t)
      /\ \A j : j \in Placeholders(t) <=> j \in 1 .. Len(t) /\ t[j] \in Slots
  BY DEF Text, Placeholders
<1>2. ASSUME NEW o \in 0 .. i - 1, o # 0 => t[o] \in Slots,
             \A j \in o + 1 .. i - 1 : t[j] \notin Slots
      PROVE  SegmentBefore(t, i) = SubSeq(t, o + 1, i - 1)
  <2> DEFINE before == {0} \cup {j \in Placeholders(t) : j < i}
  <2>1. before \in SUBSET (0 .. Len(t)) /\ before # {}
    BY <1>1
  <2>2. Max(before) \in before /\ \A m \in before : m <= Max(before)
    BY <1>1, <2>1, LargestNumber
  <2>3. o \in before /\ \A m \in before : m <= o
    BY <1>1, <1>2
  <2>4. Max(before) = o
    BY <1>1, <2>1, <2>2, <2>3
  <2> QED BY <2>4, Zenon DEF SegmentBefore
<1>3. ASSUME NEW n \in i + 1 .. Len(t) + 1, n # Len(t) + 1 => t[n] \in Slots,
             \A j \in i + 1 .. n - 1 : t[j] \notin Slots
      PROVE  SegmentAfter(t, i) = SubSeq(t, i + 1, n - 1)
  <2> DEFINE later == {Len(t) + 1} \cup {j \in Placeholders(t) : j > i}
  <2>1. later \in SUBSET Nat /\ later # {}
    BY <1>1
  <2>2. Min(later) \in later /\ \A m \in later : Min(later) <= m
    BY <2>1, LeastNumber
  <2>3. n \in later /\ \A m \in later : n <= m
    BY <1>1, <1>3
  <2>4. Min(later) = n
    BY <1>1, <2>1, <2>2, <2>3
  <2> QED BY <2>4, Zenon DEF SegmentAfter
<1> QED BY <1>1, <1>2, <1>3

\* There is a next placeholder, or none up to the end.
LEMMA NextPlaceholder ==
    ASSUME NEW t \in Text, NEW i \in 0 .. Len(t)
    PROVE  \E n \in i + 1 .. Len(t) + 1 : /\ n # Len(t) + 1 => t[n] \in Slots
                                          /\ \A j \in i + 1 .. n - 1 : t[j] \notin Slots
<1> DEFINE later == {Len(t) + 1} \cup {j \in i + 1 .. Len(t) : t[j] \in Slots}
<1>1. Len(t) \in Nat
  BY DEF Text
<1>2. later \in SUBSET Nat /\ later # {}
  BY <1>1
<1>3. Min(later) \in later /\ \A m \in later : Min(later) <= m
  BY <1>2, LeastNumber
<1> HIDE DEF later
<1>4. Min(later) \in i + 1 .. Len(t) + 1 /\ (Min(later) # Len(t) + 1 => t[Min(later)] \in Slots)
  BY <1>1, <1>3 DEF later
<1>5. ASSUME NEW j \in i + 1 .. Min(later) - 1 PROVE t[j] \notin Slots
  <2>1. j \in i + 1 .. Len(t) /\ ~(Min(later) <= j)
    BY <1>1, <1>4
  <2> QED BY <1>3, <2>1 DEF later
<1> QED BY <1>4, <1>5

\* What the last part of a text holds.
LEMMA PartOfRest ==
    ASSUME NEW x \in Text, NEW y \in 1 .. Len(x) + 1,
           NEW a \in Nat \ {0}, NEW b \in a - 1 .. (Len(x) + 1) - y
    PROVE  SubSeq(SubSeq(x, y, Len(x)), a, b) = SubSeq(x, (y + a) - 1, (y + b) - 1)
BY DEF Text

LEMMA PartIsText ==
    ASSUME NEW x \in Text, NEW a \in Nat \ {0}, NEW b \in a - 1 .. Len(x)
    PROVE  /\ SubSeq(x, a, b) \in Text /\ Len(SubSeq(x, a, b)) = (b + 1) - a
           /\ \A j \in 1 .. (b + 1) - a : SubSeq(x, a, b)[j] = x[(a + j) - 1]
BY DEF Text

\* A part of a text, and what follows it.
LEMMA PartThenRest ==
    ASSUME NEW x \in Text, NEW z \in Nat \ {0}, NEW m \in Nat, (z + m) - 1 <= Len(x)
    PROVE  SubSeq(x, z, Len(x)) = SubSeq(x, z, (z + m) - 1) \o SubSeq(x, z + m, Len(x))
<1> DEFINE all == SubSeq(x, z, Len(x))
           u == SubSeq(x, z, (z + m) - 1)
           v == SubSeq(x, z + m, Len(x))
<1>1. Len(x) \in Nat
  BY DEF Text
<1>2. /\ all \in Text /\ Len(all) = (Len(x) + 1) - z
      /\ \A i \in 1 .. (Len(x) + 1) - z : all[i] = x[(z + i) - 1]
  BY <1>1 DEF Text
<1>3. /\ u \in Text /\ Len(u) = m
      /\ \A i \in 1 .. m : u[i] = x[(z + i) - 1]
  BY <1>1 DEF Text
<1>4. /\ v \in Text /\ Len(v) = (Len(x) + 1) - (z + m)
      /\ \A i \in 1 .. (Len(x) + 1) - (z + m) : v[i] = x[((z + m) + i) - 1]
  BY <1>1 DEF Text
<1> HIDE DEF all, u, v
<1>5. /\ u \o v \in Text /\ Len(u \o v) = Len(u) + Len(v)
      /\ \A p \in 1 .. Len(u) : (u \o v)[p] = u[p]
      /\ \A p \in 1 .. Len(v) : (u \o v)[Len(u) + p] = v[p]
  BY <1>3, <1>4, Joined
<1>6. Len(all) = Len(u \o v)
  BY <1>1, <1>2, <1>3, <1>4, <1>5
<1>7. ASSUME NEW i \in 1 .. Len(all) PROVE all[i] = (u \o v)[i]
  <2>0. all[i] = x[(z + i) - 1]
    BY <1>2
  <2>1. CASE i <= m
    <3>1. i \in 1 .. m
      BY <1>1, <1>2, <2>1
    <3>2. u[i] = x[(z + i) - 1] /\ (u \o v)[i] = u[i]
      BY <1>3, <1>5, <3>1
    <3> QED BY <2>0, <3>2
  <2>2. CASE i > m
    <3>1. i - m \in 1 .. Len(v) /\ m + (i - m) = i /\ ((z + m) + (i - m)) - 1 = (z + i) - 1
      BY <1>1, <1>2, <1>4, <2>2
    <3>2. (u \o v)[m + (i - m)] = v[i - m]
      BY <1>3, <1>5, <3>1
    <3>3. v[i - m] = x[((z + m) + (i - m)) - 1]
      BY <1>4, <3>1
    <3>4. (u \o v)[i] = x[(z + i) - 1]
      BY <3>1, <3>2, <3>3
    <3> QED BY <2>0, <3>4
  <2>3. i <= m \/ i > m
    BY <1>1, <1>2
  <2> QED BY <2>1, <2>2, <2>3
<1>8. all = u \o v
  BY <1>2, <1>5, <1>6, <1>7, SameText
<1> QED BY <1>8 DEF all, u, v

\* A segment lies at position q of a text.
LiesAt(x, q, segment) ==
    /\ (q + Len(segment)) - 1 <= Len(x)
    /\ SubSeq(x, q, (q + Len(segment)) - 1) = segment

LEMMA SegmentLies ==
    ASSUME NEW x \in Text, NEW z \in Nat \ {0}, NEW segment, Len(segment) \in Nat,
           LiesAt(x, z, segment), NEW k \in 1 .. Len(segment)
    PROVE  x[(z + k) - 1] = segment[k]
<1> DEFINE n == (z + Len(segment)) - 1
<1>1. Len(x) \in Nat /\ n <= Len(x) /\ SubSeq(x, z, n) = segment
  BY DEF LiesAt, Text
<1>2. n \in z - 1 .. Len(x) /\ (n + 1) - z = Len(segment)
  BY <1>1
<1> HIDE DEF n
<1>3. \A j \in 1 .. (n + 1) - z : SubSeq(x, z, n)[j] = x[(z + j) - 1]
  BY <1>2, PartIsText
<1> QED BY <1>1, <1>2, <1>3

\* One turn's search, in the text it is done in.
LEMMA TurnIs ==
    ASSUME NEW x \in Text, NEW y \in 1 .. Len(x) + 1, NEW next \in Text, NEW rest \in Text
    PROVE  LET after == SubSeq(x, y, Len(x))
           IN  \E z \in y .. Len(x) + 1 :
                 /\ Region(after, next) = SubSeq(x, y, z - 1)
                 /\ NextRest(rest, after, Region(after, next)) = SubSeq(x, z, Len(x))
                 /\ z = Len(x) + 1 \/ (next # <<>> /\ LiesAt(x, z, next))
                 /\ next # <<>> => \A q \in y .. z - 1 : ~LiesAt(x, q, next)
<1> DEFINE after == SubSeq(x, y, Len(x))
<1>1. Len(x) \in Nat /\ Len(next) \in Nat
  BY DEF Text
<1>2. after \in Text /\ Len(after) = (Len(x) + 1) - y
  BY FromIsText
<1>3. PICK m \in 0 .. Len(after) :
         /\ Region(after, next) = SubSeq(after, 1, m)
         /\ NextRest(rest, after, Region(after, next)) = SubSeq(after, m + 1, Len(after))
         /\ \/ /\ m = Len(after)
               /\ next = <<>> \/ IndexOf(after, next) = 0
            \/ next # <<>> /\ IndexOf(after, next) = m + 1
  BY <1>2, RegionIs
<1> DEFINE p == IndexOf(after, next)
           places == 1 .. Len(after) - Len(next) + 1
<1>4. /\ p = 0 => \A q \in places : SubSeq(after, q, q + Len(next) - 1) # next
      /\ p # 0 => /\ p \in places
                  /\ SubSeq(after, p, p + Len(next) - 1) = next
                  /\ \A q \in places : SubSeq(after, q, q + Len(next) - 1) = next => p <= q
  BY <1>2, IndexIs
<1> DEFINE z == y + m
<1>5. z \in y .. Len(x) + 1
  BY <1>1, <1>2
<1>6. SubSeq(after, 1, m) = SubSeq(x, y, z - 1)
  <2>1. m \in 1 - 1 .. (Len(x) + 1) - y /\ 1 \in Nat \ {0}
    BY <1>1, <1>2
  <2>2. SubSeq(after, 1, m) = SubSeq(x, (y + 1) - 1, (y + m) - 1)
    BY <2>1, PartOfRest
  <2> QED BY <2>2
<1>7. SubSeq(after, m + 1, Len(after)) = SubSeq(x, z, Len(x))
  <2>1. Len(after) \in (m + 1) - 1 .. (Len(x) + 1) - y /\ m + 1 \in Nat \ {0}
    BY <1>1, <1>2
  <2>2. SubSeq(after, m + 1, Len(after)) = SubSeq(x, (y + (m + 1)) - 1, (y + Len(after)) - 1)
    BY <2>1, PartOfRest
  <2>3. (y + (m + 1)) - 1 = z /\ (y + Len(after)) - 1 = Len(x)
    BY <1>1, <1>2
  <2> QED BY <2>2, <2>3
\* An occurrence in the text, from y on, is one in what is searched.
<1>8. ASSUME NEW k \in Nat
      PROVE  LiesAt(x, y + k, next) <=> /\ k + 1 \in places
                              /\ SubSeq(after, k + 1, k + 1 + Len(next) - 1) = next
  <2>1. ((y + k) + Len(next)) - 1 <= Len(x) <=> k + 1 \in places
    BY <1>1, <1>2
  <2>2. ASSUME k + 1 \in places
        PROVE  SubSeq(after, k + 1, k + 1 + Len(next) - 1)
                 = SubSeq(x, y + k, ((y + k) + Len(next)) - 1)
    <3>1. k + Len(next) \in (k + 1) - 1 .. (Len(x) + 1) - y /\ k + 1 \in Nat \ {0}
      BY <1>1, <1>2, <2>2
    <3>2. SubSeq(after, k + 1, k + Len(next))
            = SubSeq(x, (y + (k + 1)) - 1, (y + (k + Len(next))) - 1)
      BY <3>1, PartOfRest
    <3>3. /\ (y + (k + 1)) - 1 = y + k /\ (y + (k + Len(next))) - 1 = ((y + k) + Len(next)) - 1
          /\ k + 1 + Len(next) - 1 = k + Len(next)
      BY <1>1
    <3> QED BY <3>2, <3>3
  <2> HIDE DEF places, after
  <2> QED BY <2>1, <2>2 DEF LiesAt
<1> HIDE DEF after, places
<1>9. next # <<>> => \A q \in y .. z - 1 : ~LiesAt(x, q, next)
  <2> SUFFICES ASSUME next # <<>>, NEW q \in y .. z - 1, LiesAt(x, q, next) PROVE FALSE
    OBVIOUS
  <2>1. q - y \in Nat /\ y + (q - y) = q /\ q - y < m
    BY <1>1
  <2>2. /\ (q - y) + 1 \in places
        /\ SubSeq(after, (q - y) + 1, (q - y) + 1 + Len(next) - 1) = next
    BY <1>8, <2>1
  <2>3. p # 0 /\ p <= (q - y) + 1
    BY <1>4, <2>2
  <2>4. p = m + 1
    BY <1>3, <2>3
  <2> QED BY <1>1, <2>1, <2>3, <2>4
<1>10. z = Len(x) + 1 \/ (next # <<>> /\ LiesAt(x, z, next))
  <2>1. CASE m = Len(after)
    BY <1>1, <1>2, <2>1
  <2>2. CASE next # <<>> /\ p = m + 1
    <3>1. p # 0 /\ m \in Nat
      BY <2>2
    <3>2. m + 1 \in places /\ SubSeq(after, m + 1, m + 1 + Len(next) - 1) = next
      BY <1>4, <2>2, <3>1
    <3> QED BY <1>8, <2>2, <3>1, <3>2
  <2> QED BY <1>3, <2>1, <2>2
<1> HIDE DEF z
<1>11. /\ Region(after, next) = SubSeq(x, y, z - 1)
       /\ NextRest(rest, after, Region(after, next)) = SubSeq(x, z, Len(x))
  BY <1>3, <1>6, <1>7
<1> QED BY <1>5, <1>9, <1>10, <1>11 DEF after

-------------------------------------------------------------------------------
(***************************************************************************)
(* The prompt a host makes of a template: the text up to the first         *)
(* placeholder, at f, then the rest of the template with its placeholders  *)
(* filled, less the white space before y that goes with a preamble.  No    *)
(* value holds one of the template's own tokens.  White space need not be  *)
(* among these, as long as what follows a placeholder has one of them.     *)
(***************************************************************************)
Anchored(t, f, own) ==
    \A i \in f .. Len(t) - 1 : t[i] \in Slots /\ t[i + 1] \notin Slots =>
        \E n \in i + 1 .. Len(t) : /\ t[n] \in own \ Slots
                                   /\ \A j \in i + 1 .. n - 1 : t[j] \notin own \cup Slots

CameFrom(t, value, f, y, own, r) ==
    LET x == Interpolate(t, value)
    IN  /\ t \in Text /\ Fills(value, t)
        /\ f \in 1 .. Len(t) /\ t[f] \in Slots
        /\ \A j \in 1 .. f - 1 : t[j] \notin Slots
        /\ y \in f .. Len(x) + 1
        /\ \A p \in f .. y - 1 : x[p] = Blank
        /\ r = SubSeq(t, 1, f - 1) \o SubSeq(x, y, Len(x))
        /\ \A i \in f .. Len(t) : t[i] \in own \cup Slots \cup {Blank}
        /\ Anchored(t, f, own)
        /\ \A i \in f .. Len(t) : t[i] \in Slots =>
              \A j \in DOMAIN value[t[i]] : value[t[i]][j] \notin own

LEMMA FirstReach ==
    ASSUME NEW t, NEW value, NEW f, NEW y, NEW own, NEW r,
           CameFrom(t, value, f, y, own, r)
    PROVE  f \in 1 .. Len(t) /\ Reach(t, value, f - 1) = f - 1
<1>1. /\ t \in Text /\ Fills(value, t) /\ f \in 1 .. Len(t) /\ Len(t) \in Nat
      /\ \A j \in 1 .. f - 1 : t[j] \notin Slots
  BY DEF CameFrom, Text
<1>2. Interpolation(t, value)[0] = <<>>
  BY <1>1, InterpolationIs
<1>3. Reach(t, value, 0) = 0
  BY <1>2 DEF Reach
<1>4. /\ 0 \in 0 .. Len(t) /\ f - 1 \in 0 .. Len(t)
      /\ \A j \in 0 + 1 .. f - 1 : t[j] \notin Slots
  BY <1>1
<1>5. Reach(t, value, f - 1) = Reach(t, value, 0) + ((f - 1) - 0)
  BY <1>1, <1>4, StaticRun
<1> QED BY <1>1, <1>3, <1>5

\* Where the value of a placeholder lies in the prompt, and that none of it is
\* the template's own.
LEMMA ValueLies ==
    ASSUME NEW t, NEW value, NEW f, NEW y, NEW own, NEW r,
           CameFrom(t, value, f, y, own, r),
           NEW i \in f .. Len(t), t[i] \in Slots
    PROVE  LET x == Interpolate(t, value)
               from == Reach(t, value, i - 1)
           IN  /\ from \in Nat /\ value[t[i]] \in Text
               /\ from >= f - 1
               /\ Reach(t, value, i) = from + Len(value[t[i]])
               /\ Reach(t, value, i) \in 0 .. Len(x)
               /\ \A j \in 1 .. Len(value[t[i]]) : x[from + j] = value[t[i]][j]
               /\ \A p \in from + 1 .. Reach(t, value, i) : x[p] \notin own
<1> DEFINE x == Interpolate(t, value)
           from == Reach(t, value, i - 1)
           v == value[t[i]]
<1>1. /\ t \in Text /\ Fills(value, t) /\ f \in 1 .. Len(t) /\ Len(t) \in Nat
      /\ \A j \in 1 .. f - 1 : t[j] \notin Slots
      /\ \A j \in DOMAIN v : v[j] \notin own
  <2>1. /\ t \in Text /\ Fills(value, t) /\ f \in 1 .. Len(t)
        /\ \A j \in 1 .. f - 1 : t[j] \notin Slots
    BY Zenon DEF CameFrom
  <2>2. \A j \in DOMAIN v : v[j] \notin own
    BY Zenon DEF CameFrom
  <2> QED BY <2>1, <2>2 DEF Text
<1>2. i \in 1 .. Len(t) /\ Filled(t[i], value) = v
  BY <1>1 DEF Filled
<1>3. /\ from \in Nat /\ v \in Text
      /\ Reach(t, value, i) = from + Len(v)
      /\ Reach(t, value, i) \in 0 .. Len(x)
      /\ \A j \in 1 .. Len(v) : x[from + j] = v[j]
  <2> DEFINE part == Filled(t[i], value)
  <2>1. /\ from \in Nat /\ part \in Text
        /\ Reach(t, value, i) = from + Len(part)
        /\ Reach(t, value, i) \in 0 .. Len(x)
        /\ \A j \in 1 .. Len(part) : x[from + j] = part[j]
    <3>1. t \in Text /\ Fills(value, t) /\ i \in 1 .. Len(t)
      BY <1>1, <1>2
    <3> HIDE DEF v
    <3> QED BY <3>1, FilledLies
  <2>2. part = v
    BY <1>2
  <2> HIDE DEF part, from, x, v
  <2> QED BY <2>1, <2>2
<1>4. from >= f - 1
  <2>1. f - 1 \in 0 .. Len(t) /\ i - 1 \in f - 1 .. Len(t)
    BY <1>1, <1>2
  <2>2. Reach(t, value, f - 1) <= Reach(t, value, i - 1)
    BY <1>1, <2>1, InterpolationGrows
  <2> QED BY <2>2, FirstReach
<1>5. Len(v) \in Nat /\ DOMAIN v = 1 .. Len(v)
  BY <1>3 DEF Text
<1> HIDE DEF x, from, v
<1>6. ASSUME NEW p \in from + 1 .. Reach(t, value, i) PROVE x[p] \notin own
  <2>1. p - from \in 1 .. Len(v) /\ from + (p - from) = p
    BY <1>3, <1>5
  <2>2. x[p] = v[p - from]
    BY <1>3, <2>1
  <2> QED BY <1>1, <1>5, <2>1, <2>2
<1> QED BY <1>3, <1>4, <1>6 DEF x, from, v

\* The segment after a placeholder has a first token of the template's own.
LEMMA SegmentIsOwn ==
    ASSUME NEW t, NEW value, NEW f, NEW y, NEW own, NEW r,
           CameFrom(t, value, f, y, own, r),
           NEW i \in f .. Len(t), t[i] \in Slots
    PROVE  LET next == SegmentAfter(t, i)
           IN  /\ i \in Placeholders(t) /\ next \in Text
               /\ next # <<>> =>
                    \E m \in 1 .. Len(next) :
                       /\ i + m \in 1 .. Len(t) /\ next[m] = t[i + m]
                       /\ t[i + m] \in own
                       /\ \A k \in 1 .. m : t[i + k] \notin Slots
                       /\ \A k \in 1 .. m - 1 : t[i + k] \notin own
<1>1. /\ t \in Text /\ f \in 1 .. Len(t) /\ Len(t) \in Nat /\ DOMAIN t = 1 .. Len(t)
      /\ Anchored(t, f, own)
  BY DEF CameFrom, Text
<1>2. i \in Placeholders(t) /\ i \in 0 .. Len(t) /\ i \in Nat
  BY <1>1 DEF Placeholders
<1>3. PICK n \in i + 1 .. Len(t) + 1 : /\ n # Len(t) + 1 => t[n] \in Slots
                                       /\ \A j \in i + 1 .. n - 1 : t[j] \notin Slots
  BY <1>1, <1>2, NextPlaceholder
<1> DEFINE next == SubSeq(t, i + 1, n - 1)
<1>4. SegmentAfter(t, i) = next
  BY <1>1, <1>2, <1>3, SegmentsAre
<1>5. /\ next \in Text /\ Len(next) = (n - 1) - i
      /\ \A j \in 1 .. (n - 1) - i : next[j] = t[i + j]
  <2>1. /\ i + 1 \in Nat \ {0} /\ n - 1 \in (i + 1) - 1 .. Len(t)
        /\ ((n - 1) + 1) - (i + 1) = (n - 1) - i
    BY <1>1, <1>2, <1>3
  <2>2. /\ next \in Text /\ Len(next) = ((n - 1) + 1) - (i + 1)
        /\ \A j \in 1 .. ((n - 1) + 1) - (i + 1) : next[j] = t[((i + 1) + j) - 1]
    BY <1>1, <2>1, PartIsText
  <2>3. \A j \in 1 .. (n - 1) - i : ((i + 1) + j) - 1 = i + j
    BY <1>2
  <2> QED BY <2>1, <2>2, <2>3
<1>6. ASSUME next # <<>>
      PROVE  \E m \in 1 .. Len(next) :
                /\ i + m \in 1 .. Len(t) /\ next[m] = t[i + m]
                /\ t[i + m] \in own
                /\ \A k \in 1 .. m : t[i + k] \notin Slots
                /\ \A k \in 1 .. m - 1 : t[i + k] \notin own
  <2>1. n > i + 1
    <3> SUFFICES ASSUME n = i + 1 PROVE FALSE
      BY <1>2, <1>3
    <3>1. Len(next) = 0
      BY <1>2, <1>5
    <3> HIDE DEF next
    <3> QED BY <1>5, <1>6, <3>1 DEF Text
  <2>2. i \in f .. Len(t) - 1 /\ t[i + 1] \notin Slots
    BY <1>1, <1>2, <1>3, <2>1
  <2>3. PICK p \in i + 1 .. Len(t) : /\ t[p] \in own \ Slots
                                     /\ \A j \in i + 1 .. p - 1 : t[j] \notin own \cup Slots
    BY <1>1, <2>2 DEF Anchored
  <2>4. p < n
    <3> SUFFICES ASSUME n <= p PROVE FALSE
      BY <1>1, <1>2, <1>3, <2>3
    <3>1. n # Len(t) + 1 /\ (n = p \/ n \in i + 1 .. p - 1)
      BY <1>1, <1>2, <1>3, <2>3
    <3> QED BY <1>3, <2>3, <3>1
  <2> DEFINE m == p - i
  <2>5. /\ m \in 1 .. (n - 1) - i /\ i + m = p /\ i + m \in 1 .. Len(t)
        /\ \A k \in 1 .. m : i + k \in i + 1 .. n - 1
        /\ \A k \in 1 .. m - 1 : i + k \in i + 1 .. p - 1
    BY <1>1, <1>2, <1>3, <2>3, <2>4
  <2> HIDE DEF m
  <2>6. next[m] = t[i + m] /\ m \in 1 .. Len(next)
    BY <1>5, <2>5
  <2>7. t[i + m] \in own
    BY <2>3, <2>5
  <2>8. \A k \in 1 .. m : t[i + k] \notin Slots
    BY <1>3, <2>5
  <2>9. \A k \in 1 .. m - 1 : t[i + k] \notin own
    BY <2>3, <2>5
  <2> QED BY <2>5, <2>6, <2>7, <2>8, <2>9
<1> HIDE DEF next
<1> QED BY <1>2, <1>4, <1>5, <1>6

\* A search that starts in a value, or behind it, ends behind it: the first token
\* of the segment that is the template's own can only be met behind the value,
\* and behind the value the segment itself comes first.
LEMMA TurnPasses ==
    ASSUME NEW t, NEW value, NEW f, NEW y, NEW own, NEW r,
           CameFrom(t, value, f, y, own, r),
           NEW i \in f .. Len(t), t[i] \in Slots,
           NEW from \in Nat, from >= Reach(t, value, i - 1) + 1,
           NEW z \in from .. Len(Interpolate(t, value)) + 1,
           LET x == Interpolate(t, value)
               next == SegmentAfter(t, i)
           IN  \/ z = Len(x) + 1
               \/ next # <<>> /\ LiesAt(x, z, next)
    PROVE  z > Reach(t, value, i)
<1> DEFINE x == Interpolate(t, value)
           next == SegmentAfter(t, i)
           reach == Reach(t, value, i)
<1>1. /\ x \in Text /\ Len(x) \in Nat /\ t \in Text /\ Len(t) \in Nat
      /\ Fills(value, t) /\ i \in 0 .. Len(t)
  BY InterpolationIsText DEF CameFrom, Text
<1>2. /\ Reach(t, value, i - 1) \in Nat
      /\ reach \in 0 .. Len(x) /\ reach \in Nat
      /\ \A p \in Reach(t, value, i - 1) + 1 .. reach : x[p] \notin own
  <2>1. /\ Reach(t, value, i - 1) \in Nat
        /\ Reach(t, value, i) \in 0 .. Len(x)
        /\ \A p \in Reach(t, value, i - 1) + 1 .. Reach(t, value, i) : x[p] \notin own
    BY ValueLies
  <2> HIDE DEF x
  <2> QED BY <2>1
<1>3. CASE z = Len(x) + 1
  BY <1>1, <1>2, <1>3
<1>4. CASE next # <<>> /\ LiesAt(x, z, next)
  <2>1. next \in Text
    BY SegmentIsOwn
  <2>2. PICK m \in 1 .. Len(next) :
           /\ i + m \in 1 .. Len(t) /\ next[m] = t[i + m]
           /\ t[i + m] \in own
           /\ \A k \in 1 .. m : t[i + k] \notin Slots
           /\ \A k \in 1 .. m - 1 : t[i + k] \notin own
    BY <1>4, SegmentIsOwn
  <2>3. \A k \in 1 .. m : x[reach + k] = t[i + k]
    <3> DEFINE n == i + m
    <3>1. n \in i .. Len(t) /\ n - i = m /\ m \in Nat /\ i \in Nat
      BY <1>1, <2>1, <2>2 DEF Text
    <3>2. ASSUME NEW j \in i + 1 .. n PROVE t[j] \notin Slots
      <4>1. j - i \in 1 .. m /\ i + (j - i) = j
        BY <3>1
      <4> QED BY <2>2, <4>1
    <3> HIDE DEF n
    <3>3. /\ Reach(t, value, i) \in Nat
          /\ Reach(t, value, n) = Reach(t, value, i) + (n - i)
          /\ \A k \in 1 .. n - i : Interpolate(t, value)[Reach(t, value, i) + k] = t[i + k]
      <4> HIDE DEF x, next, reach
      <4> QED BY <1>1, <3>1, <3>2, StaticRun
    <3> QED BY <3>1, <3>3
  <2> HIDE DEF next, x, reach
  <2>4. z \in Nat \ {0} /\ Len(next) \in Nat /\ m \in 1 .. Len(next) /\ m \in Nat
    <3>1. Len(next) \in Nat
      BY <2>1 DEF Text
    <3>2. m \in 1 .. Len(next) /\ m \in Nat
      BY <3>1
    <3>3. z \in Nat \ {0}
      BY <1>2
    <3>. QED
      BY <3>1, <3>2, <3>3
  <2>5. x[(z + m) - 1] = next[m]
    BY <1>1, <1>4, <2>4, SegmentLies
  <2>6. x[(z + m) - 1] \in own
    BY <2>2, <2>5
  <2> SUFFICES ASSUME z <= reach PROVE FALSE
    BY <1>2, <2>4 DEF reach
  <2>7. CASE (z + m) - 1 <= reach
    <3>1. (z + m) - 1 \in Reach(t, value, i - 1) + 1 .. reach
      BY <1>2, <2>4, <2>7
    <3> QED BY <1>2, <2>6, <3>1
  <2>8. CASE (z + m) - 1 > reach
    <3> DEFINE k == ((z + m) - 1) - reach
    <3>1. k \in 1 .. m - 1 /\ k \in 1 .. m /\ reach + k = (z + m) - 1
      BY <1>2, <2>4, <2>8
    <3> HIDE DEF k
    <3>2. x[(z + m) - 1] = t[i + k] /\ t[i + k] \notin own
      BY <2>2, <2>3, <3>1
    <3> QED BY <2>6, <3>2
  <2> QED BY <1>2, <2>4, <2>7, <2>8
<1> QED BY <1>3, <1>4

\* A turn whose segment opens what remains of the prompt.
LEMMA TurnTaken ==
    ASSUME NEW t \in Text, NEW i \in Placeholders(t), NEW x \in Text,
           NEW from \in 1 .. Len(x) + 1, NEW acc,
           SegmentBefore(t, i) \in Text, SegmentAfter(t, i) \in Text,
           acc.rest = SegmentBefore(t, i) \o SubSeq(x, from, Len(x))
    PROVE  LET next == SegmentAfter(t, i)
               new == ExtractNext(t, acc, i)
           IN  \E z \in from .. Len(x) + 1 :
                 /\ new.rest = SubSeq(x, z, Len(x))
                 /\ new.regions = IF IsBlank(SubSeq(x, from, z - 1)) THEN acc.regions
                                  ELSE Append(acc.regions, Trim(SubSeq(x, from, z - 1)))
                 /\ z = Len(x) + 1 \/ (next # <<>> /\ LiesAt(x, z, next))
                 /\ next # <<>> => \A q \in from .. z - 1 : ~LiesAt(x, q, next)
<1> DEFINE segment == SegmentBefore(t, i)
           next == SegmentAfter(t, i)
           after == SubSeq(x, from, Len(x))
           region == Region(after, next)
<1>1. after \in Text
  BY FromIsText
<1>2. IndexOf(acc.rest, segment) = 1 /\ acc.rest \in Text
  BY <1>1, IndexOfPrefix, Joined
<1>3. SubSeq(acc.rest, 1 + Len(segment), Len(acc.rest)) = after
  <2> HIDE DEF segment, after
  <2>1. acc.rest = segment \o after /\ segment \in Text
    BY DEF segment, after
  <2>2. Len(segment \o after) = Len(segment) + Len(after)
    BY <1>1, <2>1, Joined
  <2>3. SubSeq(segment \o after, 1 + Len(segment), Len(segment \o after)) = after
    BY <1>1, <2>1, <2>2 DEF Text
  <2> QED BY <2>1, <2>3
<1>4. ExtractNext(t, acc, i) =
        [rest    |-> NextRest(acc.rest, after, region),
         regions |-> IF IsBlank(region) THEN acc.regions
                     ELSE Append(acc.regions, Trim(region))]
  <2> HIDE DEF segment, after
  <2>1. 1 # 0
    OBVIOUS
  <2> QED BY <1>2, <1>3, <2>1, Zenon DEF ExtractNext, segment
<1> HIDE DEF segment
<1>5. PICK z \in from .. Len(x) + 1 :
         /\ region = SubSeq(x, from, z - 1)
         /\ NextRest(acc.rest, after, region) = SubSeq(x, z, Len(x))
         /\ z = Len(x) + 1 \/ (next # <<>> /\ LiesAt(x, z, next))
         /\ next # <<>> => \A q \in from .. z - 1 : ~LiesAt(x, q, next)
  <2> DEFINE rest == acc.rest
  <2>1. next \in Text /\ rest \in Text
    BY <1>2
  <2> HIDE DEF rest
  <2>2. \E z \in from .. Len(x) + 1 :
           /\ Region(after, next) = SubSeq(x, from, z - 1)
           /\ NextRest(rest, after, Region(after, next)) = SubSeq(x, z, Len(x))
           /\ z = Len(x) + 1 \/ (next # <<>> /\ LiesAt(x, z, next))
           /\ next # <<>> => \A q \in from .. z - 1 : ~LiesAt(x, q, next)
    <3> HIDE DEF next
    <3> QED BY <2>1, TurnIs
  <2> QED BY <2>2 DEF rest
<1> HIDE DEF region, after, next
<1>6. /\ ExtractNext(t, acc, i).rest = SubSeq(x, z, Len(x))
      /\ ExtractNext(t, acc, i).regions =
            IF IsBlank(SubSeq(x, from, z - 1)) THEN acc.regions
            ELSE Append(acc.regions, Trim(SubSeq(x, from, z - 1)))
  BY <1>4, <1>5
<1> QED BY <1>5, <1>6 DEF next

LEMMA RegionOfNothing ==
    ASSUME NEW next \in Text, NEW rest
    PROVE  Region(<<>>, next) = <<>> /\ NextRest(rest, <<>>, <<>>) = <<>>
<1>1. Len(<<>>) = 0 /\ <<>> \in Text /\ Len(next) \in Nat
  BY DEF Text
<1>2. next = <<>> \/ IndexOf(<<>>, next) = 0
  <2> SUFFICES ASSUME next # <<>>, IndexOf(<<>>, next) # 0 PROVE FALSE
    OBVIOUS
  <2>1. Len(next) > 0
    BY DEF Text
  <2>2. IndexOf(<<>>, next) \in 1 .. Len(<<>>) - Len(next) + 1
    BY <1>1, IndexIs
  <2> QED BY <1>1, <2>1, <2>2
<1>3. Region(<<>>, next) = <<>>
  BY <1>2, Zenon DEF Region
<1>4. NextRest(rest, <<>>, <<>>) = <<>>
  BY <1>1 DEF NextRest
<1> QED BY <1>3, <1>4

\* A turn with nothing left of the prompt finds nothing.
LEMMA TurnOnNothing ==
    ASSUME NEW t \in Text, NEW i, NEW acc, acc.rest = <<>>,
           SegmentBefore(t, i) \in Text, SegmentAfter(t, i) \in Text
    PROVE  /\ ExtractNext(t, acc, i).rest = <<>>
           /\ ExtractNext(t, acc, i).regions = acc.regions
<1> DEFINE segment == SegmentBefore(t, i)
           next == SegmentAfter(t, i)
<1>1. <<>> \in Text /\ Len(<<>>) = 0
  BY DEF Text
<1>2. CASE IndexOf(acc.rest, segment) = 0
  BY <1>2 DEF ExtractNext
<1>3. CASE IndexOf(acc.rest, segment) # 0
  <2>1. Len(segment) = 0 /\ IndexOf(<<>>, segment) = 1
    <3>1. IndexOf(<<>>, segment) \in 1 .. Len(<<>>) - Len(segment) + 1
      BY <1>1, <1>3, IndexIs
    <3>2. Len(segment) \in Nat
      BY DEF Text
    <3> QED BY <1>1, <3>1, <3>2
  <2> DEFINE after == SubSeq(acc.rest, IndexOf(acc.rest, segment) + Len(segment), Len(acc.rest))
             region == Region(after, next)
  <2>2. after = <<>>
    <3>1. after = SubSeq(<<>>, 1, 0)
      BY <1>1, <2>1
    <3> QED BY <3>1
  <2>3. ExtractNext(t, acc, i) =
          [rest    |-> NextRest(acc.rest, after, region),
           regions |-> IF IsBlank(region) THEN acc.regions
                       ELSE Append(acc.regions, Trim(region))]
    BY <1>3, Zenon DEF ExtractNext
  <2> HIDE DEF after, next, segment
  <2>6. region = <<>> /\ NextRest(acc.rest, after, region) = <<>>
    <3>1. Region(<<>>, next) = <<>> /\ NextRest(acc.rest, <<>>, <<>>) = <<>>
      BY RegionOfNothing DEF next
    <3> QED BY <2>2, <3>1
  <2>7. IsBlank(<<>>)
    BY DEF IsBlank, Visible
  <2> HIDE DEF region
  <2> QED BY <2>3, <2>6, <2>7
<1> QED BY <1>2, <1>3

-------------------------------------------------------------------------------
(***************************************************************************)
(* Nothing but the template's own text stays outside of the regions.       *)
(***************************************************************************)
Shown(regions, token) ==
    \E k \in DOMAIN regions : \E j \in DOMAIN regions[k] : regions[k][j] = token

\* What a turn adds stays, and what it finds is shown.
LEMMA ShownAfter ==
    ASSUME NEW regions \in Seq(Text), NEW region \in Text, NEW new,
           new = IF IsBlank(region) THEN regions ELSE Append(regions, Trim(region))
    PROVE  /\ new \in Seq(Text)
           /\ \A token : Shown(regions, token) => Shown(new, token)
           /\ \A i \in DOMAIN region : region[i] # Blank => Shown(new, region[i])
<1>1. CASE IsBlank(region)
  <2>1. \A i \in DOMAIN region : region[i] = Blank
    BY <1>1 DEF IsBlank, Visible
  <2> QED BY <1>1, <2>1
<1>2. CASE ~IsBlank(region)
  <2>1. /\ Trim(region) \in Text
        /\ \A i \in Visible(region) : \E j \in DOMAIN Trim(region) : Trim(region)[j] = region[i]
    BY <1>2, TrimIs
  <2> DEFINE piece == Trim(region)
  <2>2. new = Append(regions, piece)
    BY <1>2
  <2> HIDE DEF piece
  <2>3. /\ new \in Seq(Text)
        /\ Len(regions) + 1 \in DOMAIN new /\ new[Len(regions) + 1] = piece
        /\ \A k \in DOMAIN regions : k \in DOMAIN new /\ new[k] = regions[k]
    BY <2>1, <2>2 DEF piece
  <2>4. \A token : Shown(regions, token) => Shown(new, token)
    BY <2>3 DEF Shown
  <2>5. \A i \in DOMAIN region : region[i] # Blank => Shown(new, region[i])
    BY <2>1, <2>3 DEF Shown, Visible, piece
  <2> QED BY <2>3, <2>4, <2>5
<1> QED BY <1>1, <1>2

\* Before the first placeholder the loop does nothing.
LEMMA BeforeTheFirst ==
    ASSUME NEW t \in Text, NEW r, NEW f \in 1 .. Len(t),
           \A j \in 1 .. f - 1 : t[j] \notin Slots
    PROVE  Extraction(t, r)[f - 1] = [rest |-> r, regions |-> <<>>]
<1> DEFINE g == Extraction(t, r)
           start == [rest |-> r, regions |-> <<>>]
           S == {i \in 0 .. f - 1 : g[i] = start}
<1>1. Len(t) \in Nat /\ f - 1 \in Nat
  BY DEF Text
<1>2. g[0] = start
  BY ExtractionIs
<1>3. \A i \in 1 .. Len(t) :
         g[i] = IF t[i] \in Slots THEN ExtractNext(t, g[i - 1], i) ELSE g[i - 1]
  BY ExtractionIs
<1> HIDE DEF g, start
<1>4. 0 \in S
  BY <1>1, <1>2
<1>5. ASSUME NEW n \in 0 .. (f - 1) - 1, n \in S PROVE n + 1 \in S
  <2>1. n + 1 \in 1 .. Len(t) /\ (n + 1) - 1 = n /\ n + 1 \in 0 .. f - 1 /\ t[n + 1] \notin Slots
    BY <1>1
  <2> QED BY <1>3, <1>5, <2>1
<1> HIDE DEF S
<1>6. 0 .. f - 1 \subseteq S
  BY <1>1, <1>4, <1>5, InductionWithin
<1>7. f - 1 \in S
  BY <1>1, <1>6
<1> QED BY <1>7 DEF S, g, start

\* After the i-th token of the template, whose last placeholder so far is at o:
\* what is left of the prompt starts at z, behind the value of that
\* placeholder, with the segment after it, and all before it is accounted for.
CarvedTo(t, value, f, own, i, acc, o, z) ==
    LET x == Interpolate(t, value)
        next == SegmentAfter(t, o)
    IN  /\ o \in f .. i /\ t[o] \in Slots
        /\ \A j \in o + 1 .. i : t[j] \notin Slots
        /\ z \in 1 .. Len(x) + 1 /\ z > Reach(t, value, o)
        /\ acc.rest = SubSeq(x, z, Len(x))
        /\ z = Len(x) + 1 \/ (next # <<>> /\ LiesAt(x, z, next))
        /\ acc.regions \in Seq(Text)
        /\ \A p \in f .. z - 1 : x[p] # Blank /\ x[p] \notin own => Shown(acc.regions, x[p])

\* A turn whose segment opens what remains accounts for all it passes.
LEMMA TurnCarves ==
    ASSUME NEW t, NEW value, NEW f, NEW y, NEW own, NEW r,
           CameFrom(t, value, f, y, own, r),
           NEW i \in f .. Len(t), t[i] \in Slots,
           NEW acc, acc.regions \in Seq(Text), SegmentBefore(t, i) \in Text,
           NEW from \in 1 .. Len(Interpolate(t, value)) + 1,
           from > Reach(t, value, i - 1),
           acc.rest = SegmentBefore(t, i)
                        \o SubSeq(Interpolate(t, value), from, Len(Interpolate(t, value))),
           \A p \in f .. from - 1 :
              Interpolate(t, value)[p] # Blank /\ Interpolate(t, value)[p] \notin own
                 => Shown(acc.regions, Interpolate(t, value)[p])
    PROVE  \E z : CarvedTo(t, value, f, own, i, ExtractNext(t, acc, i), i, z)
<1> DEFINE x == Interpolate(t, value)
           next == SegmentAfter(t, i)
           new == ExtractNext(t, acc, i)
<1>1. t \in Text /\ x \in Text /\ Len(x) \in Nat /\ Len(t) \in Nat /\ f \in 1 .. Len(t)
  BY InterpolationIsText DEF CameFrom, Text
<1>2. i \in Placeholders(t) /\ next \in Text
  BY SegmentIsOwn
<1>3. PICK z \in from .. Len(x) + 1 :
         /\ new.rest = SubSeq(x, z, Len(x))
         /\ new.regions = IF IsBlank(SubSeq(x, from, z - 1)) THEN acc.regions
                          ELSE Append(acc.regions, Trim(SubSeq(x, from, z - 1)))
         /\ z = Len(x) + 1 \/ (next # <<>> /\ LiesAt(x, z, next))
  BY <1>1, <1>2, TurnTaken
<1>4. Reach(t, value, i - 1) \in Nat
  BY ValueLies
<1>5. z > Reach(t, value, i)
  <2>1. from \in Nat /\ from >= Reach(t, value, i - 1) + 1
    <3> DEFINE start == Reach(t, value, i - 1)
    <3>1. start \in Nat /\ from > start /\ from \in 1 .. Len(x) + 1
      BY <1>4
    <3> HIDE DEF start
    <3> QED BY <3>1 DEF start
  <2> QED BY <1>3, <2>1, TurnPasses
<1> DEFINE region == SubSeq(x, from, z - 1)
           regions == new.regions
<1> HIDE DEF x, next, new
<1>6. region \in Text /\ \A p \in from .. z - 1 : /\ (p - from) + 1 \in DOMAIN region
                                                  /\ region[(p - from) + 1] = x[p]
  BY <1>1, <1>3 DEF Text
<1> HIDE DEF region
<1>7. regions = IF IsBlank(region) THEN acc.regions ELSE Append(acc.regions, Trim(region))
  BY <1>3 DEF region
<1> HIDE DEF regions
<1>8. /\ regions \in Seq(Text)
      /\ \A token : Shown(acc.regions, token) => Shown(regions, token)
      /\ \A k \in DOMAIN region : region[k] # Blank => Shown(regions, region[k])
  <2> DEFINE old == acc.regions
  <2>1. /\ old \in Seq(Text) /\ region \in Text
        /\ regions = IF IsBlank(region) THEN old ELSE Append(old, Trim(region))
    BY <1>6, <1>7
  <2> HIDE DEF old
  <2>2. /\ regions \in Seq(Text)
        /\ \A token : Shown(old, token) => Shown(regions, token)
        /\ \A k \in DOMAIN region : region[k] # Blank => Shown(regions, region[k])
    BY <2>1, ShownAfter
  <2> QED BY <2>2, Zenon DEF old
<1>9. ASSUME NEW p \in f .. z - 1, x[p] # Blank, x[p] \notin own
      PROVE  Shown(regions, x[p])
  <2>1. CASE p <= from - 1
    <3>1. p \in f .. from - 1
      BY <1>1, <2>1
    <3> QED BY <1>8, <1>9, <3>1 DEF x
  <2>2. CASE p \in from .. z - 1
    BY <1>6, <1>8, <1>9, <2>2
  <2> QED BY <1>1, <2>1, <2>2
<1>10. CarvedTo(t, value, f, own, i, new, i, z)
  <2>1. i \in f .. i /\ \A j \in i + 1 .. i : t[j] \notin Slots
    BY <1>1
  <2>2. z \in 1 .. Len(x) + 1
    BY <1>1
  <2> QED BY <1>3, <1>5, <1>8, <1>9, <2>1, <2>2 DEF CarvedTo, x, next, regions
<1> QED BY <1>10 DEF new

LEMMA CarvesToTheEnd ==
    ASSUME NEW t, NEW value, NEW f, NEW y, NEW own, NEW r,
           CameFrom(t, value, f, y, own, r)
    PROVE  \E o, z : CarvedTo(t, value, f, own, Len(t), Extraction(t, r)[Len(t)], o, z)
<1> DEFINE x == Interpolate(t, value)
           g == Extraction(t, r)
           S == {i \in f .. Len(t) : \E o, z : CarvedTo(t, value, f, own, i, g[i], o, z)}
<1>1. /\ t \in Text /\ x \in Text /\ Len(x) \in Nat /\ Len(t) \in Nat /\ f \in 1 .. Len(t)
      /\ Fills(value, t) /\ t[f] \in Slots
      /\ \A j \in 1 .. f - 1 : t[j] \notin Slots
      /\ y \in f .. Len(x) + 1
      /\ \A p \in f .. y - 1 : x[p] = Blank
      /\ r = SubSeq(t, 1, f - 1) \o SubSeq(x, y, Len(x))
      /\ \A i \in f .. Len(t) : t[i] \in own \cup Slots \cup {Blank}
  BY InterpolationIsText DEF CameFrom, Text
<1>2. \A i \in 1 .. Len(t) :
         g[i] = IF t[i] \in Slots THEN ExtractNext(t, g[i - 1], i) ELSE g[i - 1]
  <2>1. t \in Text
    BY <1>1
  <2> QED BY <2>1, ExtractionIs
<1>3. g[f - 1] = [rest |-> r, regions |-> <<>>]
  BY <1>1, BeforeTheFirst
<1> HIDE DEF g
<1>4. f \in S
  <2>1. f \in f .. Len(t) /\ f \in Placeholders(t)
    BY <1>1 DEF Placeholders, Text
  <2>2. SegmentBefore(t, f) = SubSeq(t, 1, f - 1) /\ SubSeq(t, 1, f - 1) \in Text
    <3>1. 0 \in 0 .. f - 1 /\ \A j \in 0 + 1 .. f - 1 : t[j] \notin Slots
      BY <1>1
    <3>2. SegmentBefore(t, f) = SubSeq(t, 0 + 1, f - 1)
      BY <1>1, <2>1, <3>1, SegmentsAre
    <3> QED BY <1>1, <3>2 DEF Text
  <2>3. Reach(t, value, f - 1) = f - 1
    BY FirstReach
  <2> DEFINE acc == g[f - 1]
  <2>4. acc.rest = SegmentBefore(t, f) \o SubSeq(x, y, Len(x)) /\ acc.regions \in Seq(Text)
    <3>1. acc.rest = r /\ acc.regions = <<>>
      BY <1>3
    <3>2. <<>> \in Seq(Text)
      OBVIOUS
    <3> HIDE DEF acc, x
    <3> QED BY <1>1, <2>2, <3>1, <3>2 DEF x
  <2>5. y \in 1 .. Len(x) + 1 /\ y > Reach(t, value, f - 1)
    BY <1>1, <2>3
  <2>6. \A p \in f .. y - 1 : x[p] # Blank /\ x[p] \notin own => Shown(acc.regions, x[p])
    BY <1>1
  <2> HIDE DEF acc
  <2>7. \E z : CarvedTo(t, value, f, own, f, ExtractNext(t, acc, f), f, z)
    BY <2>1, <1>1, <2>2, <2>4, <2>5, <2>6, TurnCarves
  <2>8. g[f] = ExtractNext(t, acc, f)
    BY <1>1, <1>2 DEF acc
  <2> QED BY <2>1, <2>7, <2>8
<1>5. ASSUME NEW n \in f .. Len(t) - 1, n \in S PROVE n + 1 \in S
  <2> DEFINE i == n + 1
             acc == g[n]
  <2>1. i \in f .. Len(t) /\ i \in 1 .. Len(t) /\ i - 1 = n /\ n \in Nat /\ n < i /\ f \in Nat
    BY <1>1
  <2>2. g[i] = IF t[i] \in Slots THEN ExtractNext(t, acc, i) ELSE acc
    BY <1>2, <2>1
  <2>3. PICK o, z : CarvedTo(t, value, f, own, n, acc, o, z)
    BY <1>5
  <2> DEFINE next == SegmentAfter(t, o)
  <2>4. /\ o \in f .. n /\ t[o] \in Slots /\ o \in Nat
        /\ \A j \in o + 1 .. n : t[j] \notin Slots
        /\ z \in 1 .. Len(x) + 1 /\ z > Reach(t, value, o)
        /\ acc.rest = SubSeq(x, z, Len(x))
        /\ z = Len(x) + 1 \/ (next # <<>> /\ LiesAt(x, z, next))
        /\ acc.regions \in Seq(Text)
        /\ \A p \in f .. z - 1 : x[p] # Blank /\ x[p] \notin own => Shown(acc.regions, x[p])
    <3>1. f \in Nat
      BY <1>1
    <3> QED BY <2>3, <3>1 DEF CarvedTo
  <2> HIDE DEF i, acc
  <2>5. CASE t[i] \notin Slots
    <3>1. g[i] = acc
      BY <2>2, <2>5
    <3>2. o \in f .. i /\ \A j \in o + 1 .. i : t[j] \notin Slots
      <4>1. \A j \in o + 1 .. i : j = i \/ j \in o + 1 .. n
        BY <2>1, <2>4
      <4> QED BY <2>1, <2>4, <2>5, <4>1
    <3>3. CarvedTo(t, value, f, own, i, acc, o, z)
      BY <2>4, <3>2 DEF CarvedTo
    <3> QED BY <2>1, <3>1, <3>3 DEF i
  <2>6. CASE t[i] \in Slots
    <3>1. i \in Placeholders(t) /\ SegmentAfter(t, i) \in Text
      BY <2>1, <2>6, SegmentIsOwn
    <3>2. o \in f .. Len(t) /\ o \in Placeholders(t) /\ next \in Text
      <4>1. o \in f .. Len(t)
        BY <2>1, <2>4
      <4> QED BY <2>4, <4>1, SegmentIsOwn
    <3>3. SegmentBefore(t, i) = next /\ next = SubSeq(t, o + 1, n)
      <4>1. o \in 0 .. i - 1 /\ i \in o + 1 .. Len(t) + 1
        BY <2>1, <2>4
      <4>2. SegmentBefore(t, i) = SubSeq(t, o + 1, i - 1)
        BY <1>1, <2>1, <2>4, <3>1, <4>1, SegmentsAre
      <4>3. next = SubSeq(t, o + 1, i - 1)
        <5>1. t \in Text /\ \A j \in o + 1 .. i - 1 : t[j] \notin Slots
          BY <1>1, <2>1, <2>4
        <5> QED BY <2>6, <3>2, <4>1, <5>1, SegmentsAre
      <4> QED BY <2>1, <4>2, <4>3
    <3>4. CASE z = Len(x) + 1
      <4>1. acc.rest = <<>>
        BY <1>1, <2>4, <3>4 DEF Text
      <4> DEFINE new == ExtractNext(t, acc, i)
      <4>2. new.rest = <<>> /\ new.regions = acc.regions
        <5>1. t \in Text /\ SegmentBefore(t, i) \in Text /\ SegmentAfter(t, i) \in Text
          BY <1>1, <3>1, <3>2, <3>3
        <5> QED BY <4>1, <5>1, TurnOnNothing
      <4>3. new.rest = SubSeq(x, z, Len(x))
        BY <2>4, <4>1, <4>2
      <4>4. z > Reach(t, value, i)
        <5>1. Reach(t, value, i) \in 0 .. Len(x)
          BY <2>1, <2>6, ValueLies
        <5> QED BY <1>1, <3>4, <5>1
      <4>5. i \in f .. i /\ \A j \in i + 1 .. i : t[j] \notin Slots
        BY <2>1
      <4> HIDE DEF new, x
      <4>6. CarvedTo(t, value, f, own, i, new, i, z)
        BY <2>4, <2>6, <3>4, <4>2, <4>3, <4>4, <4>5 DEF CarvedTo, x
      <4>7. g[i] = new
        BY <2>2, <2>6 DEF new
      <4> QED BY <2>1, <4>6, <4>7 DEF i
    <3>5. CASE next # <<>> /\ LiesAt(x, z, next)
      <4> DEFINE from == z + Len(next)
      <4>1. Len(next) = n - o /\ Len(next) \in Nat
        BY <1>1, <2>1, <2>4, <3>3 DEF Text
      <4>2. from \in 1 .. Len(x) + 1
        BY <1>1, <2>4, <3>5, <4>1 DEF LiesAt
      <4>3. acc.rest = next \o SubSeq(x, from, Len(x))
        <5> HIDE DEF next, x
        <5>1. /\ SubSeq(x, z, (z + Len(next)) - 1) = next /\ (z + Len(next)) - 1 <= Len(x)
              /\ x \in Text /\ z \in Nat \ {0} /\ Len(next) \in Nat
          <6>1. SubSeq(x, z, (z + Len(next)) - 1) = next /\ (z + Len(next)) - 1 <= Len(x)
            BY <3>5 DEF LiesAt
          <6>2. x \in Text /\ z \in Nat \ {0} /\ Len(next) \in Nat
            BY <1>1, <2>4, <4>1
          <6> QED BY <6>1, <6>2
        <5>2. SubSeq(x, z, Len(x))
                = SubSeq(x, z, (z + Len(next)) - 1) \o SubSeq(x, z + Len(next), Len(x))
          BY <5>1, PartThenRest
        <5> QED BY <2>4, <5>1, <5>2
      <4>4. from > Reach(t, value, i - 1)
        <5>1. /\ o \in 0 .. Len(t) /\ n \in o .. Len(t)
          BY <1>1, <2>1, <2>4
        <5>2. /\ Reach(t, value, n) = Reach(t, value, o) + (n - o)
              /\ Reach(t, value, o) \in Nat
          BY <1>1, <2>4, <5>1, StaticRun
        <5> QED BY <2>1, <2>4, <4>1, <5>2
      <4>5. ASSUME NEW p \in f .. from - 1, x[p] # Blank, x[p] \notin own
            PROVE  Shown(acc.regions, x[p])
        <5>1. CASE p <= z - 1
          <6>1. p \in f .. z - 1
            BY <2>1, <2>4, <5>1
          <6> QED BY <2>4, <4>5, <6>1
        <5>2. CASE p \in z .. from - 1
          <6> DEFINE k == (p - z) + 1
          <6>1. k \in 1 .. Len(next) /\ p = (z + k) - 1 /\ o + k \in f .. Len(t)
                /\ o + k \in o + 1 .. n
            BY <2>1, <2>4, <4>1, <5>2
          <6> HIDE DEF k
          <6>2. x[(z + k) - 1] = next[k]
            <7>1. z \in Nat \ {0}
              BY <1>1, <2>4
            <7> HIDE DEF x, next
            <7>2. /\ x \in Text /\ Len(next) \in Nat /\ LiesAt(x, z, next)
                  /\ k \in 1 .. Len(next)
              BY <1>1, <3>5, <4>1, <6>1
            <7> QED BY <7>1, <7>2, SegmentLies
          <6>3. SubSeq(t, o + 1, n)[k] = t[o + k]
            <7> DEFINE a == o + 1
            <7>1. /\ t \in Text /\ a \in Nat \ {0} /\ n \in a - 1 .. Len(t)
                  /\ k \in 1 .. (n + 1) - a /\ (a + k) - 1 = o + k
              BY <1>1, <2>1, <2>4, <4>1, <6>1
            <7> HIDE DEF a
            <7>2. SubSeq(t, a, n)[k] = t[(a + k) - 1]
              BY <7>1, PartIsText
            <7> QED BY <7>1, <7>2 DEF a
          <6>4. x[p] = t[o + k]
            BY <3>3, <6>1, <6>2, <6>3
          <6>5. t[o + k] \in own \cup {Blank}
            BY <1>1, <2>4, <6>1
          <6> QED BY <4>5, <6>4, <6>5
        <5> QED BY <2>1, <2>4, <5>1, <5>2
      <4> HIDE DEF from
      <4>6. \E w : CarvedTo(t, value, f, own, i, ExtractNext(t, acc, i), i, w)
        <5>1. acc.rest = SegmentBefore(t, i) \o SubSeq(x, from, Len(x)) /\ SegmentBefore(t, i) \in Text
          BY <3>2, <3>3, <4>3
        <5> QED BY <2>1, <2>4, <2>6, <4>2, <4>4, <4>5, <5>1, TurnCarves
      <4> QED BY <2>1, <2>2, <2>6, <4>6 DEF i
    <3> QED BY <2>4, <3>4, <3>5
  <2> QED BY <2>5, <2>6
<1> HIDE DEF S
<1>6. f .. Len(t) \subseteq S
  <2>1. f \in Nat
    BY <1>1
  <2> QED BY <1>1, <1>4, <1>5, <2>1, InductionWithin
<1>7. Len(t) \in S
  BY <1>1, <1>6
<1> QED BY <1>7 DEF S, g

LEMMA NothingEscapes ==
    ASSUME NEW t, NEW value, NEW f, NEW y, NEW own, NEW r,
           CameFrom(t, value, f, y, own, r),
           NEW i \in f .. Len(t), t[i] \in Slots,
           NEW j \in DOMAIN value[t[i]], value[t[i]][j] # Blank
    PROVE  Shown(ExtractUntrustedRegions(t, r), value[t[i]][j])
<1> DEFINE x == Interpolate(t, value)
           from == Reach(t, value, i - 1)
           regions == Extraction(t, r)[Len(t)].regions
           p == from + j
           token == value[t[i]][j]
<1>1. /\ t \in Text /\ Fills(value, t) /\ Len(t) \in Nat /\ f \in 1 .. Len(t)
      /\ \A k \in f .. Len(t) : t[k] \in own \cup Slots \cup {Blank}
  BY DEF CameFrom, Text
<1>2. /\ from \in Nat /\ from >= f - 1 /\ value[t[i]] \in Text
      /\ Reach(t, value, i) = from + Len(value[t[i]])
      /\ Reach(t, value, i) \in 0 .. Len(x)
      /\ \A k \in 1 .. Len(value[t[i]]) : x[from + k] = value[t[i]][k]
      /\ \A k \in from + 1 .. Reach(t, value, i) : x[k] \notin own
  <2> HIDE DEF regions, p, token
  <2>1. LET X == Interpolate(t, value)
            start == Reach(t, value, i - 1)
        IN  /\ start \in Nat /\ value[t[i]] \in Text
            /\ start >= f - 1
            /\ Reach(t, value, i) = start + Len(value[t[i]])
            /\ Reach(t, value, i) \in 0 .. Len(X)
            /\ \A k \in 1 .. Len(value[t[i]]) : X[start + k] = value[t[i]][k]
            /\ \A k \in start + 1 .. Reach(t, value, i) : X[k] \notin own
    <3> HIDE DEF x, from
    <3> QED BY ValueLies, Zenon
  <2> QED BY <2>1, Zenon
<1>3. j \in 1 .. Len(value[t[i]]) /\ Len(value[t[i]]) \in Nat
  <2>1. value[t[i]] \in Text
    BY <1>2
  <2> QED BY <2>1 DEF Text
<1> HIDE DEF x, from
<1>4. /\ p \in Nat /\ p >= f /\ p \in from + 1 .. Reach(t, value, i) /\ x[p] = token
  <2>1. /\ from \in Nat /\ from >= f - 1 /\ f \in Nat
        /\ Reach(t, value, i) = from + Len(value[t[i]])
    BY <1>1, <1>2
  <2>2. p \in Nat /\ p >= f /\ p \in from + 1 .. Reach(t, value, i)
    BY <1>3, <2>1
  <2>3. x[from + j] = value[t[i]][j]
    BY <1>2, <1>3
  <2> QED BY <2>2, <2>3
<1>5. x[p] # Blank /\ x[p] \notin own
  BY <1>2, <1>4
<1> HIDE DEF p, token
<1>6. PICK o, z : CarvedTo(t, value, f, own, Len(t), Extraction(t, r)[Len(t)], o, z)
  BY CarvesToTheEnd
<1>7. /\ o \in f .. Len(t) /\ \A k \in o + 1 .. Len(t) : t[k] \notin Slots
      /\ z \in 1 .. Len(x) + 1 /\ z > Reach(t, value, o)
      /\ \A k \in f .. z - 1 : x[k] # Blank /\ x[k] \notin own => Shown(regions, x[k])
  BY <1>6, Zenon DEF CarvedTo, x
<1> HIDE DEF regions
<1>8. p < z
  <2> SUFFICES ASSUME p >= z PROVE FALSE
    BY <1>4, <1>7
  <2>1. o \in 0 .. Len(t) /\ Len(t) \in o .. Len(t)
    BY <1>1, <1>7
  <2>2. /\ Reach(t, value, o) \in Nat
        /\ Reach(t, value, Len(t)) = Reach(t, value, o) + (Len(t) - o)
        /\ \A k \in 1 .. Len(t) - o : x[Reach(t, value, o) + k] = t[o + k]
    <3> DEFINE n == Len(t)
    <3>1. /\ t \in Text /\ Fills(value, t) /\ n \in o .. Len(t)
          /\ \A k \in o + 1 .. n : t[k] \notin Slots
      BY <1>1, <1>7, <2>1
    <3> HIDE DEF n
    <3>2. /\ Reach(t, value, o) \in Nat
          /\ Reach(t, value, n) = Reach(t, value, o) + (n - o)
          /\ \A k \in 1 .. n - o : Interpolate(t, value)[Reach(t, value, o) + k] = t[o + k]
      BY <2>1, <3>1, StaticRun
    <3> QED BY <3>2 DEF x, n
  <2>3. Reach(t, value, Len(t)) = Len(x)
    BY DEF Reach, x, Interpolate
  <2> DEFINE k == p - Reach(t, value, o)
  <2>4. p <= Len(x)
    BY <1>2, <1>4
  <2>5. k \in 1 .. Len(t) - o /\ Reach(t, value, o) + k = p
    BY <1>1, <1>4, <1>7, <2>2, <2>3, <2>4
  <2> HIDE DEF k
  <2>6. o + k \in f .. Len(t) /\ o + k \in o + 1 .. Len(t)
    BY <1>1, <1>7, <2>5
  <2>7. x[p] = t[o + k]
    BY <2>2, <2>5
  <2> QED BY <1>1, <1>5, <1>7, <2>6, <2>7
<1>9. p \in f .. z - 1
  BY <1>1, <1>4, <1>7, <1>8
<1>10. Shown(regions, token)
  BY <1>4, <1>5, <1>7, <1>9
<1> QED BY <1>10 DEF regions, token, ExtractUntrustedRegions

-------------------------------------------------------------------------------
(***************************************************************************)
(* What hosts make of a template, in these terms.                          *)
(***************************************************************************)
LEMMA AfterStatic ==
    ASSUME NEW a \in Text, NEW d \in Text, NEW value, Fills(value, d),
           \A i \in 1 .. Len(a) : a[i] \notin Slots
    PROVE  /\ Fills(value, a \o d)
           /\ Interpolate(a \o d, value) = a \o Interpolate(d, value)
<1> DEFINE t == a \o d
           g == Interpolation(t, value)
           h == Interpolation(d, value)
           S == {k \in 0 .. Len(d) : g[Len(a) + k] = a \o h[k]}
<1>1. /\ t \in Text /\ Len(a) \in Nat /\ Len(d) \in Nat /\ Len(t) = Len(a) + Len(d)
      /\ DOMAIN t = 1 .. Len(t) /\ DOMAIN d = 1 .. Len(d)
      /\ \A p \in 1 .. Len(a) : t[p] = a[p]
      /\ \A p \in 1 .. Len(d) : t[Len(a) + p] = d[p]
  <2>1. t \in Text
    BY Joined
  <2>2. DOMAIN t = 1 .. Len(t) /\ DOMAIN d = 1 .. Len(d)
    <3> HIDE DEF t
    <3> QED BY <2>1 DEF Text
  <2> QED BY <2>1, <2>2, Joined
<1> HIDE DEF t
<1>2. Fills(value, t)
  <2> SUFFICES ASSUME NEW i \in 1 .. Len(t), t[i] \in Slots PROVE value[t[i]] \in Text
    BY <1>1 DEF Fills
  <2>1. CASE i <= Len(a)
    <3>1. i \in 1 .. Len(a)
      BY <1>1, <2>1
    <3> QED BY <1>1, <3>1
  <2>2. CASE i > Len(a)
    <3>1. i - Len(a) \in 1 .. Len(d) /\ Len(a) + (i - Len(a)) = i
      BY <1>1, <2>2
    <3>2. t[i] = d[i - Len(a)]
      BY <1>1, <3>1
    <3> QED BY <1>1, <3>1, <3>2 DEF Fills
  <2> QED BY <1>1, <2>1, <2>2
<1>3. g[Len(a)] = a
  <2>1. /\ 0 \in 0 .. Len(t) /\ Len(a) \in 0 .. Len(t)
        /\ \A i \in 0 + 1 .. Len(a) : t[i] \notin Slots
    BY <1>1
  <2>2. Interpolation(t, value)[0] = <<>>
    BY <1>1, InterpolationIs
  <2>3. Reach(t, value, 0) = 0
    BY <2>2 DEF Reach
  <2>4. /\ Reach(t, value, Len(a)) = 0 + (Len(a) - 0)
        /\ \A j \in 1 .. Len(a) - 0 : Interpolate(t, value)[0 + j] = t[0 + j]
    <3> DEFINE n == Len(a)
               o == 0
    <3>1. /\ t \in Text /\ Fills(value, t) /\ o \in 0 .. Len(t) /\ n \in o .. Len(t)
          /\ \A k \in o + 1 .. n : t[k] \notin Slots
      BY <1>1, <1>2, <2>1
    <3>2. Reach(t, value, o) = 0
      BY <2>3
    <3> HIDE DEF n, o
    <3>3. /\ Reach(t, value, n) = Reach(t, value, o) + (n - o)
          /\ \A k \in 1 .. n - o : Interpolate(t, value)[Reach(t, value, o) + k] = t[o + k]
      BY <3>1, StaticRun
    <3> QED BY <3>2, <3>3 DEF n, o
  <2>5. Len(t) \in Len(a) .. Len(t)
    BY <1>1
  <2>6. \A p \in 1 .. Reach(t, value, Len(a)) : g[Len(t)][p] = g[Len(a)][p]
    <3> DEFINE n == Len(a)
               m == Len(t)
    <3>1. /\ t \in Text /\ Fills(value, t) /\ n \in 0 .. Len(t) /\ m \in n .. Len(t)
      BY <1>1, <1>2, <2>1, <2>5
    <3> HIDE DEF n, m, g
    <3>2. \A p \in 1 .. Reach(t, value, n) :
             Interpolation(t, value)[m][p] = Interpolation(t, value)[n][p]
      BY <3>1, InterpolationGrows
    <3> QED BY <3>2 DEF n, m, g
  <2>7. g[Len(a)] \in Text
    BY <1>1, <1>2, <2>1, InterpolationIsText
  <2> DEFINE u == g[Len(a)]
  <2>8. Len(u) = Len(a) /\ \A j \in 1 .. Len(a) : u[j] = a[j]
    BY <1>1, <2>4, <2>6 DEF Reach, Interpolate
  <2> HIDE DEF u
  <2>9. u = a
    BY <2>7, <2>8, SameText DEF u
  <2> QED BY <2>9 DEF u
<1>4. h[0] = <<>> /\ \A k \in 1 .. Len(d) : h[k] = h[k - 1] \o Filled(d[k], value)
  BY InterpolationIs
<1>5. \A i \in 1 .. Len(t) : g[i] = g[i - 1] \o Filled(t[i], value)
  BY <1>1, InterpolationIs
<1>6. \A k \in 0 .. Len(d) : h[k] \in Text
  BY InterpolationIsText
<1> HIDE DEF g, h
<1>7. 0 \in S
  <2>1. a \o <<>> = a /\ Len(a) + 0 = Len(a) /\ 0 \in 0 .. Len(d)
    BY <1>1 DEF Text
  <2>2. g[Len(a) + 0] = a \o h[0]
    BY <1>3, <1>4, <2>1
  <2> QED BY <2>1, <2>2
<1>8. ASSUME NEW n \in 0 .. Len(d) - 1, n \in S PROVE n + 1 \in S
  <2>1. /\ n + 1 \in 1 .. Len(d) /\ (n + 1) - 1 = n /\ n + 1 \in 0 .. Len(d) /\ n \in 0 .. Len(d)
        /\ Len(a) + (n + 1) \in 1 .. Len(t) /\ (Len(a) + (n + 1)) - 1 = Len(a) + n
    BY <1>1
  <2> DEFINE part == Filled(d[n + 1], value)
  <2>2. t[Len(a) + (n + 1)] = d[n + 1]
    BY <1>1, <2>1
  <2>3. part \in Text /\ h[n] \in Text
    BY <1>1, <1>6, <2>1, FilledIsText
  <2>4. g[Len(a) + (n + 1)] = g[Len(a) + n] \o part /\ h[n + 1] = h[n] \o part
    BY <1>4, <1>5, <2>1, <2>2
  <2>5. g[Len(a) + n] = a \o h[n]
    BY <1>8
  <2> DEFINE u == h[n]
  <2> HIDE DEF part, u
  <2>6. (a \o u) \o part = a \o (u \o part)
    <3>1. u \in Text /\ part \in Text
      BY <2>3 DEF u
    <3> QED BY <3>1, JoinedTwice
  <2>7. g[Len(a) + (n + 1)] = a \o h[n + 1]
    BY <2>4, <2>5, <2>6 DEF u
  <2> QED BY <2>1, <2>7
<1> HIDE DEF S
<1>9. 0 .. Len(d) \subseteq S
  BY <1>1, <1>7, <1>8, InductionWithin
<1>10. Len(d) \in S
  BY <1>1, <1>9
<1>11. g[Len(t)] = a \o h[Len(d)]
  BY <1>1, <1>10 DEF S
<1> QED BY <1>2, <1>11 DEF t, g, h, Interpolate

\* What some tokens of a template become is followed by what the others become.
LEMMA InterpolationFrom ==
    ASSUME NEW t \in Text, NEW value, Fills(value, t), NEW c \in 0 .. Len(t)
    PROVE  LET d == SubSeq(t, c + 1, Len(t))
               x == Interpolate(t, value)
           IN  /\ d \in Text /\ Fills(value, d)
               /\ SubSeq(x, Reach(t, value, c) + 1, Len(x)) = Interpolate(d, value)
<1> DEFINE d == SubSeq(t, c + 1, Len(t))
           g == Interpolation(t, value)
           h == Interpolation(d, value)
           S == {k \in 0 .. Len(d) : g[c + k] = g[c] \o h[k]}
<1>1. Len(t) \in Nat /\ c \in Nat /\ DOMAIN t = 1 .. Len(t)
  BY DEF Text
<1>2. /\ d \in Text /\ Len(d) = Len(t) - c /\ DOMAIN d = 1 .. Len(d)
      /\ \A i \in 1 .. Len(d) : d[i] = t[c + i]
  <2> DEFINE n == c + 1
  <2>1. n \in 1 .. Len(t) + 1 /\ (Len(t) + 1) - n = Len(t) - c
    BY <1>1
  <2>2. \A i \in 1 .. Len(t) - c : (n + i) - 1 = c + i
    BY <1>1
  <2> HIDE DEF n
  <2>3. /\ SubSeq(t, n, Len(t)) \in Text
        /\ Len(SubSeq(t, n, Len(t))) = Len(t) - c
        /\ \A i \in 1 .. Len(t) - c : SubSeq(t, n, Len(t))[i] = t[(n + i) - 1]
    BY <2>1, FromIsText
  <2>4. DOMAIN SubSeq(t, n, Len(t)) = 1 .. Len(SubSeq(t, n, Len(t)))
    BY <2>3 DEF Text
  <2> QED BY <2>2, <2>3, <2>4 DEF n
<1> HIDE DEF d
<1>3. Fills(value, d)
  <2> SUFFICES ASSUME NEW i \in 1 .. Len(d), d[i] \in Slots PROVE value[d[i]] \in Text
    BY <1>2 DEF Fills
  <2>1. c + i \in 1 .. Len(t) /\ d[i] = t[c + i]
    BY <1>1, <1>2
  <2> QED BY <1>1, <2>1 DEF Fills
<1>4. h[0] = <<>> /\ \A k \in 1 .. Len(d) : h[k] = h[k - 1] \o Filled(d[k], value)
  BY <1>2, InterpolationIs
<1>5. \A i \in 1 .. Len(t) : g[i] = g[i - 1] \o Filled(t[i], value)
  BY InterpolationIs
<1>6. \A k \in 0 .. Len(d) : h[k] \in Text
  BY <1>2, <1>3, InterpolationIsText
<1>7. g[c] \in Text
  BY InterpolationIsText
<1> HIDE DEF g, h
<1>8. 0 \in S
  <2>1. g[c] \o <<>> = g[c] /\ c + 0 = c /\ 0 \in 0 .. Len(d)
    BY <1>1, <1>2, <1>7 DEF Text
  <2> QED BY <1>4, <2>1
<1>9. ASSUME NEW n \in 0 .. Len(d) - 1, n \in S PROVE n + 1 \in S
  <2>1. /\ n + 1 \in 1 .. Len(d) /\ (n + 1) - 1 = n /\ n + 1 \in 0 .. Len(d) /\ n \in 0 .. Len(d)
        /\ c + (n + 1) \in 1 .. Len(t) /\ (c + (n + 1)) - 1 = c + n
    BY <1>1, <1>2
  <2> DEFINE part == Filled(d[n + 1], value)
             u == h[n]
             a == g[c]
  <2>2. t[c + (n + 1)] = d[n + 1]
    BY <1>2, <2>1
  <2>3. part \in Text /\ u \in Text /\ a \in Text
    BY <1>2, <1>3, <1>6, <1>7, <2>1, FilledIsText
  <2>4. g[c + (n + 1)] = g[c + n] \o part /\ h[n + 1] = u \o part
    BY <1>4, <1>5, <2>1, <2>2
  <2>5. g[c + n] = a \o u
    BY <1>9
  <2> HIDE DEF part, u, a
  <2>6. (a \o u) \o part = a \o (u \o part)
    BY <2>3, JoinedTwice
  <2>7. g[c + (n + 1)] = g[c] \o h[n + 1]
    BY <2>4, <2>5, <2>6 DEF a
  <2> QED BY <2>1, <2>7
<1> HIDE DEF S
<1>10. 0 .. Len(d) \subseteq S
  <2>1. Len(d) \in Nat
    BY <1>1, <1>2
  <2> QED BY <1>8, <1>9, <2>1, InductionWithin
<1>11. Len(d) \in S /\ c + Len(d) = Len(t) /\ Len(d) \in 0 .. Len(d)
  BY <1>1, <1>2, <1>10
<1>12. g[Len(t)] = g[c] \o h[Len(d)] /\ h[Len(d)] \in Text
  BY <1>6, <1>11 DEF S
<1> DEFINE a == g[c]
           b == h[Len(d)]
<1>13. a \in Text /\ b \in Text
  BY <1>7, <1>12
<1> HIDE DEF a, b
<1>14. SubSeq(a \o b, Len(a) + 1, Len(a \o b)) = b
  BY <1>13 DEF Text
<1> QED BY <1>2, <1>3, <1>12, <1>14 DEF d, g, h, a, b, Interpolate, Reach

\* A template without placeholders before position n, and what it becomes.
LEMMA StaticThenRest ==
    ASSUME NEW t \in Text, NEW value, Fills(value, t), NEW n \in 1 .. Len(t) + 1,
           \A i \in 1 .. n - 1 : t[i] \notin Slots
    PROVE  LET x == Interpolate(t, value)
               v == Interpolate(SubSeq(t, n, Len(t)), value)
           IN  /\ v \in Text /\ Fills(value, SubSeq(t, n, Len(t)))
               /\ x \in Text /\ n <= Len(x) + 1
               /\ x = SubSeq(t, 1, n - 1) \o v
               /\ SubSeq(x, n, Len(x)) = v
               /\ \A i \in 1 .. n - 1 : x[i] = t[i]
<1> DEFINE a == SubSeq(t, 1, n - 1)
           d == SubSeq(t, n, Len(t))
           v == Interpolate(d, value)
           x == Interpolate(t, value)
<1>1. Len(t) \in Nat /\ SubSeq(t, 1, Len(t)) = t /\ DOMAIN t = 1 .. Len(t)
  BY DEF Text
<1>2. /\ a \in Text /\ Len(a) = n - 1
      /\ \A i \in 1 .. n - 1 : a[i] = t[i]
  BY <1>1 DEF Text
<1>3. /\ d \in Text /\ Len(d) = (Len(t) + 1) - n /\ DOMAIN d = 1 .. Len(d)
      /\ \A i \in 1 .. (Len(t) + 1) - n : d[i] = t[(n + i) - 1]
  BY <1>1 DEF Text
<1>4. t = a \o d
  <2> DEFINE m == n - 1
             one == 1
  <2>1. m \in Nat /\ one \in Nat \ {0} /\ (one + m) - 1 <= Len(t)
        /\ (one + m) - 1 = n - 1 /\ one + m = n
    BY <1>1
  <2> HIDE DEF m, one
  <2>2. SubSeq(t, one, Len(t)) = SubSeq(t, one, (one + m) - 1) \o SubSeq(t, one + m, Len(t))
    BY <2>1, PartThenRest
  <2>3. SubSeq(t, 1, Len(t)) = SubSeq(t, 1, n - 1) \o SubSeq(t, n, Len(t))
    BY <2>1, <2>2 DEF one
  <2> QED BY <1>1, <2>3 DEF a, d
<1> HIDE DEF a, d
<1>5. Fills(value, d)
  <2> SUFFICES ASSUME NEW i \in 1 .. Len(d), d[i] \in Slots PROVE value[d[i]] \in Text
    BY <1>3 DEF Fills
  <2>1. (n + i) - 1 \in DOMAIN t /\ d[i] = t[(n + i) - 1]
    BY <1>1, <1>3
  <2> QED BY <2>1 DEF Fills
<1>6. v \in Text
  BY <1>3, <1>5, InterpolationIsText
<1>7. \A i \in 1 .. Len(a) : a[i] \notin Slots
  BY <1>2
<1>8. x = a \o v
  <2>1. Interpolate(a \o d, value) = a \o Interpolate(d, value)
    BY <1>2, <1>3, <1>5, <1>7, AfterStatic
  <2> QED BY <1>4, <2>1
<1> HIDE DEF x, v
<1>9. /\ x \in Text /\ Len(x) = (n - 1) + Len(v) /\ Len(v) \in Nat
      /\ \A i \in 1 .. n - 1 : x[i] = t[i]
  <2>1. /\ a \o v \in Text /\ Len(v) \in Nat /\ Len(a \o v) = Len(a) + Len(v)
        /\ \A p \in 1 .. Len(a) : (a \o v)[p] = a[p]
    BY <1>2, <1>6, Joined
  <2> QED BY <1>2, <1>8, <2>1
<1>10. SubSeq(x, n, Len(x)) = v
  <2>1. n - 1 \in Nat /\ n = Len(a) + 1
    BY <1>1, <1>2
  <2>2. SubSeq(a \o v, Len(a) + 1, Len(a \o v)) = v
    BY <1>2, <1>6 DEF Text
  <2> QED BY <1>8, <2>1, <2>2
<1>11. n <= Len(x) + 1
  BY <1>1, <1>9
<1> QED BY <1>5, <1>6, <1>8, <1>9, <1>10, <1>11 DEF a, d, x, v

\* What hosts that leave the prompt alone hand over.
LEMMA RenderedCameFrom ==
    ASSUME NEW t \in Text, NEW value, Fills(value, t), NEW own,
           NEW f \in 1 .. Len(t), t[f] \in Slots,
           \A i \in 1 .. f - 1 : t[i] \notin Slots,
           \A i \in f .. Len(t) : t[i] \in own \cup Slots \cup {Blank},
           Anchored(t, f, own),
           \A i \in f .. Len(t) : t[i] \in Slots =>
              \A j \in DOMAIN value[t[i]] : value[t[i]][j] \notin own
    PROVE  CameFrom(t, value, f, f, own, Interpolate(t, value))
<1> DEFINE x == Interpolate(t, value)
           v == Interpolate(SubSeq(t, f, Len(t)), value)
<1>1. f \in 1 .. Len(t) + 1 /\ f \in Nat
  BY DEF Text
<1>2. /\ x \in Text /\ f <= Len(x) + 1
      /\ x = SubSeq(t, 1, f - 1) \o v
      /\ SubSeq(x, f, Len(x)) = v
  BY <1>1, StaticThenRest
<1>3. x = SubSeq(t, 1, f - 1) \o SubSeq(x, f, Len(x))
  BY <1>2
<1> HIDE DEF v
<1>4. f \in f .. Len(x) + 1 /\ \A p \in f .. f - 1 : x[p] = Blank
  BY <1>1, <1>2 DEF Text
<1> HIDE DEF x
<1> QED BY <1>3, <1>4 DEF CameFrom, x

LEMMA DropBlanksFrom ==
    ASSUME NEW x \in Text, NEW m \in 1 .. Len(x) + 1
    PROVE  \E n \in m .. Len(x) + 1 :
             /\ DropBlanks(SubSeq(x, m, Len(x))) = SubSeq(x, n, Len(x))
             /\ \A i \in m .. n - 1 : x[i] = Blank
             /\ n <= Len(x) => x[n] # Blank
<1> DEFINE u == SubSeq(x, m, Len(x))
<1>1. /\ u \in Text /\ Len(u) = (Len(x) + 1) - m /\ Len(x) \in Nat
      /\ \A i \in 1 .. (Len(x) + 1) - m : u[i] = x[(m + i) - 1]
  BY FromIsText DEF Text
<1>2. PICK k \in 1 .. Len(u) + 1 :
         /\ DropBlanks(u) = SubSeq(u, k, Len(u))
         /\ \A i \in 1 .. k - 1 : u[i] = Blank
         /\ k <= Len(u) => u[k] # Blank
  BY <1>1, DropBlanksIs
<1> DEFINE n == (m + k) - 1
<1>3. n \in m .. Len(x) + 1
  BY <1>1
<1>4. SubSeq(u, k, Len(u)) = SubSeq(x, n, Len(x))
  <2>1. k \in Nat \ {0} /\ Len(u) \in k - 1 .. (Len(x) + 1) - m /\ (m + Len(u)) - 1 = Len(x)
    BY <1>1
  <2> QED BY <2>1, PartOfRest
<1>5. ASSUME NEW i \in m .. n - 1 PROVE x[i] = Blank
  <2>1. (i - m) + 1 \in 1 .. k - 1 /\ (m + ((i - m) + 1)) - 1 = i
        /\ (i - m) + 1 \in 1 .. (Len(x) + 1) - m
    BY <1>1
  <2> HIDE DEF u
  <2> QED BY <1>1, <1>2, <2>1
<1>6. n <= Len(x) => x[n] # Blank
  <2>1. n <= Len(x) => k <= Len(u) /\ k \in 1 .. (Len(x) + 1) - m
    BY <1>1
  <2> HIDE DEF u
  <2> QED BY <1>1, <1>2, <2>1
<1> HIDE DEF n
<1> QED BY <1>2, <1>3, <1>4, <1>5, <1>6

\* What the host puts where the preamble was, and what follows it.
LEMMA AfterMarker ==
    ASSUME NEW w \in Text
    PROVE  LET all == <<Marker, Blank>> \o w
           IN  /\ all \in Text /\ Len(all) = 2 + Len(w)
               /\ all[1] = Marker /\ all[2] = Blank
               /\ \A i \in 1 .. Len(w) : all[2 + i] = w[i]
<1> DEFINE head == <<Marker, Blank>>
<1>1. head \in Text /\ Len(head) = 2 /\ head[1] = Marker /\ head[2] = Blank
  BY DEF Text, Tokens
<1>2. 1 \in 1 .. 2 /\ 2 \in 1 .. 2
  OBVIOUS
<1> HIDE DEF head
<1>3. /\ head \o w \in Text /\ Len(head \o w) = Len(head) + Len(w)
      /\ \A p \in 1 .. Len(head) : (head \o w)[p] = head[p]
      /\ \A p \in 1 .. Len(w) : (head \o w)[Len(head) + p] = w[p]
  BY <1>1, Joined
<1> QED BY <1>1, <1>2, <1>3 DEF head

\* A part of a template is anchored where the template is.
LEMMA AnchoredApart ==
    ASSUME NEW t, NEW u, NEW own, NEW shift \in Int, NEW f \in Nat,
           Len(t) \in Nat, Len(u) \in Nat, Len(u) + shift = Len(t), shift + f >= 1,
           \A i \in f .. Len(u) : u[i] = t[i + shift],
           Anchored(t, 1, own)
    PROVE  Anchored(u, f, own)
<1> SUFFICES ASSUME NEW i \in f .. Len(u) - 1, u[i] \in Slots, u[i + 1] \notin Slots
             PROVE  \E n \in i + 1 .. Len(u) :
                       /\ u[n] \in own \ Slots
                       /\ \A j \in i + 1 .. n - 1 : u[j] \notin own \cup Slots
  BY DEF Anchored
<1> DEFINE k == i + shift
<1>1. /\ i \in f .. Len(u) /\ i + 1 \in f .. Len(u) /\ i \in Nat
      /\ (i + 1) + shift = k + 1 /\ k \in 1 .. Len(t) - 1
  OBVIOUS
<1>2. u[i] = t[k] /\ u[i + 1] = t[k + 1]
  BY <1>1
<1>3. PICK m \in k + 1 .. Len(t) : /\ t[m] \in own \ Slots
                                   /\ \A j \in k + 1 .. m - 1 : t[j] \notin own \cup Slots
  <2> HIDE DEF k
  <2> QED BY <1>1, <1>2 DEF Anchored
<1> DEFINE n == m - shift
<1>4. n \in i + 1 .. Len(u) /\ n \in f .. Len(u) /\ n + shift = m
  <2>1. /\ m \in Int /\ m >= (i + shift) + 1 /\ m <= Len(u) + shift
        /\ i \in Nat /\ i >= f
    BY <1>1, <1>3
  <2>2. n \in Int /\ n >= i + 1 /\ n <= Len(u) /\ n + shift = m
    BY <2>1
  <2>3. i \in Nat /\ f \in Nat /\ i >= f /\ Len(u) \in Nat
    BY <2>1
  <2> HIDE DEF n
  <2> QED BY <2>2, <2>3
<1>5. ASSUME NEW j \in i + 1 .. n - 1 PROVE u[j] \notin own \cup Slots
  <2>1. j \in f .. Len(u) /\ j + shift \in k + 1 .. m - 1
    BY <1>1, <1>4
  <2> HIDE DEF k, n
  <2>2. u[j] = t[j + shift]
    BY <2>1
  <2> QED BY <1>3, <2>1, <2>2
<1> HIDE DEF k, n
<1>6. u[n] = t[m]
  BY <1>4
<1> QED BY <1>3, <1>4, <1>5, <1>6

\* What follows the preamble, behind the marker that hosts put in its place, and
\* the template it is then compared with: both without the white space they open with.
LEMMA MarkedCameFrom ==
    ASSUME NEW t \in Text, NEW value, Fills(value, t),
           NEW own, NEW s \in 1 .. Len(t), t[s] \in Slots,
           \A i \in 1 .. Len(t) : t[i] \in own \cup Slots \cup {Blank}, Anchored(t, 1, own),
           \A i \in 1 .. Len(t) : t[i] \in Slots =>
              \A j \in DOMAIN value[t[i]] : value[t[i]][j] \notin own
    PROVE  LET u == <<Marker, Blank>> \o DropBlanks(t)
               r == <<Marker, Blank>> \o DropBlanks(Interpolate(t, value))
           IN  \E f \in 3 .. Len(u) : \E y : CameFrom(u, value, f, y, own, r)
<1> DEFINE x == Interpolate(t, value)
           head == <<Marker, Blank>>
           u == head \o DropBlanks(t)
           r == head \o DropBlanks(x)
<1>1. Len(t) \in Nat
  BY DEF Text
<1>2. Blank \notin Slots /\ Marker \notin Slots
  BY TokensAreDistinct
<1>3. x \in Text /\ Len(x) \in Nat
  BY InterpolationIsText DEF Text
<1>5. PICK n \in 1 .. Len(t) + 1 :
         /\ DropBlanks(t) = SubSeq(t, n, Len(t))
         /\ \A i \in 1 .. n - 1 : t[i] = Blank
         /\ n <= Len(t) => t[n] # Blank
  BY DropBlanksIs
<1>6. PICK q \in 1 .. Len(x) + 1 :
         /\ DropBlanks(x) = SubSeq(x, q, Len(x))
         /\ \A i \in 1 .. q - 1 : x[i] = Blank
         /\ q <= Len(x) => x[q] # Blank
  BY <1>3, DropBlanksIs
<1>7. \A i \in 1 .. n - 1 : t[i] \notin Slots
  BY <1>2, <1>5
<1>8. n <= s /\ n \in 1 .. Len(t) /\ n <= Len(t)
  <2>1. ~(s \in 1 .. n - 1)
    BY <1>7
  <2> QED BY <1>1, <1>5, <2>1
<1> DEFINE d == SubSeq(t, n, Len(t))
           v == Interpolate(d, value)
<1>9. /\ v \in Text /\ Fills(value, d) /\ n <= Len(x) + 1
      /\ x = SubSeq(t, 1, n - 1) \o v
      /\ SubSeq(x, n, Len(x)) = v
      /\ \A i \in 1 .. n - 1 : x[i] = t[i]
  BY <1>7, StaticThenRest
<1>10. /\ d \in Text /\ Len(d) = (Len(t) + 1) - n
       /\ \A i \in 1 .. (Len(t) + 1) - n : d[i] = t[(n + i) - 1]
  BY <1>7, FromIsText
<1>11. u = head \o d /\ r = head \o SubSeq(x, q, Len(x))
  BY <1>5, <1>6
<1>12. q >= n
  <2> SUFFICES ASSUME q < n PROVE FALSE
    BY <1>1, <1>5, <1>6
  <2>1. q \in 1 .. n - 1 /\ q \in 1 .. n - 1 /\ q <= Len(x)
    BY <1>1, <1>3, <1>5, <1>6, <1>9
  <2> QED BY <1>5, <1>6, <1>9, <2>1
<1>13. /\ Len(v) = (Len(x) + 1) - n
       /\ \A i \in 1 .. (Len(x) + 1) - n : v[i] = x[(n + i) - 1]
  <2>1. n \in 1 .. Len(x) + 1
    BY <1>7, <1>9
  <2> HIDE DEF x, v
  <2>2. x \in Text /\ SubSeq(x, n, Len(x)) = v
    BY <1>3, <1>9
  <2>3. /\ Len(SubSeq(x, n, Len(x))) = (Len(x) + 1) - n
        /\ \A i \in 1 .. (Len(x) + 1) - n : SubSeq(x, n, Len(x))[i] = x[(n + i) - 1]
    BY <2>1, <2>2, FromIsText
  <2> QED BY <2>2, <2>3
<1> HIDE DEF d, x, u, r, v
<1>14. /\ head \in Text /\ Len(head) = 2 /\ head[1] = Marker /\ head[2] = Blank
       /\ \A i \in 1 .. Len(head) : head[i] \notin Slots
  BY <1>2 DEF Text, Tokens
<1>u. /\ u \in Text /\ Len(u) = 2 + Len(d) /\ u[1] = Marker /\ u[2] = Blank
      /\ \A p \in 1 .. Len(d) : u[2 + p] = d[p]
  <2>1. d \in Text /\ u = head \o d
    BY <1>10, <1>11
  <2> QED BY <2>1, AfterMarker
<1> HIDE DEF head
<1>15. /\ u \in Text /\ Len(u) = (Len(t) + 3) - n
       /\ u[1] \notin Slots /\ u[2] \notin Slots
       /\ \A i \in 3 .. Len(u) : u[i] = t[(n + i) - 3]
  <2>1. /\ u \in Text /\ Len(u) = 2 + Len(d)
        /\ \A p \in 1 .. Len(d) : u[2 + p] = d[p]
    BY <1>u
  <2>2. ASSUME NEW i \in 3 .. Len(u) PROVE u[i] = t[(n + i) - 3]
    <3>1. i - 2 \in 1 .. Len(d) /\ 2 + (i - 2) = i /\ (n + (i - 2)) - 1 = (n + i) - 3
      BY <1>1, <1>7, <1>10, <2>1
    <3>2. u[2 + (i - 2)] = d[i - 2]
      BY <2>1, <3>1
    <3>3. d[i - 2] = t[(n + (i - 2)) - 1]
      BY <1>10, <3>1
    <3> QED BY <3>1, <3>2, <3>3
  <2>3. u[1] \notin Slots /\ u[2] \notin Slots
    BY <1>2, <1>u
  <2>4. Len(u) = (Len(t) + 3) - n
    BY <1>1, <1>7, <1>10, <2>1
  <2> QED BY <2>1, <2>2, <2>3, <2>4
<1>16. Fills(value, u) /\ Interpolate(u, value) = head \o v
  <2>1. d \in Text /\ head \in Text /\ Fills(value, d) /\ u = head \o d
    BY <1>9, <1>10, <1>11, <1>14
  <2>2. \A i \in 1 .. Len(head) : head[i] \notin Slots
    BY <1>14, Zenon
  <2>3. /\ Fills(value, head \o d)
        /\ Interpolate(head \o d, value) = head \o Interpolate(d, value)
    BY <2>1, <2>2, AfterStatic
  <2> QED BY <2>1, <2>3 DEF v
<1>17. /\ \A i \in 3 .. Len(u) : u[i] \in own \cup Slots \cup {Blank}
       /\ \A i \in 3 .. Len(u) : u[i] \in Slots =>
             \A j \in DOMAIN value[u[i]] : value[u[i]][j] \notin own
  <2> SUFFICES ASSUME NEW i \in 3 .. Len(u)
               PROVE  /\ u[i] \in own \cup Slots \cup {Blank}
                      /\ u[i] \in Slots => \A j \in DOMAIN value[u[i]] : value[u[i]][j] \notin own
    OBVIOUS
  <2>1. (n + i) - 3 \in 1 .. Len(t) /\ u[i] = t[(n + i) - 3]
    BY <1>1, <1>7, <1>15
  <2> QED BY <2>1
<1>a. Anchored(u, 3, own)
  <2> DEFINE shift == n - 3
  <2>1. /\ Len(t) \in Nat /\ Len(u) \in Nat /\ Len(u) + shift = Len(t) /\ shift + 3 >= 1
        /\ shift \in Int /\ \A i \in 3 .. Len(u) : u[i] = t[i + shift]
    <3>1. \A i \in 3 .. Len(u) : (n + i) - 3 = i + shift
      BY <1>7
    <3>2. Len(u) \in Nat
      BY <1>15 DEF Text
    <3> QED BY <1>1, <1>7, <1>15, <3>1, <3>2
  <2> HIDE DEF shift
  <2> QED BY <2>1, AnchoredApart
<1>18. \E f \in 3 .. Len(u) : \E y : CameFrom(u, value, f, y, own, r)
  <2>1. CASE t[n] \in Slots
    <3> DEFINE y == 3 + (q - n)
               w == Interpolate(u, value)
    <3>1. 3 \in 3 .. Len(u) /\ 3 \in 1 .. Len(u) /\ u[3] \in Slots
      <4>1. 3 \in 3 .. Len(u) /\ 3 \in 1 .. Len(u) /\ (n + 3) - 3 = n
        BY <1>1, <1>7, <1>8, <1>15
      <4> QED BY <1>15, <2>1, <4>1
    <3>2. \A i \in 1 .. 3 - 1 : u[i] \notin Slots
      BY <1>15
    <3>3. /\ w \in Text /\ Len(w) = 2 + Len(v)
          /\ \A p \in 1 .. Len(v) : w[2 + p] = v[p]
        <4>1. v \in Text /\ w = <<Marker, Blank>> \o v
        BY <1>9, <1>16 DEF head
      <4> HIDE DEF w
      <4> QED BY <4>1, AfterMarker
    <3> HIDE DEF w
    <3>4. y \in 3 .. Len(w) + 1
      BY <1>3, <1>6, <1>7, <1>12, <1>13, <3>3
    <3>5. ASSUME NEW p \in 3 .. y - 1 PROVE w[p] = Blank
      <4>1. p - 2 \in 1 .. Len(v) /\ 2 + (p - 2) = p
        BY <1>3, <1>6, <1>7, <1>12, <1>13, <3>3, <3>4
      <4>2. w[p] = v[p - 2]
        BY <3>3, <4>1
      <4>3. v[p - 2] = x[(n + (p - 2)) - 1]
        BY <1>13, <4>1
      <4>4. (n + (p - 2)) - 1 \in 1 .. q - 1
        BY <1>1, <1>5, <1>6, <1>7, <1>12
      <4> QED BY <1>6, <4>2, <4>3, <4>4
    <3>6. SubSeq(u, 1, 3 - 1) = head
      <4>1. SubSeq(u, 1, 3 - 1) \in Text /\ Len(SubSeq(u, 1, 3 - 1)) = 2
            /\ \A i \in 1 .. 2 : SubSeq(u, 1, 3 - 1)[i] = u[i]
        BY <1>15, <3>1 DEF Text
      <4>2. \A i \in 1 .. 2 : u[i] = head[i]
        BY <1>14, <1>u
      <4> DEFINE e == SubSeq(u, 1, 3 - 1)
      <4>3. e \in Text /\ Len(e) = Len(head) /\ \A i \in 1 .. Len(e) : e[i] = head[i]
        BY <1>14, <4>1, <4>2
      <4> HIDE DEF e
      <4>4. e = head
        BY <1>14, <4>3, SameText
      <4> QED BY <4>4 DEF e
    <3>7. SubSeq(w, y, Len(w)) = SubSeq(x, q, Len(x))
      <4> DEFINE e == SubSeq(w, y, Len(w))
                 g == SubSeq(x, q, Len(x))
      <4>1. /\ e \in Text /\ Len(e) = (Len(w) + 1) - y
            /\ \A i \in 1 .. (Len(w) + 1) - y : e[i] = w[(y + i) - 1]
        <5>1. y \in 1 .. Len(w) + 1
          BY <3>4
        <5> HIDE DEF y
        <5> QED BY <3>3, <5>1, FromIsText
      <4>2. /\ g \in Text /\ Len(g) = (Len(x) + 1) - q
            /\ \A i \in 1 .. (Len(x) + 1) - q : g[i] = x[(q + i) - 1]
        <5>1. q \in 1 .. Len(x) + 1
          BY <1>1, <1>6
        <5> QED BY <1>3, <5>1, FromIsText
      <4> HIDE DEF e, g
      <4>3. Len(e) = Len(g)
        BY <1>3, <1>6, <1>7, <1>13, <3>3, <4>1, <4>2
      <4>4. ASSUME NEW i \in 1 .. Len(e) PROVE e[i] = g[i]
        <5> DEFINE k == ((y + i) - 1) - 2
        <5>1. /\ i \in 1 .. (Len(w) + 1) - y /\ i \in 1 .. (Len(x) + 1) - q
          BY <4>1, <4>2, <4>3, <4>4
        <5>2. /\ k \in 1 .. Len(v) /\ 2 + k = (y + i) - 1
              /\ (n + k) - 1 = (q + i) - 1
          <6>1. /\ Len(v) = (Len(x) + 1) - n /\ Len(w) = 2 + Len(v) /\ Len(x) \in Nat
                /\ n \in Nat /\ q \in Nat /\ n <= q /\ Len(w) \in Nat
            BY <1>1, <1>3, <1>6, <1>7, <1>12, <1>13, <3>3 DEF Text
          <6>2. i \in 1 .. (Len(w) + 1) - y
            BY <5>1
          <6> QED BY <6>1, <6>2
        <5> HIDE DEF k, y
        <5>3. w[2 + k] = v[k] /\ v[k] = x[(n + k) - 1]
          BY <1>13, <3>3, <5>2
        <5> QED BY <4>1, <4>2, <5>1, <5>2, <5>3
      <4>5. e = g
        BY <4>1, <4>2, <4>3, <4>4, SameText
      <4> QED BY <4>5 DEF e, g
    <3>8. r = SubSeq(u, 1, 3 - 1) \o SubSeq(w, y, Len(w))
      BY <1>11, <3>6, <3>7
    <3> HIDE DEF y
    <3>9. CameFrom(u, value, 3, y, own, r)
      BY <1>15, <1>16, <1>17, <1>a, <3>1, <3>2, <3>4, <3>5, <3>8 DEF CameFrom, w
    <3> QED BY <3>1, <3>9
  <2>2. CASE t[n] \notin Slots
    <3>1. n + 1 \in 1 .. Len(t) + 1 /\ \A i \in 1 .. (n + 1) - 1 : t[i] \notin Slots
      BY <1>1, <1>7, <1>8, <2>2
    <3>2. /\ n + 1 <= Len(x) + 1
          /\ \A i \in 1 .. (n + 1) - 1 : x[i] = t[i]
      BY <3>1, StaticThenRest DEF x
    <3>3. q = n
      <4>1. n <= Len(x) /\ n \in 1 .. (n + 1) - 1 /\ n \in 1 .. Len(x) + 1
        BY <1>1, <1>3, <1>5, <1>7, <3>2
      <4>2. x[n] # Blank
        BY <1>5, <1>8, <3>2, <4>1
      <4> SUFFICES ASSUME q > n PROVE FALSE
        BY <1>6, <1>7, <1>12
      <4>3. n \in 1 .. q - 1
        BY <1>6, <4>1
      <4> QED BY <1>6, <4>2, <4>3
    <3>4. r = Interpolate(u, value)
      BY <1>9, <1>11, <1>16, <3>3
    <3>5. PICK f \in 0 + 1 .. Len(u) + 1 : /\ f # Len(u) + 1 => u[f] \in Slots
                                           /\ \A j \in 0 + 1 .. f - 1 : u[j] \notin Slots
      <4>1. 0 \in 0 .. Len(u)
        BY <1>1, <1>7, <1>15
      <4> QED BY <1>15, <4>1, NextPlaceholder
    <3>6. f # Len(u) + 1
      <4> DEFINE k == (s + 3) - n
      <4>1. k \in 3 .. Len(u) /\ (n + k) - 3 = s /\ k \in 0 + 1 .. Len(u)
        BY <1>1, <1>7, <1>8, <1>15
      <4>2. u[k] \in Slots
        BY <1>15, <4>1
      <4> HIDE DEF k
      <4> QED BY <3>5, <4>1, <4>2
    <3>7. f \in 3 .. Len(u) /\ f \in 1 .. Len(u) /\ u[f] \in Slots
      <4>1. Len(u) \in Nat
        BY <1>15 DEF Text
      <4>2. f \in 1 .. Len(u) /\ u[f] \in Slots
        BY <3>5, <3>6, <4>1
      <4>3. f # 1 /\ f # 2
        BY <1>15, <4>2
      <4> QED BY <4>1, <4>2, <4>3
    <3>8. /\ \A i \in 1 .. f - 1 : u[i] \notin Slots
          /\ \A i \in f .. Len(u) : i \in 3 .. Len(u)
      BY <3>5, <3>7
    <3>9. CameFrom(u, value, f, f, own, Interpolate(u, value))
      <4>1. Anchored(u, f, own)
        <5>1. \A i \in f .. Len(u) - 1 : i \in 3 .. Len(u) - 1
          BY <1>15, <3>7 DEF Text
        <5> QED BY <1>a, <5>1 DEF Anchored
      <4> QED BY <1>15, <1>16, <1>17, <3>7, <3>8, <4>1, RenderedCameFrom
    <3> QED BY <3>4, <3>7, <3>9
  <2> QED BY <2>1, <2>2
<1>19. PICK f \in 3 .. Len(u) : \E y : CameFrom(u, value, f, y, own, r)
  BY <1>18
<1> QED BY <1>19 DEF u, r, x, head

-------------------------------------------------------------------------------
(***************************************************************************)
(* Where placeholders are apart and no value is blank, each turn finds     *)
(* exactly the value of its placeholder.                                   *)
(***************************************************************************)

\* The white space a text opens with does not change what trimming leaves.
LEMMA TrimFrom ==
    ASSUME NEW v \in Text, ~IsBlank(v), NEW k \in 1 .. Len(v) + 1,
           \A i \in 1 .. k - 1 : v[i] = Blank
    PROVE  LET w == SubSeq(v, k, Len(v))
           IN  w \in Text /\ ~IsBlank(w) /\ Trim(w) = Trim(v)
<1> DEFINE w == SubSeq(v, k, Len(v))
           a == Min(Visible(v))
           b == Max(Visible(v))
           c == Min(Visible(w))
           d == Max(Visible(w))
<1>1. /\ Len(v) \in Nat /\ DOMAIN v = 1 .. Len(v) /\ w \in Text
      /\ Len(w) = (Len(v) + 1) - k
      /\ \A i \in 1 .. (Len(v) + 1) - k : w[i] = v[(k + i) - 1]
  BY FromIsText DEF Text
<1>2. /\ a \in Visible(v) /\ b \in Visible(v)
      /\ \A i \in Visible(v) : a <= i /\ i <= b
  BY TrimIs
<1>3. DOMAIN w = 1 .. Len(w)
  <2> HIDE DEF w
  <2> QED BY <1>1 DEF Text
<1> HIDE DEF w
\* The visible tokens, in the one and in the other.
<1>4. ASSUME NEW i \in Visible(v) PROVE i \in k .. Len(v) /\ (i - k) + 1 \in Visible(w)
  <2>1. i \in 1 .. Len(v) /\ v[i] # Blank
    BY <1>1 DEF Visible
  <2>2. ~(i \in 1 .. k - 1)
    BY <2>1
  <2>3. i \in k .. Len(v) /\ (i - k) + 1 \in 1 .. (Len(v) + 1) - k /\ (k + ((i - k) + 1)) - 1 = i
    BY <1>1, <2>1, <2>2
  <2>4. w[(i - k) + 1] = v[i]
    BY <1>1, <2>3
  <2> QED BY <1>1, <1>3, <2>1, <2>3, <2>4 DEF Visible
<1>5. ASSUME NEW i \in Visible(w) PROVE i \in 1 .. Len(w) /\ (k + i) - 1 \in Visible(v)
  <2>1. i \in 1 .. Len(w) /\ w[i] # Blank
    BY <1>3 DEF Visible
  <2>2. (k + i) - 1 \in 1 .. Len(v) /\ w[i] = v[(k + i) - 1]
    BY <1>1, <2>1
  <2> QED BY <1>1, <2>1, <2>2 DEF Visible
<1>6. ~IsBlank(w)
  BY <1>2, <1>4 DEF IsBlank
<1>7. /\ c \in Visible(w) /\ d \in Visible(w)
      /\ \A i \in Visible(w) : c <= i /\ i <= d
  BY <1>1, <1>6, TrimIs
<1> HIDE DEF a, b, c, d
<1>8. c = (a - k) + 1 /\ d = (b - k) + 1
  <2>1. /\ a \in k .. Len(v) /\ (a - k) + 1 \in Visible(w)
        /\ b \in k .. Len(v) /\ (b - k) + 1 \in Visible(w)
    BY <1>2, <1>4
  <2>2. /\ c \in 1 .. Len(w) /\ (k + c) - 1 \in Visible(v)
        /\ d \in 1 .. Len(w) /\ (k + d) - 1 \in Visible(v)
    BY <1>5, <1>7
  <2>3. c <= (a - k) + 1 /\ (b - k) + 1 <= d
    BY <1>7, <2>1
  <2>4. a <= (k + c) - 1 /\ (k + d) - 1 <= b
    BY <1>2, <2>2
  <2> QED BY <1>1, <2>1, <2>2, <2>3, <2>4
<1>9. SubSeq(w, c, d) = SubSeq(v, a, b)
  <2>1. /\ c \in 1 .. Len(w) /\ d \in 1 .. Len(w) /\ c <= d
    BY <1>5, <1>7
  <2>2. c \in Nat \ {0} /\ d \in c - 1 .. (Len(v) + 1) - k
    BY <1>1, <2>1
  <2>3. SubSeq(SubSeq(v, k, Len(v)), c, d) = SubSeq(v, (k + c) - 1, (k + d) - 1)
    BY <2>2, PartOfRest
  <2>4. (k + c) - 1 = a /\ (k + d) - 1 = b
    <3>1. a \in k .. Len(v) /\ b \in k .. Len(v)
      BY <1>2, <1>4
    <3> QED BY <1>1, <1>8, <3>1
  <2> QED BY <2>3, <2>4 DEF w
<1>10. Trim(w) = SubSeq(w, c, d) /\ Trim(v) = SubSeq(v, a, b)
  BY <1>6 DEF Trim, a, b, c, d
<1> QED BY <1>1, <1>6, <1>9, <1>10 DEF w

SlotsApart(t) == \A i \in 1 .. Len(t) - 1 : t[i] \in Slots => t[i + 1] \notin Slots

\* The next segment lies right behind the value, and is empty only at the end.
LEMMA NextLies ==
    ASSUME NEW t, NEW value, NEW f, NEW y, NEW own, NEW r,
           CameFrom(t, value, f, y, own, r), SlotsApart(t),
           NEW i \in f .. Len(t), t[i] \in Slots
    PROVE  LET x == Interpolate(t, value)
               next == SegmentAfter(t, i)
           IN  /\ next = <<>> => i = Len(t)
               /\ LiesAt(x, Reach(t, value, i) + 1, next)
<1> DEFINE x == Interpolate(t, value)
           next == SegmentAfter(t, i)
           at == Reach(t, value, i)
<1>1. /\ t \in Text /\ Fills(value, t) /\ f \in 1 .. Len(t) /\ Len(t) \in Nat
      /\ x \in Text /\ Len(x) \in Nat
  BY InterpolationIsText DEF CameFrom, Text
<1>2. i \in Placeholders(t) /\ i \in 0 .. Len(t) /\ i \in Nat
  BY <1>1, SegmentIsOwn
<1>3. PICK n \in i + 1 .. Len(t) + 1 : /\ n # Len(t) + 1 => t[n] \in Slots
                                       /\ \A j \in i + 1 .. n - 1 : t[j] \notin Slots
  BY <1>1, <1>2, NextPlaceholder
<1>4. next = SubSeq(t, i + 1, n - 1)
  BY <1>1, <1>2, <1>3, SegmentsAre
<1> DEFINE m == n - 1
<1>5. m \in i .. Len(t) /\ \A j \in i + 1 .. m : t[j] \notin Slots
  BY <1>1, <1>2, <1>3
<1>6. /\ next = SubSeq(t, i + 1, m) /\ next \in Text /\ Len(next) = m - i
      /\ \A j \in 1 .. m - i : next[j] = t[i + j]
  BY <1>1, <1>2, <1>4, <1>5 DEF Text
<1>7. next = <<>> => i = Len(t)
  <2> SUFFICES ASSUME next = <<>>, i # Len(t) PROVE FALSE
    OBVIOUS
  <2>1. m = i
    BY <1>2, <1>5, <1>6
  <2>2. n = i + 1 /\ i \in 1 .. Len(t) - 1
    BY <1>1, <1>2, <1>3, <2>1
  <2>3. n # Len(t) + 1
    BY <1>1, <2>2
  <2> QED BY <1>3, <2>2, <2>3 DEF SlotsApart
<1> HIDE DEF m, x, at, next
<1>8. /\ Reach(t, value, i) \in Nat
      /\ Reach(t, value, m) = Reach(t, value, i) + (m - i)
      /\ \A j \in 1 .. m - i : Interpolate(t, value)[Reach(t, value, i) + j] = t[i + j]
  <2>1. /\ t \in Text /\ Fills(value, t) /\ i \in 0 .. Len(t) /\ m \in i .. Len(t)
        /\ \A j \in i + 1 .. m : t[j] \notin Slots
    BY <1>1, <1>2, <1>5
  <2> QED BY <2>1, StaticRun
<1>9. Reach(t, value, m) \in 0 .. Len(x)
  <2>1. m \in 1 .. Len(t)
    BY <1>1, <1>2, <1>5
  <2> QED BY <1>1, <2>1, FilledLies DEF x
<1>10. ((at + 1) + Len(next)) - 1 <= Len(x)
  <2>1. at \in Nat /\ m - i \in Nat /\ at + (m - i) <= Len(x)
    BY <1>1, <1>2, <1>5, <1>8, <1>9 DEF at
  <2>2. Len(next) = m - i
    BY <1>6
  <2> QED BY <1>1, <2>1, <2>2
<1>11. SubSeq(x, at + 1, ((at + 1) + Len(next)) - 1) = next
  <2> DEFINE e == SubSeq(x, at + 1, ((at + 1) + Len(next)) - 1)
  <2>1. at \in Nat /\ Len(next) \in Nat
    BY <1>2, <1>5, <1>6, <1>8 DEF at, Text
  <2>2. /\ e \in Text /\ Len(e) = Len(next)
        /\ \A j \in 1 .. Len(next) : e[j] = x[at + j]
    BY <1>1, <1>10, <2>1 DEF Text
  <2>3. \A j \in 1 .. Len(next) : x[at + j] = next[j]
    BY <1>6, <1>8 DEF at, x
  <2> HIDE DEF e
  <2>4. e = next
    BY <1>6, <2>2, <2>3, SameText
  <2> QED BY <2>4 DEF e
<1>12. LiesAt(x, at + 1, next)
  BY <1>10, <1>11 DEF LiesAt
<1> QED BY <1>7, <1>12 DEF x, at, next

\* Before the i-th token, in the white space a value may open with; and after it.
Waits(t, value, i, acc, from) ==
    /\ SegmentBefore(t, i) \in Text
    /\ from \in 1 .. Len(Interpolate(t, value)) + 1
    /\ from > Reach(t, value, i - 1)
    /\ \A p \in Reach(t, value, i - 1) + 1 .. from - 1 : Interpolate(t, value)[p] = Blank
    /\ acc.rest = SegmentBefore(t, i)
                    \o SubSeq(Interpolate(t, value), from, Len(Interpolate(t, value)))

Takes(t, value, i, acc) ==
    LET x == Interpolate(t, value)
        new == ExtractNext(t, acc, i)
    IN  /\ new.rest = SubSeq(x, Reach(t, value, i) + 1, Len(x))
        /\ new.regions = Append(acc.regions, Trim(value[t[i]]))

\* One turn, begun in the white space the value opens with.
LEMMA TurnTakesValue ==
    ASSUME NEW t, NEW value, NEW f, NEW y, NEW own, NEW r,
           CameFrom(t, value, f, y, own, r), SlotsApart(t),
           NEW i \in f .. Len(t), t[i] \in Slots, ~IsBlank(value[t[i]]),
           NEW acc, NEW from, Waits(t, value, i, acc, from)
    PROVE  Takes(t, value, i, acc)
<1>0. /\ SegmentBefore(t, i) \in Text
      /\ from \in 1 .. Len(Interpolate(t, value)) + 1
      /\ from > Reach(t, value, i - 1)
      /\ \A p \in Reach(t, value, i - 1) + 1 .. from - 1 : Interpolate(t, value)[p] = Blank
      /\ acc.rest = SegmentBefore(t, i)
                      \o SubSeq(Interpolate(t, value), from, Len(Interpolate(t, value)))
  BY Zenon DEF Waits
<1> SUFFICES LET x == Interpolate(t, value)
                 new == ExtractNext(t, acc, i)
             IN  /\ new.rest = SubSeq(x, Reach(t, value, i) + 1, Len(x))
                 /\ new.regions = Append(acc.regions, Trim(value[t[i]]))
  BY Zenon DEF Takes
<1> USE <1>0
<1> DEFINE x == Interpolate(t, value)
           next == SegmentAfter(t, i)
           new == ExtractNext(t, acc, i)
           v == value[t[i]]
           start == Reach(t, value, i - 1)
           end == Reach(t, value, i)
<1>1. /\ t \in Text /\ f \in 1 .. Len(t) /\ Len(t) \in Nat
      /\ x \in Text /\ Len(x) \in Nat
  <2>1. t \in Text /\ Fills(value, t) /\ f \in 1 .. Len(t)
    BY Zenon DEF CameFrom
  <2>2. x \in Text
    BY <2>1, InterpolationIsText
  <2> HIDE DEF x
  <2> QED BY <2>1, <2>2 DEF Text
<1>2. i \in Placeholders(t) /\ next \in Text
  BY SegmentIsOwn
<1>3. PICK z \in from .. Len(x) + 1 :
         /\ new.rest = SubSeq(x, z, Len(x))
         /\ new.regions = IF IsBlank(SubSeq(x, from, z - 1)) THEN acc.regions
                          ELSE Append(acc.regions, Trim(SubSeq(x, from, z - 1)))
         /\ z = Len(x) + 1 \/ (next # <<>> /\ LiesAt(x, z, next))
         /\ next # <<>> => \A q \in from .. z - 1 : ~LiesAt(x, q, next)
  BY <1>1, <1>2, TurnTaken
<1>4. /\ start \in Nat /\ v \in Text /\ end = start + Len(v) /\ end \in 0 .. Len(x)
      /\ \A j \in 1 .. Len(v) : x[start + j] = v[j]
  BY ValueLies
<1>5. z > end
  <2>1. from \in Nat /\ from >= Reach(t, value, i - 1) + 1
    <3>1. start \in Nat /\ from \in 1 .. Len(x) + 1 /\ from > start
      BY <1>4
    <3>2. Len(x) \in Nat
      BY <1>1
    <3> HIDE DEF x
    <3>3. from \in Nat /\ from >= start + 1
      <4> HIDE DEF start
      <4> QED BY <3>1, <3>2
    <3> QED BY <3>3
  <2> QED BY <1>3, <2>1, TurnPasses
<1>6. /\ next = <<>> => i = Len(t)
      /\ LiesAt(x, end + 1, next)
  BY NextLies
<1>7. /\ Len(v) \in Nat /\ DOMAIN v = 1 .. Len(v)
      /\ from \in 1 .. Len(x) + 1 /\ from \in Nat
  BY <1>1, <1>4 DEF Text
<1> HIDE DEF x, next, new, v, start, end
\* The turn begins before the first visible token of the value.
<1>8. from <= end
  <2> SUFFICES ASSUME from > end PROVE FALSE
    BY <1>1, <1>4
  <2>1. \A j \in 1 .. Len(v) : v[j] = Blank
    <3> SUFFICES ASSUME NEW j \in 1 .. Len(v) PROVE v[j] = Blank
      OBVIOUS
    <3>1. start + j \in start + 1 .. from - 1
      BY <1>1, <1>4, <1>7
    <3> QED BY <1>4, <3>1 DEF x, start
  <2>2. IsBlank(v)
    BY <1>7, <2>1 DEF IsBlank, Visible
  <2> QED BY <2>2 DEF v
<1>9. z = end + 1
  <2>1. CASE next = <<>>
    <3>1. z = Len(x) + 1 /\ i = Len(t)
      BY <1>3, <1>6, <2>1
    <3>2. end = Len(x)
      BY <3>1 DEF end, x, Reach, Interpolate
    <3> QED BY <3>1, <3>2
  <2>2. CASE next # <<>>
    <3>1. ~(end + 1 \in from .. z - 1)
      BY <1>3, <1>6, <2>2
    <3>2. end \in Nat /\ z \in Nat
      BY <1>1, <1>4, <1>7
    <3> QED BY <1>5, <1>7, <1>8, <3>1, <3>2
  <2> QED BY <2>1, <2>2
<1> HIDE <1>0
<1>a. /\ start \in Nat /\ Len(v) \in Nat /\ end = start + Len(v) /\ end <= Len(x)
      /\ Len(x) \in Nat /\ from \in Nat /\ from >= start + 1 /\ from <= end
  <2>1. from > start
    BY <1>0 DEF start
  <2>2. end <= Len(x) /\ end = start + Len(v) /\ start \in Nat
    BY <1>1, <1>4
  <2>3. Len(x) \in Nat /\ Len(v) \in Nat /\ from \in Nat
    BY <1>1, <1>7
  <2>4. from >= start + 1
    BY <2>1, <2>2, <2>3
  <2> QED BY <1>8, <2>2, <2>3, <2>4
<1> DEFINE k == from - start
<1>10. k \in 1 .. Len(v) + 1 /\ from = start + k
  BY <1>a
<1>11. \A j \in 1 .. k - 1 : v[j] = Blank
  <2> SUFFICES ASSUME NEW j \in 1 .. k - 1 PROVE v[j] = Blank
    OBVIOUS
  <2>1. start + j \in start + 1 .. from - 1 /\ j \in 1 .. Len(v)
    BY <1>10, <1>a
  <2>2. x[start + j] = Blank
    BY <1>0, <2>1 DEF x, start
  <2> QED BY <1>4, <2>1, <2>2
<1> HIDE DEF k
<1>12. SubSeq(x, from, end) = SubSeq(v, k, Len(v))
  <2> DEFINE a == SubSeq(x, from, end)
             b == SubSeq(v, k, Len(v))
  <2>1. /\ a \in Text /\ Len(a) = (end + 1) - from
        /\ \A j \in 1 .. (end + 1) - from : a[j] = x[(from + j) - 1]
    <3>1. from \in Nat \ {0} /\ end \in from - 1 .. Len(x)
      BY <1>a
    <3> QED BY <1>1, <3>1, PartIsText
  <2>2. /\ b \in Text /\ Len(b) = (Len(v) + 1) - k
        /\ \A j \in 1 .. (Len(v) + 1) - k : b[j] = v[(k + j) - 1]
    BY <1>4, <1>10, FromIsText
  <2> HIDE DEF a, b
  <2>3. Len(a) = Len(b)
    BY <1>1, <1>4, <1>7, <1>10, <2>1, <2>2
  <2>4. ASSUME NEW j \in 1 .. Len(a) PROVE a[j] = b[j]
    <3>1. j \in 1 .. (end + 1) - from /\ j \in 1 .. (Len(v) + 1) - k
      BY <2>1, <2>2, <2>3
    <3>2. (k + j) - 1 \in 1 .. Len(v) /\ (from + j) - 1 = start + ((k + j) - 1)
      <4>1. k \in 1 .. Len(v) + 1 /\ start \in Nat /\ Len(v) \in Nat /\ from = start + k
        BY <1>10, <1>a
      <4>2. j \in 1 .. (Len(v) + 1) - k
        BY <3>1
      <4> HIDE DEF a, b
      <4>3. k \in Nat /\ j \in Nat /\ k >= 1 /\ j >= 1 /\ (k + j) - 1 <= Len(v)
        BY <4>1, <4>2
      <4> QED BY <4>1, <4>3
    <3>3. x[start + ((k + j) - 1)] = v[(k + j) - 1]
      BY <1>4, <3>2
    <3> QED BY <2>1, <2>2, <3>1, <3>2, <3>3
  <2>5. a = b
    BY <2>1, <2>2, <2>3, <2>4, SameText
  <2> QED BY <2>5 DEF a, b
<1>13. ~IsBlank(SubSeq(v, k, Len(v))) /\ Trim(SubSeq(v, k, Len(v))) = Trim(v)
  <2>1. ~IsBlank(v)
    BY DEF v
  <2> QED BY <1>4, <1>10, <1>11, <2>1, TrimFrom
<1>14. (end + 1) - 1 = end
  BY <1>4
<1>15. new.rest = SubSeq(x, end + 1, Len(x)) /\ new.regions = Append(acc.regions, Trim(v))
  BY <1>3, <1>9, <1>12, <1>13, <1>14
<1> QED BY <1>15 DEF x, new, v, end

\* The regions are the values of the placeholders up to i, in their order: e[k]
\* is the position of the placeholder whose value the k-th region is.
InOrder(regions, t, value, f, i, e) ==
    /\ e \in [DOMAIN regions -> {s \in f .. i : t[s] \in Slots}]
    /\ \A s \in f .. i : t[s] \in Slots => \E k \in DOMAIN regions : e[k] = s
    /\ \A k \in DOMAIN regions : regions[k] = Trim(value[t[e[k]]])
    /\ \A k \in DOMAIN regions : \A j \in DOMAIN regions : j < k => e[j] < e[k]

LEMMA InOrderStays ==
    ASSUME NEW t, NEW value, NEW f \in Nat, NEW i \in Nat, t[i + 1] \notin Slots,
           NEW regions, NEW e, InOrder(regions, t, value, f, i, e)
    PROVE  InOrder(regions, t, value, f, i + 1, e)
<1>1. {s \in f .. i + 1 : t[s] \in Slots} = {s \in f .. i : t[s] \in Slots}
  <2>1. \A s \in f .. i + 1 : s = i + 1 \/ s \in f .. i
    OBVIOUS
  <2>2. \A s \in f .. i : s \in f .. i + 1
    OBVIOUS
  <2> QED BY <2>1, <2>2
<1>2. \A s \in f .. i + 1 : t[s] \in Slots => s \in f .. i
  BY <1>1
<1> QED BY <1>1, <1>2 DEF InOrder

LEMMA InOrderExtends ==
    ASSUME NEW t, NEW value, NEW f \in Nat, NEW i \in Nat, t[i + 1] \in Slots, f <= i + 1,
           NEW regions \in Seq(Text), Trim(value[t[i + 1]]) \in Text,
           NEW e, InOrder(regions, t, value, f, i, e)
    PROVE  \E d : InOrder(Append(regions, Trim(value[t[i + 1]])), t, value, f, i + 1, d)
<1> DEFINE piece == Trim(value[t[i + 1]])
           new == Append(regions, piece)
           n == Len(regions) + 1
           d == [k \in DOMAIN new |-> IF k = n THEN i + 1 ELSE e[k]]
<1>1. /\ n \in Nat /\ DOMAIN regions = 1 .. n - 1 /\ DOMAIN new = 1 .. n
      /\ n \in DOMAIN new /\ new[n] = piece
      /\ \A k \in DOMAIN regions : k # n /\ k \in DOMAIN new /\ new[k] = regions[k]
      /\ \A k \in DOMAIN new : k = n \/ k \in DOMAIN regions
  OBVIOUS
<1> HIDE DEF n, new, piece
<1>2. d[n] = i + 1 /\ \A k \in DOMAIN regions : d[k] = e[k]
  BY <1>1
<1>3. d \in [DOMAIN new -> {s \in f .. i + 1 : t[s] \in Slots}]
  <2> SUFFICES ASSUME NEW k \in DOMAIN new
               PROVE  (IF k = n THEN i + 1 ELSE e[k]) \in {s \in f .. i + 1 : t[s] \in Slots}
    OBVIOUS
  <2>1. CASE k = n
    BY <2>1
  <2>2. CASE k # n
    <3>1. e[k] \in {s \in f .. i : t[s] \in Slots}
      BY <1>1, <2>2 DEF InOrder
    <3> QED BY <2>2, <3>1
  <2> QED BY <2>1, <2>2
<1> HIDE DEF d
<1>4. ASSUME NEW s \in f .. i + 1, t[s] \in Slots PROVE \E k \in DOMAIN new : d[k] = s
  <2>1. CASE s = i + 1
    BY <1>1, <1>2, <2>1
  <2>2. CASE s \in f .. i
    <3>1. PICK k \in DOMAIN regions : e[k] = s
      BY <1>4, <2>2 DEF InOrder
    <3> QED BY <1>1, <1>2, <3>1
  <2> QED BY <2>1, <2>2
<1>5. ASSUME NEW k \in DOMAIN new PROVE new[k] = Trim(value[t[d[k]]])
  <2>1. CASE k = n
    BY <1>1, <1>2, <2>1 DEF piece
  <2>2. CASE k \in DOMAIN regions
    BY <1>1, <1>2, <2>2 DEF InOrder
  <2> QED BY <1>1, <2>1, <2>2
<1>6. ASSUME NEW k \in DOMAIN new, NEW j \in DOMAIN new, j < k PROVE d[j] < d[k]
  <2>1. j \in DOMAIN regions
    BY <1>1, <1>6
  <2>2. e[j] \in f .. i
    BY <2>1 DEF InOrder
  <2>3. CASE k = n
    BY <1>2, <2>1, <2>2, <2>3
  <2>4. CASE k \in DOMAIN regions
    <3>1. e[j] < e[k]
      BY <1>6, <2>1, <2>4 DEF InOrder
    <3> QED BY <1>2, <2>1, <2>4, <3>1
  <2> QED BY <1>1, <2>3, <2>4
<1>7. InOrder(new, t, value, f, i + 1, d)
  BY <1>3, <1>4, <1>5, <1>6 DEF InOrder
<1> QED BY <1>7 DEF new, piece

\* After the i-th token: all that is left starts behind the last value.
TakenTo(t, value, f, i, acc, o, e) ==
    LET x == Interpolate(t, value)
    IN  /\ o \in f .. i /\ t[o] \in Slots
        /\ \A j \in o + 1 .. i : t[j] \notin Slots
        /\ acc.rest = SubSeq(x, Reach(t, value, o) + 1, Len(x))
        /\ acc.regions \in Seq(Text)
        /\ InOrder(acc.regions, t, value, f, i, e)

LEMMA ValuesAreTaken ==
    ASSUME NEW t, NEW value, NEW f, NEW y, NEW own, NEW r,
           CameFrom(t, value, f, y, own, r), SlotsApart(t),
           \A i \in f .. Len(t) : t[i] \in Slots => ~IsBlank(value[t[i]])
    PROVE  \E o, e : TakenTo(t, value, f, Len(t), Extraction(t, r)[Len(t)], o, e)
<1> DEFINE x == Interpolate(t, value)
           g == Extraction(t, r)
           S == {i \in f .. Len(t) : \E o, e : TakenTo(t, value, f, i, g[i], o, e)}
<1>1. /\ t \in Text /\ x \in Text /\ Len(x) \in Nat /\ Len(t) \in Nat /\ f \in 1 .. Len(t)
      /\ Fills(value, t) /\ t[f] \in Slots
      /\ \A j \in 1 .. f - 1 : t[j] \notin Slots
      /\ y \in f .. Len(x) + 1
      /\ \A p \in f .. y - 1 : x[p] = Blank
      /\ r = SubSeq(t, 1, f - 1) \o SubSeq(x, y, Len(x))
  BY InterpolationIsText DEF CameFrom, Text
<1>2. \A i \in 1 .. Len(t) :
         g[i] = IF t[i] \in Slots THEN ExtractNext(t, g[i - 1], i) ELSE g[i - 1]
  <2>1. t \in Text
    BY <1>1
  <2> QED BY <2>1, ExtractionIs
<1>3. g[f - 1] = [rest |-> r, regions |-> <<>>]
  BY <1>1, BeforeTheFirst
<1>4. \A i \in f .. Len(t) : t[i] \in Slots => Trim(value[t[i]]) \in Text
  <2> SUFFICES ASSUME NEW i \in f .. Len(t), t[i] \in Slots PROVE Trim(value[t[i]]) \in Text
    OBVIOUS
  <2>1. value[t[i]] \in Text /\ ~IsBlank(value[t[i]])
    BY ValueLies
  <2> QED BY <2>1, TrimIs
<1> HIDE DEF g
<1>5. f \in S
  <2>1. f \in f .. Len(t) /\ f \in Placeholders(t)
    BY <1>1 DEF Placeholders, Text
  <2>2. SegmentBefore(t, f) = SubSeq(t, 1, f - 1) /\ SubSeq(t, 1, f - 1) \in Text
    <3>1. 0 \in 0 .. f - 1 /\ \A j \in 0 + 1 .. f - 1 : t[j] \notin Slots
      BY <1>1
    <3>2. SegmentBefore(t, f) = SubSeq(t, 0 + 1, f - 1)
      BY <1>1, <2>1, <3>1, SegmentsAre
    <3> QED BY <1>1, <3>2 DEF Text
  <2>3. Reach(t, value, f - 1) = f - 1
    BY FirstReach
  <2> DEFINE acc == g[f - 1]
             new == ExtractNext(t, acc, f)
  <2>4. acc.rest = r /\ acc.regions = <<>>
    BY <1>3
  <2>5. g[f] = new
    BY <1>1, <1>2
  <2> HIDE DEF acc
  <2>6. /\ new.rest = SubSeq(x, Reach(t, value, f) + 1, Len(x))
        /\ new.regions = Append(acc.regions, Trim(value[t[f]]))
    <3>1. acc.rest = SegmentBefore(t, f) \o SubSeq(x, y, Len(x))
      <4> HIDE DEF x
      <4> QED BY <1>1, <2>2, <2>4 DEF x
    <3>2. y \in 1 .. Len(x) + 1 /\ y > Reach(t, value, f - 1)
          /\ \A p \in Reach(t, value, f - 1) + 1 .. y - 1 : x[p] = Blank
      BY <1>1, <2>3
    <3>3. SegmentBefore(t, f) \in Text /\ ~IsBlank(value[t[f]])
      BY <1>1, <2>1, <2>2
    <3>4. Waits(t, value, f, acc, y)
      BY <3>1, <3>2, <3>3, Zenon DEF Waits
    <3>5. Takes(t, value, f, acc)
      BY <1>1, <2>1, <3>3, <3>4, TurnTakesValue
    <3> QED BY <3>5, Zenon DEF Takes
  <2> DEFINE none == <<>>
             i == f - 1
             d == [k \in DOMAIN none |-> 0]
  <2>7. i \in Nat /\ f \in Nat /\ i + 1 = f /\ f <= i + 1 /\ none \in Seq(Text) /\ DOMAIN none = {}
    BY <1>1
  <2>8. InOrder(none, t, value, f, i, d)
    <3>1. \A s \in f .. i : FALSE
      BY <2>7
    <3> HIDE DEF none, i
    <3>2. d \in [DOMAIN none -> {s \in f .. i : t[s] \in Slots}]
      BY <2>7
    <3> HIDE DEF d
    <3> QED BY <2>7, <3>1, <3>2 DEF InOrder
  <2> HIDE DEF none, i, d
  <2>9. \E e : InOrder(Append(none, Trim(value[t[i + 1]])), t, value, f, i + 1, e)
    BY <1>1, <1>4, <2>1, <2>7, <2>8, InOrderExtends
  <2>10. PICK e : InOrder(Append(none, Trim(value[t[f]])), t, value, f, f, e)
    BY <2>7, <2>9
  <2>11. new.regions = Append(none, Trim(value[t[f]])) /\ new.regions \in Seq(Text)
    <3>1. new.regions = Append(none, Trim(value[t[f]]))
      BY <2>4, <2>6 DEF none
    <3>2. Trim(value[t[f]]) \in Text
      BY <1>1, <1>4, <2>1
    <3> DEFINE piece == Trim(value[t[f]])
    <3> HIDE DEF piece, new
    <3>3. Append(none, piece) \in Seq(Text)
      BY <2>7, <3>2 DEF piece
    <3> QED BY <3>1, <3>3 DEF piece
  <2>12. f \in f .. f /\ \A j \in f + 1 .. f : t[j] \notin Slots
    BY <1>1
  <2> HIDE DEF new
  <2>13. TakenTo(t, value, f, f, new, f, e)
    BY <1>1, <2>6, <2>10, <2>11, <2>12, Zenon DEF TakenTo
  <2> QED BY <2>1, <2>5, <2>13
<1>6. ASSUME NEW n \in f .. Len(t) - 1, n \in S PROVE n + 1 \in S
  <2> DEFINE i == n + 1
             acc == g[n]
  <2>1. i \in f .. Len(t) /\ i \in 1 .. Len(t) /\ i - 1 = n /\ n \in Nat /\ n < i /\ f \in Nat
    BY <1>1
  <2>2. g[i] = IF t[i] \in Slots THEN ExtractNext(t, acc, i) ELSE acc
    BY <1>2, <2>1
  <2>3. PICK o, e : TakenTo(t, value, f, n, acc, o, e)
    BY <1>6
  <2> DEFINE next == SegmentAfter(t, o)
             end == Reach(t, value, o)
  <2>4. /\ o \in f .. n /\ t[o] \in Slots
        /\ \A j \in o + 1 .. n : t[j] \notin Slots
        /\ acc.rest = SubSeq(x, end + 1, Len(x))
        /\ acc.regions \in Seq(Text)
        /\ InOrder(acc.regions, t, value, f, n, e)
    BY <2>3, Zenon DEF TakenTo
  <2>o. o \in Nat /\ o \in f .. Len(t)
    BY <2>1, <2>4
  <2> HIDE DEF i, acc
  <2>5. CASE t[i] \notin Slots
    <3>1. g[i] = acc
      BY <2>2, <2>5
    <3>2. o \in f .. i /\ \A j \in o + 1 .. i : t[j] \notin Slots
      <4>1. \A j \in o + 1 .. i : j = i \/ j \in o + 1 .. n
        BY <2>1, <2>o, <2>4
      <4> QED BY <2>1, <2>4, <2>5, <4>1
    <3>3. InOrder(acc.regions, t, value, f, i, e)
      BY <2>1, <2>4, <2>5, InOrderStays DEF i
    <3>4. TakenTo(t, value, f, i, acc, o, e)
      BY <2>4, <3>2, <3>3, Zenon DEF TakenTo
    <3> QED BY <2>1, <3>1, <3>4 DEF i
  <2>6. CASE t[i] \in Slots
    <3>1. i \in Placeholders(t) /\ o \in Placeholders(t) /\ next \in Text
      BY <2>o, <2>1, <2>4, <2>6, SegmentIsOwn
    <3>2. SegmentBefore(t, i) = next /\ next = SubSeq(t, o + 1, n)
      <4>1. o \in 0 .. i - 1 /\ i \in o + 1 .. Len(t) + 1
        BY <2>o, <2>1, <2>4
      <4>2. SegmentBefore(t, i) = SubSeq(t, o + 1, i - 1)
        BY <1>1, <2>1, <2>4, <3>1, <4>1, SegmentsAre
      <4>3. next = SubSeq(t, o + 1, i - 1)
        <5>1. t \in Text /\ \A j \in o + 1 .. i - 1 : t[j] \notin Slots
          BY <1>1, <2>1, <2>4
        <5> QED BY <2>6, <3>1, <4>1, <5>1, SegmentsAre
      <4> QED BY <2>1, <4>2, <4>3
    <3>3. LiesAt(x, end + 1, next)
      BY <2>o, <2>4, NextLies
    <3>4. Len(next) = n - o /\ Len(next) \in Nat
      BY <1>1, <2>o, <2>1, <2>4, <3>2 DEF Text
    <3>5. /\ end \in Nat /\ end \in 0 .. Len(x)
          /\ Reach(t, value, n) = end + (n - o)
      <4>1. /\ o \in 0 .. Len(t) /\ n \in o .. Len(t)
        BY <1>1, <2>o, <2>1, <2>4
      <4>2. /\ Reach(t, value, n) = Reach(t, value, o) + (n - o)
        BY <1>1, <2>4, <4>1, StaticRun
      <4>3. Reach(t, value, o) \in 0 .. Len(x)
        BY <2>o, <2>4, ValueLies
      <4> QED BY <4>2, <4>3
    <3> DEFINE from == (end + 1) + Len(next)
    <3> HIDE DEF x, next, end
    <3>6. /\ SubSeq(x, end + 1, ((end + 1) + Len(next)) - 1) = next
          /\ ((end + 1) + Len(next)) - 1 <= Len(x)
      BY <3>3 DEF LiesAt
    <3>7. from \in 1 .. Len(x) + 1 /\ from > Reach(t, value, i - 1) /\ from - 1 = Reach(t, value, i - 1)
      <4>1. /\ Len(x) \in Nat /\ o \in Nat /\ n \in Nat /\ o <= n
            /\ ((end + 1) + Len(next)) - 1 <= Len(x)
        BY <1>1, <2>o, <2>1, <2>4, <3>6
      <4>2. Reach(t, value, i - 1) = end + (n - o)
        BY <2>1, <3>5
      <4>3. end \in Nat
        BY <3>5
      <4> QED BY <3>4, <4>1, <4>2, <4>3
    <3>8. acc.rest = next \o SubSeq(x, from, Len(x))
      <4>1. /\ x \in Text /\ end + 1 \in Nat \ {0} /\ Len(next) \in Nat
            /\ ((end + 1) + Len(next)) - 1 <= Len(x)
        BY <1>1, <3>4, <3>5, <3>6
      <4>2. SubSeq(x, end + 1, Len(x))
              = SubSeq(x, end + 1, ((end + 1) + Len(next)) - 1) \o SubSeq(x, from, Len(x))
        BY <4>1, PartThenRest
      <4> QED BY <2>4, <3>6, <4>2
    <3> DEFINE new == ExtractNext(t, acc, i)
    <3> HIDE DEF from
    <3>9. /\ new.rest = SubSeq(x, Reach(t, value, i) + 1, Len(x))
          /\ new.regions = Append(acc.regions, Trim(value[t[i]]))
      <4>1. acc.rest = SegmentBefore(t, i) \o SubSeq(x, from, Len(x)) /\ SegmentBefore(t, i) \in Text
        BY <3>1, <3>2, <3>8
      <4>2. /\ ~IsBlank(value[t[i]])
            /\ \A p \in Reach(t, value, i - 1) + 1 .. from - 1 : x[p] = Blank
        <5>1. Reach(t, value, i - 1) \in Nat
          BY <2>1, <2>6, ValueLies
        <5> QED BY <2>1, <2>6, <3>7, <5>1
      <4>3. Waits(t, value, i, acc, from)
        BY <3>7, <4>1, <4>2, Zenon DEF Waits, x
      <4>4. Takes(t, value, i, acc)
        BY <2>1, <2>6, <4>2, <4>3, TurnTakesValue
      <4> QED BY <4>4, Zenon DEF Takes, x
    <3>10. g[i] = new
      BY <2>2, <2>6
    <3> HIDE DEF new
    <3>11. Trim(value[t[i]]) \in Text
      BY <1>4, <2>1, <2>6
    <3> DEFINE old == acc.regions
               piece == Trim(value[t[i]])
    <3>12. \E d : InOrder(Append(old, Trim(value[t[n + 1]])), t, value, f, n + 1, d)
      <4>1. /\ old \in Seq(Text) /\ InOrder(old, t, value, f, n, e) /\ f <= n + 1
            /\ t[n + 1] \in Slots /\ Trim(value[t[n + 1]]) \in Text
        BY <2>1, <2>4, <2>6, <3>11 DEF i
      <4> HIDE DEF old
      <4> QED BY <2>1, <4>1, InOrderExtends
    <3>13. PICK d : InOrder(Append(old, piece), t, value, f, i, d)
      BY <3>12 DEF i
    <3> HIDE DEF old, piece
    <3>14. Append(old, piece) \in Seq(Text)
      <4>1. old \in Seq(Text) /\ piece \in Text
        BY <2>4, <3>11 DEF old, piece
      <4> QED BY <4>1
    <3>15. new.regions = Append(old, piece)
      BY <3>9 DEF old, piece
    <3>16. i \in f .. i /\ \A j \in i + 1 .. i : t[j] \notin Slots
      BY <2>1
    <3>17. TakenTo(t, value, f, i, new, i, d)
      BY <2>6, <3>9, <3>13, <3>14, <3>15, <3>16, Zenon DEF TakenTo, x
    <3> QED BY <2>1, <3>10, <3>17 DEF i
  <2> QED BY <2>5, <2>6
<1> HIDE DEF S
<1>7. f .. Len(t) \subseteq S
  <2>1. f \in Nat
    BY <1>1
  <2> QED BY <1>1, <1>5, <1>6, <2>1, InductionWithin
<1>8. Len(t) \in S
  <2>1. Len(t) \in f .. Len(t)
    BY <1>1
  <2> QED BY <1>7, <2>1
<1> QED BY <1>8 DEF S, g

LEMMA RegionsInOrder ==
    ASSUME NEW t, NEW value, NEW f, NEW y, NEW own, NEW r,
           CameFrom(t, value, f, y, own, r), SlotsApart(t),
           \A i \in f .. Len(t) : t[i] \in Slots => ~IsBlank(value[t[i]])
    PROVE  /\ ExtractUntrustedRegions(t, r) \in Seq(Text)
           /\ \E e : InOrder(ExtractUntrustedRegions(t, r), t, value, f, Len(t), e)
<1>1. PICK o, e : TakenTo(t, value, f, Len(t), Extraction(t, r)[Len(t)], o, e)
  BY ValuesAreTaken
<1>2. /\ Extraction(t, r)[Len(t)].regions \in Seq(Text)
      /\ InOrder(Extraction(t, r)[Len(t)].regions, t, value, f, Len(t), e)
  BY <1>1, Zenon DEF TakenTo
<1> QED BY <1>2, Zenon DEF ExtractUntrustedRegions

\* Without a placeholder there is nothing to find.
LEMMA NoPlaceholderNoRegion ==
    ASSUME NEW t \in Text, NEW r, \A i \in 1 .. Len(t) : t[i] \notin Slots
    PROVE  ExtractUntrustedRegions(t, r) = <<>>
<1> DEFINE g == Extraction(t, r)
           start == [rest |-> r, regions |-> <<>>]
           S == {i \in 0 .. Len(t) : g[i] = start}
<1>1. Len(t) \in Nat
  BY DEF Text
<1>2. g[0] = start
  BY ExtractionIs
<1>3. \A i \in 1 .. Len(t) :
         g[i] = IF t[i] \in Slots THEN ExtractNext(t, g[i - 1], i) ELSE g[i - 1]
  BY ExtractionIs
<1> HIDE DEF g, start
<1>4. 0 \in S
  BY <1>1, <1>2
<1>5. ASSUME NEW n \in 0 .. Len(t) - 1, n \in S PROVE n + 1 \in S
  <2>1. n + 1 \in 1 .. Len(t) /\ (n + 1) - 1 = n /\ n + 1 \in 0 .. Len(t)
    BY <1>1
  <2> QED BY <1>3, <1>5, <2>1
<1> HIDE DEF S
<1>6. 0 .. Len(t) \subseteq S
  BY <1>1, <1>4, <1>5, InductionWithin
<1>7. Len(t) \in S
  BY <1>1, <1>6
<1> QED BY <1>7 DEF S, g, start, ExtractUntrustedRegions

-------------------------------------------------------------------------------
(***************************************************************************)
(* What the analysis makes of a template and of the prompt the host        *)
(* rendered from it.                                                       *)
(***************************************************************************)
\* The template the prompt is compared with, and the regions found.
Reference(t, r) ==
    IF AnalyzeFrameworkScaffolding(r, t) = "template" THEN StripFrameworkScaffolding(t) ELSE t

Regions(t, r) == ExtractUntrustedRegions(Reference(t, r), r)

\* The template opens with text of its own; if with a preamble, then with one that
\* is found.
OpensStatic(t) == ~IsBlank(t) /\ t[FirstVisible(t)] \notin Slots

OpensWhole(t) == OpensStatic(t) /\ (OpensWith(t, Open) => DetectFrameworkScaffolding(t))

LEMMA ReferenceIs ==
    ASSUME NEW t \in Text, NEW value, Fills(value, t), OpensWhole(t), NEW removes
    PROVE  LET x == Interpolate(t, value)
               r == HostRender(t, value, removes)
           IN  \/ r = x /\ Reference(t, r) = t
               \/ /\ r = StripFrameworkScaffolding(x)
                  /\ Reference(t, r) = StripFrameworkScaffolding(t)
                  /\ ClosedBlock(t) /\ ClosedBlock(x)
<1> DEFINE x == Interpolate(t, value)
           r == HostRender(t, value, removes)
           found == AnalyzeFrameworkScaffolding(r, t)
<1>1. /\ ~IsBlank(t) /\ t[FirstVisible(t)] \notin Slots
      /\ OpensWith(t, Open) => DetectFrameworkScaffolding(t)
  BY DEF OpensWhole, OpensStatic
<1>2. \/ r = x /\ found \in {"rendered", "none", "removed"}
      \/ /\ ClosedBlock(x) /\ OpensWith(t, Open)
         /\ r = StripFrameworkScaffolding(x)
         /\ found = IF DetectFrameworkScaffolding(t) THEN "template" ELSE "removed"
  BY <1>1, PreambleIs
<1>3. DetectFrameworkScaffolding(t) => ClosedBlock(t)
  BY DEF DetectFrameworkScaffolding
<1>4. Reference(t, r) = IF found = "template" THEN StripFrameworkScaffolding(t) ELSE t
  BY DEF Reference
<1> HIDE DEF r, x, found
<1> QED BY <1>1, <1>2, <1>3, <1>4 DEF r, x

\* Neither text is empty, so that the regions are looked for.
LEMMA BothAreThere ==
    ASSUME NEW t \in Text, NEW value, Fills(value, t), OpensWhole(t), NEW removes
    PROVE  LET r == HostRender(t, value, removes)
           IN  r # <<>> /\ Reference(t, r) \in Text /\ Reference(t, r) # <<>>
<1> DEFINE x == Interpolate(t, value)
           r == HostRender(t, value, removes)
<1>1. ~IsBlank(t) /\ t[FirstVisible(t)] \notin Slots
  BY DEF OpensWhole, OpensStatic
<1>2. x \in Text /\ ~IsBlank(x)
  BY <1>1, OpeningIsTheTemplates
<1>3. \A u \in Text : ~IsBlank(u) => u # <<>>
  BY FirstVisibleIs
<1>4. ASSUME NEW u \in Text, ClosedBlock(u)
      PROVE  StripFrameworkScaffolding(u) \in Text /\ StripFrameworkScaffolding(u) # <<>>
  <2> DEFINE w == DropBlanks(SubSeq(u, BlockEnd(u) + 1, Len(u)))
  <2>1. w \in Text /\ StripFrameworkScaffolding(u) = <<Marker, Blank>> \o w
    BY <1>4, StripIsText
  <2> HIDE DEF w
  <2>2. /\ <<Marker, Blank>> \o w \in Text
        /\ Len(<<Marker, Blank>> \o w) = 2 + Len(w) /\ Len(w) \in Nat
    BY <2>1, AfterMarker DEF Text
  <2> DEFINE all == <<Marker, Blank>> \o w
  <2> HIDE DEF all
  <2>3. Len(all) # 0
    BY <2>2 DEF all
  <2>4. all # <<>>
    BY <2>3
  <2> QED BY <2>1, <2>2, <2>4 DEF all
<1>5. \/ r = x /\ Reference(t, r) = t
      \/ /\ r = StripFrameworkScaffolding(x)
         /\ Reference(t, r) = StripFrameworkScaffolding(t)
         /\ ClosedBlock(t) /\ ClosedBlock(x)
  BY ReferenceIs
<1> HIDE DEF x, r
<1> QED BY <1>1, <1>2, <1>3, <1>4, <1>5 DEF r

\* The template has text of its own, white space and placeholders, whose values
\* have none of that text.
KeepsApart(t, value, own) ==
    /\ \A i \in 1 .. Len(t) : t[i] \in own \cup Slots \cup {Blank}
    /\ Anchored(t, 1, own)
    /\ \A i \in 1 .. Len(t) : t[i] \in Slots =>
          \A j \in DOMAIN value[t[i]] : value[t[i]][j] \notin own

\* The same of what follows some of its tokens.
LEMMA KeepsApartFrom ==
    ASSUME NEW t \in Text, NEW value, NEW own, KeepsApart(t, value, own), NEW c \in 0 .. Len(t)
    PROVE  KeepsApart(SubSeq(t, c + 1, Len(t)), value, own)
<1> DEFINE d == SubSeq(t, c + 1, Len(t))
<1>1. Len(t) \in Nat /\ c \in Int /\ c + 1 \in 1 .. Len(t) + 1
  BY DEF Text
<1>2. /\ d \in Text /\ Len(d) = Len(t) - c
      /\ \A i \in 1 .. Len(t) - c : d[i] = t[i + c]
  <2> DEFINE n == c + 1
  <2>1. n \in 1 .. Len(t) + 1 /\ (Len(t) + 1) - n = Len(t) - c
    BY <1>1
  <2>2. \A i \in 1 .. Len(t) - c : (n + i) - 1 = i + c
    BY <1>1
  <2> HIDE DEF n
  <2>3. /\ SubSeq(t, n, Len(t)) \in Text
        /\ Len(SubSeq(t, n, Len(t))) = Len(t) - c
        /\ \A i \in 1 .. Len(t) - c : SubSeq(t, n, Len(t))[i] = t[(n + i) - 1]
    BY <2>1, FromIsText
  <2> QED BY <2>2, <2>3 DEF n
<1> HIDE DEF d
<1>3. \A i \in 1 .. Len(d) : i + c \in 1 .. Len(t) /\ d[i] = t[i + c]
  BY <1>1, <1>2
<1>4. Anchored(d, 1, own)
  <2>1. /\ Len(d) \in Nat /\ Len(d) + c = Len(t) /\ c + 1 >= 1 /\ 1 \in Nat
        /\ Anchored(t, 1, own)
    BY <1>1, <1>2 DEF KeepsApart
  <2> QED BY <1>1, <1>3, <2>1, AnchoredApart
<1>5. /\ \A i \in 1 .. Len(d) : d[i] \in own \cup Slots \cup {Blank}
      /\ \A i \in 1 .. Len(d) : d[i] \in Slots =>
            \A j \in DOMAIN value[d[i]] : value[d[i]][j] \notin own
  BY <1>3 DEF KeepsApart
<1> QED BY <1>4, <1>5 DEF KeepsApart, d

LEMMA FirstPlaceholder ==
    ASSUME NEW t \in Text, NEW s \in Placeholders(t)
    PROVE  \E f \in 1 .. Len(t) : t[f] \in Slots /\ \A i \in 1 .. f - 1 : t[i] \notin Slots
<1>1. Len(t) \in Nat /\ Placeholders(t) = {i \in 1 .. Len(t) : t[i] \in Slots}
  BY DEF Placeholders, Text
<1>2. Placeholders(t) \subseteq Nat /\ Placeholders(t) # {}
  BY <1>1
<1>3. PICK f \in Placeholders(t) : \A i \in Placeholders(t) : f <= i
  BY <1>2, LeastNumber
<1>4. f \in 1 .. Len(t) /\ t[f] \in Slots
  BY <1>1, <1>3
<1>5. ASSUME NEW i \in 1 .. f - 1, t[i] \in Slots PROVE FALSE
  <2>1. i \in 1 .. Len(t)
    BY <1>1, <1>4
  <2>2. i \in Placeholders(t)
    BY <1>1, <1>5, <2>1
  <2> QED BY <1>3, <1>4, <2>2
<1> QED BY <1>4, <1>5

LEMMA FromTheFirstOn ==
    ASSUME NEW u, NEW value, NEW f, NEW y, NEW own, NEW r, CameFrom(u, value, f, y, own, r)
    PROVE  /\ u \in Text /\ f \in Nat /\ f \in 1 .. Len(u)
           /\ Placeholders(u) = {i \in f .. Len(u) : u[i] \in Slots}
<1>1. u \in Text /\ f \in 1 .. Len(u) /\ \A j \in 1 .. f - 1 : u[j] \notin Slots
  BY DEF CameFrom
<1>2. Len(u) \in Nat /\ DOMAIN u = 1 .. Len(u)
  BY <1>1 DEF Text
<1>3. \A i \in 1 .. Len(u) : i \in 1 .. f - 1 \/ i \in f .. Len(u)
  BY <1>1, <1>2
<1>4. \A i \in f .. Len(u) : i \in 1 .. Len(u)
  BY <1>1, <1>2
<1> QED BY <1>1, <1>2, <1>3, <1>4 DEF Placeholders

\* What remains of the template behind its preamble, and of the prompt: where no value
\* has a closing tag, the two are cut at the same place.
LEMMA CutTogether ==
    ASSUME NEW t \in Text, NEW value, Fills(value, t), ClosedBlock(t),
           NEW own, KeepsApart(t, value, own)
    PROVE  LET x == Interpolate(t, value)
               d == SubSeq(t, BlockEnd(t) + 1, Len(t))
           IN  /\ d \in Text /\ Fills(value, d) /\ KeepsApart(d, value, own)
               /\ SubSeq(x, BlockEnd(x) + 1, Len(x)) = Interpolate(d, value)
<1> DEFINE x == Interpolate(t, value)
           c == BlockEnd(t)
           d == SubSeq(t, c + 1, Len(t))
<1>1. c \in 1 .. Len(t) /\ t[c] = Close /\ Len(t) \in Nat
  BY BlockEndIs
<1>2. Close \in own
  <2>1. t[c] \in own \cup Slots \cup {Blank}
    BY <1>1 DEF KeepsApart
  <2> QED BY <1>1, <2>1, TokensAreDistinct
<1>3. BlockEnd(x) = Reach(t, value, c)
  <2>1. \A i \in 1 .. Len(t) : t[i] \in Slots =>
           \A j \in DOMAIN value[t[i]] : value[t[i]][j] # Close
    BY <1>2 DEF KeepsApart
  <2> QED BY <2>1, ClosesWithTheTemplate
<1> HIDE DEF c
<1>4. c \in 0 .. Len(t)
  BY <1>1
<1>5. /\ d \in Text /\ Fills(value, d)
      /\ SubSeq(x, Reach(t, value, c) + 1, Len(x)) = Interpolate(d, value)
  BY <1>4, InterpolationFrom
<1>6. KeepsApart(d, value, own)
  BY <1>4, KeepsApartFrom
<1> HIDE DEF x, d
<1> QED BY <1>3, <1>5, <1>6 DEF x, d, c

LEMMA ReferenceCameFrom ==
    ASSUME NEW t \in Text, NEW value, Fills(value, t), OpensWhole(t), NEW removes,
           NEW own, KeepsApart(t, value, own),
           Placeholders(Reference(t, HostRender(t, value, removes))) # {}
    PROVE  LET r == HostRender(t, value, removes)
           IN  \E f, y : CameFrom(Reference(t, r), value, f, y, own, r)
<1> DEFINE x == Interpolate(t, value)
           r == HostRender(t, value, removes)
           u == Reference(t, r)
<1>1. CASE r = x /\ u = t
  <2>1. PICK s \in Placeholders(t) : TRUE
    BY <1>1
  <2>2. PICK f \in 1 .. Len(t) : t[f] \in Slots /\ \A i \in 1 .. f - 1 : t[i] \notin Slots
    BY <2>1, FirstPlaceholder
  <2>3. \A i \in f .. Len(t) : i \in 1 .. Len(t)
    BY DEF Text
  <2>4. Anchored(t, f, own)
    <3>1. \A i \in f .. Len(t) - 1 : i \in 1 .. Len(t) - 1
      BY DEF Text
    <3> QED BY <3>1 DEF Anchored, KeepsApart
  <2>5. /\ \A i \in f .. Len(t) : t[i] \in own \cup Slots \cup {Blank}
        /\ \A i \in f .. Len(t) : t[i] \in Slots =>
              \A j \in DOMAIN value[t[i]] : value[t[i]][j] \notin own
    BY <2>3 DEF KeepsApart
  <2>6. CameFrom(t, value, f, f, own, Interpolate(t, value))
    BY <2>2, <2>4, <2>5, RenderedCameFrom
  <2> HIDE DEF r, u
  <2>7. CameFrom(u, value, f, f, own, r)
    BY <1>1, <2>6
  <2> QED BY <2>7 DEF u, r
<1>2. CASE /\ r = StripFrameworkScaffolding(x) /\ u = StripFrameworkScaffolding(t)
           /\ ClosedBlock(t) /\ ClosedBlock(x)
  <2> DEFINE d == SubSeq(t, BlockEnd(t) + 1, Len(t))
             left == SubSeq(x, BlockEnd(x) + 1, Len(x))
  <2>1. /\ d \in Text /\ Fills(value, d) /\ KeepsApart(d, value, own)
        /\ left = Interpolate(d, value)
    BY <1>2, CutTogether
  <2>2. u = <<Marker, Blank>> \o DropBlanks(d) /\ r = <<Marker, Blank>> \o DropBlanks(left)
    BY <1>2 DEF StripFrameworkScaffolding
  <2>3. Placeholders(u) # {}
    OBVIOUS
  <2> HIDE DEF d, left, x, r, u
  <2>4. \E s \in 1 .. Len(d) : d[s] \in Slots
    <3> SUFFICES ASSUME \A s \in 1 .. Len(d) : d[s] \notin Slots PROVE FALSE
      OBVIOUS
    <3> DEFINE w == DropBlanks(d)
    <3>1. PICK n \in 1 .. Len(d) + 1 : w = SubSeq(d, n, Len(d))
      BY <2>1, DropBlanksIs
    <3>2. /\ w \in Text /\ Len(w) = (Len(d) + 1) - n
          /\ \A i \in 1 .. (Len(d) + 1) - n : w[i] = d[(n + i) - 1]
      BY <2>1, <3>1, FromIsText
    <3> HIDE DEF w
    <3>3. ASSUME NEW i \in 1 .. Len(w) PROVE w[i] \notin Slots
      <4>1. (n + i) - 1 \in 1 .. Len(d) /\ i \in 1 .. (Len(d) + 1) - n
        BY <2>1, <3>2 DEF Text
      <4> QED BY <3>2, <4>1
    <3>4. /\ u \in Text /\ Len(u) = 2 + Len(w) /\ u[1] = Marker /\ u[2] = Blank
          /\ \A i \in 1 .. Len(w) : u[2 + i] = w[i]
      <4>1. u = <<Marker, Blank>> \o w
        BY <2>2 DEF w
      <4> QED BY <3>2, <4>1, AfterMarker
    <3>5. DOMAIN u = 1 .. Len(u) /\ Len(w) \in Nat
      BY <3>2, <3>4 DEF Text
    <3>6. ASSUME NEW i \in 1 .. Len(u) PROVE u[i] \notin Slots
      <4>1. i = 1 \/ i = 2 \/ (i - 2 \in 1 .. Len(w) /\ 2 + (i - 2) = i)
        BY <3>4, <3>5
      <4>2. CASE i - 2 \in 1 .. Len(w) /\ 2 + (i - 2) = i
        <5>1. u[2 + (i - 2)] = w[i - 2]
          BY <3>4, <4>2
        <5> QED BY <3>3, <4>2, <5>1
      <4> QED BY <3>4, <4>1, <4>2, TokensAreDistinct
    <3> QED BY <2>3, <3>5, <3>6 DEF Placeholders
  <2>5. PICK s \in 1 .. Len(d) : d[s] \in Slots
    BY <2>4
  <2>6. /\ \A i \in 1 .. Len(d) : d[i] \in own \cup Slots \cup {Blank}
        /\ Anchored(d, 1, own)
        /\ \A i \in 1 .. Len(d) : d[i] \in Slots =>
              \A j \in DOMAIN value[d[i]] : value[d[i]][j] \notin own
    BY <2>1, Zenon DEF KeepsApart
  <2> DEFINE cut == <<Marker, Blank>> \o DropBlanks(d)
             kept == <<Marker, Blank>> \o DropBlanks(Interpolate(d, value))
  <2>7. \E f \in 3 .. Len(cut) : \E y : CameFrom(cut, value, f, y, own, kept)
    BY <2>1, <2>5, <2>6, MarkedCameFrom
  <2>8. cut = u /\ kept = r
    BY <2>1, <2>2
  <2> HIDE DEF cut, kept
  <2>9. \E f, y : CameFrom(u, value, f, y, own, r)
    BY <2>7, <2>8
  <2> QED BY <2>9 DEF u, r
<1>3. \/ r = x /\ u = t
      \/ /\ r = StripFrameworkScaffolding(x) /\ u = StripFrameworkScaffolding(t)
         /\ ClosedBlock(t) /\ ClosedBlock(x)
  BY ReferenceIs
<1> QED BY <1>1, <1>2, <1>3

\* Every visible piece of every value is in a region.
LEMMA EveryValueIsShown ==
    ASSUME NEW t \in Text, NEW value, Fills(value, t), OpensWhole(t), NEW removes,
           NEW own, KeepsApart(t, value, own),
           NEW i \in Placeholders(Reference(t, HostRender(t, value, removes))),
           NEW j \in DOMAIN value[Reference(t, HostRender(t, value, removes))[i]],
           value[Reference(t, HostRender(t, value, removes))[i]][j] # Blank
    PROVE  Shown(Regions(t, HostRender(t, value, removes)),
                 value[Reference(t, HostRender(t, value, removes))[i]][j])
<1> DEFINE r == HostRender(t, value, removes)
           u == Reference(t, r)
<1>1. Placeholders(u) # {}
  OBVIOUS
<1>2. \E f, y : CameFrom(u, value, f, y, own, r)
  BY <1>1, ReferenceCameFrom
<1>3. j \in DOMAIN value[u[i]] /\ value[u[i]][j] # Blank /\ i \in Placeholders(u)
  OBVIOUS
<1> HIDE DEF r, u
<1>4. PICK f, y : CameFrom(u, value, f, y, own, r)
  BY <1>2
<1>5. i \in f .. Len(u) /\ u[i] \in Slots
  BY <1>3, <1>4, FromTheFirstOn
<1>6. Shown(ExtractUntrustedRegions(u, r), value[u[i]][j])
  BY <1>3, <1>4, <1>5, NothingEscapes
<1> QED BY <1>6 DEF Regions, u, r

\* Where the placeholders are apart and none is empty, the regions are the values,
\* in their order.
AreTheValues(regions, t, value) ==
    \E e \in Bijection(DOMAIN regions, Placeholders(t)) :
        \A k \in DOMAIN regions :
            /\ regions[k] = Trim(value[t[e[k]]])
            /\ \A j \in DOMAIN regions : j < k => e[j] < e[k]

LEMMA InOrderAreTheValues ==
    ASSUME NEW u, NEW value, NEW f, Placeholders(u) = {i \in f .. Len(u) : u[i] \in Slots},
           f \in Nat, Len(u) \in Nat,
           NEW regions \in Seq(Text), NEW e, InOrder(regions, u, value, f, Len(u), e)
    PROVE  AreTheValues(regions, u, value)
<1> DEFINE D == DOMAIN regions
           P == Placeholders(u)
<1>1. D \subseteq Int /\ P \subseteq Int
  OBVIOUS
<1>2. {s \in f .. Len(u) : u[s] \in Slots} = P
  OBVIOUS
<1> HIDE DEF D, P
<1>3. e \in [D -> P] /\ \A s \in P : \E k \in D : e[k] = s
  BY <1>2 DEF InOrder, D
<1>4. \A k \in D : regions[k] = Trim(value[u[e[k]]])
  BY DEF InOrder, D
<1>5. \A k, j \in D : j < k => e[j] < e[k]
  BY DEF InOrder, D
<1>6. ASSUME NEW k \in D, NEW j \in D, e[k] = e[j] PROVE k = j
  <2>1. k \in Int /\ j \in Int /\ e[k] \in Int /\ e[j] \in Int
    BY <1>1, <1>3
  <2>2. ~(j < k) /\ ~(k < j)
    BY <1>5, <1>6, <2>1
  <2> QED BY <2>1, <2>2
<1>7. e \in Bijection(D, P)
  <2>1. DOMAIN e = D
    BY <1>3
  <2>2. IsInjective(e)
    BY <1>6, <2>1 DEF IsInjective
  <2>3. e \in Injection(D, P)
    BY <1>3, <2>2 DEF Injection
  <2>4. e \in Surjection(D, P)
    BY <1>3 DEF Surjection
  <2> QED BY <2>3, <2>4 DEF Bijection
<1> QED BY <1>4, <1>5, <1>7 DEF AreTheValues, D, P

LEMMA RegionsAreValues ==
    ASSUME NEW t \in Text, NEW value, Fills(value, t), OpensWhole(t), NEW removes,
           NEW own, KeepsApart(t, value, own),
           SlotsApart(Reference(t, HostRender(t, value, removes))),
           \A i \in Placeholders(Reference(t, HostRender(t, value, removes))) :
              ~IsBlank(value[Reference(t, HostRender(t, value, removes))[i]])
    PROVE  AreTheValues(Regions(t, HostRender(t, value, removes)),
                        Reference(t, HostRender(t, value, removes)), value)
<1> DEFINE r == HostRender(t, value, removes)
           u == Reference(t, r)
           regions == ExtractUntrustedRegions(u, r)
<1>1. u \in Text
  BY BothAreThere
<1>2. SlotsApart(u) /\ \A i \in Placeholders(u) : ~IsBlank(value[u[i]])
  OBVIOUS
<1>3. Placeholders(u) # {} => \E f, y : CameFrom(u, value, f, y, own, r)
  BY ReferenceCameFrom
<1> HIDE DEF r, u
<1>4. ASSUME Placeholders(u) = {} PROVE AreTheValues(regions, u, value)
  <2>1. \A i \in 1 .. Len(u) : u[i] \notin Slots
    BY <1>1, <1>4 DEF Placeholders, Text
  <2>2. regions = <<>>
    BY <1>1, <2>1, NoPlaceholderNoRegion
  <2> HIDE DEF regions
  <2> DEFINE e == [k \in DOMAIN regions |-> 0]
  <2>3. DOMAIN regions = {}
    BY <2>2
  <2>4. e \in [DOMAIN regions -> Placeholders(u)] /\ DOMAIN e = {}
    BY <2>3
  <2> HIDE DEF e
  <2>5. e \in Bijection(DOMAIN regions, Placeholders(u))
    BY <1>4, <2>4 DEF Bijection, Injection, Surjection, IsInjective
  <2> QED BY <2>3, <2>5 DEF AreTheValues
<1>5. ASSUME Placeholders(u) # {} PROVE AreTheValues(regions, u, value)
  <2> HIDE DEF regions
  <2>1. PICK f, y : CameFrom(u, value, f, y, own, r)
    BY <1>3, <1>5
  <2>2. /\ f \in Nat /\ Placeholders(u) = {i \in f .. Len(u) : u[i] \in Slots}
        /\ Len(u) \in Nat
    BY <1>1, <2>1, FromTheFirstOn DEF Text
  <2>3. \A i \in f .. Len(u) : u[i] \in Slots => ~IsBlank(value[u[i]])
    BY <1>2, <2>2
  <2>4. /\ regions \in Seq(Text)
        /\ \E e : InOrder(regions, u, value, f, Len(u), e)
    BY <1>2, <2>1, <2>3, RegionsInOrder DEF regions
  <2>5. PICK e : InOrder(regions, u, value, f, Len(u), e)
    BY <2>4
  <2> QED BY <2>2, <2>4, <2>5, InOrderAreTheValues
<1>6. AreTheValues(regions, u, value)
  BY <1>4, <1>5, Zenon
<1> QED BY <1>6 DEF Regions, u, r
===============================================================================
