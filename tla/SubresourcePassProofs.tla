------------------------ MODULE SubresourcePassProofs ------------------------
(***************************************************************************)
(* Theorems about SubresourcePass, for every set of pages and references,  *)
(* every ceiling and every server: what a pass may ask for, wait for and   *)
(* transfer, whom a ceiling hits first, that what is held is on record, and *)
(* that no reference drops out of a record over any number of repasses.    *)
(* The lists of misses are recursive functions of the lists they are made  *)
(* from; the first lemmas say what such a function is.                     *)
(***************************************************************************)
EXTENDS SubresourcePass, FiniteSetTheorems, TLAPS

-----------------------------------------------------------------------------
(* Recursion over the positions of a list *)

\* Induction up to n, for a set: were x the first missing, taking one from
\* each missing number would map those up to x onto themselves.
LEMMA Upwards ==
    ASSUME NEW n \in Nat, NEW T, 0 \in T, \A k \in 1 .. n : k - 1 \in T => k \in T
    PROVE  \A k \in 0 .. n : k \in T
<1> SUFFICES ASSUME NEW x \in 0 .. n, x \notin T PROVE FALSE
  OBVIOUS
<1> DEFINE B == {y \in 0 .. x : y \notin T}
           f == [y \in B |-> y - 1]
<1>1. IsFiniteSet(B)
  <2>1. IsFiniteSet(0 .. x) /\ B \subseteq 0 .. x
    BY FS_Interval
  <2> QED
    BY <2>1, FS_Subset
<1>2. \A y \in B : y \in 1 .. n /\ y - 1 \in B
  OBVIOUS
<1>3. f \in Injection(B, B)
  <2>1. f \in [B -> B]
    BY <1>2
  <2>2. \A y, z \in B : f[y] = f[z] => y = z
    OBVIOUS
  <2> HIDE DEF f, B
  <2> QED
    BY <2>1, <2>2 DEF Injection, IsInjective
<1>4. f \in Surjection(B, B)
  <2> HIDE DEF f, B
  <2> QED
    BY <1>1, <1>3, FS_Injection, Zenon
<1>5. PICK y \in B : f[y] = x
  <2>1. x \in B
    OBVIOUS
  <2> HIDE DEF f, B
  <2> QED
    BY <1>4, <2>1 DEF Surjection
<1> QED
  BY <1>5

\* A step can be taken n times.
Runs(g, n, base, f) == g[0] = base /\ \A k \in 1 .. n : g[k] = f[k][g[k - 1]]

LEMMA Iterates ==
    ASSUME NEW n \in Nat, NEW X, NEW base \in X, NEW f \in [1 .. n -> [X -> X]]
    PROVE  \E g \in [0 .. n -> X] : Runs(g, n, base, f)
<1> USE DEF Runs
<1> DEFINE Upto(m) == \E g \in [0 .. m -> X] : g[0] = base /\ \A k \in 1 .. m : g[k] = f[k][g[k - 1]]
           T == {m \in 0 .. n : Upto(m)}
<1>1. 0 \in T
  <2> DEFINE g == [k \in 0 .. 0 |-> base]
  <2>1. g \in [0 .. 0 -> X] /\ g[0] = base /\ \A k \in 1 .. 0 : g[k] = f[k][g[k - 1]]
    OBVIOUS
  <2> HIDE DEF g
  <2> QED
    BY <2>1
<1>2. ASSUME NEW m \in 1 .. n, m - 1 \in T PROVE m \in T
  <2>1. PICK h \in [0 .. m - 1 -> X] : h[0] = base /\ \A k \in 1 .. m - 1 : h[k] = f[k][h[k - 1]]
    BY <1>2
  <2>2. m \in Nat /\ m - 1 \in Nat /\ m - 1 \in 0 .. m - 1
    OBVIOUS
  <2> DEFINE last == f[m][h[m - 1]]
             g == [k \in 0 .. m |-> IF k = m THEN last ELSE h[k]]
  <2>3. h[m - 1] \in X /\ f[m] \in [X -> X]
    BY <2>1, <2>2
  <2>4. last \in X
    BY <2>3
  <2> HIDE DEF last
  <2>5. g \in [0 .. m -> X]
    <3>1. \A k \in 0 .. m : k # m => k \in 0 .. m - 1
      OBVIOUS
    <3> QED
      BY <2>1, <2>4, <3>1
  <2>6. g[0] = base
    BY <2>1, <2>2
  <2>7. ASSUME NEW k \in 1 .. m PROVE g[k] = f[k][g[k - 1]]
    <3>1. CASE k = m
      <4>1. g[k] = last /\ g[k - 1] = h[m - 1]
        BY <2>2, <3>1
      <4> QED
        BY <3>1, <4>1 DEF last
    <3>2. CASE k # m
      <4>1. k \in 1 .. m - 1 /\ g[k] = h[k] /\ g[k - 1] = h[k - 1]
        BY <3>2
      <4> QED
        BY <2>1, <4>1
    <3> QED
      BY <3>1, <3>2
  <2> HIDE DEF g
  <2>8. Upto(m)
    BY <2>5, <2>6, <2>7, Zenon
  <2>9. m \in 0 .. n
    OBVIOUS
  <2> HIDE DEF Upto
  <2> QED
    BY <2>8, <2>9
<1>3. \A k \in 1 .. n : k - 1 \in T => k \in T
  <2> HIDE DEF T
  <2> QED
    BY <1>2
<1>4. \A k \in 0 .. n : k \in T
  <2> HIDE DEF T
  <2> QED
    BY <1>1, <1>3, Upwards
<1>5. n \in T
  <2> HIDE DEF T
  <2> QED
    BY <1>4
<1> QED
  BY <1>5

Picks(g, s, K) ==
    /\ g[0] = <<>>
    /\ \A k \in 1 .. Len(s) : g[k] = IF s[k] \in K THEN Append(g[k - 1], s[k]) ELSE g[k - 1]

\* The recursion of Only has a solution, which the function it names is.
LEMMA OnlyDef ==
    ASSUME NEW S, NEW s \in Seq(S), NEW K
    PROVE  \E g \in [0 .. Len(s) -> Seq(S)] : Only(s, K) = g[Len(s)] /\ Picks(g, s, K)
<1> DEFINE n == Len(s)
           Step1(k, t) == IF s[k] \in K THEN Append(t, s[k]) ELSE t
           f == [k \in 1 .. n |-> [t \in Seq(S) |-> Step1(k, t)]]
           kept == CHOOSE g : g = [k \in 0 .. n |-> IF k = 0 THEN <<>> ELSE IF s[k] \in K THEN Append(g[k - 1], s[k]) ELSE g[k - 1]]
<1>1. n \in Nat /\ <<>> \in Seq(S) /\ \A k \in 1 .. n : s[k] \in S
  OBVIOUS
<1>2. f \in [1 .. n -> [Seq(S) -> Seq(S)]]
  BY <1>1
<1>3. PICK g \in [0 .. n -> Seq(S)] : g[0] = <<>> /\ \A k \in 1 .. n : g[k] = f[k][g[k - 1]]
  <2> DEFINE X == Seq(S)
  <2>1. n \in Nat /\ <<>> \in X /\ f \in [1 .. n -> [X -> X]]
    BY <1>1, <1>2
  <2> HIDE DEF n, f, X
  <2>2. \E g \in [0 .. n -> X] : Runs(g, n, <<>>, f)
    BY <2>1, Iterates, Zenon
  <2> QED
    BY <2>2 DEF X, Runs
<1>4. \A k \in 1 .. n : g[k] = Step1(k, g[k - 1])
  <2> TAKE k \in 1 .. n
  <2>1. k - 1 \in 0 .. n
    BY <1>1
  <2>2. g[k - 1] \in Seq(S)
    BY <2>1, <1>3
  <2>3. f[k][g[k - 1]] = Step1(k, g[k - 1])
    BY <2>2
  <2> QED
    BY <1>3, <2>3
<1>5. g = [k \in 0 .. n |-> IF k = 0 THEN <<>> ELSE IF s[k] \in K THEN Append(g[k - 1], s[k]) ELSE g[k - 1]]
  <2>1. \A k \in 0 .. n : g[k] = IF k = 0 THEN <<>> ELSE Step1(k, g[k - 1])
    <3>1. \A k \in 0 .. n : k # 0 => k \in 1 .. n
      BY <1>1
    <3> HIDE DEF n, f, Step1
    <3> QED
      BY <1>3, <1>4, <3>1
  <2> QED
    BY <1>3, <2>1
<1>6. kept = [k \in 0 .. n |-> IF k = 0 THEN <<>> ELSE IF s[k] \in K THEN Append(kept[k - 1], s[k]) ELSE kept[k - 1]]
  BY <1>5
<1>7. Only(s, K) = kept[n]
  BY DEF Only
<1> HIDE DEF kept
<1>8. kept \in [0 .. n -> Seq(S)]
  <2> DEFINE T == {k \in 0 .. n : kept[k] \in Seq(S)}
  <2>1. 0 \in T
    BY <1>1, <1>6
  <2>2. ASSUME NEW k \in 1 .. n, k - 1 \in T PROVE k \in T
    <3>1. k \in 0 .. n /\ k # 0 /\ kept[k - 1] \in Seq(S) /\ s[k] \in S
      BY <1>1, <2>2
    <3>2. kept[k] = IF s[k] \in K THEN Append(kept[k - 1], s[k]) ELSE kept[k - 1]
      BY <1>6, <3>1
    <3>3. \A q \in Seq(S), x \in S : Append(q, x) \in Seq(S)
      OBVIOUS
    <3> HIDE DEF n
    <3>4. kept[k] \in Seq(S)
      BY <3>1, <3>2, <3>3, Zenon
    <3> QED
      BY <3>1, <3>4
  <2>3. \A k \in 0 .. n : k \in T
    <3> HIDE DEF T, n
    <3> QED
      BY <1>1, <2>1, <2>2, Upwards
  <2>4. \A k \in 0 .. n : kept[k] \in Seq(S)
    BY <2>3
  <2> HIDE DEF n
  <2> QED
    BY <1>6, <2>4
<1>9. Picks(kept, s, K)
  <2>1. kept[0] = <<>>
    BY <1>1, <1>6
  <2>2. ASSUME NEW k \in 1 .. n
        PROVE  kept[k] = IF s[k] \in K THEN Append(kept[k - 1], s[k]) ELSE kept[k - 1]
    <3>1. k \in 0 .. n /\ k # 0
      BY <1>1
    <3> HIDE DEF n
    <3> QED
      BY <1>6, <3>1
  <2> QED
    BY <2>1, <2>2 DEF Picks
<1> QED
  BY <1>7, <1>8, <1>9

\* No two elements of one address.
Uniq(t) == \A i, j \in DOMAIN t : t[i].url = t[j].url => i = j

LEMMA Appended ==
    ASSUME NEW S, NEW t \in Seq(S), NEW x \in S
    PROVE  /\ Append(t, x) \in Seq(S) /\ Len(t) \in Nat
           /\ DOMAIN Append(t, x) = DOMAIN t \union {Len(t) + 1} /\ Len(t) + 1 \notin DOMAIN t
           /\ Append(t, x)[Len(t) + 1] = x
           /\ \A j \in DOMAIN t : Append(t, x)[j] = t[j]
  OBVIOUS

\* Only lists the elements of s that are in K, all of them, each as often as
\* s does.
LEMMA OnlyLists ==
    ASSUME NEW S, NEW s \in Seq(S), NEW K
    PROVE  /\ Only(s, K) \in Seq(S)
           /\ \A j \in DOMAIN Only(s, K) : Only(s, K)[j] \in K /\ \E i \in DOMAIN s : Only(s, K)[j] = s[i]
           /\ \A i \in DOMAIN s : s[i] \in K => \E j \in DOMAIN Only(s, K) : Only(s, K)[j] = s[i]
           /\ Uniq(s) => Uniq(Only(s, K))
<1> DEFINE n == Len(s)
<1>0. PICK g \in [0 .. n -> Seq(S)] : Only(s, K) = g[n] /\ Picks(g, s, K)
  BY OnlyDef, Zenon
<1>1. /\ Only(s, K) = g[n] /\ g[0] = <<>> /\ g \in [0 .. n -> Seq(S)]
      /\ \A k \in 1 .. n : g[k] = IF s[k] \in K THEN Append(g[k - 1], s[k]) ELSE g[k - 1]
  BY <1>0 DEF Picks
<1>2. n \in Nat /\ DOMAIN s = 1 .. n /\ \A k \in 1 .. n : s[k] \in S
  OBVIOUS
<1> DEFINE From(k) == \A j \in DOMAIN g[k] : g[k][j] \in K /\ \E i \in 1 .. k : g[k][j] = s[i]
           All(k) == \A i \in 1 .. k : s[i] \in K => \E j \in DOMAIN g[k] : g[k][j] = s[i]
           Once(k) == Uniq(s) => Uniq(g[k])
           T == {k \in 0 .. n : From(k) /\ All(k) /\ Once(k)}
<1>3. 0 \in T
  BY <1>1, <1>2 DEF Uniq
<1>4. ASSUME NEW k \in 1 .. n, k - 1 \in T PROVE k \in T
  <2> DEFINE t == g[k - 1]
             x == s[k]
  <2>1. k - 1 \in 0 .. n /\ k \in 0 .. n /\ t \in Seq(S) /\ x \in S
    <3>1. k - 1 \in 0 .. n /\ k \in 0 .. n
      BY <1>2
    <3> HIDE DEF n
    <3> QED
      BY <1>1, <1>2, <3>1
  <2>2. /\ \A j \in DOMAIN t : t[j] \in K /\ \E i \in 1 .. k - 1 : t[j] = s[i]
        /\ \A i \in 1 .. k - 1 : s[i] \in K => \E j \in DOMAIN t : t[j] = s[i]
        /\ Uniq(s) => Uniq(t)
    BY <1>4
  <2>3. /\ 1 .. k = (1 .. k - 1) \union {k} /\ k \notin 1 .. k - 1
        /\ \A i \in 1 .. k : i \in DOMAIN s
    BY <1>2
  <2>4. CASE x \in K
    <3>1. g[k] = Append(t, x)
      BY <1>1, <2>4
    <3>2. /\ DOMAIN g[k] = DOMAIN t \union {Len(t) + 1} /\ Len(t) + 1 \notin DOMAIN t
          /\ g[k][Len(t) + 1] = x
          /\ \A j \in DOMAIN t : g[k][j] = t[j]
      BY <2>1, <3>1, Appended
    <3> HIDE DEF t
    <3>3. From(k)
      BY <2>2, <2>3, <2>4, <3>2
    <3>4. All(k)
      BY <2>2, <2>3, <3>2
    <3>5. Once(k)
      <4> SUFFICES ASSUME Uniq(s) PROVE Uniq(g[k])
        OBVIOUS
      <4>1. \A j \in DOMAIN t : t[j].url # x.url
        BY <2>2, <2>3 DEF Uniq
      <4>2. \A i, j \in DOMAIN t : t[i].url = t[j].url => i = j
        BY <2>2 DEF Uniq
      <4>3. ASSUME NEW i \in DOMAIN g[k], NEW j \in DOMAIN g[k], g[k][i].url = g[k][j].url
            PROVE  i = j
        <5>1. CASE i \in DOMAIN t /\ j \in DOMAIN t
          BY <3>2, <4>2, <4>3, <5>1
        <5>2. CASE i \in DOMAIN t /\ j = Len(t) + 1
          BY <3>2, <4>1, <4>3, <5>2
        <5>3. CASE i = Len(t) + 1 /\ j \in DOMAIN t
          BY <3>2, <4>1, <4>3, <5>3
        <5>4. CASE i = Len(t) + 1 /\ j = Len(t) + 1
          BY <5>4
        <5> QED
          BY <3>2, <5>1, <5>2, <5>3, <5>4
      <4> QED
        BY <4>3 DEF Uniq
    <3> HIDE DEF From, All, Once
    <3> QED
      BY <2>1, <3>3, <3>4, <3>5
  <2>5. CASE x \notin K
    <3>1. g[k] = t
      BY <1>1, <2>5
    <3> HIDE DEF t
    <3>2. From(k) /\ All(k) /\ Once(k)
      BY <2>2, <2>3, <2>5, <3>1
    <3> HIDE DEF From, All, Once
    <3> QED
      BY <2>1, <3>2
  <2> QED
    BY <2>4, <2>5
<1>5. \A k \in 0 .. n : k \in T
  <2> HIDE DEF T, n
  <2> QED
    BY <1>2, <1>3, <1>4, Upwards
<1>6. n \in 0 .. n /\ g[n] \in Seq(S)
  BY <1>1, <1>2
<1>7. From(n) /\ All(n) /\ Once(n)
  BY <1>5, <1>6
<1> DEFINE o == Only(s, K)
<1>8. /\ o \in Seq(S) /\ (Uniq(s) => Uniq(o))
      /\ \A j \in DOMAIN o : o[j] \in K /\ \E i \in 1 .. n : o[j] = s[i]
      /\ \A i \in 1 .. n : s[i] \in K => \E j \in DOMAIN o : o[j] = s[i]
  <2> HIDE DEF n
  <2> QED
    BY <1>1, <1>6, <1>7
<1> HIDE DEF n, o
<1>9. /\ \A j \in DOMAIN o : o[j] \in K /\ \E i \in DOMAIN s : o[j] = s[i]
      /\ \A i \in DOMAIN s : s[i] \in K => \E j \in DOMAIN o : o[j] = s[i]
  BY <1>2, <1>8
<1> QED
  BY <1>8, <1>9, Zenon DEF o

\* The later reason for an address takes the place of the earlier, or goes last.
LEMMA AddedMiss ==
    ASSUME NEW t \in Seq(Misses), NEW m \in Misses
    PROVE  /\ AddMiss(t, m) \in Seq(Misses)
           /\ Uniq(t) => Uniq(AddMiss(t, m))
           /\ Addresses(AddMiss(t, m)) = Addresses(t) \union {m.url}
<1> DEFINE o == AddMiss(t, m)
           Told == \E i \in DOMAIN t : t[i].url = m.url
<1>1. CASE Told
  <2>1. o = [i \in DOMAIN t |-> IF t[i].url = m.url THEN m ELSE t[i]]
    BY <1>1 DEF AddMiss
  <2>2. \A i \in DOMAIN t : t[i] \in Misses
    OBVIOUS
  <2>3. DOMAIN t = 1 .. Len(t) /\ Len(t) \in Nat
    OBVIOUS
  <2> HIDE DEF o
  <2>4. o \in Seq(Misses)
    <3>1. o \in [1 .. Len(t) -> Misses]
      BY <2>1, <2>2, <2>3
    <3> QED
      BY <2>3, <3>1
  <2>5. DOMAIN o = DOMAIN t /\ \A i \in DOMAIN t : o[i].url = t[i].url
    BY <2>1
  <2>6. Uniq(t) => Uniq(o)
    BY <2>5 DEF Uniq
  <2>7. Addresses(o) = Addresses(t) /\ m.url \in Addresses(t)
    BY <1>1, <2>5 DEF Addresses
  <2> QED
    BY <2>4, <2>6, <2>7 DEF o
<1>2. CASE ~ Told
  <2>1. o = Append(t, m)
    BY <1>2 DEF AddMiss
  <2> HIDE DEF o
  <2>2. /\ o \in Seq(Misses)
        /\ DOMAIN o = DOMAIN t \union {Len(t) + 1} /\ Len(t) + 1 \notin DOMAIN t
        /\ o[Len(t) + 1] = m /\ \A j \in DOMAIN t : o[j] = t[j]
    BY <2>1, Appended
  <2>3. Uniq(t) => Uniq(o)
    BY <1>2, <2>2 DEF Uniq
  <2>4. Addresses(o) = Addresses(t) \union {m.url}
    BY <2>2 DEF Addresses
  <2> QED
    BY <2>2, <2>3, <2>4 DEF o
<1> QED
  BY <1>1, <1>2

Merges(g, old, new) ==
    /\ g[0] = old
    /\ \A k \in 1 .. Len(new) : g[k] = AddMiss(g[k - 1], new[k])

\* The recursion of MergeMisses has a solution too.
LEMMA MergeDef ==
    ASSUME NEW old \in Seq(Misses), NEW new \in Seq(Misses)
    PROVE  \E g \in [0 .. Len(new) -> Seq(Misses)] :
              MergeMisses(old, new) = g[Len(new)] /\ Merges(g, old, new)
<1> DEFINE n == Len(new)
           X == Seq(Misses)
           f == [k \in 1 .. n |-> [t \in X |-> AddMiss(t, new[k])]]
           merged == CHOOSE g : g = [k \in 0 .. n |-> IF k = 0 THEN old ELSE AddMiss(g[k - 1], new[k])]
<1>1. n \in Nat /\ \A k \in 1 .. n : new[k] \in Misses
  OBVIOUS
<1>2. f \in [1 .. n -> [X -> X]]
  BY <1>1, AddedMiss
<1>3. PICK g \in [0 .. n -> X] : g[0] = old /\ \A k \in 1 .. n : g[k] = f[k][g[k - 1]]
  <2>1. n \in Nat /\ old \in X
    BY <1>1
  <2> HIDE DEF n, f, X
  <2>2. \E g \in [0 .. n -> X] : Runs(g, n, old, f)
    BY <1>2, <2>1, Iterates, Zenon
  <2> QED
    BY <2>2 DEF Runs
<1>4. \A k \in 1 .. n : g[k] = AddMiss(g[k - 1], new[k])
  <2> TAKE k \in 1 .. n
  <2>1. k - 1 \in 0 .. n
    BY <1>1
  <2>2. g[k - 1] \in X
    <3> HIDE DEF X, n, f
    <3> QED
      BY <2>1, <1>3
  <2>3. f[k][g[k - 1]] = AddMiss(g[k - 1], new[k])
    BY <2>2
  <2> QED
    BY <1>3, <2>3
<1>5. g = [k \in 0 .. n |-> IF k = 0 THEN old ELSE AddMiss(g[k - 1], new[k])]
  <2>1. \A k \in 0 .. n : k # 0 => k \in 1 .. n
    BY <1>1
  <2> HIDE DEF n, f, X
  <2>2. \A k \in 0 .. n : g[k] = IF k = 0 THEN old ELSE AddMiss(g[k - 1], new[k])
    BY <1>3, <1>4, <2>1
  <2> QED
    BY <1>3, <2>2
<1>6. merged = [k \in 0 .. n |-> IF k = 0 THEN old ELSE AddMiss(merged[k - 1], new[k])]
  BY <1>5
<1>7. MergeMisses(old, new) = merged[n]
  BY DEF MergeMisses
<1> HIDE DEF merged
<1>8. Merges(merged, old, new)
  <2>1. merged[0] = old
    BY <1>1, <1>6
  <2>2. ASSUME NEW k \in 1 .. n PROVE merged[k] = AddMiss(merged[k - 1], new[k])
    <3>1. k \in 0 .. n /\ k # 0
      BY <1>1
    <3> HIDE DEF n
    <3> QED
      BY <1>6, <3>1
  <2> QED
    BY <2>1, <2>2 DEF Merges
<1>9. merged \in [0 .. n -> X]
  <2> DEFINE T == {k \in 0 .. n : merged[k] \in X}
  <2>1. 0 \in T
    BY <1>1, <1>8 DEF Merges
  <2>2. ASSUME NEW k \in 1 .. n, k - 1 \in T PROVE k \in T
    <3>1. k \in 0 .. n /\ merged[k - 1] \in Seq(Misses) /\ new[k] \in Misses
      BY <1>1, <2>2
    <3>2. AddMiss(merged[k - 1], new[k]) \in X
      BY <3>1, AddedMiss
    <3>3. merged[k] = AddMiss(merged[k - 1], new[k])
      BY <1>8 DEF Merges
    <3> QED
      BY <3>1, <3>2, <3>3
  <2>3. \A k \in 0 .. n : k \in T
    <3> HIDE DEF T, n
    <3> QED
      BY <1>1, <2>1, <2>2, Upwards
  <2>4. \A k \in 0 .. n : merged[k] \in X
    BY <2>3
  <2> HIDE DEF n, X
  <2> QED
    BY <1>6, <2>4
<1> QED
  BY <1>7, <1>8, <1>9

\* A merge lists the addresses of both lists, each once if the older did.
LEMMA MergeLists ==
    ASSUME NEW old \in Seq(Misses), NEW new \in Seq(Misses)
    PROVE  /\ MergeMisses(old, new) \in Seq(Misses)
           /\ Uniq(old) => Uniq(MergeMisses(old, new))
           /\ Addresses(old) \union Addresses(new) \subseteq Addresses(MergeMisses(old, new))
<1> DEFINE n == Len(new)
<1>0. PICK g \in [0 .. n -> Seq(Misses)] : MergeMisses(old, new) = g[n] /\ Merges(g, old, new)
  BY MergeDef, Zenon
<1>1. n \in Nat /\ DOMAIN new = 1 .. n /\ \A k \in 1 .. n : new[k] \in Misses
  OBVIOUS
<1> DEFINE First(k) == {new[i].url : i \in 1 .. k}
           Good(k) == (Uniq(old) => Uniq(g[k])) /\ Addresses(old) \union First(k) \subseteq Addresses(g[k])
           T == {k \in 0 .. n : Good(k)}
<1>2. 0 \in T
  BY <1>0, <1>1 DEF Merges
<1>3. ASSUME NEW k \in 1 .. n, k - 1 \in T PROVE k \in T
  <2>1. k - 1 \in 0 .. n /\ k \in 0 .. n
    BY <1>1
  <2>2. g[k - 1] \in Seq(Misses) /\ new[k] \in Misses
    <3> HIDE DEF n
    <3> QED
      BY <1>0, <1>1, <2>1
  <2>3. g[k] = AddMiss(g[k - 1], new[k])
    BY <1>0 DEF Merges
  <2>4. /\ Uniq(g[k - 1]) => Uniq(g[k])
        /\ Addresses(g[k]) = Addresses(g[k - 1]) \union {new[k].url}
    BY <2>2, <2>3, AddedMiss
  <2>5. First(k) = First(k - 1) \union {new[k].url}
    <3>1. 1 .. k = (1 .. k - 1) \union {k}
      BY <1>1
    <3> QED
      BY <3>1
  <2>6. Good(k - 1)
    BY <1>3
  <2> HIDE DEF First
  <2> QED
    BY <2>1, <2>4, <2>5, <2>6
<1>4. \A k \in 0 .. n : k \in T
  <2> HIDE DEF T, n
  <2> QED
    BY <1>1, <1>2, <1>3, Upwards
<1>5. n \in 0 .. n
  BY <1>1
<1>6. g[n] \in Seq(Misses)
  <2> HIDE DEF n
  <2> QED
    BY <1>0, <1>5
<1>7. Good(n)
  BY <1>4, <1>5
<1>8. First(n) = Addresses(new)
  BY <1>1 DEF Addresses
<1> HIDE DEF First, n
<1> QED
  BY <1>0, <1>6, <1>7, <1>8

\* Only is a sequence over the set it keeps.
LEMMA OnlyIn ==
    ASSUME NEW S, NEW s \in Seq(S), NEW K
    PROVE  Only(s, K) \in Seq(K)
<1> DEFINE o == Only(s, K)
<1>1. o \in Seq(S) /\ \A j \in DOMAIN o : o[j] \in K
  BY OnlyLists
<1> HIDE DEF o
<1>2. Len(o) \in Nat /\ DOMAIN o = 1 .. Len(o) /\ o = [j \in 1 .. Len(o) |-> o[j]]
  BY <1>1
<1>3. o \in [1 .. Len(o) -> K]
  BY <1>1, <1>2
<1>4. o \in Seq(K)
  BY <1>2, <1>3
<1> QED
  BY <1>4 DEF o

-----------------------------------------------------------------------------
(* Types *)

LEMMA AnswersType ==
    ASSUME NEW u, NEW a \in Answers(u)
    PROVE  /\ a.learned \in Learned /\ a.size \in Sizes \union {0} /\ a.size \in Nat
           /\ a.wire \in {"silent", "answered", "nothing_sent"}
<1>1. a.size \in Sizes \union {0}
  BY DEF Answers
<1>2. Sizes \subseteq Nat
  BY CeilingAssumption
<1>3. a.size \in Nat
  <2>1. 0 \in Nat
    OBVIOUS
  <2> QED
    BY <1>1, <1>2, <2>1, Zenon
<1>4. /\ a.learned \in Learned
      /\ a.wire \in {"silent", "answered", "nothing_sent"}
  BY DEF Answers, Judged, Learned, FinalMisses
<1> QED
  BY <1>1, <1>3, <1>4

Settled == {i \in DOMAIN list : outcome[i] # "none"}

\* The types, and what is in hand: references of the program's shape, a
\* fallback to try only where one is named, and no more dealt with than settled.
Typed ==
    /\ TypeOK
    /\ list \in Seq(RefRecords)
    /\ current # 0 => list[current].fallback \in Urls
    /\ hand = NoCapture => list = <<>>
    /\ dealt <= Cardinality(Settled)

LEMMA ListType ==
    ASSUME Typed, NEW i \in DOMAIN list
    PROVE  list[i].url \in Urls /\ list[i].fallback \in Urls \union {NoUrl} /\ list[i].rank \in 0 .. 4
<1>1. list \in Seq(RefRecords)
  BY DEF Typed
<1>2. list[i] \in RefRecords
  BY <1>1
<1> QED
  BY <1>2 DEF RefRecords

LEMMA RetriesType ==
    ASSUME Typed, NEW c \in Captures PROVE Retries(c) \in Seq(RefRecords)
<1> DEFINE s == [i \in DOMAIN missed[c] |-> Retry(c, missed[c][i])]
           S == {Retry(c, missed[c][i]) : i \in DOMAIN missed[c]}
<1>1. missed[c] \in Seq(Misses)
  BY DEF Typed, TypeOK
<1>2. Len(missed[c]) \in Nat /\ DOMAIN missed[c] = 1 .. Len(missed[c])
  BY <1>1
<1>3. s \in [1 .. Len(missed[c]) -> S]
  BY <1>2
<1>4. s \in Seq(S)
  <2> HIDE DEF s, S
  <2> QED
    BY <1>2, <1>3
<1>5. Retries(c) = Only(s, RefRecords)
  BY DEF Retries
<1> HIDE DEF s, S
<1> QED
  BY <1>4, <1>5, OnlyIn

LEMMA PositionsUpTo ==
    ASSUME NEW n \in Nat, NEW P, P \subseteq 1 .. n
    PROVE  IsFiniteSet(P) /\ Cardinality(P) \in Nat /\ Cardinality(P) <= n
<1>1. IsFiniteSet(1 .. n) /\ Cardinality(1 .. n) = IF 1 <= n THEN n - 1 + 1 ELSE 0
  BY FS_Interval
<1>2. IsFiniteSet(P) /\ Cardinality(P) <= Cardinality(1 .. n)
  BY <1>1, FS_Subset
<1>3. Cardinality(P) \in Nat
  BY <1>2, FS_CardinalityType
<1> QED
  BY <1>1, <1>2, <1>3

\* No more references are settled than listed.
LEMMA SettledCount ==
    ASSUME Typed
    PROVE  /\ IsFiniteSet(Settled) /\ Cardinality(Settled) \in Nat
           /\ Cardinality(Settled) <= Len(list) /\ Len(list) \in Nat
<1>1. Len(list) \in Nat /\ DOMAIN list = 1 .. Len(list)
  BY DEF Typed
<1>2. Settled \subseteq 1 .. Len(list)
  BY <1>1 DEF Settled
<1> QED
  BY <1>1, <1>2, PositionsUpTo

\* What settling a reference does, however it is settled.
LEMMA SettleType ==
    ASSUME Typed, NEW i \in DOMAIN list, IsNext(i),
           NEW l \in Ceilings \union Learned, Settle(i, l)
    PROVE  /\ UNCHANGED <<hand, list, rescued>>
           /\ outcome' \in [DOMAIN list -> Ceilings \union Learned \union {"none"}]
           /\ \A j \in DOMAIN list : outcome'[j] = IF j = i THEN l ELSE outcome[j]
           /\ current' \in {0} \union DOMAIN list
           /\ current' # 0 => list[current'].fallback \in Urls
           /\ Settled' = Settled \union {i} /\ i \notin Settled
           /\ Cardinality(Settled') = Cardinality(Settled) + 1
           /\ Cardinality(Settled') <= Len(list)
<1>1. UNCHANGED <<hand, list, rescued>> /\ outcome' = [outcome EXCEPT ![i] = l]
  BY DEF Settle
<1>2. outcome \in [DOMAIN list -> Ceilings \union Learned \union {"none"}] /\ outcome[i] = "none"
  BY DEF Typed, TypeOK, IsNext, Pending
<1>3. /\ outcome' \in [DOMAIN list -> Ceilings \union Learned \union {"none"}]
      /\ \A j \in DOMAIN list : outcome'[j] = IF j = i THEN l ELSE outcome[j]
  BY <1>1, <1>2
<1>4. current' = (IF WantsFallback(list[i], l) THEN i ELSE 0) /\ i # 0
  BY DEF Settle, Typed
<1>5. WantsFallback(list[i], l) => list[i].fallback \in Urls
  BY ListType DEF WantsFallback
<1>6. l # "none"
  BY DEF Ceilings, Learned, FinalMisses
<1>7. Settled' = Settled \union {i} /\ i \notin Settled
  BY <1>1, <1>2, <1>3, <1>6 DEF Settled
<1>8. Cardinality(Settled') = Cardinality(Settled) + 1
  BY <1>7, SettledCount, FS_AddElement
<1>9. Cardinality(Settled') <= Len(list)
  <2>1. Settled' \subseteq 1 .. Len(list)
    BY <1>1 DEF Settled, Typed
  <2>2. Len(list) \in Nat
    BY SettledCount
  <2> HIDE DEF Settled
  <2> QED
    BY <2>1, <2>2, PositionsUpTo
<1> QED
  BY <1>1, <1>3, <1>4, <1>5, <1>7, <1>8, <1>9

\* What one request does to the counters.
LEMMA AskType ==
    ASSUME Typed, NEW u, NEW a, Ask(u, a)
    PROVE  /\ known' \in [Urls -> Learned \union {"unknown"}]
           /\ bytes' \in Nat /\ silences' \in Nat /\ wired' \in Nat /\ mute' \in Nat
           /\ asks' \in [Urls -> 0 .. 2]
<1>1. a.learned \in Learned /\ a.size \in Nat
  BY AnswersType DEF Ask
<1>2. bytes \in Nat /\ silences \in Nat /\ wired \in Nat /\ mute \in Nat
  BY DEF Typed, TypeOK
<1>3. known' \in [Urls -> Learned \union {"unknown"}]
  BY <1>1 DEF Ask, Remember, Typed, TypeOK
<1>4. bytes' \in Nat /\ wired' \in Nat
  BY <1>1, <1>2 DEF Ask, Charge
<1>5. silences' \in Nat /\ mute' \in Nat
  BY <1>2 DEF Ask, InARow
<1>6. asks' \in [Urls -> 0 .. 2]
  <2>1. asks \in [Urls -> 0 .. 2]
    BY DEF Typed, TypeOK
  <2>2. CASE asks' = asks
    BY <2>1, <2>2
  <2>3. CASE asks' = [asks EXCEPT ![u] = IF @ = 2 THEN 2 ELSE @ + 1]
    <3>1. \A v \in Urls : asks[v] \in 0 .. 2
      BY <2>1
    <3>2. \A v \in Urls : asks'[v] = asks[v] \/ (asks[v] # 2 /\ asks'[v] = asks[v] + 1) \/ asks'[v] = 2
      BY <2>1, <2>3
    <3>3. \A v \in Urls : asks'[v] \in 0 .. 2
      BY <3>1, <3>2
    <3> QED
      BY <2>1, <2>3, <3>3
  <2> QED
    BY <2>2, <2>3 DEF Ask
<1> QED
  BY <1>3, <1>4, <1>5, <1>6

LEMMA CountDealt ==
    ASSUME NEW n \in Nat, NEW d \in 0 .. n, NEW m \in Nat, d <= m, m + 1 <= n
    PROVE  d + 1 \in 0 .. n /\ d + 1 <= m + 1
  OBVIOUS

LEMMA NewMissesType ==
    ASSUME Typed
    PROVE  /\ NewMisses \in Seq(Misses)
           /\ \A i \in DOMAIN list :
                 outcome[i] \in Ceilings \union FinalMisses => list[i].url \in Addresses(NewMisses)
<1> DEFINE s == [i \in DOMAIN list |-> [url |-> list[i].url, why |-> outcome[i]]]
           S == {s[i] : i \in DOMAIN list}
<1>1. Len(list) \in Nat /\ DOMAIN list = 1 .. Len(list)
  BY DEF Typed
<1>2. s \in [1 .. Len(list) -> S]
  BY <1>1
<1>3. s \in Seq(S) /\ DOMAIN s = DOMAIN list
  <2> HIDE DEF s, S
  <2> QED
    BY <1>1, <1>2
<1>4. NewMisses = Only(s, Misses)
  BY DEF NewMisses
<1>5. NewMisses \in Seq(Misses)
  <2> HIDE DEF s, S
  <2> QED
    BY <1>3, <1>4, OnlyIn
<1>6. ASSUME NEW i \in DOMAIN list, outcome[i] \in Ceilings \union FinalMisses
      PROVE  list[i].url \in Addresses(NewMisses)
  <2>1. s[i] \in Misses /\ s[i].url = list[i].url
    BY <1>6, ListType DEF Misses
  <2> HIDE DEF s, S
  <2>2. \E j \in DOMAIN NewMisses : NewMisses[j] = s[i]
    BY <1>3, <1>4, <2>1, OnlyLists
  <2> QED
    BY <2>1, <2>2 DEF Addresses
<1> QED
  BY <1>5, <1>6

\* With nothing in hand what belongs to a page is empty.
LEMMA EmptyIsTyped ==
    ASSUME Typed, EmptyHand,
           stored' \in [Captures -> SUBSET Urls], missed' \in [Captures -> Seq(Misses)],
           filed' \subseteq Captures, todo' \subseteq Captures,
           run' = run, late' = late, known' = known, stops' \in 0 .. MaxStops
    PROVE  Typed'
<1>1. /\ hand' = NoCapture /\ list' = <<>> /\ outcome' = <<>> /\ rescued' = {} /\ current' = 0
      /\ asked' = {} /\ wired' = 0 /\ mute' = 0 /\ asks' = asks
      /\ dealt' = 0 /\ bytes' = 0 /\ silences' = 0
  BY DEF EmptyHand, FreshBudget
<1>2. Settled' = {} /\ Len(list') = 0
  BY <1>1 DEF Settled
<1>3. Cardinality(Settled') = 0
  BY <1>2, FS_EmptySet
<1> QED
  BY <1>1, <1>2, <1>3 DEF Typed, TypeOK

LEMMA TypedKept ==
    ASSUME Typed, [Next]_vars PROVE Typed'
<1> USE DEF record, budget, history, page
<1>0. Len(list) \in Nat /\ Cardinality(Settled) \in Nat /\ Cardinality(Settled) <= Len(list)
  BY SettledCount
<1>1. ASSUME UNCHANGED vars PROVE Typed'
  BY <1>1 DEF vars, Typed, TypeOK, Settled
<1>2. ASSUME NEW c \in Captures, TakeUp(c) PROVE Typed'
  <2>1. /\ hand' = c /\ hand' # NoCapture /\ hand = NoCapture /\ todo' = todo \ {c}
        /\ list' = IF run = "crawl" THEN Refs[c] ELSE Retries(c)
    BY <1>2, NamesAssumption DEF TakeUp
  <2>2. list' \in Seq(RefRecords)
    BY <2>1, RetriesType, RefsAssumption DEF RefRecords
  <2>3. current = 0 /\ current' = 0
    BY <1>2, <2>1 DEF Typed, TypeOK, TakeUp
  <2>4. /\ outcome' = [i \in DOMAIN list' |-> "none"] /\ dealt' = 0 /\ bytes' = 0 /\ silences' = 0
        /\ rescued' = {} /\ asked' = {} /\ wired' = 0 /\ mute' = 0
        /\ UNCHANGED <<stored, missed, filed, run, late, known, asks, stops>>
    BY <1>2 DEF TakeUp, FreshBudget
  <2>5. Len(list') \in Nat /\ Settled' = {}
    BY <2>2, <2>4 DEF Settled
  <2>6. dealt' <= Cardinality(Settled')
    BY <2>4, <2>5, FS_EmptySet
  <2>7. TypeOK'
    BY <2>1, <2>3, <2>4, <2>5 DEF Typed, TypeOK
  <2> QED
    BY <2>1, <2>2, <2>3, <2>6, <2>7 DEF Typed
<1>3. ASSUME NEW i \in DOMAIN list, Serve(i) PROVE Typed'
  <2>1. IsNext(i) /\ Settle(i, known[list[i].url]) /\ known[list[i].url] # "unknown"
    BY <1>3 DEF Serve, Known
  <2>2. list[i].url \in Urls
    BY ListType
  <2>3. known[list[i].url] \in Ceilings \union Learned
    BY <2>1, <2>2 DEF Typed, TypeOK
  <2>4. /\ UNCHANGED <<stored, missed, filed, run, todo, late, known, dealt, bytes, silences>>
        /\ UNCHANGED <<asks, asked, wired, mute, stops>>
    BY <1>3 DEF Serve
  <2> QED
    BY <1>0, <2>1, <2>3, <2>4, SettleType DEF Typed, TypeOK
<1>4. ASSUME NEW i \in DOMAIN list, Refuse(i) PROVE Typed'
  <2>1. IsNext(i) /\ Settle(i, NoRoom) /\ NoRoom \in Ceilings \union Learned
    BY <1>4 DEF Refuse, NoRoom, Ceilings
  <2>2. /\ UNCHANGED <<stored, missed, filed, run, todo, late, known, bytes, silences>>
        /\ UNCHANGED <<asks, asked, wired, mute, stops>> /\ dealt' = dealt + 1
    BY <1>4 DEF Refuse
  <2>3. dealt' \in 0 .. Len(list) /\ dealt' <= Cardinality(Settled')
    BY <1>0, <2>1, <2>2, CountDealt, SettleType DEF Typed, TypeOK
  <2> QED
    BY <2>1, <2>2, <2>3, SettleType DEF Typed, TypeOK
<1>5. ASSUME NEW i \in DOMAIN list, AskFor(i) PROVE Typed'
  <2>1. PICK a \in Answers(list[i].url) : Ask(list[i].url, a) /\ Settle(i, a.learned)
    BY <1>5 DEF AskFor
  <2>2. IsNext(i) /\ a.learned \in Ceilings \union Learned
    BY <1>5, AnswersType DEF AskFor
  <2>3. /\ UNCHANGED <<stored, missed, filed, run, todo, late, stops>>
        /\ dealt' = dealt + 1 /\ asked' = asked \union {i}
    BY <1>5 DEF AskFor
  <2>4. dealt' \in 0 .. Len(list) /\ dealt' <= Cardinality(Settled')
    BY <1>0, <2>1, <2>2, <2>3, CountDealt, SettleType DEF Typed, TypeOK
  <2>5. asked' \subseteq DOMAIN list
    BY <2>3 DEF Typed, TypeOK
  <2>6. /\ UNCHANGED <<hand, list, rescued>>
        /\ outcome' \in [DOMAIN list -> Ceilings \union Learned \union {"none"}]
        /\ current' \in {0} \union DOMAIN list
        /\ current' # 0 => list[current'].fallback \in Urls
    BY <2>1, <2>2, SettleType
  <2>7. /\ known' \in [Urls -> Learned \union {"unknown"}]
        /\ bytes' \in Nat /\ silences' \in Nat /\ wired' \in Nat /\ mute' \in Nat
        /\ asks' \in [Urls -> 0 .. 2]
    BY <2>1, AskType
  <2> QED
    BY <2>3, <2>4, <2>5, <2>6, <2>7 DEF Typed, TypeOK
<1>6. ASSUME TryFallback PROVE Typed'
  <2>1. /\ UNCHANGED <<stored, missed, filed, run, todo, late, hand, list, outcome, dealt, stops>>
        /\ current # 0 /\ current' = 0 /\ asked' = asked
    BY <1>6 DEF TryFallback
  <2> DEFINE u == list[current].fallback
  <2>2. u \in Urls /\ u # NoUrl
    BY <2>1, NamesAssumption DEF Typed
  <2>3. rescued' \subseteq Urls
    BY <1>6, <2>2 DEF TryFallback, Typed, TypeOK
  <2>4. /\ known' \in [Urls -> Learned \union {"unknown"}]
        /\ bytes' \in Nat /\ silences' \in Nat /\ wired' \in Nat /\ mute' \in Nat
        /\ asks' \in [Urls -> 0 .. 2]
    <3>1. CASE \E a \in Answers(u) : Ask(u, a)
      <4> HIDE DEF u
      <4> QED
        BY <3>1, AskType
    <3>2. CASE UNCHANGED <<known, bytes, silences, asks, asked, wired, mute>>
      BY <3>2 DEF Typed, TypeOK
    <3> QED
      BY <1>6, <3>1, <3>2 DEF TryFallback
  <2>5. Settled' = Settled
    BY <2>1 DEF Settled
  <2> HIDE DEF u
  <2> QED
    BY <2>1, <2>3, <2>4, <2>5 DEF Typed, TypeOK
<1>7. ASSUME Finish PROVE Typed'
  <2>1. /\ hand \in Captures /\ stored[hand] \subseteq Urls /\ missed[hand] \in Seq(Misses)
        /\ rescued \subseteq Urls
    BY <1>7 DEF Finish, Typed, TypeOK
  <2> DEFINE held == stored[hand] \union NewlyStored \union rescued
             merged == MergeMisses(missed[hand], NewMisses)
             rest == Only(merged, [url : Urls \ held, why : Ceilings \union FinalMisses])
  <2>2. stored' = [stored EXCEPT ![hand] = held] /\ missed' = [missed EXCEPT ![hand] = rest]
    BY <1>7 DEF Finish
  <2>3. NewlyStored \subseteq Urls
    BY ListType DEF NewlyStored
  <2>4. rest \in Seq(Misses)
    BY <2>1, NewMissesType, MergeLists, OnlyLists
  <2>5. EmptyHand /\ UNCHANGED <<run, todo, late, known, stops>> /\ filed' = filed \union {hand}
    BY <1>7 DEF Finish
  <2>6. stored' \in [Captures -> SUBSET Urls] /\ missed' \in [Captures -> Seq(Misses)]
    <3> HIDE DEF rest
    <3> QED
      BY <2>1, <2>2, <2>3, <2>4 DEF Typed, TypeOK
  <2>7. filed' \subseteq Captures /\ todo' \subseteq Captures /\ stops' \in 0 .. MaxStops
    BY <2>1, <2>5 DEF Typed, TypeOK
  <2> QED
    BY <2>5, <2>6, <2>7, EmptyIsTyped
<1>8. ASSUME NextPhase \/ BeginRepass PROVE Typed'
  <2>1. NewPass
    BY <1>8 DEF NextPhase, BeginRepass
  <2>2. /\ UNCHANGED <<stored, missed, filed, hand, list, outcome, rescued, current, dealt, bytes, silences>>
        /\ UNCHANGED <<asked, wired, mute>>
    BY <2>1 DEF NewPass
  <2>3. /\ run' \in {"crawl", "repass"} /\ late' \in BOOLEAN /\ todo' \subseteq Captures
        /\ stops' = stops
    BY <1>8, <2>1 DEF NextPhase, BeginRepass, NewPass, Typed, TypeOK
  <2> QED
    BY <2>1, <2>2, <2>3 DEF NewPass, Typed, TypeOK, Settled
<1>9. ASSUME TimeRunsOut PROVE Typed'
  BY <1>9 DEF TimeRunsOut, Typed, TypeOK, Settled
<1>10. ASSUME Stop PROVE Typed'
  <2>1. EmptyHand /\ UNCHANGED <<stored, missed, filed, run, late, known>> /\ todo' = {}
    BY <1>10 DEF Stop
  <2>2. stops' \in 0 .. MaxStops
    BY <1>10, CeilingAssumption DEF Stop, Typed, TypeOK
  <2> QED
    BY <2>1, <2>2, EmptyIsTyped DEF Typed, TypeOK
<1> QED
  BY <1>1, <1>2, <1>3, <1>4, <1>5, <1>6, <1>7, <1>8, <1>9, <1>10
  DEF Next, Step

LEMMA TypedAlways == Spec => []Typed
<1>1. ASSUME Init PROVE Typed
  <2>1. list = <<>> /\ dealt = 0 /\ current = 0 /\ outcome = <<>>
    BY <1>1 DEF Init
  <2>2. Settled = {} /\ Len(list) = 0
    BY <2>1 DEF Settled
  <2>3. dealt <= Cardinality(Settled)
    BY <2>1, <2>2, FS_EmptySet
  <2>4. MaxStops \in Nat
    BY CeilingAssumption
  <2>5. \A c \in Captures : <<>> \in Seq(Misses)
    OBVIOUS
  <2>6. outcome \in [DOMAIN list -> Ceilings \union Learned \union {"none"}]
    BY <2>1
  <2>7. missed \in [Captures -> Seq(Misses)] /\ stored \in [Captures -> SUBSET Urls]
    BY <1>1, <2>5 DEF Init
  <2>8. known \in [Urls -> Learned \union {"unknown"}] /\ asks \in [Urls -> 0 .. 2]
    BY <1>1 DEF Init
  <2>9. TypeOK
    <3>1. /\ filed = {} /\ todo = Captures /\ run = "crawl" /\ late = FALSE /\ hand = NoCapture
          /\ rescued = {} /\ bytes = 0 /\ silences = 0 /\ asked = {} /\ wired = 0 /\ mute = 0
          /\ stops = 0
      BY <1>1 DEF Init
    <3>2. dealt \in 0 .. Len(list) /\ stops \in 0 .. MaxStops
      BY <2>1, <2>2, <2>4, <3>1
    <3> QED
      BY <2>1, <2>6, <2>7, <2>8, <3>1, <3>2 DEF TypeOK
  <2> QED
    BY <1>1, <2>1, <2>3, <2>9 DEF Init, Typed
<1>2. Typed /\ [Next]_vars => Typed'
  BY TypedKept
<1> QED
  BY <1>1, <1>2, PTL DEF Spec

\* Type correctness, the count of references dealt with included.
THEOREM TypeCorrect == Spec => []TypeOK
<1>1. Typed => TypeOK
  BY DEF Typed
<1> QED
  BY <1>1, TypedAlways, PTL

-----------------------------------------------------------------------------
(* One request for one address *)

\* An address that was asked for is known, whatever came of it.
AskedIsKnown ==
    /\ known \in [Urls -> Learned \union {"unknown"}]
    /\ asks \in [Urls -> Nat]
    /\ \A u \in Urls : asks[u] <= 1 /\ (known[u] = "unknown" => asks[u] = 0)

LEMMA AskKeepsKnown ==
    ASSUME AskedIsKnown, NEW u, NEW a, Ask(u, a), known[u] = "unknown"
    PROVE  AskedIsKnown'
<1>1. a.learned \in Learned
  BY AnswersType DEF Ask
<1>2. known' = [known EXCEPT ![u] = a.learned]
  BY DEF Ask, Remember
<1>3. asks' = asks \/ asks' = [asks EXCEPT ![u] = IF @ = 2 THEN 2 ELSE @ + 1]
  BY DEF Ask
<1>4. "unknown" \notin Learned
  BY DEF Learned, FinalMisses
<1>5. \A v \in Urls : known'[v] = (IF v = u THEN a.learned ELSE known[v])
  BY <1>2 DEF AskedIsKnown
<1>6. \A v \in Urls : \/ asks'[v] = asks[v]
                      \/ (v = u /\ asks[v] = 0 /\ asks'[v] = 1)
  BY <1>3 DEF AskedIsKnown
<1>7. known' \in [Urls -> Learned \union {"unknown"}]
  BY <1>1, <1>2 DEF AskedIsKnown
<1>8. asks' \in [Urls -> Nat]
  BY <1>3 DEF AskedIsKnown
<1> QED
  BY <1>1, <1>4, <1>5, <1>6, <1>7, <1>8 DEF AskedIsKnown

LEMMA AskedIsKnownKept ==
    ASSUME AskedIsKnown, [Next]_vars PROVE AskedIsKnown'
<1> USE DEF record, budget, history, page
<1> DEFINE Untouched == UNCHANGED <<known, asks>>
<1>0. Untouched => AskedIsKnown'
  BY DEF AskedIsKnown
<1>1. ASSUME UNCHANGED vars PROVE Untouched
  BY <1>1 DEF vars
<1>2. ASSUME NEW c \in Captures, TakeUp(c) PROVE Untouched
  BY <1>2 DEF TakeUp
<1>3. ASSUME NEW i \in DOMAIN list, Serve(i) PROVE Untouched
  BY <1>3 DEF Serve
<1>4. ASSUME NEW i \in DOMAIN list, Refuse(i) PROVE Untouched
  BY <1>4 DEF Refuse
<1>5. ASSUME NEW i \in DOMAIN list, AskFor(i) PROVE AskedIsKnown'
  <2>1. PICK a \in Answers(list[i].url) : Ask(list[i].url, a)
    BY <1>5 DEF AskFor
  <2>2. known[list[i].url] = "unknown"
    BY <1>5 DEF AskFor, Known
  <2> QED
    BY <2>1, <2>2, AskKeepsKnown
<1>6. ASSUME TryFallback PROVE AskedIsKnown'
  <2> DEFINE u == list[current].fallback
  <2>1. CASE known[u] = "unknown" /\ \E a \in Answers(u) : Ask(u, a)
    <3>1. PICK a \in Answers(u) : Ask(u, a)
      BY <2>1
    <3> HIDE DEF u
    <3> QED
      BY <2>1, <3>1, AskKeepsKnown
  <2> QED
    BY <1>0, <1>6, <2>1 DEF TryFallback
<1>7. ASSUME Finish PROVE Untouched
  BY <1>7 DEF Finish, EmptyHand
<1>8. ASSUME NewPass PROVE AskedIsKnown'
  BY <1>8 DEF NewPass, AskedIsKnown
<1>9. ASSUME TimeRunsOut PROVE Untouched
  BY <1>9 DEF TimeRunsOut
<1>10. ASSUME Stop PROVE Untouched
  BY <1>10 DEF Stop, EmptyHand
<1> HIDE DEF Untouched
<1> QED
  BY <1>0, <1>1, <1>2, <1>3, <1>4, <1>5, <1>6, <1>7, <1>8, <1>9, <1>10
  DEF Next, Step, NextPhase, BeginRepass

\* A pass sends one request for an address, whichever captures name it, for
\* itself or as a fallback, and whatever it came back as.
THEOREM NothingIsAskedTwice == Spec => []AskedOncePerPass
<1>1. Init => AskedIsKnown
  BY DEF Init, AskedIsKnown
<1>2. AskedIsKnown /\ [Next]_vars => AskedIsKnown'
  BY AskedIsKnownKept
<1>3. AskedIsKnown => AskedOncePerPass
  BY DEF AskedIsKnown, AskedOncePerPass
<1> QED
  BY <1>1, <1>2, <1>3, PTL DEF Spec

-----------------------------------------------------------------------------
(* Silences and bytes *)

\* The counters of the code are what was spent, and neither ceiling is
\* crossed by more than the response that met it.
Metered ==
    /\ silences \in Nat /\ mute = silences /\ silences <= MaxSilences
    /\ bytes \in Nat /\ wired = bytes
    /\ \E last \in Sizes \union {0} : bytes - last < MaxCaptureBytes

LEMMA AskKeepsMetered ==
    ASSUME Metered, NEW u, NEW a, Ask(u, a), silences < MaxSilences, bytes < MaxCaptureBytes
    PROVE  Metered'
<1>1. a.size \in Sizes \union {0} /\ a.size \in Nat
  BY AnswersType DEF Ask
<1>2. MaxSilences \in Nat /\ MaxCaptureBytes \in Nat
  BY CeilingAssumption
<1>3. bytes' = bytes + a.size /\ wired' = wired + a.size
  BY DEF Ask, Charge
<1>4. silences' = InARow(silences, a) /\ mute' = InARow(mute, a)
  BY DEF Ask
<1>5. a.wire \in {"silent", "answered", "nothing_sent"}
  BY AnswersType DEF Ask
<1>6. InARow(silences, a) \in Nat /\ InARow(silences, a) <= MaxSilences
  BY <1>2, <1>5 DEF InARow, Metered
<1>7. (bytes + a.size) - a.size < MaxCaptureBytes /\ bytes + a.size \in Nat
  BY <1>1, <1>2 DEF Metered
<1> QED
  BY <1>1, <1>3, <1>4, <1>6, <1>7 DEF Metered

LEMMA MeteredKept ==
    ASSUME Metered, [Next]_vars PROVE Metered'
<1> USE DEF record, budget, history, page
<1> DEFINE Untouched == UNCHANGED <<silences, mute, bytes, wired>>
           Cleared == silences' = 0 /\ mute' = 0 /\ bytes' = 0 /\ wired' = 0
<1>0. Untouched \/ Cleared => Metered'
  BY CeilingAssumption DEF Metered
<1>a. MaxSilences \in Nat /\ MaxCaptureBytes \in Nat /\ silences \in Nat /\ bytes \in Nat
  BY CeilingAssumption DEF Metered
<1>1. ASSUME UNCHANGED vars PROVE Untouched
  BY <1>1 DEF vars
<1>2. ASSUME NEW c \in Captures, TakeUp(c) PROVE Cleared
  BY <1>2 DEF TakeUp, FreshBudget
<1>3. ASSUME NEW i \in DOMAIN list, Serve(i) PROVE Untouched
  BY <1>3 DEF Serve
<1>4. ASSUME NEW i \in DOMAIN list, Refuse(i) PROVE Untouched
  BY <1>4 DEF Refuse
<1>5. ASSUME NEW i \in DOMAIN list, AskFor(i) PROVE Metered'
  <2>1. PICK a \in Answers(list[i].url) : Ask(list[i].url, a)
    BY <1>5 DEF AskFor
  <2>2. silences < MaxSilences /\ bytes < MaxCaptureBytes
    BY <1>5, <1>a DEF AskFor, NoRoom
  <2> QED
    BY <2>1, <2>2, AskKeepsMetered
<1>6. ASSUME TryFallback PROVE Metered'
  <2> DEFINE u == list[current].fallback
  <2>1. CASE ~ NoRoomForAFallback /\ \E a \in Answers(u) : Ask(u, a)
    <3>1. PICK a \in Answers(u) : Ask(u, a)
      BY <2>1
    <3>2. silences < MaxSilences /\ bytes < MaxCaptureBytes
      BY <1>a, <2>1 DEF NoRoomForAFallback
    <3> HIDE DEF u
    <3> QED
      BY <3>1, <3>2, AskKeepsMetered
  <2> QED
    BY <1>0, <1>6, <2>1 DEF TryFallback
<1>7. ASSUME Finish PROVE Cleared
  BY <1>7 DEF Finish, EmptyHand, FreshBudget
<1>8. ASSUME NewPass PROVE Untouched
  BY <1>8 DEF NewPass
<1>9. ASSUME TimeRunsOut PROVE Untouched
  BY <1>9 DEF TimeRunsOut
<1>10. ASSUME Stop PROVE Cleared
  BY <1>10 DEF Stop, EmptyHand, FreshBudget
<1> HIDE DEF Untouched, Cleared
<1> QED
  BY <1>0, <1>1, <1>2, <1>3, <1>4, <1>5, <1>6, <1>7, <1>8, <1>9, <1>10
  DEF Next, Step, NextPhase, BeginRepass

LEMMA MeteredAlways == Spec => []Metered
<1>1. Init => Metered
  BY CeilingAssumption DEF Init, Metered
<1>2. Metered /\ [Next]_vars => Metered'
  BY MeteredKept
<1> QED
  BY <1>1, <1>2, PTL DEF Spec

\* A capture waits out no more silences in a row than its ceiling, those of
\* its fallbacks included.
THEOREM WaitsAreBounded == Spec => []SilenceIsBounded
<1>1. Metered => SilenceIsBounded
  BY DEF Metered, SilenceIsBounded
<1> QED
  BY <1>1, MeteredAlways, PTL

\* What a capture transfers crosses its ceiling by one response at most.
THEOREM BytesAreBounded == Spec => []TransferIsBounded
<1>1. Metered => TransferIsBounded
  BY DEF Metered, TransferIsBounded
<1> QED
  BY <1>1, MeteredAlways, PTL

-----------------------------------------------------------------------------
(* What the pass holds *)

\* A reference settled from the memo, by a refusal or by asking.
LEMMA SettleLists ==
    ASSUME Typed, HeldBytesAreListed, NEW i \in DOMAIN list, IsNext(i),
           NEW l \in Ceilings \union Learned, Settle(i, l),
           \A j \in DOMAIN list : list[j].url # list[i].url => known'[list[j].url] = known[list[j].url],
           known'[list[i].url] = "stored" => l = "stored"
    PROVE  HeldBytesAreListed'
<1>1. list' = list /\ rescued' = rescued
      /\ \A j \in DOMAIN list : outcome'[j] = IF j = i THEN l ELSE outcome[j]
  BY SettleType
<1>2. outcome[i] = "none"
  BY DEF IsNext, Pending
<1>3. NewlyStored \subseteq NewlyStored'
  BY <1>1, <1>2 DEF NewlyStored
<1>4. l = "stored" => list[i].url \in NewlyStored'
  BY <1>1 DEF NewlyStored
<1> SUFFICES ASSUME NEW j \in DOMAIN list, outcome'[j] # "none", known'[list[j].url] = "stored"
             PROVE  list[j].url \in NewlyStored' \union rescued'
  BY <1>1 DEF HeldBytesAreListed
<1>5. CASE list[j].url = list[i].url
  BY <1>4, <1>5
<1>6. CASE list[j].url # list[i].url
  <2>1. j # i /\ known[list[j].url] = "stored" /\ outcome[j] # "none"
    BY <1>1, <1>6
  <2> QED
    BY <1>1, <1>3, <2>1 DEF HeldBytesAreListed
<1> QED
  BY <1>5, <1>6

LEMMA ListedKept ==
    ASSUME Typed, HeldBytesAreListed, [Next]_vars PROVE HeldBytesAreListed'
<1> USE DEF record, budget, history, page
<1> DEFINE Untouched == UNCHANGED <<known, list, outcome, rescued>>
           Emptied == list' = <<>>
<1>0. Untouched => HeldBytesAreListed'
  BY DEF HeldBytesAreListed, NewlyStored
<1>a. Emptied => HeldBytesAreListed'
  BY DEF HeldBytesAreListed
<1>b. \A i \in DOMAIN list : list[i].url \in Urls
  BY ListType
<1>c. known \in [Urls -> Learned \union {"unknown"}] /\ \A u \in Urls : known[u] # "unknown" => known[u] \in Learned
  BY DEF Typed, TypeOK
<1>1. ASSUME UNCHANGED vars PROVE Untouched
  BY <1>1 DEF vars
<1>2. ASSUME NEW c \in Captures, TakeUp(c) PROVE HeldBytesAreListed'
  <2>1. outcome' = [i \in DOMAIN list' |-> "none"]
    BY <1>2 DEF TakeUp
  <2> QED
    BY <2>1 DEF HeldBytesAreListed
<1>3. ASSUME NEW i \in DOMAIN list, Serve(i) PROVE HeldBytesAreListed'
  <2>1. IsNext(i) /\ Settle(i, known[list[i].url]) /\ known' = known
    BY <1>3 DEF Serve
  <2>2. known[list[i].url] \in Ceilings \union Learned
    BY <1>3, <1>b, <1>c DEF Serve, Known
  <2> QED
    BY <2>1, <2>2, SettleLists
<1>4. ASSUME NEW i \in DOMAIN list, Refuse(i) PROVE HeldBytesAreListed'
  <2>1. IsNext(i) /\ Settle(i, NoRoom) /\ known' = known /\ NoRoom \in Ceilings \union Learned
    BY <1>4 DEF Refuse, NoRoom, Ceilings
  <2>2. known[list[i].url] = "unknown"
    BY <1>4 DEF Refuse, Known
  <2> QED
    BY <2>1, <2>2, SettleLists
<1>5. ASSUME NEW i \in DOMAIN list, AskFor(i) PROVE HeldBytesAreListed'
  <2>1. PICK a \in Answers(list[i].url) : Ask(list[i].url, a) /\ Settle(i, a.learned)
    BY <1>5 DEF AskFor
  <2>2. IsNext(i) /\ a.learned \in Ceilings \union Learned
    BY <1>5, AnswersType DEF AskFor
  <2>3. known' = [known EXCEPT ![list[i].url] = a.learned]
    BY <2>1 DEF Ask, Remember
  <2>4. /\ \A j \in DOMAIN list : list[j].url # list[i].url => known'[list[j].url] = known[list[j].url]
        /\ known'[list[i].url] = a.learned
    BY <1>b, <1>c, <2>3
  <2> QED
    BY <2>1, <2>2, <2>4, SettleLists
<1>6. ASSUME TryFallback PROVE HeldBytesAreListed'
  <2> DEFINE u == list[current].fallback
  <2>1. UNCHANGED <<list, outcome>> /\ NewlyStored' = NewlyStored
    BY <1>6 DEF TryFallback, NewlyStored
  <2>2. CASE known' = known /\ rescued \subseteq rescued'
    BY <2>1, <2>2 DEF HeldBytesAreListed
  <2>3. ASSUME NEW a \in Answers(u), Ask(u, a),
               rescued' = IF a.learned = "stored" THEN rescued \union {u} ELSE rescued
        PROVE  HeldBytesAreListed'
    <3>1. known' = [known EXCEPT ![u] = a.learned]
      BY <2>3 DEF Ask, Remember
    <3> HIDE DEF u
    <3>2. \A i \in DOMAIN list : \/ known'[list[i].url] = known[list[i].url]
                                 \/ (list[i].url = u /\ known'[list[i].url] = a.learned)
      BY <1>b, <1>c, <3>1
    <3> QED
      BY <2>1, <2>3, <3>2 DEF HeldBytesAreListed
  <2> QED
    BY <1>6, <2>2, <2>3 DEF TryFallback
<1>7. ASSUME Finish PROVE Emptied
  BY <1>7 DEF Finish, EmptyHand
<1>8. ASSUME NewPass, hand = NoCapture PROVE Emptied
  BY <1>8 DEF NewPass, Typed
<1>9. ASSUME TimeRunsOut PROVE Untouched
  BY <1>9 DEF TimeRunsOut
<1>10. ASSUME Stop PROVE Emptied
  BY <1>10 DEF Stop, EmptyHand
<1> HIDE DEF Untouched, Emptied
<1> QED
  BY <1>0, <1>a, <1>1, <1>2, <1>3, <1>4, <1>5, <1>6, <1>7, <1>8, <1>9, <1>10
  DEF Next, Step, NextPhase, BeginRepass

\* Bytes the pass already held when a reference came up are in the record of
\* its capture, whatever ceiling the capture had reached.
THEOREM HeldBytesAreKept == Spec => []HeldBytesAreListed
<1>1. Init => HeldBytesAreListed
  BY DEF Init, HeldBytesAreListed
<1>2. Typed /\ HeldBytesAreListed /\ [Next]_vars => HeldBytesAreListed'
  BY ListedKept
<1> QED
  BY <1>1, <1>2, TypedAlways, PTL DEF Spec

-----------------------------------------------------------------------------
(* Whom a ceiling hits first *)

\* What is settled comes before what is pending, and a ceiling that refused a
\* reference of this list is still reached, so nothing was asked for since.
Ranked ==
    /\ asked \subseteq Settled
    /\ \A i \in Settled, j \in Pending : list[i].rank <= list[j].rank
    /\ \A i \in DOMAIN list : /\ outcome[i] = "count_ceiling" => dealt >= MaxPerCapture
                              /\ outcome[i] = "byte_ceiling" => bytes >= MaxCaptureBytes
    /\ LesserKindsLoseFirst

LEMMA AtLeast ==
    ASSUME NEW x \in Nat, NEW y \in Nat, NEW m \in Nat, y >= x, x >= m PROVE y >= m
  OBVIOUS

\* Settling the next reference, when what was asked for is no lesser than it.
LEMMA SettleRanks ==
    ASSUME Typed, Ranked, NEW i \in DOMAIN list, IsNext(i),
           NEW l \in Ceilings \union Learned, Settle(i, l),
           dealt' \in Nat, dealt' >= dealt, bytes' \in Nat, bytes' >= bytes,
           l = "count_ceiling" => dealt >= MaxPerCapture,
           l = "byte_ceiling" => bytes >= MaxCaptureBytes,
           \/ asked' = asked
           \/ /\ asked' = asked \union {i} /\ l \in Learned
              /\ dealt < MaxPerCapture /\ bytes < MaxCaptureBytes
    PROVE  Ranked'
<1>a. MaxPerCapture \in Nat /\ MaxCaptureBytes \in Nat /\ dealt \in Nat /\ bytes \in Nat
  <2>1. MaxPerCapture \in Nat /\ MaxCaptureBytes \in Nat
    BY CeilingAssumption
  <2>2. dealt \in Nat /\ bytes \in Nat
    BY DEF Typed, TypeOK
  <2> QED
    BY <2>1, <2>2
<1>b. \A j \in DOMAIN list : list[j].rank \in Nat
  BY ListType
<1>1. /\ list' = list /\ Settled' = Settled \union {i} /\ i \notin Settled
      /\ \A j \in DOMAIN list : outcome'[j] = IF j = i THEN l ELSE outcome[j]
  BY SettleType
<1>2. Pending' = Pending \ {i} /\ i \in Pending
  BY <1>1 DEF Pending, IsNext, Ceilings, Learned, FinalMisses
<1>3. asked' \subseteq Settled'
  BY <1>1 DEF Ranked
<1>4. \A j \in Pending : list[i].rank <= list[j].rank
  BY <1>b DEF IsNext, Before, Pending
<1>5. \A k \in Settled', j \in Pending' : list[k].rank <= list[j].rank
  BY <1>1, <1>2, <1>4 DEF Ranked
<1>6. dealt >= MaxPerCapture => dealt' >= MaxPerCapture
  BY <1>a, AtLeast
<1>7. bytes >= MaxCaptureBytes => bytes' >= MaxCaptureBytes
  BY <1>a, AtLeast
<1>8. \A k \in DOMAIN list : /\ outcome'[k] = "count_ceiling" => dealt >= MaxPerCapture
                             /\ outcome'[k] = "byte_ceiling" => bytes >= MaxCaptureBytes
  BY <1>1 DEF Ranked
<1>9. LesserKindsLoseFirst'
  <2> SUFFICES ASSUME NEW k \in DOMAIN list, NEW j \in asked',
                      outcome'[k] \in {"count_ceiling", "byte_ceiling"}
               PROVE  list[j].rank <= list[k].rank
    BY <1>1 DEF LesserKindsLoseFirst
  <2>1. asked' = asked
    <3>1. dealt >= MaxPerCapture \/ bytes >= MaxCaptureBytes
      BY <1>8
    <3> QED
      BY <1>a, <3>1
  <2>2. CASE k = i
    BY <1>2, <2>1, <2>2 DEF Ranked
  <2>3. CASE k # i
    <3>1. outcome[k] \in {"count_ceiling", "byte_ceiling"}
      BY <1>1, <2>3
    <3> QED
      BY <2>1, <3>1 DEF Ranked, LesserKindsLoseFirst
  <2> QED
    BY <2>2, <2>3
<1> QED
  BY <1>1, <1>3, <1>5, <1>6, <1>7, <1>8, <1>9 DEF Ranked

LEMMA RankedKept ==
    ASSUME Typed, Typed', Ranked, [Next]_vars PROVE Ranked'
<1> USE DEF record, budget, history, page
<1> DEFINE Untouched == UNCHANGED <<list, outcome, asked, dealt, bytes>>
           Emptied == list' = <<>> /\ asked' = {}
<1>0. Untouched => Ranked'
  BY DEF Ranked, LesserKindsLoseFirst, Settled, Pending
<1>a. Emptied => Ranked'
  BY DEF Ranked, LesserKindsLoseFirst, Settled, Pending
<1>b. dealt \in Nat /\ bytes \in Nat /\ dealt' \in Nat /\ bytes' \in Nat
  BY DEF Typed, TypeOK
<1>c. MaxPerCapture \in Nat /\ MaxCaptureBytes \in Nat
  BY CeilingAssumption
<1>1. ASSUME UNCHANGED vars PROVE Untouched
  BY <1>1 DEF vars
<1>2. ASSUME NEW c \in Captures, TakeUp(c) PROVE Ranked'
  <2>1. outcome' = [i \in DOMAIN list' |-> "none"] /\ asked' = {}
    BY <1>2 DEF TakeUp
  <2>2. Settled' = {}
    BY <2>1 DEF Settled
  <2> QED
    BY <2>1, <2>2 DEF Ranked, LesserKindsLoseFirst
<1>3. ASSUME NEW i \in DOMAIN list, Serve(i) PROVE Ranked'
  <2>1. /\ IsNext(i) /\ Settle(i, known[list[i].url])
        /\ UNCHANGED <<dealt, bytes, asked>>
    BY <1>3 DEF Serve
  <2>2. known[list[i].url] \in Learned
    BY <1>3, ListType DEF Serve, Known, Typed, TypeOK
  <2>3. known[list[i].url] # "count_ceiling" /\ known[list[i].url] # "byte_ceiling"
    BY <2>2 DEF Learned, FinalMisses
  <2>4. dealt' >= dealt /\ bytes' >= bytes
    BY <1>b, <2>1
  <2> QED
    BY <1>b, <2>1, <2>2, <2>3, <2>4, SettleRanks
<1>4. ASSUME NEW i \in DOMAIN list, Refuse(i) PROVE Ranked'
  <2>1. IsNext(i) /\ Settle(i, NoRoom) /\ NoRoom \in Ceilings \union Learned
    BY <1>4 DEF Refuse, NoRoom, Ceilings
  <2>2. dealt' = dealt + 1 /\ bytes' = bytes /\ asked' = asked
    BY <1>4 DEF Refuse
  <2>3. /\ NoRoom = "count_ceiling" => dealt >= MaxPerCapture
        /\ NoRoom = "byte_ceiling" => bytes >= MaxCaptureBytes
    BY DEF NoRoom
  <2>4. dealt' >= dealt /\ bytes' >= bytes
    BY <1>b, <2>2
  <2> QED
    BY <1>b, <2>1, <2>2, <2>3, <2>4, SettleRanks
<1>5. ASSUME NEW i \in DOMAIN list, AskFor(i) PROVE Ranked'
  <2>1. PICK a \in Answers(list[i].url) : Ask(list[i].url, a) /\ Settle(i, a.learned)
    BY <1>5 DEF AskFor
  <2>2. IsNext(i) /\ a.learned \in Learned /\ a.size \in Nat
    BY <1>5, AnswersType DEF AskFor
  <2>3. a.learned # "count_ceiling" /\ a.learned # "byte_ceiling"
    BY <2>2 DEF Learned, FinalMisses
  <2>4. dealt < MaxPerCapture /\ bytes < MaxCaptureBytes
    BY <1>5, <1>b, <1>c DEF AskFor, NoRoom
  <2>5. dealt' = dealt + 1 /\ bytes' = bytes + a.size /\ asked' = asked \union {i}
    BY <1>5, <2>1 DEF AskFor, Ask, Charge
  <2>6. dealt' >= dealt /\ bytes' >= bytes
    BY <1>b, <2>2, <2>5
  <2> QED
    BY <1>b, <2>1, <2>2, <2>3, <2>4, <2>5, <2>6, SettleRanks
<1>6. ASSUME TryFallback PROVE Ranked'
  <2>1. UNCHANGED <<list, outcome, dealt, asked>>
    BY <1>6 DEF TryFallback
  <2>2. bytes' >= bytes
    <3>1. CASE \E a \in Answers(list[current].fallback) : Ask(list[current].fallback, a)
      <4>1. PICK a \in Answers(list[current].fallback) : Ask(list[current].fallback, a)
        BY <3>1
      <4>2. bytes' = bytes + a.size /\ a.size \in Nat
        BY <4>1, AnswersType DEF Ask, Charge
      <4> QED
        BY <1>b, <4>2
    <3>2. CASE bytes' = bytes
      BY <1>b, <3>2
    <3> QED
      BY <1>6, <3>1, <3>2 DEF TryFallback
  <2>3. bytes >= MaxCaptureBytes => bytes' >= MaxCaptureBytes
    BY <1>b, <1>c, <2>2, AtLeast
  <2> QED
    BY <2>1, <2>3 DEF Ranked, LesserKindsLoseFirst, Settled, Pending
<1>7. ASSUME Finish PROVE Emptied
  BY <1>7 DEF Finish, EmptyHand
<1>8. ASSUME NewPass PROVE Untouched
  BY <1>8 DEF NewPass
<1>9. ASSUME TimeRunsOut PROVE Untouched
  BY <1>9 DEF TimeRunsOut
<1>10. ASSUME Stop PROVE Emptied
  BY <1>10 DEF Stop, EmptyHand
<1> HIDE DEF Untouched, Emptied
<1> QED
  BY <1>0, <1>a, <1>1, <1>2, <1>3, <1>4, <1>5, <1>6, <1>7, <1>8, <1>9, <1>10
  DEF Next, Step, NextPhase, BeginRepass

\* No reference of a lesser kind was asked for on a page one of whose
\* references the count or the byte ceiling left out.
THEOREM CeilingsSpareTheText == Spec => []LesserKindsLoseFirst
<1>1. Init => Ranked
  BY DEF Init, Ranked, LesserKindsLoseFirst, Settled, Pending
<1>2. Typed /\ Typed' /\ Ranked /\ [Next]_vars => Ranked'
  BY RankedKept
<1>3. Ranked => LesserKindsLoseFirst
  BY DEF Ranked
<1> QED
  BY <1>1, <1>2, <1>3, TypedAlways, PTL DEF Spec

-----------------------------------------------------------------------------
(* What a record accounts for *)

\* A list taken during the crawl is the page's own; a repass only takes what
\* is filed, whose addresses its record has to keep.
Accounted ==
    /\ run = "crawl" /\ hand # NoCapture => list = Refs[hand]
    /\ run = "repass" => todo \subseteq filed /\ (hand # NoCapture => hand \in filed)
    /\ \A c \in Captures : Uniq(missed[c])
    /\ RecordAccountsForThePage

LEMMA FinishAccounts ==
    ASSUME Typed, Accounted, Finish PROVE Accounted'
<1> DEFINE held == stored[hand] \union NewlyStored \union rescued
           merged == MergeMisses(missed[hand], NewMisses)
           Kept == [url : Urls \ held, why : Ceilings \union FinalMisses]
           rest == Only(merged, Kept)
<1>1. /\ hand \in Captures /\ hand # NoCapture /\ Pending = {} /\ hand' = NoCapture
      /\ stored' = [stored EXCEPT ![hand] = held] /\ missed' = [missed EXCEPT ![hand] = rest]
      /\ filed' = filed \union {hand} /\ UNCHANGED <<run, todo>>
  BY DEF Finish, EmptyHand, Typed, TypeOK
<1>2. missed[hand] \in Seq(Misses) /\ NewMisses \in Seq(Misses) /\ Uniq(missed[hand])
  BY <1>1, NewMissesType DEF Typed, TypeOK, Accounted
<1>3. /\ merged \in Seq(Misses) /\ Uniq(merged)
      /\ Addresses(missed[hand]) \union Addresses(NewMisses) \subseteq Addresses(merged)
  BY <1>2, MergeLists
<1> HIDE DEF merged
<1>4. /\ \A j \in DOMAIN rest : rest[j] \in Kept
      /\ \A i \in DOMAIN merged : merged[i] \in Kept => \E j \in DOMAIN rest : rest[j] = merged[i]
      /\ Uniq(rest)
  <2> HIDE DEF Kept
  <2> QED
    BY <1>3, OnlyLists
<1> HIDE DEF rest
<1>5. \A i \in DOMAIN merged : merged[i] \in Misses
  BY <1>3
<1>6. Addresses(merged) \subseteq held \union Addresses(rest)
  <2> SUFFICES ASSUME NEW i \in DOMAIN merged, merged[i].url \notin held
               PROVE  merged[i].url \in Addresses(rest)
    BY DEF Addresses
  <2>1. merged[i] \in Kept
    BY <1>5 DEF Misses
  <2>2. PICK j \in DOMAIN rest : rest[j] = merged[i]
    BY <1>4, <2>1
  <2> QED
    BY <2>2 DEF Addresses
<1>7. held \intersect Addresses(rest) = {}
  BY <1>4 DEF Addresses
<1>8. {Refs[hand][i].url : i \in DOMAIN Refs[hand]} \subseteq held \union Addresses(rest)
  <2>1. CASE run = "crawl"
    <3>1. list = Refs[hand]
      BY <1>1, <2>1 DEF Accounted
    <3> SUFFICES ASSUME NEW i \in DOMAIN list PROVE list[i].url \in held \union Addresses(rest)
      BY <3>1
    <3>2. outcome[i] \in Ceilings \union Learned /\ outcome[i] # "none"
      BY <1>1 DEF Pending, Typed, TypeOK
    <3>3. CASE outcome[i] = "stored"
      BY <3>3 DEF NewlyStored
    <3>4. CASE outcome[i] # "stored"
      <4>1. outcome[i] \in Ceilings \union FinalMisses
        BY <3>2, <3>4 DEF Learned
      <4>2. list[i].url \in Addresses(NewMisses)
        BY <4>1, NewMissesType
      <4> HIDE DEF held
      <4> QED
        BY <1>3, <1>6, <4>2
    <3> QED
      BY <3>3, <3>4
  <2>2. CASE run = "repass"
    <3>1. hand \in filed
      BY <1>1, <2>2 DEF Accounted
    <3>2. {Refs[hand][i].url : i \in DOMAIN Refs[hand]} \subseteq stored[hand] \union Addresses(missed[hand])
      BY <3>1 DEF Accounted, RecordAccountsForThePage
    <3> QED
      BY <1>3, <1>6, <3>2
  <2> QED
    BY <2>1, <2>2 DEF Typed, TypeOK
<1> HIDE DEF held
<1>9. \A c \in Captures : /\ stored'[c] = IF c = hand THEN held ELSE stored[c]
                          /\ missed'[c] = IF c = hand THEN rest ELSE missed[c]
  BY <1>1 DEF Typed, TypeOK
<1>10. \A c \in Captures : Uniq(missed'[c])
  BY <1>4, <1>9 DEF Accounted
<1>11. RecordAccountsForThePage'
  <2> SUFFICES ASSUME NEW c \in filed'
               PROVE  /\ stored'[c] \intersect Addresses(missed'[c]) = {}
                      /\ {Refs[c][i].url : i \in DOMAIN Refs[c]} \subseteq
                            stored'[c] \union Addresses(missed'[c])
                      /\ \A i, j \in DOMAIN missed'[c] :
                            missed'[c][i].url = missed'[c][j].url => i = j
    BY DEF RecordAccountsForThePage, Addresses
  <2>1. c \in Captures /\ Uniq(missed'[c])
    BY <1>1, <1>10 DEF Typed, TypeOK
  <2>2. CASE c = hand
    BY <1>7, <1>8, <1>9, <2>1, <2>2 DEF Uniq
  <2>3. CASE c # hand
    BY <1>1, <1>9, <2>1, <2>3 DEF Accounted, RecordAccountsForThePage
  <2> QED
    BY <2>2, <2>3
<1> QED
  BY <1>1, <1>10, <1>11 DEF Accounted

LEMMA AccountedKept ==
    ASSUME Typed, Accounted, [Next]_vars PROVE Accounted'
<1> USE DEF record, budget, history, page
<1> DEFINE Untouched == UNCHANGED <<stored, missed, filed, run, todo, hand, list>>
<1>0. Untouched => Accounted'
  BY DEF Accounted, RecordAccountsForThePage, Addresses
<1>1. ASSUME UNCHANGED vars PROVE Untouched
  BY <1>1 DEF vars
<1>2. ASSUME NEW c \in Captures, TakeUp(c) PROVE Accounted'
  <2>1. /\ hand' = c /\ c \in todo /\ todo' \subseteq todo
        /\ list' = IF run = "crawl" THEN Refs[c] ELSE Retries(c)
        /\ UNCHANGED <<stored, missed, filed, run>>
    BY <1>2 DEF TakeUp
  <2> QED
    BY <2>1 DEF Accounted, RecordAccountsForThePage, Addresses
<1>3. ASSUME NEW i \in DOMAIN list, Serve(i) PROVE Untouched
  BY <1>3 DEF Serve, Settle
<1>4. ASSUME NEW i \in DOMAIN list, Refuse(i) PROVE Untouched
  BY <1>4 DEF Refuse, Settle
<1>5. ASSUME NEW i \in DOMAIN list, AskFor(i) PROVE Untouched
  BY <1>5 DEF AskFor, Settle
<1>6. ASSUME TryFallback PROVE Untouched
  BY <1>6 DEF TryFallback
<1>7. ASSUME Finish PROVE Accounted'
  BY <1>7, FinishAccounts
<1>8. ASSUME NextPhase PROVE Untouched
  BY <1>8 DEF NextPhase, NewPass
<1>9. ASSUME BeginRepass PROVE Accounted'
  <2>1. /\ hand = NoCapture /\ hand' = hand /\ run' = "repass" /\ todo' = filed
        /\ UNCHANGED <<stored, missed, filed>>
    BY <1>9 DEF BeginRepass, NewPass
  <2> QED
    BY <2>1 DEF Accounted, RecordAccountsForThePage, Addresses
<1>10. ASSUME TimeRunsOut PROVE Untouched
  BY <1>10 DEF TimeRunsOut
<1>11. ASSUME Stop PROVE Accounted'
  <2>1. hand' = NoCapture /\ todo' = {} /\ UNCHANGED <<stored, missed, filed, run>>
    BY <1>11 DEF Stop, EmptyHand
  <2> QED
    BY <2>1 DEF Accounted, RecordAccountsForThePage, Addresses
<1> HIDE DEF Untouched
<1> QED
  BY <1>0, <1>1, <1>2, <1>3, <1>4, <1>5, <1>6, <1>7, <1>8, <1>9, <1>10, <1>11 DEF Next, Step

\* Over the crawl and every repass, the record of a filed capture lists each
\* address its page referenced once: held, or missed with a reason.
THEOREM NoReferenceDropsOut == Spec => []RecordAccountsForThePage
<1>1. Init => Accounted
  BY DEF Init, Accounted, RecordAccountsForThePage, Uniq
<1>2. Typed /\ Accounted /\ [Next]_vars => Accounted'
  BY AccountedKept
<1>3. Accounted => RecordAccountsForThePage
  BY DEF Accounted
<1> QED
  BY <1>1, <1>2, <1>3, TypedAlways, PTL DEF Spec
=============================================================================
