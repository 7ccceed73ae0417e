---------------------------- MODULE BoundaryProofs ----------------------------
(***************************************************************************)
(* Theorems about what crosses the boundary of a crawl, for every page,    *)
(* any list of links, any transfer and limit, any host, credential, list   *)
(* of calls and list of references, any robots.txt, sitemap and markup:    *)
(* what TLC asks of some thousands of questions, of all of them.           *)
(***************************************************************************)
EXTENDS Boundary, FiniteSetTheorems, TLAPS

-----------------------------------------------------------------------------
(* Positions and folds *)

\* Induction up to n, for a set: were x the first missing, taking one from
\* each missing number would map those up to x onto themselves.
LEMMA Upwards ==
    ASSUME NEW n \in Nat, NEW set, 0 \in set, \A k \in 1 .. n : k - 1 \in set => k \in set
    PROVE  \A k \in 0 .. n : k \in set
<1> SUFFICES ASSUME NEW x \in 0 .. n, x \notin set PROVE FALSE
  OBVIOUS
<1> DEFINE missing == {y \in 0 .. x : y \notin set}
           f == [y \in missing |-> y - 1]
<1>1. IsFiniteSet(missing)
  <2>1. IsFiniteSet(0 .. x) /\ missing \subseteq 0 .. x
    BY FS_Interval
  <2> QED
    BY <2>1, FS_Subset
<1>2. \A y \in missing : y \in 1 .. n /\ y - 1 \in missing
  OBVIOUS
<1>3. f \in Injection(missing, missing)
  <2>1. f \in [missing -> missing]
    BY <1>2
  <2>2. \A y, z \in missing : f[y] = f[z] => y = z
    OBVIOUS
  <2> HIDE DEF f, missing
  <2> QED
    BY <2>1, <2>2 DEF Injection, IsInjective
<1>4. f \in Surjection(missing, missing)
  <2> HIDE DEF f, missing
  <2> QED
    BY <1>1, <1>3, FS_Injection, Zenon
<1>5. PICK y \in missing : f[y] = x
  <2>1. x \in missing
    OBVIOUS
  <2> HIDE DEF f, missing
  <2> QED
    BY <1>4, <2>1 DEF Surjection
<1> QED
  BY <1>5

LEMMA ListFacts ==
    ASSUME NEW set, NEW s \in Seq(set)
    PROVE  /\ Len(s) \in Nat /\ DOMAIN s = 1 .. Len(s) /\ \A i \in DOMAIN s : s[i] \in set
           /\ s = <<>> <=> Len(s) = 0
  OBVIOUS

LEMMA Appended ==
    ASSUME NEW set, NEW s \in Seq(set), NEW x \in set
    PROVE  /\ Append(s, x) \in Seq(set) /\ Len(Append(s, x)) = Len(s) + 1
           /\ Append(s, x)[Len(s) + 1] = x
           /\ \A i \in 1 .. Len(s) : Append(s, x)[i] = s[i]
           /\ \A n \in 0 .. Len(s) : SubSeq(Append(s, x), 1, n) = SubSeq(s, 1, n)
  OBVIOUS

Greatest(x, set) == x \in set /\ \A y \in set : y <= x
Least(x, set) == x \in set /\ \A y \in set : x <= y

\* Some positions of a list have a last and a first one.
LEMMA Extremes ==
    ASSUME NEW n \in Nat, NEW set \in SUBSET (1 .. n), set # {}
    PROVE  (\E x \in set : Greatest(x, set)) /\ (\E x \in set : Least(x, set))
<1> DEFINE lower(k) == {y \in set : y <= k}
           upper(k) == {y \in set : y > n - k}
           low == {k \in 0 .. n : lower(k) = {} \/ \E x \in lower(k) : Greatest(x, lower(k))}
           up == {k \in 0 .. n : upper(k) = {} \/ \E x \in upper(k) : Least(x, upper(k))}
<1>0. \A y \in set : y \in Int /\ 1 <= y /\ y <= n
  OBVIOUS
<1>1. 0 \in low /\ 0 \in up
  <2>0. \A y \in set : ~(y <= 0) /\ ~(y > n - 0)
    BY <1>0
  <2>1. lower(0) = {} /\ upper(0) = {}
    BY <2>0, Zenon
  <2> HIDE DEF lower, upper
  <2> QED
    BY <2>1
<1>2. ASSUME NEW k \in 1 .. n, k - 1 \in low PROVE k \in low
  <2>1. CASE k \in set
    <3>1. k \in lower(k) /\ Greatest(k, lower(k))
      BY <1>0, <2>1 DEF Greatest
    <3> HIDE DEF lower
    <3> QED
      BY <3>1
  <2>2. CASE k \notin set
    <3>1. \A y \in set : y <= k <=> y <= k - 1
      BY <1>0, <2>2
    <3>2. lower(k) = lower(k - 1)
      BY <3>1, Zenon
    <3> HIDE DEF lower
    <3> QED
      BY <1>2, <3>2
  <2> QED
    BY <2>1, <2>2
<1>3. ASSUME NEW k \in 1 .. n, k - 1 \in up PROVE k \in up
  <2> DEFINE j == n - k + 1
  <2>1. CASE j \in set
    <3>1. j \in upper(k) /\ Least(j, upper(k))
      BY <1>0, <2>1 DEF Least
    <3> HIDE DEF upper, j
    <3> QED
      BY <3>1
  <2>2. CASE j \notin set
    <3>1. \A y \in set : y > n - k <=> y > n - (k - 1)
      BY <1>0, <2>2
    <3>2. upper(k) = upper(k - 1)
      BY <3>1, Zenon
    <3> HIDE DEF upper
    <3> QED
      BY <1>3, <3>2
  <2> QED
    BY <2>1, <2>2
<1>4. n \in low /\ n \in up
  <2>1. (\A k \in 0 .. n : k \in low) /\ (\A k \in 0 .. n : k \in up)
    <3> HIDE DEF low, up
    <3> QED
      BY <1>1, <1>2, <1>3, Upwards
  <2> QED
    BY <2>1
<1>5. lower(n) = set /\ upper(n) = set
  <2>1. \A y \in set : y <= n /\ y > n - n
    BY <1>0
  <2> QED
    BY <2>1, Zenon
<1> QED
  BY <1>4, <1>5


LEMMA LongerByOne ==
    ASSUME NEW set, NEW s \in Seq(set), NEW x \in set
    PROVE  /\ {i \in DOMAIN Append(s, x) : Append(s, x)[i] # x} = {i \in DOMAIN s : s[i] # x}
           /\ \A i \in DOMAIN s : SubSeq(Append(s, x), 1, i) = SubSeq(s, 1, i)
<1> DEFINE t == Append(s, x)
           n == Len(s)
<1>1. n \in Nat /\ DOMAIN s = 1 .. n
  BY ListFacts
<1>2. /\ t \in Seq(set) /\ Len(t) = n + 1 /\ t[n + 1] = x
      /\ \A i \in 1 .. n : t[i] = s[i]
      /\ \A k \in 0 .. n : SubSeq(t, 1, k) = SubSeq(s, 1, k)
  BY Appended
<1>3. DOMAIN t = 1 .. n + 1
  <2>1. DOMAIN t = 1 .. Len(t)
    BY <1>2, ListFacts
  <2> HIDE DEF t
  <2> QED
    BY <2>1, <1>2
<1> HIDE DEF t, n
<1>4. \A i : (i \in DOMAIN t /\ t[i] # x) <=> (i \in DOMAIN s /\ s[i] # x)
  BY <1>1, <1>2, <1>3
<1>5. \A i \in DOMAIN s : i \in 0 .. n
  BY <1>1
<1>6. {i \in DOMAIN t : t[i] # x} = {i \in DOMAIN s : s[i] # x}
  BY <1>4
<1>7. \A i \in DOMAIN s : SubSeq(t, 1, i) = SubSeq(s, 1, i)
  BY <1>2, <1>5
<1> QED
  BY <1>6, <1>7 DEF t

\* A fold takes the greatest position first.
Top(set) == CHOOSE x \in set : \A y \in set : x >= y

LEMMA TopIsGreatest ==
    ASSUME NEW n \in Nat, NEW set \in SUBSET (1 .. n), set # {}
    PROVE  Top(set) \in set /\ \A y \in set : y <= Top(set)
<1>1. PICK x \in set : Greatest(x, set)
  BY Extremes, Zenon
<1>2. \A y \in set : y \in Int
  OBVIOUS
<1>3. \A y \in set : x >= y
  BY <1>1, <1>2 DEF Greatest
<1>4. Top(set) \in set /\ \A y \in set : Top(set) >= y
  BY <1>3, Zenon DEF Top
<1> HIDE DEF Top
<1> QED
  BY <1>2, <1>4

LEMMA TopOfPrefixes ==
    ASSUME NEW n \in Nat, NEW k \in 1 .. n
    PROVE  /\ 1 .. k # {} /\ Top(1 .. k) = k /\ (1 .. k) \ {k} = 1 .. k - 1
           /\ 1 .. k \in SUBSET (1 .. n)
<1>1. /\ k \in Nat /\ k \in 1 .. k /\ 1 .. k # {} /\ 1 .. k \in SUBSET (1 .. k)
      /\ (1 .. k) \ {k} = 1 .. k - 1 /\ 1 .. k \in SUBSET (1 .. n)
  OBVIOUS
<1>2. Top(1 .. k) \in 1 .. k /\ \A y \in 1 .. k : y <= Top(1 .. k)
  BY <1>1, TopIsGreatest, Zenon
<1> HIDE DEF Top
<1>3. ASSUME NEW x \in 1 .. k, k <= x PROVE x = k
  BY <1>3
<1> QED
  BY <1>1, <1>2, <1>3

\* What a step makes of a state, position by position, can be folded over
\* every set of them.
Folds(h, n, states, base, f) ==
    /\ h \in [SUBSET (1 .. n) -> states]
    /\ \A set \in SUBSET (1 .. n) : h[set] = IF set = {} THEN base ELSE f[Top(set)][h[set \ {Top(set)}]]
FoldsUpTo(h, m, n, states, base, f) ==
    /\ h \in [SUBSET (1 .. n) -> states]
    /\ \A set \in SUBSET (1 .. m) : h[set] = IF set = {} THEN base ELSE f[Top(set)][h[set \ {Top(set)}]]

LEMMA OneMoreIsFolded ==
    ASSUME NEW n \in Nat, NEW states, NEW base \in states, NEW f \in [1 .. n -> [states -> states]],
           NEW m \in 1 .. n, NEW h, FoldsUpTo(h, m - 1, n, states, base, f)
    PROVE  \E i : FoldsUpTo(i, m, n, states, base, f)
<1> DEFINE i == [set \in SUBSET (1 .. n) |-> IF m \in set /\ set \subseteq 1 .. m THEN f[m][h[set \ {m}]] ELSE h[set]]
<1>1. i \in [SUBSET (1 .. n) -> states]
  <2>1. ASSUME NEW set \in SUBSET (1 .. n) PROVE f[m][h[set \ {m}]] \in states /\ h[set] \in states
    <3>1. h \in [SUBSET (1 .. n) -> states] /\ set \ {m} \in SUBSET (1 .. n) /\ f[m] \in [states -> states]
      BY DEF FoldsUpTo
    <3> QED
      BY <3>1
  <2> QED
    BY <2>1, Zenon
<1>2. ASSUME NEW set \in SUBSET (1 .. m)
      PROVE  i[set] = IF set = {} THEN base ELSE f[Top(set)][i[set \ {Top(set)}]]
  <2>0. set \in SUBSET (1 .. n) /\ m \in Nat
    OBVIOUS
  <2>1. CASE m \in set
    <3>1. Top(set) \in set /\ \A y \in set : y <= Top(set)
      BY <2>0, <2>1, TopIsGreatest, Zenon
    <3>2. \A x \in 1 .. m : m <= x => x = m
      OBVIOUS
    <3>3. Top(set) = m
      BY <2>1, <3>1, <3>2, Zenon
    <3>4. i[set] = f[m][h[set \ {m}]]
      BY <2>0, <2>1
    <3>5. set \ {m} \in SUBSET (1 .. n) /\ m \notin set \ {m}
      BY <2>0
    <3>6. i[set \ {m}] = h[set \ {m}]
      BY <3>5
    <3> HIDE DEF i
    <3> QED
      BY <2>1, <3>3, <3>4, <3>6
  <2>2. CASE m \notin set
    <3>1. \A x \in 1 .. m : x # m => x \in 1 .. m - 1
      OBVIOUS
    <3>2. set \in SUBSET (1 .. m - 1)
      BY <2>2, <3>1
    <3>3. h[set] = IF set = {} THEN base ELSE f[Top(set)][h[set \ {Top(set)}]]
      BY <3>2, Zenon DEF FoldsUpTo
    <3>4. i[set] = h[set]
      BY <2>0, <2>2
    <3>5. i[set \ {Top(set)}] = h[set \ {Top(set)}]
      BY <2>0, <2>2, Zenon
    <3> HIDE DEF i
    <3> QED
      BY <3>3, <3>4, <3>5
  <2> QED
    BY <2>1, <2>2
<1> HIDE DEF i
<1> QED
  BY <1>1, <1>2, Zenon DEF FoldsUpTo

LEMMA FoldsExist ==
    ASSUME NEW n \in Nat, NEW states, NEW base \in states, NEW f \in [1 .. n -> [states -> states]]
    PROVE  \E h : Folds(h, n, states, base, f)
<1> DEFINE so == {m \in 0 .. n : \E h : FoldsUpTo(h, m, n, states, base, f)}
<1>1. 0 \in so
  <2> DEFINE h == [set \in SUBSET (1 .. n) |-> base]
  <2>1. h \in [SUBSET (1 .. n) -> states]
    OBVIOUS
  <2>2. \A set \in SUBSET (1 .. 0) : set = {} /\ set \in SUBSET (1 .. n)
    OBVIOUS
  <2>3. \A set \in SUBSET (1 .. 0) : h[set] = base
    BY <2>2
  <2> HIDE DEF h
  <2>4. FoldsUpTo(h, 0, n, states, base, f)
    BY <2>1, <2>2, <2>3 DEF FoldsUpTo
  <2> QED
    BY <2>4
<1>2. ASSUME NEW m \in 1 .. n, m - 1 \in so PROVE m \in so
  <2>1. PICK h : FoldsUpTo(h, m - 1, n, states, base, f)
    BY <1>2
  <2>2. \E h2 : FoldsUpTo(h2, m, n, states, base, f)
    BY <2>1, OneMoreIsFolded, Zenon
  <2>3. m \in 0 .. n
    OBVIOUS
  <2> QED
    BY <2>2, <2>3
<1>3. \A m \in 0 .. n : m \in so
  <2> HIDE DEF so
  <2> QED
    BY <1>1, <1>2, Upwards, Zenon
<1>4. n \in so
  <2> HIDE DEF so
  <2> QED
    BY <1>3
<1> QED
  BY <1>4, Zenon DEF Folds, FoldsUpTo

Joins(s, t, whole, set) ==
    /\ whole \in Seq(set) /\ Len(whole) = Len(s) + Len(t)
    /\ \A i \in 1 .. Len(s) : i \in 1 .. Len(whole) /\ whole[i] = s[i]
    /\ \A i \in 1 .. Len(t) : Len(s) + i \in 1 .. Len(whole) /\ whole[Len(s) + i] = t[i]
    /\ \A i \in 1 .. Len(whole) : i \in 1 .. Len(s) \/ \E k \in 1 .. Len(t) : i = Len(s) + k

LEMMA JoinedLists ==
    ASSUME NEW set, NEW s \in Seq(set), NEW t \in Seq(set)
    PROVE  Joins(s, t, s \o t, set)
<1>1. /\ s \o t \in Seq(set) /\ Len(s \o t) = Len(s) + Len(t) /\ Len(s) \in Nat /\ Len(t) \in Nat
      /\ \A i \in 1 .. Len(s) : (s \o t)[i] = s[i]
      /\ \A i \in 1 .. Len(t) : (s \o t)[Len(s) + i] = t[i]
  OBVIOUS
<1>2. ASSUME NEW m \in Nat, NEW n \in Nat, NEW i \in 1 .. m + n, i \notin 1 .. m
      PROVE  i - m \in 1 .. n /\ i = m + (i - m)
  BY <1>2
<1>3. ASSUME NEW m \in Nat, NEW n \in Nat
      PROVE  /\ \A i \in 1 .. m : i \in 1 .. m + n
             /\ \A i \in 1 .. n : m + i \in 1 .. m + n
  OBVIOUS
<1> DEFINE l == Len(s)
           m == Len(t)
           all == s \o t
<1>4. l \in Nat /\ m \in Nat /\ Len(all) = l + m
  BY <1>1
<1>5. (\A i \in 1 .. l : all[i] = s[i]) /\ \A i \in 1 .. m : all[l + i] = t[i]
  BY <1>1
<1> HIDE DEF l, m, all
<1>6. /\ \A i \in 1 .. l : i \in 1 .. l + m /\ all[i] = s[i]
      /\ \A i \in 1 .. m : l + i \in 1 .. l + m /\ all[l + i] = t[i]
  BY <1>3, <1>4, <1>5
<1>7. \A i \in 1 .. l + m : i \in 1 .. l \/ \E k \in 1 .. m : i = l + k
  BY <1>2, <1>4
<1>8. all \in Seq(set)
  BY <1>1 DEF all
<1> QED
  BY <1>4, <1>6, <1>7, <1>8, Zenon DEF Joins, l, m, all

LEMMA Joined ==
    ASSUME NEW set, NEW s \in Seq(set), NEW t \in Seq(set)
    PROVE  /\ s \o t \in Seq(set) /\ Len(s \o t) = Len(s) + Len(t)
           /\ \A i \in 1 .. Len(s) : i \in 1 .. Len(s \o t) /\ (s \o t)[i] = s[i]
           /\ \A i \in 1 .. Len(t) : Len(s) + i \in 1 .. Len(s \o t) /\ (s \o t)[Len(s) + i] = t[i]
           /\ \A i \in 1 .. Len(s \o t) : i \in 1 .. Len(s) \/ \E k \in 1 .. Len(t) : i = Len(s) + k
<1>1. Joins(s, t, s \o t, set)
  BY JoinedLists, Zenon
<1> QED
  BY <1>1, Zenon DEF Joins

\* The lists of a list, one after the other: each begins where the ones
\* before it end.
Flattens(seqs, n, flat, off) ==
    /\ off \in [1 .. n -> Nat]
    /\ \A a \in 1 .. n : \A b \in 1 .. Len(seqs[a]) :
          off[a] + b \in 1 .. Len(flat) /\ flat[off[a] + b] = seqs[a][b]
    /\ \A k \in 1 .. Len(flat) : \E a \in 1 .. n : \E b \in 1 .. Len(seqs[a]) : k = off[a] + b

LEMMA OneMoreFlattened ==
    ASSUME NEW set, NEW seqs, NEW k \in Nat \ {0}, NEW more \in Seq(set), more = seqs[k],
           NEW flat \in Seq(set), NEW off, Flattens(seqs, k - 1, flat, off)
    PROVE  \E next : Flattens(seqs, k, flat \o more, next)
<1> DEFINE all == flat \o more
           l == Len(flat)
           m == Len(more)
           next == [a \in 1 .. k |-> IF a = k THEN l ELSE off[a]]
<1>1. /\ l \in Nat /\ m \in Nat /\ Len(all) = l + m
      /\ \A i \in 1 .. l : i \in 1 .. Len(all) /\ all[i] = flat[i]
      /\ \A i \in 1 .. m : l + i \in 1 .. Len(all) /\ all[l + i] = more[i]
      /\ \A i \in 1 .. Len(all) : i \in 1 .. l \/ \E j \in 1 .. m : i = l + j
  BY Joined, ListFacts
<1> HIDE DEF all
<1> DEFINE size == Len(all)
<1> HIDE DEF l, m, size
<1>2. /\ \A a \in 1 .. k : a = k \/ a \in 1 .. k - 1
      /\ \A a \in 1 .. k - 1 : a \in 1 .. k /\ a # k
      /\ k \in 1 .. k
  OBVIOUS
<1>3. next \in [1 .. k -> Nat] /\ next[k] = l /\ \A a \in 1 .. k - 1 : next[a] = off[a]
  BY <1>1, <1>2 DEF Flattens
<1> HIDE DEF next
<1>4. ASSUME NEW a \in 1 .. k, NEW b \in 1 .. Len(seqs[a])
      PROVE  next[a] + b \in 1 .. size /\ all[next[a] + b] = seqs[a][b]
  <2>1. CASE a = k
    <3>1. b \in 1 .. m
      BY <1>4, <2>1 DEF m
    <3>2. l + b \in 1 .. size /\ all[l + b] = more[b]
      BY <1>1, <3>1, Zenon DEF size
    <3> QED
      BY <1>3, <2>1, <3>2, Zenon
  <2>2. CASE a # k
    <3>1. a \in 1 .. k - 1
      BY <1>2, <2>2, Zenon
    <3>2. off[a] + b \in 1 .. l /\ flat[off[a] + b] = seqs[a][b]
      BY <1>4, <3>1, Zenon DEF Flattens, l
    <3> QED
      BY <1>1, <1>3, <3>1, <3>2, Zenon DEF size
  <2> QED
    BY <2>1, <2>2, Zenon
<1>5. ASSUME NEW i \in 1 .. size
      PROVE  \E a \in 1 .. k : \E b \in 1 .. Len(seqs[a]) : i = next[a] + b
  <2>1. CASE i \in 1 .. l
    <3>1. PICK a \in 1 .. k - 1 : \E b \in 1 .. Len(seqs[a]) : i = off[a] + b
      BY <2>1, Zenon DEF Flattens, l
    <3> QED
      BY <1>2, <1>3, <3>1, Zenon
  <2>2. CASE i \notin 1 .. l
    <3>1. PICK b \in 1 .. m : i = l + b
      BY <1>1, <1>5, <2>2, Zenon DEF size
    <3>2. b \in 1 .. Len(seqs[k])
      BY <3>1, Zenon DEF m
    <3> QED
      BY <1>2, <1>3, <3>1, <3>2, Zenon
  <2> QED
    BY <2>1, <2>2, Zenon
<1>6. Flattens(seqs, k, all, next)
  BY <1>3, <1>4, <1>5, Zenon DEF Flattens, size
<1> QED
  BY <1>6, Zenon DEF all

LEMMA ListsAreFlattened ==
    ASSUME NEW set, NEW lists, lists = Seq(set), NEW seqs \in Seq(lists), NEW n, n = Len(seqs)
    PROVE  /\ n \in Nat /\ R!FlattenSeq(seqs) \in lists
           /\ \E off : Flattens(seqs, n, R!FlattenSeq(seqs), off)
<1> DEFINE f == [k \in 1 .. n |-> [t \in lists |-> t \o seqs[k]]]
           flattens(g) == g = [i \in 1 .. n |-> IF i = 1 THEN seqs[i] ELSE g[i - 1] \o seqs[i]]
           flatten == CHOOSE g : flattens(g)
<1>1. n \in Nat /\ (\A k \in 1 .. n : seqs[k] \in lists) /\ (seqs = <<>> <=> n = 0)
  BY ListFacts
<1>2. \A s, t \in lists : s \o t \in lists
  BY Joined, Zenon
<1>3. <<>> \in lists /\ \A s \in lists : <<>> \o s = s
  <2>1. <<>> \in Seq(set) /\ \A s \in Seq(set) : <<>> \o s = s
    OBVIOUS
  <2> QED
    BY <2>1
<1>4. CASE n = 0
  <2>1. R!FlattenSeq(seqs) = <<>>
    BY <1>1, <1>4 DEF R!FlattenSeq
  <2>2. Flattens(seqs, n, <<>>, <<>>)
    <3>1. <<>> \in [1 .. 0 -> Nat] /\ 1 .. 0 = {} /\ Len(<<>>) = 0
      OBVIOUS
    <3> QED
      BY <1>4, <3>1, Zenon DEF Flattens
  <2> QED
    BY <1>1, <1>3, <2>1, <2>2, Zenon
<1>5. CASE n # 0
  <2>1. R!FlattenSeq(seqs) = flatten[n]
    BY <1>1, <1>5 DEF R!FlattenSeq
  <2>2. \E g : flattens(g)
    <3>1. f \in [1 .. n -> [lists -> lists]]
      BY <1>1, <1>2
    <3>2. PICK h : Folds(h, n, lists, <<>>, f)
      <4> HIDE DEF f
      <4> QED
        BY <1>1, <1>3, <3>1, FoldsExist, Zenon
    <3> DEFINE g == [i \in 1 .. n |-> h[1 .. i]]
    <3>3. ASSUME NEW i \in 1 .. n PROVE h[1 .. i] = h[1 .. i - 1] \o seqs[i]
      <4>1. 1 .. i # {} /\ Top(1 .. i) = i /\ (1 .. i) \ {i} = 1 .. i - 1 /\ 1 .. i \in SUBSET (1 .. n)
        BY <1>1, TopOfPrefixes, Zenon
      <4>2. 1 .. i - 1 \in SUBSET (1 .. n)
        OBVIOUS
      <4>3. h[1 .. i - 1] \in lists
        BY <3>2, <4>2, Zenon DEF Folds
      <4>4. h[1 .. i] = f[i][h[1 .. i - 1]]
        BY <3>2, <4>1, Zenon DEF Folds
      <4> QED
        BY <4>3, <4>4, Zenon
    <3>4. h[1 .. 0] = <<>>
      <4>1. 1 .. 0 = {} /\ 1 .. 0 \in SUBSET (1 .. n)
        OBVIOUS
      <4> QED
        BY <3>2, <4>1, Zenon DEF Folds
    <3>5. ASSUME NEW i \in 1 .. n PROVE g[i] = IF i = 1 THEN seqs[i] ELSE g[i - 1] \o seqs[i]
      <4>1. CASE i = 1
        <5>1. h[1 .. i] = h[1 .. i - 1] \o seqs[i] /\ i - 1 = 0 /\ seqs[i] \in lists
          <6>1. h[1 .. i] = h[1 .. i - 1] \o seqs[i]
            BY <3>3, Zenon
          <6>2. seqs[i] \in lists /\ i - 1 = 0
            BY <1>1, <4>1
          <6> QED
            BY <6>1, <6>2, Zenon
        <5>2. <<>> \o seqs[i] = seqs[i]
          BY <1>3, <5>1, Zenon
        <5>3. h[1 .. i] = seqs[i]
          BY <3>4, <5>1, <5>2, Zenon
        <5> QED
          BY <4>1, <5>3
      <4>2. CASE i # 1
        <5>1. i - 1 \in 1 .. n
          BY <1>1, <4>2
        <5> QED
          BY <3>3, <4>2, <5>1, Zenon
      <4> QED
        BY <4>1, <4>2
    <3>6. g = [i \in 1 .. n |-> g[i]]
      OBVIOUS
    <3>7. flattens(g)
      <4> HIDE DEF g
      <4> QED
        BY <3>5, <3>6, Zenon
    <3> QED
      BY <3>7, Zenon
  <2>3. flattens(flatten)
    <3> HIDE DEF flattens
    <3> QED
      BY <2>2
  <2> HIDE DEF flatten
  <2>4. \A i \in 1 .. n : flatten[i] = IF i = 1 THEN seqs[i] ELSE flatten[i - 1] \o seqs[i]
    BY <2>3, Zenon
  <2> DEFINE so == {k \in 0 .. n : k = 0 \/ (flatten[k] \in lists /\ \E off : Flattens(seqs, k, flatten[k], off))}
  <2>5. 0 \in so
    BY <1>1
  <2>6. ASSUME NEW k \in 1 .. n, k - 1 \in so PROVE k \in so
    <3>0. seqs[k] \in Seq(set) /\ k \in Nat \ {0} /\ k \in 0 .. n
      BY <1>1
    <3>1. \E flat \in Seq(set) : flatten[k] = flat \o seqs[k] /\ \E off : Flattens(seqs, k - 1, flat, off)
      <4>1. CASE k = 1
        <5>1. Flattens(seqs, 0, <<>>, <<>>)
          <6>1. <<>> \in [1 .. 0 -> Nat] /\ 1 .. 0 = {} /\ Len(<<>>) = 0
            OBVIOUS
          <6> QED
            BY <6>1, Zenon DEF Flattens
        <5>2. flatten[k] = <<>> \o seqs[k] /\ k - 1 = 0 /\ <<>> \in Seq(set)
          BY <1>1, <1>3, <2>4, <4>1
        <5> QED
          BY <5>1, <5>2, Zenon
      <4>2. CASE k # 1
        <5>1. flatten[k] = flatten[k - 1] \o seqs[k]
          BY <2>4, <4>2, Zenon
        <5>2. flatten[k - 1] \in lists /\ \E off : Flattens(seqs, k - 1, flatten[k - 1], off)
          <6>1. k - 1 # 0
            BY <1>1, <4>2
          <6> QED
            BY <2>6, <6>1
        <5> QED
          BY <5>1, <5>2, Zenon
      <4> QED
        BY <4>1, <4>2, Zenon
    <3>2. PICK flat \in Seq(set) : flatten[k] = flat \o seqs[k] /\ \E off : Flattens(seqs, k - 1, flat, off)
      BY <3>1, Zenon
    <3>3. PICK off : Flattens(seqs, k - 1, flat, off)
      BY <3>2, Zenon
    <3>4. \E next : Flattens(seqs, k, flat \o seqs[k], next)
      BY <3>0, <3>3, OneMoreFlattened, Zenon
    <3>5. flatten[k] \in lists
      BY <1>2, <3>0, <3>2, Zenon
    <3> QED
      BY <3>0, <3>2, <3>4, <3>5, Zenon
  <2>7. n \in so
    <3>1. \A k \in 0 .. n : k \in so
      <4> HIDE DEF so
      <4> QED
        BY <1>1, <2>5, <2>6, Upwards, Zenon
    <3> HIDE DEF so
    <3> QED
      BY <1>1, <3>1
  <2> QED
    BY <1>1, <1>5, <2>1, <2>7
<1> QED
  BY <1>4, <1>5

Below(set, x) == {y \in set : y < x}
Rank(set, x) == Cardinality(Below(set, x))

\* The members of a finite set of numbers have the ranks from none up.
LEMMA RanksFill ==
    ASSUME NEW set, IsFiniteSet(set), set \subseteq Int, NEW c, c = Cardinality(set)
    PROVE  /\ c \in Nat
           /\ \A x \in set : Rank(set, x) \in 0 .. c - 1
           /\ \A x, y \in set : Rank(set, x) = Rank(set, y) => x = y
           /\ \A k \in 0 .. c - 1 : \E x \in set : Rank(set, x) = k
           /\ \A x, y \in set : x < y => Rank(set, x) < Rank(set, y)
<1>1. c \in Nat
  BY FS_CardinalityType
<1>2. ASSUME NEW x \in set
      PROVE  IsFiniteSet(Below(set, x)) /\ Rank(set, x) \in Nat /\ Rank(set, x) \in 0 .. c - 1
  <2>1. Below(set, x) \subseteq set /\ Below(set, x) # set
    BY DEF Below
  <2>2. /\ IsFiniteSet(Below(set, x)) /\ Rank(set, x) \in Nat
        /\ Rank(set, x) <= c /\ (Rank(set, x) = c => Below(set, x) = set)
    BY <2>1, FS_Subset, FS_CardinalityType DEF Rank
  <2> QED
    BY <1>1, <2>1, <2>2
<1>3. ASSUME NEW x \in set, NEW y \in set, x < y PROVE Rank(set, x) < Rank(set, y)
  <2>1. Below(set, x) \subseteq Below(set, y) /\ x \in Below(set, y) /\ x \notin Below(set, x)
    <3>1. \A z \in set : z \in Int /\ ~(z < z) /\ (z < x => z < y)
      BY <1>3
    <3> QED
      BY <1>3, <3>1, Zenon DEF Below
  <2>2. IsFiniteSet(Below(set, y)) /\ Rank(set, x) \in Nat /\ Rank(set, y) \in Nat
    BY <1>2
  <2>3. /\ Rank(set, x) <= Rank(set, y)
        /\ Rank(set, x) = Rank(set, y) => Below(set, x) = Below(set, y)
    BY <2>1, <2>2, FS_Subset DEF Rank
  <2> QED
    BY <2>1, <2>2, <2>3
<1>4. ASSUME NEW x \in set, NEW y \in set, Rank(set, x) = Rank(set, y) PROVE x = y
  <2>1. x < y \/ y < x \/ x = y
    OBVIOUS
  <2>2. Rank(set, x) \in Nat /\ Rank(set, y) \in Nat
    BY <1>2
  <2> QED
    BY <1>3, <1>4, <2>1, <2>2
<1> DEFINE f == [x \in set |-> Rank(set, x)]
<1>5. f \in Surjection(set, 0 .. c - 1)
  <2>1. f \in Injection(set, 0 .. c - 1)
    BY <1>2, <1>4 DEF Injection, IsInjective
  <2>2. IsFiniteSet(0 .. c - 1) /\ Cardinality(0 .. c - 1) = c
    <3>1. 0 \in Int /\ c - 1 \in Int /\ c - 1 - 0 + 1 = c /\ (0 > c - 1 => c = 0)
      BY <1>1
    <3> QED
      BY <3>1, FS_Interval
  <2> HIDE DEF f
  <2> QED
    BY <2>1, <2>2, FS_Injection
<1>6. \A k \in 0 .. c - 1 : \E x \in set : Rank(set, x) = k
  BY <1>5, Zenon DEF Surjection
<1> QED
  BY <1>1, <1>2, <1>3, <1>4, <1>6

\* A walk over the positions of a list, each step from the state before it.
Walks(g, n, states, base, f) ==
    g \in [0 .. n -> states] /\ g[0] = base /\ \A k \in 1 .. n : g[k] = f[k][g[k - 1]]

LEMMA WalksExist ==
    ASSUME NEW n \in Nat, NEW states, NEW base \in states, NEW f \in [1 .. n -> [states -> states]]
    PROVE  \E g : Walks(g, n, states, base, f)
<1>1. PICK h : Folds(h, n, states, base, f)
  BY FoldsExist
<1> DEFINE g == [k \in 0 .. n |-> h[1 .. k]]
<1>2. \A k \in 0 .. n : 1 .. k \in SUBSET (1 .. n)
  OBVIOUS
<1>3. g \in [0 .. n -> states]
  BY <1>1, <1>2 DEF Folds
<1>4. g[0] = base
  <2>1. 1 .. 0 = {} /\ 0 \in 0 .. n /\ {} \in SUBSET (1 .. n)
    OBVIOUS
  <2> QED
    BY <1>1, <2>1, Zenon DEF Folds
<1>5. ASSUME NEW k \in 1 .. n PROVE g[k] = f[k][g[k - 1]]
  <2>1. /\ 1 .. k # {} /\ Top(1 .. k) = k /\ (1 .. k) \ {k} = 1 .. k - 1
        /\ 1 .. k \in SUBSET (1 .. n)
    BY TopOfPrefixes
  <2>2. h[1 .. k] = f[k][h[1 .. k - 1]]
    BY <1>1, <2>1, Zenon DEF Folds
  <2>3. k \in 0 .. n /\ k - 1 \in 0 .. n
    OBVIOUS
  <2> QED
    BY <2>2, <2>3
<1> HIDE DEF g
<1>6. Walks(g, n, states, base, f)
  BY <1>3, <1>4, <1>5 DEF Walks
<1> QED
  BY <1>6, Zenon

LEMMA FiniteImages ==
    ASSUME NEW set, IsFiniteSet(set), NEW f, NEW image, image = {f[x] : x \in set}
    PROVE  IsFiniteSet(image)
<1> DEFINE g == [x \in set |-> f[x]]
<1>1. g \in Surjection(set, image)
  BY DEF Surjection
<1> QED
  BY <1>1, FS_Surjection

\* The members of a finite set of numbers, the lesser first.
Rises(o, set, c) ==
    /\ c \in Nat /\ o \in [1 .. c -> set]
    /\ \A k, l \in 1 .. c : k < l => o[k] < o[l]
    /\ \A x \in set : \E k \in 1 .. c : o[k] = x

LEMMA RulesCountAsOne ==
    ASSUME NEW set
    PROVE  R!Cardinality(set) = Cardinality(set)
  BY Zenon DEF R!Cardinality, Cardinality

LEMMA OrderedByRank ==
    ASSUME NEW set, IsFiniteSet(set), set \subseteq Int, NEW c, c = Cardinality(set)
    PROVE  /\ c \in Nat /\ DOMAIN R!InOrder(set) = 1 .. c
           /\ R!InOrder(set) \in Seq(set) /\ Len(R!InOrder(set)) = c
           /\ \A k \in 1 .. c : R!InOrder(set)[k] \in set /\ Rank(set, R!InOrder(set)[k]) = k - 1
<1> DEFINE o == R!InOrder(set)
<1>1. c \in Nat /\ \A k \in 0 .. c - 1 : \E x \in set : Rank(set, x) = k
  BY RanksFill, Zenon
<1>2. o = [k \in 1 .. c |-> CHOOSE x \in set : Rank(set, x) = k - 1]
  <2>1. R!Cardinality(set) = c /\ \A x : R!Cardinality({y \in set : y < x}) = Rank(set, x)
    BY RulesCountAsOne DEF Rank, Below
  <2> QED
    BY <2>1 DEF R!InOrder, R!Nth
<1> HIDE DEF o
<1>3. \A k \in 1 .. c : k - 1 \in 0 .. c - 1
  BY <1>1
<1>4. \A k \in 1 .. c : o[k] \in set /\ Rank(set, o[k]) = k - 1
  BY <1>1, <1>2, <1>3
<1>5. DOMAIN o = 1 .. c /\ o \in Seq(set) /\ Len(o) = c
  BY <1>1, <1>2, <1>4
<1> QED
  BY <1>1, <1>4, <1>5 DEF o

LEMMA InOrderRises ==
    ASSUME NEW set, IsFiniteSet(set), set \subseteq Int
    PROVE  Rises(R!InOrder(set), set, Cardinality(set)) /\ Len(R!InOrder(set)) = Cardinality(set)
<1> DEFINE c == Cardinality(set)
           o == R!InOrder(set)
<1>1. /\ c \in Nat
      /\ \A x \in set : Rank(set, x) \in 0 .. c - 1
      /\ \A x, y \in set : Rank(set, x) = Rank(set, y) => x = y
      /\ \A x, y \in set : x < y => Rank(set, x) < Rank(set, y)
  BY RanksFill, Zenon
<1>4. /\ DOMAIN o = 1 .. c /\ o \in Seq(set) /\ Len(o) = c
      /\ \A k \in 1 .. c : o[k] \in set /\ Rank(set, o[k]) = k - 1
  BY OrderedByRank, Zenon
<1> HIDE DEF o, c
<1>5. o \in [1 .. c -> set]
  BY <1>4
<1>6. ASSUME NEW k \in 1 .. c, NEW l \in 1 .. c, k < l PROVE o[k] < o[l]
  <2>1. o[k] \in set /\ o[l] \in set /\ Rank(set, o[k]) = k - 1 /\ Rank(set, o[l]) = l - 1
    BY <1>4
  <2> DEFINE a == o[k]
             b == o[l]
  <2>2. a \in Int /\ b \in Int
    BY <2>1, Zenon
  <2>5. a < b \/ a = b \/ b < a
    <3> HIDE DEF a, b
    <3> QED
      BY <2>2
  <2>3. o[l] < o[k] => Rank(set, o[l]) < Rank(set, o[k])
    BY <1>1, <2>1, Zenon
  <2>4. ~(l - 1 < k - 1) /\ l - 1 # k - 1
    BY <1>6
  <2> QED
    BY <2>1, <2>3, <2>4, <2>5
<1>7. ASSUME NEW x \in set PROVE \E k \in 1 .. c : o[k] = x
  <2> DEFINE k == Rank(set, x) + 1
  <2>1. Rank(set, x) \in 0 .. c - 1
    BY <1>1
  <2>2. k \in 1 .. c /\ k - 1 = Rank(set, x)
    BY <1>1, <2>1
  <2>3. o[k] \in set /\ Rank(set, o[k]) = Rank(set, x)
    BY <1>4, <2>2
  <2> HIDE DEF k
  <2> QED
    BY <1>1, <2>2, <2>3, Zenon
<1> QED
  BY <1>1, <1>4, <1>5, <1>6, <1>7, Zenon DEF Rises, o, c

\* The first numbers in order are themselves.
LEMMA FirstNumbersInOrder ==
    ASSUME NEW n \in Nat
    PROVE  /\ Cardinality(1 .. n) = n
           /\ \A k \in 1 .. n : R!Nth(1 .. n, k - 1) = k
<1> DEFINE set == 1 .. n
<1>1. IsFiniteSet(set) /\ Cardinality(set) = n /\ set \subseteq Int
  <2>1. 1 \in Int /\ n \in Int
    OBVIOUS
  <2>2. IsFiniteSet(set) /\ Cardinality(set) = IF 1 > n THEN 0 ELSE n - 1 + 1
    BY <2>1, FS_Interval
  <2>3. (IF 1 > n THEN 0 ELSE n - 1 + 1) = n
    OBVIOUS
  <2> QED
    BY <2>2, <2>3
<1>2. \A x, y \in set : Rank(set, x) = Rank(set, y) => x = y
  <2> HIDE DEF set
  <2> QED
    BY <1>1, RanksFill, Zenon
<1>3. ASSUME NEW k \in 1 .. n PROVE Rank(set, k) = k - 1
  <2>1. Below(set, k) = 1 .. k - 1
    BY DEF Below
  <2>2. 1 \in Int /\ k - 1 \in Int /\ (IF 1 > k - 1 THEN 0 ELSE k - 1 - 1 + 1) = k - 1
    OBVIOUS
  <2>3. Cardinality(1 .. k - 1) = k - 1
    BY <2>2, FS_Interval
  <2> QED
    BY <2>1, <2>3 DEF Rank
<1>4. ASSUME NEW k \in 1 .. n PROVE R!Nth(set, k - 1) = k
  <2>1. \A x : R!Cardinality({y \in set : y < x}) = Rank(set, x)
    BY RulesCountAsOne DEF Rank, Below
  <2>2. R!Nth(set, k - 1) = CHOOSE x \in set : Rank(set, x) = k - 1
    <3> HIDE DEF set
    <3> QED
      BY <2>1 DEF R!Nth
  <2>3. k \in set /\ Rank(set, k) = k - 1 /\ \A x \in set : Rank(set, x) = k - 1 => x = k
    BY <1>2, <1>3
  <2> HIDE DEF set
  <2> QED
    BY <2>2, <2>3, Zenon
<1> QED
  BY <1>1, <1>4

\* What is picked of a list is what stands at the positions picked.
LEMMA PickedIsWhatStandsThere ==
    ASSUME NEW s, NEW set, IsFiniteSet(set), set \subseteq Int
    PROVE  R!Range(R!Picked(s, set)) = {s[x] : x \in set}
<1> DEFINE o == R!InOrder(set)
           c == Cardinality(set)
           picked == R!Picked(s, set)
<1>1. Rises(o, set, c)
  BY InOrderRises, Zenon
<1>2. R!Cardinality(set) = c
  BY RulesCountAsOne
<1>3. picked = [k \in 1 .. c |-> s[o[k]]]
  <2>1. \A k \in 1 .. c : o[k] = R!Nth(set, k - 1)
    BY <1>2 DEF R!InOrder
  <2>2. picked = [k \in 1 .. c |-> s[R!Nth(set, k - 1)]]
    BY <1>2 DEF R!Picked
  <2> HIDE DEF o, c, picked
  <2> QED
    BY <2>1, <2>2
<1> HIDE DEF o, c, picked
<1>4. R!Range(picked) = {picked[k] : k \in 1 .. c}
  BY <1>3 DEF R!Range
<1>5. (\A k \in 1 .. c : o[k] \in set) /\ \A x \in set : \E k \in 1 .. c : o[k] = x
  BY <1>1 DEF Rises
<1>6. \A k \in 1 .. c : picked[k] = s[o[k]]
  BY <1>3
<1>7. {picked[k] : k \in 1 .. c} = {s[x] : x \in set}
  <2>1. ASSUME NEW k \in 1 .. c PROVE \E x \in set : picked[k] = s[x]
    BY <1>5, <1>6, Zenon
  <2>2. ASSUME NEW x \in set PROVE \E k \in 1 .. c : s[x] = picked[k]
    <3>1. PICK k \in 1 .. c : o[k] = x
      BY <1>5
    <3> QED
      BY <1>6, <3>1
  <2> QED
    BY <2>1, <2>2
<1> QED
  BY <1>4, <1>7, Zenon DEF picked

LEMMA PickedIsAList ==
    ASSUME NEW s, NEW set, IsFiniteSet(set), set \subseteq Int
    PROVE  Len(R!Picked(s, set)) = Cardinality(set) /\ Len(R!Picked(s, set)) \in Nat
<1> DEFINE c == Cardinality(set)
           at == [k \in 1 .. c |-> s[R!Nth(set, k - 1)]]
           all == {at[k] : k \in 1 .. c}
<1>1. c \in Nat /\ R!Cardinality(set) = c
  BY FS_CardinalityType, RulesCountAsOne
<1>2. R!Picked(s, set) = at
  BY <1>1 DEF R!Picked
<1>3. \A k \in 1 .. c : at[k] \in all
  OBVIOUS
<1>4. DOMAIN at = 1 .. c
  OBVIOUS
<1>5. at = [k \in 1 .. c |-> at[k]]
  OBVIOUS
<1> HIDE DEF at, all, c
<1>6. at \in Seq(all) /\ Len(at) = c
  BY <1>1, <1>3, <1>4, <1>5
<1> QED
  BY <1>1, <1>2, <1>6 DEF c

\* The modules order and pick alike.
LEMMA PositionsAreOne ==
    ASSUME NEW set, NEW s
    PROVE  /\ M!InOrder(set) = R!InOrder(set) /\ M!Picked(s, set) = R!Picked(s, set)
           /\ M!Nth(set, 0) = R!Nth(set, 0) /\ M!Range(s) = R!Range(s)
           /\ F!InOrder(set) = R!InOrder(set)
<1>1. \A x : /\ M!Cardinality(x) = R!Cardinality(x)
             /\ F!Cardinality(x) = R!Cardinality(x)
  BY Zenon DEF M!Cardinality, F!Cardinality, R!Cardinality
<1>2. \A n : M!Nth(set, n) = R!Nth(set, n) /\ F!Nth(set, n) = R!Nth(set, n)
  BY <1>1, Zenon DEF M!Nth, F!Nth, R!Nth
<1>3. M!InOrder(set) = R!InOrder(set) /\ F!InOrder(set) = R!InOrder(set)
  BY <1>1, <1>2 DEF M!InOrder, F!InOrder, R!InOrder
<1>4. M!Picked(s, set) = R!Picked(s, set)
  BY <1>1, <1>2 DEF M!Picked, R!Picked
<1>5. M!Range(s) = R!Range(s)
  BY DEF M!Range, R!Range
<1> QED
  BY <1>2, <1>3, <1>4, <1>5

-----------------------------------------------------------------------------
(* Addresses: CrawlLinks *)

\* An address as Url::parse gives it, and an href: the query is what the two
\* readings differ about.
Addresses == [scheme : STRING, host : STRING, port : STRING, query : Seq(STRING), fragment : BOOLEAN]
Hrefs == [absolute : BOOLEAN, scheme : STRING, host : STRING, port : STRING,
          spelled : {"plain", "named", "numeric"}, rest : STRING, fragment : BOOLEAN]

\* A link as hop_depth_guard reads it, with the page it is on.
LinksRead == [page : Addresses, href : Hrefs]

\* Neither reading of an href moves it to another host or port; the address a
\* reader would follow is in the scope of the crawl if the one written is.
LEMMA ReadingsShareTheOrigin ==
    ASSUME NEW base \in Addresses, NEW h \in Hrefs
    PROVE  /\ L!Raw(base, h).host = L!Target(base, h).host
           /\ L!Raw(base, h).port = L!Target(base, h).port
           /\ L!InScope(L!Raw(base, h)) => L!InScope(L!Target(base, h))
           /\ ~h.absolute => L!Origin(L!Raw(base, h)) = L!Origin(base)
  BY BoundaryAssumption DEF Addresses, Hrefs, L!Raw, L!Target, L!Corrected, L!Escaped, L!Join, L!Url,
     L!InScope, L!Origin

\* What is under a key is found again under the key of that key.
LEMMA KeysAreKeys ==
    ASSUME NEW base \in Addresses, NEW h \in Hrefs
    PROVE  /\ L!DepthKey(L!DepthKey(L!Raw(base, h))) = L!DepthKey(L!Raw(base, h))
           /\ L!Corrected(base, h).scheme = SeedScheme
           /\ ~L!Escaped(h) => L!Target(base, h) = L!Raw(base, h)
           /\ L!Escaped(h) => L!Target(base, h) = L!Corrected(base, h)
  BY BoundaryAssumption DEF Addresses, Hrefs, L!Raw, L!Target, L!Corrected, L!Escaped, L!Join, L!Url,
     L!DepthKey

\* What the frontier of the vendored crawler asks for is on record under the
\* spelling it is fetched by, whatever the pages of a crawl write and however
\* far the crawl has come: no link that was fetched is reported as lost, and a
\* link that collides with no other of the crawl is asked for as itself.
THEOREM LinksAgree ==
    ASSUME NEW read \in Seq(LinksRead)
    PROVE  L!LinksAreOneAddress(read)
<1> DEFINE n == Len(read)
           links == L!Discovered(read)
           key(i) == L!KeyOf(read[i])
           place(i) == L!PlaceOf(read[i])
           means(i) == L!Corrected(read[i].page, read[i].href)
           escaped == {i \in links : L!Escaped(read[i].href)}
           last(k) == CHOOSE i \in escaped : key(i) = k /\ \A j \in escaped : key(j) = k => j <= i
           fixed == [k \in {key(i) : i \in escaped} |-> means(last(k))]
           asked(i) == L!DepthKey(L!Requested(read, i))
<1>1. n \in Nat /\ DOMAIN read = 1 .. n /\ \A i \in 1 .. n : read[i] \in LinksRead
  OBVIOUS
<1>2. links \subseteq 1 .. n
  BY <1>1 DEF L!Discovered
<1>3. ASSUME NEW i \in links
      PROVE  L!Requested(read, i) = IF key(i) \in DOMAIN fixed THEN fixed[key(i)] ELSE key(i)
  BY DEF L!Requested, L!Corrections
<1>4. L!Recorded(read) = {place(i) : i \in links}
  BY DEF L!Recorded
<1>5. ASSUME NEW i \in links
      PROVE  /\ L!DepthKey(key(i)) = key(i)
             /\ i \notin escaped => place(i) = key(i)
             /\ i \in escaped => place(i) = L!DepthKey(means(i))
  <2>1. read[i].page \in Addresses /\ read[i].href \in Hrefs
    BY <1>1, <1>2 DEF LinksRead
  <2> QED
    BY <2>1, KeysAreKeys DEF L!KeyOf, L!PlaceOf
<1>6. ASSUME NEW i \in escaped
      PROVE  last(key(i)) \in escaped /\ key(last(key(i))) = key(i)
  <2> DEFINE same == {j \in escaped : key(j) = key(i)}
  <2>1. same \in SUBSET (1 .. n) /\ same # {}
    BY <1>2, <1>6
  <2>2. \E x \in same : Greatest(x, same)
    <3> HIDE DEF same, n
    <3> QED
      BY <1>1, <2>1, Extremes, Zenon
  <2>3. \E x \in escaped : key(x) = key(i) /\ \A j \in escaped : key(j) = key(i) => j <= x
    <3> HIDE DEF key, escaped
    <3> QED
      BY <2>2 DEF Greatest
  <2> HIDE DEF key, escaped
  <2> QED
    BY <2>3
<1>7. ASSUME NEW i \in links
      PROVE  \/ \E j \in links : key(j) = key(i) /\ asked(i) = place(j)
             \/ asked(i) = place(i)
  <2>1. CASE key(i) \in DOMAIN fixed
    <3>1. PICK j \in escaped : key(j) = key(i)
      BY <2>1
    <3>2. last(key(i)) \in escaped /\ key(last(key(i))) = key(i)
      <4> HIDE DEF last, key, escaped
      <4> QED
        BY <1>6, <3>1
    <3>3. L!Requested(read, i) = means(last(key(i)))
      BY <1>3, <2>1
    <3>4. last(key(i)) \in links /\ asked(i) = place(last(key(i)))
      BY <1>5, <3>2, <3>3
    <3> HIDE DEF last, key, place, asked, links
    <3> QED
      BY <3>2, <3>4, Zenon
  <2>2. CASE key(i) \notin DOMAIN fixed
    <3>1. i \notin escaped
      BY <2>2
    <3>2. L!Requested(read, i) = key(i)
      BY <1>3, <2>2
    <3> QED
      BY <1>5, <3>1, <3>2
  <2> QED
    BY <2>1, <2>2, Zenon
<1>8. ASSUME NEW i \in links
      PROVE  /\ asked(i) \in L!Recorded(read)
             /\ ~L!Collides(read, i) => asked(i) = place(i)
  <2>1. asked(i) \in {place(j) : j \in links}
    <3> HIDE DEF asked, place, links
    <3> QED
      BY <1>7
  <2>2. ~L!Collides(read, i) => asked(i) = place(i)
    BY <1>7, Zenon DEF L!Collides
  <2> QED
    BY <1>4, <2>1, <2>2
<1> HIDE DEF asked, place, links
<1> QED
  BY <1>8 DEF L!LinksAreOneAddress, asked, place, links

\* Whatever base a page declares that was fetched directly, its relative links
\* lead to its own server, and no link of it out of the scope of the crawl.
THEOREM BasesLeadNowhereElse ==
    ASSUME NEW page \in Addresses, NEW declared \in SUBSET Addresses, NEW h \in Hrefs
    PROVE  L!BaseLeadsNowhereElse(page, declared, h)
<1> DEFINE kind == L!LinkBaseOf(page, declared)
           base == IF kind = "declared" THEN CHOOSE d \in declared : TRUE ELSE page
<1>1. base \in Addresses /\ (kind # "unusable" => L!Origin(base) = L!Origin(page))
  BY DEF L!LinkBaseOf
<1> HIDE DEF base, kind
<1>2. L!Discovers(base, kind, h) =>
         /\ L!InScope(L!Target(base, h))
         /\ ~h.absolute => L!Origin(L!Raw(base, h)) = L!Origin(page)
  BY <1>1, ReadingsShareTheOrigin DEF L!Discovers
<1> QED
  BY <1>2 DEF L!BaseLeadsNowhereElse, kind, base

-----------------------------------------------------------------------------
(* What crosses it: PageEvents *)

HeaderLine == [name : STRING, value : STRING \ {"(dropped by the archive)"}]

\* The promises of HTTP: a status that sends no body sends none and is not cut
\* short, and what is promised and not cut comes whole.
Transfers ==
    {t \in [silent : BOOLEAN, cut : BOOLEAN, redirect : STRING, status : STRING,
            headers : Seq(HeaderLine), promised : Nat, sent : Nat] :
        /\ ~E!StatusCarriesABody(t.status) => t.sent = 0 /\ ~t.cut
        /\ (E!StatusCarriesABody(t.status) /\ ~t.cut /\ t.promised # 0) => t.sent = t.promised}

Marked(promised, sent, limit, cut) == ~(promised > limit) /\ (cut \/ sent > limit)
Held(promised, sent, limit) == IF promised > limit THEN 0 ELSE IF sent > limit THEN limit ELSE sent
KeepsItsPromise(promised, sent, cut, carries) ==
    (~carries => sent = 0 /\ ~cut) /\ ((carries /\ ~cut /\ promised # 0) => sent = promised)
MarkedIfShort(promised, sent, limit, cut, carries) ==
    (Marked(promised, sent, limit, cut) \/ (Held(promised, sent, limit) = 0 /\ carries /\ promised > 0))
    <=> IF promised > limit THEN carries ELSE cut \/ sent > limit

\* What page_event sees of a body, whatever the limit.
LEMMA ShortIsMarked ==
    ASSUME NEW promised \in Nat, NEW sent \in Nat, NEW limit \in Nat, NEW carries \in BOOLEAN, NEW cut \in BOOLEAN,
           KeepsItsPromise(promised, sent, cut, carries)
    PROVE  MarkedIfShort(promised, sent, limit, cut, carries)
<1>1. CASE promised > limit
  <2>1. promised > 0
    BY <1>1
  <2> QED
    BY <1>1, <2>1 DEF Marked, Held, MarkedIfShort
<1>2. CASE ~(promised > limit)
  <2>1. ASSUME ~cut, ~(sent > limit), carries, promised > 0
        PROVE  Held(promised, sent, limit) # 0
    BY <1>2, <2>1 DEF Held, KeepsItsPromise
  <2> QED
    BY <1>2, <2>1 DEF Marked, MarkedIfShort
<1> QED
  BY <1>1, <1>2

\* Every line, in order, and nothing of a cookie.
LEMMA HeadersAreKept ==
    ASSUME NEW h \in Seq(HeaderLine)
    PROVE  /\ Len(E!HeadersOf(h)) = Len(h) /\ DOMAIN E!HeadersOf(h) = DOMAIN h
           /\ \A i \in DOMAIN h :
                 /\ E!HeadersOf(h)[i].name = h[i].name
                 /\ E!HeadersOf(h)[i].value = h[i].value <=> h[i].name # "set-cookie"
<1> DEFINE line(i) == IF h[i].name = "set-cookie" THEN [h[i] EXCEPT !.value = "(dropped by the archive)"] ELSE h[i]
<1>1. /\ DOMAIN h = 1 .. Len(h) /\ Len(h) \in Nat
      /\ \A i \in DOMAIN h : h[i] \in HeaderLine
  BY ListFacts
<1>2. E!HeadersOf(h) = [i \in 1 .. Len(h) |-> line(i)]
  BY <1>1 DEF E!HeadersOf
<1>3. ASSUME NEW i \in DOMAIN h
      PROVE  line(i).name = h[i].name /\ (line(i).value = h[i].value <=> h[i].name # "set-cookie")
  <2>1. h[i] \in HeaderLine
    BY <1>1
  <2> QED
    BY <2>1 DEF HeaderLine
<1> HIDE DEF line
<1>4. Len([i \in 1 .. Len(h) |-> line(i)]) = Len(h)
  BY <1>1
<1> QED
  BY <1>1, <1>2, <1>3, <1>4

\* Whatever was promised and sent, and whatever the limit: a record says a
\* body is short when it is and only then, never holds a status nobody sent,
\* and keeps every header line but the value of a cookie.
THEOREM ResponsesAreWhatArrived ==
    ASSUME NEW t \in Transfers
    PROVE  E!ResponseIsWhatArrived(t)
<1> DEFINE p == E!Engine(t)
           e == E!PageEvent(p)
           carries == E!StatusCarriesABody(t.status)
           short == IF t.promised > Limit THEN t.status \notin {"1xx", "204", "304"}
                    ELSE t.cut \/ t.sent > Limit
<1>1. /\ t.silent \in BOOLEAN /\ t.cut \in BOOLEAN /\ t.promised \in Nat /\ t.sent \in Nat
      /\ t.headers \in Seq(HeaderLine)
      /\ KeepsItsPromise(t.promised, t.sent, t.cut, carries)
      /\ carries \in BOOLEAN /\ (carries <=> t.status \notin {"1xx", "204", "304"})
  BY DEF Transfers, KeepsItsPromise, E!StatusCarriesABody
<1>2. /\ p.truncated = Marked(t.promised, t.sent, Limit, t.cut)
      /\ p.body = Held(t.promised, t.sent, Limit)
      /\ p.declared = t.promised /\ p.headers = t.headers
      /\ p.error = t.silent /\ (~t.silent => p.status = t.status)
  BY DEF E!Engine, Marked, Held
<1> HIDE DEF p, carries
<1>3. (e.is = "no response") <=> t.silent
  BY <1>2 DEF E!PageEvent
<1>4. ASSUME ~t.silent
      PROVE  /\ e.status = t.status /\ e.headers = E!HeadersOf(t.headers)
             /\ e.truncated = E!BodyIsIncomplete(p)
  BY <1>2, <1>4 DEF E!PageEvent
<1>5. ASSUME ~t.silent PROVE E!BodyIsIncomplete(p) <=> short
  <2>1. MarkedIfShort(t.promised, t.sent, Limit, t.cut, carries)
    <3>1. Limit \in Nat
      BY BoundaryAssumption
    <3> QED
      BY <1>1, <3>1, ShortIsMarked, Zenon
  <2>2. E!BodyIsIncomplete(p)
        <=> (Marked(t.promised, t.sent, Limit, t.cut) \/ (Held(t.promised, t.sent, Limit) = 0 /\ carries /\ t.promised > 0))
    BY <1>2, <1>5 DEF E!BodyIsIncomplete, carries
  <2> QED
    BY <1>1, <2>1, <2>2 DEF MarkedIfShort
<1>6. ASSUME e.is = "response" PROVE ~t.silent
  BY <1>3, <1>6
<1>7. /\ Len(E!HeadersOf(t.headers)) = Len(t.headers) /\ DOMAIN E!HeadersOf(t.headers) = DOMAIN t.headers
      /\ \A i \in DOMAIN t.headers :
            /\ E!HeadersOf(t.headers)[i].name = t.headers[i].name
            /\ E!HeadersOf(t.headers)[i].value = t.headers[i].value <=> t.headers[i].name # "set-cookie"
  BY <1>1, HeadersAreKept
<1> HIDE DEF e
<1> QED
  BY <1>3, <1>4, <1>5, <1>6, <1>7 DEF E!ResponseIsWhatArrived, e, p
Labels == STRING \union {E!Root}

LEMMA ARootDotIsNoLabel ==
    ASSUME NEW labels \in Seq(Labels)
    PROVE  E!IsInternalName(Append(labels, E!Root)) = E!IsInternalName(labels)
<1> DEFINE longer == Append(labels, E!Root)
           said == {i \in DOMAIN labels : labels[i] # E!Root}
<1>1. /\ {i \in DOMAIN longer : longer[i] # E!Root} = said
      /\ \A i \in DOMAIN labels : SubSeq(longer, 1, i) = SubSeq(labels, 1, i)
  <2>1. E!Root \in Labels
    BY DEF Labels
  <2> QED
    BY <2>1, LongerByOne
<1>2. CASE said = {}
  <2> HIDE DEF said, longer
  <2> QED
    BY <1>1, <1>2 DEF E!IsInternalName, said
<1>3. CASE said # {}
  <2> DEFINE last == CHOOSE i \in said : \A j \in said : j <= i
  <2>1. last \in said
    <3>1. Len(labels) \in Nat /\ said \in SUBSET (1 .. Len(labels))
      BY ListFacts
    <3>2. \E x \in said : Greatest(x, said)
      <4> HIDE DEF said
      <4> QED
        BY <1>3, <3>1, Extremes, Zenon
    <3> HIDE DEF said
    <3> QED
      BY <3>2 DEF Greatest
  <2>2. SubSeq(longer, 1, last) = SubSeq(labels, 1, last)
    <3>1. said \subseteq DOMAIN labels
      OBVIOUS
    <3> HIDE DEF last, said, longer
    <3> QED
      BY <1>1, <2>1, <3>1
  <2> HIDE DEF longer, last
  <2>3. E!IsInternalName(longer) <=> \/ E!Last(SubSeq(longer, 1, last)) = "localhost"
                                     \/ SubSeq(longer, 1, last) \in {<<"metadata", "google", "internal">>, <<"metadata", "goog">>}
    <3> HIDE DEF said
    <3> QED
      BY <1>1, <1>3, Zenon DEF E!IsInternalName, last
  <2>4. E!IsInternalName(labels) <=> \/ E!Last(SubSeq(labels, 1, last)) = "localhost"
                                     \/ SubSeq(labels, 1, last) \in {<<"metadata", "google", "internal">>, <<"metadata", "goog">>}
    <3> HIDE DEF E!Last
    <3> QED
      BY <1>3, Zenon DEF E!IsInternalName, last
  <2> QED
    BY <2>2, <2>3, <2>4, Zenon DEF longer, E!IsInternalName
<1> QED
  BY <1>2, <1>3

\* A host as Url::parse reads it.
HostShapes ==
    [is : {"v4", "mapped"}, octets : [1 .. 4 -> 0 .. 255]] \union [is : {"v6"}, block : STRING]
        \union [is : {"name"}, labels : Seq(Labels)] \union [is : {"none"}]

\* The dots of the root and an address written in six bytes of another get no
\* host past the guard that keeps an archive off the networks behind it, and
\* keep none out.
THEOREM SpellingsAgree ==
    ASSUME NEW scheme, NEW h \in HostShapes, NEW allowed \in BOOLEAN
    PROVE  E!SpellingDoesNotMatter(scheme, h, allowed)
<1>1. CASE h.is = "name" /\ h \in [is : {"name"}, labels : Seq(Labels)]
  <2>1. E!Respelled(h).is = "name" /\ E!Respelled(h).labels = Append(h.labels, E!Root)
    BY <1>1 DEF E!Respelled
  <2>2. E!IsInternalName(Append(h.labels, E!Root)) = E!IsInternalName(h.labels)
    <3>1. h.labels \in Seq(Labels)
      BY <1>1
    <3> QED
      BY <3>1, ARootDotIsNoLabel
  <2>3. E!IsInternalHost(E!Respelled(h)) = E!IsInternalHost(h)
    <3> HIDE DEF E!IsInternalName
    <3> QED
      BY <1>1, <2>1, <2>2 DEF E!IsInternalHost
  <2> QED
    BY <1>1, <2>1, <2>3 DEF E!SpellingDoesNotMatter, E!UsableUrl
<1>2. CASE h.is # "name"
  BY <1>2 DEF E!SpellingDoesNotMatter, E!UsableUrl, E!IsInternalHost, E!Respelled, HostShapes
<1> QED
  BY <1>1, <1>2 DEF HostShapes

-----------------------------------------------------------------------------
(* The credential: SessionCookie *)

CookieFiles == [given : BOOLEAN, opens : BOOLEAN, text : BOOLEAN, mode : SUBSET STRING, holds : Seq(STRING)]
Exported == [given : BOOLEAN, text : BOOLEAN, holds : Seq(STRING)]

LEMMA Slices ==
    ASSUME NEW set, NEW s \in Seq(set), NEW m \in 1 .. Len(s), NEW n \in 1 .. Len(s)
    PROVE  SubSeq(s, m, n) \in Seq(set)
  OBVIOUS

\* What is left of a text is a text.
LEMMA TrimmedIsAText ==
    ASSUME NEW text \in Seq(STRING)
    PROVE  K!Trimmed(text) \in Seq(STRING)
<1> DEFINE kept == {i \in DOMAIN text : text[i] \notin K!Whitespace}
           first == CHOOSE i \in kept : \A j \in kept : i <= j
           last == CHOOSE i \in kept : \A j \in kept : j <= i
<1>1. Len(text) \in Nat /\ DOMAIN text = 1 .. Len(text)
  BY ListFacts
<1>2. kept \in SUBSET (1 .. Len(text))
  BY <1>1
<1>3. CASE kept = {}
  BY <1>3 DEF K!Trimmed
<1>4. CASE kept # {}
  <2>1. first \in kept /\ last \in kept
    <3>1. (\E x \in kept : Greatest(x, kept)) /\ (\E x \in kept : Least(x, kept))
      <4> HIDE DEF kept
      <4> QED
        BY <1>1, <1>2, <1>4, Extremes, Zenon
    <3> HIDE DEF kept
    <3> QED
      BY <3>1 DEF Greatest, Least
  <2>2. first \in 1 .. Len(text) /\ last \in 1 .. Len(text)
    <3> HIDE DEF kept, first, last
    <3> QED
      BY <1>2, <2>1
  <2>3. SubSeq(text, first, last) \in Seq(STRING)
    <3> HIDE DEF first, last
    <3> QED
      BY <2>2, Slices
  <2>4. K!Trimmed(text) = SubSeq(text, first, last)
    BY <1>4, Zenon DEF K!Trimmed
  <2> QED
    BY <2>3, <2>4, Zenon
<1> QED
  BY <1>3, <1>4

LEMMA UsableValueIsOneHeader ==
    ASSUME NEW text \in Seq(STRING), NEW v, v = K!UsableValue(text)
    PROVE  /\ "value" \in DOMAIN v =>
                 /\ v.value = K!Trimmed(text) /\ v.value # <<>>
                 /\ ~K!Contains(v.value, "newline") /\ ~K!Contains(v.value, "control")
           /\ "none" \notin DOMAIN v
<1>1. K!Trimmed(text) \in Seq(STRING)
  BY TrimmedIsAText
<1>2. CASE K!Trimmed(text) = <<>> \/ ~(K!Range(K!Trimmed(text)) \subseteq K!Sendable)
  <2>1. DOMAIN v = {"refused"}
    BY <1>2 DEF K!UsableValue, K!Refused
  <2> QED
    BY <2>1
<1>3. CASE K!Trimmed(text) # <<>> /\ K!Range(K!Trimmed(text)) \subseteq K!Sendable
  <2>1. v = [value |-> K!Trimmed(text)]
    BY <1>3 DEF K!UsableValue, K!Value
  <2>2. ~K!Contains(K!Trimmed(text), "newline") /\ ~K!Contains(K!Trimmed(text), "control")
    <3>1. \A i \in 1 .. Len(K!Trimmed(text)) : K!Trimmed(text)[i] \in K!Sendable
      BY <1>1, <1>3, ListFacts DEF K!Range
    <3> HIDE DEF K!Trimmed
    <3> QED
      BY <3>1 DEF K!Contains, K!Sendable
  <2> HIDE DEF K!Trimmed
  <2>3. DOMAIN v = {"value"} /\ v.value = K!Trimmed(text)
    BY <2>1
  <2> QED
    BY <1>3, <2>2, <2>3
<1> QED
  BY <1>2, <1>3

\* Whatever a source holds and whoever may read it: what is used as a
\* credential came whole from the source that was chosen, cannot be read
\* there by anybody else, and is one header; and only where no source was
\* given is there none and no refusal.
THEOREM CredentialsArePrivate ==
    ASSUME NEW file \in CookieFiles, NEW exported \in Exported
    PROVE  K!CredentialIsPrivate(file, exported)
<1> DEFINE v == K!CookieHeaderValue(file, exported)
<1>1. /\ file.given \in BOOLEAN /\ file.holds \in Seq(STRING)
      /\ exported.given \in BOOLEAN /\ exported.holds \in Seq(STRING)
  BY DEF CookieFiles, Exported
<1>2. ASSUME NEW why, v = K!Refused(why) PROVE K!CredentialIsPrivate(file, exported)
  <2> HIDE DEF v
  <2>1. DOMAIN v = {"refused"}
    BY <1>2 DEF K!Refused
  <2> QED
    BY <2>1 DEF K!CredentialIsPrivate, v
<1>3. CASE file.given
  <2>1. v = K!ReadCookieFile(file)
    BY <1>3 DEF K!CookieHeaderValue
  <2>2. CASE file.opens /\ K!WhoElseCanRead(file.mode) = {} /\ file.text
    <3>1. v = K!UsableValue(file.holds)
      BY <2>1, <2>2 DEF K!ReadCookieFile
    <3>2. file.mode \intersect {"group read", "other read"} = {}
      BY <2>2 DEF K!WhoElseCanRead
    <3> HIDE DEF v
    <3>3. /\ "value" \in DOMAIN v =>
                 /\ v.value = K!Trimmed(file.holds) /\ v.value # <<>>
                 /\ ~K!Contains(v.value, "newline") /\ ~K!Contains(v.value, "control")
          /\ "none" \notin DOMAIN v
      BY <1>1, <3>1, UsableValueIsOneHeader
    <3> QED
      BY <1>3, <3>2, <3>3 DEF K!CredentialIsPrivate, v
  <2>3. CASE ~(file.opens /\ K!WhoElseCanRead(file.mode) = {} /\ file.text)
    <3>1. \E why : v = K!Refused(why)
      BY <2>1, <2>3 DEF K!ReadCookieFile
    <3> HIDE DEF v
    <3> QED
      BY <1>2, <3>1
  <2> QED
    BY <2>2, <2>3
<1>4. CASE ~file.given /\ ~exported.given
  <2>1. v = [none |-> TRUE]
    BY <1>4 DEF K!CookieHeaderValue
  <2> HIDE DEF v
  <2>2. DOMAIN v = {"none"}
    BY <2>1
  <2> QED
    BY <1>4, <2>2 DEF K!CredentialIsPrivate, v
<1>5. CASE ~file.given /\ exported.given
  <2>1. CASE exported.text
    <3>1. v = K!UsableValue(exported.holds)
      BY <1>5, <2>1 DEF K!CookieHeaderValue
    <3> HIDE DEF v
    <3>2. /\ "value" \in DOMAIN v =>
                 /\ v.value = K!Trimmed(exported.holds) /\ v.value # <<>>
                 /\ ~K!Contains(v.value, "newline") /\ ~K!Contains(v.value, "control")
          /\ "none" \notin DOMAIN v
      BY <1>1, <3>1, UsableValueIsOneHeader
    <3> QED
      BY <1>5, <3>2 DEF K!CredentialIsPrivate, v
  <2>2. CASE ~exported.text
    <3>1. v = K!Refused("not a header value")
      BY <1>5, <2>2 DEF K!CookieHeaderValue
    <3> HIDE DEF v
    <3> QED
      BY <1>2, <3>1
  <2> QED
    BY <2>1, <2>2
<1> QED
  BY <1>1, <1>3, <1>4, <1>5

-----------------------------------------------------------------------------
(* Where it goes: the Website an engine keeps *)

Origins == STRING \ {"opaque", "unread"}
Calls == [is : {"crawl", "fetch"}, url : Origins, bound : Origins \union {"opaque"}, panics : BOOLEAN]
CallLists == Seq(Calls)
Sites == [origin : Origins, rules : Origins, headers : BOOLEAN]
Requests == [what : {"robots", "pages", "one"}, to : Origins, rules : Origins \union {"unread"}, carries : BOOLEAN]
Engines == [slot : {<<>>} \union {<<w>> : w \in Sites}, asked : Seq(Requests)]

Idle == [slot |-> <<>>, asked |-> <<>>]
Answered(s, c) == IF c.is = "crawl" THEN K!Crawled(s, c) ELSE K!Fetched(s, c)
Asking(what, c, rules) == [what |-> what, to |-> c.url, rules |-> rules, carries |-> K!ValueFor(c.bound, c.url)]
\* The Website kept is good for this call.
Serves(s, c) == s.slot # <<>> /\ s.slot[1].origin = c.url

\* What one call leaves: a fetch nothing but its request, a crawl the Website
\* it read the rules of, unless it panics.
LEMMA WhatACallLeaves ==
    ASSUME NEW s \in Engines, NEW c \in Calls
    PROVE  /\ Answered(s, c) \in Engines
           /\ c.is = "fetch" => /\ Answered(s, c).slot = s.slot
                                /\ Answered(s, c).asked = Append(s.asked, Asking("one", c, "unread"))
           /\ c.is = "crawl" =>
                 \E w \in Sites :
                    /\ w.origin = c.url /\ w.rules = IF Serves(s, c) THEN s.slot[1].rules ELSE c.url
                    /\ Answered(s, c).slot = IF c.panics THEN <<>> ELSE <<w>>
                    /\ Answered(s, c).asked =
                          Append(IF Serves(s, c) THEN s.asked ELSE Append(s.asked, Asking("robots", c, "unread")),
                                 Asking("pages", c, w.rules))
<1>0. /\ c.url \in Origins /\ c.panics \in BOOLEAN /\ c.is \in {"crawl", "fetch"}
      /\ s.asked \in Seq(Requests) /\ (s.slot = <<>> \/ \E w \in Sites : s.slot = <<w>>)
  BY DEF Engines, Calls
<1>1. ASSUME NEW what \in {"robots", "pages", "one"}, NEW rules \in Origins \union {"unread"}
      PROVE  Asking(what, c, rules) \in Requests
  <2>1. K!ValueFor(c.bound, c.url) \in BOOLEAN
    BY DEF K!ValueFor
  <2> HIDE DEF K!ValueFor
  <2> QED
    BY <1>0, <2>1 DEF Asking, Requests
<1>2. ASSUME NEW q \in Seq(Requests), NEW r \in Requests PROVE Append(q, r) \in Seq(Requests)
  BY Appended
<1>3. CASE c.is = "fetch"
  <2>1. Answered(s, c) = [slot |-> s.slot, asked |-> Append(s.asked, Asking("one", c, "unread"))]
    BY <1>0, <1>3, Zenon DEF Answered, K!Fetched, K!Configured, K!Fresh, K!Asked, Asking, Engines
  <2>2. Asking("one", c, "unread") \in Requests
    BY <1>1
  <2>3. Append(s.asked, Asking("one", c, "unread")) \in Seq(Requests)
    BY <1>0, <1>2, <2>2
  <2> QED
    BY <1>0, <1>3, <2>1, <2>3 DEF Engines
<1>4. CASE c.is = "crawl"
  <2> DEFINE site == K!Configured(K!CachedFor(s.slot, c.url), c.bound, c.url)
             rules == IF Serves(s, c) THEN s.slot[1].rules ELSE c.url
             w == [site EXCEPT !.rules = IF @ = "unread" THEN c.url ELSE @]
             before == IF Serves(s, c) THEN s.asked ELSE Append(s.asked, Asking("robots", c, "unread"))
  <2>1. /\ site = [origin |-> c.url, rules |-> IF Serves(s, c) THEN s.slot[1].rules ELSE "unread",
                   headers |-> K!ValueFor(c.bound, c.url)]
        /\ Serves(s, c) => s.slot[1].rules \in Origins
    <3>1. CASE Serves(s, c)
      <4>1. PICK kept \in Sites : s.slot = <<kept>>
        BY <1>0, <3>1 DEF Serves
      <4>2. s.slot[1] = kept /\ s.slot # <<>> /\ kept.origin = c.url
        BY <3>1, <4>1 DEF Serves
      <4>3. K!CachedFor(s.slot, c.url) = kept
        BY <4>2 DEF K!CachedFor
      <4> HIDE DEF K!CachedFor
      <4>4. site = [kept EXCEPT !.origin = c.url, !.headers = K!ValueFor(c.bound, c.url)]
        BY <4>3 DEF K!Configured
      <4>5. site = [origin |-> c.url, rules |-> kept.rules, headers |-> K!ValueFor(c.bound, c.url)]
        <5> HIDE DEF site
        <5> QED
          BY <4>4, Zenon DEF Sites
      <4>6. kept.rules \in Origins
        BY DEF Sites
      <4> HIDE DEF site
      <4> QED
        BY <3>1, <4>2, <4>5, <4>6
    <3>2. CASE ~Serves(s, c)
      <4>1. K!CachedFor(s.slot, c.url) = K!Fresh(c.url)
        BY <3>2 DEF K!CachedFor, Serves
      <4> HIDE DEF K!CachedFor
      <4>2. site = [[origin |-> c.url, rules |-> "unread", headers |-> FALSE]
                        EXCEPT !.origin = c.url, !.headers = K!ValueFor(c.bound, c.url)]
        BY <4>1 DEF K!Configured, K!Fresh
      <4> HIDE DEF site
      <4>3. site = [origin |-> c.url, rules |-> "unread", headers |-> K!ValueFor(c.bound, c.url)]
        BY <4>2, Zenon
      <4> QED
        BY <3>2, <4>3
    <3> HIDE DEF site
    <3> QED
      BY <3>1, <3>2
  <2>2. site.rules = "unread" <=> ~Serves(s, c)
    BY <2>1 DEF Origins
  <2>3. w = [origin |-> c.url, rules |-> rules, headers |-> K!ValueFor(c.bound, c.url)] /\ rules \in Origins
    BY <1>0, <2>1 DEF Origins
  <2>4. w \in Sites
    BY <1>0, <2>3, Zenon DEF Sites, K!ValueFor
  <2>5. /\ K!Asked("robots", c.url, site) = Asking("robots", c, site.rules)
        /\ K!Asked("pages", c.url, w) = Asking("pages", c, w.rules)
    BY <2>1, <2>3 DEF K!Asked, Asking
  <2>6. Answered(s, c) = [slot |-> IF c.panics THEN <<>> ELSE <<w>>,
                          asked |-> Append(IF site.rules = "unread" THEN Append(s.asked, K!Asked("robots", c.url, site))
                                           ELSE s.asked, K!Asked("pages", c.url, w))]
    BY <1>4 DEF Answered, K!Crawled
  <2>7. Answered(s, c) = [slot |-> IF c.panics THEN <<>> ELSE <<w>>,
                          asked |-> Append(before, Asking("pages", c, w.rules))]
    <3> HIDE DEF site, w
    <3> QED
      BY <2>2, <2>5, <2>6, Zenon
  <2>8. before \in Seq(Requests)
    <3>1. Asking("robots", c, "unread") \in Requests
      BY <1>1
    <3> QED
      BY <1>0, <1>2, <3>1
  <2>9. Append(before, Asking("pages", c, w.rules)) \in Seq(Requests)
    <3>1. w.rules \in Origins
      BY <2>3
    <3>2. Asking("pages", c, w.rules) \in Requests
      <4> HIDE DEF w
      <4> QED
        BY <1>1, <3>1
    <3> HIDE DEF w, before
    <3> QED
      BY <1>2, <2>8, <3>2
  <2>10. w.origin = c.url /\ w.rules = rules
    BY <2>3
  <2>11. Answered(s, c) \in Engines
    <3> HIDE DEF w, before
    <3> QED
      BY <2>4, <2>7, <2>9 DEF Engines
  <2>12. /\ Answered(s, c).slot = IF c.panics THEN <<>> ELSE <<w>>
         /\ Answered(s, c).asked = Append(before, Asking("pages", c, w.rules))
    <3> HIDE DEF w, before
    <3> QED
      BY <2>7
  <2> HIDE DEF w, site
  <2> QED
    BY <1>4, <2>4, <2>10, <2>11, <2>12, Zenon
<1> QED
  BY <1>0, <1>3, <1>4, Zenon

\* The run of an engine is one answer after another.
LEMMA RunIsAnsweredInTurn ==
    ASSUME NEW calls \in CallLists
    PROVE  \E g \in [0 .. Len(calls) -> Engines] :
              /\ g[0] = Idle /\ K!Run(calls) = g[Len(calls)].asked
              /\ \A k \in 1 .. Len(calls) : g[k] = Answered(g[k - 1], calls[k])
<1> DEFINE n == Len(calls)
           f == [k \in 1 .. n |-> [s \in Engines |-> Answered(s, calls[k])]]
           folds(h) == h = [set \in SUBSET (1 .. n) |->
                              IF set = {} THEN Idle ELSE Answered(h[set \ {Top(set)}], calls[Top(set)])]
           iter == CHOOSE h : folds(h)
           g == [k \in 0 .. n |-> iter[1 .. k]]
<1>1. n \in Nat /\ DOMAIN calls = 1 .. n /\ \A k \in 1 .. n : calls[k] \in Calls
  BY ListFacts DEF CallLists
<1> HIDE DEF n
<1>2. Idle \in Engines
  BY DEF Idle, Engines
<1>3. f \in [1 .. n -> [Engines -> Engines]]
  BY <1>1, WhatACallLeaves
<1>4. \E h : folds(h)
  <2>1. PICK h : Folds(h, n, Engines, Idle, f)
    <3> HIDE DEF f, n
    <3> QED
      BY <1>1, <1>2, <1>3, FoldsExist
  <2>2. ASSUME NEW set \in SUBSET (1 .. n), set # {}
        PROVE  h[set] = Answered(h[set \ {Top(set)}], calls[Top(set)])
    <3>1. Top(set) \in 1 .. n
      <4>1. Top(set) \in set
        <5> HIDE DEF n
        <5> QED
          BY <1>1, <2>2, TopIsGreatest, Zenon
      <4> HIDE DEF Top, n
      <4> QED
        BY <4>1, Zenon
    <3> HIDE DEF Top, n
    <3>2. set \ {Top(set)} \in SUBSET (1 .. n)
      BY Zenon
    <3>3. h[set \ {Top(set)}] \in Engines
      BY <2>1, <3>2 DEF Folds
    <3>4. h[set] = f[Top(set)][h[set \ {Top(set)}]]
      BY <2>1, <2>2, Zenon DEF Folds
    <3> QED
      BY <3>1, <3>3, <3>4
  <2>3. h = [set \in SUBSET (1 .. n) |-> h[set]] /\ h[{}] = Idle
    BY <2>1, Zenon DEF Folds
  <2>4. h = [set \in SUBSET (1 .. n) |->
                IF set = {} THEN Idle ELSE Answered(h[set \ {Top(set)}], calls[Top(set)])]
    <3> HIDE DEF n, f
    <3> QED
      BY <2>2, <2>3, Zenon
  <2> QED
    BY <2>4, Zenon
<1>5. folds(iter)
  <2> HIDE DEF folds
  <2> QED
    BY <1>4
<1> HIDE DEF iter
<1>6. iter[{}] = Idle
  <2>1. {} \in SUBSET (1 .. n)
    OBVIOUS
  <2> HIDE DEF n
  <2> QED
    BY <1>5, <2>1
<1>7. ASSUME NEW k \in 1 .. n PROVE iter[1 .. k] = Answered(iter[1 .. k - 1], calls[k])
  <2>1. /\ 1 .. k # {} /\ Top(1 .. k) = k /\ (1 .. k) \ {k} = 1 .. k - 1
        /\ 1 .. k \in SUBSET (1 .. n)
    <3> HIDE DEF n
    <3> QED
      BY <1>1, TopOfPrefixes
  <2> HIDE DEF n
  <2> QED
    BY <1>5, <2>1, Zenon
<1>8. 1 .. 0 = {}
  OBVIOUS
<1>9. \A k \in 0 .. n : iter[1 .. k] \in Engines
  <2> DEFINE so == {k \in 0 .. n : iter[1 .. k] \in Engines}
  <2>1. 0 \in so
    BY <1>1, <1>2, <1>6, <1>8
  <2>2. ASSUME NEW k \in 1 .. n, k - 1 \in so PROVE k \in so
    <3>1. iter[1 .. k - 1] \in Engines /\ calls[k] \in Calls /\ k \in 0 .. n
      BY <1>1, <2>2
    <3> HIDE DEF n
    <3> QED
      BY <1>7, <3>1, WhatACallLeaves
  <2>3. \A k \in 0 .. n : k \in so
    <3> HIDE DEF so, n
    <3> QED
      BY <1>1, <2>1, <2>2, Upwards, Zenon
  <2> QED
    BY <2>3
<1>10. K!Run(calls) = iter[1 .. n].asked
  <2>1. K!Run(calls) = iter[DOMAIN calls].asked
    BY <1>1 DEF K!Run, K!FoldLeft, K!MapThenFoldSet, K!Max, iter, Top, Idle, Answered
  <2> QED
    BY <1>1, <2>1
<1>11. /\ g \in [0 .. n -> Engines] /\ g[0] = Idle /\ K!Run(calls) = g[n].asked
       /\ \A k \in 1 .. n : g[k] = Answered(g[k - 1], calls[k])
  <2>1. 0 \in 0 .. n /\ n \in 0 .. n /\ \A k \in 1 .. n : k \in 0 .. n /\ k - 1 \in 0 .. n
    BY <1>1
  <2> HIDE DEF n
  <2> QED
    BY <1>6, <1>7, <1>8, <1>9, <1>10, <2>1
<1> HIDE DEF g
<1> QED
  BY <1>11, Zenon DEF n

Crawls(calls) == {i \in DOMAIN calls : calls[i].is = "crawl"}
Follows(calls, i, j) == j \in Crawls(calls) /\ j < i /\ \A k \in Crawls(calls) : k < i => k <= j
\* A crawl that finds no Website of its origin.
Begins(calls, i) ==
    \A j \in Crawls(calls) : Follows(calls, i, j) => calls[j].url # calls[i].url \/ calls[j].panics
Begun(calls, k) == {i \in Crawls(calls) : i <= k /\ Begins(calls, i)}
RobotsOf(asked) == {i \in DOMAIN asked : asked[i].what = "robots"}

\* The Website kept after k calls is that of the last crawl, with its rules.
Kept(calls, s, k) ==
    \/ (\A j \in Crawls(calls) : ~(j < k + 1)) /\ s.slot = <<>>
    \/ \E j \in Crawls(calls) :
          /\ Follows(calls, k + 1, j)
          /\ calls[j].panics => s.slot = <<>>
          /\ ~calls[j].panics => s.slot # <<>> /\ s.slot[1].origin = calls[j].url /\ s.slot[1].rules = calls[j].url
\* Every request is that of a call, with the cookie only where it belongs.
Meant(calls, r, k) ==
    /\ \E j \in 1 .. k : r.to = calls[j].url /\ r.carries = K!ValueFor(calls[j].bound, calls[j].url)
    /\ r.what = "pages" => r.rules = r.to
Sent(calls, s, k) == \A i \in DOMAIN s.asked : Meant(calls, s.asked[i], k)
Counted(calls, s, k) ==
    /\ IsFiniteSet(RobotsOf(s.asked)) /\ IsFiniteSet(Begun(calls, k))
    /\ Cardinality(RobotsOf(s.asked)) = Cardinality(Begun(calls, k))

LEMMA OneMoreRequest ==
    ASSUME NEW q \in Seq(Requests), NEW r \in Requests, IsFiniteSet(RobotsOf(q))
    PROVE  /\ IsFiniteSet(RobotsOf(Append(q, r)))
           /\ Cardinality(RobotsOf(Append(q, r))) = Cardinality(RobotsOf(q)) + IF r.what = "robots" THEN 1 ELSE 0
           /\ DOMAIN Append(q, r) = 1 .. Len(q) + 1 /\ Append(q, r)[Len(q) + 1] = r
           /\ \A i \in DOMAIN q : Append(q, r)[i] = q[i]
<1> DEFINE t == Append(q, r)
           n == Len(q)
<1>1. n \in Nat /\ DOMAIN q = 1 .. n
  BY ListFacts
<1>2. t \in Seq(Requests) /\ Len(t) = n + 1 /\ t[n + 1] = r /\ \A i \in 1 .. n : t[i] = q[i]
  BY Appended
<1>3. DOMAIN t = 1 .. n + 1
  <2>1. DOMAIN t = 1 .. Len(t)
    BY <1>2, ListFacts
  <2> HIDE DEF t, n
  <2> QED
    BY <1>2, <2>1
<1> HIDE DEF t, n
<1>4. \A i : i \in 1 .. n + 1 <=> i \in 1 .. n \/ i = n + 1
  BY <1>1
<1>5. n + 1 \notin RobotsOf(q) /\ Cardinality(RobotsOf(q)) \in Nat
  BY <1>1, FS_CardinalityType DEF RobotsOf
<1>6. CASE r.what = "robots"
  <2>1. RobotsOf(t) = RobotsOf(q) \union {n + 1}
    BY <1>1, <1>2, <1>3, <1>4, <1>6 DEF RobotsOf
  <2>2. IsFiniteSet(RobotsOf(t)) /\ Cardinality(RobotsOf(t)) = Cardinality(RobotsOf(q)) + 1
    BY <1>5, <2>1, FS_AddElement
  <2> QED
    BY <1>1, <1>2, <1>3, <1>6, <2>2 DEF t, n
<1>7. CASE r.what # "robots"
  <2>1. RobotsOf(t) = RobotsOf(q)
    BY <1>1, <1>2, <1>3, <1>4, <1>7 DEF RobotsOf
  <2> QED
    BY <1>1, <1>2, <1>3, <1>5, <1>7, <2>1 DEF t, n
<1> QED
  BY <1>6, <1>7

LEMMA OneMoreCrawl ==
    ASSUME NEW calls, NEW n \in Nat, DOMAIN calls = 1 .. n, NEW k \in 1 .. n, IsFiniteSet(Begun(calls, k - 1))
    PROVE  /\ IsFiniteSet(Begun(calls, k))
           /\ Cardinality(Begun(calls, k)) = Cardinality(Begun(calls, k - 1))
                + IF k \in Crawls(calls) /\ Begins(calls, k) THEN 1 ELSE 0
<1>1. \A i \in Crawls(calls) : i <= k <=> i <= k - 1 \/ i = k
  BY DEF Crawls
<1>2. k \notin Begun(calls, k - 1) /\ Cardinality(Begun(calls, k - 1)) \in Nat
  BY FS_CardinalityType DEF Begun
<1>3. CASE k \in Crawls(calls) /\ Begins(calls, k)
  <2>1. \A i : i \in Begun(calls, k) <=> i \in Begun(calls, k - 1) \/ i = k
    BY <1>1, <1>3, Zenon DEF Begun
  <2>2. Begun(calls, k) = Begun(calls, k - 1) \union {k}
    BY <2>1
  <2> QED
    BY <1>2, <1>3, <2>2, FS_AddElement
<1>4. CASE ~(k \in Crawls(calls) /\ Begins(calls, k))
  <2>1. \A i : i \in Begun(calls, k) <=> i \in Begun(calls, k - 1)
    BY <1>1, <1>4 DEF Begun
  <2>2. Begun(calls, k) = Begun(calls, k - 1)
    BY <2>1, Zenon
  <2> QED
    BY <1>2, <1>4, <2>2
<1> QED
  BY <1>3, <1>4

\* robots.txt is asked for where no Website of the origin was kept.
LEMMA ServedUnlessItBegins ==
    ASSUME NEW calls, NEW n \in Nat, DOMAIN calls = 1 .. n, NEW k \in 1 .. n, NEW s, Kept(calls, s, k - 1)
    PROVE  /\ Serves(s, calls[k]) <=> ~Begins(calls, k)
           /\ Serves(s, calls[k]) => s.slot[1].rules = calls[k].url
<1>0. k - 1 + 1 = k /\ \A i \in Crawls(calls) : i \in Int
  BY DEF Crawls
<1>1. CASE (\A j \in Crawls(calls) : ~(j < k)) /\ s.slot = <<>>
  BY <1>1 DEF Begins, Follows, Serves
<1>2. ASSUME NEW j \in Crawls(calls), Follows(calls, k, j),
             calls[j].panics => s.slot = <<>>,
             ~calls[j].panics => s.slot # <<>> /\ s.slot[1].origin = calls[j].url /\ s.slot[1].rules = calls[j].url
      PROVE  /\ Serves(s, calls[k]) <=> ~Begins(calls, k)
             /\ Serves(s, calls[k]) => s.slot[1].rules = calls[k].url
  <2>1. ASSUME NEW i \in Crawls(calls), Follows(calls, k, i) PROVE i = j
    <3>1. i <= j /\ j <= i /\ i \in Int /\ j \in Int
      BY <1>0, <1>2, <2>1 DEF Follows
    <3> QED
      BY <3>1
  <2>2. Begins(calls, k) <=> calls[j].url # calls[k].url \/ calls[j].panics
    BY <1>2, <2>1 DEF Begins
  <2> QED
    BY <1>2, <2>2 DEF Serves
<1>3. Kept(calls, s, k - 1) <=>
         \/ (\A j \in Crawls(calls) : ~(j < k)) /\ s.slot = <<>>
         \/ \E j \in Crawls(calls) :
              /\ Follows(calls, k, j)
              /\ calls[j].panics => s.slot = <<>>
              /\ ~calls[j].panics => s.slot # <<>> /\ s.slot[1].origin = calls[j].url /\ s.slot[1].rules = calls[j].url
  BY <1>0 DEF Kept
<1> QED
  BY <1>1, <1>2, <1>3

LEMMA ACallKeepsTheAccount ==
    ASSUME NEW calls \in CallLists, NEW k \in 1 .. Len(calls), NEW s \in Engines, NEW t, t = Answered(s, calls[k]),
           Kept(calls, s, k - 1), Sent(calls, s, k - 1), Counted(calls, s, k - 1)
    PROVE  Kept(calls, t, k) /\ Sent(calls, t, k) /\ Counted(calls, t, k)
<1> DEFINE c == calls[k]
           n == Len(calls)
           request(what, rules) == Asking(what, c, rules)
<1>1. /\ n \in Nat /\ DOMAIN calls = 1 .. n /\ k \in 1 .. n /\ c \in Calls
      /\ k \in Int /\ k - 1 + 1 = k /\ k - 1 \in Int
  BY ListFacts DEF CallLists
<1>2. /\ s.asked \in Seq(Requests) /\ (c.is = "fetch" \/ c.is = "crawl")
      /\ k \in Crawls(calls) <=> c.is = "crawl"
  BY <1>1 DEF Engines, Calls, Crawls
<1>3. /\ Serves(s, c) <=> ~Begins(calls, k)
      /\ Serves(s, c) => s.slot[1].rules = c.url
  BY <1>1, ServedUnlessItBegins, Zenon
<1>4. /\ IsFiniteSet(RobotsOf(s.asked)) /\ Cardinality(RobotsOf(s.asked)) = Cardinality(Begun(calls, k - 1))
      /\ IsFiniteSet(Begun(calls, k)) /\ Cardinality(RobotsOf(s.asked)) \in Nat
      /\ Cardinality(Begun(calls, k)) = Cardinality(Begun(calls, k - 1))
              + IF k \in Crawls(calls) /\ Begins(calls, k) THEN 1 ELSE 0
  <2>1. IsFiniteSet(Begun(calls, k - 1))
    BY DEF Counted
  <2>2. /\ IsFiniteSet(Begun(calls, k))
        /\ Cardinality(Begun(calls, k)) = Cardinality(Begun(calls, k - 1))
              + IF k \in Crawls(calls) /\ Begins(calls, k) THEN 1 ELSE 0
    <3> HIDE DEF n, c
    <3> QED
      BY <1>1, <2>1, OneMoreCrawl
  <2>3. Cardinality(RobotsOf(s.asked)) \in Nat
    BY FS_CardinalityType DEF Counted
  <2> QED
    BY <2>2, <2>3 DEF Counted
<1>5. ASSUME NEW r, Meant(calls, r, k - 1) PROVE Meant(calls, r, k)
  <2>1. \A j \in 1 .. k - 1 : j \in 1 .. k
    BY <1>1
  <2> QED
    BY <1>5, <2>1 DEF Meant
<1>6. ASSUME NEW what \in {"robots", "pages", "one"}, NEW rules \in Origins \union {"unread"}, what = "pages" => rules = c.url
      PROVE  request(what, rules) \in Requests /\ Meant(calls, request(what, rules), k) /\ request(what, rules).what = what
  <2>1. /\ request(what, rules).what = what /\ request(what, rules).to = c.url
        /\ request(what, rules).rules = rules /\ request(what, rules).carries = K!ValueFor(c.bound, c.url)
    BY DEF Asking
  <2>2. request(what, rules) \in Requests
    BY <1>1, <1>6 DEF Asking, Requests, Calls, K!ValueFor
  <2>3. k \in 1 .. k
    BY <1>1
  <2> HIDE DEF request
  <2> QED
    BY <1>6, <2>1, <2>2, <2>3 DEF Meant
<1>7. ASSUME NEW q \in Seq(Requests), NEW r \in Requests, Meant(calls, r, k), IsFiniteSet(RobotsOf(q)),
             \A i \in DOMAIN q : Meant(calls, q[i], k)
      PROVE  /\ Append(q, r) \in Seq(Requests) /\ IsFiniteSet(RobotsOf(Append(q, r)))
             /\ \A i \in DOMAIN Append(q, r) : Meant(calls, Append(q, r)[i], k)
             /\ Cardinality(RobotsOf(Append(q, r))) = Cardinality(RobotsOf(q)) + IF r.what = "robots" THEN 1 ELSE 0
  <2>1. /\ IsFiniteSet(RobotsOf(Append(q, r)))
        /\ Cardinality(RobotsOf(Append(q, r))) = Cardinality(RobotsOf(q)) + IF r.what = "robots" THEN 1 ELSE 0
        /\ DOMAIN Append(q, r) = 1 .. Len(q) + 1 /\ Append(q, r)[Len(q) + 1] = r
        /\ \A i \in DOMAIN q : Append(q, r)[i] = q[i]
    BY <1>7, OneMoreRequest
  <2>2. DOMAIN q = 1 .. Len(q) /\ Len(q) \in Nat
    BY ListFacts
  <2>3. \A i \in 1 .. Len(q) + 1 : i \in 1 .. Len(q) \/ i = Len(q) + 1
    BY <2>2
  <2>4. Append(q, r) \in Seq(Requests)
    BY Appended
  <2> QED
    BY <1>7, <2>1, <2>2, <2>3, <2>4
<1>8. \A i \in DOMAIN s.asked : Meant(calls, s.asked[i], k)
  BY <1>5 DEF Sent
<1>9. CASE c.is = "fetch"
  <2> DEFINE r == request("one", "unread")
  <2>1. t.slot = s.slot /\ t.asked = Append(s.asked, r)
    BY <1>1, <1>9, WhatACallLeaves
  <2>2. r \in Requests /\ Meant(calls, r, k) /\ r.what = "one"
    BY <1>6
  <2> HIDE DEF r
  <2>3. Sent(calls, t, k)
    BY <1>2, <1>4, <1>7, <1>8, <2>1, <2>2 DEF Sent
  <2>4. Counted(calls, t, k)
    <3>1. IsFiniteSet(RobotsOf(t.asked)) /\ Cardinality(RobotsOf(t.asked)) = Cardinality(RobotsOf(s.asked)) + 0
      BY <1>2, <1>4, <1>7, <1>8, <2>1, <2>2
    <3>2. Cardinality(Begun(calls, k)) = Cardinality(Begun(calls, k - 1)) + 0
      BY <1>2, <1>4, <1>9
    <3> QED
      BY <1>4, <3>1, <3>2 DEF Counted
  <2>5. Kept(calls, t, k)
    <3>1. \A i \in Crawls(calls) : i < k <=> i < k + 1
      BY <1>1, <1>2, <1>9 DEF Crawls
    <3>2. \A j : Follows(calls, k, j) => Follows(calls, k + 1, j)
      BY <3>1 DEF Follows
    <3>3. CASE (\A j \in Crawls(calls) : ~(j < k)) /\ s.slot = <<>>
      BY <2>1, <3>1, <3>3 DEF Kept
    <3>4. CASE \E j \in Crawls(calls) :
                 /\ Follows(calls, k, j)
                 /\ calls[j].panics => s.slot = <<>>
                 /\ ~calls[j].panics => s.slot # <<>> /\ s.slot[1].origin = calls[j].url /\ s.slot[1].rules = calls[j].url
      BY <2>1, <3>2, <3>4 DEF Kept
    <3> QED
      BY <1>1, <3>3, <3>4 DEF Kept
  <2> QED
    BY <2>3, <2>4, <2>5
<1>10. CASE c.is = "crawl"
  <2>1. PICK w \in Sites :
           /\ w.origin = c.url /\ w.rules = IF Serves(s, c) THEN s.slot[1].rules ELSE c.url
           /\ t.slot = IF c.panics THEN <<>> ELSE <<w>>
           /\ t.asked = Append(IF Serves(s, c) THEN s.asked ELSE Append(s.asked, request("robots", "unread")),
                               request("pages", w.rules))
    BY <1>1, <1>10, WhatACallLeaves, Zenon
  <2>2. w.rules = c.url /\ w.rules \in Origins
    BY <1>3, <2>1 DEF Sites
  <2> DEFINE r == request("robots", "unread")
             p == request("pages", w.rules)
             before == IF Serves(s, c) THEN s.asked ELSE Append(s.asked, r)
  <2>3. /\ r \in Requests /\ Meant(calls, r, k) /\ r.what = "robots"
        /\ p \in Requests /\ Meant(calls, p, k) /\ p.what = "pages"
    BY <1>6, <2>2
  <2>4. t.asked = Append(before, p)
    BY <2>1
  <2> HIDE DEF r, p
  <2>5. /\ before \in Seq(Requests) /\ IsFiniteSet(RobotsOf(before))
        /\ \A i \in DOMAIN before : Meant(calls, before[i], k)
        /\ Cardinality(RobotsOf(before)) = Cardinality(RobotsOf(s.asked)) + IF Begins(calls, k) THEN 1 ELSE 0
    <3>1. CASE Serves(s, c)
      BY <1>2, <1>3, <1>4, <1>8, <3>1
    <3>2. CASE ~Serves(s, c)
      <4>1. /\ Append(s.asked, r) \in Seq(Requests) /\ IsFiniteSet(RobotsOf(Append(s.asked, r)))
            /\ \A i \in DOMAIN Append(s.asked, r) : Meant(calls, Append(s.asked, r)[i], k)
            /\ Cardinality(RobotsOf(Append(s.asked, r))) = Cardinality(RobotsOf(s.asked)) + IF r.what = "robots" THEN 1 ELSE 0
        BY <1>2, <1>4, <1>7, <1>8, <2>3, Zenon
      <4> QED
        BY <1>3, <2>3, <3>2, <4>1
    <3> QED
      BY <3>1, <3>2
  <2> HIDE DEF before
  <2>6. /\ t.asked \in Seq(Requests) /\ IsFiniteSet(RobotsOf(t.asked))
        /\ \A i \in DOMAIN t.asked : Meant(calls, t.asked[i], k)
        /\ Cardinality(RobotsOf(t.asked)) = Cardinality(RobotsOf(before)) + 0
    BY <1>7, <2>3, <2>4, <2>5
  <2>7. Counted(calls, t, k)
    <3>1. Cardinality(Begun(calls, k)) = Cardinality(Begun(calls, k - 1)) + IF Begins(calls, k) THEN 1 ELSE 0
      BY <1>2, <1>4, <1>10
    <3> QED
      BY <1>4, <2>5, <2>6, <3>1 DEF Counted
  <2>8. Kept(calls, t, k)
    <3>1. k \in Crawls(calls) /\ Follows(calls, k + 1, k)
      BY <1>1, <1>2, <1>10 DEF Crawls, Follows
    <3>2. /\ c.panics => t.slot = <<>>
          /\ ~c.panics => t.slot # <<>> /\ t.slot[1].origin = c.url /\ t.slot[1].rules = c.url
      BY <2>1, <2>2
    <3> QED
      BY <3>1, <3>2 DEF Kept
  <2> QED
    BY <2>6, <2>7, <2>8 DEF Sent
<1> QED
  BY <1>2, <1>9, <1>10

LEMMA NothingIsAskedAtFirst ==
    ASSUME NEW calls, NEW n \in Nat, DOMAIN calls = 1 .. n
    PROVE  Kept(calls, Idle, 0) /\ Sent(calls, Idle, 0) /\ Counted(calls, Idle, 0)
<1>1. \A j \in Crawls(calls) : ~(j < 0 + 1) /\ ~(j <= 0)
  BY DEF Crawls
<1>2. Kept(calls, Idle, 0)
  BY <1>1 DEF Kept, Idle
<1>3. Idle.asked = <<>>
  BY DEF Idle
<1>4. Sent(calls, Idle, 0)
  BY <1>3 DEF Sent
<1>5. RobotsOf(Idle.asked) = {} /\ Begun(calls, 0) = {}
  BY <1>1, <1>3 DEF RobotsOf, Begun
<1>6. Counted(calls, Idle, 0)
  BY <1>5, FS_EmptySet DEF Counted
<1> QED
  BY <1>2, <1>4, <1>6

LEMMA TheAccountIsKept ==
    ASSUME NEW calls \in CallLists, NEW n, n = Len(calls)
    PROVE  /\ \A i \in DOMAIN K!Run(calls) : Meant(calls, K!Run(calls)[i], n)
           /\ Cardinality(RobotsOf(K!Run(calls))) = Cardinality(Begun(calls, n))
<1>1. /\ n \in Nat /\ DOMAIN calls = 1 .. n /\ n \in 0 .. n /\ 0 \in 0 .. n
      /\ \A k \in 1 .. n : k - 1 \in 0 .. n /\ k \in 0 .. n
  BY ListFacts DEF CallLists
<1>2. PICK g \in [0 .. n -> Engines] :
         /\ g[0] = Idle /\ K!Run(calls) = g[n].asked
         /\ \A k \in 1 .. n : g[k] = Answered(g[k - 1], calls[k])
  BY RunIsAnsweredInTurn, Zenon
<1> DEFINE so == {k \in 0 .. n : Kept(calls, g[k], k) /\ Sent(calls, g[k], k) /\ Counted(calls, g[k], k)}
<1>3. Kept(calls, Idle, 0) /\ Sent(calls, Idle, 0) /\ Counted(calls, Idle, 0)
  BY <1>1, NothingIsAskedAtFirst, Zenon
<1>4. 0 \in so
  BY <1>1, <1>2, <1>3
<1>5. ASSUME NEW k \in 1 .. n, k - 1 \in so PROVE k \in so
  <2>1. g[k - 1] \in Engines /\ k - 1 \in 0 .. n /\ k \in 0 .. n
    BY <1>1, <1>2
  <2>2. Kept(calls, g[k], k) /\ Sent(calls, g[k], k) /\ Counted(calls, g[k], k)
    BY <1>2, <1>5, <2>1, ACallKeepsTheAccount, Zenon
  <2> QED
    BY <2>1, <2>2
<1>6. \A k \in 0 .. n : k \in so
  <2> HIDE DEF so
  <2> QED
    BY <1>1, <1>4, <1>5, Upwards, Zenon
<1> QED
  BY <1>1, <1>2, <1>6 DEF Sent, Counted

LEMMA CountsAreOne ==
    ASSUME NEW set
    PROVE  K!Cardinality(set) = Cardinality(set)
  BY Zenon DEF K!Cardinality, Cardinality

\* Whatever seeds come in whatever order, fail and are asked for again: a
\* request carries the credential if and only if its origin is the one the
\* credential is bound to, no page is asked for under another origin's rules,
\* and robots.txt is asked for exactly where no Website of the origin is kept.
THEOREM CredentialsStayHome ==
    ASSUME NEW calls \in CallLists
    PROVE  K!CredentialStaysHome(calls)
<1> DEFINE n == Len(calls)
<1>1. n \in Nat /\ DOMAIN calls = 1 .. n /\ \A i \in DOMAIN calls : calls[i] \in Calls
  BY ListFacts DEF CallLists
<1>2. /\ \A i \in DOMAIN K!Run(calls) : Meant(calls, K!Run(calls)[i], n)
      /\ Cardinality(RobotsOf(K!Run(calls))) = Cardinality(Begun(calls, n))
  BY TheAccountIsKept, Zenon
<1> HIDE DEF n
<1> DEFINE asked == K!Run(calls)
<1>6. \A i \in DOMAIN asked : Meant(calls, asked[i], n)
  BY <1>2
<1>7. Cardinality(RobotsOf(asked)) = Cardinality(Begun(calls, n))
  BY <1>2
<1> HIDE DEF asked
<1>8. Begun(calls, n) = {i \in Crawls(calls) : Begins(calls, i)}
  BY <1>1 DEF Begun, Crawls
<1>9. ASSUME NEW r \in K!Range(asked)
      PROVE  Meant(calls, r, n)
  BY <1>6 DEF K!Range
<1>10. ASSUME NEW r \in K!Range(asked), r.carries
       PROVE  \E c \in K!Range(calls) : c.url = r.to /\ c.bound = r.to
  BY <1>1, <1>9, <1>10, Zenon DEF Meant, K!Range, K!ValueFor
<1>11. ASSUME NEW r \in K!Range(asked), r.what = "pages"
       PROVE  r.rules = r.to
  BY <1>9, <1>11 DEF Meant
<1>12. ASSUME NEW i \in DOMAIN calls, calls[i].bound = calls[i].url,
              Cardinality({c.bound : c \in K!Range(calls)}) = 1,
              NEW r \in K!Range(asked), r.to = calls[i].url
       PROVE  r.carries
  <2>1. PICK j \in 1 .. n : r.to = calls[j].url /\ r.carries = K!ValueFor(calls[j].bound, calls[j].url)
    BY <1>9 DEF Meant
  <2> DEFINE bounds == {c.bound : c \in K!Range(calls)}
  <2>2. calls[i].bound \in bounds /\ calls[j].bound \in bounds
    BY <1>1, <2>1 DEF K!Range
  <2>3. IsFiniteSet(bounds)
    <3>1. K!Range(calls) = {calls[k] : k \in 1 .. n}
      BY <1>1 DEF K!Range
    <3>2. bounds = {calls[k].bound : k \in 1 .. n}
      BY <3>1
    <3>3. IsFiniteSet(1 .. n)
      BY <1>1, FS_Interval
    <3> DEFINE f == [k \in 1 .. n |-> calls[k].bound]
    <3>4. f \in Surjection(1 .. n, bounds)
      BY <3>2, Zenon DEF Surjection
    <3> HIDE DEF bounds, f
    <3> QED
      BY <3>3, <3>4, FS_Surjection, Zenon
  <2>4. calls[i].bound = calls[j].bound
    <3>1. \E x : bounds = {x}
      <4> HIDE DEF bounds
      <4> QED
        BY <1>12, <2>3, FS_Singleton, Zenon DEF bounds
    <3> QED
      BY <2>2, <3>1, Zenon
  <2>5. calls[i] \in Calls /\ calls[i].url # "opaque"
    <3>1. calls[i] \in Calls
      BY <1>1
    <3> QED
      BY <3>1 DEF Calls, Origins
  <2> QED
    BY <1>12, <2>1, <2>4, <2>5, Zenon DEF K!ValueFor
<1>13. Cardinality({i \in DOMAIN asked : asked[i].what = "robots"}) =
          Cardinality({i \in Crawls(calls) : \A j \in Crawls(calls) :
                          Follows(calls, i, j) => calls[j].url # calls[i].url \/ calls[j].panics})
  BY <1>7, <1>8 DEF RobotsOf, Begins
<1> DEFINE crawls == {i \in DOMAIN calls : calls[i].is = "crawl"}
           follows(i, j) == j \in crawls /\ j < i /\ \A k \in crawls : k < i => k <= j
           first == \A r \in K!Range(K!Run(calls)) : r.carries => \E c \in K!Range(calls) : c.url = r.to /\ c.bound = r.to
           second == \A r \in K!Range(K!Run(calls)) : r.what = "pages" => r.rules = r.to
           third == \A i \in DOMAIN calls : (calls[i].bound = calls[i].url /\ K!Cardinality({c.bound : c \in K!Range(calls)}) = 1) =>
                       \A r \in K!Range(K!Run(calls)) : r.to = calls[i].url => r.carries
           fourth == K!Cardinality({i \in DOMAIN K!Run(calls) : K!Run(calls)[i].what = "robots"}) =
                       K!Cardinality({i \in crawls : \A j \in crawls :
                                       follows(i, j) => calls[j].url # calls[i].url \/ calls[j].panics})
<1>14. first
  BY <1>10 DEF asked
<1>15. second
  BY <1>11 DEF asked
<1>16. third
  <2>1. K!Cardinality({c.bound : c \in K!Range(calls)}) = Cardinality({c.bound : c \in K!Range(calls)})
    BY CountsAreOne
  <2> QED
    BY <1>12, <2>1, Zenon DEF asked
<1>17. fourth
  <2> DEFINE robots == {i \in DOMAIN asked : asked[i].what = "robots"}
             begun == {i \in Crawls(calls) : \A j \in Crawls(calls) :
                          Follows(calls, i, j) => calls[j].url # calls[i].url \/ calls[j].panics}
  <2>1. K!Cardinality(robots) = Cardinality(robots) /\ K!Cardinality(begun) = Cardinality(begun)
    BY CountsAreOne
  <2>2. Cardinality(robots) = Cardinality(begun)
    BY <1>13
  <2> HIDE DEF robots, begun
  <2>3. K!Cardinality(robots) = K!Cardinality(begun)
    BY <2>1, <2>2
  <2> QED
    BY <2>3, Zenon DEF robots, begun, Follows, Crawls, asked
<1>18. K!CredentialStaysHome(calls) <=> (first /\ second /\ third /\ fourth)
  BY Zenon DEF K!CredentialStaysHome
<1> HIDE DEF first, second, third, fourth
<1> QED
  BY <1>14, <1>15, <1>16, <1>17, <1>18

-----------------------------------------------------------------------------
(* The list of a page: References *)

\* The list of a finite set of numbers holds each of them once.
LEMMA InOrderIsTheSet ==
    ASSUME NEW set, IsFiniteSet(set), set \subseteq Int
    PROVE  /\ \A k \in DOMAIN F!InOrder(set) : F!InOrder(set)[k] \in set
           /\ \A k, l \in DOMAIN F!InOrder(set) : F!InOrder(set)[k] = F!InOrder(set)[l] => k = l
           /\ \A x \in set : \E k \in DOMAIN F!InOrder(set) : F!InOrder(set)[k] = x
<1> DEFINE c == Cardinality(set)
           o == F!InOrder(set)
<1>1. o = R!InOrder(set)
  BY PositionsAreOne
<1> HIDE DEF o, c
<1>2. c \in Nat /\ DOMAIN o = 1 .. c /\ \A k \in 1 .. c : o[k] \in set /\ Rank(set, o[k]) = k - 1
  BY <1>1, OrderedByRank, Zenon DEF c
<1>3. \A x \in set : \E k \in 1 .. c : o[k] = x
  BY <1>1, InOrderRises DEF Rises, c
<1>4. ASSUME NEW k \in 1 .. c, NEW l \in 1 .. c, o[k] = o[l] PROVE k = l
  BY <1>2, <1>4
<1> QED
  BY <1>2, <1>3, <1>4, Zenon DEF o

Kinds == {"relative", "absolute", "unfetchable"}
Pages == [base : {"page", "elsewhere", "unusable"},
          refs : Seq([url : [kind : Kinds, path : Nat], fallback : [kind : Kinds, path : Nat]])]

\* Of the positions that hold an address, one is the first.
LEMMA SomePositionIsFirst ==
    ASSUME NEW n \in Nat, NEW set \in SUBSET (1 .. n), NEW i \in set
    PROVE  \E j \in set : \A k \in 1 .. j - 1 : k \notin set
<1>1. PICK j \in set : Least(j, set)
  BY Extremes
<1>2. \A k \in 1 .. j - 1 : k \notin set
  BY <1>1 DEF Least
<1> QED
  BY <1>2

\* However many references, and whatever base: no address comes twice or is
\* its own fallback, and nothing a page names is left out.
THEOREM ListsAreUsable ==
    ASSUME NEW page \in Pages
    PROVE  F!ListIsUsable(page)
<1> DEFINE n == Len(page.refs)
           at(i) == F!Absolute(page, page.refs[i].url)
           first == {i \in 1 .. n : at(i) # F!NoAddress /\ \A j \in 1 .. i - 1 : at(j) # at(i)}
           order == F!InOrder(first)
           list == F!Resolved(page)
<1>1. n \in Nat /\ DOMAIN page.refs = 1 .. n
  BY ListFacts DEF Pages
<1> HIDE DEF n, at
<1>2. IsFiniteSet(first) /\ first \subseteq Int
  <2>1. IsFiniteSet(1 .. n) /\ first \subseteq 1 .. n /\ 1 .. n \subseteq Int
    BY <1>1, FS_Interval
  <2> HIDE DEF first
  <2> QED
    BY <2>1, FS_Subset, Zenon
<1>3. /\ \A k \in DOMAIN order : order[k] \in first
      /\ \A k, l \in DOMAIN order : order[k] = order[l] => k = l
      /\ \A x \in first : \E k \in DOMAIN order : order[k] = x
  <2> HIDE DEF first
  <2> QED
    BY <1>2, InOrderIsTheSet, Zenon
<1>4. /\ DOMAIN list = DOMAIN order
      /\ \A k \in DOMAIN order : list[k].url = at(order[k]) /\ list[k].fallback # list[k].url
  <2> DEFINE f(i) == F!Absolute(page, page.refs[i].fallback)
  <2>1. list = [k \in DOMAIN order |->
                  [url |-> at(order[k]), fallback |-> IF f(order[k]) = at(order[k]) THEN F!NoAddress ELSE f(order[k])]]
    BY <1>1 DEF F!Resolved, at
  <2>2. \A k \in DOMAIN order : at(order[k]) # F!NoAddress
    BY <1>3
  <2> HIDE DEF order, list, f
  <2> QED
    BY <2>1, <2>2
<1> HIDE DEF order, list
<1>5. ASSUME NEW k \in DOMAIN list, NEW l \in DOMAIN list, list[k].url = list[l].url PROVE k = l
  <2> DEFINE i == order[k]
             j == order[l]
  <2>1. i \in first /\ j \in first /\ at(i) = at(j)
    BY <1>3, <1>4, <1>5
  <2>2. i \in Int /\ j \in Int /\ i \in 1 .. n /\ j \in 1 .. n /\ (i < j => i \in 1 .. j - 1) /\ (j < i => j \in 1 .. i - 1)
    BY <2>1
  <2>3. i = j
    <3> HIDE DEF i, j
    <3> QED
      BY <2>1, <2>2
  <2> QED
    BY <1>3, <1>4, <2>3
<1>6. ASSUME NEW k \in DOMAIN list
      PROVE  list[k].url \in {at(i) : i \in 1 .. n} \ {F!NoAddress}
  <2>1. order[k] \in first
    BY <1>3, <1>4
  <2> QED
    BY <1>4, <2>1
<1>7. ASSUME NEW i \in 1 .. n, at(i) # F!NoAddress
      PROVE  \E k \in DOMAIN list : list[k].url = at(i)
  <2> DEFINE same == {j \in 1 .. n : at(j) = at(i)}
  <2>1. i \in same /\ same \in SUBSET (1 .. n)
    OBVIOUS
  <2>2. PICK j \in same : \A k \in 1 .. j - 1 : k \notin same
    <3> HIDE DEF same
    <3> QED
      BY <1>1, <2>1, SomePositionIsFirst, Zenon
  <2>3. \A k \in 1 .. j - 1 : k \in 1 .. n
    BY <1>1, <2>1
  <2>4. j \in first /\ at(j) = at(i)
    BY <1>7, <2>2, <2>3
  <2> HIDE DEF first, same
  <2> QED
    BY <1>3, <1>4, <2>4
<1>8. {list[k].url : k \in DOMAIN list} = {at(i) : i \in 1 .. n} \ {F!NoAddress}
  <2> HIDE DEF first
  <2> QED
    BY <1>6, <1>7
<1> QED
  BY <1>1, <1>4, <1>5, <1>8, Zenon DEF F!ListIsUsable, list, at

-----------------------------------------------------------------------------
(* What robots.txt refuses: Robots.  A pattern covers a path when its       *)
(* characters can be laid over it, which is when its literals can be       *)
(* placed on it, which is when putting each at the earliest place works.   *)

\* Where the literals of a pattern are: n of them, between cuts that are the
\* wildcards and both ends.
Divided(h, c, n) ==
    /\ n \in Nat \ {0} /\ c \in [1 .. n + 1 -> Int] /\ c[1] = 0 /\ c[n + 1] = Len(h) + 1
    /\ \A k, l \in 1 .. n + 1 : k < l => c[k] < c[l]
    /\ \A k \in 1 .. n : c[k] \in 0 .. Len(h) /\ c[k + 1] \in 1 .. Len(h) + 1 /\ c[k] < c[k + 1]
    /\ \A k \in 2 .. n : c[k] \in 1 .. Len(h) /\ h[c[k]] = "*"
    /\ \A k \in 1 .. n : \A i \in c[k] + 1 .. c[k + 1] - 1 : i \in 1 .. Len(h) /\ h[i] # "*"
    /\ \A i \in 0 .. Len(h) : \E k \in 1 .. n : c[k] <= i /\ i < c[k + 1]

LEMMA CutsDivide ==
    ASSUME NEW chars, NEW h \in Seq(chars)
    PROVE  Divided(h, R!Cuts(h), Len(R!Cuts(h)) - 1)
<1> DEFINE m == Len(h)
           stars == {i \in DOMAIN h : h[i] = "*"}
           set == {0, m + 1} \union stars
           c == R!Cuts(h)
           n == Len(c) - 1
<1>1. m \in Nat /\ DOMAIN h = 1 .. m
  BY ListFacts
<1>2. c = R!InOrder(set)
  BY DEF R!Cuts
<1> HIDE DEF m, c
<1>3. stars \subseteq 1 .. m /\ IsFiniteSet(stars)
  <2>1. IsFiniteSet(1 .. m) /\ stars \subseteq 1 .. m
    BY <1>1, FS_Interval
  <2> HIDE DEF stars
  <2> QED
    BY <2>1, FS_Subset, Zenon
<1>4. \A i : i \in stars <=> i \in 1 .. m /\ h[i] = "*"
  BY <1>1
<1> HIDE DEF stars
<1>5. IsFiniteSet(set) /\ set \subseteq Int /\ 0 \in set /\ m + 1 \in set
      /\ (\A x \in set : x \in 0 .. m + 1) /\ (\A x \in set : x \notin {0, m + 1} => x \in stars)
  <2>1. set \subseteq 0 .. m + 1 /\ IsFiniteSet(0 .. m + 1)
    <3>1. IsFiniteSet(0 .. m + 1)
      <4>1. 0 \in Int /\ m + 1 \in Int
        BY <1>1
      <4> QED
        BY <4>1, FS_Interval
    <3> QED
      BY <1>1, <1>3, <3>1
  <2>2. IsFiniteSet(set)
    <3> HIDE DEF set
    <3> QED
      BY <2>1, FS_Subset, Zenon
  <2>3. \A x \in 0 .. m + 1 : x \in Int
    BY <1>1
  <2> QED
    BY <2>1, <2>2, <2>3
<1> DEFINE d == Cardinality(set)
<1>6. Rises(c, set, d) /\ Len(c) = d
  <2> HIDE DEF set
  <2> QED
    BY <1>2, <1>5, InOrderRises, Zenon
<1>7. \A x \in set : x = 0 \/ x = m + 1 \/ x \in stars
  OBVIOUS
<1>8. \A x \in stars : x \in set
  OBVIOUS
<1> HIDE DEF set, d
<1>9. d \in Nat /\ c \in [1 .. d -> set] /\ (\A k \in 1 .. d : c[k] \in set /\ c[k] \in 0 .. m + 1)
      /\ \A k, l \in 1 .. d : k < l => c[k] < c[l]
  BY <1>5, <1>6, Zenon DEF Rises
<1>10. d >= 2 /\ c[1] = 0 /\ c[d] = m + 1
  <2>1. PICK a \in 1 .. d : c[a] = 0
    BY <1>5, <1>6 DEF Rises
  <2>2. PICK b \in 1 .. d : c[b] = m + 1
    BY <1>5, <1>6, Zenon DEF Rises
  <2>3. a # b
    BY <1>1, <2>1, <2>2
  <2>4. d >= 2
    BY <1>9, <2>3
  <2>5. a = 1
    <3>1. 1 \in 1 .. d /\ (1 < a => c[1] < c[a])
      BY <1>9
    <3>2. c[1] \in 0 .. m + 1
      BY <1>9, <3>1
    <3>3. ~(c[1] < 0)
      BY <1>1, <3>2
    <3> QED
      BY <1>9, <2>1, <3>1, <3>3
  <2>6. b = d
    <3>1. d \in 1 .. d /\ (b < d => c[b] < c[d])
      BY <1>9
    <3>2. c[d] \in 0 .. m + 1
      BY <1>9, <3>1
    <3>3. ~(m + 1 < c[d])
      BY <1>1, <3>2
    <3> QED
      BY <1>9, <2>2, <3>1, <3>3
  <2> QED
    BY <2>1, <2>2, <2>4, <2>5, <2>6
<1>11. n \in Nat \ {0} /\ d = n + 1
  BY <1>6, <1>9, <1>10
<1> HIDE DEF n
<1>12. /\ c \in [1 .. n + 1 -> Int] /\ c[1] = 0 /\ c[n + 1] = m + 1
       /\ \A k, l \in 1 .. n + 1 : k < l => c[k] < c[l]
       /\ \A k \in 1 .. n + 1 : c[k] \in set /\ c[k] \in 0 .. m + 1 /\ c[k] \in Int
  BY <1>5, <1>9, <1>10, <1>11
<1>13. ASSUME NEW k \in 1 .. n
       PROVE  /\ k \in 1 .. n + 1 /\ k + 1 \in 1 .. n + 1 /\ n + 1 \in 1 .. n + 1 /\ 1 \in 1 .. n + 1
              /\ c[k] < c[k + 1] /\ c[k] \in 0 .. m /\ c[k + 1] \in 1 .. m + 1
  <2>1. /\ k \in 1 .. n + 1 /\ k + 1 \in 1 .. n + 1 /\ n + 1 \in 1 .. n + 1 /\ 1 \in 1 .. n + 1
        /\ k < k + 1 /\ k < n + 1
    BY <1>11
  <2>2. c[k] < c[k + 1] /\ c[k] < c[n + 1]
    BY <1>12, <2>1
  <2> DEFINE x == c[k]
             y == c[k + 1]
  <2>3. x \in 0 .. m + 1 /\ y \in 0 .. m + 1 /\ x < y /\ x < m + 1
    BY <1>12, <2>1, <2>2
  <2>4. x \in 0 .. m /\ y \in 1 .. m + 1
    <3> HIDE DEF x, y
    <3> QED
      BY <1>1, <2>3
  <2> QED
    BY <2>1, <2>2, <2>4
<1>14. ASSUME NEW k \in 2 .. n PROVE c[k] \in 1 .. m /\ h[c[k]] = "*"
  <2>1. /\ k \in 1 .. n /\ k \in 1 .. n + 1 /\ 1 \in 1 .. n + 1 /\ 1 < k
    BY <1>11
  <2>2. c[k] \in 0 .. m /\ c[1] < c[k] /\ c[k] \in set
    BY <1>12, <1>13, <2>1
  <2> DEFINE x == c[k]
  <2>3. x # 0 /\ x # m + 1
    <3>1. x \in 0 .. m /\ 0 < x
      BY <1>12, <2>2
    <3> HIDE DEF x
    <3> QED
      BY <1>1, <3>1
  <2>4. x \in stars
    BY <1>7, <2>2, <2>3
  <2> QED
    BY <1>4, <2>4
<1>15. ASSUME NEW k \in 1 .. n, NEW i \in c[k] + 1 .. c[k + 1] - 1 PROVE i \in 1 .. m /\ h[i] # "*"
  <2> DEFINE x == c[k]
             y == c[k + 1]
  <2>1. x \in 0 .. m /\ y \in 1 .. m + 1 /\ k \in 1 .. n + 1 /\ k + 1 \in 1 .. n + 1
    BY <1>13
  <2>2. i \in 1 .. m /\ x < i /\ i < y
    <3>1. i \in x + 1 .. y - 1
      BY <1>15
    <3> HIDE DEF x, y
    <3> QED
      BY <1>1, <2>1, <3>1
  <2>3. ASSUME h[i] = "*" PROVE FALSE
    <3>1. i \in set
      BY <1>4, <1>8, <2>2, <2>3
    <3>2. PICK l \in 1 .. d : c[l] = i
      BY <1>6, <3>1 DEF Rises
    <3>3. l \in 1 .. n + 1 /\ (l < k \/ l = k \/ l = k + 1 \/ k + 1 < l)
      BY <1>11, <3>2
    <3>4. CASE l < k
      <4>1. c[l] < c[k]
        BY <1>12, <2>1, <3>3, <3>4
      <4>2. i < x /\ x < i /\ x \in Int /\ i \in Int
        BY <2>1, <2>2, <3>2, <4>1
      <4> QED
        BY <4>2
    <3>5. CASE k + 1 < l
      <4>1. c[k + 1] < c[l]
        BY <1>12, <2>1, <3>3, <3>5
      <4>2. y < i /\ i < y /\ y \in Int /\ i \in Int
        BY <2>1, <2>2, <3>2, <4>1
      <4> QED
        BY <4>2
    <3>6. CASE l = k
      BY <2>1, <2>2, <3>2, <3>6
    <3>7. CASE l = k + 1
      BY <2>1, <2>2, <3>2, <3>7
    <3> QED
      BY <3>3, <3>4, <3>5, <3>6, <3>7
  <2> QED
    BY <2>2, <2>3
<1>16. ASSUME NEW i \in 0 .. m PROVE \E k \in 1 .. n : c[k] <= i /\ i < c[k + 1]
  <2> DEFINE below == {k \in 1 .. n : c[k] <= i}
  <2>1. 1 \in below /\ below \in SUBSET (1 .. n)
    BY <1>1, <1>11, <1>12
  <2>2. PICK k \in below : Greatest(k, below)
    <3> HIDE DEF below
    <3> QED
      BY <1>11, <2>1, Extremes, Zenon
  <2>3. k \in 1 .. n /\ c[k] <= i /\ k + 1 \notin below
    <3>1. k \in Int /\ ~(k + 1 <= k)
      OBVIOUS
    <3> QED
      BY <2>2, <3>1 DEF Greatest
  <2>4. k + 1 \in 1 .. n => ~(c[k + 1] <= i)
    BY <2>3
  <2>5. k + 1 \notin 1 .. n => c[k + 1] = m + 1
    <3>1. k + 1 \notin 1 .. n => k + 1 = n + 1
      BY <1>11, <2>3
    <3> QED
      BY <1>12, <3>1
  <2>6. i < c[k + 1]
    <3> DEFINE y == c[k + 1]
    <3>1. y \in 1 .. m + 1
      BY <1>13, <2>3
    <3>2. ~(y <= i) \/ y = m + 1
      BY <2>4, <2>5
    <3> HIDE DEF y
    <3>3. i < y
      BY <1>1, <3>1, <3>2
    <3> QED
      BY <3>3 DEF y
  <2> QED
    BY <2>3, <2>6
<1>17. Divided(h, c, n)
  BY <1>11, <1>12, <1>13, <1>14, <1>15, <1>16, Zenon DEF Divided, m
<1> QED
  BY <1>17 DEF n, c

Width(c, k) == c[k + 1] - c[k] - 1
LiesAt(h, c, k, path, j) ==
    j + Width(c, k) <= Len(path) /\ \A i \in 1 .. Width(c, k) : path[j + i] = h[c[k] + i]

LEMMA WidthsAreNumbers ==
    ASSUME NEW h, Len(h) \in Nat, NEW c, NEW n, Divided(h, c, n), NEW k \in 1 .. n
    PROVE  /\ Width(c, k) \in Nat /\ c[k] \in 0 .. Len(h) /\ c[k + 1] = c[k] + Width(c, k) + 1
           /\ c[k] + Width(c, k) <= Len(h)
<1> DEFINE x == c[k]
           y == c[k + 1]
           m == Len(h)
<1>1. x \in 0 .. m /\ y \in 1 .. m + 1 /\ x < y /\ m \in Nat
  BY Zenon DEF Divided
<1>2. Width(c, k) = y - x - 1
  BY DEF Width
<1> HIDE DEF x, y, m
<1>3. y - x - 1 \in Nat /\ y = x + (y - x - 1) + 1 /\ x + (y - x - 1) <= m
  BY <1>1
<1> QED
  BY <1>1, <1>2, <1>3 DEF x, y, m

\* A piece of a list that lies within it.
LEMMA PiecesAreThere ==
    ASSUME NEW chars, NEW s \in Seq(chars), NEW a \in Nat, NEW w \in Nat, a + w <= Len(s)
    PROVE  /\ SubSeq(s, a + 1, a + w) \in Seq(chars) /\ Len(SubSeq(s, a + 1, a + w)) = w
           /\ \A i \in 1 .. w : SubSeq(s, a + 1, a + w)[i] = s[a + i]
<1>1. \A i \in a + 1 .. a + w : i \in 1 .. Len(s) /\ s[i] \in chars
  OBVIOUS
<1> QED
  BY <1>1

\* The places of a literal are those it lies at.
LEMMA PlacesAreThose ==
    ASSUME NEW chars, NEW h \in Seq(chars), NEW path \in Seq(chars), NEW n, Divided(h, R!Cuts(h), n),
           NEW k \in 1 .. n, NEW from \in Nat
    PROVE  /\ Len(R!Literal(h, k)) = Width(R!Cuts(h), k)
           /\ \A j : j \in R!Places(R!Literal(h, k), path, from) <=>
                       j \in Int /\ from <= j /\ LiesAt(h, R!Cuts(h), k, path, j)
<1> DEFINE c == R!Cuts(h)
           w == Width(c, k)
           lit == R!Literal(h, k)
           at == c[k]
<1>1. w \in Nat /\ at \in 0 .. Len(h) /\ c[k + 1] = at + w + 1 /\ at + w <= Len(h)
      /\ Len(h) \in Nat /\ DOMAIN h = 1 .. Len(h) /\ Len(path) \in Nat
  BY ListFacts, WidthsAreNumbers
<1>2. c[k + 1] - 1 = at + w
  <2>1. ASSUME NEW x \in Int, NEW y \in Int, NEW z, z = x + y + 1 PROVE z - 1 = x + y
    BY <2>1
  <2>2. at \in Int /\ w \in Int /\ c[k + 1] = at + w + 1
    BY <1>1
  <2> HIDE DEF w, at, c
  <2> QED
    BY <2>1, <2>2
<1>3. lit = SubSeq(h, at + 1, at + w)
  <2>1. lit = SubSeq(h, at + 1, c[k + 1] - 1)
    BY Zenon DEF R!Literal
  <2> HIDE DEF lit, w, at, c
  <2> QED
    BY <1>2, <2>1, Zenon
<1> HIDE DEF lit, w, at, c
<1>4. lit \in Seq(chars) /\ Len(lit) = w /\ \A i \in 1 .. w : lit[i] = h[at + i]
  <2>1. w \in Nat /\ at \in Nat /\ at + w <= Len(h)
    BY <1>1
  <2>2. /\ SubSeq(h, at + 1, at + w) \in Seq(chars) /\ Len(SubSeq(h, at + 1, at + w)) = w
        /\ \A i \in 1 .. w : SubSeq(h, at + 1, at + w)[i] = h[at + i]
    BY <2>1, PiecesAreThere, Zenon
  <2> QED
    BY <1>3, <2>2, Zenon
<1>5. ASSUME NEW j \in Int, from <= j, j + w <= Len(path)
      PROVE  SubSeq(path, j + 1, j + w) = lit <=> \A i \in 1 .. w : path[j + i] = h[at + i]
  <2> DEFINE sub == SubSeq(path, j + 1, j + w)
  <2>1. sub \in Seq(chars) /\ Len(sub) = w /\ \A i \in 1 .. w : sub[i] = path[j + i]
    <3>1. j \in Nat /\ w \in Nat /\ j + w <= Len(path)
      BY <1>1, <1>5
    <3> QED
      BY <3>1, PiecesAreThere, Zenon DEF sub
  <2> HIDE DEF sub
  <2>2. DOMAIN sub = 1 .. w /\ DOMAIN lit = 1 .. w /\ sub = [i \in 1 .. w |-> sub[i]] /\ lit = [i \in 1 .. w |-> lit[i]]
    BY <1>4, <2>1
  <2>3. (\A i \in 1 .. w : sub[i] = lit[i]) => sub = lit
    BY <2>2, Zenon
  <2> QED
    BY <1>4, <2>1, <2>3, Zenon DEF sub
<1>6. \A j : j \in from .. Len(path) - w <=> j \in Int /\ from <= j /\ j + w <= Len(path)
  BY <1>1
<1>7. \A j : j \in R!Places(lit, path, from) <=>
               j \in from .. Len(path) - w /\ SubSeq(path, j + 1, j + w) = lit
  BY <1>4 DEF R!Places
<1>8. \A j : LiesAt(h, c, k, path, j) <=> j + w <= Len(path) /\ \A i \in 1 .. w : path[j + i] = h[at + i]
  BY Zenon DEF LiesAt, w, at
<1>9. \A j : j \in R!Places(lit, path, from) <=> j \in Int /\ from <= j /\ LiesAt(h, c, k, path, j)
  BY <1>5, <1>6, <1>7, <1>8, Zenon
<1> QED
  BY <1>4, <1>9 DEF lit, c, w

\* The characters of a pattern laid over a path, and its literals placed on it.
Laid(h, path, to) ==
    /\ to \in [0 .. Len(h) -> 0 .. Len(path)] /\ to[0] = 0
    /\ \A i \in 1 .. Len(h) : IF h[i] = "*" THEN to[i - 1] <= to[i]
                              ELSE to[i] = to[i - 1] + 1 /\ path[to[i]] = h[i]
Placed(h, c, n, path, at) ==
    /\ at \in [1 .. n -> Nat] /\ at[1] = 0
    /\ \A k \in 1 .. n : LiesAt(h, c, k, path, at[k])
    /\ \A k \in 2 .. n : at[k - 1] + Width(c, k - 1) <= at[k]

PlacedTo(h, c, n, path, end) ==
    \E at : Placed(h, c, n, path, at) /\ at[n] + Width(c, n) = end
LaidTo(h, path, end) == \E to : Laid(h, path, to) /\ to[Len(h)] = end

\* Along a literal the characters are laid one next to the other.
LEMMA LiteralsAreLaidOut ==
    ASSUME NEW h, Len(h) \in Nat, NEW path, Len(path) \in Nat, NEW c, NEW n, Divided(h, c, n),
           NEW to, Laid(h, path, to), NEW k \in 1 .. n
    PROVE  /\ \A i \in 0 .. Width(c, k) : c[k] + i \in 0 .. Len(h) /\ to[c[k] + i] = to[c[k]] + i
           /\ LiesAt(h, c, k, path, to[c[k]])
<1> DEFINE w == Width(c, k)
           b == c[k]
           m == Len(h)
           so == {i \in 0 .. w : to[b + i] = to[b] + i}
<1>1. w \in Nat /\ b \in 0 .. m /\ c[k + 1] = b + w + 1 /\ b + w <= m /\ m \in Nat
  BY WidthsAreNumbers
<1>2. \A i \in b + 1 .. c[k + 1] - 1 : i \in 1 .. m /\ h[i] # "*"
  BY DEF Divided
<1>3. /\ to \in [0 .. m -> 0 .. Len(path)]
      /\ \A i \in 1 .. m : h[i] # "*" => to[i] = to[i - 1] + 1 /\ path[to[i]] = h[i]
  BY DEF Laid
<1> HIDE DEF w, b, m
<1>4. ASSUME NEW i \in 1 .. w
      PROVE  /\ b + i \in 1 .. m /\ b + (i - 1) = b + i - 1
             /\ to[b + i] = to[b + (i - 1)] + 1 /\ path[to[b + i]] = h[b + i]
  <2>1. b + i \in b + 1 .. b + w + 1 - 1 /\ b + (i - 1) = b + i - 1
    BY <1>1
  <2>2. b + i \in 1 .. m /\ h[b + i] # "*"
    BY <1>1, <1>2, <2>1
  <2> DEFINE j == b + i
             q == b + (i - 1)
  <2>3. q = j - 1
    BY <1>1
  <2>6. j \in 1 .. m /\ h[j] # "*"
    BY <2>2, Zenon
  <2> HIDE DEF j, q
  <2>4. to[j] = to[j - 1] + 1 /\ path[to[j]] = h[j]
    BY <1>3, <2>6
  <2>5. to[j] = to[q] + 1
    BY <2>3, <2>4
  <2> QED
    BY <2>1, <2>6, <2>4, <2>5, Zenon DEF j, q
<1>5. to[b] \in Nat /\ b + 0 = b
  BY <1>1, <1>3
<1>6. 0 \in so
  BY <1>1, <1>5
<1>7. ASSUME NEW i \in 1 .. w, i - 1 \in so PROVE i \in so
  <2>1. to[b + (i - 1)] = to[b] + (i - 1) /\ i \in 0 .. w /\ i \in Int
    BY <1>7
  <2> QED
    BY <1>4, <1>5, <2>1
<1>8. \A i \in 0 .. w : i \in so
  <2> HIDE DEF so
  <2> QED
    BY <1>1, <1>6, <1>7, Upwards, Zenon
<1>9. \A i \in 0 .. w : b + i \in 0 .. m /\ to[b + i] = to[b] + i
  BY <1>1, <1>8
<1> HIDE DEF so
<1>10. ASSUME NEW i \in 1 .. w PROVE path[to[b] + i] = h[b + i]
  <2>1. i \in 0 .. w
    BY <1>1
  <2>2. to[b + i] = to[b] + i
    BY <1>9, <2>1
  <2> QED
    BY <1>4, <2>2
<1>11. to[b] + w <= Len(path)
  <2>1. w \in 0 .. w
    BY <1>1
  <2>2. b + w \in 0 .. m /\ to[b + w] = to[b] + w
    BY <1>9, <2>1
  <2> QED
    BY <1>3, <2>2
<1> QED
  BY <1>9, <1>10, <1>11 DEF LiesAt, w, b, m

LEMMA LaidOutIsPlaced ==
    ASSUME NEW h, Len(h) \in Nat, NEW path, Len(path) \in Nat, NEW c, NEW n, Divided(h, c, n),
           NEW to, Laid(h, path, to)
    PROVE  PlacedTo(h, c, n, path, to[Len(h)])
<1> DEFINE at == [k \in 1 .. n |-> to[c[k]]]
           m == Len(h)
<1>1. /\ n \in Nat \ {0} /\ m \in Nat /\ c[1] = 0 /\ c[n + 1] = m + 1
      /\ \A k \in 2 .. n : c[k] \in 1 .. m /\ h[c[k]] = "*"
  BY DEF Divided
<1>2. ASSUME NEW k \in 1 .. n
      PROVE  /\ Width(c, k) \in Nat /\ c[k] \in 0 .. m /\ c[k + 1] = c[k] + Width(c, k) + 1
             /\ c[k] + Width(c, k) <= m
  BY WidthsAreNumbers
<1>3. ASSUME NEW k \in 1 .. n
      PROVE  /\ \A i \in 0 .. Width(c, k) : c[k] + i \in 0 .. m /\ to[c[k] + i] = to[c[k]] + i
             /\ LiesAt(h, c, k, path, to[c[k]])
  BY LiteralsAreLaidOut
<1>4. /\ to \in [0 .. m -> 0 .. Len(path)] /\ to[0] = 0
      /\ \A i \in 1 .. m : h[i] = "*" => to[i - 1] <= to[i]
  BY DEF Laid
<1> HIDE DEF m
<1>5. \A k \in 1 .. n : at[k] = to[c[k]] /\ at[k] \in Nat
  BY <1>2, <1>4
<1>6. at \in [1 .. n -> Nat] /\ at[1] = 0
  BY <1>1, <1>4, <1>5
<1>7. ASSUME NEW k \in 1 .. n PROVE to[c[k + 1] - 1] = at[k] + Width(c, k)
  <2>1. Width(c, k) \in 0 .. Width(c, k) /\ c[k + 1] - 1 = c[k] + Width(c, k)
    BY <1>2
  <2> QED
    BY <1>3, <1>5, <2>1
<1>8. ASSUME NEW k \in 2 .. n PROVE at[k - 1] + Width(c, k - 1) <= at[k]
  <2>1. k - 1 \in 1 .. n /\ k \in 1 .. n /\ k - 1 + 1 = k
    BY <1>1
  <2>2. to[c[k] - 1] = at[k - 1] + Width(c, k - 1)
    BY <1>7, <2>1
  <2>3. to[c[k] - 1] <= to[c[k]]
    BY <1>1, <1>4, Zenon
  <2> QED
    BY <1>5, <2>1, <2>2, <2>3
<1>9. at[n] + Width(c, n) = to[m]
  <2>1. n \in 1 .. n /\ m + 1 - 1 = m
    BY <1>1
  <2>2. to[c[n + 1] - 1] = at[n] + Width(c, n)
    BY <1>7, <2>1
  <2> QED
    BY <1>1, <2>1, <2>2
<1> HIDE DEF at
<1>10. Placed(h, c, n, path, at)
  <2>1. \A k \in 1 .. n : LiesAt(h, c, k, path, at[k])
    BY <1>3, <1>5
  <2> QED
    BY <1>6, <1>8, <2>1 DEF Placed
<1> QED
  BY <1>9, <1>10 DEF PlacedTo, m

LEMMA PlacedIsLaidOut ==
    ASSUME NEW h, Len(h) \in Nat, NEW path, Len(path) \in Nat, NEW c, NEW n, Divided(h, c, n),
           NEW at, Placed(h, c, n, path, at)
    PROVE  LaidTo(h, path, at[n] + Width(c, n))
<1> DEFINE m == Len(h)
           l == Len(path)
           within(i, k) == c[k] <= i /\ i < c[k + 1]
           part(i) == CHOOSE k \in 1 .. n : within(i, k)
           to == [i \in 0 .. m |-> at[part(i)] + (i - c[part(i)])]
<1>1. /\ n \in Nat \ {0} /\ m \in Nat /\ l \in Nat /\ c[1] = 0 /\ c[n + 1] = m + 1
      /\ \A k \in 2 .. n : c[k] \in 1 .. m /\ h[c[k]] = "*"
      /\ \A i \in 0 .. m : \E k \in 1 .. n : within(i, k)
      /\ \A k \in 1 .. n : \A i \in c[k] + 1 .. c[k + 1] - 1 : i \in 1 .. m /\ h[i] # "*"
      /\ \A k, j \in 1 .. n + 1 : k < j => c[k] < c[j]
      /\ c \in [1 .. n + 1 -> Int]
  BY Zenon DEF Divided
<1>2. ASSUME NEW k \in 1 .. n
      PROVE  /\ Width(c, k) \in Nat /\ c[k] \in 0 .. m /\ c[k + 1] = c[k] + Width(c, k) + 1
             /\ c[k] + Width(c, k) <= m
  BY WidthsAreNumbers
<1>3. /\ at \in [1 .. n -> Nat] /\ at[1] = 0
      /\ \A k \in 1 .. n : at[k] + Width(c, k) <= l /\ \A i \in 1 .. Width(c, k) : path[at[k] + i] = h[c[k] + i]
      /\ \A k \in 2 .. n : at[k - 1] + Width(c, k - 1) <= at[k]
  BY DEF Placed, LiesAt, l
<1> HIDE DEF m, l
<1>4. ASSUME NEW k \in 1 .. n, NEW j \in 1 .. n, NEW i \in 0 .. m, within(i, k), within(i, j) PROVE k = j
  <2>1. k \in 1 .. n + 1 /\ j \in 1 .. n + 1 /\ k + 1 \in 1 .. n + 1 /\ j + 1 \in 1 .. n + 1
    BY <1>1
  <2>2. c[k] \in Int /\ c[j] \in Int /\ c[k + 1] \in Int /\ c[j + 1] \in Int
    BY <1>1, <2>1, Zenon
  <2>3. k < j => k + 1 = j \/ k + 1 < j
    OBVIOUS
  <2>4. j < k => j + 1 = k \/ j + 1 < k
    OBVIOUS
  <2>5. k < j => c[k + 1] = c[j] \/ c[k + 1] < c[j]
    BY <1>1, <2>1, <2>3
  <2>6. j < k => c[j + 1] = c[k] \/ c[j + 1] < c[k]
    BY <1>1, <2>1, <2>4
  <2>7. ~(k < j) /\ ~(j < k)
    <3>1. c[k] <= i /\ i < c[k + 1] /\ c[j] <= i /\ i < c[j + 1] /\ i \in Int
      BY <1>4
    <3>2. ~(c[k + 1] = c[j] \/ c[k + 1] < c[j])
      <4> DEFINE x == c[k + 1]
                 y == c[j]
      <4>1. x \in Int /\ y \in Int /\ i < x /\ y <= i /\ i \in Int
        BY <2>2, <3>1
      <4>2. ~(x = y \/ x < y)
        <5> HIDE DEF x, y
        <5> QED
          BY <4>1
      <4> QED
        BY <4>2
    <3>3. ~(c[j + 1] = c[k] \/ c[j + 1] < c[k])
      <4> DEFINE x == c[j + 1]
                 y == c[k]
      <4>1. x \in Int /\ y \in Int /\ i < x /\ y <= i /\ i \in Int
        BY <2>2, <3>1
      <4>2. ~(x = y \/ x < y)
        <5> HIDE DEF x, y
        <5> QED
          BY <4>1
      <4> QED
        BY <4>2
    <3> QED
      BY <2>5, <2>6, <3>2, <3>3
  <2> QED
    BY <2>7
<1>5. ASSUME NEW i \in 0 .. m
      PROVE  /\ part(i) \in 1 .. n /\ within(i, part(i))
             /\ i - c[part(i)] \in 0 .. Width(c, part(i))
  <2>1. part(i) \in 1 .. n /\ within(i, part(i))
    <3> HIDE DEF within
    <3> QED
      BY <1>1, Zenon
  <2> DEFINE k == part(i)
  <2>2. c[k] \in 0 .. m /\ Width(c, k) \in Nat /\ c[k + 1] = c[k] + Width(c, k) + 1 /\ k \in 1 .. n
    BY <1>2, <2>1
  <2>3. c[k] <= i /\ i < c[k + 1]
    BY <2>1
  <2> HIDE DEF k
  <2>4. i - c[k] \in 0 .. Width(c, k)
    BY <2>2, <2>3, SMTT(30)
  <2> QED
    BY <2>1, <2>4 DEF k
<1>6. ASSUME NEW k \in 1 .. n, NEW i \in 0 .. Width(c, k)
      PROVE  c[k] + i \in 0 .. m /\ to[c[k] + i] = at[k] + i
  <2> DEFINE x == c[k]
             y == c[k + 1]
             w == Width(c, k)
             j == x + i
  <2>1. w \in Nat /\ x \in 0 .. m /\ y = x + w + 1 /\ x + w <= m /\ i \in 0 .. w /\ m \in Nat
    BY <1>1, <1>2
  <2>2. j \in 0 .. m /\ j - x = i /\ x <= j /\ j < y
    <3> HIDE DEF x, y, w
    <3> QED
      BY <2>1
  <2> HIDE DEF j
  <2>3. within(j, k)
    BY <2>2
  <2> HIDE DEF within, part, x
  <2>4. part(j) = k
    BY <1>4, <1>5, <2>2, <2>3
  <2>5. to[j] = at[part(j)] + (j - c[part(j)])
    BY <2>2
  <2> HIDE DEF to
  <2>6. to[j] = at[k] + i
    BY <2>2, <2>4, <2>5 DEF x
  <2> QED
    BY <2>2, <2>6 DEF j, x
<1>7. to \in [0 .. m -> 0 .. l]
  <2>1. ASSUME NEW i \in 0 .. m PROVE at[part(i)] + (i - c[part(i)]) \in 0 .. l
    <3> DEFINE k == part(i)
               d == i - c[k]
    <3>1. k \in 1 .. n /\ d \in 0 .. Width(c, k)
      BY <1>5, Zenon
    <3>2. at[k] \in Nat /\ at[k] + Width(c, k) <= l /\ Width(c, k) \in Nat /\ l \in Nat
      BY <1>2, <1>3, <3>1 DEF l
    <3>3. at[k] + d \in 0 .. l
      <4> HIDE DEF k, d
      <4> QED
        BY <3>1, <3>2, SMTT(30)
    <3> QED
      BY <3>3
  <2> QED
    BY <2>1
<1> HIDE DEF to, part, within
<1>8. to[0] = 0 /\ to[m] = at[n] + Width(c, n)
  <2>1. 1 \in 1 .. n /\ 0 \in 0 .. Width(c, 1) /\ c[1] + 0 = 0 /\ at[1] + 0 = 0
    BY <1>1, <1>2, <1>3
  <2>2. n \in 1 .. n /\ Width(c, n) \in 0 .. Width(c, n) /\ c[n] + Width(c, n) = m
    <3>1. n \in 1 .. n
      BY <1>1
    <3>2. m + 1 = c[n] + Width(c, n) + 1 /\ Width(c, n) \in Nat /\ c[n] \in 0 .. m
      BY <1>1, <1>2, <3>1
    <3>3. ASSUME NEW x \in Int, NEW w \in Nat, m + 1 = x + w + 1 PROVE x + w = m /\ w \in 0 .. w
      BY <1>1, <3>3
    <3>4. c[n] \in Int
      BY <3>2
    <3> QED
      BY <3>1, <3>2, <3>3, <3>4
  <2>3. to[c[1] + 0] = at[1] + 0
    BY <1>6, <2>1
  <2>4. to[c[n] + Width(c, n)] = at[n] + Width(c, n)
    BY <1>6, <2>2
  <2> QED
    BY <2>1, <2>2, <2>3, <2>4
<1>9. ASSUME NEW i \in 1 .. m
      PROVE  IF h[i] = "*" THEN to[i - 1] <= to[i] ELSE to[i] = to[i - 1] + 1 /\ path[to[i]] = h[i]
  <2>1. i \in 0 .. m /\ i - 1 \in 0 .. m
    BY <1>1
  <2>2. PICK k \in 1 .. n : within(i, k)
    BY <1>1, <2>1
  <2>3. c[k] \in 0 .. m /\ Width(c, k) \in Nat /\ c[k + 1] = c[k] + Width(c, k) + 1 /\ at[k] \in Nat
    BY <1>2, <1>3, Zenon
  <2>4. c[k] <= i /\ i < c[k + 1]
    BY <2>2 DEF within
  <2> DEFINE d == i - c[k]
  <2>5. d \in 0 .. Width(c, k) /\ c[k] + d = i
    <3> DEFINE x == c[k]
    <3>1. x \in 0 .. m /\ Width(c, k) \in Nat /\ x <= i /\ i < x + Width(c, k) + 1
      BY <2>3, <2>4
    <3> HIDE DEF x
    <3>2. i - x \in 0 .. Width(c, k) /\ x + (i - x) = i
      BY <3>1
    <3> QED
      BY <3>2 DEF x
  <2>6. to[i] = at[k] + d
    BY <1>6, <2>5
  <2> HIDE DEF d
  <2>7. CASE d # 0
    <3>1. d \in 1 .. Width(c, k) /\ d - 1 \in 0 .. Width(c, k) /\ c[k] + (d - 1) = i - 1
      BY <2>3, <2>5, <2>7, SMTT(30)
    <3>2. to[i - 1] = at[k] + (d - 1)
      BY <1>6, <3>1
    <3>3. path[at[k] + d] = h[c[k] + d]
      BY <1>3, <3>1
    <3>4. c[k] + d \in c[k] + 1 .. c[k + 1] - 1
      BY <2>3, <3>1, SMTT(30)
    <3>5. h[i] # "*"
      BY <1>1, <2>5, <3>4
    <3>6. to[i] = to[i - 1] + 1
      BY <2>3, <2>6, <3>1, <3>2
    <3>7. path[to[i]] = h[i]
      BY <2>5, <2>6, <3>3
    <3> QED
      BY <3>5, <3>6, <3>7
  <2>8. CASE d = 0
    <3>1. c[k] = i /\ to[i] = at[k]
      BY <2>3, <2>5, <2>6, <2>8
    <3>2. k # 1
      BY <1>1, <3>1
    <3>3. k \in 2 .. n /\ k - 1 \in 1 .. n /\ k - 1 + 1 = k
      BY <1>1, <3>2
    <3>4. h[i] = "*" /\ at[k - 1] + Width(c, k - 1) <= at[k]
      BY <1>1, <1>3, <3>1, <3>3, Zenon
    <3>5. c[k] = c[k - 1] + Width(c, k - 1) + 1 /\ Width(c, k - 1) \in Nat /\ c[k - 1] \in 0 .. m
      BY <1>2, <3>3
    <3>6. Width(c, k - 1) \in 0 .. Width(c, k - 1) /\ c[k - 1] + Width(c, k - 1) = i - 1
      BY <3>1, <3>5
    <3>7. to[i - 1] = at[k - 1] + Width(c, k - 1)
      BY <1>6, <3>3, <3>6
    <3> QED
      BY <3>1, <3>4, <3>7
  <2> QED
    BY <2>7, <2>8
<1>10. Laid(h, path, to)
  BY <1>7, <1>8, <1>9 DEF Laid, m, l
<1> QED
  BY <1>8, <1>10 DEF LaidTo, m

LEMMA EarliestIsFirst ==
    ASSUME NEW s, s # {}, \A i \in s : i \in Nat
    PROVE  R!Earliest(s) \in s /\ \A i \in s : R!Earliest(s) <= i
<1>1. PICK x \in s : x \in Nat
  OBVIOUS
<1> DEFINE next == {i \in 1 .. x + 1 : i - 1 \in s}
<1>2. x + 1 \in next /\ next \in SUBSET (1 .. x + 1) /\ x + 1 \in Nat
  BY <1>1
<1>3. PICK y \in next : Least(y, next)
  <2> HIDE DEF next
  <2> QED
    BY <1>2, Extremes
<1>4. y - 1 \in s
  OBVIOUS
<1>5. ASSUME NEW i \in s PROVE y - 1 <= i
  <2>1. i \in Nat /\ y \in 1 .. x + 1
    OBVIOUS
  <2>2. CASE i <= x
    <3>1. i + 1 \in 1 .. x + 1 /\ i + 1 - 1 = i
      BY <1>1, <2>1, <2>2
    <3>2. i + 1 \in next
      BY <3>1
    <3>3. y <= i + 1
      BY <1>3, <3>2 DEF Least
    <3> QED
      BY <2>1, <3>3
  <2>3. CASE ~(i <= x)
    BY <1>1, <2>1, <2>3
  <2> QED
    BY <2>2, <2>3
<1> QED
  BY <1>4, <1>5, Zenon DEF R!Earliest

\* Where a literal of a pattern is put, after the first a characters.
Here(h, path, k, a) ==
    LET s == IF a < 0 THEN {} ELSE R!Places(R!Literal(h, k), path, a) IN
    IF k = 1 THEN s \intersect {0} ELSE s
Beyond(h, path, k, a) ==
    IF Here(h, path, k, a) = {} THEN -1
    ELSE R!Earliest(Here(h, path, k, a)) + Len(R!Literal(h, k))
Fits(h, c, k, path, a, j) ==
    0 <= a /\ j \in Int /\ a <= j /\ LiesAt(h, c, k, path, j) /\ (k = 1 => j = 0)
FirstFit(h, c, k, path, a, b) ==
    IF \A j : ~Fits(h, c, k, path, a, j) THEN b = -1
    ELSE \E j : /\ Fits(h, c, k, path, a, j) /\ b = j + Width(c, k)
                /\ \A i : Fits(h, c, k, path, a, i) => j <= i
After(h, path, n) ==
    CHOOSE g : g = [k \in 0 .. n |-> IF k = 0 THEN 0 ELSE Beyond(h, path, k, g[k - 1])]
Walked(h, c, path, n, g) ==
    /\ g \in [0 .. n -> Int] /\ g[0] = 0
    /\ \A k \in 1 .. n : FirstFit(h, c, k, path, g[k - 1], g[k])

LEMMA BeyondIsTheFirstFit ==
    ASSUME NEW chars, NEW h \in Seq(chars), NEW path \in Seq(chars), NEW n, Divided(h, R!Cuts(h), n),
           NEW k \in 1 .. n, NEW a \in Int
    PROVE  /\ Beyond(h, path, k, a) \in Int
           /\ FirstFit(h, R!Cuts(h), k, path, a, Beyond(h, path, k, a))
<1> DEFINE c == R!Cuts(h)
           w == Width(c, k)
           here == Here(h, path, k, a)
           fits(j) == Fits(h, c, k, path, a, j)
           b == Beyond(h, path, k, a)
<1>1. /\ Len(R!Literal(h, k)) = w
      /\ 0 <= a => \A j : j \in R!Places(R!Literal(h, k), path, a) <=>
                            j \in Int /\ a <= j /\ LiesAt(h, c, k, path, j)
  <2>1. 0 <= a => a \in Nat
    OBVIOUS
  <2>2. PICK from \in Nat : 0 <= a => from = a
    BY <2>1
  <2>3. /\ Len(R!Literal(h, k)) = Width(R!Cuts(h), k)
        /\ \A j : j \in R!Places(R!Literal(h, k), path, from) <=>
                       j \in Int /\ from <= j /\ LiesAt(h, R!Cuts(h), k, path, j)
    BY PlacesAreThose, Zenon
  <2> QED
    BY <2>2, <2>3, Zenon
<1>2. \A j : j \in here <=> fits(j)
  <2>1. CASE 0 <= a
    <3>1. ~(a < 0)
      BY <2>1
    <3>2. \A j : j \in here <=> j \in R!Places(R!Literal(h, k), path, a) /\ (k = 1 => j = 0)
      BY <3>1, Zenon DEF Here
    <3> QED
      BY <1>1, <2>1, <3>2, Zenon DEF Fits
  <2>2. CASE ~(0 <= a)
    <3>1. a < 0
      BY <2>2
    <3>2. \A j : j \notin here
      BY <3>1, Zenon DEF Here
    <3> QED
      BY <2>2, <3>2, Zenon DEF Fits
  <2> QED
    BY <2>1, <2>2
<1>3. w \in Nat
  BY ListFacts, WidthsAreNumbers
<1>4. b = IF here = {} THEN -1 ELSE R!Earliest(here) + w
  BY <1>1, Zenon DEF Beyond
<1>5. CASE here = {}
  <2>1. \A j : ~fits(j)
    BY <1>2, <1>5, Zenon
  <2> QED
    BY <1>4, <1>5, <2>1 DEF FirstFit
<1>6. CASE here # {}
  <2>1. \A j \in here : j \in Nat
    BY <1>2 DEF Fits
  <2>2. R!Earliest(here) \in here /\ \A i \in here : R!Earliest(here) <= i
    <3> HIDE DEF here
    <3> QED
      BY <1>6, <2>1, EarliestIsFirst
  <2> DEFINE e == R!Earliest(here)
  <2>3. fits(e) /\ (\A i : fits(i) => e <= i) /\ e \in Nat /\ b = e + w
    BY <1>2, <1>4, <1>6, <2>1, <2>2, Zenon
  <2>4. FirstFit(h, c, k, path, a, b)
    <3> HIDE DEF e, b
    <3> QED
      BY <2>3, Zenon DEF FirstFit
  <2>5. b \in Int
    BY <1>3, <2>3
  <2> QED
    BY <2>4, <2>5
<1> QED
  BY <1>5, <1>6

LEMMA TheWalkIsWalked ==
    ASSUME NEW chars, NEW h \in Seq(chars), NEW path \in Seq(chars), NEW n, Divided(h, R!Cuts(h), n)
    PROVE  Walked(h, R!Cuts(h), path, n, After(h, path, n))
<1> DEFINE f == [k \in 1 .. n |-> [a \in Int |-> Beyond(h, path, k, a)]]
           walks(g) == g = [k \in 0 .. n |-> IF k = 0 THEN 0 ELSE Beyond(h, path, k, g[k - 1])]
<1>1. n \in Nat
  BY DEF Divided
<1>2. f \in [1 .. n -> [Int -> Int]]
  BY BeyondIsTheFirstFit
<1>3. PICK g \in [0 .. n -> Int] : g[0] = 0 /\ \A k \in 1 .. n : g[k] = f[k][g[k - 1]]
  <2> HIDE DEF f
  <2>1. 0 \in Int
    OBVIOUS
  <2>2. \E g : Walks(g, n, Int, 0, f)
    BY <1>1, <1>2, <2>1, WalksExist, Zenon
  <2> QED
    BY <2>2, Zenon DEF Walks
<1>4. \A k \in 0 .. n : k # 0 => k \in 1 .. n /\ k - 1 \in 0 .. n
  BY <1>1
<1>5. \A k \in 1 .. n : g[k] = Beyond(h, path, k, g[k - 1])
  <2>1. \A k \in 1 .. n : k - 1 \in 0 .. n
    BY <1>1
  <2> QED
    BY <1>3, <2>1, Zenon
<1>6. walks(g)
  <2>1. \A k \in 0 .. n : g[k] = IF k = 0 THEN 0 ELSE Beyond(h, path, k, g[k - 1])
    BY <1>3, <1>4, <1>5, Zenon
  <2>2. g = [k \in 0 .. n |-> g[k]]
    BY Zenon
  <2> QED
    BY <2>1, <2>2, Zenon
<1> DEFINE a == After(h, path, n)
<1>7. walks(a)
  <2> HIDE DEF walks
  <2>1. \E b : walks(b)
    BY <1>6
  <2>2. a = CHOOSE b : walks(b)
    BY Zenon DEF After, walks
  <2> HIDE DEF a
  <2> QED
    BY <2>1, <2>2, Zenon
<1> HIDE DEF a
<1>8. 0 \in 0 .. n /\ \A k \in 1 .. n : k \in 0 .. n /\ k # 0 /\ k - 1 \in 0 .. n
  BY <1>1
<1>9. a[0] = 0 /\ \A k \in 1 .. n : a[k] = Beyond(h, path, k, a[k - 1])
  BY <1>7, <1>8, Zenon
<1> DEFINE so == {k \in 0 .. n : a[k] \in Int}
<1>10. 0 \in so
  BY <1>8, <1>9
<1>11. ASSUME NEW k \in 1 .. n, k - 1 \in so PROVE k \in so
  <2>1. a[k - 1] \in Int
    BY <1>11
  <2>2. Beyond(h, path, k, a[k - 1]) \in Int
    BY <2>1, BeyondIsTheFirstFit, Zenon
  <2> QED
    BY <1>8, <1>9, <2>2
<1>12. \A k \in 0 .. n : k \in so
  <2> HIDE DEF so
  <2> QED
    BY <1>1, <1>10, <1>11, Upwards, Zenon
<1>13. a \in [0 .. n -> Int]
  BY <1>7, <1>12
<1>14. ASSUME NEW k \in 1 .. n PROVE FirstFit(h, R!Cuts(h), k, path, a[k - 1], a[k])
  <2>1. a[k - 1] \in Int /\ a[k] = Beyond(h, path, k, a[k - 1])
    BY <1>8, <1>9, <1>12
  <2> HIDE DEF so
  <2>2. FirstFit(h, R!Cuts(h), k, path, a[k - 1], Beyond(h, path, k, a[k - 1]))
    BY <2>1, BeyondIsTheFirstFit, Zenon
  <2> QED
    BY <2>1, <2>2, Zenon
<1> QED
  BY <1>9, <1>13, <1>14 DEF Walked, a

\* Put at the earliest places, the literals are placed whenever they can be.
Met(h, c, n, path, g, j) ==
    /\ n = 1 => g[1] >= 0 /\ j = 0
    /\ n # 1 => g[n - 1] >= 0 /\ g[n - 1] <= j /\ LiesAt(h, c, n, path, j)

LEMMA WalkedIsPlaced ==
    ASSUME NEW h, Len(h) \in Nat, NEW path, Len(path) \in Nat, NEW c, NEW n, Divided(h, c, n),
           NEW g, Walked(h, c, path, n, g), NEW j \in Nat,
           Met(h, c, n, path, g, j)
    PROVE  PlacedTo(h, c, n, path, j + Width(c, n))
<1>0. /\ n = 1 => g[1] >= 0 /\ j = 0
      /\ n # 1 => g[n - 1] >= 0 /\ g[n - 1] <= j /\ LiesAt(h, c, n, path, j)
  BY DEF Met
<1>1. n \in Nat \ {0} /\ \A k \in 1 .. n : Width(c, k) \in Nat
  BY WidthsAreNumbers, Zenon DEF Divided
<1>2. /\ g \in [0 .. n -> Int] /\ g[0] = 0
      /\ \A k \in 1 .. n : FirstFit(h, c, k, path, g[k - 1], g[k])
  BY DEF Walked
<1> DEFINE put(k, i) == Fits(h, c, k, path, g[k - 1], i) /\ g[k] = i + Width(c, k)
<1>3. ASSUME NEW k \in 1 .. n, g[k] >= 0 PROVE (\E i : put(k, i)) /\ g[k - 1] >= 0
  <2>1. FirstFit(h, c, k, path, g[k - 1], g[k])
    BY <1>2
  <2>2. g[k] # -1
    BY <1>3
  <2>3. \E i : put(k, i)
    BY <2>1, <2>2, Zenon DEF FirstFit
  <2>4. 0 <= g[k - 1]
    BY <2>3, Zenon DEF Fits
  <2>5. g[k - 1] \in Int
    BY <1>1, <1>2
  <2> QED
    BY <2>3, <2>4, <2>5
<1> DEFINE last == IF n = 1 THEN 1 ELSE n - 1
           so == {d \in 0 .. last : g[last - d] >= 0}
<1>4. last \in 1 .. n /\ last \in Nat /\ g[last] >= 0
  BY <1>0, <1>1
<1> HIDE DEF last
<1>5. 0 \in so
  <2>1. last - 0 = last /\ 0 \in 0 .. last
    BY <1>4
  <2> QED
    BY <1>4, <2>1
<1>6. ASSUME NEW d \in 1 .. last, d - 1 \in so PROVE d \in so
  <2> DEFINE k == last - (d - 1)
  <2>1. k \in 1 .. n /\ k - 1 = last - d /\ d \in 0 .. last
    BY <1>1, <1>4
  <2>2. g[k] >= 0
    BY <1>6
  <2> HIDE DEF k
  <2>3. g[k - 1] >= 0
    BY <1>3, <2>1, <2>2
  <2> QED
    BY <2>1, <2>3
<1>7. \A d \in 0 .. last : d \in so
  <2> HIDE DEF so
  <2> QED
    BY <1>4, <1>5, <1>6, Upwards, Zenon
<1>8. ASSUME NEW k \in 0 .. last PROVE g[k] >= 0
  <2>1. last - k \in 0 .. last /\ last - (last - k) = k
    BY <1>4
  <2>2. last - k \in so
    BY <1>7, <2>1
  <2>3. g[last - (last - k)] >= 0
    BY <2>2
  <2> QED
    BY <2>1, <2>3
<1> DEFINE at == [k \in 1 .. n |-> IF k = n THEN j ELSE CHOOSE i : put(k, i)]
<1>9. ASSUME NEW k \in 1 .. n, k # n PROVE put(k, at[k]) /\ k \in 1 .. last /\ k \in 0 .. last
  <2>1. k \in 0 .. last /\ k \in 1 .. last
    BY <1>1, <1>9 DEF last
  <2>2. g[k] >= 0
    BY <1>8, <2>1
  <2>3. \E i : put(k, i)
    BY <1>3, <2>2
  <2>4. at[k] = CHOOSE i : put(k, i)
    BY <1>9
  <2> HIDE DEF put, at
  <2> QED
    BY <2>1, <2>3, <2>4, Zenon
<1>10. at[n] = j
  BY <1>1
<1>15. (\A k \in 1 .. n : at[k] \in Nat) => at \in [1 .. n -> Nat]
  <2> DEFINE chosen(k) == IF k = n THEN j ELSE CHOOSE i : put(k, i)
  <2> HIDE DEF put
  <2>1. \A k \in 1 .. n : at[k] = chosen(k)
    OBVIOUS
  <2>2. at = [k \in 1 .. n |-> chosen(k)]
    OBVIOUS
  <2> HIDE DEF at, chosen
  <2> QED
    BY <2>1, <2>2
<1> HIDE DEF at
<1>11. ASSUME NEW k \in 1 .. n PROVE at[k] \in Nat /\ LiesAt(h, c, k, path, at[k]) /\ (k = 1 => at[k] = 0)
  <2>1. CASE k # n
    <3>1. Fits(h, c, k, path, g[k - 1], at[k])
      BY <1>9, <2>1
    <3>2. k - 1 \in 0 .. n
      BY <1>1
    <3>3. g[k - 1] \in Int
      BY <1>2, <3>2
    <3> QED
      BY <3>1, <3>3 DEF Fits
  <2>2. CASE k = n /\ n = 1
    <3>1. g[1] >= 0 /\ at[k] = 0
      BY <1>0, <1>10, <2>2
    <3>2. PICK i : put(1, i)
      BY <1>3, <2>2, <3>1
    <3>3. i = 0 /\ LiesAt(h, c, 1, path, i)
      BY <3>2 DEF Fits
    <3> QED
      BY <2>2, <3>1, <3>3
  <2>3. CASE k = n /\ n # 1
    BY <1>0, <1>10, <2>3
  <2> QED
    BY <2>1, <2>2, <2>3
<1>12. at \in [1 .. n -> Nat] /\ at[1] = 0
  <2>1. \A k \in 1 .. n : at[k] \in Nat
    BY <1>11
  <2> QED
    BY <1>1, <1>11, <1>15, <2>1
<1>13. ASSUME NEW k \in 2 .. n PROVE at[k - 1] + Width(c, k - 1) <= at[k]
  <2>1. k - 1 \in 1 .. n /\ k - 1 # n /\ k \in 1 .. n /\ n # 1
    BY <1>1
  <2>2. at[k - 1] + Width(c, k - 1) = g[k - 1]
    BY <1>9, <2>1
  <2>3. g[k - 1] <= at[k]
    <3>1. CASE k = n
      BY <1>0, <1>10, <2>1, <3>1
    <3>2. CASE k # n
      <4>1. Fits(h, c, k, path, g[k - 1], at[k])
        BY <1>9, <2>1, <3>2
      <4> QED
        BY <4>1 DEF Fits
    <3> QED
      BY <3>1, <3>2
  <2> QED
    BY <2>2, <2>3
<1>14. Placed(h, c, n, path, at)
  BY <1>11, <1>12, <1>13 DEF Placed
<1> QED
  BY <1>10, <1>14 DEF PlacedTo

EndsThere(h, c, n, path, g, at) ==
    /\ n = 1 => g[1] >= 0 /\ g[1] = at[1] + Width(c, 1)
    /\ n # 1 => g[n - 1] >= 0 /\ g[n - 1] <= at[n] /\ LiesAt(h, c, n, path, at[n])

LEMMA PlacedIsWalked ==
    ASSUME NEW h, Len(h) \in Nat, NEW path, Len(path) \in Nat, NEW c, NEW n, Divided(h, c, n),
           NEW g, Walked(h, c, path, n, g), NEW at, Placed(h, c, n, path, at)
    PROVE  EndsThere(h, c, n, path, g, at)
<1>1. n \in Nat \ {0} /\ \A k \in 1 .. n : Width(c, k) \in Nat
  BY WidthsAreNumbers, Zenon DEF Divided
<1>2. /\ g \in [0 .. n -> Int] /\ g[0] = 0
      /\ \A k \in 1 .. n : FirstFit(h, c, k, path, g[k - 1], g[k])
  BY DEF Walked
<1>3. /\ at \in [1 .. n -> Nat] /\ at[1] = 0
      /\ \A k \in 1 .. n : LiesAt(h, c, k, path, at[k])
      /\ \A k \in 2 .. n : at[k - 1] + Width(c, k - 1) <= at[k]
  BY DEF Placed
<1> DEFINE within(k) == 0 <= g[k] /\ \A l \in 1 .. n : l = k + 1 => g[k] <= at[l]
           so == {k \in 0 .. n : within(k)}
<1>4. 0 \in so
  <2>1. \A l \in 1 .. n : at[l] >= 0
    BY <1>3
  <2> QED
    BY <1>1, <1>2, <2>1
<1>5. ASSUME NEW k \in 1 .. n, within(k - 1)
      PROVE  0 <= g[k] /\ g[k] <= at[k] + Width(c, k) /\ (k = 1 => g[k] = at[1] + Width(c, 1))
  <2>1. k - 1 \in 0 .. n /\ k = k - 1 + 1
    BY <1>1
  <2>2. 0 <= g[k - 1] /\ g[k - 1] <= at[k] /\ at[k] \in Nat /\ g[k - 1] \in Int /\ (k = 1 => at[k] = 0)
    BY <1>2, <1>3, <1>5, <2>1
  <2>3. Fits(h, c, k, path, g[k - 1], at[k])
    BY <1>3, <2>2 DEF Fits
  <2>4. FirstFit(h, c, k, path, g[k - 1], g[k])
    BY <1>2
  <2>5. PICK j : /\ Fits(h, c, k, path, g[k - 1], j) /\ g[k] = j + Width(c, k)
                 /\ \A i : Fits(h, c, k, path, g[k - 1], i) => j <= i
    BY <2>3, <2>4, Zenon DEF FirstFit
  <2>6. j \in Int /\ j <= at[k] /\ g[k - 1] <= j /\ (k = 1 => j = 0)
    BY <2>3, <2>5 DEF Fits
  <2>7. Width(c, k) \in Nat
    BY <1>1
  <2>8. 0 <= j
    BY <2>2, <2>6
  <2> DEFINE w == Width(c, k)
             b == at[k]
  <2>9. j + w <= b + w /\ 0 <= j + w
    <3>1. w \in Nat /\ b \in Nat /\ j <= b
      BY <2>2, <2>6, <2>7
    <3> HIDE DEF w, b
    <3> QED
      BY <2>6, <2>8, <3>1
  <2> QED
    BY <1>3, <2>5, <2>6, <2>9
<1>6. ASSUME NEW k \in 1 .. n, k - 1 \in so PROVE k \in so
  <2>1. 0 <= g[k] /\ g[k] <= at[k] + Width(c, k) /\ k \in 0 .. n
    BY <1>1, <1>5, <1>6
  <2>2. ASSUME NEW l \in 1 .. n, l = k + 1 PROVE g[k] <= at[l]
    <3>1. l \in 2 .. n /\ l - 1 = k
      BY <2>2
    <3>2. at[k] + Width(c, k) <= at[l]
      BY <1>3, <3>1
    <3> DEFINE x == at[k] + Width(c, k)
               y == g[k]
               z == at[l]
    <3>3. at[k] \in Int /\ Width(c, k) \in Int /\ y \in Int /\ z \in Int
      BY <1>1, <1>2, <1>3, <2>1
    <3>4. x \in Int /\ y <= x /\ x <= z
      BY <2>1, <3>2, <3>3
    <3> HIDE DEF x, y, z
    <3>5. y <= z
      BY <3>3, <3>4
    <3> QED
      BY <3>5 DEF y, z
  <2> QED
    BY <2>1, <2>2
<1>7. \A k \in 0 .. n : k \in so
  <2> HIDE DEF so
  <2> QED
    BY <1>1, <1>4, <1>6, Upwards, Zenon
<1>8. CASE n = 1
  <2>1. 1 \in 1 .. n /\ within(1 - 1)
    BY <1>4, <1>8
  <2> HIDE DEF within, so
  <2>2. 0 <= g[1] /\ g[1] = at[1] + Width(c, 1) /\ g[1] \in Int
    BY <1>2, <1>5, <1>8, <2>1
  <2>3. g[1] >= 0
    BY <2>2
  <2> QED
    BY <1>8, <2>2, <2>3 DEF EndsThere
<1>9. CASE n # 1
  <2>1. n - 1 \in 0 .. n /\ n \in 1 .. n /\ n = n - 1 + 1
    BY <1>1
  <2>2. within(n - 1)
    BY <1>7, <2>1
  <2>3. 0 <= g[n - 1] /\ g[n - 1] <= at[n]
    BY <2>1, <2>2
  <2>4. g[n - 1] >= 0 /\ LiesAt(h, c, n, path, at[n])
    BY <1>2, <1>3, <2>1, <2>3
  <2> QED
    BY <1>9, <2>3, <2>4 DEF EndsThere
<1> QED
  BY <1>8, <1>9

\* The matcher's walk finds a match when, and only when, the pattern covers
\* the path: the earliest place of each literal is never the wrong one.
LEMMA PatternsMatchWhatTheyCover ==
    ASSUME NEW chars, NEW p \in Seq(chars), NEW path \in Seq(chars)
    PROVE  R!PatternMatches(p, path) <=> R!Covers(p, path)
<1> DEFINE h == R!Body(p)
           c == R!Cuts(h)
           n == Len(c) - 1
           g == After(h, path, n)
           lit == R!Literal(h, n)
           anchored == R!Anchored(p)
           end == Len(path)
<1>1. h \in Seq(chars)
  <2>1. Len(p) \in Nat /\ \A i \in 1 .. Len(p) - 1 : i \in 1 .. Len(p) /\ p[i] \in chars
    BY ListFacts
  <2>2. SubSeq(p, 1, Len(p) - 1) \in Seq(chars)
    BY <2>1
  <2> QED
    BY <2>2 DEF R!Body, R!Front
<1>2. Divided(h, c, n)
  BY <1>1, CutsDivide
<1>3. R!PatternMatches(p, path) =
        IF n = 1 THEN g[1] >= 0 /\ (anchored => g[1] = end)
        ELSE g[n - 1] >= 0 /\ \E j \in R!Places(lit, path, g[n - 1]) : anchored => j + Len(lit) = end
  BY Zenon DEF R!PatternMatches, After, Beyond, Here
<1>4. R!Covers(p, path) <=> \E to : Laid(h, path, to) /\ (anchored => to[Len(h)] = end)
  <2>1. DOMAIN h = 1 .. Len(h)
    BY <1>1, ListFacts
  <2> HIDE DEF h, anchored, end
  <2> QED
    BY <2>1, Zenon DEF R!Covers, Laid, h, anchored, end
<1>5. /\ Len(h) \in Nat /\ end \in Nat
      /\ n \in Nat \ {0}
  BY <1>1, <1>2, ListFacts DEF Divided
<1> HIDE DEF g, h, anchored, n
<1>6. Walked(h, c, path, n, g)
  BY <1>1, <1>2, TheWalkIsWalked, Zenon DEF g
<1>7. n \in 1 .. n /\ g \in [0 .. n -> Int] /\ n - 1 \in 0 .. n
  BY <1>5, <1>6 DEF Walked
<1>14. Len(h) \in Nat /\ Len(path) \in Nat
  BY <1>5
<1>8. Len(lit) = Width(c, n) /\ Width(c, n) \in Nat
  <2>1. 0 \in Nat
    OBVIOUS
  <2>2. Len(lit) = Width(c, n)
    BY <1>1, <1>2, <1>7, <2>1, PlacesAreThose, Zenon
  <2>3. Width(c, n) \in Nat
    BY <1>2, <1>5, <1>7, WidthsAreNumbers, Zenon
  <2> QED
    BY <2>2, <2>3
<1>9. g[n - 1] >= 0 => \A j : j \in R!Places(lit, path, g[n - 1]) <=>
                                j \in Int /\ g[n - 1] <= j /\ LiesAt(h, c, n, path, j)
  <2>1. g[n - 1] >= 0 => g[n - 1] \in Nat
    BY <1>7
  <2> QED
    BY <1>1, <1>2, <1>7, <2>1, PlacesAreThose, Zenon
<1>10. \A at : Placed(h, c, n, path, at) => at[n] \in Nat
  BY <1>7 DEF Placed
<1> HIDE DEF lit, c, end
<1> DEFINE placed == \E x : PlacedTo(h, c, n, path, x) /\ (anchored => x = end)
<1>11. R!Covers(p, path) <=> placed
  <2>1. ASSUME NEW to, Laid(h, path, to), anchored => to[Len(h)] = end PROVE placed
    <3>0. Laid(h, path, to)
      BY <2>1
    <3>1. PlacedTo(h, c, n, path, to[Len(h)])
      BY <1>2, <1>14, <3>0, LaidOutIsPlaced, Zenon
    <3> QED
      BY <2>1, <3>1
  <2>2. ASSUME placed PROVE \E to : Laid(h, path, to) /\ (anchored => to[Len(h)] = end)
    <3>1. PICK x : PlacedTo(h, c, n, path, x) /\ (anchored => x = end)
      BY <2>2
    <3>2. PICK at : Placed(h, c, n, path, at) /\ at[n] + Width(c, n) = x
      BY <3>1 DEF PlacedTo
    <3>3. Placed(h, c, n, path, at)
      BY <3>2
    <3>4. LaidTo(h, path, at[n] + Width(c, n))
      BY <1>2, <1>14, <3>3, PlacedIsLaidOut, Zenon
    <3>5. LaidTo(h, path, x)
      BY <3>2, <3>4
    <3> QED
      BY <3>1, <3>5 DEF LaidTo
  <2> QED
    BY <1>4, <2>1, <2>2, Zenon
<1>12. R!PatternMatches(p, path) => placed
  <2> SUFFICES ASSUME R!PatternMatches(p, path) PROVE placed
    OBVIOUS
  <2>1. PICK j \in Nat : /\ n = 1 => g[1] >= 0 /\ j = 0
                         /\ n # 1 => /\ g[n - 1] >= 0 /\ g[n - 1] <= j /\ LiesAt(h, c, n, path, j)
                                     /\ (anchored => j + Width(c, n) = end)
    <3>1. CASE n = 1
      <4>1. g[1] >= 0 /\ 0 \in Nat
        BY <1>3, <3>1, Zenon
      <4> QED
        BY <3>1, <4>1
    <3>2. CASE n # 1
      <4>1. g[n - 1] >= 0 /\ \E j \in R!Places(lit, path, g[n - 1]) : anchored => j + Len(lit) = end
        BY <1>3, <3>2, Zenon
      <4>2. PICK j : /\ j \in Int /\ g[n - 1] <= j /\ LiesAt(h, c, n, path, j)
                     /\ (anchored => j + Len(lit) = end)
        BY <1>9, <4>1
      <4>3. j \in Nat
        BY <1>7, <4>1, <4>2
      <4> QED
        BY <1>8, <3>2, <4>1, <4>2, <4>3
    <3> QED
      BY <3>1, <3>2
  <2>2. PlacedTo(h, c, n, path, j + Width(c, n))
    <3>1. Met(h, c, n, path, g, j)
      BY <2>1 DEF Met
    <3> QED
      BY <1>2, <1>6, <1>14, <3>1, WalkedIsPlaced, Zenon
  <2>3. anchored => j + Width(c, n) = end
    <3>1. CASE n = 1
      <4>1. PICK at : Placed(h, c, n, path, at) /\ at[n] + Width(c, n) = j + Width(c, n)
        BY <2>2 DEF PlacedTo
      <4>2. Placed(h, c, n, path, at)
        BY <4>1
      <4>3. EndsThere(h, c, n, path, g, at)
        BY <1>2, <1>6, <1>14, <4>2, PlacedIsWalked, Zenon
      <4> QED
        BY <1>3, <3>1, <4>1, <4>3, Zenon DEF EndsThere
    <3>2. CASE n # 1
      BY <2>1, <3>2
    <3> QED
      BY <3>1, <3>2
  <2> QED
    BY <2>2, <2>3
<1>13. placed => R!PatternMatches(p, path)
  <2> SUFFICES ASSUME NEW at, Placed(h, c, n, path, at), anchored => at[n] + Width(c, n) = end
               PROVE  R!PatternMatches(p, path)
    BY DEF PlacedTo
  <2>1. EndsThere(h, c, n, path, g, at)
    BY <1>2, <1>6, <1>14, PlacedIsWalked, Zenon
  <2>2. CASE n = 1
    BY <1>3, <2>1, <2>2, Zenon DEF EndsThere
  <2>3. CASE n # 1
    <3>1. at[n] \in R!Places(lit, path, g[n - 1])
      BY <1>9, <1>10, <2>1, <2>3 DEF EndsThere
    <3> QED
      BY <1>3, <1>8, <2>1, <2>3, <3>1, Zenon DEF EndsThere
  <2> QED
    BY <2>2, <2>3
<1> QED
  BY <1>11, <1>12, <1>13

RuleLines(chars) == [pattern : Seq(chars), allowed : BOOLEAN]
Groups(chars) == [agents : SUBSET STRING, lines : Seq(RuleLines(chars))]
Files(chars) == Seq(Groups(chars))

LEMMA AListAndItsLast ==
    ASSUME NEW set, NEW s \in Seq(set), Len(s) \in 1 .. Len(s)
    PROVE  [k \in 1 .. Len(s) - 1 |-> s[k]] \o <<s[Len(s)]>> = s
<1> DEFINE n == Len(s)
           first == [k \in 1 .. n - 1 |-> s[k]]
           last == <<s[n]>>
           all == first \o last
<1>1. n \in Nat /\ n >= 1 /\ n - 1 \in Nat /\ n - 1 + 1 = n /\ DOMAIN s = 1 .. n /\ \A k \in 1 .. n : s[k] \in set
  BY ListFacts
<1>2. s = [k \in 1 .. n |-> s[k]]
  BY <1>1
<1> HIDE DEF n
<1>3. n \in 1 .. n /\ \A k \in 1 .. n - 1 : k \in 1 .. n
  BY <1>1
<1>4. first \in Seq(set) /\ Len(first) = n - 1 /\ \A k \in 1 .. n - 1 : first[k] = s[k]
  <2>1. first \in [1 .. n - 1 -> set]
    BY <1>1, <1>3
  <2> HIDE DEF first
  <2>2. first \in Seq(set) /\ Len(first) = n - 1
    BY <1>1, <2>1
  <2> QED
    BY <2>2, Zenon DEF first
<1>5. last \in Seq(set) /\ Len(last) = 1 /\ last[1] = s[n]
  BY <1>1, <1>3
<1> HIDE DEF first, last
<1>6. Joins(first, last, all, set)
  BY <1>4, <1>5, JoinedLists, Zenon
<1> HIDE DEF all
<1>7. all \in Seq(set) /\ Len(all) = n /\ \A k \in 1 .. n - 1 : all[k] = s[k]
  BY <1>1, <1>4, <1>5, <1>6 DEF Joins
<1>8. all[n] = s[n]
  <2>1. all[Len(first) + 1] = last[1]
    BY <1>5, <1>6 DEF Joins
  <2> QED
    BY <1>1, <1>4, <1>5, <2>1
<1>9. \A k \in 1 .. n : k = n \/ k \in 1 .. n - 1
  BY <1>1
<1>10. \A k \in 1 .. n : all[k] = s[k]
  BY <1>7, <1>8, <1>9, Zenon
<1>11. all = [k \in 1 .. n |-> all[k]]
  <2>1. DOMAIN all = 1 .. n
    BY <1>7, ListFacts
  <2> QED
    BY <1>7, <2>1
<1> QED
  BY <1>2, <1>10, <1>11 DEF all, first, last, n

\* What the parser publishes of a file whose general group comes last is the
\* file.
LEMMA FilesAreKeptInOrder ==
    ASSUME NEW chars, NEW file \in Files(chars), R!GeneralLast(file)
    PROVE  R!Entries(file) = file
<1> DEFINE n == Len(file)
           general == {i \in DOMAIN file : R!General(file[i])}
<1>1. n \in Nat /\ DOMAIN file = 1 .. n /\ file = [i \in 1 .. n |-> file[i]] /\ \A i \in 1 .. n : file[i] \in Groups(chars)
  BY ListFacts DEF Files
<1>2. \A i \in general : i = n
  BY DEF R!GeneralLast
<1>3. R!Entries(file) = R!Picked(file, DOMAIN file \ general) \o
        (IF general = {} THEN <<>> ELSE <<file[R!Earliest(general)]>>)
  BY DEF R!Entries
<1> HIDE DEF n
<1>4. ASSUME NEW m \in 0 .. n PROVE R!Picked(file, 1 .. m) = [k \in 1 .. m |-> file[k]]
  <2>1. m \in Nat
    BY <1>1
  <2>2. R!Cardinality(1 .. m) = m /\ \A k \in 1 .. m : R!Nth(1 .. m, k - 1) = k
    BY <2>1, RulesCountAsOne, FirstNumbersInOrder
  <2> QED
    BY <2>2 DEF R!Picked
<1>5. CASE general = {}
  <2>1. DOMAIN file \ general = 1 .. n /\ n \in 0 .. n
    <3> HIDE DEF general
    <3>1. DOMAIN file \ general = DOMAIN file
      BY <1>5
    <3> QED
      BY <1>1, <3>1
  <2>2. R!Picked(file, DOMAIN file \ general) = file
    BY <1>1, <1>4, <2>1, Zenon
  <2>3. file \o <<>> = file
    BY DEF Files
  <2> HIDE DEF general
  <2> QED
    BY <1>3, <1>5, <2>2, <2>3
<1>6. CASE general # {}
  <2>1. n \in 1 .. n /\ general = {n} /\ R!Earliest(general) = n
    <3>1. PICK i \in general : i = n
      BY <1>2, <1>6
    <3>2. n \in 1 .. n /\ general = {n}
      BY <1>1, <1>2, <3>1
    <3> HIDE DEF general
    <3>3. general # {} /\ \A x \in general : x \in Nat
      BY <3>2
    <3> QED
      BY <3>2, <3>3, EarliestIsFirst
  <2>2. (1 .. n) \ {n} = 1 .. n - 1 /\ n - 1 \in 0 .. n /\ n - 1 \in Nat /\ n - 1 + 1 = n
    BY <1>1, <2>1
  <2> DEFINE first == [k \in 1 .. n - 1 |-> file[k]]
  <2>3. R!Picked(file, DOMAIN file \ general) = first
    <3> HIDE DEF general
    <3> QED
      BY <1>1, <1>4, <2>1, <2>2, Zenon
  <2>4. first \o <<file[n]>> = file
    BY <2>1, AListAndItsLast DEF Files, n
  <2> HIDE DEF first, general
  <2> QED
    BY <1>3, <1>6, <2>1, <2>3, <2>4, Zenon
<1> QED
  BY <1>5, <1>6

\* The lines of a file, each with the group it stands in, and none left out.
StatesAll(file, st, chars) ==
    /\ Len(st) \in Nat /\ DOMAIN st = 1 .. Len(st)
    /\ \A k \in DOMAIN st :
          /\ st[k].by \in DOMAIN file /\ st[k].line \in RuleLines(chars)
          /\ \E j \in DOMAIN file[st[k].by].lines : st[k].line = file[st[k].by].lines[j]
    /\ \A i \in DOMAIN file : \A j \in DOMAIN file[i].lines :
          \E k \in DOMAIN st : st[k].by = i /\ st[k].line = file[i].lines[j]

LEMMA AllIsStated ==
    ASSUME NEW chars, NEW file \in Files(chars)
    PROVE  StatesAll(file, R!Stated(file), chars)
<1> DEFINE n == Len(file)
           set == [line : RuleLines(chars), by : Nat]
           lists == Seq(set)
           of1(i) == [j \in DOMAIN file[i].lines |-> [line |-> file[i].lines[j], by |-> i]]
           seqs == [i \in DOMAIN file |-> of1(i)]
           st == R!Stated(file)
<1>1. /\ n \in Nat /\ DOMAIN file = 1 .. n
      /\ \A i \in 1 .. n : file[i].lines \in Seq(RuleLines(chars))
  <2>1. n \in Nat /\ DOMAIN file = 1 .. n /\ \A i \in DOMAIN file : file[i] \in Groups(chars)
    BY ListFacts DEF Files
  <2> QED
    BY <2>1 DEF Groups
<1> HIDE DEF n
<1>2. ASSUME NEW i \in 1 .. n
      PROVE  /\ Len(file[i].lines) \in Nat /\ DOMAIN file[i].lines = 1 .. Len(file[i].lines)
             /\ \A j \in DOMAIN file[i].lines : file[i].lines[j] \in RuleLines(chars)
  <2> DEFINE s == file[i].lines
  <2>1. s \in Seq(RuleLines(chars))
    BY <1>1
  <2> HIDE DEF s
  <2>2. Len(s) \in Nat /\ DOMAIN s = 1 .. Len(s) /\ \A j \in DOMAIN s : s[j] \in RuleLines(chars)
    BY <2>1, ListFacts
  <2> QED
    BY <2>2 DEF s
<1>3. ASSUME NEW i \in 1 .. n
      PROVE  /\ of1(i) \in Seq(set) /\ Len(of1(i)) = Len(file[i].lines)
             /\ \A j \in DOMAIN file[i].lines : of1(i)[j] = [line |-> file[i].lines[j], by |-> i]
  <2> DEFINE l == Len(file[i].lines)
  <2>1. l \in Nat /\ DOMAIN file[i].lines = 1 .. l
    BY <1>2
  <2>2. \A j \in 1 .. l : [line |-> file[i].lines[j], by |-> i] \in set
    BY <1>2, <2>1
  <2> HIDE DEF l, set
  <2>3. of1(i) \in [1 .. l -> set]
    BY <2>1, <2>2, Zenon
  <2>4. \A j \in DOMAIN file[i].lines : of1(i)[j] = [line |-> file[i].lines[j], by |-> i]
    OBVIOUS
  <2> HIDE DEF of1
  <2>5. of1(i) \in Seq(set) /\ Len(of1(i)) = l
    BY <2>1, <2>3
  <2> QED
    BY <2>4, <2>5 DEF l
<1>4. seqs \in Seq(lists) /\ Len(seqs) = n /\ \A i \in 1 .. n : seqs[i] = of1(i)
  <2> HIDE DEF of1, set
  <2>1. seqs \in [1 .. n -> lists]
    BY <1>1, <1>3
  <2>2. \A i \in 1 .. n : seqs[i] = of1(i)
    BY <1>1
  <2> HIDE DEF seqs
  <2> QED
    BY <1>1, <2>1, <2>2
<1>5. st = R!FlattenSeq(seqs)
  BY DEF R!Stated
<1> HIDE DEF seqs, st, set, of1
<1>6. st \in Seq(set) /\ \E off : Flattens(seqs, n, st, off)
  <2>1. lists = Seq(set) /\ n = Len(seqs)
    BY <1>4
  <2> HIDE DEF lists
  <2> QED
    BY <1>4, <1>5, <2>1, ListsAreFlattened, Zenon
<1>7. PICK off : Flattens(seqs, n, st, off)
  BY <1>6
<1>8. Len(st) \in Nat /\ DOMAIN st = 1 .. Len(st)
  BY <1>6, ListFacts
<1>9. ASSUME NEW k \in DOMAIN st
      PROVE  /\ st[k].by \in DOMAIN file /\ st[k].line \in RuleLines(chars)
             /\ \E j \in DOMAIN file[st[k].by].lines : st[k].line = file[st[k].by].lines[j]
  <2>0. PICK a \in 1 .. n : \E b \in 1 .. Len(seqs[a]) : k = off[a] + b
    BY <1>7, <1>8, Zenon DEF Flattens
  <2>1. PICK b \in 1 .. Len(seqs[a]) : k = off[a] + b
    BY <2>0
  <2>2. st[off[a] + b] = seqs[a][b]
    BY <1>7 DEF Flattens
  <2>3. b \in DOMAIN file[a].lines /\ seqs[a][b] = of1(a)[b]
    BY <1>2, <1>3, <1>4
  <2>4. st[k] = [line |-> file[a].lines[b], by |-> a]
    BY <1>3, <2>1, <2>2, <2>3
  <2> QED
    BY <1>1, <1>2, <2>3, <2>4
<1>10. ASSUME NEW i \in DOMAIN file, NEW j \in DOMAIN file[i].lines
       PROVE  \E k \in DOMAIN st : st[k].by = i /\ st[k].line = file[i].lines[j]
  <2>1. i \in 1 .. n /\ j \in 1 .. Len(seqs[i]) /\ seqs[i][j] = of1(i)[j]
    BY <1>1, <1>2, <1>3, <1>4
  <2>2. off[i] + j \in 1 .. Len(st) /\ st[off[i] + j] = seqs[i][j]
    BY <1>7, <2>1, Zenon DEF Flattens
  <2> DEFINE k == off[i] + j
  <2>3. k \in DOMAIN st /\ st[k] = [line |-> file[i].lines[j], by |-> i]
    BY <1>3, <1>8, <2>1, <2>2
  <2> HIDE DEF k
  <2> QED
    BY <2>3
<1> QED
  BY <1>8, <1>9, <1>10, Zenon DEF StatesAll, st

LEMMA LinesAreLines ==
    ASSUME NEW chars, NEW file \in Files(chars)
    PROVE  /\ R!Lines(file) \in Seq(RuleLines(chars)) /\ Len(R!Lines(file)) = Len(R!Stated(file))
           /\ \A k \in DOMAIN R!Stated(file) : R!Lines(file)[k] = R!Stated(file)[k].line
<1> DEFINE st == R!Stated(file)
           m == Len(st)
           lines == R!Lines(file)
<1>1. /\ m \in Nat /\ DOMAIN st = 1 .. m /\ \A k \in DOMAIN st : st[k].line \in RuleLines(chars)
  BY AllIsStated, Zenon DEF StatesAll
<1>2. lines = [k \in DOMAIN st |-> st[k].line]
  BY DEF R!Lines
<1> HIDE DEF st, m
<1>3. lines \in [1 .. m -> RuleLines(chars)]
  BY <1>1, <1>2
<1>4. \A k \in DOMAIN st : lines[k] = st[k].line
  BY <1>2
<1> HIDE DEF lines
<1>5. lines \in Seq(RuleLines(chars)) /\ Len(lines) = m
  BY <1>1, <1>3
<1> QED
  BY <1>4, <1>5 DEF st, m, lines

\* A pattern without an operator is one pattern, escapes decoded or not.
LEMMA DecodedIsNormal ==
    ASSUME NEW chars, NEW p \in Seq(chars), {"*", "$"} \intersect R!Range(R!VendorDecoded(p)) = {}
    PROVE  /\ R!Normalized(R!VendorDecoded(p)) = R!Normalized(p)
           /\ R!VendorDecoded(p) = <<>> <=> p = <<>>
<1> DEFINE d == R!VendorDecoded(p)
           n == Len(p)
<1>1. n \in Nat /\ DOMAIN p = 1 .. n /\ (\A i \in 1 .. n : p[i] \in chars) /\ (p = <<>> <=> n = 0)
  BY ListFacts
<1> HIDE DEF n
<1>2. d = [i \in 1 .. n |-> CASE p[i] = "%a" -> "a" [] p[i] = "%*" -> "*" [] OTHER -> p[i]]
  BY <1>1 DEF R!VendorDecoded
<1>3. ASSUME NEW i \in 1 .. n PROVE p[i] # "%*" /\ d[i] = IF p[i] = "%a" THEN "a" ELSE p[i]
  <2>1. d[i] = CASE p[i] = "%a" -> "a" [] p[i] = "%*" -> "*" [] OTHER -> p[i]
    BY <1>2
  <2>2. d[i] \in R!Range(d) /\ DOMAIN d = 1 .. n
    BY <1>2 DEF R!Range
  <2> HIDE DEF d
  <2>3. d[i] # "*"
    BY <2>2 DEF d
  <2>4. p[i] # "%*"
    BY <2>1, <2>3
  <2> QED
    BY <2>1, <2>4
<1>4. DOMAIN d = 1 .. n
  BY <1>2
<1> HIDE DEF d
<1>5. R!Normalized(d) = R!Normalized(p)
  <2>1. R!Normalized(d) = [i \in 1 .. n |-> IF d[i] = "%a" THEN "a" ELSE d[i]]
    BY <1>4 DEF R!Normalized
  <2>2. R!Normalized(p) = [i \in 1 .. n |-> IF p[i] = "%a" THEN "a" ELSE p[i]]
    BY <1>1 DEF R!Normalized
  <2>3. \A i \in 1 .. n : (IF d[i] = "%a" THEN "a" ELSE d[i]) = IF p[i] = "%a" THEN "a" ELSE p[i]
    BY <1>3
  <2> QED
    BY <2>1, <2>2, <2>3
<1>6. d = <<>> <=> p = <<>>
  <2>1. d \in Seq(chars \union {"a"}) /\ Len(d) = n
    <3>1. \A i \in 1 .. n : d[i] \in chars \union {"a"}
      BY <1>1, <1>3
    <3>2. d \in [1 .. n -> chars \union {"a"}]
      BY <1>2, <3>1 DEF d
    <3> QED
      BY <1>1, <3>2
  <2> QED
    BY <1>1, <2>1, ListFacts
<1> QED
  BY <1>5, <1>6 DEF d

\* Which line of the second reading each rule is spelled by.
SpelledBy(file) ==
    CHOOSE g : g = [i \in 0 .. Len(R!Lines(R!Entries(file))) |->
                      IF i = 0 THEN 0 ELSE R!Passed(file, R!Lines(R!Entries(file))[i], g[i - 1])]

LEMMA APassedLineIsANumber ==
    ASSUME NEW file, Len(R!RawLines(file)) \in Nat, NEW line, NEW n \in Nat
    PROVE  R!Passed(file, line, n) \in Nat
<1> DEFINE raw == R!RawLines(file)
           found == {j \in n + 1 .. Len(raw) : /\ raw[j].allowed = line.allowed
                                               /\ R!VendorDecoded(raw[j].pattern) = R!VendorDecoded(line.pattern)}
<1>1. R!Passed(file, line, n) = IF found = {} THEN Len(raw) + 1 ELSE R!Earliest(found)
  BY DEF R!Passed
<1>2. \A j \in found : j \in Nat
  OBVIOUS
<1> HIDE DEF found
<1>3. found # {} => R!Earliest(found) \in found
  BY <1>2, EarliestIsFirst
<1> QED
  BY <1>1, <1>2, <1>3

LEMMA SpellingsAreWalked ==
    ASSUME NEW chars, NEW file \in Files(chars), R!GeneralLast(file),
           NEW lines, lines = R!Lines(R!Entries(file)), NEW m, m = Len(lines),
           Len(R!RawLines(file)) \in Nat
    PROVE  /\ SpelledBy(file) \in [0 .. m -> Nat] /\ SpelledBy(file)[0] = 0
           /\ \A i \in 1 .. m : SpelledBy(file)[i] = R!Passed(file, lines[i], SpelledBy(file)[i - 1])
<1> DEFINE f == [i \in 1 .. m |-> [a \in Nat |-> R!Passed(file, lines[i], a)]]
           walks(g) == g = [i \in 0 .. m |-> IF i = 0 THEN 0 ELSE R!Passed(file, lines[i], g[i - 1])]
           a == SpelledBy(file)
<1>1. m \in Nat
  <2>1. lines = R!Lines(file)
    BY FilesAreKeptInOrder
  <2> QED
    BY <2>1, LinesAreLines, ListFacts
<1>2. f \in [1 .. m -> [Nat -> Nat]]
  BY APassedLineIsANumber
<1>3. PICK g : Walks(g, m, Nat, 0, f)
  <2> HIDE DEF f
  <2>1. 0 \in Nat
    OBVIOUS
  <2> QED
    BY <1>1, <1>2, <2>1, WalksExist, Zenon
<1>4. /\ g \in [0 .. m -> Nat] /\ g[0] = 0
      /\ \A i \in 1 .. m : g[i] = R!Passed(file, lines[i], g[i - 1])
  <2>1. g \in [0 .. m -> Nat] /\ g[0] = 0 /\ \A i \in 1 .. m : g[i] = f[i][g[i - 1]]
    BY <1>3, Zenon DEF Walks
  <2>2. \A i \in 1 .. m : i - 1 \in 0 .. m
    BY <1>1
  <2> QED
    BY <2>1, <2>2, Zenon
<1>5. walks(g)
  <2>1. \A i \in 0 .. m : i # 0 => i \in 1 .. m
    BY <1>1
  <2>2. \A i \in 0 .. m : g[i] = IF i = 0 THEN 0 ELSE R!Passed(file, lines[i], g[i - 1])
    BY <1>4, <2>1, Zenon
  <2>3. g = [i \in 0 .. m |-> g[i]]
    BY <1>4, Zenon
  <2> QED
    BY <2>2, <2>3, Zenon
<1>6. walks(a)
  <2>2. a = CHOOSE b : walks(b)
    BY DEF SpelledBy
  <2> HIDE DEF walks, a
  <2>3. \E b : walks(b)
    BY <1>5
  <2> QED
    BY <2>2, <2>3, Zenon
<1> HIDE DEF a
<1>7. 0 \in 0 .. m /\ \A i \in 1 .. m : i \in 0 .. m /\ i # 0 /\ i - 1 \in 0 .. m
  BY <1>1
<1>8. a[0] = 0 /\ \A i \in 1 .. m : a[i] = R!Passed(file, lines[i], a[i - 1])
  BY <1>6, <1>7, Zenon
<1> DEFINE so == {i \in 0 .. m : a[i] \in Nat}
<1>9. 0 \in so
  BY <1>7, <1>8
<1>10. ASSUME NEW i \in 1 .. m, i - 1 \in so PROVE i \in so
  <2>1. a[i - 1] \in Nat
    BY <1>10
  <2>2. R!Passed(file, lines[i], a[i - 1]) \in Nat
    BY <2>1, APassedLineIsANumber
  <2> QED
    BY <1>7, <1>8, <2>2
<1>11. \A i \in 0 .. m : i \in so
  <2> HIDE DEF so
  <2> QED
    BY <1>1, <1>9, <1>10, Upwards, Zenon
<1>12. a \in [0 .. m -> Nat]
  BY <1>6, <1>11
<1> QED
  BY <1>8, <1>12 DEF a

\* Whatever the second reading recovers, a rule is the line it stands for.
LEMMA RulesAreSpelledAsWritten ==
    ASSUME NEW chars, NEW file \in Files(chars), R!GeneralLast(file)
    PROVE  /\ DOMAIN R!Spelled(file) = DOMAIN R!Lines(file)
           /\ \A i \in DOMAIN R!Lines(file) :
                 R!Spelled(file)[i] = R!RuleOf(R!Lines(file)[i].pattern, R!Lines(file)[i].allowed)
<1> DEFINE lines == R!Lines(R!Entries(file))
           raw == R!RawLines(file)
           m == Len(lines)
           at == SpelledBy(file)
           spelling(i) == IF at[i] <= Len(raw) THEN raw[at[i]].pattern ELSE R!VendorDecoded(lines[i].pattern)
           operators == \E i \in DOMAIN lines : {"*", "$"} \intersect R!Range(R!VendorDecoded(lines[i].pattern)) # {}
<1>1. lines \in Seq(RuleLines(chars)) /\ lines = R!Lines(file)
  BY FilesAreKeptInOrder, LinesAreLines
<1>2. m \in Nat /\ DOMAIN lines = 1 .. m /\ \A i \in 1 .. m : lines[i] \in RuleLines(chars)
  BY <1>1, ListFacts
<1>3. R!Entries(file) = file
  BY FilesAreKeptInOrder
<1>4. raw = IF operators THEN lines ELSE <<>>
  BY <1>3 DEF R!RawLines
<1>5. R!Spelled(file) = [i \in DOMAIN lines |-> R!RuleOf(spelling(i), lines[i].allowed)]
  BY <1>3 DEF R!Spelled, SpelledBy
<1>6. Len(raw) \in Nat
  BY <1>2, <1>4
<1> HIDE DEF lines, raw, m, at
<1>7. /\ at \in [0 .. m -> Nat] /\ at[0] = 0
      /\ \A i \in 1 .. m : at[i] = R!Passed(file, lines[i], at[i - 1])
  BY <1>6, SpellingsAreWalked, Zenon DEF lines, raw, m, at
<1> DEFINE found(i, n) == {j \in n + 1 .. Len(raw) :
                             /\ raw[j].allowed = lines[i].allowed
                             /\ R!VendorDecoded(raw[j].pattern) = R!VendorDecoded(lines[i].pattern)}
<1>8. \A i, n : R!Passed(file, lines[i], n) = IF found(i, n) = {} THEN Len(raw) + 1 ELSE R!Earliest(found(i, n))
  BY DEF R!Passed, raw
<1>9. CASE operators
  <2>1. raw = lines /\ Len(raw) = m
    BY <1>4, <1>9 DEF m
  <2> DEFINE so == {i \in 0 .. m : at[i] = i}
  <2>2. 0 \in so
    BY <1>2, <1>7
  <2>3. ASSUME NEW i \in 1 .. m, i - 1 \in so PROVE i \in so
    <3>1. at[i] = R!Passed(file, lines[i], i - 1) /\ i \in 0 .. m
      BY <1>7, <2>3
    <3> DEFINE s == found(i, i - 1)
    <3>2. i \in s /\ \A j \in s : j \in Nat /\ i <= j
      BY <1>2, <2>1
    <3>3. at[i] = IF s = {} THEN Len(raw) + 1 ELSE R!Earliest(s)
      BY <1>8, <3>1, Zenon
    <3> HIDE DEF s, found
    <3>4. R!Earliest(s) \in s /\ \A j \in s : R!Earliest(s) <= j
      BY <3>2, EarliestIsFirst, Zenon
    <3>5. R!Earliest(s) = i
      <4> DEFINE e == R!Earliest(s)
      <4>1. e \in Nat /\ i <= e /\ e <= i
        BY <3>2, <3>4, Zenon
      <4> HIDE DEF e
      <4>2. e = i
        BY <4>1
      <4> QED
        BY <4>2 DEF e
    <3> QED
      BY <3>1, <3>2, <3>3, <3>5
  <2>4. \A i \in 0 .. m : i \in so
    <3> HIDE DEF so
    <3> QED
      BY <1>2, <2>2, <2>3, Upwards, Zenon
  <2>5. \A i \in 1 .. m : i \in 0 .. m /\ i <= m
    BY <1>2
  <2>6. \A i \in 1 .. m : spelling(i) = lines[i].pattern
    BY <2>1, <2>4, <2>5
  <2> HIDE DEF spelling
  <2> QED
    BY <1>1, <1>2, <1>5, <2>6
<1>10. CASE ~operators
  <2>1. raw = <<>> /\ Len(raw) = 0
    BY <1>4, <1>10
  <2>2. ASSUME NEW i \in 1 .. m
        PROVE  R!RuleOf(spelling(i), lines[i].allowed) = R!RuleOf(lines[i].pattern, lines[i].allowed)
    <3>1. i - 1 \in 0 .. m
      BY <1>2
    <3>2. at[i - 1] \in Nat
      BY <1>7, <3>1
    <3>3. \A j : j \notin found(i, at[i - 1])
      BY <2>1, <3>2
    <3>4. found(i, at[i - 1]) = {}
      BY <3>3
    <3>5. at[i] = IF found(i, at[i - 1]) = {} THEN Len(raw) + 1 ELSE R!Earliest(found(i, at[i - 1]))
      BY <1>7, <1>8, Zenon
    <3>6. at[i] = 1
      BY <2>1, <3>4, <3>5
    <3>7. spelling(i) = R!VendorDecoded(lines[i].pattern)
      BY <2>1, <3>6
    <3> DEFINE p == lines[i].pattern
    <3>8. p \in Seq(chars) /\ {"*", "$"} \intersect R!Range(R!VendorDecoded(p)) = {}
      BY <1>2, <1>10, Zenon DEF RuleLines
    <3> HIDE DEF p, spelling
    <3>9. R!Normalized(R!VendorDecoded(p)) = R!Normalized(p) /\ (R!VendorDecoded(p) = <<>> <=> p = <<>>)
      BY <3>8, DecodedIsNormal
    <3>10. R!RuleOf(R!VendorDecoded(p), lines[i].allowed) = R!RuleOf(p, lines[i].allowed)
      BY <3>9 DEF R!RuleOf
    <3> QED
      BY <3>7, <3>10 DEF p
  <2> HIDE DEF spelling
  <2> QED
    BY <1>1, <1>2, <1>5, <2>2
<1> QED
  BY <1>9, <1>10

\* The lines of the groups that speak to this crawler.
Governing(file) == UNION {R!Range(file[i].lines) : i \in {j \in DOMAIN file : R!Governs(file, file[j])}}

LEMMA RulesAreTheGoverningLines ==
    ASSUME NEW chars, NEW file \in Files(chars), R!GeneralLast(file)
    PROVE  /\ Governing(file) \subseteq RuleLines(chars)
           /\ \A r : r \in R!Range(R!RulesFor(file)) <=>
                       \E l \in Governing(file) : r = R!RuleOf(l.pattern, l.allowed)
           /\ IsFiniteSet(R!Range(R!RulesFor(file)))
<1> DEFINE st == R!Stated(file)
           m == Len(st)
           lines == R!Lines(file)
           spelled == R!Spelled(file)
           set == {k \in DOMAIN st : R!Governs(file, file[st[k].by])}
           rules == R!Range(R!RulesFor(file))
<1>1. StatesAll(file, st, chars)
  BY AllIsStated
<1>2. R!RulesFor(file) = R!Picked(spelled, set)
  BY FilesAreKeptInOrder DEF R!RulesFor
<1>3. m \in Nat /\ DOMAIN st = 1 .. m
  BY <1>1, Zenon DEF StatesAll
<1>4. Len(lines) = m /\ DOMAIN lines = 1 .. m /\ \A k \in DOMAIN st : lines[k] = st[k].line
  <2>1. lines \in Seq(RuleLines(chars)) /\ Len(lines) = m /\ \A k \in DOMAIN st : lines[k] = st[k].line
    BY LinesAreLines
  <2> HIDE DEF lines, m
  <2> QED
    BY <2>1, ListFacts
<1>5. \A k \in DOMAIN lines : spelled[k] = R!RuleOf(lines[k].pattern, lines[k].allowed)
  BY RulesAreSpelledAsWritten
<1> HIDE DEF st, m, lines, spelled
<1>6. IsFiniteSet(set) /\ set \subseteq Int
  <2>1. IsFiniteSet(1 .. m) /\ set \subseteq 1 .. m
    BY <1>3, FS_Interval
  <2>2. \A k \in 1 .. m : k \in Int
    BY <1>3
  <2> HIDE DEF set
  <2>3. IsFiniteSet(set)
    BY <2>1, FS_Subset, Zenon
  <2> QED
    BY <2>1, <2>2, <2>3
<1>7. \A k : k \in set <=> k \in 1 .. m /\ R!Governs(file, file[st[k].by])
  BY <1>3
<1> HIDE DEF set
<1>8. rules = {spelled[x] : x \in set}
  BY <1>2, <1>6, PickedIsWhatStandsThere, Zenon
<1>9. ASSUME NEW k \in set
      PROVE  st[k].line \in Governing(file) /\ spelled[k] = R!RuleOf(st[k].line.pattern, st[k].line.allowed)
  <2>1. k \in DOMAIN st /\ k \in DOMAIN lines /\ R!Governs(file, file[st[k].by])
    BY <1>3, <1>4, <1>7
  <2>2. st[k].by \in DOMAIN file /\ \E j \in DOMAIN file[st[k].by].lines : st[k].line = file[st[k].by].lines[j]
    BY <1>1, <2>1 DEF StatesAll
  <2>3. st[k].line \in R!Range(file[st[k].by].lines)
    BY <2>2 DEF R!Range
  <2>4. st[k].line \in Governing(file)
    BY <2>1, <2>2, <2>3 DEF Governing
  <2> QED
    BY <1>4, <1>5, <2>1, <2>4
<1>10. ASSUME NEW l \in Governing(file)
       PROVE  l \in RuleLines(chars) /\ \E k \in set : st[k].line = l
  <2>1. PICK i \in DOMAIN file : R!Governs(file, file[i]) /\ l \in R!Range(file[i].lines)
    BY DEF Governing
  <2>2. PICK j \in DOMAIN file[i].lines : l = file[i].lines[j]
    BY <2>1 DEF R!Range
  <2>3. PICK k \in DOMAIN st : st[k].by = i /\ st[k].line = file[i].lines[j]
    BY <1>1 DEF StatesAll
  <2>4. st[k].line \in RuleLines(chars)
    BY <1>1 DEF StatesAll
  <2>5. k \in set
    BY <1>3, <1>7, <2>1, <2>3
  <2> QED
    BY <2>2, <2>3, <2>4, <2>5
<1>11. ASSUME NEW r
       PROVE  r \in rules <=> \E l \in Governing(file) : r = R!RuleOf(l.pattern, l.allowed)
  <2>1. ASSUME r \in rules PROVE \E l \in Governing(file) : r = R!RuleOf(l.pattern, l.allowed)
    <3>1. PICK x \in set : r = spelled[x]
      BY <1>8, <2>1
    <3> QED
      BY <1>9, <3>1
  <2>2. ASSUME NEW l \in Governing(file), r = R!RuleOf(l.pattern, l.allowed) PROVE r \in rules
    <3>1. PICK k \in set : st[k].line = l
      BY <1>10
    <3>2. spelled[k] = r
      BY <1>9, <2>2, <3>1
    <3> QED
      BY <1>8, <3>2
  <2> QED
    BY <2>1, <2>2
<1>12. IsFiniteSet(rules)
  <2>1. rules = {spelled[x] : x \in set}
    BY <1>8
  <2> HIDE DEF rules
  <2> QED
    BY <1>6, <2>1, FiniteImages, Zenon
<1>13. Governing(file) \subseteq RuleLines(chars)
  BY <1>10
<1> QED
  BY <1>11, <1>12, <1>13, Zenon DEF rules

\* The longest of some lengths is as long as any of them.
LEMMA LongestIsTheLongest ==
    ASSUME NEW set, IsFiniteSet(set), set \subseteq Nat
    PROVE  /\ set = {} => R!Longest(set) = -1
           /\ set # {} => R!Longest(set) \in set /\ \A x \in set : x <= R!Longest(set)
<1> SUFFICES ASSUME set # {} PROVE R!Longest(set) \in set /\ \A x \in set : x <= R!Longest(set)
  BY DEF R!Longest
<1> DEFINE o == R!InOrder(set)
           c == Cardinality(set)
           top == o[c]
<1>1. Rises(o, set, c)
  <2>1. set \subseteq Int
    OBVIOUS
  <2> QED
    BY <2>1, InOrderRises, Zenon
<1>2. /\ c \in Nat /\ o \in [1 .. c -> set]
      /\ \A k, l \in 1 .. c : k < l => o[k] < o[l]
      /\ \A x \in set : \E k \in 1 .. c : o[k] = x
  BY <1>1 DEF Rises
<1>3. c \in 1 .. c /\ \A k \in 1 .. c : k = c \/ k < c
  <2> HIDE DEF c, o
  <2>1. PICK x \in set : TRUE
    BY Zenon
  <2>2. PICK k \in 1 .. c : o[k] = x
    BY <1>2
  <2> QED
    BY <1>2, <2>2
<1>4. top \in set
  BY <1>2, <1>3
<1> HIDE DEF o, c
<1>5. ASSUME NEW x \in set PROVE x <= top
  <2>1. PICK k \in 1 .. c : o[k] = x
    BY <1>2
  <2>2. x = top \/ x < top
    BY <1>2, <1>3, <2>1
  <2> HIDE DEF top
  <2> QED
    BY <1>4, <2>2
<1> HIDE DEF top
<1>6. \E n \in set : \A x \in set : x <= n
  BY <1>4, <1>5
<1> QED
  BY <1>6, Zenon DEF R!Longest

LEMMA OctetsAreNumbers ==
    ASSUME NEW chars, NEW p \in Seq(chars)
    PROVE  R!Octets(p) \in Nat /\ (p = <<>> => R!Octets(p) = 0) /\ (p # <<>> => R!Octets(p) >= 1)
<1> DEFINE escapes == {i \in DOMAIN p : p[i] = "%*"}
           c == Cardinality(escapes)
<1>1. Len(p) \in Nat /\ DOMAIN p = 1 .. Len(p) /\ (p = <<>> <=> Len(p) = 0)
  BY ListFacts
<1>2. IsFiniteSet(escapes)
  <2>1. IsFiniteSet(1 .. Len(p)) /\ escapes \subseteq 1 .. Len(p)
    BY <1>1, FS_Interval
  <2> HIDE DEF escapes
  <2> QED
    BY <2>1, FS_Subset, Zenon
<1>3. c \in Nat /\ (Len(p) = 0 => c = 0)
  <2>1. Len(p) = 0 => escapes = {}
    BY <1>1
  <2> HIDE DEF escapes
  <2> QED
    BY <1>2, <2>1, FS_CardinalityType, FS_EmptySet
<1>4. R!Octets(p) = Len(p) + 2 * c
  BY RulesCountAsOne DEF R!Octets
<1> HIDE DEF c
<1> QED
  BY <1>1, <1>3, <1>4

LEMMA NormalizedIsAText ==
    ASSUME NEW chars, NEW p \in Seq(chars)
    PROVE  R!Normalized(p) \in Seq(chars \union {"a"}) /\ (R!Normalized(p) = <<>> <=> p = <<>>)
<1> DEFINE n == Len(p)
           t == R!Normalized(p)
           all == chars \union {"a"}
<1>1. n \in Nat /\ DOMAIN p = 1 .. n /\ (\A i \in 1 .. n : p[i] \in chars) /\ (p = <<>> <=> n = 0)
  BY ListFacts
<1> HIDE DEF n
<1>2. t = [i \in 1 .. n |-> IF p[i] = "%a" THEN "a" ELSE p[i]]
  BY <1>1 DEF R!Normalized
<1> HIDE DEF t
<1>3. t \in [1 .. n -> all]
  BY <1>1, <1>2
<1>4. t \in Seq(all) /\ Len(t) = n
  BY <1>1, <1>3
<1> HIDE DEF all
<1>5. t = <<>> <=> n = 0
  BY <1>4, ListFacts
<1> QED
  BY <1>1, <1>4, <1>5 DEF t, all

\* How long a line is, and whether it speaks of a path.
Length(l) == R!Octets(R!Normalized(l.pattern))
SpeaksOf(l, path) == R!Covers(R!Normalized(l.pattern), R!Normalized(path))
Permits(l) == l.allowed \/ l.pattern = <<>>

\* The longest a rule reaches that permits, or one that refuses.
Reaches(lines, path, permits, reach) ==
    /\ reach = -1 \/ \E l \in lines : (Permits(l) <=> permits) /\ SpeaksOf(l, path) /\ Length(l) = reach
    /\ \A l \in lines : (Permits(l) <=> permits) /\ SpeaksOf(l, path) => Length(l) <= reach
    /\ reach \in Int /\ -1 <= reach

LEMMA ReachIsTheLongestLine ==
    ASSUME NEW chars, NEW file \in Files(chars), R!GeneralLast(file), NEW path \in Seq(chars),
           NEW permits \in BOOLEAN
    PROVE  Reaches(Governing(file), path, permits, R!Reach(R!RulesFor(file), path, permits))
<1> DEFINE lines == Governing(file)
           rules == R!Range(R!RulesFor(file))
           speaking == {q \in rules : q.allowed = permits /\ R!PatternMatches(q.pattern, R!Normalized(path))}
           lengths == {R!Octets(r.pattern) : r \in speaking}
           reach == R!Reach(R!RulesFor(file), path, permits)
<1>1. /\ lines \subseteq RuleLines(chars)
      /\ \A r : r \in rules <=> \E l \in lines : r = R!RuleOf(l.pattern, l.allowed)
      /\ IsFiniteSet(rules)
  BY RulesAreTheGoverningLines
<1>2. reach = R!Longest(lengths)
  BY DEF R!Reach
<1>3. ASSUME NEW l \in lines
      PROVE  /\ l.pattern \in Seq(chars) /\ l.allowed \in BOOLEAN /\ Length(l) \in Nat
             /\ (R!PatternMatches(R!Normalized(l.pattern), R!Normalized(path)) <=> SpeaksOf(l, path))
  <2>1. l.pattern \in Seq(chars) /\ l.allowed \in BOOLEAN
    BY <1>1 DEF RuleLines
  <2>2. /\ R!Normalized(l.pattern) \in Seq(chars \union {"a"})
        /\ R!Normalized(path) \in Seq(chars \union {"a"})
    BY <2>1, NormalizedIsAText
  <2>3. R!PatternMatches(R!Normalized(l.pattern), R!Normalized(path)) <=> SpeaksOf(l, path)
    BY <2>2, PatternsMatchWhatTheyCover, Zenon DEF SpeaksOf
  <2>4. Length(l) \in Nat
    BY <2>2, OctetsAreNumbers, Zenon DEF Length
  <2> QED
    BY <2>1, <2>3, <2>4
<1> HIDE DEF lines, rules
<1>4. ASSUME NEW l \in lines, NEW r, r = R!RuleOf(l.pattern, l.allowed)
      PROVE  /\ r \in rules /\ R!Octets(r.pattern) = Length(l)
             /\ r \in speaking <=> (Permits(l) <=> permits) /\ SpeaksOf(l, path)
  <2>1. r \in rules
    BY <1>1, <1>4
  <2>2. r.pattern = R!Normalized(l.pattern) /\ r.allowed = (l.allowed \/ l.pattern = <<>>)
    BY <1>4 DEF R!RuleOf
  <2>3. (r.allowed = permits) <=> (Permits(l) <=> permits)
    BY <1>3, <2>2 DEF Permits
  <2>4. r \in speaking <=> r.allowed = permits /\ SpeaksOf(l, path)
    BY <1>3, <2>1, <2>2
  <2> QED
    BY <2>1, <2>2, <2>3, <2>4 DEF Length
<1>5. \A x : x \in lengths <=> \E l \in lines : (Permits(l) <=> permits) /\ SpeaksOf(l, path) /\ Length(l) = x
  <2>1. ASSUME NEW r \in speaking
        PROVE  \E l \in lines : (Permits(l) <=> permits) /\ SpeaksOf(l, path) /\ Length(l) = R!Octets(r.pattern)
    <3>1. PICK l \in lines : r = R!RuleOf(l.pattern, l.allowed)
      BY <1>1
    <3> HIDE DEF speaking
    <3> QED
      BY <1>4, <3>1
  <2>2. ASSUME NEW l \in lines, (Permits(l) <=> permits) /\ SpeaksOf(l, path)
        PROVE  \E r \in speaking : R!Octets(r.pattern) = Length(l)
    <3> HIDE DEF speaking
    <3> QED
      BY <1>4, <2>2
  <2> HIDE DEF speaking
  <2>3. \A x : x \in lengths <=> \E r \in speaking : x = R!Octets(r.pattern)
    OBVIOUS
  <2> HIDE DEF lengths
  <2> QED
    BY <2>1, <2>2, <2>3
<1>6. IsFiniteSet(lengths)
  <2>1. IsFiniteSet(speaking)
    BY <1>1, FS_Subset
  <2> DEFINE f == [r \in speaking |-> R!Octets(r.pattern)]
  <2> HIDE DEF speaking
  <2>2. lengths = {f[r] : r \in speaking}
    OBVIOUS
  <2> HIDE DEF f, lengths
  <2> QED
    BY <2>1, <2>2, FiniteImages
<1>7. lengths \subseteq Nat
  <2> HIDE DEF lengths
  <2> QED
    BY <1>3, <1>5
<1> HIDE DEF lengths
<1>8. /\ lengths = {} => reach = -1
      /\ lengths # {} => reach \in lengths /\ \A x \in lengths : x <= reach
  BY <1>2, <1>6, <1>7, LongestIsTheLongest, Zenon
<1> HIDE DEF reach
<1>9. reach \in Int /\ -1 <= reach
  <2>1. reach = -1 \/ reach \in Nat
    BY <1>7, <1>8, Zenon
  <2>2. -1 \in Int /\ -1 <= -1 /\ \A x \in Nat : x \in Int /\ -1 <= x
    OBVIOUS
  <2> QED
    BY <2>1, <2>2
<1>10. reach = -1 \/ \E l \in lines : (Permits(l) <=> permits) /\ SpeaksOf(l, path) /\ Length(l) = reach
  BY <1>5, <1>8
<1>11. ASSUME NEW l \in lines, (Permits(l) <=> permits) /\ SpeaksOf(l, path) PROVE Length(l) <= reach
  <2>1. Length(l) \in lengths
    BY <1>5, <1>11
  <2> QED
    BY <1>8, <2>1
<1> QED
  BY <1>9, <1>10, <1>11 DEF Reaches, lines, reach

\* Whatever a robots.txt says, as long as its general group is the last: a
\* path may be fetched when, and only when, RFC 9309 permits it.  The walk of
\* a pattern, the spelling of a rule and the order rules prevail in cost
\* nothing and let nothing through.
THEOREM RobotsAreObeyed ==
    ASSUME NEW chars, NEW file \in Files(chars), R!GeneralLast(file), NEW path \in Seq(chars)
    PROVE  R!Decides(file, path) <=> R!Permitted(file, path)
<1> DEFINE lines == Governing(file)
           permission == R!Reach(R!RulesFor(file), path, TRUE)
           refusal == R!Reach(R!RulesFor(file), path, FALSE)
           matching == {l \in lines : l.pattern # <<>> /\ SpeaksOf(l, path)}
           permitted == \/ matching = {}
                        \/ \E l \in matching : l.allowed /\ \A m \in matching : Length(m) <= Length(l)
<1>1. /\ Reaches(lines, path, TRUE, permission) /\ Reaches(lines, path, FALSE, refusal)
      /\ lines \subseteq RuleLines(chars)
  BY ReachIsTheLongestLine, RulesAreTheGoverningLines, Zenon
<1>2. R!Decides(file, path) <=> permission >= refusal
  BY DEF R!Decides, R!Allows, R!Prevails
<1>3. R!Permitted(file, path) <=> permitted
  BY DEF R!Permitted, Governing, SpeaksOf, Length
<1>4. ASSUME NEW l \in lines
      PROVE  /\ Length(l) \in Nat /\ (l.pattern = <<>> => Length(l) = 0)
             /\ l.pattern # <<>> => Length(l) >= 1
  <2>1. l.pattern \in Seq(chars)
    BY <1>1 DEF RuleLines
  <2>2. /\ R!Normalized(l.pattern) \in Seq(chars \union {"a"})
        /\ R!Normalized(l.pattern) = <<>> <=> l.pattern = <<>>
    BY <2>1, NormalizedIsAText, Zenon
  <2> DEFINE t == R!Normalized(l.pattern)
  <2> HIDE DEF t
  <2>3. R!Octets(t) \in Nat /\ (t = <<>> => R!Octets(t) = 0) /\ (t # <<>> => R!Octets(t) >= 1)
    BY <2>2, OctetsAreNumbers, Zenon DEF t
  <2> QED
    BY <2>2, <2>3 DEF Length, t
<1> HIDE DEF lines, permission, refusal
<1>5. /\ permission \in Int /\ -1 <= permission
      /\ permission = -1 \/ \E l \in lines : Permits(l) /\ SpeaksOf(l, path) /\ Length(l) = permission
      /\ \A l \in lines : Permits(l) /\ SpeaksOf(l, path) => Length(l) <= permission
  BY <1>1 DEF Reaches
<1>6. /\ refusal \in Int /\ -1 <= refusal
      /\ refusal = -1 \/ \E l \in lines : ~Permits(l) /\ SpeaksOf(l, path) /\ Length(l) = refusal
      /\ \A l \in lines : ~Permits(l) /\ SpeaksOf(l, path) => Length(l) <= refusal
  BY <1>1 DEF Reaches
<1>7. ASSUME permission >= refusal, matching # {} PROVE permitted
  <2>1. ASSUME NEW m \in matching PROVE Length(m) >= 1 /\ Length(m) <= permission /\ Length(m) \in Nat
    <3>1. m \in lines /\ m.pattern # <<>> /\ SpeaksOf(m, path)
      OBVIOUS
    <3>2. Length(m) <= permission \/ Length(m) <= refusal
      BY <1>5, <1>6, <3>1
    <3> QED
      BY <1>4, <1>5, <1>6, <1>7, <3>1, <3>2
  <2>2. permission >= 1
    BY <1>5, <1>7, <2>1
  <2>3. PICK l \in lines : Permits(l) /\ SpeaksOf(l, path) /\ Length(l) = permission
    BY <1>5, <2>2
  <2>4. l.pattern # <<>>
    BY <1>4, <2>2, <2>3
  <2>5. l \in matching /\ l.allowed
    BY <2>3, <2>4 DEF Permits
  <2>6. \A m \in matching : Length(m) <= Length(l)
    BY <2>1, <2>3
  <2> HIDE DEF matching
  <2> QED
    BY <2>5, <2>6
<1>8. ASSUME permitted PROVE permission >= refusal
  <2>1. CASE refusal = -1
    BY <1>5, <2>1
  <2>2. CASE refusal # -1
    <3>1. PICK m \in lines : ~Permits(m) /\ SpeaksOf(m, path) /\ Length(m) = refusal
      BY <1>6, <2>2
    <3>2. m \in matching
      BY <3>1 DEF Permits
    <3>3. PICK l \in matching : l.allowed /\ Length(m) <= Length(l)
      BY <1>8, <3>2
    <3>4. Length(l) <= permission /\ l \in lines
      BY <1>5, <3>3 DEF Permits
    <3>5. Length(l) \in Nat /\ Length(m) \in Nat
      BY <1>4, <3>4
    <3> QED
      BY <1>5, <3>1, <3>3, <3>4, <3>5
  <2> QED
    BY <2>1, <2>2
<1> QED
  BY <1>2, <1>3, <1>7, <1>8

-----------------------------------------------------------------------------
(* What a sitemap lists: SitemapListing *)

\* What the XML reader makes of a body, and what the reading of it keeps.
Namespaces == {"sitemap", "none", "extension"}
Tags == [name : STRING, ns : Namespaces]
TagEvents == [is : {"open", "close", "empty"}, name : STRING, ns : Namespaces]
XmlEvents == TagEvents \union [is : {"text"}, text : STRING] \union [is : {"entity", "other"}]
Documents == Seq(XmlEvents)
Texts == Seq(STRING)
SitemapStates == [open : Seq(Tags), root : BOOLEAN, inLoc : BOOLEAN, current : Texts, locs : Seq(Texts),
             listed : Nat, overCeiling : Nat, end : {"eof", "index", "unparseable"}]

Tag(e) == [name |-> e.name, ns |-> e.ns]
Uncounted(s, t) == t.listed = s.listed /\ t.locs = s.locs /\ t.overCeiling = s.overCeiling
CountsOneMore(s, t) ==
    /\ t.listed = s.listed + 1
    /\ t.locs = IF Len(s.locs) < MaxSitemapUrls THEN Append(s.locs, s.current) ELSE s.locs
    /\ t.overCeiling = IF Len(s.locs) < MaxSitemapUrls THEN s.overCeiling ELSE s.overCeiling + 1
Opened(s, e, t) ==
    /\ t.open = Append(s.open, Tag(e)) /\ Uncounted(s, t)
    /\ t.inLoc = (s.inLoc \/ (e.name = "loc" /\ e.ns # "extension"))
    /\ t.current = IF e.name = "loc" /\ e.ns # "extension" THEN <<>> ELSE s.current
Closes(s, e, t) ==
    /\ s.open # <<>> /\ s.open[Len(s.open)] = Tag(e) /\ t.open = SubSeq(s.open, 1, Len(s.open) - 1)
    /\ t.current = s.current
    /\ IF s.inLoc /\ e.name = "loc" THEN ~t.inLoc /\ CountsOneMore(s, t)
                                    ELSE t.inLoc = s.inLoc /\ Uncounted(s, t)
Passes(s, e, t) ==
    /\ t.open = s.open /\ t.inLoc = s.inLoc /\ Uncounted(s, t)
    /\ t.current = IF e.is = "text" /\ s.inLoc THEN Append(s.current, e.text) ELSE s.current

\* What an event leaves of the reading, if the reading goes on after it.
ReadOn(s, e, t) ==
    /\ s.end = "eof"
    /\ e.is = "open" => Opened(s, e, t)
    /\ e.is = "close" => Closes(s, e, t)
    /\ e.is \notin {"open", "close"} => Passes(s, e, t)

LEMMA WhatAnEventLeaves ==
    ASSUME NEW s \in SitemapStates, NEW e \in XmlEvents
    PROVE  /\ M!Read(s, e) \in SitemapStates
           /\ M!Read(s, e).end = "eof" => ReadOn(s, e, M!Read(s, e))
<1> DEFINE t == M!Read(s, e)
<1> SUFFICES t \in SitemapStates /\ (t.end = "eof" => ReadOn(s, e, t))
  OBVIOUS
<1>0. /\ MaxSitemapUrls \in Nat
      /\ e.is \in {"open", "close", "empty", "text", "entity", "other"}
      /\ e.is \in {"open", "close", "empty"} => Tag(e) \in Tags /\ e.name \in STRING /\ e.ns \in Namespaces
      /\ e.is = "text" => e.text \in STRING
  BY BoundaryAssumption DEF XmlEvents, TagEvents, Tag, Tags
<1>1. CASE s.end # "eof"
  <2>1. t = s
    BY <1>1 DEF M!Read
  <2> HIDE DEF t
  <2> QED
    BY <1>1, <2>1
<1>2. CASE s.end = "eof" /\ (M!Mismatched(s, e) \/ (e.is = "entity" /\ s.inLoc))
  <2>1. t = [s EXCEPT !.end = "unparseable"]
    BY <1>2 DEF M!Read
  <2>2. t \in SitemapStates /\ t.end = "unparseable"
    <3> HIDE DEF t
    <3> QED
      BY <2>1 DEF SitemapStates
  <2> HIDE DEF t
  <2> QED
    BY <2>2
<1>3. CASE s.end = "eof" /\ ~M!Mismatched(s, e) /\ ~(e.is = "entity" /\ s.inLoc)
  <2>1. t = CASE e.is = "open" -> M!OnOpen(s, e)
              [] e.is = "close" -> M!OnClose(s, e)
              [] e.is = "empty" -> M!AfterRoot(s, e)
              [] e.is = "text" /\ s.inLoc -> [s EXCEPT !.current = Append(@, e.text)]
              [] OTHER -> s
    BY <1>3 DEF M!Read
  <2> HIDE DEF t
  <2>0. M!AfterRoot(s, e) = [s EXCEPT !.root = TRUE, !.end = IF ~s.root /\ e.name = "sitemapindex" THEN "index" ELSE s.end]
    BY DEF M!AfterRoot
  <2> DEFINE a == M!AfterRoot(s, e)
  <2>2. /\ a \in SitemapStates /\ a.open = s.open /\ a.inLoc = s.inLoc /\ a.current = s.current /\ Uncounted(s, a)
    BY <1>3, <2>0, Zenon DEF SitemapStates, Uncounted
  <2> HIDE DEF a
  <2>3. CASE e.is = "open"
    <3> DEFINE r == [a EXCEPT !.open = Append(s.open, Tag(e))]
    <3>1. Append(s.open, Tag(e)) \in Seq(Tags)
      BY <1>0, <2>3, Appended DEF SitemapStates
    <3>2. /\ r \in SitemapStates /\ r.open = Append(s.open, Tag(e)) /\ r.inLoc = s.inLoc
          /\ r.current = s.current /\ r.end = a.end /\ Uncounted(s, r)
      BY <2>2, <3>1, Zenon DEF SitemapStates, Uncounted
    <3>3. t = IF r.end = "eof" /\ e.name = "loc" /\ e.ns # "extension"
              THEN [r EXCEPT !.inLoc = TRUE, !.current = <<>>] ELSE r
      BY <2>1, <2>2, <2>3 DEF M!OnOpen, M!IsPageNamespace, Tag, a
    <3> HIDE DEF r
    <3>4. t \in SitemapStates
      <4>1. <<>> \in Texts
        BY DEF Texts
      <4> QED
        BY <3>2, <3>3, <4>1, Zenon DEF SitemapStates
    <3>5. t.end = "eof" => Opened(s, e, t)
      BY <3>2, <3>3 DEF SitemapStates, Opened, Uncounted
    <3> QED
      BY <1>3, <2>3, <3>4, <3>5 DEF ReadOn
  <2>4. CASE e.is = "close"
    <3> DEFINE r == [s EXCEPT !.open = SubSeq(s.open, 1, Len(s.open) - 1)]
               kept == Len(s.locs) < MaxSitemapUrls
    <3>1. s.open # <<>> /\ s.open[Len(s.open)] = Tag(e)
      BY <1>3, <2>4 DEF M!Mismatched, M!Last, Tag
    <3>2. SubSeq(s.open, 1, Len(s.open) - 1) \in Seq(Tags)
      <4>1. s.open \in Seq(Tags)
        BY DEF SitemapStates
      <4> QED
        BY <3>1, <4>1
    <3>3. /\ r \in SitemapStates /\ r.open = SubSeq(s.open, 1, Len(s.open) - 1) /\ r.inLoc = s.inLoc
          /\ r.current = s.current /\ Uncounted(s, r)
      BY <3>2, Zenon DEF SitemapStates, Uncounted
    <3>4. t = IF ~(s.inLoc /\ e.name = "loc") THEN r
              ELSE [r EXCEPT !.inLoc = FALSE, !.listed = s.listed + 1,
                             !.locs = IF kept THEN Append(s.locs, s.current) ELSE s.locs,
                             !.overCeiling = IF kept THEN s.overCeiling ELSE s.overCeiling + 1]
      BY <2>1, <2>4, <3>3 DEF M!OnClose, M!Front, Uncounted
    <3> HIDE DEF r
    <3>5. Append(s.locs, s.current) \in Seq(Texts) /\ s.locs \in Seq(Texts) /\ s.listed + 1 \in Nat
          /\ s.overCeiling + 1 \in Nat /\ s.overCeiling \in Nat
      BY Appended DEF SitemapStates
    <3> HIDE DEF kept
    <3>6. CASE ~(s.inLoc /\ e.name = "loc")
      <4>1. t = r
        BY <3>4, <3>6
      <4>2. Closes(s, e, t)
        BY <3>1, <3>3, <3>6, <4>1 DEF Closes
      <4> QED
        BY <1>3, <2>4, <3>3, <4>1, <4>2 DEF ReadOn
    <3>7. CASE s.inLoc /\ e.name = "loc"
      <4> DEFINE locs == IF kept THEN Append(s.locs, s.current) ELSE s.locs
                 over == IF kept THEN s.overCeiling ELSE s.overCeiling + 1
                 listed == s.listed + 1
      <4>1. t = [r EXCEPT !.inLoc = FALSE, !.listed = listed, !.locs = locs, !.overCeiling = over]
        BY <3>4, <3>7
      <4>2. locs \in Seq(Texts) /\ over \in Nat /\ listed \in Nat
        BY <3>5
      <4> HIDE DEF locs, over, listed
      <4>3. /\ t \in SitemapStates /\ t.open = r.open /\ t.current = r.current /\ t.inLoc = FALSE
            /\ t.listed = listed /\ t.locs = locs /\ t.overCeiling = over
        BY <3>3, <4>1, <4>2, Zenon DEF SitemapStates
      <4>4. CountsOneMore(s, t)
        BY <4>3 DEF CountsOneMore, locs, over, listed, kept
      <4>5. Closes(s, e, t)
        BY <3>1, <3>3, <3>7, <4>3, <4>4 DEF Closes
      <4> QED
        BY <1>3, <2>4, <4>3, <4>5 DEF ReadOn
    <3> QED
      BY <3>6, <3>7
  <2>5. CASE e.is = "empty"
    <3>1. t = a
      BY <2>1, <2>5 DEF a
    <3>2. Passes(s, e, t)
      BY <2>2, <2>5, <3>1 DEF Passes
    <3> QED
      BY <1>3, <2>2, <2>5, <3>1, <3>2 DEF ReadOn
  <2>6. CASE e.is = "text" /\ s.inLoc
    <3>1. t = [s EXCEPT !.current = Append(s.current, e.text)]
      BY <2>1, <2>6
    <3>2. Append(s.current, e.text) \in Texts
      <4>1. s.current \in Seq(STRING)
        BY DEF SitemapStates, Texts
      <4>2. Append(s.current, e.text) \in Seq(STRING)
        BY <1>0, <2>6, <4>1, Appended
      <4> QED
        BY <4>2 DEF Texts
    <3>3. t \in SitemapStates /\ Passes(s, e, t)
      BY <2>6, <3>1, <3>2, Zenon DEF SitemapStates, Passes, Uncounted
    <3> QED
      BY <1>3, <2>6, <3>3 DEF ReadOn
  <2>7. CASE e.is \notin {"open", "close", "empty"} /\ ~(e.is = "text" /\ s.inLoc)
    <3>1. t = s
      BY <2>1, <2>7
    <3>2. Passes(s, e, t)
      BY <2>7, <3>1 DEF Passes, Uncounted
    <3> QED
      BY <1>3, <2>7, <3>1, <3>2 DEF ReadOn
  <2> QED
    BY <1>0, <2>3, <2>4, <2>5, <2>6, <2>7
<1> QED
  BY <1>1, <1>2, <1>3

\* A reading of a document is one event after another.
ReadsOff(doc, n, g) ==
    /\ g \in [0 .. n -> SitemapStates] /\ g[0] = M!Start /\ M!ParseLocs(doc) = g[n]
    /\ \A k \in 1 .. n : doc[k] \in XmlEvents /\ g[k] = M!Read(g[k - 1], doc[k])

LEMMA AReadingIsAWalk ==
    ASSUME NEW doc \in Documents, NEW n, n = Len(doc)
    PROVE  \E g : ReadsOff(doc, n, g)
<1> DEFINE f == [k \in 1 .. n |-> [s \in SitemapStates |-> M!Read(s, doc[k])]]
           folds(h) == h = [set \in SUBSET (1 .. n) |->
                              IF set = {} THEN M!Start ELSE M!Read(h[set \ {Top(set)}], doc[Top(set)])]
           iter == CHOOSE h : folds(h)
           g == [k \in 0 .. n |-> iter[1 .. k]]
<1>1. n \in Nat /\ DOMAIN doc = 1 .. n /\ \A k \in 1 .. n : doc[k] \in XmlEvents
  BY ListFacts DEF Documents
<1>2. M!Start \in SitemapStates
  <2>1. <<>> \in Seq(Tags) /\ <<>> \in Texts /\ <<>> \in Seq(Texts)
    BY DEF Texts
  <2> QED
    BY <2>1 DEF M!Start, SitemapStates
<1>3. f \in [1 .. n -> [SitemapStates -> SitemapStates]]
  BY <1>1, WhatAnEventLeaves
<1>4. ASSUME NEW h, Folds(h, n, SitemapStates, M!Start, f) PROVE folds(h)
  <2>1. ASSUME NEW set \in SUBSET (1 .. n), set # {}
        PROVE  h[set] = M!Read(h[set \ {Top(set)}], doc[Top(set)])
    <3>1. Top(set) \in 1 .. n
      <4>1. Top(set) \in set
        BY <1>1, <2>1, TopIsGreatest, Zenon
      <4> HIDE DEF Top
      <4> QED
        BY <4>1, Zenon
    <3> HIDE DEF Top
    <3>2. set \ {Top(set)} \in SUBSET (1 .. n)
      BY Zenon
    <3>3. h[set \ {Top(set)}] \in SitemapStates
      BY <1>4, <3>2 DEF Folds
    <3>4. h[set] = f[Top(set)][h[set \ {Top(set)}]]
      BY <1>4, <2>1, Zenon DEF Folds
    <3> QED
      BY <3>1, <3>3, <3>4
  <2>2. h = [set \in SUBSET (1 .. n) |-> h[set]] /\ h[{}] = M!Start
    BY <1>4, Zenon DEF Folds
  <2> HIDE DEF f
  <2> QED
    BY <2>1, <2>2, Zenon
<1>5. folds(iter)
  <2>1. PICK h : Folds(h, n, SitemapStates, M!Start, f)
    <3> HIDE DEF f
    <3> QED
      BY <1>1, <1>2, <1>3, FoldsExist
  <2>2. folds(h)
    <3> HIDE DEF f, folds
    <3> QED
      BY <1>4, <2>1
  <2> HIDE DEF folds
  <2> QED
    BY <2>2
<1>6. M!ParseLocs(doc) = iter[DOMAIN doc]
  BY <1>1 DEF M!ParseLocs, M!FoldLeft, M!MapThenFoldSet, M!Max, iter, Top
<1> HIDE DEF iter
<1>7. iter[1 .. 0] = M!Start
  <2>1. 1 .. 0 = {} /\ {} \in SUBSET (1 .. n)
    OBVIOUS
  <2> QED
    BY <1>5, <2>1
<1>8. ASSUME NEW k \in 1 .. n PROVE iter[1 .. k] = M!Read(iter[1 .. k - 1], doc[k])
  <2>1. /\ 1 .. k # {} /\ Top(1 .. k) = k /\ (1 .. k) \ {k} = 1 .. k - 1
        /\ 1 .. k \in SUBSET (1 .. n)
    BY <1>1, TopOfPrefixes
  <2> QED
    BY <1>5, <2>1, Zenon
<1>9. \A k \in 0 .. n : iter[1 .. k] \in SitemapStates
  <2> DEFINE so == {k \in 0 .. n : iter[1 .. k] \in SitemapStates}
  <2>1. 0 \in so
    BY <1>1, <1>2, <1>7
  <2>2. ASSUME NEW k \in 1 .. n, k - 1 \in so PROVE k \in so
    <3>1. iter[1 .. k - 1] \in SitemapStates /\ doc[k] \in XmlEvents /\ k \in 0 .. n
      BY <1>1, <2>2
    <3> QED
      BY <1>8, <3>1, WhatAnEventLeaves
  <2>3. \A k \in 0 .. n : k \in so
    <3> HIDE DEF so
    <3> QED
      BY <1>1, <2>1, <2>2, Upwards, Zenon
  <2> QED
    BY <2>3
<1>10. /\ g \in [0 .. n -> SitemapStates] /\ g[0] = M!Start /\ M!ParseLocs(doc) = g[n]
       /\ \A k \in 1 .. n : doc[k] \in XmlEvents /\ g[k] = M!Read(g[k - 1], doc[k])
  <2>1. 0 \in 0 .. n /\ n \in 0 .. n /\ \A k \in 1 .. n : k \in 0 .. n /\ k - 1 \in 0 .. n
    BY <1>1
  <2> QED
    BY <1>1, <1>6, <1>7, <1>8, <1>9, <2>1
<1> HIDE DEF g
<1>11. ReadsOff(doc, n, g)
  BY <1>10, Zenon DEF ReadsOff
<1> QED
  BY <1>11, Zenon

\* Every page an event counts is kept or counted as too many, and none is too
\* many before the ceiling is reached.
Balanced(s) ==
    /\ s.listed = Len(s.locs) + s.overCeiling /\ Len(s.locs) <= MaxSitemapUrls
    /\ s.overCeiling > 0 => Len(s.locs) = MaxSitemapUrls

LEMMA NothingIsListedAtFirst == M!Start.open = <<>> /\ ~M!Start.inLoc /\ M!Start.listed = 0 /\ Balanced(M!Start)
<1>1. /\ M!Start.locs = <<>> /\ M!Start.listed = 0 /\ M!Start.overCeiling = 0 /\ M!Start.open = <<>>
      /\ M!Start.inLoc = FALSE
  BY DEF M!Start
<1>2. Len(M!Start.locs) = 0 /\ MaxSitemapUrls \in Nat
  BY <1>1, BoundaryAssumption
<1> QED
  BY <1>1, <1>2 DEF Balanced

LEMMA TheAccountStaysBalanced ==
    ASSUME NEW s \in SitemapStates, NEW t \in SitemapStates, NEW e, ReadOn(s, e, t), Balanced(s)
    PROVE  Balanced(t)
<1>1. MaxSitemapUrls \in Nat /\ s.listed \in Nat /\ s.overCeiling \in Nat /\ Len(s.locs) \in Nat
  <2>1. s.locs \in Seq(Texts)
    BY DEF SitemapStates
  <2> QED
    BY <2>1, BoundaryAssumption, ListFacts DEF SitemapStates
<1>2. CASE Uncounted(s, t)
  BY <1>2 DEF Uncounted, Balanced
<1>3. CASE CountsOneMore(s, t)
  <2>1. Len(Append(s.locs, s.current)) = Len(s.locs) + 1
    BY Appended DEF SitemapStates
  <2>2. CASE Len(s.locs) < MaxSitemapUrls
    <3>1. t.listed = s.listed + 1 /\ Len(t.locs) = Len(s.locs) + 1 /\ t.overCeiling = s.overCeiling
      BY <1>3, <2>1, <2>2 DEF CountsOneMore
    <3> QED
      BY <1>1, <2>2, <3>1 DEF Balanced
  <2>3. CASE ~(Len(s.locs) < MaxSitemapUrls)
    <3>1. t.listed = s.listed + 1 /\ t.locs = s.locs /\ t.overCeiling = s.overCeiling + 1
      BY <1>3, <2>3 DEF CountsOneMore
    <3> DEFINE l == Len(s.locs)
    <3>2. Len(t.locs) = l /\ l \in Nat /\ ~(l < MaxSitemapUrls) /\ s.listed = l + s.overCeiling /\ l <= MaxSitemapUrls
      BY <1>1, <2>3, <3>1 DEF Balanced
    <3> HIDE DEF l
    <3> QED
      BY <1>1, <3>1, <3>2 DEF Balanced
  <2> QED
    BY <2>2, <2>3
<1> QED
  BY <1>2, <1>3, Zenon DEF ReadOn, Opened, Closes, Passes

\* Where a document is flat, nothing stands inside a loc but the text it
\* says: the reading is in a page's loc while one is the inmost that is open.
Inmost(open) == open[Len(open)]
InALoc(open) == open # <<>> /\ Inmost(open).name = "loc"
OpensALoc(e) == e.is = "open" /\ e.name = "loc"
JustOpened(doc, k, s) == OpensALoc(doc[k]) /\ (s.inLoc => s.current = <<>>)
JustTold(doc, n, k, s) ==
    /\ k - 1 \in 1 .. n /\ OpensALoc(doc[k - 1]) /\ doc[k].is = "text"
    /\ s.inLoc => s.current = << doc[k].text >>
Nested(doc, n, k, s) ==
    /\ \A i \in 1 .. Len(s.open) - 1 : s.open[i].name # "loc"
    /\ s.inLoc <=> InALoc(s.open) /\ Inmost(s.open).ns # "extension"
    /\ InALoc(s.open) => k \in 1 .. n /\ (JustOpened(doc, k, s) \/ JustTold(doc, n, k, s))

LEMMA FlatStaysNested ==
    ASSUME NEW doc \in Documents, NEW n, n = Len(doc), M!Flat(doc), NEW k \in 1 .. n,
           NEW s \in SitemapStates, NEW t \in SitemapStates, ReadOn(s, doc[k], t), Nested(doc, n, k - 1, s)
    PROVE  Nested(doc, n, k, t)
<1> DEFINE e == doc[k]
           m == Len(s.open)
<1>1. /\ n \in Nat /\ DOMAIN doc = 1 .. n /\ e \in XmlEvents
      /\ s.open \in Seq(Tags) /\ m \in Nat /\ \A i \in 1 .. m : s.open[i] \in Tags
      /\ s.open = <<>> <=> m = 0
  <2>1. s.open \in Seq(Tags)
    BY DEF SitemapStates
  <2>2. m \in Nat /\ (\A i \in 1 .. m : s.open[i] \in Tags) /\ (s.open = <<>> <=> m = 0)
    BY <2>1, ListFacts
  <2> QED
    BY <2>1, <2>2, ListFacts DEF Documents
\* What may follow in a loc: its text, once, or its end.
<1>2. ASSUME InALoc(s.open)
      PROVE  \/ e.is = "close"
             \/ e.is = "text" /\ k - 1 \in 1 .. n /\ JustOpened(doc, k - 1, s)
  <2>1. CASE JustOpened(doc, k - 1, s)
    <3>1. k - 1 \in DOMAIN doc /\ k - 1 # Len(doc) /\ k - 1 + 1 = k
      BY <1>1, <1>2 DEF Nested
    <3>2. e.is \in {"text", "close"}
      <4>1. k - 1 = Len(doc) \/ doc[k - 1 + 1].is \in {"text", "close"}
        BY <2>1, <3>1 DEF M!Flat, JustOpened, OpensALoc
      <4> QED
        BY <3>1, <4>1
    <3> QED
      BY <1>1, <2>1, <3>1, <3>2
  <2>2. CASE JustTold(doc, n, k - 1, s)
    <3> DEFINE i == k - 1 - 1
    <3>1. i \in DOMAIN doc /\ i + 1 = k - 1 /\ i + 2 = k /\ ~(i + 1 >= Len(doc))
      BY <1>1, <2>2 DEF JustTold
    <3>2. OpensALoc(doc[i]) /\ doc[k - 1].is = "text"
      BY <2>2 DEF JustTold
    <3> HIDE DEF i
    <3>3. i + 1 >= Len(doc) \/ doc[i + 1].is = "close" \/ doc[i + 2].is = "close"
      BY <3>1, <3>2, Zenon DEF M!Flat, OpensALoc
    <3>4. e.is = "close"
      BY <3>1, <3>2, <3>3
    <3> QED
      BY <3>4
  <2> QED
    BY <1>2, <2>1, <2>2, Zenon DEF Nested
<1>3. CASE e.is = "open"
  <2>1. ~InALoc(s.open) /\ ~s.inLoc
    BY <1>2, <1>3 DEF Nested
  <2>2. Opened(s, e, t)
    BY <1>3 DEF ReadOn
  <2>3. Tag(e) \in Tags /\ Tag(e).name = e.name /\ Tag(e).ns = e.ns
    BY <1>1, <1>3 DEF XmlEvents, TagEvents, Tag, Tags
  <2> DEFINE u == Append(s.open, Tag(e))
             l == Len(u)
  <2>4. /\ u \in Seq(Tags) /\ l = m + 1 /\ u[l] = Tag(e)
        /\ \A i \in 1 .. m : u[i] = s.open[i]
    BY <1>1, <2>3, Appended
  <2>5. u # <<>>
    BY <1>1, <2>4
  <2>6. t.open = u
    BY <2>2 DEF Opened
  <2> HIDE DEF u, l
  <2>7. ASSUME NEW i \in 1 .. l - 1 PROVE u[i].name # "loc"
    <3>1. i \in 1 .. m /\ (i \in 1 .. m - 1 \/ i = m)
      BY <1>1, <2>4
    <3>2. i = m => s.open[i].name # "loc"
      BY <1>1, <2>1, <3>1 DEF InALoc, Inmost
    <3>3. s.open[i].name # "loc"
      BY <3>1, <3>2 DEF Nested
    <3> QED
      BY <2>4, <3>1, <3>3, Zenon
  <2>8. InALoc(u) <=> e.name = "loc"
    BY <2>3, <2>4, <2>5 DEF InALoc, Inmost, l
  <2>9. Inmost(u).ns = e.ns
    BY <2>3, <2>4 DEF Inmost, l
  <2>10. t.inLoc <=> (e.name = "loc" /\ e.ns # "extension")
    BY <2>1, <2>2, Zenon DEF Opened
  <2>11. e.name = "loc" => JustOpened(doc, k, t)
    BY <1>3, <2>2, <2>10 DEF JustOpened, OpensALoc, Opened
  <2>12. \A i \in 1 .. Len(t.open) - 1 : t.open[i].name # "loc"
    BY <2>6, <2>7 DEF l
  <2> QED
    BY <2>6, <2>8, <2>9, <2>10, <2>11, <2>12 DEF Nested
<1>4. CASE e.is = "close"
  <2>1. Closes(s, e, t)
    BY <1>4 DEF ReadOn
  <2>2. /\ m >= 1 /\ t.open = SubSeq(s.open, 1, m - 1) /\ s.open[m] = Tag(e)
    BY <1>1, <2>1 DEF Closes
  <2> DEFINE u == SubSeq(s.open, 1, m - 1)
             l == Len(u)
  <2>3. u \in Seq(Tags) /\ l = m - 1 /\ (\A i \in 1 .. l : u[i] = s.open[i]) /\ (u # <<>> <=> l >= 1)
    <3>1. m - 1 \in 0 .. m
      BY <1>1, <2>2
    <3>2. ASSUME NEW q \in Seq(Tags), NEW j \in 0 .. Len(q)
          PROVE  /\ SubSeq(q, 1, j) \in Seq(Tags) /\ Len(SubSeq(q, 1, j)) = j
                 /\ \A i \in 1 .. j : SubSeq(q, 1, j)[i] = q[i]
      OBVIOUS
    <3>3. u \in Seq(Tags) /\ l = m - 1 /\ \A i \in 1 .. m - 1 : u[i] = s.open[i]
      BY <1>1, <3>1, <3>2
    <3>4. u # <<>> <=> l # 0
      <4> HIDE DEF u
      <4> QED
        BY <3>3, ListFacts, Zenon
    <3> HIDE DEF u, l
    <3>5. l \in Int /\ (l # 0 <=> l >= 1)
      <4> HIDE DEF m
      <4> QED
        BY <1>1, <2>2, <3>3
    <3>6. \A i \in 1 .. l : u[i] = s.open[i]
      BY <3>3, Zenon
    <3> QED
      BY <3>3, <3>4, <3>5, <3>6, Zenon
  <2> HIDE DEF u, l
  <2>4. \A i \in 1 .. l : u[i].name # "loc"
    BY <2>3 DEF Nested
  <2>5. ~InALoc(u)
    BY <1>1, <2>2, <2>3, <2>4 DEF InALoc, Inmost, l
  <2>6. ~t.inLoc
    <3>1. CASE s.inLoc
      <4>1. Tag(e).name = "loc"
        BY <2>2, <3>1 DEF Nested, InALoc, Inmost
      <4>2. e.name = "loc"
        BY <4>1 DEF Tag
      <4> QED
        BY <2>1, <3>1, <4>2 DEF Closes
    <3>2. CASE ~s.inLoc
      BY <2>1, <3>2 DEF Closes
    <3> QED
      BY <3>1, <3>2
  <2>7. \A i \in 1 .. l - 1 : u[i].name # "loc"
    BY <1>1, <2>3, <2>4
  <2> QED
    BY <2>2, <2>5, <2>6, <2>7 DEF Nested, u, l
<1>5. CASE e.is \notin {"open", "close"}
  <2>1. Passes(s, e, t)
    BY <1>5 DEF ReadOn
  <2>2. CASE ~InALoc(s.open)
    BY <2>1, <2>2 DEF Passes, Nested
  <2>3. CASE InALoc(s.open)
    <3>1. e.is = "text" /\ k - 1 \in 1 .. n /\ JustOpened(doc, k - 1, s)
      BY <1>2, <1>5, <2>3
    <3>2. t.inLoc => t.current = << e.text >>
      <4>1. t.inLoc => t.current = Append(<<>>, e.text)
        BY <2>1, <3>1, Zenon DEF Passes, JustOpened
      <4>2. \A x : Append(<<>>, x) = << x >>
        OBVIOUS
      <4> QED
        BY <4>1, <4>2
    <3>3. JustTold(doc, n, k, t)
      BY <3>1, <3>2 DEF JustTold, JustOpened
    <3> QED
      BY <2>1, <3>3 DEF Passes, Nested
  <2> QED
    BY <2>2, <2>3
<1> QED
  BY <1>3, <1>4, <1>5

\* The pages listed are the loc elements of the protocol closed so far, and
\* what is kept of them says what they say, in their order.
ClosedBy(doc, k) == {i \in M!Closed(doc) : i <= k}
Told(doc, locs, i) ==
    Rank(M!Closed(doc), i) < Len(locs) => M!Address(locs[Rank(M!Closed(doc), i) + 1]) = M!Says(doc, i)
Accounted(doc, k, s) ==
    /\ s.listed = Cardinality(ClosedBy(doc, k))
    /\ \A i \in ClosedBy(doc, k) : Told(doc, s.locs, i)

LEMMA ClosedAreNumbers ==
    ASSUME NEW doc \in Documents
    PROVE  /\ M!Closed(doc) \subseteq 1 .. Len(doc) /\ IsFiniteSet(M!Closed(doc))
           /\ M!Closed(doc) \subseteq Int
           /\ \A k : IsFiniteSet(ClosedBy(doc, k)) /\ Cardinality(ClosedBy(doc, k)) \in Nat
<1>1. Len(doc) \in Nat /\ DOMAIN doc = 1 .. Len(doc)
  BY ListFacts DEF Documents
<1>2. M!Closed(doc) \subseteq 1 .. Len(doc)
  BY <1>1 DEF M!Closed
<1>3. IsFiniteSet(1 .. Len(doc)) /\ 1 .. Len(doc) \subseteq Int
  BY <1>1, FS_Interval
<1>4. IsFiniteSet(M!Closed(doc))
  BY <1>2, <1>3, FS_Subset
<1>5. ASSUME NEW k PROVE IsFiniteSet(ClosedBy(doc, k)) /\ Cardinality(ClosedBy(doc, k)) \in Nat
  <2>1. ClosedBy(doc, k) \subseteq M!Closed(doc)
    BY DEF ClosedBy
  <2> QED
    BY <1>4, <2>1, FS_Subset, FS_CardinalityType
<1> QED
  BY <1>2, <1>3, <1>4, <1>5

LEMMA PagesCloseInALoc ==
    ASSUME NEW doc \in Documents, NEW n, n = Len(doc), NEW k \in 1 .. n,
           NEW s \in SitemapStates, NEW t, ReadOn(s, doc[k], t), Nested(doc, n, k - 1, s)
    PROVE  k \in M!Closed(doc) <=> s.inLoc /\ doc[k].is = "close" /\ doc[k].name = "loc"
<1> DEFINE e == doc[k]
<1>1. DOMAIN doc = 1 .. n /\ e \in XmlEvents
  BY ListFacts DEF Documents
<1>2. k \in M!Closed(doc) <=> e.is = "close" /\ e.name = "loc" /\ e.ns \in {"sitemap", "none"}
  BY <1>1 DEF M!Closed
<1>3. ASSUME e.is = "close", e.name = "loc"
      PROVE  s.inLoc <=> e.ns \in {"sitemap", "none"}
  <2>1. s.open # <<>> /\ Inmost(s.open) = Tag(e)
    BY <1>3 DEF ReadOn, Closes, Inmost
  <2>2. Inmost(s.open).name = "loc" /\ Inmost(s.open).ns = e.ns
    BY <1>3, <2>1 DEF Tag
  <2>3. s.inLoc <=> e.ns # "extension"
    BY <2>1, <2>2 DEF Nested, InALoc
  <2>4. e.ns \in Namespaces
    BY <1>1, <1>3 DEF XmlEvents, TagEvents
  <2> QED
    BY <2>3, <2>4 DEF Namespaces
<1> QED
  BY <1>2, <1>3

\* The loc that closes said what the event before it is.
LEMMA ALocSaysItsText ==
    ASSUME NEW doc \in Documents, NEW n, n = Len(doc), NEW k \in 1 .. n,
           NEW s \in SitemapStates, Nested(doc, n, k - 1, s), s.inLoc
    PROVE  M!Address(s.current) = M!Says(doc, k)
<1>1. JustOpened(doc, k - 1, s) \/ JustTold(doc, n, k - 1, s)
  BY DEF Nested
<1>2. CASE JustOpened(doc, k - 1, s)
  <2>1. s.current = <<>> /\ doc[k - 1].is = "open"
    BY <1>2 DEF JustOpened, OpensALoc
  <2> QED
    BY <2>1 DEF M!Address, M!Says
<1>3. CASE JustTold(doc, n, k - 1, s)
  <2>1. s.current = << doc[k - 1].text >> /\ doc[k - 1].is = "text"
    BY <1>3 DEF JustTold
  <2>2. \A x : Len(<< x >>) = 1 /\ << x >>[1] = x
    OBVIOUS
  <2> QED
    BY <2>1, <2>2 DEF M!Address, M!Says
<1> QED
  BY <1>1, <1>2, <1>3

LEMMA TheCountIsKept ==
    ASSUME NEW doc \in Documents, NEW n, n = Len(doc), NEW k \in 1 .. n,
           NEW s \in SitemapStates, NEW t \in SitemapStates, ReadOn(s, doc[k], t),
           Nested(doc, n, k - 1, s), Balanced(s), Accounted(doc, k - 1, s)
    PROVE  Accounted(doc, k, t)
<1> DEFINE e == doc[k]
           closed == M!Closed(doc)
           before == ClosedBy(doc, k - 1)
           m == Len(s.locs)
<1>1. /\ IsFiniteSet(closed) /\ closed \subseteq Int
      /\ IsFiniteSet(before) /\ Cardinality(before) \in Nat
  BY ClosedAreNumbers
<1>2. k \in closed <=> s.inLoc /\ e.is = "close" /\ e.name = "loc"
  BY PagesCloseInALoc
<1>3. CASE k \notin closed
  <2>1. Uncounted(s, t)
    BY <1>2, <1>3 DEF ReadOn, Opened, Closes, Passes
  <2>2. ClosedBy(doc, k) = before
    <3>1. \A i \in closed : i <= k <=> i <= k - 1
      BY <1>1, <1>3
    <3> QED
      BY <3>1, Zenon DEF ClosedBy
  <2> QED
    BY <2>1, <2>2, Zenon DEF Accounted, Uncounted
<1>4. CASE k \in closed
  <2>1. CountsOneMore(s, t)
    BY <1>2, <1>4 DEF ReadOn, Closes
  <2>2. ClosedBy(doc, k) = before \union {k} /\ k \notin before
    <3>1. \A i \in closed : (i <= k <=> i <= k - 1 \/ i = k) /\ ~(k <= k - 1)
      BY <1>1
    <3> QED
      BY <1>4, <3>1, Zenon DEF ClosedBy
  <2>3. Cardinality(ClosedBy(doc, k)) = Cardinality(before) + 1
    BY <1>1, <2>2, FS_AddElement, Zenon
  <2>4. Below(closed, k) = before
    <3>1. \A i \in closed : i < k <=> i <= k - 1
      BY <1>1
    <3> QED
      BY <3>1, Zenon DEF ClosedBy, Below
  <2>5. Rank(closed, k) = s.listed
    BY <2>4 DEF Rank, Accounted
  <2>6. /\ m \in Nat /\ s.listed \in Nat /\ s.overCeiling \in Nat /\ MaxSitemapUrls \in Nat
        /\ s.locs \in Seq(Texts) /\ s.current \in Texts
    <3>1. s.locs \in Seq(Texts)
      BY DEF SitemapStates
    <3> QED
      BY <3>1, BoundaryAssumption, ListFacts DEF SitemapStates
  <2>7. t.listed = Cardinality(ClosedBy(doc, k))
    BY <2>1, <2>3 DEF CountsOneMore, Accounted
  <2>8. CASE ~(m < MaxSitemapUrls)
    <3>1. t.locs = s.locs
      BY <2>1, <2>8 DEF CountsOneMore
    <3>2. ~(Rank(closed, k) < m)
      BY <2>5, <2>6 DEF Balanced
    <3>3. Told(doc, t.locs, k)
      BY <3>1, <3>2 DEF Told
    <3>4. \A i \in before : Told(doc, t.locs, i)
      BY <3>1 DEF Accounted
    <3> QED
      BY <2>2, <2>7, <3>3, <3>4, Zenon DEF Accounted
  <2>9. CASE m < MaxSitemapUrls
    <3>1. t.locs = Append(s.locs, s.current)
      BY <2>1, <2>9 DEF CountsOneMore
    <3>2. s.listed = m
      BY <2>6, <2>9 DEF Balanced
    <3>3. /\ Len(t.locs) = m + 1 /\ t.locs[m + 1] = s.current
          /\ \A i \in 1 .. m : t.locs[i] = s.locs[i]
      BY <2>6, <3>1, Appended
    <3>4. Told(doc, t.locs, k)
      <4>1. M!Address(s.current) = M!Says(doc, k)
        BY <1>2, <1>4, ALocSaysItsText
      <4> QED
        BY <2>5, <3>2, <3>3, <4>1 DEF Told
    <3>5. ASSUME NEW i \in before PROVE Told(doc, t.locs, i)
      <4> DEFINE r == Rank(closed, i)
      <4>1. i \in closed /\ i < k
        BY <1>1 DEF ClosedBy
      <4>2. r < Rank(closed, k) /\ r \in Nat
        <5> DEFINE c == Cardinality(closed)
        <5>1. /\ c \in Nat
              /\ \A x \in closed : Rank(closed, x) \in 0 .. c - 1
              /\ \A x, y \in closed : x < y => Rank(closed, x) < Rank(closed, y)
          <6> HIDE DEF closed
          <6> QED
            BY <1>1, RanksFill, Zenon
        <5> HIDE DEF c, closed
        <5> QED
          BY <1>4, <4>1, <5>1
      <4> HIDE DEF r
      <4>3. r < m /\ r + 1 \in 1 .. m
        BY <2>5, <2>6, <3>2, <4>2
      <4>4. Told(doc, s.locs, i)
        BY DEF Accounted
      <4>5. M!Address(s.locs[r + 1]) = M!Says(doc, i)
        BY <4>3, <4>4, Zenon DEF Told, r
      <4>6. t.locs[r + 1] = s.locs[r + 1]
        BY <3>3, <4>3
      <4>7. M!Address(t.locs[r + 1]) = M!Says(doc, i)
        BY <4>5, <4>6, Zenon
      <4> QED
        BY <4>7, Zenon DEF Told, r
    <3> QED
      BY <2>2, <2>7, <3>4, <3>5, Zenon DEF Accounted
  <2> QED
    BY <2>8, <2>9
<1> QED
  BY <1>3, <1>4

LEMMA ADocumentIsAccountedFor ==
    ASSUME NEW doc \in Documents, NEW n, n = Len(doc), NEW p, p = M!ParseLocs(doc)
    PROVE  /\ p \in SitemapStates
           /\ p.end = "eof" => Balanced(p) /\ (M!Flat(doc) => Accounted(doc, n, p))
<1>1. PICK g : ReadsOff(doc, n, g)
  BY AReadingIsAWalk, Zenon
<1>2. n \in Nat /\ DOMAIN doc = 1 .. n
  BY ListFacts DEF Documents
<1> DEFINE Flatly(k) == M!Flat(doc) => Nested(doc, n, k, g[k]) /\ Accounted(doc, k, g[k])
           so == {k \in 0 .. n : g[k].end = "eof" => Balanced(g[k]) /\ Flatly(k)}
<1>3. 0 \in so
  <2>1. g[0] = M!Start /\ M!Start.open = <<>> /\ ~M!Start.inLoc /\ M!Start.listed = 0 /\ Balanced(M!Start)
    BY <1>1, NothingIsListedAtFirst DEF ReadsOff
  <2>2. ~InALoc(<<>>) /\ \A i \in 1 .. Len(<<>>) - 1 : FALSE
    BY DEF InALoc
  <2>3. Nested(doc, n, 0, g[0])
    BY <2>1, <2>2 DEF Nested
  <2>4. ClosedBy(doc, 0) = {}
    <3>1. \A i \in M!Closed(doc) : ~(i <= 0)
      BY ClosedAreNumbers
    <3> QED
      BY <3>1, Zenon DEF ClosedBy
  <2>5. Accounted(doc, 0, g[0])
    BY <2>1, <2>4, FS_EmptySet, Zenon DEF Accounted
  <2> QED
    BY <1>2, <2>1, <2>3, <2>5
<1>4. ASSUME NEW k \in 1 .. n, k - 1 \in so PROVE k \in so
  <2>1. /\ g[k] = M!Read(g[k - 1], doc[k]) /\ doc[k] \in XmlEvents
        /\ g[k - 1] \in SitemapStates /\ k \in 0 .. n
    BY <1>1, <1>2 DEF ReadsOff
  <2>2. g[k] \in SitemapStates /\ (g[k].end = "eof" => ReadOn(g[k - 1], doc[k], g[k]))
    BY <2>1, WhatAnEventLeaves, Zenon
  <2>3. SUFFICES ASSUME g[k].end = "eof" PROVE Balanced(g[k]) /\ Flatly(k)
    BY <2>1
  <2>4. ReadOn(g[k - 1], doc[k], g[k]) /\ g[k - 1].end = "eof"
    BY <2>2, <2>3 DEF ReadOn
  <2>5. Balanced(g[k - 1]) /\ Flatly(k - 1)
    BY <1>4, <2>4
  <2>6. Balanced(g[k])
    BY <2>1, <2>2, <2>4, <2>5, TheAccountStaysBalanced, Zenon
  <2>7. Flatly(k)
    BY <2>1, <2>2, <2>4, <2>5, FlatStaysNested, TheCountIsKept, Zenon
  <2> QED
    BY <2>6, <2>7
<1>5. n \in so
  <2>1. \A k \in 0 .. n : k \in so
    <3> HIDE DEF so
    <3> QED
      BY <1>2, <1>3, <1>4, Upwards, Zenon
  <2> HIDE DEF so
  <2> QED
    BY <1>2, <2>1
<1>6. p = g[n] /\ g[n] \in SitemapStates
  BY <1>1, <1>2 DEF ReadsOff
<1> QED
  BY <1>5, <1>6

\* The pages a flat document lists are what it says, from the first up to the
\* ceiling.
LEMMA KeptAreTheFirst ==
    ASSUME NEW doc \in Documents, M!Flat(doc), NEW p \in SitemapStates, Balanced(p), Accounted(doc, Len(doc), p),
           NEW at, at = [i \in DOMAIN p.locs |-> M!Address(p.locs[i])]
    PROVE  /\ p.listed = Len(M!PageLocs(doc))
           /\ at = SubSeq(M!PageLocs(doc), 1, IF p.listed < MaxSitemapUrls THEN p.listed ELSE MaxSitemapUrls)
<1> DEFINE closed == M!Closed(doc)
           c == Cardinality(closed)
           o == R!InOrder(closed)
           pages == M!PageLocs(doc)
           m == Len(p.locs)
           said == {M!Says(doc, i) : i \in closed}
<1>1. /\ closed \subseteq 1 .. Len(doc) /\ IsFiniteSet(closed) /\ closed \subseteq Int
      /\ Len(doc) \in Nat
  BY ClosedAreNumbers, ListFacts DEF Documents
<1>2. /\ c \in Nat /\ DOMAIN o = 1 .. c
      /\ \A k \in 1 .. c : o[k] \in closed /\ Rank(closed, o[k]) = k - 1
  <2> HIDE DEF closed
  <2> QED
    BY <1>1, OrderedByRank, Zenon
<1>3. ClosedBy(doc, Len(doc)) = closed
  <2>1. \A i \in closed : i <= Len(doc)
    BY <1>1
  <2> QED
    BY <2>1, Zenon DEF ClosedBy
<1>4. pages = [k \in 1 .. c |-> M!Says(doc, o[k])]
  <2>1. M!InOrder(closed) = o
    BY PositionsAreOne
  <2> HIDE DEF o, closed, c
  <2> QED
    BY <1>2, <2>1 DEF M!PageLocs, closed
<1>5. /\ m \in Nat /\ p.listed \in Nat /\ p.overCeiling \in Nat /\ MaxSitemapUrls \in Nat
      /\ DOMAIN p.locs = 1 .. m
  <2>1. p.locs \in Seq(Texts)
    BY DEF SitemapStates
  <2> QED
    BY <2>1, BoundaryAssumption, ListFacts DEF SitemapStates
<1> HIDE DEF pages, o, c, m
<1>6. p.listed = c
  BY <1>3 DEF Accounted, c
<1>7. m <= c /\ m = IF p.listed < MaxSitemapUrls THEN p.listed ELSE MaxSitemapUrls
  <2>1. p.listed = m + p.overCeiling /\ m <= MaxSitemapUrls /\ (p.overCeiling > 0 => m = MaxSitemapUrls)
    BY DEF Balanced, m
  <2> QED
    BY <1>5, <1>6, <2>1
<1>8. pages \in Seq(said) /\ Len(pages) = c
  <2>1. \A k \in 1 .. c : M!Says(doc, o[k]) \in said
    BY <1>2
  <2> HIDE DEF said, closed
  <2> QED
    BY <1>2, <1>4, <2>1
<1>9. ASSUME NEW k \in 1 .. m PROVE at[k] = pages[k]
  <2>1. k \in 1 .. c /\ k - 1 < m /\ k - 1 + 1 = k
    BY <1>2, <1>5, <1>7
  <2>2. o[k] \in closed /\ Rank(closed, o[k]) = k - 1
    BY <1>2, <2>1
  <2>3. Told(doc, p.locs, o[k])
    BY <1>3, <2>2 DEF Accounted
  <2>4. M!Address(p.locs[k]) = M!Says(doc, o[k])
    BY <2>1, <2>2, <2>3 DEF Told, m
  <2> QED
    BY <1>4, <1>5, <2>1, <2>4
<1>10. at = SubSeq(pages, 1, m)
  <2>1. at = [k \in 1 .. m |-> at[k]]
    BY <1>5
  <2>2. SubSeq(pages, 1, m) = [k \in 1 .. m |-> pages[k]]
    <3>1. m \in 0 .. Len(pages)
      BY <1>2, <1>5, <1>7, <1>8
    <3>2. ASSUME NEW set, NEW q \in Seq(set), NEW j \in 0 .. Len(q)
          PROVE  SubSeq(q, 1, j) = [k \in 1 .. j |-> q[k]]
      OBVIOUS
    <3> HIDE DEF said
    <3> QED
      BY <1>8, <3>1, <3>2
  <2>3. \A k \in 1 .. m : at[k] = pages[k]
    BY <1>9
  <2> QED
    BY <2>1, <2>2, <2>3, Zenon
<1> QED
  BY <1>6, <1>7, <1>8, <1>10 DEF pages

\* What is left of a list for the host of the seed.
LEMMA OfTheHostAreOnIt ==
    ASSUME NEW at, NEW m \in Nat, DOMAIN at = 1 .. m
    PROVE  Len(M!OfTheHost(at)) \in Nat /\ M!Range(M!OfTheHost(at)) \subseteq OnHost
<1> DEFINE here == {i \in DOMAIN at : at[i] \in OnHost}
           c == Cardinality(here)
           said == {at[i] : i \in here}
<1>1. IsFiniteSet(here) /\ here \subseteq Int
  <2>1. here \subseteq 1 .. m /\ IsFiniteSet(1 .. m) /\ 1 .. m \subseteq Int
    BY FS_Interval
  <2> QED
    BY <2>1, FS_Subset
<1>2. M!OfTheHost(at) = R!Picked(at, here)
  BY PositionsAreOne DEF M!OfTheHost
<1>3. Len(R!Picked(at, here)) \in Nat /\ R!Range(R!Picked(at, here)) = said
  <2> HIDE DEF here
  <2> QED
    BY <1>1, PickedIsWhatStandsThere, PickedIsAList, Zenon
<1>4. said \subseteq OnHost
  OBVIOUS
<1> HIDE DEF said, here
<1> QED
  BY <1>2, <1>3, <1>4, PositionsAreOne

\* Nothing a sitemap names is lost without a count and nothing it does not
\* name is asked for, however long and however built the document is: the
\* pages a flat one lists are those it names, in order, up to the ceiling.
THEOREM SitemapsAreAccountedFor ==
    ASSUME NEW doc \in Documents
    PROVE  M!ListingAccounts(doc)
<1> DEFINE p == M!ParseLocs(doc)
           at == [i \in DOMAIN p.locs |-> M!Address(p.locs[i])]
           urls == M!OfTheHost(at)
           l == M!Listing(doc)
           first == SubSeq(M!PageLocs(doc), 1, IF p.listed < MaxSitemapUrls THEN p.listed ELSE MaxSitemapUrls)
<1>1. /\ p \in SitemapStates
      /\ p.end = "eof" => Balanced(p) /\ (M!Flat(doc) => Accounted(doc, Len(doc), p))
  BY ADocumentIsAccountedFor, Zenon
<1> HIDE DEF p
<1>2. l = IF p.end # "eof" THEN [failed |-> p.end]
          ELSE [listed |-> p.listed, urls |-> urls, offHost |-> Len(at) - Len(urls), overCeiling |-> p.overCeiling]
  BY DEF M!Listing, M!Failed, p
<1>3. CASE p.end # "eof"
  <2>1. "failed" \in DOMAIN l
    BY <1>2, <1>3
  <2> QED
    BY <2>1 DEF M!ListingAccounts
<1>4. CASE p.end = "eof"
  <2>1. /\ Len(p.locs) \in Nat /\ DOMAIN p.locs = 1 .. Len(p.locs)
    <3>1. p.locs \in Seq(Texts)
      BY <1>1 DEF SitemapStates
    <3> QED
      BY <3>1, ListFacts
  <2> DEFINE m == Len(p.locs)
  <2>2. DOMAIN at = 1 .. m /\ Len(at) = m
    <3> DEFINE all == {M!Address(p.locs[i]) : i \in 1 .. m}
    <3>1. at = [i \in 1 .. m |-> M!Address(p.locs[i])]
      BY <2>1
    <3>2. \A i \in 1 .. m : M!Address(p.locs[i]) \in all
      OBVIOUS
    <3> HIDE DEF at, all
    <3> QED
      BY <2>1, <3>1, <3>2
  <2> HIDE DEF at, m
  <2>3. Len(urls) \in Nat /\ M!Range(urls) \subseteq OnHost
    BY <2>1, <2>2, OfTheHostAreOnIt DEF m
  <2> HIDE DEF urls
  <2>4. /\ l.listed = p.listed /\ l.urls = urls /\ l.offHost = m - Len(urls) /\ l.overCeiling = p.overCeiling
    BY <1>2, <1>4, <2>2
  <2>5. /\ l.listed = Len(l.urls) + l.offHost + l.overCeiling
        /\ Len(l.urls) + l.offHost <= MaxSitemapUrls
    <3>1. p.listed = m + p.overCeiling /\ m <= MaxSitemapUrls
      BY <1>1, <1>4 DEF Balanced, m
    <3>2. p.overCeiling \in Nat /\ m \in Nat /\ MaxSitemapUrls \in Nat
      BY <1>1, <2>1, BoundaryAssumption DEF SitemapStates, m
    <3> DEFINE q == Len(urls)
    <3> HIDE DEF q
    <3>3. q \in Nat
      BY <2>3 DEF q
    <3>4. q + (m - q) = m /\ q + (m - q) + p.overCeiling = m + p.overCeiling
      BY <3>2, <3>3
    <3> QED
      BY <2>4, <3>1, <3>4 DEF q
  <2>6. ASSUME M!Flat(doc)
        PROVE  l.listed = Len(M!PageLocs(doc)) /\ l.urls = M!OfTheHost(first)
    <3>1. p.listed = Len(M!PageLocs(doc)) /\ at = first
      BY <1>1, <1>4, <2>6, KeptAreTheFirst, Zenon DEF at
    <3> QED
      BY <2>4, <3>1 DEF urls
  <2> HIDE DEF l
  <2>7. \/ "failed" \in DOMAIN l
        \/ /\ l.listed = Len(l.urls) + l.offHost + l.overCeiling
           /\ Len(l.urls) + l.offHost <= MaxSitemapUrls
           /\ M!Range(l.urls) \subseteq OnHost
           /\ M!Flat(doc) =>
                /\ l.listed = Len(M!PageLocs(doc))
                /\ l.urls = M!OfTheHost(SubSeq(M!PageLocs(doc), 1,
                                           IF l.listed < MaxSitemapUrls THEN l.listed ELSE MaxSitemapUrls))
    BY <2>3, <2>4, <2>5, <2>6
  <2> QED
    BY <2>7 DEF M!ListingAccounts, l
<1> QED
  BY <1>3, <1>4

\* The directives of a robots.txt and what a site serves at each address.
Directives == [key : STRING, value : STRING]
Answers == [success : BOOLEAN, gzip : BOOLEAN, body : Documents]

\* The position with none before it is the first.
LEMMA NoneBeforeIsFirst ==
    ASSUME NEW set, IsFiniteSet(set), set \subseteq Int, set # {}
    PROVE  M!Nth(set, 0) \in set /\ \A i \in set : M!Nth(set, 0) <= i
<1> DEFINE c == Cardinality(set)
           f == R!Nth(set, 0)
<1>1. /\ c \in Nat
      /\ \A x \in set : Rank(set, x) \in 0 .. c - 1
      /\ \A k \in 0 .. c - 1 : \E x \in set : Rank(set, x) = k
      /\ \A x, y \in set : x < y => Rank(set, x) < Rank(set, y)
  BY RanksFill, Zenon
<1> HIDE DEF c
<1>2. 0 \in 0 .. c - 1
  <2>1. PICK x \in set : Rank(set, x) \in 0 .. c - 1
    BY <1>1, Zenon
  <2> DEFINE r == Rank(set, x)
  <2>2. r \in 0 .. c - 1
    BY <2>1
  <2> HIDE DEF r
  <2> QED
    BY <1>1, <2>2
<1>3. f = CHOOSE x \in set : Rank(set, x) = 0
  <2>1. \A x : R!Cardinality({y \in set : y < x}) = Rank(set, x)
    BY RulesCountAsOne DEF Rank, Below
  <2> QED
    BY <2>1 DEF R!Nth
<1> HIDE DEF f
<1>4. f \in set /\ Rank(set, f) = 0
  BY <1>1, <1>2, <1>3
<1>5. ASSUME NEW i \in set PROVE f <= i
  <2>1. ~(i < f)
    BY <1>1, <1>4
  <2>2. f \in Int /\ i \in Int
    BY <1>4
  <2> QED
    BY <2>1, <2>2
<1>6. M!Nth(set, 0) = f
  BY PositionsAreOne DEF f
<1> QED
  BY <1>4, <1>5, <1>6

\* Whatever an operator, a robots.txt and a site say, the sitemap read is the
\* one that was named first, or nothing is.
THEOREM TheSitemapNamedIsRead ==
    ASSUME NEW explicit \in STRING, NEW robots \in Seq(Directives), NEW urls, NEW site \in [urls -> Answers]
    PROVE  M!SitemapIsTheOneNamed(explicit, robots, site)
<1> DEFINE named == {i \in DOMAIN robots : M!Names(robots[i])}
           url == IF explicit # "" THEN explicit ELSE M!Discovered(robots)
           r == M!ReadSitemap(explicit, robots, site)
           meant(u) ==
               IF explicit # "" THEN u = explicit
               ELSE \/ \E i \in DOMAIN robots :
                           /\ M!Names(robots[i]) /\ robots[i].value = u
                           /\ \A j \in 1 .. i - 1 : ~M!Names(robots[j])
                    \/ u = "/sitemap.xml" /\ \A i \in DOMAIN robots : ~M!Names(robots[i])
<1>1. Len(robots) \in Nat /\ DOMAIN robots = 1 .. Len(robots)
  BY ListFacts
<1>2. IsFiniteSet(named) /\ named \subseteq Int
  <2>1. named \subseteq 1 .. Len(robots) /\ IsFiniteSet(1 .. Len(robots)) /\ 1 .. Len(robots) \subseteq Int
    BY <1>1, FS_Interval
  <2> QED
    BY <2>1, FS_Subset
<1>3. ASSUME explicit = "" PROVE \A u : meant(u) <=> u = M!Discovered(robots)
  <2>1. CASE named = {}
    <3>1. M!Discovered(robots) = "/sitemap.xml"
      BY <2>1 DEF M!Discovered
    <3>2. \A i \in DOMAIN robots : ~M!Names(robots[i])
      BY <2>1
    <3> QED
      BY <1>3, <3>1, <3>2, Zenon
  <2>2. CASE named # {}
    <3> DEFINE f == M!Nth(named, 0)
    <3>1. f \in named /\ \A i \in named : f <= i
      <4> HIDE DEF named
      <4> QED
        BY <1>2, <2>2, NoneBeforeIsFirst, Zenon
    <3>2. M!Discovered(robots) = robots[f].value
      BY <2>2 DEF M!Discovered
    <3> HIDE DEF f
    <3>3. f \in DOMAIN robots /\ M!Names(robots[f]) /\ f \in 1 .. Len(robots)
      BY <1>1, <3>1
    <3>4. ASSUME NEW j \in 1 .. f - 1 PROVE ~M!Names(robots[j])
      <4>1. j \in DOMAIN robots /\ ~(f <= j)
        BY <1>1, <3>3
      <4> QED
        BY <3>1, <4>1
    <3>5. ASSUME NEW i \in DOMAIN robots, M!Names(robots[i]), \A j \in 1 .. i - 1 : ~M!Names(robots[j])
          PROVE  i = f
      <4>1. f <= i
        BY <3>1, <3>5
      <4>2. i \in Int /\ f \in Int /\ 1 <= f
        BY <1>1, <3>3
      <4>3. f \notin 1 .. i - 1
        BY <3>3, <3>5
      <4> QED
        BY <4>1, <4>2, <4>3
    <3> HIDE DEF named
    <3> QED
      BY <1>3, <3>2, <3>3, <3>4, <3>5, Zenon
  <2> QED
    BY <2>1, <2>2
<1>4. \A u : meant(u) <=> u = url
  BY <1>3, Zenon
<1> HIDE DEF meant
<1>5. r = IF url \notin DOMAIN site \/ ~site[url].success THEN M!Failed("fetch")
          ELSE IF site[url].gzip THEN M!Failed("compressed")
          ELSE M!Listing(site[url].body)
  BY DEF M!ReadSitemap
<1> HIDE DEF url, r
<1>6. IF \E u \in DOMAIN site : meant(u) /\ site[u].success /\ ~site[u].gzip
      THEN \E u \in DOMAIN site : meant(u) /\ r = M!Listing(site[u].body)
      ELSE r \in {M!Failed("fetch"), M!Failed("compressed")}
  BY <1>4, <1>5, Zenon
<1> QED
  BY <1>6, Zenon DEF M!SitemapIsTheOneNamed, meant, r, url

-----------------------------------------------------------------------------
(* What a document says, under the ceilings: PageScan *)

\* A total of numbers is the last of its partial totals.
PartialTotals(numbers, n, g) ==
    /\ g \in [0 .. n -> Nat] /\ g[0] = 0 /\ P!Total(numbers) = g[n]
    /\ \A k \in 1 .. n : g[k] = g[k - 1] + numbers[k]

LEMMA TotalsAreReached ==
    ASSUME NEW n \in Nat, NEW numbers \in [1 .. n -> Nat]
    PROVE  \E g : PartialTotals(numbers, n, g)
<1> DEFINE f == [k \in 1 .. n |-> [m \in Nat |-> m + numbers[k]]]
           folds(h) == h = [set \in SUBSET (1 .. n) |->
                              IF set = {} THEN 0 ELSE h[set \ {Top(set)}] + numbers[Top(set)]]
           iter == CHOOSE h : folds(h)
           g == [k \in 0 .. n |-> iter[1 .. k]]
<1>1. DOMAIN numbers = 1 .. n /\ \A k \in 1 .. n : numbers[k] \in Nat
  OBVIOUS
<1>2. f \in [1 .. n -> [Nat -> Nat]]
  <2>1. \A k \in 1 .. n : \A m \in Nat : m + numbers[k] \in Nat
    BY <1>1
  <2> QED
    BY <2>1, Zenon
<1>3. ASSUME NEW h, Folds(h, n, Nat, 0, f) PROVE folds(h)
  <2>1. ASSUME NEW set \in SUBSET (1 .. n), set # {}
        PROVE  h[set] = h[set \ {Top(set)}] + numbers[Top(set)]
    <3>1. Top(set) \in 1 .. n
      <4>1. Top(set) \in set
        BY <1>1, <2>1, TopIsGreatest, Zenon
      <4> HIDE DEF Top
      <4> QED
        BY <4>1, Zenon
    <3> HIDE DEF Top
    <3>2. set \ {Top(set)} \in SUBSET (1 .. n)
      BY Zenon
    <3>3. h[set \ {Top(set)}] \in Nat
      BY <1>3, <3>2 DEF Folds
    <3>4. h[set] = f[Top(set)][h[set \ {Top(set)}]]
      BY <1>3, <2>1, Zenon DEF Folds
    <3> QED
      BY <3>1, <3>3, <3>4
  <2>2. h = [set \in SUBSET (1 .. n) |-> h[set]] /\ h[{}] = 0
    BY <1>3, Zenon DEF Folds
  <2> HIDE DEF f
  <2> QED
    BY <2>1, <2>2, Zenon
<1>4. PICK h : Folds(h, n, Nat, 0, f)
  <2> HIDE DEF f
  <2>1. 0 \in Nat
    OBVIOUS
  <2> QED
    BY <1>2, <2>1, FoldsExist, Zenon
<1>5. folds(iter)
  <2>1. folds(h)
    <3> HIDE DEF f, folds
    <3> QED
      BY <1>3, <1>4
  <2> HIDE DEF folds
  <2> QED
    BY <2>1
<1>6. P!Total(numbers) = iter[DOMAIN numbers]
  BY <1>1 DEF P!Total, P!FoldLeft, P!MapThenFoldSet, P!Max, iter, Top
<1> HIDE DEF iter
<1>7. iter[1 .. 0] = 0
  <2>1. 1 .. 0 = {} /\ {} \in SUBSET (1 .. n)
    OBVIOUS
  <2> QED
    BY <1>5, <2>1
<1>8. ASSUME NEW k \in 1 .. n PROVE iter[1 .. k] = iter[1 .. k - 1] + numbers[k]
  <2>1. /\ 1 .. k # {} /\ Top(1 .. k) = k /\ (1 .. k) \ {k} = 1 .. k - 1
        /\ 1 .. k \in SUBSET (1 .. n)
    BY TopOfPrefixes
  <2> QED
    BY <1>5, <2>1, Zenon
<1>9. \A k \in 0 .. n : iter[1 .. k] \in Nat
  <2> DEFINE so == {k \in 0 .. n : iter[1 .. k] \in Nat}
  <2>1. 0 \in so
    BY <1>7
  <2>2. ASSUME NEW k \in 1 .. n, k - 1 \in so PROVE k \in so
    <3>1. iter[1 .. k - 1] \in Nat /\ numbers[k] \in Nat /\ k \in 0 .. n
      BY <2>2
    <3> QED
      BY <1>8, <3>1
  <2>3. \A k \in 0 .. n : k \in so
    <3> HIDE DEF so
    <3> QED
      BY <2>1, <2>2, Upwards, Zenon
  <2> QED
    BY <2>3
<1>10. /\ g \in [0 .. n -> Nat] /\ g[0] = 0 /\ P!Total(numbers) = g[n]
       /\ \A k \in 1 .. n : g[k] = g[k - 1] + numbers[k]
  <2>1. 0 \in 0 .. n /\ n \in 0 .. n /\ \A k \in 1 .. n : k \in 0 .. n /\ k - 1 \in 0 .. n
    OBVIOUS
  <2> QED
    BY <1>1, <1>6, <1>7, <1>8, <1>9, <2>1
<1> HIDE DEF g
<1>11. PartialTotals(numbers, n, g)
  BY <1>10, Zenon DEF PartialTotals
<1> QED
  BY <1>11, Zenon

\* What is raw of a title is at most three times what is read of it.
LEMMA RawIsNoLonger ==
    ASSUME NEW chars, NEW text \in Seq(chars)
    PROVE  P!RawSize(text) \in Nat /\ P!RawSize(text) <= 3 * Len(text)
<1> DEFINE n == Len(text)
           numbers == [i \in DOMAIN text |-> P!Raw(text[i])]
<1>1. n \in Nat /\ DOMAIN text = 1 .. n
  OBVIOUS
<1> HIDE DEF n
<1>2. numbers \in [1 .. n -> Nat] /\ \A k \in 1 .. n : numbers[k] <= 3
  BY <1>1 DEF P!Raw
<1>3. P!RawSize(text) = P!Total(numbers)
  BY DEF P!RawSize
<1> HIDE DEF numbers
<1>4. PICK g : PartialTotals(numbers, n, g)
  BY <1>1, <1>2, TotalsAreReached
<1> DEFINE so == {k \in 0 .. n : g[k] <= 3 * k}
<1>5. 0 \in so
  BY <1>1, <1>4 DEF PartialTotals
<1>6. ASSUME NEW k \in 1 .. n, k - 1 \in so PROVE k \in so
  <2>1. g[k] = g[k - 1] + numbers[k] /\ g[k - 1] <= 3 * (k - 1) /\ numbers[k] <= 3
    BY <1>2, <1>4, <1>6 DEF PartialTotals
  <2>2. k \in 0 .. n /\ k - 1 \in 0 .. n /\ g[k] \in Nat /\ g[k - 1] \in Nat /\ numbers[k] \in Nat
    BY <1>1, <1>2, <1>4 DEF PartialTotals
  <2> DEFINE a == g[k]
             b == g[k - 1]
             c == numbers[k]
  <2>3. a = b + c /\ b <= 3 * (k - 1) /\ c <= 3 /\ a \in Nat /\ b \in Nat /\ c \in Nat /\ k \in Nat
    BY <1>1, <2>1, <2>2
  <2> HIDE DEF a, b, c
  <2>4. a <= 3 * k
    BY <2>3
  <2> QED
    BY <2>2, <2>4 DEF a
<1>7. \A k \in 0 .. n : k \in so
  <2> HIDE DEF so
  <2> QED
    BY <1>1, <1>5, <1>6, Upwards, Zenon
<1> QED
  BY <1>1, <1>3, <1>4, <1>7 DEF PartialTotals, n

\* What the parser hands over, the ceilings of a scan, and what it has
\* collected: an address or a tag is known by its id.
Sized(ids) == [is : {"meta", "canonical", "anchor", "asset"}, id : ids, size : Nat]
MarkupTokens(ids, chars) ==
    [is : {"title"}, graphic : BOOLEAN] \union [is : {"text"}, char : chars]
    \union [is : {"json"}, size : Nat] \union Sized(ids)
Letters(chars) == chars \union {"a piece of it"}
CeilingMarks == {"title", "metas", "content", "jsonLd", "links", "assets"}
Collected(ids, chars) ==
    [title : Seq(Letters(chars)), inside : BOOLEAN, titleEnded : BOOLEAN, metas : Seq(Sized(ids)),
     jsonLd : Seq(Nat), jsonLdBytes : Nat, canonical : SUBSET ids, links : Seq(ids),
     assets : Seq(ids), truncated : SUBSET CeilingMarks]
CeilingsOfAScan ==
    [titleRaw : Nat, text : Nat, metas : Nat, blocks : Nat, jsonLd : Nat, links : Nat, assets : Nat, url : Nat]

\* A token touches what it is for, and a ceiling once met stays marked.
Touches(s, e, t) ==
    /\ e.is \notin {"title", "text"} => t.title = s.title /\ t.inside = s.inside /\ t.titleEnded = s.titleEnded
    /\ e.is # "meta" => t.metas = s.metas
    /\ e.is # "json" => t.jsonLd = s.jsonLd /\ t.jsonLdBytes = s.jsonLdBytes
    /\ e.is # "anchor" => t.links = s.links
    /\ e.is # "asset" => t.assets = s.assets
    /\ s.truncated \subseteq t.truncated

\* What a mark leaves: everything, and itself.
OnlyMarks(s, bound, c) ==
    /\ c.title = s.title /\ c.inside = s.inside /\ c.titleEnded = s.titleEnded /\ c.metas = s.metas
    /\ c.jsonLd = s.jsonLd /\ c.jsonLdBytes = s.jsonLdBytes /\ c.links = s.links /\ c.assets = s.assets
    /\ bound \in c.truncated /\ s.truncated \subseteq c.truncated

LEMMA CutsAreMarked ==
    ASSUME NEW ids, NEW chars, NEW s \in Collected(ids, chars), NEW bound \in CeilingMarks
    PROVE  P!Cut(s, bound) \in Collected(ids, chars) /\ OnlyMarks(s, bound, P!Cut(s, bound))
<1> DEFINE c == P!Cut(s, bound)
<1>1. c = [s EXCEPT !.truncated = s.truncated \union {bound}]
  BY DEF P!Cut
<1> HIDE DEF c
<1>2. c \in Collected(ids, chars) /\ OnlyMarks(s, bound, c)
  BY <1>1, Zenon DEF Collected, OnlyMarks
<1> QED
  BY <1>2 DEF c

LEMMA MarksTouchNothing ==
    ASSUME NEW s, NEW bound, NEW c, OnlyMarks(s, bound, c), NEW before, NEW e, Touches(before, e, s)
    PROVE  Touches(before, e, c)
  BY DEF OnlyMarks, Touches

LEMMA TitlesAreCollected ==
    ASSUME NEW ids, NEW chars, NEW s \in Collected(ids, chars), NEW e \in MarkupTokens(ids, chars), NEW max \in CeilingsOfAScan,
           e.is \in {"title", "text"}
    PROVE  P!See(s, e, max) \in Collected(ids, chars) /\ Touches(s, e, P!See(s, e, max))
<1> DEFINE t == P!See(s, e, max)
<1> SUFFICES t \in Collected(ids, chars) /\ Touches(s, e, t)
  OBVIOUS
<1>1. s.title \in Seq(Letters(chars))
  BY DEF Collected
<1>2. CASE e.is = "title"
  <2>1. t = [s EXCEPT !.inside = s.title = <<>> /\ ~s.titleEnded /\ ~e.graphic]
    BY <1>2 DEF P!See
  <2>2. (s.title = <<>> /\ ~s.titleEnded /\ ~e.graphic) \in BOOLEAN
    OBVIOUS
  <2> QED
    BY <1>2, <2>1, <2>2, Zenon DEF Collected, Touches
<1>3. CASE e.is = "text"
  <2>1. t = P!SeeTitle(s, e.char, max)
    BY <1>3 DEF P!See
  <2>2. e.char \in Letters(chars)
    BY <1>3 DEF MarkupTokens, Sized, Letters
  <2>3. \A c \in Letters(chars) : Append(s.title, c) \in Seq(Letters(chars))
    BY <1>1
  <2>4. \/ t = s
        \/ \E title \in Seq(Letters(chars)), ended \in BOOLEAN : t = [s EXCEPT !.title = title, !.titleEnded = ended]
    <3>1. Append(s.title, e.char) \in Seq(Letters(chars)) /\ Append(s.title, "a piece of it") \in Seq(Letters(chars))
      <4>1. "a piece of it" \in Letters(chars)
        BY DEF Letters
      <4> QED
        BY <2>2, <2>3, <4>1
    <3> DEFINE room == max.titleRaw - P!RawSize(s.title)
    <3>2. \/ t = s \/ t = [s EXCEPT !.title = Append(s.title, e.char)]
          \/ t = [s EXCEPT !.title = IF room > 0 THEN Append(s.title, "a piece of it") ELSE s.title, !.titleEnded = TRUE]
      BY <2>1 DEF P!SeeTitle
    <3>3. [s EXCEPT !.title = Append(s.title, e.char)] = [s EXCEPT !.title = Append(s.title, e.char), !.titleEnded = s.titleEnded]
      BY Zenon DEF Collected
    <3>4. s.titleEnded \in BOOLEAN
      BY DEF Collected
    <3> HIDE DEF room
    <3>5. (IF room > 0 THEN Append(s.title, "a piece of it") ELSE s.title) \in Seq(Letters(chars))
      BY <1>1, <3>1
    <3> QED
      BY <3>1, <3>2, <3>3, <3>4, <3>5, Zenon
  <2> HIDE DEF t
  <2>5. CASE t = s
    BY <2>5 DEF Touches
  <2>6. CASE \E title \in Seq(Letters(chars)), ended \in BOOLEAN : t = [s EXCEPT !.title = title, !.titleEnded = ended]
    BY <1>3, <2>6, Zenon DEF Collected, Touches
  <2> QED
    BY <2>4, <2>5, <2>6 DEF t
<1> QED
  BY <1>2, <1>3

\* A meta tag, as it is kept, and what it is kept as by a scan of larger
\* ceilings.
Capped(e, max) == [e EXCEPT !.size = IF e.size > max.text THEN max.text ELSE e.size]

MetaKept(s, e, max, t) ==
    /\ Touches(s, e, t)
    /\ Len(s.metas) >= max.metas => t.metas = s.metas /\ "metas" \in t.truncated
    /\ ~(Len(s.metas) >= max.metas) =>
         /\ t.metas = Append(s.metas, Capped(e, max))
         /\ e.size > max.text => "content" \in t.truncated
         /\ ~(e.size > max.text) => t.truncated = s.truncated
    /\ ~(e.size > max.text) => Capped(e, max) = e

LEMMA MetasAreCollected ==
    ASSUME NEW ids, NEW chars, NEW s \in Collected(ids, chars), NEW e \in MarkupTokens(ids, chars),
           NEW max \in CeilingsOfAScan, e.is = "meta"
    PROVE  /\ P!See(s, e, max) \in Collected(ids, chars) /\ Capped(e, max) \in Sized(ids)
           /\ MetaKept(s, e, max, P!See(s, e, max))
<1> DEFINE t == P!See(s, e, max)
           r == [s EXCEPT !.metas = Append(s.metas, Capped(e, max))]
<1>1. t = IF Len(s.metas) >= max.metas THEN P!Cut(s, "metas") ELSE IF e.size > max.text THEN P!Cut(r, "content") ELSE r
  BY DEF P!See, P!SeeMeta, Capped
<1>2. e \in Sized(ids)
  BY DEF MarkupTokens
<1>3. Capped(e, max) \in Sized(ids) /\ (~(e.size > max.text) => Capped(e, max) = e)
  BY <1>2 DEF Sized, Capped, CeilingsOfAScan
<1>4. r \in Collected(ids, chars) /\ r.metas = Append(s.metas, Capped(e, max)) /\ r.truncated = s.truncated /\ Touches(s, e, r)
  <2>1. s.metas \in Seq(Sized(ids))
    BY DEF Collected
  <2> DEFINE more == Append(s.metas, Capped(e, max))
  <2>2. more \in Seq(Sized(ids))
    BY <1>3, <2>1, Appended
  <2> HIDE DEF more
  <2>3. [s EXCEPT !.metas = more] \in Collected(ids, chars) /\ Touches(s, e, [s EXCEPT !.metas = more])
    BY <2>2, Zenon DEF Collected, Touches
  <2>4. [s EXCEPT !.metas = more].metas = more /\ [s EXCEPT !.metas = more].truncated = s.truncated
    BY DEF Collected
  <2> QED
    BY <2>3, <2>4 DEF more
<1> HIDE DEF t, r
<1>5. /\ P!Cut(s, "metas") \in Collected(ids, chars) /\ Touches(s, e, P!Cut(s, "metas"))
      /\ P!Cut(s, "metas").metas = s.metas /\ "metas" \in P!Cut(s, "metas").truncated
  <2>1. "metas" \in CeilingMarks /\ Touches(s, e, s)
    BY DEF CeilingMarks, Touches
  <2>2. P!Cut(s, "metas") \in Collected(ids, chars) /\ OnlyMarks(s, "metas", P!Cut(s, "metas"))
    BY <2>1, CutsAreMarked, Zenon
  <2>3. Touches(s, e, P!Cut(s, "metas"))
    BY <2>1, <2>2, MarksTouchNothing, Zenon
  <2> QED
    BY <2>2, <2>3, Zenon DEF OnlyMarks
<1>6. /\ P!Cut(r, "content") \in Collected(ids, chars) /\ Touches(s, e, P!Cut(r, "content"))
      /\ P!Cut(r, "content").metas = r.metas /\ "content" \in P!Cut(r, "content").truncated
  <2>1. "content" \in CeilingMarks
    BY DEF CeilingMarks
  <2>2. P!Cut(r, "content") \in Collected(ids, chars) /\ OnlyMarks(r, "content", P!Cut(r, "content"))
    BY <1>4, <2>1, CutsAreMarked, Zenon
  <2>3. Touches(s, e, P!Cut(r, "content"))
    BY <1>4, <2>2, MarksTouchNothing, Zenon
  <2> QED
    BY <2>2, <2>3, Zenon DEF OnlyMarks
<1> SUFFICES t \in Collected(ids, chars) /\ MetaKept(s, e, max, t)
  BY <1>3 DEF t
<1>7. CASE Len(s.metas) >= max.metas
  BY <1>1, <1>3, <1>5, <1>6, <1>7 DEF MetaKept
<1>8. CASE ~(Len(s.metas) >= max.metas)
  BY <1>1, <1>3, <1>4, <1>5, <1>6, <1>8 DEF MetaKept
<1> QED
  BY <1>7, <1>8

\* A block of structured data: kept whole unless a ceiling is marked.
Blocked(s, e, t) ==
    IF e.size = 0 THEN t = s ELSE t.jsonLd = Append(s.jsonLd, e.size) /\ t.jsonLdBytes = s.jsonLdBytes + e.size
BlockKept(s, e, max, t) ==
    /\ Touches(s, e, t) /\ t.jsonLdBytes <= max.jsonLd
    /\ "jsonLd" \in t.truncated \/ Blocked(s, e, t)
    /\ Len(s.jsonLd) < max.blocks /\ s.jsonLdBytes + e.size <= max.jsonLd =>
         Blocked(s, e, t) /\ t.truncated = s.truncated

LEMMA BlocksAreCollected ==
    ASSUME NEW ids, NEW chars, NEW s \in Collected(ids, chars), NEW e \in MarkupTokens(ids, chars),
           NEW max \in CeilingsOfAScan, e.is = "json", s.jsonLdBytes <= max.jsonLd
    PROVE  P!See(s, e, max) \in Collected(ids, chars) /\ BlockKept(s, e, max, P!See(s, e, max))
<1> DEFINE t == P!See(s, e, max)
           cut == e.size > max.jsonLd
           held == IF cut THEN max.jsonLd ELSE e.size
           r == IF cut THEN P!Cut(s, "jsonLd") ELSE s
           grown == [r EXCEPT !.jsonLd = Append(r.jsonLd, held), !.jsonLdBytes = r.jsonLdBytes + held]
           over == Len(s.jsonLd) >= max.blocks \/ s.jsonLdBytes + held > max.jsonLd
<1>1. t = IF held = 0 THEN r ELSE IF over THEN P!Cut(r, "jsonLd") ELSE grown
  BY DEF P!See, P!SeeJsonLd
<1>2. /\ e.size \in Nat /\ max.jsonLd \in Nat /\ max.blocks \in Nat /\ s.jsonLdBytes \in Nat
      /\ s.jsonLd \in Seq(Nat) /\ Len(s.jsonLd) \in Nat
  BY SMTT(30) DEF MarkupTokens, Sized, CeilingsOfAScan, Collected
<1>3. held \in Nat
  BY <1>2
<1>4. "jsonLd" \in CeilingMarks /\ Touches(s, e, s)
  BY DEF CeilingMarks, Touches
<1>5. /\ r \in Collected(ids, chars) /\ Touches(s, e, r) /\ r.jsonLd = s.jsonLd /\ r.jsonLdBytes = s.jsonLdBytes
      /\ cut => "jsonLd" \in r.truncated
      /\ ~cut => r = s
  <2>1. P!Cut(s, "jsonLd") \in Collected(ids, chars) /\ OnlyMarks(s, "jsonLd", P!Cut(s, "jsonLd"))
    BY <1>4, CutsAreMarked, Zenon
  <2>2. Touches(s, e, P!Cut(s, "jsonLd"))
    BY <1>4, <2>1, MarksTouchNothing, Zenon
  <2> HIDE DEF cut
  <2>3. CASE cut
    <3>1. r = P!Cut(s, "jsonLd")
      BY <2>3, Zenon
    <3> HIDE DEF r
    <3> QED
      BY <2>1, <2>2, <2>3, <3>1, Zenon DEF OnlyMarks
  <2>4. CASE ~cut
    BY <1>4, <2>4, Zenon
  <2> QED
    BY <2>3, <2>4, Zenon
<1>6. ~cut => held = e.size
  OBVIOUS
<1> SUFFICES t \in Collected(ids, chars) /\ BlockKept(s, e, max, t)
  OBVIOUS
<1>7. cut <=> e.size > max.jsonLd
  OBVIOUS
<1>8. over <=> (Len(s.jsonLd) >= max.blocks \/ s.jsonLdBytes + held > max.jsonLd)
  OBVIOUS
<1> HIDE DEF t, r, held, cut
<1>9. CASE held = 0
  <2>1. t = r
    BY <1>1, <1>9, Zenon
  <2>2. CASE cut
    <3>1. ~(s.jsonLdBytes + e.size <= max.jsonLd)
      BY <1>2, <1>7, <2>2
    <3>2. s.jsonLdBytes <= max.jsonLd
      OBVIOUS
    <3> QED
      BY <1>5, <2>1, <2>2, <3>1, <3>2 DEF BlockKept, Blocked
  <2>3. CASE ~cut
    BY <1>5, <1>6, <1>9, <2>1, <2>3 DEF BlockKept, Blocked
  <2> QED
    BY <2>2, <2>3
<1>10. CASE held # 0 /\ over
  <2>1. t = P!Cut(r, "jsonLd")
    BY <1>1, <1>10, Zenon
  <2>2. /\ t \in Collected(ids, chars) /\ Touches(s, e, t) /\ t.jsonLdBytes = r.jsonLdBytes /\ "jsonLd" \in t.truncated
    <3>1. P!Cut(r, "jsonLd") \in Collected(ids, chars) /\ OnlyMarks(r, "jsonLd", P!Cut(r, "jsonLd"))
      BY <1>4, <1>5, CutsAreMarked, Zenon
    <3>2. Touches(s, e, P!Cut(r, "jsonLd"))
      BY <1>5, <3>1, MarksTouchNothing, Zenon
    <3> QED
      BY <2>1, <3>1, <3>2, Zenon DEF OnlyMarks
  <2>3. ~(Len(s.jsonLd) < max.blocks /\ s.jsonLdBytes + e.size <= max.jsonLd)
    BY <1>2, <1>3, <1>6, <1>7, <1>8, <1>10
  <2> QED
    BY <1>5, <2>2, <2>3 DEF BlockKept, Blocked
<1>11. CASE held # 0 /\ ~over
  <2>1. t = grown
    BY <1>1, <1>11, Zenon
  <2>2. Append(r.jsonLd, held) \in Seq(Nat) /\ r.jsonLdBytes + held \in Nat
    BY <1>2, <1>3, <1>5
  <2> DEFINE more == Append(r.jsonLd, held)
             bytes == r.jsonLdBytes + held
  <2>3. t = [r EXCEPT !.jsonLd = more, !.jsonLdBytes = bytes]
    BY <2>1
  <2> HIDE DEF more, bytes
  <2>4. /\ t \in Collected(ids, chars) /\ t.jsonLd = more /\ t.jsonLdBytes = bytes /\ t.truncated = r.truncated
        /\ Touches(s, e, t)
    BY <1>5, <2>2, <2>3, Zenon DEF Collected, Touches, more, bytes
  <2>5. bytes <= max.jsonLd
    BY <1>2, <1>3, <1>5, <1>8, <1>11 DEF bytes
  <2>6. CASE cut
    <3>1. ~(s.jsonLdBytes + e.size <= max.jsonLd)
      BY <1>2, <1>7, <2>6
    <3> QED
      BY <1>5, <2>4, <2>5, <2>6, <3>1 DEF BlockKept, Blocked
  <2>7. CASE ~cut
    <3>1. more = Append(s.jsonLd, e.size) /\ bytes = s.jsonLdBytes + e.size /\ r = s
      BY <1>5, <1>6, <2>7 DEF more, bytes
    <3>2. e.size # 0
      BY <1>6, <1>11, <2>7
    <3>3. Blocked(s, e, t)
      BY <2>4, <3>1, <3>2, Zenon DEF Blocked
    <3> QED
      BY <2>4, <2>5, <3>1, <3>3, Zenon DEF BlockKept
  <2> QED
    BY <2>6, <2>7
<1> QED
  BY <1>9, <1>10, <1>11

\* Links and files: too long or too many is marked, else the address is kept.
LinkKept(s, e, max, t) ==
    /\ Touches(s, e, t)
    /\ e.size > max.url \/ Len(s.links) >= max.links => t.links = s.links /\ "links" \in t.truncated
    /\ ~(e.size > max.url \/ Len(s.links) >= max.links) =>
         t.links = Append(s.links, e.id) /\ t.truncated = s.truncated

LEMMA LinksAreCollected ==
    ASSUME NEW ids, NEW chars, NEW s \in Collected(ids, chars), NEW e \in MarkupTokens(ids, chars),
           NEW max \in CeilingsOfAScan, e.is = "anchor"
    PROVE  P!See(s, e, max) \in Collected(ids, chars) /\ LinkKept(s, e, max, P!See(s, e, max))
<1> DEFINE t == P!See(s, e, max)
           more == Append(s.links, e.id)
<1>1. t = IF e.size > max.url \/ Len(s.links) >= max.links THEN P!Cut(s, "links") ELSE [s EXCEPT !.links = more]
  BY DEF P!See, P!SeeAnchor
<1>2. "links" \in CeilingMarks /\ Touches(s, e, s)
  BY DEF CeilingMarks, Touches
<1>3. /\ P!Cut(s, "links") \in Collected(ids, chars) /\ Touches(s, e, P!Cut(s, "links"))
      /\ P!Cut(s, "links").links = s.links /\ "links" \in P!Cut(s, "links").truncated
  <2>1. P!Cut(s, "links") \in Collected(ids, chars) /\ OnlyMarks(s, "links", P!Cut(s, "links"))
    BY <1>2, CutsAreMarked, Zenon
  <2>2. Touches(s, e, P!Cut(s, "links"))
    BY <1>2, <2>1, MarksTouchNothing, Zenon
  <2> QED
    BY <2>1, <2>2, Zenon DEF OnlyMarks
<1>4. more \in Seq(ids)
  BY DEF MarkupTokens, Sized, Collected
<1> DEFINE u == [s EXCEPT !.links = more]
<1> HIDE DEF more
<1>5. u \in Collected(ids, chars) /\ Touches(s, e, u) /\ u.links = more /\ u.truncated = s.truncated
  BY <1>4, Zenon DEF Collected, Touches
<1> HIDE DEF u
<1> QED
  BY <1>1, <1>3, <1>5 DEF more, u, LinkKept

FileKept(s, e, max, t) ==
    /\ Touches(s, e, t)
    /\ e.size > max.url \/ Len(s.assets) >= max.assets => t.assets = s.assets /\ "assets" \in t.truncated
    /\ ~(e.size > max.url \/ Len(s.assets) >= max.assets) =>
         t.assets = Append(s.assets, e.id) /\ t.truncated = s.truncated

LEMMA FilesAreCollected ==
    ASSUME NEW ids, NEW chars, NEW s \in Collected(ids, chars), NEW e \in MarkupTokens(ids, chars),
           NEW max \in CeilingsOfAScan, e.is = "asset"
    PROVE  P!See(s, e, max) \in Collected(ids, chars) /\ FileKept(s, e, max, P!See(s, e, max))
<1> DEFINE t == P!See(s, e, max)
           more == Append(s.assets, e.id)
<1>1. t = IF e.size > max.url \/ Len(s.assets) >= max.assets THEN P!Cut(s, "assets") ELSE [s EXCEPT !.assets = more]
  BY DEF P!See, P!SeeAsset
<1>2. "assets" \in CeilingMarks /\ Touches(s, e, s)
  BY DEF CeilingMarks, Touches
<1>3. /\ P!Cut(s, "assets") \in Collected(ids, chars) /\ Touches(s, e, P!Cut(s, "assets"))
      /\ P!Cut(s, "assets").assets = s.assets /\ "assets" \in P!Cut(s, "assets").truncated
  <2>1. P!Cut(s, "assets") \in Collected(ids, chars) /\ OnlyMarks(s, "assets", P!Cut(s, "assets"))
    BY <1>2, CutsAreMarked, Zenon
  <2>2. Touches(s, e, P!Cut(s, "assets"))
    BY <1>2, <2>1, MarksTouchNothing, Zenon
  <2> QED
    BY <2>1, <2>2, Zenon DEF OnlyMarks
<1>4. more \in Seq(ids)
  BY DEF MarkupTokens, Sized, Collected
<1> DEFINE u == [s EXCEPT !.assets = more]
<1> HIDE DEF more
<1>5. u \in Collected(ids, chars) /\ Touches(s, e, u) /\ u.assets = more /\ u.truncated = s.truncated
  BY <1>4, Zenon DEF Collected, Touches
<1> HIDE DEF u
<1> QED
  BY <1>1, <1>3, <1>5 DEF more, u, FileKept

LEMMA CanonicalsAreCollected ==
    ASSUME NEW ids, NEW chars, NEW s \in Collected(ids, chars), NEW e \in MarkupTokens(ids, chars),
           NEW max \in CeilingsOfAScan, e.is = "canonical"
    PROVE  /\ P!See(s, e, max) \in Collected(ids, chars) /\ Touches(s, e, P!See(s, e, max))
           /\ P!See(s, e, max).truncated = s.truncated
<1> DEFINE t == P!See(s, e, max)
<1> SUFFICES t \in Collected(ids, chars) /\ Touches(s, e, t) /\ t.truncated = s.truncated
  OBVIOUS
<1>1. t = s \/ t = [s EXCEPT !.canonical = {e.id}]
  BY DEF P!See, P!SeeCanonical
<1>2. {e.id} \in SUBSET ids
  BY DEF MarkupTokens, Sized
<1> HIDE DEF t
<1>3. t \in Collected(ids, chars)
  BY <1>1, <1>2 DEF Collected
<1>4. t.truncated = s.truncated
  BY <1>1 DEF Collected
<1>5. Touches(s, e, t)
  BY <1>1, <1>4 DEF Collected, Touches
<1> QED
  BY <1>3, <1>4, <1>5

\* A scan under ceilings, and one of the same tokens that meets none: what
\* they differ in is marked.
Alike(s, f) ==
    /\ s.titleEnded \/ (s.title = f.title /\ s.inside = f.inside)
    /\ {"metas", "content"} \intersect s.truncated # {} \/ s.metas = f.metas
    /\ "jsonLd" \in s.truncated \/ (s.jsonLd = f.jsonLd /\ s.jsonLdBytes = f.jsonLdBytes)
    /\ "links" \in s.truncated \/ s.links = f.links
    /\ "assets" \in s.truncated \/ s.assets = f.assets
InBounds(s, max) ==
    /\ Len(s.metas) <= max.metas /\ s.jsonLdBytes <= max.jsonLd
    /\ Len(s.links) <= max.links /\ Len(s.assets) <= max.assets
Uncut(f, total) ==
    /\ f.truncated = {} /\ ~f.titleEnded
    /\ 3 * Len(f.title) <= total /\ Len(f.metas) <= total /\ Len(f.jsonLd) <= total /\ f.jsonLdBytes <= total
    /\ Len(f.links) <= total /\ Len(f.assets) <= total
Every(n) == [titleRaw |-> n, text |-> n, metas |-> n, blocks |-> n, jsonLd |-> n,
             links |-> n, assets |-> n, url |-> n]

LEMMA ATokenIsMeasured ==
    ASSUME NEW ids, NEW chars, NEW e \in MarkupTokens(ids, chars)
    PROVE  /\ P!Written(e) \in Nat /\ P!Written(e) >= 3
           /\ e.is \in {"title", "text", "meta", "json", "anchor", "asset", "canonical"}
           /\ e.is \notin {"title", "text"} => e.size \in Nat /\ P!Written(e) = 3 + e.size
  BY DEF MarkupTokens, Sized, P!Written

\* What a token adds where no ceiling is met.
Gathers(f, e, u) ==
    /\ Touches(f, e, u)
    /\ e.is = "title" => u.title = f.title /\ u.inside = (f.title = <<>> /\ ~e.graphic)
    /\ e.is = "text" => u.title = (IF f.inside THEN Append(f.title, e.char) ELSE f.title) /\ u.inside = f.inside
    /\ e.is = "meta" => u.metas = Append(f.metas, e)
    /\ e.is = "json" => Blocked(f, e, u)
    /\ e.is = "anchor" => u.links = Append(f.links, e.id)
    /\ e.is = "asset" => u.assets = Append(f.assets, e.id)

\* A scan that meets no ceiling gathers everything, and goes on meeting none.
LEMMA UncutStaysUncut ==
    ASSUME NEW ids, NEW chars, NEW f \in Collected(ids, chars), NEW e \in MarkupTokens(ids, chars),
           NEW n \in Nat, NEW total \in Nat, total + P!Written(e) <= n, Uncut(f, total)
    PROVE  /\ P!See(f, e, Every(n)) \in Collected(ids, chars)
           /\ Uncut(P!See(f, e, Every(n)), total + P!Written(e))
           /\ Gathers(f, e, P!See(f, e, Every(n)))
<1> DEFINE t == P!See(f, e, Every(n))
           more == total + P!Written(e)
           max == Every(n)
<1>1. max \in CeilingsOfAScan /\ max.titleRaw = n /\ max.text = n /\ max.metas = n /\ max.blocks = n /\ max.jsonLd = n
      /\ max.links = n /\ max.assets = n /\ max.url = n
  BY DEF Every, CeilingsOfAScan
<1>2. /\ more \in Nat /\ more >= total + 3 /\ more <= n
      /\ e.is \notin {"title", "text"} => e.size \in Nat /\ total + e.size + 3 = more
  BY ATokenIsMeasured
<1>3. /\ f.title \in Seq(Letters(chars)) /\ f.metas \in Seq(Sized(ids)) /\ f.jsonLd \in Seq(Nat) /\ f.links \in Seq(ids)
      /\ f.assets \in Seq(ids) /\ f.jsonLdBytes \in Nat
  BY DEF Collected
<1>4. /\ Len(f.title) \in Nat /\ Len(f.metas) \in Nat /\ Len(f.jsonLd) \in Nat /\ Len(f.links) \in Nat
      /\ Len(f.assets) \in Nat
  BY <1>3, ListFacts
<1> HIDE DEF max, more, t
<1> SUFFICES t \in Collected(ids, chars) /\ Uncut(t, more) /\ Gathers(f, e, t)
  BY DEF t, more
<1>5. ASSUME Touches(f, e, t), t.truncated = f.truncated, e.is \notin {"title", "text"},
             e.is = "meta" => Len(t.metas) <= more,
             e.is = "json" => Len(t.jsonLd) <= more /\ t.jsonLdBytes <= more,
             e.is = "anchor" => Len(t.links) <= more,
             e.is = "asset" => Len(t.assets) <= more
      PROVE  Uncut(t, more)
  <2>1. total <= more /\ 3 * Len(f.title) <= more
    BY <1>2, <1>4, SMTT(30) DEF Uncut
  <2>2. /\ t.truncated = {} /\ ~t.titleEnded /\ t.title = f.title
        /\ e.is # "meta" => t.metas = f.metas
        /\ e.is # "json" => t.jsonLd = f.jsonLd /\ t.jsonLdBytes = f.jsonLdBytes
        /\ e.is # "anchor" => t.links = f.links
        /\ e.is # "asset" => t.assets = f.assets
    BY <1>5, Zenon DEF Uncut, Touches
  <2>3. /\ Len(f.metas) <= more /\ Len(f.jsonLd) <= more /\ f.jsonLdBytes <= more
        /\ Len(f.links) <= more /\ Len(f.assets) <= more
    BY <1>2, <1>3, <1>4, SMTT(30) DEF Uncut
  <2>4. Len(t.metas) <= more
    BY <1>5, <2>2, <2>3
  <2>5. Len(t.jsonLd) <= more /\ t.jsonLdBytes <= more
    BY <1>5, <2>2, <2>3
  <2>6. Len(t.links) <= more
    BY <1>5, <2>2, <2>3
  <2>7. Len(t.assets) <= more
    BY <1>5, <2>2, <2>3
  <2>8. 3 * Len(t.title) <= more
    BY <2>1, <2>2
  <2> QED
    BY <2>2, <2>4, <2>5, <2>6, <2>7, <2>8, Zenon DEF Uncut
<1>6. CASE e.is \in {"title", "text"}
  <2>1. t \in Collected(ids, chars) /\ Touches(f, e, t)
    BY <1>1, <1>6, TitlesAreCollected DEF t, max
  <2>2. t.truncated = f.truncated /\ t.metas = f.metas /\ t.jsonLd = f.jsonLd /\ t.jsonLdBytes = f.jsonLdBytes
        /\ t.links = f.links /\ t.assets = f.assets
    BY <1>6 DEF t, P!See, P!SeeTitle, Collected
  <2>3. CASE e.is = "title"
    <3>1. t.title = f.title /\ t.titleEnded = f.titleEnded /\ t.inside = (f.title = <<>> /\ ~f.titleEnded /\ ~e.graphic)
      BY <2>3, Zenon DEF t, P!See, Collected
    <3>2. Gathers(f, e, t)
      BY <2>1, <2>3, <3>1 DEF Gathers, Uncut
    <3>3. Uncut(t, more)
      BY <1>2, <1>3, <1>4, <2>2, <3>1, SMTT(30) DEF Uncut
    <3> QED
      BY <2>1, <3>2, <3>3
  <2>4. CASE e.is = "text"
    <3> DEFINE raw == P!RawSize(f.title)
    <3>1. raw \in Nat /\ raw <= 3 * Len(f.title)
      BY <1>3, RawIsNoLonger, Zenon
    <3>2. P!Raw(e.char) <= 3 /\ P!Raw(e.char) \in Nat
      BY DEF P!Raw
    <3> DEFINE l == Len(f.title)
               c == P!Raw(e.char)
    <3> HIDE DEF raw, l, c
    <3>3. 3 * l <= total /\ raw <= 3 * l /\ l \in Nat /\ c \in Nat /\ c <= 3
      BY <1>4, <3>1, <3>2 DEF Uncut, l, c
    <3>4. c <= n - raw
      BY <1>2, <3>1, <3>3
    <3>5. t = IF ~f.inside THEN f ELSE [f EXCEPT !.title = Append(f.title, e.char)]
      BY <1>1, <2>4, <3>4 DEF t, P!See, P!SeeTitle, max, raw, c, Uncut
    <3>6. /\ t.titleEnded = f.titleEnded /\ t.inside = f.inside
          /\ t.title = IF f.inside THEN Append(f.title, e.char) ELSE f.title
      BY <3>5 DEF Collected
    <3>7. e.char \in Letters(chars)
      BY <2>4 DEF MarkupTokens, Sized, Letters
    <3>8. Len(Append(f.title, e.char)) = l + 1
      BY <1>3, <3>7, Appended DEF l
    <3>9. Len(t.title) = l \/ Len(t.title) = l + 1
      BY <3>6, <3>8 DEF l
    <3>10. 3 * Len(t.title) <= more
      BY <1>2, <3>3, <3>9
    <3>11. Gathers(f, e, t)
      BY <2>1, <2>4, <3>6 DEF Gathers
    <3>12. /\ Len(f.metas) <= more /\ Len(f.jsonLd) <= more /\ f.jsonLdBytes <= more
           /\ Len(f.links) <= more /\ Len(f.assets) <= more
      BY <1>2, <1>3, <1>4 DEF Uncut
    <3>13. t.truncated = {} /\ ~t.titleEnded
      BY <2>2, <3>6 DEF Uncut
    <3>14. /\ Len(t.metas) <= more /\ Len(t.jsonLd) <= more /\ t.jsonLdBytes <= more
           /\ Len(t.links) <= more /\ Len(t.assets) <= more
      BY <2>2, <3>12
    <3> QED
      BY <2>1, <3>10, <3>11, <3>13, <3>14, Zenon DEF Uncut
  <2> QED
    BY <1>6, <2>3, <2>4
<1>7. CASE e.is = "meta"
  <2>0. t \in Collected(ids, chars) /\ Capped(e, max) \in Sized(ids) /\ MetaKept(f, e, max, t)
    BY <1>1, <1>7, MetasAreCollected, Zenon DEF t, max
  <2>2. ~(Len(f.metas) >= max.metas) /\ ~(e.size > max.text)
    BY <1>1, <1>2, <1>4, <1>7, SMTT(30) DEF Uncut
  <2>1. /\ t \in Collected(ids, chars) /\ Touches(f, e, t) /\ t.metas = Append(f.metas, Capped(e, max))
        /\ t.truncated = f.truncated /\ Capped(e, max) \in Sized(ids) /\ Capped(e, max) = e
    BY <2>0, <2>2, Zenon DEF MetaKept
  <2>3. Len(t.metas) = Len(f.metas) + 1
    BY <1>3, <2>1, <2>2, Appended
  <2>4. Len(t.metas) <= more
    BY <1>2, <1>4, <2>3 DEF Uncut
  <2>20. Gathers(f, e, t)
    BY <1>7, <2>1 DEF Gathers
  <2> QED
    BY <1>5, <1>7, <2>1, <2>2, <2>4, <2>20
<1>8. CASE e.is = "json"
  <2>1. f.jsonLdBytes <= max.jsonLd
    BY <1>1, <1>2, <1>3 DEF Uncut
  <2>2. t \in Collected(ids, chars) /\ BlockKept(f, e, max, t)
    BY <1>1, <1>8, <2>1, BlocksAreCollected, Zenon DEF t, max
  <2>3. Len(f.jsonLd) < max.blocks /\ f.jsonLdBytes + e.size <= max.jsonLd
    BY <1>1, <1>2, <1>3, <1>4, <1>8, SMTT(30) DEF Uncut
  <2>4. e.size \in Nat
    BY <1>2, <1>8
  <2>5. Len(Append(f.jsonLd, e.size)) = Len(f.jsonLd) + 1
    BY <1>3, <2>4, Appended
  <2>12. Blocked(f, e, t) /\ t.truncated = f.truncated /\ Touches(f, e, t)
    BY <2>2, <2>3, Zenon DEF BlockKept
  <2>6. t = f \/ (t.jsonLd = Append(f.jsonLd, e.size) /\ t.jsonLdBytes = f.jsonLdBytes + e.size)
    BY <2>12, Zenon DEF Blocked
  <2>7. \/ Len(t.jsonLd) = Len(f.jsonLd) /\ t.jsonLdBytes = f.jsonLdBytes
        \/ Len(t.jsonLd) = Len(f.jsonLd) + 1 /\ t.jsonLdBytes = f.jsonLdBytes + e.size
    BY <2>5, <2>6
  <2> DEFINE l == Len(f.jsonLd)
             b == f.jsonLdBytes
             z == e.size
  <2>10. l \in Nat /\ b \in Nat /\ z \in Nat /\ l <= total /\ b <= total /\ total + z + 3 = more
    BY <1>2, <1>3, <1>4, <1>8 DEF Uncut
  <2> HIDE DEF l, b, z
  <2>11. l <= more /\ l + 1 <= more /\ b <= more /\ b + z <= more
    BY <1>2, <2>10
  <2>8. Len(t.jsonLd) <= more /\ t.jsonLdBytes <= more
    BY <2>7, <2>11 DEF l, b, z
  <2>9. t.truncated = f.truncated /\ Touches(f, e, t)
    BY <2>12, Zenon
  <2>20. Gathers(f, e, t)
    BY <1>8, <2>12, Zenon DEF Gathers
  <2> QED
    BY <1>5, <1>8, <2>2, <2>8, <2>9, <2>20
<1>9. CASE e.is = "anchor"
  <2>1. ~(e.size > max.url \/ Len(f.links) >= max.links)
    BY <1>1, <1>2, <1>4, <1>9, SMTT(30) DEF Uncut
  <2>2. t \in Collected(ids, chars) /\ Touches(f, e, t) /\ t.links = Append(f.links, e.id) /\ t.truncated = f.truncated
    <3>1. t \in Collected(ids, chars) /\ LinkKept(f, e, max, t)
      BY <1>1, <1>9, LinksAreCollected, Zenon DEF t, max
    <3> QED
      BY <2>1, <3>1, Zenon DEF LinkKept
  <2>3. e.id \in ids
    BY <1>9 DEF MarkupTokens, Sized
  <2>4. Len(t.links) = Len(f.links) + 1
    BY <1>3, <2>2, <2>3, Appended
  <2>5. Len(t.links) <= more
    BY <1>2, <1>4, <2>4 DEF Uncut
  <2>20. Gathers(f, e, t)
    BY <1>9, <2>2 DEF Gathers
  <2> QED
    BY <1>5, <1>9, <2>2, <2>5, <2>20
<1>10. CASE e.is = "asset"
  <2>1. ~(e.size > max.url \/ Len(f.assets) >= max.assets)
    BY <1>1, <1>2, <1>4, <1>10, SMTT(30) DEF Uncut
  <2>2. t \in Collected(ids, chars) /\ Touches(f, e, t) /\ t.assets = Append(f.assets, e.id) /\ t.truncated = f.truncated
    <3>1. t \in Collected(ids, chars) /\ FileKept(f, e, max, t)
      BY <1>1, <1>10, FilesAreCollected, Zenon DEF t, max
    <3> QED
      BY <2>1, <3>1, Zenon DEF FileKept
  <2>3. e.id \in ids
    BY <1>10 DEF MarkupTokens, Sized
  <2>4. Len(t.assets) = Len(f.assets) + 1
    BY <1>3, <2>2, <2>3, Appended
  <2>5. Len(t.assets) <= more
    BY <1>2, <1>4, <2>4 DEF Uncut
  <2>20. Gathers(f, e, t)
    BY <1>10, <2>2 DEF Gathers
  <2> QED
    BY <1>5, <1>10, <2>2, <2>5, <2>20
<1>11. CASE e.is = "canonical"
  <2>1. t \in Collected(ids, chars) /\ Touches(f, e, t) /\ t.truncated = f.truncated
    BY <1>1, <1>11, CanonicalsAreCollected DEF t, max
  <2>20. Gathers(f, e, t)
    BY <1>11, <2>1 DEF Gathers
  <2> QED
    BY <1>5, <1>11, <2>1, <2>20
<1>12. e.is \in {"title", "text", "meta", "json", "anchor", "asset", "canonical"}
  BY ATokenIsMeasured
<1> QED
  BY <1>6, <1>7, <1>8, <1>9, <1>10, <1>11, <1>12

LEMMA AlikeStaysAlike ==
    ASSUME NEW ids, NEW chars, NEW s \in Collected(ids, chars), NEW f \in Collected(ids, chars),
           NEW e \in MarkupTokens(ids, chars), NEW max \in CeilingsOfAScan,
           NEW u, Gathers(f, e, u), ~f.titleEnded, Alike(s, f), InBounds(s, max)
    PROVE  /\ P!See(s, e, max) \in Collected(ids, chars)
           /\ Alike(P!See(s, e, max), u) /\ InBounds(P!See(s, e, max), max)
<1> DEFINE t == P!See(s, e, max)
<1>1. /\ s.title \in Seq(Letters(chars)) /\ s.metas \in Seq(Sized(ids)) /\ s.jsonLd \in Seq(Nat) /\ s.links \in Seq(ids)
      /\ s.assets \in Seq(ids) /\ s.jsonLdBytes \in Nat
      /\ Len(s.metas) \in Nat /\ Len(s.links) \in Nat /\ Len(s.assets) \in Nat
      /\ max.metas \in Nat /\ max.links \in Nat /\ max.assets \in Nat
  <2>1. /\ s.title \in Seq(Letters(chars)) /\ s.metas \in Seq(Sized(ids)) /\ s.jsonLd \in Seq(Nat) /\ s.links \in Seq(ids)
        /\ s.assets \in Seq(ids) /\ s.jsonLdBytes \in Nat
    BY DEF Collected
  <2> QED
    BY <2>1, ListFacts, Zenon DEF CeilingsOfAScan
<1> SUFFICES t \in Collected(ids, chars) /\ Alike(t, u) /\ InBounds(t, max)
  OBVIOUS
\* What is not touched stays as alike as it was.
<1>2. ASSUME Touches(s, e, t)
      PROVE  /\ e.is \notin {"title", "text"} => t.titleEnded \/ (t.title = u.title /\ t.inside = u.inside)
             /\ e.is # "meta" => {"metas", "content"} \intersect t.truncated # {} \/ t.metas = u.metas
             /\ e.is # "json" => "jsonLd" \in t.truncated \/ (t.jsonLd = u.jsonLd /\ t.jsonLdBytes = u.jsonLdBytes)
             /\ e.is # "anchor" => "links" \in t.truncated \/ t.links = u.links
             /\ e.is # "asset" => "assets" \in t.truncated \/ t.assets = u.assets
  <2> HIDE DEF t
  <2> QED
    BY <1>2 DEF Alike, Gathers, Touches
<1>3. ASSUME Touches(s, e, t)
      PROVE  /\ e.is # "meta" => Len(t.metas) <= max.metas
             /\ e.is # "json" => t.jsonLdBytes <= max.jsonLd
             /\ e.is # "anchor" => Len(t.links) <= max.links
             /\ e.is # "asset" => Len(t.assets) <= max.assets
  <2> HIDE DEF t
  <2> QED
    BY <1>3 DEF InBounds, Touches
<1>4. CASE e.is \in {"title", "text"}
  <2>1. t \in Collected(ids, chars) /\ Touches(s, e, t)
    BY <1>4, TitlesAreCollected
  <2>2. t.titleEnded \/ (t.title = u.title /\ t.inside = u.inside)
    <3> SUFFICES ASSUME ~t.titleEnded PROVE t.title = u.title /\ t.inside = u.inside
      OBVIOUS
    <3>1. CASE e.is = "title"
      <4>1. t.title = s.title /\ t.titleEnded = s.titleEnded /\ t.inside = (s.title = <<>> /\ ~s.titleEnded /\ ~e.graphic)
        BY <3>1, Zenon DEF P!See, Collected
      <4> HIDE DEF t
      <4> QED
        BY <3>1, <4>1 DEF Alike, Gathers
    <3>2. CASE e.is = "text"
      <4>1. t = P!SeeTitle(s, e.char, max)
        BY <3>2 DEF P!See
      <4>2. CASE ~s.inside \/ s.titleEnded
        <5>1. t = s
          BY <4>1, <4>2 DEF P!SeeTitle
        <5> HIDE DEF t
        <5> QED
          BY <3>2, <4>2, <5>1 DEF Alike, Gathers
      <4>3. CASE s.inside /\ ~s.titleEnded
        <5> DEFINE room == max.titleRaw - P!RawSize(s.title)
        <5>1. t = [s EXCEPT !.title = Append(s.title, e.char)]
          <6> SUFFICES ASSUME ~(P!Raw(e.char) <= room) PROVE FALSE
            BY <4>1, <4>3 DEF P!SeeTitle
          <6>1. t = [s EXCEPT !.title = IF room > 0 THEN Append(s.title, "a piece of it") ELSE s.title, !.titleEnded = TRUE]
            BY <4>1, <4>3 DEF P!SeeTitle
          <6> HIDE DEF room, t
          <6>2. t.titleEnded
            BY <6>1 DEF Collected
          <6> QED
            BY <6>2
        <5>2. t.title = Append(s.title, e.char) /\ t.inside = s.inside
          BY <5>1 DEF Collected
        <5> HIDE DEF t
        <5> QED
          BY <3>2, <4>3, <5>2, Zenon DEF Alike, Gathers
      <4> QED
        BY <4>2, <4>3
    <3> QED
      BY <1>4, <3>1, <3>2
  <2> HIDE DEF t
  <2> QED
    BY <1>2, <1>3, <1>4, <2>1, <2>2 DEF Alike, InBounds
<1>5. CASE e.is = "meta"
  <2>1. t \in Collected(ids, chars) /\ Capped(e, max) \in Sized(ids) /\ MetaKept(s, e, max, t)
    BY <1>5, MetasAreCollected, Zenon
  <2> HIDE DEF t
  <2>2. u.metas = Append(f.metas, e) /\ Touches(s, e, t)
    BY <1>5, <2>1, Zenon DEF Gathers, MetaKept
  <2>3. {"metas", "content"} \intersect t.truncated # {} \/ t.metas = u.metas
    <3> SUFFICES ASSUME "metas" \notin t.truncated, "content" \notin t.truncated PROVE t.metas = u.metas
      OBVIOUS
    <3>1. t.metas = Append(s.metas, Capped(e, max)) /\ ~(e.size > max.text) /\ Capped(e, max) = e
      BY <2>1, Zenon DEF MetaKept
    <3>2. s.truncated \subseteq t.truncated
      BY <2>2 DEF Touches
    <3>3. s.metas = f.metas
      BY <3>2 DEF Alike
    <3> QED
      BY <2>2, <3>1, <3>3
  <2>4. Len(t.metas) <= max.metas
    <3>1. CASE Len(s.metas) >= max.metas
      BY <2>1, <3>1 DEF MetaKept, InBounds
    <3>2. CASE ~(Len(s.metas) >= max.metas)
      <4>1. Len(t.metas) = Len(s.metas) + 1
        BY <1>1, <2>1, <3>2, Appended DEF MetaKept
      <4> QED
        BY <1>1, <3>2, <4>1
    <3> QED
      BY <3>1, <3>2
  <2> QED
    BY <1>2, <1>3, <1>5, <2>1, <2>2, <2>3, <2>4 DEF Alike, InBounds
<1>6. CASE e.is = "json"
  <2>1. t \in Collected(ids, chars) /\ BlockKept(s, e, max, t)
    BY <1>6, BlocksAreCollected, Zenon DEF InBounds
  <2> HIDE DEF t
  <2>2. Touches(s, e, t) /\ t.jsonLdBytes <= max.jsonLd /\ s.truncated \subseteq t.truncated
    BY <2>1, Zenon DEF BlockKept, Touches
  <2>3. "jsonLd" \in t.truncated \/ (t.jsonLd = u.jsonLd /\ t.jsonLdBytes = u.jsonLdBytes)
    <3> SUFFICES ASSUME "jsonLd" \notin t.truncated PROVE t.jsonLd = u.jsonLd /\ t.jsonLdBytes = u.jsonLdBytes
      OBVIOUS
    <3>1. s.jsonLd = f.jsonLd /\ s.jsonLdBytes = f.jsonLdBytes
      BY <2>2 DEF Alike
    <3>2. Blocked(s, e, t)
      BY <2>1, Zenon DEF BlockKept
    <3>3. Blocked(f, e, u)
      BY <1>6, Zenon DEF Gathers
    <3> QED
      BY <3>1, <3>2, <3>3 DEF Blocked
  <2> QED
    BY <1>2, <1>3, <1>6, <2>1, <2>2, <2>3 DEF Alike, InBounds
<1>7. CASE e.is = "anchor"
  <2>1. t \in Collected(ids, chars) /\ LinkKept(s, e, max, t)
    BY <1>7, LinksAreCollected, Zenon
  <2> HIDE DEF t
  <2>2. u.links = Append(f.links, e.id) /\ Touches(s, e, t) /\ s.truncated \subseteq t.truncated
    BY <1>7, <2>1, Zenon DEF Gathers, LinkKept, Touches
  <2>3. "links" \in t.truncated \/ t.links = u.links
    BY <2>1, <2>2 DEF LinkKept, Alike
  <2>4. Len(t.links) <= max.links
    <3>1. e.id \in ids
      BY <1>7 DEF MarkupTokens, Sized
    <3>2. CASE t.links = s.links
      BY <3>2 DEF InBounds
    <3>3. CASE t.links = Append(s.links, e.id) /\ ~(Len(s.links) >= max.links)
      <4>1. Len(t.links) = Len(s.links) + 1
        BY <1>1, <3>1, <3>3, Appended
      <4> QED
        BY <1>1, <3>3, <4>1
    <3> QED
      BY <2>1, <3>2, <3>3 DEF LinkKept
  <2> QED
    BY <1>2, <1>3, <1>7, <2>1, <2>2, <2>3, <2>4 DEF Alike, InBounds
<1>8. CASE e.is = "asset"
  <2>1. t \in Collected(ids, chars) /\ FileKept(s, e, max, t)
    BY <1>8, FilesAreCollected, Zenon
  <2> HIDE DEF t
  <2>2. u.assets = Append(f.assets, e.id) /\ Touches(s, e, t) /\ s.truncated \subseteq t.truncated
    BY <1>8, <2>1, Zenon DEF Gathers, FileKept, Touches
  <2>3. "assets" \in t.truncated \/ t.assets = u.assets
    BY <2>1, <2>2 DEF FileKept, Alike
  <2>4. Len(t.assets) <= max.assets
    <3>1. e.id \in ids
      BY <1>8 DEF MarkupTokens, Sized
    <3>2. CASE t.assets = s.assets
      BY <3>2 DEF InBounds
    <3>3. CASE t.assets = Append(s.assets, e.id) /\ ~(Len(s.assets) >= max.assets)
      <4>1. Len(t.assets) = Len(s.assets) + 1
        BY <1>1, <3>1, <3>3, Appended
      <4> QED
        BY <1>1, <3>3, <4>1
    <3> QED
      BY <2>1, <3>2, <3>3 DEF FileKept
  <2> QED
    BY <1>2, <1>3, <1>8, <2>1, <2>2, <2>3, <2>4 DEF Alike, InBounds
<1>9. CASE e.is = "canonical"
  <2>1. t \in Collected(ids, chars) /\ Touches(s, e, t)
    BY <1>9, CanonicalsAreCollected
  <2> HIDE DEF t
  <2> QED
    BY <1>2, <1>3, <1>9, <2>1 DEF Alike, InBounds
<1>10. e.is \in {"title", "text", "meta", "json", "anchor", "asset", "canonical"}
  BY ATokenIsMeasured
<1> QED
  BY <1>4, <1>5, <1>6, <1>7, <1>8, <1>9, <1>10

\* A scan goes from token to token.
Payable(ids, chars, max) == {s \in Collected(ids, chars) : s.jsonLdBytes <= max.jsonLd}
ScansOff(ids, chars, doc, n, max, g) ==
    /\ g \in [0 .. n -> Payable(ids, chars, max)] /\ g[0] = P!Start
    /\ P!Scan(doc, max) = P!Finish(g[n], max)
    /\ \A k \in 1 .. n : g[k] = P!See(g[k - 1], doc[k], max)

LEMMA TokensAreCollected ==
    ASSUME NEW ids, NEW chars, NEW max \in CeilingsOfAScan, NEW s \in Payable(ids, chars, max),
           NEW e \in MarkupTokens(ids, chars)
    PROVE  P!See(s, e, max) \in Payable(ids, chars, max)
<1> DEFINE t == P!See(s, e, max)
<1>1. s \in Collected(ids, chars) /\ s.jsonLdBytes <= max.jsonLd
  BY DEF Payable
<1>2. e.is \in {"title", "text", "meta", "json", "anchor", "asset", "canonical"}
  BY ATokenIsMeasured
<1>3. CASE e.is = "json"
  <2>1. t \in Collected(ids, chars) /\ BlockKept(s, e, max, t)
    BY <1>1, <1>3, BlocksAreCollected, Zenon
  <2> QED
    BY <2>1, Zenon DEF BlockKept, Payable
<1>4. CASE e.is # "json"
  <2>1. t \in Collected(ids, chars) /\ Touches(s, e, t)
    <3>1. CASE e.is \in {"title", "text"}
      BY <1>1, <3>1, TitlesAreCollected, Zenon
    <3>2. CASE e.is = "meta"
      BY <1>1, <3>2, MetasAreCollected, Zenon DEF MetaKept
    <3>3. CASE e.is = "anchor"
      BY <1>1, <3>3, LinksAreCollected, Zenon DEF LinkKept
    <3>4. CASE e.is = "asset"
      BY <1>1, <3>4, FilesAreCollected, Zenon DEF FileKept
    <3>5. CASE e.is = "canonical"
      BY <1>1, <3>5, CanonicalsAreCollected, Zenon
    <3> HIDE DEF t
    <3> QED
      BY <1>2, <1>4, <3>1, <3>2, <3>3, <3>4, <3>5
  <2> HIDE DEF t
  <2>2. t.jsonLdBytes = s.jsonLdBytes
    BY <1>4, <2>1, Zenon DEF Touches
  <2> QED
    BY <1>1, <2>1, <2>2 DEF Payable, t
<1> QED
  BY <1>3, <1>4

LEMMA NothingIsCollectedAtFirst ==
    ASSUME NEW ids, NEW chars, NEW max \in CeilingsOfAScan
    PROVE  P!Start \in Payable(ids, chars, max)
<1>1. <<>> \in Seq(Letters(chars)) /\ <<>> \in Seq(Sized(ids)) /\ <<>> \in Seq(Nat) /\ <<>> \in Seq(ids)
  OBVIOUS
<1>2. P!Start \in Collected(ids, chars) /\ P!Start.jsonLdBytes = 0
  BY <1>1 DEF P!Start, Collected
<1>3. 0 <= max.jsonLd
  BY DEF CeilingsOfAScan
<1> QED
  BY <1>2, <1>3 DEF Payable

LEMMA AScanIsAWalk ==
    ASSUME NEW ids, NEW chars, NEW tokens, tokens = MarkupTokens(ids, chars),
           NEW doc \in Seq(tokens), NEW n, n = Len(doc), NEW max \in CeilingsOfAScan
    PROVE  \E g : ScansOff(ids, chars, doc, n, max, g)
<1> DEFINE states == Payable(ids, chars, max)
           f == [k \in 1 .. n |-> [s \in states |-> P!See(s, doc[k], max)]]
           folds(h) == h = [set \in SUBSET (1 .. n) |->
                              IF set = {} THEN P!Start ELSE P!See(h[set \ {Top(set)}], doc[Top(set)], max)]
           iter == CHOOSE h : folds(h)
           g == [k \in 0 .. n |-> iter[1 .. k]]
<1>1. n \in Nat /\ DOMAIN doc = 1 .. n /\ \A k \in 1 .. n : doc[k] \in tokens
  BY ListFacts
<1>2. P!Start \in states
  BY NothingIsCollectedAtFirst
<1>3. ASSUME NEW k \in 1 .. n, NEW s \in states PROVE P!See(s, doc[k], max) \in states
  BY <1>1, TokensAreCollected
<1> HIDE DEF states
<1>4. f \in [1 .. n -> [states -> states]]
  BY <1>3, Zenon
<1>5. ASSUME NEW h, Folds(h, n, states, P!Start, f) PROVE folds(h)
  <2>1. ASSUME NEW set \in SUBSET (1 .. n), set # {}
        PROVE  h[set] = P!See(h[set \ {Top(set)}], doc[Top(set)], max)
    <3>1. Top(set) \in 1 .. n
      <4>1. Top(set) \in set
        BY <1>1, <2>1, TopIsGreatest, Zenon
      <4> HIDE DEF Top
      <4> QED
        BY <4>1, Zenon
    <3> HIDE DEF Top
    <3>2. set \ {Top(set)} \in SUBSET (1 .. n)
      BY Zenon
    <3>3. h[set \ {Top(set)}] \in states
      BY <1>5, <3>2 DEF Folds
    <3>4. h[set] = f[Top(set)][h[set \ {Top(set)}]]
      BY <1>5, <2>1, Zenon DEF Folds
    <3> QED
      BY <3>1, <3>3, <3>4
  <2>2. h = [set \in SUBSET (1 .. n) |-> h[set]] /\ h[{}] = P!Start
    BY <1>5, Zenon DEF Folds
  <2> HIDE DEF f
  <2> QED
    BY <2>1, <2>2, Zenon
<1>6. folds(iter)
  <2>1. PICK h : Folds(h, n, states, P!Start, f)
    <3> HIDE DEF f
    <3> QED
      BY <1>1, <1>2, <1>4, FoldsExist, Zenon
  <2>2. folds(h)
    <3> HIDE DEF f, folds
    <3> QED
      BY <1>5, <2>1
  <2> HIDE DEF folds
  <2> QED
    BY <2>2
<1>7. P!Scan(doc, max) = P!Finish(iter[DOMAIN doc], max)
  BY <1>1 DEF P!Scan, P!FoldLeft, P!MapThenFoldSet, P!Max, iter, Top
<1> HIDE DEF iter
<1>8. iter[1 .. 0] = P!Start
  <2>1. 1 .. 0 = {} /\ {} \in SUBSET (1 .. n)
    OBVIOUS
  <2> QED
    BY <1>6, <2>1
<1>9. ASSUME NEW k \in 1 .. n PROVE iter[1 .. k] = P!See(iter[1 .. k - 1], doc[k], max)
  <2>1. /\ 1 .. k # {} /\ Top(1 .. k) = k /\ (1 .. k) \ {k} = 1 .. k - 1
        /\ 1 .. k \in SUBSET (1 .. n)
    BY <1>1, TopOfPrefixes
  <2> QED
    BY <1>6, <2>1, Zenon
<1>10. \A k \in 0 .. n : iter[1 .. k] \in states
  <2> DEFINE so == {k \in 0 .. n : iter[1 .. k] \in states}
  <2>1. 0 \in so
    BY <1>1, <1>2, <1>8
  <2>2. ASSUME NEW k \in 1 .. n, k - 1 \in so PROVE k \in so
    <3>1. iter[1 .. k - 1] \in states /\ k \in 0 .. n
      BY <1>1, <2>2
    <3> QED
      BY <1>3, <1>9, <3>1
  <2>3. \A k \in 0 .. n : k \in so
    <3> HIDE DEF so
    <3> QED
      BY <1>1, <2>1, <2>2, Upwards, Zenon
  <2> QED
    BY <2>3
<1>11. /\ g \in [0 .. n -> states] /\ g[0] = P!Start /\ P!Scan(doc, max) = P!Finish(g[n], max)
       /\ \A k \in 1 .. n : g[k] = P!See(g[k - 1], doc[k], max)
  <2>1. 0 \in 0 .. n /\ n \in 0 .. n /\ \A k \in 1 .. n : k \in 0 .. n /\ k - 1 \in 0 .. n
    BY <1>1
  <2> QED
    BY <1>1, <1>7, <1>8, <1>9, <1>10, <2>1
<1> HIDE DEF g
<1>12. ScansOff(ids, chars, doc, n, max, g)
  BY <1>11, Zenon DEF ScansOff, states
<1> QED
  BY <1>12, Zenon

LEMMA TrimmedIsNoLonger ==
    ASSUME NEW chars, NEW text \in Seq(chars)
    PROVE  /\ P!Trimmed(text) \in Seq(chars) /\ Len(P!Trimmed(text)) \in Nat
           /\ Len(P!Trimmed(text)) <= Len(text)
<1> DEFINE kept == {i \in DOMAIN text : text[i] # "blank"}
           first == CHOOSE i \in kept : \A j \in kept : i <= j
           last == CHOOSE i \in kept : \A j \in kept : j <= i
           n == Len(text)
<1>1. n \in Nat /\ DOMAIN text = 1 .. n
  OBVIOUS
<1>2. kept \subseteq 1 .. n
  BY <1>1
<1>3. P!Trimmed(text) = IF kept = {} THEN <<>> ELSE SubSeq(text, first, last)
  BY Zenon DEF P!Trimmed
<1>4. CASE kept = {}
  <2>1. <<>> \in Seq(chars) /\ Len(<<>>) = 0
    OBVIOUS
  <2> HIDE DEF kept, n
  <2> QED
    BY <1>1, <1>3, <1>4, <2>1 DEF n
<1>5. CASE kept # {}
  <2> HIDE DEF kept, n
  <2>1. (\E i \in kept : \A j \in kept : i <= j) /\ \E i \in kept : \A j \in kept : j <= i
    <3>1. (\E x : Greatest(x, kept)) /\ \E x : Least(x, kept)
      BY <1>1, <1>2, <1>5, Extremes, Zenon
    <3> QED
      BY <3>1, Zenon DEF Greatest, Least
  <2>2. first \in kept /\ last \in kept /\ first <= last
    BY <2>1
  <2> HIDE DEF first, last
  <2> DEFINE a == first - 1
             w == last - first + 1
  <2>3. a \in Nat /\ w \in Nat /\ a + w <= n /\ first = a + 1 /\ last = a + w /\ w <= n
    BY <1>1, <1>2, <2>2
  <2> HIDE DEF a, w
  <2>4. SubSeq(text, a + 1, a + w) \in Seq(chars) /\ Len(SubSeq(text, a + 1, a + w)) = w
    BY <2>3, PiecesAreThere, Zenon DEF n
  <2> QED
    BY <1>3, <1>5, <2>3, <2>4 DEF n
<1> QED
  BY <1>4, <1>5

\* The whole of a document is no less than what comes before any of it.
LEMMA TotalsRise ==
    ASSUME NEW n \in Nat, NEW numbers \in [1 .. n -> Nat], NEW g, PartialTotals(numbers, n, g), NEW k \in 0 .. n
    PROVE  g[k] \in Nat /\ g[k] <= g[n]
<1> DEFINE so == {j \in 0 .. n : k <= j => g[k] <= g[j]}
<1>1. \A j \in 0 .. n : g[j] \in Nat
  BY DEF PartialTotals
<1>2. 0 \in so
  <2>1. k <= 0 => k = 0
    OBVIOUS
  <2> QED
    BY <1>1, <2>1
<1>3. ASSUME NEW j \in 1 .. n, j - 1 \in so PROVE j \in so
  <2>1. j \in 0 .. n /\ j - 1 \in 0 .. n /\ (k <= j => k <= j - 1 \/ k = j)
    OBVIOUS
  <2>2. g[j] = g[j - 1] + numbers[j] /\ numbers[j] \in Nat
    BY DEF PartialTotals
  <2> DEFINE a == g[j]
             b == g[j - 1]
             c == numbers[j]
  <2>3. a = b + c /\ a \in Nat /\ b \in Nat /\ c \in Nat
    BY <1>1, <2>1, <2>2
  <2>4. g[k] \in Nat /\ (k <= j - 1 => g[k] <= b) /\ (k = j => g[k] = a)
    BY <1>1, <1>3
  <2> HIDE DEF a, b, c
  <2>5. k <= j => g[k] <= a
    BY <2>1, <2>3, <2>4
  <2> QED
    BY <2>1, <2>5 DEF a
<1>4. \A j \in 0 .. n : j \in so
  <2> HIDE DEF so
  <2> QED
    BY <1>2, <1>3, Upwards, Zenon
<1>5. n \in 0 .. n /\ k <= n
  OBVIOUS
<1> QED
  BY <1>1, <1>4, <1>5

\* What is finished: all that was collected, with the title as it is shown and
\* the mark it may leave.
Finished(s, max, title, r) ==
    /\ r.metas = s.metas /\ r.jsonLd = s.jsonLd /\ r.jsonLdBytes = s.jsonLdBytes
    /\ r.links = s.links /\ r.assets = s.assets /\ r.canonical = s.canonical
    /\ r.title = IF Len(title) > max.text THEN SubSeq(title, 1, max.text) ELSE title
    /\ r.truncated = IF s.titleEnded \/ Len(title) > max.text THEN s.truncated \union {"title"} ELSE s.truncated
    /\ Len(r.title) <= max.text

LEMMA ScansAreFinished ==
    ASSUME NEW ids, NEW chars, NEW s \in Collected(ids, chars), NEW max \in CeilingsOfAScan
    PROVE  Finished(s, max, P!Trimmed(s.title), P!Finish(s, max))
<1> DEFINE title == P!Trimmed(s.title)
           r == P!Finish(s, max)
           over == Len(title) > max.text
           shown == IF over THEN SubSeq(title, 1, max.text) ELSE title
           marks == IF s.titleEnded \/ over THEN s.truncated \union {"title"} ELSE s.truncated
<1>1. title \in Seq(Letters(chars)) /\ Len(title) \in Nat
  BY TrimmedIsNoLonger DEF Collected
<1>2. r = [s EXCEPT !.title = shown, !.truncated = marks]
  BY DEF P!Finish
<1>3. max.text \in Nat
  BY DEF CeilingsOfAScan
<1>4. Len(shown) <= max.text
  <2> HIDE DEF title
  <2>1. CASE over
    <3>1. max.text + 0 <= Len(title) /\ 0 \in Nat
      BY <1>1, <1>3, <2>1
    <3>2. Len(SubSeq(title, 0 + 1, 0 + max.text)) = max.text
      BY <1>1, <1>3, <3>1, PiecesAreThere
    <3>3. 0 + 1 = 1 /\ 0 + max.text = max.text
      BY <1>3
    <3> QED
      BY <1>3, <2>1, <3>2, <3>3
  <2>2. CASE ~over
    BY <1>1, <1>3, <2>2
  <2> QED
    BY <2>1, <2>2, Zenon
<1> HIDE DEF title, shown, marks, r
<1>5. /\ r.metas = s.metas /\ r.jsonLd = s.jsonLd /\ r.jsonLdBytes = s.jsonLdBytes
      /\ r.links = s.links /\ r.assets = s.assets /\ r.canonical = s.canonical
      /\ r.title = shown /\ r.truncated = marks
  BY <1>2 DEF Collected
<1>6. Finished(s, max, title, r)
  BY <1>4, <1>5, Zenon DEF Finished, shown, marks
<1> QED
  BY <1>6 DEF title, r

\* What a token does to the canonical address on record.
SeesACanonical(s, e, max, u) ==
    u.canonical = IF e.is = "canonical" /\ s.canonical = {} /\ e.size <= max.url THEN {e.id} ELSE s.canonical
LEMMA CanonicalsAreSeen ==
    ASSUME NEW ids, NEW chars, NEW s \in Collected(ids, chars), NEW e \in MarkupTokens(ids, chars), NEW max \in CeilingsOfAScan
    PROVE  SeesACanonical(s, e, max, P!See(s, e, max))
<1> USE DEF SeesACanonical
<1>1. CASE e.is \in {"title", "text"}
  BY <1>1 DEF Collected, P!See, P!SeeTitle
<1>2. CASE e.is = "meta"
  BY <1>2 DEF Collected, P!See, P!SeeMeta, P!Cut
<1>3. CASE e.is = "json"
  BY <1>3 DEF Collected, P!See, P!SeeJsonLd, P!Cut
<1>4. CASE e.is \in {"anchor", "asset"}
  BY <1>4 DEF Collected, P!See, P!SeeAnchor, P!SeeAsset, P!Cut
<1>5. CASE e.is = "canonical"
  BY <1>5 DEF Collected, P!See, P!SeeCanonical
<1> QED
  BY <1>1, <1>2, <1>3, <1>4, <1>5, ATokenIsMeasured, Zenon

\* The first of a set of numbers, of which a set of names is that of the first.
NamesTheFirst(names, set, doc) ==
    \/ set = {} /\ names = {}
    \/ \E i \in set : (\A j \in set : i <= j) /\ names = {doc[i].id}

\* One more token: it is named if it fits and nothing was named yet.
LEMMA OneMoreIsNamed ==
    ASSUME NEW doc, NEW k \in Nat, NEW old \in SUBSET Nat, \A j \in old : j <= k,
           NEW was, NamesTheFirst(was, old, doc), NEW now, NEW new, NEW fits \in BOOLEAN,
           now = IF fits /\ was = {} THEN {doc[k].id} ELSE was,
           new = IF fits THEN old \union {k} ELSE old
    PROVE  NamesTheFirst(now, new, doc)
<1>1. CASE ~fits
  BY <1>1
<1>2. CASE fits /\ old = {} /\ was = {}
  <2>1. new = {k} /\ now = {doc[k].id} /\ k <= k
    BY <1>2
  <2> QED
    BY <2>1, Zenon DEF NamesTheFirst
<1>3. ASSUME fits, NEW i \in old, \A j \in old : i <= j, was = {doc[i].id}
      PROVE  NamesTheFirst(now, new, doc)
  <2>1. new = old \union {k} /\ now = {doc[i].id}
    BY <1>3
  <2>2. i \in new /\ \A j \in new : i <= j
    BY <1>3, <2>1
  <2> QED
    BY <2>1, <2>2, Zenon DEF NamesTheFirst
<1> QED
  BY <1>1, <1>2, <1>3, Zenon DEF NamesTheFirst

\* The canonical addresses that fit, of the first tokens of a document; and that
\* a scan of these names the first of them.
FitBefore(doc, max, k) == {i \in 1 .. k : doc[i].is = "canonical" /\ doc[i].size <= max.url}
NamedBefore(g, doc, max, k) == NamesTheFirst(g[k].canonical, FitBefore(doc, max, k), doc)

\* A scan keeps the first canonical address that fits.
LEMMA TheFirstCanonicalIsKept ==
    ASSUME NEW ids, NEW chars, NEW doc \in Seq(MarkupTokens(ids, chars)), NEW max \in CeilingsOfAScan,
           NEW n, n = Len(doc), NEW g, ScansOff(ids, chars, doc, n, max, g)
    PROVE  P!Scan(doc, max).canonical = P!FirstThatFits(doc, max)
<1> DEFINE so == {k \in 0 .. n : NamedBefore(g, doc, max, k)}
           tokens == MarkupTokens(ids, chars)
           collected == Collected(ids, chars)
<1>1. /\ n \in Nat /\ DOMAIN doc = 1 .. n /\ \A k \in 1 .. n : doc[k] \in tokens
      /\ g[0] = P!Start /\ P!Scan(doc, max) = P!Finish(g[n], max)
      /\ \A k \in 1 .. n : g[k] = P!See(g[k - 1], doc[k], max)
      /\ \A k \in 0 .. n : g[k] \in collected
  <2>1. n \in Nat /\ DOMAIN doc = 1 .. n /\ \A k \in 1 .. n : doc[k] \in tokens
    <3> HIDE DEF tokens
    <3>1. doc \in Seq(tokens) /\ n = Len(doc)
      BY DEF tokens
    <3> QED
      BY <3>1, ListFacts
  <2>2. /\ g[0] = P!Start /\ P!Scan(doc, max) = P!Finish(g[n], max)
        /\ \A k \in 1 .. n : g[k] = P!See(g[k - 1], doc[k], max)
    BY Zenon DEF ScansOff
  <2>3. \A k \in 0 .. n : g[k] \in collected
    <3>1. \A k \in 0 .. n : g[k] \in Payable(ids, chars, max)
      BY DEF ScansOff
    <3> HIDE DEF collected
    <3>2. Payable(ids, chars, max) \subseteq collected
      BY Zenon DEF Payable, collected
    <3> QED
      BY <3>1, <3>2, Zenon
  <2> QED
    BY <2>1, <2>2, <2>3, Zenon
<1>2. 0 \in so
  <2>1. FitBefore(doc, max, 0) = {} /\ g[0].canonical = {} /\ 0 \in 0 .. n
    BY <1>1 DEF FitBefore, P!Start
  <2> QED
    BY <2>1, Zenon DEF NamedBefore, NamesTheFirst
<1>3. ASSUME NEW k \in 1 .. n, k - 1 \in so PROVE k \in so
  <2> DEFINE s == g[k - 1]
             e == doc[k]
             fits == e.is = "canonical" /\ e.size <= max.url
             was == s.canonical
             now == g[k].canonical
             old == FitBefore(doc, max, k - 1)
             new == FitBefore(doc, max, k)
  <2>1. k \in 0 .. n /\ k - 1 \in 0 .. n /\ k \in Nat
    BY <1>1
  <2>2. NamesTheFirst(was, old, doc)
    BY <1>3, Zenon DEF NamedBefore
  <2>3. s \in collected /\ e \in tokens /\ g[k] = P!See(s, e, max)
    BY <1>1, <2>1, Zenon
  <2>4. new = IF fits THEN old \union {k} ELSE old
    BY <2>1 DEF FitBefore
  <2>5. old \in SUBSET Nat /\ \A j \in old : j <= k
    BY <2>1 DEF FitBefore
  <2>6. SeesACanonical(s, e, max, g[k])
    <3> HIDE DEF s, e
    <3> QED
      BY <2>3, CanonicalsAreSeen, Zenon
  <2>7. now = IF fits /\ was = {} THEN {doc[k].id} ELSE was
    BY <2>6, Zenon DEF SeesACanonical
  <2>8. fits \in BOOLEAN
    BY Zenon
  <2> HIDE DEF fits, was, now, old, new
  <2>9. NamesTheFirst(now, new, doc)
    BY <2>1, <2>2, <2>4, <2>5, <2>7, <2>8, OneMoreIsNamed, Zenon
  <2> QED
    BY <2>1, <2>9, Zenon DEF now, new, NamedBefore
<1>4. NamesTheFirst(g[n].canonical, FitBefore(doc, max, n), doc)
  <2>1. \A k \in 0 .. n : k \in so
    <3> HIDE DEF so
    <3> QED
      BY <1>1, <1>2, <1>3, Upwards, Zenon
  <2>2. n \in so
    BY <1>1, <2>1
  <2> QED
    BY <2>2, Zenon DEF NamedBefore
<1>5. P!Scan(doc, max).canonical = g[n].canonical
  <2>1. n \in 0 .. n /\ P!Scan(doc, max) = P!Finish(g[n], max) /\ g[n] \in collected
    BY <1>1
  <2>2. Finished(g[n], max, P!Trimmed(g[n].title), P!Finish(g[n], max))
    BY <2>1, ScansAreFinished, Zenon
  <2> QED
    BY <2>1, <2>2, Zenon DEF Finished
<1> DEFINE fit == FitBefore(doc, max, n)
           firsts == {j \in fit : \A k \in fit : j <= k}
           named == {doc[i].id : i \in firsts}
           kept == g[n].canonical
<1>6. fit = {i \in P!Canonicals(doc) : doc[i].size <= max.url} /\ fit \subseteq Nat
  BY <1>1 DEF P!Canonicals, FitBefore
<1>7. NamesTheFirst(kept, fit, doc)
  BY <1>4
<1>8. P!FirstThatFits(doc, max) = named
  BY <1>6 DEF P!FirstThatFits
<1> HIDE DEF fit, kept
<1>9. kept = named
  <2>1. CASE fit = {} /\ kept = {}
    BY <2>1
  <2>2. ASSUME NEW i \in fit, \A j \in fit : i <= j, kept = {doc[i].id}
        PROVE  kept = named
    <3>1. firsts = {i}
      BY <1>6, <2>2
    <3> HIDE DEF firsts
    <3> QED
      BY <2>2, <3>1
  <2> HIDE DEF named
  <2> QED
    BY <1>7, <2>1, <2>2, Zenon DEF NamesTheFirst
<1> QED
  BY <1>5, <1>8, <1>9, Zenon DEF kept

\* The first of a set of numbers is the first of a part of it that holds it.
LEMMA TheFirstOfAPart ==
    ASSUME NEW all \in SUBSET Nat, NEW fit \in SUBSET all, NEW a \in fit, \A j \in all : a <= j
    PROVE  /\ {j \in fit : \A k \in fit : j <= k} = {a}
           /\ {j \in all : \A k \in all : j <= k} = {a}
<1>1. \A j \in Nat : j <= a /\ a <= j => j = a
  OBVIOUS
<1>2. a \in all /\ a \in Nat /\ \A k \in fit : a <= k
  OBVIOUS
<1>3. {j \in fit : \A k \in fit : j <= k} = {a}
  <2>1. \A j \in fit : (\A k \in fit : j <= k) => j = a
    BY <1>1, <1>2
  <2> QED
    BY <1>2, <2>1, Zenon
<1>4. {j \in all : \A k \in all : j <= k} = {a}
  <2>1. \A j \in all : (\A k \in all : j <= k) => j = a
    BY <1>1, <1>2
  <2> QED
    BY <1>2, <2>1, Zenon
<1> QED
  BY <1>3, <1>4

\* Of what two scans keep, the first canonical addresses are one unless the
\* page's first is too long for one of them.
LEMMA TheFirstIsTheFirstThatFits ==
    ASSUME NEW ids, NEW chars, NEW doc \in Seq(MarkupTokens(ids, chars)), NEW max, NEW wide,
           \A i \in P!Canonicals(doc) : doc[i].size \in Nat /\ doc[i].size <= wide.url,
           max.url \in Nat, ~P!FirstIsTooLong(doc, max)
    PROVE  P!FirstThatFits(doc, max) = P!FirstThatFits(doc, wide)
<1> DEFINE all == P!Canonicals(doc)
           fit == {i \in all : doc[i].size <= max.url}
           fitting == {i \in all : doc[i].size <= wide.url}
           first == {j \in fit : \A k \in fit : j <= k}
           whole == {j \in all : \A k \in all : j <= k}
<1>1. all \in SUBSET Nat /\ Len(doc) \in Nat /\ all \in SUBSET (1 .. Len(doc))
  BY ListFacts DEF P!Canonicals
<1>2. fitting = all
  OBVIOUS
<1>3. first = whole
  <2>1. CASE all = {}
    BY <2>1
  <2>2. CASE all # {}
    <3>1. PICK a : a \in all /\ \A j \in all : a <= j
      <4> HIDE DEF all
      <4>1. \E a \in all : Least(a, all)
        BY <1>1, <2>2, Extremes, Zenon
      <4> QED
        BY <4>1, Zenon DEF Least
    <3>2. a \in fit
      <4>1. ~(doc[a].size > max.url)
        BY <3>1, Zenon DEF P!FirstIsTooLong
      <4>2. doc[a].size \in Nat
        BY <3>1
      <4> QED
        BY <3>1, <4>1, <4>2
    <3>3. fit \in SUBSET all
      OBVIOUS
    <3> HIDE DEF all, fit
    <3>4. first = {a} /\ whole = {a}
      BY <1>1, <3>1, <3>2, <3>3, TheFirstOfAPart
    <3> QED
      BY <3>4
  <2> QED
    BY <2>1, <2>2
<1>4. P!FirstThatFits(doc, max) = {doc[i].id : i \in first}
  BY DEF P!FirstThatFits
<1>5. P!FirstThatFits(doc, wide) = {doc[i].id : i \in whole}
  BY <1>2 DEF P!FirstThatFits
<1> QED
  BY <1>3, <1>4, <1>5, Zenon

\* A scan and one that meets no ceiling, of every document and under all
\* ceilings: what the record does not have of the page is marked, but for a
\* canonical address that is too long, in whose place is the first that fits;
\* and no field is over its ceiling (metadata/scan.rs).
THEOREM NothingOfAPageIsCutUnseen ==
    ASSUME NEW ids, NEW chars, NEW doc \in Seq(MarkupTokens(ids, chars)), NEW max \in CeilingsOfAScan
    PROVE  P!NothingIsCutUnseen(doc, max)
<1> DEFINE n == Len(doc)
           numbers == [i \in DOMAIN doc |-> P!Written(doc[i])]
           total == P!Total(numbers)
           wide == Every(total)
<1>1. n \in Nat /\ DOMAIN doc = 1 .. n /\ \A k \in 1 .. n : doc[k] \in MarkupTokens(ids, chars)
  BY ListFacts
<1> HIDE DEF n
<1>2. numbers \in [1 .. n -> Nat] /\ \A k \in 1 .. n : numbers[k] = P!Written(doc[k])
  BY <1>1, ATokenIsMeasured
<1> HIDE DEF numbers
<1>3. PICK t : PartialTotals(numbers, n, t)
  BY <1>1, <1>2, TotalsAreReached
<1>4. total = t[n] /\ t[0] = 0 /\ \A k \in 0 .. n : t[k] \in Nat /\ t[k] <= total
  BY <1>1, <1>2, <1>3, TotalsRise, Zenon DEF PartialTotals
<1>5. total \in Nat
  BY <1>1, <1>4
<1> HIDE DEF total
<1>6. wide \in CeilingsOfAScan /\ wide.text = total
  BY <1>5 DEF Every, CeilingsOfAScan
<1>7. P!Unbounded(doc) = wide
  BY DEF P!Unbounded, Every, total, numbers
<1> HIDE DEF wide
<1>8. PICK g : ScansOff(ids, chars, doc, n, max, g)
  <2> DEFINE tokens == MarkupTokens(ids, chars)
  <2>1. tokens = MarkupTokens(ids, chars) /\ doc \in Seq(tokens) /\ n = Len(doc)
    BY DEF n
  <2> HIDE DEF tokens
  <2> QED
    BY <2>1, AScanIsAWalk
<1>9. PICK h : ScansOff(ids, chars, doc, n, wide, h)
  <2> DEFINE tokens == MarkupTokens(ids, chars)
  <2>1. tokens = MarkupTokens(ids, chars) /\ doc \in Seq(tokens) /\ n = Len(doc)
    BY DEF n
  <2> HIDE DEF tokens
  <2> QED
    BY <1>6, <2>1, AScanIsAWalk
<1>10. \A k \in 0 .. n : g[k] \in Collected(ids, chars) /\ h[k] \in Collected(ids, chars)
  BY <1>8, <1>9 DEF ScansOff, Payable
<1> DEFINE so == {k \in 0 .. n : Alike(g[k], h[k]) /\ InBounds(g[k], max) /\ Uncut(h[k], t[k])}
<1>11. 0 \in so
  <2>1. g[0] = P!Start /\ h[0] = P!Start /\ t[0] = 0 /\ 0 \in 0 .. n
    BY <1>1, <1>4, <1>8, <1>9 DEF ScansOff
  <2>2. /\ P!Start.title = <<>> /\ P!Start.titleEnded = FALSE /\ P!Start.metas = <<>> /\ P!Start.jsonLd = <<>>
        /\ P!Start.jsonLdBytes = 0 /\ P!Start.links = <<>> /\ P!Start.assets = <<>> /\ P!Start.truncated = {}
    BY DEF P!Start
  <2>3. Len(<<>>) = 0 /\ 0 <= max.metas /\ 0 <= max.jsonLd /\ 0 <= max.links /\ 0 <= max.assets
    BY DEF CeilingsOfAScan
  <2>4. Alike(P!Start, P!Start)
    BY DEF Alike
  <2>5. InBounds(P!Start, max)
    BY <2>2, <2>3 DEF InBounds
  <2>6. Uncut(P!Start, 0)
    BY <2>2, <2>3 DEF Uncut
  <2> QED
    BY <2>1, <2>4, <2>5, <2>6
<1>12. ASSUME NEW k \in 1 .. n, k - 1 \in so PROVE k \in so
  <2> DEFINE s == g[k - 1]
             f == h[k - 1]
             e == doc[k]
             u == P!See(f, e, wide)
  <2>1. k \in 0 .. n /\ k - 1 \in 0 .. n
    BY <1>1
  <2>2. /\ s \in Collected(ids, chars) /\ f \in Collected(ids, chars) /\ e \in MarkupTokens(ids, chars)
        /\ g[k] = P!See(s, e, max) /\ h[k] = u
    BY <1>1, <1>8, <1>9, <1>10, <2>1 DEF ScansOff
  <2>3. Alike(s, f) /\ InBounds(s, max) /\ Uncut(f, t[k - 1])
    BY <1>12
  <2>4. t[k] = t[k - 1] + P!Written(e) /\ t[k] <= total /\ t[k - 1] \in Nat
    BY <1>2, <1>3, <1>4, <2>1 DEF PartialTotals
  <2> HIDE DEF s, f, e
  <2>5. Uncut(u, t[k]) /\ Gathers(f, e, u)
    <3> DEFINE before == t[k - 1]
    <3>1. before \in Nat /\ before + P!Written(e) <= total /\ Uncut(f, before) /\ t[k] = before + P!Written(e)
      BY <2>3, <2>4
    <3> HIDE DEF before
    <3>2. Uncut(P!See(f, e, Every(total)), before + P!Written(e)) /\ Gathers(f, e, P!See(f, e, Every(total)))
      BY <1>5, <2>2, <3>1, UncutStaysUncut, Zenon
    <3> QED
      BY <3>1, <3>2, Zenon DEF wide
  <2> HIDE DEF u
  <2>6. ~f.titleEnded
    BY <2>3, Zenon DEF Uncut
  <2>7. Alike(P!See(s, e, max), u) /\ InBounds(P!See(s, e, max), max)
    BY <2>2, <2>3, <2>5, <2>6, AlikeStaysAlike, Zenon
  <2> QED
    BY <2>1, <2>2, <2>5, <2>7
<1>13. Alike(g[n], h[n]) /\ InBounds(g[n], max) /\ Uncut(h[n], total)
  <2>1. \A k \in 0 .. n : k \in so
    <3> HIDE DEF so
    <3> QED
      BY <1>1, <1>11, <1>12, Upwards, Zenon
  <2> QED
    BY <1>1, <1>4, <2>1
<1> DEFINE s == g[n]
           f == h[n]
           r == P!Scan(doc, max)
           full == P!Scan(doc, wide)
<1>14. /\ s \in Collected(ids, chars) /\ f \in Collected(ids, chars)
       /\ r = P!Finish(s, max) /\ full = P!Finish(f, wide)
  BY <1>1, <1>8, <1>9, <1>10 DEF ScansOff
<1> HIDE DEF s, f, r, full
<1>15. Alike(s, f) /\ InBounds(s, max) /\ Uncut(f, total)
  BY <1>13 DEF s, f
<1>16. Finished(s, max, P!Trimmed(s.title), r) /\ Finished(f, wide, P!Trimmed(f.title), full)
  BY <1>6, <1>14, ScansAreFinished, Zenon
<1>17. ~(Len(P!Trimmed(f.title)) > wide.text)
  <2>1. f.title \in Seq(Letters(chars))
    BY <1>14 DEF Collected
  <2> DEFINE l == Len(f.title)
             m == Len(P!Trimmed(f.title))
  <2>2. l \in Nat /\ m \in Nat /\ m <= l
    BY <2>1, TrimmedIsNoLonger, ListFacts
  <2>3. 3 * l <= total
    BY <1>15 DEF Uncut
  <2> HIDE DEF l, m
  <2>4. m <= total
    BY <1>5, <2>2, <2>3
  <2> QED
    BY <1>5, <1>6, <2>2, <2>4 DEF m
<1>18. full.truncated = {} /\ full.title = P!Trimmed(f.title)
  BY <1>15, <1>16, <1>17, Zenon DEF Finished, Uncut
<1>19. r.title = full.title \/ "title" \in r.truncated
  <2>1. CASE s.titleEnded \/ Len(P!Trimmed(s.title)) > max.text
    BY <1>16, <2>1 DEF Finished
  <2>2. CASE ~(s.titleEnded \/ Len(P!Trimmed(s.title)) > max.text)
    BY <1>15, <1>16, <1>18, <2>2, Zenon DEF Finished, Alike
  <2> QED
    BY <2>1, <2>2
<1>20. s.truncated \subseteq r.truncated
  BY <1>16 DEF Finished
<1>21. /\ r.metas = full.metas \/ {"metas", "content"} \intersect r.truncated # {}
       /\ r.jsonLd = full.jsonLd \/ "jsonLd" \in r.truncated
       /\ r.links = full.links \/ "links" \in r.truncated
       /\ r.assets = full.assets \/ "assets" \in r.truncated
  <2>1. /\ r.metas = s.metas /\ r.jsonLd = s.jsonLd /\ r.links = s.links /\ r.assets = s.assets
        /\ full.metas = f.metas /\ full.jsonLd = f.jsonLd /\ full.links = f.links /\ full.assets = f.assets
    BY <1>16, Zenon DEF Finished
  <2> QED
    BY <1>15, <1>20, <2>1 DEF Alike
<1>22. /\ Len(r.title) <= max.text /\ Len(r.metas) <= max.metas /\ r.jsonLdBytes <= max.jsonLd
       /\ Len(r.links) <= max.links /\ Len(r.assets) <= max.assets
  <2>1. /\ r.metas = s.metas /\ r.jsonLdBytes = s.jsonLdBytes /\ r.links = s.links /\ r.assets = s.assets
        /\ Len(r.title) <= max.text
    BY <1>16, Zenon DEF Finished
  <2> QED
    BY <1>15, <2>1, Zenon DEF InBounds
<1>23. r.canonical = P!FirstThatFits(doc, max) /\ full.canonical = P!FirstThatFits(doc, wide)
  <2>1. doc \in Seq(MarkupTokens(ids, chars)) /\ n = Len(doc)
    BY DEF n
  <2> QED
    BY <1>6, <1>8, <1>9, <2>1, TheFirstCanonicalIsKept, Zenon DEF r, full
<1>24. r.canonical = full.canonical \/ P!FirstIsTooLong(doc, max)
  <2>1. ASSUME NEW i \in P!Canonicals(doc) PROVE doc[i].size \in Nat /\ doc[i].size <= wide.url
    <3>1. i \in 1 .. n /\ doc[i].is = "canonical"
      BY <1>1, <2>1 DEF P!Canonicals
    <3> DEFINE e == doc[i]
    <3>2. e \in MarkupTokens(ids, chars) /\ e.is \notin {"title", "text"}
      BY <1>1, <3>1
    <3>3. t[i] = t[i - 1] + P!Written(e) /\ i \in 0 .. n /\ i - 1 \in 0 .. n
      BY <1>1, <1>2, <1>3, <3>1 DEF PartialTotals
    <3>4. t[i] <= total /\ t[i - 1] \in Nat /\ t[i] \in Nat
      BY <1>4, <3>3
    <3> HIDE DEF e
    <3>5. e.size \in Nat /\ P!Written(e) = 3 + e.size
      BY <3>2, ATokenIsMeasured, Zenon
    <3>6. e.size <= total
      BY <1>5, <3>3, <3>4, <3>5
    <3> QED
      BY <3>5, <3>6 DEF e, wide, Every
  <2>2. max.url \in Nat
    BY DEF CeilingsOfAScan
  <2> QED
    BY <1>23, <2>1, <2>2, TheFirstIsTheFirstThatFits
<1> QED
  BY <1>7, <1>18, <1>19, <1>21, <1>22, <1>23, <1>24, Zenon DEF P!NothingIsCutUnseen, r, full

-----------------------------------------------------------------------------
(* What the nodes of a page say: JsonLd *)

\* What stands in lists put one after the other stands in one of them.
LEMMA AllIsFlattened ==
    ASSUME NEW set, NEW lists, lists = Seq(set), NEW n \in Nat, NEW seqs \in [1 .. n -> lists]
    PROVE  /\ J!FlattenSeq(seqs) \in lists
           /\ \A x : x \in J!Range(J!FlattenSeq(seqs)) <=> \E a \in 1 .. n : x \in J!Range(seqs[a])
<1> DEFINE flat == J!FlattenSeq(seqs)
<1>1. seqs \in Seq(lists) /\ Len(seqs) = n
  OBVIOUS
<1>2. flat = R!FlattenSeq(seqs)
  BY Zenon DEF J!FlattenSeq, R!FlattenSeq
<1>3. R!FlattenSeq(seqs) \in lists /\ \E off : Flattens(seqs, n, R!FlattenSeq(seqs), off)
  <2>1. n = Len(seqs)
    BY <1>1
  <2> QED
    BY <1>1, <2>1, ListsAreFlattened, Zenon
<1>4. PICK off : Flattens(seqs, n, flat, off)
  BY <1>2, <1>3
<1>5. flat \in Seq(set) /\ Len(flat) \in Nat /\ DOMAIN flat = 1 .. Len(flat)
  BY <1>2, <1>3, ListFacts
<1>6. \A a \in 1 .. n : DOMAIN seqs[a] = 1 .. Len(seqs[a])
  <2> SUFFICES ASSUME NEW a \in 1 .. n PROVE DOMAIN seqs[a] = 1 .. Len(seqs[a])
    OBVIOUS
  <2> DEFINE s == seqs[a]
  <2>1. s \in Seq(set)
    OBVIOUS
  <2> HIDE DEF s
  <2>2. DOMAIN s = 1 .. Len(s)
    BY <2>1, ListFacts
  <2> QED
    BY <2>2 DEF s
<1> HIDE DEF flat
<1>7. ASSUME NEW x, x \in J!Range(flat) PROVE \E a \in 1 .. n : x \in J!Range(seqs[a])
  <2>1. PICK k \in DOMAIN flat : x = flat[k]
    BY <1>7 DEF J!Range
  <2>2. PICK a \in 1 .. n : \E b \in 1 .. Len(seqs[a]) : k = off[a] + b
    BY <1>4, <1>5, Zenon DEF Flattens
  <2>3. PICK b \in 1 .. Len(seqs[a]) : k = off[a] + b
    BY <2>2
  <2>4. x = seqs[a][b] /\ b \in DOMAIN seqs[a]
    BY <1>4, <1>6, <2>1, <2>3, Zenon DEF Flattens
  <2> QED
    BY <2>4 DEF J!Range
<1>8. ASSUME NEW x, NEW a \in 1 .. n, x \in J!Range(seqs[a]) PROVE x \in J!Range(flat)
  <2>1. PICK b \in DOMAIN seqs[a] : x = seqs[a][b]
    BY <1>8 DEF J!Range
  <2>2. b \in 1 .. Len(seqs[a])
    BY <1>6, <2>1
  <2>3. off[a] + b \in 1 .. Len(flat) /\ flat[off[a] + b] = seqs[a][b]
    BY <1>4, <2>2, Zenon DEF Flattens
  <2> QED
    BY <1>5, <2>1, <2>3 DEF J!Range
<1> QED
  BY <1>2, <1>3, <1>7, <1>8, Zenon DEF flat

LEMMA BothAreSaid ==
    ASSUME NEW set, NEW s \in Seq(set), NEW t \in Seq(set)
    PROVE  /\ s \o t \in Seq(set)
           /\ \A x : x \in J!Range(s \o t) <=> x \in J!Range(s) \/ x \in J!Range(t)
<1> DEFINE all == s \o t
           l == Len(s)
           m == Len(t)
<1>1. /\ l \in Nat /\ m \in Nat /\ DOMAIN s = 1 .. l /\ DOMAIN t = 1 .. m
      /\ all \in Seq(set) /\ DOMAIN all = 1 .. l + m
      /\ \A i \in 1 .. l : all[i] = s[i]
      /\ \A i \in 1 .. m : all[l + i] = t[i]
  OBVIOUS
<1> HIDE DEF all, l, m
<1>2. \A i \in 1 .. l + m : i \in 1 .. l \/ \E k \in 1 .. m : i = l + k
  <2> SUFFICES ASSUME NEW i \in 1 .. l + m, i \notin 1 .. l PROVE \E k \in 1 .. m : i = l + k
    OBVIOUS
  <2>1. i - l \in 1 .. m /\ i = l + (i - l)
    BY <1>1
  <2> QED
    BY <2>1
<1>3. (\A i \in 1 .. l : i \in 1 .. l + m) /\ \A k \in 1 .. m : l + k \in 1 .. l + m
  BY <1>1
<1>4. ASSUME NEW x, x \in J!Range(all) PROVE x \in J!Range(s) \/ x \in J!Range(t)
  <2>1. PICK i \in 1 .. l + m : x = all[i]
    BY <1>1, <1>4 DEF J!Range
  <2> QED
    BY <1>1, <1>2, <2>1, Zenon DEF J!Range
<1>5. ASSUME NEW x, x \in J!Range(s) PROVE x \in J!Range(all)
  BY <1>1, <1>3, <1>5 DEF J!Range
<1>6. ASSUME NEW x, x \in J!Range(t) PROVE x \in J!Range(all)
  <2>1. PICK i \in 1 .. m : x = t[i]
    BY <1>1, <1>6 DEF J!Range
  <2>2. l + i \in DOMAIN all /\ x = all[l + i]
    BY <1>1, <1>3, <2>1
  <2> QED
    BY <2>2 DEF J!Range
<1> QED
  BY <1>1, <1>4, <1>5, <1>6, Zenon DEF all

\* The blocks of a page as the JSON parser hands them over: the objects of a
\* list, or one object; the name of a node is what the page says, and never
\* what the document's title is known by here.
NodesWith(graphs) == [type : STRING, name : STRING \ {"document"}, free : STRING, graph : graphs]
Objects(below) == NodesWith(Seq(NodesWith(below)))
Blocks(below) == [list : BOOLEAN, nodes : Seq(Objects(below))]
StructuredPages(below) == {blocks \in Seq(Blocks(below)) : \A b \in DOMAIN blocks : blocks[b].list \/ Len(blocks[b].nodes) = 1}
AllNodes(below) == NodesWith(Seq(NodesWith(below)) \union below)

\* A node that stands in a page: an object of a block, or one of its graph.
Stands(blocks, x) ==
    \E b \in DOMAIN blocks : \E n \in DOMAIN blocks[b].nodes :
        x = blocks[b].nodes[n] \/ x \in J!Range(blocks[b].nodes[n].graph)

LEMMA ABlockIsRead ==
    ASSUME NEW below, NEW object \in Objects(below), NEW all, all = AllNodes(below)
    PROVE  /\ object \in all /\ object.graph \in Seq(all)
           /\ object.graph \o <<object>> \in Seq(all)
           /\ \A x : x \in J!Range(object.graph \o <<object>>) <=> x = object \/ x \in J!Range(object.graph)
<1>1. object \in all
  BY DEF Objects, AllNodes, NodesWith
<1> DEFINE g == object.graph
<1>2. g \in Seq(NodesWith(below))
  BY DEF Objects, NodesWith
<1> HIDE DEF g
<1>3. g \in Seq(all)
  <2>1. \A x \in NodesWith(below) : x \in all
    BY DEF AllNodes, NodesWith
  <2> HIDE DEF NodesWith
  <2> QED
    BY <1>2, <2>1
<1> DEFINE o == <<object>>
<1>4. o \in Seq(all) /\ J!Range(o) = {object}
  BY <1>1 DEF J!Range
<1> HIDE DEF o
<1>5. g \o o \in Seq(all) /\ \A x : x \in J!Range(g \o o) <=> x \in J!Range(g) \/ x \in J!Range(o)
  BY <1>3, <1>4, BothAreSaid, Zenon
<1> QED
  BY <1>1, <1>3, <1>4, <1>5 DEF g, o

LEMMA BlocksAreBlocks ==
    ASSUME NEW below, NEW blocks \in StructuredPages(below), NEW n, n = Len(blocks)
    PROVE  /\ n \in Nat /\ DOMAIN blocks = 1 .. n
           /\ \A b \in 1 .. n :
                /\ blocks[b].nodes \in Seq(Objects(below)) /\ DOMAIN blocks[b].nodes = 1 .. Len(blocks[b].nodes)
                /\ Len(blocks[b].nodes) \in Nat
                /\ \A k \in DOMAIN blocks[b].nodes : blocks[b].nodes[k] \in Objects(below)
                /\ blocks[b].list \/ Len(blocks[b].nodes) = 1
<1>1. blocks \in Seq(Blocks(below)) /\ \A b \in DOMAIN blocks : blocks[b].list \/ Len(blocks[b].nodes) = 1
  BY DEF StructuredPages
<1>2. n \in Nat /\ DOMAIN blocks = 1 .. n /\ \A b \in 1 .. n : blocks[b] \in Blocks(below)
  BY <1>1, ListFacts
<1>3. ASSUME NEW b \in 1 .. n
      PROVE  /\ blocks[b].nodes \in Seq(Objects(below)) /\ DOMAIN blocks[b].nodes = 1 .. Len(blocks[b].nodes)
             /\ Len(blocks[b].nodes) \in Nat
             /\ \A k \in DOMAIN blocks[b].nodes : blocks[b].nodes[k] \in Objects(below)
  <2> DEFINE s == blocks[b].nodes
  <2>1. s \in Seq(Objects(below))
    BY <1>2 DEF Blocks
  <2> HIDE DEF s
  <2>2. DOMAIN s = 1 .. Len(s) /\ Len(s) \in Nat /\ \A k \in DOMAIN s : s[k] \in Objects(below)
    BY <2>1, ListFacts
  <2> QED
    BY <2>1, <2>2 DEF s
<1> QED
  BY <1>1, <1>2, <1>3

\* Both readings of a page say nodes that stand in it, and what the
\* declaration is read from says all of them.
LEMMA AllThatStandsIsRead ==
    ASSUME NEW below, NEW blocks \in StructuredPages(below)
    PROVE  /\ J!SchemaOrgNodes(blocks) \in Seq(AllNodes(below))
           /\ \A x : x \in J!Range(J!SchemaOrgNodes(blocks)) <=> Stands(blocks, x)
<1> DEFINE n == Len(blocks)
           all == AllNodes(below)
           lists == Seq(all)
           inner(b) == [k \in DOMAIN blocks[b].nodes |-> blocks[b].nodes[k].graph \o <<blocks[b].nodes[k]>>]
           seqs == [b \in 1 .. n |-> J!FlattenSeq(inner(b))]
<1>1. /\ n \in Nat /\ DOMAIN blocks = 1 .. n
      /\ \A b \in 1 .. n :
           /\ DOMAIN blocks[b].nodes = 1 .. Len(blocks[b].nodes) /\ Len(blocks[b].nodes) \in Nat
           /\ \A k \in DOMAIN blocks[b].nodes : blocks[b].nodes[k] \in Objects(below)
  <2>1. n = Len(blocks)
    OBVIOUS
  <2> HIDE DEF n
  <2> QED
    BY <2>1, BlocksAreBlocks
<1> HIDE DEF n
<1>2. ASSUME NEW b \in 1 .. n
      PROVE  /\ J!FlattenSeq(inner(b)) \in lists
             /\ \A x : x \in J!Range(J!FlattenSeq(inner(b))) <=>
                   \E k \in DOMAIN blocks[b].nodes :
                       x = blocks[b].nodes[k] \/ x \in J!Range(blocks[b].nodes[k].graph)
  <2> DEFINE m == Len(blocks[b].nodes)
             node(k) == blocks[b].nodes[k]
             s == inner(b)
  <2>1. m \in Nat /\ DOMAIN blocks[b].nodes = 1 .. m /\ \A k \in 1 .. m : node(k) \in Objects(below)
    BY <1>1
  <2>2. ASSUME NEW k \in 1 .. m
        PROVE  /\ s[k] \in lists
               /\ \A x : x \in J!Range(s[k]) <=> x = node(k) \/ x \in J!Range(node(k).graph)
    <3>1. s[k] = node(k).graph \o <<node(k)>>
      BY <2>1
    <3>2. all = AllNodes(below) /\ node(k) \in Objects(below)
      BY <2>1
    <3> HIDE DEF all, node, s
    <3>3. /\ node(k).graph \o <<node(k)>> \in Seq(all)
          /\ \A x : x \in J!Range(node(k).graph \o <<node(k)>>) <=> x = node(k) \/ x \in J!Range(node(k).graph)
      BY <3>2, ABlockIsRead, Zenon
    <3> QED
      BY <3>1, <3>3
  <2>3. s \in [1 .. m -> lists]
    BY <2>1, <2>2, Zenon
  <2> HIDE DEF s, m, all
  <2>4. /\ J!FlattenSeq(s) \in lists
        /\ \A x : x \in J!Range(J!FlattenSeq(s)) <=> \E k \in 1 .. m : x \in J!Range(s[k])
    BY <2>1, <2>3, AllIsFlattened, Zenon
  <2> QED
    BY <2>1, <2>2, <2>4, Zenon DEF s
<1>3. seqs \in [1 .. n -> lists] /\ \A b \in 1 .. n : seqs[b] = J!FlattenSeq(inner(b))
  BY <1>2, Zenon
<1>4. J!SchemaOrgNodes(blocks) = J!FlattenSeq(seqs)
  BY <1>1 DEF J!SchemaOrgNodes
<1> HIDE DEF seqs, all, inner
<1>5. /\ J!FlattenSeq(seqs) \in lists
      /\ \A x : x \in J!Range(J!FlattenSeq(seqs)) <=> \E b \in 1 .. n : x \in J!Range(seqs[b])
  BY <1>1, <1>3, AllIsFlattened, Zenon
<1>6. ASSUME NEW x, x \in J!Range(J!FlattenSeq(seqs)) PROVE Stands(blocks, x)
  <2>1. PICK b \in 1 .. n : x \in J!Range(seqs[b])
    BY <1>5, <1>6, Zenon
  <2>2. x \in J!Range(J!FlattenSeq(inner(b)))
    BY <1>3, <2>1
  <2>3. PICK k \in DOMAIN blocks[b].nodes : x = blocks[b].nodes[k] \/ x \in J!Range(blocks[b].nodes[k].graph)
    BY <1>2, <2>2, Zenon
  <2>4. b \in DOMAIN blocks
    BY <1>1
  <2> QED
    BY <2>3, <2>4, Zenon DEF Stands
<1>7. ASSUME NEW x, Stands(blocks, x) PROVE x \in J!Range(J!FlattenSeq(seqs))
  <2>1. PICK b \in DOMAIN blocks : \E k \in DOMAIN blocks[b].nodes :
           x = blocks[b].nodes[k] \/ x \in J!Range(blocks[b].nodes[k].graph)
    BY <1>7, Zenon DEF Stands
  <2>2. b \in 1 .. n
    BY <1>1
  <2>3. x \in J!Range(J!FlattenSeq(inner(b)))
    BY <1>2, <2>1, <2>2, Zenon
  <2>4. x \in J!Range(seqs[b])
    BY <1>3, <2>2, <2>3
  <2> QED
    BY <1>5, <2>2, <2>4, Zenon
<1> HIDE DEF lists
<1> QED
  BY <1>4, <1>5, <1>6, <1>7 DEF all, lists

LEMMA WhatIsFlattenedStands ==
    ASSUME NEW below, NEW blocks \in StructuredPages(below)
    PROVE  /\ J!Flattened(blocks) \in Seq(AllNodes(below))
           /\ \A x : x \in J!Range(J!Flattened(blocks)) => Stands(blocks, x)
<1> DEFINE n == Len(blocks)
           all == AllNodes(below)
           lists == Seq(all)
           read(b) == IF blocks[b].list THEN blocks[b].nodes ELSE blocks[b].nodes[1].graph \o blocks[b].nodes
           seqs == [b \in 1 .. n |-> read(b)]
<1>1. /\ n \in Nat /\ DOMAIN blocks = 1 .. n
      /\ \A b \in 1 .. n :
           /\ blocks[b].nodes \in Seq(Objects(below)) /\ DOMAIN blocks[b].nodes = 1 .. Len(blocks[b].nodes)
           /\ \A k \in DOMAIN blocks[b].nodes : blocks[b].nodes[k] \in Objects(below)
           /\ blocks[b].list \/ Len(blocks[b].nodes) = 1
  <2>1. n = Len(blocks)
    OBVIOUS
  <2> HIDE DEF n
  <2> QED
    BY <2>1, BlocksAreBlocks
<1> HIDE DEF n
<1>2. ASSUME NEW b \in 1 .. n
      PROVE  read(b) \in lists /\ \A x : x \in J!Range(read(b)) =>
                   \E k \in DOMAIN blocks[b].nodes :
                       x = blocks[b].nodes[k] \/ x \in J!Range(blocks[b].nodes[k].graph)
  <2> DEFINE s == blocks[b].nodes
  <2>1. s \in Seq(Objects(below)) /\ (\A k \in DOMAIN s : s[k] \in Objects(below)) /\ DOMAIN s = 1 .. Len(s)
    BY <1>1
  <2>2. blocks[b].list \/ Len(s) = 1
    BY <1>1
  <2> HIDE DEF s
  <2>3. s \in lists
    <3>1. \A x \in Objects(below) : x \in all
      BY ABlockIsRead, Zenon
    <3> HIDE DEF all
    <3> QED
      BY <2>1, <3>1
  <2>4. CASE blocks[b].list
    <3>1. read(b) = s
      BY <2>4 DEF s
    <3> HIDE DEF read
    <3> QED
      BY <2>3, <3>1 DEF J!Range, s
  <2>5. CASE ~blocks[b].list
    <3>1. read(b) = s[1].graph \o s
      BY <2>5 DEF s
    <3>2. 1 \in DOMAIN s /\ s[1] \in Objects(below)
      BY <2>1, <2>2, <2>5
    <3>3. s[1].graph \in lists
      <4>1. all = AllNodes(below)
        OBVIOUS
      <4> HIDE DEF all
      <4> QED
        BY <3>2, <4>1, ABlockIsRead, Zenon
    <3> DEFINE g == s[1].graph
    <3> HIDE DEF read, g, all
    <3>4. g \o s \in Seq(all) /\ \A x : x \in J!Range(g \o s) <=> x \in J!Range(g) \/ x \in J!Range(s)
      <4>1. g \in Seq(all) /\ s \in Seq(all)
        BY <2>3, <3>3 DEF g
      <4> QED
        BY <4>1, BothAreSaid, Zenon
    <3>5. read(b) = g \o s
      BY <3>1 DEF g
    <3>6. ASSUME NEW x, x \in J!Range(read(b))
          PROVE  \E k \in DOMAIN s : x = s[k] \/ x \in J!Range(s[k].graph)
      <4>1. x \in J!Range(g) \/ x \in J!Range(s)
        BY <3>4, <3>5, <3>6
      <4>2. CASE x \in J!Range(g)
        BY <3>2, <4>2 DEF g
      <4>3. CASE x \in J!Range(s)
        BY <4>3 DEF J!Range
      <4> QED
        BY <4>1, <4>2, <4>3
    <3> QED
      BY <3>4, <3>5, <3>6, Zenon DEF s
  <2> QED
    BY <2>4, <2>5
<1>3. seqs \in [1 .. n -> lists] /\ \A b \in 1 .. n : seqs[b] = read(b)
  BY <1>2
<1>4. J!Flattened(blocks) = J!FlattenSeq(seqs)
  BY <1>1 DEF J!Flattened
<1> HIDE DEF seqs, all, read
<1>5. /\ J!FlattenSeq(seqs) \in lists
      /\ \A x : x \in J!Range(J!FlattenSeq(seqs)) <=> \E b \in 1 .. n : x \in J!Range(seqs[b])
  BY <1>1, <1>3, AllIsFlattened, Zenon
<1>6. ASSUME NEW x, x \in J!Range(J!FlattenSeq(seqs)) PROVE Stands(blocks, x)
  <2>1. PICK b \in 1 .. n : x \in J!Range(seqs[b])
    BY <1>5, <1>6, Zenon
  <2>2. x \in J!Range(read(b))
    BY <1>3, <2>1
  <2>3. PICK k \in DOMAIN blocks[b].nodes : x = blocks[b].nodes[k] \/ x \in J!Range(blocks[b].nodes[k].graph)
    BY <1>2, <2>2, Zenon
  <2>4. b \in DOMAIN blocks
    BY <1>1
  <2> QED
    BY <2>3, <2>4, Zenon DEF Stands
<1> HIDE DEF lists
<1> QED
  BY <1>4, <1>5, <1>6 DEF all, lists

\* A page read from its end says the same nodes.
LEMMA ReversedStandsAlike ==
    ASSUME NEW below, NEW blocks \in StructuredPages(below)
    PROVE  J!Reverse(blocks) \in StructuredPages(below) /\ \A x : Stands(J!Reverse(blocks), x) <=> Stands(blocks, x)
<1> DEFINE n == Len(blocks)
           back == J!Reverse(blocks)
<1>1. blocks \in Seq(Blocks(below)) /\ \A b \in DOMAIN blocks : blocks[b].list \/ Len(blocks[b].nodes) = 1
  BY DEF StructuredPages
<1>2. n \in Nat /\ DOMAIN blocks = 1 .. n /\ \A b \in 1 .. n : blocks[b] \in Blocks(below)
  BY <1>1, ListFacts
<1>3. back = [b \in 1 .. n |-> blocks[(n - b) + 1]]
  BY DEF J!Reverse
<1> HIDE DEF n, back
<1>4. \A b \in 1 .. n : (n - b) + 1 \in 1 .. n /\ (n - ((n - b) + 1)) + 1 = b
  BY <1>2
<1>5. back \in Seq(Blocks(below)) /\ DOMAIN back = 1 .. n /\ \A b \in 1 .. n : back[b] = blocks[(n - b) + 1]
  <2>1. back \in [1 .. n -> Blocks(below)]
    BY <1>2, <1>3, <1>4
  <2> QED
    BY <1>2, <1>3, <2>1
<1>6. back \in StructuredPages(below)
  <2>1. \A b \in DOMAIN back : back[b].list \/ Len(back[b].nodes) = 1
    BY <1>1, <1>2, <1>4, <1>5
  <2> QED
    BY <1>5, <2>1 DEF StructuredPages
<1>7. ASSUME NEW x, Stands(back, x) PROVE Stands(blocks, x)
  <2>1. PICK b \in 1 .. n : \E k \in DOMAIN back[b].nodes : x = back[b].nodes[k] \/ x \in J!Range(back[b].nodes[k].graph)
    BY <1>5, <1>7, Zenon DEF Stands
  <2> DEFINE c == (n - b) + 1
  <2>2. c \in DOMAIN blocks /\ back[b] = blocks[c]
    BY <1>2, <1>4, <1>5
  <2> HIDE DEF c
  <2> QED
    BY <2>1, <2>2, Zenon DEF Stands
<1>8. ASSUME NEW x, Stands(blocks, x) PROVE Stands(back, x)
  <2>1. PICK b \in 1 .. n : \E k \in DOMAIN blocks[b].nodes : x = blocks[b].nodes[k] \/ x \in J!Range(blocks[b].nodes[k].graph)
    BY <1>2, <1>8, Zenon DEF Stands
  <2> DEFINE c == (n - b) + 1
  <2>2. c \in 1 .. n /\ back[c] = blocks[b]
    BY <1>4, <1>5
  <2> HIDE DEF c
  <2> QED
    BY <1>5, <2>1, <2>2, Zenon DEF Stands
<1> QED
  BY <1>6, <1>7, <1>8 DEF back

\* Hearing one node after another: a wall is not taken back, and only the
\* document itself is heard to be free.
Sayings == {"none", "walled", "free"}
SaysAWall(x) == x.free = "false"
SaysFree(x) == x.free = "true" /\ x.type = "article"
Walls(nodes, k) == \E i \in 1 .. k : SaysAWall(nodes[i])
Frees(nodes, k) == \E i \in 1 .. k : SaysFree(nodes[i])
Heard(nodes, k) == IF Walls(nodes, k) THEN "walled" ELSE IF Frees(nodes, k) THEN "free" ELSE "none"
Hears(nodes, n, g) ==
    /\ g \in [0 .. n -> Sayings] /\ g[0] = "none"
    /\ J!FoldLeft(J!Hear, J!None, nodes) = g[n]
    /\ \A k \in 1 .. n : g[k] = J!Hear(g[k - 1], nodes[k])

LEMMA HearingIsAWalk ==
    ASSUME NEW set, NEW nodes \in Seq(set), NEW n, n = Len(nodes)
    PROVE  \E g : Hears(nodes, n, g)
<1> DEFINE f == [k \in 1 .. n |-> [s \in Sayings |-> J!Hear(s, nodes[k])]]
           folds(h) == h = [part \in SUBSET (1 .. n) |->
                              IF part = {} THEN J!None ELSE J!Hear(h[part \ {Top(part)}], nodes[Top(part)])]
           iter == CHOOSE h : folds(h)
           g == [k \in 0 .. n |-> iter[1 .. k]]
<1>1. n \in Nat /\ DOMAIN nodes = 1 .. n
  BY ListFacts
<1>2. J!None \in Sayings /\ J!None = "none"
  BY DEF J!None, Sayings
<1>3. ASSUME NEW k \in 1 .. n, NEW s \in Sayings PROVE J!Hear(s, nodes[k]) \in Sayings
  BY DEF Sayings, J!Hear
<1>4. f \in [1 .. n -> [Sayings -> Sayings]]
  BY <1>3, Zenon
<1>5. ASSUME NEW h, Folds(h, n, Sayings, J!None, f) PROVE folds(h)
  <2>1. ASSUME NEW part \in SUBSET (1 .. n), part # {}
        PROVE  h[part] = J!Hear(h[part \ {Top(part)}], nodes[Top(part)])
    <3>1. Top(part) \in 1 .. n
      <4>1. Top(part) \in part
        BY <1>1, <2>1, TopIsGreatest, Zenon
      <4> HIDE DEF Top
      <4> QED
        BY <4>1, Zenon
    <3> HIDE DEF Top
    <3>2. part \ {Top(part)} \in SUBSET (1 .. n)
      BY Zenon
    <3>3. h[part \ {Top(part)}] \in Sayings
      BY <1>5, <3>2 DEF Folds
    <3>4. h[part] = f[Top(part)][h[part \ {Top(part)}]]
      BY <1>5, <2>1, Zenon DEF Folds
    <3> HIDE DEF Sayings
    <3> QED
      BY <3>1, <3>3, <3>4
  <2>2. h = [part \in SUBSET (1 .. n) |-> h[part]] /\ h[{}] = J!None
    BY <1>5, Zenon DEF Folds
  <2> HIDE DEF f
  <2> QED
    BY <2>1, <2>2, Zenon
<1>6. folds(iter)
  <2>1. PICK h : Folds(h, n, Sayings, J!None, f)
    <3> HIDE DEF f
    <3> QED
      BY <1>1, <1>2, <1>4, FoldsExist, Zenon
  <2>2. folds(h)
    <3> HIDE DEF f, folds
    <3> QED
      BY <1>5, <2>1
  <2> HIDE DEF folds
  <2> QED
    BY <2>2
<1>7. J!FoldLeft(J!Hear, J!None, nodes) = iter[DOMAIN nodes]
  BY <1>1 DEF J!FoldLeft, J!MapThenFoldSet, J!Max, iter, Top
<1> HIDE DEF iter
<1>8. iter[1 .. 0] = J!None
  <2>1. 1 .. 0 = {} /\ {} \in SUBSET (1 .. n)
    OBVIOUS
  <2> QED
    BY <1>6, <2>1
<1>9. ASSUME NEW k \in 1 .. n PROVE iter[1 .. k] = J!Hear(iter[1 .. k - 1], nodes[k])
  <2>1. /\ 1 .. k # {} /\ Top(1 .. k) = k /\ (1 .. k) \ {k} = 1 .. k - 1
        /\ 1 .. k \in SUBSET (1 .. n)
    BY <1>1, TopOfPrefixes
  <2> QED
    BY <1>6, <2>1, Zenon
<1>10. \A k \in 0 .. n : iter[1 .. k] \in Sayings
  <2> DEFINE so == {k \in 0 .. n : iter[1 .. k] \in Sayings}
  <2>1. 0 \in so
    BY <1>1, <1>2, <1>8
  <2>2. ASSUME NEW k \in 1 .. n, k - 1 \in so PROVE k \in so
    <3>1. iter[1 .. k - 1] \in Sayings /\ k \in 0 .. n
      BY <1>1, <2>2
    <3> HIDE DEF Sayings
    <3> QED
      BY <1>3, <1>9, <3>1
  <2>3. \A k \in 0 .. n : k \in so
    <3> HIDE DEF so
    <3> QED
      BY <1>1, <2>1, <2>2, Upwards, Zenon
  <2> QED
    BY <2>3
<1>11. /\ g \in [0 .. n -> Sayings] /\ g[0] = "none" /\ J!FoldLeft(J!Hear, J!None, nodes) = g[n]
       /\ \A k \in 1 .. n : g[k] = J!Hear(g[k - 1], nodes[k])
  <2>1. 0 \in 0 .. n /\ n \in 0 .. n /\ \A k \in 1 .. n : k \in 0 .. n /\ k - 1 \in 0 .. n
    BY <1>1
  <2> HIDE DEF Sayings
  <2> QED
    BY <1>1, <1>2, <1>7, <1>8, <1>9, <1>10, <2>1, Zenon
<1> HIDE DEF g
<1>12. Hears(nodes, n, g)
  BY <1>11, Zenon DEF Hears
<1> QED
  BY <1>12, Zenon

LEMMA OneMoreIsHeard ==
    ASSUME NEW nodes, NEW k \in Nat \ {0}
    PROVE  Heard(nodes, k) = J!Hear(Heard(nodes, k - 1), nodes[k])
<1>1. /\ Walls(nodes, k) <=> (Walls(nodes, k - 1) \/ SaysAWall(nodes[k]))
      /\ Frees(nodes, k) <=> (Frees(nodes, k - 1) \/ SaysFree(nodes[k]))
  <2>1. 1 .. k = (1 .. k - 1) \union {k}
    OBVIOUS
  <2> HIDE DEF SaysAWall, SaysFree
  <2> QED
    BY <2>1 DEF Walls, Frees
<1> DEFINE w == Walls(nodes, k - 1)
           f == Frees(nodes, k - 1)
           x == nodes[k]
<1>2. Heard(nodes, k - 1) = IF w THEN "walled" ELSE IF f THEN "free" ELSE "none"
  BY DEF Heard
<1>3. Heard(nodes, k) = IF w \/ SaysAWall(x) THEN "walled" ELSE IF f \/ SaysFree(x) THEN "free" ELSE "none"
  BY <1>1 DEF Heard
<1> HIDE DEF w, f, x
<1>4. Heard(nodes, k) = J!Hear(Heard(nodes, k - 1), x)
  <2>1. CASE w \/ SaysAWall(x)
    BY <1>2, <1>3, <2>1 DEF J!Hear, SaysAWall
  <2>2. CASE ~w /\ ~SaysAWall(x)
    BY <1>2, <1>3, <2>2 DEF J!Hear, SaysAWall, SaysFree, J!DescribesTheDocument
  <2> QED
    BY <2>1, <2>2
<1> QED
  BY <1>4 DEF x

LEMMA AllIsHeard ==
    ASSUME NEW set, NEW nodes \in Seq(set), NEW n, n = Len(nodes)
    PROVE  J!FoldLeft(J!Hear, J!None, nodes) = Heard(nodes, n)
<1>1. n \in Nat
  BY ListFacts
<1>2. PICK g : Hears(nodes, n, g)
  BY HearingIsAWalk, Zenon
<1> DEFINE so == {k \in 0 .. n : g[k] = Heard(nodes, k)}
<1>3. 0 \in so
  <2>1. ~Walls(nodes, 0) /\ ~Frees(nodes, 0)
    BY DEF Walls, Frees
  <2>2. Heard(nodes, 0) = "none"
    BY <2>1 DEF Heard
  <2> QED
    BY <1>1, <1>2, <2>2 DEF Hears
<1>4. ASSUME NEW k \in 1 .. n, k - 1 \in so PROVE k \in so
  <2>1. g[k - 1] = Heard(nodes, k - 1) /\ k \in 0 .. n /\ k \in Nat \ {0}
    BY <1>1, <1>4
  <2>2. g[k] = J!Hear(g[k - 1], nodes[k])
    BY <1>2 DEF Hears
  <2>3. Heard(nodes, k) = J!Hear(Heard(nodes, k - 1), nodes[k])
    BY <2>1, OneMoreIsHeard
  <2> QED
    BY <2>1, <2>2, <2>3
<1>5. \A k \in 0 .. n : k \in so
  <2> HIDE DEF so
  <2> QED
    BY <1>1, <1>3, <1>4, Upwards, Zenon
<1>6. g[n] = Heard(nodes, n)
  BY <1>1, <1>5
<1> QED
  BY <1>2, <1>6 DEF Hears

\* What a page declares: a wall, if any node says so; that it is free, if the
\* document says so; and nothing else.
Claimed(blocks) ==
    IF \E x : Stands(blocks, x) /\ SaysAWall(x) THEN "walled"
    ELSE IF \E x : Stands(blocks, x) /\ SaysFree(x) THEN "free" ELSE "none"

LEMMA APageDeclaresWhatItsNodesSay ==
    ASSUME NEW below, NEW blocks \in StructuredPages(below)
    PROVE  J!Declared(blocks) = Claimed(blocks)
<1> DEFINE nodes == J!SchemaOrgNodes(blocks)
           n == Len(nodes)
<1>1. nodes \in Seq(AllNodes(below)) /\ \A x : x \in J!Range(nodes) <=> Stands(blocks, x)
  BY AllThatStandsIsRead, Zenon
<1>2. J!Declared(blocks) = J!FoldLeft(J!Hear, J!None, nodes)
  BY DEF J!Declared
<1> HIDE DEF nodes
<1>3. n \in Nat /\ DOMAIN nodes = 1 .. n
  BY <1>1, ListFacts
<1>4. J!FoldLeft(J!Hear, J!None, nodes) = Heard(nodes, n)
  BY <1>1, AllIsHeard, Zenon
<1> HIDE DEF n
<1>5. \A x : Stands(blocks, x) <=> \E i \in 1 .. n : x = nodes[i]
  BY <1>1, <1>3 DEF J!Range
<1>6. Walls(nodes, n) <=> \E x : Stands(blocks, x) /\ SaysAWall(x)
  BY <1>5, Zenon DEF Walls
<1>7. Frees(nodes, n) <=> \E x : Stands(blocks, x) /\ SaysFree(x)
  BY <1>5, Zenon DEF Frees
<1> QED
  BY <1>2, <1>4, <1>6, <1>7, Zenon DEF Heard, Claimed

LEMMA NodePositionsAreOne ==
    ASSUME NEW set, NEW s
    PROVE  J!Picked(s, set) = R!Picked(s, set) /\ J!Nth(set, 0) = M!Nth(set, 0) /\ J!Range(s) = R!Range(s)
<1>1. \A x : J!Cardinality(x) = R!Cardinality(x)
  BY Zenon DEF J!Cardinality, R!Cardinality
<1>2. \A k : J!Nth(set, k) = R!Nth(set, k)
  BY <1>1, Zenon DEF J!Nth, R!Nth
<1>3. J!Picked(s, set) = R!Picked(s, set)
  BY <1>1, <1>2 DEF J!Picked, R!Picked
<1>4. J!Nth(set, 0) = M!Nth(set, 0)
  BY <1>2, PositionsAreOne
<1> QED
  BY <1>3, <1>4 DEF J!Range, R!Range

LEMMA MetadataReadsWhatStands ==
    ASSUME NEW below, NEW blocks \in StructuredPages(below)
    PROVE  /\ J!SchemaNodes(blocks) \in Seq(AllNodes(below))
           /\ J!Range(J!SchemaNodes(blocks)) \subseteq J!Range(J!Flattened(blocks))
           /\ \/ \A x \in J!Range(J!SchemaNodes(blocks)) : x.type # "site"
              \/ \A x \in J!Range(J!Flattened(blocks)) : x.type = "site"
<1> DEFINE all == J!Flattened(blocks)
           n == Len(all)
           page == {i \in DOMAIN all : ~J!DescribesTheSite(all[i])}
           picked == J!Picked(all, page)
<1>1. all \in Seq(AllNodes(below))
  BY WhatIsFlattenedStands, Zenon
<1>2. J!SchemaNodes(blocks) = IF page = {} THEN all ELSE picked
  BY DEF J!SchemaNodes
<1> HIDE DEF all
<1>3. n \in Nat /\ DOMAIN all = 1 .. n /\ \A i \in 1 .. n : all[i] \in AllNodes(below)
  BY <1>1, ListFacts
<1> HIDE DEF n
<1>4. CASE page = {}
  <2>1. J!SchemaNodes(blocks) = all
    BY <1>2, <1>4
  <2>2. \A x \in J!Range(all) : x.type = "site"
    BY <1>4 DEF J!Range, J!DescribesTheSite
  <2> QED
    BY <1>1, <2>1, <2>2 DEF all
<1>5. CASE page # {}
  <2>1. J!SchemaNodes(blocks) = picked
    BY <1>2, <1>5
  <2>2. IsFiniteSet(page) /\ page \subseteq Int /\ page \subseteq 1 .. n
    <3>1. IsFiniteSet(1 .. n) /\ page \subseteq 1 .. n /\ page \subseteq Int
      BY <1>3, FS_Interval
    <3> HIDE DEF page
    <3> QED
      BY <3>1, FS_Subset, Zenon
  <2>3. J!Range(picked) = {all[i] : i \in page}
    <3>1. R!Range(R!Picked(all, page)) = {all[i] : i \in page}
      <4> HIDE DEF page
      <4> QED
        BY <2>2, PickedIsWhatStandsThere, Zenon
    <3>2. picked = R!Picked(all, page) /\ J!Range(picked) = R!Range(picked)
      <4> HIDE DEF page
      <4> QED
        BY NodePositionsAreOne
    <3> QED
      BY <3>1, <3>2
  <2>4. picked \in Seq(AllNodes(below))
    <3>1. R!Picked(all, page) \in Seq(AllNodes(below))
      <4> DEFINE c == R!Cardinality(page)
                 p == R!Picked(all, page)
      <4>1. p = [k \in 1 .. c |-> all[R!Nth(page, k - 1)]]
        BY DEF R!Picked
      <4>2. c = Cardinality(page) /\ c \in Nat
        <5> HIDE DEF page
        <5> QED
          BY <2>2, FS_CardinalityType, RulesCountAsOne
      <4>3. R!Range(p) = {all[i] : i \in page}
        <5> HIDE DEF page
        <5> QED
          BY <2>2, PickedIsWhatStandsThere
      <4>4. \A x \in R!Range(p) : x \in AllNodes(below)
        BY <1>3, <2>2, <4>3
      <4> HIDE DEF p, c, page
      <4>5. DOMAIN p = 1 .. c /\ \A k \in 1 .. c : p[k] \in R!Range(p)
        BY <4>1 DEF R!Range
      <4>6. p = [k \in 1 .. c |-> p[k]]
        BY <4>1, <4>5
      <4>7. \A k \in 1 .. c : p[k] \in AllNodes(below)
        BY <4>4, <4>5
      <4> HIDE DEF AllNodes
      <4>8. p \in Seq(AllNodes(below))
        BY <4>2, <4>6, <4>7
      <4> QED
        BY <4>8 DEF p
    <3>2. picked = R!Picked(all, page)
      <4> HIDE DEF page
      <4> QED
        BY NodePositionsAreOne
    <3> QED
      BY <3>1, <3>2
  <2>5. (\A x \in J!Range(picked) : x.type # "site") /\ J!Range(picked) \subseteq J!Range(all)
    BY <2>3, Zenon DEF J!Range, J!DescribesTheSite
  <2> QED
    BY <2>1, <2>4, <2>5 DEF all
<1> QED
  BY <1>4, <1>5

\* A field metadata found is what a node of the page says.
LEMMA AFieldIsANodes ==
    ASSUME NEW below, NEW blocks \in StructuredPages(below), J!FromSchema(blocks) # J!None
    PROVE  /\ \E x \in J!Range(J!SchemaNodes(blocks)) : x.name = J!FromSchema(blocks) /\ x \in AllNodes(below)
           /\ J!FromSchema(blocks) # "blank"
<1> DEFINE nodes == J!SchemaNodes(blocks)
           n == Len(nodes)
           naming == {i \in DOMAIN nodes : nodes[i].name # J!None}
           at == J!Nth(naming, 0)
<1>1. nodes \in Seq(AllNodes(below))
  BY MetadataReadsWhatStands, Zenon
<1>2. J!FromSchema(blocks) = IF naming = {} \/ nodes[at].name = "blank" THEN J!None ELSE nodes[at].name
  BY DEF J!FromSchema
<1> HIDE DEF nodes
<1>3. n \in Nat /\ DOMAIN nodes = 1 .. n /\ \A i \in 1 .. n : nodes[i] \in AllNodes(below)
  BY <1>1, ListFacts
<1> HIDE DEF n
<1>4. naming # {} /\ nodes[at].name # "blank" /\ J!FromSchema(blocks) = nodes[at].name
  BY <1>2
<1>5. at \in naming
  <2>1. IsFiniteSet(1 .. n) /\ naming \subseteq 1 .. n /\ naming \subseteq Int
    BY <1>3, FS_Interval
  <2> HIDE DEF naming
  <2>2. IsFiniteSet(naming) /\ naming \subseteq Int /\ naming # {}
    BY <1>4, <2>1, FS_Subset, Zenon
  <2>3. M!Nth(naming, 0) \in naming
    BY <2>2, NoneBeforeIsFirst
  <2> QED
    BY <2>3, NodePositionsAreOne
<1>6. at \in DOMAIN nodes /\ at \in 1 .. n
  BY <1>3, <1>5
<1> HIDE DEF at, naming
<1> QED
  BY <1>3, <1>4, <1>6 DEF nodes, J!Range

\* The order of the blocks never decides whether a page is behind a wall; a
\* site that is free does not make the article free; and what metadata reads
\* is among what the declaration is read from, the site's own words only
\* where the page has none.
THEOREM DeclarationsAreThePages ==
    ASSUME NEW below, NEW blocks \in StructuredPages(below)
    PROVE  J!DeclarationIsThePages(blocks)
<1> DEFINE all == J!SchemaOrgNodes(blocks)
           back == J!Reverse(blocks)
           said == J!Declared(blocks)
           field == J!FromSchema(blocks)
<1>1. \A x : x \in J!Range(all) <=> Stands(blocks, x)
  BY AllThatStandsIsRead, Zenon
<1>2. back \in StructuredPages(below) /\ \A x : Stands(back, x) <=> Stands(blocks, x)
  BY ReversedStandsAlike, Zenon
<1>3. said = Claimed(blocks) /\ J!Declared(back) = Claimed(back)
  <2> HIDE DEF back
  <2> QED
    BY <1>2, APageDeclaresWhatItsNodesSay
<1>4. Claimed(back) = Claimed(blocks)
  <2> HIDE DEF back
  <2> QED
    BY <1>2, Zenon DEF Claimed
<1>5. said = "free" => \E x \in J!Range(all) : x.type = "article" /\ x.free = "true"
  <2> SUFFICES ASSUME said = "free" PROVE \E x \in J!Range(all) : x.type = "article" /\ x.free = "true"
    OBVIOUS
  <2>1. Claimed(blocks) = "free"
    BY <1>3
  <2>2. \E x : Stands(blocks, x) /\ SaysFree(x)
    <3> HIDE DEF Stands, SaysFree, SaysAWall
    <3> QED
      BY <2>1 DEF Claimed
  <2> HIDE DEF all, said
  <2> QED
    BY <1>1, <2>2, Zenon DEF SaysFree
<1>6. (said = "walled") <=> \E x \in J!Range(all) : x.free = "false"
  <2>1. (Claimed(blocks) = "walled") <=> \E x : Stands(blocks, x) /\ SaysAWall(x)
    <3> HIDE DEF Stands, SaysFree, SaysAWall
    <3> QED
      BY DEF Claimed
  <2>2. (\E x : Stands(blocks, x) /\ SaysAWall(x)) <=> \E x \in J!Range(all) : x.free = "false"
    <3> HIDE DEF all
    <3> QED
      BY <1>1, Zenon DEF SaysAWall
  <2> QED
    BY <1>3, <2>1, <2>2
<1>7. J!Range(J!SchemaNodes(blocks)) \subseteq J!Range(all)
  <2>1. \A x : x \in J!Range(J!SchemaNodes(blocks)) => x \in J!Range(J!Flattened(blocks))
    BY MetadataReadsWhatStands
  <2>2. \A x : x \in J!Range(J!Flattened(blocks)) => Stands(blocks, x)
    BY WhatIsFlattenedStands, Zenon
  <2> HIDE DEF all
  <2> QED
    BY <1>1, <2>1, <2>2, Zenon
<1>8. field # J!None =>
        \/ \E x \in J!Range(all) : x.name = field /\ x.type # "site"
        \/ \A x \in J!Range(J!Flattened(blocks)) : x.type = "site"
  <2> SUFFICES ASSUME field # J!None
               PROVE  \/ \E x \in J!Range(all) : x.name = field /\ x.type # "site"
                      \/ \A x \in J!Range(J!Flattened(blocks)) : x.type = "site"
    OBVIOUS
  <2>1. \E x \in J!Range(J!SchemaNodes(blocks)) : x.name = field
    BY AFieldIsANodes
  <2>2. \/ \A x \in J!Range(J!SchemaNodes(blocks)) : x.type # "site"
        \/ \A x \in J!Range(J!Flattened(blocks)) : x.type = "site"
    BY MetadataReadsWhatStands
  <2> HIDE DEF all, field
  <2> QED
    BY <1>7, <2>1, <2>2, Zenon
<1> HIDE DEF all, back, said, field
<1>9. said = J!Declared(back)
  BY <1>3, <1>4
<1> QED
  BY <1>5, <1>6, <1>7, <1>8, <1>9, Zenon DEF J!DeclarationIsThePages, all, back, said, field

Claims(tags, blocks, document) == tags \o <<J!FromSchema(blocks), document>>

\* The first claim to a title that is not blank is the title.
FirstClaim(claims, n, k) ==
    /\ n \in Nat /\ DOMAIN claims = 1 .. n /\ k \in 1 .. n /\ claims[k] \notin {"none", "blank"}
    /\ \A i \in 1 .. n : i < k => claims[i] \in {"none", "blank"}

LEMMA TheFirstClaimIsTheTitle ==
    ASSUME NEW tags, NEW blocks, NEW document, NEW n, NEW k,
           FirstClaim(Claims(tags, blocks, document), n, k)
    PROVE  J!ResolveTitle(tags, blocks, document) = Claims(tags, blocks, document)[k]
<1> DEFINE claims == Claims(tags, blocks, document)
           made == {i \in DOMAIN claims : claims[i] \notin {J!None, "blank"}}
           at == J!Nth(made, 0)
<1>0. /\ n \in Nat /\ DOMAIN claims = 1 .. n /\ k \in 1 .. n /\ claims[k] \notin {J!None, "blank"}
      /\ \A i \in 1 .. n : i < k => claims[i] \in {J!None, "blank"}
  BY DEF FirstClaim, J!None
<1>1. J!ResolveTitle(tags, blocks, document) = IF made = {} THEN J!None ELSE claims[at]
  BY DEF J!ResolveTitle, Claims
<1> HIDE DEF claims
<1>2. IsFiniteSet(1 .. n) /\ made \subseteq 1 .. n /\ made \subseteq Int /\ k \in made
  <2>1. IsFiniteSet(1 .. n)
    BY <1>0, FS_Interval
  <2>2. made \subseteq 1 .. n /\ made \subseteq Int
    <3>1. \A i \in made : i \in 1 .. n
      BY <1>0, Zenon
    <3> HIDE DEF made
    <3> QED
      BY <3>1
  <2>3. k \in DOMAIN claims
    BY <1>0, Zenon
  <2>4. k \in made
    BY <1>0, <2>3, Zenon
  <2> QED
    BY <2>1, <2>2, <2>4
<1>3. at \in made /\ \A i \in made : at <= i
  <2> HIDE DEF made
  <2>1. IsFiniteSet(made) /\ made \subseteq Int /\ made # {}
    BY <1>2, FS_Subset, Zenon
  <2>2. M!Nth(made, 0) \in made /\ \A i \in made : M!Nth(made, 0) <= i
    BY <2>1, NoneBeforeIsFirst
  <2> QED
    BY <2>2, NodePositionsAreOne
<1> HIDE DEF at
<1>4. at \in 1 .. n /\ at <= k /\ claims[at] \notin {J!None, "blank"}
  BY <1>2, <1>3
<1>5. at = k
  BY <1>0, <1>4
<1> QED
  BY <1>1, <1>2, <1>5 DEF claims

LEMMA NoClaimIsNoTitle ==
    ASSUME NEW tags, NEW blocks, NEW document, NEW claims,
           claims = tags \o <<J!FromSchema(blocks), document>>,
           \A i \in DOMAIN claims : claims[i] \in {J!None, "blank"}
    PROVE  J!ResolveTitle(tags, blocks, document) = J!None
<1> DEFINE made == {i \in DOMAIN claims : claims[i] \notin {J!None, "blank"}}
<1>1. made = {}
  OBVIOUS
<1> QED
  BY <1>1 DEF J!ResolveTitle


\* A page's title is the tag it wrote, if that is not blank; its structured
\* data's, if not; and the document's only if it made no other claim.
THEOREM TitlesAreFound ==
    ASSUME NEW below, NEW blocks \in StructuredPages(below)
    PROVE  J!TitleIsFound(blocks)
<1>0. \A tags, document, n, k : FirstClaim(Claims(tags, blocks, document), n, k) =>
         J!ResolveTitle(tags, blocks, document) = Claims(tags, blocks, document)[k]
  BY TheFirstClaimIsTheTitle, Zenon
<1> DEFINE x == J!FromSchema(blocks)
<1>1. x # "document" /\ x # "blank"
  <2>1. CASE x = J!None
    BY <2>1 DEF J!None
  <2>2. CASE x # J!None
    <3>1. x # "blank"
      BY <2>2, AFieldIsANodes
    <3>2. \E y \in AllNodes(below) : y.name = x
      BY <2>2, AFieldIsANodes
    <3>3. \A y \in AllNodes(below) : y.name # "document"
      BY DEF AllNodes, NodesWith
    <3> QED
      BY <3>1, <3>2, <3>3
  <2> QED
    BY <2>1, <2>2
<1> HIDE DEF x
<1>2. ASSUME NEW tags \in {<<>>, <<"blank">>, <<"tag">>, <<"blank", "tag">>}, NEW document \in {J!None, "blank", "document"},
             NEW title, title = J!ResolveTitle(tags, blocks, document)
      PROVE  /\ "tag" \in J!Range(tags) => title = "tag"
             /\ title = J!None => J!Range(tags) \union {document} \subseteq {J!None, "blank"}
             /\ title = "document" => x = J!None
  <2> DEFINE claims == tags \o <<x, document>>
             n == Len(tags) + 2
  <2>1. \/ tags = <<>> /\ n = 2 /\ claims[1] = x /\ claims[2] = document
        \/ tags = <<"blank">> /\ n = 3 /\ claims[1] = "blank" /\ claims[2] = x /\ claims[3] = document
        \/ tags = <<"tag">> /\ n = 3 /\ claims[1] = "tag" /\ claims[2] = x /\ claims[3] = document
        \/ tags = <<"blank", "tag">> /\ n = 4 /\ claims[1] = "blank" /\ claims[2] = "tag" /\ claims[3] = x
             /\ claims[4] = document
    <3>1. ASSUME tags = <<>> PROVE n = 2 /\ claims[1] = x /\ claims[2] = document
      BY <3>1
    <3>2. ASSUME tags = <<"blank">> PROVE n = 3 /\ claims[1] = "blank" /\ claims[2] = x /\ claims[3] = document
      BY <3>2
    <3>3. ASSUME tags = <<"tag">> PROVE n = 3 /\ claims[1] = "tag" /\ claims[2] = x /\ claims[3] = document
      BY <3>3
    <3>4. ASSUME tags = <<"blank", "tag">>
          PROVE  n = 4 /\ claims[1] = "blank" /\ claims[2] = "tag" /\ claims[3] = x /\ claims[4] = document
      BY <3>4
    <3> HIDE DEF claims, n
    <3> QED
      BY <3>1, <3>2, <3>3, <3>4
  <2>2. DOMAIN claims = 1 .. n /\ n \in Nat
    <3>1. CASE tags = <<>>
      BY <3>1
    <3>2. CASE tags = <<"blank">>
      BY <3>2
    <3>3. CASE tags = <<"tag">>
      BY <3>3
    <3>4. CASE tags = <<"blank", "tag">>
      BY <3>4
    <3> QED
      BY <3>1, <3>2, <3>3, <3>4
  <2>3. claims = tags \o <<J!FromSchema(blocks), document>> /\ claims = Claims(tags, blocks, document)
    BY DEF x, Claims
  <2>4. J!None = "none"
    BY DEF J!None
  <2>5. \/ document = "none" \/ document = "blank" \/ document = "document"
    BY <2>4
  <2> HIDE DEF claims, n
  <2>6. ASSUME NEW k \in 1 .. n, claims[k] \notin {"none", "blank"}, \A i \in 1 .. n : i < k => claims[i] \in {"none", "blank"}
        PROVE  title = claims[k]
    <3>1. FirstClaim(claims, n, k)
      BY <2>2, <2>6 DEF FirstClaim
    <3>2. FirstClaim(Claims(tags, blocks, document), n, k)
      BY <2>3, <3>1
    <3>3. J!ResolveTitle(tags, blocks, document) = Claims(tags, blocks, document)[k]
      BY <1>0, <3>2
    <3> QED
      BY <1>2, <2>3, <3>3, Zenon
  <2>7. ASSUME \A i \in 1 .. n : claims[i] \in {"none", "blank"} PROVE title = "none"
    BY <1>2, <2>2, <2>3, <2>4, <2>7, NoClaimIsNoTitle
  <2>8. CASE tags = <<>>
    <3>1. n = 2 /\ claims[1] = x /\ claims[2] = document /\ J!Range(tags) = {}
      BY <2>1, <2>8 DEF J!Range
    <3>2. CASE x # "none"
      BY <1>1, <2>4, <2>6, <3>1, <3>2
    <3>3. CASE x = "none" /\ document = "document"
      BY <2>4, <2>6, <3>1, <3>3
    <3>4. CASE x = "none" /\ document # "document"
      BY <2>4, <2>5, <2>7, <3>1, <3>4
    <3> QED
      BY <3>2, <3>3, <3>4
  <2>9. CASE tags = <<"blank">>
    <3>1. n = 3 /\ claims[1] = "blank" /\ claims[2] = x /\ claims[3] = document /\ J!Range(tags) = {"blank"}
      BY <2>1, <2>9 DEF J!Range
    <3>2. CASE x # "none"
      BY <1>1, <2>4, <2>6, <3>1, <3>2
    <3>3. CASE x = "none" /\ document = "document"
      BY <2>4, <2>6, <3>1, <3>3
    <3>4. CASE x = "none" /\ document # "document"
      BY <2>4, <2>5, <2>7, <3>1, <3>4
    <3> QED
      BY <3>2, <3>3, <3>4
  <2>10. CASE tags = <<"tag">>
    <3>1. n = 3 /\ claims[1] = "tag"
      BY <2>1, <2>10
    <3>2. title = claims[1]
      BY <2>6, <3>1
    <3> QED
      BY <2>4, <3>1, <3>2
  <2>11. CASE tags = <<"blank", "tag">>
    <3>1. n = 4 /\ claims[1] = "blank" /\ claims[2] = "tag"
      BY <2>1, <2>11
    <3>2. title = claims[2]
      BY <2>6, <3>1
    <3> QED
      BY <2>4, <3>1, <3>2
  <2> QED
    BY <2>8, <2>9, <2>10, <2>11
<1>3. ASSUME NEW tags \in {<<>>, <<"blank">>, <<"tag">>, <<"blank", "tag">>}, NEW document \in {J!None, "blank", "document"}
      PROVE  LET title == J!ResolveTitle(tags, blocks, document) IN
             /\ "tag" \in J!Range(tags) => title = "tag"
             /\ title = J!None => J!Range(tags) \union {document} \subseteq {J!None, "blank"}
             /\ title = "document" => x = J!None
  <2> DEFINE title == J!ResolveTitle(tags, blocks, document)
  <2>1. title = J!ResolveTitle(tags, blocks, document)
    OBVIOUS
  <2> HIDE DEF title
  <2>2. /\ "tag" \in J!Range(tags) => title = "tag"
        /\ title = J!None => J!Range(tags) \union {document} \subseteq {J!None, "blank"}
        /\ title = "document" => x = J!None
    BY <1>2, <2>1, Zenon
  <2> QED
    BY <2>2 DEF title
<1> QED
  BY <1>3, Zenon DEF J!TitleIsFound, x

-----------------------------------------------------------------------------
(* All of it *)

\* A question about the boundary has the form the program gives it: any page,
\* list of hrefs, transfer, host, credential, seeds and references, and any
\* robots.txt, document, site, markup and blocks of structured data.
WellAsked ==
    /\ of = "links" => question \in Seq(LinksRead)
    /\ of = "bases" => /\ question.page \in Addresses /\ question.declared \in SUBSET Addresses
                       /\ question.href \in Hrefs
    /\ of = "answers" => question \in Transfers
    /\ of = "spellings" => question.host \in HostShapes /\ question.allowed \in BOOLEAN
    /\ of = "credentials" => question.file \in CookieFiles /\ question.exported \in Exported
    /\ of = "seeds" => question \in CallLists
    /\ of = "list" => question \in Pages
    /\ of = "robots" => question.file \in Files(STRING) /\ question.path \in Seq(STRING)
    /\ of = "sitemap" => question \in Documents
    /\ of = "sitemaps" => /\ question.explicit \in STRING /\ question.robots \in Seq(Directives)
                          /\ \E urls : question.site \in [urls -> Answers]
    /\ of = "markup" => \E ids, chars : question \in Seq(MarkupTokens(ids, chars))
    /\ of = "structured" => \E below : question \in StructuredPages(below)

\* What crosses the boundary of a crawl is what was meant, whatever is asked:
\* the invariant of the run, of every question of the program and not of the
\* ones the run puts.
THEOREM WhateverIsAskedTheBoundaryIsHeld ==
    ASSUME WellAsked
    PROVE  BoundaryIsHeld
<1>1. of = "links" => L!LinksAreOneAddress(question)
  BY LinksAgree, Zenon DEF WellAsked
<1>12. of = "bases" => L!BaseLeadsNowhereElse(question.page, question.declared, question.href)
  BY BasesLeadNowhereElse, Zenon DEF WellAsked
<1>2. of = "answers" => E!ResponseIsWhatArrived(question)
  BY ResponsesAreWhatArrived, Zenon DEF WellAsked
<1>3. of = "spellings" => E!SpellingDoesNotMatter(question.scheme, question.host, question.allowed)
  BY SpellingsAgree, Zenon DEF WellAsked
<1>4. of = "credentials" => K!CredentialIsPrivate(question.file, question.exported)
  BY CredentialsArePrivate, Zenon DEF WellAsked
<1>5. of = "seeds" => K!CredentialStaysHome(question)
  BY CredentialsStayHome, Zenon DEF WellAsked
<1>6. of = "list" => F!ListIsUsable(question)
  BY ListsAreUsable, Zenon DEF WellAsked
<1>7. of = "robots" /\ R!GeneralLast(question.file) =>
         (R!Decides(question.file, question.path) <=> R!Permitted(question.file, question.path))
  BY RobotsAreObeyed, Zenon DEF WellAsked
<1>8. of = "sitemap" => M!ListingAccounts(question)
  BY SitemapsAreAccountedFor, Zenon DEF WellAsked
<1>9. of = "sitemaps" => M!SitemapIsTheOneNamed(question.explicit, question.robots, question.site)
  BY TheSitemapNamedIsRead, Zenon DEF WellAsked
<1>10. of = "markup" => P!NothingIsCutUnseen(question, ScanCeilings)
  <2>1. ScanCeilings \in CeilingsOfAScan
    BY BoundaryAssumption DEF CeilingsOfAScan
  <2> QED
    BY <2>1, NothingOfAPageIsCutUnseen, Zenon DEF WellAsked
<1>11. of = "structured" => J!DeclarationIsThePages(question) /\ J!TitleIsFound(question)
  BY DeclarationsAreThePages, TitlesAreFound, Zenon DEF WellAsked
<1> QED
  BY <1>1, <1>2, <1>3, <1>4, <1>5, <1>6, <1>7, <1>8, <1>9, <1>10, <1>11, <1>12, Zenon DEF BoundaryIsHeld
=============================================================================
