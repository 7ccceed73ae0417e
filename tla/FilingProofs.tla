----------------------------- MODULE FilingProofs -----------------------------
(***************************************************************************)
(* Theorems about what an archive files and exports, for every address,    *)
(* every title and every archive, and about what it takes for an article,  *)
(* for every page and every file of rules.                                 *)
(***************************************************************************)
EXTENDS Filing, BoundaryProofs

-----------------------------------------------------------------------------
(* Orders and lists *)

\* An order of a set, as the pairs of it; the place of a member is how many
\* come before it.
OrderOn(rel, set) ==
    /\ \A x \in set : <<x, x>> \notin rel
    /\ \A x, y \in set : x = y \/ <<x, y>> \in rel \/ <<y, x>> \in rel
    /\ \A x, y, z \in set : <<x, y>> \in rel /\ <<y, z>> \in rel => <<x, z>> \in rel
Earlier(rel, set, x) == {y \in set : <<y, x>> \in rel}
Place(rel, set, x) == Cardinality(Earlier(rel, set, x))
Member(rel, set, k) == CHOOSE x \in set : Place(rel, set, x) = k
Listed(rel, set, s) == [k \in 1 .. Cardinality(set) |-> s[Member(rel, set, k - 1)]]

LEMMA PlacesFill ==
    ASSUME NEW set, IsFiniteSet(set), NEW rel, OrderOn(rel, set), NEW c, c = Cardinality(set)
    PROVE  /\ c \in Nat
           /\ \A x \in set : Place(rel, set, x) \in 0 .. c - 1
           /\ \A x, y \in set : Place(rel, set, x) = Place(rel, set, y) => x = y
           /\ \A x, y \in set : <<x, y>> \in rel <=> Place(rel, set, x) < Place(rel, set, y)
           /\ \A k \in 0 .. c - 1 : \E x \in set : Place(rel, set, x) = k
<1>1. c \in Nat
  BY FS_CardinalityType
<1>2. ASSUME NEW x \in set
      PROVE  /\ IsFiniteSet(Earlier(rel, set, x)) /\ Place(rel, set, x) \in Nat
             /\ Place(rel, set, x) \in 0 .. c - 1
  <2>1. Earlier(rel, set, x) \subseteq set /\ Earlier(rel, set, x) # set
    BY Zenon DEF Earlier, OrderOn
  <2>2. /\ IsFiniteSet(Earlier(rel, set, x)) /\ Place(rel, set, x) \in Nat
        /\ Place(rel, set, x) <= c /\ (Place(rel, set, x) = c => Earlier(rel, set, x) = set)
    BY <2>1, FS_Subset, FS_CardinalityType DEF Place
  <2> QED
    BY <1>1, <2>1, <2>2
<1>3. ASSUME NEW x \in set, NEW y \in set, <<x, y>> \in rel
      PROVE  Place(rel, set, x) < Place(rel, set, y)
  <2>1. Earlier(rel, set, x) \subseteq Earlier(rel, set, y)
    BY <1>3, Zenon DEF Earlier, OrderOn
  <2>2. x \in Earlier(rel, set, y) /\ x \notin Earlier(rel, set, x)
    BY <1>3, Zenon DEF Earlier, OrderOn
  <2>3. IsFiniteSet(Earlier(rel, set, y)) /\ Place(rel, set, x) \in Nat /\ Place(rel, set, y) \in Nat
    BY <1>2
  <2>4. /\ Place(rel, set, x) <= Place(rel, set, y)
        /\ Place(rel, set, x) = Place(rel, set, y) => Earlier(rel, set, x) = Earlier(rel, set, y)
    BY <2>1, <2>3, FS_Subset DEF Place
  <2> QED
    BY <2>2, <2>3, <2>4
<1>4. ASSUME NEW x \in set, NEW y \in set
      PROVE  /\ Place(rel, set, x) = Place(rel, set, y) => x = y
             /\ <<x, y>> \in rel <=> Place(rel, set, x) < Place(rel, set, y)
  <2>1. /\ x = y \/ <<x, y>> \in rel \/ <<y, x>> \in rel
        /\ <<x, x>> \notin rel
        /\ ~(<<x, y>> \in rel /\ <<y, x>> \in rel)
    BY Zenon DEF OrderOn
  <2>2. Place(rel, set, x) \in Nat /\ Place(rel, set, y) \in Nat
    BY <1>2
  <2>3. /\ <<x, y>> \in rel => Place(rel, set, x) < Place(rel, set, y)
        /\ <<y, x>> \in rel => Place(rel, set, y) < Place(rel, set, x)
    BY <1>3
  <2> QED
    BY <2>1, <2>2, <2>3
<1> DEFINE f == [x \in set |-> Place(rel, set, x)]
<1>5. f \in Surjection(set, 0 .. c - 1)
  <2>1. f \in Injection(set, 0 .. c - 1)
    BY <1>2, <1>4, Zenon DEF Injection, IsInjective
  <2>2. IsFiniteSet(0 .. c - 1) /\ Cardinality(0 .. c - 1) = c
    <3>1. 0 \in Int /\ c - 1 \in Int /\ c - 1 - 0 + 1 = c /\ (0 > c - 1 => c = 0)
      BY <1>1
    <3> QED
      BY <3>1, FS_Interval
  <2> HIDE DEF f
  <2> QED
    BY <2>1, <2>2, FS_Injection
<1>6. \A k \in 0 .. c - 1 : \E x \in set : Place(rel, set, x) = k
  BY <1>5, Zenon DEF Surjection
<1> QED
  BY <1>1, <1>2, <1>4, <1>6, Zenon

\* The member at a place, and the place of a member.
LEMMA MembersFill ==
    ASSUME NEW set, IsFiniteSet(set), NEW rel, OrderOn(rel, set), NEW c, c = Cardinality(set)
    PROVE  /\ \A k \in 0 .. c - 1 : Member(rel, set, k) \in set /\ Place(rel, set, Member(rel, set, k)) = k
           /\ \A x \in set : Member(rel, set, Place(rel, set, x)) = x
           /\ \A k, l \in 0 .. c - 1 : <<Member(rel, set, k), Member(rel, set, l)>> \in rel <=> k < l
<1>1. /\ \A x \in set : Place(rel, set, x) \in 0 .. c - 1
      /\ \A x, y \in set : Place(rel, set, x) = Place(rel, set, y) => x = y
      /\ \A x, y \in set : <<x, y>> \in rel <=> Place(rel, set, x) < Place(rel, set, y)
      /\ \A k \in 0 .. c - 1 : \E x \in set : Place(rel, set, x) = k
  BY PlacesFill
<1>2. ASSUME NEW k \in 0 .. c - 1
      PROVE  Member(rel, set, k) \in set /\ Place(rel, set, Member(rel, set, k)) = k
  BY <1>1, Zenon DEF Member
<1>3. ASSUME NEW x \in set PROVE Member(rel, set, Place(rel, set, x)) = x
  BY <1>1, <1>2, Zenon
<1>4. ASSUME NEW k \in 0 .. c - 1, NEW l \in 0 .. c - 1
      PROVE  <<Member(rel, set, k), Member(rel, set, l)>> \in rel <=> k < l
  <2>1. /\ Member(rel, set, k) \in set /\ Place(rel, set, Member(rel, set, k)) = k
        /\ Member(rel, set, l) \in set /\ Place(rel, set, Member(rel, set, l)) = l
    BY <1>2
  <2> HIDE DEF Member
  <2> QED
    BY <1>1, <2>1
<1> QED
  BY <1>2, <1>3, <1>4, Zenon

\* Two orders a bijection carries one into the other list the same.
Carries(phi, rel, set, other, there) ==
    /\ phi \in Bijection(set, there)
    /\ \A x, y \in set : <<x, y>> \in rel <=> <<phi[x], phi[y]>> \in other

LEMMA PlacesAreCarried ==
    ASSUME NEW set, IsFiniteSet(set), NEW rel, NEW there, NEW other,
           NEW phi, Carries(phi, rel, set, other, there), NEW x \in set
    PROVE  Place(other, there, phi[x]) = Place(rel, set, x)
<1> DEFINE here == Earlier(rel, set, x)
           f == [y \in here |-> phi[y]]
<1>1. /\ phi \in [set -> there] /\ \A y, z \in set : phi[y] = phi[z] => y = z
      /\ \A w \in there : \E y \in set : phi[y] = w
  BY Zenon DEF Carries, Bijection, Injection, Surjection, IsInjective
<1>2. \A y \in here : y \in set /\ phi[y] \in Earlier(other, there, phi[x])
  BY <1>1 DEF Carries, Earlier
<1>3. \A w \in Earlier(other, there, phi[x]) : \E y \in here : phi[y] = w
  BY <1>1 DEF Carries, Earlier
<1>4. IsFiniteSet(here)
  BY FS_Subset, Zenon DEF Earlier
<1> HIDE DEF here
<1>5. f \in Bijection(here, Earlier(other, there, phi[x]))
  <2>1. f \in [here -> Earlier(other, there, phi[x])]
    BY <1>2
  <2>2. \A y, z \in here : f[y] = f[z] => y = z
    BY <1>1, <1>2
  <2>3. \A w \in Earlier(other, there, phi[x]) : \E y \in here : f[y] = w
    BY <1>3
  <2> HIDE DEF f
  <2> QED
    BY <2>1, <2>2, <2>3, Zenon DEF Bijection, Injection, Surjection, IsInjective
<1>6. Cardinality(here) = Cardinality(Earlier(other, there, phi[x]))
  <2> HIDE DEF f
  <2> QED
    BY <1>4, <1>5, FS_Bijection DEF ExistsBijection
<1> QED
  BY <1>6 DEF Place, here

LEMMA ListedAlike ==
    ASSUME NEW set, IsFiniteSet(set), NEW rel, OrderOn(rel, set),
           NEW there, IsFiniteSet(there), NEW other, OrderOn(other, there),
           NEW phi, Carries(phi, rel, set, other, there),
           NEW s, NEW t, \A x \in set : s[x] = t[phi[x]]
    PROVE  Cardinality(set) = Cardinality(there) /\ Listed(rel, set, s) = Listed(other, there, t)
<1> DEFINE c == Cardinality(set)
<1>1. c = Cardinality(there)
  <2>1. phi \in Bijection(set, there)
    BY DEF Carries
  <2> QED
    BY <2>1, FS_Bijection DEF ExistsBijection
<1>2. c \in Nat
  BY FS_CardinalityType
<1>3. ASSUME NEW k \in 1 .. c
      PROVE  s[Member(rel, set, k - 1)] = t[Member(other, there, k - 1)]
  <2> DEFINE x == Member(rel, set, k - 1)
  <2>0. k - 1 \in 0 .. c - 1
    BY <1>2
  <2>1. x \in set /\ Place(rel, set, x) = k - 1
    BY <2>0, MembersFill
  <2> HIDE DEF x
  <2>2. phi[x] \in there
    BY <2>1 DEF Carries, Bijection, Injection
  <2>3. Place(other, there, phi[x]) = k - 1
    <3>1. Place(other, there, phi[x]) = Place(rel, set, x)
      BY <2>1, PlacesAreCarried
    <3> QED
      BY <2>1, <3>1
  <2>4. Member(other, there, Place(other, there, phi[x])) = phi[x]
    BY <2>2, MembersFill, Zenon
  <2>5. t[Member(other, there, k - 1)] = t[phi[x]]
    BY <2>3, <2>4, Zenon
  <2> QED
    BY <2>1, <2>5, Zenon DEF x
<1> HIDE DEF c
<1>4. [k \in 1 .. c |-> s[Member(rel, set, k - 1)]] = [k \in 1 .. c |-> t[Member(other, there, k - 1)]]
  BY <1>3, Zenon
<1> QED
  BY <1>1, <1>4, Zenon DEF c, Listed

Rising == {p \in Int \X Int : p[1] < p[2]}

LEMMA NumbersRise ==
    ASSUME NEW set, set \subseteq Int
    PROVE  OrderOn(Rising, set) /\ \A x, y \in set : <<x, y>> \in Rising <=> x < y
<1>1. \A x, y \in set : <<x, y>> \in Rising <=> x < y
  BY DEF Rising
<1>2. \A x, y, z \in set : ~(x < x) /\ (x = y \/ x < y \/ y < x) /\ (x < y /\ y < z => x < z)
  OBVIOUS
<1> HIDE DEF Rising
<1> QED
  BY <1>1, <1>2, Zenon DEF OrderOn

LEMMA PartsAreOrdered ==
    ASSUME NEW rel, NEW set, OrderOn(rel, set), NEW part \in SUBSET set
    PROVE  OrderOn(rel, part)
  BY DEF OrderOn

\* The members of a part are those places of the whole list that hold them.
Found(rel, set, part) == {k \in 1 .. Cardinality(set) : Member(rel, set, k - 1) \in part}

LEMMA PartsAreListed ==
    ASSUME NEW set, IsFiniteSet(set), NEW rel, OrderOn(rel, set), NEW part \in SUBSET set, NEW s
    PROVE  Listed(Rising, Found(rel, set, part), Listed(rel, set, s)) = Listed(rel, part, s)
<1> DEFINE c == Cardinality(set)
           at == Found(rel, set, part)
           whole == Listed(rel, set, s)
           phi == [k \in at |-> Member(rel, set, k - 1)]
<1>0. c \in Nat
  BY FS_CardinalityType
<1>1. IsFiniteSet(at) /\ IsFiniteSet(part) /\ at \subseteq 1 .. c /\ at \subseteq Int
  <2>1. IsFiniteSet(1 .. c) /\ at \subseteq 1 .. c /\ 1 .. c \subseteq Int
    BY <1>0, FS_Interval DEF Found
  <2> QED
    BY <2>1, FS_Subset, Zenon
<1>2. /\ \A k \in 0 .. c - 1 : Member(rel, set, k) \in set /\ Place(rel, set, Member(rel, set, k)) = k
      /\ \A x \in set : Member(rel, set, Place(rel, set, x)) = x /\ Place(rel, set, x) \in 0 .. c - 1
      /\ \A k, l \in 0 .. c - 1 : <<Member(rel, set, k), Member(rel, set, l)>> \in rel <=> k < l
  BY MembersFill, PlacesFill
<1>3. \A k \in at : k \in 1 .. c /\ k - 1 \in 0 .. c - 1 /\ Member(rel, set, k - 1) \in part
  BY <1>0 DEF Found
<1>4. \A x \in part : /\ Place(rel, set, x) + 1 \in 1 .. c
                      /\ Member(rel, set, (Place(rel, set, x) + 1) - 1) = x
  BY <1>0, <1>2
<1>5. phi \in Bijection(at, part)
  <2>1. phi \in [at -> part]
    BY <1>3
  <2>2. ASSUME NEW k \in at, NEW l \in at, phi[k] = phi[l] PROVE k = l
    <3>1. k - 1 \in 0 .. c - 1 /\ l - 1 \in 0 .. c - 1 /\ k \in 1 .. c /\ l \in 1 .. c
      BY <1>3
    <3>2. Member(rel, set, k - 1) = Member(rel, set, l - 1)
      BY <2>2
    <3>3. k - 1 = l - 1
      BY <1>2, <3>1, <3>2
    <3> QED
      BY <1>0, <3>1, <3>3
  <2>3. ASSUME NEW x \in part PROVE \E k \in at : phi[k] = x
    <3>1. Place(rel, set, x) + 1 \in at
      BY <1>4 DEF Found
    <3> QED
      BY <1>4, <3>1
  <2> HIDE DEF phi, at
  <2> QED
    BY <2>1, <2>2, <2>3, Zenon DEF Bijection, Injection, Surjection, IsInjective
<1>6. ASSUME NEW k \in at, NEW l \in at PROVE <<k, l>> \in Rising <=> <<phi[k], phi[l]>> \in rel
  <2>1. k - 1 \in 0 .. c - 1 /\ l - 1 \in 0 .. c - 1 /\ k \in Int /\ l \in Int
    BY <1>0, <1>3
  <2>2. <<k, l>> \in Rising <=> k < l
    BY <2>1 DEF Rising
  <2>3. <<phi[k], phi[l]>> \in rel <=> k - 1 < l - 1
    BY <1>2, <2>1
  <2> QED
    BY <2>1, <2>2, <2>3
<1>7. \A k \in at : whole[k] = s[phi[k]]
  BY <1>3 DEF Listed
<1> HIDE DEF at, whole, phi
<1>8. OrderOn(Rising, at) /\ OrderOn(rel, part)
  BY <1>1, NumbersRise, PartsAreOrdered, Zenon
<1>9. Listed(Rising, at, whole) = Listed(rel, part, s)
  <2>1. Carries(phi, Rising, at, rel, part)
    BY <1>5, <1>6 DEF Carries
  <2>2. IsFiniteSet(at)
    BY <1>1, Zenon
  <2>3. IsFiniteSet(part)
    BY <1>1, Zenon
  <2>4. OrderOn(Rising, at)
    BY <1>8, Zenon
  <2>5. OrderOn(rel, part)
    BY <1>8, Zenon
  <2> QED
    BY <1>7, <2>1, <2>2, <2>3, <2>4, <2>5, ListedAlike
<1> QED
  BY <1>9, Zenon DEF at, whole

\* Two orders that agree on a set list it the same.
LEMMA OrdersAgree ==
    ASSUME NEW set, IsFiniteSet(set), NEW rel, OrderOn(rel, set), NEW other, OrderOn(other, set),
           \A x, y \in set : <<x, y>> \in rel <=> <<x, y>> \in other, NEW s, NEW t,
           \A x \in set : s[x] = t[x]
    PROVE  Listed(rel, set, s) = Listed(other, set, t)
<1> DEFINE phi == [x \in set |-> x]
<1>1. phi \in Bijection(set, set)
  <2>1. phi \in [set -> set] /\ \A x \in set : phi[x] = x
    OBVIOUS
  <2> HIDE DEF phi
  <2> QED
    BY <2>1 DEF Bijection, Injection, Surjection, IsInjective
<1>2. \A x \in set : phi[x] = x
  OBVIOUS
<1> HIDE DEF phi
<1>3. Carries(phi, rel, set, other, set)
  BY <1>1, <1>2 DEF Carries
<1>4. \A x \in set : s[x] = t[phi[x]]
  BY <1>2
<1> QED
  BY <1>3, <1>4, ListedAlike

\* The positions of a list, in order, are the list.
LEMMA WholeListed ==
    ASSUME NEW n \in Nat, NEW s
    PROVE  Cardinality(1 .. n) = n /\ Listed(Rising, 1 .. n, s) = [k \in 1 .. n |-> s[k]]
<1>1. IsFiniteSet(1 .. n) /\ Cardinality(1 .. n) = n
  <2>1. \A m \in Nat : IsFiniteSet(1 .. m) /\ Cardinality(1 .. m) = m
    BY FS_Interval
  <2> QED
    BY <2>1
<1>2. OrderOn(Rising, 1 .. n)
  BY NumbersRise
<1>3. ASSUME NEW k \in 1 .. n PROVE Place(Rising, 1 .. n, k) = k - 1
  <2>1. Earlier(Rising, 1 .. n, k) = 1 .. k - 1
    <3>1. \A y \in 1 .. n : <<y, k>> \in Rising <=> y < k
      BY NumbersRise
    <3>2. \A y : y \in 1 .. k - 1 <=> y \in 1 .. n /\ y < k
      OBVIOUS
    <3> QED
      BY <3>1, <3>2 DEF Earlier
  <2>2. k - 1 \in Nat
    OBVIOUS
  <2>3. Cardinality(1 .. k - 1) = k - 1
    <3>1. \A m \in Nat : Cardinality(1 .. m) = m
      BY FS_Interval
    <3> QED
      BY <2>2, <3>1
  <2> QED
    BY <2>1, <2>3 DEF Place
<1>4. ASSUME NEW k \in 1 .. n PROVE Member(Rising, 1 .. n, k - 1) = k
  <2>1. Member(Rising, 1 .. n, Place(Rising, 1 .. n, k)) = k
    BY <1>1, <1>2, MembersFill
  <2> QED
    BY <1>3, <2>1
<1>5. [k \in 1 .. n |-> s[Member(Rising, 1 .. n, k - 1)]] = [k \in 1 .. n |-> s[k]]
  BY <1>4
<1> QED
  BY <1>1, <1>5 DEF Listed

-----------------------------------------------------------------------------
(* The address of a page: CanonicalForm *)

LEMMA FilingCountsAreOne ==
    ASSUME NEW set
    PROVE  C!Cardinality(set) = Cardinality(set)
  BY Zenon DEF C!Cardinality, Cardinality

LEMMA PickedInOrder ==
    ASSUME NEW s, NEW at, at \subseteq Int
    PROVE  C!Picked(s, at) = Listed(Rising, at, s)
<1>1. ASSUME NEW x \in at PROVE C!Cardinality({y \in at : y < x}) = Place(Rising, at, x)
  <2>1. {y \in at : y < x} = Earlier(Rising, at, x)
    BY NumbersRise, Zenon DEF Earlier
  <2> QED
    BY <2>1, FilingCountsAreOne DEF Place
<1>2. ASSUME NEW k PROVE C!Nth(at, k) = Member(Rising, at, k)
  BY <1>1, Zenon DEF C!Nth, Member
<1> QED
  BY <1>2, FilingCountsAreOne, Zenon DEF C!Picked, Listed

\* A query as the parameters at its positions.
Parameters == [name : Nat, value : Nat, layers : Nat]
Queries(n) == [1 .. n -> Parameters]

Named(q) == {p \in (DOMAIN q) \X (DOMAIN q) : C!Before(q, p[1], p[2])}
Under(q, name) == {i \in DOMAIN q : q[i].name = name}
ValuesUnder(q, name) == Listed(Rising, Under(q, name), [i \in DOMAIN q |-> q[i].value])

LEMMA NamesAreOrdered ==
    ASSUME NEW n \in Nat, NEW q \in Queries(n)
    PROVE  /\ DOMAIN q = 1 .. n /\ IsFiniteSet(DOMAIN q) /\ Cardinality(DOMAIN q) = n
           /\ OrderOn(Named(q), DOMAIN q)
           /\ \A i, j \in DOMAIN q : <<i, j>> \in Named(q) <=> C!Before(q, i, j)
<1>1. DOMAIN q = 1 .. n /\ \A i \in 1 .. n : q[i] \in Parameters /\ q[i].name \in Nat /\ i \in Int
  BY DEF Queries, Parameters
<1>2. \A i, j \in DOMAIN q : <<i, j>> \in Named(q) <=> C!Before(q, i, j)
  BY DEF Named
<1>3. ASSUME NEW i \in 1 .. n, NEW j \in 1 .. n, NEW k \in 1 .. n
      PROVE  /\ ~C!Before(q, i, i)
             /\ i = j \/ C!Before(q, i, j) \/ C!Before(q, j, i)
             /\ C!Before(q, i, j) /\ C!Before(q, j, k) => C!Before(q, i, k)
  BY <1>1 DEF C!Before
<1>4. OrderOn(Named(q), DOMAIN q)
  BY <1>1, <1>2, <1>3, Zenon DEF OrderOn
<1>5. IsFiniteSet(1 .. n) /\ Cardinality(1 .. n) = n
  <2>1. \A m \in Nat : IsFiniteSet(1 .. m) /\ Cardinality(1 .. m) = m
    BY FS_Interval
  <2> QED
    BY <2>1
<1> QED
  BY <1>1, <1>2, <1>4, <1>5, Zenon

LEMMA SortedByName ==
    ASSUME NEW n \in Nat, NEW q \in Queries(n)
    PROVE  /\ C!Sorted(q) = Listed(Named(q), DOMAIN q, q)
           /\ C!Sorted(q) = [k \in 1 .. n |-> q[Member(Named(q), DOMAIN q, k - 1)]]
           /\ C!Sorted(q) \in Queries(n)
<1>1. /\ DOMAIN q = 1 .. n /\ IsFiniteSet(DOMAIN q) /\ Cardinality(DOMAIN q) = n
      /\ OrderOn(Named(q), DOMAIN q)
      /\ \A i, j \in DOMAIN q : <<i, j>> \in Named(q) <=> C!Before(q, i, j)
  BY NamesAreOrdered
<1>2. ASSUME NEW i \in DOMAIN q
      PROVE  C!Cardinality({j \in DOMAIN q : C!Before(q, j, i)}) = Place(Named(q), DOMAIN q, i)
  <2>1. {j \in DOMAIN q : C!Before(q, j, i)} = Earlier(Named(q), DOMAIN q, i)
    BY <1>1, Zenon DEF Earlier
  <2> QED
    BY <2>1, FilingCountsAreOne, Zenon DEF Place
<1>3. C!Sorted(q) = [k \in DOMAIN q |-> q[Member(Named(q), DOMAIN q, k - 1)]]
  <2>1. ASSUME NEW k
        PROVE  (CHOOSE i \in DOMAIN q : C!Cardinality({j \in DOMAIN q : C!Before(q, j, i)}) = k - 1)
               = Member(Named(q), DOMAIN q, k - 1)
    BY <1>2, Zenon DEF Member
  <2>2. ASSUME NEW k \in DOMAIN q
        PROVE  q[CHOOSE i \in DOMAIN q : C!Cardinality({j \in DOMAIN q : C!Before(q, j, i)}) = k - 1]
               = q[Member(Named(q), DOMAIN q, k - 1)]
    BY <2>1, Zenon
  <2> QED
    BY <2>2, Zenon DEF C!Sorted
<1>4. ASSUME NEW k \in 1 .. n PROVE Member(Named(q), DOMAIN q, k - 1) \in DOMAIN q
  <2>1. k - 1 \in 0 .. n - 1
    OBVIOUS
  <2> QED
    BY <1>1, <2>1, MembersFill, Zenon
<1>5. C!Sorted(q) \in Queries(n)
  <2>1. \A k \in 1 .. n : q[Member(Named(q), DOMAIN q, k - 1)] \in Parameters
    BY <1>1, <1>4 DEF Queries
  <2> QED
    BY <1>1, <1>3, <2>1, Zenon DEF Queries
<1> QED
  BY <1>1, <1>3, <1>5, Zenon DEF Listed

\* Sorting by name leaves every name its values in order.
LEMMA SortingIsStable ==
    ASSUME NEW n \in Nat, NEW q \in Queries(n), NEW name
    PROVE  ValuesUnder(C!Sorted(q), name) = ValuesUnder(q, name)
<1> DEFINE r == C!Sorted(q)
           all == DOMAIN q
           at == Found(Named(q), all, Under(q, name))
           values == [i \in all |-> q[i].value]
           whole == Listed(Named(q), all, values)
<1>1. /\ all = 1 .. n /\ IsFiniteSet(all) /\ Cardinality(all) = n
      /\ OrderOn(Named(q), all)
      /\ \A i, j \in all : <<i, j>> \in Named(q) <=> C!Before(q, i, j)
  BY NamesAreOrdered
<1>2. r = [k \in 1 .. n |-> q[Member(Named(q), all, k - 1)]] /\ r \in Queries(n)
  BY SortedByName
<1>3. ASSUME NEW k \in 1 .. n PROVE Member(Named(q), all, k - 1) \in all
  <2>1. k - 1 \in 0 .. n - 1
    OBVIOUS
  <2> HIDE DEF all
  <2> QED
    BY <1>1, <2>1, MembersFill, Zenon
<1>4. Under(q, name) \in SUBSET all
  BY DEF Under
<1>5. Listed(Rising, at, whole) = Listed(Named(q), Under(q, name), values)
  <2>1. IsFiniteSet(all)
    BY <1>1, Zenon
  <2>2. OrderOn(Named(q), all)
    BY <1>1, Zenon
  <2> HIDE DEF all, values
  <2> QED
    BY <1>4, <2>1, <2>2, PartsAreListed
<1>6. at = Under(r, name) /\ whole = [k \in DOMAIN r |-> r[k].value]
  <2>1. DOMAIN r = 1 .. n /\ \A k \in 1 .. n : r[k] = q[Member(Named(q), all, k - 1)]
    BY <1>2
  <2> HIDE DEF r, all
  <2>2. \A k \in 1 .. n : Member(Named(q), all, k - 1) \in Under(q, name) <=> r[k].name = name
    BY <1>3, <2>1 DEF Under, all
  <2>3. \A k \in 1 .. n : values[Member(Named(q), all, k - 1)] = r[k].value
    BY <1>3, <2>1
  <2>4. at = Under(r, name)
    BY <1>1, <2>1, <2>2, Zenon DEF Under, Found
  <2>5. whole = [k \in DOMAIN r |-> r[k].value]
    BY <1>1, <2>1, <2>3, Zenon DEF Listed
  <2> QED
    BY <2>4, <2>5
<1>7. Listed(Named(q), Under(q, name), values) = Listed(Rising, Under(q, name), values)
  <2>1. IsFiniteSet(Under(q, name)) /\ Under(q, name) \subseteq Int
    BY <1>1, <1>4, FS_Subset
  <2>2. OrderOn(Named(q), Under(q, name)) /\ OrderOn(Rising, Under(q, name))
    BY <1>1, <1>4, <2>1, PartsAreOrdered, NumbersRise
  <2>3. ASSUME NEW i \in Under(q, name), NEW j \in Under(q, name)
        PROVE  <<i, j>> \in Named(q) <=> <<i, j>> \in Rising
    <3>1. <<i, j>> \in Rising <=> i < j
      BY <2>1, NumbersRise
    <3>2. i \in all /\ j \in all /\ q[i].name = q[j].name /\ q[i].name \in Nat
      BY <1>1 DEF Under, Queries, Parameters
    <3>3. C!Before(q, i, j) <=> i < j
      BY <3>2 DEF C!Before
    <3> QED
      BY <1>1, <3>1, <3>2, <3>3
  <2> HIDE DEF values
  <2> QED
    BY <2>1, <2>2, <2>3, OrdersAgree
<1> QED
  BY <1>5, <1>6, <1>7, Zenon DEF ValuesUnder

KeptAt(q) == {i \in DOMAIN q : C!Said(q[i]) /\ q[i].name \notin Tracking}
Plain(q) == \A i \in DOMAIN q : q[i].layers = 0 /\ C!Said(q[i]) /\ q[i].name \notin Tracking

\* What is kept of a query is written plainly, and gives a name that is not
\* of a campaign the values it was given.
LEMMA NothingSaidIsLost ==
    ASSUME NEW n \in Nat, NEW q \in Queries(n)
    PROVE  /\ C!Kept(q) \in Queries(Cardinality(KeptAt(q))) /\ Cardinality(KeptAt(q)) \in Nat
           /\ Plain(C!Kept(q))
           /\ C!Kept(q) = Listed(Rising, KeptAt(q), [i \in DOMAIN q |-> C!Undone(q[i])])
           /\ \A name : name \notin Tracking =>
                 ValuesUnder(C!Kept(q), name)
                 = C!Picked([i \in DOMAIN q |-> q[i].value],
                            {i \in DOMAIN q : q[i].name = name /\ C!Said(q[i])})
<1> DEFINE at == KeptAt(q)
           undone == [i \in DOMAIN q |-> C!Undone(q[i])]
           values == [i \in DOMAIN q |-> q[i].value]
           r == C!Kept(q)
           c == Cardinality(at)
           said(name) == {i \in DOMAIN q : q[i].name = name /\ C!Said(q[i])}
<1>1. DOMAIN q = 1 .. n /\ \A i \in 1 .. n : q[i] \in Parameters
  BY DEF Queries
<1>2. IsFiniteSet(at) /\ at \subseteq 1 .. n /\ at \subseteq Int /\ OrderOn(Rising, at) /\ c \in Nat
  <2>1. at \subseteq 1 .. n /\ 1 .. n \subseteq Int /\ IsFiniteSet(1 .. n)
    BY <1>1, FS_Interval DEF KeptAt
  <2>2. IsFiniteSet(at) /\ at \subseteq Int
    BY <2>1, FS_Subset
  <2> HIDE DEF at
  <2> QED
    BY <2>1, <2>2, NumbersRise, FS_CardinalityType, Zenon
<1>3. r = Listed(Rising, at, undone)
  <2>1. r = C!Picked(undone, at)
    BY DEF C!Kept, KeptAt
  <2> HIDE DEF r, undone, at
  <2> QED
    BY <1>2, <2>1, PickedInOrder, Zenon
<1>4. ASSUME NEW k \in 1 .. c PROVE Member(Rising, at, k - 1) \in at
  <2>1. k - 1 \in 0 .. c - 1
    BY <1>2
  <2> HIDE DEF at
  <2> QED
    BY <1>2, <2>1, MembersFill
<1>5. DOMAIN r = 1 .. c /\ \A k \in 1 .. c : r[k] = C!Undone(q[Member(Rising, at, k - 1)])
  <2>1. \A k \in 1 .. c : undone[Member(Rising, at, k - 1)] = C!Undone(q[Member(Rising, at, k - 1)])
    BY <1>1, <1>2, <1>4
  <2> HIDE DEF r, undone, at
  <2> QED
    BY <1>3, <2>1 DEF Listed
<1>6. ASSUME NEW k \in 1 .. c
      PROVE  /\ r[k] \in Parameters /\ r[k].layers = 0 /\ C!Said(r[k]) /\ r[k].name \notin Tracking
             /\ r[k].name = q[Member(Rising, at, k - 1)].name
             /\ r[k].value = q[Member(Rising, at, k - 1)].value
  <2> DEFINE i == Member(Rising, at, k - 1)
  <2>1. q[i] \in Parameters /\ C!Said(q[i]) /\ q[i].name \notin Tracking
    BY <1>1, <1>2, <1>4 DEF KeptAt
  <2> HIDE DEF i, r
  <2>2. r[k] = C!Undone(q[i])
    BY <1>5 DEF i
  <2> QED
    BY <2>1, <2>2 DEF C!Undone, C!Said, Parameters, i
<1>7. r \in Queries(c) /\ Plain(r)
  <2>1. r = [k \in 1 .. c |-> r[k]]
    BY <1>3, <1>5 DEF Listed
  <2> HIDE DEF r
  <2> QED
    BY <1>5, <1>6, <2>1 DEF Queries, Plain
<1>8. ASSUME NEW name, name \notin Tracking
      PROVE  ValuesUnder(r, name) = C!Picked(values, said(name))
  <2> DEFINE part == said(name)
  <2>1. part \in SUBSET at /\ part \subseteq Int
    BY <1>1, <1>8 DEF KeptAt
  <2>2. Under(r, name) = Found(Rising, at, part)
    <3>1. ASSUME NEW k \in 1 .. c PROVE r[k].name = name <=> Member(Rising, at, k - 1) \in part
      <4>1. Member(Rising, at, k - 1) \in at
        BY <1>4
      <4> HIDE DEF r
      <4> QED
        BY <1>6, <4>1 DEF KeptAt
    <3> HIDE DEF r, at, part
    <3> QED
      BY <1>5, <3>1, Zenon DEF Under, Found
  <2>3. [k \in DOMAIN r |-> r[k].value] = Listed(Rising, at, values)
    <3>1. \A k \in 1 .. c : values[Member(Rising, at, k - 1)] = r[k].value
      <4>1. \A k \in 1 .. c : Member(Rising, at, k - 1) \in DOMAIN q
        BY <1>1, <1>2, <1>4
      <4> HIDE DEF r, at
      <4> QED
        BY <1>6, <4>1
    <3> HIDE DEF r, at, values
    <3> QED
      BY <1>5, <3>1, Zenon DEF Listed
  <2>4. ValuesUnder(r, name) = Listed(Rising, Found(Rising, at, part), Listed(Rising, at, values))
    <3> HIDE DEF r, at, part, values
    <3> QED
      BY <2>2, <2>3, Zenon DEF ValuesUnder
  <2>5. Listed(Rising, Found(Rising, at, part), Listed(Rising, at, values)) = Listed(Rising, part, values)
    <3>1. IsFiniteSet(at)
      BY <1>2
    <3>2. OrderOn(Rising, at)
      BY <1>2
    <3>3. part \in SUBSET at
      BY <2>1
    <3> HIDE DEF at, part, values
    <3> QED
      BY <3>1, <3>2, <3>3, PartsAreListed
  <2>6. C!Picked(values, part) = Listed(Rising, part, values)
    <3> HIDE DEF part, values
    <3> QED
      BY <2>1, PickedInOrder, Zenon
  <2> HIDE DEF r, at, part, values
  <2> QED
    BY <2>4, <2>5, <2>6 DEF part
<1> QED
  <2> HIDE DEF r, at, undone, values, said
  <2>1. r \in Queries(c) /\ c \in Nat /\ Plain(r) /\ r = Listed(Rising, at, undone)
    BY <1>2, <1>3, <1>7
  <2>2. \A name : name \notin Tracking => ValuesUnder(r, name) = C!Picked(values, said(name))
    BY <1>8
  <2> QED
    BY <2>1, <2>2, Zenon DEF r, at, undone, values, said, c

\* Two plain queries that give every name the same values are sorted alike:
\* the j-th value of a name stands where the j-th value of that name stands.
LEMMA SameValuesSortAlike ==
    ASSUME NEW n \in Nat, NEW q \in Queries(n), Plain(q), NEW m \in Nat, NEW r \in Queries(m), Plain(r),
           \A name : ValuesUnder(q, name) = ValuesUnder(r, name)
    PROVE  C!Sorted(q) = C!Sorted(r)
<1> DEFINE placed(i) == Place(Rising, Under(q, q[i].name), i)
           phi == [i \in DOMAIN q |-> Member(Rising, Under(r, q[i].name), placed(i))]
<1>1. /\ DOMAIN q = 1 .. n /\ \A i \in 1 .. n : q[i] \in Parameters
      /\ DOMAIN r = 1 .. m /\ \A i \in 1 .. m : r[i] \in Parameters
  BY DEF Queries
<1>2. ASSUME NEW name
      PROVE  /\ Under(q, name) \subseteq 1 .. n /\ IsFiniteSet(Under(q, name)) /\ OrderOn(Rising, Under(q, name))
             /\ Under(r, name) \subseteq 1 .. m /\ IsFiniteSet(Under(r, name)) /\ OrderOn(Rising, Under(r, name))
             /\ Cardinality(Under(q, name)) \in Nat /\ Cardinality(Under(q, name)) = Cardinality(Under(r, name))
  <2>1. Under(q, name) \subseteq 1 .. n /\ Under(r, name) \subseteq 1 .. m
    BY <1>1 DEF Under
  <2>2. IsFiniteSet(1 .. n) /\ IsFiniteSet(1 .. m)
    BY FS_Interval
  <2>3. IsFiniteSet(Under(q, name)) /\ IsFiniteSet(Under(r, name))
    BY <2>1, <2>2, FS_Subset
  <2>4. OrderOn(Rising, Under(q, name)) /\ OrderOn(Rising, Under(r, name))
    <3>1. Under(q, name) \subseteq Int /\ Under(r, name) \subseteq Int
      BY <2>1
    <3> QED
      BY <3>1, NumbersRise
  <2>5. Cardinality(Under(q, name)) \in Nat /\ Cardinality(Under(r, name)) \in Nat
    BY <2>3, FS_CardinalityType
  <2>6. 1 .. Cardinality(Under(q, name)) = 1 .. Cardinality(Under(r, name))
    <3>1. DOMAIN ValuesUnder(q, name) = DOMAIN ValuesUnder(r, name)
      BY Zenon
    <3> QED
      BY <3>1 DEF ValuesUnder, Listed
  <2> QED
    BY <2>1, <2>3, <2>4, <2>5, <2>6
<1>3. ASSUME NEW name, NEW i \in Under(q, name)
      PROVE  /\ Place(Rising, Under(q, name), i) \in 0 .. Cardinality(Under(r, name)) - 1
             /\ LET j == Member(Rising, Under(r, name), Place(Rising, Under(q, name), i)) IN
                /\ j \in Under(r, name) /\ q[i] = r[j]
                /\ Place(Rising, Under(r, name), j) = Place(Rising, Under(q, name), i)
  <2> DEFINE c == Cardinality(Under(q, name))
             p == Place(Rising, Under(q, name), i)
             j == Member(Rising, Under(r, name), p)
  <2>1. p \in 0 .. c - 1 /\ c \in Nat /\ c = Cardinality(Under(r, name))
    BY <1>2, PlacesFill
  <2>2. Member(Rising, Under(q, name), p) = i
    BY <1>2, MembersFill
  <2>3. j \in Under(r, name) /\ Place(Rising, Under(r, name), j) = p
    <3> HIDE DEF p
    <3> QED
      BY <1>2, <2>1, MembersFill
  <2>4. q[i].value = r[j].value
    <3> DEFINE a == [k \in DOMAIN q |-> q[k].value]
               b == [k \in DOMAIN r |-> r[k].value]
    <3>1. /\ ValuesUnder(q, name) = [k \in 1 .. c |-> a[Member(Rising, Under(q, name), k - 1)]]
          /\ ValuesUnder(r, name) = [k \in 1 .. c |-> b[Member(Rising, Under(r, name), k - 1)]]
      BY <2>1 DEF ValuesUnder, Listed
    <3>2. p + 1 \in 1 .. c /\ (p + 1) - 1 = p
      <4> HIDE DEF p, c
      <4> QED
        BY <2>1
    <3>3. a[i] = q[i].value /\ b[j] = r[j].value
      BY <2>3 DEF Under
    <3> HIDE DEF p, c, a, b
    <3>4. ValuesUnder(q, name)[p + 1] = a[i] /\ ValuesUnder(r, name)[p + 1] = b[j]
      BY <2>2, <3>1, <3>2
    <3>5. ValuesUnder(q, name)[p + 1] = ValuesUnder(r, name)[p + 1]
      BY Zenon
    <3> QED
      BY <3>3, <3>4, <3>5
  <2>5. q[i] = r[j]
    <3>1. q[i].name = name /\ r[j].name = name /\ i \in 1 .. n /\ j \in 1 .. m
      BY <1>1, <2>3 DEF Under
    <3>2. q[i] \in Parameters /\ r[j] \in Parameters /\ q[i].layers = 0 /\ r[j].layers = 0
      BY <1>1, <3>1 DEF Plain
    <3> HIDE DEF j
    <3> QED
      BY <2>4, <3>1, <3>2 DEF Parameters
  <2> QED
    BY <2>1, <2>3, <2>5
<1>4. ASSUME NEW i \in DOMAIN q
      PROVE  /\ i \in Under(q, q[i].name) /\ phi[i] \in Under(r, q[i].name) /\ phi[i] \in DOMAIN r
             /\ q[i] = r[phi[i]]
             /\ Place(Rising, Under(r, q[i].name), phi[i]) = placed(i)
  <2>1. i \in Under(q, q[i].name)
    BY DEF Under
  <2>2. phi[i] = Member(Rising, Under(r, q[i].name), Place(Rising, Under(q, q[i].name), i))
    OBVIOUS
  <2> HIDE DEF phi
  <2>3. phi[i] \in Under(r, q[i].name) /\ q[i] = r[phi[i]]
        /\ Place(Rising, Under(r, q[i].name), phi[i]) = placed(i)
    BY <1>3, <2>1, <2>2
  <2> QED
    BY <2>1, <2>3 DEF Under
<1>5. ASSUME NEW i \in DOMAIN q, NEW j \in DOMAIN q, q[i].name = q[j].name
      PROVE  /\ i < j <=> phi[i] < phi[j]
             /\ phi[i] = phi[j] => i = j
  <2> DEFINE name == q[i].name
             a == Under(q, name)
             b == Under(r, name)
  <2>1. /\ i \in a /\ j \in a /\ phi[i] \in b /\ phi[j] \in b
        /\ Place(Rising, b, phi[i]) = Place(Rising, a, i) /\ Place(Rising, b, phi[j]) = Place(Rising, a, j)
    <3> HIDE DEF phi
    <3> QED
      BY <1>4, <1>5
  <2>2. /\ a \subseteq Int /\ b \subseteq Int
        /\ IsFiniteSet(a) /\ IsFiniteSet(b) /\ OrderOn(Rising, a) /\ OrderOn(Rising, b)
    BY <1>2
  <2> HIDE DEF phi, a, b
  <2>3. /\ \A x, y \in a : x < y <=> Place(Rising, a, x) < Place(Rising, a, y)
        /\ \A x, y \in b : x < y <=> Place(Rising, b, x) < Place(Rising, b, y)
        /\ \A x, y \in a : Place(Rising, a, x) = Place(Rising, a, y) => x = y
    <3>1. /\ \A x, y \in a : <<x, y>> \in Rising <=> Place(Rising, a, x) < Place(Rising, a, y)
          /\ \A x, y \in b : <<x, y>> \in Rising <=> Place(Rising, b, x) < Place(Rising, b, y)
          /\ \A x, y \in a : Place(Rising, a, x) = Place(Rising, a, y) => x = y
      BY <2>2, PlacesFill
    <3>2. /\ \A x, y \in a : <<x, y>> \in Rising <=> x < y
          /\ \A x, y \in b : <<x, y>> \in Rising <=> x < y
      BY <2>2, NumbersRise
    <3> QED
      BY <3>1, <3>2, Zenon
  <2> QED
    BY <2>1, <2>3
<1>6. phi \in Bijection(DOMAIN q, DOMAIN r)
  <2>1. phi \in [DOMAIN q -> DOMAIN r]
    BY <1>4
  <2>2. ASSUME NEW i \in DOMAIN q, NEW j \in DOMAIN q, phi[i] = phi[j] PROVE i = j
    <3>1. q[i] = q[j]
      <4> HIDE DEF phi
      <4> QED
        BY <1>4, <2>2
    <3> HIDE DEF phi
    <3> QED
      BY <1>5, <2>2, <3>1
  <2>3. ASSUME NEW j \in DOMAIN r PROVE \E i \in DOMAIN q : phi[i] = j
    <3> DEFINE name == r[j].name
               a == Under(q, name)
               b == Under(r, name)
               p == Place(Rising, b, j)
               i == Member(Rising, a, p)
    <3>1. j \in b
      BY DEF Under
    <3>2. /\ IsFiniteSet(a) /\ IsFiniteSet(b) /\ OrderOn(Rising, a) /\ OrderOn(Rising, b)
          /\ Cardinality(a) = Cardinality(b)
      BY <1>2
    <3>3. p \in 0 .. Cardinality(a) - 1 /\ Member(Rising, b, p) = j
      <4> HIDE DEF a, b
      <4> QED
        BY <3>1, <3>2, PlacesFill, MembersFill
    <3>4. i \in a /\ Place(Rising, a, i) = p
      <4> HIDE DEF a, b, p
      <4> QED
        BY <3>2, <3>3, MembersFill
    <3>5. i \in DOMAIN q /\ q[i].name = name
      <4> HIDE DEF i, name
      <4> QED
        BY <3>4 DEF Under
    <3>6. phi[i] = Member(Rising, Under(r, q[i].name), Place(Rising, Under(q, q[i].name), i))
      <4> HIDE DEF i
      <4> QED
        BY <3>5
    <3>7. phi[i] = Member(Rising, b, p)
      <4> HIDE DEF i, phi, p, name
      <4> QED
        BY <3>4, <3>5, <3>6
    <3> HIDE DEF i, phi, p
    <3> QED
      BY <3>3, <3>5, <3>7
  <2> HIDE DEF phi
  <2> QED
    BY <2>1, <2>2, <2>3, Zenon DEF Bijection, Injection, Surjection, IsInjective
<1>7. ASSUME NEW i \in DOMAIN q, NEW j \in DOMAIN q
      PROVE  <<i, j>> \in Named(q) <=> <<phi[i], phi[j]>> \in Named(r)
  <2> HIDE DEF phi
  <2>1. /\ <<i, j>> \in Named(q) <=> C!Before(q, i, j)
        /\ <<phi[i], phi[j]>> \in Named(r) <=> C!Before(r, phi[i], phi[j])
    BY <1>4, NamesAreOrdered
  <2>2. q[i] = r[phi[i]] /\ q[j] = r[phi[j]] /\ q[i].name \in Nat /\ q[j].name \in Nat
    BY <1>1, <1>4 DEF Parameters
  <2>3. C!Before(q, i, j) <=> C!Before(r, phi[i], phi[j])
    BY <1>5, <2>2 DEF C!Before
  <2> QED
    BY <2>1, <2>3
<1>8. /\ IsFiniteSet(DOMAIN q) /\ OrderOn(Named(q), DOMAIN q)
      /\ IsFiniteSet(DOMAIN r) /\ OrderOn(Named(r), DOMAIN r)
      /\ C!Sorted(q) = Listed(Named(q), DOMAIN q, q) /\ C!Sorted(r) = Listed(Named(r), DOMAIN r, r)
  BY NamesAreOrdered, SortedByName
<1> HIDE DEF phi
<1>9. Carries(phi, Named(q), DOMAIN q, Named(r), DOMAIN r)
  BY <1>6, <1>7, Zenon DEF Carries
<1>10. \A i \in DOMAIN q : q[i] = r[phi[i]]
  BY <1>4, Zenon
<1>11. Listed(Named(q), DOMAIN q, q) = Listed(Named(r), DOMAIN r, r)
  BY <1>8, <1>9, <1>10, ListedAlike
<1> QED
  BY <1>8, <1>11, Zenon

\* What is sorted and plain is kept and sorted as it is.
LEMMA SortedStaysSorted ==
    ASSUME NEW n \in Nat, NEW q \in Queries(n), Plain(q)
    PROVE  C!Sorted(C!Kept(C!Sorted(q))) = C!Sorted(q)
<1> DEFINE r == C!Sorted(q)
           o == [k \in 1 .. n |-> Member(Named(q), DOMAIN q, k - 1)]
<1>1. /\ DOMAIN q = 1 .. n /\ IsFiniteSet(DOMAIN q) /\ Cardinality(DOMAIN q) = n
      /\ OrderOn(Named(q), DOMAIN q)
      /\ \A i, j \in DOMAIN q : <<i, j>> \in Named(q) <=> C!Before(q, i, j)
  BY NamesAreOrdered
<1>2. r = [k \in 1 .. n |-> q[Member(Named(q), DOMAIN q, k - 1)]] /\ r \in Queries(n)
  BY SortedByName
<1>3. ASSUME NEW k \in 1 .. n, NEW l \in 1 .. n
      PROVE  o[k] \in DOMAIN q /\ o[l] \in DOMAIN q /\ (<<o[k], o[l]>> \in Named(q) <=> k < l)
  <2>1. k - 1 \in 0 .. n - 1 /\ l - 1 \in 0 .. n - 1 /\ (k - 1 < l - 1 <=> k < l)
    OBVIOUS
  <2>2. /\ \A i \in 0 .. n - 1 : Member(Named(q), DOMAIN q, i) \in DOMAIN q
        /\ \A i, j \in 0 .. n - 1 :
              <<Member(Named(q), DOMAIN q, i), Member(Named(q), DOMAIN q, j)>> \in Named(q) <=> i < j
    BY <1>1, MembersFill
  <2> QED
    BY <2>1, <2>2
<1>4. DOMAIN r = 1 .. n /\ \A k \in 1 .. n : r[k] = q[o[k]]
  BY <1>2
<1> HIDE DEF r, o
<1>5. Plain(r)
  <2>1. ASSUME NEW k \in 1 .. n PROVE r[k].layers = 0 /\ C!Said(r[k]) /\ r[k].name \notin Tracking
    <3>1. o[k] \in DOMAIN q /\ r[k] = q[o[k]]
      BY <1>3, <1>4, Zenon
    <3> QED
      BY <3>1 DEF Plain
  <2> QED
    BY <1>4, <2>1, Zenon DEF Plain
<1>6. C!Kept(r) = r
  <2> DEFINE undone == [i \in DOMAIN r |-> C!Undone(r[i])]
  <2>1. KeptAt(r) = 1 .. n
    BY <1>4, <1>5 DEF KeptAt, Plain
  <2>2. undone = r
    <3>1. \A i \in 1 .. n : C!Undone(r[i]) = r[i]
      <4>1. \A i \in 1 .. n : r[i] \in Parameters /\ r[i].layers = 0
        BY <1>2, <1>4, <1>5 DEF Queries, Plain
      <4> QED
        BY <4>1 DEF C!Undone, Parameters
    <3>2. r = [i \in 1 .. n |-> r[i]]
      BY <1>2 DEF Queries
    <3> QED
      BY <1>4, <3>1, <3>2, Zenon
  <2>3. C!Kept(r) = Listed(Rising, KeptAt(r), undone)
    BY <1>2, NothingSaidIsLost
  <2>4. r = [i \in 1 .. n |-> r[i]]
    BY <1>2 DEF Queries
  <2> HIDE DEF undone
  <2>5. Listed(Rising, 1 .. n, r) = [k \in 1 .. n |-> r[k]]
    BY WholeListed
  <2> QED
    BY <2>1, <2>2, <2>3, <2>4, <2>5, Zenon
<1>7. C!Sorted(r) = r
  <2>1. /\ OrderOn(Named(r), DOMAIN r) /\ IsFiniteSet(DOMAIN r)
        /\ \A i, j \in DOMAIN r : <<i, j>> \in Named(r) <=> C!Before(r, i, j)
        /\ C!Sorted(r) = Listed(Named(r), DOMAIN r, r)
    BY <1>2, NamesAreOrdered, SortedByName, Zenon
  <2>2. OrderOn(Rising, 1 .. n) /\ \A i, j \in 1 .. n : <<i, j>> \in Rising <=> i < j
    <3>1. 1 .. n \subseteq Int
      OBVIOUS
    <3> QED
      BY <3>1, NumbersRise, Zenon
  <2>3. ASSUME NEW i \in 1 .. n, NEW j \in 1 .. n
        PROVE  <<i, j>> \in Named(r) <=> <<i, j>> \in Rising
    <3>1. \A k \in 1 .. n : r[k].name \in Nat
      BY <1>2, <1>4 DEF Queries, Parameters
    <3>2. ASSUME NEW k \in 1 .. n, NEW l \in 1 .. n, k < l PROVE C!Before(r, k, l)
      <4>1. C!Before(q, o[k], o[l])
        BY <1>1, <1>3, <3>2, Zenon
      <4>2. r[k] = q[o[k]] /\ r[l] = q[o[l]]
        BY <1>4
      <4> QED
        BY <3>2, <4>1, <4>2 DEF C!Before
    <3>3. C!Before(r, i, j) <=> i < j
      <4>1. CASE i < j
        BY <3>2, <4>1
      <4>2. CASE j < i
        <5>1. C!Before(r, j, i)
          BY <3>2, <4>2
        <5> QED
          BY <3>1, <4>2, <5>1 DEF C!Before
      <4>3. CASE i = j
        BY <3>1, <4>3 DEF C!Before
      <4> QED
        BY <4>1, <4>2, <4>3
    <3> QED
      BY <1>4, <2>1, <2>2, <3>3
  <2>4. Listed(Named(r), 1 .. n, r) = Listed(Rising, 1 .. n, r)
    <3>1. IsFiniteSet(1 .. n)
      BY <1>4, <2>1, Zenon
    <3>2. OrderOn(Named(r), 1 .. n)
      BY <1>4, <2>1, Zenon
    <3> QED
      BY <2>2, <2>3, <3>1, <3>2, OrdersAgree
  <2>5. r = [i \in 1 .. n |-> r[i]]
    BY <1>2 DEF Queries
  <2>6. Listed(Rising, 1 .. n, r) = [k \in 1 .. n |-> r[k]]
    BY WholeListed
  <2> QED
    BY <1>4, <2>1, <2>4, <2>5, <2>6, Zenon
<1> QED
  BY <1>6, <1>7, Zenon DEF r

\* An address as Url::parse gives it; one that is a literal has no dots of
\* the root behind it.
PageAddresses ==
    {u \in [scheme : STRING, literal : BOOLEAN, labels : Seq(STRING), dots : Nat, credentials : BOOLEAN,
            fragment : BOOLEAN, path : Nat, query : UNION {Queries(n) : n \in Nat}] :
        u.literal => u.dots = 0}

FirstToStay(labels, i) == i \in DOMAIN labels /\ C!Stays(labels, i) /\ \A j \in 1 .. i - 1 : ~C!Stays(labels, j)

\* The prefix of a name ends at one label, and is every www before it.
LEMMA PrefixEnds ==
    ASSUME NEW labels \in Seq(STRING), labels # <<>>
    PROVE  \E i \in DOMAIN labels :
              /\ FirstToStay(labels, i) /\ C!Unprefixed(labels) = SubSeq(labels, i, Len(labels))
<1> DEFINE n == Len(labels)
           set == {i \in 1 .. n : C!Stays(labels, i)}
           chosen == CHOOSE i \in DOMAIN labels : C!Stays(labels, i) /\ \A j \in 1 .. i - 1 : ~C!Stays(labels, j)
<1>1. n \in Nat /\ DOMAIN labels = 1 .. n /\ n # 0
  BY ListFacts
<1>2. n \in set
  BY <1>1 DEF C!Stays
<1>3. PICK i \in set : Least(i, set)
  <2>1. set \in SUBSET (1 .. n) /\ set # {}
    BY <1>2
  <2> HIDE DEF set, n
  <2> QED
    BY <1>1, <2>1, Extremes, Zenon
<1>4. FirstToStay(labels, i)
  <2>1. i \in 1 .. n /\ C!Stays(labels, i)
    BY <1>3
  <2>2. ASSUME NEW j \in 1 .. i - 1, C!Stays(labels, j) PROVE FALSE
    <3>1. j \in 1 .. n /\ j < i
      BY <1>1, <2>1
    <3>2. j \in set
      BY <2>2, <3>1
    <3> HIDE DEF set
    <3> QED
      BY <1>1, <1>3, <2>1, <3>1, <3>2 DEF Least
  <2> QED
    BY <1>1, <2>1, <2>2 DEF FirstToStay
<1>5. FirstToStay(labels, chosen)
  BY <1>4, Zenon DEF FirstToStay
<1>6. C!Unprefixed(labels) = SubSeq(labels, chosen, Len(labels))
  BY Zenon DEF C!Unprefixed
<1> HIDE DEF chosen
<1> QED
  BY <1>5, <1>6, Zenon DEF FirstToStay

LEMMA OnlyOneIsFirst ==
    ASSUME NEW labels \in Seq(STRING), NEW i, FirstToStay(labels, i), NEW j, FirstToStay(labels, j)
    PROVE  i = j
<1>1. DOMAIN labels = 1 .. Len(labels) /\ Len(labels) \in Nat
  BY ListFacts
<1>2. i \in 1 .. Len(labels) /\ j \in 1 .. Len(labels)
  BY <1>1 DEF FirstToStay
<1>3. ~(i < j)
  <2>1. ASSUME i < j PROVE i \in 1 .. j - 1
    BY <1>1, <1>2, <2>1
  <2> QED
    BY <2>1, Zenon DEF FirstToStay
<1>4. ~(j < i)
  <2>1. ASSUME j < i PROVE j \in 1 .. i - 1
    BY <1>1, <1>2, <2>1
  <2> QED
    BY <2>1, Zenon DEF FirstToStay
<1> QED
  BY <1>1, <1>2, <1>3, <1>4

LEMMA UnprefixedStays ==
    ASSUME NEW labels \in Seq(STRING)
    PROVE  C!Unprefixed(C!Unprefixed(labels)) = C!Unprefixed(labels) /\ C!Unprefixed(labels) \in Seq(STRING)
<1>1. CASE labels = <<>>
  <2>1. C!Unprefixed(labels) = <<>>
    BY <1>1, Zenon DEF C!Unprefixed
  <2>2. <<>> \in Seq(STRING)
    OBVIOUS
  <2> QED
    BY <1>1, <2>1, <2>2, Zenon
<1>2. CASE labels # <<>>
  <2> DEFINE n == Len(labels)
             rest == C!Unprefixed(labels)
  <2>1. n \in Nat /\ DOMAIN labels = 1 .. n
    BY ListFacts
  <2>2. PICK i \in DOMAIN labels : FirstToStay(labels, i) /\ rest = SubSeq(labels, i, n)
    BY <1>2, PrefixEnds
  <2>3. i \in 1 .. n
    BY <2>1, <2>2
  <2> HIDE DEF n, rest
  <2>4. rest \in Seq(STRING) /\ Len(rest) = n - i + 1 /\ rest[1] = labels[i]
    <3>1. labels \in Seq(STRING) /\ n = Len(labels)
      BY DEF n
    <3> QED
      BY <2>1, <2>2, <2>3, <3>1
  <2>5. rest # <<>> /\ C!Stays(rest, 1)
    <3>1. C!Stays(labels, i)
      BY <2>2 DEF FirstToStay
    <3>2. Len(rest) \in Nat /\ Len(rest) # 0
      BY <2>1, <2>3, <2>4
    <3>3. rest # <<>>
      BY <2>4, <3>2, ListFacts
    <3>4. labels[i] # "www" \/ i + 2 > n
      BY <3>1 DEF C!Stays, n
    <3>5. rest[1] # "www" \/ 1 + 2 > Len(rest)
      BY <2>1, <2>3, <2>4, <3>4
    <3> QED
      BY <3>3, <3>5 DEF C!Stays
  <2>6. FirstToStay(rest, 1)
    <3>1. 1 \in DOMAIN rest
      <4>1. DOMAIN rest = 1 .. Len(rest) /\ Len(rest) \in Nat /\ Len(rest) # 0
        BY <2>4, <2>5, ListFacts
      <4> QED
        BY <4>1
    <3>2. 1 .. 1 - 1 = {}
      OBVIOUS
    <3> QED
      BY <2>5, <3>1, <3>2 DEF FirstToStay
  <2>7. PICK j \in DOMAIN rest : FirstToStay(rest, j) /\ C!Unprefixed(rest) = SubSeq(rest, j, Len(rest))
    BY <2>4, <2>5, PrefixEnds, Zenon
  <2>8. j = 1
    BY <2>4, <2>6, <2>7, OnlyOneIsFirst
  <2>9. SubSeq(rest, 1, Len(rest)) = rest
    BY <2>4
  <2> QED
    BY <2>4, <2>7, <2>8, <2>9 DEF rest
<1> QED
  BY <1>1, <1>2

\* What is kept of a name is the site it names.
LEMMA SiteIsKept ==
    ASSUME NEW u, u.labels \in Seq(STRING), u.literal = FALSE
    PROVE  C!Site(u) = C!Unprefixed(u.labels)
<1> DEFINE labels == u.labels
           n == Len(labels)
           run == {i \in DOMAIN labels : \A j \in 1 .. i : labels[j] = "www"}
           spare == IF n > 2 THEN n - 2 ELSE 0
           past(www) == (IF www < spare THEN www ELSE spare) + 1
<1>1. n \in Nat /\ DOMAIN labels = 1 .. n
  BY ListFacts
<1>2. C!Site(u) = SubSeq(labels, past(Cardinality(run)), n)
  <2>1. C!Cardinality(run) = Cardinality(run)
    BY FilingCountsAreOne
  <2> QED
    BY <2>1, Zenon DEF C!Site
<1>3. CASE labels = <<>>
  <2>1. n = 0 /\ run = {}
    BY <1>1, <1>3
  <2>2. Cardinality(run) = 0
    BY <2>1, FS_EmptySet, Zenon
  <2>3. past(Cardinality(run)) = 1
    BY <2>1, <2>2
  <2>4. SubSeq(labels, 1, 0) = <<>>
    BY <1>3
  <2> HIDE DEF past, run
  <2>5. C!Site(u) = <<>>
    BY <1>2, <2>1, <2>3, <2>4
  <2> QED
    BY <1>3, <2>5, Zenon DEF C!Unprefixed
<1>4. CASE labels # <<>>
  <2>1. PICK i \in DOMAIN labels : FirstToStay(labels, i) /\ C!Unprefixed(labels) = SubSeq(labels, i, n)
    BY <1>4, PrefixEnds
  <2>2. i \in 1 .. n /\ C!Stays(labels, i) /\ \A j \in 1 .. i - 1 : ~C!Stays(labels, j)
    BY <1>1, <2>1 DEF FirstToStay
  <2>3. \A j \in 1 .. i - 1 : labels[j] = "www" /\ j + 2 <= n
    <3>1. ASSUME NEW j \in 1 .. i - 1 PROVE labels[j] = "www" /\ ~(j + 2 > n)
      BY <2>2 DEF C!Stays
    <3> HIDE DEF n
    <3> QED
      BY <1>1, <2>2, <3>1
  <2>4. labels[i] # "www" \/ i + 2 > n
    BY <2>2 DEF C!Stays
  <2>5. IsFiniteSet(run) /\ Cardinality(run) \in Nat
    <3>1. run \subseteq 1 .. n /\ IsFiniteSet(1 .. n)
      BY <1>1, FS_Interval
    <3> HIDE DEF run
    <3> QED
      BY <3>1, FS_Subset, FS_CardinalityType, Zenon
  <2>6. 1 .. i - 1 \subseteq run
    <3>1. ASSUME NEW k \in 1 .. i - 1 PROVE k \in DOMAIN labels /\ \A j \in 1 .. k : labels[j] = "www"
      <4>1. k \in 1 .. n /\ \A j \in 1 .. k : j \in 1 .. i - 1
        BY <1>1, <2>2
      <4> HIDE DEF labels
      <4> QED
        BY <1>1, <2>3, <4>1
    <3> QED
      BY <3>1
  <2>7. Cardinality(1 .. i - 1) = i - 1
    <3>1. i - 1 \in Nat
      BY <1>1, <2>2
    <3>2. \A m \in Nat : Cardinality(1 .. m) = m
      BY FS_Interval
    <3> QED
      BY <3>1, <3>2
  <2>8. i - 1 <= Cardinality(run)
    <3> HIDE DEF run
    <3> QED
      BY <2>5, <2>6, <2>7, FS_Subset
  <2>9. CASE labels[i] # "www"
    <3>1. run = 1 .. i - 1
      <4>1. ASSUME NEW k \in run PROVE k \in 1 .. i - 1
        <5>1. k \in 1 .. n /\ \A j \in 1 .. k : labels[j] = "www"
          BY <1>1
        <5>2. ~(i <= k)
          <6>1. ASSUME i <= k PROVE i \in 1 .. k
            BY <1>1, <2>2, <5>1, <6>1
          <6> HIDE DEF labels, n
          <6> QED
            BY <2>9, <5>1, <6>1
        <5> HIDE DEF labels, n
        <5> QED
          BY <1>1, <2>2, <5>1, <5>2
      <4> HIDE DEF run
      <4> QED
        BY <2>6, <4>1, Zenon
    <3>2. Cardinality(run) = i - 1
      BY <2>7, <3>1
    <3>3. i - 1 <= spare
      <4>1. CASE i = 1
        BY <1>1, <4>1
      <4>2. CASE i # 1
        <5>1. i - 1 \in 1 .. i - 1
          BY <1>1, <2>2, <4>2
        <5>2. (i - 1) + 2 <= n
          BY <2>3, <5>1
        <5> HIDE DEF n
        <5> QED
          BY <1>1, <2>2, <5>2
      <4> QED
        BY <4>1, <4>2
    <3>4. past(Cardinality(run)) = i
      <4> HIDE DEF run, n
      <4> QED
        BY <1>1, <2>2, <3>2, <3>3
    <3> HIDE DEF past, run
    <3> QED
      BY <1>2, <2>1, <3>4
  <2>10. CASE i + 2 > n
    <3>1. i - 1 = spare
      <4>1. CASE i = 1
        <5> HIDE DEF n
        <5> QED
          BY <1>1, <2>10, <4>1, <2>2
      <4>2. CASE i # 1
        <5>1. i - 1 \in 1 .. i - 1
          BY <1>1, <2>2, <4>2
        <5>2. (i - 1) + 2 <= n
          BY <2>3, <5>1
        <5> HIDE DEF n
        <5> QED
          BY <1>1, <2>2, <2>10, <5>2, <4>2
      <4> QED
        BY <4>1, <4>2
    <3>2. past(Cardinality(run)) = i
      <4> HIDE DEF run, n
      <4> QED
        BY <1>1, <2>2, <2>5, <2>8, <3>1
    <3> HIDE DEF past, run
    <3> QED
      BY <1>2, <2>1, <3>2
  <2> QED
    BY <2>4, <2>9, <2>10
<1> QED
  BY <1>3, <1>4

\* What Canonical makes of an address that is not refused.
LEMMA FiledUnder ==
    ASSUME NEW u \in PageAddresses, C!Canonical(u) # C!Refused
    PROVE  LET labels == IF u.literal THEN u.labels ELSE C!Unprefixed(u.labels)
               cu == C!Canonical(u) IN
           /\ u.scheme \in {"http", "https"} /\ (u.literal \/ C!SafeHost(labels))
           /\ cu \in PageAddresses
           /\ cu.scheme = u.scheme /\ cu.literal = u.literal /\ cu.labels = labels /\ cu.dots = 0
           /\ cu.credentials = FALSE /\ cu.fragment = FALSE /\ cu.path = u.path
           /\ cu.query = C!Sorted(C!Kept(u.query))
<1> DEFINE labels == IF u.literal THEN u.labels ELSE C!Unprefixed(u.labels)
           query == C!Sorted(C!Kept(u.query))
           cu == [u EXCEPT !.labels = labels, !.dots = IF u.literal THEN @ ELSE 0,
                           !.credentials = FALSE, !.fragment = FALSE, !.query = query]
<1>1. /\ u.scheme \in STRING /\ u.literal \in BOOLEAN /\ u.labels \in Seq(STRING) /\ u.dots \in Nat
      /\ u.path \in Nat /\ (u.literal => u.dots = 0)
      /\ \E n \in Nat : u.query \in Queries(n)
  BY DEF PageAddresses
<1>2. labels \in Seq(STRING)
  BY <1>1, UnprefixedStays
<1>3. query \in UNION {Queries(n) : n \in Nat}
  <2>1. PICK n \in Nat : u.query \in Queries(n)
    BY <1>1
  <2>2. PICK m \in Nat : C!Kept(u.query) \in Queries(m)
    BY <2>1, NothingSaidIsLost, Zenon
  <2>3. query \in Queries(m)
    BY <2>2, SortedByName
  <2> QED
    BY <2>2, <2>3
<1>4. C!Canonical(u) = IF u.scheme \notin {"http", "https"} \/ (~u.literal /\ ~C!SafeHost(labels)) THEN C!Refused ELSE cu
  BY DEF C!Canonical
<1> HIDE DEF labels, query
<1>5. C!Canonical(u) = cu /\ u.scheme \in {"http", "https"} /\ (u.literal \/ C!SafeHost(labels))
  <2> HIDE DEF cu
  <2> QED
    BY <1>1, <1>4
<1>6. /\ cu.scheme = u.scheme /\ cu.literal = u.literal /\ cu.labels = labels /\ cu.dots = 0
      /\ cu.credentials = FALSE /\ cu.fragment = FALSE /\ cu.path = u.path /\ cu.query = query
  BY <1>1 DEF PageAddresses
<1>7. cu \in PageAddresses
  <2>1. cu \in [scheme : STRING, literal : BOOLEAN, labels : Seq(STRING), dots : Nat, credentials : BOOLEAN,
                fragment : BOOLEAN, path : Nat, query : UNION {Queries(n) : n \in Nat}]
    BY <1>1, <1>2, <1>3, Zenon DEF PageAddresses
  <2> HIDE DEF cu
  <2> QED
    BY <1>1, <1>6, <2>1 DEF PageAddresses
<1> HIDE DEF cu
<1> QED
  BY <1>5, <1>6, <1>7, Zenon DEF labels, query

\* Two plain lists of the same values, whatever their lengths.
LEMMA QueriesAgree ==
    ASSUME NEW u \in PageAddresses, NEW v \in PageAddresses
    PROVE  C!Sorted(C!Kept(u.query)) = C!Sorted(C!Kept(v.query))
           <=> \A n \in (C!Names(u) \union C!Names(v)) \ Tracking : C!Values(u, n) = C!Values(v, n)
<1> DEFINE a == C!Kept(u.query)
           b == C!Kept(v.query)
<1>1. PICK m \in Nat : u.query \in Queries(m)
  BY DEF PageAddresses
<1>2. PICK n \in Nat : v.query \in Queries(n)
  BY DEF PageAddresses
<1>3. /\ \E c \in Nat : a \in Queries(c)
      /\ Plain(a) /\ \A name : name \notin Tracking => ValuesUnder(a, name) = C!Values(u, name)
  BY <1>1, NothingSaidIsLost, Zenon DEF C!Values
<1>4. /\ \E c \in Nat : b \in Queries(c)
      /\ Plain(b) /\ \A name : name \notin Tracking => ValuesUnder(b, name) = C!Values(v, name)
  BY <1>2, NothingSaidIsLost DEF C!Values
<1> HIDE DEF a, b
<1>5. PICK c \in Nat : a \in Queries(c)
  BY <1>3
<1>6. PICK d \in Nat : b \in Queries(d)
  BY <1>4
<1>7. ASSUME C!Sorted(a) = C!Sorted(b), NEW name, name \notin Tracking
      PROVE  C!Values(u, name) = C!Values(v, name)
  <2>1. ValuesUnder(C!Sorted(a), name) = ValuesUnder(a, name)
    BY <1>5, SortingIsStable
  <2>2. ValuesUnder(C!Sorted(b), name) = ValuesUnder(b, name)
    BY <1>6, SortingIsStable
  <2> QED
    BY <1>3, <1>4, <1>7, <2>1, <2>2, Zenon
<1>8. ASSUME \A name \in (C!Names(u) \union C!Names(v)) \ Tracking : C!Values(u, name) = C!Values(v, name)
      PROVE  C!Sorted(a) = C!Sorted(b)
  <2>1. ASSUME NEW name PROVE ValuesUnder(a, name) = ValuesUnder(b, name)
    <3>1. CASE name \in Tracking
      <4>1. Under(a, name) = {} /\ Under(b, name) = {}
        BY <1>3, <1>4, <3>1 DEF Under, Plain
      <4>2. \A s : Listed(Rising, {}, s) = <<>>
        <5>1. Cardinality({}) = 0 /\ 1 .. 0 = {}
          BY FS_EmptySet
        <5> QED
          BY <5>1 DEF Listed
      <4> QED
        BY <4>1, <4>2, Zenon DEF ValuesUnder
    <3>2. CASE name \notin Tracking /\ name \in C!Names(u) \union C!Names(v)
      BY <1>3, <1>4, <1>8, <3>2, Zenon
    <3>3. CASE name \notin Tracking /\ name \notin C!Names(u) \union C!Names(v)
      <4>1. /\ {i \in DOMAIN u.query : u.query[i].name = name /\ C!Said(u.query[i])} = {}
            /\ {i \in DOMAIN v.query : v.query[i].name = name /\ C!Said(v.query[i])} = {}
        BY <3>3 DEF C!Names
      <4>2. \A s : C!Picked(s, {}) = <<>>
        <5>1. C!Cardinality({}) = 0 /\ 1 .. 0 = {}
          BY FilingCountsAreOne, FS_EmptySet
        <5> QED
          BY <5>1 DEF C!Picked
      <4>3. C!Values(u, name) = <<>> /\ C!Values(v, name) = <<>>
        BY <4>1, <4>2, Zenon DEF C!Values
      <4> QED
        BY <1>3, <1>4, <3>3, <4>3, Zenon
    <3> QED
      BY <3>1, <3>2, <3>3
  <2> QED
    BY <1>3, <1>4, <1>5, <1>6, <2>1, SameValuesSortAlike
<1> QED
  BY <1>7, <1>8 DEF a, b

\* Two addresses are one when their parts are.
LEMMA PagesAreTheirParts ==
    ASSUME NEW u \in PageAddresses, NEW v \in PageAddresses
    PROVE  u = v <=> /\ u.scheme = v.scheme /\ u.literal = v.literal /\ u.labels = v.labels
                     /\ u.dots = v.dots /\ u.credentials = v.credentials /\ u.fragment = v.fragment
                     /\ u.path = v.path /\ u.query = v.query
<1> DEFINE labels == Seq(STRING)
           queries == UNION {Queries(n) : n \in Nat}
           all == [scheme : STRING, literal : BOOLEAN, labels : labels, dots : Nat, credentials : BOOLEAN,
                   fragment : BOOLEAN, path : Nat, query : queries]
<1>1. u \in all /\ v \in all
  BY Zenon DEF PageAddresses
<1> HIDE DEF labels, queries
<1> QED
  BY <1>1

\* Two addresses are filed under one exactly when they name one page - the
\* same site, whatever stands for it in front, and for every parameter that is
\* not of a campaign the same values in the same order - and an address read
\* back from a record is filed where it was.
THEOREM PagesHaveOneAddress ==
    ASSUME NEW u \in PageAddresses, NEW v \in PageAddresses
    PROVE  C!OneItem(u, v)
<1> DEFINE cu == C!Canonical(u)
           cv == C!Canonical(v)
<1> SUFFICES ASSUME C!Refused \notin {cu, cv}
             PROVE  C!Canonical(cu) = cu /\ ((cu = cv) <=> C!SamePage(u, v))
  BY Zenon DEF C!OneItem
<1>1. /\ u.literal \in BOOLEAN /\ u.labels \in Seq(STRING) /\ v.literal \in BOOLEAN /\ v.labels \in Seq(STRING)
  BY DEF PageAddresses
<1> DEFINE named(w) == IF w.literal THEN w.labels ELSE C!Unprefixed(w.labels)
<1>2. /\ u.scheme \in {"http", "https"} /\ (u.literal \/ C!SafeHost(named(u)))
      /\ cu \in PageAddresses
      /\ cu.scheme = u.scheme /\ cu.literal = u.literal /\ cu.labels = named(u) /\ cu.dots = 0
      /\ cu.credentials = FALSE /\ cu.fragment = FALSE /\ cu.path = u.path
      /\ cu.query = C!Sorted(C!Kept(u.query))
  <2>1. C!Canonical(u) # C!Refused
    BY Zenon
  <2> QED
    BY <2>1, FiledUnder, Zenon
<1>3. /\ cv \in PageAddresses
      /\ cv.scheme = v.scheme /\ cv.literal = v.literal /\ cv.labels = named(v) /\ cv.dots = 0
      /\ cv.credentials = FALSE /\ cv.fragment = FALSE /\ cv.path = v.path
      /\ cv.query = C!Sorted(C!Kept(v.query))
  <2>1. C!Canonical(v) # C!Refused
    BY Zenon
  <2> QED
    BY <2>1, FiledUnder, Zenon
<1>4. C!Site(u) = named(u) /\ C!Site(v) = named(v)
  <2>1. ASSUME NEW w \in PageAddresses PROVE C!Site(w) = named(w)
    <3>1. w.literal \in BOOLEAN /\ w.labels \in Seq(STRING)
      BY DEF PageAddresses
    <3>2. CASE w.literal = TRUE
      BY <3>2 DEF C!Site
    <3>3. CASE w.literal = FALSE
      BY <3>1, <3>3, SiteIsKept, Zenon
    <3> QED
      BY <3>1, <3>2, <3>3
  <2> QED
    BY <2>1
<1>5. C!Canonical(cu) = cu
  <2>1. C!Sorted(C!Kept(cu.query)) = cu.query
    <3>1. PICK m \in Nat : u.query \in Queries(m)
      BY DEF PageAddresses
    <3>2. PICK n \in Nat : C!Kept(u.query) \in Queries(n)
      BY <3>1, NothingSaidIsLost, Zenon
    <3>3. Plain(C!Kept(u.query))
      BY <3>1, NothingSaidIsLost
    <3> HIDE DEF cu
    <3> QED
      BY <1>2, <3>2, <3>3, SortedStaysSorted
  <2>2. named(cu) = named(u)
    <3> HIDE DEF cu
    <3> QED
      BY <1>1, <1>2, UnprefixedStays
  <2> HIDE DEF cu, named
  <2>3. cu.scheme \in {"http", "https"} /\ (cu.literal \/ C!SafeHost(named(cu)))
    BY <1>2, <2>2
  <2>4. C!Canonical(cu) = [cu EXCEPT !.labels = named(cu), !.dots = IF cu.literal THEN @ ELSE 0,
                                     !.credentials = FALSE, !.fragment = FALSE, !.query = C!Sorted(C!Kept(cu.query))]
    BY <1>2, <2>3 DEF C!Canonical, named
  <2>5. [cu EXCEPT !.labels = named(cu), !.dots = IF cu.literal THEN @ ELSE 0,
                   !.credentials = FALSE, !.fragment = FALSE, !.query = C!Sorted(C!Kept(cu.query))] = cu
    BY <1>2, <2>1, <2>2, Zenon DEF PageAddresses
  <2> QED
    BY <2>4, <2>5, Zenon
<1>6. cu = cv <=> /\ u.scheme = v.scheme /\ u.literal = v.literal /\ u.path = v.path /\ named(u) = named(v)
                  /\ C!Sorted(C!Kept(u.query)) = C!Sorted(C!Kept(v.query))
  <2> HIDE DEF cu, cv, named
  <2>1. cu = cv <=> /\ cu.scheme = cv.scheme /\ cu.literal = cv.literal /\ cu.labels = cv.labels
                    /\ cu.dots = cv.dots /\ cu.credentials = cv.credentials /\ cu.fragment = cv.fragment
                    /\ cu.path = cv.path /\ cu.query = cv.query
    BY <1>2, <1>3, PagesAreTheirParts
  <2> QED
    BY <1>2, <1>3, <2>1, Zenon
<1>7. C!Sorted(C!Kept(u.query)) = C!Sorted(C!Kept(v.query))
      <=> \A n \in (C!Names(u) \union C!Names(v)) \ Tracking : C!Values(u, n) = C!Values(v, n)
  BY QueriesAgree
<1> HIDE DEF cu, cv, named
<1>8. cu = cv <=> C!SamePage(u, v)
  BY <1>4, <1>6, <1>7, Zenon DEF C!SamePage
<1> QED
  BY <1>5, <1>8

-----------------------------------------------------------------------------
(* The name of a note: Slug *)

LEMMA SlugCountsAreOne ==
    ASSUME NEW set
    PROVE  W!Cardinality(set) = Cardinality(set)
  BY Zenon DEF W!Cardinality, Cardinality

Marks == {"a", "-"}
Written == Seq(Marks)
Readings == [slug : Written, hyphen : BOOLEAN, full : BOOLEAN]
LettersUpTo(value, k) == Cardinality({i \in 1 .. k : value[i] = "a"})

LEMMA OneMoreLetter ==
    ASSUME NEW value, NEW k \in Nat
    PROVE  /\ LettersUpTo(value, k) \in Nat /\ LettersUpTo(value, 0) = 0
           /\ LettersUpTo(value, k + 1) = LettersUpTo(value, k) + IF value[k + 1] = "a" THEN 1 ELSE 0
<1> DEFINE upTo(n) == {i \in 1 .. n : value[i] = "a"}
<1>1. ASSUME NEW n \in Nat PROVE IsFiniteSet(upTo(n))
  <2>1. upTo(n) \subseteq 1 .. n /\ IsFiniteSet(1 .. n)
    BY FS_Interval
  <2> HIDE DEF upTo
  <2> QED
    BY <2>1, FS_Subset
<1>2. LettersUpTo(value, 0) = 0
  <2>1. upTo(0) = {}
    OBVIOUS
  <2> HIDE DEF upTo
  <2> QED
    BY <2>1, FS_EmptySet DEF LettersUpTo, upTo
<1>3. LettersUpTo(value, k) \in Nat
  <2>1. IsFiniteSet(upTo(k))
    BY <1>1
  <2> HIDE DEF upTo
  <2>2. Cardinality(upTo(k)) \in Nat
    BY <2>1, FS_CardinalityType
  <2> QED
    BY <2>2 DEF LettersUpTo, upTo
<1>4. value[k + 1] = "a" => LettersUpTo(value, k + 1) = LettersUpTo(value, k) + 1
  <2> HAVE value[k + 1] = "a"
  <2>1. \A i : i \in 1 .. k + 1 <=> i \in 1 .. k \/ i = k + 1
    OBVIOUS
  <2>2. upTo(k + 1) = upTo(k) \union {k + 1} /\ k + 1 \notin upTo(k)
    BY <2>1
  <2>3. Cardinality(upTo(k + 1)) = Cardinality(upTo(k)) + 1
    <3>1. IsFiniteSet(upTo(k))
      BY <1>1
    <3> HIDE DEF upTo
    <3> QED
      BY <2>2, <3>1, FS_AddElement
  <2> QED
    BY <2>3, Zenon DEF LettersUpTo
<1>5. value[k + 1] # "a" => LettersUpTo(value, k + 1) = LettersUpTo(value, k)
  <2> HAVE value[k + 1] # "a"
  <2>1. \A i : i \in 1 .. k + 1 <=> i \in 1 .. k \/ i = k + 1
    OBVIOUS
  <2>2. upTo(k + 1) = upTo(k)
    BY <2>1
  <2> QED
    BY <2>2, Zenon DEF LettersUpTo
<1> QED
  BY <1>2, <1>3, <1>4, <1>5

LEMMA LettersCounted ==
    ASSUME NEW set, NEW s \in Seq(set)
    PROVE  W!Letters(s) = LettersUpTo(s, Len(s))
<1>1. DOMAIN s = 1 .. Len(s)
  BY ListFacts
<1> QED
  BY <1>1, SlugCountsAreOne, Zenon DEF W!Letters, LettersUpTo

\* A letter more is one more, and a hyphen none.
LEMMA LettersAppended ==
    ASSUME NEW s \in Written, NEW x \in Marks
    PROVE  /\ W!Letters(s) \in Nat
           /\ W!Letters(Append(s, x)) = W!Letters(s) + IF x = "a" THEN 1 ELSE 0
<1> DEFINE t == Append(s, x)
           n == Len(s)
<1>1. /\ t \in Written /\ Len(t) = n + 1 /\ t[n + 1] = x /\ n \in Nat
      /\ \A i \in 1 .. n : t[i] = s[i]
  BY Appended, ListFacts DEF Written
<1> HIDE DEF t
<1>2. W!Letters(s) = LettersUpTo(s, n) /\ W!Letters(t) = LettersUpTo(t, n + 1)
  BY <1>1, LettersCounted DEF Written
<1> HIDE DEF n
<1>3. LettersUpTo(t, n) = LettersUpTo(s, n)
  <2>1. {i \in 1 .. n : t[i] = "a"} = {i \in 1 .. n : s[i] = "a"}
    BY <1>1
  <2> QED
    BY <2>1, Zenon DEF LettersUpTo
<1>4. LettersUpTo(t, n + 1) = LettersUpTo(t, n) + IF t[n + 1] = "a" THEN 1 ELSE 0
  BY <1>1, OneMoreLetter, Zenon
<1>5. LettersUpTo(s, n) \in Nat
  BY <1>1, OneMoreLetter
<1> QED
  BY <1>1, <1>2, <1>3, <1>4, <1>5 DEF t

\* What has been written after some bytes, count of them letters.
Spaced(slug) == \A i \in 1 .. Len(slug) - 1 : slug[i] = "a" \/ slug[i + 1] = "a"
Spelled(s, count) ==
    /\ Len(s.slug) <= SlugMaxBytes /\ Spaced(s.slug)
    /\ s.slug # <<>> => s.slug[1] = "a"
    /\ ~s.hyphen => s.slug # <<>> /\ s.slug[Len(s.slug)] = "a"
    /\ W!Letters(s.slug) <= count /\ (~s.full => W!Letters(s.slug) = count)
    /\ count > 0 => s.slug # <<>>
    /\ s.full => Len(s.slug) = SlugMaxBytes

\* Words stay one hyphen apart when one more byte is written.
LEMMA SpacingGoesOn ==
    ASSUME NEW n \in Nat, NEW slug, NEW l, \A j \in 1 .. n : l[j] = slug[j],
           \A i \in 1 .. n - 1 : slug[i] = "a" \/ slug[i + 1] = "a",
           l[n] = "a" \/ l[n + 1] = "a"
    PROVE  \A i \in 1 .. n : l[i] = "a" \/ l[i + 1] = "a"
<1> SUFFICES ASSUME NEW i \in 1 .. n PROVE l[i] = "a" \/ l[i + 1] = "a"
  OBVIOUS
<1>1. CASE i = n
  BY <1>1
<1>2. CASE i # n
  <2>1. i \in 1 .. n - 1 /\ i + 1 \in 1 .. n
    BY <1>2
  <2> QED
    BY <2>1
<1> QED
  BY <1>1, <1>2

LEMMA SpacingOfOneMore ==
    ASSUME NEW n \in Nat, NEW slug, NEW l, Len(slug) = n, Len(l) = n + 1, Spaced(slug),
           \A j \in 1 .. n : l[j] = slug[j], l[n] = "a" \/ l[n + 1] = "a"
    PROVE  Spaced(l)
<1>1. \A i \in 1 .. n - 1 : slug[i] = "a" \/ slug[i + 1] = "a"
  BY Zenon DEF Spaced
<1>2. \A i \in 1 .. n : l[i] = "a" \/ l[i + 1] = "a"
  BY <1>1, SpacingGoesOn
<1>3. Len(l) - 1 = n
  OBVIOUS
<1> QED
  BY <1>2, <1>3, Zenon DEF Spaced

LEMMA ReadingGoesOn ==
    ASSUME NEW s \in Readings, NEW c, NEW count \in Nat, Spelled(s, count)
    PROVE  W!Read(s, c) \in Readings /\ Spelled(W!Read(s, c), count + IF c = "a" THEN 1 ELSE 0)
<1> DEFINE slug == s.slug
           n == Len(slug)
           longer(x) == Append(slug, x)
<1>1. slug \in Written /\ s.hyphen \in BOOLEAN /\ s.full \in BOOLEAN
  BY DEF Readings
<1>2. n \in Nat /\ n <= SlugMaxBytes /\ SlugMaxBytes \in Nat /\ SlugMaxBytes # 0 /\ (slug = <<>> <=> n = 0)
  <2>1. n \in Nat /\ (slug = <<>> <=> n = 0)
    BY <1>1, ListFacts DEF Written
  <2> QED
    BY <2>1, FilingAssumption, Zenon DEF Spelled
<1>3. ASSUME NEW x \in Marks
      PROVE  /\ longer(x) \in Written /\ Len(longer(x)) = n + 1 /\ longer(x)[n + 1] = x
             /\ \A i \in 1 .. n : longer(x)[i] = slug[i]
             /\ longer(x) # <<>>
             /\ W!Letters(slug) \in Nat
             /\ W!Letters(longer(x)) = W!Letters(slug) + IF x = "a" THEN 1 ELSE 0
  <2>1. /\ longer(x) \in Written /\ Len(longer(x)) = n + 1 /\ longer(x)[n + 1] = x
        /\ \A i \in 1 .. n : longer(x)[i] = slug[i]
    BY <1>1, Appended DEF Written
  <2>2. /\ W!Letters(slug) \in Nat
        /\ W!Letters(longer(x)) = W!Letters(slug) + IF x = "a" THEN 1 ELSE 0
    BY <1>1, LettersAppended
  <2>3. longer(x) # <<>>
    <3>1. longer(x) = <<>> <=> Len(longer(x)) = 0
      BY <2>1, ListFacts, Zenon DEF Written
    <3> HIDE DEF longer
    <3> QED
      BY <1>2, <2>1, <3>1
  <2> QED
    BY <2>1, <2>2, <2>3
<1>4. "a" \in Marks /\ "-" \in Marks /\ "a" # "-"
  BY DEF Marks
<1>5. CASE s.full
  <2>1. W!Read(s, c) = s
    BY <1>5 DEF W!Read
  <2>2. W!Letters(slug) \in Nat
    BY <1>3, <1>4
  <2> QED
    BY <1>2, <1>5, <2>1, <2>2 DEF Spelled
<1>6. CASE ~s.full /\ c = "a"
  <2>1. CASE n = SlugMaxBytes
    <3>1. W!Read(s, c) = [s EXCEPT !.full = TRUE]
      BY <1>6, <2>1 DEF W!Read
    <3> DEFINE t == W!Read(s, c)
    <3>2. t \in Readings /\ t.slug = slug /\ t.hyphen = s.hyphen /\ t.full = TRUE
      BY <3>1, Zenon DEF Readings
    <3>3. W!Letters(slug) \in Nat
      BY <1>3, <1>4
    <3> HIDE DEF t
    <3> QED
      BY <1>2, <1>6, <2>1, <3>2, <3>3 DEF Spelled, t
  <2>2. CASE n # SlugMaxBytes
    <3>1. W!Read(s, c) = [s EXCEPT !.slug = longer("a"), !.hyphen = FALSE]
      BY <1>6, <2>2 DEF W!Read
    <3> DEFINE t == W!Read(s, c)
    <3>2. t \in Readings /\ t.slug = longer("a") /\ t.hyphen = FALSE /\ t.full = FALSE
      BY <1>1, <1>3, <1>4, <1>6, <3>1, Zenon DEF Readings
    <3>3. Spaced(longer("a"))
      <4> DEFINE l == longer("a")
      <4>1. /\ Len(l) = n + 1 /\ (l[n] = "a" \/ l[n + 1] = "a")
            /\ \A j \in 1 .. n : l[j] = slug[j]
        BY <1>3, <1>4
      <4>2. Len(slug) = n /\ Spaced(slug) /\ n \in Nat
        BY <1>2, Zenon DEF Spelled
      <4> HIDE DEF l, n, slug
      <4>3. Spaced(l)
        BY <4>1, <4>2, SpacingOfOneMore
      <4> QED
        BY <4>3, Zenon DEF l
    <3>4. longer("a")[1] = "a"
      <4> DEFINE l == longer("a")
      <4>1. l[n + 1] = "a" /\ \A j \in 1 .. n : l[j] = slug[j]
        BY <1>3, <1>4
      <4> HIDE DEF l
      <4>2. n # 0 => slug[1] = "a"
        BY <1>2 DEF Spelled
      <4> QED
        BY <1>2, <4>1, <4>2 DEF l
    <3> HIDE DEF t
    <3> DEFINE l == longer("a")
    <3>5. /\ Len(l) = n + 1 /\ l[n + 1] = "a" /\ l # <<>> /\ W!Letters(slug) \in Nat
          /\ W!Letters(l) = W!Letters(slug) + 1 /\ W!Letters(slug) = count
      BY <1>3, <1>4, <1>6 DEF Spelled
    <3> HIDE DEF l
    <3>6. t.slug = l /\ Spaced(l) /\ l[1] = "a"
      BY <3>2, <3>3, <3>4 DEF l
    <3>7. n + 1 <= SlugMaxBytes
      <4> HIDE DEF n
      <4> QED
        BY <1>2, <2>2
    <3> QED
      BY <1>2, <1>6, <3>2, <3>5, <3>6, <3>7 DEF Spelled, t
  <2> QED
    BY <2>1, <2>2
<1>7. CASE ~s.full /\ c # "a"
  <2>1. CASE s.hyphen \/ n >= SlugMaxBytes
    <3>1. W!Read(s, c) = s
      BY <1>7, <2>1 DEF W!Read
    <3> QED
      BY <1>7, <3>1
  <2>2. CASE ~(s.hyphen \/ n >= SlugMaxBytes)
    <3>1. W!Read(s, c) = [s EXCEPT !.slug = longer("-"), !.hyphen = TRUE]
      BY <1>7, <2>2 DEF W!Read
    <3> DEFINE t == W!Read(s, c)
               l == longer("-")
    <3>2. t \in Readings /\ t.slug = l /\ t.hyphen = TRUE /\ t.full = FALSE
      BY <1>1, <1>3, <1>4, <1>7, <3>1, Zenon DEF Readings
    <3>3. /\ Len(l) = n + 1 /\ l # <<>> /\ W!Letters(slug) \in Nat
          /\ W!Letters(l) = W!Letters(slug) + 0 /\ W!Letters(slug) = count
          /\ \A j \in 1 .. n : l[j] = slug[j]
      BY <1>3, <1>4, <1>7 DEF Spelled
    <3> HIDE DEF t, l
    <3>4. n # 0 /\ slug[1] = "a" /\ slug[n] = "a" /\ Spaced(slug)
      BY <1>2, <2>2 DEF Spelled
    <3>5. l[1] = "a" /\ l[n] = "a"
      BY <1>2, <3>3, <3>4
    <3>6. Spaced(l)
      <4>1. Len(slug) = n /\ n \in Nat
        BY <1>2
      <4> HIDE DEF n, slug
      <4> QED
        BY <3>3, <3>4, <3>5, <4>1, SpacingOfOneMore
    <3> QED
      BY <1>2, <1>7, <2>2, <3>2, <3>3, <3>5, <3>6 DEF Spelled, t
  <2> QED
    BY <2>1, <2>2
<1> QED
  BY <1>5, <1>6, <1>7

ReadAfter(value, k, s) == s \in Readings /\ Spelled(s, LettersUpTo(value, k))

\* A text is read byte by byte.
LEMMA TextIsReadInTurn ==
    ASSUME NEW bytes, NEW value \in Seq(bytes)
    PROVE  \E s : ReadAfter(value, Len(value), s) /\ W!Slugify(value) = W!WithoutTrailing(s.slug)
<1> DEFINE n == Len(value)
           f == [k \in 1 .. n |-> [s \in Readings |-> W!Read(s, value[k])]]
           folds(h) == h = [set \in SUBSET (1 .. n) |->
                              IF set = {} THEN W!Unread ELSE W!Read(h[set \ {Top(set)}], value[Top(set)])]
           iter == CHOOSE h : folds(h)
<1>1. n \in Nat /\ DOMAIN value = 1 .. n
  BY ListFacts
<1> HIDE DEF n
<1>2. W!Unread \in Readings /\ Spelled(W!Unread, 0)
  <2>1. <<>> \in Written /\ Len(<<>>) = 0 /\ <<>> \in Seq(Marks)
    BY DEF Written
  <2>2. W!Letters(<<>>) = 0
    <3>1. W!Letters(<<>>) = LettersUpTo(<<>>, 0)
      BY <2>1, LettersCounted, Zenon
    <3> QED
      BY <3>1, OneMoreLetter
  <2>3. Spaced(<<>>)
    BY <2>1 DEF Spaced
  <2> QED
    BY <2>1, <2>2, <2>3, FilingAssumption DEF W!Unread, Readings, Spelled
<1>3. f \in [1 .. n -> [Readings -> Readings]]
  <2>1. ASSUME NEW s \in Readings, NEW c PROVE W!Read(s, c) \in Readings
    <3>1. s.slug \in Written /\ s.hyphen \in BOOLEAN /\ s.full \in BOOLEAN
      BY DEF Readings
    <3>2. Append(s.slug, "a") \in Written /\ Append(s.slug, "-") \in Written
      <4>1. "a" \in Marks /\ "-" \in Marks
        BY DEF Marks
      <4> QED
        BY <3>1, <4>1, Appended DEF Written
    <3> QED
      BY <3>1, <3>2, Zenon DEF W!Read, Readings
  <2> QED
    BY <2>1
<1>4. \E h : folds(h)
  <2>1. PICK h : Folds(h, n, Readings, W!Unread, f)
    <3> HIDE DEF f
    <3> QED
      BY <1>1, <1>2, <1>3, FoldsExist
  <2>2. ASSUME NEW set \in SUBSET (1 .. n), set # {}
        PROVE  h[set] = W!Read(h[set \ {Top(set)}], value[Top(set)])
    <3>1. Top(set) \in 1 .. n
      <4>1. Top(set) \in set
        BY <1>1, <2>2, TopIsGreatest, Zenon
      <4> HIDE DEF Top
      <4> QED
        BY <4>1, Zenon
    <3> HIDE DEF Top
    <3>2. set \ {Top(set)} \in SUBSET (1 .. n)
      BY Zenon
    <3>3. h[set \ {Top(set)}] \in Readings
      BY <2>1, <3>2 DEF Folds
    <3>4. h[set] = f[Top(set)][h[set \ {Top(set)}]]
      BY <2>1, <2>2, Zenon DEF Folds
    <3> QED
      BY <3>1, <3>3, <3>4
  <2>3. h = [set \in SUBSET (1 .. n) |-> h[set]] /\ h[{}] = W!Unread
    BY <2>1, Zenon DEF Folds
  <2>4. h = [set \in SUBSET (1 .. n) |->
                IF set = {} THEN W!Unread ELSE W!Read(h[set \ {Top(set)}], value[Top(set)])]
    <3> HIDE DEF f
    <3> QED
      BY <2>2, <2>3, Zenon
  <2> QED
    BY <2>4, Zenon
<1>5. folds(iter)
  <2> HIDE DEF folds
  <2> QED
    BY <1>4
<1> HIDE DEF iter
<1>6. iter[{}] = W!Unread
  BY <1>5
<1>7. ASSUME NEW k \in 1 .. n PROVE iter[1 .. k] = W!Read(iter[1 .. k - 1], value[k])
  <2>1. /\ 1 .. k # {} /\ Top(1 .. k) = k /\ (1 .. k) \ {k} = 1 .. k - 1
        /\ 1 .. k \in SUBSET (1 .. n)
    BY <1>1, TopOfPrefixes
  <2> QED
    BY <1>5, <2>1, Zenon
<1>8. 1 .. 0 = {}
  OBVIOUS
<1>9. ReadAfter(value, n, iter[1 .. n])
  <2> DEFINE so == {k \in 0 .. n : ReadAfter(value, k, iter[1 .. k])}
  <2>1. 0 \in so
    <3>1. LettersUpTo(value, 0) = 0
      BY OneMoreLetter
    <3> QED
      BY <1>1, <1>2, <1>6, <1>8, <3>1 DEF ReadAfter
  <2>2. ASSUME NEW k \in 1 .. n, k - 1 \in so PROVE k \in so
    <3>1. ReadAfter(value, k - 1, iter[1 .. k - 1]) /\ k \in 0 .. n /\ k - 1 \in Nat /\ (k - 1) + 1 = k
      BY <1>1, <2>2
    <3>2. /\ LettersUpTo(value, k - 1) \in Nat
          /\ LettersUpTo(value, k) = LettersUpTo(value, k - 1) + IF value[k] = "a" THEN 1 ELSE 0
      BY <3>1, OneMoreLetter, Zenon
    <3>3. /\ W!Read(iter[1 .. k - 1], value[k]) \in Readings
          /\ Spelled(W!Read(iter[1 .. k - 1], value[k]), LettersUpTo(value, k - 1) + IF value[k] = "a" THEN 1 ELSE 0)
      BY <3>1, <3>2, ReadingGoesOn DEF ReadAfter
    <3>4. ReadAfter(value, k, iter[1 .. k])
      BY <1>7, <3>2, <3>3 DEF ReadAfter
    <3> QED
      BY <3>1, <3>4
  <2>3. \A k \in 0 .. n : k \in so
    <3> HIDE DEF so
    <3> QED
      BY <1>1, <2>1, <2>2, Upwards, Zenon
  <2>4. n \in so
    <3> HIDE DEF so
    <3> QED
      BY <1>1, <2>3
  <2> QED
    BY <2>4
<1>10. W!Slugify(value) = W!WithoutTrailing(iter[1 .. n].slug)
  <2>1. W!Slugify(value) = W!WithoutTrailing(iter[DOMAIN value].slug)
    BY <1>1 DEF W!Slugify, W!FoldLeft, W!MapThenFoldSet, W!Max, iter, Top
  <2> QED
    BY <1>1, <2>1, Zenon
<1> QED
  BY <1>9, <1>10, Zenon DEF n

\* The last letter is the last byte or the one before it.
Tidy(slug) ==
    /\ slug \in Written /\ slug # <<>> /\ Len(slug) <= SlugMaxBytes
    /\ slug[1] = "a" /\ slug[Len(slug)] = "a" /\ Spaced(slug)

LEMMA TrailingGoes ==
    ASSUME NEW slug \in Written, slug # <<>>, Len(slug) <= SlugMaxBytes, slug[1] = "a", Spaced(slug)
    PROVE  LET t == W!WithoutTrailing(slug) IN
           /\ Tidy(t) /\ W!Letters(t) = W!Letters(slug) /\ Len(t) + 1 >= Len(slug)
<1> DEFINE n == Len(slug)
           letters == {i \in DOMAIN slug : slug[i] # "-"}
           last == CHOOSE i \in letters : \A j \in letters : j <= i
           t == W!WithoutTrailing(slug)
<1>1. n \in Nat /\ DOMAIN slug = 1 .. n /\ (\A i \in 1 .. n : slug[i] \in Marks) /\ n # 0
  BY ListFacts DEF Written
<1>2. 1 \in letters /\ letters \in SUBSET (1 .. n)
  BY <1>1
<1>3. last \in letters /\ \A j \in letters : j <= last
  <2>1. PICK x \in letters : Greatest(x, letters)
    <3> HIDE DEF letters, n
    <3> QED
      BY <1>1, <1>2, Extremes, Zenon
  <2>2. x \in letters /\ \A j \in letters : j <= x
    BY <2>1 DEF Greatest
  <2> HIDE DEF letters
  <2> QED
    BY <2>2, Zenon
<1>4. t = SubSeq(slug, 1, last)
  BY <1>2, Zenon DEF W!WithoutTrailing
<1> HIDE DEF last
<1>5. /\ last \in 1 .. n /\ slug[last] = "a"
      /\ \A i \in 1 .. n : i > last => slug[i] = "-"
  <2>1. last \in 1 .. n /\ slug[last] # "-" /\ slug[last] \in Marks
    BY <1>1, <1>3
  <2>2. ASSUME NEW i \in 1 .. n, i > last, slug[i] # "-" PROVE FALSE
    <3>1. i \in letters
      BY <1>1, <2>2
    <3>2. i <= last
      BY <1>3, <3>1, Zenon
    <3> HIDE DEF n
    <3> QED
      BY <1>1, <2>1, <2>2, <3>2
  <2> QED
    BY <2>1, <2>2 DEF Marks
<1> HIDE DEF letters
<1>6. /\ t \in Written /\ Len(t) = last /\ \A i \in 1 .. last : t[i] = slug[i]
  <2>1. SubSeq(slug, 1, last) \in Seq(Marks) /\ Len(SubSeq(slug, 1, last)) = last
        /\ \A i \in 1 .. last : SubSeq(slug, 1, last)[i] = slug[i]
    <3>1. slug \in Seq(Marks) /\ last \in 1 .. Len(slug)
      BY <1>5 DEF Written
    <3> QED
      BY <3>1
  <2> QED
    BY <1>4, <2>1, Zenon DEF Written
<1> HIDE DEF t
<1>7. last + 1 >= n
  <2>1. CASE last + 1 < n
    <3>1. last + 1 \in 1 .. n /\ last + 2 \in 1 .. n /\ last + 1 > last /\ last + 2 > last /\ last + 1 \in 1 .. n - 1
          /\ (last + 1) + 1 = last + 2
      <4> HIDE DEF n
      <4> QED
        BY <1>1, <1>5, <2>1
    <3>2. slug[last + 1] = "-" /\ slug[last + 2] = "-"
      BY <1>5, <3>1
    <3>3. slug[last + 1] = "a" \/ slug[last + 2] = "a"
      BY <3>1 DEF Spaced
    <3> QED
      BY <3>2, <3>3
  <2> HIDE DEF n
  <2> QED
    BY <1>1, <1>5, <2>1
<1>8. W!Letters(t) = W!Letters(slug)
  <2>1. DOMAIN t = 1 .. last
    BY <1>6, ListFacts DEF Written
  <2>2. \A i : (i \in 1 .. last /\ t[i] = "a") <=> (i \in 1 .. n /\ slug[i] = "a")
    <3> HIDE DEF n
    <3> QED
      BY <1>1, <1>5, <1>6
  <2>3. {i \in DOMAIN t : t[i] = "a"} = {i \in DOMAIN slug : slug[i] = "a"}
    BY <1>1, <2>1, <2>2, Zenon
  <2> QED
    BY <2>3, Zenon DEF W!Letters
<1>9. Tidy(t)
  <2>1. t # <<>>
    <3>1. t = <<>> <=> Len(t) = 0
      BY <1>6, ListFacts DEF Written
    <3> HIDE DEF n
    <3> QED
      BY <1>1, <1>5, <1>6, <3>1
  <2>2. Spaced(t)
    <3>1. ASSUME NEW i \in 1 .. last - 1 PROVE t[i] = "a" \/ t[i + 1] = "a"
      <4>1. i \in 1 .. n - 1 /\ i \in 1 .. last /\ i + 1 \in 1 .. last
        <5> HIDE DEF n
        <5> QED
          BY <1>1, <1>5
      <4>2. slug[i] = "a" \/ slug[i + 1] = "a"
        BY <4>1 DEF Spaced
      <4> QED
        BY <1>6, <4>1, <4>2
    <3> QED
      BY <1>6, <3>1 DEF Spaced
  <2>3. 1 \in 1 .. last /\ last \in 1 .. last /\ last <= SlugMaxBytes
    <3>1. n <= SlugMaxBytes /\ SlugMaxBytes \in Nat
      BY FilingAssumption
    <3> HIDE DEF n
    <3> QED
      BY <1>1, <1>5, <3>1
  <2>4. t[1] = "a" /\ t[last] = "a"
    BY <1>5, <1>6, <2>3
  <2> QED
    BY <1>6, <2>1, <2>2, <2>3, <2>4 DEF Tidy
<1> HIDE DEF n
<1>10. Tidy(t) /\ W!Letters(t) = W!Letters(slug) /\ Len(t) + 1 >= n
  BY <1>6, <1>7, <1>8, <1>9
<1> QED
  BY <1>10, Zenon DEF t, n


LEMMA WhatSlugifyMakes ==
    ASSUME NEW bytes, NEW value \in Seq(bytes)
    PROVE  LET s == W!Slugify(value) IN
           /\ s = <<>> \/ Tidy(s)
           /\ W!Letters(value) \in Nat
           /\ W!Letters(value) > 0 =>
                /\ s # <<>> /\ W!Letters(s) <= W!Letters(value)
                /\ W!Letters(s) = W!Letters(value) \/ Len(s) + 1 >= SlugMaxBytes
<1> DEFINE s == W!Slugify(value)
           n == Len(value)
           count == W!Letters(value)
<1>1. PICK r : ReadAfter(value, n, r) /\ s = W!WithoutTrailing(r.slug)
  BY TextIsReadInTurn, Zenon
<1>2. count = LettersUpTo(value, n) /\ n \in Nat
  BY LettersCounted, ListFacts
<1> HIDE DEF s, n
<1>3. count \in Nat
  BY <1>2, OneMoreLetter
<1>4. Spelled(r, count) /\ r.slug \in Written /\ r.full \in BOOLEAN
  BY <1>1, <1>2 DEF ReadAfter, Readings
<1> HIDE DEF count
<1>5. CASE r.slug = <<>>
  <2>1. s = <<>>
    BY <1>1, <1>5 DEF W!WithoutTrailing
  <2>2. ~(count > 0)
    BY <1>4, <1>5 DEF Spelled
  <2> QED
    BY <1>3, <2>1, <2>2, Zenon DEF s, n, count
<1>6. CASE r.slug # <<>>
  <2>1. /\ Len(r.slug) <= SlugMaxBytes /\ r.slug[1] = "a" /\ Spaced(r.slug)
        /\ W!Letters(r.slug) <= count /\ (~r.full => W!Letters(r.slug) = count)
        /\ (r.full => Len(r.slug) = SlugMaxBytes)
    BY <1>4, <1>6 DEF Spelled
  <2>2. Tidy(s) /\ W!Letters(s) = W!Letters(r.slug) /\ Len(s) + 1 >= Len(r.slug)
    BY <1>1, <1>4, <1>6, <2>1, TrailingGoes
  <2>3. s # <<>>
    BY <2>2 DEF Tidy
  <2>4. W!Letters(s) <= count
    BY <2>1, <2>2
  <2>5. W!Letters(s) = count \/ Len(s) + 1 >= SlugMaxBytes
    BY <1>4, <2>1, <2>2
  <2> QED
    BY <1>3, <2>2, <2>3, <2>4, <2>5, Zenon DEF s, n, count
<1> QED
  BY <1>5, <1>6, Zenon

LEMMA TidySlugsAreNames ==
    ASSUME NEW slug, Tidy(slug)
    PROVE  /\ slug # <<>> /\ slug # <<"id">> /\ Len(slug) <= SlugMaxBytes
           /\ Head(slug) = "a" /\ W!Last(slug) = "a" /\ Spaced(slug)
<1>1. slug \in Written /\ slug # <<>> /\ Len(slug) <= SlugMaxBytes
      /\ slug[1] = "a" /\ slug[Len(slug)] = "a" /\ Spaced(slug)
  BY DEF Tidy
<1>2. Head(slug) = slug[1]
  <2>1. slug \in Seq(Marks)
    BY <1>1 DEF Written
  <2> QED
    BY <1>1, <2>1
<1>3. W!Last(slug) = slug[Len(slug)]
  BY DEF W!Last
<1>4. <<"id">>[1] = "id"
  OBVIOUS
<1>5. slug # <<"id">>
  <2>1. "id" # "a"
    OBVIOUS
  <2> QED
    BY <1>1, <1>4, <2>1, Zenon
<1> QED
  BY <1>1, <1>2, <1>3, <1>5

\* Escapes decode once, and to no escape.
LEMMA DecodingIsDone ==
    ASSUME NEW bytes, NEW path \in Seq(bytes)
    PROVE  /\ \E others : W!Decoded(path) \in Seq(others)
           /\ W!Decoded(W!Decoded(path)) = W!Decoded(path)
           /\ W!Contains(W!Decoded(path), "%") <=> W!Contains(path, "%")
<1> DEFINE n == Len(path)
           d == W!Decoded(path)
           others == bytes \union {"a", "?"}
<1>1. n \in Nat /\ DOMAIN path = 1 .. n /\ \A i \in 1 .. n : path[i] \in bytes
  BY ListFacts
<1> HIDE DEF n
<1>2. /\ d = [i \in 1 .. n |-> d[i]] /\ DOMAIN d = 1 .. n
      /\ \A i \in 1 .. n : d[i] = CASE path[i] = "%a" -> "a" [] path[i] = "%?" -> "?" [] OTHER -> path[i]
  BY <1>1 DEF W!Decoded
<1> HIDE DEF d
<1>3. \A i \in 1 .. n : /\ d[i] \in others /\ (d[i] = "%" <=> path[i] = "%")
                        /\ d[i] # "%a" /\ d[i] # "%?"
  <2> TAKE i \in 1 .. n
  <2>1. path[i] \in bytes /\ d[i] = CASE path[i] = "%a" -> "a" [] path[i] = "%?" -> "?" [] OTHER -> path[i]
    BY <1>1, <1>2
  <2>2. CASE path[i] = "%a"
    BY <2>1, <2>2
  <2>3. CASE path[i] = "%?"
    BY <2>1, <2>3
  <2>4. CASE path[i] # "%a" /\ path[i] # "%?"
    BY <2>1, <2>4
  <2> QED
    BY <2>2, <2>3, <2>4
<1>4. d \in Seq(others)
  <2>1. d \in [1 .. n -> others]
    BY <1>2, <1>3, Zenon
  <2> HIDE DEF others
  <2> QED
    BY <1>1, <2>1
<1>5. W!Decoded(d) = d
  <2>1. W!Decoded(d) = [i \in 1 .. n |-> CASE d[i] = "%a" -> "a" [] d[i] = "%?" -> "?" [] OTHER -> d[i]]
    BY <1>2 DEF W!Decoded
  <2>2. \A i \in 1 .. n : (CASE d[i] = "%a" -> "a" [] d[i] = "%?" -> "?" [] OTHER -> d[i]) = d[i]
    BY <1>3
  <2>3. [i \in 1 .. n |-> CASE d[i] = "%a" -> "a" [] d[i] = "%?" -> "?" [] OTHER -> d[i]] = [i \in 1 .. n |-> d[i]]
    BY <2>2
  <2> QED
    BY <1>2, <2>1, <2>3, Zenon
<1>6. W!Contains(d, "%") <=> W!Contains(path, "%")
  <2>1. Len(d) = n /\ Len(path) = n
    BY <1>2, <1>4, ListFacts DEF n
  <2>2. W!Contains(d, "%") <=> \E i \in 1 .. n : d[i] = "%"
    BY <2>1, Zenon DEF W!Contains
  <2>3. W!Contains(path, "%") <=> \E i \in 1 .. n : path[i] = "%"
    BY <2>1, Zenon DEF W!Contains
  <2> QED
    BY <1>3, <2>2, <2>3, Zenon
<1> HIDE DEF others
<1> QED
  BY <1>4, <1>5, <1>6, Zenon DEF d

\* A note's name is a name on every file system, whatever its title and its
\* address are: there is one, it keeps to the bytes a name may have, it
\* begins and ends with a letter, and it never hyphenates twice; a title
\* with letters is where it comes from, and escaping the path changes nothing.
THEOREM SlugsAreNames ==
    ASSUME NEW bytes, NEW title \in Seq(bytes), NEW path \in Seq(bytes)
    PROVE  W!SlugIsAName(title, path, <<"id">>)
<1> DEFINE id == <<"id">>
           first == W!Slugify(title)
           d == W!Decoded(path)
           second == W!SlugFromPath(path)
           slug == W!SlugFor(title, path, id)
<1>1. /\ first = <<>> \/ Tidy(first)
      /\ W!Letters(title) \in Nat
      /\ W!Letters(title) > 0 =>
           /\ first # <<>> /\ W!Letters(first) <= W!Letters(title)
           /\ W!Letters(first) = W!Letters(title) \/ Len(first) + 1 >= SlugMaxBytes
  BY WhatSlugifyMakes
<1>2. W!NoSlug = <<>>
  BY DEF W!NoSlug
<1>3. PICK others : d \in Seq(others)
  BY DecodingIsDone, Zenon
<1>4. W!Decoded(d) = d /\ (W!Contains(d, "%") <=> W!Contains(path, "%"))
  BY DecodingIsDone, Zenon
<1>5. W!Slugify(d) = <<>> \/ Tidy(W!Slugify(d))
  <2> HIDE DEF d
  <2> QED
    BY <1>3, WhatSlugifyMakes
<1>6. second = <<>> \/ Tidy(second)
  BY <1>2, <1>5, Zenon DEF W!SlugFromPath
<1>7. W!SlugFromPath(d) = IF W!Contains(d, "%") THEN W!NoSlug ELSE W!Slugify(W!Decoded(d))
  BY Zenon DEF W!SlugFromPath
<1>8. ~W!Contains(path, "%") => W!SlugFromPath(d) = second
  BY <1>4, <1>7, Zenon DEF W!SlugFromPath
<1>9. slug = IF first # <<>> THEN first ELSE IF second # <<>> THEN second ELSE id
  BY <1>2, Zenon DEF W!SlugFor
<1>10. W!SlugFor(title, d, id) = IF first # <<>> THEN first ELSE IF W!SlugFromPath(d) # <<>> THEN W!SlugFromPath(d) ELSE id
  BY <1>2, Zenon DEF W!SlugFor
<1>11. W!Contains(path, "%") \/ slug = W!SlugFor(title, d, id)
  <2> HIDE DEF first, second, d, slug, id
  <2> QED
    BY <1>8, <1>9, <1>10
<1> HIDE DEF first, second, d
<1>12. /\ slug # <<>>
       /\ slug # id =>
             /\ Len(slug) <= SlugMaxBytes /\ Head(slug) = "a" /\ W!Last(slug) = "a"
             /\ \A i \in 1 .. Len(slug) - 1 : slug[i] = "a" \/ slug[i + 1] = "a"
  <2>1. CASE slug = id
    <3>1. id # <<>>
      OBVIOUS
    <3> HIDE DEF slug, id
    <3> QED
      BY <2>1, <3>1, Zenon
  <2>2. CASE slug # id
    <3>1. Tidy(slug)
      BY <1>1, <1>6, <1>9, <2>2, Zenon
    <3> HIDE DEF slug
    <3> QED
      BY <2>2, <3>1, TidySlugsAreNames, Zenon DEF Spaced
  <2> QED
    BY <2>1, <2>2, Zenon
<1>13. W!Letters(title) > 0 =>
          /\ W!Letters(slug) <= W!Letters(title)
          /\ W!Letters(slug) = W!Letters(title) \/ Len(slug) + 1 >= SlugMaxBytes
  BY <1>1, <1>9, Zenon
<1>14. slug = id => W!Letters(title) = 0
  <2> HAVE slug = id
  <2>1. first = <<>>
    <3>1. first # <<>> => first # id
      BY <1>1, TidySlugsAreNames, Zenon
    <3> QED
      BY <1>9, <3>1, Zenon
  <2>2. ~(W!Letters(title) > 0)
    BY <1>1, <2>1, Zenon
  <2> HIDE DEF slug
  <2> QED
    BY <1>1, <2>2
<1> HIDE DEF slug, id
<1> QED
  BY <1>11, <1>12, <1>13, <1>14, Zenon DEF W!SlugIsAName, slug, d, id
-----------------------------------------------------------------------------
(* The vault of an archive: Export *)

\* The lists of a list are flattened in one way.
LEMMA NotesAreFlattened ==
    ASSUME NEW set, NEW lists, lists = Seq(set), NEW seqs \in Seq(lists), NEW n, n = Len(seqs)
    PROVE  /\ n \in Nat /\ X!FlattenSeq(seqs) \in lists
           /\ \E off : Flattens(seqs, n, X!FlattenSeq(seqs), off)
<1>1. X!FlattenSeq(seqs) = R!FlattenSeq(seqs)
  BY Zenon DEF X!FlattenSeq, R!FlattenSeq
<1>2. /\ n \in Nat /\ R!FlattenSeq(seqs) \in lists
      /\ \E off : Flattens(seqs, n, R!FlattenSeq(seqs), off)
  BY ListsAreFlattened, Zenon
<1> QED
  BY <1>1, <1>2, Zenon

\* An archive as walk() gives it: an item for each address, with a capture
\* for each id, which is never the prefix of an item's.
Archived(archive, items, captures, destinations) ==
    /\ archive \in Seq(items)
    /\ \A x \in items : x.captures \in Seq(captures)
    /\ \A c \in captures : c.at \in Int /\ c.body \in Seq(destinations)
    /\ \A a, b \in DOMAIN archive : archive[a].url = archive[b].url => a = b
    /\ \A a \in DOMAIN archive : \A k, l \in DOMAIN archive[a].captures :
          archive[a].captures[k].id = archive[a].captures[l].id => k = l
    /\ \A a, b \in DOMAIN archive : \A k \in DOMAIN archive[b].captures :
          archive[a].prefix # archive[b].captures[k].id

\* Notes of such an archive: no two of one address have one id.
Noted(notes, set, destinations) ==
    /\ notes \in Seq(set)
    /\ \A n \in set : n.at \in Int /\ n.body \in Seq(destinations)
    /\ \A i, j \in DOMAIN notes :
          /\ notes[i].prefix # notes[j].id
          /\ notes[i].url = notes[j].url /\ notes[i].id = notes[j].id => i = j

LEMMA ExportCountsAreOne ==
    ASSUME NEW set
    PROVE  X!Cardinality(set) = Cardinality(set)
  BY Zenon DEF X!Cardinality, Cardinality

LEMMA PickedAreThere ==
    ASSUME NEW s, NEW at, at \subseteq Int
    PROVE  X!Picked(s, at) = Listed(Rising, at, s)
<1>1. ASSUME NEW x \in at PROVE X!Cardinality({y \in at : y < x}) = Place(Rising, at, x)
  <2>1. {y \in at : y < x} = Earlier(Rising, at, x)
    BY NumbersRise DEF Earlier
  <2> QED
    BY <2>1, ExportCountsAreOne DEF Place
<1>2. ASSUME NEW k PROVE X!Nth(at, k) = Member(Rising, at, k)
  BY <1>1, Zenon DEF X!Nth, Member
<1> QED
  BY <1>2, ExportCountsAreOne, Zenon DEF X!Picked, Listed

\* The captures that are exported are captures, each of them once.
LEMMA SelectedAreThere ==
    ASSUME NEW set, NEW s \in Seq(set), NEW all, NEW chosen, chosen = X!Selected(s, all)
    PROVE  /\ chosen \in Seq(set)
           /\ \E p : /\ p \in [1 .. Len(chosen) -> 1 .. Len(s)]
                     /\ \A k \in 1 .. Len(chosen) : chosen[k] = s[p[k]]
                     /\ \A k, l \in 1 .. Len(chosen) : p[k] = p[l] => k = l
<1> DEFINE n == Len(s)
           at == {k \in DOMAIN s : s[k].article /\ (all \/ k = Len(s))}
           c == Cardinality(at)
           p == [k \in 1 .. c |-> Member(Rising, at, k - 1)]
<1>1. n \in Nat /\ DOMAIN s = 1 .. n /\ \A k \in 1 .. n : s[k] \in set
  BY ListFacts
<1>2. at \in SUBSET (1 .. n) /\ at \subseteq Int
  BY <1>1
<1>3. chosen = Listed(Rising, at, s)
  <2>1. chosen = X!Picked(s, at)
    BY DEF X!Selected
  <2> HIDE DEF at
  <2> QED
    BY <1>2, <2>1, PickedAreThere, Zenon
<1> HIDE DEF at, n
<1>4. IsFiniteSet(at) /\ c \in Nat
  <2>1. IsFiniteSet(1 .. n)
    BY <1>1, FS_Interval
  <2> QED
    BY <1>2, <2>1, FS_Subset, FS_CardinalityType, Zenon
<1>5. /\ \A k \in 0 .. c - 1 : Member(Rising, at, k) \in at /\ Place(Rising, at, Member(Rising, at, k)) = k
      /\ OrderOn(Rising, at)
  <2>1. OrderOn(Rising, at)
    BY <1>2, NumbersRise, Zenon
  <2> QED
    BY <1>4, <2>1, MembersFill
<1> HIDE DEF c
<1>6. \A k \in 1 .. c : k - 1 \in 0 .. c - 1
  BY <1>4
<1>7. \A k \in 1 .. c : p[k] \in at /\ p[k] \in 1 .. n /\ Place(Rising, at, p[k]) = k - 1
  BY <1>2, <1>5, <1>6, Zenon
<1>8. chosen = [k \in 1 .. c |-> s[p[k]]]
  BY <1>3 DEF Listed, c
<1>9. p \in [1 .. c -> 1 .. n]
  BY <1>7
<1> HIDE DEF p
<1>10. \A k, l \in 1 .. c : p[k] = p[l] => k = l
  <2> SUFFICES ASSUME NEW k \in 1 .. c, NEW l \in 1 .. c, p[k] = p[l] PROVE k = l
    OBVIOUS
  <2>1. k - 1 = l - 1
    BY <1>7
  <2> QED
    BY <1>4, <2>1
<1>11. chosen \in Seq(set) /\ Len(chosen) = c
  <2>1. \A k \in 1 .. c : s[p[k]] \in set
    BY <1>1, <1>7
  <2> QED
    BY <1>4, <1>8, <2>1
<1>12. \A k \in 1 .. c : chosen[k] = s[p[k]]
  BY <1>8
<1> QED
  BY <1>9, <1>10, <1>11, <1>12, Zenon DEF n

NotesOf(x, chosen) == [k \in DOMAIN chosen |-> X!NoteOf(x, chosen[k])]
Drawn(list, x, p) ==
    /\ p \in [1 .. Len(list) -> DOMAIN x.captures]
    /\ \A k \in 1 .. Len(list) : list[k] = X!NoteOf(x, x.captures[p[k]])
    /\ \A k, l \in 1 .. Len(list) : p[k] = p[l] => k = l

LEMMA NotesAreNotes ==
    ASSUME NEW archive, NEW items, NEW captures, NEW destinations,
           Archived(archive, items, captures, destinations), NEW all
    PROVE  \E set : Noted(X!Ordered(archive, all), set, destinations)
<1> DEFINE n == Len(archive)
           set == {X!NoteOf(x, c) : x \in items, c \in captures}
           chosen(a) == X!Selected(archive[a].captures, all)
           seqs == [a \in 1 .. n |-> NotesOf(archive[a], chosen(a))]
           notes == X!Ordered(archive, all)
           lists == Seq(set)
<1>1. n \in Nat /\ DOMAIN archive = 1 .. n /\ (\A a \in 1 .. n : archive[a] \in items)
  BY ListFacts DEF Archived
<1>0. /\ \A a, b \in 1 .. n : archive[a].url = archive[b].url => a = b
      /\ \A a \in 1 .. n : \A k, l \in DOMAIN archive[a].captures :
            archive[a].captures[k].id = archive[a].captures[l].id => k = l
      /\ \A a, b \in 1 .. n : \A k \in DOMAIN archive[b].captures :
            archive[a].prefix # archive[b].captures[k].id
  BY <1>1, Zenon DEF Archived
<1>2. notes = X!FlattenSeq(seqs)
  BY <1>1 DEF X!Ordered, NotesOf
<1> HIDE DEF notes, n
<1>3. ASSUME NEW a \in 1 .. n PROVE seqs[a] \in lists /\ \E p : Drawn(seqs[a], archive[a], p)
  <2> DEFINE s == archive[a].captures
             ch == chosen(a)
             m == Len(ch)
             list == seqs[a]
  <2>1. s \in Seq(captures)
    BY <1>1 DEF Archived
  <2>2. /\ ch \in Seq(captures)
        /\ \E p : /\ p \in [1 .. Len(ch) -> 1 .. Len(s)]
                  /\ \A k \in 1 .. Len(ch) : ch[k] = s[p[k]]
                  /\ \A k, l \in 1 .. Len(ch) : p[k] = p[l] => k = l
    <3>1. ch = X!Selected(s, all)
      BY Zenon
    <3> HIDE DEF s, ch
    <3> QED
      BY <2>1, <3>1, SelectedAreThere
  <2>3. DOMAIN s = 1 .. Len(s)
    <3> HIDE DEF s
    <3> QED
      BY <2>1, ListFacts
  <2>4. list = NotesOf(archive[a], ch)
    BY <1>3
  <2> HIDE DEF ch, s, list
  <2>5. m \in Nat /\ DOMAIN ch = 1 .. m /\ \A k \in 1 .. m : ch[k] \in captures
    BY <2>2, ListFacts
  <2> HIDE DEF m
  <2>6. list = [k \in 1 .. m |-> X!NoteOf(archive[a], ch[k])]
    BY <2>4, <2>5, Zenon DEF NotesOf
  <2>7. \A k \in 1 .. m : X!NoteOf(archive[a], ch[k]) \in set
    <3>1. \A x \in items : \A y \in captures : X!NoteOf(x, y) \in set
      OBVIOUS
    <3>2. archive[a] \in items
      BY <1>1
    <3> HIDE DEF set
    <3> QED
      BY <2>5, <3>1, <3>2, Zenon
  <2> HIDE DEF set
  <2>8. list \in Seq(set) /\ Len(list) = m /\ \A k \in 1 .. m : list[k] = X!NoteOf(archive[a], ch[k])
    BY <2>5, <2>6, <2>7
  <2>9. PICK p : /\ p \in [1 .. m -> 1 .. Len(s)]
                 /\ \A k \in 1 .. m : ch[k] = s[p[k]]
                 /\ \A k, l \in 1 .. m : p[k] = p[l] => k = l
    BY <2>2, Zenon DEF m
  <2>10. /\ p \in [1 .. Len(list) -> DOMAIN s]
         /\ \A k \in 1 .. Len(list) : list[k] = X!NoteOf(archive[a], s[p[k]])
         /\ \A k, l \in 1 .. Len(list) : p[k] = p[l] => k = l
    BY <2>3, <2>8, <2>9, Zenon
  <2> QED
    BY <2>8, <2>10, Zenon DEF list, s, Drawn
<1>4. seqs \in Seq(lists) /\ Len(seqs) = n
  <2>1. seqs \in [1 .. n -> lists]
    <3> DEFINE each(a) == NotesOf(archive[a], chosen(a))
    <3>1. \A a \in 1 .. n : each(a) \in lists
      BY <1>3
    <3> HIDE DEF lists, each
    <3>2. [a \in 1 .. n |-> each(a)] \in [1 .. n -> lists]
      BY <3>1, Zenon
    <3> QED
      BY <3>2, Zenon DEF each
  <2> HIDE DEF seqs, lists
  <2> QED
    BY <1>1, <2>1
<1> HIDE DEF seqs, chosen
<1>5. notes \in lists /\ \E off : Flattens(seqs, n, notes, off)
  <2> HIDE DEF set
  <2> QED
    BY <1>2, <1>4, NotesAreFlattened
<1>6. PICK off : Flattens(seqs, n, notes, off)
  BY <1>5
<1>7. DOMAIN notes = 1 .. Len(notes)
  <2> HIDE DEF set
  <2> QED
    BY <1>5, ListFacts
<1>8. ASSUME NEW i \in DOMAIN notes
      PROVE  \E a \in 1 .. n : \E k \in 1 .. Len(seqs[a]) : i = off[a] + k /\ notes[i] = seqs[a][k]
  <2>1. PICK a \in 1 .. n : \E k \in 1 .. Len(seqs[a]) : i = off[a] + k
    BY <1>6, <1>7, Zenon DEF Flattens
  <2>2. PICK k \in 1 .. Len(seqs[a]) : i = off[a] + k
    BY <2>1
  <2>3. notes[off[a] + k] = seqs[a][k]
    BY <1>6, Zenon DEF Flattens
  <2> QED
    BY <2>2, <2>3, Zenon
<1>12. \A a \in 1 .. n : \E p : Drawn(seqs[a], archive[a], p)
  <2> HIDE DEF lists
  <2> QED
    BY <1>3
<1> HIDE DEF set, lists
<1>9. ASSUME NEW i \in DOMAIN notes, NEW j \in DOMAIN notes
      PROVE  /\ notes[i].prefix # notes[j].id
             /\ notes[i].url = notes[j].url /\ notes[i].id = notes[j].id => i = j
  <2>1. PICK a \in 1 .. n : \E k \in 1 .. Len(seqs[a]) : i = off[a] + k /\ notes[i] = seqs[a][k]
    BY <1>8
  <2>2. PICK k \in 1 .. Len(seqs[a]) : i = off[a] + k /\ notes[i] = seqs[a][k]
    BY <2>1
  <2>3. PICK b \in 1 .. n : \E l \in 1 .. Len(seqs[b]) : j = off[b] + l /\ notes[j] = seqs[b][l]
    BY <1>8
  <2>4. PICK l \in 1 .. Len(seqs[b]) : j = off[b] + l /\ notes[j] = seqs[b][l]
    BY <2>3
  <2>5. PICK p : Drawn(seqs[a], archive[a], p)
    BY <1>12, Zenon
  <2>6. PICK q : Drawn(seqs[b], archive[b], q)
    BY <1>12, Zenon
  <2>7. /\ notes[i] = X!NoteOf(archive[a], archive[a].captures[p[k]]) /\ p[k] \in DOMAIN archive[a].captures
        /\ notes[j] = X!NoteOf(archive[b], archive[b].captures[q[l]]) /\ q[l] \in DOMAIN archive[b].captures
    BY <2>2, <2>4, <2>5, <2>6, Zenon DEF Drawn
  <2>8. /\ notes[i].prefix = archive[a].prefix /\ notes[i].url = archive[a].url
        /\ notes[i].id = archive[a].captures[p[k]].id
        /\ notes[j].url = archive[b].url /\ notes[j].id = archive[b].captures[q[l]].id
    BY <2>7 DEF X!NoteOf
  <2>9. notes[i].prefix # notes[j].id
    <3>1. archive[a].prefix # archive[b].captures[q[l]].id
      <4>1. q[l] \in DOMAIN archive[b].captures
        BY <2>7, Zenon
      <4> QED
        BY <1>0, <4>1
    <3> QED
      BY <2>8, <3>1
  <2>10. ASSUME notes[i].url = notes[j].url, notes[i].id = notes[j].id PROVE i = j
    <3>1. a = b
      BY <1>0, <2>8, <2>10, Zenon
    <3>2. \E r : Drawn(seqs[a], archive[a], r) /\ r[k] = r[l]
      <4>1. /\ notes[i] = X!NoteOf(archive[a], archive[a].captures[p[k]]) /\ p[k] \in DOMAIN archive[a].captures
            /\ notes[j] = X!NoteOf(archive[a], archive[a].captures[p[l]]) /\ p[l] \in DOMAIN archive[a].captures
        BY <2>2, <2>4, <2>5, <3>1, Zenon DEF Drawn
      <4>2. archive[a].captures[p[k]].id = archive[a].captures[p[l]].id
        BY <2>10, <4>1 DEF X!NoteOf
      <4>3. p[k] = p[l]
        BY <1>0, <4>1, <4>2, Zenon
      <4> QED
        BY <2>5, <4>3, Zenon
    <3>3. k = l
      BY <2>2, <2>4, <3>1, <3>2, Zenon DEF Drawn
    <3> QED
      BY <2>2, <2>4, <3>1, <3>3, Zenon
  <2> QED
    BY <2>9, <2>10
<1>10. \A x \in set : x.at \in Int /\ x.body \in Seq(destinations)
  <2> USE DEF set
  <2> TAKE x \in set
  <2>1. PICK y \in items, c \in captures : x = X!NoteOf(y, c)
    OBVIOUS
  <2>2. c.at \in Int /\ c.body \in Seq(destinations)
    BY DEF Archived
  <2> QED
    BY <2>1, <2>2 DEF X!NoteOf
<1>11. Noted(notes, set, destinations)
  <2> HIDE DEF set
  <2> QED
    BY <1>5, <1>9, <1>10, Zenon DEF Noted, lists
<1> HIDE DEF set
<1> QED
  BY <1>11, Zenon DEF notes

\* A fold takes the greatest position of a set and what it made of the others.
Turns(h, n, states, base, f) ==
    /\ h = [set \in SUBSET (1 .. n) |-> h[set]] /\ h[{}] = base
    /\ \A set \in SUBSET (1 .. n) : set # {} =>
          /\ Top(set) \in 1 .. n /\ h[set \ {Top(set)}] \in states
          /\ h[set] = f[Top(set)][h[set \ {Top(set)}]]

LEMMA SomethingTurns ==
    ASSUME NEW n \in Nat, NEW states, NEW base \in states, NEW f \in [1 .. n -> [states -> states]]
    PROVE  \E h : Turns(h, n, states, base, f)
<1>1. PICK h : Folds(h, n, states, base, f)
  BY FoldsExist
<1>2. 1 .. 0 = {} /\ {} \in SUBSET (1 .. n)
  OBVIOUS
<1>3. h[{}] = base
  BY <1>1, <1>2, Zenon DEF Folds
<1>4. h = [set \in SUBSET (1 .. n) |-> h[set]]
  BY <1>1, Zenon DEF Folds
<1>5. ASSUME NEW set \in SUBSET (1 .. n), set # {}
      PROVE  /\ Top(set) \in 1 .. n /\ h[set \ {Top(set)}] \in states
             /\ h[set] = f[Top(set)][h[set \ {Top(set)}]]
  <2>1. Top(set) \in set
    BY <1>5, TopIsGreatest, Zenon
  <2> HIDE DEF Top
  <2>2. Top(set) \in 1 .. n /\ set \ {Top(set)} \in SUBSET (1 .. n)
    BY <2>1, Zenon
  <2> QED
    BY <1>1, <1>5, <2>2, Zenon DEF Folds
<1> QED
  BY <1>3, <1>4, <1>5, Zenon DEF Turns

PathsOf(set) == {X!NoPath} \union {X!NamesFor(n)[m] : n \in set, m \in 1 .. 3}

LEMMA NamesAreThree ==
    ASSUME NEW n
    PROVE  /\ DOMAIN X!NamesFor(n) = 1 .. 3
           /\ X!NamesFor(n)[1] = <<n.host, n.date, n.slug>>
           /\ X!NamesFor(n)[2] = <<n.host, n.date, n.slug, n.prefix>>
           /\ X!NamesFor(n)[3] = <<n.host, n.date, n.slug, n.id>>
  BY DEF X!NamesFor

\* What the names taken after some notes are.
Taken(notes, taken, i) ==
    \/ taken[i] = X!NoPath /\ \A m \in 1 .. 3 : \E j \in 1 .. i - 1 : taken[j] = X!NamesFor(notes[i])[m]
    \/ /\ \E m \in 1 .. 3 : taken[i] = X!NamesFor(notes[i])[m]
       /\ \A j \in 1 .. i - 1 : taken[j] # taken[i]
TakenAfter(notes, set, k, taken) ==
    taken \in Seq(PathsOf(set)) /\ Len(taken) = k /\ \A i \in 1 .. k : Taken(notes, taken, i)

LEMMA ANameIsTaken ==
    ASSUME NEW set, NEW n \in set, NEW paths, paths = PathsOf(set), NEW taken \in Seq(paths)
    PROVE  \E x \in paths :
              /\ X!Take(taken, n) = Append(taken, x)
              /\ \/ x = X!NoPath /\ \A m \in 1 .. 3 : \E j \in 1 .. Len(taken) : taken[j] = X!NamesFor(n)[m]
                 \/ /\ \E m \in 1 .. 3 : x = X!NamesFor(n)[m]
                    /\ \A j \in 1 .. Len(taken) : taken[j] # x
<1> DEFINE names == X!NamesFor(n)
           free == {k \in DOMAIN names : ~X!Contains(taken, names[k])}
           first == CHOOSE k \in free : \A j \in free : k <= j
<1>1. DOMAIN names = 1 .. 3
  BY NamesAreThree
<1>2. X!Take(taken, n) = Append(taken, IF free = {} THEN X!NoPath ELSE names[first])
  BY Zenon DEF X!Take
<1>3. \A m \in 1 .. 3 : names[m] \in paths
  <2> HIDE DEF names
  <2>1. \A m \in 1 .. 3 : X!NamesFor(n)[m] \in paths
    BY DEF PathsOf
  <2> QED
    BY <2>1 DEF names
<1>4. X!NoPath \in paths
  BY DEF PathsOf
<1>5. \A k \in 1 .. 3 : k \in free <=> ~\E j \in 1 .. Len(taken) : taken[j] = names[k]
  BY <1>1 DEF X!Contains
<1>6. free \in SUBSET (1 .. 3)
  BY <1>1
<1> HIDE DEF names, free
<1>7. CASE free = {}
  BY <1>2, <1>4, <1>5, <1>7, Zenon DEF names
<1>8. CASE free # {}
  <2>1. first \in free
    <3>1. PICK x \in free : Least(x, free)
      BY <1>6, <1>8, Extremes, ZenonT(30)
    <3>2. \A j \in free : x <= j
      BY <3>1 DEF Least
    <3> QED
      BY <3>2, Zenon
  <2> HIDE DEF first
  <2>2. first \in 1 .. 3 /\ \A j \in 1 .. Len(taken) : taken[j] # names[first]
    BY <1>5, <1>6, <2>1, Zenon
  <2>3. X!Take(taken, n) = Append(taken, names[first])
    BY <1>2, <1>8, Zenon
  <2> QED
    BY <1>3, <2>2, <2>3, Zenon DEF names
<1> QED
  BY <1>7, <1>8

LEMMA NamingGoesOn ==
    ASSUME NEW set, NEW notes, NEW k \in Nat \ {0}, notes[k] \in set, NEW taken, TakenAfter(notes, set, k - 1, taken)
    PROVE  TakenAfter(notes, set, k, X!Take(taken, notes[k]))
<1> DEFINE paths == PathsOf(set)
           more == X!Take(taken, notes[k])
<1>1. taken \in Seq(paths) /\ Len(taken) = k - 1 /\ \A i \in 1 .. k - 1 : Taken(notes, taken, i)
  BY DEF TakenAfter
<1>2. PICK x \in paths :
         /\ more = Append(taken, x)
         /\ \/ x = X!NoPath /\ \A m \in 1 .. 3 : \E j \in 1 .. Len(taken) : taken[j] = X!NamesFor(notes[k])[m]
            \/ /\ \E m \in 1 .. 3 : x = X!NamesFor(notes[k])[m]
               /\ \A j \in 1 .. Len(taken) : taken[j] # x
  <2> HIDE DEF paths, more
  <2> QED
    BY <1>1, ANameIsTaken DEF paths, more
<1> HIDE DEF paths, more
<1>3. /\ more \in Seq(paths) /\ Len(more) = Len(taken) + 1 /\ more[Len(taken) + 1] = x
      /\ \A i \in 1 .. Len(taken) : more[i] = taken[i]
  BY <1>1, <1>2, Appended
<1>4. Len(taken) + 1 = k /\ Len(taken) = k - 1
  BY <1>1
<1>5. Len(more) = k /\ more[k] = x /\ \A i \in 1 .. k - 1 : more[i] = taken[i]
  BY <1>3, <1>4
<1>6. ASSUME NEW i \in 1 .. k PROVE Taken(notes, more, i)
  <2>1. CASE i = k
    <3>1. \A j \in 1 .. k - 1 : more[j] = taken[j]
      BY <1>5
    <3> QED
      BY <1>2, <1>4, <1>5, <2>1, <3>1, Zenon DEF Taken
  <2>2. CASE i # k
    <3>1. i \in 1 .. k - 1 /\ \A j \in 1 .. i - 1 : j \in 1 .. k - 1
      BY <2>2
    <3>2. more[i] = taken[i] /\ \A j \in 1 .. i - 1 : more[j] = taken[j]
      BY <1>5, <3>1
    <3>3. Taken(notes, taken, i)
      BY <1>1, <3>1
    <3> QED
      BY <3>2, <3>3, Zenon DEF Taken
  <2> QED
    BY <2>1, <2>2
<1> QED
  BY <1>3, <1>5, <1>6, Zenon DEF TakenAfter, paths, more

\* Every note takes a name, or finds all three taken.
LEMMA NotesAreNamed ==
    ASSUME NEW set, NEW notes \in Seq(set)
    PROVE  TakenAfter(notes, set, Len(notes), X!Paths(notes))
<1> DEFINE n == Len(notes)
           paths == PathsOf(set)
           states == Seq(paths)
           f == [k \in 1 .. n |-> [taken \in states |-> X!Take(taken, notes[k])]]
           folds(h) == h = [s \in SUBSET (1 .. n) |->
                              IF s = {} THEN <<>> ELSE X!Take(h[s \ {Top(s)}], notes[Top(s)])]
           iter == CHOOSE h : folds(h)
<1>1. n \in Nat /\ DOMAIN notes = 1 .. n /\ \A k \in 1 .. n : notes[k] \in set
  BY ListFacts
<1> HIDE DEF n, paths
<1>2. <<>> \in states
  OBVIOUS
<1>3. \A k \in 1 .. n : \A taken \in states : X!Take(taken, notes[k]) \in states
  <2> TAKE k \in 1 .. n
  <2> TAKE taken \in states
  <2>1. PICK x \in paths : X!Take(taken, notes[k]) = Append(taken, x)
    BY <1>1, ANameIsTaken DEF paths
  <2> QED
    BY <2>1, Appended
<1> HIDE DEF states
<1>4. f \in [1 .. n -> [states -> states]]
  BY <1>3
<1>5. \E h : folds(h)
  <2>1. PICK h : Turns(h, n, states, <<>>, f)
    <3> HIDE DEF f
    <3> QED
      BY <1>1, <1>2, <1>4, SomethingTurns
  <2>2. /\ \A s \in SUBSET (1 .. n) : s # {} =>
              /\ Top(s) \in 1 .. n /\ h[s \ {Top(s)}] \in states
              /\ h[s] = f[Top(s)][h[s \ {Top(s)}]]
        /\ h = [s \in SUBSET (1 .. n) |-> h[s]] /\ h[{}] = <<>>
    BY <2>1, Zenon DEF Turns
  <2>3. ASSUME NEW s \in SUBSET (1 .. n), s # {} PROVE h[s] = X!Take(h[s \ {Top(s)}], notes[Top(s)])
    <3> HIDE DEF Top
    <3> QED
      BY <2>2, <2>3, Zenon
  <2>4. h = [s \in SUBSET (1 .. n) |-> IF s = {} THEN <<>> ELSE X!Take(h[s \ {Top(s)}], notes[Top(s)])]
    <3> HIDE DEF f
    <3> QED
      BY <2>2, <2>3, Zenon
  <2> QED
    BY <2>4, Zenon
<1>6. folds(iter)
  <2> HIDE DEF folds
  <2> QED
    BY <1>5
<1> HIDE DEF iter
<1>7. ASSUME NEW k \in 1 .. n PROVE iter[1 .. k] = X!Take(iter[1 .. k - 1], notes[k])
  <2>1. /\ 1 .. k # {} /\ Top(1 .. k) = k /\ (1 .. k) \ {k} = 1 .. k - 1
        /\ 1 .. k \in SUBSET (1 .. n)
    BY <1>1, TopOfPrefixes
  <2> QED
    BY <1>6, <2>1, Zenon
<1>8. iter[1 .. 0] = <<>>
  <2>1. 1 .. 0 = {}
    OBVIOUS
  <2> QED
    BY <1>6, <2>1
<1>9. TakenAfter(notes, set, n, iter[1 .. n])
  <2> DEFINE so == {k \in 0 .. n : TakenAfter(notes, set, k, iter[1 .. k])}
  <2>1. 0 \in so
    <3>1. <<>> \in Seq(PathsOf(set)) /\ Len(<<>>) = 0 /\ 1 .. 0 = {}
      OBVIOUS
    <3>2. TakenAfter(notes, set, 0, <<>>)
      BY <3>1, Zenon DEF TakenAfter
    <3> QED
      BY <1>1, <1>8, <3>2
  <2>2. ASSUME NEW k \in 1 .. n, k - 1 \in so PROVE k \in so
    <3>1. TakenAfter(notes, set, k - 1, iter[1 .. k - 1]) /\ k \in 0 .. n /\ k \in Nat \ {0} /\ notes[k] \in set
      BY <1>1, <2>2
    <3>2. TakenAfter(notes, set, k, X!Take(iter[1 .. k - 1], notes[k]))
      BY <3>1, NamingGoesOn
    <3> QED
      BY <1>7, <3>1, <3>2
  <2>3. \A k \in 0 .. n : k \in so
    <3> HIDE DEF so
    <3> QED
      BY <1>1, <2>1, <2>2, Upwards, Zenon
  <2>4. n \in so
    <3> HIDE DEF so
    <3> QED
      BY <1>1, <2>3
  <2> QED
    BY <2>4
<1>10. X!Paths(notes) = iter[1 .. n]
  <2>1. X!Paths(notes) = iter[DOMAIN notes]
    BY <1>1 DEF X!Paths, X!FoldLeft, X!MapThenFoldSet, X!Max, iter, Top
  <2> QED
    BY <1>1, <2>1, Zenon
<1> QED
  BY <1>9, <1>10, Zenon DEF n

\* Names of three and of four parts are different names.
LEMMA NamesDiffer ==
    ASSUME NEW a, NEW b, NEW c, NEW d, NEW p, NEW q, NEW r, NEW s
    PROVE  /\ <<a, b, c>> # <<p, q, r, s>> /\ <<a, b, c>> # <<p, q>> /\ <<a, b, c, d>> # <<p, q>>
           /\ <<a, b, c>> # <<>> /\ <<a, b, c, d>> # <<>>
           /\ <<a, b, c, d>> = <<p, q, r, s>> => a = p /\ d = s
  OBVIOUS

LEMMA ANoteHasAName ==
    ASSUME NEW n, NEW m \in 1 .. 3
    PROVE  /\ X!NamesFor(n)[m] # X!NoPath
           /\ X!NamesFor(n)[m][1] = n.host
<1>1. X!NoPath = <<>>
  BY DEF X!NoPath
<1>2. m = 1 \/ m = 2 \/ m = 3
  OBVIOUS
<1>3. CASE m = 1
  <2>1. X!NamesFor(n)[m] = <<n.host, n.date, n.slug>>
    BY <1>3, NamesAreThree
  <2> QED
    BY <1>1, <2>1, NamesDiffer
<1>4. CASE m = 2
  <2>1. X!NamesFor(n)[m] = <<n.host, n.date, n.slug, n.prefix>>
    BY <1>4, NamesAreThree
  <2> QED
    BY <1>1, <2>1, NamesDiffer
<1>5. CASE m = 3
  <2>1. X!NamesFor(n)[m] = <<n.host, n.date, n.slug, n.id>>
    BY <1>5, NamesAreThree
  <2> QED
    BY <1>1, <2>1, NamesDiffer
<1> QED
  BY <1>2, <1>3, <1>4, <1>5

LEMMA NotesAreNoPairs ==
    ASSUME NEW n, NEW m \in 1 .. 3, NEW x, NEW y
    PROVE  X!NamesFor(n)[m] # <<x, y>>
<1>1. m = 1 \/ m = 2 \/ m = 3
  OBVIOUS
<1>2. <<n.host, n.date, n.slug>> # <<x, y>>
  BY NamesDiffer
<1>3. \A d : <<n.host, n.date, n.slug, d>> # <<x, y>>
  BY NamesDiffer
<1> QED
  BY <1>1, <1>2, <1>3, NamesAreThree, Zenon

\* The export is out of names only for two captures of one id.
LEMMA PanicsShareAnId ==
    ASSUME NEW set, NEW destinations, NEW notes, Noted(notes, set, destinations), X!Panics(notes)
    PROVE  X!SharesAnId(notes)
<1> DEFINE paths == X!Paths(notes)
           n == Len(notes)
<1>1. notes \in Seq(set) /\ DOMAIN notes = 1 .. n /\ n \in Nat
  BY ListFacts DEF Noted
<1>2. TakenAfter(notes, set, n, paths)
  BY <1>1, NotesAreNamed
<1> HIDE DEF paths, n
<1>3. Len(paths) = n /\ \A i \in 1 .. n : Taken(notes, paths, i)
  BY <1>2 DEF TakenAfter
<1>4. PICK i \in 1 .. n : paths[i] = X!NoPath
  BY <1>3, Zenon DEF X!Panics, X!Contains, paths
<1>5. PICK j \in 1 .. i - 1 : paths[j] = X!NamesFor(notes[i])[3]
  <2>1. ~\E m \in 1 .. 3 : paths[i] = X!NamesFor(notes[i])[m]
    BY <1>4, ANoteHasAName
  <2>2. \A m \in 1 .. 3 : \E j \in 1 .. i - 1 : paths[j] = X!NamesFor(notes[i])[m]
    BY <1>3, <2>1, Zenon DEF Taken
  <2>3. 3 \in 1 .. 3
    OBVIOUS
  <2> QED
    BY <2>2, <2>3, Zenon
<1>6. j \in 1 .. n /\ j # i
  BY <1>1
<1>7. PICK m \in 1 .. 3 : paths[j] = X!NamesFor(notes[j])[m]
  <2>1. 3 \in 1 .. 3
    OBVIOUS
  <2>2. paths[j] # X!NoPath
    BY <1>5, <2>1, ANoteHasAName
  <2> QED
    BY <1>3, <1>6, <2>2, Zenon DEF Taken
<1> DEFINE a == notes[i]
           b == notes[j]
<1>8. a.prefix # b.id /\ b.prefix # a.id /\ (b.url = a.url /\ b.id = a.id => j = i)
  BY <1>1, <1>6, Zenon DEF Noted
<1>9. paths[j] = <<a.host, a.date, a.slug, a.id>>
  BY <1>5, NamesAreThree, Zenon
<1>10. m = 1 \/ m = 2 \/ m = 3
  OBVIOUS
<1> HIDE DEF a, b
<1>11. m = 3
  <2>1. CASE m = 1
    <3>1. paths[j] = <<b.host, b.date, b.slug>>
      BY <1>7, <2>1, NamesAreThree DEF b
    <3> QED
      BY <1>9, <3>1, NamesDiffer
  <2>2. CASE m = 2
    <3>1. paths[j] = <<b.host, b.date, b.slug, b.prefix>>
      BY <1>7, <2>2, NamesAreThree, Zenon DEF b
    <3> QED
      BY <1>8, <1>9, <3>1, NamesDiffer
  <2> QED
    BY <1>10, <2>1, <2>2
<1>12. a.host = b.host /\ a.id = b.id
  <2>1. paths[j] = <<b.host, b.date, b.slug, b.id>>
    BY <1>7, <1>11, NamesAreThree, Zenon DEF b
  <2> QED
    BY <1>9, <2>1, NamesDiffer
<1>13. b.url # a.url
  BY <1>6, <1>8, <1>12
<1> QED
  BY <1>1, <1>6, <1>12, <1>13, Zenon DEF X!SharesAnId, a, b

\* Otherwise every note has a name of its own.
NamedApart(notes, paths) ==
    /\ \A i \in DOMAIN notes : \E m \in 1 .. 3 : paths[i] = X!NamesFor(notes[i])[m]
    /\ \A i, j \in DOMAIN notes : paths[i] = paths[j] => i = j

LEMMA NotesAreNamedApart ==
    ASSUME NEW set, NEW notes \in Seq(set), ~X!Panics(notes)
    PROVE  NamedApart(notes, X!Paths(notes))
<1> DEFINE paths == X!Paths(notes)
           n == Len(notes)
<1>1. DOMAIN notes = 1 .. n /\ n \in Nat
  BY ListFacts
<1>2. TakenAfter(notes, set, n, paths)
  BY NotesAreNamed
<1> HIDE DEF paths, n
<1>3. Len(paths) = n /\ \A i \in 1 .. n : Taken(notes, paths, i)
  BY <1>2 DEF TakenAfter
<1>4. \A i \in 1 .. n : paths[i] # X!NoPath
  BY <1>3, Zenon DEF X!Panics, X!Contains, paths
<1>5. \A i \in 1 .. n : /\ \E m \in 1 .. 3 : paths[i] = X!NamesFor(notes[i])[m]
                        /\ \A j \in 1 .. i - 1 : paths[j] # paths[i]
  BY <1>3, <1>4, Zenon DEF Taken
<1>6. ASSUME NEW i \in 1 .. n, NEW j \in 1 .. n, paths[i] = paths[j] PROVE i = j
  <2>1. i = j \/ i \in 1 .. j - 1 \/ j \in 1 .. i - 1
    BY <1>1
  <2> QED
    BY <1>5, <1>6, <2>1, Zenon
<1> QED
  BY <1>1, <1>5, <1>6, Zenon DEF NamedApart, paths

-----------------------------------------------------------------------------
(* Where links lead *)

\* The best of the first notes of an address: none, or the newest.
BestAfter(notes, url, k, best) ==
    \/ best = 0 /\ \A i \in 1 .. k : notes[i].url # url
    \/ /\ best \in 1 .. k /\ notes[best].url = url
       /\ \A i \in 1 .. k : notes[i].url = url => notes[i].at <= notes[best].at

LEMMA NewerNotesAreBetter ==
    ASSUME NEW notes, NEW url, NEW k \in Nat \ {0}, \A i \in 1 .. k : notes[i].at \in Int,
           NEW best, BestAfter(notes, url, k - 1, best)
    PROVE  BestAfter(notes, url, k, X!Newer(notes, url, best, k))
<1> DEFINE next == X!Newer(notes, url, best, k)
<1>1. \A i \in 1 .. k : i = k \/ i \in 1 .. k - 1
  OBVIOUS
<1>2. \A i \in 1 .. k - 1 : i \in 1 .. k /\ i # 0
  OBVIOUS
<1>3. k \in 1 .. k
  OBVIOUS
<1>4. next = IF notes[k].url # url \/ (best # 0 /\ notes[best].at >= notes[k].at) THEN best ELSE k
  BY Zenon DEF X!Newer
<1> HIDE DEF next
<1>5. CASE notes[k].url # url
  <2>1. next = best
    BY <1>4, <1>5
  <2> QED
    BY <1>1, <1>2, <1>5, <2>1, Zenon DEF BestAfter, next
<1>6. CASE notes[k].url = url
  <2>1. CASE best = 0
    <3>1. next = k /\ \A i \in 1 .. k - 1 : notes[i].url # url
      BY <1>2, <1>4, <1>6, <2>1 DEF BestAfter
    <3>2. notes[k].at <= notes[k].at
      BY <1>3
    <3>3. \A i \in 1 .. k : notes[i].url = url => notes[i].at <= notes[k].at
      BY <1>1, <3>1, <3>2, Zenon
    <3> QED
      BY <1>3, <1>6, <3>1, <3>3, Zenon DEF BestAfter, next
  <2>2. CASE best # 0
    <3>1. /\ best \in 1 .. k - 1 /\ notes[best].url = url
          /\ \A i \in 1 .. k - 1 : notes[i].url = url => notes[i].at <= notes[best].at
      BY <2>2 DEF BestAfter
    <3>2. best \in 1 .. k /\ notes[best].at \in Int /\ notes[k].at \in Int
      BY <1>2, <1>3, <3>1
    <3>3. CASE notes[best].at >= notes[k].at
      <4>1. next = best
        BY <1>4, <2>2, <3>3
      <4>2. notes[k].at <= notes[best].at
        BY <3>2, <3>3
      <4>3. \A i \in 1 .. k : notes[i].url = url => notes[i].at <= notes[best].at
        BY <1>1, <3>1, <4>2, Zenon
      <4> QED
        BY <3>1, <3>2, <4>1, <4>3, Zenon DEF BestAfter, next
    <3>4. CASE ~(notes[best].at >= notes[k].at)
      <4>1. next = k
        BY <1>4, <1>6, <3>4
      <4>2. \A i \in 1 .. k : notes[i].url = url => notes[i].at <= notes[k].at
        <5> SUFFICES ASSUME NEW i \in 1 .. k, notes[i].url = url PROVE notes[i].at <= notes[k].at
          OBVIOUS
        <5>1. notes[i].at \in Int
          OBVIOUS
        <5>2. i = k \/ notes[i].at <= notes[best].at
          BY <1>1, <3>1
        <5> QED
          BY <3>2, <3>4, <5>1, <5>2
      <4> QED
        BY <1>3, <1>6, <4>1, <4>2, Zenon DEF BestAfter, next
    <3> QED
      BY <3>3, <3>4
  <2> QED
    BY <2>1, <2>2
<1> QED
  BY <1>5, <1>6

\* A link leads to the newest note of its address, if there is one.
LEMMA TargetsAreNewest ==
    ASSUME NEW set, NEW notes \in Seq(set), \A x \in set : x.at \in Int, NEW url
    PROVE  /\ X!TargetOf(notes, url) = 0 => X!NewestOf(notes, url) = {}
           /\ X!TargetOf(notes, url) # 0 => X!TargetOf(notes, url) \in X!NewestOf(notes, url)
<1> DEFINE n == Len(notes)
           states == 0 .. n
           f == [k \in 1 .. n |-> [best \in states |-> X!Newer(notes, url, best, k)]]
           folds(h) == h = [s \in SUBSET (1 .. n) |->
                              IF s = {} THEN 0
                              ELSE X!Newer(notes, url, h[s \ {Top(s)}], [i \in 1 .. n |-> i][Top(s)])]
           iter == CHOOSE h : folds(h)
<1>1. n \in Nat /\ DOMAIN notes = 1 .. n /\ \A k \in 1 .. n : notes[k].at \in Int
  <2>1. n \in Nat /\ DOMAIN notes = 1 .. n /\ \A k \in 1 .. n : notes[k] \in set
    BY ListFacts
  <2> QED
    BY <2>1
<1> HIDE DEF n
<1>2. f \in [1 .. n -> [states -> states]] /\ 0 \in states
  <2>1. \A k \in 1 .. n : \A best \in states : X!Newer(notes, url, best, k) \in states
    BY <1>1 DEF X!Newer
  <2>2. 0 \in states
    BY <1>1
  <2> HIDE DEF states
  <2> QED
    BY <2>1, <2>2
<1> HIDE DEF states
<1>5. \E h : folds(h)
  <2>1. PICK h : Turns(h, n, states, 0, f)
    <3> HIDE DEF f
    <3> QED
      BY <1>1, <1>2, SomethingTurns, Zenon
  <2>2. /\ \A s \in SUBSET (1 .. n) : s # {} =>
              /\ Top(s) \in 1 .. n /\ h[s \ {Top(s)}] \in states
              /\ h[s] = f[Top(s)][h[s \ {Top(s)}]]
        /\ h = [s \in SUBSET (1 .. n) |-> h[s]] /\ h[{}] = 0
    BY <2>1, Zenon DEF Turns
  <2>3. ASSUME NEW s \in SUBSET (1 .. n), s # {}
        PROVE  h[s] = X!Newer(notes, url, h[s \ {Top(s)}], [i \in 1 .. n |-> i][Top(s)])
    <3> HIDE DEF Top
    <3>1. [i \in 1 .. n |-> i][Top(s)] = Top(s)
      BY <2>2, <2>3, Zenon
    <3>2. h[s] = X!Newer(notes, url, h[s \ {Top(s)}], Top(s))
      BY <2>2, <2>3
    <3> QED
      BY <3>1, <3>2, Zenon
  <2>4. h = [s \in SUBSET (1 .. n) |->
                IF s = {} THEN 0
                ELSE X!Newer(notes, url, h[s \ {Top(s)}], [i \in 1 .. n |-> i][Top(s)])]
    <3> HIDE DEF f
    <3> QED
      BY <2>2, <2>3, Zenon
  <2> QED
    BY <2>4, Zenon
<1>6. folds(iter)
  <2> HIDE DEF folds
  <2> QED
    BY <1>5
<1> HIDE DEF iter
<1>7. ASSUME NEW k \in 1 .. n PROVE iter[1 .. k] = X!Newer(notes, url, iter[1 .. k - 1], k)
  <2>1. /\ 1 .. k # {} /\ Top(1 .. k) = k /\ (1 .. k) \ {k} = 1 .. k - 1
        /\ 1 .. k \in SUBSET (1 .. n)
    BY <1>1, TopOfPrefixes
  <2>2. [i \in 1 .. n |-> i][k] = k
    OBVIOUS
  <2>3. iter[1 .. k] = X!Newer(notes, url, iter[1 .. k - 1], [i \in 1 .. n |-> i][k])
    BY <1>6, <2>1, Zenon
  <2> QED
    BY <2>2, <2>3, Zenon
<1>8. iter[1 .. 0] = 0
  <2>1. 1 .. 0 = {}
    OBVIOUS
  <2> QED
    BY <1>6, <2>1
<1>9. BestAfter(notes, url, n, iter[1 .. n])
  <2> DEFINE so == {k \in 0 .. n : BestAfter(notes, url, k, iter[1 .. k])}
  <2>1. 0 \in so
    <3>1. BestAfter(notes, url, 0, 0)
      BY DEF BestAfter
    <3> QED
      BY <1>1, <1>8, <3>1
  <2>2. ASSUME NEW k \in 1 .. n, k - 1 \in so PROVE k \in so
    <3>1. BestAfter(notes, url, k - 1, iter[1 .. k - 1]) /\ k \in 0 .. n /\ k \in Nat \ {0}
          /\ \A i \in 1 .. k : notes[i].at \in Int
      BY <1>1, <2>2
    <3>2. BestAfter(notes, url, k, X!Newer(notes, url, iter[1 .. k - 1], k))
      BY <3>1, NewerNotesAreBetter
    <3> QED
      BY <1>7, <3>1, <3>2
  <2>3. \A k \in 0 .. n : k \in so
    <3> HIDE DEF so
    <3> QED
      BY <1>1, <2>1, <2>2, Upwards, Zenon
  <2>4. n \in so
    <3> HIDE DEF so
    <3> QED
      BY <1>1, <2>3
  <2> QED
    BY <2>4
<1>10. X!TargetOf(notes, url) = iter[1 .. n]
  <2>1. X!TargetOf(notes, url) = iter[DOMAIN [i \in 1 .. n |-> i]]
    BY <1>1 DEF X!TargetOf, X!FoldLeft, X!MapThenFoldSet, X!Max, iter, Top
  <2>2. DOMAIN [i \in 1 .. n |-> i] = 1 .. n
    OBVIOUS
  <2> QED
    BY <2>1, <2>2, Zenon
<1>11. \A i \in 1 .. n : i # 0
  OBVIOUS
<1> QED
  BY <1>1, <1>9, <1>10, <1>11, Zenon DEF BestAfter, X!NewestOf

-----------------------------------------------------------------------------
(* What a note shows *)

FilesOf(n, destinations) == {X!FileOf(n, d) : d \in destinations}
ShownIn(n, destinations) == destinations \union {[kind |-> "file", to |-> file] : file \in FilesOf(n, destinations)}
Sheets(n, destinations) ==
    [body : Seq(ShownIn(n, destinations)), files : Seq(FilesOf(n, destinations)),
     unreadable : Seq({file[1] : file \in FilesOf(n, destinations)})]

\* A destination is as it was, and then no picture or one that could not be
\* read, or it is a file that is there.
Stayed(n, b, d) == b = d /\ (X!Carried(n, d) => ~X!AssetAt(n.assets, d.names).readable)
Moved(n, b, d, files) ==
    /\ X!Carried(n, d) /\ b = [kind |-> "file", to |-> X!FileOf(n, d)]
    /\ \E f \in 1 .. Len(files) : files[f] = X!FileOf(n, d)
Shown(n, s, i) == Stayed(n, s.body[i], n.body[i]) \/ Moved(n, s.body[i], n.body[i], s.files)
ShownAfter(n, destinations, k, s) ==
    s \in Sheets(n, destinations) /\ Len(s.body) = k /\ \A i \in 1 .. k : Shown(n, s, i)

LEMMA OneMoreIsShown ==
    ASSUME NEW destinations, NEW n, NEW d \in destinations, NEW s \in Sheets(n, destinations)
    PROVE  LET t == X!Picture(n, s, d) IN
           /\ t \in Sheets(n, destinations)
           /\ \E b \in ShownIn(n, destinations) :
                 t.body = Append(s.body, b) /\ (Stayed(n, b, d) \/ Moved(n, b, d, t.files))
           /\ t.files = s.files \/ \E file \in FilesOf(n, destinations) : t.files = Append(s.files, file)
<1> DEFINE t == X!Picture(n, s, d)
           file == X!FileOf(n, d)
           readable == X!AssetAt(n.assets, d.names).readable
           shown == ShownIn(n, destinations)
           files == FilesOf(n, destinations)
           hashes == {x[1] : x \in files}
           picture == [kind |-> "file", to |-> file]
           has == X!Contains(s.files, file)
<1>1. s.body \in Seq(shown) /\ s.files \in Seq(files) /\ s.unreadable \in Seq(hashes)
      /\ s = [body |-> s.body, files |-> s.files, unreadable |-> s.unreadable]
  BY DEF Sheets
<1>2. file \in files /\ d \in shown /\ file[1] \in hashes
  <2>1. file \in files
    BY DEF FilesOf
  <2>2. d \in shown
    BY DEF ShownIn
  <2> HIDE DEF file, files
  <2> QED
    BY <2>1, <2>2
<1>3. picture \in shown
  <2> HIDE DEF file
  <2> QED
    BY <1>2 DEF ShownIn
<1>4. /\ ~X!Carried(n, d) => t = [s EXCEPT !.body = Append(s.body, d)]
      /\ X!Carried(n, d) /\ (has \/ readable) =>
            t = [s EXCEPT !.body = Append(s.body, picture), !.files = IF has THEN s.files ELSE Append(s.files, file)]
      /\ X!Carried(n, d) /\ ~(has \/ readable) =>
            t = [s EXCEPT !.body = Append(s.body, d), !.unreadable = Append(s.unreadable, file[1])]
  BY DEF X!Picture
<1>5. has <=> \E f \in 1 .. Len(s.files) : s.files[f] = file
  BY Zenon DEF X!Contains
<1> HIDE DEF t, file, readable, shown, files, hashes, picture, has
<1>6. /\ Append(s.body, d) \in Seq(shown) /\ Append(s.body, picture) \in Seq(shown)
      /\ Append(s.files, file) \in Seq(files) /\ Append(s.unreadable, file[1]) \in Seq(hashes)
  BY <1>1, <1>2, <1>3, Appended
<1> DEFINE sheets == [body : Seq(shown), files : Seq(files), unreadable : Seq(hashes)]
<1>7. ASSUME NEW u \in Seq(shown), NEW v \in Seq(files), NEW w \in Seq(hashes)
      PROVE  [body |-> u, files |-> v, unreadable |-> w] \in sheets
  OBVIOUS
<1>8. CASE ~X!Carried(n, d)
  <2>1. t = [body |-> Append(s.body, d), files |-> s.files, unreadable |-> s.unreadable]
    BY <1>1, <1>4, <1>8
  <2>2. t \in sheets
    BY <1>1, <1>6, <1>7, <2>1, Zenon
  <2>3. t.body = Append(s.body, d) /\ t.files = s.files
    BY <2>1
  <2>4. Stayed(n, d, d)
    BY <1>8, Zenon DEF Stayed
  <2> QED
    BY <1>2, <2>2, <2>3, <2>4, Zenon DEF Sheets, t, shown, files, hashes
<1>9. CASE X!Carried(n, d) /\ (has \/ readable)
  <2>1. t = [body |-> Append(s.body, picture), files |-> IF has THEN s.files ELSE Append(s.files, file),
             unreadable |-> s.unreadable]
    BY <1>1, <1>4, <1>9, Zenon
  <2>2. t \in sheets
    BY <1>1, <1>6, <1>7, <2>1, Zenon
  <2>3. t.body = Append(s.body, picture) /\ t.files = IF has THEN s.files ELSE Append(s.files, file)
    BY <2>1
  <2>4. \E f \in 1 .. Len(t.files) : t.files[f] = file
    <3>1. CASE has
      BY <1>5, <2>3, <3>1, Zenon
    <3>2. CASE ~has
      <4>1. t.files = Append(s.files, file)
        BY <2>3, <3>2, Zenon
      <4>2. /\ Len(t.files) = Len(s.files) + 1 /\ t.files[Len(s.files) + 1] = file /\ Len(s.files) \in Nat
        BY <1>1, <1>2, <4>1, Appended, ListFacts
      <4>3. Len(s.files) + 1 \in 1 .. Len(t.files)
        <5> DEFINE l == Len(s.files)
                   m == Len(t.files)
        <5>1. m = l + 1 /\ l \in Nat
          BY <4>2
        <5> HIDE DEF l, m
        <5>2. l + 1 \in 1 .. m
          BY <5>1
        <5> QED
          BY <5>2 DEF l, m
      <4> QED
        BY <4>2, <4>3, Zenon
    <3> QED
      BY <3>1, <3>2
  <2>5. Moved(n, picture, d, t.files)
    BY <1>9, <2>4, Zenon DEF Moved, picture, file
  <2>6. t.files = s.files \/ t.files = Append(s.files, file)
    BY <2>3, Zenon
  <2> QED
    BY <1>2, <1>3, <2>2, <2>3, <2>5, <2>6, Zenon DEF Sheets, t, shown, files, hashes
<1>10. CASE X!Carried(n, d) /\ ~(has \/ readable)
  <2>1. t = [body |-> Append(s.body, d), files |-> s.files, unreadable |-> Append(s.unreadable, file[1])]
    BY <1>1, <1>4, <1>10, Zenon
  <2>2. t \in sheets
    BY <1>1, <1>6, <1>7, <2>1, Zenon
  <2>3. t.body = Append(s.body, d) /\ t.files = s.files
    BY <2>1
  <2>4. Stayed(n, d, d)
    BY <1>10, Zenon DEF Stayed, readable
  <2> QED
    BY <1>2, <2>2, <2>3, <2>4, Zenon DEF Sheets, t, shown, files, hashes
<1> QED
  BY <1>8, <1>9, <1>10, Zenon

LEMMA ShowingGoesOn ==
    ASSUME NEW destinations, NEW n, NEW k \in Nat \ {0}, n.body[k] \in destinations,
           NEW s, ShownAfter(n, destinations, k - 1, s)
    PROVE  ShownAfter(n, destinations, k, X!Picture(n, s, n.body[k]))
<1> DEFINE d == n.body[k]
           t == X!Picture(n, s, d)
           shown == ShownIn(n, destinations)
           files == FilesOf(n, destinations)
<1>1. s \in Sheets(n, destinations) /\ Len(s.body) = k - 1 /\ \A i \in 1 .. k - 1 : Shown(n, s, i)
  BY Zenon DEF ShownAfter
<1>2. /\ t \in Sheets(n, destinations)
      /\ \E b \in shown : t.body = Append(s.body, b) /\ (Stayed(n, b, d) \/ Moved(n, b, d, t.files))
      /\ t.files = s.files \/ \E file \in files : t.files = Append(s.files, file)
  <2>1. d \in destinations
    OBVIOUS
  <2> HIDE DEF d
  <2>2. LET x == X!Picture(n, s, d) IN
        /\ x \in Sheets(n, destinations)
        /\ \E b \in ShownIn(n, destinations) :
              x.body = Append(s.body, b) /\ (Stayed(n, b, d) \/ Moved(n, b, d, x.files))
        /\ x.files = s.files \/ \E file \in FilesOf(n, destinations) : x.files = Append(s.files, file)
    BY <1>1, <2>1, OneMoreIsShown
  <2> QED
    BY <2>2 DEF t, shown, files
<1>3. s.body \in Seq(shown) /\ s.files \in Seq(files)
  BY <1>1 DEF Sheets
<1> HIDE DEF t, d, shown, files
<1>4. PICK b \in shown : t.body = Append(s.body, b) /\ (Stayed(n, b, d) \/ Moved(n, b, d, t.files))
  BY <1>2
<1>5. Len(t.body) = k /\ t.body[k] = b /\ \A i \in 1 .. k - 1 : t.body[i] = s.body[i]
  <2>1. /\ Len(t.body) = Len(s.body) + 1 /\ t.body[Len(s.body) + 1] = b
        /\ \A i \in 1 .. Len(s.body) : t.body[i] = s.body[i]
    BY <1>3, <1>4, Appended
  <2>2. Len(s.body) + 1 = k
    BY <1>1
  <2> QED
    BY <1>1, <2>1, <2>2
<1>6. \A f \in 1 .. Len(s.files) : f \in 1 .. Len(t.files) /\ t.files[f] = s.files[f]
  <2>1. CASE t.files = s.files
    BY <2>1
  <2>2. CASE \E file \in files : t.files = Append(s.files, file)
    <3>1. PICK file \in files : t.files = Append(s.files, file)
      BY <2>2
    <3>2. /\ Len(t.files) = Len(s.files) + 1 /\ Len(s.files) \in Nat
          /\ \A f \in 1 .. Len(s.files) : t.files[f] = s.files[f]
      BY <1>3, <3>1, Appended, ListFacts
    <3> DEFINE l == Len(s.files)
               m == Len(t.files)
    <3>3. m = l + 1 /\ l \in Nat
      BY <3>2
    <3> HIDE DEF l, m
    <3>4. \A f \in 1 .. l : f \in 1 .. m
      BY <3>3
    <3> QED
      BY <3>2, <3>4, Zenon DEF l, m
  <2> QED
    BY <1>2, <2>1, <2>2
<1>7. ASSUME NEW i \in 1 .. k PROVE Shown(n, t, i)
  <2>1. CASE i = k
    BY <1>4, <1>5, <2>1, Zenon DEF Shown, d
  <2>2. CASE i # k
    <3>1. i \in 1 .. k - 1
      BY <2>2
    <3>2. Shown(n, s, i) /\ t.body[i] = s.body[i]
      BY <1>1, <1>5, <3>1
    <3> QED
      BY <1>6, <3>2, Zenon DEF Shown, Stayed, Moved
  <2> QED
    BY <2>1, <2>2
<1> QED
  BY <1>2, <1>5, <1>7, Zenon DEF ShownAfter, t, d

\* Every destination of a note is shown: as it was, or as a file of it.
LEMMA NotesAreShown ==
    ASSUME NEW destinations, NEW n, n.body \in Seq(destinations)
    PROVE  ShownAfter(n, destinations, Len(n.body), X!Pictured(n))
<1> DEFINE l == Len(n.body)
           states == Sheets(n, destinations)
           f == [k \in 1 .. l |-> [s \in states |-> X!Picture(n, s, n.body[k])]]
           folds(h) == h = [s \in SUBSET (1 .. l) |->
                              IF s = {} THEN X!Blank ELSE X!Picture(n, h[s \ {Top(s)}], n.body[Top(s)])]
           iter == CHOOSE h : folds(h)
<1>1. l \in Nat /\ DOMAIN n.body = 1 .. l /\ \A k \in 1 .. l : n.body[k] \in destinations
  BY ListFacts
<1> HIDE DEF l
<1>2. X!Blank \in states /\ Len(X!Blank.body) = 0
  BY DEF X!Blank, Sheets
<1>3. \A k \in 1 .. l : \A s \in states : X!Picture(n, s, n.body[k]) \in states
  BY <1>1, OneMoreIsShown
<1> HIDE DEF states
<1>4. f \in [1 .. l -> [states -> states]]
  BY <1>3
<1>5. \E h : folds(h)
  <2>1. PICK h : Turns(h, l, states, X!Blank, f)
    <3> HIDE DEF f
    <3> QED
      BY <1>1, <1>2, <1>4, SomethingTurns
  <2>2. /\ \A s \in SUBSET (1 .. l) : s # {} =>
              /\ Top(s) \in 1 .. l /\ h[s \ {Top(s)}] \in states
              /\ h[s] = f[Top(s)][h[s \ {Top(s)}]]
        /\ h = [s \in SUBSET (1 .. l) |-> h[s]] /\ h[{}] = X!Blank
    BY <2>1, Zenon DEF Turns
  <2>3. ASSUME NEW s \in SUBSET (1 .. l), s # {} PROVE h[s] = X!Picture(n, h[s \ {Top(s)}], n.body[Top(s)])
    <3> HIDE DEF Top
    <3> QED
      BY <2>2, <2>3, Zenon
  <2>4. h = [s \in SUBSET (1 .. l) |-> IF s = {} THEN X!Blank ELSE X!Picture(n, h[s \ {Top(s)}], n.body[Top(s)])]
    <3> HIDE DEF f
    <3> QED
      BY <2>2, <2>3, Zenon
  <2> QED
    BY <2>4, Zenon
<1>6. folds(iter)
  <2> HIDE DEF folds
  <2> QED
    BY <1>5
<1> HIDE DEF iter
<1>7. ASSUME NEW k \in 1 .. l PROVE iter[1 .. k] = X!Picture(n, iter[1 .. k - 1], n.body[k])
  <2>1. /\ 1 .. k # {} /\ Top(1 .. k) = k /\ (1 .. k) \ {k} = 1 .. k - 1
        /\ 1 .. k \in SUBSET (1 .. l)
    BY <1>1, TopOfPrefixes
  <2> QED
    BY <1>6, <2>1, Zenon
<1>8. iter[1 .. 0] = X!Blank
  <2>1. 1 .. 0 = {}
    OBVIOUS
  <2> QED
    BY <1>6, <2>1
<1>9. ShownAfter(n, destinations, l, iter[1 .. l])
  <2> DEFINE so == {k \in 0 .. l : ShownAfter(n, destinations, k, iter[1 .. k])}
  <2>1. 0 \in so
    <3>1. 1 .. 0 = {}
      OBVIOUS
    <3>2. ShownAfter(n, destinations, 0, X!Blank)
      BY <1>2, <3>1, Zenon DEF ShownAfter, states
    <3> QED
      BY <1>1, <1>8, <3>2
  <2>2. ASSUME NEW k \in 1 .. l, k - 1 \in so PROVE k \in so
    <3>1. ShownAfter(n, destinations, k - 1, iter[1 .. k - 1]) /\ k \in 0 .. l /\ k \in Nat \ {0} /\ n.body[k] \in destinations
      BY <1>1, <2>2
    <3>2. ShownAfter(n, destinations, k, X!Picture(n, iter[1 .. k - 1], n.body[k]))
      BY <3>1, ShowingGoesOn
    <3> QED
      BY <1>7, <3>1, <3>2
  <2>3. \A k \in 0 .. l : k \in so
    <3> HIDE DEF so
    <3> QED
      BY <1>1, <2>1, <2>2, Upwards, Zenon
  <2>4. l \in so
    <3> HIDE DEF so
    <3> QED
      BY <1>1, <2>3
  <2> QED
    BY <2>4
<1>10. X!Pictured(n) = iter[1 .. l]
  <2>1. X!Pictured(n) = iter[DOMAIN n.body]
    BY <1>1 DEF X!Pictured, X!FoldLeft, X!MapThenFoldSet, X!Max, iter, Top
  <2> QED
    BY <1>1, <2>1, Zenon
<1> QED
  BY <1>9, <1>10, Zenon DEF l

-----------------------------------------------------------------------------
(* What is written, and in which order *)

LEMMA ListsAreLists ==
    ASSUME NEW set, NEW m \in Nat, NEW s, s = [k \in 1 .. m |-> s[k]], \A k \in 1 .. m : s[k] \in set
    PROVE  s \in Seq(set) /\ Len(s) = m
  OBVIOUS

\* The hosts of some notes can be listed.
HostsOf(notes, n) == {notes[i].host : i \in 1 .. n}

LEMMA HostsAreListed ==
    ASSUME NEW n \in Nat, NEW notes
    PROVE  \E c \in Nat : DOMAIN X!SetToSeq(HostsOf(notes, n)) = 1 .. c
<1> DEFINE f == [i \in 1 .. n |-> notes[i].host]
           hosts == HostsOf(notes, n)
           list == X!SetToSeq(hosts)
           c == Cardinality(hosts)
<1>1. IsFiniteSet(hosts)
  <2>1. f \in Surjection(1 .. n, hosts)
    <3>1. f \in [1 .. n -> hosts] /\ \A h \in hosts : \E i \in 1 .. n : f[i] = h
      BY DEF HostsOf
    <3> HIDE DEF f, hosts
    <3> QED
      BY <3>1 DEF Surjection
  <2>2. IsFiniteSet(1 .. n)
    BY FS_Interval
  <2> HIDE DEF f, hosts
  <2> QED
    BY <2>1, <2>2, FS_Surjection
<1>2. c \in Nat /\ ExistsBijection(1 .. c, hosts)
  BY <1>1, FS_CardinalityType
<1>3. PICK g : g \in Bijection(1 .. c, hosts)
  BY <1>2 DEF ExistsBijection
<1>4. g \in [1 .. c -> hosts] /\ X!IsInjective(g)
  <2>1. g \in [1 .. c -> hosts] /\ \A a, b \in 1 .. c : g[a] = g[b] => a = b
    BY <1>3 DEF Bijection, Injection, IsInjective
  <2> HIDE DEF c
  <2> QED
    BY <2>1, Zenon DEF X!IsInjective
<1>5. list = CHOOSE s \in [1 .. c -> hosts] : X!IsInjective(s)
  BY ExportCountsAreOne, Zenon DEF X!SetToSeq
<1> HIDE DEF c
<1>6. list \in [1 .. c -> hosts]
  BY <1>4, <1>5, Zenon
<1> QED
  BY <1>2, <1>6, Zenon

\* The pictures a note can have, and the indexes of some hosts.
PairNamed(entry) == \E x, y : entry.path = <<x, y>>
PicturesOf(n, destinations) == {[path |-> file, holds |-> <<>>] : file \in FilesOf(n, destinations)}

LEMMA PicturesAreNamed ==
    ASSUME NEW n, NEW destinations, NEW entry \in PicturesOf(n, destinations)
    PROVE  PairNamed(entry)
<1>1. PICK d \in destinations : entry = [path |-> X!FileOf(n, d), holds |-> <<>>]
  BY DEF PicturesOf, FilesOf
<1>2. entry.path = <<X!AssetAt(n.assets, d.names).hash, X!AssetAt(n.assets, d.names).type>>
  BY <1>1 DEF X!FileOf
<1> QED
  BY <1>2, Zenon DEF PairNamed

LEMMA IndexesAreNamed ==
    ASSUME NEW set, NEW notes \in Seq(set), NEW paths
    PROVE  LET s == X!Indexes(notes, paths) IN
           \E c \in Nat : s = [h \in 1 .. c |-> s[h]] /\ \A h \in 1 .. c : PairNamed(s[h])
<1> DEFINE s == X!Indexes(notes, paths)
           hosts == {notes[i].host : i \in DOMAIN notes}
           list == X!SetToSeq(hosts)
<1>1. Len(notes) \in Nat /\ DOMAIN notes = 1 .. Len(notes)
  BY ListFacts
<1>2. PICK c \in Nat : DOMAIN list = 1 .. c
  <2>1. hosts = HostsOf(notes, Len(notes))
    BY <1>1 DEF HostsOf
  <2>2. \E c \in Nat : DOMAIN X!SetToSeq(HostsOf(notes, Len(notes))) = 1 .. c
    BY <1>1, HostsAreListed, Zenon
  <2> HIDE DEF hosts
  <2> QED
    BY <2>1, <2>2, Zenon
<1>3. s = [h \in DOMAIN list |-> [path |-> <<list[h], "index">>,
                                  holds |-> {paths[i] : i \in {j \in DOMAIN notes : notes[j].host = list[h]}}]]
  BY Zenon DEF X!Indexes
<1> HIDE DEF s, list
<1>4. s = [h \in 1 .. c |-> s[h]]
  BY <1>2, <1>3
<1>5. \A h \in 1 .. c : s[h].path = <<list[h], "index">>
  BY <1>2, <1>3
<1> QED
  BY <1>4, <1>5, Zenon DEF PairNamed, s

\* A note is written after its pictures.
WrittenFor(list, entry, files) ==
    /\ Len(list) = Len(files) + 1 /\ list[Len(files) + 1] = entry
    /\ \A f \in 1 .. Len(files) : list[f].path = files[f]

LEMMA ANoteIsWritten ==
    ASSUME NEW notes, NEW paths, NEW i, NEW destinations, notes[i].body \in Seq(destinations),
           NEW entries, PicturesOf(notes[i], destinations) \subseteq entries, X!NoteFile(notes, paths, i) \in entries
    PROVE  /\ X!NoteWrites(notes, paths, i) \in Seq(entries)
           /\ WrittenFor(X!NoteWrites(notes, paths, i), X!NoteFile(notes, paths, i), X!Pictured(notes[i]).files)
           /\ \A k \in 1 .. Len(X!Pictured(notes[i]).files) :
                 X!NoteWrites(notes, paths, i)[k] \in PicturesOf(notes[i], destinations)
<1> DEFINE n == notes[i]
           files == X!Pictured(n).files
           m == Len(files)
           entry == X!NoteFile(notes, paths, i)
           pictures == [f \in DOMAIN files |-> [path |-> files[f], holds |-> <<>>]]
           all == FilesOf(n, destinations)
<1>1. files \in Seq(all)
  <2>1. X!Pictured(n) \in Sheets(n, destinations)
    BY NotesAreShown DEF ShownAfter
  <2> HIDE DEF all
  <2> QED
    BY <2>1 DEF Sheets, all
<1>2. X!NoteWrites(notes, paths, i) = Append(pictures, entry)
  BY Zenon DEF X!NoteWrites
<1> HIDE DEF files, entry
<1>3. m \in Nat /\ DOMAIN files = 1 .. m /\ \A f \in 1 .. m : files[f] \in all
  BY <1>1, ListFacts
<1> HIDE DEF m, all
<1>4. pictures = [f \in 1 .. m |-> pictures[f]] /\ \A f \in 1 .. m : pictures[f] = [path |-> files[f], holds |-> <<>>]
  BY <1>3
<1>5. \A f \in 1 .. m : pictures[f] \in PicturesOf(n, destinations) /\ pictures[f].path = files[f]
  <2> HIDE DEF pictures, n
  <2> QED
    BY <1>3, <1>4 DEF PicturesOf, all
<1> HIDE DEF pictures
<1>6. pictures \in Seq(entries) /\ Len(pictures) = m
  <2>1. \A f \in 1 .. m : pictures[f] \in entries
    BY <1>5
  <2> QED
    BY <1>3, <1>4, <2>1, ListsAreLists
<1> DEFINE list == Append(pictures, entry)
<1>7. list \in Seq(entries) /\ Len(list) = m + 1 /\ list[m + 1] = entry /\ \A f \in 1 .. m : list[f] = pictures[f]
  <2>1. entry \in entries
    BY DEF entry
  <2>2. /\ list \in Seq(entries) /\ Len(list) = Len(pictures) + 1 /\ list[Len(pictures) + 1] = entry
        /\ \A f \in 1 .. Len(pictures) : list[f] = pictures[f]
    BY <1>6, <2>1, Appended
  <2> QED
    BY <1>6, <2>2
<1> HIDE DEF list
<1>8. \A f \in 1 .. m : list[f].path = files[f] /\ list[f] \in PicturesOf(n, destinations)
  BY <1>5, <1>7
<1>9. X!NoteWrites(notes, paths, i) = list
  BY <1>2, Zenon DEF list
<1> QED
  BY <1>7, <1>8, <1>9, Zenon DEF WrittenFor, m, files, entry

\* A write is a picture or an index, with a name of two parts, or a note
\* whose pictures are written before it; every note is written.
WrittenInOrder(notes, paths, entries, all) ==
    /\ all \in Seq(entries)
    /\ \A k \in 1 .. Len(all) :
          \/ PairNamed(all[k])
          \/ \E i \in 1 .. Len(notes) :
                /\ all[k] = X!NoteFile(notes, paths, i)
                /\ \A f \in 1 .. Len(X!Pictured(notes[i]).files) :
                      \E j \in 1 .. k - 1 : all[j].path = X!Pictured(notes[i]).files[f]
    /\ \A i \in 1 .. Len(notes) : \E k \in 1 .. Len(all) : all[k] = X!NoteFile(notes, paths, i)

LEMMA WritesAreInOrder ==
    ASSUME NEW set, NEW destinations, NEW notes \in Seq(set), \A x \in set : x.body \in Seq(destinations)
    PROVE  \E entries : WrittenInOrder(notes, X!Paths(notes), entries, X!Writes(notes))
<1> DEFINE n == Len(notes)
           paths == X!Paths(notes)
           indexes == X!Indexes(notes, paths)
           files(i) == X!Pictured(notes[i]).files
           pictures == {PicturesOf(notes[i], destinations) : i \in 1 .. n}
           noted == {X!NoteFile(notes, paths, i) : i \in 1 .. n}
           indexed == {indexes[h] : h \in DOMAIN indexes}
           entries == (UNION pictures) \union noted \union indexed
           lists == Seq(entries)
           seqs == [i \in 1 .. n |-> X!NoteWrites(notes, paths, i)]
           first == X!FlattenSeq(seqs)
           all == first \o indexes
<1>1. n \in Nat /\ DOMAIN notes = 1 .. n /\ \A i \in 1 .. n : notes[i].body \in Seq(destinations)
  <2>1. n \in Nat /\ DOMAIN notes = 1 .. n /\ \A i \in 1 .. n : notes[i] \in set
    BY ListFacts
  <2> QED
    BY <2>1
<1>2. X!Writes(notes) = all
  BY <1>1, Zenon DEF X!Writes
<1> HIDE DEF n
<1>3. PICK c \in Nat : indexes = [h \in 1 .. c |-> indexes[h]] /\ \A h \in 1 .. c : PairNamed(indexes[h])
  <2> HIDE DEF indexes
  <2> QED
    BY IndexesAreNamed DEF indexes
<1> HIDE DEF indexes, paths
<1>4. indexes \in lists /\ Len(indexes) = c
  <2>1. DOMAIN indexes = 1 .. c
    BY <1>3, Zenon
  <2>2. \A h \in 1 .. c : indexes[h] \in entries
    <3>1. \A h \in 1 .. c : indexes[h] \in indexed
      BY <2>1, Zenon
    <3> HIDE DEF indexed, pictures, noted
    <3> QED
      BY <3>1, Zenon
  <2> HIDE DEF entries
  <2> QED
    BY <1>3, <2>2, ListsAreLists
<1>5. ASSUME NEW i \in 1 .. n
      PROVE  /\ seqs[i] \in lists
             /\ WrittenFor(seqs[i], X!NoteFile(notes, paths, i), files(i))
             /\ \A k \in 1 .. Len(files(i)) : PairNamed(seqs[i][k])
             /\ Len(files(i)) \in Nat
  <2>1. PicturesOf(notes[i], destinations) \subseteq entries /\ X!NoteFile(notes, paths, i) \in entries
    <3>1. PicturesOf(notes[i], destinations) \in pictures
      BY Zenon
    <3>2. X!NoteFile(notes, paths, i) \in noted
      BY Zenon
    <3> HIDE DEF indexed, pictures, noted
    <3> QED
      BY <3>1, <3>2, Zenon
  <2>2. seqs[i] = X!NoteWrites(notes, paths, i)
    OBVIOUS
  <2> HIDE DEF entries, seqs, files
  <2>3. /\ seqs[i] \in Seq(entries)
        /\ WrittenFor(seqs[i], X!NoteFile(notes, paths, i), X!Pictured(notes[i]).files)
        /\ \A k \in 1 .. Len(X!Pictured(notes[i]).files) : seqs[i][k] \in PicturesOf(notes[i], destinations)
    BY <1>1, <2>1, <2>2, ANoteIsWritten, Zenon
  <2>4. Len(files(i)) \in Nat
    <3>1. X!Pictured(notes[i]) \in Sheets(notes[i], destinations)
      BY <1>1, NotesAreShown DEF ShownAfter
    <3>2. X!Pictured(notes[i]).files \in Seq(FilesOf(notes[i], destinations))
      BY <3>1 DEF Sheets
    <3> QED
      BY <3>2, ListFacts DEF files
  <2> QED
    BY <2>3, <2>4, PicturesAreNamed DEF files
<1> HIDE DEF files
<1>6. seqs \in Seq(lists) /\ Len(seqs) = n
  <2>1. seqs = [i \in 1 .. n |-> seqs[i]]
    OBVIOUS
  <2>2. \A i \in 1 .. n : seqs[i] \in lists
    BY <1>5
  <2> HIDE DEF seqs, lists
  <2> QED
    BY <1>1, <2>1, <2>2, ListsAreLists
<1> HIDE DEF seqs
<1>7. first \in lists /\ \E off : Flattens(seqs, n, first, off)
  <2> HIDE DEF entries
  <2> QED
    BY <1>6, NotesAreFlattened
<1>8. PICK off : Flattens(seqs, n, first, off)
  BY <1>7
<1> HIDE DEF first, entries
<1>9. /\ all \in lists /\ Len(all) = Len(first) + Len(indexes)
      /\ \A i \in 1 .. Len(first) : i \in 1 .. Len(all) /\ all[i] = first[i]
      /\ \A i \in 1 .. Len(indexes) : Len(first) + i \in 1 .. Len(all) /\ all[Len(first) + i] = indexes[i]
      /\ \A i \in 1 .. Len(all) : i \in 1 .. Len(first) \/ \E k \in 1 .. Len(indexes) : i = Len(first) + k
  <2>1. first \in Seq(entries)
    BY <1>7
  <2>3. indexes \in Seq(entries)
    BY <1>4
  <2> HIDE DEF lists
  <2>2. /\ all \in Seq(entries) /\ Len(all) = Len(first) + Len(indexes)
        /\ \A i \in 1 .. Len(first) : i \in 1 .. Len(all) /\ all[i] = first[i]
        /\ \A i \in 1 .. Len(indexes) : Len(first) + i \in 1 .. Len(all) /\ all[Len(first) + i] = indexes[i]
        /\ \A i \in 1 .. Len(all) : i \in 1 .. Len(first) \/ \E k \in 1 .. Len(indexes) : i = Len(first) + k
    <3>1. Joins(first, indexes, all, entries)
      BY <2>1, <2>3, JoinedLists, Zenon
    <3> HIDE DEF all
    <3> QED
      BY <3>1, Zenon DEF Joins
  <2> HIDE DEF all
  <2> QED
    BY <2>2, Zenon DEF lists
<1> HIDE DEF all
<1>10. ASSUME NEW i \in 1 .. n, NEW k \in 1 .. Len(seqs[i])
       PROVE  off[i] + k \in 1 .. Len(all) /\ all[off[i] + k] = seqs[i][k]
  <2>1. off[i] + k \in 1 .. Len(first) /\ first[off[i] + k] = seqs[i][k]
    BY <1>8, <1>10, Zenon DEF Flattens
  <2> QED
    BY <1>9, <2>1, Zenon
<1>11. ASSUME NEW k \in 1 .. Len(all), ~PairNamed(all[k])
       PROVE  \E i \in 1 .. n : /\ all[k] = X!NoteFile(notes, paths, i)
                                /\ \A f \in 1 .. Len(files(i)) : \E j \in 1 .. k - 1 : all[j].path = files(i)[f]
  <2>1. k \in 1 .. Len(first)
    <3>1. \A h \in 1 .. Len(indexes) : PairNamed(all[Len(first) + h])
      BY <1>3, <1>4, <1>9, Zenon
    <3> QED
      BY <1>9, <1>11, <3>1, Zenon
  <2>2. PICK i \in 1 .. n : \E b \in 1 .. Len(seqs[i]) : k = off[i] + b
    BY <1>8, <2>1, Zenon DEF Flattens
  <2>3. PICK b \in 1 .. Len(seqs[i]) : k = off[i] + b
    BY <2>2
  <2> DEFINE m == Len(files(i))
  <2>4. all[k] = seqs[i][b]
    BY <1>10, <2>3, Zenon
  <2>5. /\ Len(seqs[i]) = m + 1 /\ seqs[i][m + 1] = X!NoteFile(notes, paths, i)
        /\ \A f \in 1 .. m : seqs[i][f].path = files(i)[f] /\ PairNamed(seqs[i][f])
        /\ m \in Nat
    BY <1>5, Zenon DEF WrittenFor
  <2> HIDE DEF m
  <2>6. b \notin 1 .. m
    BY <1>11, <2>4, <2>5, Zenon
  <2>7. b = m + 1
    BY <2>5, <2>6
  <2>8. off[i] \in Nat
    BY <1>8, Zenon DEF Flattens
  <2>9. ASSUME NEW f \in 1 .. m PROVE \E j \in 1 .. k - 1 : all[j].path = files(i)[f]
    <3>1. f \in 1 .. Len(seqs[i])
      BY <2>5
    <3>2. off[i] + f \in 1 .. Len(all) /\ all[off[i] + f] = seqs[i][f]
      BY <1>10, <3>1, Zenon
    <3>3. off[i] + f \in 1 .. k - 1
      <4> DEFINE o == off[i]
      <4>1. o \in Nat /\ k = o + (m + 1) /\ m \in Nat
        BY <2>3, <2>5, <2>7, <2>8
      <4> HIDE DEF o
      <4>2. o + f \in 1 .. k - 1
        BY <4>1
      <4> QED
        BY <4>2 DEF o
    <3>4. all[off[i] + f].path = files(i)[f]
      BY <2>5, <3>2, Zenon
    <3> QED
      BY <3>3, <3>4, Zenon
  <2> QED
    BY <2>4, <2>5, <2>7, <2>9, Zenon DEF m
<1>12. ASSUME NEW i \in 1 .. n PROVE \E k \in 1 .. Len(all) : all[k] = X!NoteFile(notes, paths, i)
  <2> DEFINE m == Len(files(i))
  <2>1. Len(seqs[i]) = m + 1 /\ seqs[i][m + 1] = X!NoteFile(notes, paths, i) /\ m \in Nat
    BY <1>5, Zenon DEF WrittenFor
  <2> HIDE DEF m
  <2>2. m + 1 \in 1 .. Len(seqs[i])
    BY <2>1
  <2> QED
    BY <1>10, <2>1, <2>2, Zenon
<1>13. WrittenInOrder(notes, paths, entries, all)
  <2> HIDE DEF lists
  <2>1. all \in Seq(entries)
    BY <1>9 DEF lists
  <2> QED
    BY <1>11, <1>12, <2>1, Zenon DEF WrittenInOrder, files, n
<1> QED
  BY <1>2, <1>13, Zenon DEF paths

LEMMA HeadAndTail ==
    ASSUME NEW set, NEW s \in Seq(set), s # <<>>
    PROVE  <<s[1]>> \o Tail(s) = s
<1> DEFINE n == Len(s)
           first == <<s[1]>>
           rest == Tail(s)
           whole == first \o rest
<1>1. n \in Nat \ {0} /\ s = [i \in 1 .. n |-> s[i]] /\ s[1] \in set
  OBVIOUS
<1>2. /\ Tail(s) \in Seq(set) /\ Len(Tail(s)) = n - 1
      /\ \A i \in 1 .. n - 1 : Tail(s)[i] = s[i + 1]
  OBVIOUS
<1>3. <<s[1]>> \in Seq(set) /\ Len(<<s[1]>>) = 1 /\ <<s[1]>>[1] = s[1]
  BY <1>1
<1>4. /\ whole \in Seq(set) /\ Len(whole) = Len(first) + Len(rest)
      /\ \A i \in 1 .. Len(first) : whole[i] = first[i]
      /\ \A i \in 1 .. Len(rest) : whole[Len(first) + i] = rest[i]
  <2>1. first \in Seq(set)
    BY <1>3
  <2>2. rest \in Seq(set)
    BY <1>2
  <2> HIDE DEF first, rest
  <2> QED
    BY <2>1, <2>2, Joined
<1> HIDE DEF n, whole, first, rest
<1>5. Len(whole) = n /\ whole = [i \in 1 .. Len(whole) |-> whole[i]]
  <2>1. Len(whole) = n
    BY <1>1, <1>2, <1>3, <1>4 DEF first, rest
  <2>2. whole = [i \in 1 .. Len(whole) |-> whole[i]]
    BY <1>4
  <2> QED
    BY <2>1, <2>2
<1>6. \A i \in 1 .. n : whole[i] = s[i]
  <2> SUFFICES ASSUME NEW i \in 1 .. n PROVE whole[i] = s[i]
    OBVIOUS
  <2>0. Len(first) = 1 /\ first[1] = s[1] /\ Len(rest) = n - 1 /\ \A j \in 1 .. n - 1 : rest[j] = s[j + 1]
    BY <1>2, <1>3 DEF first, rest
  <2>1. CASE i = 1
    BY <1>4, <2>0, <2>1
  <2>2. CASE i # 1
    <3>1. i - 1 \in 1 .. n - 1 /\ 1 + (i - 1) = i /\ (i - 1) + 1 = i
      BY <1>1, <2>2
    <3>2. whole[1 + (i - 1)] = rest[i - 1] /\ rest[i - 1] = s[(i - 1) + 1]
      BY <1>4, <2>0, <3>1
    <3> QED
      BY <3>1, <3>2
  <2> QED
    BY <2>1, <2>2
<1>7. [i \in 1 .. n |-> whole[i]] = [i \in 1 .. n |-> s[i]]
  BY <1>6, Zenon
<1>8. whole = s
  BY <1>1, <1>5, <1>7, Zenon
<1> QED
  BY <1>8 DEF whole, first, rest

LEMMA NamesAreLists ==
    ASSUME NEW a, NEW b, NEW c, NEW d
    PROVE  /\ \E set : <<a, b, c>> \in Seq(set)
           /\ \E set : <<a, b, c, d>> \in Seq(set)
<1>1. <<a, b, c>> \in Seq({a, b, c})
  OBVIOUS
<1>2. <<a, b, c, d>> \in Seq({a, b, c, d})
  OBVIOUS
<1> QED
  BY <1>1, <1>2, Zenon

\* A relative path leads, from where it is written, to what it names.
LEMMA RelativePathsLead ==
    ASSUME NEW a, NEW b, NEW k \in 1 .. 3, NEW m \in 1 .. 3, NEW from, NEW to,
           from = X!NamesFor(a)[k], to = X!NamesFor(b)[m]
    PROVE  X!LeadsTo(a.host, X!Relative(from, to)) = to
<1>1. from[1] = a.host /\ to[1] = b.host
  BY ANoteHasAName
<1>2. CASE from[1] = to[1]
  <2>1. <<b.host>> \o Tail(to) = to
    <3>1. m = 1 \/ m = 2 \/ m = 3
      OBVIOUS
    <3>2. to = <<b.host, b.date, b.slug>> \/ \E x : to = <<b.host, b.date, b.slug, x>>
      BY <3>1, NamesAreThree
    <3>3. PICK set : to \in Seq(set)
      <4>1. CASE to = <<b.host, b.date, b.slug>>
        <5>1. \E set : <<b.host, b.date, b.slug>> \in Seq(set)
          BY NamesAreLists, Zenon
        <5> QED
          BY <4>1, <5>1, Zenon
      <4>2. ASSUME NEW x, to = <<b.host, b.date, b.slug, x>>
            PROVE  \E set : to \in Seq(set)
        <5>1. \E set : <<b.host, b.date, b.slug, x>> \in Seq(set)
          BY NamesAreLists, Zenon
        <5> QED
          BY <4>2, <5>1, Zenon
      <4> QED
        BY <3>2, <4>1, <4>2, Zenon
    <3>4. to # <<>>
      <4>1. <<b.host, b.date, b.slug>> # <<>> /\ \A x : <<b.host, b.date, b.slug, x>> # <<>>
        OBVIOUS
      <4> QED
        BY <3>2, <4>1, Zenon
    <3> QED
      BY <1>1, <3>3, <3>4, HeadAndTail
  <2>2. X!Relative(from, to) = <<Tail(to)>>
    BY <1>2 DEF X!Relative
  <2>3. X!LeadsTo(a.host, <<Tail(to)>>) = <<a.host>> \o Tail(to)
    <3>1. Len(<<Tail(to)>>) = 1 /\ <<Tail(to)>>[1] = Tail(to)
      OBVIOUS
    <3> QED
      BY <3>1, Zenon DEF X!LeadsTo
  <2> QED
    BY <1>1, <1>2, <2>1, <2>2, <2>3, Zenon
<1>3. CASE from[1] # to[1]
  <2>1. X!Relative(from, to) = << <<"..">>, to>>
    BY <1>3 DEF X!Relative
  <2>2. Len(<< <<"..">>, to>>) # 1 /\ << <<"..">>, to>>[2] = to
    OBVIOUS
  <2> QED
    BY <2>1, <2>2, Zenon DEF X!LeadsTo
<1> QED
  BY <1>2, <1>3

\* What is in a vault is what was written until a write failed.
LEMMA VaultsBegin ==
    ASSUME NEW entries, NEW notes, X!Writes(notes) \in Seq(entries), NEW failing \in Nat \ {0}, NEW created
    PROVE  LET v == X!Vault(notes, failing, created)
               all == X!Writes(notes) IN
           /\ Len(v) \in Nat /\ DOMAIN v = 1 .. Len(v)
           /\ \A k \in 1 .. Len(v) : k \in 1 .. Len(all) /\ v[k] = all[k]
<1> DEFINE all == X!Writes(notes)
           n == Len(all)
           v == X!Vault(notes, failing, created)
<1>1. all \in Seq(entries) /\ n \in Nat /\ DOMAIN all = 1 .. n
  BY ListFacts
<1>2. v = IF failing > n THEN all ELSE IF created THEN <<>> ELSE SubSeq(all, 1, failing - 1)
  BY Zenon DEF X!Vault
<1> HIDE DEF all, v
<1>3. CASE failing > n
  <2>1. v = all
    BY <1>2, <1>3
  <2> QED
    BY <1>1, <2>1 DEF all, v
<1>4. CASE ~(failing > n) /\ created
  <2>1. v = <<>>
    BY <1>2, <1>4
  <2>2. Len(v) = 0 /\ DOMAIN v = {} /\ 1 .. 0 = {}
    BY <2>1
  <2> QED
    BY <2>2 DEF all, v
<1>5. CASE ~(failing > n) /\ ~created
  <2>1. v = SubSeq(all, 1, failing - 1)
    BY <1>2, <1>5
  <2>2. failing - 1 \in 0 .. n
    BY <1>1, <1>5
  <2>3. /\ Len(v) = failing - 1 /\ DOMAIN v = 1 .. failing - 1
        /\ \A k \in 1 .. failing - 1 : v[k] = all[k]
    BY <1>1, <2>1, <2>2
  <2> HIDE DEF n
  <2>4. \A k \in 1 .. failing - 1 : k \in 1 .. n
    BY <1>1, <2>2
  <2> QED
    BY <2>2, <2>3, <2>4 DEF all, v, n
<1> QED
  BY <1>3, <1>4, <1>5

\* A destination of a note as it is written is the one it was, a link to the
\* newest note of its address, or a file that is there.
Rewritten(notes, paths, i, nd, b) ==
    /\ nd.kind = "link" =>
          /\ (b.kind = "note") <=> (X!NewestOf(notes, nd.names) # {})
          /\ b.kind = "note" =>
               \E t \in X!NewestOf(notes, nd.names) : X!LeadsTo(notes[i].host, b.to) = paths[t]
    /\ nd.kind = "image" =>
          /\ b.kind = "file" => \E f \in 1 .. Len(X!Pictured(notes[i]).files) :
                                   X!Pictured(notes[i]).files[f] = b.to
          /\ b.kind # "file" => ~X!Carried(notes[i], nd) \/ ~X!AssetAt(notes[i].assets, nd.names).readable
    /\ nd.kind \notin {"link", "image"} => b = nd

LEMMA DestinationsAreWritten ==
    ASSUME NEW set, NEW destinations, NEW notes, Noted(notes, set, destinations),
           NEW paths, NamedApart(notes, paths), NEW i \in DOMAIN notes, NEW d \in DOMAIN notes[i].body
    PROVE  Rewritten(notes, paths, i, notes[i].body[d], X!NoteFile(notes, paths, i).holds[d])
<1> DEFINE nd == notes[i].body[d]
           b == X!NoteFile(notes, paths, i).holds[d]
<1>0. notes \in Seq(set) /\ \A x \in set : x.at \in Int /\ x.body \in Seq(destinations)
  BY DEF Noted
<1> DEFINE n == notes[i]
           s == X!Pictured(n)
           bd == s.body[d]
           t == X!TargetOf(notes, nd.names)
           to == [kind |-> "note", to |-> X!Relative(paths[i], paths[t])]
<1>1. n \in set /\ n.body \in Seq(destinations) /\ DOMAIN n.body = 1 .. Len(n.body)
  <2>1. n \in set
    BY <1>0, ListFacts
  <2>2. n.body \in Seq(destinations)
    BY <1>0, <2>1
  <2> HIDE DEF n
  <2> QED
    BY <2>1, <2>2, ListFacts
<1>2. ShownAfter(n, destinations, Len(n.body), s)
  <2> HIDE DEF n
  <2> QED
    BY <1>1, NotesAreShown
<1>3. d \in DOMAIN s.body /\ Shown(n, s, d)
  <2>1. s \in Sheets(n, destinations) /\ Len(s.body) = Len(n.body) /\ d \in 1 .. Len(n.body)
    BY <1>1, <1>2, Zenon DEF ShownAfter
  <2>2. Shown(n, s, d)
    BY <1>2, <2>1, Zenon DEF ShownAfter
  <2> HIDE DEF s, n
  <2>3. s.body \in Seq(ShownIn(n, destinations))
    BY <2>1 DEF Sheets
  <2>4. DOMAIN s.body = 1 .. Len(s.body)
    BY <2>3, ListFacts
  <2> QED
    BY <2>1, <2>2, <2>4, Zenon
<1>4. Stayed(n, bd, nd) \/ Moved(n, bd, nd, s.files)
  BY <1>3, Zenon DEF Shown
<1>5. b = IF bd.kind = "file" THEN bd ELSE X!Linked(notes, paths, i, bd)
  <2> HIDE DEF bd
  <2>1. X!NoteFile(notes, paths, i).holds =
          [e \in DOMAIN s.body |-> IF s.body[e].kind = "file" THEN s.body[e] ELSE X!Linked(notes, paths, i, s.body[e])]
    BY DEF X!NoteFile
  <2> HIDE DEF s
  <2> QED
    BY <1>3, <2>1 DEF bd
<1>6. X!Linked(notes, paths, i, nd) = IF nd.kind # "link" \/ t = 0 THEN nd ELSE to
  BY Zenon DEF X!Linked
<1>7. X!Carried(n, nd) => nd.kind = "image"
  BY Zenon DEF X!Carried
<1>8. Moved(n, bd, nd, s.files) =>
        /\ X!Carried(n, nd) /\ bd.kind = "file"
        /\ \E f \in 1 .. Len(s.files) : s.files[f] = bd.to
  <2> HAVE Moved(n, bd, nd, s.files)
  <2> HIDE DEF s, bd, n
  <2>1. /\ X!Carried(n, nd) /\ bd = [kind |-> "file", to |-> X!FileOf(n, nd)]
        /\ \E f \in 1 .. Len(s.files) : s.files[f] = X!FileOf(n, nd)
    BY Zenon DEF Moved
  <2>2. bd.kind = "file" /\ bd.to = X!FileOf(n, nd)
    BY <2>1
  <2> QED
    BY <2>1, <2>2, Zenon
<1>9. Stayed(n, bd, nd) => bd = nd /\ (X!Carried(n, nd) => ~X!AssetAt(n.assets, nd.names).readable)
  BY Zenon DEF Stayed
<1> HIDE DEF s, bd, t, to, nd, b
<1>10. ASSUME nd.kind = "link"
       PROVE  /\ (b.kind = "note") <=> (X!NewestOf(notes, nd.names) # {})
              /\ b.kind = "note" =>
                   \E u \in X!NewestOf(notes, nd.names) : X!LeadsTo(notes[i].host, b.to) = paths[u]
  <2>1. "link" # "image" /\ "link" # "file" /\ "link" # "note"
    OBVIOUS
  <2>2. bd = nd
    BY <1>4, <1>7, <1>8, <1>9, <1>10, <2>1, Zenon
  <2>3. b = IF t = 0 THEN nd ELSE to
    BY <1>5, <1>6, <1>10, <2>1, <2>2, Zenon
  <2>4. /\ t = 0 => X!NewestOf(notes, nd.names) = {}
        /\ t # 0 => t \in X!NewestOf(notes, nd.names)
    <3>1. notes \in Seq(set) /\ \A x \in set : x.at \in Int
      BY <1>0
    <3> QED
      BY <3>1, TargetsAreNewest DEF t
  <2>5. CASE t = 0
    BY <1>10, <2>1, <2>3, <2>4, <2>5, Zenon
  <2>6. CASE t # 0
    <3>1. b.kind = "note" /\ b.to = X!Relative(paths[i], paths[t])
      BY <2>3, <2>6 DEF to
    <3>2. t \in X!NewestOf(notes, nd.names)
      BY <2>4, <2>6
    <3>3. t \in DOMAIN notes
      BY <3>2, Zenon DEF X!NewestOf
    <3>4. (\E k \in 1 .. 3 : paths[i] = X!NamesFor(notes[i])[k]) /\ (\E m \in 1 .. 3 : paths[t] = X!NamesFor(notes[t])[m])
      BY <3>3, Zenon DEF NamedApart
    <3>5. X!LeadsTo(notes[i].host, X!Relative(paths[i], paths[t])) = paths[t]
      BY <3>4, RelativePathsLead
    <3> QED
      BY <3>1, <3>2, <3>5, Zenon
  <2> QED
    BY <2>5, <2>6
<1>11. ASSUME nd.kind = "image"
       PROVE  /\ b.kind = "file" => \E f \in 1 .. Len(X!Pictured(notes[i]).files) :
                                          X!Pictured(notes[i]).files[f] = b.to
              /\ b.kind # "file" => ~X!Carried(notes[i], nd) \/ ~X!AssetAt(notes[i].assets, nd.names).readable
  <2>1. "image" # "link" /\ "image" # "file"
    OBVIOUS
  <2>2. CASE Stayed(n, bd, nd)
    <3>1. b = nd
      BY <1>5, <1>6, <1>9, <1>11, <2>1, <2>2, Zenon
    <3> QED
      BY <1>9, <1>11, <2>1, <2>2, <3>1, Zenon
  <2>3. CASE Moved(n, bd, nd, s.files)
    <3>1. b = bd /\ bd.kind = "file"
      BY <1>5, <1>8, <2>3, Zenon
    <3> QED
      BY <1>8, <2>3, <3>1, Zenon DEF s
  <2> QED
    BY <1>4, <2>2, <2>3
<1>12. ASSUME nd.kind \notin {"link", "image"} PROVE b = nd
  <2>1. nd.kind # "link" /\ nd.kind # "image"
    BY <1>12
  <2>2. bd = nd
    BY <1>4, <1>7, <1>8, <1>9, <2>1, Zenon
  <2> QED
    BY <1>5, <1>6, <2>1, <2>2, Zenon
<1> QED
  BY <1>10, <1>11, <1>12, Zenon DEF Rewritten, nd, b

-----------------------------------------------------------------------------
(* The vault *)

\* Of a note's destination, what it is in the entry k of a vault.
Leads(notes, paths, vault, k, i, d) ==
    LET n == notes[i]
        b == vault[k].holds[d]
        a == X!AssetAt(n.assets, n.body[d].names) IN
    CASE n.body[d].kind = "link" ->
           /\ (b.kind = "note") <=> (X!NewestOf(notes, n.body[d].names) # {})
           /\ b.kind = "note" =>
                \E t \in X!NewestOf(notes, n.body[d].names) : X!LeadsTo(n.host, b.to) = paths[t]
      [] n.body[d].kind = "image" ->
           /\ b.kind = "file" => b.to \in {vault[j].path : j \in 1 .. k - 1}
           /\ b.kind # "file" => ~X!Carried(n, n.body[d]) \/ ~a.readable
      [] OTHER -> b = n.body[d]

Whole(notes, paths, vault) ==
    /\ \A i, j \in DOMAIN notes : paths[i] = paths[j] => i = j
    /\ \A k \in DOMAIN vault, i \in DOMAIN notes : vault[k].path = paths[i] =>
         \A d \in DOMAIN notes[i].body : Leads(notes, paths, vault, k, i, d)
    /\ vault = X!Writes(notes) =>
         \A i \in DOMAIN notes : paths[i] \in {vault[j].path : j \in 1 .. Len(vault)}

\* The vault is as much of what is written as was written.
Holds(vault, n, writes) == \A j \in 1 .. n : j \in 1 .. Len(writes) /\ vault[j] = writes[j]

\* The entry of a vault that has a note's name is that note, after the
\* pictures it shows.
FiledAt(notes, paths, vault, k, i) ==
    /\ vault[k] = X!NoteFile(notes, paths, i)
    /\ \A f \in 1 .. Len(X!Pictured(notes[i]).files) :
          X!Pictured(notes[i]).files[f] \in {vault[j].path : j \in 1 .. k - 1}

LEMMA NotesAreWhereTheyAreNamed ==
    ASSUME NEW set, NEW notes \in Seq(set), NEW paths, NamedApart(notes, paths),
           NEW entries, NEW writes, WrittenInOrder(notes, paths, entries, writes),
           NEW vault, NEW n \in Nat, Holds(vault, n, writes),
           NEW k \in 1 .. n, NEW i \in DOMAIN notes, vault[k].path = paths[i]
    PROVE  FiledAt(notes, paths, vault, k, i)
<1>1. DOMAIN notes = 1 .. Len(notes)
  BY ListFacts
<1>2. k \in 1 .. Len(writes) /\ vault[k] = writes[k]
  BY Zenon DEF Holds
<1>3. ~PairNamed(writes[k])
  <2>1. PICK m \in 1 .. 3 : paths[i] = X!NamesFor(notes[i])[m]
    BY Zenon DEF NamedApart
  <2>2. \A x, y : X!NamesFor(notes[i])[m] # <<x, y>>
    BY NotesAreNoPairs, Zenon
  <2> QED
    BY <1>2, <2>1, <2>2, Zenon DEF PairNamed
<1>4. PICK h \in 1 .. Len(notes) :
         /\ writes[k] = X!NoteFile(notes, paths, h)
         /\ \A f \in 1 .. Len(X!Pictured(notes[h]).files) :
               \E j \in 1 .. k - 1 : writes[j].path = X!Pictured(notes[h]).files[f]
  BY <1>2, <1>3, Zenon DEF WrittenInOrder
<1>5. h = i
  <2>1. X!NoteFile(notes, paths, h).path = paths[h]
    BY DEF X!NoteFile
  <2>2. paths[h] = paths[i] /\ h \in DOMAIN notes
    BY <1>1, <1>2, <1>4, <2>1, Zenon
  <2> QED
    BY <2>2, Zenon DEF NamedApart
<1>6. \A j \in 1 .. k - 1 : vault[j] = writes[j]
  <2>1. \A j \in 1 .. k - 1 : j \in 1 .. n
    OBVIOUS
  <2> QED
    BY <2>1, Zenon DEF Holds
<1>7. ASSUME NEW f \in 1 .. Len(X!Pictured(notes[i]).files)
      PROVE  X!Pictured(notes[i]).files[f] \in {vault[j].path : j \in 1 .. k - 1}
  <2>1. PICK j \in 1 .. k - 1 : writes[j].path = X!Pictured(notes[i]).files[f]
    BY <1>4, <1>5, Zenon
  <2> QED
    BY <1>6, <2>1, Zenon
<1> QED
  BY <1>2, <1>4, <1>5, <1>7, Zenon DEF FiledAt

\* A vault is whole when its notes have names of their own.
LEMMA NamedVaultsAreWhole ==
    ASSUME NEW notes, NEW set, NEW destinations, Noted(notes, set, destinations),
           ~X!Panics(notes), NEW failing \in Nat \ {0}, NEW created
    PROVE  Whole(notes, X!Paths(notes), X!Vault(notes, failing, created))
<1> DEFINE paths == X!Paths(notes)
           vault == X!Vault(notes, failing, created)
           writes == X!Writes(notes)
           n == Len(vault)
<1>1. notes \in Seq(set) /\ \A x \in set : x.at \in Int /\ x.body \in Seq(destinations)
  BY DEF Noted
<1>2. NamedApart(notes, paths)
  BY <1>1, NotesAreNamedApart
<1>3. PICK entries : WrittenInOrder(notes, paths, entries, writes)
  <2>1. \A x \in set : x.body \in Seq(destinations)
    BY <1>1
  <2> QED
    BY <1>1, <2>1, WritesAreInOrder
<1>4. /\ n \in Nat /\ DOMAIN vault = 1 .. n
      /\ \A k \in 1 .. n : k \in 1 .. Len(writes) /\ vault[k] = writes[k]
  <2>1. X!Writes(notes) \in Seq(entries)
    BY <1>3, Zenon DEF WrittenInOrder
  <2> QED
    BY <2>1, VaultsBegin
<1>5. DOMAIN notes = 1 .. Len(notes)
  BY <1>1, ListFacts
<1> HIDE DEF paths, vault, writes, n
<1>6. ASSUME NEW k \in DOMAIN vault, NEW i \in DOMAIN notes, vault[k].path = paths[i], NEW d \in DOMAIN notes[i].body
      PROVE  Leads(notes, paths, vault, k, i, d)
  <2> DEFINE nd == notes[i].body[d]
             b == vault[k].holds[d]
             before == {vault[j].path : j \in 1 .. k - 1}
             files == X!Pictured(notes[i]).files
             a == X!AssetAt(notes[i].assets, nd.names)
             newest == X!NewestOf(notes, nd.names)
             carried == X!Carried(notes[i], nd)
             led == \E t \in newest : X!LeadsTo(notes[i].host, b.to) = paths[t]
  <2>1. k \in 1 .. n
    BY <1>4
  <2>2. /\ vault[k] = X!NoteFile(notes, paths, i)
        /\ \A f \in 1 .. Len(files) : files[f] \in before
    <3>1. notes \in Seq(set)
      BY <1>1
    <3>2. n \in Nat
      BY <1>4
    <3>3. Holds(vault, n, writes)
      BY <1>4, Zenon DEF Holds
    <3>4. vault[k].path = paths[i]
      BY <1>6
    <3>6. i \in DOMAIN notes
      OBVIOUS
    <3>5. FiledAt(notes, paths, vault, k, i)
      BY <1>2, <1>3, <2>1, <3>1, <3>2, <3>3, <3>4, <3>6, NotesAreWhereTheyAreNamed, ZenonT(60)
    <3> QED
      BY <3>5, Zenon DEF FiledAt
  <2>3. b = X!NoteFile(notes, paths, i).holds[d]
    BY <2>2
  <2>4. /\ nd.kind = "link" => /\ (b.kind = "note") <=> (newest # {})
                               /\ b.kind = "note" => led
        /\ nd.kind = "image" =>
              /\ b.kind = "file" => \E f \in 1 .. Len(files) : files[f] = b.to
              /\ b.kind # "file" => ~carried \/ ~a.readable
        /\ nd.kind \notin {"link", "image"} => b = nd
    <3>1. Rewritten(notes, paths, i, notes[i].body[d], X!NoteFile(notes, paths, i).holds[d])
      BY <1>2, <1>6, DestinationsAreWritten, Zenon
    <3> QED
      BY <2>3, <3>1, Zenon DEF Rewritten
  <2>5. Leads(notes, paths, vault, k, i, d) <=>
          CASE nd.kind = "link" -> /\ (b.kind = "note") <=> (newest # {})
                                   /\ b.kind = "note" => led
            [] nd.kind = "image" -> /\ b.kind = "file" => b.to \in before
                                    /\ b.kind # "file" => ~carried \/ ~a.readable
            [] OTHER -> b = nd
    BY Zenon DEF Leads
  <2> HIDE DEF nd, b, before, files, a, newest, carried, led
  <2>6. nd.kind = "image" /\ b.kind = "file" => b.to \in before
    BY <2>2, <2>4, Zenon
  <2> QED
    BY <2>4, <2>5, <2>6
<1>7. ASSUME vault = writes, NEW i \in DOMAIN notes PROVE paths[i] \in {vault[j].path : j \in 1 .. n}
  <2>1. PICK k \in 1 .. Len(writes) : writes[k] = X!NoteFile(notes, paths, i)
    BY <1>3, <1>5, Zenon DEF WrittenInOrder
  <2>2. X!NoteFile(notes, paths, i).path = paths[i]
    BY DEF X!NoteFile
  <2>3. k \in 1 .. n /\ vault[k].path = paths[i]
    BY <1>7, <2>1, <2>2, Zenon DEF n
  <2> QED
    BY <2>3, Zenon
<1>8. \A i, j \in DOMAIN notes : paths[i] = paths[j] => i = j
  BY <1>2, Zenon DEF NamedApart
<1>9. Whole(notes, paths, vault)
  BY <1>6, <1>7, <1>8, Zenon DEF Whole, n, writes
<1> QED
  BY <1>9, Zenon DEF paths, vault

\* The vault of an archive is whole, wherever the export of it fails: no two
\* notes have one name, a link that was to an exported page leads to its
\* newest note, a picture is there before the note that shows it, and the
\* export panics only where two captures of a host share an id
\* (export.rs: write_export, unique_note_path, rewrite_note_links).
THEOREM VaultsAreWhole ==
    ASSUME NEW archive, NEW items, NEW captures, NEW destinations,
           Archived(archive, items, captures, destinations),
           NEW all, NEW failing \in Nat \ {0}, NEW created
    PROVE  X!VaultIsWhole(archive, all, failing, created)
<1> DEFINE notes == X!Ordered(archive, all)
           paths == X!Paths(notes)
           vault == X!Vault(notes, failing, created)
<1>1. PICK set : Noted(notes, set, destinations)
  BY NotesAreNotes
<1>2. X!Panics(notes) => X!SharesAnId(notes)
  BY <1>1, PanicsShareAnId
<1>3. ~X!Panics(notes) => Whole(notes, paths, vault)
  BY <1>1, NamedVaultsAreWhole
<1>4. X!VaultIsWhole(archive, all, failing, created) <=>
        IF X!Panics(notes) THEN X!SharesAnId(notes) ELSE Whole(notes, paths, vault)
  <2> HIDE DEF notes
  <2>1. Whole(notes, paths, vault) =
          /\ \A i, j \in DOMAIN notes : paths[i] = paths[j] => i = j
          /\ \A k \in DOMAIN vault, i \in DOMAIN notes : vault[k].path = paths[i] =>
               \A d \in DOMAIN notes[i].body : Leads(notes, paths, vault, k, i, d)
          /\ vault = X!Writes(notes) =>
               \A i \in DOMAIN notes : paths[i] \in {vault[j].path : j \in 1 .. Len(vault)}
    BY Zenon DEF Whole
  <2> QED
    BY Zenon DEF X!VaultIsWhole, Whole, Leads, notes
<1> QED
  BY <1>2, <1>3, <1>4, Zenon

-----------------------------------------------------------------------------
(* What is an article, and which rules say so: Admission and SiteRules *)

\* A page as the steps of extract answer for it.
JudgedPages ==
    [type : {"markdown", "other", "html"}, tooExpensive : BOOLEAN, tooWide : BOOLEAN,
     narrowed : {"no rule", "untouched", "the article", "a part", "not an article"},
     probe : BOOLEAN, scorer : {"nothing", "error", "article"}, converter : BOOLEAN,
     article : Nat, chars : Nat, excerpt : Nat, byline : Nat, markdown : Nat]

\* What is no sliver of a page is none of a larger one it grew with, nor of
\* less of a page; and a sliver is less than its page.
LEMMA SliversAreSmall ==
    ASSUME NEW a \in Nat, NEW p \in Nat
    PROVE  /\ A!IsASliver(a, p) => a < p /\ a < MinArticleChars
           /\ ~A!IsASliver(a, p) => ~A!IsASliver(a + 1, p + 1)
           /\ ~A!IsASliver(a, p) /\ p # 0 => ~A!IsASliver(a, p - 1)
<1> DEFINE d == ShareDenominator
           ad == a * d
           more == (a + 1) * d
<1>1. d \in Nat /\ d >= 1 /\ MinArticleChars \in Nat
  BY FilingAssumption
<1>2. ad \in Nat /\ ad >= a
  <2> HIDE DEF d
  <2> QED
    BY <1>1
<1>3. more = ad + d
  <2> HIDE DEF d
  <2> QED
    BY <1>1
<1>4. \A q : /\ A!IsASliver(a, q) <=> a < MinArticleChars /\ ad < q
             /\ A!IsASliver(a + 1, q) <=> a + 1 < MinArticleChars /\ more < q
  BY Zenon DEF A!IsASliver
<1> HIDE DEF ad, more, d
<1> QED
  BY <1>1, <1>2, <1>3, <1>4

\* The verdict on a page, whatever order the guards come in.
FoundAnArticle(page) ==
    /\ page.type = "html" /\ ~page.tooExpensive /\ ~page.tooWide /\ page.narrowed # "not an article"
    /\ (A!ToldWhere(page) \/ page.probe) /\ page.scorer = "article"
Little(page) == ~A!ToldWhere(page) /\ A!IsASliver(page.article, page.chars)

LEMMA VerdictsAreThese ==
    ASSUME NEW page \in JudgedPages
    PROVE  /\ A!Extract(page).is = "article" <=> FoundAnArticle(page) /\ ~Little(page) /\ page.converter
           /\ A!Extract(page).is = "refused" <=> FoundAnArticle(page) /\ Little(page)
           /\ A!Judged(page) => A!Extract(page).rules = A!AppliedTo(page.narrowed)
           /\ A!Judged(page) /\ page.narrowed = "not an article" => A!Extract(page).is = "not an article"
<1> DEFINE v == A!Extract(page)
           refused == [A!Outcome("refused", page) EXCEPT !.truncated = A!Cut(page) \intersect {"excerpt"}]
           article == [A!Outcome("article", page) EXCEPT !.truncated = A!Cut(page)]
           none == A!Outcome("not an article", page)
<1>1. /\ page.type \in {"markdown", "other", "html"} /\ page.scorer \in {"nothing", "error", "article"}
      /\ page.tooExpensive \in BOOLEAN /\ page.tooWide \in BOOLEAN /\ page.probe \in BOOLEAN /\ page.converter \in BOOLEAN
  BY DEF JudgedPages
<1>2. /\ refused.is = "refused" /\ article.is = "article" /\ none.is = "not an article"
      /\ refused.rules = A!AppliedTo(page.narrowed) /\ article.rules = A!AppliedTo(page.narrowed)
      /\ none.rules = A!AppliedTo(page.narrowed)
  BY DEF A!Outcome
<1>3. /\ page.type = "markdown" => v = [is |-> "served"]
      /\ page.type = "other" => v = [is |-> "nothing"]
      /\ page.type = "html" =>
           v = IF page.tooExpensive THEN [is |-> "unreadable"]
               ELSE IF page.narrowed = "not an article" THEN none
               ELSE IF page.tooWide THEN [is |-> "unreadable"]
               ELSE IF ~A!ToldWhere(page) /\ ~page.probe THEN none
               ELSE IF page.scorer = "nothing" THEN none
               ELSE IF page.scorer = "error" THEN [is |-> "unreadable"]
               ELSE IF Little(page) THEN refused
               ELSE IF page.converter THEN article
               ELSE [is |-> "unreadable"]
  <2> HIDE DEF refused, article, none
  <2> QED
    BY <1>1 DEF A!Extract, Little, refused, article, none
<1>4. /\ [is |-> "served"].is = "served" /\ [is |-> "nothing"].is = "nothing"
      /\ [is |-> "unreadable"].is = "unreadable"
  OBVIOUS
<1> HIDE DEF v, refused, article, none
<1>5. /\ v.is = "article" <=> FoundAnArticle(page) /\ ~Little(page) /\ page.converter
      /\ v.is = "refused" <=> FoundAnArticle(page) /\ Little(page)
      /\ v.is \in {"article", "refused", "not an article"} => v.rules = A!AppliedTo(page.narrowed)
      /\ v.is \in {"article", "refused", "not an article"} /\ page.narrowed = "not an article" =>
           v.is = "not an article"
  <2>1. CASE page.type # "html"
    BY <1>1, <1>3, <1>4, <2>1 DEF FoundAnArticle
  <2>2. CASE page.type = "html"
    BY <1>1, <1>2, <1>3, <1>4, <2>2 DEF FoundAnArticle
  <2> QED
    BY <2>1, <2>2
<1> QED
  BY <1>5 DEF A!Judged, v

\* Two pages that are told apart by nothing but what is measured of them.
SameGuards(p, q) ==
    /\ p.type = q.type /\ p.tooExpensive = q.tooExpensive /\ p.tooWide = q.tooWide
    /\ p.probe = q.probe /\ p.scorer = q.scorer /\ p.converter = q.converter

\* More prose never loses an article, nor does a rule that says where it is,
\* nor less of a page around it; a page is refused only where it was measured
\* and found small; and an outcome filed under a rule is of a page the rule
\* changed (readability/mod.rs: extract, ProseShare::is_a_sliver).
THEOREM MoreProseIsNoLess ==
    ASSUME NEW page \in JudgedPages
    PROVE  A!AdmissionIsMonotone(page)
<1> DEFINE grown == [page EXCEPT !.article = @ + 1, !.chars = @ + 1]
           alone == [page EXCEPT !.chars = IF @ > page.article THEN @ - 1 ELSE @]
           told == [page EXCEPT !.narrowed = "the article"]
<1>1. page.article \in Nat /\ page.chars \in Nat
  BY DEF JudgedPages
<1>2. /\ grown \in JudgedPages /\ SameGuards(grown, page) /\ grown.narrowed = page.narrowed
      /\ grown.article = page.article + 1 /\ grown.chars = page.chars + 1
  <2> DEFINE a == page.article + 1
             p == page.chars + 1
  <2>1. a \in Nat /\ p \in Nat
    BY <1>1
  <2>2. grown = [page EXCEPT !.article = a, !.chars = p]
    OBVIOUS
  <2> HIDE DEF a, p, grown
  <2>3. /\ grown \in JudgedPages /\ SameGuards(grown, page) /\ grown.narrowed = page.narrowed
        /\ grown.article = a /\ grown.chars = p
    BY <2>1, <2>2 DEF JudgedPages, SameGuards
  <2> QED
    BY <2>3 DEF a, p
<1>3. /\ alone \in JudgedPages /\ SameGuards(alone, page) /\ alone.narrowed = page.narrowed
      /\ alone.article = page.article
      /\ alone.chars = (IF page.chars > page.article THEN page.chars - 1 ELSE page.chars)
  <2> DEFINE p == IF page.chars > page.article THEN page.chars - 1 ELSE page.chars
  <2>1. p \in Nat
    BY <1>1
  <2>2. alone = [page EXCEPT !.chars = p]
    OBVIOUS
  <2> HIDE DEF p, alone
  <2>3. /\ alone \in JudgedPages /\ SameGuards(alone, page) /\ alone.narrowed = page.narrowed
        /\ alone.article = page.article /\ alone.chars = p
    BY <2>1, <2>2 DEF JudgedPages, SameGuards
  <2> QED
    BY <2>3 DEF p
<1>4. /\ told \in JudgedPages /\ SameGuards(told, page) /\ told.narrowed = "the article"
  BY DEF JudgedPages, SameGuards
<1> HIDE DEF grown, alone, told
<1>5. ASSUME A!Extract(page).is = "article"
      PROVE  /\ A!Extract(grown).is = "article" /\ A!Extract(alone).is = "article"
             /\ A!Extract(told).is = "article"
  <2>1. FoundAnArticle(page) /\ ~Little(page) /\ page.converter
    BY <1>5, VerdictsAreThese
  <2>2. FoundAnArticle(grown) /\ FoundAnArticle(alone) /\ FoundAnArticle(told)
    <3>1. "the article" # "not an article"
      OBVIOUS
    <3> QED
      BY <1>2, <1>3, <1>4, <2>1, <3>1, Zenon DEF FoundAnArticle, SameGuards, A!ToldWhere
  <2>3. ~Little(grown)
    BY <1>1, <1>2, <2>1, SliversAreSmall DEF Little, A!ToldWhere
  <2>4. ~Little(alone)
    <3>1. CASE page.chars > page.article
      <4> DEFINE a == page.article
                 p == page.chars
      <4>1. a \in Nat /\ p \in Nat /\ p # 0
        BY <1>1, <3>1
      <4> HIDE DEF a, p
      <4>2. ~A!IsASliver(a, p) => ~A!IsASliver(a, p - 1)
        BY <4>1, SliversAreSmall
      <4>3. alone.article = a /\ alone.chars = p - 1
        BY <1>3, <3>1 DEF a, p
      <4> QED
        BY <1>3, <2>1, <4>2, <4>3, Zenon DEF Little, A!ToldWhere, a, p
    <3>2. CASE ~(page.chars > page.article)
      BY <1>3, <2>1, <3>2 DEF Little, A!ToldWhere
    <3> QED
      BY <3>1, <3>2
  <2>5. ~Little(told)
    BY <1>4, Zenon DEF Little, A!ToldWhere
  <2>6. grown.converter /\ alone.converter /\ told.converter
    BY <1>2, <1>3, <1>4, <2>1, Zenon DEF SameGuards
  <2> QED
    BY <1>2, <1>3, <1>4, <2>2, <2>3, <2>4, <2>5, <2>6, VerdictsAreThese
<1>6. A!Extract(page).is = "refused" =>
        page.article < page.chars /\ page.article < MinArticleChars /\ ~A!ToldWhere(page)
  BY <1>1, VerdictsAreThese, SliversAreSmall DEF Little
<1>7. A!Judged(page) /\ A!Extract(page).rules = "site" => page.narrowed \notin {"no rule", "untouched"}
  <2>1. "heuristic" # "site"
    OBVIOUS
  <2>2. A!Judged(page) => A!Extract(page).rules = A!AppliedTo(page.narrowed)
    BY VerdictsAreThese
  <2> QED
    BY <2>1, <2>2, Zenon DEF A!AppliedTo
<1>8. A!Judged(page) /\ page.narrowed = "not an article" => A!Extract(page).is = "not an article"
  BY VerdictsAreThese
<1>9. page.chars = 0 /\ page.article = 0 => A!Extract(page).is # "refused"
  BY <1>6
<1> QED
  BY <1>5, <1>6, <1>7, <1>8, <1>9, Zenon DEF A!AdmissionIsMonotone, grown, alone, told

\* A rule file as opening and reading it answers: for each host it names,
\* however that is spelled, the selectors listed, readable or not.
DeclaredRules(selectors) == [body : Seq(selectors), strip : Seq(selectors)]
DeclaredHosts ==
    [literal : BOOLEAN, labels : Seq(STRING), dots : Nat, spelled : {"plain", "capitals", "port", "brackets"}]
RuleFiles(hosts, selectors) ==
    [opens : {"absent", "denied", "open"}, regular : BOOLEAN, json : BOOLEAN, yields : Nat,
     declared : [hosts -> DeclaredRules(selectors)]]

\* The address a page's rule is looked up under is the one it is filed under.
LEMMA RulesCountAsItemsDo ==
    ASSUME NEW u
    PROVE  /\ G!Canonical(u) = C!Canonical(u) /\ G!Site(u) = C!Site(u)
           /\ G!Unprefixed(u.labels) = C!Unprefixed(u.labels)
<1>1. \A labels : G!Unprefixed(labels) = C!Unprefixed(labels)
  BY Zenon DEF G!Unprefixed, C!Unprefixed, G!Stays, C!Stays
<1>2. \A labels : G!SafeHost(labels) <=> C!SafeHost(labels)
  BY Zenon DEF G!SafeHost, C!SafeHost
<1>3. \A set : G!Cardinality(set) = C!Cardinality(set)
  BY Zenon DEF G!Cardinality, C!Cardinality
<1>4. \A s, set : G!Picked(s, set) = C!Picked(s, set)
  BY Zenon DEF G!Picked, C!Picked, G!Nth, C!Nth, G!Cardinality, C!Cardinality
<1>5. \A query : G!Kept(query) = C!Kept(query)
  BY <1>4, Zenon DEF G!Kept, C!Kept, G!Undone, C!Undone, G!Said, C!Said
<1>6. \A query : G!Sorted(query) = C!Sorted(query)
  BY Zenon DEF G!Sorted, C!Sorted, G!Before, C!Before, G!Cardinality, C!Cardinality
<1>7. G!Site(u) = C!Site(u)
  BY <1>3, Zenon DEF G!Site, C!Site
<1>8. G!Canonical(u) = C!Canonical(u)
  BY <1>1, <1>2, <1>5, <1>6, Zenon DEF G!Canonical, C!Canonical, G!Refused, C!Refused
<1> QED
  BY <1>1, <1>7, <1>8

\* The host of a page that has a canonical form is its site, spelled plainly;
\* and of the hosts of a file that is the one that is spelled as it is filed.
LEMMA HostsAreSites ==
    ASSUME NEW u \in PageAddresses, C!Canonical(u) # C!Refused
    PROVE  LET key == [literal |-> u.literal, labels |-> C!Site(u), dots |-> 0, spelled |-> "plain"] IN
           /\ G!HostDir(u) = {key}
           /\ \A h \in DeclaredHosts : h = key <=> G!AsFiled(h) /\ h.literal = u.literal /\ h.labels = C!Site(u)
<1> DEFINE cu == C!Canonical(u)
           named == IF u.literal THEN u.labels ELSE C!Unprefixed(u.labels)
           key == [literal |-> u.literal, labels |-> named, dots |-> 0, spelled |-> "plain"]
<1>1. u.literal \in BOOLEAN /\ u.labels \in Seq(STRING)
  BY DEF PageAddresses
<1>2. cu.literal = u.literal /\ cu.labels = named /\ cu.dots = 0
  BY FiledUnder, Zenon
<1>3. named \in Seq(STRING)
  BY <1>1, UnprefixedStays
<1>4. C!Site(u) = named
  <2>1. CASE u.literal = TRUE
    BY <2>1 DEF C!Site
  <2>2. CASE u.literal = FALSE
    BY <1>1, <2>2, SiteIsKept, Zenon
  <2> QED
    BY <1>1, <2>1, <2>2
<1>5. C!Site(key) = key.labels
  <2>1. key.literal = u.literal /\ key.labels = named
    OBVIOUS
  <2> HIDE DEF key
  <2>2. CASE u.literal = TRUE
    BY <2>1, <2>2 DEF C!Site
  <2>3. CASE u.literal = FALSE
    <3>1. C!Site(key) = C!Unprefixed(key.labels)
      BY <1>3, <2>1, <2>3, SiteIsKept, Zenon
    <3>2. C!Unprefixed(named) = named
      BY <1>1, <2>3, UnprefixedStays
    <3> QED
      BY <2>1, <3>1, <3>2, Zenon
  <2> QED
    BY <1>1, <2>2, <2>3
<1>6. G!HostDir(u) = {key}
  <2>1. G!Canonical(u) = cu /\ G!Refused = C!Refused
    BY RulesCountAsItemsDo, Zenon DEF G!Refused, C!Refused
  <2> HIDE DEF cu
  <2>2. cu # C!Refused
    BY DEF cu
  <2>3. G!HostDir(u) = {[literal |-> cu.literal, labels |-> cu.labels, dots |-> cu.dots, spelled |-> "plain"]}
    BY <2>1, <2>2, Zenon DEF G!HostDir
  <2> QED
    BY <1>2, <2>3, Zenon
<1> HIDE DEF named
<1>7. ASSUME NEW h \in DeclaredHosts
      PROVE  h = key <=> h.spelled = "plain" /\ h.dots = 0 /\ h.literal = u.literal /\ h.labels = named
  <2> DEFINE labels == Seq(STRING)
  <2>1. h \in [literal : BOOLEAN, labels : labels, dots : Nat, spelled : {"plain", "capitals", "port", "brackets"}]
    BY Zenon DEF DeclaredHosts
  <2> HIDE DEF labels
  <2> QED
    BY <2>1
<1>8. ASSUME NEW h \in DeclaredHosts
      PROVE  h = key <=> G!AsFiled(h) /\ h.literal = u.literal /\ h.labels = named
  <2>1. G!AsFiled(h) <=> h.spelled = "plain" /\ h.dots = 0 /\ h.labels = C!Site(h)
    BY RulesCountAsItemsDo, Zenon DEF G!AsFiled
  <2> HIDE DEF key
  <2>2. h = key => C!Site(h) = h.labels
    BY <1>5
  <2>3. h.literal = u.literal /\ h.labels = named /\ h.spelled = "plain" /\ h.dots = 0 => h = key
    BY <1>7
  <2> QED
    BY <1>7, <2>1, <2>2, <2>3, Zenon
<1> QED
  BY <1>4, <1>6, <1>8, Zenon DEF key

LEMMA BothListsAreRead ==
    ASSUME NEW selectors, NEW rule \in DeclaredRules(selectors)
    PROVE  {s \in G!Range(rule.body \o rule.strip) : TRUE} = G!Range(rule.body) \union G!Range(rule.strip)
<1> DEFINE b == rule.body
           t == rule.strip
           all == b \o t
<1>1. b \in Seq(selectors) /\ t \in Seq(selectors)
  BY DEF DeclaredRules
<1> HIDE DEF b, t
<1>2. /\ Len(b) \in Nat /\ Len(t) \in Nat /\ DOMAIN b = 1 .. Len(b) /\ DOMAIN t = 1 .. Len(t)
      /\ DOMAIN all = 1 .. Len(b) + Len(t)
      /\ \A i \in 1 .. Len(b) : all[i] = b[i]
      /\ \A i \in 1 .. Len(t) : all[Len(b) + i] = t[i]
  BY <1>1
<1> HIDE DEF all
<1>3. \A i \in DOMAIN all : i \in DOMAIN b \/ \E k \in DOMAIN t : i = Len(b) + k
  <2> SUFFICES ASSUME NEW i \in DOMAIN all, i \notin DOMAIN b PROVE \E k \in DOMAIN t : i = Len(b) + k
    OBVIOUS
  <2>1. i - Len(b) \in DOMAIN t /\ i = Len(b) + (i - Len(b))
    BY <1>2
  <2> QED
    BY <2>1
<1>4. (\A i \in DOMAIN b : i \in DOMAIN all) /\ \A k \in DOMAIN t : Len(b) + k \in DOMAIN all
  BY <1>2
<1>5. \A x : x \in G!Range(all) <=> x \in G!Range(b) \/ x \in G!Range(t)
  BY <1>2, <1>3, <1>4 DEF G!Range
<1> QED
  BY <1>5 DEF b, t, all

\* No rule with a selector that would panic reaches a page; of a file that is
\* read the hosts with one are reported and the rest kept as they were written;
\* a page is told the rule kept for its site as that is filed, however its own
\* address is spelled, and a rule under a host spelled otherwise is told to no
\* page; and a file that is not read is reported once, unless there is none
\* (readability/rules.rs: SiteRules::read, SiteRules::parse, SiteRules::for_url).
THEOREM RulesAreToldToTheirSites ==
    ASSUME NEW hosts \in SUBSET DeclaredHosts, NEW selectors, NEW file \in RuleFiles(hosts, selectors),
           NEW page \in PageAddresses
    PROVE  G!RulesDegrade(file, page)
<1> DEFINE r == G!ReadRules(file)
           declared == file.declared
           read == {h \in DOMAIN declared : ~G!UnreadableSelector(declared[h])}
           whole == file.opens = "open" /\ file.regular /\ file.json /\ file.yields <= MaxRulesBytes
           bad(rule) == G!Unreadable(rule)
           ofItsSite == {h \in DOMAIN declared : G!AsFiled(h) /\ h.literal = page.literal /\ h.labels = G!Site(page)}
<1>1. /\ file.opens \in {"absent", "denied", "open"} /\ file.regular \in BOOLEAN /\ file.json \in BOOLEAN
      /\ file.yields \in Nat /\ MaxRulesBytes \in Nat
      /\ \A h \in DOMAIN declared : declared[h] \in DeclaredRules(selectors)
  BY FilingAssumption DEF RuleFiles
<1>2. \A h \in DOMAIN declared : G!UnreadableSelector(declared[h]) <=> bad(declared[h])
  BY <1>1, BothListsAreRead, Zenon DEF G!UnreadableSelector, G!Unreadable
<1>3. /\ whole => r = G!Parse(declared)
      /\ ~whole => r.hosts = G!NoRules /\ (r.unused = {} <=> file.opens = "absent")
  <2> DEFINE taken == IF file.yields > MaxRulesBytes + 1 THEN MaxRulesBytes + 1 ELSE file.yields
  <2>1. taken > MaxRulesBytes <=> ~(file.yields <= MaxRulesBytes)
    BY <1>1
  <2> HIDE DEF taken
  <2>2. /\ file.opens = "absent" => r = [hosts |-> G!NoRules, unused |-> {}]
        /\ file.opens = "denied" => r = G!Unused("denied")
        /\ file.opens = "open" =>
             r = IF ~file.regular THEN G!Unused("not a file")
                 ELSE IF taken > MaxRulesBytes THEN G!Unused("over the ceiling")
                 ELSE IF ~file.json THEN G!Unused("not a rule file") ELSE G!Parse(declared)
    BY <1>1 DEF G!ReadRules, taken
  <2>3. \A why : G!Unused(why).hosts = G!NoRules /\ G!Unused(why).unused # {}
    BY DEF G!Unused
  <2>4. /\ [hosts |-> G!NoRules, unused |-> {}].hosts = G!NoRules
        /\ [hosts |-> G!NoRules, unused |-> {}].unused = {}
    OBVIOUS
  <2> HIDE DEF r, declared
  <2>5. CASE file.opens = "absent"
    BY <2>2, <2>4, <2>5
  <2>6. CASE file.opens = "denied"
    BY <2>2, <2>3, <2>6
  <2>7. CASE file.opens = "open"
    <3>1. whole => r = G!Parse(declared)
      BY <2>1, <2>2, <2>7
    <3>2. ~whole => \E why : r = G!Unused(why)
      BY <2>1, <2>2, <2>7
    <3>3. "open" # "absent"
      OBVIOUS
    <3> QED
      BY <2>3, <2>7, <3>1, <3>2, <3>3, Zenon
  <2> QED
    BY <1>1, <2>5, <2>6, <2>7
<1>4. /\ G!Parse(declared).hosts = [h \in read |-> declared[h]]
      /\ G!Parse(declared).unused = DOMAIN declared \ read
  BY DEF G!Parse
<1>5. DOMAIN G!NoRules = {}
  BY DEF G!NoRules
<1> HIDE DEF r, declared
<1>6. \A h \in DOMAIN r.hosts : h \in DOMAIN declared /\ r.hosts[h] = declared[h] /\ ~bad(declared[h])
  <2>1. CASE whole
    BY <1>2, <1>3, <1>4, <2>1
  <2>2. CASE ~whole
    BY <1>3, <1>5, <2>2
  <2> QED
    BY <2>1, <2>2
<1>7. ASSUME NEW rule \in G!ForUrl(r, page) PROVE ~bad(rule)
  <2>1. \E h \in DOMAIN r.hosts : rule = r.hosts[h]
    BY DEF G!ForUrl
  <2> QED
    BY <1>6, <2>1
<1>8. whole => DOMAIN r.hosts = read /\ r.unused = DOMAIN declared \ read
  BY <1>3, <1>4
<1>9. whole => /\ DOMAIN r.hosts \union r.unused = DOMAIN declared
               /\ r.unused = {h \in DOMAIN declared : bad(declared[h])}
               /\ DOMAIN r.hosts \intersect r.unused = {}
  BY <1>2, <1>8
<1>10. ~whole => DOMAIN r.hosts = {} /\ (r.unused = {} <=> file.opens = "absent")
  BY <1>3, <1>5
<1> HIDE DEF read
<1>11. ASSUME whole, G!Canonical(page) # G!Refused
       PROVE  G!ForUrl(r, page) = {declared[h] : h \in ofItsSite \ r.unused}
  <2> DEFINE key == [literal |-> page.literal, labels |-> C!Site(page), dots |-> 0, spelled |-> "plain"]
  <2>1. C!Canonical(page) # C!Refused
    BY <1>11, RulesCountAsItemsDo, Zenon DEF G!Refused, C!Refused
  <2>2. /\ G!HostDir(page) = {key}
        /\ \A h \in DeclaredHosts : h = key <=> G!AsFiled(h) /\ h.literal = page.literal /\ h.labels = C!Site(page)
    BY <2>1, HostsAreSites, Zenon
  <2>3. DOMAIN declared \subseteq DeclaredHosts
    BY DEF RuleFiles, declared
  <2>4. G!Site(page) = C!Site(page)
    BY RulesCountAsItemsDo
  <2> HIDE DEF key
  <2>5. ofItsSite = {h \in DOMAIN declared : h = key}
    BY <2>2, <2>3, <2>4
  <2>6. \A h \in DOMAIN declared : h \notin r.unused <=> h \in DOMAIN r.hosts
    BY <1>9, <1>11
  <2>7. G!ForUrl(r, page) = {r.hosts[h] : h \in {key} \intersect DOMAIN r.hosts}
    BY <2>2, Zenon DEF G!ForUrl
  <2> HIDE DEF ofItsSite
  <2>8. {key} \intersect DOMAIN r.hosts = ofItsSite \ r.unused
    BY <1>6, <2>5, <2>6
  <2>9. \A h \in ofItsSite \ r.unused : r.hosts[h] = declared[h]
    BY <1>6, <2>8
  <2> QED
    BY <2>7, <2>8, <2>9
<1> HIDE DEF ofItsSite
<1>12. whole => /\ DOMAIN r.hosts \union r.unused = DOMAIN declared
                /\ r.unused = {h \in DOMAIN declared : bad(declared[h])}
                /\ DOMAIN r.hosts \intersect r.unused = {}
                /\ \A h \in DOMAIN r.hosts : r.hosts[h] = declared[h]
                /\ G!Canonical(page) # G!Refused => G!ForUrl(r, page) = {declared[h] : h \in ofItsSite \ r.unused}
  BY <1>6, <1>9, <1>11, Zenon
<1> QED
  BY <1>7, <1>10, <1>12, Zenon DEF G!RulesDegrade, r, declared, ofItsSite

-----------------------------------------------------------------------------
(* The property of Filing *)

\* What is asked is an archive, an address, a title, a page that is judged or
\* a file of rules as the program has them.
WellFiled ==
    /\ of = "addresses" => {question[1], question[2]} \subseteq PageAddresses
    /\ of = "vault" =>
         /\ question.failing \in Nat \ {0}
         /\ \E items, captures, destinations : Archived(question.archive, items, captures, destinations)
    /\ of = "slugs" => \E bytes : question.title \in Seq(bytes) /\ question.path \in Seq(bytes)
    /\ of = "judged" => question \in JudgedPages
    /\ of = "rules" =>
         /\ question.page \in PageAddresses
         /\ \E hosts \in SUBSET DeclaredHosts : \E selectors : question.file \in RuleFiles(hosts, selectors)

\* The property of Filing, of every address, archive, title, page and file of
\* rules: a page is filed under one address, the vault leads where the archive
\* did, a note has the name of a file; more prose is no less of an article, and
\* a page is told what a file says of its site, spelled as it is filed
\* (canonical_url.rs, export.rs, readability/mod.rs, readability/rules.rs).
THEOREM WhateverIsAskedFilingIsFaithful ==
    ASSUME WellFiled
    PROVE  FilingIsFaithful
<1>1. of = "addresses" => C!OneItem(question[1], question[2])
  BY PagesHaveOneAddress DEF WellFiled
<1>2. of = "vault" => X!VaultIsWhole(question.archive, question.all, question.failing, question.created)
  <2> SUFFICES ASSUME of = "vault"
               PROVE  X!VaultIsWhole(question.archive, question.all, question.failing, question.created)
    OBVIOUS
  <2>1. PICK items, captures, destinations : Archived(question.archive, items, captures, destinations)
    BY DEF WellFiled
  <2>2. question.failing \in Nat \ {0}
    BY DEF WellFiled
  <2> QED
    BY <2>1, <2>2, VaultsAreWhole
<1>3. of = "slugs" => W!SlugIsAName(question.title, question.path, <<"id">>)
  BY SlugsAreNames DEF WellFiled
<1>4. of = "judged" => A!AdmissionIsMonotone(question)
  BY MoreProseIsNoLess, Zenon DEF WellFiled
<1>5. of = "rules" => G!RulesDegrade(question.file, question.page)
  BY RulesAreToldToTheirSites, Zenon DEF WellFiled
<1> QED
  BY <1>1, <1>2, <1>3, <1>4, <1>5, Zenon DEF FilingIsFaithful
=============================================================================
