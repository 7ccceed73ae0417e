---------------------------- MODULE CanonicalForm ----------------------------
(***************************************************************************)
(* The one address every spelling of a page is filed under                 *)
(* (canonical_url.rs, CanonicalUrl::parse).  An address is what Url::parse *)
(* makes of a text: scheme, host, credentials, path, query, fragment.  Its *)
(* host is a literal address or the labels of a name, with the root dots   *)
(* behind them; a query is its parameters, each under the layers of        *)
(* escaped ampersand a page may have left on its name.                     *)
(***************************************************************************)
EXTENDS Integers, Sequences, FiniteSets, Positions

CONSTANT Tracking   \* parameter names that identify a campaign or a click

Refused == [refused |-> TRUE]

\* rewrite_host: the root dots go, and www. for as long as a dot is left.
Unprefixed_Once(labels) ==                                                   \* mutant
    IF Len(labels) > 2 /\ labels[1] = "www" THEN Tail(labels) ELSE labels
\* The prefix ends where no www is, or no dot after it.
Stays(labels, i) == labels[i] # "www" \/ i + 2 > Len(labels)
Unprefixed(labels) ==
    IF labels = <<>> THEN <<>>
    ELSE SubSeq(labels, CHOOSE i \in DOMAIN labels : Stays(labels, i) /\ \A j \in 1 .. i - 1 : ~Stays(labels, j),
                Len(labels))

\* host_directory: a name that could not be a directory is refused.
SafeHost(labels) == labels # <<>> /\ labels[1] # "" /\ \A i \in DOMAIN labels : labels[i] # "unsafe"

\* drop_tracking_parameters: the escapes are undone, empty and tracking
\* parameters go, and what is left is sorted by name, stably.
Undone(p) == [p EXCEPT !.layers = 0]
Said(p) == p.name # 0 \/ p.value # 0
Kept(query) ==
    Picked([i \in DOMAIN query |-> Undone(query[i])], {i \in DOMAIN query : Said(query[i]) /\ query[i].name \notin Tracking})
Before(query, i, j) == query[i].name < query[j].name \/ (query[i].name = query[j].name /\ i < j)
Sorted(query) ==
    [k \in DOMAIN query |->
        query[CHOOSE i \in DOMAIN query : Cardinality({j \in DOMAIN query : Before(query, j, i)}) = k - 1]]

Canonical(u) ==
    LET labels == IF u.literal THEN u.labels ELSE Unprefixed(u.labels) IN
    IF u.scheme \notin {"http", "https"} \/ (~u.literal /\ ~SafeHost(labels)) THEN Refused
    ELSE [u EXCEPT !.labels = labels, !.dots = IF u.literal THEN @ ELSE 0,
                   !.credentials = FALSE, !.fragment = FALSE, !.query = Sorted(Kept(u.query))]

-----------------------------------------------------------------------------
(* What one page is *)

\* The labels that name a site: no www in front, unless it is what is named.
Site(u) ==
    LET www == Cardinality({i \in DOMAIN u.labels : \A j \in 1 .. i : u.labels[j] = "www"})
        spare == IF Len(u.labels) > 2 THEN Len(u.labels) - 2 ELSE 0
    IN IF u.literal THEN u.labels
       ELSE SubSeq(u.labels, (IF www < spare THEN www ELSE spare) + 1, Len(u.labels))

\* What a server reads of a parameter: the values given to it, in order.
Values(u, name) ==
    Picked([i \in DOMAIN u.query |-> u.query[i].value], {i \in DOMAIN u.query : u.query[i].name = name /\ Said(u.query[i])})
Names(u) == {u.query[i].name : i \in DOMAIN u.query}

SamePage(u, v) ==
    /\ u.scheme = v.scheme /\ u.literal = v.literal /\ u.path = v.path
    /\ Site(u) = Site(v)
    /\ \A n \in (Names(u) \union Names(v)) \ Tracking : Values(u, n) = Values(v, n)

\* Both addresses name one item exactly when they are one page, and an
\* address read back from a record names the item it was filed under.
OneItem(u, v) ==
    LET cu == Canonical(u)
        cv == Canonical(v) IN
    Refused \notin {cu, cv} =>
        Canonical(cu) = cu /\ ((cu = cv) <=> SamePage(u, v))
==============================================================================
