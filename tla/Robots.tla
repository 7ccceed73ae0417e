------------------------------- MODULE Robots -------------------------------
(***************************************************************************)
(* What a site's robots.txt refuses (crawl/robots.rs), and how the rules   *)
(* are put together from what the vendored parser publishes of the file    *)
(* (spider_engine.rs, group_of and raw_rule_lines).  A text is a sequence  *)
(* of characters; an escaped octet is one character, "%a" the escape of an *)
(* unreserved one and "%*" that of one the matcher reads as an operator.   *)
(***************************************************************************)
EXTENDS Integers, Sequences, SequencesExt, FiniteSets, Positions

CONSTANT Token   \* the product token of this crawler's user agent

\* normalize_percent_encoding: an unreserved octet loses its escape.
Normalized(text) == [i \in DOMAIN text |-> IF text[i] = "%a" THEN "a" ELSE text[i]]

\* The vendored parser decodes every escape, which turns an escaped operator
\* into the operator.
VendorDecoded(text) ==
    [i \in DOMAIN text |-> CASE text[i] = "%a" -> "a"
                             [] text[i] = "%*" -> "*"
                             [] OTHER -> text[i]]

-----------------------------------------------------------------------------
(* One pattern against one path *)

Anchored(p) == p # <<>> /\ Last(p) = "$"
Body(p) == IF Anchored(p) THEN Front(p) ELSE p

\* split('*'): where each literal begins and ends, wildcards left out.
Cuts(h) == InOrder({0, Len(h) + 1} \union {i \in DOMAIN h : h[i] = "*"})
Literal(h, k) == SubSeq(h, Cuts(h)[k] + 1, Cuts(h)[k + 1] - 1)

\* The places of text, after the first n characters, where a literal occurs.
Places(lit, text, n) ==
    {j \in n .. Len(text) - Len(lit) : SubSeq(text, j + 1, j + Len(lit)) = lit}
Earliest(s) == CHOOSE j \in s : \A i \in s : j <= i

\* pattern_matches: every literal but the last at the earliest place after
\* the one before it, the last anywhere, or at the end if anchored.
PatternMatches(p, path) ==
    LET h == Body(p)
        n == Len(Cuts(h)) - 1
        after[k \in 0 .. n] ==    \* characters consumed, or -1
            LET s == IF after[k - 1] < 0 THEN {} ELSE Places(Literal(h, k), path, after[k - 1])
                here == IF k = 1 THEN s \intersect {0} ELSE s
            IN IF k = 0 THEN 0 ELSE IF here = {} THEN -1 ELSE Earliest(here) + Len(Literal(h, k))
    IN IF n = 1
       THEN after[1] >= 0 /\ (Anchored(p) => after[1] = Len(path))
       ELSE /\ after[n - 1] >= 0
            /\ \E j \in Places(Literal(h, n), path, after[n - 1]) :
                  Anchored(p) => j + Len(Literal(h, n)) = Len(path)

-----------------------------------------------------------------------------
(* Which rule applies *)

\* Rule::new: an empty pattern refuses nothing.
RuleOf(pattern, allowed) ==
    [pattern |-> Normalized(pattern), allowed |-> allowed \/ pattern = <<>>]

Longest(lengths) == IF lengths = {} THEN -1 ELSE CHOOSE n \in lengths : \A m \in lengths : m <= n

\* A pattern is as long as it is in octets, an escape three of them.
Octets(p) == Len(p) + 2 * Cardinality({i \in DOMAIN p : p[i] = "%*"})

\* RobotRules::allows: the longest pattern wins, a tie is a permission.
Reach(rules, path, allowed) ==
    Longest({Octets(r.pattern) : r \in {q \in Range(rules) :
                 q.allowed = allowed /\ PatternMatches(q.pattern, Normalized(path))}})
Prevails_Strictly(permission, refusal) == permission > refusal \/ refusal = -1   \* mutant
Prevails(permission, refusal) == permission >= refusal
Allows(rules, path) == Prevails(Reach(rules, path, TRUE), Reach(rules, path, FALSE))

\* A file is a sequence of groups, each the agents it names and its lines in
\* order.  The parser keeps the named groups and the first general one, which
\* it holds apart and publishes after them.
General(g) == "*" \in g.agents
Entries(file) ==
    LET general == {i \in DOMAIN file : General(file[i])}
    IN Picked(file, DOMAIN file \ general) \o
       IF general = {} THEN <<>> ELSE <<file[Earliest(general)]>>

\* The lines of some groups, each with the number of its group.
Stated(groups) ==
    FlattenSeq([i \in DOMAIN groups |->
        [j \in DOMAIN groups[i].lines |-> [line |-> groups[i].lines[j], by |-> i]]])
Lines(groups) == [k \in DOMAIN Stated(groups) |-> Stated(groups)[k].line]

\* needs_raw_rules: a second reading of the file, for patterns with an operator.
RawLines(file) ==
    IF \E i \in DOMAIN Lines(Entries(file)) :
          {"*", "$"} \intersect Range(VendorDecoded(Lines(Entries(file))[i].pattern)) # {}
    THEN Lines(file) ELSE <<>>

\* group_of over every entry: a rule takes the spelling of the first raw line
\* not yet passed that decodes to it, and the decoded one if there is none.
Passed(file, line, n) ==
    LET raw == RawLines(file)
        found == {j \in n + 1 .. Len(raw) :
                    /\ raw[j].allowed = line.allowed
                    /\ VendorDecoded(raw[j].pattern) = VendorDecoded(line.pattern)}
    IN IF found = {} THEN Len(raw) + 1 ELSE Earliest(found)
Spelled(file) ==
    LET lines == Lines(Entries(file))
        at[i \in 0 .. Len(lines)] ==
            IF i = 0 THEN 0 ELSE Passed(file, lines[i], at[i - 1])
    IN [i \in DOMAIN lines |->
          RuleOf(IF at[i] <= Len(RawLines(file)) THEN RawLines(file)[at[i]].pattern
                 ELSE VendorDecoded(lines[i].pattern), lines[i].allowed)]

\* RobotRules::for_agent: every group that names this crawler, if one does,
\* and the general one otherwise.
Governs(file, g) ==
    IF \E i \in DOMAIN file : Token \in file[i].agents THEN Token \in g.agents ELSE General(g)
RulesFor(file) ==
    LET entries == Entries(file)
        stated == Stated(entries)
    IN Picked(Spelled(file), {k \in DOMAIN stated : Governs(file, entries[stated[k].by])})

Decides(file, path) == Allows(RulesFor(file), path)

-----------------------------------------------------------------------------
(* What RFC 9309 asks for *)

\* A pattern covers a path when its characters can be laid over it in order,
\* a wildcard over any run of them.
Covers(p, path) ==
    LET h == Body(p) IN
    \E to \in [0 .. Len(h) -> 0 .. Len(path)] :
        /\ to[0] = 0
        /\ \A i \in DOMAIN h :
              IF h[i] = "*" THEN to[i - 1] <= to[i]
              ELSE to[i] = to[i - 1] + 1 /\ path[to[i]] = h[i]
        /\ Anchored(p) => to[Len(h)] = Len(path)

Permitted(file, path) ==
    LET lines == UNION {Range(file[i].lines) : i \in {j \in DOMAIN file : Governs(file, file[j])}}
        matching == {l \in lines : l.pattern # <<>> /\ Covers(Normalized(l.pattern), Normalized(path))}
    IN \/ matching = {}
       \/ \E l \in matching :
             l.allowed /\ \A m \in matching : Octets(Normalized(m.pattern)) <= Octets(Normalized(l.pattern))

\* Files the parser's publishing order leaves in the file's own order.
GeneralLast(file) == \A i \in DOMAIN file : General(file[i]) => i = Len(file)
==============================================================================
