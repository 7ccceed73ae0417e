------------------------------ MODULE SiteRules ------------------------------
(***************************************************************************)
(* The rule file beside an archive (readability/rules.rs).  A file is what *)
(* opening and reading it answers; a declared rule is the selectors it     *)
(* lists, each readable or not, under a host as its writer spelled it:     *)
(* the labels, the root dots behind them, and whether it is spelled        *)
(* plainly or with capitals, a port or brackets.  A page's address is what *)
(* Url::parse makes of it (CanonicalForm).                                 *)
(***************************************************************************)
EXTENDS CanonicalForm, SequencesExt

CONSTANT MaxRulesBytes   \* MAX_RULES_BYTES

NoRules == <<>>
Unused(why) == [hosts |-> NoRules, unused |-> {why}]

\* unreadable_selector, of either list.
UnreadableSelector_BodyOnly(rule) == "bad" \in Range(rule.body)              \* mutant
UnreadableSelector(rule) == "bad" \in Range(rule.body) \union Range(rule.strip)

\* SiteRules::parse: a selector no parser reads drops its host.
Parse(declared) ==
    LET read == {h \in DOMAIN declared : ~UnreadableSelector(declared[h])}
    IN [hosts |-> [h \in read |-> declared[h]], unused |-> DOMAIN declared \ read]

\* SiteRules::read: the file is opened once, and one byte past the ceiling
\* is read of it, whatever size it said it had.
ReadRules(file) ==
    CASE file.opens = "absent" -> [hosts |-> NoRules, unused |-> {}]
      [] file.opens = "denied" -> Unused("denied")
      [] file.opens = "open" ->
            IF ~file.regular THEN Unused("not a file")
            ELSE LET taken == IF file.yields > MaxRulesBytes + 1 THEN MaxRulesBytes + 1 ELSE file.yields
                 IN IF taken > MaxRulesBytes THEN Unused("over the ceiling")
                    ELSE IF ~file.json THEN Unused("not a rule file") ELSE Parse(file.declared)

\* CanonicalUrl::host_dir, if the page's address has a canonical form.
HostDir(page) ==
    LET cu == Canonical(page) IN
    IF cu = Refused THEN {}
    ELSE {[literal |-> cu.literal, labels |-> cu.labels, dots |-> cu.dots, spelled |-> "plain"]}

\* SiteRules::for_url: the page's host as canonicalization spells it, looked up
\* among the hosts as they were written.
ForUrl(rules, page) == {rules.hosts[h] : h \in HostDir(page) \intersect DOMAIN rules.hosts}

-----------------------------------------------------------------------------

\* A host as canonicalization spells it: nothing in front of the site it names,
\* no root dot, no capital, port or bracket.
AsFiled(h) == h.spelled = "plain" /\ h.dots = 0 /\ h.labels = Site(h)
Unreadable(rule) == "bad" \in Range(rule.body \o rule.strip)

\* No rule reaches a page with a selector that would panic.  Of a file that is
\* read, a host with a selector no parser reads is reported, and no other; the
\* rest are kept as they were written, and what a page is told, whatever
\* spelling its address has, is the rule kept for its site as canonicalization
\* spells it.  So a rule under a host that is spelled otherwise - behind www.,
\* with capitals, a root dot, a port - is kept, not reported, and told to no
\* page, although all that is not usable of a file is to be reported
\* (rules.rs, SiteRules::read).  A file that is not read is reported once,
\* unless there is none.
RulesDegrade(file, page) ==
    LET r == ReadRules(file)
        whole == file.opens = "open" /\ file.regular /\ file.json /\ file.yields <= MaxRulesBytes
        ofItsSite == {h \in DOMAIN file.declared :
                        AsFiled(h) /\ h.literal = page.literal /\ h.labels = Site(page)} IN
    /\ \A rule \in ForUrl(r, page) : ~Unreadable(rule)
    /\ whole => /\ DOMAIN r.hosts \union r.unused = DOMAIN file.declared
                /\ r.unused = {h \in DOMAIN file.declared : Unreadable(file.declared[h])}
                /\ DOMAIN r.hosts \intersect r.unused = {}
                /\ \A h \in DOMAIN r.hosts : r.hosts[h] = file.declared[h]
                /\ Canonical(page) # Refused =>
                     ForUrl(r, page) = {file.declared[h] : h \in ofItsSite \ r.unused}
    /\ ~whole => DOMAIN r.hosts = {} /\ (r.unused = {} <=> file.opens = "absent")
==============================================================================
