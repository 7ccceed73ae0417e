------------------------------ MODULE Boundary ------------------------------
(***************************************************************************)
(* What crosses the boundary of a crawl, one question at a time: the links *)
(* of a page, the answer to a request, the spelling of a host, the         *)
(* credential of a session, the seeds a Website is kept for, the files a   *)
(* page names, the rules of a robots.txt, the addresses of a sitemap, and  *)
(* what a page says of itself.                                             *)
(***************************************************************************)
EXTENDS Integers, Sequences, FiniteSets

CONSTANTS
    SeedScheme, SeedHost,             \* CrawlLinks
    Limit,                            \* PageEvents
    Token,                            \* Robots
    MaxSitemapUrls, OnHost,           \* SitemapListing
    ScanCeilings                      \* PageScan

ASSUME BoundaryAssumption ==
    /\ SeedScheme \in {"http", "https"} /\ Limit \in Nat /\ MaxSitemapUrls \in Nat
    /\ ScanCeilings \in [titleRaw : Nat, text : Nat, metas : Nat, blocks : Nat, jsonLd : Nat,
                         links : Nat, assets : Nat, url : Nat]

VARIABLES of, question

L == INSTANCE CrawlLinks
E == INSTANCE PageEvents
K == INSTANCE SessionCookie
F == INSTANCE References
R == INSTANCE Robots
M == INSTANCE SitemapListing
P == INSTANCE PageScan
J == INSTANCE JsonLd

\* What crosses the boundary of a crawl is what was meant: a link is recorded
\* under the address it is asked for at, an answer is the one that came, no
\* spelling of a host gets past the guard, a credential goes where it belongs
\* and nowhere else, no file of a page is listed twice, a robots.txt that
\* names the general group last refuses what RFC 9309 says it refuses, and a
\* sitemap, the one that was named, is accounted for to its last address.  Of
\* a page, nothing that a ceiling cut goes unmarked, and no other site's words
\* are taken for the page's.
BoundaryIsHeld ==
    /\ of = "links" => L!LinksAreOneAddress(question)
    /\ of = "bases" => L!BaseLeadsNowhereElse(question.page, question.declared, question.href)
    /\ of = "answers" => E!ResponseIsWhatArrived(question)
    /\ of = "spellings" => E!SpellingDoesNotMatter(question.scheme, question.host, question.allowed)
    /\ of = "credentials" => K!CredentialIsPrivate(question.file, question.exported)
    /\ of = "seeds" => K!CredentialStaysHome(question)
    /\ of = "list" => F!ListIsUsable(question)
    /\ of = "robots" /\ R!GeneralLast(question.file) =>
          (R!Decides(question.file, question.path) <=> R!Permitted(question.file, question.path))
    /\ of = "sitemap" => M!ListingAccounts(question)
    /\ of = "sitemaps" => M!SitemapIsTheOneNamed(question.explicit, question.robots, question.site)
    /\ of = "markup" => P!NothingIsCutUnseen(question, ScanCeilings)
    /\ of = "structured" => J!DeclarationIsThePages(question) /\ J!TitleIsFound(question)
=============================================================================
