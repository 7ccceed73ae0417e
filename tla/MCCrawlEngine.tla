---------------------------- MODULE MCCrawlEngine ----------------------------
(* A small site for CrawlEngine: links that cross, a rule the two robots    *)
(* readings disagree on, and a page that declares a base.                   *)
EXTENDS CrawlEngine, TLC

CONSTANTS home, pa, pb, pc, pd, pe, pf

MCLinks == (home :> {pa, pb, pc}) @@ (pa :> {pb, pd, home}) @@ (pb :> {pa, pe}) @@ (pc :> {pa, pd})
           @@ (pd :> {pc, pf}) @@ (pe :> {}) @@ (pf :> {})
=============================================================================
