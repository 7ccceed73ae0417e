--------------------------- MODULE EngineContract ---------------------------
(***************************************************************************)
(* What the archive is promised of one crawl by whatever engine runs it    *)
(* (boundary.rs, CrawlEngine and CrawlStop): pages are handed over one at  *)
(* a time while the call runs, none after the caller asked to stop, and    *)
(* the reason the call gives for ending is the one that ended it.          *)
(***************************************************************************)
EXTENDS Naturals

VARIABLES
    calls,   \* on_page calls so far
    said,    \* the caller answered one of them with a stop
    ended    \* "running", or the CrawlStop the call returned

contract == <<calls, said, ended>>

Init == calls = 0 /\ said = FALSE /\ ended = "running"

HandOver ==
    /\ ended = "running" /\ ~said
    /\ calls' = calls + 1
    /\ said' \in BOOLEAN
    /\ UNCHANGED ended

\* A caller that stopped is never told the crawl was exhausted; one that did
\* not is never told it stopped.
Return ==
    /\ ended = "running"
    /\ ended' \in IF said THEN {"caller", "deadline"} ELSE {"exhausted", "deadline"}
    /\ UNCHANGED <<calls, said>>

Next == HandOver \/ Return

Spec == Init /\ [][Next]_contract
==============================================================================
