--------------------------- MODULE MCArchiveStore ---------------------------
(* Values of ArchiveStore's constants for model checking: two pages, one   *)
(* of them naming two subresources, and instants that share a second.      *)
EXTENDS ArchiveStore, TLC

CONSTANTS b1, b2, a1, a2

MCRefs == [b \in Bodies |-> IF b = b1 THEN {a1, a2} ELSE {}]
MCRefsOne == [b \in Bodies |-> IF b = b1 THEN {a1} ELSE {}]
MCTimes == 0..2
=============================================================================
