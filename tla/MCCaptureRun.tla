---------------------------- MODULE MCCaptureRun ----------------------------
(* Values of CaptureRun's constants for model checking: a page with two    *)
(* spellings, a second page on another origin, an address the canonical    *)
(* rules refuse and one that exists only inside a network.                 *)
EXTENDS CaptureRun, TLC

CONSTANTS p, pAlias, q, odd, lan, hostP, hostQ

MCAddressesFew == {p, pAlias, q}
MCAddressesOdd == {p, pAlias, odd, lan}
MCCanonOf(a) == CASE a = pAlias -> p
                  [] a = odd -> Unaddressable
                  [] OTHER -> a
MCCanon == [a \in Addresses |-> MCCanonOf(a)]
MCLandsOn == [a \in Addresses |-> IF a \in {q, odd} THEN {a, p} ELSE {a}]
MCOrigin == [a \in Addresses |-> IF a \in {p, pAlias} THEN hostP ELSE hostQ]
=============================================================================
