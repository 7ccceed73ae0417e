---------------------------- MODULE MCRateLimit ----------------------------
(* Values of RateLimit's constants for model checking: two servers, and a  *)
(* run that has either a short budget or none.                             *)
EXTENDS RateLimit

CONSTANTS h1, h2
MCDeadlines == {12, NoDeadline}
=============================================================================
