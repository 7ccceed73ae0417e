----------------------------- MODULE CaptureLog -----------------------------
(***************************************************************************)
(* What the archive promises a reader, whatever happens to the processes   *)
(* that write it: a list of observations that only grows.  An observation  *)
(* appears whole or not at all, is never altered and never goes away, and  *)
(* the subresources known for it are only ever added to.                   *)
(***************************************************************************)
CONSTANTS Observations, \* everything a capture can have recorded
          Assets        \* everything a subresource can have been stored as

VARIABLES log,          \* the observations a reader finds
          supplements   \* <<observation, asset>>: recovered after the capture

vars == <<log, supplements>>

TypeOK == /\ log \subseteq Observations
          /\ supplements \subseteq log \X Assets

Init == log = {} /\ supplements = {}

\* A fetch is filed.  Filing the same observation again changes nothing.
Append(o) == /\ log' = log \union {o}
             /\ UNCHANGED supplements

\* A later pass adds subresources to a capture the reader already has.
Supplement(o, S) == /\ o \in log
                    /\ supplements' = supplements \union ({o} \X S)
                    /\ UNCHANGED log

Next == \/ \E o \in Observations : Append(o)
        \/ \E o \in log, S \in SUBSET Assets : Supplement(o, S)

Spec == Init /\ [][Next]_vars
=============================================================================
