--------------------------- MODULE MCDerivedLayer ---------------------------
(* Values of DerivedLayer's constants for model checking: pages whose      *)
(* rule, where it touches them, makes the same of them in every version,   *)
(* and which then declare how much of themselves they serve.               *)
EXTENDS DerivedLayer, TLC

MCVersions == {1, 2}
MCFirstBuild == [meta |-> 1, read |-> 1]
MCPages == {q \in Pages :
               /\ q.declares = q.touched
               /\ q.readsAs[<<1, TRUE>>] = q.readsAs[<<2, TRUE>>] \/ ~q.touched
               /\ ~q.touched => \A v \in MCVersions : q.readsAs[<<v, TRUE>>] = q.readsAs[<<v, FALSE>>]}
MCSymmetry == Permutations(Processes)
=============================================================================
