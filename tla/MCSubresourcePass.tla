------------------------- MODULE MCSubresourcePass -------------------------
(* Values of SubresourcePass's constants for model checking: two pages     *)
(* sharing a script and a picture, one with a second picture in two        *)
(* renditions; and a page of pictures most of which never answer.          *)
EXTENDS SubresourcePass

CONSTANTS p, q, wide, narrow, script, lan,
          w1, w2, w3, n1, n2, n3, photo

MCRef(u, r, f) == [url |-> u, rank |-> r, fallback |-> f]

MCRefsShared ==
    [c \in {p, q} |->
        IF c = p THEN <<MCRef(script, 4, NoUrl), MCRef(photo, 0, NoUrl), MCRef(wide, 0, narrow)>>
                 ELSE <<MCRef(script, 4, NoUrl), MCRef(photo, 0, NoUrl), MCRef(lan, 2, NoUrl)>>]
MCRefsDead ==
    [c \in {p} |-> <<MCRef(w1, 0, n1), MCRef(w2, 0, n2), MCRef(w3, 0, n3), MCRef(photo, 0, NoUrl)>>]
=============================================================================
