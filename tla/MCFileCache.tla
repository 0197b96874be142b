------------------------------ MODULE MCFileCache ------------------------------
(***************************************************************************)
(* An instance of FileCache: two sessions on one loop thread or on two, a  *)
(* file that changes and one that does not, and room for one of them.      *)
(***************************************************************************)
EXTENDS FileCache, TLC

CONSTANTS s1, s2, s3, f1, f2, l1, l2

Get(p) == [inside |-> TRUE, path |-> p, head |-> FALSE]
HeadOf(p) == [Get(p) EXCEPT !.head = TRUE]
Outside(p) == [Get(p) EXCEPT !.inside = FALSE]
Load(written, l, t, u) ==
    [disk |-> [p \in {f1, f2} |-> [present |-> TRUE, sizes |-> IF p = f1 THEN written ELSE <<1>>]],
     loop |-> (s1 :> l1) @@ (s2 :> l) @@ (s3 :> l),
     target |-> (s1 :> t) @@ (s2 :> u) @@ (s3 :> t), asking |-> {s1, s2}, room |-> 1]

MCLoads ==
    {Load(<<1>>, l2, Get(f1), Get(f1)), Load(<<1, 1>>, l2, Get(f1), Get(f2)),
     Load(<<0>>, l1, Get(f1), HeadOf(f1)), Load(<<1>>, l1, Get(f2), Outside(f1)),
     [Load(<<1, 1>>, l1, HeadOf(f2), HeadOf(f1)) EXCEPT !.asking = {s1, s2, s3}, !.room = 2]}
=============================================================================
