----------------------------- MODULE MCIdStore -----------------------------
(* Three threads that create and look up the same ids of two types, which share *)
(* one of the shards; the second process loads what the first has written.    *)
EXTENDS IdStore, TLC

CONSTANTS main, p1, p2, p3

Op(kind, type, name) == [kind |-> kind, type |-> type, name |-> name]
\* 1: vehicles and vehicle types, 2: links
Programs ==
  (main :> <<>>)
    @@ (p1 :> <<Op("create", 1, "a"), Op("create", 2, "a"), Op("get_from_ext", 1, "a"),
                Op("get", 2, "a")>>)
    @@ (p2 :> <<Op("create", 2, "a"), Op("try_get_from_ext", 1, "a"), Op("create", 1, "b"),
                Op("create", 1, "a")>>)
    @@ (p3 :> <<Op("create", 1, "b"), Op("get_from_ext", 1, "b"), Op("try_get_from_ext", 2, "a")>>)
OneFile == (1 :> <<"c">>) @@ (2 :> <<"b", "c">>)
SharedShard == [t \in {1, 2} |-> 1]
OwnShard == [t \in {1, 2} |-> t]
=============================================================================
