------------------------------ MODULE MCStore ------------------------------
(* A small instance of Store: two buckets, the empty key and another. *)
EXTENDS Store

MCBucketID == {<<1>>, <<2>>}
MCKey == {<<>>, <<1>>}
=============================================================================
