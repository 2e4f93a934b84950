----------------------------- MODULE MCCalPlane -----------------------------
(* A small host for CalPlane: two legal addresses and one that is refused,  *)
(* so that a list of two can be legal, be refused at its second entry, or   *)
(* overflow a batch of two.                                                 *)
EXTENDS CalPlane

CONSTANTS w1, w2, rom

MCWriteLists == {<<w1, w2>>, <<w2, rom>>}
MCReadLists == {<<w1, w2>>, <<rom>>}
=============================================================================
