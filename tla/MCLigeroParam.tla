--------------------------- MODULE MCLigeroParam ---------------------------
(* Dimensions of at most 128: each check of layout() fails for some.  *)
EXTENDS LigeroParam

MCArgs == [nw : {0, 1, 7, 30}, nq : {0, 1, 5}, rateinv : 1..4, nreq : 0..3]
MCGiven == 1..128
=============================================================================
