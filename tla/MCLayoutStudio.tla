--------------------------- MODULE MCLayoutStudio ---------------------------
(***************************************************************************)
(* Instances of LayoutStudio for TLC.                                      *)
(***************************************************************************)
EXTENDS LayoutStudio, TLC

CONSTANTS n1, n2, b1, b2, square, round

MCNames == {n1, n2}
MCBodies == {b1, b2}
MCProfiles == {square, round}
=============================================================================
