---------------------------- MODULE MCRequestFlow ----------------------------
(***************************************************************************)
(* Instances of RequestFlow for TLC.  Requests are interchangeable, so the *)
(* safety runs use their symmetry.                                         *)
(***************************************************************************)
EXTENDS RequestFlow, TLC

RidSymmetry == Permutations(Rids)
=============================================================================
