----------------------------- MODULE MCMastery -----------------------------
(* Instances of Mastery: two topic sets, two overlapping calculations.     *)
EXTENDS Mastery
=============================================================================
