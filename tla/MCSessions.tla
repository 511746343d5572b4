----------------------------- MODULE MCSessions -----------------------------
(* Instances of Sessions: two tabs of one browser.                         *)
EXTENDS Sessions, TLC

Tabs == Permutations(Tab)
=============================================================================
