---------------------------- MODULE MCWebSession ----------------------------
(* Tabs and request slots are interchangeable; only safety is checked. *)
EXTENDS WebSession, TLC

Symmetry == Permutations(Tabs) \cup Permutations(Slots)
=============================================================================
