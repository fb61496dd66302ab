-------------------------- MODULE MCStartRegistry --------------------------
(* StartRegistry with two VMs and up to MaxStarts starts between them. *)
EXTENDS StartRegistry, TLC

CONSTANTS dev, lab

MCNames == {dev, lab}
Symmetry == Permutations(MCNames)
=============================================================================
