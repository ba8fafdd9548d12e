----------------------------- MODULE MCBondSysFS -----------------------------
(* Model-checking instance of BondSysFS: two nics, one option mapping. *)
EXTENDS BondSysFS, TLC

CONSTANTS n1, n2, n3, o1

MCNics == {n1, n2}
MCOpts == {o1}
MCNics3 == {n1, n2, n3}

NicSymmetry == Permutations(MCNics3)
=============================================================================
