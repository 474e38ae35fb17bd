----------------------------- MODULE MCCarrier -----------------------------
(* Model values and symmetry for the runs of Carrier.                      *)
EXTENDS Carrier, TLC
CONSTANTS s1, s2, s3, e1, e2
SidSymmetry == Permutations(Sid)
=============================================================================
