------------------------------ MODULE MCTunnel ------------------------------
(* Model values for the runs of Tunnel.                                    *)
EXTENDS Tunnel, TLC

CONSTANTS s1, e1, e2, h1, h2

Symmetry == Permutations(Endpoint) \cup Permutations(Handler)
=============================================================================
