-------------------------- MODULE MCEndpointHealth --------------------------
(* Model values for the runs of EndpointHealth.                            *)
EXTENDS EndpointHealth
CONSTANTS e1, e2
=============================================================================
