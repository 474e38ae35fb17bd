---------------------------- MODULE MCExitServer ----------------------------
(* Model values for the runs of ExitServer.                                *)
EXTENDS ExitServer
CONSTANTS s1, s2, h1, h2
=============================================================================
