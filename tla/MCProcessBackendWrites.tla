----------------------- MODULE MCProcessBackendWrites -----------------------
(* Instances of ProcessBackendWrites for TLC.                               *)
EXTENDS ProcessBackendWrites, MCProcessBackend
=============================================================================
