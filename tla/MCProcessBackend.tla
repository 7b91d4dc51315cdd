-------------------------- MODULE MCProcessBackend --------------------------
(* Instances of ProcessBackend for TLC: which calls a client overlaps.      *)
EXTENDS ProcessBackendSession

OneAtATime == {}
AnyOverlap == Calls \X Calls
OneMigration == (Calls \X Calls) \ (Migrators \X Migrators)
=============================================================================
