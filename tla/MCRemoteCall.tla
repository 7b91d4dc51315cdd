---------------------------- MODULE MCRemoteCall ----------------------------
(* Instances of RemoteCall for TLC: which tools are called.                 *)
EXTENDS RemoteCall

\* Tools that look whether their request failed, and two that do not.
Heeding == DOMAIN Asks \ Unheeding
SessionSavers == {"dev_save_session", "dev_log_friction"}

\* Every fault; an error text that quotes "404" is taken for absence.
Plain == Faults \ {"cites404"}
=============================================================================
