----------------------- MODULE MCHostedSessionHistory -----------------------
(* Instances of HostedSessionHistory for TLC.                                *)
EXTENDS HostedSessionHistory, MCHostedSession
=============================================================================
