--------------------------- MODULE MCHostedSession ---------------------------
(* Instances of HostedSession for TLC: who calls, and what overlaps.         *)
EXTENDS HostedSession, TLC

CONSTANTS c1, c2, c3, ann, bob, key, wa, wb

OneAtATime == {}
AnyOverlap == Calls \X Calls
SameCaller == [c \in Calls |-> ann]
TwoCallers == [c \in Calls |-> IF c = c3 THEN bob ELSE ann]
WithKey == [c \in Calls |-> IF c = c2 THEN key ELSE ann]
SameClient == Permutations({c1, c2})
AllHome == [t \in Tokens |-> wa]
Writes == [c \in Calls |-> {"write"}]
Mixed == [c \in Calls |-> {"write", "switch"}]
OneSwitches == [c \in Calls |-> IF c = c3 THEN {"switch"} ELSE {"write"}]
==============================================================================
