-------------------------- MODULE MCEngineSession --------------------------
(* EngineSession on one channel, with every command, one restart and a     *)
(* retry budget of one.                                                    *)
EXTENDS EngineSession
CONSTANTS c1, s1, s2, none

MCChannels == {c1}
MCSockets == {s1, s2}
AllCommands == {"start", "stop", "delete"}

(* The words whose loss leaves a wrong one standing for longest.           *)
MCUnwritten == {"connected", "disconnected", "error"}

OnlyStart == {"start"}
OnlyStop == {"stop"}
=============================================================================
