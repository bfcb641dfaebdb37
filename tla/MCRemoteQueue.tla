---------------------------- MODULE MCRemoteQueue ----------------------------
(* Model-checking instances of RemoteQueue: a busy sender and one that     *)
(* sends once, or a single sender.                                         *)
EXTENDS RemoteQueue, TLC

CONSTANTS Busy, Other

BusyQuota == Busy :> 4 @@ Other :> 1
SoloQuota == Busy :> 3

=============================================================================
