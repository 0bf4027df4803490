---------------------------- MODULE MCHubControl ----------------------------
(***************************************************************************)
(* Scenarios of HubControl for TLC: which commands exist, how each is      *)
(* carried out, and to which module it is addressed.                       *)
(***************************************************************************)
EXTENDS HubControl

\* One module: an engine change, a launchd change and an acknowledgement.
ChangeKinds == [set |-> "engine", restart |-> "launchd", ack |-> "ack"]

\* Two modules that share the Agent and the ledger, and what a read can meet
\* while a change holds the serial gate.
ReadKinds ==
    [detail |-> "observe", refresh |-> "refresh", set |-> "engine", stop |-> "native"]
ReadModules ==
    [detail |-> "premium", refresh |-> "premium", set |-> "premium", stop |-> "webull"]

\* One module: everything that may leave a row open.
LiveKinds == [book |-> "query", set |-> "engine", restart |-> "launchd"]

OneModule(kinds) == [c \in DOMAIN kinds |-> "upload"]

ChangeCommands == DOMAIN ChangeKinds
ChangeModules == OneModule(ChangeKinds)
ReadCommands == DOMAIN ReadKinds
LiveCommands == DOMAIN LiveKinds
LiveModules == OneModule(LiveKinds)
=============================================================================
