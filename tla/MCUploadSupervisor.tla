------------------------- MODULE MCUploadSupervisor -------------------------
(***************************************************************************)
(* Instances of UploadSupervisor for TLC: a worker that collects all the   *)
(* time, one that uploads the same quotes, and a daily one.                *)
(***************************************************************************)
EXTENDS UploadSupervisor

Ids == {"family", "smart", "rebuild"}
\* The second exit of a burst puts a worker off for the whole window.
FirstDelays == <<2>>

SameUploads == {{"family", "smart"}}

\* The consolidated worker with the one it replaces still listed, and the
\* daily worker.
Consolidated ==
    [order |-> <<"family", "smart">>, disabled |-> {"smart"}, daily |-> {}, once |-> {}]
Nightly ==
    [order |-> <<"rebuild">>, disabled |-> {}, daily |-> {"rebuild"}, once |-> {}]
Files == {Consolidated, Nightly}
=============================================================================
