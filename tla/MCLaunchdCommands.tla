------------------------- MODULE MCLaunchdCommands -------------------------
(***************************************************************************)
(* Two units, of which one is required and the other may be a target.      *)
(***************************************************************************)
EXTENDS LaunchdCommands

MCOrder == <<"core", "web">>
=============================================================================
