--------------------------- MODULE MCPullFromWorkspace ---------------------------
(***************************************************************************)
(* Values of the constants of PullFromWorkspace for the model checker.     *)
(***************************************************************************)
EXTENDS PullFromWorkspace

MCFiles == <<"hub_probe/probe_daemon.py">>
MCDirs  == <<"docker">>

=============================================================================
