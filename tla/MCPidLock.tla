----------------------------- MODULE MCPidLock -----------------------------
(* PidLock for an application's own lock file and for the daemonizer's. *)
EXTENDS PidLock, TLC

MCFamilies == {{}, {"app"}, {"start", "respawn", "stop", "status"}}
MCStatus == {{"start", "stop", "status"}}
MCApp == {{"app"}}
Sym == Permutations(Pids)
=============================================================================
