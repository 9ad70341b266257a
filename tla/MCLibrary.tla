------------------------------ MODULE MCLibrary ------------------------------
(***************************************************************************)
(* The parts of the library that keep to themselves, in one instance: each    *)
(* behaviour uses the lock file, the slab allocator, one container or one     *)
(* utility.                                                                  *)
(***************************************************************************)
EXTENDS MCContainers, MCUtilities, MCPidLock, MCSlalloc

LibInit ==
  /\ ContainersInit /\ UtilitiesInit /\ Init /\ SlInit
  /\ \/ which \notin {"none", "lock", "slab"} /\ For("none") /\ family = {}
     \/ which = "none" /\ ~For("none") /\ family = {}
     \/ which = "lock" /\ For("none") /\ family # {}
     \/ which = "slab" /\ For("none") /\ family = {}

LibNext ==
  \/ ContainersNext /\ UNCHANGED <<utilityvars, vars, slvars>>
  \/ UtilitiesNext /\ UNCHANGED <<containervars, vars, slvars>>
  \/ which = "lock" /\ Next /\ UNCHANGED <<containervars, utilityvars, slvars>>
  \/ which = "slab" /\ SlNext /\ UNCHANGED <<containervars, utilityvars, vars>>

LibSpec == LibInit /\ [][LibNext]_<<containervars, utilityvars, vars, slvars>>
===============================================================================
