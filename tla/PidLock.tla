------------------------------ MODULE PidLock ------------------------------
(***************************************************************************)
(* libdank/utils/pidlock.c and its two users: app_init()/app_stop() of     *)
(* libdank/apps and the program src/daemonizer, whose commands --start,    *)
(* --stop and --status share one lock file.                                *)
(*                                                                         *)
(* Every system call is a step. The file is modelled by inodes: unlink()   *)
(* and a new open(O_CREAT|O_EXCL) give the path another inode, while a     *)
(* descriptor keeps leading to the old one. A process may die at any step, *)
(* which also stands for the error returns that leave the file alone, and  *)
(* its pid may be given to another process later.                          *)
(***************************************************************************)
EXTENDS Integers, FiniteSets

CONSTANTS Pids,      \* process ids
          NoPid,     \* no process id: lex_s32() found none, read_pidlock_pid() < 0
          Families,  \* sets of commands used on one lock file
          MaxRuns,   \* bound: programs started
          Serial,    \* the commands are issued one after the other
          Faults     \* "write": write_lockfile() may fail

Modes == {"app", "start", "respawn", "stop", "status"}
Inodes == 1..MaxRuns

ASSUME PidAssumption ==
  /\ NoPid \notin Pids
  /\ Families \subseteq SUBSET Modes
  /\ MaxRuns \in Nat
  /\ Serial \in BOOLEAN

VARIABLES
  family,   \* the commands used on this lock file
  runs,     \* programs started so far
  prog,     \* pid -> argv[0] of the process that has it, "none" without one
  mode,     \* pid -> the command it was started for
  pc,       \* pid -> where it is
  want,     \* pid -> the name is_pidlock_ours() compares with, "any" for NULL
  site,     \* pid -> who called: the daemonizer ("check"), handle_lockfile ("lock")
  seen,     \* pid -> the pid it read
  fd,       \* pid -> the inode its descriptor leads to
  path,     \* the inode the lock file's name leads to; 0: there is no file
  ninodes,  \* inodes made so far
  content,  \* inode -> the pid written to it
  termed,   \* processes that were sent SIGTERM
  stripped  \* history: processes whose lock file was removed by a --status, or
            \* by the end of a process that had itself lost its lock that way

filevars == <<path, ninodes, content>>
vars == <<family, runs, prog, mode, pc, want, site, seen, fd, filevars, termed, stripped>>

\* The values of the variables
TypeOK ==
  /\ family \in Families
  /\ runs \in 0..MaxRuns
  /\ prog \in [Pids -> {"none", "other", "app", "dmn", "cmd"}]
  /\ mode \in [Pids -> Modes \cup {"-"}]
  /\ pc \in [Pids -> {"off", "access", "open", "read", "exists", "name", "purge",
                      "create", "recreate", "write", "unwrite", "exec", "live",
                      "stopping", "exiting", "kill", "final", "refused"}]
  /\ want \in [Pids -> {"any", "cmd", "dmn"}]
  /\ site \in [Pids -> {"check", "lock"}]
  /\ seen \in [Pids -> Pids \cup {NoPid}]
  /\ fd \in [Pids -> {0} \cup Inodes]
  /\ path \in {0} \cup Inodes
  /\ ninodes \in 0..MaxRuns
  /\ content \in [Inodes -> Pids \cup {NoPid}]
  /\ termed \subseteq Pids
  /\ stripped \subseteq Pids

\* Nothing runs and there is no lock file yet; a stale one comes from Die
Init ==
  /\ family \in Families
  /\ runs = 0
  /\ prog = [p \in Pids |-> "none"]
  /\ mode = [p \in Pids |-> "-"]
  /\ pc = [p \in Pids |-> "off"]
  /\ want = [p \in Pids |-> "any"]
  /\ site = [p \in Pids |-> "check"]
  /\ seen = [p \in Pids |-> NoPid]
  /\ fd = [p \in Pids |-> 0]
  /\ path = 0
  /\ ninodes = 0
  /\ content = [i \in Inodes |-> NoPid]
  /\ termed = {}
  /\ stripped = {}

-----------------------------------------------------------------------------
(* The world around: processes come and go.                                *)

\* The operator starts a command, with a pid that is free
Spawn(p, m) ==
  /\ prog[p] = "none"
  /\ runs < MaxRuns
  /\ m \in family
  /\ Serial => \A q \in Pids : pc[q] \in {"off", "live", "stopping", "exiting"}
  /\ runs' = runs + 1
  /\ prog' = [prog EXCEPT ![p] = IF m = "app" THEN "app" ELSE "dmn"]
  /\ mode' = [mode EXCEPT ![p] = m]
  /\ pc' = [pc EXCEPT ![p] = CASE m = "app" -> "create"
                               [] m \in {"start", "respawn"} -> "access"
                               [] OTHER -> "open"]
  /\ want' = [want EXCEPT ![p] = IF m = "app" THEN "any" ELSE "cmd"]
  /\ site' = [site EXCEPT ![p] = "check"]
  /\ seen' = [seen EXCEPT ![p] = NoPid]
  /\ UNCHANGED <<family, fd, filevars, termed, stripped>>

\* A process that has nothing to do with the lock gets a free pid
SpawnOther(p) ==
  /\ prog[p] = "none"
  /\ prog' = [prog EXCEPT ![p] = "other"]
  /\ UNCHANGED <<family, runs, mode, pc, want, site, seen, fd, filevars, termed, stripped>>

\* The process is gone
Gone(p) ==
  /\ prog' = [prog EXCEPT ![p] = "none"]
  /\ mode' = [mode EXCEPT ![p] = "-"]
  /\ pc' = [pc EXCEPT ![p] = "off"]
  /\ fd' = [fd EXCEPT ![p] = 0]
  /\ termed' = termed \ {p}

\* It takes nobody's lock with it
Harmless(p) == stripped' = stripped \ {p}

\* A process dies, or returns without another look at the lock file
Die(p) ==
  /\ prog[p] # "none"
  /\ Gone(p)
  /\ Harmless(p)
  /\ UNCHANGED <<family, runs, want, site, seen, filevars>>

\* SIGTERM kills the daemonizer and its command before they do anything else
Runs(p) == p \notin termed

-----------------------------------------------------------------------------
(* is_pidlock_ours(): read_pidlock_pid(), pid_exists(), the name in procfs. *)

Goto(p, l) == pc' = [pc EXCEPT ![p] = l] /\ UNCHANGED want

\* Mutant of Ours: a refused --start reaches the purge_lockfile() of main()
OursPurges(p) ==
  Goto(p, IF site[p] = "lock" THEN "refused"
          ELSE IF mode[p] = "stop" THEN "kill" ELSE "final")

\* It returns 1
Ours(p) ==
  Goto(p, IF site[p] = "lock" \/ mode[p] \in {"start", "respawn"} THEN "refused"
          ELSE IF mode[p] = "stop" THEN "kill" ELSE "final")

\* Mutant of NotOurs: start_command() asks for the command's name only
NotOursOnce(p) ==
  CASE site[p] = "lock" -> Goto(p, "purge")
    [] site[p] = "check" /\ mode[p] \in {"start", "respawn"} -> Goto(p, "purge")
    [] OTHER -> Goto(p, "refused")

\* It returns 0: handle_lockfile() removes the file; the daemonizer asks for its
\* own name after the command's, then removes the file or fails
NotOurs(p) ==
  CASE site[p] = "lock" -> Goto(p, "purge")
    [] site[p] = "check" /\ want[p] = "cmd" ->
         /\ want' = [want EXCEPT ![p] = "dmn"]
         /\ pc' = [pc EXCEPT ![p] = "open"]
    [] site[p] = "check" /\ want[p] # "cmd" ->
         Goto(p, IF mode[p] \in {"start", "respawn"} THEN "purge" ELSE "refused")

\* read_pidlock_pid(): open the file...
OpenLock(p) ==
  /\ Runs(p)
  /\ pc[p] = "open"
  /\ IF path = 0 THEN NotOurs(p) /\ UNCHANGED fd
     ELSE Goto(p, "read") /\ fd' = [fd EXCEPT ![p] = path]
  /\ UNCHANGED <<family, runs, prog, mode, site, seen, filevars, termed, stripped>>

\* ... and read a pid from it
ReadLock(p) ==
  /\ Runs(p)
  /\ pc[p] = "read"
  /\ seen' = [seen EXCEPT ![p] = content[fd[p]]]
  /\ IF content[fd[p]] = NoPid THEN NotOurs(p) ELSE Goto(p, "exists")
  /\ UNCHANGED <<family, runs, prog, mode, site, fd, filevars, termed, stripped>>

\* Mutant of Exists: a failing kill() is not looked at
ExistsAlways(p) ==
  /\ Runs(p)
  /\ pc[p] = "exists"
  /\ IF want[p] = "any" THEN Ours(p) ELSE Goto(p, "name")
  /\ UNCHANGED <<family, runs, prog, mode, site, seen, fd, filevars, termed, stripped>>

\* pid_exists(); without a name that is all
Exists(p) ==
  /\ Runs(p)
  /\ pc[p] = "exists"
  /\ CASE prog[seen[p]] = "none" -> NotOurs(p)
       [] prog[seen[p]] # "none" /\ want[p] = "any" -> Ours(p)
       [] OTHER -> Goto(p, "name")
  /\ UNCHANGED <<family, runs, prog, mode, site, seen, fd, filevars, termed, stripped>>

\* procfs_cmdline_argv0(), which fails when the process has gone meanwhile
CompareName(p) ==
  /\ Runs(p)
  /\ pc[p] = "name"
  /\ IF prog[seen[p]] = want[p] THEN Ours(p) ELSE NotOurs(p)
  /\ UNCHANGED <<family, runs, prog, mode, site, seen, fd, filevars, termed, stripped>>

-----------------------------------------------------------------------------
(* open_exclusive_pidlock() and what start_command() does before it.       *)

\* start_command(): access()
Access(p) ==
  /\ Runs(p)
  /\ pc[p] = "access"
  /\ Goto(p, IF path = 0 THEN "create" ELSE "open")
  /\ UNCHANGED <<family, runs, prog, mode, site, seen, fd, filevars, termed, stripped>>

\* A new file, open for writing
NewFile(p) ==
  /\ ninodes' = ninodes + 1
  /\ path' = ninodes + 1
  /\ fd' = [fd EXCEPT ![p] = ninodes + 1]
  /\ UNCHANGED content

\* check_lockfile(): open(O_CREAT | O_EXCL)
Create(p) ==
  /\ Runs(p)
  /\ pc[p] = "create"
  /\ IF path = 0
     THEN /\ NewFile(p)
          /\ Goto(p, "write")
          /\ UNCHANGED site
     ELSE /\ site' = [site EXCEPT ![p] = "lock"]
          /\ want' = [want EXCEPT ![p] = IF mode[p] = "app" THEN "any" ELSE "cmd"]
          /\ pc' = [pc EXCEPT ![p] = "open"]
          /\ UNCHANGED <<filevars, fd>>
  /\ UNCHANGED <<family, runs, prog, mode, seen, termed, stripped>>

\* purge_lockfile(), whose failure both callers ignore: they try to make a new
\* file in any case
Purge(p) ==
  /\ Runs(p)
  /\ pc[p] = "purge"
  /\ path' = 0
  /\ Goto(p, IF site[p] = "lock" THEN "recreate" ELSE "create")
  /\ UNCHANGED <<family, runs, prog, mode, site, seen, fd, ninodes, content, termed, stripped>>

\* handle_lockfile(): OpenCreat() with O_EXCL; when somebody else has made the
\* file in between it fails, and the process ends (Die)
Recreate(p) ==
  /\ Runs(p)
  /\ pc[p] = "recreate"
  /\ path = 0
  /\ NewFile(p)
  /\ Goto(p, "write")
  /\ UNCHANGED <<family, runs, prog, mode, site, seen, termed, stripped>>

\* write_lockfile(): the command holds the lock from now on
WriteLock(p) ==
  /\ Runs(p)
  /\ pc[p] = "write"
  /\ content' = [content EXCEPT ![fd[p]] = p]
  /\ Goto(p, IF mode[p] = "start" THEN "exec" ELSE "live")
  /\ UNCHANGED <<family, runs, prog, mode, site, seen, fd, path, ninodes, termed, stripped>>

\* It fails...
WriteFails(p) ==
  /\ "write" \in Faults
  /\ Runs(p)
  /\ pc[p] = "write"
  /\ Goto(p, "unwrite")
  /\ UNCHANGED <<family, runs, prog, mode, site, seen, fd, filevars, termed, stripped>>

\* ... and the file is removed, whichever the name leads to by now
Unwrite(p) ==
  /\ Runs(p)
  /\ pc[p] = "unwrite"
  /\ path' = 0
  /\ Gone(p)
  /\ Harmless(p)
  /\ UNCHANGED <<family, runs, want, site, seen, ninodes, content>>

-----------------------------------------------------------------------------
(* The commands.                                                           *)

\* start_command() without -r: the command takes the daemonizer's place
Exec(p) ==
  /\ Runs(p)
  /\ pc[p] = "exec"
  /\ prog' = [prog EXCEPT ![p] = "cmd"]
  /\ Goto(p, "live")
  /\ UNCHANGED <<family, runs, mode, site, seen, fd, filevars, termed, stripped>>

\* start_command() with -r: the last respawn has ended
RespawnDone(p) ==
  /\ Runs(p)
  /\ pc[p] = "live"
  /\ mode[p] = "respawn"
  /\ Goto(p, "final")
  /\ UNCHANGED <<family, runs, prog, mode, site, seen, fd, filevars, termed, stripped>>

\* stop_command(): Kill(-pid, SIGTERM)
Kill(p) ==
  /\ Runs(p)
  /\ pc[p] = "kill"
  /\ IF prog[seen[p]] = "none" THEN Goto(p, "refused") /\ UNCHANGED termed
     ELSE Goto(p, "final") /\ termed' = termed \cup {seen[p]}
  /\ UNCHANGED <<family, runs, prog, mode, site, seen, fd, filevars, stripped>>

\* The process that made the file the lock's name leads to
Maker ==
  {q \in Pids : path # 0 /\ fd[q] = path /\ mode[q] \notin {"stop", "status"}
                /\ pc[q] \in {"write", "exec", "live", "final", "stopping"}}

\* main(): every command that was successful ends with purge_lockfile(), so that
\* --status removes the lock of the instance it has found
Final(p) ==
  /\ Runs(p)
  /\ pc[p] = "final"
  /\ path' = 0
  /\ Gone(p)
  /\ stripped' = (IF mode[p] = "status" \/ p \in stripped THEN stripped \cup Maker
                  ELSE stripped) \ {p}
  /\ UNCHANGED <<family, runs, want, site, seen, ninodes, content>>

\* app_stop(): the application is asked to end; purge_lockfile(); exit()
AppStop(p) ==
  /\ pc[p] = "live"
  /\ mode[p] = "app"
  /\ Goto(p, "stopping")
  /\ UNCHANGED <<family, runs, prog, mode, site, seen, fd, filevars, termed, stripped>>

AppPurge(p) ==
  /\ pc[p] = "stopping"
  /\ path' = 0
  /\ Goto(p, "exiting")
  /\ UNCHANGED <<family, runs, prog, mode, site, seen, fd, ninodes, content, termed, stripped>>

Step(p) ==
  \/ OpenLock(p) \/ ReadLock(p) \/ Exists(p) \/ CompareName(p) \/ Access(p)
  \/ Create(p) \/ Purge(p) \/ Recreate(p) \/ WriteLock(p) \/ WriteFails(p)
  \/ Unwrite(p) \/ Exec(p) \/ RespawnDone(p) \/ Kill(p) \/ Final(p)
  \/ AppStop(p) \/ AppPurge(p)

Next ==
  \E p \in Pids :
    \/ \E m \in Modes : Spawn(p, m)
    \/ SpawnOther(p) \/ Die(p) \/ Step(p)

Spec == Init /\ [][Next]_vars

-----------------------------------------------------------------------------

\* The processes that got the lock and were not told to end
Holders == {p \in Pids : pc[p] \in {"exec", "live"} /\ p \notin termed}

\* open_exclusive_pidlock() is exclusive: whatever was left behind by crashes,
\* failed writes and recycled pids, one instance at most runs, besides those whose
\* lock file a --status has removed (daemonizer.c:329: main() purges the lock after
\* every successful command), at which the next --start cannot see them.
AtMostOneInstance == Cardinality(Holders \ stripped) <= 1

\* While an instance runs, the lock file is there and leads to it, so that the next
\* --start is refused and --stop finds it. Nothing but a --status takes the file away
\* from it, directly, or through the end of an instance that a --status had parted
\* from its lock and that removes the file of its successor.
LockNamesInstance == \A p \in Holders \ stripped : path # 0 /\ content[path] = p

\* The usage text calls --status a check for the daemon, and --stop the command that
\* removes the lock: an instance that runs and was asked about keeps its lock.
StatusOnlyChecks == \A p \in Holders : path # 0 /\ content[path] = p

\* A start is refused only when an instance is (still) there, or the lock names
\* the very pid that was given to the new process; without a name to compare
\* (the application), any process with the pid will do. A stale lock never keeps
\* the program down.
RefusalHasReason ==
  [][\A p \in Pids :
       (mode[p] \notin {"stop", "status"} /\ pc[p] # "refused" /\ pc'[p] = "refused")
         => \/ \E q \in Pids \ {p} : pc[q] \in {"exec", "live", "stopping", "exiting", "final"}
            \/ seen[p] = p
            \/ mode[p] = "app" /\ prog[seen[p]] # "none"]_vars
=============================================================================
