----------------------------- MODULE CtlServer -----------------------------
(***************************************************************************)
(* libdank/modules/ctlserver/ctlserver.c: the control server. One event    *)
(* thread accepts connections and reads the command (localaccept()), a     *)
(* herd of drones runs it (ctldrone_main()), components register and       *)
(* remove commands (regcommands()/delcommands()), and the application      *)
(* starts and stops the whole (init_ctlserver()/stop_ctlserver()).         *)
(*                                                                         *)
(* Owner Main owns the server's own external commands; the other owners    *)
(* are components like the log server, which registers after a successful  *)
(* init_ctlserver() and deletes before stop_ctlserver() (apps/stop.c).     *)
(* A critical section of srvrlock is one step. Entry e is the e-th         *)
(* export_cmd allocated; a connection stands for its two descriptors (sd,  *)
(* errsd) and for the scheduled_cmd made from it.                          *)
(***************************************************************************)
EXTENDS Integers, Sequences, FiniteSets

CONSTANTS Conns,       \* connections clients may make
          NoConn,      \* no connection
          Main,        \* the owner of commands[], the application itself
          Components,  \* the other owners of commands
          Commands,    \* owner -> sequence of command names it registers
          ServerCmds,  \* server_commands[]: run by the event thread itself
          OtherNames,  \* names a client may send that nobody registers
          NDrones,     \* DRONE_HORDE_SIZE
          MaxEntries,  \* bound: export_cmds allocated
          MaxInits,    \* bound: calls of init_ctlserver()
          Faults       \* which fallible calls may fail: "malloc", "setup", "recv"

Owners == Components \cup {Main}
Drones == 1..NDrones
Entries == 1..MaxEntries
Registered == UNION {{Commands[o][i] : i \in 1..Len(Commands[o])} : o \in Owners}
Names == Registered \cup ServerCmds \cup OtherNames

ASSUME CtlAssumption ==
  /\ NoConn \notin Conns
  /\ Names # {}
  /\ IsFiniteSet(Conns)
  /\ Main \notin Components
  /\ DOMAIN Commands = Owners
  /\ \A o \in Owners : Commands[o] \in Seq(Registered)
  /\ NDrones \in Nat /\ MaxEntries \in Nat /\ MaxInits \in Nat

VARIABLES
  table,     \* cmdtable: the entries linked in
  nalloc,    \* entries allocated so far
  ename,     \* entry -> cmd->cmd
  freed,     \* entries whose export_cmd was released
  refcount,  \* entry -> export_cmd.refcount
  pending,   \* pending_cmd_states, head first
  cmdof,     \* connection -> the entry its scheduled_cmd points to; 0 for none
  opc, oidx, \* owner -> where it is in regcommands()/delcommands(), and index
  sd, errsd, \* connection -> state of its two descriptors in the server
  cmdbuf,    \* the command that was read last
  backlog,   \* the listening socket's queue
  listening, \* listenfd >= 0
  edge,      \* an edge-triggered EPOLLIN of listenfd is due
  evpc,      \* where the event thread is
  evconn,    \* the connection it handles
  evcancel,  \* it was sent a cancellation
  dpc,       \* drone -> where it is
  dconn,     \* drone -> the connection it serves
  sleepers,  \* drones blocked on srvrcond
  dcancel,   \* drones sent a cancellation
  mpc,       \* where the application is in init/stop_ctlserver()
  herd,      \* drones not yet collected by corral_the_herd()
  ctlev,     \* the static pointer ctlev: "null", "live" or "dangling"
  inits,     \* calls of init_ctlserver() so far
  twice      \* an evhandler was destroyed twice

tabvars == <<table, nalloc, ename, freed, refcount>>
schedvars == <<pending, cmdof>>
ownvars == <<opc, oidx>>
sockvars == <<sd, errsd, cmdbuf, backlog, listening, edge>>
evvars == <<evpc, evconn, evcancel>>
dronevars == <<dpc, dconn, sleepers, dcancel>>
mainvars == <<mpc, herd, ctlev, inits, twice>>
vars == <<tabvars, schedvars, ownvars, sockvars, evvars, dronevars, mainvars>>

TableType ==
  /\ table \subseteq Entries
  /\ nalloc \in 0..MaxEntries
  /\ ename \in [Entries -> Names]
  /\ freed \subseteq Entries
  /\ refcount \in [Entries -> Nat]

SchedType ==
  /\ pending \in Seq(Conns)
  /\ cmdof \in [Conns -> Entries \cup {0}]

OwnerType ==
  /\ opc \in [Owners -> {"out", "reg", "in", "del", "roll"}]
  /\ oidx \in [Owners -> Nat]

SockType ==
  /\ sd \in [Conns -> {"none", "backlog", "open", "closed"}]
  /\ errsd \in [Conns -> {"none", "open", "closed"}]
  /\ cmdbuf \in Names
  /\ backlog \in Seq(Conns)
  /\ listening \in BOOLEAN
  /\ edge \in BOOLEAN

EvType ==
  /\ evpc \in {"none", "wait", "accept", "recv", "dispatch", "signalok",
               "signalfail", "refuse", "gone"}
  /\ evconn \in Conns \cup {NoConn}
  /\ evcancel \in BOOLEAN

DroneType ==
  /\ dpc \in [Drones -> {"none", "top", "waiting", "run", "unref", "close",
                         "test", "gone"}]
  /\ dconn \in [Drones -> Conns \cup {NoConn}]
  /\ sleepers \subseteq Drones
  /\ dcancel \subseteq Drones

MainType ==
  /\ mpc \in {"down", "reg", "ev", "up", "stopdel", "stopev", "corral",
              "errdel", "errcorral", "errclose"}
  /\ herd \in 0..NDrones
  /\ ctlev \in {"null", "live", "dangling"}
  /\ inits \in 0..MaxInits
  /\ twice \in BOOLEAN

\* The values of the variables, group by group
TypeOK ==
  /\ TableType /\ SchedType /\ OwnerType /\ SockType /\ EvType /\ DroneType
  /\ MainType

Init ==
  /\ table = {} /\ nalloc = 0 /\ freed = {}
  /\ ename = [e \in Entries |-> CHOOSE n \in Names : TRUE]
  /\ refcount = [e \in Entries |-> 0]
  /\ pending = <<>>
  /\ cmdof = [k \in Conns |-> 0]
  /\ opc = [o \in Owners |-> "out"]
  /\ oidx = [o \in Owners |-> 0]
  /\ sd = [k \in Conns |-> "none"]
  /\ errsd = [k \in Conns |-> "none"]
  /\ cmdbuf = CHOOSE n \in Names : TRUE
  /\ backlog = <<>>
  /\ listening = FALSE /\ edge = FALSE
  /\ evpc = "none" /\ evconn = NoConn /\ evcancel = FALSE
  /\ dpc = [d \in Drones |-> "none"]
  /\ dconn = [d \in Drones |-> NoConn]
  /\ sleepers = {} /\ dcancel = {}
  /\ mpc = "down" /\ herd = 0 /\ ctlev = "null" /\ inits = 0 /\ twice = FALSE

\* regcommand() pushes at the head and every walk starts there: of two entries
\* with one name, the later is found
Matches(n) == {e \in table : ename[e] = n}
FirstMatch(n) == CHOOSE e \in Matches(n) : \A f \in Matches(n) : f <= e

\* pthread_cond_signal(&srvrcond)
Signal == IF sleepers = {} THEN UNCHANGED sleepers
          ELSE \E d \in sleepers : sleepers' = sleepers \ {d}

(***************************************************************************)
(* regcommands() and delcommands().                                        *)
(***************************************************************************)

\* regcommand() of the next command of the array
RegCommand(o) ==
  LET e == nalloc + 1 IN
  /\ opc[o] = "reg"
  /\ oidx[o] < Len(Commands[o])
  /\ nalloc < MaxEntries
  /\ nalloc' = e
  /\ ename' = [ename EXCEPT ![e] = Commands[o][oidx[o] + 1]]
  /\ refcount' = [refcount EXCEPT ![e] = 0]
  /\ table' = table \cup {e}
  /\ oidx' = [oidx EXCEPT ![o] = @ + 1]
  /\ UNCHANGED <<freed, opc, schedvars, sockvars, evvars, dronevars, mainvars>>

\* Malloc() fails: delete what was registered, the latest first
RegFails(o) ==
  /\ "malloc" \in Faults
  /\ opc[o] = "reg"
  /\ oidx[o] < Len(Commands[o])
  /\ opc' = [opc EXCEPT ![o] = "roll"]
  /\ UNCHANGED <<oidx, tabvars, schedvars, sockvars, evvars, dronevars, mainvars>>

\* The whole array is registered
RegDone(o) ==
  /\ opc[o] = "reg"
  /\ oidx[o] = Len(Commands[o])
  /\ opc' = [opc EXCEPT ![o] = "in"]
  /\ mpc' = IF o = Main THEN "ev" ELSE mpc
  /\ UNCHANGED <<oidx, tabvars, schedvars, sockvars, evvars, dronevars, herd,
                 ctlev, inits, twice>>

\* Mutant of DelCommand: the reference count is not looked at
DelCommandInUse(o) ==
  LET n == Commands[o][oidx[o]] IN
  /\ opc[o] \in {"del", "roll"}
  /\ oidx[o] \in 1..Len(Commands[o])
  /\ oidx' = [oidx EXCEPT ![o] = IF opc[o] = "del" THEN @ + 1 ELSE @ - 1]
  /\ IF Matches(n) = {}
     THEN UNCHANGED <<table, freed>>
     ELSE /\ table' = table \ {FirstMatch(n)}
          /\ freed' = freed \cup {FirstMatch(n)}
  /\ UNCHANGED <<nalloc, ename, refcount, opc, schedvars, sockvars, evvars,
                 dronevars, mainvars>>

\* One round of delcommand(): unlink and free an unreferenced entry, or give up
\* when there is none. While the entry is referenced the caller spins.
DelCommand(o) ==
  LET n == Commands[o][oidx[o]] IN
  /\ opc[o] \in {"del", "roll"}
  /\ oidx[o] \in 1..Len(Commands[o])
  /\ oidx' = [oidx EXCEPT ![o] = IF opc[o] = "del" THEN @ + 1 ELSE @ - 1]
  /\ IF Matches(n) = {}
     THEN UNCHANGED <<table, freed>>
     ELSE /\ refcount[FirstMatch(n)] = 0
          /\ table' = table \ {FirstMatch(n)}
          /\ freed' = freed \cup {FirstMatch(n)}
  /\ UNCHANGED <<nalloc, ename, refcount, opc, schedvars, sockvars, evvars,
                 dronevars, mainvars>>

\* delcommands() or the roll-back is through
DelDone(o) ==
  /\ opc[o] \in {"del", "roll"}
  /\ oidx[o] \notin 1..Len(Commands[o])
  /\ opc' = [opc EXCEPT ![o] = "out"]
  /\ oidx' = [oidx EXCEPT ![o] = 0]
  /\ mpc' = IF o = Main /\ mpc \in {"reg", "errdel"} THEN "errcorral" ELSE mpc
  /\ UNCHANGED <<tabvars, schedvars, sockvars, evvars, dronevars, herd, ctlev,
                 inits, twice>>

\* A component starts, once the server is up, and stops before it goes down
ComponentReg(o) ==
  /\ o # Main
  /\ mpc = "up"
  /\ opc[o] = "out"
  /\ nalloc < MaxEntries
  /\ opc' = [opc EXCEPT ![o] = "reg"]
  /\ oidx' = [oidx EXCEPT ![o] = 0]
  /\ UNCHANGED <<tabvars, schedvars, sockvars, evvars, dronevars, mainvars>>

ComponentDel(o) ==
  /\ o # Main
  /\ opc[o] = "in"
  /\ opc' = [opc EXCEPT ![o] = "del"]
  /\ oidx' = [oidx EXCEPT ![o] = 1]
  /\ UNCHANGED <<tabvars, schedvars, sockvars, evvars, dronevars, mainvars>>

(***************************************************************************)
(* The event thread: the callback localaccept(), edge triggered.           *)
(***************************************************************************)

\* A client connects: for the first time, or with descriptors that were closed
\* before
Connect(k) ==
  /\ listening
  /\ sd[k] \in {"none", "closed"} /\ errsd[k] # "open"
  /\ sd' = [sd EXCEPT ![k] = "backlog"]
  /\ errsd' = [errsd EXCEPT ![k] = "none"]
  /\ backlog' = Append(backlog, k)
  /\ edge' = TRUE
  /\ UNCHANGED <<cmdbuf, listening, tabvars, schedvars, ownvars, evvars,
                 dronevars, mainvars>>

\* Kevent() returns the event of listenfd, once per edge, and calls back
EvWake ==
  /\ evpc = "wait"
  /\ edge
  /\ edge' = FALSE
  /\ evpc' = "accept"
  /\ UNCHANGED <<sd, errsd, cmdbuf, backlog, listening, evconn, evcancel, tabvars,
                 schedvars, ownvars, dronevars, mainvars>>

\* accept_local(): the socket does not block, an empty queue ends the callback
EvAccept ==
  /\ evpc = "accept"
  /\ IF backlog = <<>>
     THEN /\ evpc' = "wait"
          /\ UNCHANGED <<evconn, sd, backlog>>
     ELSE /\ evpc' = "recv"
          /\ evconn' = Head(backlog)
          /\ sd' = [sd EXCEPT ![Head(backlog)] = "open"]
          /\ backlog' = Tail(backlog)
  /\ UNCHANGED <<errsd, cmdbuf, listening, edge, evcancel, tabvars, schedvars,
                 ownvars, dronevars, mainvars>>

\* ctlserv_accept() got the descriptor and the command
EvRecv ==
  /\ evpc = "recv"
  /\ errsd' = [errsd EXCEPT ![evconn] = "open"]
  /\ cmdbuf' \in Names
  /\ evpc' = "dispatch"
  /\ UNCHANGED <<sd, backlog, listening, edge, evconn, evcancel, tabvars,
                 schedvars, ownvars, dronevars, mainvars>>

\* It failed, and the callback returns: without the descriptor (e = "none"),
\* with it but without the command (e = "open": recv_fd() does not hand it
\* out), or because close-on-exec could not be set (e = "closed")
EvRecvFails ==
  /\ "recv" \in Faults
  /\ evpc = "recv"
  /\ \E e \in {"none", "open", "closed"} : errsd' = [errsd EXCEPT ![evconn] = e]
  /\ sd' = [sd EXCEPT ![evconn] = "closed"]
  /\ evpc' = "wait"
  /\ evconn' = NoConn
  /\ UNCHANGED <<cmdbuf, backlog, listening, edge, evcancel, tabvars, schedvars,
                 ownvars, dronevars, mainvars>>

\* Both descriptors of k are closed
CloseBoth(k) ==
  /\ sd' = [sd EXCEPT ![k] = "closed"]
  /\ errsd' = [errsd EXCEPT ![k] = "closed"]

\* check_for_server_command(): run in the event thread, and the callback returns
EvServerCommand ==
  /\ evpc = "dispatch"
  /\ cmdbuf \in ServerCmds
  /\ CloseBoth(evconn)
  /\ evpc' = "wait"
  /\ evconn' = NoConn
  /\ UNCHANGED <<cmdbuf, backlog, listening, edge, evcancel, tabvars, schedvars,
                 ownvars, dronevars, mainvars>>

\* schedule(): take a reference and push the command at the head
EvSchedule ==
  LET e == FirstMatch(cmdbuf) IN
  /\ evpc = "dispatch"
  /\ cmdbuf \notin ServerCmds
  /\ Matches(cmdbuf) # {}
  /\ refcount' = [refcount EXCEPT ![e] = @ + 1]
  /\ cmdof' = [cmdof EXCEPT ![evconn] = e]
  /\ pending' = <<evconn>> \o pending
  /\ evpc' = "signalok"
  /\ UNCHANGED <<table, nalloc, ename, freed, sockvars, evconn, evcancel,
                 ownvars, dronevars, mainvars>>

\* Mutant of EvScheduleFails: the reference is taken before Malloc() can fail
EvScheduleFailsKeepsRef ==
  LET n == cmdbuf IN
  /\ evpc = "dispatch"
  /\ n \notin ServerCmds
  /\ Matches(n) = {} \/ "malloc" \in Faults
  /\ refcount' = IF Matches(n) = {} THEN refcount
                 ELSE [refcount EXCEPT ![FirstMatch(n)] = @ + 1]
  /\ evpc' = "signalfail"
  /\ UNCHANGED <<table, nalloc, ename, freed, schedvars, sockvars, evconn,
                 evcancel, ownvars, dronevars, mainvars>>

\* schedule(): no such command, or no memory
EvScheduleFails ==
  /\ evpc = "dispatch"
  /\ cmdbuf \notin ServerCmds
  /\ Matches(cmdbuf) = {} \/ "malloc" \in Faults
  /\ evpc' = "signalfail"
  /\ UNCHANGED <<tabvars, schedvars, sockvars, evconn, evcancel, ownvars,
                 dronevars, mainvars>>

\* Mutant of EvSignal: no drone is woken
EvSignalMissing ==
  /\ evpc \in {"signalok", "signalfail"}
  /\ evpc' = IF evpc = "signalok" THEN "accept" ELSE "refuse"
  /\ evconn' = IF evpc = "signalok" THEN NoConn ELSE evconn
  /\ UNCHANGED <<evcancel, tabvars, schedvars, sockvars, ownvars, dronevars,
                 mainvars>>

\* After the unlock: wake a drone, then go on accepting or report the error
EvSignal ==
  /\ evpc \in {"signalok", "signalfail"}
  /\ Signal
  /\ evpc' = IF evpc = "signalok" THEN "accept" ELSE "refuse"
  /\ evconn' = IF evpc = "signalok" THEN NoConn ELSE evconn
  /\ UNCHANGED <<evcancel, tabvars, schedvars, sockvars, ownvars, dpc, dconn,
                 dcancel, mainvars>>

\* The error is written, both descriptors are closed, and the callback returns
EvRefuse ==
  /\ evpc = "refuse"
  /\ CloseBoth(evconn)
  /\ evpc' = "wait"
  /\ evconn' = NoConn
  /\ UNCHANGED <<cmdbuf, backlog, listening, edge, evcancel, tabvars, schedvars,
                 ownvars, dronevars, mainvars>>

\* Cancelled at a cancellation point: in epoll_wait(), accept(), recvmsg(), or
\* in the logging and writing of the rest; never inside srvrlock
EvCancelled ==
  /\ evcancel
  /\ evpc \in {"wait", "accept", "recv", "dispatch", "refuse"}
  /\ evpc' = "gone"
  /\ UNCHANGED <<evconn, evcancel, tabvars, schedvars, sockvars, ownvars,
                 dronevars, mainvars>>

(***************************************************************************)
(* A drone, ctldrone_main().                                               *)
(***************************************************************************)

\* It holds srvrlock: at the top of the loop, or back from pthread_cond_wait()
AtPending(d) == dpc[d] = "top" \/ (dpc[d] = "waiting" /\ d \notin sleepers)

DroneSleep(d) ==
  /\ AtPending(d)
  /\ pending = <<>>
  /\ sleepers' = sleepers \cup {d}
  /\ dpc' = [dpc EXCEPT ![d] = "waiting"]
  /\ UNCHANGED <<dconn, dcancel, tabvars, schedvars, ownvars, sockvars, evvars,
                 mainvars>>

\* Mutant of DroneTake: the command stays queued
DroneTakeKeepsHead(d) ==
  /\ AtPending(d)
  /\ pending # <<>>
  /\ dconn' = [dconn EXCEPT ![d] = Head(pending)]
  /\ dpc' = [dpc EXCEPT ![d] = "run"]
  /\ UNCHANGED <<schedvars, sleepers, dcancel, tabvars, ownvars, sockvars,
                 evvars, mainvars>>

DroneTake(d) ==
  /\ AtPending(d)
  /\ pending # <<>>
  /\ pending' = Tail(pending)
  /\ dconn' = [dconn EXCEPT ![d] = Head(pending)]
  /\ dpc' = [dpc EXCEPT ![d] = "run"]
  /\ UNCHANGED <<cmdof, sleepers, dcancel, tabvars, ownvars, sockvars, evvars,
                 mainvars>>

\* me->cmd->cmd->func(cs), and the output is written to the client
DroneRun(d) ==
  /\ dpc[d] = "run"
  /\ dpc' = [dpc EXCEPT ![d] = "unref"]
  /\ UNCHANGED <<dconn, sleepers, dcancel, tabvars, schedvars, ownvars,
                 sockvars, evvars, mainvars>>

\* Mutant of DroneUnref: the reference is never dropped
DroneUnrefNever(d) ==
  /\ dpc[d] = "unref"
  /\ cmdof' = [cmdof EXCEPT ![dconn[d]] = 0]
  /\ dpc' = [dpc EXCEPT ![d] = "close"]
  /\ UNCHANGED <<tabvars, pending, dconn, sleepers, dcancel, ownvars, sockvars,
                 evvars, mainvars>>

\* --me->cmd->refcount; the entry is not used any more
DroneUnref(d) ==
  /\ dpc[d] = "unref"
  /\ refcount' = [refcount EXCEPT ![cmdof[dconn[d]]] = @ - 1]
  /\ cmdof' = [cmdof EXCEPT ![dconn[d]] = 0]
  /\ dpc' = [dpc EXCEPT ![d] = "close"]
  /\ UNCHANGED <<table, nalloc, ename, freed, pending, dconn, sleepers, dcancel,
                 ownvars, sockvars, evvars, mainvars>>

\* close_cmd_state()
DroneClose(d) ==
  /\ dpc[d] = "close"
  /\ CloseBoth(dconn[d])
  /\ dconn' = [dconn EXCEPT ![d] = NoConn]
  /\ dpc' = [dpc EXCEPT ![d] = "test"]
  /\ UNCHANGED <<cmdbuf, backlog, listening, edge, sleepers, dcancel, tabvars,
                 schedvars, ownvars, evvars, mainvars>>

\* Cancellation is enabled again, and tested for
DroneTest(d) ==
  /\ dpc[d] = "test"
  /\ dpc' = [dpc EXCEPT ![d] = IF d \in dcancel THEN "gone" ELSE "top"]
  /\ UNCHANGED <<dconn, sleepers, dcancel, tabvars, schedvars, ownvars,
                 sockvars, evvars, mainvars>>

\* pthread_cond_wait() is a cancellation point; cleanup_mutex() unlocks
DroneCancelled(d) ==
  /\ d \in dcancel
  /\ dpc[d] = "waiting"
  /\ dpc' = [dpc EXCEPT ![d] = "gone"]
  /\ sleepers' = sleepers \ {d}
  /\ UNCHANGED <<dconn, dcancel, tabvars, schedvars, ownvars, sockvars, evvars,
                 mainvars>>

\* pthread_cond_wait() may return without a signal
SpuriousWakeup(d) ==
  /\ d \in sleepers
  /\ sleepers' = sleepers \ {d}
  /\ UNCHANGED <<dpc, dconn, dcancel, tabvars, schedvars, ownvars, sockvars,
                 evvars, mainvars>>

(***************************************************************************)
(* init_ctlserver() and stop_ctlserver().                                  *)
(***************************************************************************)

\* destroy_evhandler(ctlev), which does nothing on a null pointer
DestroyCtlev == twice' = (twice \/ ctlev = "dangling")

\* Something fails before the drones run, or while they are launched
InitFailsEarly ==
  /\ "setup" \in Faults
  /\ mpc = "down"
  /\ inits < MaxInits
  /\ inits' = inits + 1
  /\ DestroyCtlev
  /\ ctlev' = "null"
  /\ UNCHANGED <<mpc, herd, tabvars, schedvars, ownvars, sockvars, evvars,
                 dronevars>>

\* The lock and the herd are there; the socket is set up and the server goes on
\* to register commands[], or listen_local() fails, or a flag of the socket that
\* listens already cannot be set
InitStart ==
  /\ mpc = "down"
  /\ inits < MaxInits
  /\ inits' = inits + 1
  /\ herd' = NDrones
  /\ dpc' = [d \in Drones |-> "top"]
  /\ dconn' = [d \in Drones |-> NoConn]
  /\ sleepers' = {}
  /\ dcancel' = {}
  /\ \/ /\ listening' = TRUE
        /\ mpc' = "reg"
        /\ opc' = [opc EXCEPT ![Main] = "reg"]
     \/ /\ "setup" \in Faults
        /\ listening' \in BOOLEAN
        /\ mpc' = "errcorral"
        /\ UNCHANGED opc
  /\ UNCHANGED <<oidx, sd, errsd, cmdbuf, backlog, edge, ctlev, twice, tabvars,
                 schedvars, evvars>>

\* create_evthread() and add_fd_to_evhandler(): connections that wait already
\* count as an edge
InitEv ==
  /\ mpc = "ev"
  /\ mpc' = "up"
  /\ ctlev' = "live"
  /\ evpc' = "wait"
  /\ evconn' = NoConn
  /\ evcancel' = FALSE
  /\ edge' = (backlog # <<>>)
  /\ UNCHANGED <<herd, inits, twice, sd, errsd, cmdbuf, backlog, listening,
                 tabvars, schedvars, ownvars, dronevars>>

\* One of the two fails: label cmderr
InitEvFails ==
  /\ "setup" \in Faults
  /\ mpc = "ev"
  /\ mpc' = "errdel"
  /\ ctlev' \in {"null", "live"}
  /\ opc' = [opc EXCEPT ![Main] = "del"]
  /\ oidx' = [oidx EXCEPT ![Main] = 1]
  /\ UNCHANGED <<herd, inits, twice, tabvars, schedvars, sockvars, evvars,
                 dronevars>>

\* mainserv_close(): the kernel drops the connections nobody accepted
MainservClose ==
  /\ listening' = FALSE
  /\ edge' = FALSE
  /\ backlog' = <<>>
  /\ sd' = [k \in Conns |-> IF sd[k] = "backlog" THEN "closed" ELSE sd[k]]
  /\ UNCHANGED <<errsd, cmdbuf>>

\* Label err, reached with the herd collected
InitErrClose ==
  /\ mpc = "errclose"
  /\ MainservClose
  /\ DestroyCtlev
  /\ ctlev' = "null"
  /\ mpc' = "down"
  /\ UNCHANGED <<herd, inits, tabvars, schedvars, ownvars, evvars, dronevars>>

\* stop_ctlserver(), the components having removed their commands
StopBegin ==
  /\ mpc = "up"
  /\ \A o \in Components : opc[o] = "out"
  /\ mpc' = "stopdel"
  /\ opc' = [opc EXCEPT ![Main] = "del"]
  /\ oidx' = [oidx EXCEPT ![Main] = 1]
  /\ UNCHANGED <<herd, ctlev, inits, twice, tabvars, schedvars, sockvars,
                 evvars, dronevars>>

\* The commands are gone: close the socket and cancel the event thread
StopClose ==
  /\ mpc = "stopdel"
  /\ opc[Main] = "out"
  /\ MainservClose
  /\ evcancel' = TRUE
  /\ mpc' = "stopev"
  /\ UNCHANGED <<evpc, evconn, herd, ctlev, inits, twice, tabvars, schedvars,
                 ownvars, dronevars>>

\* The event thread is joined and its evhandler released; ctlev keeps its value
StopEv ==
  /\ mpc = "stopev"
  /\ evpc = "gone"
  /\ evpc' = "none"
  /\ DestroyCtlev
  /\ ctlev' = "dangling"
  /\ mpc' = "corral"
  /\ UNCHANGED <<evconn, evcancel, herd, inits, tabvars, schedvars, ownvars,
                 sockvars, dronevars>>

\* corral_the_herd(): reap_traceable_thread() of the last drone left...
CorralCancel ==
  /\ mpc \in {"corral", "errcorral"}
  /\ herd > 0
  /\ herd \notin dcancel
  /\ dcancel' = dcancel \cup {herd}
  /\ UNCHANGED <<dpc, dconn, sleepers, tabvars, schedvars, ownvars, sockvars,
                 evvars, mainvars>>

\* ... which is joined
CorralJoin ==
  /\ mpc \in {"corral", "errcorral"}
  /\ herd > 0
  /\ dpc[herd] = "gone"
  /\ dpc' = [dpc EXCEPT ![herd] = "none"]
  /\ herd' = herd - 1
  /\ UNCHANGED <<dconn, sleepers, dcancel, mpc, ctlev, inits, twice, tabvars,
                 schedvars, ownvars, sockvars, evvars>>

\* The lock and the condition are destroyed
CorralDone ==
  /\ mpc \in {"corral", "errcorral"}
  /\ herd = 0
  /\ mpc' = IF mpc = "corral" THEN "down" ELSE "errclose"
  /\ UNCHANGED <<herd, ctlev, inits, twice, tabvars, schedvars, ownvars,
                 sockvars, evvars, dronevars>>

OwnerStep(o) ==
  RegCommand(o) \/ RegFails(o) \/ RegDone(o) \/ DelCommand(o) \/ DelDone(o)

EvStep ==
  \/ EvWake \/ EvAccept \/ EvRecv \/ EvRecvFails \/ EvServerCommand
  \/ EvSchedule \/ EvScheduleFails \/ EvSignal \/ EvRefuse \/ EvCancelled

DroneStep(d) ==
  \/ DroneSleep(d) \/ DroneTake(d) \/ DroneRun(d) \/ DroneUnref(d)
  \/ DroneClose(d) \/ DroneTest(d) \/ DroneCancelled(d)

MainStep ==
  \/ InitEv \/ InitEvFails \/ InitErrClose \/ StopClose \/ StopEv
  \/ CorralCancel \/ CorralJoin \/ CorralDone

Next ==
  \/ \E o \in Owners : OwnerStep(o) \/ ComponentReg(o) \/ ComponentDel(o)
  \/ \E k \in Conns : Connect(k)
  \/ EvStep
  \/ \E d \in Drones : DroneStep(d) \/ SpuriousWakeup(d)
  \/ MainStep \/ InitFailsEarly \/ InitStart \/ StopBegin

Spec == Init /\ [][Next]_vars

\* The scheduler starves no thread, command handlers return, and a client that
\* has connected sends its command or goes away. Nothing makes clients connect
\* or the application start and stop.
Fairness ==
  /\ \A o \in Owners : WF_vars(OwnerStep(o))
  /\ WF_vars(EvStep)
  /\ WF_vars(EvCancelled)
  /\ \A d \in Drones : WF_vars(DroneStep(d)) /\ WF_vars(DroneCancelled(d))
  /\ WF_vars(MainStep)

FairSpec == Spec /\ Fairness

-----------------------------------------------------------------------------

\* The connections whose scheduled_cmd still points to a command entry: queued,
\* or taken by a drone that has not dropped its reference
Queued == {pending[i] : i \in 1..Len(pending)}
InHand == {dconn[d] : d \in {x \in Drones : dpc[x] \in {"run", "unref"}}}
Users(e) == {k \in Queued \cup InHand : cmdof[k] = e}

\* The reference count of an entry is the number of queued or running commands
\* that use it, whatever drones, the event thread, delcommand() and the
\* application do in between: never short (the handler would go away under a
\* drone), never over (delcommand() would spin for ever).
RefcountIsExact == \A e \in Entries : refcount[e] = Cardinality(Users(e))

\* A queued or running command refers to an entry that is still linked and was
\* not released: me->cmd->cmd->func is safe to call in ctldrone_main().
HandlersStay ==
  \A k \in Queued \cup InHand : cmdof[k] \in table /\ cmdof[k] \notin freed

\* A connection is in one pair of hands at a time, the event thread's, the
\* queue's or one drone's, and its descriptors are open while it is: no close of
\* a descriptor somebody else may have got in the meantime.
OneHandlerPerConnection ==
  LET evheld == IF evpc \in {"recv", "dispatch", "signalfail", "refuse"}
                THEN {evconn} ELSE {}
      hand == {d \in Drones : dpc[d] \in {"run", "unref", "close"}}
  IN /\ Cardinality(Queued) = Len(pending)
     /\ \A d1, d2 \in hand : dconn[d1] = dconn[d2] => d1 = d2
     /\ evheld \cap (Queued \cup {dconn[d] : d \in hand}) = {}
     /\ Queued \cap {dconn[d] : d \in hand} = {}
     /\ \A k \in evheld \cup Queued \cup {dconn[d] : d \in hand} : sd[k] = "open"

\* schedule() puts another command on the queue
Scheduled == Len(pending') > Len(pending)

\* A command that was queued is run and its connection closed, unless for ever new
\* commands are put on the queue ahead of it: the queue is last in, first out
\* (ctlserver.c:213, 261), and clients that keep it from running empty starve the
\* command at its end.
QueuedCommandsFinish ==
  \A k \in Conns : (k \in Queued ~> sd[k] = "closed")
                   \/ []<><<k \in Queued /\ Scheduled>>_vars

\* stop_ctlserver() comes to an end: the busy-wait of delcommands(), the
\* cancellation of the event thread, wherever it is, and of every drone; unless for
\* ever new commands are scheduled, which delcommand() may find in use each time it
\* looks, for the socket is closed only after delcommands().
StopTerminates == (mpc = "stopdel" ~> mpc = "down") \/ []<><<Scheduled>>_vars

\* The server can be started and stopped repeatedly ("multiple-run unit
\* testing", ctlserver.c): no evhandler is destroyed twice.
EvhandlerDestroyedOnce == ~twice
=============================================================================
