------------------------------- MODULE AppLife -------------------------------
(***************************************************************************)
(* The life of an application: app_init() and app_stop(), what they set up   *)
(* and take down, the log contexts of the threads, and the fatal signals that *)
(* may meet any of it and are reported in a log reserved for that.           *)
(***************************************************************************)
EXTENDS Naturals, Sequences, FiniteSets

CONSTANTS Main,       \* the thread that runs app_init() and app_stop()
          Workers,    \* other threads the application may launch
          Fatal,      \* fatal signals
          CommandLines, \* sequences of options: "d", "v", "p", "l", "c" or another
          None

ASSUME AppAssumption == Main \notin Workers /\ Fatal # {} /\ None \notin Workers \cup {Main}

VARIABLES
  args,      \* the command line
  pc,        \* where Main is
  ret,       \* whether an error was noted
  svc,       \* what is up: the lock file, ctx->lockfile, fileconf, the control server,
             \* ctx->ctlsrvsocket, the log server; stuck: removing the lock file failed
  log,       \* the log directory: logdir, use_stdio, crash_log, avail_crash_log,
             \* the file "crash" on disk, and whether it was ever reserved
  logdir_lock,
  heap,      \* a thread that met its fatal signal inside the allocator, whose locks
             \* (libc's, memlimit.c's) it holds for ever
  handlers,  \* fatal signals that have their handler
  lc,        \* thread -> its log context: whether there is one, lfile,
             \* ustrings, cleanup
  logfile,   \* thread -> its log on disk: "none", "open", "closed", "removed"; "left":
             \* open, and forgotten after a failing write; "uncut", "kept": closed,
             \* but cutting it to its length, or removing it, failed
  tpc,       \* worker -> "none", "init", "open", "run", "ended"
  crash      \* thread -> where it is in fatal_sig_handler()

appvars == <<args, pc, ret, svc, log, logdir_lock, heap, handlers, lc, logfile, tpc, crash>>

Threads == Workers \cup {Main}
NoCtx == [tsd |-> FALSE, lfile |-> "none", ustrings |-> FALSE, cleanup |-> FALSE]
Gone == {"failed", "abandoned", "exited", "dead"}

\* The options of a command line, or None when app_init() refuses it: the order
\* they come in plays no part.
getopt(s) ==
  LET given == {s[k] : k \in DOMAIN s}
  IN IF given \subseteq {"d", "v", "p", "l", "c"} /\ ~({"d", "v"} \subseteq given)
     THEN [d |-> "d" \in given, v |-> "v" \in given, p |-> "p" \in given,
           l |-> "l" \in given, c |-> "c" \in given]
     ELSE None

Opt == getopt(args)

AppInit ==
  /\ args \in CommandLines /\ pc = "check" /\ ret = FALSE
  /\ svc = [file |-> FALSE, stuck |-> FALSE, lockfile |-> FALSE, fileconf |-> FALSE,
            ctlserver |-> FALSE, ctlsrvsocket |-> FALSE, logserver |-> FALSE]
  /\ log = [logdir |-> FALSE, use_stdio |-> FALSE, crash_log |-> FALSE,
            avail_crash_log |-> FALSE, disk |-> "none", reserved |-> FALSE]
  /\ logdir_lock = None /\ heap = None /\ handlers = {}
  /\ lc = [t \in Threads |-> NoCtx] /\ logfile = [t \in Threads |-> "none"]
  /\ tpc = [t \in Workers |-> "none"] /\ crash = [t \in Threads |-> "no"]

Running(from) == pc = from /\ crash[Main] = "no"
Step(from, to) == Running(from) /\ pc' = to

-------------------------------------------------------------------------------
(* app_init_vercheck().                                                     *)

\* Version, context, definition, locale, options.
check_app ==
  /\ Running("check")
  /\ pc' \in IF Opt = None THEN {"failed"} ELSE {"chroot", "failed"}
  /\ UNCHANGED <<args, heap, ret, svc, log, logdir_lock, handlers, lc, logfile, tpc, crash>>

Chroot ==
  /\ Step("chroot", "privs")
  /\ ret' \in {ret, TRUE}
  /\ UNCHANGED <<args, heap, svc, log, logdir_lock, handlers, lc, logfile, tpc, crash>>

\* The group, then the user; a failure at either leaves the other as it is.
drop_privs ==
  /\ Running("privs")
  /\ pc' \in {"daemon", "failed"}
  /\ UNCHANGED <<args, heap, ret, svc, log, logdir_lock, handlers, lc, logfile, tpc, crash>>

Daemon ==
  /\ Step("daemon", "lock")
  /\ ret' \in IF Opt.d THEN {ret, TRUE} ELSE {ret}
  /\ UNCHANGED <<args, heap, svc, log, logdir_lock, handlers, lc, logfile, tpc, crash>>

\* When writing the pid fails the file is removed, unless that fails as well.
take_pidlock ==
  /\ Running("lock")
  /\ \/ /\ ~Opt.p /\ pc' = "logging" /\ UNCHANGED svc
     \/ /\ Opt.p /\ pc' = "logging"
        /\ svc' = [svc EXCEPT !.file = TRUE, !.lockfile = TRUE]
     \/ /\ Opt.p /\ pc' = "failed"
        /\ \E stuck \in BOOLEAN : svc' = [svc EXCEPT !.file = stuck, !.stuck = stuck]
  /\ UNCHANGED <<args, heap, ret, log, logdir_lock, handlers, lc, logfile, tpc, crash>>

\* The context of Main, and set_log_stdio().
set_log_stdio ==
  /\ Step("logging", "fileconf") /\ Opt.v
  /\ log' = [log EXCEPT !.use_stdio = TRUE]
  /\ lc' = [lc EXCEPT ![Main] = [NoCtx EXCEPT !.tsd = TRUE, !.lfile = "stdout"]]
  /\ UNCHANGED <<args, heap, ret, svc, logdir_lock, handlers, logfile, tpc, crash>>

\* What becomes of the file "crash": never made, filled in part, or reserved.
reserve_crash_log == {"none", "part", "reserved"}

\* The name of the directory stays whether it is of use or not.
try_logdir(disk) ==
  [log EXCEPT !.logdir = TRUE, !.disk = disk, !.reserved = (disk = "reserved"),
              !.crash_log = (disk = "reserved"), !.avail_crash_log = (disk = "reserved")]

\* The name of the directory may be too long or memory short; then the directory
\* and what is reserved there; then the log of Main.
set_logdir ==
  /\ Step("logging", "fileconf") /\ Opt.l /\ ~Opt.v
  /\ \E d \in reserve_crash_log \cup {"unnamed"}, opened \in BOOLEAN :
       /\ opened => d = "reserved"
       /\ log' = IF d = "unnamed" THEN log ELSE try_logdir(d)
       /\ lc' = [lc EXCEPT ![Main] = [NoCtx EXCEPT !.tsd = TRUE,
                                                  !.lfile = IF opened THEN "own" ELSE "none"]]
       /\ logfile' = [logfile EXCEPT ![Main] = IF opened THEN "open" ELSE "none"]
       /\ ret' = (ret \/ ~opened)
  /\ UNCHANGED <<args, heap, svc, logdir_lock, handlers, tpc, crash>>

\* Neither: a context with strings in memory, for which memory may be short.
init_logging ==
  /\ Step("logging", "fileconf") /\ ~Opt.v /\ ~Opt.l
  /\ \E ok \in BOOLEAN :
       /\ lc' = [lc EXCEPT ![Main] = [NoCtx EXCEPT !.tsd = TRUE, !.ustrings = ok]]
       /\ ret' = (ret \/ ~ok)
  /\ UNCHANGED <<args, heap, svc, log, logdir_lock, handlers, logfile, tpc, crash>>

\* A directory name too long.
init_fileconf ==
  /\ Step("fileconf", "limit")
  /\ svc' = [svc EXCEPT !.fileconf = TRUE]
  /\ ret' \in {ret, TRUE}
  /\ UNCHANGED <<args, heap, log, logdir_lock, handlers, lc, logfile, tpc, crash>>

\* The processor is looked up, and the limit taken from the environment.
check_memory_limit ==
  /\ Step("limit", "signals")
  /\ ret' \in {ret, TRUE}
  /\ UNCHANGED <<args, heap, svc, log, logdir_lock, handlers, lc, logfile, tpc, crash>>

\* One signal after the other; the first failure ends it.
handle_fatal_sigs == {s \in (SUBSET Fatal) \X BOOLEAN : s[2] = (s[1] = Fatal)}

\* Signals to ignore, those to wait for, and the masks come after.
init_signals ==
  /\ Step("signals", "ctlserver")
  /\ \E s \in handle_fatal_sigs : handlers' = s[1] /\ ret' \in {ret \/ ~s[2], TRUE}
  /\ UNCHANGED <<args, heap, svc, log, logdir_lock, lc, logfile, tpc, crash>>

NotesLastOnly ==
  /\ Step("ctlserver", "run")
  /\ IF ~Opt.c THEN UNCHANGED <<svc, ret>>
     ELSE \E up, logs \in BOOLEAN :
            /\ logs => up
            /\ svc' = [svc EXCEPT !.ctlserver = up, !.ctlsrvsocket = up, !.logserver = logs]
            /\ ret' = IF up THEN ret ELSE TRUE
  /\ UNCHANGED <<args, heap, log, logdir_lock, handlers, lc, logfile, tpc, crash>>

\* init_log_server() needs the control server; the socket is noted whether it
\* works or not.
init_ctlserver ==
  /\ Step("ctlserver", "run")
  /\ IF ~Opt.c THEN UNCHANGED <<svc, ret>>
     ELSE \E up, logs \in BOOLEAN :
            /\ logs => up
            /\ svc' = [svc EXCEPT !.ctlserver = up, !.ctlsrvsocket = up, !.logserver = logs]
            /\ ret' = (ret \/ ~up \/ ~logs)
  /\ UNCHANGED <<args, heap, log, logdir_lock, handlers, lc, logfile, tpc, crash>>

\* An application that is told of an error may return from main() as it is.
AppGivesUp ==
  /\ Step("run", "abandoned") /\ ret
  /\ UNCHANGED <<args, heap, ret, svc, log, logdir_lock, handlers, lc, logfile, tpc, crash>>

-------------------------------------------------------------------------------
(* The threads' log contexts.  A detached thread's log goes with it.         *)
init_thread_logctx(w, cleanup) ==
  /\ Running("run") /\ tpc[w] = "none"
  /\ tpc' = [tpc EXCEPT ![w] = "init"]
  /\ lc' = [lc EXCEPT ![w] = [NoCtx EXCEPT !.tsd = TRUE, !.cleanup = cleanup]]
  /\ UNCHANGED <<args, heap, pc, ret, svc, log, logdir_lock, handlers, logfile, crash>>

\* open_thread_log() tests logdir without the lock ...
open_thread_log(w) ==
  /\ tpc[w] = "init" /\ crash[w] = "no" /\ pc \notin Gone
  /\ tpc' = [tpc EXCEPT ![w] = IF log.logdir THEN "open" ELSE "run"]
  /\ lc' = [lc EXCEPT ![w].lfile = IF log.use_stdio THEN "stdout" ELSE "none"]
  /\ UNCHANGED <<args, heap, pc, ret, svc, log, logdir_lock, handlers, logfile, crash>>

\* ... and makes a name of it.
open_logfile(w) ==
  /\ tpc[w] = "open" /\ crash[w] = "no" /\ pc \notin Gone
  /\ tpc' = [tpc EXCEPT ![w] = "run"]
  /\ \/ /\ lc' = [lc EXCEPT ![w].lfile = "own"] /\ logfile' = [logfile EXCEPT ![w] = "open"]
     \/ UNCHANGED <<lc, logfile>>
  /\ UNCHANGED <<args, heap, pc, ret, svc, log, logdir_lock, handlers, crash>>

\* inner_vflog(): a write, or the cut at the size a log may have, fails. The thread
\* forgets its log, which stays open on disk.
LogWriteFails(t) ==
  /\ pc \notin Gone /\ lc[t].lfile \in {"own", "stdout"}
  /\ lc' = [lc EXCEPT ![t].lfile = "none"]
  /\ logfile' = [logfile EXCEPT ![t] = IF lc[t].lfile = "own" THEN "left" ELSE @]
  /\ UNCHANGED <<args, heap, pc, ret, svc, log, logdir_lock, handlers, tpc, crash>>

\* What free_logctx() makes of a thread's log: it is closed and cut to what was
\* written, or removed, where either may fail; a log that was forgotten stays.  A
\* context that writes to the crash log closes that one.
Closed(t) ==
  CASE lc[t].lfile # "own" -> {logfile[t]}
    [] lc[t].lfile = "own" -> IF lc[t].cleanup THEN {"removed", "kept"}
                              ELSE {"closed", "removed", "uncut"}

free_logctx(w) ==
  /\ tpc[w] = "run" /\ crash[w] = "no" /\ pc \notin Gone
  /\ tpc' = [tpc EXCEPT ![w] = "ended"]
  /\ \E x \in Closed(w) : logfile' = [logfile EXCEPT ![w] = x]
  /\ lc' = [lc EXCEPT ![w] = [NoCtx EXCEPT !.cleanup = lc[w].cleanup]]
  /\ UNCHANGED <<args, heap, pc, ret, svc, log, logdir_lock, handlers, crash>>

-------------------------------------------------------------------------------
(* Fatal signals.                                                           *)
Alive(t) == /\ pc \notin Gone /\ crash[t] = "no"
            /\ t \in Workers => tpc[t] \in {"init", "open", "run"}

\* The handler is good for one signal; a second one kills.  The thread may have been
\* inside the allocator.
Raise(t, s) ==
  /\ Alive(t)
  /\ IF s \in handlers
     THEN /\ handlers' = handlers \ {s} /\ crash' = [crash EXCEPT ![t] = "claim"]
          /\ heap' \in IF heap = None THEN {None, t} ELSE {heap}
          /\ UNCHANGED pc
     ELSE pc' = "dead" /\ UNCHANGED <<handlers, crash, heap>>
  /\ UNCHANGED <<args, ret, svc, log, logdir_lock, lc, logfile, tpc>>

\* log_crash(): whoever has the lock, be it this thread, is not waited for.
log_crash(t) ==
  /\ crash[t] = "claim" /\ pc \notin Gone
  /\ IF logdir_lock = None
     THEN logdir_lock' = t /\ crash' = [crash EXCEPT ![t] = "claiming"]
     ELSE crash' = [crash EXCEPT ![t] = "oops"] /\ UNCHANGED logdir_lock
  /\ UNCHANGED <<args, heap, pc, ret, svc, log, handlers, lc, logfile, tpc>>

\* The first to ask gets it, and a context of its own.
get_crash_log(t) ==
  /\ crash[t] = "claiming" /\ pc \notin Gone
  /\ logdir_lock' = None /\ crash' = [crash EXCEPT ![t] = "oops"]
  /\ log' = [log EXCEPT !.avail_crash_log = FALSE]
  /\ lc' = IF log.avail_crash_log THEN [lc EXCEPT ![t] = [NoCtx EXCEPT !.tsd = TRUE, !.lfile = "crash"]]
           ELSE IF log.use_stdio THEN [lc EXCEPT ![t] = [NoCtx EXCEPT !.tsd = TRUE, !.lfile = "stdout"]]
           ELSE lc
  /\ UNCHANGED <<args, heap, pc, ret, svc, handlers, logfile, tpc>>

\* Writing the report; backtrace_symbols() allocates, and never returns to a thread
\* that holds the allocator's lock.  A write may fail: the crash log is forgotten.
log_oops(t) ==
  /\ crash[t] = "oops" /\ pc \notin Gone /\ heap # t
  /\ crash' = [crash EXCEPT ![t] = "stop"]
  /\ IF lc[t].lfile # "crash" THEN UNCHANGED <<log, lc>>
     ELSE \/ log' = [log EXCEPT !.disk = "report"] /\ UNCHANGED lc
          \/ log' = [log EXCEPT !.disk = "short"] /\ lc' = [lc EXCEPT ![t].lfile = "none"]
  /\ UNCHANGED <<args, heap, pc, ret, svc, logdir_lock, handlers, logfile, tpc>>

-------------------------------------------------------------------------------
(* stop_logging().                                                          *)

NeverTruncates(t) ==
  LET unused == log.crash_log /\ lc[t].tsd /\ log.avail_crash_log
  IN /\ log' = [log EXCEPT !.logdir = FALSE, !.crash_log = FALSE,
                           !.avail_crash_log = @ /\ ~unused,
                           !.disk = IF unused THEN "none" ELSE @]
     /\ lc' = [lc EXCEPT ![t].lfile = "none", ![t].ustrings = FALSE]
     /\ \E x \in Closed(t) : logfile' = [logfile EXCEPT ![t] = x]
     /\ logdir_lock' = None

\* The body of truncate_crash_log(): the crash log is closed and removed when
\* nobody has claimed it, and cut to its length, but not closed, by the one who
\* has; removing and cutting may fail.  The context and the directory go.
truncate_crash_log_locked(t) ==
  LET mine == log.crash_log /\ lc[t].tsd /\ ~log.avail_crash_log /\ lc[t].lfile = "crash"
      unused == log.crash_log /\ lc[t].tsd /\ log.avail_crash_log
  IN /\ \E disk \in IF unused THEN {"none", "kept"}
                   ELSE IF mine THEN {"truncated", "uncut"} ELSE {log.disk} :
          log' = [log EXCEPT !.logdir = FALSE, !.crash_log = FALSE,
                             !.avail_crash_log = @ /\ ~unused, !.disk = disk]
     /\ lc' = [lc EXCEPT ![t].lfile = "none", ![t].ustrings = FALSE]
     /\ \E x \in Closed(t) : logfile' = [logfile EXCEPT ![t] = x]
     /\ logdir_lock' = None

WaitsForLock(t) ==
  /\ crash[t] = "stop" /\ pc \notin Gone
  /\ logdir_lock = None /\ logdir_lock' = t /\ crash' = [crash EXCEPT ![t] = "truncate"]
  /\ UNCHANGED <<args, heap, pc, ret, svc, log, handlers, lc, logfile, tpc>>

\* In the handler: only when the lock is free, then the signal is raised again.
stop_logging(t) ==
  /\ crash[t] = "stop" /\ pc \notin Gone
  /\ IF logdir_lock = None
     THEN logdir_lock' = t /\ crash' = [crash EXCEPT ![t] = "truncate"]
     ELSE crash' = [crash EXCEPT ![t] = "raise"] /\ UNCHANGED logdir_lock
  /\ UNCHANGED <<args, heap, pc, ret, svc, log, handlers, lc, logfile, tpc>>

\* The context and the directory are given back to the allocator.
TruncateInHandler(t) ==
  /\ crash[t] = "truncate" /\ pc \notin Gone /\ heap # t
  /\ crash' = [crash EXCEPT ![t] = "raise"]
  /\ truncate_crash_log_locked(t)
  /\ UNCHANGED <<args, heap, pc, ret, svc, handlers, tpc>>

\* The signal is raised for good when the handler returns.
fatal_sig_handler(t) ==
  /\ crash[t] = "raise" /\ pc \notin Gone
  /\ pc' = "dead"
  /\ UNCHANGED <<args, heap, ret, svc, log, logdir_lock, handlers, lc, logfile, tpc, crash>>

-------------------------------------------------------------------------------
(* app_stop().                                                              *)
PurgeAtOnce ==
  /\ Step("run", "stop")
  /\ svc' = [svc EXCEPT !.fileconf = FALSE, !.file = FALSE, !.lockfile = FALSE]
  /\ UNCHANGED <<args, heap, ret, log, logdir_lock, handlers, lc, logfile, tpc, crash>>

app_stop ==
  /\ Step("run", "stop")
  /\ svc' = [svc EXCEPT !.fileconf = FALSE]
  /\ UNCHANGED <<args, heap, ret, log, logdir_lock, handlers, lc, logfile, tpc, crash>>

stop_log_server ==
  /\ Step("stop", "stopctl")
  /\ svc' = [svc EXCEPT !.logserver = @ /\ ~svc.ctlsrvsocket]
  /\ ret' = (ret \/ (svc.ctlsrvsocket /\ ~svc.logserver))
  /\ UNCHANGED <<args, heap, log, logdir_lock, handlers, lc, logfile, tpc, crash>>

stop_ctlserver ==
  /\ Step("stopctl", "purge")
  /\ svc' = [svc EXCEPT !.ctlserver = @ /\ ~svc.ctlsrvsocket, !.ctlsrvsocket = FALSE]
  /\ UNCHANGED <<args, heap, ret, log, logdir_lock, handlers, lc, logfile, tpc, crash>>

\* Removing the file may fail; the name is forgotten all the same.
purge_lockfile ==
  /\ Step("purge", "stoplog")
  /\ \E ok \in BOOLEAN :
       /\ svc' = [svc EXCEPT !.lockfile = FALSE, !.file = @ /\ svc.lockfile /\ ~ok,
                             !.stuck = svc.lockfile /\ ~ok]
       /\ ret' = (ret \/ (svc.lockfile /\ ~ok))
  /\ UNCHANGED <<args, heap, log, logdir_lock, handlers, lc, logfile, tpc, crash>>

StopLoggingAtExit ==
  /\ Running("stoplog")
  /\ IF logdir_lock = None THEN logdir_lock' = Main /\ pc' = "truncate"
     ELSE pc' = "exited" /\ UNCHANGED logdir_lock
  /\ UNCHANGED <<args, heap, ret, svc, log, handlers, lc, logfile, tpc, crash>>

truncate_crash_log ==
  /\ Step("truncate", "exit")
  /\ truncate_crash_log_locked(Main)
  /\ UNCHANGED <<args, heap, ret, svc, handlers, tpc, crash>>

Exit ==
  /\ Step("exit", "exited")
  /\ UNCHANGED <<args, heap, ret, svc, log, logdir_lock, handlers, lc, logfile, tpc, crash>>

Done == pc \in Gone /\ UNCHANGED appvars

\* In the allocator, waiting for a lock that it holds itself.
LockedUp(t) == heap = t /\ crash[t] \in {"oops", "truncate"} /\ pc \notin Gone /\ UNCHANGED appvars

Start == \/ check_app \/ Chroot \/ drop_privs \/ Daemon \/ take_pidlock \/ set_log_stdio \/ set_logdir
         \/ init_logging \/ init_fileconf \/ check_memory_limit \/ init_signals
         \/ init_ctlserver

Stop == \/ stop_log_server \/ stop_ctlserver \/ purge_lockfile
        \/ StopLoggingAtExit \/ truncate_crash_log \/ Exit

Handle(t) == \/ log_crash(t) \/ get_crash_log(t) \/ log_oops(t) \/ stop_logging(t)
             \/ TruncateInHandler(t) \/ fatal_sig_handler(t)

AppNext ==
  \/ Start \/ Stop \/ app_stop \/ AppGivesUp
  \/ \E w \in Workers : (\E d \in BOOLEAN : init_thread_logctx(w, d)) \/ open_thread_log(w) \/ open_logfile(w)
                        \/ free_logctx(w)
  \/ \E t \in Threads : LogWriteFails(t) \/ Handle(t) \/ LockedUp(t) \/ \E s \in Fatal : Raise(t, s)
  \/ Done

\* Main goes on with its start and its end, and a handler with its report.
AppSpec == AppInit /\ [][AppNext]_appvars
           /\ WF_appvars(Start) /\ WF_appvars(Stop)
           /\ \A t \in Threads : WF_appvars(Handle(t))

-------------------------------------------------------------------------------
(* Properties. *)

\* When app_init() reports no error everything that was asked for is there; the log
\* of Main may have failed since, of which nobody is told (inner_vflog() returns
\* nothing). When it gives up early no server and no crash log is left, and no lock
\* file but one whose pid could not be written and that could not be removed either
\* (pidlock.c:181).
InitTellsTheTruth ==
  /\ (pc = "run" /\ ~ret /\ \A t \in Threads : crash[t] = "no") =>
       /\ svc.file = Opt.p /\ svc.fileconf /\ handlers = Fatal
       /\ svc.ctlserver = Opt.c /\ svc.logserver = Opt.c
       /\ IF Opt.v THEN log.use_stdio
          ELSE Opt.l => log.crash_log /\ logfile[Main] \in {"open", "left"}
  /\ pc = "failed" => (svc.file => svc.stuck) /\ ~svc.ctlserver /\ ~log.crash_log

\* What app_stop() leaves when no thread has met a fatal signal, whatever failed at
\* the start: no server; no lock file but one whose removal failed, of which the exit
\* status tells; of the crash log only what reserve_crash_log() left when it failed, or
\* a file whose removal failed; of the logs of Main and of the threads that have ended,
\* one that is open only where a write to it failed before (logging.c:238: its handle
\* is lost), and one of a detached thread only then or where its removal failed.
\* Until then its servers are up only while it holds its lock file.
StopLeavesNothing ==
  /\ (svc.ctlserver \/ svc.logserver) /\ Opt.p => svc.file
  /\ pc = "exited" /\ (\A t \in Threads : crash[t] = "no") =>
       /\ svc.file => ret /\ svc.stuck
       /\ ~svc.ctlserver /\ ~svc.logserver /\ log.disk \in {"none", "part", "kept"}
       /\ logfile[Main] # "open"
       /\ \A w \in Workers : tpc[w] = "ended" =>
            logfile[w] \in {"none", "removed", "left"} \cup
                           IF lc[w].cleanup THEN {"kept"} ELSE {"closed", "uncut"}

\* Where a crash log was reserved, the report of a thread that meets a fatal signal,
\* the only one to do so and before the application stops, is in it on disk when the
\* handler has come to its end, and the log is cut to the report's length. It is not
\* whole only where a write failed ("short"), and not cut only where that failed
\* ("uncut"). Without a reservation there is no report on disk.
CrashIsReported ==
  \A t \in Threads :
    pc = "dead" /\ svc.fileconf /\ crash[t] = "raise" /\ (\A u \in Threads \ {t} : crash[u] = "no")
      => log.disk \in IF log.reserved THEN {"truncated", "short", "uncut"} ELSE {"none", "part"}

\* However many threads meet fatal signals, at most one of them writes to the crash
\* log, and it is not closed or removed while that one does.
OneCrashWriter ==
  /\ \A t, u \in Threads : lc[t].lfile = "crash" /\ lc[u].lfile = "crash" => t = u
  /\ \A t \in Threads : lc[t].lfile = "crash" => log.disk \in {"reserved", "report"}

\* A thread that meets a fatal signal takes the process with it, even when it, or a
\* thread that waits for ever, holds logdir_lock. The handler is not safe otherwise: a
\* thread that was interrupted inside the allocator locks up in it, as the comment at
\* logdir.c:289 says of closing the crash log there, and the process may then go on.
\* The locks of stdio are recursive. The comment at init.c:83 tells of a main thread
\* that stays behind; that is of LinuxThreads, where a signal ends one thread.
FatalSignalsEnd == \A t \in Threads : (crash[t] # "no") ~> (pc \in Gone \/ heap # None)

\* Both: a crash is reported, by one thread.
CrashesAreReported == CrashIsReported /\ OneCrashWriter
===============================================================================
