---------------------------- MODULE AppLife_proofs ----------------------------
(***************************************************************************)
(* Proofs about AppLife, for any number of threads, of fatal signals and of *)
(* command lines.                                                           *)
(***************************************************************************)
EXTENDS AppLife, TLAPS

Options == [d : BOOLEAN, v : BOOLEAN, p : BOOLEAN, l : BOOLEAN, c : BOOLEAN]
MainPcs == {"check", "chroot", "privs", "daemon", "lock", "logging", "fileconf", "limit",
            "signals", "ctlserver", "run", "stop", "stopctl", "purge", "stoplog", "truncate",
            "exit"} \cup Gone
Services == [file : BOOLEAN, stuck : BOOLEAN, lockfile : BOOLEAN, fileconf : BOOLEAN, ctlserver : BOOLEAN,
             ctlsrvsocket : BOOLEAN, logserver : BOOLEAN]
Logs == [logdir : BOOLEAN, use_stdio : BOOLEAN, crash_log : BOOLEAN, avail_crash_log : BOOLEAN,
         disk : {"none", "part", "reserved", "report", "short", "truncated", "uncut", "kept"},
         reserved : BOOLEAN]
Contexts == [tsd : BOOLEAN, lfile : {"none", "stdout", "own", "crash"}, ustrings : BOOLEAN,
             cleanup : BOOLEAN]
Files == {"none", "open", "left", "closed", "uncut", "removed", "kept"}
WorkerPcs == {"none", "init", "open", "run", "ended"}
CrashPcs == {"no", "claim", "claiming", "oops", "stop", "truncate", "raise"}

TypeOK ==
  /\ args \in CommandLines /\ pc \in MainPcs /\ ret \in BOOLEAN
  /\ svc \in Services /\ log \in Logs
  /\ logdir_lock \in Threads \cup {None} /\ heap \in Threads \cup {None}
  /\ handlers \subseteq Fatal
  /\ lc \in [Threads -> Contexts] /\ logfile \in [Threads -> Files]
  /\ tpc \in [Workers -> WorkerPcs]
  /\ crash \in [Threads -> CrashPcs]

\* No thread has met a fatal signal
Calm == \A t \in Threads : crash[t] = "no"

\* What app_init() has not come to yet
BeforeLog == {"check", "chroot", "privs", "daemon", "lock", "logging", "failed"}
BeforeSignals == BeforeLog \cup {"fileconf", "limit", "signals"}

EarlyInv ==
  /\ pc \in BeforeLog =>
       /\ \A t \in Threads : lc[t] = NoCtx /\ logfile[t] = "none"
       /\ ~svc.fileconf /\ ~log.crash_log /\ ~log.avail_crash_log /\ log.disk = "none"
       /\ ~log.reserved
  /\ pc \in BeforeLog \ {"logging", "failed"} => ~svc.file
  /\ pc = "failed" => (svc.file => svc.stuck)
  /\ pc \in BeforeSignals => handlers = {} /\ Calm
  /\ pc \in BeforeSignals \cup {"ctlserver"} => \A w \in Workers : tpc[w] = "none"
  /\ pc \notin {"check", "failed", "dead"} => Opt \in Options

\* What app_init() has come to, unless an error was noted
InitInv ==
  /\ pc \in {"logging", "fileconf", "limit", "signals", "ctlserver", "run", "stop", "stopctl",
             "purge"} => svc.file = Opt.p
  /\ pc \in {"limit", "signals", "ctlserver", "run"} => svc.fileconf
  /\ pc \in {"fileconf", "limit", "signals", "ctlserver", "run"} /\ ~ret /\ Calm =>
       IF Opt.v THEN log.use_stdio ELSE Opt.l => log.crash_log /\ logfile[Main] \in {"open", "left"}
  /\ pc \in {"ctlserver", "run"} /\ ~ret /\ Calm => handlers = Fatal
  /\ pc = "run" /\ ~ret => svc.ctlserver = Opt.c /\ svc.logserver = Opt.c

\* The servers are up between init_ctlserver() and app_stop(), under the lock file
SvcInv ==
  /\ svc.ctlsrvsocket = svc.ctlserver
  /\ svc.logserver => svc.ctlserver /\ pc \in {"run", "stop", "dead", "abandoned"}
  /\ svc.ctlserver => pc \in {"run", "stop", "stopctl", "dead", "abandoned"}
  /\ svc.ctlserver /\ Opt.p => svc.file
  /\ pc \in {"stop", "stopctl", "purge", "stoplog", "truncate", "exit", "exited"} => ~svc.fileconf
  /\ pc \in {"stoplog", "truncate", "exit", "exited"} => (svc.file => ret /\ svc.stuck)

\* Who holds logdir_lock
LockInv ==
  /\ \A t \in Threads : crash[t] \in {"claiming", "truncate"} => logdir_lock = t
  /\ pc = "truncate" => logdir_lock = Main /\ crash[Main] \notin {"claiming", "truncate"}
  /\ logdir_lock # None =>
       \/ crash[logdir_lock] \in {"claiming", "truncate"}
       \/ logdir_lock = Main /\ ~svc.fileconf /\ pc \in {"truncate", "dead"}

\* The contexts and the logs of the threads
CtxInv ==
  /\ pc \notin BeforeLog \cup {"dead"} => lc[Main].tsd
  /\ logfile[Main] = "open" /\ crash[Main] = "no" => lc[Main].lfile = "own"
  /\ pc \in {"exit", "exited"} /\ Calm => logfile[Main] # "open"
  /\ \A w \in Workers :
       /\ crash[w] # "no" => tpc[w] \in {"init", "open", "run"}
       /\ crash[w] = "no" =>
            /\ tpc[w] # "run" => lc[w].lfile # "own"
            /\ tpc[w] \in {"none", "init", "open"} => logfile[w] = "none"
            /\ tpc[w] = "run" => (lc[w].lfile = "own" \/ logfile[w] \in {"none", "left"})
            /\ tpc[w] = "ended" =>
                 logfile[w] \in {"none", "removed", "left"} \cup
                                IF lc[w].cleanup THEN {"kept"} ELSE {"closed", "uncut"}

\* The crash log: reserved as it was, or claimed by one thread
Untouched ==
  /\ log.disk \in {"none", "part", "reserved", "kept"}
  /\ log.avail_crash_log <=> log.disk = "reserved"
  /\ log.crash_log <=> log.avail_crash_log

\* The file on disk is what reserve_crash_log() made of it
Fresh == log.disk \in {"none", "part", "reserved"} /\ (log.reserved <=> log.disk = "reserved")

CrashInv ==
  /\ \A t \in Threads :
       lc[t].lfile = "crash" =>
         /\ crash[t] \in {"oops", "stop", "truncate", "raise"} /\ lc[t].tsd
         /\ log.disk \in {"reserved", "report"} /\ ~log.avail_crash_log
         /\ \A u \in Threads : lc[u].lfile = "crash" => u = t
  /\ log.avail_crash_log => log.disk = "reserved"
  /\ Calm => Untouched
  /\ Calm /\ (svc.fileconf \/ pc = "fileconf") => Fresh
  /\ pc \in {"exit", "exited"} /\ Calm => log.disk # "reserved"

\* How far the only thread that met a fatal signal has come with its report
Alone(t) == svc.fileconf /\ \A u \in Threads \ {t} : crash[u] = "no"

Claimed(t, what) ==
  log.disk = what /\ lc[t].lfile = "crash" /\ log.crash_log /\ ~log.avail_crash_log

ReportInv(t) ==
  /\ crash[t] \in {"claim", "claiming"} => Untouched /\ Fresh
  /\ crash[t] = "oops" =>
       IF log.reserved THEN Claimed(t, "reserved") ELSE log.disk \in {"none", "part"}
  /\ crash[t] \in {"stop", "truncate"} =>
       IF log.reserved THEN Claimed(t, "report") \/ log.disk = "short"
       ELSE log.disk \in {"none", "part"}
  /\ crash[t] = "raise" =>
       log.disk \in IF log.reserved THEN {"truncated", "short", "uncut"} ELSE {"none", "part"}

AloneInv == \A t \in Threads : Alone(t) => ReportInv(t)

IInv == TypeOK /\ EarlyInv /\ InitInv /\ SvcInv /\ LockInv /\ CtxInv /\ CrashInv /\ AloneInv

-------------------------------------------------------------------------------
(* The options of a command line.                                           *)

LEMMA OptionsTaken == Opt # None => Opt \in Options
BY DEF Opt, getopt, Options

LEMMA CheckAppStep ==
  ASSUME IInv, check_app
  PROVE  IInv'
<1> USE AppAssumption DEF IInv, check_app, Step, Running, Threads, Gone, NoCtx
<1>1. Opt' = Opt
  BY DEF Opt
<1>2. TypeOK'
  BY DEF TypeOK, MainPcs, Services, Logs, Contexts, Files, CrashPcs, WorkerPcs
<1>3. EarlyInv'
  BY <1>1, OptionsTaken DEF TypeOK, EarlyInv, BeforeLog, BeforeSignals, Calm
<1>4. InitInv'
  BY <1>1 DEF TypeOK, InitInv, EarlyInv, BeforeLog, BeforeSignals, Calm, Options
<1>5. SvcInv'
  BY <1>1 DEF TypeOK, Services, SvcInv, InitInv, EarlyInv, BeforeLog, BeforeSignals, Options
<1>6. LockInv'
  BY DEF TypeOK, LockInv, SvcInv, EarlyInv, BeforeLog, BeforeSignals, Calm
<1>7. CtxInv'
  BY DEF TypeOK, CtxInv, Contexts, EarlyInv, BeforeLog, BeforeSignals, Calm
<1>8. CrashInv'
  BY DEF TypeOK, CrashInv, Untouched, Fresh, EarlyInv, BeforeLog, BeforeSignals, Calm
<1>9. AloneInv'
  BY DEF TypeOK, AloneInv, Alone, ReportInv, Claimed, CrashInv, Untouched, Fresh, Calm, EarlyInv,
      BeforeLog, BeforeSignals
<1> QED BY <1>2, <1>3, <1>4, <1>5, <1>6, <1>7, <1>8, <1>9

LEMMA ChrootStep ==
  ASSUME IInv, Chroot
  PROVE  IInv'
<1> USE AppAssumption DEF IInv, Chroot, Step, Running, Threads, Gone, NoCtx
<1>1. Opt' = Opt
  BY DEF Opt
<1>2. TypeOK'
  <2>1. pc' \in MainPcs
    BY DEF TypeOK, MainPcs
  <2>2. ret' \in BOOLEAN
    BY DEF TypeOK
  <2> QED BY <2>1, <2>2 DEF TypeOK
<1>3. EarlyInv'
  BY <1>1, OptionsTaken DEF TypeOK, EarlyInv, BeforeLog, BeforeSignals, Calm
<1>4. InitInv'
  BY <1>1 DEF TypeOK, InitInv, EarlyInv, BeforeLog, BeforeSignals, Calm, Options
<1>5. SvcInv'
  BY <1>1 DEF TypeOK, Services, SvcInv, InitInv, EarlyInv, BeforeLog, BeforeSignals, Options
<1>6. LockInv'
  BY DEF TypeOK, LockInv, SvcInv, EarlyInv, BeforeLog, BeforeSignals, Calm
<1>7. CtxInv'
  BY DEF TypeOK, CtxInv, Contexts, EarlyInv, BeforeLog, BeforeSignals, Calm
<1>8. CrashInv'
  BY DEF TypeOK, CrashInv, Untouched, Fresh, EarlyInv, BeforeLog, BeforeSignals, Calm
<1>9. AloneInv'
  BY DEF TypeOK, AloneInv, Alone, ReportInv, Claimed, CrashInv, Untouched, Fresh, Calm, EarlyInv,
      BeforeLog, BeforeSignals
<1> QED BY <1>2, <1>3, <1>4, <1>5, <1>6, <1>7, <1>8, <1>9

LEMMA DropPrivsStep ==
  ASSUME IInv, drop_privs
  PROVE  IInv'
<1> USE AppAssumption DEF IInv, drop_privs, Step, Running, Threads, Gone, NoCtx
<1>1. Opt' = Opt
  BY DEF Opt
<1>2. TypeOK'
  BY DEF TypeOK, MainPcs, Services, Logs, Contexts, Files, CrashPcs, WorkerPcs
<1>3. EarlyInv'
  BY <1>1, OptionsTaken DEF TypeOK, EarlyInv, BeforeLog, BeforeSignals, Calm
<1>4. InitInv'
  BY <1>1 DEF TypeOK, InitInv, EarlyInv, BeforeLog, BeforeSignals, Calm, Options
<1>5. SvcInv'
  BY <1>1 DEF TypeOK, Services, SvcInv, InitInv, EarlyInv, BeforeLog, BeforeSignals, Options
<1>6. LockInv'
  BY DEF TypeOK, LockInv, SvcInv, EarlyInv, BeforeLog, BeforeSignals, Calm
<1>7. CtxInv'
  BY DEF TypeOK, CtxInv, Contexts, EarlyInv, BeforeLog, BeforeSignals, Calm
<1>8. CrashInv'
  BY DEF TypeOK, CrashInv, Untouched, Fresh, EarlyInv, BeforeLog, BeforeSignals, Calm
<1>9. AloneInv'
  BY DEF TypeOK, AloneInv, Alone, ReportInv, Claimed, CrashInv, Untouched, Fresh, Calm, EarlyInv,
      BeforeLog, BeforeSignals
<1> QED BY <1>2, <1>3, <1>4, <1>5, <1>6, <1>7, <1>8, <1>9

LEMMA DaemonStep ==
  ASSUME IInv, Daemon
  PROVE  IInv'
<1> USE AppAssumption DEF IInv, Daemon, Step, Running, Threads, Gone, NoCtx
<1>1. Opt' = Opt
  BY DEF Opt
<1>2. TypeOK'
  <2>1. pc' \in MainPcs
    BY DEF TypeOK, MainPcs
  <2>2. ret' \in BOOLEAN
    BY DEF TypeOK
  <2> QED BY <2>1, <2>2 DEF TypeOK
<1>3. EarlyInv'
  BY <1>1, OptionsTaken DEF TypeOK, EarlyInv, BeforeLog, BeforeSignals, Calm
<1>4. InitInv'
  BY <1>1 DEF TypeOK, InitInv, EarlyInv, BeforeLog, BeforeSignals, Calm, Options
<1>5. SvcInv'
  BY <1>1 DEF TypeOK, Services, SvcInv, InitInv, EarlyInv, BeforeLog, BeforeSignals, Options
<1>6. LockInv'
  BY DEF TypeOK, LockInv, SvcInv, EarlyInv, BeforeLog, BeforeSignals, Calm
<1>7. CtxInv'
  BY DEF TypeOK, CtxInv, Contexts, EarlyInv, BeforeLog, BeforeSignals, Calm
<1>8. CrashInv'
  BY DEF TypeOK, CrashInv, Untouched, Fresh, EarlyInv, BeforeLog, BeforeSignals, Calm
<1>9. AloneInv'
  BY DEF TypeOK, AloneInv, Alone, ReportInv, Claimed, CrashInv, Untouched, Fresh, Calm, EarlyInv,
      BeforeLog, BeforeSignals
<1> QED BY <1>2, <1>3, <1>4, <1>5, <1>6, <1>7, <1>8, <1>9

LEMMA TakePidlockStep ==
  ASSUME IInv, take_pidlock
  PROVE  IInv'
<1> USE AppAssumption DEF IInv, take_pidlock, Step, Running, Threads, Gone, NoCtx
<1>1. /\ Opt \in Options /\ ~svc.file /\ ~svc.fileconf /\ pc = "lock"
      /\ pc' \in {"logging", "failed"}
      /\ UNCHANGED <<args, ret, log, handlers, lc, logfile, tpc, crash>>
  BY DEF EarlyInv, BeforeLog
<1>2. /\ svc' \in Services /\ svc'.fileconf = svc.fileconf
      /\ svc'.ctlserver = svc.ctlserver /\ svc'.ctlsrvsocket = svc.ctlsrvsocket
      /\ svc'.logserver = svc.logserver
      /\ (pc' = "failed" => (svc'.file => svc'.stuck))
      /\ (pc' = "logging" => svc'.file = Opt.p)
  <2>1. svc \in Services
    BY DEF TypeOK
  <2>2. CASE pc' = "logging"
    BY <1>1, <2>1, <2>2 DEF Services, Options
  <2>3. CASE pc' = "failed"
    <3>1. PICK b \in BOOLEAN : svc' = [svc EXCEPT !.file = b, !.stuck = b]
      BY <2>3
    <3> QED BY <1>1, <2>1, <2>3, <3>1 DEF Services
  <2> QED BY <1>1, <2>2, <2>3
<1>3. Opt' = Opt
  BY DEF Opt
<1>4. TypeOK'
  <2>1. pc' \in MainPcs
    BY DEF TypeOK, MainPcs
  <2>2. svc' \in Services
    BY <1>2
  <2> QED BY <2>1, <2>2 DEF TypeOK
<1>5. EarlyInv'
  <2> HIDE DEF take_pidlock, NoCtx
  <2> QED BY <1>1, <1>2, <1>3 DEF EarlyInv, BeforeLog, BeforeSignals, Calm
<1>6. InitInv'
  BY <1>1, <1>2, <1>3 DEF InitInv
<1>7. SvcInv'
  BY <1>1, <1>2, <1>3 DEF SvcInv, TypeOK, Services
<1>8. LockInv'
  BY DEF TypeOK, LockInv, SvcInv, EarlyInv, BeforeLog, BeforeSignals, Calm
<1>9. CtxInv'
  BY DEF TypeOK, CtxInv, Contexts, EarlyInv, BeforeLog, BeforeSignals, Calm
<1>10. CrashInv'
  BY DEF TypeOK, CrashInv, Untouched, Fresh, EarlyInv, BeforeLog, BeforeSignals, Calm
<1>11. AloneInv'
  BY DEF TypeOK, AloneInv, Alone, ReportInv, Claimed, CrashInv, Untouched, Fresh, Calm, EarlyInv,
      BeforeLog, BeforeSignals
<1> QED BY <1>4, <1>5, <1>6, <1>7, <1>8, <1>9, <1>10, <1>11

LEMMA SetLogStdioStep ==
  ASSUME IInv, set_log_stdio
  PROVE  IInv'
<1> USE AppAssumption DEF IInv, set_log_stdio, Step, Running, Threads, Gone, NoCtx
<1>1. Opt' = Opt
  BY DEF Opt
<1>2. TypeOK'
  <2>1. pc' \in MainPcs
    BY DEF MainPcs
  <2>2. log' \in Logs
    BY DEF TypeOK, Logs
  <2>3. lc' \in [Threads -> Contexts]
    <3>1. [NoCtx EXCEPT !.tsd = TRUE, !.lfile = "stdout"] \in Contexts
      BY DEF Contexts
    <3> QED BY <3>1 DEF TypeOK
  <2> QED BY <2>1, <2>2, <2>3 DEF TypeOK
<1>3. EarlyInv'
  BY <1>1, OptionsTaken DEF TypeOK, EarlyInv, BeforeLog, BeforeSignals, Calm
<1>4. InitInv'
  BY <1>1 DEF TypeOK, InitInv, EarlyInv, BeforeLog, BeforeSignals, Calm, Options
<1>5. SvcInv'
  BY <1>1 DEF TypeOK, Services, SvcInv, InitInv, EarlyInv, BeforeLog, BeforeSignals, Options
<1>6. LockInv'
  BY DEF TypeOK, LockInv, SvcInv, EarlyInv, BeforeLog, BeforeSignals, Calm
<1>7. CtxInv'
  BY DEF TypeOK, CtxInv, Contexts, EarlyInv, BeforeLog, BeforeSignals, Calm
<1>8. CrashInv'
  BY DEF TypeOK, CrashInv, Untouched, Fresh, EarlyInv, BeforeLog, BeforeSignals, Calm
<1>9. AloneInv'
  BY DEF TypeOK, AloneInv, Alone, ReportInv, Claimed, CrashInv, Untouched, Fresh, Calm, EarlyInv,
      BeforeLog, BeforeSignals
<1> QED BY <1>2, <1>3, <1>4, <1>5, <1>6, <1>7, <1>8, <1>9

LEMMA SetLogdirStep ==
  ASSUME IInv, set_logdir
  PROVE  IInv'
<1> USE AppAssumption DEF IInv, set_logdir, Step, Running, reserve_crash_log, try_logdir,
    Threads, Gone, NoCtx
<1>1. PICK d \in {"none", "part", "reserved", "unnamed"}, opened \in BOOLEAN :
       /\ opened => d = "reserved"
       /\ log' = IF d = "unnamed" THEN log ELSE try_logdir(d)
       /\ lc' = [lc EXCEPT ![Main] = [NoCtx EXCEPT !.tsd = TRUE,
                                                  !.lfile = IF opened THEN "own" ELSE "none"]]
       /\ logfile' = [logfile EXCEPT ![Main] = IF opened THEN "open" ELSE "none"]
       /\ ret' = (ret \/ ~opened)
  OBVIOUS
<1>2. Opt' = Opt
  BY DEF Opt
<1>3. TypeOK'
  <2>1. pc' \in MainPcs
    BY DEF TypeOK, MainPcs
  <2>2. ret' \in BOOLEAN
    BY DEF TypeOK
  <2>3. log' \in Logs
    BY <1>1 DEF TypeOK, Logs
  <2>4. lc' \in [Threads -> Contexts]
    <3>1. [NoCtx EXCEPT !.tsd = TRUE, !.lfile = IF opened THEN "own" ELSE "none"] \in Contexts
      BY DEF Contexts
    <3> QED BY <1>1, <3>1 DEF TypeOK
  <2>5. logfile' \in [Threads -> Files]
    BY DEF TypeOK, Files
  <2> QED BY <2>1, <2>2, <2>3, <2>4, <2>5 DEF TypeOK
<1>4. EarlyInv'
  BY <1>2, OptionsTaken DEF TypeOK, EarlyInv, BeforeLog, BeforeSignals, Calm
<1>5. InitInv'
  BY <1>2 DEF TypeOK, InitInv, EarlyInv, BeforeLog, BeforeSignals, Calm, Options
<1>6. SvcInv'
  BY <1>2 DEF TypeOK, Services, SvcInv, InitInv, EarlyInv, BeforeLog, BeforeSignals, Options
<1>7. LockInv'
  BY DEF TypeOK, LockInv, SvcInv, EarlyInv, BeforeLog, BeforeSignals, Calm
<1>8. CtxInv'
  BY DEF TypeOK, CtxInv, Contexts, EarlyInv, BeforeLog, BeforeSignals, Calm
<1>9. CrashInv'
  <2>1. /\ pc = "logging" /\ pc' = "fileconf" /\ crash' = crash /\ Calm
        /\ log.disk = "none" /\ ~log.crash_log /\ ~log.avail_crash_log
        /\ \A t \in Threads : lc[t] = NoCtx
    BY DEF EarlyInv, BeforeLog, BeforeSignals
  <2>2. \A t \in Threads : lc'[t].lfile # "crash"
    BY <1>1, <2>1 DEF TypeOK
  <2>3. Untouched' /\ Fresh'
    <3>1. CASE d = "unnamed"
      BY <1>1, <2>1, <3>1 DEF Untouched, Fresh, EarlyInv, BeforeLog
    <3>2. CASE d # "unnamed"
      BY <1>1, <2>1, <3>2 DEF Untouched, Fresh, TypeOK, Logs
    <3> QED BY <3>1, <3>2
  <2> QED BY <2>1, <2>2, <2>3 DEF CrashInv
<1>10. AloneInv'
  BY DEF TypeOK, AloneInv, Alone, ReportInv, Claimed, CrashInv, Untouched, Fresh, Calm, EarlyInv,
      BeforeLog, BeforeSignals
<1> QED BY <1>3, <1>4, <1>5, <1>6, <1>7, <1>8, <1>9, <1>10

LEMMA InitLoggingStep ==
  ASSUME IInv, init_logging
  PROVE  IInv'
<1> USE AppAssumption DEF IInv, init_logging, Step, Running, Threads, Gone, NoCtx
<1>1. Opt' = Opt
  BY DEF Opt
<1>2. TypeOK'
  <2>1. pc' \in MainPcs
    BY DEF TypeOK, MainPcs
  <2>2. ret' \in BOOLEAN
    BY DEF TypeOK
  <2>3. lc' \in [Threads -> Contexts]
    <3>1. PICK ok \in BOOLEAN : lc' = [lc EXCEPT ![Main] = [NoCtx EXCEPT !.tsd = TRUE, !.ustrings = ok]]
      OBVIOUS
    <3>2. [NoCtx EXCEPT !.tsd = TRUE, !.ustrings = ok] \in Contexts
      BY DEF Contexts
    <3> QED BY <3>1, <3>2 DEF TypeOK
  <2> QED BY <2>1, <2>2, <2>3 DEF TypeOK
<1>3. EarlyInv'
  BY <1>1, OptionsTaken DEF TypeOK, EarlyInv, BeforeLog, BeforeSignals, Calm
<1>4. InitInv'
  BY <1>1 DEF TypeOK, InitInv, EarlyInv, BeforeLog, BeforeSignals, Calm, Options
<1>5. SvcInv'
  BY <1>1 DEF TypeOK, Services, SvcInv, InitInv, EarlyInv, BeforeLog, BeforeSignals, Options
<1>6. LockInv'
  BY DEF TypeOK, LockInv, SvcInv, EarlyInv, BeforeLog, BeforeSignals, Calm
<1>7. CtxInv'
  BY DEF TypeOK, CtxInv, Contexts, EarlyInv, BeforeLog, BeforeSignals, Calm
<1>8. CrashInv'
  BY DEF TypeOK, CrashInv, Untouched, Fresh, EarlyInv, BeforeLog, BeforeSignals, Calm
<1>9. AloneInv'
  BY DEF TypeOK, AloneInv, Alone, ReportInv, Claimed, CrashInv, Untouched, Fresh, Calm, EarlyInv,
      BeforeLog, BeforeSignals
<1> QED BY <1>2, <1>3, <1>4, <1>5, <1>6, <1>7, <1>8, <1>9

LEMMA InitFileconfStep ==
  ASSUME IInv, init_fileconf
  PROVE  IInv'
<1> USE AppAssumption DEF IInv, init_fileconf, Step, Running, Threads, Gone, NoCtx
<1>1. /\ svc'.file = svc.file /\ svc'.fileconf /\ (~ret' => ~ret)
  BY DEF TypeOK, Services
<1>2. Opt' = Opt
  BY DEF Opt
<1>3. TypeOK'
  <2>1. pc' \in MainPcs
    BY DEF MainPcs
  <2>2. svc' \in Services
    BY DEF TypeOK, Services
  <2>3. ret' \in BOOLEAN
    BY DEF TypeOK
  <2> QED BY <2>1, <2>2, <2>3 DEF TypeOK
<1>4. EarlyInv'
  BY <1>2, OptionsTaken DEF TypeOK, EarlyInv, BeforeLog, BeforeSignals, Calm
<1>5. InitInv'
  BY <1>1, <1>2 DEF TypeOK, InitInv, Calm
<1>6. SvcInv'
  BY <1>2 DEF TypeOK, Services, SvcInv, InitInv, EarlyInv, BeforeLog, BeforeSignals, Options
<1>7. LockInv'
  BY DEF TypeOK, LockInv, SvcInv, EarlyInv, BeforeLog, BeforeSignals, Calm
<1>8. CtxInv'
  BY DEF TypeOK, CtxInv, Contexts, EarlyInv, BeforeLog, BeforeSignals, Calm
<1>9. CrashInv'
  BY DEF TypeOK, CrashInv, Untouched, Fresh, EarlyInv, BeforeLog, BeforeSignals, Calm
<1>10. AloneInv'
  BY DEF TypeOK, AloneInv, Alone, ReportInv, Claimed, CrashInv, Untouched, Fresh, Calm, EarlyInv,
      BeforeLog, BeforeSignals
<1> QED BY <1>3, <1>4, <1>5, <1>6, <1>7, <1>8, <1>9, <1>10

LEMMA CheckMemoryLimitStep ==
  ASSUME IInv, check_memory_limit
  PROVE  IInv'
<1> USE AppAssumption DEF IInv, check_memory_limit, Step, Running, Threads, Gone, NoCtx
<1>1. Opt' = Opt
  BY DEF Opt
<1>2. TypeOK'
  <2>1. pc' \in MainPcs
    BY DEF TypeOK, MainPcs
  <2>2. ret' \in BOOLEAN
    BY DEF TypeOK
  <2> QED BY <2>1, <2>2 DEF TypeOK
<1>3. EarlyInv'
  BY <1>1, OptionsTaken DEF TypeOK, EarlyInv, BeforeLog, BeforeSignals, Calm
<1>4. InitInv'
  BY <1>1 DEF TypeOK, InitInv, EarlyInv, BeforeLog, BeforeSignals, Calm, Options
<1>5. SvcInv'
  BY <1>1 DEF TypeOK, Services, SvcInv, InitInv, EarlyInv, BeforeLog, BeforeSignals, Options
<1>6. LockInv'
  BY DEF TypeOK, LockInv, SvcInv, EarlyInv, BeforeLog, BeforeSignals, Calm
<1>7. CtxInv'
  BY DEF TypeOK, CtxInv, Contexts, EarlyInv, BeforeLog, BeforeSignals, Calm
<1>8. CrashInv'
  BY DEF TypeOK, CrashInv, Untouched, Fresh, EarlyInv, BeforeLog, BeforeSignals, Calm
<1>9. AloneInv'
  BY DEF TypeOK, AloneInv, Alone, ReportInv, Claimed, CrashInv, Untouched, Fresh, Calm, EarlyInv,
      BeforeLog, BeforeSignals
<1> QED BY <1>2, <1>3, <1>4, <1>5, <1>6, <1>7, <1>8, <1>9

LEMMA InitSignalsStep ==
  ASSUME IInv, init_signals
  PROVE  IInv'
<1> USE AppAssumption DEF IInv, init_signals, Step, Running, handle_fatal_sigs, Threads, Gone,
    NoCtx
<1>1. Opt' = Opt
  BY DEF Opt
<1>2. TypeOK'
  <2>1. pc' \in MainPcs
    BY DEF TypeOK, MainPcs
  <2>2. ret' \in BOOLEAN
    BY DEF TypeOK
  <2>3. handlers' \subseteq Fatal
    BY DEF TypeOK
  <2> QED BY <2>1, <2>2, <2>3 DEF TypeOK
<1>3. EarlyInv'
  BY <1>1, OptionsTaken DEF TypeOK, EarlyInv, BeforeLog, BeforeSignals, Calm
<1>4. InitInv'
  BY <1>1 DEF TypeOK, InitInv, EarlyInv, BeforeLog, BeforeSignals, Calm, Options
<1>5. SvcInv'
  BY <1>1 DEF TypeOK, Services, SvcInv, InitInv, EarlyInv, BeforeLog, BeforeSignals, Options
<1>6. LockInv'
  BY DEF TypeOK, LockInv, SvcInv, EarlyInv, BeforeLog, BeforeSignals, Calm
<1>7. CtxInv'
  BY DEF TypeOK, CtxInv, Contexts, EarlyInv, BeforeLog, BeforeSignals, Calm
<1>8. CrashInv'
  BY DEF TypeOK, CrashInv, Untouched, Fresh, EarlyInv, BeforeLog, BeforeSignals, Calm
<1>9. AloneInv'
  BY DEF TypeOK, AloneInv, Alone, ReportInv, Claimed, CrashInv, Untouched, Fresh, Calm, EarlyInv,
      BeforeLog, BeforeSignals
<1> QED BY <1>2, <1>3, <1>4, <1>5, <1>6, <1>7, <1>8, <1>9

LEMMA InitCtlserverStep ==
  ASSUME IInv, init_ctlserver
  PROVE  IInv'
<1> USE AppAssumption DEF IInv, init_ctlserver, Step, Running, Threads, Gone, NoCtx
<1>1. /\ Opt \in Options /\ svc'.file = svc.file /\ svc'.fileconf = svc.fileconf
      /\ svc'.ctlsrvsocket = svc'.ctlserver /\ (svc'.logserver => svc'.ctlserver)
      /\ ~ret' => ~ret /\ svc'.ctlserver = Opt.c /\ svc'.logserver = Opt.c
  <2>1. Opt \in Options /\ ~svc.ctlserver /\ ~svc.logserver /\ svc.ctlsrvsocket = svc.ctlserver
    BY DEF EarlyInv, SvcInv
  <2>2. CASE ~Opt.c
    BY <2>1, <2>2 DEF TypeOK, Services, Options
  <2>3. CASE Opt.c
    <3>1. PICK up \in BOOLEAN, logs \in BOOLEAN :
            /\ logs => up
            /\ svc' = [svc EXCEPT !.ctlserver = up, !.ctlsrvsocket = up, !.logserver = logs]
            /\ ret' = (ret \/ ~up \/ ~logs)
      BY <2>3
    <3> QED BY <2>1, <2>3, <3>1 DEF TypeOK, Services, Options
  <2> QED BY <2>1, <2>2, <2>3
<1>2. /\ UNCHANGED <<args, log, logdir_lock, handlers, lc, logfile, tpc, crash>>
      /\ pc = "ctlserver" /\ pc' = "run"
  OBVIOUS
<1>3. Opt' = Opt
  BY DEF Opt
<1>4. TypeOK'
  <2>1. pc' \in MainPcs
    BY DEF TypeOK, MainPcs
  <2>2. ret' \in BOOLEAN
    BY DEF TypeOK
  <2>3. svc' \in Services
    BY DEF TypeOK, Services
  <2> QED BY <2>1, <2>2, <2>3 DEF TypeOK
<1>5. EarlyInv'
  BY <1>3, OptionsTaken DEF TypeOK, EarlyInv, BeforeLog, BeforeSignals, Calm
<1>6. InitInv'
  BY <1>1, <1>2, <1>3 DEF TypeOK, InitInv, Calm
<1>7. SvcInv'
  BY <1>1, <1>2, <1>3 DEF TypeOK, SvcInv, InitInv
<1>8. LockInv'
  BY DEF TypeOK, LockInv, SvcInv, EarlyInv, BeforeLog, BeforeSignals, Calm
<1>9. CtxInv'
  BY DEF TypeOK, CtxInv, Contexts, EarlyInv, BeforeLog, BeforeSignals, Calm
<1>10. CrashInv'
  <2> HIDE DEF init_ctlserver
  <2> QED BY <1>1, <1>2 DEF CrashInv, Untouched, Fresh, Calm
<1>11. AloneInv'
  <2>1. \A x \in Threads : ReportInv(x) => ReportInv(x)'
    BY <1>2 DEF ReportInv, Claimed, Untouched, Fresh
  <2> QED BY <1>1, <1>2, <2>1 DEF AloneInv, Alone
<1> QED BY <1>4, <1>5, <1>6, <1>7, <1>8, <1>9, <1>10, <1>11

LEMMA AppStopStep ==
  ASSUME IInv, app_stop
  PROVE  IInv'
<1> USE AppAssumption DEF IInv, app_stop, Step, Running, Threads, Gone, NoCtx
<1>1. Opt' = Opt
  BY DEF Opt
<1>2. TypeOK'
  <2>1. pc' \in MainPcs
    BY DEF MainPcs
  <2>2. svc' \in Services
    BY DEF TypeOK, Services
  <2>3. ret' \in BOOLEAN
    BY DEF TypeOK
  <2> QED BY <2>1, <2>2, <2>3 DEF TypeOK
<1>3. EarlyInv'
  BY <1>1, OptionsTaken DEF TypeOK, EarlyInv, BeforeLog, BeforeSignals, Calm
<1>4. InitInv'
  BY <1>1 DEF TypeOK, InitInv, EarlyInv, BeforeLog, BeforeSignals, Calm, Options
<1>5. SvcInv'
  BY <1>1 DEF TypeOK, Services, SvcInv, InitInv, EarlyInv, BeforeLog, BeforeSignals, Options
<1>6. LockInv'
  BY DEF TypeOK, LockInv, SvcInv, EarlyInv, BeforeLog, BeforeSignals, Calm
<1>7. CtxInv'
  BY DEF TypeOK, CtxInv, Contexts, EarlyInv, BeforeLog, BeforeSignals, Calm
<1>8. CrashInv'
  BY DEF TypeOK, CrashInv, Untouched, Fresh, EarlyInv, BeforeLog, BeforeSignals, Calm
<1>9. AloneInv'
  BY DEF TypeOK, AloneInv, Alone, ReportInv, Claimed, CrashInv, Untouched, Fresh, Calm, EarlyInv,
      BeforeLog, BeforeSignals
<1> QED BY <1>2, <1>3, <1>4, <1>5, <1>6, <1>7, <1>8, <1>9

LEMMA AppGivesUpStep ==
  ASSUME IInv, AppGivesUp
  PROVE  IInv'
<1> USE AppAssumption DEF IInv, AppGivesUp, Step, Running, Threads, Gone, NoCtx
<1>1. Opt' = Opt
  BY DEF Opt
<1>2. TypeOK'
  BY DEF TypeOK, MainPcs, Services, Logs, Contexts, Files, CrashPcs, WorkerPcs
<1>3. EarlyInv'
  BY <1>1, OptionsTaken DEF TypeOK, EarlyInv, BeforeLog, BeforeSignals, Calm
<1>4. InitInv'
  BY <1>1 DEF TypeOK, InitInv, EarlyInv, BeforeLog, BeforeSignals, Calm, Options
<1>5. SvcInv'
  BY <1>1 DEF TypeOK, Services, SvcInv, InitInv, EarlyInv, BeforeLog, BeforeSignals, Options
<1>6. LockInv'
  BY DEF TypeOK, LockInv, SvcInv, EarlyInv, BeforeLog, BeforeSignals, Calm
<1>7. CtxInv'
  BY DEF TypeOK, CtxInv, Contexts, EarlyInv, BeforeLog, BeforeSignals, Calm
<1>8. CrashInv'
  BY DEF TypeOK, CrashInv, Untouched, Fresh, EarlyInv, BeforeLog, BeforeSignals, Calm
<1>9. AloneInv'
  BY DEF TypeOK, AloneInv, Alone, ReportInv, Claimed, CrashInv, Untouched, Fresh, Calm, EarlyInv,
      BeforeLog, BeforeSignals
<1> QED BY <1>2, <1>3, <1>4, <1>5, <1>6, <1>7, <1>8, <1>9

LEMMA StopLogServerStep ==
  ASSUME IInv, stop_log_server
  PROVE  IInv'
<1> USE AppAssumption DEF IInv, stop_log_server, Step, Running, Threads, Gone, NoCtx
<1>1. Opt' = Opt
  BY DEF Opt
<1>2. TypeOK'
  <2>1. pc' \in MainPcs
    BY DEF TypeOK, MainPcs
  <2>2. svc' \in Services
    BY DEF TypeOK, Services
  <2>3. ret' \in BOOLEAN
    BY DEF TypeOK
  <2> QED BY <2>1, <2>2, <2>3 DEF TypeOK
<1>3. EarlyInv'
  BY <1>1, OptionsTaken DEF TypeOK, EarlyInv, BeforeLog, BeforeSignals, Calm
<1>4. InitInv'
  BY <1>1 DEF TypeOK, InitInv, EarlyInv, BeforeLog, BeforeSignals, Calm, Options
<1>5. SvcInv'
  BY <1>1 DEF TypeOK, Services, SvcInv, InitInv, EarlyInv, BeforeLog, BeforeSignals, Options
<1>6. LockInv'
  BY DEF TypeOK, LockInv, SvcInv, EarlyInv, BeforeLog, BeforeSignals, Calm
<1>7. CtxInv'
  BY DEF TypeOK, CtxInv, Contexts, EarlyInv, BeforeLog, BeforeSignals, Calm
<1>8. CrashInv'
  BY DEF TypeOK, CrashInv, Untouched, Fresh, EarlyInv, BeforeLog, BeforeSignals, Calm
<1>9. AloneInv'
  BY DEF TypeOK, AloneInv, Alone, ReportInv, Claimed, CrashInv, Untouched, Fresh, Calm, EarlyInv,
      BeforeLog, BeforeSignals
<1> QED BY <1>2, <1>3, <1>4, <1>5, <1>6, <1>7, <1>8, <1>9

LEMMA StopCtlserverStep ==
  ASSUME IInv, stop_ctlserver
  PROVE  IInv'
<1> USE AppAssumption DEF IInv, stop_ctlserver, Step, Running, Threads, Gone, NoCtx
<1>1. Opt' = Opt
  BY DEF Opt
<1>2. TypeOK'
  <2>1. pc' \in MainPcs
    BY DEF TypeOK, MainPcs
  <2>2. svc' \in Services
    BY DEF TypeOK, Services
  <2> QED BY <2>1, <2>2 DEF TypeOK
<1>3. EarlyInv'
  BY <1>1, OptionsTaken DEF TypeOK, EarlyInv, BeforeLog, BeforeSignals, Calm
<1>4. InitInv'
  BY <1>1 DEF TypeOK, InitInv, EarlyInv, BeforeLog, BeforeSignals, Calm, Options
<1>5. SvcInv'
  BY <1>1 DEF TypeOK, Services, SvcInv, InitInv, EarlyInv, BeforeLog, BeforeSignals, Options
<1>6. LockInv'
  BY DEF TypeOK, LockInv, SvcInv, EarlyInv, BeforeLog, BeforeSignals, Calm
<1>7. CtxInv'
  BY DEF TypeOK, CtxInv, Contexts, EarlyInv, BeforeLog, BeforeSignals, Calm
<1>8. CrashInv'
  BY DEF TypeOK, CrashInv, Untouched, Fresh, EarlyInv, BeforeLog, BeforeSignals, Calm
<1>9. AloneInv'
  BY DEF TypeOK, AloneInv, Alone, ReportInv, Claimed, CrashInv, Untouched, Fresh, Calm, EarlyInv,
      BeforeLog, BeforeSignals
<1> QED BY <1>2, <1>3, <1>4, <1>5, <1>6, <1>7, <1>8, <1>9

LEMMA PurgeLockfileStep ==
  ASSUME IInv, purge_lockfile
  PROVE  IInv'
<1> USE AppAssumption DEF IInv, purge_lockfile, Step, Running, Threads, Gone, NoCtx
<1>1. Opt' = Opt
  BY DEF Opt
<1>2. TypeOK'
  <2>1. pc' \in MainPcs
    BY DEF MainPcs
  <2>2. svc' \in Services /\ ret' \in BOOLEAN
    <3>1. PICK ok \in BOOLEAN :
            /\ svc' = [svc EXCEPT !.lockfile = FALSE, !.file = @ /\ svc.lockfile /\ ~ok,
                                  !.stuck = svc.lockfile /\ ~ok]
            /\ ret' = (ret \/ (svc.lockfile /\ ~ok))
      OBVIOUS
    <3> QED BY <3>1 DEF TypeOK, Services
  <2> QED BY <2>1, <2>2 DEF TypeOK
<1>3. EarlyInv'
  BY <1>1, OptionsTaken DEF TypeOK, EarlyInv, BeforeLog, BeforeSignals, Calm
<1>4. InitInv'
  BY <1>1 DEF TypeOK, InitInv, EarlyInv, BeforeLog, BeforeSignals, Calm, Options
<1>5. SvcInv'
  BY <1>1 DEF TypeOK, Services, SvcInv, InitInv, EarlyInv, BeforeLog, BeforeSignals, Options
<1>6. LockInv'
  BY DEF TypeOK, LockInv, SvcInv, EarlyInv, BeforeLog, BeforeSignals, Calm
<1>7. CtxInv'
  BY DEF TypeOK, CtxInv, Contexts, EarlyInv, BeforeLog, BeforeSignals, Calm
<1>8. CrashInv'
  BY DEF TypeOK, CrashInv, Untouched, Fresh, EarlyInv, BeforeLog, BeforeSignals, Calm
<1>9. AloneInv'
  BY DEF TypeOK, AloneInv, Alone, ReportInv, Claimed, CrashInv, Untouched, Fresh, Calm, EarlyInv,
      BeforeLog, BeforeSignals
<1> QED BY <1>2, <1>3, <1>4, <1>5, <1>6, <1>7, <1>8, <1>9

LEMMA StopLoggingAtExitStep ==
  ASSUME IInv, StopLoggingAtExit
  PROVE  IInv'
<1> USE AppAssumption DEF IInv, StopLoggingAtExit, Step, Running, Threads, Gone, NoCtx
<1>1. IF logdir_lock = None THEN pc' = "truncate"
      ELSE pc' = "exited" /\ ~Calm
  BY DEF LockInv, Calm, TypeOK
<1>2. Opt' = Opt
  BY DEF Opt
<1>3. TypeOK'
  BY DEF TypeOK, MainPcs, Services, Logs, Contexts, Files, CrashPcs, WorkerPcs
<1>4. EarlyInv'
  BY <1>2, OptionsTaken DEF TypeOK, EarlyInv, BeforeLog, BeforeSignals, Calm
<1>5. InitInv'
  BY <1>2 DEF TypeOK, InitInv, EarlyInv, BeforeLog, BeforeSignals, Calm, Options
<1>6. SvcInv'
  BY <1>2 DEF TypeOK, Services, SvcInv, InitInv, EarlyInv, BeforeLog, BeforeSignals, Options
<1>7. LockInv'
  BY DEF TypeOK, LockInv, SvcInv, EarlyInv, BeforeLog, BeforeSignals, Calm
<1>8. CtxInv'
  BY <1>1 DEF TypeOK, CtxInv, BeforeLog, Calm
<1>9. CrashInv'
  BY <1>1 DEF TypeOK, CrashInv, Untouched, Fresh, Calm
<1>10. AloneInv'
  BY DEF TypeOK, AloneInv, Alone, ReportInv, Claimed, CrashInv, Untouched, Fresh, Calm, EarlyInv,
      BeforeLog, BeforeSignals
<1> QED BY <1>3, <1>4, <1>5, <1>6, <1>7, <1>8, <1>9, <1>10

LEMMA TruncateCrashLogStep ==
  ASSUME IInv, truncate_crash_log
  PROVE  IInv'
<1> USE AppAssumption DEF IInv, truncate_crash_log, Step, Running, truncate_crash_log_locked,
    Threads, Gone, NoCtx
<1>1. PICK x \in Files :
        /\ logfile' = [logfile EXCEPT ![Main] = x] /\ x # "open"
  <2>1. lc[Main].lfile = "own" \/ logfile[Main] # "open"
    BY DEF CtxInv
  <2>2. PICK x \in Closed(Main) : logfile' = [logfile EXCEPT ![Main] = x]
    OBVIOUS
  <2>3. x \in Files /\ x # "open"
    BY <2>1, <2>2 DEF Closed, TypeOK, Files
  <2> QED BY <2>2, <2>3
<1>2. /\ lc[Main].tsd /\ lc[Main].lfile # "crash" /\ crash[Main] = "no" /\ ~svc.fileconf
      /\ ~log'.crash_log
      /\ log'.avail_crash_log <=> (log.avail_crash_log /\ ~log.crash_log)
      /\ log'.disk \in IF log.crash_log /\ log.avail_crash_log THEN {"none", "kept"} ELSE {log.disk}
      /\ log' \in Logs
      /\ lc'[Main].tsd /\ lc'[Main].lfile = "none"
      /\ \A t \in Threads \ {Main} : lc'[t] = lc[t]
  <2>1. lc[Main].tsd /\ lc[Main].lfile # "crash" /\ crash[Main] = "no" /\ ~svc.fileconf
    BY DEF CtxInv, CrashInv, SvcInv, BeforeLog
  <2>2. PICK disk \in IF log.crash_log /\ log.avail_crash_log THEN {"none", "kept"} ELSE {log.disk} :
          log' = [log EXCEPT !.logdir = FALSE, !.crash_log = FALSE, !.disk = disk,
                    !.avail_crash_log = @ /\ ~(log.crash_log /\ lc[Main].tsd /\ log.avail_crash_log)]
    BY <2>1
  <2>3. /\ log' \in Logs /\ ~log'.crash_log /\ log'.disk = disk
        /\ log'.avail_crash_log <=> (log.avail_crash_log /\ ~log.crash_log)
    BY <2>1, <2>2 DEF TypeOK, Logs
  <2>4. /\ lc'[Main].tsd /\ lc'[Main].lfile = "none"
        /\ \A t \in Threads \ {Main} : lc'[t] = lc[t]
    <3>1. lc' = [lc EXCEPT ![Main] = [[lc[Main] EXCEPT !.lfile = "none"] EXCEPT !.ustrings = FALSE]]
      BY DEF TypeOK
    <3>2. lc \in [Threads -> Contexts] /\ lc[Main] \in Contexts
      BY DEF TypeOK
    <3> HIDE DEF truncate_crash_log, truncate_crash_log_locked, IInv, NoCtx
    <3>3. \A t \in Threads \ {Main} : lc'[t] = lc[t]
      BY <3>1, <3>2
    <3>4. lc'[Main] = [[lc[Main] EXCEPT !.lfile = "none"] EXCEPT !.ustrings = FALSE]
      BY <3>1, <3>2
    <3>5. lc'[Main].tsd /\ lc'[Main].lfile = "none"
      BY <2>1, <3>2, <3>4 DEF Contexts
    <3> QED BY <3>3, <3>5
  <2> QED BY <2>1, <2>2, <2>3, <2>4
<1>3. UNCHANGED <<args, ret, svc, handlers, tpc, crash>> /\ pc = "truncate" /\ pc' = "exit"
  OBVIOUS
<1>4. Opt' = Opt
  BY DEF Opt
<1>5. TypeOK'
  <2>1. pc' \in MainPcs
    BY DEF TypeOK, MainPcs
  <2>2. log' \in Logs
    BY <1>2
  <2>3. lc' \in [Threads -> Contexts]
    <3>1. [[lc[Main] EXCEPT !.lfile = "none"] EXCEPT !.ustrings = FALSE] \in Contexts
      <4>1. PICK r \in Contexts : r = lc[Main]
        BY DEF TypeOK
      <4>2. [[r EXCEPT !.lfile = "none"] EXCEPT !.ustrings = FALSE] \in Contexts
        BY DEF Contexts
      <4> QED BY <4>1, <4>2
    <3>2. lc' = [lc EXCEPT ![Main] = [[lc[Main] EXCEPT !.lfile = "none"] EXCEPT !.ustrings = FALSE]]
      BY DEF TypeOK
    <3> QED BY <3>1, <3>2 DEF TypeOK
  <2>4. logdir_lock' \in Threads \cup {None}
    BY DEF TypeOK
  <2>5. logfile' \in [Threads -> Files]
    BY <1>1 DEF TypeOK
  <2> QED BY <2>1, <2>2, <2>3, <2>4, <2>5 DEF TypeOK
<1>6. EarlyInv'
  BY <1>4, OptionsTaken DEF TypeOK, EarlyInv, BeforeLog, BeforeSignals, Calm
<1>7. InitInv'
  BY <1>4 DEF TypeOK, InitInv, EarlyInv, BeforeLog, BeforeSignals, Calm, Options
<1>8. SvcInv'
  BY <1>4 DEF TypeOK, Services, SvcInv, InitInv, EarlyInv, BeforeLog, BeforeSignals, Options
<1>9. LockInv'
  BY DEF TypeOK, LockInv, SvcInv, EarlyInv, BeforeLog, BeforeSignals, Calm
<1>10. CtxInv'
  BY <1>1, <1>2, <1>3 DEF TypeOK, CtxInv, BeforeLog, Calm
<1>11. CrashInv'
  <2>1. Calm' => Untouched' /\ log'.disk # "reserved"
    BY <1>2, <1>3 DEF CrashInv, Untouched, Fresh, Calm
  <2>2. ASSUME NEW t \in Threads, lc'[t].lfile = "crash"
        PROVE  /\ crash[t] \in {"oops", "stop", "truncate", "raise"} /\ lc'[t].tsd
               /\ log'.disk \in {"reserved", "report"} /\ ~log'.avail_crash_log
               /\ \A u \in Threads : lc'[u].lfile = "crash" => u = t
    <3>1. t # Main /\ lc'[t] = lc[t]
      BY <1>2, <2>2
    <3>2. ASSUME NEW u \in Threads, lc'[u].lfile = "crash" PROVE lc[u].lfile = "crash"
      BY <1>2, <3>2
    <3> HIDE DEF truncate_crash_log, truncate_crash_log_locked
    <3> QED BY <1>2, <2>2, <3>1, <3>2 DEF CrashInv
  <2>3. log'.avail_crash_log => log'.disk = "reserved"
    BY <1>2 DEF CrashInv
  <2>4. ~svc'.fileconf /\ pc' = "exit" /\ (Calm' => log'.disk # "reserved")
    BY <1>2, <1>3, <2>1 DEF CrashInv, Untouched, Calm
  <2> HIDE DEF truncate_crash_log, truncate_crash_log_locked
  <2> QED BY <1>3, <2>1, <2>2, <2>3, <2>4 DEF CrashInv
<1>12. AloneInv'
  BY <1>2, <1>3 DEF AloneInv, Alone
<1> QED BY <1>5, <1>6, <1>7, <1>8, <1>9, <1>10, <1>11, <1>12

LEMMA ExitStep ==
  ASSUME IInv, Exit
  PROVE  IInv'
<1> USE AppAssumption DEF IInv, Exit, Step, Running, Threads, Gone, NoCtx
<1>1. Opt' = Opt
  BY DEF Opt
<1>2. TypeOK'
  BY DEF TypeOK, MainPcs, Services, Logs, Contexts, Files, CrashPcs, WorkerPcs
<1>3. EarlyInv'
  BY <1>1, OptionsTaken DEF TypeOK, EarlyInv, BeforeLog, BeforeSignals, Calm
<1>4. InitInv'
  BY <1>1 DEF TypeOK, InitInv, EarlyInv, BeforeLog, BeforeSignals, Calm, Options
<1>5. SvcInv'
  BY <1>1 DEF TypeOK, Services, SvcInv, InitInv, EarlyInv, BeforeLog, BeforeSignals, Options
<1>6. LockInv'
  BY DEF TypeOK, LockInv, SvcInv, EarlyInv, BeforeLog, BeforeSignals, Calm
<1>7. CtxInv'
  BY DEF TypeOK, CtxInv, Contexts, EarlyInv, BeforeLog, BeforeSignals, Calm
<1>8. CrashInv'
  BY DEF TypeOK, CrashInv, Untouched, Fresh, EarlyInv, BeforeLog, BeforeSignals, Calm
<1>9. AloneInv'
  BY DEF TypeOK, AloneInv, Alone, ReportInv, Claimed, CrashInv, Untouched, Fresh, Calm, EarlyInv,
      BeforeLog, BeforeSignals
<1> QED BY <1>2, <1>3, <1>4, <1>5, <1>6, <1>7, <1>8, <1>9

LEMMA InitThreadLogctxStep ==
  ASSUME IInv, NEW w \in Workers, NEW cleanup \in BOOLEAN, init_thread_logctx(w, cleanup)
  PROVE  IInv'
<1> USE AppAssumption DEF IInv, init_thread_logctx, Step, Running, Threads, Gone, NoCtx
<1>1. Opt' = Opt
  BY DEF Opt
<1>2. TypeOK'
  <2>1. tpc' \in [Workers -> WorkerPcs]
    BY DEF TypeOK, WorkerPcs
  <2>2. lc' \in [Threads -> Contexts]
    <3>1. [NoCtx EXCEPT !.tsd = TRUE, !.cleanup = cleanup] \in Contexts
      BY DEF Contexts
    <3> QED BY <3>1 DEF TypeOK
  <2> QED BY <2>1, <2>2 DEF TypeOK
<1>3. EarlyInv'
  BY <1>1, OptionsTaken DEF TypeOK, EarlyInv, BeforeLog, BeforeSignals, Calm
<1>4. InitInv'
  BY <1>1 DEF TypeOK, InitInv, EarlyInv, BeforeLog, BeforeSignals, Calm, Options
<1>5. SvcInv'
  BY <1>1 DEF TypeOK, Services, SvcInv, InitInv, EarlyInv, BeforeLog, BeforeSignals, Options
<1>6. LockInv'
  BY DEF TypeOK, LockInv, SvcInv, EarlyInv, BeforeLog, BeforeSignals, Calm
<1>7. CtxInv'
  BY DEF TypeOK, CtxInv, Contexts, EarlyInv, BeforeLog, BeforeSignals, Calm
<1>8. CrashInv'
  BY DEF TypeOK, CrashInv, Untouched, Fresh, EarlyInv, BeforeLog, BeforeSignals, Calm
<1>9. AloneInv'
  <2>1. crash[w] = "no" /\ \A x \in Threads \ {w} : lc'[x] = lc[x]
    BY DEF CtxInv, TypeOK
  <2>2. UNCHANGED <<svc, log, crash>>
    OBVIOUS
  <2>3. \A x \in Threads : ReportInv(x) => ReportInv(x)'
    BY <2>1, <2>2 DEF ReportInv, Claimed, Untouched, Fresh
  <2> QED BY <2>2, <2>3 DEF AloneInv, Alone
<1> QED BY <1>2, <1>3, <1>4, <1>5, <1>6, <1>7, <1>8, <1>9

LEMMA OpenThreadLogStep ==
  ASSUME IInv, NEW w \in Workers, open_thread_log(w)
  PROVE  IInv'
<1> USE AppAssumption DEF IInv, open_thread_log, Threads, Gone, NoCtx
<1>1. Opt' = Opt
  BY DEF Opt
<1>2. TypeOK'
  BY DEF TypeOK, MainPcs, Services, Logs, Contexts, Files, CrashPcs, WorkerPcs
<1>3. EarlyInv'
  BY <1>1, OptionsTaken DEF TypeOK, EarlyInv, BeforeLog, BeforeSignals, Calm
<1>4. InitInv'
  BY <1>1 DEF TypeOK, InitInv, EarlyInv, BeforeLog, BeforeSignals, Calm, Options
<1>5. SvcInv'
  BY <1>1 DEF TypeOK, Services, SvcInv, InitInv, EarlyInv, BeforeLog, BeforeSignals, Options
<1>6. LockInv'
  BY DEF TypeOK, LockInv, SvcInv, EarlyInv, BeforeLog, BeforeSignals, Calm
<1>7. CtxInv'
  BY DEF TypeOK, CtxInv, Contexts, EarlyInv, BeforeLog, BeforeSignals, Calm
<1>8. CrashInv'
  BY DEF TypeOK, CrashInv, Untouched, Fresh, EarlyInv, BeforeLog, BeforeSignals, Calm
<1>9. AloneInv'
  BY DEF TypeOK, AloneInv, Alone, ReportInv, Claimed, CrashInv, Untouched, Fresh, Calm, EarlyInv,
      BeforeLog, BeforeSignals
<1> QED BY <1>2, <1>3, <1>4, <1>5, <1>6, <1>7, <1>8, <1>9

LEMMA OpenLogfileStep ==
  ASSUME IInv, NEW w \in Workers, open_logfile(w)
  PROVE  IInv'
<1> USE AppAssumption DEF IInv, open_logfile, Threads, Gone, NoCtx
<1>1. Opt' = Opt
  BY DEF Opt
<1>2. TypeOK'
  BY DEF TypeOK, MainPcs, Services, Logs, Contexts, Files, CrashPcs, WorkerPcs
<1>3. EarlyInv'
  BY <1>1, OptionsTaken DEF TypeOK, EarlyInv, BeforeLog, BeforeSignals, Calm
<1>4. InitInv'
  BY <1>1 DEF TypeOK, InitInv, EarlyInv, BeforeLog, BeforeSignals, Calm, Options
<1>5. SvcInv'
  BY <1>1 DEF TypeOK, Services, SvcInv, InitInv, EarlyInv, BeforeLog, BeforeSignals, Options
<1>6. LockInv'
  BY DEF TypeOK, LockInv, SvcInv, EarlyInv, BeforeLog, BeforeSignals, Calm
<1>7. CtxInv'
  BY DEF TypeOK, CtxInv, Contexts, EarlyInv, BeforeLog, BeforeSignals, Calm
<1>8. CrashInv'
  <2>1. UNCHANGED <<log, crash, pc>> /\ crash[w] = "no"
    OBVIOUS
  <2>2. \A t \in Threads : lc'[t].lfile = "crash" => lc'[t] = lc[t]
    <3>1. CASE lc' = [lc EXCEPT ![w].lfile = "own"]
      BY <3>1 DEF TypeOK, Contexts
    <3>2. CASE lc' = lc
      BY <3>2
    <3> QED BY <3>1, <3>2
  <2> QED BY <2>1, <2>2 DEF CrashInv, Untouched, Fresh, Calm
<1>9. AloneInv'
  BY DEF TypeOK, AloneInv, Alone, ReportInv, Claimed, CrashInv, Untouched, Fresh, Calm, EarlyInv,
      BeforeLog, BeforeSignals
<1> QED BY <1>2, <1>3, <1>4, <1>5, <1>6, <1>7, <1>8, <1>9

LEMMA FreeLogctxStep ==
  ASSUME IInv, NEW w \in Workers, free_logctx(w)
  PROVE  IInv'
<1> USE AppAssumption DEF IInv, free_logctx, Closed, Threads, Gone, NoCtx
<1>1. Opt' = Opt
  BY DEF Opt
<1>2. TypeOK'
  <2>1. tpc' \in [Workers -> WorkerPcs]
    BY DEF TypeOK, WorkerPcs
  <2>2. lc' \in [Threads -> Contexts]
    BY DEF TypeOK, Contexts
  <2>3. logfile' \in [Threads -> Files]
    BY DEF TypeOK, Files
  <2> QED BY <2>1, <2>2, <2>3 DEF TypeOK
<1>3. EarlyInv'
  BY <1>1, OptionsTaken DEF TypeOK, EarlyInv, BeforeLog, BeforeSignals, Calm
<1>4. InitInv'
  BY <1>1 DEF TypeOK, InitInv, EarlyInv, BeforeLog, BeforeSignals, Calm, Options
<1>5. SvcInv'
  BY <1>1 DEF TypeOK, Services, SvcInv, InitInv, EarlyInv, BeforeLog, BeforeSignals, Options
<1>6. LockInv'
  BY DEF TypeOK, LockInv, SvcInv, EarlyInv, BeforeLog, BeforeSignals, Calm
<1>7. CtxInv'
  BY DEF TypeOK, CtxInv, Contexts, EarlyInv, BeforeLog, BeforeSignals, Calm
<1>8. CrashInv'
  BY DEF TypeOK, CrashInv, Untouched, Fresh, EarlyInv, BeforeLog, BeforeSignals, Calm
<1>9. AloneInv'
  BY DEF TypeOK, AloneInv, Alone, ReportInv, Claimed, CrashInv, Untouched, Fresh, Calm, EarlyInv,
      BeforeLog, BeforeSignals
<1> QED BY <1>2, <1>3, <1>4, <1>5, <1>6, <1>7, <1>8, <1>9

LEMMA RaiseStep ==
  ASSUME IInv, NEW t \in Threads, NEW s \in Fatal, Raise(t, s)
  PROVE  IInv'
<1> USE AppAssumption DEF IInv, Raise, Alive, Threads, Gone, NoCtx
<1>1. Opt' = Opt
  BY DEF Opt
<1>2. TypeOK'
  BY DEF TypeOK, MainPcs, Services, Logs, Contexts, Files, CrashPcs, WorkerPcs
<1>3. EarlyInv'
  BY <1>1, OptionsTaken DEF TypeOK, EarlyInv, BeforeLog, BeforeSignals, Calm
<1>4. InitInv'
  BY <1>1 DEF TypeOK, InitInv, EarlyInv, BeforeLog, BeforeSignals, Calm, Options
<1>5. SvcInv'
  BY <1>1 DEF TypeOK, Services, SvcInv, InitInv, EarlyInv, BeforeLog, BeforeSignals, Options
<1>6. LockInv'
  BY DEF TypeOK, LockInv, SvcInv, EarlyInv, BeforeLog, BeforeSignals, Calm
<1>7. CtxInv'
  BY DEF TypeOK, CtxInv, Contexts, EarlyInv, BeforeLog, BeforeSignals, Calm
<1>8. CrashInv'
  BY DEF TypeOK, CrashInv, Untouched, Fresh, EarlyInv, BeforeLog, BeforeSignals, Calm
<1>9. AloneInv'
  BY DEF TypeOK, AloneInv, Alone, ReportInv, Claimed, CrashInv, Untouched, Fresh, Calm, EarlyInv,
      BeforeLog, BeforeSignals
<1> QED BY <1>2, <1>3, <1>4, <1>5, <1>6, <1>7, <1>8, <1>9

LEMMA LogWriteFailsStep ==
  ASSUME IInv, NEW t \in Threads, LogWriteFails(t)
  PROVE  IInv'
<1> USE AppAssumption DEF IInv, Threads, Gone, NoCtx
<1>1. /\ UNCHANGED <<args, heap, pc, ret, svc, log, logdir_lock, handlers, tpc, crash>>
      /\ pc \notin Gone /\ lc[t].lfile \in {"own", "stdout"}
      /\ lc' \in [Threads -> Contexts] /\ logfile' \in [Threads -> Files]
      /\ \A u \in Threads \ {t} : lc'[u] = lc[u] /\ logfile'[u] = logfile[u]
      /\ lc'[t].lfile = "none" /\ lc'[t].tsd = lc[t].tsd /\ lc'[t].cleanup = lc[t].cleanup
      /\ logfile'[t] = IF lc[t].lfile = "own" THEN "left" ELSE logfile[t]
  <2>1. [lc[t] EXCEPT !.lfile = "none"] \in Contexts
    BY DEF TypeOK, Contexts
  <2>2. lc' \in [Threads -> Contexts]
    BY <2>1 DEF TypeOK, LogWriteFails
  <2>3. logfile' \in [Threads -> Files]
    BY DEF TypeOK, Files, LogWriteFails
  <2> QED BY <2>2, <2>3 DEF TypeOK, Contexts, LogWriteFails
<1>2. Opt' = Opt
  BY <1>1 DEF Opt
<1>3. TypeOK'
  BY <1>1 DEF TypeOK
<1>4. EarlyInv'
  BY <1>1, <1>2 DEF EarlyInv, BeforeLog, BeforeSignals, Calm
<1>5. InitInv'
  BY <1>1, <1>2 DEF InitInv, Calm
<1>6. SvcInv'
  BY <1>1, <1>2 DEF SvcInv
<1>7. LockInv'
  BY <1>1 DEF LockInv
<1>8. CtxInv'
  BY <1>1 DEF CtxInv, Calm, BeforeLog
<1>9. CrashInv'
  BY <1>1 DEF CrashInv, Calm, Untouched, Fresh
<1>10. AloneInv'
  BY <1>1 DEF AloneInv, Alone, ReportInv, Claimed, Untouched, Fresh
<1> QED BY <1>3, <1>4, <1>5, <1>6, <1>7, <1>8, <1>9, <1>10

LEMMA LogCrashStep ==
  ASSUME IInv, NEW t \in Threads, log_crash(t)
  PROVE  IInv'
<1> USE AppAssumption DEF IInv, log_crash, Threads, Gone, NoCtx
<1>1. Opt' = Opt
  BY DEF Opt
<1>2. TypeOK'
  BY DEF TypeOK, MainPcs, Services, Logs, Contexts, Files, CrashPcs, WorkerPcs
<1>3. EarlyInv'
  BY <1>1, OptionsTaken DEF TypeOK, EarlyInv, BeforeLog, BeforeSignals, Calm
<1>4. InitInv'
  BY <1>1 DEF TypeOK, InitInv, EarlyInv, BeforeLog, BeforeSignals, Calm, Options
<1>5. SvcInv'
  BY <1>1 DEF TypeOK, Services, SvcInv, InitInv, EarlyInv, BeforeLog, BeforeSignals, Options
<1>6. LockInv'
  BY DEF TypeOK, LockInv, SvcInv, EarlyInv, BeforeLog, BeforeSignals, Calm
<1>7. CtxInv'
  BY DEF TypeOK, CtxInv, Contexts, EarlyInv, BeforeLog, BeforeSignals, Calm
<1>8. CrashInv'
  BY DEF TypeOK, CrashInv, Untouched, Fresh, EarlyInv, BeforeLog, BeforeSignals, Calm
<1>9. AloneInv'
  <2>1. SUFFICES ASSUME NEW x \in Threads, Alone(x)' PROVE ReportInv(x)'
    BY DEF AloneInv
  <2>2. x = t /\ Alone(t) /\ ReportInv(t)
    BY <2>1 DEF Alone, AloneInv, TypeOK
  <2>3. logdir_lock \in {None, t}
    BY <2>2 DEF LockInv, Alone, TypeOK
  <2>4. logdir_lock = None
    BY <2>2, <2>3 DEF LockInv, Alone
  <2> QED BY <2>2, <2>4 DEF ReportInv, Untouched, Fresh, TypeOK
<1> QED BY <1>2, <1>3, <1>4, <1>5, <1>6, <1>7, <1>8, <1>9

LEMMA GetCrashLogStep ==
  ASSUME IInv, NEW t \in Threads, get_crash_log(t)
  PROVE  IInv'
<1> USE AppAssumption DEF IInv, get_crash_log, Threads, Gone, NoCtx
<1>1. /\ crash[t] = "claiming" /\ crash' = [crash EXCEPT ![t] = "oops"] /\ UNCHANGED <<pc, svc>>
      /\ ~log'.avail_crash_log /\ log'.disk = log.disk /\ log'.crash_log = log.crash_log
      /\ lc[t].lfile # "crash"
      /\ \A x \in Threads \ {t} : lc'[x] = lc[x]
      /\ IF log.avail_crash_log THEN lc'[t].lfile = "crash" /\ lc'[t].tsd ELSE lc'[t].lfile # "crash"
  <2>1. lc[t].lfile # "crash"
    BY DEF CrashInv
  <2> QED BY <2>1 DEF TypeOK, Logs, Contexts
<1>2. Opt' = Opt
  BY DEF Opt
<1>3. TypeOK'
  <2>1. log' \in Logs
    BY DEF TypeOK, Logs
  <2>2. lc' \in [Threads -> Contexts]
    BY DEF TypeOK, Contexts
  <2>3. logdir_lock' \in Threads \cup {None}
    BY DEF TypeOK
  <2>4. crash' \in [Threads -> CrashPcs]
    BY DEF TypeOK, CrashPcs
  <2> QED BY <2>1, <2>2, <2>3, <2>4 DEF TypeOK
<1>4. EarlyInv'
  BY <1>2, OptionsTaken DEF TypeOK, EarlyInv, BeforeLog, BeforeSignals, Calm
<1>5. InitInv'
  BY <1>2 DEF TypeOK, InitInv, EarlyInv, BeforeLog, BeforeSignals, Calm, Options
<1>6. SvcInv'
  BY <1>2 DEF TypeOK, Services, SvcInv, InitInv, EarlyInv, BeforeLog, BeforeSignals, Options
<1>7. LockInv'
  BY DEF TypeOK, LockInv, SvcInv, EarlyInv, BeforeLog, BeforeSignals, Calm
<1>8. CtxInv'
  BY DEF TypeOK, CtxInv, Contexts, EarlyInv, BeforeLog, BeforeSignals, Calm
<1>9. CrashInv'
  <2>1. ~Calm' /\ crash'[t] = "oops" /\ \A x \in Threads \ {t} : crash'[x] = crash[x]
    BY <1>1 DEF TypeOK, Calm
  <2>2. CASE log.avail_crash_log
    <3>1. \A x \in Threads : lc'[x].lfile = "crash" => x = t
      BY <1>1, <2>2 DEF CrashInv
    <3>2. log.disk = "reserved"
      BY <2>2 DEF CrashInv
    <3> QED BY <1>1, <2>1, <2>2, <3>1, <3>2 DEF CrashInv
  <2>3. CASE ~log.avail_crash_log
    <3>1. \A x \in Threads : lc'[x].lfile = "crash" => x # t /\ lc'[x] = lc[x] /\ crash'[x] = crash[x]
      BY <1>1, <2>1, <2>3
    <3> QED BY <1>1, <2>1, <3>1 DEF CrashInv
  <2> QED BY <2>2, <2>3
<1>10. AloneInv'
  <2>1. SUFFICES ASSUME NEW x \in Threads, Alone(x)' PROVE ReportInv(x)'
    BY DEF AloneInv
  <2>2. x = t /\ Alone(t) /\ ReportInv(t)
    BY <1>1, <2>1 DEF Alone, AloneInv, TypeOK
  <2>3. Untouched
    BY <1>1, <2>2 DEF ReportInv
  <2> QED BY <1>1, <2>2, <2>3 DEF ReportInv, Claimed, Untouched, Fresh, TypeOK
<1> QED BY <1>3, <1>4, <1>5, <1>6, <1>7, <1>8, <1>9, <1>10

LEMMA LogOopsStep ==
  ASSUME IInv, NEW t \in Threads, log_oops(t)
  PROVE  IInv'
<1> USE AppAssumption DEF IInv, log_oops, Threads, Gone, NoCtx
<1>1. Opt' = Opt
  BY DEF Opt
<1>2. /\ crash[t] = "oops" /\ crash' = [crash EXCEPT ![t] = "stop"]
      /\ UNCHANGED <<args, pc, ret, svc, logdir_lock, heap, handlers, logfile, tpc>>
      /\ log' \in Logs /\ lc' \in [Threads -> Contexts]
      /\ log'.avail_crash_log = log.avail_crash_log /\ log'.reserved = log.reserved
      /\ log'.crash_log = log.crash_log /\ log'.use_stdio = log.use_stdio
      /\ lc'[t].tsd = lc[t].tsd /\ \A u \in Threads \ {t} : lc'[u] = lc[u]
      /\ \/ lc[t].lfile # "crash" /\ log'.disk = log.disk /\ lc'[t].lfile = lc[t].lfile
         \/ lc[t].lfile = "crash" /\ log'.disk = "report" /\ lc'[t].lfile = "crash"
         \/ lc[t].lfile = "crash" /\ log'.disk = "short" /\ lc'[t].lfile = "none"
  <2>1. CASE lc[t].lfile # "crash"
    BY <2>1 DEF TypeOK
  <2>2. CASE lc[t].lfile = "crash" /\ log' = [log EXCEPT !.disk = "report"] /\ UNCHANGED lc
    BY <2>2 DEF TypeOK, Logs
  <2>3. CASE lc[t].lfile = "crash" /\ log' = [log EXCEPT !.disk = "short"]
             /\ lc' = [lc EXCEPT ![t].lfile = "none"]
    <3>1. log' \in Logs
      BY <2>3 DEF TypeOK, Logs
    <3>2. [lc[t] EXCEPT !.lfile = "none"] \in Contexts
      BY DEF TypeOK, Contexts
    <3>3. lc' \in [Threads -> Contexts]
      BY <2>3, <3>2 DEF TypeOK
    <3> QED BY <2>3, <3>1, <3>3 DEF TypeOK, Logs, Contexts
  <2> QED BY <2>1, <2>2, <2>3
<1>10. TypeOK'
  BY <1>2 DEF TypeOK, CrashPcs
<1>3. EarlyInv'
  BY <1>1, OptionsTaken DEF TypeOK, EarlyInv, BeforeLog, BeforeSignals, Calm
<1>4. InitInv'
  BY <1>1 DEF TypeOK, InitInv, EarlyInv, BeforeLog, BeforeSignals, Calm, Options
<1>5. SvcInv'
  BY <1>1 DEF TypeOK, Services, SvcInv, InitInv, EarlyInv, BeforeLog, BeforeSignals, Options
<1>6. LockInv'
  BY DEF TypeOK, LockInv, SvcInv, EarlyInv, BeforeLog, BeforeSignals, Calm
<1>7. CtxInv'
  BY DEF TypeOK, CtxInv, Contexts, EarlyInv, BeforeLog, BeforeSignals, Calm
<1>8. CrashInv'
  <2>1. ~Calm' /\ crash'[t] = "stop" /\ \A u \in Threads \ {t} : crash'[u] = crash[u]
    BY <1>2 DEF TypeOK, Calm
  <2> HIDE DEF log_oops
  <2>2. \A u \in Threads : lc'[u].lfile = "crash" => lc[u].lfile = "crash" /\ lc'[u].tsd = lc[u].tsd
    BY <1>2
  <2>3. log'.avail_crash_log => log'.disk = "reserved"
    BY <1>2 DEF CrashInv
  <2>4. ASSUME NEW u \in Threads, lc'[u].lfile = "crash"
        PROVE  /\ crash'[u] \in {"oops", "stop", "truncate", "raise"} /\ lc'[u].tsd
               /\ log'.disk \in {"reserved", "report"} /\ ~log'.avail_crash_log
               /\ \A x \in Threads : lc'[x].lfile = "crash" => x = u
    BY <1>2, <2>1, <2>2, <2>4 DEF CrashInv
  <2> QED BY <2>1, <2>3, <2>4 DEF CrashInv
<1>9. AloneInv'
  <2>1. SUFFICES ASSUME NEW x \in Threads, Alone(x)' PROVE ReportInv(x)'
    BY DEF AloneInv
  <2>2. x = t /\ Alone(t) /\ ReportInv(t) /\ crash'[t] = "stop"
    BY <1>2, <2>1 DEF Alone, AloneInv, TypeOK
  <2> HIDE DEF log_oops
  <2>3. log.disk \in {"none", "part"} => lc[t].lfile # "crash"
    BY DEF CrashInv
  <2> QED BY <1>2, <2>2, <2>3 DEF ReportInv, Claimed
<1> QED BY <1>10, <1>3, <1>4, <1>5, <1>6, <1>7, <1>8, <1>9

LEMMA StopLoggingStep ==
  ASSUME IInv, NEW t \in Threads, stop_logging(t)
  PROVE  IInv'
<1> USE AppAssumption DEF IInv, stop_logging, Threads, Gone, NoCtx
<1>1. Opt' = Opt
  BY DEF Opt
<1>2. TypeOK'
  BY DEF TypeOK, MainPcs, Services, Logs, Contexts, Files, CrashPcs, WorkerPcs
<1>3. EarlyInv'
  BY <1>1, OptionsTaken DEF TypeOK, EarlyInv, BeforeLog, BeforeSignals, Calm
<1>4. InitInv'
  BY <1>1 DEF TypeOK, InitInv, EarlyInv, BeforeLog, BeforeSignals, Calm, Options
<1>5. SvcInv'
  BY <1>1 DEF TypeOK, Services, SvcInv, InitInv, EarlyInv, BeforeLog, BeforeSignals, Options
<1>6. LockInv'
  BY DEF TypeOK, LockInv, SvcInv, EarlyInv, BeforeLog, BeforeSignals, Calm
<1>7. CtxInv'
  BY DEF TypeOK, CtxInv, Contexts, EarlyInv, BeforeLog, BeforeSignals, Calm
<1>8. CrashInv'
  BY DEF TypeOK, CrashInv, Untouched, Fresh, EarlyInv, BeforeLog, BeforeSignals, Calm
<1>9. AloneInv'
  <2>1. SUFFICES ASSUME NEW x \in Threads, Alone(x)' PROVE ReportInv(x)'
    BY DEF AloneInv
  <2>2. x = t /\ Alone(t) /\ ReportInv(t)
    BY <2>1 DEF Alone, AloneInv, TypeOK
  <2>3. logdir_lock \in {None, t}
    BY <2>2 DEF LockInv, Alone, TypeOK
  <2>4. logdir_lock = None
    BY <2>2, <2>3 DEF LockInv, Alone
  <2> QED BY <2>2, <2>4 DEF ReportInv, Claimed, TypeOK
<1> QED BY <1>2, <1>3, <1>4, <1>5, <1>6, <1>7, <1>8, <1>9

LEMMA TruncateInHandlerStep ==
  ASSUME IInv, NEW t \in Threads, TruncateInHandler(t)
  PROVE  IInv'
<1> USE AppAssumption DEF IInv, TruncateInHandler, truncate_crash_log_locked, Threads, Gone,
    NoCtx
<1>1. PICK y \in Files : logfile' = [logfile EXCEPT ![t] = y]
  <2>1. PICK y \in Closed(t) : logfile' = [logfile EXCEPT ![t] = y]
    OBVIOUS
  <2>2. y \in Files
    BY <2>1 DEF Closed, TypeOK, Files
  <2> QED BY <2>1, <2>2
<1>2. /\ crash[t] = "truncate" /\ crash' = [crash EXCEPT ![t] = "raise"]
      /\ ~log'.crash_log
      /\ log'.avail_crash_log <=> (log.avail_crash_log /\ ~(log.crash_log /\ lc[t].tsd))
      /\ log'.disk \in IF log.crash_log /\ lc[t].tsd /\ log.avail_crash_log THEN {"none", "kept"}
                       ELSE IF log.crash_log /\ lc[t].lfile = "crash" THEN {"truncated", "uncut"}
                       ELSE {log.disk}
      /\ log'.reserved = log.reserved /\ log' \in Logs
      /\ \A u \in Threads \ {t} : lc'[u] = lc[u]
      /\ lc'[t].lfile = "none"
      /\ UNCHANGED <<pc, svc>>
  <2>1. lc[t].lfile = "crash" => lc[t].tsd /\ ~log.avail_crash_log
    BY DEF CrashInv
  <2>2. PICK disk \in IF log.crash_log /\ lc[t].tsd /\ log.avail_crash_log THEN {"none", "kept"}
                     ELSE IF log.crash_log /\ lc[t].lfile = "crash" THEN {"truncated", "uncut"}
                     ELSE {log.disk} :
          log' = [log EXCEPT !.logdir = FALSE, !.crash_log = FALSE, !.disk = disk,
                    !.avail_crash_log = @ /\ ~(log.crash_log /\ lc[t].tsd /\ log.avail_crash_log)]
    BY <2>1
  <2>3. /\ log' \in Logs /\ ~log'.crash_log /\ log'.disk = disk /\ log'.reserved = log.reserved
        /\ log'.avail_crash_log <=> (log.avail_crash_log /\ ~(log.crash_log /\ lc[t].tsd))
    BY <2>2 DEF TypeOK, Logs
  <2>4. lc'[t].lfile = "none" /\ \A u \in Threads \ {t} : lc'[u] = lc[u]
    BY DEF TypeOK, Contexts
  <2> QED BY <2>2, <2>3, <2>4
<1>3. Opt' = Opt
  BY DEF Opt
<1>4. TypeOK'
  <2>1. log' \in Logs
    BY <1>2
  <2>2. lc' \in [Threads -> Contexts]
    <3>1. [[lc[t] EXCEPT !.lfile = "none"] EXCEPT !.ustrings = FALSE] \in Contexts
      <4>1. PICK r \in Contexts : r = lc[t]
        BY DEF TypeOK
      <4>2. [[r EXCEPT !.lfile = "none"] EXCEPT !.ustrings = FALSE] \in Contexts
        BY DEF Contexts
      <4> QED BY <4>1, <4>2
    <3>2. lc' = [lc EXCEPT ![t] = [[lc[t] EXCEPT !.lfile = "none"] EXCEPT !.ustrings = FALSE]]
      BY DEF TypeOK
    <3> QED BY <3>1, <3>2 DEF TypeOK
  <2>3. logdir_lock' \in Threads \cup {None}
    BY DEF TypeOK
  <2>4. logfile' \in [Threads -> Files]
    BY <1>1 DEF TypeOK
  <2>5. crash' \in [Threads -> CrashPcs]
    BY DEF TypeOK, CrashPcs
  <2> QED BY <2>1, <2>2, <2>3, <2>4, <2>5 DEF TypeOK
<1>5. EarlyInv'
  BY <1>3, OptionsTaken DEF TypeOK, EarlyInv, BeforeLog, BeforeSignals, Calm
<1>6. InitInv'
  BY <1>3 DEF TypeOK, InitInv, EarlyInv, BeforeLog, BeforeSignals, Calm, Options
<1>7. SvcInv'
  BY <1>3 DEF TypeOK, Services, SvcInv, InitInv, EarlyInv, BeforeLog, BeforeSignals, Options
<1>8. LockInv'
  BY DEF TypeOK, LockInv, SvcInv, EarlyInv, BeforeLog, BeforeSignals, Calm
<1>9. CtxInv'
  BY DEF TypeOK, CtxInv, Contexts, EarlyInv, BeforeLog, BeforeSignals, Calm
<1>10. CrashInv'
  BY <1>2 DEF TypeOK, CrashInv, Untouched, Fresh, Calm
<1>11. AloneInv'
  <2>1. SUFFICES ASSUME NEW x \in Threads, Alone(x)' PROVE ReportInv(x)'
    BY DEF AloneInv
  <2>2. x = t /\ Alone(t) /\ ReportInv(t)
    BY <1>2, <2>1 DEF Alone, AloneInv, TypeOK
  <2>3. log.avail_crash_log => log.disk = "reserved"
    BY DEF CrashInv
  <2>4. crash'[t] = "raise"
    BY <1>2 DEF TypeOK
  <2> HIDE DEF TruncateInHandler, truncate_crash_log_locked
  <2>5. CASE log.reserved
    <3>1. \/ log.disk = "report" /\ lc[t].lfile = "crash" /\ log.crash_log /\ ~log.avail_crash_log
          \/ log.disk = "short" /\ lc[t].lfile # "crash" /\ ~log.avail_crash_log
      BY <1>2, <2>2, <2>3, <2>5 DEF ReportInv, Claimed, CrashInv
    <3>2. log'.disk \in {"truncated", "short", "uncut"} /\ log'.reserved
      BY <1>2, <2>5, <3>1
    <3> QED BY <2>2, <2>4, <3>2 DEF ReportInv
  <2>6. CASE ~log.reserved
    <3>1. log.disk \in {"none", "part"} /\ lc[t].lfile # "crash" /\ ~log.avail_crash_log
      BY <1>2, <2>2, <2>3, <2>6 DEF ReportInv, CrashInv
    <3>2. log'.disk \in {"none", "part"} /\ ~log'.reserved
      BY <1>2, <2>6, <3>1
    <3> QED BY <2>2, <2>4, <3>2 DEF ReportInv
  <2> QED BY <2>5, <2>6
<1> QED BY <1>4, <1>5, <1>6, <1>7, <1>8, <1>9, <1>10, <1>11

LEMMA FatalSigHandlerStep ==
  ASSUME IInv, NEW t \in Threads, fatal_sig_handler(t)
  PROVE  IInv'
<1> USE AppAssumption DEF IInv, fatal_sig_handler, Threads, Gone, NoCtx
<1>1. Opt' = Opt
  BY DEF Opt
<1>2. TypeOK'
  BY DEF TypeOK, MainPcs, Services, Logs, Contexts, Files, CrashPcs, WorkerPcs
<1>3. EarlyInv'
  BY <1>1, OptionsTaken DEF TypeOK, EarlyInv, BeforeLog, BeforeSignals, Calm
<1>4. InitInv'
  BY <1>1 DEF TypeOK, InitInv, EarlyInv, BeforeLog, BeforeSignals, Calm, Options
<1>5. SvcInv'
  BY <1>1 DEF TypeOK, Services, SvcInv, InitInv, EarlyInv, BeforeLog, BeforeSignals, Options
<1>6. LockInv'
  BY DEF TypeOK, LockInv, SvcInv, EarlyInv, BeforeLog, BeforeSignals, Calm
<1>7. CtxInv'
  BY DEF TypeOK, CtxInv, Contexts, EarlyInv, BeforeLog, BeforeSignals, Calm
<1>8. CrashInv'
  BY DEF TypeOK, CrashInv, Untouched, Fresh, EarlyInv, BeforeLog, BeforeSignals, Calm
<1>9. AloneInv'
  BY DEF TypeOK, AloneInv, Alone, ReportInv, Claimed, CrashInv, Untouched, Fresh, Calm, EarlyInv,
      BeforeLog, BeforeSignals
<1> QED BY <1>2, <1>3, <1>4, <1>5, <1>6, <1>7, <1>8, <1>9

-------------------------------------------------------------------------------
(* The theorems.                                                            *)

LEMMA InitHolds == AppInit => IInv
<1> SUFFICES ASSUME AppInit PROVE IInv
  OBVIOUS
<1> USE AppAssumption DEF AppInit, Threads, Gone
<1>1. TypeOK
  <2>1. NoCtx \in Contexts
    BY DEF NoCtx, Contexts
  <2>2. lc \in [Threads -> Contexts]
    BY <2>1
  <2>3. svc \in Services /\ log \in Logs
    BY DEF Services, Logs
  <2>4. /\ pc \in MainPcs /\ ret \in BOOLEAN /\ logdir_lock \in Threads \cup {None}
        /\ logfile \in [Threads -> Files] /\ crash \in [Threads -> CrashPcs]
        /\ tpc \in [Workers -> WorkerPcs]
    BY DEF MainPcs, Files, CrashPcs, WorkerPcs
  <2> QED BY <2>2, <2>3, <2>4 DEF TypeOK
<1>2. Calm /\ \A t \in Threads : lc[t] = NoCtx /\ lc[t].lfile = "none" /\ logfile[t] = "none"
  BY DEF Calm, NoCtx
<1>3. EarlyInv /\ InitInv /\ SvcInv
  BY <1>2 DEF EarlyInv, InitInv, SvcInv, BeforeLog
<1>4. LockInv /\ CtxInv
  BY <1>2 DEF LockInv, CtxInv, BeforeLog, Calm
<1>5. CrashInv /\ AloneInv
  BY <1>2 DEF CrashInv, AloneInv, Alone, Untouched, Fresh, Calm
<1> QED BY <1>1, <1>3, <1>4, <1>5 DEF IInv

\* A step that changes nothing
LEMMA StutterStep ==
  ASSUME IInv, UNCHANGED appvars
  PROVE  IInv'
<1> USE DEF IInv, appvars
<1>1. Opt' = Opt
  BY DEF Opt
<1>2. TypeOK' /\ EarlyInv' /\ InitInv' /\ SvcInv'
  BY <1>1 DEF TypeOK, EarlyInv, InitInv, SvcInv, Calm
<1>3. LockInv' /\ CtxInv'
  BY DEF LockInv, CtxInv, Calm
<1>4. CrashInv' /\ AloneInv'
  BY DEF CrashInv, AloneInv, Alone, ReportInv, Claimed, Untouched, Fresh, Calm
<1> QED BY <1>2, <1>3, <1>4

LEMMA NextKeeps == IInv /\ [AppNext]_appvars => IInv'
<1> SUFFICES ASSUME IInv, [AppNext]_appvars PROVE IInv'
  OBVIOUS
<1>1. CASE Start
  BY <1>1, CheckAppStep, ChrootStep, DropPrivsStep, DaemonStep, TakePidlockStep, SetLogStdioStep,
     SetLogdirStep, InitLoggingStep, InitFileconfStep, CheckMemoryLimitStep, InitSignalsStep,
     InitCtlserverStep DEF Start
<1>2. CASE Stop \/ app_stop \/ AppGivesUp
  BY <1>2, StopLogServerStep, StopCtlserverStep, PurgeLockfileStep, StopLoggingAtExitStep,
     TruncateCrashLogStep, ExitStep, AppStopStep, AppGivesUpStep DEF Stop
<1>3. CASE \E w \in Workers : \/ \E d \in BOOLEAN : init_thread_logctx(w, d)
                              \/ open_thread_log(w) \/ open_logfile(w) \/ free_logctx(w)
  BY <1>3, InitThreadLogctxStep, OpenThreadLogStep, OpenLogfileStep, FreeLogctxStep
<1>4. CASE \E t \in Threads : LogWriteFails(t) \/ Handle(t) \/ \E s \in Fatal : Raise(t, s)
  BY <1>4, LogWriteFailsStep, LogCrashStep, GetCrashLogStep, LogOopsStep, StopLoggingStep, TruncateInHandlerStep,
     FatalSigHandlerStep, RaiseStep DEF Handle
<1>5. CASE Done \/ (\E t \in Threads : LockedUp(t)) \/ UNCHANGED appvars
  BY <1>5, StutterStep DEF Done, LockedUp
<1> QED BY <1>1, <1>2, <1>3, <1>4, <1>5 DEF AppNext

\* The inductive invariant holds in every reachable state of the application
THEOREM InvariantHolds == AppSpec => []IInv
BY InitHolds, NextKeeps, PTL DEF AppSpec

\* Every variable of the life cycle keeps its type
THEOREM TypeCorrect == AppSpec => []TypeOK
<1>1. IInv => TypeOK
  BY DEF IInv
<1> QED BY <1>1, InvariantHolds, PTL

\* When app_init() returns 0 the lock file, the servers, the handlers of fatal signals and
\* the logs that the command line asked for are there, and when it returns early no server
\* and no crash log is left, and no lock file unless writing the pid and removing the file
\* failed both (pidlock.c:174-185), for every command line
THEOREM InitCorrect == AppSpec => []InitTellsTheTruth
<1>1. IInv => InitTellsTheTruth
  <2> SUFFICES ASSUME IInv PROVE InitTellsTheTruth
    OBVIOUS
  <2> USE DEF IInv
  <2>1. pc = "failed" => (svc.file => svc.stuck) /\ ~svc.ctlserver /\ ~log.crash_log
    BY DEF EarlyInv, BeforeLog, SvcInv
  <2>2. pc = "run" /\ ~ret /\ Calm =>
          /\ svc.file = Opt.p /\ svc.fileconf /\ handlers = Fatal
          /\ svc.ctlserver = Opt.c /\ svc.logserver = Opt.c
          /\ IF Opt.v THEN log.use_stdio ELSE Opt.l => log.crash_log /\ logfile[Main] \in {"open", "left"}
    BY DEF InitInv
  <2> QED BY <2>1, <2>2 DEF InitTellsTheTruth, Calm
<1> QED BY <1>1, InvariantHolds, PTL

\* In an application without a fatal signal app_stop() leaves no server, whatever failed at
\* the start; a lock file only when removing it failed and the exit status says so; a crash
\* log only when reserving or removing it failed; and an open log, of Main or of a thread
\* that has ended, only when a write to it had failed (logging.c:237-243).  Until then the
\* control server and the log server are up under the lock file only
THEOREM StopCorrect == AppSpec => []StopLeavesNothing
<1>1. IInv => StopLeavesNothing
  <2> SUFFICES ASSUME IInv PROVE StopLeavesNothing
    OBVIOUS
  <2> USE DEF IInv
  <2>1. (svc.ctlserver \/ svc.logserver) /\ Opt.p => svc.file
    BY DEF SvcInv
  <2>2. pc = "exited" => (svc.file => ret /\ svc.stuck) /\ ~svc.ctlserver /\ ~svc.logserver
    BY DEF SvcInv
  <2>3. pc = "exited" /\ Calm => log.disk \in {"none", "part", "kept"} /\ logfile[Main] # "open"
    BY DEF CrashInv, Untouched, Fresh, CtxInv
  <2>4. Calm => \A w \in Workers : tpc[w] = "ended" =>
          logfile[w] \in {"none", "removed", "left"} \cup
                         IF lc[w].cleanup THEN {"kept"} ELSE {"closed", "uncut"}
    BY DEF CtxInv, Calm, Threads
  <2> QED BY <2>1, <2>2, <2>3, <2>4 DEF StopLeavesNothing, Calm
<1> QED BY <1>1, InvariantHolds, PTL

\* One thread at most has the crash log and nobody closes or removes it under that thread.
\* Once a crash log is reserved, the report of a thread that is alone in meeting a fatal
\* signal before app_stop() is on disk when the handler has run, cut to its length, unless a
\* write or the cut itself failed
THEOREM CrashesCorrect == AppSpec => []CrashesAreReported
<1>1. IInv => CrashesAreReported
  <2> SUFFICES ASSUME IInv PROVE CrashesAreReported
    OBVIOUS
  <2>1. OneCrashWriter
    BY DEF IInv, CrashInv, OneCrashWriter
  <2>2. CrashIsReported
    BY DEF IInv, AloneInv, Alone, ReportInv, CrashIsReported
  <2> QED BY <2>1, <2>2 DEF CrashesAreReported
<1> QED BY <1>1, InvariantHolds, PTL

===============================================================================
