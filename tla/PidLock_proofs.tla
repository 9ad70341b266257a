---------------------------- MODULE PidLock_proofs ----------------------------
(***************************************************************************)
(* Proofs about PidLock, for any number of processes and of crashes, as     *)
(* long as the commands are issued one after the other and applications     *)
(* and the daemonizer do not share a lock file. All the daemonizer's        *)
(* commands are covered, --status, which removes the lock it asks about,    *)
(* among them: see stripped.                                                *)
(***************************************************************************)
EXTENDS PidLock, FiniteSetTheorems, TLAPS

Starters == {"start", "respawn"}

\* What the theorems ask of the use of a lock file.
SerialUse == /\ Serial
             /\ \A f \in Families : f \subseteq {"app"} \/ f \subseteq {"start", "respawn", "stop", "status"}

\* The command a process was started for is at work: the next has to wait.
Busy(p) ==
  /\ pc[p] \notin {"off", "live", "stopping", "exiting"}
  /\ ~(pc[p] = "final" /\ mode[p] = "respawn")

\* The processes the lock file has to lead to.
Namers ==
  {p \in Pids : /\ p \notin termed /\ p \notin stripped
                /\ \/ pc[p] \in {"exec", "live", "stopping"}
                   \/ pc[p] = "final" /\ mode[p] = "respawn"}

\* Who is what
ProcInv ==
  \A p \in Pids :
    /\ prog[p] = "none" => pc[p] = "off"
    /\ pc[p] = "off" => prog[p] \in {"none", "other"}
    /\ pc[p] # "off" =>
         /\ mode[p] \in family
         /\ prog[p] = CASE mode[p] = "app" -> "app"
                        [] mode[p] = "start" /\ pc[p] = "live" -> "cmd"
                        [] OTHER -> "dmn"

\* Where the commands come by
PlaceInv ==
  \A p \in Pids :
    /\ pc[p] \in {"live", "exec", "access", "create", "purge", "recreate", "write", "unwrite"}
         => mode[p] \notin {"stop", "status"}
    /\ pc[p] = "live" => mode[p] \in {"app", "start", "respawn"}
    /\ pc[p] \in {"stopping", "exiting"} => mode[p] = "app"
    /\ pc[p] = "exec" => mode[p] = "start"
    /\ pc[p] = "access" => mode[p] \in Starters /\ want[p] = "cmd" /\ site[p] = "check"
    /\ pc[p] = "create" => site[p] = "check"
    /\ pc[p] = "recreate" => mode[p] = "app"
    /\ pc[p] \in {"open", "read", "exists", "name", "purge"} =>
         IF mode[p] = "app" THEN site[p] = "lock" /\ want[p] = "any"
         ELSE site[p] = "check" /\ want[p] # "any"
    /\ pc[p] = "name" => mode[p] # "app"
    /\ pc[p] = "kill" => mode[p] = "stop"
    /\ pc[p] = "final" => mode[p] \in {"stop", "status", "respawn"}

\* Files are made one at a time
FileInv ==
  /\ path <= ninodes
  /\ ninodes <= runs
  /\ \A i \in Inodes : i > ninodes => content[i] = NoPid
  /\ \A p \in Pids : fd[p] <= ninodes
  /\ \A p \in Pids :
       (pc[p] \in {"access", "open", "read", "exists", "name", "purge", "create", "recreate"}
          /\ mode[p] \notin {"stop", "status"}) => ninodes < runs

OneBusy == \A p, q \in Pids : Busy(p) /\ Busy(q) => p = q

NameInv == \A p \in Namers : path # 0 /\ content[path] = p /\ fd[p] = path

\* What the command at work knows
KnowInv ==
  \A p \in Pids :
    /\ pc[p] = "create" /\ mode[p] # "app" => path = 0
    /\ pc[p] = "read" => fd[p] # 0 /\ path \in {0, fd[p]}
    /\ pc[p] \in {"exists", "name", "kill"} => seen[p] \in Pids /\ Namers \subseteq {seen[p]}
    /\ pc[p] \in {"open", "read", "exists", "name"} /\ want[p] = "dmn" =>
         \A q \in Namers : prog[q] # "cmd"
    /\ pc[p] \in {"purge", "recreate", "write", "unwrite"} => Namers = {}
    /\ pc[p] = "final" /\ mode[p] = "stop" => Namers = {}
    /\ pc[p] = "write" /\ p \notin stripped => path = fd[p] /\ path # 0

\* --stop and --status belong to the daemonizer: applications are not sent SIGTERM
\* by it, and it does not remove their locks
TermInv == "app" \in family => termed = {} /\ stripped = {}

IInv ==
  /\ TypeOK /\ ProcInv /\ PlaceInv /\ TermInv /\ FileInv
  /\ OneBusy /\ NameInv /\ KnowInv

Asking(p) == pc[p] \in {"open", "read", "exists", "name"}

Moves(p, l) == pc' = [pc EXCEPT ![p] = l]

\* What a lock that is not ours leads to
LEMMA NotOursOutcome ==
  ASSUME IInv, SerialUse, NEW p \in Pids, Asking(p), NotOurs(p)
  PROVE  \/ mode[p] = "app" /\ Moves(p, "purge") /\ want' = want
         \/ mode[p] # "app" /\ want[p] = "cmd" /\ Moves(p, "open")
            /\ want' = [want EXCEPT ![p] = "dmn"]
         \/ mode[p] \in Starters /\ want[p] = "dmn" /\ Moves(p, "purge") /\ want' = want
         \/ mode[p] \in {"stop", "status"} /\ want[p] = "dmn" /\ Moves(p, "refused")
            /\ want' = want
<1>1. /\ mode[p] \in {"app", "start", "respawn", "stop", "status"} /\ want[p] \in {"any", "cmd", "dmn"}
      /\ IF mode[p] = "app" THEN site[p] = "lock" /\ want[p] = "any"
         ELSE site[p] = "check" /\ want[p] # "any"
  BY PidAssumption DEF IInv, SerialUse, Asking, TypeOK, ProcInv, PlaceInv
<1>2. CASE mode[p] = "app"
  BY <1>1, <1>2 DEF NotOurs, Goto, Moves
<1>3. CASE mode[p] # "app" /\ want[p] = "cmd"
  BY <1>1, <1>3 DEF NotOurs, Goto, Moves
<1>4. CASE mode[p] # "app" /\ want[p] # "cmd"
  BY <1>1, <1>4 DEF NotOurs, Goto, Moves, Starters
<1> QED BY <1>1, <1>2, <1>3, <1>4

\* What a lock that is ours leads to
LEMMA OursOutcome ==
  ASSUME IInv, SerialUse, NEW p \in Pids, Asking(p), Ours(p)
  PROVE  /\ want' = want
         /\ \/ mode[p] \in {"app"} \cup Starters /\ Moves(p, "refused")
            \/ mode[p] = "stop" /\ Moves(p, "kill")
            \/ mode[p] = "status" /\ Moves(p, "final")
<1>1. /\ mode[p] \in {"app", "start", "respawn", "stop", "status"}
      /\ mode[p] = "app" => site[p] = "lock"
      /\ mode[p] \in {"stop", "status"} => site[p] = "check"
  BY PidAssumption DEF IInv, SerialUse, Asking, TypeOK, ProcInv, PlaceInv
<1> QED BY <1>1 DEF Ours, Goto, Moves, Starters

\* What it is known of the lock when the answer is that it is not ours
NotThere(p) ==
  /\ want[p] = "cmd" => \A q \in Namers : prog[q] # "cmd"
  /\ want[p] # "cmd" => Namers = {}

\* The reading of the lock file changes this
LookVars == <<family, runs, prog, mode, site, path, ninodes, content, termed, stripped>>

LEMMA NotOursKeeps ==
  ASSUME IInv, SerialUse, NEW p \in Pids, Asking(p), NotOurs(p), NotThere(p),
         UNCHANGED <<LookVars, fd>>,
         seen' = seen \/ \E s \in Pids \cup {NoPid} : seen' = [seen EXCEPT ![p] = s]
  PROVE  IInv'
<1> USE PidAssumption DEF IInv, SerialUse, Inodes
<1>1. \/ mode[p] = "app" /\ Moves(p, "purge") /\ want' = want
      \/ mode[p] # "app" /\ want[p] = "cmd" /\ Moves(p, "open")
         /\ want' = [want EXCEPT ![p] = "dmn"]
      \/ mode[p] \in Starters /\ want[p] = "dmn" /\ Moves(p, "purge") /\ want' = want
      \/ mode[p] \in {"stop", "status"} /\ want[p] = "dmn" /\ Moves(p, "refused")
         /\ want' = want
  BY NotOursOutcome
<1>2. TypeOK'
  <2>1. seen' \in [Pids -> Pids \cup {NoPid}]
    BY DEF TypeOK
  <2>2. /\ pc' \in [Pids -> {"off", "access", "open", "read", "exists", "name", "purge",
                              "create", "recreate", "write", "unwrite", "exec", "live",
                              "stopping", "exiting", "kill", "final", "refused"}]
        /\ want' \in [Pids -> {"any", "cmd", "dmn"}]
    BY <1>1 DEF TypeOK, Moves
  <2> QED BY <2>1, <2>2 DEF TypeOK, LookVars
<1>3. ProcInv'
  BY <1>1 DEF TypeOK, LookVars, Moves, ProcInv, Asking
<1>4. TermInv'
  BY DEF TermInv, LookVars
<1>5. PlaceInv'
  BY <1>1 DEF TypeOK, LookVars, Moves, PlaceInv, Asking, Starters
<1>6. FileInv'
  BY <1>1 DEF TypeOK, LookVars, Moves, FileInv, Asking, Starters
<1>7. OneBusy'
  BY <1>1 DEF TypeOK, LookVars, Moves, OneBusy, Busy, Asking
<1>8. Namers' = Namers
  BY <1>1 DEF TypeOK, LookVars, Moves, Namers, Asking
<1>9. NameInv'
  BY <1>8 DEF NameInv, LookVars
<1>10. KnowInv'
  <2>1. SUFFICES ASSUME NEW q \in Pids PROVE KnowInv!(q)'
    BY DEF KnowInv
  <2>2. CASE q = p
    BY <1>1, <1>8, <2>2 DEF TypeOK, LookVars, Moves, KnowInv, Asking, NotThere, Starters,
        PlaceInv
  <2>3. CASE q # p
    BY <1>1, <1>8, <2>3 DEF TypeOK, LookVars, Moves, KnowInv, Asking
  <2> QED BY <2>2, <2>3
<1> QED BY <1>4, <1>2, <1>3, <1>5, <1>6, <1>7, <1>9, <1>10

LEMMA OursKeeps ==
  ASSUME IInv, SerialUse, NEW p \in Pids, pc[p] \in {"exists", "name"}, Ours(p),
         UNCHANGED <<LookVars, fd, seen>>
  PROVE  IInv'
<1> USE PidAssumption DEF IInv, SerialUse, Inodes
<1>1. /\ want' = want
      /\ \/ mode[p] \in {"app"} \cup Starters /\ Moves(p, "refused")
         \/ mode[p] = "stop" /\ Moves(p, "kill")
         \/ mode[p] = "status" /\ Moves(p, "final")
  BY OursOutcome DEF Asking
<1>2. TypeOK'
  BY <1>1 DEF TypeOK, LookVars, Moves
<1>3. ProcInv'
  BY <1>1 DEF TypeOK, LookVars, Moves, ProcInv
<1>4. TermInv'
  BY DEF TermInv, LookVars
<1>5. PlaceInv'
  BY <1>1 DEF TypeOK, LookVars, Moves, PlaceInv, Starters
<1>6. FileInv'
  BY <1>1 DEF TypeOK, LookVars, Moves, FileInv, Starters
<1>7. OneBusy'
  BY <1>1 DEF TypeOK, LookVars, Moves, OneBusy, Busy
<1>8. Namers' = Namers
  BY <1>1 DEF TypeOK, LookVars, Moves, Namers
<1>9. NameInv'
  BY <1>8 DEF NameInv, LookVars
<1>10. KnowInv'
  BY <1>1, <1>8 DEF TypeOK, LookVars, Moves, KnowInv, Starters, PlaceInv
<1> QED BY <1>4, <1>2, <1>3, <1>5, <1>6, <1>7, <1>9, <1>10

\* It reads on
LEMMA ReadOnKeeps ==
  ASSUME IInv, SerialUse, NEW p \in Pids, UNCHANGED <<LookVars, want>>,
         \/ pc[p] = "open" /\ path # 0 /\ Moves(p, "read")
            /\ fd' = [fd EXCEPT ![p] = path] /\ seen' = seen
         \/ pc[p] = "read" /\ content[fd[p]] # NoPid /\ Moves(p, "exists")
            /\ fd' = fd /\ seen' = [seen EXCEPT ![p] = content[fd[p]]]
         \/ pc[p] = "exists" /\ want[p] # "any" /\ Moves(p, "name")
            /\ UNCHANGED <<fd, seen>>
  PROVE  IInv'
<1> USE PidAssumption DEF IInv, SerialUse, Inodes
<1>1. TypeOK'
  <2>1. content[fd[p]] # NoPid /\ pc[p] = "read" => content[fd[p]] \in Pids
    BY DEF TypeOK, KnowInv
  <2>2. fd' \in [Pids -> {0} \cup Inodes] /\ seen' \in [Pids -> Pids \cup {NoPid}]
    BY <2>1 DEF TypeOK, LookVars
  <2>3. pc' \in [Pids -> {"off", "access", "open", "read", "exists", "name", "purge",
                          "create", "recreate", "write", "unwrite", "exec", "live",
                          "stopping", "exiting", "kill", "final", "refused"}]
    BY DEF TypeOK, Moves
  <2> QED BY <2>2, <2>3 DEF TypeOK, LookVars
<1>2. ProcInv'
  BY DEF TypeOK, LookVars, Moves, ProcInv
<1>3. TermInv'
  BY DEF TermInv, LookVars
<1>4. PlaceInv'
  BY DEF TypeOK, LookVars, Moves, PlaceInv, Starters
<1>5. FileInv'
  BY DEF TypeOK, LookVars, Moves, FileInv, Starters
<1>6. OneBusy'
  BY DEF TypeOK, LookVars, Moves, OneBusy, Busy
<1>7. Namers' = Namers
  BY DEF TypeOK, LookVars, Moves, Namers
<1>8. NameInv'
  <2>1. p \notin Namers
    BY DEF Namers
  <2>2. \A q \in Namers : fd'[q] = fd[q]
    BY <2>1 DEF Namers, TypeOK
  <2> QED BY <1>7, <2>2 DEF NameInv, LookVars
<1>9. KnowInv'
  <2>1. SUFFICES ASSUME NEW q \in Pids PROVE KnowInv!(q)'
    BY DEF KnowInv
  <2>2. CASE q = p
    <3>1. CASE pc[p] = "open"
      BY <1>7, <2>2, <3>1 DEF TypeOK, LookVars, Moves, KnowInv
    <3>2. CASE pc[p] = "read"
      <4>1. content[fd[p]] \in Pids /\ Namers \subseteq {content[fd[p]]}
        BY <3>2 DEF TypeOK, KnowInv, NameInv
      <4> QED BY <1>7, <2>2, <3>2, <4>1 DEF TypeOK, LookVars, Moves, KnowInv
    <3>3. CASE pc[p] = "exists"
      BY <1>7, <2>2, <3>3 DEF TypeOK, LookVars, Moves, KnowInv
    <3> QED BY <3>1, <3>2, <3>3
  <2>3. CASE q # p
    BY <1>7, <2>3 DEF TypeOK, LookVars, Moves, KnowInv
  <2> QED BY <2>2, <2>3
<1> QED BY <1>3, <1>1, <1>2, <1>4, <1>5, <1>6, <1>8, <1>9

LEMMA OpenLockStep ==
  ASSUME IInv, SerialUse, NEW p \in Pids, OpenLock(p)
  PROVE  IInv'
<1> USE DEF OpenLock, LookVars, filevars, Asking
<1>1. CASE path = 0
  <2>1. NotThere(p)
    BY <1>1 DEF IInv, NameInv, NotThere
  <2> QED BY <1>1, <2>1, NotOursKeeps
<1>2. CASE path # 0
  BY <1>2, ReadOnKeeps DEF Goto, Moves
<1> QED BY <1>1, <1>2

LEMMA ReadLockStep ==
  ASSUME IInv, SerialUse, NEW p \in Pids, ReadLock(p)
  PROVE  IInv'
<1> USE DEF ReadLock, LookVars, filevars, Asking
<1>1. /\ fd[p] # 0 /\ path \in {0, fd[p]} /\ fd[p] \in Inodes
      /\ content[fd[p]] \in Pids \cup {NoPid}
  BY DEF IInv, TypeOK, KnowInv
<1>2. CASE content[fd[p]] = NoPid
  <2>1. NotThere(p)
    BY <1>1, <1>2, PidAssumption DEF IInv, NameInv, NotThere, Namers
  <2> QED BY <1>1, <1>2, <2>1, NotOursKeeps
<1>3. CASE content[fd[p]] # NoPid
  BY <1>3, ReadOnKeeps DEF Goto, Moves
<1> QED BY <1>2, <1>3

LEMMA ExistsStep ==
  ASSUME IInv, SerialUse, NEW p \in Pids, Exists(p)
  PROVE  IInv'
<1> USE DEF Exists, LookVars, filevars, Asking
<1>1. CASE prog[seen[p]] = "none"
  <2>1. NotThere(p)
    BY <1>1 DEF IInv, KnowInv, NotThere, ProcInv, Namers
  <2> QED BY <1>1, <2>1, NotOursKeeps
<1>2. CASE prog[seen[p]] # "none" /\ want[p] = "any"
  BY <1>2, OursKeeps
<1>3. CASE prog[seen[p]] # "none" /\ want[p] # "any"
  BY <1>3, ReadOnKeeps DEF Goto, Moves
<1> QED BY <1>1, <1>2, <1>3

LEMMA CompareNameStep ==
  ASSUME IInv, SerialUse, NEW p \in Pids, CompareName(p)
  PROVE  IInv'
<1> USE DEF CompareName, LookVars, filevars, Asking
<1>1. CASE prog[seen[p]] = want[p]
  BY <1>1, OursKeeps
<1>2. CASE prog[seen[p]] # want[p]
  <2>1. /\ seen[p] \in Pids /\ Namers \subseteq {seen[p]}
        /\ want[p] = "dmn" => \A q \in Namers : prog[q] # "cmd"
    BY DEF IInv, KnowInv
  <2>2. mode[p] # "app" /\ want[p] \in {"cmd", "dmn"} /\ mode[p] \in family
    BY DEF IInv, PlaceInv, ProcInv, TypeOK
  <2>3. \A q \in Namers : prog[q] \in {"cmd", "dmn"}
    <3>1. "app" \notin family
      BY <2>2, PidAssumption DEF SerialUse, IInv, TypeOK
    <3> QED BY <3>1 DEF IInv, ProcInv, Namers
  <2>4. NotThere(p)
    BY <1>2, <2>1, <2>2, <2>3 DEF NotThere
  <2> QED BY <1>2, <2>4, NotOursKeeps
<1> QED BY <1>1, <1>2

LEMMA AccessStep ==
  ASSUME IInv, SerialUse, NEW p \in Pids, Access(p)
  PROVE  IInv'
<1> USE PidAssumption DEF IInv, SerialUse, Access, Goto, Runs, filevars, Modes, Inodes
<1>1. TypeOK'
  BY DEF TypeOK
<1>2. ProcInv'
  BY DEF TypeOK, ProcInv, PlaceInv
<1>3. TermInv'
  BY DEF TermInv
<1>4. PlaceInv'
  BY DEF TypeOK, ProcInv, PlaceInv, Starters
<1>5. FileInv'
  BY DEF TypeOK, FileInv, PlaceInv, KnowInv
<1>6. OneBusy'
  BY DEF TypeOK, OneBusy, Busy, PlaceInv
<1>7. NameInv'
  BY DEF TypeOK, NameInv, Namers, OneBusy, Busy, PlaceInv, KnowInv
<1>8. KnowInv'
  BY DEF TypeOK, KnowInv, Namers, OneBusy, Busy, PlaceInv, NameInv, ProcInv
<1> QED BY <1>3, <1>1, <1>2, <1>4, <1>5, <1>6, <1>7, <1>8

\* A file is made for the one command at work
LEMMA NewFileKeeps ==
  ASSUME IInv, NEW p \in Pids, pc[p] \in {"create", "recreate"}, ninodes + 1 <= runs,
         NewFile(p), Moves(p, "write"), UNCHANGED <<runs, mode>>
  PROVE  FileInv'
<1> USE DEF IInv, TypeOK, NewFile, Moves, Inodes
<1>1. path' <= ninodes' /\ ninodes' <= runs'
  OBVIOUS
<1>2. \A i \in Inodes : i > ninodes' => content'[i] = NoPid
  BY DEF FileInv
<1>3. \A q \in Pids : fd'[q] <= ninodes'
  BY DEF FileInv
<1>4. \A q \in Pids \ {p} :
        pc[q] \notin {"access", "open", "read", "exists", "name", "purge", "create", "recreate"}
  BY DEF OneBusy, Busy
<1>5. \A q \in Pids :
        pc'[q] \notin {"access", "open", "read", "exists", "name", "purge", "create", "recreate"}
  BY <1>4
<1> QED BY <1>1, <1>2, <1>3, <1>5 DEF FileInv

LEMMA CreateStep ==
  ASSUME IInv, SerialUse, NEW p \in Pids, Create(p)
  PROVE  IInv'
<1> USE PidAssumption DEF IInv, SerialUse, Create, Goto, NewFile, Runs, filevars, Modes, Inodes
<1>1. path = 0 => ninodes + 1 \in Inodes /\ ninodes + 1 <= runs
  BY DEF TypeOK, FileInv, PlaceInv, ProcInv
<1>2. TypeOK'
  <2>1. CASE path = 0
    BY <1>1, <2>1 DEF TypeOK
  <2>2. CASE path # 0
    <3>1. /\ pc' \in [Pids -> {"off", "access", "open", "read", "exists", "name", "purge",
                               "create", "recreate", "write", "unwrite", "exec", "live",
                               "stopping", "exiting", "kill", "final", "refused"}]
          /\ want' \in [Pids -> {"any", "cmd", "dmn"}]
          /\ site' \in [Pids -> {"check", "lock"}]
      BY <2>2 DEF TypeOK
    <3> QED BY <2>2, <3>1 DEF TypeOK
  <2> QED BY <2>1, <2>2
<1>3. ProcInv'
  BY DEF TypeOK, ProcInv, PlaceInv
<1>4. TermInv'
  BY DEF TermInv
<1>5. PlaceInv'
  <2>1. CASE path = 0
    BY <2>1 DEF TypeOK, PlaceInv, Starters
  <2>2. CASE path # 0
    BY <2>2 DEF TypeOK, PlaceInv, KnowInv, Starters
  <2> QED BY <2>1, <2>2
<1>6. FileInv'
  <2>1. CASE path = 0
    BY <1>1, <2>1, NewFileKeeps DEF Moves
  <2>2. CASE path # 0
    BY <2>2 DEF TypeOK, FileInv
  <2> QED BY <2>1, <2>2
<1>7. OneBusy'
  <2>1. \A q \in Pids : Busy(q)' => Busy(q)
    <3>1. TAKE q \in Pids
    <3>2. CASE path = 0
      BY <3>2 DEF TypeOK, Busy
    <3>3. CASE path # 0
      BY <3>3 DEF TypeOK, Busy
    <3> QED BY <3>2, <3>3
  <2> QED BY <2>1 DEF OneBusy
<1>8. NameInv'
  BY DEF TypeOK, NameInv, Namers, OneBusy, Busy, PlaceInv, KnowInv
<1>9. KnowInv'
  BY DEF TypeOK, KnowInv, Namers, OneBusy, Busy, PlaceInv, NameInv, ProcInv
<1> QED BY <1>4, <1>2, <1>3, <1>5, <1>6, <1>7, <1>8, <1>9

LEMMA PurgeStep ==
  ASSUME IInv, SerialUse, NEW p \in Pids, Purge(p)
  PROVE  IInv'
<1> USE PidAssumption DEF IInv, SerialUse, Purge, Goto, Runs, filevars, Modes, Inodes
<1>1. TypeOK'
  BY DEF TypeOK
<1>2. ProcInv'
  BY DEF TypeOK, ProcInv, PlaceInv
<1>3. TermInv'
  BY DEF TermInv
<1>4. PlaceInv'
  BY DEF TypeOK, ProcInv, PlaceInv, Starters
<1>5. FileInv'
  BY DEF TypeOK, FileInv, PlaceInv, KnowInv
<1>6. OneBusy'
  BY DEF TypeOK, OneBusy, Busy, PlaceInv
<1>7. NameInv'
  BY DEF TypeOK, NameInv, Namers, OneBusy, Busy, PlaceInv, KnowInv
<1>8. KnowInv'
  BY DEF TypeOK, KnowInv, Namers, OneBusy, Busy, PlaceInv, NameInv, ProcInv
<1> QED BY <1>3, <1>1, <1>2, <1>4, <1>5, <1>6, <1>7, <1>8

LEMMA RecreateStep ==
  ASSUME IInv, SerialUse, NEW p \in Pids, Recreate(p)
  PROVE  IInv'
<1> USE PidAssumption DEF IInv, SerialUse, Recreate, Goto, NewFile, Runs, filevars, Modes,
    Inodes
<1>1. path = 0 => ninodes + 1 \in Inodes /\ ninodes + 1 <= runs
  BY DEF TypeOK, FileInv, PlaceInv, ProcInv
<1>2. TypeOK'
  BY <1>1 DEF TypeOK
<1>3. ProcInv'
  BY DEF TypeOK, ProcInv, PlaceInv
<1>4. TermInv'
  BY DEF TermInv
<1>5. PlaceInv'
  BY DEF TypeOK, ProcInv, PlaceInv, Starters
<1>6. FileInv'
  BY <1>1, NewFileKeeps DEF Moves
<1>7. OneBusy'
  BY DEF TypeOK, OneBusy, Busy, PlaceInv
<1>8. NameInv'
  BY DEF TypeOK, NameInv, Namers, OneBusy, Busy, PlaceInv, KnowInv
<1>9. KnowInv'
  BY DEF TypeOK, KnowInv, Namers, OneBusy, Busy, PlaceInv, NameInv, ProcInv
<1> QED BY <1>4, <1>2, <1>3, <1>5, <1>6, <1>7, <1>8, <1>9

LEMMA WriteLockStep ==
  ASSUME IInv, SerialUse, NEW p \in Pids, WriteLock(p)
  PROVE  IInv'
<1> USE PidAssumption DEF IInv, SerialUse, WriteLock, Goto, Runs, filevars, Modes, Inodes
<1>1. TypeOK'
  BY DEF TypeOK
<1>2. ProcInv'
  BY DEF TypeOK, ProcInv, PlaceInv
<1>3. TermInv'
  BY DEF TermInv
<1>4. PlaceInv'
  BY DEF TypeOK, ProcInv, PlaceInv, Starters
<1>5. FileInv'
  BY DEF TypeOK, FileInv, PlaceInv, KnowInv
<1>6. OneBusy'
  BY DEF TypeOK, OneBusy, Busy, PlaceInv
<1>7. NameInv'
  BY DEF TypeOK, NameInv, Namers, OneBusy, Busy, PlaceInv, KnowInv
<1>8. KnowInv'
  BY DEF TypeOK, KnowInv, Namers, OneBusy, Busy, PlaceInv, NameInv, ProcInv
<1> QED BY <1>3, <1>1, <1>2, <1>4, <1>5, <1>6, <1>7, <1>8

LEMMA WriteFailsStep ==
  ASSUME IInv, SerialUse, NEW p \in Pids, WriteFails(p)
  PROVE  IInv'
<1> USE PidAssumption DEF IInv, SerialUse, WriteFails, Goto, Runs, filevars, Modes, Inodes
<1>1. TypeOK'
  BY DEF TypeOK
<1>2. ProcInv'
  BY DEF TypeOK, ProcInv, PlaceInv
<1>3. TermInv'
  BY DEF TermInv
<1>4. PlaceInv'
  BY DEF TypeOK, ProcInv, PlaceInv, Starters
<1>5. FileInv'
  BY DEF TypeOK, FileInv, PlaceInv, KnowInv
<1>6. OneBusy'
  BY DEF TypeOK, OneBusy, Busy, PlaceInv
<1>7. NameInv'
  BY DEF TypeOK, NameInv, Namers, OneBusy, Busy, PlaceInv, KnowInv
<1>8. KnowInv'
  BY DEF TypeOK, KnowInv, Namers, OneBusy, Busy, PlaceInv, NameInv, ProcInv
<1> QED BY <1>3, <1>1, <1>2, <1>4, <1>5, <1>6, <1>7, <1>8

LEMMA UnwriteStep ==
  ASSUME IInv, SerialUse, NEW p \in Pids, Unwrite(p)
  PROVE  IInv'
<1> USE PidAssumption DEF IInv, SerialUse, Unwrite, Gone, Harmless, Runs, filevars, Modes, Inodes
<1>1. TypeOK'
  BY DEF TypeOK
<1>2. ProcInv'
  BY DEF TypeOK, ProcInv, PlaceInv
<1>3. TermInv'
  BY DEF TermInv
<1>4. PlaceInv'
  BY DEF TypeOK, ProcInv, PlaceInv, Starters
<1>5. FileInv'
  BY DEF TypeOK, FileInv, PlaceInv, KnowInv
<1>6. OneBusy'
  BY DEF TypeOK, OneBusy, Busy, PlaceInv
<1>7. NameInv'
  BY DEF TypeOK, NameInv, Namers, OneBusy, Busy, PlaceInv, KnowInv
<1>8. KnowInv'
  BY DEF TypeOK, KnowInv, Namers, OneBusy, Busy, PlaceInv, NameInv, ProcInv
<1> QED BY <1>3, <1>1, <1>2, <1>4, <1>5, <1>6, <1>7, <1>8

LEMMA ExecStep ==
  ASSUME IInv, SerialUse, NEW p \in Pids, Exec(p)
  PROVE  IInv'
<1> USE PidAssumption DEF IInv, SerialUse, Exec, Goto, Runs, filevars, Modes, Inodes
<1>1. TypeOK'
  BY DEF TypeOK
<1>2. ProcInv'
  BY DEF TypeOK, ProcInv, PlaceInv
<1>3. TermInv'
  BY DEF TermInv
<1>4. PlaceInv'
  BY DEF TypeOK, ProcInv, PlaceInv, Starters
<1>5. FileInv'
  BY DEF TypeOK, FileInv, PlaceInv, KnowInv
<1>6. OneBusy'
  BY DEF TypeOK, OneBusy, Busy, PlaceInv
<1>7. NameInv'
  BY DEF TypeOK, NameInv, Namers, OneBusy, Busy, PlaceInv, KnowInv
<1>8. KnowInv'
  BY DEF TypeOK, KnowInv, Namers, OneBusy, Busy, PlaceInv, NameInv, ProcInv
<1> QED BY <1>3, <1>1, <1>2, <1>4, <1>5, <1>6, <1>7, <1>8

LEMMA RespawnDoneStep ==
  ASSUME IInv, SerialUse, NEW p \in Pids, RespawnDone(p)
  PROVE  IInv'
<1> USE PidAssumption DEF IInv, SerialUse, RespawnDone, Goto, Runs, filevars, Modes, Inodes
<1>1. TypeOK'
  BY DEF TypeOK
<1>2. ProcInv'
  BY DEF TypeOK, ProcInv, PlaceInv
<1>3. TermInv'
  BY DEF TermInv
<1>4. PlaceInv'
  BY DEF TypeOK, ProcInv, PlaceInv, Starters
<1>5. FileInv'
  BY DEF TypeOK, FileInv, PlaceInv, KnowInv
<1>6. OneBusy'
  BY DEF TypeOK, OneBusy, Busy, PlaceInv
<1>7. NameInv'
  BY DEF TypeOK, NameInv, Namers, OneBusy, Busy, PlaceInv, KnowInv
<1>8. KnowInv'
  BY DEF TypeOK, KnowInv, Namers, OneBusy, Busy, PlaceInv, NameInv, ProcInv
<1> QED BY <1>3, <1>1, <1>2, <1>4, <1>5, <1>6, <1>7, <1>8

LEMMA KillStep ==
  ASSUME IInv, SerialUse, NEW p \in Pids, Kill(p)
  PROVE  IInv'
<1> USE PidAssumption DEF IInv, SerialUse, Kill, Goto, Runs, filevars, Modes, Inodes
<1>1. TypeOK'
  <2>1. seen[p] \in Pids
    BY DEF KnowInv
  <2>2. CASE prog[seen[p]] = "none"
    BY <2>2 DEF TypeOK
  <2>3. CASE prog[seen[p]] # "none"
    BY <2>1, <2>3 DEF TypeOK
  <2> QED BY <2>2, <2>3
<1>2. ProcInv'
  BY DEF TypeOK, ProcInv, PlaceInv
<1>3. TermInv'
  <2>1. mode[p] = "stop" /\ mode[p] \in family
    BY DEF ProcInv, PlaceInv
  <2>2. "app" \notin family
    BY <2>1 DEF TypeOK
  <2> QED BY <2>2 DEF TermInv
<1>4. PlaceInv'
  BY DEF TypeOK, ProcInv, PlaceInv, Starters
<1>5. FileInv'
  BY DEF TypeOK, FileInv, PlaceInv, KnowInv
<1>6. OneBusy'
  BY DEF TypeOK, OneBusy, Busy, PlaceInv
<1>7. NameInv'
  BY DEF TypeOK, NameInv, Namers, OneBusy, Busy, PlaceInv, KnowInv
<1>8. KnowInv'
  BY DEF TypeOK, KnowInv, Namers, OneBusy, Busy, PlaceInv, NameInv, ProcInv
<1> QED BY <1>3, <1>1, <1>2, <1>4, <1>5, <1>6, <1>7, <1>8

LEMMA FinalStep ==
  ASSUME IInv, SerialUse, NEW p \in Pids, Final(p)
  PROVE  IInv'
<1> USE PidAssumption DEF IInv, SerialUse, Final, Maker, Gone, Runs, filevars, Modes, Inodes
<1>1. TypeOK'
  BY DEF TypeOK
<1>2. ProcInv'
  BY DEF TypeOK, ProcInv, PlaceInv
<1>3. TermInv'
  <2>1. mode[p] # "app" /\ mode[p] \in family
    BY DEF ProcInv, PlaceInv
  <2>2. "app" \notin family
    BY <2>1 DEF TypeOK
  <2> QED BY <2>2 DEF TermInv
<1>4. PlaceInv'
  BY DEF TypeOK, ProcInv, PlaceInv, Starters
<1>5. FileInv'
  BY DEF TypeOK, FileInv, PlaceInv, KnowInv
<1>6. OneBusy'
  BY DEF TypeOK, OneBusy, Busy, PlaceInv
<1>7. NameInv'
  BY DEF TypeOK, NameInv, Namers, OneBusy, Busy, PlaceInv, KnowInv
<1>8. KnowInv'
  BY DEF TypeOK, KnowInv, Namers, OneBusy, Busy, PlaceInv, NameInv, ProcInv
<1> QED BY <1>3, <1>1, <1>2, <1>4, <1>5, <1>6, <1>7, <1>8

LEMMA AppStopStep ==
  ASSUME IInv, SerialUse, NEW p \in Pids, AppStop(p)
  PROVE  IInv'
<1> USE PidAssumption DEF IInv, SerialUse, AppStop, Goto, filevars, Modes, Inodes
<1>1. TypeOK'
  BY DEF TypeOK
<1>2. ProcInv'
  BY DEF TypeOK, ProcInv, PlaceInv
<1>3. TermInv'
  BY DEF TermInv
<1>4. PlaceInv'
  BY DEF TypeOK, ProcInv, PlaceInv, Starters
<1>5. FileInv'
  BY DEF TypeOK, FileInv, PlaceInv, KnowInv
<1>6. OneBusy'
  BY DEF TypeOK, OneBusy, Busy, PlaceInv
<1>7. NameInv'
  BY DEF TypeOK, NameInv, Namers, OneBusy, Busy, PlaceInv, KnowInv
<1>8. KnowInv'
  BY DEF TypeOK, KnowInv, Namers, OneBusy, Busy, PlaceInv, NameInv, ProcInv
<1> QED BY <1>3, <1>1, <1>2, <1>4, <1>5, <1>6, <1>7, <1>8

LEMMA AppPurgeStep ==
  ASSUME IInv, SerialUse, NEW p \in Pids, AppPurge(p)
  PROVE  IInv'
<1> USE PidAssumption DEF IInv, SerialUse, AppPurge, Goto, filevars, Modes, Inodes
<1>1. Namers = {p} /\ Namers' = {}
  <2>1. Namers = {p}
    BY DEF NameInv, Namers, PlaceInv, ProcInv, TermInv, TypeOK
  <2> QED BY <2>1 DEF TypeOK, Namers
<1>2. TypeOK'
  BY DEF TypeOK
<1>3. ProcInv'
  BY DEF TypeOK, ProcInv, PlaceInv
<1>4. TermInv'
  BY DEF TermInv
<1>5. PlaceInv'
  BY DEF TypeOK, ProcInv, PlaceInv, Starters
<1>6. FileInv'
  BY DEF TypeOK, FileInv, PlaceInv, KnowInv
<1>7. OneBusy'
  BY DEF TypeOK, OneBusy, Busy, PlaceInv
<1>8. NameInv'
  BY <1>1 DEF NameInv
<1>9. KnowInv'
  BY <1>1 DEF TypeOK, KnowInv, PlaceInv
<1> QED BY <1>4, <1>2, <1>3, <1>5, <1>6, <1>7, <1>8, <1>9

LEMMA SpawnStep ==
  ASSUME IInv, SerialUse, NEW p \in Pids, NEW m \in Modes, Spawn(p, m)
  PROVE  IInv'
<1> USE PidAssumption DEF IInv, SerialUse, Spawn, filevars, Modes, Inodes
<1>1. TypeOK'
  BY DEF TypeOK
<1>2. ProcInv'
  BY DEF TypeOK, ProcInv, PlaceInv
<1>3. TermInv'
  BY DEF TermInv
<1>4. PlaceInv'
  BY DEF TypeOK, ProcInv, PlaceInv, Starters
<1>5. FileInv'
  BY DEF TypeOK, FileInv, PlaceInv, KnowInv
<1>6. OneBusy'
  BY DEF TypeOK, OneBusy, Busy, PlaceInv
<1>7. NameInv'
  BY DEF TypeOK, NameInv, Namers, OneBusy, Busy, PlaceInv, KnowInv
<1>8. KnowInv'
  BY DEF TypeOK, KnowInv, Namers, OneBusy, Busy, PlaceInv, NameInv, ProcInv
<1> QED BY <1>3, <1>1, <1>2, <1>4, <1>5, <1>6, <1>7, <1>8

LEMMA SpawnOtherStep ==
  ASSUME IInv, SerialUse, NEW p \in Pids, SpawnOther(p)
  PROVE  IInv'
<1> USE PidAssumption DEF IInv, SerialUse, SpawnOther, filevars, Modes, Inodes
<1>1. TypeOK'
  BY DEF TypeOK
<1>2. ProcInv'
  BY DEF TypeOK, ProcInv, PlaceInv
<1>3. TermInv'
  BY DEF TermInv
<1>4. PlaceInv'
  BY DEF TypeOK, ProcInv, PlaceInv, Starters
<1>5. FileInv'
  BY DEF TypeOK, FileInv, PlaceInv, KnowInv
<1>6. OneBusy'
  BY DEF TypeOK, OneBusy, Busy, PlaceInv
<1>7. NameInv'
  BY DEF TypeOK, NameInv, Namers, OneBusy, Busy, PlaceInv, KnowInv
<1>8. KnowInv'
  BY DEF TypeOK, KnowInv, Namers, OneBusy, Busy, PlaceInv, NameInv, ProcInv
<1> QED BY <1>3, <1>1, <1>2, <1>4, <1>5, <1>6, <1>7, <1>8

LEMMA DieStep ==
  ASSUME IInv, SerialUse, NEW p \in Pids, Die(p)
  PROVE  IInv'
<1> USE PidAssumption DEF IInv, SerialUse, Die, Gone, Harmless, filevars, Modes, Inodes
<1>1. TypeOK'
  BY DEF TypeOK
<1>2. ProcInv'
  BY DEF TypeOK, ProcInv, PlaceInv
<1>3. TermInv'
  BY DEF TermInv
<1>4. PlaceInv'
  BY DEF TypeOK, ProcInv, PlaceInv, Starters
<1>5. FileInv'
  BY DEF TypeOK, FileInv, PlaceInv, KnowInv
<1>6. OneBusy'
  BY DEF TypeOK, OneBusy, Busy, PlaceInv
<1>7. NameInv'
  BY DEF TypeOK, NameInv, Namers, OneBusy, Busy, PlaceInv, KnowInv
<1>8. KnowInv'
  BY DEF TypeOK, KnowInv, Namers, OneBusy, Busy, PlaceInv, NameInv, ProcInv
<1> QED BY <1>3, <1>1, <1>2, <1>4, <1>5, <1>6, <1>7, <1>8

-----------------------------------------------------------------------------

LEMMA InitIInv == Init => IInv
<1> SUFFICES ASSUME Init PROVE IInv
  OBVIOUS
<1> USE PidAssumption DEF Init, IInv
<1>1. TypeOK
  BY DEF TypeOK, Inodes
<1>2. ProcInv /\ PlaceInv /\ OneBusy
  BY DEF ProcInv, PlaceInv, OneBusy, Busy
<1>3. Namers = {}
  BY DEF Namers
<1>4. FileInv
  BY DEF FileInv, Inodes
<1>5. NameInv /\ KnowInv /\ TermInv
  BY <1>3 DEF NameInv, KnowInv, TermInv
<1> QED BY <1>1, <1>2, <1>4, <1>5

LEMMA StutterIInv == IInv /\ UNCHANGED vars => IInv'
BY DEF IInv, vars, filevars, TypeOK, ProcInv, PlaceInv, FileInv, OneBusy, Busy,
       NameInv, KnowInv, TermInv, Namers

LEMMA NextIInv ==
  ASSUME SerialUse, IInv, [Next]_vars
  PROVE  IInv'
<1>1. CASE UNCHANGED vars
  BY <1>1, StutterIInv
<1>2. CASE Next
  <2>1. PICK p \in Pids : (\E m \in Modes : Spawn(p, m)) \/ SpawnOther(p) \/ Die(p) \/ Step(p)
    BY <1>2 DEF Next
  <2>2. CASE \E m \in Modes : Spawn(p, m)
    BY <2>2, SpawnStep
  <2>3. CASE SpawnOther(p) \/ Die(p)
    BY <2>3, SpawnOtherStep, DieStep
  <2>4. CASE Step(p)
    BY <2>4, OpenLockStep, ReadLockStep, ExistsStep, CompareNameStep, AccessStep, CreateStep,
       PurgeStep, RecreateStep, WriteLockStep, WriteFailsStep, UnwriteStep, ExecStep,
       RespawnDoneStep, KillStep, FinalStep, AppStopStep, AppPurgeStep DEF Step
  <2> QED BY <2>1, <2>2, <2>3, <2>4
<1> QED BY <1>1, <1>2

LEMMA SpecIInv == ASSUME SerialUse PROVE Spec => []IInv
<1>1. IInv /\ [Next]_vars => IInv'
  BY NextIInv
<1> QED BY InitIInv, <1>1, PTL DEF Spec

-----------------------------------------------------------------------------

\* The variables have the values TypeOK says: nobody reads a file it has not
\* opened or asks for a pid it has not read.
THEOREM TypeCorrect == ASSUME SerialUse PROVE Spec => []TypeOK
<1>1. IInv => TypeOK
  BY DEF IInv
<1> QED BY SpecIInv, <1>1, PTL

\* The lock file leads to the instance that runs, for as long as it runs or until a
\* --status removes the file: no start, no --stop, no crash and no failed write takes
\* it away.
THEOREM LockNamesCorrect == ASSUME SerialUse PROVE Spec => []LockNamesInstance
<1>1. IInv => LockNamesInstance
  BY DEF IInv, NameInv, Namers, LockNamesInstance, Holders
<1> QED BY SpecIInv, <1>1, PTL

\* open_exclusive_pidlock() lets one instance in at most, whatever crashed before,
\* besides those that a --status has parted from their lock file.
THEOREM AtMostOneCorrect == ASSUME SerialUse PROVE Spec => []AtMostOneInstance
<1>1. ASSUME IInv PROVE AtMostOneInstance
  <2>1. Holders \ stripped \subseteq {content[path]}
    BY <1>1 DEF IInv, NameInv, Namers, Holders
  <2>2. Holders \ stripped = {} \/ Holders \ stripped = {content[path]}
    BY <2>1
  <2>3. Cardinality({}) = 0 /\ Cardinality({content[path]}) = 1
    BY FS_EmptySet, FS_Singleton
  <2> QED BY <2>2, <2>3 DEF AtMostOneInstance
<1>2. IInv => AtMostOneInstance
  BY <1>1
<1> QED BY SpecIInv, <1>2, PTL

\* The conclusion of RefusalHasReason for one process
HasReason(p) ==
  \/ \E q \in Pids \ {p} : pc[q] \in {"exec", "live", "stopping", "exiting", "final"}
  \/ seen[p] = p
  \/ mode[p] = "app" /\ prog[seen[p]] # "none"

Refused(p) == mode[p] \notin {"stop", "status"} /\ pc[p] # "refused" /\ pc'[p] = "refused"

\* Only a lock found to be ours refuses a start
LEMMA RefusedByOurs ==
  ASSUME SerialUse, IInv, Next, NEW p \in Pids, Refused(p)
  PROVE  Ours(p) /\ (Exists(p) \/ (CompareName(p) /\ prog[seen[p]] = want[p]))
<1> USE DEF Refused
<1>1. pc = [x \in Pids |-> pc[x]]
  BY DEF IInv, TypeOK
<1>2. ~(Asking(p) /\ NotOurs(p))
  BY NotOursOutcome, <1>1 DEF Moves, Starters
<1>3. PICK q \in Pids : (\E m \in Modes : Spawn(q, m)) \/ SpawnOther(q) \/ Die(q) \/ Step(q)
  BY DEF Next
<1>4. ~(\E m \in Modes : Spawn(q, m)) /\ ~SpawnOther(q) /\ ~Die(q)
  BY <1>1 DEF Spawn, SpawnOther, Die, Gone
<1>5. CASE OpenLock(q) \/ ReadLock(q) \/ Exists(q) \/ CompareName(q)
  <2>1. q = p
    <3>1. Asking(q)
      BY <1>5 DEF OpenLock, ReadLock, Exists, CompareName, Asking
    <3>2. NotOurs(q) => \E l : Moves(q, l)
      BY <3>1, NotOursOutcome
    <3>3. Ours(q) => \E l : Moves(q, l)
      BY <3>1, OursOutcome
    <3>4. Goto(q, "read") \/ Goto(q, "exists") \/ Goto(q, "name") => \E l : Moves(q, l)
      BY DEF Goto, Moves
    <3>5. \E l : Moves(q, l)
      <4>1. OpenLock(q) => NotOurs(q) \/ Goto(q, "read")
        BY DEF OpenLock
      <4>2. ReadLock(q) => NotOurs(q) \/ Goto(q, "exists")
        BY DEF ReadLock
      <4>3. Exists(q) => NotOurs(q) \/ Ours(q) \/ Goto(q, "name")
        BY DEF Exists
      <4>4. CompareName(q) => NotOurs(q) \/ Ours(q)
        BY DEF CompareName
      <4> QED BY <1>5, <3>2, <3>3, <3>4, <4>1, <4>2, <4>3, <4>4
    <3> QED BY <1>1, <3>5 DEF Moves
  <2>2. ~NotOurs(p)
    BY <1>2, <1>5, <2>1 DEF OpenLock, ReadLock, Exists, CompareName, Asking
  <2>3. ~Goto(p, "read") /\ ~Goto(p, "exists") /\ ~Goto(p, "name")
    BY <1>1 DEF Goto
  <2>4. ~OpenLock(p)
    BY <2>2, <2>3 DEF OpenLock
  <2>5. ~ReadLock(p)
    BY <2>2, <2>3 DEF ReadLock
  <2>6. Exists(p) => Ours(p)
    BY <2>2, <2>3 DEF Exists
  <2>7. CompareName(p) => Ours(p) /\ prog[seen[p]] = want[p]
    BY <2>2 DEF CompareName
  <2>8. OpenLock(p) \/ ReadLock(p) \/ Exists(p) \/ CompareName(p)
    BY <1>5, <2>1
  <2> QED BY <2>4, <2>5, <2>6, <2>7, <2>8
<1>6. ~(Step(q) /\ ~(OpenLock(q) \/ ReadLock(q) \/ Exists(q) \/ CompareName(q) \/ Kill(q)))
  BY <1>1 DEF Step, Access, Create, Purge, Recreate, WriteLock, WriteFails, Unwrite, Exec,
     RespawnDone, Final, AppStop, AppPurge, Goto, Gone
<1>7. ~Kill(q)
  BY <1>1 DEF Kill, Goto, IInv, PlaceInv
<1> QED BY <1>3, <1>4, <1>5, <1>6, <1>7 DEF Step

\* A start is refused only with a reason: an instance that is still there.
THEOREM RefusalCorrect == ASSUME SerialUse PROVE Spec => RefusalHasReason
<1>1. ASSUME IInv, [Next]_vars, NEW p \in Pids, Refused(p)
      PROVE  HasReason(p)
  <2>1. Next
    BY <1>1 DEF vars, Refused
  <2>2. Ours(p) /\ (Exists(p) \/ (CompareName(p) /\ prog[seen[p]] = want[p]))
    BY <1>1, <2>1, RefusedByOurs
  <2>3. CASE mode[p] = "app"
    <3>1. Exists(p) /\ ~NotOurs(p)
      BY <1>1, <2>2, <2>3, NotOursOutcome DEF IInv, TypeOK, PlaceInv, CompareName, Refused,
         Exists, Asking, Moves, Starters
    <3> QED BY <2>3, <3>1 DEF Exists, HasReason
  <2>4. CASE mode[p] # "app"
    <3>1. CompareName(p) /\ prog[seen[p]] = want[p]
      BY <1>1, <2>2, <2>4 DEF IInv, TypeOK, Exists, PlaceInv, NotOurs, Ours, Goto, Refused
    <3>2. seen[p] \in Pids /\ want[p] \in {"cmd", "dmn"}
      BY <1>1, <2>4, <3>1 DEF IInv, TypeOK, KnowInv, PlaceInv, CompareName
    <3>3. CASE seen[p] # p
      <4> DEFINE q == seen[p]
      <4>1. pc[q] # "off" /\ ~Busy(q)
        BY <1>1, <3>1, <3>2, <3>3 DEF IInv, ProcInv, OneBusy, Busy, CompareName
      <4> QED BY <3>2, <3>3, <4>1 DEF HasReason, Busy
    <3> QED BY <3>3 DEF HasReason
  <2> QED BY <2>3, <2>4
<1>2. IInv /\ [Next]_vars => [\A p \in Pids : Refused(p) => HasReason(p)]_vars
  BY <1>1
<1>3. Spec => [][\A p \in Pids : Refused(p) => HasReason(p)]_vars
  BY <1>2, SpecIInv, PTL DEF Spec
<1> QED BY <1>3 DEF RefusalHasReason, Refused, HasReason
===============================================================================
