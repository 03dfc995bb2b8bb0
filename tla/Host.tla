-------------------------------- MODULE Host --------------------------------
(***************************************************************************)
(* One node on one host (apps/edge-node/src): worker processes, the        *)
(* pidfile they take (lock.ts), the state file (state.ts), the supervisor  *)
(* and the commands that drive it (service.ts, main.ts), and the upgrade   *)
(* the hub asks for (update.ts).  Of the hub link only what the state file *)
(* and the commands see is here: welcomed, rejected, parked, dropped.      *)
(*                                                                         *)
(* One operator types one command at a time, and may die in the middle of  *)
(* it.  node.json is written in one step, though the code reads, merges    *)
(* and writes.                                                             *)
(***************************************************************************)
EXTENDS Integers, FiniteSets

CONSTANTS
  Pids,
  Old, New,        \* enrolment tokens: the first one, and the one of a re-enrolment
  None,
  MaxEvents        \* bound: commands, workers of a terminal, upgrades, deaths and reboots

HostAssumption ==
  /\ IsFiniteSet(Pids) /\ None \notin Pids /\ Old # New /\ None \notin {Old, New}
  /\ MaxEvents \in Nat

Tokens == {Old, New}

VARIABLES
  manager,   \* launchd or systemd
  unit,      \* the unit file: none, one of an older client with a token in it, ours
  loaded,    \* the supervisor keeps the service up
  disabled,  \* and has been told not to, for good
  proc,      \* the processes of this client
  lock,      \* the pid in node.pid
  disk,      \* node.json: enrolToken and desired
  ledger,    \* the pids that jobs.json has jobs of
  good,      \* the tokens the hub accepts
  cmd,       \* the operator's command
  asked,     \* how the last command ended, unless it failed or has been undone since
  ran,       \* a worker has booted since the stop under way looked for one, or an upgrade
             \* has unloaded the service that the start under way found up
  rivals,    \* pairs that were between reading and writing the pidfile together
  victims,   \* workers such a rival took the lock from
  events     \* the events still to come

host  == <<manager, unit, loaded, disabled>>
files == <<lock, disk, ledger>>
past  == <<asked, ran, rivals, victims>>
vars  == <<host, proc, files, good, cmd, past, events>>

Event == events > 0 /\ events' = events - 1

NoProc == [kind |-> "none", phase |-> "gone", token |-> None, job |-> FALSE, upg |-> "none"]
NoCmd  == [verb |-> "none", step |-> "none", token |-> None, force |-> FALSE, busy |-> {}]

Alive(p)   == proc[p].phase # "gone"          \* isAlive; a process told to die still is
Running(p) == Alive(p) /\ proc[p].phase # "dying"
Working(p) == proc[p].phase \in {"dial", "up", "parked"}
Service    == {p \in Pids : proc[p].kind = "service"}

TypeOK ==
  /\ manager \in {"launchd", "systemd"} /\ unit \in {"none", "older", "ours"}
  /\ loaded \in BOOLEAN /\ disabled \in BOOLEAN
  /\ proc \in [Pids -> [kind : {"none", "service", "terminal"},
                        phase : {"gone", "locking", "dial", "up", "parked", "dying"},
                        token : Tokens \cup {None}, job : BOOLEAN,
                        upg : {"none", "accepted", "installed"}]]
  /\ Cardinality(Service) <= 1
  /\ \A p \in Pids : (proc[p].kind = "none" <=> ~Alive(p)) /\ (proc[p].job => p \in ledger \cup victims)
  /\ lock \in Pids \cup {None}
  /\ disk \in [token : Tokens \cup {None}, desired : {"none", "running", "stopped"}]
  /\ ledger \subseteq Pids /\ good \subseteq Tokens
  /\ cmd \in [verb : {"none", "start", "restart", "stop", "install", "uninstall", "update"},
              step : {"none", "enrol", "guard", "ensure", "kick", "unload", "reload", "load",
                      "halt", "remove", "running", "mistaken", "stopped", "foreign"},
              token : Tokens \cup {None}, force : BOOLEAN, busy : SUBSET Pids]
  /\ asked \in {"nothing", "run", "idle", "foreign"} /\ ran \in BOOLEAN
  /\ rivals \subseteq {s \in SUBSET Pids : Cardinality(s) = 2} /\ victims \subseteq Pids
  /\ events \in 0..MaxEvents

\* A host nobody has installed anything on, or one that this or an older client serves.
Init ==
  /\ manager \in {"launchd", "systemd"}
  /\ \/ unit = "none" /\ loaded = FALSE /\ disk = [token |-> None, desired |-> "none"]
     \/ unit \in {"older", "ours"} /\ loaded = TRUE /\ disk = [token |-> Old, desired |-> "running"]
  /\ disabled = FALSE
  /\ proc = [p \in Pids |-> NoProc] /\ lock = None /\ ledger = {}
  /\ good \in {{Old}, {Old, New}}
  /\ cmd = NoCmd /\ asked = "nothing" /\ ran = FALSE /\ rivals = {} /\ victims = {}
  /\ events = MaxEvents

-----------------------------------------------------------------------------
(***************************************************************************)
(* A worker: `start --foreground`.                                         *)
(***************************************************************************)

\* Definitions named <Definition>_<Mistake> are mutants: plausible mistakes in
\* the code, in no action of the model, that the properties are tried against.

\* What the history remembers of the process that had this pid before.
Forget(p) ==
  /\ rivals' = {s \in rivals : p \notin s} /\ victims' = victims \ {p}
  /\ cmd' = [cmd EXCEPT !.busy = @ \ {p}]

HeldByOther_Corpse(p) == lock \notin {None, p}

\* acquireLock's test: a pid of a process that no longer lives is stale.
HeldByOther(p) == lock \notin {None, p} /\ Alive(lock)

\* The pids a new process may get; of those that nothing remembers one is enough.
Free ==
  LET dead == {p \in Pids : ~Alive(p)}
      kept == {p \in dead : p = lock \/ p \in ledger}
  IN  kept \cup (IF dead = kept THEN {} ELSE {CHOOSE p \in dead \ kept : TRUE})

\* A process starts and reads the pidfile; one that finds it held exits, and is not seen here.
Begin(p, kind, token) ==
  /\ p \in Free /\ ~HeldByOther(p)
  /\ proc' = [proc EXCEPT ![p] = [NoProc EXCEPT !.kind = kind, !.phase = "locking", !.token = token]]
  /\ rivals' = rivals \cup {{p, q} : q \in {q \in Pids : proc[q].phase = "locking"}}
  /\ UNCHANGED <<host, files, good, cmd, asked, ran, victims>>

\* The supervisor keeps one process of the service up (KeepAlive, Restart=on-failure); the
\* unit of an older client exports a token.
Spawn(p) ==
  /\ loaded /\ Service = {}
  /\ Begin(p, "service", IF unit = "older" THEN Old ELSE None) /\ UNCHANGED events

\* Somebody else (a terminal, pm2, a container) runs the worker.
Foreground(p, token) ==
  /\ Event
  /\ \A q \in Pids : proc[q].kind # "terminal"
  /\ Begin(p, "terminal", token)

\* resolveEnrolToken: under our supervisor the state file outranks the environment,
\* elsewhere the environment outranks the state file.
ResolveToken(p) ==
  LET env == proc[p].token IN
  IF proc[p].kind = "service" THEN IF disk.token # None THEN disk.token ELSE env
  ELSE IF env # None THEN env ELSE disk.token

\* It writes it, and boots: what earlier processes left in the ledger is reconciled, the
\* operator is taken to want the node up.
WriteLock(p) ==
  /\ proc[p].phase = "locking"
  /\ lock' = p
  /\ proc' = [proc EXCEPT ![p].phase = "dial", ![p].token = ResolveToken(p)]
  /\ ledger' = ledger \cap {p}
  /\ disk' = [disk EXCEPT !.desired = "running"]
  /\ ran' = (ran \/ cmd.step \in {"stopped", "foreign"})
  /\ asked' = IF asked \in {"idle", "foreign"} THEN "nothing" ELSE asked
  /\ victims' = victims \cup {q \in {lock} : {p, q} \in rivals /\ Alive(q)}
  /\ UNCHANGED <<host, good, cmd, rivals, events>>

\* persistEnrolment.
Persist(token) == disk' = [disk EXCEPT !.token = token]

\* The hub accepts the token: onEnrolled caches the one it accepted.
Welcome(p) ==
  /\ proc[p].phase = "dial" /\ proc[p].token \in good
  /\ proc' = [proc EXCEPT ![p].phase = "up"]
  /\ Persist(proc[p].token)
  /\ UNCHANGED <<host, lock, ledger, good, cmd, past, events>>

\* The hub rejects it: the worker stays up, parked.
Reject(p) ==
  /\ proc[p].phase = "dial" /\ proc[p].token \notin good
  /\ proc' = [proc EXCEPT ![p].phase = "parked"]
  /\ UNCHANGED <<host, files, good, cmd, past, events>>

\* refreshEnrolToken reads the state file, whatever the environment says.
Fresh(p) == disk.token

\* The poll of a parked worker: another token than the rejected one is tried in place.
Poll(p) ==
  /\ proc[p].phase = "parked" /\ Fresh(p) \notin {None, proc[p].token}
  /\ proc' = [proc EXCEPT ![p].phase = "dial", ![p].token = Fresh(p)]
  /\ UNCHANGED <<host, files, good, cmd, past, events>>

\* The link drops; while its token is good the worker is welcomed again, which changes
\* nothing here.
Drop(p) ==
  /\ proc[p].phase = "up" /\ proc[p].token \notin good
  /\ proc' = [proc EXCEPT ![p].phase = "dial"]
  /\ UNCHANGED <<host, files, good, cmd, past, events>>

BeginJob(p) ==
  /\ proc[p].phase = "up" /\ ~proc[p].job /\ proc[p].upg # "installed"
  /\ proc' = [proc EXCEPT ![p].job = TRUE] /\ ledger' = ledger \cup {p}
  /\ UNCHANGED <<host, lock, disk, good, cmd, past, events>>

EndJob(p) ==
  /\ Working(p) /\ proc[p].job
  /\ proc' = [proc EXCEPT ![p].job = FALSE] /\ ledger' = ledger \ {p}
  /\ cmd' = [cmd EXCEPT !.busy = @ \ {p}]
  /\ UNCHANGED <<host, lock, disk, good, past, events>>

Released_Blindly(p) == None

\* releaseLock: only while the pidfile names this process.
Released(p) == IF lock = p THEN None ELSE lock

\* A worker dies: by process.exit, which releases the lock, or without it.
Die(p, released) ==
  /\ Event
  /\ Running(p)
  /\ proc' = [proc EXCEPT ![p] = NoProc]
  /\ lock' = IF released /\ Working(p) THEN Released(p) ELSE lock
  /\ Forget(p)
  /\ UNCHANGED <<host, disk, ledger, good, asked, ran>>

\* A process the supervisor killed is gone at last.  SIGTERM runs no exit handler.
Gone(p) ==
  /\ proc[p].phase = "dying" /\ proc' = [proc EXCEPT ![p] = NoProc]
  /\ Forget(p)
  /\ UNCHANGED <<host, files, good, asked, ran, events>>

Worker == \E p \in Pids :
  \/ Spawn(p) \/ WriteLock(p) \/ Welcome(p) \/ Reject(p) \/ Poll(p)
  \/ Drop(p) \/ BeginJob(p) \/ EndJob(p) \/ Gone(p)
  \/ \E token \in Tokens \cup {None} : Foreground(p, token)
  \/ \E released \in BOOLEAN : Die(p, released)

-----------------------------------------------------------------------------
(***************************************************************************)
(* What a command sees and does.                                           *)
(***************************************************************************)

Killed == [p \in Pids |-> IF p \in Service /\ Running(p) THEN [proc[p] EXCEPT !.phase = "dying"]
                          ELSE proc[p]]

Holder == IF lock # None /\ Alive(lock) THEN lock ELSE None

\* The process the supervisor may say runs: launchd may say so of one on its way out.
Reported == IF manager = "launchd" THEN Service ELSE {p \in Service : Running(p)}

\* What liveNodePid may answer: the process of the service, or else the live holder of the
\* lock.
Seen ==
  IF unit = "none" \/ Reported = {} THEN {Holder}
  ELSE IF \E p \in Service : Running(p) THEN Service
  ELSE Service \cup {Holder}

\* inFlightJobsNow, of the one live node that was found.
Busy(live) == live \in ledger

Guarded_Never(force, live) == FALSE

\* guardBusy.
Guarded(force, live) == ~force /\ Busy(live)

Go(step) == cmd' = [cmd EXCEPT !.step = step, !.token = None]
Fail == cmd' = NoCmd

\* Is there a token to enrol with?
HasToken == disk.token # None

Typed == [verb : {"start", "restart", "stop", "install", "uninstall", "update"},
          token : Tokens \cup {None}, force : BOOLEAN]

FirstStep(verb) ==
  CASE verb = "start" -> "enrol"
    [] verb \in {"restart", "stop", "update"} -> "guard"
    [] verb = "install" -> "reload"
    [] verb = "uninstall" -> "halt"

\* The operator types a command: only `start` is given a token here, only `restart` and
\* `stop` know --force.  `update` is an upgrade that landed and a restart that was wanted.
Type(c) ==
  /\ cmd = NoCmd /\ Event
  /\ c.token # None => c.verb = "start"
  /\ c.force => c.verb \in {"restart", "stop"}
  /\ c.verb \in {"install"} => disk.token # None
  /\ c.verb = "update" => None \notin Seen
  /\ c.verb = "uninstall" => unit # "none"
  /\ cmd' = [verb |-> c.verb, step |-> FirstStep(c.verb), token |-> c.token, force |-> c.force,
             busy |-> {}]
  /\ asked' = "nothing"
  /\ UNCHANGED <<host, proc, files, good, ran, rivals, victims>>

\* The probe of enrolToDisk: what the hub says of the token, or no answer.
Probe(token) == {"none"} \cup (IF token \in good THEN {"ok"} ELSE {"rejected"})

\* enrolToDisk.  Only a rejection keeps the token off the disk; a changed token is a
\* restart, not a start (serviceActionFor).
EnrolToDisk ==
  /\ cmd.step = "enrol"
  /\ IF cmd.token \in {None, disk.token}
       THEN Go("ensure") /\ UNCHANGED disk
       ELSE \E answer \in Probe(cmd.token) :
              IF answer = "rejected" THEN Fail /\ UNCHANGED disk
              ELSE Persist(cmd.token) /\ Go("guard")
  /\ UNCHANGED <<host, proc, lock, ledger, good, past, events>>

\* The busy check of restart and stop.
GuardBusy ==
  /\ cmd.step = "guard"
  /\ \E live \in Seen :
       IF Guarded(cmd.force, live) THEN Fail
       ELSE cmd' = [cmd EXCEPT !.step = IF cmd.verb = "stop" THEN "halt" ELSE "kick",
                               !.force = FALSE,
                               !.busy = {p \in Pids \ victims : proc[p].job /\ ~cmd.force}]
  /\ UNCHANGED <<host, proc, files, good, past, events>>

\* The supervisor restarts the service in one act, if it has it loaded (systemd will start
\* it anyhow), or refuses.
Kick(ok) ==
  /\ ok => loaded \/ manager = "systemd"
  /\ IF ok THEN loaded' = TRUE /\ proc' = Killed ELSE UNCHANGED <<loaded, proc>>
  /\ UNCHANGED <<manager, unit, disabled>>

\* runNodeRestart after its guard: of a node that runs, ask the supervisor; otherwise, or
\* if that is refused, stop and start.
Kickstart ==
  /\ cmd.step = "kick"
  /\ \/ /\ unit # "none" /\ \E live \in Seen : live # None
        /\ \E ok \in BOOLEAN : Kick(ok) /\ Go(IF ok THEN "running" ELSE "unload")
     \/ /\ unit = "none" \/ None \in Seen
        /\ Go(IF unit = "none" THEN "load" ELSE "unload")
        /\ UNCHANGED <<host, proc>>
  /\ UNCHANGED <<files, good, past, events>>

\* restartStopCommands: without the disable flag.
RestartStop ==
  /\ cmd.step = "unload"
  /\ loaded' = FALSE /\ proc' = Killed
  /\ Go("load")
  /\ UNCHANGED <<manager, unit, disabled, files, good, past, events>>

\* runNodeStart of a `start`: a service that runs from the unit this client would write is
\* left alone.  A process on its way out may be taken for one that runs.
EnsureRunning ==
  /\ cmd.step = "ensure"
  /\ IF ~HasToken /\ unit = "none" THEN Fail
     ELSE \/ unit = "ours" /\ \E p \in Reported : Go(IF Running(p) THEN "running" ELSE "mistaken")
          \/ ~(unit = "ours" /\ \E p \in Service : Running(p)) /\ Go("reload")
  /\ UNCHANGED <<host, proc, files, good, past, events>>

\* The unit is written; launchd has to let go of the old one, and the service with it.
Reload ==
  /\ cmd.step = "reload"
  /\ unit' = "ours" /\ Go("load")
  /\ IF manager = "launchd" THEN loaded' = FALSE /\ proc' = Killed ELSE UNCHANGED <<loaded, proc>>
  /\ UNCHANGED <<manager, disabled, files, good, past, events>>

Load_AsksAgain ==
  /\ cmd.step = "load"
  /\ \/ /\ HasToken \/ unit # "none"
        /\ IF Service # {} THEN UNCHANGED <<loaded, disabled>> ELSE loaded' = TRUE /\ disabled' = FALSE
        /\ unit' = "ours" /\ Go("running")
     \/ /\ unit' = (IF HasToken \/ unit # "none" THEN "ours" ELSE unit)
        /\ UNCHANGED <<loaded, disabled>> /\ Fail
  /\ UNCHANGED <<manager, proc, files, good, past, events>>

\* installCommands to the end (`load -w`, `enable --now`), or a failure on the way.  It
\* does not ask whether the service runs.
Load ==
  /\ cmd.step = "load"
  /\ \/ /\ HasToken \/ unit # "none"
        /\ unit' = "ours" /\ loaded' = TRUE /\ disabled' = FALSE
        /\ Go("running")
     \/ /\ unit' = (IF HasToken \/ unit # "none" THEN "ours" ELSE unit)
        /\ UNCHANGED <<loaded, disabled>> /\ Fail
  /\ UNCHANGED <<manager, proc, files, good, past, events>>

Foreign_Trusting(servicePids) == FALSE

\* foreignNodePid: does somebody the service does not own hold the lock?
Foreign(servicePids) == lock # None /\ lock \notin servicePids /\ Alive(lock)

\* runNodeStop, and the first half of `service uninstall`.
Halt ==
  /\ cmd.step = "halt"
  /\ IF unit = "none" THEN UNCHANGED <<host, proc>>
     ELSE loaded' = FALSE /\ disabled' = TRUE /\ proc' = Killed /\ UNCHANGED <<manager, unit>>
  /\ Go(IF cmd.verb = "uninstall" THEN "remove"
        ELSE IF Foreign(IF unit = "none" THEN {} ELSE Service) THEN "foreign" ELSE "stopped")
  /\ UNCHANGED <<files, good, past, events>>

\* The second half of `service uninstall`.
Remove ==
  /\ cmd.step = "remove"
  /\ unit' = "none" /\ Fail
  /\ UNCHANGED <<manager, loaded, disabled, proc, files, good, past, events>>

\* The last step: what the operator wants is written down.  `service install` and `update`
\* do not.
Conclude ==
  /\ cmd.step \in {"running", "mistaken", "stopped", "foreign"}
  /\ disk' = IF cmd.verb \in {"install", "update"} THEN disk
             ELSE [disk EXCEPT !.desired = IF cmd.step \in {"running", "mistaken"} THEN "running" ELSE "stopped"]
  /\ ran' = FALSE
  /\ asked' = IF ran THEN "nothing"
              ELSE CASE cmd.step = "running" -> "run"  [] cmd.step = "mistaken" -> "nothing"
                     [] cmd.step = "stopped" -> "idle" [] cmd.step = "foreign"  -> "foreign"
  /\ Fail
  /\ UNCHANGED <<host, proc, lock, ledger, good, rivals, victims, events>>

\* The command dies between two steps.
Interrupt ==
  /\ cmd # NoCmd /\ Event /\ Fail /\ ran' = FALSE
  /\ UNCHANGED <<host, proc, files, good, asked, rivals, victims>>

Command ==
  \/ \E c \in Typed : Type(c)
  \/ EnrolToDisk \/ GuardBusy \/ Kickstart \/ RestartStop \/ EnsureRunning \/ Reload \/ Load
  \/ Halt \/ Remove \/ Conclude \/ Interrupt

-----------------------------------------------------------------------------
(***************************************************************************)
(* The upgrade the hub asks for, and the rest of the world.                *)
(***************************************************************************)

\* planRemoteUpgrade: a busy node refuses before anything is installed.
PlanUpgrade(p) ==
  /\ Event
  /\ proc[p].phase = "up" /\ proc[p].upg = "none"
  /\ \E live \in Seen : ~Busy(live)
  /\ proc' = [proc EXCEPT ![p].upg = "accepted"]
  /\ UNCHANGED <<host, files, good, cmd, past>>

\* The package manager, which keeps the event loop from running.
Install(p) ==
  /\ Working(p) /\ proc[p].upg = "accepted"
  /\ \E ok \in BOOLEAN : proc' = [proc EXCEPT ![p].upg = IF ok THEN "installed" ELSE "none"]
  /\ UNCHANGED <<host, files, good, cmd, past, events>>

\* The restart was refused or failed: the worker goes on as it is, and may be asked again.
GiveUp(p) == proc' = [proc EXCEPT ![p].upg = "none"]

UpgradeFallsBack_Always(p) ==
  /\ loaded' = FALSE /\ proc' = Killed /\ UNCHANGED <<manager, unit, disabled>>

\* Where the supervisor refuses the service itself, it stops there; a worker of a terminal
\* stops and starts the service, of which it is no part.
UpgradeFallsBack(p) ==
  IF p \in Service THEN GiveUp(p) /\ UNCHANGED host
  ELSE \E ok \in BOOLEAN :
         /\ proc' = IF ok THEN Killed ELSE [Killed EXCEPT ![p].upg = "none"]
         /\ loaded' = ok /\ disabled' = (disabled /\ ~ok)
         /\ unit' = "ours" /\ UNCHANGED manager

\* The restart of the upgrade: runNodeRestart in the worker.
RestartSelf(p) ==
  /\ Working(p) /\ proc[p].upg = "installed"
  /\ \E live \in Seen :
       IF Guarded(FALSE, live) THEN GiveUp(p) /\ UNCHANGED host
       ELSE IF unit = "none" THEN GiveUp(p) /\ UNCHANGED host
       ELSE \/ (p \in Service \/ live # None) /\ Kick(TRUE)
            \/ UpgradeFallsBack(p)
  /\ LET undone == loaded /\ ~loaded' IN     \* what a command has just said is no longer so
     /\ asked' = IF undone /\ asked = "run" THEN "nothing" ELSE asked
     /\ ran' = (ran \/ (undone /\ cmd.step = "running"))
  /\ UNCHANGED <<files, good, cmd, rivals, victims, events>>

Reboot ==
  /\ Event
  /\ proc' = [p \in Pids |-> NoProc] /\ cmd' = NoCmd
  /\ loaded' = (unit # "none" /\ ~disabled)
  /\ asked' = IF asked = "run" THEN "nothing" ELSE asked
  /\ ran' = FALSE /\ rivals' = {} /\ victims' = {}
  /\ UNCHANGED <<manager, unit, disabled, files, good>>

\* The hub revokes the first token.
Revoke ==
  /\ Old \in good /\ New \in good /\ good' = {New}
  /\ UNCHANGED <<host, proc, files, cmd, past, events>>

Upgrade == \E p \in Pids : PlanUpgrade(p) \/ Install(p) \/ RestartSelf(p)

Next == Worker \/ Command \/ Upgrade \/ Reboot \/ Revoke

\* The supervisor and the processes run (no pid is promised to be used again); the hub
\* answers a dial some day; polls come.
Fairness ==
  /\ WF_vars(\E p \in Pids \ {lock} : Spawn(p))
  /\ \A p \in Pids :
       /\ WF_vars(WriteLock(p)) /\ WF_vars(Gone(p))
       /\ WF_vars(Welcome(p) \/ Reject(p)) /\ WF_vars(Poll(p))

Spec == Init /\ [][Next]_vars /\ Fairness

-----------------------------------------------------------------------------
(***************************************************************************)
(* What `dahrk status` says (resolvePresence, isUnhealthy).                *)
(***************************************************************************)

\* What the supervisor says of the unit: systemd calls a unit loaded unless it is disabled.
KnownToSupervisor == IF manager = "launchd" THEN loaded ELSE ~disabled

Presence_LoadedFirst ==
  IF \E p \in Service : Running(p) THEN "running"
  ELSE IF lock # None /\ Alive(lock) THEN "foreign"
  ELSE IF unit = "none" THEN "not-installed"
  ELSE IF ~KnownToSupervisor THEN "not-loaded"
  ELSE IF disk.desired = "stopped" THEN "stopped"
  ELSE "crashed"

Presence ==
  IF \E p \in Service : Running(p) THEN "running"
  ELSE IF lock # None /\ Alive(lock) THEN "foreign"
  ELSE IF unit = "none" THEN "not-installed"
  ELSE IF disk.desired = "stopped" THEN "stopped"
  ELSE IF ~KnownToSupervisor THEN "not-loaded"
  ELSE "crashed"

-----------------------------------------------------------------------------
(***************************************************************************)
(* Properties.                                                             *)
(***************************************************************************)

\* At most one node dials the hub with this host's identity, and the pidfile names it: a
\* worker holds the lock, unless a rival took it between reading and writing the pidfile
\* (the race lock.ts concedes).  No crash, reclaimed lock or late release changes that.
WorkerHoldsLock == \A p \in Pids : Working(p) => lock = p \/ p \in victims

\* A stop that ended with code 0 leaves no worker, wherever it was started.
StopMeansIdle ==
  asked = "idle" => \A p \in Pids : Working(p) => p \in victims

\* A start or restart that ended well leaves a service the supervisor keeps up, whatever it
\* had to kill on the way (but for a start that takes a worker on its way out for one that
\* runs: restart does not ask), until the upgrade of another worker unloads it and fails.
StartLeavesItUp == asked = "run" => loaded

\* After a stop nothing cries wolf: until a command or a worker comes, `status` never takes
\* the stopped node for one that crashed or that its supervisor lost.
StoppedIsNoAlarm ==
  asked \in {"idle", "foreign"} => Presence \notin {"crashed", "not-loaded"}

\* What the last command said when it ended well stays true, whatever died since.
CommandsKeepTheirWord == StopMeansIdle /\ StartLeavesItUp /\ StoppedIsNoAlarm

\* No command and no upgrade takes a running job down on the quiet.  Without --force neither
\* stop nor restart takes one down that ran when it looked; and the restart that ends an
\* upgrade (it alone takes workers down without a step of a command) never strands the node:
\* a worker it takes down had no job, and is one the supervisor will start again unless the
\* worker that was upgraded is another and goes on.
JobsSpared ==
  [][\A p \in Pids : Running(p) /\ proc'[p].phase = "dying" =>
       /\ p \notin cmd.busy
       /\ cmd' = cmd => /\ loaded' \/ \E q \in Pids : proc'[q].phase \in {"dial", "up", "parked"}
                        /\ proc[p].job => p \in victims]_vars

\* A service the supervisor has loaded gets a worker that dials, or is let go: no corpse in
\* the pidfile, no kill and no crash wedges it.
LoadedServes == []<>(~loaded \/ \E p \in Pids : Working(p))
=============================================================================
