------------------------------ MODULE MCRestarts -----------------------------
(***************************************************************************)
(* What has to come through the death of the process, in one run: EdgeJobs,*)
(* the jobs the hub asked for; Host, the worker and what starts and stops  *)
(* it; Mirror, the mirror of a repository (its safety is in MCGit).        *)
(* EdgeJobs takes Host's part as a supervisor that boots the next process, *)
(* so the three share no variable: `part` says which of them a behaviour   *)
(* exercises, and the others keep still in one of their initial states.    *)
(***************************************************************************)
EXTENDS MCEdgeJobs

CONSTANTS HostPids, Old, New, None, MaxHostEvents,    \* Host
          Commits, Older, MaxRepoEvents, MaxRepoFaults, NoRef   \* Mirror

VARIABLES
  part,
  \* Host
  manager, unit, loaded, disabled, hProc, lock, disk, hLedger, good, cmd, asked, ran, rivals,
  victims, hEvents,
  \* Mirror
  home, mirror, heads, seen, remote, held, mJob, last, saved, events, mFaults

H == INSTANCE Host
       WITH Pids <- HostPids, MaxEvents <- MaxHostEvents, proc <- hProc, ledger <- hLedger, events <- hEvents

M == INSTANCE Mirror
       WITH MaxEvents <- MaxRepoEvents, MaxFaults <- MaxRepoFaults,
            job <- mJob, faults <- mFaults

ASSUME RestartsAssumption == H!HostAssumption /\ M!MirrorAssumption

hVars == <<manager, unit, loaded, disabled, hProc, lock, disk, hLedger, good, cmd, asked, ran,
           rivals, victims, hEvents>>
mVars == <<home, mirror, heads, seen, remote, held, mJob, last, saved, events, mFaults>>
mcVars == <<part, vars, hVars, mVars>>

\* A host starts with each kind of unit file, an older client's under systemd and ours under
\* launchd.
MCInit ==
  /\ part \in {"jobs", "host", "mirror"}
  /\ Init
  /\ H!Init
  /\ IF part = "host"
     THEN (unit = "older" => manager = "systemd") /\ (unit = "ours" => manager = "launchd")
     ELSE manager = "systemd" /\ unit = "none" /\ good = {Old}
  /\ M!Init /\ (part # "mirror" => home.redirects /\ ~mirror.repo /\ remote["wip"] = NoRef)

JobMoves(A)    == part = "jobs" /\ A /\ UNCHANGED <<part, hVars, mVars>>
HostMoves(A)   == part = "host" /\ A /\ UNCHANGED <<part, vars, mVars>>
MirrorMoves(A) == part = "mirror" /\ A /\ UNCHANGED <<part, vars, hVars>>

MCNext == JobMoves(Next) \/ HostMoves(H!Next) \/ MirrorMoves(M!Next)

\* The fairness of the modules, each in the behaviours of its part.
MCFairness ==
  /\ WF_mcVars(JobMoves(\E p \in Pids : Boot(p)))
  /\ WF_mcVars(JobMoves(\E j \in Jobs : ReconcileEntry(j)))
  /\ WF_mcVars(JobMoves(FinishReconcile))
  /\ WF_mcVars(JobMoves(Connect)) /\ WF_mcVars(JobMoves(CloseLink))
  /\ \A h \in Handlers : WF_mcVars(JobMoves(Progress(h)))
  /\ \A j \in Jobs : WF_mcVars(JobMoves(Redispatch(j)))
  /\ WF_mcVars(HostMoves(\E p \in HostPids \ {lock} : H!Spawn(p)))
  /\ \A p \in HostPids :
       /\ WF_mcVars(HostMoves(H!WriteLock(p))) /\ WF_mcVars(HostMoves(H!Gone(p)))
       /\ WF_mcVars(HostMoves(H!Welcome(p) \/ H!Reject(p))) /\ WF_mcVars(HostMoves(H!Poll(p)))
  /\ WF_mcVars(MirrorMoves(M!Works)) /\ WF_mcVars(MirrorMoves(M!Asked))

MCSpec == MCInit /\ [][MCNext]_mcVars /\ MCFairness

-----------------------------------------------------------------------------
\* Every variable of Host and of Mirror has its type.
PartsTypeOK == H!TypeOK /\ M!TypeOK

\* Every job the hub asked for is delivered (EdgeJobs).
JobsDelivered == part = "jobs" => EveryJobDelivered

\* A worker holds the lock (Host).
WorkerHoldsLock == H!WorkerHoldsLock

\* What a command said when it ended well stays true (Host).
CommandsKeepTheirWord == H!CommandsKeepTheirWord

\* No command and no upgrade takes a running job down on the quiet (Host).
JobsSpared == H!JobsSpared

\* What was cut short comes back by itself: a service that is loaded gets a worker that dials
\* (Host), and a mirror is migrated, redirected and refreshed (Mirror).
ComesBack == (part = "host" => H!LoadedServes) /\ (part = "mirror" => M!MirrorHeals)
=============================================================================
