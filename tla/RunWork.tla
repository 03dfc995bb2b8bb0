------------------------------ MODULE RunWork ------------------------------
(***************************************************************************)
(* What happens to the work of one run: its worktree and refs on this node *)
(* (packages/executor-worktree/src/git-service.ts), the stages that write  *)
(* in it one after the other without committing, the deliver and backup    *)
(* pushes that end it (runPush of packages/edge/src/stage-runner.ts), and  *)
(* the reconciliation of an interrupted job at boot (ws-client.ts).        *)
(*                                                                         *)
(* A tree or a commit is the set of the marks in it.  The process can die  *)
(* between any two git commands.  What EdgeJobs takes as one step,         *)
(* reconciling one entry, is here the sequence of its git commands.        *)
(***************************************************************************)
EXTENDS Naturals, FiniteSets

CONSTANTS
  Stages,       \* how many stages the run has before its deliver push
  MaxKills,     \* bound: deaths of a process that is up
  MaxBootKills, \* bound: deaths of a process that is still reconciling
  MaxFaults,    \* bound: git commands of the reconciliation that fail
  MaxReaps,     \* bound: times the worktree of the idle run is torn down
  MaxPushes     \* bound: deliver and backup pushes the hub sends

ASSUME RunAssumption ==
  /\ Stages \in Nat /\ MaxKills \in Nat /\ MaxBootKills \in Nat
  /\ MaxFaults \in Nat /\ MaxReaps \in Nat /\ MaxPushes \in Nat

\* Marks: what a stage has half written or finished, what is on the base branch,
\* and the conflict markers of a merge that stopped.
Half(k)   == <<"half", k>>
Done(k)   == <<"done", k>>
Base(i)   == <<"base", i>>
Markers   == <<"markers", 0>>
BaseMarks == {Base(0), Base(1)}
Marks == {Half(k) : k \in 1..Stages} \cup {Done(k) : k \in 1..Stages} \cup BaseMarks \cup {Markers}
Halves    == {Half(k) : k \in 1..Stages}

\* Definitions named <Definition>_<Mistake> are mutants: plausible mistakes in
\* the code, in no action of the model, that the properties are tried against.

VARIABLES
  proc,      \* "down", "boot" (reconciling) or "up"
  job,       \* where the running job is, "idle" if there is none
  rc,        \* the next git command of the reconciliation
  rcHead,    \* reconcileInterrupted's headSha
  known,     \* the run is in the stage runner's `worktrees` map (memory)
  ledgered,  \* the job ledger has an entry of this run
  exists,    \* the worktree is on disk
  tree,      \* its files
  head,      \* HEAD of the run's branch; the branch outlives the worktree
  wip,       \* refs/heads/dahrk/wip/<run> in the mirror, {} if there is none
  salvage,   \* what refs/dahrk/salvage/* keeps
  related,   \* the branch and the base share history
  fetchHead, \* FETCH_HEAD of the deliver push
  base, remote, rwip, \* on the remote: base branch, run's branch, wip branch
  next,      \* hub: the stage to dispatch next
  finished,  \* hub: output of the stages that ended well
  result,    \* hub: the last push result
  left,      \* history: half-written, uncommitted files a dead process left
  dropped,   \* history: what reconciliation took out of the worktree
  kills, bootKills, faults, reaps, pushes

procVars  == <<proc, known, ledgered>>
rcVars    == <<rc, rcHead>>
workVars  == <<exists, tree, head>>
refVars   == <<wip, salvage>>
remoteVars == <<base, remote, rwip>>
hubVars   == <<next, finished, result>>
history   == <<left, dropped>>
budgets   == <<kills, bootKills, faults, reaps, pushes>>
vars == <<procVars, job, rcVars, workVars, refVars, related, fetchHead, remoteVars, hubVars,
          history, budgets>>

DeliverPCs == {"commit", "fetch", "integrate", "conflict", "push", "landed"}
BackupPCs  == {"saveCommit", "savePush"}
Results    == {"none", "pushed", "noop", "conflict", "diverged", "backup", "refused", "fail"}

TypeOK ==
  /\ proc \in {"down", "boot", "up"}
  /\ job \in {"idle", "stage"} \cup DeliverPCs \cup BackupPCs
  /\ rc \in {"off", "read", "commit", "pin", "push", "reset", "clear"}
  /\ known \in BOOLEAN /\ ledgered \in BOOLEAN /\ exists \in BOOLEAN /\ related \in BOOLEAN
  /\ rcHead \subseteq Marks /\ tree \subseteq Marks /\ head \subseteq Marks
  /\ wip \subseteq Marks /\ salvage \subseteq Marks /\ fetchHead \subseteq Marks
  /\ base \subseteq BaseMarks /\ remote \subseteq Marks /\ rwip \subseteq Marks
  /\ next \in 1..(Stages + 1)
  /\ finished \subseteq Marks
  /\ result \in Results
  /\ left \subseteq Marks /\ dropped \subseteq Marks
  /\ kills \in 0..MaxKills /\ bootKills \in 0..MaxBootKills
  /\ faults \in 0..MaxFaults /\ reaps \in 0..MaxReaps /\ pushes \in 0..MaxPushes

Init ==
  /\ proc = "up" /\ job = "idle" /\ rc = "off" /\ rcHead = {}
  /\ known = FALSE /\ ledgered = FALSE
  /\ exists = FALSE /\ tree = {} /\ head = {}
  /\ wip = {} /\ salvage = {}
  /\ related \in BOOLEAN
  /\ fetchHead = {}
  /\ base = {Base(0)} /\ remote = {} /\ rwip = {}
  /\ next = 1 /\ finished = {} /\ result = "none"
  /\ left = {} /\ dropped = {}
  /\ kills = 0 /\ bootKills = 0 /\ faults = 0 /\ reaps = 0 /\ pushes = 0

-----------------------------------------------------------------------------
\* createWorktree: an existing worktree is used as it is; else the branch is reset
\* to the remote branch (a delivered session) or the base, and the tip it loses is parked.
StartPoint == IF remote # {} THEN remote ELSE base
Provision ==
  \/ /\ exists
     /\ UNCHANGED <<workVars, refVars>>
  \/ /\ ~exists
     /\ exists' = TRUE
     /\ head' = StartPoint
     /\ tree' = StartPoint
     /\ salvage' = IF head \subseteq StartPoint THEN salvage ELSE salvage \cup head
     /\ UNCHANGED wip

\* A frame starts a job: ledger entry, worktree, and the run is in the map.
Begin(where) ==
  /\ proc = "up"
  /\ job = "idle"
  /\ job' = where
  /\ ledgered' = TRUE
  /\ known' = TRUE
  /\ Provision
  /\ UNCHANGED <<proc, rcVars, related, fetchHead, remoteVars, history>>
  /\ UNCHANGED <<kills, bootKills, faults, reaps>>

\* The job's result is out: untrackJob.
End ==
  /\ job' = "idle"
  /\ ledgered' = FALSE
  /\ UNCHANGED <<proc, known, rcVars, refVars, related, base, history, budgets>>

EndPush(r) ==
  /\ End
  /\ result' = r
  /\ UNCHANGED <<next, finished, fetchHead>>

-----------------------------------------------------------------------------
\* Stages.  The agent writes in the worktree; nothing commits for it.

DispatchStage_Again ==
  /\ Begin("stage")
  /\ UNCHANGED <<hubVars, pushes>>

DispatchStage ==
  /\ next <= Stages
  /\ Begin("stage")
  /\ UNCHANGED <<hubVars, pushes>>

\* The agent writes files; the stage's output is only half there.
AgentWrites ==
  /\ job = "stage"
  /\ tree' = tree \cup {Half(next)}
  /\ left' = left \ {Half(next)}
  /\ UNCHANGED <<procVars, job, rcVars, exists, head, refVars, related, fetchHead, remoteVars, hubVars,
                 dropped, budgets>>

\* Nothing stops an agent from running `git commit` itself.
AgentCommits ==
  /\ job = "stage"
  /\ tree # head
  /\ head' = tree
  /\ UNCHANGED <<procVars, job, rcVars, exists, tree, refVars, related, fetchHead, remoteVars, hubVars,
                 history, budgets>>

StageEnds ==
  /\ job = "stage"
  /\ End
  /\ next' = next + 1
  /\ \/ /\ Half(next) \in tree
        /\ tree' = (tree \ {Half(next)}) \cup {Done(next)}
        /\ finished' = finished \cup {Done(next)}
     \/ /\ Half(next) \notin tree   \* a stage that only reads
        /\ UNCHANGED <<tree, finished>>
  /\ UNCHANGED <<exists, head, fetchHead, remote, rwip, result>>

\* A failed stage leaves its files; the hub may dispatch it again.
StageFails ==
  /\ job = "stage"
  /\ End
  /\ UNCHANGED <<workVars, fetchHead, remote, rwip, hubVars>>

-----------------------------------------------------------------------------
\* The deliver push: commitAndPush, one step per git command that changes state.

DispatchDeliver ==
  /\ next > Stages
  /\ result \notin {"pushed", "noop", "diverged"}
  /\ pushes < MaxPushes
  /\ pushes' = pushes + 1
  /\ Begin("commit")
  /\ UNCHANGED hubVars

Commit_NothingStaged(from, to) ==
  /\ job = from
  /\ job' = to
  /\ UNCHANGED <<procVars, rcVars, workVars, refVars, related, fetchHead, remoteVars, hubVars,
                 history, budgets>>

\* commitPending: everything in the tree, whoever wrote it, becomes HEAD.
Commit(from, to) ==
  /\ job = from
  /\ head' = tree
  /\ job' = to
  /\ UNCHANGED <<procVars, rcVars, exists, tree, refVars, related, fetchHead, remoteVars, hubVars,
                 history, budgets>>
DeliverCommit == Commit("commit", "fetch")

\* The fetch of the base is best-effort: without it the push goes ahead unmerged.
DeliverFetch ==
  /\ job = "fetch"
  /\ \/ fetchHead' = base /\ job' = "integrate"
     \/ job' = "push" /\ UNCHANGED fetchHead
  /\ UNCHANGED <<procVars, rcVars, workVars, refVars, related, remoteVars, hubVars, history, budgets>>

Diverged ==
  /\ job = "integrate"
  /\ ~related
  /\ EndPush("diverged")
  /\ UNCHANGED <<workVars, remote, rwip>>

\* The branch adds nothing to the base.
Noop ==
  /\ job = "integrate"
  /\ related
  /\ head \subseteq BaseMarks
  /\ EndPush("noop")
  /\ UNCHANGED <<workVars, remote, rwip>>

\* `git merge FETCH_HEAD`: clean, or stopped with conflict markers in the files,
\* which only a base that has advanced can cause.
Merge ==
  /\ job = "integrate"
  /\ related
  /\ ~(head \subseteq BaseMarks)
  /\ \/ /\ head' = head \cup fetchHead
        /\ tree' = head \cup fetchHead
        /\ job' = "push"
     \/ /\ ~(fetchHead \subseteq head)
        /\ tree' = head \cup fetchHead \cup {Markers}
        /\ job' = "conflict"
        /\ UNCHANGED head
  /\ UNCHANGED <<procVars, rcVars, exists, refVars, related, fetchHead, remoteVars, hubVars,
                 history, budgets>>

\* preResolveConflicts cleared every path, and the merge is committed...
Resolved ==
  /\ job = "conflict"
  /\ head' = head \cup fetchHead
  /\ tree' = head \cup fetchHead
  /\ job' = "push"
  /\ UNCHANGED <<procVars, rcVars, exists, refVars, related, fetchHead, remoteVars, hubVars,
                 history, budgets>>

Residual_NoAbort ==
  /\ job = "conflict"
  /\ EndPush("conflict")
  /\ UNCHANGED <<workVars, remote, rwip>>

\* ... or a conflict is left, and the merge is aborted.
Residual ==
  /\ job = "conflict"
  /\ tree' = head
  /\ EndPush("conflict")
  /\ UNCHANGED <<exists, head, remote, rwip>>

\* `git push`, never forced: the remote takes a descendant of what it has.
DeliverPush ==
  /\ job = "push"
  /\ remote \subseteq head
  /\ remote' = head
  /\ job' = "landed"
  /\ UNCHANGED <<procVars, rcVars, workVars, refVars, related, fetchHead, base, rwip, hubVars,
                 history, budgets>>

DeliverDone ==
  /\ job = "landed"
  /\ EndPush("pushed")
  /\ UNCHANGED <<workVars, remote, rwip>>

\* A git command of commitAndPush or backupPush throws; runPush answers `fail`.
PushThrows ==
  /\ job \in {"commit", "integrate", "push", "saveCommit", "savePush"}
  /\ EndPush("fail")
  /\ UNCHANGED <<workVars, remote, rwip>>

\* The commit of a resolved merge throws: the merge stays open in the worktree.
MergeCommitThrows ==
  /\ job = "conflict"
  /\ tree' = head \cup fetchHead
  /\ EndPush("fail")
  /\ UNCHANGED <<exists, head, remote, rwip>>

-----------------------------------------------------------------------------
\* The backup push, after a conflict: only from a worktree this process knows.

DispatchBackup_Reclones ==
  /\ proc = "up" /\ job = "idle"
  /\ result = "conflict"
  /\ pushes < MaxPushes
  /\ pushes' = pushes + 1
  /\ Begin("saveCommit")
  /\ UNCHANGED hubVars

DispatchBackup ==
  /\ proc = "up" /\ job = "idle"
  /\ result = "conflict"
  /\ pushes < MaxPushes
  /\ pushes' = pushes + 1
  /\ \/ /\ known
        /\ job' = "saveCommit" /\ ledgered' = TRUE
        /\ UNCHANGED result
     \/ /\ ~known
        /\ result' = "refused"
        /\ UNCHANGED <<job, ledgered>>
  /\ UNCHANGED <<proc, known, rcVars, workVars, refVars, related, fetchHead, remoteVars, next, finished,
                 history, kills, bootKills, faults, reaps>>

BackupCommit == Commit("saveCommit", "savePush")

BackupPush ==
  /\ job = "savePush"
  /\ rwip' = head
  /\ EndPush("backup")
  /\ UNCHANGED <<workVars, remote>>

-----------------------------------------------------------------------------
\* Deaths, and the boot that follows.

Uncommitted == tree \ head

Kill ==
  /\ proc = "up"
  /\ kills < MaxKills
  /\ kills' = kills + 1
  /\ proc' = "down" /\ job' = "idle" /\ known' = FALSE
  /\ left' = IF ledgered THEN left \cup (Uncommitted \cap Halves) ELSE left
  /\ UNCHANGED <<ledgered, rcVars, workVars, refVars, related, fetchHead, remoteVars, hubVars,
                 dropped, bootKills, faults, reaps, pushes>>

BootKill ==
  /\ proc = "boot"
  /\ bootKills < MaxBootKills
  /\ bootKills' = bootKills + 1
  /\ proc' = "down" /\ rc' = "off" /\ rcHead' = {}
  /\ UNCHANGED <<known, ledgered, job, workVars, refVars, related, fetchHead, remoteVars, hubVars,
                 history, kills, faults, reaps, pushes>>

Boot ==
  /\ proc = "down"
  /\ \/ ledgered /\ proc' = "boot" /\ rc' = "read"
     \/ ~ledgered /\ proc' = "up" /\ UNCHANGED rc
  /\ UNCHANGED <<known, ledgered, job, rcHead, workVars, refVars, related, fetchHead, remoteVars, hubVars,
                 history, budgets>>

\* reconcileInterrupted, command by command.
Reconciling(at) ==
  /\ proc = "boot"
  /\ rc = at
  /\ UNCHANGED <<proc, known, ledgered, job, related, fetchHead, base, remote, hubVars, left, budgets>>

ReadHead_AfterCommit ==
  /\ Reconciling("read")
  /\ rcHead' = tree
  /\ rc' = "commit"
  /\ UNCHANGED <<workVars, refVars, rwip, dropped>>

ReadHead ==
  /\ Reconciling("read")
  /\ rcHead' = head
  /\ rc' = "commit"
  /\ UNCHANGED <<workVars, refVars, rwip, dropped>>

CommitTail ==
  /\ Reconciling("commit")
  /\ \/ Uncommitted = {} /\ tree = head /\ rc' = "clear" /\ UNCHANGED head
     \/ tree # head /\ rc' = "pin" /\ head' = tree
  /\ UNCHANGED <<rcHead, exists, tree, refVars, rwip, dropped>>

PinTail_OnRemoteOnly ==
  /\ Reconciling("pin")
  /\ rc' = "push"
  /\ UNCHANGED <<rcHead, workVars, refVars, rwip, dropped>>

PinTail ==
  /\ Reconciling("pin")
  /\ wip' = head
  /\ rc' = "push"
  /\ UNCHANGED <<rcHead, workVars, salvage, rwip, dropped>>

\* Best-effort: without the network the tail stays on the local ref.
PushTail ==
  /\ Reconciling("push")
  /\ rwip' \in {rwip, head}
  /\ rc' = "reset"
  /\ UNCHANGED <<rcHead, workVars, refVars, dropped>>

\* reset --hard headSha, and clean.
ResetTree ==
  /\ Reconciling("reset")
  /\ head' = rcHead
  /\ tree' = rcHead
  /\ dropped' = dropped \cup (tree \ rcHead)
  /\ rc' = "clear"
  /\ UNCHANGED <<rcHead, exists, refVars, rwip>>

\* A git command throws: logged, and the entry is as settled as the others.
ReconcileFails ==
  /\ proc = "boot"
  /\ rc \in {"read", "commit", "pin", "reset"}
  /\ faults < MaxFaults
  /\ faults' = faults + 1
  /\ rc' = "clear"
  /\ UNCHANGED <<procVars, job, rcHead, workVars, refVars, related, fetchHead, remoteVars, hubVars,
                 history, kills, bootKills, reaps, pushes>>

ClearLedger ==
  /\ proc = "boot"
  /\ rc = "clear"
  /\ ledgered' = FALSE
  /\ proc' = "up" /\ rc' = "off" /\ rcHead' = {}
  /\ UNCHANGED <<known, job, workVars, refVars, related, fetchHead, remoteVars, hubVars, history, budgets>>

-----------------------------------------------------------------------------
\* Others: the base branch moves, and teardownRun takes an idle run's worktree and its
\* entry in the map (the count cap of the retention policy; the reaper, for a run this
\* process does not hold).  The branch ref stays in the mirror.

BaseAdvances ==
  /\ base = {Base(0)}
  /\ base' = BaseMarks
  /\ UNCHANGED <<procVars, job, rcVars, workVars, refVars, related, fetchHead, remote, rwip, hubVars,
                 history, budgets>>

Teardown ==
  /\ proc = "up" /\ job = "idle" /\ exists
  /\ reaps < MaxReaps
  /\ reaps' = reaps + 1
  /\ exists' = FALSE /\ tree' = {} /\ known' = FALSE
  /\ UNCHANGED <<proc, ledgered, job, rcVars, head, refVars, related, fetchHead, remoteVars, hubVars,
                 history, kills, bootKills, faults, pushes>>

-----------------------------------------------------------------------------
Stage   == DispatchStage \/ AgentWrites \/ AgentCommits \/ StageEnds \/ StageFails
Deliver == \/ DispatchDeliver \/ DeliverCommit \/ DeliverFetch
           \/ Diverged \/ Noop \/ Merge \/ Resolved \/ Residual
           \/ DeliverPush \/ DeliverDone \/ PushThrows \/ MergeCommitThrows
Backup  == DispatchBackup \/ BackupCommit \/ BackupPush
Reconcile == \/ ReadHead \/ CommitTail \/ PinTail \/ PushTail \/ ResetTree
             \/ ReconcileFails \/ ClearLedger

Next == \/ Stage \/ Deliver \/ Backup \/ Reconcile
        \/ Kill \/ BootKill \/ Boot
        \/ BaseAdvances \/ Teardown

Spec == Init /\ [][Next]_vars

-----------------------------------------------------------------------------
(***************************************************************************)
(* Properties.                                                             *)
(***************************************************************************)

Refs == wip \cup rwip \cup remote \cup salvage

\* What reconciliation takes out of the worktree can be found again: in the worktree,
\* on its branch, or on a ref ("an operator who has lost power should still be able
\* to find what the agent had written", git-service.ts).
TailFindable == dropped \subseteq tree \cup head \cup Refs

\* It can after one interruption, and however often the process dies again while it
\* boots or a git command of the reconciliation fails.
TailFindableOnce == kills <= 1 => TailFindable

\* When the hub hears that the run's work is delivered, or that there is none to
\* deliver, the output of every stage that ended well is on the remote branch or on
\* the wip branch of this node or the remote, through one interruption (the second
\* overwrites that branch) and unless retention took the idle worktree with it.
DeliveryKeepsFinished ==
  result \in {"pushed", "noop"} /\ kills <= 1 /\ reaps = 0 => finished \subseteq remote \cup wip \cup rwip

\* Every reconciliation so far ran to its end, and none of its git commands failed.
Undisturbed == bootKills = 0 /\ faults = 0

\* No stage and no push starts on the half-written files of a dead process
\* ("without this the re-dispatched stage would start on top of a partial edit",
\* ws-client.ts).
StartsClean == [][job = "idle" /\ job' # "idle" => left \cap tree = {}]_vars

\* While reconciliations run to their end, that holds through any number of deaths.
StartsCleanUndisturbed ==
  [][Undisturbed /\ job = "idle" /\ job' # "idle" => left \cap tree = {}]_vars

\* Likewise conflict markers never reach the remote branch, even when the process
\* dies inside a merge that stopped.
NoMarkersDelivered == Undisturbed => Markers \notin remote

\* A backup follows a conflict, so the run had something of its own to save, and the
\* wip branch of a backup that is reported has it, whatever took the worktree or the
\* process in between (never just the base, which a fresh clone would push).
BackupSaves == result = "backup" => ~(rwip \subseteq BaseMarks)

\* What the hub is told of a push or of a backup is true.
OutcomeIsTrue == DeliveryKeepsFinished /\ BackupSaves

\* push-outcome.ts says of a noop: "no changes to deliver on <branch> - work already
\* present on <base>".  Then what the stages finished is on the base.
NoopMeansPresent == result = "noop" => finished \subseteq base
=============================================================================
