--------------------------- MODULE Git_proofs ---------------------------
(***************************************************************************)
(* What TLAPS proves of the git half of the edge, RunWork and Worktrees,   *)
(* and, through the lemmas of Mirror_proofs, Mirror: for every number of   *)
(* stages, pushes, deaths and git errors, and every set of runs,           *)
(* repositories, branches and commits.                                     *)
(***************************************************************************)
EXTENDS MCGit, SeqFacts, TLAPS, FiniteSetTheorems

-----------------------------------------------------------------------------
\* A job runs only in a process that is up and has recorded it, and reconciliation
\* only in a process that boots.

JobInv ==
  /\ job # "idle" => proc = "up" /\ ledgered
  /\ proc = "boot" <=> rc # "off"
  /\ proc = "boot" => ledgered
  /\ rc \in {"off", "read", "commit", "pin", "push", "reset", "clear"}

\* JobInv holds at the start.
LEMMA JobInit == Init => JobInv
BY DEF Init, JobInv

\* A step keeps JobInv.
LEMMA JobStep == JobInv /\ [Next]_vars => JobInv'
<1> SUFFICES ASSUME JobInv, [Next]_vars PROVE JobInv'
  OBVIOUS
<1> USE DEF JobInv, procVars, rcVars, history, budgets
<1>1. CASE Stage
  BY <1>1 DEF Stage, DispatchStage, AgentWrites, AgentCommits, StageEnds, StageFails, Begin, End
<1>2. CASE Deliver
  BY <1>2 DEF Deliver, DispatchDeliver, DeliverCommit, Commit, DeliverFetch, Diverged, Noop, Merge,
              Resolved, Residual, DeliverPush, DeliverDone, PushThrows, MergeCommitThrows,
              Begin, End, EndPush
<1>3. CASE Backup
  BY <1>3 DEF Backup, DispatchBackup, BackupCommit, Commit, BackupPush, EndPush, End
<1>4. CASE Reconcile
  BY <1>4 DEF Reconcile, ReadHead, CommitTail, PinTail, PushTail, ResetTree, ReconcileFails,
              ClearLedger, Reconciling
<1>5. CASE Kill \/ BootKill \/ Boot
  BY <1>5 DEF Kill, BootKill, Boot
<1>6. CASE BaseAdvances \/ Teardown
  BY <1>6 DEF BaseAdvances, Teardown
<1>7. CASE UNCHANGED vars
  BY <1>7 DEF vars
<1> QED BY <1>1, <1>2, <1>3, <1>4, <1>5, <1>6, <1>7 DEF Next

-----------------------------------------------------------------------------
\* What one interruption costs.  Until the process dies nothing is dropped; from the
\* reset on, what is dropped is on the wip ref, and because the worktree is then clean
\* no reconciliation that starts over after a death during boot moves the ref again.

OneKillInv ==
  /\ kills \in Nat
  /\ kills = 0 => proc = "up" /\ dropped = {}
  /\ kills <= 1 =>
       /\ rc \in {"pin", "push", "reset"} => tree = head /\ dropped = {}
       /\ rc \in {"push", "reset"} => tree \subseteq wip
       /\ proc # "up" /\ dropped # {} => tree = head
       /\ dropped \subseteq wip

\* OneKillInv holds at the start.
LEMMA OneKillInit == Init => OneKillInv
BY DEF Init, OneKillInv

\* Jobs, the teardown and the base branch leave the wip ref and the history alone, and
\* the worktree too when the process is not up.
LEMMA OthersKeepWip ==
  ASSUME JobInv, Stage \/ Deliver \/ Backup \/ Teardown \/ BaseAdvances
  PROVE  /\ UNCHANGED <<proc, rc, wip, dropped, kills>>
         /\ proc # "up" => UNCHANGED <<tree, head>>
BY DEF JobInv, Stage, DispatchStage, AgentWrites, AgentCommits, StageEnds, StageFails,
       Deliver, DispatchDeliver, DeliverCommit, Commit, DeliverFetch, Diverged, Noop, Merge,
       Resolved, Residual, DeliverPush, DeliverDone, PushThrows, MergeCommitThrows,
       Backup, DispatchBackup, BackupCommit, BackupPush, Teardown, BaseAdvances,
       Begin, Provision, End, EndPush, procVars, rcVars, workVars, refVars, remoteVars, hubVars,
       history, budgets

\* A step keeps OneKillInv.
LEMMA OneKillStep == JobInv /\ OneKillInv /\ [Next]_vars => OneKillInv'
<1> SUFFICES ASSUME JobInv, OneKillInv, [Next]_vars PROVE OneKillInv'
  OBVIOUS
<1> USE RunAssumption DEF OneKillInv, procVars, rcVars, workVars, refVars, remoteVars, history, budgets
<1>1. CASE Stage \/ Deliver \/ Backup \/ Teardown \/ BaseAdvances
  <2>1. UNCHANGED <<proc, rc, wip, dropped, kills>>
    BY <1>1, OthersKeepWip
  <2>2. CASE proc = "up"
    BY <2>1, <2>2 DEF JobInv
  <2>3. CASE proc # "up"
    BY <1>1, <2>1, <2>3, OthersKeepWip
  <2> QED BY <2>2, <2>3
<1>2. CASE Kill
  BY <1>2 DEF Kill, JobInv
<1>3. CASE BootKill
  BY <1>3 DEF BootKill, JobInv
<1>4. CASE Boot
  BY <1>4 DEF Boot
<1>5. CASE ReadHead
  BY <1>5 DEF ReadHead, Reconciling
<1>6. CASE CommitTail
  BY <1>6 DEF CommitTail, Reconciling
<1>7. CASE PinTail
  BY <1>7 DEF PinTail, Reconciling
<1>8. CASE PushTail
  BY <1>8 DEF PushTail, Reconciling
<1>9. CASE ResetTree
  BY <1>9 DEF ResetTree, Reconciling
<1>10. CASE ReconcileFails
  BY <1>10 DEF ReconcileFails
<1>11. CASE ClearLedger
  BY <1>11 DEF ClearLedger
<1>12. CASE UNCHANGED vars
  BY <1>12 DEF vars
<1> QED BY <1>1, <1>2, <1>3, <1>4, <1>5, <1>6, <1>7, <1>8, <1>9, <1>10, <1>11, <1>12
         DEF Next, Reconcile

\* After one interruption, and however often the process dies again while it boots or
\* a git command of the reconciliation fails, all that reconcileInterrupted took out
\* of the worktree is reachable from a ref.
THEOREM TailFindableOnceCorrect == Spec => []TailFindableOnce
<1>1. JobInv /\ OneKillInv => TailFindableOnce
  BY DEF OneKillInv, TailFindableOnce, TailFindable, Refs
<1> QED BY <1>1, JobInit, JobStep, OneKillInit, OneKillStep, PTL DEF Spec

-----------------------------------------------------------------------------
\* Nothing foreign: what a dead process left half-written, and conflict markers.

Foreign == left \cup {Markers}

\* Half-written files, finished ones, the base and the conflict markers differ.
LEMMA MarksDistinct ==
  /\ Halves \cap BaseMarks = {}
  /\ Markers \notin Halves \cup BaseMarks
  /\ \A k \in Nat : Half(k) # Markers /\ Done(k) # Markers /\ Done(k) \notin Halves
BY DEF Half, Done, Base, Markers, BaseMarks, Halves

\* No git command of a reconciliation fails and no process dies while it reconciles.
\* HEAD is foreign only between CommitTail and ResetTree, and rcHead never is; the
\* worktree is foreign only while its process is down or reconciling, or in the middle
\* of a merge.  An uncommitted half-written file belongs to the stage that is next.
CleanInv ==
  /\ bootKills = 0 /\ faults = 0
  /\ next \in 1..(Stages + 1)
  /\ base \subseteq BaseMarks /\ fetchHead \subseteq BaseMarks
  /\ left \subseteq Halves
  /\ \A m \in Uncommitted \cap Halves : next <= Stages /\ m = Half(next)
  /\ remote # {} => next > Stages
  /\ Foreign \cap remote = {}
  /\ rc \notin {"pin", "push", "reset"} => Foreign \cap head = {}
  /\ rc \in {"commit", "pin", "push", "reset"} => Foreign \cap rcHead = {}
  /\ proc = "up" \/ ~ledgered \/ rc = "clear" =>
       left \cap tree = {} /\ (Markers \in tree => job = "conflict")
  /\ rc \in {"pin", "push", "reset"} => tree = head
  /\ job \in DeliverPCs => next > Stages
  /\ job = "stage" => next <= Stages

\* CleanInv holds at the start.
LEMMA CleanInit == Init => CleanInv
BY RunAssumption, MarksDistinct
   DEF Init, CleanInv, Foreign, Uncommitted, BaseMarks, DeliverPCs

\* A worktree provisioned is clean.
LEMMA CleanProvision ==
  ASSUME CleanInv, JobInv, Provision, proc = "up", job = "idle", UNCHANGED <<left, next>>
  PROVE  /\ Foreign \cap head' = {}
         /\ Foreign \cap tree' = {}
         /\ \A m \in (Uncommitted \cap Halves)' : next <= Stages /\ m = Half(next)
<1>1. CASE exists
  BY <1>1 DEF Provision, CleanInv, JobInv, Foreign, Uncommitted, workVars, Halves
<1>2. CASE ~exists
  <2>1. head' = StartPoint /\ tree' = StartPoint
    BY <1>2 DEF Provision
  <2>2. Foreign \cap StartPoint = {}
    BY MarksDistinct DEF StartPoint, CleanInv, Foreign
  <2> QED BY <2>1, <2>2 DEF Uncommitted
<1> QED BY <1>1, <1>2

\* A job that begins keeps CleanInv.
LEMMA CleanBegin ==
  ASSUME CleanInv, JobInv, NEW where, Begin(where), UNCHANGED next,
         where \in DeliverPCs => next > Stages,
         where = "stage" => next <= Stages
  PROVE  CleanInv'
<1>1. UNCHANGED <<proc, rc, rcHead, fetchHead, base, remote, left, bootKills, faults>>
  BY DEF Begin, rcVars, remoteVars, history
<1>2. proc = "up" /\ job = "idle" /\ Provision /\ job' = where
  BY DEF Begin
<1>3. /\ Foreign \cap head' = {}
      /\ Foreign \cap tree' = {}
      /\ \A m \in (Uncommitted \cap Halves)' : next <= Stages /\ m = Half(next)
  BY <1>1, <1>2, CleanProvision
<1>4. Foreign' = Foreign
  BY <1>1 DEF Foreign
<1> QED BY <1>1, <1>2, <1>3, <1>4, Zenon DEF CleanInv, JobInv, Foreign

\* So does a stage.
LEMMA CleanStage ==
  ASSUME CleanInv, JobInv, Stage
  PROVE  CleanInv'
<1> USE RunAssumption, MarksDistinct DEF CleanInv, JobInv, procVars, rcVars, remoteVars, history, budgets, hubVars
<1>1. CASE DispatchStage
  BY <1>1, CleanBegin DEF DispatchStage, DeliverPCs
<1>2. CASE AgentWrites
  <2>1. tree' = tree \cup {Half(next)} /\ left' = left \ {Half(next)} /\ UNCHANGED <<head, next>>
    BY <1>2 DEF AgentWrites
  <2>2. next \in Nat /\ next <= Stages /\ proc = "up" /\ rc = "off"
    BY <1>2 DEF AgentWrites
  <2>3. \A m \in (Uncommitted \cap Halves)' : next <= Stages /\ m = Half(next)
    BY <2>1, <2>2 DEF Uncommitted, Halves
  <2>4. left' \cap tree' = {} /\ left' \subseteq left /\ Markers \notin tree'
    BY <1>2, <2>1, <2>2 DEF AgentWrites
  <2> QED BY <1>2, <2>1, <2>2, <2>3, <2>4 DEF AgentWrites, Foreign
<1>3. CASE AgentCommits
  BY <1>3 DEF AgentCommits, Foreign, Uncommitted
<1>4. CASE StageEnds
  <2>1. job = "stage" /\ proc = "up" /\ rc = "off" /\ next \in Nat /\ next <= Stages
        /\ next' = next + 1 /\ job' = "idle" /\ UNCHANGED <<head, left, proc, rc>>
    BY <1>4 DEF StageEnds, End
  <2>2. tree' \subseteq tree \cup {Done(next)} /\ Half(next) \notin tree'
    BY <1>4, <2>1 DEF StageEnds, Half, Done
  <2>3. (Uncommitted \cap Halves)' = {}
    BY <2>1, <2>2 DEF Uncommitted, Halves
  <2>4. left' \cap tree' = {} /\ Markers \notin tree'
    BY <2>1, <2>2
  <2>5. UNCHANGED <<rcHead, fetchHead, base, remote, bootKills, faults>>
    BY <1>4 DEF StageEnds, End
  <2> QED BY <2>1, <2>3, <2>4, <2>5 DEF Foreign, DeliverPCs
<1>5. CASE StageFails
  BY <1>5 DEF StageFails, End, Foreign, Uncommitted, workVars, DeliverPCs
<1> QED BY <1>1, <1>2, <1>3, <1>4, <1>5 DEF Stage

\* So does a delivery.
LEMMA CleanDeliver ==
  ASSUME CleanInv, JobInv, Deliver
  PROVE  CleanInv'
<1> USE RunAssumption, MarksDistinct
    DEF CleanInv, JobInv, procVars, rcVars, workVars, remoteVars, history, budgets, hubVars,
        Foreign, Uncommitted, DeliverPCs, EndPush, End
<1>1. CASE DispatchDeliver
  BY <1>1, CleanBegin DEF DispatchDeliver
<1>2. CASE DeliverCommit
  BY <1>2 DEF DeliverCommit, Commit
<1>3. CASE DeliverFetch
  BY <1>3 DEF DeliverFetch
<1>4. CASE Diverged
  BY <1>4 DEF Diverged
<1>5. CASE Noop
  BY <1>5 DEF Noop
<1>6. CASE Merge
  <2>1. job = "integrate" /\ proc = "up" /\ rc = "off" /\ next > Stages /\ job' \in {"push", "conflict"}
    BY <1>6 DEF Merge
  <2>2. UNCHANGED <<proc, ledgered, rc, rcHead, fetchHead, base, remote, left, next, bootKills, faults>>
    BY <1>6 DEF Merge
  <2>3. Foreign \cap fetchHead = {}
    OBVIOUS
  <2>4. head' \subseteq head \cup fetchHead
    BY <1>6 DEF Merge
  <2>5. tree' \subseteq head' \cup fetchHead \cup {Markers} /\ (Markers \in tree' => job' = "conflict")
    BY <1>6, <2>1, <2>3 DEF Merge
  <2>6. (Uncommitted \cap Halves)' = {}
    BY <2>5
  <2>7. left \cap tree' = {}
    BY <2>1, <2>3, <2>4, <2>5
  <2> QED BY <2>1, <2>2, <2>3, <2>4, <2>5, <2>6, <2>7
<1>7. CASE Resolved
  BY <1>7 DEF Resolved
<1>8. CASE Residual
  BY <1>8 DEF Residual
<1>9. CASE DeliverPush
  BY <1>9 DEF DeliverPush
<1>10. CASE DeliverDone
  BY <1>10 DEF DeliverDone
<1>11. CASE PushThrows
  BY <1>11 DEF PushThrows
<1>12. CASE MergeCommitThrows
  BY <1>12 DEF MergeCommitThrows
<1> QED BY <1>1, <1>2, <1>3, <1>4, <1>5, <1>6, <1>7, <1>8, <1>9, <1>10, <1>11, <1>12 DEF Deliver

\* So does a backup.
LEMMA CleanBackup ==
  ASSUME CleanInv, JobInv, Backup
  PROVE  CleanInv'
<1> USE RunAssumption, MarksDistinct
    DEF CleanInv, JobInv, procVars, rcVars, workVars, remoteVars, history, budgets, hubVars,
        Foreign, Uncommitted, DeliverPCs, EndPush, End
<1>1. CASE DispatchBackup
  BY <1>1 DEF DispatchBackup
<1>2. CASE BackupCommit
  BY <1>2 DEF BackupCommit, Commit
<1>3. CASE BackupPush
  BY <1>3 DEF BackupPush
<1> QED BY <1>1, <1>2, <1>3 DEF Backup

\* So does a reconciliation.
LEMMA CleanReconcile ==
  ASSUME faults' = 0, CleanInv, JobInv, Reconcile
  PROVE  CleanInv'
<1> USE RunAssumption, MarksDistinct
    DEF CleanInv, JobInv, procVars, rcVars, workVars, remoteVars, history, budgets, hubVars,
        Foreign, Uncommitted, Reconciling
<1>1. CASE ReadHead
  BY <1>1 DEF ReadHead
<1>2. CASE CommitTail
  BY <1>2 DEF CommitTail
<1>3. CASE PinTail
  BY <1>3 DEF PinTail
<1>4. CASE PushTail
  BY <1>4 DEF PushTail
<1>5. CASE ResetTree
  BY <1>5 DEF ResetTree
<1>6. CASE ReconcileFails
  BY <1>6 DEF ReconcileFails
<1>7. CASE ClearLedger
  BY <1>7 DEF ClearLedger
<1> QED BY <1>1, <1>2, <1>3, <1>4, <1>5, <1>6, <1>7 DEF Reconcile

\* So does the death of the process.
LEMMA CleanDeath ==
  ASSUME bootKills' = 0, CleanInv, JobInv, Kill \/ BootKill \/ Boot
  PROVE  CleanInv'
<1> USE RunAssumption, MarksDistinct
    DEF CleanInv, JobInv, procVars, rcVars, workVars, remoteVars, history, budgets, hubVars,
        Foreign, Uncommitted
<1>1. CASE Kill
  <2>1. /\ UNCHANGED <<ledgered, rc, rcHead, tree, head, fetchHead, base, remote, next, bootKills, faults>>
        /\ proc = "up" /\ proc' = "down" /\ job' = "idle" /\ rc = "off"
    BY <1>1 DEF Kill
  <2>2. left' \subseteq left \cup (Uncommitted \cap Halves) /\ (~ledgered => left' = left)
    BY <1>1 DEF Kill
  <2>3. Uncommitted \cap Halves \cap head = {}
    OBVIOUS
  <2>4. Uncommitted \cap Halves \cap remote = {}
    BY <2>1
  <2>5. ~ledgered => Markers \notin tree
    OBVIOUS
  <2> QED BY <2>1, <2>2, <2>3, <2>4, <2>5 DEF DeliverPCs
<1>2. CASE BootKill
  BY <1>2 DEF BootKill
<1>3. CASE Boot
  BY <1>3 DEF Boot
<1> QED BY <1>1, <1>2, <1>3

\* A step keeps CleanInv.
LEMMA CleanStep ==
  ASSUME JobInv, CleanInv, [Next]_vars, Undisturbed'
  PROVE  CleanInv'
<1>0. faults' = 0 /\ bootKills' = 0
  BY DEF Undisturbed
<1>1. CASE BaseAdvances
  BY <1>1 DEF CleanInv, BaseAdvances, procVars, rcVars, workVars, hubVars, history, budgets,
              Foreign, Uncommitted, DeliverPCs
<1>2. CASE Teardown
  BY <1>2 DEF CleanInv, JobInv, Teardown, rcVars, remoteVars, hubVars, history, Foreign, Uncommitted, DeliverPCs
<1>3. CASE UNCHANGED vars
  BY <1>3 DEF CleanInv, vars, procVars, rcVars, workVars, remoteVars, hubVars, history, budgets,
              Foreign, Uncommitted, DeliverPCs
<1> QED BY <1>0, <1>1, <1>2, <1>3, CleanStage, CleanDeliver, CleanBackup, CleanReconcile, CleanDeath DEF Next

\* A disturbed reconciliation stays in the history, so what holds without one is
\* inductive under that condition.
UndisturbedInv ==
  /\ bootKills \in Nat /\ faults \in Nat
  /\ Undisturbed => CleanInv

\* UndisturbedInv holds at the start.
LEMMA UndisturbedInit == Init => UndisturbedInv
BY CleanInit DEF UndisturbedInv, Init

\* The histories only grow.
LEMMA BudgetsGrow ==
  ASSUME JobInv, [Next]_vars
  PROVE  /\ bootKills' = bootKills \/ bootKills' = bootKills + 1
         /\ faults' = faults \/ faults' = faults + 1
BY DEF Next, Stage, DispatchStage, AgentWrites, AgentCommits, StageEnds, StageFails,
       Deliver, DispatchDeliver, DeliverCommit, Commit, DeliverFetch, Diverged, Noop, Merge,
       Resolved, Residual, DeliverPush, DeliverDone, PushThrows, MergeCommitThrows,
       Backup, DispatchBackup, BackupCommit, BackupPush, Begin, EndPush, End, Teardown, BaseAdvances,
       Reconcile, ReadHead, CommitTail, PinTail, PushTail, ResetTree, ReconcileFails, ClearLedger,
       Reconciling, Kill, BootKill, Boot, vars, budgets

\* A step keeps UndisturbedInv.
LEMMA UndisturbedStep == JobInv /\ UndisturbedInv /\ [Next]_vars => UndisturbedInv'
<1> SUFFICES ASSUME JobInv, UndisturbedInv, [Next]_vars PROVE UndisturbedInv'
  OBVIOUS
<1>1. bootKills' \in Nat /\ faults' \in Nat /\ (Undisturbed' => Undisturbed)
  BY BudgetsGrow DEF UndisturbedInv, Undisturbed
<1>2. Undisturbed' => CleanInv'
  BY <1>1, CleanStep DEF UndisturbedInv
<1> QED BY <1>1, <1>2 DEF UndisturbedInv

\* While reconciliations run to their end and none of their git commands fails, no
\* stage and no push ever starts on the half-written files of a dead process.
THEOREM StartsCleanUndisturbedCorrect == Spec => StartsCleanUndisturbed
<1>1. JobInv /\ UndisturbedInv /\ [Next]_vars =>
        [Undisturbed /\ job = "idle" /\ job' # "idle" => left \cap tree = {}]_vars
  <2> SUFFICES ASSUME JobInv, UndisturbedInv, Next, Undisturbed, job = "idle", job' # "idle"
               PROVE  left \cap tree = {}
    BY DEF vars
  <2>1. proc = "up"
    BY DEF Next, Stage, DispatchStage, AgentWrites, AgentCommits, StageEnds, StageFails,
           Deliver, DispatchDeliver, DeliverCommit, Commit, DeliverFetch, Diverged, Noop, Merge,
           Resolved, Residual, DeliverPush, DeliverDone, PushThrows, MergeCommitThrows,
           Backup, DispatchBackup, BackupCommit, BackupPush, Begin, EndPush, End, Teardown, BaseAdvances,
           Reconcile, ReadHead, CommitTail, PinTail, PushTail, ResetTree, ReconcileFails, ClearLedger,
           Reconciling, Kill, BootKill, Boot
  <2> QED BY <2>1 DEF CleanInv, UndisturbedInv
<1> QED BY <1>1, JobInit, JobStep, UndisturbedInit, UndisturbedStep, PTL DEF Spec, StartsCleanUndisturbed

\* Under the same conditions conflict markers never reach the remote branch.
THEOREM NoMarkersDeliveredCorrect == Spec => []NoMarkersDelivered
<1>1. UndisturbedInv => NoMarkersDelivered
  BY DEF UndisturbedInv, CleanInv, NoMarkersDelivered, Foreign
<1> QED BY <1>1, JobInit, JobStep, UndisturbedInit, UndisturbedStep, PTL DEF Spec

-----------------------------------------------------------------------------
\* What the hub is told.  First where a run is: which stages and pushes can be under
\* way, and that a worktree is there whenever the ledger or the map has the run.

FlowInv ==
  /\ next \in 1..(Stages + 1)
  /\ job = "stage" => next <= Stages
  /\ job \in DeliverPCs => next > Stages
  /\ result # "none" => next > Stages
  /\ job \in BackupPCs => result = "conflict"
  /\ result \in {"pushed", "noop"} => job = "idle" /\ ~ledgered
  /\ proc = "up" /\ job = "idle" => ~ledgered
  /\ ledgered \/ known => exists
  /\ known => proc = "up"
  /\ ~exists => tree = {}

\* FlowInv holds at the start.
LEMMA FlowInit == Init => FlowInv
BY RunAssumption DEF Init, FlowInv, DeliverPCs, BackupPCs

\* Every step keeps FlowInv.
LEMMA FlowStep == JobInv /\ FlowInv /\ [Next]_vars => FlowInv'
<1> SUFFICES ASSUME JobInv, FlowInv, [Next]_vars PROVE FlowInv'
  OBVIOUS
<1> USE RunAssumption DEF FlowInv, JobInv, procVars, rcVars, workVars, hubVars, history, budgets,
                          DeliverPCs, BackupPCs
<1>1. CASE Stage
  BY <1>1 DEF Stage, DispatchStage, AgentWrites, AgentCommits, StageEnds, StageFails, Begin, Provision, End
<1>2. CASE Deliver
  BY <1>2 DEF Deliver, DispatchDeliver, DeliverCommit, Commit, DeliverFetch, Diverged, Noop, Merge,
              Resolved, Residual, DeliverPush, DeliverDone, PushThrows, MergeCommitThrows,
              Begin, Provision, End, EndPush
<1>3. CASE Backup
  BY <1>3 DEF Backup, DispatchBackup, BackupCommit, Commit, BackupPush, EndPush, End
<1>4. CASE Reconcile
  BY <1>4 DEF Reconcile, ReadHead, CommitTail, PinTail, PushTail, ResetTree, ReconcileFails,
              ClearLedger, Reconciling
<1>5. CASE Kill \/ BootKill \/ Boot
  BY <1>5 DEF Kill, BootKill, Boot
<1>6. CASE BaseAdvances \/ Teardown
  BY <1>6 DEF BaseAdvances, Teardown
<1>7. CASE UNCHANGED vars
  BY <1>7 DEF vars
<1> QED BY <1>1, <1>2, <1>3, <1>4, <1>5, <1>6, <1>7 DEF Next

\* The wip ref is moved at most once while at most one process has died: nothing is
\* pinned before, and after the pin the worktree is what was pinned until the reset.
OnceInv ==
  /\ kills \in Nat
  /\ kills = 0 => proc = "up" /\ wip = {}
  /\ kills <= 1 =>
       /\ proc # "up" /\ tree # head => wip = {}
       /\ rc = "pin" => wip = {} /\ tree = head
       /\ rc \in {"push", "reset"} => tree \subseteq wip /\ tree = head

\* OnceInv holds at the start.
LEMMA OnceInit == Init => OnceInv
BY DEF Init, OnceInv

\* Every step keeps OnceInv.
LEMMA OnceStep == JobInv /\ OnceInv /\ [Next]_vars => OnceInv'
<1> SUFFICES ASSUME JobInv, OnceInv, [Next]_vars PROVE OnceInv'
  OBVIOUS
<1> USE RunAssumption DEF OnceInv, procVars, rcVars, workVars, refVars, remoteVars, history, budgets
<1>1. CASE Stage \/ Deliver \/ Backup \/ Teardown \/ BaseAdvances
  <2>1. UNCHANGED <<proc, rc, wip, kills>>
    BY <1>1, OthersKeepWip
  <2>2. CASE proc = "up"
    BY <2>1, <2>2 DEF JobInv
  <2>3. CASE proc # "up"
    BY <1>1, <2>1, <2>3, OthersKeepWip
  <2> QED BY <2>2, <2>3
<1>2. CASE Kill \/ BootKill \/ Boot
  BY <1>2 DEF Kill, BootKill, Boot, JobInv
<1>3. CASE ReadHead \/ CommitTail
  BY <1>3 DEF ReadHead, CommitTail, Reconciling
<1>4. CASE PinTail \/ PushTail
  BY <1>4 DEF PinTail, PushTail, Reconciling
<1>5. CASE ResetTree \/ ReconcileFails \/ ClearLedger
  BY <1>5 DEF ResetTree, ReconcileFails, ClearLedger, Reconciling
<1>6. CASE UNCHANGED vars
  BY <1>6 DEF vars
<1> QED BY <1>1, <1>2, <1>3, <1>4, <1>5, <1>6 DEF Next, Reconcile

\* The output of the stages that ended well is in the worktree or pinned, and once a
\* push has committed, on the branch or pinned, up to the remote.
KeptInv ==
  /\ reaps \in Nat
  /\ finished \cap (Halves \cup BaseMarks) = {}
  /\ job = "landed" => head \subseteq remote
  /\ kills <= 1 /\ reaps = 0 =>
       /\ finished \subseteq tree \cup wip
       /\ ~exists => finished = {}
       /\ job \in DeliverPCs \ {"commit"} => finished \subseteq head \cup wip
       /\ result \in {"pushed", "noop"} => finished \subseteq remote \cup wip

\* KeptInv holds at the start.
LEMMA KeptInit == Init => KeptInv
BY DEF Init, KeptInv, DeliverPCs

\* A dispatch that opens a worktree that is there, or a fresh one for a run that has
\* finished nothing, keeps KeptInv.
LEMMA KeptBegin ==
  ASSUME JobInv, FlowInv, OnceInv, KeptInv, NEW where \in {"stage", "commit"}, Begin(where), UNCHANGED hubVars
  PROVE  KeptInv'
<1>1. /\ UNCHANGED <<wip, remote, kills, reaps, finished, result>>
      /\ job' = where /\ job = "idle"
  BY DEF Begin, Provision, refVars, remoteVars, hubVars
<1>2. exists' /\ (exists => UNCHANGED <<tree, head>>)
  BY DEF Begin, Provision, workVars
<1> QED BY <1>1, <1>2 DEF KeptInv, DeliverPCs

\* Every stage's step keeps KeptInv.
LEMMA KeptStage ==
  ASSUME JobInv, FlowInv, OnceInv, KeptInv, Stage
  PROVE  KeptInv'
<1> USE RunAssumption, MarksDistinct DEF FlowInv, KeptInv, DeliverPCs, workVars, refVars, hubVars, budgets
<1>1. CASE DispatchStage
  BY <1>1, KeptBegin DEF DispatchStage
<1>2. CASE AgentWrites
  BY <1>2 DEF AgentWrites, JobInv
<1>3. CASE AgentCommits
  BY <1>3 DEF AgentCommits, JobInv
<1>4. CASE StageEnds
  <2>1. next \in 1..Stages /\ result = "none" /\ exists
    BY <1>4 DEF StageEnds, JobInv
  <2>2. Half(next) \in Halves /\ Done(next) \notin Halves \cup BaseMarks
    BY <2>1 DEF Halves, Half, Done, Base, BaseMarks
  <2> QED BY <1>4, <2>1, <2>2 DEF StageEnds, End
<1>5. CASE StageFails
  BY <1>5 DEF StageFails, End
<1> QED BY <1>1, <1>2, <1>3, <1>4, <1>5 DEF Stage

\* Every step of a push keeps KeptInv.
LEMMA KeptPush ==
  ASSUME JobInv, FlowInv, OnceInv, KeptInv, Deliver \/ Backup
  PROVE  KeptInv'
<1> USE RunAssumption, MarksDistinct
    DEF FlowInv, KeptInv, DeliverPCs, BackupPCs, workVars, refVars, hubVars, remoteVars, budgets, End, EndPush
<1>1. CASE DispatchDeliver
  BY <1>1, KeptBegin DEF DispatchDeliver
<1>2. CASE DeliverCommit \/ DeliverFetch \/ Diverged
  BY <1>2 DEF DeliverCommit, Commit, DeliverFetch, Diverged
<1>3. CASE Noop
  BY <1>3 DEF Noop
<1>4. CASE Merge
  BY <1>4 DEF Merge
<1>5. CASE Resolved \/ Residual \/ MergeCommitThrows
  BY <1>5 DEF Resolved, Residual, MergeCommitThrows
<1>6. CASE DeliverPush \/ DeliverDone \/ PushThrows
  BY <1>6 DEF DeliverPush, DeliverDone, PushThrows
<1>7. CASE Backup
  BY <1>7 DEF Backup, DispatchBackup, BackupCommit, Commit, BackupPush
<1> QED BY <1>1, <1>2, <1>3, <1>4, <1>5, <1>6, <1>7 DEF Deliver

\* Every step of a reconciliation keeps KeptInv: what the reset takes was pinned first.
LEMMA KeptReconcile ==
  ASSUME JobInv, FlowInv, OnceInv, KeptInv, Reconcile
  PROVE  KeptInv'
<1> USE RunAssumption
    DEF JobInv, FlowInv, KeptInv, OnceInv, DeliverPCs, procVars, workVars, refVars, hubVars, remoteVars, budgets,
        Reconciling
<1>1. CASE ReadHead \/ CommitTail
  BY <1>1 DEF ReadHead, CommitTail
<1>2. CASE PinTail \/ PushTail
  BY <1>2 DEF PinTail, PushTail
<1>3. CASE ResetTree
  BY <1>3 DEF ResetTree
<1>4. CASE ReconcileFails \/ ClearLedger
  BY <1>4 DEF ReconcileFails, ClearLedger
<1> QED BY <1>1, <1>2, <1>3, <1>4 DEF Reconcile

\* A step keeps KeptInv.
LEMMA KeptStep == JobInv /\ FlowInv /\ OnceInv /\ KeptInv /\ [Next]_vars => KeptInv'
<1> SUFFICES ASSUME JobInv, FlowInv, OnceInv, KeptInv, [Next]_vars PROVE KeptInv'
  OBVIOUS
<1> USE DEF KeptInv, OnceInv, DeliverPCs, procVars, workVars, refVars, hubVars, remoteVars, history, budgets
<1>1. CASE Kill \/ BootKill \/ Boot
  BY <1>1 DEF Kill, BootKill, Boot
<1>2. CASE BaseAdvances \/ Teardown
  BY <1>2 DEF BaseAdvances, Teardown
<1>3. CASE UNCHANGED vars
  BY <1>3 DEF vars
<1> QED BY <1>1, <1>2, <1>3, KeptStage, KeptPush, KeptReconcile DEF Next

\* A run that met a conflict has something of its own to save, wherever it is saved
\* from: a worktree that differs from HEAD is never just the base.
OwnInv ==
  /\ job \in {"conflict", "savePush"} => ~(head \subseteq BaseMarks)
  /\ job = "saveCommit" => ~(tree \subseteq BaseMarks)
  /\ result = "conflict" /\ known /\ job = "idle" => ~(tree \subseteq BaseMarks)
  /\ exists /\ tree # head => ~(tree \subseteq BaseMarks)
  /\ rc \in {"pin", "push"} => ~(head \subseteq BaseMarks)
  /\ result = "backup" => ~(rwip \subseteq BaseMarks)

\* OwnInv holds at the start.
LEMMA OwnInit == Init => OwnInv
BY DEF Init, OwnInv

\* Every stage's step keeps OwnInv.
LEMMA OwnStage ==
  ASSUME JobInv, FlowInv, OwnInv, Stage
  PROVE  OwnInv'
<1> USE RunAssumption, MarksDistinct
    DEF JobInv, FlowInv, OwnInv, procVars, rcVars, workVars, remoteVars, hubVars, Begin, Provision, End
<1>1. CASE DispatchStage
  BY <1>1 DEF DispatchStage
<1>2. CASE AgentWrites
  <2>1. Half(next) \notin BaseMarks
    BY DEF Half, Base, BaseMarks
  <2> QED BY <1>2, <2>1 DEF AgentWrites
<1>3. CASE AgentCommits
  BY <1>3 DEF AgentCommits
<1>4. CASE StageEnds
  <2>1. Done(next) \notin BaseMarks
    BY DEF Done, Base, BaseMarks
  <2> QED BY <1>4, <2>1 DEF StageEnds
<1>5. CASE StageFails
  BY <1>5 DEF StageFails
<1> QED BY <1>1, <1>2, <1>3, <1>4, <1>5 DEF Stage

\* Every step of a push keeps OwnInv.
LEMMA OwnPush ==
  ASSUME JobInv, FlowInv, OwnInv, Deliver \/ Backup
  PROVE  OwnInv'
<1> USE RunAssumption, MarksDistinct
    DEF JobInv, FlowInv, OwnInv, procVars, rcVars, workVars, remoteVars, hubVars, Begin, Provision, End, EndPush
<1>1. CASE DispatchDeliver
  BY <1>1 DEF DispatchDeliver
<1>2. CASE DeliverCommit \/ DeliverFetch \/ Diverged \/ Noop
  BY <1>2 DEF DeliverCommit, Commit, DeliverFetch, Diverged, Noop
<1>3. CASE Merge
  BY <1>3 DEF Merge
<1>4. CASE Resolved \/ Residual \/ MergeCommitThrows
  BY <1>4 DEF Resolved, Residual, MergeCommitThrows
<1>5. CASE DeliverPush \/ DeliverDone \/ PushThrows
  BY <1>5 DEF DeliverPush, DeliverDone, PushThrows
<1>6. CASE Backup
  BY <1>6 DEF Backup, DispatchBackup, BackupCommit, Commit, BackupPush
<1> QED BY <1>1, <1>2, <1>3, <1>4, <1>5, <1>6 DEF Deliver

\* A step keeps OwnInv.
LEMMA OwnStep == JobInv /\ FlowInv /\ OwnInv /\ [Next]_vars => OwnInv'
<1> SUFFICES ASSUME JobInv, FlowInv, OwnInv, [Next]_vars PROVE OwnInv'
  OBVIOUS
<1> USE DEF JobInv, FlowInv, OwnInv, procVars, rcVars, workVars, refVars, hubVars, remoteVars, history, budgets
<1>1. CASE Reconcile
  BY <1>1 DEF Reconcile, ReadHead, CommitTail, PinTail, PushTail, ResetTree, ReconcileFails,
              ClearLedger, Reconciling
<1>2. CASE Kill \/ BootKill \/ Boot
  BY <1>2 DEF Kill, BootKill, Boot
<1>3. CASE BaseAdvances \/ Teardown
  BY <1>3 DEF BaseAdvances, Teardown
<1>4. CASE UNCHANGED vars
  BY <1>4 DEF vars
<1> QED BY <1>1, <1>2, <1>3, <1>4, OwnStage, OwnPush DEF Next

\* What the hub hears of a push is true, for any number of stages, deaths and pushes:
\* a delivery, or a run with nothing to deliver, has the output of every stage that
\* ended well on the remote or on the wip branch through one interruption, and the
\* branch of a backup that is reported never holds just the base.
THEOREM OutcomeIsTrueCorrect == Spec => []OutcomeIsTrue
<1>1. KeptInv /\ OwnInv => OutcomeIsTrue
  BY DEF KeptInv, OwnInv, OutcomeIsTrue, DeliveryKeepsFinished, BackupSaves
<1> QED BY <1>1, JobInit, JobStep, FlowInit, FlowStep, OnceInit, OnceStep, KeptInit, KeptStep,
           OwnInit, OwnStep, PTL DEF Spec

-----------------------------------------------------------------------------
\* Where the process, the job and the reconciliation can be, and the budgets.
PlaceTyped ==
  /\ proc \in {"down", "boot", "up"}
  /\ job \in {"idle", "stage"} \cup DeliverPCs \cup BackupPCs
  /\ rc \in {"off", "read", "commit", "pin", "push", "reset", "clear"}
  /\ result \in Results
  /\ kills \in 0..MaxKills /\ bootKills \in 0..MaxBootKills
  /\ faults \in 0..MaxFaults /\ reaps \in 0..MaxReaps /\ pushes \in 0..MaxPushes

\* The files and commits of a run are made of its marks.
FilesTyped ==
  /\ rcHead \subseteq Marks /\ tree \subseteq Marks /\ head \subseteq Marks
  /\ wip \subseteq Marks /\ salvage \subseteq Marks /\ fetchHead \subseteq Marks
  /\ base \subseteq BaseMarks /\ remote \subseteq Marks /\ rwip \subseteq Marks
  /\ finished \subseteq Marks /\ left \subseteq Marks /\ dropped \subseteq Marks

\* What is either so or not.
FlagsTyped == known \in BOOLEAN /\ ledgered \in BOOLEAN /\ exists \in BOOLEAN /\ related \in BOOLEAN

\* The three hold at the start.
LEMMA WorkTypedInit == Init => PlaceTyped /\ FilesTyped /\ FlagsTyped
<1> SUFFICES ASSUME Init PROVE PlaceTyped /\ FilesTyped /\ FlagsTyped
  OBVIOUS
<1>1. PlaceTyped
  BY RunAssumption DEF Init, PlaceTyped, Results
<1>2. FilesTyped
  BY DEF Init, FilesTyped, Marks, BaseMarks
<1>3. FlagsTyped
  BY DEF Init, FlagsTyped
<1> QED BY <1>1, <1>2, <1>3

\* A step leaves the process, the job and the reconciliation somewhere.
LEMMA PlaceStep == PlaceTyped /\ [Next]_vars => PlaceTyped'
<1> SUFFICES ASSUME PlaceTyped, [Next]_vars PROVE PlaceTyped'
  OBVIOUS
<1> USE RunAssumption DEF PlaceTyped, DeliverPCs, BackupPCs, Results, procVars, rcVars, workVars, refVars,
        remoteVars, hubVars, history, budgets
<1>1. CASE Stage
  BY <1>1 DEF Stage, DispatchStage, AgentWrites, AgentCommits, StageEnds, StageFails, Begin, End
<1>2. CASE Deliver
  BY <1>2 DEF Deliver, DispatchDeliver, DeliverCommit, Commit, DeliverFetch, Diverged, Noop, Merge,
              Resolved, Residual, DeliverPush, DeliverDone, PushThrows, MergeCommitThrows,
              Begin, End, EndPush
<1>3. CASE Backup
  BY <1>3 DEF Backup, DispatchBackup, BackupCommit, Commit, BackupPush, EndPush, End
<1>4. CASE Reconcile
  BY <1>4 DEF Reconcile, ReadHead, CommitTail, PinTail, PushTail, ResetTree, ReconcileFails,
              ClearLedger, Reconciling
<1>5. CASE Kill \/ BootKill \/ Boot
  BY <1>5 DEF Kill, BootKill, Boot
<1>6. CASE BaseAdvances \/ Teardown
  BY <1>6 DEF BaseAdvances, Teardown
<1>7. CASE UNCHANGED vars
  BY <1>7 DEF vars
<1> QED BY <1>1, <1>2, <1>3, <1>4, <1>5, <1>6, <1>7 DEF Next

\* A step writes nothing but marks; the stage that writes is one of the run's.
LEMMA FilesStep == FlowInv /\ FilesTyped /\ [Next]_vars => FilesTyped'
<1> SUFFICES ASSUME FlowInv, FilesTyped, [Next]_vars PROVE FilesTyped'
  OBVIOUS
<1>a. BaseMarks \subseteq Marks /\ Markers \in Marks
  BY DEF Marks
<1>b. job = "stage" => Half(next) \in Marks /\ Done(next) \in Marks
  BY RunAssumption DEF FlowInv, Marks
<1> USE <1>a, <1>b DEF FilesTyped, procVars, rcVars, workVars, refVars,
        remoteVars, hubVars, history, budgets
<1>1. CASE Stage
  BY <1>1 DEF Stage, DispatchStage, AgentWrites, AgentCommits, StageEnds, StageFails, Begin, Provision,
              StartPoint, End
<1>2. CASE Deliver
  BY <1>2 DEF Deliver, DispatchDeliver, DeliverCommit, Commit, DeliverFetch, Diverged, Noop, Merge,
              Resolved, Residual, DeliverPush, DeliverDone, PushThrows, MergeCommitThrows,
              Begin, Provision, StartPoint, End, EndPush
<1>3. CASE Backup
  BY <1>3 DEF Backup, DispatchBackup, BackupCommit, Commit, BackupPush, EndPush, End
<1>4. CASE Reconcile
  BY <1>4 DEF Reconcile, ReadHead, CommitTail, PinTail, PushTail, ResetTree, ReconcileFails,
              ClearLedger, Reconciling
<1>5. CASE Kill \/ BootKill \/ Boot
  BY <1>5 DEF Kill, BootKill, Boot, Uncommitted
<1>6. CASE BaseAdvances \/ Teardown
  BY <1>6 DEF BaseAdvances, Teardown
<1>7. CASE UNCHANGED vars
  BY <1>7 DEF vars
<1> QED BY <1>1, <1>2, <1>3, <1>4, <1>5, <1>6, <1>7 DEF Next

\* A step leaves every flag set or not.
LEMMA FlagsStep == FlagsTyped /\ [Next]_vars => FlagsTyped'
<1> SUFFICES ASSUME FlagsTyped, [Next]_vars PROVE FlagsTyped'
  OBVIOUS
<1> USE DEF procVars, rcVars, workVars, refVars, remoteVars, hubVars, history, budgets
<1>1. CASE Stage \/ Deliver
  <2>1. /\ ledgered' = ledgered \/ ledgered' = TRUE \/ ledgered' = FALSE
        /\ known' = known \/ known' = TRUE
        /\ exists' = exists \/ exists' = TRUE
        /\ related' = related
    BY <1>1 DEF Stage, DispatchStage, AgentWrites, AgentCommits, StageEnds, StageFails, Begin, Provision,
              End, Deliver, DispatchDeliver, DeliverCommit, Commit, DeliverFetch, Diverged, Noop, Merge,
              Resolved, Residual, DeliverPush, DeliverDone, PushThrows, MergeCommitThrows, EndPush
  <2> QED BY <2>1, Zenon DEF FlagsTyped
<1>2. CASE Backup \/ Reconcile \/ Kill \/ BootKill \/ Boot \/ BaseAdvances \/ Teardown \/ UNCHANGED vars
  <2>1. /\ ledgered' = ledgered \/ ledgered' = TRUE \/ ledgered' = FALSE
        /\ known' = known \/ known' = FALSE
        /\ exists' = exists \/ exists' = FALSE
        /\ related' = related
    BY <1>2 DEF Backup, DispatchBackup, BackupCommit, Commit, BackupPush, EndPush, End,
              Reconcile, ReadHead, CommitTail, PinTail, PushTail, ResetTree, ReconcileFails,
              ClearLedger, Reconciling, Kill, BootKill, Boot, BaseAdvances, Teardown, vars
  <2> QED BY <2>1, Zenon DEF FlagsTyped
<1> QED BY <1>1, <1>2 DEF Next

\* What the three say together.
LEMMA WorkTyped == PlaceTyped /\ FilesTyped /\ FlagsTyped /\ FlowInv => TypeOK
BY Zenon DEF PlaceTyped, FilesTyped, FlagsTyped, FlowInv, TypeOK

-----------------------------------------------------------------------------
\* The worktrees on disk are registered and in their run's directory.
TreesTyped ==
  /\ now \in 0..MaxNow /\ jobs \in 0..MaxJobs /\ wFaults \in 0..MaxTreeFaults
  /\ wTree \in [W!Repos -> SUBSET Runs] /\ reg \in [W!Repos -> SUBSET Runs]
  /\ dirty \in [W!Repos -> SUBSET Runs] /\ dir \subseteq Runs
  /\ \A k \in W!Repos : wTree[k] \subseteq reg[k] /\ wTree[k] \subseteq dir /\ dirty[k] \subseteq wTree[k]

\* A mirror always knows a base, and the branch of every worktree exists.
RefsTyped ==
  /\ heads \in [W!Repos -> [Runs -> W!Tip]]
  /\ seen \in [W!Repos -> [Runs \cup {"base"} -> W!Tip]]
  /\ \A k \in W!Repos : seen[k]["base"] # NoRef
  /\ wRemote \in [W!Repos -> [Runs -> W!Tip]] /\ merged \in [W!Repos -> SUBSET Runs]
  /\ \A k \in W!Repos : \A r \in wTree[k] : heads[k][W!Branch(r)] # NoRef

Torn == [left : SUBSET W!Repos, by : Runs \cup {"frame"}]

\* What the process remembers.
MemoryTyped ==
  /\ map \in [Runs -> SUBSET W!Repos]
  /\ used \in [Runs -> -1..MaxNow] /\ touched \in [Runs -> 0..MaxNow]
  /\ inFlight \in [Runs -> 0..1]
  /\ wJob \in [Runs -> {"none", "queued", "staging", "retaining", "down"}]
  /\ \A r \in Runs : inFlight[r] = 1 <=> wJob[r] \in {"staging", "retaining"}
  /\ purge \in [Runs -> Seq(Runs)]
  /\ torn \in [Runs -> {NotTorn} \cup Torn]

History == [made : SUBSET Runs, pushed : SUBSET Runs, hand : SUBSET Runs, parked : [Runs -> -1..MaxNow]]

\* What was parked, and when it was last.
HistoryTyped ==
  /\ wHistory \in [W!Repos -> History]
  /\ wSalvage \in [W!Repos -> SUBSET W!Parked]

\* A remote branch has only what was pushed; what was parked is under the ref it was last
\* parked by, until that expires.
CommitsKept ==
  \A k \in W!Repos :
    /\ \A b \in Runs : wRemote[k][b] # NoRef => wRemote[k][b] \subseteq wHistory[k].pushed
    /\ \A p \in wSalvage[k] : p.at <= now /\ \A m \in p.tip : p.at <= wHistory[k].parked[m]
    /\ \A m \in Runs : wHistory[k].parked[m] >= 0 =>
         \/ \E p \in wSalvage[k] : m \in p.tip /\ p.at = wHistory[k].parked[m]
         \/ now - wHistory[k].parked[m] > Ttl

TreesInv ==
  /\ TreesTyped /\ RefsTyped /\ MemoryTyped /\ HistoryTyped /\ CommitsKept
  /\ W!UnpushedRecoverable /\ W!ParkedRunKept /\ W!OneTreePerBranch

\* A process is up or down with all its jobs.
OneProcess == W!Up \/ \A r \in Runs : wJob[r] = "down"

-----------------------------------------------------------------------------
\* What the assumptions say.
LEMMA TreesAssumed ==
  /\ IsFiniteSet(Runs) /\ First \in Runs /\ Wide \subseteq Runs /\ RepoCount \in Nat \ {0}
  /\ Cap \in Nat /\ Grace \in Nat /\ MaxIdle \in Nat /\ Ttl \in Nat
  /\ MaxNow \in Nat /\ MaxJobs \in Nat /\ MaxTreeFaults \in 0..MaxJobs
  /\ NoRef \notin SUBSET Runs /\ NotTorn \notin Torn
<1>1. W!WorktreesAssumption
  BY MCGitAssumption
<1>2. NotTorn \notin [left : SUBSET (1..RepoCount), by : Runs \cup {"frame"}]
  BY <1>1 DEF W!WorktreesAssumption
<1>3. NotTorn \notin Torn
  BY <1>2, Zenon DEF Torn, W!Repos
<1>4. NoRef \notin SUBSET Runs
  BY <1>1 DEF W!WorktreesAssumption
<1>5. /\ IsFiniteSet(Runs) /\ First \in Runs /\ Wide \subseteq Runs /\ RepoCount \in Nat \ {0}
      /\ Cap \in Nat /\ Grace \in Nat /\ MaxIdle \in Nat /\ Ttl \in Nat
      /\ MaxNow \in Nat /\ MaxJobs \in Nat /\ MaxTreeFaults \in 0..MaxJobs
  BY <1>1 DEF W!WorktreesAssumption, W!IsFiniteSet, IsFiniteSet
<1> QED BY <1>3, <1>4, <1>5, Zenon

\* A run's branch is a run's name: its own, unless the runs are of one issue.
LEMMA BranchIs ==
  /\ \A r \in Runs : W!Branch(r) \in Runs
  /\ ~conf.shared => \A r \in Runs : W!Branch(r) = r
BY TreesAssumed DEF W!Branch

-----------------------------------------------------------------------------
(* What a provisioning does, piece by piece. *)

Failing(r, need, net) == {k \in need : W!Fails(k, r, net)}
Tried(r, need, net) == {k \in need : r \notin wTree[k] /\ \A j \in Failing(r, need, net) : k <= j}
Built(r, need, net) == Tried(r, need, net) \ Failing(r, need, net)
Evicted(k, r, need, net) ==
  IF k \in Tried(r, need, net) /\ ~W!Blocked(k, r) THEN W!Holders(k, r) ELSE {}
Reached(k, r, net) == IF W!Blocked(k, r) /\ net[k] = "flaky" THEN "down" ELSE net[k]

Effect(r, need, net) ==
  /\ wTree' = [k \in W!Repos |->
       IF Failing(r, need, net) = {}
       THEN (wTree[k] \ Evicted(k, r, need, net)) \cup IF k \in Built(r, need, net) THEN {r} ELSE {}
       ELSE wTree[k] \ (Evicted(k, r, need, net) \cup IF k \in Built(r, need, net) THEN {r} ELSE {})]
  /\ reg' = [k \in W!Repos |-> IF k \in Tried(r, need, net) THEN wTree'[k]
                               ELSE reg[k] \ (wTree[k] \ wTree'[k])]
  /\ dirty' = [k \in W!Repos |-> dirty[k] \cap wTree'[k]]
  /\ dir' = IF Failing(r, need, net) = {} THEN dir \cup {r} ELSE dir
  /\ touched' = [x \in Runs |-> IF x = r \/ \E k \in W!Repos : x \in Evicted(k, r, need, net)
                                THEN now ELSE touched[x]]
  /\ seen' = [k \in W!Repos |-> IF k \in Tried(r, need, net) THEN W!Seen(k, Reached(k, r, net))
                                ELSE seen[k]]
  /\ wSalvage' = [k \in W!Repos |-> wSalvage[k] \cup
                    IF k \in Built(r, need, net) THEN W!Orphaned(k, r, net[k]) ELSE {}]
  /\ heads' = [k \in W!Repos |-> [branch \in Runs |->
       IF k \in Built(r, need, net) /\ branch = W!Branch(r) THEN W!StartPoint(k, r, net[k])
       ELSE IF k \in Tried(r, need, net) /\ net[k] = "up" /\ branch \in W!Shadows(k) THEN NoRef
       ELSE heads[k][branch]]]
  /\ wHistory' = [k \in W!Repos |-> [wHistory[k] EXCEPT !.parked = [m \in Runs |->
       IF k \in Built(r, need, net) /\ \E p \in W!Orphaned(k, r, net[k]) : m \in p.tip
       THEN now ELSE @[m]]]]

\* What a provisioning does is the sum of the pieces.
LEMMA ProvisionIs ==
  ASSUME NEW r, NEW need, NEW net, W!Provision(r, need, net) PROVE Effect(r, need, net)
BY DEF Effect, W!Provision, W!Undone, Failing, Tried, Built, Evicted, Reached

\* Which worktrees come and go.
Changes(k, r, need, net) ==
  /\ \A x \in wTree[k] \ wTree'[k] : x \in W!Holders(k, r) /\ ~W!Busy(x)
  /\ \A x \in wTree'[k] \ wTree[k] : x = r /\ k \in Built(r, need, net) /\ Failing(r, need, net) = {}
  /\ k \in Built(r, need, net) => ~W!Blocked(k, r) /\ net[k] # "down" /\ r \notin wTree[k]
  /\ k \in Built(r, need, net) /\ Failing(r, need, net) = {} =>
       wTree'[k] = (wTree[k] \ W!Holders(k, r)) \cup {r}
  /\ k \notin Tried(r, need, net) => wTree'[k] = wTree[k]
  /\ reg'[k] = IF k \in Tried(r, need, net) THEN wTree'[k] ELSE reg[k]
  /\ dirty'[k] = dirty[k] \cap wTree'[k]

\* A provisioning takes worktrees of idle runs that hold the branch, and gives one to its run.
LEMMA ProvisionTrees ==
  ASSUME NEW r \in Runs, NEW need \in SUBSET W!Repos, NEW net, W!Provision(r, need, net), TreesTyped,
         NEW k \in W!Repos
  PROVE  Changes(k, r, need, net)
<1>1. k \in Built(r, need, net) => k \in Tried(r, need, net) /\ ~W!Fails(k, r, net)
  BY DEF Built, Tried, Failing
<1>2. k \in Tried(r, need, net) => r \notin wTree[k] /\ k \in need
  BY DEF Tried
<1>3. k \in Built(r, need, net) => ~W!Blocked(k, r) /\ net[k] # "down" /\ r \notin wTree[k]
  BY <1>1, <1>2 DEF W!Fails
<1>4. Evicted(k, r, need, net) \subseteq W!Holders(k, r)
  BY DEF Evicted
<1>5. \A x \in Evicted(k, r, need, net) : ~W!Busy(x)
  BY DEF Evicted, W!Blocked
<1>6. k \in Built(r, need, net) => Evicted(k, r, need, net) = W!Holders(k, r)
  BY <1>1, <1>3 DEF Evicted
<1>7. k \notin Tried(r, need, net) => Evicted(k, r, need, net) = {} /\ k \notin Built(r, need, net)
  BY <1>1 DEF Evicted
<1> DEFINE built == IF k \in Built(r, need, net) THEN {r} ELSE {}
           evicted == Evicted(k, r, need, net)
<1>8. wTree'[k] = IF Failing(r, need, net) = {} THEN (wTree[k] \ evicted) \cup built
                  ELSE wTree[k] \ (evicted \cup built)
  <2>1. wTree' = [i \in W!Repos |->
              IF Failing(r, need, net) = {}
              THEN (wTree[i] \ Evicted(i, r, need, net)) \cup IF i \in Built(r, need, net) THEN {r} ELSE {}
              ELSE wTree[i] \ (Evicted(i, r, need, net) \cup IF i \in Built(r, need, net) THEN {r} ELSE {})]
    BY ProvisionIs DEF Effect
  <2> QED BY <2>1
<1>9. /\ reg'[k] = IF k \in Tried(r, need, net) THEN wTree'[k] ELSE reg[k] \ (wTree[k] \ wTree'[k])
      /\ dirty'[k] = dirty[k] \cap wTree'[k]
  <2>1. /\ reg' = [i \in W!Repos |-> IF i \in Tried(r, need, net) THEN wTree'[i]
                                     ELSE reg[i] \ (wTree[i] \ wTree'[i])]
        /\ dirty' = [i \in W!Repos |-> dirty[i] \cap wTree'[i]]
    BY ProvisionIs DEF Effect
  <2> QED BY <2>1
<1> HIDE DEF evicted
<1>10. \A x \in wTree[k] \ wTree'[k] : x \in evicted
  BY <1>3, <1>8
<1>11. k \notin Tried(r, need, net) => wTree'[k] = wTree[k]
  BY <1>7, <1>8 DEF evicted
<1>12. reg'[k] = IF k \in Tried(r, need, net) THEN wTree'[k] ELSE reg[k]
  BY <1>9, <1>11
<1>13. \A x \in wTree'[k] \ wTree[k] : x = r /\ k \in Built(r, need, net) /\ Failing(r, need, net) = {}
  BY <1>8
<1>14. k \in Built(r, need, net) /\ Failing(r, need, net) = {} =>
         wTree'[k] = (wTree[k] \ W!Holders(k, r)) \cup {r}
  BY <1>6, <1>8 DEF evicted
<1>15. \A x \in wTree[k] \ wTree'[k] : x \in W!Holders(k, r) /\ ~W!Busy(x)
  BY <1>4, <1>5, <1>10 DEF evicted
<1> QED BY <1>3, <1>9, <1>11, <1>12, <1>13, <1>14, <1>15 DEF Changes

\* A provisioning keeps the worktrees registered and in their directories.
LEMMA ProvisionTypes ==
  ASSUME NEW r \in Runs, NEW need \in SUBSET W!Repos, NEW net, W!Provision(r, need, net), TreesTyped,
         now' = now, jobs' \in 0..MaxJobs, wFaults' = wFaults
  PROVE  TreesTyped'
<1>1. \A k \in W!Repos :
        /\ wTree'[k] \subseteq wTree[k] \cup {r}
        /\ r \in wTree'[k] \ wTree[k] => Failing(r, need, net) = {}
        /\ reg'[k] = IF k \in Tried(r, need, net) THEN wTree'[k] ELSE reg[k]
        /\ k \notin Tried(r, need, net) => wTree'[k] = wTree[k]
        /\ dirty'[k] = dirty[k] \cap wTree'[k]
  <2> TAKE k \in W!Repos
  <2>1. /\ \A x \in wTree'[k] \ wTree[k] : x = r /\ Failing(r, need, net) = {}
        /\ reg'[k] = IF k \in Tried(r, need, net) THEN wTree'[k] ELSE reg[k]
        /\ k \notin Tried(r, need, net) => wTree'[k] = wTree[k]
        /\ dirty'[k] = dirty[k] \cap wTree'[k]
    <3>1. Changes(k, r, need, net)
      BY ProvisionTrees
    <3> QED BY <3>1 DEF Changes
  <2> QED BY <2>1
<1>2. dir' = IF Failing(r, need, net) = {} THEN dir \cup {r} ELSE dir
  BY ProvisionIs DEF Effect
<1>3. /\ wTree' = [k \in W!Repos |-> wTree'[k]] /\ reg' = [k \in W!Repos |-> reg'[k]]
      /\ dirty' = [k \in W!Repos |-> dirty'[k]]
  BY ProvisionIs DEF Effect
<1>4. \A k \in W!Repos : wTree[k] \subseteq Runs /\ reg[k] \subseteq Runs /\ dirty[k] \subseteq Runs
                         /\ wTree[k] \subseteq reg[k] /\ wTree[k] \subseteq dir
  BY DEF TreesTyped
<1>5. wTree' \in [W!Repos -> SUBSET Runs]
  BY <1>1, <1>3, <1>4
<1>6. reg' \in [W!Repos -> SUBSET Runs]
  BY <1>1, <1>3, <1>4, <1>5
<1>7. dirty' \in [W!Repos -> SUBSET Runs]
  BY <1>1, <1>3, <1>4, <1>5
<1>8. dir' \subseteq Runs
  BY <1>2 DEF TreesTyped
<1>9. \A k \in W!Repos : wTree'[k] \subseteq reg'[k] /\ wTree'[k] \subseteq dir' /\ dirty'[k] \subseteq wTree'[k]
  BY <1>1, <1>2, <1>4
<1>10. now' \in 0..MaxNow /\ jobs' \in 0..MaxJobs /\ wFaults' \in 0..MaxTreeFaults
  BY DEF TreesTyped
<1> QED BY <1>5, <1>6, <1>7, <1>8, <1>9, <1>10 DEF TreesTyped

-----------------------------------------------------------------------------
\* What the mirror knows after a fetch, and where a branch starts.
LEMMA SeenTyped ==
  ASSUME RefsTyped, NEW k \in W!Repos, NEW answer \in W!Net
  PROVE  /\ W!Seen(k, answer) \in [Runs \cup {"base"} -> W!Tip]
         /\ W!Seen(k, answer)["base"] # NoRef
<1>1. merged[k] \in SUBSET Runs /\ merged[k] \in W!Tip /\ merged[k] # NoRef
  BY TreesAssumed DEF RefsTyped, W!Tip
<1>2. \A branch \in Runs : wRemote[k][branch] \in W!Tip
  BY DEF RefsTyped
<1>3. seen[k] \in [Runs \cup {"base"} -> W!Tip] /\ seen[k]["base"] # NoRef
  BY DEF RefsTyped
<1>4. CASE answer = "up"
  <2>1. W!Seen(k, answer) = [branch \in Runs \cup {"base"} |-> IF branch = "base" THEN merged[k] ELSE wRemote[k][branch]]
    BY <1>4 DEF W!Seen
  <2> QED BY <1>1, <1>2, <2>1
<1>5. CASE answer = "flaky"
  <2>1. W!Seen(k, answer) = [seen[k] EXCEPT !["base"] = merged[k]]
    BY <1>5 DEF W!Seen
  <2> QED BY <1>1, <1>3, <2>1
<1>6. CASE answer = "down"
  <2>1. W!Seen(k, answer) = seen[k]
    BY <1>6 DEF W!Seen
  <2> QED BY <1>3, <2>1
<1> QED BY <1>4, <1>5, <1>6 DEF W!Net

\* A branch starts at a commit, never at nothing.
LEMMA StartPointTyped ==
  ASSUME RefsTyped, NEW k \in W!Repos, NEW answer \in W!Net, NEW r \in Runs
  PROVE  W!StartPoint(k, r, answer) \in SUBSET Runs
<1> DEFINE tips == W!Seen(k, answer)
<1>1. tips \in [Runs \cup {"base"} -> W!Tip] /\ tips["base"] # NoRef
  BY SeenTyped
<1>2. W!Branch(r) \in Runs
  BY BranchIs
<1>3. W!StartPoint(k, r, answer) = IF tips[W!Branch(r)] # NoRef THEN tips[W!Branch(r)] ELSE tips["base"]
  BY DEF W!StartPoint
<1> HIDE DEF tips
<1>4. tips[W!Branch(r)] \in W!Tip /\ tips["base"] \in W!Tip
  BY <1>1, <1>2
<1> QED BY <1>1, <1>3, <1>4 DEF W!Tip

\* What a provisioning makes of a head.
LEMMA HeadAfter ==
  ASSUME NEW r \in Runs, NEW need \in SUBSET W!Repos, NEW net \in [W!Repos -> W!Net], W!Provision(r, need, net),
         RefsTyped, NEW k \in W!Repos, NEW branch \in Runs
  PROVE  /\ heads'[k][branch] =
              IF k \in Built(r, need, net) /\ branch = W!Branch(r) THEN W!StartPoint(k, r, net[k])
              ELSE IF k \in Tried(r, need, net) /\ net[k] = "up" /\ branch \in W!Shadows(k) THEN NoRef
              ELSE heads[k][branch]
         /\ heads'[k][branch] \in W!Tip
<1>1. heads' = [i \in W!Repos |-> [other \in Runs |->
              IF i \in Built(r, need, net) /\ other = W!Branch(r) THEN W!StartPoint(i, r, net[i])
              ELSE IF i \in Tried(r, need, net) /\ net[i] = "up" /\ other \in W!Shadows(i) THEN NoRef
              ELSE heads[i][other]]]
  BY ProvisionIs DEF Effect
<1>2. heads'[k][branch] =
              IF k \in Built(r, need, net) /\ branch = W!Branch(r) THEN W!StartPoint(k, r, net[k])
              ELSE IF k \in Tried(r, need, net) /\ net[k] = "up" /\ branch \in W!Shadows(k) THEN NoRef
              ELSE heads[k][branch]
  BY <1>1
<1>3. net[k] \in W!Net /\ heads[k][branch] \in W!Tip
  BY DEF RefsTyped
<1>4. W!StartPoint(k, r, net[k]) \in SUBSET Runs
  BY <1>3, StartPointTyped
<1> QED BY <1>2, <1>3, <1>4 DEF W!Tip

\* A provisioning leaves the mirrors in order, and their branches with a head each.
LEMMA ProvisionRefs ==
  ASSUME NEW r \in Runs, NEW need \in SUBSET W!Repos, NEW net \in [W!Repos -> W!Net], W!Provision(r, need, net),
         TreesTyped, RefsTyped, UNCHANGED <<conf, wRemote, merged>>
  PROVE  RefsTyped'
<1>1. heads' \in [W!Repos -> [Runs -> W!Tip]]
  <2>1. heads' = [i \in W!Repos |-> [other \in Runs |->
              IF i \in Built(r, need, net) /\ other = W!Branch(r) THEN W!StartPoint(i, r, net[i])
              ELSE IF i \in Tried(r, need, net) /\ net[i] = "up" /\ other \in W!Shadows(i) THEN NoRef
              ELSE heads[i][other]]]
    BY ProvisionIs DEF Effect
  <2>2. \A k \in W!Repos : \A branch \in Runs : heads'[k][branch] \in W!Tip
    BY HeadAfter
  <2>3. \A k \in W!Repos : heads'[k] \in [Runs -> W!Tip]
    BY <2>1, <2>2
  <2> QED BY <2>1, <2>3
<1>2. /\ seen' \in [W!Repos -> [Runs \cup {"base"} -> W!Tip]]
      /\ \A k \in W!Repos : seen'[k]["base"] # NoRef
  <2>1. seen' = [k \in W!Repos |-> IF k \in Tried(r, need, net) THEN W!Seen(k, Reached(k, r, net)) ELSE seen[k]]
    BY ProvisionIs DEF Effect
  <2>2. \A k \in W!Repos : Reached(k, r, net) \in W!Net
    BY DEF Reached, W!Net
  <2>3. \A k \in W!Repos : /\ W!Seen(k, Reached(k, r, net)) \in [Runs \cup {"base"} -> W!Tip]
                           /\ W!Seen(k, Reached(k, r, net))["base"] # NoRef
    BY <2>2, SeenTyped
  <2>4. \A k \in W!Repos : seen[k] \in [Runs \cup {"base"} -> W!Tip] /\ seen[k]["base"] # NoRef
    BY DEF RefsTyped
  <2>5. \A k \in W!Repos : seen'[k] \in [Runs \cup {"base"} -> W!Tip] /\ seen'[k]["base"] # NoRef
    BY <2>1, <2>3, <2>4
  <2> QED BY <2>1, <2>5
<1>3. ASSUME NEW k \in W!Repos, NEW x \in wTree'[k] PROVE heads'[k][W!Branch(x)'] # NoRef
  <2>1. Changes(k, r, need, net)
    BY ProvisionTrees
  <2>2. W!Branch(x)' = W!Branch(x)
    BY DEF W!Branch
  <2>3. x \in Runs /\ W!Branch(x) \in Runs
    <3>1. x \in wTree[k] \/ x = r
      BY <2>1 DEF Changes
    <3> QED BY <3>1, BranchIs DEF TreesTyped
  <2>4. CASE k \in Built(r, need, net) /\ W!Branch(x) = W!Branch(r)
    <3>1. heads'[k][W!Branch(x)] = W!StartPoint(k, r, net[k])
      BY <2>3, <2>4, HeadAfter
    <3>2. W!StartPoint(k, r, net[k]) \in SUBSET Runs
      BY StartPointTyped
    <3> QED BY <2>2, <3>1, <3>2, TreesAssumed
  <2>5. CASE ~(k \in Built(r, need, net) /\ W!Branch(x) = W!Branch(r))
    <3>1. x \in wTree[k]
      BY <2>1, <2>5 DEF Changes
    <3>2. x \in reg[k] /\ heads[k][W!Branch(x)] # NoRef
      BY <3>1 DEF TreesTyped, RefsTyped
    <3>3. W!Branch(x) \notin W!Shadows(k)
      BY <3>2 DEF W!Shadows
    <3>4. heads'[k][W!Branch(x)] = heads[k][W!Branch(x)]
      BY <2>3, <2>5, <3>3, HeadAfter
    <3> QED BY <2>2, <3>2, <3>4
  <2> QED BY <2>4, <2>5
<1>4. wRemote' \in [W!Repos -> [Runs -> W!Tip]] /\ merged' \in [W!Repos -> SUBSET Runs]
  BY DEF RefsTyped
<1> QED BY <1>1, <1>2, <1>3, <1>4 DEF RefsTyped

-----------------------------------------------------------------------------
\* What is parked for the tip a provisioning resets.
LEMMA OrphanIs ==
  ASSUME NEW k, NEW r, NEW answer
  PROVE  /\ \A p \in W!Orphaned(k, r, answer) :
              /\ p = [branch |-> W!Branch(r), tip |-> heads[k][W!Branch(r)], at |-> now]
              /\ heads[k][W!Branch(r)] # NoRef
         /\ heads[k][W!Branch(r)] # NoRef /\ (answer = "up" => W!Branch(r) \notin W!Shadows(k))
              /\ ~(heads[k][W!Branch(r)] \subseteq W!StartPoint(k, r, answer))
              => [branch |-> W!Branch(r), tip |-> heads[k][W!Branch(r)], at |-> now] \in W!Orphaned(k, r, answer)
BY DEF W!Orphaned

\* What a provisioning adds to the history.
Records(k, r, need, net) ==
  /\ wSalvage'[k] = wSalvage[k] \cup
                    IF k \in Built(r, need, net) THEN W!Orphaned(k, r, net[k]) ELSE {}
  /\ wHistory'[k].made = wHistory[k].made /\ wHistory'[k].pushed = wHistory[k].pushed
  /\ wHistory'[k].hand = wHistory[k].hand
  /\ \A m \in Runs : wHistory'[k].parked[m] =
       IF k \in Built(r, need, net) /\ \E p \in W!Orphaned(k, r, net[k]) : m \in p.tip
       THEN now ELSE wHistory[k].parked[m]

\* What a provisioning records of what it parks.
LEMMA ProvisionHistory ==
  ASSUME NEW r \in Runs, NEW need \in SUBSET W!Repos, NEW net \in [W!Repos -> W!Net], W!Provision(r, need, net),
         TreesTyped, RefsTyped, HistoryTyped, now' = now
  PROVE  /\ HistoryTyped'
         /\ \A k \in W!Repos : Records(k, r, need, net)
<1>1. wSalvage' = [k \in W!Repos |-> wSalvage[k] \cup
                           IF k \in Built(r, need, net) THEN W!Orphaned(k, r, net[k]) ELSE {}]
  BY ProvisionIs DEF Effect
<1> DEFINE parked(k) == [m \in Runs |->
              IF k \in Built(r, need, net) /\ \E p \in W!Orphaned(k, r, net[k]) : m \in p.tip
              THEN now ELSE wHistory[k].parked[m]]
<1>2. wHistory' = [k \in W!Repos |-> [wHistory[k] EXCEPT !.parked = parked(k)]]
  BY ProvisionIs DEF Effect
<1>3. \A k \in W!Repos : wHistory[k] \in History
  BY DEF HistoryTyped
<1>4. now \in -1..MaxNow /\ now \in 0..MaxNow
  BY TreesAssumed DEF TreesTyped
<1>5. \A k \in W!Repos : parked(k) \in [Runs -> -1..MaxNow]
  <2> TAKE k \in W!Repos
  <2>1. wHistory[k].parked \in [Runs -> -1..MaxNow]
    BY <1>3 DEF History
  <2> QED BY <1>4, <2>1
<1>6. \A k \in W!Repos : \A m \in Runs : parked(k)[m] =
                   IF k \in Built(r, need, net) /\ \E p \in W!Orphaned(k, r, net[k]) : m \in p.tip
                   THEN now ELSE wHistory[k].parked[m]
  OBVIOUS
<1> HIDE DEF parked
<1>7. \A k \in W!Repos : /\ wHistory'[k] \in History /\ wHistory'[k].parked = parked(k)
                         /\ wHistory'[k].made = wHistory[k].made /\ wHistory'[k].pushed = wHistory[k].pushed
                         /\ wHistory'[k].hand = wHistory[k].hand
  <2> TAKE k \in W!Repos
  <2>1. wHistory'[k] = [wHistory[k] EXCEPT !.parked = parked(k)]
    BY <1>2
  <2>2. wHistory[k] \in History /\ parked(k) \in [Runs -> -1..MaxNow]
    BY <1>3, <1>5
  <2> QED BY <2>1, <2>2 DEF History
<1>8. wHistory' \in [W!Repos -> History]
  BY <1>2, <1>7
<1>9. \A k \in W!Repos : W!Orphaned(k, r, net[k]) \subseteq W!Parked
  <2> SUFFICES ASSUME NEW k \in W!Repos, NEW p \in W!Orphaned(k, r, net[k]) PROVE p \in W!Parked
    OBVIOUS
  <2>1. p = [branch |-> W!Branch(r), tip |-> heads[k][W!Branch(r)], at |-> now] /\ heads[k][W!Branch(r)] # NoRef
    BY OrphanIs
  <2>2. W!Branch(r) \in Runs
    BY BranchIs
  <2>3. heads[k][W!Branch(r)] \in SUBSET Runs
    BY <2>1, <2>2 DEF RefsTyped, W!Tip
  <2> QED BY <1>4, <2>1, <2>2, <2>3 DEF W!Parked
<1>10. wSalvage' \in [W!Repos -> SUBSET W!Parked]
  BY <1>1, <1>9 DEF HistoryTyped
<1>11. \A k \in W!Repos : Records(k, r, need, net)
  BY <1>1, <1>6, <1>7 DEF Records
<1> QED BY <1>8, <1>10, <1>11 DEF HistoryTyped

\* It parks what it takes from a branch.
LEMMA ProvisionCommits ==
  ASSUME NEW r \in Runs, NEW need \in SUBSET W!Repos, NEW net \in [W!Repos -> W!Net], W!Provision(r, need, net),
         TreesTyped, RefsTyped, HistoryTyped, CommitsKept, W!UnpushedRecoverable, now' = now, wRemote' = wRemote
  PROVE  CommitsKept' /\ W!UnpushedRecoverable'
<1>1. ASSUME NEW k \in W!Repos
      PROVE  /\ \A x \in Runs : wRemote'[k][x] # NoRef => wRemote'[k][x] \subseteq wHistory'[k].pushed
             /\ \A p \in wSalvage'[k] : p.at <= now' /\ \A m \in p.tip : p.at <= wHistory'[k].parked[m]
             /\ \A m \in Runs : wHistory'[k].parked[m] >= 0 =>
                  \/ \E p \in wSalvage'[k] : m \in p.tip /\ p.at = wHistory'[k].parked[m]
                  \/ now' - wHistory'[k].parked[m] > Ttl
             /\ \A m \in wHistory'[k].made \ wHistory'[k].pushed :
                  \/ \E x \in Runs : heads'[k][x] # NoRef /\ m \in heads'[k][x]
                  \/ \E p \in wSalvage'[k] : m \in p.tip
                  \/ wHistory'[k].parked[m] >= 0 /\ now' - wHistory'[k].parked[m] > Ttl
  <2> DEFINE orphans == IF k \in Built(r, need, net) THEN W!Orphaned(k, r, net[k]) ELSE {}
  <2>1. /\ wSalvage'[k] = wSalvage[k] \cup orphans
        /\ wHistory'[k].made = wHistory[k].made /\ wHistory'[k].pushed = wHistory[k].pushed
        /\ \A m \in Runs : wHistory'[k].parked[m] =
             IF \E p \in orphans : m \in p.tip THEN now ELSE wHistory[k].parked[m]
    <3>1. Records(k, r, need, net)
      BY ProvisionHistory
    <3> QED BY <3>1 DEF Records
  <2>2. \A p \in orphans : /\ p.tip = heads[k][W!Branch(r)] /\ p.at = now
                           /\ heads[k][W!Branch(r)] # NoRef
    <3> SUFFICES ASSUME NEW p \in W!Orphaned(k, r, net[k])
                 PROVE  p.tip = heads[k][W!Branch(r)] /\ p.at = now /\ heads[k][W!Branch(r)] # NoRef
      OBVIOUS
    <3>1. p = [branch |-> W!Branch(r), tip |-> heads[k][W!Branch(r)], at |-> now] /\ heads[k][W!Branch(r)] # NoRef
      BY OrphanIs
    <3> QED BY <3>1
  <2>3. now \in Nat /\ \A p \in wSalvage[k] : p.tip \subseteq Runs /\ p.at \in Nat
    BY TreesAssumed DEF TreesTyped, HistoryTyped, W!Parked
  <2>4. \A m \in Runs : wHistory[k].parked[m] \in Int
    BY DEF HistoryTyped, History
  <2>5. /\ wHistory[k].made \subseteq Runs
        /\ W!Branch(r) \in Runs /\ heads[k][W!Branch(r)] \in W!Tip
    BY BranchIs DEF HistoryTyped, History, RefsTyped
  <2>6. \A p \in orphans : p.tip \subseteq Runs
    BY <2>2, <2>5 DEF W!Tip
  <2>7. \A x \in Runs : wRemote'[k][x] # NoRef => wRemote'[k][x] \subseteq wHistory'[k].pushed
    BY <2>1 DEF CommitsKept
  <2>8. /\ \A p \in wSalvage[k] : p.at <= now /\ \A m \in p.tip : p.at <= wHistory[k].parked[m]
        /\ \A m \in Runs : wHistory[k].parked[m] >= 0 =>
                  \/ \E p \in wSalvage[k] : m \in p.tip /\ p.at = wHistory[k].parked[m]
                  \/ now - wHistory[k].parked[m] > Ttl
    BY DEF CommitsKept
  <2>9. \A m \in wHistory[k].made \ wHistory[k].pushed :
                  \/ \E x \in Runs : heads[k][x] # NoRef /\ m \in heads[k][x]
                  \/ \E p \in wSalvage[k] : m \in p.tip
                  \/ wHistory[k].parked[m] >= 0 /\ now - wHistory[k].parked[m] > Ttl
    BY DEF W!UnpushedRecoverable
  <2>10. ASSUME NEW m \in wHistory[k].made \ wHistory[k].pushed, NEW x \in Runs,
                heads[k][x] # NoRef, m \in heads[k][x]
         PROVE  \/ \E y \in Runs : heads'[k][y] # NoRef /\ m \in heads'[k][y]
                \/ \E p \in orphans : m \in p.tip
    <3>1. /\ heads'[k][x] =
              IF k \in Built(r, need, net) /\ x = W!Branch(r) THEN W!StartPoint(k, r, net[k])
              ELSE IF k \in Tried(r, need, net) /\ net[k] = "up" /\ x \in W!Shadows(k) THEN NoRef
              ELSE heads[k][x]
      BY HeadAfter
    <3>2. x \in W!Shadows(k) => wRemote[k][x] # NoRef /\ heads[k][x] \subseteq wRemote[k][x]
      BY DEF W!Shadows
    <3>3. x \in W!Shadows(k) => m \in wHistory[k].pushed
      BY <2>7, <2>1, <3>2, <2>10
    <3>4. x \notin W!Shadows(k)
      BY <2>10, <3>3
    <3>5. CASE k \in Built(r, need, net) /\ x = W!Branch(r)
      <4>1. W!StartPoint(k, r, net[k]) \in SUBSET Runs
        BY StartPointTyped
      <4>2. CASE heads[k][x] \subseteq W!StartPoint(k, r, net[k])
        <5>1. heads'[k][x] # NoRef /\ m \in heads'[k][x]
          BY <2>10, <3>1, <3>5, <4>1, <4>2, TreesAssumed
        <5> QED BY <5>1
      <4>3. CASE ~(heads[k][x] \subseteq W!StartPoint(k, r, net[k]))
        <5>1. [branch |-> W!Branch(r), tip |-> heads[k][W!Branch(r)], at |-> now] \in W!Orphaned(k, r, net[k])
          BY <2>10, <3>4, <3>5, <4>3, OrphanIs
        <5> QED BY <2>10, <3>5, <5>1
      <4> QED BY <4>2, <4>3
    <3>6. CASE ~(k \in Built(r, need, net) /\ x = W!Branch(r))
      BY <2>10, <3>1, <3>4, <3>6
    <3> QED BY <3>5, <3>6
  <2> HIDE DEF orphans
  <2>11. \A p \in wSalvage'[k] : p.at <= now' /\ \A m \in p.tip : p.at <= wHistory'[k].parked[m]
    <3> SUFFICES ASSUME NEW p \in wSalvage'[k], NEW m \in p.tip
                 PROVE  p.at <= wHistory'[k].parked[m]
      BY <2>1, <2>2, <2>3, <2>8
    <3>1. p.tip \subseteq Runs
      BY <2>1, <2>3, <2>6
    <3>2. m \in Runs
      BY <3>1
    <3>3. CASE p \in orphans
      BY <2>1, <2>2, <2>3, <3>2, <3>3
    <3>4. CASE p \in wSalvage[k]
      <4>1. p.at <= now /\ p.at <= wHistory[k].parked[m]
        BY <2>8, <3>4
      <4> QED BY <2>1, <3>2, <4>1
    <3> QED BY <2>1, <3>3, <3>4
  <2>12. \A m \in Runs : wHistory'[k].parked[m] >= 0 =>
                  \/ \E p \in wSalvage'[k] : m \in p.tip /\ p.at = wHistory'[k].parked[m]
                  \/ now' - wHistory'[k].parked[m] > Ttl
    <3> TAKE m \in Runs
    <3>1. CASE \E p \in orphans : m \in p.tip
      BY <2>1, <2>2, <3>1
    <3>2. CASE ~\E p \in orphans : m \in p.tip
      BY <2>1, <2>8, <3>2
    <3> QED BY <3>1, <3>2
  <2>13. ASSUME NEW m \in wHistory'[k].made \ wHistory'[k].pushed
         PROVE \/ \E x \in Runs : heads'[k][x] # NoRef /\ m \in heads'[k][x]
               \/ \E p \in wSalvage'[k] : m \in p.tip
               \/ wHistory'[k].parked[m] >= 0 /\ now' - wHistory'[k].parked[m] > Ttl
    <3>1. m \in wHistory[k].made \ wHistory[k].pushed /\ m \in Runs
      BY <2>1, <2>5
    <3>2. CASE \E p \in orphans : m \in p.tip
      BY <2>1, <3>2
    <3>3. CASE ~\E p \in orphans : m \in p.tip
      BY <2>1, <2>9, <2>10, <3>1, <3>3
    <3> QED BY <3>2, <3>3
  <2> QED BY <2>7, <2>11, <2>12, <2>13
<1> QED BY <1>1 DEF CommitsKept, W!UnpushedRecoverable

\* It takes a branch from nobody whose run has it for itself, and leaves no two worktrees on one.
LEMMA ProvisionOneTree ==
  ASSUME NEW r \in Runs, NEW need \in SUBSET W!Repos, NEW net, W!Provision(r, need, net), TreesTyped,
         W!OneTreePerBranch, conf' = conf
  PROVE  W!OneTreePerBranch'
<1> SUFFICES ASSUME NEW k \in W!Repos, NEW x \in wTree'[k], NEW y \in wTree'[k], W!Branch(x)' = W!Branch(y)'
             PROVE  x = y
  BY DEF W!OneTreePerBranch
<1>1. W!Branch(x) = W!Branch(y)
  BY DEF W!Branch
<1>2. Changes(k, r, need, net)
  BY ProvisionTrees
<1>3. CASE x \in wTree[k] /\ y \in wTree[k]
  BY <1>1, <1>3 DEF W!OneTreePerBranch
<1>4. CASE x \notin wTree[k] \/ y \notin wTree[k]
  <2>1. wTree'[k] = (wTree[k] \ W!Holders(k, r)) \cup {r}
    BY <1>2, <1>4 DEF Changes
  <2>2. x = r \/ y = r
    BY <1>2, <1>4 DEF Changes
  <2>3. x # r => W!Branch(x) # W!Branch(r)
    BY <2>1 DEF W!Holders
  <2>4. y # r => W!Branch(y) # W!Branch(r)
    BY <2>1 DEF W!Holders
  <2> QED BY <1>1, <2>2, <2>3, <2>4
<1> QED BY <1>3, <1>4

\* A run that has its branch for itself takes no worktree, and a provisioning that succeeds gives
\* all that was needed.
LEMMA ProvisionLeaves ==
  ASSUME NEW r \in Runs, NEW need \in SUBSET W!Repos, NEW net, W!Provision(r, need, net), TreesTyped,
         NEW k \in W!Repos
  PROVE  /\ ~conf.shared => wTree[k] \subseteq wTree'[k]
         /\ W!Provisioned(r, need, net) /\ k \in need => r \in wTree'[k]
<1>1. Changes(k, r, need, net)
  BY ProvisionTrees
<1>2. ASSUME ~conf.shared, NEW x \in wTree[k] PROVE x \in wTree'[k]
  <2>1. x \in Runs
    BY DEF TreesTyped
  <2>2. W!Branch(x) = x /\ W!Branch(r) = r
    BY <1>2, <2>1, BranchIs
  <2>3. x \notin W!Holders(k, r)
    BY <2>2 DEF W!Holders
  <2> QED BY <1>1, <2>3 DEF Changes
<1>3. ASSUME W!Provisioned(r, need, net), k \in need PROVE r \in wTree'[k]
  <2>1. Failing(r, need, net) = {}
    BY <1>3 DEF W!Provisioned, Failing
  <2>2. CASE r \in wTree[k]
    <3>1. r \notin W!Holders(k, r)
      BY DEF W!Holders
    <3> QED BY <1>1, <2>2, <3>1 DEF Changes
  <2>3. CASE r \notin wTree[k]
    <3>1. k \in Tried(r, need, net)
      BY <1>3, <2>1, <2>3 DEF Tried
    <3>2. k \in Built(r, need, net)
      BY <2>1, <3>1 DEF Built
    <3> QED BY <1>1, <2>1, <3>2 DEF Changes
  <2> QED BY <2>2, <2>3
<1> QED BY <1>2, <1>3

-----------------------------------------------------------------------------
(* Worktrees that go. *)

\* Taking worktrees away leaves the mirrors in order, and no two worktrees on one branch.
LEMMA FewerTrees ==
  ASSUME TreesTyped, RefsTyped, W!OneTreePerBranch, UNCHANGED <<conf, heads, seen, wRemote, merged>>,
         \A k \in W!Repos : wTree'[k] \subseteq wTree[k]
  PROVE  RefsTyped' /\ W!OneTreePerBranch'
<1>1. \A r : W!Branch(r)' = W!Branch(r)
  BY DEF W!Branch
<1>2. \A k \in W!Repos : \A r \in wTree'[k] : heads'[k][W!Branch(r)'] # NoRef
  BY <1>1 DEF RefsTyped
<1>3. RefsTyped'
  BY <1>2 DEF RefsTyped
<1>4. W!OneTreePerBranch'
  BY <1>1 DEF W!OneTreePerBranch
<1> QED BY <1>3, <1>4

\* What the mirrors have of the node's commits does not hang on worktrees and memory.
LEMMA SameCommits ==
  ASSUME HistoryTyped, CommitsKept, W!UnpushedRecoverable, UNCHANGED <<now, heads, wSalvage, wRemote, wHistory>>
  PROVE  HistoryTyped' /\ CommitsKept' /\ W!UnpushedRecoverable'
BY DEF HistoryTyped, CommitsKept, W!UnpushedRecoverable

\* The reaper.
LEMMA ReapTrees ==
  ASSUME TreesTyped, RefsTyped, W!OneTreePerBranch, NEW doomed, W!Reap(doomed),
         UNCHANGED <<conf, now, jobs, wFaults, wRemote, merged>>
  PROVE  TreesTyped' /\ RefsTyped' /\ W!OneTreePerBranch'
<1>1. /\ wTree' = [k \in W!Repos |-> wTree[k] \ doomed]
      /\ reg' = [k \in W!Repos |-> wTree'[k]]
      /\ dir' = dir \ doomed
      /\ dirty' = [k \in W!Repos |-> dirty[k] \ doomed]
      /\ UNCHANGED <<heads, seen, touched>>
  BY DEF W!Reap
<1>2. \A k \in W!Repos : /\ wTree'[k] = wTree[k] \ doomed /\ reg'[k] = wTree'[k]
                         /\ dirty'[k] = dirty[k] \ doomed
  BY <1>1
<1>3. TreesTyped'
  <2>1. wTree' \in [W!Repos -> SUBSET Runs] /\ reg' \in [W!Repos -> SUBSET Runs] /\ dirty' \in [W!Repos -> SUBSET Runs]
    BY <1>1, <1>2 DEF TreesTyped
  <2>2. \A k \in W!Repos : wTree'[k] \subseteq reg'[k] /\ wTree'[k] \subseteq dir' /\ dirty'[k] \subseteq wTree'[k]
    BY <1>1, <1>2 DEF TreesTyped
  <2>3. dir' \subseteq Runs
    BY <1>1 DEF TreesTyped
  <2>4. now' \in 0..MaxNow /\ jobs' \in 0..MaxJobs /\ wFaults' \in 0..MaxTreeFaults
    BY DEF TreesTyped
  <2> QED BY <2>1, <2>2, <2>3, <2>4 DEF TreesTyped
<1> QED BY <1>1, <1>2, <1>3, FewerTrees

\* What expires was parked longer ago than the ttl, and is not the last its commits were parked by
\* unless they expire too.
LEMMA ReapCommits ==
  ASSUME TreesTyped, HistoryTyped, CommitsKept, W!UnpushedRecoverable, NEW doomed, W!Reap(doomed),
         UNCHANGED <<now, wRemote, wHistory>>
  PROVE  HistoryTyped' /\ CommitsKept' /\ W!UnpushedRecoverable'
<1>1. wSalvage' = [k \in W!Repos |-> {p \in wSalvage[k] : ~W!Expired(p)}] /\ heads' = heads
  BY DEF W!Reap
<1>2. \A k \in W!Repos : \A p : p \in wSalvage'[k] <=> p \in wSalvage[k] /\ ~(now - p.at > Ttl)
  BY <1>1 DEF W!Expired
<1>3. HistoryTyped'
  <2>1. wSalvage' \in [W!Repos -> SUBSET W!Parked]
    BY <1>1 DEF HistoryTyped
  <2> QED BY <2>1 DEF HistoryTyped
<1>4. ASSUME NEW k \in W!Repos, NEW m \in Runs, wHistory[k].parked[m] >= 0
      PROVE  \/ \E p \in wSalvage'[k] : m \in p.tip /\ p.at = wHistory[k].parked[m]
             \/ now - wHistory[k].parked[m] > Ttl
  <2>1. CASE now - wHistory[k].parked[m] > Ttl
    BY <2>1
  <2>2. CASE ~(now - wHistory[k].parked[m] > Ttl)
    <3>1. PICK p \in wSalvage[k] : m \in p.tip /\ p.at = wHistory[k].parked[m]
      BY <1>4, <2>2 DEF CommitsKept
    <3>2. p \in wSalvage'[k]
      BY <1>2, <2>2, <3>1
    <3> QED BY <3>1, <3>2
  <2> QED BY <2>1, <2>2
<1>5. CommitsKept'
  <2> SUFFICES ASSUME NEW k \in W!Repos
      PROVE  /\ \A x \in Runs : wRemote'[k][x] # NoRef => wRemote'[k][x] \subseteq wHistory'[k].pushed
             /\ \A p \in wSalvage'[k] : p.at <= now' /\ \A m \in p.tip : p.at <= wHistory'[k].parked[m]
             /\ \A m \in Runs : wHistory'[k].parked[m] >= 0 =>
                  \/ \E p \in wSalvage'[k] : m \in p.tip /\ p.at = wHistory'[k].parked[m]
                  \/ now' - wHistory'[k].parked[m] > Ttl
    BY DEF CommitsKept
  <2>1. \A x \in Runs : wRemote'[k][x] # NoRef => wRemote'[k][x] \subseteq wHistory'[k].pushed
    BY DEF CommitsKept
  <2>2. \A p \in wSalvage'[k] : p.at <= now' /\ \A m \in p.tip : p.at <= wHistory'[k].parked[m]
    BY <1>2 DEF CommitsKept
  <2>3. \A m \in Runs : wHistory'[k].parked[m] >= 0 =>
                  \/ \E p \in wSalvage'[k] : m \in p.tip /\ p.at = wHistory'[k].parked[m]
                  \/ now' - wHistory'[k].parked[m] > Ttl
    BY <1>4
  <2> QED BY <2>1, <2>2, <2>3
<1>6. ASSUME NEW k \in W!Repos, NEW m \in wHistory[k].made \ wHistory[k].pushed
      PROVE  \/ \E x \in Runs : heads[k][x] # NoRef /\ m \in heads[k][x]
             \/ \E p \in wSalvage'[k] : m \in p.tip
             \/ wHistory[k].parked[m] >= 0 /\ now - wHistory[k].parked[m] > Ttl
  <2>1. m \in Runs /\ wHistory[k].parked[m] \in Int
    BY DEF HistoryTyped, History
  <2>2. \/ \E x \in Runs : heads[k][x] # NoRef /\ m \in heads[k][x]
        \/ \E p \in wSalvage[k] : m \in p.tip
        \/ wHistory[k].parked[m] >= 0 /\ now - wHistory[k].parked[m] > Ttl
    BY DEF W!UnpushedRecoverable
  <2>3. ASSUME NEW p \in wSalvage[k], m \in p.tip PROVE wHistory[k].parked[m] >= 0
    <3>1. p.at \in Nat
      BY DEF HistoryTyped, W!Parked
    <3>2. p.at <= wHistory[k].parked[m]
      BY <2>3 DEF CommitsKept
    <3> QED BY <2>1, <3>1, <3>2
  <2>4. CASE \E p \in wSalvage[k] : m \in p.tip
    BY <1>4, <2>1, <2>3, <2>4
  <2> QED BY <2>2, <2>4
<1>7. W!UnpushedRecoverable'
  BY <1>1, <1>6 DEF W!UnpushedRecoverable
<1> QED BY <1>3, <1>5, <1>7

\* The counts of Worktrees are the counts of the library.
LEMMA Counts == \A S : W!Cardinality(S) = Cardinality(S)
BY DEF W!Cardinality, Cardinality, W!IsFiniteSet, IsFiniteSet

\* Where nothing but age and breakage condemns a run, a doomed one has no worktree or is not live.
LEMMA DoomedAreIdle ==
  ASSUME TreesTyped, NEW doomed, W!Doomed(W!Cardinality(Runs), doomed), NEW x \in doomed
  PROVE  (\A k \in W!Repos : x \notin wTree[k]) \/ ~W!Live(x)
<1> DEFINE all == W!Candidates
           sure == {r \in all : W!Broken(r) \/ W!Stale(r)}
           rest == all \ sure
           over == doomed \ sure
           excess == Cardinality(rest) - Cardinality(Runs)
<1>1. /\ sure \subseteq doomed /\ doomed \subseteq all
      /\ Cardinality(over) = IF excess > 0 THEN excess ELSE 0
  BY Counts DEF W!Doomed
<1>2. all \subseteq Runs
  BY DEF W!Candidates, TreesTyped
<1>3. IsFiniteSet(Runs)
  BY TreesAssumed
<1>4. /\ Cardinality(rest) \in Nat /\ Cardinality(Runs) \in Nat /\ Cardinality(rest) <= Cardinality(Runs)
      /\ IsFiniteSet(over)
  <2>1. rest \subseteq Runs /\ over \subseteq Runs
    BY <1>1, <1>2
  <2> HIDE DEF rest, over
  <2> QED BY <1>3, <2>1, FS_Subset, FS_CardinalityType
<1>5. Cardinality(over) = 0
  <2> HIDE DEF rest, over
  <2> QED BY <1>1, <1>4
<1>6. over = {}
  BY <1>4, <1>5, FS_EmptySet
<1>7. x \in sure
  BY <1>6
<1> QED BY <1>7 DEF W!Broken, W!Stale

-----------------------------------------------------------------------------
(* The jobs. *)

\* A run works on repositories of the node.
LEMMA NeedsTyped == \A r : W!Needs(r) \in SUBSET W!Repos
BY TreesAssumed DEF W!Needs, W!Repos

\* The clock is a time stamp.
LEMMA NowTyped == ASSUME TreesTyped PROVE now \in 0..MaxNow /\ now \in -1..MaxNow /\ now \in Nat
BY TreesAssumed DEF TreesTyped

\* A job starts or ends, and its run is busy as long.
LEMMA JobMoves ==
  ASSUME MemoryTyped, NEW r \in Runs, NEW state \in {"none", "queued", "staging", "retaining"},
         wJob' = [wJob EXCEPT ![r] = state],
         \/ inFlight' = [inFlight EXCEPT ![r] = IF state \in {"staging", "retaining"} THEN 1 ELSE 0]
         \/ inFlight' = inFlight /\ (wJob[r] \in {"staging", "retaining"} <=> state \in {"staging", "retaining"})
  PROVE  /\ inFlight' \in [Runs -> 0..1]
         /\ wJob' \in [Runs -> {"none", "queued", "staging", "retaining", "down"}]
         /\ \A x \in Runs : inFlight'[x] = 1 <=> wJob'[x] \in {"staging", "retaining"}
<1>1. /\ inFlight \in [Runs -> 0..1]
      /\ wJob \in [Runs -> {"none", "queued", "staging", "retaining", "down"}]
      /\ \A x \in Runs : inFlight[x] = 1 <=> wJob[x] \in {"staging", "retaining"}
  BY DEF MemoryTyped
<1>2. wJob' \in [Runs -> {"none", "queued", "staging", "retaining", "down"}]
  BY <1>1
<1>3. inFlight' \in [Runs -> 0..1]
  BY <1>1
<1>4. ASSUME NEW x \in Runs PROVE inFlight'[x] = 1 <=> wJob'[x] \in {"staging", "retaining"}
  <2>1. CASE x # r
    BY <1>1, <2>1
  <2>2. CASE x = r
    <3>1. wJob'[x] = state
      BY <1>1, <2>2
    <3>2. CASE inFlight' = [inFlight EXCEPT ![r] = IF state \in {"staging", "retaining"} THEN 1 ELSE 0]
      BY <1>1, <2>2, <3>1, <3>2
    <3>3. CASE inFlight' = inFlight /\ (wJob[r] \in {"staging", "retaining"} <=> state \in {"staging", "retaining"})
      BY <1>1, <2>2, <3>1, <3>3
    <3> QED BY <3>2, <3>3
  <2> QED BY <2>1, <2>2
<1> QED BY <1>2, <1>3, <1>4

\* What a provisioning does to everything but the maps of the stage runner.
LEMMA ProvisionAll ==
  ASSUME TreesInv, NEW r \in Runs, NEW need \in SUBSET W!Repos, NEW net \in [W!Repos -> W!Net],
         W!Provision(r, need, net), UNCHANGED <<conf, now, wFaults, wRemote, merged>>, jobs' \in 0..MaxJobs
  PROVE  /\ TreesTyped' /\ RefsTyped' /\ HistoryTyped' /\ CommitsKept'
         /\ W!UnpushedRecoverable' /\ W!OneTreePerBranch'
         /\ touched' \in [Runs -> 0..MaxNow]
<1>1. TreesTyped /\ RefsTyped /\ HistoryTyped /\ CommitsKept /\ W!UnpushedRecoverable /\ W!OneTreePerBranch
      /\ MemoryTyped
  BY DEF TreesInv
<1>2. TreesTyped' /\ RefsTyped' /\ HistoryTyped'
  BY <1>1, ProvisionTypes, ProvisionRefs, ProvisionHistory
<1>3. CommitsKept' /\ W!UnpushedRecoverable'
  BY <1>1, ProvisionCommits
<1>4. W!OneTreePerBranch'
  BY <1>1, ProvisionOneTree
<1>5. touched' = [x \in Runs |-> IF x = r \/ \E k \in W!Repos : x \in Evicted(k, r, need, net)
                                 THEN now ELSE touched[x]]
  BY ProvisionIs DEF Effect
<1>6. touched' \in [Runs -> 0..MaxNow]
  BY <1>1, <1>5, NowTyped DEF MemoryTyped
<1> QED BY <1>2, <1>3, <1>4, <1>6

\* A run keeps its worktrees, and has those its map is given.
LEMMA ProvisionParked ==
  ASSUME TreesInv, NEW r \in Runs, NEW need \in SUBSET W!Repos, NEW net \in [W!Repos -> W!Net],
         W!Provision(r, need, net), UNCHANGED <<conf, now, torn>>,
         \/ map' = map
         \/ W!Provisioned(r, need, net) /\ \E more \in {{}, map[r]} : map' = [map EXCEPT ![r] = more \cup need]
  PROVE  W!ParkedRunKept'
<1> SUFFICES ASSUME ~conf.shared, ~conf.policy, NEW x \in Runs, torn[x] = NotTorn, NEW k \in map'[x]
             PROVE  x \in wTree'[k] \/ x \in wHistory'[k].hand
  BY DEF W!ParkedRunKept
<1>1. TreesTyped /\ RefsTyped /\ HistoryTyped /\ map \in [Runs -> SUBSET W!Repos] /\ W!ParkedRunKept
  BY DEF TreesInv, MemoryTyped
<1>2. k \in map[x] \/ (x = r /\ k \in need /\ W!Provisioned(r, need, net))
  BY <1>1
<1>3. k \in W!Repos
  BY <1>1, <1>2
<1>4. CASE k \in map[x]
  <2>1. x \in wTree[k] \/ x \in wHistory[k].hand
    BY <1>1, <1>4 DEF W!ParkedRunKept
  <2>2. Records(k, r, need, net)
    BY <1>1, <1>3, ProvisionHistory
  <2>3. wTree[k] \subseteq wTree'[k]
    BY <1>1, <1>3, ProvisionLeaves
  <2> QED BY <2>1, <2>2, <2>3 DEF Records
<1>5. CASE x = r /\ k \in need /\ W!Provisioned(r, need, net)
  BY <1>1, <1>3, <1>5, ProvisionLeaves
<1> QED BY <1>2, <1>4, <1>5

\* A queued job gets its slot.
LEMMA BeginKeeps ==
  ASSUME TreesInv, NEW r \in Runs, NEW net \in [W!Repos -> W!Net], W!Begin(r, net) PROVE TreesInv'
<1>1. TreesTyped /\ RefsTyped /\ MemoryTyped /\ HistoryTyped /\ CommitsKept /\ W!UnpushedRecoverable
      /\ W!ParkedRunKept /\ W!OneTreePerBranch
  BY DEF TreesInv
<1>2. /\ wJob[r] = "queued" /\ used' = [used EXCEPT ![r] = now]
      /\ UNCHANGED <<conf, now, jobs, wFaults, wRemote, merged, purge, torn>>
  BY DEF W!Begin, W!world
<1>3. \/ wJob' = [wJob EXCEPT ![r] = "staging"] /\ inFlight' = [inFlight EXCEPT ![r] = 1]
      \/ wJob' = [wJob EXCEPT ![r] = "none"] /\ inFlight' = inFlight
  BY DEF W!Begin
<1>4. /\ inFlight' \in [Runs -> 0..1]
      /\ wJob' \in [Runs -> {"none", "queued", "staging", "retaining", "down"}]
      /\ \A x \in Runs : inFlight'[x] = 1 <=> wJob'[x] \in {"staging", "retaining"}
  <2>1. CASE wJob' = [wJob EXCEPT ![r] = "staging"] /\ inFlight' = [inFlight EXCEPT ![r] = 1]
    BY <1>1, <2>1, JobMoves
  <2>2. CASE wJob' = [wJob EXCEPT ![r] = "none"] /\ inFlight' = inFlight
    BY <1>1, <1>2, <2>2, JobMoves
  <2> QED BY <1>3, <2>1, <2>2
<1>5. used' \in [Runs -> -1..MaxNow]
  BY <1>1, <1>2, NowTyped DEF MemoryTyped
<1>6. CASE W!Live(r)
  <2>1. /\ dir' = dir \cup {r} /\ touched' = [touched EXCEPT ![r] = now]
        /\ UNCHANGED <<wTree, reg, dirty, heads, seen, wSalvage, wHistory, map>>
    BY <1>6 DEF W!Begin, W!refs
  <2>2. TreesTyped'
    BY <1>1, <1>2, <2>1 DEF TreesTyped
  <2>3. RefsTyped' /\ W!OneTreePerBranch'
    BY <1>1, <1>2, <2>1, FewerTrees
  <2>4. HistoryTyped' /\ CommitsKept' /\ W!UnpushedRecoverable'
    BY <1>1, <1>2, <2>1, SameCommits
  <2>5. touched' \in [Runs -> 0..MaxNow]
    BY <1>1, <2>1, NowTyped DEF MemoryTyped
  <2>6. MemoryTyped'
    BY <1>1, <1>2, <1>4, <1>5, <2>1, <2>5 DEF MemoryTyped
  <2>7. W!ParkedRunKept'
    BY <1>1, <1>2, <2>1 DEF W!ParkedRunKept
  <2> QED BY <2>2, <2>3, <2>4, <2>6, <2>7 DEF TreesInv
<1>7. CASE ~W!Live(r)
  <2>1. /\ W!Provision(r, W!Needs(r), net)
        /\ map' = IF W!Provisioned(r, W!Needs(r), net) THEN [map EXCEPT ![r] = W!Needs(r)] ELSE map
    BY <1>7 DEF W!Begin
  <2>2. W!Needs(r) \in SUBSET W!Repos
    BY NeedsTyped
  <2>3. /\ TreesTyped' /\ RefsTyped' /\ HistoryTyped' /\ CommitsKept'
        /\ W!UnpushedRecoverable' /\ W!OneTreePerBranch'
        /\ touched' \in [Runs -> 0..MaxNow]
    <3>1. jobs' \in 0..MaxJobs
      BY <1>1, <1>2 DEF TreesTyped
    <3> QED BY <1>2, <2>1, <2>2, <3>1, ProvisionAll
  <2>4. map' \in [Runs -> SUBSET W!Repos]
    BY <1>1, <2>1, <2>2 DEF MemoryTyped
  <2>5. MemoryTyped'
    BY <1>1, <1>2, <1>4, <1>5, <2>3, <2>4 DEF MemoryTyped
  <2>6. W!ParkedRunKept'
    <3>1. \/ map' = map
          \/ /\ W!Provisioned(r, W!Needs(r), net)
             /\ \E more \in {{}, map[r]} : map' = [map EXCEPT ![r] = more \cup W!Needs(r)]
      <4>1. {} \cup W!Needs(r) = W!Needs(r)
        OBVIOUS
      <4> QED BY <2>1, <4>1
    <3> QED BY <1>2, <2>1, <2>2, <3>1, ProvisionParked
  <2> QED BY <2>3, <2>5, <2>6 DEF TreesInv
<1> QED BY <1>6, <1>7

\* A step that takes nothing but worktrees and memory keeps the refs and what they have.
LEMMA RefsStay ==
  ASSUME TreesInv, UNCHANGED <<conf, now, heads, seen, wSalvage, wRemote, merged, wHistory>>,
         \A k \in W!Repos : wTree'[k] \subseteq wTree[k]
  PROVE  /\ RefsTyped' /\ HistoryTyped' /\ CommitsKept'
         /\ W!UnpushedRecoverable' /\ W!OneTreePerBranch'
<1>1. TreesTyped /\ RefsTyped /\ HistoryTyped /\ CommitsKept /\ W!UnpushedRecoverable /\ W!OneTreePerBranch
  BY DEF TreesInv
<1> QED BY <1>1, FewerTrees, SameCommits

\* A job is dispatched, works, or returns.
LEMMA QuietStepKeeps ==
  ASSUME TreesInv, NEW r \in Runs, W!Dispatch(r) \/ W!Work(r) \/ W!Return(r) PROVE TreesInv'
<1>1. TreesTyped /\ MemoryTyped /\ W!ParkedRunKept
  BY DEF TreesInv
<1>2. UNCHANGED <<conf, now, wFaults, wTree, reg, dir, heads, seen, wSalvage, wRemote, merged, wHistory,
                  map, used, touched, purge, torn>>
  BY DEF W!Dispatch, W!Work, W!Return, W!disk, W!refs, W!world, W!memory
<1>3. jobs' \in 0..MaxJobs
  <2>1. jobs' = jobs \/ (jobs > 0 /\ jobs' = jobs - 1)
    BY DEF W!Dispatch, W!Work, W!Return
  <2>2. jobs \in 0..MaxJobs /\ MaxJobs \in Nat
    BY <1>1, TreesAssumed DEF TreesTyped
  <2> QED BY <2>1, <2>2
<1>4. dirty' \in [W!Repos -> SUBSET Runs] /\ \A k \in W!Repos : dirty'[k] \subseteq wTree[k]
  <2>1. dirty \in [W!Repos -> SUBSET Runs] /\ wTree \in [W!Repos -> SUBSET Runs]
        /\ \A k \in W!Repos : dirty[k] \subseteq wTree[k]
    BY <1>1 DEF TreesTyped
  <2>2. dirty' = dirty \/ dirty' = [k \in W!Repos |-> dirty[k] \cup (wTree[k] \cap {r})]
    BY DEF W!Dispatch, W!Work, W!Return, W!disk
  <2> QED BY <2>1, <2>2
<1>5. TreesTyped'
  BY <1>1, <1>2, <1>3, <1>4 DEF TreesTyped
<1>6. RefsTyped' /\ HistoryTyped' /\ CommitsKept' /\ W!UnpushedRecoverable' /\ W!OneTreePerBranch'
  BY <1>2, RefsStay
<1>7. /\ inFlight' \in [Runs -> 0..1]
      /\ wJob' \in [Runs -> {"none", "queued", "staging", "retaining", "down"}]
      /\ \A x \in Runs : inFlight'[x] = 1 <=> wJob'[x] \in {"staging", "retaining"}
  <2>1. CASE W!Dispatch(r)
    <3>1. wJob[r] = "none" /\ wJob' = [wJob EXCEPT ![r] = "queued"] /\ inFlight' = inFlight
      BY <2>1 DEF W!Dispatch
    <3> QED BY <1>1, <3>1, JobMoves
  <2>2. CASE W!Work(r)
    <3>1. wJob' = wJob /\ inFlight' = inFlight
      BY <2>2 DEF W!Work, W!memory
    <3> QED BY <1>1, <3>1 DEF MemoryTyped
  <2>3. CASE W!Return(r)
    <3>1. wJob' = [wJob EXCEPT ![r] = "none"] /\ inFlight' = [inFlight EXCEPT ![r] = 0]
      BY <2>3 DEF W!Return
    <3> QED BY <1>1, <3>1, JobMoves
  <2> QED BY <2>1, <2>2, <2>3
<1>8. MemoryTyped'
  BY <1>1, <1>2, <1>7 DEF MemoryTyped
<1>9. W!ParkedRunKept'
  BY <1>1, <1>2 DEF W!ParkedRunKept
<1> QED BY <1>5, <1>6, <1>8, <1>9 DEF TreesInv

\* The runs of a retention pass.
LEMMA PurgesTyped ==
  ASSUME NEW r, NEW s \in W!Purges(r) PROVE s \in Seq(Runs)
<1> DEFINE prunable == {x \in Runs : W!Live(x) /\ x # r /\ ~W!Busy(x)}
           live == {x \in Runs : W!Live(x)}
           excess == W!Cardinality(live) - Cap
           size == IF excess <= 0 THEN 0
                   ELSE IF excess < W!Cardinality(prunable) THEN excess ELSE W!Cardinality(prunable)
<1>1. CASE ~conf.policy
  BY <1>1 DEF W!Purges
<1>2. CASE conf.policy
  <2>1. s \in [1..size -> prunable]
    BY <1>2 DEF W!Purges
  <2>2. W!Cardinality(prunable) \in Nat /\ W!Cardinality(live) \in Nat
    <3>1. prunable \subseteq Runs /\ live \subseteq Runs
      OBVIOUS
    <3> HIDE DEF prunable, live
    <3>2. IsFiniteSet(prunable) /\ IsFiniteSet(live)
      BY <3>1, TreesAssumed, FS_Subset
    <3> QED BY <3>2, Counts, FS_CardinalityType
  <2>3. size \in Nat
    <3> HIDE DEF prunable, live
    <3> QED BY <2>2, TreesAssumed
  <2>4. prunable \subseteq Runs
    OBVIOUS
  <2> HIDE DEF prunable, size
  <2>5. s \in [1..size -> Runs]
    BY <2>1, <2>4
  <2> QED BY <2>3, <2>5
<1> QED BY <1>1, <1>2

\* The stage is over: the reaper runs, and the pass is computed.
LEMMA RetainKeeps ==
  ASSUME TreesInv, NEW r \in Runs, W!Retain(r) PROVE TreesInv'
<1>1. TreesTyped /\ RefsTyped /\ MemoryTyped /\ HistoryTyped /\ CommitsKept /\ W!UnpushedRecoverable
      /\ W!ParkedRunKept /\ W!OneTreePerBranch
  BY DEF TreesInv
<1>2. /\ wJob[r] = "staging" /\ wJob' = [wJob EXCEPT ![r] = "retaining"] /\ used' = [used EXCEPT ![r] = now]
      /\ \E s \in W!Purges(r) : purge' = [purge EXCEPT ![r] = s]
      /\ UNCHANGED <<conf, now, jobs, wFaults, wRemote, merged, map, inFlight, torn, wHistory>>
  BY DEF W!Retain, W!world
<1>3. PICK doomed : W!Doomed(W!Limit, doomed) /\ W!Reap(doomed)
  BY DEF W!Retain
<1>4. TreesTyped' /\ RefsTyped' /\ W!OneTreePerBranch'
  BY <1>1, <1>2, <1>3, ReapTrees
<1>5. HistoryTyped' /\ CommitsKept' /\ W!UnpushedRecoverable'
  BY <1>1, <1>2, <1>3, ReapCommits
<1>6. MemoryTyped'
  <2>1. touched' = touched
    BY <1>3 DEF W!Reap
  <2>2. /\ inFlight' \in [Runs -> 0..1]
        /\ wJob' \in [Runs -> {"none", "queued", "staging", "retaining", "down"}]
        /\ \A x \in Runs : inFlight'[x] = 1 <=> wJob'[x] \in {"staging", "retaining"}
    BY <1>1, <1>2, JobMoves
  <2>3. used' \in [Runs -> -1..MaxNow]
    BY <1>1, <1>2, NowTyped DEF MemoryTyped
  <2>4. purge' \in [Runs -> Seq(Runs)]
    BY <1>1, <1>2, PurgesTyped DEF MemoryTyped
  <2> QED BY <1>1, <1>2, <2>1, <2>2, <2>3, <2>4 DEF MemoryTyped
<1>7. W!ParkedRunKept'
  <2> SUFFICES ASSUME ~conf.shared, ~conf.policy, NEW x \in Runs, torn[x] = NotTorn, NEW k \in map[x]
               PROVE  x \in wTree'[k] \/ x \in wHistory[k].hand
    BY <1>2 DEF W!ParkedRunKept
  <2>1. k \in W!Repos
    BY <1>1 DEF MemoryTyped
  <2>2. x \in wTree[k] \/ x \in wHistory[k].hand
    BY <1>1 DEF W!ParkedRunKept
  <2>3. wTree'[k] = wTree[k] \ doomed
    BY <1>3, <2>1 DEF W!Reap
  <2>4. x \in doomed => x \notin wTree[k]
    <3>1. W!Doomed(W!Cardinality(Runs), doomed)
      BY <1>3 DEF W!Limit
    <3>2. W!Live(x)
      BY DEF W!Live
    <3> QED BY <1>1, <2>1, <3>1, <3>2, DoomedAreIdle
  <2> QED BY <2>2, <2>3, <2>4
<1> QED BY <1>4, <1>5, <1>6, <1>7 DEF TreesInv

-----------------------------------------------------------------------------
(* The teardowns. *)

\* What a teardown does up to its first await.
TornDown(x, k, by) ==
  /\ k \in map[x] /\ torn[x] = NotTorn
  /\ torn' = [torn EXCEPT ![x] = [left |-> map[x] \ {k}, by |-> by]]
  /\ wTree' = [wTree EXCEPT ![k] = @ \ {x}]
  /\ reg' = [reg EXCEPT ![k] = wTree'[k]]
  /\ dirty' = [dirty EXCEPT ![k] = @ \ {x}]
  /\ touched' = [touched EXCEPT ![x] = IF x \in dir THEN now ELSE @]
  /\ dir' = dir

\* A worktree taken from one repository leaves the others as they were.
LEMMA OneTreeLess ==
  ASSUME TreesTyped, NEW x \in Runs, NEW k \in W!Repos,
         wTree' = [wTree EXCEPT ![k] = @ \ {x}], reg' = reg \/ reg' = [reg EXCEPT ![k] = wTree'[k]],
         dirty' = [dirty EXCEPT ![k] = @ \ {x}], dir' = dir, now' = now,
         jobs' \in 0..MaxJobs, wFaults' \in 0..MaxTreeFaults
  PROVE  TreesTyped' /\ \A i \in W!Repos : wTree'[i] \subseteq wTree[i] /\ wTree[i] \ wTree'[i] \subseteq {x}
<1>1. /\ wTree \in [W!Repos -> SUBSET Runs] /\ reg \in [W!Repos -> SUBSET Runs]
      /\ dirty \in [W!Repos -> SUBSET Runs] /\ dir \subseteq Runs /\ now \in 0..MaxNow
      /\ \A i \in W!Repos : wTree[i] \subseteq reg[i] /\ wTree[i] \subseteq dir /\ dirty[i] \subseteq wTree[i]
  BY DEF TreesTyped
<1>2. \A i \in W!Repos : /\ wTree'[i] = IF i = k THEN wTree[k] \ {x} ELSE wTree[i]
                         /\ dirty'[i] = IF i = k THEN dirty[k] \ {x} ELSE dirty[i]
  BY <1>1
<1>3. \A i \in W!Repos : reg'[i] = reg[i] \/ (i = k /\ reg'[i] = wTree'[k])
  BY <1>1
<1>4. wTree' \in [W!Repos -> SUBSET Runs] /\ dirty' \in [W!Repos -> SUBSET Runs]
  BY <1>1
<1>5. reg' \in [W!Repos -> SUBSET Runs]
  BY <1>1, <1>4
<1>6. \A i \in W!Repos : wTree'[i] \subseteq reg'[i] /\ wTree'[i] \subseteq dir' /\ dirty'[i] \subseteq wTree'[i]
  <2> TAKE i \in W!Repos
  <2>1. wTree'[i] \subseteq wTree[i] /\ dirty'[i] \subseteq wTree'[i]
    BY <1>1, <1>2
  <2>2. wTree'[i] \subseteq reg'[i]
    BY <1>1, <1>3, <2>1
  <2> QED BY <1>1, <2>1, <2>2
<1>7. TreesTyped'
  BY <1>1, <1>4, <1>5, <1>6 DEF TreesTyped
<1> QED BY <1>2, <1>7

\* A teardown begins: for a retention pass, or because the hub says the run is over.
LEMMA TeardownKeeps ==
  ASSUME TreesInv, NEW x \in Runs, NEW by \in Runs \cup {"frame"}, W!Teardown(x, by),
         UNCHANGED <<conf, now, jobs, wFaults, heads, seen, wSalvage, wRemote, merged, map, used, inFlight,
                     wJob, wHistory>>,
         purge' \in [Runs -> Seq(Runs)]
  PROVE  TreesInv'
<1>1. TreesTyped /\ MemoryTyped /\ W!ParkedRunKept
  BY DEF TreesInv
<1>2. PICK k \in map[x] : TornDown(x, k, by)
  BY DEF W!Teardown, TornDown
<1>3. k \in W!Repos /\ map[x] \in SUBSET W!Repos
  BY <1>1 DEF MemoryTyped
<1>4. TreesTyped' /\ \A i \in W!Repos : wTree'[i] \subseteq wTree[i] /\ wTree[i] \ wTree'[i] \subseteq {x}
  <2>1. jobs \in 0..MaxJobs /\ wFaults \in 0..MaxTreeFaults
    BY <1>1 DEF TreesTyped
  <2>2. /\ wTree' = [wTree EXCEPT ![k] = @ \ {x}] /\ reg' = [reg EXCEPT ![k] = wTree'[k]]
        /\ dirty' = [dirty EXCEPT ![k] = @ \ {x}] /\ dir' = dir
    BY <1>2 DEF TornDown
  <2> QED BY <1>1, <1>3, <2>1, <2>2, OneTreeLess
<1>5. RefsTyped' /\ HistoryTyped' /\ CommitsKept' /\ W!UnpushedRecoverable' /\ W!OneTreePerBranch'
  BY <1>4, RefsStay
<1>6. MemoryTyped'
  <2>1. torn' \in [Runs -> {NotTorn} \cup Torn]
    <3>1. [left |-> map[x] \ {k}, by |-> by] \in Torn
      BY <1>3 DEF Torn
    <3>2. torn \in [Runs -> {NotTorn} \cup Torn] /\ torn' = [torn EXCEPT ![x] = [left |-> map[x] \ {k}, by |-> by]]
      BY <1>1, <1>2 DEF MemoryTyped, TornDown
    <3> QED BY <3>1, <3>2
  <2>2. touched' \in [Runs -> 0..MaxNow]
    BY <1>1, <1>2, NowTyped DEF MemoryTyped, TornDown
  <2> QED BY <1>1, <2>1, <2>2 DEF MemoryTyped
<1>7. W!ParkedRunKept'
  <2> SUFFICES ASSUME ~conf.shared, ~conf.policy, NEW y \in Runs, torn'[y] = NotTorn, NEW i \in map[y]
               PROVE  y \in wTree'[i] \/ y \in wHistory[i].hand
    BY DEF W!ParkedRunKept
  <2>1. y # x
    <3>1. torn'[x] = [left |-> map[x] \ {k}, by |-> by] /\ torn'[x] \in Torn
      BY <1>1, <1>2, <1>3 DEF MemoryTyped, TornDown, Torn
    <3> QED BY <3>1, TreesAssumed
  <2>2. torn[y] = NotTorn /\ i \in W!Repos
    BY <1>1, <1>2, <2>1 DEF MemoryTyped, TornDown
  <2>3. y \in wTree[i] \/ y \in wHistory[i].hand
    BY <1>1, <2>2 DEF W!ParkedRunKept
  <2> QED BY <1>4, <2>1, <2>2, <2>3
<1> QED BY <1>4, <1>5, <1>6, <1>7 DEF TreesInv

\* The next run of a retention pass.
LEMMA PurgeKeeps ==
  ASSUME TreesInv, NEW r \in Runs, W!Purge(r) PROVE TreesInv'
<1>1. TreesTyped /\ MemoryTyped /\ W!ParkedRunKept
  BY DEF TreesInv
<1> DEFINE x == Head(purge[r])
<1>2. /\ purge[r] # <<>> /\ purge' = [purge EXCEPT ![r] = Tail(@)]
      /\ IF W!Live(x) THEN W!Teardown(x, r) ELSE UNCHANGED <<wTree, reg, dir, dirty, torn, touched>>
      /\ UNCHANGED <<conf, now, jobs, wFaults, heads, seen, wSalvage, wRemote, merged, map, used, inFlight,
                     wJob, wHistory>>
  BY DEF W!Purge, W!disk, W!refs, W!world
<1>3. purge \in [Runs -> Seq(Runs)]
  BY <1>1 DEF MemoryTyped
<1>4. x \in Runs /\ Tail(purge[r]) \in Seq(Runs)
  BY <1>2, <1>3
<1>5. purge' \in [Runs -> Seq(Runs)]
  BY <1>2, <1>3, <1>4
<1> HIDE DEF x
<1>6. CASE W!Live(x)
  BY <1>2, <1>4, <1>5, <1>6, TeardownKeeps
<1>7. CASE ~W!Live(x)
  <2>1. UNCHANGED <<wTree, reg, dir, dirty, torn, touched>>
    BY <1>2, <1>7
  <2>2. TreesTyped'
    BY <1>1, <1>2, <2>1 DEF TreesTyped
  <2>3. RefsTyped' /\ HistoryTyped' /\ CommitsKept' /\ W!UnpushedRecoverable' /\ W!OneTreePerBranch'
    BY <1>2, <2>1, RefsStay
  <2>4. MemoryTyped'
    BY <1>1, <1>2, <1>5, <2>1 DEF MemoryTyped
  <2>5. W!ParkedRunKept'
    BY <1>1, <1>2, <2>1 DEF W!ParkedRunKept
  <2> QED BY <2>2, <2>3, <2>4, <2>5 DEF TreesInv
<1> QED BY <1>6, <1>7

\* The hub says the run is over.
LEMMA FinishRunKeeps ==
  ASSUME TreesInv, NEW r \in Runs, W!FinishRun(r) PROVE TreesInv'
<1>1. /\ W!Teardown(r, "frame")
      /\ UNCHANGED <<conf, now, jobs, wFaults, heads, seen, wSalvage, wRemote, merged, map, used, inFlight,
                     wJob, purge, wHistory>>
  BY DEF W!FinishRun, W!refs, W!world
<1>2. purge' \in [Runs -> Seq(Runs)]
  BY <1>1 DEF TreesInv, MemoryTyped
<1> QED BY <1>1, <1>2, TeardownKeeps

\* A teardown goes on after an await.
LEMMA TeardownGoesOnKeeps ==
  ASSUME TreesInv, NEW x \in Runs, W!TeardownGoesOn(x) PROVE TreesInv'
<1>1. TreesTyped /\ MemoryTyped /\ W!ParkedRunKept
  BY DEF TreesInv
<1>2. /\ torn[x] # NotTorn
      /\ UNCHANGED <<conf, now, jobs, wFaults, heads, seen, wSalvage, wRemote, merged, inFlight,
                     wJob, purge, touched, wHistory>>
  BY DEF W!TeardownGoesOn, W!refs, W!world
<1>3. /\ jobs' \in 0..MaxJobs /\ wFaults' \in 0..MaxTreeFaults
      /\ torn \in [Runs -> {NotTorn} \cup Torn] /\ map \in [Runs -> SUBSET W!Repos]
      /\ used \in [Runs -> -1..MaxNow]
  BY <1>1, <1>2 DEF TreesTyped, MemoryTyped
<1>4. torn[x] \in Torn
  BY <1>2, <1>3
<1>5. CASE torn[x].left # {}
  <2>1. PICK k \in torn[x].left :
           /\ torn' = [torn EXCEPT ![x].left = @ \ {k}]
           /\ wTree' = [wTree EXCEPT ![k] = @ \ {x}]
           /\ reg' = [reg EXCEPT ![k] = wTree'[k]]
           /\ dirty' = [dirty EXCEPT ![k] = @ \ {x}]
           /\ UNCHANGED <<dir, map, used>>
    BY <1>5 DEF W!TeardownGoesOn
  <2>2. k \in W!Repos
    BY <1>4, <2>1 DEF Torn
  <2>3. TreesTyped' /\ \A i \in W!Repos : wTree'[i] \subseteq wTree[i] /\ wTree[i] \ wTree'[i] \subseteq {x}
    BY <1>1, <1>2, <1>3, <2>1, <2>2, OneTreeLess
  <2>4. RefsTyped' /\ HistoryTyped' /\ CommitsKept' /\ W!UnpushedRecoverable' /\ W!OneTreePerBranch'
    BY <1>2, <2>3, RefsStay
  <2>5. torn' \in [Runs -> {NotTorn} \cup Torn] /\ torn'[x] \in Torn
    <3>1. [torn[x] EXCEPT !.left = @ \ {k}] \in Torn
      BY <1>4 DEF Torn
    <3>2. torn' = [torn EXCEPT ![x] = [torn[x] EXCEPT !.left = @ \ {k}]]
      BY <2>1
    <3> QED BY <1>3, <3>1, <3>2
  <2>6. MemoryTyped'
    BY <1>1, <1>2, <2>1, <2>5 DEF MemoryTyped
  <2>7. W!ParkedRunKept'
    <3> SUFFICES ASSUME ~conf.shared, ~conf.policy, NEW y \in Runs, torn'[y] = NotTorn, NEW i \in map[y]
                 PROVE  y \in wTree'[i] \/ y \in wHistory[i].hand
      BY <1>2, <2>1 DEF W!ParkedRunKept
    <3>1. y # x
      BY <2>5, TreesAssumed
    <3>2. torn[y] = NotTorn /\ i \in W!Repos
      BY <1>3, <2>1, <3>1
    <3>3. y \in wTree[i] \/ y \in wHistory[i].hand
      BY <1>1, <3>2 DEF W!ParkedRunKept
    <3> QED BY <2>3, <3>1, <3>2, <3>3
  <2> QED BY <2>3, <2>4, <2>6, <2>7 DEF TreesInv
<1>6. CASE torn[x].left = {}
  <2>1. /\ torn' = [torn EXCEPT ![x] = NotTorn]
        /\ dir' = dir \ {x}
        /\ wTree' = [k \in W!Repos |-> wTree[k] \ {x}]
        /\ dirty' = [k \in W!Repos |-> dirty[k] \ {x}]
        /\ map' = [map EXCEPT ![x] = {}] /\ used' = [used EXCEPT ![x] = -1]
        /\ reg' = reg
    BY <1>6 DEF W!TeardownGoesOn
  <2>2. \A k \in W!Repos : wTree'[k] = wTree[k] \ {x} /\ dirty'[k] = dirty[k] \ {x}
    BY <2>1
  <2>3. TreesTyped'
    <3>1. wTree' \in [W!Repos -> SUBSET Runs] /\ dirty' \in [W!Repos -> SUBSET Runs] /\ dir' \subseteq Runs
      BY <1>1, <2>1, <2>2 DEF TreesTyped
    <3>2. \A k \in W!Repos : wTree'[k] \subseteq reg'[k] /\ wTree'[k] \subseteq dir' /\ dirty'[k] \subseteq wTree'[k]
      BY <1>1, <2>1, <2>2 DEF TreesTyped
    <3> QED BY <1>1, <1>2, <1>3, <2>1, <3>1, <3>2 DEF TreesTyped
  <2>4. RefsTyped' /\ HistoryTyped' /\ CommitsKept' /\ W!UnpushedRecoverable' /\ W!OneTreePerBranch'
    BY <1>2, <2>2, RefsStay
  <2>5. torn' \in [Runs -> {NotTorn} \cup Torn] /\ map' \in [Runs -> SUBSET W!Repos]
        /\ used' \in [Runs -> -1..MaxNow]
    <3>1. -1 \in -1..MaxNow
      BY TreesAssumed
    <3> QED BY <1>3, <2>1, <3>1
  <2>6. MemoryTyped'
    BY <1>1, <1>2, <2>5 DEF MemoryTyped
  <2>7. W!ParkedRunKept'
    <3> SUFFICES ASSUME ~conf.shared, ~conf.policy, NEW y \in Runs, torn'[y] = NotTorn, NEW i \in map'[y]
                 PROVE  y \in wTree'[i] \/ y \in wHistory[i].hand
      BY <1>2 DEF W!ParkedRunKept
    <3>1. y # x /\ i \in map[y]
      BY <1>3, <2>1
    <3>2. torn[y] = NotTorn /\ i \in W!Repos
      BY <1>3, <2>1, <3>1
    <3>3. y \in wTree[i] \/ y \in wHistory[i].hand
      BY <1>1, <3>1, <3>2 DEF W!ParkedRunKept
    <3> QED BY <2>2, <3>1, <3>2, <3>3
  <2> QED BY <2>3, <2>4, <2>6, <2>7 DEF TreesInv
<1> QED BY <1>5, <1>6

-----------------------------------------------------------------------------
(* A push. *)

\* A push from a worktree makes a commit of what is uncommitted, and sends it or not.
Pushed(r, k, tip, sent) ==
  /\ heads' = [heads EXCEPT ![k][W!Branch(r)] = tip]
  /\ dirty' = [dirty EXCEPT ![k] = @ \ {r}]
  /\ wHistory' = [wHistory EXCEPT ![k].made = @ \cup tip, ![k].pushed = @ \cup sent]
  /\ \/ sent = {} /\ wRemote' = wRemote
     \/ sent = tip /\ wRemote' = [wRemote EXCEPT ![k][W!Branch(r)] = tip]
  /\ UNCHANGED <<conf, now, wFaults, wTree, reg, dir, seen, wSalvage, merged, map, touched, inFlight, wJob,
                 purge, torn>>

\* What a push does from the worktree a run has.
LEMMA PushIs ==
  ASSUME TreesInv, NEW r \in Runs, NEW k \in W!Needs(r), NEW net, NEW lands \in BOOLEAN,
         W!Push(r, k, net, lands), k \in map[r]
  PROVE  /\ r \in wTree[k]
         /\ \E sent : Pushed(r, k, heads[k][W!Branch(r)] \cup (dirty[k] \cap {r}), sent)
<1> DEFINE tip == heads[k][W!Branch(r)] \cup (dirty[k] \cap {r})
           sent == IF lands /\ W!Accepted(k, r, tip) THEN tip ELSE {}
<1>1. /\ r \in wTree[k]
      /\ heads' = [heads EXCEPT ![k][W!Branch(r)] = tip]
      /\ dirty' = [dirty EXCEPT ![k] = @ \ {r}]
      /\ wHistory' = [wHistory EXCEPT ![k].made = @ \cup tip, ![k].pushed = @ \cup sent]
      /\ wRemote' = IF lands /\ W!Accepted(k, r, tip) THEN [wRemote EXCEPT ![k][W!Branch(r)] = tip] ELSE wRemote
      /\ UNCHANGED <<conf, now, wFaults, wTree, reg, dir, seen, wSalvage, merged, map, touched, inFlight, wJob,
                     purge, torn>>
  BY DEF W!Push
<1> HIDE DEF tip
<1>2. Pushed(r, k, tip, sent)
  BY <1>1 DEF Pushed
<1> QED BY <1>1, <1>2 DEF tip

\* Such a push keeps the invariant but for the types of worktrees and memory: the commit it makes is
\* in the head it makes, and on the remote only if it was sent.
LEMMA PushedKeeps ==
  ASSUME TreesInv, NEW r \in Runs, NEW k \in W!Repos, r \in wTree[k], NEW tip, NEW sent,
         tip = heads[k][W!Branch(r)] \cup (dirty[k] \cap {r}), Pushed(r, k, tip, sent)
  PROVE  /\ RefsTyped' /\ HistoryTyped' /\ CommitsKept' /\ W!UnpushedRecoverable'
         /\ W!OneTreePerBranch' /\ W!ParkedRunKept'
<1>1. TreesTyped /\ RefsTyped /\ MemoryTyped /\ HistoryTyped /\ CommitsKept /\ W!UnpushedRecoverable
      /\ W!ParkedRunKept /\ W!OneTreePerBranch
  BY DEF TreesInv
<1>2. W!Branch(r) \in Runs /\ \A x : W!Branch(x)' = W!Branch(x)
  BY BranchIs DEF Pushed, W!Branch
<1>3. heads[k][W!Branch(r)] \in SUBSET Runs
  BY <1>1, <1>2 DEF RefsTyped, W!Tip
<1>4. tip \in SUBSET Runs /\ tip \in W!Tip /\ tip # NoRef /\ sent \in SUBSET Runs
      /\ heads[k][W!Branch(r)] \subseteq tip
  BY <1>3, TreesAssumed DEF Pushed, W!Tip
<1>5. /\ heads \in [W!Repos -> [Runs -> W!Tip]]
      /\ wRemote \in [W!Repos -> [Runs -> W!Tip]]
      /\ wHistory \in [W!Repos -> History]
  BY <1>1 DEF RefsTyped, HistoryTyped
<1>6. /\ heads' \in [W!Repos -> [Runs -> W!Tip]]
      /\ \A i \in W!Repos : \A x \in Runs :
           heads'[i][x] = IF i = k /\ x = W!Branch(r) THEN tip ELSE heads[i][x]
  <2>1. heads' = [heads EXCEPT ![k][W!Branch(r)] = tip]
    BY DEF Pushed
  <2> QED BY <1>2, <1>4, <1>5, <2>1
<1>7. /\ wRemote' \in [W!Repos -> [Runs -> W!Tip]]
      /\ \A i \in W!Repos : \A x \in Runs :
           \/ wRemote'[i][x] = wRemote[i][x]
           \/ i = k /\ wRemote'[i][x] = tip /\ sent = tip
  <2>1. \/ wRemote' = wRemote
        \/ sent = tip /\ wRemote' = [wRemote EXCEPT ![k][W!Branch(r)] = tip]
    BY DEF Pushed
  <2>2. CASE wRemote' = wRemote
    BY <1>5, <2>2
  <2>3. CASE sent = tip /\ wRemote' = [wRemote EXCEPT ![k][W!Branch(r)] = tip]
    <3>1. wRemote' \in [W!Repos -> [Runs -> W!Tip]]
      BY <1>2, <1>4, <1>5, <2>3
    <3>2. \A i \in W!Repos : \A x \in Runs :
            wRemote'[i][x] = IF i = k /\ x = W!Branch(r) THEN tip ELSE wRemote[i][x]
      BY <1>2, <1>5, <2>3
    <3> QED BY <2>3, <3>1, <3>2
  <2> QED BY <2>1, <2>2, <2>3
<1>8. /\ wHistory' \in [W!Repos -> History]
      /\ \A i \in W!Repos :
           /\ wHistory'[i].parked = wHistory[i].parked /\ wHistory'[i].hand = wHistory[i].hand
           /\ wHistory'[i].pushed = IF i = k THEN wHistory[k].pushed \cup sent ELSE wHistory[i].pushed
           /\ wHistory'[i].made = IF i = k THEN wHistory[k].made \cup tip ELSE wHistory[i].made
  <2>1. wHistory' = [wHistory EXCEPT ![k] =
                       [wHistory[k] EXCEPT !.made = @ \cup tip, !.pushed = @ \cup sent]]
    <3>1. wHistory' = [wHistory EXCEPT ![k].made = @ \cup tip, ![k].pushed = @ \cup sent]
      BY DEF Pushed
    <3> QED BY <1>5, <3>1
  <2>2. wHistory[k] \in History
    BY <1>5
  <2> DEFINE new == [wHistory[k] EXCEPT !.made = @ \cup tip, !.pushed = @ \cup sent]
  <2>3. /\ new \in History /\ new.parked = wHistory[k].parked /\ new.hand = wHistory[k].hand
        /\ new.pushed = wHistory[k].pushed \cup sent /\ new.made = wHistory[k].made \cup tip
    BY <1>4, <2>2 DEF History
  <2> HIDE DEF new
  <2>4. wHistory' = [wHistory EXCEPT ![k] = new]
    BY <2>1 DEF new
  <2>5. \A i \in W!Repos : wHistory'[i] = IF i = k THEN new ELSE wHistory[i]
    BY <1>5, <2>4
  <2>6. wHistory' \in [W!Repos -> History]
    BY <1>5, <2>3, <2>4
  <2> QED BY <2>3, <2>5, <2>6
<1>9. UNCHANGED <<conf, now, wTree, seen, wSalvage, merged, map, torn>>
  BY DEF Pushed
<1>10. RefsTyped'
  <2>1. \A i \in W!Repos : \A x \in wTree[i] : heads'[i][W!Branch(x)] # NoRef
    <3> SUFFICES ASSUME NEW i \in W!Repos, NEW x \in wTree[i] PROVE heads'[i][W!Branch(x)] # NoRef
      OBVIOUS
    <3>1. x \in Runs /\ W!Branch(x) \in Runs /\ heads[i][W!Branch(x)] # NoRef
      BY <1>1, BranchIs DEF TreesTyped, RefsTyped
    <3> QED BY <1>4, <1>6, <3>1
  <2> QED BY <1>1, <1>2, <1>6, <1>7, <1>9, <2>1 DEF RefsTyped
<1>11. HistoryTyped'
  BY <1>1, <1>8, <1>9 DEF HistoryTyped
<1>12. CommitsKept'
  <2> SUFFICES ASSUME NEW i \in W!Repos
      PROVE  /\ \A x \in Runs : wRemote'[i][x] # NoRef => wRemote'[i][x] \subseteq wHistory'[i].pushed
             /\ \A p \in wSalvage'[i] : p.at <= now' /\ \A m \in p.tip : p.at <= wHistory'[i].parked[m]
             /\ \A m \in Runs : wHistory'[i].parked[m] >= 0 =>
                  \/ \E p \in wSalvage'[i] : m \in p.tip /\ p.at = wHistory'[i].parked[m]
                  \/ now' - wHistory'[i].parked[m] > Ttl
    BY DEF CommitsKept
  <2>1. \A x \in Runs : wRemote'[i][x] # NoRef => wRemote'[i][x] \subseteq wHistory'[i].pushed
    <3>1. \A x \in Runs : wRemote[i][x] # NoRef => wRemote[i][x] \subseteq wHistory[i].pushed
      BY <1>1 DEF CommitsKept
    <3> QED BY <1>7, <1>8, <3>1
  <2>2. \A p \in wSalvage[i] : p.at <= now /\ \A m \in p.tip : p.at <= wHistory[i].parked[m]
    BY <1>1 DEF CommitsKept
  <2>3. \A m \in Runs : wHistory[i].parked[m] >= 0 =>
                  \/ \E p \in wSalvage[i] : m \in p.tip /\ p.at = wHistory[i].parked[m]
                  \/ now - wHistory[i].parked[m] > Ttl
    BY <1>1 DEF CommitsKept
  <2> QED BY <1>8, <1>9, <2>1, <2>2, <2>3
<1>13. W!UnpushedRecoverable'
  <2> SUFFICES ASSUME NEW i \in W!Repos, NEW m \in wHistory'[i].made \ wHistory'[i].pushed
      PROVE  \/ \E x \in Runs : heads'[i][x] # NoRef /\ m \in heads'[i][x]
             \/ \E p \in wSalvage'[i] : m \in p.tip
             \/ wHistory'[i].parked[m] >= 0 /\ now' - wHistory'[i].parked[m] > Ttl
    BY DEF W!UnpushedRecoverable
  <2>1. CASE i = k /\ m \in tip
    BY <1>2, <1>4, <1>6, <2>1
  <2>2. CASE ~(i = k /\ m \in tip)
    <3>1. m \in wHistory[i].made \ wHistory[i].pushed
      BY <1>8, <2>2
    <3>2. \/ \E x \in Runs : heads[i][x] # NoRef /\ m \in heads[i][x]
          \/ \E p \in wSalvage[i] : m \in p.tip
          \/ wHistory[i].parked[m] >= 0 /\ now - wHistory[i].parked[m] > Ttl
      BY <1>1, <3>1 DEF W!UnpushedRecoverable
    <3>3. \A x \in Runs : heads[i][x] # NoRef /\ m \in heads[i][x] => heads'[i][x] # NoRef /\ m \in heads'[i][x]
      BY <1>4, <1>6
    <3> QED BY <1>8, <1>9, <3>2, <3>3
  <2> QED BY <2>1, <2>2
<1>14. W!OneTreePerBranch'
  BY <1>1, <1>2, <1>9 DEF W!OneTreePerBranch
<1>15. W!ParkedRunKept'
  <2>1. \A x \in Runs : map[x] \subseteq W!Repos
    BY <1>1 DEF MemoryTyped
  <2> QED BY <1>1, <1>8, <1>9, <2>1 DEF W!ParkedRunKept
<1> QED BY <1>10, <1>11, <1>12, <1>13, <1>14, <1>15

\* A push by itself: from the worktree of the run, or from a new one.
LEMMA PushKeeps ==
  ASSUME TreesInv, NEW r \in Runs, NEW k \in W!Needs(r), NEW net \in [W!Repos -> W!Net],
         NEW lands \in BOOLEAN, W!Push(r, k, net, lands)
  PROVE  TreesInv'
<1>1. TreesTyped /\ RefsTyped /\ MemoryTyped
  BY DEF TreesInv
<1>2. /\ jobs > 0 /\ jobs' = jobs - 1 /\ used' = [used EXCEPT ![r] = now]
      /\ UNCHANGED <<conf, now, wFaults, merged, inFlight, wJob, purge, torn>>
  BY DEF W!Push
<1>3. jobs' \in 0..MaxJobs
  <2>1. jobs \in 0..MaxJobs /\ MaxJobs \in Nat
    BY <1>1, TreesAssumed DEF TreesTyped
  <2> QED BY <1>2, <2>1
<1>4. used' \in [Runs -> -1..MaxNow]
  BY <1>1, <1>2, NowTyped DEF MemoryTyped
<1>5. k \in W!Repos
  BY NeedsTyped
<1>6. CASE k \in map[r]
  <2> DEFINE tip == heads[k][W!Branch(r)] \cup (dirty[k] \cap {r})
  <2>1. r \in wTree[k] /\ \E sent : Pushed(r, k, tip, sent)
    BY <1>6, PushIs
  <2>2. PICK sent : Pushed(r, k, tip, sent)
    BY <2>1
  <2>3. /\ RefsTyped' /\ HistoryTyped' /\ CommitsKept' /\ W!UnpushedRecoverable'
        /\ W!OneTreePerBranch' /\ W!ParkedRunKept'
    BY <1>5, <2>1, <2>2, PushedKeeps
  <2>4. UNCHANGED <<wTree, reg, dir, map, touched>> /\ dirty' = [dirty EXCEPT ![k] = @ \ {r}]
    BY <2>2 DEF Pushed
  <2>5. TreesTyped'
    <3>1. dirty' \in [W!Repos -> SUBSET Runs] /\ \A i \in W!Repos : dirty'[i] \subseteq dirty[i]
      BY <1>1, <2>4 DEF TreesTyped
    <3> QED BY <1>1, <1>2, <1>3, <2>4, <3>1 DEF TreesTyped
  <2>6. MemoryTyped'
    BY <1>1, <1>2, <1>4, <2>4 DEF MemoryTyped
  <2> QED BY <2>3, <2>5, <2>6 DEF TreesInv
<1>7. CASE k \notin map[r]
  <2>1. /\ W!Provision(r, {k}, net) /\ wRemote' = wRemote
        /\ map' = IF W!Provisioned(r, {k}, net) THEN [map EXCEPT ![r] = @ \cup {k}] ELSE map
    BY <1>7 DEF W!Push
  <2>2. {k} \in SUBSET W!Repos
    BY <1>5
  <2>3. /\ TreesTyped' /\ RefsTyped' /\ HistoryTyped' /\ CommitsKept'
        /\ W!UnpushedRecoverable' /\ W!OneTreePerBranch'
        /\ touched' \in [Runs -> 0..MaxNow]
    BY <1>2, <1>3, <2>1, <2>2, ProvisionAll
  <2>4. map' \in [Runs -> SUBSET W!Repos]
    BY <1>1, <1>5, <2>1 DEF MemoryTyped
  <2>5. MemoryTyped'
    BY <1>1, <1>2, <1>4, <2>3, <2>4 DEF MemoryTyped
  <2>6. W!ParkedRunKept'
    <3>1. \/ map' = map
          \/ W!Provisioned(r, {k}, net) /\ \E more \in {{}, map[r]} : map' = [map EXCEPT ![r] = more \cup {k}]
      BY <2>1
    <3> QED BY <1>2, <2>1, <2>2, <3>1, ProvisionParked
  <2> QED BY <2>3, <2>5, <2>6 DEF TreesInv
<1> QED BY <1>6, <1>7

-----------------------------------------------------------------------------
(* The rest of the world. *)

\* Time passes.
LEMMA TickKeeps == ASSUME TreesInv, W!Tick PROVE TreesInv'
<1>1. TreesTyped /\ RefsTyped /\ MemoryTyped /\ HistoryTyped /\ CommitsKept /\ W!UnpushedRecoverable
      /\ W!ParkedRunKept /\ W!OneTreePerBranch
  BY DEF TreesInv
<1>2. /\ now < MaxNow /\ now' = now + 1
      /\ UNCHANGED <<conf, jobs, wFaults, wTree, reg, dir, dirty, heads, seen, wSalvage, wRemote, merged,
                     map, used, inFlight, wJob, purge, torn, touched, wHistory>>
  BY DEF W!Tick, W!disk, W!refs, W!world, W!memory
<1>3. now \in Nat /\ now' \in 0..MaxNow /\ Ttl \in Nat
  <2>1. now \in Nat /\ MaxNow \in Nat /\ Ttl \in Nat
    BY <1>1, NowTyped, TreesAssumed
  <2> QED BY <1>2, <2>1
<1>4. TreesTyped'
  BY <1>1, <1>2, <1>3 DEF TreesTyped
<1>5. RefsTyped' /\ W!OneTreePerBranch'
  BY <1>1, <1>2, FewerTrees
<1>6. MemoryTyped'
  BY <1>1, <1>2 DEF MemoryTyped
<1>7. HistoryTyped'
  BY <1>1, <1>2 DEF HistoryTyped
<1>8. \A k \in W!Repos : \A m \in Runs :
        now - wHistory[k].parked[m] > Ttl => now' - wHistory[k].parked[m] > Ttl
  <2> TAKE k \in W!Repos
  <2> TAKE m \in Runs
  <2>1. wHistory[k].parked[m] \in -1..MaxNow /\ MaxNow \in Nat
    BY <1>1, TreesAssumed DEF HistoryTyped, History
  <2> QED BY <1>2, <1>3, <2>1
<1>9. CommitsKept'
  <2> SUFFICES ASSUME NEW k \in W!Repos
      PROVE  /\ \A x \in Runs : wRemote[k][x] # NoRef => wRemote[k][x] \subseteq wHistory[k].pushed
             /\ \A p \in wSalvage[k] : p.at <= now' /\ \A m \in p.tip : p.at <= wHistory[k].parked[m]
             /\ \A m \in Runs : wHistory[k].parked[m] >= 0 =>
                  \/ \E p \in wSalvage[k] : m \in p.tip /\ p.at = wHistory[k].parked[m]
                  \/ now' - wHistory[k].parked[m] > Ttl
    BY <1>2 DEF CommitsKept
  <2>1. \A x \in Runs : wRemote[k][x] # NoRef => wRemote[k][x] \subseteq wHistory[k].pushed
    BY <1>1 DEF CommitsKept
  <2>2. \A p \in wSalvage[k] : p.at \in Nat /\ p.at <= now /\ \A m \in p.tip : p.at <= wHistory[k].parked[m]
    BY <1>1 DEF CommitsKept, HistoryTyped, W!Parked
  <2>3. \A p \in wSalvage[k] : p.at <= now'
    BY <1>2, <1>3, <2>2
  <2>4. \A m \in Runs : wHistory[k].parked[m] >= 0 =>
                  \/ \E p \in wSalvage[k] : m \in p.tip /\ p.at = wHistory[k].parked[m]
                  \/ now - wHistory[k].parked[m] > Ttl
    BY <1>1 DEF CommitsKept
  <2> QED BY <1>8, <2>1, <2>2, <2>3, <2>4
<1>10. W!UnpushedRecoverable'
  <2>1. \A k \in W!Repos : wHistory[k].made \subseteq Runs
    BY <1>1 DEF HistoryTyped, History
  <2>2. \A k \in W!Repos : \A m \in wHistory[k].made \ wHistory[k].pushed :
          \/ \E x \in Runs : heads[k][x] # NoRef /\ m \in heads[k][x]
          \/ \E p \in wSalvage[k] : m \in p.tip
          \/ wHistory[k].parked[m] >= 0 /\ now' - wHistory[k].parked[m] > Ttl
    BY <1>1, <1>8, <2>1 DEF W!UnpushedRecoverable
  <2> QED BY <1>2, <2>2 DEF W!UnpushedRecoverable
<1>11. W!ParkedRunKept'
  BY <1>1, <1>2 DEF W!ParkedRunKept
<1> QED BY <1>4, <1>5, <1>6, <1>7, <1>9, <1>10, <1>11 DEF TreesInv

\* The remote's branch is merged or closed, and goes.
LEMMA DropBranchKeeps ==
  ASSUME TreesInv, NEW k \in W!Repos, NEW x \in Runs, NEW isMerged \in BOOLEAN, W!DropBranch(k, x, isMerged)
  PROVE  TreesInv'
<1>1. TreesTyped /\ RefsTyped /\ MemoryTyped /\ HistoryTyped /\ CommitsKept /\ W!UnpushedRecoverable
      /\ W!ParkedRunKept /\ W!OneTreePerBranch
  BY DEF TreesInv
<1>2. /\ wRemote[k][x] # NoRef /\ wRemote' = [wRemote EXCEPT ![k][x] = NoRef]
      /\ merged' = IF isMerged THEN [merged EXCEPT ![k] = @ \cup wRemote[k][x]] ELSE merged
      /\ UNCHANGED <<conf, now, jobs, wFaults, wTree, reg, dir, dirty, heads, seen, wSalvage,
                     map, used, inFlight, wJob, purge, torn, touched, wHistory>>
  BY DEF W!DropBranch, W!disk, W!refs, W!memory
<1>3. TreesTyped' /\ MemoryTyped' /\ HistoryTyped'
  BY <1>1, <1>2 DEF TreesTyped, MemoryTyped, HistoryTyped
<1>4. /\ wRemote' \in [W!Repos -> [Runs -> W!Tip]]
      /\ \A i \in W!Repos : \A y \in Runs : wRemote'[i][y] = wRemote[i][y] \/ wRemote'[i][y] = NoRef
  <2>1. wRemote \in [W!Repos -> [Runs -> W!Tip]] /\ NoRef \in W!Tip
    BY <1>1 DEF RefsTyped, W!Tip
  <2> QED BY <1>2, <2>1
<1>5. merged' \in [W!Repos -> SUBSET Runs]
  <2>1. wRemote[k][x] \in SUBSET Runs /\ merged \in [W!Repos -> SUBSET Runs]
    BY <1>1, <1>2 DEF RefsTyped, W!Tip
  <2> QED BY <1>2, <2>1
<1>6. \A y : W!Branch(y)' = W!Branch(y)
  BY <1>2 DEF W!Branch
<1>7. RefsTyped'
  BY <1>1, <1>2, <1>4, <1>5, <1>6 DEF RefsTyped
<1>8. CommitsKept'
  <2> SUFFICES ASSUME NEW i \in W!Repos
      PROVE  /\ \A y \in Runs : wRemote'[i][y] # NoRef => wRemote'[i][y] \subseteq wHistory[i].pushed
             /\ \A p \in wSalvage[i] : p.at <= now /\ \A m \in p.tip : p.at <= wHistory[i].parked[m]
             /\ \A m \in Runs : wHistory[i].parked[m] >= 0 =>
                  \/ \E p \in wSalvage[i] : m \in p.tip /\ p.at = wHistory[i].parked[m]
                  \/ now - wHistory[i].parked[m] > Ttl
    BY <1>2 DEF CommitsKept
  <2>1. \A y \in Runs : wRemote[i][y] # NoRef => wRemote[i][y] \subseteq wHistory[i].pushed
    BY <1>1 DEF CommitsKept
  <2>2. \A y \in Runs : wRemote'[i][y] # NoRef => wRemote'[i][y] \subseteq wHistory[i].pushed
    BY <1>4, <2>1
  <2>3. /\ \A p \in wSalvage[i] : p.at <= now /\ \A m \in p.tip : p.at <= wHistory[i].parked[m]
        /\ \A m \in Runs : wHistory[i].parked[m] >= 0 =>
             \/ \E p \in wSalvage[i] : m \in p.tip /\ p.at = wHistory[i].parked[m]
             \/ now - wHistory[i].parked[m] > Ttl
    BY <1>1 DEF CommitsKept
  <2> QED BY <2>2, <2>3
<1>9. W!UnpushedRecoverable' /\ W!ParkedRunKept' /\ W!OneTreePerBranch'
  BY <1>1, <1>2, <1>6 DEF W!UnpushedRecoverable, W!ParkedRunKept, W!OneTreePerBranch
<1> QED BY <1>3, <1>7, <1>8, <1>9 DEF TreesInv

\* Somebody deletes a worktree by hand.
LEMMA HandDeleteKeeps ==
  ASSUME TreesInv, NEW k \in W!Repos, NEW r \in Runs, W!HandDelete(k, r) PROVE TreesInv'
<1>1. TreesTyped /\ RefsTyped /\ MemoryTyped /\ HistoryTyped /\ CommitsKept /\ W!UnpushedRecoverable
      /\ W!ParkedRunKept /\ W!OneTreePerBranch
  BY DEF TreesInv
<1>2. /\ wFaults > 0 /\ wFaults' = wFaults - 1
      /\ wTree' = [wTree EXCEPT ![k] = @ \ {r}] /\ dirty' = [dirty EXCEPT ![k] = @ \ {r}]
      /\ touched' = [touched EXCEPT ![r] = now]
      /\ wHistory' = [wHistory EXCEPT ![k].hand = @ \cup {r}]
      /\ UNCHANGED <<conf, now, jobs, reg, dir, heads, seen, wSalvage, wRemote, merged, map, used, inFlight,
                     wJob, purge, torn>>
  BY DEF W!HandDelete, W!refs, W!world, W!memory
<1>3. jobs' \in 0..MaxJobs /\ wFaults' \in 0..MaxTreeFaults
  <2>1. jobs \in 0..MaxJobs /\ wFaults \in 0..MaxTreeFaults /\ MaxTreeFaults \in Nat
    BY <1>1, TreesAssumed DEF TreesTyped
  <2> QED BY <1>2, <2>1
<1>4. TreesTyped' /\ \A i \in W!Repos : wTree'[i] \subseteq wTree[i] /\ wTree[i] \ wTree'[i] \subseteq {r}
  BY <1>1, <1>2, <1>3, OneTreeLess
<1>5. /\ wHistory' \in [W!Repos -> History]
      /\ \A i \in W!Repos :
           /\ wHistory'[i].parked = wHistory[i].parked /\ wHistory'[i].pushed = wHistory[i].pushed
           /\ wHistory'[i].made = wHistory[i].made /\ wHistory[i].hand \subseteq wHistory'[i].hand
      /\ r \in wHistory'[k].hand
  <2>1. wHistory \in [W!Repos -> History]
    BY <1>1 DEF HistoryTyped
  <2> DEFINE new == [wHistory[k] EXCEPT !.hand = @ \cup {r}]
  <2>2. /\ new \in History /\ new.parked = wHistory[k].parked /\ new.pushed = wHistory[k].pushed
        /\ new.made = wHistory[k].made /\ new.hand = wHistory[k].hand \cup {r}
    BY <2>1 DEF History
  <2>3. wHistory' = [wHistory EXCEPT ![k] = new]
    BY <1>2, <2>1
  <2> HIDE DEF new
  <2>4. \A i \in W!Repos : wHistory'[i] = IF i = k THEN new ELSE wHistory[i]
    BY <2>1, <2>3
  <2> QED BY <2>1, <2>2, <2>3, <2>4
<1>6. RefsTyped' /\ W!OneTreePerBranch'
  BY <1>1, <1>2, <1>4, FewerTrees
<1>7. HistoryTyped' /\ CommitsKept' /\ W!UnpushedRecoverable'
  <2>1. HistoryTyped'
    BY <1>1, <1>2, <1>5 DEF HistoryTyped
  <2>2. CommitsKept'
    <3> SUFFICES ASSUME NEW i \in W!Repos
        PROVE  /\ \A y \in Runs : wRemote[i][y] # NoRef => wRemote[i][y] \subseteq wHistory'[i].pushed
               /\ \A p \in wSalvage[i] : p.at <= now /\ \A m \in p.tip : p.at <= wHistory'[i].parked[m]
               /\ \A m \in Runs : wHistory'[i].parked[m] >= 0 =>
                    \/ \E p \in wSalvage[i] : m \in p.tip /\ p.at = wHistory'[i].parked[m]
                    \/ now - wHistory'[i].parked[m] > Ttl
      BY <1>2 DEF CommitsKept
    <3> QED BY <1>1, <1>5 DEF CommitsKept
  <2>3. W!UnpushedRecoverable'
    <3>1. \A i \in W!Repos : wHistory'[i].made \ wHistory'[i].pushed = wHistory[i].made \ wHistory[i].pushed
      BY <1>5
    <3> QED BY <1>1, <1>2, <1>5, <3>1 DEF W!UnpushedRecoverable
  <2> QED BY <2>1, <2>2, <2>3
<1>8. MemoryTyped'
  <2>1. touched' \in [Runs -> 0..MaxNow]
    BY <1>1, <1>2, NowTyped DEF MemoryTyped
  <2> QED BY <1>1, <1>2, <2>1 DEF MemoryTyped
<1>9. W!ParkedRunKept'
  <2> SUFFICES ASSUME ~conf.shared, ~conf.policy, NEW x \in Runs, torn[x] = NotTorn, NEW i \in map[x]
               PROVE  x \in wTree'[i] \/ x \in wHistory'[i].hand
    BY <1>2 DEF W!ParkedRunKept
  <2>1. i \in W!Repos
    BY <1>1 DEF MemoryTyped
  <2>2. x \in wTree[i] \/ x \in wHistory[i].hand
    BY <1>1 DEF W!ParkedRunKept
  <2>3. CASE i = k /\ x = r
    BY <1>5, <2>3
  <2>4. CASE ~(i = k /\ x = r)
    <3>1. wTree'[i] = IF i = k THEN wTree[k] \ {r} ELSE wTree[i]
      BY <1>1, <1>2, <2>1 DEF TreesTyped
    <3> QED BY <1>5, <2>1, <2>2, <2>4, <3>1
  <2> QED BY <2>3, <2>4
<1> QED BY <1>4, <1>6, <1>7, <1>8, <1>9 DEF TreesInv

\* The process dies.
LEMMA KillKeeps == ASSUME TreesInv, W!Kill PROVE TreesInv'
<1>1. TreesTyped /\ RefsTyped /\ MemoryTyped
  BY DEF TreesInv
<1>2. /\ wFaults > 0 /\ wFaults' = wFaults - 1
      /\ dirty' = [k \in W!Repos |-> {r \in dirty[k] : wJob[r] # "staging"}]
      /\ map' = [r \in Runs |-> {}] /\ used' = [r \in Runs |-> -1]
      /\ inFlight' = [r \in Runs |-> 0] /\ wJob' = [r \in Runs |-> "down"]
      /\ purge' = [r \in Runs |-> <<>>] /\ torn' = [r \in Runs |-> NotTorn]
      /\ UNCHANGED <<conf, now, jobs, wTree, reg, dir, heads, seen, wSalvage, wRemote, merged, touched, wHistory>>
  BY DEF W!Kill, W!refs, W!world
<1>3. wFaults' \in 0..MaxTreeFaults
  <2>1. wFaults \in 0..MaxTreeFaults /\ MaxTreeFaults \in Nat
    BY <1>1, TreesAssumed DEF TreesTyped
  <2> QED BY <1>2, <2>1
<1>4. \A k \in W!Repos : dirty'[k] \subseteq dirty[k]
  BY <1>2
<1>5. TreesTyped'
  <2>1. dirty' \in [W!Repos -> SUBSET Runs]
    BY <1>1, <1>2 DEF TreesTyped
  <2>2. \A k \in W!Repos : dirty'[k] \subseteq wTree[k]
    BY <1>1, <1>4 DEF TreesTyped
  <2> QED BY <1>1, <1>2, <1>3, <2>1, <2>2 DEF TreesTyped
<1>6. RefsTyped' /\ HistoryTyped' /\ CommitsKept' /\ W!UnpushedRecoverable' /\ W!OneTreePerBranch'
  BY <1>2, RefsStay
<1>7. MemoryTyped'
  <2>1. -1 \in -1..MaxNow /\ touched \in [Runs -> 0..MaxNow]
    BY <1>1, TreesAssumed DEF MemoryTyped
  <2>2. /\ used' \in [Runs -> -1..MaxNow] /\ touched' \in [Runs -> 0..MaxNow]
        /\ map' \in [Runs -> SUBSET W!Repos] /\ purge' \in [Runs -> Seq(Runs)]
        /\ torn' \in [Runs -> {NotTorn} \cup Torn]
    BY <1>2, <2>1
  <2>3. /\ inFlight' \in [Runs -> 0..1]
        /\ wJob' \in [Runs -> {"none", "queued", "staging", "retaining", "down"}]
        /\ \A r \in Runs : inFlight'[r] = 1 <=> wJob'[r] \in {"staging", "retaining"}
    BY <1>2
  <2> QED BY <2>2, <2>3 DEF MemoryTyped
<1>8. W!ParkedRunKept'
  <2>1. \A r \in Runs : map'[r] = {}
    BY <1>2
  <2> QED BY <2>1 DEF W!ParkedRunKept
<1> QED BY <1>5, <1>6, <1>7, <1>8 DEF TreesInv

\* The pass at boot finds no run in memory.
LEMMA BootKeeps == ASSUME TreesInv, OneProcess, W!Boot PROVE TreesInv'
<1>1. TreesTyped /\ RefsTyped /\ MemoryTyped /\ HistoryTyped /\ CommitsKept /\ W!UnpushedRecoverable
      /\ W!ParkedRunKept /\ W!OneTreePerBranch
  BY DEF TreesInv
<1>2. /\ wJob' = [r \in Runs |-> "none"]
      /\ UNCHANGED <<conf, now, jobs, wFaults, wRemote, merged, map, used, inFlight, purge, torn, wHistory>>
  BY DEF W!Boot, W!world
<1>3. PICK doomed : W!Doomed(W!Cardinality(Runs), doomed) /\ W!Reap(doomed)
  BY DEF W!Boot
<1>4. TreesTyped' /\ RefsTyped' /\ W!OneTreePerBranch'
  BY <1>1, <1>2, <1>3, ReapTrees
<1>5. HistoryTyped' /\ CommitsKept' /\ W!UnpushedRecoverable'
  BY <1>1, <1>2, <1>3, ReapCommits
<1>6. MemoryTyped'
  <2>1. \A r \in Runs : wJob[r] = "down"
    BY DEF W!Boot, OneProcess
  <2>2. \A r \in Runs : inFlight[r] # 1
    BY <1>1, <2>1 DEF MemoryTyped
  <2>3. touched' = touched
    BY <1>3 DEF W!Reap
  <2> QED BY <1>1, <1>2, <2>2, <2>3 DEF MemoryTyped
<1>7. W!ParkedRunKept'
  <2> SUFFICES ASSUME ~conf.shared, ~conf.policy, NEW x \in Runs, torn[x] = NotTorn, NEW k \in map[x]
               PROVE  x \in wTree'[k] \/ x \in wHistory[k].hand
    BY <1>2 DEF W!ParkedRunKept
  <2>1. k \in W!Repos
    BY <1>1 DEF MemoryTyped
  <2>2. x \in wTree[k] \/ x \in wHistory[k].hand
    BY <1>1 DEF W!ParkedRunKept
  <2>3. wTree'[k] = wTree[k] \ doomed
    BY <1>3, <2>1 DEF W!Reap
  <2>4. x \in doomed => x \notin wTree[k]
    <3>1. W!Live(x)
      BY DEF W!Live
    <3> QED BY <1>1, <1>3, <2>1, <3>1, DoomedAreIdle
  <2> QED BY <2>2, <2>3, <2>4
<1> QED BY <1>4, <1>5, <1>6, <1>7 DEF TreesInv

\* A step of a part that is still.
LEMMA TreesStill == ASSUME TreesInv, UNCHANGED wVars PROVE TreesInv'
<1>1. TreesTyped /\ RefsTyped /\ MemoryTyped /\ HistoryTyped /\ CommitsKept /\ W!UnpushedRecoverable
      /\ W!ParkedRunKept /\ W!OneTreePerBranch
  BY DEF TreesInv
<1>2. TreesTyped' /\ MemoryTyped' /\ W!ParkedRunKept'
  BY <1>1 DEF wVars, TreesTyped, MemoryTyped, W!ParkedRunKept
<1>3. RefsTyped' /\ HistoryTyped' /\ CommitsKept' /\ W!UnpushedRecoverable' /\ W!OneTreePerBranch'
  BY RefsStay DEF wVars
<1> QED BY <1>2, <1>3 DEF TreesInv

\* Every step of the worktrees keeps the invariant.
LEMMA TreesStep == ASSUME TreesInv, OneProcess, W!Next PROVE TreesInv' /\ OneProcess'
<1>1. CASE W!Jobs
  <2>1. PICK r \in Runs :
          \/ W!Dispatch(r) \/ W!Work(r) \/ W!Retain(r) \/ W!Purge(r) \/ W!Return(r)
          \/ \E net \in [W!Repos -> W!Net] : W!Begin(r, net)
          \/ \E k \in W!Needs(r), net \in [W!Repos -> W!Net], lands \in BOOLEAN : W!Push(r, k, net, lands)
    BY <1>1 DEF W!Jobs
  <2>2. TreesInv'
    BY <2>1, QuietStepKeeps, RetainKeeps, PurgeKeeps, BeginKeeps, PushKeeps
  <2>3. W!Up /\ \E state \in {"none", "queued", "staging", "retaining"} :
          wJob' = wJob \/ wJob' = [wJob EXCEPT ![r] = state]
    BY <2>1 DEF W!Dispatch, W!Work, W!Retain, W!Purge, W!Return, W!Begin, W!Push, W!memory
  <2>4. OneProcess'
    <3>1. wJob \in [Runs -> {"none", "queued", "staging", "retaining", "down"}]
      BY DEF TreesInv, MemoryTyped
    <3> QED BY <2>3, <3>1 DEF OneProcess, W!Up
  <2> QED BY <2>2, <2>4
<1>2. CASE W!Collect
  <2>1. TreesInv'
    BY <1>2, FinishRunKeeps, TeardownGoesOnKeeps DEF W!Collect
  <2>2. wJob' = wJob
    BY <1>2 DEF W!Collect, W!FinishRun, W!TeardownGoesOn
  <2> QED BY <2>1, <2>2 DEF OneProcess, W!Up
<1>3. CASE W!World
  <2>1. CASE W!Kill
    <3>1. wJob' = [r \in Runs |-> "down"]
      BY <2>1 DEF W!Kill
    <3> QED BY <2>1, <3>1, KillKeeps DEF OneProcess
  <2>2. CASE W!Boot
    <3>1. wJob' = [r \in Runs |-> "none"]
      BY <2>2 DEF W!Boot
    <3> QED BY <2>2, <3>1, BootKeeps DEF OneProcess, W!Up
  <2>3. CASE W!Tick
    <3>1. wJob' = wJob
      BY <2>3 DEF W!Tick, W!memory
    <3> QED BY <2>3, <3>1, TickKeeps DEF OneProcess, W!Up
  <2>4. CASE \E k \in W!Repos, r \in Runs : W!HandDelete(k, r) \/ \E m \in BOOLEAN : W!DropBranch(k, r, m)
    <3>1. wJob' = wJob
      BY <2>4 DEF W!HandDelete, W!DropBranch, W!memory
    <3> QED BY <2>4, <3>1, HandDeleteKeeps, DropBranchKeeps DEF OneProcess, W!Up
  <2> QED BY <1>3, <2>1, <2>2, <2>3, <2>4 DEF W!World
<1> QED BY <1>1, <1>2, <1>3 DEF W!Next

\* The invariant holds at the start.
LEMMA TreesInit == ASSUME W!Init PROVE TreesInv /\ OneProcess
<1>1. /\ MaxNow \in Nat /\ MaxJobs \in Nat /\ MaxTreeFaults \in 0..MaxJobs
      /\ wFaults \in 0..MaxTreeFaults /\ jobs = MaxJobs - wFaults
  BY TreesAssumed DEF W!Init
<1>2. /\ now = 0
      /\ wTree = [k \in W!Repos |-> {}] /\ reg = [k \in W!Repos |-> {}] /\ dir = {}
      /\ dirty = [k \in W!Repos |-> {}]
  BY DEF W!Init
<1>3. TreesTyped
  <2>1. now \in 0..MaxNow /\ jobs \in 0..MaxJobs
    BY <1>1, <1>2
  <2> QED BY <1>1, <1>2, <2>1 DEF TreesTyped
<1>4. RefsTyped
  <2>1. heads = [k \in W!Repos |-> [x \in Runs |-> NoRef]]
        /\ seen = [k \in W!Repos |-> [x \in Runs \cup {"base"} |-> IF x = "base" THEN {} ELSE NoRef]]
        /\ wRemote = [k \in W!Repos |-> [x \in Runs |-> NoRef]] /\ merged = [k \in W!Repos |-> {}]
    BY DEF W!Init
  <2>2. NoRef # {}
    BY TreesAssumed
  <2> QED BY <1>2, <2>1, <2>2 DEF RefsTyped, W!Tip
<1>5. MemoryTyped
  <2>1. /\ map = [r \in Runs |-> {}] /\ used = [r \in Runs |-> -1] /\ touched = [r \in Runs |-> 0]
        /\ inFlight = [r \in Runs |-> 0] /\ wJob = [r \in Runs |-> "none"]
        /\ purge = [r \in Runs |-> <<>>] /\ torn = [r \in Runs |-> NotTorn]
    BY DEF W!Init
  <2>2. -1 \in -1..MaxNow /\ 0 \in 0..MaxNow
    BY <1>1
  <2> QED BY <2>1, <2>2 DEF MemoryTyped
<1>6. /\ wHistory = [k \in W!Repos |-> [made |-> {}, pushed |-> {}, hand |-> {}, parked |-> [r \in Runs |-> -1]]]
      /\ wSalvage = [k \in W!Repos |-> {}] /\ wRemote = [k \in W!Repos |-> [x \in Runs |-> NoRef]]
      /\ map = [r \in Runs |-> {}] /\ wJob = [r \in Runs |-> "none"]
  BY DEF W!Init
<1>7. HistoryTyped
  <2>1. [r \in Runs |-> -1] \in [Runs -> -1..MaxNow]
    BY <1>1
  <2> QED BY <1>6, <2>1 DEF HistoryTyped, History
<1>8. CommitsKept
  BY <1>6 DEF CommitsKept
<1>9. W!UnpushedRecoverable /\ W!ParkedRunKept /\ W!OneTreePerBranch
  BY <1>2, <1>6 DEF W!UnpushedRecoverable, W!ParkedRunKept, W!OneTreePerBranch
<1>10. OneProcess
  BY <1>6 DEF OneProcess, W!Up
<1> QED BY <1>3, <1>4, <1>5, <1>7, <1>8, <1>9, <1>10 DEF TreesInv

-----------------------------------------------------------------------------
(* Who takes a worktree, and what a run is given. *)

\* RunsHaveTheirTrees of one run and one repository.
Served(r, k) ==
  /\ W!Busy(r) /\ r \in wTree[k] /\ r \notin wTree'[k] => W!Condemned(r) \/ wFaults' < wFaults
  /\ r \in wTree'[k] \ wTree[k] /\ seen'[k][W!Branch(r)] = NoRef => heads'[k][W!Branch(r)] = merged[k]

\* A step that moves no worktree serves every run.
LEMMA NoneTaken ==
  ASSUME NEW k \in W!Repos, wTree'[k] = wTree[k] PROVE \A r \in Runs : Served(r, k)
BY DEF Served

\* A provisioning takes no busy run's worktree, and starts a new one at the base of that moment.
LEMMA ProvisionServes ==
  ASSUME TreesInv, NEW x \in Runs, NEW need \in SUBSET W!Repos, NEW net \in [W!Repos -> W!Net],
         W!Provision(x, need, net), NEW r \in Runs, NEW k \in W!Repos
  PROVE  Served(r, k)
<1>1. TreesTyped /\ RefsTyped
  BY DEF TreesInv
<1>2. Changes(k, x, need, net)
  BY <1>1, ProvisionTrees
<1>3. r \in wTree[k] /\ r \notin wTree'[k] => ~W!Busy(r)
  BY <1>2 DEF Changes
<1>4. ASSUME r \in wTree'[k] \ wTree[k], seen'[k][W!Branch(r)] = NoRef
      PROVE  heads'[k][W!Branch(r)] = merged[k]
  <2>1. r = x /\ k \in Built(x, need, net)
    BY <1>2, <1>4 DEF Changes
  <2>2. ~W!Blocked(k, r) /\ net[k] # "down"
    BY <1>2, <2>1 DEF Changes
  <2>3. k \in Tried(x, need, net)
    BY <2>1 DEF Built
  <2> DEFINE tips == W!Seen(k, net[k])
  <2>4. seen'[k] = tips
    <3>1. seen' = [i \in W!Repos |-> IF i \in Tried(x, need, net) THEN W!Seen(i, Reached(i, x, net)) ELSE seen[i]]
      BY ProvisionIs DEF Effect
    <3>2. Reached(k, x, net) = net[k]
      BY <2>1, <2>2 DEF Reached
    <3> QED BY <2>3, <3>1, <3>2
  <2>5. W!Branch(r) \in Runs
    BY BranchIs
  <2>6. heads'[k][W!Branch(r)] = W!StartPoint(k, r, net[k])
    BY <1>1, <2>1, <2>5, HeadAfter
  <2>7. W!StartPoint(k, r, net[k]) = IF tips[W!Branch(r)] # NoRef THEN tips[W!Branch(r)] ELSE tips["base"]
    BY DEF W!StartPoint
  <2>8. tips["base"] = merged[k]
    <3>1. seen[k] \in [Runs \cup {"base"} -> W!Tip]
      BY <1>1 DEF RefsTyped
    <3>2. net[k] = "up" \/ net[k] = "flaky"
      BY <2>2 DEF W!Net
    <3>3. CASE net[k] = "up"
      <4>1. tips = [i \in Runs \cup {"base"} |-> IF i = "base" THEN merged[k] ELSE wRemote[k][i]]
        BY <3>3 DEF W!Seen
      <4> QED BY <4>1
    <3>4. CASE net[k] = "flaky"
      <4>1. tips = [seen[k] EXCEPT !["base"] = merged[k]]
        BY <3>4 DEF W!Seen
      <4> QED BY <3>1, <4>1
    <3> QED BY <3>2, <3>3, <3>4
  <2> HIDE DEF tips
  <2> QED BY <1>4, <2>4, <2>6, <2>7, <2>8
<1> QED BY <1>3, <1>4 DEF Served

\* The reaper takes no busy run's worktree.
LEMMA ReapServes ==
  ASSUME NEW limit, NEW doomed, W!Doomed(limit, doomed), W!Reap(doomed), NEW r \in Runs, NEW k \in W!Repos
  PROVE  Served(r, k)
<1>1. wTree'[k] = wTree[k] \ doomed
  BY DEF W!Reap
<1>2. r \in doomed => ~W!Busy(r)
  <2>1. doomed \subseteq W!Candidates
    BY DEF W!Doomed
  <2> QED BY <2>1 DEF W!Candidates
<1> QED BY <1>1, <1>2 DEF Served

\* A teardown takes the worktrees of its run.
LEMMA TeardownServes ==
  ASSUME TreesInv, NEW x \in Runs, NEW by, W!Teardown(x, by), W!Condemned(x) \/ ~W!Busy(x),
         NEW r \in Runs, NEW k \in W!Repos
  PROVE  Served(r, k)
<1>1. wTree'[k] = wTree[k] \/ wTree'[k] = wTree[k] \ {x}
  BY DEF W!Teardown, TreesInv, TreesTyped
<1> QED BY <1>1 DEF Served

\* Every step of the worktrees serves every run.
LEMMA TreesServed ==
  ASSUME TreesInv, [W!Next]_wVars, NEW r \in Runs, NEW k \in W!Repos PROVE Served(r, k)
<1>1. CASE UNCHANGED wVars
  BY <1>1, NoneTaken DEF wVars
<1>2. CASE W!Jobs
  <2>1. PICK x \in Runs :
          \/ W!Dispatch(x) \/ W!Work(x) \/ W!Retain(x) \/ W!Purge(x) \/ W!Return(x)
          \/ \E net \in [W!Repos -> W!Net] : W!Begin(x, net)
          \/ \E i \in W!Needs(x), net \in [W!Repos -> W!Net], lands \in BOOLEAN : W!Push(x, i, net, lands)
    BY <1>2 DEF W!Jobs
  <2>2. CASE W!Dispatch(x) \/ W!Work(x) \/ W!Return(x)
    <3>1. wTree' = wTree
      BY <2>2 DEF W!Dispatch, W!Work, W!Return, W!disk
    <3> QED BY <3>1, NoneTaken
  <2>3. CASE W!Retain(x)
    <3>1. PICK doomed : W!Doomed(W!Limit, doomed) /\ W!Reap(doomed)
      BY <2>3 DEF W!Retain
    <3> QED BY <3>1, ReapServes
  <2>4. CASE W!Purge(x)
    <3> DEFINE y == Head(purge[x])
    <3>1. /\ purge[x] # <<>>
          /\ IF W!Live(y) THEN W!Teardown(y, x) ELSE wTree' = wTree
      BY <2>4 DEF W!Purge, W!disk
    <3>2. purge[x] \in Seq(Runs)
      BY DEF TreesInv, MemoryTyped
    <3>3. y \in Runs /\ y \in W!Range(purge[x])
      BY <3>1, <3>2 DEF W!Range
    <3>4. W!Condemned(y)
      BY <3>3 DEF W!Condemned
    <3> HIDE DEF y
    <3>5. CASE W!Live(y)
      BY <3>1, <3>3, <3>4, <3>5, TeardownServes
    <3>6. CASE ~W!Live(y)
      BY <3>1, <3>6, NoneTaken
    <3> QED BY <3>5, <3>6
  <2>5. CASE \E net \in [W!Repos -> W!Net] : W!Begin(x, net)
    <3>1. PICK net \in [W!Repos -> W!Net] : W!Begin(x, net)
      BY <2>5
    <3>2. wTree' = wTree \/ W!Provision(x, W!Needs(x), net)
      BY <3>1 DEF W!Begin
    <3>3. W!Needs(x) \in SUBSET W!Repos
      BY NeedsTyped
    <3>4. CASE wTree' = wTree
      BY <3>4, NoneTaken
    <3>5. CASE W!Provision(x, W!Needs(x), net)
      BY <3>3, <3>5, ProvisionServes
    <3> QED BY <3>2, <3>4, <3>5
  <2>6. CASE \E i \in W!Needs(x), net \in [W!Repos -> W!Net], lands \in BOOLEAN : W!Push(x, i, net, lands)
    <3>1. PICK i \in W!Needs(x), net \in [W!Repos -> W!Net], lands \in BOOLEAN : W!Push(x, i, net, lands)
      BY <2>6
    <3>2. wTree' = wTree \/ W!Provision(x, {i}, net)
      BY <3>1 DEF W!Push
    <3>3. {i} \in SUBSET W!Repos
      BY <3>1, NeedsTyped
    <3>4. CASE wTree' = wTree
      BY <3>4, NoneTaken
    <3>5. CASE W!Provision(x, {i}, net)
      BY <3>3, <3>5, ProvisionServes
    <3> QED BY <3>2, <3>4, <3>5
  <2> QED BY <2>1, <2>2, <2>3, <2>4, <2>5, <2>6
<1>3. CASE W!Collect
  <2>1. PICK x \in Runs : W!FinishRun(x) \/ W!TeardownGoesOn(x)
    BY <1>3 DEF W!Collect
  <2>2. CASE W!FinishRun(x)
    <3>1. ~W!Busy(x) /\ W!Teardown(x, "frame")
      BY <2>2 DEF W!FinishRun
    <3> QED BY <3>1, TeardownServes
  <2>3. CASE W!TeardownGoesOn(x)
    <3>1. W!Condemned(x)
      BY <2>3 DEF W!TeardownGoesOn, W!Condemned
    <3>2. wTree'[k] = wTree[k] \/ wTree'[k] = wTree[k] \ {x}
      <4>1. wTree \in [W!Repos -> SUBSET Runs]
        BY DEF TreesInv, TreesTyped
      <4>2. \/ wTree' = [i \in W!Repos |-> wTree[i] \ {x}]
            \/ \E i : wTree' = [wTree EXCEPT ![i] = @ \ {x}]
        BY <2>3 DEF W!TeardownGoesOn
      <4> QED BY <4>1, <4>2
    <3> QED BY <3>1, <3>2 DEF Served
  <2> QED BY <2>1, <2>2, <2>3
<1>4. CASE W!World
  <2>1. CASE W!Tick \/ W!Kill
    <3>1. wTree' = wTree
      BY <2>1 DEF W!Tick, W!Kill, W!disk
    <3> QED BY <3>1, NoneTaken
  <2>2. CASE W!Boot
    <3>1. PICK doomed : W!Doomed(W!Cardinality(Runs), doomed) /\ W!Reap(doomed)
      BY <2>2 DEF W!Boot
    <3> QED BY <3>1, ReapServes
  <2>3. CASE \E i \in W!Repos, x \in Runs : W!HandDelete(i, x)
    <3>1. PICK i \in W!Repos, x \in Runs : W!HandDelete(i, x)
      BY <2>3
    <3>2. wFaults > 0 /\ wFaults' = wFaults - 1 /\ wTree' = [wTree EXCEPT ![i] = @ \ {x}]
      BY <3>1 DEF W!HandDelete
    <3>3. wFaults \in Nat
      BY DEF TreesInv, TreesTyped
    <3>4. wFaults' < wFaults /\ wTree'[k] \subseteq wTree[k]
      BY <3>2, <3>3 DEF TreesInv, TreesTyped
    <3> QED BY <3>4 DEF Served
  <2>4. CASE \E i \in W!Repos, x \in Runs : \E m \in BOOLEAN : W!DropBranch(i, x, m)
    <3>1. wTree' = wTree
      BY <2>4 DEF W!DropBranch, W!disk
    <3> QED BY <3>1, NoneTaken
  <2> QED BY <1>4, <2>1, <2>2, <2>3, <2>4 DEF W!World
<1> QED BY <1>1, <1>2, <1>3, <1>4 DEF W!Next

-----------------------------------------------------------------------------
(* The types of Worktrees. *)

ConfTyped == conf \in [shared : BOOLEAN, policy : BOOLEAN]

\* The shape of the node is what it was.
LEMMA ConfStep == ASSUME [W!Next]_wVars PROVE conf' = conf
<1>1. CASE UNCHANGED wVars
  BY <1>1 DEF wVars
<1>2. CASE W!Jobs
  <2>1. PICK r \in Runs :
          \/ W!Dispatch(r) \/ W!Work(r) \/ W!Retain(r) \/ W!Purge(r) \/ W!Return(r)
          \/ \E net \in [W!Repos -> W!Net] : W!Begin(r, net)
          \/ \E k \in W!Needs(r), net \in [W!Repos -> W!Net], lands \in BOOLEAN : W!Push(r, k, net, lands)
    BY <1>2 DEF W!Jobs
  <2>2. CASE W!Dispatch(r) \/ W!Work(r) \/ W!Retain(r) \/ W!Purge(r) \/ W!Return(r)
    BY <2>2 DEF W!Dispatch, W!Work, W!Retain, W!Purge, W!Return
  <2>3. CASE \E net \in [W!Repos -> W!Net] : W!Begin(r, net)
    BY <2>3 DEF W!Begin
  <2>4. CASE \E k \in W!Needs(r), net \in [W!Repos -> W!Net], lands \in BOOLEAN : W!Push(r, k, net, lands)
    BY <2>4 DEF W!Push
  <2> QED BY <2>1, <2>2, <2>3, <2>4
<1>3. CASE W!Collect
  BY <1>3 DEF W!Collect, W!FinishRun, W!TeardownGoesOn
<1>4. CASE W!World
  BY <1>4 DEF W!World, W!Tick, W!Kill, W!Boot, W!HandDelete, W!DropBranch
<1> QED BY <1>1, <1>2, <1>3, <1>4 DEF W!Next

\* The invariant has the types of every variable.
LEMMA TreesTypeOK == ASSUME TreesInv, ConfTyped PROVE W!TypeOK
<1>1. TreesTyped /\ RefsTyped /\ MemoryTyped /\ HistoryTyped
  BY DEF TreesInv
<1>2. /\ \A k \in W!Repos : wTree[k] \subseteq reg[k] \cap dir /\ dirty[k] \subseteq wTree[k]
      /\ now \in 0..MaxNow /\ jobs \in 0..MaxJobs /\ wFaults \in 0..MaxTreeFaults
      /\ wTree \in [W!Repos -> SUBSET Runs] /\ reg \in [W!Repos -> SUBSET Runs]
  BY <1>1 DEF TreesTyped
<1>3. /\ heads \in [W!Repos -> [Runs -> W!Tip]]
      /\ seen \in [W!Repos -> [Runs \cup {"base"} -> W!Tip]]
      /\ wRemote \in [W!Repos -> [Runs -> W!Tip]] /\ merged \in [W!Repos -> SUBSET Runs]
  BY <1>1 DEF RefsTyped
<1>4. /\ map \in [Runs -> SUBSET W!Repos]
      /\ used \in [Runs -> -1..MaxNow] /\ touched \in [Runs -> 0..MaxNow]
      /\ inFlight \in [Runs -> 0..1]
      /\ wJob \in [Runs -> {"none", "queued", "staging", "retaining", "down"}]
      /\ \A r \in Runs : inFlight[r] = 1 <=> wJob[r] \in {"staging", "retaining"}
  BY <1>1 DEF MemoryTyped
<1>5. \A r \in Runs : /\ purge[r] \in Seq(Runs)
                      /\ torn[r] = NotTorn \/ torn[r] \in [left : SUBSET W!Repos, by : Runs \cup {"frame"}]
  BY <1>1 DEF MemoryTyped, Torn
<1>6. \A k \in W!Repos : wSalvage[k] \subseteq W!Parked
  BY <1>1 DEF HistoryTyped
<1>7. wHistory \in [W!Repos -> [made : SUBSET Runs, pushed : SUBSET Runs, hand : SUBSET Runs,
                                parked : [Runs -> -1..MaxNow]]]
  BY <1>1 DEF HistoryTyped, History
<1> QED BY <1>2, <1>3, <1>4, <1>5, <1>6, <1>7, Zenon DEF W!TypeOK, ConfTyped

-----------------------------------------------------------------------------
(* Mirror is the mirror of Mirror_proofs, with the names it has here. *)

MP == INSTANCE Mirror_proofs
        WITH MaxEvents <- MaxRepoEvents, MaxFaults <- MaxRepoFaults, heads <- mHeads,
             seen <- mSeen, remote <- mRemote, job <- mJob, faults <- mFaults

\* The initial states.
LEMMA MirrorInitIs == M!Init => MP!Init
BY DEF M!Init, MP!Init, M!NoRefs, MP!NoRefs, M!Branches, MP!Branches, M!Idle, MP!Idle,
       M!NoUrl, MP!NoUrl

\* The making and the refreshing of a mirror.
LEMMA MirrorWorksIs == M!Works => MP!Works
<1>1. /\ M!MakeRepo => MP!MakeRepo
      /\ M!AddRemote => MP!AddRemote
      /\ M!Unset => MP!Unset
      /\ M!SetRefspec => MP!SetRefspec
      /\ M!SetUrl => MP!SetUrl
      /\ M!Fetch => MP!Fetch
      /\ M!Collect => MP!Collect
  BY DEF M!MakeRepo, MP!MakeRepo, M!AddRemote, MP!AddRemote, M!Unset, MP!Unset, M!SetRefspec, MP!SetRefspec,
         M!SetUrl, MP!SetUrl, M!Fetch, MP!Fetch, M!Collect, MP!Collect, M!At, MP!At, M!Done, MP!Done,
         M!Fails, MP!Fails, M!Ends, MP!Ends, M!Idle, MP!Idle, M!Expected, MP!Expected, M!HasRemote, MP!HasRemote,
         M!NoUrl, MP!NoUrl, M!Reaches, MP!Reaches, M!Shadow, MP!Shadow, M!Branches, MP!Branches,
         M!refs, MP!refs, M!outside, MP!outside
<1>2. /\ M!StartBlind => MP!StartBlind
      /\ M!StartWithout => MP!StartWithout
      /\ M!Start => MP!Start
  BY DEF M!StartBlind, MP!StartBlind, M!StartWithout, MP!StartWithout, M!Start, MP!Start, M!At, MP!At,
         M!Ends, MP!Ends, M!Idle, MP!Idle, M!Reaches, MP!Reaches, M!NoUrl, MP!NoUrl, M!Looked, MP!Looked,
         M!Resolve, MP!Resolve, M!Chosen, MP!Chosen, M!refs, MP!refs, M!outside, MP!outside
<1> QED BY <1>1, <1>2 DEF M!Works, MP!Works

\* The steps.
LEMMA MirrorNextIs == [M!Next]_mVars => [MP!Next]_MP!vars
<1>1. M!Asked => MP!Asked
  BY DEF M!Asked, MP!Asked, M!Begin, MP!Begin, M!Idle, MP!Idle, M!Refresh, MP!Refresh, M!Clone, MP!Clone,
         M!Migrated, MP!Migrated, M!refs, MP!refs, M!outside, MP!outside
<1>2. M!FetchFails => MP!FetchFails
  BY DEF M!FetchFails, MP!FetchFails, M!At, MP!At, M!Fails, MP!Fails, M!Ends, MP!Ends, M!Idle, MP!Idle,
         M!refs, MP!refs, M!outside, MP!outside
<1>3. /\ M!Move => MP!Move
      /\ M!Teardown => MP!Teardown
      /\ M!Kill => MP!Kill
  BY DEF M!Move, MP!Move, M!Teardown, MP!Teardown, M!Kill, MP!Kill, M!Happens, MP!Happens, M!Idle, MP!Idle,
         M!refs, MP!refs, M!outside, MP!outside
<1>4. /\ \A c \in Commits : M!Commit(c) => MP!Commit(c)
      /\ \A tip : M!BackupElsewhere(tip) => MP!BackupElsewhere(tip)
      /\ \A branch : M!Push(branch) \/ M!Drop(branch) => MP!Push(branch) \/ MP!Drop(branch)
  BY DEF M!Commit, MP!Commit, M!BackupElsewhere, MP!BackupElsewhere, M!Push, MP!Push, M!Drop, MP!Drop,
         M!Happens, MP!Happens, M!Idle, MP!Idle
<1>5. UNCHANGED mVars => UNCHANGED MP!vars
  BY DEF mVars, MP!vars
<1>6. M!Next => MP!Next
  BY <1>1, <1>2, <1>3, <1>4, MirrorWorksIs DEF M!Next, MP!Next, M!Branches, MP!Branches
<1> QED BY <1>5, <1>6

\* The types.
LEMMA MirrorTypeIs == MP!TypeOK => M!TypeOK
BY DEF M!TypeOK, MP!TypeOK, M!Url, MP!Url, M!NoUrl, MP!NoUrl, M!NoRefs, MP!NoRefs, M!Branches, MP!Branches,
       M!Tip, MP!Tip, M!Steps, MP!Steps

\* What the mirror owes its runs in a step.
LEMMA MirrorServesIs ==
  MP!RefreshKeepsWork /\ MP!SeedIsFound /\ MP!SeedIsTheBackup =>
    M!RefreshKeepsWork /\ M!SeedIsFound /\ M!SeedIsTheBackup
BY DEF M!RefreshKeepsWork, MP!RefreshKeepsWork, M!SeedIsFound, MP!SeedIsFound, M!SeedIsTheBackup,
       MP!SeedIsTheBackup, M!At, MP!At, M!Reaches, MP!Reaches, M!NoUrl, MP!NoUrl, M!Branches, MP!Branches

-----------------------------------------------------------------------------
(* The three together. *)

\* What holds of the run, of the worktrees and of the mirror, whichever of them a behaviour
\* exercises.
GitInv ==
  /\ JobInv /\ FlowInv /\ PlaceTyped /\ FilesTyped /\ FlagsTyped
  /\ TreesInv /\ OneProcess /\ ConfTyped
  /\ MP!MirrorInv /\ MP!HeldTyped

\* A step of the three is a step of each, or leaves it as it is.
LEMMA EachStep ==
  ASSUME [MCNext]_<<part, vars, wVars, mVars>> PROVE [Next]_vars /\ [W!Next]_wVars /\ [M!Next]_mVars
<1>1. CASE UNCHANGED <<part, vars, wVars, mVars>>
  BY <1>1
<1>2. CASE part = "work" /\ Next /\ UNCHANGED <<part, wVars, mVars>>
  BY <1>2
<1>3. CASE part = "trees" /\ W!Next /\ UNCHANGED <<part, vars, mVars>>
  BY <1>3
<1>4. CASE part = "mirror" /\ M!Next /\ UNCHANGED <<part, vars, wVars>>
  BY <1>4
<1> QED BY <1>1, <1>2, <1>3, <1>4 DEF MCNext

\* What Mirror assumes.
LEMMA MirrorAssumed == MP!MirrorAssumption
BY MCGitAssumption DEF M!MirrorAssumption, MP!MirrorAssumption

\* GitInv holds at the start.
LEMMA GitInit == MCInit => GitInv
<1> SUFFICES ASSUME MCInit PROVE GitInv
  OBVIOUS
<1>1. Init /\ W!Init /\ M!Init
  BY DEF MCInit
<1>2. JobInv /\ FlowInv /\ PlaceTyped /\ FilesTyped /\ FlagsTyped
  BY <1>1, JobInit, FlowInit, WorkTypedInit
<1>3. TreesInv /\ OneProcess
  BY <1>1, TreesInit
<1>4. ConfTyped
  BY <1>1, Zenon DEF W!Init, ConfTyped
<1>5. MP!Init
  BY <1>1, MirrorInitIs
<1>6. MP!MirrorInv /\ MP!HeldTyped
  BY <1>5, MirrorAssumed, MP!MirrorInit, MP!HeldInit
<1> QED BY <1>2, <1>3, <1>4, <1>6 DEF GitInv

\* Every step keeps GitInv.
LEMMA GitStep == GitInv /\ [MCNext]_<<part, vars, wVars, mVars>> => GitInv'
<1> SUFFICES ASSUME GitInv, [MCNext]_<<part, vars, wVars, mVars>> PROVE GitInv'
  OBVIOUS
<1>1. [Next]_vars /\ [W!Next]_wVars /\ [M!Next]_mVars
  BY EachStep
<1>2. JobInv' /\ FlowInv' /\ PlaceTyped' /\ FilesTyped' /\ FlagsTyped'
  BY <1>1, JobStep, FlowStep, PlaceStep, FilesStep, FlagsStep DEF GitInv
<1>3. TreesInv /\ OneProcess /\ ConfTyped
  BY DEF GitInv
<1>4. TreesInv' /\ OneProcess'
  <2>1. CASE W!Next
    BY <1>3, <2>1, TreesStep
  <2>2. CASE UNCHANGED wVars
    <3>1. OneProcess'
      BY <1>3, <2>2 DEF OneProcess, W!Up, wVars
    <3> QED BY <1>3, <2>2, <3>1, TreesStill
  <2> QED BY <1>1, <2>1, <2>2
<1>5. ConfTyped'
  <2>1. conf' = conf
    BY <1>1, ConfStep
  <2> QED BY <1>3, <2>1, Zenon DEF ConfTyped
<1>6. MP!MirrorInv' /\ MP!HeldTyped'
  <2>1. [MP!Next]_MP!vars
    BY <1>1, MirrorNextIs
  <2>2. MP!MirrorInv /\ MP!HeldTyped
    BY DEF GitInv
  <2> QED BY <2>1, <2>2, MirrorAssumed, MP!MirrorStep, MP!HeldStep
<1> QED BY <1>2, <1>4, <1>5, <1>6 DEF GitInv

\* Every variable of the run, the worktrees and the mirror has its type, and a worktree on
\* disk is registered and in its run's directory, for every number of runs and repositories.
THEOREM GitTypeOKCorrect == MCSpec => []GitTypeOK
<1>1. GitInv => GitTypeOK
  <2> SUFFICES ASSUME GitInv PROVE TypeOK /\ W!TypeOK /\ M!TypeOK
    BY DEF GitTypeOK
  <2>1. TypeOK
    BY WorkTyped DEF GitInv
  <2>2. W!TypeOK
    BY TreesTypeOK DEF GitInv
  <2>3. MP!TypeOK
    BY MP!MirrorTyped DEF GitInv
  <2> QED BY <2>1, <2>2, <2>3, MirrorTypeIs
<1> QED BY <1>1, GitInit, GitStep, PTL DEF MCSpec

\* The work of a run survives the comings and goings of the others: its unpushed commits can
\* be recovered until their salvage ref expires, a run parked at a gate keeps its worktrees,
\* and no two worktrees share a branch.
THEOREM WorkSurvivesCorrect == MCSpec => []WorkSurvives
<1>1. GitInv => WorkSurvives
  BY DEF GitInv, TreesInv, WorkSurvives, W!WorkSurvives
<1> QED BY <1>1, GitInit, GitStep, PTL DEF MCSpec

\* Nobody takes a worktree from a busy run that retention has not condemned, a person's hands
\* apart, and a new worktree starts at what the remote has at that moment.
THEOREM RunsHaveTheirTreesCorrect == MCSpec => RunsHaveTheirTrees
<1> DEFINE Rule == \A r \in Runs, k \in W!Repos :
             /\ W!Busy(r) /\ r \in wTree[k] /\ r \notin wTree'[k] => W!Condemned(r) \/ wFaults' < wFaults
             /\ r \in wTree'[k] \ wTree[k] /\ seen'[k][W!Branch(r)] = NoRef
                  => heads'[k][W!Branch(r)] = merged[k]
<1>1. GitInv /\ [MCNext]_<<part, vars, wVars, mVars>> => [Rule]_W!vars
  <2> SUFFICES ASSUME GitInv, [MCNext]_<<part, vars, wVars, mVars>> PROVE Rule
    OBVIOUS
  <2>1. TreesInv /\ [W!Next]_wVars
    BY EachStep DEF GitInv
  <2>2. \A r \in Runs, k \in W!Repos : Served(r, k)
    BY <2>1, TreesServed
  <2> QED BY <2>2 DEF Served
<1> QED BY <1>1, GitInit, GitStep, PTL DEF MCSpec, RunsHaveTheirTrees, W!RunsHaveTheirTrees

\* However its making, its migration and the move of its repository are cut short, the mirror
\* keeps what runs committed, and gives a seeded run the backup there is.
THEOREM MirrorServesRunsCorrect == MCSpec => MirrorServesRuns
<1>1. GitInv /\ [MCNext]_<<part, vars, wVars, mVars>> =>
        [M!RefreshKeepsWork /\ M!SeedIsFound /\ M!SeedIsTheBackup]_M!vars
  <2> SUFFICES ASSUME GitInv, [MCNext]_<<part, vars, wVars, mVars>>
               PROVE  M!RefreshKeepsWork /\ M!SeedIsFound /\ M!SeedIsTheBackup
    OBVIOUS
  <2>1. [MP!Next]_MP!vars
    BY EachStep, MirrorNextIs
  <2>2. MP!MirrorInv
    BY DEF GitInv
  <2>3. MP!RefreshKeepsWork /\ MP!SeedIsFound /\ MP!SeedIsTheBackup
    BY <2>1, <2>2, MirrorAssumed, MP!RefreshIsSafe, MP!SeedsAreFound, MP!SeedsAreBackups
  <2> QED BY <2>3, MirrorServesIs
<1> QED BY <1>1, GitInit, GitStep, PTL DEF MCSpec, MirrorServesRuns, M!MirrorServesRuns
=============================================================================
