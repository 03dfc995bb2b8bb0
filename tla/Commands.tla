------------------------------- MODULE Commands -------------------------------
(***************************************************************************)
(* The commands a repository declares and the node runs itself: the setup  *)
(* of each of a run's worktrees (executor-worktree/src/repo-setup.ts) and  *)
(* the checks of a check stage (check-runner.ts), each a shell that leads a*)
(* process group of its own (process-group.ts) and may leave something     *)
(* running in the background.                                              *)
(***************************************************************************)
EXTENDS Naturals, Sequences, SequencesExt

CONSTANTS
  NumRepos,   \* the run's repositories, numbered in the order of their setup
  Scripts,    \* setup commands a repository may declare, from stage to stage
  NumChecks,  \* the checks of a stage
  MaxStages   \* bound: stages of the run

CommandsAssumption ==
  NumRepos \in Nat \ {0} /\ NumChecks \in Nat /\ MaxStages \in Nat /\ "none" \notin Scripts

Repos  == 1..NumRepos
Checks == 1..NumChecks

VARIABLES
  stages, wanted, kind,        \* the stage's number, its setup commands, its checks' kinds
  phase, k,                    \* "between" stages, in "setup" or "check", and of which
  leader, child,               \* the shell in flight and what it backgrounded
  expired, cancelled,          \* the timer of the command; the runner's flag
  verdicts, result,            \* per check so far; the stage's status
  marker,                      \* per repository, the command its sentinel records
  installed                    \* history: per repository, the commands that ended with zero

job      == <<stages, wanted, kind>>
group    == <<leader, child, expired>>
verdict  == <<verdicts, result>>
tree     == <<marker, installed>>
vars     == <<job, phase, k, group, cancelled, verdict, tree>>

Kinds == {"command", "probe", "unknown probe"}

TypeOK ==
  /\ stages \in 0..MaxStages /\ wanted \in [Repos -> Scripts] /\ kind \in [Checks -> Kinds]
  /\ phase \in {"between", "setup", "check"} /\ k \in 1..NumRepos + NumChecks + 1
  /\ leader \in {"none", "running", "zero", "nonzero", "killed"}
  /\ child \in {"none", "quiet", "holding"} /\ expired \in BOOLEAN /\ cancelled \in BOOLEAN
  /\ verdicts \in Seq({"passed", "failed", "skipped"})
  /\ phase = "check" => k = Len(verdicts) + 1
  /\ result \in {"none", "ok", "fail", "timeout", "setup-failed"}
  /\ marker \in [Repos -> Scripts \cup {"none"}] /\ installed \in [Repos -> SUBSET Scripts]

Init ==
  /\ stages = 0 /\ wanted \in [Repos -> Scripts] /\ kind \in [Checks -> Kinds]
  /\ phase = "between" /\ k = 1 /\ leader = "none" /\ child = "none" /\ expired = FALSE
  /\ cancelled = FALSE /\ verdicts = <<>> /\ result = "none"
  /\ marker = [r \in Repos |-> "none"] /\ installed = [r \in Repos |-> {}]

-----------------------------------------------------------------------------
\* The process group.  Definitions named <Definition>_<Mistake> are mutants: plausible
\* mistakes in the code, in no action of the model, that the properties are tried against.

Ended == leader \in {"zero", "nonzero", "killed"}

\* spawn, detached.
Spawn == leader = "none" /\ leader' = "running" /\ expired' = FALSE /\ UNCHANGED child

KillProcessGroup_LeaderOnly ==
  leader' = (IF leader = "running" THEN "killed" ELSE leader) /\ UNCHANGED child

\* killProcessGroup reaches what outlived its leader, too.
KillProcessGroup ==
  leader' = (IF leader = "running" THEN "killed" ELSE leader) /\ child' = "none"

Settle_TrustsCleanExit ==
  leader' = "none" /\ (IF leader = "zero" THEN UNCHANGED child ELSE child' = "none")

\* settle: the group is reaped on every exit.
Settle == leader' = "none" /\ child' = "none"

\* `close` comes when the shell has ended and nobody holds its output any more.
Closed == Ended /\ child # "holding"

\* The command puts something in the background, with an output of its own or not.
Backgrounds ==
  /\ leader = "running" /\ child = "none" /\ child' \in {"quiet", "holding"}
  /\ UNCHANGED <<job, phase, k, leader, expired, cancelled, verdict, tree>>

Exits ==
  /\ leader = "running" /\ leader' \in {"zero", "nonzero"}
  /\ UNCHANGED <<job, phase, k, child, expired, cancelled, verdict, tree>>

TimesOut ==
  /\ leader # "none" /\ ~expired /\ expired' = TRUE /\ KillProcessGroup
  /\ UNCHANGED <<job, phase, k, cancelled, verdict, tree>>

-----------------------------------------------------------------------------
\* A stage begins; its repositories' commands may be others than the stage's before.
Begin ==
  /\ phase = "between" /\ stages < MaxStages /\ stages' = stages + 1
  /\ wanted' \in [Repos -> Scripts] /\ kind' \in [Checks -> Kinds]
  /\ phase' = "setup" /\ k' = 1 /\ cancelled' = FALSE /\ verdicts' = <<>> /\ result' = "none"
  /\ UNCHANGED <<group, tree>>

NextRepo_KeepsIndex ==
  IF k + 1 \in Repos THEN phase' = "setup" /\ k' = k + 1 ELSE phase' = "check" /\ UNCHANGED k

\* On to the next repository, or to the first check.
NextRepo == IF k + 1 \in Repos THEN phase' = "setup" /\ k' = k + 1 ELSE phase' = "check" /\ k' = 1

MarkerOf_Shared(r) == 1

\* The sentinel lies in the scratch directory the run's repositories share, under its name.
MarkerOf(r) == r

Cached ==
  /\ phase = "setup" /\ leader = "none" /\ marker[MarkerOf(k)] = wanted[k] /\ NextRepo
  /\ UNCHANGED <<job, group, cancelled, verdict, tree>>

RunSetup ==
  /\ phase = "setup" /\ marker[MarkerOf(k)] # wanted[k] /\ Spawn
  /\ UNCHANGED <<job, phase, k, cancelled, verdict, tree>>

Fail == phase' = "between" /\ result' = "setup-failed" /\ UNCHANGED <<k, verdicts>>

\* The shell cannot be started.
SetupNotRun ==
  /\ phase = "setup" /\ leader = "none" /\ marker[MarkerOf(k)] # wanted[k] /\ Fail
  /\ UNCHANGED <<job, group, cancelled, tree>>

\* Only a zero exit leaves a sentinel; a failure ends the stage.
SetupEnds ==
  /\ phase = "setup" /\ Closed /\ Settle
  /\ IF leader = "zero"
     THEN /\ marker' = [marker EXCEPT ![MarkerOf(k)] = wanted[k]]
          /\ installed' = [installed EXCEPT ![k] = @ \cup {wanted[k]}]
          /\ NextRepo /\ UNCHANGED verdict
     ELSE Fail /\ UNCHANGED tree
  /\ UNCHANGED <<job, expired, cancelled>>

-----------------------------------------------------------------------------
\* runBatch of the check runner.

Recorded(status) == verdicts' = Append(verdicts, status) /\ k' = k + 1

SkipCheck ==
  /\ phase = "check" /\ k \in Checks /\ leader = "none" /\ cancelled /\ Recorded("skipped")
  /\ UNCHANGED <<job, phase, group, cancelled, result, tree>>

RunCheck ==
  /\ phase = "check" /\ k \in Checks /\ kind[k] = "command" /\ ~cancelled /\ Spawn
  /\ UNCHANGED <<job, phase, k, cancelled, verdict, tree>>

\* A probe answers or throws, one the node does not know fails; so does a shell that cannot
\* be started.  A cancel does not interrupt a probe.
RunProbe ==
  /\ phase = "check" /\ k \in Checks /\ leader = "none" /\ ~cancelled
  /\ \E status \in IF kind[k] = "probe" THEN {"passed", "failed"} ELSE {"failed"} :
       Recorded(status)
  /\ cancelled' \in IF kind[k] = "probe" THEN BOOLEAN ELSE {FALSE}
  /\ UNCHANGED <<job, phase, group, result, tree>>

CheckEnds ==
  /\ phase = "check" /\ Closed /\ Settle
  /\ Recorded(IF leader = "zero" THEN "passed" ELSE "failed")
  /\ UNCHANGED <<job, phase, expired, cancelled, result, tree>>

Failed == "failed" \in ToSet(verdicts)

Status_CancelAside == IF Failed THEN "fail" ELSE "ok"

Status == IF cancelled THEN "timeout" ELSE IF Failed THEN "fail" ELSE "ok"

MoreChecks_FailFast == k \in Checks /\ ~Failed

\* All of them run, also after one failed.
MoreChecks == k \in Checks

Finish ==
  /\ phase = "check" /\ leader = "none" /\ ~MoreChecks
  /\ phase' = "between" /\ result' = Status
  /\ UNCHANGED <<job, k, group, cancelled, verdicts, tree>>

\* cancel: by the wall clock or the hub; it takes the command in flight down.
Cancel ==
  /\ phase = "check" /\ ~cancelled /\ cancelled' = TRUE
  /\ IF leader = "none" THEN UNCHANGED <<leader, child>> ELSE KillProcessGroup
  /\ UNCHANGED <<job, phase, k, expired, verdict, tree>>

\* The node dies: the stage is over, the group is nobody's any more.
Crash ==
  /\ phase # "between" /\ phase' = "between" /\ result' = "none"
  /\ leader' = "none" /\ child' = "none"
  /\ UNCHANGED <<job, k, expired, cancelled, verdicts, tree>>

Progress ==
  \/ Cached \/ RunSetup \/ SetupNotRun \/ SetupEnds
  \/ SkipCheck \/ RunCheck \/ RunProbe \/ CheckEnds \/ Finish

Next == Begin \/ Progress \/ TimesOut \/ Cancel \/ Crash \/ Backgrounds \/ Exits

Spec == Init /\ [][Next]_vars

\* Timers fire and probes answer (each has a bound of its own); a command need never end, nor
\* what it backgrounded.
Fairness == WF_vars(Progress) /\ WF_vars(TimesOut)

LiveSpec == Spec /\ Fairness

-----------------------------------------------------------------------------
(***************************************************************************)
(* Properties.                                                             *)
(***************************************************************************)

\* Neither the agent nor a check sees a worktree whose own setup command has not run to a
\* zero exit in that worktree: whatever sentinels other repositories, other commands, failed
\* attempts and crashes left in the shared directory.
InstalledBeforeUse ==
  phase = "check" => \A r \in Repos : wanted[r] \in installed[r]

\* What a command put in the background does not outlive it, on a clean exit either.
NothingOutlives == leader = "none" => child = "none"

\* A stage is ok only if every declared check ran and passed, also if a cancel overtook it.
VerdictIsEarned ==
  result = "ok" => verdicts = [c \in Checks |-> "passed"]

\* One verdict per declared check; without a cancel none is skipped, whatever failed.
EveryCheckAnswers ==
  result \in {"ok", "fail", "timeout"} =>
    Len(verdicts) = NumChecks /\ ("skipped" \in ToSet(verdicts) => cancelled)

\* A stage's commands end, though what one backgrounded holds its output open for ever.
CommandsEnd == phase # "between" ~> phase = "between"
=============================================================================
