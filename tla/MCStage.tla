------------------------------- MODULE MCStage ------------------------------
(***************************************************************************)
(* A stage and what is done in its worktree, in one run: StageRun, the     *)
(* life of one stage; Commands, the set-up and check commands of a run's   *)
(* stages; Browse, the look at the worktree from outside.  StageRun takes  *)
(* commands at the level of their outcome, so the three share no variable: *)
(* `part` says which of them a behaviour exercises, and the others keep    *)
(* still in one of their initial states.                                   *)
(***************************************************************************)
EXTENDS StageRun, Sequences

CONSTANTS NumRepos, Scripts, NumChecks, MaxStages,   \* Commands
          Asked, MaxEdits                            \* Browse

VARIABLES
  part,
  \* Commands
  stages, wanted, kind, cmdPhase, k, leader, child, expired, cmdCancelled, verdicts, cmdResult,
  marker, installed,
  \* Browse
  run, files, edits, request, brPhase, found, reply, quiet

C == INSTANCE Commands
       WITH phase <- cmdPhase, cancelled <- cmdCancelled, result <- cmdResult

B == INSTANCE Browse WITH conf <- run, phase <- brPhase

ASSUME StageSuiteAssumption == C!CommandsAssumption /\ B!BrowseAssumption

cVars == <<stages, wanted, kind, cmdPhase, k, leader, child, expired, cmdCancelled, verdicts,
           cmdResult, marker, installed>>
bVars == <<run, files, edits, request, brPhase, found, reply, quiet>>
mcVars == <<part, vars, cVars, bVars>>

MCInit ==
  /\ part \in {"stage", "commands", "browse"}
  /\ Init /\ (part # "stage" => conf = [runtime |-> "mock", interactive |-> FALSE, gate |-> FALSE,
                                        timeout |-> FALSE, mcp |-> FALSE, hooks |-> FALSE,
                                        cap |-> CHOOSE cap \in Caps : TRUE])
  /\ C!Init /\ (part # "commands" => /\ wanted = [r \in C!Repos |-> CHOOSE s \in Scripts : TRUE]
                                     /\ kind = [c \in C!Checks |-> "command"])
  /\ B!Init /\ (part # "browse" => /\ run = [nested |-> FALSE, held |-> FALSE]
                                   /\ files = [f \in B!Mutable |-> "absent"])

StageMoves(A)   == part = "stage" /\ A /\ UNCHANGED <<part, cVars, bVars>>
CommandMoves(A) == part = "commands" /\ A /\ UNCHANGED <<part, vars, bVars>>
BrowseMoves(A)  == part = "browse" /\ A /\ UNCHANGED <<part, vars, cVars>>

MCNext == StageMoves(Next) \/ CommandMoves(C!Next) \/ BrowseMoves(B!Next)

\* The fairness of the modules, each in the behaviours of its part.
MCFairness ==
  /\ WF_mcVars(StageMoves(KillFires)) /\ WF_mcVars(StageMoves(StallFires))
  /\ WF_mcVars(StageMoves(OpenSession \/ OpenThrows)) /\ WF_mcVars(StageMoves(Stopped))
  /\ WF_mcVars(StageMoves(After))
  /\ WF_mcVars(CommandMoves(C!Progress)) /\ WF_mcVars(CommandMoves(C!TimesOut))

MCSpec == MCInit /\ [][MCNext]_mcVars /\ MCFairness

-----------------------------------------------------------------------------
\* The paths asked for in the run: the root, names in the run's directory and in its
\* worktree, links, and ways out of it.
MCAsked ==
  {<<>>, <<"..">>, <<"repo">>, <<"in">>, <<"out">>, <<"note">>,
   <<"repo", "in">>, <<"repo", "out">>, <<"repo", "note">>, <<"repo", "broken">>,
   <<"out", "secret">>, <<"..", "other">>, <<"..", "run", "src", "code">>,
   <<"repo", "in", "..", "note">>}

-----------------------------------------------------------------------------
(***************************************************************************)
(* The properties of the modules; each is stated and explained where it is *)
(* defined.                                                                *)
(***************************************************************************)

\* Every variable of the three has its type.
SuiteTypeOK == TypeOK /\ C!TypeOK /\ B!TypeOK

\* A stage gets the verdict it earned: it is ok only if it was neither killed nor silent, kept
\* its policies, and every declared check ran and passed (StageRun, Commands); and the watchdog
\* takes no tool call at work for silence.
VerdictsAreEarned ==
  /\ OkIsEarned /\ CapHolds /\ WatchdogFollowsTools
  /\ C!VerdictIsEarned /\ C!EveryCheckAnswers

\* Nothing works in a worktree before its set-up ran to a zero exit, and nothing a command
\* put in the background outlives it (Commands).
CommandsInOrder == C!InstalledBeforeUse /\ C!NothingOutlives

\* What a look at the worktree is answered is what is there, and inside (Browse).
RepliesAreRight == B!StaysInTheRun /\ B!ListedIsServed /\ B!RefusalIsTrue

\* A stage ends: a kill that found a session, or the agent's silence, settles it, the verdict
\* is returned (StageRun), and its commands end (Commands).
StagesReturn == ReachedKillEndsStage /\ SilenceEndsStage /\ VerdictIsReturned /\ C!CommandsEnd
=============================================================================
