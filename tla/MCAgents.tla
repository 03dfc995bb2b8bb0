------------------------------ MODULE MCAgents ------------------------------
(***************************************************************************)
(* How a stage talks with its agent, in one run: TurnLoop, the turns of a  *)
(* stage; ClaudeSession and PiSession, the agents' processes and the       *)
(* adapters that drive them.  TurnLoop takes the adapters at the level of  *)
(* their prompts, so the three share no variable: `part` says which of     *)
(* them a behaviour exercises, and the others keep still in one of their   *)
(* initial states.                                                         *)
(***************************************************************************)
EXTENDS TurnLoop

\* PiSession's constants; MaxPiAsks stands for its MaxAsks.
CONSTANTS
  Calls, Denied, Ceiling, MaxPrompts, MaxLines, MaxPiAsks, Models, Provider, Family, NoModel,
  m1, m2, m3   \* the models of the runs

VARIABLES
  part,
  \* PiSession
  conf, choice, piPc, turn, recap, gate, piCancelled, cancelling, opened, disposed, pending, got,
  agentEnd, heard, lastCost, turnsUsed, asking, dir, stdin, stdout, agent, current, spent, ran,
  piAsks,
  \* ClaudeSession
  interactive, credential, ccPc, active, established, summarising, fired, ccEnded, draining,
  ccCancelling, target, cli, result, ccRan

P == INSTANCE PiSession
       WITH MaxAsks <- MaxPiAsks, pc <- piPc, cancelled <- piCancelled, asks <- piAsks

C == INSTANCE ClaudeSession
       WITH pc <- ccPc, ended <- ccEnded, cancelling <- ccCancelling, ran <- ccRan

ASSUME AgentsAssumption == P!PiSessionAssumption

\* Two providers, two families: m2 is of another provider than its kin m1, and m3 of no family
\* of theirs.
MCProvider == [m \in {m1, m2, m3} |-> IF m = m1 THEN "x" ELSE "y"]
MCFamily   == [m \in {m1, m2, m3} |-> IF m = m3 THEN "g" ELSE "f"]

pVars == <<conf, choice, piPc, turn, recap, gate, piCancelled, cancelling, opened, disposed,
           pending, got, agentEnd, heard, lastCost, turnsUsed, asking, dir, stdin, stdout, agent,
           current, spent, ran, piAsks>>
cVars == <<interactive, credential, ccPc, active, established, summarising, fired, ccEnded,
           draining, ccCancelling, target, cli, result, ccRan>>
mcVars == <<part, vars, pVars, cVars>>

MCInit ==
  /\ part \in {"turns", "pi", "claude"}
  /\ Init /\ (part # "turns" => runtime = "pi")
  /\ P!Init /\ (part # "pi" => conf = [container |-> FALSE, interactive |-> FALSE])
  /\ C!Init /\ (part # "claude" => credential = "none" /\ ~interactive)

TurnMoves(A)   == part = "turns" /\ A /\ UNCHANGED <<part, pVars, cVars>>
PiMoves(A)     == part = "pi" /\ A /\ UNCHANGED <<part, vars, cVars>>
ClaudeMoves(A) == part = "claude" /\ A /\ UNCHANGED <<part, vars, pVars>>

MCNext == TurnMoves(Next) \/ PiMoves(P!Next) \/ ClaudeMoves(C!Next)

\* The fairness of the modules, each in the behaviours of its part.
MCFairness ==
  /\ WF_mcVars(TurnMoves(Dispatch)) /\ WF_mcVars(TurnMoves(DispatchEnd))
  /\ WF_mcVars(TurnMoves(SettleQuestion)) /\ WF_mcVars(TurnMoves(TurnEnds))
  /\ WF_mcVars(TurnMoves(Loop))
  /\ WF_mcVars(PiMoves(P!Coroutines \/ P!Converse \/ P!Summarise))
  /\ WF_mcVars(PiMoves(P!OnLine))
  /\ WF_mcVars(PiMoves(P!Reads)) /\ WF_mcVars(PiMoves(P!EndsTurn))
  /\ WF_mcVars(ClaudeMoves(C!Open)) /\ WF_mcVars(ClaudeMoves(C!Summarise))
  /\ WF_mcVars(ClaudeMoves(C!Reading)) /\ WF_mcVars(ClaudeMoves(C!InterruptAnswered))
  /\ WF_mcVars(ClaudeMoves(C!Abort)) /\ WF_mcVars(ClaudeMoves(C!Exits))

MCSpec == MCInit /\ [][MCNext]_mcVars /\ MCFairness

-----------------------------------------------------------------------------
(***************************************************************************)
(* The properties of the modules; each is stated and explained where it is *)
(* defined.                                                                *)
(***************************************************************************)

\* Every variable of the three has its type.
AgentsTypeOK == TypeOK /\ P!TypeOK /\ C!TypeOK

\* No turn and no stage is settled by something else than its own outcome: not by a cancel or
\* the end of the conversation that overtook a refusal (TurnLoop), not by the end of another
\* prompt (PiSession).
SettledRightly == RefusalNeverOk /\ PiCancelledWaitFails /\ P!TurnIsSettled

\* The agent of either adapter runs on a model it can authenticate to, does nothing that was
\* denied, and leaves no process and no credentials behind for the next (PiSession,
\* ClaudeSession).
AgentsBehave ==
  /\ P!ModelCanRun /\ P!DeniedNeverRuns /\ P!NothingLeftBehind
  /\ C!RecapRunsNothing /\ C!DeniedNeverRuns /\ C!OneAgentAtATime

\* Stages end: the loop settles whatever the human and the hub do, a cancel ends the stage
\* wherever it finds it, a turn ends, and a conversation takes its process with it.
StagesEnd ==
  /\ part = "turns" => StageSettles
  /\ P!TurnsEnd /\ P!CancelEndsStage
  /\ C!NothingLeftBehind /\ C!CancelEndsStage
=============================================================================
