---------------------------- MODULE ClaudeSession ----------------------------
(***************************************************************************)
(* One stage on the Claude runtime (executor-worktree/src/claude-adapter.  *)
(* ts): the CLI processes the adapter starts through the SDK's query(),    *)
(* what their tool calls are allowed, and how turns, the summary, a cancel *)
(* and the disposal end them.  A batch stage has a one-shot process for    *)
(* its turn and another that resumes it for the summary; an interactive    *)
(* stage keeps one process and pushes prompts to it.                       *)
(***************************************************************************)
EXTENDS Naturals

\* A process stands at a prompt ("turn", "recap"), waits for one ("idle"), has a broken
\* stream ("broken": the iterator throws, the process is still there), or is dead: of itself
\* ("gone": the iterator ends) or aborted ("killed": it throws).
Sessions == {"stage", "summary"}
Working  == {"turn", "recap"}

\* What the agent may call: a tool the stage's policy allows or denies, the stage-complete
\* tool, the question tool.  The SDK approves the last two unasked (allowedTools).
Tools        == {"allowed", "denied", "complete", "ask"}
AutoApproved == {"complete", "ask"}

VARIABLES
  interactive, credential,   \* the job
  pc,
  active, established, summarising, fired,  \* active, sessionId, summarising, stageTool.fired
  ended, draining,           \* the mailbox; the detached drain of dispose
  cancelling, target,        \* cancel(): where it is, and the session it interrupts
  cli, result,               \* the processes; a result message not yet read
  ran                        \* history: what ran, under which prompt

job     == <<interactive, credential>>
closure == <<active, established, summarising, fired, ended, draining>>
cancel  == <<cancelling, target>>
vars    == <<job, pc, closure, cancel, cli, result, ran>>

TypeOK ==
  /\ interactive \in BOOLEAN /\ credential \in {"key", "login", "foreign", "none"}
  /\ pc \in {"idle", "turn", "wait", "recap", "stopping", "between", "summary", "done"}
  /\ active \in Sessions \cup {"none"} /\ target \in Sessions \cup {"none"}
  /\ established \in BOOLEAN /\ summarising \in BOOLEAN /\ fired \in BOOLEAN
  /\ ended \in BOOLEAN /\ draining \in BOOLEAN
  /\ cancelling \in {"no", "asked", "answered", "aborted"}
  /\ cli \in [Sessions -> Working \cup {"none", "idle", "broken", "gone", "killed"}]
  /\ result \in [Sessions -> {"none", "ok", "fail"}]
  /\ ran \subseteq Working \X Tools
  /\ interactive => cli["summary"] = "none"

Init ==
  /\ interactive \in BOOLEAN /\ credential \in {"key", "login", "foreign", "none"}
  /\ pc = "idle" /\ active = "none" /\ established = FALSE /\ summarising = FALSE
  /\ fired = FALSE /\ ended = FALSE /\ draining = FALSE
  /\ cancelling = "no" /\ target = "none"
  /\ cli = [s \in Sessions |-> "none"] /\ result = [s \in Sessions |-> "none"] /\ ran = {}

Cancelled == cancelling # "no"
Aborted   == cancelling = "aborted"

-----------------------------------------------------------------------------
\* The runner.  Definitions named <Definition>_<Mistake> are mutants: plausible mistakes in
\* the code, in no action of the model, that the properties are tried against.

\* runtimeAuthEnv throws when all that is brokered is another provider's subscription.
RuntimeAuthEnv == credential # "foreign"

\* createSession; a process of an aborted controller never gets going.
CreateSession(s, prompt) ==
  /\ cli' = [cli EXCEPT ![s] = IF Aborted THEN "killed" ELSE prompt]
  /\ active' = s

\* runBatch, and runInteractive up to its opening prompt.
Open ==
  /\ pc = "idle"
  /\ \/ ~RuntimeAuthEnv /\ pc' = "done" /\ UNCHANGED <<cli, active>>
     \/ RuntimeAuthEnv /\ pc' = "turn" /\ CreateSession("stage", "turn")
  /\ UNCHANGED <<job, established, summarising, fired, ended, draining, cancel, result, ran>>

CloseActive_Forgets == active' = "none" /\ UNCHANGED cli

CloseActive ==
  /\ cli' = IF active = "none" THEN cli ELSE [cli EXCEPT ![active] = "gone"]
  /\ active' = "none"

\* sendTurn of a batch stage has read its stream to the end; one without a result is ok too.
BatchEnds ==
  /\ pc = "turn" /\ ~interactive /\ cli["stage"] \in {"gone", "broken", "killed"}
  /\ CloseActive
  /\ pc' = IF cli["stage"] = "gone" /\ result["stage"] # "fail" /\ ~Cancelled
           THEN "between" ELSE "done"
  /\ established' = (established \/ result["stage"] # "none")
  /\ UNCHANGED <<job, summarising, fired, ended, draining, cancel, result, ran>>

\* summarise, unless the stage runner found the stage not to be ok.
Summarise ==
  /\ pc = "between"
  /\ \/ pc' = "done" /\ UNCHANGED <<cli, active>>
     \/ established /\ pc' = "summary" /\ CreateSession("summary", "recap")
  /\ UNCHANGED <<job, established, summarising, fired, ended, draining, cancel, result, ran>>

SummaryEnds ==
  /\ pc = "summary" /\ cli["summary"] \in {"gone", "broken", "killed"}
  /\ CloseActive /\ pc' = "done"
  /\ UNCHANGED <<job, established, summarising, fired, ended, draining, cancel, result, ran>>

Dispose_KeepsMailbox == draining' = TRUE /\ UNCHANGED ended

\* dispose: the drain is detached, the mailbox ends at once.
Dispose == draining' = TRUE /\ ended' = TRUE

\* push: a process that waits takes the prompt.
Push(prompt) ==
  cli' = [cli EXCEPT !["stage"] = IF @ = "idle" THEN prompt ELSE @]

Recap_FlagDown == pc' = "recap" /\ Push("recap") /\ UNCHANGED <<summarising, ended, draining>>

Recap_OneShot ==
  /\ pc' = "recap" /\ cli' = [cli EXCEPT !["summary"] = "recap"]
  /\ summarising' = TRUE /\ UNCHANGED <<ended, draining>>

\* summariseTurn, up to its prompt.
Recap == pc' = "recap" /\ Push("recap") /\ summarising' = TRUE /\ UNCHANGED <<ended, draining>>

Settle == pc' = "done" /\ Dispose /\ UNCHANGED <<cli, summarising>>

\* The next message, read in consumeInteractiveTurn: a result, or the end of the stream.
Settled == result["stage"] # "none" \/ cli["stage"] = "gone"
Thrown  == result["stage"] = "none" /\ cli["stage"] \in {"broken", "killed"}

\* A turn of an interactive stage settles: on to the human, or the stage is complete.
TurnSettles ==
  /\ pc = "turn" /\ interactive /\ Settled
  /\ \/ pc' = "wait" /\ UNCHANGED <<cli, summarising, ended, draining>>
     \/ fired /\ Settle
  /\ established' = (established \/ result["stage"] # "none")
  /\ result' = [result EXCEPT !["stage"] = "none"]
  /\ UNCHANGED <<job, active, fired, cancel, ran>>

\* It throws: a cancel, an error the agent is not answerable for, any other (the gate).
TurnThrows ==
  /\ pc = "turn" /\ interactive /\ Thrown
  /\ IF Cancelled THEN Settle ELSE Settle \/ Recap
  /\ UNCHANGED <<job, active, established, fired, cancel, result, ran>>

HumanTurn ==
  /\ pc = "wait" /\ ~Aborted /\ pc' = "turn" /\ Push("turn")
  /\ UNCHANGED <<job, closure, cancel, result, ran>>

Gate ==
  /\ pc = "wait" /\ ~Aborted /\ Recap
  /\ UNCHANGED <<job, active, established, fired, cancel, result, ran>>

RecapEnds ==
  /\ pc = "recap" /\ (Settled \/ Thrown)
  /\ pc' = "done" /\ Dispose /\ summarising' = FALSE
  /\ result' = [result EXCEPT !["stage"] = "none"]
  /\ UNCHANGED <<job, active, established, fired, cancel, cli, ran>>

CancelledExit ==
  /\ pc = "wait" /\ Aborted /\ Settle
  /\ UNCHANGED <<job, active, established, fired, cancel, result, ran>>

StartCancel == cancelling' = "asked" /\ target' = active

\* The human's time is over: the loop awaits a cancel of its own; a second cancel returns.
IdleExit ==
  /\ pc = "wait" /\ ~Aborted
  /\ \/ ~Cancelled /\ StartCancel /\ pc' = "stopping" /\ UNCHANGED <<ended, draining>>
     \/ Cancelled /\ pc' = "done" /\ Dispose /\ UNCHANGED cancel
  /\ UNCHANGED <<job, active, established, summarising, fired, cli, result, ran>>

Stopped ==
  /\ pc = "stopping" /\ Aborted /\ Settle
  /\ UNCHANGED <<job, active, established, fired, cancel, result, ran>>

\* The drain has read to the end.
Drained ==
  /\ draining /\ cli["stage"] \in {"gone", "broken", "killed"}
  /\ CloseActive /\ draining' = FALSE
  /\ UNCHANGED <<job, pc, established, summarising, fired, ended, cancel, result, ran>>

-----------------------------------------------------------------------------
\* cancel, by the stage runner, at any time.
Cancel ==
  /\ ~Cancelled /\ StartCancel
  /\ UNCHANGED <<job, pc, closure, cli, result, ran>>

\* The interrupt is answered: a stream ends its turn and goes on, a one-shot process ends or
\* refuses; a dead process rejects.
InterruptAnswered ==
  /\ cancelling = "asked" /\ target # "none" /\ cancelling' = "answered"
  /\ \/ UNCHANGED <<cli, result>>
     \/ /\ cli[target] \in Working
        /\ cli' = [cli EXCEPT ![target] = IF interactive THEN "idle" ELSE "gone"]
        /\ result' = [result EXCEPT ![target] = "fail"]
  /\ UNCHANGED <<job, pc, closure, target, ran>>

Abort_Never == FALSE /\ UNCHANGED vars

\* The abort signal kills what the SDK runs.
Abort ==
  /\ cancelling = "answered" \/ (cancelling = "asked" /\ target = "none")
  /\ cancelling' = "aborted"
  /\ cli' = [s \in Sessions |-> IF cli[s] \in {"none", "gone"} THEN cli[s] ELSE "killed"]
  /\ UNCHANGED <<job, pc, closure, target, result, ran>>

-----------------------------------------------------------------------------
\* The CLI processes.

Message(s) ==
  /\ cli[s] \in Working /\ established' = TRUE
  /\ UNCHANGED <<job, pc, active, summarising, fired, ended, draining, cancel, cli, result, ran>>

Permitted_UngatedBatch(s, tool) ==
  IF interactive THEN tool \in AutoApproved \/ (~summarising /\ tool = "allowed")
  ELSE s = "stage"

\* canUseTool, as each session's options wire it: policyCanUseTool in a batch turn,
\* interactiveCanUseTool in a conversation, a plain no in the summary.
Permitted(s, tool) ==
  IF interactive THEN tool \in AutoApproved \/ (~summarising /\ tool = "allowed")
  ELSE s = "stage" /\ tool = "allowed"

ToolCall(s) ==
  /\ cli[s] \in Working
  /\ \E tool \in IF interactive THEN Tools ELSE Tools \ AutoApproved :
       /\ Permitted(s, tool) /\ ran' = ran \cup {<<cli[s], tool>>}
       /\ fired' = (fired \/ tool = "complete")
  /\ UNCHANGED <<job, pc, active, established, summarising, ended, draining, cancel, cli, result>>

\* A prompt is done: a one-shot process ends, a streaming one waits for the next.
PromptDone(s) ==
  /\ cli[s] \in Working
  /\ cli' = [cli EXCEPT ![s] = IF interactive THEN "idle" ELSE "gone"]
  /\ \E status \in {"ok", "fail"} : result' = [result EXCEPT ![s] = status]
  /\ UNCHANGED <<job, pc, closure, cancel, ran>>

Breaks(s) ==
  /\ cli[s] \in Working \cup {"idle"}
  /\ \E how \in {"broken", "gone"} : cli' = [cli EXCEPT ![s] = how]
  /\ UNCHANGED <<job, pc, closure, cancel, result, ran>>

\* Its input is over and its work done.
Exits ==
  /\ cli["stage"] = "idle" /\ ended /\ cli' = [cli EXCEPT !["stage"] = "gone"]
  /\ UNCHANGED <<job, pc, closure, cancel, result, ran>>

-----------------------------------------------------------------------------
Reading ==
  \/ BatchEnds \/ SummaryEnds \/ TurnSettles \/ TurnThrows \/ RecapEnds
  \/ CancelledExit \/ Stopped \/ Drained

Process(s) == Message(s) \/ ToolCall(s) \/ PromptDone(s) \/ Breaks(s)

Next ==
  \/ Open \/ Summarise \/ HumanTurn \/ Gate \/ IdleExit \/ Reading
  \/ Cancel \/ InterruptAnswered \/ Abort
  \/ (\E s \in Sessions : Process(s)) \/ Exits

Spec == Init /\ [][Next]_vars

\* The event loop runs; the CLI answers an interrupt and ends with its input.  Nothing says
\* that a prompt ends, or that the human answers.
Fairness ==
  /\ WF_vars(Open) /\ WF_vars(Summarise) /\ WF_vars(Reading)
  /\ WF_vars(InterruptAnswered) /\ WF_vars(Abort) /\ WF_vars(Exits)

LiveSpec == Spec /\ Fairness

-----------------------------------------------------------------------------
(***************************************************************************)
(* Properties.                                                             *)
(***************************************************************************)

Dead(s) == cli[s] \in {"none", "gone", "killed"}

\* The summary recaps what was done and does nothing: no tool but those the SDK approves
\* unasked runs under its prompt, in either form of stage, whatever was cancelled or broke
\* before.
RecapRunsNothing == \A tool \in Tools \ AutoApproved : <<"recap", tool>> \notin ran

\* A tool the policy denies runs under no prompt of either form (enforcesPreExecution).
DeniedNeverRuns == \A prompt \in Working : <<prompt, "denied">> \notin ran

\* Two agents never work in the same worktree: the turn's process is dead before the summary
\* begins, also one whose stream broke; and a batch stage leaves nobody there.
OneAgentAtATime ==
  /\ pc \in {"between", "summary"} => Dead("stage")
  /\ pc = "done" /\ ~interactive => Dead("stage") /\ Dead("summary")

\* A conversation that is over takes its process with it, although nobody waits for it.
NothingLeftBehind == pc = "done" ~> \A s \in Sessions : Dead(s)

\* A cancelled stage ends, whatever its agent and its human do, as long as the CLI answers
\* the interrupt that cancel() awaits before it aborts.
CancelEndsStage == Cancelled ~> pc = "done"
=============================================================================
