------------------------------ MODULE PiSession ------------------------------
(***************************************************************************)
(* One stage on Pi: the runner and its session (executor-worktree/src/     *)
(* pi-adapter.ts, createPiRunner), the two ways to create one (embedded in *)
(* the node, or `pi --mode rpc` in a container, pi-container.ts), and the  *)
(* RPC client between the node and the agent process (pi-rpc-client.ts).   *)
(* The loops that decide when a turn is sent are TurnLoop and StageRun.    *)
(*                                                                         *)
(* The agent is external, modelled by the protocol its client expects.  An *)
(* embedded session is the SDK's: its calls are taken to behave as those of*)
(* the RPC session, whose pipes are then in-process calls.                 *)
(***************************************************************************)
EXTENDS Naturals, Sequences

CONSTANTS
  Calls, Denied,        \* the tool calls the agent may ask for; those the policies deny
  Ceiling,              \* DAHRK_MAX_TURNS
  MaxPrompts, MaxLines, MaxAsks, \* bounds: prompts of the stage; lines the agent writes
                        \* ahead; permissions and questions it asks for
  Models, Provider, Family,  \* model ids, and the provider and family of each
  NoModel

PiSessionAssumption ==
  /\ Denied \subseteq Calls /\ Ceiling \in Nat \ {0} /\ MaxPrompts \in Nat \ {0}
  /\ MaxLines \in Nat \ {0} /\ MaxAsks \in Nat /\ NoModel \notin Models
  /\ DOMAIN Provider = Models /\ DOMAIN Family = Models

VARIABLES
  conf,        \* container or embedded; interactive or batch
  choice,      \* while the session is created: models asked for, authenticated, chosen
  pc,          \* where the runner is suspended
  turn, recap, \* the number of the last prompt; it is the summary's
  gate,        \* setToolCallGate was called
  cancelled, cancelling,  \* the runner's flag; its cancel(): none, aborting, answered, done
  opened, disposed,
  pending,     \* #pendingResponses: requests with no answer yet
  got,         \* the answer to the request the prompt awaits
  agentEnd,    \* the deferred in #pendingAgentEnd: none, waiting, ok, rejected
  heard,       \* history: the prompt whose agent_end settled it
  lastCost,    \* #lastCost, as the number of the last prompt it covers
  turnsUsed,
  asking,      \* the handler of an elicit_request is at work
  dir,         \* the stage's config directory, with its credentials
  stdin, stdout,
  agent,       \* the process: none, idle, busy, blocked on an answer, dead, killed
  current, spent,     \* the prompt it works on, the last prompt its stats cover
  ran, asks    \* the calls that ran; the requests it may still make

choosing == <<conf, choice>>
runner   == <<pc, turn, recap, gate, cancelled, cancelling, opened, turnsUsed>>
client   == <<disposed, pending, got, agentEnd, heard, lastCost, asking>>
process  == <<agent, current, spent, ran, asks>>
vars     == <<choosing, runner, client, dir, stdin, stdout, process>>

Prompting == pc \in {"ack", "end", "stats"}
Over      == pc \in {"returned", "refused", "threw", "dropped"}
Alive     == agent \in {"idle", "busy", "blocked"}
Asked     == Models \cup {NoModel}
NoChoice  == [stage |-> NoModel, default |-> NoModel, authed |-> {}, model |-> NoModel]

TypeOK ==
  /\ conf \in [container : BOOLEAN, interactive : BOOLEAN]
  /\ choice \in [stage : Asked, default : Asked, authed : SUBSET Models, model : Asked]
  /\ pc \in {"idle", "config", "session", "ack", "end", "stats", "between", "stopping", "kept",
             "returned", "refused", "threw", "dropped"}
  /\ turn \in 0..MaxPrompts + 1 /\ recap \in BOOLEAN /\ gate \in BOOLEAN
  /\ cancelled \in BOOLEAN /\ cancelling \in {"none", "aborting", "answered", "done"}
  /\ opened \in BOOLEAN /\ disposed \in BOOLEAN
  /\ pending \subseteq ({"prompt", "stats"} \X (1..MaxPrompts + 1))
                   \cup ({"abort"} \X {"cancel", "ceiling"})
  /\ got \in {"none", "ok", "unpriced", "refused", "rejected"}
  /\ agentEnd \in {"none", "waiting", "ok", "rejected"}
  /\ heard \in 0..MaxPrompts + 1 /\ lastCost \in 0..MaxPrompts + 1 /\ turnsUsed \in 0..Ceiling
  /\ asking \in BOOLEAN /\ dir \in {"none", "made", "removed"}
  /\ agent \in {"none", "idle", "busy", "blocked", "dead", "killed"}
  /\ current \in 0..MaxPrompts + 1 /\ spent \in 0..MaxPrompts + 1
  /\ ran \subseteq Calls /\ asks \in 0..MaxAsks

Init ==
  /\ conf \in [container : BOOLEAN, interactive : BOOLEAN] /\ choice = NoChoice
  /\ pc = "idle" /\ turn = 0 /\ recap = FALSE /\ gate = FALSE
  /\ cancelled = FALSE /\ cancelling = "none" /\ opened = FALSE /\ disposed = FALSE
  /\ pending = {} /\ got = "none" /\ agentEnd = "none" /\ heard = 0 /\ lastCost = 0
  /\ turnsUsed = 0 /\ asking = FALSE /\ dir = "none" /\ stdin = <<>> /\ stdout = <<>>
  /\ agent = "none" /\ current = 0 /\ spent = 0 /\ ran = {} /\ asks = MaxAsks

\* Definitions named <Definition>_<Mistake> are mutants: plausible mistakes in
\* the code, in no action of the model, that the properties are tried against.

-----------------------------------------------------------------------------
(***************************************************************************)
(* Creating the session.                                                   *)
(***************************************************************************)

PickAuthedModel_AsResolved(model, authed, fallback) == {model}

\* pickAuthedModel: `model`, unless the stage can authenticate to none of its provider's
\* models but to one of its family, or of the profile's default.
PickAuthedModel(model, authed, fallback) ==
  LET kin(m) == {a \in authed : Family[a] = Family[m]}
  IN IF authed = {} \/ Provider[model] \in {Provider[a] : a \in authed} THEN {model}
     ELSE IF kin(model) # {} THEN kin(model)
     ELSE IF fallback # NoModel /\ fallback \in authed THEN {fallback}
     ELSE IF fallback # NoModel /\ kin(fallback) # {} THEN kin(fallback)
     ELSE {model}

\* selectStageModel, of ids Pi knows: what the stage asks for, else the profile's default.
SelectStageModel(stage, default, authed) ==
  IF stage # NoModel THEN PickAuthedModel(stage, authed, default)
  ELSE IF default # NoModel THEN PickAuthedModel(default, authed, NoModel)
  ELSE {NoModel}

Unopened == UNCHANGED <<turn, recap, gate, cancelled, cancelling, opened, turnsUsed, client, stdin,
                        stdout, process>>

\* A container needs the directory only to find the model on the host.
OpenSession ==
  /\ pc = "idle"
  /\ \E stage, default \in Asked :
       /\ choice' = [NoChoice EXCEPT !.stage = stage, !.default = default]
       /\ IF conf.container /\ stage = NoModel /\ default = NoModel
          THEN pc' = "session" /\ UNCHANGED dir
          ELSE pc' = "config" /\ dir' = "made"
  /\ UNCHANGED conf /\ Unopened

\* Done with the directory: resolveStageModelId (container) removes it in any case.
ResolvedOnHost == dir' = IF conf.container THEN "removed" ELSE dir

ChooseModel ==
  /\ pc = "config" /\ pc' = "session"
  /\ \E authed \in SUBSET Models :
       \E m \in SelectStageModel(choice.stage, choice.default, authed) :
         choice' = [choice EXCEPT !.authed = authed, !.model = m]
  /\ ResolvedOnHost /\ UNCHANGED conf /\ Unopened

\* Pi knows no model of that id: the stage is refused, never run on another model.
ModelUnknown ==
  /\ pc = "config" /\ <<choice.stage, choice.default>> # <<NoModel, NoModel>>
  /\ pc' = "refused" /\ dir' = "removed" /\ choice' = NoChoice
  /\ UNCHANGED conf /\ Unopened

\* Anything else that throws: the model runtime, the resource loader, createAgentSession.
\* An embedded session leaves its directory behind (README).
CreateThrows ==
  /\ pc = "config" \/ (pc = "session" /\ ~conf.container)
  /\ pc' = "threw" /\ ResolvedOnHost /\ choice' = NoChoice
  /\ UNCHANGED conf /\ Unopened

-----------------------------------------------------------------------------
(***************************************************************************)
(* Commands, turns and the end of the stage.                               *)
(***************************************************************************)

\* A frame reaches a process that still reads.
Write(frame) == stdin' = IF Alive THEN Append(stdin, frame) ELSE stdin

\* prompt(): the deferred of its agent_end exists before the request is written.
Prompt(k, sum) ==
  /\ turn' = k /\ recap' = sum /\ pc' = "ack" /\ got' = "none"
  /\ pending' = pending \cup {<<"prompt", k>>} /\ agentEnd' = "waiting"
  /\ Write(<<"prompt", k>>)

Opened_Ungated ==
  /\ pc = "session" /\ opened' = TRUE /\ UNCHANGED gate /\ agent' = "idle"
  /\ turn' = 1 /\ pc' = "ack" /\ pending' = {<<"prompt", 1>>} /\ agentEnd' = "waiting"
  /\ stdin' = <<<<"prompt", 1>>>> /\ choice' = NoChoice
  /\ UNCHANGED <<conf, recap, cancelled, cancelling, turnsUsed, disposed, got, heard, lastCost,
                 asking, dir, stdout, current, spent, ran, asks>>

\* The session is there: the gate goes up before the first prompt.  (Neither kind of
\* session lacks a capability that assertSessionCapabilities insists on.)
Opened ==
  /\ pc = "session" /\ opened' = TRUE /\ gate' = TRUE /\ agent' = "idle"
  /\ turn' = 1 /\ pc' = "ack" /\ pending' = {<<"prompt", 1>>} /\ agentEnd' = "waiting"
  /\ stdin' = <<<<"prompt", 1>>>> /\ choice' = NoChoice
  /\ UNCHANGED <<conf, recap, cancelled, cancelling, turnsUsed, disposed, got, heard, lastCost,
                 asking, dir, stdout, current, spent, ran, asks>>

Rejected_Requests == /\ got' = IF pc = "ack" /\ got = "none" THEN "rejected" ELSE got
                     /\ UNCHANGED agentEnd

\* disposeSession, behind its latch: what waits is rejected, and the container is killed or
\* the config directory removed.  (A cancel() whose abort is rejected here has nothing left
\* to do.)
Rejected == /\ got' = IF pc \in {"ack", "stats"} /\ got = "none" THEN "rejected" ELSE got
            /\ agentEnd' = IF agentEnd = "waiting" THEN "rejected" ELSE agentEnd

Dispose ==
  IF ~opened \/ disposed
  THEN UNCHANGED <<disposed, pending, got, agentEnd, agent, stdin, dir>>
  ELSE /\ disposed' = TRUE /\ pending' = {} /\ Rejected
       /\ agent' = IF agent = "dead" THEN "dead" ELSE "killed"
       /\ stdin' = <<>> /\ dir' = IF conf.container THEN dir ELSE "removed"

\* ... as soon as the prompt is accepted, and the end is not waited for.
Acked_CostsFirst ==
  /\ pc = "ack" /\ got = "ok" /\ pc' = "stats" /\ got' = "none"
  /\ pending' = pending \cup {<<"stats", turn>>} /\ Write(<<"stats", turn>>)
  /\ UNCHANGED <<choosing, turn, recap, gate, cancelled, cancelling, opened, turnsUsed, disposed,
                 agentEnd, heard, lastCost, asking, dir, stdout, process>>

\* The coroutine of the prompt goes on.
Acked ==
  /\ pc = "ack" /\ got = "ok" /\ pc' = "end" /\ got' = "none"
  /\ UNCHANGED <<choosing, turn, recap, gate, cancelled, cancelling, opened, turnsUsed, disposed,
                 pending, agentEnd, heard, lastCost, asking, dir, stdin, stdout, process>>

\* Its agent_end came: the cost of the run is final, and asked for.
Ended ==
  /\ pc = "end" /\ agentEnd = "ok" /\ pc' = "stats"
  /\ IF disposed THEN got' = "unpriced" /\ UNCHANGED <<pending, stdin>>
     ELSE /\ pending' = pending \cup {<<"stats", turn>>} /\ Write(<<"stats", turn>>)
          /\ UNCHANGED got
  /\ UNCHANGED <<choosing, turn, recap, gate, cancelled, cancelling, opened, turnsUsed, disposed,
                 agentEnd, heard, lastCost, asking, dir, stdout, process>>

Stop_KeepsSession ==
  /\ pc' = "returned" /\ UNCHANGED <<disposed, pending, got, agentEnd, agent, stdin, dir, turn, recap>>

\* Where the runner stops it disposes of the session, and after an ok batch only when the
\* summary is there.
Stop == /\ pc' = "returned" /\ Dispose
        /\ UNCHANGED <<turn, recap>>

KeepGoing(where) ==
  pc' = where /\ UNCHANGED <<turn, recap, disposed, pending, got, agentEnd, agent, stdin, dir>>

\* prompt() resolved: a batch is kept warm for its summary, a conversation goes on.
Resolved ==
  /\ pc = "stats" /\ got # "none"
  /\ IF recap \/ (cancelled /\ ~conf.interactive) THEN Stop
     ELSE \/ KeepGoing(IF conf.interactive THEN "between" ELSE "kept")
          \/ ~conf.interactive /\ Stop          \* the run settled as failed
  /\ UNCHANGED <<choosing, gate, cancelled, cancelling, opened, turnsUsed, heard, lastCost, asking,
                 stdout, current, spent, ran, asks>>

\* runInteractiveLoop's recap of a conversation that went wrong: on a session that was
\* disposed of it only says that there is none.
Recap ==
  IF disposed THEN Stop
  ELSE Prompt(turn + 1, TRUE) /\ UNCHANGED <<disposed, agent, dir>>

\* prompt() threw: it was refused, or the session was disposed of under it.
Failed ==
  /\ \/ pc = "ack" /\ got \in {"refused", "rejected"}
     \/ pc = "end" /\ agentEnd = "rejected"
  /\ Stop \/ (conf.interactive /\ ~recap /\ ~cancelled /\ Recap)
  /\ UNCHANGED <<choosing, gate, cancelled, cancelling, opened, turnsUsed, heard, lastCost, asking,
                 stdout, current, spent, ran, asks>>

\* Between turns: a human's reply, the gate's recap, the stage-complete tool, or a cancel.
Converse ==
  /\ pc = "between"
  /\ \/ ~cancelled /\ turn < MaxPrompts /\ Prompt(turn + 1, FALSE)
        /\ UNCHANGED <<disposed, agent, dir>>
     \/ ~cancelled /\ Recap
     \/ Stop
  /\ UNCHANGED <<choosing, gate, cancelled, cancelling, opened, turnsUsed, heard, lastCost, asking,
                 stdout, current, spent, ran, asks>>

\* The stage runner has an ok batch: it asks for the summary, unless an exit hook failed or
\* the policies were broken: then nobody disposes of the session (README).
Summarise ==
  /\ pc = "kept"
  /\ Recap \/ KeepGoing("dropped")
  /\ UNCHANGED <<choosing, gate, cancelled, cancelling, opened, turnsUsed, heard, lastCost, asking,
                 stdout, current, spent, ran, asks>>

\* cancel(), once: abort is awaited, then the session is disposed of.
Cancel ==
  /\ pc # "kept" /\ ~Over /\ ~cancelled /\ cancelled' = TRUE
  /\ IF opened /\ ~disposed
     THEN /\ cancelling' = "aborting" /\ pending' = pending \cup {<<"abort", "cancel">>}
          /\ Write(<<"abort", "cancel">>)
     ELSE cancelling' = "done" /\ UNCHANGED <<pending, stdin>>
  /\ UNCHANGED <<choosing, pc, turn, recap, gate, opened, turnsUsed, disposed, got, agentEnd, heard,
                 lastCost, asking, dir, stdout, process>>

Cancelled ==
  /\ cancelling = "answered" /\ cancelling' = "done" /\ Dispose
  /\ UNCHANGED <<choosing, pc, turn, recap, gate, cancelled, opened, turnsUsed, heard, lastCost,
                 asking, stdout, current, spent, ran, asks>>

\* The conversation timed out: the loop awaits cancel() itself, then disposes again, in vain.
TimeOut ==
  /\ pc = "between" /\ ~cancelled /\ pc' = "stopping" /\ cancelled' = TRUE
  /\ cancelling' = "aborting" /\ pending' = pending \cup {<<"abort", "cancel">>}
  /\ Write(<<"abort", "cancel">>)
  /\ UNCHANGED <<choosing, turn, recap, gate, opened, turnsUsed, disposed, got, agentEnd, heard,
                 lastCost, asking, dir, stdout, process>>

Stopped ==
  /\ pc = "stopping" /\ cancelling = "done" /\ Stop
  /\ UNCHANGED <<choosing, gate, cancelled, cancelling, opened, turnsUsed, heard, lastCost, asking,
                 stdout, current, spent, ran, asks>>

-----------------------------------------------------------------------------
(***************************************************************************)
(* #onLine: what the process writes.                                       *)
(***************************************************************************)

Line == Head(stdout)

\* An answer settles the request of its id, if that is still waited for.
Answer ==
  /\ Line[1] \in {"accepted", "refused", "stats", "unpriced", "aborted"}
  /\ LET id == <<CASE Line[1] \in {"accepted", "refused"} -> "prompt"
                   [] Line[1] \in {"stats", "unpriced"} -> "stats"
                   [] OTHER -> "abort", Line[2]>>
     IN IF id \notin pending THEN UNCHANGED <<pending, got, lastCost, agentEnd, cancelling>>
        ELSE /\ pending' = pending \ {id}
             /\ got' = CASE Line[1] \in {"accepted", "stats"} -> "ok"
                         [] Line[1] \in {"refused", "unpriced"} -> Line[1]
                         [] OTHER -> got
             /\ lastCost' = IF Line[1] = "stats" THEN spent ELSE lastCost
             /\ agentEnd' = IF Line[1] = "refused" THEN "none" ELSE agentEnd
             /\ cancelling' = IF Line = <<"aborted", "cancel">> THEN "answered" ELSE cancelling
  /\ UNCHANGED <<turnsUsed, asking, heard, stdin>>

Vetoed(call) == gate /\ call \in Denied       \* piToolCallDecision

\* A tool call waits for the node's word; #reply says nothing once disposed.
ToolCallRequest ==
  /\ Line[1] = "tool_call"
  /\ IF disposed THEN UNCHANGED stdin
     ELSE Write(<<IF Vetoed(Line[2]) THEN "block" ELSE "allow", Line[2]>>)
  /\ UNCHANGED <<pending, got, lastCost, agentEnd, cancelling, turnsUsed, asking, heard>>

ElicitRequest ==
  /\ Line[1] = "elicit" /\ asking' = TRUE
  /\ UNCHANGED <<pending, got, lastCost, agentEnd, cancelling, turnsUsed, heard, stdin>>

AtCeiling_Never == FALSE

\* sendTurn listens to its own prompt's events, and aborts an agent at the ceiling, and at
\* every turn beyond it.  (Aborts nobody has read yet count as one.)
AtCeiling == turnsUsed' = Ceiling

TurnEnd ==
  /\ Line[1] = "turn_end"
  /\ turnsUsed' = IF Prompting /\ ~recap /\ turnsUsed < Ceiling THEN turnsUsed + 1 ELSE turnsUsed
  /\ LET abort == <<"abort", "ceiling">>
         unread == \E i \in DOMAIN stdin : stdin[i] = abort
     IN IF Prompting /\ ~recap /\ AtCeiling /\ ~disposed
        THEN /\ pending' = pending \cup {abort}
             /\ IF unread THEN UNCHANGED stdin ELSE Write(abort)
        ELSE UNCHANGED <<pending, stdin>>
  /\ UNCHANGED <<got, lastCost, agentEnd, cancelling, asking, heard>>

\* Subscribers have the event first, then the prompt that waits for it resolves.
AgentEnd ==
  /\ Line[1] = "agent_end"
  /\ IF agentEnd = "waiting" THEN agentEnd' = "ok" /\ heard' = Line[2]
     ELSE UNCHANGED <<agentEnd, heard>>
  /\ UNCHANGED <<pending, got, lastCost, cancelling, turnsUsed, asking, stdin>>

OnLine ==
  /\ stdout # <<>> /\ stdout' = Tail(stdout)
  /\ Answer \/ ToolCallRequest \/ ElicitRequest \/ TurnEnd \/ AgentEnd
  /\ UNCHANGED <<choosing, pc, turn, recap, gate, cancelled, opened, disposed, dir, process>>

\* The question's handler comes back with the human's answer or the soft note, whatever
\* happened to it.
Elicited ==
  /\ asking /\ asking' = FALSE
  /\ IF disposed THEN UNCHANGED stdin ELSE Write(<<"answer", 0>>)
  /\ UNCHANGED <<choosing, runner, disposed, pending, got, agentEnd, heard, lastCost, dir, stdout,
                 process>>

-----------------------------------------------------------------------------
(***************************************************************************)
(* The agent process.                                                      *)
(***************************************************************************)

Says(lines) == stdout' = stdout \o lines

Reads ==
  /\ Alive /\ stdin # <<>> /\ stdin' = Tail(stdin)
  /\ LET frame == Head(stdin) IN
     \/ /\ frame[1] = "prompt" /\ agent = "idle"
        /\ \/ /\ agent' = "busy" /\ current' = frame[2] /\ Says(<<<<"accepted", frame[2]>>>>)
           \/ Says(<<<<"refused", frame[2]>>>>) /\ UNCHANGED <<agent, current>>
        /\ UNCHANGED <<spent, ran>>
     \/ /\ frame[1] = "prompt" /\ agent # "idle" /\ Says(<<<<"refused", frame[2]>>>>)
        /\ UNCHANGED <<agent, current, spent, ran>>
     \/ /\ frame[1] = "stats" /\ \E answer \in {"stats", "unpriced"} : Says(<<<<answer, frame[2]>>>>)
        /\ UNCHANGED <<agent, current, spent, ran>>
     \/ /\ frame[1] = "abort" /\ agent' = "idle"
        /\ IF agent = "idle" THEN Says(<<<<"aborted", frame[2]>>>>) /\ UNCHANGED spent
           ELSE Says(<<<<"agent_end", current>>, <<"aborted", frame[2]>>>>) /\ spent' = current
        /\ UNCHANGED <<current, ran>>
     \/ /\ frame[1] \in {"allow", "block", "answer"}
        /\ agent' = IF agent = "blocked" THEN "busy" ELSE agent
        /\ ran' = IF frame[1] = "allow" /\ agent = "blocked" THEN ran \cup {frame[2]} ELSE ran
        /\ UNCHANGED <<current, spent, stdout>>
  /\ UNCHANGED <<choosing, runner, client, dir, asks>>

\* summariseTurn takes the tools away, in process.  Over RPC it cannot.
Toolless == recap /\ ~conf.container

\* One turn of its loop ends, and the whole run if it called no tool.
EndsTurn ==
  /\ agent = "busy" /\ Len(stdout) < MaxLines
  /\ \/ ~Toolless /\ Says(<<<<"turn_end", current>>>>) /\ UNCHANGED <<agent, spent>>
     \/ /\ Says(<<<<"turn_end", current>>, <<"agent_end", current>>>>)
        /\ agent' = "idle" /\ spent' = current
  /\ UNCHANGED <<choosing, runner, client, dir, stdin, current, ran, asks>>

\* It asks the node for permission, or asks the human.
Asks ==
  /\ agent = "busy" /\ ~Toolless /\ agent' = "blocked" /\ Len(stdout) < MaxLines
  /\ asks > 0 /\ asks' = asks - 1
  /\ \/ \E c \in Calls : Says(<<<<"tool_call", c>>>>)
     \/ Says(<<<<"elicit", 0>>>>)
  /\ UNCHANGED <<choosing, runner, client, dir, stdin, current, spent, ran>>

\* The container stops: its last lines still arrive, and nothing tells the session.
Dies ==
  /\ conf.container /\ Alive /\ agent' = "dead" /\ stdin' = <<>>
  /\ UNCHANGED <<choosing, runner, client, dir, stdout, current, spent, ran, asks>>

Coroutines == Acked \/ Ended \/ Resolved \/ Failed \/ Cancelled \/ Stopped \/ Elicited

Next ==
  \/ OpenSession \/ ChooseModel \/ ModelUnknown \/ CreateThrows \/ Opened
  \/ Coroutines \/ Converse \/ Summarise \/ Cancel \/ TimeOut \/ OnLine
  \/ Reads \/ EndsTurn \/ Asks \/ Dies

\* The event loop runs what is due, a question is answered (TurnLoop), a loop between turns
\* goes on; the agent reads, and works unless it is waiting for an answer.
Fairness ==
  /\ WF_vars(Coroutines \/ Converse \/ Summarise) /\ WF_vars(OnLine)
  /\ WF_vars(Reads) /\ WF_vars(EndsTurn)

Spec == Init /\ [][Next]_vars /\ Fairness

-----------------------------------------------------------------------------
(***************************************************************************)
(* Properties.                                                             *)
(***************************************************************************)

\* A tool call the policies deny never runs, in any turn of the stage, the summary's and
\* those around a cancel included.
DeniedNeverRuns == ran \cap Denied = {}

\* When prompt() is about to resolve, the agent is done with that very prompt, and a cost
\* that was priced covers it: no turn is settled by the end of another, and the cost budget
\* never works on the figure of a run that went on.
TurnIsSettled ==
  pc = "stats" /\ ~disposed => heard = turn /\ (got = "ok" => lastCost = turn)

\* A stage that ended leaves no container and no credentials behind.  Two ends do: creating
\* an embedded session throws (but not over the model), and nobody wants the summary of an
\* ok batch.
NothingLeftBehind ==
  /\ pc \in {"returned", "refused"} => dir # "made" /\ ~Alive
  /\ conf.container /\ pc # "config" => dir # "made"
  /\ pc = "threw" => ~Alive

\* The stage runs on a model it can authenticate to, where there is one of the family it or
\* its profile asked for, and on the very model it asked for where it can.
ModelCanRun ==
  LET wanted == IF choice.stage # NoModel THEN choice.stage ELSE choice.default
      providers == {Provider[a] : a \in choice.authed}
  IN pc = "session" /\ choice.model # NoModel =>
       /\ Provider[wanted] \in providers => choice.model = wanted
       /\ (\E a \in choice.authed : Family[a] = Family[wanted])
          => Provider[choice.model] \in providers

\* A turn ends, however long the agent would loop, unless its container stops by itself.
\* (The summary of a container's agent has tools, and no ceiling: README.)
TurnsEnd ==
  LET bounded == Prompting /\ (recap => Toolless) IN bounded ~> ~bounded \/ agent = "dead"

\* A cancelled stage ends, wherever the cancel found it (once there is a session).  With a
\* container that stopped it does not: cancel() awaits an answer that never comes (README).
CancelEndsStage == cancelled /\ opened ~> Over \/ agent = "dead"
=============================================================================
