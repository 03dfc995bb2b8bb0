------------------------------ MODULE StageRun ------------------------------
(***************************************************************************)
(* One stage, from dispatch to result: runJob of                           *)
(* packages/edge/src/stage-runner.ts over the runner it builds             *)
(* (claude-adapter.ts, pi-adapter.ts, check-runner.ts, mock-runner.ts).    *)
(*                                                                         *)
(* The stage prepares the worktree, starts the gateway of the brokered MCP *)
(* servers, arms its timers and has the runner work.  The agent's tool     *)
(* calls reach the policies twice: as the runtime asks for permission, and *)
(* as the call surfaces on the trace, in either order.  A hub cancel, the  *)
(* wall clock and the output-idle watchdog all call the runner's cancel(). *)
(* The conversation of an interactive stage is in TurnLoop; here it is a   *)
(* runner that ends.                                                       *)
(***************************************************************************)
EXTENDS Naturals, FiniteSets

CONSTANTS
  Calls,     \* the tool calls the agent may make
  Repeats,   \* those with the same tool and input as First
  First,
  Outside,   \* those that reach out of the worktree
  Caps       \* values of the stage's max_tool_calls

ASSUME StageRunAssumption ==
  /\ IsFiniteSet(Calls)
  /\ First \in Calls /\ Repeats \subseteq Calls /\ Outside \subseteq Calls
  /\ Caps \subseteq Nat

Key(c) == IF c \in Repeats THEN First ELSE c   \* actionKey

\* The job: its runner, whether it is interactive, whether a Pi session can block a
\* call before it runs, and whether the job has a time-out, MCP servers, exit hooks, and a cap on tool calls.
Confs ==
  {c \in [runtime : {"claude", "pi", "check", "mock"}, interactive : BOOLEAN,
          gate : BOOLEAN, timeout : BOOLEAN, mcp : BOOLEAN, hooks : BOOLEAN,
          cap : Caps] :
     /\ c.runtime \in {"check", "mock"} => ~c.interactive /\ ~c.gate /\ ~c.mcp
     /\ c.runtime = "claude" => c.gate}

VARIABLES
  conf,
  pc,         \* where runJob is suspended
  inFlight,   \* the run's in-flight marker
  active,     \* the job's entry in `active`
  gateway,    \* "none", "up" or "down"
  conn,       \* the agent holds a stream open through the gateway
  session,    \* the runtime session: "none", "live" or "closed"
  cancelled,  \* the runner's flag
  stopping,   \* the runner's cancel() reached something it could stop
  killTimer, killed,   \* the wall clock, and `timedOut`
  stallTimer, stalled, \* the watchdog's timer, and its flag
  phase,      \* each call, as the runtime sees it
  shown,      \* the calls whose action event has surfaced
  open,       \* openToolCalls
  auth,       \* authorisedActions, a bag of keys
  count,      \* the calls max_tool_calls has counted
  escaped,    \* fsConfineDeniedPostHoc
  result      \* status, failureClass; history: hook failed, cancelled in time

callVars   == <<phase, shown, open, auth, count, escaped>>
runnerVars == <<session, conn, cancelled, stopping>>
killVars   == <<killTimer, killed>>
stallVars  == <<stallTimer, stalled>>
holdVars   == <<inFlight, active, gateway>>
vars == <<conf, pc, holdVars, runnerVars, killVars, stallVars, callVars, result>>

PCs == {"arrive", "prepare", "gateway", "start", "open", "work", "summarise",
        "stop", "ship", "returned", "threw"}

Ended   == pc \in {"returned", "threw"}
Working == pc \in {"open", "work"}
Settled == result.status # "none"
Gated   == conf.runtime \in {"claude", "pi"}                    \* asks authorizeToolUse
Watched == conf.runtime # "check" /\ ~conf.interactive          \* stallMs > 0
Begun(c) == phase[c] \in {"running", "over"}                    \* the call ran

TypeOK ==
  /\ conf \in Confs /\ pc \in PCs
  /\ inFlight \in BOOLEAN /\ active \in BOOLEAN /\ gateway \in {"none", "up", "down"}
  /\ conn \in BOOLEAN /\ session \in {"none", "live", "closed"}
  /\ cancelled \in BOOLEAN /\ stopping \in BOOLEAN
  /\ killTimer \in BOOLEAN /\ killed \in BOOLEAN
  /\ stallTimer \in BOOLEAN /\ stalled \in BOOLEAN
  /\ phase \in [Calls -> {"new", "running", "refused", "over", "dropped"}]
  /\ shown \subseteq Calls /\ open \subseteq shown
  /\ auth \in [Calls -> 0..Cardinality(Calls)]
  /\ count \in 0..2 * Cardinality(Calls)
  /\ escaped \in BOOLEAN
  /\ result \in [status : {"none", "ok", "fail", "timeout"},
                 class : {"none", "harness", "config"}, hook : BOOLEAN, cut : BOOLEAN]

Init ==
  /\ conf \in Confs
  /\ pc = "arrive"
  /\ inFlight = FALSE /\ active = FALSE /\ gateway = "none"
  /\ session = "none" /\ conn = FALSE /\ cancelled = FALSE /\ stopping = FALSE
  /\ killTimer = FALSE /\ killed = FALSE /\ stallTimer = FALSE /\ stalled = FALSE
  /\ phase = [c \in Calls |-> "new"]
  /\ shown = {} /\ open = {} /\ auth = [c \in Calls |-> 0] /\ count = 0 /\ escaped = FALSE
  /\ result = [status |-> "none", class |-> "none", hook |-> FALSE, cut |-> FALSE]

-----------------------------------------------------------------------------
(***************************************************************************)
(* Leaving the stage.                                                      *)
(***************************************************************************)

\* Definitions named <Definition>_<Mistake> are mutants: plausible mistakes in
\* the code, in no action of the model, that the properties are tried against.

\* `finish`, up to the await of the gateway's stop().
Finish ==
  /\ active' = FALSE
  /\ pc' = IF gateway = "up" THEN "stop" ELSE "ship"
  /\ UNCHANGED <<inFlight, gateway>>

Throw_KeepsMarker ==
  /\ pc' = "threw"
  /\ killTimer' = FALSE /\ stallTimer' = FALSE
  /\ UNCHANGED <<conf, inFlight, gateway, killed, stalled, callVars, result>>

\* A throw: the timers' `finally` and runJob's, and nothing of `finish`.
Throw ==
  /\ pc' = "threw"
  /\ inFlight' = FALSE
  /\ killTimer' = FALSE /\ stallTimer' = FALSE
  /\ UNCHANGED <<conf, gateway, killed, stalled, callVars, result>>

-----------------------------------------------------------------------------
(***************************************************************************)
(* Before the runner.                                                      *)
(***************************************************************************)

\* Another tenant's job, or a repository this edge does not serve.
Refuse ==
  /\ pc = "arrive"
  /\ pc' = "returned"
  /\ result' = [result EXCEPT !.status = "fail"]
  /\ UNCHANGED <<conf, holdVars, runnerVars, killVars, stallVars, callVars>>

Admit ==
  /\ pc = "arrive"
  /\ pc' = "prepare"
  /\ inFlight' = TRUE
  /\ UNCHANGED <<conf, active, gateway, runnerVars, killVars, stallVars, callVars, result>>

\* The worktree, the components, the repository's setup, the policies at stage entry.
Prepare ==
  /\ pc = "prepare"
  /\ pc' = IF conf.mcp THEN "gateway" ELSE "start"
  /\ UNCHANGED <<conf, holdVars, runnerVars, killVars, stallVars, callVars, result>>

\* Components or entry policies fail the stage (class "none"), setup too ("harness").
PrepareFails(class) ==
  /\ pc = "prepare"
  /\ result' = [result EXCEPT !.status = "fail", !.class = class]
  /\ Finish
  /\ UNCHANGED <<conf, runnerVars, killVars, stallVars, callVars>>

\* createWorktrees throws.
PrepareThrows ==
  /\ pc = "prepare"
  /\ Throw
  /\ UNCHANGED <<active, runnerVars>>

StartGateway ==
  /\ pc = "gateway"
  /\ pc' = "start"
  /\ gateway' = "up"
  /\ UNCHANGED <<conf, inFlight, active, runnerVars, killVars, stallVars, callVars, result>>

\* makeRunner throws for a runtime this node does not run.
StartThrows ==
  /\ pc = "start"
  /\ Throw
  /\ UNCHANGED <<active, runnerVars>>

Start_WaitsForEvent ==
  /\ pc = "start"
  /\ active' = TRUE
  /\ killTimer' = conf.timeout
  /\ pc' = IF conf.runtime = "pi" THEN "open" ELSE "work"
  /\ session' = IF conf.runtime = "claude" THEN "live" ELSE "none"
  /\ UNCHANGED <<conf, inFlight, gateway, conn, cancelled, stopping, killed, stallVars, callVars, result>>

\* The runner is built, the timers are armed and the runner called, in one go.  A Claude
\* session exists from then on; a Pi session has to be opened.
Start ==
  /\ pc = "start"
  /\ active' = TRUE
  /\ killTimer' = conf.timeout
  /\ stallTimer' = Watched
  /\ pc' = IF conf.runtime = "pi" THEN "open" ELSE "work"
  /\ session' = IF conf.runtime = "claude" THEN "live" ELSE "none"
  /\ UNCHANGED <<conf, inFlight, gateway, conn, cancelled, stopping, killed, stalled, callVars, result>>

\* createSession resolves and the session has the capabilities the stage needs.
OpenSession ==
  /\ pc = "open"
  /\ conf.gate
  /\ pc' = "work"
  /\ session' = "live"
  /\ UNCHANGED <<conf, holdVars, conn, cancelled, stopping, killVars, stallVars, callVars, result>>

\* createSession throws, or the session cannot block calls and guardCapabilities
\* disposes of it and throws.
OpenThrows ==
  /\ pc = "open"
  /\ Throw
  /\ session' \in {"none", "closed"}
  /\ UNCHANGED <<active, conn, cancelled, stopping>>

-----------------------------------------------------------------------------
(***************************************************************************)
(* The agent at work.                                                      *)
(***************************************************************************)

Outcome_CapFirst(c) ==
  IF count + 1 > conf.cap THEN "max_tool_calls"
  ELSE IF c \in Outside /\ conf.runtime # "check" THEN "fs_confine"
  ELSE "allow"

Outcome_OneMore(c) ==
  IF c \in Outside /\ conf.runtime # "check" THEN "fs_confine"
  ELSE IF count > conf.cap THEN "max_tool_calls"
  ELSE "allow"

\* evaluatePolicies over [fs_confine, max_tool_calls]: the first denial wins, and a call
\* fs_confine denies is not counted.  A check's commands name no paths.
Outcome(c) ==
  IF c \in Outside /\ conf.runtime # "check" THEN "fs_confine"
  ELSE IF count + 1 > conf.cap THEN "max_tool_calls"
  ELSE "allow"

Counted(c) == IF Outcome(c) = "fs_confine" THEN count ELSE count + 1

BumpStall_AlwaysArms(calls) ==
  /\ stallTimer' = Watched
  /\ UNCHANGED stalled

\* bumpStall: disarm, and re-arm unless a tool call is open.
BumpStall(calls) ==
  /\ stallTimer' = (Watched /\ calls = {})
  /\ UNCHANGED stalled

Authorize_OpensCall(c) ==
  /\ pc = "work" /\ Gated
  /\ phase[c] = "new"
  /\ count' = Counted(c)
  /\ IF Outcome(c) = "allow"
       THEN /\ phase' = [phase EXCEPT ![c] = "running"]
            /\ auth' = [auth EXCEPT ![Key(c)] = @ + 1]
            /\ open' = open \cup {c}
       ELSE /\ phase' = [phase EXCEPT ![c] = "refused"]
            /\ UNCHANGED <<auth, open>>
  /\ UNCHANGED <<conf, pc, holdVars, runnerVars, killVars, stallVars, shown, escaped, result>>

\* authorizeToolUse: the runtime asks before it runs a call.
Authorize(c) ==
  /\ pc = "work" /\ Gated
  /\ phase[c] = "new"
  /\ count' = Counted(c)
  /\ IF Outcome(c) = "allow"
       THEN /\ phase' = [phase EXCEPT ![c] = "running"]
            /\ auth' = [auth EXCEPT ![Key(c)] = @ + 1]
       ELSE /\ phase' = [phase EXCEPT ![c] = "refused"]
            /\ UNCHANGED auth
  /\ UNCHANGED <<conf, pc, holdVars, runnerVars, killVars, stallVars, shown, open, escaped, result>>

\* A check command or a mock's call asks nobody.
RunUngated(c) ==
  /\ pc = "work" /\ ~Gated
  /\ phase[c] = "new"
  /\ phase' = [phase EXCEPT ![c] = "running"]
  /\ UNCHANGED <<conf, pc, holdVars, runnerVars, killVars, stallVars, shown, open, auth, count, escaped, result>>

\* onTrace of an action whose key was authorised: it is taken off and the call is open.
SurfaceAuthorised(c) ==
  /\ auth[Key(c)] > 0
  /\ auth' = [auth EXCEPT ![Key(c)] = @ - 1]
  /\ open' = open \cup {c}
  /\ BumpStall(open')
  /\ UNCHANGED <<count, escaped>>

\* onTrace of any other action: the policies are asked now.
SurfaceOther(c) ==
  /\ auth[Key(c)] = 0
  /\ count' = Counted(c)
  /\ open' = IF Outcome(c) = "allow" THEN open \cup {c} ELSE open
  /\ escaped' = (escaped \/ Outcome(c) = "fs_confine")
  /\ BumpStall(open')
  /\ UNCHANGED auth

\* The runtime reports a call once, before or after it asks for permission.
Surface(c) ==
  /\ pc = "work"
  /\ c \notin shown
  /\ ~Gated => phase[c] = "running"
  /\ shown' = shown \cup {c}
  /\ SurfaceAuthorised(c) \/ SurfaceOther(c)
  /\ UNCHANGED <<conf, pc, holdVars, runnerVars, killVars, phase, result>>

\* onTrace of the observation: every call that surfaced gets one, refused or run.
Observe(c) ==
  /\ pc = "work"
  /\ c \in shown /\ phase[c] \in {"running", "refused"}
  /\ phase' = [phase EXCEPT ![c] = IF @ = "running" THEN "over" ELSE "dropped"]
  /\ open' = open \ {c}
  /\ BumpStall(open')
  /\ UNCHANGED <<conf, pc, holdVars, runnerVars, killVars, shown, auth, count, escaped, result>>

\* onLive: a native message that is no event.  It matters once the watchdog has fired.
Live ==
  /\ pc = "work" /\ conf.runtime \in {"claude", "pi"}
  /\ BumpStall(open)
  /\ UNCHANGED <<conf, pc, holdVars, runnerVars, killVars, callVars, result>>

\* The agent opens a stream to a brokered MCP server.
Connect ==
  /\ pc = "work" /\ gateway = "up" /\ session = "live"
  /\ conn' = TRUE
  /\ UNCHANGED <<conf, pc, holdVars, session, cancelled, stopping, killVars, stallVars, callVars, result>>

\* The MCP server ends the stream.  It need not.
UpstreamCloses ==
  /\ conn
  /\ conn' = FALSE
  /\ UNCHANGED <<conf, pc, holdVars, session, cancelled, stopping, killVars, stallVars, callVars, result>>

-----------------------------------------------------------------------------
(***************************************************************************)
(* Cancelling.                                                             *)
(***************************************************************************)

\* The runner's cancel(): once; it stops what is there to stop (a mock runner stops by
\* itself).  While a Pi session is being opened there is nothing.
CancelRunner ==
  /\ cancelled' = TRUE
  /\ stopping' = (stopping \/ (~cancelled /\ pc = "work"))
  /\ session' = IF ~cancelled /\ conf.runtime = "pi" /\ session = "live" THEN "closed" ELSE session
  /\ UNCHANGED conn

KillFires ==
  /\ killTimer
  /\ killTimer' = FALSE /\ killed' = TRUE
  /\ CancelRunner
  /\ UNCHANGED <<conf, pc, holdVars, stallVars, callVars, result>>

StallFires ==
  /\ stallTimer
  /\ stallTimer' = FALSE /\ stalled' = TRUE
  /\ CancelRunner
  /\ UNCHANGED <<conf, pc, holdVars, killVars, callVars, result>>

\* The hub's cancel frame, for a job in `active`.
HubCancel ==
  /\ active /\ ~cancelled /\ ~Ended
  /\ CancelRunner
  /\ UNCHANGED <<conf, pc, holdVars, killVars, stallVars, callVars, result>>

-----------------------------------------------------------------------------
(***************************************************************************)
(* After the runner.                                                       *)
(***************************************************************************)

CloseSession_KeepsStream(status) ==
  /\ session' = IF session # "live" \/ (conf.runtime = "pi" /\ ~conf.interactive /\ status = "ok")
                THEN session ELSE "closed"
  /\ UNCHANGED <<conn, cancelled, stopping>>

\* The adapter's side of the end: Claude closes its session; Pi disposes of it unless an
\* ok batch keeps it for the summary.  Nobody closes Pi's MCP clients.
CloseSession(status) ==
  /\ session' = IF session # "live" \/ (conf.runtime = "pi" /\ ~conf.interactive /\ status = "ok")
                THEN session ELSE "closed"
  /\ conn' = (conn /\ conf.runtime # "claude")
  /\ UNCHANGED <<cancelled, stopping>>

\* A confinement breach that only surfaced after the call ran.
Unblocked == escaped /\ ~Gated

StatusOf_RunnerFirst(status, hookOk) ==
  IF status # "ok" THEN status
  ELSE IF killed \/ stalled THEN "timeout"
  ELSE IF Unblocked \/ (conf.hooks /\ ~hookOk) THEN "fail"
  ELSE "ok"

\* The status of the stage, given the runner's: the timers, then an escape that could
\* not be blocked, then the exit hooks of a stage that is still ok.
StatusOf(status, hookOk) ==
  IF killed \/ stalled THEN "timeout"
  ELSE IF status = "ok" /\ (Unblocked \/ (conf.hooks /\ ~hookOk)) THEN "fail"
  ELSE status

HookFailed(status, hookOk) ==
  status = "ok" /\ ~killed /\ ~stalled /\ ~Unblocked /\ conf.hooks /\ ~hookOk

\* From the runner's return to the next await: the timers are cleared, the hooks run, the
\* verdict and its class settle; an ok batch goes on to its summary.
Settle(status, class, hookOk) ==
  /\ killTimer' = FALSE /\ stallTimer' = FALSE
  /\ result' = [status |-> StatusOf(status, hookOk),
                class |-> IF killed \/ stalled THEN "harness" ELSE class,
                hook |-> HookFailed(status, hookOk), cut |-> cancelled]
  /\ IF StatusOf(status, hookOk) = "ok" /\ ~conf.interactive
       THEN pc' = "summarise" /\ UNCHANGED holdVars
       ELSE Finish
  /\ UNCHANGED <<conf, killed, stalled, callVars>>

\* What a cancelled runner answers: runBatchLoop "fail", the check runner "timeout"; the
\* interactive loop either of two, by the order of its own races (TurnLoop).
CancelledStatuses ==
  IF conf.runtime = "check" THEN {"timeout"}
  ELSE IF conf.interactive THEN {"ok", "fail"}
  ELSE {"fail"}

\* What another one answers: an interactive stage may time out waiting for the human.
Statuses ==
  IF cancelled THEN CancelledStatuses
  ELSE {"ok", "fail"} \cup (IF conf.interactive THEN {"timeout"} ELSE {})

RunnerReturns(status, class, hookOk) ==
  /\ status \in Statuses
  /\ class # "none" => status = "fail" /\ conf.runtime # "check" /\ ~cancelled
  /\ CloseSession(status)
  /\ Settle(status, class, hookOk)

\* The agent is done, or its prompt throws, with no call in the air.
RunnerEnds(status, class, hookOk) ==
  /\ pc = "work"
  /\ \A c \in Calls : phase[c] \notin {"running", "refused"}
  /\ \A c \in shown : phase[c] # "new"
  /\ RunnerReturns(status, class, hookOk)

RunnerStopped_BetweenCalls(status, hookOk) ==
  /\ pc = "work" /\ stopping
  /\ \A c \in Calls : phase[c] # "running"
  /\ RunnerReturns(status, "none", hookOk)

\* A cancel that reached the runner cuts it off.
RunnerStopped(status, hookOk) ==
  /\ pc = "work" /\ stopping
  /\ RunnerReturns(status, "none", hookOk)

\* The summary of an ok batch, tools denied; Pi disposes of its session after it.
Summarise ==
  /\ pc = "summarise"
  /\ session' = IF session = "live" THEN "closed" ELSE session
  /\ Finish
  /\ UNCHANGED <<conf, conn, cancelled, stopping, killVars, stallVars, callVars, result>>

\* The gateway's stop(): http's close, which calls back when no connection is left.
StopGateway ==
  /\ pc = "stop"
  /\ ~conn
  /\ gateway' = "down"
  /\ pc' = "ship"
  /\ UNCHANGED <<conf, inFlight, active, runnerVars, killVars, stallVars, callVars, result>>

\* The final trace (each upload request times out), retention, and the return.
Ship ==
  /\ pc = "ship"
  /\ pc' = "returned"
  /\ inFlight' = FALSE
  /\ UNCHANGED <<conf, active, gateway, runnerVars, killVars, stallVars, callVars, result>>

-----------------------------------------------------------------------------
Before == Refuse \/ Admit \/ Prepare \/ PrepareThrows \/ StartGateway \/ StartThrows \/ Start
            \/ OpenSession \/ OpenThrows \/ \E class \in {"none", "harness"} : PrepareFails(class)
Agent  == Live \/ Connect \/ \E c \in Calls : Authorize(c) \/ RunUngated(c) \/ Surface(c) \/ Observe(c)
Cancel == KillFires \/ StallFires \/ HubCancel
Return == \E status \in {"ok", "fail", "timeout"}, class \in {"none", "config"}, hookOk \in BOOLEAN :
            RunnerEnds(status, class, hookOk)
Stopped == \E status \in {"ok", "fail", "timeout"}, hookOk \in BOOLEAN : RunnerStopped(status, hookOk)
After  == Summarise \/ StopGateway \/ Ship

Next == Before \/ Agent \/ UpstreamCloses \/ Cancel \/ Return \/ Stopped \/ After

Spec == Init /\ [][Next]_vars

\* Timers fire, the opening of a session succeeds or fails, a runner that was stopped
\* returns, the summary ends (it has a ceiling of turns), and the stage's own code runs
\* on.  Nothing is asked of an agent at work or of an MCP server.
Fairness ==
  /\ WF_vars(KillFires) /\ WF_vars(StallFires)
  /\ WF_vars(OpenSession \/ OpenThrows)
  /\ WF_vars(Stopped)
  /\ WF_vars(After)

LiveSpec == Spec /\ Fairness

-----------------------------------------------------------------------------
(***************************************************************************)
(* Properties.                                                             *)
(***************************************************************************)

\* The watchdog measures the agent's silence and nothing else: while a batch runner
\* works it is armed, or has fired, exactly when no tool call is open (DHK-955), and the
\* open calls are ones whose observation is still to come, so none keeps it off for ever.
WatchdogFollowsTools ==
  /\ Watched /\ Working => /\ stallTimer => open = {}
                           /\ open = {} => stallTimer \/ stalled
  /\ Working => \A c \in open : phase[c] \in {"new", "running", "refused"}

\* However a stage leaves runJob, it holds nothing: the marker that hides its run from
\* the reaper, the timers; and unless it threw, its `active` entry, its gateway, and its
\* runtime session.  (A Pi batch that an exit hook fails keeps its session: README.)
ReleasedOnExit ==
  /\ Ended => ~inFlight /\ ~killTimer /\ ~stallTimer
  /\ pc = "returned" => /\ ~active
                        /\ gateway # "up"
                        /\ session = "live" => conf.runtime = "pi" /\ result.hook
  /\ session = "live" /\ Working => inFlight

\* A stage that reports ok was not killed, stalled, or (a batch) cancelled while it
\* worked, passed its hooks, and ran no call outside its worktree.
OkIsEarned ==
  result.status = "ok" =>
    /\ ~killed /\ ~stalled /\ ~result.hook
    /\ result.cut => conf.interactive
    /\ conf.runtime # "check" => \A c \in Outside : ~Begun(c)

\* A kill by the harness is never billed to the agent (DHK-569): whatever the runner
\* answered and whoever cancelled it first, it is a time-out of class harness.
HarnessTakesBlame ==
  Settled /\ (killed \/ stalled) => result.status = "timeout" /\ result.class = "harness"

\* Where the runtime asks first, no more calls run than max_tool_calls allows, in
\* whatever order the calls are asked for and surface, repeated or not.
CapHolds == Gated => Cardinality({c \in Calls : Begun(c)}) <= conf.cap

\* @dahrk/contracts, quoted in stage-runner.ts: "on expiry the executor kills the runner;
\* the engine marks the stage timeout".
ExpiryEndsStage == killed ~> Settled \/ Ended

\* The same where the kill found a session to stop.
ReachedKillEndsStage == killed /\ stopping ~> Settled

\* A batch agent that goes silent with no call open does not hang its stage.
SilenceEndsStage ==
  pc = "work" /\ Watched /\ ~(cancelled /\ ~stopping) ~> Settled \/ open # {}

\* Once the verdict has settled the stage returns it; for Pi, whose MCP clients nobody
\* closes, provided it holds no stream through the gateway.
VerdictIsReturned == Settled ~> Ended \/ (conn /\ conf.runtime = "pi")
=============================================================================
