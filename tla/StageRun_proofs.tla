-------------------------- MODULE StageRun_proofs --------------------------
(***************************************************************************)
(* Proofs about StageRun, for every set of calls, every cap and every job: *)
(* whatever the order of the wall clock, the watchdog, a cancel, the tool  *)
(* calls and the end of the runner, a harness kill is billed to the        *)
(* harness, and a stage that has left runJob holds nothing.                *)
(***************************************************************************)
EXTENDS MCStage, TLAPS, FiniteSetTheorems, SeqFacts

\* The booleans and the other values the steps below compute with.
Basics ==
  /\ conf \in Confs /\ pc \in PCs
  /\ inFlight \in BOOLEAN /\ active \in BOOLEAN
  /\ cancelled \in BOOLEAN
  /\ killTimer \in BOOLEAN /\ killed \in BOOLEAN
  /\ stallTimer \in BOOLEAN /\ stalled \in BOOLEAN
  /\ escaped \in BOOLEAN
  /\ result \in [status : {"none", "ok", "fail", "timeout"},
                 class : {"none", "harness", "config"}, hook : BOOLEAN, cut : BOOLEAN]

\* A timer runs only while the runner works, so it fires neither before the stage's early
\* exits nor into a settled verdict; and when one has fired the runner's flag is set.
TimersInv ==
  /\ killTimer \/ stallTimer => Working
  /\ killed \/ stalled => cancelled /\ pc \notin {"arrive", "prepare", "gateway", "start"}
  /\ Settled => pc \in {"summarise", "stop", "ship", "returned"}

\* What the stage holds at each point.
HeldInv ==
  /\ inFlight <=> pc \notin {"arrive", "returned", "threw"}
  /\ active => pc \in {"open", "work", "summarise", "threw"}
  /\ gateway = "up" => pc \notin {"arrive", "prepare", "gateway", "ship", "returned"}
  /\ session = "live" => \/ pc \in {"work", "summarise"}
                         \/ conf.runtime = "pi" /\ result.hook /\ Settled /\ pc # "threw"

Inv == Basics /\ TimersInv /\ HeldInv /\ HarnessTakesBlame

-----------------------------------------------------------------------------
\* The invariant holds at the start.
LEMMA InitInv == Init => Inv
<1> SUFFICES ASSUME Init PROVE Inv
  OBVIOUS
<1>1. Basics BY DEF Init, Basics, PCs
<1>2. TimersInv BY DEF Init, TimersInv, Working, Settled
<1>3. HeldInv BY DEF Init, HeldInv
<1>4. HarnessTakesBlame BY DEF Init, HarnessTakesBlame
<1>5. QED BY <1>1, <1>2, <1>3, <1>4 DEF Inv

USE DEF Inv, Basics, PCs, TimersInv, HeldInv, HarnessTakesBlame, Settled, Working, Ended,
        holdVars, runnerVars, killVars, stallVars, callVars

\* Everything up to the runner.
LEMMA BeforeStep == ASSUME Inv, Before PROVE Inv'
<1>1. CASE Refuse BY <1>1 DEF Refuse
<1>2. CASE Admit BY <1>2 DEF Admit
<1>3. CASE Prepare BY <1>3 DEF Prepare
<1>4. CASE PrepareThrows BY <1>4 DEF PrepareThrows, Throw
<1>5. CASE StartGateway BY <1>5 DEF StartGateway
<1>6. CASE StartThrows BY <1>6 DEF StartThrows, Throw
<1>7. CASE Start BY <1>7 DEF Start, Watched, Confs
<1>8. CASE OpenSession BY <1>8 DEF OpenSession
<1>9. CASE OpenThrows BY <1>9 DEF OpenThrows, Throw
<1>10. CASE \E class \in {"none", "harness"} : PrepareFails(class)
  <2> SUFFICES ASSUME NEW class \in {"none", "harness"}, PrepareFails(class) PROVE Inv'
    BY <1>10
  <2> QED
    BY DEF PrepareFails, Finish
<1>11. QED
  BY <1>1, <1>2, <1>3, <1>4, <1>5, <1>6, <1>7, <1>8, <1>9, <1>10 DEF Before

\* The agent, the MCP server, and the three ways to cancel.
LEMMA AgentStep == ASSUME Inv, Agent \/ UpstreamCloses PROVE Inv'
<1>1. CASE Live BY <1>1 DEF Live, BumpStall, Watched
<1>2. CASE Connect BY <1>2 DEF Connect
<1>3. ASSUME NEW c \in Calls, Authorize(c) PROVE Inv'
  BY <1>3 DEF Authorize
<1>4. ASSUME NEW c \in Calls, RunUngated(c) PROVE Inv'
  BY <1>4 DEF RunUngated
<1>5. ASSUME NEW c \in Calls, Surface(c) PROVE Inv'
  <2>1. escaped' \in BOOLEAN
    BY <1>5 DEF Surface, SurfaceAuthorised, SurfaceOther
  <2>2. stallTimer' \in BOOLEAN /\ stalled' = stalled
    BY <1>5 DEF Surface, SurfaceAuthorised, SurfaceOther, BumpStall
  <2>3. pc = "work" /\ UNCHANGED <<conf, pc, holdVars, runnerVars, killVars, result>>
    BY <1>5 DEF Surface
  <2>4. QED
    BY <2>1, <2>2, <2>3
<1>6. ASSUME NEW c \in Calls, Observe(c) PROVE Inv'
  BY <1>6 DEF Observe, BumpStall, Watched
<1>7. CASE UpstreamCloses BY <1>7 DEF UpstreamCloses
<1>8. QED BY <1>1, <1>2, <1>3, <1>4, <1>5, <1>6, <1>7 DEF Agent

\* A cancel, from wherever it comes, keeps the invariant.
LEMMA CancelStep == ASSUME Inv, Cancel PROVE Inv'
<1>1. CASE KillFires BY <1>1 DEF KillFires, CancelRunner
<1>2. CASE StallFires BY <1>2 DEF StallFires, CancelRunner
<1>3. CASE HubCancel BY <1>3 DEF HubCancel, CancelRunner
<1>4. QED BY <1>1, <1>2, <1>3 DEF Cancel

\* A Pi session is kept only by an ok batch.  If the stage is then not ok it was a hook:
\* a kill or a stall has cancelled the runner, whose answer is no longer ok.
LEMMA ReturnStep ==
  ASSUME Inv, pc = "work",
         NEW status \in {"ok", "fail", "timeout"}, NEW class \in {"none", "config"},
         NEW hookOk \in BOOLEAN, RunnerReturns(status, class, hookOk)
  PROVE  Inv'
<1> DEFINE final == StatusOf(status, hookOk)
<1> USE DEF RunnerReturns, Settle
<1>1. final \in {"ok", "fail", "timeout"}
  BY DEF StatusOf
<1>2. pc' \in {"summarise", "stop", "ship"} /\ (pc' = "summarise" => final = "ok")
  BY DEF Finish
<1>3. Basics'
  BY <1>1, <1>2 DEF CloseSession, HookFailed, Unblocked, Finish
<1>4. TimersInv'
  BY <1>2 DEF CloseSession
<1>5. HarnessTakesBlame'
  <2>1. result'.status = final /\ result'.class = (IF killed \/ stalled THEN "harness" ELSE class)
    OBVIOUS
  <2>2. killed \/ stalled => final = "timeout"
    BY DEF StatusOf
  <2>3. killed' = killed /\ stalled' = stalled
    OBVIOUS
  <2>4. QED
    BY <2>1, <2>2, <2>3
<1>6. session' = "live" /\ pc' # "summarise" => conf.runtime = "pi" /\ HookFailed(status, hookOk)
  <2> SUFFICES ASSUME session' = "live", pc' # "summarise"
               PROVE  conf.runtime = "pi" /\ HookFailed(status, hookOk)
    OBVIOUS
  <2>1. conf.runtime = "pi" /\ ~conf.interactive /\ status = "ok"
    BY DEF CloseSession
  <2>2. ~cancelled
    BY <2>1 DEF Statuses, CancelledStatuses
  <2>3. ~killed /\ ~stalled
    BY <2>2
  <2>4. final # "ok"
    BY <2>1 DEF Finish
  <2>5. QED
    BY <2>1, <2>3, <2>4 DEF StatusOf, HookFailed, Unblocked, Gated
<1>7. HeldInv'
  BY <1>1, <1>2, <1>6 DEF Finish, HookFailed
<1>8. QED
  BY <1>3, <1>4, <1>5, <1>7

\* So does what follows the runner.
LEMMA AfterStep == ASSUME Inv, After PROVE Inv'
<1>1. CASE Summarise BY <1>1 DEF Summarise, Finish
<1>2. CASE StopGateway BY <1>2 DEF StopGateway
<1>3. CASE Ship BY <1>3 DEF Ship
<1>4. QED BY <1>1, <1>2, <1>3 DEF After

\* A step keeps the invariant.
LEMMA Step == Inv /\ [Next]_vars => Inv'
<1> SUFFICES ASSUME Inv, [Next]_vars PROVE Inv'
  OBVIOUS
<1>1. CASE Before BY <1>1, BeforeStep
<1>2. CASE Agent \/ UpstreamCloses BY <1>2, AgentStep
<1>3. CASE Cancel BY <1>3, CancelStep
<1>4. CASE Return BY <1>4, ReturnStep DEF Return, RunnerEnds
<1>5. CASE Stopped BY <1>5, ReturnStep DEF Stopped, RunnerStopped
<1>6. CASE After BY <1>6, AfterStep
<1>7. CASE UNCHANGED vars BY <1>7 DEF vars
<1>8. QED BY <1>1, <1>2, <1>3, <1>4, <1>5, <1>6, <1>7 DEF Next

-----------------------------------------------------------------------------
HIDE DEF Inv, HarnessTakesBlame

\* It holds always.
LEMMA Invariance == Spec => []Inv
  BY InitInv, Step, PTL DEF Spec

\* A stage the wall clock or the watchdog stopped is a time-out of class harness,
\* whatever its runner answered (stage-runner.ts, DHK-569).
THEOREM HarnessTakesBlameAlways == Spec => []HarnessTakesBlame
<1>1. Inv => HarnessTakesBlame
  BY DEF Inv
<1>2. QED
  BY <1>1, Invariance, PTL

\* However a stage leaves runJob it holds nothing (DHK-371).
THEOREM ReleasedOnExitAlways == Spec => []ReleasedOnExit
<1>1. Inv => ReleasedOnExit
  BY DEF Inv, ReleasedOnExit
<1>2. QED
  BY <1>1, Invariance, PTL

-----------------------------------------------------------------------------
(***************************************************************************)
(* The tool calls: each is asked for at most once and surfaces at most     *)
(* once, which bounds the counters; and what ran, surfaced and is open.    *)
(***************************************************************************)

AskedFor == {c \in Calls : phase[c] # "new"}
Ran      == {c \in Calls : Begun(c)}

CallTypes ==
  /\ phase \in [Calls -> {"new", "running", "refused", "over", "dropped"}]
  /\ shown \subseteq Calls /\ open \subseteq shown
  /\ auth \in [Calls -> Nat]
  /\ count \in Nat

CountInv ==
  /\ \A key \in Calls : auth[key] <= Cardinality(AskedFor)
  /\ count <= Cardinality(AskedFor) + Cardinality(shown)
  /\ Gated => Cardinality(Ran) <= count /\ Cardinality(Ran) <= conf.cap

\* A call out of the worktree is refused where the runtime asks first; where it does not,
\* a mock's has surfaced by the time it is over, and is remembered as an escape.
ShownInv ==
  /\ pc \in {"arrive", "prepare", "gateway", "start", "open"} => shown = {}
  /\ \A c \in Calls : phase[c] \in {"over", "dropped"} => c \in shown \ open
  /\ ~Gated => /\ \A c \in Calls : auth[c] = 0 /\ phase[c] \in {"new", "running", "over"}
               /\ conf.runtime = "mock" /\ ~(shown \cap Outside = {}) => escaped
  /\ Gated => \A c \in Outside : ~Begun(c)

\* The watchdog, the flags of a cancel, the session a runner works in.
WatchInv ==
  /\ stopping => cancelled
  /\ Watched /\ Working => /\ stallTimer => open = {}
                           /\ open = {} => stallTimer \/ stalled

Moves == \E c \in Calls : Authorize(c) \/ RunUngated(c) \/ Surface(c) \/ Observe(c)

CallsInv == Inv /\ CallTypes /\ CountInv /\ ShownInv /\ WatchInv /\ OkIsEarned

\* The invariant of the calls holds at the start.
LEMMA CallsInit == Init => CallsInv
<1> SUFFICES ASSUME Init PROVE CallsInv
  OBVIOUS
<1>1. AskedFor = {} /\ Ran = {} /\ shown = {} /\ Cardinality({}) = 0
  BY FS_EmptySet DEF Init, AskedFor, Ran, Begun
<1>2. CallTypes
  BY DEF Init, CallTypes
<1>3. conf.cap \in Nat
  BY StageRunAssumption DEF Init, Confs
<1>4. CountInv
  BY <1>1, <1>3 DEF Init, CountInv
<1>5. ShownInv
  <2>1. shown \cap Outside = {} /\ (\A c \in Calls : phase[c] = "new" /\ auth[c] = 0)
    BY <1>1 DEF Init
  <2> QED BY <1>1, <2>1, StageRunAssumption DEF ShownInv, Begun
<1>6. WatchInv /\ OkIsEarned
  BY DEF Init, WatchInv, Working, OkIsEarned
<1> QED BY <1>2, <1>4, <1>5, <1>6, InitInv DEF CallsInv

\* Only the calls' own steps change what is known of the calls, and nothing changes the job.
LEMMA OnlyMoves ==
  ASSUME [Next]_vars
  PROVE  conf' = conf /\ (Moves \/ UNCHANGED callVars)
<1> USE DEF holdVars, runnerVars, killVars, stallVars
<1>1. CASE Before
  BY <1>1 DEF Before, Refuse, Admit, Prepare, PrepareThrows, PrepareFails, Throw, StartGateway, StartThrows,
              Start, OpenSession, OpenThrows
<1>2. CASE Agent
  BY <1>2 DEF Agent, Moves, Live, Connect, Authorize, RunUngated, Surface, Observe
<1>3. CASE Cancel \/ UpstreamCloses
  BY <1>3 DEF Cancel, KillFires, StallFires, HubCancel, UpstreamCloses
<1>4. CASE Return \/ Stopped
  BY <1>4 DEF Return, Stopped, RunnerEnds, RunnerStopped, RunnerReturns, Settle
<1>5. CASE After
  BY <1>5 DEF After, Summarise, StopGateway, Ship
<1>6. CASE UNCHANGED vars
  BY <1>6 DEF vars
<1> QED BY <1>1, <1>2, <1>3, <1>4, <1>5, <1>6 DEF Next

\* A call is counted under a call.
LEMMA KeyIsCall == \A c \in Calls : Key(c) \in Calls
BY StageRunAssumption DEF Key

\* The types of the calls' variables.
LEMMA CallTypesStep == Inv /\ CallTypes /\ [Next]_vars => CallTypes'
<1> SUFFICES ASSUME Inv, CallTypes, [Next]_vars PROVE CallTypes'
  OBVIOUS
<1>1. CASE UNCHANGED callVars
  BY <1>1 DEF CallTypes, callVars
<1>2. ASSUME NEW c \in Calls, Authorize(c) PROVE CallTypes'
  BY <1>2, KeyIsCall DEF CallTypes, Authorize, Counted
<1>3. ASSUME NEW c \in Calls, RunUngated(c) PROVE CallTypes'
  BY <1>3 DEF CallTypes, RunUngated
<1>4. ASSUME NEW c \in Calls, Surface(c) PROVE CallTypes'
  BY <1>4, KeyIsCall DEF CallTypes, Surface, SurfaceAuthorised, SurfaceOther, Counted
<1>5. ASSUME NEW c \in Calls, Observe(c) PROVE CallTypes'
  BY <1>5 DEF CallTypes, Observe
<1> QED BY <1>1, <1>2, <1>3, <1>4, <1>5, OnlyMoves DEF Moves

\* Sets of calls are finite, and no larger than Calls.
LEMMA SubsetsOfCalls ==
  /\ IsFiniteSet(Calls)
  /\ \A S \in SUBSET Calls : IsFiniteSet(S) /\ Cardinality(S) \in Nat /\ Cardinality(S) <= Cardinality(Calls)
  /\ \A S \in SUBSET Calls : \A c \in Calls \ S : Cardinality(S \cup {c}) = Cardinality(S) + 1
  /\ AskedFor \in SUBSET Calls /\ Ran \in SUBSET Calls
BY StageRunAssumption, FS_Subset, FS_CardinalityType, FS_AddElement DEF AskedFor, Ran

\* The counters grow with the calls.
LEMMA CountStep == Inv /\ CallTypes /\ CountInv /\ [Next]_vars => CountInv'
<1> SUFFICES ASSUME Inv, CallTypes, CountInv, [Next]_vars PROVE CountInv'
  OBVIOUS
<1>0. conf' = conf /\ (Gated' <=> Gated) /\ conf.cap \in Nat
  BY OnlyMoves, StageRunAssumption DEF Gated, Inv, Basics, Confs
<1>1. CASE UNCHANGED callVars
  BY <1>0, <1>1 DEF CountInv, callVars, AskedFor, Ran, Begun
<1>2. ASSUME NEW c \in Calls, Authorize(c) PROVE CountInv'
  <2>1. AskedFor' = AskedFor \cup {c} /\ c \notin AskedFor /\ UNCHANGED shown
    BY <1>2 DEF Authorize, AskedFor, CallTypes
  <2>2. Cardinality(AskedFor') = Cardinality(AskedFor) + 1
    BY <2>1, SubsetsOfCalls
  <2>3. count' \in {count, count + 1} /\ \A key \in Calls : auth'[key] \in {auth[key], auth[key] + 1}
    BY <1>2, KeyIsCall DEF Authorize, Counted, CallTypes
  <2>4. /\ \A key \in Calls : auth'[key] <= Cardinality(AskedFor')
        /\ count' <= Cardinality(AskedFor') + Cardinality(shown')
    BY <2>1, <2>2, <2>3, SubsetsOfCalls DEF CountInv, CallTypes
  <2>5. CASE Outcome(c) = "allow"
    <3>1. count' = count + 1 /\ count + 1 <= conf.cap
      BY <1>0, <1>2, <2>5 DEF Authorize, Counted, Outcome, CallTypes
    <3>2. Ran' = Ran \cup {c} /\ c \notin Ran
      BY <1>2, <2>5 DEF Authorize, Ran, Begun, CallTypes
    <3>3. Cardinality(Ran') = Cardinality(Ran) + 1
      BY <3>2, SubsetsOfCalls
    <3> QED BY <1>0, <2>4, <3>1, <3>3, SubsetsOfCalls DEF CountInv, CallTypes
  <2>6. CASE Outcome(c) # "allow"
    <3>1. Ran' = Ran
      BY <1>2, <2>6 DEF Authorize, Ran, Begun, CallTypes
    <3> QED BY <1>0, <2>3, <2>4, <3>1, SubsetsOfCalls DEF CountInv, CallTypes
  <2> QED BY <2>5, <2>6
<1>3. ASSUME NEW c \in Calls, RunUngated(c) PROVE CountInv'
  <2>1. AskedFor' = AskedFor \cup {c} /\ c \notin AskedFor /\ UNCHANGED <<shown, auth, count>> /\ ~Gated
    BY <1>3 DEF RunUngated, AskedFor, CallTypes
  <2>2. Cardinality(AskedFor') = Cardinality(AskedFor) + 1
    BY <2>1, SubsetsOfCalls
  <2> QED BY <1>0, <2>1, <2>2, SubsetsOfCalls DEF CountInv, CallTypes
<1>4. ASSUME NEW c \in Calls, Surface(c) PROVE CountInv'
  <2>1. shown' = shown \cup {c} /\ c \notin shown /\ UNCHANGED <<phase, AskedFor, Ran>>
    BY <1>4 DEF Surface, AskedFor, Ran, Begun
  <2>2. Cardinality(shown') = Cardinality(shown) + 1 /\ Cardinality(shown) \in Nat
    BY <2>1, SubsetsOfCalls DEF CallTypes
  <2>3. count' \in {count, count + 1}
    BY <1>4 DEF Surface, SurfaceAuthorised, SurfaceOther, Counted
  <2>4. \A key \in Calls : auth'[key] \in {auth[key], auth[key] - 1}
    BY <1>4, KeyIsCall DEF Surface, SurfaceAuthorised, SurfaceOther, CallTypes
  <2> QED BY <1>0, <2>1, <2>2, <2>3, <2>4, SubsetsOfCalls DEF CountInv, CallTypes
<1>5. ASSUME NEW c \in Calls, Observe(c) PROVE CountInv'
  <2>1. AskedFor' = AskedFor /\ Ran' = Ran /\ UNCHANGED <<shown, auth, count>>
    BY <1>5 DEF Observe, AskedFor, Ran, Begun, CallTypes
  <2> QED BY <1>0, <2>1 DEF CountInv
<1> QED BY <1>1, <1>2, <1>3, <1>4, <1>5, OnlyMoves DEF Moves

\* What has surfaced, and what is open.
LEMMA ShownStep == Inv /\ CallTypes /\ ShownInv /\ [Next]_vars => ShownInv'
<1> SUFFICES ASSUME Inv, CallTypes, ShownInv, [Next]_vars PROVE ShownInv'
  OBVIOUS
<1>0. conf' = conf /\ (Gated' <=> Gated)
  BY OnlyMoves DEF Gated
<1>1. CASE UNCHANGED callVars
  <2>1. pc' \in {"arrive", "prepare", "gateway", "start", "open"} => shown = {}
    <3> USE DEF ShownInv, holdVars, runnerVars, killVars, stallVars
    <3>1. CASE Before
      BY <3>1 DEF Before, Refuse, Admit, Prepare, PrepareThrows, PrepareFails, Throw, StartGateway, StartThrows,
                  Start, OpenSession, OpenThrows, Finish
    <3>2. CASE Agent
      BY <3>2 DEF Agent, Live, Connect, Authorize, RunUngated, Surface, Observe
    <3>3. CASE Cancel \/ UpstreamCloses
      BY <3>3 DEF Cancel, KillFires, StallFires, HubCancel, UpstreamCloses
    <3>4. CASE Return \/ Stopped
      BY <3>4 DEF Return, Stopped, RunnerEnds, RunnerStopped, RunnerReturns, Settle, Finish
    <3>5. CASE After
      BY <3>5 DEF After, Summarise, StopGateway, Ship, Finish
    <3>6. CASE UNCHANGED vars
      BY <3>6 DEF vars
    <3> QED BY <3>1, <3>2, <3>3, <3>4, <3>5, <3>6 DEF Next
  <2> QED BY <1>0, <1>1, <2>1 DEF ShownInv, callVars, Begun
<1>2. ASSUME NEW c \in Calls, Authorize(c) PROVE ShownInv'
  <2>1. conf.runtime # "check" /\ Gated /\ UNCHANGED <<shown, open>> /\ pc' = "work"
    BY <1>2 DEF Authorize, Gated
  <2>2. \/ phase' = [phase EXCEPT ![c] = "running"] /\ c \notin Outside
        \/ phase' = [phase EXCEPT ![c] = "refused"]
    BY <1>2, <2>1 DEF Authorize, Outcome
  <2> QED BY <1>0, <2>1, <2>2, StageRunAssumption DEF ShownInv, CallTypes, Begun
<1>3. ASSUME NEW c \in Calls, RunUngated(c) PROVE ShownInv'
  BY <1>0, <1>3 DEF ShownInv, CallTypes, Begun, RunUngated
<1>4. ASSUME NEW c \in Calls, Surface(c) PROVE ShownInv'
  <2>1. phase' = phase /\ pc' = "work" /\ shown' = shown \cup {c} /\ open' \subseteq open \cup {c} /\ c \notin shown
    BY <1>4 DEF Surface, SurfaceAuthorised, SurfaceOther
  <2>2. \A d \in Calls : phase[d] \in {"over", "dropped"} => d \in shown' \ open'
    BY <2>1 DEF ShownInv
  <2>3. ASSUME ~Gated PROVE auth' = auth /\ (conf.runtime = "mock" /\ (c \in Outside \/ escaped) => escaped')
    <3>1. auth[Key(c)] = 0
      BY <2>3, KeyIsCall DEF ShownInv
    <3>2. auth' = auth /\ (escaped' <=> escaped \/ Outcome(c) = "fs_confine")
      <4>1. SurfaceOther(c)
        BY <1>4, <3>1 DEF Surface, SurfaceAuthorised
      <4> QED BY <4>1, Zenon DEF SurfaceOther
    <3>3. conf.runtime = "mock" /\ c \in Outside => Outcome(c) = "fs_confine"
      BY DEF Outcome
    <3> QED BY <3>2, <3>3, Zenon
  <2> QED BY <1>0, <2>1, <2>2, <2>3 DEF ShownInv, Begun
<1>5. ASSUME NEW c \in Calls, Observe(c) PROVE ShownInv'
  <2>1. pc' = "work" /\ shown' = shown /\ open' = open \ {c} /\ c \in shown /\ auth' = auth /\ escaped' = escaped
    BY <1>5 DEF Observe
  <2>2. phase' = [phase EXCEPT ![c] = IF @ = "running" THEN "over" ELSE "dropped"]
        /\ phase[c] \in {"running", "refused"}
    BY <1>5 DEF Observe
  <2> QED BY <1>0, <2>1, <2>2 DEF ShownInv, CallTypes, Begun
<1> QED BY <1>1, <1>2, <1>3, <1>4, <1>5, OnlyMoves DEF Moves

\* The watchdog runs exactly while no call is open.
LEMMA WatchStep == Inv /\ CallTypes /\ ShownInv /\ WatchInv /\ [Next]_vars => WatchInv'
<1> SUFFICES ASSUME Inv, CallTypes, ShownInv, WatchInv, [Next]_vars PROVE WatchInv'
  OBVIOUS
<1> USE DEF WatchInv, Working, Watched, holdVars, runnerVars, killVars, stallVars, callVars
<1>1. CASE Before
  <2>1. CASE Start
    <3>1. open = {} /\ open' = open /\ UNCHANGED <<conf, stopping, cancelled>>
      BY <2>1 DEF Start, ShownInv, CallTypes
    <3>2. stallTimer' <=> conf.runtime # "check" /\ ~conf.interactive
      BY <2>1 DEF Start
    <3> QED BY <3>1, <3>2
  <2>2. CASE OpenSession
    <3>1. pc = "open" /\ pc' = "work" /\ UNCHANGED <<conf, stallTimer, stalled, open, stopping, cancelled>>
      BY <2>2 DEF OpenSession
    <3> QED BY <3>1
  <2>3. CASE ~Start /\ ~OpenSession
    <3>1. ~(pc' \in {"open", "work"}) /\ UNCHANGED <<stopping, cancelled>>
      BY <1>1, <2>3 DEF Before, Refuse, Admit, Prepare, PrepareThrows, PrepareFails, Throw, StartGateway,
                        StartThrows, OpenThrows, Finish
    <3> QED BY <3>1
  <2> QED BY <2>1, <2>2, <2>3
<1>2. CASE Live
  <2>1. (stallTimer' <=> Watched /\ open = {}) /\ UNCHANGED <<stalled, conf, pc, open, stopping, cancelled>>
    BY <1>2 DEF Live, BumpStall
  <2> QED BY <2>1
<1>3. ASSUME NEW c \in Calls, Authorize(c) \/ RunUngated(c) PROVE WatchInv'
  BY <1>3 DEF Authorize, RunUngated
<1>4. ASSUME NEW c \in Calls, Surface(c) PROVE WatchInv'
  BY <1>4 DEF Surface, SurfaceAuthorised, SurfaceOther, BumpStall
<1>5. ASSUME NEW c \in Calls, Observe(c) PROVE WatchInv'
  BY <1>5 DEF Observe, BumpStall
<1>6. CASE Cancel \/ UpstreamCloses
  BY <1>6 DEF Cancel, KillFires, StallFires, HubCancel, CancelRunner, UpstreamCloses
<1>7. CASE Return \/ Stopped
  BY <1>7 DEF Return, Stopped, RunnerEnds, RunnerStopped, RunnerReturns, Settle, CloseSession, Finish
<1>8. CASE After
  BY <1>8 DEF After, Summarise, StopGateway, Ship, Finish
<1>9. CASE UNCHANGED vars
  BY <1>9 DEF vars
<1>10. CASE Connect
  BY <1>10 DEF Connect
<1> QED BY <1>1, <1>2, <1>3, <1>4, <1>5, <1>6, <1>7, <1>8, <1>9, <1>10 DEF Next, Agent

\* The verdict: what a runner can answer, and what settling makes of it.
LEMMA OkReturns ==
  ASSUME Inv, CallTypes, ShownInv, WatchInv, pc = "work",
         NEW status \in {"ok", "fail", "timeout"}, NEW class \in {"none", "config"}, NEW hookOk \in BOOLEAN,
         RunnerReturns(status, class, hookOk),
         stopping \/ \A c \in Calls : phase[c] \notin {"running", "refused"}
  PROVE  OkIsEarned'
<1> SUFFICES ASSUME StatusOf(status, hookOk) = "ok"
             PROVE  /\ ~killed /\ ~stalled /\ ~HookFailed(status, hookOk)
                    /\ cancelled => conf.interactive
                    /\ conf.runtime # "check" => \A c \in Outside : ~Begun(c)
  BY DEF RunnerReturns, Settle, OkIsEarned, Begun, callVars
<1>1. status = "ok" /\ ~killed /\ ~stalled /\ ~Unblocked /\ ~HookFailed(status, hookOk)
  BY DEF StatusOf, HookFailed
<1>2. cancelled => conf.interactive
  BY <1>1 DEF RunnerReturns, Statuses, CancelledStatuses
<1>3. ASSUME conf.runtime # "check", NEW c \in Outside PROVE ~Begun(c)
  <2>1. CASE Gated
    BY <2>1 DEF ShownInv
  <2>2. CASE ~Gated
    <3>1. conf.runtime = "mock" /\ ~conf.interactive
      BY <1>3, <2>2 DEF Gated, Inv, Basics, Confs
    <3>2. ~stopping
      BY <1>2, <3>1 DEF WatchInv
    <3>3. phase[c] \in {"new", "over"} /\ (phase[c] = "over" => c \in shown)
      BY <2>2, <3>2, StageRunAssumption DEF ShownInv
    <3>4. c \notin shown
      BY <1>1, <2>2, <3>1 DEF ShownInv, Unblocked
    <3> QED BY <3>3, <3>4 DEF Begun
  <2> QED BY <2>1, <2>2
<1> QED BY <1>1, <1>2, <1>3

\* A step keeps ok earned.
LEMMA OkStep == Inv /\ CallTypes /\ ShownInv /\ WatchInv /\ OkIsEarned /\ [Next]_vars => OkIsEarned'
<1> SUFFICES ASSUME Inv, CallTypes, ShownInv, WatchInv, OkIsEarned, [Next]_vars PROVE OkIsEarned'
  OBVIOUS
<1> USE DEF holdVars, runnerVars, killVars, stallVars, callVars
<1>1. CASE Before
  BY <1>1 DEF Before, Refuse, Admit, Prepare, PrepareThrows, PrepareFails, Throw, StartGateway,
              StartThrows, Start, OpenSession, OpenThrows, OkIsEarned, Begun, Inv, Basics
<1>2. CASE Live \/ Connect \/ UpstreamCloses
  BY <1>2 DEF Live, Connect, BumpStall, UpstreamCloses, OkIsEarned, Begun
<1>3. CASE Moves
  <2>1. pc = "work" /\ result' = result
    BY <1>3 DEF Moves, Authorize, RunUngated, Surface, Observe
  <2>2. result.status = "none"
    BY <2>1 DEF Inv, TimersInv, Settled
  <2> QED BY <2>1, <2>2 DEF OkIsEarned
<1>4. CASE KillFires \/ StallFires
  <2>1. result' = result /\ Working
    BY <1>4 DEF KillFires, StallFires, Inv, TimersInv
  <2>2. result.status = "none"
    BY <2>1 DEF Inv, TimersInv, Settled, Working
  <2> QED BY <2>1, <2>2 DEF OkIsEarned
<1>5. CASE HubCancel
  BY <1>5 DEF HubCancel, OkIsEarned, Begun
<1>6. CASE Return
  <2>1. PICK status \in {"ok", "fail", "timeout"}, class \in {"none", "config"}, hookOk \in BOOLEAN :
          RunnerEnds(status, class, hookOk)
    BY <1>6 DEF Return
  <2> QED BY <2>1, OkReturns DEF RunnerEnds
<1>7. CASE Stopped
  <2>1. PICK status \in {"ok", "fail", "timeout"}, hookOk \in BOOLEAN : RunnerStopped(status, hookOk)
    BY <1>7 DEF Stopped
  <2> QED BY <2>1, OkReturns DEF RunnerStopped
<1>8. CASE After
  BY <1>8 DEF After, Summarise, StopGateway, Ship, OkIsEarned, Begun
<1>9. CASE UNCHANGED vars
  BY <1>9 DEF vars, OkIsEarned, Begun
<1> QED BY <1>1, <1>2, <1>3, <1>4, <1>5, <1>6, <1>7, <1>8, <1>9 DEF Next, Agent, Cancel, Moves

\* A step keeps the invariant of the calls.
LEMMA CallsStep == CallsInv /\ [Next]_vars => CallsInv'
BY Step, CallTypesStep, CountStep, ShownStep, WatchStep, OkStep DEF CallsInv

\* The values of the gateway, the stream and the session.
HoldTypes ==
  /\ gateway \in {"none", "up", "down"} /\ session \in {"none", "live", "closed"}
  /\ conn \in BOOLEAN /\ stopping \in BOOLEAN

\* A step keeps those values.
LEMMA HoldTypesStep ==
  ASSUME Inv, HoldTypes, [Next]_vars
  PROVE  HoldTypes'
<1> USE DEF HoldTypes, holdVars, runnerVars, killVars, stallVars, callVars
<1>1. CASE Before
  BY <1>1 DEF Before, Refuse, Admit, Prepare, PrepareThrows, PrepareFails, Throw, StartGateway,
              StartThrows, Start, OpenSession, OpenThrows, Finish
<1>2. CASE Live \/ Connect \/ UpstreamCloses
  BY <1>2 DEF Live, Connect, BumpStall, UpstreamCloses
<1>3. CASE Moves
  BY <1>3 DEF Moves, Authorize, RunUngated, Surface, Observe
<1>4. CASE Cancel
  <2>1. stopping' \in BOOLEAN /\ session' \in {session, "closed"} /\ UNCHANGED <<gateway, conn>>
    BY <1>4 DEF Cancel, KillFires, StallFires, HubCancel, CancelRunner
  <2> QED BY <2>1
<1>5. CASE Return \/ Stopped
  <2>1. conn' \in BOOLEAN /\ session' \in {session, "closed"} /\ UNCHANGED <<gateway, stopping>>
    BY <1>5 DEF Return, Stopped, RunnerEnds, RunnerStopped, RunnerReturns, Settle, CloseSession, Finish
  <2> QED BY <2>1
<1>6. CASE After
  BY <1>6 DEF After, Summarise, StopGateway, Ship, Finish
<1>7. CASE UNCHANGED vars
  BY <1>7 DEF vars
<1> QED BY <1>1, <1>2, <1>3, <1>4, <1>5, <1>6, <1>7 DEF Next, Agent, Moves

\* What the invariants say of a stage.
LEMMA StageIsRight ==
  ASSUME CallsInv, HoldTypes
  PROVE  TypeOK /\ OkIsEarned /\ CapHolds /\ WatchdogFollowsTools
<1>1. CapHolds
  BY DEF CallsInv, CountInv, CapHolds, Ran
<1>2. WatchdogFollowsTools
  <2>1. Working => \A c \in open : phase[c] \in {"new", "running", "refused"}
    BY DEF CallsInv, CallTypes, ShownInv
  <2> QED BY <2>1 DEF CallsInv, WatchInv, WatchdogFollowsTools
<1>3. auth \in [Calls -> 0..Cardinality(Calls)]
  <2>1. \A key \in Calls : auth[key] \in 0..Cardinality(Calls)
    BY SubsetsOfCalls DEF CallsInv, CallTypes, CountInv
  <2> QED BY <2>1 DEF CallsInv, CallTypes
<1>4. count \in 0..2 * Cardinality(Calls)
  <2>1. count <= Cardinality(AskedFor) + Cardinality(shown) /\ count \in Nat /\ shown \in SUBSET Calls
    BY DEF CallsInv, CallTypes, CountInv
  <2>2. /\ Cardinality(AskedFor) \in Nat /\ Cardinality(AskedFor) <= Cardinality(Calls)
        /\ Cardinality(shown) \in Nat /\ Cardinality(shown) <= Cardinality(Calls)
    BY <2>1, SubsetsOfCalls
  <2>3. Cardinality(Calls) \in Nat
    BY SubsetsOfCalls
  <2> QED BY <2>1, <2>2, <2>3
<1> QED BY <1>1, <1>2, <1>3, <1>4 DEF CallsInv, CallTypes, HoldTypes, Inv, Basics, PCs, TypeOK

-----------------------------------------------------------------------------
(***************************************************************************)
(* The set-up and check commands of a run (Commands).                      *)
(***************************************************************************)

\* The assumption on the constants of Commands.
LEMMA CommandsConstants == C!CommandsAssumption
BY StageSuiteAssumption

CmdTypes ==
  /\ stages \in 0..MaxStages /\ wanted \in [C!Repos -> Scripts] /\ kind \in [C!Checks -> C!Kinds]
  /\ cmdPhase \in {"between", "setup", "check"} /\ k \in 1..NumRepos + NumChecks + 1
  /\ leader \in {"none", "running", "zero", "nonzero", "killed"}
  /\ child \in {"none", "quiet", "holding"}
  /\ verdicts \in Seq({"passed", "failed", "skipped"})
  /\ cmdResult \in {"none", "ok", "fail", "timeout", "setup-failed"}
  /\ marker \in [C!Repos -> Scripts \cup {"none"}] /\ installed \in [C!Repos -> SUBSET Scripts]

CmdFlags == expired \in BOOLEAN /\ cmdCancelled \in BOOLEAN

\* Where a stage is: the set-up of a repository, or a check, the verdicts of those before
\* it given; and no result before it is over.
CmdFlow ==
  /\ cmdPhase = "setup" => k <= NumRepos /\ verdicts = <<>>
  /\ cmdPhase = "check" => k = Len(verdicts) + 1 /\ k <= NumChecks + 1
  /\ leader # "none" => cmdPhase = "setup" \/ (cmdPhase = "check" /\ k <= NumChecks)
  /\ child # "none" => leader # "none"
  /\ cmdPhase # "between" => cmdResult = "none"

\* A sentinel is written after a zero exit in the worktree it stands for; a stage that got
\* to a repository has set up those before it.
CmdInstalled ==
  /\ \A r \in C!Repos : marker[r] \in installed[r] \cup {"none"}
  /\ cmdPhase = "setup" => \A r \in 1..(k - 1) : wanted[r] \in installed[r]
  /\ cmdPhase = "check" => \A r \in C!Repos : wanted[r] \in installed[r]

\* Checks are skipped only after a cancel; a result is that of one verdict per check.
CmdVerdicts ==
  /\ \A i \in 1..Len(verdicts) : verdicts[i] = "skipped" => cmdCancelled
  /\ cmdResult \in {"ok", "fail", "timeout"} => Len(verdicts) = NumChecks
  /\ cmdResult = "ok" => \A i \in 1..NumChecks : verdicts[i] = "passed"

CommandsInv == CmdTypes /\ CmdFlags /\ CmdFlow /\ CmdInstalled /\ CmdVerdicts

\* What a step does to a stage's commands: the stage starts, the set-up of a repository
\* ends well, the stage is left, a check gets its verdict, the checks are over, or only
\* the process group of the command in flight changes.

SameStage == UNCHANGED <<stages, wanted, kind>>
Reaped    == leader' = "none" /\ child' = "none"

Starting ==
  /\ cmdPhase = "between" /\ cmdPhase' = "setup" /\ k' = 1
  /\ verdicts' = <<>> /\ cmdResult' = "none"
  /\ stages' = stages + 1 /\ stages < MaxStages /\ wanted' \in [C!Repos -> Scripts] /\ kind' \in [C!Checks -> C!Kinds]
  /\ UNCHANGED <<leader, child, marker, installed>>

SettingUp ==
  /\ cmdPhase = "setup" /\ SameStage /\ Reaped
  /\ \/ k < NumRepos /\ cmdPhase' = "setup" /\ k' = k + 1
     \/ k = NumRepos /\ cmdPhase' = "check" /\ k' = 1
  /\ \/ marker[k] = wanted[k] /\ UNCHANGED <<marker, installed>>
     \/ /\ marker' = [marker EXCEPT ![k] = wanted[k]]
        /\ installed' = [installed EXCEPT ![k] = @ \cup {wanted[k]}]
  /\ UNCHANGED <<verdicts, cmdResult>>

Leaving ==
  /\ SameStage /\ Reaped
  /\ cmdPhase' = "between" /\ cmdResult' \in {"none", "setup-failed"}
  /\ UNCHANGED <<k, verdicts, marker, installed>>

Recording(status) ==
  /\ cmdPhase = "check" /\ k <= NumChecks /\ SameStage /\ Reaped
  /\ verdicts' = Append(verdicts, status) /\ k' = k + 1
  /\ status = "skipped" => cmdCancelled
  /\ UNCHANGED <<cmdPhase, cmdResult, marker, installed>>

Ending ==
  /\ cmdPhase = "check" /\ k = NumChecks + 1 /\ SameStage
  /\ cmdPhase' = "between" /\ cmdResult' = C!Status
  /\ UNCHANGED <<k, leader, child, verdicts, marker, installed>>

GroupMoves ==
  /\ leader' \in {"none", "running", "zero", "nonzero", "killed"} /\ child' \in {"none", "quiet", "holding"}
  /\ leader' # "none" => leader # "none" \/ cmdPhase = "setup" \/ (cmdPhase = "check" /\ k <= NumChecks)
  /\ child' # "none" => leader' # "none"
  /\ SameStage /\ UNCHANGED <<cmdPhase, k, verdicts, cmdResult, marker, installed>>

CmdEffect ==
  \/ Starting \/ SettingUp \/ Leaving \/ Ending \/ GroupMoves
  \/ \E status \in {"passed", "failed", "skipped"} : Recording(status)

\* The numbers among the types.
LEMMA CmdNumbers ==
  ASSUME CmdTypes
  PROVE  /\ k \in Nat /\ Len(verdicts) \in Nat
         /\ NumRepos \in Nat \ {0} /\ NumChecks \in Nat /\ stages \in Nat /\ MaxStages \in Nat
         /\ leader \in {"none", "running", "zero", "nonzero", "killed"}
         /\ child \in {"none", "quiet", "holding"}
BY CommandsConstants DEF C!CommandsAssumption, CmdTypes

\* Every step of the commands is one of those.
LEMMA CmdEffects ==
  ASSUME CmdTypes, CmdFlow, [C!Next]_C!vars
  PROVE  CmdEffect
<1> USE CmdNumbers
    DEF C!job, C!group, C!verdict, C!tree, CmdFlow, CmdEffect, SameStage, Reaped
<1>1. CASE C!Begin
  BY <1>1 DEF C!Begin, Starting
<1>2. CASE C!Cached
  BY <1>2 DEF C!Cached, C!NextRepo, C!MarkerOf, C!Repos, SettingUp
<1>3. CASE C!RunSetup \/ C!RunCheck
  BY <1>3 DEF C!RunSetup, C!RunCheck, C!Spawn, C!Checks, GroupMoves
<1>4. CASE C!SetupNotRun \/ C!Crash
  BY <1>4 DEF C!SetupNotRun, C!Crash, C!Fail, Leaving
<1>5. CASE C!SetupEnds
  <2>1. CASE leader = "zero"
    BY <1>5, <2>1 DEF C!SetupEnds, C!Settle, C!NextRepo, C!MarkerOf, C!Repos, SettingUp
  <2>2. CASE leader # "zero"
    BY <1>5, <2>2 DEF C!SetupEnds, C!Settle, C!Fail, Leaving
  <2> QED BY <2>1, <2>2
<1>6. CASE C!SkipCheck
  BY <1>6 DEF C!SkipCheck, C!Recorded, C!Checks, Recording
<1>7. CASE C!RunProbe
  BY <1>7 DEF C!RunProbe, C!Recorded, C!Checks, Recording
<1>8. CASE C!CheckEnds
  BY <1>8 DEF C!CheckEnds, C!Closed, C!Ended, C!Settle, C!Recorded, Recording
<1>9. CASE C!Finish
  <2>1. k = NumChecks + 1
    BY <1>9 DEF C!Finish, C!MoreChecks, C!Checks
  <2> QED BY <1>9, <2>1 DEF C!Finish, Ending
<1>10. CASE C!TimesOut \/ C!Cancel
  BY <1>10 DEF C!TimesOut, C!Cancel, C!KillProcessGroup, GroupMoves
<1>11. CASE C!Backgrounds \/ C!Exits
  BY <1>11 DEF C!Backgrounds, C!Exits, GroupMoves
<1>12. CASE UNCHANGED C!vars
  BY <1>12 DEF C!vars, GroupMoves
<1> QED BY <1>1, <1>2, <1>3, <1>4, <1>5, <1>6, <1>7, <1>8, <1>9, <1>10, <1>11, <1>12 DEF C!Next, C!Progress

\* The flags stay flags, and a cancel is forgotten only when the next stage starts.
LEMMA CmdFlagsStep ==
  ASSUME CmdTypes, CmdFlow, CmdFlags, [C!Next]_C!vars
  PROVE  CmdFlags' /\ (cmdCancelled => cmdCancelled' \/ verdicts' = <<>>)
<1> USE DEF CmdFlags, CmdFlow, C!job, C!group, C!verdict, C!tree
<1>1. CASE C!Begin \/ C!Cached \/ C!RunSetup \/ C!SetupNotRun \/ C!SetupEnds
  BY <1>1 DEF C!Begin, C!Cached, C!RunSetup, C!SetupNotRun, C!SetupEnds, C!Spawn
<1>2. CASE C!SkipCheck \/ C!RunCheck \/ C!CheckEnds \/ C!Finish
  BY <1>2 DEF C!SkipCheck, C!RunCheck, C!CheckEnds, C!Finish, C!Spawn
<1>3. CASE C!RunProbe
  BY <1>3 DEF C!RunProbe
<1>4. CASE C!TimesOut \/ C!Cancel \/ C!Crash \/ C!Backgrounds \/ C!Exits
  BY <1>4 DEF C!TimesOut, C!Cancel, C!Crash, C!Backgrounds, C!Exits
<1>5. CASE UNCHANGED C!vars
  BY <1>5 DEF C!vars
<1> QED BY <1>1, <1>2, <1>3, <1>4, <1>5 DEF C!Next, C!Progress

\* The invariant of the commands holds at the start.
LEMMA CommandsInit == C!Init => CommandsInv
<1> SUFFICES ASSUME C!Init PROVE CommandsInv
  OBVIOUS
<1> USE CommandsConstants DEF C!Init, C!CommandsAssumption
<1>1. CmdTypes
  BY DEF CmdTypes
<1>2. CmdFlags /\ CmdFlow
  BY DEF CmdFlags, CmdFlow
<1>3. CmdInstalled
  BY DEF CmdInstalled
<1>4. CmdVerdicts
  <2>1. Len(verdicts) = 0
    OBVIOUS
  <2> QED BY <2>1 DEF CmdVerdicts
<1> QED BY <1>1, <1>2, <1>3, <1>4 DEF CommandsInv

\* A step keeps the types.
LEMMA CmdTypesStep ==
  ASSUME CmdTypes, CmdFlow, CmdEffect
  PROVE  CmdTypes'
<1> USE CommandsConstants DEF C!CommandsAssumption, C!Repos, CmdTypes, SameStage, Reaped
<1>1. CASE Starting
  BY <1>1 DEF Starting
<1>2. CASE SettingUp
  <2>1. k' \in 1..NumRepos + NumChecks + 1 /\ k \in 1..NumRepos
    BY <1>2 DEF SettingUp, CmdFlow
  <2>2. wanted[k] \in Scripts
    BY <2>1
  <2>3. marker' \in [C!Repos -> Scripts \cup {"none"}] /\ installed' \in [C!Repos -> SUBSET Scripts]
    BY <1>2, <2>1, <2>2 DEF SettingUp
  <2> QED BY <1>2, <2>1, <2>3 DEF SettingUp
<1>3. CASE Leaving
  BY <1>3 DEF Leaving
<1>4. ASSUME NEW status \in {"passed", "failed", "skipped"}, Recording(status) PROVE CmdTypes'
  <2>1. verdicts' \in Seq({"passed", "failed", "skipped"})
    BY <1>4 DEF Recording
  <2>2. k' \in 1..NumRepos + NumChecks + 1
    BY <1>4 DEF Recording
  <2> QED BY <1>4, <2>1, <2>2 DEF Recording
<1>5. CASE Ending
  BY <1>5 DEF Ending, C!Status
<1>6. CASE GroupMoves
  BY <1>6 DEF GroupMoves
<1> QED BY <1>1, <1>2, <1>3, <1>4, <1>5, <1>6 DEF CmdEffect

\* A step keeps the order of the phases.
LEMMA CmdFlowStep ==
  ASSUME CmdTypes, CmdFlow, CmdEffect
  PROVE  CmdFlow'
<1> USE CommandsConstants DEF C!CommandsAssumption, CmdFlow, SameStage, Reaped
<1>0. k \in Nat /\ Len(verdicts) \in Nat /\ Len(<<>>) = 0
  BY DEF CmdTypes
<1>1. CASE Starting
  <2>1. leader = "none" /\ child = "none"
    BY <1>1 DEF Starting
  <2> QED BY <1>1, <2>1 DEF Starting
<1>2. CASE SettingUp
  BY <1>0, <1>2 DEF SettingUp
<1>3. CASE Leaving
  BY <1>3 DEF Leaving
<1>4. ASSUME NEW status \in {"passed", "failed", "skipped"}, Recording(status) PROVE CmdFlow'
  <2>1. Len(verdicts') = Len(verdicts) + 1
    BY <1>4 DEF Recording, CmdTypes
  <2> QED BY <1>0, <1>4, <2>1 DEF Recording
<1>5. CASE Ending
  <2>1. leader = "none" /\ child = "none"
    BY <1>0, <1>5 DEF Ending
  <2> QED BY <1>5, <2>1 DEF Ending
<1>6. CASE GroupMoves
  BY <1>0, <1>6 DEF GroupMoves
<1> QED BY <1>1, <1>2, <1>3, <1>4, <1>5, <1>6 DEF CmdEffect

\* A step keeps what is installed where the stage works.
LEMMA CmdInstalledStep ==
  ASSUME CmdTypes, CmdFlow, CmdInstalled, CmdEffect
  PROVE  CmdInstalled'
<1> USE CommandsConstants DEF C!CommandsAssumption, CmdInstalled, SameStage, C!Repos
<1>1. CASE Starting
  BY <1>1 DEF Starting
<1>2. CASE SettingUp
  <2>1. k \in 1..NumRepos /\ wanted' = wanted
    BY <1>2 DEF SettingUp, CmdFlow, CmdTypes
  <2>2. wanted[k] \in Scripts /\ wanted[k] # "none"
    BY <2>1 DEF CmdTypes
  <2>3. \A r \in 1..NumRepos : installed[r] \subseteq installed'[r]
    BY <1>2, <2>1 DEF SettingUp, CmdTypes
  <2>4. wanted[k] \in installed'[k]
    BY <1>2, <2>1, <2>2 DEF SettingUp, CmdTypes
  <2>5. \A r \in 1..NumRepos : marker'[r] \in installed'[r] \cup {"none"}
    BY <1>2, <2>1, <2>3, <2>4 DEF SettingUp, CmdTypes
  <2>6. \A r \in 1..k : wanted[r] \in installed'[r]
    <3>1. \A r \in 1..(k - 1) : wanted[r] \in installed[r] /\ r \in 1..NumRepos
      BY <1>2, <2>1 DEF SettingUp
    <3>2. \A r \in 1..k : r = k \/ r \in 1..(k - 1)
      BY <2>1
    <3> QED BY <2>3, <2>4, <3>1, <3>2
  <2>7. CASE cmdPhase' = "setup" /\ k' = k + 1
    BY <2>1, <2>5, <2>6, <2>7
  <2>8. CASE cmdPhase' = "check" /\ k = NumRepos
    BY <2>1, <2>5, <2>6, <2>8
  <2> QED BY <1>2, <2>7, <2>8 DEF SettingUp
<1>3. CASE Leaving
  BY <1>3 DEF Leaving
<1>4. ASSUME NEW status \in {"passed", "failed", "skipped"}, Recording(status) PROVE CmdInstalled'
  BY <1>4 DEF Recording
<1>5. CASE Ending
  BY <1>5 DEF Ending
<1>6. CASE GroupMoves
  BY <1>6 DEF GroupMoves
<1> QED BY <1>1, <1>2, <1>3, <1>4, <1>5, <1>6 DEF CmdEffect

\* A step keeps the verdicts earned.
LEMMA CmdVerdictsStep ==
  ASSUME CmdTypes, CmdFlow, CmdVerdicts, CmdEffect, cmdCancelled => cmdCancelled' \/ verdicts' = <<>>
  PROVE  CmdVerdicts'
<1> USE CommandsConstants DEF C!CommandsAssumption, CmdVerdicts
<1>1. CASE Starting
  BY <1>1 DEF Starting
<1>2. CASE SettingUp \/ Leaving \/ GroupMoves
  <2>1. verdicts' = verdicts /\ (cmdResult' = cmdResult \/ cmdResult' \in {"none", "setup-failed"})
    BY <1>2 DEF SettingUp, Leaving, GroupMoves
  <2>2. verdicts = <<>> => Len(verdicts) = 0
    OBVIOUS
  <2> QED BY <2>1, <2>2
<1>3. ASSUME NEW status \in {"passed", "failed", "skipped"}, Recording(status) PROVE CmdVerdicts'
  <2>1. cmdResult' = "none"
    BY <1>3 DEF Recording, CmdFlow
  <2>2. Len(verdicts') = Len(verdicts) + 1 /\ Len(verdicts) \in Nat
    BY <1>3 DEF Recording, CmdTypes
  <2>3. \A i \in 1..Len(verdicts') : verdicts'[i] = IF i <= Len(verdicts) THEN verdicts[i] ELSE status
    BY <1>3, <2>2 DEF Recording, CmdTypes
  <2>4. cmdCancelled => cmdCancelled'
    BY <2>2
  <2> QED BY <1>3, <2>1, <2>2, <2>3, <2>4 DEF Recording
<1>4. CASE Ending
  <2>1. verdicts' = verdicts /\ Len(verdicts) = NumChecks /\ cmdResult' = C!Status
    BY <1>4 DEF Ending, CmdFlow, CmdTypes
  <2>2. C!Status = "ok" => \A i \in 1..NumChecks : verdicts[i] = "passed"
    <3> SUFFICES ASSUME C!Status = "ok", NEW i \in 1..NumChecks PROVE verdicts[i] = "passed"
      OBVIOUS
    <3>1. ~cmdCancelled /\ ~("failed" \in C!ToSet(verdicts))
      BY DEF C!Status, C!Failed
    <3>2. verdicts[i] \in {"passed", "failed", "skipped"} /\ i \in DOMAIN verdicts
      BY <2>1 DEF CmdTypes
    <3>3. verdicts[i] # "failed"
      BY <3>1, <3>2 DEF C!ToSet
    <3> QED BY <2>1, <3>1, <3>2, <3>3
  <2>3. verdicts = <<>> => Len(verdicts) = 0
    OBVIOUS
  <2> QED BY <2>1, <2>2, <2>3
<1> QED BY <1>1, <1>2, <1>3, <1>4 DEF CmdEffect

\* A step keeps the invariant of the commands.
LEMMA CommandsStep == CommandsInv /\ [C!Next]_C!vars => CommandsInv'
BY CmdEffects, CmdFlagsStep, CmdTypesStep, CmdFlowStep, CmdInstalledStep, CmdVerdictsStep DEF CommandsInv

\* What the invariant says of the commands.
LEMMA CommandsAreRight ==
  ASSUME CommandsInv
  PROVE  C!TypeOK /\ C!InstalledBeforeUse /\ C!NothingOutlives /\ C!VerdictIsEarned /\ C!EveryCheckAnswers
<1> USE DEF CommandsInv
<1>1. C!TypeOK
  BY DEF C!TypeOK, CmdTypes, CmdFlags, CmdFlow
<1>2. C!InstalledBeforeUse /\ C!NothingOutlives
  BY DEF C!InstalledBeforeUse, C!NothingOutlives, CmdInstalled, CmdFlow
<1>3. C!VerdictIsEarned
  BY DEF C!VerdictIsEarned, CmdVerdicts, CmdTypes, C!Checks
<1>4. C!EveryCheckAnswers
  <2>1. DOMAIN verdicts = 1..Len(verdicts)
    BY DEF CmdTypes
  <2> QED BY <2>1 DEF C!EveryCheckAnswers, CmdVerdicts, C!ToSet
<1> QED BY <1>1, <1>2, <1>3, <1>4

-----------------------------------------------------------------------------
(***************************************************************************)
(* Browse: the paths, what is asked for and what is really there.          *)
(***************************************************************************)

\* The real worktree, and where in a path a link in it can be.
Tree == B!RealTree
Turn == Len(B!RealTree) + 1

\* A path with the link to the worktrees resolved.
Spelt(p) == IF IsPrefix(<<"worktrees">>, p) THEN <<"disk">> \o Tail(p) ELSE p
\* The names, the model's own among them (no prover installed has that a literal is a STRING).
Word == STRING \cup {"worktrees", "disk", "run", "repo", "note", "src", "code", "other", "secret",
                   "in", "out", "broken", "gone", ".git", ".dahrk", "node_modules"}
BrRun == run \in [nested : BOOLEAN, held : BOOLEAN]

\* The names of the model are words.
LEMMA WordsAre ==
  /\ "worktrees" \in Word /\ "disk" \in Word /\ "run" \in Word /\ "repo" \in Word
  /\ "note" \in Word /\ "src" \in Word /\ "code" \in Word /\ "other" \in Word
  /\ "secret" \in Word /\ "gone" \in Word
  /\ {"in", "out", "broken"} \subseteq Word /\ {".git", ".dahrk", "node_modules"} \subseteq Word
BY DEF Word

\* Where the worktree is, and where in a path a link in it can be.
LEMMA TreeIs ==
  ASSUME BrRun
  PROVE  /\ Tree \in Seq(Word) /\ Turn \in {3, 4} /\ Len(Tree) = Turn - 1
         /\ Tree[1] = "disk" /\ Tree[2] = "run"
         /\ Turn = 4 => Tree[3] = "repo"
<1> DEFINE base == <<"disk", "run">>
           more == <<"repo">>
<1>1. base \in Seq(Word) /\ more \in Seq(Word)
  BY WordsAre
<1>2. Len(base) = 2 /\ Len(more) = 1
  OBVIOUS
<1>3. base[1] = "disk" /\ base[2] = "run" /\ more[1] = "repo"
  OBVIOUS
<1>4. Tree = IF run.nested THEN base \o more ELSE base
  BY DEF Tree, B!RealTree, B!RealRun
<1>5. Turn = Len(Tree) + 1
  BY DEF Turn, Tree
<1> HIDE DEF base, more
<1>6. base \o more \in Seq(Word) /\ Len(base \o more) = Len(base) + Len(more)
  BY <1>1
<1>7. Len(base \o more) = 3
  BY <1>2, <1>6
<1>8. (base \o more)[1] = base[1] /\ (base \o more)[2] = base[2] /\ (base \o more)[3] = more[1]
  <2>1. /\ \A i \in 1..Len(base) : (base \o more)[i] = base[i]
        /\ \A i \in 1..Len(more) : (base \o more)[Len(base) + i] = more[i]
    BY <1>1
  <2> QED BY <1>2, <2>1
<1>9. CASE run.nested
  <2>1. Tree = base \o more
    BY <1>4, <1>9
  <2>2. Len(Tree) = 3
    BY <1>7, <2>1
  <2>3. Turn = 4
    BY <1>5, <2>2
  <2> QED BY <1>3, <1>6, <1>8, <2>1, <2>2, <2>3
<1>10. CASE ~run.nested
  <2>1. Tree = base
    BY <1>4, <1>10
  <2>2. Len(Tree) = 2
    BY <1>2, <2>1
  <2>3. Turn = 3
    BY <1>5, <2>2
  <2> QED BY <1>1, <1>3, <2>1, <2>2, <2>3
<1> QED BY <1>9, <1>10

\* The links are in the worktree, and where they lead.
LEMMA LinksAre ==
  ASSUME BrRun, NEW p \in Seq(Word)
  PROVE  /\ p \in B!Links => Len(p) = Turn /\ p[1] = "disk" /\ p[2] = "run"
                             /\ SubSeq(p, 1, Turn - 1) = Tree /\ p[Turn] \in {"in", "out", "broken"}
         /\ p \in B!Links => B!Target(p) \in {Append(Tree, "src"), B!Other, Append(Tree, "gone")}
<1> SUFFICES ASSUME p \in B!Links
    PROVE  /\ Len(p) = Turn /\ p[1] = "disk" /\ p[2] = "run"
           /\ SubSeq(p, 1, Turn - 1) = Tree /\ p[Turn] \in {"in", "out", "broken"}
           /\ B!Target(p) \in {Append(Tree, "src"), B!Other, Append(Tree, "gone")}
  OBVIOUS
<1>1. PICK name \in {"in", "out", "broken"} : p = Append(Tree, name)
  BY DEF B!Links, Tree
<1>2. Len(p) = Turn /\ p[Turn] = name /\ p[1] = Tree[1] /\ p[2] = Tree[2]
  BY <1>1, TreeIs
<1>3. SubSeq(p, 1, Turn - 1) = Tree
  BY <1>1, TreeIs, PrefixOfAppend, WholeOf
<1>4. B!Last(p) = name
  BY <1>2 DEF B!Last
<1>5. B!Target(p) \in {Append(Tree, "src"), B!Other, Append(Tree, "gone")}
  BY <1>4 DEF B!Target, Tree
<1> QED BY <1>2, <1>3, <1>5, TreeIs

\* The link to the worktrees, resolved, gives a path.
LEMMA SpeltIs ==
  ASSUME NEW p \in Seq(Word)
  PROVE  /\ Spelt(p) \in Seq(Word)
         /\ \A x \in Word : p # <<>> => Spelt(Append(p, x)) = Append(Spelt(p), x)
<1>1. Tail(p) \in Seq(Word) \/ p = <<>>
  OBVIOUS
<1>2. IsPrefix(<<"worktrees">>, p) <=> p # <<>> /\ p[1] = "worktrees"
  BY StartsWith
<1>3. <<"disk">> \in Seq(Word)
  BY WordsAre
<1>4. Spelt(p) \in Seq(Word)
  BY <1>1, <1>2, <1>3 DEF Spelt
<1>5. ASSUME NEW x \in Word, p # <<>> PROVE Spelt(Append(p, x)) = Append(Spelt(p), x)
  <2>1. Append(p, x) \in Seq(Word) /\ Append(p, x) # <<>> /\ Append(p, x)[1] = p[1]
    BY <1>5
  <2>2. IsPrefix(<<"worktrees">>, Append(p, x)) <=> IsPrefix(<<"worktrees">>, p)
    BY <1>2, <1>5, <2>1, StartsWith
  <2>3. Tail(p) \in Seq(Word) /\ Tail(Append(p, x)) = Append(Tail(p), x)
    BY <1>5, TailOfAppend
  <2>4. <<"disk">> \o Append(Tail(p), x) = Append(<<"disk">> \o Tail(p), x)
    BY <1>3, <2>3, ConcatOfAppend
  <2> QED BY <2>2, <2>3, <2>4 DEF Spelt
<1> QED BY <1>4, <1>5

\* A path leads through one link at most, the one in the worktree.
LEMMA RealIs ==
  ASSUME BrRun, NEW p \in Seq(Word)
  PROVE  LET q == Spelt(p) IN
         B!Real(p) = IF Turn <= Len(q) /\ SubSeq(q, 1, Turn) \in B!Links
                     THEN B!Target(SubSeq(q, 1, Turn)) \o SubSeq(q, Turn + 1, Len(q)) ELSE q
<1> DEFINE q == Spelt(p)
           link == {n \in 1..Len(q) : SubSeq(q, 1, n) \in B!Links}
<1>1. q \in Seq(Word)
  BY SpeltIs
<1>2. B!Real(p) = IF link = {} THEN q
                 ELSE LET n == CHOOSE n \in link : TRUE
                      IN B!Target(SubSeq(q, 1, n)) \o SubSeq(q, n + 1, Len(q))
  BY DEF B!Real, Spelt, B!IsPrefix, IsPrefix
<1> HIDE DEF q
<1>3. \A n \in link : n = Turn
  <2> SUFFICES ASSUME NEW n \in 1..Len(q), SubSeq(q, 1, n) \in B!Links PROVE n = Turn
    OBVIOUS
  <2>1. SubSeq(q, 1, n) \in Seq(Word) /\ Len(SubSeq(q, 1, n)) = n
    BY <1>1, PrefixOf
  <2> QED BY <2>1, LinksAre
<1>4. Turn \in link <=> Turn <= Len(q) /\ SubSeq(q, 1, Turn) \in B!Links
  BY <1>1, TreeIs
<1>5. CASE Turn \in link
  <2>1. (CHOOSE n \in link : TRUE) = Turn /\ link # {}
    <3> HIDE DEF link
    <3> QED BY <1>3, <1>5
  <2> HIDE DEF link
  <2> QED BY <1>2, <1>4, <1>5, <2>1 DEF q
<1>6. CASE Turn \notin link
  <2>1. link = {}
    BY <1>3, <1>6
  <2> HIDE DEF link
  <2> QED BY <1>2, <1>4, <1>6, <2>1 DEF q
<1> QED BY <1>5, <1>6

\* Where a link leads is no link.
LEMMA TargetIs ==
  ASSUME BrRun, NEW link \in Seq(Word), link \in B!Links, NEW rest \in Seq(Word)
  PROVE  /\ B!Target(link) \in Seq(Word)
         /\ B!Target(link) \o rest \in Seq(Word)
         /\ B!Target(link) \o rest \notin B!Links
<1> DEFINE target == B!Target(link)
           end == target \o rest
<1>1. target \in {Append(Tree, "src"), B!Other, Append(Tree, "gone")}
  BY LinksAre
<1>2. CASE target \in {Append(Tree, "src"), Append(Tree, "gone")}
  <2>1. PICK name \in {"src", "gone"} : target = Append(Tree, name)
    BY <1>2
  <2>2. target \in Seq(Word) /\ Len(target) = Len(Tree) + 1 /\ target[Len(Tree) + 1] = name
    BY <2>1, TreeIs, WordsAre, AppendOf
  <2>3. Len(target) = Turn /\ target[Turn] = name
    BY <2>2, TreeIs
  <2> HIDE DEF target
  <2>4. end \in Seq(Word) /\ \A i \in 1..Len(target) : end[i] = target[i]
    BY <2>2, ConcatOf
  <2>5. end[Turn] = name
    BY <2>3, <2>4, TreeIs
  <2>6. end \notin B!Links
    <3> HIDE DEF end
    <3> QED BY <2>4, <2>5, LinksAre
  <2> QED BY <2>2, <2>4, <2>6 DEF target
<1>3. CASE target = B!Other
  <2>1. target \in Seq(Word) /\ target[2] = "other"
    BY <1>3, WordsAre DEF B!Other
  <2>2. Len(target) = 2
    BY <1>3 DEF B!Other
  <2> HIDE DEF target
  <2>3. end \in Seq(Word) /\ \A i \in 1..Len(target) : end[i] = target[i]
    BY <2>1, ConcatOf
  <2>4. end[2] = "other"
    <3>1. 2 \in 1..Len(target)
      BY <2>2
    <3> QED BY <2>1, <2>3, <3>1
  <2>5. end \notin B!Links
    <3> HIDE DEF end
    <3> QED BY <2>3, <2>4, LinksAre
  <2> QED BY <2>1, <2>3, <2>5 DEF target
<1> QED BY <1>1, <1>2, <1>3

\* A path leads to a path that is no link.
LEMMA RealTyped ==
  ASSUME BrRun, NEW p \in Seq(Word)
  PROVE  B!Real(p) \in Seq(Word) /\ B!Real(p) \notin B!Links
<1> DEFINE q == Spelt(p)
<1>1. q \in Seq(Word)
  BY SpeltIs
<1>2. CASE Turn <= Len(q) /\ SubSeq(q, 1, Turn) \in B!Links
  <2>1. B!Real(p) = B!Target(SubSeq(q, 1, Turn)) \o SubSeq(q, Turn + 1, Len(q))
    BY <1>2, RealIs
  <2> HIDE DEF q
  <2>2. Turn \in 0..Len(q)
    BY <1>1, <1>2, TreeIs
  <2>3. SubSeq(q, 1, Turn) \in Seq(Word) /\ SubSeq(q, Turn + 1, Len(q)) \in Seq(Word)
    BY <1>1, <2>2, PrefixOf
  <2> QED BY <1>2, <2>1, <2>3, TargetIs
<1>3. CASE ~(Turn <= Len(q) /\ SubSeq(q, 1, Turn) \in B!Links)
  <2>1. B!Real(p) = q
    BY <1>3, RealIs
  <2> HIDE DEF q
  <2>2. ASSUME q \in B!Links PROVE FALSE
    <3>1. Len(q) = Turn
      BY <1>1, <2>2, LinksAre
    <3>2. SubSeq(q, 1, Turn) = q
      BY <1>1, <3>1, WholeOf
    <3>3. Turn <= Len(q)
      BY <3>1, TreeIs
    <3> QED BY <1>3, <2>2, <3>2, <3>3
  <2> QED BY <1>1, <2>1, <2>2
<1> QED BY <1>2, <1>3

\* What is in a directory is there where the directory really is, unless it is a link.
LEMMA RealOfAppend ==
  ASSUME BrRun, NEW p \in Seq(Word), p # <<>>, NEW x \in Word
  PROVE  B!Real(Append(p, x)) = Append(B!Real(p), x) \/ Append(B!Real(p), x) \in B!Links
<1> DEFINE q == Spelt(p)
           longer == Append(q, x)
<1>1. q \in Seq(Word) /\ Spelt(Append(p, x)) = longer /\ Append(p, x) \in Seq(Word)
  BY SpeltIs
<1>2. longer \in Seq(Word) /\ Len(longer) = Len(q) + 1
  BY <1>1
<1>3. B!Real(Append(p, x)) = IF Turn <= Len(longer) /\ SubSeq(longer, 1, Turn) \in B!Links
                     THEN B!Target(SubSeq(longer, 1, Turn)) \o SubSeq(longer, Turn + 1, Len(longer)) ELSE longer
  BY <1>1, RealIs
<1>4. B!Real(p) = IF Turn <= Len(q) /\ SubSeq(q, 1, Turn) \in B!Links
                     THEN B!Target(SubSeq(q, 1, Turn)) \o SubSeq(q, Turn + 1, Len(q)) ELSE q
  BY RealIs
<1> HIDE DEF q
<1>5. CASE Turn <= Len(q)
  <2>1. Turn \in 0..Len(q)
    BY <1>1, <1>5, TreeIs
  <2>2. /\ SubSeq(longer, 1, Turn) = SubSeq(q, 1, Turn)
        /\ SubSeq(longer, Turn + 1, Len(q) + 1) = Append(SubSeq(q, Turn + 1, Len(q)), x)
    BY <1>1, <2>1, PrefixOfAppend
  <2>3. Turn <= Len(longer)
    BY <1>1, <1>2, <1>5, TreeIs
  <2> HIDE DEF longer
  <2>4. CASE SubSeq(q, 1, Turn) \in B!Links
    <3>1. B!Real(Append(p, x)) = B!Target(SubSeq(q, 1, Turn)) \o Append(SubSeq(q, Turn + 1, Len(q)), x)
      BY <1>2, <1>3, <2>2, <2>3, <2>4
    <3>2. SubSeq(q, 1, Turn) \in Seq(Word) /\ SubSeq(q, Turn + 1, Len(q)) \in Seq(Word)
      BY <1>1, <2>1, PrefixOf
    <3>3. B!Target(SubSeq(q, 1, Turn)) \in Seq(Word)
      BY <2>4, <3>2, TargetIs
    <3>4. B!Real(p) = B!Target(SubSeq(q, 1, Turn)) \o SubSeq(q, Turn + 1, Len(q))
      BY <1>4, <1>5, <2>4
    <3> QED BY <3>1, <3>2, <3>3, <3>4, ConcatOfAppend
  <2>5. CASE SubSeq(q, 1, Turn) \notin B!Links
    BY <1>3, <1>4, <2>2, <2>5 DEF longer
  <2> QED BY <2>4, <2>5
<1>6. CASE ~(Turn <= Len(q))
  <2>1. B!Real(p) = q
    BY <1>4, <1>6
  <2>2. CASE Turn <= Len(longer)
    <3>1. Turn = Len(longer)
      BY <1>1, <1>2, <1>6, <2>2, TreeIs
    <3>2. SubSeq(longer, 1, Turn) = longer
      BY <1>2, <3>1, WholeOf
    <3> HIDE DEF longer
    <3> QED BY <1>3, <2>1, <3>2 DEF longer
  <2>3. CASE ~(Turn <= Len(longer))
    BY <1>3, <2>1, <2>3
  <2> QED BY <2>2, <2>3
<1> QED BY <1>5, <1>6

\* What is in the run, as spelt and really.
LEMMA UnderIs ==
  ASSUME NEW p \in Seq(Word)
  PROVE  /\ B!Under(B!RunDir, p) <=> Len(p) >= 2 /\ p[1] = "worktrees" /\ p[2] = "run"
         /\ B!Under(B!RealRun, p) <=> Len(p) >= 2 /\ p[1] = "disk" /\ p[2] = "run"
<1>1. B!Under(B!RunDir, p) <=> IsPrefix(<<"worktrees", "run">>, p)
  BY DEF B!Under, B!IsPrefix, IsPrefix, B!RunDir
<1>2. B!Under(B!RealRun, p) <=> IsPrefix(<<"disk", "run">>, p)
  BY DEF B!Under, B!IsPrefix, IsPrefix, B!RealRun
<1> QED BY <1>1, <1>2, StartsWith

\* The deepest ancestor of what is there is the path itself.
LEMMA RealishIs ==
  ASSUME BrRun, NEW p \in Seq(Word), B!Exists(p)
  PROVE  B!Realish(p) = B!Real(p)
<1> DEFINE known == {n \in 1..Len(p) : B!Exists(SubSeq(p, 1, n))}
<1>1. B!Realish(p) = IF known = {} THEN p
                    ELSE LET n == CHOOSE m \in known : \A j \in known : j <= m
                         IN B!Real(SubSeq(p, 1, n)) \o SubSeq(p, n + 1, Len(p))
  BY DEF B!Realish
<1>2. SubSeq(p, 1, Len(p)) = p /\ SubSeq(p, Len(p) + 1, Len(p)) = <<>>
  BY WholeOf
<1>3. CASE p = <<>>
  <2>1. known = {}
    BY <1>3
  <2>2. Spelt(p) = p
    BY <1>3, StartsWith DEF Spelt
  <2>3. Len(Spelt(p)) = 0
    BY <1>3, <2>2
  <2>4. ~(Turn <= Len(Spelt(p)))
    BY <2>3, TreeIs
  <2>5. B!Real(p) = p
    BY <2>2, <2>4, RealIs
  <2> HIDE DEF known
  <2> QED BY <1>1, <2>1, <2>5
<1>4. CASE p # <<>>
  <2>1. Len(p) \in known
    <3>1. Len(p) \in 1..Len(p)
      BY <1>4
    <3> QED BY <1>2, <3>1
  <2>2. \A j \in known : j \in Nat /\ j <= Len(p)
    OBVIOUS
  <2> HIDE DEF known
  <2>3. known # {} /\ (CHOOSE m \in known : \A j \in known : j <= m) = Len(p)
    <3> DEFINE best == CHOOSE m \in known : \A j \in known : j <= m
    <3>1. \E m \in known : \A j \in known : j <= m
      BY <2>1, <2>2
    <3>2. best \in known /\ \A j \in known : j <= best
      BY <3>1
    <3> HIDE DEF best
    <3>3. best \in Nat /\ best <= Len(p) /\ Len(p) <= best /\ Len(p) \in Nat
      BY <2>1, <2>2, <3>2
    <3>4. best = Len(p)
      BY <3>3
    <3> QED BY <2>1, <3>4 DEF best
  <2>4. B!Realish(p) = B!Real(p) \o <<>>
    BY <1>1, <1>2, <2>3
  <2> QED BY <2>4, RealTyped, WholeOf
<1> QED BY <1>3, <1>4

\* The root is the run's directory, and it is there.
LEMMA RootIs ==
  ASSUME BrRun
  PROVE  B!Root = B!RunDir /\ B!RunDir \in Seq(Word) /\ B!Realish(B!Root) = B!RealRun
<1> DEFINE dir == B!RunDir
           repo == <<"repo">>
<1>1. dir \in Seq(Word) /\ dir[1] = "worktrees" /\ dir[2] = "run" /\ repo \in Seq(Word)
  BY WordsAre DEF B!RunDir
<1>2. Len(dir) = 2
  BY DEF B!RunDir
<1>3. B!Worktree \in {dir, dir \o repo}
  BY DEF B!Worktree
<1> HIDE DEF repo
<1>4. B!Root = dir
  <2>1. dir \o repo \in Seq(Word) /\ Len(dir \o repo) = Len(dir) + Len(repo)
        /\ \A i \in 1..Len(dir) : (dir \o repo)[i] = dir[i]
    BY <1>1, ConcatOf
  <2>2. 1 \in 1..Len(dir) /\ 2 \in 1..Len(dir) /\ Len(dir) + Len(repo) >= 2
    BY <1>1, <1>2
  <2>3. B!Under(dir, dir)
    BY <1>1, <1>2, UnderIs
  <2>4. B!Under(dir, dir \o repo)
    <3> DEFINE tree == dir \o repo
    <3>1. tree \in Seq(Word) /\ Len(tree) >= 2 /\ tree[1] = "worktrees" /\ tree[2] = "run"
      BY <1>1, <2>1, <2>2
    <3> HIDE DEF tree
    <3>2. B!Under(B!RunDir, tree)
      BY <3>1, UnderIs
    <3> QED BY <3>2 DEF tree
  <2> QED BY <1>3, <2>3, <2>4 DEF B!Root
<1>5. Spelt(dir) = B!RealRun
  <2>1. Tail(dir) = <<"run">>
    BY DEF B!RunDir
  <2>2. IsPrefix(<<"worktrees">>, dir)
    BY <1>1, <1>2, StartsWith
  <2>3. <<"disk">> \o <<"run">> = <<"disk", "run">>
    BY WordsAre, PairOf
  <2> QED BY <2>1, <2>2, <2>3 DEF Spelt, B!RealRun
<1>6. B!Real(dir) = B!RealRun
  <2>1. Len(B!RealRun) = 2
    BY DEF B!RealRun
  <2>2. ~(Turn <= Len(Spelt(dir)))
    BY <1>5, <2>1, TreeIs
  <2> QED BY <1>1, <1>5, <2>2, RealIs
<1>7. B!Exists(dir)
  BY <1>6 DEF B!Exists, B!Places, B!Dirs
<1> QED BY <1>1, <1>4, <1>6, <1>7, RealishIs

\* path.resolve is a path: the function that the definition names exists, and each of its values
\* is a sequence of names, by induction over the part of the path that is done.
LEMMA ResolvedIs ==
  ASSUME BrRun, NEW path \in Seq(Word)
  PROVE  B!Resolved(path) \in Seq(Word)
<1> DEFINE L == Len(path)
           Onward(at, n) == IF path[n] # ".." THEN Append(at, path[n])
                          ELSE IF at = <<>> THEN at ELSE B!Front(at)
           Is(f, m) == f = [n \in 0..m |-> IF n = 0 THEN B!Root ELSE Onward(f[n - 1], n)]
           Known == {m \in Nat : m <= L => \E f : Is(f, m)}
           after == CHOOSE f : Is(f, L)
<1>1. B!Resolved(path) = after[L]
  BY DEF B!Resolved
<1>2. L \in Nat
  OBVIOUS
<1>3. \A at \in Seq(Word), n \in 1..L : Onward(at, n) \in Seq(Word)
  <2> SUFFICES ASSUME NEW at \in Seq(Word), NEW n \in 1..L PROVE Onward(at, n) \in Seq(Word)
    OBVIOUS
  <2>1. path[n] \in Word
    OBVIOUS
  <2>2. Append(at, path[n]) \in Seq(Word)
    BY <2>1
  <2>3. at # <<>> => B!Front(at) \in Seq(Word)
    BY DEF B!Front
  <2> QED BY <2>2, <2>3
<1>4. B!Root \in Seq(Word)
  BY RootIs
<1> HIDE DEF L, Onward
<1>5. 0 \in Known
  <2> DEFINE f == [n \in 0..0 |-> B!Root]
  <2>1. f = [n \in 0..0 |-> IF n = 0 THEN B!Root ELSE Onward(f[n - 1], n)]
    OBVIOUS
  <2> HIDE DEF f
  <2> QED BY <2>1
<1>6. ASSUME NEW m \in Nat, m \in Known PROVE m + 1 \in Known
  <2> SUFFICES ASSUME m + 1 <= L PROVE \E f : Is(f, m + 1)
    BY DEF Known
  <2>1. m <= L
    BY <1>2
  <2>2. PICK f : Is(f, m)
    BY <1>6, <2>1
  <2> DEFINE next == Onward(f[m], m + 1)
             g == [n \in 0..(m + 1) |-> IF n <= m THEN f[n] ELSE next]
             h == [n \in 0..(m + 1) |-> IF n = 0 THEN B!Root ELSE Onward(g[n - 1], n)]
  <2>4. f[0] = B!Root /\ \A n \in 1..m : f[n] = Onward(f[n - 1], n)
    <3>1. \A n \in 0..m : f[n] = IF n = 0 THEN B!Root ELSE Onward(f[n - 1], n)
      BY <2>2
    <3> QED BY <3>1
  <2>5. \A n \in 0..(m + 1) : g[n] = h[n]
    <3> SUFFICES ASSUME NEW n \in 0..(m + 1) PROVE g[n] = h[n]
      BY Zenon
    <3> HIDE DEF next
    <3>1. CASE n = 0
      BY <2>4, <3>1
    <3>2. CASE n \in 1..m
      <4>1. g[n] = f[n] /\ g[n - 1] = f[n - 1] /\ h[n] = Onward(g[n - 1], n)
        BY <3>2
      <4> QED BY <2>4, <3>2, <4>1
    <3>3. CASE n = m + 1
      <4>1. g[n] = next /\ n - 1 = m /\ h[n] = Onward(g[n - 1], n)
        BY <3>3
      <4>2. g[m] = f[m]
        OBVIOUS
      <4> QED BY <3>3, <4>1, <4>2 DEF next
    <3> QED BY <3>1, <3>2, <3>3
  <2>6. g = h
    BY <2>5
  <2> HIDE DEF g, next
  <2> QED BY <2>6
<1>7. L \in Known
  <2> HIDE DEF Known
  <2> QED BY <1>2, <1>5, <1>6, SetInduction
<1>8. Is(after, L) /\ L \in Nat
  BY <1>2, <1>7
<1>9. after[0] = B!Root /\ \A n \in 1..L : after[n] = Onward(after[n - 1], n)
  <2>1. \A n \in 0..L : after[n] = IF n = 0 THEN B!Root ELSE Onward(after[n - 1], n)
    BY <1>8
  <2> QED BY <1>2, <2>1
<1> HIDE DEF after
<1> DEFINE Typed == {m \in Nat : m <= L => after[m] \in Seq(Word)}
<1>10. 0 \in Typed
  BY <1>4, <1>9
<1>11. ASSUME NEW m \in Nat, m \in Typed PROVE m + 1 \in Typed
  <2> SUFFICES ASSUME m + 1 <= L PROVE after[m + 1] \in Seq(Word)
    OBVIOUS
  <2>1. m + 1 \in 1..L /\ m + 1 - 1 = m /\ m <= L
    BY <1>2
  <2>2. after[m + 1] = Onward(after[m], m + 1)
    BY <1>9, <2>1
  <2> QED BY <1>3, <1>11, <2>1, <2>2
<1>12. L \in Typed
  <2> HIDE DEF Typed
  <2> QED BY <1>2, <1>10, <1>11, SetInduction
<1> QED BY <1>1, <1>2, <1>12

\* What is there is at a path.
LEMMA PlacesAre ==
  ASSUME BrRun
  PROVE  B!Places \subseteq Seq(Word)
<1>1. <<"disk">> \in Seq(Word) /\ B!RealRun \in Seq(Word) /\ B!Other \in Seq(Word) /\ Tree \in Seq(Word)
  BY WordsAre, TreeIs DEF B!RealRun, B!Other
<1>2. \A s \in Seq(Word), x \in Word : Append(s, x) \in Seq(Word)
  BY AppendOf
<1>3. B!Dirs \subseteq Seq(Word)
  BY <1>1, <1>2, WordsAre DEF B!Dirs, Tree
<1>4. B!Links \subseteq Seq(Word)
  BY <1>1, <1>2, WordsAre DEF B!Links, Tree
<1>5. B!Files \subseteq Seq(Word)
  <2>1. \A f : B!At(f) \in Seq(Word)
    <3>1. <<"note">> \in Seq(Word) /\ <<"src", "code">> \in Seq(Word)
      BY WordsAre
    <3> QED BY <1>1, <3>1, ConcatOf DEF B!At, Tree
  <2> QED BY <1>1, <1>2, <2>1, WordsAre DEF B!Files
<1> QED BY <1>3, <1>4, <1>5 DEF B!Places

\* The empty path leads nowhere.
LEMMA RealOfEmpty ==
  ASSUME BrRun
  PROVE  B!Real(<<>>) = <<>>
<1>1. Spelt(<<>>) = <<>>
  <2>1. <<>> \in Seq(Word)
    OBVIOUS
  <2>2. ~IsPrefix(<<"worktrees">>, <<>>)
    BY <2>1, StartsWith
  <2> QED BY <2>2 DEF Spelt
<1>2. Len(Spelt(<<>>)) = 0 /\ <<>> \in Seq(Word)
  BY <1>1
<1>3. ~(Turn <= Len(Spelt(<<>>)))
  BY <1>2, TreeIs
<1> QED BY <1>1, <1>2, <1>3, RealIs

\* What is confined and there is really in the run.
LEMMA ConfinedIs ==
  ASSUME BrRun, NEW p \in Seq(Word), B!Exists(p)
  PROVE  B!Confined(p) <=> B!Under(B!RealRun, B!Real(p))
BY RealishIs, RootIs DEF B!Confined

\* What a listing shows is really in the run.
LEMMA ShownIs ==
  ASSUME BrRun, NEW p \in Seq(Word), B!Under(B!RealRun, B!Real(p)), NEW name, B!Shown(p, name)
  PROVE  name \in Word /\ B!Under(B!RealRun, B!Real(Append(p, name)))
<1> DEFINE entry == Append(B!Real(p), name)
           target == Append(p, name)
<1>1. B!Real(p) \in Seq(Word) /\ Len(B!Real(p)) >= 2 /\ B!Real(p)[1] = "disk" /\ B!Real(p)[2] = "run"
  BY RealTyped, UnderIs
<1>2. p # <<>>
  <2> SUFFICES ASSUME p = <<>> PROVE FALSE
    OBVIOUS
  <2>1. Len(B!Real(p)) = 0
    BY RealOfEmpty
  <2> QED BY <1>1, <2>1
<1>3. /\ entry \in B!Places /\ (entry \in B!Links => B!Confined(target)) /\ B!Exists(target)
  BY DEF B!Shown
<1>4. name \in Word
  <2>1. entry \in Seq(Word)
    BY <1>3, PlacesAre
  <2>2. Len(B!Real(p)) + 1 \in 1..Len(entry) /\ entry[Len(B!Real(p)) + 1] = name
    BY <1>1
  <2> QED BY <2>1, <2>2
<1>5. target \in Seq(Word)
  BY <1>4
<1>6. CASE entry \in B!Links
  BY <1>3, <1>4, <1>5, <1>6, ConfinedIs
<1>7. CASE entry \notin B!Links
  <2>1. B!Real(target) = entry
    BY <1>2, <1>4, <1>7, RealOfAppend
  <2>2. entry \in Seq(Word) /\ Len(entry) = Len(B!Real(p)) + 1
        /\ \A i \in 1..Len(B!Real(p)) : entry[i] = B!Real(p)[i]
    BY <1>1, <1>4, AppendOf
  <2>3. 1 \in 1..Len(B!Real(p)) /\ 2 \in 1..Len(B!Real(p)) /\ Len(entry) >= 2
    BY <1>1, <2>2
  <2>4. entry[1] = "disk" /\ entry[2] = "run"
    BY <1>1, <2>2, <2>3
  <2> HIDE DEF entry, target
  <2> QED BY <1>4, <2>1, <2>2, <2>3, <2>4, UnderIs DEF target
<1> QED BY <1>4, <1>6, <1>7

\* What is there is a directory or a file.
LEMMA KindIs ==
  ASSUME BrRun, NEW p \in Seq(Word)
  PROVE  /\ B!Kind(p) \in {"dir", "file", "nothing"}
         /\ B!Exists(p) <=> B!Kind(p) # "nothing"
BY RealTyped DEF B!Kind, B!Exists, B!Places

\* Where a path leads depends on the run alone, and what is there on the files too.
LEMMA RunKeeps ==
  ASSUME run' = run
  PROVE  /\ \A p : B!Real(p)' = B!Real(p)
         /\ request' = request => B!Resolved(request.path)' = B!Resolved(request.path)
         /\ files' = files => \A p : B!Kind(p)' = B!Kind(p) /\ (B!Exists(p)' <=> B!Exists(p))
<1>1. B!RealTree' = B!RealTree /\ B!Links' = B!Links /\ B!Dirs' = B!Dirs /\ B!Root' = B!Root
  BY DEF B!RealTree, B!Links, B!Dirs, B!Root, B!Worktree
<1>2. \A p : B!Target(p)' = B!Target(p)
  BY <1>1 DEF B!Target
<1>3. \A p : B!Real(p)' = B!Real(p)
  BY <1>1, <1>2 DEF B!Real
<1>4. ASSUME request' = request PROVE B!Resolved(request.path)' = B!Resolved(request.path)
  BY <1>1, <1>4 DEF B!Resolved
<1>5. ASSUME files' = files, NEW p PROVE B!Kind(p)' = B!Kind(p) /\ (B!Exists(p)' <=> B!Exists(p))
  <2>1. B!Files' = B!Files
    BY <1>1, <1>5 DEF B!Files, B!At
  <2> QED BY <1>1, <1>3, <2>1 DEF B!Kind, B!Exists, B!Places
<1> QED BY <1>3, <1>4, <1>5

-----------------------------------------------------------------------------
BrTypes == B!TypeOK

\* What the first look found is in the run, and is what was asked for.
FoundInv ==
  brPhase = "looked" =>
    /\ run.held /\ ~request.absolute
    /\ found.reason = "ok" /\ found.at = B!Resolved(request.path)
    /\ B!Under(B!RealRun, B!Real(found.at))
    /\ request.read => found.entries = {} /\ (quiet => B!Kind(found.at) = "file")

\* What is served is in the run and, in a tree at rest, is still there as it was listed.
ServedInv ==
  B!Served =>
    /\ reply.at \in Seq(Word) /\ B!Under(B!RealRun, B!Real(reply.at))
    /\ \A e \in reply.entries :
         /\ e.name \in Word /\ B!Under(B!RealRun, B!Real(Append(reply.at, e.name)))
         /\ ~request.read /\ quiet =>
              /\ B!Exists(Append(reply.at, e.name))
              /\ e.kind = B!Kind(Append(reply.at, e.name))

BrowseInv == BrTypes /\ FoundInv /\ ServedInv /\ B!RefusalIsTrue

\* What one step of Browse can do.
Asking ==
  /\ brPhase' = "asked" /\ reply' = B!NoReply /\ quiet' = TRUE
  /\ \E read, absolute \in BOOLEAN, path \in Asked :
       request' = [read |-> read, absolute |-> absolute, path |-> path]
  /\ UNCHANGED <<run, files, edits>>

Answering ==
  /\ brPhase' = "answered" /\ UNCHANGED <<run, files, edits, request, quiet, found>>
  /\ \/ /\ brPhase = "asked"
        /\ \/ ~run.held /\ reply' = B!Refusal("not-found")
           \/ request.absolute /\ reply' = B!Refusal("not-found")
           \/ ~B!Confined(B!Resolved(request.path)) /\ reply' = B!Refusal("not-found")
           \/ B!Kind(B!Resolved(request.path)) = "nothing" /\ reply' = B!Refusal("not-found")
           \/ \E r \in {"not-a-directory", "not-a-file", "too-large"} : reply' = B!Refusal(r)
     \/ /\ brPhase = "looked"
        /\ \/ request.read /\ B!Kind(found.at) # "file" /\ reply' = B!Refusal("not-found")
           \/ request.read /\ reply' \in {B!Refusal("binary"), found}
           \/ ~request.read /\ reply' = B!Listed(found)

Looking ==
  LET p == B!Resolved(request.path) IN
  /\ brPhase = "asked" /\ brPhase' = "looked"
  /\ run.held /\ ~request.absolute /\ B!Confined(p) /\ B!Kind(p) # "nothing"
  /\ found'.reason = "ok" /\ found'.at = p
  /\ request.read => found'.entries = {} /\ B!Kind(p) = "file"
  /\ UNCHANGED <<run, files, edits, request, quiet, reply>>

Editing ==
  /\ quiet' = FALSE /\ edits' \in 0..MaxEdits /\ files' \in [B!Mutable -> B!Contents]
  /\ UNCHANGED <<run, request, brPhase, found, reply>>

\* The assumption on the constants, over words.
LEMMA BrowseConstants == MaxEdits \in Nat /\ Asked \subseteq Seq(Word)
<1>1. MaxEdits \in Nat /\ Asked \subseteq Seq(STRING)
  BY StageSuiteAssumption DEF B!BrowseAssumption
<1>2. Seq(STRING) \subseteq Seq(Word)
  BY DEF Word
<1> QED BY <1>1, <1>2

\* The path of a request.
LEMMA PathIs ==
  ASSUME BrTypes
  PROVE  BrRun /\ B!Resolved(request.path) \in Seq(Word)
<1>1. BrRun
  BY DEF BrTypes, B!TypeOK, BrRun
<1>2. request.path \in Seq(Word)
  <2>1. request.path \in Asked \cup {<<>>}
    BY DEF BrTypes, B!TypeOK
  <2>2. <<>> \in Seq(Word)
    OBVIOUS
  <2> QED BY <2>1, <2>2, BrowseConstants
<1> QED BY <1>1, <1>2, ResolvedIs

\* Every step is one of the four.
LEMMA BrowseEffects ==
  ASSUME BrTypes, FoundInv, B!Next
  PROVE  Asking \/ Answering \/ Looking \/ Editing
<1> DEFINE p == B!Resolved(request.path)
<1>1. p \in Seq(Word) /\ BrRun
  BY PathIs
<1> HIDE DEF p
<1>2. ASSUME NEW read \in BOOLEAN, NEW absolute \in BOOLEAN, NEW path \in Asked, B!Ask(read, absolute, path)
      PROVE  Asking
  BY <1>2 DEF B!Ask, Asking
<1>3. ASSUME NEW file \in B!Mutable, NEW content \in B!Contents, B!Edit(file, content) PROVE Editing
  BY <1>3, BrowseConstants DEF B!Edit, Editing, BrTypes, B!TypeOK
<1>4. CASE B!Answers /\ (B!Unheld \/ B!Refuse)
  BY <1>4 DEF B!Answers, B!Unheld, B!Refuse, B!Answer, Answering
<1>5. CASE B!Answers /\ B!Conclude
  BY <1>5 DEF B!Answers, B!Conclude, B!Answer, Answering, B!Text
<1>6. CASE B!Answers /\ B!Look
  <2> DEFINE first == IF request.read THEN B!Checked(p) ELSE B!Opened(p)
  <2>1. /\ brPhase = "asked" /\ run.held /\ ~request.absolute /\ B!Confined(p)
        /\ UNCHANGED <<run, files, edits, request, quiet>>
        /\ IF first.reason # "ok" THEN B!Answer(first)
           ELSE found' = first /\ brPhase' = "looked" /\ reply' = reply
    BY <1>6 DEF B!Answers, B!Look, p
  <2>2. B!Kind(p) \in {"dir", "file", "nothing"}
    BY <1>1, KindIs
  <2>3. \/ first = B!Refusal("not-found") /\ B!Kind(p) = "nothing"
        \/ first \in {B!Refusal("not-a-directory"), B!Refusal("not-a-file"), B!Refusal("too-large")}
        \/ /\ first.reason = "ok" /\ first.at = p /\ B!Kind(p) # "nothing"
           /\ request.read => first.entries = {} /\ B!Kind(p) = "file"
    BY <2>2 DEF B!Checked, B!Opened, B!NoReply
  <2>4. \A r : B!Refusal(r).reason = r
    BY DEF B!Refusal, B!NoReply
  <2> HIDE DEF first
  <2>5. CASE first.reason # "ok"
    <3>1. \/ first = B!Refusal("not-found") /\ B!Kind(p) = "nothing"
          \/ first \in {B!Refusal("not-a-directory"), B!Refusal("not-a-file"), B!Refusal("too-large")}
      BY <2>3, <2>5
    <3> QED BY <2>1, <2>5, <3>1 DEF B!Answer, Answering, p
  <2>6. CASE first.reason = "ok"
    <3>1. /\ first.at = p /\ B!Kind(p) # "nothing"
          /\ request.read => first.entries = {} /\ B!Kind(p) = "file"
      BY <2>3, <2>4, <2>6
    <3> QED BY <2>1, <2>6, <3>1 DEF Looking, p
  <2> QED BY <2>5, <2>6
<1> QED BY <1>2, <1>3, <1>4, <1>5, <1>6 DEF B!Next, B!Answers

\* A step keeps the types.
LEMMA BrTypesStep ==
  ASSUME BrTypes, FoundInv, Asking \/ Answering \/ Looking \/ Editing
  PROVE  BrTypes'
<1> USE DEF BrTypes, B!TypeOK
<1>1. CASE Asking
  <2>1. B!NoReply.reason = "none"
    BY DEF B!NoReply
  <2> QED BY <1>1, <2>1 DEF Asking, B!Reasons
<1>2. CASE Answering
  <2>1. \A r : B!Refusal(r).reason = r
    BY DEF B!Refusal, B!NoReply
  <2>2. B!Listed(found).reason = "ok"
    BY DEF B!Listed
  <2>3. reply'.reason \in B!Reasons /\ reply'.reason # "none"
    BY <1>2, <2>1, <2>2 DEF Answering, B!Reasons, FoundInv
  <2> QED BY <1>2, <2>3 DEF Answering
<1>3. CASE Looking
  BY <1>3 DEF Looking
<1>4. CASE Editing
  BY <1>4 DEF Editing
<1> QED BY <1>1, <1>2, <1>3, <1>4

\* A step keeps what is known of the first look.
LEMMA FoundStep ==
  ASSUME BrTypes, FoundInv, Asking \/ Answering \/ Looking \/ Editing
  PROVE  FoundInv'
<1>1. CASE Asking
  BY <1>1 DEF Asking, FoundInv
<1>2. CASE Answering
  BY <1>2 DEF Answering, FoundInv
<1>3. CASE Looking
  <2> DEFINE p == B!Resolved(request.path)
  <2>1. p \in Seq(Word) /\ BrRun
    BY PathIs
  <2>2. run' = run /\ request' = request /\ files' = files
    BY <1>3 DEF Looking
  <2>3. p' = p /\ B!Real(p)' = B!Real(p) /\ B!Kind(p)' = B!Kind(p)
    BY <2>2, RunKeeps
  <2>4. found'.at = p
    BY <1>3 DEF Looking
  <2>5. B!Under(B!RealRun, B!Real(p))
    BY <1>3, <2>1, KindIs, ConfinedIs DEF Looking
  <2>6. B!Real(found.at)' = B!Real(p) /\ B!Kind(found.at)' = B!Kind(p)
    BY <2>2, <2>4, RunKeeps
  <2>7. found'.at = B!Resolved(request.path)'
    BY <2>3, <2>4
  <2>8. B!Under(B!RealRun, B!Real(found.at))'
    BY <2>5, <2>6 DEF B!Under, B!RealRun
  <2> QED BY <1>3, <2>2, <2>6, <2>7, <2>8 DEF Looking, FoundInv
<1>4. CASE Editing
  <2>1. run' = run /\ request' = request /\ found' = found /\ brPhase' = brPhase /\ quiet' = FALSE
    BY <1>4 DEF Editing
  <2>2. B!Resolved(request.path)' = B!Resolved(request.path) /\ B!Real(found.at)' = B!Real(found.at)
    BY <2>1, RunKeeps
  <2>3. B!Under(B!RealRun, B!Real(found.at))' <=> B!Under(B!RealRun, B!Real(found.at))
    BY <2>2 DEF B!Under, B!RealRun
  <2> QED BY <2>1, <2>2, <2>3 DEF FoundInv
<1> QED BY <1>1, <1>2, <1>3, <1>4

\* What a listing answers.
LEMMA ListedIs ==
  ASSUME BrTypes, FoundInv, brPhase = "looked"
  PROVE  LET answer == B!Listed(found) IN
         /\ answer.reason = "ok" /\ answer.at = found.at
         /\ \A e \in answer.entries :
              /\ e.name \in Word /\ B!Under(B!RealRun, B!Real(Append(found.at, e.name)))
              /\ B!Exists(Append(found.at, e.name)) /\ e.kind = B!Kind(Append(found.at, e.name))
<1> DEFINE answer == B!Listed(found)
<1>1. BrRun /\ found.at \in Seq(Word) /\ B!Under(B!RealRun, B!Real(found.at))
  BY PathIs DEF FoundInv
<1>2. answer.reason = "ok" /\ answer.at = found.at
  BY DEF B!Listed
<1>3. ASSUME NEW e \in answer.entries
      PROVE  /\ e.name \in Word /\ B!Under(B!RealRun, B!Real(Append(found.at, e.name)))
             /\ B!Exists(Append(found.at, e.name)) /\ e.kind = B!Kind(Append(found.at, e.name))
  <2>1. PICK name \in found.entries :
          B!Shown(found.at, name) /\ e = [name |-> name, kind |-> B!Kind(Append(found.at, name))]
    BY <1>3 DEF B!Listed
  <2>2. e.name = name /\ e.kind = B!Kind(Append(found.at, name))
    BY <2>1
  <2>3. name \in Word /\ B!Under(B!RealRun, B!Real(Append(found.at, name)))
    BY <1>1, <2>1, ShownIs
  <2>4. B!Exists(Append(found.at, name))
    BY <2>1 DEF B!Shown
  <2> QED BY <2>2, <2>3, <2>4
<1> QED BY <1>2, <1>3

\* A step keeps what is known of an answer.
LEMMA ServedStep ==
  ASSUME BrTypes, FoundInv, ServedInv, Asking \/ Answering \/ Looking \/ Editing
  PROVE  ServedInv'
<1>1. CASE Asking \/ Looking
  BY <1>1 DEF Asking, Looking, ServedInv, B!Served
<1>2. CASE Answering
  <2> SUFFICES ASSUME reply'.reason = "ok" PROVE ServedInv'
    BY DEF ServedInv, B!Served
  <2>1. \A r : B!Refusal(r).reason = r
    BY DEF B!Refusal, B!NoReply
  <2>2. /\ brPhase = "looked"
        /\ (request.read /\ reply' = found) \/ (~request.read /\ reply' = B!Listed(found))
    BY <1>2, <2>1 DEF Answering
  <2>3. run' = run /\ request' = request /\ files' = files
    BY <1>2 DEF Answering
  <2>4. BrRun /\ found.at \in Seq(Word) /\ B!Under(B!RealRun, B!Real(found.at))
    BY <2>2, PathIs DEF FoundInv
  <2>5. /\ reply'.at = found.at
        /\ \A e \in reply'.entries :
              /\ ~request.read /\ e.name \in Word
              /\ B!Under(B!RealRun, B!Real(Append(found.at, e.name)))
              /\ B!Exists(Append(found.at, e.name)) /\ e.kind = B!Kind(Append(found.at, e.name))
    <3>1. CASE request.read
      BY <2>2, <3>1 DEF FoundInv
    <3>2. CASE ~request.read
      BY <2>2, <3>2, ListedIs
    <3> QED BY <3>1, <3>2
  <2>6. \A p : B!Real(p)' = B!Real(p) /\ B!Kind(p)' = B!Kind(p) /\ (B!Exists(p)' <=> B!Exists(p))
    BY <2>3, RunKeeps
  <2>7. B!Under(B!RealRun, B!Real(reply.at))'
    <3>1. B!Real(reply.at)' = B!Real(found.at)
      BY <2>5, <2>6
    <3> QED BY <2>4, <3>1 DEF B!Under, B!RealRun
  <2>8. ASSUME NEW e \in reply'.entries
        PROVE  /\ e.name \in Word /\ B!Under(B!RealRun, B!Real(Append(reply.at, e.name)))'
               /\ B!Exists(Append(reply.at, e.name))' /\ e.kind = B!Kind(Append(reply.at, e.name))'
    <3> DEFINE place == Append(found.at, e.name)
    <3>1. /\ e.name \in Word /\ B!Under(B!RealRun, B!Real(place))
          /\ B!Exists(place) /\ e.kind = B!Kind(place)
      BY <2>5
    <3>2. B!Real(Append(reply.at, e.name))' = B!Real(place)
      BY <2>5, <2>6
    <3>3. (B!Exists(Append(reply.at, e.name))' <=> B!Exists(place))
      BY <2>5, <2>6
    <3>4. B!Kind(Append(reply.at, e.name))' = B!Kind(place)
      BY <2>5, <2>6
    <3>5. B!Under(B!RealRun, B!Real(Append(reply.at, e.name)))'
      BY <3>1, <3>2 DEF B!Under, B!RealRun
    <3> QED BY <3>1, <3>3, <3>4, <3>5
  <2> QED BY <2>4, <2>5, <2>7, <2>8 DEF ServedInv
<1>3. CASE Editing
  <2> SUFFICES ASSUME B!Served PROVE ServedInv'
    BY <1>3 DEF Editing, ServedInv, B!Served
  <2>1. run' = run /\ request' = request /\ reply' = reply /\ brPhase' = brPhase /\ quiet' = FALSE
    BY <1>3 DEF Editing
  <2>2. \A p : B!Real(p)' = B!Real(p)
    BY <2>1, RunKeeps
  <2>3. B!Under(B!RealRun, B!Real(reply.at))'
    <3>1. B!Real(reply.at)' = B!Real(reply.at)
      BY <2>1, <2>2
    <3> QED BY <3>1 DEF B!Under, B!RealRun, ServedInv
  <2>4. ASSUME NEW e \in reply.entries PROVE B!Under(B!RealRun, B!Real(Append(reply.at, e.name)))'
    <3>1. B!Real(Append(reply.at, e.name))' = B!Real(Append(reply.at, e.name))
      BY <2>1, <2>2
    <3>2. B!Under(B!RealRun, B!Real(Append(reply.at, e.name)))
      BY DEF ServedInv
    <3> QED BY <3>1, <3>2 DEF B!Under, B!RealRun
  <2> QED BY <2>1, <2>3, <2>4 DEF ServedInv
<1> QED BY <1>1, <1>2, <1>3

\* A step keeps refusals true.
LEMMA RefusalStep ==
  ASSUME BrTypes, FoundInv, B!RefusalIsTrue, Asking \/ Answering \/ Looking \/ Editing
  PROVE  B!RefusalIsTrue'
<1> USE DEF B!RefusalIsTrue
<1>1. CASE Asking \/ Looking \/ Editing
  BY <1>1 DEF Asking, Looking, Editing
<1>2. CASE Answering
  <2> DEFINE p == B!Resolved(request.path)
             There == B!Exists(p) /\ B!Under(B!RealRun, B!Real(p))
  <2>1. run' = run /\ request' = request /\ files' = files /\ quiet' = quiet
    BY <1>2 DEF Answering
  <2>2. p' = p /\ B!Real(p)' = B!Real(p) /\ (B!Exists(p)' <=> B!Exists(p))
    BY <2>1, RunKeeps
  <2>3. There' <=> There
    BY <2>2 DEF B!Under, B!RealRun
  <2>4. BrRun /\ p \in Seq(Word)
    BY PathIs
  <2> HIDE DEF p
  <2>5. ASSUME reply'.reason = "not-found", run.held, ~request.absolute, quiet PROVE ~There
    <3>1. \A r : B!Refusal(r).reason = r
      BY DEF B!Refusal, B!NoReply
    <3>2. B!Listed(found).reason = "ok"
      BY DEF B!Listed
    <3>3. CASE brPhase = "asked"
      <4>1. ~B!Confined(p) \/ B!Kind(p) = "nothing"
        BY <1>2, <2>5, <3>1, <3>3 DEF Answering, p
      <4> QED BY <2>4, <4>1, KindIs, ConfinedIs
    <3>4. CASE brPhase = "looked"
      BY <1>2, <2>5, <3>1, <3>2, <3>4 DEF Answering, FoundInv
    <3> QED BY <1>2, <3>3, <3>4 DEF Answering
  <2> QED BY <2>1, <2>3, <2>5 DEF p
<1> QED BY <1>1, <1>2

\* The invariant holds at the start.
LEMMA BrowseInit == B!Init => BrowseInv
<1> SUFFICES ASSUME B!Init PROVE BrowseInv
  OBVIOUS
<1>1. BrTypes
  BY BrowseConstants DEF BrTypes, B!TypeOK, B!Init, B!NoReply, B!NoRequest, B!Reasons, B!Contents
<1>2. brPhase = "idle"
  BY DEF B!Init
<1> QED BY <1>1, <1>2 DEF BrowseInv, FoundInv, ServedInv, B!Served, B!RefusalIsTrue

\* A step keeps the invariant.
LEMMA BrowseStep == BrowseInv /\ [B!Next]_(B!vars) => BrowseInv'
<1>1. ASSUME BrowseInv, B!Next PROVE BrowseInv'
  BY <1>1, BrowseEffects, BrTypesStep, FoundStep, ServedStep, RefusalStep DEF BrowseInv
<1>2. ASSUME BrowseInv, UNCHANGED B!vars PROVE BrowseInv'
  <2>1. run' = run /\ files' = files /\ edits' = edits /\ request' = request
        /\ brPhase' = brPhase /\ found' = found /\ reply' = reply /\ quiet' = quiet
    BY <1>2 DEF B!vars
  <2>2. \A p : /\ B!Real(p)' = B!Real(p) /\ B!Kind(p)' = B!Kind(p)
              /\ (B!Exists(p)' <=> B!Exists(p))
              /\ (B!Under(B!RealRun, B!Real(p))' <=> B!Under(B!RealRun, B!Real(p)))
    <3>1. \A p : B!Real(p)' = B!Real(p) /\ B!Kind(p)' = B!Kind(p) /\ (B!Exists(p)' <=> B!Exists(p))
      BY <2>1, RunKeeps
    <3> QED BY <3>1 DEF B!Under, B!RealRun
  <2>3. B!Resolved(request.path)' = B!Resolved(request.path)
    BY <2>1, RunKeeps
  <2>4. BrTypes'
    BY <1>2, <2>1 DEF BrowseInv, BrTypes, B!TypeOK
  <2>5. FoundInv'
    <3>1. /\ B!Kind(found.at)' = B!Kind(found.at)
          /\ (B!Under(B!RealRun, B!Real(found.at))' <=> B!Under(B!RealRun, B!Real(found.at)))
      BY <2>1, <2>2
    <3> QED BY <1>2, <2>1, <2>3, <3>1 DEF BrowseInv, FoundInv
  <2>6. ServedInv'
    <3>1. B!Under(B!RealRun, B!Real(reply.at))' <=> B!Under(B!RealRun, B!Real(reply.at))
      BY <2>1, <2>2
    <3>2. \A e : /\ B!Kind(Append(reply.at, e.name))' = B!Kind(Append(reply.at, e.name))
                /\ (B!Exists(Append(reply.at, e.name))' <=> B!Exists(Append(reply.at, e.name)))
                /\ (B!Under(B!RealRun, B!Real(Append(reply.at, e.name)))' <=>
                     B!Under(B!RealRun, B!Real(Append(reply.at, e.name))))
      BY <2>1, <2>2
    <3> QED BY <1>2, <2>1, <3>1, <3>2 DEF BrowseInv, ServedInv, B!Served
  <2>7. B!RefusalIsTrue'
    <3> DEFINE p == B!Resolved(request.path)
    <3>1. (B!Exists(p)' <=> B!Exists(p)) /\ (B!Under(B!RealRun, B!Real(p))' <=> B!Under(B!RealRun, B!Real(p)))
      BY <2>2, <2>3
    <3> QED BY <1>2, <2>1, <3>1 DEF BrowseInv, B!RefusalIsTrue
  <2> QED BY <2>4, <2>5, <2>6, <2>7 DEF BrowseInv
<1> QED BY <1>1, <1>2

\* What the invariants say of the answers.
LEMMA BrowseIsRight ==
  ASSUME BrowseInv
  PROVE  B!TypeOK /\ B!StaysInTheRun /\ B!ListedIsServed /\ B!RefusalIsTrue
<1> USE DEF BrowseInv
<1>1. BrRun
  BY PathIs
<1>2. B!StaysInTheRun
  BY DEF B!StaysInTheRun, ServedInv
<1>3. ASSUME B!Served, ~request.read, quiet, NEW e \in reply.entries
      PROVE  LET p == Append(reply.at, e.name) IN
             /\ B!Confined(p)
             /\ IF e.kind = "dir" THEN B!Opened(p).reason = "ok"
                ELSE B!Checked(p).reason \in {"ok", "too-large"}
  <2> DEFINE p == Append(reply.at, e.name)
  <2>1. /\ reply.at \in Seq(Word) /\ e.name \in Word /\ B!Under(B!RealRun, B!Real(p))
        /\ B!Exists(p) /\ e.kind = B!Kind(p)
    BY <1>3 DEF ServedInv
  <2>2. p \in Seq(Word)
    BY <2>1
  <2> HIDE DEF p
  <2>3. B!Confined(p) /\ B!Kind(p) \in {"dir", "file"}
    BY <1>1, <2>1, <2>2, ConfinedIs, KindIs
  <2>4. B!Kind(p) = "dir" => B!Opened(p).reason = "ok"
    BY DEF B!Opened
  <2>5. B!Kind(p) = "file" => B!Checked(p).reason \in {"ok", "too-large"}
    BY DEF B!Checked, B!Refusal, B!NoReply
  <2>6. IF e.kind = "dir" THEN B!Opened(p).reason = "ok" ELSE B!Checked(p).reason \in {"ok", "too-large"}
    BY <2>1, <2>3, <2>4, <2>5
  <2> QED BY <2>3, <2>6 DEF p
<1>4. B!ListedIsServed
  BY <1>3 DEF B!ListedIsServed
<1> QED BY <1>2, <1>4 DEF BrTypes

-----------------------------------------------------------------------------
(***************************************************************************)
(* The three together: each moves alone, and the others keep still.        *)
(***************************************************************************)

SuiteInv == CallsInv /\ HoldTypes /\ CommandsInv /\ BrowseInv

\* The invariants of the three hold at the start.
LEMMA SuiteInit == MCInit => SuiteInv
<1> SUFFICES ASSUME MCInit PROVE SuiteInv
  OBVIOUS
<1>1. Init /\ C!Init /\ B!Init
  BY DEF MCInit
<1>2. HoldTypes
  BY <1>1 DEF Init, HoldTypes
<1> QED BY <1>1, <1>2, CallsInit, CommandsInit, BrowseInit DEF SuiteInv

\* A step of one of them is a step or a stutter of each.
LEMMA SuiteMoves ==
  ASSUME [MCNext]_mcVars
  PROVE  [Next]_vars /\ [C!Next]_(C!vars) /\ [B!Next]_(B!vars)
<1>1. UNCHANGED cVars => UNCHANGED C!vars
  BY DEF cVars, C!vars, C!job, C!group, C!verdict, C!tree
<1>2. UNCHANGED bVars => UNCHANGED B!vars
  BY DEF bVars, B!vars
<1>3. UNCHANGED mcVars => UNCHANGED <<vars, cVars, bVars>>
  BY DEF mcVars
<1> QED BY <1>1, <1>2, <1>3 DEF MCNext, StageMoves, CommandMoves, BrowseMoves

\* A step keeps the invariants.
LEMMA SuiteStep == SuiteInv /\ [MCNext]_mcVars => SuiteInv'
<1> SUFFICES ASSUME SuiteInv, [MCNext]_mcVars PROVE SuiteInv'
  OBVIOUS
<1>1. [Next]_vars /\ [C!Next]_(C!vars) /\ [B!Next]_(B!vars)
  BY SuiteMoves
<1>2. CallsInv' /\ HoldTypes'
  BY <1>1, CallsStep, HoldTypesStep DEF SuiteInv, CallsInv
<1>3. CommandsInv'
  BY <1>1, CommandsStep DEF SuiteInv
<1>4. BrowseInv'
  BY <1>1, BrowseStep DEF SuiteInv
<1> QED BY <1>2, <1>3, <1>4 DEF SuiteInv

\* They hold always.
LEMMA SuiteInvariance == MCSpec => []SuiteInv
BY SuiteInit, SuiteStep, PTL DEF MCSpec

\* Every variable of the stage, of its commands and of the answers has its type, for any
\* calls, caps, repositories, scripts, checks and paths asked for.
THEOREM SuiteTypes == MCSpec => []SuiteTypeOK
<1>1. SuiteInv => SuiteTypeOK
  BY StageIsRight, CommandsAreRight, BrowseIsRight DEF SuiteInv, SuiteTypeOK
<1> QED BY <1>1, SuiteInvariance, PTL

\* A stage is ok only if it was neither killed nor silent, kept its policies, and every check
\* declared ran and passed; and the watchdog takes no tool call at work for silence
\* (stage-runner.ts, check-runner.ts).
THEOREM VerdictsEarned == MCSpec => []VerdictsAreEarned
<1>1. SuiteInv => VerdictsAreEarned
  BY StageIsRight, CommandsAreRight DEF SuiteInv, VerdictsAreEarned
<1> QED BY <1>1, SuiteInvariance, PTL

\* Nothing works in a worktree before its set-up, and nothing a command left behind outlives
\* it (repo-setup.ts, check-runner.ts).
THEOREM CommandsOrdered == MCSpec => []CommandsInOrder
<1>1. SuiteInv => CommandsInOrder
  BY CommandsAreRight DEF SuiteInv, CommandsInOrder
<1> QED BY <1>1, SuiteInvariance, PTL

\* What a look at the worktree is served is in the run, whatever links lead to it and whatever
\* the agent does meanwhile; in a tree at rest a listing is true, and so is a refusal
\* (worktree-browse.ts, fs-roots.ts).
THEOREM RepliesRight == MCSpec => []RepliesAreRight
<1>1. SuiteInv => RepliesAreRight
  BY BrowseIsRight DEF SuiteInv, RepliesAreRight
<1> QED BY <1>1, SuiteInvariance, PTL
=============================================================================
