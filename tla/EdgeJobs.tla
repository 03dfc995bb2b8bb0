------------------------------ MODULE EdgeJobs ------------------------------
(***************************************************************************)
(* The life of a job on one edge node: packages/edge/src/ws-client.ts with *)
(* the limiter (concurrency.ts) and the job ledger (job-ledger.ts).        *)
(*                                                                         *)
(* The hub sends job, push, cancel and turn frames over one WebSocket, may *)
(* send any of them again at any time, and forgets what a half-open socket *)
(* or its own restart swallowed.  The node runs one asynchronous handler   *)
(* per accepted frame, remembers results and cancel acks in two bounded    *)
(* caches, and writes what it is running to disk, so that the process that *)
(* follows a crash can clean up after it.                                  *)
(***************************************************************************)
EXTENDS Naturals, Sequences, FiniteSets, SequencesExt

CONSTANTS
  Stages,       \* jobs that arrive as `job` frames (agent and check stages)
  Pushes,       \* jobs that arrive as `push` frames
  Runs,         \* workflow runs; a run has one worktree on this node
  RunOf,        \* the run a job belongs to
  Versioned,    \* stages whose frame carries a payloadVersion
  PathKnown,    \* jobs whose frame carries workspaceRef.worktreePath
  Cancellable,  \* jobs the hub may send a cancel for (bounds the model)
  Handlers,     \* activations of the async message handler (pool: bounds the model)
  MaxSlots,     \* the limiter's max
  MaxResend,    \* the bound of lastResults and of ackedCancels
  Pids,         \* process ids the operating system may hand out
  PidMayRepeat, \* TRUE: a new process may get the pid of a dead one (a container)
  NoPid, NoJob,
  MaxCrashes, MaxFlaps, MaxFaults \* bounds: process deaths, half-open links, disk/git errors

Jobs == Stages \cup Pushes

ASSUME JobsAssumption ==
  /\ Stages \cap Pushes = {}
  /\ RunOf \in [Jobs -> Runs]
  /\ Versioned \subseteq Stages
  /\ PathKnown \subseteq Jobs
  /\ Cancellable \subseteq Jobs
  /\ NoJob \notin Jobs
  /\ NoPid \notin Pids
ASSUME BoundsAssumption ==
  /\ IsFiniteSet(Handlers)
  /\ MaxSlots \in Nat \ {0}
  /\ MaxResend \in Nat \ {0}
  /\ PidMayRepeat \in BOOLEAN
  /\ MaxCrashes \in Nat /\ MaxFlaps \in Nat /\ MaxFaults \in Nat

VARIABLES
  \* the node process (lost when it dies)
  proc,         \* "down", "reconcile" (boot, before hello) or "up"
  pid,          \* process.pid
  stale,        \* boot: ledger entries of a previous process still to reconcile
  link,         \* "down", "open", or "dead": half-open, what we send is lost
  running,      \* keys of the `running` Map
  job, pc,      \* per handler: the job it serves, and where it is
  aborted,      \* handlers whose runner received cancel()
  inUse, waiters,            \* the limiter
  lastResults, ackedCancels, \* jobs whose result / cancel-ack is cached, oldest first
  \* the node's disk
  ledger,       \* jobs.json: the pid of the process that last upserted the job
  tail,         \* per run: what a dead process left in the worktree
  \* the hub, as far as this node can tell
  delivered,    \* jobs whose result reached the hub
  settled,      \* jobs whose cancel-ack reached the hub
  believed,     \* jobs the hub takes to be in flight here, from hello or a heartbeat
  \* history and budgets
  finished,     \* jobs that ran to a result in this process
  acked,        \* jobs whose cancel this process handled
  cancelHere,   \* handlers alive when a cancel frame for their job was handled
  crashes, flaps, faults

procVars  == <<proc, pid, stale>>
runVars   == <<running, job, pc, aborted, inUse, waiters, cancelHere>>
cacheVars == <<lastResults, ackedCancels, finished, acked>>
diskVars  == <<ledger, tail>>
hubVars   == <<delivered, settled, believed>>
budgets   == <<crashes, flaps, faults>>
vars == <<procVars, link, runVars, cacheVars, diskVars, hubVars, budgets>>

-----------------------------------------------------------------------------
\* Where a handler can be.  A stage waits for a slot, provisions (worktree,
\* setup, gateway: no runner yet), runs, and finishes (trace, retention).
SlotPCs == {"provision", "run", "finish"}
PCs == {"idle", "queued", "push"} \cup SlotPCs

Idle(h)  == pc[h] = "idle"
Busy     == {h \in Handlers : pc[h] # "idle"}
Holders  == {h \in Handlers : pc[h] \in SlotPCs}
Cached   == ToSet(lastResults)

TypeOK ==
  /\ proc \in {"down", "reconcile", "up"}
  /\ pid \in Pids \cup {NoPid}
  /\ stale \in SUBSET Jobs
  /\ link \in {"down", "open", "dead"}
  /\ running \in SUBSET Jobs
  /\ job \in [Handlers -> Jobs \cup {NoJob}]
  /\ pc \in [Handlers -> PCs]
  /\ aborted \in SUBSET Handlers
  /\ inUse \in Nat
  /\ waiters \in Seq(Handlers)
  /\ lastResults \in Seq(Jobs)
  /\ ackedCancels \in Seq(Jobs)
  /\ ledger \in [Jobs -> Pids \cup {NoPid}]
  /\ tail \in [Runs -> {"clean", "dirty", "warned"}]
  /\ delivered \in SUBSET Jobs
  /\ settled \in SUBSET Jobs
  /\ believed \in SUBSET Jobs
  /\ finished \in SUBSET Jobs
  /\ acked \in SUBSET Jobs
  /\ cancelHere \in SUBSET Handlers
  /\ crashes \in 0..MaxCrashes
  /\ flaps \in 0..MaxFlaps
  /\ faults \in 0..MaxFaults

-----------------------------------------------------------------------------
\* The parts of the handlers.

\* Definitions named <Definition>_<Mistake> are mutants: plausible mistakes in
\* the code, in no action of the model, that the properties are tried against.

Remember_EvictsAtBound(q, j) ==
  LET grown == Append(q, j) IN IF Len(grown) >= MaxResend THEN Tail(grown) ELSE grown

\* rememberResult / ackCancel: re-key to the newest place, evict the oldest past the bound.
Remember(q, j) ==
  LET kept  == IF j \in ToSet(q) THEN RemoveAt(q, CHOOSE i \in DOMAIN q : q[i] = j) ELSE q
      grown == Append(kept, j)
  IN  IF Len(grown) > MaxResend THEN Tail(grown) ELSE grown

\* `send`: a frame arrives only over a link that is really open.
Reaches(seen, js) == IF link = "open" THEN seen \cup js ELSE seen

Announceable_FromLedger(js) == {j \in Versioned : ledger[j] # NoPid}

\* announceableJobs: only what can be version-stamped goes into hello.
Announceable(js) == js \cap Versioned

\* A ledger write that fails warns and leaves the file as it was.
Written(new) ==
  \/ ledger' = new /\ UNCHANGED faults
  \/ faults < MaxFaults /\ faults' = faults + 1 /\ UNCHANGED ledger

\* trackJob and untrackJob: the de-dup guard in memory, the entry on disk.
TrackJob(j) ==
  /\ running' = running \cup {j}
  /\ Written([ledger EXCEPT ![j] = pid])
UntrackJob_KeepsEntry(j) == running' = running \ {j} /\ UNCHANGED <<ledger, faults>>
UntrackJob(j) ==
  /\ running' = running \ {j}
  /\ Written([ledger EXCEPT ![j] = NoPid])

Fresh_IgnoresRunning(j) == j \notin Cached
Fresh_IgnoresCache(j)   == j \notin running

\* A frame for a job that is neither running nor answered from the cache.
Fresh(j) == j \notin running /\ j \notin Cached

\* What a new process knows: nothing but the disk.
Forget ==
  /\ running' = {}
  /\ job' = [h \in Handlers |-> NoJob]
  /\ pc' = [h \in Handlers |-> "idle"]
  /\ aborted' = {} /\ cancelHere' = {}
  /\ inUse' = 0 /\ waiters' = <<>>
  /\ lastResults' = <<>> /\ ackedCancels' = <<>>
  /\ finished' = {} /\ acked' = {}

Init ==
  /\ proc = "down" /\ pid = NoPid /\ stale = {} /\ link = "down"
  /\ running = {}
  /\ job = [h \in Handlers |-> NoJob]
  /\ pc = [h \in Handlers |-> "idle"]
  /\ aborted = {} /\ cancelHere = {}
  /\ inUse = 0 /\ waiters = <<>>
  /\ lastResults = <<>> /\ ackedCancels = <<>>
  /\ finished = {} /\ acked = {}
  /\ ledger = [j \in Jobs |-> NoPid]
  /\ tail = [r \in Runs |-> "clean"]
  /\ delivered = {} /\ settled = {} /\ believed = {}
  /\ crashes = 0 /\ flaps = 0 /\ faults = 0

-----------------------------------------------------------------------------
\* Boot, and the reconciliation that is awaited before the first connect.

StaleFor(p) == {j \in Jobs : ledger[j] \notin {NoPid, p}}

Boot_TrustsLedger(p) ==
  /\ proc = "down"
  /\ \A j \in Jobs : ledger[j] # p
  /\ pid' = p
  /\ stale' = {}
  /\ proc' = "up"
  /\ running' = {j \in Jobs : ledger[j] # NoPid}
  /\ UNCHANGED <<job, pc, aborted, inUse, waiters, cancelHere>>
  /\ UNCHANGED <<link, cacheVars, diskVars, hubVars, budgets>>

Boot(p) ==
  /\ proc = "down"
  /\ PidMayRepeat \/ \A j \in Jobs : ledger[j] # p
  /\ pid' = p
  /\ stale' = StaleFor(p)
  /\ proc' = IF StaleFor(p) = {} THEN "up" ELSE "reconcile"
  /\ UNCHANGED <<link, runVars, cacheVars, diskVars, hubVars, budgets>>

\* One stale entry, its git commands taken as one step (RunWork has them one by one,
\* and a death between them).  Without a recorded path it is skipped; with one, the tail
\* is moved to a wip branch and the worktree reset, or the error is logged.
ReconcileEntry(j) ==
  /\ proc = "reconcile"
  /\ j \in stale
  /\ stale' = stale \ {j}
  /\ \/ /\ j \notin PathKnown
        /\ UNCHANGED <<tail, faults>>
     \/ /\ j \in PathKnown
        /\ tail' = [tail EXCEPT ![RunOf[j]] = "clean"]
        /\ UNCHANGED faults
     \/ /\ j \in PathKnown
        /\ faults < MaxFaults
        /\ faults' = faults + 1
        /\ tail' = [tail EXCEPT ![RunOf[j]] = IF @ = "dirty" THEN "warned" ELSE @]
  /\ UNCHANGED <<proc, pid, link, runVars, cacheVars, ledger, hubVars, crashes, flaps>>

FinishReconcile_NotAwaited ==
  /\ proc = "reconcile"
  /\ proc' = "up"
  /\ Written([j \in Jobs |-> NoPid])
  /\ UNCHANGED <<pid, stale, link, runVars, cacheVars, tail, hubVars, crashes, flaps>>

\* Every entry dealt with: ledger.clear(), and the node goes on to connect.
FinishReconcile ==
  /\ proc = "reconcile"
  /\ stale = {}
  /\ proc' = "up"
  /\ Written([j \in Jobs |-> NoPid])
  /\ UNCHANGED <<pid, stale, link, runVars, cacheVars, tail, hubVars, crashes, flaps>>

\* The process dies.  A stage whose runner had started leaves its worktree half-
\* written; if the ledger lacks the job, the failed write was warned about.
Writing == {h \in Handlers : pc[h] \in {"run", "finish"}}
InterruptedRuns == {RunOf[job[h]] : h \in Writing}
Recorded(r) == \E h \in Writing : RunOf[job[h]] = r /\ ledger[job[h]] # NoPid

Crash ==
  /\ proc # "down"
  /\ crashes < MaxCrashes
  /\ crashes' = crashes + 1
  /\ proc' = "down" /\ stale' = {} /\ link' = "down"
  /\ Forget
  /\ tail' = [r \in Runs |-> IF r \notin InterruptedRuns \/ tail[r] = "warned" THEN tail[r]
                             ELSE IF Recorded(r) THEN "dirty" ELSE "warned"]
  /\ UNCHANGED <<pid, ledger, hubVars, flaps, faults>>

-----------------------------------------------------------------------------
\* The socket.

Connect_NoResend ==
  /\ proc = "up"
  /\ link = "down"
  /\ link' = "open"
  /\ believed' = Announceable(running)
  /\ UNCHANGED <<procVars, runVars, cacheVars, diskVars, delivered, settled, budgets>>

\* `open`: hello, then every cached result, then every cached ack.
Connect ==
  /\ proc = "up"
  /\ link = "down"
  /\ link' = "open"
  /\ believed' = Announceable(running)
  /\ delivered' = delivered \cup Cached
  /\ settled' = settled \cup ToSet(ackedCancels)
  /\ UNCHANGED <<procVars, runVars, cacheVars, diskVars, budgets>>

\* The path goes away, or the hub rolls: readyState stays OPEN, frames vanish.
LinkDies ==
  /\ link = "open"
  /\ flaps < MaxFlaps
  /\ flaps' = flaps + 1
  /\ link' = "dead"
  /\ UNCHANGED <<procVars, runVars, cacheVars, diskVars, hubVars, crashes, faults>>

\* Missed pongs, or the hub's close: the `close` handler arms the reconnect.
CloseLink ==
  /\ link = "dead"
  /\ link' = "down"
  /\ UNCHANGED <<procVars, runVars, cacheVars, diskVars, hubVars, budgets>>

\* Every beat names what is running; the hub hears it over an open link.
Heartbeat ==
  /\ link = "open"
  /\ believed' = running
  /\ UNCHANGED <<procVars, link, runVars, cacheVars, diskVars, delivered, settled, budgets>>

-----------------------------------------------------------------------------
\* Frames from the hub.  They arrive while the socket is OPEN, half-open or not.

Receiving == link \in {"open", "dead"}

\* A frame for a job that is still running is dropped.
DropDuplicate(j) ==
  /\ Receiving
  /\ j \in running
  /\ UNCHANGED vars

\* A frame for a finished job is answered from the cache.
Replay(j) ==
  /\ Receiving
  /\ j \notin running
  /\ j \in Cached
  /\ delivered' = Reaches(delivered, {j})
  /\ UNCHANGED <<procVars, link, runVars, cacheVars, diskVars, settled, believed, budgets>>

\* limiter.acquire(): the stage starts to provision, or queues behind the others.
AcceptStage(j, h) ==
  /\ Receiving
  /\ j \in Stages
  /\ Fresh(j)
  /\ Idle(h)
  /\ TrackJob(j)
  /\ job' = [job EXCEPT ![h] = j]
  /\ \/ /\ inUse < MaxSlots
        /\ inUse' = inUse + 1
        /\ pc' = [pc EXCEPT ![h] = "provision"]
        /\ UNCHANGED waiters
     \/ /\ inUse >= MaxSlots
        /\ waiters' = Append(waiters, h)
        /\ pc' = [pc EXCEPT ![h] = "queued"]
        /\ UNCHANGED inUse
  /\ UNCHANGED <<procVars, link, aborted, cancelHere, cacheVars, tail, hubVars, crashes, flaps>>

\* A push is tracked like a stage but never limited.
AcceptPush(j, h) ==
  /\ Receiving
  /\ j \in Pushes
  /\ Fresh(j)
  /\ Idle(h)
  /\ TrackJob(j)
  /\ job' = [job EXCEPT ![h] = j]
  /\ pc' = [pc EXCEPT ![h] = "push"]
  /\ UNCHANGED <<procVars, link, aborted, cancelHere, inUse, waiters, cacheVars, tail, hubVars, crashes, flaps>>

\* stageRunner.cancel(): only a runner in the `active` map can be aborted.
ActiveFor(j) == {h \in Handlers : pc[h] = "run" /\ job[h] = j}

CancelFrame(j) ==
  /\ Receiving
  /\ j \in Cancellable
  /\ aborted' = aborted \cup ActiveFor(j)
  /\ cancelHere' = cancelHere \cup {h \in Busy : job[h] = j}
  /\ ackedCancels' = Remember(ackedCancels, j)
  /\ acked' = acked \cup {j}
  /\ settled' = Reaches(settled, {j})
  /\ UNCHANGED <<procVars, link, running, job, pc, inUse, waiters, lastResults, finished,
                 diskVars, delivered, believed, budgets>>

\* A `turn` frame that ends the conversation with cancel aborts too, unacked.
TurnCancel(j) ==
  /\ Receiving
  /\ j \in Cancellable
  /\ aborted' = aborted \cup ActiveFor(j)
  /\ UNCHANGED <<procVars, link, running, job, pc, inUse, waiters, cancelHere, cacheVars,
                 diskVars, hubVars, budgets>>

-----------------------------------------------------------------------------
\* The handlers' own progress.

\* active.set(jobId, runner), and the runner starts.
StartRunner(h) ==
  /\ pc[h] = "provision"
  /\ pc' = [pc EXCEPT ![h] = "run"]
  /\ UNCHANGED <<procVars, link, running, job, aborted, inUse, waiters, cancelHere, cacheVars,
                 diskVars, hubVars, budgets>>

\* The runner ended, was aborted, or timed out; finish() takes it out of `active`.
RunnerEnds(h) ==
  /\ pc[h] = "run"
  /\ pc' = [pc EXCEPT ![h] = "finish"]
  /\ UNCHANGED <<procVars, link, running, job, aborted, inUse, waiters, cancelHere, cacheVars,
                 diskVars, hubVars, budgets>>

\* The result is remembered and sent before anything else can be handled.
Report(j) ==
  /\ lastResults' = Remember(lastResults, j)
  /\ finished' = finished \cup {j}
  /\ delivered' = Reaches(delivered, {j})

Release_WakesNobody(h) ==
  /\ inUse' = inUse - 1
  /\ pc' = [pc EXCEPT ![h] = "idle"]
  /\ UNCHANGED waiters

\* release(): the slot passes to the oldest waiter, whose runJob starts; only
\* with nobody queued does the count go down.
Release(h) ==
  \/ /\ waiters # <<>>
     /\ waiters' = Tail(waiters)
     /\ pc' = [pc EXCEPT ![h] = "idle", ![Head(waiters)] = "provision"]
     /\ UNCHANGED inUse
  \/ /\ waiters = <<>>
     /\ inUse' = IF inUse > 0 THEN inUse - 1 ELSE inUse
     /\ pc' = [pc EXCEPT ![h] = "idle"]
     /\ UNCHANGED waiters

\* runJob returned, or threw from wherever it was: report, release, untrack.
CompleteStage(h) ==
  /\ h \in Holders
  /\ Report(job[h])
  /\ UntrackJob(job[h])
  /\ job' = [job EXCEPT ![h] = NoJob]
  /\ aborted' = aborted \ {h}
  /\ cancelHere' = cancelHere \ {h}
  /\ Release(h)
  /\ UNCHANGED <<procVars, link, ackedCancels, acked, tail, settled, believed, crashes, flaps>>

CompletePush_Releases(h) ==
  /\ pc[h] = "push"
  /\ Report(job[h])
  /\ UntrackJob(job[h])
  /\ job' = [job EXCEPT ![h] = NoJob]
  /\ pc' = [pc EXCEPT ![h] = "idle"]
  /\ cancelHere' = cancelHere \ {h}
  /\ inUse' = inUse - 1
  /\ UNCHANGED <<procVars, link, aborted, waiters, ackedCancels, acked, tail, settled, believed,
                 crashes, flaps>>

CompletePush(h) ==
  /\ pc[h] = "push"
  /\ Report(job[h])
  /\ UntrackJob(job[h])
  /\ job' = [job EXCEPT ![h] = NoJob]
  /\ pc' = [pc EXCEPT ![h] = "idle"]
  /\ cancelHere' = cancelHere \ {h}
  /\ UNCHANGED <<procVars, link, aborted, inUse, waiters, ackedCancels, acked, tail, settled, believed,
                 crashes, flaps>>

-----------------------------------------------------------------------------
FrameFor(j) ==
  \/ DropDuplicate(j)
  \/ Replay(j)
  \/ \E h \in Handlers : AcceptStage(j, h) \/ AcceptPush(j, h)
  \/ CancelFrame(j)
  \/ TurnCancel(j)

Progress(h) == StartRunner(h) \/ RunnerEnds(h) \/ CompleteStage(h) \/ CompletePush(h)

Next ==
  \/ \E p \in Pids : Boot(p)
  \/ \E j \in Jobs : ReconcileEntry(j)
  \/ FinishReconcile
  \/ Crash
  \/ Connect \/ LinkDies \/ CloseLink \/ Heartbeat
  \/ \E j \in Jobs : FrameFor(j)
  \/ \E h \in Handlers : Progress(h)

Spec == Init /\ [][Next]_vars

\* The supervisor restarts the node, boot runs to its end, the reconnect timer
\* and the heartbeat fire, handlers run on, and the hub sends again what it has
\* no result for.  Crashes, flaps and faults are bounded, never fair.
Redispatch(j) ==
  /\ j \notin delivered
  /\ Replay(j) \/ \E h \in Handlers : AcceptStage(j, h) \/ AcceptPush(j, h)

Fairness ==
  /\ WF_vars(\E p \in Pids : Boot(p))
  /\ WF_vars(\E j \in Jobs : ReconcileEntry(j))
  /\ WF_vars(FinishReconcile)
  /\ WF_vars(Connect)
  /\ WF_vars(CloseLink)
  /\ \A h \in Handlers : WF_vars(Progress(h))
  /\ \A j \in Jobs : WF_vars(Redispatch(j))

LiveSpec == Spec /\ Fairness

-----------------------------------------------------------------------------
(***************************************************************************)
(* Properties.                                                             *)
(***************************************************************************)

\* A second runner on the same worktree would corrupt it: no job is ever served
\* by two handlers, however often the hub sends it, and the jobs the handlers
\* serve are exactly the keys of `running`.
OneHandlerPerJob ==
  /\ \A g, h \in Busy : job[g] = job[h] => g = h
  /\ running = {job[h] : h \in Busy}

\* The limiter neither leaks nor oversubscribes a slot: the counter is the number
\* of stages between acquire and release, the bound holds, a stage waits only
\* while the node is full, and the queue holds each waiting handler once.
SlotsAccounted ==
  /\ inUse = Cardinality(Holders)
  /\ inUse <= MaxSlots
  /\ waiters # <<>> => inUse = MaxSlots
  /\ {h \in Handlers : pc[h] = "queued"} = ToSet(waiters)
  /\ \A i, k \in 1..Len(waiters) : waiters[i] = waiters[k] => i = k

\* A finished job is answered from the cache until MaxResend newer results have
\* pushed it out, and a handled cancel likewise; a running job has no cached result.
NothingForgotten ==
  /\ \A j \in finished \ running : j \in Cached \/ Len(lastResults) = MaxResend
  /\ \A j \in acked : j \in ToSet(ackedCancels) \/ Len(ackedCancels) = MaxResend
  /\ running \cap Cached = {}

\* While the link really is open, nothing is owed: every result and every ack in
\* the caches has reached the hub, those produced while it was down included.
OpenLinkOwesNothing ==
  link = "open" => Cached \subseteq delivered /\ ToSet(ackedCancels) \subseteq settled

\* The hub adopts what it hears.  Over an open link, whatever it believes to be in
\* flight here is served by a live handler or has its result at the hub: it never
\* waits on a stage that nothing executes.
BelievedJobsAlive ==
  link = "open" => \A j \in believed : j \in delivered \/ \E h \in Busy : job[h] = j

\* Unless a write failed, the file holds exactly the running jobs under our pid, so
\* a death at any moment leaves a record of every job it interrupts.
LedgerMatchesRunning ==
  faults = 0 /\ proc = "up" /\ ~PidMayRepeat =>
    /\ running = {j \in Jobs : ledger[j] = pid}
    /\ running = {j \in Jobs : ledger[j] # NoPid}

\* No stage runs on top of the half-written files of a dead process, unless the node
\* logged that the ledger write or the reconciliation had failed.
NoStageOnInterruptedTail ==
  \A h \in Holders : tail[RunOf[job[h]]] # "dirty"

\* A job this process has finished is run again only when its result was evicted by
\* MaxResend newer ones.
RerunOnlyAfterEviction ==
  [][\A j \in finished : j \in running' \ running => Len(lastResults) = MaxResend]_vars

\* Every job the hub keeps asking for gets its result to the hub, across queueing,
\* half-open links, evictions and process deaths.
EveryJobDelivered == \A j \in Jobs : <>(j \in delivered)

\* The node's admission implements StageAdmission: slots held by the handlers
\* between acquire and release, the queue in the waiters array.
Admission == INSTANCE StageAdmission
               WITH Callers <- Handlers, holding <- Holders, queue <- waiters
AdmissionSpec == Admission!Spec

\* ws-client.ts says of the cancel frame: "we abort the runner AND send a
\* cancel-ack".  Then no stage runs on unaborted after its cancel was acked.
CancelAbortsRunner ==
  \A h \in cancelHere : pc[h] = "run" => h \in aborted
=============================================================================
