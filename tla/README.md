# A TLA+ model of dahrk-node

dahrk-node is the program that runs on a machine and executes workflow stages for a
hub. It keeps one outbound WebSocket to the hub, receives jobs over it, runs each in a
git worktree of its own with an agent (Claude or Pi) or a plain check command, and
sends the results back. When a run's stages are done it merges, commits and pushes the
run's branch. This directory models the parts of it where order, failure and timing
decide what is right, checks the models with TLC on small instances, and proves the
most important facts for every instance with TLAPS.

Paths below are relative to the repository: `edge` is `packages/edge/src`, `worktree` is
`packages/executor-worktree/src`, `node` is `apps/edge-node/src`.

## 1. Inventory

| component | state it keeps | operations | what is hard | what makes it correct |
|---|---|---|---|---|
| hub link, `edge/ws-client.ts` | socket, `running` map, `lastResults` and `ackedCancels` (bounded), upgrade / health / blob latches, reconnect delay | one handler per frame (job, push, cancel, turn, blob-put-url, policy, upgrade, health, browse), hello, heartbeat, reconnect with back-off, park after a refused token, boot reconciliation | handlers interleave at every `await`; frames are repeated; a half-open socket swallows what is sent; the process dies | one handler per job; a finished job is answered and never run twice while remembered; nothing produced while the link was down is lost; hello never announces a dead job |
| limiter, `edge/concurrency.ts` | `inUse`, `waiters` | acquire, release | a slot is handed over without touching the counter | bound respected, FIFO, no slot lost |
| job ledger, `edge/job-ledger.ts` | `jobs.json` | upsert, remove, clear, stale | writes fail; pids repeat | a death leaves a record of every job it interrupts |
| stage runner, `edge/stage-runner.ts` | `worktrees`, `inFlight`, `active`, `turnQueues`, `lastUsed` | runJob, runPush, finishRun, cancel, enqueueTurn, endTurns, retention | kill timer, stall watchdog, cancel and normal end race; teardown against starting jobs | one verdict per stage; a worktree in use is never removed |
| git service, `worktree/git-service.ts` | mirror, branches, worktrees, wip and salvage refs | ensureWorktrees, commitPending, commitAndPush, backupPush, reconcileInterrupted, mirror maintenance | each git command can fail, the process can die between any two | the work of an agent is never lost and never mixed with half-written files or conflict markers |
| push outcome, `edge/push-outcome.ts` | none | resolveDeliverOutcome | classification of partial failure | "delivered" and "nothing to deliver" are true |
| interactive turns, `worktree/turn-loop.ts`, `elicit-router.ts`, `mailbox.ts` | mailbox, conversation channel, open question, burst | seed, wait, coalesce, ask, settle | human turns, the idle window, cancel and the agent's own end race | no turn lost, doubled or reordered; the stage settles with the right status |
| worktree reaper and retention, `worktree/worktree-reaper.ts` | none in memory: the disk | reap, sweepSalvageRefs | reads, then deletes, while jobs start; clocks on disk against maps in memory | never removes the worktree of a run in flight or parked at a gate, never drops a salvage ref too early |
| mirrors, `worktree/git-service.ts` | the bare mirror, its configuration and refs | ensureMirror, migrateMirrorConfig, reconcileMirrorUrl, gcShadowHeads, resolveSeedRef | the process dies between two git commands; the repository moves | a refresh takes no commit of a run away; a mirror heals; a seeded run starts from its backup |
| setup and checks, `worktree/check-runner.ts`, `repo-setup.ts`, `process-group.ts` | sentinels on disk, a process group | run, time out, cancel | what a command leaves in the background; a sentinel shared by several repositories | nothing outlives its command; a verdict is earned; nothing is used before it is set up |
| Claude adapter, `worktree/claude-adapter.ts` | the CLI process, its stream, flags the permission callback reads | batch, converse, recap, cancel, dispose | streams that break, interrupts, a recap racing a cancel | one agent per worktree; a denied call never runs; no process left |
| Pi adapter and RPC client, `worktree/pi-adapter.ts`, `pi-rpc-client.ts`, `pi-container.ts`, `pi-auth.ts` | pending requests, the gate, credentials on disk, a container | prompt, abort, summary, cancel, dispose | acknowledgements, ends and costs over one pipe; ends of a stage that overlap | a prompt is settled by its own turn; no container or credential left |
| browsing, `edge/worktree-browse.ts` | none | list, read | links, old layouts, an agent that edits meanwhile | serves only the run's own files, and all that it lists |
| log shipper, `edge/log-shipper.ts` | ring buffer, counter | queue, flush, clamp | link drops during a flush; policies change | bounded, in order, losses counted; the operator's ceiling kept |
| credential latch, `edge/credential-latch.ts`, `detect-runtimes.ts` | per runtime, latched or not | record, probe | stages of one runtime finish in any order | a dead credential leaves the air, a healthy one stays |
| instance lock, node state, service and upgrade, `node/lock.ts`, `state.ts`, `service.ts`, `update.ts`, `main.ts` | pid file, `node.json`, unit file | start, stop, restart, upgrade, worker boot | two processes; launchd and systemd differ; a worker that restarts itself | one worker at a time; commands keep their promises to the operator |
| update check, `node/update-check.ts` | the cached answer, timers | tick, fetch, status | clocks, failures, askers at once | an answer is renewed in time and vouched for only while it is fresh |
| MCP gateway, policies, prompts, traces, CLI | see `PROJECT.json` | | mostly pure or I/O | |

The parts interact as follows. `ws-client` calls `stageRunner.runJob` / `runPush` behind
the limiter and records every accepted job in the ledger first; the stage runner asks
`git-service` for the worktree, runs the adapter, and answers; for an interactive stage
`turn` frames go through the stage runner into the mailbox that the turn loop reads.
After each stage the stage runner applies retention. At boot `ws-client` reads the
ledger, and has `git-service` reconcile each interrupted worktree before it connects. The CLI
(`node`) starts, stops and upgrades the process all of this runs in, mostly through the system's
supervisor.

`PROJECT.json` lists every component with what is modelled of it, and under `hazards`
each place where the code can go wrong in a way a unit test would hardly reach.

## 2. Modules

| module | models | extends / composes |
|---|---|---|
| `StageAdmission` | the abstract promise of the limiter: at most MaxSlots hold a slot, first come first served, nobody waits while a slot is free | |
| `EdgeJobs` | the life of a job on the node: frames, handlers, limiter, caches, ledger, boot, link, process deaths | implements `StageAdmission` (refinement mapping `Admission`) |
| `MCEdgeJobs` | the small instances of `EdgeJobs` | `EdgeJobs` |
| `SeqFacts` | lemmas about sequences (appending, removing, ranges, order), and induction over the naturals for a set | |
| `EdgeJobs_proofs` | theorems about `EdgeJobs` | `EdgeJobs`, `SeqFacts` |
| `RunWork` | the work of one run on disk: worktree, branch, refs, remote, and each git command that changes them | |
| `Mirror_proofs` | lemmas about `Mirror` | `Mirror`, `SeqFacts` |
| `Git_proofs` | theorems about `RunWork`, `Worktrees` and `Mirror` | `MCGit`, `Mirror_proofs`, `SeqFacts` |
| `TurnLoop` | an interactive stage: mailbox, router, loop, adapters' cancel | |
| `StageRun` | one stage from dispatch to result: early exits, gateway, timers and watchdog, tool calls put to the policies twice, the runner's end, verdict, summary, release | |
| `StageRun_proofs` | theorems about `StageRun`, `Commands` and `Browse` | `MCStage`, `SeqFacts` |
| `Worktrees` | who gives and takes the worktrees of several runs: provisioning, eviction, rollback, reaper, retention, run-finished | |
| `Mirror` | the mirror of a repository: making, migrating, re-pointing, refreshing, seeding | |
| `Commands` | setup commands and checks of a run's stages, as process groups | |
| `Browse` | the two browse requests, against an agent that edits | |
| `ClaudeSession` | the CLI process and the adapter that drives it | |
| `PiSession` | the embedded Pi session and the agent behind a pipe in a container | |
| `Host` | the worker, its lock and its supervisor; start, stop, restart, upgrade | |
| `Link` | the connection to the hub: dial, back-off, heartbeat, parking, control frames and latches | |
| `CredentialLatch` | which runtimes are advertised | |
| `LogShipper` | the ring of log records and its policies | |
| `UpdateCheck` | the timers and the cached answer of the update check | |
| `MCGit` | one run of `RunWork`, `Worktrees` and `Mirror` | all three |
| `MCStage` | one run of `StageRun`, `Commands` and `Browse` | all three |
| `MCAgents` | one run of `TurnLoop`, `PiSession` and `ClaudeSession` | all three |
| `MCRestarts` | one run of `EdgeJobs`, `Host` and `Mirror` | all three |
| `MCRemote` | one run of `Link`, `CredentialLatch`, `LogShipper` and `UpdateCheck` | all four |
| `Agents_proofs` | theorems about `TurnLoop`, `PiSession` and `ClaudeSession` | `MCAgents`, `SeqFacts` |
| `Restarts_proofs` | theorems about `Host`, types of `Mirror` | `MCRestarts`, `Mirror_proofs` |
| `Remote_proofs` | theorems about `Link`, `CredentialLatch`, `LogShipper` and `UpdateCheck` | `MCRemote`, `SeqFacts` |

`EdgeJobs` takes "a stage writes its worktree", "a push runs" and "one entry is
reconciled" as single steps; `RunWork` is what is inside them for one run, git command by
git command; `StageRun` is what is inside `runJob` for one stage, `TurnLoop` what is
inside the runner of an interactive one, and `ClaudeSession` and `PiSession` what is inside a
prompt. `Worktrees` takes a job's git work as a step that commits and pushes, and is about the
directories and refs of several runs; `Mirror` is what is inside its refresh. They are separate
modules because their states hardly touch: `EdgeJobs` establishes that a run is never worked
on by two handlers of the same job, which is why `RunWork` has one `job`.

The `MC` modules put components that share no variable into one specification. A variable `part`
says which of them a behaviour exercises; the others stay in one of their initial states, and
the fairness of each is stated for the behaviours of its own part. This is a way to check
several modules in one run, no claim that they interact: where they do, one module takes the
other's effect as an action of its environment, as above.

### EdgeJobs and the code

- `running` is the key set of the `running` Map; `job`, `pc`: one entry per live
  activation of the async `message` handler, at the `await` it is suspended in
  (`queued` = `limiter.acquire()`, `provision` = the part of `runJob` before
  `active.set`, `run` = the runner, `finish` = trace, retention; `push` = `runPush`).
  Code between two awaits is one action.
- `inUse`, `waiters`, `lastResults`, `ackedCancels`, `ledger` are the variables and the
  file of the same name. `Remember` is the re-keying and eviction of both caches.
- `link = "dead"` is a half-open socket: `readyState` is OPEN, sends succeed, nothing
  arrives. `Reaches` is `send`.
- `tail[r]` abstracts the worktree of run r: `dirty` = half-written by a dead process,
  `warned` = so, but the node logged that its ledger write or reconciliation failed.
- The hub is its effect on the node: it may send any frame at any time, in any order,
  any number of times. `believed` is what it adopts from hello and heartbeats.
- Every ledger write can fail (`Written`): the map in memory changes, the file does not.

### RunWork and the code

A tree or commit is the set of marks in it (`Half(k)`: stage k's half-written output,
`Done(k)`: its finished output, `Base(i)`, conflict `Markers`); ancestry is inclusion. That is
sound here because nothing in the modelled code deletes an agent's content except the
operations that are modelled as such (reset, merge --abort, re-creation of the worktree).
`job` is the git command the deliver or backup push is at; `rc` the command
`reconcileInterrupted` is at. `finished` is what the hub was told is done; `left` and
`dropped` are history: half-written files a dead process left, and content reconciliation
removed from the worktree.

### TurnLoop and the code

`mailbox` is the stage runner's `turnQueues` entry, `conv` the router's conversation
channel, `question` the router's `ref.settle`. Turns are numbered as relayed. `pc` is where
`runInteractiveLoop` is suspended: in `sendTurn` (`prompt`), in the idle race (`wait`), in the
debounce race (`gather`), in `summariseTurn` (`recap`) or in `cancel()` (`stop`). The two
adapters differ in one respect that matters, the order in which `cancel()` interrupts and
aborts, which is the variable `runtime`. What the agent says is left out.

### StageRun and the code

- `conf` is the job, fixed for a behaviour: its runner, whether it is interactive, whether it
  has a time-out, brokered MCP servers, exit hooks, its `max_tool_calls`, and whether a Pi
  session can block a call before it runs (`guardCapabilities` refuses one that cannot).
- `pc` is the `await` runJob is suspended in; the code between two awaits is one action, which
  is why `Start` arms both timers and calls the runner, and `RunnerReturns` clears them, runs
  the hooks, settles status and class.
- A tool call is `phase` (what became of it in the runtime), membership of `shown` (its action
  event has reached onTrace), of `open` (`openToolCalls`) and a share of `auth`
  (`authorisedActions`, which counts by tool and input, so two like calls share a key).
  The runtime's question (`Authorize`) and the event (`Surface`) come in either order, and
  any event can come after the question of another call.
- `cancelled` is the runner's once-only flag, `stopping` that its `cancel()` found something to
  stop. Time is left out: an armed timer may fire at any moment.
- `conn` is a stream the agent holds through the gateway, which keeps `server.close` waiting.
- `result` adds two facts of history to the verdict, whether a hook failed and whether the
  runner had been cancelled before it returned; they are only read by properties.
- Left out: the `perRun` budget (it outlives one stage), failures of the trace writer, what the
  hooks and policies compute beyond allow and deny. `mock` stands for runners that ask nobody.

### Worktrees and the code

- `tree`, `reg`, `dir`: a worktree on disk, its registration in the mirror, the run directory;
  `map`, `used`, `inFlight` are the stage runner's maps, `touched` the newest time stamp
  `lastUsedMs` finds. A branch tip is the set of runs whose work is in it.
- `Begin` is `runJob` up to its first real await, `createWorktrees` included, which is
  synchronous. `Net` is how the network answers for one repository. `Retain`, `Purge` and
  `TeardownGoesOn` split `applyRetention` and `teardownRun` at their awaits; whether a run is busy
  is read once, as in the code.
- `history` says what was committed, pushed, parked and deleted by hand.

### Mirror and the code

`job.todo` is the rest of the git commands of an `ensureMirror`; the process can die between
any two. `mirror` is the configuration (`flag` is remote.origin.mirror), `heads` and `seen` are refs/heads
and refs/remotes/origin, `saved` every tip the backup branch ever had.

### Commands and the code

`leader` is the shell, `child` what it put in the background, with an output of its own
(`quiet`) or holding the command's (`holding`), which delays `close`. `marker` is the digest
sentinel of each repository; `installed` is history.

### Browse and the code

Paths are sequences of names, `Real` resolves the links on the disk, and `edits` are the
agent's changes between the first look (realpath, stat) and the second (read).

### ClaudeSession and the code

`pc` is where the adapter is suspended, `cli` the process, `result` what its stream has brought;
`summarising` and `fired` are the flags the permission callback reads. Turns of the CLI
run, call tools and end by themselves or by an interrupt.

### PiSession and the code

`stdin` and `stdout` are the two directions of the pipe of a container's agent, with at most one
line unread; `pending` and `got` are the client's waiters and what it knows of the current prompt
(acknowledged, ended, priced). An embedded session is the same session without a pipe. `dir` is the
credentials directory.

### Host and the code

`proc` are the processes of this client, `lock` the pidfile, `disk` node.json, `ledger` the pids
jobs.json has jobs of, `loaded` and `disabled` what the supervisor knows. `cmd` is a command of
the operator between two of its steps; commands of the worker's own upgrade are taken by the
worker. `asked` is how the last command ended.

### Link and the code

`sock` is the socket, `reconnectTimer` and `parkTimer` the two timers of which one brings the node back,
`beats` and `sincePong` the heartbeat, `upgrading`, `healthInFlight` and `pendingBlob` the three
latches. `path` is whether the network carries anything: a half-open connection is one where it no longer does.

### CredentialLatch, LogShipper, UpdateCheck and the code

`bad` is the latch, `told` what the last hello advertised, `refused` history. `buffer`, `dropped`, `policy`
and `ceiling` are the shipper's; `written`, `arrived`, `lost` and `cleared` are history. `age` is the age
`status` computes of the cached answer, `trueAge` the real one, `fetching` who waits for the
registry.

## 3. What is checked

Runs finish in one to three minutes. `CHECK_DEADLOCK FALSE` everywhere: the environment
is bounded by budgets, and an idle node, a delivered run or a settled stage really is at rest.

| run | bounds | shows |
|---|---|---|
| `EdgeJobs_safe` | two stages and a push in two runs, one slot, caches of two, one death, one half-open link, one failed write, a cancellable job | `OneHandlerPerJob`, `OpenLinkOwesNothing`, `BelievedJobsAlive`, `LedgerMatchesRunning`, `NoStageOnInterruptedTail`, `RerunOnlyAfterEviction`, and the refinement of `StageAdmission` (`AdmissionSpec`) |
| `EdgeJobs_live` (`MCRestarts`) | jobs: two stages, one slot, caches of one (so eviction loses results), two deaths, two half-open links, pids that repeat | `JobsDelivered` |
| | host: two processes, both supervisors with each kind of unit file, two tokens, two events (commands, workers in a terminal, upgrades, deaths, reboots, revocations) | `WorkerHoldsLock`, `CommandsKeepTheirWord`, `JobsSpared`, `ComesBack` |
| | mirror: one event, one fault | `ComesBack` |
| `EdgeJobs_cancel_ignored` | one cancel, no failures | violation of `CancelAbortsRunner` (finding 1) |
| `RunWork_safe` (`MCGit`) | work: two stages, three pushes, two deaths, one death during boot, one failing git command of the reconciliation, one teardown | `TailFindableOnce`, `OutcomeIsTrue`, `NoMarkersDelivered`, `StartsCleanUndisturbed` |
| | trees: two runs, one of two repositories, on one issue or two, with and without a cap of one; three jobs, deaths and hand deletions in all, at most one of the latter; a clock of two values | `RunsHaveTheirTrees`, `WorkSurvives` |
| | mirror: fresh or legacy, a repository that may move, two commits, two events, one fault | `MirrorServesRuns` |
| `RunWork_wip_overwritten` | two deaths | violation of `TailFindable` (finding 2) |
| `RunWork_boot_killed` | one death, one during boot | violation of `StartsClean` (finding 3) |
| `RunWork_noop` | one death | violation of `NoopMeansPresent` (finding 4) |
| `TurnLoop` (`MCAgents`) | turns: three human turns, two questions, both adapters; end, cancel, wall clock, idle window, thrown prompt at any point | `TurnsConserved`, `GateHearsEverything`, `SettledRightly`, `StagesEnd` |
| | Pi: two prompts, two calls of which one is denied, a ceiling of two, one unread line each way, one question, three models of two providers; embedded and container, batch and conversation | `SettledRightly`, `AgentsBehave`, `StagesEnd` |
| | Claude: batch and conversation, every credential, tool calls, interrupts and broken streams at any point | `AgentsBehave`, `StagesEnd` |
| `TurnLoop_cancel` | one cancel, Claude | violation of `CancelledWaitFails` (finding 5) |
| `StageRun` (`MCStage`) | stage: every kind of job; three calls, two of them alike, one out of the worktree; caps of one and two; cancel, kill and watchdog at any point | `ReleasedOnExit`, `HarnessTakesBlame`, `VerdictsAreEarned`, `StagesReturn` |
| | commands: two stages, two repositories, two scripts, two checks | `CommandsInOrder`, `VerdictsAreEarned`, `StagesReturn` |
| | browse: both layouts, fourteen paths, two edits during a request | `RepliesAreRight` |
| `StageRun_expiry` | the same stage with one call | violation of `ExpiryEndsStage` (finding 6) |
| `Remote` (`MCRemote`) | link: one fault, two control frames, two runtimes, one presigned URL, a back-off of one step | `LinkIsSound`, `WordsAreTrue`, `RemoteRecovers` |
| | latch: one runtime, two stages at a time | `WordsAreTrue`, `RemoteRecovers` |
| | shipper: a ring of two, batches of one, three records | `RecordsAccounted` |
| | update check: an interval of twelve ticks, fetches and jitter of at most one, one upset | `WordsAreTrue` |

Each passing run also checks one type invariant, the conjunction of those of its modules
(`TypeOK`, `PartsTypeOK`, `GitTypeOK`, `AgentsTypeOK`, `SuiteTypeOK`, `RemoteTypeOK`).

Several of these are conjunctions of named parts, each stated where its module defines it:

- `CommandsKeepTheirWord`: a stop that ended well leaves no worker (`StopMeansIdle`), a start a
  service that is kept up (`StartLeavesItUp`), and a stopped node reads as stopped
  (`StoppedIsNoAlarm`). `ComesBack`: `LoadedServes` of the host, `MirrorHeals` of a mirror.
- `OutcomeIsTrue`: a push reported as delivered or as nothing to deliver accounts for all finished
  output (`DeliveryKeepsFinished`), and a reported backup has it (`BackupSaves`).
- `WorkSurvives`: an unpushed commit can be recovered (`UnpushedRecoverable`), a run parked at a gate
  keeps its worktrees (`ParkedRunKept`), and no two worktrees share a branch (`OneTreePerBranch`).
- `MirrorServesRuns`: `RefreshKeepsWork`, `SeedIsFound`, `SeedIsTheBackup`.
- `SettledRightly`: a refused credential is never settled as ok (`RefusalNeverOk`), a cancel of a
  waiting Pi stage fails it (`PiCancelledWaitFails`), and a Pi prompt is settled by the end of its
  own run (`TurnIsSettled`).
- `AgentsBehave`: for Pi `ModelCanRun`, `DeniedNeverRuns`, `NothingLeftBehind`; for Claude
  `RecapRunsNothing`, `DeniedNeverRuns`, `OneAgentAtATime`.
- `StagesEnd`: `StageSettles` of the loop, `TurnsEnd` and `CancelEndsStage` of Pi,
  `NothingLeftBehind` and `CancelEndsStage` of Claude.
- `VerdictsAreEarned`: `OkIsEarned`, `CapHolds` and `WatchdogFollowsTools` of the stage,
  `VerdictIsEarned` and `EveryCheckAnswers` of its checks. `StagesReturn`: `ReachedKillEndsStage`,
  `SilenceEndsStage`, `VerdictIsReturned`, and `CommandsEnd`.
- `CommandsInOrder`: `InstalledBeforeUse` and `NothingOutlives`. `RepliesAreRight`:
  `StaysInTheRun`, `ListedIsServed`, `RefusalIsTrue`.
- `LinkIsSound`: one thing brings the node back (`OneHeir`), a set latch has a holder
  (`LatchesAreHeld`), installs never overlap (`OneInstall`). `WordsAreTrue`: `AdvertisedIsCurrent`,
  `OnlyRefusalsLatch`, `CadenceHolds`, `VouchedIsTrue`, `StaleMeansTrouble`. `RecordsAccounted`:
  `ShippedInOrder`, `NewestWaits`, `LossIsCounted`,
  `OperatorDecides`, `OffIsFinal`. `RemoteRecovers`:
  `LinkComesBack`, `StartupSettles`, `BlobsSettle`, `DeadLeavesTheAir`.

Why the bounds are enough. With one slot and two stages (pushes
take no slot) hand-over, a release with an empty queue and a death with a waiter all happen; that several
waiters are served in order is what `AdmissionCorrect` proves for any number. Caches of two with three jobs
evict; caches of one (live) evict on every second result. One death with one failed write
covers every place the record of a job can be missing. Two stages are the least that has
"finished output of an earlier stage" under "half-written output of a later one"; two
deaths the least that overwrites a wip ref. Three turns allow a burst of two and a reply or a
turn left behind. Two like calls are the least that can swap their authorisations, a third
outside call the least that mixes a denial with them, and a cap of one or two is reached
before, between and after them. Two runs of one issue are the least that compete for a branch,
and a run of two repositories the least whose provisioning fails half-way. A ring of two with three
records overflows once and keeps order to be wrong about. Two events of `Host` put any command after any
other, a death or a reboot. What takes more, two rival workers that are both upgraded (three), or the upgrade
of a terminal's worker that takes back what a start did (four), makes the run too long; those invariants were
tried with four events on `Host` alone, and the theorems hold for any number. One fault of `Mirror` cuts a refresh at any command, and the refreshes after it go undisturbed,
which is what healing is about. Two edits let the agent change a path between the two looks of one
request and back before the next. An interval of twelve ticks gives the repeating timer its four periods of three.

Symmetry is used only in `EdgeJobs_safe`, over handlers, which no configuration or property tells
apart, and never in a run with a liveness property.

### Fairness

`EdgeJobs`: the supervisor restarts the node (Boot), boot's loop over the ledger and the
reconnect timer run on, each handler continues after its await, and the hub sends again
what it has no result for, which is its durable retry. Deaths, half-open links and faults are
bounded and never fair. Weak fairness is enough: each of these stays enabled until taken, a
death aside.

`TurnLoop`: the dispatcher and the loop continue, timers fire (`SettleQuestion`,
`IdleTimeout`), and a prompt not parked in a question ends, which the turn ceiling and the
stage's wall clock guarantee. Nothing is assumed of the human, of the hub or of the
interrupt's answer.

`StageRun`: armed timers fire, opening a session succeeds or fails, a runner whose cancel
reached it returns, the summary ends (its turns are bounded), and the stage's own code runs
on. Nothing is assumed of an agent at work, of the human or of an MCP server, so the
liveness properties say what the timers alone guarantee.

`PiSession`, `ClaudeSession`: the adapter's coroutines run on, a line that arrived is read, a live
agent reads its input, a turn of it ends once it may (the model's call is answered, or aborted), the
CLI answers an interrupt and exits when it is killed or its input ends. Nothing is assumed of a
container that stopped; the properties except it.

`Host`: the supervisor starts a loaded service that is down, a process goes when it was told to,
boots, is answered by the hub and polls its state file. Commands, deaths and reboots are bounded
events. `Mirror`: the git commands of a refresh run on, and a repository is asked for again and again.

`Link`: a dial ends one way or the other, an armed timer fires, a beat comes, a request for a URL times
out. Strong fairness is needed in two places, because a flapping network disables what is to happen:
the hub's answer to a hello (`Welcome \/ Rejected`), and the look at the socket at start-up.
`CredentialLatch`: probes are repeated and stages end; strong fairness of the hub's dispatch and of a
stage meeting or telling the refusal, since stages of a runtime come and go.

`Commands`: a shell and its supervision run on, a child that holds the output need never end, and the
time-out fires. `Browse`, `Worktrees`, `LogShipper` and `UpdateCheck` state no liveness.

In the `MC` modules each of these is conjoined with the `part` it belongs to.

### Findings

1. A cancel for a job that is queued or still provisioning is acknowledged and aborts
   nothing: the stage later runs to its end (`stage-runner.ts` cancel looks only in `active`).
2. A second interruption of one run forces the wip ref, local and remote, over the first tail.
3. A death between reconciliation's commit and its reset leaves the half-written files
   committed and the tree clean, and the next boot accepts it.
4. Reconciliation resets the uncommitted output of *finished* stages too; the deliver
   push then reports that there is nothing to deliver because the work is on the base.
5. Claude's `cancel()` waits for an interrupt before it aborts, while the stage runner ends
   the mailbox at once: a stage cancelled while it waits for the human ends `ok`.
6. A kill, watchdog or cancel that fires while a Pi session is being opened sets the runner's
   once-only flag and finds nothing to stop; the session then opens, the prompt runs, and
   every later cancel returns at the flag (`pi-adapter.ts:662`). `ReachedKillEndsStage` is
   what does hold.

Known limits met on the way that are parameters of the model rather than runs: with a pid
that repeats (pid 1 in a container) `stale()` is empty and nothing is reconciled
(`job-ledger.ts:148`; `PidMayRepeat`); an entry without a worktree path is skipped
(`ws-client.ts:456`; `PathKnown`); a backup requested after a restart is refused because only the
map in memory is consulted (`stage-runner.ts:1627`, modelled in `DispatchBackup`).
`StageRun` follows the code in these, and its properties are worded around them: a throw
after the gateway was started (`makeRunner`, the opening of a Pi session) goes past `finish`
and leaves the gateway up and the `active` entry behind; a Pi session is kept when an exit
hook fails an ok batch, which then has no summary to dispose of it; `gateway.stop()` waits
for every open stream, and nobody closes Pi's MCP clients; the kill timer is cleared before
the hooks and the summary, which nothing else bounds in time; a hub cancel during the summary
leaves the stage ok; a call that surfaces before the runtime asks is counted twice against
`max_tool_calls`, so the cap may bite early and never late.

The modules written since meet more of the same. Each item is what the code does, modelled as such; the
properties are worded around it.

- **Worktrees.** A run-finished frame for a busy run is ignored and never retried. Teardown
  awaits between worktrees and does not look again whether a run became busy
  (`stage-runner.ts:722`). Eviction by another run of the same issue (`git-service.ts:1180`) and the
  count cap (`worktree-reaper.ts:394`) remove the worktree of an idle live run while the map still lists
  it. A stale remote-tracking branch is taken as start when the refresh failed and only the base
  could be fetched. Reaping at boot ignores the policy.
- **Mirror.** After a failed refresh a stale tracked seed is taken; a diverged local head of the seed's
  name, left by the legacy layout, wins.
- **Host.** On launchd `start` may take a worker on its way out for a running one. The lock has the
  race its comment concedes. A worker still connected with the old token is welcomed again and writes
  it over a newer one; `node.json` is read, merged and written without a lock. A stale pidfile
  whose pid was reused wedges the node. The self-healing reload on launchd, and `service install` and
  `uninstall`, kill running jobs without asking. A failed restart after an upgrade of a
  pm2, container or terminal node leaves its latch set.
- **Link.** A rejection that arrives after a shutdown began still parks. A dial stuck in its
  handshake has no time-out of its own. The ack of an upgrade decided while the socket is down is lost,
  a second health request with another id is dropped, and re-probes may overlap.
- **Credential latch.** A latched runtime is not advertised, so the hub never sends the stage
  whose success would clear it, although the comment at `credential-latch.ts:55-57` counts on one. A
  late ok of an old stage clears the latch, a late refusal of an old key latches a renewed
  pool, and a refusal the classifier does not know never latches.
- **Pi.** `cancel()` awaits the abort of an agent that may have stopped answering, so neither cancel,
  watchdog nor wall clock ends that stage. The end of the child's output rejects nothing. When creating
  an embedded session throws, its configuration directory stays, credentials included, against the comment at
  `pi-adapter.ts:556-563`. An ok batch whose exit hook failed, or that is found to have escaped
  afterwards, never disposes of its session. The recap of a container's agent has tools, no ceiling and no timer.
- **Claude.** `cancel()` awaits `interrupt()`, for ever if the CLI does not answer. The question tool is
  approved unasked in the recap too, where the comment at line 94 has every tool but one denied. A
  batch whose stream ends without a result settles ok; a CLI that died in a conversation reads as empty turns.
- **Commands.** A check that exits with zero while a background child holds its output settles at its
  time-out, recorded as passed and as timed out. A changed setup command that fails keeps the marker of the one before
  (`repo-setup.ts:15-16` says it leaves none). A crash leaves detached groups running, setup cannot
  be cancelled, and a process that leaves its group escapes.
- **Browse.** `.git` and `.dahrk` are hidden in listings and readable when named; a file that grows
  between the look and the read exceeds the cap.
- **Log shipper.** A policy lowered to another level still ships more verbose records already queued; a
  batch is lost on a half-open socket; nothing reads the counter the header (`log-shipper.ts:19-20`) says is reported.
- **Update check.** The one-off and the repeating timer may both fetch, and a node that restarts
  more often than its jitter never checks.

### Mutants

Definitions named `<Definition>_<Mistake>` are plausible mistakes in the code: a dropped
guard, a missing reset, a swapped order. They are in no action of the model; each property
of a passing run has one or more that make TLC report it violated, a conjunction one for almost
every part.

## 4. What is proved

Every invariant and every safety action property of a passing run is stated by a theorem, and so is the
refinement of `StageAdmission`: 37 theorems, listed in `PROJECT.json`. They hold for every value of the
constants that satisfies the named assumptions (`JobsAssumption`, `BoundsAssumption`, `RunAssumption`,
`MCGitAssumption`, `StageRunAssumption`, `StageSuiteAssumption`, `TurnLoopAssumption`, `AgentsAssumption`,
`RestartsAssumption`, `RemoteAssumption`), that is for any number of jobs, handlers, slots, stages, runs,
repositories, processes, calls, turns, records, deaths and faults. The assumptions say what kind of thing a
constant is (a natural number, a set that is finite where the proof counts it, a value that is not one of a
set); none says how the program behaves.

Where a module is checked together with others (`MC` modules), its theorems are about that composition: the
invariant is a conjunction of one invariant per part, and a step of another part leaves a part's
variables alone (the lemmas `EachStep`, or the case of the part in `GitStep`, `PartsStep` and so on).

**EdgeJobs** (`EdgeJobs_proofs`). The invariants are proved in layers, each used by the next:

- `TypeInv`: `TypeOK` with the counters and caches bounded.
- `RunInv`: `OneHandlerPerJob` and `SlotsAccounted` together with what makes them inductive: a
  handler has a job exactly when it is busy, a queued handler is in `waiters` once, and
  `Cardinality(Holders)` follows `inUse` through every hand-over. `SlotsAccounted` alone is not
  inductive: a release could wake a handler that is not queued.
- `DebtInv`: `NothingForgotten` and `OpenLinkOwesNothing`; what is in a cache was finished (or
  acked) here, and an open link has carried all of it.
- `LedgerInv`, `TailInv`: the ledger against `running` and `pid`; and that a dirty worktree has a
  ledger entry of a dead process until it is reconciled, which is why no stage can start on it.
  `NoStageOnInterruptedTailCorrect` carries two hypotheses the code does not guarantee and
  the theorem therefore names: every frame gives its worktree path, and pids do not repeat.
- `AdmissionCorrect`: `EdgeJobs` implements `StageAdmission`, by the mapping `holding <- Holders`,
  `queue <- waiters`: each step is Enter, Wait, Leave, Reset or a stutter.

`SlotsAccounted` and `NothingForgotten` are proved and not listed in a run: `AdmissionSpec`,
`JobsDelivered` and `RerunOnlyAfterEviction` check what follows from them.

**RunWork** (`Git_proofs`).

- `JobInv`: a job runs only in a process that is up and has recorded it, and reconciliation only
  in one that boots.
- `OneKillInv` strengthens `TailFindableOnce`: while at most one process died at work, the tail is
  in the wip ref from the pin on, and whatever was dropped is in it. Reconciliation
  starting over after a death during boot finds a clean tree and does not move the ref.
- `CleanInv` / `UndisturbedInv` strengthen `StartsCleanUndisturbed` and `NoMarkersDelivered`: while
  no reconciliation was cut short or failed, half-written files are never in HEAD, and
  markers are in the tree only inside an open merge.
- `OutcomeIsTrue` needs four more. `FlowInv`: which jobs can be under way, and that the ledger and the
  map name a run only while its worktree is there. `OnceInv`: the wip ref moves at most once while at
  most one process died. `KeptInv`: what the stages finished is in the worktree or on the wip ref, and
  from each step of a delivery on, on the branch and then the remote. `OwnInv`: a run that met a
  conflict, or whose worktree differs from HEAD, has more than the base to save, so a backup
  is never of nothing.

**Worktrees** (`Git_proofs`). `TreesInv`: the types, with a worktree on disk registered and in its run's
directory; that the branch of every worktree exists and a mirror knows a base (`RefsTyped`); and
`CommitsKept`, without which `UnpushedRecoverable` is not inductive: a remote branch has only what was
pushed, and what was parked is under the ref it was *last* parked by until that one expires, because
a sweep deletes by age and a run can be parked again. `OneProcess` (a process goes down with all its jobs)
lets a death restart every teardown. `TreesServed` is the step lemma behind `RunsHaveTheirTrees`.

**Mirror** (`Mirror_proofs`, used in `Git_proofs` and `Restarts_proofs`). `PlanInv`: what a provisioning
has left to do is an end of one of the plans of a refresh or a clone, and nothing fetches while the refspec is
the legacy one, which is why no fetch overwrites the branch of a run. `BackupInv`: every tip of the
backup branch anywhere was backed up, and after the collection of a refresh no local head is left that
the tracked one contains. `RefreshIsSafe`, `SeedsAreFound` and `SeedsAreBackups` are the three parts of
`MirrorServesRuns`.

**Host** (`Restarts_proofs`).

- `ProcInv`: `Kinds` (a process is gone or of a kind, the service has one process, and one that serves is
  loaded), `Holds` (who works or still has a job has the lock and an entry in the ledger, unless a
  rival took the lock from it) and `Rivalry` (two processes between the read and the write of the pidfile,
  or one in between after the other wrote, are known as rivals). `WorkerHoldsLock` is the first half
  of `Holds`; without `Rivalry` it is not inductive, since a late write takes the lock of a worker.
- `WordsInv`: `CommandsKeepTheirWord` for the last two steps of a command as well as after it
  (`IdleWord`, `RunWord`), and `Beside`: the busy processes a command decided to go on beside live, and are
  not the one it will kill. That gives `JobsSpared`.

**StageRun, Commands, Browse** (`StageRun_proofs`).

- `Basics`, `TimersInv`: a verdict settles only in an early exit or after the runner, a timer is
  armed only while the runner works, and one that fired has cancelled a runner, past the early
  exits. It makes `HarnessTakesBlame` inductive: no exit before `Start` can follow a kill, and
  after `Settle` no timer is left to fire.
- `HeldInv`: what is held at each point (in-flight marker, `active` entry, gateway, session), and
  that a live session survives the runner only for an ok Pi batch on its way to the summary, or
  one a hook failed. It makes `ReleasedOnExit` inductive.
- `CallsInv`: `CountInv` bounds `count` and `authorisedActions` by the calls asked for and shown, and the
  calls that ran by the cap; `ShownInv` says what an event that surfaced implies; `WatchInv` ties the
  watchdog to the open calls. They make the three stage parts of `VerdictsAreEarned` inductive.
- `CommandsInv`: where a stage is and which verdicts it has by then (`CmdFlow`), that a marker stands for
  an installation (`CmdInstalled`), and that a result is that of one verdict per check (`CmdVerdicts`).
- `BrowseInv`: what the first look found, and what was served, is in the run, and in a tree at rest is
  what was listed. Nothing is assumed of the links on the disk.

**TurnLoop, PiSession, ClaudeSession** (`Agents_proofs`).

- `LoopInv`: `TurnsInv` says that what was said, is in the burst and waits in the channel, in this
  order, ascends, that the mailbox follows it, and that every turn relayed is in exactly one place;
  `EndIsFinal` that after the end only turns that came too late are left; `ExitInv` ties how the loop was
  left to the status. `TurnsConserved` and `GateHearsEverything` follow.
- `PiInv`: the pipe has at most one prompt, one verdict and one end, all of this turn (`OfThisTurn`), and
  each says what the client and the agent are at (`Protocol`); `Life` says what is left of a session at
  each point; `Allowed` that no frame allows a denied call; `Chosen` that the model is one the
  profile leads to.
- `ClaudeInv`: in a conversation the one process works only while the runner waits for it; a batch stage
  closes a process before it starts the next.

**Link, CredentialLatch, LogShipper, UpdateCheck** (`Remote_proofs`).

- `LinkInv`: `Heir` (exactly one of socket, reconnect timer and park timer brings the node back) and
  `HeldByOne` for both latches: set exactly while one handler holds it, which gives `OneInstall`.
- `LatchInv`: the types and `OnlyRefusalsLatch`, inductive as it stands.
- `ShipInv`: records are numbered as written (`Numbered`), the ring holds the newest (`NewestWaits`), what
  left it is older (`GoneIsOlder`), and `dropped` is the number of records that are nowhere else
  (`Counted`).
- `CheckInv`: the age `status` computes against the real one (`DateIsTrue`), the phases of the two timers
  (`InStep`, `Paced`), and how soon the next fetch must come after each number of misses while nothing was
  upset (`Hurried`), which is what makes `StaleMeansTrouble` true: two misses are not enough.

### What the proofs found

Each of these passed its run and turned out wrong, or too narrow, in the attempt to prove it:

- `Mirror` could not fail a fetch: the action was there and `Next` did not take it. With it, a
  refresh goes on with what it has, as `ensureMirror` does, and all three properties still hold.
- Two properties of `Host` held in the run only because two events are too few. An upgrade of a worker
  started in a terminal can unload the service that a start has just left up (the word of that start is
  no longer good: `RestartSelf`); and of two rival workers the one that restarts for its upgrade
  may be the victim of the other, which then goes on. `StartLeavesItUp` and `JobsSpared` now say so.
- Three definitions chose between alternatives that overlapped (`Presence` of the host among them), which
  TLC resolves by their order and the logic does not. They are chains of conditions now.

### What is left to TLC

The liveness properties `JobsDelivered`, `ComesBack`, `StagesEnd`, `StagesReturn` and `RemoteRecovers`: they
rest on fairness, thus on ENABLED, which this prover does not reason about. Also the properties the
`violation` runs refute. Nothing is claimed for all inputs of a recursive computation: no module with a theorem has a
RECURSIVE operator. Where a proof needs induction over the naturals (the length of a path in `Browse`), it
uses `SetInduction` of `SeqFacts`, which states it for a set in place of a predicate.

## 5. What is not modelled

The hub, the SDKs of the agents, git's object store and the operating system appear only
through what the code does with them. Inside the modelled parts: unborn HEADs and runs without a
repository (`Worktrees`); `mkdir` cut short inside another work tree, and `init` with `remote add`
in two (`Mirror`); Windows, pm2 and container installs beyond their worker, ephemeral nodes, and a
worker's boot in more than one step (`Host`); the sandbox and permission settings and the MCP servers of
Claude's CLI; what a failing `docker kill` leaves; the texts of notes, results and traces; the wire form
of log records; budgets that outlive a stage; failures of the trace writer.

Not modelled at all: the pack cache (`pack-cache.ts`: one check and one copy, which nothing in the
repository wires in; the comment promises an atomic install, the code copies in place), text
heuristics (shell scan, redaction), prompt assembly, overlays, rendering, one-shot probes and
diagnosis, and release scripts: they hold no state worth a model, or only transform text.

## 6. Plan

Of the proofs, the step from a safety theorem to the component that relies on it: that `RunWork`'s `job`
may be one job because of `OneHandlerPerJob`, and that the link of `EdgeJobs` is an abstraction of `Link`, which
needs a module that composes the two and a refinement mapping. Of the liveness properties, the safety
halves: that the step which fairness is to bring cannot be disabled for good, as an invariant
(`Heir` and `PlanInv` are two). Of the model, the final response rule and the deny order of the
policies as operators. In the proofs themselves, the lemmas that take the parts of a composition apart,
which `Git_proofs` and `Restarts_proofs` state alike for `Mirror`.
