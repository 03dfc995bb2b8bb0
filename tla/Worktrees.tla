------------------------------ MODULE Worktrees ------------------------------
(***************************************************************************)
(* The worktrees of a node: how a run gets its worktrees from the mirrors  *)
(* (executor-worktree/src/git-service.ts, ensureMirror to createWorktrees),*)
(* and who removes them: the reaper (worktree-reaper.ts), retention and    *)
(* run-finished (edge/src/stage-runner.ts), the rollback of a failed       *)
(* provisioning, and another run of the same issue that wants the branch.  *)
(*                                                                         *)
(* A commit is the set of runs whose work is in it.  What a push does      *)
(* inside is in RunWork; here it commits and pushes, or only commits.      *)
(***************************************************************************)
EXTENDS Integers, FiniteSets, Sequences, SequencesExt

CONSTANTS
  Runs, First,     \* the runs, one of them
  RepoCount,       \* how many repositories a run may work on; the first is its primary
  Wide,            \* the runs that work on all of them, not on the first only
  Cap,             \* retention's maxRuns, where the node has a retention policy
  Grace, MaxIdle, Ttl,            \* the reaper's three ages
  MaxNow, MaxJobs, MaxFaults,     \* bounds: clock; jobs, deaths and hand deletions
                                  \* (MaxJobs of them in all, at most MaxFaults not jobs)
  NoRef, NotTorn

WorktreesAssumption ==
  /\ IsFiniteSet(Runs) /\ First \in Runs /\ Wide \subseteq Runs /\ RepoCount \in Nat \ {0}
  /\ Cap \in Nat /\ Grace \in Nat /\ MaxIdle \in Nat /\ Ttl \in Nat
  /\ MaxNow \in Nat /\ MaxJobs \in Nat /\ MaxFaults \in 0..MaxJobs
  /\ \A tip \in SUBSET Runs : NoRef # tip
  /\ NotTorn \notin [left : SUBSET (1..RepoCount), by : Runs \cup {"frame"}]

Repos == 1..RepoCount

VARIABLES
  conf,      \* shared: the runs are of one issue; policy: retention is configured
  now,
  jobs, faults,
  tree,      \* for each repository, the runs whose worktree is on disk
  reg,       \* and those the mirror has registered
  dir,       \* the runs whose run directory is on disk
  dirty,     \* worktrees with uncommitted output
  heads,     \* refs/heads of each mirror
  seen,      \* refs/remotes/origin of each mirror, "base" among them
  salvage,   \* refs/dahrk/salvage of each mirror
  remote,    \* the remote's run branches
  merged,    \* what its base branch contains
  map,       \* the worktrees of each run in memory (worktrees, runSiblings)
  used,      \* lastUsed
  touched,   \* the newest time stamp in the run directory
  inFlight,
  job,       \* what each run's job is doing
  purge,     \* the runs retention has still to tear down for it
  torn,      \* a teardown under way: the worktrees left, and for whom
  history    \* per repository: commits made and pushed, when each was last parked,
             \* and the runs whose worktree somebody deleted by hand

disk  == <<tree, reg, dir, dirty>>
refs  == <<heads, seen, salvage>>
world == <<remote, merged>>
memory == <<map, used, inFlight, job, purge, torn>>
vars == <<conf, now, jobs, faults, disk, refs, world, memory, touched, history>>

Needs(r) == IF r \in Wide THEN Repos ELSE {1}
Branch(r) == IF conf.shared THEN First ELSE r
Idle(r) == now - touched[r]
Busy(r) == inFlight[r] > 0          \* isBusy
Live(r) == map[r] # {}              \* isLive

Tip == {NoRef} \cup SUBSET Runs
Parked == [branch : Runs, tip : SUBSET Runs, at : 0..MaxNow]

TypeOK ==
  /\ conf \in [shared : BOOLEAN, policy : BOOLEAN]
  /\ now \in 0..MaxNow /\ jobs \in 0..MaxJobs /\ faults \in 0..MaxFaults
  /\ tree \in [Repos -> SUBSET Runs] /\ reg \in [Repos -> SUBSET Runs]
  /\ \A k \in Repos : tree[k] \subseteq reg[k] \cap dir /\ dirty[k] \subseteq tree[k]
  /\ heads \in [Repos -> [Runs -> Tip]]
  /\ seen \in [Repos -> [Runs \cup {"base"} -> Tip]]
  /\ \A k \in Repos : salvage[k] \subseteq Parked
  /\ remote \in [Repos -> [Runs -> Tip]] /\ merged \in [Repos -> SUBSET Runs]
  /\ map \in [Runs -> SUBSET Repos]
  /\ used \in [Runs -> -1..MaxNow] /\ touched \in [Runs -> 0..MaxNow]
  /\ inFlight \in [Runs -> 0..1]
  /\ job \in [Runs -> {"none", "queued", "staging", "retaining", "down"}]
  /\ \A r \in Runs : inFlight[r] = 1 <=> job[r] \in {"staging", "retaining"}
  /\ \A r \in Runs : /\ purge[r] \in Seq(Runs)
                     /\ torn[r] = NotTorn \/ torn[r] \in [left : SUBSET Repos, by : Runs \cup {"frame"}]
  /\ history \in [Repos -> [made : SUBSET Runs, pushed : SUBSET Runs, hand : SUBSET Runs,
                          parked : [Runs -> -1..MaxNow]]]

Init ==
  /\ conf \in [shared : BOOLEAN, policy : BOOLEAN]
  /\ now = 0 /\ faults \in 0..MaxFaults /\ jobs = MaxJobs - faults
  /\ tree = [k \in Repos |-> {}] /\ reg = [k \in Repos |-> {}] /\ dir = {}
  /\ dirty = [k \in Repos |-> {}]
  /\ heads = [k \in Repos |-> [b \in Runs |-> NoRef]]
  /\ seen = [k \in Repos |-> [b \in Runs \cup {"base"} |-> IF b = "base" THEN {} ELSE NoRef]]
  /\ salvage = [k \in Repos |-> {}]
  /\ remote = [k \in Repos |-> [b \in Runs |-> NoRef]] /\ merged = [k \in Repos |-> {}]
  /\ map = [r \in Runs |-> {}] /\ used = [r \in Runs |-> -1] /\ touched = [r \in Runs |-> 0]
  /\ inFlight = [r \in Runs |-> 0] /\ job = [r \in Runs |-> "none"]
  /\ purge = [r \in Runs |-> <<>>] /\ torn = [r \in Runs |-> NotTorn]
  /\ history = [k \in Repos |-> [made |-> {}, pushed |-> {}, hand |-> {},
                                 parked |-> [r \in Runs |-> -1]]]

Up == \A r \in Runs : job[r] # "down"

-----------------------------------------------------------------------------
(***************************************************************************)
(* Provisioning.                                                           *)
(***************************************************************************)

\* Definitions named <Definition>_<Mistake> are mutants: plausible mistakes in
\* the code, in no action of the model, that the properties are tried against.

\* How the network answers for one repository: the refresh succeeds; it fails and the
\* direct fetch of the base succeeds; both fail.
Net == {"up", "flaky", "down"}

\* gcShadowHeads after a fetch: local heads that mirror a remote branch which has all
\* they have, unless a worktree is registered on them.
Shadows(k) ==
  {b \in Runs : /\ heads[k][b] # NoRef /\ remote[k][b] # NoRef
                /\ heads[k][b] \subseteq remote[k][b]
                /\ \A r \in reg[k] : Branch(r) # b}

Seen_TrustsCache(k, net) ==
  IF net = "up" THEN [b \in Runs \cup {"base"} |-> IF b = "base" THEN merged[k] ELSE remote[k][b]]
  ELSE seen[k]

\* The remote-tracking refs after the refresh (pruned), or after fetching the base only.
Seen(k, net) ==
  CASE net = "up"    -> [b \in Runs \cup {"base"} |-> IF b = "base" THEN merged[k] ELSE remote[k][b]]
    [] net = "flaky" -> [seen[k] EXCEPT !["base"] = merged[k]]
    [] net = "down"  -> seen[k]

Holders_Forgotten(k, r) == {h \in tree[k] \ {r} : Branch(h) = Branch(r) /\ ~Live(h)}

\* The other runs whose worktree holds the branch r wants, entries without a directory
\* pruned.  A busy one is not evicted: it fails the provisioning.
Holders(k, r) == {h \in tree[k] \ {r} : Branch(h) = Branch(r)}

Blocked_Never(k, r) == FALSE
Blocked(k, r) == \E h \in Holders(k, r) : Busy(h)

\* Where the branch starts: the remote's, if the mirror knows one, or the base.
StartPoint(k, r, net) ==
  LET refsNow == Seen(k, net) IN
  IF refsNow[Branch(r)] # NoRef THEN refsNow[Branch(r)] ELSE refsNow["base"]

Orphaned_Never(k, r, net) == {}

\* salvageOrphanedTip: the local head about to be reset, if the start point lacks some of
\* it.
Orphaned(k, r, net) ==
  LET tip == heads[k][Branch(r)] IN
  {p \in {[branch |-> Branch(r), tip |-> tip, at |-> now]} :
     /\ tip # NoRef
     /\ net = "up" => Branch(r) \notin Shadows(k)
     /\ ~(tip \subseteq StartPoint(k, r, net))}

Fails(k, r, net) == r \notin tree[k] /\ (Blocked(k, r) \/ net[k] = "down")

Undone_WholeRun(r, built) == {k \in Repos : r \in tree[k]} \cup built

\* What a failed createWorktrees takes away again: only what this call created.
Undone(r, built) == built

\* createWorktrees of run r for the repositories `need`, in order, up to the first that
\* fails; an existing worktree is reused.  What it fetched, evicted and parked stays.  All
\* of it is synchronous.
Provision(r, need, net) ==
  LET failed == {k \in need : Fails(k, r, net)}
      tried  == {k \in need : r \notin tree[k] /\ \A j \in failed : k <= j}
      built  == tried \ failed
      evicted(k) == IF k \in tried /\ ~Blocked(k, r) THEN Holders(k, r) ELSE {}
      link(k) == IF Blocked(k, r) /\ net[k] = "flaky" THEN "down" ELSE net[k]
  IN
  /\ tree' = [k \in Repos |->
                IF failed = {} THEN (tree[k] \ evicted(k)) \cup IF k \in built THEN {r} ELSE {}
                ELSE tree[k] \ (evicted(k) \cup IF k \in Undone(r, built) THEN {r} ELSE {})]
  /\ reg' = [k \in Repos |-> IF k \in tried THEN tree'[k] ELSE reg[k] \ (tree[k] \ tree'[k])]
  /\ dirty' = [k \in Repos |-> dirty[k] \cap tree'[k]]
  /\ dir' = IF failed = {} THEN dir \cup {r} ELSE dir
  /\ touched' = [x \in Runs |-> IF x = r \/ \E k \in Repos : x \in evicted(k) THEN now ELSE touched[x]]
  /\ seen' = [k \in Repos |-> IF k \in tried THEN Seen(k, link(k)) ELSE seen[k]]
  /\ salvage' = [k \in Repos |-> salvage[k] \cup IF k \in built THEN Orphaned(k, r, net[k]) ELSE {}]
  /\ heads' = [k \in Repos |-> [b \in Runs |->
                 IF k \in built /\ b = Branch(r) THEN StartPoint(k, r, net[k])
                 ELSE IF k \in tried /\ net[k] = "up" /\ b \in Shadows(k) THEN NoRef
                 ELSE heads[k][b]]]
  /\ history' = [k \in Repos |-> [history[k] EXCEPT !.parked = [m \in Runs |->
                   IF k \in built /\ \E p \in Orphaned(k, r, net[k]) : m \in p.tip THEN now ELSE @[m]]]]

Provisioned(r, need, net) == \A k \in need : ~Fails(k, r, net)

-----------------------------------------------------------------------------
(***************************************************************************)
(* Removing.                                                               *)
(***************************************************************************)

\* The runs the reaper may touch: not busy, and older than the grace.
Candidates == {r \in dir : ~Busy(r) /\ Idle(r) >= Grace}

Broken(r) == \A k \in Repos : r \notin tree[k]

Stale_Live(r) == Idle(r) > MaxIdle

\* Idleness says nothing of a run this process holds a worktree for.
Stale(r) == ~Live(r) /\ Idle(r) > MaxIdle

\* The runs a pass collects: the broken, the stale, and the idlest of the rest while more
\* than `limit` are left.  Runs of one age come in any order.
Doomed(limit, doomed) ==
  LET all  == Candidates
      sure == {r \in all : Broken(r) \/ Stale(r)}
      keep == all \ sure
      over == doomed \ sure
      excess == Cardinality(keep) - limit
  IN
  /\ sure \subseteq doomed /\ doomed \subseteq all
  /\ Cardinality(over) = IF excess > 0 THEN excess ELSE 0
  /\ \A x \in over, y \in keep \ over : Idle(x) >= Idle(y)

Expired(p) == now - p.at > Ttl

\* reap(): entries without a directory are pruned, the doomed removed, old salvage refs
\* dropped.  The maps of the stage runner are not told.
Reap(doomed) ==
  /\ tree' = [k \in Repos |-> tree[k] \ doomed]
  /\ reg' = [k \in Repos |-> tree'[k]]
  /\ dir' = dir \ doomed
  /\ dirty' = [k \in Repos |-> dirty[k] \ doomed]
  /\ salvage' = [k \in Repos |-> {p \in salvage[k] : ~Expired(p)}]
  /\ UNCHANGED <<heads, seen, touched>>

\* teardownRun up to its first await: the first worktree goes.
Teardown(x, by) ==
  /\ torn[x] = NotTorn /\ Live(x)
  /\ \E k \in map[x] :
       /\ \A j \in map[x] : k <= j
       /\ torn' = [torn EXCEPT ![x] = [left |-> map[x] \ {k}, by |-> by]]
       /\ tree' = [tree EXCEPT ![k] = @ \ {x}]
       /\ reg' = [reg EXCEPT ![k] = tree'[k]]
       /\ dirty' = [dirty EXCEPT ![k] = @ \ {x}]
       /\ touched' = [touched EXCEPT ![x] = IF x \in dir THEN now ELSE @]
  /\ UNCHANGED dir

\* After an await: the next worktree, or the run directory and the maps.
TeardownGoesOn(x) ==
  /\ torn[x] # NotTorn
  /\ LET left == torn[x].left IN
     IF left # {}
       THEN \E k \in left :
              /\ \A j \in left : k <= j
              /\ torn' = [torn EXCEPT ![x].left = @ \ {k}]
              /\ tree' = [tree EXCEPT ![k] = @ \ {x}]
              /\ reg' = [reg EXCEPT ![k] = tree'[k]]
              /\ dirty' = [dirty EXCEPT ![k] = @ \ {x}]
              /\ UNCHANGED <<dir, map, used>>
       ELSE /\ torn' = [torn EXCEPT ![x] = NotTorn]
            /\ dir' = dir \ {x}
            /\ tree' = [k \in Repos |-> tree[k] \ {x}]
            /\ dirty' = [k \in Repos |-> dirty[k] \ {x}]
            /\ map' = [map EXCEPT ![x] = {}] /\ used' = [used EXCEPT ![x] = -1]
            /\ UNCHANGED reg
  /\ Up
  /\ UNCHANGED <<conf, now, jobs, faults, refs, world, inFlight, job, purge, touched, history>>

-----------------------------------------------------------------------------
(***************************************************************************)
(* Jobs.                                                                   *)
(***************************************************************************)

Dispatch(r) ==
  /\ Up /\ job[r] = "none" /\ jobs > 0
  /\ jobs' = jobs - 1
  /\ job' = [job EXCEPT ![r] = "queued"]
  /\ UNCHANGED <<conf, now, faults, disk, refs, world, map, used, inFlight, purge, torn, touched, history>>

\* A queued job gets its slot: runJob up to its first await that takes time.  A run in
\* `worktrees` is taken to have them; another is provisioned, or the job throws.
Begin(r, net) ==
  /\ Up /\ job[r] = "queued"
  /\ used' = [used EXCEPT ![r] = now]
  /\ IF Live(r)
       THEN /\ dir' = dir \cup {r} /\ touched' = [touched EXCEPT ![r] = now]
            /\ UNCHANGED <<tree, reg, dirty, refs, history, map>>
       ELSE /\ Provision(r, Needs(r), net)
            /\ map' = IF Provisioned(r, Needs(r), net) THEN [map EXCEPT ![r] = Needs(r)] ELSE map
  /\ IF Live(r) \/ Provisioned(r, Needs(r), net)
       THEN job' = [job EXCEPT ![r] = "staging"] /\ inFlight' = [inFlight EXCEPT ![r] = 1]
       ELSE job' = [job EXCEPT ![r] = "none"] /\ UNCHANGED inFlight
  /\ UNCHANGED <<conf, now, jobs, faults, world, purge, torn>>

\* The agent leaves output in the worktrees.
Work(r) ==
  /\ Up /\ job[r] = "staging"
  /\ dirty' = [k \in Repos |-> dirty[k] \cup (tree[k] \cap {r})]
  /\ UNCHANGED <<conf, now, jobs, faults, tree, reg, dir, refs, world, memory, touched, history>>

\* The runs LRU retention would tear down for a job of run r, least recently used first.
Purges(r) ==
  LET prunable == {x \in Runs : Live(x) /\ x # r /\ ~Busy(x)}
      excess == Cardinality({x \in Runs : Live(x)}) - Cap
      size == IF excess <= 0 THEN 0
              ELSE IF excess < Cardinality(prunable) THEN excess ELSE Cardinality(prunable)
  IN IF ~conf.policy THEN {<<>>}
     ELSE {s \in [1..size -> prunable] :
             /\ IsInjective(s)
             /\ \A i, j \in 1..size : i < j => used[s[i]] <= used[s[j]]
             /\ \A i \in 1..size, x \in prunable \ Range(s) : used[s[i]] <= used[x]}

Limit == IF conf.policy THEN Cap ELSE Cardinality(Runs)   \* the default is twenty

\* The stage is over: state.json is rewritten, the reaper runs, the LRU pass is computed.
Retain(r) ==
  /\ Up /\ job[r] = "staging"
  /\ job' = [job EXCEPT ![r] = "retaining"]
  /\ used' = [used EXCEPT ![r] = now]
  /\ \E doomed \in SUBSET dir : Doomed(Limit, doomed) /\ Reap(doomed)
  /\ \E s \in Purges(r) : purge' = [purge EXCEPT ![r] = s]
  /\ UNCHANGED <<conf, now, jobs, faults, world, map, inFlight, torn, history>>

Waiting(r) == \E x \in Runs : torn[x] # NotTorn /\ torn[x].by = r

\* The next run of the pass.  Whether it is busy by now is not looked at.
Purge(r) ==
  /\ Up /\ purge[r] # <<>> /\ ~Waiting(r)
  /\ purge' = [purge EXCEPT ![r] = Tail(@)]
  /\ LET x == Head(purge[r]) IN
     IF Live(x) THEN Teardown(x, r) ELSE UNCHANGED <<disk, torn, touched>>
  /\ UNCHANGED <<conf, now, jobs, faults, refs, world, map, used, inFlight, job, history>>

Return_StaysBusy(r) ==
  /\ Up /\ job[r] = "retaining" /\ purge[r] = <<>> /\ ~Waiting(r)
  /\ job' = [job EXCEPT ![r] = "none"]
  /\ UNCHANGED <<conf, now, jobs, faults, disk, refs, world, map, used, inFlight, purge, torn, touched,
                 history>>

Return(r) ==
  /\ Up /\ job[r] = "retaining" /\ purge[r] = <<>> /\ ~Waiting(r)
  /\ job' = [job EXCEPT ![r] = "none"] /\ inFlight' = [inFlight EXCEPT ![r] = 0]
  /\ UNCHANGED <<conf, now, jobs, faults, disk, refs, world, map, used, purge, torn, touched, history>>

\* The remote takes a branch that contains what it has.
Accepted(k, r, tip) == remote[k][Branch(r)] = NoRef \/ remote[k][Branch(r)] \subseteq tip

\* runPush of one repository: the worktree of the run, or a new one; what is uncommitted is
\* committed, and pushed unless that fails.
Push(r, k, net, lands) ==
  /\ Up /\ job[r] = "none" /\ jobs > 0 /\ k \in Needs(r)
  /\ jobs' = jobs - 1
  /\ used' = [used EXCEPT ![r] = now]
  /\ IF k \in map[r]
       THEN LET tip == heads[k][Branch(r)] \cup (dirty[k] \cap {r}) IN
            /\ r \in tree[k]
            /\ heads' = [heads EXCEPT ![k][Branch(r)] = tip]
            /\ dirty' = [dirty EXCEPT ![k] = @ \ {r}]
            /\ LET sent == IF lands /\ Accepted(k, r, tip) THEN tip ELSE {} IN
               history' = [history EXCEPT ![k].made = @ \cup tip, ![k].pushed = @ \cup sent]
            /\ remote' = IF lands /\ Accepted(k, r, tip)
                           THEN [remote EXCEPT ![k][Branch(r)] = tip] ELSE remote
            /\ UNCHANGED <<tree, reg, dir, seen, salvage, map, touched>>
       ELSE /\ Provision(r, {k}, net)
            /\ map' = IF Provisioned(r, {k}, net) THEN [map EXCEPT ![r] = @ \cup {k}] ELSE map
            /\ UNCHANGED remote
  /\ UNCHANGED <<conf, now, faults, merged, inFlight, job, purge, torn>>

\* The hub says the run is over.  Ignored while the run is busy.
FinishRun(r) ==
  /\ Up /\ ~Busy(r) /\ Teardown(r, "frame")
  /\ UNCHANGED <<conf, now, jobs, faults, refs, world, map, used, inFlight, job, purge, history>>

-----------------------------------------------------------------------------
(***************************************************************************)
(* The rest of the world.                                                  *)
(***************************************************************************)

Tick ==
  /\ now < MaxNow /\ now' = now + 1
  /\ UNCHANGED <<conf, jobs, faults, disk, refs, world, memory, touched, history>>

\* The hosting service merges a pull request, or somebody closes it; the branch goes.
DropBranch(k, b, isMerged) ==
  /\ remote[k][b] # NoRef
  /\ remote' = [remote EXCEPT ![k][b] = NoRef]
  /\ merged' = IF isMerged THEN [merged EXCEPT ![k] = @ \cup remote[k][b]] ELSE merged
  /\ UNCHANGED <<conf, now, jobs, faults, disk, refs, memory, touched, history>>

\* Somebody deletes a worktree by hand; its registration stays.
HandDelete(k, r) ==
  /\ faults > 0 /\ faults' = faults - 1
  /\ r \in tree[k] /\ tree' = [tree EXCEPT ![k] = @ \ {r}]
  /\ dirty' = [dirty EXCEPT ![k] = @ \ {r}]
  /\ touched' = [touched EXCEPT ![r] = now]
  /\ history' = [history EXCEPT ![k].hand = @ \cup {r}]
  /\ UNCHANGED <<conf, now, jobs, reg, dir, refs, world, memory>>

\* The process dies.  The tail a stage left is pinned and reset before anything else
\* happens (RunWork), so it is gone from the worktree here.
Kill ==
  /\ Up /\ faults > 0 /\ faults' = faults - 1
  /\ dirty' = [k \in Repos |-> {r \in dirty[k] : job[r] # "staging"}]
  /\ map' = [r \in Runs |-> {}] /\ used' = [r \in Runs |-> -1]
  /\ inFlight' = [r \in Runs |-> 0] /\ job' = [r \in Runs |-> "down"]
  /\ purge' = [r \in Runs |-> <<>>] /\ torn' = [r \in Runs |-> NotTorn]
  /\ UNCHANGED <<conf, now, jobs, tree, reg, dir, refs, world, touched, history>>

\* The pass at boot, before the first job, whatever the retention policy.
Boot ==
  /\ ~Up
  /\ \E doomed \in SUBSET dir : Doomed(Cardinality(Runs), doomed) /\ Reap(doomed)
  /\ job' = [r \in Runs |-> "none"]
  /\ UNCHANGED <<conf, now, jobs, faults, world, map, used, inFlight, purge, torn, history>>

-----------------------------------------------------------------------------
Jobs == \E r \in Runs :
  \/ Dispatch(r) \/ Work(r) \/ Retain(r) \/ Purge(r) \/ Return(r)
  \/ \E net \in [Repos -> Net] : Begin(r, net)
  \/ \E k \in Needs(r), net \in [Repos -> Net], lands \in BOOLEAN : Push(r, k, net, lands)
Collect == \E r \in Runs : FinishRun(r) \/ TeardownGoesOn(r)
World == \/ Tick \/ Kill \/ Boot
         \/ \E k \in Repos, r \in Runs : HandDelete(k, r) \/ \E m \in BOOLEAN : DropBranch(k, r, m)

Next == Jobs \/ Collect \/ World

Spec == Init /\ [][Next]_vars

-----------------------------------------------------------------------------
(***************************************************************************)
(* Properties.                                                             *)
(***************************************************************************)

Condemned(r) == torn[r] # NotTorn \/ \E x \in Runs : r \in Range(purge[x])

\* Nobody takes a worktree from a run in flight: not the reaper, not another run of its
\* issue that wants the branch, not run-finished, not the rollback of its own push.  A run
\* that starts while the retention pass that condemned it is awaiting something is not
\* protected, and a person's hands are not the program's.  And nobody gives a run a stale
\* one: a new worktree whose branch the mirror knows no remote copy of starts at what the
\* base is on the remote at that moment, whatever the mirror had cached and whatever corpse
\* the local branch is ("truthful failure over a phantom-stale run").
RunsHaveTheirTrees ==
  [][\A r \in Runs, k \in Repos :
       /\ Busy(r) /\ r \in tree[k] /\ r \notin tree'[k] => Condemned(r) \/ faults' < faults
       /\ r \in tree'[k] \ tree[k] /\ seen'[k][Branch(r)] = NoRef
          => heads'[k][Branch(r)] = merged[k]]_vars

\* A commit the node made and never got pushed can be recovered: it is in a local head, or
\* parked under a salvage ref, or was parked longer ago than the salvage ttl.  Resetting a
\* branch (`-B`), collecting shadow heads and expiring refs must all spare it.
UnpushedRecoverable ==
  \A k \in Repos : \A m \in history[k].made \ history[k].pushed :
    \/ \E b \in Runs : heads[k][b] # NoRef /\ m \in heads[k][b]
    \/ \E p \in salvage[k] : m \in p.tip
    \/ history[k].parked[m] >= 0 /\ now - history[k].parked[m] > Ttl

\* A run that waits at a human gate keeps its worktrees however long it idles, as long as
\* it has the branch for itself, no count cap is configured and nobody is tearing it down.
\* (With either it can lose them while `worktrees` still lists them: README.)
ParkedRunKept ==
  ~conf.shared /\ ~conf.policy =>
    \A r \in Runs : torn[r] = NotTorn =>
      \A k \in map[r] : r \in tree[k] \/ r \in history[k].hand

\* Two worktrees never share a branch: commits of one would move the other's HEAD.
OneTreePerBranch ==
  \A k \in Repos : \A x, y \in tree[k] : Branch(x) = Branch(y) => x = y

\* The work of a run survives the comings and goings of the others.
WorkSurvives == UnpushedRecoverable /\ ParkedRunKept /\ OneTreePerBranch
=============================================================================
