------------------------------- MODULE Mirror -------------------------------
(***************************************************************************)
(* The bare mirror a node keeps of a repository (git-service.ts,           *)
(* ensureMirror, migrateMirrorConfig, reconcileMirrorUrl, gcShadowHeads,   *)
(* resolveSeedRef): how it is made, brought over from the legacy layout,   *)
(* re-pointed when the repository moves and refreshed, one git command     *)
(* after another, with the process killed between any two of them.         *)
(*                                                                         *)
(* One repository, its base branch, one run branch of this node and the    *)
(* branch its unfinished work is backed up to.  A tip is the set of commits*)
(* it contains.  What becomes of the worktrees is in Worktrees.            *)
(***************************************************************************)
EXTENDS Integers, Sequences

CONSTANTS
  Commits,
  Older,         \* the tip of an earlier backup
  MaxEvents,     \* bounds: what happens to the repository outside the mirror,
  MaxFaults,     \* the process dying, and the network failing
  NoRef

MirrorAssumption ==
  /\ Older \subseteq Commits /\ MaxEvents \in Nat /\ MaxFaults \in Nat
  /\ \A tip \in SUBSET Commits : NoRef # tip

VARIABLES
  home,      \* where the repository lives: its host, and does the old address redirect
  mirror,    \* the mirror's directory and the configuration of its origin
  heads,     \* refs/heads
  seen,      \* refs/remotes/origin
  remote,    \* the branches of the repository
  held,      \* the run's worktree is registered on its branch
  job,       \* the provisioning under way
  last,      \* how the last one ended
  saved,     \* every tip the backup branch has had
  events, faults

refs == <<heads, seen, remote>>
outside == <<home, held, saved, events>>
vars == <<home, mirror, heads, seen, remote, held, job, last, saved, events, faults>>

Branches == {"base", "run", "wip"}
Tip == {NoRef} \cup SUBSET Commits
Url == [host : {"old", "new"}, user : BOOLEAN]     \* user: with the token user in front
NoUrl == [host |-> "none", user |-> FALSE]
NoRefs == [b \in Branches |-> NoRef]

Idle == [todo |-> <<>>, token |-> FALSE, seeded |-> FALSE, cloning |-> FALSE,
         refreshed |-> FALSE]
Steps == {"init", "remote", "unset", "refspec", "url", "fetch", "collect", "start"}

TypeOK ==
  /\ home \in [host : {"old", "new"}, redirects : BOOLEAN]
  /\ mirror \in [repo : BOOLEAN, flag : BOOLEAN, refspec : {"none", "all", "tracking"},
                 url : Url \cup {NoUrl}]
  /\ ~mirror.repo => mirror.url = NoUrl /\ heads = NoRefs /\ seen = NoRefs
  /\ heads \in [Branches -> Tip] /\ seen \in [Branches -> Tip] /\ remote \in [Branches -> Tip]
  /\ held \in BOOLEAN /\ (held => heads["run"] # NoRef)
  /\ job \in [todo : Seq(Steps), token : BOOLEAN, seeded : BOOLEAN,
              cloning : BOOLEAN, refreshed : BOOLEAN]
  /\ last \in {"none", "started", "no seed", "failed"}
  /\ saved \subseteq SUBSET Commits
  /\ events \in 0..MaxEvents /\ faults \in 0..MaxFaults

\* No mirror yet; or the one an earlier release cloned with --mirror, the remote's
\* branches under refs/heads, the backup of an earlier attempt perhaps among them.
Init ==
  /\ home \in [host : {"old"}, redirects : BOOLEAN]
  /\ \E wip \in {NoRef, Older} : remote = [NoRefs EXCEPT !["base"] = {}, !["wip"] = wip]
  /\ mirror \in {[repo |-> FALSE, flag |-> FALSE, refspec |-> "none", url |-> NoUrl],
                 [repo |-> TRUE, flag |-> TRUE, refspec |-> "all",
                  url |-> [host |-> "old", user |-> FALSE]]}
  /\ heads = IF mirror.repo THEN remote ELSE NoRefs
  /\ seen = NoRefs /\ held = FALSE
  /\ job = Idle /\ last = "none" /\ saved = {remote["wip"]} \ {NoRef}
  /\ events = 0 /\ faults = 0

-----------------------------------------------------------------------------
(***************************************************************************)
(* ensureMirror.                                                           *)
(***************************************************************************)

\* Definitions named <Definition>_<Mistake> are mutants: plausible mistakes in
\* the code, in no action of the model, that the properties are tried against.

\* withTokenUser, for a job with a brokered token: how the clone path builds the address.
Expected(token) == [host |-> home.host, user |-> token]

Migrated_FlagOnly == ~mirror.flag

\* migrateMirrorConfig has nothing to do.
Migrated == ~mirror.flag /\ mirror.refspec = "tracking"

Clone == <<"init", "remote", "refspec", "fetch", "start">>

Refresh_UrlFirst ==
  <<"url">> \o (IF Migrated THEN <<>> ELSE <<"unset", "refspec">>) \o <<"fetch", "collect", "start">>
Refresh_LayoutOnly ==
  (IF Migrated THEN <<>> ELSE <<"unset", "refspec">>) \o <<"fetch", "collect", "start">>

\* The refresh of a mirror that is there.
Refresh ==
  (IF Migrated THEN <<>> ELSE <<"unset", "refspec">>) \o <<"url", "fetch", "collect", "start">>

\* A job wants a worktree: for the run of the model, or for another run of the repository
\* when that run has one.  With a brokered token or without, seeded or not.
Begin(token, seeded) ==
  /\ job = Idle
  /\ job' = [todo |-> IF mirror.repo THEN Refresh ELSE Clone, token |-> token, seeded |-> seeded,
             cloning |-> ~mirror.repo, refreshed |-> FALSE]
  /\ last' = "none"
  /\ UNCHANGED <<mirror, refs, outside, faults>>

At(step) == job.todo # <<>> /\ Head(job.todo) = step
Done == job' = [job EXCEPT !.todo = Tail(@)]
Ends(result) == job' = Idle /\ last' = result

\* A refresh that fails leaves a mirror to go on with; a clone that fails fails the job.
Fails ==
  IF job.cloning THEN Ends("failed")
  ELSE job' = [job EXCEPT !.todo = <<"start">>] /\ UNCHANGED last

MakeRepo ==
  /\ At("init") /\ Done
  /\ mirror' = [mirror EXCEPT !.repo = TRUE]
  /\ UNCHANGED <<refs, last, outside, faults>>

AddRemote ==
  /\ At("remote") /\ Done
  /\ mirror' = [mirror EXCEPT !.url = Expected(job.token), !.refspec = "tracking"]
  /\ UNCHANGED <<refs, last, outside, faults>>

Unset ==
  /\ At("unset") /\ Done
  /\ mirror' = [mirror EXCEPT !.flag = FALSE]
  /\ UNCHANGED <<refs, last, outside, faults>>

SetRefspec ==
  /\ At("refspec") /\ Done
  /\ mirror' = [mirror EXCEPT !.refspec = "tracking"]
  /\ UNCHANGED <<refs, last, outside, faults>>

\* `git remote set-url` wants a remote with some configuration.
HasRemote == mirror.flag \/ mirror.refspec # "none" \/ mirror.url # NoUrl

\* reconcileMirrorUrl.
SetUrl ==
  /\ At("url")
  /\ IF mirror.url = Expected(job.token) \/ HasRemote
     THEN Done /\ mirror' = [mirror EXCEPT !.url = Expected(job.token)] /\ UNCHANGED last
     ELSE Fails /\ UNCHANGED mirror
  /\ UNCHANGED <<refs, outside, faults>>

\* The remote answers: reachable where the mirror looks for it, and the token has a user.
Reaches ==
  /\ mirror.url # NoUrl
  /\ mirror.url.host = home.host \/ home.redirects
  /\ mirror.url.user = job.token

\* `git fetch --prune origin`, by the refspec there is: the legacy one makes refs/heads
\* what the remote has.
Fetch ==
  /\ At("fetch")
  /\ IF Reaches
     THEN /\ job' = [job EXCEPT !.todo = Tail(@), !.refreshed = TRUE]
          /\ heads' = IF mirror.refspec = "all" THEN remote ELSE heads
          /\ seen' = IF mirror.refspec = "tracking" THEN remote ELSE seen
          /\ UNCHANGED last
     ELSE Fails /\ UNCHANGED <<heads, seen>>
  /\ UNCHANGED <<remote, mirror, outside, faults>>

FetchFails ==
  /\ At("fetch") /\ faults < MaxFaults /\ faults' = faults + 1
  /\ Fails /\ UNCHANGED <<mirror, refs, outside>>

Shadow_Never(b) == FALSE

\* gcShadowHeads: a local head no worktree holds, with a remote branch of the same name
\* that has all it has.  The mirror's own HEAD is on the base.
Shadow(b) ==
  /\ b # "base" /\ (b = "run" => ~held)
  /\ heads[b] # NoRef /\ seen[b] # NoRef /\ heads[b] \subseteq seen[b]

Collect ==
  /\ At("collect") /\ Done
  /\ heads' = [b \in Branches |-> IF Shadow(b) THEN NoRef ELSE heads[b]]
  /\ UNCHANGED <<seen, remote, mirror, last, outside, faults>>

-----------------------------------------------------------------------------
(***************************************************************************)
(* What the run starts from.                                               *)
(***************************************************************************)

Resolve_BareName(tracked) == heads["wip"]

\* resolveSeedRef's candidates: the bare name finds the local head first.
Resolve(tracked) == IF heads["wip"] # NoRef THEN heads["wip"] ELSE tracked

\* The remote-tracking refs after the direct fetches: of the base, when the refresh failed,
\* and of a seed that does not resolve.
Looked ==
  LET known == IF job.refreshed THEN seen ELSE [seen EXCEPT !["base"] = remote["base"]]
  IN IF job.seeded /\ Resolve(seen["wip"]) = NoRef /\ Reaches /\ remote["wip"] # NoRef
     THEN [known EXCEPT !["wip"] = remote["wip"]] ELSE known

Chosen_OrBase ==
  IF job.seeded /\ Resolve(Looked["wip"]) # NoRef THEN Resolve(Looked["wip"])
  ELSE IF ~held /\ Looked["run"] # NoRef THEN Looked["run"] ELSE Looked["base"]

\* The start point: the seed, or the delivered branch of the run, or the base.
Chosen ==
  IF job.seeded THEN Resolve(Looked["wip"])
  ELSE IF ~held /\ Looked["run"] # NoRef THEN Looked["run"] ELSE Looked["base"]

\* Without a refresh the base must be fetched now, or the job fails.
StartBlind ==
  /\ At("start") /\ ~job.refreshed
  /\ \/ ~Reaches /\ UNCHANGED faults
     \/ Reaches /\ faults < MaxFaults /\ faults' = faults + 1
  /\ Ends("failed")
  /\ UNCHANGED <<mirror, refs, outside>>

StartWithout ==
  /\ At("start") /\ (job.refreshed \/ Reaches) /\ Chosen = NoRef
  /\ Ends(IF job.seeded THEN "no seed" ELSE "failed")
  /\ seen' = Looked
  /\ UNCHANGED <<mirror, heads, remote, outside, faults>>

\* `worktree add -B`; the tip it resets is parked first (Worktrees).
Start ==
  /\ At("start") /\ (job.refreshed \/ Reaches) /\ Chosen # NoRef
  /\ Ends("started")
  /\ seen' = Looked
  /\ heads' = IF held THEN heads ELSE [heads EXCEPT !["run"] = Chosen]
  /\ held' = TRUE
  /\ UNCHANGED <<mirror, remote, home, saved, events, faults>>

-----------------------------------------------------------------------------
(***************************************************************************)
(* Outside the mirror.                                                     *)
(***************************************************************************)

Happens == events < MaxEvents /\ events' = events + 1

Commit(c) ==
  /\ held /\ Happens
  /\ heads' = [heads EXCEPT !["run"] = @ \cup {c}]
  /\ UNCHANGED <<home, mirror, seen, remote, held, job, last, saved, faults>>

\* A push of this node, by address: the tracking refs do not learn of it.
Push(b) ==
  /\ held /\ job = Idle /\ b # "base" /\ Happens
  /\ remote' = [remote EXCEPT ![b] = heads["run"]]
  /\ saved' = IF b = "wip" THEN saved \cup {heads["run"]} ELSE saved
  /\ UNCHANGED <<home, mirror, heads, seen, held, job, last, faults>>

\* Another node backs the run up, by force.
BackupElsewhere(tip) ==
  /\ Happens
  /\ remote' = [remote EXCEPT !["wip"] = tip] /\ saved' = saved \cup {tip}
  /\ UNCHANGED <<home, mirror, heads, seen, held, job, last, faults>>

\* The pull request is closed and its branch deleted; or the backup is cleaned up.
Drop(b) ==
  /\ b # "base" /\ remote[b] # NoRef /\ Happens
  /\ remote' = [remote EXCEPT ![b] = NoRef]
  /\ UNCHANGED <<home, mirror, heads, seen, held, job, last, saved, faults>>

Move ==
  /\ home.host = "old" /\ Happens
  /\ home' = [home EXCEPT !.host = "new"]
  /\ UNCHANGED <<mirror, refs, held, job, last, saved, faults>>

\* The run's worktree is torn down; its branch stays.
Teardown ==
  /\ held /\ job = Idle /\ held' = FALSE
  /\ UNCHANGED <<home, mirror, refs, job, last, saved, events, faults>>

Kill ==
  /\ job # Idle /\ faults < MaxFaults
  /\ faults' = faults + 1 /\ job' = Idle /\ last' = "none"
  /\ UNCHANGED <<mirror, refs, outside>>

Works == \/ MakeRepo \/ AddRemote \/ Unset \/ SetRefspec \/ SetUrl \/ Fetch \/ Collect
         \/ StartBlind \/ StartWithout \/ Start

Asked == \E token, seeded \in BOOLEAN : Begin(token, seeded)

Next ==
  \/ Asked \/ Works \/ FetchFails \/ Move \/ Teardown \/ Kill
  \/ \E c \in Commits : Commit(c)
  \/ \E tip \in SUBSET Commits \ {{}} : BackupElsewhere(tip)
  \/ \E b \in Branches : Push(b) \/ Drop(b)

\* The process goes on with what it began, and the hub goes on asking for worktrees.
Spec == Init /\ [][Next]_vars /\ WF_vars(Works) /\ WF_vars(Asked)

-----------------------------------------------------------------------------
(***************************************************************************)
(* Properties.                                                             *)
(***************************************************************************)

\* However the making of the mirror, its migration and the move of the repository were cut
\* short: when nothing cuts them short any more, refreshes land again and again, by the tracking
\* refspec and from where the repository now is (git-service.ts:874-878, :905-915).
MirrorHeals ==
  []<>(/\ job.refreshed
       /\ ~mirror.flag /\ mirror.refspec = "tracking" /\ mirror.url.host = home.host)

\* No step of a refresh takes a commit from a branch of this node that the mirror does not
\* still have, on the branch or from the remote: a fetch by the legacy refspec makes
\* refs/heads what the remote has, and the run in flight is not on the remote
\* (git-service.ts:867-879).
RefreshKeepsWork ==
  job.todo # <<>> =>
    \A b \in Branches :
      \/ At("start") \/ heads[b] = NoRef
      \/ heads'[b] # NoRef /\ heads[b] \subseteq heads'[b]
      \/ seen'[b] # NoRef /\ heads[b] \subseteq seen'[b]

\* A run is refused for want of its seed only if the remote, asked, does not have it
\* (git-service.ts:1044-1056).
SeedIsFound == last' = "no seed" /\ last # "no seed" => ~Reaches \/ remote["wip"] = NoRef

\* A seeded run starts from a tip that was backed up, never from the base; after a refresh,
\* never from an older one that the backup the mirror knows contains
\* (git-service.ts:1058-1060, :954-957).
SeedIsTheBackup ==
  At("start") /\ ~held /\ job.seeded /\ held' =>
    LET start == heads'["run"]  tracked == seen'["wip"] IN
    /\ start \in saved
    /\ job.refreshed /\ tracked # NoRef => start = tracked \/ ~(start \subseteq tracked)

\* A run keeps in the mirror what it committed, and finds there what was backed up for it.
MirrorServesRuns == [][RefreshKeepsWork /\ SeedIsFound /\ SeedIsTheBackup]_vars
=============================================================================
