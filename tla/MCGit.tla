-------------------------------- MODULE MCGit --------------------------------
(***************************************************************************)
(* The node's git work in one run: RunWork, what the jobs of one run do    *)
(* inside its worktree; Worktrees, who gives and takes the worktrees of    *)
(* several runs; Mirror, what they are taken from.  Worktrees and Mirror   *)
(* each have the refs they need, so the three share no variable: `part`    *)
(* says which of them a behaviour exercises, and the others keep still.    *)
(* That a mirror heals is in MCRestarts.                                   *)
(***************************************************************************)
EXTENDS RunWork

CONSTANTS Runs, First, Wide, RepoCount, Cap, Grace, MaxIdle, Ttl, MaxNow, MaxJobs,
          MaxTreeFaults, NotTorn,                            \* Worktrees
          Commits, Older, MaxRepoEvents, MaxRepoFaults,      \* Mirror
          NoRef

VARIABLES
  part,
  conf, now, jobs, wFaults, wTree, reg, dir, dirty, heads, seen, wSalvage, wRemote, merged,
  map, used, touched, inFlight, wJob, purge, torn, wHistory,
  home, mirror, mHeads, mSeen, mRemote, held, mJob, last, saved, events, mFaults

W == INSTANCE Worktrees
       WITH MaxFaults <- MaxTreeFaults, faults <- wFaults, tree <- wTree, salvage <- wSalvage,
            remote <- wRemote, job <- wJob, history <- wHistory

M == INSTANCE Mirror
       WITH MaxEvents <- MaxRepoEvents, MaxFaults <- MaxRepoFaults, heads <- mHeads,
            seen <- mSeen, remote <- mRemote, job <- mJob, faults <- mFaults

wVars == <<conf, now, jobs, wFaults, wTree, reg, dir, dirty, heads, seen, wSalvage, wRemote,
           merged, map, used, touched, inFlight, wJob, purge, torn, wHistory>>
mVars == <<home, mirror, mHeads, mSeen, mRemote, held, mJob, last, saved, events, mFaults>>

ASSUME MCGitAssumption == W!WorktreesAssumption /\ M!MirrorAssumption

MCInit ==
  /\ part \in {"work", "trees", "mirror"}
  /\ Init /\ (part # "work" => related = FALSE)
  /\ W!Init /\ (part # "trees" => conf = [shared |-> FALSE, policy |-> FALSE] /\ wFaults = 0)
  /\ M!Init /\ (part # "mirror" => home.redirects /\ ~mirror.repo /\ mRemote["wip"] = NoRef)

MCNext ==
  \/ part = "work" /\ Next /\ UNCHANGED <<part, wVars, mVars>>
  \/ part = "trees" /\ W!Next /\ UNCHANGED <<part, vars, mVars>>
  \/ part = "mirror" /\ M!Next /\ UNCHANGED <<part, vars, wVars>>

MCSpec == MCInit /\ [][MCNext]_<<part, vars, wVars, mVars>>

-----------------------------------------------------------------------------
(***************************************************************************)
(* The properties of Worktrees and Mirror; each is stated and explained    *)
(* there.                                                                  *)
(***************************************************************************)

\* Every variable of the three has its type, and a worktree on disk is registered and in its
\* run's directory.
GitTypeOK == TypeOK /\ (part = "trees" => W!TypeOK) /\ M!TypeOK

\* The work of a run survives the comings and goings of the others (Worktrees).
WorkSurvives == part = "trees" => W!WorkSurvives

\* Nobody takes a busy run's worktrees, and a new run gets no stale one (Worktrees).
RunsHaveTheirTrees == W!RunsHaveTheirTrees

\* A run keeps what it committed, and finds what was backed up for it (Mirror).
MirrorServesRuns == M!MirrorServesRuns
=============================================================================
