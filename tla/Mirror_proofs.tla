---------------------------- MODULE Mirror_proofs ----------------------------
(***************************************************************************)
(* The lemmas about Mirror that the theorems of Git_proofs rest on: what a *)
(* refresh or a clone has left to do, and what a mirror holds meanwhile.   *)
(***************************************************************************)
EXTENDS Mirror, SeqFacts, TLAPS

\* What is left to do, at each step of a refresh and of a clone.
ToStart   == <<"start">>
ToCollect == <<"collect", "start">>
ToFetch   == <<"fetch", "collect", "start">>
ToUrl     == <<"url", "fetch", "collect", "start">>
ToRefspec == <<"refspec", "url", "fetch", "collect", "start">>
ToUnset   == <<"unset", "refspec", "url", "fetch", "collect", "start">>
CloneFetch   == <<"fetch", "start">>
CloneRefspec == <<"refspec", "fetch", "start">>
CloneRemote  == <<"remote", "refspec", "fetch", "start">>

RefreshPlans == {<<>>, ToStart, ToCollect, ToFetch, ToUrl, ToRefspec, ToUnset}
ClonePlans   == {Clone, CloneRemote, CloneRefspec, CloneFetch, ToStart}

\* What a step finds at the head of a plan, and leaves.
LEMMA Plans ==
  /\ Head(ToStart) = "start" /\ Tail(ToStart) = <<>> /\ ToStart # <<>>
  /\ Head(ToCollect) = "collect" /\ Tail(ToCollect) = ToStart /\ ToCollect # <<>>
  /\ Head(ToFetch) = "fetch" /\ Tail(ToFetch) = ToCollect /\ ToFetch # <<>>
  /\ Head(ToUrl) = "url" /\ Tail(ToUrl) = ToFetch /\ ToUrl # <<>>
  /\ Head(ToRefspec) = "refspec" /\ Tail(ToRefspec) = ToUrl /\ ToRefspec # <<>>
  /\ Head(ToUnset) = "unset" /\ Tail(ToUnset) = ToRefspec /\ ToUnset # <<>>
  /\ Head(CloneFetch) = "fetch" /\ Tail(CloneFetch) = ToStart /\ CloneFetch # <<>>
  /\ Head(CloneRefspec) = "refspec" /\ Tail(CloneRefspec) = CloneFetch /\ CloneRefspec # <<>>
  /\ Head(CloneRemote) = "remote" /\ Tail(CloneRemote) = CloneRefspec /\ CloneRemote # <<>>
  /\ Head(Clone) = "init" /\ Tail(Clone) = CloneRemote /\ Clone # <<>>
<1> USE DEF ToStart, ToCollect, ToFetch, ToUrl, ToRefspec, ToUnset, CloneFetch, CloneRefspec, CloneRemote, Clone
<1>1. Head(ToStart) = "start" /\ Tail(ToStart) = <<>> /\ ToStart # <<>>
  OBVIOUS
<1>2. Head(ToCollect) = "collect" /\ Tail(ToCollect) = ToStart /\ ToCollect # <<>>
  OBVIOUS
<1>3. Head(ToFetch) = "fetch" /\ Tail(ToFetch) = ToCollect /\ ToFetch # <<>>
  OBVIOUS
<1>4. Head(ToUrl) = "url" /\ Tail(ToUrl) = ToFetch /\ ToUrl # <<>>
  OBVIOUS
<1>5. Head(ToRefspec) = "refspec" /\ Tail(ToRefspec) = ToUrl /\ ToRefspec # <<>>
  OBVIOUS
<1>6. Head(ToUnset) = "unset" /\ Tail(ToUnset) = ToRefspec /\ ToUnset # <<>>
  OBVIOUS
<1>7. Head(CloneFetch) = "fetch" /\ Tail(CloneFetch) = ToStart /\ CloneFetch # <<>>
  OBVIOUS
<1>8. Head(CloneRefspec) = "refspec" /\ Tail(CloneRefspec) = CloneFetch /\ CloneRefspec # <<>>
  OBVIOUS
<1>9. Head(CloneRemote) = "remote" /\ Tail(CloneRemote) = CloneRefspec /\ CloneRemote # <<>>
  OBVIOUS
<1>10. Head(Clone) = "init" /\ Tail(Clone) = CloneRemote /\ Clone # <<>>
  OBVIOUS
<1> QED BY <1>1, <1>2, <1>3, <1>4, <1>5, <1>6, <1>7, <1>8, <1>9, <1>10

\* The plan of a refresh.
LEMMA RefreshIs == Refresh = IF Migrated THEN ToUrl ELSE ToUnset
<1> DEFINE more == <<"unset", "refspec">>
           plan == more \o ToUrl
<1>1. <<>> \o <<"url", "fetch", "collect", "start">> = ToUrl
  BY DEF ToUrl
<1>2. more \in Seq(Steps) /\ more[1] = "unset" /\ more[2] = "refspec"
  BY DEF Steps
<1>3. /\ ToUrl \in Seq(Steps) /\ ToUrl[1] = "url" /\ ToUrl[2] = "fetch" /\ ToUrl[3] = "collect"
      /\ ToUrl[4] = "start"
  BY DEF Steps, ToUrl
<1>4. ToUnset \in Seq(Steps) /\ \A i \in 1..6 : ToUnset[i] = IF i <= 2 THEN more[i] ELSE ToUrl[i - 2]
  BY DEF Steps, ToUrl, ToUnset
<1>5. Len(more) = 2 /\ Len(ToUrl) = 4 /\ Len(ToUnset) = 6
  BY DEF ToUrl, ToUnset
<1> HIDE DEF more
<1>6. /\ plan \in Seq(Steps) /\ Len(plan) = Len(more) + Len(ToUrl)
      /\ \A i \in 1..Len(more) : plan[i] = more[i]
      /\ \A i \in 1..Len(ToUrl) : plan[Len(more) + i] = ToUrl[i]
  BY <1>2, <1>3, ConcatOf
<1> HIDE DEF plan
<1>7. Len(plan) = 6
  BY <1>5, <1>6
<1>8. \A i \in 1..6 : plan[i] = IF i <= 2 THEN more[i] ELSE ToUrl[i - 2]
  <2> SUFFICES ASSUME NEW i \in 1..6 PROVE plan[i] = IF i <= 2 THEN more[i] ELSE ToUrl[i - 2]
    OBVIOUS
  <2>1. CASE i <= 2
    BY <1>5, <1>6, <2>1
  <2>2. CASE i > 2
    <3>1. i - 2 \in 1..Len(ToUrl) /\ Len(more) + (i - 2) = i
      BY <1>5, <2>2
    <3> QED BY <1>6, <2>2, <3>1
  <2> QED BY <2>1, <2>2
<1>9. plan = ToUnset
  BY <1>4, <1>5, <1>6, <1>7, <1>8, SeqEqual
<1> QED BY <1>1, <1>9 DEF Refresh, plan, more, ToUrl

\* Plans are sequences of steps.
LEMMA PlansTyped == RefreshPlans \cup ClonePlans \subseteq Seq(Steps)
BY DEF RefreshPlans, ClonePlans, Steps, ToStart, ToCollect, ToFetch, ToUrl, ToRefspec, ToUnset, CloneFetch, CloneRefspec, CloneRemote, Clone

-----------------------------------------------------------------------------
HomeType == [host : {"old", "new"}, redirects : BOOLEAN]
MirrorType == [repo : BOOLEAN, flag : BOOLEAN, refspec : {"none", "all", "tracking"},
               url : Url \cup {NoUrl}]
JobType == [todo : RefreshPlans \cup ClonePlans, token : BOOLEAN, seeded : BOOLEAN,
            cloning : BOOLEAN, refreshed : BOOLEAN]

MirrorTypes ==
  /\ home \in HomeType /\ mirror \in MirrorType
  /\ heads \in [Branches -> Tip] /\ seen \in [Branches -> Tip] /\ remote \in [Branches -> Tip]
  /\ job \in JobType
  /\ last \in {"none", "started", "no seed", "failed"}
  /\ saved \subseteq SUBSET Commits
  /\ events \in 0..MaxEvents /\ faults \in 0..MaxFaults

\* A clone works on a mirror without branches, and nothing fetches by the legacy refspec; so
\* the branch of a worktree stays, from its start to its end.
PlanInv ==
  /\ job.todo \in IF job.cloning THEN ClonePlans ELSE RefreshPlans
  /\ ~mirror.repo => mirror.url = NoUrl /\ heads = NoRefs /\ seen = NoRefs /\ job.todo \in {<<>>, Clone}
  /\ held => heads["run"] # NoRef
  /\ job.cloning => heads = NoRefs
  /\ job.todo \in {ToUrl, ToFetch, ToCollect, CloneRefspec, CloneFetch} => mirror.refspec = "tracking"

\* Every tip of the backup branch that the mirror has was backed up; and after a refresh none
\* that the tracking ref contains is left.
BackupInv ==
  /\ {heads["wip"], seen["wip"], remote["wip"]} \subseteq saved \cup {NoRef}
  /\ job.refreshed => job.todo \in {ToCollect, ToStart}
  /\ job.refreshed /\ job.todo = ToStart /\ heads["wip"] # NoRef /\ seen["wip"] # NoRef =>
       ~(heads["wip"] \subseteq seen["wip"])

MirrorInv == MirrorTypes /\ PlanInv /\ BackupInv

\* The step a provisioning is at says what is left of its plan.
LEMMA Where ==
  ASSUME MirrorTypes, PlanInv
  PROVE  /\ At("init") => job.todo = Clone /\ job.cloning
         /\ At("remote") => job.todo = CloneRemote /\ job.cloning
         /\ At("unset") => job.todo = ToUnset /\ ~job.cloning
         /\ At("refspec") => IF job.cloning THEN job.todo = CloneRefspec ELSE job.todo = ToRefspec
         /\ At("url") => job.todo = ToUrl /\ ~job.cloning
         /\ At("fetch") => IF job.cloning THEN job.todo = CloneFetch ELSE job.todo = ToFetch
         /\ At("collect") => job.todo = ToCollect /\ ~job.cloning
         /\ At("start") => job.todo = ToStart
<1> QED BY Plans DEF MirrorTypes, JobType, PlanInv, At, RefreshPlans, ClonePlans

-----------------------------------------------------------------------------
\* They hold at the start.
LEMMA MirrorInit == MirrorAssumption /\ Init => MirrorInv
<1> SUFFICES ASSUME MirrorAssumption, Init PROVE MirrorInv
  OBVIOUS
<1>1. {} \in SUBSET Commits /\ Older \in SUBSET Commits /\ NoRef \notin SUBSET Commits
  BY DEF MirrorAssumption
<1>2. remote \in [Branches -> Tip] /\ remote["run"] = NoRef
  BY <1>1 DEF Init, Branches, Tip, NoRefs
<1>3. NoRefs \in [Branches -> Tip] /\ NoRefs["wip"] = NoRef /\ NoRefs["run"] = NoRef
  BY DEF Branches, Tip, NoRefs
<1>4. heads \in [Branches -> Tip] /\ heads["wip"] \in {NoRef, remote["wip"]} /\ seen = NoRefs
  BY <1>2, <1>3 DEF Init
<1>5. Idle.todo = <<>> /\ ~Idle.cloning /\ ~Idle.refreshed
  BY DEF Idle
<1>6. MirrorTypes
  <2>1. Idle \in [todo : RefreshPlans \cup ClonePlans, token : BOOLEAN, seeded : BOOLEAN,
                  cloning : BOOLEAN, refreshed : BOOLEAN]
    BY DEF Idle, RefreshPlans
  <2>2. mirror \in [repo : BOOLEAN, flag : BOOLEAN, refspec : {"none", "all", "tracking"},
                    url : Url \cup {NoUrl}]
    <3>1. [repo |-> FALSE, flag |-> FALSE, refspec |-> "none", url |-> NoUrl]
            \in [repo : BOOLEAN, flag : BOOLEAN, refspec : {"none", "all", "tracking"}, url : {NoUrl}]
      OBVIOUS
    <3>2. [host |-> "old", user |-> FALSE] \in Url
      BY DEF Url
    <3>3. [repo |-> TRUE, flag |-> TRUE, refspec |-> "all", url |-> [host |-> "old", user |-> FALSE]]
            \in [repo : BOOLEAN, flag : BOOLEAN, refspec : {"none", "all", "tracking"}, url : Url]
      BY <3>2
    <3> QED BY <3>1, <3>3 DEF Init
  <2>3. home \in [host : {"old", "new"}, redirects : BOOLEAN]
    BY DEF Init
  <2>4. saved \subseteq SUBSET Commits
    BY <1>2 DEF Init, Branches, Tip
  <2>5. 0 \in 0..MaxEvents /\ 0 \in 0..MaxFaults
    BY DEF MirrorAssumption
  <2> QED BY <1>2, <1>3, <1>4, <2>1, <2>2, <2>3, <2>4, <2>5 DEF Init, MirrorTypes, HomeType, MirrorType, JobType
<1>7. PlanInv
  <2>1. ~mirror.repo => mirror.url = NoUrl
    BY DEF Init
  <2> QED BY <1>4, <1>5, <2>1, Plans DEF Init, PlanInv, RefreshPlans
<1>8. BackupInv
  BY <1>3, <1>4, <1>5 DEF Init, BackupInv
<1> QED BY <1>6, <1>7, <1>8 DEF MirrorInv

\* A job begins.
LEMMA BeginKeeps ==
  ASSUME MirrorInv, NEW token \in BOOLEAN, NEW seeded \in BOOLEAN, Begin(token, seeded)
  PROVE  MirrorInv'
<1>1. Refresh \in {ToUrl, ToUnset} /\ (Refresh = ToUrl => mirror.refspec = "tracking")
  BY RefreshIs, Plans DEF Migrated
<1>2. job.todo = <<>>
  BY DEF Begin, Idle
<1> DEFINE plan == IF mirror.repo THEN Refresh ELSE Clone
<1>3. /\ job' = [todo |-> plan, token |-> token, seeded |-> seeded, cloning |-> ~mirror.repo,
                 refreshed |-> FALSE]
      /\ last' = "none"
      /\ UNCHANGED <<mirror, refs, outside, faults>>
  BY DEF Begin
<1>4. /\ mirror.repo => plan \in {ToUrl, ToUnset} /\ (plan = ToUrl => mirror.refspec = "tracking")
      /\ ~mirror.repo => plan = Clone
  BY <1>1
<1> HIDE DEF plan
<1>5. mirror.repo \in BOOLEAN
  BY DEF MirrorInv, MirrorTypes, HomeType, MirrorType, JobType
<1>6. plan \in RefreshPlans \cup ClonePlans
  BY <1>4, <1>5 DEF RefreshPlans, ClonePlans
<1>7. job'.todo = plan /\ job'.cloning = ~mirror.repo /\ job'.refreshed = FALSE
  BY <1>3
<1>8. MirrorTypes'
  <2>1. job' \in [todo : RefreshPlans \cup ClonePlans, token : BOOLEAN, seeded : BOOLEAN,
                  cloning : BOOLEAN, refreshed : BOOLEAN]
    BY <1>3, <1>5, <1>6
  <2> QED BY <1>3, <2>1 DEF MirrorInv, MirrorTypes, refs, outside, HomeType, MirrorType, JobType
<1>9. PlanInv'
  <2>1. plan \in IF ~mirror.repo THEN ClonePlans ELSE RefreshPlans
    BY <1>4, <1>5 DEF RefreshPlans, ClonePlans
  <2>2. plan \in {ToUrl, ToFetch, ToCollect, CloneRefspec, CloneFetch} => mirror.refspec = "tracking"
    BY <1>4, <1>5, Plans
  <2> QED BY <1>3, <1>4, <1>7, <2>1, <2>2 DEF MirrorInv, PlanInv, refs, outside
<1>10. BackupInv'
  BY <1>3, <1>7 DEF MirrorInv, BackupInv, refs, outside
<1> QED BY <1>8, <1>9, <1>10 DEF MirrorInv

\* A step of a plan, when there is one, leaves the rest of the job.
LEMMA DoneIs ==
  ASSUME job \in JobType, Done, NEW plan \in RefreshPlans \cup ClonePlans, Tail(job.todo) = plan
  PROVE  /\ job' \in JobType /\ job'.todo = plan /\ job'.cloning = job.cloning
         /\ job'.refreshed = job.refreshed /\ job'.token = job.token /\ job'.seeded = job.seeded
BY DEF Done, JobType

\* A step that fails.
LEMMA FailsIs ==
  ASSUME job \in JobType, Fails
  PROVE  /\ job' \in JobType
         /\ \/ job' = Idle /\ last' = "failed" /\ job.cloning
            \/ /\ job'.todo = ToStart /\ job'.cloning = job.cloning /\ ~job.cloning
               /\ job'.refreshed = job.refreshed /\ last' = last
<1>1. CASE job.cloning
  <2>1. job' = Idle /\ last' = "failed"
    BY <1>1 DEF Fails, Ends
  <2>2. <<>> \in RefreshPlans \cup ClonePlans
    BY DEF RefreshPlans
  <2>3. Idle \in JobType
    BY <2>2 DEF Idle, JobType
  <2> QED BY <1>1, <2>1, <2>3
<1>2. CASE ~job.cloning
  <2>1. job' = [job EXCEPT !.todo = ToStart] /\ last' = last
    BY <1>2 DEF Fails, ToStart
  <2>2. ToStart \in RefreshPlans
    BY DEF RefreshPlans
  <2> QED BY <1>2, <2>1, <2>2 DEF JobType
<1> QED BY <1>1, <1>2

\* The mirror is made.
LEMMA MakeRepoKeeps == ASSUME MirrorInv, MakeRepo PROVE MirrorInv'
<1>1. job.todo = Clone /\ job.cloning /\ job \in JobType
  BY Where DEF MirrorInv, MakeRepo, MirrorTypes, JobType
<1>2. /\ job' \in JobType /\ job'.todo = CloneRemote /\ job'.cloning = job.cloning
      /\ job'.refreshed = job.refreshed
  BY <1>1, DoneIs, Plans DEF MakeRepo, ClonePlans
<1>3. /\ mirror' = [mirror EXCEPT !.repo = TRUE] /\ last' = last
      /\ UNCHANGED <<home, heads, seen, remote, held, saved, events, faults>>
  BY DEF MakeRepo, refs, outside
<1>4. MirrorTypes'
  BY <1>2, <1>3 DEF MirrorInv, MirrorTypes, JobType, HomeType, MirrorType
<1>5. mirror'.repo
  BY <1>3 DEF MirrorInv, MirrorTypes, HomeType, MirrorType, JobType
<1>6. PlanInv'
  BY <1>1, <1>2, <1>3, <1>5, Plans DEF MirrorInv, PlanInv, ClonePlans
<1>7. ~job.refreshed
  BY <1>1, Plans DEF MirrorInv, BackupInv
<1>8. BackupInv'
  BY <1>2, <1>3, <1>7 DEF MirrorInv, BackupInv
<1> QED BY <1>4, <1>6, <1>8 DEF MirrorInv

\* Its remote is configured: cloned, redirected, or brought over from the legacy layout.
LEMMA AddRemoteKeeps == ASSUME MirrorInv, AddRemote PROVE MirrorInv'
<1>1. job.todo = CloneRemote /\ job.cloning /\ job \in JobType
  BY Where DEF MirrorInv, AddRemote, MirrorTypes, JobType
<1>2. /\ job' \in JobType /\ job'.todo = CloneRefspec /\ job'.cloning = job.cloning
      /\ job'.refreshed = job.refreshed
  BY <1>1, DoneIs, Plans DEF AddRemote, ClonePlans
<1>3. /\ mirror' = [mirror EXCEPT !.url = Expected(job.token), !.refspec = "tracking"] /\ last' = last
      /\ UNCHANGED <<home, heads, seen, remote, held, saved, events, faults>>
  BY DEF AddRemote, refs, outside
<1>4. Expected(job.token) \in Url
  BY <1>1 DEF Expected, Url, MirrorInv, MirrorTypes, JobType, HomeType, MirrorType
<1>5. MirrorTypes'
  BY <1>2, <1>3, <1>4 DEF MirrorInv, MirrorTypes, JobType, HomeType, MirrorType
<1>6. mirror.repo /\ mirror'.repo /\ mirror'.refspec = "tracking"
  BY <1>1, <1>3, Plans DEF MirrorInv, MirrorTypes, PlanInv, HomeType, MirrorType, JobType
<1>7. PlanInv'
  BY <1>1, <1>2, <1>3, <1>6, Plans DEF MirrorInv, PlanInv, ClonePlans
<1>8. ~job.refreshed
  BY <1>1, Plans DEF MirrorInv, BackupInv
<1>9. BackupInv'
  BY <1>2, <1>3, <1>8 DEF MirrorInv, BackupInv
<1> QED BY <1>5, <1>7, <1>9 DEF MirrorInv

\* The mirror flag is unset.
LEMMA UnsetKeeps == ASSUME MirrorInv, Unset PROVE MirrorInv'
<1>1. job.todo = ToUnset /\ ~job.cloning /\ job \in JobType
  BY Where DEF MirrorInv, Unset, MirrorTypes, JobType
<1>2. /\ job' \in JobType /\ job'.todo = ToRefspec /\ job'.cloning = job.cloning
      /\ job'.refreshed = job.refreshed
  BY <1>1, DoneIs, Plans DEF Unset, RefreshPlans
<1>3. /\ mirror' = [mirror EXCEPT !.flag = FALSE] /\ last' = last
      /\ UNCHANGED <<home, heads, seen, remote, held, saved, events, faults>>
  BY DEF Unset, refs, outside
<1>4. MirrorTypes'
  BY <1>2, <1>3 DEF MirrorInv, MirrorTypes, JobType, HomeType, MirrorType
<1>5. mirror.repo /\ mirror'.repo
  BY <1>1, <1>3, Plans DEF MirrorInv, MirrorTypes, PlanInv, HomeType, MirrorType, JobType
<1>6. PlanInv'
  BY <1>1, <1>2, <1>3, <1>5, Plans DEF MirrorInv, PlanInv, RefreshPlans
<1>7. ~job.refreshed
  BY <1>1, Plans DEF MirrorInv, BackupInv
<1>8. BackupInv'
  BY <1>2, <1>3, <1>7 DEF MirrorInv, BackupInv
<1> QED BY <1>4, <1>6, <1>8 DEF MirrorInv

\* The refspec becomes the tracking one.
LEMMA SetRefspecKeeps == ASSUME MirrorInv, SetRefspec PROVE MirrorInv'
<1> DEFINE rest == IF job.cloning THEN CloneFetch ELSE ToUrl
<1>1. job.todo = (IF job.cloning THEN CloneRefspec ELSE ToRefspec) /\ job \in JobType
  BY Where DEF MirrorInv, SetRefspec, MirrorTypes, JobType
<1>2. Tail(job.todo) = rest /\ rest \in RefreshPlans \cup ClonePlans
  BY <1>1, Plans DEF RefreshPlans, ClonePlans
<1>3. /\ job' \in JobType /\ job'.todo = rest /\ job'.cloning = job.cloning
      /\ job'.refreshed = job.refreshed
  BY <1>1, <1>2, DoneIs DEF SetRefspec
<1>4. /\ mirror' = [mirror EXCEPT !.refspec = "tracking"] /\ last' = last
      /\ UNCHANGED <<home, heads, seen, remote, held, saved, events, faults>>
  BY DEF SetRefspec, refs, outside
<1>5. MirrorTypes'
  BY <1>3, <1>4 DEF MirrorInv, MirrorTypes, JobType, HomeType, MirrorType
<1>6. mirror.repo /\ mirror'.repo /\ mirror'.refspec = "tracking"
  BY <1>1, <1>4, Plans DEF MirrorInv, MirrorTypes, PlanInv, HomeType, MirrorType, JobType
<1>7. PlanInv'
  BY <1>1, <1>3, <1>4, <1>6, Plans DEF MirrorInv, PlanInv, RefreshPlans, ClonePlans
<1>8. ~job.refreshed
  BY <1>1, Plans DEF MirrorInv, BackupInv
<1>9. BackupInv'
  BY <1>3, <1>4, <1>8 DEF MirrorInv, BackupInv
<1> QED BY <1>5, <1>7, <1>9 DEF MirrorInv

\* The address is corrected, or there is no remote to correct.
LEMMA SetUrlKeeps == ASSUME MirrorInv, SetUrl PROVE MirrorInv'
<1>1. job.todo = ToUrl /\ ~job.cloning /\ job \in JobType
  BY Where DEF MirrorInv, SetUrl, MirrorTypes, JobType
<1>2. ~job.refreshed
  BY <1>1, Plans DEF MirrorInv, BackupInv
<1>3. UNCHANGED <<home, heads, seen, remote, held, saved, events, faults>>
  BY DEF SetUrl, refs, outside
<1>4. Expected(job.token) \in Url
  BY <1>1 DEF Expected, Url, MirrorInv, MirrorTypes, JobType, HomeType, MirrorType
<1>5. mirror.repo /\ mirror.refspec = "tracking"
  BY <1>1, Plans DEF MirrorInv, PlanInv
<1>6. /\ job' \in JobType /\ job'.todo \in {ToFetch, ToStart} /\ job'.cloning = job.cloning
      /\ job'.refreshed = job.refreshed /\ last' = last
      /\ mirror' \in {mirror, [mirror EXCEPT !.url = Expected(job.token)]}
  <2>1. CASE Done /\ mirror' = [mirror EXCEPT !.url = Expected(job.token)] /\ UNCHANGED last
    BY <1>1, <2>1, DoneIs, Plans DEF RefreshPlans
  <2>2. CASE Fails /\ UNCHANGED mirror
    BY <1>1, <2>2, FailsIs
  <2> QED BY <2>1, <2>2 DEF SetUrl
<1>7. MirrorTypes'
  BY <1>3, <1>4, <1>6 DEF MirrorInv, MirrorTypes, JobType, HomeType, MirrorType
<1>8. mirror'.repo /\ mirror'.refspec = "tracking"
  BY <1>5, <1>6 DEF MirrorInv, MirrorTypes, HomeType, MirrorType, JobType
<1>9. PlanInv'
  BY <1>1, <1>3, <1>6, <1>8, Plans DEF MirrorInv, PlanInv, RefreshPlans
<1>10. BackupInv'
  BY <1>2, <1>3, <1>6 DEF MirrorInv, BackupInv
<1> QED BY <1>7, <1>9, <1>10 DEF MirrorInv

\* The remote is fetched, or does not answer.
LEMMA FetchKeeps == ASSUME MirrorAssumption, MirrorInv, Fetch \/ FetchFails PROVE MirrorInv'
<1> DEFINE rest == IF job.cloning THEN ToStart ELSE ToCollect
<1>1. job.todo = (IF job.cloning THEN CloneFetch ELSE ToFetch) /\ job \in JobType
  BY Where DEF MirrorInv, Fetch, FetchFails, MirrorTypes, JobType
<1>2. Tail(job.todo) = rest /\ rest \in IF job.cloning THEN ClonePlans ELSE RefreshPlans
  BY <1>1, Plans DEF RefreshPlans, ClonePlans
<1>3. ~job.refreshed /\ mirror.repo /\ mirror.refspec = "tracking"
  BY <1>1, Plans DEF MirrorInv, PlanInv, BackupInv
<1>4. /\ UNCHANGED <<home, mirror, heads, remote, held, saved, events>>
      /\ faults' \in 0..MaxFaults
  <2>1. heads' = heads /\ UNCHANGED <<home, mirror, remote, held, saved, events>>
    BY <1>3 DEF Fetch, FetchFails, refs, outside
  <2>2. faults' = faults \/ (faults < MaxFaults /\ faults' = faults + 1)
    BY DEF Fetch, FetchFails
  <2>3. faults \in 0..MaxFaults /\ MaxFaults \in Nat
    BY DEF MirrorInv, MirrorTypes, MirrorAssumption
  <2> QED BY <2>1, <2>2, <2>3
<1>5. \/ /\ job' \in JobType /\ job'.todo = rest /\ job'.cloning = job.cloning
         /\ last' = last /\ seen' = remote
      \/ /\ job' = Idle /\ last' = "failed" /\ seen' = seen
      \/ /\ job' \in JobType /\ job'.todo = ToStart /\ job'.cloning = job.cloning /\ ~job.cloning
         /\ ~job'.refreshed /\ last' = last /\ seen' = seen
  <2>1. CASE Fails /\ seen' = seen
    BY <1>1, <1>3, <2>1, FailsIs
  <2>2. CASE Fetch /\ Reaches
    <3>1. job' = [job EXCEPT !.todo = rest, !.refreshed = TRUE] /\ seen' = remote /\ last' = last
      BY <1>2, <1>3, <2>2 DEF Fetch
    <3>2. rest \in RefreshPlans \cup ClonePlans
      BY <1>2
    <3> HIDE DEF rest
    <3> QED BY <1>1, <3>1, <3>2 DEF JobType
  <2> QED BY <2>1, <2>2 DEF Fetch, FetchFails, refs
<1>6. Idle \in JobType /\ Idle.todo = <<>> /\ ~Idle.cloning /\ ~Idle.refreshed
  <2>1. <<>> \in RefreshPlans \cup ClonePlans
    BY DEF RefreshPlans
  <2> QED BY <2>1 DEF Idle, JobType
<1>7. MirrorTypes'
  BY <1>4, <1>5, <1>6 DEF MirrorInv, MirrorTypes, JobType
<1>8. PlanInv'
  <2>1. ToStart \in RefreshPlans /\ <<>> \in RefreshPlans
    BY DEF RefreshPlans
  <2> QED BY <1>2, <1>3, <1>4, <1>5, <1>6, <2>1 DEF MirrorInv, PlanInv
<1>9. BackupInv'
  <2>1. /\ {heads["wip"], seen["wip"], remote["wip"]} \subseteq saved \cup {NoRef}
        /\ seen' \in {seen, remote}
    BY <1>5 DEF MirrorInv, BackupInv
  <2>2. job'.refreshed => job'.todo \in {ToCollect, ToStart}
    BY <1>5, <1>6
  <2>3. job'.refreshed /\ job'.todo = ToStart => heads = NoRefs
    BY <1>5, <1>6, Plans DEF MirrorInv, PlanInv
  <2>4. NoRefs["wip"] = NoRef
    BY DEF NoRefs, Branches
  <2> QED BY <1>4, <2>1, <2>2, <2>3, <2>4 DEF BackupInv
<1> QED BY <1>7, <1>8, <1>9 DEF MirrorInv

\* The shadow heads are collected.
LEMMA CollectKeeps == ASSUME MirrorInv, Collect PROVE MirrorInv'
<1>1. job.todo = ToCollect /\ ~job.cloning /\ job \in JobType
  BY Where DEF MirrorInv, Collect, MirrorTypes, JobType
<1>2. /\ job' \in JobType /\ job'.todo = ToStart /\ job'.cloning = job.cloning
      /\ job'.refreshed = job.refreshed
  BY <1>1, DoneIs, Plans DEF Collect, RefreshPlans
<1>3. /\ heads' = [b \in Branches |-> IF Shadow(b) THEN NoRef ELSE heads[b]] /\ last' = last
      /\ UNCHANGED <<home, mirror, seen, remote, held, saved, events, faults>>
  BY DEF Collect, outside
<1>4. mirror.repo
  BY <1>1, Plans DEF MirrorInv, PlanInv
<1>5. heads' \in [Branches -> Tip]
  BY <1>3 DEF MirrorInv, MirrorTypes, Tip
<1>6. /\ heads'["run"] = IF Shadow("run") THEN NoRef ELSE heads["run"]
      /\ heads'["wip"] = IF Shadow("wip") THEN NoRef ELSE heads["wip"]
  BY <1>3 DEF Branches
<1>7. MirrorTypes'
  BY <1>2, <1>3, <1>5 DEF MirrorInv, MirrorTypes, JobType
<1>8. PlanInv'
  BY <1>1, <1>2, <1>3, <1>4, <1>6, Plans DEF MirrorInv, PlanInv, RefreshPlans, Shadow
<1>9. BackupInv'
  BY <1>2, <1>3, <1>6 DEF MirrorInv, BackupInv, Shadow
<1> QED BY <1>7, <1>8, <1>9 DEF MirrorInv

\* The remote-tracking refs a start leaves.
LEMMA LookedIs ==
  ASSUME MirrorInv
  PROVE  /\ Looked \in [Branches -> Tip] /\ Looked["run"] = seen["run"]
         /\ \/ Looked["wip"] = seen["wip"]
            \/ /\ Looked["wip"] = remote["wip"] /\ remote["wip"] # NoRef
               /\ Resolve(seen["wip"]) = NoRef /\ job.seeded /\ Reaches
         /\ job.seeded /\ Reaches /\ Resolve(seen["wip"]) = NoRef => Looked["wip"] = remote["wip"] \/ remote["wip"] = NoRef
<1> DEFINE known == IF job.refreshed THEN seen ELSE [seen EXCEPT !["base"] = remote["base"]]
           more == job.seeded /\ Resolve(seen["wip"]) = NoRef /\ Reaches /\ remote["wip"] # NoRef
<1>1. known \in [Branches -> Tip] /\ known["run"] = seen["run"] /\ known["wip"] = seen["wip"]
  BY DEF MirrorInv, MirrorTypes, Branches
<1>2. remote["wip"] \in Tip
  BY DEF MirrorInv, MirrorTypes, Branches
<1>3. Looked = IF more THEN [known EXCEPT !["wip"] = remote["wip"]] ELSE known
  BY DEF Looked
<1> HIDE DEF known
<1>4. CASE more
  BY <1>1, <1>2, <1>3, <1>4 DEF Branches
<1>5. CASE ~more
  BY <1>1, <1>3, <1>5
<1> QED BY <1>4, <1>5

\* A provisioning ends: without a worktree, or with one.
LEMMA StartKeeps == ASSUME MirrorAssumption, MirrorInv, StartBlind \/ StartWithout \/ Start PROVE MirrorInv'
<1>1. job.todo = ToStart /\ job \in JobType
  BY Where DEF MirrorInv, StartBlind, StartWithout, Start, MirrorTypes, JobType
<1>2. mirror.repo
  BY <1>1, Plans DEF MirrorInv, PlanInv
<1>3. /\ job' = Idle /\ last' \in {"failed", "no seed", "started"}
      /\ UNCHANGED <<home, mirror, remote, saved, events>> /\ seen' \in {seen, Looked}
      /\ faults' \in 0..MaxFaults
  <2>1. faults' \in 0..MaxFaults
    <3>1. faults' = faults \/ (faults < MaxFaults /\ faults' = faults + 1)
      BY DEF StartBlind, StartWithout, Start
    <3>2. faults \in 0..MaxFaults /\ MaxFaults \in Nat
      BY DEF MirrorInv, MirrorTypes, MirrorAssumption
    <3> QED BY <3>1, <3>2
  <2> QED BY <2>1 DEF StartBlind, StartWithout, Start, Ends, refs, outside
<1>4. \/ heads' = heads /\ held' = held
      \/ heads' = heads /\ held /\ held' = TRUE
      \/ heads' = [heads EXCEPT !["run"] = Chosen] /\ Chosen # NoRef /\ held' = TRUE
  BY DEF StartBlind, StartWithout, Start, Ends, refs, outside
<1>5. Idle \in JobType /\ Idle.todo = <<>> /\ ~Idle.cloning /\ ~Idle.refreshed
  <2>1. <<>> \in RefreshPlans \cup ClonePlans
    BY DEF RefreshPlans
  <2> QED BY <2>1 DEF Idle, JobType
<1>6. Looked \in [Branches -> Tip] /\ Looked["wip"] \in {seen["wip"], remote["wip"]}
  BY LookedIs
<1>7. seen' \in [Branches -> Tip] /\ seen'["wip"] \in saved \cup {NoRef}
  BY <1>3, <1>6 DEF MirrorInv, MirrorTypes, BackupInv
<1>8. Chosen \in Tip
  <2>1. heads["wip"] \in Tip /\ Looked["wip"] \in Tip /\ Looked["run"] \in Tip /\ Looked["base"] \in Tip
    BY <1>6 DEF MirrorInv, MirrorTypes, Branches
  <2> QED BY <2>1 DEF Chosen, Resolve
<1>9. /\ heads' \in [Branches -> Tip] /\ heads'["wip"] = heads["wip"]
      /\ held' => heads'["run"] # NoRef
  <2>1. heads \in [Branches -> Tip] /\ (held => heads["run"] # NoRef)
    BY DEF MirrorInv, MirrorTypes, PlanInv
  <2>2. CASE heads' = [heads EXCEPT !["run"] = Chosen] /\ Chosen # NoRef /\ held' = TRUE
    <3>1. "run" \in Branches /\ "wip" \in Branches /\ "run" # "wip"
      BY DEF Branches
    <3>2. heads' \in [Branches -> Tip]
      BY <1>8, <2>1, <2>2
    <3>3. heads'["wip"] = heads["wip"] /\ heads'["run"] = Chosen
      BY <2>1, <2>2, <3>1
    <3> QED BY <2>2, <3>2, <3>3
  <2>3. CASE heads' = heads /\ (held' = held \/ (held /\ held' = TRUE))
    <3>1. held' => held
      BY <2>3
    <3> QED BY <2>1, <2>3, <3>1
  <2> QED BY <1>4, <2>2, <2>3
<1>10. MirrorTypes'
  BY <1>3, <1>5, <1>7, <1>9 DEF MirrorInv, MirrorTypes, JobType
<1>11. PlanInv'
  BY <1>2, <1>3, <1>5, <1>9, Plans DEF MirrorInv, PlanInv, RefreshPlans
<1>12. BackupInv'
  BY <1>3, <1>5, <1>7, <1>9 DEF MirrorInv, BackupInv
<1> QED BY <1>10, <1>11, <1>12 DEF MirrorInv

\* What happens outside the provisioning.
LEMMA HappensTyped ==
  ASSUME MirrorAssumption, MirrorInv, Happens PROVE events' \in 0..MaxEvents
<1>1. MaxEvents \in Nat /\ events \in 0..MaxEvents
  BY DEF MirrorAssumption, MirrorInv, MirrorTypes
<1>2. events < MaxEvents /\ events' = events + 1
  BY DEF Happens
<1> QED BY <1>1, <1>2

\* The run commits in its worktree.
LEMMA CommitKeeps ==
  ASSUME MirrorAssumption, MirrorInv, NEW c \in Commits, Commit(c) PROVE MirrorInv'
<1>1. events' \in 0..MaxEvents
  BY HappensTyped DEF Commit
<1>2. /\ held /\ heads' = [heads EXCEPT !["run"] = @ \cup {c}]
      /\ UNCHANGED <<home, mirror, seen, remote, held, job, last, saved, faults>>
  BY DEF Commit
<1>3. /\ heads \in [Branches -> Tip] /\ "run" \in Branches /\ "wip" \in Branches /\ "run" # "wip"
      /\ heads["run"] # NoRef
  BY <1>2 DEF MirrorInv, MirrorTypes, PlanInv, Branches
<1>4. heads["run"] \cup {c} \in Tip /\ heads["run"] \cup {c} # NoRef
  BY <1>3 DEF Tip, MirrorAssumption
<1>5. heads' \in [Branches -> Tip] /\ heads'["wip"] = heads["wip"] /\ heads'["run"] # NoRef
  BY <1>2, <1>3, <1>4
<1>6. MirrorTypes'
  BY <1>1, <1>2, <1>5 DEF MirrorInv, MirrorTypes
<1>7. heads # NoRefs
  BY <1>3 DEF NoRefs
<1>8. PlanInv'
  BY <1>2, <1>5, <1>7 DEF MirrorInv, PlanInv
<1>9. BackupInv'
  BY <1>2, <1>5 DEF MirrorInv, BackupInv
<1> QED BY <1>6, <1>8, <1>9 DEF MirrorInv

\* The repository's branches change; the mirror does not hear of it.
LEMMA RemoteMoves ==
  ASSUME MirrorInv, events' \in 0..MaxEvents,
         UNCHANGED <<home, mirror, heads, seen, held, job, last, faults>>,
         remote' \in [Branches -> Tip], saved \subseteq saved', saved' \subseteq SUBSET Commits,
         remote'["wip"] \in saved' \cup {NoRef}
  PROVE  MirrorInv'
<1>1. MirrorTypes'
  BY DEF MirrorInv, MirrorTypes
<1>2. PlanInv'
  BY DEF MirrorInv, PlanInv
<1>3. BackupInv'
  BY DEF MirrorInv, BackupInv
<1> QED BY <1>1, <1>2, <1>3 DEF MirrorInv

\* This node pushes the run's branch, or backs it up.
LEMMA PushKeeps ==
  ASSUME MirrorAssumption, MirrorInv, NEW b \in Branches, Push(b) PROVE MirrorInv'
<1>1. /\ held /\ events' \in 0..MaxEvents
      /\ remote' = [remote EXCEPT ![b] = heads["run"]]
      /\ saved' = IF b = "wip" THEN saved \cup {heads["run"]} ELSE saved
      /\ UNCHANGED <<home, mirror, heads, seen, held, job, last, faults>>
  BY HappensTyped DEF Push
<1>2. heads["run"] \in SUBSET Commits
  BY <1>1 DEF MirrorInv, MirrorTypes, PlanInv, Tip, Branches
<1>3. remote \in [Branches -> Tip] /\ "wip" \in Branches /\ saved \subseteq SUBSET Commits
  BY DEF MirrorInv, MirrorTypes, Branches
<1>4. remote' \in [Branches -> Tip]
  BY <1>1, <1>2, <1>3 DEF Tip
<1>5. remote'["wip"] = IF b = "wip" THEN heads["run"] ELSE remote["wip"]
  BY <1>1, <1>3
<1>6. remote'["wip"] \in saved' \cup {NoRef}
  BY <1>1, <1>5 DEF MirrorInv, BackupInv
<1>7. saved \subseteq saved' /\ saved' \subseteq SUBSET Commits
  BY <1>1, <1>2, <1>3
<1> QED BY <1>1, <1>4, <1>6, <1>7, RemoteMoves

\* A branch of the repository is deleted.
LEMMA DropKeeps ==
  ASSUME MirrorAssumption, MirrorInv, NEW b \in Branches, Drop(b) PROVE MirrorInv'
<1>1. /\ events' \in 0..MaxEvents
      /\ remote' = [remote EXCEPT ![b] = NoRef]
      /\ UNCHANGED <<home, mirror, heads, seen, held, job, last, saved, faults>>
  BY HappensTyped DEF Drop
<1>2. remote \in [Branches -> Tip] /\ "wip" \in Branches /\ saved \subseteq SUBSET Commits
  BY DEF MirrorInv, MirrorTypes, Branches
<1>3. remote' \in [Branches -> Tip]
  BY <1>1, <1>2 DEF Tip
<1>4. remote'["wip"] \in saved' \cup {NoRef}
  BY <1>1, <1>2 DEF MirrorInv, BackupInv
<1> QED BY <1>1, <1>2, <1>3, <1>4, RemoteMoves

\* Another node backs the run up.
LEMMA BackupElsewhereKeeps ==
  ASSUME MirrorAssumption, MirrorInv, NEW tip \in SUBSET Commits, BackupElsewhere(tip) PROVE MirrorInv'
<1>1. /\ events' \in 0..MaxEvents
      /\ remote' = [remote EXCEPT !["wip"] = tip] /\ saved' = saved \cup {tip}
      /\ UNCHANGED <<home, mirror, heads, seen, held, job, last, faults>>
  BY HappensTyped DEF BackupElsewhere
<1>2. remote \in [Branches -> Tip] /\ "wip" \in Branches /\ saved \subseteq SUBSET Commits
  BY DEF MirrorInv, MirrorTypes, Branches
<1>3. remote' \in [Branches -> Tip]
  BY <1>1, <1>2 DEF Tip
<1>4. remote'["wip"] \in saved' \cup {NoRef} /\ saved \subseteq saved' /\ saved' \subseteq SUBSET Commits
  BY <1>1, <1>2
<1> QED BY <1>1, <1>3, <1>4, RemoteMoves

\* The repository moves.
LEMMA MoveKeeps == ASSUME MirrorAssumption, MirrorInv, Move PROVE MirrorInv'
<1>1. /\ events' \in 0..MaxEvents /\ home' = [home EXCEPT !.host = "new"]
      /\ UNCHANGED <<mirror, heads, seen, remote, held, job, last, saved, faults>>
  BY HappensTyped DEF Move, refs
<1>2. MirrorTypes'
  BY <1>1 DEF MirrorInv, MirrorTypes, HomeType, MirrorType, JobType
<1>3. PlanInv' /\ BackupInv'
  BY <1>1 DEF MirrorInv, PlanInv, BackupInv
<1> QED BY <1>2, <1>3 DEF MirrorInv

\* The run's worktree is torn down.
LEMMA TeardownKeeps == ASSUME MirrorInv, Teardown PROVE MirrorInv'
<1>1. /\ held' = FALSE
      /\ UNCHANGED <<home, mirror, heads, seen, remote, job, last, saved, events, faults>>
  BY DEF Teardown, refs
<1>2. MirrorTypes'
  BY <1>1 DEF MirrorInv, MirrorTypes
<1>3. PlanInv' /\ BackupInv'
  BY <1>1 DEF MirrorInv, PlanInv, BackupInv
<1> QED BY <1>2, <1>3 DEF MirrorInv

\* The process dies.
LEMMA KillKeeps == ASSUME MirrorAssumption, MirrorInv, Kill PROVE MirrorInv'
<1>1. /\ job' = Idle /\ last' = "none"
      /\ UNCHANGED <<home, mirror, heads, seen, remote, held, saved, events>>
  BY DEF Kill, refs, outside
<1>2. faults' \in 0..MaxFaults
  <2>1. faults' = faults + 1 /\ faults < MaxFaults
    BY DEF Kill
  <2>2. faults \in 0..MaxFaults /\ MaxFaults \in Nat
    BY DEF MirrorInv, MirrorTypes, MirrorAssumption
  <2> QED BY <2>1, <2>2
<1>3. Idle \in JobType /\ Idle.todo = <<>> /\ ~Idle.cloning /\ ~Idle.refreshed
  <2>1. <<>> \in RefreshPlans \cup ClonePlans
    BY DEF RefreshPlans
  <2> QED BY <2>1 DEF Idle, JobType
<1>4. MirrorTypes'
  BY <1>1, <1>2, <1>3 DEF MirrorInv, MirrorTypes, JobType
<1>5. PlanInv' /\ BackupInv'
  BY <1>1, <1>3, Plans DEF MirrorInv, PlanInv, BackupInv, RefreshPlans
<1> QED BY <1>4, <1>5 DEF MirrorInv

\* Every step keeps them.
LEMMA MirrorStep == MirrorAssumption /\ MirrorInv /\ [Next]_vars => MirrorInv'
<1> SUFFICES ASSUME MirrorAssumption, MirrorInv, [Next]_vars PROVE MirrorInv'
  OBVIOUS
<1>1. CASE Asked
  BY <1>1, BeginKeeps DEF Asked
<1>2. CASE Works
  BY <1>2, MakeRepoKeeps, AddRemoteKeeps, UnsetKeeps, SetRefspecKeeps, SetUrlKeeps, FetchKeeps,
     CollectKeeps, StartKeeps DEF Works
<1>8. CASE FetchFails
  BY <1>8, FetchKeeps
<1>3. CASE Move \/ Teardown \/ Kill
  BY <1>3, MoveKeeps, TeardownKeeps, KillKeeps
<1>4. CASE \E c \in Commits : Commit(c)
  BY <1>4, CommitKeeps
<1>5. CASE \E tip \in SUBSET Commits \ {{}} : BackupElsewhere(tip)
  BY <1>5, BackupElsewhereKeeps
<1>6. CASE \E b \in Branches : Push(b) \/ Drop(b)
  BY <1>6, PushKeeps, DropKeeps
<1>7. CASE UNCHANGED vars
  <2>1. UNCHANGED <<home, mirror, heads, seen, remote, held, job, last, saved, events, faults>>
    BY <1>7 DEF vars
  <2>2. MirrorTypes' = MirrorTypes
    BY <2>1 DEF MirrorTypes
  <2>3. PlanInv' /\ BackupInv'
    BY <2>1 DEF PlanInv, BackupInv, MirrorInv
  <2> QED BY <2>2, <2>3 DEF MirrorInv
<1> QED BY <1>1, <1>2, <1>3, <1>4, <1>5, <1>6, <1>7, <1>8 DEF Next

-----------------------------------------------------------------------------
\* Whether the worktree is registered is a yes or a no.
HeldTyped == held \in BOOLEAN

\* No worktree is held at the start.
LEMMA HeldInit == Init => HeldTyped
BY DEF Init, HeldTyped

\* A step leaves the worktree held or not.
LEMMA HeldStep == HeldTyped /\ [Next]_vars => HeldTyped'
<1> SUFFICES ASSUME HeldTyped, [Next]_vars PROVE HeldTyped'
  OBVIOUS
<1>1. held' = held \/ held' = TRUE \/ held' = FALSE
  <2>1. CASE Works
    BY <2>1 DEF Works, MakeRepo, AddRemote, Unset, SetRefspec, SetUrl, Fetch, Collect, StartBlind,
                StartWithout, Start, outside
  <2>2. CASE Asked \/ FetchFails \/ Move \/ Teardown \/ Kill
    BY <2>2 DEF Asked, Begin, FetchFails, Move, Teardown, Kill, outside
  <2>3. CASE \E c \in Commits : Commit(c)
    BY <2>3 DEF Commit
  <2>4. CASE \E tip \in SUBSET Commits \ {{}} : BackupElsewhere(tip)
    BY <2>4 DEF BackupElsewhere
  <2>5. CASE \E b \in Branches : Push(b) \/ Drop(b)
    BY <2>5 DEF Push, Drop
  <2>6. CASE UNCHANGED vars
    BY <2>6 DEF vars
  <2> QED BY <2>1, <2>2, <2>3, <2>4, <2>5, <2>6 DEF Next
<1>2. CASE held' = held
  BY <1>2 DEF HeldTyped
<1>3. CASE held' = TRUE \/ held' = FALSE
  BY <1>3 DEF HeldTyped
<1> QED BY <1>1, <1>2, <1>3

\* They give every variable its type.
LEMMA MirrorTyped == MirrorInv /\ HeldTyped => TypeOK
<1> SUFFICES ASSUME MirrorInv, HeldTyped PROVE TypeOK
  OBVIOUS
<1>1. job \in [todo : Seq(Steps), token : BOOLEAN, seeded : BOOLEAN, cloning : BOOLEAN, refreshed : BOOLEAN]
  BY PlansTyped DEF MirrorInv, MirrorTypes, JobType
<1>2. /\ ~mirror.repo => mirror.url = NoUrl /\ heads = NoRefs /\ seen = NoRefs
      /\ held => heads["run"] # NoRef
  BY DEF MirrorInv, PlanInv
<1> QED BY <1>1, <1>2 DEF TypeOK, HeldTyped, MirrorInv, MirrorTypes, HomeType, MirrorType

-----------------------------------------------------------------------------
\* A step leaves the heads, adds to the run's, collects, or starts a worktree.
LEMMA HeadsMove ==
  ASSUME MirrorInv, [Next]_vars
  PROVE  \/ heads' = heads \/ job.todo = <<>> \/ At("start")
         \/ Collect
         \/ \E c \in Commits : held /\ heads' = [heads EXCEPT !["run"] = @ \cup {c}]
<1>1. CASE Asked
  <2>1. job = Idle
    BY <1>1 DEF Asked, Begin
  <2> QED BY <2>1 DEF Idle
<1>2. CASE Fetch
  <2>1. mirror.refspec = "tracking"
    BY <1>2, Where DEF MirrorInv, PlanInv, Fetch
  <2> QED BY <1>2, <2>1 DEF Fetch
<1>3. CASE MakeRepo \/ AddRemote \/ Unset \/ SetRefspec \/ SetUrl \/ FetchFails \/ Move \/ Teardown \/ Kill
  BY <1>3 DEF MakeRepo, AddRemote, Unset, SetRefspec, SetUrl, FetchFails, Move, Teardown, Kill, refs
<1>4. CASE StartBlind \/ StartWithout \/ Start
  BY <1>4 DEF StartBlind, StartWithout, Start
<1>5. CASE \E c \in Commits : Commit(c)
  BY <1>5 DEF Commit
<1>6. CASE \E tip \in SUBSET Commits \ {{}} : BackupElsewhere(tip)
  BY <1>6 DEF BackupElsewhere
<1>7. CASE \E b \in Branches : Push(b) \/ Drop(b)
  BY <1>7 DEF Push, Drop
<1>8. CASE UNCHANGED vars
  BY <1>8 DEF vars, refs
<1> QED BY <1>1, <1>2, <1>3, <1>4, <1>5, <1>6, <1>7, <1>8 DEF Next, Works

\* No step of a refresh takes a commit the mirror does not still have.
LEMMA RefreshIsSafe ==
  ASSUME MirrorAssumption, MirrorInv, [Next]_vars PROVE RefreshKeepsWork
<1> SUFFICES ASSUME job.todo # <<>>, NEW b \in Branches, ~At("start"), heads[b] # NoRef
             PROVE  \/ heads'[b] # NoRef /\ heads[b] \subseteq heads'[b]
                    \/ seen'[b] # NoRef /\ heads[b] \subseteq seen'[b]
  BY DEF RefreshKeepsWork
<1>1. CASE heads' = heads
  BY <1>1
<1>2. CASE Collect
  BY <1>2 DEF Collect, Shadow
<1>3. ASSUME NEW c \in Commits, held, heads' = [heads EXCEPT !["run"] = @ \cup {c}]
      PROVE  heads'[b] # NoRef /\ heads[b] \subseteq heads'[b]
  <2>1. heads \in [Branches -> Tip]
    BY DEF MirrorInv, MirrorTypes
  <2>2. heads[b] \in SUBSET Commits
    BY <2>1 DEF Tip
  <2>3. heads'[b] = IF b = "run" THEN heads[b] \cup {c} ELSE heads[b]
    BY <1>3, <2>1
  <2> QED BY <2>2, <2>3 DEF MirrorAssumption
<1> QED BY <1>1, <1>2, <1>3, HeadsMove

\* A seed that is not found is not on the remote, or the remote did not answer.
LEMMA SeedsAreFound ==
  ASSUME MirrorInv, [Next]_vars PROVE SeedIsFound
<1> SUFFICES ASSUME last' = "no seed", last # "no seed", Reaches, remote["wip"] # NoRef PROVE FALSE
  BY DEF SeedIsFound
<1>1. StartWithout /\ job.seeded
  <2>1. CASE MakeRepo \/ AddRemote \/ Unset \/ SetRefspec \/ Collect
    BY <2>1 DEF MakeRepo, AddRemote, Unset, SetRefspec, Collect
  <2>2. CASE SetUrl \/ Fetch \/ FetchFails
    BY <2>2 DEF SetUrl, Fetch, FetchFails, Fails, Ends
  <2>3. CASE StartBlind \/ StartWithout \/ Start
    BY <2>3 DEF StartBlind, StartWithout, Start, Ends
  <2>4. CASE Asked \/ Move \/ Teardown \/ Kill
    BY <2>4 DEF Asked, Begin, Move, Teardown, Kill
  <2>5. CASE \E c \in Commits : Commit(c)
    BY <2>5 DEF Commit
  <2>6. CASE \E tip \in SUBSET Commits \ {{}} : BackupElsewhere(tip)
    BY <2>6 DEF BackupElsewhere
  <2>7. CASE \E b \in Branches : Push(b) \/ Drop(b)
    BY <2>7 DEF Push, Drop
  <2>8. CASE UNCHANGED vars
    BY <2>8 DEF vars
  <2> QED BY <2>1, <2>2, <2>3, <2>4, <2>5, <2>6, <2>7, <2>8 DEF Next, Works
<1>2. Resolve(Looked["wip"]) = NoRef
  BY <1>1 DEF StartWithout, Chosen
<1>3. heads["wip"] = NoRef /\ Looked["wip"] = NoRef
  BY <1>2 DEF Resolve
<1>4. Resolve(seen["wip"]) = seen["wip"]
  BY <1>3 DEF Resolve
<1>5. Looked["wip"] = seen["wip"]
  BY <1>3, LookedIs
<1> QED BY <1>1, <1>3, <1>4, <1>5, LookedIs

\* A seeded run starts from what was backed up, and from nothing the mirror knows to be older.
LEMMA SeedsAreBackups ==
  ASSUME MirrorInv, [Next]_vars PROVE SeedIsTheBackup
<1> DEFINE start == heads'["run"]
           tracked == seen'["wip"]
<1> SUFFICES ASSUME At("start"), ~held, job.seeded, held'
             PROVE  /\ start \in saved
                    /\ job.refreshed /\ tracked # NoRef => start = tracked \/ ~(start \subseteq tracked)
  BY DEF SeedIsTheBackup
<1>1. Start
  <2>1. CASE MakeRepo \/ AddRemote \/ Unset \/ SetRefspec \/ Collect \/ SetUrl \/ Fetch \/ FetchFails
    BY <2>1 DEF MakeRepo, AddRemote, Unset, SetRefspec, Collect, SetUrl, Fetch, FetchFails, outside
  <2>2. CASE StartBlind \/ StartWithout \/ Start
    BY <2>2 DEF StartBlind, StartWithout, outside
  <2>3. CASE Asked \/ Move \/ Teardown \/ Kill
    BY <2>3 DEF Asked, Begin, Move, Teardown, Kill, outside
  <2>4. CASE \E c \in Commits : Commit(c)
    BY <2>4 DEF Commit
  <2>5. CASE \E tip \in SUBSET Commits \ {{}} : BackupElsewhere(tip)
    BY <2>5 DEF BackupElsewhere
  <2>6. CASE \E b \in Branches : Push(b) \/ Drop(b)
    BY <2>6 DEF Push, Drop
  <2>7. CASE UNCHANGED vars
    BY <2>7 DEF vars
  <2> QED BY <2>1, <2>2, <2>3, <2>4, <2>5, <2>6, <2>7 DEF Next, Works
<1>2. start = Resolve(Looked["wip"]) /\ start # NoRef /\ tracked = Looked["wip"]
  <2>1. heads' = [heads EXCEPT !["run"] = Chosen] /\ Chosen # NoRef /\ seen' = Looked
    BY <1>1 DEF Start
  <2>2. heads \in [Branches -> Tip] /\ "run" \in Branches
    BY DEF MirrorInv, MirrorTypes, Branches
  <2>3. Chosen = Resolve(Looked["wip"])
    BY DEF Chosen
  <2> HIDE DEF Chosen, Looked
  <2> QED BY <2>1, <2>2, <2>3
<1>3. Looked["wip"] \in {seen["wip"], remote["wip"]}
  BY LookedIs
<1>4. {heads["wip"], seen["wip"], remote["wip"]} \subseteq saved \cup {NoRef}
  BY DEF MirrorInv, BackupInv
<1>5. CASE heads["wip"] # NoRef
  <2>1. start = heads["wip"] /\ Resolve(seen["wip"]) # NoRef
    BY <1>2, <1>5 DEF Resolve
  <2>2. tracked = seen["wip"]
    BY <1>2, <2>1, LookedIs
  <2>3. job.todo = ToStart
    BY Where DEF MirrorInv
  <2> QED BY <1>2, <1>4, <1>5, <2>1, <2>2, <2>3 DEF MirrorInv, BackupInv
<1>6. CASE heads["wip"] = NoRef
  BY <1>2, <1>3, <1>4, <1>6 DEF Resolve
<1> QED BY <1>5, <1>6
====
