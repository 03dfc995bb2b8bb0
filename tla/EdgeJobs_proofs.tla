--------------------------- MODULE EdgeJobs_proofs ---------------------------
(***************************************************************************)
(* Proofs about EdgeJobs, for every set of jobs, runs, handlers and pids   *)
(* and every bound.                                                        *)
(***************************************************************************)
EXTENDS EdgeJobs, SeqFacts, FiniteSetTheorems

-----------------------------------------------------------------------------
\* The bounded caches.

\* Remember keeps the bound, ends with the new job, invents nothing, and drops
\* an older job only from a full cache.
LEMMA RememberFacts ==
  ASSUME NEW q \in Seq(Jobs), NEW j \in Jobs, Len(q) <= MaxResend
  PROVE  /\ Remember(q, j) \in Seq(Jobs)
         /\ Len(Remember(q, j)) <= MaxResend
         /\ j \in ToSet(Remember(q, j))
         /\ ToSet(Remember(q, j)) \subseteq ToSet(q) \cup {j}
         /\ \/ ToSet(q) \subseteq ToSet(Remember(q, j))
            \/ Len(Remember(q, j)) = MaxResend
         /\ Len(q) = MaxResend => Len(Remember(q, j)) = MaxResend
<1> DEFINE at == CHOOSE i \in DOMAIN q : q[i] = j
           kept == IF j \in ToSet(q) THEN RemoveAt(q, at) ELSE q
           grown == Append(kept, j)
<1>0. Len(q) \in Nat /\ MaxResend \in Nat /\ MaxResend > 0
  BY LenProperties, BoundsAssumption
<1>1. Len(q) \in Nat /\ DOMAIN q = 1..Len(q)
  BY LenProperties
<1>2. /\ kept \in Seq(Jobs) /\ Len(kept) \in Nat
      /\ ToSet(kept) \cup {j} = ToSet(q) \cup {j}
      /\ \/ j \in ToSet(q) /\ Len(kept) = Len(q) - 1
         \/ j \notin ToSet(q) /\ Len(kept) = Len(q)
  <2>1. CASE j \in ToSet(q)
    <3>1. \E i \in DOMAIN q : q[i] = j
      BY <2>1 DEF ToSet
    <3>2. at \in 1..Len(q) /\ q[at] = j
      <4>1. at \in DOMAIN q /\ q[at] = j
        BY <3>1, Zenon
      <4> QED BY <4>1, <1>1
    <3>3. /\ RemoveAt(q, at) \in Seq(Jobs)
          /\ Len(RemoveAt(q, at)) = Len(q) - 1
          /\ ToSet(q) = ToSet(RemoveAt(q, at)) \cup {q[at]}
      <4> HIDE DEF at
      <4> QED BY <3>2, ToSetOfRemoveAt
    <3>4. kept = RemoveAt(q, at)
      BY <2>1
    <3> HIDE DEF kept, at
    <3> QED BY <2>1, <3>2, <3>3, <3>4, LenProperties
  <2>2. CASE j \notin ToSet(q)
    BY <2>2, <1>1
  <2> QED BY <2>1, <2>2
<1> HIDE DEF kept
<1>3. /\ grown \in Seq(Jobs) /\ grown # <<>> /\ Len(grown) = Len(kept) + 1
      /\ ToSet(grown) = ToSet(q) \cup {j}
      /\ grown[Len(kept)+1] = j
  <2>1. kept \in Seq(Jobs)
    BY <1>2
  <2>2. /\ grown \in Seq(Jobs) /\ grown # <<>> /\ Len(grown) = Len(kept) + 1
        /\ ToSet(grown) = ToSet(kept) \cup {j}
    BY <2>1, ToSetOfAppend
  <2>3. grown[Len(kept)+1] = j
    BY <2>1, AppendProperties
  <2> QED BY <2>2, <2>3, <1>2
<1>4. Remember(q, j) = IF Len(grown) > MaxResend THEN Tail(grown) ELSE grown
  BY DEF Remember, kept
<1> HIDE DEF grown
<1>. DEFINE n == Len(grown)
            k == Len(kept)
<1>n. /\ k \in Nat /\ n = k + 1 /\ k <= MaxResend
      /\ Len(q) = MaxResend => k = MaxResend \/ k + 1 = MaxResend
  <2>1. k \in Nat /\ (k = Len(q) \/ k = Len(q) - 1) /\ n = k + 1
    BY <1>2, <1>3
  <2> HIDE DEF k, n
  <2> QED BY <2>1, <1>0
<1>5. CASE Len(grown) > MaxResend
  <2> DEFINE t == Tail(grown)
  <2>1. /\ t \in Seq(Jobs) /\ Len(t) = Len(grown) - 1
        /\ ToSet(grown) = ToSet(t) \cup {Head(grown)}
    BY <1>3, ToSetOfTail
  <2>2. k = MaxResend /\ Len(t) = MaxResend
    <3>1. Len(t) = n - 1
      BY <2>1
    <3> HIDE DEF t, n, k
    <3> QED BY <3>1, <1>n, <1>5, <1>0 DEF n
  <2>3. j \in ToSet(t)
    <3>1. \A i \in 1..Len(t) : t[i] = grown[i+1]
      BY <1>3, HeadTailProperties
    <3>2. Len(t) \in 1..Len(t) /\ Len(t) + 1 = Len(kept) + 1
      <4> HIDE DEF t, k
      <4> QED BY <2>2, <1>0 DEF k
    <3>3. t[Len(t)] = j
      BY <3>1, <3>2, <1>3
    <3> HIDE DEF t
    <3> QED BY <3>2, <3>3, <2>1, ToSetOfSeq
  <2>4. Remember(q, j) = t
    BY <1>4, <1>5
  <2> HIDE DEF t
  <2> QED BY <2>1, <2>2, <2>3, <2>4, <1>0, <1>3
<1>6. CASE ~(Len(grown) > MaxResend)
  <2>1. Remember(q, j) = grown
    BY <1>4, <1>6
  <2>2. n <= MaxResend /\ (Len(q) = MaxResend => n = MaxResend)
    <3> HIDE DEF n, k
    <3> QED BY <1>n, <1>0, <1>6 DEF n
  <2> QED BY <2>1, <2>2, <1>3
<1> QED BY <1>5, <1>6

-----------------------------------------------------------------------------
\* Types.

\* A handler serves a job exactly while it is not idle, the waiting handlers are
\* those in the queue, each once, and the caches keep their bound.
Queued == {h \in Handlers : pc[h] = "queued"}

TypeInv ==
  /\ TypeOK
  /\ Queued = ToSet(waiters)
  /\ Injective(waiters)
  /\ \A h \in Handlers : pc[h] = "idle" <=> job[h] = NoJob
  /\ Len(lastResults) <= MaxResend
  /\ Len(ackedCancels) <= MaxResend

\* The initial state is typed.
LEMMA TypeInit == Init => TypeInv
<1> SUFFICES ASSUME Init PROVE TypeInv
  OBVIOUS
<1>1. <<>> \in Seq(Handlers) /\ <<>> \in Seq(Jobs) /\ Len(<<>>) = 0
  OBVIOUS
<1> QED BY <1>1, ToSetOfEmpty, JobsAssumption, BoundsAssumption
        DEF Init, TypeInv, TypeOK, Queued, PCs, SlotPCs, Jobs

\* A ledger write, successful or not, leaves a ledger and a fault count.
LEMMA WrittenType ==
  ASSUME TypeOK, NEW j \in Jobs, NEW p \in Pids \cup {NoPid}, Written([ledger EXCEPT ![j] = p])
  PROVE  ledger' \in [Jobs -> Pids \cup {NoPid}] /\ faults' \in 0..MaxFaults
BY BoundsAssumption DEF TypeOK, Written

\* release() of a slot holder: the holder is idle again, and either the oldest
\* waiter has its slot or, with nobody waiting, the count is one lower.
LEMMA ReleaseEffect ==
  ASSUME TypeInv, NEW h \in Holders, Release(h)
  PROVE  /\ inUse' \in Nat /\ waiters' \in Seq(Handlers) /\ pc' \in [Handlers -> PCs]
         /\ \A g \in Handlers : pc'[g] = "idle" <=> g = h \/ pc[g] = "idle"
         /\ Queued' = ToSet(waiters') /\ Injective(waiters')
         /\ \/ /\ waiters # <<>> /\ waiters' = Tail(waiters) /\ inUse' = inUse
               /\ Head(waiters) \in Handlers /\ Head(waiters) \notin Holders
               /\ Holders' = (Holders \ {h}) \cup {Head(waiters)}
            \/ /\ waiters = <<>> /\ waiters' = <<>>
               /\ inUse' = IF inUse > 0 THEN inUse - 1 ELSE inUse
               /\ Holders' = Holders \ {h}
<1> USE DEF TypeInv, TypeOK, Queued
<1>1. h \in Handlers /\ h \notin Queued /\ pc[h] # "idle"
  BY DEF Holders, SlotPCs
<1>2. CASE waiters # <<>>
  <2> DEFINE w == Head(waiters)
  <2>1. /\ w \in ToSet(waiters) /\ Tail(waiters) \in Seq(Handlers) /\ Injective(Tail(waiters))
        /\ ToSet(Tail(waiters)) = ToSet(waiters) \ {w}
    BY <1>2, ToSetOfTail
  <2>2. w \in Queued /\ w # h
    BY <2>1, <1>1
  <2>3. /\ waiters' = Tail(waiters) /\ inUse' = inUse
        /\ pc' = [pc EXCEPT ![h] = "idle", ![w] = "provision"]
    BY <1>2 DEF Release
  <2> HIDE DEF w
  <2>4. \A g \in Handlers : pc'[g] = IF g = w THEN "provision" ELSE IF g = h THEN "idle" ELSE pc[g]
    BY <2>2, <2>3
  <2>5. pc' \in [Handlers -> PCs]
    BY <2>3 DEF PCs, SlotPCs
  <2>6. Queued' = Queued \ {w}
    BY <2>4, <2>2, <1>1
  <2>7. w \notin Holders /\ Holders' = (Holders \ {h}) \cup {w}
    BY <2>4, <2>2, <1>1 DEF Holders, SlotPCs
  <2>8. \A g \in Handlers : pc'[g] = "idle" <=> g = h \/ pc[g] = "idle"
    BY <2>4, <2>2, <1>1
  <2> QED BY <1>2, <2>1, <2>2, <2>3, <2>5, <2>6, <2>7, <2>8 DEF w
<1>3. CASE waiters = <<>>
  <2>1. /\ pc' = [pc EXCEPT ![h] = "idle"] /\ waiters' = waiters
        /\ inUse' = IF inUse > 0 THEN inUse - 1 ELSE inUse
    BY <1>3 DEF Release
  <2>2. pc' \in [Handlers -> PCs]
    BY <2>1 DEF PCs, SlotPCs
  <2>3. \A g \in Handlers : pc'[g] = IF g = h THEN "idle" ELSE pc[g]
    BY <2>1, <1>1
  <2>4. Queued' = Queued
    BY <2>3, <1>1
  <2>5. Holders' = Holders \ {h}
    BY <2>3, <1>1 DEF Holders, SlotPCs
  <2> QED BY <1>3, <2>1, <2>2, <2>3, <2>4, <2>5
<1> QED BY <1>2, <1>3

\* Every action keeps the types, the queue and the bound of the caches.
LEMMA TypeStep == TypeInv /\ [Next]_vars => TypeInv'
<1> SUFFICES ASSUME TypeInv, [Next]_vars PROVE TypeInv'
  OBVIOUS
<1> USE JobsAssumption, BoundsAssumption DEF TypeInv, TypeOK, Queued
<1>1. ASSUME NEW p \in Pids, Boot(p) PROVE TypeInv'
  BY <1>1 DEF Boot, StaleFor, runVars, cacheVars, diskVars, hubVars, budgets
<1>2. ASSUME NEW j \in Jobs, ReconcileEntry(j) PROVE TypeInv'
  BY <1>2 DEF ReconcileEntry, runVars, cacheVars, diskVars, hubVars, budgets
<1>3. CASE FinishReconcile
  BY <1>3 DEF FinishReconcile, Written, runVars, cacheVars, diskVars, hubVars, budgets
<1>4. CASE Crash
  BY <1>4, ToSetOfEmpty DEF Crash, Forget, PCs, SlotPCs, runVars, cacheVars, diskVars, hubVars, budgets
<1>5. CASE Connect
  BY <1>5, ToSetOfSeq DEF Connect, Announceable, Cached, procVars, runVars, cacheVars, diskVars, hubVars, budgets
<1>6. CASE LinkDies
  BY <1>6 DEF LinkDies, procVars, runVars, cacheVars, diskVars, hubVars, budgets
<1>7. CASE CloseLink
  BY <1>7 DEF CloseLink, procVars, runVars, cacheVars, diskVars, hubVars, budgets
<1>8. CASE Heartbeat
  BY <1>8 DEF Heartbeat, procVars, runVars, cacheVars, diskVars, hubVars, budgets
<1>9. ASSUME NEW j \in Jobs, DropDuplicate(j) PROVE TypeInv'
  BY <1>9 DEF DropDuplicate, vars, procVars, runVars, cacheVars, diskVars, hubVars, budgets
<1>10. ASSUME NEW j \in Jobs, Replay(j) PROVE TypeInv'
  BY <1>10 DEF Replay, Reaches, procVars, runVars, cacheVars, diskVars, hubVars, budgets
<1>11. ASSUME NEW j \in Jobs, NEW h \in Handlers, AcceptStage(j, h) PROVE TypeInv'
  <2>1. /\ waiters' \in Seq(Handlers) /\ inUse' \in Nat
        /\ pc' \in [Handlers -> PCs]
        /\ \A g \in Handlers : pc'[g] = "idle" <=> g # h /\ pc[g] = "idle"
    <3>1. Append(waiters, h) \in Seq(Handlers)
      BY ToSetOfAppend
    <3>2. CASE inUse < MaxSlots /\ inUse' = inUse + 1 /\ pc' = [pc EXCEPT ![h] = "provision"]
               /\ UNCHANGED waiters
      BY <3>2 DEF PCs, SlotPCs
    <3>3. CASE waiters' = Append(waiters, h) /\ pc' = [pc EXCEPT ![h] = "queued"] /\ UNCHANGED inUse
      BY <3>1, <3>3 DEF PCs, SlotPCs
    <3> QED BY <1>11, <3>2, <3>3 DEF AcceptStage
  <2>2. ledger' \in [Jobs -> Pids \cup {NoPid}] /\ faults' \in 0..MaxFaults
    <3>1. Written([ledger EXCEPT ![j] = pid])
      BY <1>11 DEF AcceptStage, TrackJob
    <3> QED BY <3>1, WrittenType
  <2>3. Queued' = ToSet(waiters') /\ Injective(waiters')
    <3>1. pc[h] = "idle" /\ h \notin ToSet(waiters)
      BY <1>11 DEF AcceptStage, Idle
    <3>2. CASE inUse < MaxSlots /\ pc' = [pc EXCEPT ![h] = "provision"] /\ UNCHANGED waiters
      BY <3>1, <3>2
    <3>3. CASE waiters' = Append(waiters, h) /\ pc' = [pc EXCEPT ![h] = "queued"]
      <4>1. ToSet(waiters') = ToSet(waiters) \cup {h} /\ Injective(waiters')
        BY <3>1, <3>3, ToSetOfAppend
      <4>2. Queued' = Queued \cup {h}
        BY <3>3
      <4> QED BY <4>1, <4>2
    <3> QED BY <1>11, <3>2, <3>3 DEF AcceptStage
  <2>4. \A g \in Handlers : pc'[g] = "idle" <=> job'[g] = NoJob
    BY <1>11, <2>1 DEF AcceptStage
  <2> QED BY <1>11, <2>1, <2>2, <2>3, <2>4 DEF AcceptStage, TrackJob, 
       procVars, cacheVars, diskVars, hubVars, budgets
<1>12. ASSUME NEW j \in Jobs, NEW h \in Handlers, AcceptPush(j, h) PROVE TypeInv'
  <2>2. ledger' \in [Jobs -> Pids \cup {NoPid}] /\ faults' \in 0..MaxFaults
    <3>1. Written([ledger EXCEPT ![j] = pid])
      BY <1>12 DEF AcceptPush, TrackJob
    <3> QED BY <3>1, WrittenType
  <2> QED BY <1>12, <2>2 DEF AcceptPush, TrackJob, Idle, PCs, SlotPCs,
       procVars, cacheVars, diskVars, hubVars, budgets
<1>13. ASSUME NEW j \in Jobs, CancelFrame(j) PROVE TypeInv'
  <2>1. ackedCancels' \in Seq(Jobs) /\ Len(ackedCancels') <= MaxResend
    BY <1>13, RememberFacts DEF CancelFrame
  <2> QED BY <1>13, <2>1 DEF CancelFrame, ActiveFor, Busy, Reaches,
       procVars, runVars, cacheVars, diskVars, hubVars, budgets
<1>14. ASSUME NEW j \in Jobs, TurnCancel(j) PROVE TypeInv'
  BY <1>14 DEF TurnCancel, ActiveFor, procVars, runVars, cacheVars, diskVars, hubVars, budgets
<1>15. ASSUME NEW h \in Handlers, StartRunner(h) PROVE TypeInv'
  BY <1>15 DEF StartRunner, PCs, SlotPCs, procVars, runVars, cacheVars, diskVars, hubVars, budgets
<1>16. ASSUME NEW h \in Handlers, RunnerEnds(h) PROVE TypeInv'
  BY <1>16 DEF RunnerEnds, PCs, SlotPCs, procVars, runVars, cacheVars, diskVars, hubVars, budgets
<1>17. ASSUME NEW h \in Handlers, CompleteStage(h) PROVE TypeInv'
  <2>1. h \in Holders /\ job[h] \in Jobs
    BY <1>17 DEF CompleteStage, Holders, SlotPCs
  <2>2. lastResults' \in Seq(Jobs) /\ Len(lastResults') <= MaxResend
    BY <1>17, <2>1, RememberFacts DEF CompleteStage, Report
  <2>3. ledger' \in [Jobs -> Pids \cup {NoPid}] /\ faults' \in 0..MaxFaults
    <3>1. Written([ledger EXCEPT ![job[h]] = NoPid])
      BY <1>17 DEF CompleteStage, UntrackJob
    <3> QED BY <3>1, <2>1, WrittenType
  <2>4. /\ Release(h)
        /\ inUse' \in Nat /\ waiters' \in Seq(Handlers) /\ pc' \in [Handlers -> PCs]
        /\ \A g \in Handlers : pc'[g] = "idle" <=> g = h \/ pc[g] = "idle"
        /\ Queued' = ToSet(waiters') /\ Injective(waiters')
    <3>1. Release(h)
      BY <1>17 DEF CompleteStage
    <3> QED BY <3>1, <2>1, ReleaseEffect
  <2>5. \A g \in Handlers : pc'[g] = "idle" <=> job'[g] = NoJob
    BY <1>17, <2>4 DEF CompleteStage
  <2> QED BY <1>17, <2>1, <2>2, <2>3, <2>4, <2>5 DEF CompleteStage, Report, Reaches, UntrackJob,
       procVars, hubVars, budgets
<1>18. ASSUME NEW h \in Handlers, CompletePush(h) PROVE TypeInv'
  <2>1. job[h] \in Jobs
    BY <1>18 DEF CompletePush
  <2>2. lastResults' \in Seq(Jobs) /\ Len(lastResults') <= MaxResend
    BY <1>18, <2>1, RememberFacts DEF CompletePush, Report
  <2>3. ledger' \in [Jobs -> Pids \cup {NoPid}] /\ faults' \in 0..MaxFaults
    <3>1. Written([ledger EXCEPT ![job[h]] = NoPid])
      BY <1>18 DEF CompletePush, UntrackJob
    <3> QED BY <3>1, <2>1, WrittenType
  <2> QED BY <1>18, <2>1, <2>2, <2>3 DEF CompletePush, Report, Reaches, UntrackJob, PCs, SlotPCs,
       procVars, cacheVars, diskVars, hubVars, budgets
<1>19. CASE UNCHANGED vars
  BY <1>19 DEF vars, procVars, runVars, cacheVars, diskVars, hubVars, budgets
<1> QED BY <1>1, <1>2, <1>3, <1>4, <1>5, <1>6, <1>7, <1>8, <1>9, <1>10, <1>11, <1>12, <1>13,
           <1>14, <1>15, <1>16, <1>17, <1>18, <1>19 DEF Next, FrameFor, Progress

\* Every variable keeps its type, through every frame, fault and crash.
THEOREM TypeCorrect == Spec => []TypeOK
<1>1. Spec => []TypeInv
  BY TypeInit, TypeStep, PTL DEF Spec
<1>2. TypeInv => TypeOK
  BY DEF TypeInv
<1> QED BY <1>1, <1>2, PTL

\* The strengthened type invariant, for the proofs below.
LEMMA TypeInvariant == Spec => []TypeInv
BY TypeInit, TypeStep, PTL DEF Spec

-----------------------------------------------------------------------------
\* One handler per job, and the limiter's accounts.

\* A process that is not up serves nothing and remembers nothing.
DeadForgets ==
  proc # "up" => /\ link = "down"
                 /\ Busy = {}
                 /\ lastResults = <<>> /\ ackedCancels = <<>>
                 /\ finished = {} /\ acked = {}

SlotsInv ==
  /\ inUse = Cardinality(Holders)
  /\ inUse <= MaxSlots
  /\ waiters # <<>> => inUse = MaxSlots

RunInv == DeadForgets /\ OneHandlerPerJob /\ SlotsInv

\* The initial state serves nothing and holds no slot.
LEMMA RunInit == Init => RunInv
<1> SUFFICES ASSUME Init PROVE RunInv
  OBVIOUS
<1>1. Busy = {} /\ Holders = {}
  BY DEF Init, Busy, Holders, SlotPCs
<1>2. DeadForgets
  BY <1>1 DEF Init, DeadForgets
<1>3. OneHandlerPerJob
  BY <1>1 DEF Init, OneHandlerPerJob
<1>4. SlotsInv
  BY <1>1, FS_EmptySet, BoundsAssumption DEF Init, SlotsInv
<1> QED BY <1>2, <1>3, <1>4 DEF RunInv

\* A step that neither moves a handler nor touches the limiter keeps both.
LEMMA RunUnchanged ==
  ASSUME RunInv, UNCHANGED <<job, pc, running, inUse, waiters>>
  PROVE  OneHandlerPerJob' /\ SlotsInv' /\ Busy' = Busy
<1>1. Busy' = Busy /\ Holders' = Holders
  BY DEF Busy, Holders
<1>2. OneHandlerPerJob'
  BY <1>1 DEF RunInv, OneHandlerPerJob
<1>3. SlotsInv'
  BY <1>1 DEF RunInv, SlotsInv
<1> QED BY <1>1, <1>2, <1>3

\* An idle handler that takes a fresh job keeps the jobs apart.
LEMMA TakeJob ==
  ASSUME TypeInv, OneHandlerPerJob, NEW j \in Jobs, NEW h \in Handlers,
         pc[h] = "idle", j \notin running,
         job' = [job EXCEPT ![h] = j], running' = running \cup {j},
         Busy' = Busy \cup {h}
  PROVE  OneHandlerPerJob'
<1>1. h \notin Busy /\ Busy \subseteq Handlers
  BY DEF Busy
<1>2. job'[h] = j /\ \A g \in Busy : job'[g] = job[g]
  BY <1>1 DEF TypeInv, TypeOK
<1>3. running' = {job'[g] : g \in Busy'}
  BY <1>2 DEF OneHandlerPerJob
<1>4. ASSUME NEW f \in Busy', NEW g \in Busy', job'[f] = job'[g] PROVE f = g
  BY <1>4, <1>2 DEF OneHandlerPerJob
<1> QED BY <1>3, <1>4 DEF OneHandlerPerJob

\* A handler that goes idle and drops its job keeps the others apart.
LEMMA DropJob ==
  ASSUME TypeInv, OneHandlerPerJob, NEW h \in Busy,
         job' = [job EXCEPT ![h] = NoJob], running' = running \ {job[h]},
         Busy' = Busy \ {h}
  PROVE  OneHandlerPerJob'
<1>1. \A g \in Busy \ {h} : job'[g] = job[g] /\ job[g] # job[h]
  BY DEF TypeInv, TypeOK, Busy, OneHandlerPerJob
<1>2. running' = {job'[g] : g \in Busy'}
  BY <1>1 DEF OneHandlerPerJob
<1>3. ASSUME NEW f \in Busy', NEW g \in Busy', job'[f] = job'[g] PROVE f = g
  BY <1>3, <1>1 DEF OneHandlerPerJob
<1> QED BY <1>2, <1>3 DEF OneHandlerPerJob

\* Every action keeps one handler per job and the accounts of the limiter.
LEMMA RunStep == TypeInv /\ RunInv /\ [Next]_vars => RunInv'
<1> SUFFICES ASSUME TypeInv, RunInv, [Next]_vars PROVE RunInv'
  OBVIOUS
<1> USE DEF RunInv
<1>a. TypeOK /\ IsFiniteSet(Handlers) /\ MaxSlots \in Nat /\ MaxSlots > 0
  BY BoundsAssumption DEF TypeInv
<1>b. Holders \subseteq Busy /\ Busy \subseteq Handlers /\ IsFiniteSet(Holders)
  <2>1. Holders \subseteq Busy /\ Busy \subseteq Handlers
    BY DEF Holders, Busy, SlotPCs
  <2> QED BY <2>1, <1>a, FS_Subset
<1>c. Busy # {} => proc = "up"
  BY DEF DeadForgets
<1>d. link # "down" => proc = "up"
  BY DEF DeadForgets
<1>1. ASSUME NEW p \in Pids, Boot(p) PROVE RunInv'
  <2>1. UNCHANGED <<job, pc, running, inUse, waiters>>
    BY <1>1 DEF Boot, runVars
  <2>2. Busy' = Busy /\ OneHandlerPerJob' /\ SlotsInv'
    BY <2>1, RunUnchanged
  <2>3. DeadForgets'
    BY <1>1, <2>2 DEF Boot, DeadForgets, cacheVars
  <2> QED BY <2>2, <2>3
<1>2. ASSUME NEW j \in Jobs, ReconcileEntry(j) PROVE RunInv'
  <2>1. UNCHANGED <<job, pc, running, inUse, waiters>>
    BY <1>2 DEF ReconcileEntry, runVars
  <2>2. Busy' = Busy /\ OneHandlerPerJob' /\ SlotsInv'
    BY <2>1, RunUnchanged
  <2>3. DeadForgets'
    BY <1>2, <2>2 DEF ReconcileEntry, DeadForgets, cacheVars
  <2> QED BY <2>2, <2>3
<1>3. CASE FinishReconcile
  <2>1. UNCHANGED <<job, pc, running, inUse, waiters>>
    BY <1>3 DEF FinishReconcile, runVars
  <2>2. Busy' = Busy /\ OneHandlerPerJob' /\ SlotsInv'
    BY <2>1, RunUnchanged
  <2>3. DeadForgets'
    BY <1>3 DEF FinishReconcile, DeadForgets
  <2> QED BY <2>2, <2>3
<1>4. CASE Crash
  <2>1. Busy' = {} /\ Holders' = {}
    BY <1>4 DEF Crash, Forget, Busy, Holders, SlotPCs
  <2>2. DeadForgets'
    BY <1>4, <2>1 DEF Crash, Forget, DeadForgets
  <2>3. OneHandlerPerJob'
    BY <1>4, <2>1 DEF Crash, Forget, OneHandlerPerJob
  <2>4. SlotsInv'
    BY <1>4, <2>1, <1>a, FS_EmptySet DEF Crash, Forget, SlotsInv
  <2> QED BY <2>2, <2>3, <2>4
<1>5. CASE Connect \/ LinkDies \/ CloseLink \/ Heartbeat
  <2>1. UNCHANGED <<job, pc, running, inUse, waiters, proc>> /\ proc = "up"
    BY <1>5, <1>d DEF Connect, LinkDies, CloseLink, Heartbeat, runVars, procVars
  <2>2. OneHandlerPerJob' /\ SlotsInv'
    BY <2>1, RunUnchanged
  <2>3. DeadForgets'
    BY <2>1 DEF DeadForgets
  <2> QED BY <2>2, <2>3
<1>6. ASSUME NEW j \in Jobs, DropDuplicate(j) \/ Replay(j) \/ CancelFrame(j) \/ TurnCancel(j)
      PROVE  RunInv'
  <2>1. UNCHANGED <<job, pc, running, inUse, waiters, proc>> /\ proc = "up"
    BY <1>6, <1>d DEF DropDuplicate, Replay, CancelFrame, TurnCancel, Receiving, vars, runVars, procVars
  <2>2. OneHandlerPerJob' /\ SlotsInv'
    BY <2>1, RunUnchanged
  <2>3. DeadForgets'
    BY <2>1 DEF DeadForgets
  <2> QED BY <2>2, <2>3
<1>7. ASSUME NEW j \in Jobs, NEW h \in Handlers, AcceptStage(j, h) PROVE RunInv'
  <2>1. proc' = "up" /\ pc[h] = "idle" /\ j \notin running
    BY <1>7, <1>d DEF AcceptStage, Receiving, Fresh, Idle, procVars
  <2>2. h \notin Holders
    BY <2>1 DEF Holders, SlotPCs
  <2>3. Busy' = Busy \cup {h}
    BY <1>7, <2>1, <1>a DEF AcceptStage, Busy, TypeOK
  <2>4. OneHandlerPerJob'
    BY <1>7, <2>1, <2>3, TakeJob DEF AcceptStage, TrackJob
  <2>5. SlotsInv'
    <3>1. CASE inUse < MaxSlots /\ inUse' = inUse + 1 /\ pc' = [pc EXCEPT ![h] = "provision"]
               /\ UNCHANGED waiters
      <4>1. Holders' = Holders \cup {h}
        BY <3>1, <1>a DEF Holders, SlotPCs, TypeOK
      <4>2. Cardinality(Holders') = Cardinality(Holders) + 1
        BY <4>1, <1>b, <2>2, FS_AddElement
      <4> QED BY <3>1, <4>2, <1>a DEF SlotsInv, TypeOK
    <3>2. CASE inUse >= MaxSlots /\ UNCHANGED inUse /\ pc' = [pc EXCEPT ![h] = "queued"]
      <4>1. Holders' = Holders
        BY <3>2, <2>2, <1>a DEF Holders, SlotPCs, TypeOK
      <4> QED BY <3>2, <4>1, <1>a DEF SlotsInv, TypeOK
    <3> QED BY <1>7, <3>1, <3>2 DEF AcceptStage
  <2> QED BY <2>1, <2>4, <2>5 DEF DeadForgets
<1>8. ASSUME NEW j \in Jobs, NEW h \in Handlers, AcceptPush(j, h) PROVE RunInv'
  <2>1. proc' = "up" /\ pc[h] = "idle" /\ j \notin running
    BY <1>8, <1>d DEF AcceptPush, Receiving, Fresh, Idle, procVars
  <2>2. Busy' = Busy \cup {h} /\ Holders' = Holders
    BY <1>8, <2>1, <1>a DEF AcceptPush, Busy, Holders, SlotPCs, TypeOK
  <2>3. OneHandlerPerJob'
    BY <1>8, <2>1, <2>2, TakeJob DEF AcceptPush, TrackJob
  <2>4. SlotsInv'
    BY <1>8, <2>2 DEF AcceptPush, SlotsInv
  <2> QED BY <2>1, <2>3, <2>4 DEF DeadForgets
<1>9. ASSUME NEW h \in Handlers, StartRunner(h) \/ RunnerEnds(h) PROVE RunInv'
  <2>1. UNCHANGED <<job, running, inUse, waiters, proc>> /\ h \in Holders
    BY <1>9 DEF StartRunner, RunnerEnds, Holders, SlotPCs, runVars, procVars
  <2>2. Busy' = Busy /\ Holders' = Holders
    BY <1>9, <1>a DEF StartRunner, RunnerEnds, Busy, Holders, SlotPCs, TypeOK
  <2>3. proc' = "up"
    BY <2>1, <1>b, <1>c
  <2>4. OneHandlerPerJob'
    BY <2>1, <2>2 DEF OneHandlerPerJob
  <2>5. SlotsInv'
    BY <2>1, <2>2 DEF SlotsInv
  <2> QED BY <2>3, <2>4, <2>5 DEF DeadForgets
<1>10. ASSUME NEW h \in Handlers, CompleteStage(h) PROVE RunInv'
  <2>1. h \in Holders /\ h \in Busy /\ Release(h)
    BY <1>10, <1>b DEF CompleteStage
  <2>2. proc' = "up"
    BY <1>10, <2>1, <1>c DEF CompleteStage, procVars
  <2>3. Busy' = Busy \ {h}
    BY <2>1, ReleaseEffect DEF Busy
  <2>4. OneHandlerPerJob'
    BY <1>10, <2>1, <2>3, DropJob DEF CompleteStage, UntrackJob
  <2>5. inUse \in Nat /\ inUse > 0 /\ inUse = Cardinality(Holders)
    <3>1. Cardinality(Holders) # 0
      BY <2>1, <1>b, FS_EmptySet
    <3> QED BY <3>1, <1>a DEF SlotsInv, TypeOK
  <2>6. IsFiniteSet(Holders \ {h}) /\ Cardinality(Holders \ {h}) = inUse - 1
    BY <2>1, <2>5, <1>b, FS_RemoveElement
  <2>7. SlotsInv'
    <3>1. CASE /\ waiters # <<>> /\ inUse' = inUse
               /\ Head(waiters) \notin Holders
               /\ Holders' = (Holders \ {h}) \cup {Head(waiters)}
      <4>1. Cardinality(Holders') = Cardinality(Holders \ {h}) + 1
        BY <3>1, <2>6, FS_AddElement
      <4>2. inUse' = Cardinality(Holders')
        BY <4>1, <3>1, <2>5, <2>6
      <4> QED BY <4>2, <3>1, <2>5, <1>a DEF SlotsInv
    <3>2. CASE /\ waiters' = <<>> /\ Holders' = Holders \ {h}
               /\ inUse' = IF inUse > 0 THEN inUse - 1 ELSE inUse
      BY <3>2, <2>5, <2>6, <1>a DEF SlotsInv
    <3> QED BY <3>1, <3>2, <2>1, ReleaseEffect
  <2> QED BY <2>2, <2>4, <2>7 DEF DeadForgets
<1>11. ASSUME NEW h \in Handlers, CompletePush(h) PROVE RunInv'
  <2>1. h \in Busy /\ pc[h] = "push"
    BY <1>11 DEF CompletePush, Busy
  <2>2. proc' = "up"
    BY <1>11, <2>1, <1>c DEF CompletePush, procVars
  <2>3. Busy' = Busy \ {h} /\ Holders' = Holders
    BY <1>11, <2>1, <1>a DEF CompletePush, Busy, Holders, SlotPCs, TypeOK
  <2>4. OneHandlerPerJob'
    BY <1>11, <2>1, <2>3, DropJob DEF CompletePush, UntrackJob
  <2>5. SlotsInv'
    BY <1>11, <2>3 DEF CompletePush, SlotsInv
  <2> QED BY <2>2, <2>4, <2>5 DEF DeadForgets
<1>12. CASE UNCHANGED vars
  <2>1. UNCHANGED <<job, pc, running, inUse, waiters>>
    BY <1>12 DEF vars, runVars
  <2>2. Busy' = Busy /\ OneHandlerPerJob' /\ SlotsInv'
    BY <2>1, RunUnchanged
  <2>3. DeadForgets'
    BY <1>12, <2>2 DEF vars, procVars, cacheVars, DeadForgets
  <2> QED BY <2>2, <2>3
<1> QED BY <1>1, <1>2, <1>3, <1>4, <1>5, <1>6, <1>7, <1>8, <1>9, <1>10, <1>11, <1>12
        DEF Next, FrameFor, Progress

\* What every later invariant rests on.
LEMMA RunInvariant == Spec => [](TypeInv /\ RunInv)
<1>1. Init => TypeInv /\ RunInv
  BY TypeInit, RunInit
<1>2. (TypeInv /\ RunInv) /\ [Next]_vars => (TypeInv /\ RunInv)'
  BY TypeStep, RunStep
<1> QED BY <1>1, <1>2, PTL DEF Spec

\* No job is ever served by two handlers, and `running` names the served jobs.
THEOREM OneHandlerPerJobCorrect == Spec => []OneHandlerPerJob
<1>1. TypeInv /\ RunInv => OneHandlerPerJob
  BY DEF RunInv
<1> QED BY <1>1, RunInvariant, PTL

\* The limiter leaks no slot, exceeds no bound and loses no waiter.
THEOREM SlotsAccountedCorrect == Spec => []SlotsAccounted
<1>1. TypeInv /\ RunInv => SlotsAccounted
  BY DEF RunInv, TypeInv, SlotsInv, SlotsAccounted, Queued, Injective
<1> QED BY <1>1, RunInvariant, PTL

-----------------------------------------------------------------------------
\* The result and ack caches, and what the hub is owed.

\* A finished job leaves the cache only when newer results push it out.
CacheInv ==
  /\ \A j \in finished \ running : j \in Cached \/ Len(lastResults) = MaxResend
  /\ \A j \in acked : j \in ToSet(ackedCancels) \/ Len(ackedCancels) = MaxResend
  /\ running \cap Cached = {}

DebtInv == CacheInv /\ OpenLinkOwesNothing

\* At first nothing is finished, acked or owed.
LEMMA DebtInit == Init => DebtInv
BY ToSetOfEmpty DEF Init, DebtInv, CacheInv, OpenLinkOwesNothing, Cached

\* Reporting a served job caches it, sends it over an open link, and frees it.
LEMMA ReportServed ==
  ASSUME TypeInv, RunInv, DebtInv, NEW h \in Busy, Report(job[h]),
         running' = running \ {job[h]},
         UNCHANGED <<link, ackedCancels, acked, settled>>
  PROVE  DebtInv'
<1> DEFINE j == job[h]
<1>1. j \in Jobs /\ lastResults \in Seq(Jobs) /\ Len(lastResults) <= MaxResend
  BY DEF TypeInv, TypeOK, Busy
<1>2. /\ lastResults' = Remember(lastResults, j) /\ finished' = finished \cup {j}
      /\ delivered' = Reaches(delivered, {j})
  BY DEF Report
<1> HIDE DEF j
<1>3. /\ j \in Cached' /\ Cached' \subseteq Cached \cup {j}
      /\ Cached \subseteq Cached' \/ Len(lastResults') = MaxResend
      /\ Len(lastResults) = MaxResend => Len(lastResults') = MaxResend
  BY <1>1, <1>2, RememberFacts DEF Cached
<1>4. CacheInv'
  <2>1. ASSUME NEW i \in finished' \ running' PROVE i \in Cached' \/ Len(lastResults') = MaxResend
    <3>1. i = j \/ i \in finished \ running
      BY <2>1, <1>2 DEF j
    <3> QED BY <3>1, <1>3 DEF DebtInv, CacheInv
  <2>2. running' \cap Cached' = {}
    BY <1>3 DEF DebtInv, CacheInv, j
  <2> QED BY <2>1, <2>2 DEF DebtInv, CacheInv
<1>5. OpenLinkOwesNothing'
  BY <1>2, <1>3 DEF DebtInv, OpenLinkOwesNothing, Reaches
<1> QED BY <1>4, <1>5 DEF DebtInv

\* Every action keeps the caches honest and an open link free of debt.
LEMMA DebtStep == TypeInv /\ RunInv /\ DebtInv /\ [Next]_vars => DebtInv'
<1> SUFFICES ASSUME TypeInv, RunInv, DebtInv, [Next]_vars PROVE DebtInv'
  OBVIOUS
<1> USE DEF DebtInv
<1>1. CASE UNCHANGED <<running, cacheVars, delivered, settled>> /\ (link' = link \/ link' # "open")
  BY <1>1 DEF CacheInv, OpenLinkOwesNothing, Cached, cacheVars
<1>2. CASE \E p \in Pids : Boot(p)
  BY <1>2, <1>1 DEF Boot, runVars, hubVars
<1>3. CASE \E j \in Jobs : ReconcileEntry(j)
  BY <1>3, <1>1 DEF ReconcileEntry, runVars, hubVars
<1>4. CASE FinishReconcile
  BY <1>4, <1>1 DEF FinishReconcile, runVars, hubVars
<1>5. CASE Crash
  BY <1>5, ToSetOfEmpty DEF Crash, Forget, CacheInv, OpenLinkOwesNothing, Cached
<1>6. CASE Connect
  <2>1. CacheInv'
    BY <1>6 DEF Connect, CacheInv, Cached, runVars, cacheVars
  <2>2. OpenLinkOwesNothing'
    BY <1>6 DEF Connect, OpenLinkOwesNothing, Cached, cacheVars
  <2> QED BY <2>1, <2>2
<1>7. CASE LinkDies \/ CloseLink \/ Heartbeat
  BY <1>7, <1>1 DEF LinkDies, CloseLink, Heartbeat, runVars, hubVars
<1>8. ASSUME NEW j \in Jobs, DropDuplicate(j) \/ TurnCancel(j) PROVE DebtInv'
  BY <1>8, <1>1 DEF DropDuplicate, TurnCancel, vars, runVars, hubVars
<1>9. ASSUME NEW j \in Jobs, Replay(j) PROVE DebtInv'
  <2>1. CacheInv'
    BY <1>9 DEF Replay, CacheInv, Cached, runVars, cacheVars
  <2>2. OpenLinkOwesNothing'
    BY <1>9 DEF Replay, OpenLinkOwesNothing, Reaches, Cached, cacheVars
  <2> QED BY <2>1, <2>2
<1>10. ASSUME NEW j \in Jobs, NEW h \in Handlers, AcceptStage(j, h) \/ AcceptPush(j, h) PROVE DebtInv'
  <2>1. /\ j \notin Cached /\ running' = running \cup {j}
        /\ UNCHANGED <<link, cacheVars, delivered, settled>>
    BY <1>10 DEF AcceptStage, AcceptPush, TrackJob, Fresh, hubVars
  <2>2. CacheInv'
    BY <2>1 DEF CacheInv, Cached, cacheVars
  <2>3. OpenLinkOwesNothing'
    BY <2>1 DEF OpenLinkOwesNothing, Cached, cacheVars
  <2> QED BY <2>2, <2>3
<1>11. ASSUME NEW j \in Jobs, CancelFrame(j) PROVE DebtInv'
  <2>1. /\ ackedCancels' = Remember(ackedCancels, j) /\ acked' = acked \cup {j}
        /\ settled' = Reaches(settled, {j})
        /\ UNCHANGED <<link, running, lastResults, finished, delivered>>
    BY <1>11 DEF CancelFrame
  <2>2. /\ j \in ToSet(ackedCancels') /\ ToSet(ackedCancels') \subseteq ToSet(ackedCancels) \cup {j}
        /\ ToSet(ackedCancels) \subseteq ToSet(ackedCancels') \/ Len(ackedCancels') = MaxResend
        /\ Len(ackedCancels) = MaxResend => Len(ackedCancels') = MaxResend
    <3>1. ackedCancels \in Seq(Jobs) /\ Len(ackedCancels) <= MaxResend
      BY DEF TypeInv, TypeOK
    <3> QED BY <2>1, <3>1, RememberFacts
  <2>3. CacheInv'
    BY <2>1, <2>2 DEF CacheInv, Cached
  <2>4. OpenLinkOwesNothing'
    BY <2>1, <2>2 DEF OpenLinkOwesNothing, Reaches, Cached
  <2> QED BY <2>3, <2>4
<1>12. ASSUME NEW h \in Handlers, StartRunner(h) \/ RunnerEnds(h) PROVE DebtInv'
  BY <1>12, <1>1 DEF StartRunner, RunnerEnds, hubVars
<1>13. ASSUME NEW h \in Handlers, CompleteStage(h) PROVE DebtInv'
  <2>1. /\ h \in Busy /\ Report(job[h]) /\ running' = running \ {job[h]}
        /\ UNCHANGED <<link, ackedCancels, acked, settled>>
    BY <1>13 DEF CompleteStage, UntrackJob, Holders, SlotPCs, Busy
  <2> QED BY <2>1, ReportServed
<1>14. ASSUME NEW h \in Handlers, CompletePush(h) PROVE DebtInv'
  <2>1. /\ h \in Busy /\ Report(job[h]) /\ running' = running \ {job[h]}
        /\ UNCHANGED <<link, ackedCancels, acked, settled>>
    BY <1>14 DEF CompletePush, UntrackJob, Busy
  <2> QED BY <2>1, ReportServed
<1>15. CASE UNCHANGED vars
  BY <1>15, <1>1 DEF vars, runVars, hubVars
<1> QED BY <1>2, <1>3, <1>4, <1>5, <1>6, <1>7, <1>8, <1>9, <1>10, <1>11, <1>12, <1>13, <1>14, <1>15
        DEF Next, FrameFor, Progress

\* The invariant of the caches, on top of the invariant of the handlers.
LEMMA DebtInvariant == Spec => [](TypeInv /\ RunInv /\ DebtInv)
<1>1. Init => TypeInv /\ RunInv /\ DebtInv
  BY TypeInit, RunInit, DebtInit
<1>2. (TypeInv /\ RunInv /\ DebtInv) /\ [Next]_vars => (TypeInv /\ RunInv /\ DebtInv)'
  BY TypeStep, RunStep, DebtStep
<1> QED BY <1>1, <1>2, PTL DEF Spec

\* A finished job and a handled cancel stay cached until the cache is full of newer
\* ones, and a running job is never answered from the cache.
THEOREM NothingForgottenCorrect == Spec => []NothingForgotten
<1>1. DebtInv => NothingForgotten
  BY DEF DebtInv, CacheInv, NothingForgotten
<1> QED BY <1>1, DebtInvariant, PTL

\* Over an open link no cached result and no cached ack is undelivered.
THEOREM OpenLinkOwesNothingCorrect == Spec => []OpenLinkOwesNothing
<1>1. DebtInv => OpenLinkOwesNothing
  BY DEF DebtInv
<1> QED BY <1>1, DebtInvariant, PTL

\* Only the eviction of its result lets a process run a job it has finished again.
THEOREM RerunOnlyAfterEvictionCorrect == Spec => RerunOnlyAfterEviction
<1>1. DebtInv /\ [Next]_vars =>
        [\A j \in finished : j \in running' \ running => Len(lastResults) = MaxResend]_vars
  <2> SUFFICES ASSUME DebtInv, [Next]_vars, NEW i \in finished, i \in running' \ running
               PROVE  Len(lastResults) = MaxResend
    OBVIOUS
  <2>1. i \notin Cached
    <3>1. CASE running' \subseteq running
      BY <3>1
    <3>2. ASSUME NEW j \in Jobs, NEW h \in Handlers, AcceptStage(j, h) \/ AcceptPush(j, h)
          PROVE i \notin Cached
      BY <3>2 DEF AcceptStage, AcceptPush, TrackJob, Fresh
    <3>3. \/ running' \subseteq running
          \/ \E j \in Jobs, h \in Handlers : AcceptStage(j, h) \/ AcceptPush(j, h)
      <4>1. ASSUME NEW p \in Pids, Boot(p) PROVE running' \subseteq running
        BY <4>1 DEF Boot, runVars
      <4>2. ASSUME NEW j \in Jobs, ReconcileEntry(j) PROVE running' \subseteq running
        BY <4>2 DEF ReconcileEntry, runVars
      <4>3. CASE FinishReconcile \/ Crash
        BY <4>3 DEF FinishReconcile, Crash, Forget, runVars
      <4>4. CASE Connect \/ LinkDies \/ CloseLink \/ Heartbeat
        BY <4>4 DEF Connect, LinkDies, CloseLink, Heartbeat, runVars
      <4>5. ASSUME NEW j \in Jobs, DropDuplicate(j) \/ Replay(j) \/ CancelFrame(j) \/ TurnCancel(j)
            PROVE  running' \subseteq running
        BY <4>5 DEF DropDuplicate, Replay, CancelFrame, TurnCancel, vars, runVars
      <4>6. ASSUME NEW h \in Handlers, Progress(h) PROVE running' \subseteq running
        BY <4>6 DEF Progress, StartRunner, RunnerEnds, CompleteStage, CompletePush, UntrackJob
      <4>7. CASE UNCHANGED vars
        BY <4>7 DEF vars, runVars
      <4> QED BY <4>1, <4>2, <4>3, <4>4, <4>5, <4>6, <4>7 DEF Next, FrameFor
    <3> QED BY <3>1, <3>2, <3>3
  <2> QED BY <2>1 DEF DebtInv, CacheInv
<1> QED BY <1>1, DebtInvariant, PTL DEF Spec, RerunOnlyAfterEviction

-----------------------------------------------------------------------------
\* The disk: what a process that dies leaves for the next one.

\* Without a failed write and with fresh pids, the ledger of an up process is its
\* `running`; that of a booting process names only dead ones.
LedgerInv ==
  faults = 0 /\ ~PidMayRepeat =>
    /\ proc # "down" => pid \in Pids
    /\ proc = "up" => \A j \in Jobs : IF j \in running THEN ledger[j] = pid ELSE ledger[j] = NoPid
    /\ proc = "reconcile" => \A j \in Jobs : ledger[j] # pid

\* Unreconciled files are known to the ledger of the dead process, and then to the
\* boot that reconciles them.
TailInv ==
  PathKnown = Jobs /\ ~PidMayRepeat =>
    /\ proc = "up" => \A r \in Runs : tail[r] # "dirty"
    /\ proc = "reconcile" =>
         /\ \A j \in stale : ledger[j] # NoPid
         /\ \A r \in Runs : tail[r] = "dirty" => \E j \in stale : RunOf[j] = r
    /\ proc = "down" =>
         \A r \in Runs : tail[r] = "dirty" => \E j \in Jobs : RunOf[j] = r /\ ledger[j] # NoPid

\* At first the disk is clean.
LEMMA DiskInit == Init => LedgerInv /\ TailInv
BY DEF Init, LedgerInv, TailInv

\* Every action keeps the ledger in step with `running`.
LEMMA LedgerStep == TypeInv /\ RunInv /\ LedgerInv /\ [Next]_vars => LedgerInv'
<1> SUFFICES ASSUME TypeInv, RunInv, LedgerInv, [Next]_vars, faults' = 0, ~PidMayRepeat
             PROVE  LedgerInv'
  BY DEF LedgerInv
<1>a. TypeOK /\ NoPid \notin Pids
  BY JobsAssumption DEF TypeInv
<1>b. proc # "up" => running = {}
  BY DEF RunInv, DeadForgets, OneHandlerPerJob
<1>c. \A h \in Busy : job[h] \in running /\ proc = "up"
  BY DEF RunInv, DeadForgets, OneHandlerPerJob
<1>d. link # "down" => proc = "up"
  BY DEF RunInv, DeadForgets
<1>1. ASSUME NEW p \in Pids, Boot(p) PROVE LedgerInv'
  <2>1. /\ \A j \in Jobs : ledger[j] # p
        /\ ledger' = ledger /\ running' = {} /\ pid' = p
        /\ proc' = IF StaleFor(p) = {} THEN "up" ELSE "reconcile"
    BY <1>1, <1>b DEF Boot, diskVars, runVars
  <2>2. StaleFor(p) = {} => \A j \in Jobs : ledger[j] = NoPid
    BY <2>1 DEF StaleFor
  <2> QED BY <2>1, <2>2 DEF LedgerInv
<1>2. ASSUME NEW j \in Jobs, ReconcileEntry(j) PROVE LedgerInv'
  <2>1. faults = 0
    BY <1>2, <1>a DEF ReconcileEntry, TypeOK
  <2> QED BY <1>2, <2>1 DEF ReconcileEntry, LedgerInv, runVars
<1>3. CASE FinishReconcile
  <2>1. faults = 0 /\ ledger' = [j \in Jobs |-> NoPid]
    BY <1>3, <1>a DEF FinishReconcile, Written, TypeOK
  <2>2. running' = {} /\ proc' = "up" /\ pid' = pid /\ pid \in Pids
    BY <1>3, <1>b, <2>1 DEF FinishReconcile, runVars, LedgerInv
  <2> QED BY <2>1, <2>2 DEF LedgerInv
<1>4. CASE Crash
  BY <1>4 DEF Crash, LedgerInv
<1>5. CASE UNCHANGED <<procVars, running, ledger, faults>>
  BY <1>5 DEF LedgerInv, procVars
<1>6. CASE Connect \/ LinkDies \/ CloseLink \/ Heartbeat
  BY <1>6, <1>5 DEF Connect, LinkDies, CloseLink, Heartbeat, runVars, diskVars, budgets
<1>7. ASSUME NEW j \in Jobs, DropDuplicate(j) \/ Replay(j) \/ CancelFrame(j) \/ TurnCancel(j)
      PROVE  LedgerInv'
  BY <1>7, <1>5 DEF DropDuplicate, Replay, CancelFrame, TurnCancel, vars, runVars, diskVars, budgets
<1>8. ASSUME NEW j \in Jobs, NEW h \in Handlers, AcceptStage(j, h) \/ AcceptPush(j, h)
      PROVE  LedgerInv'
  <2>1. TrackJob(j) /\ UNCHANGED procVars /\ proc = "up"
    BY <1>8, <1>d DEF AcceptStage, AcceptPush, Receiving
  <2>2. running' = running \cup {j} /\ faults = 0 /\ ledger' = [ledger EXCEPT ![j] = pid]
    BY <2>1, <1>a DEF TrackJob, Written, TypeOK
  <2> QED BY <2>1, <2>2, <1>a DEF LedgerInv, TypeOK, procVars
<1>9. ASSUME NEW h \in Handlers, StartRunner(h) \/ RunnerEnds(h) PROVE LedgerInv'
  BY <1>9, <1>5 DEF StartRunner, RunnerEnds, diskVars, budgets
<1>10. ASSUME NEW h \in Handlers, CompleteStage(h) \/ CompletePush(h) PROVE LedgerInv'
  <2>1. UntrackJob(job[h]) /\ UNCHANGED procVars /\ h \in Busy
    BY <1>10 DEF CompleteStage, CompletePush, Holders, SlotPCs, Busy
  <2>2. job[h] \in Jobs /\ proc = "up"
    BY <2>1, <1>c DEF TypeInv, TypeOK, Busy
  <2>3. running' = running \ {job[h]} /\ faults = 0 /\ ledger' = [ledger EXCEPT ![job[h]] = NoPid]
    BY <2>1, <1>a DEF UntrackJob, Written, TypeOK
  <2> QED BY <2>1, <2>2, <2>3, <1>a DEF LedgerInv, TypeOK, procVars
<1>11. CASE UNCHANGED vars
  BY <1>11, <1>5 DEF vars, runVars, diskVars, budgets
<1> QED BY <1>1, <1>2, <1>3, <1>4, <1>6, <1>7, <1>8, <1>9, <1>10, <1>11
        DEF Next, FrameFor, Progress

\* Every action keeps unreconciled files known to the process that must deal with
\* them.
LEMMA TailStep == TypeInv /\ RunInv /\ TailInv /\ [Next]_vars => TailInv'
<1> SUFFICES ASSUME TypeInv, RunInv, TailInv, [Next]_vars, PathKnown = Jobs, ~PidMayRepeat
             PROVE  TailInv'
  BY DEF TailInv
<1>a. TypeOK /\ RunOf \in [Jobs -> Runs]
  BY JobsAssumption DEF TypeInv
<1>b. link # "down" => proc = "up"
  BY DEF RunInv, DeadForgets
<1>c. \A h \in Busy : proc = "up" /\ job[h] \in Jobs
  BY DEF RunInv, DeadForgets, TypeInv, TypeOK, Busy
<1>1. ASSUME NEW p \in Pids, Boot(p) PROVE TailInv'
  <2>1. /\ proc = "down" /\ \A j \in Jobs : ledger[j] # p
        /\ ledger' = ledger /\ tail' = tail /\ stale' = StaleFor(p)
        /\ proc' = IF StaleFor(p) = {} THEN "up" ELSE "reconcile"
    BY <1>1 DEF Boot, diskVars
  <2>2. StaleFor(p) = {j \in Jobs : ledger[j] # NoPid}
    BY <2>1 DEF StaleFor
  <2> QED BY <2>1, <2>2 DEF TailInv
<1>2. ASSUME NEW j \in Jobs, ReconcileEntry(j) PROVE TailInv'
  <2>1. /\ proc = "reconcile" /\ proc' = proc /\ ledger' = ledger
        /\ stale' = stale \ {j}
        /\ tail' \in [Runs -> {"clean", "dirty", "warned"}]
        /\ \A r \in Runs : tail'[r] = "dirty" => tail[r] = "dirty" /\ r # RunOf[j]
    BY <1>2, <1>a DEF ReconcileEntry, TypeOK
  <2> QED BY <2>1 DEF TailInv
<1>3. CASE FinishReconcile
  BY <1>3 DEF FinishReconcile, TailInv
<1>4. CASE Crash
  <2>1. /\ proc' = "down" /\ ledger' = ledger
        /\ tail' = [r \in Runs |-> IF r \notin InterruptedRuns \/ tail[r] = "warned" THEN tail[r]
                                   ELSE IF Recorded(r) THEN "dirty" ELSE "warned"]
    BY <1>4 DEF Crash
  <2>2. ASSUME NEW r \in Runs, tail'[r] = "dirty"
        PROVE  \E j \in Jobs : RunOf[j] = r /\ ledger[j] # NoPid
    <3>1. CASE Recorded(r)
      <4>1. PICK h \in Writing : RunOf[job[h]] = r /\ ledger[job[h]] # NoPid
        BY <3>1 DEF Recorded
      <4>2. job[h] \in Jobs
        BY <4>1, <1>c DEF Writing, Busy
      <4> QED BY <4>1, <4>2
    <3>2. CASE ~Recorded(r)
      <4>1. tail[r] = "dirty"
        BY <2>1, <2>2, <3>2
      <4>2. proc = "reconcile"
        BY <4>1, <1>4, <1>a DEF TailInv, Crash, TypeOK
      <4> QED BY <4>1, <4>2, <1>a DEF TailInv, TypeOK
    <3> QED BY <3>1, <3>2
  <2> QED BY <2>1, <2>2 DEF TailInv
<1>5. CASE UNCHANGED tail /\ proc = "up" /\ proc' = "up"
  BY <1>5 DEF TailInv
<1>6. CASE Connect \/ LinkDies \/ CloseLink \/ Heartbeat
  BY <1>6, <1>5, <1>b DEF Connect, LinkDies, CloseLink, Heartbeat, procVars, diskVars
<1>7. ASSUME NEW j \in Jobs, DropDuplicate(j) \/ Replay(j) \/ CancelFrame(j) \/ TurnCancel(j)
      PROVE  TailInv'
  BY <1>7, <1>5, <1>b
     DEF DropDuplicate, Replay, CancelFrame, TurnCancel, Receiving, vars, procVars, diskVars
<1>8. ASSUME NEW j \in Jobs, NEW h \in Handlers, AcceptStage(j, h) \/ AcceptPush(j, h)
      PROVE  TailInv'
  BY <1>8, <1>5, <1>b DEF AcceptStage, AcceptPush, Receiving, procVars
<1>9. ASSUME NEW h \in Handlers, Progress(h) PROVE TailInv'
  <2>1. h \in Busy /\ UNCHANGED <<tail, proc>>
    BY <1>9 DEF Progress, StartRunner, RunnerEnds, CompleteStage, CompletePush, Busy, Holders, SlotPCs,
                procVars, diskVars
  <2> QED BY <2>1, <1>5, <1>c
<1>10. CASE UNCHANGED vars
  BY <1>10 DEF vars, procVars, diskVars, TailInv
<1> QED BY <1>1, <1>2, <1>3, <1>4, <1>6, <1>7, <1>8, <1>9, <1>10 DEF Next, FrameFor

\* The invariants of the disk, on top of the invariant of the handlers.
LEMMA DiskInvariant == Spec => [](TypeInv /\ RunInv /\ LedgerInv /\ TailInv)
<1>1. Init => TypeInv /\ RunInv /\ LedgerInv /\ TailInv
  BY TypeInit, RunInit, DiskInit
<1>2. (TypeInv /\ RunInv /\ LedgerInv /\ TailInv) /\ [Next]_vars
        => (TypeInv /\ RunInv /\ LedgerInv /\ TailInv)'
  BY TypeStep, RunStep, LedgerStep, TailStep
<1> QED BY <1>1, <1>2, PTL DEF Spec

\* Unless a ledger write failed, the file on disk is exactly the running jobs.
THEOREM LedgerMatchesRunningCorrect == Spec => []LedgerMatchesRunning
<1>1. TypeInv /\ RunInv /\ LedgerInv => LedgerMatchesRunning
  <2> SUFFICES ASSUME TypeInv, RunInv, LedgerInv, faults = 0, proc = "up", ~PidMayRepeat
               PROVE  /\ running = {j \in Jobs : ledger[j] = pid}
                      /\ running = {j \in Jobs : ledger[j] # NoPid}
    BY DEF LedgerMatchesRunning
  <2>1. pid \in Pids /\ pid # NoPid /\ running \subseteq Jobs
    BY JobsAssumption DEF LedgerInv, TypeInv, TypeOK
  <2>2. \A j \in Jobs : IF j \in running THEN ledger[j] = pid ELSE ledger[j] = NoPid
    BY DEF LedgerInv
  <2> QED BY <2>1, <2>2
<1> QED BY <1>1, DiskInvariant, PTL

\* When every frame names its worktree and pids do not repeat, no stage ever runs
\* on files a dead process left half-written without a warning in the log.
THEOREM NoStageOnInterruptedTailCorrect ==
  ASSUME PathKnown = Jobs, ~PidMayRepeat
  PROVE  Spec => []NoStageOnInterruptedTail
<1>1. TypeInv /\ RunInv /\ TailInv => NoStageOnInterruptedTail
  <2> SUFFICES ASSUME TypeInv, RunInv, TailInv, NEW h \in Holders
               PROVE  tail[RunOf[job[h]]] # "dirty"
    BY DEF NoStageOnInterruptedTail
  <2>1. h \in Busy /\ job[h] \in Jobs
    BY DEF Holders, SlotPCs, Busy, TypeInv, TypeOK
  <2>2. proc = "up" /\ RunOf[job[h]] \in Runs
    BY <2>1, JobsAssumption DEF RunInv, DeadForgets
  <2> QED BY <2>2 DEF TailInv
<1> QED BY <1>1, DiskInvariant, PTL

-----------------------------------------------------------------------------
\* What the hub believes.

\* Every action that changes who is served keeps the hub's belief alive.
LEMMA BeliefStep == TypeInv /\ RunInv /\ BelievedJobsAlive /\ [Next]_vars => BelievedJobsAlive'
<1> SUFFICES ASSUME TypeInv, RunInv, BelievedJobsAlive, [Next]_vars PROVE BelievedJobsAlive'
  OBVIOUS
<1> USE DEF BelievedJobsAlive
<1>1. CASE /\ UNCHANGED <<job, believed>> /\ Busy' = Busy /\ delivered \subseteq delivered'
           /\ (link' = link \/ link' # "open")
  BY <1>1
<1>2. ASSUME NEW p \in Pids, Boot(p) PROVE BelievedJobsAlive'
  BY <1>2, <1>1 DEF Boot, runVars, hubVars, Busy
<1>3. ASSUME NEW j \in Jobs, ReconcileEntry(j) PROVE BelievedJobsAlive'
  BY <1>3, <1>1 DEF ReconcileEntry, runVars, hubVars, Busy
<1>4. CASE FinishReconcile
  BY <1>4, <1>1 DEF FinishReconcile, runVars, hubVars, Busy
<1>5. CASE Crash
  BY <1>5 DEF Crash
<1>6. CASE Connect \/ Heartbeat
  <2>1. believed' \subseteq running /\ job' = job /\ Busy' = Busy
    BY <1>6 DEF Connect, Heartbeat, Announceable, runVars, Busy
  <2> QED BY <2>1 DEF RunInv, OneHandlerPerJob
<1>7. CASE LinkDies \/ CloseLink
  BY <1>7 DEF LinkDies, CloseLink
<1>8. ASSUME NEW j \in Jobs, DropDuplicate(j) \/ Replay(j) \/ CancelFrame(j) \/ TurnCancel(j)
      PROVE  BelievedJobsAlive'
  BY <1>8, <1>1 DEF DropDuplicate, Replay, Reaches, CancelFrame, TurnCancel, vars, runVars, hubVars, Busy
<1>9. ASSUME NEW j \in Jobs, NEW h \in Handlers, AcceptStage(j, h) \/ AcceptPush(j, h)
      PROVE  BelievedJobsAlive'
  <2>1. /\ UNCHANGED <<link, believed, delivered>> /\ pc[h] = "idle"
        /\ job' = [job EXCEPT ![h] = j]
        /\ \A g \in Handlers \ {h} : pc'[g] = pc[g]
    BY <1>9 DEF AcceptStage, AcceptPush, Idle, hubVars, TypeInv, TypeOK
  <2>2. Busy \subseteq Busy' /\ \A g \in Busy : job'[g] = job[g]
    BY <2>1 DEF Busy, TypeInv, TypeOK
  <2> QED BY <2>1, <2>2
<1>10. ASSUME NEW h \in Handlers, StartRunner(h) \/ RunnerEnds(h) PROVE BelievedJobsAlive'
  <2>1. Busy' = Busy
    BY <1>10 DEF StartRunner, RunnerEnds, Busy, TypeInv, TypeOK
  <2> QED BY <1>10, <2>1, <1>1 DEF StartRunner, RunnerEnds, hubVars
<1>11. ASSUME NEW h \in Handlers, CompleteStage(h) \/ CompletePush(h) PROVE BelievedJobsAlive'
  <2>1. /\ h \in Busy /\ UNCHANGED <<link, believed>>
        /\ job' = [job EXCEPT ![h] = NoJob] /\ delivered' = Reaches(delivered, {job[h]})
    BY <1>11 DEF CompleteStage, CompletePush, Report, Holders, SlotPCs, Busy
  <2>2. Busy' = Busy \ {h}
    <3>1. CASE CompleteStage(h)
      <4>1. h \in Holders /\ Release(h)
        BY <3>1 DEF CompleteStage
      <4> QED BY <4>1, ReleaseEffect DEF Busy
    <3>2. CASE CompletePush(h)
      BY <3>2 DEF CompletePush, Busy, TypeInv, TypeOK
    <3> QED BY <1>11, <3>1, <3>2
  <2>3. \A g \in Busy' : g \in Busy /\ job'[g] = job[g]
    BY <2>1, <2>2 DEF Busy, TypeInv, TypeOK
  <2>4. ASSUME link' = "open", NEW i \in believed' PROVE i \in delivered' \/ \E g \in Busy' : job'[g] = i
    <3>1. i \in delivered \/ \E g \in Busy : job[g] = i
      BY <2>1, <2>4
    <3>2. delivered' = delivered \cup {job[h]}
      BY <2>1, <2>4 DEF Reaches
    <3> QED BY <3>1, <3>2, <2>2, <2>3
  <2> QED BY <2>4
<1>12. CASE UNCHANGED vars
  BY <1>12, <1>1 DEF vars, runVars, hubVars, Busy
<1> QED BY <1>2, <1>3, <1>4, <1>5, <1>6, <1>7, <1>8, <1>9, <1>10, <1>11, <1>12
        DEF Next, FrameFor, Progress

\* Over an open link, the hub never waits on a job that nothing executes and whose
\* result it lacks.
THEOREM BelievedJobsAliveCorrect == Spec => []BelievedJobsAlive
<1>1. Init => BelievedJobsAlive
  BY DEF Init, BelievedJobsAlive
<1>2. (TypeInv /\ RunInv /\ BelievedJobsAlive) /\ [Next]_vars
         => (TypeInv /\ RunInv /\ BelievedJobsAlive)'
  BY TypeStep, RunStep, BeliefStep
<1>3. Init => TypeInv /\ RunInv
  BY TypeInit, RunInit
<1> QED BY <1>1, <1>2, <1>3, PTL DEF Spec

-----------------------------------------------------------------------------
\* The limiter implements StageAdmission.

\* At first nobody holds a slot or waits.
LEMMA AdmissionInit == Init => Admission!Init
BY DEF Init, Admission!Init, Holders, SlotPCs

\* A step that leaves slots and queue alone is a stutter of the admission.
LEMMA AdmissionStutter ==
  ASSUME UNCHANGED <<pc, waiters>>
  PROVE  UNCHANGED <<Holders, waiters>>
BY DEF Holders

\* Every step of the node is a step of the admission, or leaves it alone.
LEMMA AdmissionStep ==
  TypeInv /\ RunInv /\ [Next]_vars => [Admission!Next]_<<Holders, waiters>>
<1> SUFFICES ASSUME TypeInv, RunInv, [Next]_vars
             PROVE  Admission!Next \/ UNCHANGED <<Holders, waiters>>
  OBVIOUS
<1>a. TypeOK /\ Queued = ToSet(waiters) /\ SlotsInv
  BY DEF TypeInv, RunInv
<1>b. Admission!Full <=> inUse >= MaxSlots
  <2>1. Admission!Cardinality(Holders) = Cardinality(Holders)
    BY DEF Cardinality, Admission!Cardinality
  <2> QED BY <1>a, <2>1 DEF Admission!Full, SlotsInv
<1>1. CASE Crash
  <2>1. Admission!Reset
    BY <1>1 DEF Crash, Forget, Admission!Reset, Holders, SlotPCs
  <2> QED BY <2>1 DEF Admission!Next
<1>2. ASSUME NEW j \in Jobs, NEW h \in Handlers, AcceptStage(j, h)
      PROVE  Admission!Next
  <2>1. pc[h] = "idle" /\ h \notin Holders /\ h \notin ToSet(waiters)
    BY <1>2, <1>a DEF AcceptStage, Idle, Holders, SlotPCs, Queued
  <2>2. Admission!Outside(h)
    BY <2>1 DEF Admission!Outside, Admission!ToSet, ToSet
  <2>3. CASE inUse < MaxSlots /\ pc' = [pc EXCEPT ![h] = "provision"] /\ UNCHANGED waiters
    <3>1. Holders' = Holders \cup {h}
      BY <2>3, <1>a DEF Holders, SlotPCs, TypeOK
    <3>2. waiters = <<>> /\ ~(inUse >= MaxSlots)
      BY <2>3, <1>a, BoundsAssumption DEF SlotsInv, TypeOK
    <3>3. Admission!Enter(h)
      BY <3>1, <3>2, <2>2, <2>3, <1>b DEF Admission!Enter
    <3> QED BY <3>3 DEF Admission!Next
  <2>4. CASE inUse >= MaxSlots /\ pc' = [pc EXCEPT ![h] = "queued"] /\ waiters' = Append(waiters, h)
    <3>1. Holders' = Holders
      BY <2>4, <2>1, <1>a DEF Holders, SlotPCs, TypeOK
    <3>2. Admission!Wait(h)
      BY <3>1, <2>2, <2>4, <1>b DEF Admission!Wait
    <3> QED BY <3>2 DEF Admission!Next
  <2> QED BY <1>2, <2>3, <2>4 DEF AcceptStage
<1>3. ASSUME NEW h \in Handlers, CompleteStage(h) PROVE Admission!Next
  <2>1. h \in Holders /\ Release(h)
    BY <1>3 DEF CompleteStage
  <2>2. \/ /\ waiters # <<>> /\ waiters' = Tail(waiters)
           /\ Holders' = (Holders \ {h}) \cup {Head(waiters)}
        \/ waiters = <<>> /\ waiters' = <<>> /\ Holders' = Holders \ {h}
    BY <2>1, ReleaseEffect
  <2>3. Admission!Leave(h)
    BY <2>1, <2>2 DEF Admission!Leave
  <2> QED BY <2>3 DEF Admission!Next
<1>4. CASE UNCHANGED <<pc, waiters>>
  BY <1>4, AdmissionStutter
<1>5. ASSUME NEW j \in Jobs, NEW h \in Handlers, AcceptPush(j, h)
      PROVE  UNCHANGED <<Holders, waiters>>
  BY <1>5, <1>a DEF AcceptPush, Idle, Holders, SlotPCs, TypeOK
<1>6. ASSUME NEW h \in Handlers, StartRunner(h) \/ RunnerEnds(h) \/ CompletePush(h)
      PROVE  UNCHANGED <<Holders, waiters>>
  BY <1>6, <1>a DEF StartRunner, RunnerEnds, CompletePush, Holders, SlotPCs, TypeOK, runVars
<1>7. ASSUME NEW p \in Pids, Boot(p) PROVE UNCHANGED <<Holders, waiters>>
  BY <1>7, AdmissionStutter DEF Boot, runVars
<1>8. ASSUME NEW j \in Jobs, ReconcileEntry(j) PROVE UNCHANGED <<Holders, waiters>>
  BY <1>8, AdmissionStutter DEF ReconcileEntry, runVars
<1>9. CASE FinishReconcile \/ Connect \/ LinkDies \/ CloseLink \/ Heartbeat
  BY <1>9, AdmissionStutter DEF FinishReconcile, Connect, LinkDies, CloseLink, Heartbeat, runVars
<1>10. ASSUME NEW j \in Jobs, DropDuplicate(j) \/ Replay(j) \/ CancelFrame(j) \/ TurnCancel(j)
       PROVE  UNCHANGED <<Holders, waiters>>
  BY <1>10, AdmissionStutter DEF DropDuplicate, Replay, CancelFrame, TurnCancel, vars, runVars
<1>11. CASE UNCHANGED vars
  BY <1>11, AdmissionStutter DEF vars, runVars
<1> QED BY <1>1, <1>2, <1>3, <1>5, <1>6, <1>7, <1>8, <1>9, <1>10, <1>11 DEF Next, FrameFor, Progress

\* Slots are granted first come, first served, never past the bound: the counter and
\* the array of the limiter implement StageAdmission.
THEOREM AdmissionCorrect == Spec => AdmissionSpec
<1>1. Spec => [](TypeInv /\ RunInv)
  BY RunInvariant
<1> QED BY <1>1, AdmissionInit, AdmissionStep, PTL DEF Spec, AdmissionSpec, Admission!Spec
=============================================================================
