--------------------------- MODULE Restarts_proofs ---------------------------
(***************************************************************************)
(* What TLAPS proves of Host, through the module that checks it, for every *)
(* set of processes and every number of commands, upgrades, deaths and     *)
(* reboots; and the types of Mirror there.                                 *)
(***************************************************************************)
EXTENDS MCRestarts, TLAPS, FiniteSetTheorems

-----------------------------------------------------------------------------
(* The types. *)

ProcType == [kind : {"none", "service", "terminal"},
             phase : {"gone", "locking", "dial", "up", "parked", "dying"},
             token : H!Tokens \cup {None}, job : BOOLEAN,
             upg : {"none", "accepted", "installed"}]

DiskType == [token : H!Tokens \cup {None}, desired : {"none", "running", "stopped"}]

CmdSteps == {"none", "enrol", "guard", "ensure", "kick", "unload", "reload", "load",
             "halt", "remove", "running", "mistaken", "stopped", "foreign"}

CmdType == [verb : {"none", "start", "restart", "stop", "install", "uninstall", "update"},
            step : CmdSteps, token : H!Tokens \cup {None}, force : BOOLEAN,
            busy : SUBSET HostPids]

Pairs == {s \in SUBSET HostPids : H!Cardinality(s) = 2}

Flags == loaded \in BOOLEAN /\ disabled \in BOOLEAN /\ ran \in BOOLEAN

UnitTyped == manager \in {"launchd", "systemd"} /\ unit \in {"none", "older", "ours"}

ProcTyped == hProc \in [HostPids -> ProcType]

\* The pidfile, the ledger and what the history remembers name processes.
PidsTyped ==
  /\ lock \in HostPids \cup {None} /\ hLedger \subseteq HostPids
  /\ rivals \subseteq Pairs /\ victims \subseteq HostPids

RestTyped ==
  /\ good \subseteq H!Tokens /\ hEvents \in 0..MaxHostEvents
  /\ asked \in {"nothing", "run", "idle", "foreign"}

HostTyped ==
  /\ Flags /\ UnitTyped /\ ProcTyped /\ PidsTyped /\ RestTyped
  /\ disk \in DiskType /\ cmd \in CmdType

-----------------------------------------------------------------------------
(* What holds of the processes. *)

\* A service that has not been told to die is one the supervisor has loaded.
Serving(p) == hProc[p].kind = "service" /\ H!Running(p)

\* A process is gone or it is a service's or a terminal's, and the service has one.
Kinds ==
  /\ \A p \in HostPids : hProc[p].kind = "none" <=> hProc[p].phase = "gone"
  /\ \A p, q \in HostPids : hProc[p].kind = "service" /\ hProc[q].kind = "service" => p = q
  /\ \A p \in HostPids : Serving(p) => loaded

\* Who works, or still has a job as it dies, has the lock and its job in the ledger, unless
\* a rival took the lock from it.
Holds ==
  /\ \A p \in HostPids : H!Working(p) \/ hProc[p].job => lock = p \/ p \in victims
  /\ \A p \in HostPids : hProc[p].job => hProc[p].phase \notin {"gone", "locking"} /\ p \in hLedger \cup victims

\* Two processes can be between reading and writing the pidfile together, or one in between
\* when the other has written it, only as rivals.
Rivalry ==
  \A p, q \in HostPids :
    /\ p # q /\ hProc[p].phase = "locking"
    /\ hProc[q].phase = "locking" \/ (lock = q /\ H!Alive(q))
    => {p, q} \in rivals

ProcInv == Kinds /\ Holds /\ Rivalry

\* Two pids are a pair.
LEMMA PairsAre == \A p, q \in HostPids : p # q => {p, q} \in Pairs
<1> TAKE p, q \in HostPids
<1> HAVE p # q
<1>1. Cardinality({q}) = 1 /\ IsFiniteSet({q})
  BY FS_Singleton
<1>2. Cardinality({q} \cup {p}) = 2
  BY <1>1, FS_AddElement
<1>3. {q} \cup {p} = {p, q}
  OBVIOUS
<1>4. H!Cardinality({p, q}) = 2
  BY <1>2, <1>3 DEF Cardinality, H!Cardinality
<1> QED BY <1>4 DEF Pairs

\* A process's fields.
LEMMA FieldsTyped ==
  ASSUME ProcTyped
  PROVE  \A p \in HostPids : /\ hProc[p] \in ProcType
                             /\ hProc[p].kind \in {"none", "service", "terminal"}
                             /\ hProc[p].phase \in {"gone", "locking", "dial", "up", "parked", "dying"}
                             /\ hProc[p].token \in H!Tokens \cup {None}
                             /\ hProc[p].upg \in {"none", "accepted", "installed"}
BY DEF ProcTyped, ProcType

\* The supervisor's kill.
LEMMA KilledIs ==
  ASSUME ProcTyped
  PROVE  /\ H!Killed \in [HostPids -> ProcType]
         /\ \A p \in HostPids : H!Killed[p] = IF Serving(p) THEN [hProc[p] EXCEPT !.phase = "dying"] ELSE hProc[p]
         /\ \A p \in HostPids : /\ H!Killed[p].kind = hProc[p].kind /\ H!Killed[p].job = hProc[p].job
                                /\ H!Killed[p].phase = (IF Serving(p) THEN "dying" ELSE hProc[p].phase)
<1>1. \A p \in HostPids : H!Killed[p] = IF Serving(p) THEN [hProc[p] EXCEPT !.phase = "dying"] ELSE hProc[p]
  BY DEF H!Killed, H!Service, Serving
<1>2. \A p \in HostPids : hProc[p] \in ProcType
  BY FieldsTyped
<1>3. \A x \in ProcType : /\ [x EXCEPT !.phase = "dying"] \in ProcType
                          /\ [x EXCEPT !.phase = "dying"].kind = x.kind
                          /\ [x EXCEPT !.phase = "dying"].job = x.job
                          /\ [x EXCEPT !.phase = "dying"].phase = "dying"
  BY DEF ProcType
<1>4. H!Killed \in [HostPids -> ProcType]
  <2>1. H!Killed = [p \in HostPids |-> IF Serving(p) THEN [hProc[p] EXCEPT !.phase = "dying"] ELSE hProc[p]]
    BY DEF H!Killed, H!Service, Serving
  <2> QED BY <1>2, <1>3, <2>1
<1> QED BY <1>1, <1>2, <1>3, <1>4

\* A step that leaves every process its kind and its job, and lets it move only between the
\* phases of a worker or be told to die.
Moves ==
  /\ \A p \in HostPids :
       /\ hProc'[p].kind = hProc[p].kind /\ hProc'[p].job = hProc[p].job
       /\ \/ hProc'[p].phase = hProc[p].phase
          \/ H!Working(p) /\ hProc'[p].phase \in {"dial", "up", "parked"}
          \/ H!Running(p) /\ hProc'[p].phase = "dying"
  /\ UNCHANGED <<lock, rivals, victims, hLedger>>

\* Such a step keeps ProcInv, if the supervisor has loaded what still serves.
LEMMA MovesKeep ==
  ASSUME ProcInv, Moves, loaded' \/ \A p \in HostPids : ~Serving(p)' PROVE ProcInv'
<1>1. Kinds'
  <2>1. \A p \in HostPids : hProc'[p].kind = "none" <=> hProc'[p].phase = "gone"
    BY DEF ProcInv, Kinds, Moves, H!Working, H!Running, H!Alive
  <2>2. \A p, q \in HostPids : hProc'[p].kind = "service" /\ hProc'[q].kind = "service" => p = q
    BY DEF ProcInv, Kinds, Moves
  <2> QED BY <2>1, <2>2, Zenon DEF Kinds
<1>2. Holds'
  <2>1. \A p \in HostPids : H!Working(p)' \/ hProc'[p].job => H!Working(p) \/ hProc[p].job
    BY DEF Moves, H!Working
  <2>2. \A p \in HostPids : hProc'[p].job => hProc'[p].phase \notin {"gone", "locking"}
    BY DEF ProcInv, Holds, Moves
  <2> QED BY <2>1, <2>2 DEF ProcInv, Holds, Moves
<1>3. Rivalry'
  <2>1. \A p \in HostPids : /\ hProc'[p].phase = "locking" => hProc[p].phase = "locking"
                            /\ H!Alive(p)' => H!Alive(p)
    BY DEF Moves, H!Working, H!Running, H!Alive
  <2> QED BY <2>1 DEF ProcInv, Rivalry, Moves
<1> QED BY <1>1, <1>2, <1>3 DEF ProcInv


-----------------------------------------------------------------------------
(* ProcInv, step by step. *)

\* A pid that a new process may get is a dead one.
LEMMA FreeIsDead == \A p \in H!Free : p \in HostPids /\ hProc[p].phase = "gone"
<1> DEFINE dead == {p \in HostPids : ~H!Alive(p)}
           kept == {p \in dead : p = lock \/ p \in hLedger}
<1>1. H!Free = kept \cup (IF dead = kept THEN {} ELSE {CHOOSE p \in dead \ kept : TRUE})
  BY DEF H!Free
<1>2. kept \subseteq dead
  OBVIOUS
<1>3. dead # kept => (CHOOSE p \in dead \ kept : TRUE) \in dead
  <2> HAVE dead # kept
  <2>1. \E p \in dead \ kept : TRUE
    BY <1>2
  <2> QED BY <2>1
<1>4. \A p \in H!Free : p \in dead
  BY <1>1, <1>2, <1>3
<1> QED BY <1>4 DEF H!Alive

\* What a new process is.
LEMMA BeginIs ==
  ASSUME ProcTyped, NEW p, NEW kind \in {"service", "terminal"}, NEW token \in H!Tokens \cup {None},
         H!Begin(p, kind, token)
  PROVE  /\ p \in HostPids /\ hProc[p].phase = "gone"
         /\ hProc'[p].kind = kind /\ hProc'[p].phase = "locking" /\ hProc'[p].job = FALSE
         /\ \A q \in HostPids : q # p => hProc'[q] = hProc[q]
         /\ hProc' \in [HostPids -> ProcType]
         /\ rivals' = rivals \cup {{p, q} : q \in {q \in HostPids : hProc[q].phase = "locking"}}
         /\ ~H!HeldByOther(p)
<1> DEFINE new == [H!NoProc EXCEPT !.kind = kind, !.phase = "locking", !.token = token]
<1>1. /\ p \in HostPids /\ hProc[p].phase = "gone"
  BY FreeIsDead DEF H!Begin
<1>2. new.kind = kind /\ new.phase = "locking" /\ new.job = FALSE /\ new \in ProcType
  BY DEF H!NoProc, ProcType
<1>3. hProc' = [hProc EXCEPT ![p] = new]
  BY DEF H!Begin
<1>4. /\ rivals' = rivals \cup {{p, q} : q \in {q \in HostPids : hProc[q].phase = "locking"}}
      /\ ~H!HeldByOther(p)
  BY DEF H!Begin
<1> HIDE DEF new
<1> QED BY <1>1, <1>2, <1>3, <1>4 DEF ProcTyped

\* A process that starts: it holds nothing yet, and its rivals are those that have read the
\* pidfile before it.
LEMMA BeginKeeps ==
  ASSUME ProcInv, ProcTyped, NEW p, NEW kind \in {"service", "terminal"},
         NEW token \in H!Tokens \cup {None}, H!Begin(p, kind, token),
         kind = "service" => loaded /\ H!Service = {}
  PROVE  ProcInv'
<1>1. /\ p \in HostPids /\ hProc[p].phase = "gone"
      /\ hProc'[p].kind = kind /\ hProc'[p].phase = "locking" /\ hProc'[p].job = FALSE
      /\ \A q \in HostPids : q # p => hProc'[q] = hProc[q]
      /\ rivals' = rivals \cup {{p, q} : q \in {q \in HostPids : hProc[q].phase = "locking"}}
      /\ ~H!HeldByOther(p)
  <2>1. ~H!HeldByOther(p)
    BY BeginIs
  <2>2. rivals' = rivals \cup {{p, q} : q \in {q \in HostPids : hProc[q].phase = "locking"}}
    BY DEF H!Begin
  <2>3. /\ p \in HostPids /\ hProc[p].phase = "gone"
        /\ hProc'[p].kind = kind /\ hProc'[p].phase = "locking" /\ hProc'[p].job = FALSE
        /\ \A q \in HostPids : q # p => hProc'[q] = hProc[q]
    BY BeginIs
  <2> QED BY <2>1, <2>2, <2>3
<1>2. UNCHANGED <<loaded, lock, hLedger, victims>>
  BY DEF H!Begin, H!host, H!files
<1>3. Kinds'
  <2>1. \A q \in HostPids : hProc'[q].kind = "none" <=> hProc'[q].phase = "gone"
    BY <1>1 DEF ProcInv, Kinds
  <2>2. \A q, r \in HostPids : hProc'[q].kind = "service" /\ hProc'[r].kind = "service" => q = r
    BY <1>1 DEF ProcInv, Kinds, H!Service
  <2>3. \A q \in HostPids : Serving(q)' => loaded'
    BY <1>1, <1>2 DEF ProcInv, Kinds, Serving, H!Running, H!Alive
  <2> QED BY <2>1, <2>2, <2>3 DEF Kinds
<1>4. Holds'
  BY <1>1, <1>2 DEF ProcInv, Holds, H!Working
<1>5. Rivalry'
  <2> SUFFICES ASSUME NEW q \in HostPids, NEW r \in HostPids, q # r, hProc'[q].phase = "locking",
                      hProc'[r].phase = "locking" \/ (lock = r /\ H!Alive(r)')
               PROVE  {q, r} \in rivals'
    BY <1>2, Zenon DEF Rivalry
  <2>1. CASE q # p /\ r # p
    BY <2>1, <1>1 DEF ProcInv, Rivalry, H!Alive
  <2>2. CASE r = p
    <3>1. hProc[q].phase = "locking"
      BY <2>2, <1>1
    <3>2. {p, q} \in rivals'
      BY <3>1, <1>1
    <3> QED BY <2>2, <3>2
  <2>3. CASE q = p
    <3>1. lock # r \/ ~H!Alive(r)
      BY <2>3, <1>1, RestartsAssumption DEF H!HeldByOther, H!Alive, H!HostAssumption
    <3>2. hProc'[r] = hProc[r]
      BY <2>3, <1>1
    <3>3. hProc[r].phase = "locking"
      BY <3>1, <3>2 DEF H!Alive
    <3> QED BY <2>3, <3>3, <1>1
  <2> QED BY <2>1, <2>2, <2>3
<1> QED BY <1>3, <1>4, <1>5 DEF ProcInv

\* It writes the pidfile: who had it and works still is a victim.
LEMMA WriteLockKeeps ==
  ASSUME ProcInv, ProcTyped, NEW p \in HostPids, H!WriteLock(p) PROVE ProcInv'
<1>1. /\ hProc[p].phase = "locking" /\ lock' = p /\ hLedger' = hLedger \cap {p}
      /\ victims' = victims \cup {q \in {lock} : {p, q} \in rivals /\ H!Alive(q)}
      /\ UNCHANGED <<loaded, rivals>>
  BY DEF H!WriteLock, H!host
<1>2. /\ \A q \in HostPids : q # p => hProc'[q] = hProc[q]
      /\ hProc'[p].kind = hProc[p].kind /\ hProc'[p].job = hProc[p].job /\ hProc'[p].phase = "dial"
  BY FieldsTyped DEF H!WriteLock, ProcTyped, ProcType
<1>3. Kinds'
  BY <1>1, <1>2 DEF ProcInv, Kinds, Serving, H!Running, H!Alive
<1>4. \A q \in HostPids : q # p /\ lock = q /\ H!Alive(q) => q \in victims'
  BY <1>1 DEF ProcInv, Rivalry
<1>5. Holds'
  <2>1. \A q \in HostPids : H!Working(q)' \/ hProc'[q].job => lock' = q \/ q \in victims'
    BY <1>1, <1>2, <1>4 DEF ProcInv, Holds, H!Working, H!Alive
  <2>2. \A q \in HostPids : hProc'[q].job => /\ hProc'[q].phase \notin {"gone", "locking"}
                                             /\ q \in hLedger' \cup victims'
    <3> SUFFICES ASSUME NEW q \in HostPids, hProc'[q].job
                 PROVE  hProc'[q].phase \notin {"gone", "locking"} /\ q \in hLedger' \cup victims'
      OBVIOUS
    <3>1. q # p /\ hProc[q].job /\ hProc'[q] = hProc[q]
      BY <1>1, <1>2 DEF ProcInv, Holds
    <3>2. hProc[q].phase \notin {"gone", "locking"} /\ (lock = q \/ q \in victims)
      BY <3>1 DEF ProcInv, Holds
    <3> QED BY <1>1, <1>4, <3>1, <3>2 DEF H!Alive
  <2> QED BY <2>1, <2>2 DEF Holds
<1>6. Rivalry'
  <2> SUFFICES ASSUME NEW q \in HostPids, NEW r \in HostPids, q # r, hProc'[q].phase = "locking",
                      hProc'[r].phase = "locking" \/ (lock' = r /\ H!Alive(r)')
               PROVE  {q, r} \in rivals'
    BY Zenon DEF Rivalry
  <2>1. q # p /\ hProc[q].phase = "locking"
    BY <1>2
  <2>2. CASE r = p
    BY <2>1, <2>2, <1>1 DEF ProcInv, Rivalry
  <2>3. CASE r # p
    BY <2>1, <2>3, <1>1, <1>2 DEF ProcInv, Rivalry
  <2> QED BY <2>2, <2>3
<1> QED BY <1>3, <1>5, <1>6 DEF ProcInv

\* A job begins, or ends.
LEMMA JobKeeps ==
  ASSUME ProcInv, ProcTyped, NEW p \in HostPids, H!BeginJob(p) \/ H!EndJob(p) PROVE ProcInv'
<1>1. /\ UNCHANGED <<loaded, lock, rivals, victims>>
      /\ \E has \in BOOLEAN : /\ hProc' = [hProc EXCEPT ![p].job = has]
                              /\ hLedger' = IF has THEN hLedger \cup {p} ELSE hLedger \ {p}
  <2>1. CASE H!BeginJob(p)
    BY <2>1 DEF H!BeginJob, H!host, H!past
  <2>2. CASE H!EndJob(p)
    BY <2>2 DEF H!EndJob, H!host, H!past
  <2> QED BY <2>1, <2>2
<1>2. H!Working(p)
  BY DEF H!BeginJob, H!EndJob, H!Working
<1>3. /\ \A q \in HostPids : q # p => hProc'[q] = hProc[q]
      /\ hProc'[p].kind = hProc[p].kind /\ hProc'[p].phase = hProc[p].phase
      /\ \A q \in HostPids : q # p /\ q \in hLedger => q \in hLedger'
      /\ hProc'[p].job => p \in hLedger'
  BY <1>1, FieldsTyped DEF ProcTyped, ProcType
<1>4. Kinds'
  BY <1>1, <1>3 DEF ProcInv, Kinds, Serving, H!Running, H!Alive
<1>5. Holds'
  <2>1. \A q \in HostPids : H!Working(q)' \/ hProc'[q].job => lock' = q \/ q \in victims'
    BY <1>1, <1>2, <1>3 DEF ProcInv, Holds, H!Working
  <2>2. \A q \in HostPids : hProc'[q].job => /\ hProc'[q].phase \notin {"gone", "locking"}
                                             /\ q \in hLedger' \cup victims'
    BY <1>1, <1>2, <1>3 DEF ProcInv, Holds, H!Working
  <2> QED BY <2>1, <2>2 DEF Holds
<1>6. Rivalry'
  BY <1>1, <1>3 DEF ProcInv, Rivalry, H!Alive
<1> QED BY <1>4, <1>5, <1>6 DEF ProcInv

\* A process that is gone leaves no trace in what the history remembers; it may have released
\* the lock, if that was its own.
LEMMA EndKeeps ==
  ASSUME ProcInv, ProcTyped, NEW p \in HostPids, hProc' = [hProc EXCEPT ![p] = H!NoProc],
         H!Forget(p), lock' = lock \/ (lock = p /\ lock' = None), UNCHANGED <<loaded, hLedger>>
  PROVE  ProcInv'
<1>1. /\ \A q \in HostPids : q # p => hProc'[q] = hProc[q]
      /\ hProc'[p].kind = "none" /\ hProc'[p].job = FALSE /\ hProc'[p].phase = "gone"
  BY DEF H!NoProc, ProcTyped
<1>2. rivals' = {s \in rivals : p \notin s} /\ victims' = victims \ {p}
  BY DEF H!Forget
<1>3. Kinds'
  BY <1>1 DEF ProcInv, Kinds, Serving, H!Running, H!Alive
<1>4. Holds'
  BY <1>1, <1>2 DEF ProcInv, Holds, H!Working
<1>5. Rivalry'
  <2> SUFFICES ASSUME NEW q \in HostPids, NEW r \in HostPids, q # r, hProc'[q].phase = "locking",
                      hProc'[r].phase = "locking" \/ (lock' = r /\ H!Alive(r)')
               PROVE  {q, r} \in rivals'
    BY Zenon DEF Rivalry
  <2>1. q # p /\ r # p
    BY <1>1 DEF H!Alive
  <2>2. lock' = r => lock = r
    BY <2>1, RestartsAssumption DEF H!HostAssumption
  <2>3. {q, r} \in rivals
    BY <2>1, <2>2, <1>1 DEF ProcInv, Rivalry, H!Alive
  <2> QED BY <2>1, <2>3, <1>2
<1> QED BY <1>3, <1>4, <1>5 DEF ProcInv

\* After a reboot there is no process.
LEMMA RebootKeeps ==
  ASSUME ProcInv, H!Reboot PROVE ProcInv'
<1>1. \A p \in HostPids : hProc'[p].kind = "none" /\ hProc'[p].job = FALSE /\ hProc'[p].phase = "gone"
  BY DEF H!Reboot, H!NoProc
<1> QED BY <1>1 DEF ProcInv, Kinds, Holds, Rivalry, Serving, H!Running, H!Alive, H!Working


\* What a worker does within its phases, and the first two steps of an upgrade.
WorkerMoves(p) ==
  H!Welcome(p) \/ H!Reject(p) \/ H!Poll(p) \/ H!Drop(p) \/ H!PlanUpgrade(p) \/ H!Install(p)

\* They begin and end no process and no job, and serve as before.
LEMMA WorkerMovesAre ==
  ASSUME ProcTyped, NEW p \in HostPids, WorkerMoves(p)
  PROVE  /\ Moves /\ UNCHANGED loaded
         /\ \A q \in HostPids : Serving(q)' <=> Serving(q)
<1>1. /\ \A q \in HostPids : q # p => hProc'[q] = hProc[q]
      /\ hProc'[p].kind = hProc[p].kind /\ hProc'[p].job = hProc[p].job
      /\ hProc'[p].phase = hProc[p].phase \/ (H!Working(p) /\ hProc'[p].phase \in {"dial", "up", "parked"})
  <2>1. CASE H!Welcome(p) \/ H!Reject(p) \/ H!Drop(p)
    BY <2>1, FieldsTyped DEF H!Welcome, H!Reject, H!Drop, H!Working, ProcTyped, ProcType
  <2>2. CASE H!Poll(p)
    BY <2>2, FieldsTyped DEF H!Poll, H!Working, ProcTyped, ProcType
  <2>3. CASE H!PlanUpgrade(p) \/ H!Install(p)
    BY <2>3, FieldsTyped DEF H!PlanUpgrade, H!Install, ProcTyped, ProcType
  <2> QED BY <2>1, <2>2, <2>3 DEF WorkerMoves
<1>2. UNCHANGED <<loaded, lock, rivals, victims, hLedger>>
  BY DEF WorkerMoves, H!Welcome, H!Reject, H!Poll, H!Drop, H!PlanUpgrade, H!Install,
         H!host, H!files, H!past
<1>3. Moves
  BY <1>1, <1>2 DEF Moves
<1>4. \A q \in HostPids : Serving(q)' <=> Serving(q)
  BY <1>1 DEF Serving, H!Running, H!Alive, H!Working
<1> QED BY <1>2, <1>3, <1>4

\* The processes after the kill: none serves.
LEMMA KilledMoves ==
  ASSUME ProcTyped,
         \A p \in HostPids : /\ hProc'[p].kind = H!Killed[p].kind /\ hProc'[p].job = H!Killed[p].job
                             /\ hProc'[p].phase = H!Killed[p].phase,
         UNCHANGED <<lock, rivals, victims, hLedger>>
  PROVE  Moves /\ \A p \in HostPids : ~Serving(p)'
<1>1. \A p \in HostPids : /\ hProc'[p].kind = hProc[p].kind /\ hProc'[p].job = hProc[p].job
                          /\ hProc'[p].phase = (IF Serving(p) THEN "dying" ELSE hProc[p].phase)
  BY KilledIs
<1>2. Moves
  BY <1>1 DEF Moves, Serving
<1>3. \A p \in HostPids : ~Serving(p)'
  BY <1>1 DEF Serving, H!Running, H!Alive
<1> QED BY <1>2, <1>3

\* The steps of a command leave the pidfile and the ledger alone, and either kill the
\* service or leave the processes as they are.
LEMMA CommandMoves ==
  ASSUME ProcInv, ProcTyped, H!Command
  PROVE  Moves /\ (loaded' \/ \A p \in HostPids : ~Serving(p)')
<1>1. /\ UNCHANGED <<lock, rivals, victims, hLedger>>
      /\ hProc' = hProc \/ hProc' = H!Killed
      /\ loaded' = loaded \/ loaded' = TRUE \/ hProc' = H!Killed
  <2>1. CASE \E c \in H!Typed : H!Type(c)
    BY <2>1 DEF H!Type, H!host, H!files
  <2>2. CASE H!EnrolToDisk \/ H!GuardBusy
    BY <2>2 DEF H!EnrolToDisk, H!GuardBusy, H!host, H!files, H!past
  <2>3. CASE H!Kickstart
    BY <2>3 DEF H!Kickstart, H!Kick, H!host, H!files, H!past
  <2>4. CASE H!RestartStop \/ H!Reload \/ H!Halt
    BY <2>4 DEF H!RestartStop, H!Reload, H!Halt, H!host, H!files, H!past
  <2>5. CASE H!EnsureRunning \/ H!Load \/ H!Remove
    BY <2>5 DEF H!EnsureRunning, H!Load, H!Remove, H!host, H!files, H!past
  <2>6. CASE H!Conclude \/ H!Interrupt
    BY <2>6 DEF H!Conclude, H!Interrupt, H!host, H!files
  <2> QED BY <2>1, <2>2, <2>3, <2>4, <2>5, <2>6 DEF H!Command
<1>2. CASE hProc' = H!Killed
  BY <1>1, <1>2, KilledMoves
<1>3. CASE hProc' = hProc /\ (loaded' = loaded \/ loaded' = TRUE)
  <2>1. Moves
    BY <1>1, <1>3 DEF Moves
  <2>2. \A p \in HostPids : Serving(p)' => loaded
    BY <1>3 DEF ProcInv, Kinds, Serving, H!Running, H!Alive
  <2> QED BY <1>3, <2>1, <2>2
<1> QED BY <1>1, <1>2, <1>3


\* While the service serves, a command or an upgrade that looks for the live node finds its
\* process, if there is a unit.
LEMMA ServingIsSeen ==
  ASSUME ProcInv, unit # "none", NEW q \in HostPids, Serving(q) PROVE H!Seen = {q}
<1>1. H!Service = {q}
  BY DEF ProcInv, Kinds, Serving, H!Service
<1>2. q \in H!Reported
  BY <1>1 DEF H!Reported, Serving
<1>3. \E p \in H!Service : H!Running(p)
  BY <1>1 DEF Serving
<1> QED BY <1>1, <1>2, <1>3 DEF H!Seen

\* The restart that ends an upgrade gives up, or has found the service, if it serves, at no
\* job, and takes it down: to have it started again, or from a worker of a terminal, which
\* goes on.
LEMMA RestartSelfIs ==
  ASSUME ProcInv, ProcTyped, NEW p \in HostPids, H!RestartSelf(p)
  PROVE  \/ /\ hProc' = [hProc EXCEPT ![p].upg = "none"] /\ UNCHANGED loaded
         \/ /\ \A q \in HostPids : Serving(q) => q \notin hLedger
            /\ \A q \in HostPids : /\ hProc'[q].kind = H!Killed[q].kind /\ hProc'[q].job = H!Killed[q].job
                                   /\ hProc'[q].phase = H!Killed[q].phase
            /\ loaded' = TRUE \/ hProc[p].kind # "service"
<1>1. PICK live \in H!Seen :
        \/ H!GiveUp(p) /\ UNCHANGED H!host
        \/ /\ ~H!Guarded(FALSE, live) /\ unit # "none"
           /\ H!Kick(TRUE) \/ H!UpgradeFallsBack(p)
  BY DEF H!RestartSelf
<1>2. CASE H!GiveUp(p) /\ UNCHANGED H!host
  BY <1>2 DEF H!GiveUp, H!host
<1>3. CASE ~H!Guarded(FALSE, live) /\ unit # "none" /\ (H!Kick(TRUE) \/ H!UpgradeFallsBack(p))
  <2>1. \A q \in HostPids : Serving(q) => q \notin hLedger
    <3> SUFFICES ASSUME NEW q \in HostPids, Serving(q) PROVE q \notin hLedger
      OBVIOUS
    <3>1. live = q
      BY <1>3, ServingIsSeen
    <3> QED BY <1>3, <3>1 DEF H!Guarded, H!Busy
  <2>2. CASE H!Kick(TRUE)
    BY <2>1, <2>2 DEF H!Kick
  <2>3. CASE H!UpgradeFallsBack(p) /\ p \in H!Service
    BY <2>3 DEF H!UpgradeFallsBack, H!GiveUp, H!host
  <2>4. CASE H!UpgradeFallsBack(p) /\ p \notin H!Service
    <3>1. PICK ok \in BOOLEAN : hProc' = IF ok THEN H!Killed ELSE [H!Killed EXCEPT ![p].upg = "none"]
      BY <2>4 DEF H!UpgradeFallsBack
    <3>2. H!Killed \in [HostPids -> ProcType]
      BY KilledIs
    <3>3. \A q \in HostPids : /\ hProc'[q].kind = H!Killed[q].kind /\ hProc'[q].job = H!Killed[q].job
                              /\ hProc'[q].phase = H!Killed[q].phase
      BY <3>1, <3>2 DEF ProcType
    <3>4. hProc[p].kind # "service"
      BY <2>4 DEF H!Service
    <3> QED BY <2>1, <3>3, <3>4
  <2> QED BY <1>3, <2>2, <2>3, <2>4
<1> QED BY <1>1, <1>2, <1>3

\* Either way it moves the processes as MovesKeep asks.
LEMMA RestartSelfMoves ==
  ASSUME ProcInv, ProcTyped, NEW p \in HostPids, H!RestartSelf(p)
  PROVE  Moves /\ (loaded' \/ \A q \in HostPids : ~Serving(q)')
<1>1. UNCHANGED <<lock, rivals, victims, hLedger>>
  BY DEF H!RestartSelf, H!files
<1>2. CASE hProc' = [hProc EXCEPT ![p].upg = "none"] /\ UNCHANGED loaded
  <2>1. \A q \in HostPids : /\ hProc'[q].kind = hProc[q].kind /\ hProc'[q].job = hProc[q].job
                            /\ hProc'[q].phase = hProc[q].phase
    BY <1>2, FieldsTyped DEF ProcTyped, ProcType
  <2>2. Moves
    BY <1>1, <2>1 DEF Moves
  <2>3. \A q \in HostPids : Serving(q)' => loaded'
    BY <1>2, <2>1 DEF ProcInv, Kinds, Serving, H!Running, H!Alive
  <2> QED BY <2>2, <2>3
<1>3. CASE \A q \in HostPids : /\ hProc'[q].kind = H!Killed[q].kind /\ hProc'[q].job = H!Killed[q].job
                               /\ hProc'[q].phase = H!Killed[q].phase
  BY <1>1, <1>3, KilledMoves
<1> QED BY <1>2, <1>3, RestartSelfIs

\* ProcInv holds at the start.
LEMMA ProcInit == H!Init => ProcInv
BY DEF H!Init, H!NoProc, ProcInv, Kinds, Holds, Rivalry, Serving, H!Running, H!Alive, H!Working

\* Every step keeps ProcInv.
LEMMA ProcStep == ASSUME ProcInv, ProcTyped, [H!Next]_hVars PROVE ProcInv'
<1>1. CASE UNCHANGED hVars
  BY <1>1 DEF hVars, ProcInv, Kinds, Holds, Rivalry, Serving, H!Running, H!Alive, H!Working
<1>2. CASE H!Worker
  <2>1. PICK p \in HostPids :
          \/ H!Spawn(p) \/ H!WriteLock(p) \/ H!Welcome(p) \/ H!Reject(p) \/ H!Poll(p)
          \/ H!Drop(p) \/ H!BeginJob(p) \/ H!EndJob(p) \/ H!Gone(p)
          \/ \E token \in H!Tokens \cup {None} : H!Foreground(p, token)
          \/ \E released \in BOOLEAN : H!Die(p, released)
    BY <1>2 DEF H!Worker
  <2>2. CASE H!Spawn(p)
    <3>1. PICK token \in H!Tokens \cup {None} : H!Begin(p, "service", token)
      BY <2>2 DEF H!Spawn, H!Tokens
    <3>2. loaded /\ H!Service = {}
      BY <2>2 DEF H!Spawn
    <3> QED BY <3>1, <3>2, BeginKeeps
  <2>3. CASE \E token \in H!Tokens \cup {None} : H!Foreground(p, token)
    <3>1. PICK token \in H!Tokens \cup {None} : H!Begin(p, "terminal", token)
      BY <2>3 DEF H!Foreground
    <3> QED BY <3>1, BeginKeeps
  <2>4. CASE H!WriteLock(p)
    BY <2>4, WriteLockKeeps
  <2>5. CASE WorkerMoves(p)
    <3>1. Moves /\ UNCHANGED loaded /\ \A q \in HostPids : Serving(q)' <=> Serving(q)
      BY <2>5, WorkerMovesAre
    <3>2. \A q \in HostPids : Serving(q)' => loaded'
      BY <3>1, Zenon DEF ProcInv, Kinds
    <3> QED BY <3>1, <3>2, MovesKeep
  <2>6. CASE H!BeginJob(p) \/ H!EndJob(p)
    BY <2>6, JobKeeps
  <2>7. CASE H!Gone(p)
    BY <2>7, EndKeeps DEF H!Gone, H!host, H!files
  <2>8. CASE \E released \in BOOLEAN : H!Die(p, released)
    <3>1. /\ hProc' = [hProc EXCEPT ![p] = H!NoProc] /\ H!Forget(p)
          /\ (lock' = lock \/ (lock = p /\ lock' = None)) /\ UNCHANGED <<loaded, hLedger>>
      BY <2>8 DEF H!Die, H!host, H!Released
    <3> QED BY <3>1, EndKeeps
  <2> QED BY <2>1, <2>2, <2>3, <2>4, <2>5, <2>6, <2>7, <2>8 DEF WorkerMoves
<1>3. CASE H!Command
  BY <1>3, CommandMoves, MovesKeep
<1>4. CASE H!Upgrade
  <2>1. PICK p \in HostPids : H!PlanUpgrade(p) \/ H!Install(p) \/ H!RestartSelf(p)
    BY <1>4 DEF H!Upgrade
  <2>2. CASE H!PlanUpgrade(p) \/ H!Install(p)
    <3>1. Moves /\ UNCHANGED loaded /\ \A q \in HostPids : Serving(q)' <=> Serving(q)
      BY <2>2, WorkerMovesAre DEF WorkerMoves
    <3>2. \A q \in HostPids : Serving(q)' => loaded'
      BY <3>1, Zenon DEF ProcInv, Kinds
    <3> QED BY <3>1, <3>2, MovesKeep
  <2>3. CASE H!RestartSelf(p)
    BY <2>3, RestartSelfMoves, MovesKeep
  <2> QED BY <2>1, <2>2, <2>3
<1>5. CASE H!Reboot
  BY <1>5, RebootKeeps
<1>6. CASE H!Revoke
  BY <1>6 DEF H!Revoke, H!host, H!files, H!past, ProcInv, Kinds, Holds, Rivalry, Serving,
              H!Running, H!Alive, H!Working
<1> QED BY <1>1, <1>2, <1>3, <1>4, <1>5, <1>6 DEF H!Next


-----------------------------------------------------------------------------
(* The types, step by step. *)

\* The types of all but the processes.
LEMMA TypedInit == H!Init => HostTyped
<1> SUFFICES ASSUME H!Init PROVE HostTyped
  OBVIOUS
<1>1. UnitTyped /\ PidsTyped /\ RestTyped
  BY RestartsAssumption DEF H!Init, H!HostAssumption, H!Tokens, UnitTyped, PidsTyped, RestTyped
<1>2. Flags
  BY Zenon DEF H!Init, Flags
<1>3. ProcTyped
  BY DEF H!Init, H!NoProc, ProcTyped, ProcType
<1>4. disk \in DiskType
  BY DEF H!Init, H!Tokens, DiskType
<1>5. cmd \in CmdType
  BY DEF H!Init, H!NoCmd, CmdType, CmdSteps
<1> QED BY <1>1, <1>2, <1>3, <1>4, <1>5 DEF HostTyped

\* A worker's steps.
LEMMA WorkerTyped ==
  ASSUME HostTyped, NEW p \in HostPids,
         \/ H!Spawn(p) \/ H!WriteLock(p) \/ H!BeginJob(p) \/ H!EndJob(p) \/ H!Gone(p)
         \/ WorkerMoves(p)
         \/ \E token \in H!Tokens \cup {None} : H!Foreground(p, token)
         \/ \E released \in BOOLEAN : H!Die(p, released)
  PROVE  HostTyped'
<1>1. /\ ProcTyped /\ PidsTyped /\ RestTyped /\ UnitTyped /\ Flags
      /\ disk \in DiskType /\ cmd \in CmdType
  BY DEF HostTyped
<1>2. \A x \in DiskType : x.token \in H!Tokens \cup {None} /\ [x EXCEPT !.desired = "running"] \in DiskType
  BY DEF DiskType
<1>3. \A x \in DiskType, t \in H!Tokens \cup {None} : [x EXCEPT !.token = t] \in DiskType
  BY DEF DiskType
<1>4. \A c \in CmdType : [c EXCEPT !.busy = @ \ {p}] \in CmdType
  BY DEF CmdType
<1>5. hEvents \in Nat /\ hEvents \in 0..MaxHostEvents /\ MaxHostEvents \in Nat
  BY <1>1, RestartsAssumption DEF RestTyped, H!HostAssumption
<1>6. CASE H!Spawn(p) \/ \E token \in H!Tokens \cup {None} : H!Foreground(p, token)
  <2>1. PICK kind \in {"service", "terminal"}, token \in H!Tokens \cup {None} : H!Begin(p, kind, token)
    BY <1>6 DEF H!Spawn, H!Foreground, H!Tokens
  <2>2. ProcTyped'
    BY <1>1, <2>1, BeginIs DEF ProcTyped
  <2>3. PidsTyped'
    <3>1. rivals' = rivals \cup {{p, q} : q \in {q \in HostPids : hProc[q].phase = "locking"}}
      BY <2>1 DEF H!Begin
    <3>2. hProc[p].phase # "locking"
      BY <2>1, FreeIsDead DEF H!Begin
    <3>3. rivals' \subseteq Pairs
      BY <3>1, <3>2, <1>1, PairsAre DEF PidsTyped
    <3> QED BY <2>1, <3>3, <1>1 DEF PidsTyped, H!Begin, H!files
  <2>4. hEvents' \in 0..MaxHostEvents
    BY <1>5, <1>6 DEF H!Spawn, H!Foreground, H!Event
  <2>5. RestTyped' /\ UnitTyped'
    BY <1>1, <2>1, <2>4 DEF H!Begin, H!host, RestTyped, UnitTyped
  <2>6. UNCHANGED <<loaded, disabled, ran, disk, cmd>>
    BY <2>1 DEF H!Begin, H!host, H!files
  <2>7. Flags'
    BY <2>6, <1>1, Zenon DEF Flags
  <2> QED BY <2>2, <2>3, <2>5, <2>6, <2>7, <1>1 DEF HostTyped
<1>7. CASE H!WriteLock(p)
  <2>1. H!ResolveToken(p) \in H!Tokens \cup {None}
    BY <1>1, <1>2, FieldsTyped DEF H!ResolveToken
  <2>2. ProcTyped'
    BY <1>1, <1>7, <2>1, FieldsTyped DEF H!WriteLock, ProcTyped, ProcType
  <2>3. PidsTyped'
    <3>1. \A q \in victims' : q \in HostPids
      <4>1. victims' = victims \cup {q \in {lock} : {p, q} \in rivals /\ H!Alive(q)}
        BY <1>7 DEF H!WriteLock
      <4>2. \A q : {p, q} \in rivals => q \in HostPids
        BY <1>1 DEF PidsTyped, Pairs
      <4> QED BY <1>1, <4>1, <4>2 DEF PidsTyped
    <3>2. lock' = p /\ hLedger' = hLedger \cap {p} /\ rivals' = rivals
      BY <1>7 DEF H!WriteLock
    <3> QED BY <1>1, <3>1, <3>2 DEF PidsTyped
  <2>4. disk' \in DiskType
    BY <1>1, <1>2, <1>7 DEF H!WriteLock
  <2>5. RestTyped' /\ UnitTyped'
    BY <1>1, <1>7 DEF H!WriteLock, H!host, RestTyped, UnitTyped
  <2>6. UNCHANGED <<loaded, disabled, cmd>> /\ ran' \in BOOLEAN
    BY <1>7, Zenon DEF H!WriteLock, H!host
  <2>7. Flags'
    BY <2>6, <1>1, Zenon DEF Flags
  <2> QED BY <2>2, <2>3, <2>4, <2>5, <2>6, <2>7, <1>1 DEF HostTyped
<1>8. CASE WorkerMoves(p)
  <2>1. ProcTyped'
    <3>1. CASE H!Welcome(p) \/ H!Reject(p) \/ H!Drop(p)
      BY <3>1, <1>1, FieldsTyped DEF H!Welcome, H!Reject, H!Drop, ProcTyped, ProcType
    <3>2. CASE H!Poll(p)
      BY <3>2, <1>1, <1>2, FieldsTyped DEF H!Poll, H!Fresh, ProcTyped, ProcType
    <3>3. CASE H!PlanUpgrade(p) \/ H!Install(p)
      BY <3>3, <1>1, FieldsTyped DEF H!PlanUpgrade, H!Install, ProcTyped, ProcType
    <3> QED BY <1>8, <3>1, <3>2, <3>3 DEF WorkerMoves
  <2>2. /\ disk' \in DiskType
        /\ UNCHANGED <<manager, unit, lock, hLedger, rivals, victims, good, asked, cmd>>
        /\ UNCHANGED <<loaded, disabled, ran>>
        /\ hEvents' = hEvents \/ H!Event
    <3>1. CASE H!Welcome(p)
      BY <3>1, <1>1, <1>3, FieldsTyped DEF H!Welcome, H!Persist, H!host, H!past
    <3>2. CASE H!Reject(p) \/ H!Poll(p) \/ H!Drop(p)
      BY <3>2, <1>1 DEF H!Reject, H!Poll, H!Drop, H!host, H!files, H!past
    <3>3. CASE H!PlanUpgrade(p) \/ H!Install(p)
      BY <3>3, <1>1 DEF H!PlanUpgrade, H!Install, H!host, H!files, H!past
    <3> QED BY <1>8, <3>1, <3>2, <3>3 DEF WorkerMoves
  <2>3. hEvents' \in 0..MaxHostEvents
    BY <1>5, <2>2 DEF H!Event
  <2>4. Flags'
    BY <2>2, <1>1, Zenon DEF Flags
  <2>5. UnitTyped' /\ PidsTyped' /\ RestTyped'
    BY <2>2, <2>3, <1>1 DEF UnitTyped, PidsTyped, RestTyped
  <2> QED BY <2>1, <2>2, <2>4, <2>5, <1>1 DEF HostTyped
<1>9. CASE H!BeginJob(p) \/ H!EndJob(p)
  <2>1. ProcTyped'
    <3>1. \A x \in ProcType : [x EXCEPT !.job = TRUE] \in ProcType /\ [x EXCEPT !.job = FALSE] \in ProcType
      BY DEF ProcType
    <3>2. \/ hProc' = [hProc EXCEPT ![p] = [hProc[p] EXCEPT !.job = TRUE]]
          \/ hProc' = [hProc EXCEPT ![p] = [hProc[p] EXCEPT !.job = FALSE]]
      BY <1>9 DEF H!BeginJob, H!EndJob
    <3> QED BY <1>1, <3>1, <3>2, FieldsTyped DEF ProcTyped
  <2>2. /\ cmd' \in CmdType
        /\ hLedger' \subseteq HostPids
        /\ UNCHANGED <<manager, unit, lock, disk, rivals, victims, good, asked, hEvents>>
        /\ UNCHANGED <<loaded, disabled, ran>>
    BY <1>9, <1>1, <1>4 DEF H!BeginJob, H!EndJob, H!host, H!past, PidsTyped
  <2>3. Flags'
    BY <2>2, <1>1, Zenon DEF Flags
  <2>4. UnitTyped' /\ PidsTyped' /\ RestTyped'
    BY <2>2, <1>1 DEF UnitTyped, PidsTyped, RestTyped
  <2> QED BY <2>1, <2>2, <2>3, <2>4, <1>1 DEF HostTyped
<1>10. CASE H!Gone(p) \/ \E released \in BOOLEAN : H!Die(p, released)
  <2>1. hProc' = [hProc EXCEPT ![p] = H!NoProc]
    BY <1>10 DEF H!Gone, H!Die
  <2>2. H!NoProc \in ProcType
    BY DEF H!NoProc, ProcType
  <2>3. ProcTyped'
    BY <1>1, <2>1, <2>2 DEF ProcTyped
  <2>4. H!Forget(p)
    BY <1>10 DEF H!Gone, H!Die
  <2>5. cmd' \in CmdType /\ rivals' \subseteq rivals /\ victims' \subseteq victims
    BY <1>1, <1>4, <2>4 DEF H!Forget
  <2>6. /\ lock' = lock \/ lock' = None
        /\ UNCHANGED <<manager, unit, disk, hLedger, good, asked>>
        /\ UNCHANGED <<loaded, disabled, ran>>
        /\ hEvents' = hEvents \/ H!Event
    BY <1>10 DEF H!Gone, H!Die, H!Released, H!host, H!files
  <2>7. hEvents' \in 0..MaxHostEvents
    BY <1>5, <2>6 DEF H!Event
  <2>8. Flags'
    BY <2>6, <1>1, Zenon DEF Flags
  <2>9. UnitTyped' /\ PidsTyped' /\ RestTyped'
    BY <2>5, <2>6, <2>7, <1>1 DEF UnitTyped, PidsTyped, RestTyped
  <2> QED BY <2>3, <2>5, <2>6, <2>8, <2>9, <1>1 DEF HostTyped
<1> QED BY <1>6, <1>7, <1>8, <1>9, <1>10


\* The next step of a command, and its end.
LEMMA GoTyped ==
  ASSUME cmd \in CmdType
  PROVE  /\ \A step \in CmdSteps : H!Go(step) => cmd' \in CmdType /\ cmd'.step = step /\ cmd'.verb = cmd.verb
                                                 /\ cmd'.busy = cmd.busy
         /\ H!Fail => cmd' \in CmdType /\ cmd'.step = "none" /\ cmd'.busy = {}
<1>1. \A step \in CmdSteps : H!Go(step) => cmd' \in CmdType /\ cmd'.step = step /\ cmd'.verb = cmd.verb
                                           /\ cmd'.busy = cmd.busy
  <2> TAKE step \in CmdSteps
  <2> HAVE H!Go(step)
  <2>1. cmd' = [cmd EXCEPT !.step = step, !.token = None]
    BY DEF H!Go
  <2> QED BY <2>1 DEF CmdType
<1>2. H!Fail => cmd' \in CmdType /\ cmd'.step = "none" /\ cmd'.busy = {}
  BY DEF H!Fail, H!NoCmd, CmdType, CmdSteps
<1> QED BY <1>1, <1>2

\* What is typed, and where it starts.
LEMMA TypeIs ==
  ASSUME NEW c \in H!Typed, H!Type(c)
  PROVE  /\ cmd' \in CmdType /\ cmd'.busy = {} /\ cmd'.verb = c.verb
         /\ cmd'.step \in {"enrol", "guard", "reload", "halt"}
         /\ cmd'.step = "halt" => cmd'.verb = "uninstall"
<1>1. c.verb \in {"start", "restart", "stop", "install", "uninstall", "update"}
      /\ c.token \in H!Tokens \cup {None} /\ c.force \in BOOLEAN
  BY DEF H!Typed
<1>2. /\ H!FirstStep(c.verb) \in {"enrol", "guard", "reload", "halt"}
      /\ H!FirstStep(c.verb) = "halt" => c.verb = "uninstall"
  BY <1>1 DEF H!FirstStep
<1>3. cmd' = [verb |-> c.verb, step |-> H!FirstStep(c.verb), token |-> c.token, force |-> c.force,
              busy |-> {}]
  BY DEF H!Type
<1> HIDE DEF H!FirstStep
<1> QED BY <1>1, <1>2, <1>3 DEF CmdType, CmdSteps

\* A command's steps.
LEMMA CommandTyped == ASSUME HostTyped, H!Command PROVE HostTyped'
<1>1. /\ ProcTyped /\ PidsTyped /\ RestTyped /\ UnitTyped /\ Flags
      /\ disk \in DiskType /\ cmd \in CmdType
  BY DEF HostTyped
<1>2. H!Killed \in [HostPids -> ProcType]
  BY <1>1, KilledIs
<1>3. \A x \in DiskType, t \in H!Tokens \cup {None} : [x EXCEPT !.token = t] \in DiskType
  BY DEF DiskType
<1>4. hEvents \in 0..MaxHostEvents /\ MaxHostEvents \in Nat
  BY <1>1, RestartsAssumption DEF RestTyped, H!HostAssumption
<1>5. cmd' \in CmdType
  <2>1. CASE \E c \in H!Typed : H!Type(c)
    BY <2>1, TypeIs
  <2>2. CASE H!EnrolToDisk
    <3>1. H!Go("ensure") \/ H!Go("guard") \/ H!Fail
      BY <2>2 DEF H!EnrolToDisk
    <3> QED BY <3>1, <1>1, GoTyped DEF CmdSteps
  <2>3. CASE H!GuardBusy
    <3>1. \A busy \in SUBSET HostPids, step \in CmdSteps :
            [cmd EXCEPT !.step = step, !.force = FALSE, !.busy = busy] \in CmdType
      BY <1>1 DEF CmdType
    <3>2. \/ H!Fail
          \/ cmd' = [cmd EXCEPT !.step = IF cmd.verb = "stop" THEN "halt" ELSE "kick", !.force = FALSE,
                                !.busy = {p \in HostPids \ victims : hProc[p].job /\ ~cmd.force}]
      BY <2>3 DEF H!GuardBusy
    <3> QED BY <3>1, <3>2, <1>1, GoTyped DEF CmdSteps
  <2>4. CASE H!Kickstart
    <3>1. H!Go("running") \/ H!Go("unload") \/ H!Go("load")
      BY <2>4 DEF H!Kickstart
    <3> QED BY <3>1, <1>1, GoTyped DEF CmdSteps
  <2>5. CASE H!RestartStop \/ H!Reload
    BY <2>5, <1>1, GoTyped DEF H!RestartStop, H!Reload, CmdSteps
  <2>6. CASE H!EnsureRunning \/ H!Load
    <3>1. H!Fail \/ H!Go("running") \/ H!Go("mistaken") \/ H!Go("reload")
      BY <2>6 DEF H!EnsureRunning, H!Load
    <3> QED BY <3>1, <1>1, GoTyped DEF CmdSteps
  <2>7. CASE H!Halt
    <3>1. H!Go("remove") \/ H!Go("foreign") \/ H!Go("stopped")
      BY <2>7 DEF H!Halt
    <3> QED BY <3>1, <1>1, GoTyped DEF CmdSteps
  <2>8. CASE H!Remove \/ H!Conclude \/ H!Interrupt
    BY <2>8, <1>1, GoTyped DEF H!Remove, H!Conclude, H!Interrupt
  <2> QED BY <2>1, <2>2, <2>3, <2>4, <2>5, <2>6, <2>7, <2>8 DEF H!Command
<1>6. disk' \in DiskType
  <2>1. CASE H!EnrolToDisk
    <3>1. disk' = disk \/ disk' = [disk EXCEPT !.token = cmd.token]
      BY <2>1 DEF H!EnrolToDisk, H!Persist
    <3>2. cmd.token \in H!Tokens \cup {None}
      BY <1>1 DEF CmdType
    <3> QED BY <3>1, <3>2, <1>1, <1>3
  <2>2. CASE H!Conclude
    <3>1. disk' = disk \/ disk' = [disk EXCEPT !.desired = "running"] \/ disk' = [disk EXCEPT !.desired = "stopped"]
      BY <2>2 DEF H!Conclude
    <3> QED BY <3>1, <1>1 DEF DiskType
  <2>3. CASE disk' = disk
    BY <2>3, <1>1
  <2> QED BY <2>1, <2>2, <2>3 DEF H!Command, H!Type, H!GuardBusy, H!Kickstart, H!RestartStop, H!EnsureRunning,
                                 H!Reload, H!Load, H!Halt, H!Remove, H!Interrupt, H!files
<1>7. /\ hProc' = hProc \/ hProc' = H!Killed
      /\ UNCHANGED <<manager, lock, hLedger, good, rivals, victims>>
      /\ unit' \in {"none", "older", "ours"}
      /\ hEvents' = hEvents \/ H!Event
  <2>1. CASE \E c \in H!Typed : H!Type(c)
    BY <2>1, <1>1 DEF H!Type, H!host, H!files, UnitTyped
  <2>2. CASE H!EnrolToDisk \/ H!GuardBusy
    BY <2>2, <1>1 DEF H!EnrolToDisk, H!GuardBusy, H!host, H!files, H!past, UnitTyped
  <2>3. CASE H!Kickstart
    BY <2>3, <1>1 DEF H!Kickstart, H!Kick, H!host, H!files, H!past, UnitTyped
  <2>4. CASE H!RestartStop \/ H!Reload \/ H!Halt
    BY <2>4, <1>1 DEF H!RestartStop, H!Reload, H!Halt, H!host, H!files, H!past, UnitTyped
  <2>5. CASE H!EnsureRunning \/ H!Load \/ H!Remove
    BY <2>5, <1>1 DEF H!EnsureRunning, H!Load, H!Remove, H!host, H!files, H!past, UnitTyped
  <2>6. CASE H!Conclude \/ H!Interrupt
    BY <2>6, <1>1 DEF H!Conclude, H!Interrupt, H!host, H!files, UnitTyped
  <2> QED BY <2>1, <2>2, <2>3, <2>4, <2>5, <2>6 DEF H!Command
<1>8. asked' \in {"nothing", "run", "idle", "foreign"}
  <2>1. CASE \E c \in H!Typed : H!Type(c)
    BY <2>1 DEF H!Type
  <2>2. CASE H!Conclude
    BY <2>2 DEF H!Conclude
  <2>3. CASE asked' = asked
    BY <2>3, <1>1 DEF RestTyped
  <2> QED BY <2>1, <2>2, <2>3 DEF H!Command, H!EnrolToDisk, H!GuardBusy, H!Kickstart, H!RestartStop,
                 H!EnsureRunning, H!Reload, H!Load, H!Halt, H!Remove, H!Interrupt, H!past
<1>9. Flags'
  <2>1. loaded' = loaded \/ loaded' = TRUE \/ loaded' = FALSE
    BY DEF H!Command, H!Type, H!EnrolToDisk, H!GuardBusy, H!Kickstart, H!Kick, H!RestartStop, H!EnsureRunning,
           H!Reload, H!Load, H!Halt, H!Remove, H!Conclude, H!Interrupt, H!host
  <2>2. disabled' = disabled \/ disabled' = TRUE \/ disabled' = FALSE
    BY DEF H!Command, H!Type, H!EnrolToDisk, H!GuardBusy, H!Kickstart, H!Kick, H!RestartStop, H!EnsureRunning,
           H!Reload, H!Load, H!Halt, H!Remove, H!Conclude, H!Interrupt, H!host
  <2>3. ran' = ran \/ ran' = FALSE
    BY DEF H!Command, H!Type, H!EnrolToDisk, H!GuardBusy, H!Kickstart, H!Kick, H!RestartStop, H!EnsureRunning,
           H!Reload, H!Load, H!Halt, H!Remove, H!Conclude, H!Interrupt, H!past
  <2> QED BY <2>1, <2>2, <2>3, <1>1, Zenon DEF Flags
<1>10. hEvents' \in 0..MaxHostEvents
  BY <1>4, <1>7 DEF H!Event
<1>11. ProcTyped' /\ PidsTyped' /\ RestTyped' /\ UnitTyped'
  BY <1>1, <1>2, <1>7, <1>8, <1>10 DEF ProcTyped, PidsTyped, RestTyped, UnitTyped
<1> QED BY <1>5, <1>6, <1>9, <1>11 DEF HostTyped

\* The restart that ends an upgrade, the reboot and the revocation.
LEMMA RestTypedStep ==
  ASSUME HostTyped, H!Reboot \/ H!Revoke \/ \E p \in HostPids : H!RestartSelf(p) PROVE HostTyped'
<1>1. /\ ProcTyped /\ PidsTyped /\ RestTyped /\ UnitTyped /\ Flags
      /\ disk \in DiskType /\ cmd \in CmdType
  BY DEF HostTyped
<1>2. hEvents \in 0..MaxHostEvents /\ MaxHostEvents \in Nat
  BY <1>1, RestartsAssumption DEF RestTyped, H!HostAssumption
<1>3. CASE H!Reboot
  <2>1. ProcTyped'
    BY <1>3 DEF H!Reboot, H!NoProc, ProcTyped, ProcType
  <2>2. hEvents' \in 0..MaxHostEvents
    BY <1>2, <1>3 DEF H!Reboot, H!Event
  <2>3. cmd' \in CmdType
    BY <1>3 DEF H!Reboot, H!NoCmd, CmdType, CmdSteps
  <2>4. UnitTyped' /\ PidsTyped' /\ RestTyped' /\ disk' = disk
    BY <1>1, <1>3, <2>2 DEF H!Reboot, H!files, UnitTyped, PidsTyped, RestTyped
  <2>5. loaded' \in BOOLEAN /\ disabled' = disabled /\ ran' = FALSE
    BY <1>3, Zenon DEF H!Reboot
  <2>6. Flags'
    BY <2>5, <1>1, Zenon DEF Flags
  <2> QED BY <2>1, <2>3, <2>4, <2>6, <1>1 DEF HostTyped
<1>4. CASE H!Revoke
  <2>1. good' \subseteq H!Tokens
    BY <1>4 DEF H!Revoke, H!Tokens
  <2>2. /\ UNCHANGED <<manager, unit, hProc, lock, disk, hLedger, cmd, asked, rivals, victims, hEvents>>
        /\ UNCHANGED <<loaded, disabled, ran>>
    BY <1>4 DEF H!Revoke, H!host, H!files, H!past
  <2>3. Flags'
    BY <2>2, <1>1, Zenon DEF Flags
  <2> QED BY <2>1, <2>2, <2>3, <1>1 DEF HostTyped, ProcTyped, PidsTyped, RestTyped, UnitTyped
<1>5. CASE \E p \in HostPids : H!RestartSelf(p)
  <2>1. PICK p \in HostPids : H!RestartSelf(p)
    BY <1>5
  <2>2. /\ UNCHANGED <<lock, disk, hLedger, good, cmd, rivals, victims, hEvents>>
        /\ asked' = asked \/ asked' = "nothing"
    BY <2>1 DEF H!RestartSelf, H!files
  <2>3. ran' \in BOOLEAN
    BY <2>1, Zenon DEF H!RestartSelf
  <2>4. \A x \in ProcType : [x EXCEPT !.upg = "none"] \in ProcType
    BY DEF ProcType
  <2>5. H!Killed \in [HostPids -> ProcType]
    BY <1>1, KilledIs
  <2>6. \/ hProc' = [hProc EXCEPT ![p].upg = "none"] \/ hProc' = H!Killed
        \/ hProc' = [H!Killed EXCEPT ![p].upg = "none"]
    BY <2>1 DEF H!RestartSelf, H!GiveUp, H!Kick, H!UpgradeFallsBack
  <2>7. ProcTyped'
    <3>1. hProc[p] \in ProcType /\ H!Killed[p] \in ProcType
      BY <2>5, <1>1, FieldsTyped
    <3> QED BY <3>1, <2>4, <2>5, <2>6, <1>1 DEF ProcTyped
  <2>8. /\ manager' = manager /\ unit' \in {"none", "older", "ours"}
    BY <2>1, <1>1 DEF H!RestartSelf, H!GiveUp, H!Kick, H!UpgradeFallsBack, H!host, UnitTyped
  <2>9. loaded' \in BOOLEAN /\ disabled' \in BOOLEAN
    <3>1. CASE UNCHANGED <<loaded, disabled>>
      BY <3>1, <1>1, Zenon DEF Flags
    <3>2. CASE H!Kick(TRUE)
      BY <3>2, <1>1, Zenon DEF H!Kick, Flags
    <3>3. CASE \E ok \in BOOLEAN : loaded' = ok /\ disabled' = (disabled /\ ~ok)
      BY <3>3, Zenon
    <3>4. PICK live \in H!Seen :
            (H!GiveUp(p) /\ UNCHANGED H!host) \/ H!Kick(TRUE) \/ H!UpgradeFallsBack(p)
      BY <2>1 DEF H!RestartSelf
    <3>5. CASE H!UpgradeFallsBack(p)
      <4>1. (H!GiveUp(p) /\ UNCHANGED H!host) \/ \E ok \in BOOLEAN : loaded' = ok /\ disabled' = (disabled /\ ~ok)
        BY <3>5, Zenon DEF H!UpgradeFallsBack
      <4> QED BY <4>1, <3>1, <3>3, Zenon DEF H!host
    <3> QED BY <3>1, <3>2, <3>4, <3>5, Zenon DEF H!host
  <2>10. Flags'
    BY <2>3, <2>9, Zenon DEF Flags
  <2> QED BY <2>2, <2>7, <2>8, <2>10, <1>1 DEF HostTyped, PidsTyped, RestTyped, UnitTyped
<1> QED BY <1>3, <1>4, <1>5

\* Every step keeps the types.
LEMMA TypedStep == ASSUME HostTyped, [H!Next]_hVars PROVE HostTyped'
<1>1. CASE UNCHANGED hVars
  <2>1. UNCHANGED <<loaded, disabled, ran>>
    BY <1>1 DEF hVars
  <2>2. Flags'
    BY <2>1, Zenon DEF HostTyped, Flags
  <2> QED BY <1>1, <2>2 DEF hVars, HostTyped, ProcTyped, PidsTyped, RestTyped, UnitTyped
<1>2. CASE H!Worker
  <2>1. PICK p \in HostPids :
          \/ H!Spawn(p) \/ H!WriteLock(p) \/ H!Welcome(p) \/ H!Reject(p) \/ H!Poll(p)
          \/ H!Drop(p) \/ H!BeginJob(p) \/ H!EndJob(p) \/ H!Gone(p)
          \/ \E token \in H!Tokens \cup {None} : H!Foreground(p, token)
          \/ \E released \in BOOLEAN : H!Die(p, released)
    BY <1>2 DEF H!Worker
  <2> QED BY <2>1, WorkerTyped DEF WorkerMoves
<1>3. CASE H!Command
  BY <1>3, CommandTyped
<1>4. CASE H!Upgrade
  <2>1. PICK p \in HostPids : H!PlanUpgrade(p) \/ H!Install(p) \/ H!RestartSelf(p)
    BY <1>4 DEF H!Upgrade
  <2> QED BY <2>1, WorkerTyped, RestTypedStep DEF WorkerMoves
<1>5. CASE H!Reboot \/ H!Revoke
  BY <1>5, RestTypedStep
<1> QED BY <1>1, <1>2, <1>3, <1>4, <1>5 DEF H!Next


\* The model's types.
LEMMA HostTypeOK == ASSUME HostTyped, ProcInv PROVE H!TypeOK
<1>1. /\ ProcTyped /\ PidsTyped /\ RestTyped /\ UnitTyped /\ Flags
      /\ disk \in DiskType /\ cmd \in CmdType
  BY DEF HostTyped
<1>2. H!Cardinality(H!Service) <= 1
  <2>1. H!Service = {} \/ \E p \in HostPids : H!Service = {p}
    BY DEF ProcInv, Kinds, H!Service
  <2>2. Cardinality({}) = 0 /\ \A p : Cardinality({p}) = 1
    BY FS_EmptySet, FS_Singleton
  <2>3. Cardinality(H!Service) = 0 \/ Cardinality(H!Service) = 1
    BY <2>1, <2>2
  <2>4. H!Cardinality(H!Service) = Cardinality(H!Service)
    BY DEF Cardinality, H!Cardinality
  <2> QED BY <2>3, <2>4
<1>3. \A p \in HostPids : /\ (hProc[p].kind = "none" <=> ~H!Alive(p))
                          /\ (hProc[p].job => p \in hLedger \cup victims)
  BY DEF ProcInv, Kinds, Holds, H!Alive
<1>4. cmd \in [verb : {"none", "start", "restart", "stop", "install", "uninstall", "update"},
               step : {"none", "enrol", "guard", "ensure", "kick", "unload", "reload", "load",
                       "halt", "remove", "running", "mistaken", "stopped", "foreign"},
               token : H!Tokens \cup {None}, force : BOOLEAN, busy : SUBSET HostPids]
  BY <1>1, Zenon DEF CmdType, CmdSteps
<1>5. hProc \in [HostPids -> [kind : {"none", "service", "terminal"},
                              phase : {"gone", "locking", "dial", "up", "parked", "dying"},
                              token : H!Tokens \cup {None}, job : BOOLEAN,
                              upg : {"none", "accepted", "installed"}]]
  BY <1>1, Zenon DEF ProcTyped, ProcType
<1>6. disk \in [token : H!Tokens \cup {None}, desired : {"none", "running", "stopped"}]
  BY <1>1, Zenon DEF DiskType
<1>7. loaded \in BOOLEAN /\ disabled \in BOOLEAN /\ ran \in BOOLEAN
  BY <1>1, Zenon DEF Flags
<1>8. rivals \subseteq {s \in SUBSET HostPids : H!Cardinality(s) = 2}
  BY <1>1, Zenon DEF PidsTyped, Pairs
<1>9. /\ manager \in {"launchd", "systemd"} /\ unit \in {"none", "older", "ours"}
      /\ lock \in HostPids \cup {None} /\ hLedger \subseteq HostPids /\ victims \subseteq HostPids
      /\ good \subseteq H!Tokens /\ hEvents \in 0..MaxHostEvents
      /\ asked \in {"nothing", "run", "idle", "foreign"}
  BY <1>1 DEF UnitTyped, PidsTyped, RestTyped
<1> QED BY <1>2, <1>3, <1>4, <1>5, <1>6, <1>7, <1>8, <1>9, Zenon DEF H!TypeOK

-----------------------------------------------------------------------------
(* What the commands said. *)

\* The last command's word is remembered until the next command.
Quiet == asked # "nothing" => cmd.step = "none"

\* Once a stop has said that nothing runs, or is about to, nothing works; and once a start
\* has said that the service is up, or is about to, the supervisor has it loaded.
IdleWord == asked = "idle" \/ (cmd.step = "stopped" /\ ~ran) => \A p \in HostPids : H!Working(p) => p \in victims
RunWord  == asked = "run" \/ (cmd.step = "running" /\ ~ran) => loaded

\* After a stop the operator wants the node down; only stop and uninstall take it down so.
Wanted == asked \in {"idle", "foreign"} => disk.desired = "stopped"
Verbs  == cmd.step \in {"halt", "stopped", "foreign"} => cmd.verb \in {"stop", "uninstall"}

\* The busy processes that a command has found and goes on beside: they live, and are not
\* the one that it will kill.
Beside == \A p \in cmd.busy : p \in HostPids /\ H!Alive(p) /\ ~Serving(p)

WordsInv == Quiet /\ IdleWord /\ RunWord /\ Wanted /\ Verbs /\ Beside

\* WordsInv holds at the start.
LEMMA WordsInit == H!Init => WordsInv
BY DEF H!Init, H!NoCmd, H!NoProc, WordsInv, Quiet, IdleWord, RunWord, Wanted, Verbs, Beside, H!Working

\* A step that says nothing keeps it, if nobody begins to work and nobody beside is lost.
LEMMA SilenceKeeps ==
  ASSUME WordsInv, cmd'.step = cmd.step, cmd'.verb = cmd.verb, asked' = asked, ran' = ran, loaded' = loaded,
         disk'.desired = disk.desired,
         \A p \in HostPids : H!Working(p)' => H!Working(p) /\ (p \in victims => p \in victims'),
         \A p \in cmd'.busy : p \in cmd.busy /\ H!Alive(p)' /\ ~Serving(p)'
  PROVE  WordsInv'
<1>1. Quiet' /\ Wanted' /\ Verbs'
  BY DEF WordsInv, Quiet, Wanted, Verbs
<1>2. IdleWord'
  BY DEF WordsInv, IdleWord
<1>3. RunWord'
  BY DEF WordsInv, RunWord
<1>4. Beside'
  BY DEF WordsInv, Beside
<1> QED BY <1>1, <1>2, <1>3, <1>4 DEF WordsInv

\* Nobody begins to live, to serve or to work in Moves.
LEMMA MovesAre ==
  ASSUME Moves
  PROVE  /\ \A p \in HostPids : /\ H!Working(p)' => H!Working(p)
                                /\ H!Alive(p)' <=> H!Alive(p)
                                /\ Serving(p)' => Serving(p)
         /\ victims' = victims
BY DEF Moves, H!Working, H!Alive, H!Running, Serving

\* A command that is not told to go on keeps its step.
LEMMA BusyOnly ==
  ASSUME cmd \in CmdType, NEW p, cmd' = [cmd EXCEPT !.busy = @ \ {p}]
  PROVE  cmd'.step = cmd.step /\ cmd'.verb = cmd.verb /\ cmd'.busy = cmd.busy \ {p}
BY DEF CmdType

\* The steps of a worker.
LEMMA WorkerWords ==
  ASSUME WordsInv, ProcInv, HostTyped, NEW p \in HostPids,
         \/ H!Spawn(p) \/ H!WriteLock(p) \/ H!BeginJob(p) \/ H!EndJob(p) \/ H!Gone(p)
         \/ WorkerMoves(p)
         \/ \E token \in H!Tokens \cup {None} : H!Foreground(p, token)
         \/ \E released \in BOOLEAN : H!Die(p, released)
  PROVE  WordsInv'
<1>1. ProcTyped /\ disk \in DiskType /\ cmd \in CmdType
  BY DEF HostTyped
<1>2. CASE H!Spawn(p) \/ \E token \in H!Tokens \cup {None} : H!Foreground(p, token)
  <2>1. PICK kind \in {"service", "terminal"}, token \in H!Tokens \cup {None} : H!Begin(p, kind, token)
    BY <1>2 DEF H!Spawn, H!Foreground, H!Tokens
  <2>2. /\ hProc[p].phase = "gone" /\ hProc'[p].phase = "locking"
        /\ \A q \in HostPids : q # p => hProc'[q] = hProc[q]
    BY <1>1, <2>1, BeginIs
  <2>3. UNCHANGED <<cmd, asked, ran, loaded, disk, victims>>
    BY <2>1 DEF H!Begin, H!host, H!files
  <2>4. \A q \in HostPids : H!Working(q)' => H!Working(q)
    BY <2>2 DEF H!Working
  <2>5. \A q \in cmd.busy : H!Alive(q)' /\ ~Serving(q)'
    <3>1. \A q \in cmd.busy : q \in HostPids /\ q # p /\ H!Alive(q) /\ ~Serving(q)
      BY <2>2 DEF WordsInv, Beside, H!Alive
    <3> QED BY <2>2, <3>1 DEF H!Alive, Serving, H!Running
  <2> QED BY <2>3, <2>4, <2>5, SilenceKeeps
<1>3. CASE H!WriteLock(p)
  <2>1. /\ \A q \in HostPids : q # p => hProc'[q] = hProc[q]
        /\ hProc'[p].kind = hProc[p].kind /\ hProc[p].phase = "locking" /\ hProc'[p].phase = "dial"
    BY <1>1, <1>3, FieldsTyped DEF H!WriteLock, ProcTyped, ProcType
  <2>2. /\ cmd' = cmd /\ loaded' = loaded
        /\ cmd.step \in {"stopped", "foreign"} => ran'
        /\ ran => ran'
        /\ asked' = (IF asked \in {"idle", "foreign"} THEN "nothing" ELSE asked)
    BY <1>3, Zenon DEF H!WriteLock, H!host
  <2>3. Quiet' /\ Wanted' /\ Verbs'
    BY <2>2 DEF WordsInv, Quiet, Wanted, Verbs
  <2>4. IdleWord'
    BY <2>2 DEF WordsInv, IdleWord
  <2>5. RunWord'
    BY <2>2 DEF WordsInv, RunWord
  <2>6. Beside'
    BY <2>1, <2>2 DEF WordsInv, Beside, H!Alive, Serving, H!Running
  <2> QED BY <2>3, <2>4, <2>5, <2>6 DEF WordsInv
<1>4. CASE WorkerMoves(p)
  <2>1. Moves /\ UNCHANGED loaded
    BY <1>1, <1>4, WorkerMovesAre
  <2>2. UNCHANGED <<cmd, asked, ran>>
    BY <1>4 DEF WorkerMoves, H!Welcome, H!Reject, H!Poll, H!Drop, H!PlanUpgrade, H!Install, H!past
  <2>3. disk'.desired = disk.desired
    BY <1>1, <1>4 DEF WorkerMoves, H!Welcome, H!Persist, H!Reject, H!Poll, H!Drop, H!PlanUpgrade, H!Install,
                      H!files, DiskType
  <2>4. \A q \in HostPids : H!Working(q)' => H!Working(q) /\ (q \in victims => q \in victims')
    BY <2>1, MovesAre
  <2>5. \A q \in cmd'.busy : q \in cmd.busy /\ H!Alive(q)' /\ ~Serving(q)'
    BY <2>1, <2>2, MovesAre DEF WordsInv, Beside
  <2> QED BY <2>1, <2>2, <2>3, <2>4, <2>5, SilenceKeeps
<1>5. CASE H!BeginJob(p) \/ H!EndJob(p)
  <2>1. /\ \A q \in HostPids : hProc'[q].kind = hProc[q].kind /\ hProc'[q].phase = hProc[q].phase
        /\ UNCHANGED <<asked, ran, loaded, disk, victims>>
        /\ cmd' = cmd \/ cmd' = [cmd EXCEPT !.busy = @ \ {p}]
    BY <1>1, <1>5, FieldsTyped DEF H!BeginJob, H!EndJob, H!host, H!past, ProcTyped, ProcType
  <2>2. cmd'.step = cmd.step /\ cmd'.verb = cmd.verb /\ cmd'.busy \subseteq cmd.busy
    BY <1>1, <2>1, BusyOnly
  <2>3. \A q \in HostPids : H!Working(q)' => H!Working(q)
    BY <2>1 DEF H!Working
  <2>4. \A q \in cmd'.busy : q \in cmd.busy /\ H!Alive(q)' /\ ~Serving(q)'
    BY <2>1, <2>2 DEF WordsInv, Beside, H!Alive, Serving, H!Running
  <2> QED BY <2>1, <2>2, <2>3, <2>4, SilenceKeeps
<1>6. CASE H!Gone(p) \/ \E released \in BOOLEAN : H!Die(p, released)
  <2>1. /\ hProc' = [hProc EXCEPT ![p] = H!NoProc] /\ H!Forget(p)
        /\ UNCHANGED <<asked, ran, loaded, disk>>
    BY <1>6 DEF H!Gone, H!Die, H!host, H!files
  <2>2. /\ \A q \in HostPids : q # p => hProc'[q] = hProc[q]
        /\ hProc'[p].phase = "gone"
    BY <1>1, <2>1 DEF H!NoProc, ProcTyped
  <2>3. cmd' = [cmd EXCEPT !.busy = @ \ {p}] /\ victims' = victims \ {p}
    BY <2>1 DEF H!Forget
  <2>4. cmd'.step = cmd.step /\ cmd'.verb = cmd.verb /\ cmd'.busy = cmd.busy \ {p}
    BY <1>1, <2>3, BusyOnly
  <2>5. \A q \in HostPids : H!Working(q)' => H!Working(q) /\ (q \in victims => q \in victims')
    BY <2>2, <2>3 DEF H!Working
  <2>6. \A q \in cmd'.busy : q \in cmd.busy /\ H!Alive(q)' /\ ~Serving(q)'
    BY <2>2, <2>4 DEF WordsInv, Beside, H!Alive, Serving, H!Running
  <2> QED BY <2>1, <2>4, <2>5, <2>6, SilenceKeeps
<1> QED BY <1>2, <1>3, <1>4, <1>5, <1>6


\* What guardBusy leaves beside the command: not the service's process, whose jobs it has
\* looked for, if there is one.
LEMMA GuardIs ==
  ASSUME ProcInv, HostTyped, H!GuardBusy
  PROVE  \/ H!Fail
         \/ /\ cmd'.step = (IF cmd.verb = "stop" THEN "halt" ELSE "kick") /\ cmd'.verb = cmd.verb
            /\ \A p \in cmd'.busy : p \in HostPids /\ H!Alive(p) /\ ~Serving(p)
<1>1. PICK live \in H!Seen :
        IF H!Guarded(cmd.force, live) THEN H!Fail
        ELSE cmd' = [cmd EXCEPT !.step = IF cmd.verb = "stop" THEN "halt" ELSE "kick", !.force = FALSE,
                                !.busy = {p \in HostPids \ victims : hProc[p].job /\ ~cmd.force}]
  BY DEF H!GuardBusy
<1>2. CASE H!Guarded(cmd.force, live)
  BY <1>1, <1>2
<1>3. CASE ~H!Guarded(cmd.force, live)
  <2> DEFINE busy == {p \in HostPids \ victims : hProc[p].job /\ ~cmd.force}
             step == IF cmd.verb = "stop" THEN "halt" ELSE "kick"
  <2>1. cmd' = [cmd EXCEPT !.step = step, !.force = FALSE, !.busy = busy]
    BY <1>1, <1>3
  <2>2. cmd'.step = step /\ cmd'.verb = cmd.verb /\ cmd'.busy = busy
    <3> HIDE DEF busy, step
    <3> QED BY <2>1 DEF HostTyped, CmdType
  <2>3. \A p \in busy : p \in HostPids /\ H!Alive(p) /\ ~Serving(p)
    <3> SUFFICES ASSUME NEW p \in busy PROVE p \in HostPids /\ H!Alive(p) /\ ~Serving(p)
      OBVIOUS
    <3>1. p \in HostPids /\ p \notin victims /\ hProc[p].job /\ ~cmd.force
      OBVIOUS
    <3>2. H!Alive(p) /\ p \in hLedger /\ lock = p
      BY <3>1 DEF ProcInv, Holds, H!Alive
    <3>3. live # p
      BY <1>3, <3>1, <3>2, Zenon DEF H!Guarded, H!Busy
    <3>4. unit = "none" => live = p
      <4>1. lock # None
        BY <3>1, <3>2, RestartsAssumption DEF H!HostAssumption
      <4>2. H!Holder = p
        BY <4>1, <3>2 DEF H!Holder
      <4> QED BY <4>2, <1>1 DEF H!Seen
    <3>5. ~Serving(p)
      BY <3>1, <3>3, <3>4, <1>1, ServingIsSeen
    <3> QED BY <3>1, <3>2, <3>5
  <2> QED BY <2>2, <2>3
<1> QED BY <1>2, <1>3

\* A command that is at none of its steps cannot be in the middle of one.
LEMMA AtStep == ASSUME WordsInv, cmd.step # "none" PROVE asked = "nothing"
BY DEF WordsInv, Quiet

\* Busy processes that stay in cmd.busy stay beside.
LEMMA BesideStays ==
  ASSUME WordsInv, Moves, cmd'.busy \subseteq cmd.busy PROVE Beside'
BY MovesAre DEF WordsInv, Beside

\* Where a command stands after a step, when it has not said anything yet.
LEMMA OnTheWay ==
  ASSUME Moves, Beside', asked' = "nothing",
         cmd'.step \in CmdSteps \ {"halt", "running", "stopped", "foreign"}
  PROVE  WordsInv'
BY DEF WordsInv, Quiet, IdleWord, RunWord, Wanted, Verbs

\* A command that fails, or has said its word.
LEMMA NoMore ==
  ASSUME WordsInv, Moves, cmd'.step = "none", cmd'.busy = {}, asked' = asked, disk'.desired = disk.desired,
         loaded => loaded'
  PROVE  WordsInv'
<1>1. IdleWord'
  BY MovesAre DEF WordsInv, IdleWord
<1> QED BY <1>1 DEF WordsInv, Quiet, RunWord, Wanted, Verbs, Beside

\* What a command says.
LEMMA ConcludeWords == ASSUME WordsInv, HostTyped, H!Conclude PROVE WordsInv'
<1>1. /\ disk \in DiskType /\ cmd \in CmdType
  BY DEF HostTyped
<1>2. /\ cmd'.step = "none" /\ cmd'.busy = {} /\ UNCHANGED <<hProc, loaded, victims>>
      /\ cmd.step \in {"running", "mistaken", "stopped", "foreign"}
      /\ asked' = (IF ran THEN "nothing"
                   ELSE CASE cmd.step = "running" -> "run"  [] cmd.step = "mistaken" -> "nothing"
                          [] cmd.step = "stopped" -> "idle" [] cmd.step = "foreign"  -> "foreign")
  BY <1>1, GoTyped DEF H!Conclude, H!host
<1>3. /\ asked' = "idle" => cmd.step = "stopped" /\ ~ran
      /\ asked' = "run" => cmd.step = "running" /\ ~ran
      /\ asked' = "foreign" => cmd.step = "foreign"
  BY <1>2
<1>4. Quiet' /\ Verbs' /\ Beside'
  BY <1>2 DEF Quiet, Verbs, Beside
<1>5. IdleWord'
  BY <1>2, <1>3 DEF WordsInv, IdleWord, H!Working
<1>6. RunWord'
  BY <1>2, <1>3 DEF WordsInv, RunWord
<1>7. Wanted'
  <2> SUFFICES ASSUME asked' \in {"idle", "foreign"} PROVE disk'.desired = "stopped"
    BY DEF Wanted
  <2>1. cmd.step \in {"stopped", "foreign"} /\ cmd.verb \in {"stop", "uninstall"}
    BY <1>3 DEF WordsInv, Verbs
  <2>2. disk' = [disk EXCEPT !.desired = "stopped"]
    BY <2>1 DEF H!Conclude
  <2> QED BY <2>2, <1>1 DEF DiskType
<1> QED BY <1>4, <1>5, <1>6, <1>7 DEF WordsInv

\* The stop of the service, and what is found of others.
LEMMA HaltWords == ASSUME WordsInv, ProcInv, HostTyped, H!Halt PROVE WordsInv'
<1>1. ProcTyped /\ cmd \in CmdType
  BY DEF HostTyped
<1>2. cmd.step = "halt" /\ asked = "nothing" /\ UNCHANGED <<lock, hLedger, asked, ran, rivals, victims>>
  BY AtStep DEF H!Halt, H!files, H!past
<1>3. cmd.verb \in {"stop", "uninstall"}
  BY <1>2 DEF WordsInv, Verbs
<1>4. /\ cmd'.step \in {"remove", "foreign", "stopped"} /\ cmd'.verb = cmd.verb /\ cmd'.busy = cmd.busy
      /\ cmd'.step = "stopped" => ~H!Foreign(IF unit = "none" THEN {} ELSE H!Service)
  BY <1>1, GoTyped DEF H!Halt, CmdSteps
<1>5. Moves
  BY CommandMoves DEF HostTyped, H!Command
<1>6. Quiet' /\ Verbs' /\ RunWord' /\ Wanted'
  BY <1>2, <1>3, <1>4 DEF Quiet, Verbs, RunWord, Wanted
<1>7. Beside'
  BY <1>4, <1>5, BesideStays
<1>8. IdleWord'
  <2> SUFFICES ASSUME cmd'.step = "stopped", NEW p \in HostPids, H!Working(p)' PROVE p \in victims'
    BY <1>2 DEF IdleWord
  <2>1. H!Working(p)
    BY <1>5, MovesAre
  <2>2. lock = p \/ p \in victims
    BY <2>1 DEF ProcInv, Holds
  <2>3. lock # p
    <3> SUFFICES ASSUME lock = p PROVE FALSE
      OBVIOUS
    <3>1. lock # None /\ H!Alive(lock)
      BY <2>1, RestartsAssumption DEF H!HostAssumption, H!Alive, H!Working
    <3>2. p \in H!Service /\ unit # "none"
      BY <1>4, <3>1 DEF H!Foreign
    <3>3. hProc' = H!Killed
      BY <3>2 DEF H!Halt
    <3>4. hProc'[p].phase = "dying"
      BY <3>2, <3>3, <2>1, <1>1, KilledIs DEF H!Service, Serving, H!Running, H!Alive, H!Working
    <3> QED BY <3>4 DEF H!Working
  <2> QED BY <1>2, <2>2, <2>3
<1> QED BY <1>6, <1>7, <1>8 DEF WordsInv

\* The steps of a command.
LEMMA CommandWords == ASSUME WordsInv, ProcInv, HostTyped, H!Command PROVE WordsInv'
<1>1. ProcTyped /\ disk \in DiskType /\ cmd \in CmdType
  BY DEF HostTyped
<1>2. Moves
  BY <1>1, CommandMoves
<1>3. CASE \E c \in H!Typed : H!Type(c)
  <2>1. /\ cmd'.busy = {} /\ cmd'.step \in {"enrol", "guard", "reload", "halt"}
        /\ cmd'.step = "halt" => cmd'.verb = "uninstall"
    BY <1>3, TypeIs
  <2>2. asked' = "nothing"
    BY <1>3 DEF H!Type
  <2> QED BY <2>1, <2>2 DEF WordsInv, Quiet, IdleWord, RunWord, Wanted, Verbs, Beside
<1>4. CASE H!EnrolToDisk
  <2>1. asked' = asked /\ cmd.step = "enrol"
    BY <1>4 DEF H!EnrolToDisk, H!past
  <2>2. asked' = "nothing"
    BY <2>1, AtStep
  <2>3. H!Go("ensure") \/ H!Go("guard") \/ H!Fail
    BY <1>4 DEF H!EnrolToDisk
  <2>4. cmd'.step \in {"ensure", "guard", "none"} /\ cmd'.busy \subseteq cmd.busy
    BY <1>1, <2>3, GoTyped DEF CmdSteps
  <2>5. Beside'
    BY <1>2, <2>4, BesideStays
  <2> QED BY <1>2, <2>2, <2>4, <2>5, OnTheWay DEF CmdSteps
<1>5. CASE H!GuardBusy
  <2>1. asked' = asked /\ cmd.step = "guard" /\ hProc' = hProc
    BY <1>5 DEF H!GuardBusy, H!past
  <2>2. asked' = "nothing"
    BY <2>1, AtStep
  <2>3. CASE H!Fail
    <3>1. cmd'.step = "none" /\ cmd'.busy = {}
      BY <1>1, <2>3, GoTyped
    <3> QED BY <1>2, <2>2, <3>1, OnTheWay DEF Beside, CmdSteps
  <2>4. CASE /\ cmd'.step = (IF cmd.verb = "stop" THEN "halt" ELSE "kick") /\ cmd'.verb = cmd.verb
             /\ \A p \in cmd'.busy : p \in HostPids /\ H!Alive(p) /\ ~Serving(p)
    <3>1. Beside'
      BY <2>1, <2>4 DEF Beside, H!Alive, Serving, H!Running
    <3> QED BY <2>2, <2>4, <3>1 DEF WordsInv, Quiet, IdleWord, RunWord, Wanted, Verbs
  <2> QED BY <1>5, <2>3, <2>4, GuardIs
<1>6. CASE H!Kickstart
  <2>1. asked' = asked /\ cmd.step = "kick"
    BY <1>6 DEF H!Kickstart, H!past
  <2>2. asked' = "nothing"
    BY <2>1, AtStep
  <2>3. \/ H!Go("running") /\ loaded' = TRUE
        \/ H!Go("unload") \/ H!Go("load")
    BY <1>6 DEF H!Kickstart, H!Kick
  <2>4. /\ cmd'.step \in {"running", "unload", "load"} /\ cmd'.busy = cmd.busy
        /\ cmd'.step = "running" => loaded'
    BY <1>1, <2>3, GoTyped DEF CmdSteps
  <2>5. Beside'
    BY <1>2, <2>4, BesideStays
  <2> QED BY <2>2, <2>4, <2>5 DEF WordsInv, Quiet, IdleWord, RunWord, Wanted, Verbs
<1>7. CASE H!RestartStop \/ H!Reload
  <2>1. asked' = asked /\ cmd.step # "none"
    BY <1>7 DEF H!RestartStop, H!Reload, H!past
  <2>2. asked' = "nothing"
    BY <2>1, AtStep
  <2>3. cmd'.step = "load" /\ cmd'.busy = cmd.busy
    BY <1>1, <1>7, GoTyped DEF H!RestartStop, H!Reload, CmdSteps
  <2>4. Beside'
    BY <1>2, <2>3, BesideStays
  <2> QED BY <1>2, <2>2, <2>3, <2>4, OnTheWay DEF CmdSteps
<1>8. CASE H!EnsureRunning
  <2>1. asked' = asked /\ cmd.step = "ensure" /\ loaded' = loaded
    BY <1>8 DEF H!EnsureRunning, H!past, H!host
  <2>2. asked' = "nothing"
    BY <2>1, AtStep
  <2>3. \/ H!Fail \/ H!Go("mistaken") \/ H!Go("reload")
        \/ H!Go("running") /\ \E p \in H!Reported : H!Running(p)
    BY <1>8 DEF H!EnsureRunning
  <2>4. (\E p \in H!Reported : H!Running(p)) => loaded
    <3>1. \A p \in H!Reported : p \in HostPids /\ hProc[p].kind = "service"
      BY DEF H!Reported, H!Service
    <3> QED BY <3>1 DEF ProcInv, Kinds, Serving
  <2>5. /\ cmd'.step \in {"none", "mistaken", "reload", "running"} /\ cmd'.busy \subseteq cmd.busy
        /\ cmd'.step = "running" => loaded'
    BY <1>1, <2>1, <2>3, <2>4, GoTyped DEF CmdSteps
  <2>6. Beside'
    BY <1>2, <2>5, BesideStays
  <2> QED BY <2>2, <2>5, <2>6 DEF WordsInv, Quiet, IdleWord, RunWord, Wanted, Verbs
<1>9. CASE H!Load
  <2>1. asked' = asked /\ cmd.step = "load"
    BY <1>9 DEF H!Load, H!past
  <2>2. asked' = "nothing"
    BY <2>1, AtStep
  <2>3. H!Fail \/ (H!Go("running") /\ loaded' = TRUE)
    BY <1>9 DEF H!Load
  <2>4. /\ cmd'.step \in {"none", "running"} /\ cmd'.busy \subseteq cmd.busy
        /\ cmd'.step = "running" => loaded'
    BY <1>1, <2>3, GoTyped DEF CmdSteps
  <2>5. Beside'
    BY <1>2, <2>4, BesideStays
  <2> QED BY <2>2, <2>4, <2>5 DEF WordsInv, Quiet, IdleWord, RunWord, Wanted, Verbs
<1>10. CASE H!Halt
  BY <1>10, HaltWords
<1>11. CASE H!Remove \/ H!Interrupt
  <2>1. /\ asked' = asked /\ disk' = disk /\ loaded' = loaded /\ H!Fail
    BY <1>11 DEF H!Remove, H!Interrupt, H!host, H!files, H!past
  <2>2. cmd'.step = "none" /\ cmd'.busy = {}
    BY <1>1, <2>1, GoTyped
  <2> QED BY <1>2, <2>1, <2>2, NoMore
<1>12. CASE H!Conclude
  BY <1>12, ConcludeWords
<1> QED BY <1>3, <1>4, <1>5, <1>6, <1>7, <1>8, <1>9, <1>10, <1>11, <1>12 DEF H!Command

\* The restart that ends an upgrade: if it leaves the service unloaded, the word of a start
\* is taken back.
LEMMA RestartSelfWords ==
  ASSUME WordsInv, ProcInv, HostTyped, NEW p \in HostPids, H!RestartSelf(p) PROVE WordsInv'
<1>1. Moves
  BY RestartSelfMoves DEF HostTyped
<1>2. UNCHANGED <<disk, cmd, victims>>
  BY DEF H!RestartSelf, H!files
<1>3. /\ asked' = (IF loaded /\ ~loaded' /\ asked = "run" THEN "nothing" ELSE asked)
      /\ ran => ran'
      /\ loaded /\ ~loaded' /\ cmd.step = "running" => ran'
  BY Zenon DEF H!RestartSelf
<1>4. Quiet' /\ Wanted' /\ Verbs'
  BY <1>2, <1>3 DEF WordsInv, Quiet, Wanted, Verbs
<1>5. Beside'
  BY <1>1, <1>2, BesideStays
<1>6. IdleWord'
  BY <1>1, <1>2, <1>3, MovesAre DEF WordsInv, IdleWord
<1>7. RunWord'
  BY <1>2, <1>3 DEF WordsInv, RunWord
<1> QED BY <1>4, <1>5, <1>6, <1>7 DEF WordsInv

\* Every step keeps WordsInv.
LEMMA WordsStep == ASSUME WordsInv, ProcInv, HostTyped, [H!Next]_hVars PROVE WordsInv'
<1>1. CASE UNCHANGED hVars
  BY <1>1, SilenceKeeps DEF hVars, WordsInv, Beside, H!Working, H!Alive, Serving, H!Running
<1>2. CASE H!Worker
  <2>1. PICK p \in HostPids :
          \/ H!Spawn(p) \/ H!WriteLock(p) \/ H!Welcome(p) \/ H!Reject(p) \/ H!Poll(p)
          \/ H!Drop(p) \/ H!BeginJob(p) \/ H!EndJob(p) \/ H!Gone(p)
          \/ \E token \in H!Tokens \cup {None} : H!Foreground(p, token)
          \/ \E released \in BOOLEAN : H!Die(p, released)
    BY <1>2 DEF H!Worker
  <2> QED BY <2>1, WorkerWords DEF WorkerMoves
<1>3. CASE H!Command
  BY <1>3, CommandWords
<1>4. CASE H!Upgrade
  <2>1. PICK p \in HostPids : H!PlanUpgrade(p) \/ H!Install(p) \/ H!RestartSelf(p)
    BY <1>4 DEF H!Upgrade
  <2> QED BY <2>1, WorkerWords, RestartSelfWords DEF WorkerMoves
<1>5. CASE H!Reboot
  <2>1. /\ \A p \in HostPids : ~H!Working(p)'
        /\ cmd'.step = "none" /\ cmd'.busy = {} /\ disk' = disk
        /\ asked' = IF asked = "run" THEN "nothing" ELSE asked
    BY <1>5 DEF H!Reboot, H!NoProc, H!NoCmd, H!Working, H!files
  <2> QED BY <2>1 DEF WordsInv, Quiet, IdleWord, RunWord, Wanted, Verbs, Beside
<1>6. CASE H!Revoke
  <2>1. UNCHANGED <<hProc, loaded, disk, cmd, asked, ran, victims>>
    BY <1>6 DEF H!Revoke, H!host, H!files, H!past
  <2> QED BY <2>1, SilenceKeeps DEF WordsInv, Beside, H!Working, H!Alive, Serving, H!Running
<1> QED BY <1>1, <1>2, <1>3, <1>4, <1>5, <1>6 DEF H!Next


-----------------------------------------------------------------------------
(* What a step does to the jobs at work. *)

\* A process that is told to die was the service's.  A command does not do it to one it has
\* found busy; the restart that ends an upgrade, to none with a job.
Spared(p) ==
  H!Running(p) /\ hProc'[p].phase = "dying" =>
    /\ p \notin cmd.busy
    /\ cmd' = cmd => /\ loaded' \/ \E q \in HostPids : hProc'[q].phase \in {"dial", "up", "parked"}
                     /\ hProc[p].job => p \in victims

\* Every step spares every process.
LEMMA AllSpared ==
  ASSUME WordsInv, ProcInv, HostTyped, [H!Next]_hVars, NEW p \in HostPids PROVE Spared(p)
<1> SUFFICES ASSUME H!Running(p), hProc'[p].phase = "dying"
             PROVE  /\ p \notin cmd.busy
                    /\ cmd' = cmd => /\ loaded' \/ \E q \in HostPids : hProc'[q].phase \in {"dial", "up", "parked"}
                                     /\ hProc[p].job => p \in victims
  BY DEF Spared
<1>1. ProcTyped /\ cmd \in CmdType
  BY DEF HostTyped
<1>2. hProc[p].phase # "dying" /\ hProc'[p] # hProc[p]
  BY DEF H!Running
<1>3. H!Command \/ \E q \in HostPids : H!RestartSelf(q)
  <2>1. ~UNCHANGED hVars /\ ~H!Revoke
    BY <1>2 DEF hVars, H!Revoke
  <2>2. ~H!Reboot
    BY <1>2 DEF H!Reboot, H!NoProc
  <2>3. ~H!Worker
    <3> SUFFICES ASSUME H!Worker PROVE FALSE
      OBVIOUS
    <3>1. PICK q \in HostPids :
            \/ H!Spawn(q) \/ H!WriteLock(q) \/ WorkerMoves(q) \/ H!BeginJob(q) \/ H!EndJob(q) \/ H!Gone(q)
            \/ \E token \in H!Tokens \cup {None} : H!Foreground(q, token)
            \/ \E released \in BOOLEAN : H!Die(q, released)
      BY DEF H!Worker, WorkerMoves
    <3>2. CASE H!Spawn(q) \/ \E token \in H!Tokens \cup {None} : H!Foreground(q, token)
      <4>1. PICK kind \in {"service", "terminal"}, token \in H!Tokens \cup {None} : H!Begin(q, kind, token)
        BY <3>2 DEF H!Spawn, H!Foreground, H!Tokens
      <4>2. hProc'[q].phase = "locking" /\ \A r \in HostPids : r # q => hProc'[r] = hProc[r]
        BY <1>1, <4>1, BeginIs
      <4> QED BY <1>2, <4>2
    <3>3. CASE H!WriteLock(q) \/ WorkerMoves(q)
      BY <1>1, <1>2, <3>3, FieldsTyped DEF H!WriteLock, WorkerMoves, H!Welcome, H!Reject, H!Poll, H!Drop,
             H!PlanUpgrade, H!Install, ProcTyped, ProcType
    <3>4. CASE H!BeginJob(q) \/ H!EndJob(q)
      BY <1>1, <1>2, <3>4, FieldsTyped DEF H!BeginJob, H!EndJob, ProcTyped, ProcType
    <3>5. CASE H!Gone(q) \/ \E released \in BOOLEAN : H!Die(q, released)
      BY <1>1, <1>2, <3>5 DEF H!Gone, H!Die, H!NoProc, ProcTyped
    <3> QED BY <3>1, <3>2, <3>3, <3>4, <3>5
  <2>4. H!Upgrade => \E q \in HostPids : H!RestartSelf(q)
    <3> SUFFICES ASSUME H!Upgrade PROVE \E q \in HostPids : H!RestartSelf(q)
      OBVIOUS
    <3>1. PICK q \in HostPids : H!PlanUpgrade(q) \/ H!Install(q) \/ H!RestartSelf(q)
      BY DEF H!Upgrade
    <3>2. ~H!PlanUpgrade(q) /\ ~H!Install(q)
      BY <1>1, <1>2, FieldsTyped DEF H!PlanUpgrade, H!Install, ProcTyped, ProcType
    <3> QED BY <3>1, <3>2
  <2> QED BY <2>1, <2>2, <2>3, <2>4 DEF H!Next
<1>4. CASE H!Command
  <2>1. Serving(p) /\ hProc' = H!Killed
    <3>1. hProc' = hProc \/ hProc' = H!Killed
      BY <1>4 DEF H!Command, H!Type, H!EnrolToDisk, H!GuardBusy, H!Kickstart, H!Kick, H!RestartStop,
             H!EnsureRunning, H!Reload, H!Load, H!Halt, H!Remove, H!Conclude, H!Interrupt
    <3> QED BY <1>1, <1>2, <3>1, KilledIs
  <2>2. p \notin cmd.busy
    BY <2>1 DEF WordsInv, Beside
  <2>3. cmd' # cmd
    <3>1. H!Kickstart \/ H!RestartStop \/ H!Reload \/ H!Halt
      BY <1>2, <1>4 DEF H!Command, H!Type, H!EnrolToDisk, H!GuardBusy, H!EnsureRunning, H!Load, H!Remove,
             H!Conclude, H!Interrupt
    <3>2. CASE H!Kickstart
      <4>1. H!Go("running") \/ H!Go("unload") \/ H!Go("load")
        BY <3>2 DEF H!Kickstart
      <4> QED BY <1>1, <3>2, <4>1, GoTyped DEF H!Kickstart, CmdSteps
    <3>3. CASE H!RestartStop \/ H!Reload
      BY <1>1, <3>3, GoTyped DEF H!RestartStop, H!Reload, CmdSteps
    <3>4. CASE H!Halt
      <4>1. H!Go("remove") \/ H!Go("foreign") \/ H!Go("stopped")
        BY <3>4 DEF H!Halt
      <4> QED BY <1>1, <3>4, <4>1, GoTyped DEF H!Halt, CmdSteps
    <3> QED BY <3>1, <3>2, <3>3, <3>4
  <2> QED BY <2>2, <2>3
<1>5. CASE \E q \in HostPids : H!RestartSelf(q)
  <2>1. PICK q \in HostPids : H!RestartSelf(q)
    BY <1>5
  <2>2. ~(hProc' = [hProc EXCEPT ![q].upg = "none"])
    BY <1>1, <1>2, FieldsTyped DEF ProcTyped, ProcType
  <2>3. /\ \A r \in HostPids : Serving(r) => r \notin hLedger
        /\ \A r \in HostPids : hProc'[r].phase = H!Killed[r].phase
        /\ loaded' = TRUE \/ hProc[q].kind # "service"
    BY <1>1, <2>1, <2>2, RestartSelfIs
  <2>4. Serving(p)
    BY <1>1, <1>2, <2>3, KilledIs
  <2>5. p \notin cmd.busy
    BY <2>4 DEF WordsInv, Beside
  <2>6. hProc[p].job => p \in victims
    BY <2>3, <2>4 DEF ProcInv, Holds
  <2>7. loaded' \/ hProc'[q].phase \in {"dial", "up", "parked"}
    <3>1. H!Working(q)
      BY <2>1 DEF H!RestartSelf
    <3>2. CASE hProc[q].kind # "service"
      BY <1>1, <2>3, <3>1, <3>2, KilledIs DEF Serving, H!Working
    <3> QED BY <2>3, <3>2
  <2> QED BY <2>5, <2>6, <2>7
<1> QED BY <1>3, <1>4, <1>5

-----------------------------------------------------------------------------
(* Mirror is the mirror of Mirror_proofs, with the names it has here. *)

MP == INSTANCE Mirror_proofs
        WITH MaxEvents <- MaxRepoEvents, MaxFaults <- MaxRepoFaults,
             job <- mJob, faults <- mFaults

\* The initial states.
LEMMA MirrorInitIs == M!Init => MP!Init
BY DEF M!Init, MP!Init, M!NoRefs, MP!NoRefs, M!Branches, MP!Branches, M!Idle, MP!Idle,
       M!NoUrl, MP!NoUrl

\* The making and the refreshing of a mirror.
LEMMA MirrorWorksIs == M!Works => MP!Works
<1>1. /\ M!MakeRepo => MP!MakeRepo
      /\ M!AddRemote => MP!AddRemote
      /\ M!Unset => MP!Unset
      /\ M!SetRefspec => MP!SetRefspec
      /\ M!SetUrl => MP!SetUrl
      /\ M!Fetch => MP!Fetch
      /\ M!Collect => MP!Collect
  BY DEF M!MakeRepo, MP!MakeRepo, M!AddRemote, MP!AddRemote, M!Unset, MP!Unset, M!SetRefspec, MP!SetRefspec,
         M!SetUrl, MP!SetUrl, M!Fetch, MP!Fetch, M!Collect, MP!Collect, M!At, MP!At, M!Done, MP!Done,
         M!Fails, MP!Fails, M!Ends, MP!Ends, M!Idle, MP!Idle, M!Expected, MP!Expected, M!HasRemote, MP!HasRemote,
         M!NoUrl, MP!NoUrl, M!Reaches, MP!Reaches, M!Shadow, MP!Shadow, M!Branches, MP!Branches,
         M!refs, MP!refs, M!outside, MP!outside
<1>2. /\ M!StartBlind => MP!StartBlind
      /\ M!StartWithout => MP!StartWithout
      /\ M!Start => MP!Start
  BY DEF M!StartBlind, MP!StartBlind, M!StartWithout, MP!StartWithout, M!Start, MP!Start, M!At, MP!At,
         M!Ends, MP!Ends, M!Idle, MP!Idle, M!Reaches, MP!Reaches, M!NoUrl, MP!NoUrl, M!Looked, MP!Looked,
         M!Resolve, MP!Resolve, M!Chosen, MP!Chosen, M!refs, MP!refs, M!outside, MP!outside
<1> QED BY <1>1, <1>2 DEF M!Works, MP!Works

\* The steps.
LEMMA MirrorNextIs == [M!Next]_mVars => [MP!Next]_MP!vars
<1>1. M!Asked => MP!Asked
  BY DEF M!Asked, MP!Asked, M!Begin, MP!Begin, M!Idle, MP!Idle, M!Refresh, MP!Refresh, M!Clone, MP!Clone,
         M!Migrated, MP!Migrated, M!refs, MP!refs, M!outside, MP!outside
<1>2. M!FetchFails => MP!FetchFails
  BY DEF M!FetchFails, MP!FetchFails, M!At, MP!At, M!Fails, MP!Fails, M!Ends, MP!Ends, M!Idle, MP!Idle,
         M!refs, MP!refs, M!outside, MP!outside
<1>3. /\ M!Move => MP!Move
      /\ M!Teardown => MP!Teardown
      /\ M!Kill => MP!Kill
  BY DEF M!Move, MP!Move, M!Teardown, MP!Teardown, M!Kill, MP!Kill, M!Happens, MP!Happens, M!Idle, MP!Idle,
         M!refs, MP!refs, M!outside, MP!outside
<1>4. /\ \A c \in Commits : M!Commit(c) => MP!Commit(c)
      /\ \A tip : M!BackupElsewhere(tip) => MP!BackupElsewhere(tip)
      /\ \A branch : M!Push(branch) \/ M!Drop(branch) => MP!Push(branch) \/ MP!Drop(branch)
  BY DEF M!Commit, MP!Commit, M!BackupElsewhere, MP!BackupElsewhere, M!Push, MP!Push, M!Drop, MP!Drop,
         M!Happens, MP!Happens, M!Idle, MP!Idle
<1>5. UNCHANGED mVars => UNCHANGED MP!vars
  BY DEF mVars, MP!vars
<1>6. M!Next => MP!Next
  BY <1>1, <1>2, <1>3, <1>4, MirrorWorksIs DEF M!Next, MP!Next, M!Branches, MP!Branches
<1> QED BY <1>5, <1>6

\* The types.
LEMMA MirrorTypeIs == MP!TypeOK => M!TypeOK
BY DEF M!TypeOK, MP!TypeOK, M!Url, MP!Url, M!NoUrl, MP!NoUrl, M!NoRefs, MP!NoRefs, M!Branches, MP!Branches,
       M!Tip, MP!Tip, M!Steps, MP!Steps

-----------------------------------------------------------------------------
(* The two together. *)

\* What holds of the host and of the mirror, whichever part a behaviour exercises.
PartsInv == HostTyped /\ ProcInv /\ WordsInv /\ MP!MirrorInv /\ MP!HeldTyped

\* What Mirror assumes.
LEMMA MirrorAssumed == MP!MirrorAssumption
BY RestartsAssumption DEF M!MirrorAssumption, MP!MirrorAssumption

\* A step of the three is a step of each, or leaves it as it is.
LEMMA EachStep == ASSUME [MCNext]_mcVars PROVE [H!Next]_hVars /\ [M!Next]_mVars
<1>1. CASE UNCHANGED mcVars
  BY <1>1 DEF mcVars
<1>2. CASE JobMoves(Next)
  BY <1>2 DEF JobMoves
<1>3. CASE HostMoves(H!Next)
  BY <1>3 DEF HostMoves
<1>4. CASE MirrorMoves(M!Next)
  BY <1>4 DEF MirrorMoves
<1> QED BY <1>1, <1>2, <1>3, <1>4 DEF MCNext

\* PartsInv holds at the start.
LEMMA PartsInit == MCInit => PartsInv
<1> SUFFICES ASSUME MCInit PROVE PartsInv
  OBVIOUS
<1>1. H!Init /\ M!Init
  BY DEF MCInit
<1>2. HostTyped /\ ProcInv /\ WordsInv
  BY <1>1, TypedInit, ProcInit, WordsInit
<1>3. MP!Init
  BY <1>1, MirrorInitIs
<1>4. MP!MirrorInv /\ MP!HeldTyped
  BY <1>3, MirrorAssumed, MP!MirrorInit, MP!HeldInit
<1> QED BY <1>2, <1>4 DEF PartsInv

\* Every step keeps PartsInv.
LEMMA PartsStep == PartsInv /\ [MCNext]_mcVars => PartsInv'
<1> SUFFICES ASSUME PartsInv, [MCNext]_mcVars PROVE PartsInv'
  OBVIOUS
<1>1. [H!Next]_hVars /\ [M!Next]_mVars
  BY EachStep
<1>2. HostTyped /\ ProcInv /\ WordsInv /\ MP!MirrorInv /\ MP!HeldTyped
  BY DEF PartsInv
<1>3. HostTyped'
  BY <1>1, <1>2, TypedStep
<1>4. ProcInv'
  BY <1>1, <1>2, ProcStep DEF HostTyped
<1>5. WordsInv'
  BY <1>1, <1>2, WordsStep
<1>6. [MP!Next]_MP!vars
  BY <1>1, MirrorNextIs
<1>7. MP!MirrorInv' /\ MP!HeldTyped'
  BY <1>2, <1>6, MirrorAssumed, MP!MirrorStep, MP!HeldStep
<1> QED BY <1>3, <1>4, <1>5, <1>7 DEF PartsInv

\* Every variable of the host and of the mirror has its type, the service has at most one
\* process, and a job is in the ledger or its worker has lost the lock to a rival, for any
\* number of processes and events.
THEOREM PartsTypeOKCorrect == MCSpec => []PartsTypeOK
<1>1. PartsInv => PartsTypeOK
  <2> SUFFICES ASSUME PartsInv PROVE H!TypeOK /\ M!TypeOK
    BY DEF PartsTypeOK
  <2>1. H!TypeOK
    BY HostTypeOK DEF PartsInv
  <2>2. MP!TypeOK
    BY MP!MirrorTyped DEF PartsInv
  <2> QED BY <2>1, <2>2, MirrorTypeIs
<1> QED BY <1>1, PartsInit, PartsStep, PTL DEF MCSpec

\* Whoever dials the hub holds the lock, unless a rival took it in the race that lock.ts
\* concedes, whatever crashed, released late or was taken for dead.
THEOREM WorkerHoldsLockCorrect == MCSpec => []WorkerHoldsLock
<1>1. PartsInv => WorkerHoldsLock
  BY DEF PartsInv, ProcInv, Holds, WorkerHoldsLock, H!WorkerHoldsLock
<1> QED BY <1>1, PartsInit, PartsStep, PTL DEF MCSpec

\* What the last command said when it ended well stays true until something undoes it that
\* the operator can see: a stopped node is idle and raises no alarm, a started one is loaded.
THEOREM CommandsKeepTheirWordCorrect == MCSpec => []CommandsKeepTheirWord
<1>1. PartsInv => CommandsKeepTheirWord
  <2> SUFFICES ASSUME PartsInv PROVE H!StopMeansIdle /\ H!StartLeavesItUp /\ H!StoppedIsNoAlarm
    BY DEF CommandsKeepTheirWord, H!CommandsKeepTheirWord
  <2>1. IdleWord /\ RunWord /\ Wanted
    BY DEF PartsInv, WordsInv
  <2>2. H!StopMeansIdle
    BY <2>1 DEF IdleWord, H!StopMeansIdle
  <2>3. H!StartLeavesItUp
    BY <2>1 DEF RunWord, H!StartLeavesItUp
  <2>4. H!StoppedIsNoAlarm
    BY <2>1 DEF Wanted, H!StoppedIsNoAlarm, H!Presence
  <2> QED BY <2>2, <2>3, <2>4
<1> QED BY <1>1, PartsInit, PartsStep, PTL DEF MCSpec

\* No command without --force takes down a job that ran when it looked, and the restart that
\* ends an upgrade takes none down and strands no node.
THEOREM JobsSparedCorrect == MCSpec => JobsSpared
<1> DEFINE Rule == \A p \in HostPids : H!Running(p) /\ hProc'[p].phase = "dying" =>
             /\ p \notin cmd.busy
             /\ cmd' = cmd => /\ loaded' \/ \E q \in HostPids : hProc'[q].phase \in {"dial", "up", "parked"}
                              /\ hProc[p].job => p \in victims
<1>1. PartsInv /\ [MCNext]_mcVars => [Rule]_H!vars
  <2> SUFFICES ASSUME PartsInv, [MCNext]_mcVars PROVE Rule
    OBVIOUS
  <2>1. \A p \in HostPids : Spared(p)
    BY EachStep, AllSpared DEF PartsInv
  <2> QED BY <2>1 DEF Spared
<1> QED BY <1>1, PartsInit, PartsStep, PTL DEF MCSpec, JobsSpared, H!JobsSpared
=============================================================================
