--------------------------- MODULE CredentialLatch ---------------------------
(***************************************************************************)
(* How a refused credential takes a runtime off the air: the turn loops    *)
(* classify what a turn threw (executor-worktree/src/turn-loop.ts), the    *)
(* stage's result goes into the latch (edge/src/credential-latch.ts), the  *)
(* repeated probe leaves a latched runtime out (detect-runtimes.ts), and   *)
(* the next hello tells the hub, which sends no more stages for it.        *)
(***************************************************************************)
EXTENDS Integers

CONSTANTS
  Runtimes,
  Slots,        \* stages that may run at a time
  Free

LatchAssumption == Free \notin [kind : {"batch", "conversation", "check"}]

VARIABLES
  pool,         \* per runtime: is the credential the hub would broker now good
  capable,      \* the runtimes whose SDK resolves
  bad,          \* the latch
  told,         \* the runtimes of the last hello
  stage,        \* per slot, the stage that runs in it
  refused       \* history: runtimes refused, by a stage that ended, since their last success

vars == <<pool, capable, bad, told, stage, refused>>

Agents == {"batch", "conversation"}
Kinds == Agents \cup {"check"}

\* What a turn can come to: `good` is whether the stage's own key was accepted.  A throttled
\* key is a good one, and the provider may say so with a 403.
Thrown == [throttled |-> {"transient", "refused"}, refused |-> {"refused"}, broken |-> {}]
Outcomes == {"running", "ok", "failed", "misconfigured"} \cup DOMAIN Thrown
Authenticated(good) == IF good THEN Outcomes \ {"running", "refused"} ELSE {"refused", "misconfigured"}

TypeOK ==
  /\ pool \in [Runtimes -> BOOLEAN]
  /\ capable \subseteq Runtimes /\ bad \subseteq Runtimes /\ told \subseteq capable
  /\ stage \in [Slots -> {Free} \cup
       [kind : Kinds, runtime : Runtimes, good : BOOLEAN, turn : Outcomes, cancelled : BOOLEAN]]
  /\ refused \subseteq Runtimes

Init ==
  /\ pool = [r \in Runtimes |-> TRUE] /\ capable \in SUBSET Runtimes
  /\ bad = {} /\ told = capable
  /\ stage = [s \in Slots |-> Free] /\ refused = {}

-----------------------------------------------------------------------------

\* Definitions named <Definition>_<Mistake> are mutants: plausible mistakes in
\* the code, in no action of the model, that the properties are tried against.

\* The hub sends an agent stage for a runtime it was told of, with the pool's credential, or
\* a check, which has no runtime (the model gives it one that nothing reads).
Dispatch(s, kind, r) ==
  /\ stage[s] = Free /\ (kind \in Agents => r \in told)
  /\ stage' = [stage EXCEPT ![s] = [kind |-> kind, runtime |-> r, good |-> pool[r],
                                   turn |-> "running", cancelled |-> FALSE]]
  /\ UNCHANGED <<pool, capable, bad, told, refused>>

\* The turn is over: a check's passes or fails.
Turn(s, outcome) ==
  /\ stage[s] # Free /\ stage[s].turn = "running"
  /\ outcome \in IF stage[s].kind = "check" THEN {"ok", "failed"} ELSE Authenticated(stage[s].good)
  /\ stage' = [stage EXCEPT ![s].turn = outcome]
  /\ UNCHANGED <<pool, capable, bad, told, refused>>

Cancel(s) ==
  /\ stage[s] # Free /\ ~stage[s].cancelled
  /\ stage' = [stage EXCEPT ![s].cancelled = TRUE]
  /\ UNCHANGED <<pool, capable, bad, told, refused>>

Classify_RefusedFirst(marks) ==
  CASE "refused" \in marks -> "config"
    [] "refused" \notin marks /\ "transient" \in marks -> "external"
    [] marks = {} -> "none"

\* classifyRuntimeError: transients first.
Classify(marks) ==
  CASE "transient" \in marks -> "external"
    [] "transient" \notin marks /\ "refused" \in marks -> "config"
    [] marks = {} -> "none"

Attributed_ByClass(st) ==
  \/ st.turn = "misconfigured"
  \/ ~st.cancelled /\ st.turn \in DOMAIN Thrown /\ Classify(Thrown[st.turn]) = "config"

\* Both loops prefix the summary of a refusal, unless the stage was cancelled; a stage that
\* the node refuses for its configuration has another summary of the same class.
Attributed(st) ==
  ~st.cancelled /\ st.turn \in DOMAIN Thrown /\ Classify(Thrown[st.turn]) = "config"

Status_AnyThrowIsTheGate(st) ==
  IF ~st.cancelled /\ (st.turn = "ok" \/ (st.kind = "conversation" /\ st.turn \in DOMAIN Thrown))
  THEN "ok" ELSE "fail"

\* What a conversation throws that is of no class is its way out to the gate.
Status(st) ==
  IF ~st.cancelled /\ (st.turn = "ok" \/ (st.kind = "conversation" /\ st.turn = "broken"))
  THEN "ok" ELSE "fail"

Record_ElseClears(st) ==
  IF st.kind = "check" THEN bad
  ELSE IF Status(st) = "fail" /\ Attributed(st) THEN bad \cup {st.runtime}
  ELSE bad \ {st.runtime}

\* CredentialLatch.record.
Record(st) ==
  IF st.kind = "check" THEN bad
  ELSE IF Status(st) = "fail" /\ Attributed(st) THEN bad \cup {st.runtime}
  ELSE IF Status(st) = "ok" THEN bad \ {st.runtime} ELSE bad

End(s) ==
  /\ stage[s] # Free /\ stage[s].turn # "running"
  /\ stage' = [stage EXCEPT ![s] = Free]
  /\ bad' = Record(stage[s])
  /\ refused' = IF stage[s].kind = "check" THEN refused
                ELSE IF stage[s].turn = "refused" THEN refused \cup {stage[s].runtime}
                ELSE IF Status(stage[s]) = "ok" THEN refused \ {stage[s].runtime} ELSE refused
  /\ UNCHANGED <<pool, capable, told>>

Detected_Capable == capable
Detected_Unresolved == Runtimes \ bad

\* detectRuntimes.
Detected == capable \ bad

\* The probe of the interval: a change is told to the hub.
Reprobe ==
  /\ Detected # told /\ told' = Detected
  /\ UNCHANGED <<pool, capable, bad, stage, refused>>

\* The provider revokes the credential, in the pool and in the stages that have it.
Revoke(r) ==
  /\ pool[r] /\ pool' = [pool EXCEPT ![r] = FALSE]
  /\ stage' = [s \in Slots |->
       IF stage[s] # Free /\ stage[s].runtime = r THEN [stage[s] EXCEPT !.good = FALSE] ELSE stage[s]]
  /\ UNCHANGED <<capable, bad, told, refused>>

\* The pool gets a new credential; the stages that run keep theirs.
Renew(r) ==
  /\ ~pool[r] /\ pool' = [pool EXCEPT ![r] = TRUE]
  /\ UNCHANGED <<capable, bad, told, stage, refused>>

Next ==
  \/ Reprobe
  \/ \E s \in Slots : \/ Cancel(s) \/ End(s)
                      \/ \E kind \in Kinds, r \in Runtimes : Dispatch(s, kind, r)
                      \/ \E outcome \in Outcomes : Turn(s, outcome)
  \/ \E r \in Runtimes : Revoke(r) \/ Renew(r)

\* An agent stage of the runtime that is not cancelled meets its refusal; and ends with it.
Asks(s, r) == stage[s] # Free /\ stage[s].kind \in Agents /\ stage[s].runtime = r /\ ~stage[s].cancelled
Meets(s, r) == Asks(s, r) /\ Turn(s, "refused")
Tells(s, r) == Asks(s, r) /\ stage[s].turn = "refused" /\ End(s)

\* The interval's probe comes round; stages end; as long as a runtime is told, the hub sends
\* stages for it, and not every one of them is cancelled, or fails for something else.
Spec ==
  /\ Init /\ [][Next]_vars
  /\ WF_vars(Reprobe)
  /\ \A s \in Slots : WF_vars(End(s)) /\ WF_vars(\E o \in Outcomes : Turn(s, o))
  /\ \A r \in Runtimes : /\ SF_vars(\E s \in Slots, kind \in Agents : Dispatch(s, kind, r))
                         /\ SF_vars(\E s \in Slots : Meets(s, r))
                         /\ SF_vars(\E s \in Slots : Tells(s, r))

-----------------------------------------------------------------------------
(***************************************************************************)
(* Properties.                                                             *)
(***************************************************************************)

\* A runtime is off the air for its credential only if the provider refused the key of one
\* of its stages, and no stage of it has succeeded since: no throttling, no other gap in the
\* configuration, no cancellation takes a healthy runtime away (credential-latch.ts:53-57,
\* turn-loop.ts:282-284).
OnlyRefusalsLatch == bad \subseteq refused

\* Once the provider has revoked a credential, the runtime leaves what the hub is told, or the
\* pool gets a new one: a dead credential does not burn stages for ever, whatever other
\* stages and checks end in between (credential-latch.ts:20-21).
DeadLeavesTheAir ==
  \A r \in Runtimes : (~pool[r]) ~> (pool[r] \/ r \notin told)
=============================================================================
