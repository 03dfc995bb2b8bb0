------------------------------ MODULE LogShipper ------------------------------
(***************************************************************************)
(* The third sink of the node's logger (edge/src/log-shipper.ts): a bounded*)
(* ring of log records, flushed to the hub while the hub's telemetry policy*)
(* and the operator's ceiling permit it, over a link that comes and goes.  *)
(***************************************************************************)
EXTENDS Naturals, Sequences, SequencesExt

CONSTANTS
  BufferMax, BatchMax,   \* SHIP_BUFFER_MAX, SHIP_BATCH_MAX
  MaxRecords             \* bound: log records written

LogShipperAssumption == BufferMax \in Nat \ {0} /\ BatchMax \in Nat \ {0} /\ MaxRecords \in Nat

\* A LogShipLevel by its rank: off, error, warn, info, debug.  Two that are not off do.
Off    == 0
Error  == 1
Debug  == 4
Levels == {Off, Error, Debug}
Policies == [health : BOOLEAN, logs : Levels]

VARIABLES
  ceiling, policy,   \* the operator's (DAHRK_TELEMETRY), the one in force
  buffer, dropped,
  line,              \* the socket: up, down, or half-open: it takes frames that go nowhere
  written,           \* history: the records the policy let in
  arrived, lost,     \* history: what the hub got, what a half-open socket swallowed
  cleared,           \* history: what waited when a policy turned the logs off
  healthSeen         \* history: a heartbeat carried the node's health

vars == <<ceiling, policy, buffer, dropped, line, written, arrived, lost, cleared, healthSeen>>

Records == [n : 1..MaxRecords, level : Levels \ {Off}]

TypeOK ==
  /\ ceiling \in Policies /\ policy \in Policies
  /\ buffer \in Seq(Records) /\ Len(buffer) <= BufferMax /\ dropped \in 0..MaxRecords
  /\ line \in {"up", "down", "half-open"}
  /\ written \in Seq(Records) /\ arrived \in Seq(Records)
  /\ lost \subseteq Records /\ cleared \subseteq Records /\ healthSeen \in BOOLEAN

\* Definitions named <Definition>_<Mistake> are mutants: plausible mistakes in
\* the code, in no action of the model, that the properties are tried against.

Clamp_HubWins(p) == p

\* clampToCeiling.
Clamp(p) == [health |-> p.health /\ ceiling.health,
             logs   |-> IF p.logs > ceiling.logs THEN ceiling.logs ELSE p.logs]

\* ceilingFromEnv knows three ceilings.
Ceilings == {[health |-> FALSE, logs |-> Off], [health |-> TRUE, logs |-> Off],
             [health |-> TRUE, logs |-> Debug]}

Init ==
  /\ ceiling \in Ceilings /\ policy = Clamp([health |-> TRUE, logs |-> Off])
  /\ buffer = <<>> /\ dropped = 0 /\ line = "down"
  /\ written = <<>> /\ arrived = <<>> /\ lost = {} /\ cleared = {} /\ healthSeen = FALSE

Queued_KeepsOffQueue(logs) ==
  /\ UNCHANGED buffer
  /\ cleared' = cleared \cup (IF logs = Off THEN ToSet(buffer) ELSE {})

\* An operator's opt-out also discards what was queued before it.
Queued(logs) ==
  IF logs = Off THEN buffer' = <<>> /\ cleared' = cleared \cup ToSet(buffer)
  ELSE UNCHANGED <<buffer, cleared>>

\* setPolicy, on a welcome or on a policy frame.
SetPolicy ==
  /\ line = "up"
  /\ \E p \in Policies : policy' = Clamp(p) /\ Queued(Clamp(p).logs)
  /\ UNCHANGED <<ceiling, dropped, line, written, arrived, lost, healthSeen>>

Kept_DropsNewest(seq) == IF Len(seq) > BufferMax THEN SubSeq(seq, 1, BufferMax) ELSE seq

\* Beyond the bound the oldest record goes.
Kept(seq) == IF Len(seq) > BufferMax THEN Tail(seq) ELSE seq

\* offer.
Offer ==
  /\ Len(written) < MaxRecords
  /\ \E level \in Levels \ {Off} :
       LET record == [n |-> Len(written) + 1, level |-> level] IN
       /\ policy.logs # Off /\ level <= policy.logs
       /\ buffer' = Kept(Append(buffer, record)) /\ written' = Append(written, record)
       /\ dropped' = IF Len(buffer) >= BufferMax THEN dropped + 1 ELSE dropped
  /\ UNCHANGED <<ceiling, policy, line, arrived, lost, cleared, healthSeen>>

Batch == SubSeq(buffer, 1, IF Len(buffer) < BatchMax THEN Len(buffer) ELSE BatchMax)

Taken_Anyway == buffer' = SubSeq(buffer, Len(Batch) + 1, Len(buffer))

Taken_Never == UNCHANGED buffer

\* The batch leaves the ring only once the socket took it.
Taken == IF line = "down" THEN UNCHANGED buffer
         ELSE buffer' = SubSeq(buffer, Len(Batch) + 1, Len(buffer))

\* flush, on its timer; `send` answers false unless the socket is open.
Flush ==
  /\ buffer # <<>> /\ Taken
  /\ arrived' = IF line = "up" THEN arrived \o Batch ELSE arrived
  /\ lost' = IF line = "half-open" THEN lost \cup ToSet(Batch) ELSE lost
  /\ UNCHANGED <<ceiling, policy, dropped, line, written, cleared, healthSeen>>

\* A heartbeat carries the health block if the policy in force says so.
Beat ==
  /\ line = "up" /\ policy.health /\ healthSeen' = TRUE
  /\ UNCHANGED <<ceiling, policy, buffer, dropped, line, written, arrived, lost, cleared>>

\* The link: up, lost without a word, closed.
LineChanges ==
  /\ \/ line = "down" /\ line' = "up"
     \/ line = "up" /\ line' \in {"half-open", "down"}
     \/ line = "half-open" /\ line' = "down"
  /\ UNCHANGED <<ceiling, policy, buffer, dropped, written, arrived, lost, cleared, healthSeen>>

Next == SetPolicy \/ Offer \/ Flush \/ Beat \/ LineChanges

Spec == Init /\ [][Next]_vars

-----------------------------------------------------------------------------
(***************************************************************************)
(* Properties.                                                             *)
(***************************************************************************)

\* The hub gets records in the order they were written, each once, over any number of links,
\* partial flushes and changes of policy.
ShippedInOrder == \A i, j \in DOMAIN arrived : i < j => arrived[i].n < arrived[j].n

\* A record the policy let in arrived, waits, went into a dead socket or was thrown away by
\* an opt-out: any other is counted in `dropped`, neither more nor fewer.
LossIsCounted ==
  LET missing == ToSet(written)
                   \ (ToSet(arrived) \cup ToSet(buffer) \cup lost \cup cleared)
  IN dropped = Cardinality(missing)

\* What waits is the newest of what was written, without a gap.
NewestWaits ==
  \A i \in DOMAIN buffer : buffer[i] = written[Len(written) - Len(buffer) + i]

\* Whatever the hub asks for, and however often, no record above the operator's ceiling
\* reaches it, and no health from a node whose operator turned telemetry off.
OperatorDecides ==
  /\ \A i \in DOMAIN arrived : arrived[i].level <= ceiling.logs
  /\ healthSeen => ceiling.health

\* What waited when the operator or the hub turned the logs off never leaves the node, under
\* no later policy either.
OffIsFinal == cleared \cap ToSet(arrived) = {}
=============================================================================
