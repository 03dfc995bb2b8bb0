------------------------------ MODULE MCRemote ------------------------------
(***************************************************************************)
(* What the node and services elsewhere tell one another, in one run: Link,*)
(* the connection to the hub; CredentialLatch, the runtimes advertised     *)
(* there; LogShipper, the log records the hub may have; UpdateCheck, what  *)
(* the registry said.  Link takes the runtimes as probes find them, so the *)
(* four share no variable: `part` says which of them a behaviour exercises,*)
(* and the others keep still in one of their initial states.               *)
(***************************************************************************)
EXTENDS Integers, LogShipper

CONSTANTS
  \* Link
  Old, New, Probed, Blobs, MaxFaults, MaxFrames, MaxAttempts,
  \* CredentialLatch
  AgentRuntimes, Slots, Free,
  \* UpdateCheck
  Interval, SkewTolerance, Fetch, Spread

VARIABLES
  part,
  \* Link
  sock, path, reconnectTimer, parkTimer, sincePong, beats, reconnectAttempts, shuttingDown,
  started, welcomed, enrolToken, disk, good, refresh, currentRuntimes, told, upgrading, upgrade,
  healthInFlight, health, pendingBlob, linkFaults, frames,
  \* CredentialLatch
  pool, capable, bad, lTold, stage, refused,
  \* UpdateCheck
  age, timer, jitter, fetching, trueAge, misses, settled, upsets

K == INSTANCE Link WITH Runtimes <- Probed, faults <- linkFaults
L == INSTANCE CredentialLatch WITH Runtimes <- AgentRuntimes, told <- lTold
U == INSTANCE UpdateCheck

ASSUME RemoteAssumption ==
  /\ K!LinkAssumption /\ L!LatchAssumption /\ LogShipperAssumption
  /\ U!UpdateCheckAssumption

kVars == <<sock, path, reconnectTimer, parkTimer, sincePong, beats, reconnectAttempts,
           shuttingDown, started, welcomed, enrolToken, disk, good, refresh, currentRuntimes,
           told, upgrading, upgrade, healthInFlight, health, pendingBlob, linkFaults, frames>>
lVars == <<pool, capable, bad, lTold, stage, refused>>
uVars == <<age, timer, jitter, fetching, trueAge, misses, settled, upsets>>
mcVars == <<part, vars, kVars, lVars, uVars>>

MCInit ==
  /\ part \in {"link", "latch", "shipper", "check"}
  /\ K!Init /\ (part # "link" => /\ good = {New} /\ refresh = TRUE /\ linkFaults = 0
                                 /\ currentRuntimes = CHOOSE r \in Probed : TRUE)
  /\ L!Init /\ (part # "latch" => capable = {})
  /\ Init /\ (part # "shipper" => ceiling = CHOOSE c \in Ceilings : TRUE)
  /\ U!Init /\ (part # "check" => jitter = 0)

LinkMoves(A)    == part = "link" /\ A /\ UNCHANGED <<part, lVars, vars, uVars>>
LatchMoves(A)   == part = "latch" /\ A /\ UNCHANGED <<part, kVars, vars, uVars>>
ShipperMoves(A) == part = "shipper" /\ A /\ UNCHANGED <<part, kVars, lVars, uVars>>
CheckMoves(A)   == part = "check" /\ A /\ UNCHANGED <<part, kVars, lVars, vars>>

MCNext ==
  \/ LinkMoves(K!Next) \/ LatchMoves(L!Next) \/ ShipperMoves(Next) \/ CheckMoves(U!Next)

\* The fairness of the modules, each in the behaviours of its part.
MCFairness ==
  /\ WF_mcVars(LinkMoves(K!Opened)) /\ SF_mcVars(LinkMoves(K!Welcome \/ K!Rejected))
  /\ WF_mcVars(LinkMoves(K!Beat)) /\ WF_mcVars(LinkMoves(K!Reconnect))
  /\ WF_mcVars(LinkMoves(K!ParkPoll)) /\ SF_mcVars(LinkMoves(K!StartupPoll))
  /\ \A b \in Blobs : WF_mcVars(LinkMoves(K!BlobTimeout(b)))
  /\ WF_mcVars(LatchMoves(L!Reprobe))
  /\ \A s \in Slots :
       /\ WF_mcVars(LatchMoves(L!End(s)))
       /\ WF_mcVars(LatchMoves(\E o \in L!Outcomes : L!Turn(s, o)))
  /\ \A r \in AgentRuntimes :
       /\ SF_mcVars(LatchMoves(\E s \in Slots, k \in L!Agents : L!Dispatch(s, k, r)))
       /\ SF_mcVars(LatchMoves(\E s \in Slots : L!Meets(s, r)))
       /\ SF_mcVars(LatchMoves(\E s \in Slots : L!Tells(s, r)))

MCSpec == MCInit /\ [][MCNext]_mcVars /\ MCFairness

-----------------------------------------------------------------------------
(***************************************************************************)
(* The properties of the modules; each is stated and explained where it is *)
(* defined.                                                                *)
(***************************************************************************)

\* Every variable of every part has its type.
RemoteTypeOK == K!TypeOK /\ L!TypeOK /\ TypeOK /\ U!TypeOK

\* One thing brings the node back to the hub, and no latch shuts it off from a request (Link).
LinkIsSound == K!OneHeir /\ K!LatchesAreHeld /\ K!OneInstall

\* What is said of the node is true: the hub knows the runtimes of the last probe (Link) and is
\* refused one only for its own credential (CredentialLatch), and `status` vouches for no
\* answer of the registry that it has not got (UpdateCheck).
WordsAreTrue ==
  /\ K!AdvertisedIsCurrent /\ L!OnlyRefusalsLatch
  /\ U!CadenceHolds /\ U!VouchedIsTrue /\ U!StaleMeansTrouble

\* Log records arrive in order, the newest wait, the lost ones are counted, and none goes above
\* the operator's ceiling or out of a queue that was turned off (LogShipper).
RecordsAccounted ==
  /\ ShippedInOrder /\ NewestWaits /\ LossIsCounted
  /\ OperatorDecides /\ OffIsFinal

\* The node recovers: it is welcomed again and again, what waits for the hub settles (Link), and
\* a dead credential leaves the air (CredentialLatch).
RemoteRecovers ==
  /\ part = "link" => K!LinkComesBack
  /\ part = "link" => K!StartupSettles
  /\ K!BlobsSettle
  /\ L!DeadLeavesTheAir
=============================================================================
