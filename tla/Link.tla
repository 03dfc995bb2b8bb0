-------------------------------- MODULE Link --------------------------------
(***************************************************************************)
(* The node's one connection to the hub (packages/edge/src/ws-client.ts,   *)
(* startEdgeNode): dialling, back-off, the heartbeat that finds a dead     *)
(* path, parking on a rejected token, and the frames that are answered     *)
(* outside the job handling: upgrade, health, presigned URLs, runtimes.    *)
(* Jobs, turns, cancels and the results sent again on every connection are *)
(* module EdgeJobs; what `refresh` reads and `onEnrolled` writes is Host.  *)
(***************************************************************************)
EXTENDS Integers

CONSTANTS
  Old, New,          \* enrolment tokens: the node's own, and the one of a re-enrolment
  Runtimes,          \* sets of runtimes a probe may find
  Blobs,             \* requests for a presigned URL
  MaxFaults,         \* bound: connections lost and paths that die
  MaxFrames,         \* bound: these, upgrade and health frames, requests for a URL
  MaxAttempts        \* the delay grows no further (RECONNECT_MAX_MS)

LinkAssumption == Old # New /\ MaxFrames \in Nat /\ MaxFaults \in 0..MaxFrames /\ MaxAttempts \in Nat

Calls == 1..2        \* handlers of one kind of frame that may run at once
Missed == 3          \* MISSED_PONGS_BEFORE_DEAD

VARIABLES
  sock,                       \* ws: none, dialing, open
  path,                       \* the open socket still reaches the hub
  reconnectTimer, parkTimer,
  sincePong, beats,           \* intervals since lastPongAt; beats of this heartbeat
  reconnectAttempts, shuttingDown,
  started,                    \* the promise of startEdgeNode
  welcomed,                   \* the hub welcomed this connection
  enrolToken, disk, good,     \* the token in use, the one a poll would read, those the hub takes
  refresh,                    \* the embedder gave refreshEnrolToken
  currentRuntimes, told,      \* the last probe, and what the last hello of this connection said
  upgrading, upgrade,         \* the latch, and each handler: idle, deciding, applying, restarting
  healthInFlight, health,     \* the latch, and each handler: idle, probing
  pendingBlob,                \* each request: none, waiting, settled
  faults, frames

link   == <<sock, path, reconnectTimer, parkTimer, sincePong, beats, reconnectAttempts,
            shuttingDown, started, welcomed>>
tokens == <<enrolToken, disk, good, refresh>>
calls  == <<upgrading, upgrade, healthInFlight, health>>
vars   == <<link, tokens, currentRuntimes, told, calls, pendingBlob, faults, frames>>

TypeOK ==
  /\ sock \in {"none", "dialing", "open"} /\ path \in BOOLEAN
  /\ reconnectTimer \in BOOLEAN /\ parkTimer \in BOOLEAN
  /\ sincePong \in 0..Missed /\ beats \in 0..Missed
  /\ reconnectAttempts \in 0..MaxAttempts /\ shuttingDown \in BOOLEAN
  /\ started \in {"pending", "resolved", "rejected"} /\ welcomed \in BOOLEAN
  /\ {enrolToken, disk} \subseteq {Old, New} /\ good \subseteq {Old, New} /\ refresh \in BOOLEAN
  /\ currentRuntimes \in Runtimes /\ told \in Runtimes
  /\ upgrading \in BOOLEAN /\ upgrade \in [Calls -> {"idle", "deciding", "applying", "restarting"}]
  /\ healthInFlight \in BOOLEAN /\ health \in [Calls -> {"idle", "probing"}]
  /\ pendingBlob \in [Blobs -> {"none", "waiting", "settled"}]
  /\ faults \in 0..MaxFaults /\ frames \in 0..MaxFrames

Init ==
  /\ sock = "dialing" /\ path = FALSE /\ reconnectTimer = FALSE /\ parkTimer = FALSE
  /\ sincePong = 0 /\ beats = 0 /\ reconnectAttempts = 0 /\ shuttingDown = FALSE
  /\ started = "pending" /\ welcomed = FALSE
  /\ enrolToken = Old /\ disk = Old /\ good \in {{Old, New}, {New}} /\ refresh \in BOOLEAN
  /\ currentRuntimes \in Runtimes /\ told = currentRuntimes
  /\ upgrading = FALSE /\ upgrade = [c \in Calls |-> "idle"]
  /\ healthInFlight = FALSE /\ health = [c \in Calls |-> "idle"]
  /\ pendingBlob = [b \in Blobs |-> "none"]
  /\ faults \in 0..MaxFaults /\ frames = MaxFrames - faults

\* Definitions named <Definition>_<Mistake> are mutants: plausible mistakes in
\* the code, in no action of the model, that the properties are tried against.

\* A frame goes out on an open socket; what a dead path swallows is lost.
Heard == sock = "open" /\ path

Fault == faults > 0 /\ faults' = faults - 1

-----------------------------------------------------------------------------
(***************************************************************************)
(* The connection.                                                         *)
(***************************************************************************)

\* startHeartbeat: the new interval counts from now, whatever an older socket was owed.
StartHeartbeat == sincePong' = 0 /\ beats' = 0

\* "open": hello with the current runtimes, and the heartbeat.
Opened ==
  /\ sock = "dialing" /\ sock' = "open" /\ path' = TRUE
  /\ told' = currentRuntimes /\ StartHeartbeat
  /\ UNCHANGED <<reconnectTimer, parkTimer, reconnectAttempts, shuttingDown, started, welcomed,
                 tokens, currentRuntimes, calls, pendingBlob, faults, frames>>

\* The close handler, for any reason but a rejection: dial again after reconnectDelay.
Closed ==
  /\ sock' = "none" /\ path' = FALSE /\ welcomed' = FALSE /\ beats' = 0
  /\ IF shuttingDown THEN UNCHANGED <<reconnectTimer, reconnectAttempts>>
     ELSE /\ reconnectTimer' = TRUE
          /\ reconnectAttempts' = IF reconnectAttempts < MaxAttempts THEN reconnectAttempts + 1
                                  ELSE MaxAttempts
  /\ UNCHANGED <<sincePong, parkTimer, shuttingDown, started, tokens, currentRuntimes, told, calls,
                 pendingBlob>>

Settle(outcome) == started' = IF started = "pending" THEN outcome ELSE started

Park_Silently ==
  parkTimer' = TRUE /\ UNCHANGED <<shuttingDown, started, reconnectTimer>>

Park_KeepsDialling ==
  parkTimer' = TRUE /\ reconnectTimer' = TRUE /\ Settle("resolved") /\ UNCHANGED shuttingDown

\* park: poll for another token; a parked node counts as started.
Park ==
  parkTimer' = TRUE /\ Settle("resolved") /\ UNCHANGED <<shuttingDown, reconnectTimer>>

\* The close handler, for a rejection: park, or stop for good where no token could be read.
Rejected ==
  /\ Heard /\ enrolToken \notin good
  /\ sock' = "none" /\ path' = FALSE /\ welcomed' = FALSE /\ beats' = 0
  /\ IF refresh THEN Park
     ELSE shuttingDown' = TRUE /\ Settle("rejected") /\ UNCHANGED <<parkTimer, reconnectTimer>>
  /\ UNCHANGED <<sincePong, reconnectAttempts, tokens, currentRuntimes, told, calls, pendingBlob, faults,
                 frames>>

\* A dial that fails, a connection that is lost.
Lost == sock # "none" /\ Fault /\ Closed /\ UNCHANGED frames

\* A path dies without a word: the socket stays OPEN.
GoSilent ==
  /\ Heard /\ Fault /\ path' = FALSE
  /\ UNCHANGED <<sock, reconnectTimer, parkTimer, sincePong, beats, reconnectAttempts, shuttingDown,
                 started, welcomed, tokens, currentRuntimes, told, calls, pendingBlob, frames>>

Pong ==
  /\ Heard /\ sincePong' = 0
  /\ UNCHANGED <<sock, path, reconnectTimer, parkTimer, beats, reconnectAttempts, shuttingDown,
                 started, welcomed, tokens, currentRuntimes, told, calls, pendingBlob, faults, frames>>

\* A beat that goes out, with a ping.
Ticked ==
  /\ sincePong' = IF sincePong < Missed THEN sincePong + 1 ELSE Missed
  /\ beats' = IF beats < Missed THEN beats + 1 ELSE Missed
  /\ UNCHANGED <<sock, path, reconnectTimer, parkTimer, reconnectAttempts, shuttingDown, started,
                 welcomed, tokens, currentRuntimes, told, calls, pendingBlob>>

Beat_TrustsReadyState == sock = "open" /\ Ticked /\ UNCHANGED <<faults, frames>>

\* The beat of an open socket, one interval after the last: terminate after more than
\* three intervals without a pong (timers are late, so the third beat may find more).
Beat ==
  /\ sock = "open"
  /\ \/ sincePong + 1 >= Missed /\ Closed
     \/ sincePong + 1 <= Missed /\ Ticked
  /\ UNCHANGED <<faults, frames>>

\* "welcome": the only proof that the connection works, so what clears the back-off; the
\* token is cached, and the heartbeat starts again with the hub's interval.
Welcome ==
  /\ Heard /\ ~welcomed /\ enrolToken \in good
  /\ welcomed' = TRUE /\ reconnectAttempts' = 0 /\ StartHeartbeat
  /\ disk' = IF refresh THEN enrolToken ELSE disk
  /\ UNCHANGED <<sock, path, reconnectTimer, parkTimer, shuttingDown, started, enrolToken, good,
                 refresh, currentRuntimes, told, calls, pendingBlob, faults, frames>>

Reconnect ==
  /\ reconnectTimer /\ reconnectTimer' = FALSE /\ sock' = "dialing"
  /\ UNCHANGED <<path, parkTimer, sincePong, beats, reconnectAttempts, shuttingDown, started,
                 welcomed, tokens, currentRuntimes, told, calls, pendingBlob, faults, frames>>

\* The poll of a parked node.
ParkPoll ==
  /\ parkTimer /\ disk # enrolToken
  /\ parkTimer' = FALSE /\ enrolToken' = disk /\ reconnectAttempts' = 0 /\ sock' = "dialing"
  /\ UNCHANGED <<path, reconnectTimer, sincePong, beats, shuttingDown, started, welcomed, disk, good,
                 refresh, currentRuntimes, told, calls, pendingBlob, faults, frames>>

\* The embedder's signal, and the close it asks for.
Abort ==
  /\ ~shuttingDown /\ Fault
  /\ shuttingDown' = TRUE /\ reconnectTimer' = FALSE /\ parkTimer' = FALSE
  /\ sock' = "none" /\ path' = FALSE /\ welcomed' = FALSE /\ beats' = 0
  /\ UNCHANGED <<sincePong, reconnectAttempts, started, tokens, currentRuntimes, told, calls, pendingBlob,
                 frames>>

\* The 50 ms poll of the startup promise.
StartupPoll ==
  /\ started = "pending" /\ sock = "open" /\ Settle("resolved")
  /\ UNCHANGED <<sock, path, reconnectTimer, parkTimer, sincePong, beats, reconnectAttempts,
                 shuttingDown, welcomed, tokens, currentRuntimes, told, calls, pendingBlob, faults,
                 frames>>

\* The hub revokes the first token; an operator enrols again.
Revoke ==
  /\ Old \in good /\ good' = {New}
  /\ UNCHANGED <<link, enrolToken, disk, refresh, currentRuntimes, told, calls, pendingBlob, faults, frames>>

Reenrol ==
  /\ disk = Old /\ disk' = New
  /\ UNCHANGED <<link, enrolToken, good, refresh, currentRuntimes, told, calls, pendingBlob, faults, frames>>

Connection ==
  \/ Opened \/ Rejected \/ Lost \/ GoSilent \/ Pong \/ Beat \/ Welcome \/ Reconnect \/ ParkPoll
  \/ Abort \/ StartupPoll \/ Revoke \/ Reenrol

-----------------------------------------------------------------------------
(***************************************************************************)
(* What the connection carries besides jobs.                               *)
(***************************************************************************)

Spend == frames > 0 /\ frames' = frames - 1
Frame == Heard /\ welcomed /\ Spend

Reprobe_SaysFirst(r) ==
  /\ r # currentRuntimes /\ currentRuntimes' = r
  /\ told' = IF sock = "open" THEN currentRuntimes ELSE told
  /\ UNCHANGED <<link, tokens, calls, pendingBlob, faults, frames>>

\* The probe runs again: another set is taken over, and advertised if the socket is open.
Reprobe(r) ==
  /\ r # currentRuntimes /\ currentRuntimes' = r
  /\ told' = IF sock = "open" THEN r ELSE told
  /\ UNCHANGED <<link, tokens, calls, pendingBlob, faults, frames>>

Began(handlers, c, phase) ==
  /\ handlers[c] = "idle" /\ (c = 2 => handlers[1] # "idle")
  /\ handlers' = [handlers EXCEPT ![c] = phase]

UpgradeFrame_LatchesOnAck(c) ==
  /\ Frame
  /\ IF upgrading THEN UNCHANGED upgrade ELSE Began(upgrade, c, "deciding")
  /\ UNCHANGED <<upgrading, link, tokens, currentRuntimes, told, healthInFlight, health, pendingBlob, faults>>

\* "upgrade": one at a time; a frame sent again is dropped.
UpgradeFrame(c) ==
  /\ Frame
  /\ IF upgrading THEN UNCHANGED <<upgrading, upgrade>>
     ELSE upgrading' = TRUE /\ Began(upgrade, c, "deciding")
  /\ UNCHANGED <<link, tokens, currentRuntimes, told, healthInFlight, health, pendingBlob, faults>>

UpgradeDecided_ThrowKeepsLatch(c) ==
  /\ upgrade[c] = "deciding"
  /\ \E outcome \in {"accepted", "refused", "threw"} :
       /\ upgrade' = [upgrade EXCEPT ![c] = IF outcome = "accepted" THEN "applying" ELSE "idle"]
       /\ upgrading' = (outcome # "refused")
  /\ UNCHANGED <<link, tokens, currentRuntimes, told, healthInFlight, health, pendingBlob, faults, frames>>

\* The awaited decision: acked before anything is applied; nothing to apply frees the latch.
UpgradeDecided(c) ==
  /\ upgrade[c] = "deciding"
  /\ \E accepted \in BOOLEAN :
       /\ upgrade' = [upgrade EXCEPT ![c] = IF accepted THEN "applying" ELSE "idle"]
       /\ upgrading' = accepted
  /\ UNCHANGED <<link, tokens, currentRuntimes, told, healthInFlight, health, pendingBlob, faults, frames>>

\* A failed upgrade frees the latch, one that worked ends in a restart and does not.
UpgradeApplied(c) ==
  /\ upgrade[c] = "applying"
  /\ \E ok \in BOOLEAN :
       /\ upgrade' = [upgrade EXCEPT ![c] = IF ok THEN "restarting" ELSE "idle"]
       /\ upgrading' = ok
  /\ UNCHANGED <<link, tokens, currentRuntimes, told, healthInFlight, health, pendingBlob, faults, frames>>

\* "node-health-request": one at a time; a second one is dropped, whatever its id.
HealthFrame(c) ==
  /\ Frame
  /\ IF healthInFlight THEN UNCHANGED <<healthInFlight, health>>
     ELSE healthInFlight' = TRUE /\ Began(health, c, "probing")
  /\ UNCHANGED <<link, tokens, currentRuntimes, told, upgrading, upgrade, pendingBlob, faults>>

\* The awaited probes end or throw: a report either way, and the latch is free.
HealthReported(c) ==
  /\ health[c] = "probing" /\ health' = [health EXCEPT ![c] = "idle"] /\ healthInFlight' = FALSE
  /\ UNCHANGED <<link, tokens, currentRuntimes, told, upgrading, upgrade, pendingBlob, faults, frames>>

BlobBecomes(b, from, to) ==
  /\ pendingBlob[b] = from /\ pendingBlob' = [pendingBlob EXCEPT ![b] = to]
  /\ UNCHANGED <<link, tokens, currentRuntimes, told, calls, faults>>

BlobSettled(b) == BlobBecomes(b, "waiting", "settled") /\ UNCHANGED frames

\* requestBlobUrl: sent, or lost on a socket that is down.
RequestBlobUrl(b) == Spend /\ BlobBecomes(b, "none", "waiting")

\* "blob-put-url"; a late one finds nothing and is ignored.
BlobPutUrl(b) == Heard /\ welcomed /\ BlobSettled(b)

BlobTimeout_OnlyIfDown(b) == sock # "open" /\ BlobSettled(b)

\* Thirty seconds: the upload is skipped.
BlobTimeout(b) == BlobSettled(b)

Traffic ==
  \/ \E r \in Runtimes : Reprobe(r)
  \/ \E c \in Calls : \/ UpgradeFrame(c) \/ UpgradeDecided(c) \/ UpgradeApplied(c)
                      \/ HealthFrame(c) \/ HealthReported(c)
  \/ \E b \in Blobs : RequestBlobUrl(b) \/ BlobPutUrl(b) \/ BlobTimeout(b)

Next == Connection \/ Traffic

\* The timers run, a dial ends, and a hub that is asked again and again answers the hello
\* of a live path before the heartbeat gives the socket up; so does the startup poll look.
Fairness ==
  /\ WF_vars(Opened) /\ SF_vars(Welcome \/ Rejected) /\ WF_vars(Beat)
  /\ WF_vars(Reconnect) /\ WF_vars(ParkPoll) /\ SF_vars(StartupPoll)
  /\ \A b \in Blobs : WF_vars(BlobTimeout(b))

Spec == Init /\ [][Next]_vars /\ Fairness

-----------------------------------------------------------------------------
(***************************************************************************)
(* Properties.                                                             *)
(***************************************************************************)

\* Until it is told to stop, exactly one thing will bring the node to the hub: a socket,
\* the reconnect timer or the park poll.  With none it is lost until a restart, with two
\* it dials twice.
OneHeir ==
  ~shuttingDown =>
    (IF sock # "none" THEN 1 ELSE 0) + (IF reconnectTimer THEN 1 ELSE 0)
      + (IF parkTimer THEN 1 ELSE 0) = 1

\* The runtimes the hub was told of on this connection are those of the last probe.
AdvertisedIsCurrent == sock = "open" => told = currentRuntimes

\* A set latch is held by a handler that is still at work (or by a restart under way): no
\* refusal, error or lost connection shuts the node off from later requests.
LatchesAreHeld ==
  /\ upgrading => \E c \in Calls : upgrade[c] # "idle"
  /\ healthInFlight => \E c \in Calls : health[c] # "idle"

\* The package manager never runs twice at once, however often the frame is sent.
OneInstall ==
  \A c, d \in Calls :
    {upgrade[c], upgrade[d]} \subseteq {"applying", "restarting"} => c = d

\* A node that has, or can read, a token the hub takes is welcomed again and again,
\* through lost and silent connections, rejections and re-enrolments.
LinkComesBack ==
  []<>(\/ welcomed /\ path
       \/ shuttingDown
       \/ disk \notin good
       \/ ~refresh /\ enrolToken \notin good)

\* Every request for a presigned URL settles, so no upload waits for ever.
BlobsSettle == \A b \in Blobs : pendingBlob[b] = "waiting" ~> pendingBlob[b] = "settled"

\* startEdgeNode's promise settles, on a socket, a parked node or a fatal rejection.
StartupSettles == <>(started # "pending" \/ shuttingDown)
=============================================================================
