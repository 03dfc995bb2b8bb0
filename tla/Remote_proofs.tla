---------------------------- MODULE Remote_proofs ----------------------------
(***************************************************************************)
(* Proofs about the parts of MCRemote, for every value of the constants:   *)
(* the connection to the hub, the advertised runtimes, the shipping of log *)
(* records and the update check.  Each part has an inductive invariant of  *)
(* its own variables; a step of another part leaves them alone.            *)
(***************************************************************************)
EXTENDS MCRemote, SeqFacts, FiniteSetTheorems, SequenceTheorems, TLAPS

-----------------------------------------------------------------------------
(***************************************************************************)
(* The connection (Link).                                                  *)
(***************************************************************************)

\* A latch is set exactly while one handler holds it.
HeldByOne(latch, handlers) ==
  /\ latch => \E c \in K!Calls : handlers[c] # "idle"
  /\ \A c \in K!Calls : handlers[c] # "idle" =>
       latch /\ \A d \in K!Calls \ {c} : handlers[d] = "idle"

\* One thing, and no second, brings the node back.
Heir ==
  ~shuttingDown => \/ sock # "none" /\ ~reconnectTimer /\ ~parkTimer
                   \/ sock = "none" /\ reconnectTimer /\ ~parkTimer
                   \/ sock = "none" /\ ~reconnectTimer /\ parkTimer

\* K!TypeOK in three parts, none too large for a prover.
SocketTypes ==
  /\ sock \in {"none", "dialing", "open"} /\ path \in BOOLEAN
  /\ reconnectTimer \in BOOLEAN /\ parkTimer \in BOOLEAN
  /\ shuttingDown \in BOOLEAN
  /\ started \in {"pending", "resolved", "rejected"} /\ welcomed \in BOOLEAN

TokenTypes ==
  /\ {enrolToken, disk} \subseteq {Old, New} /\ good \subseteq {Old, New} /\ refresh \in BOOLEAN
  /\ currentRuntimes \in Probed /\ told \in Probed

CounterTypes ==
  /\ sincePong \in 0..K!Missed /\ beats \in 0..K!Missed
  /\ reconnectAttempts \in 0..MaxAttempts
  /\ linkFaults \in 0..MaxFaults /\ frames \in 0..MaxFrames

CallTypes ==
  /\ upgrading \in BOOLEAN
  /\ upgrade \in [K!Calls -> {"idle", "deciding", "applying", "restarting"}]
  /\ healthInFlight \in BOOLEAN /\ health \in [K!Calls -> {"idle", "probing"}]
  /\ pendingBlob \in [Blobs -> {"none", "waiting", "settled"}]

LinkInv ==
  /\ SocketTypes /\ CounterTypes /\ TokenTypes /\ CallTypes /\ Heir /\ K!AdvertisedIsCurrent
  /\ HeldByOne(upgrading, upgrade) /\ HeldByOne(healthInFlight, health)

\* The invariant of the link holds when the node starts.
LEMMA LinkInit == K!Init => LinkInv
<1> SUFFICES ASSUME K!Init PROVE LinkInv
  OBVIOUS
<1> USE RemoteAssumption DEF K!LinkAssumption, K!Init
<1>7. CounterTypes BY DEF CounterTypes, K!Missed
<1>1. SocketTypes BY DEF SocketTypes, K!Missed
<1>2. TokenTypes BY DEF TokenTypes
<1>3. CallTypes BY DEF CallTypes
<1>4. Heir /\ K!AdvertisedIsCurrent BY DEF Heir, K!AdvertisedIsCurrent
<1>5. HeldByOne(upgrading, upgrade) /\ HeldByOne(healthInFlight, health)
  BY DEF HeldByOne
<1>6. QED BY <1>7, <1>1, <1>2, <1>3, <1>4, <1>5 DEF LinkInv

USE DEF K!link, K!tokens, K!calls

\* The socket and its timers: whichever the handler, one of them takes over from another.
LEMMA ConnectionStep == ASSUME LinkInv, K!Connection PROVE LinkInv'
<1> USE RemoteAssumption DEF K!LinkAssumption, LinkInv, K!Connection, K!Opened, K!Rejected,
        K!Lost, K!GoSilent, K!Pong, K!Beat, K!Welcome, K!Reconnect, K!ParkPoll, K!Abort,
        K!StartupPoll, K!Revoke, K!Reenrol,
        K!Heard, K!Fault, K!StartHeartbeat, K!Closed, K!Settle, K!Park, K!Ticked, K!Missed
<1>1. SocketTypes' BY DEF SocketTypes
<1>2. CounterTypes' BY DEF CounterTypes
<1>3. TokenTypes' BY DEF TokenTypes
<1>4. CallTypes' BY DEF CallTypes
<1>5. Heir' BY DEF Heir
<1>6. K!AdvertisedIsCurrent' BY DEF K!AdvertisedIsCurrent
<1>7. (HeldByOne(upgrading, upgrade) /\ HeldByOne(healthInFlight, health))'
  BY DEF HeldByOne
<1> QED BY <1>1, <1>2, <1>3, <1>4, <1>5, <1>6, <1>7

\* The other frames: a handler takes the latch when it starts and frees it when it ends.
LEMMA TrafficStep == ASSUME LinkInv, K!Traffic PROVE LinkInv'
<1> USE RemoteAssumption DEF K!LinkAssumption, LinkInv, K!Calls, K!Spend, K!Frame,
        K!Heard, K!Began, K!BlobBecomes, K!BlobSettled, K!Traffic, K!Reprobe,
        K!UpgradeFrame, K!UpgradeDecided, K!UpgradeApplied, K!HealthFrame, K!HealthReported,
        K!RequestBlobUrl, K!BlobPutUrl, K!BlobTimeout
<1>1. SocketTypes' BY DEF SocketTypes
<1>2. CounterTypes' BY DEF CounterTypes
<1>3. TokenTypes' BY DEF TokenTypes
<1>4. CallTypes' BY DEF CallTypes
<1>5. Heir' BY DEF Heir
<1>6. K!AdvertisedIsCurrent' BY DEF K!AdvertisedIsCurrent
<1>7. HeldByOne(upgrading, upgrade)'
  BY DEF HeldByOne, CallTypes
<1>8. HeldByOne(healthInFlight, health)'
  BY DEF HeldByOne, CallTypes
<1> QED BY <1>1, <1>2, <1>3, <1>4, <1>5, <1>6, <1>7, <1>8

\* Every step of the link keeps it.
LEMMA LinkStep == LinkInv /\ [K!Next]_kVars => LinkInv'
<1>1. ASSUME LinkInv, UNCHANGED kVars PROVE LinkInv'
  BY <1>1 DEF kVars, LinkInv, SocketTypes, CounterTypes, TokenTypes, CallTypes, Heir, K!AdvertisedIsCurrent, HeldByOne
<1>2. QED
  BY <1>1, ConnectionStep, TrafficStep DEF K!Next

\* At most one handler is past its decision: at most one installs.
LEMMA LinkInvSound == LinkInv => LinkIsSound /\ K!TypeOK /\ K!AdvertisedIsCurrent
<1> SUFFICES ASSUME LinkInv PROVE LinkIsSound /\ K!TypeOK /\ K!AdvertisedIsCurrent
  OBVIOUS
<1>1. K!OneHeir
  BY DEF LinkInv, Heir, K!OneHeir
<1>2. K!LatchesAreHeld
  BY DEF LinkInv, HeldByOne, K!LatchesAreHeld
<1>3. K!OneInstall
  BY DEF LinkInv, HeldByOne, K!OneInstall
<1>4. K!TypeOK /\ K!AdvertisedIsCurrent
  BY DEF LinkInv, SocketTypes, CounterTypes, TokenTypes, CallTypes, K!TypeOK
<1>5. QED
  BY <1>1, <1>2, <1>3, <1>4 DEF LinkIsSound
-----------------------------------------------------------------------------
(***************************************************************************)
(* The runtimes advertised (CredentialLatch).                              *)
(***************************************************************************)
LatchInv == L!TypeOK /\ L!OnlyRefusalsLatch

\* Of all that a turn can come to, only a refusal puts a runtime on the latch.
LEMMA OnlyRefusalsCount ==
  ASSUME NEW st, st.turn \in L!Outcomes, L!Attributed(st)
  PROVE  st.turn = "refused"
BY DEF L!Outcomes, L!Attributed, L!Classify, L!Thrown

\* The invariant of the latch holds when the node starts.
LEMMA LatchInit == L!Init => LatchInv
BY DEF L!Init, LatchInv, L!TypeOK, L!OnlyRefusalsLatch

\* Every step of the latch keeps it.
LEMMA LatchStep == LatchInv /\ [L!Next]_lVars => LatchInv'
<1> SUFFICES ASSUME LatchInv, [L!Next]_lVars PROVE LatchInv'
  OBVIOUS
<1> USE DEF LatchInv, L!TypeOK, L!OnlyRefusalsLatch
<1>1. CASE L!Reprobe BY <1>1 DEF L!Reprobe, L!Detected
<1>2. ASSUME NEW s \in Slots, L!Cancel(s) PROVE LatchInv'
  BY <1>2 DEF L!Cancel
<1>3. ASSUME NEW s \in Slots, L!End(s) PROVE LatchInv'
  <2> DEFINE st == stage[s]
  <2>1. st.turn \in L!Outcomes /\ st.runtime \in AgentRuntimes
    BY <1>3 DEF L!End
  <2>2. L!Attributed(st) => st.turn = "refused"
    BY <2>1, OnlyRefusalsCount
  <2>3. L!Status(st) = "ok" => st.turn # "refused"
    BY DEF L!Status
  <2>4. bad' \subseteq refused' /\ bad' \subseteq AgentRuntimes /\ refused' \subseteq AgentRuntimes
    BY <1>3, <2>1, <2>2, <2>3 DEF L!End, L!Record
  <2>5. QED
    BY <1>3, <2>4 DEF L!End
<1>4. ASSUME NEW s \in Slots, NEW kind \in L!Kinds, NEW r \in AgentRuntimes,
             L!Dispatch(s, kind, r)
      PROVE  LatchInv'
  <2> DEFINE st == [kind |-> kind, runtime |-> r, good |-> pool[r], turn |-> "running",
                    cancelled |-> FALSE]
  <2>1. st \in [kind : L!Kinds, runtime : AgentRuntimes, good : BOOLEAN, turn : L!Outcomes,
                cancelled : BOOLEAN]
    BY DEF L!Outcomes
  <2>2. stage' = [stage EXCEPT ![s] = st] /\ UNCHANGED <<pool, capable, bad, lTold, refused>>
    BY <1>4 DEF L!Dispatch
  <2>3. QED
    BY <2>1, <2>2
<1>5. ASSUME NEW s \in Slots, NEW outcome \in L!Outcomes, L!Turn(s, outcome) PROVE LatchInv'
  BY <1>5 DEF L!Turn
<1>6. ASSUME NEW r \in AgentRuntimes, L!Revoke(r) \/ L!Renew(r) PROVE LatchInv'
  <2>1. pool' \in [AgentRuntimes -> BOOLEAN] /\ UNCHANGED <<capable, bad, lTold, refused>>
    BY <1>6 DEF L!Revoke, L!Renew
  <2>2. stage' \in [Slots -> {Free} \cup [kind : L!Kinds, runtime : AgentRuntimes,
                     good : BOOLEAN, turn : L!Outcomes, cancelled : BOOLEAN]]
    <3> DEFINE Stages == [kind : L!Kinds, runtime : AgentRuntimes, good : BOOLEAN,
                          turn : L!Outcomes, cancelled : BOOLEAN]
    <3>1. \A st \in Stages : [st EXCEPT !.good = FALSE] \in Stages
      OBVIOUS
    <3> HIDE DEF Stages
    <3>2. stage \in [Slots -> {Free} \cup Stages]
      BY DEF Stages
    <3>3. stage' \in [Slots -> {Free} \cup Stages]
      BY <1>6, <3>1, <3>2 DEF L!Revoke, L!Renew
    <3>4. QED
      BY <3>3 DEF Stages
  <2>3. QED
    BY <2>1, <2>2
<1>7. CASE UNCHANGED lVars BY <1>7 DEF lVars
<1>8. QED
  BY <1>1, <1>2, <1>3, <1>4, <1>5, <1>6, <1>7 DEF L!Next
-----------------------------------------------------------------------------
(***************************************************************************)
(* The update check (UpdateCheck).                                         *)
(***************************************************************************)

\* The fetch of the repeating timer, Idle if it waits for none.
Fetching == fetching["repeating"]

CheckTypes ==
  /\ age \in -Interval..U!Never /\ trueAge \in 0..U!Never
  /\ timer \in 0..U!Period /\ jitter \in U!Idle..Spread
  /\ fetching \in [U!Askers -> U!Idle..Fetch]
  /\ misses \in 0..U!Enough

\* The cached date is right unless the clock was set back; a fetch began with its period.
DateIsTrue == "clock set back" \notin upsets => age = trueAge
InStep == Fetching # U!Idle => timer + Fetching = U!Period

\* After an answer to the repeating timer its ticks come a fetch earlier than the periods of
\* the answer, so that the one that is due comes before the interval is over.
Paced ==
  settled /\ misses = 0 /\ upsets = {} =>
    /\ Fetching = U!Idle => \E f \in 0..Fetch :
         trueAge + timer + f \in {U!Period, 2 * U!Period, 3 * U!Period, 4 * U!Period}
    /\ Fetching # U!Idle => trueAge - Fetching <= Interval

\* The latest the next fetch of the repeating timer begins, or began, after an answer and so
\* many misses.
NextFetch == IF Fetching = U!Idle THEN trueAge + timer ELSE trueAge - Fetching
Due(periods) == Interval - U!Tolerance - 1 + periods

Hurried ==
  upsets = {} =>
    /\ misses = 0 => NextFetch <= Due(U!Period)
    /\ misses = 1 => NextFetch <= Due(2 * U!Period)
    /\ misses = 2 => NextFetch <= Due(3 * U!Period)

CheckInv ==
  /\ CheckTypes /\ settled \in BOOLEAN /\ upsets \subseteq U!Upsets
  /\ DateIsTrue /\ InStep /\ Paced /\ Hurried

\* The durations, as far as the proofs need them.
LEMMA Durations ==
  /\ U!Period \in Nat \ {0} /\ Interval = 4 * U!Period /\ Fetch \in Nat /\ Spread \in Nat
  /\ U!Tolerance \in Nat /\ Fetch <= U!Tolerance /\ U!Tolerance <= U!Period
  /\ Fetch + Spread < U!Period
  /\ U!Never = 8 * U!Period + 1 /\ U!Idle = -1 /\ U!Enough = 3
<1> USE RemoteAssumption DEF U!UpdateCheckAssumption
<1>1. U!Period \in Nat /\ Interval = 4 * U!Period
  BY DEF U!Period, U!TicksPerInterval
<1>2. QED
  BY <1>1 DEF U!Tolerance, U!Never, U!StaleAfterIntervals, U!Idle, U!Enough

\* The invariant of the check holds when the node starts.
LEMMA CheckInit == U!Init => CheckInv
<1> SUFFICES ASSUME U!Init PROVE CheckInv
  OBVIOUS
<1> USE Durations DEF U!Init
<1>1. CheckTypes BY DEF CheckTypes
<1>2. settled \in BOOLEAN /\ upsets \subseteq U!Upsets /\ upsets # {} BY DEF U!Upsets
<1>3. DateIsTrue /\ InStep BY DEF DateIsTrue, InStep, Fetching, U!Askers
<1>4. QED BY <1>1, <1>2, <1>3 DEF CheckInv, Paced, Hurried

\* An age that grows, and stops at its bound.
LEMMA OlderAge ==
  ASSUME NEW a \in -Interval..U!Never
  PROVE  /\ U!Older(a, Interval) \in 0..U!Never
         /\ U!Older(a, Interval) \in -Interval..U!Never
         /\ -Interval \in -Interval..U!Never
BY Durations DEF U!Older

\* Time passes.
LEMMA TickStep == ASSUME CheckInv, U!Tick PROVE CheckInv'
<1>1. CheckTypes' BY Durations DEF CheckInv, CheckTypes, U!Tick, U!Ask, U!Older, U!Askers, U!Saved
<1>2. Fetching \in U!Idle..Fetch /\ Fetching' = IF U!ShouldCheck /\ Fetching = U!Idle THEN 0 ELSE Fetching
  BY Durations DEF CheckInv, CheckTypes, Fetching, U!Tick, U!Ask, U!Askers
<1> USE Durations, <1>1, <1>2 DEF CheckInv, U!Tick, U!Older, CheckTypes, U!Saved
<1>3. settled' \in BOOLEAN /\ upsets' \subseteq U!Upsets BY DEF U!Upsets
<1>4. DateIsTrue' BY DEF DateIsTrue
<1>5. InStep' BY DEF InStep
<1>6. Paced' BY DEF Paced, DateIsTrue, InStep, U!ShouldCheck
<1>7. Hurried' BY DEF Hurried, NextFetch, Due, DateIsTrue, InStep, U!ShouldCheck
<1> QED BY <1>3, <1>4, <1>5, <1>6, <1>7

\* The first tick and the offer of an update ask, or find the answer fresh.
LEMMA OthersAskStep == ASSUME CheckInv, U!FirstTick \/ U!OfferUpdate PROVE CheckInv'
<1>1. CheckTypes' BY Durations DEF CheckInv, CheckTypes, U!FirstTick, U!OfferUpdate, U!Ask, U!Older, U!Askers, U!Saved
<1>2. Fetching \in U!Idle..Fetch /\ Fetching' = Fetching
  BY Durations DEF CheckInv, CheckTypes, Fetching, U!FirstTick, U!OfferUpdate, U!Ask, U!Askers
<1> USE Durations, <1>1, <1>2 DEF CheckInv, U!FirstTick, U!OfferUpdate, U!Older, CheckTypes, U!Saved
<1>3. settled' \in BOOLEAN /\ upsets' \subseteq U!Upsets BY DEF U!Upsets
<1>4. DateIsTrue' BY DEF DateIsTrue
<1>5. InStep' BY DEF InStep
<1>6. Paced' BY DEF Paced, DateIsTrue, InStep, U!ShouldCheck
<1>7. Hurried' BY DEF Hurried, NextFetch, Due, DateIsTrue, InStep, U!ShouldCheck
<1> QED BY <1>3, <1>4, <1>5, <1>6, <1>7

\* The timer goes off.
LEMMA PassStep == ASSUME CheckInv, U!Pass PROVE CheckInv'
<1>1. CheckTypes' BY Durations DEF CheckInv, CheckTypes, U!Pass, U!Ask, U!Older, U!Askers, U!Saved
<1>2. Fetching \in U!Idle..Fetch /\ Fetching' = (IF Fetching = U!Idle THEN U!Idle ELSE Fetching + 1) /\ Fetching < Fetch
  BY Durations DEF CheckInv, CheckTypes, Fetching, U!Pass, U!Ask, U!Askers
<1> USE Durations, <1>1, <1>2 DEF CheckInv, U!Pass, U!Older, CheckTypes, U!Saved
<1>3. settled' \in BOOLEAN /\ upsets' \subseteq U!Upsets BY DEF U!Upsets
<1>4. DateIsTrue' BY DEF DateIsTrue
<1>5. InStep' BY DEF InStep
<1>6. Paced' BY DEF Paced, DateIsTrue, InStep, U!ShouldCheck
<1>7. Hurried' BY DEF Hurried, NextFetch, Due, DateIsTrue, InStep, U!ShouldCheck
<1> QED BY <1>3, <1>4, <1>5, <1>6, <1>7

\* The wall clock jumps.
LEMMA ClockJumpsStep == ASSUME CheckInv, U!ClockJumps PROVE CheckInv'
<1>1. /\ upsets = {} /\ UNCHANGED <<timer, jitter, fetching, misses, settled>>
      /\ \/ upsets' = {"clock set back"} /\ age' = -Interval /\ trueAge' = trueAge
         \/ /\ upsets' = {"asleep"}
            /\ age' = U!Older(age, Interval) /\ trueAge' = U!Older(trueAge, Interval)
  BY DEF U!ClockJumps
<1>2. CheckTypes'
  <2>1. age' \in -Interval..U!Never /\ trueAge' \in 0..U!Never
    <3>1. age \in -Interval..U!Never /\ trueAge \in 0..U!Never
      BY DEF CheckInv, CheckTypes
    <3>2. trueAge \in -Interval..U!Never
      BY <3>1, Durations
    <3>3. CASE upsets' = {"clock set back"} /\ age' = -Interval /\ trueAge' = trueAge
      BY <3>1, <3>3, OlderAge
    <3>4. CASE age' = U!Older(age, Interval) /\ trueAge' = U!Older(trueAge, Interval)
      BY <3>1, <3>2, <3>4, OlderAge
    <3>5. QED
      BY <1>1, <3>3, <3>4
  <2>2. QED
    BY <1>1, <2>1 DEF CheckInv, CheckTypes
<1>3. DateIsTrue' /\ upsets' # {} /\ upsets' \subseteq U!Upsets
  BY <1>1 DEF CheckInv, DateIsTrue, U!Upsets
<1>4. InStep'
  BY <1>1 DEF CheckInv, InStep, Fetching
<1>5. QED
  BY <1>1, <1>2, <1>3, <1>4 DEF CheckInv, Paced, Hurried

\* The node restarts, with what the file says.
LEMMA RestartStep == ASSUME CheckInv, U!Restart PROVE CheckInv'
<1>1. CheckTypes' BY Durations DEF CheckInv, CheckTypes, U!Restart, U!Ask, U!Older, U!Askers, U!Saved
<1>2. Fetching \in U!Idle..Fetch /\ Fetching' = U!Idle
  BY Durations DEF CheckInv, CheckTypes, Fetching, U!Restart, U!Ask, U!Askers
<1> USE Durations, <1>1, <1>2 DEF CheckInv, U!Restart, U!Older, CheckTypes, U!Saved
<1>3. settled' \in BOOLEAN /\ upsets' \subseteq U!Upsets BY DEF U!Upsets
<1>4. DateIsTrue' BY DEF DateIsTrue
<1>5. InStep' BY DEF InStep
<1>6. Paced' BY DEF Paced, DateIsTrue, InStep, U!ShouldCheck
<1>7. Hurried' BY DEF Hurried, NextFetch, Due, DateIsTrue, InStep, U!ShouldCheck
<1> QED BY <1>3, <1>4, <1>5, <1>6, <1>7

\* An answer arrives.
LEMMA AnsweredStep == ASSUME CheckInv, NEW a \in U!Askers, U!Answered(a) PROVE CheckInv'
<1> USE Durations DEF CheckInv
<1>1. CheckTypes'
  BY DEF CheckTypes, U!Answered, U!Askers
<1>2. /\ Fetching \in U!Idle..Fetch /\ timer \in 0..U!Period
      /\ Fetching' = IF a = "repeating" THEN U!Idle ELSE Fetching
      /\ a = "repeating" => Fetching # U!Idle
  BY DEF CheckTypes, Fetching, U!Answered, U!Askers
<1>3. /\ age' = 0 /\ trueAge' = 0 /\ misses' = 0 /\ upsets' = {} /\ timer' = timer
      /\ settled' = (a = "repeating")
  BY DEF U!Answered
<1>4. DateIsTrue' /\ settled' \in BOOLEAN /\ upsets' \subseteq U!Upsets
  BY <1>3 DEF DateIsTrue
<1>5. InStep'
  BY <1>2, <1>3 DEF InStep
<1>6. Paced'
  <2>1. CASE a = "repeating"
    <3>1. Fetching \in 0..Fetch /\ timer + Fetching = U!Period /\ Fetching' = U!Idle
      BY <1>2, <2>1 DEF InStep
    <3>2. Fetching \in 0..Fetch /\ trueAge' + timer' + Fetching = U!Period
      BY <3>1, <1>2, <1>3
    <3>3. (\E f \in 0..Fetch : trueAge + timer + f \in
             {U!Period, 2 * U!Period, 3 * U!Period, 4 * U!Period})'
      BY <3>2
    <3>4. QED
      BY <3>1, <3>3 DEF Paced
  <2>2. CASE a # "repeating"
    BY <2>2, <1>3 DEF Paced
  <2>3. QED
    BY <2>1, <2>2
<1>7. Hurried'
  <2>1. (NextFetch <= Due(U!Period))'
    BY <1>2, <1>3 DEF NextFetch, Due
  <2>2. QED
    BY <2>1, <1>3 DEF Hurried
<1>8. QED
  BY <1>1, <1>4, <1>5, <1>6, <1>7

\* A fetch fails.
LEMMA FailedStep == ASSUME CheckInv, NEW a \in U!Askers, U!Failed(a) PROVE CheckInv'
<1>1. CheckTypes' BY Durations DEF CheckInv, CheckTypes, U!Failed, U!Ask, U!Older, U!Askers, U!Saved
<1>2. Fetching \in U!Idle..Fetch /\ Fetching' = (IF a = "repeating" THEN U!Idle ELSE Fetching) /\ (a = "repeating" => Fetching # U!Idle)
  BY Durations DEF CheckInv, CheckTypes, Fetching, U!Failed, U!Ask, U!Askers
<1> USE Durations, <1>1, <1>2 DEF CheckInv, U!Failed, U!Older, CheckTypes, U!Saved
<1>3. settled' \in BOOLEAN /\ upsets' \subseteq U!Upsets BY DEF U!Upsets
<1>4. DateIsTrue' BY DEF DateIsTrue
<1>5. InStep' BY DEF InStep
<1>6. Paced' BY DEF Paced, DateIsTrue, InStep, U!ShouldCheck
<1>7. Hurried' BY DEF Hurried, NextFetch, Due, DateIsTrue, InStep, U!ShouldCheck
<1> QED BY <1>3, <1>4, <1>5, <1>6, <1>7

\* Every step of the check keeps its invariant.
LEMMA CheckStep == CheckInv /\ [U!Next]_uVars => CheckInv'
<1>1. ASSUME CheckInv, UNCHANGED uVars PROVE CheckInv'
  BY <1>1 DEF uVars, CheckInv, CheckTypes, DateIsTrue, InStep, Paced, Hurried, NextFetch, Due,
         Fetching, U!Tolerance, U!Never, U!Period
<1>2. QED
  BY <1>1, TickStep, OthersAskStep, PassStep, ClockJumpsStep, RestartStep, AnsweredStep, FailedStep
  DEF U!Next

\* While less than three fetches failed, the next answer is due before the last is stale.
LEMMA NotYetStale ==
  ASSUME CheckInv, upsets = {}, misses \in 0..2
  PROVE  trueAge < 2 * Interval
<1>1. trueAge \in Nat /\ timer \in Nat /\ Fetching \in U!Idle..Fetch
  BY Durations DEF CheckInv, CheckTypes, Fetching, U!Askers
<1>2. NextFetch <= Due(3 * U!Period)
  <2>1. NextFetch \in Int
    BY <1>1, Durations DEF NextFetch
  <2>2. Due(U!Period) <= Due(3 * U!Period) /\ Due(2 * U!Period) <= Due(3 * U!Period)
        /\ Due(U!Period) \in Int /\ Due(2 * U!Period) \in Int /\ Due(3 * U!Period) \in Int
    BY Durations DEF Due
  <2>3. CASE misses = 0
    BY <2>1, <2>2, <2>3 DEF CheckInv, Hurried
  <2>4. CASE misses = 1
    BY <2>1, <2>2, <2>4 DEF CheckInv, Hurried
  <2>5. CASE misses = 2
    BY <2>5 DEF CheckInv, Hurried
  <2>6. QED
    BY <2>3, <2>4, <2>5
<1>3. trueAge <= NextFetch + Fetch
  BY <1>1, Durations DEF NextFetch
<1>4. QED
  BY <1>1, <1>2, <1>3, Durations DEF NextFetch, Due

\* What the words of `status` rest on.
LEMMA CheckInvTrue ==
  CheckInv => U!TypeOK /\ U!CadenceHolds /\ U!VouchedIsTrue /\ U!StaleMeansTrouble
<1> SUFFICES ASSUME CheckInv
             PROVE  U!TypeOK /\ U!CadenceHolds /\ U!VouchedIsTrue /\ U!StaleMeansTrouble
  OBVIOUS
<1>1. U!TypeOK
  BY DEF CheckInv, CheckTypes, U!TypeOK
<1>2. Fetching \in U!Idle..Fetch /\ trueAge \in 0..U!Never /\ timer \in 0..U!Period
  BY DEF CheckInv, CheckTypes, Fetching, U!Askers
<1>3. U!CadenceHolds
  BY <1>2, Durations DEF CheckInv, Paced, U!CadenceHolds
<1>4. U!VouchedIsTrue
  BY DEF CheckInv, DateIsTrue, U!VouchedIsTrue, U!Currency, U!IsVouchable, U!IsStale
<1>5. U!StaleMeansTrouble
  <2>1. misses \in 0..3 /\ U!Enough = 3 /\ trueAge \in Int /\ Interval \in Nat
    BY <1>2, Durations DEF CheckInv, CheckTypes
  <2>2. upsets = {} /\ U!IsStale => trueAge >= 2 * Interval
    BY DEF CheckInv, DateIsTrue, U!IsStale, U!StaleAfterIntervals
  <2>3. upsets = {} /\ misses \in 0..2 => trueAge < 2 * Interval
    BY NotYetStale
  <2>4. upsets = {} /\ U!IsStale => misses >= U!Enough
    BY <2>1, <2>2, <2>3
  <2>5. QED
    BY <2>4 DEF U!StaleMeansTrouble, U!Currency, U!IsVouchable
<1>6. QED
  BY <1>1, <1>3, <1>4, <1>5
-----------------------------------------------------------------------------
(***************************************************************************)
(* The log records (LogShipper).  Records are numbered as they are written,*)
(* and a ring that holds the newest splits them: what left it has a number *)
(* below all that wait.                                                    *)
(***************************************************************************)
LEMMA LogShipperFacts == BufferMax \in Nat \ {0} /\ BatchMax \in Nat \ {0} /\ MaxRecords \in Nat
BY RemoteAssumption DEF LogShipperAssumption

PolicyTypes ==
  /\ ceiling \in Policies /\ policy \in Policies
  /\ policy.logs <= ceiling.logs /\ (policy.health => ceiling.health)
  /\ line \in {"up", "down", "half-open"}
  /\ healthSeen \in BOOLEAN /\ (healthSeen => ceiling.health)

RecordTypes ==
  /\ buffer \in Seq(Records) /\ written \in Seq(Records) /\ arrived \in Seq(Records)
  /\ lost \subseteq Records /\ cleared \subseteq Records

RingFits ==
  /\ Len(buffer) <= BufferMax /\ Len(written) <= MaxRecords
  /\ dropped \in Nat /\ dropped + Len(buffer) <= Len(written)

\* The record at i has the number i, and a level the operator permits.
Numbered == \A i \in 1..Len(written) : written[i].n = i /\ written[i].level <= ceiling.logs

\* What is no longer in the ring, whichever way it went.
Gone == ToSet(arrived) \cup lost \cup cleared

\* ... was written before all that is.
GoneIsOlder ==
  \A r \in Gone : r.n \in 1..(Len(written) - Len(buffer)) /\ r.level <= ceiling.logs

Missing == ToSet(written) \ (Gone \cup ToSet(buffer))

Counted == IsFiniteSet(Missing) /\ dropped = Cardinality(Missing)

ShipInv ==
  /\ PolicyTypes /\ RecordTypes /\ RingFits
  /\ Numbered /\ NewestWaits /\ GoneIsOlder /\ Counted /\ ShippedInOrder /\ OffIsFinal

\* The ring's place in the history of what was written.
LEMMA RingPlace ==
  ASSUME RecordTypes, RingFits, Numbered, NewestWaits
  PROVE  /\ Len(buffer) \in Nat /\ Len(written) \in Nat /\ Len(buffer) <= Len(written)
         /\ \A i \in 1..Len(buffer) :
              /\ buffer[i] \in Records
              /\ buffer[i].n = Len(written) - Len(buffer) + i
              /\ buffer[i].level <= ceiling.logs
         /\ ToSet(buffer) = {buffer[i] : i \in 1..Len(buffer)}
         /\ Injective(buffer)
<1>1. Len(buffer) \in Nat /\ Len(written) \in Nat /\ Len(buffer) <= Len(written)
  BY LenProperties DEF RecordTypes, RingFits
<1>2. ASSUME NEW i \in 1..Len(buffer)
      PROVE  /\ buffer[i] \in Records
             /\ buffer[i].n = Len(written) - Len(buffer) + i
             /\ buffer[i].level <= ceiling.logs
  <2>1. Len(written) - Len(buffer) + i \in 1..Len(written)
    BY <1>1
  <2>2. buffer[i] \in Records /\ buffer[i] = written[Len(written) - Len(buffer) + i]
    BY ElementOfSeq, LenProperties DEF RecordTypes, NewestWaits
  <2> QED BY <2>1, <2>2 DEF Numbered
<1>3. ToSet(buffer) = {buffer[i] : i \in 1..Len(buffer)}
  BY ToSetOfSeq DEF RecordTypes
<1>4. Injective(buffer)
  <2> SUFFICES ASSUME NEW i \in 1..Len(buffer), NEW k \in 1..Len(buffer),
                      buffer[i] = buffer[k]
               PROVE  i = k
    BY DEF Injective
  <2>1. Len(written) - Len(buffer) + i = Len(written) - Len(buffer) + k
    BY <1>2
  <2> QED BY <2>1, <1>1
<1> QED BY <1>1, <1>2, <1>3, <1>4

\* The invariant of the shipper holds when it is created.
LEMMA ShipInit == Init => ShipInv
<1> SUFFICES ASSUME Init PROVE ShipInv
  OBVIOUS
<1> USE LogShipperFacts DEF Init
<1>1. PolicyTypes
  <2>1. PICK b \in BOOLEAN, n \in {0, 4} : ceiling = [health |-> b, logs |-> n]
    BY DEF Ceilings, Off, Debug
  <2>2. policy = [health |-> b, logs |-> 0]
    BY <2>1 DEF Clamp, Off
  <2>3. ceiling \in Policies /\ policy \in Policies
    BY <2>1, <2>2 DEF Policies, Levels, Off, Error, Debug
  <2>4. policy.logs <= ceiling.logs /\ (policy.health => ceiling.health)
    BY <2>1, <2>2
  <2> QED BY <2>3, <2>4 DEF PolicyTypes
<1>2. RecordTypes
  BY EmptySeq DEF RecordTypes
<1>3. Len(buffer) = 0 /\ Len(written) = 0 /\ Len(arrived) = 0
  OBVIOUS
<1>4. ToSet(arrived) = {} /\ ToSet(buffer) = {} /\ ToSet(written) = {}
  BY ToSetOfEmpty
<1>5. RingFits /\ Numbered
  BY <1>3 DEF RingFits, Numbered
<1>6. NewestWaits /\ ShippedInOrder
  BY <1>3, <1>2, LenProperties DEF NewestWaits, ShippedInOrder, RecordTypes
<1>7. GoneIsOlder /\ OffIsFinal
  BY <1>4 DEF GoneIsOlder, OffIsFinal, Gone
<1>8. Counted
  <2>1. Missing = {}
    BY <1>4 DEF Missing
  <2> QED BY <2>1, FS_EmptySet DEF Counted
<1> QED BY <1>1, <1>2, <1>5, <1>6, <1>7, <1>8 DEF ShipInv

\* Clamping: no policy in force permits more than the operator.
LEMMA Clamped ==
  ASSUME ceiling \in Policies, NEW p \in Policies
  PROVE  /\ Clamp(p) \in Policies
         /\ Clamp(p).logs <= ceiling.logs /\ (Clamp(p).health => ceiling.health)
<1>1. /\ p.logs \in {0, 1, 4} /\ p.health \in BOOLEAN
      /\ ceiling.logs \in {0, 1, 4} /\ ceiling.health \in BOOLEAN
  BY DEF Policies, Levels, Off, Error, Debug
<1> DEFINE logs == IF p.logs > ceiling.logs THEN ceiling.logs ELSE p.logs
           heal == p.health /\ ceiling.health
<1>2. logs \in {0, 1, 4} /\ logs <= ceiling.logs
  BY <1>1
<1>3. heal \in BOOLEAN /\ (heal => ceiling.health)
  BY <1>1
<1>4. Clamp(p) = [health |-> heal, logs |-> logs]
  BY DEF Clamp
<1> HIDE DEF logs, heal
<1>5. Clamp(p) \in [health : BOOLEAN, logs : {0, 1, 4}]
  BY <1>2, <1>3, <1>4
<1> QED BY <1>2, <1>3, <1>4, <1>5 DEF Policies, Levels, Off, Error, Debug

\* A policy that turns the logs off empties the ring; no other touches it.
LEMMA SetPolicyStep == ASSUME ShipInv, SetPolicy PROVE ShipInv'
<1>1. PICK p \in Policies : policy' = Clamp(p) /\ Queued(Clamp(p).logs)
  BY DEF SetPolicy
<1>2. UNCHANGED <<ceiling, dropped, line, written, arrived, lost, healthSeen>>
  BY DEF SetPolicy
<1>3. PolicyTypes'
  BY <1>1, <1>2, Clamped DEF ShipInv, PolicyTypes
<1>4. CASE UNCHANGED <<buffer, cleared>>
  BY <1>2, <1>3, <1>4 DEF ShipInv, RecordTypes, RingFits, Numbered, NewestWaits, GoneIsOlder,
     Gone, Counted, Missing, ShippedInOrder, OffIsFinal
<1>5. CASE buffer' = <<>> /\ cleared' = cleared \cup ToSet(buffer)
  <2> USE DEF ShipInv
  <2>1. /\ Len(buffer) \in Nat /\ Len(written) \in Nat /\ Len(buffer) <= Len(written)
        /\ \A i \in 1..Len(buffer) :
             /\ buffer[i] \in Records
             /\ buffer[i].n = Len(written) - Len(buffer) + i
             /\ buffer[i].level <= ceiling.logs
        /\ ToSet(buffer) = {buffer[i] : i \in 1..Len(buffer)}
    BY RingPlace
  <2>2. /\ Len(buffer') = 0 /\ ToSet(buffer') = {} /\ buffer' \in Seq(Records)
        /\ DOMAIN buffer' = {}
    <3>1. Len(buffer') = 0 /\ buffer' \in Seq(Records)
      BY <1>5, EmptySeq
    <3>2. DOMAIN buffer' = 1..0
      BY <3>1, LenProperties
    <3> QED BY <3>1, <3>2, <1>5, ToSetOfEmpty
  <2>3. RecordTypes'
    BY <2>1, <2>2, <1>2, <1>5 DEF RecordTypes
  <2>4. RingFits' /\ Numbered' /\ NewestWaits' /\ ShippedInOrder'
    BY <2>1, <2>2, <1>2, LogShipperFacts
    DEF RingFits, Numbered, NewestWaits, ShippedInOrder
  <2>5. GoneIsOlder'
    <3> SUFFICES ASSUME NEW r \in Gone'
                 PROVE  r.n \in 1..Len(written) /\ r.level <= ceiling.logs
      BY <1>2, <2>1, <2>2 DEF GoneIsOlder
    <3>1. CASE r \in Gone
      <4>1. r.n \in 1..(Len(written) - Len(buffer)) /\ r.level <= ceiling.logs
        BY <3>1 DEF GoneIsOlder
      <4> QED BY <4>1, <2>1
    <3>2. CASE r \in ToSet(buffer)
      <4>1. PICK i \in 1..Len(buffer) : r = buffer[i]
        BY <3>2, <2>1
      <4> QED BY <4>1, <2>1
    <3> QED BY <3>1, <3>2, <1>2, <1>5 DEF Gone
  <2>6. Missing' = Missing
    BY <1>2, <1>5, <2>2 DEF Missing, Gone
  <2>7. Counted'
    BY <1>2, <2>6 DEF Counted
  <2>8. OffIsFinal'
    <3> SUFFICES ASSUME NEW r \in ToSet(buffer), r \in ToSet(arrived)
                 PROVE  FALSE
      BY <1>2, <1>5 DEF OffIsFinal
    <3>1. PICK i \in 1..Len(buffer) : r = buffer[i]
      BY <2>1
    <3>2. r.n \in 1..(Len(written) - Len(buffer))
      BY DEF GoneIsOlder, Gone
    <3> QED BY <3>1, <3>2, <2>1
  <2> QED BY <1>3, <2>3, <2>4, <2>5, <2>7, <2>8
<1> QED BY <1>1, <1>4, <1>5 DEF Queued

\* A record goes in at the end, and at the bound pushes out the oldest, which is then missing.
LEMMA OfferStep == ASSUME ShipInv, Offer PROVE ShipInv'
<1> DEFINE n == Len(written)
           m == Len(buffer)
<1>1. PICK level \in Levels \ {Off} :
        LET record == [n |-> n + 1, level |-> level] IN
        /\ n < MaxRecords /\ policy.logs # Off /\ level <= policy.logs
        /\ buffer' = Kept(Append(buffer, record)) /\ written' = Append(written, record)
        /\ dropped' = IF m >= BufferMax THEN dropped + 1 ELSE dropped
  BY DEF Offer
<1> DEFINE r == [n |-> n + 1, level |-> level]
           q == Append(buffer, r)
<1>2. UNCHANGED <<ceiling, policy, line, arrived, lost, cleared, healthSeen>>
  BY DEF Offer
<1> USE DEF ShipInv
<1>3. /\ m \in Nat /\ n \in Nat /\ m <= n /\ m <= BufferMax
      /\ \A i \in 1..m : buffer[i] \in Records /\ buffer[i].n = n - m + i
      /\ ToSet(buffer) = {buffer[i] : i \in 1..m} /\ Injective(buffer)
  BY RingPlace DEF RingFits
<1>4. r \in Records /\ r.n = n + 1 /\ r.level <= ceiling.logs
  <2>1. n + 1 \in 1..MaxRecords
    BY <1>1, <1>3, LogShipperFacts
  <2>2. level <= ceiling.logs
    <3>1. policy.logs \in {0, 1, 4} /\ ceiling.logs \in {0, 1, 4} /\ level \in {0, 1, 4}
      BY DEF PolicyTypes, Policies, Levels, Off, Error, Debug
    <3> QED BY <3>1, <1>1 DEF PolicyTypes
  <2> QED BY <2>1, <2>2 DEF Records
<1> HIDE DEF r
<1>5. /\ written' \in Seq(Records) /\ Len(written') = n + 1
      /\ \A i \in 1..n : written'[i] = written[i]
      /\ written'[n + 1] = r
      /\ ToSet(written') = ToSet(written) \cup {r}
  BY <1>1, <1>4, AppendProperties, ToSetOfAppend DEF RecordTypes, r
<1>6. r \notin ToSet(written)
  <2> SUFFICES ASSUME r \in ToSet(written) PROVE FALSE
    OBVIOUS
  <2>1. PICK i \in 1..n : r = written[i]
    BY ToSetOfSeq DEF RecordTypes
  <2>2. written[i].n = i
    BY DEF Numbered
  <2> QED BY <2>1, <2>2, <1>3, <1>4
<1>7. /\ q \in Seq(Records) /\ q # <<>> /\ Len(q) = m + 1
      /\ ToSet(q) = ToSet(buffer) \cup {r}
      /\ \A i \in 1..m : q[i] = buffer[i]
      /\ q[m + 1] = r
  BY <1>4, AppendProperties, ToSetOfAppend DEF RecordTypes
<1>8. r \notin ToSet(buffer) /\ Injective(q)
  <2>1. r \notin ToSet(buffer)
    <3> SUFFICES ASSUME NEW i \in 1..m, r = buffer[i] PROVE FALSE
      BY <1>3
    <3> QED BY <1>3, <1>4
  <2> QED BY <2>1, <1>3, <1>4, ToSetOfAppend DEF RecordTypes
<1>9. \A i \in 1..(m + 1) : q[i] = written'[n - m + i]
  <2> SUFFICES ASSUME NEW i \in 1..(m + 1) PROVE q[i] = written'[n - m + i]
    OBVIOUS
  <2>1. CASE i = m + 1
    <3>1. n - m + i = n + 1
      BY <2>1, <1>3
    <3> QED BY <3>1, <2>1, <1>5, <1>7
  <2>2. CASE i # m + 1
    <3>1. i \in 1..m /\ n - m + i \in 1..n
      BY <2>2, <1>3
    <3>2. buffer[i] = written[n - m + i]
      BY <3>1, LenProperties DEF NewestWaits, RecordTypes
    <3> QED BY <3>1, <3>2, <1>5, <1>7
  <2> QED BY <2>1, <2>2
<1> HIDE DEF q
<1>10. PolicyTypes' /\ ShippedInOrder' /\ OffIsFinal' /\ Gone' = Gone
  BY <1>2 DEF PolicyTypes, ShippedInOrder, OffIsFinal, Gone
<1>11. Numbered'
  <2> SUFFICES ASSUME NEW i \in 1..(n + 1)
               PROVE  written'[i].n = i /\ written'[i].level <= ceiling.logs
    BY <1>2, <1>5 DEF Numbered
  <2>1. CASE i \in 1..n
    BY <2>1, <1>5 DEF Numbered
  <2>2. CASE i = n + 1
    BY <2>2, <1>4, <1>5
  <2> QED BY <2>1, <2>2, <1>3
<1>12. CASE m < BufferMax
  <2>1. buffer' = q /\ dropped' = dropped
    BY <1>1, <1>3, <1>7, <1>12, LogShipperFacts DEF Kept, q, r
  <2>2. RecordTypes' /\ RingFits'
    BY <2>1, <1>1, <1>2, <1>3, <1>5, <1>7, <1>12, LogShipperFacts DEF RecordTypes, RingFits
  <2>3. NewestWaits'
    <3>1. DOMAIN buffer' = 1..(m + 1) /\ (n + 1) - (m + 1) = n - m
      BY <2>1, <1>3, <1>7, LenProperties
    <3> QED BY <3>1, <2>1, <1>5, <1>7, <1>9 DEF NewestWaits
  <2>4. GoneIsOlder'
    <3>1. Len(written') - Len(buffer') = n - m
      BY <2>1, <1>3, <1>5, <1>7
    <3> QED BY <3>1, <1>2, <1>10 DEF GoneIsOlder
  <2>5. Missing' = Missing
    BY <2>1, <1>5, <1>6, <1>7, <1>10 DEF Missing
  <2>6. Counted'
    BY <2>1, <2>5 DEF Counted
  <2> QED BY <2>2, <2>3, <2>4, <2>6, <1>10, <1>11
<1>13. CASE m = BufferMax
  <2> DEFINE h == Head(q)
  <2>1. buffer' = Tail(q) /\ dropped' = dropped + 1
    BY <1>1, <1>3, <1>7, <1>13, LogShipperFacts DEF Kept, q, r
  <2>2. /\ buffer' \in Seq(Records) /\ Len(buffer') = m
        /\ \A i \in 1..m : buffer'[i] = q[i + 1]
    BY <2>1, <1>3, <1>7, HeadTailProperties
  <2>3. m \in Nat \ {0} /\ h = buffer[1] /\ h \in ToSet(buffer) /\ h \in ToSet(written)
    <3>1. m \in Nat \ {0} /\ n - m + 1 \in 1..n
      BY <1>3, <1>13, LogShipperFacts
    <3>2. h = buffer[1]
      BY <3>1, <1>7
    <3>3. buffer[1] = written[n - m + 1]
      BY <3>1, LenProperties DEF NewestWaits, RecordTypes
    <3>4. written[n - m + 1] \in ToSet(written)
      BY <3>1, ToSetOfSeq DEF RecordTypes
    <3> QED BY <3>1, <3>2, <3>3, <3>4, <1>3
  <2>4. ToSet(buffer') = (ToSet(buffer) \cup {r}) \ {h}
    BY <2>1, <1>7, <1>8, ToSetOfTail
  <2>5. h \notin Gone
    <3>1. h.n = n - m + 1
      BY <2>3, <1>3
    <3> QED BY <3>1, <1>3 DEF GoneIsOlder
  <2>6. RecordTypes' /\ RingFits'
    BY <2>1, <2>2, <1>1, <1>2, <1>3, <1>5, LogShipperFacts DEF RecordTypes, RingFits
  <2>7. NewestWaits'
    <3>1. DOMAIN buffer' = 1..m /\ (n + 1) - m = n - m + 1
      BY <2>2, <1>3, LenProperties
    <3>2. ASSUME NEW i \in 1..m PROVE buffer'[i] = written'[(n - m + 1) + i]
      <4>1. i + 1 \in 1..(m + 1) /\ n - m + (i + 1) = (n - m + 1) + i
        BY <1>3
      <4>2. q[i + 1] = written'[n - m + (i + 1)]
        BY <4>1, <1>9
      <4> QED BY <4>1, <4>2, <2>2
    <3> QED BY <3>1, <3>2, <2>2, <1>5 DEF NewestWaits
  <2>8. GoneIsOlder'
    <3>1. Len(written') - Len(buffer') = n - m + 1
      BY <2>2, <1>3, <1>5
    <3>2. ASSUME NEW x \in 1..(n - m) PROVE x \in 1..(n - m + 1)
      BY <1>3
    <3> QED BY <3>1, <3>2, <1>2, <1>10 DEF GoneIsOlder
  <2>9. Missing' = Missing \cup {h} /\ h \notin Missing
    BY <2>3, <2>4, <2>5, <1>5, <1>6, <1>10 DEF Missing
  <2>10. Counted'
    BY <2>1, <2>9, FS_AddElement DEF Counted
  <2> QED BY <2>6, <2>7, <2>8, <2>10, <1>10, <1>11
<1> QED BY <1>3, <1>12, <1>13, LogShipperFacts

\* A batch leaves the front of the ring for the hub, or for a socket that swallows it.
LEMMA FlushStep == ASSUME ShipInv, Flush PROVE ShipInv'
<1> DEFINE n == Len(written)
           m == Len(buffer)
           k == IF m < BatchMax THEN m ELSE BatchMax
           front == SubSeq(buffer, 1, k)
           back  == SubSeq(buffer, k + 1, m)
<1>1. UNCHANGED <<ceiling, policy, dropped, line, written, cleared, healthSeen>>
  BY DEF Flush
<1> USE DEF ShipInv
<1>2. /\ m \in Nat /\ n \in Nat /\ m <= n
      /\ \A i \in 1..m : /\ buffer[i] \in Records /\ buffer[i].n = n - m + i
                         /\ buffer[i].level <= ceiling.logs
      /\ ToSet(buffer) = {buffer[i] : i \in 1..m}
  BY RingPlace
<1>3. k \in 0..m
  BY <1>2, LogShipperFacts
<1> HIDE DEF k
<1>4. /\ front \in Seq(Records) /\ Len(front) = k /\ \A i \in 1..k : front[i] = buffer[i]
      /\ back \in Seq(Records) /\ Len(back) = m - k
      /\ \A i \in 1..(m - k) : back[i] = buffer[k + i]
      /\ ToSet(buffer) = ToSet(front) \cup ToSet(back)
  BY <1>3, ToSetOfCut DEF RecordTypes
<1>5. Batch = front /\ Len(Batch) = k
  BY <1>4 DEF Batch, k
<1> HIDE DEF front, back
<1>6. ToSet(front) = {front[i] : i \in 1..k}
  BY <1>4, ToSetOfSeq
<1>7. PolicyTypes' /\ Numbered'
  BY <1>1 DEF PolicyTypes, Numbered
<1>8. CASE line = "down"
  <2>1. UNCHANGED <<buffer, arrived, lost>>
    BY <1>8 DEF Flush, Taken
  <2> QED BY <2>1, <1>1, <1>7 DEF RecordTypes, RingFits, NewestWaits, GoneIsOlder,
     Gone, Counted, Missing, ShippedInOrder, OffIsFinal
<1>9. CASE line \in {"up", "half-open"}
  <2>1. /\ buffer' = back
        /\ \/ arrived' = arrived \o front /\ lost' = lost
           \/ arrived' = arrived /\ lost' = lost \cup ToSet(front)
    BY <1>5, <1>9 DEF Flush, Taken, back
  <2>2. ToSet(arrived') \in {ToSet(arrived), ToSet(arrived) \cup ToSet(front)}
        /\ arrived' \in Seq(Records) /\ Gone' = Gone \cup ToSet(front)
    <3>1. CASE arrived' = arrived \o front /\ lost' = lost
      <4>1. ToSet(arrived') = ToSet(arrived) \cup ToSet(front) /\ arrived' \in Seq(Records)
        BY <3>1, <1>4, ToSetOfConcat, ConcatProperties DEF RecordTypes
      <4> QED BY <4>1, <3>1, <1>1 DEF Gone
    <3>2. CASE arrived' = arrived /\ lost' = lost \cup ToSet(front)
      BY <3>2, <1>1 DEF Gone, RecordTypes
    <3> QED BY <2>1, <3>1, <3>2
  <2>3. RecordTypes' /\ RingFits'
    <3>1. ToSet(front) \subseteq Records
      BY <1>4, ToSetOfSeq
    <3>2. Len(buffer') <= m
      BY <2>1, <1>2, <1>3, <1>4
    <3>3. Len(buffer') \in Nat
      BY <2>1, <1>4, LenProperties
    <3> QED BY <2>1, <2>2, <3>1, <3>2, <3>3, <1>1, <1>2, <1>4, LogShipperFacts
        DEF RecordTypes, RingFits
  <2>4. NewestWaits'
    <3>1. DOMAIN buffer' = 1..(m - k) /\ Len(buffer') = m - k
      BY <2>1, <1>4, LenProperties
    <3>2. ASSUME NEW i \in 1..(m - k) PROVE buffer'[i] = written'[n - (m - k) + i]
      <4>1. k + i \in 1..m /\ n - m + (k + i) = n - (m - k) + i
        BY <1>2, <1>3
      <4>2. buffer[k + i] = written[n - m + (k + i)]
        BY <4>1, LenProperties DEF NewestWaits, RecordTypes
      <4> QED BY <4>1, <4>2, <2>1, <1>1, <1>4
    <3> QED BY <3>1, <3>2, <1>1 DEF NewestWaits
  <2>5. ASSUME NEW r \in ToSet(front)
        PROVE  r.n \in (n - m + 1)..(n - m + k) /\ r.level <= ceiling.logs
    <3>1. PICK i \in 1..k : r = front[i]
      BY <1>6
    <3>2. i \in 1..m /\ r = buffer[i]
      BY <3>1, <1>2, <1>3, <1>4
    <3>3. r.n = n - m + i /\ r.level <= ceiling.logs
      BY <3>2, <1>2
    <3> QED BY <3>1, <3>3, <1>2, <1>3
  <2>6. ASSUME NEW r \in Gone PROVE r.n \in 1..(n - m) /\ r.level <= ceiling.logs
    BY DEF GoneIsOlder
  <2>7. GoneIsOlder'
    <3>1. Len(written') - Len(buffer') = n - m + k
      BY <2>1, <1>1, <1>2, <1>3, <1>4
    <3>2. ASSUME NEW x \in 1..(n - m) \cup (n - m + 1)..(n - m + k)
          PROVE  x \in 1..(n - m + k)
      BY <1>2, <1>3
    <3> QED BY <3>1, <3>2, <2>2, <2>5, <2>6, <1>1 DEF GoneIsOlder
  <2>8. Missing' = Missing
    <3>1. ToSet(buffer') \cup Gone' = ToSet(buffer) \cup Gone
      BY <2>1, <2>2, <1>4
    <3> QED BY <3>1, <1>1 DEF Missing
  <2>9. Counted'
    BY <2>8, <1>1 DEF Counted
  <2>10. OffIsFinal'
    <3> SUFFICES ASSUME NEW r \in ToSet(front), r \in cleared PROVE FALSE
      BY <2>2, <1>1 DEF OffIsFinal
    <3>1. r.n \in 1..(n - m)
      BY <2>6 DEF Gone
    <3> QED BY <3>1, <2>5, <1>2, <1>3
  <2>11. ShippedInOrder'
    <3>1. CASE arrived' = arrived
      BY <3>1 DEF ShippedInOrder
    <3>2. CASE arrived' = arrived \o front
      <4> DEFINE a == Len(arrived)
      <4>1. /\ a \in Nat /\ DOMAIN arrived = 1..a /\ DOMAIN arrived' = 1..(a + k)
            /\ \A i \in 1..(a + k) : arrived'[i] = IF i <= a THEN arrived[i] ELSE front[i - a]
        BY <3>2, <1>4, ConcatProperties, LenProperties DEF RecordTypes
      <4>2. \A i \in 1..a : arrived[i] \in Gone
        BY <4>1, ToSetOfSeq DEF Gone, RecordTypes
      <4>3. \A i \in 1..k : front[i].n = n - m + i
        BY <1>2, <1>3, <1>4
      <4> HIDE DEF a
      <4> SUFFICES ASSUME NEW i \in 1..(a + k), NEW j \in 1..(a + k), i < j
                   PROVE  arrived'[i].n < arrived'[j].n
        BY <4>1 DEF ShippedInOrder
      <4>4. CASE j <= a
        BY <4>1, <4>4 DEF ShippedInOrder
      <4>5. CASE i <= a /\ ~(j <= a)
        <5>1. i \in 1..a /\ j - a \in 1..k
          BY <4>1, <4>5, <1>3
        <5>2. arrived[i].n \in 1..(n - m) /\ front[j - a].n = n - m + (j - a)
          BY <5>1, <4>2, <4>3, <2>6
        <5> QED BY <5>1, <5>2, <4>1, <4>5, <1>2
      <4>6. CASE ~(i <= a)
        <5>1. i - a \in 1..k /\ j - a \in 1..k /\ ~(j <= a)
          BY <4>1, <4>6, <1>3
        <5>2. front[i - a].n = n - m + (i - a) /\ front[j - a].n = n - m + (j - a)
          BY <5>1, <4>3
        <5> QED BY <5>1, <5>2, <4>1, <4>6, <1>2
      <4> QED BY <4>1, <4>4, <4>5, <4>6
    <3> QED BY <3>1, <3>2, <2>1
  <2> QED BY <2>3, <2>4, <2>7, <2>9, <2>10, <2>11, <1>7
<1> QED BY <1>8, <1>9 DEF PolicyTypes

\* Neither a heartbeat nor the link touches the ring.
LEMMA ShipStep == ShipInv /\ [Next]_vars => ShipInv'
<1> SUFFICES ASSUME ShipInv, [Next]_vars PROVE ShipInv'
  OBVIOUS
<1>1. CASE Beat \/ LineChanges
  <2>1. UNCHANGED <<ceiling, policy, buffer, dropped, written, arrived, lost, cleared>>
    BY <1>1 DEF Beat, LineChanges
  <2>2. PolicyTypes'
    <3>1. CASE Beat
      <4>1. line' = line /\ healthSeen' = TRUE /\ policy.health
        BY <3>1 DEF Beat
      <4> QED BY <4>1, <2>1 DEF ShipInv, PolicyTypes
    <3>2. CASE LineChanges
      <4>1. line' \in {"up", "down", "half-open"} /\ healthSeen' = healthSeen
        BY <3>2 DEF LineChanges
      <4> QED BY <4>1, <2>1 DEF ShipInv, PolicyTypes
    <3> QED BY <1>1, <3>1, <3>2
  <2> QED BY <2>1, <2>2 DEF ShipInv, RecordTypes, RingFits, Numbered, NewestWaits, GoneIsOlder,
     Gone, Counted, Missing, ShippedInOrder, OffIsFinal
<1>2. CASE UNCHANGED vars
  BY <1>2 DEF vars, ShipInv, PolicyTypes, RecordTypes, RingFits, Numbered, NewestWaits,
     GoneIsOlder, Gone, Counted, Missing, ShippedInOrder, OffIsFinal
<1> QED BY <1>1, <1>2, SetPolicyStep, OfferStep, FlushStep DEF Next

\* What the invariant says of what the hub gets.
LEMMA ShipInvSound == ShipInv => TypeOK /\ RecordsAccounted
<1> SUFFICES ASSUME ShipInv PROVE TypeOK /\ RecordsAccounted
  OBVIOUS
<1> USE DEF ShipInv
<1>1. Len(buffer) \in Nat /\ Len(written) \in Nat
  BY LenProperties DEF RecordTypes
<1>2. dropped \in 0..MaxRecords
  BY <1>1, LogShipperFacts DEF RingFits
<1>3. TypeOK
  BY <1>2 DEF TypeOK, PolicyTypes, RecordTypes, RingFits
<1>4. LossIsCounted
  <2>1. Missing = ToSet(written) \ (ToSet(arrived) \cup ToSet(buffer) \cup lost \cup cleared)
    BY DEF Missing, Gone
  <2> QED BY <2>1 DEF Counted, LossIsCounted
<1>5. OperatorDecides
  <2> SUFFICES ASSUME NEW i \in DOMAIN arrived PROVE arrived[i].level <= ceiling.logs
    BY DEF OperatorDecides, PolicyTypes
  <2>1. arrived[i] \in Gone
    BY ToSetOfSeq, LenProperties DEF RecordTypes, Gone
  <2> QED BY <2>1 DEF GoneIsOlder
<1> QED BY <1>3, <1>4, <1>5 DEF RecordsAccounted

-----------------------------------------------------------------------------
(***************************************************************************)
(* The parts together: the variables of a part move by its steps only.     *)
(***************************************************************************)
RemoteInv == LinkInv /\ LatchInv /\ ShipInv /\ CheckInv

\* The invariants of the four hold throughout.
LEMMA RemoteInvHolds == MCSpec => []RemoteInv
<1>1. MCInit => RemoteInv
  BY LinkInit, LatchInit, ShipInit, CheckInit DEF MCInit, RemoteInv
<1>2. RemoteInv /\ [MCNext]_mcVars => RemoteInv'
  <2>1. [MCNext]_mcVars => [K!Next]_kVars /\ [L!Next]_lVars /\ [Next]_vars /\ [U!Next]_uVars
    BY DEF MCNext, mcVars, LinkMoves, LatchMoves, ShipperMoves, CheckMoves
  <2> QED BY <2>1, LinkStep, LatchStep, ShipStep, CheckStep DEF RemoteInv
<1> QED BY <1>1, <1>2, PTL DEF MCSpec

\* Every variable of the node's link, latch, shipper and update check keeps its type.
THEOREM RemoteTypesHold == MCSpec => []RemoteTypeOK
<1>1. RemoteInv => RemoteTypeOK
  BY LinkInvSound, ShipInvSound, CheckInvTrue DEF RemoteInv, RemoteTypeOK, LatchInv
<1> QED BY <1>1, RemoteInvHolds, PTL

\* Whatever the faults and however frames, timers and closes interleave (ws-client.ts), one
\* socket or one timer is left to bring the node back, no latch outlives its request, and two
\* requests for an upgrade never install both.
THEOREM LinkStaysSound == MCSpec => []LinkIsSound
<1>1. RemoteInv => LinkIsSound
  BY LinkInvSound DEF RemoteInv
<1> QED BY <1>1, RemoteInvHolds, PTL

\* The hub knows the runtimes of the last probe, a runtime leaves the air only for a refusal of
\* its own credential, and an update check of any interval, with any delays that fit it, keeps
\* its cadence and never has `status` vouch for an answer that is too old.
THEOREM WordsStayTrue == MCSpec => []WordsAreTrue
<1>1. RemoteInv => WordsAreTrue
  BY LinkInvSound, CheckInvTrue DEF RemoteInv, LatchInv, WordsAreTrue
<1> QED BY <1>1, RemoteInvHolds, PTL

\* A ring of any size in batches of any size delivers in order, counts exactly what it lost,
\* and obeys the operator's ceiling (log-shipper.ts).
THEOREM RecordsStayAccounted == MCSpec => []RecordsAccounted
<1>1. RemoteInv => RecordsAccounted
  BY ShipInvSound DEF RemoteInv
<1> QED BY <1>1, RemoteInvHolds, PTL
=============================================================================
