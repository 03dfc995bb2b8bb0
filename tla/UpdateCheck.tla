------------------------------ MODULE UpdateCheck ------------------------------
(***************************************************************************)
(* When the node asks the registry for a newer client (apps/edge-node/src/ *)
(* update-check.ts, main.ts scheduleUpdateChecks and offerUpdate), and what*)
(* `dahrk status` makes of the cached answer (status.ts).  All times are   *)
(* durations, so the model needs no clock and no bound on one.             *)
(***************************************************************************)
EXTENDS Integers

CONSTANTS
  Interval,     \* checkIntervalMs
  SkewTolerance, \* CHECK_SKEW_TOLERANCE_MS
  Fetch,        \* BACKGROUND_FETCH_TIMEOUT_MS, the longest a fetch takes
  Spread        \* the jitter's range

\* CHECK_TICKS_PER_INTERVAL and STALE_AFTER_INTERVALS.
TicksPerInterval    == 4
StaleAfterIntervals == 2
Period_Interval == Interval   \* a mutant (see below)
Period == Interval \div TicksPerInterval

\* As the defaults are: a fetch is shorter than the tolerance, the jitter and a tick.
UpdateCheckAssumption ==
  /\ Interval \in Nat \ {0} /\ Interval % TicksPerInterval = 0 /\ SkewTolerance \in Nat
  /\ Fetch \in Nat \ {0} /\ Fetch <= SkewTolerance /\ Spread \in Nat /\ Fetch + Spread < Period

Idle  == -1              \* no fetch under way
Never == StaleAfterIntervals * Interval + 1  \* no answer yet; no age counts beyond it
Enough == 3              \* misses are not counted beyond it

VARIABLES
  age,          \* since updateCheckedAt by the wall clock; negative if it is in the future
  timer, jitter, \* until the repeating and the one-off timer of the daemon; Idle when done
  fetching,     \* per asker, how long its fetch has taken
  trueAge,      \* history: since the registry last answered
  misses,       \* history: fetches that failed since then
  settled,      \* history: that answer came to the repeating timer
  upsets        \* history: what happened to the node since then

vars == <<age, timer, jitter, fetching, trueAge, misses, settled, upsets>>

Askers == {"repeating", "one-off", "start"}
Upsets == {"clock set back", "asleep", "restarted"}  \* at most one per answer

TypeOK ==
  /\ age \in -Interval..Never /\ trueAge \in 0..Never
  /\ timer \in 0..Period /\ jitter \in Idle..Spread
  /\ fetching \in [Askers -> Idle..Fetch]
  /\ misses \in 0..Enough
  /\ settled \in BOOLEAN /\ upsets \subseteq Upsets

Init ==
  /\ age = Never /\ timer = Period /\ jitter \in 0..Spread
  /\ fetching = [a \in Askers |-> Idle]
  /\ trueAge = Never /\ misses = 0 /\ settled = FALSE /\ upsets = {"restarted"}

\* Definitions named <Definition>_<Mistake> are mutants: plausible mistakes in
\* the code, in no action of the model, that the properties are tried against.

Tolerance_None == 0

\* shouldCheck: a little early is due as well; so is an answer from the future.
Tolerance == IF SkewTolerance < Period THEN SkewTolerance ELSE Period

ShouldCheck == age = Never \/ age >= Interval - Tolerance \/ age < 0

\* runUpdateCheck up to its fetch, by the one that asks.
Ask(a) == fetching' = IF ShouldCheck /\ fetching[a] = Idle THEN [fetching EXCEPT ![a] = 0]
                      ELSE fetching

\* The repeating timer considers a check, four times per interval.
Tick ==
  /\ timer = 0 /\ timer' = Period /\ Ask("repeating")
  /\ UNCHANGED <<age, jitter, trueAge, misses, settled, upsets>>

\* The one-off timer of a daemon that just started.
FirstTick ==
  /\ jitter = 0 /\ jitter' = Idle /\ Ask("one-off")
  /\ UNCHANGED <<age, timer, trueAge, misses, settled, upsets>>

\* offerUpdate: an operator runs `dahrk start`, which considers a check too.
OfferUpdate ==
  /\ fetching["start"] = Idle /\ ShouldCheck /\ Ask("start")
  /\ UNCHANGED <<age, timer, jitter, trueAge, misses, settled, upsets>>

Answered(a) ==
  /\ fetching[a] # Idle /\ fetching' = [fetching EXCEPT ![a] = Idle]
  /\ age' = 0 /\ trueAge' = 0 /\ misses' = 0 /\ upsets' = {}
  /\ settled' = (a = "repeating") /\ UNCHANGED <<timer, jitter>>

Saved_MovesDate == age' = 0

\* A failure leaves updateCheckedAt where it was.
Saved == UNCHANGED age

Failed(a) ==
  /\ fetching[a] # Idle /\ fetching' = [fetching EXCEPT ![a] = Idle] /\ Saved
  /\ misses' = IF misses < Enough THEN misses + 1 ELSE misses
  /\ UNCHANGED <<timer, jitter, trueAge, settled, upsets>>

Older(t, d) == IF t + d < Never THEN t + d ELSE Never

\* Time passes; timers fire and fetches end when they are due.
Pass ==
  /\ timer > 0 /\ jitter # 0 /\ \A a \in Askers : fetching[a] < Fetch
  /\ timer' = timer - 1 /\ jitter' = IF jitter = Idle THEN Idle ELSE jitter - 1
  /\ fetching' = [a \in Askers |-> IF fetching[a] = Idle THEN Idle ELSE fetching[a] + 1]
  /\ age' = Older(age, 1) /\ trueAge' = Older(trueAge, 1)
  /\ UNCHANGED <<misses, settled, upsets>>

\* The wall clock is set back, or the machine sleeps: the timers do not notice.
ClockJumps ==
  /\ upsets = {}
  /\ \/ /\ upsets' = {"clock set back"}
        /\ age' = -Interval /\ UNCHANGED trueAge
     \/ /\ upsets' = {"asleep"}
        /\ age' = Older(age, Interval) /\ trueAge' = Older(trueAge, Interval)
  /\ UNCHANGED <<timer, jitter, fetching, misses, settled>>

\* scheduleUpdateChecks anew; a fetch of the daemon's dies with it.
Restart ==
  /\ upsets = {} /\ upsets' = {"restarted"} /\ timer' = Period /\ jitter' \in 0..Spread
  /\ fetching' = [fetching EXCEPT !["repeating"] = Idle, !["one-off"] = Idle]
  /\ UNCHANGED <<age, trueAge, misses, settled>>

IsStale == age >= StaleAfterIntervals * Interval

IsVouchable == age < Interval

\* What `status` makes of the cached answer; one that was never given shows like one that is
\* stale: without a tick.
Currency ==
  CASE IsStale -> "as of"
    [] ~IsStale /\ ~IsVouchable -> "latest known"
    [] IsVouchable -> "up to date"

Next ==
  \/ Tick \/ FirstTick \/ OfferUpdate \/ Pass \/ ClockJumps \/ Restart
  \/ \E a \in Askers : Answered(a) \/ Failed(a)

Spec == Init /\ [][Next]_vars

-----------------------------------------------------------------------------
(***************************************************************************)
(* Properties.                                                             *)
(***************************************************************************)

\* The answer to a check that the repeating timer made is renewed an interval later, give or
\* take a fetch, although it is dated by the end of that fetch: the cadence never halves.
CadenceHolds ==
  settled /\ misses = 0 /\ upsets = {} => trueAge <= Interval + Fetch

\* `status` ticks an answer only if the registry gave it within the interval,
\* whatever failed since; a clock that was set back is the exception.
VouchedIsTrue ==
  "clock set back" \notin upsets /\ Currency = "up to date" => trueAge < Interval

\* An answer reads as stale only after at least three fetches in a row failed, or
\* the node was down or asleep.
StaleMeansTrouble == upsets = {} /\ Currency = "as of" => misses >= Enough
=============================================================================
