------------------------------ MODULE TurnLoop ------------------------------
(***************************************************************************)
(* An interactive stage: runInteractiveLoop of                             *)
(* packages/executor-worktree/src/turn-loop.ts over the elicit router      *)
(* (elicit-router.ts) and the job's mailbox (mailbox.ts).                  *)
(*                                                                         *)
(* The hub relays human turns into the mailbox.  One dispatcher takes them *)
(* out: to the question the agent is asking, if there is one, else to the  *)
(* conversation.  The loop waits for conversation turns, gathers a burst   *)
(* of them into one prompt and has the agent run it, until the agent calls *)
(* the stage-complete tool, the hub ends the conversation, nobody answers  *)
(* in time, or the stage is cancelled.                                     *)
(***************************************************************************)
EXTENDS Naturals, Sequences, SequencesExt

CONSTANTS
  WantsTool,   \* the stage may end through the stage-complete tool
  Runtimes,    \* the adapters in play, out of {"claude", "pi"}
  MaxTurns,    \* bound: human turns relayed
  MaxAsks      \* bound: questions the agent asks

ASSUME TurnLoopAssumption ==
  /\ WantsTool \in BOOLEAN /\ Runtimes \subseteq {"claude", "pi"}
  /\ MaxTurns \in Nat /\ MaxAsks \in Nat

Turns == 1..MaxTurns   \* human turns, numbered as the hub relays them

VARIABLES
  runtime,   \* the stage's adapter
  relayed,   \* how many turns have been relayed
  mailbox, ended,    \* the job's mailbox, and whether it was ended
  conv, convEnded,   \* the router's conversation channel
  question,  \* "none", or "open": a question waits for its reply
  pc,        \* where the loop is
  texts,     \* the burst being gathered
  said,      \* the turns sent to the agent in prompts, in order
  replies,   \* the turns handed to the agent as replies, in order
  exited,    \* how the loop ended
  status,    \* the stage's status, "none" until it settles
  refused,   \* history: a prompt threw an error the agent is not answerable for
  cancelled, aborted, \* the runner's flag, and its abort signal
  asks,      \* questions asked so far
  cutAt,     \* history: turns relayed when the mailbox was ended
  cancelAt   \* history: where the loop was when a cancel frame came

inputVars  == <<relayed, mailbox, ended, cutAt>>
routerVars == <<conv, convEnded, question>>
agentVars  == <<said, replies>>
exitVars   == <<exited, status, refused>>
signalVars == <<cancelled, aborted, cancelAt>>
vars == <<runtime, inputVars, routerVars, pc, texts, agentVars, exitVars, signalVars, asks>>

\* "prompt": the agent runs the opening or a later prompt.  "wait" and "gather": the
\* loop races the next turn.  "recap": the engine's summarisation turn.  "stop": the
\* loop has timed out and cancels the runner itself.
PCs == {"prompt", "wait", "gather", "recap", "stop", "done"}

Done == pc = "done"

TypeOK ==
  /\ relayed \in 0..MaxTurns
  /\ mailbox \in Seq(Turns) /\ conv \in Seq(Turns) /\ texts \in Seq(Turns)
  /\ said \in Seq(Turns) /\ replies \in Seq(Turns)
  /\ ended \in BOOLEAN /\ convEnded \in BOOLEAN
  /\ question \in {"none", "open"}
  /\ pc \in PCs
  /\ exited \in {"no", "tool", "gate", "timeout", "cancelled"}
  /\ status \in {"none", "ok", "fail", "timeout"}
  /\ refused \in BOOLEAN /\ cancelled \in BOOLEAN /\ aborted \in BOOLEAN
  /\ asks \in 0..MaxAsks
  /\ cutAt \in 0..MaxTurns
  /\ cancelAt \in {"never"} \cup PCs
  /\ runtime \in Runtimes
  /\ pc = "gather" => texts # <<>>
  /\ pc \in {"prompt", "wait"} => texts = <<>>
  /\ pc \in {"prompt", "wait", "gather"} <=> exited = "no"
  /\ Done <=> status # "none"

Init ==
  /\ relayed = 0 /\ mailbox = <<>> /\ ended = FALSE /\ cutAt = 0
  /\ conv = <<>> /\ convEnded = FALSE /\ question = "none"
  /\ pc = "prompt" /\ texts = <<>>
  /\ said = <<>> /\ replies = <<>>
  /\ exited = "no" /\ status = "none" /\ refused = FALSE
  /\ cancelled = FALSE /\ aborted = FALSE /\ cancelAt = "never"
  /\ asks = 0
  /\ runtime \in Runtimes

-----------------------------------------------------------------------------
\* The hub, through the stage runner: enqueueTurn, endTurns, cancel, the kill timer.

\* Definitions named <Definition>_<Mistake> are mutants: plausible mistakes in
\* the code, in no action of the model, that the properties are tried against.

\* A turn pushed after the end stays in the queue: nobody reads it any more.
Relay ==
  /\ ~Done
  /\ relayed < MaxTurns
  /\ relayed' = relayed + 1
  /\ mailbox' = Append(mailbox, relayed')
  /\ UNCHANGED <<runtime, ended, cutAt, routerVars, pc, texts, agentVars, exitVars, signalVars, asks>>

EndMailbox ==
  /\ ended' = TRUE
  /\ cutAt' = IF ended THEN cutAt ELSE relayed

EndTurns ==
  /\ ~Done
  /\ ~ended
  /\ EndMailbox
  /\ UNCHANGED <<runtime, relayed, mailbox, routerVars, pc, texts, agentVars, exitVars, signalVars, asks>>

CancelRunner_InterruptsFirst ==
  /\ cancelled' = TRUE
  /\ UNCHANGED aborted

\* runner.cancel(), once: Pi aborts its signal at once, Claude after the interrupt it
\* sends has been answered (Abort).
CancelRunner ==
  /\ cancelled' = TRUE
  /\ aborted' = (aborted \/ runtime = "pi")

\* A cancel frame: runner.cancel(), then the mailbox is ended.
CancelFrame ==
  /\ ~Done
  /\ cancelAt = "never"
  /\ CancelRunner
  /\ EndMailbox
  /\ cancelAt' = pc
  /\ UNCHANGED <<runtime, relayed, mailbox, routerVars, pc, texts, agentVars, exitVars, asks>>

\* The wall clock of the stage: runner.cancel() alone.
KillTimer ==
  /\ ~Done
  /\ ~cancelled
  /\ CancelRunner
  /\ UNCHANGED <<runtime, inputVars, cancelAt, routerVars, pc, texts, agentVars, exitVars, asks>>

\* The interrupt was answered, or failed: abortController.abort().
Abort ==
  /\ cancelled
  /\ ~aborted
  /\ aborted' = TRUE
  /\ UNCHANGED <<runtime, inputVars, cancelled, cancelAt, routerVars, pc, texts, agentVars, exitVars, asks>>

-----------------------------------------------------------------------------
\* The router.

Dispatch_ToBoth ==
  /\ mailbox # <<>>
  /\ ~convEnded
  /\ mailbox' = Tail(mailbox)
  /\ conv' = Append(conv, Head(mailbox))
  /\ IF question = "open"
     THEN question' = "none" /\ replies' = Append(replies, Head(mailbox))
     ELSE UNCHANGED <<question, replies>>
  /\ UNCHANGED <<runtime, relayed, ended, cutAt, convEnded, pc, texts, said, exitVars, signalVars, asks>>

\* The dispatcher takes the next turn: to the open question, else to the conversation.
Dispatch ==
  /\ mailbox # <<>>
  /\ ~convEnded
  /\ mailbox' = Tail(mailbox)
  /\ \/ /\ question = "open"
        /\ question' = "none"
        /\ replies' = Append(replies, Head(mailbox))
        /\ UNCHANGED conv
     \/ /\ question = "none"
        /\ conv' = Append(conv, Head(mailbox))
        /\ UNCHANGED <<question, replies>>
  /\ UNCHANGED <<runtime, relayed, ended, cutAt, convEnded, pc, texts, said, exitVars, signalVars, asks>>

DispatchEnd_Eager ==
  /\ ended
  /\ ~convEnded
  /\ convEnded' = TRUE
  /\ question' = "none"
  /\ UNCHANGED <<runtime, inputVars, conv, pc, texts, agentVars, exitVars, signalVars, asks>>

\* The stream is over (a turn that comes after the end may find nobody): the conversation ends after what it still holds, and an open
\* question is answered "cancelled".
DispatchEnd ==
  /\ ended
  /\ \A turn \in ToSet(mailbox) : turn > cutAt
  /\ ~convEnded
  /\ convEnded' = TRUE
  /\ question' = "none"
  /\ UNCHANGED <<runtime, inputVars, conv, pc, texts, agentVars, exitVars, signalVars, asks>>

\* ask: one question at a time; a second is answered "busy" without being raised, and
\* once the signal is aborted a question is answered "cancelled" at once.
Ask ==
  /\ pc = "prompt"
  /\ asks < MaxAsks
  /\ asks' = asks + 1
  /\ question' = IF aborted THEN question ELSE "open"
  /\ UNCHANGED <<runtime, inputVars, conv, convEnded, pc, texts, agentVars, exitVars, signalVars>>

SettleQuestion_NeverTimesOut ==
  /\ question = "open"
  /\ aborted
  /\ question' = "none"
  /\ UNCHANGED <<runtime, inputVars, conv, convEnded, pc, texts, agentVars, exitVars, signalVars, asks>>

\* The idle deadline passes ("no response"), or the signal aborts ("cancelled").
SettleQuestion ==
  /\ question = "open"
  /\ question' = "none"
  /\ UNCHANGED <<runtime, inputVars, conv, convEnded, pc, texts, agentVars, exitVars, signalVars, asks>>

-----------------------------------------------------------------------------
\* The agent runs a prompt.  While a question is open its turn is blocked in the tool.

Exit(how) ==
  /\ exited' = how
  /\ CASE how = "tool"      -> pc' = "done" /\ status' = "ok"
       [] how = "gate"      -> pc' = "recap" /\ UNCHANGED status
       [] how = "timeout"   -> pc' = "stop" /\ UNCHANGED status
       [] how = "cancelled" -> pc' = "done" /\ status' = "fail"

\* The turn settles, well or interrupted; its own status is not looked at.
TurnEnds ==
  /\ pc = "prompt"
  /\ question = "none"
  /\ \/ pc' = "wait" /\ UNCHANGED <<exited, status>>
     \/ WantsTool /\ Exit("tool")
  /\ UNCHANGED <<runtime, inputVars, routerVars, texts, agentVars, refused, signalVars, asks>>

TurnThrows_AlwaysGate(classified) ==
  /\ pc = "prompt"
  /\ refused' = classified
  /\ Exit("gate")
  /\ UNCHANGED <<runtime, inputVars, routerVars, texts, agentVars, signalVars, asks>>

\* sendTurn throws.  A cancelled runner exits so; an error the agent is not answerable
\* for (a refused credential, a provider outage) fails the stage; any other is a gate.
TurnThrows(classified) ==
  /\ pc = "prompt"
  /\ refused' = classified
  /\ \/ /\ cancelled
        /\ Exit("cancelled")
     \/ /\ ~cancelled /\ classified
        /\ exited' = "gate" /\ pc' = "done" /\ status' = "fail"
     \/ /\ ~cancelled /\ ~classified
        /\ Exit("gate")
  /\ UNCHANGED <<runtime, inputVars, routerVars, texts, agentVars, signalVars, asks>>

-----------------------------------------------------------------------------
\* The loop.  raceNextTurn settles on the signal first; the `pending` next() it races
\* is carried over, so a turn is never taken twice nor lost between two races.

Cancelled ==
  /\ pc \in {"wait", "gather"}
  /\ aborted
  /\ Exit("cancelled")
  /\ UNCHANGED <<runtime, inputVars, routerVars, texts, agentVars, refused, signalVars, asks>>

IdleTimeout_FirstWaitOnly ==
  /\ pc = "wait"
  /\ said = <<>>
  /\ ~aborted
  /\ conv = <<>> /\ ~convEnded
  /\ Exit("timeout")
  /\ UNCHANGED <<runtime, inputVars, routerVars, texts, agentVars, refused, signalVars, asks>>

\* No turn within the first-reply or the idle window.
IdleTimeout ==
  /\ pc = "wait"
  /\ ~aborted
  /\ conv = <<>> /\ ~convEnded
  /\ Exit("timeout")
  /\ UNCHANGED <<runtime, inputVars, routerVars, texts, agentVars, refused, signalVars, asks>>

\* turns-exhausted: the conversation has ended and holds nothing more.
Exhausted ==
  /\ pc = "wait"
  /\ ~aborted
  /\ conv = <<>> /\ convEnded
  /\ Exit("gate")
  /\ UNCHANGED <<runtime, inputVars, routerVars, texts, agentVars, refused, signalVars, asks>>

TakeTurn ==
  /\ pc \in {"wait", "gather"}
  /\ ~aborted
  /\ conv # <<>>
  /\ texts' = Append(texts, Head(conv))
  /\ conv' = Tail(conv)
  /\ pc' = "gather"
  /\ UNCHANGED <<runtime, inputVars, convEnded, question, agentVars, exitVars, signalVars, asks>>

SendBurst_KeepsTexts ==
  /\ pc = "gather"
  /\ ~aborted
  /\ conv = <<>>
  /\ said' = said \o texts
  /\ pc' = "prompt"
  /\ UNCHANGED <<runtime, inputVars, routerVars, texts, replies, exitVars, signalVars, asks>>

\* The burst is over (nothing more within the debounce, or the conversation ended):
\* one prompt carries all of it.
SendBurst ==
  /\ pc = "gather"
  /\ ~aborted
  /\ conv = <<>>
  /\ said' = said \o texts
  /\ texts' = <<>>
  /\ pc' = "prompt"
  /\ UNCHANGED <<runtime, inputVars, routerVars, replies, exitVars, signalVars, asks>>

\* summariseTurn: whatever it answers, the stage is ok.
Recap ==
  /\ pc = "recap"
  /\ pc' = "done"
  /\ status' = "ok"
  /\ UNCHANGED <<runtime, inputVars, routerVars, texts, agentVars, exited, refused, signalVars, asks>>

\* The timeout exit: status timeout, and the runner's cancel() is awaited.
StopRunner ==
  /\ pc = "stop"
  /\ cancelled' = TRUE
  /\ aborted' = (aborted \/ ~cancelled)
  /\ pc' = "done"
  /\ status' = "timeout"
  /\ UNCHANGED <<runtime, inputVars, cancelAt, routerVars, texts, agentVars, exited, refused, asks>>

-----------------------------------------------------------------------------
Hub    == Relay \/ EndTurns \/ CancelFrame \/ KillTimer
Router == Dispatch \/ DispatchEnd \/ SettleQuestion
Agent  == Ask \/ TurnEnds \/ \E classified \in BOOLEAN : TurnThrows(classified)
Loop   == Cancelled \/ IdleTimeout \/ Exhausted \/ TakeTurn \/ SendBurst \/ Recap \/ StopRunner

Next == Hub \/ Abort \/ Router \/ Agent \/ Loop

Spec == Init /\ [][Next]_vars

\* The dispatcher and the loop are driven by the event loop and by timers; a prompt that
\* is not blocked in a question ends (the turn ceiling and the stage's wall clock bound
\* it).  Nothing is asked of the human, of the hub, or of an interrupt's answer.
Fairness ==
  /\ WF_vars(Dispatch) /\ WF_vars(DispatchEnd)
  /\ WF_vars(SettleQuestion)
  /\ WF_vars(TurnEnds)
  /\ WF_vars(Loop)

LiveSpec == Spec /\ Fairness

-----------------------------------------------------------------------------
(***************************************************************************)
(* Properties.                                                             *)
(***************************************************************************)

\* A human turn is never lost, doubled or reordered between the mailbox, the router,
\* the burst and the agent: what was said, then what is gathered, waits in the
\* conversation and in the mailbox is in relay order, and with the replies it is
\* every turn relayed, once.
TurnsConserved ==
  LET talk == said \o texts \o conv \o mailbox IN
  /\ \A i, k \in DOMAIN talk : i < k => talk[i] < talk[k]
  /\ \A i, k \in DOMAIN replies : i < k => replies[i] < replies[k]
  /\ ToSet(talk) \cap ToSet(replies) = {}
  /\ ToSet(talk) \cup ToSet(replies) = 1..relayed

\* When the conversation ends and the stage stops for that reason, the agent has heard
\* everything the human said before the end: the last words are not dropped.
GateHearsEverything ==
  [][pc = "wait" /\ exited' = "gate" => 1..cutAt \subseteq ToSet(said) \cup ToSet(replies)]_vars

\* A credential the provider refused, or an outage, never settles as `ok`, which the
\* credential latch would read as an acceptance (turn-loop.ts, DHK-1018): whatever the
\* order of the throw, of a cancel and of the end of the conversation.
RefusalNeverOk == refused /\ Done => status = "fail"

\* stage-runner.ts says of a cancel: "close the turn mailbox so an interactive runner
\* blocked awaiting the next turn unwinds. The stage finishes "fail"".
CancelledWaitFails == cancelAt \in {"wait", "gather"} /\ Done => status # "ok"

\* The same for the adapter that aborts its signal before anything else.
PiCancelledWaitFails == runtime = "pi" => CancelledWaitFails

\* The stage settles, whatever the human and the hub do: also when the agent is parked in
\* its question tool and nobody answers.
StageSettles == <>Done
=============================================================================
