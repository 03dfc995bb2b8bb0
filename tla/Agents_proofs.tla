---------------------------- MODULE Agents_proofs ----------------------------
(***************************************************************************)
(* Proofs about the parts of MCAgents, for every value of the constants:   *)
(* the turns of an interactive stage, the Pi session and the Claude        *)
(* session.  Each part has an inductive invariant of its own variables; a  *)
(* step of another part leaves them alone.                                 *)
(***************************************************************************)
EXTENDS MCAgents, SeqFacts, SequenceTheorems, TLAPS

-----------------------------------------------------------------------------
(***************************************************************************)
(* The turns of a stage (TurnLoop).                                        *)
(***************************************************************************)

\* TypeOK, in three parts.
QueueTypes ==
  /\ relayed \in 0..MaxTurns /\ cutAt \in 0..relayed
  /\ mailbox \in Seq(Turns) /\ conv \in Seq(Turns) /\ texts \in Seq(Turns)
  /\ said \in Seq(Turns) /\ replies \in Seq(Turns)

FlagTypes ==
  /\ ended \in BOOLEAN /\ convEnded \in BOOLEAN /\ question \in {"none", "open"}
  /\ asks \in 0..MaxAsks

LoopTypes ==
  /\ pc \in PCs /\ cancelAt \in {"never"} \cup PCs
  /\ exited \in {"no", "tool", "gate", "timeout", "cancelled"}
  /\ status \in {"none", "ok", "fail", "timeout"}
  /\ refused \in BOOLEAN /\ cancelled \in BOOLEAN /\ aborted \in BOOLEAN
  /\ runtime \in Runtimes
  /\ pc \in {"prompt", "wait", "gather"} <=> exited = "no"
  /\ pc = "done" <=> status # "none"

BurstTypes ==
  /\ pc = "gather" => texts # <<>>
  /\ pc \in {"prompt", "wait"} => texts = <<>>

\* What the agent was told in conversation, and what waits to be.
Told == (said \o texts) \o conv

\* Once the conversation has ended, only turns that came too late are in the mailbox.
EndIsFinal == convEnded => ended /\ \A t \in ToSet(mailbox) : t > cutAt

\* The turns are in order, each in one place, and a reply is older than what waits.
TurnsInv ==
  /\ Ascending(Told) /\ Ascending(mailbox) /\ Below(Told, mailbox)
  /\ Ascending(replies) /\ Below(replies, mailbox)
  /\ ToSet(Told) \cap ToSet(replies) = {}
  /\ ToSet(Told) \cup ToSet(mailbox) \cup ToSet(replies) = 1..relayed

\* A refusal ends the stage on the spot; a cancel that found the loop waiting has the signal
\* of a Pi stage set before anything else can.
ExitInv ==
  /\ refused => pc = "done" /\ status = "fail"
  /\ runtime = "pi" /\ cancelAt \in {"wait", "gather"} =>
       aborted /\ pc \in {"wait", "gather", "done"} /\ status # "ok"

LoopInv ==
  /\ QueueTypes /\ FlagTypes /\ LoopTypes /\ BurstTypes /\ EndIsFinal /\ TurnsInv /\ ExitInv

\* Turns are the numbers of the frames that bring them.
LEMMA TurnsAreNumbers == Turns \subseteq Nat /\ MaxTurns \in Nat /\ MaxAsks \in Nat
BY TurnLoopAssumption DEF Turns

\* Every queue of turns is a sequence of numbers.
LEMMA QueuesOfNumbers ==
  ASSUME QueueTypes
  PROVE  /\ mailbox \in Seq(Nat) /\ conv \in Seq(Nat) /\ texts \in Seq(Nat)
         /\ said \in Seq(Nat) /\ replies \in Seq(Nat) /\ Told \in Seq(Nat) /\ Told \in Seq(Turns)
<1>1. \A q \in Seq(Turns) : q \in Seq(Nat)
  BY TurnsAreNumbers, SeqMonotonic
<1>2. said \o texts \in Seq(Turns)
  BY ConcatProperties DEF QueueTypes
<1>3. Told \in Seq(Turns)
  BY <1>2, ConcatProperties DEF QueueTypes, Told
<1> QED BY <1>1, <1>3 DEF QueueTypes

\* The invariant of the turn loop holds when a stage begins.
LEMMA LoopInit == Init => LoopInv
<1> SUFFICES ASSUME Init PROVE LoopInv
  OBVIOUS
<1> USE TurnsAreNumbers DEF Init
<1>1. QueueTypes /\ FlagTypes /\ BurstTypes
  <2>1. QueueTypes
    BY EmptySeq DEF QueueTypes
  <2>2. FlagTypes
    <3>1. asks \in 0..MaxAsks
      OBVIOUS
    <3>2. ended \in BOOLEAN /\ convEnded \in BOOLEAN /\ question \in {"none", "open"}
      BY Zenon
    <3> QED BY <3>1, <3>2 DEF FlagTypes
  <2>3. BurstTypes
    BY DEF BurstTypes
  <2> QED BY <2>1, <2>2, <2>3
<1>2. LoopTypes /\ ExitInv /\ EndIsFinal
  BY DEF LoopTypes, ExitInv, PCs, EndIsFinal
<1>3. Told = <<>>
  BY DEF Told
<1>4. ToSet(Told) = {} /\ ToSet(mailbox) = {} /\ ToSet(replies) = {} /\ 1..relayed = {}
  BY <1>3, ToSetOfEmpty
<1>5. Len(Told) = 0 /\ Len(mailbox) = 0 /\ Len(replies) = 0
  BY <1>3
<1>6. TurnsInv
  BY <1>4, <1>5 DEF TurnsInv, Ascending, Below
<1> QED BY <1>1, <1>2, <1>6 DEF LoopInv

\* The exits, the flags and the signal: no step of the loop depends on the queues' contents.
LEMMA ExitStep ==
  ASSUME LoopTypes, ExitInv, [Next]_vars
  PROVE  LoopTypes' /\ ExitInv'
<1> USE DEF LoopTypes, ExitInv, PCs, inputVars, routerVars, agentVars, exitVars, signalVars
<1>1. CASE Relay \/ EndTurns \/ Dispatch \/ DispatchEnd \/ SettleQuestion \/ Ask
  BY <1>1 DEF Relay, EndTurns, Dispatch, DispatchEnd, SettleQuestion, Ask
<1>2. CASE CancelFrame \/ KillTimer \/ Abort
  <2>1. /\ cancelled' \in BOOLEAN /\ aborted' \in BOOLEAN
        /\ aborted => aborted'
        /\ cancelAt' # cancelAt /\ runtime = "pi" => aborted'
    BY <1>2, Zenon DEF CancelFrame, KillTimer, Abort, CancelRunner
  <2>2. /\ cancelAt' = cancelAt \/ (cancelAt = "never" /\ cancelAt' = pc /\ pc # "done")
        /\ UNCHANGED <<runtime, pc, exited, status, refused>>
    BY <1>2 DEF CancelFrame, KillTimer, Abort, Done
  <2>3. LoopTypes'
    BY <2>1, <2>2
  <2>4. ExitInv'
    BY <2>1, <2>2
  <2> QED BY <2>3, <2>4
<1>3. CASE TurnEnds
  BY <1>3 DEF TurnEnds, Exit
<1>4. ASSUME NEW classified \in BOOLEAN, TurnThrows(classified)
      PROVE  LoopTypes' /\ ExitInv'
  <2>1. /\ pc = "prompt" /\ pc' \in {"recap", "done"} /\ exited' \in {"cancelled", "gate"}
        /\ refused' \in BOOLEAN /\ (refused' => pc' = "done" /\ status' = "fail")
        /\ pc' = "recap" => status' = status
        /\ pc' = "done" => status' = "fail"
        /\ UNCHANGED <<runtime, cancelled, aborted, cancelAt>>
    BY <1>4 DEF TurnThrows, Exit
  <2>2. LoopTypes'
    BY <2>1
  <2>3. ExitInv'
    BY <2>1
  <2> QED BY <2>2, <2>3
<1>5. CASE Cancelled \/ IdleTimeout \/ Exhausted
  BY <1>5 DEF Cancelled, IdleTimeout, Exhausted, Exit
<1>6. CASE TakeTurn \/ SendBurst
  BY <1>6 DEF TakeTurn, SendBurst
<1>7. CASE Recap
  BY <1>7 DEF Recap
<1>8. CASE StopRunner
  <2>1. cancelled' \in BOOLEAN /\ aborted' \in BOOLEAN /\ (aborted => aborted')
    BY <1>8, Zenon DEF StopRunner
  <2>2. /\ pc = "stop" /\ pc' = "done" /\ status' = "timeout"
        /\ UNCHANGED <<runtime, exited, refused, cancelAt>>
    BY <1>8 DEF StopRunner
  <2> QED BY <2>1, <2>2
<1>9. CASE UNCHANGED vars
  BY <1>9 DEF vars
<1> QED BY <1>1, <1>2, <1>3, <1>4, <1>5, <1>6, <1>7, <1>8, <1>9 DEF Next, Hub, Router, Agent, Loop

\* Nothing is said, read or relayed: at most the flags, and the count of a mailbox that ends.
LEMMA QuietStep ==
  ASSUME QueueTypes, EndIsFinal, TurnsInv,
         UNCHANGED <<relayed, mailbox, conv, texts, said, replies>>,
         \/ UNCHANGED <<ended, cutAt, convEnded>>
         \/ EndMailbox /\ UNCHANGED convEnded
         \/ convEnded' /\ ended /\ UNCHANGED <<ended, cutAt>>
            /\ \A t \in ToSet(mailbox) : t > cutAt
  PROVE  QueueTypes' /\ EndIsFinal' /\ TurnsInv'
<1>1. QueueTypes'
  BY DEF QueueTypes, EndMailbox
<1>2. EndIsFinal'
  BY DEF EndIsFinal, EndMailbox
<1>3. TurnsInv'
  BY DEF TurnsInv, Told
<1> QED BY <1>1, <1>2, <1>3

\* The next turn is above all before it.
LEMMA RelayStep ==
  ASSUME QueueTypes, EndIsFinal, TurnsInv, Relay
  PROVE  QueueTypes' /\ EndIsFinal' /\ TurnsInv'
<1> DEFINE e == relayed + 1
<1>1. /\ e \in Turns /\ e \in Nat /\ relayed \in Nat /\ relayed' = e /\ e \in 0..MaxTurns
      /\ 1..e = (1..relayed) \cup {e}
      /\ \A x \in 1..relayed : x < e
      /\ cutAt \in 0..e /\ cutAt < e
  BY TurnsAreNumbers DEF Relay, QueueTypes, Turns
<1>2. /\ mailbox' = Append(mailbox, e)
      /\ UNCHANGED <<ended, cutAt, conv, convEnded, texts, said, replies>>
  BY DEF Relay, routerVars, agentVars
<1> HIDE DEF e
<1>3. /\ mailbox' \in Seq(Turns) /\ ToSet(mailbox') = ToSet(mailbox) \cup {e}
      /\ mailbox' = mailbox \o <<e>>
  BY <1>1, <1>2, ToSetOfAppend, AppendIsConcat DEF QueueTypes
<1>4. QueueTypes'
  BY <1>1, <1>2, <1>3 DEF QueueTypes
<1>5. EndIsFinal'
  BY <1>1, <1>2, <1>3 DEF EndIsFinal, QueueTypes
<1>6. TurnsInv'
  <2>1. Told' = Told
    BY <1>2 DEF Told
  <2>2. \A x \in ToSet(Told) \cup ToSet(mailbox) \cup ToSet(replies) : x < e
    BY <1>1 DEF TurnsInv
  <2>3. Ascending(mailbox')
    <3>1. <<e>> \in Seq(Nat) /\ ToSet(<<e>>) = {e} /\ Ascending(<<e>>)
      BY <1>1, AscendingOne
    <3>2. Below(mailbox, <<e>>)
      BY <2>2, <3>1 DEF Below
    <3> QED BY <3>1, <3>2, <1>3, QueuesOfNumbers, AscendingConcat DEF TurnsInv
  <2>4. Below(Told, mailbox') /\ Below(replies, mailbox')
    BY <2>2, <1>3 DEF TurnsInv, Below
  <2> QED BY <2>1, <2>3, <2>4, <1>1, <1>2, <1>3 DEF TurnsInv
<1> QED BY <1>4, <1>5, <1>6

\* The oldest turn of the mailbox moves on, to the conversation or to the question.
LEMMA DispatchStep ==
  ASSUME QueueTypes, EndIsFinal, TurnsInv, Dispatch
  PROVE  QueueTypes' /\ EndIsFinal' /\ TurnsInv'
<1> DEFINE h == Head(mailbox)
           rest == Tail(mailbox)
<1>1. /\ mailbox # <<>> /\ mailbox' = rest /\ ~convEnded
      /\ UNCHANGED <<relayed, ended, cutAt, convEnded, texts, said>>
      /\ \/ replies' = Append(replies, h) /\ conv' = conv
         \/ conv' = Append(conv, h) /\ replies' = replies
  BY DEF Dispatch
<1>2. /\ h \in Turns /\ h \in Nat /\ rest \in Seq(Turns) /\ rest \in Seq(Nat)
      /\ mailbox = <<h>> \o rest
      /\ ToSet(mailbox) = {h} \cup ToSet(rest)
  BY <1>1, HeadThenTail, ToSetOfTail, QueuesOfNumbers, TurnsAreNumbers DEF QueueTypes
<1> HIDE DEF h, rest
<1>3. <<h>> \in Seq(Nat) /\ <<h>> \in Seq(Turns) /\ ToSet(<<h>>) = {h} /\ Ascending(<<h>>)
  <2>1. <<h>> \in Seq(Turns)
    BY <1>2
  <2> QED BY <2>1, <1>2, AscendingOne
<1>4. Ascending(rest) /\ \A x \in ToSet(rest) : h < x
  <2>1. Ascending(rest) /\ Below(<<h>>, rest)
    BY <1>2, <1>3, AscendingConcat DEF TurnsInv
  <2> QED BY <2>1, <1>3 DEF Below
<1>5. /\ \A x \in ToSet(Told) \cup ToSet(replies) : x < h
      /\ Below(Told, rest) /\ Below(replies, rest) /\ Below(Told, <<h>>) /\ Below(replies, <<h>>)
  BY <1>2, <1>3 DEF TurnsInv, Below
<1>6. h \notin ToSet(Told) /\ h \notin ToSet(replies) /\ h \notin ToSet(rest)
  BY <1>2, <1>4, <1>5
<1>7. EndIsFinal'
  BY <1>1 DEF EndIsFinal
<1>8. CASE replies' = Append(replies, h) /\ conv' = conv
  <2>1. /\ replies' \in Seq(Turns) /\ replies' = replies \o <<h>>
        /\ ToSet(replies') = ToSet(replies) \cup {h}
    BY <1>2, <1>8, ToSetOfAppend, AppendIsConcat DEF QueueTypes
  <2>2. Told' = Told
    BY <1>1, <1>8 DEF Told
  <2>3. Ascending(replies')
    BY <2>1, <1>3, <1>5, QueuesOfNumbers, AscendingConcat DEF TurnsInv
  <2>4. Below(replies', rest)
    BY <2>1, <1>4, <1>5 DEF Below
  <2>5. TurnsInv'
    BY <2>1, <2>2, <2>3, <2>4, <1>1, <1>2, <1>4, <1>5, <1>6 DEF TurnsInv
  <2>6. QueueTypes'
    BY <2>1, <1>1, <1>2, <1>8 DEF QueueTypes
  <2> QED BY <2>5, <2>6, <1>7
<1>9. CASE conv' = Append(conv, h) /\ replies' = replies
  <2>1. conv' \in Seq(Turns) /\ conv' = conv \o <<h>>
    BY <1>2, <1>9, AppendProperties, AppendIsConcat DEF QueueTypes
  <2>2. Told' = Told \o <<h>>
    <3> DEFINE burst == said \o texts
    <3>1. burst \in Seq(Turns) /\ conv \in Seq(Turns)
      BY ConcatProperties DEF QueueTypes
    <3> HIDE DEF burst
    <3>2. (burst \o conv) \o <<h>> = burst \o (conv \o <<h>>)
      BY <3>1, <1>3, ConcatAssociative
    <3> QED BY <3>2, <2>1, <1>1 DEF Told, burst
  <2>3. ToSet(Told') = ToSet(Told) \cup {h}
    <3>1. Told \in Seq(Nat) /\ h \in Nat
      BY <1>2, QueuesOfNumbers
    <3>2. Append(Told, h) = Told \o <<h>> /\ ToSet(Append(Told, h)) = ToSet(Told) \cup {h}
      BY <3>1, ToSetOfAppend, AppendIsConcat
    <3> QED BY <3>2, <2>2
  <2>4. Ascending(Told')
    BY <2>2, <1>3, <1>5, QueuesOfNumbers, AscendingConcat DEF TurnsInv
  <2>5. Below(Told', rest)
    BY <2>3, <1>4, <1>5 DEF Below
  <2>6. TurnsInv'
    BY <2>3, <2>4, <2>5, <1>1, <1>2, <1>4, <1>5, <1>6, <1>9 DEF TurnsInv
  <2>7. QueueTypes'
    BY <2>1, <1>1, <1>2, <1>9 DEF QueueTypes
  <2> QED BY <2>6, <2>7, <1>7
<1> QED BY <1>1, <1>8, <1>9

\* A turn moves from the conversation into the burst, a burst into a prompt: nothing changes
\* in what was told.
LEMMA BurstStep ==
  ASSUME QueueTypes, EndIsFinal, TurnsInv, TakeTurn \/ SendBurst
  PROVE  QueueTypes' /\ EndIsFinal' /\ TurnsInv'
<1>1. UNCHANGED <<relayed, mailbox, ended, cutAt, convEnded, replies>>
  BY DEF TakeTurn, SendBurst, inputVars, agentVars, routerVars
<1>2. /\ Told' = Told
      /\ texts' \in Seq(Turns) /\ conv' \in Seq(Turns) /\ said' \in Seq(Turns)
  <2>1. CASE TakeTurn
    <3>1. /\ conv # <<>> /\ texts' = Append(texts, Head(conv)) /\ conv' = Tail(conv)
          /\ said' = said
      BY <2>1 DEF TakeTurn, agentVars
    <3>2. Head(conv) \in Turns /\ conv' \in Seq(Turns) /\ texts' \in Seq(Turns)
      BY <3>1, HeadThenTail, AppendProperties DEF QueueTypes
    <3>3. texts' \o conv' = texts \o conv
      BY <3>1, HeadMoves DEF QueueTypes
    <3>4. (said \o texts) \o conv = said \o (texts \o conv)
      BY ConcatAssociative DEF QueueTypes
    <3>5. (said \o texts') \o conv' = said \o (texts' \o conv')
      <4>1. said \in Seq(Turns)
        BY DEF QueueTypes
      <4> QED BY <4>1, <3>2, ConcatAssociative
    <3> QED BY <3>1, <3>2, <3>3, <3>4, <3>5 DEF Told, QueueTypes
  <2>2. CASE SendBurst
    <3>1. said' = said \o texts /\ texts' = <<>> /\ conv' = conv
      BY <2>2 DEF SendBurst, routerVars
    <3>2. said' \in Seq(Turns) /\ texts' \in Seq(Turns)
      BY <3>1, ConcatProperties, EmptySeq DEF QueueTypes
    <3>3. said' \o texts' = said'
      BY <3>1, <3>2, ConcatEmptySeq
    <3> QED BY <3>1, <3>2, <3>3 DEF Told, QueueTypes
  <2> QED BY <2>1, <2>2
<1>3. QueueTypes' /\ EndIsFinal' /\ TurnsInv'
  BY <1>1, <1>2 DEF QueueTypes, EndIsFinal, TurnsInv
<1> QED BY <1>3

\* The flags and the burst.
LEMMA FlagsStep ==
  ASSUME QueueTypes, FlagTypes, BurstTypes, [Next]_vars
  PROVE  FlagTypes' /\ BurstTypes'
<1> USE TurnsAreNumbers DEF FlagTypes, BurstTypes, inputVars, routerVars, agentVars, exitVars, signalVars
<1>1. CASE Relay \/ EndTurns \/ CancelFrame \/ KillTimer \/ Abort
  BY <1>1 DEF Relay, EndTurns, CancelFrame, KillTimer, Abort, EndMailbox, CancelRunner
<1>2. CASE Dispatch \/ DispatchEnd \/ SettleQuestion \/ Ask
  <2>1. FlagTypes'
    <3>1. asks' \in 0..MaxAsks /\ question' \in {"none", "open"} /\ ended' = ended
          /\ (convEnded' = convEnded \/ convEnded' = TRUE)
      BY <1>2 DEF Dispatch, DispatchEnd, SettleQuestion, Ask
    <3> QED BY <3>1
  <2>2. BurstTypes'
    BY <1>2 DEF Dispatch, DispatchEnd, SettleQuestion, Ask
  <2> QED BY <2>1, <2>2
<1>3. CASE TurnEnds \/ \E classified \in BOOLEAN : TurnThrows(classified)
  BY <1>3 DEF TurnEnds, TurnThrows, Exit
<1>4. CASE Cancelled \/ IdleTimeout \/ Exhausted \/ Recap \/ StopRunner
  BY <1>4 DEF Cancelled, IdleTimeout, Exhausted, Recap, StopRunner, Exit
<1>5. CASE TakeTurn
  <2>1. texts' = Append(texts, Head(conv)) /\ Head(conv) \in Turns /\ texts \in Seq(Turns)
    BY <1>5, HeadThenTail DEF TakeTurn, QueueTypes
  <2>2. texts' # <<>> /\ pc' = "gather"
    BY <1>5, <2>1, AppendProperties DEF TakeTurn
  <2>3. UNCHANGED <<ended, convEnded, question, asks>>
    BY <1>5 DEF TakeTurn
  <2> QED BY <2>2, <2>3
<1>6. CASE SendBurst
  BY <1>6 DEF SendBurst
<1>7. CASE UNCHANGED vars
  BY <1>7 DEF vars
<1> QED BY <1>1, <1>2, <1>3, <1>4, <1>5, <1>6, <1>7 DEF Next, Hub, Router, Agent, Loop

\* Each part keeps the part of the invariant it can disturb.
LEMMA LoopStep == LoopInv /\ [Next]_vars => LoopInv'
<1> SUFFICES ASSUME LoopInv, [Next]_vars PROVE QueueTypes' /\ EndIsFinal' /\ TurnsInv'
  BY ExitStep, FlagsStep DEF LoopInv
<1> USE DEF LoopInv, inputVars, routerVars, agentVars
<1>1. CASE EndTurns \/ CancelFrame
  BY <1>1, QuietStep DEF EndTurns, CancelFrame
<1>2. CASE DispatchEnd
  BY <1>2, QuietStep DEF DispatchEnd
<1>3. CASE \/ KillTimer \/ Abort \/ SettleQuestion \/ Agent
           \/ Cancelled \/ IdleTimeout \/ Exhausted \/ Recap \/ StopRunner
  BY <1>3, QuietStep DEF KillTimer, Abort, SettleQuestion, Agent, Ask, TurnEnds, TurnThrows,
     Cancelled, IdleTimeout, Exhausted, Recap, StopRunner
<1>4. CASE UNCHANGED vars
  BY <1>4, QuietStep DEF vars
<1> QED BY <1>1, <1>2, <1>3, <1>4, RelayStep, DispatchStep, BurstStep DEF Next, Hub, Router, Loop

\* What the invariant says of the turns.
LEMMA LoopInvSound == LoopInv => TypeOK /\ TurnsConserved /\ RefusalNeverOk /\ PiCancelledWaitFails
<1> SUFFICES ASSUME LoopInv PROVE TypeOK /\ TurnsConserved /\ RefusalNeverOk /\ PiCancelledWaitFails
  OBVIOUS
<1> USE DEF LoopInv
<1>1. TypeOK
  <2>1. cutAt \in 0..MaxTurns
    BY TurnsAreNumbers DEF QueueTypes
  <2> QED BY <2>1 DEF TypeOK, QueueTypes, FlagTypes, LoopTypes, BurstTypes, Done
<1>2. TurnsConserved
  <2> DEFINE talk == said \o texts \o conv \o mailbox
  <2>1. talk = Told \o mailbox
    BY DEF Told
  <2>2. talk \in Seq(Nat) /\ Ascending(talk) /\ ToSet(talk) = ToSet(Told) \cup ToSet(mailbox)
    BY <2>1, QueuesOfNumbers, AscendingConcat, ToSetOfConcat, ConcatProperties DEF TurnsInv
  <2> HIDE DEF talk
  <2>3. DOMAIN talk = 1..Len(talk) /\ DOMAIN replies = 1..Len(replies)
    BY <2>2, QueuesOfNumbers, LenProperties
  <2>4. \A i, k \in DOMAIN talk : i < k => talk[i] < talk[k]
    BY <2>2, <2>3 DEF Ascending
  <2>5. \A i, k \in DOMAIN replies : i < k => replies[i] < replies[k]
    BY <2>3 DEF Ascending, TurnsInv
  <2>6. ToSet(talk) \cap ToSet(replies) = {}
    <3>1. ToSet(mailbox) \subseteq Nat /\ ToSet(replies) \subseteq Nat
      BY QueuesOfNumbers, ToSetOfSeq
    <3>2. ToSet(mailbox) \cap ToSet(replies) = {}
      BY <3>1 DEF TurnsInv, Below
    <3> QED BY <3>2, <2>2 DEF TurnsInv
  <2> QED BY <2>2, <2>4, <2>5, <2>6 DEF TurnsConserved, TurnsInv, talk
<1>3. RefusalNeverOk /\ PiCancelledWaitFails
  BY DEF ExitInv, RefusalNeverOk, PiCancelledWaitFails, CancelledWaitFails, Done
<1> QED BY <1>1, <1>2, <1>3

\* The step in which the loop finds the conversation over.
LEMMA GateStep ==
  LoopInv /\ [Next]_vars =>
    (pc = "wait" /\ exited' = "gate" => 1..cutAt \subseteq ToSet(said) \cup ToSet(replies))
<1> SUFFICES ASSUME LoopInv, [Next]_vars, pc = "wait", exited' = "gate"
             PROVE  1..cutAt \subseteq ToSet(said) \cup ToSet(replies)
  OBVIOUS
<1> USE DEF LoopInv
<1>1. exited = "no" /\ texts = <<>>
  BY DEF LoopTypes, BurstTypes
<1>2. Exhausted
  BY <1>1 DEF Next, Hub, Relay, EndTurns, CancelFrame, KillTimer, Abort, Router, Dispatch, DispatchEnd,
     SettleQuestion, Agent, Ask, TurnEnds, TurnThrows, Loop, Cancelled, IdleTimeout, TakeTurn,
     SendBurst, Recap, StopRunner, Exit, exitVars, vars
<1>3. conv = <<>> /\ convEnded
  BY <1>2 DEF Exhausted
<1>4. Told = said
  BY <1>1, <1>3, ConcatEmptySeq DEF Told, QueueTypes
<1>5. ASSUME NEW x \in 1..cutAt PROVE x \in ToSet(said) \cup ToSet(replies)
  <2>1. x \in 1..relayed /\ ~(x > cutAt)
    BY TurnsAreNumbers DEF QueueTypes
  <2>2. x \notin ToSet(mailbox)
    BY <2>1, <1>3 DEF EndIsFinal
  <2> QED BY <2>1, <2>2, <1>4 DEF TurnsInv
<1> QED BY <1>5

-----------------------------------------------------------------------------
(***************************************************************************)
(* The Pi session (PiSession).  While it is not disposed of, its prompts   *)
(* follow one another: a prompt is written, read, accepted or refused, and *)
(* ended once, before the next; so what is read of an end or an answer is  *)
(* of the prompt that waits.                                               *)
(***************************************************************************)
Prompts == 1..(MaxPrompts + 1)

Frames ==
  ({"prompt", "stats"} \X Prompts) \cup ({"abort"} \X {"cancel", "ceiling"})
    \cup ({"allow", "block"} \X Calls) \cup {<<"answer", 0>>}

Lines ==
  ({"accepted", "refused", "stats", "unpriced", "turn_end", "agent_end"} \X Prompts)
    \cup ({"aborted"} \X {"cancel", "ceiling"}) \cup ({"tool_call"} \X Calls)
    \cup {<<"elicit", 0>>}

PromptFrames == {"prompt"} \X Prompts
Verdicts     == {"accepted", "refused"} \X Prompts
EndLines     == {"agent_end"} \X Prompts

PipeTypes == stdin \in Seq(Frames) /\ stdout \in Seq(Lines)

\* Where the runner is tells whether there is a session, and whether it is over.
Standing ==
  /\ opened <=> piPc \notin {"idle", "config", "session", "refused", "threw"}
  /\ opened => gate
  /\ cancelling # "none" => piCancelled
  /\ disposed => opened /\ (piCancelled \/ piPc = "returned")
  /\ piPc = "returned" => disposed
  /\ recap => opened /\ piPc \notin {"between", "kept", "dropped", "stopping"}

\* Before there is a session nothing is written, and nothing waits.
Unborn ==
  ~opened => /\ pending = {} /\ got = "none" /\ agentEnd = "none" /\ agent = "none"
             /\ stdin = <<>> /\ stdout = <<>> /\ ~asking /\ cancelling \in {"none", "done"}

\* Once it is disposed of, nothing is read.
Gone == disposed => agent \in {"dead", "killed"} /\ pending = {} /\ stdin = <<>>

\* The directory with the credentials.
Cleaned ==
  /\ disposed \/ piPc = "refused" => dir # "made"
  /\ conf.container /\ piPc # "config" => dir # "made"

\* The summary's prompt is the last.
Counted == (opened => turn \in Prompts) /\ (~recap => turn <= MaxPrompts) /\ (~opened => turn = 0)

Life == Standing /\ Unborn /\ Gone /\ Cleaned /\ Counted

\* A request waits only while the prompt that made it does.
Requests ==
  /\ \A k \in Prompts : <<"prompt", k>> \in pending => k = turn /\ piPc = "ack" /\ got = "none"
  /\ \A k \in Prompts : <<"stats", k>> \in pending => k = turn /\ piPc = "stats" /\ got = "none"
  /\ piPc = "end" => got = "none"
  /\ <<"abort", "cancel">> \in pending => piCancelled

\* The prompt on its way to the agent; its acceptance or refusal, and its end, on theirs back.
Sent    == ToSet(stdin) \cap PromptFrames
Judged  == ToSet(stdout) \cap Verdicts
EndSaid == ToSet(stdout) \cap EndLines

\* One prompt at a time.
OfThisTurn ==
  /\ AtMostOne(stdin, PromptFrames) /\ AtMostOne(stdout, Verdicts) /\ AtMostOne(stdout, EndLines)
  /\ Sent \subseteq {<<"prompt", turn>>}
  /\ Judged \subseteq {<<"accepted", turn>>, <<"refused", turn>>}
  /\ EndSaid \subseteq {<<"agent_end", turn>>}

Protocol ==
  /\ Sent # {} => /\ piPc = "ack" /\ got = "none" /\ agentEnd = "waiting" /\ agent = "idle"
                  /\ Judged = {} /\ EndSaid = {}
  /\ Judged # {} => piPc = "ack" /\ got = "none"
  /\ <<"refused", turn>> \in Judged =>
       agentEnd = "waiting" /\ agent \in {"idle", "dead"} /\ EndSaid = {}
  /\ EndSaid # {} => agentEnd = "waiting" /\ agent \in {"idle", "dead"} /\ spent = turn
  /\ agent \in {"busy", "blocked"} => current = turn /\ agentEnd = "waiting"
  /\ agentEnd = "ok" => heard = turn /\ spent = turn
  /\ agentEnd = "none" => piPc = "ack" /\ got = "refused"
  /\ got # "rejected" /\ agentEnd # "rejected"
  /\ got = "refused" => piPc = "ack" /\ agentEnd = "none"
  /\ piPc \in {"stats", "between", "kept", "dropped", "stopping"} => agentEnd = "ok"
  /\ piPc = "stats" /\ got = "ok" => lastCost = turn

\* No frame allows what is denied.
Allowed ==
  /\ \A f \in ToSet(stdin) : f[1] = "allow" => f[2] \notin Denied
  /\ ran \cap Denied = {}

\* The model is the one the stage and its profile lead to.
Chosen ==
  piPc = "session" /\ choice.model # NoModel =>
    choice.model \in P!SelectStageModel(choice.stage, choice.default, choice.authed)

PiInv ==
  /\ P!TypeOK /\ PipeTypes /\ Life /\ Requests /\ (opened /\ ~disposed => OfThisTurn /\ Protocol)
  /\ Allowed /\ Chosen

\* The constants of the session, and the range of its prompts.
LEMMA PiBounds ==
  /\ Ceiling \in Nat \ {0} /\ MaxPrompts \in Nat \ {0} /\ MaxPiAsks \in Nat
  /\ NoModel \notin Models /\ Denied \subseteq Calls
  /\ Prompts = 1..(MaxPrompts + 1) /\ Prompts \subseteq 0..(MaxPrompts + 1) /\ 1 \in Prompts
BY AgentsAssumption DEF P!PiSessionAssumption, Prompts

\* What a line or a frame is about.
LEMMA LineParts ==
  ASSUME NEW l \in Lines
  PROVE  /\ l[1] \in {"accepted", "refused", "stats", "unpriced", "turn_end", "agent_end"} =>
              l[2] \in Prompts /\ l = <<l[1], l[2]>>
         /\ l[1] = "aborted" => l[2] \in {"cancel", "ceiling"} /\ l = <<l[1], l[2]>>
         /\ l[1] = "tool_call" => l[2] \in Calls
         /\ l \in Verdicts <=> l[1] \in {"accepted", "refused"}
         /\ l \in EndLines <=> l[1] = "agent_end"
BY DEF Lines, Verdicts, EndLines

\* ... and what a frame is about.
LEMMA FrameParts ==
  ASSUME NEW f \in Frames
  PROVE  /\ f[1] \in {"prompt", "stats"} => f[2] \in Prompts /\ f = <<f[1], f[2]>>
         /\ f[1] = "abort" => f[2] \in {"cancel", "ceiling"} /\ f = <<f[1], f[2]>>
         /\ f[1] \in {"allow", "block"} => f[2] \in Calls
         /\ f \in PromptFrames <=> f[1] = "prompt"
BY DEF Frames, PromptFrames

\* What a write does.
LEMMA Written ==
  ASSUME PipeTypes, NEW f \in Frames, P!Write(f)
  PROVE  stdin' \in Seq(Frames) /\ stdin' \in {stdin, Append(stdin, f)}
BY AppendProperties DEF PipeTypes, P!Write

SessionSetup == P!OpenSession \/ P!ChooseModel \/ P!ModelUnknown \/ P!CreateThrows

\* The types, in four parts.
PiBooleans ==
  /\ conf \in [container : BOOLEAN, interactive : BOOLEAN]
  /\ recap \in BOOLEAN /\ gate \in BOOLEAN /\ piCancelled \in BOOLEAN
  /\ opened \in BOOLEAN /\ disposed \in BOOLEAN /\ asking \in BOOLEAN

PiStates ==
  /\ piPc \in {"idle", "config", "session", "ack", "end", "stats", "between", "stopping", "kept",
               "returned", "refused", "threw", "dropped"}
  /\ cancelling \in {"none", "aborting", "answered", "done"}
  /\ got \in {"none", "ok", "unpriced", "refused", "rejected"}
  /\ agentEnd \in {"none", "waiting", "ok", "rejected"}
  /\ dir \in {"none", "made", "removed"}
  /\ agent \in {"none", "idle", "busy", "blocked", "dead", "killed"}

PiNumbers ==
  /\ turn \in 0..(MaxPrompts + 1) /\ heard \in 0..(MaxPrompts + 1)
  /\ lastCost \in 0..(MaxPrompts + 1) /\ turnsUsed \in 0..Ceiling
  /\ current \in 0..(MaxPrompts + 1) /\ spent \in 0..(MaxPrompts + 1)
  /\ piAsks \in 0..MaxPiAsks

PiSets ==
  /\ choice \in [stage : P!Asked, default : P!Asked, authed : SUBSET Models, model : P!Asked]
  /\ pending \subseteq ({"prompt", "stats"} \X Prompts) \cup ({"abort"} \X {"cancel", "ceiling"})
  /\ ran \subseteq Calls

\* The four parts are the type invariant.
LEMMA PiTypesSplit == P!TypeOK <=> PiBooleans /\ PiStates /\ PiNumbers /\ PiSets
BY DEF P!TypeOK, PiBooleans, PiStates, PiNumbers, PiSets, Prompts

USE DEF P!choosing, P!runner, P!client, P!process

\* Flags stay flags.
LEMMA PiBooleansStep == ASSUME PiBooleans, P!Next PROVE PiBooleans'
<1> USE DEF PiBooleans
<1>1. CASE SessionSetup \/ P!Opened
  BY <1>1 DEF SessionSetup, P!OpenSession, P!ChooseModel, P!ModelUnknown, P!CreateThrows, P!Opened, P!Unopened,
     P!ResolvedOnHost
<1>2. CASE P!Acked \/ P!Ended \/ P!Elicited \/ P!Cancel \/ P!TimeOut
  BY <1>2 DEF P!Acked, P!Ended, P!Elicited, P!Cancel, P!TimeOut
<1>3. CASE P!Resolved \/ P!Cancelled \/ P!Stopped
  BY <1>3 DEF P!Resolved, P!Cancelled, P!Stopped, P!Stop, P!Dispose, P!Rejected, P!KeepGoing
<1>4. CASE P!Failed \/ P!Converse \/ P!Summarise
  BY <1>4 DEF P!Failed, P!Converse, P!Summarise, P!Stop, P!Dispose, P!Rejected, P!KeepGoing, P!Recap, P!Prompt
<1>5. CASE P!OnLine
  BY <1>5 DEF P!OnLine, P!Answer, P!ToolCallRequest, P!ElicitRequest, P!TurnEnd, P!AgentEnd
<1>6. CASE P!Reads \/ P!EndsTurn \/ P!Asks \/ P!Dies
  BY <1>6 DEF P!Reads, P!EndsTurn, P!Asks, P!Dies
<1> QED BY <1>1, <1>2, <1>3, <1>4, <1>5, <1>6 DEF P!Next, P!Coroutines, SessionSetup

\* States stay states.
LEMMA PiStatesStep == ASSUME PiStates, P!Next PROVE PiStates'
<1> USE DEF PiStates
<1>1. CASE SessionSetup \/ P!Opened
  BY <1>1 DEF SessionSetup, P!OpenSession, P!ChooseModel, P!ModelUnknown, P!CreateThrows, P!Opened, P!Unopened,
     P!ResolvedOnHost
<1>2. CASE P!Acked \/ P!Ended \/ P!Elicited \/ P!Cancel \/ P!TimeOut
  BY <1>2 DEF P!Acked, P!Ended, P!Elicited, P!Cancel, P!TimeOut
<1>3. CASE P!Resolved \/ P!Cancelled \/ P!Stopped
  BY <1>3 DEF P!Resolved, P!Cancelled, P!Stopped, P!Stop, P!Dispose, P!Rejected, P!KeepGoing
<1>4. CASE P!Failed \/ P!Converse \/ P!Summarise
  BY <1>4 DEF P!Failed, P!Converse, P!Summarise, P!Stop, P!Dispose, P!Rejected, P!KeepGoing, P!Recap, P!Prompt
<1>5. CASE P!OnLine
  BY <1>5 DEF P!OnLine, P!Answer, P!ToolCallRequest, P!ElicitRequest, P!TurnEnd, P!AgentEnd
<1>6. CASE P!Reads \/ P!EndsTurn \/ P!Asks \/ P!Dies
  BY <1>6 DEF P!Reads, P!EndsTurn, P!Asks, P!Dies
<1> QED BY <1>1, <1>2, <1>3, <1>4, <1>5, <1>6 DEF P!Next, P!Coroutines, SessionSetup

\* The first line and the first frame of a pipe that is not empty.
LEMMA PipeHeads ==
  ASSUME PipeTypes
  PROVE  /\ stdout # <<>> => P!Line \in Lines /\ Tail(stdout) \in Seq(Lines)
         /\ stdin # <<>> => Head(stdin) \in Frames /\ Tail(stdin) \in Seq(Frames)
BY HeadTailProperties DEF PipeTypes, P!Line

\* What a move of the runner does: it sends the next prompt, or disposes of the session, or
\* goes on as it is.
Quiet ==
  UNCHANGED <<conf, choice, gate, piCancelled, opened, turnsUsed, heard, lastCost, asking, stdout,
              current, spent, ran, piAsks>>

NewPrompt ==
  /\ Quiet /\ opened /\ ~recap /\ ~disposed
  /\ \/ piPc = "ack" /\ got \in {"refused", "rejected"}
     \/ piPc = "end" /\ agentEnd = "rejected"
     \/ piPc \in {"between", "kept"}
  /\ recap' \in BOOLEAN /\ (~recap' => turn < MaxPrompts) /\ turn' = turn + 1
  /\ piPc' = "ack" /\ got' = "none" /\ agentEnd' = "waiting"
  /\ pending' = pending \cup {<<"prompt", turn + 1>>} /\ P!Write(<<"prompt", turn + 1>>)
  /\ UNCHANGED <<cancelling, disposed, agent, dir>>

Disposes ==
  /\ Quiet /\ opened /\ P!Dispose /\ UNCHANGED <<turn, recap>>
  /\ \/ piPc' = "returned" /\ UNCHANGED cancelling
     \/ piCancelled /\ UNCHANGED piPc /\ cancelling' = "done"

GoesOn ==
  /\ Quiet /\ UNCHANGED <<turn, recap, disposed, pending, got, agentEnd, agent, stdin, dir, cancelling>>
  /\ ~recap
  /\ \/ piPc = "stats" /\ got # "none" /\ piPc' \in {"between", "kept"}
     \/ piPc = "kept" /\ piPc' = "dropped"

RunnerMoves == P!Failed \/ P!Converse \/ P!Summarise \/ P!Resolved \/ P!Cancelled \/ P!Stopped

\* Every move of the runner is one of the three.
LEMMA RunnerEffects ==
  ASSUME PiBooleans, Standing, Unborn, Counted, RunnerMoves
  PROVE  NewPrompt \/ Disposes \/ GoesOn
<1> USE DEF PiBooleans
<1>1. CASE P!Failed
  <2>1. opened /\ Quiet /\ UNCHANGED cancelling
    BY <1>1 DEF P!Failed, Standing, Quiet
  <2>2. CASE P!Stop
    BY <2>1, <2>2 DEF P!Stop, Disposes
  <2>3. CASE ~recap /\ P!Recap
    BY <1>1, <2>1, <2>3 DEF P!Failed, P!Recap, P!Stop, P!Prompt, Disposes, NewPrompt
  <2> QED BY <1>1, <2>2, <2>3 DEF P!Failed
<1>2. CASE P!Converse
  <2>1. opened /\ ~recap /\ Quiet /\ UNCHANGED cancelling /\ piPc = "between"
    BY <1>2 DEF P!Converse, Standing, Quiet
  <2>2. CASE P!Stop
    BY <2>1, <2>2 DEF P!Stop, Disposes
  <2>3. CASE ~piCancelled /\ P!Recap
    BY <2>1, <2>3 DEF P!Recap, P!Stop, P!Prompt, Disposes, NewPrompt
  <2>4. CASE ~piCancelled /\ turn < MaxPrompts /\ P!Prompt(turn + 1, FALSE) /\ UNCHANGED <<disposed, agent, dir>>
    <3>1. ~disposed
      BY <2>1, <2>4 DEF Standing
    <3> QED BY <2>1, <2>4, <3>1 DEF P!Prompt, NewPrompt
  <2> QED BY <1>2, <2>2, <2>3, <2>4 DEF P!Converse
<1>3. CASE P!Summarise
  <2>1. opened /\ ~recap /\ Quiet /\ UNCHANGED cancelling /\ piPc = "kept"
    BY <1>3 DEF P!Summarise, Standing, Quiet
  <2>2. CASE P!Recap
    BY <2>1, <2>2 DEF P!Recap, P!Stop, P!Prompt, Disposes, NewPrompt
  <2>3. CASE P!KeepGoing("dropped")
    BY <2>1, <2>3 DEF P!KeepGoing, GoesOn
  <2> QED BY <1>3, <2>2, <2>3 DEF P!Summarise
<1>4. CASE P!Resolved
  <2>1. opened /\ Quiet /\ UNCHANGED cancelling /\ piPc = "stats" /\ got # "none"
    BY <1>4 DEF P!Resolved, Standing, Quiet
  <2>2. CASE P!Stop
    BY <2>1, <2>2 DEF P!Stop, Disposes
  <2>3. CASE ~recap /\ P!KeepGoing(IF conf.interactive THEN "between" ELSE "kept")
    BY <2>1, <2>3 DEF P!KeepGoing, GoesOn
  <2> QED BY <1>4, <2>2, <2>3 DEF P!Resolved
<1>5. CASE P!Cancelled
  BY <1>5 DEF P!Cancelled, Standing, Unborn, Quiet, Disposes
<1>6. CASE P!Stopped
  BY <1>6 DEF P!Stopped, P!Stop, Standing, Quiet, Disposes
<1> QED BY <1>1, <1>2, <1>3, <1>4, <1>5, <1>6 DEF RunnerMoves

\* What disposing leaves.
LEMMA Disposed ==
  ASSUME PiBooleans, Standing, Gone, Cleaned, Disposes
  PROVE  /\ disposed' /\ pending' = {} /\ stdin' = <<>> /\ agent' \in {"dead", "killed"}
         /\ dir' # "made"
         /\ got' = got \/ (got' = "rejected" /\ piPc \in {"ack", "stats"})
<1>1. CASE disposed
  BY <1>1 DEF Disposes, P!Dispose, Gone, Cleaned, PiBooleans
<1>2. CASE ~disposed
  <2>1. disposed' /\ pending' = {} /\ stdin' = <<>> /\ agent' \in {"dead", "killed"} /\ P!Rejected
    BY <1>2 DEF Disposes, P!Dispose, PiBooleans
  <2>2. dir' # "made"
    <3>1. CASE conf.container
      <4>1. piPc # "config"
        BY DEF Disposes, Standing
      <4>2. dir # "made"
        BY <4>1, <3>1 DEF Cleaned
      <4> QED BY <4>2, <1>2, <3>1 DEF Disposes, P!Dispose, PiBooleans
    <3>2. CASE ~conf.container
      BY <1>2, <3>2 DEF Disposes, P!Dispose, PiBooleans
    <3> QED BY <3>1, <3>2
  <2>3. got' = got \/ (got' = "rejected" /\ piPc \in {"ack", "stats"})
    BY <2>1 DEF P!Rejected
  <2> QED BY <2>1, <2>2, <2>3
<1> QED BY <1>1, <1>2 DEF PiBooleans

\* The numbers of the prompts.
LEMMA PromptNumbers ==
  ASSUME PiNumbers, Counted
  PROVE  /\ turn \in Nat /\ 1 <= MaxPrompts
         /\ opened => turn \in Prompts
         /\ ~recap => turn + 1 \in Prompts
BY PiBounds DEF PiNumbers, Counted

\* Counts stay within their bounds.
LEMMA PiNumbersStep ==
  ASSUME PiNumbers, PiBooleans, PipeTypes, Life, P!Next
  PROVE  PiNumbers'
<1> USE PiBounds DEF PiNumbers
<1>1. CASE SessionSetup \/ P!Opened
  BY <1>1 DEF SessionSetup, P!OpenSession, P!ChooseModel, P!ModelUnknown, P!CreateThrows, P!Opened, P!Unopened
<1>2. CASE P!Acked \/ P!Ended \/ P!Elicited \/ P!Cancel \/ P!TimeOut
  BY <1>2 DEF P!Acked, P!Ended, P!Elicited, P!Cancel, P!TimeOut
<1>3. CASE RunnerMoves
  <2>1. turn' = turn \/ (turn' = turn + 1 /\ ~recap)
    BY <1>3, RunnerEffects DEF Life, NewPrompt, Disposes, GoesOn
  <2>2. UNCHANGED <<heard, lastCost, turnsUsed, current, spent, piAsks>>
    BY <1>3, RunnerEffects DEF Life, NewPrompt, Disposes, GoesOn, Quiet
  <2>3. turn' \in 0..(MaxPrompts + 1)
    BY <2>1, PromptNumbers DEF Life
  <2> QED BY <2>2, <2>3
<1>5. CASE P!OnLine
  <2>1. UNCHANGED <<turn, current, spent, piAsks>>
    BY <1>5 DEF P!OnLine
  <2>2. lastCost' \in {lastCost, spent}
    BY <1>5 DEF P!OnLine, P!Answer, P!ToolCallRequest, P!ElicitRequest, P!TurnEnd, P!AgentEnd
  <2>3. heard' \in {heard} \cup Prompts
    <3>1. CASE P!AgentEnd
      BY <3>1, <1>5, PipeHeads, LineParts DEF P!AgentEnd, P!OnLine
    <3>2. CASE ~P!AgentEnd
      BY <3>2, <1>5 DEF P!OnLine, P!Answer, P!ToolCallRequest, P!ElicitRequest, P!TurnEnd
    <3> QED BY <3>1, <3>2
  <2>4. turnsUsed' \in 0..Ceiling
    BY <1>5 DEF P!OnLine, P!Answer, P!ToolCallRequest, P!ElicitRequest, P!TurnEnd, P!AgentEnd
  <2> QED BY <2>1, <2>2, <2>3, <2>4
<1>6. CASE P!Reads
  <2>1. current' \in {current} \cup Prompts
    BY <1>6, PipeHeads, FrameParts DEF P!Reads
  <2>2. spent' \in {spent, current}
    BY <1>6 DEF P!Reads
  <2>3. UNCHANGED <<turn, heard, lastCost, turnsUsed, piAsks>>
    BY <1>6 DEF P!Reads
  <2> QED BY <2>1, <2>2, <2>3
<1>7. CASE P!EndsTurn \/ P!Asks \/ P!Dies
  BY <1>7 DEF P!EndsTurn, P!Asks, P!Dies
<1> QED BY <1>1, <1>2, <1>3, <1>5, <1>6, <1>7 DEF P!Next, P!Coroutines, SessionSetup, RunnerMoves

\* The choice of the model is made while the session is created.
LEMMA ChoiceStep ==
  ASSUME PiSets, P!Next
  PROVE  choice' \in [stage : P!Asked, default : P!Asked, authed : SUBSET Models, model : P!Asked]
<1> DEFINE Asks == [stage : P!Asked, default : P!Asked, authed : SUBSET Models, model : P!Asked]
<1>1. P!NoChoice \in Asks /\ choice \in Asks
  BY DEF P!NoChoice, P!Asked, PiSets
<1>2. CASE P!OpenSession
  BY <1>1, <1>2 DEF P!OpenSession
<1>3. CASE P!ChooseModel
  <2>1. PICK authed \in SUBSET Models :
          \E m \in P!SelectStageModel(choice.stage, choice.default, authed) :
            choice' = [choice EXCEPT !.authed = authed, !.model = m]
    BY <1>3 DEF P!ChooseModel
  <2>2. P!SelectStageModel(choice.stage, choice.default, authed) \subseteq P!Asked
    BY <1>1 DEF P!SelectStageModel, P!PickAuthedModel, P!Asked
  <2> QED BY <2>1, <2>2, <1>1
<1>4. CASE P!ModelUnknown \/ P!CreateThrows \/ P!Opened
  BY <1>1, <1>4 DEF P!ModelUnknown, P!CreateThrows, P!Opened
<1>5. CASE P!Coroutines \/ P!Converse \/ P!Summarise \/ P!Cancel \/ P!TimeOut
  BY <1>1, <1>5 DEF P!Coroutines, P!Acked, P!Ended, P!Resolved, P!Failed, P!Cancelled,
     P!Stopped, P!Elicited, P!Converse, P!Summarise, P!Cancel, P!TimeOut
<1>6. CASE P!OnLine \/ P!Reads \/ P!EndsTurn \/ P!Asks \/ P!Dies
  BY <1>1, <1>6 DEF P!OnLine, P!Reads, P!EndsTurn, P!Asks, P!Dies
<1> QED BY <1>2, <1>3, <1>4, <1>5, <1>6 DEF P!Next

\* A request is a prompt's, its cost's, or an abort.
LEMMA PendingStep ==
  ASSUME PiNumbers, PiBooleans, PiSets, PipeTypes, Life, P!Next
  PROVE  pending' \subseteq ({"prompt", "stats"} \X Prompts) \cup ({"abort"} \X {"cancel", "ceiling"})
<1> DEFINE Ids == ({"prompt", "stats"} \X Prompts) \cup ({"abort"} \X {"cancel", "ceiling"})
<1>1. /\ pending \subseteq Ids /\ {} \subseteq Ids
      /\ <<"abort", "cancel">> \in Ids /\ <<"abort", "ceiling">> \in Ids
      /\ \A k \in Prompts : <<"prompt", k>> \in Ids /\ <<"stats", k>> \in Ids
  BY DEF PiSets
<1> HIDE DEF Ids
<1> SUFFICES pending' \subseteq Ids
  BY DEF Ids
<1>2. CASE SessionSetup
  BY <1>1, <1>2 DEF SessionSetup, P!OpenSession, P!ChooseModel, P!ModelUnknown, P!CreateThrows, P!Unopened
<1>3. CASE P!Opened
  BY <1>1, <1>3, PiBounds DEF P!Opened
<1>4. CASE P!Ended
  <2>1. turn \in Prompts
    BY <1>4, PromptNumbers DEF P!Ended, Life, Standing
  <2>2. pending' = pending \/ pending' = pending \cup {<<"stats", turn>>}
    BY <1>4 DEF P!Ended
  <2>3. <<"stats", turn>> \in Ids
    BY <2>1, <1>1
  <2> QED BY <2>2, <2>3, <1>1
<1>5. CASE P!Acked \/ P!Elicited \/ P!Cancel \/ P!TimeOut
  BY <1>1, <1>5 DEF P!Acked, P!Elicited, P!Cancel, P!TimeOut
<1>6. CASE RunnerMoves
  <2>1. CASE NewPrompt
    <3>1. turn + 1 \in Prompts
      BY <2>1, PromptNumbers DEF NewPrompt, Life
    <3>2. <<"prompt", turn + 1>> \in Ids
      BY <3>1, <1>1
    <3>3. pending' = pending \cup {<<"prompt", turn + 1>>}
      BY <2>1 DEF NewPrompt
    <3> QED BY <3>2, <3>3, <1>1
  <2>2. CASE Disposes
    BY <2>2, <1>1, Disposed DEF Life
  <2>3. CASE GoesOn
    BY <2>3, <1>1 DEF GoesOn
  <2> QED BY <1>6, <2>1, <2>2, <2>3, RunnerEffects DEF Life
<1>8. CASE P!OnLine
  <2>1. \/ pending' = pending
        \/ pending' = pending \cup {<<"abort", "ceiling">>}
        \/ \E id : pending' = pending \ {id}
    <3>1. CASE P!Answer
      BY <3>1 DEF P!Answer
    <3>2. CASE P!TurnEnd
      BY <3>2 DEF P!TurnEnd
    <3>3. CASE P!ToolCallRequest \/ P!ElicitRequest \/ P!AgentEnd
      BY <3>3 DEF P!ToolCallRequest, P!ElicitRequest, P!AgentEnd
    <3> QED BY <1>8, <3>1, <3>2, <3>3 DEF P!OnLine
  <2> QED BY <2>1, <1>1
<1>9. CASE P!Reads \/ P!EndsTurn \/ P!Asks \/ P!Dies
  BY <1>1, <1>9 DEF P!Reads, P!EndsTurn, P!Asks, P!Dies
<1> QED BY <1>2, <1>3, <1>4, <1>5, <1>6, <1>8, <1>9 DEF P!Next, P!Coroutines, SessionSetup, RunnerMoves

\* A call runs when a frame that allows it is read.
LEMMA RanStep ==
  ASSUME P!Next
  PROVE  \/ ran' = ran
         \/ /\ stdin # <<>> /\ Head(stdin)[1] = "allow" /\ ran' = ran \cup {Head(stdin)[2]}
<1>1. CASE P!Reads
  BY <1>1 DEF P!Reads
<1>2. CASE SessionSetup \/ P!Opened
  BY <1>2 DEF SessionSetup, P!OpenSession, P!ChooseModel, P!ModelUnknown, P!CreateThrows, P!Unopened, P!Opened
<1>3. CASE P!Coroutines \/ P!Converse \/ P!Summarise \/ P!Cancel \/ P!TimeOut
  BY <1>3 DEF P!Coroutines, P!Acked, P!Ended, P!Resolved, P!Failed, P!Cancelled,
     P!Stopped, P!Elicited, P!Converse, P!Summarise, P!Cancel, P!TimeOut
<1>4. CASE P!OnLine \/ P!EndsTurn \/ P!Asks \/ P!Dies
  BY <1>4 DEF P!OnLine, P!EndsTurn, P!Asks, P!Dies
<1> QED BY <1>1, <1>2, <1>3, <1>4 DEF P!Next, SessionSetup

\* The choice, the requests and the calls that ran keep their types.
LEMMA PiSetsStep ==
  ASSUME PiNumbers, PiBooleans, PiSets, PipeTypes, Life, P!Next
  PROVE  PiSets'
<1>1. ran' \subseteq Calls
  <2>1. stdin # <<>> /\ Head(stdin)[1] = "allow" => Head(stdin)[2] \in Calls
    BY PipeHeads, FrameParts
  <2> QED BY <2>1, RanStep DEF PiSets
<1> QED BY <1>1, ChoiceStep, PendingStep DEF PiSets

-----------------------------------------------------------------------------
\* What the pipes hold of the turn, as frames and lines come and go.
LEMMA FrameSent ==
  ASSUME PipeTypes, AtMostOne(stdin, PromptFrames), NEW f \in Frames, stdin' = Append(stdin, f),
         f \notin PromptFrames \/ Sent = {}
  PROVE  /\ stdin' \in Seq(Frames) /\ AtMostOne(stdin', PromptFrames)
         /\ Sent' = Sent \cup ({f} \cap PromptFrames)
         /\ ToSet(stdin') = ToSet(stdin) \cup {f}
BY AtMostOneOfAppend, ToSetOfAppend DEF PipeTypes, Sent

\* The first frame is read.
LEMMA FrameRead ==
  ASSUME PipeTypes, AtMostOne(stdin, PromptFrames), stdin # <<>>, stdin' = Tail(stdin)
  PROVE  /\ Head(stdin) \in Frames /\ stdin' \in Seq(Frames) /\ AtMostOne(stdin', PromptFrames)
         /\ Head(stdin) \in ToSet(stdin) /\ ToSet(stdin') \subseteq ToSet(stdin)
         /\ Head(stdin) \in PromptFrames => Sent = {Head(stdin)} /\ Sent' = {}
         /\ Head(stdin) \notin PromptFrames => Sent' = Sent
<1>1. /\ AtMostOne(Tail(stdin), PromptFrames)
      /\ Head(stdin) \in PromptFrames =>
           ToSet(stdin) \cap PromptFrames = {Head(stdin)} /\ ToSet(Tail(stdin)) \cap PromptFrames = {}
      /\ Head(stdin) \notin PromptFrames =>
           ToSet(Tail(stdin)) \cap PromptFrames = ToSet(stdin) \cap PromptFrames
  BY AtMostOneOfTail DEF PipeTypes
<1>2. Head(stdin) \in ToSet(stdin) /\ ToSet(Tail(stdin)) \subseteq ToSet(stdin)
  BY ToSetOfTail DEF PipeTypes
<1> QED BY <1>1, <1>2, PipeHeads DEF Sent

\* A line is written.
LEMMA LineSaid ==
  ASSUME PipeTypes, AtMostOne(stdout, Verdicts), AtMostOne(stdout, EndLines),
         NEW l \in Lines, stdout' = Append(stdout, l),
         l \notin Verdicts \/ Judged = {}, l \notin EndLines \/ EndSaid = {}
  PROVE  /\ stdout' \in Seq(Lines) /\ AtMostOne(stdout', Verdicts) /\ AtMostOne(stdout', EndLines)
         /\ Judged' = Judged \cup ({l} \cap Verdicts) /\ EndSaid' = EndSaid \cup ({l} \cap EndLines)
<1>1. AtMostOne(stdout', Verdicts) /\ Judged' = Judged \cup ({l} \cap Verdicts)
  BY AtMostOneOfAppend DEF PipeTypes, Judged
<1>2. AtMostOne(stdout', EndLines) /\ EndSaid' = EndSaid \cup ({l} \cap EndLines)
  BY AtMostOneOfAppend DEF PipeTypes, EndSaid
<1> QED BY <1>1, <1>2, AppendProperties DEF PipeTypes

\* The first line is read.
LEMMA LineRead ==
  ASSUME PipeTypes, AtMostOne(stdout, Verdicts), AtMostOne(stdout, EndLines),
         stdout # <<>>, stdout' = Tail(stdout)
  PROVE  /\ P!Line \in Lines /\ stdout' \in Seq(Lines)
         /\ AtMostOne(stdout', Verdicts) /\ AtMostOne(stdout', EndLines)
         /\ P!Line \in Verdicts => Judged = {P!Line} /\ Judged' = {}
         /\ P!Line \notin Verdicts => Judged' = Judged
         /\ P!Line \in EndLines => EndSaid = {P!Line} /\ EndSaid' = {}
         /\ P!Line \notin EndLines => EndSaid' = EndSaid
<1>1. /\ AtMostOne(Tail(stdout), Verdicts)
      /\ Head(stdout) \in Verdicts =>
           ToSet(stdout) \cap Verdicts = {Head(stdout)} /\ ToSet(Tail(stdout)) \cap Verdicts = {}
      /\ Head(stdout) \notin Verdicts => ToSet(Tail(stdout)) \cap Verdicts = ToSet(stdout) \cap Verdicts
  BY AtMostOneOfTail DEF PipeTypes
<1>2. /\ AtMostOne(Tail(stdout), EndLines)
      /\ Head(stdout) \in EndLines =>
           ToSet(stdout) \cap EndLines = {Head(stdout)} /\ ToSet(Tail(stdout)) \cap EndLines = {}
      /\ Head(stdout) \notin EndLines => ToSet(Tail(stdout)) \cap EndLines = ToSet(stdout) \cap EndLines
  BY AtMostOneOfTail DEF PipeTypes
<1> QED BY <1>1, <1>2, PipeHeads DEF Judged, EndSaid, P!Line

\* The agent works on the prompt that waits.
LEMMA AtWork ==
  ASSUME Life, opened /\ ~disposed => OfThisTurn /\ Protocol, PiBooleans
  PROVE  /\ agent \in {"idle", "busy", "blocked"} => opened /\ ~disposed
         /\ agent \in {"busy", "blocked"} => current = turn /\ turn \in Prompts
<1>1. agent # "none" => opened
  BY DEF Life, Unborn
<1>2. disposed => agent \in {"dead", "killed"}
  BY DEF Life, Gone
<1> QED BY <1>1, <1>2 DEF Protocol, Life, Counted

\* What reading a frame does, in the terms of the turn.
Reading(h) ==
  \/ /\ h = <<"prompt", turn>> /\ agent = "idle" /\ agent' = "busy" /\ current' = turn
     /\ stdout' = Append(stdout, <<"accepted", turn>>) /\ UNCHANGED <<spent, ran>>
  \/ /\ h = <<"prompt", turn>> /\ agent = "idle" /\ UNCHANGED <<agent, current, spent, ran>>
     /\ stdout' = Append(stdout, <<"refused", turn>>)
  \/ /\ h \notin PromptFrames /\ UNCHANGED <<agent, current, spent, ran>>
     /\ \E l \in Lines \ (Verdicts \cup EndLines) : stdout' = Append(stdout, l)
  \/ /\ h \notin PromptFrames /\ agent \in {"busy", "blocked"} /\ agent' = "idle" /\ spent' = turn
     /\ UNCHANGED <<current, ran>>
     /\ \E l \in Lines \ (Verdicts \cup EndLines) :
          stdout' = Append(Append(stdout, <<"agent_end", turn>>), l)
  \/ /\ h \notin PromptFrames /\ UNCHANGED <<current, spent, stdout>>
     /\ agent' = agent \/ (agent = "blocked" /\ agent' = "busy")
     /\ ran' = ran \/ (h[1] = "allow" /\ ran' = ran \cup {h[2]})

\* Every frame the agent reads does one of these.
LEMMA ReadsEffects ==
  ASSUME PiInv, P!Reads
  PROVE  /\ stdin # <<>> /\ stdin' = Tail(stdin) /\ opened /\ ~disposed
         /\ Reading(Head(stdin))
<1> DEFINE h == Head(stdin)
<1>1. stdin # <<>> /\ stdin' = Tail(stdin) /\ agent \in {"idle", "busy", "blocked"}
  BY DEF P!Reads, P!Alive
<1>2. PiBooleans /\ PipeTypes
  BY PiTypesSplit DEF PiInv
<1>3. opened /\ ~disposed /\ OfThisTurn /\ Protocol /\ turn \in Prompts
  BY <1>1, <1>2, AtWork DEF PiInv, Life, Counted
<1>4. h \in Frames /\ (h \in PromptFrames => Sent = {h}) /\ stdout \in Seq(Lines)
  BY <1>1, <1>2, <1>3, FrameRead DEF OfThisTurn, PipeTypes
<1>5. h \in PromptFrames => h = <<"prompt", turn>> /\ agent = "idle"
  BY <1>3, <1>4 DEF OfThisTurn, Protocol
<1>6. agent # "idle" => current = turn
  BY <1>1, <1>3 DEF Protocol
<1> HIDE DEF h
<1>7. CASE h[1] = "prompt"
  <2>1. h = <<"prompt", turn>> /\ agent = "idle"
    BY <1>4, <1>5, <1>7, FrameParts
  <2>2. h[2] = turn
    BY <2>1
  <2>3. \/ stdout' = stdout \o <<<<"accepted", turn>>>> /\ agent' = "busy" /\ current' = turn /\ UNCHANGED <<spent, ran>>
        \/ stdout' = stdout \o <<<<"refused", turn>>>> /\ UNCHANGED <<agent, current, spent, ran>>
    BY <2>1, <2>2, <1>7 DEF P!Reads, P!Says, h
  <2>4. <<"accepted", turn>> \in Lines /\ <<"refused", turn>> \in Lines
    BY <1>3 DEF Lines
  <2>5. /\ stdout \o <<<<"accepted", turn>>>> = Append(stdout, <<"accepted", turn>>)
        /\ stdout \o <<<<"refused", turn>>>> = Append(stdout, <<"refused", turn>>)
    BY <1>4, <2>4, AppendIsConcat
  <2> QED BY <2>1, <2>3, <2>5, <1>1, <1>3 DEF Reading, h
<1>8. CASE h[1] = "stats"
  <2>1. PICK answer \in {"stats", "unpriced"} : stdout' = stdout \o <<<<answer, h[2]>>>>
    BY <1>8 DEF P!Reads, P!Says, h
  <2>2. <<answer, h[2]>> \in Lines /\ <<answer, h[2]>> \notin Verdicts \cup EndLines
    BY <1>8, <1>4, FrameParts DEF Lines, Verdicts, EndLines
  <2>3. stdout' = Append(stdout, <<answer, h[2]>>)
    BY <1>4, <2>1, <2>2, AppendIsConcat
  <2>4. UNCHANGED <<agent, current, spent, ran>> /\ h \notin PromptFrames
    BY <1>8, <1>4, FrameParts DEF P!Reads, h
  <2> QED BY <2>2, <2>3, <2>4, <1>1, <1>3 DEF Reading, h
<1>9. CASE h[1] = "abort"
  <2> DEFINE l == <<"aborted", h[2]>>
  <2>1. l \in Lines /\ l \notin Verdicts \cup EndLines /\ h \notin PromptFrames
    BY <1>9, <1>4, FrameParts DEF Lines, Verdicts, EndLines
  <2> HIDE DEF l
  <2>2. CASE agent = "idle"
    <3>1. stdout' = stdout \o <<l>> /\ UNCHANGED <<agent, current, spent, ran>>
      BY <1>9, <2>2 DEF P!Reads, P!Says, h, l
    <3>2. stdout' = Append(stdout, l)
      BY <3>1, <2>1, <1>4, AppendIsConcat
    <3> QED BY <3>1, <3>2, <2>1, <1>1, <1>3 DEF Reading, h
  <2>3. CASE agent # "idle"
    <3>1. /\ stdout' = stdout \o <<<<"agent_end", turn>>, l>> /\ agent' = "idle" /\ spent' = turn
          /\ UNCHANGED <<current, ran>>
      BY <1>9, <2>3, <1>6 DEF P!Reads, P!Says, h, l
    <3>2. <<"agent_end", turn>> \in Lines
      BY <1>3 DEF Lines
    <3>3. stdout' = Append(Append(stdout, <<"agent_end", turn>>), l)
      BY <3>1, <3>2, <2>1, <1>4, AppendTwo
    <3> QED BY <3>1, <3>3, <2>1, <2>3, <1>1, <1>3 DEF Reading, h
  <2> QED BY <2>2, <2>3
<1>10. CASE h[1] \in {"allow", "block", "answer"}
  <2>1. /\ UNCHANGED <<current, spent, stdout>>
        /\ agent' = agent \/ (agent = "blocked" /\ agent' = "busy")
        /\ ran' = ran \/ (h[1] = "allow" /\ ran' = ran \cup {h[2]})
    BY <1>10 DEF P!Reads, h
  <2>2. h \notin PromptFrames
    BY <1>10, <1>4, FrameParts
  <2> QED BY <2>1, <2>2, <1>1, <1>3 DEF Reading, h
<1> QED BY <1>4, <1>7, <1>8, <1>9, <1>10 DEF P!Reads, h

\* What the work of the agent does.
Working ==
  /\ agent = "busy" /\ opened /\ ~disposed
  /\ UNCHANGED <<conf, choice, piPc, turn, recap, gate, piCancelled, cancelling, opened, turnsUsed,
                 disposed, pending, got, agentEnd, heard, lastCost, asking, dir, stdin, current, ran>>
  /\ \E l \in Lines \ (Verdicts \cup EndLines) :
       \/ stdout' = Append(stdout, l) /\ agent' \in {"busy", "blocked"} /\ UNCHANGED spent
       \/ /\ stdout' = Append(Append(stdout, l), <<"agent_end", turn>>)
          /\ agent' = "idle" /\ spent' = turn

\* Its turns and its questions are such work.
LEMMA WorkEffects ==
  ASSUME PiInv, P!EndsTurn \/ P!Asks
  PROVE  Working
<1>1. PiBooleans /\ PipeTypes /\ stdout \in Seq(Lines)
  BY PiTypesSplit DEF PiInv, PipeTypes
<1>2. agent = "busy"
  BY DEF P!EndsTurn, P!Asks
<1>3. opened /\ ~disposed /\ current = turn /\ turn \in Prompts
  BY <1>1, <1>2, AtWork DEF PiInv
<1>4. UNCHANGED <<conf, choice, piPc, turn, recap, gate, piCancelled, cancelling, opened, turnsUsed,
                  disposed, pending, got, agentEnd, heard, lastCost, asking, dir, stdin, current, ran>>
  BY DEF P!EndsTurn, P!Asks
<1>5. CASE P!EndsTurn
  <2> DEFINE l == <<"turn_end", turn>>
             e == <<"agent_end", turn>>
  <2>1. l \in Lines /\ e \in Lines /\ l \notin Verdicts \cup EndLines
    BY <1>3 DEF Lines, Verdicts, EndLines
  <2>2. \/ stdout' = stdout \o <<l>> /\ UNCHANGED <<agent, spent>>
        \/ stdout' = stdout \o <<l, e>> /\ agent' = "idle" /\ spent' = turn
    BY <1>5, <1>3 DEF P!EndsTurn, P!Says
  <2> HIDE DEF l, e
  <2>3. stdout \o <<l>> = Append(stdout, l) /\ stdout \o <<l, e>> = Append(Append(stdout, l), e)
    BY <2>1, <1>1, AppendIsConcat, AppendTwo
  <2> QED BY <1>2, <1>3, <1>4, <2>1, <2>2, <2>3 DEF Working, e
<1>6. CASE P!Asks
  <2>1. PICK l : /\ l \in ({"tool_call"} \X Calls) \cup {<<"elicit", 0>>}
                 /\ stdout' = stdout \o <<l>> /\ agent' = "blocked" /\ UNCHANGED spent
    BY <1>6 DEF P!Asks, P!Says
  <2>2. l \in Lines /\ l \notin Verdicts \cup EndLines
    BY <2>1 DEF Lines, Verdicts, EndLines
  <2>3. stdout \o <<l>> = Append(stdout, l)
    BY <2>2, <1>1, AppendIsConcat
  <2> QED BY <1>2, <1>3, <1>4, <2>1, <2>2, <2>3 DEF Working
<1> QED BY <1>5, <1>6

\* A frame that is no prompt, and allows nothing that is denied.
PlainFrames == {f \in Frames : f \notin PromptFrames /\ (f[1] = "allow" => f[2] \notin Denied)}

\* What a line does.
Hearing(l) ==
  \/ /\ UNCHANGED <<got, lastCost, agentEnd, cancelling, heard>>
     /\ pending' \in {pending, pending \cup {<<"abort", "ceiling">>}}
     /\ disposed => pending' = pending
     /\ stdin' = stdin \/ (P!Alive /\ \E f \in PlainFrames : stdin' = Append(stdin, f))
  \/ /\ l[1] = "accepted" /\ <<"prompt", l[2]>> \in pending
     /\ pending' = pending \ {<<"prompt", l[2]>>} /\ got' = "ok"
     /\ UNCHANGED <<lastCost, agentEnd, cancelling, heard, stdin>>
  \/ /\ l[1] = "refused" /\ <<"prompt", l[2]>> \in pending
     /\ pending' = pending \ {<<"prompt", l[2]>>} /\ got' = "refused" /\ agentEnd' = "none"
     /\ UNCHANGED <<lastCost, cancelling, heard, stdin>>
  \/ /\ l[1] \in {"stats", "unpriced"} /\ <<"stats", l[2]>> \in pending
     /\ pending' = pending \ {<<"stats", l[2]>>} /\ got' \in {"ok", "unpriced"}
     /\ got' = "ok" => lastCost' = spent
     /\ UNCHANGED <<agentEnd, cancelling, heard, stdin>>
  \/ /\ l[1] = "aborted" /\ <<"abort", l[2]>> \in pending
     /\ pending' = pending \ {<<"abort", l[2]>>}
     /\ cancelling' = cancelling \/ (l[2] = "cancel" /\ cancelling' = "answered")
     /\ UNCHANGED <<got, lastCost, agentEnd, heard, stdin>>
  \/ /\ l[1] = "agent_end" /\ agentEnd = "waiting" /\ agentEnd' = "ok" /\ heard' = l[2]
     /\ UNCHANGED <<pending, got, lastCost, cancelling, stdin>>

\* Every line the client reads does one of these.
LEMMA HearingEffects ==
  ASSUME PiInv, P!OnLine
  PROVE  stdout # <<>> /\ stdout' = Tail(stdout) /\ opened /\ Hearing(P!Line)
<1> DEFINE l == P!Line
<1>1. PiBooleans /\ PipeTypes
  BY PiTypesSplit DEF PiInv
<1>2. stdout # <<>> /\ stdout' = Tail(stdout)
  BY DEF P!OnLine
<1>3. l \in Lines
  BY <1>1, <1>2, PipeHeads
<1>4. opened /\ gate
  BY <1>1, <1>2 DEF PiInv, Life, Unborn, Standing
<1> SUFFICES Hearing(l)
  BY <1>2, <1>4
<1>5. CASE P!Answer
  <2> DEFINE id == <<CASE l[1] \in {"accepted", "refused"} -> "prompt"
                       [] l[1] \in {"stats", "unpriced"} -> "stats"
                       [] OTHER -> "abort", l[2]>>
  <2>1. CASE id \notin pending
    BY <1>5, <2>1 DEF P!Answer, Hearing
  <2>2. CASE id \in pending
    <3>1. /\ l[1] \in {"accepted", "refused", "stats", "unpriced", "aborted"}
          /\ pending' = pending \ {id} /\ UNCHANGED <<heard, stdin>>
          /\ got' = CASE l[1] \in {"accepted", "stats"} -> "ok"
                      [] l[1] \in {"refused", "unpriced"} -> l[1]
                      [] OTHER -> got
          /\ lastCost' = IF l[1] = "stats" THEN spent ELSE lastCost
          /\ agentEnd' = IF l[1] = "refused" THEN "none" ELSE agentEnd
          /\ cancelling' = IF l = <<"aborted", "cancel">> THEN "answered" ELSE cancelling
      BY <1>5, <2>2 DEF P!Answer
    <3>2. l = <<l[1], l[2]>>
      BY <3>1, <1>3, LineParts
    <3> HIDE DEF l
    <3>3. CASE l[1] = "accepted"
      <4>1. id = <<"prompt", l[2]>>
        BY <3>3
      <4>2. got' = "ok" /\ UNCHANGED <<lastCost, agentEnd, cancelling>>
        BY <3>1, <3>2, <3>3
      <4> QED BY <4>1, <4>2, <3>1, <3>3, <2>2 DEF Hearing
    <3>4. CASE l[1] = "refused"
      <4>1. id = <<"prompt", l[2]>>
        BY <3>4
      <4>2. got' = "refused" /\ agentEnd' = "none" /\ UNCHANGED <<lastCost, cancelling>>
        BY <3>1, <3>2, <3>4
      <4> QED BY <4>1, <4>2, <3>1, <3>4, <2>2 DEF Hearing
    <3>5. CASE l[1] \in {"stats", "unpriced"}
      <4>1. id = <<"stats", l[2]>>
        BY <3>5
      <4>2. /\ got' \in {"ok", "unpriced"} /\ (got' = "ok" => lastCost' = spent)
            /\ UNCHANGED <<agentEnd, cancelling>>
        BY <3>1, <3>2, <3>5
      <4> QED BY <4>1, <4>2, <3>1, <3>5, <2>2 DEF Hearing
    <3>6. CASE l[1] = "aborted"
      <4>1. id = <<"abort", l[2]>>
        BY <3>6
      <4>2. /\ cancelling' = cancelling \/ (l[2] = "cancel" /\ cancelling' = "answered")
            /\ UNCHANGED <<got, lastCost, agentEnd>>
        BY <3>1, <3>2, <3>6
      <4> QED BY <4>1, <4>2, <3>1, <3>6, <2>2 DEF Hearing
    <3> QED BY <3>1, <3>3, <3>4, <3>5, <3>6
  <2> QED BY <2>1, <2>2
<1>6. CASE P!ToolCallRequest
  <2> DEFINE f == <<IF P!Vetoed(l[2]) THEN "block" ELSE "allow", l[2]>>
  <2>1. l[2] \in Calls /\ UNCHANGED <<pending, got, lastCost, agentEnd, cancelling, heard>>
    BY <1>6, <1>3, LineParts DEF P!ToolCallRequest
  <2>2. f \in PlainFrames
    <3>1. f \in {"allow", "block"} \X Calls
      BY <2>1
    <3>2. f[1] = "allow" => f[2] \notin Denied
      BY <1>4 DEF P!Vetoed
    <3> QED BY <3>1, <3>2 DEF PlainFrames, Frames, PromptFrames
  <2>3. stdin' = stdin \/ (P!Alive /\ stdin' = Append(stdin, f))
    BY <1>6 DEF P!ToolCallRequest, P!Write
  <2> HIDE DEF f
  <2> QED BY <2>1, <2>2, <2>3 DEF Hearing
<1>7. CASE P!ElicitRequest
  BY <1>7 DEF P!ElicitRequest, Hearing
<1>8. CASE P!TurnEnd
  <2> DEFINE f == <<"abort", "ceiling">>
  <2>1. f \in PlainFrames
    BY DEF PlainFrames, Frames, PromptFrames
  <2>2. /\ UNCHANGED <<got, lastCost, agentEnd, cancelling, heard>>
        /\ \/ UNCHANGED <<pending, stdin>>
           \/ /\ ~disposed /\ pending' = pending \cup {f}
              /\ stdin' = stdin \/ (P!Alive /\ stdin' = Append(stdin, f))
    BY <1>8 DEF P!TurnEnd, P!Write
  <2> HIDE DEF f
  <2> QED BY <2>1, <2>2 DEF Hearing, f
<1>9. CASE P!AgentEnd
  BY <1>9 DEF P!AgentEnd, Hearing
<1> QED BY <1>5, <1>6, <1>7, <1>8, <1>9 DEF P!OnLine

\* Every step is one of these.
LEMMA PiSteps ==
  ASSUME PiInv, P!Next
  PROVE  \/ SessionSetup \/ P!Opened \/ P!Acked \/ P!Ended \/ P!Elicited \/ P!Cancel \/ P!TimeOut
         \/ NewPrompt \/ Disposes \/ GoesOn
         \/ P!OnLine \/ P!Reads \/ Working \/ P!Dies
<1>1. PiBooleans
  BY PiTypesSplit DEF PiInv
<1>2. RunnerMoves => NewPrompt \/ Disposes \/ GoesOn
  BY <1>1, RunnerEffects DEF PiInv, Life
<1>3. P!EndsTurn \/ P!Asks => Working
  BY WorkEffects
<1> QED BY <1>2, <1>3 DEF P!Next, P!Coroutines, SessionSetup, RunnerMoves

\* The runner's place keeps telling whether there is a session.
LEMMA StandingStep == ASSUME PiInv, P!Next PROVE Standing'
<1>1. PiBooleans /\ Standing /\ Unborn /\ Gone /\ Requests
  BY PiTypesSplit DEF PiInv, Life
<1> USE <1>1 DEF PiBooleans, Standing
<1>2. CASE SessionSetup
  <2>1. UNCHANGED <<recap, gate, piCancelled, cancelling, opened, disposed>>
    BY <1>2 DEF SessionSetup, P!OpenSession, P!ChooseModel, P!ModelUnknown, P!CreateThrows, P!Unopened
  <2>2. {piPc, piPc'} \subseteq {"idle", "config", "session", "refused", "threw"}
    BY <1>2 DEF SessionSetup, P!OpenSession, P!ChooseModel, P!ModelUnknown, P!CreateThrows, P!Unopened
  <2> QED BY <2>1, <2>2
<1>3. CASE P!Opened
  BY <1>3 DEF P!Opened
<1>4. CASE P!Acked \/ P!Ended \/ P!Elicited
  BY <1>4 DEF P!Acked, P!Ended, P!Elicited
<1>5. CASE P!Cancel \/ P!TimeOut
  <2>1. /\ piCancelled' /\ UNCHANGED <<recap, gate, opened, disposed>>
        /\ piPc' = piPc \/ (piPc = "between" /\ piPc' = "stopping")
    BY <1>5 DEF P!Cancel, P!TimeOut
  <2>2. piPc \notin {"idle", "config", "session", "refused", "threw"} <=>
          piPc' \notin {"idle", "config", "session", "refused", "threw"}
    BY <2>1
  <2>3. piPc' = "returned" => piPc = "returned"
    BY <2>1
  <2>4. piPc' \in {"between", "kept", "dropped", "stopping"} =>
          piPc \in {"between", "kept", "dropped", "stopping"}
    BY <2>1
  <2> QED BY <2>1, <2>2, <2>3, <2>4
<1>6. CASE NewPrompt
  BY <1>6 DEF NewPrompt, Quiet
<1>7. CASE Disposes
  <2>1. disposed'
    BY <1>7, Disposed DEF PiInv, Life
  <2> QED BY <1>7, <2>1 DEF Disposes, Quiet
<1>8. CASE GoesOn
  BY <1>8 DEF GoesOn, Quiet
<1>9. CASE P!OnLine
  <2>1. UNCHANGED <<piPc, recap, gate, piCancelled, opened, disposed>>
    BY <1>9 DEF P!OnLine
  <2>2. cancelling' = cancelling \/ piCancelled
    BY <1>9, HearingEffects DEF Hearing, Requests
  <2> QED BY <2>1, <2>2
<1>10. CASE P!Reads \/ Working \/ P!Dies
  BY <1>10 DEF P!Reads, Working, P!Dies
<1> QED BY PiSteps, <1>2, <1>3, <1>4, <1>5, <1>6, <1>7, <1>8, <1>9, <1>10

\* Nothing is written before there is a session.
LEMMA UnbornStep == ASSUME PiInv, P!Next PROVE Unborn'
<1>1. PiBooleans /\ Standing /\ Unborn /\ Gone /\ Requests
  BY PiTypesSplit DEF PiInv, Life
<1> USE <1>1 DEF PiBooleans
<1>2. CASE SessionSetup
  BY <1>2 DEF SessionSetup, P!OpenSession, P!ChooseModel, P!ModelUnknown, P!CreateThrows, P!Unopened, Unborn
<1>3. CASE P!Cancel
  BY <1>3 DEF P!Cancel, Unborn
<1>4. opened \/ P!Opened => opened' \/ SessionSetup
  BY PiSteps DEF P!Opened, P!Acked, P!Ended, P!Elicited, P!Cancel, P!TimeOut, NewPrompt, Disposes, GoesOn, Quiet,
     P!OnLine, P!Reads, Working, P!Dies
<1>5. ~opened => SessionSetup \/ P!Opened \/ P!Cancel
  <2>1. SUFFICES ASSUME ~opened PROVE SessionSetup \/ P!Opened \/ P!Cancel
    OBVIOUS
  <2>2. piPc \in {"idle", "config", "session", "refused", "threw"} /\ agent = "none" /\ ~asking /\ stdout = <<>>
    BY <2>1 DEF Standing, Unborn
  <2> QED BY PiSteps, <2>1, <2>2 DEF P!Acked, P!Ended, P!Elicited, P!TimeOut, NewPrompt, Disposes,
        GoesOn, P!OnLine, P!Reads, P!Alive, Working, P!Dies
<1> QED BY <1>2, <1>3, <1>4, <1>5 DEF Unborn

\* Nothing is read after it is disposed of.
LEMMA GoneStep == ASSUME PiInv, P!Next PROVE Gone'
<1>1. PiBooleans /\ Standing /\ Unborn /\ Gone /\ Requests
  BY PiTypesSplit DEF PiInv, Life
<1> USE <1>1 DEF PiBooleans
<1>2. CASE SessionSetup \/ P!Opened
  BY <1>2 DEF SessionSetup, P!OpenSession, P!ChooseModel, P!ModelUnknown, P!CreateThrows, P!Unopened, P!Opened,
     Gone, Standing
<1>3. CASE Disposes
  BY <1>3, Disposed DEF PiInv, Life, Gone
<1>4. SUFFICES ASSUME ~SessionSetup, ~P!Opened, ~Disposes PROVE Gone'
  BY <1>2, <1>3
<1>5. disposed' = disposed
  BY PiSteps, <1>4 DEF P!Acked, P!Ended, P!Elicited, P!Cancel, P!TimeOut, NewPrompt, GoesOn,
     P!OnLine, P!Reads, Working, P!Dies
<1>6. SUFFICES ASSUME disposed PROVE Gone'
  BY <1>5 DEF Gone
<1>7. agent \in {"dead", "killed"} /\ pending = {} /\ stdin = <<>> /\ ~P!Alive
  BY <1>6 DEF Gone, P!Alive
<1>8. CASE P!Acked \/ P!Ended \/ P!Elicited \/ P!Cancel \/ P!TimeOut
  BY <1>5, <1>6, <1>7, <1>8 DEF P!Acked, P!Ended, P!Elicited, P!Cancel, P!TimeOut, Gone, Standing
<1>9. CASE GoesOn
  BY <1>5, <1>6, <1>7, <1>9 DEF GoesOn, Quiet, Gone
<1>10. CASE P!OnLine
  <2>1. agent' = agent
    BY <1>10 DEF P!OnLine
  <2>2. stdin' = stdin /\ pending' = pending
    BY <1>10, <1>6, <1>7, HearingEffects DEF Hearing
  <2> QED BY <2>1, <2>2, <1>7 DEF Gone
<1>11. ~(NewPrompt \/ P!Reads \/ Working \/ P!Dies)
  BY <1>6, <1>7 DEF NewPrompt, P!Reads, Working, P!Dies
<1> QED BY PiSteps, <1>4, <1>8, <1>9, <1>10, <1>11

\* The directory is gone with the session that needed it.
LEMMA CleanedStep == ASSUME PiInv, P!Next PROVE Cleaned'
<1>1. PiBooleans /\ Standing /\ Cleaned
  BY PiTypesSplit DEF PiInv, Life
<1> USE <1>1 DEF PiBooleans
<1>2. CASE P!OpenSession
  BY <1>2 DEF P!OpenSession, P!Unopened, Cleaned, Standing
<1>3. CASE P!ChooseModel
  BY <1>3 DEF P!ChooseModel, P!Unopened, P!ResolvedOnHost, Cleaned, Standing
<1>4. CASE P!ModelUnknown
  BY <1>4 DEF P!ModelUnknown, P!Unopened, Cleaned, Standing
<1>5. CASE P!CreateThrows
  BY <1>5 DEF P!CreateThrows, P!Unopened, P!ResolvedOnHost, Cleaned, Standing
<1>6. CASE Disposes
  <2>1. dir' # "made"
    BY <1>6, Disposed DEF PiInv, Life
  <2> QED BY <2>1 DEF Cleaned
<1>7. CASE P!Opened
  BY <1>7 DEF P!Opened, Cleaned, Standing
<1>8. SUFFICES ASSUME ~SessionSetup, ~Disposes, ~P!Opened PROVE Cleaned'
  BY <1>2, <1>3, <1>4, <1>5, <1>6, <1>7 DEF SessionSetup
<1>9. /\ UNCHANGED <<conf, disposed, dir>>
      /\ piPc' # "refused" \/ piPc = "refused"
      /\ piPc = "config" => piPc' = "config"
  BY PiSteps, <1>8 DEF P!Acked, P!Ended, P!Elicited, P!Cancel, P!TimeOut, NewPrompt, GoesOn, Quiet,
     P!OnLine, P!Reads, Working, P!Dies
<1> QED BY <1>9 DEF Cleaned

\* The prompts are counted up to the summary's.
LEMMA CountedStep == ASSUME PiInv, P!Next PROVE Counted'
<1>1. PiBooleans /\ PiNumbers /\ Standing /\ Counted
  BY PiTypesSplit DEF PiInv, Life
<1> USE <1>1 DEF PiBooleans
<1>3. CASE P!Opened
  BY <1>3, PiBounds DEF P!Opened, Counted
<1>4. CASE NewPrompt
  <2>1. turn' = turn + 1 /\ opened' /\ (~recap' => turn < MaxPrompts) /\ ~recap
    BY <1>4 DEF NewPrompt, Quiet
  <2>2. turn + 1 \in Prompts /\ turn \in Nat /\ MaxPrompts \in Nat
    BY <2>1, PromptNumbers, PiBounds
  <2> QED BY <2>1, <2>2 DEF Counted
<1>5. SUFFICES ASSUME ~P!Opened, ~NewPrompt PROVE Counted'
  BY <1>3, <1>4
<1>6. UNCHANGED <<turn, recap, opened>>
  BY PiSteps, <1>5 DEF SessionSetup, P!OpenSession, P!ChooseModel, P!ModelUnknown, P!CreateThrows, P!Unopened, P!Acked, P!Ended, P!Elicited, P!Cancel, P!TimeOut, Disposes, GoesOn, Quiet,
     P!OnLine, P!Reads, Working, P!Dies
<1> QED BY <1>6 DEF Counted

\* The life of a session, in its five parts.
LEMMA LifeStep == ASSUME PiInv, P!Next PROVE Life'
BY StandingStep, UnbornStep, GoneStep, CleanedStep, CountedStep DEF Life

\* A request waits with its prompt.
LEMMA RequestsStep == ASSUME PiInv, P!Next PROVE Requests'
<1>1. PiBooleans /\ Standing /\ Unborn /\ Gone /\ Requests
  BY PiTypesSplit DEF PiInv, Life
<1> USE <1>1 DEF PiBooleans
<1>2. CASE SessionSetup
  <2>1. /\ UNCHANGED <<pending, got, turn, piCancelled>> /\ pending = {} /\ got = "none"
    BY <1>2 DEF SessionSetup, P!OpenSession, P!ChooseModel, P!ModelUnknown, P!CreateThrows, P!Unopened,
       Standing, Unborn
  <2> QED BY <2>1 DEF Requests
<1>3. CASE P!Opened
  <2>1. got' = "none" /\ piPc' = "ack" /\ turn' = 1 /\ pending' = {<<"prompt", 1>>}
    BY <1>3 DEF P!Opened, Standing, Unborn
  <2> QED BY <2>1 DEF Requests
<1>4. CASE P!Acked
  BY <1>4 DEF P!Acked, Requests
<1>5. CASE P!Ended
  <2>1. piPc = "end" /\ got = "none" /\ piPc' = "stats" /\ UNCHANGED <<turn, piCancelled>>
    BY <1>5 DEF P!Ended, Requests
  <2>2. CASE disposed
    <3>1. pending' = {}
      BY <2>2, <1>5 DEF P!Ended, Gone
    <3> QED BY <3>1, <2>1 DEF Requests
  <2>3. CASE ~disposed
    <3>1. pending' = pending \cup {<<"stats", turn>>} /\ got' = got
      BY <2>3, <1>5 DEF P!Ended
    <3> QED BY <3>1, <2>1 DEF Requests
  <2> QED BY <2>2, <2>3
<1>6. CASE P!Elicited
  BY <1>6 DEF P!Elicited, Requests
<1>7. CASE P!Cancel \/ P!TimeOut
  <2>1. /\ piCancelled' /\ UNCHANGED <<turn, got>>
        /\ piPc' = piPc \/ (piPc = "between" /\ piPc' = "stopping")
        /\ pending' = pending \/ pending' = pending \cup {<<"abort", "cancel">>}
    BY <1>7 DEF P!Cancel, P!TimeOut
  <2> QED BY <2>1 DEF Requests
<1>8. CASE NewPrompt
  <2>1. /\ piPc' = "ack" /\ got' = "none" /\ turn' = turn + 1 /\ UNCHANGED piCancelled
        /\ pending' = pending \cup {<<"prompt", turn + 1>>}
    BY <1>8 DEF NewPrompt, Quiet
  <2>2. \A k \in Prompts : <<"prompt", k>> \notin pending /\ <<"stats", k>> \notin pending
    BY <1>8 DEF NewPrompt, Requests
  <2> QED BY <2>1, <2>2 DEF Requests
<1>9. CASE Disposes
  <2>1. pending' = {} /\ (got' = got \/ (got' = "rejected" /\ piPc \in {"ack", "stats"}))
    BY <1>9, Disposed DEF PiInv, Life
  <2>2. piPc' = piPc \/ piPc' = "returned"
    BY <1>9 DEF Disposes
  <2> QED BY <2>1, <2>2 DEF Requests
<1>10. CASE GoesOn
  BY <1>10 DEF GoesOn, Quiet, Requests
<1>11. CASE P!OnLine
  <2>1. UNCHANGED <<piPc, turn, piCancelled>>
    BY <1>11 DEF P!OnLine
  <2>2. \/ got' = got /\ pending' \subseteq pending \cup {<<"abort", "ceiling">>}
        \/ /\ P!Line[1] \in {"accepted", "refused"} /\ <<"prompt", P!Line[2]>> \in pending
           /\ pending' = pending \ {<<"prompt", P!Line[2]>>}
        \/ /\ P!Line[1] \in {"stats", "unpriced"} /\ <<"stats", P!Line[2]>> \in pending
           /\ pending' = pending \ {<<"stats", P!Line[2]>>}
    BY <1>11, HearingEffects DEF Hearing
  <2>3. P!Line[1] \in {"accepted", "refused", "stats", "unpriced"} => P!Line[2] \in Prompts
    BY <1>11, PipeHeads, LineParts DEF P!OnLine, PiInv
  <2> QED BY <2>1, <2>2, <2>3 DEF Requests
<1>12. CASE P!Reads \/ Working \/ P!Dies
  BY <1>12 DEF P!Reads, Working, P!Dies, Requests
<1> QED BY PiSteps, <1>2, <1>3, <1>4, <1>5, <1>6, <1>7, <1>8, <1>9, <1>10, <1>11, <1>12

\* How the pipe to the agent changes.
LEMMA FramesMove ==
  ASSUME PiInv, P!Next
  PROVE  \/ stdin' \in {stdin, <<>>}
         \/ stdin # <<>> /\ stdin' = Tail(stdin)
         \/ ~opened /\ stdin' = <<<<"prompt", 1>>>>
         \/ \E f \in Frames : (f[1] = "allow" => f[2] \notin Denied) /\ stdin' = Append(stdin, f)
<1>1. PiBooleans /\ PiNumbers /\ Standing /\ Counted
  BY PiTypesSplit DEF PiInv, Life
<1>2. CASE SessionSetup \/ P!Acked \/ GoesOn \/ Working \/ P!Dies
  BY <1>2 DEF SessionSetup, P!OpenSession, P!ChooseModel, P!ModelUnknown, P!CreateThrows, P!Unopened, P!Acked,
     GoesOn, Working, P!Dies
<1>3. CASE P!Opened
  BY <1>1, <1>3 DEF P!Opened, Standing
<1>4. CASE P!Ended
  <2>1. stdin' \in {stdin, Append(stdin, <<"stats", turn>>)}
    BY <1>4 DEF P!Ended, P!Write
  <2>2. <<"stats", turn>> \in Frames
    BY <1>1, <1>4 DEF P!Ended, Standing, Counted, Frames
  <2> QED BY <2>1, <2>2
<1>5. CASE P!Elicited \/ P!Cancel \/ P!TimeOut
  <2>1. stdin' \in {stdin, Append(stdin, <<"answer", 0>>), Append(stdin, <<"abort", "cancel">>)}
    BY <1>5 DEF P!Elicited, P!Cancel, P!TimeOut, P!Write
  <2>2. <<"answer", 0>> \in Frames /\ <<"abort", "cancel">> \in Frames
    BY DEF Frames
  <2> QED BY <2>1, <2>2
<1>6. CASE NewPrompt
  <2>1. stdin' \in {stdin, Append(stdin, <<"prompt", turn + 1>>)} /\ ~recap
    BY <1>6 DEF NewPrompt, P!Write
  <2>2. <<"prompt", turn + 1>> \in Frames
    BY <1>1, <2>1, PromptNumbers DEF Frames
  <2> QED BY <2>1, <2>2
<1>7. CASE Disposes
  BY <1>7, Disposed, <1>1 DEF PiInv, Life
<1>8. CASE P!OnLine
  BY <1>8, HearingEffects DEF Hearing, PlainFrames
<1>9. CASE P!Reads
  BY <1>9 DEF P!Reads
<1> QED BY PiSteps, <1>2, <1>3, <1>4, <1>5, <1>6, <1>7, <1>8, <1>9

\* How the pipe from the agent changes.
LEMMA LinesMove ==
  ASSUME PiInv, P!Next
  PROVE  stdout' \in Seq(Lines)
<1>1. PiBooleans /\ PipeTypes
  BY PiTypesSplit DEF PiInv
<1>2. turn \in Prompts => /\ <<"accepted", turn>> \in Lines /\ <<"refused", turn>> \in Lines
                          /\ <<"agent_end", turn>> \in Lines
  BY DEF Lines
<1>3. \A q \in Seq(Lines), l \in Lines : Append(q, l) \in Seq(Lines)
  BY AppendProperties
<1>4. opened => turn \in Prompts
  BY DEF PiInv, Life, Counted
<1>5. CASE P!OnLine
  BY <1>1, <1>5, PipeHeads DEF P!OnLine
<1>6. CASE P!Reads
  <2>1. opened /\ Reading(Head(stdin))
    BY <1>6, ReadsEffects
  <2>2. \/ stdout' \in {stdout, Append(stdout, <<"accepted", turn>>), Append(stdout, <<"refused", turn>>)}
        \/ \E l \in Lines : stdout' = Append(stdout, l)
        \/ \E l \in Lines : stdout' = Append(Append(stdout, <<"agent_end", turn>>), l)
    BY <2>1 DEF Reading
  <2> QED BY <1>1, <1>2, <1>3, <1>4, <2>1, <2>2 DEF PipeTypes
<1>7. CASE Working
  <2>1. PICK l \in Lines : \/ stdout' = Append(stdout, l)
                           \/ stdout' = Append(Append(stdout, l), <<"agent_end", turn>>)
    BY <1>7 DEF Working
  <2> QED BY <1>1, <1>2, <1>3, <1>4, <1>7, <2>1 DEF PipeTypes, Working
<1>8. SUFFICES ASSUME ~P!OnLine, ~P!Reads, ~Working PROVE stdout' \in Seq(Lines)
  BY <1>5, <1>6, <1>7
<1>9. stdout' = stdout
  BY PiSteps, <1>8 DEF SessionSetup, P!OpenSession, P!ChooseModel, P!ModelUnknown, P!CreateThrows, P!Unopened,
     P!Opened, P!Acked, P!Ended, P!Elicited, P!Cancel, P!TimeOut, NewPrompt, Disposes, GoesOn, Quiet, P!Dies
<1> QED BY <1>1, <1>9 DEF PipeTypes

\* The pipes hold frames and lines.
LEMMA PipeTypesStep == ASSUME PiInv, P!Next PROVE PipeTypes'
<1>1. stdin \in Seq(Frames)
  BY DEF PiInv, PipeTypes
<1>2. <<"prompt", 1>> \in Frames
  BY PiBounds DEF Frames
<1>3. stdin' \in Seq(Frames)
  <2>1. stdin # <<>> => Tail(stdin) \in Seq(Frames)
    BY <1>1, HeadTailProperties
  <2>2. \A f \in Frames : Append(stdin, f) \in Seq(Frames)
    BY <1>1, AppendProperties
  <2>3. <<>> \in Seq(Frames) /\ <<<<"prompt", 1>>>> \in Seq(Frames)
    BY <1>2
  <2> QED BY <1>1, <2>1, <2>2, <2>3, FramesMove
<1> QED BY <1>3, LinesMove DEF PipeTypes

\* What is denied is not allowed, and does not run.
LEMMA AllowedStep == ASSUME PiInv, P!Next PROVE Allowed'
<1>1. stdin \in Seq(Frames) /\ Allowed
  BY DEF PiInv, PipeTypes
<1>2. \A f \in ToSet(stdin') : f[1] = "allow" => f[2] \notin Denied
  <2>1. stdin # <<>> => ToSet(Tail(stdin)) \subseteq ToSet(stdin)
    BY <1>1, ToSetOfTail
  <2>2. \A f \in Frames : ToSet(Append(stdin, f)) = ToSet(stdin) \cup {f}
    BY <1>1, ToSetOfAppend
  <2>3. ToSet(<<>>) = {}
    BY ToSetOfEmpty
  <2>4. ToSet(<<<<"prompt", 1>>>>) = {<<"prompt", 1>>}
    BY DEF ToSet
  <2>5. CASE stdin' \in {stdin, <<>>}
    BY <2>5, <2>3, <1>1 DEF Allowed
  <2>6. CASE stdin # <<>> /\ stdin' = Tail(stdin)
    BY <2>6, <2>1, <1>1 DEF Allowed
  <2>7. CASE stdin' = <<<<"prompt", 1>>>>
    BY <2>7, <2>4
  <2>8. ASSUME NEW f \in Frames, f[1] = "allow" => f[2] \notin Denied, stdin' = Append(stdin, f)
        PROVE  \A g \in ToSet(stdin') : g[1] = "allow" => g[2] \notin Denied
    <3>1. ToSet(stdin') = ToSet(stdin) \cup {f}
      BY <2>8, <2>2
    <3> QED BY <3>1, <2>8, <1>1 DEF Allowed
  <2> QED BY <2>5, <2>6, <2>7, <2>8, FramesMove
<1>3. ran' \cap Denied = {}
  <2>1. stdin # <<>> => Head(stdin) \in ToSet(stdin)
    BY <1>1, ToSetOfTail
  <2> QED BY <1>1, <2>1, RanStep DEF Allowed
<1> QED BY <1>2, <1>3 DEF Allowed

\* Pipes that stay as they are.
LEMMA SamePipes ==
  /\ stdin' = stdin => Sent' = Sent /\ (AtMostOne(stdin', PromptFrames) <=> AtMostOne(stdin, PromptFrames))
  /\ stdout' = stdout => /\ Judged' = Judged /\ EndSaid' = EndSaid
                         /\ AtMostOne(stdout', Verdicts) <=> AtMostOne(stdout, Verdicts)
                         /\ AtMostOne(stdout', EndLines) <=> AtMostOne(stdout, EndLines)
BY DEF Sent, Judged, EndSaid

\* A write of something else than a prompt.
LEMMA PlainWrite ==
  ASSUME PipeTypes, AtMostOne(stdin, PromptFrames), NEW f \in Frames, f \notin PromptFrames,
         stdin' \in {stdin, Append(stdin, f)}
  PROVE  Sent' = Sent /\ AtMostOne(stdin', PromptFrames)
<1>1. CASE stdin' = stdin
  BY <1>1 DEF Sent
<1>2. CASE stdin' = Append(stdin, f)
  <2>1. /\ AtMostOne(stdin', PromptFrames)
        /\ Sent' = Sent \cup ({f} \cap PromptFrames)
    BY <1>2, FrameSent
  <2> QED BY <2>1
<1> QED BY <1>1, <1>2

\* The session stands, and its turn with it.
TurnHolds == OfThisTurn /\ Protocol

\* A session opens with the first prompt on its way.
LEMMA OpenedTurn ==
  ASSUME PiInv, P!Opened
  PROVE  TurnHolds'
<1>1. got = "none" /\ stdout = <<>>
  BY PiTypesSplit DEF P!Opened, PiInv, Life, Standing, Unborn, PiBooleans
<1>2. /\ got' = "none" /\ agentEnd' = "waiting" /\ piPc' = "ack" /\ turn' = 1 /\ agent' = "idle"
      /\ stdin' = <<<<"prompt", 1>>>> /\ stdout' = <<>>
  BY <1>1 DEF P!Opened
<1>3. Judged' = {} /\ EndSaid' = {} /\ AtMostOne(stdout', Verdicts) /\ AtMostOne(stdout', EndLines)
  BY <1>2, ToSetOfEmpty DEF Judged, EndSaid, AtMostOne
<1>4. Sent' \subseteq {<<"prompt", 1>>} /\ AtMostOne(stdin', PromptFrames)
  <2>1. ToSet(<<<<"prompt", 1>>>>) = {<<"prompt", 1>>} /\ Len(<<<<"prompt", 1>>>>) = 1
    BY DEF ToSet
  <2> QED BY <1>2, <2>1 DEF Sent, AtMostOne
<1> QED BY <1>2, <1>3, <1>4 DEF TurnHolds, OfThisTurn, Protocol

\* The coroutine of the prompt goes on, or a request of another kind is written.
LEMMA RunnerTurn ==
  ASSUME PiInv, opened, ~disposed, OfThisTurn, Protocol,
         P!Acked \/ P!Ended \/ P!Elicited \/ P!Cancel \/ P!TimeOut \/ GoesOn
  PROVE  TurnHolds'
<1>1. PipeTypes /\ turn \in Prompts /\ Requests
  BY DEF PiInv, Life, Counted
<1>2. UNCHANGED <<turn, agent, agentEnd, heard, lastCost, current, spent, stdout>>
  BY DEF P!Acked, P!Ended, P!Elicited, P!Cancel, P!TimeOut, GoesOn, Quiet
<1>3. PICK f \in Frames : f \notin PromptFrames /\ stdin' \in {stdin, Append(stdin, f)}
  <2>1. /\ <<"stats", turn>> \in Frames \ PromptFrames /\ <<"abort", "cancel">> \in Frames \ PromptFrames
        /\ <<"answer", 0>> \in Frames \ PromptFrames
    BY <1>1 DEF Frames, PromptFrames
  <2>2. \/ stdin' = stdin \/ stdin' = Append(stdin, <<"stats", turn>>)
        \/ stdin' = Append(stdin, <<"abort", "cancel">>) \/ stdin' = Append(stdin, <<"answer", 0>>)
    BY DEF P!Acked, P!Ended, P!Elicited, P!Cancel, P!TimeOut, GoesOn, P!Write
  <2> QED BY <2>1, <2>2
<1>4. Sent' = Sent /\ AtMostOne(stdin', PromptFrames)
  BY <1>1, <1>3, PlainWrite DEF OfThisTurn
<1>5. /\ Judged' = Judged /\ EndSaid' = EndSaid
      /\ AtMostOne(stdout', Verdicts) /\ AtMostOne(stdout', EndLines)
  BY <1>2, SamePipes DEF OfThisTurn
<1>6. OfThisTurn'
  BY <1>2, <1>4, <1>5 DEF OfThisTurn
<1>7. Protocol'
  <2>1. CASE P!Acked
    <3>1. piPc = "ack" /\ got = "ok" /\ piPc' = "end" /\ got' = "none"
      BY <2>1 DEF P!Acked
    <3> QED BY <3>1, <1>2, <1>4, <1>5 DEF Protocol
  <2>2. CASE P!Ended
    <3>1. piPc = "end" /\ agentEnd = "ok" /\ piPc' = "stats" /\ got' = "none" /\ got = "none"
      BY <2>2, <1>1 DEF P!Ended, Requests
    <3> QED BY <3>1, <1>2, <1>4, <1>5 DEF Protocol
  <2>3. CASE P!Elicited \/ P!Cancel
    <3>1. UNCHANGED <<piPc, got>>
      BY <2>3 DEF P!Elicited, P!Cancel
    <3> QED BY <3>1, <1>2, <1>4, <1>5 DEF Protocol
  <2>4. CASE P!TimeOut
    <3>1. piPc = "between" /\ piPc' = "stopping" /\ got' = got
      BY <2>4 DEF P!TimeOut
    <3> QED BY <3>1, <1>2, <1>4, <1>5 DEF Protocol
  <2>5. CASE GoesOn
    <3>1. /\ piPc \in {"stats", "kept"} /\ piPc' \in {"between", "kept", "dropped"} /\ got' = got
      BY <2>5 DEF GoesOn
    <3> QED BY <3>1, <1>2, <1>4, <1>5 DEF Protocol
  <2> QED BY <2>1, <2>2, <2>3, <2>4, <2>5
<1> QED BY <1>6, <1>7 DEF TurnHolds

\* The next prompt is sent only when the one before is over in both pipes.
LEMMA PromptedTurn ==
  ASSUME PiInv, opened, ~disposed, OfThisTurn, Protocol, NewPrompt
  PROVE  TurnHolds'
<1>1. PipeTypes /\ PiNumbers /\ Counted
  BY PiTypesSplit DEF PiInv, Life
<1>2. <<"prompt", turn + 1>> \in Frames /\ <<"prompt", turn + 1>> \in PromptFrames
  BY <1>1, PromptNumbers DEF NewPrompt, Frames, PromptFrames
<1>3. /\ piPc' = "ack" /\ got' = "none" /\ agentEnd' = "waiting" /\ turn' = turn + 1
      /\ UNCHANGED <<agent, stdout, spent, current, heard, lastCost>>
  BY DEF NewPrompt, Quiet
<1>4. /\ Sent = {} /\ Judged = {} /\ EndSaid = {} /\ agent \notin {"busy", "blocked"}
  BY DEF NewPrompt, Protocol
<1>5. /\ Judged' = {} /\ EndSaid' = {} /\ AtMostOne(stdout', Verdicts) /\ AtMostOne(stdout', EndLines)
  BY <1>3, <1>4, SamePipes DEF OfThisTurn
<1>6. CASE ~P!Alive
  <2>1. Sent' = {} /\ AtMostOne(stdin', PromptFrames)
    BY <1>6, <1>4 DEF NewPrompt, P!Write, OfThisTurn, Sent
  <2> QED BY <2>1, <1>3, <1>4, <1>5 DEF TurnHolds, OfThisTurn, Protocol
<1>7. CASE P!Alive
  <2>1. stdin' = Append(stdin, <<"prompt", turn + 1>>)
    BY <1>7 DEF NewPrompt, P!Write
  <2>2. Sent' = {<<"prompt", turn + 1>>} /\ AtMostOne(stdin', PromptFrames)
    BY <2>1, <1>1, <1>2, <1>4, FrameSent DEF OfThisTurn
  <2>3. agent' = "idle"
    BY <1>3, <1>4, <1>7 DEF P!Alive
  <2> QED BY <2>2, <2>3, <1>3, <1>4, <1>5 DEF TurnHolds, OfThisTurn, Protocol
<1> QED BY <1>6, <1>7

\* What is read from the agent settles the prompt that waits.
LEMMA HeardTurn ==
  ASSUME PiInv, opened, ~disposed, OfThisTurn, Protocol, P!OnLine
  PROVE  TurnHolds'
<1> DEFINE l == P!Line
<1>1. PipeTypes /\ turn \in Prompts /\ Requests
  BY DEF PiInv, Life, Counted
<1>2. UNCHANGED <<piPc, turn, agent, current, spent>>
  BY DEF P!OnLine
<1>3. stdout # <<>> /\ stdout' = Tail(stdout) /\ Hearing(l)
  BY HearingEffects
<1>4. /\ l \in Lines /\ AtMostOne(stdout', Verdicts) /\ AtMostOne(stdout', EndLines)
      /\ l \in Verdicts => Judged = {l} /\ Judged' = {}
      /\ l \notin Verdicts => Judged' = Judged
      /\ l \in EndLines => EndSaid = {l} /\ EndSaid' = {}
      /\ l \notin EndLines => EndSaid' = EndSaid
  BY <1>1, <1>3, LineRead DEF OfThisTurn
<1> HIDE DEF l
<1>5. /\ l \in Verdicts <=> l[1] \in {"accepted", "refused"}
      /\ l \in EndLines <=> l[1] = "agent_end"
      /\ l[1] \in {"accepted", "refused", "stats", "unpriced", "agent_end"} => l[2] \in Prompts /\ l = <<l[1], l[2]>>
  BY <1>4, LineParts
<1>6. Sent' = Sent /\ AtMostOne(stdin', PromptFrames)
  <2>1. stdin' = stdin \/ \E f \in Frames : f \notin PromptFrames /\ stdin' = Append(stdin, f)
    BY <1>3 DEF Hearing, PlainFrames
  <2> QED BY <2>1, <1>1, SamePipes, PlainWrite DEF OfThisTurn
<1>7. OfThisTurn'
  <2>1. Judged' \subseteq Judged /\ EndSaid' \subseteq EndSaid
    BY <1>4
  <2> QED BY <2>1, <1>2, <1>4, <1>6 DEF OfThisTurn
<1>8. Protocol'
  <2>1. CASE UNCHANGED <<got, lastCost, agentEnd, heard>>
    <3>1. (Judged' = Judged \/ Judged' = {}) /\ (EndSaid' = EndSaid \/ EndSaid' = {})
      BY <1>4
    <3> QED BY <3>1, <2>1, <1>2, <1>6 DEF Protocol
  <2>2. CASE /\ l[1] = "accepted" /\ <<"prompt", l[2]>> \in pending /\ got' = "ok"
             /\ UNCHANGED <<lastCost, agentEnd, heard>>
    <3>1. piPc = "ack" /\ got = "none" /\ Judged' = {} /\ EndSaid' = EndSaid /\ Sent = {}
      BY <2>2, <1>1, <1>4, <1>5 DEF Requests, Protocol
    <3> QED BY <3>1, <2>2, <1>2, <1>6 DEF Protocol
  <2>3. CASE /\ l[1] = "refused" /\ <<"prompt", l[2]>> \in pending /\ got' = "refused" /\ agentEnd' = "none"
             /\ UNCHANGED <<lastCost, heard>>
    <3>1. /\ piPc = "ack" /\ got = "none" /\ Judged' = {} /\ Sent = {} /\ <<"refused", turn>> \in Judged
          /\ l[2] = turn
      BY <2>3, <1>1, <1>4, <1>5 DEF Requests, Protocol
    <3>2. EndSaid' = {} /\ agent \in {"idle", "dead"}
      BY <3>1, <1>4, <1>5, <2>3 DEF Protocol
    <3> QED BY <3>1, <3>2, <2>3, <1>2, <1>6 DEF Protocol
  <2>4. CASE /\ l[1] \in {"stats", "unpriced"} /\ <<"stats", l[2]>> \in pending /\ got' \in {"ok", "unpriced"}
             /\ got' = "ok" => lastCost' = spent
             /\ UNCHANGED <<agentEnd, heard>>
    <3>1. piPc = "stats" /\ got = "none" /\ agentEnd = "ok" /\ spent = turn /\ Judged' = Judged /\ EndSaid' = EndSaid
      BY <2>4, <1>1, <1>4, <1>5 DEF Requests, Protocol
    <3> QED BY <3>1, <2>4, <1>2, <1>6 DEF Protocol
  <2>5. CASE /\ l[1] = "agent_end" /\ agentEnd = "waiting" /\ agentEnd' = "ok" /\ heard' = l[2]
             /\ UNCHANGED <<got, lastCost>>
    <3>1. l[2] = turn /\ EndSaid # {} /\ EndSaid' = {} /\ Judged' = Judged
      <4>1. l \in EndSaid /\ EndSaid' = {} /\ Judged' = Judged /\ l = <<"agent_end", l[2]>>
        BY <2>5, <1>4, <1>5
      <4>2. l = <<"agent_end", turn>>
        BY <4>1 DEF OfThisTurn
      <4> QED BY <4>1, <4>2
    <3>2. Sent = {} /\ spent = turn /\ agent \in {"idle", "dead"} /\ <<"refused", turn>> \notin Judged
      BY <3>1 DEF Protocol
    <3> QED BY <3>1, <3>2, <2>5, <1>2, <1>6 DEF Protocol
  <2> QED BY <1>3, <2>1, <2>2, <2>3, <2>4, <2>5 DEF Hearing
<1> QED BY <1>7, <1>8 DEF TurnHolds

\* What the agent reads is the prompt that waits, or no prompt.
LEMMA ReadTurn ==
  ASSUME PiInv, opened, ~disposed, OfThisTurn, Protocol, P!Reads
  PROVE  TurnHolds'
<1> DEFINE h == Head(stdin)
<1>1. PipeTypes /\ turn \in Prompts
  BY DEF PiInv, Life, Counted
<1>2. UNCHANGED <<piPc, turn, got, agentEnd, heard, lastCost>>
  BY DEF P!Reads
<1>3. stdin # <<>> /\ stdin' = Tail(stdin) /\ Reading(h)
  BY ReadsEffects
<1>4. /\ h \in Frames /\ AtMostOne(stdin', PromptFrames)
      /\ h \in PromptFrames => Sent = {h} /\ Sent' = {}
      /\ h \notin PromptFrames => Sent' = Sent
  BY <1>1, <1>3, FrameRead DEF OfThisTurn
<1>5. /\ AtMostOne(stdout, Verdicts) /\ AtMostOne(stdout, EndLines)
      /\ <<"agent_end", turn>> \in Lines \cap EndLines /\ <<"agent_end", turn>> \notin Verdicts
      /\ <<"accepted", turn>> \in (Lines \cap Verdicts) \ EndLines
      /\ <<"refused", turn>> \in (Lines \cap Verdicts) \ EndLines
      /\ <<"prompt", turn>> \in PromptFrames
  BY <1>1 DEF OfThisTurn, Lines, Verdicts, EndLines, PromptFrames
<1> HIDE DEF h
<1>6. CASE h = <<"prompt", turn>>
  <2>1. /\ Sent # {} /\ Sent' = {} /\ Judged = {} /\ EndSaid = {} /\ piPc = "ack" /\ got = "none"
        /\ agentEnd = "waiting" /\ agent = "idle"
    BY <1>4, <1>5, <1>6 DEF Protocol
  <2>2. CASE /\ agent' = "busy" /\ current' = turn /\ stdout' = Append(stdout, <<"accepted", turn>>)
             /\ UNCHANGED spent
    <3>1. /\ AtMostOne(stdout', Verdicts) /\ AtMostOne(stdout', EndLines)
          /\ Judged' = {<<"accepted", turn>>} /\ EndSaid' = {}
      BY <2>1, <2>2, <1>1, <1>5, LineSaid
    <3> QED BY <2>1, <2>2, <3>1, <1>2, <1>4 DEF TurnHolds, OfThisTurn, Protocol
  <2>3. CASE UNCHANGED <<agent, current, spent>> /\ stdout' = Append(stdout, <<"refused", turn>>)
    <3>1. /\ AtMostOne(stdout', Verdicts) /\ AtMostOne(stdout', EndLines)
          /\ Judged' = {<<"refused", turn>>} /\ EndSaid' = {}
      BY <2>1, <2>3, <1>1, <1>5, LineSaid
    <3> QED BY <2>1, <2>3, <3>1, <1>2, <1>4 DEF TurnHolds, OfThisTurn, Protocol
  <2> QED BY <1>3, <1>5, <1>6, <2>2, <2>3 DEF Reading
<1>7. CASE h # <<"prompt", turn>>
  <2>1. h \notin PromptFrames /\ Sent' = Sent
    BY <1>3, <1>4, <1>7 DEF Reading
  <2>2. CASE /\ UNCHANGED <<agent, current, spent>>
             /\ \E l \in Lines \ (Verdicts \cup EndLines) : stdout' = Append(stdout, l)
    <3>1. /\ AtMostOne(stdout', Verdicts) /\ AtMostOne(stdout', EndLines)
          /\ Judged' = Judged /\ EndSaid' = EndSaid
      BY <2>2, <1>1, <1>5, LineSaid
    <3> QED BY <2>1, <2>2, <3>1, <1>2, <1>4 DEF TurnHolds, OfThisTurn, Protocol
  <2>3. CASE /\ agent \in {"busy", "blocked"} /\ agent' = "idle" /\ spent' = turn /\ UNCHANGED current
             /\ \E l \in Lines \ (Verdicts \cup EndLines) :
                  stdout' = Append(Append(stdout, <<"agent_end", turn>>), l)
    <3>1. agentEnd = "waiting" /\ EndSaid = {} /\ <<"refused", turn>> \notin Judged /\ Sent = {}
      BY <2>3 DEF Protocol
    <3>2. /\ AtMostOne(stdout', Verdicts) /\ AtMostOne(stdout', EndLines)
          /\ Judged' = Judged /\ EndSaid' = {<<"agent_end", turn>>}
      <4> DEFINE e == <<"agent_end", turn>>
                 mid == Append(stdout, e)
      <4>1. PICK l \in Lines : l \notin Verdicts /\ l \notin EndLines /\ stdout' = Append(mid, l)
        BY <2>3
      <4>2. e \in Lines /\ e \in EndLines /\ e \notin Verdicts /\ stdout \in Seq(Lines)
        BY <1>1, <1>5 DEF PipeTypes
      <4> HIDE DEF e
      <4>3. mid \in Seq(Lines) /\ AtMostOne(mid, Verdicts) /\ ToSet(mid) \cap Verdicts = Judged
        BY <4>2, <1>5, AtMostOneOfAppend, AppendProperties DEF Judged
      <4>4. AtMostOne(mid, EndLines) /\ ToSet(mid) \cap EndLines = {e}
        BY <4>2, <1>5, <3>1, AtMostOneOfAppend DEF EndSaid
      <4> HIDE DEF mid
      <4>5. AtMostOne(Append(mid, l), Verdicts) /\ ToSet(Append(mid, l)) \cap Verdicts = Judged
        BY <4>1, <4>3, AtMostOneOfAppend
      <4>6. AtMostOne(Append(mid, l), EndLines) /\ ToSet(Append(mid, l)) \cap EndLines = {e}
        BY <4>1, <4>3, <4>4, AtMostOneOfAppend
      <4> QED BY <4>1, <4>5, <4>6 DEF Judged, EndSaid, e
    <3> QED BY <2>1, <2>3, <3>1, <3>2, <1>2, <1>4 DEF TurnHolds, OfThisTurn, Protocol
  <2>4. CASE /\ UNCHANGED <<current, spent, stdout>>
             /\ agent' = agent \/ (agent = "blocked" /\ agent' = "busy")
    <3>1. /\ AtMostOne(stdout', Verdicts) /\ AtMostOne(stdout', EndLines)
          /\ Judged' = Judged /\ EndSaid' = EndSaid
      BY <2>4, <1>5, SamePipes
    <3> QED BY <2>1, <2>4, <3>1, <1>2, <1>4 DEF TurnHolds, OfThisTurn, Protocol
  <2> QED BY <1>3, <1>7, <2>2, <2>3, <2>4 DEF Reading
<1> QED BY <1>6, <1>7

\* The agent works on the prompt that waits, and ends it once.
LEMMA WorkedTurn ==
  ASSUME PiInv, opened, ~disposed, OfThisTurn, Protocol, Working
  PROVE  TurnHolds'
<1>1. PipeTypes /\ turn \in Prompts
  BY DEF PiInv, Life, Counted
<1>2. /\ UNCHANGED <<piPc, turn, got, agentEnd, heard, lastCost, stdin, current>> /\ agent = "busy"
  BY DEF Working
<1>3. Sent' = Sent /\ AtMostOne(stdin', PromptFrames)
  BY <1>2 DEF Sent, OfThisTurn
<1>4. agentEnd = "waiting" /\ EndSaid = {} /\ <<"refused", turn>> \notin Judged /\ Sent = {} /\ current = turn
  BY <1>2 DEF Protocol
<1> DEFINE e == <<"agent_end", turn>>
<1>5. AtMostOne(stdout, Verdicts) /\ AtMostOne(stdout, EndLines) /\ stdout \in Seq(Lines)
  BY <1>1 DEF OfThisTurn, PipeTypes
<1>6. e \in Lines /\ e \in EndLines /\ e \notin Verdicts
  BY <1>1 DEF Lines, EndLines, Verdicts
<1>7. PICK l \in Lines :
        /\ l \notin Verdicts /\ l \notin EndLines
        /\ \/ stdout' = Append(stdout, l) /\ agent' \in {"busy", "blocked"} /\ UNCHANGED spent
           \/ stdout' = Append(Append(stdout, l), e) /\ agent' = "idle" /\ spent' = turn
  BY DEF Working
<1> HIDE DEF e
<1> DEFINE mid == Append(stdout, l)
<1>8. mid \in Seq(Lines) /\ AtMostOne(mid, Verdicts) /\ ToSet(mid) \cap Verdicts = Judged
  BY <1>5, <1>7, AtMostOneOfAppend, AppendProperties DEF Judged
<1>9. AtMostOne(mid, EndLines) /\ ToSet(mid) \cap EndLines = {}
  BY <1>5, <1>7, <1>4, AtMostOneOfAppend DEF EndSaid
<1> HIDE DEF mid
<1>10. CASE stdout' = mid /\ agent' \in {"busy", "blocked"} /\ UNCHANGED spent
  <2>1. AtMostOne(stdout', Verdicts) /\ AtMostOne(stdout', EndLines) /\ Judged' = Judged /\ EndSaid' = {}
    BY <1>8, <1>9, <1>10 DEF Judged, EndSaid
  <2> QED BY <2>1, <1>10, <1>2, <1>3, <1>4 DEF TurnHolds, OfThisTurn, Protocol
<1>11. CASE stdout' = Append(mid, e) /\ agent' = "idle" /\ spent' = turn
  <2>1. AtMostOne(Append(mid, e), Verdicts) /\ ToSet(Append(mid, e)) \cap Verdicts = Judged
    BY <1>6, <1>8, AtMostOneOfAppend
  <2>2. AtMostOne(Append(mid, e), EndLines) /\ ToSet(Append(mid, e)) \cap EndLines = {e}
    BY <1>6, <1>8, <1>9, AtMostOneOfAppend
  <2>3. AtMostOne(stdout', Verdicts) /\ AtMostOne(stdout', EndLines) /\ Judged' = Judged
        /\ EndSaid' = {<<"agent_end", turn>>}
    BY <2>1, <2>2, <1>11 DEF Judged, EndSaid, e
  <2> QED BY <2>3, <1>11, <1>2, <1>3, <1>4 DEF TurnHolds, OfThisTurn, Protocol
<1> QED BY <1>7, <1>10, <1>11 DEF mid

\* A process that dies reads no more; what it wrote still arrives.
LEMMA DeathTurn ==
  ASSUME PiInv, opened, ~disposed, OfThisTurn, Protocol, P!Dies
  PROVE  TurnHolds'
<1>1. UNCHANGED <<piPc, turn, got, agentEnd, heard, lastCost, stdout, current, spent>>
  BY DEF P!Dies
<1>2. stdin' = <<>> /\ agent' = "dead" /\ agent \in {"idle", "busy", "blocked"}
  BY DEF P!Dies, P!Alive
<1>3. Sent' = {} /\ AtMostOne(stdin', PromptFrames)
  BY <1>2, ToSetOfEmpty DEF Sent, AtMostOne
<1>4. Judged' = Judged /\ EndSaid' = EndSaid /\ AtMostOne(stdout', Verdicts) /\ AtMostOne(stdout', EndLines)
  BY <1>1 DEF Judged, EndSaid, OfThisTurn
<1> QED BY <1>1, <1>2, <1>3, <1>4 DEF TurnHolds, OfThisTurn, Protocol

\* The turn holds as long as the session stands.
LEMMA TurnStep ==
  ASSUME PiInv, P!Next
  PROVE  opened' /\ ~disposed' => OfThisTurn' /\ Protocol'
<1>1. SUFFICES ASSUME opened', ~disposed' PROVE TurnHolds'
  BY DEF TurnHolds
<1>2. PiBooleans
  BY PiTypesSplit DEF PiInv
<1>3. ~Disposes
  BY <1>1, <1>2, Disposed DEF PiInv, Life
<1>4. CASE P!Opened
  BY <1>4, OpenedTurn
<1>5. CASE ~P!Opened
  <2>1. opened' = opened /\ disposed' = disposed
    BY PiSteps, <1>3, <1>5 DEF SessionSetup, P!OpenSession, P!ChooseModel, P!ModelUnknown, P!CreateThrows,
       P!Unopened, P!Acked, P!Ended, P!Elicited, P!Cancel, P!TimeOut, NewPrompt, GoesOn, Quiet,
       P!OnLine, P!Reads, Working, P!Dies
  <2>2. opened /\ ~disposed
    BY <2>1, <1>1, <1>2 DEF PiBooleans
  <2>3. OfThisTurn /\ Protocol
    BY <2>2 DEF PiInv
  <2>4. ~SessionSetup
    BY <2>2 DEF PiInv, Life, Standing, SessionSetup, P!OpenSession, P!ChooseModel, P!ModelUnknown, P!CreateThrows
  <2> QED BY PiSteps, <1>3, <1>5, <2>2, <2>3, <2>4, RunnerTurn, PromptedTurn, HeardTurn, ReadTurn, WorkedTurn, DeathTurn
<1> QED BY <1>4, <1>5

\* The model is chosen once.
LEMMA ChosenStep == ASSUME PiInv, P!Next PROVE Chosen'
<1>1. PiBooleans /\ PiSets
  BY PiTypesSplit DEF PiInv
<1>2. CASE P!OpenSession
  BY <1>2 DEF P!OpenSession, P!NoChoice, Chosen
<1>3. CASE P!ChooseModel
  <2>1. PICK authed \in SUBSET Models :
          \E m \in P!SelectStageModel(choice.stage, choice.default, authed) :
            choice' = [choice EXCEPT !.authed = authed, !.model = m]
    BY <1>3 DEF P!ChooseModel
  <2>2. PICK m \in P!SelectStageModel(choice.stage, choice.default, authed) :
          choice' = [choice EXCEPT !.authed = authed, !.model = m]
    BY <2>1
  <2>3. choice'.stage = choice.stage /\ choice'.default = choice.default /\ choice'.authed = authed
        /\ choice'.model = m
    BY <2>2, <1>1 DEF PiSets
  <2> QED BY <2>2, <2>3 DEF Chosen
<1>4. SUFFICES ASSUME ~P!OpenSession, ~P!ChooseModel PROVE Chosen'
  BY <1>2, <1>3
<1>5. piPc' = "session" => piPc = "session" /\ choice' = choice
  BY PiSteps, <1>4 DEF SessionSetup, P!ModelUnknown, P!CreateThrows, P!Opened,
     P!Acked, P!Ended, P!Elicited, P!Cancel, P!TimeOut, NewPrompt, Disposes, GoesOn, Quiet,
     P!OnLine, P!Reads, Working, P!Dies
<1> QED BY <1>5 DEF Chosen, PiInv

\* The invariant of the session holds before it is created.
LEMMA PiInit == ASSUME P!Init PROVE PiInv
<1> USE PiBounds
<1>1. P!TypeOK
  <2>1. PiBooleans
    BY DEF P!Init, PiBooleans
  <2>2. PiStates
    BY DEF P!Init, PiStates
  <2>3. PiNumbers
    BY DEF P!Init, PiNumbers
  <2>4. PiSets
    BY DEF P!Init, PiSets, P!NoChoice, P!Asked
  <2> QED BY <2>1, <2>2, <2>3, <2>4, PiTypesSplit
<1>2. PipeTypes
  BY DEF P!Init, PipeTypes
<1>3. Standing /\ Unborn /\ Gone /\ Cleaned
  BY DEF P!Init, Standing, Unborn, Gone, Cleaned
<1>4. Counted
  BY DEF P!Init, Counted
<1>5. Requests /\ ~opened
  BY DEF P!Init, Requests
<1>6. Allowed
  BY ToSetOfEmpty DEF P!Init, Allowed
<1>7. Chosen
  BY DEF P!Init, Chosen
<1> QED BY <1>1, <1>2, <1>3, <1>4, <1>5, <1>6, <1>7 DEF PiInv, Life

\* Every step of the session keeps it.
LEMMA PiStep == PiInv /\ [P!Next]_pVars => PiInv'
<1>1. ASSUME PiInv, P!Next PROVE PiInv'
  <2>1. PiBooleans /\ PiStates /\ PiNumbers /\ PiSets /\ PipeTypes /\ Life
    BY <1>1, PiTypesSplit DEF PiInv
  <2>2. PiBooleans' /\ PiStates' /\ PiNumbers' /\ PiSets'
    BY <1>1, <2>1, PiBooleansStep, PiStatesStep, PiNumbersStep, PiSetsStep
  <2>3. P!TypeOK'
    BY <2>2 DEF P!TypeOK, PiBooleans, PiStates, PiNumbers, PiSets, Prompts
  <2> QED BY <1>1, <2>3, PipeTypesStep, LifeStep, RequestsStep, TurnStep, AllowedStep, ChosenStep DEF PiInv
<1>2. ASSUME PiInv, UNCHANGED pVars PROVE PiInv'
  BY <1>2 DEF pVars, PiInv, P!TypeOK, P!Asked, PipeTypes, Life, Standing, Unborn, Gone, Cleaned, Counted,
     Requests, OfThisTurn, Protocol, Sent, Judged, EndSaid, Allowed, Chosen
<1> QED BY <1>1, <1>2

\* Of the models a stage may be given, the one it asked for, or one of its family.
LEMMA PickedCanRun ==
  ASSUME NEW wanted, NEW authed, NEW fallback, NEW model \in P!PickAuthedModel(wanted, authed, fallback)
  PROVE  LET providers == {Provider[a] : a \in authed}
         IN /\ Provider[wanted] \in providers => model = wanted
            /\ (\E a \in authed : Family[a] = Family[wanted]) => Provider[model] \in providers
BY DEF P!PickAuthedModel

\* The invariant of the Pi session and what follows from it.
LEMMA PiInvSound ==
  PiInv => P!TypeOK /\ P!TurnIsSettled /\ P!ModelCanRun /\ P!DeniedNeverRuns /\ P!NothingLeftBehind
<1> SUFFICES ASSUME PiInv
             PROVE  P!TypeOK /\ P!TurnIsSettled /\ P!ModelCanRun /\ P!DeniedNeverRuns /\ P!NothingLeftBehind
  OBVIOUS
<1>1. P!TypeOK /\ PiBooleans
  BY PiTypesSplit DEF PiInv
<1>2. P!TurnIsSettled
  BY <1>1 DEF PiInv, Life, Standing, Protocol, PiBooleans, P!TurnIsSettled
<1>3. P!ModelCanRun
  BY PickedCanRun DEF PiInv, Chosen, P!SelectStageModel, P!ModelCanRun
<1>4. P!DeniedNeverRuns
  BY DEF PiInv, Allowed, P!DeniedNeverRuns
<1>5. P!NothingLeftBehind
  BY <1>1 DEF PiInv, Life, Standing, Unborn, Gone, Cleaned, P!NothingLeftBehind, P!Alive, PiBooleans
<1> QED BY <1>1, <1>2, <1>3, <1>4, <1>5

-----------------------------------------------------------------------------
(***************************************************************************)
(* The Claude session (ClaudeSession).  In a conversation, the one process *)
(* works only while the runner waits for it, at the prompt the runner is   *)
(* at; a batch stage closes a process before it goes on to the next.       *)
(***************************************************************************)
CcTypes ==
  /\ interactive \in BOOLEAN /\ established \in BOOLEAN /\ summarising \in BOOLEAN
  /\ fired \in BOOLEAN /\ ccEnded \in BOOLEAN /\ draining \in BOOLEAN

CcStates ==
  /\ credential \in {"key", "login", "foreign", "none"}
  /\ ccPc \in {"idle", "turn", "wait", "recap", "stopping", "between", "summary", "done"}
  /\ active \in C!Sessions \cup {"none"} /\ target \in C!Sessions \cup {"none"}
  /\ ccCancelling \in {"no", "asked", "answered", "aborted"}
  /\ cli \in [C!Sessions -> C!Working \cup {"none", "idle", "broken", "gone", "killed"}]
  /\ result \in [C!Sessions -> {"none", "ok", "fail"}]
  /\ ccRan \subseteq C!Working \X C!Tools

\* Where the runner of either form can be.
Forms ==
  /\ interactive => ccPc \in {"idle", "turn", "wait", "recap", "stopping", "done"}
  /\ ~interactive => ccPc \in {"idle", "turn", "between", "summary", "done"} /\ ~draining

Conversing ==
  interactive =>
    /\ cli["summary"] = "none" /\ active # "summary"
    /\ cli["stage"] \in C!Working => ccPc = cli["stage"] /\ result["stage"] = "none"
    /\ ccPc \in {"idle", "wait"} => result["stage"] = "none"
    /\ ccPc = "recap" => summarising

Batching ==
  ~interactive =>
    /\ cli["stage"] # "recap" /\ cli["summary"] # "turn"
    /\ ccPc = "turn" => active = "stage"
    /\ ccPc = "summary" => active = "summary"
    /\ ccPc \in {"idle", "turn", "between"} => cli["summary"] = "none"
    /\ ccPc = "idle" => cli["stage"] = "none"
    /\ ccPc \in {"between", "summary", "done"} => C!Dead("stage")
    /\ ccPc = "done" => C!Dead("summary")

\* What ran, and what may never.
Harmless == C!RecapRunsNothing /\ C!DeniedNeverRuns

ClaudeInv == CcTypes /\ CcStates /\ Forms /\ Conversing /\ Batching /\ Harmless

USE DEF C!job, C!closure, C!cancel

\* The invariant of the Claude session holds before it begins.
LEMMA ClaudeInit == ASSUME C!Init PROVE ClaudeInv
BY DEF C!Init, ClaudeInv, CcTypes, CcStates, Forms, Conversing, Batching, Harmless, C!RecapRunsNothing,
   C!DeniedNeverRuns, C!Sessions, C!Working, C!Dead

\* Flags stay flags.
LEMMA CcTypesStep == ASSUME CcTypes, C!Next PROVE CcTypes'
<1> USE DEF CcTypes
<1>1. CASE C!Open \/ C!Summarise \/ C!HumanTurn \/ C!Gate \/ C!IdleExit
  BY <1>1 DEF C!Open, C!Summarise, C!HumanTurn, C!Gate, C!IdleExit, C!Recap, C!Dispose
<1>2. CASE C!BatchEnds \/ C!SummaryEnds
  BY <1>2 DEF C!BatchEnds, C!SummaryEnds
<1>3. CASE C!TurnSettles
  BY <1>3 DEF C!TurnSettles, C!Settle, C!Dispose
<1>4. CASE C!TurnThrows \/ C!RecapEnds \/ C!CancelledExit \/ C!Stopped \/ C!Drained
  BY <1>4 DEF C!TurnThrows, C!RecapEnds, C!CancelledExit, C!Stopped, C!Drained, C!Settle, C!Recap, C!Dispose
<1>5. CASE C!Cancel \/ C!InterruptAnswered \/ C!Abort \/ C!Exits
  BY <1>5 DEF C!Cancel, C!InterruptAnswered, C!Abort, C!Exits
<1>6. ASSUME NEW s \in C!Sessions, C!Process(s) PROVE CcTypes'
  BY <1>6 DEF C!Process, C!Message, C!ToolCall, C!PromptDone, C!Breaks
<1> QED BY <1>1, <1>2, <1>3, <1>4, <1>5, <1>6 DEF C!Next, C!Reading

\* What a process stands at, and the results, change one at a time.
LEMMA CcStatesStep == ASSUME CcStates, C!Next PROVE CcStates'
<1> USE DEF CcStates, C!Sessions, C!Working
<1>1. CASE C!Open \/ C!Summarise
  BY <1>1 DEF C!Open, C!Summarise, C!CreateSession
<1>2. CASE C!HumanTurn \/ C!Gate \/ C!IdleExit
  BY <1>2 DEF C!HumanTurn, C!Gate, C!IdleExit, C!Recap, C!Push, C!StartCancel
<1>3. CASE C!BatchEnds \/ C!SummaryEnds \/ C!Drained
  BY <1>3 DEF C!BatchEnds, C!SummaryEnds, C!CloseActive, C!Drained
<1>4. CASE C!TurnSettles \/ C!RecapEnds
  BY <1>4 DEF C!TurnSettles, C!Settle, C!RecapEnds
<1>5. CASE C!TurnThrows \/ C!CancelledExit \/ C!Stopped
  BY <1>5 DEF C!TurnThrows, C!CancelledExit, C!Stopped, C!Settle, C!Recap, C!Push
<1>6. CASE C!Cancel \/ C!Exits
  BY <1>6 DEF C!Cancel, C!StartCancel, C!Exits
<1>7. CASE C!InterruptAnswered \/ C!Abort
  BY <1>7 DEF C!InterruptAnswered, C!Abort
<1>8. ASSUME NEW s \in C!Sessions, C!Process(s) PROVE CcStates'
  <2>1. CASE C!Message(s) \/ C!PromptDone(s) \/ C!Breaks(s)
    BY <2>1, <1>8 DEF C!Message, C!PromptDone, C!Breaks
  <2>2. CASE C!ToolCall(s)
    <3>1. PICK tool \in C!Tools : cli[s] \in C!Working /\ ccRan' = ccRan \cup {<<cli[s], tool>>}
      BY <2>2 DEF C!ToolCall
    <3>2. UNCHANGED <<credential, ccPc, active, target, ccCancelling, cli, result>>
      BY <2>2 DEF C!ToolCall
    <3>3. ccRan' \subseteq C!Working \X C!Tools
      BY <3>1
    <3> QED BY <3>2, <3>3
  <2> QED BY <1>8, <2>1, <2>2 DEF C!Process
<1> QED BY <1>1, <1>2, <1>3, <1>4, <1>5, <1>6, <1>7, <1>8 DEF C!Next, C!Reading

\* A tool runs at the prompt its process stands at, when it is permitted.
LEMMA HarmlessStep == ASSUME ClaudeInv, C!Next PROVE Harmless'
<1> USE DEF ClaudeInv
<1>1. ASSUME NEW s \in C!Sessions, C!ToolCall(s) PROVE Harmless'
  <2>1. PICK tool : /\ tool \in IF interactive THEN C!Tools ELSE C!Tools \ C!AutoApproved
                    /\ C!Permitted(s, tool) /\ ccRan' = ccRan \cup {<<cli[s], tool>>}
    BY <1>1 DEF C!ToolCall
  <2>2. tool # "denied"
    BY <2>1 DEF C!Permitted, C!AutoApproved
  <2>3. cli[s] \in C!Working
    BY <1>1 DEF C!ToolCall
  <2>4. cli[s] = "recap" => tool \in C!AutoApproved
    BY <2>1, <2>3 DEF C!Permitted, Conversing, Batching, C!Sessions, C!Working, CcTypes
  <2>5. C!DeniedNeverRuns'
    BY <2>1, <2>2 DEF Harmless, C!DeniedNeverRuns
  <2>6. C!RecapRunsNothing'
    BY <2>1, <2>4 DEF Harmless, C!RecapRunsNothing
  <2> QED BY <2>5, <2>6 DEF Harmless
<1>2. CASE ~(\E s \in C!Sessions : C!ToolCall(s))
  <2>1. ccRan' = ccRan
    BY <1>2 DEF C!Next, C!Reading, C!Process, C!Open, C!Summarise, C!HumanTurn, C!Gate, C!IdleExit,
       C!BatchEnds, C!SummaryEnds, C!TurnSettles, C!TurnThrows, C!RecapEnds, C!CancelledExit, C!Stopped,
       C!Drained, C!Cancel, C!InterruptAnswered, C!Abort, C!Message, C!PromptDone, C!Breaks, C!Exits
  <2> QED BY <2>1 DEF Harmless, C!RecapRunsNothing, C!DeniedNeverRuns
<1> QED BY <1>1, <1>2

\* A conversation.
LEMMA ConversingStep ==
  ASSUME ClaudeInv, C!Next, interactive
  PROVE  Forms' /\ Conversing' /\ Batching'
<1> USE DEF ClaudeInv, Forms, Conversing, CcStates, C!Sessions, C!Working
<1>0. CcTypes'
  BY CcTypesStep
<1>1. interactive' = interactive
  BY DEF C!Next, C!Reading, C!Process, C!Open, C!Summarise, C!HumanTurn, C!Gate, C!IdleExit,
     C!BatchEnds, C!SummaryEnds, C!TurnSettles, C!TurnThrows, C!RecapEnds, C!CancelledExit, C!Stopped,
     C!Drained, C!Cancel, C!InterruptAnswered, C!Abort, C!Message, C!ToolCall, C!PromptDone, C!Breaks, C!Exits
<1>2. interactive'
  BY <1>1
<1>3. Batching'
  BY <1>2 DEF Batching
<1> SUFFICES Forms' /\ Conversing'
  BY <1>3
<1>4. CASE C!Open
  BY <1>2, <1>4 DEF C!Open, C!CreateSession
<1>5. CASE C!HumanTurn \/ C!Gate
  BY <1>2, <1>5 DEF C!HumanTurn, C!Gate, C!Recap, C!Push
<1>15. CASE C!IdleExit
  BY <1>2, <1>15 DEF C!IdleExit
<1>6. CASE C!TurnSettles
  BY <1>2, <1>6 DEF C!TurnSettles, C!Settle, C!Settled, C!Dispose
<1>7. CASE C!TurnThrows
  BY <1>2, <1>7 DEF C!TurnThrows, C!Settle, C!Recap, C!Push, C!Thrown, C!Dispose
<1>8. CASE C!RecapEnds
  BY <1>2, <1>8 DEF C!RecapEnds, C!Settled, C!Thrown, C!Dispose
<1>9. CASE C!CancelledExit \/ C!Stopped \/ C!Drained
  BY <1>2, <1>9 DEF C!CancelledExit, C!Stopped, C!Drained, C!Settle, C!Dispose, C!CloseActive
<1>10. CASE C!Cancel \/ C!Exits
  BY <1>2, <1>10 DEF C!Cancel, C!Exits, C!StartCancel
<1>13. CASE C!InterruptAnswered
  <2>1. UNCHANGED <<ccPc, active, summarising>> /\ target \in C!Sessions
    BY <1>13 DEF C!InterruptAnswered
  <2>2. \/ UNCHANGED <<cli, result>>
        \/ /\ cli[target] \in C!Working /\ cli' = [cli EXCEPT ![target] = "idle"]
           /\ result' = [result EXCEPT ![target] = "fail"]
    BY <1>13 DEF C!InterruptAnswered
  <2> QED BY <1>2, <2>1, <2>2
<1>14. CASE C!Abort
  <2>1. UNCHANGED <<ccPc, active, summarising, result>>
    BY <1>14 DEF C!Abort
  <2>2. cli'["summary"] = "none" /\ cli'["stage"] \notin C!Working
    BY <1>14 DEF C!Abort
  <2> QED BY <1>2, <2>1, <2>2
<1>11. ASSUME NEW s \in C!Sessions, C!Process(s) PROVE Forms' /\ Conversing'
  <2>1. UNCHANGED <<ccPc, active, summarising>>
    BY <1>11 DEF C!Process, C!Message, C!ToolCall, C!PromptDone, C!Breaks
  <2>2. \/ UNCHANGED <<cli, result>>
        \/ /\ cli[s] \in C!Working \cup {"idle"}
           /\ \E next \in {"idle", "broken", "gone"} : cli' = [cli EXCEPT ![s] = next]
           /\ \/ result' = result
              \/ cli[s] \in C!Working /\ \E end \in {"ok", "fail"} : result' = [result EXCEPT ![s] = end]
    BY <1>11 DEF C!Process, C!Message, C!ToolCall, C!PromptDone, C!Breaks
  <2>3. s = "stage" \/ UNCHANGED <<cli, result>>
    BY <2>2
  <2>4. /\ cli'["summary"] = "none"
        /\ cli'["stage"] \in C!Working => cli' = cli /\ result' = result
        /\ ccPc \in {"idle", "wait"} => result' = result
    BY <2>2, <2>3
  <2> QED BY <1>2, <2>1, <2>4
<1>12. ~(C!Summarise \/ C!BatchEnds \/ C!SummaryEnds)
  BY DEF C!Summarise, C!BatchEnds, C!SummaryEnds
<1> QED BY <1>4, <1>5, <1>6, <1>7, <1>8, <1>9, <1>10, <1>11, <1>12, <1>13, <1>14, <1>15 DEF C!Next, C!Reading

\* A batch stage.
LEMMA BatchingStep ==
  ASSUME ClaudeInv, C!Next, ~interactive
  PROVE  Forms' /\ Conversing' /\ Batching'
<1> USE DEF ClaudeInv, Forms, Batching, CcStates, C!Sessions, C!Working, C!Dead
<1>1. interactive' = interactive
  BY DEF C!Next, C!Reading, C!Process, C!Open, C!Summarise, C!HumanTurn, C!Gate, C!IdleExit,
     C!BatchEnds, C!SummaryEnds, C!TurnSettles, C!TurnThrows, C!RecapEnds, C!CancelledExit, C!Stopped,
     C!Drained, C!Cancel, C!InterruptAnswered, C!Abort, C!Message, C!ToolCall, C!PromptDone, C!Breaks, C!Exits
<1>2. ~interactive'
  BY <1>1
<1>3. Conversing'
  BY <1>2 DEF Conversing
<1> SUFFICES Forms' /\ Batching'
  BY <1>3
<1>4. CASE C!Open
  BY <1>2, <1>4 DEF C!Open, C!CreateSession
<1>5. CASE C!Summarise
  BY <1>2, <1>5 DEF C!Summarise, C!CreateSession
<1>6. CASE C!BatchEnds
  BY <1>2, <1>6 DEF C!BatchEnds, C!CloseActive
<1>7. CASE C!SummaryEnds
  BY <1>2, <1>7 DEF C!SummaryEnds, C!CloseActive
<1>8. CASE C!Cancel \/ C!InterruptAnswered \/ C!Abort \/ C!Exits
  BY <1>2, <1>8 DEF C!Cancel, C!InterruptAnswered, C!Abort, C!Exits, C!StartCancel
<1>9. ASSUME NEW s \in C!Sessions, C!Process(s) PROVE Forms' /\ Batching'
  BY <1>2, <1>9 DEF C!Process, C!Message, C!ToolCall, C!PromptDone, C!Breaks
<1>10. ~(C!HumanTurn \/ C!Gate \/ C!IdleExit \/ C!TurnSettles \/ C!TurnThrows \/ C!RecapEnds
         \/ C!CancelledExit \/ C!Stopped \/ C!Drained)
  BY DEF C!HumanTurn, C!Gate, C!IdleExit, C!TurnSettles, C!TurnThrows, C!RecapEnds, C!CancelledExit,
     C!Stopped, C!Drained
<1> QED BY <1>4, <1>5, <1>6, <1>7, <1>8, <1>9, <1>10 DEF C!Next, C!Reading

\* Every step of either form keeps it.
LEMMA ClaudeStep == ClaudeInv /\ [C!Next]_cVars => ClaudeInv'
<1>1. ASSUME ClaudeInv, C!Next PROVE ClaudeInv'
  <2>1. CcTypes' /\ CcStates' /\ Harmless'
    BY <1>1, CcTypesStep, CcStatesStep, HarmlessStep DEF ClaudeInv
  <2> QED BY <1>1, <2>1, ConversingStep, BatchingStep DEF ClaudeInv
<1>2. ASSUME ClaudeInv, UNCHANGED cVars PROVE ClaudeInv'
  BY <1>2 DEF cVars, ClaudeInv, CcTypes, CcStates, Forms, Conversing, Batching, Harmless,
     C!RecapRunsNothing, C!DeniedNeverRuns, C!Dead
<1> QED BY <1>1, <1>2

\* The invariant of the Claude session and what follows from it.
LEMMA ClaudeInvSound ==
  ClaudeInv => C!TypeOK /\ C!RecapRunsNothing /\ C!DeniedNeverRuns /\ C!OneAgentAtATime
<1> SUFFICES ASSUME ClaudeInv PROVE C!TypeOK /\ C!RecapRunsNothing /\ C!DeniedNeverRuns /\ C!OneAgentAtATime
  OBVIOUS
<1>1. C!TypeOK
  BY DEF ClaudeInv, CcTypes, CcStates, Conversing, C!TypeOK
<1>2. C!OneAgentAtATime
  BY DEF ClaudeInv, CcTypes, CcStates, Forms, Batching, C!OneAgentAtATime
<1> QED BY <1>1, <1>2 DEF ClaudeInv, Harmless

-----------------------------------------------------------------------------
(***************************************************************************)
(* The three together.                                                     *)
(***************************************************************************)
AgentsInv == LoopInv /\ PiInv /\ ClaudeInv

\* All three begin in their invariants.
LEMMA AgentsInit == MCInit => AgentsInv
BY LoopInit, PiInit, ClaudeInit DEF MCInit, AgentsInv

\* A step is a step of one part, and the others stay.
LEMMA StepOfOne ==
  [MCNext]_mcVars => [Next]_vars /\ [P!Next]_pVars /\ [C!Next]_cVars
BY DEF MCNext, TurnMoves, PiMoves, ClaudeMoves, mcVars

\* So every step keeps all three invariants.
LEMMA AgentsStep == AgentsInv /\ [MCNext]_mcVars => AgentsInv'
BY StepOfOne, LoopStep, PiStep, ClaudeStep DEF AgentsInv

\* The invariants hold throughout.
LEMMA AgentsInvHolds == MCSpec => []AgentsInv
BY AgentsInit, AgentsStep, PTL DEF MCSpec

\* Every variable of the three modules keeps its type.
THEOREM AgentsTypesHold == MCSpec => []AgentsTypeOK
<1>1. AgentsInv => AgentsTypeOK
  BY LoopInvSound, PiInvSound, ClaudeInvSound DEF AgentsInv, AgentsTypeOK
<1> QED BY <1>1, AgentsInvHolds, PTL

\* The turns a human sends are each in one place, in order: none is lost or repeated
\* between the hub's frame and the agent (interactive-turns.ts, session-mailbox.ts).
THEOREM NoTurnIsLost == MCSpec => []TurnsConserved
<1>1. AgentsInv => TurnsConserved
  BY LoopInvSound DEF AgentsInv
<1> QED BY <1>1, AgentsInvHolds, PTL

\* A refusal never becomes an ok, a cancelled wait of a Pi stage fails, and what resolves a
\* Pi prompt is the end and the cost of that very prompt.
THEOREM TurnsSettleRightly == MCSpec => []SettledRightly
<1>1. AgentsInv => SettledRightly
  BY LoopInvSound, PiInvSound DEF AgentsInv, SettledRightly
<1> QED BY <1>1, AgentsInvHolds, PTL

\* For every set of models, providers and families, of calls and of denied ones: the agents
\* run on a model they can authenticate to, nothing denied runs, nothing is left behind, and
\* two processes never work in the same worktree.
THEOREM AgentsAlwaysBehave == MCSpec => []AgentsBehave
<1>1. AgentsInv => AgentsBehave
  BY PiInvSound, ClaudeInvSound DEF AgentsInv, AgentsBehave
<1> QED BY <1>1, AgentsInvHolds, PTL

\* The loop leaves for the gate only when it has heard every turn sent before the end.
THEOREM TheGateHearsAll == MCSpec => GateHearsEverything
<1>1. AgentsInv /\ [MCNext]_mcVars =>
        [pc = "wait" /\ exited' = "gate" => 1..cutAt \subseteq ToSet(said) \cup ToSet(replies)]_vars
  BY StepOfOne, GateStep DEF AgentsInv
<1> QED BY <1>1, AgentsInvHolds, PTL DEF MCSpec, GateHearsEverything
=============================================================================
