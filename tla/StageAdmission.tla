--------------------------- MODULE StageAdmission ---------------------------
(***************************************************************************)
(* What a node promises about admitting stages, with no counter and no     *)
(* promise machinery: at most MaxSlots callers hold a slot, nobody waits   *)
(* while a slot is free, and the slot of a caller that leaves goes to the  *)
(* one that has waited longest.  EdgeJobs implements it with the `inUse`   *)
(* counter and the `waiters` array of packages/edge/src/concurrency.ts.    *)
(***************************************************************************)
EXTENDS Naturals, Sequences, FiniteSets, SequencesExt

CONSTANTS Callers, MaxSlots

VARIABLES holding, \* the callers that hold a slot
          queue    \* the callers that wait for one, oldest first

TypeOK == holding \in SUBSET Callers /\ queue \in Seq(Callers)

Full == Cardinality(holding) >= MaxSlots

Outside(c) == c \notin holding /\ c \notin ToSet(queue)

Init == holding = {} /\ queue = <<>>

\* A free slot is taken at once, and only when nobody is ahead in the queue.
Enter(c) == /\ Outside(c)
            /\ ~Full
            /\ queue = <<>>
            /\ holding' = holding \cup {c}
            /\ UNCHANGED queue

\* Past the bound the caller waits behind those already waiting.
Wait(c) == /\ Outside(c)
           /\ Full
           /\ queue' = Append(queue, c)
           /\ UNCHANGED holding

\* The leaver's slot passes to the oldest waiter, if there is one.
Leave(c) == /\ c \in holding
            /\ \/ /\ queue = <<>>
                  /\ holding' = holding \ {c}
                  /\ UNCHANGED queue
               \/ /\ queue # <<>>
                  /\ holding' = (holding \ {c}) \cup {Head(queue)}
                  /\ queue' = Tail(queue)

\* The process dies: slots and waiters die with it.
Reset == holding' = {} /\ queue' = <<>>

Next == \/ \E c \in Callers : Enter(c) \/ Wait(c) \/ Leave(c)
        \/ Reset

Spec == Init /\ [][Next]_<<holding, queue>>
=============================================================================
