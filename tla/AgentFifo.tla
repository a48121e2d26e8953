----------------------------- MODULE AgentFifo -----------------------------
(***************************************************************************)
(* What the agent's pipeline promises: a bounded queue of log lines between  *)
(* the tailers and the backend.  Lines leave it from the front only, sent or *)
(* given up on; a line behind the front is abandoned only while shutting     *)
(* down.                                                                    *)
(***************************************************************************)
EXTENDS Integers, Sequences, Functions

CONSTANTS
  Capacity,   \* lines the queue may hold
  Late        \* lines that may enter a full queue once it is closing

VARIABLES queue, entered, settled, closing

fifoVars == <<queue, entered, settled, closing>>

FifoInit == queue = <<>> /\ entered = 0 /\ settled = {} /\ closing = FALSE

Enter ==
  /\ Len(queue) < IF closing THEN Capacity + Late ELSE Capacity
  /\ entered' = entered + 1
  /\ queue' = Append(queue, entered')
  /\ UNCHANGED <<settled, closing>>

\* The oldest lines, one batch of them, are done with.
Settle ==
  /\ \E n \in 1..Len(queue) :
       /\ settled' = settled \cup Range(SubSeq(queue, 1, n))
       /\ queue' = SubSeq(queue, n + 1, Len(queue))
  /\ UNCHANGED <<entered, closing>>

Close == closing' = TRUE /\ UNCHANGED <<queue, entered, settled>>

\* What is kept is kept in order; lines are numbered as they enter.
Abandon ==
  /\ closing
  /\ queue' \in Seq(Range(queue))
  /\ \A i, j \in DOMAIN queue' : i < j => queue'[i] < queue'[j]
  /\ UNCHANGED <<entered, settled, closing>>

FifoNext == Enter \/ Settle \/ Close \/ Abandon

FifoSpec == FifoInit /\ [][FifoNext]_fifoVars
=============================================================================
