----------------------------- MODULE AtLeastOnce -----------------------------
(***************************************************************************)
(* What the way of a batch from GrpcExporter.Send into the LOGS stream       *)
(* promises: a batch ends as sent or as dropped, once; it is sent only if it *)
(* is in the stream; each of its calls puts it there at most once, and that  *)
(* may happen late, even after the batch was given up.                       *)
(***************************************************************************)
EXTENDS Naturals

CONSTANTS
  Batch,
  Good,        \* the batches that the stream takes
  MaxRetries   \* Send makes up to MaxRetries + 1 calls

VARIABLES
  status,  \* what Send has done with a batch: "pending", "sent" or "dropped"
  stream   \* the messages: a batch and the call that published it

vars == <<status, stream>>

Init == status = [b \in Batch |-> "pending"] /\ stream = {}

Store(b, k) ==
  /\ b \in Good /\ <<b, k>> \notin stream
  /\ stream' = stream \cup {<<b, k>>}
  /\ UNCHANGED status

Succeed(b) ==
  /\ status[b] = "pending"
  /\ \E k \in 0..MaxRetries : <<b, k>> \in stream
  /\ status' = [status EXCEPT ![b] = "sent"]
  /\ UNCHANGED stream

Drop(b) ==
  /\ status[b] = "pending"
  /\ status' = [status EXCEPT ![b] = "dropped"]
  /\ UNCHANGED stream

Next == \E b \in Batch : \/ Succeed(b) \/ Drop(b)
                         \/ \E k \in 0..MaxRetries : Store(b, k)

Spec == Init /\ [][Next]_vars
=============================================================================
