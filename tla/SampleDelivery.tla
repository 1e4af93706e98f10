--------------------------- MODULE SampleDelivery ---------------------------
(***************************************************************************)
(* What the Cloudability upload path promises about each sample, without   *)
(* directories, tars, queues or restarts: a sample that was handed over is *)
(* held until it is delivered (at least once) or discarded, by a stated    *)
(* rule or by a failed read of the recovery, and nothing else ever happens *)
(* to it.                                                                  *)
(***************************************************************************)
CONSTANT Sample

VARIABLE status  \* "free" (not handed over), "held", "delivered", "discarded"

StatusOK == status \in [Sample -> {"free", "held", "delivered", "discarded"}]

Init == status = [s \in Sample |-> "free"]

Move(S, to) == status' = [s \in Sample |-> IF s \in S THEN to ELSE status[s]]

In(S, states) == \A s \in S : status[s] \in states

\* The emitter hands over a new sample.
Accept(s) == In({s}, {"free"}) /\ Move({s}, "held")

\* A batch of samples reaches the destination; it may do so again.
Deliver(S) == In(S, {"held", "delivered"}) /\ Move(S, "delivered")

\* The code gives up on the only copies of some held samples.
Discard(S) == In(S, {"held"}) /\ Move(S, "discarded")

\* The story of one sample is over and its name may stand for another.
Recycle(s) == In({s}, {"delivered", "discarded"}) /\ Move({s}, "free")

Next ==
  \/ \E S \in SUBSET Sample : Deliver(S) \/ Discard(S)
  \/ \E s \in Sample : Accept(s) \/ Recycle(s)

Spec == Init /\ [][Next]_status
=============================================================================
