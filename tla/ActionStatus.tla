--------------------------- MODULE ActionStatus ---------------------------
(***************************************************************************)
(* What the queue promises a producer that keeps the id its enqueue        *)
(* answered (PimdirActionStatus and action_status in                       *)
(* src/src/client/producer.rs): the action is pending, perhaps parked,     *)
(* then applied once or withdrawn, and no answer ever goes back.           *)
(***************************************************************************)
EXTENDS Naturals

CONSTANT Ids

VARIABLES
    status, \* id -> what action_status answers, "unasked" before the enqueue
    count   \* id -> how often the store took the action

Init ==
    /\ status = [i \in Ids |-> "unasked"]
    /\ count = [i \in Ids |-> 0]

(* Ids are answered in append order. *)
First(i) == \A j \in Ids : status[j] = "unasked" => i <= j

Kept(i) == status[i] \in {"pending", "parked"}

Enqueue(i) ==
    /\ status[i] = "unasked" /\ First(i)
    /\ status' = [status EXCEPT ![i] = "pending"]
    /\ UNCHANGED count

Park(i) ==
    /\ status[i] = "pending"
    /\ status' = [status EXCEPT ![i] = "parked"]
    /\ UNCHANGED count

Apply(i) ==
    /\ Kept(i) /\ count[i] = 0
    /\ status' = [status EXCEPT ![i] = "applied"]
    /\ count' = [count EXCEPT ![i] = 1]

(* Carried out elsewhere and acknowledged. *)
Acknowledge(i) ==
    /\ Kept(i)
    /\ status' = [status EXCEPT ![i] = "applied"]
    /\ UNCHANGED count

(* Acknowledged by the change that takes its place. *)
Replace(i, j) ==
    /\ Kept(i) /\ status[j] = "unasked" /\ First(j)
    /\ status' = [status EXCEPT ![i] = "applied", ![j] = "pending"]
    /\ UNCHANGED count

Withdraw(i) ==
    /\ Kept(i)
    /\ status' = [status EXCEPT ![i] = "unknown"]
    /\ UNCHANGED count

(* Receipts are pruned some at a time. *)
Forget(old) ==
    /\ \A i \in old : status[i] = "applied"
    /\ status' = [i \in Ids |-> IF i \in old THEN "unknown" ELSE status[i]]
    /\ UNCHANGED count

Next ==
    \/ \E i \in Ids : \/ Enqueue(i) \/ Park(i) \/ Apply(i) \/ Acknowledge(i)
                      \/ Withdraw(i)
                      \/ \E j \in Ids : Replace(i, j)
    \/ \E old \in SUBSET Ids : Forget(old)

Spec == Init /\ [][Next]_<<status, count>>
=============================================================================
