------------------------------ MODULE Outbox -------------------------------
(***************************************************************************)
(* What sending promises, said without attempts, workers or crashes: a     *)
(* message put off stays listed until a server has taken it or a person    *)
(* calls it off, and a server takes it only as often as it was permitted   *)
(* to.  The first permit comes with the message; every other one is a      *)
(* decision.  OutgoingSends implements this.                               *)
(***************************************************************************)
EXTENDS Naturals

CONSTANT Ids

VARIABLES
  listed,    \* messages in the list of what is waiting
  promised,  \* messages a person put off and has not called off
  taken,     \* how often a server took each message
  permits    \* how often it may

vars == <<listed, promised, taken, permits>>

Init ==
  /\ listed = {} /\ promised = {}
  /\ taken = [i \in Ids |-> 0]
  /\ permits = [i \in Ids |-> 1]

PutOff(i) ==
  /\ listed' = listed \cup {i}
  /\ promised' = promised \cup {i}
  /\ UNCHANGED <<taken, permits>>

CallOff(i) ==
  /\ listed' = listed \ {i}
  /\ promised' = promised \ {i}
  /\ UNCHANGED <<taken, permits>>

\* A row leaves the list on its own only when its message has been taken.
Drop(i) ==
  /\ taken[i] > 0
  /\ listed' = listed \ {i}
  /\ UNCHANGED <<promised, taken, permits>>

Take(i) ==
  /\ taken[i] < permits[i]
  /\ taken' = [taken EXCEPT ![i] = @ + 1]
  /\ UNCHANGED <<listed, promised, permits>>

\* Another delivery of each message of S is allowed from now on.
Permit(S) ==
  /\ permits' = [i \in Ids |-> IF i \in S THEN permits[i] + 1 ELSE permits[i]]
  /\ UNCHANGED <<listed, promised, taken>>

Next ==
  \/ \E i \in Ids : PutOff(i) \/ CallOff(i) \/ Drop(i) \/ Take(i)
  \/ \E S \in SUBSET Ids : Permit(S)

Spec == Init /\ [][Next]_vars

=============================================================================
