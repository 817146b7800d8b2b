---------------------------- MODULE VersionOrder ----------------------------
(***************************************************************************)
(* Version vectors and the order of lib/protocol/vector.go, as a relation  *)
(* between functions from device (short) IDs 1..NumIds to counter values.  *)
(* A counter that is missing in the code's slice has the value 0 here.     *)
(* VersionVector has the code's own loops and compares them with this.     *)
(***************************************************************************)
EXTENDS Naturals

CONSTANT NumIds   \* devices that ever changed a file

ASSUME NumIdsAssumption == NumIds \in Nat \ {0}

Ids == 1..NumIds

Vectors == [Ids -> Nat]

\* a has seen at least every change that b has.
GreaterEqual(a, b) == \A i \in Ids : a[i] >= b[i]

\* The first counter in which a and b differ is greater in a.
FirstGreater(a, b) ==
  \E i \in Ids : a[i] > b[i] /\ \A j \in Ids : j < i => a[j] = b[j]

\* The Ordering of a in relation to b.
Ordering(a, b) ==
  IF a = b THEN "Equal"
  ELSE IF GreaterEqual(a, b) THEN "Greater"
  ELSE IF GreaterEqual(b, a) THEN "Lesser"
  ELSE IF FirstGreater(a, b) THEN "ConcurrentGreater" ELSE "ConcurrentLesser"

\* The least vector that is greater than or equal to both.
Join(a, b) == [i \in Ids |-> IF a[i] >= b[i] THEN a[i] ELSE b[i]]
=============================================================================
