--------------------------- MODULE MeteredLedger ---------------------------
(***************************************************************************)
(* What the data accounting promises the portal and the customers: bytes   *)
(* are moved first and counted later, at most once and for the customer    *)
(* that moved them; what is counted stays counted until the operator       *)
(* resets the customer.  Once the ledger is excused it may count too much, *)
(* but still takes nothing back.                                           *)
(***************************************************************************)
EXTENDS Naturals

CONSTANTS Customers, Vips

VARIABLES
  used,     \* bytes counted, by customer and VIP
  carried,  \* bytes moved since the last reset that forgot them
  excused   \* has the ledger been excused from counting at most once?

ledger == <<used, carried, excused>>

Nothing == [v \in Vips |-> 0]

Init ==
  /\ used = [c \in Customers |-> Nothing]
  /\ carried = [c \in Customers |-> Nothing]
  /\ excused = FALSE

\* A device of c moves a byte through v.
Move(c, v) ==
  /\ carried' = [carried EXCEPT ![c][v] = @ + 1]
  /\ UNCHANGED <<used, excused>>

\* Bytes of any number of customers are counted, all at once.
Count ==
  /\ used' \in [Customers -> [Vips -> Nat]]
  /\ \A c \in Customers, v \in Vips :
       /\ used'[c][v] >= used[c][v]
       /\ excused \/ used'[c][v] <= carried[c][v]
  /\ UNCHANGED <<carried, excused>>

\* The operator resets c: what was counted is forgotten, what was not is still
\* to be counted.
Reset(c) ==
  /\ used' = [used EXCEPT ![c] = Nothing]
  /\ carried' = [carried EXCEPT ![c] = [v \in Vips |->
                   IF used[c][v] <= carried[c][v]
                   THEN carried[c][v] - used[c][v] ELSE 0]]
  /\ UNCHANGED excused

Excuse == excused' = TRUE /\ UNCHANGED <<used, carried>>

Next ==
  \/ \E c \in Customers, v \in Vips : Move(c, v)
  \/ Count
  \/ \E c \in Customers : Reset(c)
  \/ Excuse

Spec == Init /\ [][Next]_ledger
=============================================================================
