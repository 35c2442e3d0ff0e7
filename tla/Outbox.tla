------------------------------- MODULE Outbox -------------------------------
(***************************************************************************)
(* What a table of the local database promises as an outbox: rows get      *)
(* growing ids, the server receives some of them and refuses some that it  *)
(* is offered alone.  A row is settled, never to be sent again, once the   *)
(* server holds it or has refused it, and rows are settled in id order.    *)
(* It is the abstract side of the refinement in Push.                      *)
(***************************************************************************)
EXTENDS Naturals

CONSTANT Ids  \* ids the table can hand out

VARIABLES rows,      \* ids of the rows stored so far
          received,  \* ids of the rows the server holds
          refused,   \* ids of the rows that failed when sent alone
          settled    \* ids of the rows the outbox is done with

vars == <<rows, received, refused, settled>>

Init ==
  /\ rows = {}
  /\ received = {}
  /\ refused = {}
  /\ settled = {}

Store(new) ==
  /\ \A n \in new, r \in rows : r < n
  /\ rows' = rows \cup new
  /\ UNCHANGED <<received, refused, settled>>

Receive(some) ==
  /\ received' = received \cup some
  /\ UNCHANGED <<rows, refused, settled>>

Refuse(r) ==
  /\ refused' = refused \cup {r}
  /\ UNCHANGED <<rows, received, settled>>

(* The rows up to one id are settled together, never one behind another.   *)
Settle(last) ==
  LET upTo == {r \in rows : r <= last}
  IN  /\ upTo \subseteq received \cup refused
      /\ settled' = settled \cup upTo
      /\ UNCHANGED <<rows, received, refused>>

Next ==
  \/ \E new \in SUBSET Ids : Store(new)
  \/ \E some \in SUBSET rows : Receive(some)
  \/ \E r \in rows : Refuse(r)
  \/ \E last \in rows : Settle(last)

Spec == Init /\ [][Next]_vars
=============================================================================
