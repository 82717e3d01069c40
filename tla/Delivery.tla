------------------------------ MODULE Delivery ------------------------------
(***************************************************************************)
(* What the transactional outbox promises, without leases, retries,       *)
(* workers or clocks: a delivery is owed once its row is committed, its    *)
(* effect takes place before it is ever recorded as delivered, and a       *)
(* recorded delivery is final.  Effects may be repeated (at-least-once).   *)
(***************************************************************************)
CONSTANTS Rows,     \* every (event, sink) pair that may be owed
          Poison    \* rows whose effect can never succeed

VARIABLES owed, done, applied

dvars == <<owed, done, applied>>

DeliveryTypeOK ==
  /\ owed \subseteq Rows
  /\ done \subseteq Rows
  /\ applied \subseteq Rows

DeliveryInit == owed = {} /\ done = {} /\ applied = {}

\* A publication commits all of its rows at once; a row already known is left alone.
Owe(R) ==
  /\ owed' = owed \cup (R \ done)
  /\ UNCHANGED <<done, applied>>

\* The effect of a row, the first time or again.
TakeEffect(r) ==
  /\ r \in owed \cup done
  /\ applied' = applied \cup {r}
  /\ UNCHANGED <<owed, done>>

\* The receipt: only for an effect that has taken place.
Settle(r) ==
  /\ r \in applied
  /\ r \in owed
  /\ owed' = owed \ {r}
  /\ done' = done \cup {r}
  /\ UNCHANGED applied

DeliveryNext ==
  \/ \E R \in SUBSET Rows : Owe(R)
  \/ \E r \in Rows : TakeEffect(r) \/ Settle(r)

DeliverySpec == DeliveryInit /\ [][DeliveryNext]_dvars

\* Every row that can be delivered is, in the end: what the drain of the outbox is for.
EventuallySettled == \A r \in Rows \ Poison : (r \in owed) ~> (r \in done)
=============================================================================
