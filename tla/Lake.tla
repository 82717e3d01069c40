--------------------------------- MODULE Lake ---------------------------------
(***************************************************************************)
(* The evidence lake: lake_writer.py over object_store.py.  A batch is     *)
(* three objects, put one after the other: its event, its rows, and a      *)
(* manifest that names both.  The first two are found under the event's    *)
(* identifier, which says who the batch is and not what is in it; the      *)
(* manifest under its own content.  A key is written once: the same bytes  *)
(* again are taken as written, other bytes are refused.                    *)
(*                                                                         *)
(* A batch is [id, told, rows]: told is what its event says beside its     *)
(* identity.  Checksums are the contents they are made of.                 *)
(***************************************************************************)
EXTENDS Integers, Sequences

Object(key, holds) == [key |-> key, holds |-> holds]
EventObject(b) == Object(<<"event", b.id>>, [event |-> b.told])
RowsObject(b) == Object(<<"parquet", b.id>>, [rows |-> b.rows])
ManifestObject(b) == Object(<<"manifest", b.id, b.told, b.rows>>, [batch |-> b])

\* write_batch, in its order.
Objects(b) == <<EventObject(b), RowsObject(b), ManifestObject(b)>>

\* Mutant: put_bytes called with overwrite.
TakesAnything(lake, o) == TRUE

\* put_bytes: whether the store takes an object, and what it holds then.
Takes(lake, o) == \A x \in lake : x.key = o.key => x = o
Put(lake, o) == {x \in lake : x.key # o.key} \cup {o}

\* A published batch can be read: its manifest leads to the objects it names.
Readable(lake, b) == \A i \in 1..3 : Objects(b)[i] \in lake
=============================================================================
