------------------------------ MODULE AtlasPool ------------------------------
(***************************************************************************)
(* The pooled SVO node atlas (application/atlas.rs) and the row storage of *)
(* the back ends it is uploaded to (drivers/webgl/atlas.rs,                *)
(* adapters/cpu_splatter/update_atlas_rows.rs), as operators on values:    *)
(* the engine calls several of them in one step.                           *)
(*                                                                         *)
(* A pool is the rows per slot and, per slot, the set of its occupant (at  *)
(* most one chunk key).  A texture is its sequence of rows.  A row holds   *)
(* one row of a payload, rebased to some first row, or air.                *)
(***************************************************************************)
EXTENDS Integers, Sequences, FiniteSets

CONSTANT RowsOf   \* payload_rows(): atlas rows per level of detail

NewPool == [rows |-> 0, slots |-> <<>>]

Wider(a, b) == IF a >= b THEN a ELSE b

(* A layout too small for the footprint or for a payload is replaced, and  *)
(* every assignment dropped.                                               *)
NeedsLayout(pool, slots, rows) == rows > pool.rows \/ slots > Len(pool.slots)

EnsureLayout(pool, slots, rows) ==
  IF NeedsLayout(pool, slots, rows)
  THEN [rows |-> Wider(pool.rows, rows),
        slots |-> [i \in 1..Wider(Len(pool.slots), slots) |-> {}]]
  ELSE pool

SlotOf(pool, key) == {i \in DOMAIN pool.slots : key \in pool.slots[i]}

FreeSlots(pool) == {i \in DOMAIN pool.slots : pool.slots[i] = {}}

FreeBelow(pool, slot) == {i \in FreeSlots(pool) : i < slot}

Unplaced(pool, keys) == {k \in keys : SlotOf(pool, k) = {}}

(* Keys that have a slot keep it; the others get the free slots, the       *)
(* oldest of them the first one.  In a full pool the youngest get none.    *)
Assign(pool, keys, older) ==
  LET waiting == Unplaced(pool, keys)
      turn(k) == Cardinality({m \in waiting : <<m, k>> \in older})
  IN  [pool EXCEPT !.slots =
         [i \in DOMAIN pool.slots |->
            IF pool.slots[i] # {} THEN pool.slots[i]
            ELSE {k \in waiting : turn(k) = Cardinality(FreeBelow(pool, i))}]]

Release(pool, keys) ==
  [pool EXCEPT !.slots = [i \in DOMAIN pool.slots |-> pool.slots[i] \ keys]]

FirstRow(pool, slot) == (slot - 1) * pool.rows

Air == [of |-> {}, row |-> 0, base |-> 0]

AirRows(pool) == [i \in 1..pool.rows |-> Air]

(* The rows of one slot: the payload with its child pointers moved to the  *)
(* slot, then air.                                                         *)
RebasedBlock(pool, slot, payload) ==
  [i \in 1..pool.rows |->
     IF i <= RowsOf[payload.lod]
     THEN [of |-> {payload}, row |-> i, base |-> FirstRow(pool, slot)]
     ELSE Air]

SlotTexels(pool, slot, residents) ==
  LET here == {p \in residents : p.key \in pool.slots[slot]}
  IN  IF here = {} THEN AirRows(pool)
      ELSE RebasedBlock(pool, slot, CHOOSE p \in here : TRUE)

SlotAt(pool, n) ==
  CHOOSE i \in DOMAIN pool.slots : n - FirstRow(pool, i) \in 1..pool.rows

(* The whole pool, slot after slot; residents is what the chunk store      *)
(* would be asked for.                                                     *)
FullTexels(pool, residents) ==
  [n \in 1..(Len(pool.slots) * pool.rows) |->
     SlotTexels(pool, SlotAt(pool, n), residents)[n - FirstRow(pool, SlotAt(pool, n))]]

-----------------------------------------------------------------------------
(* The back end's storage.                                                 *)

(* A patch is taken only inside an atlas that is there, and if no pointer  *)
(* of it leaves the patched rows.                                          *)
Accepts(texture, first, block) ==
  /\ block # <<>>
  /\ first + Len(block) <= Len(texture)
  /\ \A i \in DOMAIN block : block[i] = Air \/ block[i].base = first

UpdateRows(texture, first, block) ==
  [i \in DOMAIN texture |->
     IF i - first \in DOMAIN block THEN block[i - first] ELSE texture[i]]

(* All rows of payload p are there from first on, with pointers that stay  *)
(* among them.                                                             *)
Holds(texture, first, p) ==
  \A i \in 1..RowsOf[p.lod] :
    /\ first + i \in DOMAIN texture
    /\ texture[first + i] = [of |-> {p}, row |-> i, base |-> first]

(* What a draw of payload p with its root in the slot at first shows.      *)
Decoded(texture, first, p) == IF Holds(texture, first, p) THEN {p} ELSE {}
=============================================================================
