------------------------------ MODULE RefTable ------------------------------
(***************************************************************************)
(* The table behind the references of the C API (sdk/RefTable.hh): slots   *)
(* for objects, and a queue of free slots, the oldest first.  The          *)
(* operators work on a record with the members of the class.  The lock     *)
(* makes GetRef and RemoveRef atomic.                                      *)
(***************************************************************************)
EXTENDS Naturals, Sequences

CONSTANTS InitialSize,  \* slots of a new table: 1024 in the code
          NoObj         \* what an empty slot holds

ASSUME RefTableAssumption == InitialSize \in Nat \ {0} /\ NoObj \notin Nat

\* Mutant: a table that grows offers every slot, also those in use.
GrowFromZero(t) ==
  LET size == IF t.size = 0 THEN InitialSize ELSE 2 * t.size
  IN  [size |-> size,
       table |-> [i \in 0 .. size - 1 |-> IF i < t.size THEN t.table[i] ELSE NoObj],
       freeList |-> t.freeList \o [k \in 1 .. size |-> k - 1]]

\* grow.
Grow(t) ==
  LET size == IF t.size = 0 THEN InitialSize ELSE 2 * t.size
  IN  [size |-> size,
       table |-> [i \in 0 .. size - 1 |-> IF i < t.size THEN t.table[i] ELSE NoObj],
       freeList |-> t.freeList \o [k \in 1 .. size - t.size |-> t.size + k - 1]]

NewRefTable == Grow([size |-> 0, table |-> [i \in {} |-> NoObj], freeList |-> <<>>])

\* GetRef: the table that has a free slot, the slot and the table afterwards.
WithRoom(t) == IF t.freeList = <<>> THEN Grow(t) ELSE t
NextRef(t) == Head(WithRoom(t).freeList)
GetRef(t, obj) ==
  LET room == WithRoom(t)
  IN  [room EXCEPT !.table = [room.table EXCEPT ![NextRef(t)] = obj],
                   !.freeList = Tail(room.freeList)]

GetObj(t, ref) == IF ref < t.size THEN t.table[ref] ELSE NoObj

RemoveRef(t, ref) ==
  IF ref >= t.size THEN t
  ELSE [t EXCEPT !.table = [t.table EXCEPT ![ref] = NoObj],
                 !.freeList = Append(t.freeList, ref)]
=============================================================================
