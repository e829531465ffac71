------------------------------ MODULE CApiProofs ------------------------------
(***************************************************************************)
(* Proofs about module CApi, for any number of objects and any inputs: the *)
(* references of an application resolve to what they were made for, a      *)
(* configuration survives that its settings are read and set again, and    *)
(* calls that raise an exception are contained in the object they work on. *)
(*                                                                         *)
(* The configuration is taken apart and put together by folds over its     *)
(* texts and commands.  What a fold does is proved here from its           *)
(* definition: its recursive function exists, and only one does.           *)
(***************************************************************************)
EXTENDS CApi, NaturalsInduction, WellFoundedInduction, SequenceTheorems, FiniteSetTheorems,
        TLAPS

Slots == 0 .. refs.size - 1
Ids == 1 .. Len(objects)

\* The shape of an object as far as the proofs need it.
Shape(o) == o.kind = "Sdk" => {"kind", "ref"} \subseteq DOMAIN o
ObjectsInv ==
  /\ \E S : objects \in Seq(S)
  /\ \A i \in Ids : Shape(objects[i])

\* The free slots of a table of objects in O are distinct and empty.
GoodTable(t, O) ==
  /\ {"size", "table", "freeList"} \subseteq DOMAIN t
  /\ t.size \in Nat \ {0}
  /\ t.table \in [0 .. t.size - 1 -> O \cup {NoObj}]
  /\ t.freeList \in Seq(0 .. t.size - 1)
  /\ \A j, k \in 1 .. Len(t.freeList) : t.freeList[j] = t.freeList[k] => j = k
  /\ \A k \in 1 .. Len(t.freeList) : t.table[t.freeList[k]] = NoObj
TableInv == GoodTable(refs, Ids)

\* The application's references fill the slots that are not free.
HeldInv ==
  /\ held \subseteq [ref : Slots, obj : Ids]
  /\ \A h \in held : refs.table[h.ref] = h.obj
  /\ \A h \in held : objects[h.obj].kind = "Sdk" => objects[h.obj].ref = h.ref
  /\ \A ref \in Slots :
       refs.table[ref] # NoObj => ref = 0 \/ \E h \in held : h.ref = ref

IInv == ObjectsInv /\ TableInv /\ HeldInv

\* The property follows from the invariant.
LEMMA InvImplies == IInv => RefsResolve
<1> SUFFICES ASSUME IInv PROVE RefsResolve
  OBVIOUS
<1>1. ASSUME NEW h \in held
      PROVE  /\ GetObj(refs, h.ref) = h.obj
             /\ objects[h.obj].kind = "Sdk" => objects[h.obj].ref = h.ref
  <2>1. h.ref \in Slots /\ refs.table[h.ref] = h.obj
    BY DEF IInv, HeldInv
  <2>2. h.ref < refs.size
    BY <2>1 DEF IInv, TableInv, GoodTable, Slots
  <2> QED
    BY <2>1, <2>2 DEF IInv, HeldInv, GetObj
<1>2. ASSUME NEW ref \in DOMAIN refs.table, refs.table[ref] # NoObj
      PROVE  ref = INVALID_PINGGY_REF \/ \E h \in held : h.ref = ref /\ h.obj = refs.table[ref]
  <2>1. ref \in Slots
    BY DEF IInv, TableInv, GoodTable, Slots
  <2> QED
    BY <1>2, <2>1 DEF IInv, HeldInv, INVALID_PINGGY_REF
<1> QED
  BY <1>1, <1>2 DEF RefsResolve
-----------------------------------------------------------------------------
(* The operations of the table.                                            *)

\* A table without a free slot grows by empty, free slots, and keeps the others.
LEMMA GrowIsGood ==
  ASSUME NEW t, NEW O, GoodTable(t, O), t.freeList = <<>>
  PROVE  /\ GoodTable(Grow(t), O)
         /\ Grow(t).size = 2 * t.size
         /\ Len(Grow(t).freeList) = t.size
         /\ \A i \in 0 .. 2 * t.size - 1 :
              Grow(t).table[i] = IF i < t.size THEN t.table[i] ELSE NoObj
<1> DEFINE n == t.size
           list == [k \in 1 .. n |-> n + k - 1]
<1>1. n \in Nat \ {0}
  BY DEF GoodTable
<1>2. /\ Grow(t).size = 2 * n
      /\ Grow(t).table = [i \in 0 .. 2 * n - 1 |-> IF i < n THEN t.table[i] ELSE NoObj]
      /\ Grow(t).freeList = t.freeList \o [k \in 1 .. 2 * n - n |-> n + k - 1]
  BY <1>1 DEF Grow
<1>3. 2 * n - n = n /\ 2 * n \in Nat \ {0}
  BY <1>1
<1>4. list \in Seq(0 .. 2 * n - 1) /\ Len(list) = n
  BY <1>1
<1>5. <<>> \o list = list
  BY <1>4
<1>6. Grow(t).freeList = list
  BY <1>2, <1>3, <1>5
<1>7. Grow(t).table \in [0 .. 2 * n - 1 -> O \cup {NoObj}]
  BY <1>1, <1>2 DEF GoodTable
<1>8. \A k \in 1 .. n : list[k] = n + k - 1
  OBVIOUS
<1>9. \A j, k \in 1 .. n : list[j] = list[k] => j = k
  BY <1>1, <1>8
<1>10. \A k \in 1 .. n : Grow(t).table[list[k]] = NoObj
  BY <1>1, <1>2, <1>8
<1>11. GoodTable(Grow(t), O)
  <2>0. {"size", "table", "freeList"} \subseteq DOMAIN Grow(t)
    BY DEF Grow
  <2>1. Grow(t).size \in Nat \ {0}
    <3>1. Grow(t).size = 2 * n
      BY <1>2
    <3> HIDE DEF n
    <3> QED
      BY <1>3, <3>1
  <2>2. Grow(t).table \in [0 .. Grow(t).size - 1 -> O \cup {NoObj}]
    BY <1>2, <1>7
  <2>3. Grow(t).freeList \in Seq(0 .. Grow(t).size - 1) /\ Len(Grow(t).freeList) = n
    BY <1>2, <1>4, <1>6
  <2>4. \A j, k \in 1 .. Len(Grow(t).freeList) :
          Grow(t).freeList[j] = Grow(t).freeList[k] => j = k
    BY <1>6, <1>9, <2>3
  <2>5. \A k \in 1 .. Len(Grow(t).freeList) : Grow(t).table[Grow(t).freeList[k]] = NoObj
    BY <1>6, <1>10, <2>3
  <2> QED
    BY <2>0, <2>1, <2>2, <2>3, <2>4, <2>5 DEF GoodTable
<1> QED
  BY <1>2, <1>4, <1>6, <1>11

\* There is a free slot afterwards, and no slot in use has changed.
LEMMA RoomIsGood ==
  ASSUME NEW t, NEW O, GoodTable(t, O)
  PROVE  /\ GoodTable(WithRoom(t), O)
         /\ WithRoom(t).size >= t.size
         /\ WithRoom(t).freeList # <<>>
         /\ \A i \in 0 .. WithRoom(t).size - 1 :
              WithRoom(t).table[i] = IF i < t.size THEN t.table[i] ELSE NoObj
<1>1. CASE t.freeList = <<>>
  <2>1. WithRoom(t) = Grow(t)
    BY <1>1 DEF WithRoom
  <2>2. t.size \in Nat \ {0}
    BY DEF GoodTable
  <2>3. /\ GoodTable(Grow(t), O)
        /\ Grow(t).size = 2 * t.size
        /\ Len(Grow(t).freeList) = t.size
        /\ \A i \in 0 .. 2 * t.size - 1 :
             Grow(t).table[i] = IF i < t.size THEN t.table[i] ELSE NoObj
    BY <1>1, GrowIsGood
  <2>4. Grow(t).size >= t.size
    BY <2>2, <2>3
  <2>5. Grow(t).freeList # <<>>
    BY <2>2, <2>3
  <2> QED
    BY <2>1, <2>3, <2>4, <2>5
<1>2. CASE t.freeList # <<>>
  <2>1. WithRoom(t) = t
    BY <1>2 DEF WithRoom
  <2> QED
    BY <1>2, <2>1 DEF GoodTable
<1> QED
  BY <1>1, <1>2

\* GetRef fills a slot that was empty, and leaves the others.
LEMMA GetRefIsGood ==
  ASSUME NEW t, NEW O, GoodTable(t, O), NEW P, O \subseteq P, NEW obj \in P, obj # NoObj
  PROVE  /\ GoodTable(GetRef(t, obj), P)
         /\ GetRef(t, obj).size >= t.size
         /\ NextRef(t) \in 0 .. GetRef(t, obj).size - 1
         /\ NextRef(t) < t.size => t.table[NextRef(t)] = NoObj
         /\ \A i \in 0 .. GetRef(t, obj).size - 1 :
              GetRef(t, obj).table[i] =
                IF i = NextRef(t) THEN obj ELSE IF i < t.size THEN t.table[i] ELSE NoObj
<1> DEFINE room == WithRoom(t)
           ref == NextRef(t)
           new == GetRef(t, obj)
<1>1. /\ GoodTable(room, O)
      /\ room.size >= t.size
      /\ room.freeList # <<>>
      /\ \A i \in 0 .. room.size - 1 : room.table[i] = IF i < t.size THEN t.table[i] ELSE NoObj
  BY RoomIsGood
<1>2. new = [room EXCEPT !.table = [room.table EXCEPT ![ref] = obj], !.freeList = Tail(room.freeList)]
  BY DEF GetRef
<1>3. ref = Head(room.freeList)
  BY DEF NextRef
<1>4. t.size \in Nat \ {0}
  BY DEF GoodTable
<1>5. /\ room.size \in Nat \ {0}
      /\ room.table \in [0 .. room.size - 1 -> O \cup {NoObj}]
      /\ room.freeList \in Seq(0 .. room.size - 1)
      /\ \A j, k \in 1 .. Len(room.freeList) : room.freeList[j] = room.freeList[k] => j = k
      /\ \A k \in 1 .. Len(room.freeList) : room.table[room.freeList[k]] = NoObj
  BY <1>1 DEF GoodTable
<1>6. /\ {"size", "table", "freeList"} \subseteq DOMAIN new
      /\ new.size = room.size
      /\ new.table = [room.table EXCEPT ![ref] = obj]
      /\ new.freeList = Tail(room.freeList)
  <2>1. \A f \in {"size", "table", "freeList"} : f \in DOMAIN room
    BY <1>1 DEF GoodTable
  <2> QED
    BY <1>2, <2>1
<1>7. ref = room.freeList[1] /\ 1 \in 1 .. Len(room.freeList) /\ ref \in 0 .. room.size - 1
  BY <1>1, <1>3, <1>5
<1>8. room.table[ref] = NoObj
  BY <1>5, <1>7
<1>9. /\ Tail(room.freeList) \in Seq(0 .. room.size - 1)
      /\ Len(Tail(room.freeList)) = Len(room.freeList) - 1
      /\ \A k \in 1 .. Len(room.freeList) - 1 : Tail(room.freeList)[k] = room.freeList[k + 1]
  <2> DEFINE list == room.freeList
  <2>1. list \in Seq(0 .. room.size - 1) /\ list # <<>>
    BY <1>1, <1>5
  <2> HIDE DEF list
  <2>2. /\ Tail(list) \in Seq(0 .. room.size - 1)
        /\ Len(Tail(list)) = Len(list) - 1
        /\ \A k \in 1 .. Len(list) - 1 : Tail(list)[k] = list[k + 1]
    BY <2>1
  <2> QED
    BY <2>2 DEF list
<1>10. Len(room.freeList) \in Nat
  BY <1>5
<1>11. \A k \in 1 .. Len(room.freeList) - 1 : room.freeList[k + 1] # ref
  BY <1>5, <1>7, <1>10
<1>12. GoodTable(new, P)
  <2>1. new.size \in Nat \ {0}
    BY <1>5, <1>6
  <2>2. new.table \in [0 .. new.size - 1 -> P \cup {NoObj}]
    BY <1>5, <1>6
  <2>3. new.freeList \in Seq(0 .. new.size - 1) /\ Len(new.freeList) = Len(room.freeList) - 1
    BY <1>6, <1>9
  <2>4. \A j, k \in 1 .. Len(new.freeList) : new.freeList[j] = new.freeList[k] => j = k
    BY <1>5, <1>6, <1>9, <1>10, <2>3
  <2>5. ASSUME NEW k \in 1 .. Len(new.freeList) PROVE new.table[new.freeList[k]] = NoObj
    <3>1. /\ k + 1 \in 1 .. Len(room.freeList)
          /\ new.freeList[k] = room.freeList[k + 1]
          /\ room.freeList[k + 1] # ref
      BY <1>6, <1>9, <1>10, <1>11, <2>3
    <3>2. room.freeList[k + 1] \in 0 .. room.size - 1 /\ room.table[room.freeList[k + 1]] = NoObj
      BY <1>5, <3>1
    <3> QED
      BY <1>5, <1>6, <3>1, <3>2
  <2> QED
    BY <1>6, <2>1, <2>2, <2>3, <2>4, <2>5 DEF GoodTable
<1>13. ref < t.size => t.table[ref] = NoObj
  BY <1>1, <1>4, <1>7, <1>8
<1>14. \A i \in 0 .. new.size - 1 :
         new.table[i] = IF i = ref THEN obj ELSE IF i < t.size THEN t.table[i] ELSE NoObj
  BY <1>1, <1>4, <1>5, <1>6, <1>7
<1> QED
  BY <1>1, <1>6, <1>7, <1>12, <1>13, <1>14

\* RemoveRef frees a slot that is in use, and leaves the others.
LEMMA RemoveRefIsGood ==
  ASSUME NEW t, NEW O, GoodTable(t, O), NEW ref \in 0 .. t.size - 1, t.table[ref] # NoObj
  PROVE  /\ GoodTable(RemoveRef(t, ref), O)
         /\ RemoveRef(t, ref).size = t.size
         /\ RemoveRef(t, ref).table = [t.table EXCEPT ![ref] = NoObj]
<1> DEFINE new == RemoveRef(t, ref)
           n == Len(t.freeList)
<1>1. /\ t.size \in Nat \ {0}
      /\ t.table \in [0 .. t.size - 1 -> O \cup {NoObj}]
      /\ t.freeList \in Seq(0 .. t.size - 1)
      /\ \A j, k \in 1 .. n : t.freeList[j] = t.freeList[k] => j = k
      /\ \A k \in 1 .. n : t.table[t.freeList[k]] = NoObj
  BY DEF GoodTable
<1>2. /\ {"size", "table", "freeList"} \subseteq DOMAIN new
      /\ new.size = t.size
      /\ new.table = [t.table EXCEPT ![ref] = NoObj]
      /\ new.freeList = Append(t.freeList, ref)
  <2>1. ~(ref >= t.size)
    BY <1>1
  <2> QED
    BY <2>1 DEF RemoveRef, GoodTable
<1>3. \A k \in 1 .. n : t.freeList[k] # ref
  BY <1>1
<1>4. n \in Nat /\ \A k \in 1 .. n : t.freeList[k] \in 0 .. t.size - 1
  BY <1>1
<1>5. /\ new.freeList \in Seq(0 .. t.size - 1)
      /\ Len(new.freeList) = n + 1
      /\ \A k \in 1 .. n : new.freeList[k] = t.freeList[k]
      /\ new.freeList[n + 1] = ref
  BY <1>1, <1>2
<1>6. \A j, k \in 1 .. n + 1 : new.freeList[j] = new.freeList[k] => j = k
  <2> SUFFICES ASSUME NEW j \in 1 .. n + 1, NEW k \in 1 .. n + 1, new.freeList[j] = new.freeList[k]
               PROVE  j = k
    OBVIOUS
  <2>1. CASE j \in 1 .. n /\ k \in 1 .. n
    <3>1. t.freeList[j] = t.freeList[k]
      BY <1>5, <2>1
    <3> QED
      BY <1>1, <2>1, <3>1
  <2>2. CASE j = n + 1 /\ k # n + 1
    <3>1. k \in 1 .. n
      BY <1>4, <2>2
    <3> QED
      BY <1>3, <1>5, <2>2, <3>1
  <2>3. CASE j # n + 1 /\ k = n + 1
    <3>1. j \in 1 .. n
      BY <1>4, <2>3
    <3> QED
      BY <1>3, <1>5, <2>3, <3>1
  <2> QED
    BY <1>4, <2>1, <2>2, <2>3
<1>7. \A k \in 1 .. n + 1 : new.freeList[k] \in 0 .. t.size - 1 /\ new.table[new.freeList[k]] = NoObj
  <2> SUFFICES ASSUME NEW k \in 1 .. n + 1
               PROVE  new.freeList[k] \in 0 .. t.size - 1 /\ new.table[new.freeList[k]] = NoObj
    OBVIOUS
  <2>1. CASE k \in 1 .. n
    <3>1. t.freeList[k] \in 0 .. t.size - 1
      BY <1>4, <2>1
    <3>2. t.table[t.freeList[k]] = NoObj
      BY <1>1, <2>1
    <3>3. new.freeList[k] = t.freeList[k] /\ t.freeList[k] # ref
      BY <1>3, <1>5, <2>1
    <3> QED
      BY <1>1, <1>2, <3>1, <3>3, <3>2
  <2>2. CASE k = n + 1
    <3>1. new.freeList[k] = ref
      BY <1>5, <2>2
    <3> QED
      BY <1>1, <1>2, <3>1
  <2> QED
    BY <1>4, <2>1, <2>2
<1>8. new.table \in [0 .. t.size - 1 -> O \cup {NoObj}]
  BY <1>1, <1>2
<1>9. GoodTable(new, O)
  BY <1>1, <1>2, <1>5, <1>6, <1>7, <1>8 DEF GoodTable
<1> QED
  BY <1>2, <1>9

\* All slots of a new table are free.
LEMMA NewTableIsGood ==
  /\ GoodTable(NewRefTable, {})
  /\ \A i \in 0 .. NewRefTable.size - 1 : NewRefTable.table[i] = NoObj
<1> DEFINE list == [k \in 1 .. InitialSize |-> k - 1]
<1>1. InitialSize \in Nat \ {0}
  BY RefTableAssumption
<1>2. /\ NewRefTable.size = InitialSize
      /\ NewRefTable.table = [i \in 0 .. InitialSize - 1 |-> NoObj]
      /\ NewRefTable.freeList = <<>> \o [k \in 1 .. InitialSize - 0 |-> 0 + k - 1]
      /\ {"size", "table", "freeList"} \subseteq DOMAIN NewRefTable
  <2>1. \A i \in 0 .. InitialSize - 1 : ~(i < 0)
    BY <1>1
  <2> QED
    BY <2>1 DEF NewRefTable, Grow
<1>3. list \in Seq(0 .. InitialSize - 1) /\ Len(list) = InitialSize
  BY <1>1
<1>4. [k \in 1 .. InitialSize - 0 |-> 0 + k - 1] = list
  BY <1>1
<1>5. NewRefTable.freeList = list
  BY <1>2, <1>3, <1>4
<1>6. \A j, k \in 1 .. InitialSize : list[j] = list[k] => j = k
  BY <1>1
<1>7. \A k \in 1 .. InitialSize : NewRefTable.table[list[k]] = NoObj
  BY <1>1, <1>2
<1>8. NewRefTable.table \in [0 .. InitialSize - 1 -> {} \cup {NoObj}]
  BY <1>2
<1> QED
  BY <1>1, <1>2, <1>3, <1>5, <1>6, <1>7, <1>8 DEF GoodTable
-----------------------------------------------------------------------------
(* The steps.                                                              *)

LEMMA AppendIsSeq ==
  ASSUME NEW S, NEW s \in Seq(S), NEW x
  PROVE  /\ Append(s, x) \in Seq(S \cup {x})
         /\ Len(s) \in Nat
         /\ Len(Append(s, x)) = Len(s) + 1
         /\ \A i \in 1 .. Len(s) : Append(s, x)[i] = s[i]
         /\ Append(s, x)[Len(s) + 1] = x
<1>1. s \in Seq(S \cup {x})
  OBVIOUS
<1> QED
  BY <1>1

LEMMA ReplaceIsSeq ==
  ASSUME NEW S, NEW s \in Seq(S), NEW n \in 1 .. Len(s), NEW x
  PROVE  /\ [s EXCEPT ![n] = x] \in Seq(S \cup {x})
         /\ Len([s EXCEPT ![n] = x]) = Len(s)
         /\ \A i \in 1 .. Len(s) : [s EXCEPT ![n] = x][i] = IF i = n THEN x ELSE s[i]
<1>1. s \in Seq(S \cup {x})
  OBVIOUS
<1> QED
  BY <1>1

\* An object that changes keeps its class, and a tunnel its reference.
LEMMA ChangeKeepsInv ==
  ASSUME IInv, refs' = refs, held' = held,
         NEW n \in Ids, NEW o, objects' = [objects EXCEPT ![n] = o],
         o.kind = objects[n].kind, Shape(o), o.kind = "Sdk" => o.ref = objects[n].ref
  PROVE  IInv'
<1> PICK S : objects \in Seq(S)
  BY DEF IInv, ObjectsInv
<1>1. /\ objects' \in Seq(S \cup {o})
      /\ Len(objects') = Len(objects)
      /\ \A i \in Ids : objects'[i] = IF i = n THEN o ELSE objects[i]
  BY ReplaceIsSeq DEF Ids
<1>2. Ids' = Ids /\ Slots' = Slots
  BY <1>1 DEF Ids, Slots
<1>3. ObjectsInv'
  <2>1. \A i \in Ids : Shape(objects'[i])
    BY <1>1 DEF IInv, ObjectsInv, Shape
  <2> QED
    BY <1>1, <1>2, <2>1 DEF ObjectsInv
<1>4. TableInv'
  BY <1>2 DEF IInv, TableInv
<1>5. \A h \in held : h.obj \in Ids
  BY DEF IInv, HeldInv
<1>6. \A h \in held : objects'[h.obj].kind = "Sdk" => objects'[h.obj].ref = h.ref
  BY <1>1, <1>5 DEF IInv, HeldInv
<1>7. HeldInv'
  BY <1>2, <1>6 DEF IInv, HeldInv
<1> QED
  BY <1>3, <1>4, <1>7 DEF IInv

\* A new object gets a slot that nobody uses.
LEMMA MakeKeepsInv ==
  ASSUME IInv, NEW o, Make(o), Shape(o), o.kind = "Sdk" => o.ref = NextRef(refs),
         Keep \/ (NextRef(refs) = 0 /\ held' = held)
  PROVE  IInv'
<1> DEFINE id == Len(objects) + 1
           new == NextRef(refs)
<1> PICK S : objects \in Seq(S)
  BY DEF IInv, ObjectsInv
<1>1. /\ objects' \in Seq(S \cup {o})
      /\ Len(objects) \in Nat
      /\ Len(objects') = id
      /\ \A i \in Ids : objects'[i] = objects[i]
      /\ objects'[id] = o
  BY AppendIsSeq DEF Ids, Make
<1>2. Ids' = Ids \cup {id}
  BY <1>1 DEF Ids
<1>3. id # NoObj
  BY <1>1, RefTableAssumption
<1>4. /\ GoodTable(refs', Ids')
      /\ refs'.size >= refs.size
      /\ new \in 0 .. refs'.size - 1
      /\ new < refs.size => refs.table[new] = NoObj
      /\ \A i \in 0 .. refs'.size - 1 :
           refs'.table[i] = IF i = new THEN id ELSE IF i < refs.size THEN refs.table[i] ELSE NoObj
  <2>1. Ids \subseteq Ids' /\ id \in Ids'
    BY <1>2
  <2>2. GoodTable(refs, Ids)
    BY DEF IInv, TableInv
  <2>3. refs' = GetRef(refs, id)
    BY DEF Make
  <2> HIDE DEF id
  <2>4. /\ GoodTable(GetRef(refs, id), Ids')
        /\ GetRef(refs, id).size >= refs.size
        /\ new \in 0 .. GetRef(refs, id).size - 1
        /\ new < refs.size => refs.table[new] = NoObj
        /\ \A i \in 0 .. GetRef(refs, id).size - 1 :
             GetRef(refs, id).table[i] =
               IF i = new THEN id ELSE IF i < refs.size THEN refs.table[i] ELSE NoObj
    BY <1>3, <2>1, <2>2, GetRefIsGood
  <2> QED
    BY <2>3, <2>4
<1>5. refs.size \in Nat /\ refs'.size \in Nat
  BY <1>4 DEF IInv, TableInv, GoodTable
<1>6. ObjectsInv'
  <2>1. \A i \in Ids' : Shape(objects'[i])
    BY <1>1, <1>2 DEF IInv, ObjectsInv
  <2> QED
    BY <1>1, <2>1 DEF ObjectsInv
<1>7. TableInv'
  BY <1>4 DEF TableInv
<1>8. \A i \in Slots : i \in Slots' /\ i < refs.size
  BY <1>4, <1>5 DEF Slots
<1>9. ASSUME NEW h \in held
      PROVE  /\ h \in [ref : Slots', obj : Ids']
             /\ refs'.table[h.ref] = h.obj
             /\ objects'[h.obj].kind = "Sdk" => objects'[h.obj].ref = h.ref
  <2>1. h \in [ref : Slots, obj : Ids] /\ refs.table[h.ref] = h.obj
    BY DEF IInv, HeldInv
  <2>2. h.ref \in Slots' /\ h.ref < refs.size /\ h.obj # NoObj
    BY <1>8, <2>1, RefTableAssumption, <1>1 DEF Ids
  <2>3. refs'.table[h.ref] = h.obj
    BY <1>4, <2>1, <2>2 DEF Slots
  <2>4. h \in [ref : Slots', obj : Ids']
    BY <1>2, <2>1, <2>2
  <2> QED
    BY <1>1, <2>1, <2>3, <2>4 DEF IInv, HeldInv
<1>10. ASSUME NEW i \in Slots', refs'.table[i] # NoObj, i # new
       PROVE  i = 0 \/ \E h \in held : h.ref = i
  <2>1. i < refs.size /\ refs.table[i] # NoObj
    BY <1>4, <1>10 DEF Slots
  <2>2. i \in Slots
    BY <1>5, <2>1 DEF Slots
  <2> QED
    BY <2>1, <2>2 DEF IInv, HeldInv
<1>11. CASE Keep
  <2> DEFINE g == [ref |-> new, obj |-> id]
  <2>1. held' = held \cup {g}
    BY <1>11 DEF Keep
  <2>2. /\ g \in [ref : Slots', obj : Ids']
        /\ refs'.table[g.ref] = g.obj
        /\ objects'[g.obj].kind = "Sdk" => objects'[g.obj].ref = g.ref
    BY <1>1, <1>2, <1>4 DEF Slots
  <2>3. \A i \in Slots' : refs'.table[i] # NoObj => i = 0 \/ \E h \in held' : h.ref = i
    <3> SUFFICES ASSUME NEW i \in Slots', refs'.table[i] # NoObj
                 PROVE  i = 0 \/ \E h \in held' : h.ref = i
      OBVIOUS
    <3>1. CASE i = new
      <4>1. g \in held' /\ g.ref = i
        BY <2>1, <3>1
      <4> QED
        BY <4>1
    <3>2. CASE i # new
      BY <1>10, <2>1, <3>2
    <3> QED
      BY <3>1, <3>2
  <2>4. HeldInv'
    BY <1>9, <2>1, <2>2, <2>3 DEF HeldInv
  <2> QED
    BY <1>6, <1>7, <2>4 DEF IInv
<1>12. CASE new = 0 /\ held' = held
  <2>1. HeldInv'
    BY <1>9, <1>10, <1>12 DEF HeldInv
  <2> QED
    BY <1>6, <1>7, <2>1 DEF IInv
<1> QED
  BY <1>11, <1>12

\* A freed reference leaves no other one without its object.
LEMMA FreeKeepsInv ==
  ASSUME IInv, NEW h \in held, FreeRef(h)
  PROVE  IInv'
<1>1. objects' = objects /\ Ids' = Ids
  BY DEF FreeRef, Ids
<1>2. h \in [ref : Slots, obj : Ids] /\ refs.table[h.ref] = h.obj
  BY DEF IInv, HeldInv
<1>3. refs.table[h.ref] # NoObj
  BY <1>2, RefTableAssumption DEF Ids
<1>4. /\ GoodTable(refs', Ids)
      /\ refs'.size = refs.size
      /\ refs'.table = [refs.table EXCEPT ![h.ref] = NoObj]
  BY <1>2, <1>3, RemoveRefIsGood DEF FreeRef, IInv, TableInv, Slots
<1>5. Slots' = Slots
  BY <1>4 DEF Slots
<1>6. ObjectsInv' /\ TableInv'
  BY <1>1, <1>4 DEF IInv, ObjectsInv, TableInv
<1>7. held' = held \ {h}
  BY DEF FreeRef
<1>8. refs.table \in [Slots -> Ids \cup {NoObj}]
  BY DEF IInv, TableInv, GoodTable, Slots
<1>9. ASSUME NEW g \in held'
      PROVE  /\ g \in [ref : Slots, obj : Ids]
             /\ g.ref # h.ref
             /\ refs.table[g.ref] = g.obj
             /\ objects[g.obj].kind = "Sdk" => objects[g.obj].ref = g.ref
  <2>1. g \in held /\ g # h
    BY <1>7
  <2>2. g \in [ref : Slots, obj : Ids] /\ refs.table[g.ref] = g.obj
    BY <2>1 DEF IInv, HeldInv
  <2>3. g.ref = h.ref => g = h
    BY <1>2, <2>2
  <2> QED
    BY <2>1, <2>2, <2>3 DEF IInv, HeldInv
<1>10. ASSUME NEW i \in Slots, refs'.table[i] # NoObj
       PROVE  i = 0 \/ \E g \in held' : g.ref = i
  <2>1. i # h.ref /\ refs.table[i] # NoObj
    BY <1>2, <1>4, <1>8, <1>10
  <2> QED
    BY <1>7, <2>1 DEF IInv, HeldInv
<1>11. \A g \in held' : refs'.table[g.ref] = g.obj
  BY <1>2, <1>4, <1>8, <1>9
<1>12. HeldInv'
  BY <1>1, <1>5, <1>9, <1>10, <1>11 DEF HeldInv
<1> QED
  BY <1>6, <1>12 DEF IInv

LEMMA HeldResolves ==
  ASSUME IInv, NEW h \in held
  PROVE  GetObj(refs, h.ref) = h.obj /\ h.obj \in Ids
<1>1. h.ref \in Slots /\ refs.table[h.ref] = h.obj /\ h.obj \in Ids
  BY DEF IInv, HeldInv
<1>2. h.ref < refs.size
  BY <1>1 DEF IInv, TableInv, GoodTable, Slots
<1> QED
  BY <1>1, <1>2 DEF GetObj

LEMMA EditKeepsInv ==
  ASSUME IInv, NEW h \in held, NEW config, NEW throws, Edit(h.ref, config, throws)
  PROVE  IInv'
<1> DEFINE o == SDKConfig(config)
<1>1. GetObj(refs, h.ref) = h.obj /\ h.obj \in Ids
  BY HeldResolves
<1>2. /\ refs' = refs /\ held' = held
      /\ objects' = [objects EXCEPT ![h.obj] = o]
      /\ objects[h.obj].kind = "SDKConfig"
  BY <1>1 DEF Edit, Is
<1>3. o.kind = "SDKConfig" /\ Shape(o)
  BY DEF SDKConfig, Shape
<1> QED
  BY <1>1, <1>2, <1>3, ChangeKeepsInv

LEMMA TunnelKeepsInv ==
  ASSUME IInv, NEW h \in held, Is(h.ref, "Sdk"), NEW sdk, NEW throws,
         Tunnel(h.ref, sdk, throws),
         sdk.kind = Obj(h.ref).kind, sdk.ref = Obj(h.ref).ref,
         DOMAIN sdk = DOMAIN Obj(h.ref)
  PROVE  IInv'
<1>1. GetObj(refs, h.ref) = h.obj /\ h.obj \in Ids
  BY HeldResolves
<1>2. /\ refs' = refs /\ held' = held
      /\ objects' = [objects EXCEPT ![h.obj] = sdk]
      /\ Obj(h.ref) = objects[h.obj]
  BY <1>1 DEF Tunnel, Obj
<1>3. Shape(sdk)
  BY <1>1, <1>2 DEF Shape, IInv, ObjectsInv
<1> QED
  BY <1>1, <1>2, <1>3, ChangeKeepsInv

\* All setters.
LEMMA ConfigCallKeepsInv ==
  ASSUME IInv, NEW h \in held, ConfigCall(h.ref)
  PROVE  IInv'
<1>1. \E config, throws : Edit(h.ref, config, throws)
  <2>1. CASE SetServerAddress(h.ref) \/ SetMalformed(h.ref) \/ SetToken(h.ref) \/ SetForce(h.ref)
    BY <2>1, Zenon DEF SetServerAddress, SetMalformed, SetToken, SetForce
  <2>2. CASE SetReconnectInterval(h.ref) \/ SetArgument(h.ref)
    BY <2>2, Zenon DEF SetReconnectInterval, SetArgument, EditArguments
  <2>3. CASE SetHeaderManipulations(h.ref) \/ SetBasicAuths(h.ref) \/ SetBearerTokenAuths(h.ref)
    BY <2>3, Zenon DEF SetHeaderManipulations, SetBasicAuths, SetBearerTokenAuths
  <2>4. CASE SetIpWhiteList(h.ref) \/ SetOption(h.ref) \/ SetLocalServerTls(h.ref)
    BY <2>4, Zenon DEF SetIpWhiteList, SetOption, SetLocalServerTls
  <2>5. CASE AddForwardingCall(h.ref) \/ AddForwardingSimple(h.ref)
    BY <2>5, Zenon DEF AddForwardingCall, AddForwardingSimple, EditForwardings
  <2>6. CASE SetForwardingsCall(h.ref) \/ ResetForwardings(h.ref)
    BY <2>6, Zenon DEF SetForwardingsCall, ResetForwardings, EditForwardings
  <2> QED
    BY <2>1, <2>2, <2>3, <2>4, <2>5, <2>6 DEF ConfigCall
<1> QED
  BY <1>1, EditKeepsInv

\* Start, ResumeTunnel and Stop.
LEMMA TunnelCallKeepsInv ==
  ASSUME IInv, NEW h \in held, TunnelCall(h.ref)
  PROVE  IInv'
<1> DEFINE sdk == Obj(h.ref)
<1>1. Is(h.ref, "Sdk")
  BY DEF TunnelCall, Start, Resume, Stop
<1>2. {"kind", "ref"} \subseteq DOMAIN sdk
  BY <1>1, HeldResolves DEF Is, Obj, IInv, ObjectsInv, Shape
<1>3. ASSUME NEW s
      PROVE  LET new == [sdk EXCEPT !.state = s]
             IN  new.kind = sdk.kind /\ new.ref = sdk.ref /\ DOMAIN new = DOMAIN sdk
  BY <1>2
<1>4. ASSUME NEW own, NEW user
      PROVE  LET new == [sdk EXCEPT !.own = own, !.user = user, !.state = "Started"]
             IN  new.kind = sdk.kind /\ new.ref = sdk.ref /\ DOMAIN new = DOMAIN sdk
  BY <1>2
<1> HIDE DEF sdk
<1>5. CASE Start(h.ref)
  <2>1. \/ Tunnel(h.ref, sdk, FALSE)
        \/ \E own, user :
             Tunnel(h.ref, [sdk EXCEPT !.own = own, !.user = user, !.state = "Started"], FALSE)
    BY <1>5, Zenon DEF Start, sdk
  <2> QED
    BY <1>1, <1>4, <2>1, TunnelKeepsInv DEF sdk
<1>6. CASE Resume(h.ref)
  <2>1. \/ Tunnel(h.ref, sdk, TRUE)
        \/ \E s : Tunnel(h.ref, [sdk EXCEPT !.state = s], FALSE)
    BY <1>6, Zenon DEF Resume, sdk
  <2> QED
    BY <1>1, <1>3, <2>1, TunnelKeepsInv DEF sdk
<1>7. CASE Stop(h.ref)
  <2>1. \/ Tunnel(h.ref, [sdk EXCEPT !.state = "Stopped"], FALSE)
        \/ Tunnel(h.ref, [sdk EXCEPT !.permit = FALSE], TRUE)
    BY <1>7, Zenon DEF Stop, sdk
  <2>2. LET new == [sdk EXCEPT !.permit = FALSE]
        IN  new.kind = sdk.kind /\ new.ref = sdk.ref /\ DOMAIN new = DOMAIN sdk
    BY <1>2 DEF sdk
  <2> QED
    BY <1>1, <1>3, <2>1, <2>2, TunnelKeepsInv DEF sdk
<1> QED
  BY <1>5, <1>6, <1>7 DEF TunnelCall

LEMMA NextKeepsInv == IInv /\ [Next]_vars => IInv'
<1> SUFFICES ASSUME IInv, [Next]_vars PROVE IInv'
  OBVIOUS
<1>1. CASE CreateConfig
  <2> DEFINE o == SDKConfig(NewSDKConfig)
  <2>1. Shape(o) /\ o.kind # "Sdk"
    BY DEF SDKConfig, Shape
  <2> QED
    BY <1>1, <2>1, MakeKeepsInv DEF CreateConfig
<1>2. ASSUME NEW h \in held, Initiate(h.ref) PROVE IInv'
  <2> DEFINE o == Sdk(GetObj(refs, h.ref), NextRef(refs))
  <2>1. Shape(o) /\ o.ref = NextRef(refs)
    BY DEF Sdk, Shape
  <2>2. Keep \/ (NextRef(refs) = 0 /\ held' = held)
    BY <1>2 DEF Initiate, INVALID_PINGGY_REF
  <2> QED
    BY <1>2, <2>1, <2>2, MakeKeepsInv DEF Initiate
<1>3. ASSUME refs' = refs, objects' = objects, held' = held PROVE IInv'
  BY <1>3 DEF IInv, ObjectsInv, TableInv, HeldInv, Slots, Ids
<1>4. ASSUME NEW h \in held, InitiateFails(h.ref) PROVE IInv'
  BY <1>3, <1>4 DEF InitiateFails
<1>5. CASE UNCHANGED vars
  BY <1>3, <1>5 DEF vars
<1> QED
  BY <1>1, <1>2, <1>4, <1>5, FreeKeepsInv, ConfigCallKeepsInv, TunnelCallKeepsInv DEF Next

LEMMA InitInv == Init => IInv
<1> SUFFICES ASSUME Init PROVE IInv
  OBVIOUS
<1>1. objects = <<>> /\ held = {} /\ refs = NewRefTable
  BY DEF Init
<1>2. Ids = {}
  BY <1>1 DEF Ids
<1>3. ObjectsInv
  <2>1. objects \in Seq({})
    BY <1>1
  <2> QED
    BY <1>2, <2>1 DEF ObjectsInv
<1>4. TableInv
  BY <1>1, <1>2, NewTableIsGood DEF TableInv
<1>5. HeldInv
  BY <1>1, NewTableIsGood DEF HeldInv, Slots
<1> QED
  BY <1>3, <1>4, <1>5 DEF IInv

\* A reference finds the object that it was made for until it is freed, a tunnel's
\* handler knows its own reference, and only reference 0 may be lost: whatever the
\* application makes, edits, starts and frees, and however often the table grows.
THEOREM ReferencesResolve == Spec => []RefsResolve
<1>1. Init => IInv
  BY InitInv
<1>2. IInv /\ [Next]_vars => IInv'
  BY NextKeepsInv
<1>3. IInv => RefsResolve
  BY InvImplies
<1> QED
  BY <1>1, <1>2, <1>3, PTL DEF Spec
-----------------------------------------------------------------------------
(* Numbers.  Induction over data is out of the library's reach, whose       *)
(* theorems have an operator as a parameter; it is done here with the least *)
(* element of a set.                                                        *)

\* A set of numbers has a least one.
LEMMA LeastElement ==
  ASSUME NEW T \in SUBSET Nat, T # {}
  PROVE  \E m \in T : \A k \in T : m <= k
  <1> DEFINE R == OpToRel(<, Nat)
  <1>1. IsWellFoundedOn(R, Nat)
    BY NatLessThanWellFounded
  <1> HIDE DEF R
  <1>2. PICK m \in T : \A k \in T : <<k, m>> \notin R
    BY <1>1, WFMin
  <1>3. \A k \in T : k < m => <<k, m>> \in R
    BY DEF R, OpToRel
  <1>4. \A k \in T : k \in Nat /\ m \in Nat /\ ~(k < m)
    BY <1>2, <1>3
  <1>5. \A k \in T : m <= k
    BY <1>4
  <1> QED
    BY <1>5

\* A set that holds 0 and with every number below n the next one holds all
\* numbers up to n.
LEMMA CountUp ==
  ASSUME NEW n \in Nat, NEW S, 0 \in S, \A k \in 0 .. n - 1 : k \in S => k + 1 \in S
  PROVE  0 .. n \subseteq S
  <1> SUFFICES ASSUME ~(0 .. n \subseteq S) PROVE FALSE
    OBVIOUS
  <1> DEFINE T == (0 .. n) \ S
  <1>1. T \in SUBSET Nat /\ T # {}
    OBVIOUS
  <1>2. PICK m \in T : \A k \in T : m <= k
    BY <1>1, LeastElement
  <1>3. m \in 0 .. n /\ m # 0
    OBVIOUS
  <1>4. m - 1 \in 0 .. n - 1 /\ ~(m <= m - 1) /\ m - 1 \in 0 .. n /\ (m - 1) + 1 = m
    BY <1>3
  <1>5. m - 1 \in S
    BY <1>2, <1>4
  <1> QED
    BY <1>4, <1>5
-----------------------------------------------------------------------------
(* Folds.  The recursive function in a fold has to be shown to exist: it is *)
(* built up place by place.                                                 *)

\* The values of a fold, by the places that have been folded.
FoldOver(g, base, step, s, n) ==
  g = [T \in SUBSET (1 .. n) |->
         IF T = {} THEN base ELSE step[g[T \ {Max(T)}], s[Max(T)]]]

LEMMA LargestElement ==
  ASSUME NEW n \in Nat, NEW T \in SUBSET (1 .. n), T # {}
  PROVE  Max(T) \in T /\ \A y \in T : Max(T) >= y
<1>1. \E x \in T : \A y \in T : x >= y
  <2> DEFINE U == {k \in 0 .. n : n - k \in T}
  <2>1. U \in SUBSET Nat /\ U # {}
    <3>1. PICK x \in T : TRUE
      OBVIOUS
    <3>2. x \in 1 .. n /\ n - x \in 0 .. n /\ n - (n - x) = x
      OBVIOUS
    <3>3. n - x \in U
      BY <3>2
    <3>4. U \subseteq Nat
      OBVIOUS
    <3> HIDE DEF U
    <3> QED
      BY <3>3, <3>4
  <2>2. PICK m \in U : \A k \in U : m <= k
    BY <2>1, LeastElement
  <2>3. m \in 0 .. n /\ n - m \in T
    BY <2>2
  <2>4. ASSUME NEW y \in T PROVE n - m >= y
    <3>1. y \in 1 .. n /\ n - y \in 0 .. n /\ n - (n - y) = y
      OBVIOUS
    <3>2. m <= n - y
      BY <2>2, <3>1
    <3> QED
      BY <2>3, <3>1, <3>2
  <2> QED
    BY <2>3, <2>4
<1> QED
  BY <1>1 DEF Max

LEMMA MaxOfUpTo ==
  ASSUME NEW n \in Nat
  PROVE  Max(1 .. n + 1) = n + 1 /\ (1 .. n + 1) \ {n + 1} = 1 .. n
<1>1. 1 .. n + 1 \in SUBSET (1 .. n + 1) /\ 1 .. n + 1 # {} /\ n + 1 \in Nat
  OBVIOUS
<1>2. Max(1 .. n + 1) \in 1 .. n + 1 /\ \A y \in 1 .. n + 1 : Max(1 .. n + 1) >= y
  BY <1>1, LargestElement
<1>3. Max(1 .. n + 1) >= n + 1
  BY <1>1, <1>2
<1> QED
  BY <1>2, <1>3

\* A fold of a step that stays in A has values in A.
LEMMA FoldExists ==
  ASSUME NEW A, NEW E, NEW step \in [A \X E -> A], NEW base \in A, NEW s \in Seq(E)
  PROVE  \E g : FoldOver(g, base, step, s, Len(s)) /\ \A T \in SUBSET (1 .. Len(s)) : g[T] \in A
<1> DEFINE n == Len(s)
           Fits(g, k) == /\ FoldOver(g, base, step, s, k)
                         /\ \A T \in SUBSET (1 .. k) : g[T] \in A
           S == {k \in 0 .. n : \E g : Fits(g, k)}
<1>1. n \in Nat /\ \A i \in 1 .. n : s[i] \in E
  OBVIOUS
<1> HIDE DEF n
<1>2. \E g : Fits(g, 0)
  <2> DEFINE g == [T \in SUBSET (1 .. 0) |-> base]
  <2>1. \A T \in SUBSET (1 .. 0) : T = {}
    OBVIOUS
  <2>2. FoldOver(g, base, step, s, 0)
    BY <2>1 DEF FoldOver
  <2>3. \A T \in SUBSET (1 .. 0) : g[T] \in A
    OBVIOUS
  <2> HIDE DEF g
  <2>4. Fits(g, 0)
    BY <2>2, <2>3
  <2> HIDE DEF Fits
  <2> QED
    BY <2>4
<1>3. ASSUME NEW k \in 0 .. n - 1, NEW f, Fits(f, k)
      PROVE  \E g : Fits(g, k + 1)
  <2> DEFINE P == SUBSET (1 .. k)
             Q == SUBSET (1 .. k + 1)
             g == [T \in Q |-> IF k + 1 \in T THEN step[f[T \ {k + 1}], s[k + 1]] ELSE f[T]]
  <2>1. k \in Nat /\ k + 1 \in 1 .. n /\ s[k + 1] \in E
    BY <1>1
  <2>2. ASSUME NEW T \in Q, k + 1 \notin T PROVE T \in P
    BY <2>1, <2>2
  <2>3. ASSUME NEW T \in Q PROVE T \ {k + 1} \in P
    BY <2>1
  <2>4. \A T \in P : T \in Q /\ k + 1 \notin T
    BY <2>1
  <2>5. \A T \in P : f[T] \in A
    BY <1>3
  <2>6. \A T \in Q : g[T] \in A
    <3> SUFFICES ASSUME NEW T \in Q PROVE g[T] \in A
      OBVIOUS
    <3>1. CASE k + 1 \in T
      <4>1. <<f[T \ {k + 1}], s[k + 1]>> \in A \X E
        BY <2>1, <2>3, <2>5
      <4> QED
        BY <3>1, <4>1
    <3>2. CASE k + 1 \notin T
      BY <2>2, <2>5, <3>2
    <3> QED
      BY <3>1, <3>2
  <2>7. \A T \in P : g[T] = f[T]
    BY <2>4
  <2>8. ASSUME NEW T \in Q, T # {}
        PROVE  g[T] = step[g[T \ {Max(T)}], s[Max(T)]]
    <3>1. Max(T) \in T /\ \A y \in T : Max(T) >= y
      <4>1. k + 1 \in Nat /\ T \in SUBSET (1 .. k + 1)
        BY <2>1
      <4> QED
        BY <2>8, <4>1, LargestElement
    <3>2. CASE k + 1 \in T
      <4>1. Max(T) = k + 1
        <5>1. Max(T) >= k + 1 /\ Max(T) \in 1 .. k + 1
          BY <3>1, <3>2
        <5> QED
          BY <2>1, <5>1
      <4> QED
        BY <2>3, <2>7, <3>2, <4>1
    <3>3. CASE k + 1 \notin T
      <4>1. T \in P /\ T \ {Max(T)} \in P
        BY <2>2, <3>3
      <4>2. f[T] = step[f[T \ {Max(T)}], s[Max(T)]]
        BY <1>3, <2>8, <4>1 DEF FoldOver
      <4> QED
        BY <2>7, <4>1, <4>2
    <3> QED
      BY <3>2, <3>3
  <2>9. g[{}] = base
    <3>1. {} \in P
      OBVIOUS
    <3> QED
      BY <1>3, <2>7, <3>1 DEF FoldOver
  <2>10. DOMAIN g = Q /\ g = [T \in Q |-> g[T]]
    OBVIOUS
  <2> HIDE DEF g
  <2>11. FoldOver(g, base, step, s, k + 1)
    BY <2>8, <2>9, <2>10 DEF FoldOver
  <2>12. Fits(g, k + 1)
    BY <2>6, <2>11
  <2> HIDE DEF Fits
  <2> QED
    BY <2>12
<1> HIDE DEF Fits
<1>4. 0 .. n \subseteq S
  <2>1. 0 \in S
    BY <1>1, <1>2
  <2>2. \A k \in 0 .. n - 1 : k \in S => k + 1 \in S
    <3> SUFFICES ASSUME NEW k \in 0 .. n - 1, k \in S PROVE k + 1 \in S
      OBVIOUS
    <3>1. k + 1 \in 0 .. n
      BY <1>1
    <3>2. PICK f : Fits(f, k)
      OBVIOUS
    <3> QED
      BY <1>3, <3>1, <3>2
  <2> HIDE DEF S
  <2> QED
    BY <1>1, <2>1, <2>2, CountUp
<1>5. \E g : Fits(g, n)
  <2>1. n \in S
    BY <1>1, <1>4
  <2> QED
    BY <2>1
<1> QED
  BY <1>5 DEF Fits, n

OnPlaces(g, n) == g = [T \in SUBSET (1 .. n) |-> g[T]]

\* Two functions that follow the same steps are the same.
LEMMA FoldUnique ==
  ASSUME NEW n \in Nat, NEW g, NEW h,
         OnPlaces(g, n), OnPlaces(h, n), g[{}] = h[{}],
         \A T \in SUBSET (1 .. n) :
           T # {} /\ g[T \ {Max(T)}] = h[T \ {Max(T)}] => g[T] = h[T]
  PROVE  g = h
<1> DEFINE S == {k \in 0 .. n : \A T \in SUBSET (1 .. k) : g[T] = h[T]}
<1>1. 0 \in S
  <2>1. ASSUME NEW T \in SUBSET (1 .. 0) PROVE g[T] = h[T]
    <3>1. T = {}
      OBVIOUS
    <3> QED
      BY <3>1
  <2> QED
    BY <2>1
<1>2. ASSUME NEW k \in 0 .. n - 1, k \in S PROVE k + 1 \in S
  <2>1. k \in Nat /\ k + 1 \in Nat /\ k + 1 \in 0 .. n
    OBVIOUS
  <2>2. ASSUME NEW T \in SUBSET (1 .. k + 1), T # {} PROVE g[T] = h[T]
    <3>1. Max(T) \in T /\ \A y \in T : Max(T) >= y
      BY <2>1, <2>2, LargestElement
    <3>2. T \ {Max(T)} \in SUBSET (1 .. k)
      <4> SUFFICES ASSUME NEW y \in T, y # Max(T) PROVE y \in 1 .. k
        OBVIOUS
      <4>1. y \in 1 .. k + 1 /\ Max(T) \in 1 .. k + 1 /\ Max(T) >= y
        BY <3>1
      <4> QED
        BY <2>1, <4>1
    <3>3. g[T \ {Max(T)}] = h[T \ {Max(T)}]
      BY <1>2, <3>2
    <3>4. T \in SUBSET (1 .. n)
      BY <2>1, <2>2
    <3> QED
      BY <2>2, <3>3, <3>4
  <2> QED
    BY <2>1, <2>2
<1> HIDE DEF S
<1>3. 0 .. n \subseteq S
  BY <1>1, <1>2, CountUp
<1>4. n \in S
  BY <1>3
<1>5. \A T \in SUBSET (1 .. n) : g[T] = h[T]
  BY <1>4 DEF S
<1> QED
  BY <1>5, Zenon DEF OnPlaces

FoldFn(step, base, s) == CHOOSE g : FoldOver(g, base, step, s, Len(s))
FoldValue(step, base, s) == FoldFn(step, base, s)[1 .. Len(s)]

\* What follows the same steps as a fold is its function.
LEMMA FoldIs ==
  ASSUME NEW n \in Nat, NEW base, NEW step, NEW s, NEW g, NEW h,
         FoldOver(g, base, step, s, n), FoldOver(h, base, step, s, n)
  PROVE  g = h
<1>1. OnPlaces(g, n) /\ OnPlaces(h, n)
  BY DEF FoldOver, OnPlaces
<1>2. {} \in SUBSET (1 .. n)
  OBVIOUS
<1>3. g[{}] = h[{}]
  BY <1>2 DEF FoldOver
<1>4. ASSUME NEW T \in SUBSET (1 .. n), T # {}, g[T \ {Max(T)}] = h[T \ {Max(T)}]
      PROVE  g[T] = h[T]
  <2>1. g[T] = step[g[T \ {Max(T)}], s[Max(T)]]
    BY <1>4, Zenon DEF FoldOver
  <2>2. h[T] = step[h[T \ {Max(T)}], s[Max(T)]]
    BY <1>4, Zenon DEF FoldOver
  <2> QED
    BY <1>4, <2>1, <2>2, Zenon
<1> QED
  BY <1>1, <1>3, <1>4, FoldUnique

LEMMA FoldFnIs ==
  ASSUME NEW A, NEW E, NEW step \in [A \X E -> A], NEW base \in A, NEW s \in Seq(E)
  PROVE  LET g == FoldFn(step, base, s)
         IN  /\ FoldOver(g, base, step, s, Len(s))
             /\ \A T \in SUBSET (1 .. Len(s)) : g[T] \in A
<1>1. PICK g : FoldOver(g, base, step, s, Len(s)) /\ \A T \in SUBSET (1 .. Len(s)) : g[T] \in A
  BY FoldExists
<1> DEFINE h == FoldFn(step, base, s)
<1>2. FoldOver(h, base, step, s, Len(s))
  BY <1>1, Zenon DEF FoldFn
<1> HIDE DEF h
<1>3. Len(s) \in Nat
  OBVIOUS
<1>4. g = h
  BY <1>1, <1>2, <1>3, FoldIs
<1> QED
  BY <1>1, <1>4 DEF h

\* A fold of nothing, of one more element, and its type.
Stays(step, base, A, E) == step \in [A \X E -> A] /\ base \in A
OneStep(step, acc, x) == step[acc, x]

LEMMA FoldSteps ==
  ASSUME NEW A, NEW E, NEW step, NEW base, Stays(step, base, A, E), NEW s \in Seq(E), NEW x \in E
  PROVE  /\ FoldValue(step, base, <<>>) = base
         /\ FoldValue(step, base, s) \in A
         /\ FoldValue(step, base, Append(s, x)) = OneStep(step, FoldValue(step, base, s), x)
<1>0. step \in [A \X E -> A] /\ base \in A
  BY DEF Stays
<1>1. FoldValue(step, base, <<>>) = base
  <2> DEFINE g == FoldFn(step, base, <<>>)
  <2>1. <<>> \in Seq(E) /\ Len(<<>>) = 0
    OBVIOUS
  <2>2. FoldOver(g, base, step, <<>>, 0)
    BY <1>0, <2>1, FoldFnIs
  <2>3. 1 .. 0 = {} /\ {} \in SUBSET (1 .. 0)
    OBVIOUS
  <2> HIDE DEF g
  <2>4. g[{}] = base
    BY <2>2, <2>3 DEF FoldOver
  <2> QED
    BY <2>1, <2>3, <2>4 DEF FoldValue, g
<1> DEFINE n == Len(s)
           g == FoldFn(step, base, s)
<1>2. FoldOver(g, base, step, s, n) /\ \A T \in SUBSET (1 .. n) : g[T] \in A
  BY <1>0, FoldFnIs
<1>3. g[1 .. n] \in A
  BY <1>2
<1> DEFINE t == Append(s, x)
           h == FoldFn(step, base, t)
<1>4. t \in Seq(E) /\ Len(t) = n + 1 /\ n \in Nat /\ t[n + 1] = x /\ \A i \in 1 .. n : t[i] = s[i]
  OBVIOUS
<1>5. FoldOver(h, base, step, t, n + 1)
  <2>1. FoldOver(h, base, step, t, Len(t))
    BY <1>0, <1>4, FoldFnIs, Zenon
  <2> QED
    BY <1>4, <2>1, Zenon
<1> HIDE DEF g, h, t, n
<1> DEFINE f == [T \in SUBSET (1 .. n) |-> h[T]]
<1>6. FoldOver(f, base, step, s, n)
  <2>1. \A T \in SUBSET (1 .. n) : T \in SUBSET (1 .. n + 1)
    BY <1>4
  <2>2. f[{}] = base
    <3>1. {} \in SUBSET (1 .. n + 1) /\ {} \in SUBSET (1 .. n)
      OBVIOUS
    <3> QED
      BY <1>5, <3>1 DEF FoldOver
  <2>3. ASSUME NEW T \in SUBSET (1 .. n), T # {}
        PROVE  f[T] = step[f[T \ {Max(T)}], s[Max(T)]]
    <3>1. Max(T) \in 1 .. n
      BY <1>4, <2>3, LargestElement
    <3>2. h[T] = step[h[T \ {Max(T)}], t[Max(T)]]
      BY <1>5, <2>1, <2>3 DEF FoldOver
    <3> QED
      BY <1>4, <3>1, <3>2
  <2>4. f = [T \in SUBSET (1 .. n) |-> f[T]]
    OBVIOUS
  <2> HIDE DEF f
  <2> QED
    BY <2>2, <2>3, <2>4 DEF FoldOver
<1>7. f = g
  BY <1>2, <1>4, <1>6, FoldIs
<1>8. h[1 .. n] = g[1 .. n]
  BY <1>7
<1>9. h[1 .. n + 1] = step[h[1 .. n], x]
  <2>1. Max(1 .. n + 1) = n + 1 /\ (1 .. n + 1) \ {n + 1} = 1 .. n
    BY <1>4, MaxOfUpTo
  <2>2. 1 .. n + 1 \in SUBSET (1 .. n + 1) /\ 1 .. n + 1 # {}
    <3>1. 1 \in 1 .. n + 1
      BY <1>4
    <3> QED
      BY <3>1, Zenon
  <2> DEFINE T == 1 .. n + 1
  <2>3. h[T] = step[h[T \ {Max(T)}], t[Max(T)]]
    <3> HIDE DEF T
    <3>1. T \in SUBSET (1 .. n + 1) /\ T # {}
      BY <2>2 DEF T
    <3> QED
      BY <1>5, <3>1, Zenon DEF FoldOver
  <2> QED
    BY <1>4, <2>1, <2>3, Zenon
<1> QED
  BY <1>1, <1>3, <1>4, <1>8, <1>9 DEF FoldValue, OneStep, g, h, t, n
-----------------------------------------------------------------------------
(* Texts and their parts.                                                  *)

\* The symbols of a text, those of the code by name.
Symbols ==
  STRING \cup Options
  \cup {":", ",", "a", "b", "k", "u", "r", "w", "x", "localServerTls", "localhost"}
Text == Seq(Symbols)
Free(text, sep) == \A i \in DOMAIN text : text[i] # sep

\* The first separator of a text.
LEMMA FirstSeparator ==
  ASSUME NEW S, NEW text \in Seq(S), NEW sep, ~Free(text, sep)
  PROVE  LET i == CHOOSE i \in DOMAIN text : text[i] = sep /\ \A j \in 1 .. i - 1 : text[j] # sep
         IN  i \in 1 .. Len(text) /\ text[i] = sep /\ \A j \in 1 .. i - 1 : text[j] # sep
<1> DEFINE T == {i \in 1 .. Len(text) : text[i] = sep}
<1>1. Len(text) \in Nat /\ DOMAIN text = 1 .. Len(text)
  OBVIOUS
<1>2. T \in SUBSET Nat /\ T # {}
  BY <1>1 DEF Free
<1>3. PICK m \in T : \A k \in T : m <= k
  BY <1>2, LeastElement
<1>4. m \in DOMAIN text /\ text[m] = sep /\ \A j \in 1 .. m - 1 : text[j] # sep
  <2>1. m \in 1 .. Len(text) /\ text[m] = sep
    BY <1>3
  <2>2. ASSUME NEW j \in 1 .. m - 1, text[j] = sep PROVE FALSE
    <3>1. j \in T /\ ~(m <= j)
      BY <1>1, <2>1, <2>2
    <3> QED
      BY <1>3, <3>1
  <2> QED
    BY <1>1, <2>1, <2>2
<1> QED
  BY <1>1, <1>4

\* A text without a separator is one part.
LEMMA SplitNothing ==
  ASSUME NEW S, NEW text \in Seq(S), NEW sep, text # <<>>, Free(text, sep)
  PROVE  SplitOnce(text, sep) = <<text>>
  BY DEF SplitOnce, Free

\* A text with one is taken apart at the first.
LEMMA SplitAtFirst ==
  ASSUME NEW S, NEW u \in Seq(S), NEW v \in Seq(S), NEW sep \in S, Free(u, sep), v # <<>>
  PROVE  SplitOnce(u \o <<sep>> \o v, sep) = <<u, v>>
<1> DEFINE text == u \o <<sep>> \o v
           n == Len(u)
<1>1. /\ text \in Seq(S) /\ n \in Nat /\ Len(v) \in Nat \ {0} /\ Len(text) = n + 1 + Len(v)
      /\ text # <<>>
      /\ \A i \in 1 .. n : text[i] = u[i]
      /\ text[n + 1] = sep
      /\ \A i \in 1 .. Len(v) : text[n + 1 + i] = v[i]
  OBVIOUS
<1>2. ~Free(text, sep)
  <2>1. n + 1 \in DOMAIN text
    BY <1>1
  <2> HIDE DEF text
  <2> QED
    BY <1>1, <2>1 DEF Free
<1> DEFINE k == CHOOSE i \in DOMAIN text : text[i] = sep /\ \A j \in 1 .. i - 1 : text[j] # sep
<1>3. k \in 1 .. Len(text) /\ text[k] = sep /\ \A j \in 1 .. k - 1 : text[j] # sep
  BY <1>1, <1>2, FirstSeparator
<1>4. SplitOnce(text, sep) = IF k = Len(text) THEN <<SubSeq(text, 1, k - 1)>>
                             ELSE <<SubSeq(text, 1, k - 1), SubSeq(text, k + 1, Len(text))>>
  BY <1>1, <1>2 DEF SplitOnce, Free
<1> HIDE DEF k, text
<1>5. k = n + 1
  <2>1. ~(k <= n)
    <3>1. k <= n => text[k] = u[k] /\ k \in DOMAIN u
      BY <1>1, <1>3
    <3> QED
      BY <1>3, <3>1 DEF Free
  <2>2. ~(n + 1 < k)
    <3>1. n + 1 < k => n + 1 \in 1 .. k - 1
      BY <1>1, <1>3
    <3> QED
      BY <1>1, <1>3, <3>1
  <2> QED
    BY <1>1, <1>3, <2>1, <2>2
<1>6. SubSeq(text, 1, n) = u
  BY <1>1
<1>7. SubSeq(text, n + 2, Len(text)) = v
  <2> DEFINE l == Len(text)
             w == SubSeq(text, n + 2, l)
  <2>1. /\ n + 2 \in Int /\ l \in Int /\ n + 2 <= l /\ l - (n + 2) + 1 = Len(v)
        /\ \A i \in n + 2 .. l : text[i] \in S
    BY <1>1
  <2>2. /\ w \in Seq(S) /\ Len(w) = Len(v)
        /\ \A i \in 1 .. Len(v) : w[i] = text[n + 2 + i - 1]
    BY <2>1, SubSeqProperties
  <2>3. \A i \in 1 .. Len(v) : n + 2 + i - 1 = n + 1 + i
    BY <1>1
  <2> HIDE DEF w
  <2>4. \A i \in 1 .. Len(v) : w[i] = v[i]
    BY <1>1, <2>2, <2>3
  <2> QED
    BY <2>2, <2>4, SeqEqual DEF w
<1>8. k - 1 = n /\ k + 1 = n + 2 /\ k # Len(text)
  BY <1>1, <1>5
<1> QED
  BY <1>4, <1>6, <1>7, <1>8 DEF text

LEMMA OneOrTwo ==
  ASSUME NEW T, NEW u \in T, NEW v \in T
  PROVE  /\ <<u>> \in Seq(T) /\ Len(<<u>>) = 1 /\ <<u>> # <<>> /\ <<u>>[1] = u
         /\ <<u, v>> \in Seq(T) /\ Len(<<u, v>>) = 2 /\ <<u, v>> # <<>>
         /\ <<u, v>>[1] = u /\ <<u, v>>[2] = v
         /\ <<>> \in Seq(T) /\ Len(<<>>) = 0
  OBVIOUS

\* What any text is taken apart into.
LEMMA SplitIsText ==
  ASSUME NEW S, NEW text \in Seq(S), NEW sep
  PROVE  LET r == SplitOnce(text, sep)
         IN  /\ r \in Seq(Seq(S)) /\ Len(r) <= 2
             /\ Len(r) = 2 => r[2] # <<>>
             /\ text # <<>> => r # <<>>
<1> DEFINE r == SplitOnce(text, sep)
<1> HIDE DEF r
<1> SUFFICES /\ r \in Seq(Seq(S)) /\ Len(r) <= 2
             /\ Len(r) = 2 => r[2] # <<>>
             /\ text # <<>> => r # <<>>
  BY DEF r
<1>1. CASE text = <<>>
  <2>1. r = <<>>
    BY <1>1 DEF SplitOnce, r
  <2>2. <<>> \in Seq(Seq(S)) /\ Len(<<>>) = 0
    BY EmptySeq
  <2> QED
    BY <1>1, <2>1, <2>2
<1>2. CASE text # <<>> /\ Free(text, sep)
  <2> DEFINE p == <<text>>
  <2>1. r = p
    BY <1>2, SplitNothing DEF r
  <2>2. p \in Seq(Seq(S)) /\ Len(p) = 1 /\ p # <<>>
    BY OneOrTwo
  <2> HIDE DEF p
  <2> QED
    BY <2>1, <2>2
<1>3. CASE text # <<>> /\ ~Free(text, sep)
  <2> DEFINE k == CHOOSE i \in DOMAIN text : text[i] = sep /\ \A j \in 1 .. i - 1 : text[j] # sep
             u == SubSeq(text, 1, k - 1)
             v == SubSeq(text, k + 1, Len(text))
  <2>1. k \in 1 .. Len(text)
    BY <1>3, FirstSeparator
  <2>2. r = IF k = Len(text) THEN <<u>> ELSE <<u, v>>
    BY <1>3 DEF SplitOnce, Free, r
  <2> HIDE DEF k
  <2> DEFINE l == Len(text)
  <2>3. l \in Nat /\ \A i \in 1 .. l : text[i] \in S
    OBVIOUS
  <2> HIDE DEF l
  <2>4. k \in 1 .. l
    BY <2>1 DEF l
  <2>5. SubSeq(text, 1, k - 1) \in Seq(S)
    BY <2>3, <2>4, SubSeqProperties
  <2>6. /\ SubSeq(text, k + 1, l) \in Seq(S)
        /\ k # l => Len(SubSeq(text, k + 1, l)) = l - (k + 1) + 1
    BY <2>3, <2>4, SubSeqProperties
  <2>7. k # l => SubSeq(text, k + 1, l) # <<>>
    <3>1. k # l => l - (k + 1) + 1 # 0
      BY <2>3, <2>4
    <3> QED
      BY <2>6, <3>1, EmptySeq
  <2>8. u \in Seq(S) /\ v \in Seq(S) /\ (k # Len(text) => v # <<>>)
    BY <2>5, <2>6, <2>7 DEF l
  <2> HIDE DEF u, v
  <2> DEFINE T == Seq(S)
             p == <<u>>
             q == <<u, v>>
  <2>9. u \in T /\ v \in T
    BY <2>8
  <2>10. r = p \/ (r = q /\ v # <<>>)
    BY <2>2, <2>8
  <2> HIDE DEF T, l
  <2>11. /\ p \in Seq(T) /\ Len(p) = 1 /\ p # <<>>
         /\ q \in Seq(T) /\ Len(q) = 2 /\ q # <<>> /\ q[2] = v
    BY <2>9, OneOrTwo
  <2> HIDE DEF p, q
  <2>12. /\ r \in Seq(T) /\ Len(r) <= 2
         /\ Len(r) = 2 => r[2] # <<>>
         /\ r # <<>>
    <3>1. CASE r = p
      <4>1. r \in Seq(T) /\ r # <<>>
        BY <2>11, <3>1, Zenon
      <4>2. Len(r) = 1
        BY <2>11, <3>1, Zenon
      <4>3. Len(r) <= 2 /\ Len(r) # 2
        BY <4>2
      <4> QED
        BY <4>1, <4>3, Zenon
    <3>2. CASE r = q /\ v # <<>>
      <4>1. r \in Seq(T) /\ r # <<>> /\ r[2] # <<>>
        BY <2>11, <3>2, Zenon
      <4>2. Len(r) = 2
        BY <2>11, <3>2, Zenon
      <4>3. Len(r) <= 2
        BY <4>2
      <4> QED
        BY <4>1, <4>3, Zenon
    <3> QED
      BY <2>10, <3>1, <3>2
  <2> QED
    BY <2>12 DEF T
<1> QED
  BY <1>1, <1>2, <1>3
-----------------------------------------------------------------------------
(* The three folds of the configuration.                                   *)

\* SplitAll: the parts so far and one more symbol.
Parts == Seq(Text) \ {<<>>}
SplitStep(sep, acc, x) ==
  IF x = sep THEN Append(acc, <<>>) ELSE Front(acc) \o <<Append(Last(acc), x)>>
SplitFn(sep) == [p \in Parts \X Symbols |-> SplitStep(sep, p[1], p[2])]
SplitFold(text, sep) ==
  FoldLeft(LAMBDA acc, x : IF x = sep THEN Append(acc, <<>>)
                           ELSE Front(acc) \o <<Append(Last(acc), x)>>, <<(<<>>)>>, text)

LEMMA SplitStepIn ==
  ASSUME NEW sep, NEW acc \in Parts, NEW x \in Symbols
  PROVE  SplitStep(sep, acc, x) \in Parts
<1>1. acc \in Seq(Text) /\ acc # <<>> /\ Len(acc) \in Nat \ {0}
  BY EmptySeq DEF Parts
<1>2. CASE x = sep
  <2>1. <<>> \in Text
    BY EmptySeq DEF Text
  <2>2. Append(acc, <<>>) \in Seq(Text) /\ Append(acc, <<>>) # <<>>
    BY <1>1, <2>1, AppendProperties
  <2> QED
    BY <1>2, <2>2 DEF SplitStep, Parts
<1>3. CASE x # sep
  <2>1. Last(acc) \in Text
    BY <1>1, ElementOfSeq DEF Last
  <2> DEFINE last == Append(Last(acc), x)
             front == Front(acc)
  <2>2. last \in Text
    BY <2>1, AppendProperties DEF Text
  <2>3. \A i \in 1 .. Len(acc) - 1 : acc[i] \in Text
    BY <1>1, ElementOfSeq
  <2>4. 1 \in Int /\ Len(acc) - 1 \in Int
    BY <1>1
  <2>5. front \in Seq(Text)
    BY <2>3, <2>4, SubSeqProperties DEF Front
  <2> HIDE DEF last, front
  <2>6. <<last>> \in Seq(Text) /\ <<last>> # <<>>
    BY <2>2, OneOrTwo
  <2>7. front \o <<last>> \in Seq(Text) /\ front \o <<last>> # <<>>
    BY <2>5, <2>6, ConcatProperties, ConcatEqualIffEmpty
  <2> QED
    BY <1>3, <2>7 DEF SplitStep, Parts, last, front
<1> QED
  BY <1>2, <1>3

LEMMA SplitTyped ==
  ASSUME NEW sep
  PROVE  SplitFn(sep) \in [Parts \X Symbols -> Parts] /\ <<(<<>>)>> \in Parts
<1>1. <<(<<>>)>> \in Parts
  <2>1. <<>> \in Text
    BY EmptySeq DEF Text
  <2> QED
    BY <2>1, OneOrTwo DEF Parts
<1>2. ASSUME NEW p \in Parts \X Symbols PROVE SplitStep(sep, p[1], p[2]) \in Parts
  BY SplitStepIn
<1> QED
  BY <1>1, <1>2 DEF SplitFn

LEMMA SplitFoldIs ==
  ASSUME NEW text \in Text, NEW sep
  PROVE  SplitFold(text, sep) = FoldValue(SplitFn(sep), <<(<<>>)>>, text)
<1> DEFINE n == Len(text)
           Follows(h) == h = [T \in SUBSET DOMAIN text |->
                                IF T = {} THEN <<(<<>>)>>
                                ELSE SplitStep(sep, h[T \ {Max(T)}], text[Max(T)])]
           h == CHOOSE h : Follows(h)
           g == FoldFn(SplitFn(sep), <<(<<>>)>>, text)
<1>1. n \in Nat /\ DOMAIN text = 1 .. n /\ \A i \in 1 .. n : text[i] \in Symbols
  BY DEF Text
<1>2. /\ FoldOver(g, <<(<<>>)>>, SplitFn(sep), text, n)
      /\ \A T \in SUBSET (1 .. n) : g[T] \in Parts
  BY SplitTyped, FoldFnIs DEF Text
<1>3. SplitFold(text, sep) = h[DOMAIN text]
  BY Zenon DEF SplitFold, SplitStep, FoldLeft, MapThenFoldSet
<1> HIDE DEF n, g
<1>4. \A T \in SUBSET (1 .. n) : T # {} => Max(T) \in 1 .. n /\ T \ {Max(T)} \in SUBSET (1 .. n)
  BY <1>1, LargestElement
<1>5. ASSUME NEW T \in SUBSET (1 .. n)
      PROVE  g[T] = IF T = {} THEN <<(<<>>)>> ELSE SplitStep(sep, g[T \ {Max(T)}], text[Max(T)])
  <2>1. CASE T = {}
    BY <1>2, <2>1 DEF FoldOver
  <2>2. CASE T # {}
    <3>1. g[T] = SplitFn(sep)[g[T \ {Max(T)}], text[Max(T)]]
      BY <1>2, <2>2 DEF FoldOver
    <3>2. <<g[T \ {Max(T)}], text[Max(T)]>> \in Parts \X Symbols
      BY <1>1, <1>2, <1>4, <2>2
    <3> QED
      BY <2>2, <3>1, <3>2 DEF SplitFn
  <2> QED
    BY <2>1, <2>2
<1>6. OnPlaces(g, n)
  BY <1>2 DEF FoldOver, OnPlaces
<1>7. Follows(g)
  BY <1>1, <1>5, <1>6, Zenon DEF OnPlaces
<1>8. Follows(h)
  BY <1>7, Zenon
<1> HIDE DEF h
<1>9. OnPlaces(h, n)
  BY <1>1, <1>8, Zenon DEF OnPlaces
<1>10. \A T \in SUBSET (1 .. n) :
         h[T] = IF T = {} THEN <<(<<>>)>> ELSE SplitStep(sep, h[T \ {Max(T)}], text[Max(T)])
  BY <1>1, <1>8, Zenon
<1> HIDE DEF Follows
<1>11. h[{}] = g[{}]
  BY <1>5, <1>10
<1>12. \A T \in SUBSET (1 .. n) :
         T # {} /\ h[T \ {Max(T)}] = g[T \ {Max(T)}] => h[T] = g[T]
  BY <1>5, <1>10, Zenon
<1>13. h = g
  BY <1>1, <1>6, <1>9, <1>11, <1>12, FoldUnique, Zenon
<1> QED
  BY <1>1, <1>3, <1>13, Zenon DEF FoldValue, n, g

\* JoinString: the text so far and one more part.
JoinStep(sep, acc, p) == IF acc = <<>> THEN p ELSE acc \o <<sep>> \o p
JoinFn(sep) == [p \in Text \X Text |-> JoinStep(sep, p[1], p[2])]

LEMMA JoinTyped ==
  ASSUME NEW sep \in Symbols
  PROVE  JoinFn(sep) \in [Text \X Text -> Text] /\ <<>> \in Text
<1>1. <<>> \in Text
  BY EmptySeq DEF Text
<1>2. ASSUME NEW p \in Text \X Text PROVE JoinStep(sep, p[1], p[2]) \in Text
  <2>1. p[1] \in Text /\ p[2] \in Text /\ <<sep>> \in Text
    BY OneOrTwo DEF Text
  <2>2. p[1] \o <<sep>> \in Text
    BY <2>1, ConcatProperties DEF Text
  <2>3. p[1] \o <<sep>> \o p[2] \in Text
    BY <2>1, <2>2, ConcatProperties DEF Text
  <2> QED
    BY <2>1, <2>3 DEF JoinStep
<1> QED
  BY <1>1, <1>2 DEF JoinFn

LEMMA JoinFoldIs ==
  ASSUME NEW parts \in Seq(Text), NEW sep \in Symbols
  PROVE  JoinString(parts, sep) = FoldValue(JoinFn(sep), <<>>, parts)
<1> DEFINE n == Len(parts)
           Follows(h) == h = [T \in SUBSET DOMAIN parts |->
                                IF T = {} THEN <<>>
                                ELSE JoinStep(sep, h[T \ {Max(T)}], parts[Max(T)])]
           h == CHOOSE h : Follows(h)
           g == FoldFn(JoinFn(sep), <<>>, parts)
<1>1. n \in Nat /\ DOMAIN parts = 1 .. n /\ \A i \in 1 .. n : parts[i] \in Text
  OBVIOUS
<1>2. /\ FoldOver(g, <<>>, JoinFn(sep), parts, n)
      /\ \A T \in SUBSET (1 .. n) : g[T] \in Text
  BY JoinTyped, FoldFnIs
<1>3. JoinString(parts, sep) = h[DOMAIN parts]
  BY Zenon DEF JoinString, JoinStep, FoldLeft, MapThenFoldSet
<1> HIDE DEF n, g
<1>4. \A T \in SUBSET (1 .. n) : T # {} => Max(T) \in 1 .. n /\ T \ {Max(T)} \in SUBSET (1 .. n)
  BY <1>1, LargestElement
<1>5. ASSUME NEW T \in SUBSET (1 .. n)
      PROVE  g[T] = IF T = {} THEN <<>> ELSE JoinStep(sep, g[T \ {Max(T)}], parts[Max(T)])
  <2>1. CASE T = {}
    BY <1>2, <2>1 DEF FoldOver
  <2>2. CASE T # {}
    <3>1. g[T] = JoinFn(sep)[g[T \ {Max(T)}], parts[Max(T)]]
      BY <1>2, <2>2 DEF FoldOver
    <3>2. <<g[T \ {Max(T)}], parts[Max(T)]>> \in Text \X Text
      BY <1>1, <1>2, <1>4, <2>2
    <3> QED
      BY <2>2, <3>1, <3>2 DEF JoinFn
  <2> QED
    BY <2>1, <2>2
<1>6. OnPlaces(g, n)
  BY <1>2 DEF FoldOver, OnPlaces
<1>7. Follows(g)
  BY <1>1, <1>5, <1>6, Zenon DEF OnPlaces
<1>8. Follows(h)
  BY <1>7, Zenon
<1> HIDE DEF h
<1>9. OnPlaces(h, n)
  BY <1>1, <1>8, Zenon DEF OnPlaces
<1>10. \A T \in SUBSET (1 .. n) :
         h[T] = IF T = {} THEN <<>> ELSE JoinStep(sep, h[T \ {Max(T)}], parts[Max(T)])
  BY <1>1, <1>8, Zenon
<1> HIDE DEF Follows
<1>11. h[{}] = g[{}]
  BY <1>5, <1>10
<1>12. \A T \in SUBSET (1 .. n) :
         T # {} /\ h[T \ {Max(T)}] = g[T \ {Max(T)}] => h[T] = g[T]
  BY <1>5, <1>10, Zenon
<1>13. h = g
  BY <1>1, <1>6, <1>9, <1>11, <1>12, FoldUnique, Zenon
<1> QED
  BY <1>1, <1>3, <1>13, Zenon DEF FoldValue, n, g

-----------------------------------------------------------------------------
(* What is joined is split again.                                          *)

\* The last element of a sequence and what stands before it.
LEMMA FrontAndLast ==
  ASSUME NEW S, NEW s \in Seq(S), s # <<>>
  PROVE  Front(s) \in Seq(S) /\ Last(s) \in S /\ s = Front(s) \o <<Last(s)>>
<1>1. Len(s) \in Nat \ {0} /\ \A i \in 1 .. Len(s) : s[i] \in S
  OBVIOUS
<1>2. Last(s) \in S
  BY <1>1 DEF Last
<1> DEFINE n == Len(s)
           f == SubSeq(s, 1, n - 1)
<1>3. /\ f \in Seq(S) /\ Len(f) = n - 1
      /\ \A i \in 1 .. n - 1 : f[i] = s[i]
  <2>1. n \in Nat \ {0} /\ \A i \in 1 .. n : s[i] \in S
    BY <1>1
  <2> HIDE DEF n
  <2>2. 1 \in Int /\ n - 1 \in Int /\ \A i \in 1 .. n - 1 : s[i] \in S
    BY <2>1
  <2>3. /\ f \in Seq(S) /\ Len(f) = (IF 1 <= n - 1 THEN n - 1 - 1 + 1 ELSE 0)
        /\ \A i \in 1 .. n - 1 - 1 + 1 : f[i] = s[1 + i - 1]
    BY <2>2, SubSeqProperties
  <2> HIDE DEF f
  <2>4. (IF 1 <= n - 1 THEN n - 1 - 1 + 1 ELSE 0) = n - 1
    BY <2>1
  <2>5. \A i \in 1 .. n - 1 : 1 + i - 1 = i /\ i \in 1 .. n - 1 - 1 + 1
    BY <2>1
  <2>6. \A i \in 1 .. n - 1 : f[i] = s[i]
    BY <2>3, <2>5, Zenon
  <2>7. Len(f) = n - 1
    BY <2>3, <2>4
  <2> QED
    BY <2>3, <2>6, <2>7
<1>4. s = f \o <<s[Len(s)]>>
  BY <1>1, <1>3
<1> QED
  BY <1>2, <1>3, <1>4 DEF Front, Last, f

\* An element is added to a sequence of sequences.
LEMMA PartAdded ==
  ASSUME NEW s \in Seq(Text), NEW x \in Text
  PROVE  /\ Front(s \o <<x>>) = s /\ Last(s \o <<x>>) = x
         /\ Front(Append(s, x)) = s /\ Last(Append(s, x)) = x
         /\ s \o <<x>> = Append(s, x)
<1>1. Len(s) \in Nat /\ \A i \in 1 .. Len(s) : s[i] \in Text
  OBVIOUS
<1>2. Append(s, x) = s \o <<x>> /\ Append(s, x) \in Seq(Text) /\ Len(Append(s, x)) = Len(s) + 1
  OBVIOUS
<1>3. Last(Append(s, x)) = x
  BY <1>1, <1>2 DEF Last
<1>4. Front(Append(s, x)) = s
  <2>1. SubSeq(Append(s, x), 1, Len(s)) = s
    BY <1>1
  <2>2. Len(Append(s, x)) - 1 = Len(s)
    BY <1>1, <1>2
  <2> QED
    BY <2>1, <2>2 DEF Front
<1> QED
  BY <1>2, <1>3, <1>4

\* A prefix and the next element.
LEMMA PrefixGrows ==
  ASSUME NEW S, NEW s \in Seq(S), NEW k \in 0 .. Len(s) - 1
  PROVE  /\ SubSeq(s, 1, k) \in Seq(S) /\ s[k + 1] \in S
         /\ SubSeq(s, 1, k + 1) = Append(SubSeq(s, 1, k), s[k + 1])
  OBVIOUS

LEMMA WholePrefix ==
  ASSUME NEW S, NEW s \in Seq(S)
  PROVE  SubSeq(s, 1, 0) = <<>> /\ SubSeq(s, 1, Len(s)) = s /\ s \o <<>> = s /\ <<>> \o s = s
  OBVIOUS

LEMMA SplitSteps ==
  ASSUME NEW text \in Text, NEW sep, NEW x \in Symbols
  PROVE  /\ SplitFold(<<>>, sep) = <<(<<>>)>>
         /\ SplitFold(text, sep) \in Parts
         /\ SplitFold(Append(text, x), sep) = SplitStep(sep, SplitFold(text, sep), x)
<1>1. <<>> \in Text /\ Append(text, x) \in Text
  BY EmptySeq, AppendProperties DEF Text
<1>2. SplitFn(sep) \in [Parts \X Symbols -> Parts] /\ <<(<<>>)>> \in Parts
  BY SplitTyped
<1> DEFINE F == SplitFn(sep)
           B == <<(<<>>)>>
<1>3. /\ FoldValue(F, B, <<>>) = B /\ FoldValue(F, B, text) \in Parts
      /\ FoldValue(F, B, Append(text, x)) = OneStep(F, FoldValue(F, B, text), x)
  <2>1. F \in [Parts \X Symbols -> Parts] /\ B \in Parts /\ text \in Seq(Symbols) /\ x \in Symbols
    BY <1>2 DEF Text
  <2>2. Stays(F, B, Parts, Symbols)
    BY <2>1 DEF Stays
  <2> HIDE DEF F, B
  <2> QED
    BY <2>1, <2>2, FoldSteps
<1>4. /\ SplitFold(<<>>, sep) = FoldValue(F, B, <<>>) /\ SplitFold(text, sep) = FoldValue(F, B, text)
      /\ SplitFold(Append(text, x), sep) = FoldValue(F, B, Append(text, x))
  BY <1>1, SplitFoldIs
<1>5. OneStep(F, FoldValue(F, B, text), x) = SplitStep(sep, FoldValue(F, B, text), x)
  BY <1>3 DEF OneStep, SplitFn
<1> QED
  BY <1>3, <1>4, <1>5, Zenon

LEMMA JoinSteps ==
  ASSUME NEW parts \in Seq(Text), NEW sep \in Symbols, NEW p \in Text
  PROVE  /\ JoinString(<<>>, sep) = <<>>
         /\ JoinString(parts, sep) \in Text
         /\ JoinString(Append(parts, p), sep) = JoinStep(sep, JoinString(parts, sep), p)
<1>1. <<>> \in Seq(Text) /\ Append(parts, p) \in Seq(Text)
  BY EmptySeq, AppendProperties
<1>2. JoinFn(sep) \in [Text \X Text -> Text] /\ <<>> \in Text
  BY JoinTyped
<1> DEFINE F == JoinFn(sep)
           B == <<>>
<1>3. /\ FoldValue(F, B, <<>>) = B /\ FoldValue(F, B, parts) \in Text
      /\ FoldValue(F, B, Append(parts, p)) = OneStep(F, FoldValue(F, B, parts), p)
  <2>1. F \in [Text \X Text -> Text] /\ B \in Text /\ parts \in Seq(Text) /\ p \in Text
    BY <1>2
  <2>2. Stays(F, B, Text, Text)
    BY <2>1 DEF Stays
  <2> HIDE DEF F, B
  <2> QED
    BY <2>1, <2>2, FoldSteps
<1>4. /\ JoinString(<<>>, sep) = FoldValue(F, B, <<>>) /\ JoinString(parts, sep) = FoldValue(F, B, parts)
      /\ JoinString(Append(parts, p), sep) = FoldValue(F, B, Append(parts, p))
  BY <1>1, JoinFoldIs
<1>5. OneStep(F, FoldValue(F, B, parts), p) = JoinStep(sep, FoldValue(F, B, parts), p)
  BY <1>3 DEF OneStep, JoinFn
<1> QED
  BY <1>3, <1>4, <1>5, Zenon

LEMMA SymbolAdded ==
  ASSUME NEW s \in Text, NEW t \in Text, NEW x \in Symbols
  PROVE  /\ s \o t \in Text /\ Append(s, x) \in Text
         /\ t # <<>> => s \o t # <<>>
<1>1. s \in Seq(Symbols) /\ t \in Seq(Symbols)
  BY DEF Text
<1>2. s \o t \in Seq(Symbols) /\ Append(s, x) \in Seq(Symbols)
  BY <1>1, ConcatProperties, AppendProperties
<1>3. t # <<>> => s \o t # <<>>
  BY <1>1, ConcatEqualIffEmpty
<1> QED
  BY <1>2, <1>3 DEF Text

\* Symbols that do not separate go to the last part.
LEMMA LastPartGrows ==
  ASSUME NEW t \in Text, NEW p \in Text, NEW sep, Free(p, sep)
  PROVE  LET acc == SplitFold(t, sep)
         IN  acc \in Parts /\ SplitFold(t \o p, sep) = Front(acc) \o <<Last(acc) \o p>>
<1> DEFINE acc == SplitFold(t, sep)
           f == Front(acc)
           w == Last(acc)
           n == Len(p)
           q(k) == SubSeq(p, 1, k)
           S == {k \in 0 .. n : SplitFold(t \o q(k), sep) = f \o <<w \o q(k)>>}
<1>1. acc \in Parts
  <2>1. "a" \in Symbols
    BY DEF Symbols
  <2> QED
    BY <2>1, SplitSteps
<1> HIDE DEF acc
<1>2. f \in Seq(Text) /\ w \in Text /\ acc = f \o <<w>>
  BY <1>1, FrontAndLast DEF Parts
<1> HIDE DEF f, w
<1>3. n \in Nat /\ q(0) = <<>> /\ q(n) = p /\ t \o <<>> = t /\ w \o <<>> = w
  BY <1>2, WholePrefix DEF Text
<1>4. 0 \in S
  <2>1. SplitFold(t \o <<>>, sep) = f \o <<w \o <<>>>>
    BY <1>2, <1>3 DEF acc
  <2>2. q(0) = <<>> /\ 0 \in 0 .. n
    BY <1>3
  <2> QED
    BY <2>1, <2>2
<1>5. ASSUME NEW k \in 0 .. n - 1, k \in S PROVE k + 1 \in S
  <2> DEFINE u == q(k)
             x == p[k + 1]
             v == w \o u
  <2>1. u \in Text /\ x \in Symbols /\ q(k + 1) = Append(u, x)
    BY PrefixGrows DEF Text
  <2>2. x # sep
    <3>1. k + 1 \in DOMAIN p
      BY <1>3 DEF Text
    <3> QED
      BY <3>1 DEF Free
  <2>3. SplitFold(t \o u, sep) = f \o <<v>>
    BY <1>5
  <2> HIDE DEF u, x, n, q
  <2>4. /\ t \o u \in Text /\ t \o Append(u, x) = Append(t \o u, x)
        /\ v \in Text /\ w \o Append(u, x) = Append(v, x)
    <3>1. t \o u \in Text /\ t \o Append(u, x) = Append(t \o u, x)
      BY <2>1 DEF Text
    <3>2. v \in Text /\ w \o Append(u, x) = Append(v, x)
      BY <1>2, <2>1 DEF Text
    <3> QED
      BY <3>1, <3>2
  <2> HIDE DEF v
  <2>5. SplitFold(Append(t \o u, x), sep) = SplitStep(sep, f \o <<v>>, x)
    <3> DEFINE tu == t \o u
    <3>1. tu \in Text /\ SplitFold(tu, sep) = f \o <<v>>
      BY <2>3, <2>4
    <3> HIDE DEF tu
    <3>2. SplitFold(Append(tu, x), sep) = SplitStep(sep, f \o <<v>>, x)
      BY <2>1, <3>1, SplitSteps
    <3> QED
      BY <3>2 DEF tu
  <2>6. SplitStep(sep, f \o <<v>>, x) = f \o <<Append(v, x)>>
    <3>1. Front(f \o <<v>>) = f /\ Last(f \o <<v>>) = v
      BY <1>2, <2>4, PartAdded
    <3> QED
      BY <2>2, <3>1 DEF SplitStep
  <2>7. SplitFold(t \o q(k + 1), sep) = f \o <<w \o q(k + 1)>>
    BY <2>1, <2>4, <2>5, <2>6
  <2>8. k + 1 \in 0 .. n
    BY <1>3
  <2> QED
    BY <2>7, <2>8
<1>6. n \in S
  <2> HIDE DEF S
  <2>1. 0 .. n \subseteq S
    BY <1>3, <1>4, <1>5, CountUp
  <2> QED
    BY <1>3, <2>1
<1>7. SplitFold(t \o p, sep) = f \o <<w \o p>>
  BY <1>3, <1>6
<1> QED
  BY <1>1, <1>7 DEF acc, f, w

\* Parts that are not empty and have no separator come back when they are joined and
\* split again.
LEMMA JoinedIsSplit ==
  ASSUME NEW parts \in Seq(Text), parts # <<>>, NEW sep \in Symbols,
         \A i \in DOMAIN parts : Without(sep, parts[i])
  PROVE  SplitAll(JoinString(parts, sep), sep) = parts /\ JoinString(parts, sep) \in Text \ {<<>>}
<1> DEFINE n == Len(parts)
           q(k) == SubSeq(parts, 1, k)
           J(k) == JoinString(q(k), sep)
           Back(k) == /\ J(k) \in Text /\ q(k) \in Seq(Text)
                      /\ IF k = 0 THEN J(k) = <<>>
                         ELSE J(k) # <<>> /\ SplitFold(J(k), sep) = q(k)
           S == {k \in 0 .. n : Back(k)}
<1>1. n \in Nat \ {0} /\ q(0) = <<>> /\ q(n) = parts
  BY WholePrefix
<1>2. \A i \in 1 .. n : parts[i] \in Text /\ parts[i] # <<>> /\ Free(parts[i], sep)
  BY DEF Without, Free
<1>3. <<>> \in Text /\ <<>> \in Seq(Text)
  BY EmptySeq DEF Text
<1>4. 0 \in S
  <2>1. J(0) = <<>>
    BY <1>1, <1>3, JoinSteps
  <2> QED
    BY <1>1, <1>3, <2>1
<1>5. ASSUME NEW k \in 0 .. n - 1, k \in S PROVE k + 1 \in S
  <2> DEFINE p == parts[k + 1]
             j == J(k)
             u == q(k)
  <2>1. u \in Seq(Text) /\ p \in Text /\ q(k + 1) = Append(u, p)
    BY PrefixGrows
  <2>2. p # <<>> /\ Free(p, sep) /\ k + 1 \in 1 .. n
    BY <1>1, <1>2
  <2>3. /\ j \in Text
        /\ IF k = 0 THEN j = <<>> ELSE j # <<>> /\ SplitFold(j, sep) = u
    BY <1>5
  <2>4. J(k + 1) = JoinStep(sep, j, p)
    BY <2>1, JoinSteps
  <2>5. q(k + 1) \in Seq(Text)
    BY <2>1, AppendProperties
  <2>6. k = 0 => u = <<>>
    BY <1>1
  <2> HIDE DEF p, j, u, J, q
  <2>7. /\ JoinStep(sep, j, p) \in Text /\ JoinStep(sep, j, p) # <<>>
        /\ SplitFold(JoinStep(sep, j, p), sep) = Append(u, p)
    <3>1. CASE k = 0
      <4>1. JoinStep(sep, j, p) = p /\ u = <<>>
        BY <2>3, <2>6, <3>1 DEF JoinStep
      <4> DEFINE b == <<(<<>>)>>
      <4>2. SplitFold(<<>>, sep) = b
        BY <1>3, SplitSteps
      <4>3. Front(b) = <<>> /\ Last(b) = <<>>
        BY DEF Front, Last
      <4>4. <<>> \o p = p
        BY <2>1, WholePrefix DEF Text
      <4>5. SplitFold(p, sep) = <<>> \o <<p>>
        <5> DEFINE e == <<>>
        <5>1. e \in Text
          BY <1>3
        <5> HIDE DEF e
        <5>2. SplitFold(e \o p, sep) = Front(SplitFold(e, sep)) \o <<Last(SplitFold(e, sep)) \o p>>
          BY <2>1, <2>2, <5>1, LastPartGrows
        <5> QED
          BY <4>2, <4>3, <4>4, <5>2, Zenon DEF e
      <4>6. <<>> \o <<p>> = Append(<<>>, p)
        BY <1>3, <2>1, PartAdded
      <4> QED
        BY <2>1, <2>2, <4>1, <4>5, <4>6
    <3>2. CASE k # 0
      <4> DEFINE t == Append(j, sep)
      <4>1. /\ t \in Text /\ JoinStep(sep, j, p) = t \o p /\ t \o p \in Text
        <5>1. t \in Text
          BY <2>1, <2>3, SymbolAdded
        <5>2. j \o <<sep>> \o p = t \o p
          <6>1. t = j \o <<sep>>
            BY <2>3, AppendIsConcat DEF Text
          <6> QED
            BY <6>1, Zenon
        <5>3. t \o p \in Text
          <6> HIDE DEF t
          <6> QED
            BY <2>1, <5>1, SymbolAdded
        <5> QED
          BY <2>3, <3>2, <5>1, <5>2, <5>3 DEF JoinStep
      <4>2. t \o p # <<>>
        BY <2>1, <2>2, <4>1, SymbolAdded
      <4>3. SplitFold(t, sep) = Append(u, <<>>)
        BY <2>3, <3>2, SplitSteps DEF SplitStep
      <4>4. Front(Append(u, <<>>)) = u /\ Last(Append(u, <<>>)) = <<>>
        <5> DEFINE e == <<>>
        <5>1. e \in Text
          BY <1>3
        <5> HIDE DEF e
        <5>2. Front(Append(u, e)) = u /\ Last(Append(u, e)) = e
          BY <2>1, <5>1, PartAdded
        <5> QED
          BY <5>2 DEF e
      <4>5. <<>> \o p = p
        BY <2>1, WholePrefix DEF Text
      <4> HIDE DEF t
      <4>6. SplitFold(t \o p, sep) = u \o <<p>>
        <5>1. SplitFold(t \o p, sep) = Front(SplitFold(t, sep)) \o <<Last(SplitFold(t, sep)) \o p>>
          BY <2>1, <2>2, <4>1, LastPartGrows
        <5> QED
          BY <4>3, <4>4, <4>5, <5>1, Zenon
      <4>7. u \o <<p>> = Append(u, p)
        BY <2>1, PartAdded
      <4> QED
        BY <4>1, <4>2, <4>6, <4>7
    <3> QED
      BY <3>1, <3>2
  <2>8. J(k + 1) \in Text /\ J(k + 1) # <<>> /\ SplitFold(J(k + 1), sep) = q(k + 1)
    BY <2>1, <2>4, <2>7, Zenon
  <2>9. k + 1 \in 0 .. n /\ k + 1 # 0
    BY <1>1
  <2> QED
    BY <2>5, <2>8, <2>9 DEF J, q
<1>6. n \in S
  <2> HIDE DEF S
  <2>1. 0 .. n \subseteq S
    BY <1>1, <1>4, <1>5, CountUp
  <2> QED
    BY <1>1, <2>1
<1>7. /\ JoinString(parts, sep) \in Text /\ JoinString(parts, sep) # <<>>
      /\ SplitFold(JoinString(parts, sep), sep) = parts
  BY <1>1, <1>6
<1>8. Last(parts) # <<>>
  BY <1>1, <1>2 DEF Last
<1> QED
  BY <1>7, <1>8 DEF SplitAll, SplitFold

-----------------------------------------------------------------------------
(* Arguments and the commands that say them.                               *)

HeaderMods == [action : STRING \cup {"Add"}, header : Text, values : Seq(Text)]
Auths == [username : Text, password : Text]
Keys == Text \ {<<>>}
Args ==
  [headers : Seq(HeaderMods), basic : Seq(Auths), bearer : Seq(Text), white : Seq(Text),
   options : SUBSET Options, localServerTls : Text]

LEMMA NoArgumentsFit == NoArguments \in Args
<1>1. <<>> \in Text /\ <<>> \in Seq(HeaderMods) /\ <<>> \in Seq(Auths) /\ <<>> \in Seq(Text)
  BY EmptySeq DEF Text
<1> QED
  BY <1>1 DEF NoArguments, Args

\* One field of the arguments is set to another value.
LEMMA ArgumentFits ==
  ASSUME NEW a \in Args, NEW v
  PROVE  /\ v \in Seq(HeaderMods) => [a EXCEPT !.headers = v] \in Args
         /\ v \in Seq(Auths) => [a EXCEPT !.basic = v] \in Args
         /\ v \in Seq(Text) => [a EXCEPT !.bearer = v] \in Args
         /\ v \in Seq(Text) => [a EXCEPT !.white = v] \in Args
         /\ v \in SUBSET Options => [a EXCEPT !.options = v] \in Args
         /\ v \in Text => [a EXCEPT !.localServerTls = v] \in Args
<1> DEFINE H == Seq(HeaderMods)
           B == Seq(Auths)
           K == Seq(Text)
           W == Seq(Text)
           O == SUBSET Options
           L == Text
<1>1. Args = [headers : H, basic : B, bearer : K, white : W, options : O, localServerTls : L]
  BY DEF Args
<1> HIDE DEF H, B, K, W, O, L
<1>2. /\ v \in H => [a EXCEPT !.headers = v] \in Args
      /\ v \in B => [a EXCEPT !.basic = v] \in Args
      /\ v \in K => [a EXCEPT !.bearer = v] \in Args
      /\ v \in W => [a EXCEPT !.white = v] \in Args
      /\ v \in O => [a EXCEPT !.options = v] \in Args
      /\ v \in L => [a EXCEPT !.localServerTls = v] \in Args
  BY <1>1
<1> QED
  BY <1>2 DEF H, B, K, W, O, L

LEMMA ArgumentTypes ==
  ASSUME NEW a \in Args
  PROVE  /\ a.headers \in Seq(HeaderMods) /\ a.basic \in Seq(Auths) /\ a.bearer \in Seq(Text)
         /\ a.white \in Seq(Text) /\ a.options \in SUBSET Options /\ a.localServerTls \in Text
  BY DEF Args

LEMMA SplitAllTyped ==
  ASSUME NEW text \in Text, NEW sep
  PROVE  SplitAll(text, sep) \in Seq(Text)
<1> DEFINE parts == SplitFold(text, sep)
<1>1. parts \in Parts
  <2>1. "a" \in Symbols
    BY DEF Symbols
  <2> QED
    BY <2>1, SplitSteps
<1>2. SplitAll(text, sep) = IF Last(parts) = <<>> THEN Front(parts) ELSE parts
  BY DEF SplitAll, SplitFold
<1> HIDE DEF parts
<1>3. parts \in Seq(Text) /\ Front(parts) \in Seq(Text)
  BY <1>1, FrontAndLast DEF Parts
<1> QED
  BY <1>2, <1>3

\* Any command leaves arguments.
LEMMA ApplyFits ==
  ASSUME NEW a \in Args, NEW letter, NEW text \in Keys
  PROVE  ApplyCommand(a, letter, text) \in Args
<1> DEFINE r == SplitOnce(text, ":")
           u == r[1]
           v == r[2]
<1>1. text \in Text /\ text # <<>>
  BY DEF Keys
<1>2. r \in Seq(Text) /\ r # <<>> /\ Len(r) <= 2
  BY <1>1, SplitIsText DEF Text
<1>3. Len(r) \in Nat \ {0} /\ u \in Text /\ (Len(r) = 2 => v \in Text)
  BY <1>2
<1> HIDE DEF u, v
<1>4. /\ a.headers \in Seq(HeaderMods) /\ a.basic \in Seq(Auths) /\ a.bearer \in Seq(Text)
      /\ a.white \in Seq(Text) /\ a.options \in SUBSET Options
  BY ArgumentTypes
<1>5. Len(r) = 2 => [a EXCEPT !.headers = Append(@, HeaderMod("Add", u, <<v>>))] \in Args
  <2> SUFFICES ASSUME Len(r) = 2
               PROVE  [a EXCEPT !.headers = Append(@, HeaderMod("Add", u, <<v>>))] \in Args
    OBVIOUS
  <2>1. <<v>> \in Seq(Text)
    BY <1>3, OneOrTwo
  <2> DEFINE m == HeaderMod("Add", u, <<v>>)
  <2>2. m \in HeaderMods
    BY <1>3, <2>1 DEF HeaderMod, HeaderMods
  <2> HIDE DEF m
  <2>3. Append(a.headers, m) \in Seq(HeaderMods)
    BY <1>4, <2>2, AppendProperties
  <2> QED
    BY <2>3, ArgumentFits DEF m
<1>6. Len(r) = 2 => [a EXCEPT !.basic = Append(@, [username |-> u, password |-> v])] \in Args
  <2> SUFFICES ASSUME Len(r) = 2
               PROVE  [a EXCEPT !.basic = Append(@, [username |-> u, password |-> v])] \in Args
    OBVIOUS
  <2> DEFINE m == [username |-> u, password |-> v]
  <2>2. m \in Auths
    BY <1>3 DEF Auths
  <2> HIDE DEF m
  <2>3. Append(a.basic, m) \in Seq(Auths)
    BY <1>4, <2>2, AppendProperties
  <2> QED
    BY <2>3, ArgumentFits DEF m
<1>7. [a EXCEPT !.bearer = Append(@, text)] \in Args
  <2>1. Append(a.bearer, text) \in Seq(Text)
    BY <1>1, <1>4, AppendProperties
  <2> QED
    BY <2>1, ArgumentFits
<1>8. [a EXCEPT !.white = @ \o SplitAll(text, ",")] \in Args
  <2>1. a.white \o SplitAll(text, ",") \in Seq(Text)
    BY <1>1, <1>4, SplitAllTyped, ConcatProperties
  <2> QED
    BY <2>1, ArgumentFits
<1>9. u[1] \in Options => [a EXCEPT !.options = @ \cup {u[1]}] \in Args
  <2>1. u[1] \in Options => a.options \cup {u[1]} \in SUBSET Options
    BY <1>4
  <2> QED
    BY <2>1, ArgumentFits
<1>10. [a EXCEPT !.localServerTls = IF Len(r) = 2 THEN v ELSE <<"localhost">>] \in Args
  <2> DEFINE w == IF Len(r) = 2 THEN v ELSE <<"localhost">>
  <2>1. <<"localhost">> \in Text
    BY OneOrTwo DEF Text, Symbols
  <2>2. w \in Text
    BY <1>3, <2>1
  <2> HIDE DEF w
  <2>3. [a EXCEPT !.localServerTls = w] \in Args
    BY <2>2, ArgumentFits
  <2> QED
    BY <2>3 DEF w
<1> DEFINE A1 == letter \in {"a", "u", "r"} /\ Len(r) = 2
           A2 == letter = "b" /\ Len(r) = 2
           A3 == letter = "x" /\ Len(u) = 1 /\ u[1] \in Options
           A4 == letter = "x" /\ u = <<"localServerTls">>
<1>11. ApplyCommand(a, letter, text)
         = CASE A1 -> [a EXCEPT !.headers = Append(@, HeaderMod("Add", u, <<v>>))]
             [] A2 -> [a EXCEPT !.basic = Append(@, [username |-> u, password |-> v])]
             [] letter = "k" -> [a EXCEPT !.bearer = Append(@, text)]
             [] letter = "w" -> [a EXCEPT !.white = @ \o SplitAll(text, ",")]
             [] A3 -> [a EXCEPT !.options = @ \cup {u[1]}]
             [] A4 -> [a EXCEPT !.localServerTls = IF Len(r) = 2 THEN v ELSE <<"localhost">>]
             [] OTHER -> a
  BY DEF ApplyCommand, u, v
<1>12. (A1 => Len(r) = 2) /\ (A2 => Len(r) = 2) /\ (A3 => u[1] \in Options)
  OBVIOUS
<1> HIDE DEF A1, A2, A3, A4, r
<1> QED
  BY <1>5, <1>6, <1>7, <1>8, <1>9, <1>10, <1>11, <1>12

LEMMA CommandFits ==
  ASSUME NEW a \in Args, NEW cmd \in Text
  PROVE  Command(a, cmd) \in Args
<1> DEFINE r == SplitOnce(cmd, ":")
<1>1. r \in Seq(Text) /\ Len(r) <= 2 /\ (Len(r) = 2 => r[2] # <<>>)
  BY SplitIsText DEF Text
<1> HIDE DEF r
<1>2. CASE Len(r) < 2 \/ r[1] = <<>>
  BY <1>2 DEF Command, r
<1>3. CASE ~(Len(r) < 2 \/ r[1] = <<>>)
  <2>1. r[2] \in Keys
    <3>1. Len(r) = 2
      <4>1. Len(r) \in Nat
        BY <1>1, LenProperties
      <4>2. ~(Len(r) < 2) /\ Len(r) <= 2
        BY <1>1, <1>3, Zenon
      <4> DEFINE n == Len(r)
      <4> HIDE DEF n
      <4>3. n \in Nat /\ ~(n < 2) /\ n <= 2
        BY <4>1, <4>2 DEF n
      <4>4. n = 2
        BY <4>3
      <4> QED
        BY <4>4 DEF n
    <3>2. r[2] \in Text
      BY <1>1, <3>1, ElementOfSeq
    <3> QED
      BY <1>1, <3>1, <3>2 DEF Keys
  <2>2. Command(a, cmd) = ApplyCommand(a, cmd[1], r[2])
    BY <1>3 DEF Command, r
  <2> QED
    BY <2>1, <2>2, ApplyFits
<1> QED
  BY <1>2, <1>3

\* What commands tell, one after the other.
Told(cmds) == FoldLeft(Command, NoArguments, cmds)
CommandFn == [p \in Args \X Text |-> Command(p[1], p[2])]

LEMMA CommandTyped == CommandFn \in [Args \X Text -> Args] /\ NoArguments \in Args
  BY CommandFits, NoArgumentsFit DEF CommandFn

LEMMA ToldIs ==
  ASSUME NEW cmds \in Seq(Text)
  PROVE  Told(cmds) = FoldValue(CommandFn, NoArguments, cmds)
<1> DEFINE n == Len(cmds)
           Follows(h) == h = [T \in SUBSET DOMAIN cmds |->
                                IF T = {} THEN NoArguments
                                ELSE Command(h[T \ {Max(T)}], cmds[Max(T)])]
           h == CHOOSE h : Follows(h)
           g == FoldFn(CommandFn, NoArguments, cmds)
<1>1. n \in Nat /\ DOMAIN cmds = 1 .. n /\ \A i \in 1 .. n : cmds[i] \in Text
  OBVIOUS
<1>2. /\ FoldOver(g, NoArguments, CommandFn, cmds, n)
      /\ \A T \in SUBSET (1 .. n) : g[T] \in Args
  BY CommandTyped, FoldFnIs
<1>3. Told(cmds) = h[DOMAIN cmds]
  BY Zenon DEF Told, FoldLeft, MapThenFoldSet
<1> HIDE DEF n, g
<1>4. \A T \in SUBSET (1 .. n) : T # {} => Max(T) \in 1 .. n /\ T \ {Max(T)} \in SUBSET (1 .. n)
  BY <1>1, LargestElement
<1>5. ASSUME NEW T \in SUBSET (1 .. n)
      PROVE  g[T] = IF T = {} THEN NoArguments ELSE Command(g[T \ {Max(T)}], cmds[Max(T)])
  <2>1. CASE T = {}
    BY <1>2, <2>1 DEF FoldOver
  <2>2. CASE T # {}
    <3>1. g[T] = CommandFn[g[T \ {Max(T)}], cmds[Max(T)]]
      BY <1>2, <2>2 DEF FoldOver
    <3>2. <<g[T \ {Max(T)}], cmds[Max(T)]>> \in Args \X Text
      BY <1>1, <1>2, <1>4, <2>2
    <3> QED
      BY <2>2, <3>1, <3>2 DEF CommandFn
  <2> QED
    BY <2>1, <2>2
<1>6. OnPlaces(g, n)
  BY <1>2 DEF FoldOver, OnPlaces
<1>7. Follows(g)
  BY <1>1, <1>5, <1>6, Zenon DEF OnPlaces
<1>8. Follows(h)
  BY <1>7, Zenon
<1> HIDE DEF h
<1>9. OnPlaces(h, n)
  BY <1>1, <1>8, Zenon DEF OnPlaces
<1>10. \A T \in SUBSET (1 .. n) :
         h[T] = IF T = {} THEN NoArguments ELSE Command(h[T \ {Max(T)}], cmds[Max(T)])
  BY <1>1, <1>8, Zenon
<1> HIDE DEF Follows
<1>11. h[{}] = g[{}]
  BY <1>5, <1>10
<1>12. \A T \in SUBSET (1 .. n) :
         T # {} /\ h[T \ {Max(T)}] = g[T \ {Max(T)}] => h[T] = g[T]
  BY <1>5, <1>10, Zenon
<1>13. h = g
  BY <1>1, <1>6, <1>9, <1>11, <1>12, FoldUnique, Zenon
<1> QED
  BY <1>1, <1>3, <1>13, Zenon DEF FoldValue, n, g

LEMMA ToldSteps ==
  ASSUME NEW cmds \in Seq(Text), NEW cmd \in Text
  PROVE  /\ Told(<<>>) = NoArguments
         /\ Told(cmds) \in Args
         /\ Told(Append(cmds, cmd)) = Command(Told(cmds), cmd)
<1>1. <<>> \in Seq(Text) /\ Append(cmds, cmd) \in Seq(Text)
  BY EmptySeq, AppendProperties
<1> DEFINE F == CommandFn
           B == NoArguments
<1>2. F \in [Args \X Text -> Args] /\ B \in Args
  BY CommandTyped
<1>3. /\ FoldValue(F, B, <<>>) = B /\ FoldValue(F, B, cmds) \in Args
      /\ FoldValue(F, B, Append(cmds, cmd)) = OneStep(F, FoldValue(F, B, cmds), cmd)
  <2>1. Stays(F, B, Args, Text)
    BY <1>2 DEF Stays
  <2> HIDE DEF F, B
  <2> QED
    BY <2>1, FoldSteps
<1>4. /\ Told(<<>>) = FoldValue(F, B, <<>>) /\ Told(cmds) = FoldValue(F, B, cmds)
      /\ Told(Append(cmds, cmd)) = FoldValue(F, B, Append(cmds, cmd))
  BY <1>1, ToldIs
<1>5. OneStep(F, FoldValue(F, B, cmds), cmd) = Command(FoldValue(F, B, cmds), cmd)
  BY <1>3 DEF OneStep, CommandFn
<1> QED
  BY <1>3, <1>4, <1>5, Zenon

\* Commands that follow others, with what has been told after each.
LEMMA ToldSegment ==
  ASSUME NEW s \in Seq(Text), NEW t \in Seq(Text), NEW v, Told(s) = v[0],
         \A k \in 0 .. Len(t) - 1 : v[k + 1] = Command(v[k], t[k + 1])
  PROVE  Told(s \o t) = v[Len(t)] /\ s \o t \in Seq(Text)
<1> DEFINE n == Len(t)
           q(k) == SubSeq(t, 1, k)
           S == {k \in 0 .. n : Told(s \o q(k)) = v[k]}
<1>1. n \in Nat /\ q(0) = <<>> /\ q(n) = t /\ s \o <<>> = s
  BY WholePrefix
<1>2. 0 \in S
  <2>1. Told(s \o q(0)) = v[0]
    BY <1>1, Zenon
  <2>2. 0 \in 0 .. n
    BY <1>1
  <2> QED
    BY <2>1, <2>2, Zenon
<1>3. ASSUME NEW k \in 0 .. n - 1, k \in S PROVE k + 1 \in S
  <2> DEFINE u == q(k)
             x == t[k + 1]
             su == s \o u
  <2>1. u \in Seq(Text) /\ x \in Text /\ q(k + 1) = Append(u, x)
    BY PrefixGrows
  <2>2. Told(su) = v[k] /\ v[k + 1] = Command(v[k], x)
    BY <1>3
  <2> HIDE DEF u, x, n, q
  <2>3. su \in Seq(Text) /\ s \o Append(u, x) = Append(su, x)
    BY <2>1
  <2> HIDE DEF su
  <2>4. Told(Append(su, x)) = Command(Told(su), x)
    BY <2>1, <2>3, ToldSteps
  <2>5. Told(s \o q(k + 1)) = v[k + 1]
    BY <2>1, <2>2, <2>3, <2>4
  <2>6. k + 1 \in 0 .. n
    BY <1>1
  <2> QED
    BY <2>5, <2>6
<1>4. n \in S
  <2> HIDE DEF S
  <2>1. 0 .. n \subseteq S
    BY <1>1, <1>2, <1>3, CountUp
  <2> QED
    BY <1>1, <2>1
<1>5. Told(s \o t) = v[Len(t)]
  BY <1>1, <1>4
<1> QED
  BY <1>5, ConcatProperties

-----------------------------------------------------------------------------
(* What each command says.                                                 *)

LEMMA CommandIs ==
  ASSUME NEW a, NEW letter \in Symbols, letter # ":", NEW body \in Keys
  PROVE  /\ Command(a, <<letter, ":">> \o body) = ApplyCommand(a, letter, body)
         /\ <<letter, ":">> \o body \in Text
<1> DEFINE u == <<letter>>
           cmd == u \o <<":">> \o body
<1>1. body \in Seq(Symbols) /\ body # <<>> /\ ":" \in Symbols
  BY DEF Keys, Text, Symbols
<1>2. /\ u \in Seq(Symbols) /\ u # <<>> /\ Free(u, ":") /\ <<letter, ":">> \in Seq(Symbols)
      /\ <<letter, ":">> = u \o <<":">>
  BY <1>1, OneOrTwo DEF Free
<1>3. SplitOnce(cmd, ":") = <<u, body>>
  <2> HIDE DEF u
  <2> QED
    BY <1>1, <1>2, SplitAtFirst
<1>4. cmd[1] = letter /\ cmd \in Seq(Symbols)
  BY <1>1, <1>2
<1> HIDE DEF u, cmd
<1> DEFINE r == <<u, body>>
<1>5. Len(r) = 2 /\ r[1] = u /\ r[2] = body
  OBVIOUS
<1> HIDE DEF r
<1>6. Command(a, cmd) = ApplyCommand(a, cmd[1], r[2])
  <2>1. SplitOnce(cmd, ":") = r
    BY <1>3 DEF r
  <2>2. ~(Len(r) < 2 \/ r[1] = <<>>)
    BY <1>2, <1>5
  <2> QED
    BY <2>1, <2>2, Zenon DEF Command
<1> QED
  BY <1>2, <1>4, <1>5, <1>6 DEF cmd, Text

LEMMA PairIsSplit ==
  ASSUME NEW x \in Text, Without(":", x), NEW y \in Keys
  PROVE  SplitOnce(Pair(x, y), ":") = <<x, y>> /\ Pair(x, y) \in Keys
<1>1. x \in Seq(Symbols) /\ y \in Seq(Symbols) /\ y # <<>> /\ ":" \in Symbols
  BY DEF Keys, Text, Symbols
<1>2. Free(x, ":")
  BY DEF Without, Free
<1>3. SplitOnce(Pair(x, y), ":") = <<x, y>>
  BY <1>1, <1>2, SplitAtFirst DEF Pair
<1>4. Pair(x, y) \in Seq(Symbols) /\ Pair(x, y) # <<>>
  BY <1>1 DEF Pair
<1> QED
  BY <1>3, <1>4 DEF Keys, Text

\* A header manipulation that adds.
LEMMA SaysHeader ==
  ASSUME NEW a, NEW h \in HeaderMods, h.action = "Add", Len(h.values) = 1,
         Without(":", h.header), h.values[1] # <<>>
  PROVE  LET cmd == <<"a", ":">> \o Pair(h.header, h.values[1])
         IN  /\ Command(a, cmd) = [a EXCEPT !.headers = Append(@, h)] /\ cmd \in Text
             /\ HeaderCommands(h) = <<cmd>>
<1> DEFINE x == h.header
           y == h.values[1]
           cmd == <<"a", ":">> \o Pair(x, y)
           r == <<x, y>>
<1>1. x \in Text /\ h.values \in Seq(Text)
  BY DEF HeaderMods
<1>2. y \in Keys /\ h.values = <<y>>
  BY <1>1 DEF Keys
<1>3. h = HeaderMod("Add", x, <<y>>)
  BY <1>2 DEF HeaderMods, HeaderMod
<1>4. HeaderCommands(h) = <<cmd>>
  <2>1. HeaderCommands(h) = [i \in DOMAIN h.values |-> <<"a", ":">> \o Pair(x, h.values[i])]
    BY DEF HeaderCommands
  <2>2. DOMAIN h.values = 1 .. 1
    BY <1>1
  <2> QED
    BY <2>1, <2>2
<1> HIDE DEF x, y
<1>5. SplitOnce(Pair(x, y), ":") = r /\ Pair(x, y) \in Keys
  BY <1>1, <1>2, PairIsSplit DEF x
<1>6. Len(r) = 2 /\ r[1] = x /\ r[2] = y
  OBVIOUS
<1>7. "a" \in Symbols /\ "a" # ":"
  BY DEF Symbols
<1>8. Command(a, cmd) = ApplyCommand(a, "a", Pair(x, y)) /\ cmd \in Text
  BY <1>5, <1>7, CommandIs
<1> HIDE DEF r, cmd
<1>9. ApplyCommand(a, "a", Pair(x, y))
      = [a EXCEPT !.headers = Append(@, HeaderMod("Add", x, <<y>>))]
  BY <1>5, <1>6 DEF ApplyCommand
<1> QED
  BY <1>3, <1>4, <1>8, <1>9 DEF x, y, cmd

\* A user name and its password.
LEMMA SaysAuth ==
  ASSUME NEW a, NEW b \in Auths, Without(":", b.username), b.password # <<>>
  PROVE  LET cmd == <<"b", ":">> \o Pair(b.username, b.password)
         IN  Command(a, cmd) = [a EXCEPT !.basic = Append(@, b)] /\ cmd \in Text
<1> DEFINE x == b.username
           y == b.password
           cmd == <<"b", ":">> \o Pair(x, y)
           r == <<x, y>>
<1>1. x \in Text /\ y \in Keys /\ b = [username |-> x, password |-> y]
  BY DEF Auths, Keys
<1> HIDE DEF x, y
<1>2. SplitOnce(Pair(x, y), ":") = r /\ Pair(x, y) \in Keys
  BY <1>1, PairIsSplit DEF x
<1>3. Len(r) = 2 /\ r[1] = x /\ r[2] = y
  OBVIOUS
<1>4. "b" \in Symbols /\ "b" # ":"
  BY DEF Symbols
<1>5. Command(a, cmd) = ApplyCommand(a, "b", Pair(x, y)) /\ cmd \in Text
  BY <1>2, <1>4, CommandIs
<1> HIDE DEF r, cmd
<1>6. ApplyCommand(a, "b", Pair(x, y))
      = [a EXCEPT !.basic = Append(@, [username |-> x, password |-> y])]
  BY <1>2, <1>3 DEF ApplyCommand
<1> QED
  BY <1>1, <1>5, <1>6 DEF x, y, cmd

\* A key.
LEMMA SaysKey ==
  ASSUME NEW a, NEW key \in Keys
  PROVE  LET cmd == <<"k", ":">> \o key
         IN  Command(a, cmd) = [a EXCEPT !.bearer = Append(@, key)] /\ cmd \in Text
<1>1. "k" \in Symbols /\ "k" # ":"
  BY DEF Symbols
<1>2. ApplyCommand(a, "k", key) = [a EXCEPT !.bearer = Append(@, key)]
  BY DEF ApplyCommand
<1> QED
  BY <1>1, <1>2, CommandIs

\* A white list.
LEMMA SaysWhiteList ==
  ASSUME NEW a, NEW parts \in Seq(Text), parts # <<>>,
         \A i \in DOMAIN parts : Without(",", parts[i])
  PROVE  LET cmd == <<"w", ":">> \o JoinString(parts, ",")
         IN  Command(a, cmd) = [a EXCEPT !.white = @ \o parts] /\ cmd \in Text
<1> DEFINE text == JoinString(parts, ",")
<1>1. "w" \in Symbols /\ "w" # ":" /\ "," \in Symbols
  BY DEF Symbols
<1>2. SplitAll(text, ",") = parts /\ text \in Keys
  BY <1>1, JoinedIsSplit DEF Keys
<1> HIDE DEF text
<1>3. ApplyCommand(a, "w", text) = [a EXCEPT !.white = @ \o parts]
  BY <1>2 DEF ApplyCommand
<1> QED
  BY <1>1, <1>2, <1>3, CommandIs DEF text

LEMMA ThreeSymbols ==
  ASSUME NEW S, NEW a \in S, NEW b \in S, NEW c \in S
  PROVE  <<a, b>> \o <<c>> = <<a, b, c>>
<1> DEFINE s == <<a, b>>
           u == <<a, b, c>>
           t == Append(s, c)
<1>1. s \in Seq(S) /\ Len(s) = 2 /\ s[1] = a /\ s[2] = b
  OBVIOUS
<1>2. u \in Seq(S) /\ Len(u) = 3 /\ u[1] = a /\ u[2] = b /\ u[3] = c
  OBVIOUS
<1>3. s \o <<c>> = t
  OBVIOUS
<1>4. ASSUME NEW q \in Seq(S), Len(q) = 2
      PROVE  LET r == Append(q, c)
             IN  r \in Seq(S) /\ Len(r) = 3 /\ r[1] = q[1] /\ r[2] = q[2] /\ r[3] = c
  <2> DEFINE r == Append(q, c)
             n == Len(q)
  <2>1. r \in Seq(S) /\ Len(r) = n + 1 /\ (\A i \in 1 .. n : r[i] = q[i]) /\ r[n + 1] = c
    BY AppendProperties
  <2>2. n = 2
    BY <1>4
  <2> HIDE DEF r, n
  <2>3. n + 1 = 3 /\ 1 \in 1 .. n /\ 2 \in 1 .. n
    BY <2>2
  <2> QED
    BY <2>1, <2>3 DEF r
<1> HIDE DEF s, u
<1>5. t \in Seq(S) /\ Len(t) = 3 /\ t[1] = a /\ t[2] = b /\ t[3] = c
  BY <1>1, <1>4
<1> HIDE DEF t
<1>6. t = u
  <2>1. \A i \in 1 .. Len(t) : t[i] = u[i]
    BY <1>2, <1>5
  <2> QED BY <1>2, <1>5, <2>1, SeqEqual
<1> QED
  BY <1>3, <1>6 DEF s, u

\* An option.
LEMMA SaysOption ==
  ASSUME NEW a, NEW option \in Options
  PROVE  LET cmd == <<"x", ":", option>>
         IN  Command(a, cmd) = [a EXCEPT !.options = @ \cup {option}] /\ cmd \in Text
<1> DEFINE body == <<option>>
           r == <<body>>
<1>1. "x" \in Symbols /\ "x" # ":" /\ option \in Symbols /\ option # ":"
  BY DEF Symbols, Options
<1>2. body \in Keys /\ Free(body, ":") /\ body # <<>> /\ Len(body) = 1 /\ body[1] = option
  BY <1>1, OneOrTwo DEF Keys, Text, Free
<1>3. <<"x", ":">> \o body = <<"x", ":", option>>
  <2>1. ":" \in Symbols
    BY DEF Symbols
  <2> QED
    BY <1>1, <2>1, ThreeSymbols
<1> HIDE DEF body
<1>4. SplitOnce(body, ":") = r
  BY <1>2, SplitNothing DEF Keys, Text
<1>5. Len(r) = 1 /\ r[1] = body
  OBVIOUS
<1> HIDE DEF r
<1>6. body[1] \in Options
  BY <1>2
<1>7. ApplyCommand(a, "x", body) = [a EXCEPT !.options = @ \cup {body[1]}]
  <2>1. body # <<"localServerTls">>
    <3>1. option # "localServerTls"
      BY DEF Options
    <3> QED
      BY <1>2, <3>1
  <2> QED
    BY <1>2, <1>4, <1>5, <1>6, <2>1 DEF ApplyCommand
<1>8. Command(a, <<"x", ":">> \o body) = ApplyCommand(a, "x", body) /\ <<"x", ":">> \o body \in Text
  BY <1>1, <1>2, CommandIs
<1> QED
  BY <1>2, <1>3, <1>7, <1>8

\* The name for the local server's certificate.
LEMMA SaysLocalServerTls ==
  ASSUME NEW a, NEW name \in Keys
  PROVE  LET cmd == <<"x", ":", "localServerTls", ":">> \o name
         IN  Command(a, cmd) = [a EXCEPT !.localServerTls = name] /\ cmd \in Text
<1> DEFINE u == <<"localServerTls">>
           body == Pair(u, name)
           r == <<u, name>>
<1>1. "x" \in Symbols /\ "x" # ":" /\ "localServerTls" \in Symbols /\ "localServerTls" # ":"
      /\ ":" \in Symbols
  BY DEF Symbols
<1>2. u \in Text /\ Without(":", u) /\ Len(u) = 1 /\ u[1] = "localServerTls"
  BY <1>1, OneOrTwo DEF Text, Without
<1>3. <<"x", ":">> \o body = <<"x", ":", "localServerTls", ":">> \o name
  <2>1. name \in Seq(Symbols)
    BY DEF Keys, Text
  <2> QED
    BY <1>1, <2>1 DEF Pair
<1>4. u = <<"localServerTls">>
  OBVIOUS
<1> HIDE DEF u
<1>5. SplitOnce(body, ":") = r /\ body \in Keys
  BY <1>2, PairIsSplit
<1>6. Len(r) = 2 /\ r[1] = u /\ r[2] = name
  OBVIOUS
<1> HIDE DEF r, body
<1>7. u[1] \notin Options
  BY <1>2 DEF Options
<1>8. ApplyCommand(a, "x", body) = [a EXCEPT !.localServerTls = name]
  BY <1>4, <1>5, <1>6, <1>7 DEF ApplyCommand
<1>9. Command(a, <<"x", ":">> \o body) = ApplyCommand(a, "x", body) /\ <<"x", ":">> \o body \in Text
  BY <1>1, <1>5, CommandIs
<1> QED
  BY <1>3, <1>8, <1>9

-----------------------------------------------------------------------------
(* The arguments come back.                                                *)

\* What has been told, segment by segment.
Said(white, basic, bearer, headers, options, localServerTls) ==
  [headers |-> headers, basic |-> basic, bearer |-> bearer, white |-> white,
   options |-> options, localServerTls |-> localServerTls]

LEMMA SaidWhite ==
  ASSUME NEW a \in Args, Sayable(a)
  PROVE  /\ WhiteList(a) \in Seq(Text)
         /\ Told(WhiteList(a)) = Said(a.white, <<>>, <<>>, <<>>, {}, <<>>)
<1> DEFINE W == a.white
           cmd == <<"w", ":">> \o JoinString(W, ",")
<1>1. W \in Seq(Text) /\ <<>> \in Text /\ <<>> \in Seq(Text)
  BY ArgumentTypes, EmptySeq DEF Text
<1>2. CASE W = <<>>
  <2>1. WhiteList(a) = <<>>
    BY <1>2 DEF WhiteList
  <2>2. Told(<<>>) = NoArguments
    BY <1>1, ToldSteps
  <2> QED
    BY <1>1, <1>2, <2>1, <2>2 DEF NoArguments, Said
<1>3. CASE W # <<>>
  <2> DEFINE one == <<cmd>>
  <2>1. WhiteList(a) = one
    BY <1>3 DEF WhiteList
  <2>2. \A i \in DOMAIN W : Without(",", W[i])
    BY DEF Sayable
  <2>3. /\ Command(NoArguments, cmd) = [NoArguments EXCEPT !.white = @ \o W]
        /\ cmd \in Text
    BY <1>1, <1>3, <2>2, SaysWhiteList
  <2> HIDE DEF cmd
  <2>4. one = Append(<<>>, cmd) /\ one \in Seq(Text)
    BY <2>3, OneOrTwo
  <2> HIDE DEF one
  <2>5. Told(one) = Command(NoArguments, cmd)
    BY <1>1, <2>3, <2>4, ToldSteps
  <2>6. <<>> \o W = W
    BY <1>1, WholePrefix
  <2>7. [NoArguments EXCEPT !.white = @ \o W] = Said(W, <<>>, <<>>, <<>>, {}, <<>>)
    <3> DEFINE e == <<>>
               none == {}
    <3>1. NoArguments = Said(e, e, e, e, none, e)
      BY DEF NoArguments, Said
    <3>2. e \o W = W
      BY <2>6
    <3> HIDE DEF e, none
    <3>3. [NoArguments EXCEPT !.white = @ \o W] = Said(W, e, e, e, none, e)
      BY <3>1, <3>2 DEF Said
    <3> QED
      BY <3>3 DEF e, none
  <2> QED
    BY <2>1, <2>3, <2>4, <2>5, <2>7
<1> QED
  BY <1>2, <1>3

LEMMA SaidBasic ==
  ASSUME NEW a \in Args, Sayable(a), NEW s \in Seq(Text), NEW w, NEW k, NEW h, NEW o, NEW l,
         Told(s) = Said(w, <<>>, k, h, o, l)
  PROVE  LET t == [i \in DOMAIN a.basic |->
                     <<"b", ":">> \o Pair(a.basic[i].username, a.basic[i].password)]
         IN  /\ s \o t \in Seq(Text)
             /\ Told(s \o t) = Said(w, a.basic, k, h, o, l)
<1> DEFINE B == a.basic
           n == Len(B)
           cmd(i) == <<"b", ":">> \o Pair(B[i].username, B[i].password)
           t == [i \in DOMAIN B |-> cmd(i)]
           v == [j \in 0 .. n |-> Said(w, SubSeq(B, 1, j), k, h, o, l)]
<1>1. B \in Seq(Auths) /\ n \in Nat /\ DOMAIN B = 1 .. n
  BY ArgumentTypes
<1>2. ASSUME NEW i \in 1 .. n, NEW x
      PROVE  Command(x, cmd(i)) = [x EXCEPT !.basic = Append(@, B[i])] /\ cmd(i) \in Text
  <2>1. B[i] \in Auths
    BY <1>1
  <2>2. Without(":", B[i].username) /\ B[i].password # <<>>
    BY <1>1 DEF Sayable
  <2> QED
    BY <2>1, <2>2, SaysAuth
<1> HIDE DEF cmd
<1>3. t \in Seq(Text) /\ Len(t) = n /\ \A i \in 1 .. n : t[i] = cmd(i)
  BY <1>1, <1>2
<1> HIDE DEF t
<1>4. v[0] = Told(s) /\ v[n] = Said(w, B, k, h, o, l)
  <2>1. SubSeq(B, 1, 0) = <<>> /\ SubSeq(B, 1, n) = B
    BY <1>1, WholePrefix
  <2>2. 0 \in 0 .. n /\ n \in 0 .. n
    BY <1>1
  <2>3. v[0] = Said(w, SubSeq(B, 1, 0), k, h, o, l) /\ v[n] = Said(w, SubSeq(B, 1, n), k, h, o, l)
    BY <2>2, Zenon
  <2> QED
    BY <2>1, <2>3, Zenon
<1>5. ASSUME NEW j \in 0 .. n - 1
      PROVE  v[j + 1] = Command(v[j], t[j + 1])
  <2> DEFINE q == SubSeq(B, 1, j)
             b == B[j + 1]
             x == Said(w, q, k, h, o, l)
  <2>1. SubSeq(B, 1, j + 1) = Append(q, b)
    BY <1>1, PrefixGrows
  <2>2. j + 1 \in 1 .. n /\ j + 1 \in 0 .. n /\ j \in 0 .. n
    BY <1>1
  <2>3. v[j] = x /\ v[j + 1] = Said(w, Append(q, b), k, h, o, l)
    BY <2>1, <2>2
  <2>4. Command(x, t[j + 1]) = [x EXCEPT !.basic = Append(@, b)]
    BY <1>2, <1>3, <2>2
  <2> HIDE DEF q, b
  <2>5. [x EXCEPT !.basic = Append(@, b)] = Said(w, Append(q, b), k, h, o, l)
    <3> DEFINE y == Append(q, b)
    <3>1. x.basic = q
      BY DEF Said
    <3> HIDE DEF y
    <3>2. [x EXCEPT !.basic = y] = Said(w, y, k, h, o, l)
      BY DEF Said
    <3> HIDE DEF x
    <3> QED
      BY <3>1, <3>2, Zenon DEF y
  <2> QED
    BY <2>3, <2>4, <2>5
<1> HIDE DEF v
<1>6. Told(s \o t) = v[n] /\ s \o t \in Seq(Text)
  BY <1>3, <1>4, <1>5, ToldSegment
<1> QED
  BY <1>4, <1>6 DEF t, cmd

LEMMA SaidBearer ==
  ASSUME NEW a \in Args, Sayable(a), NEW s \in Seq(Text), NEW w, NEW b, NEW h, NEW o, NEW l,
         Told(s) = Said(w, b, <<>>, h, o, l)
  PROVE  LET t == [i \in DOMAIN a.bearer |-> <<"k", ":">> \o a.bearer[i]]
         IN  /\ s \o t \in Seq(Text)
             /\ Told(s \o t) = Said(w, b, a.bearer, h, o, l)
<1> DEFINE B == a.bearer
           n == Len(B)
           cmd(i) == <<"k", ":">> \o B[i]
           t == [i \in DOMAIN B |-> cmd(i)]
           v == [j \in 0 .. n |-> Said(w, b, SubSeq(B, 1, j), h, o, l)]
<1>0. \A i \in DOMAIN B : B[i] # <<>>
  BY Zenon DEF Sayable
<1>1. /\ B \in Seq(Text) /\ n \in Nat /\ DOMAIN B = 1 .. n
      /\ \A i \in 1 .. n : B[i] # <<>>
  BY <1>0, ArgumentTypes
<1>2. ASSUME NEW i \in 1 .. n, NEW x
      PROVE  Command(x, cmd(i)) = [x EXCEPT !.bearer = Append(@, B[i])] /\ cmd(i) \in Text
  <2>1. B[i] \in Keys
    BY <1>1 DEF Keys
  <2> QED
    BY <2>1, SaysKey
<1> HIDE DEF cmd
<1>3. t \in Seq(Text) /\ Len(t) = n /\ \A i \in 1 .. n : t[i] = cmd(i)
  BY <1>1, <1>2
<1> HIDE DEF t
<1>4. v[0] = Told(s) /\ v[n] = Said(w, b, B, h, o, l)
  <2>1. SubSeq(B, 1, 0) = <<>> /\ SubSeq(B, 1, n) = B
    BY <1>1, WholePrefix
  <2>2. 0 \in 0 .. n /\ n \in 0 .. n
    BY <1>1
  <2>3. v[0] = Said(w, b, SubSeq(B, 1, 0), h, o, l) /\ v[n] = Said(w, b, SubSeq(B, 1, n), h, o, l)
    BY <2>2, Zenon
  <2> QED
    BY <2>1, <2>3, Zenon
<1>5. ASSUME NEW j \in 0 .. n - 1
      PROVE  v[j + 1] = Command(v[j], t[j + 1])
  <2> DEFINE q == SubSeq(B, 1, j)
             c == B[j + 1]
             x == Said(w, b, q, h, o, l)
  <2>1. SubSeq(B, 1, j + 1) = Append(q, c)
    BY <1>1, PrefixGrows
  <2>2. j + 1 \in 1 .. n /\ j + 1 \in 0 .. n /\ j \in 0 .. n
    BY <1>1
  <2>3. v[j] = x /\ v[j + 1] = Said(w, b, Append(q, c), h, o, l)
    BY <2>1, <2>2
  <2>4. Command(x, t[j + 1]) = [x EXCEPT !.bearer = Append(@, c)]
    BY <1>2, <1>3, <2>2
  <2> HIDE DEF q, c
  <2>5. [x EXCEPT !.bearer = Append(@, c)] = Said(w, b, Append(q, c), h, o, l)
    <3> DEFINE y == Append(q, c)
    <3>1. x.bearer = q
      BY DEF Said
    <3> HIDE DEF y
    <3>2. [x EXCEPT !.bearer = y] = Said(w, b, y, h, o, l)
      BY DEF Said
    <3> HIDE DEF x
    <3> QED
      BY <3>1, <3>2, Zenon DEF y
  <2> QED
    BY <2>3, <2>4, <2>5
<1> HIDE DEF v
<1>6. Told(s \o t) = v[n] /\ s \o t \in Seq(Text)
  BY <1>3, <1>4, <1>5, ToldSegment
<1> QED
  BY <1>4, <1>6 DEF t, cmd

\* A sequence of sequences of one element.
LEMMA FlattenOnes ==
  ASSUME NEW S, NEW c \in Seq(S), NEW seqs, seqs = [i \in 1 .. Len(c) |-> <<c[i]>>]
  PROVE  FlattenSeq(seqs) = c
<1> DEFINE n == Len(c)
           Flattens(f) == f = [i \in 1 .. n |-> IF i = 1 THEN seqs[i] ELSE f[i - 1] \o seqs[i]]
           g == [i \in 1 .. n |-> SubSeq(c, 1, i)]
           f == CHOOSE f : Flattens(f)
<1>1. n \in Nat /\ seqs \in Seq(Seq(S)) /\ Len(seqs) = n /\ \A i \in 1 .. n : seqs[i] = <<c[i]>>
  <2>1. n \in Nat /\ \A i \in 1 .. n : c[i] \in S
    OBVIOUS
  <2>2. \A i \in 1 .. n : <<c[i]>> \in Seq(S)
    BY <2>1, OneOrTwo
  <2> HIDE DEF n
  <2>3. seqs = [i \in 1 .. n |-> <<c[i]>>]
    BY DEF n
  <2> QED
    BY <2>1, <2>2, <2>3
<1>2. CASE n = 0
  <2>1. seqs = <<>> /\ c = <<>>
    BY <1>1, <1>2, EmptySeq
  <2>2. Len(seqs) = 0
    BY <1>1, <1>2
  <2> QED
    BY <2>1, <2>2 DEF FlattenSeq
<1>3. CASE n # 0
  <2>1. FlattenSeq(seqs) = f[n]
    BY <1>1, <1>3, Zenon DEF FlattenSeq
  <2>2. \A k \in 0 .. n - 1 : SubSeq(c, 1, k + 1) = Append(SubSeq(c, 1, k), c[k + 1])
    BY PrefixGrows
  <2>3. \A k \in 0 .. n - 1 : SubSeq(c, 1, k) \in Seq(S) /\ c[k + 1] \in S
    BY PrefixGrows
  <2>4. SubSeq(c, 1, 0) = <<>> /\ SubSeq(c, 1, n) = c
    BY WholePrefix
  <2> HIDE DEF n
  <2>5. ASSUME NEW i \in 1 .. n
        PROVE  g[i] = IF i = 1 THEN seqs[i] ELSE g[i - 1] \o seqs[i]
    <3> DEFINE q == SubSeq(c, 1, i - 1)
    <3>1. i - 1 \in 0 .. n - 1 /\ i - 1 + 1 = i
      BY <1>1
    <3>2. q \in Seq(S) /\ c[i] \in S /\ g[i] = Append(q, c[i]) /\ seqs[i] = <<c[i]>>
      BY <1>1, <2>2, <2>3, <3>1
    <3>3. i = 1 => q = <<>>
      BY <2>4
    <3>4. i # 1 => g[i - 1] = q
      BY <1>1
    <3> HIDE DEF q, g
    <3>5. Append(q, c[i]) = q \o <<c[i]>>
      BY <3>2, AppendIsConcat
    <3>6. i = 1 => Append(q, c[i]) = <<c[i]>>
      BY <3>3
    <3> QED
      BY <3>2, <3>4, <3>5, <3>6
  <2>6. Flattens(g)
    BY <2>5, Zenon
  <2>7. Flattens(f)
    BY <2>6, Zenon
  <2> HIDE DEF f
  <2>8. \A i \in 1 .. n : f[i] = IF i = 1 THEN seqs[i] ELSE f[i - 1] \o seqs[i]
    BY <2>7, Zenon
  <2> DEFINE T == {k \in 0 .. n : k = 0 \/ f[k] = g[k]}
  <2> HIDE DEF g, Flattens
  <2>9. 0 \in T
    BY <1>1
  <2>10. ASSUME NEW k \in 0 .. n - 1, k \in T PROVE k + 1 \in T
    <3> DEFINE i == k + 1
    <3>1. i \in 1 .. n /\ i - 1 = k /\ i \in 0 .. n /\ (i = 1 <=> k = 0)
      BY <1>1
    <3>2. k = 0 \/ f[k] = g[k]
      BY <2>10
    <3> HIDE DEF i, T
    <3>3. f[i] = g[i]
      <4>1. CASE i = 1
        BY <2>5, <2>8, <3>1, <4>1
      <4>2. CASE i # 1
        <5>1. f[i - 1] = g[i - 1]
          BY <3>1, <3>2, <4>2
        <5>2. f[i] = f[i - 1] \o seqs[i] /\ g[i] = g[i - 1] \o seqs[i]
          BY <2>5, <2>8, <3>1, <4>2
        <5> QED
          BY <5>1, <5>2, Zenon
      <4> QED
        BY <4>1, <4>2
    <3> QED
      BY <3>1, <3>3 DEF T, i
  <2>11. n \in T
    <3> HIDE DEF T
    <3>1. 0 .. n \subseteq T
      BY <1>1, <2>9, <2>10, CountUp
    <3> QED
      BY <1>1, <3>1
  <2>12. f[n] = g[n] /\ g[n] = c
    BY <1>1, <1>3, <2>4, <2>11 DEF g
  <2> QED
    BY <2>1, <2>12 DEF f, n
<1> QED
  BY <1>2, <1>3

LEMMA SaidHeaders ==
  ASSUME NEW a \in Args, Sayable(a), NEW s \in Seq(Text), NEW w, NEW b, NEW k, NEW o, NEW l,
         Told(s) = Said(w, b, k, <<>>, o, l)
  PROVE  LET t == FlattenSeq([i \in DOMAIN a.headers |-> HeaderCommands(a.headers[i])])
         IN  /\ s \o t \in Seq(Text)
             /\ Told(s \o t) = Said(w, b, k, a.headers, o, l)
<1> DEFINE B == a.headers
           n == Len(B)
           cmd(i) == <<"a", ":">> \o Pair(B[i].header, B[i].values[1])
           t == [i \in DOMAIN B |-> cmd(i)]
           v == [j \in 0 .. n |-> Said(w, b, k, SubSeq(B, 1, j), o, l)]
<1>1. B \in Seq(HeaderMods) /\ n \in Nat /\ DOMAIN B = 1 .. n
  BY ArgumentTypes
<1>2. ASSUME NEW i \in 1 .. n, NEW x
      PROVE  Command(x, cmd(i)) = [x EXCEPT !.headers = Append(@, B[i])] /\ cmd(i) \in Text
             /\ HeaderCommands(B[i]) = <<cmd(i)>>
  <2>1. B[i] \in HeaderMods
    BY <1>1
  <2>2. /\ B[i].action = "Add" /\ Len(B[i].values) = 1
        /\ Without(":", B[i].header) /\ B[i].values[1] # <<>>
    BY <1>1 DEF Sayable
  <2> QED
    BY <2>1, <2>2, SaysHeader
<1> HIDE DEF cmd
<1>3. t \in Seq(Text) /\ Len(t) = n /\ \A i \in 1 .. n : t[i] = cmd(i)
  BY <1>1, <1>2
<1> HIDE DEF t
<1>4. v[0] = Told(s) /\ v[n] = Said(w, b, k, B, o, l)
  <2>1. SubSeq(B, 1, 0) = <<>> /\ SubSeq(B, 1, n) = B
    BY <1>1, WholePrefix
  <2>2. 0 \in 0 .. n /\ n \in 0 .. n
    BY <1>1
  <2>3. v[0] = Said(w, b, k, SubSeq(B, 1, 0), o, l) /\ v[n] = Said(w, b, k, SubSeq(B, 1, n), o, l)
    BY <2>2, Zenon
  <2> QED
    BY <2>1, <2>3, Zenon
<1>5. ASSUME NEW j \in 0 .. n - 1
      PROVE  v[j + 1] = Command(v[j], t[j + 1])
  <2> DEFINE q == SubSeq(B, 1, j)
             c == B[j + 1]
             x == Said(w, b, k, q, o, l)
  <2>1. SubSeq(B, 1, j + 1) = Append(q, c)
    BY <1>1, PrefixGrows
  <2>2. j + 1 \in 1 .. n /\ j + 1 \in 0 .. n /\ j \in 0 .. n
    BY <1>1
  <2>3. v[j] = x /\ v[j + 1] = Said(w, b, k, Append(q, c), o, l)
    BY <2>1, <2>2
  <2>4. Command(x, t[j + 1]) = [x EXCEPT !.headers = Append(@, c)]
    BY <1>2, <1>3, <2>2
  <2> HIDE DEF q, c
  <2>5. [x EXCEPT !.headers = Append(@, c)] = Said(w, b, k, Append(q, c), o, l)
    <3> DEFINE y == Append(q, c)
    <3>1. x.headers = q
      BY DEF Said
    <3> HIDE DEF y
    <3>2. [x EXCEPT !.headers = y] = Said(w, b, k, y, o, l)
      BY DEF Said
    <3> HIDE DEF x
    <3> QED
      BY <3>1, <3>2, Zenon DEF y
  <2> QED
    BY <2>3, <2>4, <2>5
<1> HIDE DEF v
<1>6. Told(s \o t) = v[n] /\ s \o t \in Seq(Text)
  BY <1>3, <1>4, <1>5, ToldSegment
<1>7. FlattenSeq([i \in DOMAIN B |-> HeaderCommands(B[i])]) = t
  <2> DEFINE seqs == [i \in DOMAIN B |-> HeaderCommands(B[i])]
  <2>1. seqs = [i \in 1 .. Len(t) |-> <<t[i]>>]
    BY <1>1, <1>2, <1>3
  <2> HIDE DEF seqs
  <2> QED
    BY <1>3, <2>1, FlattenOnes DEF seqs
<1> QED
  BY <1>4, <1>6, <1>7

\* The options, in whatever order they are put.
LEMMA OptionsInOrder ==
  ASSUME NEW S \in SUBSET Options
  PROVE  LET n == Cardinality(S)
         IN  /\ n \in Nat /\ SetToSeq(S) \in [1 .. n -> S]
             /\ S = {SetToSeq(S)[i] : i \in 1 .. n}
<1> DEFINE n == Cardinality(S)
           f == SetToSeq(S)
<1>1. IsFiniteSet(S)
  <2>1. IsFiniteSet({}) /\ Options = {"xff"} \cup {"https"} \cup {"fullurl"} \cup {"passpreflight"}
                                       \cup {"noreverseproxy"}
    BY FS_EmptySet DEF Options
  <2>2. IsFiniteSet({"xff"}) /\ \A T, x : IsFiniteSet(T) => IsFiniteSet(T \cup {x})
    BY FS_Singleton, FS_AddElement
  <2>3. IsFiniteSet(Options)
    BY <2>1, <2>2
  <2> QED
    BY <2>3, FS_Subset
<1>2. n \in Nat /\ ExistsBijection(1 .. n, S)
  BY <1>1, FS_CardinalityType
<1>3. f \in [1 .. n -> S] /\ IsInjective(f)
  <2>1. \E g \in [1 .. n -> S] : IsInjective(g)
    BY <1>2 DEF ExistsBijection, Bijection, Injection
  <2> QED
    BY <2>1, Zenon DEF SetToSeq
<1> HIDE DEF f
<1>4. f \in Surjection(1 .. n, S)
  <2>1. Cardinality(1 .. n) = n
    BY <1>2, FS_Interval
  <2>2. f \in Injection(1 .. n, S)
    BY <1>3 DEF Injection
  <2> QED
    BY <1>1, <2>1, <2>2, FS_Injection
<1>5. S = {f[i] : i \in 1 .. n}
  BY <1>3, <1>4 DEF Surjection
<1> QED
  BY <1>2, <1>3, <1>5 DEF f

LEMMA SaidOptions ==
  ASSUME NEW a \in Args, NEW s \in Seq(Text), NEW w, NEW b, NEW k, NEW h, NEW l,
         Told(s) = Said(w, b, k, h, {}, l)
  PROVE  LET t == [i \in 1 .. Cardinality(a.options) |-> <<"x", ":", SetToSeq(a.options)[i]>>]
         IN  /\ s \o t \in Seq(Text)
             /\ Told(s \o t) = Said(w, b, k, h, a.options, l)
<1> DEFINE O == a.options
           f == SetToSeq(O)
           n == Cardinality(O)
           cmd(i) == <<"x", ":", f[i]>>
           t == [i \in 1 .. n |-> cmd(i)]
           set(j) == {f[i] : i \in 1 .. j}
           v == [j \in 0 .. n |-> Said(w, b, k, h, set(j), l)]
<1>1. n \in Nat /\ f \in [1 .. n -> O] /\ O = {f[i] : i \in 1 .. n} /\ O \in SUBSET Options
  BY ArgumentTypes, OptionsInOrder
<1> HIDE DEF n, f, O
<1>2. ASSUME NEW i \in 1 .. n, NEW x
      PROVE  Command(x, cmd(i)) = [x EXCEPT !.options = @ \cup {f[i]}] /\ cmd(i) \in Text
  <2>1. f[i] \in Options
    BY <1>1
  <2> QED
    BY <2>1, SaysOption
<1> HIDE DEF cmd
<1>3. t \in Seq(Text) /\ Len(t) = n /\ \A i \in 1 .. n : t[i] = cmd(i)
  <2>1. \A i \in 1 .. n : cmd(i) \in Text
    BY <1>2
  <2>2. t \in [1 .. n -> Text]
    BY <2>1
  <2>3. n \in Nat
    BY <1>1
  <2> QED
    BY <2>2, <2>3
<1> HIDE DEF t
<1>4. v[0] = Told(s) /\ v[n] = Said(w, b, k, h, O, l)
  <2>1. set(0) = {} /\ set(n) = O
    BY <1>1
  <2>2. 0 \in 0 .. n /\ n \in 0 .. n
    BY <1>1
  <2> HIDE DEF set
  <2>3. v[0] = Said(w, b, k, h, set(0), l) /\ v[n] = Said(w, b, k, h, set(n), l)
    BY <2>2, Zenon
  <2> QED
    BY <2>1, <2>3, Zenon
<1>5. ASSUME NEW j \in 0 .. n - 1
      PROVE  v[j + 1] = Command(v[j], t[j + 1])
  <2> DEFINE q == set(j)
             c == f[j + 1]
             x == Said(w, b, k, h, q, l)
  <2>1. set(j + 1) = q \cup {c}
    BY <1>1
  <2>2. j + 1 \in 1 .. n /\ j + 1 \in 0 .. n /\ j \in 0 .. n
    BY <1>1
  <2> HIDE DEF set
  <2>3. v[j] = x /\ v[j + 1] = Said(w, b, k, h, q \cup {c}, l)
    BY <2>1, <2>2
  <2>4. Command(x, t[j + 1]) = [x EXCEPT !.options = @ \cup {c}]
    BY <1>2, <1>3, <2>2
  <2> HIDE DEF q, c
  <2>5. [x EXCEPT !.options = @ \cup {c}] = Said(w, b, k, h, q \cup {c}, l)
    <3> DEFINE y == q \cup {c}
    <3>1. x.options = q
      BY DEF Said
    <3> HIDE DEF y
    <3>2. [x EXCEPT !.options = y] = Said(w, b, k, h, y, l)
      BY DEF Said
    <3> HIDE DEF x
    <3> QED
      BY <3>1, <3>2, Zenon DEF y
  <2> QED
    BY <2>3, <2>4, <2>5
<1> HIDE DEF v
<1>6. Told(s \o t) = v[n] /\ s \o t \in Seq(Text)
  BY <1>3, <1>4, <1>5, ToldSegment
<1> QED
  BY <1>4, <1>6 DEF t, cmd, n, f, O

LEMMA SaidLocalServerTls ==
  ASSUME NEW a \in Args, NEW s \in Seq(Text), NEW w, NEW b, NEW k, NEW h, NEW o,
         Told(s) = Said(w, b, k, h, o, <<>>)
  PROVE  LET t == IF a.localServerTls = <<>> THEN <<>>
                  ELSE <<(<<"x", ":", "localServerTls", ":">> \o a.localServerTls)>>
         IN  Told(s \o t) = Said(w, b, k, h, o, a.localServerTls)
<1> DEFINE L == a.localServerTls
           cmd == <<"x", ":", "localServerTls", ":">> \o L
<1>1. CASE L = <<>>
  <2>1. s \o <<>> = s
    BY WholePrefix
  <2> QED
    BY <1>1, <2>1
<1>2. CASE L # <<>>
  <2>1. L \in Keys
    BY <1>2, ArgumentTypes DEF Keys
  <2> DEFINE x == Told(s)
  <2>2. Command(x, cmd) = [x EXCEPT !.localServerTls = L] /\ cmd \in Text
    BY <2>1, SaysLocalServerTls
  <2> HIDE DEF cmd, L
  <2>3. Told(Append(s, cmd)) = Command(x, cmd)
    BY <2>2, ToldSteps
  <2>4. Append(s, cmd) = s \o <<cmd>>
    BY <2>2, AppendIsConcat
  <2> HIDE DEF x
  <2>5. [x EXCEPT !.localServerTls = L] = Said(w, b, k, h, o, L)
    <3> DEFINE e == <<>>
    <3>1. x = Said(w, b, k, h, o, e)
      BY DEF x
    <3> HIDE DEF e
    <3> QED
      BY <3>1 DEF Said
  <2>6. Told(s \o <<cmd>>) = Said(w, b, k, h, o, L)
    BY <2>2, <2>3, <2>4, <2>5
  <2> QED
    BY <1>2, <2>6 DEF cmd, L
<1> QED
  BY <1>1, <1>2

\* All that the commands can say comes back.
LEMMA ArgumentsComeBack ==
  ASSUME NEW a \in Args
  PROVE  ArgumentsSurvive(a)
<1> SUFFICES ASSUME Sayable(a)
             PROVE  SetArguments(a, GetArguments(a)) = [arguments |-> a, raised |-> FALSE]
  BY DEF ArgumentsSurvive
<1> DEFINE s0 == WhiteList(a)
           t1 == [i \in DOMAIN a.basic |->
                    <<"b", ":">> \o Pair(a.basic[i].username, a.basic[i].password)]
           t2 == [i \in DOMAIN a.bearer |-> <<"k", ":">> \o a.bearer[i]]
           t3 == FlattenSeq([i \in DOMAIN a.headers |-> HeaderCommands(a.headers[i])])
           t4 == [i \in 1 .. Cardinality(a.options) |-> <<"x", ":", SetToSeq(a.options)[i]>>]
           t5 == IF a.localServerTls = <<>> THEN <<>>
                 ELSE <<(<<"x", ":", "localServerTls", ":">> \o a.localServerTls)>>
           s1 == s0 \o t1
           s2 == s1 \o t2
           s3 == s2 \o t3
           s4 == s3 \o t4
<1>1. s0 \in Seq(Text) /\ Told(s0) = Said(a.white, <<>>, <<>>, <<>>, {}, <<>>)
  BY SaidWhite
<1>2. s1 \in Seq(Text) /\ Told(s1) = Said(a.white, a.basic, <<>>, <<>>, {}, <<>>)
  <2> HIDE DEF s0
  <2> QED
    BY <1>1, SaidBasic
<1>3. s2 \in Seq(Text) /\ Told(s2) = Said(a.white, a.basic, a.bearer, <<>>, {}, <<>>)
  <2> HIDE DEF s1
  <2> QED
    BY <1>2, SaidBearer
<1>4. s3 \in Seq(Text) /\ Told(s3) = Said(a.white, a.basic, a.bearer, a.headers, {}, <<>>)
  <2> HIDE DEF s2
  <2> QED
    BY <1>3, SaidHeaders
<1>5. s4 \in Seq(Text) /\ Told(s4) = Said(a.white, a.basic, a.bearer, a.headers, a.options, <<>>)
  <2> HIDE DEF s3
  <2> QED
    BY <1>4, SaidOptions
<1>6. Told(s4 \o t5)
      = Said(a.white, a.basic, a.bearer, a.headers, a.options, a.localServerTls)
  <2> HIDE DEF s4
  <2> QED
    BY <1>5, SaidLocalServerTls, SMTT(30)
<1>7. Commands(a) = s4 \o t5
  BY DEF Commands
<1>8. SetArguments(a, GetArguments(a)) = [arguments |-> Told(Commands(a)), raised |-> FALSE]
  BY DEF SetArguments, GetArguments, Told
<1> HIDE DEF s4, t5
<1>9. Said(a.white, a.basic, a.bearer, a.headers, a.options, a.localServerTls) = a
  BY DEF Said, Args
<1> QED
  BY <1>6, <1>7, <1>8, <1>9

-----------------------------------------------------------------------------
(* What the configurations and the tunnels hold.                           *)

ConfigFields == {"server", "token", "force", "autoReconnectInterval", "arguments", "forwardings"}
Servers == {"", "t.pinggy.io:443"}

\* All texts, those of the code by name, as the provers do not know that a literal is one.
Texts == STRING \cup {"", "text", "localhost", "v6", NoHost}
Targets == [schema : Texts, host : Texts, bare : BOOLEAN, port : Nat, found : Nat]

\* A forwarding that has been parsed.
Forwardings ==
  [mode : Types, domain : Texts \ {"ip"}, host : Texts \ {NoHost}, port : Nat \ {0},
   localServerTls : BOOLEAN]

\* A configuration: the server is the default only where nothing was set.
ConfigOK(c) ==
  /\ c = [x \in ConfigFields |-> c[x]]
  /\ c.server \in Servers
  /\ c.arguments \in Args
  /\ c.forwardings \in Seq(Forwardings)

ConfigObject(o) == o = SDKConfig(o.config) /\ ConfigOK(o.config)
TunnelObject(o) ==
  /\ o.kind = "Sdk" /\ DOMAIN o = {"kind", "conf", "own", "user", "state", "permit", "ref"}
  /\ o.conf \in Ids /\ objects[o.conf].kind = "SDKConfig"

\* Every tunnel has been initiated with a configuration.
ClassInv == \A i \in Ids : ConfigObject(objects[i]) \/ TunnelObject(objects[i])

\* What an address and an entry of a list are parsed to.
LEMMA ParsedIsForwarding ==
  ASSUME NEW type, NEW domain \in Texts, NEW to \in Targets
  PROVE  /\ ParseForwarding(type, domain, to) \in Forwardings \cup {Throws}
         /\ ParseSimple(to) \in Forwardings \cup {Throws}
<1>1. PortOf(to) \in Nat /\ HostOf(to) \in Texts \ {NoHost}
  BY DEF Targets, Texts, PortOf, HostOf, Misread, NoHost
<1>2. (to.schema = "https") \in BOOLEAN
  OBVIOUS
<1>3. ASSUME NEW mode \in Types, NEW name \in Texts \ {"ip"}, PortOf(to) # 0
      PROVE  Forwarding(mode, name, to) \in Forwardings
  BY <1>1, <1>2, <1>3 DEF Forwarding, Forwardings
<1>4. ParseForwarding(type, domain, to) \in Forwardings \cup {Throws}
  BY <1>1, <1>3 DEF ParseForwarding, Types
<1>5. ParseSimple(to) \in Forwardings \cup {Throws}
  BY <1>1, <1>3 DEF ParseSimple, Types, Texts
<1> QED
  BY <1>4, <1>5

\* A forwarding is no exception.
LEMMA ForwardingIsGood == \A f \in Forwardings : f # Throws
<1> SUFFICES ASSUME Throws \in Forwardings PROVE FALSE
  OBVIOUS
<1>1. Throws.mode \in Types
  BY DEF Forwardings
<1> QED
  BY <1>1 DEF Throws, Types

LEMMA ParsedIsList ==
  ASSUME NEW entries \in Seq(Entries)
  PROVE  /\ Parsed(entries) \in Seq(Forwardings \cup {Throws})
         /\ Good(Parsed(entries)) => Parsed(entries) \in Seq(Forwardings)
<1>1. /\ Len(entries) \in Nat /\ DOMAIN entries = 1 .. Len(entries)
      /\ \A i \in DOMAIN entries : entries[i] \in Entries
  OBVIOUS
<1>2. \A i \in DOMAIN entries :
        ParseForwarding(entries[i].type, entries[i].domain, entries[i].to)
          \in Forwardings \cup {Throws}
  BY <1>1, ParsedIsForwarding DEF Entries, AddressTexts, Targets, Texts
<1>3. Parsed(entries) \in [1 .. Len(entries) -> Forwardings \cup {Throws}]
  BY <1>1, <1>2 DEF Parsed
<1>4. Parsed(entries) \in Seq(Forwardings \cup {Throws})
  BY <1>1, <1>3
<1>5. ASSUME Good(Parsed(entries)) PROVE Parsed(entries) \in Seq(Forwardings)
  <2>1. Parsed(entries) \in [1 .. Len(entries) -> Forwardings]
    BY <1>3, <1>5 DEF Good
  <2> QED
    BY <1>1, <2>1
<1> QED
  BY <1>4, <1>5

\* SetForwarding gives a list that is parsed, and none with an exception.
LEMMA SetForwardingsIsGood ==
  ASSUME NEW entries \in Seq(Entries)
  PROVE  LET r == SetForwardings(entries)
         IN  /\ r.list \in Seq(Forwardings) /\ r.raised \in BOOLEAN
             /\ r.raised => r.list = <<>>
<1>1. CASE Good(Parsed(entries))
  BY <1>1, ParsedIsList DEF SetForwardings
<1>2. CASE ~Good(Parsed(entries)) /\ ListAsAddress(entries) = Throws
  BY <1>2 DEF SetForwardings
<1>3. CASE ~Good(Parsed(entries)) /\ ListAsAddress(entries) # Throws
  <2>1. Bracketed(entries) # {}
    BY <1>3 DEF ListAsAddress
  <2> DEFINE B == Bracketed(entries)
             k == CHOOSE i \in B : \A j \in B : i <= j
             text == Address("", "text", entries[k].to.port)
  <2>2. B \subseteq Nat /\ B \subseteq DOMAIN entries
    BY DEF Bracketed
  <2>3. k \in B
    <3>1. \E i \in B : \A j \in B : i <= j
      BY <2>1, <2>2, LeastElement
    <3> QED
      BY <3>1
  <2>4. ListAsAddress(entries) = ParseSimple(text)
    BY <1>3 DEF ListAsAddress
  <2>5. entries[k] \in Entries
    BY <2>2, <2>3
  <2> HIDE DEF k
  <2>6. text \in Targets
    BY <2>5 DEF Entries, AddressTexts, Targets, Texts, Address
  <2> HIDE DEF text
  <2>7. ParseSimple(text) \in Forwardings
    <3>1. "" \in Texts
      BY DEF Texts
    <3>2. ParseSimple(text) \in Forwardings \cup {Throws}
      BY <2>6, <3>1, ParsedIsForwarding
    <3> QED
      BY <1>3, <2>4, <3>2
  <2> QED
    BY <1>3, <2>4, <2>7 DEF SetForwardings
<1> QED
  BY <1>1, <1>2, <1>3

\* What is got from good forwardings and set again: the same ones.
LEMMA ForwardingsComeBack ==
  ASSUME NEW list \in Seq(Forwardings)
  PROVE  ForwardingsSurvive(list)
<1> SUFFICES ASSUME \A k \in DOMAIN list : list[k].host # "v6"
             PROVE  SetForwardings(GetForwardings(list)) = [list |-> list, raised |-> FALSE]
  BY DEF ForwardingsSurvive
<1> DEFINE texts == GetForwardings(list)
<1>1. /\ Len(list) \in Nat /\ DOMAIN list = 1 .. Len(list)
      /\ list = [i \in 1 .. Len(list) |-> list[i]]
      /\ \A i \in 1 .. Len(list) : list[i] \in Forwardings /\ list[i].host # "v6"
  OBVIOUS
<1>2. DOMAIN texts = 1 .. Len(list)
  BY <1>1 DEF GetForwardings
<1>3. ASSUME NEW i \in 1 .. Len(list)
      PROVE  ParseForwarding(texts[i].type, texts[i].domain, texts[i].to) = list[i]
  <2> DEFINE f == list[i]
             to == texts[i].to
  <2>1. f \in Forwardings /\ f.host # "v6"
    BY <1>1
  <2>2. /\ texts[i].type = f.mode /\ texts[i].domain = f.domain
        /\ to = [Address(IF f.localServerTls THEN "https" ELSE "", f.host, f.port)
                   EXCEPT !.bare = f.host = "v6"]
    BY <1>1 DEF GetForwardings
  <2> HIDE DEF to, f
  <2>3. /\ to.schema = (IF f.localServerTls THEN "https" ELSE "")
        /\ to.host = f.host /\ to.port = f.port
    BY <2>2 DEF Address
  <2>4. PortOf(to) = f.port /\ HostOf(to) = f.host /\ f.port # 0
    BY <2>1, <2>3 DEF PortOf, HostOf, Misread, Forwardings
  <2>5. f.mode \in Types /\ f.mode # "" /\ f.domain # "ip"
    BY <2>1 DEF Forwardings, Types
  <2>6. ParseForwarding(f.mode, f.domain, to) = Forwarding(f.mode, f.domain, to)
    BY <2>4, <2>5 DEF ParseForwarding
  <2>7. (to.schema = "https") = f.localServerTls
    <3>1. f.localServerTls \in BOOLEAN
      BY <2>1 DEF Forwardings
    <3>2. CASE f.localServerTls = TRUE
      BY <2>3, <3>2
    <3>3. CASE f.localServerTls = FALSE
      BY <2>3, <3>3
    <3> QED
      BY <3>1, <3>2, <3>3
  <2>8. Forwarding(f.mode, f.domain, to)
          = [mode |-> f.mode, domain |-> f.domain, host |-> f.host, port |-> f.port,
             localServerTls |-> f.localServerTls]
    BY <2>4, <2>7 DEF Forwarding
  <2>9. f = [mode |-> f.mode, domain |-> f.domain, host |-> f.host, port |-> f.port,
             localServerTls |-> f.localServerTls]
    BY <2>1 DEF Forwardings
  <2> QED
    BY <2>2, <2>6, <2>8, <2>9 DEF f, to
<1>4. Parsed(texts) = list
  <2>1. \A i \in 1 .. Len(list) : texts[i].type \in Types
    BY <1>1 DEF GetForwardings, Forwardings
  <2> QED
    BY <1>1, <1>2, <1>3, <2>1 DEF Parsed
<1>5. Good(list)
  BY <1>1, ForwardingIsGood DEF Good
<1> QED
  BY <1>4, <1>5 DEF SetForwardings
-----------------------------------------------------------------------------
(* The setters make good configurations of good ones.                      *)

\* One field is set to another value.
LEMMA FieldIsSet ==
  ASSUME NEW c, ConfigOK(c), NEW v
  PROVE  /\ v \in Servers => ConfigOK([c EXCEPT !.server = v])
         /\ ConfigOK([c EXCEPT !.token = v])
         /\ ConfigOK([c EXCEPT !.force = v])
         /\ ConfigOK([c EXCEPT !.autoReconnectInterval = v])
         /\ v \in Args => ConfigOK([c EXCEPT !.arguments = v])
         /\ v \in Seq(Forwardings) => ConfigOK([c EXCEPT !.forwardings = v])
<1>1. /\ DOMAIN c = ConfigFields /\ c = [x \in ConfigFields |-> c[x]]
      /\ c.server \in Servers /\ c.forwardings \in Seq(Forwardings) /\ c.arguments \in Args
  BY DEF ConfigOK
<1>2. ASSUME NEW x \in ConfigFields \ {"server", "arguments", "forwardings"}
      PROVE  ConfigOK([c EXCEPT ![x] = v])
  <2> DEFINE d == [c EXCEPT ![x] = v]
  <2>1. d = [y \in ConfigFields |-> d[y]] /\ d.server = c.server /\ d.forwardings = c.forwardings
      /\ d.arguments = c.arguments
    BY <1>1 DEF ConfigFields
  <2> QED
    BY <1>1, <2>1 DEF ConfigOK
<1>3. ASSUME v \in Servers PROVE ConfigOK([c EXCEPT !.server = v])
  <2> DEFINE d == [c EXCEPT !.server = v]
  <2>1. d = [y \in ConfigFields |-> d[y]] /\ d.server = v /\ d.forwardings = c.forwardings
      /\ d.arguments = c.arguments
    BY <1>1 DEF ConfigFields
  <2> QED
    BY <1>1, <1>3, <2>1 DEF ConfigOK
<1>4. ASSUME v \in Seq(Forwardings) PROVE ConfigOK([c EXCEPT !.forwardings = v])
  <2> DEFINE d == [c EXCEPT !.forwardings = v]
  <2>1. d = [y \in ConfigFields |-> d[y]] /\ d.server = c.server /\ d.forwardings = v
      /\ d.arguments = c.arguments
    BY <1>1 DEF ConfigFields
  <2> QED
    BY <1>1, <1>4, <2>1 DEF ConfigOK
<1>5. ASSUME v \in Args PROVE ConfigOK([c EXCEPT !.arguments = v])
  <2> DEFINE d == [c EXCEPT !.arguments = v]
  <2>1. d = [y \in ConfigFields |-> d[y]] /\ d.server = c.server /\ d.forwardings = c.forwardings
      /\ d.arguments = v
    BY <1>1 DEF ConfigFields
  <2> QED
    BY <1>1, <1>5, <2>1 DEF ConfigOK
<1> QED
  BY <1>2, <1>3, <1>4, <1>5 DEF ConfigFields

\* What an exception leaves: the configuration as it was, without forwardings, or
\* without arguments.
GoodEdit(c, config, throws) ==
  /\ ConfigOK(config)
  /\ throws \in BOOLEAN
  /\ throws => \/ config = c \/ config = [c EXCEPT !.forwardings = <<>>]
               \/ config = [c EXCEPT !.arguments = NoArguments]

\* A list of forwardings is set.
LEMMA ForwardingsAreSet ==
  ASSUME NEW c, ConfigOK(c), NEW r, r.list \in Seq(Forwardings), r.raised \in BOOLEAN,
         r.raised => r.list = c.forwardings \/ r.list = <<>>
  PROVE  GoodEdit(c, [c EXCEPT !.forwardings = r.list], r.raised)
<1>1. ConfigOK([c EXCEPT !.forwardings = r.list])
  BY FieldIsSet
<1>2. DOMAIN c = ConfigFields /\ c = [x \in ConfigFields |-> c[x]]
  BY DEF ConfigOK
<1>3. [c EXCEPT !.forwardings = c.forwardings] = c
  BY <1>2 DEF ConfigFields
<1> QED
  BY <1>1, <1>3 DEF GoodEdit

\* AddForwarding.
LEMMA AddIsGood ==
  ASSUME NEW list \in Seq(Forwardings), NEW f \in Forwardings \cup {Throws}
  PROVE  LET r == AddForwarding(list, f)
         IN  /\ r.list \in Seq(Forwardings) /\ r.raised \in BOOLEAN
             /\ r.raised => r.list = list
<1>1. CASE f = Throws
  BY <1>1 DEF AddForwarding
<1>2. CASE f # Throws
  <2>1. Append(list, f) \in Seq(Forwardings)
    BY <1>2
  <2> QED
    BY <1>2, <2>1 DEF AddForwarding
<1> QED
  BY <1>1, <1>2

\* SetForwarding of another text.
LEMMA TextIsGood ==
  ASSUME NEW to \in Targets
  PROVE  LET r == SetForwardingText(to)
         IN  /\ r.list \in Seq(Forwardings) /\ r.raised \in BOOLEAN
             /\ r.raised => r.list = <<>>
<1>1. "" \in Texts
  BY DEF Texts
<1>2. ParseSimple(to) \in Forwardings \cup {Throws}
  BY <1>1, ParsedIsForwarding
<1>3. CASE ParseSimple(to) = Throws
  BY <1>3 DEF SetForwardingText
<1>4. CASE ParseSimple(to) # Throws
  BY <1>2, <1>4 DEF SetForwardingText
<1> QED
  BY <1>3, <1>4

\* The configuration that a setter works on.
LEMMA ConfigIsOK ==
  ASSUME IInv, ClassInv, NEW h \in held, Is(h.ref, "SDKConfig")
  PROVE  /\ h.obj \in Ids /\ GetObj(refs, h.ref) = h.obj
         /\ Config(h.ref) = objects[h.obj].config
         /\ ConfigObject(objects[h.obj])
<1>1. GetObj(refs, h.ref) = h.obj /\ h.obj \in Ids
  BY HeldResolves
<1>2. objects[h.obj].kind = "SDKConfig" /\ Config(h.ref) = objects[h.obj].config
  BY <1>1 DEF Is, Config, Obj
<1> QED
  BY <1>1, <1>2 DEF ClassInv, TunnelObject

LEMMA ArgumentIsSet ==
  ASSUME NEW c, ConfigOK(c), NEW v
  PROVE  /\ v \in Seq(HeaderMods) => ConfigOK([c EXCEPT !.arguments.headers = v])
         /\ v \in Seq(Auths) => ConfigOK([c EXCEPT !.arguments.basic = v])
         /\ v \in Seq(Text) => ConfigOK([c EXCEPT !.arguments.bearer = v])
         /\ v \in Seq(Text) => ConfigOK([c EXCEPT !.arguments.white = v])
         /\ v \in SUBSET Options => ConfigOK([c EXCEPT !.arguments.options = v])
         /\ v \in Text => ConfigOK([c EXCEPT !.arguments.localServerTls = v])
<1>1. ASSUME NEW x, [c.arguments EXCEPT ![x] = v] \in Args
      PROVE  ConfigOK([c EXCEPT !.arguments[x] = v])
  <2> DEFINE d == [c EXCEPT !.arguments[x] = v]
             a == [c.arguments EXCEPT ![x] = v]
  <2>1. d = [c EXCEPT !.arguments = a]
    OBVIOUS
  <2>2. a \in Args
    BY <1>1
  <2> HIDE DEF a
  <2>3. ConfigOK([c EXCEPT !.arguments = a])
    BY <2>2, FieldIsSet
  <2> QED
    BY <2>1, <2>3
<1>2. c.arguments \in Args
  BY DEF ConfigOK
<1> QED
  BY <1>1, <1>2, ArgumentFits

\* What the application gives are texts of symbols.
LEMMA InputsFit ==
  /\ \A text \in ArgumentTexts : text.open \in BOOLEAN /\ text.commands \in Seq(Text)
  /\ WhiteLists \subseteq Seq(Text) /\ BearerLists \subseteq Seq(Text)
  /\ HeaderLists \subseteq Seq(HeaderMods) /\ BasicAuthLists \subseteq Seq(Auths)
<1>1. \A t \in Seq(STRING) : t \in Text
  <2>1. \A S, T : S \subseteq T => Seq(S) \subseteq Seq(T)
    OBVIOUS
  <2>2. STRING \subseteq Symbols
    BY DEF Symbols
  <2> QED
    BY <2>1, <2>2, Zenon DEF Text
<1>2. \A t \in Seq(Seq(STRING)) : t \in Seq(Text)
  BY <1>1
<1>3. \A h \in HeaderTexts : h \in HeaderMods
  BY <1>1, <1>2 DEF HeaderTexts, HeaderMods
<1>4. \A b \in AuthTexts : b \in Auths
  BY <1>1 DEF AuthTexts, Auths
<1>5. /\ \A list \in Seq(HeaderTexts) : list \in Seq(HeaderMods)
      /\ \A list \in Seq(AuthTexts) : list \in Seq(Auths)
  BY <1>3, <1>4
<1>6. \A t \in CommandTexts : t.open \in BOOLEAN /\ t.commands \in Seq(Text)
  BY <1>2 DEF CommandTexts
<1> QED
  BY <1>2, <1>5, <1>6, CApiAssumption

\* Every setter makes a good configuration of a good one, and what throws leaves it
\* as it was, without forwardings or without arguments.
LEMMA SettersAreGood ==
  ASSUME IInv, ClassInv, NEW h \in held, ConfigCall(h.ref)
  PROVE  \E config, throws : /\ Edit(h.ref, config, throws)
                             /\ GoodEdit(Config(h.ref), config, throws)
<1> DEFINE c == Config(h.ref)
           Goal == \E config, throws : Edit(h.ref, config, throws) /\ GoodEdit(c, config, throws)
<1>1. ASSUME NEW config, NEW throws, Edit(h.ref, config, throws) PROVE ConfigOK(c)
  <2>1. Is(h.ref, "SDKConfig")
    BY <1>1 DEF Edit
  <2> QED
    BY <2>1, ConfigIsOK DEF ConfigObject
<1> HIDE DEF c
<1> SUFFICES Goal
  BY DEF c
<1>2. ASSUME NEW config, Edit(h.ref, config, FALSE), ConfigOK(config) PROVE Goal
  <2>1. GoodEdit(c, config, FALSE)
    BY <1>2 DEF GoodEdit
  <2> QED
    BY <1>2, <2>1
<1>3. ASSUME NEW r, Edit(h.ref, [c EXCEPT !.forwardings = r.list], r.raised),
             ConfigOK(c) => /\ r.list \in Seq(Forwardings) /\ r.raised \in BOOLEAN
                            /\ r.raised => r.list = c.forwardings \/ r.list = <<>>
      PROVE  Goal
  <2>1. ConfigOK(c)
    BY <1>1, <1>3
  <2>2. GoodEdit(c, [c EXCEPT !.forwardings = r.list], r.raised)
    BY <1>3, <2>1, ForwardingsAreSet
  <2> QED
    BY <1>3, <2>2
<1>4. CASE SetServerAddress(h.ref)
  <2>1. Edit(h.ref, [c EXCEPT !.server = "t.pinggy.io:443"], FALSE)
    BY <1>4 DEF SetServerAddress, c
  <2>2. ConfigOK([c EXCEPT !.server = "t.pinggy.io:443"])
    BY <1>1, <2>1, FieldIsSet DEF Servers
  <2> QED
    BY <1>2, <2>1, <2>2
<1>5. CASE SetMalformed(h.ref)
  <2>1. Edit(h.ref, c, TRUE)
    BY <1>5 DEF SetMalformed, c
  <2>2. GoodEdit(c, c, TRUE)
    BY <1>1, <2>1 DEF GoodEdit
  <2> QED
    BY <2>1, <2>2
<1>6. CASE SetToken(h.ref) \/ SetForce(h.ref) \/ SetReconnectInterval(h.ref)
  <2>1. \E v : \/ Edit(h.ref, [c EXCEPT !.token = v], FALSE)
               \/ Edit(h.ref, [c EXCEPT !.force = v], FALSE)
               \/ Edit(h.ref, [c EXCEPT !.autoReconnectInterval = v], FALSE)
    BY <1>6, Zenon DEF SetToken, SetForce, SetReconnectInterval, c
  <2> QED
    BY <1>1, <1>2, <2>1, FieldIsSet
<1>7. CASE SetArgument(h.ref)
  <2>1. PICK text \in ArgumentTexts : EditArguments(h.ref, SetArguments(c.arguments, text))
    BY <1>7 DEF SetArgument, c
  <2> DEFINE v == IF text.open THEN NoArguments ELSE Told(text.commands)
  <2>2. v \in Args
    BY InputsFit, EmptySeq, ToldSteps, NoArgumentsFit DEF Text
  <2>3. Edit(h.ref, [c EXCEPT !.arguments = v], text.open)
    BY <2>1 DEF EditArguments, SetArguments, Told, c
  <2>4. text.open \in BOOLEAN /\ (text.open => v = NoArguments)
    BY InputsFit
  <2> HIDE DEF v
  <2>5. ConfigOK([c EXCEPT !.arguments = v])
    BY <1>1, <2>2, <2>3, FieldIsSet
  <2>6. GoodEdit(c, [c EXCEPT !.arguments = v], text.open)
    BY <2>4, <2>5 DEF GoodEdit
  <2> QED
    BY <2>3, <2>6
<1>10. CASE \/ SetHeaderManipulations(h.ref) \/ SetBasicAuths(h.ref) \/ SetBearerTokenAuths(h.ref)
            \/ SetIpWhiteList(h.ref) \/ SetOption(h.ref) \/ SetLocalServerTls(h.ref)
  <2>1. \E v : \/ v \in Seq(HeaderMods) /\ Edit(h.ref, [c EXCEPT !.arguments.headers = v], FALSE)
               \/ v \in Seq(Auths) /\ Edit(h.ref, [c EXCEPT !.arguments.basic = v], FALSE)
               \/ v \in Seq(Text) /\ Edit(h.ref, [c EXCEPT !.arguments.bearer = v], FALSE)
               \/ v \in Seq(Text) /\ Edit(h.ref, [c EXCEPT !.arguments.white = v], FALSE)
               \/ v \in SUBSET Options /\ Edit(h.ref, [c EXCEPT !.arguments.options = v], FALSE)
               \/ v \in Text /\ Edit(h.ref, [c EXCEPT !.arguments.localServerTls = v], FALSE)
    <3>1. <<"x">> \in Text
      <4>1. "x" \in Symbols
        BY DEF Symbols
      <4> QED
        BY <4>1, OneOrTwo DEF Text
    <3>2. CASE SetHeaderManipulations(h.ref)
      BY <3>2, InputsFit, Zenon DEF SetHeaderManipulations, c
    <3>3. CASE SetBasicAuths(h.ref)
      BY <3>3, InputsFit, Zenon DEF SetBasicAuths, c
    <3>4. CASE SetBearerTokenAuths(h.ref)
      BY <3>4, InputsFit, Zenon DEF SetBearerTokenAuths, c
    <3>5. CASE SetIpWhiteList(h.ref)
      BY <3>5, InputsFit, Zenon DEF SetIpWhiteList, c
    <3>6. CASE SetOption(h.ref)
      <4>1. PICK option \in {"https", "noreverseproxy"} :
              Edit(h.ref, [c EXCEPT !.arguments.options = @ \cup {option}], FALSE)
        BY <3>6 DEF SetOption, c
      <4> DEFINE v == c.arguments.options \cup {option}
      <4>2. option \in Options
        BY DEF Options
      <4>3. ConfigOK(c)
        BY <1>1, <4>1
      <4>4. v \in SUBSET Options
        BY <4>2, <4>3, ArgumentTypes DEF ConfigOK
      <4>5. Edit(h.ref, [c EXCEPT !.arguments.options = v], FALSE)
        BY <4>1
      <4> HIDE DEF v
      <4> QED
        BY <4>4, <4>5, Zenon
    <3>7. CASE SetLocalServerTls(h.ref)
      BY <3>1, <3>7, Zenon DEF SetLocalServerTls, c
    <3> QED
      BY <1>10, <3>2, <3>3, <3>4, <3>5, <3>6, <3>7
  <2> QED
    BY <1>1, <1>2, <2>1, ArgumentIsSet
<1>8. CASE AddForwardingCall(h.ref) \/ AddForwardingSimple(h.ref)
  <2>1. \E f \in Forwardings \cup {Throws} :
          Edit(h.ref, [c EXCEPT !.forwardings = AddForwarding(c.forwardings, f).list],
               AddForwarding(c.forwardings, f).raised)
    <3>1. CASE AddForwardingCall(h.ref)
      <4>1. PICK entries \in EntryLists :
              \E i \in DOMAIN entries :
                EditForwardings(h.ref, AddForwarding(c.forwardings,
                  ParseForwarding(entries[i].type, entries[i].domain, entries[i].to)))
        BY <1>8, <3>1 DEF AddForwardingCall, c
      <4> PICK i \in DOMAIN entries :
            EditForwardings(h.ref, AddForwarding(c.forwardings,
              ParseForwarding(entries[i].type, entries[i].domain, entries[i].to)))
        BY <4>1
      <4> DEFINE f == ParseForwarding(entries[i].type, entries[i].domain, entries[i].to)
      <4>2. entries[i] \in Entries
        BY CApiAssumption
      <4>3. f \in Forwardings \cup {Throws}
        BY <4>2, ParsedIsForwarding DEF Entries, AddressTexts, Targets, Texts
      <4>4. EditForwardings(h.ref, AddForwarding(c.forwardings, f))
        OBVIOUS
      <4> HIDE DEF f
      <4> QED
        BY <4>3, <4>4 DEF EditForwardings, c
    <3>2. CASE AddForwardingSimple(h.ref)
      <4>1. PICK to \in Addresses :
              EditForwardings(h.ref, AddForwarding(c.forwardings, ParseSimple(to)))
        BY <1>8, <3>2 DEF AddForwardingSimple, c
      <4>2. to \in Targets /\ "" \in Texts
        BY CApiAssumption DEF AddressTexts, Targets, Texts
      <4>3. ParseSimple(to) \in Forwardings \cup {Throws}
        BY <4>2, ParsedIsForwarding
      <4> QED
        BY <4>1, <4>3 DEF EditForwardings, c
    <3> QED
      BY <1>8, <3>1, <3>2
  <2>2. PICK f \in Forwardings \cup {Throws} :
          Edit(h.ref, [c EXCEPT !.forwardings = AddForwarding(c.forwardings, f).list],
               AddForwarding(c.forwardings, f).raised)
    BY <2>1
  <2> DEFINE r == AddForwarding(c.forwardings, f)
  <2>3. ConfigOK(c) => /\ r.list \in Seq(Forwardings) /\ r.raised \in BOOLEAN
                       /\ r.raised => r.list = c.forwardings
    BY AddIsGood DEF ConfigOK
  <2>4. Edit(h.ref, [c EXCEPT !.forwardings = r.list], r.raised)
    BY <2>2
  <2> HIDE DEF r
  <2> QED
    BY <1>3, <2>3, <2>4
<1>9. CASE SetForwardingsCall(h.ref) \/ ResetForwardings(h.ref)
  <2>1. \E r : /\ Edit(h.ref, [c EXCEPT !.forwardings = r.list], r.raised)
               /\ r.list \in Seq(Forwardings) /\ r.raised \in BOOLEAN
               /\ r.raised => r.list = <<>>
    <3>1. ASSUME NEW r, EditForwardings(h.ref, r)
          PROVE  Edit(h.ref, [c EXCEPT !.forwardings = r.list], r.raised)
      BY <3>1 DEF EditForwardings, c
    <3>2. ASSUME NEW entries \in EntryLists, EditForwardings(h.ref, SetForwardings(entries))
          PROVE  \E r : /\ Edit(h.ref, [c EXCEPT !.forwardings = r.list], r.raised)
                        /\ r.list \in Seq(Forwardings) /\ r.raised \in BOOLEAN
                        /\ r.raised => r.list = <<>>
      <4>1. entries \in Seq(Entries)
        BY CApiAssumption
      <4> DEFINE r == SetForwardings(entries)
      <4>2. r.list \in Seq(Forwardings) /\ r.raised \in BOOLEAN /\ (r.raised => r.list = <<>>)
        BY <4>1, SetForwardingsIsGood
      <4>3. EditForwardings(h.ref, r)
        BY <3>2
      <4> HIDE DEF r
      <4> QED
        BY <3>1, <4>2, <4>3
    <3>3. ASSUME NEW to \in Addresses, EditForwardings(h.ref, SetForwardingText(to))
          PROVE  \E r : /\ Edit(h.ref, [c EXCEPT !.forwardings = r.list], r.raised)
                        /\ r.list \in Seq(Forwardings) /\ r.raised \in BOOLEAN
                        /\ r.raised => r.list = <<>>
      <4>1. to \in Targets
        BY CApiAssumption DEF AddressTexts, Targets, Texts
      <4> DEFINE r == SetForwardingText(to)
      <4>2. r.list \in Seq(Forwardings) /\ r.raised \in BOOLEAN /\ (r.raised => r.list = <<>>)
        BY <4>1, TextIsGood
      <4>3. EditForwardings(h.ref, r)
        BY <3>3
      <4> HIDE DEF r
      <4> QED
        BY <3>1, <4>2, <4>3
    <3>4. CASE ResetForwardings(h.ref)
      <4> DEFINE r == [list |-> <<>>, raised |-> FALSE]
      <4>1. EditForwardings(h.ref, r)
        BY <3>4 DEF ResetForwardings
      <4>2. r.list \in Seq(Forwardings) /\ r.raised \in BOOLEAN /\ (r.raised => r.list = <<>>)
        OBVIOUS
      <4> HIDE DEF r
      <4> QED
        BY <3>1, <4>1, <4>2
    <3> QED
      BY <1>9, <3>2, <3>3, <3>4 DEF SetForwardingsCall
  <2> QED
    BY <1>3, <2>1
<1> QED
  BY <1>4, <1>5, <1>6, <1>7, <1>8, <1>9, <1>10 DEF ConfigCall
-----------------------------------------------------------------------------
(* The calls on a tunnel.                                                  *)

\* What a call may make of a tunnel.
GoodChange(o, sdk, throws) ==
  /\ sdk.kind = "Sdk" /\ DOMAIN sdk = DOMAIN o /\ sdk.conf = o.conf
  /\ throws => sdk = o \/ sdk = [o EXCEPT !.permit = FALSE]

LEMMA TunnelIsOK ==
  ASSUME IInv, ClassInv, NEW h \in held, Is(h.ref, "Sdk")
  PROVE  /\ h.obj \in Ids /\ GetObj(refs, h.ref) = h.obj
         /\ Obj(h.ref) = objects[h.obj]
         /\ TunnelObject(objects[h.obj])
<1>1. GetObj(refs, h.ref) = h.obj /\ h.obj \in Ids
  BY HeldResolves
<1>2. objects[h.obj].kind = "Sdk" /\ Obj(h.ref) = objects[h.obj]
  BY <1>1 DEF Is, Obj
<1>3. ~ConfigObject(objects[h.obj])
  <2> SUFFICES ASSUME ConfigObject(objects[h.obj]) PROVE FALSE
    OBVIOUS
  <2>1. objects[h.obj].kind = "SDKConfig"
    BY DEF ConfigObject, SDKConfig
  <2> QED
    BY <1>2, <2>1
<1> QED
  BY <1>1, <1>2, <1>3 DEF ClassInv

\* The state or the permit of a tunnel is set.
LEMMA StateIsSet ==
  ASSUME NEW o, TunnelObject(o), NEW s, NEW throws
  PROVE  /\ GoodChange(o, [o EXCEPT !.state = s], FALSE)
         /\ GoodChange(o, [o EXCEPT !.permit = FALSE], TRUE)
         /\ GoodChange(o, o, throws)
  BY DEF TunnelObject, GoodChange

LEMMA TunnelCallsAreGood ==
  ASSUME IInv, ClassInv, NEW h \in held, TunnelCall(h.ref)
  PROVE  \E sdk, throws : /\ Tunnel(h.ref, sdk, throws) /\ throws \in BOOLEAN
                          /\ GoodChange(objects[h.obj], sdk, throws)
<1> DEFINE o == objects[h.obj]
           Goal == \E sdk, throws : /\ Tunnel(h.ref, sdk, throws) /\ throws \in BOOLEAN
                                    /\ GoodChange(o, sdk, throws)
<1>1. /\ Is(h.ref, "Sdk") /\ ~crashed
  BY DEF TunnelCall, Start, Resume, Stop
<1>2. Obj(h.ref) = o /\ TunnelObject(o)
  BY <1>1, TunnelIsOK
<1> HIDE DEF o
<1>3. ASSUME NEW s, Tunnel(h.ref, [o EXCEPT !.state = s], FALSE) PROVE Goal
  BY <1>2, <1>3, StateIsSet
<1>4. ASSUME NEW throws \in BOOLEAN, Tunnel(h.ref, o, throws) PROVE Goal
  BY <1>2, <1>4, StateIsSet
<1> SUFFICES Goal
  BY DEF o
<1>5. CASE Start(h.ref)
  <2>1. \/ Tunnel(h.ref, o, FALSE)
        \/ \E own, user :
             Tunnel(h.ref, [o EXCEPT !.own = own, !.user = user, !.state = "Started"], FALSE)
    BY <1>2, <1>5, Zenon DEF Start
  <2>2. ASSUME NEW own, NEW user
        PROVE  GoodChange(o, [o EXCEPT !.own = own, !.user = user, !.state = "Started"], FALSE)
    BY <1>2 DEF TunnelObject, GoodChange
  <2> QED
    BY <1>4, <2>1, <2>2
<1>6. CASE Resume(h.ref)
  <2>1. \/ Tunnel(h.ref, o, TRUE)
        \/ \E s : Tunnel(h.ref, [o EXCEPT !.state = s], FALSE)
    BY <1>2, <1>6, Zenon DEF Resume
  <2> QED
    BY <1>3, <1>4, <2>1
<1>7. CASE Stop(h.ref)
  <2>1. \/ Tunnel(h.ref, [o EXCEPT !.state = "Stopped"], FALSE)
        \/ Tunnel(h.ref, [o EXCEPT !.permit = FALSE], TRUE)
    BY <1>2, <1>7, Zenon DEF Stop
  <2> QED
    BY <1>2, <1>3, <2>1, StateIsSet
<1> QED
  BY <1>5, <1>6, <1>7 DEF TunnelCall
-----------------------------------------------------------------------------
(* The steps once more.                                                    *)

\* An object changes, and keeps its class.
LEMMA ChangeKeepsClass ==
  ASSUME IInv, ClassInv, NEW n \in Ids, NEW o, objects' = [objects EXCEPT ![n] = o],
         \/ ConfigObject(objects[n]) /\ ConfigObject(o)
         \/ /\ TunnelObject(objects[n])
            /\ o.kind = "Sdk" /\ DOMAIN o = DOMAIN objects[n] /\ o.conf = objects[n].conf
  PROVE  /\ ClassInv'
         /\ \A i \in Ids : objects'[i] = IF i = n THEN o ELSE objects[i]
         /\ Ids' = Ids
<1> PICK S : objects \in Seq(S)
  BY DEF IInv, ObjectsInv
<1>1. /\ Ids' = Ids
      /\ \A i \in Ids : objects'[i] = IF i = n THEN o ELSE objects[i]
  BY ReplaceIsSeq DEF Ids
<1>2. ASSUME NEW x, ConfigObject(x) PROVE x.kind = "SDKConfig"
  BY <1>2 DEF ConfigObject, SDKConfig
<1>3. o.kind = objects[n].kind
  BY <1>2 DEF TunnelObject
<1>4. \A i \in Ids : objects'[i].kind = objects[i].kind
  BY <1>1, <1>3
<1>5. ASSUME NEW i \in Ids, i # n, TunnelObject(objects[i]) PROVE TunnelObject(objects[i])'
  BY <1>1, <1>4, <1>5 DEF TunnelObject
<1>6. ASSUME TunnelObject(objects[n]),
             o.kind = "Sdk" /\ DOMAIN o = DOMAIN objects[n] /\ o.conf = objects[n].conf
      PROVE  TunnelObject(objects[n])'
  BY <1>1, <1>4, <1>6 DEF TunnelObject
<1>7. ASSUME NEW i \in Ids PROVE (ConfigObject(objects[i]) \/ TunnelObject(objects[i]))'
  <2>1. CASE i = n
    <3>1. CASE ConfigObject(o)
      BY <1>1, <2>1, <3>1 DEF ConfigObject, ConfigOK
    <3>2. CASE ~ConfigObject(o)
      BY <1>6, <2>1, <3>2
    <3> QED
      BY <3>1, <3>2
  <2>2. CASE i # n
    <3>1. CASE ConfigObject(objects[i])
      BY <1>1, <2>2, <3>1 DEF ConfigObject, ConfigOK
    <3>2. CASE TunnelObject(objects[i])
      BY <1>5, <2>2, <3>2
    <3> QED
      BY <3>1, <3>2 DEF ClassInv
  <2> QED
    BY <2>1, <2>2
<1> QED
  BY <1>1, <1>7 DEF ClassInv

\* A new object is a configuration, or a tunnel of a configuration that there is.
LEMMA MakeKeepsClass ==
  ASSUME IInv, ClassInv, NEW o, objects' = Append(objects, o),
         \/ ConfigObject(o)
         \/ /\ o.kind = "Sdk" /\ DOMAIN o = {"kind", "conf", "own", "user", "state", "permit", "ref"}
            /\ o.conf \in Ids /\ objects[o.conf].kind = "SDKConfig"
  PROVE  ClassInv' /\ \A i \in Ids : objects'[i] = objects[i]
<1> PICK S : objects \in Seq(S)
  BY DEF IInv, ObjectsInv
<1> PICK id : id = Len(objects) + 1
  OBVIOUS
<1>1. /\ Len(objects) \in Nat /\ Len(objects') = id
      /\ \A i \in Ids : objects'[i] = objects[i]
      /\ objects'[id] = o
  BY AppendIsSeq DEF Ids
<1>2. Ids' = Ids \cup {id}
  BY <1>1 DEF Ids
<1>3. ASSUME NEW i \in Ids PROVE (ConfigObject(objects[i]) \/ TunnelObject(objects[i]))'
  <2>1. CASE ConfigObject(objects[i])
    BY <1>1, <2>1 DEF ConfigObject, ConfigOK
  <2>2. CASE TunnelObject(objects[i])
    BY <1>1, <1>2, <2>2 DEF TunnelObject
  <2> QED
    BY <2>1, <2>2 DEF ClassInv
<1>4. (ConfigObject(objects[id]) \/ TunnelObject(objects[id]))'
  <2>1. CASE ConfigObject(o)
    BY <1>1, <2>1 DEF ConfigObject, ConfigOK
  <2>2. CASE ~ConfigObject(o)
    BY <1>1, <1>2, <2>2 DEF TunnelObject
  <2> QED
    BY <2>1, <2>2
<1> QED
  BY <1>1, <1>2, <1>3, <1>4 DEF ClassInv

\* One step: the classes stay, and an exception is contained.
StepIsGood == ClassInv' /\ FailureContained

LEMMA EditIsGood ==
  ASSUME IInv, ClassInv, DOMAIN objects = Ids, NEW h \in held, NEW config, NEW throws,
         Edit(h.ref, config, throws), GoodEdit(Config(h.ref), config, throws)
  PROVE  StepIsGood
<1> DEFINE o == SDKConfig(config)
           old == objects[h.obj]
<1>1. /\ h.obj \in Ids /\ Config(h.ref) = old.config /\ ConfigObject(old)
      /\ objects' = [objects EXCEPT ![h.obj] = o]
      /\ raised' = throws
  BY ConfigIsOK DEF Edit
<1>2. old = SDKConfig(old.config) /\ old.kind = "SDKConfig"
  BY <1>1 DEF ConfigObject, SDKConfig
<1>3. ConfigObject(o)
  BY DEF ConfigObject, GoodEdit, SDKConfig
<1>4. throws => o = old \/ o \in Remnants(old)
  BY <1>1, <1>2 DEF GoodEdit, Remnants
<1>5. o = old => objects' = objects
  <2> PICK S : objects \in Seq(S)
    BY DEF IInv, ObjectsInv
  <2> QED
    BY <1>1
<1> HIDE DEF o
<1>6. ClassInv'
  BY <1>1, <1>3, ChangeKeepsClass
<1> QED
  BY <1>1, <1>4, <1>5, <1>6 DEF StepIsGood, FailureContained

LEMMA TunnelIsGood ==
  ASSUME IInv, ClassInv, DOMAIN objects = Ids, NEW h \in held, TunnelCall(h.ref)
  PROVE  StepIsGood
<1> DEFINE o == objects[h.obj]
<1>1. PICK sdk, throws : /\ Tunnel(h.ref, sdk, throws) /\ throws \in BOOLEAN
                         /\ GoodChange(o, sdk, throws)
  BY TunnelCallsAreGood
<1>2. Is(h.ref, "Sdk")
  BY DEF TunnelCall, Start, Resume, Stop
<1>3. h.obj \in Ids /\ TunnelObject(o) /\ GetObj(refs, h.ref) = h.obj
  BY <1>2, TunnelIsOK
<1>4. objects' = [objects EXCEPT ![h.obj] = sdk] /\ raised' = throws
  BY <1>1, <1>3 DEF Tunnel
<1>5. ClassInv'
  BY <1>1, <1>3, <1>4, ChangeKeepsClass DEF GoodChange
<1>6. throws => sdk = o \/ sdk \in Remnants(o)
  BY <1>1, <1>3 DEF GoodChange, Remnants, TunnelObject
<1>7. sdk = o => objects' = objects
  <2> PICK S : objects \in Seq(S)
    BY DEF IInv, ObjectsInv
  <2> QED
    BY <1>4
<1> QED
  BY <1>3, <1>4, <1>5, <1>6, <1>7 DEF StepIsGood, FailureContained

\* Every step.
LEMMA EveryStepIsGood ==
  ASSUME IInv, ClassInv, [Next]_vars
  PROVE  StepIsGood
<1> PICK S : objects \in Seq(S)
  BY DEF IInv, ObjectsInv
<1>1. DOMAIN objects = Ids
  BY DEF Ids
<1>2. ASSUME objects' = objects PROVE StepIsGood
  <2>1. ClassInv'
    BY <1>2 DEF ClassInv, ConfigObject, ConfigOK, TunnelObject, Ids
  <2> QED
    BY <1>2, <2>1 DEF StepIsGood, FailureContained
<1>3. CASE UNCHANGED vars
  BY <1>2, <1>3 DEF vars
<1>4. CASE CreateConfig
  <2> DEFINE o == SDKConfig(NewSDKConfig)
  <2>1. ConfigObject(o)
    <3>1. ConfigOK(NewSDKConfig)
      <4> DEFINE c == NewSDKConfig
      <4>1. DOMAIN c = ConfigFields /\ c.server = "" /\ c.forwardings = <<>>
        BY DEF NewSDKConfig, ConfigFields
      <4>2. c = [x \in DOMAIN c |-> c[x]]
        BY DEF NewSDKConfig
      <4> HIDE DEF c
      <4>3. c = [x \in ConfigFields |-> c[x]]
        BY <4>1, <4>2
      <4>4. c.server \in Servers
        BY <4>1 DEF Servers
      <4>5. c.forwardings \in Seq(Forwardings)
        <5>1. <<>> \in Seq(Forwardings)
          OBVIOUS
        <5> QED
          BY <4>1, <5>1, Zenon
      <4>6. c.arguments \in Args
        BY NoArgumentsFit DEF c, NewSDKConfig
      <4>7. ConfigOK(c)
        BY <4>3, <4>4, <4>5, <4>6, Zenon DEF ConfigOK
      <4> QED
        BY <4>7 DEF c
    <3> QED
      BY <3>1 DEF ConfigObject, SDKConfig
  <2>2. objects' = Append(objects, o) /\ ~raised'
    BY <1>4 DEF CreateConfig, Make
  <2> HIDE DEF o
  <2> QED
    BY <2>1, <2>2, MakeKeepsClass DEF StepIsGood, FailureContained
<1>5. ASSUME NEW h \in held, Initiate(h.ref) PROVE StepIsGood
  <2> DEFINE o == Sdk(GetObj(refs, h.ref), NextRef(refs))
  <2>1. h.obj \in Ids /\ GetObj(refs, h.ref) = h.obj /\ ConfigObject(objects[h.obj])
    BY <1>5, ConfigIsOK DEF Initiate
  <2>2. objects[h.obj].kind = "SDKConfig"
    BY <2>1 DEF ConfigObject, SDKConfig
  <2>3. /\ o.kind = "Sdk" /\ DOMAIN o = {"kind", "conf", "own", "user", "state", "permit", "ref"}
        /\ o.conf = h.obj
    BY <2>1 DEF Sdk
  <2>4. objects' = Append(objects, o) /\ ~raised'
    BY <1>5 DEF Initiate, Make
  <2> HIDE DEF o
  <2> QED
    BY <2>1, <2>2, <2>3, <2>4, MakeKeepsClass DEF StepIsGood, FailureContained
<1>6. ASSUME NEW h \in held, InitiateFails(h.ref) \/ FreeRef(h) PROVE StepIsGood
  BY <1>2, <1>6 DEF InitiateFails, FreeRef
<1>7. ASSUME NEW h \in held, ConfigCall(h.ref) PROVE StepIsGood
  BY <1>1, <1>7, SettersAreGood, EditIsGood
<1>8. ASSUME NEW h \in held, TunnelCall(h.ref) PROVE StepIsGood
  BY <1>1, <1>8, TunnelIsGood
<1> QED
  BY <1>3, <1>4, <1>5, <1>6, <1>7, <1>8 DEF Next

\* At the start there is no object.
LEMMA InitClass == Init => ClassInv
  BY DEF Init, ClassInv, Ids

\* Every object is a configuration that came about by its setters or a tunnel with such
\* a configuration.
THEOREM ObjectsAreTyped == Spec => [](IInv /\ ClassInv)
<1>1. Init => IInv /\ ClassInv
  BY InitInv, InitClass
<1>2. (IInv /\ ClassInv) /\ [Next]_vars => (IInv /\ ClassInv)'
  BY NextKeepsInv, EveryStepIsGood DEF StepIsGood
<1> QED
  BY <1>1, <1>2, PTL DEF Spec

\* A call that raises an exception changes one object at most, and leaves of it what
\* Remnants says: the forwardings or the arguments gone and the rest as it was, or the
\* permit of a tunnel taken; for any texts, lists and addresses.
THEOREM FailuresContained == Spec => FailuresAreContained
<1>1. (IInv /\ ClassInv) /\ [Next]_vars => [FailureContained]_vars
  BY EveryStepIsGood DEF StepIsGood
<1> QED
  BY <1>1, ObjectsAreTyped, PTL DEF Spec, FailuresAreContained

\* What the getters of a configuration return sets the same arguments and forwardings
\* again, for every configuration that can be made.
THEOREM SettingsComeBack == Spec => []ConfigSurvives
<1>1. IInv /\ ClassInv => ConfigSurvives
  <2> SUFFICES ASSUME IInv, ClassInv, NEW i \in DOMAIN objects, objects[i].kind = "SDKConfig"
               PROVE  /\ ArgumentsSurvive(objects[i].config.arguments)
                      /\ ForwardingsSurvive(objects[i].config.forwardings)
    BY DEF ConfigSurvives
  <2>1. i \in Ids
    BY DEF IInv, ObjectsInv, Ids
  <2>2. ConfigOK(objects[i].config)
    BY <2>1 DEF ClassInv, ConfigObject, TunnelObject
  <2> QED
    BY <2>2, ArgumentsComeBack, ForwardingsComeBack DEF ConfigOK
<1> QED
  BY <1>1, ObjectsAreTyped, PTL
=============================================================================
