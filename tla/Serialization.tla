---------------------------- MODULE Serialization ----------------------------
(***************************************************************************)
(* The stream that the body of a frame is made of (Serialization.cc,       *)
(* Deserialization.cc): a sequence of units, which are the id of a path, a *)
(* literal, or the count and type at the head of an array.  An object has  *)
(* no unit of its own: the paths of its literals say where they belong.    *)
(* Byte order and the width of literals are left out: both ends have the   *)
(* same byte order, and the type of a path says how to read its literal.   *)
(***************************************************************************)
EXTENDS PathRegistry, PinggyValue, SequencesExt

Id(i) == Unit("id", i)
ArrayHead(n, type) == Unit("head", [count |-> n, type |-> type])
-----------------------------------------------------------------------------
(* The serializer: a stream, and the definitions it takes ids from.        *)

RECURSIVE Encode(_, _, _)

\* A value under the path that r has registered, ids ahead of it.
Under(w, r, ids, val) == Encode([defs |-> r.defs, stream |-> w.stream \o ids], val, r.id)

\* A field of an object: its path, unless it is an object, and its value.
FieldAt(w, r, val) == Under(w, r, IF val.type = "Object" THEN <<>> ELSE <<Id(r.id)>>, val)
Field(w, key, val, parent) == FieldAt(w, RegisterPath(w.defs, key, val.type, parent), val)

\* encode_Object.  The order of a map is some fixed order of its keys.
EncodeObject(w, fields, parent) ==
  FoldLeft(LAMBDA acc, key : Field(acc, key, fields[key], parent), w, SetToSeq(DOMAIN fields))

\* An element of an array: an object is ended by a mark.
Ended(w, type) ==
  IF type = "Object" THEN [w EXCEPT !.stream = Append(@, Id(RETURN_BACK_PATH_ID))] ELSE w
Element(w, val, parent) ==
  Ended(Under(w, RegisterPath(w.defs, "", val.type, parent), <<>>, val), val.type)

\* encode_Array.
EncodeArray(w, elements, parent) ==
  LET type == IF elements = <<>> THEN "Invalid" ELSE elements[1].type
  IN  FoldLeft(LAMBDA acc, val : Element(acc, val, parent),
               [w EXCEPT !.stream = Append(@, ArrayHead(Len(elements), type))], elements)

\* encodeLiterals.
Encode(w, tree, parent) ==
  CASE tree.type = "Literal" -> [w EXCEPT !.stream = Append(@, Unit("literal", tree.of))]
    [] tree.type = "Object" -> EncodeObject(w, tree.of, parent)
    [] tree.type = "Array" -> EncodeArray(w, tree.of, parent)
-----------------------------------------------------------------------------
(* The deserializer: the value read and the rest of the stream.  What      *)
(* throws or aborts in the code is Corrupt.                                *)

Corrupt == [val |-> [type |-> "Corrupt"], rest |-> <<>>]
IsCorrupt(r) == r.val.type = "Corrupt"
Starts(stream, kind) == stream # <<>> /\ stream[1].unit = kind

RECURSIVE DecodeLit(_, _, _), Insert(_, _, _), DecodeFields(_, _, _, _),
          FieldRead(_, _, _, _, _)

\* addValueToPath: the objects on the way are made as needed.
Insert(fields, path, val) ==
  IF Len(path) = 1 THEN (path[1] :> val) @@ fields
  ELSE LET inner == IF path[1] \in DOMAIN fields THEN fields[path[1]].of ELSE <<>>
       IN  (path[1] :> Obj(Insert(inner, Tail(path), val))) @@ fields

\* Decode for a body (nested = FALSE), which ends with its stream, and decodeObject
\* for the element of an array, which ends with a mark.
DecodeFields(stream, known, fields, nested) ==
  IF stream = <<>> THEN IF nested THEN Corrupt ELSE [val |-> Obj(fields), rest |-> <<>>]
  ELSE IF ~Starts(stream, "id") THEN Corrupt
  ELSE IF nested /\ stream[1].of = RETURN_BACK_PATH_ID
       THEN [val |-> Obj(fields), rest |-> Tail(stream)]
  ELSE IF stream[1].of \notin DOMAIN known THEN Corrupt
  ELSE FieldRead(known[stream[1].of].path,
                 DecodeLit(Tail(stream), known, known[stream[1].of].type), known, fields, nested)

FieldRead(path, r, known, fields, nested) ==
  IF IsCorrupt(r) \/ path = <<>> THEN Corrupt
  ELSE DecodeFields(r.rest, known, Insert(fields, path, r.val), nested)

\* decodeArray.
ElementRead(array, r) ==
  IF IsCorrupt(r) THEN Corrupt
  ELSE [val |-> Arr(Append(array.val.of, r.val)), rest |-> r.rest]
DecodeArray(stream, known) ==
  FoldLeft(LAMBDA acc, i : IF IsCorrupt(acc) THEN acc
                           ELSE ElementRead(acc, DecodeLit(acc.rest, known, stream[1].of.type)),
           [val |-> Arr(<<>>), rest |-> Tail(stream)], [i \in 1 .. stream[1].of.count |-> i])

\* decodeLit: the type of the path says what follows.
DecodeLit(stream, known, type) ==
  CASE type = "Literal" /\ Starts(stream, "literal") ->
         [val |-> Lit(stream[1].of), rest |-> Tail(stream)]
    [] type = "Array" /\ Starts(stream, "head") -> DecodeArray(stream, known)
    [] type = "Object" -> DecodeFields(stream, known, <<>>, TRUE)
    [] OTHER -> Corrupt

Decode(stream, known) == DecodeFields(stream, known, <<>>, FALSE).val
=============================================================================
