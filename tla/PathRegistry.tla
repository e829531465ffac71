---------------------------- MODULE PathRegistry ----------------------------
(***************************************************************************)
(* The paths of the transport (transport/PathRegistry.cc).  A field of a   *)
(* message is named on the wire by a path id.  The sender numbers a path   *)
(* when it first uses it and announces the definition ahead of the message;*)
(* the receiver knows what has been announced.  A registry is              *)
(*   [defs |-> definitions by increasing id, announced |-> how many]       *)
(* at the sender and a function from ids to definitions at the receiver.   *)
(* Joining the names of a path with dots and splitting them again is the   *)
(* identity: Serialize asserts that no name has a dot.                     *)
(***************************************************************************)
EXTENDS Naturals, Sequences

ROOT_PATH_ID == 128
RETURN_BACK_PATH_ID == 1

EmptyRegistry == [defs |-> <<>>, announced |-> 0]
NothingKnown == <<>>

\* The names on the way from the root of an object to a path.
GetPath(defs, parent) == IF parent <= ROOT_PATH_ID THEN <<>> ELSE defs[parent - ROOT_PATH_ID].path

\* The element of an array has no name, and starts a path of its own.
PathDef(defs, basename, type, parent) ==
  [id |-> ROOT_PATH_ID + Len(defs) + 1,
   path |-> IF basename = "" THEN <<>> ELSE Append(GetPath(defs, parent), basename),
   parent |-> parent, type |-> type, basename |-> basename]

SamePath(def, basename, type, parent) ==
  def.basename = basename /\ def.type = type /\ def.parent = parent

\* RegisterPath: the definitions afterwards and the id of the path.
RegisterPath(defs, basename, type, parent) ==
  LET known == {i \in DOMAIN defs : SamePath(defs[i], basename, type, parent)}
      new == PathDef(defs, basename, type, parent)
  IN  IF known # {}
      THEN [defs |-> defs, id |-> defs[CHOOSE i \in known : TRUE].id]
      ELSE [defs |-> Append(defs, new), id |-> new.id]

\* GetNClearNewlyAddedPath: the definitions to announce, and the registry without them.
NewlyAddedPath(reg) == SubSeq(reg.defs, reg.announced + 1, Len(reg.defs))
ClearNewlyAddedPath(reg) == [reg EXCEPT !.announced = Len(reg.defs)]

\* UpdatePathRegistryFromStream.
UpdatePathRegistryFromStream(known, defs) ==
  LET ids == {defs[i].id : i \in DOMAIN defs}
      last(id) == CHOOSE i \in DOMAIN defs :
                    defs[i].id = id /\ \A j \in DOMAIN defs : defs[j].id = id => j <= i
  IN  [id \in ids \cup DOMAIN known |-> IF id \in ids THEN defs[last(id)] ELSE known[id]]
=============================================================================
