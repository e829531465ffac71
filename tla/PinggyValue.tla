---------------------------- MODULE PinggyValue ----------------------------
(***************************************************************************)
(* Values as trees (transport/PinggyValue.hh), and the units that a stream *)
(* is made of.  A tree is a literal, an array of trees, or an object: a    *)
(* function from names to trees.                                           *)
(***************************************************************************)
Lit(v) == [type |-> "Literal", of |-> v]
Obj(f) == [type |-> "Object", of |-> f]
Arr(s) == [type |-> "Array", of |-> s]

Unit(kind, v) == [unit |-> kind, of |-> v]
=============================================================================
