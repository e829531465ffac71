------------------------------- MODULE MCVisitor -------------------------------
(* Module Visitor with the instance that TLC checks. *)
EXTENDS Visitor

MCSendLimit == [e \in Ends |-> IF e = "initiator" THEN 3 ELSE 1]
=============================================================================
