----------------------------- MODULE MCChannel ------------------------------
(* Small instances of Channel for TLC. *)
EXTENDS Channel

\* A stream longer than the window, so that the credit runs out and is given
\* back more than once, and a little traffic in the other direction.
FlowLimit == [e \in Ends |-> IF e = "initiator" THEN 10 ELSE 1]

\* Just more than a window of six, for the liveness properties.
StarvingLimit == [e \in Ends |-> IF e = "initiator" THEN 7 ELSE 0]
=============================================================================
