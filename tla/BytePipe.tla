------------------------------ MODULE BytePipe ------------------------------
(***************************************************************************)
(* What a channel promises its two applications, with no windows, no       *)
(* messages and no handshake: a pair of byte pipes of bounded capacity,    *)
(* one per direction.  A byte is known by its position in its stream, so   *)
(* "read[p] = k" says that the application at the other end has been given *)
(* exactly the first k bytes, in order.  Channel implements this module.   *)
(***************************************************************************)
EXTENDS Naturals

CONSTANTS
  Pipes,     \* the directions, named by their writing end
  Capacity   \* how many written bytes may be unread at any time

VARIABLES
  written,   \* written[p]: bytes the writer of p has handed over
  read,      \* read[p]: bytes the reader of p has been given
  shut,      \* shut[p]: the writer of p will write no more
  ended      \* ended[p]: the reader of p was told that the stream is over

pipeVars == <<written, read, shut, ended>>

Init ==
  /\ written = [p \in Pipes |-> 0]
  /\ read = [p \in Pipes |-> 0]
  /\ shut = [p \in Pipes |-> FALSE]
  /\ ended = [p \in Pipes |-> FALSE]

Write(p) ==
  /\ ~shut[p]
  /\ \E total \in written[p] + 1 .. read[p] + Capacity :
       written' = [written EXCEPT ![p] = total]
  /\ UNCHANGED <<read, shut, ended>>

Read(p) ==
  /\ ~ended[p]
  /\ \E total \in read[p] + 1 .. written[p] : read' = [read EXCEPT ![p] = total]
  /\ UNCHANGED <<written, shut, ended>>

Shut(p) ==
  /\ ~shut[p]
  /\ shut' = [shut EXCEPT ![p] = TRUE]
  /\ UNCHANGED <<written, read, ended>>

\* End of stream is only reported once everything written has been read.
End(p) ==
  /\ shut[p]
  /\ read[p] = written[p]
  /\ ended' = [ended EXCEPT ![p] = TRUE]
  /\ UNCHANGED <<written, read, shut>>

Next == \E p \in Pipes : Write(p) \/ Read(p) \/ Shut(p) \/ End(p)

Spec == Init /\ [][Next]_pipeVars
=============================================================================
