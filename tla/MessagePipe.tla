----------------------------- MODULE MessagePipe -----------------------------
(***************************************************************************)
(* What a session promises to the code above it: messages of each end      *)
(* arrive at the other one in the order in which they were sent, each at   *)
(* most once and unchanged; Disconnect is the last message of an end, and  *)
(* an end whose connection is closed takes no part any more.               *)
(***************************************************************************)
EXTENDS Naturals, Sequences, SequencesExt

CONSTANT Ends, Other(_)

VARIABLES accepted,   \* messages that an end was given to send
          delivered,  \* messages that an end has handled
          closed      \* ends that have closed their connection
vars == <<accepted, delivered, closed>>

Init ==
  /\ accepted = [e \in Ends |-> <<>>]
  /\ delivered = [e \in Ends |-> <<>>]
  /\ closed = {}

Ended(e) == \E i \in DOMAIN accepted[e] : accepted[e][i].type = "Disconnect"

\* One more message, or none.
MayAccept(e) ==
  \/ UNCHANGED accepted
  \/ /\ ~Ended(e)
     /\ IsPrefix(accepted[e], accepted'[e])
     /\ Len(accepted'[e]) = Len(accepted[e]) + 1
     /\ accepted' = [accepted EXCEPT ![e] = accepted'[e]]

\* The next message of the peer is handled; the handler may answer it.
MayDeliver(e) ==
  \/ UNCHANGED delivered
  \/ /\ Len(delivered[e]) < Len(accepted[Other(e)])
     /\ delivered' = [delivered EXCEPT ![e] =
                        Append(@, accepted[Other(e)][Len(@) + 1])]

Work(e) ==
  /\ e \notin closed
  /\ MayAccept(e)
  /\ MayDeliver(e)
  /\ closed' \in {closed, closed \cup {e}}

Next == \E e \in Ends : Work(e)
Spec == Init /\ [][Next]_vars
=============================================================================
