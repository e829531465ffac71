--------------------------- MODULE NetworkConnection ---------------------------
(***************************************************************************)
(* The socket of one visitor and the way it gets connected.  Source:       *)
(* src/src/common/net/NetworkConnection.cc and AddressCache.cc.            *)
(*                                                                         *)
(* Connect() tries the addresses of a host one after the other without     *)
(* blocking: first the one the address cache remembers, then those the     *)
(* resolver returns.  A socket record is                                   *)
(*   kernel    "none", "connecting", "up" or "failed" (refused or reset)   *)
(*   address   the address of the current attempt, cached: from the cache  *)
(*   left      the addresses still to try                                  *)
(*   timer     connectTimer is armed                                       *)
(*   inbox     bytes the local application wrote and nobody has read yet   *)
(*   fin       the local application has shut down its side                *)
(*   outbox    bytes written to the application and not yet taken by it    *)
(***************************************************************************)
EXTENDS Integers, Sequences

CONSTANTS
  NumAddresses,  \* how many addresses the resolver returns
  OutCapacity    \* bytes the send buffer of the socket holds

ASSUME NetworkConnectionAssumption ==
  /\ NumAddresses \in Nat
  /\ OutCapacity \in Nat \ {0}

Addresses == 1 .. NumAddresses
NoAddress == 0

NoSocket ==
  [kernel |-> "none", address |-> NoAddress, cached |-> FALSE, left |-> <<>>,
   timer |-> FALSE, inbox |-> 0, fin |-> FALSE, outbox |-> 0]
\* A connection that a listener has accepted.
AcceptedSocket == [NoSocket EXCEPT !.kernel = "up"]

\* Everything getNextAddressToConnect() will return, in its order; cache is
\* the entry of the host in the address cache.
AddressesFor(cache) ==
  (IF cache = NoAddress THEN <<>> ELSE <<[address |-> cache, cached |-> TRUE]>>)
    \o [i \in Addresses |-> [address |-> i, cached |-> FALSE]]

\* Mutant: an attempt under way is given all the time it wants.
AttemptUntimed(sock, i, kernel) ==
  [sock EXCEPT !.kernel = kernel,
               !.address = sock.left[i].address,
               !.cached = sock.left[i].cached,
               !.left = SubSeq(sock.left, i + 1, Len(sock.left))]

\* The i-th of the addresses left is being tried.
Attempt(sock, i, kernel) ==
  [sock EXCEPT !.kernel = kernel,
               !.address = sock.left[i].address,
               !.cached = sock.left[i].cached,
               !.left = SubSeq(sock.left, i + 1, Len(sock.left)),
               !.timer = kernel = "connecting"]

\* Mutant: only the first of the addresses left is tried.
TryOneAddress(sock) ==
  IF sock.left = <<>>
  THEN {[NoSocket EXCEPT !.kernel = "failed"]}
  ELSE {Attempt(sock, 1, kernel) : kernel \in {"connecting", "up"}}
         \cup {[NoSocket EXCEPT !.kernel = "failed", !.left = Tail(sock.left)]}

\* tryNonBlockingConnect(): the addresses before the i-th fail at once, that
\* one is under way or succeeds at once; or every address fails at once.
TryNonBlockingConnect(sock) ==
  {Attempt(sock, i, kernel) :
     i \in DOMAIN sock.left, kernel \in {"connecting", "up"}}
    \cup {[NoSocket EXCEPT !.kernel = "failed"]}

\* The addresses passed over between one attempt and the next.
PassedOver(sock, next) ==
  LET gone == Len(sock.left) - Len(next.left)
  IN  {sock.left[i].address :
         i \in 1 .. (IF next.kernel = "failed" THEN gone ELSE gone - 1)}

\* Once connected, nobody looks at the addresses again.
Settled(sock) == [sock EXCEPT !.address = NoAddress, !.cached = FALSE, !.left = <<>>]

\* What there is to poll for.
Readiness(sock) ==
  (IF sock.kernel = "failed" THEN {"in", "out", "hup"} ELSE {})
    \cup (IF sock.kernel = "up" /\ (sock.inbox > 0 \/ sock.fin) THEN {"in"} ELSE {})
    \cup (IF sock.kernel = "up" /\ sock.outbox < OutCapacity THEN {"out"} ELSE {})

\* recv() has nothing and says so: TryAgain().
WouldBlock(sock) ==
  \/ sock.kernel = "connecting"
  \/ sock.kernel = "up" /\ sock.inbox = 0 /\ ~sock.fin

\* send() takes what fits into its buffer.
Writable(sock) == IF sock.kernel = "up" THEN OutCapacity - sock.outbox ELSE 0
=============================================================================
