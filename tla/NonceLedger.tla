----------------------------- MODULE NonceLedger -----------------------------
(***************************************************************************)
(* What the wallet's nonce allocator promises, whatever crashes, failed    *)
(* writes and unreachable RPC endpoints it meets: a nonce is first booked  *)
(* for one solution, for good, and is then handed out at most once, in     *)
(* increasing order.                                                       *)
(***************************************************************************)
EXTENDS Integers, Sequences

CONSTANTS Solutions, Nonces

VARIABLES
  book,     \* the bookings [nonce, sol], durable
  issued    \* the bookings handed to a submit handler, in order

ledgerVars == <<book, issued>>

Booking == [nonce : Nonces, sol : Solutions]

Init == book = {} /\ issued = <<>>

\* A nonce nobody holds a booking for is booked and, in the same step or never,
\* handed out: everything handed out before has a lower nonce.
Book(b) ==
  /\ \A c \in book : c.nonce # b.nonce
  /\ book' = book \cup {b}
  /\ \/ UNCHANGED issued
     \/ /\ \A i \in 1..Len(issued) : issued[i].nonce < b.nonce
        /\ issued' = Append(issued, b)

Next == \E b \in Booking : Book(b)

Spec == Init /\ [][Next]_ledgerVars
=============================================================================
