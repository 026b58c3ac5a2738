----------------------------- MODULE ByteStream -----------------------------
(***************************************************************************)
(* What a protosocket promises its two ends (src/uip/psock.h): a blocking  *)
(* send hands over no byte before all the earlier ones have arrived, bytes *)
(* arrive in order, and the stream ends only when nothing is on its way.   *)
(***************************************************************************)
EXTENDS Naturals

VARIABLES
  written,   \* bytes the sender has handed over
  received,  \* bytes the receiver has got
  eof        \* the receiver has seen the end of the stream

vars == <<written, received, eof>>

Init == written = 0 /\ received = 0 /\ eof = FALSE

\* PSOCK_SEND, PSOCK_GENERATOR_SEND.
Write ==
  /\ received = written /\ ~eof
  /\ written' \in Nat /\ written' > written
  /\ UNCHANGED <<received, eof>>

Arrive ==
  /\ received' \in received+1 .. written
  /\ UNCHANGED <<written, eof>>

\* PSOCK_CLOSE.
End ==
  /\ received = written /\ ~eof
  /\ eof' = TRUE
  /\ UNCHANGED <<written, received>>

Next == Write \/ Arrive \/ End

Spec == Init /\ [][Next]_vars
=============================================================================
