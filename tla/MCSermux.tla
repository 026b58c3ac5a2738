------------------------------ MODULE MCSermux ------------------------------
(* A small instance of Sermux: the bytes of two services, and programs that *)
(* send the escape character and the character it is escaped to.            *)
EXTENDS Sermux

MCData == [base : Bufs \cup {"esc", "force", "letter"}, flip : BOOLEAN]

MCChars == {[base |-> "esc", flip |-> f] : f \in BOOLEAN}
=============================================================================
