------------------------------ MODULE MCUipTcp ------------------------------
(* Small instances of UipTcp for TLC. *)
EXTENDS UipTcp

CONSTANT DestPorts   \* the local ports segments are addressed to

\* A field of a segment that uip_process does not look at has one value only:
\* seqok of a segment without data, SYN or FIN, ackok of one without ACK.
Seg(r, p, f, data, seqok, ackok) ==
  [remote |-> r, destport |-> p, flags |-> f, data |-> data,
   seqok |-> seqok, ackok |-> ackok]

MCSegments ==
  UNION { {Seg(r, p, {"RST"}, FALSE, TRUE, TRUE)}
            \cup {Seg(r, p, {"SYN"}, FALSE, s, TRUE) : s \in BOOLEAN}
            \cup {Seg(r, p, {"ACK"}, FALSE, TRUE, a) : a \in BOOLEAN}
            \cup {Seg(r, p, {"ACK"}, TRUE, s, a) : s, a \in BOOLEAN}
            \cup {Seg(r, p, f, FALSE, s, a) :
                    f \in {{"SYN", "ACK"}, {"FIN", "ACK"}}, s, a \in BOOLEAN}
          : r \in Remotes, p \in DestPorts }
=============================================================================
