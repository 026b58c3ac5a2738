----------------------------- MODULE MCRemoteFs -----------------------------
(* A small instance of RemoteFs for TLC: a read that takes two requests. *)
EXTENDS RemoteFs

MCCalls == {[op |-> "open", len |-> 0], [op |-> "read", len |-> 3],
            [op |-> "write", len |-> 1], [op |-> "lseek", len |-> 0]}
=============================================================================
