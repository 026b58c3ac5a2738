--------------------------- MODULE MCPsockStream ---------------------------
(* Small responses for TLC. *)
EXTENDS PsockStream

Item(kind, n) == [kind |-> kind, len |-> n]

\* All that a response can be made of: a header, HTML before a tag, the output of
\* the tag, a file that takes two segments, the second of them short.
Response == <<Item("send", 2), Item("html", 3), Item("send", 3), Item("file", 4),
              Item("send", 1)>>

============================================================================
