--------------------------- MODULE MCAuthLogTail ---------------------------
(* Instances of AuthLogTail. *)
EXTENDS AuthLogTail

\* A failure written in two pieces, an over-long line, and a "repeated 2 times" summary of
\* the first line, all of one second.
MCKind ==
    <<[ts |-> 1, key |-> "failed", count |-> 1],
      [ts |-> 1, key |-> "other", count |-> 1],
      [ts |-> 1, key |-> "failed", count |-> 2]>>
MCParts == <<2, 3, 1>>

\* Plain lines only.
PlainKind == [n \in 1..3 |-> [ts |-> n, key |-> "failed", count |-> 1]]
PlainParts == [n \in 1..3 |-> 1]
=============================================================================
