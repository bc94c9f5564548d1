----------------------------- MODULE Selection -----------------------------
(* The rows a query selects, in the order of the table: what a WHERE clause *)
(* of src/reasoning/storage.rs leaves of a sequence.                        *)
EXTENDS Integers, Sequences

\* The members of s that are in S.
Selected(s, S) ==
    LET part[n \in 0 .. Len(s)] ==
          IF n = 0 THEN <<>>
          ELSE IF s[n] \in S THEN Append(part[n - 1], s[n]) ELSE part[n - 1]
    IN  part[Len(s)]

=============================================================================
