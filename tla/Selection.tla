------------------------------- MODULE Selection -------------------------------
(* What a WHERE clause or a filter leaves of a sequence: the elements that are in *)
(* a set, in their order.                                                        *)
EXTENDS Integers, Sequences

Where(s, S) ==
  LET kept[n \in 0 .. Len(s)] ==
        IF n = 0 THEN <<>>
        ELSE IF s[n] \in S THEN Append(kept[n - 1], s[n]) ELSE kept[n - 1]
  IN  kept[Len(s)]
================================================================================
