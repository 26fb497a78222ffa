------------------------------ MODULE Selection ------------------------------
(* The elements of a sequence that are in a set, in their order (Vec::retain). *)
EXTENDS Naturals, Sequences

Selected(s, T) ==
    LET upTo[i \in 0..Len(s)] ==
          IF i = 0 THEN <<>>
          ELSE IF s[i] \in T THEN Append(upTo[i - 1], s[i]) ELSE upTo[i - 1]
    IN upTo[Len(s)]
=============================================================================
