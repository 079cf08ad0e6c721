----------------------------- MODULE TaskSequences -----------------------------
(***************************************************************************)
(* Filtering a queue.  Keep(s, S) is SelectSeq(s, LAMBDA x : x \in S),     *)
(* written as a recursive function so that its properties can be proved.   *)
(***************************************************************************)
EXTENDS Naturals, Sequences

\* What a filter for S has collected from the first n elements of s.
Collect(s, S) ==
    LET f[n \in 0 .. Len(s)] ==
            IF n = 0 THEN <<>>
            ELSE IF s[n] \in S THEN Append(f[n - 1], s[n]) ELSE f[n - 1]
    IN  f

Keep(s, S) == Collect(s, S)[Len(s)]

================================================================================
