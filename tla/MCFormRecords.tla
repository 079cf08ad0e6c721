--------------------------- MODULE MCFormRecords ---------------------------
EXTENDS FormRecords, TLC

CONSTANTS h1, h2, u1, u2

MCUidOf(h) == IF h = h1 THEN u1 ELSE u2

\* The forms are alike, and so are the two applications with their processes.
Alike == Permutations(Forms) \cup {h1 :> h2 @@ h2 :> h1 @@ u1 :> u2 @@ u2 :> u1}
=============================================================================
