---------------------------- MODULE MCFormTimers ----------------------------
EXTENDS FormTimers, TLC

\* The forms are alike, and so are the threads.
Alike == Permutations(Forms) \cup Permutations(Threads)
=============================================================================
