---------------------------- MODULE FormOperations ----------------------------
(***************************************************************************)
(* What the form status centre promises its clients, for one form: one     *)
(* operation at a time, each under an id of its own; a render or a delete  *)
(* accepted while an operation is under way is put aside and carried out   *)
(* later, once, in the order of acceptance, unless the form is deleted     *)
(* first.  How the centre decides is left open.                            *)
(***************************************************************************)
EXTENDS Naturals, Sequences

CONSTANTS
    Requests,   \* renders and deletes, records with a field `event`
    Phase,      \* an event that starts an operation -> the operation
    Rest        \* the phases without an operation under way

VARIABLES phase, issued, pending

Operations == {Phase[e] : e \in DOMAIN Phase}

Init == phase = "INIT" /\ issued = 0 /\ pending = <<>>

\* An operation begins under a fresh id: at rest, or where another one ends.
Begin(op) == phase' = op /\ issued' = issued + 1

BeginAtRest ==
    /\ phase \in Rest
    /\ \E op \in Operations : Begin(op)
    /\ UNCHANGED pending

\* A render or a delete waits its turn.
PutAside(r) ==
    /\ phase \in Operations
    /\ pending' = Append(pending, r)
    /\ UNCHANGED <<phase, issued>>

End ==
    /\ phase \in Operations
    /\ phase' \in Rest
    /\ UNCHANGED <<issued, pending>>

\* The next one starts at once: the first put aside ...
EndAndBeginNext ==
    /\ phase \in Operations
    /\ pending # <<>>
    /\ Begin(Phase[Head(pending).event])
    /\ pending' = Tail(pending)

\* ... or the same again, or one of those that may be forgotten.
EndAndBeginOther(op) ==
    /\ phase \in Operations
    /\ op = phase \/ op \in {"RECYCLING_DATA", "RECYCLING", "RECOVERING"}
    /\ Begin(op)
    /\ UNCHANGED pending

\* The form is gone, with everything put aside for it.
Finish ==
    /\ phase = "DELETING"
    /\ phase' = "INIT" /\ pending' = <<>>
    /\ UNCHANGED issued

Next ==
    \/ BeginAtRest \/ End \/ EndAndBeginNext \/ Finish
    \/ \E r \in Requests : PutAside(r)
    \/ \E op \in Operations : EndAndBeginOther(op)

Spec == Init /\ [][Next]_<<phase, issued, pending>>

================================================================================
