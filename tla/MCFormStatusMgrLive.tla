------------------------- MODULE MCFormStatusMgrLive -------------------------
(***************************************************************************)
(* FormStatusMgr with a render service that never answers: its operations  *)
(* end by their timeouts and retries alone.  Releases reach the render     *)
(* service (see README, "What does not hold").                             *)
(***************************************************************************)
EXTENDS FormStatusMgr

LiveNext == Next /\ ~ReleaseRenderer(TRUE)

\* The worker runs what is queued, and a delay that nobody cancels is over.
\* Binder threads act on a reply.  Clients and the render service owe nothing.
Fairness ==
    /\ WF_vars(Machine \/ (TaskFunctions /\ LiveNext))
    /\ WF_vars(Delays)
    /\ WF_vars(\E m \in matched : PostReply(m))

LiveSpec == Init /\ [][LiveNext]_vars /\ Fairness

(* Every operation ends: whatever the clients post meanwhile, the status   *)
(* returns to one in which the form accepts requests.                      *)
OperationsEnd == status \in Busy ~> status \notin Busy

================================================================================
