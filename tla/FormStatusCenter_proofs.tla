------------------------ MODULE FormStatusCenter_proofs ------------------------
(***************************************************************************)
(* Proofs about the two services together: they are one of the behaviours  *)
(* FormStatusMgr allows, so that what is proved of the status centre for   *)
(* any render service holds for this one, and an event that ends the       *)
(* execution timeout of an operation is one the operation takes.           *)
(***************************************************************************)
EXTENDS FormStatusCenter, SequenceTheorems, TLAPS

\* What is proved of the status centre alone.
P == INSTANCE FormStatusMgr_proofs

--------------------------------------------------------------------------------
(* FormStatusMgr_proofs extends FormStatusMgr, so its instance comes with  *)
(* definitions of its own.  They are the same formulas.                    *)

LEMMA SameInit == FMS!Init <=> P!Init
  BY DEF FMS!Init, P!Init, FMS!Absent, P!Absent, FMS!NoId, P!NoId, FMS!NoTask, P!NoTask,
         FMS!Task, P!Task, FMS!NoProxy, P!NoProxy

LEMMA SameVars ==
    /\ UNCHANGED FMS!vars <=> UNCHANGED P!vars
    /\ UNCHANGED fvars => UNCHANGED FMS!vars
  <1>1. /\ UNCHANGED FMS!fsm <=> UNCHANGED P!fsm
        /\ UNCHANGED FMS!worker <=> UNCHANGED P!worker
        /\ UNCHANGED FMS!ids <=> UNCHANGED P!ids
        /\ UNCHANGED FMS!record <=> UNCHANGED P!record
        /\ UNCHANGED FMS!env <=> UNCHANGED P!env
    BY Zenon DEF FMS!fsm, P!fsm, FMS!worker, P!worker, FMS!ids, P!ids, FMS!record, P!record,
                 FMS!env, P!env
  <1>2. UNCHANGED FMS!vars <=> UNCHANGED P!vars
    BY <1>1 DEF FMS!vars, P!vars
  <1>3. UNCHANGED fvars => UNCHANGED FMS!vars
    <2>1. UNCHANGED fvars => UNCHANGED FMS!fsm
      BY Zenon DEF FMS!fsm, fvars
    <2>2. UNCHANGED fvars => UNCHANGED FMS!worker
      BY Zenon DEF FMS!worker, fvars
    <2>3. UNCHANGED fvars => UNCHANGED FMS!ids
      BY Zenon DEF FMS!ids, fvars
    <2>4. UNCHANGED fvars => UNCHANGED FMS!record
      BY Zenon DEF FMS!record, fvars
    <2>5. UNCHANGED fvars => UNCHANGED FMS!env
      <3>1. UNCHANGED fvars => UNCHANGED posts
        BY Zenon DEF fvars
      <3>2. UNCHANGED fvars => UNCHANGED replies
        BY Zenon DEF fvars
      <3> QED BY <3>1, <3>2 DEF FMS!env
    <2> QED BY <2>1, <2>2, <2>3, <2>4, <2>5 DEF FMS!vars
  <1> QED BY <1>2, <1>3

LEMMA SameNext == FMS!Next <=> P!Next
  BY Zenon DEF
     FMS!Absent, P!Absent, FMS!AddTaskToQueuePush, P!AddTaskToQueuePush,
     FMS!AddTaskToQueueUnique, P!AddTaskToQueueUnique, FMS!Begin, P!Begin, FMS!BusyRows,
     P!BusyRows, FMS!Clients, P!Clients, FMS!Collect, P!Collect, FMS!DelayOver,
     P!DelayOver, FMS!DelayedBodies, P!DelayedBodies, FMS!Delays, P!Delays,
     FMS!DoneEvents, P!DoneEvents, FMS!Event, P!Event, FMS!ExecFormTaskTimeout,
     P!ExecFormTaskTimeout, FMS!ExecutionTimeout, P!ExecutionTimeout,
     FMS!FORM_STATUS_TABLE, P!FORM_STATUS_TABLE, FMS!FORM_STATUS_TABLE_DELETING,
     P!FORM_STATUS_TABLE_DELETING, FMS!FORM_STATUS_TABLE_INIT, P!FORM_STATUS_TABLE_INIT,
     FMS!FORM_STATUS_TABLE_RECOVERING, P!FORM_STATUS_TABLE_RECOVERING,
     FMS!FORM_STATUS_TABLE_RECYCLED, P!FORM_STATUS_TABLE_RECYCLED,
     FMS!FORM_STATUS_TABLE_RECYCLING, P!FORM_STATUS_TABLE_RECYCLING,
     FMS!FORM_STATUS_TABLE_RECYCLING_DATA, P!FORM_STATUS_TABLE_RECYCLING_DATA,
     FMS!FORM_STATUS_TABLE_RENDERED, P!FORM_STATUS_TABLE_RENDERED,
     FMS!FORM_STATUS_TABLE_RENDERING, P!FORM_STATUS_TABLE_RENDERING,
     FMS!FORM_STATUS_TABLE_UNPROCESSABLE, P!FORM_STATUS_TABLE_UNPROCESSABLE,
     FMS!FailEvents, P!FailEvents, FMS!FormFsmEvent, P!FormFsmEvent, FMS!FormFsmStatus,
     P!FormFsmStatus, FMS!FromQueue, P!FromQueue, FMS!Funcs, P!Funcs, FMS!FuncsOf,
     P!FuncsOf, FMS!GetFormStatus, P!GetFormStatus, FMS!GetFormStatusInfo,
     P!GetFormStatusInfo, FMS!HandleFrsEventReply, P!HandleFrsEventReply, FMS!HasRow,
     P!HasRow, FMS!Idle, P!Idle, FMS!IsFormProcessRecycle, P!IsFormProcessRecycle,
     FMS!IsMsg, P!IsMsg, FMS!Keep, P!Keep, FMS!Machine, P!Machine, FMS!MayRecover,
     P!MayRecover, FMS!Msgs, P!Msgs, FMS!Next, P!Next, FMS!NextStatus, P!NextStatus,
     FMS!NoId, P!NoId, FMS!NoProxy, P!NoProxy, FMS!NoTask, P!NoTask, FMS!OnRecycleForm,
     P!OnRecycleForm, FMS!Post, P!Post, FMS!PostDelayReleaseRenderer,
     P!PostDelayReleaseRenderer, FMS!PostRecoverForm, P!PostRecoverForm,
     FMS!PostRecycleForms, P!PostRecycleForms, FMS!PostReleaseRenderer,
     P!PostReleaseRenderer, FMS!PostRenderForm, P!PostRenderForm, FMS!PostReply,
     P!PostReply, FMS!PostStopRenderingForm, P!PostStopRenderingForm,
     FMS!ProcessTaskDelete, P!ProcessTaskDelete, FMS!ProcessTaskDirect,
     P!ProcessTaskDirect, FMS!ProcessTaskFromQueue, P!ProcessTaskFromQueue,
     FMS!ProcessTaskFromRetry, P!ProcessTaskFromRetry, FMS!Push, P!Push,
     FMS!RecoverForm, P!RecoverForm, FMS!RecycleForm, P!RecycleForm, FMS!RecycleTimeout,
     P!RecycleTimeout, FMS!RecycleTimerDue, P!RecycleTimerDue, FMS!RejectTask,
     P!RejectTask, FMS!ReleaseDelayDue, P!ReleaseDelayDue, FMS!ReleaseRenderer,
     P!ReleaseRenderer, FMS!RenderForm, P!RenderForm, FMS!Replies, P!Replies,
     FMS!Report, P!Report, FMS!Request, P!Request, FMS!RestoreDue, P!RestoreDue,
     FMS!RestoreRecycled, P!RestoreRecycled, FMS!Retained, P!Retained, FMS!Row, P!Row,
     FMS!Run, P!Run, FMS!StartRows, P!StartRows, FMS!Starts, P!Starts, FMS!Step, P!Step,
     FMS!StopRenderingForm, P!StopRenderingForm, FMS!Task, P!Task, FMS!TaskFunctions,
     P!TaskFunctions, FMS!Tasks, P!Tasks, FMS!TasksOf, P!TasksOf, FMS!Without,
     P!Without, FMS!env, P!env, FMS!fsm, P!fsm, FMS!ids, P!ids, FMS!record, P!record,
     FMS!worker, P!worker

\* The assumptions of the instance, and its invariant step by step.
LEMMA InstanceAssumption == P!FormStatusMgrAssumption
  BY FormStatusCenterAssumption DEF P!FormStatusMgrAssumption, Proxies

LEMMA ManagerInit == FMS!Init => P!Inv
  BY SameInit, InstanceAssumption, P!InitInv DEF P!FormStatusMgrAssumption

LEMMA ManagerStep ==
    ASSUME P!Inv, [FMS!Next]_(FMS!vars)
    PROVE  /\ P!Inv'
           /\ lastId' \in {lastId, lastId + 1}
           /\ status' \in P!Busy /\ lastId' = lastId => status' = status
  <1>1. [P!Next]_(P!vars)
    BY SameVars, SameNext
  <1>2. P!FormStatusMgrAssumption
    BY InstanceAssumption
  <1>3. P!Inv'
    BY <1>1, <1>2, P!NextInv DEF P!FormStatusMgrAssumption
  <1>4. /\ lastId' \in {lastId, lastId + 1}
        /\ status' \in P!Busy /\ lastId' = lastId => status' = status
    BY <1>1, <1>2, P!IdsAreFresh DEF P!FormStatusMgrAssumption
  <1> QED BY <1>3, <1>4

--------------------------------------------------------------------------------
(* What travels between the services belongs to an operation of the        *)
(* manager: L holds pairs of an operation and an event id.                 *)

\* The operation a call starts, and the one a reply or a failure ends.
Starting(op) == FRS!Starts[FRS!EventOf[op]]
Ending == [RENDER_FORM_DONE   |-> "RENDERING",      RENDER_FORM_FAIL  |-> "RENDERING",
           RECYCLE_DATA_DONE  |-> "RECYCLING_DATA", RECYCLE_DATA_FAIL |-> "RECYCLING_DATA",
           RECYCLE_FORM_DONE  |-> "RECYCLING",      RECYCLE_FORM_FAIL |-> "RECYCLING",
           RECOVER_FORM_DONE  |-> "RECOVERING",     RECOVER_FORM_FAIL |-> "RECOVERING",
           DELETE_FORM_DONE   |-> "DELETING",       DELETE_FORM_FAIL  |-> "DELETING",
           DELETE_FORM_FINISH |-> "DELETING"]

CallsIn(L)   == {t \in [op: FRS!SyncOps, id: Nat] : <<Starting(t.op), t.id>> \in L}
\* A release may have been sent for a form that has been deleted meanwhile.
AsyncsIn(L)  == {t \in [op: FRS!AsyncOps, id: Nat] :
                    \/ <<Starting(t.op), t.id>> \in L
                    \/ t.op = "ReleaseRenderer" /\ t.id = FMS!NoId}
RepliesIn(L) == {r \in [event: FRS!Replies, id: Nat, waits: {"js", "binder", "none"}] :
                    <<Ending[r.event], r.id>> \in L}

CallIn(L) ==
    call # FRS!NoCall => /\ call \in [op: FRS!SyncOps, id: Nat, at: {"sent", "accepted", "OK", "ERR"}]
                         /\ <<Starting(call.op), call.id>> \in L
Carries(L) ==
    /\ CallIn(L)
    /\ jsq \in Seq(CallsIn(L))
    /\ inbox \in Seq(AsyncsIn(L)) /\ (working => inbox # <<>>)
    /\ outbox \subseteq RepliesIn(L)

\* A reply carries the id of the call it answers.
LEMMA ReplyCarried ==
    ASSUME NEW L, outbox \subseteq RepliesIn(L),
           NEW e \in FRS!Replies, NEW id \in Nat, <<Ending[e], id>> \in L,
           FRS!PostReplyEvent(e, id)
    PROVE  outbox' \subseteq RepliesIn(L)
  <1>1. FRS!Waits(e) \in {"js", "binder", "none"}
    BY DEF FRS!Waits
  <1>2. [event |-> e, id |-> id, waits |-> FRS!Waits(e)] \in RepliesIn(L)
    BY <1>1 DEF RepliesIn
  <1> QED BY <1>2 DEF FRS!PostReplyEvent

LEMMA OperationsOfCalls ==
    /\ Starting("RenderForm") = "RENDERING" /\ Starting("UpdateForm") = "RENDERING"
    /\ Starting("RecycleForm") = "RECYCLING_DATA" /\ Starting("RecoverForm") = "RECOVERING"
    /\ Starting("ReleaseRenderer") = "RECYCLING"
    /\ Starting("StopRenderingForm") = "DELETING" /\ Starting("StopComponent") = "DELETING"
  BY DEF Starting, FRS!EventOf, FRS!Starts, FRS!SyncOps, FRS!AsyncOps

LEMMA NoCallIsNone == FRS!NoCall.at = "none"
  BY DEF FRS!NoCall

\* The handlers of the synchronous calls.
LEMMA HandlersCarry ==
    ASSUME NEW L, Carries(L),
           FRS!ReceiveCall \/ FRS!RenderForm \/ FRS!RecycleForm \/ FRS!RecoverForm
    PROVE  Carries(L)'
  <1> USE DEF Carries
  <1>1. /\ call \in [op: FRS!SyncOps, id: Nat, at: {"sent", "accepted", "OK", "ERR"}]
        /\ <<Starting(call.op), call.id>> \in L
        /\ UNCHANGED <<inbox, working>>
        /\ \E r \in {"accepted", "OK", "ERR"} : call' = [call EXCEPT !.at = r]
    BY NoCallIsNone
    DEF FRS!ReceiveCall, FRS!RenderForm, FRS!RecycleForm, FRS!RecoverForm, FRS!Handles, FRS!Return,
        CallIn
  <1>2. CallIn(L)'
    BY <1>1 DEF CallIn
  <1>3. jsq' \in Seq(CallsIn(L))
    <2>1. CASE UNCHANGED jsq
      BY <2>1
    <2>2. CASE jsq' = Append(jsq, [op |-> call.op, id |-> call.id])
      <3>1. [op |-> call.op, id |-> call.id] \in CallsIn(L)
        BY <1>1 DEF CallsIn
      <3> QED BY <2>2, <3>1
    <2> QED BY <2>1, <2>2 DEF FRS!ReceiveCall, FRS!RenderForm, FRS!RecycleForm, FRS!RecoverForm
  <1>4. outbox' \subseteq RepliesIn(L)
    <2>1. CASE UNCHANGED outbox
      BY <2>1
    <2>2. CASE FRS!PostReplyEvent("RECYCLE_DATA_DONE", call.id) /\ call.op = "RecycleForm"
      <3>1. <<Ending["RECYCLE_DATA_DONE"], call.id>> \in L /\ call.id \in Nat
        BY <1>1, <2>2, OperationsOfCalls DEF Ending
      <3> QED BY <2>2, <3>1, ReplyCarried DEF FRS!Replies
    <2> QED BY <2>1, <2>2
            DEF FRS!ReceiveCall, FRS!RenderForm, FRS!RecycleForm, FRS!RecoverForm, FRS!Handles
  <1> QED BY <1>1, <1>2, <1>3, <1>4

\* The asynchronous ones.
LEMMA WorksCarry ==
    ASSUME NEW L, Carries(L),
           FRS!ReceiveAsync \/ FRS!ReleaseRenderer \/ FRS!StopRenderingForm
    PROVE  Carries(L)'
  <1> USE DEF Carries
  <1> DEFINE m == Head(inbox)
  <1>1. /\ inbox # <<>> /\ UNCHANGED <<call, jsq>>
        /\ \/ inbox' = inbox
           \/ inbox' = Tail(inbox) /\ ~working'
    BY DEF FRS!ReceiveAsync, FRS!ReleaseRenderer, FRS!StopRenderingForm, FRS!Works
  <1>2. m \in AsyncsIn(L) /\ Tail(inbox) \in Seq(AsyncsIn(L))
    BY <1>1, HeadTailProperties
  <1>3. CallIn(L)'
    BY <1>1 DEF CallIn
  <1>4. outbox' \subseteq RepliesIn(L)
    <2>1. CASE UNCHANGED outbox
      BY <2>1
    <2>2. CASE /\ m.op = "ReleaseRenderer" /\ m.id # FMS!NoId
               /\ \E e \in {"RECYCLE_FORM_DONE", "RECYCLE_FORM_FAIL"} : FRS!PostReplyEvent(e, m.id)
      <3>1. PICK e \in {"RECYCLE_FORM_DONE", "RECYCLE_FORM_FAIL"} : FRS!PostReplyEvent(e, m.id)
        BY <2>2
      <3>2. <<Ending[e], m.id>> \in L /\ m.id \in Nat /\ e \in FRS!Replies
        BY <1>2, <2>2, OperationsOfCalls DEF AsyncsIn, Ending, FRS!Replies
      <3> QED BY <3>1, <3>2, ReplyCarried
    <2>3. CASE /\ m.op \in {"StopRenderingForm", "StopComponent"}
               /\ \E e \in {"DELETE_FORM_DONE", "DELETE_FORM_FAIL", "DELETE_FORM_FINISH"} :
                     FRS!PostReplyEvent(e, m.id)
      <3>1. PICK e \in {"DELETE_FORM_DONE", "DELETE_FORM_FAIL", "DELETE_FORM_FINISH"} :
               FRS!PostReplyEvent(e, m.id)
        BY <2>3
      <3>2. <<Ending[e], m.id>> \in L /\ m.id \in Nat /\ e \in FRS!Replies
        BY <1>2, <2>3, OperationsOfCalls DEF AsyncsIn, Ending, FRS!Replies
      <3> QED BY <3>1, <3>2, ReplyCarried
    <2> QED BY <2>1, <2>2, <2>3
            DEF FRS!ReceiveAsync, FRS!ReleaseRenderer, FRS!StopRenderingForm, FRS!Works
  <1> QED BY <1>1, <1>2, <1>3, <1>4

\* The JS thread, the timer and a crash.
LEMMA ThreadsCarry ==
    ASSUME NEW L, Carries(L), FRS!JsThread \/ FRS!RecycleTimerFires \/ FRS!Crash
    PROVE  Carries(L)'
  <1> USE DEF Carries
  <1>1. CASE FRS!JsThread
    <2> DEFINE t == Head(jsq)
    <2>1. /\ jsq # <<>> /\ jsq' = Tail(jsq) /\ UNCHANGED <<call, inbox, working>>
          /\ \/ t.op \in {"RenderForm", "UpdateForm"} /\ FRS!PostReplyEvent("RENDER_FORM_DONE", t.id)
             \/ t.op = "RecoverForm" /\ FRS!PostReplyEvent("RECOVER_FORM_DONE", t.id)
      BY <1>1 DEF FRS!JsThread, FRS!HandleUpdateRenderRecord, FRS!HandleRecoverForm, FRS!JsTask
    <2>2. t \in CallsIn(L) /\ jsq' \in Seq(CallsIn(L))
      BY <2>1, HeadTailProperties
    <2>3. \E e \in FRS!Replies : <<Ending[e], t.id>> \in L /\ FRS!PostReplyEvent(e, t.id)
      BY <2>1, <2>2, OperationsOfCalls DEF CallsIn, Ending, FRS!Replies
    <2>4. outbox' \subseteq RepliesIn(L)
      BY <2>2, <2>3, ReplyCarried DEF CallsIn
    <2> QED BY <2>1, <2>2, <2>4 DEF CallIn
  <1>2. CASE FRS!RecycleTimerFires
    BY <1>2 DEF FRS!RecycleTimerFires, CallIn
  <1>3. CASE FRS!Crash
    <2>1. CallIn(L)'
      BY <1>3 DEF FRS!Crash, CallIn
    <2>2. jsq' \in Seq(CallsIn(L)) /\ inbox' \in Seq(AsyncsIn(L)) /\ ~working'
      BY <1>3, EmptySeq DEF FRS!Crash
    <2>3. outbox' \subseteq RepliesIn(L)
      <3>1. \A r \in RepliesIn(L) : [r EXCEPT !.waits = "none"] \in RepliesIn(L)
        BY DEF RepliesIn
      <3> QED BY <1>3, <3>1 DEF FRS!Crash
    <2> QED BY <2>1, <2>2, <2>3
  <1> QED BY <1>1, <1>2, <1>3

--------------------------------------------------------------------------------
(* The inductive invariant.                                                *)

\* What may be under way: whatever carries the id of the operation under way
\* is about that operation, or about a release, which takes any id.
Issued ==
    {p \in FMS!Busy \X (1 .. lastId) :
        \/ p[1] = "RECYCLING" \/ p[2] # eventId
        \/ status \notin FMS!Busy \/ p[1] = status}

\* A reply found current is one of these, too.
MatchedIn(L) ==
    \A m \in matched : m.event \in FRS!Replies /\ m.id \in Nat /\ <<Ending[m.event], m.id>> \in L

\* A proxy belongs to a process there is or was.
ProxiesAreProcesses == process \in Proxies /\ renderObj \in Proxies \cup {NoProxy}

IInv == P!Inv /\ Carries(Issued) /\ MatchedIn(Issued) /\ ProxiesAreProcesses

LEMMA InitIInv == Init => IInv
  <1> SUFFICES ASSUME Init PROVE IInv
    OBVIOUS
  <1>1. P!Inv
    BY ManagerInit DEF Init
  <1>2. Carries(Issued)
    BY EmptySeq DEF Init, FRS!Init, Carries, CallIn
  <1>3. MatchedIn(Issued)
    BY DEF Init, FMS!Init, MatchedIn
  <1>4. ProxiesAreProcesses
    BY FormStatusCenterAssumption DEF Init, ProxiesAreProcesses, Proxies
  <1> QED BY <1>1, <1>2, <1>3, <1>4 DEF IInv

\* What the invariant of the status centre says here.
LEMMA ManagerFacts ==
    ASSUME IInv
    PROVE  /\ lastId \in Nat /\ lastId <= MaxEventId /\ eventId \in {lastId, FMS!NoId}
           /\ status \in FMS!Busy => eventId = lastId /\ eventId \in 1 .. lastId
           /\ running # FMS!NoTask =>
                 /\ status \in FMS!Busy
                 /\ running.func = "OnRecycleForm" => status = "RECYCLING_DATA"
                 /\ running.func # "OnRecycleForm" =>
                       running.event \in DOMAIN FMS!Starts /\ status = FMS!Starts[running.event]
                       /\ running.func \in FMS!FuncsOf(running.event)
           /\ FMS!NoTask.func = "null"
  <1>1. P!Inv
    BY DEF IInv
  <1>2. lastId \in Nat /\ lastId <= MaxEventId /\ eventId \in {lastId, FMS!NoId}
    BY <1>1, FormStatusCenterAssumption DEF P!Inv, P!TypeOK, P!NoId, FMS!NoId
  <1>3. status \in FMS!Busy => eventId = lastId /\ eventId \in 1 .. lastId
    BY <1>1, <1>2 DEF P!Inv, P!RetryRepeatsOperation, P!Busy, FMS!Busy, P!NoId, FMS!NoId
  <1>4. FMS!NoTask = P!NoTask /\ FMS!NoTask.func = "null"
    BY DEF FMS!NoTask, P!NoTask, FMS!Task, P!Task, FMS!NoProxy, P!NoProxy
  <1>5. running # FMS!NoTask =>
           /\ status = P!OperationOf(running)
           /\ running.event \in DOMAIN FMS!Starts \cup {"RECYCLE_DATA_DONE"}
           /\ running.func \in FMS!FuncsOf(running.event)
    BY <1>1, <1>4 DEF P!Inv, P!CallOwnsOperation, P!TypeOK, P!TasksOf, P!FuncsOf, FMS!FuncsOf,
                      P!Starts, FMS!Starts
  <1>6. ASSUME running # FMS!NoTask
        PROVE  /\ status \in FMS!Busy
               /\ running.func = "OnRecycleForm" => status = "RECYCLING_DATA"
               /\ running.func # "OnRecycleForm" =>
                     running.event \in DOMAIN FMS!Starts /\ status = FMS!Starts[running.event]
    <2>1. CASE running.event = "RECYCLE_DATA_DONE"
      BY <1>5, <1>6, <2>1 DEF P!OperationOf, FMS!Busy, FMS!FuncsOf
    <2>2. CASE running.event \in DOMAIN FMS!Starts
      <3>1. running.event # "RECYCLE_DATA_DONE" /\ FMS!Starts[running.event] \in FMS!Busy
        BY <2>2 DEF FMS!Starts, FMS!Busy
      <3>2. FMS!Starts = P!Starts
        BY DEF FMS!Starts, P!Starts
      <3>3. running.func # "OnRecycleForm"
        BY <1>5, <1>6, <2>2 DEF FMS!FuncsOf, FMS!Starts
      <3> QED BY <1>5, <1>6, <2>2, <3>1, <3>2, <3>3 DEF P!OperationOf
    <2> QED BY <1>5, <1>6, <2>1, <2>2
  <1> QED BY <1>2, <1>3, <1>4, <1>5, <1>6

\* Nothing that is under way becomes wrong by a step of the centre.
LEMMA IssuedGrows ==
    ASSUME IInv, [FMS!Next]_(FMS!vars)
    PROVE  Issued \subseteq Issued' /\ P!Inv'
  <1>1. /\ P!Inv' /\ lastId' \in {lastId, lastId + 1}
        /\ status' \in P!Busy /\ lastId' = lastId => status' = status
    BY ManagerStep DEF IInv
  <1>2. status' \in P!Busy => eventId' = lastId'
    BY <1>1 DEF P!Inv, P!RetryRepeatsOperation
  <1>3. P!Busy = FMS!Busy
    BY DEF P!Busy, FMS!Busy
  <1>4. lastId \in Nat /\ (status \in FMS!Busy => eventId = lastId)
    BY ManagerFacts
  <1>5. ASSUME NEW p \in Issued PROVE p \in Issued'
    <2>1. p \in FMS!Busy \X (1 .. lastId')
      BY <1>1, <1>4, <1>5 DEF Issued
    <2>2. CASE p[1] = "RECYCLING" \/ status' \notin FMS!Busy \/ p[2] # eventId'
      BY <2>1, <2>2 DEF Issued, FMS!Busy
    <2>3. CASE p[1] # "RECYCLING" /\ status' \in FMS!Busy /\ p[2] = eventId'
      <3>1. p[2] <= lastId /\ p[2] = lastId'
        BY <1>2, <1>3, <1>4, <1>5, <2>3 DEF Issued
      <3>2. lastId' = lastId /\ status' = status
        BY <1>1, <1>3, <1>4, <2>3, <3>1
      <3>3. p[1] = status'
        BY <1>2, <1>3, <1>4, <1>5, <2>3, <3>1, <3>2 DEF Issued
      <3> QED BY <2>1, <3>3 DEF Issued, FMS!Busy
    <2> QED BY <2>2, <2>3
  <1> QED BY <1>1, <1>5

\* ... so that what was carried before is carried after it.
LEMMA CarriesGrow ==
    ASSUME NEW L, L \subseteq Issued', Carries(L)'
    PROVE  Carries(Issued)'
  <1>1. /\ CallsIn(L) \subseteq CallsIn(Issued)' /\ AsyncsIn(L) \subseteq AsyncsIn(Issued)'
        /\ RepliesIn(L) \subseteq RepliesIn(Issued)'
    BY DEF CallsIn, AsyncsIn, RepliesIn
  <1>2. \A S, T : S \subseteq T => Seq(S) \subseteq Seq(T)
    OBVIOUS
  <1>3. CallIn(Issued)'
    BY DEF Carries, CallIn
  <1> QED BY <1>1, <1>2, <1>3 DEF Carries

--------------------------------------------------------------------------------
(* Every step is a step of the status centre or none, and carries what     *)
(* was carried before it.                                                  *)

Implements(L) ==
    /\ [FMS!Next]_(FMS!vars)
    /\ Carries(L)' /\ MatchedIn(L)' /\ ProxiesAreProcesses'

LEMMA ProxiesAre == NoProxy \notin Proxies /\ 1 \in Proxies /\ NoProxy = FMS!NoProxy
  BY FormStatusCenterAssumption DEF Proxies, NoProxy, FMS!NoProxy

\* With the render service and the replies as they were.
LEMMA QuietCarries ==
    ASSUME NEW L, Carries(L), UNCHANGED svars
    PROVE  Carries(L)'
  BY DEF Carries, CallIn, svars

LEMMA FewerMatched ==
    ASSUME NEW L, MatchedIn(L), matched' \subseteq matched
    PROVE  MatchedIn(L)'
  BY DEF MatchedIn

LEMMA ClientsImplement ==
    ASSUME IInv, NEW L, L = Issued, Clients
    PROVE  Implements(L)
  <1> USE ProxiesAre
  <1>1. Proxy \in Proxies \cup {NoProxy} /\ process \in Proxies
    BY DEF Proxy, IInv, ProxiesAreProcesses
  <1>2. FMS!Clients \/ UNCHANGED fvars
    <2>1. CASE RenderForm \/ OnAbilityConnectDone
      BY <1>1, <2>1 DEF RenderForm, OnAbilityConnectDone, FMS!Clients
    <2>2. CASE UpdateRenderingForm \/ StopRenderingForm \/ ReleaseRenderer \/ RecoverForms
      BY <1>1, <2>2
      DEF UpdateRenderingForm, StopRenderingForm, ReleaseRenderer, RecoverForms, FMS!Clients
    <2>3. CASE RecycleForms
      BY <1>1, <2>3 DEF RecycleForms, FMS!Clients
    <2> QED BY <2>1, <2>2, <2>3 DEF Clients
  <1>3. UNCHANGED <<svars, process>> /\ renderObj' \in {renderObj, process} /\ matched' = matched
    <2>1. UNCHANGED <<svars, process>> /\ renderObj' \in {renderObj, process}
      BY DEF Clients, RenderForm, OnAbilityConnectDone, cvars
    <2>2. FMS!Clients => matched' = matched
      BY DEF FMS!Clients, FMS!PostRenderForm, FMS!PostStopRenderingForm, FMS!PostReleaseRenderer,
             FMS!PostRecycleForms, FMS!PostRecoverForm, FMS!Request, FMS!ids
    <2> QED BY <1>2, <2>1, <2>2 DEF fvars
  <1>4. Carries(L)' /\ MatchedIn(L)'
    BY <1>3, QuietCarries, FewerMatched DEF IInv
  <1>5. ProxiesAreProcesses'
    BY <1>1, <1>3 DEF IInv, ProxiesAreProcesses, Proxies
  <1> QED BY <1>2, <1>4, <1>5, SameVars DEF Implements, FMS!Next

LEMMA MachineImplements ==
    ASSUME IInv, NEW L, L = Issued, Machine
    PROVE  Implements(L)
  <1>1. matched' = matched
    BY DEF Machine, FMS!Machine, FMS!RejectTask, FMS!ProcessTaskDirect, FMS!AddTaskToQueueUnique,
           FMS!AddTaskToQueuePush, FMS!ProcessTaskFromQueue, FMS!ProcessTaskDelete,
           FMS!ProcessTaskFromRetry, FMS!Step, FMS!ids
  <1>2. Carries(L)' /\ MatchedIn(L)' /\ ProxiesAreProcesses'
    BY <1>1, QuietCarries, FewerMatched DEF IInv, Machine, cvars, ProxiesAreProcesses
  <1> QED BY <1>2 DEF Implements, FMS!Next, Machine

\* A task function that runs is a step of the centre, and no reply changes.
LEMMA FunctionsAreSteps ==
    ASSUME \/ \E err \in BOOLEAN : Returned(err) \/ FMS!StopRenderingForm(err) \/ FMS!ReleaseRenderer(err)
           \/ FMS!OnRecycleForm \/ FMS!PostDelayReleaseRenderer \/ FMS!RecycleTimeout
           \/ FMS!RestoreRecycled(0, 0)
    PROVE  FMS!Next /\ matched' = matched
  <1>1. 0 \in 0 .. MaxHosts /\ 1 \in 0 .. MaxHosts
    BY FormStatusCenterAssumption
  <1>2. FMS!TaskFunctions
    BY <1>1 DEF Returned, FMS!TaskFunctions
  <1>3. matched' = matched
    BY DEF Returned, FMS!RenderForm, FMS!RecycleForm, FMS!RecoverForm, FMS!RestoreRecycled,
           FMS!StopRenderingForm, FMS!ReleaseRenderer, FMS!OnRecycleForm,
           FMS!PostDelayReleaseRenderer, FMS!RecycleTimeout, FMS!Run, FMS!ids
  <1> QED BY <1>2, <1>3 DEF FMS!Next

\* The call the worker makes is about the operation under way.
LEMMA CallIsIssued ==
    ASSUME IInv, IsSync
    PROVE  SyncOp \in FRS!SyncOps /\ eventId \in Nat /\ <<Starting(SyncOp), eventId>> \in Issued
  <1>1. running.func \in FRS!SyncOps \cup {"RestoreRecycled"}
    BY DEF IsSync
  <1>2. running # FMS!NoTask /\ running.func # "OnRecycleForm"
    BY <1>1, ManagerFacts DEF FRS!SyncOps
  <1>3. /\ status \in FMS!Busy /\ status = FMS!Starts[running.event]
        /\ running.event \in DOMAIN FMS!Starts /\ running.func \in FMS!FuncsOf(running.event)
        /\ eventId \in 1 .. lastId /\ lastId \in Nat
    BY <1>2, ManagerFacts
  <1>4. SyncOp \in FRS!SyncOps /\ Starting(SyncOp) = status
    BY <1>1, <1>3, OperationsOfCalls DEF SyncOp, FRS!SyncOps, FMS!FuncsOf, FMS!Starts
  <1>5. <<status, eventId>> \in Issued
    BY <1>3 DEF Issued
  <1> QED BY <1>3, <1>4, <1>5

LEMMA CallRenderServiceImplements ==
    ASSUME IInv, NEW L, L = Issued, CallRenderService
    PROVE  Implements(L)
  <1>1. /\ call' = [op |-> SyncOp, id |-> eventId, at |-> "sent"]
        /\ UNCHANGED <<jsq, inbox, working, outbox>> /\ UNCHANGED <<fvars, cvars>>
    BY DEF CallRenderService, FRS!Call
  <1>2. CallIn(L)'
    <2> DEFINE op == SyncOp
    <2>1. op \in FRS!SyncOps /\ eventId \in Nat /\ <<Starting(op), eventId>> \in L
      BY CallIsIssued DEF CallRenderService
    <2>2. call' = [op |-> op, id |-> eventId, at |-> "sent"]
      BY <1>1
    <2> HIDE DEF op
    <2>3. call'.op = op /\ call'.id = eventId
          /\ call' \in [op: FRS!SyncOps, id: Nat, at: {"sent", "accepted", "OK", "ERR"}]
      BY <2>1, <2>2
    <2> QED BY <2>1, <2>3 DEF CallIn
  <1>3. Carries(L)'
    BY <1>1, <1>2 DEF IInv, Carries
  <1>4. MatchedIn(L)' /\ ProxiesAreProcesses'
    BY <1>1, FewerMatched DEF IInv, ProxiesAreProcesses, fvars, cvars
  <1> QED BY <1>1, <1>3, <1>4, SameVars DEF Implements

\* The worker's other steps: a call returns or fails, nothing is sent.
LEMMA LocalStepsImplement ==
    ASSUME IInv, NEW L, L = Issued, CallReturns \/ CallDeadProcess \/ LocalTask
    PROVE  Implements(L)
  <1>1. FMS!Next /\ matched' = matched
    BY FunctionsAreSteps DEF CallReturns, CallDeadProcess, LocalTask
  <1>2. UNCHANGED <<jsq, inbox, working, outbox>> /\ call' \in {call, FRS!NoCall} /\ UNCHANGED cvars
    BY DEF CallReturns, CallDeadProcess, LocalTask, FRS!Result, svars
  <1>3. Carries(L)'
    BY <1>2 DEF IInv, Carries, CallIn
  <1>4. MatchedIn(L)' /\ ProxiesAreProcesses'
    BY <1>1, <1>2, FewerMatched DEF IInv, ProxiesAreProcesses, cvars
  <1> QED BY <1>1, <1>3, <1>4 DEF Implements

LEMMA SendStopRenderingFormImplements ==
    ASSUME IInv, NEW L, L = Issued, SendStopRenderingForm
    PROVE  Implements(L)
  <1>1. /\ running # FMS!NoTask /\ \E err \in BOOLEAN : FMS!StopRenderingForm(err)
        /\ UNCHANGED cvars
        /\ \/ UNCHANGED svars
           \/ FRS!Send(running.func, eventId)
    BY DEF SendStopRenderingForm
  <1>2. FMS!Next /\ matched' = matched
    BY <1>1, FunctionsAreSteps
  <1>3. running.func \in {"StopRenderingForm", "StopComponent"}
    BY <1>1 DEF FMS!StopRenderingForm, FMS!Run
  <1>4. eventId \in Nat /\ <<Starting(running.func), eventId>> \in L
    <2>1. /\ status \in FMS!Busy /\ status = FMS!Starts[running.event]
          /\ running.event \in DOMAIN FMS!Starts /\ running.func \in FMS!FuncsOf(running.event)
          /\ eventId \in 1 .. lastId /\ lastId \in Nat
      BY <1>1, <1>3, ManagerFacts
    <2>2. Starting(running.func) = status
      BY <1>3, <2>1, OperationsOfCalls DEF FMS!FuncsOf, FMS!Starts
    <2> QED BY <2>1, <2>2 DEF Issued
  <1>5. Carries(L)'
    <2>1. CASE UNCHANGED svars
      BY <2>1, QuietCarries DEF IInv
    <2>2. CASE FRS!Send(running.func, eventId)
      <3> DEFINE t == [op |-> running.func, id |-> eventId]
      <3>1. t \in AsyncsIn(L)
        BY <1>3, <1>4 DEF AsyncsIn, FRS!AsyncOps
      <3>2. inbox' = Append(inbox, t) /\ UNCHANGED <<call, jsq, working, outbox>>
        BY <2>2 DEF FRS!Send
      <3> HIDE DEF t
      <3>3. inbox' \in Seq(AsyncsIn(L)) /\ inbox' # <<>>
        BY <3>1, <3>2 DEF IInv, Carries
      <3> QED BY <3>2, <3>3 DEF IInv, Carries, CallIn
    <2> QED BY <1>1, <2>1, <2>2
  <1>6. MatchedIn(L)' /\ ProxiesAreProcesses'
    BY <1>1, <1>2, FewerMatched DEF IInv, ProxiesAreProcesses, cvars
  <1> QED BY <1>2, <1>5, <1>6 DEF Implements

LEMMA SendReleaseRendererImplements ==
    ASSUME IInv, NEW L, L = Issued, SendReleaseRenderer
    PROVE  Implements(L)
  <1>1. /\ \E err \in BOOLEAN : FMS!ReleaseRenderer(err)
        /\ UNCHANGED cvars
        /\ \/ UNCHANGED svars
           \/ FRS!Send("ReleaseRenderer", eventId)
    BY DEF SendReleaseRenderer
  <1>2. FMS!Next /\ matched' = matched
    BY <1>1, FunctionsAreSteps
  <1>3. Carries(L)'
    <2>1. CASE UNCHANGED svars
      BY <2>1, QuietCarries DEF IInv
    <2>2. CASE FRS!Send("ReleaseRenderer", eventId)
      <3> DEFINE t == [op |-> "ReleaseRenderer", id |-> eventId]
      <3>1. eventId \in Nat /\ (eventId # FMS!NoId => eventId \in 1 .. lastId)
        BY ManagerFacts DEF FMS!NoId
      <3>2. eventId # FMS!NoId => <<Starting("ReleaseRenderer"), eventId>> \in L
        BY <3>1, OperationsOfCalls DEF Issued, FMS!Busy
      <3>3. t \in AsyncsIn(L)
        BY <3>1, <3>2 DEF AsyncsIn, FRS!AsyncOps
      <3>4. inbox' = Append(inbox, t) /\ UNCHANGED <<call, jsq, working, outbox>>
        BY <2>2 DEF FRS!Send
      <3> HIDE DEF t
      <3>5. inbox' \in Seq(AsyncsIn(L)) /\ inbox' # <<>>
        BY <3>3, <3>4 DEF IInv, Carries
      <3> QED BY <3>4, <3>5 DEF IInv, Carries, CallIn
    <2> QED BY <1>1, <2>1, <2>2
  <1>4. MatchedIn(L)' /\ ProxiesAreProcesses'
    BY <1>1, <1>2, FewerMatched DEF IInv, ProxiesAreProcesses, cvars
  <1> QED BY <1>2, <1>3, <1>4 DEF Implements

LEMMA DelaysImplement ==
    ASSUME IInv, NEW L, L = Issued, Delays
    PROVE  Implements(L)
  <1>1. FMS!Delays /\ UNCHANGED <<svars, cvars>>
    BY DEF Delays, FMS!Delays
  <1>2. matched' = matched
    BY <1>1 DEF FMS!Delays, FMS!RecycleTimerDue, FMS!ReleaseDelayDue, FMS!RestoreDue,
                FMS!ExecutionTimeout, FMS!DelayOver, FMS!ids
  <1> QED BY <1>1, <1>2, QuietCarries, FewerMatched
          DEF Implements, IInv, FMS!Next, ProxiesAreProcesses, cvars

\* The replies.  What the render service sends is a reply of FormStatusMgr,
\* under an id that was issued.
LEMMA TakeReplyImplements ==
    ASSUME IInv, NEW L, L = Issued, NEW r \in outbox, TakeReply(r)
    PROVE  Implements(L)
  <1>1. /\ r.event \in FRS!Replies /\ r.id \in 1 .. lastId /\ r.id \in Nat
        /\ <<Ending[r.event], r.id>> \in L
    BY DEF IInv, Carries, RepliesIn, Issued
  <1>2. FRS!Replies \subseteq FMS!FailEvents \cup FMS!DoneEvents
    BY DEF FRS!Replies, FMS!FailEvents, FMS!DoneEvents
  <1>3. /\ outbox' \subseteq outbox /\ UNCHANGED <<call, jsq, inbox, working>>
        /\ UNCHANGED <<renderObj, process>>
        /\ FMS!HandleFrsEventReply(r.event, r.id) \/ UNCHANGED fvars
    BY DEF TakeReply, FRS!Deliver
  <1>4. [FMS!Next]_(FMS!vars)
    BY <1>1, <1>2, <1>3, SameVars DEF FMS!Next, FMS!Replies
  <1>5. matched' \in {matched, matched \cup {[event |-> r.event, id |-> r.id]}}
    BY <1>3 DEF FMS!HandleFrsEventReply, fvars
  <1>6. MatchedIn(L)'
    BY <1>1, <1>5 DEF IInv, MatchedIn
  <1>7. Carries(L)' /\ ProxiesAreProcesses'
    BY <1>3 DEF IInv, Carries, CallIn, ProxiesAreProcesses
  <1> QED BY <1>4, <1>6, <1>7 DEF Implements

LEMMA ActOnReplyImplements ==
    ASSUME IInv, NEW L, L = Issued, ActOnReply
    PROVE  Implements(L)
  <1>1. FMS!Next /\ matched' \subseteq matched /\ UNCHANGED <<svars, cvars>>
    BY DEF ActOnReply, FMS!Next, FMS!Replies, FMS!PostReply
  <1> QED BY <1>1, QuietCarries, FewerMatched
          DEF Implements, IInv, ProxiesAreProcesses, cvars

\* The render service's own steps, and the deaths.
LEMMA ServiceImplements ==
    ASSUME IInv, NEW L, L = Issued,
           Serve \/ JsThread \/ FrsTimer \/ RenderServiceDies \/ RerenderAllForms
    PROVE  Implements(L)
  <1>1. UNCHANGED fvars
    BY DEF Serve, JsThread, FrsTimer, RenderServiceDies, RerenderAllForms
  <1>2. Carries(L)'
    <2>1. CASE Serve
      BY <2>1, HandlersCarry, WorksCarry DEF Serve, FRS!Serve, IInv
    <2>2. CASE JsThread \/ FrsTimer \/ RenderServiceDies
      BY <2>2, ThreadsCarry DEF JsThread, FrsTimer, RenderServiceDies, IInv
    <2>3. CASE RerenderAllForms
      BY <2>3, QuietCarries DEF RerenderAllForms, IInv
    <2> QED BY <2>1, <2>2, <2>3
  <1>3. MatchedIn(L)'
    BY <1>1, FewerMatched DEF IInv, fvars
  <1>4. ProxiesAreProcesses'
    BY FormStatusCenterAssumption
    DEF Serve, JsThread, FrsTimer, RenderServiceDies, RerenderAllForms, IInv, ProxiesAreProcesses,
        Proxies, cvars
  <1> QED BY <1>1, <1>2, <1>3, <1>4, SameVars DEF Implements

LEMMA NextImplements ==
    IInv /\ [Next]_vars => IInv' /\ [FMS!Next]_(FMS!vars)
  <1> SUFFICES ASSUME IInv, [Next]_vars
               PROVE  IInv' /\ [FMS!Next]_(FMS!vars)
    OBVIOUS
  <1>1. PICK L : L = Issued
    OBVIOUS
  <1>2. CASE Next
    <2>1. Implements(L)
      BY <1>1, <1>2, ClientsImplement, MachineImplements, CallRenderServiceImplements,
         LocalStepsImplement, SendStopRenderingFormImplements, SendReleaseRendererImplements,
         DelaysImplement, TakeReplyImplements, ActOnReplyImplements, ServiceImplements
      DEF Next, Worker
    <2>2. L \subseteq Issued' /\ P!Inv'
      BY <1>1, <2>1, IssuedGrows DEF Implements
    <2>3. Carries(Issued)'
      BY <2>1, <2>2, CarriesGrow DEF Implements
    <2>4. MatchedIn(Issued)'
      BY <2>1, <2>2 DEF Implements, MatchedIn
    <2> QED BY <2>1, <2>2, <2>3, <2>4 DEF Implements, IInv
  <1>3. CASE UNCHANGED vars
    <2>1. [FMS!Next]_(FMS!vars) /\ UNCHANGED <<fvars, svars, cvars>>
      BY <1>3, SameVars DEF vars
    <2>2. Issued' = Issued /\ P!Inv'
      BY <2>1, IssuedGrows DEF Issued, fvars
    <2>3. Carries(Issued)' /\ MatchedIn(Issued)' /\ ProxiesAreProcesses'
      BY <1>1, <2>1, <2>2, QuietCarries, FewerMatched, CarriesGrow
      DEF IInv, fvars, cvars, ProxiesAreProcesses, MatchedIn
    <2> QED BY <2>1, <2>2, <2>3 DEF IInv
  <1> QED BY <1>2, <1>3

\* The two services together do only what FormStatusMgr allows with a render
\* service that may do anything: what is proved of the status centre holds
\* with FormRenderService in its place, whatever dies when.
THEOREM CompositionImplementsStatusMgr == Spec => ImplementsStatusMgr
  <1>1. Init => FMS!Init
    BY DEF Init
  <1> QED BY <1>1, InitIInv, NextImplements, PTL DEF Spec, ImplementsStatusMgr, FMS!Spec

--------------------------------------------------------------------------------
(* What ends the execution timeout of an operation.                        *)

LEMMA TaskqIsSeq == ASSUME IInv PROVE taskq \in Seq(P!WorkerBodies)
  BY DEF IInv, P!Inv, P!TypeOK, P!WorkerBodies

\* Every operation takes the events that end it.
LEMMA EndingHasRow == \A e \in DOMAIN Ending : FMS!HasRow(Ending[e], e)
  BY DEF Ending, FMS!HasRow, FMS!FORM_STATUS_TABLE, FMS!FORM_STATUS_TABLE_RENDERING,
         FMS!FORM_STATUS_TABLE_RECYCLING_DATA, FMS!FORM_STATUS_TABLE_RECYCLING,
         FMS!FORM_STATUS_TABLE_RECOVERING, FMS!FORM_STATUS_TABLE_DELETING, FMS!BusyRows,
         FMS!FormFsmStatus

\* The failure a call reports is one of its own operation.
LEMMA ReportEnds ==
    ASSUME IInv, NEW e, NEW funcs, NEW err,
           FMS!Run(funcs), FMS!Report(err, e), eventId \notin armed', eventId \in armed
    PROVE  taskq'[Len(taskq')].event = e
  <1>1. taskq' = Append(taskq, FMS!Event(e))
    BY DEF FMS!Report, FMS!Post
  <1> QED BY <1>1, TaskqIsSeq DEF FMS!Event, FMS!Task

LEMMA CallEnds ==
    ASSUME IInv, NEW err \in BOOLEAN, status \in FMS!Busy, eventId \in armed, eventId \notin armed',
           \/ FMS!RenderForm(err) \/ FMS!RecycleForm(err) \/ FMS!RecoverForm(err)
           \/ FMS!StopRenderingForm(err) \/ FMS!RestoreRecycled(0, 0)
           \/ FMS!RestoreRecycled(1, IF err THEN 1 ELSE 0)
    PROVE  FMS!HasRow(status, taskq'[Len(taskq')].event)
  <1>1. /\ running.func \in {"RenderForm", "UpdateForm", "RecycleForm", "RestoreRecycled",
                             "RecoverForm", "StopRenderingForm", "StopComponent"}
    BY DEF FMS!RenderForm, FMS!RecycleForm, FMS!RecoverForm, FMS!StopRenderingForm,
           FMS!RestoreRecycled, FMS!Run
  <1>2. /\ running.event \in DOMAIN FMS!Starts /\ status = FMS!Starts[running.event]
        /\ running.func \in FMS!FuncsOf(running.event)
    BY <1>1, ManagerFacts
  <1>3. CASE FMS!RenderForm(err)
    <2>1. taskq'[Len(taskq')].event = "RENDER_FORM_FAIL" /\ running.func \in {"RenderForm", "UpdateForm"}
      BY <1>3, ReportEnds DEF FMS!RenderForm, FMS!Run
    <2> QED BY <1>2, <2>1, EndingHasRow DEF Ending, FMS!FuncsOf, FMS!Starts
  <1>4. CASE FMS!RecoverForm(err)
    <2>1. taskq'[Len(taskq')].event = "RECOVER_FORM_FAIL" /\ running.func = "RecoverForm"
      BY <1>4, ReportEnds DEF FMS!RecoverForm, FMS!Run
    <2> QED BY <1>2, <2>1, EndingHasRow DEF Ending, FMS!FuncsOf, FMS!Starts
  <1>5. CASE FMS!StopRenderingForm(err)
    <2>1. /\ taskq'[Len(taskq')].event = "DELETE_FORM_FAIL"
          /\ running.func \in {"StopRenderingForm", "StopComponent"}
      BY <1>5, ReportEnds DEF FMS!StopRenderingForm, FMS!Run
    <2> QED BY <1>2, <2>1, EndingHasRow DEF Ending, FMS!FuncsOf, FMS!Starts
  <1>6. CASE FMS!RecycleForm(err) \/ FMS!RestoreRecycled(0, 0)
                \/ FMS!RestoreRecycled(1, IF err THEN 1 ELSE 0)
    <2>1. running.func \in {"RecycleForm", "RestoreRecycled"}
      BY <1>6 DEF FMS!RecycleForm, FMS!RestoreRecycled, FMS!Run
    <2>2. taskq'[Len(taskq')].event = "RECYCLE_DATA_FAIL"
      <3>1. CASE FMS!RecycleForm(err)
        BY <3>1, ReportEnds DEF FMS!RecycleForm
      <3>2. CASE FMS!RestoreRecycled(0, 0)
        <4>1. ~(0 > 0)
          OBVIOUS
        <4>2. CASE expectRecycled
          BY <3>2, <4>1, <4>2 DEF FMS!RestoreRecycled
        <4>3. CASE ~expectRecycled
          <5>1. FMS!Report(TRUE, "RECYCLE_DATA_FAIL") /\ FMS!Run({"RestoreRecycled"})
            BY <3>2, <4>1, <4>3, Zenon DEF FMS!RestoreRecycled
          <5> QED BY <5>1, ReportEnds
        <4> QED BY <4>2, <4>3
      <3>3. CASE FMS!RestoreRecycled(1, IF err THEN 1 ELSE 0)
        <4>1. err
          BY <3>3 DEF FMS!RestoreRecycled
        <4>2. taskq' = taskq \o [i \in 1 .. 1 |-> FMS!Event("RECYCLE_DATA_FAIL")]
          BY <3>3, <4>1 DEF FMS!RestoreRecycled
        <4>3. FMS!Event("RECYCLE_DATA_FAIL").event = "RECYCLE_DATA_FAIL"
          BY DEF FMS!Event, FMS!Task
        <4> QED BY <4>2, <4>3, TaskqIsSeq
      <3> QED BY <1>6, <3>1, <3>2, <3>3
    <2> QED BY <1>2, <2>1, <2>2, EndingHasRow DEF Ending, FMS!FuncsOf, FMS!Starts
  <1> QED BY <1>3, <1>4, <1>5, <1>6

\* The delay of a release posts RECYCLE_FORM_FAIL, an execution timeout itself.
LEMMA DelayEnds ==
    ASSUME IInv, eventId \in armed, eventId \notin armed',
           \/ \E err \in BOOLEAN : FMS!ReleaseRenderer(err)
           \/ \E i \in armed : FMS!ExecutionTimeout(i)
    PROVE  taskq'[Len(taskq')].event \in {"EXECUTION_TIMEOUT", "RECYCLE_FORM_FAIL"}
  <1>1. CASE \E err \in BOOLEAN : FMS!ReleaseRenderer(err)
    <2>1. taskq # <<>> /\ taskq' = Append(Tail(taskq), FMS!Event("RECYCLE_FORM_FAIL"))
      BY <1>1 DEF FMS!ReleaseRenderer, FMS!Post, FMS!Idle
    <2>2. Tail(taskq) \in Seq(P!WorkerBodies)
      BY <2>1, TaskqIsSeq, HeadTailProperties
    <2> QED BY <2>1, <2>2 DEF FMS!Event, FMS!Task
  <1>2. CASE \E i \in armed : FMS!ExecutionTimeout(i)
    <2>1. taskq' = Append(taskq, FMS!Event("EXECUTION_TIMEOUT"))
      BY <1>2 DEF FMS!ExecutionTimeout, FMS!Post
    <2> QED BY <2>1, TaskqIsSeq DEF FMS!Event, FMS!Task
  <1> QED BY <1>1, <1>2

\* A reply ends the operation it carries the id of.
LEMMA ReplyEnds ==
    ASSUME IInv, ActOnReply, status \in FMS!Busy, eventId \in armed, eventId \notin armed'
    PROVE  LET e == taskq'[Len(taskq')].event IN
           e \in {"RECYCLE_FORM_DONE", "RECYCLE_FORM_FAIL"} \/ FMS!HasRow(status, e)
  <1>1. PICK m \in matched : FMS!PostReply(m)
    BY DEF ActOnReply
  <1>2. m.id = eventId
    BY <1>1 DEF FMS!PostReply
  <1>3. taskq'[Len(taskq')].event = m.event
    <2>1. \E t : taskq' = Append(taskq, t) /\ t.event = m.event
      BY <1>1 DEF FMS!PostReply, FMS!Post, FMS!Event, FMS!Task
    <2> QED BY <2>1, TaskqIsSeq
  <1>4. m.event \in FRS!Replies /\ <<Ending[m.event], m.id>> \in Issued
    BY DEF IInv, MatchedIn
  <1>5. Ending[m.event] = "RECYCLING" \/ Ending[m.event] = status
    BY <1>2, <1>4 DEF Issued
  <1>6. CASE Ending[m.event] = status
    BY <1>3, <1>4, <1>6, EndingHasRow DEF FRS!Replies, Ending
  <1>7. CASE Ending[m.event] = "RECYCLING"
    BY <1>3, <1>4, <1>7 DEF FRS!Replies, Ending
  <1> QED BY <1>5, <1>6, <1>7

\* Nothing else disarms a timeout.
LEMMA OthersDisarmNothing ==
    ASSUME \/ Clients \/ Machine \/ CallRenderService
           \/ \E r \in outbox : TakeReply(r)
           \/ FMS!OnRecycleForm \/ FMS!PostDelayReleaseRenderer \/ FMS!RecycleTimeout
           \/ FMS!RecycleTimerDue \/ FMS!ReleaseDelayDue \/ FMS!RestoreDue
           \/ Serve \/ JsThread \/ FrsTimer \/ RenderServiceDies \/ RerenderAllForms
           \/ UNCHANGED vars
    PROVE  armed \subseteq armed'
  <1>1. CASE Clients
    BY <1>1 DEF Clients, RenderForm, OnAbilityConnectDone, UpdateRenderingForm, StopRenderingForm,
                ReleaseRenderer, RecycleForms, RecoverForms, FMS!PostRenderForm,
                FMS!PostStopRenderingForm, FMS!PostReleaseRenderer, FMS!PostRecycleForms,
                FMS!PostRecoverForm, FMS!Request, FMS!ids, fvars
  <1>2. CASE Machine
    BY <1>2 DEF Machine, FMS!Machine, FMS!RejectTask, FMS!ProcessTaskDirect,
           FMS!AddTaskToQueueUnique, FMS!AddTaskToQueuePush, FMS!ProcessTaskFromQueue,
           FMS!ProcessTaskDelete, FMS!ProcessTaskFromRetry, FMS!FromQueue, FMS!Begin,
           FMS!ExecFormTaskTimeout, FMS!ids
  <1>3. CASE \E r \in outbox : TakeReply(r)
    BY <1>3 DEF TakeReply, FMS!HandleFrsEventReply, fvars
  <1>4. CASE FMS!OnRecycleForm \/ FMS!PostDelayReleaseRenderer \/ FMS!RecycleTimeout
               \/ FMS!RecycleTimerDue \/ FMS!ReleaseDelayDue \/ FMS!RestoreDue
    BY <1>4 DEF FMS!OnRecycleForm, FMS!PostDelayReleaseRenderer, FMS!RecycleTimeout,
                FMS!RecycleTimerDue, FMS!ReleaseDelayDue, FMS!RestoreDue, FMS!DelayOver, FMS!ids
  <1>5. CASE CallRenderService \/ Serve \/ JsThread \/ FrsTimer \/ RenderServiceDies
               \/ RerenderAllForms \/ UNCHANGED vars
    BY <1>5 DEF CallRenderService, Serve, JsThread, FrsTimer, RenderServiceDies, RerenderAllForms,
                vars, fvars
  <1> QED BY <1>1, <1>2, <1>3, <1>4, <1>5

\* Whoever cancels the execution timeout of the current operation posts an
\* event this operation takes, or one of a release, whichever replies cross,
\* calls fail or processes die: the reply compared with the current id and the
\* failure of a call never belong to another operation.
THEOREM TimeoutsEndTheirOperation == Spec => EndsWhatItGuards
  <1> DEFINE e == taskq'[Len(taskq')].event
             Ends == \/ e \in {"EXECUTION_TIMEOUT", "RECYCLE_FORM_DONE", "RECYCLE_FORM_FAIL"}
                     \/ FMS!HasRow(status, e)
             Step == status \in FMS!Busy /\ eventId \in armed /\ eventId \notin armed' => Ends
  <1>1. IInv /\ [Next]_vars => [Step]_vars
    <2> SUFFICES ASSUME IInv, [Next]_vars, status \in FMS!Busy,
                        eventId \in armed, eventId \notin armed'
                 PROVE  Ends
      OBVIOUS
    <2>1. CASE CallReturns \/ CallDeadProcess
      BY <2>1, CallEnds DEF CallReturns, CallDeadProcess, Returned
    <2>2. CASE SendStopRenderingForm
      BY <2>2, CallEnds DEF SendStopRenderingForm
    <2>3. CASE SendReleaseRenderer
      BY <2>3, DelayEnds DEF SendReleaseRenderer
    <2>4. CASE LocalTask
      BY <2>4, CallEnds, OthersDisarmNothing DEF LocalTask
    <2>5. CASE Delays
      BY <2>5, DelayEnds, OthersDisarmNothing DEF Delays
    <2>6. CASE ActOnReply
      BY <2>6, ReplyEnds
    <2>7. CASE \/ Clients \/ Machine \/ CallRenderService \/ (\E r \in outbox : TakeReply(r))
               \/ Serve \/ JsThread \/ FrsTimer \/ RenderServiceDies \/ RerenderAllForms
               \/ UNCHANGED vars
      BY <2>7, OthersDisarmNothing
    <2> QED BY <2>1, <2>2, <2>3, <2>4, <2>5, <2>6, <2>7 DEF Next, Worker
  <1>2. IInv /\ [Next]_vars => IInv'
    BY NextImplements
  <1> QED BY <1>1, <1>2, InitIInv, PTL DEF Spec, EndsWhatItGuards

\* The centre's own invariants hold of the two services together: the call
\* that reaches the render service is the one a retry would repeat, under the
\* newest id, and a deleted form leaves nothing behind.
THEOREM CompositionKeepsInvariants ==
    Spec => [](P!RetryRepeatsOperation /\ P!CallOwnsOperation /\ P!NothingLeftBehind)
  <1>1. IInv => P!RetryRepeatsOperation /\ P!CallOwnsOperation /\ P!NothingLeftBehind
    BY DEF IInv, P!Inv
  <1> QED BY <1>1, InitIInv, NextImplements, PTL DEF Spec

================================================================================
