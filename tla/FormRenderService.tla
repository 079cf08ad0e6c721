--------------------------- MODULE FormRenderService ---------------------------
(***************************************************************************)
(* The Form Render Service (FRS), for one form: its status machine         *)
(* (FormRenderStatusMgr), the handlers of the calls it serves              *)
(* (FormRenderImpl, FormRenderServiceMgr), the render record with its JS   *)
(* thread (FormRenderRecord), the timer that waits for a release, and the  *)
(* replies it sends.  Its client makes at most one synchronous call at a   *)
(* time; asynchronous calls are served one after the other, concurrently   *)
(* with it.  The record of the form's uid holds this form only.            *)
(***************************************************************************)
EXTENDS FormRenderStatusTable, Naturals, Sequences, FiniteSets

CONSTANTS
    Ids,         \* event ids of the client's calls
    NoId,        \* a call that carries none
    MaxInbox,    \* bound: asynchronous calls waiting
    MaxOutbox,   \* bound: replies under way when the client calls
    Faulty       \* the JS runtime and the nodes of the form may fail

ASSUME FormRenderServiceAssumption ==
    /\ NoId \notin Ids /\ MaxInbox \in Nat /\ MaxOutbox \in Nat
    /\ Faulty \in BOOLEAN

VARIABLES
    rstatus,        \* formStatusMap_ at this form, NoStatus without entry
    supply,         \* formSupplyClient_ is set
    renderRecord,   \* renderRecordMap_ has the record of the form's uid
    group,          \* formRendererGroupMap_ has the form
    request,        \* formRequests_ at this form
    jsq,            \* tasks on the event handler of the JS thread
    rTimer,         \* the release is awaited: WAIT_RELEASE_RENDERER_TIMEOUT runs
    call,           \* the synchronous call being served, or NoCall
    inbox,          \* asynchronous calls, in order of arrival
    working,        \* the first of them was accepted by the status machine
    outbox          \* replies on their way

rvars == <<rstatus, supply, renderRecord, group, request, jsq, rTimer, call, inbox,
           working, outbox>>

--------------------------------------------------------------------------------
NoStatus == "ABSENT"
SyncOps  == {"RenderForm", "UpdateForm", "RecycleForm", "RecoverForm"}
AsyncOps == {"StopRenderingForm", "StopComponent", "ReleaseRenderer"}

\* The event FormRenderImpl posts for a call.
EventOf == [op \in SyncOps \cup AsyncOps |->
    CASE op \in {"RenderForm", "UpdateForm"}              -> "RENDER_FORM"
      [] op = "RecycleForm"                               -> "RECYCLE_DATA"
      [] op = "RecoverForm"                               -> "RECOVER_FORM"
      [] op = "ReleaseRenderer"                           -> "RECYCLE_FORM"
      [] op \in {"StopRenderingForm", "StopComponent"}    -> "DELETE_FORM"]

Replies == {"RENDER_FORM_DONE", "RECYCLE_DATA_DONE", "RECYCLE_FORM_DONE", "RECYCLE_FORM_FAIL",
            "RECOVER_FORM_DONE", "DELETE_FORM_DONE", "DELETE_FORM_FAIL", "DELETE_FORM_FINISH"}

\* The thread that waits for the client to take the reply; OnRecycleForm is one-way.
Waits(e) ==
    CASE e \in {"RENDER_FORM_DONE", "RECOVER_FORM_DONE"} -> "js"
      [] e = "RECYCLE_DATA_DONE"                         -> "none"
      [] OTHER                                           -> "binder"

NoCall == [op |-> "none", id |-> NoId, at |-> "none"]

JsWaits     == \E r \in outbox : r.waits = "js"
BinderWaits == \E r \in outbox : r.waits = "binder"
JsIdle      == jsq = <<>> /\ ~JsWaits   \* a task posted with PostSyncTask runs

Init ==
    /\ rstatus = NoStatus /\ supply = FALSE /\ renderRecord = FALSE
    /\ group = FALSE /\ request = "none" /\ jsq = <<>> /\ rTimer = FALSE
    /\ call = NoCall /\ inbox = <<>> /\ working = FALSE /\ outbox = {}

--------------------------------------------------------------------------------
(* FormRenderStatusMgr::PostFormEvent, for an event without a function and *)
(* for one whose function sends a reply.                                   *)

FormStatus  == IF rstatus = NoStatus THEN "INIT" ELSE rstatus
Accepts(e)  == RenderHasRow(FormStatus, e)
PostFormEvent(e) == rstatus' = IF Accepts(e) THEN RenderNext(FormStatus, e) ELSE FormStatus
PostReplyEvent(e, id) ==
    /\ PostFormEvent(e)
    /\ outbox' = IF Accepts(e) THEN outbox \cup {[event |-> e, id |-> id, waits |-> Waits(e)]}
                               ELSE outbox

Return(r) == call' = [call EXCEPT !.at = r]

\* Mutants of the next three: the wait is not limited, the timer goes on after
\* the release, and a record is empty when it has no renderer.
ScheduleNothing  == UNCHANGED rTimer
CancelNothing    == UNCHANGED rTimer
HasNoRenderer(g, r) == ~g

ScheduleRecycleTimeout == rTimer' = TRUE
CancelRecycleTimeout   == rTimer' = FALSE
IsEmpty(g, r)          == ~g /\ r = "none"

--------------------------------------------------------------------------------
(* The client.                                                             *)

Call(op, id) ==
    /\ call = NoCall
    /\ call' = [op |-> op, id |-> id, at |-> "sent"]
    /\ UNCHANGED <<rstatus, supply, renderRecord, group, request, jsq, rTimer, inbox,
                   working, outbox>>

Send(op, id) ==
    /\ inbox' = Append(inbox, [op |-> op, id |-> id])
    /\ UNCHANGED <<rstatus, supply, renderRecord, group, request, jsq, rTimer, call,
                   working, outbox>>

Result(r) ==
    /\ call.at = r
    /\ call' = NoCall
    /\ UNCHANGED <<rstatus, supply, renderRecord, group, request, jsq, rTimer, inbox,
                   working, outbox>>

Deliver(r) ==
    /\ r \in outbox
    /\ outbox' = outbox \ {r}
    /\ UNCHANGED <<rstatus, supply, renderRecord, group, request, jsq, rTimer, call, inbox,
                   working>>

--------------------------------------------------------------------------------
(* Synchronous calls: the status machine first, then the handler.          *)

ReceiveCall ==
    /\ call.at = "sent"
    /\ PostFormEvent(EventOf[call.op])
    /\ Return(IF Accepts(EventOf[call.op]) THEN "accepted" ELSE "ERR")
    /\ UNCHANGED <<supply, renderRecord, group, request, jsq, rTimer, inbox, working,
                   outbox>>

Handles(ops) ==
    /\ call.at = "accepted" /\ call.op \in ops
    /\ UNCHANGED <<inbox, working>>

\* A form whose node is gone is refused; otherwise the JS thread renders it.
RenderForm ==
    /\ Handles({"RenderForm", "UpdateForm"})
    /\ supply' = TRUE /\ renderRecord' = TRUE
    /\ \/ /\ Faulty
          /\ PostFormEvent("RENDER_FORM_FAIL") /\ Return("ERR")
          /\ UNCHANGED <<request, jsq>>
       \/ /\ request' = IF call.op = "RenderForm" THEN "live" ELSE request
          /\ jsq' = Append(jsq, [op |-> call.op, id |-> call.id])
          /\ Return("OK")
          /\ UNCHANGED rstatus
    /\ UNCHANGED <<group, rTimer, outbox>>

\* The data is taken on the JS thread, then the release is awaited.
RecycleForm ==
    /\ Handles({"RecycleForm"})
    /\ supply /\ renderRecord => JsIdle
    /\ IF supply /\ renderRecord /\ group
       THEN /\ ScheduleRecycleTimeout
            /\ PostReplyEvent("RECYCLE_DATA_DONE", call.id) /\ Return("OK")
       ELSE PostFormEvent("RECYCLE_DATA_FAIL") /\ Return("ERR") /\ UNCHANGED <<rTimer, outbox>>
    /\ UNCHANGED <<supply, renderRecord, group, request, jsq>>

RecoverForm ==
    /\ Handles({"RecoverForm"})
    /\ IF supply /\ renderRecord
       THEN /\ jsq' = Append(jsq, [op |-> call.op, id |-> call.id])
            /\ Return("OK")
            /\ UNCHANGED rstatus
       ELSE PostFormEvent("RECOVER_FORM_FAIL") /\ Return("ERR") /\ UNCHANGED jsq
    /\ UNCHANGED <<supply, renderRecord, group, request, rTimer, outbox>>

--------------------------------------------------------------------------------
(* Asynchronous calls, on the other binder thread.                         *)

ReceiveAsync ==
    /\ inbox # <<>> /\ ~working /\ ~BinderWaits
    /\ PostFormEvent(EventOf[Head(inbox).op])
    /\ working' = Accepts(EventOf[Head(inbox).op])
    /\ inbox' = IF working' THEN inbox ELSE Tail(inbox)
    /\ UNCHANGED <<supply, renderRecord, group, request, jsq, rTimer, call, outbox>>

Works(ops) ==
    /\ working /\ Head(inbox).op \in ops
    /\ working' = FALSE /\ inbox' = Tail(inbox)
    /\ UNCHANGED <<supply, jsq, call>>

\* Mutant of ReleaseRenderer: the request is marked released, the renderers live on.
ReleaseRendererKeepsGroup ==
    /\ Works({"ReleaseRenderer"})
    /\ supply /\ Head(inbox).id # NoId /\ renderRecord /\ JsIdle
    /\ request' = IF group /\ request = "live" THEN "released" ELSE request
    /\ CancelRecycleTimeout
    /\ PostReplyEvent("RECYCLE_FORM_DONE", Head(inbox).id)
    /\ UNCHANGED <<group, renderRecord>>

\* Without a client to reply to or an event id, the failure stays here.
ReleaseRenderer ==
    /\ Works({"ReleaseRenderer"})
    /\ \/ /\ ~supply \/ Head(inbox).id = NoId
          /\ PostFormEvent("RECYCLE_FORM_FAIL")
          /\ UNCHANGED <<group, request, rTimer, outbox>>
       \/ /\ supply /\ Head(inbox).id # NoId /\ ~renderRecord
          /\ PostReplyEvent("RECYCLE_FORM_FAIL", Head(inbox).id)
          /\ UNCHANGED <<group, request, rTimer>>
       \/ /\ supply /\ Head(inbox).id # NoId /\ renderRecord /\ JsIdle
          /\ group' = FALSE
          /\ request' = IF group /\ request = "live" THEN "released" ELSE request
          /\ CancelRecycleTimeout
          /\ PostReplyEvent("RECYCLE_FORM_DONE", Head(inbox).id)
    /\ UNCHANGED renderRecord

\* The renderers of the form or of one component go; a form that has none
\* (it is recycled) is not reported as deleted.  The record goes when empty.
StopRenderingForm ==
    /\ Works({"StopRenderingForm", "StopComponent"})
    /\ \/ /\ ~renderRecord
          /\ PostReplyEvent("DELETE_FORM_FAIL", Head(inbox).id)
          /\ UNCHANGED <<group, request, renderRecord>>
       \/ /\ renderRecord /\ JsIdle
          /\ Head(inbox).op = "StopRenderingForm"
          /\ group' = FALSE /\ request' = "none" /\ renderRecord' = FALSE
          /\ PostReplyEvent(IF group THEN "DELETE_FORM_FINISH" ELSE "DELETE_FORM_DONE",
                            Head(inbox).id)
       \/ /\ renderRecord /\ JsIdle
          /\ Head(inbox).op = "StopComponent"
          /\ \E lastOne \in BOOLEAN :
               /\ group' = (group /\ ~lastOne)
               /\ request' = IF lastOne THEN "none" ELSE request
               /\ renderRecord' = ~IsEmpty(group', request')
          /\ PostReplyEvent("DELETE_FORM_DONE", Head(inbox).id)
    /\ UNCHANGED rTimer

--------------------------------------------------------------------------------
(* The JS thread and the timer.                                            *)

JsTask(ops) ==
    /\ jsq # <<>> /\ ~JsWaits /\ Head(jsq).op \in ops
    /\ jsq' = Tail(jsq)
    /\ UNCHANGED <<supply, renderRecord, rTimer, call, inbox, working>>

\* An update of released renderers builds them again.  A runtime that cannot
\* be created goes unnoticed: the form is reported rendered all the same.
HandleUpdateRenderRecord ==
    /\ JsTask({"RenderForm", "UpdateForm"})
    /\ \/ Faulty /\ UNCHANGED <<group, request>>
       \/ /\ group' = (group \/ Head(jsq).op = "RenderForm" \/ request = "released")
          /\ request' = IF request = "released" THEN "live" ELSE request
    /\ PostReplyEvent("RENDER_FORM_DONE", Head(jsq).id)

\* Mutant of HandleRecoverForm: recovered is reported, the released request is not revived.
HandleRecoverFormNothing ==
    /\ JsTask({"RecoverForm"})
    /\ UNCHANGED <<group, request>>
    /\ PostReplyEvent("RECOVER_FORM_DONE", Head(jsq).id)

HandleRecoverForm ==
    /\ JsTask({"RecoverForm"})
    /\ \/ Faulty /\ UNCHANGED <<group, request>>
       \/ /\ group' = (group \/ request = "released")
          /\ request' = IF request = "released" THEN "live" ELSE request
    /\ PostReplyEvent("RECOVER_FORM_DONE", Head(jsq).id)

\* Mutant of RecycleTimerFires: the timeout is only logged.
RecycleTimerLogs ==
    /\ rTimer /\ rTimer' = FALSE
    /\ UNCHANGED <<rstatus, supply, renderRecord, group, request, jsq, call, inbox, working,
                   outbox>>

\* ScheduleRecycleTimeout's task: it sets the status whatever it is.
RecycleTimerFires ==
    /\ rTimer /\ rTimer' = FALSE
    /\ rstatus' = "UNPROCESSABLE"
    /\ UNCHANGED <<supply, renderRecord, group, request, jsq, call, inbox, working, outbox>>

\* The process dies; a call it was serving fails, replies sent are delivered.
Crash ==
    /\ rstatus' = NoStatus /\ supply' = FALSE /\ renderRecord' = FALSE
    /\ group' = FALSE /\ request' = "none" /\ jsq' = <<>> /\ rTimer' = FALSE
    /\ inbox' = <<>> /\ working' = FALSE
    /\ call' = IF call = NoCall THEN call ELSE [call EXCEPT !.at = "ERR"]
    /\ outbox' = {[r EXCEPT !.waits = "none"] : r \in outbox}

--------------------------------------------------------------------------------
Client ==
    \/ /\ Cardinality(outbox) <= MaxOutbox
       /\ \E id \in Ids :
            \/ \E op \in SyncOps : Call(op, id)
            \/ Len(inbox) < MaxInbox /\ \E op \in AsyncOps : Send(op, id)
    \/ \E r \in {"OK", "ERR"} : Result(r)
    \/ \E r \in outbox : Deliver(r)

Serve ==
    \/ ReceiveCall \/ RenderForm \/ RecycleForm \/ RecoverForm
    \/ ReceiveAsync \/ ReleaseRenderer \/ StopRenderingForm

JsThread == HandleUpdateRenderRecord \/ HandleRecoverForm

Next == Client \/ Serve \/ JsThread \/ RecycleTimerFires \/ Crash

Spec == Init /\ [][Next]_rvars

\* Each thread of the process keeps running, the timer runs out, and the
\* client takes the replies.
Fairness ==
    /\ WF_rvars(ReceiveCall \/ RenderForm \/ RecycleForm \/ RecoverForm)
    /\ WF_rvars(ReceiveAsync \/ ReleaseRenderer \/ StopRenderingForm)
    /\ WF_rvars(JsThread) /\ WF_rvars(RecycleTimerFires)
    /\ WF_rvars(\E r \in outbox : Deliver(r)) /\ WF_rvars(\E r \in {"OK", "ERR"} : Result(r))
FairSpec == Spec /\ Fairness

--------------------------------------------------------------------------------
(* Type invariant.                                                         *)
TypeOK ==
    /\ rstatus \in FormFsmStatus \cup {NoStatus}
    /\ supply \in BOOLEAN /\ renderRecord \in BOOLEAN /\ group \in BOOLEAN
    /\ request \in {"none", "live", "released"}
    /\ jsq \in Seq([op: SyncOps \ {"RecycleForm"}, id: Ids])
    /\ rTimer \in BOOLEAN
    /\ call \in [op: SyncOps, id: Ids, at: {"sent", "accepted", "OK", "ERR"}] \cup {NoCall}
    /\ inbox \in Seq([op: AsyncOps, id: Ids \cup {NoId}]) /\ working \in BOOLEAN
    /\ outbox \subseteq [event: Replies, id: Ids, waits: {"js", "binder", "none"}]

(* The timer, which overwrites the status without looking at it, runs only *)
(* while a release is awaited or being carried out: it never hits a later  *)
(* operation (ScheduleRecycleTimeout, CancelRecycleTimeout).               *)
TimerHitsOnlyRecycle ==
    rTimer => rstatus \in {"RECYCLING_DATA", "RECYCLING"}

(* What the JS thread has to do belongs to the operation the status shows, *)
(* so its completion finds a row and is reported: the status machine lets  *)
(* no second operation in before, whatever thread it comes from.           *)
JsWorkIsReported ==
    jsq # <<>> => /\ Len(jsq) = 1
                  /\ rstatus = Starts[EventOf[Head(jsq).op]]

(* The wait for a release is limited: a form that has its data saved and   *)
(* its renderers still alive has the timer running.                        *)
WaitIsLimited ==
    (rstatus = "RECYCLING_DATA" /\ group /\ call.at # "accepted") => rTimer

(* The render record outlives what is kept in it: renderers are there only *)
(* for a request that is not released, and both only in a record.          *)
RecordCoversForm ==
    /\ group => request = "live"
    /\ (group \/ request # "none" \/ jsq # <<>>) => renderRecord

(* An operation ends, whatever the client does next, unless it waits for a *)
(* release of renderers that are gone already.  (A release that outlives   *)
(* its timer cancels the timer of the recycle that came in between.)       *)
ReleasedMeanwhile == rstatus = "RECYCLING_DATA" /\ ~rTimer /\ ~group /\ call.at # "accepted"
OperationsEnd ==
    rstatus \in Busy ~> (rstatus \notin Busy \/ ReleasedMeanwhile)

================================================================================
