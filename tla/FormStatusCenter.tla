---------------------------- MODULE FormStatusCenter ----------------------------
(***************************************************************************)
(* The two services together, for one form: the status centre of the Form  *)
(* Manager Service (FormStatusMgr) calls the Form Render Service           *)
(* (FormRenderService) through the proxy it got when it connected, and     *)
(* takes its replies.  The connection is kept by FormRenderMgrInner and    *)
(* FormRenderConnection.  The render service may die and come back; each   *)
(* time it is a new process, whose proxy is its number.                    *)
(***************************************************************************)
EXTENDS Naturals, Sequences

CONSTANTS
    EVENT_QUEUE_SIZE_MAX, MaxEventId, MaxPosts, MaxReplies, MaxHosts,   \* of FormStatusMgr
    Faulty,                                                             \* of FormRenderService
    ClientOps,    \* what clients ask for
    Slow,         \* an operation may outlast its execution timeout
    MaxCrashes    \* bound: times the render service dies

ASSUME FormStatusCenterAssumption ==
    /\ ClientOps \subseteq {"UpdateForm", "StopRenderingForm", "StopComponent",
                            "ReleaseRenderer", "RecycleForms", "RecoverForms"}
    /\ Slow \in BOOLEAN /\ MaxCrashes \in Nat
    /\ EVENT_QUEUE_SIZE_MAX \in Nat \ {0} /\ MaxEventId \in Nat /\ MaxPosts \in Nat
    /\ MaxReplies \in Nat /\ MaxHosts \in Nat \ {0}   \* the form is in a host
    /\ Faulty \in BOOLEAN

VARIABLES
    \* of FormStatusMgr
    status, evq, eventId, last, retryCount,
    taskq, running, recycleTimer, releaseDelay, restores,
    armed, lastId, matched,
    isExistRecycleTask, expectRecycled, posts, replies,
    \* of FormRenderService
    rstatus, supply, renderRecord, group, request, jsq, rTimer, call, inbox, working, outbox,
    \* of FormRenderMgrInner
    renderObj,     \* renderRemoteObj_: the process it belongs to, or NoProxy
    connection,    \* renderFormConnections_ has the form
    connecting,    \* ConnectRenderService was called and not answered yet
    \* the environment
    process        \* number of the render service process that runs

fvars == <<status, evq, eventId, last, retryCount, taskq, running, recycleTimer, releaseDelay,
           restores, armed, lastId, matched, isExistRecycleTask, expectRecycled, posts, replies>>
svars == <<rstatus, supply, renderRecord, group, request, jsq, rTimer, call, inbox, working,
           outbox>>
cvars == <<renderObj, connection, connecting, process>>
vars  == <<fvars, svars, cvars>>

--------------------------------------------------------------------------------
Proxies == 1 .. MaxCrashes + 1
FMS == INSTANCE FormStatusMgr
FRS == INSTANCE FormRenderService WITH
           Ids <- 1 .. MaxEventId, NoId <- FMS!NoId, MaxInbox <- MaxPosts, MaxOutbox <- MaxReplies

NoProxy == FMS!NoProxy

Init ==
    /\ FMS!Init /\ FRS!Init
    /\ renderObj = NoProxy /\ connection = FALSE /\ connecting = FALSE /\ process = 1

--------------------------------------------------------------------------------
(* Requests of the clients, as FormRenderMgrInner passes them on.          *)

\* The proxy a request for a connected form is posted with.
Proxy == IF connection THEN renderObj ELSE NoProxy

\* RenderForm connects first when there is no connection or no process.
RenderForm ==
    IF Proxy # NoProxy
    THEN FMS!PostRenderForm("RenderForm", Proxy) /\ UNCHANGED <<svars, cvars>>
    ELSE /\ ~connecting /\ connecting' = TRUE
         /\ UNCHANGED <<fvars, svars, renderObj, connection, process>>

UpdateRenderingForm ==
    "UpdateForm" \in ClientOps /\ Proxy # NoProxy /\ FMS!PostRenderForm("UpdateForm", Proxy)

StopRenderingForm ==
    /\ Proxy # NoProxy
    /\ \E f \in ClientOps \cap {"StopRenderingForm", "StopComponent"} :
         FMS!PostStopRenderingForm(f, Proxy)

ReleaseRenderer ==
    "ReleaseRenderer" \in ClientOps /\ Proxy # NoProxy /\ FMS!PostReleaseRenderer(Proxy)

RecycleForms == "RecycleForms" \in ClientOps /\ FMS!PostRecycleForms(Proxy)

RecoverForms ==
    /\ "RecoverForms" \in ClientOps /\ Proxy # NoProxy
    /\ \E click \in BOOLEAN : FMS!PostRecoverForm(Proxy, click)

\* OnAbilityConnectDone: AddConnection, AddRenderDeathRecipient, which keeps
\* the proxy it has, and the render the connection was made for.
OnAbilityConnectDone ==
    /\ connecting /\ connecting' = FALSE
    /\ connection' = TRUE
    /\ renderObj' = IF renderObj = NoProxy THEN process ELSE renderObj
    /\ FMS!PostRenderForm("RenderForm", process)
    /\ UNCHANGED <<svars, process>>

Clients ==
    \/ RenderForm \/ OnAbilityConnectDone
    \/ /\ \/ UpdateRenderingForm \/ StopRenderingForm \/ ReleaseRenderer
          \/ RecycleForms \/ RecoverForms
       /\ UNCHANGED <<svars, cvars>>

--------------------------------------------------------------------------------
(* Calls.  The worker waits for the result of a synchronous one; a call    *)
(* through the proxy of a process that is gone fails.                      *)

SyncOp == CASE running.func = "RestoreRecycled" -> "RecycleForm" [] OTHER -> running.func
IsSync == running.func \in FRS!SyncOps \/ (running.func = "RestoreRecycled" /\ expectRecycled)

\* What the worker does when the synchronous call has returned.
Returned(err) ==
    \/ FMS!RenderForm(err) \/ FMS!RecycleForm(err) \/ FMS!RecoverForm(err)
    \/ FMS!RestoreRecycled(1, IF err THEN 1 ELSE 0)

CallRenderService ==
    /\ IsSync /\ running.proxy = process
    /\ FRS!Call(SyncOp, eventId)
    /\ UNCHANGED <<fvars, cvars>>

CallReturns ==
    /\ \/ FRS!Result("OK")  /\ Returned(FALSE)
       \/ FRS!Result("ERR") /\ Returned(TRUE)
    /\ UNCHANGED cvars

CallDeadProcess ==
    /\ IsSync /\ running.proxy # process /\ call = FRS!NoCall
    /\ Returned(TRUE)
    /\ UNCHANGED <<svars, cvars>>

\* A one-way call is on its way when the worker goes on.
SendStopRenderingForm ==
    /\ running # FMS!NoTask
    /\ IF running.proxy = process
       THEN FRS!Send(running.func, eventId) /\ FMS!StopRenderingForm(FALSE)
       ELSE FMS!StopRenderingForm(TRUE) /\ UNCHANGED svars
    /\ UNCHANGED cvars

SendReleaseRenderer ==
    /\ taskq # <<>>
    /\ IF Head(taskq).proxy = process
       THEN FRS!Send("ReleaseRenderer", eventId) /\ FMS!ReleaseRenderer(FALSE)
       ELSE FMS!ReleaseRenderer(TRUE) /\ UNCHANGED svars
    /\ UNCHANGED cvars

\* Task functions that call nobody.
LocalTask ==
    /\ \/ FMS!OnRecycleForm \/ FMS!PostDelayReleaseRenderer \/ FMS!RecycleTimeout
       \/ call = FRS!NoCall /\ ~expectRecycled /\ FMS!RestoreRecycled(0, 0)
    /\ UNCHANGED <<svars, cvars>>

\* Mutant of TakeReply: the id of the reply is not compared.
TakeReplyUnchecked(r) ==
    /\ FRS!Deliver(r)
    /\ replies < MaxReplies /\ replies' = replies + 1
    /\ retryCount' = IF r.event \in FMS!FailEvents THEN retryCount ELSE 0
    /\ matched' = matched \cup {[event |-> r.event, id |-> r.id]}
    /\ UNCHANGED <<status, evq, eventId, last, taskq, running, recycleTimer, releaseDelay,
                   restores, armed, lastId, isExistRecycleTask, expectRecycled, posts, cvars>>

\* A reply arrives; StopRenderingFormCallback drops the connection just before.
\* Data that cannot be stored (OnRecycleDataDone) ends the reply there.
TakeReply(r) ==
    /\ FRS!Deliver(r)
    /\ \/ FMS!HandleFrsEventReply(r.event, r.id)
       \/ Faulty /\ r.event = "RECYCLE_DATA_DONE" /\ UNCHANGED fvars
    /\ connection' = (connection /\ r.event # "DELETE_FORM_FINISH")
    /\ UNCHANGED <<renderObj, connecting, process>>

ActOnReply == (\E m \in matched : FMS!PostReply(m)) /\ UNCHANGED <<svars, cvars>>

--------------------------------------------------------------------------------
Machine == FMS!Machine /\ UNCHANGED <<svars, cvars>>
Delays ==
    /\ \/ FMS!RecycleTimerDue \/ FMS!ReleaseDelayDue \/ FMS!RestoreDue
       \/ Slow /\ \E i \in armed : FMS!ExecutionTimeout(i)
    /\ UNCHANGED <<svars, cvars>>

Serve     == FRS!Serve /\ UNCHANGED <<fvars, cvars>>
JsThread  == FRS!JsThread /\ UNCHANGED <<fvars, cvars>>
FrsTimer  == FRS!RecycleTimerFires /\ UNCHANGED <<fvars, cvars>>

RenderServiceDies ==
    /\ process <= MaxCrashes /\ process' = process + 1
    /\ FRS!Crash
    /\ UNCHANGED <<fvars, renderObj, connection, connecting>>

\* RerenderAllForms, on the death of the process the proxy belongs to.
RerenderAllForms ==
    /\ renderObj # NoProxy /\ renderObj # process
    /\ renderObj' = NoProxy
    /\ UNCHANGED <<fvars, svars, connection, connecting, process>>

Worker == Machine \/ CallRenderService \/ CallReturns \/ CallDeadProcess
            \/ SendStopRenderingForm \/ SendReleaseRenderer \/ LocalTask

Next ==
    \/ Clients \/ Worker \/ Delays
    \/ (\E r \in outbox : TakeReply(r)) \/ ActOnReply
    \/ Serve \/ JsThread \/ FrsTimer
    \/ RenderServiceDies \/ RerenderAllForms

Spec == Init /\ [][Next]_vars

--------------------------------------------------------------------------------
(* Nothing is under way: no task, no call, no reply, no delay.             *)
Quiet ==
    /\ taskq = <<>> /\ running = FMS!NoTask /\ matched = {} /\ restores = <<>>
    /\ call = FRS!NoCall /\ inbox = <<>> /\ outbox = {} /\ jsq = <<>>
    /\ ~recycleTimer /\ releaseDelay = NoProxy

(* Both services take the same view of a form once nothing is under way:   *)
(* one that the manager holds as rendered has its renderers, so that it    *)
(* need not be recovered, and one that it holds as recycled has none.      *)
(* (Without timeouts, faults and deaths: the statuses are kept apart and   *)
(* only the replies tie them together.)                                    *)
ServicesAgree ==
    Quiet => /\ status = "RENDERED" => request # "released" /\ (request = "live" => group)
             /\ status = "RECYCLED" => ~group

(* An operation under way is never left to itself: its execution timeout   *)
(* is armed, or something that is under way will end it.  (Without         *)
(* timeouts and deaths, see EndsWhatItGuards.)                             *)
BusyIsGuarded ==
    status \in FMS!Busy => eventId \in armed \/ ~Quiet

(* Whoever cancels the execution timeout of the current operation posts an *)
(* event that this operation takes: the id the render service sends back   *)
(* is its own.  Only a release, which takes whatever id is current when    *)
(* its delay is over, can disarm another operation.                        *)
EndsWhatItGuards ==
    [][ (status \in FMS!Busy /\ eventId \in armed /\ eventId \notin armed') =>
            LET e == taskq'[Len(taskq')].event IN
            \/ e \in {"EXECUTION_TIMEOUT", "RECYCLE_FORM_DONE", "RECYCLE_FORM_FAIL"}
            \/ FMS!HasRow(status, e) ]_vars

(* The two services together are one of the behaviours FormStatusMgr       *)
(* allows: what is proved of it for any render service holds for this one, *)
(* whatever dies when.                                                     *)
ImplementsStatusMgr == FMS!Spec

================================================================================
