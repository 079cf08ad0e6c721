----------------------------- MODULE FormStatusMgr -----------------------------
(***************************************************************************)
(* The form status centre of the Form Manager Service, for one form: the   *)
(* table-driven status machine (FormStatusMgr), the form's event queue     *)
(* (FormEventQueue), the retry record (FormEventRetryMgr), the serial      *)
(* worker every task runs on (FormStatusQueue), the execution timeouts     *)
(* (FormEventTimeoutQueue) and the task functions (FormStatusTaskMgr).     *)
(* The render service is open here: a call to it may return an error or    *)
(* not, and any reply carrying an event id that was issued may arrive.     *)
(* All maps of the code are keyed by formId and no operation reads the     *)
(* entry of another form, so one form stands for each.                     *)
(***************************************************************************)
EXTENDS FormStatusTable, TaskSequences

CONSTANTS
    Proxies,               \* the render service proxies a task may hold
    EVENT_QUEUE_SIZE_MAX,  \* capacity of the event queue (100 in the code)
    MaxEventId,            \* bound: event ids issued
    MaxPosts,              \* bound: requests posted by clients
    MaxReplies,            \* bound: replies of the render service
    MaxHosts               \* bound: hosts a restored recycle is sent for

ASSUME FormStatusMgrAssumption ==
    /\ Proxies \subseteq Nat \ {0}
    /\ EVENT_QUEUE_SIZE_MAX \in Nat \ {0}
    /\ MaxEventId \in Nat /\ MaxPosts \in Nat /\ MaxReplies \in Nat /\ MaxHosts \in Nat

VARIABLES
    \* the maps of the status centre, at this form
    status,         \* formStatusMap_ (current status), Absent without entry
    evq,            \* formEventQueueMap_: tasks put aside
    eventId,        \* formEventIdMap_, NoId without entry
    last,           \* lastFormEventMap_, NoTask without entry
    retryCount,     \* retryCountMap_, 0 without entry
    \* the FormStatusQueue worker
    taskq,          \* tasks that are due, in order
    running,        \* the task whose function runs next
    recycleTimer,   \* WAIT_RELEASE_RENDERER_MSG is scheduled
    releaseDelay,   \* proxy of the scheduled RELEASE_RENDER_DELAY_MSG, or NoProxy
    restores,       \* proxies of the delayed RECYCLE_DATA tasks, by due time
    \* the FormEventTimeoutQueue and the binder threads
    armed,          \* event ids whose execution timeout is scheduled
    lastId,         \* event ids issued so far
    matched,        \* replies found current and not yet acted on
    \* the form record
    isExistRecycleTask, expectRecycled,
    \* the environment
    posts,          \* requests posted so far
    replies         \* replies received so far

fsm    == <<status, evq, eventId, last, retryCount>>
worker == <<taskq, running, recycleTimer, releaseDelay, restores>>
ids    == <<armed, lastId, matched>>
record == <<isExistRecycleTask, expectRecycled>>
env    == <<posts, replies>>
vars   == <<fsm, worker, ids, record, env>>

--------------------------------------------------------------------------------
Absent  == "ABSENT"
NoId    == 0
NoProxy == 0

\* The function posted with an event; replies and failures come without one.
FuncsOf(e) ==
    CASE e = "RENDER_FORM"       -> {"RenderForm", "UpdateForm"}
      [] e = "RECYCLE_DATA"      -> {"RecycleForm", "RestoreRecycled"}
      [] e = "RECYCLE_DATA_DONE" -> {"OnRecycleForm"}
      [] e = "RECYCLE_FORM"      -> {"ReleaseRenderer"}
      [] e = "RECOVER_FORM"      -> {"RecoverForm"}
      [] e = "DELETE_FORM"       -> {"StopRenderingForm", "StopComponent"}
      [] OTHER                   -> {"null"}
Funcs == UNION {FuncsOf(e) : e \in FormFsmEvent}
Msgs  == {"WAIT_RELEASE_RENDERER_MSG", "RELEASE_RENDER_DELAY_MSG"}

Task(e, f, p) == [event |-> e, func |-> f, proxy |-> p]
TasksOf(events) ==
    {t \in [event: events, func: Funcs, proxy: Proxies \cup {NoProxy}] :
        /\ t.func \in FuncsOf(t.event)
        /\ t.proxy = NoProxy <=> t.func \in {"null", "OnRecycleForm"}}
DelayedBodies(msgs) == [event: msgs, func: {"null"}, proxy: Proxies \cup {NoProxy}]
Tasks      == TasksOf(FormFsmEvent)
NoTask     == Task("NONE", "null", NoProxy)
Event(e)   == Task(e, "null", NoProxy)   \* PostFormEvent without a function
IsMsg(m, t) == t.event = m

Post(q, t)    == Append(q, t)
\* CancelDelayTask: the delayed body with this key leaves the worker's queue.
Without(q, m) == Keep(q, Tasks \cup DelayedBodies(Msgs \ {m}))
\* Mutant of Push: no limit.
PushUnlimited(q, t) == Append(q, t)
\* PushFormEvent: a full queue refuses the task.
Push(q, t)    == IF Len(q) < EVENT_QUEUE_SIZE_MAX THEN Append(q, t) ELSE q
\* The tasks AddTaskToQueueUnique keeps.
Retained      == TasksOf({"RENDER_FORM", "DELETE_FORM"})

GetFormStatus == IF status = Absent THEN "INIT" ELSE status
IsFormProcessRecycle == GetFormStatus \in {"RECYCLED", "RECYCLING_DATA", "RECYCLING"}

Init ==
    /\ status = Absent /\ evq = <<>> /\ eventId = NoId /\ last = NoTask /\ retryCount = 0
    /\ taskq = <<>> /\ running = NoTask /\ recycleTimer = FALSE
    /\ releaseDelay = NoProxy /\ restores = <<>>
    /\ armed = {} /\ lastId = 0 /\ matched = {}
    /\ isExistRecycleTask = FALSE /\ expectRecycled = FALSE
    /\ posts = 0 /\ replies = 0

--------------------------------------------------------------------------------
(* Requests.  They reach the worker's queue from binder threads.           *)

Request(t) ==
    /\ posts < MaxPosts
    /\ posts' = posts + 1
    /\ taskq' = IF t.proxy = NoProxy THEN taskq ELSE Post(taskq, t)
    /\ UNCHANGED <<fsm, running, recycleTimer, releaseDelay, restores, ids, replies>>

PostRenderForm(f, p) ==
    Request(Task("RENDER_FORM", f, p)) /\ UNCHANGED record

\* The whole form, or one component of it (compId).
PostStopRenderingForm(f, p) ==
    Request(Task("DELETE_FORM", f, p)) /\ UNCHANGED record

PostReleaseRenderer(p) ==
    Request(Task("RECYCLE_FORM", "ReleaseRenderer", p)) /\ UNCHANGED record

PostRecycleForms(p) ==
    /\ ~IsFormProcessRecycle
    /\ expectRecycled' = TRUE
    /\ Request(Task("RECYCLE_DATA", "RecycleForm", p))
    /\ UNCHANGED isExistRecycleTask

\* RecoverForms clears the expectation before it decides.
MayRecover(click) == IsFormProcessRecycle \/ isExistRecycleTask \/ click

PostRecoverForm(p, click) ==
    /\ expectRecycled' = FALSE
    /\ Request(Task("RECOVER_FORM", "RecoverForm",
                    IF MayRecover(click) THEN p ELSE NoProxy))
    /\ UNCHANGED isExistRecycleTask

--------------------------------------------------------------------------------
(* ExecStatusMachineTask, on the worker.  The machine takes the head of    *)
(* the queue; a task function it selects runs in a later step.             *)

Idle == running = NoTask /\ taskq # <<>>
Step(type) ==
    /\ Idle
    /\ Head(taskq).event \in FormFsmEvent
    /\ HasRow(GetFormStatus, Head(taskq).event)
    /\ GetFormStatusInfo(GetFormStatus, Head(taskq).event).processType = type
    /\ taskq' = Tail(taskq)
    /\ UNCHANGED <<recycleTimer, releaseDelay, restores, matched, expectRecycled, env>>

\* Mutant of ExecFormTaskTimeout: the id is issued, the timeout is not scheduled.
ExecFormTaskUntimed(timed) ==
    IF timed THEN /\ lastId < MaxEventId /\ lastId' = lastId + 1 /\ eventId' = lastId'
                  /\ UNCHANGED armed
             ELSE UNCHANGED <<lastId, eventId, armed>>

ExecFormTaskTimeout(timed) ==
    IF timed
    THEN /\ lastId < MaxEventId
         /\ lastId' = lastId + 1
         /\ eventId' = lastId'
         /\ armed' = armed \cup {lastId'}
    ELSE UNCHANGED <<lastId, eventId, armed>>

\* Mutant of Begin: the task is not recorded for a retry.
BeginUnrecorded(s, t) ==
    /\ HasRow(s, t.event)
    /\ status' = GetFormStatusInfo(s, t.event).nextStatus
    /\ ExecFormTaskTimeout(GetFormStatusInfo(s, t.event).timed)
    /\ running' = IF t.func = "null" THEN running ELSE t
    /\ UNCHANGED last

\* A task in status s, where every row there is processed directly.
Begin(s, t) ==
    IF HasRow(s, t.event)
    THEN LET row == GetFormStatusInfo(s, t.event) IN
         /\ status' = row.nextStatus
         /\ ExecFormTaskTimeout(row.timed)
         /\ IF t.func = "null" THEN UNCHANGED <<last, running>>
                               ELSE last' = t /\ running' = t
    ELSE status' = s /\ UNCHANGED <<lastId, eventId, armed, last, running>>

\* Mutant of FromQueue: the task is run and stays in the queue.
FromQueueUnpopped(s) ==
    /\ IF evq = <<>> THEN status' = s /\ UNCHANGED <<lastId, eventId, armed, last, running>>
                     ELSE Begin(s, Head(evq))
    /\ UNCHANGED <<evq, isExistRecycleTask>>

\* ProcessTaskFromQueue: one task, run in the status just reached.
FromQueue(s) ==
    IF evq = <<>>
    THEN /\ status' = s
         /\ UNCHANGED <<evq, isExistRecycleTask, lastId, eventId, armed, last, running>>
    ELSE /\ evq' = Tail(evq)
         /\ isExistRecycleTask' = (isExistRecycleTask /\ Head(evq).event # "RECYCLE_FORM")
         /\ Begin(s, Head(evq))

NextStatus == GetFormStatusInfo(GetFormStatus, Head(taskq).event).nextStatus

\* No row: the event is reported and dropped.
RejectTask ==
    /\ Idle /\ Head(taskq).event \in FormFsmEvent
    /\ ~HasRow(GetFormStatus, Head(taskq).event)
    /\ status' = GetFormStatus
    /\ taskq' = Tail(taskq)
    /\ UNCHANGED <<evq, eventId, last, retryCount, running, recycleTimer, releaseDelay,
                   restores, ids, record, env>>

ProcessTaskDirect ==
    /\ Step("PROCESS_TASK_DIRECT")
    /\ Begin(GetFormStatus, Head(taskq))
    /\ UNCHANGED <<evq, retryCount, isExistRecycleTask>>

AddTaskToQueueUnique ==
    /\ Step("ADD_TASK_TO_QUEUE_UNIQUE")
    /\ status' = NextStatus
    /\ IF Len(evq) >= EVENT_QUEUE_SIZE_MAX
       THEN UNCHANGED <<evq, isExistRecycleTask>>
       ELSE /\ evq' = Keep(Append(evq, Head(taskq)), Retained)
            /\ isExistRecycleTask' = FALSE
    /\ UNCHANGED <<eventId, last, retryCount, running, armed, lastId>>

AddTaskToQueuePush ==
    /\ Step("ADD_TASK_TO_QUEUE_PUSH")
    /\ status' = NextStatus
    /\ evq' = Push(evq, Head(taskq))
    /\ isExistRecycleTask' = (isExistRecycleTask
                              \/ Head(taskq).event \in {"RECYCLE_DATA", "RECYCLE_FORM"})
    /\ UNCHANGED <<eventId, last, retryCount, running, armed, lastId>>

ProcessTaskFromQueue ==
    /\ Step("PROCESS_TASK_FROM_QUEUE")
    /\ FromQueue(NextStatus)
    /\ UNCHANGED retryCount

\* Mutant of ProcessTaskDelete: the retry record survives.
DeleteAllButRetry ==
    /\ Step("PROCESS_TASK_DELETE")
    /\ status' = Absent /\ evq' = <<>> /\ eventId' = NoId
    /\ UNCHANGED <<last, retryCount, running, armed, lastId, isExistRecycleTask>>

ProcessTaskDelete ==
    /\ Step("PROCESS_TASK_DELETE")
    /\ status' = Absent /\ evq' = <<>> /\ eventId' = NoId
    /\ last' = NoTask /\ retryCount' = 0
    /\ UNCHANGED <<running, armed, lastId, isExistRecycleTask>>

\* Mutants of ProcessTaskFromRetry: the last retry forgets the queue, and the
\* task is repeated without the status it runs in.
RetryForgetsQueue ==
    /\ Step("PROCESS_TASK_RETRY")
    /\ retryCount' = 1 - retryCount
    /\ IF retryCount = 1 \/ last = NoTask
       THEN status' = NextStatus /\ UNCHANGED <<lastId, eventId, armed, last, running>>
       ELSE Begin(NextStatus, last)
    /\ UNCHANGED <<evq, isExistRecycleTask>>

RetryOutOfStatus ==
    /\ Step("PROCESS_TASK_RETRY")
    /\ retryCount' = 1 - retryCount
    /\ status' = NextStatus /\ running' = last
    /\ UNCHANGED <<evq, isExistRecycleTask, lastId, eventId, armed, last>>

ProcessTaskFromRetry ==
    /\ Step("PROCESS_TASK_RETRY")
    /\ IF retryCount = 1
       THEN retryCount' = 0 /\ FromQueue(NextStatus)
       ELSE /\ retryCount' = 1
            /\ IF last = NoTask
               THEN status' = NextStatus /\ UNCHANGED <<lastId, eventId, armed, last, running>>
               ELSE Begin(NextStatus, last)
            /\ UNCHANGED <<evq, isExistRecycleTask>>

--------------------------------------------------------------------------------
(* The task functions, on the worker: a call to the render service with    *)
(* the current event id, and what its result leads to.                     *)

Run(funcs) ==
    /\ running.func \in funcs
    /\ running' = NoTask
    /\ UNCHANGED <<fsm, lastId, matched, record, env>>

\* A call that failed cancels the timeout and posts the failure.
Report(err, e) ==
    IF err THEN armed' = armed \ {eventId} /\ taskq' = Post(taskq, Event(e))
           ELSE UNCHANGED <<armed, taskq>>

RenderForm(err) ==
    /\ Run({"RenderForm", "UpdateForm"})
    /\ Report(err, "RENDER_FORM_FAIL")
    /\ restores' = IF expectRecycled THEN Append(restores, running.proxy) ELSE restores
    /\ UNCHANGED <<recycleTimer, releaseDelay>>

RecycleForm(err) ==
    /\ Run({"RecycleForm"})
    /\ Report(err, "RECYCLE_DATA_FAIL")
    /\ UNCHANGED <<recycleTimer, releaseDelay, restores>>

\* The delayed recycle: one call for each of the `hosts` hosts, `fails` of them in error.
\* It looks at the expectation before the calls, and a recovery may withdraw it meanwhile.
RestoreRecycled(hosts, fails) ==
    /\ Run({"RestoreRecycled"})
    /\ fails <= hosts
    /\ IF expectRecycled \/ hosts > 0
       THEN /\ armed' = IF fails > 0 THEN armed \ {eventId} ELSE armed
            /\ taskq' = taskq \o [i \in 1 .. fails |-> Event("RECYCLE_DATA_FAIL")]
       ELSE Report(TRUE, "RECYCLE_DATA_FAIL")
    /\ UNCHANGED <<recycleTimer, releaseDelay, restores>>

RecoverForm(err) ==
    /\ Run({"RecoverForm"})
    /\ Report(err, "RECOVER_FORM_FAIL")
    /\ UNCHANGED <<recycleTimer, releaseDelay, restores>>

StopRenderingForm(err) ==
    /\ Run({"StopRenderingForm", "StopComponent"})
    /\ Report(err, "DELETE_FORM_FAIL")
    /\ UNCHANGED <<recycleTimer, releaseDelay, restores>>

\* Mutant of OnRecycleForm: nothing limits the wait for the host.
OnRecycleFormUntimed ==
    /\ Run({"OnRecycleForm"})
    /\ UNCHANGED <<taskq, recycleTimer, releaseDelay, restores, armed>>

\* The data is saved: tell the host, and wait for its release.
OnRecycleForm ==
    /\ Run({"OnRecycleForm"})
    /\ recycleTimer' = TRUE
    /\ taskq' = Without(taskq, "WAIT_RELEASE_RENDERER_MSG")
    /\ UNCHANGED <<releaseDelay, restores, armed>>

\* The host released: stop waiting, and release the renderer a little later.
PostDelayReleaseRenderer ==
    /\ Run({"ReleaseRenderer"})
    /\ recycleTimer' = FALSE
    /\ releaseDelay' = running.proxy
    /\ taskq' = Without(Without(taskq, "WAIT_RELEASE_RENDERER_MSG"), "RELEASE_RENDER_DELAY_MSG")
    /\ UNCHANGED <<restores, armed>>

--------------------------------------------------------------------------------
(* Delays run out: the body joins the worker's queue, then runs there.     *)

DelayOver == UNCHANGED <<fsm, running, ids, record, env>>

RecycleTimerDue ==
    /\ recycleTimer /\ recycleTimer' = FALSE
    /\ taskq' = Post(taskq, Event("WAIT_RELEASE_RENDERER_MSG"))
    /\ DelayOver /\ UNCHANGED <<releaseDelay, restores>>

ReleaseDelayDue ==
    /\ releaseDelay # NoProxy /\ releaseDelay' = NoProxy
    /\ taskq' = Post(taskq, Task("RELEASE_RENDER_DELAY_MSG", "null", releaseDelay))
    /\ DelayOver /\ UNCHANGED <<recycleTimer, restores>>

RestoreDue ==
    /\ restores # <<>> /\ restores' = Tail(restores)
    /\ taskq' = Post(taskq, Task("RECYCLE_DATA", "RestoreRecycled", Head(restores)))
    /\ DelayOver /\ UNCHANGED <<recycleTimer, releaseDelay>>

RecycleTimeout ==
    /\ Idle /\ IsMsg("WAIT_RELEASE_RENDERER_MSG", Head(taskq))
    /\ taskq' = Post(Tail(taskq), Event("RECYCLE_FORM_FAIL"))
    /\ UNCHANGED <<fsm, running, recycleTimer, releaseDelay, restores, ids, record, env>>

\* ReleaseRenderer asks for the event id that is current when it runs.
ReleaseRenderer(err) ==
    /\ Idle /\ IsMsg("RELEASE_RENDER_DELAY_MSG", Head(taskq))
    /\ armed' = IF err THEN armed \ {eventId} ELSE armed
    /\ taskq' = IF err THEN Post(Tail(taskq), Event("RECYCLE_FORM_FAIL")) ELSE Tail(taskq)
    /\ UNCHANGED <<fsm, running, recycleTimer, releaseDelay, restores, lastId, matched,
                   record, env>>

\* The execution timeout of the operation that got event id i.
ExecutionTimeout(i) ==
    /\ i \in armed /\ armed' = armed \ {i}
    /\ taskq' = Post(taskq, Event("EXECUTION_TIMEOUT"))
    /\ UNCHANGED <<fsm, running, recycleTimer, releaseDelay, restores, lastId, matched,
                   record, env>>

--------------------------------------------------------------------------------
(* Replies of the render service, on binder threads: the event id is       *)
(* compared first and the event posted later.                              *)

FailEvents == {"RENDER_FORM_FAIL", "RECYCLE_DATA_FAIL", "RECYCLE_FORM_FAIL",
               "RECOVER_FORM_FAIL", "DELETE_FORM_FAIL"}
DoneEvents == {"RENDER_FORM_DONE", "RECYCLE_DATA_DONE", "RECYCLE_FORM_DONE",
               "RECOVER_FORM_DONE", "DELETE_FORM_DONE", "DELETE_FORM_FINISH"}

\* HandleFrsEventReply and OnRecycleDataDone, up to the comparison.
HandleFrsEventReply(e, i) ==
    /\ replies < MaxReplies /\ replies' = replies + 1
    /\ retryCount' = IF e \in FailEvents THEN retryCount ELSE 0
    /\ matched' = IF i = eventId THEN matched \cup {[event |-> e, id |-> i]} ELSE matched
    /\ UNCHANGED <<status, evq, eventId, last, worker, armed, lastId, record, posts>>

\* Mutant of PostReply: it cancels the timeout of the operation that is current by now.
PostReplyCancelsCurrent(m) ==
    /\ m \in matched /\ matched' = matched \ {m}
    /\ armed' = armed \ {eventId}
    /\ taskq' = Post(taskq, IF m.event = "RECYCLE_DATA_DONE"
                            THEN Task(m.event, "OnRecycleForm", NoProxy) ELSE Event(m.event))
    /\ UNCHANGED <<fsm, running, recycleTimer, releaseDelay, restores, lastId, record, env>>

\* What follows a comparison that found the reply current.
PostReply(m) ==
    /\ m \in matched /\ matched' = matched \ {m}
    /\ armed' = armed \ {m.id}
    /\ taskq' = Post(taskq, IF m.event = "RECYCLE_DATA_DONE"
                            THEN Task(m.event, "OnRecycleForm", NoProxy) ELSE Event(m.event))
    /\ UNCHANGED <<fsm, running, recycleTimer, releaseDelay, restores, lastId, record, env>>

--------------------------------------------------------------------------------
Clients ==
    \E p \in Proxies :
        \/ \E f \in {"RenderForm", "UpdateForm"} : PostRenderForm(f, p)
        \/ \E f \in {"StopRenderingForm", "StopComponent"} : PostStopRenderingForm(f, p)
        \/ PostReleaseRenderer(p)
        \/ \E q \in {p, NoProxy} : PostRecycleForms(q)
        \/ \E click \in BOOLEAN : PostRecoverForm(p, click)

Machine ==
    \/ RejectTask \/ ProcessTaskDirect \/ AddTaskToQueueUnique \/ AddTaskToQueuePush
    \/ ProcessTaskFromQueue \/ ProcessTaskDelete \/ ProcessTaskFromRetry

TaskFunctions ==
    \/ OnRecycleForm \/ PostDelayReleaseRenderer \/ RecycleTimeout
    \/ \E err \in BOOLEAN :
         RenderForm(err) \/ RecycleForm(err) \/ RecoverForm(err)
           \/ StopRenderingForm(err) \/ ReleaseRenderer(err)
    \/ \E hosts \in 0 .. MaxHosts, fails \in 0 .. MaxHosts : RestoreRecycled(hosts, fails)

Delays ==
    \/ RecycleTimerDue \/ ReleaseDelayDue \/ RestoreDue
    \/ \E i \in armed : ExecutionTimeout(i)

Replies ==
    \/ \E e \in FailEvents \cup DoneEvents, i \in 1 .. lastId : HandleFrsEventReply(e, i)
    \/ \E m \in matched : PostReply(m)

Next == Clients \/ Machine \/ TaskFunctions \/ Delays \/ Replies

Spec == Init /\ [][Next]_vars

--------------------------------------------------------------------------------
(* Type invariant: every variable has the shape its comment states, and    *)
(* the event queue never exceeds its capacity.                             *)
TypeOK ==
    /\ status \in FormFsmStatus \cup {Absent}
    /\ evq \in Seq(TasksOf(DOMAIN Starts)) /\ Len(evq) <= EVENT_QUEUE_SIZE_MAX
    /\ lastId \in 0 .. MaxEventId /\ eventId \in {lastId, NoId}
    /\ last \in TasksOf(DOMAIN Starts \cup {"RECYCLE_DATA_DONE"}) \cup {NoTask}
    /\ retryCount \in {0, 1}
    /\ taskq \in Seq(Tasks \cup DelayedBodies(Msgs))
    /\ running \in TasksOf(DOMAIN Starts \cup {"RECYCLE_DATA_DONE"}) \cup {NoTask}
    /\ recycleTimer \in BOOLEAN
    /\ releaseDelay \in Proxies \cup {NoProxy}
    /\ restores \in Seq(Proxies)
    /\ armed \subseteq 1 .. lastId
    /\ matched \subseteq [event: FailEvents \cup DoneEvents, id: 1 .. lastId]
    /\ isExistRecycleTask \in BOOLEAN /\ expectRecycled \in BOOLEAN
    /\ posts \in 0 .. MaxPosts /\ replies \in 0 .. MaxReplies

(* The operation under way is the one a retry would repeat, and the call   *)
(* that starts it carries the newest event id: ProcessTaskFromRetry takes  *)
(* lastFormEventMap_, the task functions take formEventIdMap_, neither of  *)
(* which is tied to the status by anything but the order of the steps.     *)
OperationOf(t) == IF t.event = "RECYCLE_DATA_DONE" THEN "RECYCLING_DATA" ELSE Starts[t.event]
RetryRepeatsOperation ==
    status \in Busy => /\ last # NoTask /\ OperationOf(last) = status
                       /\ eventId = lastId /\ eventId # NoId
CallOwnsOperation ==
    running # NoTask => status = OperationOf(running) /\ last = running

(* Deleting the form leaves nothing behind for a later form of that id: no *)
(* queued task, no event id, no task to retry.                             *)
NothingLeftBehind ==
    status = Absent => /\ evq = <<>> /\ eventId = NoId
                       /\ last = NoTask /\ retryCount = 0 /\ running = NoTask

(* The operations as the clients see them: renders and deletes put aside   *)
(* are carried out in order, one operation at a time (FormOperations).     *)
Operations ==
    INSTANCE FormOperations WITH
        Requests <- Retained, Phase <- Starts, Rest <- AtRest,
        phase <- GetFormStatus, issued <- lastId, pending <- Keep(evq, Retained)
ImplementsOperations == Operations!Spec

(* What was put aside is taken up when an operation ends, except on the    *)
(* failures of the data step of a recycle, which end it without looking at *)
(* the queue, and behind a task that has no row in the status reached.     *)
QueueTakenUp ==
    [][ (status \in Busy /\ status' \in AtRest /\ evq' # <<>>) =>
            \/ /\ status = "RECYCLING_DATA"
               /\ Head(taskq).event \in {"RECYCLE_DATA_FAIL", "RECYCLE_FORM_FAIL"}
            \/ ~HasRow(status', Head(evq).event)
            \/ last.event = "RECYCLE_DATA_DONE" /\ retryCount' = 1 ]_vars

(* Recovery is performed only when the form has been recycled or is being  *)
(* recycled, when a recycling task is queued, or on a click: the comment   *)
(* of FormLifecycleAdapter::RecoverForms.  What the code consults is       *)
(* isExistRecycleTask, which outlives the queued task.                     *)
RecycleQueued ==
    \E q \in {evq, taskq} : \E i \in DOMAIN q : q[i].event \in {"RECYCLE_DATA", "RECYCLE_FORM"}
RecoverOnlyWhenRecycled ==
    [][ (\E p \in Proxies : PostRecoverForm(p, FALSE) /\ taskq' # taskq)
            => IsFormProcessRecycle \/ RecycleQueued ]_vars

================================================================================
