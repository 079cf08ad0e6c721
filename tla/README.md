# A formal model of the OpenHarmony form framework

`ability_form_fwk` runs service widgets ("forms"). The Form Manager Service (FMS, a
system ability, `services/src`) keeps the records of all forms, decides when a form is
rendered, refreshed, recycled, recovered and deleted, and talks to three kinds of
processes: *hosts*, which show forms; *providers*, the applications whose extension
abilities supply the data; and the *Form Render Service* (FRS,
`services/form_render_service/src`), which runs the ETS code of the forms and draws them.

This directory holds TLA+ modules translated from that source, TLC configurations that
check them, and TLAPS proofs. Paths below are relative to the repository.

Contents: [inventory](#inventory) · [what is modelled](#what-is-modelled) ·
[runs](#runs) · [fairness](#fairness) · [what is proved](#what-is-proved) ·
[what does not hold](#what-does-not-hold) · [what is not modelled](#what-is-not-modelled) ·
[plan](#plan)

## Inventory

### The form status centre (`services/src/status_mgr_center`)

Every operation on a rendered form goes through it.

| part | state | operations |
|---|---|---|
| status machine (`FormStatusMgr`, `FormStatus`, `FormStatusTable`) | per form: status, event id, queue of tasks put aside, last task with a function | `PostFormEvent`, `ExecStatusMachineTask`, one `ExecFormTask` branch per process type (direct, unique, push, from queue, delete, retry) |
| event queue, retry record (`FormEventQueue`, `FormEventRetryMgr`) | at most 100 tasks per form; a retry count of 0 or 1 | push, pop, count, reset |
| task functions (`FormStatusTaskMgr`) | none of its own | the calls to FRS, and the replies (`HandleFrsEventReply`, `OnRecycleDataDone`, ...) |
| serial queues (`FormStatusQueue`, `FormEventTimeoutQueue`, `FormSerialQueue`) | due and delayed tasks | schedule, delay, cancel |

*Interaction.* Binder threads, timers and the task functions themselves post events; one
worker takes them in order, looks the pair (status, event) up in a table, changes the
status, arms an execution timeout under a fresh event id, and runs the task's function,
which calls FRS with that id. FRS answers later through the supply callback on a binder
thread; the reply is compared with the current id, cancels the timeout and becomes the
next event.

*Hard.* Replies race with timeouts and with each other; a retry repeats a task kept in
another map than the status; tasks put aside are run in a status nobody knew when they were
queued; the queue may be full; ids of operations are compared by one thread while another
replaces them; FRS may die between any two steps.

*Correct when* one operation at a time is under way under its own id; requests put aside
are carried out once and in order; every operation ends; a retry repeats the operation
that failed; deletion leaves nothing for a later form of the same id.

### The Form Render Service (`services/form_render_service/src`)

| part | state | operations |
|---|---|---|
| status machine (`FormRenderStatusMgr`, `FormRenderStatusTable`) | per form: status | `PostFormEvent` |
| status tasks (`FormRenderStatusTaskMgr`) | the timer that waits 3 s for a release | the replies `OnRenderFormDone`, ..., schedule and cancel the timer |
| request handling (`FormRenderImpl`, `FormRenderServiceMgr`) | supply clients and render records by uid | render, recycle, recover (synchronous), release and stop (one-way), configuration and host changes |
| render record (`FormRenderRecord`, `FormRendererGroup`, `FormRenderer`) | requests, renderer groups, JS runtime and thread | update, recycle, recover, release, delete |

*Interaction.* Binder threads accept a call in the status machine, then work on the record,
partly by posting to the JS thread and (for some) waiting for it; the JS thread reports the
end of a render or a recovery through the status machine.

*Hard.* Three kinds of threads and a timer share the status; the timer overwrites it; the
state that says whether a form still has renderers is spread over three maps.

*Correct when* no operation is cut short by the timer of another; what the JS thread does
is always reported; a recycled form keeps what its recovery needs.

### The connection between them (`services/src/form_render`)

`FormRenderMgr` and `FormRenderMgrInner` keep the proxy of FRS, one connection per form and
the host tokens; they turn requests into `FormStatusTaskMgr` posts, note the death of FRS
and ask the hosts to render again. *Hard*: a proxy belongs to a process that may be gone;
a connection made just after a death keeps the old proxy until the death is noticed.

### Form lifecycle and records (`services/src/form_mgr`, `services/src/data_center`)

| part | state | operations |
|---|---|---|
| `FormLifecycleAdapter` | none of its own | add a form (new, or by the id of one that exists), delete, release, cast a temporary form, delete what is invalid, enable, recycle, recover |
| `FormDataMgr` | form records, the list of temporary forms, host records by token, each under its lock | allot, join and leave, clean up after a host, an application or a bundle |
| `FormDbCache`, `FormInfoRdbStorageMgr` | the owners of each persistent form, and the rows they come back from | save (compare with the cache, then insert, or delete and insert), delete |
| `FormEventUtil`, `FormHostRecord` | none | the bundle is removed, the data of an application is cleared, a host died |

`FormCacheMgr` keeps cached data, `FormInfoMgr` which forms each bundle offers.

*Interaction.* A request of a host runs on a binder thread through several of these tables,
one lock after the other; the death of a host, the delayed recheck of an empty host record and
a restart come in between.

*Hard.* Records are copied out, changed and written back; that a form is temporary is said in
two places; an owner is said in three (record, cache, row); each step may fail and the steps
before it stay.

*Correct when* no request takes a form from another of its users, the store has every owner
the cache has, and what is temporary is agreed on as long as a host lives.

### Refresh (`services/src/form_refresh`, `services/src/common/timer_mgr`)

| part | state | operations |
|---|---|---|
| requests (`FormRefreshMgr`, `refresh_impl`, `FormProviderMgr::RefreshForm`) | none: a copy of the record | one per cause: timer, host, network, provider, upgrade, force, and `TYPE_UNCONTROL` for what was put off |
| controls (`RefreshControlMgr`) | system load | is it overloaded, disabled, invisible, added, the screen off, refreshing enabled by a host |
| what is owed (`RefreshCacheMgr`) | flags of the record, the overload queue | put a request off; take it up when the obstacle is gone |
| `FormRefreshLimiter` | refreshes of today | is one allowed; count one |
| `FormTimerMgr` | interval, fixed-time and next-time tasks, alarms | add, remove, fire |

*Interaction.* Requests come on binder threads, timers, the power and network callbacks and the
render service's answer that ends the addition of the form. A request that passes the controls
connects to the provider.

*Hard.* Every request works on a copy of the record taken when it arrived, sets flags one lock
at a time, and some write the whole copy back; the obstacle may go away between its test and the
note that is left for the one who removes it; asking for the limit and counting are two calls.

*Correct when* a request that was put off is asked for again or overtaken by data the provider
pushes, and the limit holds.

### Provider connections (`services/src/form_provider`, `services/src/common/connection`)

A connection to the extension ability of a provider is made for each request; once it stands a
task sends the request. `FormProviderConnectionErrorHandler` keeps, for refreshes and for
acquisitions, a retry policy per form: a send that found a dead object and a connection lost in
error together mean that the provider died, and the request is repeated, three times at most.

*Hard.* The two signals come on different threads in either order; either may come alone; a
fallback timeout drops a lone one; a retry is a delayed task that may be taken up while the form
is deleted or a newer request supersedes it.

*Correct when* only confirmed deaths are retried, the newest request is, a bounded number of
times, and never for a form that is gone.

### Form share (`services/src/feature/form_share`)

Sends a form to another device and receives one; the receiver may have to install the
provider first. State: pending shares by key with a timer each, free installs under way.
Tasks and timers run one at a time on the serial queue of the service; hosts that add the
form (`AddProviderData`) and the installer come on binder threads; each map has a mutex of
its own. *Hard*: the timer, the install result and the host's use of the share race, and
all of them find the share by its key. *Correct when* every share ends, by a host or by its
timer, and what was started for one share does not act on another.

### The rest

The front end (`FormMgrService`), the system ability's adapters for bundles, accounts, power, memory and
distributed modules, bundle lock and bundle forbid lists, data proxy, parameter update,
observers, reports, dumps, and the language bindings (`frameworks`, `interfaces`). Each is
listed in `PROJECT.json` with its status.

## What is modelled

| module | models | lines up in |
|---|---|---|
| `FormStatusTable` | the transition table of FMS: next status, process type and whether a timeout is armed for each (status, event) | `form_status_table.cpp`, `form_status_common.h` |
| `FormStatusMgr` | the status centre for one form, with an open render service: any call may fail, any reply with an id that was issued may arrive, late or twice | `form_status_mgr.cpp`, `form_status_task_mgr.cpp`, `form_event_queue.cpp`, `form_event_retry_mgr.cpp` |
| `FormOperations` | what the centre promises its clients, abstractly | – |
| `FormRenderStatusTable`, `FormRenderService` | FRS for one form: status machine, request handlers, render record, JS thread, release timer, replies, death | `form_render_status_*.cpp`, `form_render_impl.cpp`, `form_render_service_mgr.cpp`, `form_render_record.cpp` |
| `FormStatusCenter` | both services together with the connection between them | `form_render_mgr_inner.cpp`, `form_render_connection.cpp`, the supply callback |
| `TaskSequences` | filtering a queue, in a form that can be proved about | `FormEventQueue` filters and `CancelDelayTask` |
| `FormShareMgr` | the receiving side of form share: pending shares, their timers, free installs, the hosts that take shares | `form_share_mgr.cpp`, `form_free_install_operator.cpp`, `form_event_handler.cpp` |
| `FormRefresh` | every kind of refresh request for one form, what puts it off and what takes it up again, the daily limit | `form_refresh/*`, `form_provider_mgr.cpp`, `form_data_mgr.cpp`, `form_visibility_adapter.cpp`, `form_refresh_limiter.cpp` |
| `ProviderRetry` | the connections of one form, the two signals of a dead provider, the retry policies, their timeout and delayed retry | `provider_connection_error_handler.cpp`, `retry_policy.cpp`, `form_provider_task_mgr.cpp`, `form_refresh_connection.cpp` |
| `FormRecords` | form records, temporary forms, host records, the database cache and its rows, for several hosts; deaths and restarts | `form_lifecycle_adapter.cpp`, `form_data_mgr.cpp`, `form_db_cache.cpp`, `form_info_rdb_storage_mgr.cpp`, `form_event_util.cpp` |
| `FormTimers` | the interval, fixed-time and next-time tasks of several forms, the alarms and common events behind them, the limiter's entries, under threads that add, remove and change them | `form_timer_mgr.cpp`, `form_refresh_limiter.cpp` |
| `FormStatusMgr_proofs`, `FormRenderService_proofs`, `FormStatusCenter_proofs`, `FormShareMgr_proofs`, `ProviderRetry_proofs`, `FormRefresh_proofs`, `FormTimers_proofs`, `FormRecords_proofs` | theorems | – |
| `MCFormStatusMgrLive` | the specification with fairness that `OperationsEnd` is checked under | – |
| `MCFormRefresh`, `MCFormRecords`, `MCFormTimers` | the symmetry, the uid of each token | – |

`PROJECT.json` gives the lines of every definition.

**One form.** Every map of the status centre and of FRS is keyed by the form id and no
operation reads the entry of another form; the worker and the binder threads are shared,
but they only order steps, and every order of one form's steps is already possible. In FRS
the render record is keyed by uid; the model's record holds this form only, so that the
case where it becomes empty occurs.

**FMS state.** `status`, `evq`, `eventId`, `last`, `retryCount` are the maps of
`FormStatus`, `FormStatusMgr` and `FormEventRetryMgr` at this form; an absent entry is a
value of its own because the code inserts on first use. `taskq` is what is due on the
worker; `running` is the task function the machine selected, a step of its own because
calls to FRS, timers and replies come in between. `recycleTimer`, `releaseDelay` and
`restores` are delayed tasks. `armed` are the event ids with a scheduled execution timeout,
and `matched` the replies a binder thread has compared with the current id and not yet
turned into an event: the code does these two under no common lock. Each `ExecFormTask`
branch is one action; the functions posted with events are `RenderForm` ..
`ReleaseRenderer`, named as in `FormStatusTaskMgr`.

**FRS state.** A synchronous call is `sent`, `accepted` by the status machine, then handled
and returned; a one-way call waits in `inbox` and is `working` between the status machine and
its handler. `group` (renderers), `request` (with its released mark) and `renderRecord` are
the maps whose agreement recovery depends on. `jsq` is the JS thread's queue; a task posted
synchronously needs it empty. A reply says which thread waits for the client to take it
(`waits`), which is what keeps replies of one thread in order.

**Form share state.** `shareInfo`, `eventMap`, `operators` are `shareInfo_`, `eventMap_`,
`freeInstallOperatorMap_`; a share is its number, which the code does not have and the
properties need. A task is as many steps as it takes locks: entering a share and arming its
timer are two, and so are removing the timer and erasing the share, with `pc` saying which
thread is between them. `armed` are the delayed tasks, `installing` the installs whose
callback may come, `results` the tasks those callbacks have put on the queue. `taken` is a
history variable: the forms of which a host has removed a share; so is the share in an entry of
`eventMap`, the one the timer was armed for. The one assumption about time is `InstallOver`: an
install is timed for 40 s and its share for 50 s, and the install's timer, if the share needs an
install at all, is armed by the task that armed the share's, so that on the serial queue the share's
timer finds its own install decided. It supposes that the task takes less than the difference
of 10 s from the one to the other. Nothing is assumed of different shares: their timers fire in any
order, the older first as in the code or the younger.

**Refresh state.** `record` has the fields of `FormRecord` that refreshing reads. `todo[t]` are
the atomic steps a request has left: an entry per lock taken, so that two requests interleave
wherever the code lets them. What a request decides by its copy of the record is decided when it
starts (`TimerRequest(copy, ..)`), what it reads afresh is a step (`screen`, `addFinish`,
`limit`). `queued` is the overload queue, `acquireDue` that the provider's first answer has not
come. Two history variables carry the properties: `owed`, a request was put off and the provider
has neither been asked nor pushed since; `clobbered`, the write-back of a copy has undone a flag
set after it was taken. Left open: whether a form that is shown may be refreshed though its host
disabled refreshing (`IsNeedToFresh`), and which requests the ability manager refuses.

**Provider connections.** `policy` and `retryTask` are the policy and the delayed retry of the
two handlers, `timeoutTask` the fallback timeout, whose key has no handler in it: they share it.
`running` is the delayed task the queue has taken up, which can no longer be cancelled.
`conn[c]` has the state of a connection and what became of its send; `request` and `retry` are
history: which request it serves and the how-manieth repetition it is. Removing a policy is two
steps in the code (its tasks, then the policy) and in the model.

**Records.** The five tables are as in the code; the sections of a request under one lock each
are the elements of `calls[t].todo`, and between any two a host may die or start, a delayed task
run, or the service restart. One step that the code takes in several: removing a batch of forms
together with their rows, and taking an owner out of the cached rows together with the records
(`GetNoHostDBForms`). Providers that cannot be notified and acquisitions that fail are choices.

**Timers.** `interval`, `atItems` and `dynamic` are the three task lists, `limiter` the forms with
an entry in `limiterMap_`; order within a list follows from the times and is not kept. A request is
the sequence of locked sections in `calls[t].todo`; what a section finds decides which follow. A
fixed-time alarm is started for a moment since boot and carries its time of the day, as in the
code; when its moment has come it is gone and a common event is on its way, which a thread
receives at any later time (`OnReceiveEvent`). `now` counts minutes since boot, `shift` is the time
of the day at boot, which setting the clock changes. The event of a next time carries its moment as
two ints (`GetDynamicWantAgent`), which `OnReceiveEvent` joins to one number again (`Joined`); `Half`
stands for the 2^31 milliseconds at which the low one turns negative. A task has `needUpdateAlarm`
unless it was added among several times or made of one that was: `quietTasks` and `quietItems` are
those without, and `need` is that of the request. `NoForm` is the form id of a `FormTimer` that
nobody filled in (-1): the code tests it against 0 and goes on (item 15 of
[what does not hold](#what-does-not-hold)). Assumed: an alarm fires in its minute, and a next time is
entered before it comes. Three history variables carry the properties: `overlapped`, an update of the
fixed-time alarm met another or a change of the clock (`Overlap`); `unalarmed`, the items added
by tasks without `needUpdateAlarm` since the last update; `raced`, two requests worked on a form at
once.

**Abstractions.** A proxy is the number of the process it belongs to. A want, a form's data
and its host are left out; what a host contributes is whether and when it releases. The
restored recycle is called for 0 .. `MaxHosts` hosts, any number of them failing. Failures
of the JS runtime and of nodes are choices (`Faulty`). Time is left out: a delay is over at
any moment after it was scheduled, so every race between a timer and an answer is there,
including those the values of the timers (30 s executions, 3 s release, 40 ms delay) make
unlikely (`FormTimers`, which is about moments, keeps them). `Slow = FALSE` switches execution timeouts off where a run is about an agreement
that timeouts break (see [what does not hold](#what-does-not-hold)).

**Bounds.** `MaxEventId`, `MaxPosts`, `MaxReplies`, `MaxHosts`, `MaxInbox`, `MaxOutbox`,
`MaxCrashes`, `MaxShares`, `MaxEvents`, `MaxConnections`, `MaxRequests`, `MaxTime` cap counters in
guards; a system at a bound can only do less. The capacity of the event queue (100 in the code), the
length of the `Day` and the `Times` forms ask for, singly or as `TimeLists`, are constants.

## Runs

| run | module, configuration | states | asks |
|---|---|---|---|
| `status_mgr` | `FormStatusMgr`, queue 2, 3 ids, 2 requests, 1 reply | 660 k | types; what a retry would repeat; who owns a call; deletion; refinement of `FormOperations`; is what was put aside taken up |
| `status_mgr_live` | `MCFormStatusMgrLive`, queue 1, 14 ids, 3 requests, no reply | 810 k | does every operation end when FRS never answers |
| `recover_when_recycled` | `FormStatusMgr` | violation | the comment of `RecoverForms` |
| `render_service` | `FormRenderService`, 2 one-way calls and 1 reply under way, faults, deaths | 116 k | whom the timer hits; is JS work reported; is a wait limited; does the record cover the form; do operations end |
| `center_agree` | `FormStatusCenter`, queue 2, 8 ids, 5 requests, every call answered | 3.6 M | do the services agree at rest; is a busy status guarded |
| `center_faults` | `FormStatusCenter`, queue 1, 3 ids, 2 requests, faults, timeouts, a death | 761 k | is the composition a behaviour of `FormStatusMgr`; whose timeout a reply cancels |
| `form_share` | `FormShareMgr`, 2 forms, 2 hosts, 2 shares, limit 0 | 36 k | is anything left without a timer; do shares end; does an install act on its share; the limit |
| `refresh` | `MCFormRefresh`, 2 requests at once, 4 requests and events, limit 1 | 2.3 M | is anything put off forgotten; does what waits for the addition have an answer to wait for; the limit |
| `provider_retry` | `ProviderRetry`, 6 connections, 2 requests, 2 retries | 49 k | what is retried, how often, for which request, and for a form that is gone |
| `records` | `MCFormRecords`, 2 forms, 2 applications, 1 temporary form allowed | 3.6 M | owners in cache and store; what is temporary; does anyone lose a form to another |
| `timers` | `MCFormTimers`, 2 forms, 2 threads, 3 requests or settings of the clock, 3-minute days, 2 times, moments with 2 bits in their low word | 4.5 M | has every list its alarm; is everything with a timer known to the limiter |
| `records_stored` | `MCFormRecords`, 1 form | violation | the documentation of `SaveFormInfoNolock` |

Why the bounds are enough. An operation involves at most its id, the id before and the one
after: three ids show a stale reply, the operation it belonged to, and the one it meets.
Two requests with what the functions post themselves (the release after a recycle, retries)
bring tasks to the queue while an operation is under way and after it; with a queue of one and
three requests, so that it overflows, the refinement and `QueueTakenUp` hold as well (138 k states). A retry happens at most once before the count is reset, so the chain
*fail, retry, fail, next task* fits. `status_mgr_live` needs more ids, because each of
3 requests and up to 3 restored recycles may be tried twice; 14 ids are never exhausted
there, so the bound cannot end a behaviour. `center_agree` needs 5 requests for
*render, recycle, release, recover, delete* and the ids for them. In `form_share` two shares
are one and the next of its form, or one each of two forms; each uses two ids at most, so
4 never run out; two hosts may take the same share; and the limit is the smallest, so that
it is met (the proofs hold for all). In `refresh` two requests at once show every race of a test
and the note it leaves; a third would repeat one of them. In `provider_retry` a request and
its two retries are three connections, and two requests six, so the bound on connections never
stops one. In `records` two applications and two forms show a form with two owners beside one
with one or a temporary one; requests are served one at a time there, with deaths, delayed
tasks and restarts between their sections (two threads on one form break `OwnersAreStored`, item 14
of [what does not hold](#what-does-not-hold)); with one form and three tokens, two of one uid, the properties hold
as well (2.3 M states). In `timers` a request, another that meets it and a third to find what they
left are three, two of them at once; a form has two fixed times or one of the other's; days of three
minutes make the next item tomorrow's within the run; with `Half = 2` the event of moment 1 is
received and that of 2 is dropped. Who asks for several times together asks for both (`TimeLists`); with lists
of one as well the four invariants hold too (9.6 M states), and they are proved for any lists.
`CHECK_DEADLOCK FALSE` throughout: a form for which no client asks anything rests for ever, a
service all of whose hosts have ended serves nobody, and the bounds end behaviours.

Each property has a mutant in `PROJECT.json`: a plausible bug in a mapped definition with
which the run finds the property violated.

The properties in words:

- `RetryRepeatsOperation`, `CallOwnsOperation`: the last task recorded for a retry, the
  status and the event id are three maps; whenever an operation is under way they speak of
  the same one.
- `NothingLeftBehind`: a deleted form has no queued task, id or retry record.
- `ImplementsOperations`: one operation at a time, each with a fresh id; renders and
  deletes put aside are carried out once and in order unless the form is deleted.
- `QueueTakenUp`: an operation's end takes up the queue, with the named exceptions.
- `TimerHitsOnlyRecycle`, `JsWorkIsReported`, `WaitIsLimited`, `RecordCoversForm`: in FRS,
  the release timer runs only during a recycle, the JS thread's work is that of the current
  operation, a form that saved its data and still has renderers is being timed, and
  renderers exist only for a request in a record.
- `ServicesAgree`: when nothing is under way, a form FMS holds as
  rendered needs no recovery in FRS, and one it holds as recycled has no renderers.
- `BusyIsGuarded`, `EndsWhatItGuards`: an operation has its timeout armed or something
  under way that ends it; whoever cancels the timeout posts an event the operation takes.
- `NothingUntimed`, `SharesEnd`: a pending share has a timer, or a thread about to arm one
  or to erase it, though both are entered and removed under different locks; so every share
  ends.
- `InstallActsOnItsShare`: the result of an install finds the share it was started for, as
  long as no host took a share of that form.
- `AtMostOneOver`: pending shares exceed the limit by one at most.
- `ImplementsStatusMgr`: what is proved of `FormStatusMgr` for any render service holds
  for this one.
- `NothingForgotten`: when no request is at work, a refresh that was put off is remembered by a
  flag of the record or by the overload queue, or the provider was asked or pushed data since.
  A write-back of a stale copy of the record is the one exception (see
  [what does not hold](#what-does-not-hold)).
- `AddNeedIsAwaited`: a host's refresh that waits for the form to be added has an answer of the
  render service to wait for, whoever comes first; same exception.
- `CountIsBounded`: the daily count passes its limit by no more than the other requests under way.
- `PartialIsTimed`: a retry policy with one of the two signals is about to be cleared by its
  timeout, so that a signal of an old connection never confirms that of a new one.
- `DualSignal`, `SupersededNotRetried`, `DeletedNotRetried`, `RetriesBounded`: what is retried is
  a connection that died by both signs, of the newest request, of a form that still has a record,
  and at most `maxRetryCount` times for one request.
- `OwnersAreStored`: when no request is at work, an owner the cache knows is one the store knows.
- `LiveTempAgrees`: the list of temporary forms and the flags of the records agree on the forms of
  running hosts, through additions, casts, deletions, deaths, uninstalls and restarts.
- `UsersKeepTheirForms`: no request of one application ends another's use of a form.
- `DynamicAlarmed`, `UpdateAtAlarmed`: with no alarm update ahead and no event of the alarm under way,
  the alarm for next times is that of the first item, and that for fixed times is due at the next
  of them, or there is none if nothing is listed. For next times unless the first item's moment has
  come and its event was one that is dropped; for fixed times unless two updates have overlapped, and
  of items added without an update only once the next has been made.
- `TimersAreServed`: interval tasks have their ticker, and a form with an interval or a next time has
  its entry in the limiter, unless two requests worked on it at once.

## Fairness

Stated once per live specification and only for threads the code itself keeps running:

- `MCFormStatusMgrLive`: the worker of the serial queue runs what is due (`ffrt` serial
  queue), a delay nobody cancels ends, and a binder thread that has compared a reply posts
  its event. Clients and FRS owe nothing: no fairness on requests or replies. Weak fairness
  is enough, since a due task stays due until it runs.
- `FormRenderService.FairSpec`: the thread of the synchronous call, the thread of one-way
  calls, the JS thread and the timer run, and the client takes replies and results. None on
  calls, deaths or faults.
- `FormShareMgr.FairSpec`: the serial queue runs its tasks and the delayed ones that are due,
  and a host's thread finishes the removal it began. None on hosts, other devices or the
  installer, which may never call back.

## What is proved

TLAPS checks, for every value of the constants that meets the assumptions (any proxies, queue
capacity, limits, numbers of requests and all bounds):

| of | theorems | which say |
|---|---|---|
| `FormStatusMgr` | `TypeCorrect`, `RetryIsSafe`, `CallsAreOwned`, `DeleteIsClean` | `Spec => []P` for the four invariants of `status_mgr` |
| | `CentreImplementsOperations` | the refinement of `FormOperations` |
| | `QueueIsTakenUp` | the action property `QueueTakenUp` |
| `FormRenderService` | `RenderServiceIsTyped`, `TimerIsOfTheRecycle`, `JsWorkHasTheStatus`, `ReleaseIsAwaited`, `RecordCovers` | the five invariants of `render_service`, deaths and faults included |
| `FormStatusCenter` | `CompositionImplementsStatusMgr` | the two services with the connection between them are a behaviour of `FormStatusMgr` |
| | `CompositionKeepsInvariants` | so the centre's invariants hold of them |
| | `TimeoutsEndTheirOperation` | the action property `EndsWhatItGuards` |
| `FormShareMgr` | `SharesAreTyped`, `NothingWaitsUntimed`, `InstallIsOfItsShare`, `OneOverAtMost` | the four invariants of `form_share` |
| `ProviderRetry` | `RetryIsTyped` | the types, whatever requests meet |
| | `PartialsAreTimed`, `RetriesAreBounded` | two invariants of `provider_retry` |
| | `OnlyTheNewestIsRetried`, `ADeletedFormIsNotRetried`, `OnlyTheDeadAreRetried` | its three action properties |
| `FormRefresh` | `RefreshIsTyped`, `PutOffIsRemembered`, `WaitHasAnAnswer`, `LimitIsNearlyKept` | the four invariants of `refresh`, for any number of requests at once |
| `FormTimers` | `TimersAreTyped`, `TimersServed`, `NextTimesAlarmed`, `FixedTimesAlarmed` | the four invariants of `timers`, for any forms, threads, times and length of the day |
| `FormRecords` | `TypesAreRight` | the types and the limit of temporary forms, for any number of threads |
| | `StoreKnowsOwners`, `ListAgreesWithFlags` | two invariants of `records`, requests served one at a time |
| | `HostsKeepTheirForms` | its action property, likewise |

The assumptions are the named ASSUMEs of the modules, which TLC evaluates in the runs:
`FormStatusMgrAssumption` (proxies are positive numbers, the capacity is positive, the bounds are
numbers), `FormRenderServiceAssumption` (the empty event id is no id; `Faulty` is a Boolean),
`FormStatusCenterAssumption` (the same for the composition, and a form is in one host at least),
`FormShareMgrAssumption` (the worker is not a host's thread), `RetryAssumption` (the kinds of
request are the four there are), `RefreshAssumption` (the requests at once are finitely many and
more than none, the limit is positive), `TimersAssumption` (the id nobody filled in is no form's, no
thread is called `"free"`, a day has two minutes or more and the times asked for lie in it),
`RecordsAssumption` (a token has a uid, there is a thread and finitely many, the limit is a
number). The theorems of `FormRecords` after the first are about one thread (`Threads = {t}`), as the
run is: two requests for a form at once do lose an owner, item 14 of
[what does not hold](#what-does-not-hold). Deaths of hosts, the tasks they leave and restarts
still come between any two sections of that request. The theorems of `ProviderRetry` after the first assume
`OneHandlerAtATime` as well, which is what `provider_retry` checks: a request of the form is made when the
last one is over, and both its signals go to one handler. The code does not see to it; item 12 of
[what does not hold](#what-does-not-hold) says what happens otherwise, so the assumption is what
the guarantee needs, and the theorems say that it is enough.

*FMS.* The invariant is the conjunction `Inv` of the four: each needs the others.
That a retry repeats the current operation follows from the table (in a busy status only a
put-aside row keeps the status) and from `CallOwnsOperation`, as the function of a task is
run before the machine takes another; that `NothingLeftBehind` survives rests on `running`
being empty when the machine steps. The facts about the table are lemmas by case over its
rows (`RestRows`, `BusyRowsShape`), so that the proofs of the actions speak of shapes of
rows (*at rest every row starts an operation*, *in a busy status a row puts aside, ends,
retries or deletes*) and never of single ones. One lemma per group of actions preserves
`Inv`; `PutAsideKeepsInv`, `FromQueueKeepsInv`, `StartedKeepsInv` are shared between them.
`QueueTakenUp` needs of it only what the rows say: an operation ends through a row whose machine step
goes on to `PostTaskFromQueue` in the same action (`MachineTakesUp`), which leaves the queue alone
only if there is nothing in it to take (`FromQueueTakesUp`).

*The refinement of `FormOperations`.* `phase` is the status (absent reads `INIT`), `issued` the
newest id, `pending` what `AddTaskToQueueUnique` would keep of the event queue. That pushing,
popping and filtering the queue map to appending, removing the head and doing nothing are
lemmas about `Keep` (`KeepAppend`, `KeepHeadTail`, `KeepAll`). They are statements about a
recursive function; the induction they need is done by hand, over the least
counterexample (`LeastNat`), because the library's induction theorems take an operator that
the installed backends cannot instantiate.

*FRS.* None of the five invariants is inductive. `IInv` adds who owns the status between the
steps of a call: the handler of a synchronous call runs under the status its event gave it, or, for
a recycle, under one a release may have taken over (`CallOwnsStatus`); only a delete keeps the status
until its handler is through, a release may outlive its timer and run in any (`DeleteOwnsStatus`);
a render record has a client to reply to and outlives the release timer (`RecordIsServed`). From
these `TimerHitsOnlyRecycle` follows: no call is at work when a recycle arms its timer, and whoever
takes the status from a recycle stops the timer. `StartPosts` and `EndPosts` say what
`PostFormEvent` does for an event that starts an operation and one that ends it, by case over the table.

*The composition.* `FormStatusMgr` supposes of FRS only that a reply has an id that was issued.
That this is so has an invariant of its own: whatever is on its way through FRS, at every place from
the synchronous call over the inbox and the JS queue to the outbox, carries a pair of operation and id
out of `Issued` (`Carries`). `Issued` is the pairs of an operation and an id that was given
out, where the id that is current is only there with the operation under way, or with a recycle, whose
release takes the current id (item 5 of [what does not hold](#what-does-not-hold)).
It only grows (`IssuedGrows`), so that a step of FMS disturbs nothing that is under way
(`CarriesGrow`), and every step of FRS passes on pairs it holds (`HandlersCarry`,
`WorksCarry`, `ThreadsCarry`). With it every step is one of `FormStatusMgr` or stutters
(`NextImplements`), and the centre's `Inv` comes over from `NextInv` of the other module instead of
being proved again. The same invariant gives `EndsWhatItGuards`: the reply that was compared with the
current id is the end of the operation under way, or of a release.

*Form share.* `InstallActsOnItsShare` is not inductive: that the share of an install is still
there depends on its timer, which depends on there being no other timer for its key. The
invariant `IInv` adds that ids are unique (`IdsAreUnique`), that a share has one install
(`OneInstall`), and, for a form of which no host has taken a share (`Untaken`), that it has at
most one timer and none when nothing is pending, that the pending share is that of the
install, and that the form's timer was armed for the same share - with which `InstallOver` says
that the timer comes after the install, whatever other shares have armed. `NothingUntimed` needs only
the uniqueness of ids. `OneOverAtMost` rests on `OnlyEnterShareAdds`: only the worker adds a
share, and it has counted.

*Provider retries.* `OneUnderWay`: one connection is open or one handler has one retry to carry
out, never both, and only the handler of the open connection may have seen one signal of two.
`SignalsOf` ties the signals in the policy to the open connection (whence the retry number of
the connection stays within the policy's count), and `RetryIsDue` a scheduled or taken up retry to a connection of the newest request
that is lost and whose send failed, also while the deletion of the form takes the policies away in
steps. The bound follows: a retry repeats a connection whose number is below the count. The action
properties are read off `RetryIsDue` (`RetryRepeats`).

*Refreshes.* The invariant is about the steps a request has left, as sequences: `Legal` ones begin
with anything a request may start with (`Startable`), are about to count a refresh that passed the limit
(`Asking`), or still have to (`Counting`). A copy of the record among them is sound, unless
`clobbered`; a note that a disabled form owes a refresh comes after the addition; and a flag is
forgotten only by a request that will ask the provider, push, or note it again. `OwedIsHeld`
is `NothingForgotten` for states with requests under way: what is owed is remembered or one of them
has yet to resolve it. `CountIsBounded` needs `RoomToCount`: the count and the requests that
passed the limit without having counted are together within the bound, for which requests are
counted by cardinality. That every request's script is legal, and that every step leaves a
legal one, is a lemma per kind of request and of step.

*Timers.* The sequences of steps a request may have ahead have names, and lemmas say what each begins
with, leaves and contains (`FirstOf`, `RestOf`, `HasOf`): `Legal` ones are those, or an update of the
fixed alarm before one of the few that may follow it, and `CallsOK` says besides what a step relies on
- the times of a request, what its search has found, that what keeps `intervalMutex_` will give it back.
`TimersServed` rests on `Served`: a form nobody raced for has one request at a time, and if it has a
timer the limiter knows it or that request is about to tell it; one that takes the entry away has taken
the timers before (`Removes`).
`NextTimesAlarmed` needs `AlarmIsKnown` (the moment of the alarm is `dynamicWakeUpTime_`, unless that
has come; and a form that waits for a moment whose alarm is gone is about to be taken, `Comes`: the
event is on its way or at work, or will be dropped) beside `FirstIsAlarmed`, which says whose moment
that is.
For `FixedTimesAlarmed` the invariant `FixedAlarmed` follows one update from the search to the alarm:
what was found is still the next (`IsNext`) of the items an update has seen (`Attended`), or another update is due (`UpdateDue`: an event of the alarm,
a change of the clock, a search that will surely come); the alarm goes off at its time of the day
(`AlarmFits`) or a change of the clock is yet to be handled; and what was remembered of the last alarm
is right or its moment is over (`AlarmOfWakeUp`), or the comparison with it would leave an item without one.
All of that is for states before two updates have overlapped, which no step undoes (`OverlappedStays`). That
the next time of an item comes no earlier as time goes by is arithmetic modulo the length of the
day (`NextOf`, `ModOrder`), proved for any length.

*Records.* The sections a request may have ahead have names, and `Typed` says that there are no others.
The limit of temporary forms counts the additions under way that have yet to list their form
(`Limited`): each was allowed while the list was short of the limit.
None of the other three is inductive, since each speaks of a moment at which no request is at work and
a request takes the tables apart in the meantime. `Serial` says what holds between its sections:
a form with a row is not temporary, and the temporary forms a dead host left are off the list (`Apart`);
a temporary form has one host, so that its death or its release concerns nobody else (`OneHost`); and of the request itself
what its remaining sections rely on (`CallOK`) - the row it is about to save leaves out no user of the
form but its own, and a row it will drop had no other (`FormCallOK`); what it has found to be without
owners still is (`TableCallOK`); the list and the flags differ on its own form only, and only while
it is listing or unlisting it (`ListAndFlags`); and an owner the store lacks is one it will insert
(`Stored`). `HostsKeepTheirForms` is read off `FormCallOK` and `TableCallOK` for the five sections
that change rows (`RowsChangedBy`); the others cannot.

*Only model-checked*: liveness (`OperationsEnd`, `SharesEnd` and the like), which needs fairness and
ENABLED; `ServicesAgree` and `BusyIsGuarded`, which speak of both services at rest and need
an invariant about every pair of their statuses with every request, reply and timer between them.

## What does not hold

Found while writing the properties; each is a behaviour of the code, and the property that
comes closest names it as an exception or is checked without it.

1. *Recovery of a form that is not recycled* (`recover_when_recycled`).
   `isExistRecycleTask` is set when a recycle is queued and cleared only when a
   `RECYCLE_FORM` is popped; it outlives the queued task, so `RecoverForms` posts recoveries
   its comment rules out.
2. *Deletes are retained too*: documentation only. `form_status_mgr.h:112` says that only render
   tasks are kept when the queue of a form is pruned; `form_status_mgr.cpp:176` keeps deletes as
   well, and `ImplementsOperations` relies on it.
3. *A component of a recycled form.* Stopping one component of a recycled form reports
   `DELETE_FORM_DONE`; both machines show RENDERED, yet the renderers stay released and
   `RecoverForms` skips a form that is not recycled. `center_agree` leaves this request out.
4. *Timeouts break the agreement.* After an execution timeout and a retry FMS may hold
   RENDERED where FRS holds RECYCLED. `center_agree` runs without execution timeouts.
5. *A late release.* The delayed `ReleaseRenderer` takes the event id that is current when
   it runs. If another operation began in the 40 ms, its reply, or its failure through a
   dead proxy, cancels that operation's timeout and posts an event it does not take: a
   delete may stay DELETING until another timeout. `EndsWhatItGuards` excepts
   `RECYCLE_FORM_DONE` and `RECYCLE_FORM_FAIL`; `status_mgr_live` excludes failing releases.
6. *A release that outlives its timer* (FRS). If the release timer fires while the release
   is at work and a new recycle starts, the release then cancels the new recycle's timer:
   the FRS status stays RECYCLING_DATA until FMS gives up
   (`ReleasedMeanwhile` in `OperationsEnd`).
7. *A failure nobody reports.* `HandleUpdateRenderRecord` ignores the result of the update:
   `RENDER_FORM_DONE` is sent though nothing was rendered; the agreement is checked with a
   JS runtime that works.
8. *One share too many* (`AtMostOneOver`). The limit is compared with `>` before the share is
   entered: 33 shares can be pending where 32 is the maximum.
9. *A later share of the same form.* A host may take a share while its package is being
   installed, or between the entry of the share and of its timer. The install's result, or
   the timer that is left, then acts on the next share of that form: it is marked as freely
   installed and shown, or removed before its time. `InstallActsOnItsShare` excepts forms of
   which a host took a share.
10. *Refreshes lost to a write-back.* Several requests copy the record, change a field or two and
   write the whole copy back (`refresh_cache_mgr.cpp:149`, `form_host_refresh_impl.cpp:42`,
   `form_render_mgr_inner.cpp:215`, `form_visibility_adapter.cpp:303` and `:607`,
   `form_lifecycle_adapter.cpp:1071`). A flag set between the two is undone and the refresh it
   stood for is never made; a write-back may also undo `addFormFinish`, after which the host's
   refreshes wait for an answer that has come already. `clobbered` marks these behaviours and
   `NothingForgotten` and `AddNeedIsAwaited` except them.
11. *Other notes nobody takes up.* The overload queue and the flag `EnableForms` leaves are served
   only by their own event, so what a request adds between the event and its own test waits for the
   next one (`form_lifecycle_adapter.cpp:977`); `isCountTimerRefresh` belongs to the form and not
   to a request, so a request that ends clears it for another, whose refresh is then not counted
   (`form_provider_mgr.cpp:636`), and makes `NotifyVisible` skip what it owes
   (`form_visibility_adapter.cpp:101`).
12. *Overlapping requests to a provider.* With `OneAtATime = FALSE`, where a second request for the
   form connects before the first has ended, the signals of the first are taken for the second:
   `SupersededNotRetried`, `DeletedNotRetried` and `DualSignal` fail; so does `PartialIsTimed` for
   `"recreate"` requests, which report a lost connection to one handler and a failed send to the
   other. `provider_retry` checks the requests that use one handler, one at a time.
13. *An owner that comes back* (`records_stored`). When the data of an application is cleared,
   `GetNoHostDBForms` edits the cached row in place; the save that follows compares the row with
   itself and stores nothing. After a restart the owner is there again.
14. *Records and rows.* Two threads that save the same form may store the older copy
   (`form_db_cache.cpp:68`); adding a form again after a restart or a release writes a row whose
   only owner is the caller, so the others' ownership ends with the next restart
   (`form_lifecycle_adapter.cpp:1303`, `form_data_mgr.cpp:367`); a row is updated by a delete and an
   insert, between which a crash loses it (`form_info_rdb_storage_mgr.cpp:161`); a failed
   acquisition leaves a record and a host's entry without a row, a failed notification the host's
   entry without the record; a temporary form whose host dies between `AllotFormHostRecord` and
   `AllotFormRecord` stays in the list (`form_data_mgr.cpp:191`), which is why `LiveTempAgrees`
   speaks of running hosts.
15. *Timers.* Removing the timers of a form erases the first of its fixed times only
   (`form_timer_mgr.cpp:912`); the others fire on. Two updates of the fixed-time alarm at once may
   leave the later of two alarms or none (`:1671`). A change of the clock that finds no items returns without
   forgetting the moment of the alarm (`:642`); if a removal has not yet cleared that alarm and the
   next item added falls on the same moment, the alarm of the removed time stays and the event it
   sends is for that time: the new item is not refreshed that day. This takes four requests; TLC found it
   with `MaxRequests = 4`, and with the exception of `Overlap` the properties hold there for one form with
   fixed times (13 M states). A first item that is overdue is dropped unrefreshed
   if the list is changed before the event of its alarm is handled (`IsNeedUpdate`, `:1212`). An
   addition that overlaps a removal may leave a timer without an entry in the limiter, which then
   refuses all its refreshes. `UpdateTimerValue` and `AtTimerToIntervalTimer` test the form id of
   an item they did not find against 0, though it is -1, and add a timer for that id (`:278`,
   `:420`). An update to several fixed times is refused unless it names a single one as well
   (`:318`, `:343`). `ReleaseForm` removes the timers of a form other hosts still use
   (`form_lifecycle_adapter.cpp:733`). `IsDynamicTimerExpired` locks `dynamicMutex_` and calls
   `UpdateDynamicAlarm`, which locks it again (`:1654`); it has no caller.
16. *A next time that is refused.* `GetDynamicWantAgent` puts a moment, milliseconds since boot, into two
   `int`s (`form_timer_mgr.cpp:1237-1241`); `OnReceiveEvent` joins them with the sign of the low
   one extended (`:1602-1609`). While bit 31 of the moment is set, every other 24.8 days of uptime from the
   25th day on, the sum is negative and the event is dropped as invalid: the form is not refreshed, its
   item stays in the list and is first there, and no alarm is started until the list is changed
   again. `DynamicAlarmed` excepts a first item whose moment has come and is `Refused`.
17. *Fixed times without an alarm.* A task without `needUpdateAlarm` does not update the alarm
   (`form_timer_mgr.cpp:565`). Among several times (`:144-157`) that is made good after the last of them,
   but not if a later one is invalid, when the function returns and leaves the earlier ones; nor
   if one of these items is made an interval task, which inherits the flag (`:407`, `:430`), and
   then fixed times again (`:353-372`). The new items have no alarm until something else updates
   it. `UpdateAtAlarmed` leaves them aside until then (`unalarmed`).

## What is not modelled

`PROJECT.json` lists every component with its status.

*Planned*: the sending side of form share.

*Left out for good*: marshalling and language bindings (a large part of the repository's lines:
`interfaces`, `frameworks`), parameter files, reports and dumps, wrappers of system services, the
front end's permission checks, which keep no state.

*Within modelled components.*

- FRS: several components of one form, several forms in one render record, the sandbox renderer,
  visibility, configuration and unlock calls, its watchdog and memory release.
- FMS status centre: `AddTaskToQueueDelete`, which no row of the table selects; a reply to a recycle
  without the host's token, for which `OnRecycleForm` cancels the timeout and returns before it arms
  another timer (`form_status_task_mgr.cpp:242-251`). The token is what `RecycleForm` put into the want
  (`:341`) and FRS sends back (`form_render_service_mgr.cpp:220`); it is assumed to be there, and
  `BusyIsGuarded` says nothing of a reply that has lost it.
- Refresh: forms that must be installed first (`needFreeInstall`, `form_provider_mgr.cpp:306-308`), whose
  request goes to the installer instead of the provider; whether the caller is trusted, the user active and the configuration due; the data a
  refresh carries and how it is pushed; `isUpdateDuringDisableForm`; next times and the data
  refreshes; the reset of the count at midnight; the branch of `HandleUpdateHostFormFlag` for cached
  forms; the delays that spread a batch.
- Timers: the reset of the limit at midnight and its alarm; the timers of reports and checks;
  whether a task is enabled; which interval tasks a tick finds due (their refreshes are requests of
  `FormRefresh`); a time service that fails.
- Provider connections: one form, one provider; acquiring the form's information again for a
  request whose extension ability was not found (`form_data_adapter.cpp:515`).
- Records: one bundle and one user, so the limits per device, per host and per user, the removal of
  a user and the theme forms are not there; requests to publish a form and the cached data
  (`FormCacheMgr`) neither, and so not the error return of the deletion of a temporary form
  whose cached data cannot be deleted (`form_lifecycle_adapter.cpp:375-378`), after which the host keeps
  its entry of the form; the store itself does not fail. Form ids are used again only when
  nothing knows them.

## Plan

1. *Done*: the status centre, FRS, their composition, the refinement of `FormOperations`
   and its proof; the receiving side of form share and the proofs of its invariants.
2. *Done*: `FormRefresh`: controls, what is owed, the limiter with its two steps.
   `ProviderRetry`: connections, the two signals and the retries.
3. *Done*: `FormRecords`: records, hosts, temporary forms, cast, deaths, and the database behind
   them with restarts.
4. The sending side of form share: requests by request code, the provider's data, the
   answer to the host. Property: every request is answered once, by its own answer.
5. FRS in finer steps: `PostFormEvent` split into its read and its write, several
   components of a form.
6. *Done*: `FormTimers`, the lists and alarms of `FormTimerMgr`.
7. Proofs. *Done*: the invariants of `FormStatusMgr`, `FormRenderService`, `FormShareMgr`,
   `FormRefresh`, `ProviderRetry`, `FormTimers` and `FormRecords`, and both refinements. Left:
   `ServicesAgree` and `BusyIsGuarded` of the composition.
