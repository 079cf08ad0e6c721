--------------------------- MODULE FormRefresh ---------------------------
(***************************************************************************)
(* The refresh pipeline of the form manager, for one form.                 *)
(*                                                                         *)
(* A refresh is asked for by a timer, the host, the network, the provider  *)
(* or an upgrade, and either reaches the provider or is put off: a flag of *)
(* the form's record, or the overload queue, remembers it until the screen *)
(* turns on, the form turns visible, its bundle is enabled, the load falls *)
(* or the form finishes being added.  Every request works on a COPY of the *)
(* record taken when it arrived; the flags are set one lock at a time, and *)
(* some paths write the whole copy back.  A thread here is the list of     *)
(* atomic steps its request has left.                                      *)
(***************************************************************************)
EXTENDS Naturals, Sequences, FiniteSets

CONSTANTS Threads,      \* the requests that may be under way at once
          LIMIT_COUNT,  \* Constants::LIMIT_COUNT, timer refreshes per day
          MaxEvents     \* bound: how many requests and events are tried

ASSUME RefreshAssumption ==
    /\ IsFiniteSet(Threads) /\ Threads # {}
    /\ LIMIT_COUNT \in Nat \ {0}
    /\ MaxEvents \in Nat

VARIABLES record,      \* the form's FormRecord, as far as refreshing reads it
          todo,        \* [Threads -> the steps a request has left]
          queued,      \* overloadTask_: the kind of timer that waits, or "none"
          overload,    \* isSystemOverload_
          screenOn,    \* PowerMgr: the screen, or a collaboration screen, is on
          hostOn,      \* some host enables refreshes (IsEnableRefresh)
          acquireDue,  \* the provider's first OnAcquire is still to come
          connecting,  \* a FormRefreshConnection has not called back yet
          count,       \* LimitInfo::refreshCount
          events,      \* bound
          owed,        \* ghost: put off, and neither asked for nor pushed since
          clobbered    \* ghost: a write-back undid a flag set meanwhile

vars == <<record, todo, queued, overload, screenOn, hostOn, acquireDue,
          connecting, count, events, owed, clobbered>>
env == <<overload, screenOn, hostOn, acquireDue>>

VisibleStates == {"unknown", "visible", "invisible"}
TimerKinds == {"count", "fixed"}      \* FormTimer::isCountTimer or isUpdateAt

FormRecord ==
    [enableForm : BOOLEAN, addFormFinish : BOOLEAN, needRefresh : BOOLEAN,
     needUpdateOnAddFinish : BOOLEAN, refreshDuringDisable : BOOLEAN,
     isTimerRefresh : BOOLEAN, isHostRefresh : BOOLEAN,
     isCountTimerRefresh : BOOLEAN, networkType : BOOLEAN,
     visibleState : VisibleStates]

\* The flags that remember a put-off refresh, or stop one from being accepted.
Remembering == {"needRefresh", "refreshDuringDisable", "needUpdateOnAddFinish",
                "addFormFinish"}
---------------------------------------------------------------------------
(* Steps: Set changes a field of the record, PutOff remembers the request  *)
(* in one, Write puts a whole copy back.                                   *)

Op(name, arg) == [name |-> name, arg |-> arg]
Set(field, value) == <<Op("set", [field |-> field, value |-> value])>>
PutOff(flag) == <<Op("putOff", flag)>>
SetNeedRefresh == PutOff("needRefresh")
AddFlagByHealthyControl == PutOff("refreshDuringDisable")
Write(copy) == <<Op("write", copy)>>
SetHostRefresh == Set("isHostRefresh", TRUE)

AddFlagByInvisible(isNetwork) ==
    SetNeedRefresh \o Set("networkType", isNetwork)
      \o (IF isNetwork THEN Set("isTimerRefresh", TRUE) ELSE <<>>)
AddFlagByScreenOff(copy) == Write(copy) \o SetHostRefresh \o SetNeedRefresh

\* Mutant of Connect: the limit is counted but not asked for.
ConnectUnlimited(isTimer, isCount) ==
    <<Op("connect", [isTimer |-> isTimer, isCount |-> isCount])>>
\* ConnectAmsForRefresh: only a counted request meets the daily limit.
Connect(isTimer, isCount) ==
    (IF isCount THEN <<Op("limit", 0)>> ELSE <<>>)
      \o <<Op("connect", [isTimer |-> isTimer, isCount |-> isCount])>>
NeedThenConnect(isTimer, isCount) ==
    <<Op("need", 0)>> \o Connect(isTimer, isCount)
Ask(copy, isTimer, isCount) ==
    <<Op("screen", copy)>> \o NeedThenConnect(isTimer, isCount)

TimerRequest(copy, kind) ==
    IF ~copy.addFormFinish THEN <<>> ELSE
    <<Op("overload", kind)>> \o
    IF ~copy.enableForm THEN AddFlagByHealthyControl ELSE
    Set("isTimerRefresh", TRUE) \o
    IF copy.visibleState # "visible" THEN AddFlagByInvisible(FALSE) ELSE
    (IF kind = "count" THEN Set("isCountTimerRefresh", TRUE) ELSE <<>>)
      \o Ask(copy, TRUE, kind = "count")

HostRequest(copy) ==
    Write(copy) \o SetHostRefresh \o <<Op("addFinish", 0)>> \o
    IF copy.enableForm THEN Ask(copy, FALSE, FALSE) ELSE AddFlagByHealthyControl

NetworkRequest(copy) ==
    IF ~copy.addFormFinish THEN <<>> ELSE
    IF ~copy.enableForm THEN AddFlagByHealthyControl ELSE
    IF copy.visibleState # "visible" THEN AddFlagByInvisible(TRUE) ELSE
    Ask(copy, FALSE, FALSE)

ProviderRequest(copy) ==
    IF ~copy.addFormFinish THEN <<>> ELSE
    IF ~copy.enableForm THEN AddFlagByHealthyControl ELSE
    Ask(copy, FALSE, FALSE)

UpgradeRequest(copy) ==
    IF ~copy.addFormFinish THEN <<>> ELSE
    IF ~copy.enableForm THEN AddFlagByHealthyControl ELSE
    NeedThenConnect(FALSE, FALSE)

\* TYPE_UNCONTROL: what was put off is asked for again.
UncontrolRequest(copy, isTimer) ==
    IF ~copy.addFormFinish THEN <<>> ELSE
    IF ~copy.enableForm THEN AddFlagByHealthyControl ELSE
    IF ~isTimer THEN Ask(copy, FALSE, FALSE) ELSE
    Set("isTimerRefresh", TRUE) \o
    IF copy.visibleState # "visible" THEN AddFlagByInvisible(FALSE) ELSE
    <<Op("typed", copy)>>

\* FormProviderMgr::RefreshForm, for the wants its callers build.
RefreshForm(copy) ==
    IF ~copy.addFormFinish THEN <<>> ELSE
    IF ~copy.enableForm THEN AddFlagByHealthyControl ELSE
    Ask(copy, FALSE, FALSE)
---------------------------------------------------------------------------
(* Requests and events: an idle thread takes a copy of the record.         *)

Init ==
    /\ record \in [enableForm : BOOLEAN, addFormFinish : BOOLEAN,
                   needRefresh : {FALSE}, needUpdateOnAddFinish : {FALSE},
                   refreshDuringDisable : {FALSE}, isTimerRefresh : {FALSE},
                   isHostRefresh : {FALSE}, isCountTimerRefresh : {FALSE},
                   networkType : {FALSE}, visibleState : {"unknown", "visible"}]
    /\ todo = [t \in Threads |-> <<>>]
    /\ queued = "none"
    /\ overload \in BOOLEAN /\ hostOn \in BOOLEAN /\ screenOn = TRUE
    /\ acquireDue = ~record.addFormFinish
    /\ connecting = FALSE
    /\ count = 0 /\ events = 0
    /\ owed = FALSE /\ clobbered = FALSE

Idle(t) == todo[t] = <<>>
Event == events < MaxEvents /\ events' = events + 1
Start(t, script) == Event /\ Idle(t) /\ todo' = [todo EXCEPT ![t] = script]
Request(t, script) ==
    /\ Start(t, script)
    /\ UNCHANGED <<record, queued, env, connecting, count, owed, clobbered>>

TimerFires(t) == \E kind \in TimerKinds : Request(t, TimerRequest(record, kind))
HostAsks(t) == Request(t, HostRequest(record))
NetworkReturns(t) == Request(t, NetworkRequest(record))
ProviderAsks(t) == Request(t, ProviderRequest(record))
AppUpgraded(t) == Request(t, UpgradeRequest(record))
ForceRefresh(t) == Request(t, Connect(FALSE, FALSE))

NotifyVisible(t) ==
    LET copy == [record EXCEPT !.visibleState = "visible"] IN
    Request(t, Set("visibleState", "visible") \o
               IF copy.needRefresh /\ (copy.isTimerRefresh \/ copy.isHostRefresh)
               THEN UncontrolRequest(copy, copy.isTimerRefresh) ELSE <<>>)
NotifyInvisible(t) == Request(t, Set("visibleState", "invisible"))

\* Mutant of EnableForms: the flag is taken and the request forgotten.
EnableFormsForgets(t, enable) ==
    LET copy == [record EXCEPT !.enableForm = enable] IN
    Request(t, IF record.enableForm = enable THEN <<>> ELSE
               Set("enableForm", enable) \o
               IF enable /\ copy.refreshDuringDisable
               THEN Set("refreshDuringDisable", FALSE) ELSE <<>>)
EnableForms(t, enable) ==
    LET copy == [record EXCEPT !.enableForm = enable] IN
    Request(t, IF record.enableForm = enable THEN <<>> ELSE
               Set("enableForm", enable) \o
               IF enable /\ copy.refreshDuringDisable
               THEN Set("refreshDuringDisable", FALSE)
                      \o UncontrolRequest(copy, FALSE)
               ELSE <<>>)

ScreenUnlocked(t) ==
    /\ screenOn
    /\ Request(t, IF record.needRefresh /\ record.visibleState # "invisible"
                  THEN UncontrolRequest(record, record.isTimerRefresh) ELSE <<>>)

\* Writers outside the pipeline that put a whole copy back (SetFormsRecyclable,
\* FilterDataByVisibleType, RecoverForms).
RewriteRecord(t) == Request(t, Write(record))

\* The provider pushes data: a JS form at once, a rendered one with a copy.
Pushed == <<Op("pushed", 0)>>
UpdateForm(t) == Request(t, Pushed)
UpdateRenderingForm(t) ==
    Request(t, (IF record.isTimerRefresh THEN <<>> ELSE Pushed)
                 \o (IF record.enableForm THEN <<>> ELSE Write(record)))

\* SetSystemOverloadFlag(false): the flag falls, then the queue is taken.
LoadFalls(t) ==
    /\ overload /\ Start(t, <<Op("drain", 0)>>)
    /\ overload' = FALSE
    /\ UNCHANGED <<record, queued, screenOn, hostOn, acquireDue, connecting, count,
                   owed, clobbered>>

\* HandleUpdateHostFormFlag: enabling refreshes the form its record asks for.
HostEnables(t) ==
    /\ Start(t, IF record.needRefresh THEN <<Op("refreshForm", 0)>> ELSE <<>>)
    /\ hostOn' = TRUE
    /\ UNCHANGED <<record, queued, overload, screenOn, acquireDue, connecting, count,
                   owed, clobbered>>

\* The provider answers the acquisition that adds the form.
OnAcquire(t) ==
    /\ acquireDue
    /\ LET added == [record EXCEPT !.addFormFinish = TRUE,
                                   !.needUpdateOnAddFinish = FALSE] IN
       /\ record' = added
       /\ Start(t, IF ~record.addFormFinish /\ record.needUpdateOnAddFinish
                   THEN UncontrolRequest(added, FALSE) ELSE <<>>)
    /\ acquireDue' = FALSE
    /\ UNCHANGED <<queued, overload, screenOn, hostOn, connecting, count, owed, clobbered>>

Surroundings ==
    /\ Event
    /\ \/ ~overload /\ overload' = TRUE /\ UNCHANGED <<screenOn, hostOn>>
       \/ screenOn' = ~screenOn /\ UNCHANGED <<overload, hostOn>>
       \/ hostOn /\ hostOn' = FALSE /\ UNCHANGED <<overload, screenOn>>
    /\ UNCHANGED <<record, todo, queued, acquireDue, connecting, count, owed, clobbered>>
---------------------------------------------------------------------------
(* One step of a request under way.                                        *)

Doing(t, name) == todo[t] # <<>> /\ Head(todo[t]).name = name
Arg(t) == Head(todo[t]).arg
Becomes(t, script) == todo' = [todo EXCEPT ![t] = script]
Advance(t) == Becomes(t, Tail(todo[t]))
Stop(t) == Becomes(t, <<>>)

\* Mutant of SetRecord: the other fields are lost.
SetRecordAlone(t) ==
    /\ Doing(t, "set") /\ Advance(t)
    /\ record' = [field \in {Arg(t).field} |-> Arg(t).value]
    /\ UNCHANGED <<queued, env, connecting, count, events, owed, clobbered>>
SetRecord(t) ==
    /\ Doing(t, "set") /\ Advance(t)
    /\ record' = [record EXCEPT ![Arg(t).field] = Arg(t).value]
    /\ UNCHANGED <<queued, env, connecting, count, events, owed, clobbered>>

PutOffRequest(t) ==
    /\ Doing(t, "putOff") /\ Advance(t)
    /\ record' = [record EXCEPT ![Arg(t)] = TRUE]
    /\ owed' = TRUE
    /\ UNCHANGED <<queued, env, connecting, count, events, clobbered>>

UpdateFormRecord(t) ==
    /\ Doing(t, "write") /\ Advance(t)
    /\ record' = Arg(t)
    /\ clobbered' = (clobbered \/ \E f \in Remembering : record[f] /\ ~record'[f])
    /\ UNCHANGED <<queued, env, connecting, count, events, owed>>

SetFormCacheInited(t) ==
    /\ Doing(t, "pushed") /\ Advance(t)
    /\ record' = [record EXCEPT !.needRefresh = FALSE]
    /\ owed' = FALSE
    /\ UNCHANGED <<queued, env, connecting, count, events, clobbered>>

IsSystemOverload(t) ==
    /\ Doing(t, "overload")
    /\ IF overload THEN Becomes(t, <<Op("enqueue", Arg(t))>>) ELSE Advance(t)
    /\ UNCHANGED <<record, queued, env, connecting, count, events, owed, clobbered>>

AddToOverloadTaskQueue(t) ==
    /\ Doing(t, "enqueue") /\ Stop(t)
    /\ queued' = Arg(t)
    /\ owed' = TRUE
    /\ UNCHANGED <<record, env, connecting, count, events, clobbered>>

ConsumeOverloadTaskQueue(t) ==
    /\ Doing(t, "drain")
    /\ queued' = "none"
    /\ Becomes(t, IF queued = "none" THEN <<>> ELSE TimerRequest(record, queued))
    /\ UNCHANGED <<record, env, connecting, count, events, owed, clobbered>>

\* Mutant of GetAddfinishAndSetUpdateFlag: the test and the note are two locks.
GetAddfinishThenSet(t) ==
    /\ Doing(t, "addFinish")
    /\ IF record.addFormFinish
       THEN Advance(t)
       ELSE Becomes(t, PutOff("needUpdateOnAddFinish"))
    /\ UNCHANGED <<record, queued, env, connecting, count, events, owed, clobbered>>

GetAddfinishAndSetUpdateFlag(t) ==
    /\ Doing(t, "addFinish")
    /\ IF record.addFormFinish
       THEN Advance(t) /\ UNCHANGED <<record, owed>>
       ELSE /\ Stop(t)
            /\ record' = [record EXCEPT !.needUpdateOnAddFinish = TRUE]
            /\ owed' = TRUE
    /\ UNCHANGED <<queued, env, connecting, count, events, clobbered>>

IsScreenOff(t) ==
    /\ Doing(t, "screen")
    /\ IF screenOn THEN Advance(t) ELSE Becomes(t, AddFlagByScreenOff(Arg(t)))
    /\ UNCHANGED <<record, queued, env, connecting, count, events, owed, clobbered>>

\* A form that is shown, or whose host enables updates, passes without hostOn.
IsNeedToFresh(t) ==
    /\ Doing(t, "need")
    /\ \/ Advance(t)
       \/ ~hostOn /\ Becomes(t, SetNeedRefresh)
    /\ UNCHANGED <<record, queued, env, connecting, count, events, owed, clobbered>>

GetRefreshType(t) ==
    /\ Doing(t, "typed")
    /\ Becomes(t, IF record.networkType THEN Ask(Arg(t), TRUE, FALSE)
                  ELSE Set("isCountTimerRefresh", TRUE) \o Ask(Arg(t), TRUE, TRUE))
    /\ UNCHANGED <<record, queued, env, connecting, count, events, owed, clobbered>>

RefreshCheck(t) ==
    /\ Doing(t, "refreshForm")
    /\ Becomes(t, RefreshForm(record))
    /\ UNCHANGED <<record, queued, env, connecting, count, events, owed, clobbered>>

IsLimiterEnableRefresh(t) ==
    /\ Doing(t, "limit")
    /\ IF count < LIMIT_COUNT THEN Advance(t) /\ UNCHANGED owed
                              ELSE Stop(t) /\ owed' = FALSE
    /\ UNCHANGED <<record, queued, env, connecting, count, events, clobbered>>

\* Asking the provider; the ability manager may refuse.
ConnectAmsForRefresh(t) ==
    /\ Doing(t, "connect")
    /\ owed' = FALSE
    /\ \/ Stop(t) /\ UNCHANGED connecting
       \/ /\ connecting' = TRUE
          /\ Becomes(t, (IF Arg(t).isCount THEN <<Op("counted", 0)>> ELSE <<>>) \o
                        (IF Arg(t).isTimer THEN Set("isTimerRefresh", FALSE)
                                           ELSE <<>>))
    /\ UNCHANGED <<record, queued, env, count, events, clobbered>>

IncreaseTimerRefreshCount(t) ==
    /\ Doing(t, "counted")
    /\ Becomes(t, (IF record.isCountTimerRefresh
                   THEN Set("isCountTimerRefresh", FALSE) \o <<Op("increase", 0)>>
                   ELSE <<>>) \o Tail(todo[t]))
    /\ UNCHANGED <<record, queued, env, connecting, count, events, owed, clobbered>>

Increase(t) ==
    /\ Doing(t, "increase") /\ Advance(t)
    /\ count' = count + 1
    /\ UNCHANGED <<record, queued, env, connecting, events, owed, clobbered>>

\* The connection is made: ClearHostRefreshFlag.
OnExecuteConnectTask ==
    /\ connecting /\ connecting' = FALSE
    /\ record' = [record EXCEPT !.isHostRefresh = FALSE]
    /\ UNCHANGED <<todo, queued, env, count, events, owed, clobbered>>
---------------------------------------------------------------------------
Starts(t) ==
    \/ TimerFires(t) \/ HostAsks(t) \/ NetworkReturns(t) \/ ProviderAsks(t)
    \/ AppUpgraded(t) \/ ForceRefresh(t) \/ NotifyVisible(t) \/ NotifyInvisible(t)
    \/ \E enable \in BOOLEAN : EnableForms(t, enable)
    \/ ScreenUnlocked(t) \/ RewriteRecord(t) \/ UpdateForm(t) \/ UpdateRenderingForm(t)
    \/ LoadFalls(t) \/ HostEnables(t) \/ OnAcquire(t)

Steps(t) ==
    \/ SetRecord(t) \/ PutOffRequest(t) \/ UpdateFormRecord(t) \/ SetFormCacheInited(t)
    \/ IsSystemOverload(t) \/ AddToOverloadTaskQueue(t) \/ ConsumeOverloadTaskQueue(t)
    \/ GetAddfinishAndSetUpdateFlag(t) \/ IsScreenOff(t) \/ IsNeedToFresh(t)
    \/ GetRefreshType(t) \/ RefreshCheck(t) \/ IsLimiterEnableRefresh(t)
    \/ ConnectAmsForRefresh(t) \/ IncreaseTimerRefreshCount(t) \/ Increase(t)

Next ==
    \/ \E t \in Threads : Starts(t) \/ Steps(t)
    \/ OnExecuteConnectTask \/ Surroundings

Spec == Init /\ [][Next]_vars
---------------------------------------------------------------------------
AllIdle == \A t \in Threads : Idle(t)
Remembered ==
    \/ record.needRefresh \/ record.refreshDuringDisable
    \/ record.needUpdateOnAddFinish \/ queued # "none"

\* The record, the queue and the counters have their types; a step is named.
TypeOK ==
    /\ record \in FormRecord
    /\ DOMAIN todo = Threads
    /\ queued \in TimerKinds \union {"none"}
    /\ overload \in BOOLEAN /\ screenOn \in BOOLEAN /\ hostOn \in BOOLEAN
    /\ acquireDue \in BOOLEAN /\ connecting \in BOOLEAN
    /\ count \in Nat /\ events \in 0..MaxEvents
    /\ owed \in BOOLEAN /\ clobbered \in BOOLEAN

\* A refresh that was put off is never forgotten: when no request is under way,
\* a flag or the overload queue still asks for it, unless the provider was asked
\* or pushed data since.  Only a write-back of a stale copy of the record
\* (refresh_cache_mgr.cpp:149, form_visibility_adapter.cpp:607 and others), which
\* undoes a flag set after the copy was taken, can lose it.
NothingForgotten == AllIdle /\ owed => Remembered \/ clobbered

\* A host's refresh that waits for the form to finish being added has an acquire
\* answer to wait for: testing addFormFinish and noting the wait are one step
\* (form_data_mgr.cpp:3595), and so are ending it and taking the note (:3612).
AddNeedIsAwaited == record.needUpdateOnAddFinish => acquireDue \/ clobbered

\* The check of the daily limit and the count are two calls under two locks:
\* the count passes LIMIT_COUNT by at most the other requests under way.
CountIsBounded == count <= LIMIT_COUNT + Cardinality(Threads) - 1

===========================================================================
