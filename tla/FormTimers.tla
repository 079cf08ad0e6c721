----------------------------- MODULE FormTimers -----------------------------
(***************************************************************************)
(* FormTimerMgr: the tasks that refresh forms periodically, at fixed times *)
(* of the day and at a time the provider asks for, and the system timers   *)
(* that wake it up for them.                                               *)
(*                                                                         *)
(*   interval   intervalTimerTasks_, served by one ticker (intervalTimerId_)*)
(*   atItems    updateAtTimerTasks_, served by one alarm for the next item *)
(*   dynamic    dynamicRefreshTasks_, served by one alarm for the first    *)
(*                                                                         *)
(* A request is the sequence of locked sections it has ahead: a list and   *)
(* its alarm are changed in different ones, while alarms fire, the clock   *)
(* is set and other requests run.  Time goes by in minutes.                *)
(***************************************************************************)
EXTENDS Integers, Sequences, FiniteSets, SequencesExt

CONSTANTS Forms, Threads,
          NoForm,          \* the formId of a FormTimer nobody filled in, -1
          Day,             \* minutes of a day
          Times,           \* the minutes forms ask for
          TimeLists,       \* those a form may ask for together
          Half,            \* half of what the low word of a moment holds, 2^31
          MaxTime, MaxRequests

ASSUME TimersAssumption ==
    /\ NoForm \notin Forms /\ "free" \notin Threads
    /\ Day \in Nat \ {0, 1} /\ Times \subseteq 0..(Day - 1)
    /\ TimeLists \subseteq SUBSET Times \ {{}} /\ Half \in Nat \ {0}
    /\ MaxTime \in Nat /\ MaxRequests \in Nat

VARIABLES interval,        \* forms with an interval task
          quietTasks,      \* those whose task has no needUpdateAlarm
          ticker,          \* the repeating timer behind OnIntervalTimeOut runs
          intervalMutex,   \* who keeps intervalMutex_ over several steps, or "free"
          atItems,         \* <<form, time of the day>>
          quietItems,      \* those whose task has no needUpdateAlarm
          atTimerWakeUpTime,
          atAlarm,         \* the time of the day and the moment it is started for
          dynamic,         \* form -> the moment set for it
          dynamicWakeUpTime,
          dynamicAlarm,    \* the moment it is started for
          limiter,         \* forms with an entry in limiterMap_
          calls,           \* thread -> the request it serves
          events,          \* common events not yet received
          now, shift,      \* time since boot; the time of the day at boot
          requests,
          unalarmed,       \* items added without an update of the alarm, until the next
          overlapped,      \* an alarm update for fixed times met another (Overlap)
          raced            \* forms two requests worked on at once

tasks == <<interval, quietTasks, ticker, intervalMutex, limiter>>
fixed == <<atItems, quietItems, atTimerWakeUpTime, atAlarm, unalarmed, overlapped>>
next == <<dynamic, dynamicWakeUpTime, dynamicAlarm>>
clock == <<now, shift>>
vars == <<tasks, fixed, next, calls, events, clock, requests, raced>>

Moments == 0..(MaxTime + Day)
None == [at |-> -1, wake |-> -1]
Never == MaxTime + Day + 1
Idle == [todo |-> <<>>, form |-> NoForm, times |-> {}, need |-> TRUE, found |-> None]

----------------------------------------------------------------------------
At(t, step) == calls[t].todo # <<>> /\ Head(calls[t].todo) = step
Rest(t) == Tail(calls[t].todo)
Update(t, call) == calls' = [calls EXCEPT ![t] = IF call.todo = <<>> THEN Idle ELSE call]
GoOn(t, rest) == Update(t, [calls[t] EXCEPT !.todo = rest])

BeginTask(t, f, todo, times, need) ==
    /\ calls[t] = Idle
    /\ requests < MaxRequests
    /\ requests' = requests + 1
    /\ calls' = [calls EXCEPT ![t] =
          [todo |-> todo, form |-> f, times |-> times, need |-> need, found |-> None]]
    /\ raced' = IF \E u \in Threads : calls[u].form = f THEN raced \cup {f} ELSE raced
    /\ UNCHANGED <<tasks, fixed, next, events, clock>>

Begin(t, f, todo, times) == BeginTask(t, f, todo, times, TRUE)

----------------------------------------------------------------------------
\* Requests.  The times of the day of a form are its scheduled time or a list of
\* several; an update that changes them needs the scheduled one.
AddFormTimer(t, f) ==
    \/ Begin(t, f, <<"AddIntervalTimer", "AddItem">>, {})
    \/ \E a \in Times : Begin(t, f, <<"AddUpdateAtTimer">>, {a})

\* Its tasks have no needUpdateAlarm: the alarm is updated after the last, and not at
\* all if one of the times is invalid.
AddFormTimerForMultiUpdate(t, f) ==
    \E times \in TimeLists :
        \/ BeginTask(t, f, <<"AddUpdateAtTimer", "FindNextAtTimerItem">>, times, FALSE)
        \/ BeginTask(t, f, <<"AddUpdateAtTimer">>, times, FALSE)

RemoveFormTimer(t, f) ==
    Begin(t, f, <<"DeleteIntervalTimer", "DeleteUpdateAtTimer", "FindNextAtTimerItem",
                  "DeleteDynamicItem", "UpdateDynamicAlarm", "DeleteItem">>, {})

\* Mutant: the limiter is not told of the form.
SetNextRefreshTimeUnlimited(t, f) ==
    \E gap \in 1..2 :
        Begin(t, f, <<"SetDynamicItem", "UpdateDynamicAlarm">>, {now + gap})

\* The moment is computed before the list is locked.
SetNextRefreshTime(t, f) ==
    \E gap \in 1..2 :
        Begin(t, f, <<"SetDynamicItem", "UpdateDynamicAlarm", "AddItem">>, {now + gap})

UpdateFormTimer(t, f) ==
    \/ Begin(t, f, <<"DeleteIntervalTimer">>, {})
    \/ Begin(t, f, <<"TakeUpdateAtItems", "FindNextAtTimerItem">>, {})
    \/ Begin(t, f, <<"TakeUpdateAtItems", "FindNextAtTimerItem", "AddIntervalTimer",
                     "AddItem">>, {})
    \/ \E times \in TimeLists :
          \/ Begin(t, f, <<"UpdateTimerValue", "FindNextAtTimerItem">>, times)
          \/ Begin(t, f, <<"IntervalToAtTimer", "AddUpdateAtTimer", "Unlock">>, times)

\* GetDynamicWantAgent gives a moment as two ints, OnReceiveEvent joins them: a low
\* word with its highest bit set makes a negative number of the two.
Joined(m) == LET low == m % (2 * Half) IN IF low < Half THEN m ELSE low - 2 * Half

\* The times that OnReceiveEvent takes to be invalid.
Refused(m) == Joined(m) <= 0

\* TimerReceiver::OnReceiveEvent.  OnUpdateAtTrigger also collects the items of its
\* time, which are refreshed.
Received(e) ==
    CASE e.type = "static" -> [Idle EXCEPT !.todo = <<"FindNextAtTimerItem">>]
      [] e.type = "timeChanged" -> [Idle EXCEPT !.todo = <<"HandleSystemTimeChanged">>]
      [] e.type = "dynamic" /\ Refused(e.time) -> Idle
      [] e.type = "dynamic" /\ ~Refused(e.time) ->
            [Idle EXCEPT !.todo = <<"OnDynamicTimeTrigger", "UpdateDynamicAlarm">>,
                         !.times = {Joined(e.time)}]

OnReceiveEvent(t) ==
    /\ calls[t] = Idle
    /\ \E e \in events : events' = events \ {e} /\ Update(t, Received(e))
    /\ UNCHANGED <<tasks, fixed, next, clock, requests, raced>>

----------------------------------------------------------------------------
\* Interval tasks.
IntervalFree(t) == intervalMutex \in {"free", t}

AddIntervalTimer(t) ==
    /\ At(t, "AddIntervalTimer") /\ IntervalFree(t)
    /\ ticker' = TRUE
    /\ interval' = interval \cup {calls[t].form}
    /\ quietTasks' = IF calls[t].need \/ calls[t].form \in interval THEN quietTasks
                     ELSE quietTasks \cup {calls[t].form}
    /\ GoOn(t, IF calls[t].form \in interval THEN <<>> ELSE Rest(t))
    /\ UNCHANGED <<intervalMutex, limiter, fixed, next, events, clock, requests, raced>>

DeleteIntervalTimer(t) ==
    /\ At(t, "DeleteIntervalTimer") /\ IntervalFree(t)
    /\ interval' = interval \ {calls[t].form} /\ quietTasks' = quietTasks \ {calls[t].form}
    /\ ticker' = (ticker /\ interval' # {})
    /\ GoOn(t, IF calls[t].form \in interval THEN SubSeq(Rest(t), 3, Len(Rest(t)))
                                            ELSE Rest(t))
    /\ UNCHANGED <<intervalMutex, limiter, fixed, next, events, clock, requests, raced>>

\* Mutant: the lock is kept though there is nothing to convert.
IntervalToAtTimerKeepsLock(t) ==
    /\ At(t, "IntervalToAtTimer") /\ IntervalFree(t)
    /\ interval' = interval \ {calls[t].form} /\ quietTasks' = quietTasks \ {calls[t].form}
    /\ intervalMutex' = t
    /\ GoOn(t, IF calls[t].form \in interval THEN Rest(t) ELSE <<>>)
    /\ UNCHANGED <<ticker, limiter, fixed, next, events, clock, requests, raced>>

\* IntervalToAtTimer keeps intervalMutex_ until the new items are added, for tasks like
\* the one there was.
IntervalToAtTimer(t) ==
    /\ At(t, "IntervalToAtTimer") /\ IntervalFree(t)
    /\ interval' = interval \ {calls[t].form} /\ quietTasks' = quietTasks \ {calls[t].form}
    /\ IF calls[t].form \in interval
       THEN /\ intervalMutex' = t
            /\ Update(t, [calls[t] EXCEPT !.todo = Rest(t), !.need = calls[t].form \notin quietTasks])
       ELSE UNCHANGED intervalMutex /\ GoOn(t, <<>>)
    /\ UNCHANGED <<ticker, limiter, fixed, next, events, clock, requests, raced>>

Unlock(t) ==
    /\ At(t, "Unlock")
    /\ intervalMutex' = "free"
    /\ GoOn(t, Rest(t))
    /\ UNCHANGED <<interval, quietTasks, ticker, limiter, fixed, next, events, clock, requests, raced>>

\* FormRefreshLimiter.
AddItem(t) ==
    /\ At(t, "AddItem")
    /\ limiter' = limiter \cup {calls[t].form}
    /\ GoOn(t, Rest(t))
    /\ UNCHANGED <<interval, quietTasks, ticker, intervalMutex, fixed, next, events, clock, requests, raced>>

DeleteItem(t) ==
    /\ At(t, "DeleteItem")
    /\ limiter' = limiter \ {calls[t].form}
    /\ GoOn(t, Rest(t))
    /\ UNCHANGED <<interval, quietTasks, ticker, intervalMutex, fixed, next, events, clock, requests, raced>>

----------------------------------------------------------------------------
\* Items at fixed times.
Of(f) == {item \in atItems : item[1] = f}
TimeOfDay == (now + shift) % Day
NextTime(a) == now + ((a - TimeOfDay - 1) % Day) + 1

\* What a request adds that does not update the alarm for it is not alarmed yet.
ItemsChange(t, items, quiet, call) ==
    /\ atItems' = items
    /\ quietItems' = quiet
    /\ unalarmed' = IF calls[t].need THEN unalarmed ELSE unalarmed \cup (items \ atItems)
    /\ Update(t, call)
    /\ UNCHANGED <<tasks, atTimerWakeUpTime, atAlarm, overlapped, next, events, clock,
                   requests, raced>>

\* One time of those asked for: an item, followed by its alarm if the task needs it and
\* by its registration, unless it exists.
AddUpdateAtTimer(t) ==
    /\ At(t, "AddUpdateAtTimer")
    /\ \E a \in calls[t].times :
          LET times == calls[t].times \ {a}
              item == <<calls[t].form, a>>
              rest == IF times = {} THEN Rest(t) ELSE calls[t].todo
              follow == (IF calls[t].need THEN <<"FindNextAtTimerItem">> ELSE <<>>)
                           \o <<"AddItem">>
          IN  IF item \in atItems
              THEN ItemsChange(t, atItems, quietItems,
                               [calls[t] EXCEPT !.times = times, !.todo = rest])
              ELSE ItemsChange(t, atItems \cup {item},
                               IF calls[t].need THEN quietItems ELSE quietItems \cup {item},
                               [calls[t] EXCEPT !.times = times, !.todo = follow \o rest])

\* The first item of the form only: the list is ordered by time.
DeleteUpdateAtTimer(t) ==
    /\ At(t, "DeleteUpdateAtTimer")
    /\ LET first == {item \in Of(calls[t].form) :
                        \A other \in Of(calls[t].form) : item[2] <= other[2]}
       IN  ItemsChange(t, atItems \ first, quietItems \ first,
                       [calls[t] EXCEPT !.todo = Rest(t)])

\* The task found is that of the form's last item or, if there are none, the default.
Found(t) == IF Of(calls[t].form) # {} THEN calls[t].form ELSE NoForm
FoundQuiet(t) == \E last \in quietItems \cap Of(calls[t].form) :
                    \A other \in Of(calls[t].form) : other[2] <= last[2]

UpdateTimerValue(t) ==
    /\ At(t, "UpdateTimerValue")
    /\ LET items == {<<Found(t), a>> : a \in calls[t].times}
       IN  ItemsChange(t, (atItems \ Of(calls[t].form)) \cup items,
                       (quietItems \ Of(calls[t].form)) \cup (IF FoundQuiet(t) THEN items ELSE {}),
                       [calls[t] EXCEPT !.todo = Rest(t)])

TakeUpdateAtItems(t) ==
    /\ At(t, "TakeUpdateAtItems")
    /\ ItemsChange(t, atItems \ Of(calls[t].form), quietItems \ Of(calls[t].form),
                   [calls[t] EXCEPT !.todo = Rest(t), !.form = Found(t),
                                    !.need = ~FoundQuiet(t)])

----------------------------------------------------------------------------
\* UpdateAtTimerAlarmDetail: the next item is found under the list's lock, the alarm
\* changed under another.
AlarmSteps == {"CompareWakeUpTime", "StartUpdateAtTimer", "RecheckEmpty",
               "ClearUpdateAtTimerResource", "ForgetWakeUpTime"}
InAlarmUpdate(t) == \E s \in AlarmSteps : At(t, s)

\* Two updates at once, or a change of the clock that finds no items while the alarm of
\* those removed has not been cleared.
Overlap(t) ==
    \/ overlapped
    \/ \E u \in Threads \ {t} : InAlarmUpdate(u)
    \/ At(t, "HandleSystemTimeChanged") /\ atItems = {} /\ atAlarm # None

FindNextAtTimerItem(t) ==
    /\ At(t, "FindNextAtTimerItem")
    /\ overlapped' = Overlap(t) /\ unalarmed' = {}
    /\ IF atItems = {}
       THEN GoOn(t, <<"RecheckEmpty">> \o Rest(t))
       ELSE \E item \in atItems :
              /\ \A other \in atItems : NextTime(item[2]) <= NextTime(other[2])
              /\ Update(t, [calls[t] EXCEPT !.todo = <<"CompareWakeUpTime">> \o Rest(t),
                            !.found = [at |-> item[2], wake |-> NextTime(item[2])]])
    /\ UNCHANGED <<tasks, atItems, quietItems, atTimerWakeUpTime, atAlarm, next, events, clock,
                   requests, raced>>

AlarmStep(t, wakeUpTime, alarm, rest) ==
    /\ atTimerWakeUpTime' = wakeUpTime
    /\ atAlarm' = alarm
    /\ Update(t, [calls[t] EXCEPT !.todo = rest,
                  !.found = IF rest # <<>> /\ Head(rest) = "StartUpdateAtTimer" THEN @ ELSE None])
    /\ overlapped' = Overlap(t)
    /\ UNCHANGED <<tasks, atItems, quietItems, unalarmed, next, events, clock, requests, raced>>

CompareWakeUpTime(t) ==
    /\ At(t, "CompareWakeUpTime")
    /\ AlarmStep(t, calls[t].found.wake, atAlarm,
                 IF calls[t].found.wake = atTimerWakeUpTime THEN Rest(t)
                 ELSE <<"StartUpdateAtTimer">> \o Rest(t))

StartUpdateAtTimer(t) ==
    /\ At(t, "StartUpdateAtTimer")
    /\ AlarmStep(t, atTimerWakeUpTime, calls[t].found, Rest(t))

\* Mutant: the alarm is cleared and its time remembered.
RecheckEmptyKeepsTime(t) ==
    /\ At(t, "RecheckEmpty")
    /\ AlarmStep(t, atTimerWakeUpTime, atAlarm,
                 IF atItems # {} THEN Rest(t)
                 ELSE <<"ClearUpdateAtTimerResource">> \o Rest(t))

RecheckEmpty(t) ==
    /\ At(t, "RecheckEmpty")
    /\ AlarmStep(t, atTimerWakeUpTime, atAlarm,
                 IF atItems # {} THEN Rest(t)
                 ELSE <<"ClearUpdateAtTimerResource", "ForgetWakeUpTime">> \o Rest(t))

ClearUpdateAtTimerResource(t) ==
    /\ At(t, "ClearUpdateAtTimerResource")
    /\ AlarmStep(t, atTimerWakeUpTime, None, Rest(t))

ForgetWakeUpTime(t) ==
    /\ At(t, "ForgetWakeUpTime")
    /\ AlarmStep(t, Never, atAlarm, Rest(t))

\* The time of the day has changed: the alarm is computed again.
HandleSystemTimeChanged(t) ==
    /\ At(t, "HandleSystemTimeChanged")
    /\ AlarmStep(t, atTimerWakeUpTime, atAlarm,
                 IF atItems = {} THEN <<>>
                 ELSE <<"ForgetWakeUpTime", "FindNextAtTimerItem">>)

----------------------------------------------------------------------------
\* Next times.
Due == {f \in Forms : dynamic[f] # Never}
First == {f \in Due : \A g \in Due : dynamic[f] <= dynamic[g]}

DynamicChange(t, items) ==
    /\ dynamic' = items
    /\ GoOn(t, Rest(t))
    /\ UNCHANGED <<tasks, fixed, dynamicWakeUpTime, dynamicAlarm, events, clock, requests, raced>>

SetDynamicItem(t) ==
    /\ At(t, "SetDynamicItem")
    /\ \E time \in calls[t].times :
          DynamicChange(t, [dynamic EXCEPT ![calls[t].form] = time])

DeleteDynamicItem(t) ==
    /\ At(t, "DeleteDynamicItem")
    /\ DynamicChange(t, [dynamic EXCEPT ![calls[t].form] = Never])

\* What is due is taken from the list, whether or not the limiter lets it refresh.
OnDynamicTimeTrigger(t) ==
    /\ At(t, "OnDynamicTimeTrigger")
    /\ \E time \in calls[t].times :
          DynamicChange(t, [f \in Forms |->
              IF dynamic[f] <= time \/ dynamic[f] <= now THEN Never ELSE dynamic[f]])

\* Mutant: the time of the alarm that is destroyed is kept.
ForgetDynamicAlarmKeepsTime == dynamicAlarm' = Never /\ UNCHANGED dynamicWakeUpTime

\* With nothing left to refresh.
ForgetDynamicAlarm == dynamicAlarm' = Never /\ dynamicWakeUpTime' = Never

\* An overdue first item whose alarm is not to be changed is dropped (IsNeedUpdate).
UpdateDynamicAlarm(t) ==
    /\ At(t, "UpdateDynamicAlarm")
    /\ GoOn(t, Rest(t))
    /\ \/ /\ Due = {}
          /\ ForgetDynamicAlarm
          /\ UNCHANGED dynamic
       \/ \E f \in First :
             /\ dynamic[f] # dynamicWakeUpTime
             /\ dynamicWakeUpTime' = dynamic[f] /\ dynamicAlarm' = dynamic[f]
             /\ UNCHANGED dynamic
       \/ \E f \in First :
             /\ dynamic[f] = dynamicWakeUpTime
             /\ now > dynamicWakeUpTime
             /\ dynamic' = [dynamic EXCEPT ![f] = Never]
             /\ IF Due' = {}
                THEN UNCHANGED <<dynamicWakeUpTime, dynamicAlarm>>
                ELSE \E g \in First' : /\ dynamicWakeUpTime' = dynamic'[g]
                                       /\ dynamicAlarm' = dynamic'[g]
       \/ /\ \E f \in First : dynamic[f] = dynamicWakeUpTime
          /\ now <= dynamicWakeUpTime
          /\ UNCHANGED next
    /\ UNCHANGED <<tasks, fixed, events, clock, requests, raced>>

----------------------------------------------------------------------------
\* The time service: an alarm sends a common event when its moment has come, and
\* time does not pass it by.  Nor does a request that has computed a next time (for
\* any but a system application five minutes ahead or more) take until then to enter it.
AlarmDue == atAlarm # None /\ atAlarm.wake <= now

UpdateAtAlarmFires ==
    /\ AlarmDue
    /\ events' = events \cup {[type |-> "static", time |-> atAlarm.at]}
    /\ atAlarm' = None
    /\ UNCHANGED <<tasks, atItems, quietItems, atTimerWakeUpTime, unalarmed, overlapped, next,
                   calls, clock, requests, raced>>

DynamicAlarmFires ==
    /\ dynamicAlarm <= now
    /\ events' = events \cup {[type |-> "dynamic", time |-> dynamicAlarm]}
    /\ dynamicAlarm' = Never
    /\ UNCHANGED <<tasks, fixed, dynamic, dynamicWakeUpTime, calls, clock, requests, raced>>

Tick ==
    /\ now < MaxTime
    /\ ~AlarmDue /\ dynamicAlarm > now
    /\ \A t \in Threads : At(t, "SetDynamicItem") => \A m \in calls[t].times : m > now + 1
    /\ now' = now + 1
    /\ UNCHANGED <<tasks, fixed, next, calls, events, shift, requests, raced>>

TimeIsSet ==
    /\ requests < MaxRequests
    /\ requests' = requests + 1
    /\ \E s \in 0..(Day - 1) \ {shift} : shift' = s
    /\ events' = events \cup {[type |-> "timeChanged", time |-> 0]}
    /\ UNCHANGED <<tasks, fixed, next, calls, now, raced>>

----------------------------------------------------------------------------
Init ==
    /\ interval = {} /\ quietTasks = {} /\ ticker = FALSE /\ intervalMutex = "free" /\ limiter = {}
    /\ atItems = {} /\ quietItems = {} /\ unalarmed = {}
    /\ atTimerWakeUpTime = Never /\ atAlarm = None
    /\ dynamic = [f \in Forms |-> Never]
    /\ dynamicWakeUpTime = Never /\ dynamicAlarm = Never
    /\ calls = [t \in Threads |-> Idle]
    /\ events = {} /\ now = 0 /\ shift = 0 /\ requests = 0
    /\ overlapped = FALSE /\ raced = {}

Request(t, f) ==
    \/ AddFormTimer(t, f) \/ AddFormTimerForMultiUpdate(t, f)
    \/ RemoveFormTimer(t, f) \/ SetNextRefreshTime(t, f) \/ UpdateFormTimer(t, f)

Step(t) ==
    \/ AddIntervalTimer(t) \/ DeleteIntervalTimer(t) \/ IntervalToAtTimer(t) \/ Unlock(t)
    \/ AddItem(t) \/ DeleteItem(t)
    \/ AddUpdateAtTimer(t) \/ DeleteUpdateAtTimer(t) \/ UpdateTimerValue(t)
    \/ TakeUpdateAtItems(t)
    \/ FindNextAtTimerItem(t) \/ CompareWakeUpTime(t) \/ StartUpdateAtTimer(t)
    \/ RecheckEmpty(t) \/ ClearUpdateAtTimerResource(t) \/ ForgetWakeUpTime(t)
    \/ HandleSystemTimeChanged(t)
    \/ SetDynamicItem(t) \/ DeleteDynamicItem(t) \/ OnDynamicTimeTrigger(t)
    \/ UpdateDynamicAlarm(t)

Next ==
    \/ \E t \in Threads : \/ \E f \in Forms : Request(t, f)
                          \/ OnReceiveEvent(t)
                          \/ Step(t)
    \/ UpdateAtAlarmFires \/ DynamicAlarmFires \/ Tick \/ TimeIsSet

Spec == Init /\ [][Next]_vars

----------------------------------------------------------------------------
Steps == AlarmSteps \cup
    {"AddIntervalTimer", "AddItem", "AddUpdateAtTimer",
     "FindNextAtTimerItem", "DeleteIntervalTimer", "DeleteUpdateAtTimer",
     "DeleteDynamicItem", "UpdateDynamicAlarm", "DeleteItem", "SetDynamicItem",
     "TakeUpdateAtItems", "UpdateTimerValue", "IntervalToAtTimer", "Unlock",
     "OnDynamicTimeTrigger", "HandleSystemTimeChanged"}

\* The lists, alarms and requests have their types, and intervalMutex_ is kept only
\* by a request that will give it back.
TypeOK ==
    /\ interval \subseteq Forms \cup {NoForm} /\ limiter \subseteq Forms \cup {NoForm}
    /\ ticker \in BOOLEAN /\ overlapped \in BOOLEAN /\ raced \subseteq Forms
    /\ atItems \subseteq (Forms \cup {NoForm}) \X Times
    /\ quietTasks \subseteq interval /\ quietItems \subseteq atItems
    /\ atTimerWakeUpTime \in Moments \cup {Never}
    /\ atAlarm \in [at : Times, wake : Moments] \cup {None}
    /\ dynamic \in [Forms -> Moments \cup {Never}]
    /\ {dynamicWakeUpTime, dynamicAlarm} \subseteq Moments \cup {Never}
    /\ \A t \in Threads :
          /\ calls[t].form \in Forms \cup {NoForm}
          /\ Range(calls[t].todo) \subseteq Steps
    /\ intervalMutex = "free" \/ \E t \in Threads :
          intervalMutex = t /\ calls[t].todo # <<>> /\ Last(calls[t].todo) = "Unlock"

Ahead(step) == \E t \in Threads : step \in Range(calls[t].todo)
Pending(type) == \E e \in events : e.type = type

\* Once no alarm update is ahead and no event of the alarm under way, the alarm for
\* next times is started for the first of the list: the list and the alarm are
\* changed under two locks, and IsNeedUpdate goes by dynamicWakeUpTime_ alone, though
\* the alarm it stands for may have fired.  Not if the moment of the first has come and
\* is one whose event OnReceiveEvent drops.
DynamicAlarmed ==
    ~Ahead("UpdateDynamicAlarm") /\ ~Pending("dynamic") /\ Due # {} =>
        \E f \in First : \/ dynamicAlarm = dynamic[f]
                         \/ dynamic[f] <= now /\ Refused(dynamic[f])

\* The items whose addition, or a later update of the alarm, has seen to the alarm.
Attended == atItems \ unalarmed

\* Once no alarm update is ahead and no event of it under way, an alarm is started
\* for the next of the fixed times, and for none if there are no items: through
\* additions, removals, conversions, triggers and changes of the clock.  Leaving aside
\* the items added without needUpdateAlarm, which no update has seen yet; and not after
\* two alarm updates have overlapped (see UpdateAtTimerAlarmDetail, which finds the item
\* and starts the alarm under different locks).
UpdateAtAlarmed ==
    \/ overlapped \/ Pending("static") \/ Pending("timeChanged")
    \/ \E t \in Threads : InAlarmUpdate(t) \/ At(t, "HandleSystemTimeChanged")
    \/ Ahead("FindNextAtTimerItem")
    \/ IF atItems = {} THEN atAlarm = None
       ELSE \/ AlarmDue \/ Attended = {}
            \/ /\ atAlarm.at \in {item[2] : item \in Attended}
               /\ \A item \in Attended : atAlarm.wake <= NextTime(item[2])

\* A form with a periodic or a next refresh time is known to the limiter once no
\* request works on it, or the limiter would refuse each of its refreshes
\* (OnIntervalTimeOut, OnDynamicTimeTrigger); and the ticker runs for the periodic
\* ones.  Not if an addition and a removal of the form were under way at once.
TimersAreServed ==
    /\ interval # {} => ticker
    /\ \A f \in Forms \ raced :
          (f \in interval \/ dynamic[f] # Never) /\ (\A t \in Threads : calls[t].form # f)
              => f \in limiter
=============================================================================
