--------------------------- MODULE FormTimers_proofs ---------------------------
(***************************************************************************)
(* Proofs about the timers of forms, for any forms, threads, times of the  *)
(* day and any number of requests: the types, that what has a timer is     *)
(* known to the limiter, and that every list has its alarm.                *)
(***************************************************************************)
EXTENDS FormTimers, SequenceTheorems, TLAPS

--------------------------------------------------------------------------------
(* The steps a request may have ahead.  They have names, so that the proofs *)
(* look into the sequences in the lemmas about scripts only.                *)

Item == <<"AddItem">>
ItemAt == <<"AddItem", "AddUpdateAtTimer">>
ItemUnlock == <<"AddItem", "Unlock">>
ItemAtUnlock == <<"AddItem", "AddUpdateAtTimer", "Unlock">>
IntervalItem == <<"AddIntervalTimer", "AddItem">>
RemoveDynamic == <<"DeleteDynamicItem", "UpdateDynamicAlarm", "DeleteItem">>
FindRemove == <<"FindNextAtTimerItem", "DeleteDynamicItem", "UpdateDynamicAlarm", "DeleteItem">>
RemoveFixed == <<"DeleteUpdateAtTimer", "FindNextAtTimerItem",
              "DeleteDynamicItem", "UpdateDynamicAlarm", "DeleteItem">>
RemoveTimer == <<"DeleteIntervalTimer", "DeleteUpdateAtTimer", "FindNextAtTimerItem",
            "DeleteDynamicItem", "UpdateDynamicAlarm", "DeleteItem">>
AlarmDelete == <<"UpdateDynamicAlarm", "DeleteItem">>
DeleteLast == <<"DeleteItem">>
DeleteInterval == <<"DeleteIntervalTimer">>
AtLast == <<"AddUpdateAtTimer">>
AtUnlock == <<"AddUpdateAtTimer", "Unlock">>
UnlockLast == <<"Unlock">>
IntervalToAt == <<"IntervalToAtTimer", "AddUpdateAtTimer", "Unlock">>
Multi == <<"AddUpdateAtTimer", "FindNextAtTimerItem">>
ItemMulti == <<"AddItem", "AddUpdateAtTimer", "FindNextAtTimerItem">>
ItemFind == <<"AddItem", "FindNextAtTimerItem">>
FindLast == <<"FindNextAtTimerItem">>
TakeAt == <<"TakeUpdateAtItems", "FindNextAtTimerItem">>
TakeAtInterval == <<"TakeUpdateAtItems", "FindNextAtTimerItem", "AddIntervalTimer", "AddItem">>
FindInterval == <<"FindNextAtTimerItem", "AddIntervalTimer", "AddItem">>
UpdateAt == <<"UpdateTimerValue", "FindNextAtTimerItem">>
SetDynamic == <<"SetDynamicItem", "UpdateDynamicAlarm", "AddItem">>
AlarmItem == <<"UpdateDynamicAlarm", "AddItem">>
Trigger == <<"OnDynamicTimeTrigger", "UpdateDynamicAlarm">>
AlarmLast == <<"UpdateDynamicAlarm">>
Changed == <<"HandleSystemTimeChanged">>
ForgetFind == <<"ForgetWakeUpTime", "FindNextAtTimerItem">>

\* What may follow an update of the alarm for fixed times.
Tails == {<<>>, Item, ItemAt, ItemUnlock, ItemAtUnlock, ItemMulti, ItemFind, IntervalItem,
          RemoveDynamic}

\* The scripts of the requests, and what is left of them, outside such an update.
Plain == Tails \cup
    {RemoveFixed, RemoveTimer, AlarmDelete, DeleteLast, DeleteInterval, AtLast, AtUnlock, UnlockLast,
     IntervalToAt, Multi, TakeAt, TakeAtInterval, UpdateAt, SetDynamic, AlarmItem,
     Trigger, AlarmLast, Changed, ForgetFind}

AlarmHeads == {"FindNextAtTimerItem", "CompareWakeUpTime", "StartUpdateAtTimer", "RecheckEmpty",
               "ForgetWakeUpTime"}
Updating(s) == s # <<>> /\ Head(s) \in AlarmHeads /\ Tail(s) \in Tails
Clearing(s) == s # <<>> /\ Head(s) = "ClearUpdateAtTimerResource" /\ Tail(s) # <<>>
               /\ Head(Tail(s)) = "ForgetWakeUpTime" /\ Tail(Tail(s)) \in Tails
Legal(s) == s \in Plain \/ Updating(s) \/ Clearing(s)

\* The steps from IntervalToAtTimer to Unlock.
Keeping == {ItemUnlock, ItemAtUnlock}
Holds(s) == \/ s \in Keeping \cup {AtUnlock, UnlockLast}
            \/ Updating(s) /\ Tail(s) \in Keeping
            \/ Clearing(s) /\ Tail(Tail(s)) \in Keeping

Has(s, step) == \E i \in 1 .. Len(s) : s[i] = step
Items == [at : Times, wake : Moments]
Starting(t) == At(t, "CompareWakeUpTime") \/ At(t, "StartUpdateAtTimer")

\* A request: its steps, and what they use.
Adding == {"AddUpdateAtTimer", "UpdateTimerValue"}
Calls == [todo : Seq(Steps), form : Forms \cup {NoForm},
          times : SUBSET Moments, need : BOOLEAN, found : Items \cup {None}]
Opens(c, step) == c.todo # <<>> /\ Head(c.todo) = step
CallOK(c, n) ==
    /\ Legal(c.todo)
    /\ (\E step \in Adding : Has(c.todo, step)) => c.times \subseteq Times
    /\ Opens(c, "SetDynamicItem") => \A m \in c.times : m > n
    /\ Opens(c, "CompareWakeUpTime") \/ Opens(c, "StartUpdateAtTimer") => c.found \in Items
CallsOK ==
    /\ calls \in [Threads -> Calls]
    /\ \A t \in Threads :
         /\ CallOK(calls[t], now)
         /\ calls[t].todo = <<>> => calls[t] = Idle
         /\ Holds(calls[t].todo) => intervalMutex = t
Listed ==
    /\ interval \subseteq Forms \cup {NoForm} /\ limiter \subseteq Forms \cup {NoForm}
    /\ ticker \in BOOLEAN /\ overlapped \in BOOLEAN /\ raced \subseteq Forms
    /\ atItems \subseteq (Forms \cup {NoForm}) \X Times
    /\ quietTasks \subseteq interval /\ quietItems \subseteq atItems
    /\ atTimerWakeUpTime \in Moments \cup {Never}
    /\ atAlarm \in Items \cup {None}
    /\ dynamic \in [Forms -> Moments \cup {Never}]
    /\ dynamicWakeUpTime \in Moments \cup {Never} /\ dynamicAlarm \in Moments \cup {Never}
    /\ now \in 0 .. MaxTime /\ shift \in 0 .. (Day - 1) /\ requests \in Nat
    /\ events \subseteq [type : {"static", "dynamic", "timeChanged"}, time : Moments]
LockIsKept == intervalMutex = "free" \/ \E t \in Threads :
                  intervalMutex = t /\ Holds(calls[t].todo)
Typed == Listed /\ CallsOK /\ LockIsKept

--------------------------------------------------------------------------------
(* Facts about scripts.                                                    *)

LEMMA ConsFacts ==
    ASSUME NEW S, NEW x \in S, NEW r \in Seq(S)
    PROVE  <<x>> \o r \in Seq(S) /\ <<x>> \o r # <<>> /\ Head(<<x>> \o r) = x /\ Tail(<<x>> \o r) = r
  OBVIOUS

LEMMA HasCons ==
    ASSUME NEW S, NEW s \in Seq(S), s # <<>>, NEW x
    PROVE  Has(s, x) <=> Head(s) = x \/ Has(Tail(s), x)
  BY DEF Has

LEMMA HasNone == \A x : ~Has(<<>>, x)
  BY DEF Has

LEMMA StepNames == /\ AlarmHeads \subseteq Steps /\ AlarmSteps \subseteq Steps
                   /\ AlarmHeads \cup {"ClearUpdateAtTimerResource"}
                        = AlarmSteps \cup {"FindNextAtTimerItem"}
  BY DEF AlarmHeads, AlarmSteps, Steps

\* A script, its first step and the rest.
Is(s, first, rest) == s \in Seq(Steps) /\ s # <<>> /\ Head(s) = first /\ Tail(s) = rest

LEMMA Scripts ==
    /\ Is(Item, "AddItem", <<>>) /\ Is(ItemAt, "AddItem", AtLast)
    /\ Is(ItemUnlock, "AddItem", UnlockLast) /\ Is(ItemAtUnlock, "AddItem", AtUnlock)
    /\ Is(ItemMulti, "AddItem", Multi) /\ Is(ItemFind, "AddItem", FindLast)
    /\ Is(IntervalItem, "AddIntervalTimer", Item)
    /\ Is(RemoveTimer, "DeleteIntervalTimer", RemoveFixed)
    /\ Is(RemoveFixed, "DeleteUpdateAtTimer", FindRemove)
    /\ Is(FindRemove, "FindNextAtTimerItem", RemoveDynamic)
    /\ Is(RemoveDynamic, "DeleteDynamicItem", AlarmDelete)
    /\ Is(AlarmDelete, "UpdateDynamicAlarm", DeleteLast)
    /\ Is(DeleteLast, "DeleteItem", <<>>) /\ Is(DeleteInterval, "DeleteIntervalTimer", <<>>)
    /\ Is(AtLast, "AddUpdateAtTimer", <<>>) /\ Is(AtUnlock, "AddUpdateAtTimer", UnlockLast)
    /\ Is(UnlockLast, "Unlock", <<>>) /\ Is(IntervalToAt, "IntervalToAtTimer", AtUnlock)
    /\ Is(Multi, "AddUpdateAtTimer", FindLast) /\ Is(FindLast, "FindNextAtTimerItem", <<>>)
    /\ Is(TakeAt, "TakeUpdateAtItems", FindLast)
    /\ Is(TakeAtInterval, "TakeUpdateAtItems", FindInterval)
    /\ Is(FindInterval, "FindNextAtTimerItem", IntervalItem)
    /\ Is(UpdateAt, "UpdateTimerValue", FindLast)
    /\ Is(SetDynamic, "SetDynamicItem", AlarmItem) /\ Is(AlarmItem, "UpdateDynamicAlarm", Item)
    /\ Is(Trigger, "OnDynamicTimeTrigger", AlarmLast)
    /\ Is(AlarmLast, "UpdateDynamicAlarm", <<>>)
    /\ Is(Changed, "HandleSystemTimeChanged", <<>>)
    /\ Is(ForgetFind, "ForgetWakeUpTime", FindLast)
  <1>1. /\ Is(Item, "AddItem", <<>>) /\ Is(ItemAt, "AddItem", AtLast)
        /\ Is(ItemUnlock, "AddItem", UnlockLast) /\ Is(ItemAtUnlock, "AddItem", AtUnlock)
        /\ Is(ItemMulti, "AddItem", Multi) /\ Is(ItemFind, "AddItem", FindLast)
    BY DEF Is, Steps, Item, ItemAt, AtLast, ItemUnlock, UnlockLast, ItemAtUnlock, AtUnlock,
       ItemMulti, Multi, ItemFind, FindLast
  <1>2. /\ Is(IntervalItem, "AddIntervalTimer", Item)
        /\ Is(RemoveTimer, "DeleteIntervalTimer", RemoveFixed)
        /\ Is(RemoveFixed, "DeleteUpdateAtTimer", FindRemove)
        /\ Is(FindRemove, "FindNextAtTimerItem", RemoveDynamic)
        /\ Is(RemoveDynamic, "DeleteDynamicItem", AlarmDelete)
        /\ Is(AlarmDelete, "UpdateDynamicAlarm", DeleteLast)
        /\ Is(DeleteLast, "DeleteItem", <<>>) /\ Is(DeleteInterval, "DeleteIntervalTimer", <<>>)
    BY DEF Is, Steps, IntervalItem, Item, RemoveTimer, RemoveFixed, FindRemove, RemoveDynamic,
       AlarmDelete, DeleteLast, DeleteInterval
  <1>3. /\ Is(AtLast, "AddUpdateAtTimer", <<>>) /\ Is(AtUnlock, "AddUpdateAtTimer", UnlockLast)
        /\ Is(UnlockLast, "Unlock", <<>>) /\ Is(IntervalToAt, "IntervalToAtTimer", AtUnlock)
        /\ Is(Multi, "AddUpdateAtTimer", FindLast) /\ Is(FindLast, "FindNextAtTimerItem", <<>>)
    BY DEF Is, Steps, AtLast, AtUnlock, UnlockLast, IntervalToAt, Multi, FindLast
  <1>4. /\ Is(TakeAt, "TakeUpdateAtItems", FindLast)
        /\ Is(TakeAtInterval, "TakeUpdateAtItems", FindInterval)
        /\ Is(FindInterval, "FindNextAtTimerItem", IntervalItem)
        /\ Is(UpdateAt, "UpdateTimerValue", FindLast)
        /\ Is(SetDynamic, "SetDynamicItem", AlarmItem) /\ Is(AlarmItem, "UpdateDynamicAlarm", Item)
    BY DEF Is, Steps, TakeAt, FindLast, TakeAtInterval, FindInterval, IntervalItem, UpdateAt,
       SetDynamic, AlarmItem, Item
  <1>5. /\ Is(Trigger, "OnDynamicTimeTrigger", AlarmLast)
        /\ Is(AlarmLast, "UpdateDynamicAlarm", <<>>)
        /\ Is(Changed, "HandleSystemTimeChanged", <<>>)
        /\ Is(ForgetFind, "ForgetWakeUpTime", FindLast)
    BY DEF Is, Steps, AlarmSteps, Trigger, AlarmLast, Changed, ForgetFind, FindLast
  <1> QED BY <1>1, <1>2, <1>3, <1>4, <1>5

\* All of them are sequences of steps with a first one.
Named == {Item, ItemAt, ItemUnlock, ItemAtUnlock, ItemMulti, ItemFind, IntervalItem, RemoveTimer,
          RemoveFixed, FindRemove, RemoveDynamic, AlarmDelete, DeleteLast, DeleteInterval, AtLast,
          AtUnlock, UnlockLast, IntervalToAt, Multi, FindLast, TakeAt, TakeAtInterval, FindInterval,
          UpdateAt, SetDynamic, AlarmItem, Trigger, AlarmLast, Changed, ForgetFind}

LEMMA NamedAreSteps == \A s \in Named : s \in Seq(Steps) /\ s # <<>>
  <1> DEFINE Good(s) == s \in Seq(Steps) /\ s # <<>>
  <1>1. ASSUME NEW s, NEW first, NEW rest, Is(s, first, rest) PROVE Good(s)
    BY <1>1 DEF Is
  <1> HIDE DEF Good
  <1>2. \A s \in Named : Good(s)
    BY <1>1, Scripts DEF Named
  <1> QED BY <1>2 DEF Good

LEMMA RestOf ==
    /\ Tail(Item) = <<>> /\ Tail(ItemAt) = AtLast /\ Tail(ItemUnlock) = UnlockLast
    /\ Tail(ItemAtUnlock) = AtUnlock /\ Tail(ItemMulti) = Multi /\ Tail(ItemFind) = FindLast
    /\ Tail(IntervalItem) = Item /\ Tail(RemoveTimer) = RemoveFixed
    /\ Tail(RemoveFixed) = FindRemove /\ Tail(FindRemove) = RemoveDynamic
    /\ Tail(RemoveDynamic) = AlarmDelete /\ Tail(AlarmDelete) = DeleteLast
    /\ Tail(DeleteLast) = <<>> /\ Tail(DeleteInterval) = <<>> /\ Tail(AtLast) = <<>>
    /\ Tail(AtUnlock) = UnlockLast /\ Tail(UnlockLast) = <<>> /\ Tail(IntervalToAt) = AtUnlock
    /\ Tail(Multi) = FindLast /\ Tail(FindLast) = <<>> /\ Tail(TakeAt) = FindLast
    /\ Tail(TakeAtInterval) = FindInterval /\ Tail(FindInterval) = IntervalItem
    /\ Tail(UpdateAt) = FindLast /\ Tail(SetDynamic) = AlarmItem /\ Tail(AlarmItem) = Item
    /\ Tail(Trigger) = AlarmLast /\ Tail(AlarmLast) = <<>> /\ Tail(Changed) = <<>>
    /\ Tail(ForgetFind) = FindLast
  BY Scripts DEF Is

LEMMA FirstOf ==
    /\ Head(Item) = "AddItem" /\ Head(ItemAt) = "AddItem" /\ Head(ItemUnlock) = "AddItem"
    /\ Head(ItemAtUnlock) = "AddItem" /\ Head(ItemMulti) = "AddItem"
    /\ Head(ItemFind) = "AddItem" /\ Head(IntervalItem) = "AddIntervalTimer"
    /\ Head(RemoveTimer) = "DeleteIntervalTimer" /\ Head(RemoveFixed) = "DeleteUpdateAtTimer"
    /\ Head(FindRemove) = "FindNextAtTimerItem" /\ Head(RemoveDynamic) = "DeleteDynamicItem"
    /\ Head(AlarmDelete) = "UpdateDynamicAlarm" /\ Head(DeleteLast) = "DeleteItem"
    /\ Head(DeleteInterval) = "DeleteIntervalTimer" /\ Head(AtLast) = "AddUpdateAtTimer"
    /\ Head(AtUnlock) = "AddUpdateAtTimer" /\ Head(UnlockLast) = "Unlock"
    /\ Head(IntervalToAt) = "IntervalToAtTimer" /\ Head(Multi) = "AddUpdateAtTimer"
    /\ Head(FindLast) = "FindNextAtTimerItem" /\ Head(TakeAt) = "TakeUpdateAtItems"
    /\ Head(TakeAtInterval) = "TakeUpdateAtItems" /\ Head(FindInterval) = "FindNextAtTimerItem"
    /\ Head(UpdateAt) = "UpdateTimerValue" /\ Head(SetDynamic) = "SetDynamicItem"
    /\ Head(AlarmItem) = "UpdateDynamicAlarm" /\ Head(Trigger) = "OnDynamicTimeTrigger"
    /\ Head(AlarmLast) = "UpdateDynamicAlarm" /\ Head(Changed) = "HandleSystemTimeChanged"
    /\ Head(ForgetFind) = "ForgetWakeUpTime"
  BY Scripts DEF Is

LEMMA HasOf ==
  \A x :
    /\ Has(Item, x) <=> x = "AddItem"
    /\ Has(ItemAt, x) <=> x = "AddItem" \/ Has(AtLast, x)
    /\ Has(ItemUnlock, x) <=> x = "AddItem" \/ Has(UnlockLast, x)
    /\ Has(ItemAtUnlock, x) <=> x = "AddItem" \/ Has(AtUnlock, x)
    /\ Has(ItemMulti, x) <=> x = "AddItem" \/ Has(Multi, x)
    /\ Has(ItemFind, x) <=> x = "AddItem" \/ Has(FindLast, x)
    /\ Has(IntervalItem, x) <=> x = "AddIntervalTimer" \/ Has(Item, x)
    /\ Has(RemoveTimer, x) <=> x = "DeleteIntervalTimer" \/ Has(RemoveFixed, x)
    /\ Has(RemoveFixed, x) <=> x = "DeleteUpdateAtTimer" \/ Has(FindRemove, x)
    /\ Has(FindRemove, x) <=> x = "FindNextAtTimerItem" \/ Has(RemoveDynamic, x)
    /\ Has(RemoveDynamic, x) <=> x = "DeleteDynamicItem" \/ Has(AlarmDelete, x)
    /\ Has(AlarmDelete, x) <=> x = "UpdateDynamicAlarm" \/ Has(DeleteLast, x)
    /\ Has(DeleteLast, x) <=> x = "DeleteItem"
    /\ Has(DeleteInterval, x) <=> x = "DeleteIntervalTimer"
    /\ Has(AtLast, x) <=> x = "AddUpdateAtTimer"
    /\ Has(AtUnlock, x) <=> x = "AddUpdateAtTimer" \/ Has(UnlockLast, x)
    /\ Has(UnlockLast, x) <=> x = "Unlock"
    /\ Has(IntervalToAt, x) <=> x = "IntervalToAtTimer" \/ Has(AtUnlock, x)
    /\ Has(Multi, x) <=> x = "AddUpdateAtTimer" \/ Has(FindLast, x)
    /\ Has(FindLast, x) <=> x = "FindNextAtTimerItem"
    /\ Has(TakeAt, x) <=> x = "TakeUpdateAtItems" \/ Has(FindLast, x)
    /\ Has(TakeAtInterval, x) <=> x = "TakeUpdateAtItems" \/ Has(FindInterval, x)
    /\ Has(FindInterval, x) <=> x = "FindNextAtTimerItem" \/ Has(IntervalItem, x)
    /\ Has(UpdateAt, x) <=> x = "UpdateTimerValue" \/ Has(FindLast, x)
    /\ Has(SetDynamic, x) <=> x = "SetDynamicItem" \/ Has(AlarmItem, x)
    /\ Has(AlarmItem, x) <=> x = "UpdateDynamicAlarm" \/ Has(Item, x)
    /\ Has(Trigger, x) <=> x = "OnDynamicTimeTrigger" \/ Has(AlarmLast, x)
    /\ Has(AlarmLast, x) <=> x = "UpdateDynamicAlarm"
    /\ Has(Changed, x) <=> x = "HandleSystemTimeChanged"
    /\ Has(ForgetFind, x) <=> x = "ForgetWakeUpTime" \/ Has(FindLast, x)
  <1>1. ASSUME NEW s, NEW a, NEW r, NEW x, Is(s, a, r)
        PROVE  Has(s, x) <=> x = a \/ Has(r, x)
    BY <1>1, HasCons DEF Is
  <1> QED BY <1>1, Scripts, HasNone

\* The scripts by their first step.
LEMMA ScriptsByHead ==
    ASSUME NEW s \in Seq(Steps), Legal(s), s # <<>>
    PROVE  /\ Head(s) \in Steps /\ Tail(s) \in Seq(Steps)
           /\ Head(s) = "AddIntervalTimer" => s = IntervalItem
           /\ Head(s) = "DeleteIntervalTimer" => s \in {RemoveTimer, DeleteInterval}
           /\ Head(s) = "IntervalToAtTimer" => s = IntervalToAt
           /\ Head(s) = "Unlock" => s = UnlockLast
           /\ Head(s) = "DeleteItem" => s = DeleteLast
           /\ Head(s) = "AddItem" =>
                s \in {Item, ItemAt, ItemUnlock, ItemAtUnlock, ItemMulti, ItemFind}
           /\ Head(s) = "AddUpdateAtTimer" => s \in {AtLast, AtUnlock, Multi}
           /\ Head(s) = "DeleteUpdateAtTimer" => s = RemoveFixed
           /\ Head(s) = "UpdateTimerValue" => s = UpdateAt
           /\ Head(s) = "TakeUpdateAtItems" => s \in {TakeAt, TakeAtInterval}
           /\ Head(s) \in {"FindNextAtTimerItem", "CompareWakeUpTime", "StartUpdateAtTimer",
                           "RecheckEmpty"} => Tail(s) \in Tails
           /\ Head(s) = "ForgetWakeUpTime" => Tail(s) \in Tails \/ s = ForgetFind
           /\ Head(s) = "ClearUpdateAtTimerResource" => Clearing(s)
           /\ Head(s) = "HandleSystemTimeChanged" => s = Changed
           /\ Head(s) = "SetDynamicItem" => s = SetDynamic
           /\ Head(s) = "DeleteDynamicItem" => s = RemoveDynamic
           /\ Head(s) = "OnDynamicTimeTrigger" => s = Trigger
           /\ Head(s) = "UpdateDynamicAlarm" => s \in {AlarmLast, AlarmDelete, AlarmItem}
  <1>1. Head(s) \in Steps /\ Tail(s) \in Seq(Steps)
    OBVIOUS
  <1>2. CASE s \in Plain
    <2>1. CASE s \in Tails
      BY <1>1, <2>1, FirstOf DEF Tails
    <2>2. CASE s \in {RemoveFixed, RemoveTimer, AlarmDelete, DeleteLast, DeleteInterval, AtLast,
                      AtUnlock, UnlockLast, IntervalToAt, Multi}
      BY <1>1, <2>2, FirstOf
    <2>3. CASE s \in {TakeAt, TakeAtInterval, UpdateAt, SetDynamic,
                      AlarmItem, Trigger, AlarmLast, Changed, ForgetFind}
      BY <1>1, <2>3, FirstOf
    <2> QED BY <1>2, <2>1, <2>2, <2>3 DEF Plain
  <1>3. CASE Updating(s)
    BY <1>1, <1>3 DEF Updating, AlarmHeads
  <1>4. CASE Clearing(s)
    BY <1>1, <1>4 DEF Clearing
  <1> QED BY <1>2, <1>3, <1>4 DEF Legal

LEMMA PlainRests ==
    ASSUME NEW s \in Plain, s # <<>>
    PROVE  Tail(s) \in {<<>>, AtLast, UnlockLast, AtUnlock, Multi, FindLast, Item, RemoveFixed,
                       FindRemove, AlarmDelete, DeleteLast, FindInterval, AlarmItem, AlarmLast}
  <1>1. CASE s \in Tails
    BY <1>1, RestOf DEF Tails
  <1>2. CASE s \in {RemoveFixed, RemoveTimer, AlarmDelete, DeleteLast, DeleteInterval, AtLast,
                    AtUnlock, UnlockLast, IntervalToAt, Multi}
    BY <1>2, RestOf
  <1>3. CASE s \in {TakeAt, TakeAtInterval, UpdateAt, SetDynamic,
                    AlarmItem, Trigger, AlarmLast, Changed, ForgetFind}
    BY <1>3, RestOf
  <1> QED BY <1>1, <1>2, <1>3 DEF Plain

\* What is left after the first step.
LEMMA RestIsLegal ==
    ASSUME NEW s \in Seq(Steps), Legal(s), s # <<>>
    PROVE  /\ Legal(Tail(s))
           /\ Tail(s) = <<>> \/ Head(Tail(s)) \notin {"SetDynamicItem", "CompareWakeUpTime",
                                    "StartUpdateAtTimer", "IntervalToAtTimer"}
           /\ Clearing(s) => Updating(Tail(s)) /\ Head(Tail(s)) = "ForgetWakeUpTime"
  <1>1. CASE Updating(s)
    <2>1. Tail(s) \in Tails
      BY <1>1 DEF Updating
    <2>2. Tail(s) = <<>> \/ Head(Tail(s)) \in {"AddItem", "AddIntervalTimer", "DeleteDynamicItem"}
      BY <2>1, FirstOf DEF Tails
    <2> QED BY <1>1, <2>1, <2>2 DEF Legal, Plain, Updating, AlarmHeads, Clearing
  <1>2. CASE Clearing(s)
    BY <1>2 DEF Clearing, Updating, AlarmHeads, Legal
  <1>3. CASE s \in Plain /\ ~Clearing(s)
    <2>1. Tail(s) \in {<<>>, AtLast, UnlockLast, AtUnlock, Multi, FindLast, Item, RemoveFixed,
                      FindRemove, AlarmDelete, DeleteLast, FindInterval, AlarmItem, AlarmLast}
      BY <1>3, PlainRests
    <2>2. Updating(FindLast) /\ Updating(FindRemove) /\ Updating(FindInterval)
      <3>1. {FindLast, FindRemove, FindInterval} \subseteq Named
        BY DEF Named
      <3>2. FindLast # <<>> /\ FindRemove # <<>> /\ FindInterval # <<>>
        BY <3>1, NamedAreSteps
      <3>3. Tail(FindLast) = <<>> /\ Tail(FindRemove) = RemoveDynamic
            /\ Tail(FindInterval) = IntervalItem
        BY RestOf
      <3> QED BY <3>2, <3>3, FirstOf DEF Updating, AlarmHeads, Tails
    <2>3. Tail(s) = <<>> \/ Head(Tail(s)) \notin {"SetDynamicItem", "CompareWakeUpTime",
                                    "StartUpdateAtTimer", "IntervalToAtTimer"}
      BY <2>1, FirstOf
    <2>4. Tail(s) \in Plain \cup {FindLast, FindRemove, FindInterval}
      BY <2>1 DEF Plain, Tails
    <2> QED BY <1>3, <2>2, <2>3, <2>4 DEF Legal
  <1> QED BY <1>1, <1>2, <1>3 DEF Legal

LEMMA TailsAreShort ==
    \A s \in Tails : /\ s = <<>> \/ Head(s) \in {"AddItem", "AddIntervalTimer", "DeleteDynamicItem"}
                     /\ ~Updating(s) /\ ~Clearing(s) /\ s \notin {AtUnlock, UnlockLast}
  <1>1. \A s \in Tails : s = <<>> \/ Head(s) \in {"AddItem", "AddIntervalTimer", "DeleteDynamicItem"}
    BY FirstOf DEF Tails
  <1>2. AtUnlock # <<>> /\ UnlockLast # <<>>
    BY DEF AtUnlock, UnlockLast
  <1> QED BY <1>1, <1>2, FirstOf DEF Updating, Clearing, AlarmHeads

LEMMA PlainHolds ==
    ASSUME NEW s \in Plain
    PROVE  Holds(s) <=> s \in {ItemUnlock, ItemAtUnlock, AtUnlock, UnlockLast}
  <1>1. ~Clearing(s)
    BY FirstOf DEF Plain, Tails, Clearing
  <1>2. Head(s) \in AlarmHeads /\ s # <<>> => s = ForgetFind
    BY FirstOf DEF Plain, Tails, AlarmHeads
  <1>3. Tail(ForgetFind) = FindLast /\ FindLast # <<>> /\ Head(FindLast) = "FindNextAtTimerItem"
    BY RestOf, FirstOf DEF FindLast
  <1>4. ~Updating(s)
    BY <1>2, <1>3, TailsAreShort DEF Updating
  <1> QED BY <1>1, <1>4 DEF Holds, Keeping

\* The rests that are short of Unlock.
LEMMA RestHolds ==
    /\ {AtUnlock, UnlockLast} \cap
          {<<>>, AtLast, Multi, FindLast, Item, RemoveFixed, FindRemove, AlarmDelete, DeleteLast,
           FindInterval, AlarmItem, AlarmLast} = {}
    /\ \A s \in {<<>>, AtLast, UnlockLast, AtUnlock, Multi, FindLast, Item, RemoveFixed,
                 FindRemove, AlarmDelete, DeleteLast, FindInterval, AlarmItem, AlarmLast} :
          Holds(s) <=> s \in {AtUnlock, UnlockLast}
  <1>1. /\ <<>> \notin {AtUnlock, UnlockLast, ItemUnlock, ItemAtUnlock}
        /\ UnlockLast # AtLast /\ AtUnlock # AtLast /\ AtUnlock # Multi
    <2>1. /\ <<>> # AtUnlock /\ <<>> # UnlockLast /\ <<>> # ItemUnlock /\ <<>> # ItemAtUnlock
      BY DEF AtUnlock, UnlockLast, ItemUnlock, ItemAtUnlock
    <2>2. UnlockLast # AtLast
      BY RestOf, FirstOf
    <2>3. AtUnlock # AtLast
      <3>1. Tail(AtUnlock) = UnlockLast /\ Tail(AtLast) = <<>>
        BY RestOf
      <3> QED BY <2>1, <3>1
    <2>4. AtUnlock # Multi
      <3>1. Tail(AtUnlock) = UnlockLast /\ Tail(Multi) = FindLast /\ UnlockLast # FindLast
        BY RestOf, FirstOf
      <3> QED BY <3>1
    <2> QED BY <2>1, <2>2, <2>3, <2>4
  <1>2. {AtUnlock, UnlockLast} \cap
          {<<>>, AtLast, Multi, FindLast, Item, RemoveFixed, FindRemove, AlarmDelete, DeleteLast,
           FindInterval, AlarmItem, AlarmLast} = {}
    BY <1>1, FirstOf
  <1>3. Item \notin {ItemUnlock, ItemAtUnlock}
    BY <1>1, RestOf
  <1>4. ASSUME NEW s \in {FindLast, FindRemove, FindInterval}
        PROVE  ~Holds(s)
    <2>1. Head(s) = "FindNextAtTimerItem" /\ Tail(s) \in {<<>>, RemoveDynamic, IntervalItem}
      <3>1. /\ Head(FindLast) = "FindNextAtTimerItem" /\ Head(FindRemove) = "FindNextAtTimerItem"
            /\ Head(FindInterval) = "FindNextAtTimerItem"
        BY FirstOf
      <3>2. /\ Tail(FindLast) = <<>> /\ Tail(FindRemove) = RemoveDynamic
            /\ Tail(FindInterval) = IntervalItem
        BY RestOf
      <3> QED BY <3>1, <3>2
    <2>2. {<<>>, RemoveDynamic, IntervalItem} \cap {ItemUnlock, ItemAtUnlock} = {}
      BY <1>1, FirstOf
    <2>3. s \notin {ItemUnlock, ItemAtUnlock, AtUnlock, UnlockLast}
      BY <2>1, FirstOf
    <2> QED BY <2>1, <2>2, <2>3 DEF Holds, Keeping, Clearing
  <1>5. ASSUME NEW s \in {<<>>, AtLast, UnlockLast, AtUnlock, Multi, Item, RemoveFixed,
                          AlarmDelete, DeleteLast, AlarmItem, AlarmLast}
        PROVE  Holds(s) <=> s \in {AtUnlock, UnlockLast}
    <2>1. s \in Plain
      BY DEF Plain, Tails
    <2>2. s \notin {ItemUnlock, ItemAtUnlock}
      <3>1. CASE s \in {<<>>, Item}
        BY <1>1, <1>3, <3>1
      <3>2. CASE s \notin {<<>>, Item}
        BY <3>2, FirstOf
      <3> QED BY <3>1, <3>2
    <2> QED BY <2>1, <2>2, PlainHolds
  <1>6. {FindLast, FindRemove, FindInterval} \cap {AtUnlock, UnlockLast} = {}
    BY FirstOf
  <1> QED BY <1>2, <1>4, <1>5, <1>6

\* The lock is kept from IntervalToAtTimer to Unlock.
LEMMA HoldsRest ==
    ASSUME NEW s \in Seq(Steps), Legal(s), s # <<>>
    PROVE  /\ Head(s) \notin {"IntervalToAtTimer", "Unlock"} => (Holds(s) <=> Holds(Tail(s)))
           /\ Head(s) = "IntervalToAtTimer" => ~Holds(s) /\ Holds(Tail(s))
           /\ Head(s) = "Unlock" => Holds(s) /\ ~Holds(Tail(s)) /\ Tail(s) = <<>>
  <1>1. CASE Updating(s)
    <2>1. Holds(s) <=> Tail(s) \in Keeping
      BY <1>1, FirstOf DEF Holds, Updating, Clearing, AlarmHeads, Keeping
    <2>2. Tail(s) \in Tails
      BY <1>1 DEF Updating
    <2>3. Holds(Tail(s)) <=> Tail(s) \in Keeping
      BY <2>2, TailsAreShort DEF Holds
    <2> QED BY <1>1, <2>1, <2>3 DEF Updating, AlarmHeads
  <1>2. CASE Clearing(s)
    <2>1. Holds(s) <=> Tail(Tail(s)) \in Keeping
      BY <1>2, FirstOf DEF Holds, Updating, Clearing, AlarmHeads, Keeping
    <2>2. Holds(Tail(s)) <=> Tail(Tail(s)) \in Keeping
      BY <1>2, FirstOf DEF Holds, Updating, Clearing, AlarmHeads, Keeping
    <2> QED BY <1>2, <2>1, <2>2 DEF Clearing
  <1>3. CASE s \in Plain
    <2>1. Holds(s) <=> s \in {ItemUnlock, ItemAtUnlock, AtUnlock, UnlockLast}
      BY <1>3, PlainHolds
    <2>2. Holds(Tail(s)) <=> Tail(s) \in {AtUnlock, UnlockLast}
      BY <1>3, PlainRests, RestHolds
    <2>3. Tail(s) \in {AtUnlock, UnlockLast} => s \in {ItemUnlock, ItemAtUnlock, AtUnlock, IntervalToAt}
      <3>4. {AtUnlock, UnlockLast} \cap
               {<<>>, AtLast, Multi, FindLast, Item, RemoveFixed, FindRemove, AlarmDelete, DeleteLast,
                FindInterval, AlarmItem, AlarmLast} = {}
        BY RestHolds
      <3>1. CASE s \in Tails
        BY <3>1, <3>4, RestOf DEF Tails
      <3>2. CASE s \in {RemoveFixed, RemoveTimer, AlarmDelete, DeleteLast, DeleteInterval, AtLast,
                        AtUnlock, UnlockLast, IntervalToAt, Multi}
        BY <3>2, <3>4, RestOf
      <3>3. CASE s \in {TakeAt, TakeAtInterval, UpdateAt, SetDynamic,
                        AlarmItem, Trigger, AlarmLast, Changed, ForgetFind}
        BY <3>3, <3>4, RestOf
      <3> QED BY <1>3, <3>1, <3>2, <3>3 DEF Plain
    <2>4. /\ Tail(ItemUnlock) = UnlockLast /\ Tail(ItemAtUnlock) = AtUnlock
          /\ Tail(AtUnlock) = UnlockLast /\ Tail(UnlockLast) = <<>> /\ Tail(IntervalToAt) = AtUnlock
          /\ Head(ItemUnlock) = "AddItem" /\ Head(ItemAtUnlock) = "AddItem"
          /\ Head(AtUnlock) = "AddUpdateAtTimer" /\ Head(UnlockLast) = "Unlock"
          /\ Head(IntervalToAt) = "IntervalToAtTimer"
          /\ AtUnlock # <<>> /\ UnlockLast # <<>>
      <3>1. /\ Tail(ItemUnlock) = UnlockLast /\ Tail(ItemAtUnlock) = AtUnlock
            /\ Tail(AtUnlock) = UnlockLast /\ Tail(UnlockLast) = <<>>
            /\ Tail(IntervalToAt) = AtUnlock
        BY RestOf
      <3>2. /\ Head(ItemUnlock) = "AddItem" /\ Head(ItemAtUnlock) = "AddItem"
            /\ Head(AtUnlock) = "AddUpdateAtTimer" /\ Head(UnlockLast) = "Unlock"
            /\ Head(IntervalToAt) = "IntervalToAtTimer"
        BY FirstOf
      <3>3. AtUnlock # <<>> /\ UnlockLast # <<>>
        BY RestHolds
      <3> QED BY <3>1, <3>2, <3>3
    <2>5. /\ Head(s) = "IntervalToAtTimer" => s = IntervalToAt
          /\ Head(s) = "Unlock" => s = UnlockLast
      BY ScriptsByHead
    <2> QED BY <2>1, <2>2, <2>3, <2>4, <2>5
  <1> QED BY <1>1, <1>2, <1>3 DEF Legal

LEMMA ConsOf ==
    ASSUME NEW S, NEW q \in Seq(S), q # <<>>
    PROVE  <<Head(q)>> \o Tail(q) = q
  <1>1. /\ <<Head(q)>> \o Tail(q) \in Seq(S) /\ Len(<<Head(q)>> \o Tail(q)) = Len(q)
        /\ \A i \in 1 .. Len(q) : (<<Head(q)>> \o Tail(q))[i] = q[i]
    OBVIOUS
  <1> QED BY <1>1

LEMMA PairCons ==
    ASSUME NEW S, NEW a \in S, NEW b \in S, NEW r \in Seq(S)
    PROVE  <<a, b>> \o r = <<a>> \o (<<b>> \o r)
  <1> DEFINE c == <<a, b>> \o r
             d == <<a>> \o (<<b>> \o r)
  <1>1. c \in Seq(S) /\ d \in Seq(S) /\ Len(c) = Len(r) + 2 /\ Len(d) = Len(r) + 2
    OBVIOUS
  <1>2. \A i \in 1 .. Len(r) + 2 : c[i] = d[i]
    OBVIOUS
  <1> HIDE DEF c, d
  <1>3. c = d
    BY <1>1, <1>2
  <1> QED BY <1>3 DEF c, d

LEMMA UnlockIsLast ==
    ASSUME NEW s \in Seq(Steps), Legal(s), Holds(s)
    PROVE  s # <<>> /\ Last(s) = "Unlock"
  <1>1. ASSUME NEW r \in Seq(Steps), r # <<>>, Tail(r) # <<>>
        PROVE  Last(r) = Last(Tail(r))
    BY <1>1 DEF Last
  <1>2. /\ \A r \in {UnlockLast, AtUnlock, ItemUnlock, ItemAtUnlock} :
              r \in Seq(Steps) /\ r # <<>>
        /\ Last(UnlockLast) = "Unlock"
    BY Scripts DEF Is, Last, UnlockLast
  <1>3. \A r \in {UnlockLast, AtUnlock, ItemUnlock, ItemAtUnlock} : r # <<>> /\ Last(r) = "Unlock"
    BY <1>1, <1>2, RestOf
  <1>4. CASE s \in {UnlockLast, AtUnlock, ItemUnlock, ItemAtUnlock}
    BY <1>3, <1>4
  <1>5. CASE Updating(s) /\ Tail(s) \in Keeping
    <2>1. s # <<>> /\ Tail(s) \in {ItemUnlock, ItemAtUnlock}
      BY <1>5 DEF Updating, Keeping
    <2> QED BY <1>1, <1>3, <2>1
  <1>6. CASE Clearing(s) /\ Tail(Tail(s)) \in Keeping
    <2>1. s # <<>> /\ Tail(s) # <<>> /\ Tail(Tail(s)) \in {ItemUnlock, ItemAtUnlock}
      BY <1>6 DEF Clearing, Keeping
    <2>2. Tail(s) \in Seq(Steps)
      BY <2>1
    <2> QED BY <1>1, <1>3, <2>1, <2>2
  <1> QED BY <1>4, <1>5, <1>6 DEF Holds, Keeping

\* The alarm's update goes on with another step.
LEMMA UpdateGoesOn ==
    ASSUME NEW s \in Seq(Steps), Legal(s), s # <<>>,
           Head(s) \in {"FindNextAtTimerItem", "CompareWakeUpTime", "RecheckEmpty"},
           NEW y \in AlarmHeads
    PROVE  LET c == <<y>> \o Tail(s) IN
           /\ c \in Seq(Steps) /\ Updating(c) /\ c # <<>> /\ Head(c) = y /\ Tail(c) = Tail(s)
           /\ Legal(c) /\ (Holds(c) <=> Holds(s))
           /\ \A x : Has(c, x) <=> x = y \/ Has(Tail(s), x)
  <1> DEFINE c == <<y>> \o Tail(s)
  <1>1. Tail(s) \in Tails /\ Tail(s) \in Seq(Steps)
    BY ScriptsByHead
  <1>2. y \in Steps
    BY StepNames
  <1>3. c \in Seq(Steps) /\ c # <<>> /\ Head(c) = y /\ Tail(c) = Tail(s)
    BY <1>1, <1>2, ConsFacts
  <1> HIDE DEF c
  <1>4. Updating(c) /\ Legal(c)
    BY <1>1, <1>3 DEF Updating, Legal
  <1>5. Holds(c) <=> Holds(s)
    BY <1>3, <1>4, HoldsRest DEF AlarmHeads
  <1>6. \A x : Has(c, x) <=> x = y \/ Has(Tail(s), x)
    BY <1>3, HasCons
  <1> QED BY <1>3, <1>4, <1>5, <1>6 DEF c

LEMMA ClearGoesOn ==
    ASSUME NEW s \in Seq(Steps), Legal(s), s # <<>>, Head(s) = "RecheckEmpty"
    PROVE  LET c == <<"ClearUpdateAtTimerResource", "ForgetWakeUpTime">> \o Tail(s) IN
           /\ c \in Seq(Steps) /\ Clearing(c) /\ c # <<>> /\ Head(c) = "ClearUpdateAtTimerResource"
           /\ Tail(c) \in Seq(Steps) /\ Tail(c) # <<>> /\ Head(Tail(c)) = "ForgetWakeUpTime"
           /\ Tail(Tail(c)) = Tail(s)
           /\ Legal(c) /\ (Holds(c) <=> Holds(s))
           /\ \A x : Has(c, x) <=> \/ x \in {"ClearUpdateAtTimerResource", "ForgetWakeUpTime"}
                                   \/ Has(Tail(s), x)
  <1> DEFINE c == <<"ClearUpdateAtTimerResource", "ForgetWakeUpTime">> \o Tail(s)
             b == <<"ForgetWakeUpTime">> \o Tail(s)
  <1>1. Tail(s) \in Tails /\ Tail(s) \in Seq(Steps)
    BY ScriptsByHead
  <1>2. {"ClearUpdateAtTimerResource", "ForgetWakeUpTime"} \subseteq Steps
    BY StepNames DEF AlarmSteps
  <1>3. b \in Seq(Steps) /\ b # <<>> /\ Head(b) = "ForgetWakeUpTime" /\ Tail(b) = Tail(s)
    BY <1>1, <1>2, ConsFacts
  <1>4. c = <<"ClearUpdateAtTimerResource">> \o b
    BY <1>1, <1>2, PairCons
  <1> HIDE DEF c, b
  <1>5. /\ c \in Seq(Steps) /\ c # <<>> /\ Head(c) = "ClearUpdateAtTimerResource"
        /\ Tail(c) = b
    BY <1>2, <1>3, <1>4, ConsFacts
  <1>6. Clearing(c) /\ Legal(c) /\ Legal(b)
    BY <1>1, <1>3, <1>5 DEF Clearing, Legal, Updating, AlarmHeads
  <1>7. Holds(c) <=> Holds(s)
    BY <1>3, <1>5, <1>6, HoldsRest
  <1>8. \A x : Has(c, x) <=> \/ x \in {"ClearUpdateAtTimerResource", "ForgetWakeUpTime"}
                              \/ Has(Tail(s), x)
    BY <1>3, <1>5, HasCons
  <1> QED BY <1>1, <1>3, <1>5, <1>6, <1>7, <1>8 DEF c

\* What DeleteIntervalTimer skips.
LEMMA SkipFacts == /\ SubSeq(Tail(RemoveTimer), 3, Len(Tail(RemoveTimer))) = RemoveDynamic
                   /\ SubSeq(Tail(DeleteInterval), 3, Len(Tail(DeleteInterval))) = <<>>
  <1>1. Tail(RemoveTimer) = RemoveFixed /\ Tail(DeleteInterval) = <<>>
    BY RestOf
  <1>2. SubSeq(RemoveFixed, 3, Len(RemoveFixed)) = RemoveDynamic
    <2>1. /\ RemoveFixed \in Seq(Steps) /\ RemoveDynamic \in Seq(Steps)
          /\ Len(RemoveFixed) = 5 /\ Len(RemoveDynamic) = 3
          /\ \A i \in 1 .. 3 : RemoveFixed[i + 2] = RemoveDynamic[i]
      BY Scripts DEF Is, RemoveFixed, RemoveDynamic
    <2> DEFINE d == SubSeq(RemoveFixed, 3, 5)
    <2>2. d \in Seq(Steps) /\ Len(d) = 3 /\ \A i \in 1 .. 3 : d[i] = RemoveFixed[i + 2]
      BY <2>1
    <2> HIDE DEF d
    <2>3. d = RemoveDynamic
      BY <2>1, <2>2
    <2> QED BY <2>1, <2>3 DEF d
  <1>3. SubSeq(<<>>, 3, Len(<<>>)) = <<>>
    OBVIOUS
  <1> QED BY <1>1, <1>2, <1>3

\* An item that is added: its alarm, if the task needs it, and its entry in the limiter
\* come first.
LEMMA AtGoesOn ==
    ASSUME NEW r \in {<<>>, AtLast, UnlockLast, AtUnlock, FindLast, Multi}, NEW need \in BOOLEAN
    PROVE  LET c == ((IF need THEN <<"FindNextAtTimerItem">> ELSE <<>>) \o <<"AddItem">>) \o r IN
           /\ c \in Seq(Steps) /\ c # <<>> /\ Legal(c) /\ (Holds(c) <=> Holds(r))
           /\ Head(c) \in {"FindNextAtTimerItem", "AddItem"}
           /\ need => Has(c, "FindNextAtTimerItem")
           /\ \A x : Has(c, x) => x \in {"FindNextAtTimerItem", "AddItem"} \/ Has(r, x)
           /\ \A x : Has(r, x) => Has(c, x)
  <1> DEFINE b == <<"AddItem">> \o r
             d == <<"FindNextAtTimerItem", "AddItem">> \o r
             c == ((IF need THEN <<"FindNextAtTimerItem">> ELSE <<>>) \o <<"AddItem">>) \o r
  <1>1. r \in Seq(Steps) /\ {"FindNextAtTimerItem", "AddItem"} \subseteq Steps
    <2>1. {"FindNextAtTimerItem", "AddItem"} \subseteq Steps
      BY DEF Steps
    <2>2. {<<>>, AtLast, UnlockLast, AtUnlock, FindLast, Multi} \subseteq Seq(Steps)
      <3>1. {AtLast, UnlockLast, AtUnlock, FindLast, Multi} \subseteq Named
        BY DEF Named
      <3> QED BY <3>1, NamedAreSteps
    <2> QED BY <2>1, <2>2
  <1>2. b \in {Item, ItemAt, ItemUnlock, ItemAtUnlock, ItemFind, ItemMulti}
    <2>1. \A q \in {Item, ItemAt, ItemUnlock, ItemAtUnlock, ItemFind, ItemMulti} :
             <<Head(q)>> \o Tail(q) = q
      <3>1. {Item, ItemAt, ItemUnlock, ItemAtUnlock, ItemFind, ItemMulti} \subseteq Named
        BY DEF Named
      <3> QED BY <3>1, NamedAreSteps, ConsOf
    <2>2. /\ Head(Item) = "AddItem" /\ Head(ItemAt) = "AddItem" /\ Head(ItemUnlock) = "AddItem"
          /\ Head(ItemAtUnlock) = "AddItem" /\ Head(ItemFind) = "AddItem"
          /\ Head(ItemMulti) = "AddItem"
      BY FirstOf
    <2>3. /\ Tail(Item) = <<>> /\ Tail(ItemAt) = AtLast /\ Tail(ItemUnlock) = UnlockLast
          /\ Tail(ItemAtUnlock) = AtUnlock /\ Tail(ItemFind) = FindLast
          /\ Tail(ItemMulti) = Multi
      BY RestOf
    <2>4. /\ <<"AddItem">> \o <<>> = Item /\ <<"AddItem">> \o AtLast = ItemAt
          /\ <<"AddItem">> \o UnlockLast = ItemUnlock /\ <<"AddItem">> \o AtUnlock = ItemAtUnlock
          /\ <<"AddItem">> \o FindLast = ItemFind /\ <<"AddItem">> \o Multi = ItemMulti
      BY <2>1, <2>2, <2>3
    <2> QED BY <2>4
  <1>3. b \in Seq(Steps) /\ b # <<>> /\ Head(b) = "AddItem" /\ Tail(b) = r
    BY <1>1, ConsFacts
  <1>13. d = <<"FindNextAtTimerItem">> \o b
    BY <1>1, PairCons
  <1>4. c = IF need THEN d ELSE b
    <2> DEFINE q == <<"FindNextAtTimerItem", "AddItem">>
    <2>1. q \in Seq(Steps) /\ q # <<>> /\ <<"AddItem">> \in Seq(Steps)
      BY <1>1
    <2>2. Head(q) = "FindNextAtTimerItem" /\ Tail(q) = <<"AddItem">>
      BY <1>1
    <2>3. <<Head(q)>> \o Tail(q) = q
      <3> HIDE DEF q
      <3> QED BY <2>1, ConsOf
    <2>4. <<>> \o <<"AddItem">> = <<"AddItem">>
      BY <2>1
    <2> QED BY <2>2, <2>3, <2>4
  <1> HIDE DEF b, d
  <1>5. b \in Tails
    BY <1>2 DEF Tails
  <1>6. Legal(b)
    BY <1>5 DEF Legal, Plain
  <1>7. /\ d \in Seq(Steps) /\ d # <<>> /\ Head(d) = "FindNextAtTimerItem" /\ Tail(d) = b
    <2>1. "FindNextAtTimerItem" \in Steps /\ b \in Seq(Steps)
      BY <1>1, <1>3
    <2> QED BY <1>13, <2>1, ConsFacts
  <1>8. Legal(d)
    BY <1>5, <1>7 DEF Legal, Updating, AlarmHeads
  <1>9. (Holds(b) <=> Holds(r)) /\ (Holds(d) <=> Holds(r))
    BY <1>3, <1>6, <1>7, <1>8, HoldsRest
  <1>10. \A x : /\ Has(b, x) <=> x = "AddItem" \/ Has(r, x)
                /\ Has(d, x) <=> x \in {"FindNextAtTimerItem", "AddItem"} \/ Has(r, x)
    <2>1. \A x : Has(b, x) <=> x = "AddItem" \/ Has(r, x)
      BY <1>3, HasCons
    <2>2. \A x : Has(d, x) <=> x = "FindNextAtTimerItem" \/ Has(b, x)
      BY <1>7, HasCons
    <2> QED BY <2>1, <2>2
  <1> DEFINE Good(q) == /\ q \in Seq(Steps) /\ q # <<>> /\ Legal(q) /\ (Holds(q) <=> Holds(r))
                        /\ Head(q) \in {"FindNextAtTimerItem", "AddItem"}
                        /\ need => Has(q, "FindNextAtTimerItem")
                        /\ \A x : Has(q, x) => x \in {"FindNextAtTimerItem", "AddItem"} \/ Has(r, x)
                        /\ \A x : Has(r, x) => Has(q, x)
  <1>11. Good(d)
    BY <1>7, <1>8, <1>9, <1>10
  <1>12. ~need => Good(b)
    BY <1>3, <1>6, <1>9, <1>10
  <1>14. Good(c)
    <2> HIDE DEF Good, c
    <2> QED BY <1>4, <1>11, <1>12
  <1> QED BY <1>14

--------------------------------------------------------------------------------
(* Times.                                                                  *)

LEMMA ModFacts ==
    ASSUME NEW n \in Nat \ {0}, NEW x \in Int
    PROVE  \E m \in 0 .. (n - 1) : m = x % n /\ \E q \in Int : x = n * q + m
  <1>1. x % n \in 0 .. (n - 1)
    OBVIOUS
  <1>2. x \div n \in Int /\ x % n = x - n * (x \div n)
    OBVIOUS
  <1>3. \A p, m \in Int : m = x - p => x = p + m
    OBVIOUS
  <1>4. n * (x \div n) \in Int
    BY <1>2
  <1> DEFINE m == x % n
             d == x \div n
  <1>5. x = n * d + m
    <2> DEFINE p == n * d
    <2>1. m \in Int /\ p \in Int /\ m = x - p
      BY <1>1, <1>2, <1>4
    <2> HIDE DEF m, p
    <2> QED BY <1>3, <2>1 DEF p
  <1> HIDE DEF d, m
  <1>6. d \in Int
    BY <1>2 DEF d
  <1>7. \E q \in Int : x = n * q + m
    BY <1>5, <1>6
  <1>8. m = x % n /\ m \in 0 .. (n - 1)
    BY <1>1 DEF m
  <1> QED BY <1>7, <1>8

LEMMA ModOfSum ==
    ASSUME NEW n \in Nat \ {0}, NEW q \in Int, NEW r \in 0 .. (n - 1)
    PROVE  (n * q + r) % n = r
  OBVIOUS

LEMMA NextMultiple ==
    ASSUME NEW n \in Int, NEW q \in Int
    PROVE  n * (q + 1) = n * q + n /\ n * q \in Int
  OBVIOUS

\* The next time of the day a is within a day, and it is a then.
LEMMA NextOf ==
    ASSUME NEW n0 \in 0 .. MaxTime, NEW s0 \in 0 .. (Day - 1), NEW a \in Times
    PROVE  LET z == n0 + (((a - ((n0 + s0) % Day)) - 1) % Day) + 1 IN
           /\ z \in Int /\ z > n0 /\ z <= n0 + Day /\ z \in Moments
           /\ (z + s0) % Day = a
  <1>1. Day \in Nat \ {0} /\ MaxTime \in Nat /\ a \in 0 .. (Day - 1)
    BY TimersAssumption
  <1>2. PICK n \in Nat \ {0} : n = Day
    BY <1>1
  <1>3. PICK y \in Int : y = n0 /\ y \in 0 .. MaxTime
    BY <1>1
  <1>4. PICK s \in Int : s = s0 /\ s \in 0 .. (n - 1)
    BY <1>1, <1>2
  <1>5. PICK x \in 0 .. (n - 1) : x = (y + s) % n /\ \E q \in Int : y + s = n * q + x
    <2>1. y + s \in Int
      BY <1>3, <1>4
    <2> QED BY <2>1, ModFacts
  <1>6. PICK q \in Int : y + s = n * q + x
    BY <1>5
  <1> DEFINE p == n * q
             m == (a - x - 1) % n
  <1>7. p \in Int /\ n * (q + 1) = p + n /\ q + 1 \in Int
    BY NextMultiple
  <1>8. m = (IF a - x - 1 >= 0 THEN a - x - 1 ELSE a - x - 1 + n) /\ m \in 0 .. (n - 1)
    <2>1. m \in 0 .. (n - 1)
      BY <1>1, <1>2, <1>5, ModFacts
    <2>2. CASE a - x - 1 >= 0
      <3>1. a - x - 1 \in 0 .. (n - 1)
        BY <1>1, <1>2, <1>5, <2>2
      <3>2. \A z \in 0 .. (n - 1) : z % n = z
        OBVIOUS
      <3> QED BY <2>1, <2>2, <3>1, <3>2
    <2>3. CASE a - x - 1 < 0
      <3>1. a - x - 1 \in -n .. -1
        BY <1>1, <1>2, <1>5, <2>3
      <3>2. \A z \in -n .. -1 : z % n = z + n
        OBVIOUS
      <3> QED BY <2>1, <2>3, <3>1, <3>2
    <2> QED BY <1>1, <1>2, <1>5, <2>2, <2>3, <2>1
  <1>9. n0 + (((a - ((n0 + s0) % Day)) - 1) % Day) + 1 = y + m + 1
    BY <1>2, <1>3, <1>4, <1>5
  <1>10. y + s = p + x
    BY <1>6
  <1> HIDE DEF m, p
  <1>11. (y + m + 1 + s) % n = a
    <2>1. CASE a - x - 1 >= 0
      <3>1. y + m + 1 + s = p + a
        BY <1>1, <1>2, <1>3, <1>4, <1>5, <1>7, <1>8, <1>10, <2>1
      <3>2. (n * q + a) % n = a
        BY <1>1, <1>2, ModOfSum
      <3> QED BY <3>1, <3>2 DEF p
    <2>2. CASE a - x - 1 < 0
      <3> DEFINE r == n * (q + 1)
      <3>1. p \in Int /\ r \in Int /\ r = p + n
        BY <1>7
      <3> HIDE DEF r
      <3>2. y + m + 1 + s = r + a
        BY <1>1, <1>2, <1>3, <1>4, <1>5, <1>8, <1>10, <2>2, <3>1
      <3>3. (r + a) % n = a
        BY <1>1, <1>2, <1>7, ModOfSum DEF r
      <3> QED BY <3>2, <3>3
    <2> QED BY <1>1, <1>2, <1>5, <2>1, <2>2
  <1>12. y + m + 1 \in Int /\ y + m + 1 > y /\ y + m + 1 <= y + n /\ y + m + 1 \in 0 .. (MaxTime + n)
    BY <1>1, <1>3, <1>8
  <1> QED BY <1>2, <1>3, <1>4, <1>9, <1>11, <1>12 DEF Moments

LEMMA NextTimeFacts ==
    ASSUME now \in 0 .. MaxTime, shift \in 0 .. (Day - 1), NEW a \in Times
    PROVE  /\ NextTime(a) \in Int /\ NextTime(a) > now /\ NextTime(a) <= now + Day
           /\ NextTime(a) \in Moments
           /\ (NextTime(a) + shift) % Day = a
  BY NextOf DEF NextTime, TimeOfDay

--------------------------------------------------------------------------------
(* Types.                                                                  *)

\* A step of one request.
LEMMA UpdateFacts ==
    ASSUME calls \in [Threads -> Calls], NEW t \in Threads, NEW c \in Calls, Update(t, c)
    PROVE  /\ calls' \in [Threads -> Calls]
           /\ calls'[t] = IF c.todo = <<>> THEN Idle ELSE c
           /\ calls'[t].todo = c.todo
           /\ \A u \in Threads : u # t => calls'[u] = calls[u]
  <1>1. Idle \in Calls /\ Idle.todo = <<>>
    BY DEF Idle, Calls, Moments
  <1> QED BY <1>1 DEF Update

LEMMA CallFields ==
    ASSUME NEW c \in Calls, NEW s \in Seq(Steps)
    PROVE  LET d == [c EXCEPT !.todo = s] IN
           /\ d \in Calls /\ d.todo = s /\ d.form = c.form /\ d.times = c.times
           /\ d.need = c.need /\ d.found = c.found
  BY DEF Calls

LEMMA IdleIsOK == \A n \in Nat : CallOK(Idle, n)
  <1>1. Idle.todo = <<>>
    BY DEF Idle
  <1> QED BY <1>1, HasNone DEF CallOK, Legal, Plain, Tails, Opens

\* What the rest of a request uses is what the request uses.
LEMMA RestIsOK ==
    ASSUME NEW c \in Calls, NEW n \in Nat, CallOK(c, n), c.todo # <<>>, NEW d \in Calls,
           d.todo = Tail(c.todo), d.times = c.times
    PROVE  CallOK(d, n)
  <1>1. c.todo \in Seq(Steps) /\ d.todo \in Seq(Steps) /\ Legal(c.todo)
    BY DEF CallOK, Calls
  <1>2. Legal(d.todo) /\ ~Opens(d, "SetDynamicItem") /\ ~Opens(d, "CompareWakeUpTime")
        /\ ~Opens(d, "StartUpdateAtTimer")
    BY <1>1, RestIsLegal DEF Opens
  <1>3. \A x : Has(d.todo, x) => Has(c.todo, x)
    BY <1>1, HasCons
  <1> QED BY <1>2, <1>3 DEF CallOK

\* The step of a request keeps the types of the requests if it does that of its own,
\* and the lock stays with whoever keeps it.
LEMMA StepIsTyped ==
    ASSUME CallsOK, now \in Nat, now' = now, NEW t \in Threads, NEW c \in Calls, Update(t, c),
           CallOK(c, now), Holds(c.todo) => intervalMutex' = t,
           \A u \in Threads \ {t} : Holds(calls[u].todo) => intervalMutex' = u
    PROVE  CallsOK'
  <1>1. /\ calls' \in [Threads -> Calls] /\ calls'[t] = (IF c.todo = <<>> THEN Idle ELSE c)
        /\ calls'[t].todo = c.todo /\ \A u \in Threads : u # t => calls'[u] = calls[u]
    BY UpdateFacts DEF CallsOK
  <1>2. ASSUME NEW u \in Threads
        PROVE  /\ CallOK(calls'[u], now) /\ (calls'[u].todo = <<>> => calls'[u] = Idle)
               /\ Holds(calls'[u].todo) => intervalMutex' = u
    <2>1. CASE u = t
      BY <1>1, <2>1, IdleIsOK
    <2>2. CASE u # t
      BY <1>1, <2>2 DEF CallsOK
    <2> QED BY <2>1, <2>2
  <1> QED BY <1>1, <1>2 DEF CallsOK, CallOK

\* A step that takes and gives back nothing.
LEMMA LockStays ==
    ASSUME Typed, UNCHANGED <<now, intervalMutex>>, NEW t \in Threads, NEW c \in Calls, Update(t, c),
           CallOK(c, now), Holds(c.todo) <=> Holds(calls[t].todo)
    PROVE  CallsOK' /\ LockIsKept'
  <1>1. now \in Nat /\ CallsOK /\ \A u \in Threads : Holds(calls[u].todo) => intervalMutex = u
    BY TimersAssumption DEF Typed, Listed, CallsOK
  <1>2. CallsOK'
    BY <1>1, StepIsTyped
  <1>3. calls'[t].todo = c.todo /\ \A u \in Threads : u # t => calls'[u] = calls[u]
    BY <1>1, UpdateFacts DEF CallsOK
  <1>4. LockIsKept'
    BY <1>3 DEF Typed, LockIsKept
  <1> QED BY <1>2, <1>4

LEMMA RestKeepsLock ==
    ASSUME Typed, UNCHANGED <<now, intervalMutex>>, NEW t \in Threads, calls[t].todo # <<>>,
           Head(calls[t].todo) \notin {"IntervalToAtTimer", "Unlock"},
           NEW c \in Calls, Update(t, c), c.todo = Rest(t), c.times = calls[t].times
    PROVE  CallsOK' /\ LockIsKept'
  <1>1. /\ calls[t] \in Calls /\ now \in Nat /\ CallOK(calls[t], now) /\ Legal(calls[t].todo)
        /\ calls[t].todo \in Seq(Steps)
    BY TimersAssumption DEF Typed, Listed, CallsOK, CallOK, Calls
  <1>2. CallOK(c, now)
    BY <1>1, RestIsOK DEF Rest
  <1>3. Holds(c.todo) <=> Holds(calls[t].todo)
    BY <1>1, HoldsRest DEF Rest
  <1> QED BY <1>2, <1>3, LockStays

LEMMA GoOnKeepsLock ==
    ASSUME Typed, UNCHANGED <<now, intervalMutex>>, NEW t \in Threads, calls[t].todo # <<>>,
           Head(calls[t].todo) \notin {"IntervalToAtTimer", "Unlock"}, GoOn(t, Rest(t))
    PROVE  CallsOK' /\ LockIsKept'
  <1> DEFINE c == [calls[t] EXCEPT !.todo = Rest(t)]
  <1>1. calls[t] \in Calls
    BY DEF Typed, CallsOK
  <1>2. Rest(t) \in Seq(Steps)
    BY <1>1 DEF Calls, Rest
  <1>4. c \in Calls /\ c.todo = Rest(t) /\ c.times = calls[t].times
    BY <1>1, <1>2, CallFields
  <1>3. Update(t, c)
    BY DEF GoOn
  <1> QED BY <1>3, <1>4, RestKeepsLock

\* The scripts requests begin with.
LEMMA Beginnings ==
    \A s \in {IntervalItem, AtLast, Multi, RemoveTimer, SetDynamic, DeleteInterval, TakeAt,
             TakeAtInterval, UpdateAt, IntervalToAt, FindLast, Trigger, Changed} :
      /\ s \in Seq(Steps) /\ s # <<>> /\ Legal(s) /\ ~Holds(s)
      /\ Head(s) \notin {"CompareWakeUpTime", "StartUpdateAtTimer"}
      /\ Head(s) = "SetDynamicItem" => s = SetDynamic
      /\ s \in {IntervalItem, RemoveTimer, SetDynamic, DeleteInterval, TakeAt, TakeAtInterval,
               FindLast, Trigger, Changed} => \A step \in Adding : ~Has(s, step)
  <1> DEFINE S == {IntervalItem, AtLast, Multi, RemoveTimer, SetDynamic, DeleteInterval, TakeAt,
                   TakeAtInterval, UpdateAt, IntervalToAt, Trigger, Changed}
  <1>1. FindLast \in Seq(Steps) /\ FindLast # <<>> /\ Updating(FindLast)
        /\ \A s \in S : s \in Seq(Steps) /\ s # <<>> /\ s \in Plain
    <2>1. FindLast \in Seq(Steps) /\ FindLast # <<>> /\ Updating(FindLast)
      <3>1. FindLast \in Named
        BY DEF Named
      <3>2. Head(FindLast) = "FindNextAtTimerItem" /\ Tail(FindLast) = <<>>
        BY FirstOf, RestOf
      <3> QED BY <3>1, <3>2, NamedAreSteps DEF Tails, Updating, AlarmHeads
    <2>2. \A s \in S : s \in Seq(Steps) /\ s # <<>>
      <3>1. S \subseteq Named
        BY DEF Named
      <3> QED BY <3>1, NamedAreSteps
    <2>3. \A s \in S : s \in Plain
      BY DEF Plain, Tails
    <2> QED BY <2>1, <2>2, <2>3
  <1>2. ~Holds(FindLast) /\ \A s \in S : ~Holds(s)
    <2>1. ~Holds(FindLast)
      BY RestHolds
    <2>2. AtLast \notin {AtUnlock, UnlockLast} /\ Multi \notin {AtUnlock, UnlockLast}
      BY RestHolds
    <2>3. \A s \in S : s \notin {ItemUnlock, ItemAtUnlock, AtUnlock, UnlockLast}
      BY <2>2, FirstOf
    <2> QED BY <1>1, <2>1, <2>3, PlainHolds
  <1>3. \A s \in S \cup {FindLast} :
           /\ Head(s) \notin {"CompareWakeUpTime", "StartUpdateAtTimer"}
           /\ Head(s) = "SetDynamicItem" => s = SetDynamic
    BY FirstOf
  <1>4. \A s \in {IntervalItem, RemoveTimer, SetDynamic, DeleteInterval, TakeAt, TakeAtInterval,
                 FindLast, Trigger, Changed} : \A step \in Adding : ~Has(s, step)
    BY HasOf DEF Adding
  <1> QED BY <1>1, <1>2, <1>3, <1>4 DEF Legal

LEMMA NothingHolds == ~Holds(<<>>)
  <1>1. <<>> \in Plain
    BY DEF Plain, Tails
  <1>2. <<>> \notin {ItemUnlock, ItemAtUnlock, AtUnlock, UnlockLast}
    BY Scripts DEF Is
  <1> QED BY <1>1, <1>2, PlainHolds

\* A request is the beginning of one of these scripts.
Requests == {IntervalItem, AtLast, Multi, RemoveTimer, SetDynamic, DeleteInterval, TakeAt,
             TakeAtInterval, UpdateAt, IntervalToAt}

LEMMA RequestBegins ==
    ASSUME Typed, NEW t \in Threads, NEW f \in Forms, Request(t, f)
    PROVE  \E s \in Requests : \E times \in SUBSET Moments : \E need \in BOOLEAN :
              /\ BeginTask(t, f, s, times, need)
              /\ s \in {AtLast, Multi, UpdateAt, IntervalToAt} => times \subseteq Times
              /\ s = SetDynamic => \A m \in times : m > now
  <1>1. /\ Times \subseteq Moments /\ {} \subseteq Moments
        /\ \A gap \in 1 .. 2 : now + gap \in Moments /\ now + gap > now
    BY TimersAssumption DEF Moments, Typed, Listed
  <1>2. CASE \E s \in {IntervalItem, RemoveTimer, DeleteInterval, TakeAt, TakeAtInterval} :
                Begin(t, f, s, {})
    <2>1. {IntervalItem, RemoveTimer, DeleteInterval, TakeAt, TakeAtInterval} \cap
             {AtLast, Multi, UpdateAt, IntervalToAt, SetDynamic} = {}
      <3>1. /\ \A s \in {IntervalItem, RemoveTimer, DeleteInterval, TakeAt, TakeAtInterval} :
                  Head(s) \in {"AddIntervalTimer", "DeleteIntervalTimer", "TakeUpdateAtItems"}
            /\ \A s \in {AtLast, Multi, UpdateAt, IntervalToAt, SetDynamic} :
                  Head(s) \notin {"AddIntervalTimer", "DeleteIntervalTimer", "TakeUpdateAtItems"}
        BY FirstOf
      <3> QED BY <3>1
    <2> QED BY <1>1, <1>2, <2>1 DEF Requests, Begin
  <1>3. CASE \E s \in {AtLast, Multi, UpdateAt, IntervalToAt} : \E times \in SUBSET Times :
                \E need \in BOOLEAN : BeginTask(t, f, s, times, need)
    <2>1. SetDynamic \notin {AtLast, Multi, UpdateAt, IntervalToAt}
      BY FirstOf
    <2> QED BY <1>1, <1>3, <2>1 DEF Requests
  <1>4. CASE \E gap \in 1 .. 2 : Begin(t, f, SetDynamic, {now + gap})
    <2>1. SetDynamic \notin {AtLast, Multi, UpdateAt, IntervalToAt}
      BY FirstOf
    <2>2. PICK gap \in 1 .. 2 : Begin(t, f, SetDynamic, {now + gap})
      BY <1>4
    <2>3. {now + gap} \in SUBSET Moments /\ \A m \in {now + gap} : m > now
      BY <1>1
    <2> QED BY <2>1, <2>2, <2>3 DEF Requests, Begin
  <1>5. CASE AddFormTimer(t, f)
    <2>1. Begin(t, f, IntervalItem, {}) \/ \E a \in Times : Begin(t, f, AtLast, {a})
      BY <1>5 DEF AddFormTimer, IntervalItem, AtLast
    <2> QED BY <1>2, <1>3, <2>1 DEF Begin
  <1>6. CASE AddFormTimerForMultiUpdate(t, f)
    <2>1. \E s \in {AtLast, Multi} : \E times \in TimeLists :
             BeginTask(t, f, s, times, FALSE)
      BY <1>6 DEF AddFormTimerForMultiUpdate, Multi, AtLast
    <2>2. TimeLists \subseteq SUBSET Times
      BY TimersAssumption
    <2> QED BY <1>3, <2>1, <2>2
  <1>7. CASE RemoveFormTimer(t, f)
    <2>1. Begin(t, f, RemoveTimer, {})
      BY <1>7 DEF RemoveFormTimer, RemoveTimer
    <2> QED BY <1>2, <2>1
  <1>8. CASE SetNextRefreshTime(t, f)
    BY <1>4, <1>8 DEF SetNextRefreshTime, SetDynamic
  <1>9. CASE UpdateFormTimer(t, f)
    <2>1. \/ \E s \in {DeleteInterval, TakeAt, TakeAtInterval} : Begin(t, f, s, {})
          \/ \E s \in {UpdateAt, IntervalToAt} : \E times \in TimeLists :
                Begin(t, f, s, times)
      BY <1>9 DEF UpdateFormTimer, DeleteInterval, TakeAt, TakeAtInterval, UpdateAt, IntervalToAt
    <2>2. TimeLists \subseteq SUBSET Times
      BY TimersAssumption
    <2> QED BY <1>2, <1>3, <2>1, <2>2 DEF Begin
  <1> QED BY <1>5, <1>6, <1>7, <1>8, <1>9 DEF Request

LEMMA BeginTyped ==
    ASSUME Typed, NEW t \in Threads, NEW f \in Forms, NEW times \in SUBSET Moments,
           NEW s \in Requests, NEW need \in BOOLEAN,
           s \in {AtLast, Multi, UpdateAt, IntervalToAt} => times \subseteq Times,
           s = SetDynamic => \A m \in times : m > now,
           BeginTask(t, f, s, times, need)
    PROVE  Typed'
  <1> DEFINE c == [todo |-> s, form |-> f, times |-> times, need |-> need, found |-> None]
  <1>1. /\ s \in Seq(Steps) /\ s # <<>> /\ Legal(s) /\ ~Holds(s)
        /\ Head(s) \notin {"CompareWakeUpTime", "StartUpdateAtTimer"}
        /\ Head(s) = "SetDynamicItem" => s = SetDynamic
        /\ s \in {IntervalItem, RemoveTimer, SetDynamic, DeleteInterval, TakeAt, TakeAtInterval,
                 FindLast, Trigger, Changed} => \A step \in Adding : ~Has(s, step)
    BY Beginnings DEF Requests
  <1>2. c \in Calls
    BY <1>1 DEF Calls
  <1>3. CallOK(c, now)
    BY <1>1 DEF CallOK, Opens, Requests
  <1>4. Update(t, c) /\ calls[t] = Idle
    BY <1>1 DEF BeginTask, Update
  <1>5. ~Holds(calls[t].todo)
    BY <1>4, NothingHolds DEF Idle
  <1>6. UNCHANGED <<now, intervalMutex>>
    BY DEF BeginTask, tasks, clock
  <1>7. CallsOK' /\ LockIsKept'
    BY <1>1, <1>2, <1>3, <1>4, <1>5, <1>6, LockStays
  <1>8. Listed'
    BY DEF BeginTask, tasks, fixed, next, clock, Typed, Listed
  <1> QED BY <1>7, <1>8 DEF Typed

LEMMA RequestTyped ==
    ASSUME Typed, NEW t \in Threads, NEW f \in Forms, Request(t, f)
    PROVE  Typed'
  BY RequestBegins, BeginTyped

\* A moment given as two ints is received as it is, or not at all.
LEMMA JoinedFacts ==
    ASSUME NEW m \in Moments
    PROVE  Refused(m) \/ Joined(m) = m
  <1>1. PICK n \in Nat \ {0} : n = 2 * Half
    BY TimersAssumption
  <1>2. m \in Int /\ Half \in Int
    BY TimersAssumption DEF Moments
  <1>3. PICK low \in 0 .. (n - 1) : low = m % n
    BY <1>1, <1>2, ModFacts
  <1>4. Joined(m) = IF low < Half THEN m ELSE low - n
    BY <1>1, <1>3 DEF Joined
  <1>5. low - n <= 0
    BY <1>1, <1>3
  <1> QED BY <1>4, <1>5 DEF Refused

\* An event that is received.
LEMMA EventFacts ==
    ASSUME Typed, NEW t \in Threads, OnReceiveEvent(t)
    PROVE  \E e \in events, c \in Calls :
              /\ events' = events \ {e} /\ Update(t, c) /\ calls[t] = Idle
              /\ c.form = NoForm /\ c.found = None /\ e.type \in {"static", "dynamic", "timeChanged"}
              /\ e.time \in Moments
              /\ c.times = IF e.type = "dynamic" /\ ~Refused(e.time) THEN {e.time} ELSE {}
              /\ c.todo = IF e.type = "static" THEN FindLast
                          ELSE IF e.type = "timeChanged" THEN Changed
                          ELSE IF Refused(e.time) THEN <<>> ELSE Trigger
              /\ UNCHANGED <<tasks, fixed, next, clock, requests, raced>>
  <1>1. PICK e \in events : events' = events \ {e} /\ Update(t, Received(e))
    BY DEF OnReceiveEvent
  <1>2. e.type \in {"static", "dynamic", "timeChanged"} /\ e.time \in Moments
    BY DEF Typed, Listed
  <1> DEFINE s == IF e.type = "static" THEN FindLast
                  ELSE IF e.type = "timeChanged" THEN Changed
                  ELSE IF Refused(e.time) THEN <<>> ELSE Trigger
             times == IF e.type = "dynamic" /\ ~Refused(e.time) THEN {e.time} ELSE {}
             c == [todo |-> s, form |-> NoForm, times |-> times, need |-> TRUE, found |-> None]
  <1>3. Received(e) = c
    <2>3. CASE e.type = "static"
      BY <2>3 DEF Received, FindLast, Idle
    <2>4. CASE e.type = "timeChanged"
      BY <2>4 DEF Received, Changed, Idle
    <2>5. CASE e.type = "dynamic" /\ Refused(e.time)
      BY <2>5 DEF Received, Idle
    <2>6. CASE e.type = "dynamic" /\ ~Refused(e.time)
      <3>1. Joined(e.time) = e.time
        BY <1>2, <2>6, JoinedFacts
      <3> QED BY <2>6, <3>1 DEF Received, Trigger, Idle
    <2> QED BY <1>2, <2>3, <2>4, <2>5, <2>6
  <1>4. s \in Seq(Steps) /\ times \in SUBSET Moments
    <2>1. s \in {FindLast, Trigger, Changed, <<>>}
      OBVIOUS
    <2> HIDE DEF s
    <2>2. s \in Seq(Steps)
      <3>1. <<>> \in Seq(Steps)
        OBVIOUS
      <3> QED BY <2>1, <3>1, Beginnings
    <2> QED BY <1>2, <2>2
  <1> HIDE DEF s, times
  <1>5. /\ c \in Calls /\ c.todo = s /\ c.times = times /\ c.form = NoForm /\ c.found = None
    BY <1>4 DEF Calls
  <1> HIDE DEF c
  <1> QED BY <1>1, <1>2, <1>3, <1>5 DEF OnReceiveEvent, s, times

LEMMA EventTyped ==
    ASSUME Typed, NEW t \in Threads, OnReceiveEvent(t)
    PROVE  Typed'
  <1>1. PICK e \in events, c \in Calls :
              /\ events' = events \ {e} /\ Update(t, c) /\ calls[t] = Idle
              /\ c.todo \in {FindLast, Trigger, Changed, <<>>}
              /\ UNCHANGED <<tasks, fixed, next, clock, requests, raced>>
    <2>1. \A e : (IF e.type = "static" THEN FindLast
                  ELSE IF e.type = "timeChanged" THEN Changed
                  ELSE IF Refused(e.time) THEN <<>> ELSE Trigger)
                 \in {FindLast, Trigger, Changed, <<>>}
      OBVIOUS
    <2> QED BY <2>1, EventFacts
  <1>2. /\ Legal(c.todo) /\ ~Holds(c.todo) /\ \A step \in Adding : ~Has(c.todo, step)
        /\ c.todo # <<>> =>
             Head(c.todo) \notin {"CompareWakeUpTime", "StartUpdateAtTimer", "SetDynamicItem"}
    <2>1. CASE c.todo = <<>>
      BY <2>1, NothingHolds, HasNone DEF Legal, Plain, Tails
    <2>2. CASE c.todo \in {FindLast, Trigger, Changed}
      <3>1. Head(c.todo) # "SetDynamicItem"
        BY <2>2, FirstOf
      <3> QED BY <2>2, <3>1, Beginnings
    <2> QED BY <1>1, <2>1, <2>2
  <1>3. CallOK(c, now)
    BY <1>2 DEF CallOK, Opens
  <1>4. ~Holds(calls[t].todo) /\ UNCHANGED <<now, intervalMutex>>
    BY <1>1, NothingHolds DEF Idle, tasks, clock
  <1>5. CallsOK' /\ LockIsKept'
    BY <1>1, <1>2, <1>3, <1>4, LockStays
  <1>6. Listed'
    BY <1>1 DEF tasks, fixed, next, clock, Typed, Listed
  <1> QED BY <1>5, <1>6 DEF Typed

\* The rest of a script is left out.
LEMMA SkipKeepsLock ==
    ASSUME Typed, UNCHANGED <<now, intervalMutex>>, NEW t \in Threads, ~Holds(calls[t].todo),
           NEW s \in {<<>>, RemoveDynamic}, GoOn(t, s)
    PROVE  CallsOK' /\ LockIsKept'
  <1> DEFINE c == [calls[t] EXCEPT !.todo = s]
  <1>1. s \in Seq(Steps) /\ s \in Plain
    <2>1. RemoveDynamic \in Seq(Steps) /\ <<>> \in Seq(Steps)
      BY Scripts DEF Is
    <2>2. RemoveDynamic \in Plain /\ <<>> \in Plain
      BY DEF Plain, Tails
    <2> QED BY <2>1, <2>2
  <1>2. c \in Calls /\ c.todo = s /\ Update(t, c)
    BY <1>1, CallFields DEF Typed, CallsOK, GoOn
  <1>3. ~Holds(s)
    <2>1. RemoveDynamic \notin {ItemUnlock, ItemAtUnlock, AtUnlock, UnlockLast}
      BY FirstOf
    <2> QED BY <1>1, <2>1, PlainHolds, NothingHolds
  <1>4. /\ s # <<>> => Head(s) = "DeleteDynamicItem"
        /\ \A step \in Adding : ~Has(s, step)
    BY FirstOf, HasOf, HasNone DEF Adding
  <1>5. CallOK(c, now)
    BY <1>1, <1>2, <1>4 DEF CallOK, Opens, Legal
  <1> QED BY <1>2, <1>3, <1>5, LockStays

\* What a step finds.
LEMMA CallFacts ==
    ASSUME Typed, NEW t \in Threads
    PROVE  /\ calls[t] \in Calls /\ CallOK(calls[t], now) /\ Legal(calls[t].todo)
           /\ calls[t].todo \in Seq(Steps) /\ calls[t].form \in Forms \cup {NoForm}
           /\ calls[t].times \subseteq Moments /\ calls[t].found \in Items \cup {None}
           /\ calls[t].todo # <<>> => Rest(t) \in Seq(Steps)
           /\ now \in Nat /\ now \in Int /\ now <= MaxTime
  BY TimersAssumption DEF Typed, Listed, CallsOK, CallOK, Calls, Rest

LEMMA IntervalTyped ==
    ASSUME Typed, NEW t \in Threads,
           \/ AddIntervalTimer(t) \/ DeleteIntervalTimer(t) \/ AddItem(t) \/ DeleteItem(t)
    PROVE  Typed'
  <1> USE CallFacts
  <1>1. UNCHANGED <<now, intervalMutex>>
    BY DEF AddIntervalTimer, DeleteIntervalTimer, AddItem, DeleteItem, clock
  <1>2. Listed'
    <2>1. interval' \subseteq Forms \cup {NoForm} /\ limiter' \subseteq Forms \cup {NoForm}
          /\ ticker' \in BOOLEAN /\ quietTasks' \subseteq interval'
      BY DEF AddIntervalTimer, DeleteIntervalTimer, AddItem, DeleteItem, Typed, Listed
    <2> QED BY <2>1 DEF AddIntervalTimer, DeleteIntervalTimer, AddItem, DeleteItem, fixed, next,
           clock, Typed, Listed
  <1>3. CASE AddIntervalTimer(t)
    <2>1. calls[t].todo = IntervalItem /\ ~Holds(IntervalItem)
      BY <1>3, ScriptsByHead, Beginnings DEF AddIntervalTimer, At
    <2>2. GoOn(t, <<>>) \/ GoOn(t, Rest(t))
      BY <1>3 DEF AddIntervalTimer
    <2>3. calls[t].todo # <<>> /\ Head(calls[t].todo) = "AddIntervalTimer"
      BY <1>3 DEF AddIntervalTimer, At
    <2> QED BY <1>1, <1>2, <2>1, <2>2, <2>3, SkipKeepsLock, GoOnKeepsLock DEF Typed
  <1>4. CASE DeleteIntervalTimer(t)
    <2>1. calls[t].todo \in {RemoveTimer, DeleteInterval} /\ ~Holds(calls[t].todo)
      <3>1. calls[t].todo \in {RemoveTimer, DeleteInterval}
        BY <1>4, ScriptsByHead DEF DeleteIntervalTimer, At
      <3> QED BY <3>1, Beginnings
    <2>2. \/ GoOn(t, Rest(t))
          \/ GoOn(t, SubSeq(Rest(t), 3, Len(Rest(t))))
      BY <1>4 DEF DeleteIntervalTimer
    <2>3. calls[t].todo # <<>> /\ Head(calls[t].todo) = "DeleteIntervalTimer"
      BY <1>4 DEF DeleteIntervalTimer, At
    <2>4. SubSeq(Rest(t), 3, Len(Rest(t))) \in {<<>>, RemoveDynamic}
      BY <2>1, SkipFacts DEF Rest
    <2> QED BY <1>1, <1>2, <2>1, <2>2, <2>3, <2>4, SkipKeepsLock, GoOnKeepsLock DEF Typed
  <1>5. CASE AddItem(t) \/ DeleteItem(t)
    BY <1>1, <1>2, <1>5, GoOnKeepsLock DEF AddItem, DeleteItem, At, Typed
  <1> QED BY <1>3, <1>4, <1>5

LEMMA LockTyped ==
    ASSUME Typed, NEW t \in Threads, IntervalToAtTimer(t) \/ Unlock(t)
    PROVE  Typed'
  <1> USE CallFacts
  <1>1. /\ UNCHANGED now /\ CallsOK /\ LockIsKept /\ "free" \notin Threads
        /\ \A u \in Threads : Holds(calls[u].todo) => intervalMutex = u
    BY TimersAssumption DEF IntervalToAtTimer, Unlock, clock, Typed, CallsOK
  <1>2. Listed'
    <2>1. interval' \subseteq Forms \cup {NoForm} /\ quietTasks' \subseteq interval'
      BY DEF IntervalToAtTimer, Unlock, Typed, Listed
    <2> QED BY <2>1 DEF IntervalToAtTimer, Unlock, fixed, next, clock, Typed, Listed
  <1> DEFINE c(s) == [calls[t] EXCEPT !.todo = s]
  <1>3. \A s \in Seq(Steps) : c(s) \in Calls /\ c(s).todo = s /\ c(s).times = calls[t].times
    BY CallFields
  <1>4. Tail(calls[t].todo) \in Seq(Steps) /\ CallOK(c(Rest(t)), now)
        /\ c(Rest(t)).todo = Rest(t)
    BY <1>3, RestIsOK DEF IntervalToAtTimer, Unlock, At, Rest
  <1>5. CASE IntervalToAtTimer(t) /\ calls[t].form \notin interval
    <2>1. calls[t].todo = IntervalToAt /\ ~Holds(IntervalToAt)
      BY <1>5, ScriptsByHead, Beginnings DEF IntervalToAtTimer, At
    <2> QED BY <1>1, <1>2, <1>5, <2>1, SkipKeepsLock DEF IntervalToAtTimer, Typed
  <1>6. CASE IntervalToAtTimer(t) /\ calls[t].form \in interval
    <2> DEFINE e == [calls[t] EXCEPT !.todo = Rest(t), !.need = calls[t].form \notin quietTasks]
    <2>1. calls[t].todo # <<>> /\ Head(calls[t].todo) = "IntervalToAtTimer"
          /\ intervalMutex \in {"free", t} /\ intervalMutex' = t /\ Update(t, e)
      BY <1>6 DEF IntervalToAtTimer, At, IntervalFree
    <2>6. e \in Calls /\ e.todo = Rest(t) /\ e.times = calls[t].times
      BY <1>4 DEF Calls, Rest
    <2> HIDE DEF e
    <2>7. CallOK(e, now)
      BY <2>1, <2>6, RestIsOK DEF Rest
    <2>2. ~Holds(calls[t].todo) /\ Holds(Rest(t))
      BY <2>1, HoldsRest DEF Rest
    <2>3. \A u \in Threads \ {t} : ~Holds(calls[u].todo)
      BY <1>1, <2>1
    <2>4. CallsOK'
      BY <1>1, <2>1, <2>3, <2>6, <2>7, StepIsTyped
    <2>5. LockIsKept'
      <3>1. calls'[t].todo = Rest(t)
        BY <1>1, <2>1, <2>6, UpdateFacts DEF CallsOK
      <3> QED BY <2>1, <2>2, <3>1 DEF LockIsKept
    <2> QED BY <1>2, <2>4, <2>5 DEF Typed
  <1>7. CASE Unlock(t)
    <2>1. calls[t].todo # <<>> /\ Head(calls[t].todo) = "Unlock"
          /\ intervalMutex' = "free" /\ Update(t, c(Rest(t)))
      BY <1>7 DEF Unlock, At, GoOn
    <2>2. Holds(calls[t].todo) /\ ~Holds(Rest(t))
      BY <2>1, HoldsRest DEF Rest
    <2>3. \A u \in Threads \ {t} : ~Holds(calls[u].todo)
      BY <1>1, <2>2
    <2>4. CallsOK'
      BY <1>1, <1>3, <1>4, <2>1, <2>2, <2>3, StepIsTyped DEF Rest
    <2> QED BY <1>2, <2>1, <2>4 DEF Typed, LockIsKept
  <1> QED BY <1>5, <1>6, <1>7

LEMMA DynamicTyped ==
    ASSUME Typed, NEW t \in Threads,
           SetDynamicItem(t) \/ DeleteDynamicItem(t) \/ OnDynamicTimeTrigger(t) \/ UpdateDynamicAlarm(t)
    PROVE  Typed'
  <1> USE CallFacts
  <1>1. UNCHANGED <<now, intervalMutex>> /\ GoOn(t, Rest(t)) /\ calls[t].todo # <<>>
        /\ Head(calls[t].todo) \notin {"IntervalToAtTimer", "Unlock"}
    BY DEF SetDynamicItem, DeleteDynamicItem, OnDynamicTimeTrigger, UpdateDynamicAlarm,
       DynamicChange, clock, tasks, At
  <1>2. CallsOK' /\ LockIsKept'
    BY <1>1, GoOnKeepsLock
  <1>3. /\ dynamic' \in [Forms -> Moments \cup {Never}]
        /\ dynamicWakeUpTime' \in Moments \cup {Never} /\ dynamicAlarm' \in Moments \cup {Never}
    <2>1. /\ dynamic \in [Forms -> Moments \cup {Never}]
          /\ dynamicWakeUpTime \in Moments \cup {Never} /\ dynamicAlarm \in Moments \cup {Never}
      BY DEF Typed, Listed
    <2>2. CASE SetDynamicItem(t)
      BY <2>1, <2>2 DEF SetDynamicItem, DynamicChange
    <2>3. CASE DeleteDynamicItem(t)
      BY <2>1, <2>3 DEF DeleteDynamicItem, DynamicChange
    <2>4. CASE OnDynamicTimeTrigger(t)
      BY <2>1, <2>4 DEF OnDynamicTimeTrigger, DynamicChange
    <2>5. CASE UpdateDynamicAlarm(t)
      <3>1. dynamic' \in [Forms -> Moments \cup {Never}]
        BY <2>1, <2>5 DEF UpdateDynamicAlarm, next
      <3>2. First \subseteq Forms /\ First' \subseteq Forms
        BY DEF First, Due
      <3>3. /\ \A f \in First : dynamic[f] \in Moments \cup {Never}
            /\ \A f \in First' : dynamic'[f] \in Moments \cup {Never}
        BY <2>1, <3>1, <3>2
      <3> QED BY <2>1, <2>5, <3>1, <3>3 DEF UpdateDynamicAlarm, next, ForgetDynamicAlarm
    <2> QED BY <2>2, <2>3, <2>4, <2>5
  <1>4. Listed'
    BY <1>3 DEF SetDynamicItem, DeleteDynamicItem, OnDynamicTimeTrigger, UpdateDynamicAlarm,
       DynamicChange, clock, tasks, fixed, Typed, Listed
  <1> QED BY <1>2, <1>4 DEF Typed

\* The addition of one fixed time.
LEMMA AddFacts ==
    ASSUME Typed, NEW t \in Threads, AddUpdateAtTimer(t)
    PROVE  \E a \in Times : \E c \in Calls :
              /\ At(t, "AddUpdateAtTimer")
              /\ atItems' = atItems \cup {<<calls[t].form, a>>} /\ Update(t, c)
              /\ quietItems' \subseteq quietItems \cup {<<calls[t].form, a>>}
              /\ unalarmed' = IF calls[t].need THEN unalarmed
                              ELSE unalarmed \cup ({<<calls[t].form, a>>} \ atItems)
              /\ c.form = calls[t].form /\ c.times \subseteq calls[t].times
              /\ UNCHANGED <<tasks, atTimerWakeUpTime, atAlarm, overlapped, next, events, clock,
                             requests, raced>>
              /\ Legal(c.todo) /\ (Holds(c.todo) <=> Holds(calls[t].todo))
              /\ c.todo # <<>> => Head(c.todo) \in {"FindNextAtTimerItem", "AddItem", "Unlock",
                                                    "AddUpdateAtTimer"}
              /\ <<calls[t].form, a>> \notin atItems /\ calls[t].need => Has(c.todo, "FindNextAtTimerItem")
              /\ \A x : Has(c.todo, x) =>
                    x \in {"FindNextAtTimerItem", "AddItem"} \/ Has(calls[t].todo, x)
              /\ \A x : Has(calls[t].todo, x) => x = Head(calls[t].todo) \/ Has(c.todo, x)
  <1> DEFINE s == calls[t].todo
             add(todo, times) == [calls[t] EXCEPT !.times = times, !.todo = todo]
             Good(d) == /\ d \in Seq(Steps) /\ Legal(d) /\ (Holds(d) <=> Holds(s))
                        /\ d # <<>> => Head(d) \in {"FindNextAtTimerItem", "AddItem", "Unlock",
                                                    "AddUpdateAtTimer"}
                        /\ \A x : Has(d, x) => x \in {"FindNextAtTimerItem", "AddItem"} \/ Has(s, x)
                        /\ \A x : Has(s, x) => x = Head(s) \/ Has(d, x)
  <1>1. /\ calls[t] \in Calls /\ CallOK(calls[t], now) /\ Legal(s) /\ s \in Seq(Steps)
    BY CallFacts
  <1>2. \A d \in Seq(Steps), times \in SUBSET calls[t].times :
          /\ add(d, times) \in Calls /\ add(d, times).todo = d /\ add(d, times).times = times
          /\ add(d, times).form = calls[t].form
    BY <1>1 DEF Calls
  <1>3. s # <<>> /\ Head(s) = "AddUpdateAtTimer" /\ s \in {AtLast, AtUnlock, Multi}
    BY <1>1, ScriptsByHead DEF AddUpdateAtTimer, At
  <1> DEFINE follow == (IF calls[t].need THEN <<"FindNextAtTimerItem">> ELSE <<>>) \o <<"AddItem">>
  <1>4. PICK a \in calls[t].times, r \in {Tail(s), s} :
          LET item == <<calls[t].form, a>>
              times == calls[t].times \ {a}
          IN  IF item \in atItems THEN ItemsChange(t, atItems, quietItems, add(r, times))
              ELSE ItemsChange(t, atItems \cup {item},
                               IF calls[t].need THEN quietItems ELSE quietItems \cup {item},
                               add(follow \o r, times))
    BY <1>3 DEF AddUpdateAtTimer, Rest
  <1> DEFINE item == <<calls[t].form, a>>
             times == calls[t].times \ {a}
             d == follow \o r
  <1>5. a \in Times
    <2>1. Has(s, "AddUpdateAtTimer")
      BY <1>1, <1>3, HasCons
    <2> QED BY <1>1, <2>1 DEF CallOK, Adding
  <1>6. r \in {<<>>, AtLast, UnlockLast, AtUnlock, FindLast, Multi} /\ r \in Seq(Steps)
    <2>1. r \in Seq(Steps)
      <3>1. Tail(s) \in Seq(Steps)
        BY <1>1, <1>3
      <3> QED BY <1>1, <3>1
    <2>2. r \in {<<>>, AtLast, UnlockLast, AtUnlock, FindLast, Multi}
      BY <1>3, RestOf
    <2> QED BY <2>1, <2>2
  <1>7. Good(r)
    <2>1. Legal(r) /\ (Holds(r) <=> Holds(s))
      <3>1. Head(s) \notin {"IntervalToAtTimer", "Unlock"}
        BY <1>3
      <3>2. Legal(Tail(s)) /\ (Holds(s) <=> Holds(Tail(s)))
        BY <1>1, <1>3, <3>1, RestIsLegal, HoldsRest
      <3> QED BY <1>1, <3>2
    <2>2. r # <<>> => Head(r) \in {"FindNextAtTimerItem", "Unlock", "AddUpdateAtTimer"}
      <3>1. /\ Tail(AtLast) = <<>> /\ Tail(AtUnlock) = UnlockLast /\ Tail(Multi) = FindLast
            /\ Head(UnlockLast) = "Unlock" /\ Head(FindLast) = "FindNextAtTimerItem"
        BY RestOf, FirstOf
      <3>2. Tail(s) \in {<<>>, UnlockLast, FindLast} /\ Head(s) = "AddUpdateAtTimer"
        BY <1>3, <3>1
      <3> QED BY <3>1, <3>2
    <2>3. \A x : (Has(r, x) => Has(s, x)) /\ (Has(s, x) => x = Head(s) \/ Has(r, x))
      <3>1. \A x : Has(s, x) <=> Head(s) = x \/ Has(Tail(s), x)
        BY <1>1, <1>3, HasCons
      <3> QED BY <1>4, <3>1
    <2> QED BY <1>6, <2>1, <2>2, <2>3
  <1>8. Good(d) /\ (calls[t].need => Has(d, "FindNextAtTimerItem"))
    <2>1. /\ d \in Seq(Steps) /\ d # <<>> /\ Legal(d) /\ (Holds(d) <=> Holds(r))
          /\ Head(d) \in {"FindNextAtTimerItem", "AddItem"}
          /\ calls[t].need => Has(d, "FindNextAtTimerItem")
          /\ \A x : Has(d, x) => x \in {"FindNextAtTimerItem", "AddItem"} \/ Has(r, x)
          /\ \A x : Has(r, x) => Has(d, x)
      <3>1. calls[t].need \in BOOLEAN
        BY <1>1 DEF Calls
      <3> QED BY <1>6, <3>1, AtGoesOn
    <2> HIDE DEF d
    <2> QED BY <1>7, <2>1
  <1>9. times \in SUBSET calls[t].times
    OBVIOUS
  <1> HIDE DEF add, d, times
  <1>10. CASE item \in atItems
    <2>1. ItemsChange(t, atItems, quietItems, add(r, times))
      BY <1>4, <1>10 DEF times
    <2>2. /\ atItems' = atItems \cup {item} /\ Update(t, add(r, times))
          /\ quietItems' = quietItems /\ unalarmed' = unalarmed
          /\ UNCHANGED <<tasks, atTimerWakeUpTime, atAlarm, overlapped, next, events, clock,
                         requests, raced>>
      BY <1>10, <2>1 DEF ItemsChange
    <2> QED BY <1>2, <1>3, <1>5, <1>6, <1>7, <1>9, <1>10, <2>2 DEF At
  <1>11. CASE item \notin atItems
    <2>1. ItemsChange(t, atItems \cup {item},
                      IF calls[t].need THEN quietItems ELSE quietItems \cup {item}, add(d, times))
      BY <1>4, <1>11 DEF times, d
    <2>2. /\ atItems' = atItems \cup {item} /\ Update(t, add(d, times))
          /\ quietItems' \subseteq quietItems \cup {item}
          /\ unalarmed' = IF calls[t].need THEN unalarmed ELSE unalarmed \cup ({item} \ atItems)
          /\ UNCHANGED <<tasks, atTimerWakeUpTime, atAlarm, overlapped, next, events, clock,
                         requests, raced>>
      BY <1>11, <2>1 DEF ItemsChange
    <2>3. add(d, times) \in Calls /\ add(d, times).todo = d /\ add(d, times).times = times
          /\ add(d, times).form = calls[t].form
      BY <1>2, <1>8, <1>9
    <2> QED BY <1>3, <1>5, <1>8, <1>9, <1>11, <2>2, <2>3 DEF At
  <1> QED BY <1>10, <1>11

LEMMA FixedTyped ==
    ASSUME Typed, NEW t \in Threads,
           \/ AddUpdateAtTimer(t) \/ DeleteUpdateAtTimer(t) \/ UpdateTimerValue(t)
           \/ TakeUpdateAtItems(t)
    PROVE  Typed'
  <1> USE CallFacts
  <1>1. CASE AddUpdateAtTimer(t)
    <2>1. PICK a \in Times, c \in Calls :
              /\ At(t, "AddUpdateAtTimer")
              /\ atItems' = atItems \cup {<<calls[t].form, a>>} /\ Update(t, c)
              /\ quietItems' \subseteq quietItems \cup {<<calls[t].form, a>>}
              /\ c.times \subseteq calls[t].times
              /\ UNCHANGED <<tasks, atTimerWakeUpTime, atAlarm, overlapped, next, events, clock,
                             requests, raced>>
              /\ Legal(c.todo) /\ (Holds(c.todo) <=> Holds(calls[t].todo))
              /\ c.todo # <<>> => Head(c.todo) \in {"FindNextAtTimerItem", "AddItem", "Unlock",
                                                    "AddUpdateAtTimer"}
      BY <1>1, AddFacts
    <2>2. calls[t].times \subseteq Times
      <3>1. Has(calls[t].todo, "AddUpdateAtTimer")
        BY <2>1, HasCons DEF At
      <3> QED BY <3>1 DEF CallOK, Adding
    <2>3. CallOK(c, now)
      BY <2>1, <2>2 DEF CallOK, Opens
    <2>4. CallsOK' /\ LockIsKept'
      BY <2>1, <2>3, LockStays DEF clock, tasks
    <2>5. Listed'
      BY <2>1 DEF tasks, next, clock, Typed, Listed
    <2> QED BY <2>4, <2>5 DEF Typed
  <1>2. CASE DeleteUpdateAtTimer(t) \/ UpdateTimerValue(t) \/ TakeUpdateAtItems(t)
    <2>1. PICK items \in SUBSET ((Forms \cup {NoForm}) \X Times),
               quiet \in SUBSET ((Forms \cup {NoForm}) \X Times), c \in Calls :
            /\ ItemsChange(t, items, quiet, c) /\ quiet \subseteq items
            /\ c.todo = Rest(t) /\ c.times = calls[t].times
      <3>1. atItems \subseteq (Forms \cup {NoForm}) \X Times /\ quietItems \subseteq atItems
        BY DEF Typed, Listed
      <3>2. calls[t].todo # <<>> /\ Rest(t) \in Seq(Steps) /\ Found(t) \in Forms \cup {NoForm}
        BY <1>2 DEF DeleteUpdateAtTimer, UpdateTimerValue, TakeUpdateAtItems, At, Found
      <3> DEFINE d == [calls[t] EXCEPT !.todo = Rest(t)]
      <3>6. d \in Calls /\ d.todo = Rest(t) /\ d.times = calls[t].times
        BY <3>2, CallFields
      <3>3. CASE DeleteUpdateAtTimer(t)
        <4>1. PICK first : ItemsChange(t, atItems \ first, quietItems \ first, d)
          BY <3>3 DEF DeleteUpdateAtTimer
        <4>2. atItems \ first \subseteq (Forms \cup {NoForm}) \X Times
              /\ quietItems \ first \subseteq atItems \ first
          BY <3>1
        <4> HIDE DEF d
        <4> QED BY <3>6, <4>1, <4>2
      <3>4. CASE UpdateTimerValue(t)
        <4>1. Has(calls[t].todo, "UpdateTimerValue")
          BY <3>4, HasCons DEF UpdateTimerValue, At
        <4>2. calls[t].times \subseteq Times
          BY <4>1 DEF CallOK, Adding
        <4> DEFINE new == {<<Found(t), a>> : a \in calls[t].times}
                   items == (atItems \ Of(calls[t].form)) \cup new
                   quiet == (quietItems \ Of(calls[t].form)) \cup (IF FoundQuiet(t) THEN new ELSE {})
        <4>3. ItemsChange(t, items, quiet, d)
          BY <3>4 DEF UpdateTimerValue
        <4>5. new \subseteq (Forms \cup {NoForm}) \X Times
          BY <3>2, <4>2
        <4> HIDE DEF new
        <4>4. items \subseteq (Forms \cup {NoForm}) \X Times /\ quiet \subseteq items
          BY <3>1, <4>5
        <4> HIDE DEF d, items, quiet
        <4> QED BY <3>6, <4>3, <4>4
      <3>5. CASE TakeUpdateAtItems(t)
        <4> DEFINE e == [calls[t] EXCEPT !.todo = Rest(t), !.form = Found(t),
                                         !.need = ~FoundQuiet(t)]
        <4>1. e \in Calls /\ e.todo = Rest(t) /\ e.times = calls[t].times
          BY <3>2 DEF Calls
        <4>2. ItemsChange(t, atItems \ Of(calls[t].form), quietItems \ Of(calls[t].form), e)
          BY <3>5 DEF TakeUpdateAtItems
        <4>3. atItems \ Of(calls[t].form) \subseteq (Forms \cup {NoForm}) \X Times
              /\ quietItems \ Of(calls[t].form) \subseteq atItems \ Of(calls[t].form)
          BY <3>1
        <4> HIDE DEF e
        <4> QED BY <4>1, <4>2, <4>3
      <3> QED BY <1>2, <3>3, <3>4, <3>5
    <2>2. calls[t].todo # <<>> /\ Head(calls[t].todo) \notin {"IntervalToAtTimer", "Unlock"}
      BY <1>2 DEF DeleteUpdateAtTimer, UpdateTimerValue, TakeUpdateAtItems, At
    <2>3. CallsOK' /\ LockIsKept'
      BY <2>1, <2>2, RestKeepsLock DEF ItemsChange, clock, tasks
    <2>4. Listed'
      BY <2>1 DEF ItemsChange, tasks, next, clock, Typed, Listed
    <2> QED BY <2>3, <2>4 DEF Typed
  <1> QED BY <1>1, <1>2

\* The steps of the alarm's update: what the request goes on with.
LEMMA AlarmFacts ==
    ASSUME Typed, NEW t \in Threads,
           \/ CompareWakeUpTime(t) \/ StartUpdateAtTimer(t) \/ RecheckEmpty(t)
           \/ ClearUpdateAtTimerResource(t) \/ ForgetWakeUpTime(t) \/ HandleSystemTimeChanged(t)
    PROVE  \E c \in Calls :
              /\ Update(t, c) /\ c.form = calls[t].form /\ c.times = calls[t].times
              /\ Legal(c.todo) /\ (Holds(c.todo) <=> Holds(calls[t].todo))
              /\ Opens(c, "StartUpdateAtTimer") => At(t, "CompareWakeUpTime")
                                                   /\ c.found = calls[t].found
              /\ ~Opens(c, "CompareWakeUpTime") /\ ~Opens(c, "SetDynamicItem")
              /\ \A x : Has(c.todo, x) =>
                    \/ x \in AlarmHeads \cup {"ClearUpdateAtTimerResource"} \/ Has(calls[t].todo, x)
              /\ \A x : Has(calls[t].todo, x) => x = Head(calls[t].todo) \/ Has(c.todo, x)
  <1> DEFINE s == calls[t].todo
             d(rest) == [calls[t] EXCEPT !.todo = rest,
                           !.found = IF rest # <<>> /\ Head(rest) = "StartUpdateAtTimer" THEN @
                                     ELSE None]
  <1>1. /\ calls[t] \in Calls /\ Legal(s) /\ s \in Seq(Steps)
    BY CallFacts
  <1>2. s # <<>> /\ Rest(t) = Tail(s) /\ Rest(t) \in Seq(Steps)
        /\ Head(s) \in AlarmSteps \cup {"HandleSystemTimeChanged"}
    BY <1>1 DEF CompareWakeUpTime, StartUpdateAtTimer, RecheckEmpty, ClearUpdateAtTimerResource,
       ForgetWakeUpTime, HandleSystemTimeChanged, At, Rest, AlarmSteps
  <1>3. PICK rest : /\ Update(t, d(rest))
                    /\ \/ rest = Rest(t) /\ ~At(t, "HandleSystemTimeChanged")
                       \/ At(t, "CompareWakeUpTime") /\ rest = <<"StartUpdateAtTimer">> \o Rest(t)
                       \/ /\ At(t, "RecheckEmpty")
                          /\ rest = <<"ClearUpdateAtTimerResource", "ForgetWakeUpTime">> \o Rest(t)
                       \/ At(t, "HandleSystemTimeChanged") /\ rest \in {<<>>, ForgetFind}
    BY DEF CompareWakeUpTime, StartUpdateAtTimer, RecheckEmpty, ClearUpdateAtTimerResource,
       ForgetWakeUpTime, HandleSystemTimeChanged, AlarmStep, At, ForgetFind
  <1>4. \A r \in Seq(Steps) :
          /\ d(r) \in Calls /\ d(r).todo = r /\ d(r).times = calls[t].times
          /\ d(r).form = calls[t].form
          /\ r # <<>> /\ Head(r) = "StartUpdateAtTimer" => d(r).found = calls[t].found
    BY <1>1 DEF Calls
  <1>5. /\ rest \in Seq(Steps) /\ Legal(rest) /\ (Holds(rest) <=> Holds(s))
        /\ rest # <<>> => Head(rest) \notin {"CompareWakeUpTime", "SetDynamicItem"}
        /\ rest # <<>> /\ Head(rest) = "StartUpdateAtTimer" => At(t, "CompareWakeUpTime")
        /\ \A x : Has(rest, x) =>
              x \in AlarmHeads \cup {"ClearUpdateAtTimerResource"} \/ Has(s, x)
        /\ \A x : Has(s, x) => x = Head(s) \/ Has(rest, x)
    <2>1. CASE rest = Rest(t)
      <3>1. Legal(rest) /\ (rest # <<>> => Head(rest) \notin {"CompareWakeUpTime", "SetDynamicItem",
                                                              "StartUpdateAtTimer"})
        BY <1>1, <1>2, <2>1, RestIsLegal
      <3>2. Holds(rest) <=> Holds(s)
        BY <1>1, <1>2, <2>1, HoldsRest DEF AlarmSteps
      <3>3. \A x : Has(s, x) <=> x = Head(s) \/ Has(rest, x)
        BY <1>1, <1>2, <2>1, HasCons
      <3> QED BY <1>2, <2>1, <3>1, <3>2, <3>3
    <2>2. CASE At(t, "CompareWakeUpTime") /\ rest = <<"StartUpdateAtTimer">> \o Rest(t)
      <3>1. Head(s) = "CompareWakeUpTime" /\ "StartUpdateAtTimer" \in AlarmHeads
        BY <2>2 DEF At, AlarmHeads
      <3>2. /\ rest \in Seq(Steps) /\ Legal(rest) /\ (Holds(rest) <=> Holds(s)) /\ rest # <<>>
            /\ Head(rest) = "StartUpdateAtTimer"
            /\ \A x : Has(rest, x) <=> x = "StartUpdateAtTimer" \/ Has(Tail(s), x)
        BY <1>1, <1>2, <2>2, <3>1, UpdateGoesOn
      <3>3. \A x : Has(s, x) <=> x = Head(s) \/ Has(Tail(s), x)
        BY <1>1, <1>2, HasCons
      <3> QED BY <2>2, <3>1, <3>2, <3>3
    <2>3. CASE /\ At(t, "RecheckEmpty")
               /\ rest = <<"ClearUpdateAtTimerResource", "ForgetWakeUpTime">> \o Rest(t)
      <3>1. Head(s) = "RecheckEmpty"
        BY <2>3 DEF At
      <3>2. /\ rest \in Seq(Steps) /\ Legal(rest) /\ (Holds(rest) <=> Holds(s)) /\ rest # <<>>
            /\ Head(rest) = "ClearUpdateAtTimerResource"
            /\ \A x : Has(rest, x) <=> \/ x \in {"ClearUpdateAtTimerResource", "ForgetWakeUpTime"}
                                       \/ Has(Tail(s), x)
        BY <1>1, <1>2, <2>3, <3>1, ClearGoesOn
      <3>3. \A x : Has(s, x) <=> x = Head(s) \/ Has(Tail(s), x)
        BY <1>1, <1>2, HasCons
      <3> QED BY <2>3, <3>1, <3>2, <3>3 DEF AlarmHeads
    <2>4. CASE At(t, "HandleSystemTimeChanged") /\ rest \in {<<>>, ForgetFind}
      <3>1. Head(s) = "HandleSystemTimeChanged" /\ s = Changed /\ ~Holds(s)
        BY <1>1, <1>2, <2>4, ScriptsByHead, Beginnings DEF At
      <3>2. ForgetFind \in Seq(Steps) /\ ForgetFind # <<>> /\ Head(ForgetFind) = "ForgetWakeUpTime"
        BY Scripts DEF Is
      <3>3. rest \in Seq(Steps) /\ rest \in Plain
        <4>1. ForgetFind \in Plain /\ <<>> \in Plain /\ <<>> \in Seq(Steps)
          BY DEF Plain, Tails
        <4> QED BY <2>4, <3>2, <4>1
      <3>4. ~Holds(rest)
        <4>1. ForgetFind \notin {ItemUnlock, ItemAtUnlock, AtUnlock, UnlockLast}
          BY FirstOf
        <4> QED BY <2>4, <3>3, <4>1, PlainHolds, NothingHolds
      <3>5. /\ \A x : Has(rest, x) => x \in {"ForgetWakeUpTime", "FindNextAtTimerItem"}
            /\ \A x : Has(s, x) => x = Head(s)
        BY <2>4, <3>1, HasOf, HasNone
      <3> QED BY <2>4, <3>1, <3>2, <3>3, <3>4, <3>5 DEF Legal, AlarmHeads
    <2> QED BY <1>3, <2>1, <2>2, <2>3, <2>4
  <1>6. d(rest) \in Calls /\ d(rest).todo = rest /\ d(rest).times = calls[t].times
        /\ d(rest).form = calls[t].form
        /\ (rest # <<>> /\ Head(rest) = "StartUpdateAtTimer" => d(rest).found = calls[t].found)
    BY <1>4, <1>5
  <1> HIDE DEF d
  <1> QED BY <1>3, <1>5, <1>6 DEF Opens

LEMMA FindFacts ==
    ASSUME Typed, NEW t \in Threads, FindNextAtTimerItem(t)
    PROVE  \E c \in Calls :
              /\ Update(t, c) /\ c.form = calls[t].form /\ c.times = calls[t].times
              /\ Legal(c.todo) /\ (Holds(c.todo) <=> Holds(calls[t].todo)) /\ c.todo # <<>>
              /\ \/ atItems = {} /\ Head(c.todo) = "RecheckEmpty"
                 \/ /\ atItems # {} /\ Head(c.todo) = "CompareWakeUpTime" /\ c.found \in Items
                    /\ c.found.at \in {item[2] : item \in atItems}
                    /\ c.found.wake = NextTime(c.found.at)
                    /\ \A item \in atItems : c.found.wake <= NextTime(item[2])
              /\ \A x : Has(c.todo, x) => x \in AlarmHeads \/ Has(calls[t].todo, x)
              /\ \A x : Has(calls[t].todo, x) => x = Head(calls[t].todo) \/ Has(c.todo, x)
  <1> DEFINE s == calls[t].todo
  <1>1. /\ calls[t] \in Calls /\ Legal(s) /\ s \in Seq(Steps) /\ s # <<>>
        /\ Head(s) = "FindNextAtTimerItem" /\ Rest(t) = Tail(s)
    BY CallFacts DEF FindNextAtTimerItem, At, Rest
  <1>2. \A x : Has(s, x) <=> x = Head(s) \/ Has(Tail(s), x)
    BY <1>1, HasCons
  <1>3. \A y \in AlarmHeads :
          LET r == <<y>> \o Rest(t) IN
          /\ r \in Seq(Steps) /\ r # <<>> /\ Head(r) = y
          /\ Legal(r) /\ (Holds(r) <=> Holds(s))
          /\ \A x : Has(r, x) <=> x = y \/ Has(Tail(s), x)
    BY <1>1, UpdateGoesOn
  <1>4. CASE atItems = {}
    <2> DEFINE r == <<"RecheckEmpty">> \o Rest(t)
               c == [calls[t] EXCEPT !.todo = r]
    <2>1. "RecheckEmpty" \in AlarmHeads
      BY DEF AlarmHeads
    <2>2. /\ r \in Seq(Steps) /\ r # <<>> /\ Head(r) = "RecheckEmpty"
          /\ Legal(r) /\ (Holds(r) <=> Holds(s))
          /\ \A x : Has(r, x) <=> x = "RecheckEmpty" \/ Has(Tail(s), x)
      BY <1>3, <2>1
    <2>3. Update(t, c)
      BY <1>4 DEF FindNextAtTimerItem, GoOn
    <2> HIDE DEF r
    <2>4. c \in Calls /\ c.todo = r /\ c.times = calls[t].times /\ c.form = calls[t].form
      BY <1>1, <2>2, CallFields
    <2> HIDE DEF c
    <2> QED BY <1>2, <1>4, <2>1, <2>2, <2>3, <2>4
  <1>5. CASE atItems # {}
    <2>1. PICK item \in atItems :
            /\ \A other \in atItems : NextTime(item[2]) <= NextTime(other[2])
            /\ Update(t, [calls[t] EXCEPT !.todo = <<"CompareWakeUpTime">> \o Rest(t),
                         !.found = [at |-> item[2], wake |-> NextTime(item[2])]])
      BY <1>5 DEF FindNextAtTimerItem
    <2> DEFINE r == <<"CompareWakeUpTime">> \o Rest(t)
               n == [at |-> item[2], wake |-> NextTime(item[2])]
               c == [calls[t] EXCEPT !.todo = r, !.found = n]
    <2>2. "CompareWakeUpTime" \in AlarmHeads
      BY DEF AlarmHeads
    <2>3. /\ r \in Seq(Steps) /\ r # <<>> /\ Head(r) = "CompareWakeUpTime"
          /\ Legal(r) /\ (Holds(r) <=> Holds(s))
          /\ \A x : Has(r, x) <=> x = "CompareWakeUpTime" \/ Has(Tail(s), x)
      BY <1>3, <2>2
    <2>4. item[2] \in Times
      BY DEF Typed, Listed
    <2>5. NextTime(item[2]) \in Moments
      BY <2>4, NextTimeFacts DEF Typed, Listed
    <2>6. n \in Items /\ n.at = item[2] /\ n.wake = NextTime(item[2])
      BY <2>4, <2>5 DEF Items
    <2>7. Update(t, c)
      BY <2>1
    <2> HIDE DEF r, n
    <2>8. /\ c \in Calls /\ c.todo = r /\ c.times = calls[t].times /\ c.form = calls[t].form
          /\ c.found = n
      BY <1>1, <2>3, <2>6 DEF Calls
    <2>9. n.at \in {i[2] : i \in atItems}
      BY <2>6
    <2> HIDE DEF c
    <2> QED BY <1>2, <1>5, <2>1, <2>2, <2>3, <2>6, <2>7, <2>8, <2>9
  <1> QED BY <1>4, <1>5

LEMMA AlarmTyped ==
    ASSUME Typed, NEW t \in Threads,
           \/ FindNextAtTimerItem(t) \/ CompareWakeUpTime(t) \/ StartUpdateAtTimer(t)
           \/ RecheckEmpty(t) \/ ClearUpdateAtTimerResource(t) \/ ForgetWakeUpTime(t)
           \/ HandleSystemTimeChanged(t)
    PROVE  Typed'
  <1> USE CallFacts
  <1>1. UNCHANGED <<tasks, atItems, quietItems, next, events, clock, requests, raced>>
    BY DEF FindNextAtTimerItem, CompareWakeUpTime, StartUpdateAtTimer, RecheckEmpty,
       ClearUpdateAtTimerResource, ForgetWakeUpTime, HandleSystemTimeChanged, AlarmStep
  <1>2. /\ At(t, "CompareWakeUpTime") \/ At(t, "StartUpdateAtTimer") => calls[t].found \in Items
        /\ calls[t].found \in Items => calls[t].found.wake \in Moments
    BY DEF CallOK, Opens, At, Items
  <1>3. /\ atTimerWakeUpTime' \in Moments \cup {Never} /\ atAlarm' \in Items \cup {None}
        /\ overlapped' \in BOOLEAN
    <2>1. /\ atTimerWakeUpTime \in Moments \cup {Never} /\ atAlarm \in Items \cup {None}
          /\ overlapped \in BOOLEAN
      BY DEF Typed, Listed
    <2>2. overlapped' \in BOOLEAN
      <3>1. Overlap(t) \in BOOLEAN
        BY <2>1 DEF Overlap
      <3> QED BY <3>1 DEF FindNextAtTimerItem, CompareWakeUpTime, StartUpdateAtTimer, RecheckEmpty,
             ClearUpdateAtTimerResource, ForgetWakeUpTime, HandleSystemTimeChanged, AlarmStep
    <2> QED BY <1>2, <2>1, <2>2 DEF FindNextAtTimerItem, CompareWakeUpTime, StartUpdateAtTimer,
           RecheckEmpty, ClearUpdateAtTimerResource, ForgetWakeUpTime, HandleSystemTimeChanged,
           AlarmStep
  <1>4. Listed'
    BY <1>1, <1>3 DEF tasks, next, clock, Typed, Listed
  <1>5. PICK c \in Calls :
          /\ Update(t, c) /\ c.times = calls[t].times
          /\ Legal(c.todo) /\ (Holds(c.todo) <=> Holds(calls[t].todo))
          /\ Opens(c, "CompareWakeUpTime") \/ Opens(c, "StartUpdateAtTimer") => c.found \in Items
          /\ ~Opens(c, "SetDynamicItem")
          /\ \A x \in Adding : Has(c.todo, x) => Has(calls[t].todo, x)
    <2>1. (AlarmHeads \cup {"ClearUpdateAtTimerResource"}) \cap Adding = {}
      BY DEF AlarmHeads, Adding
    <2>2. CASE FindNextAtTimerItem(t)
      <3>1. PICK c \in Calls :
              /\ Update(t, c) /\ c.times = calls[t].times
              /\ Legal(c.todo) /\ (Holds(c.todo) <=> Holds(calls[t].todo)) /\ c.todo # <<>>
              /\ \/ Head(c.todo) = "RecheckEmpty"
                 \/ Head(c.todo) = "CompareWakeUpTime" /\ c.found \in Items
              /\ \A x : Has(c.todo, x) => x \in AlarmHeads \/ Has(calls[t].todo, x)
        BY <2>2, FindFacts
      <3> QED BY <2>1, <3>1 DEF Opens
    <2>3. CASE ~FindNextAtTimerItem(t)
      <3>1. PICK c \in Calls :
              /\ Update(t, c) /\ c.times = calls[t].times
              /\ Legal(c.todo) /\ (Holds(c.todo) <=> Holds(calls[t].todo))
              /\ Opens(c, "StartUpdateAtTimer") => At(t, "CompareWakeUpTime")
                                                   /\ c.found = calls[t].found
              /\ ~Opens(c, "CompareWakeUpTime") /\ ~Opens(c, "SetDynamicItem")
              /\ \A x : Has(c.todo, x) =>
                    \/ x \in AlarmHeads \cup {"ClearUpdateAtTimerResource"} \/ Has(calls[t].todo, x)
        BY <2>3, AlarmFacts
      <3> QED BY <1>2, <2>1, <3>1
    <2> QED BY <2>2, <2>3
  <1>6. CallOK(c, now)
    BY <1>5 DEF CallOK
  <1>7. CallsOK' /\ LockIsKept'
    BY <1>1, <1>5, <1>6, LockStays DEF clock, tasks
  <1> QED BY <1>4, <1>7 DEF Typed

LEMMA TimeTyped ==
    ASSUME Typed, UpdateAtAlarmFires \/ DynamicAlarmFires \/ Tick \/ TimeIsSet
    PROVE  Typed'
  <1>1. calls' = calls /\ intervalMutex' = intervalMutex
    BY DEF UpdateAtAlarmFires, DynamicAlarmFires, Tick, TimeIsSet, tasks
  <1>2. Listed'
    <2>1. CASE UpdateAtAlarmFires
      <3>1. atAlarm.at \in Moments
        <4>1. atAlarm \in Items
          BY <2>1 DEF UpdateAtAlarmFires, AlarmDue, Typed, Listed
        <4>2. Times \subseteq Moments
          BY TimersAssumption DEF Moments
        <4> QED BY <4>1, <4>2 DEF Items
      <3> QED BY <2>1, <3>1 DEF UpdateAtAlarmFires, tasks, fixed, next, clock, Typed, Listed
    <2>2. CASE DynamicAlarmFires
      <3>1. dynamicAlarm \in Moments
        BY <2>2, TimersAssumption DEF DynamicAlarmFires, Typed, Listed, Never
      <3> QED BY <2>2, <3>1 DEF DynamicAlarmFires, tasks, fixed, next, clock, Typed, Listed
    <2>3. CASE Tick
      BY <2>3, TimersAssumption DEF Tick, tasks, fixed, next, clock, Typed, Listed
    <2>4. CASE TimeIsSet
      <3>1. 0 \in Moments
        BY TimersAssumption DEF Moments
      <3> QED BY <2>4, <3>1, TimersAssumption DEF TimeIsSet, tasks, fixed, next, clock, Typed, Listed
    <2> QED BY <2>1, <2>2, <2>3, <2>4
  <1>3. CallsOK'
    <2>1. ASSUME NEW t \in Threads PROVE CallOK(calls[t], now')
      <3>1. CallOK(calls[t], now)
        BY DEF Typed, CallsOK
      <3>2. CASE now' = now
        BY <3>1, <3>2
      <3>3. CASE Tick
        BY <3>1, <3>3 DEF CallOK, Tick, At, Opens
      <3> QED BY <3>2, <3>3 DEF UpdateAtAlarmFires, DynamicAlarmFires, TimeIsSet, clock
    <2> QED BY <1>1, <2>1 DEF CallsOK, CallOK, Typed
  <1> QED BY <1>1, <1>2, <1>3 DEF Typed, LockIsKept

LEMMA NextTyped == Typed /\ [Next]_vars => Typed'
  <1> SUFFICES ASSUME Typed, [Next]_vars PROVE Typed'
    OBVIOUS
  <1>1. CASE UNCHANGED vars
    BY <1>1 DEF vars, tasks, fixed, next, clock, Typed, Listed, CallsOK, CallOK, LockIsKept
  <1>2. ASSUME NEW t \in Threads, NEW f \in Forms, Request(t, f) PROVE Typed'
    BY <1>2, RequestTyped
  <1>3. ASSUME NEW t \in Threads, OnReceiveEvent(t) PROVE Typed'
    BY <1>3, EventTyped
  <1>4. ASSUME NEW t \in Threads, Step(t) PROVE Typed'
    BY <1>4, IntervalTyped, LockTyped, DynamicTyped, FixedTyped, AlarmTyped DEF Step
  <1> QED BY <1>1, <1>2, <1>3, <1>4, TimeTyped DEF Next

LEMMA InitTyped == Init => Typed
  <1> SUFFICES ASSUME Init PROVE Typed
    OBVIOUS
  <1>1. Listed
    <2>1. 0 \in 0 .. MaxTime /\ 0 \in 0 .. (Day - 1) /\ 0 \in Nat
      BY TimersAssumption
    <2> QED BY <2>1 DEF Init, Listed
  <1>2. ~Holds(Idle.todo) /\ Idle.todo = <<>> /\ Idle \in Calls
    BY NothingHolds DEF Idle, Calls, Moments
  <1>3. now \in Nat
    BY DEF Init
  <1>4. CallsOK
    BY <1>2, <1>3, IdleIsOK DEF Init, CallsOK
  <1> QED BY <1>1, <1>4 DEF Init, Typed, LockIsKept

\* Whatever the forms and their times: the lists hold forms and times, the alarms
\* moments, the requests known steps, and intervalMutex_ is only kept by a request
\* whose last step gives it back (IntervalToAtTimer), also when it adds several times.
THEOREM TimersAreTyped == Spec => []TypeOK
  <1>1. ASSUME Typed PROVE TypeOK
    <2>1. ASSUME NEW t \in Threads PROVE Range(calls[t].todo) \subseteq Steps
      BY <1>1, CallFacts DEF Range
    <2>2. ASSUME NEW t \in Threads, Holds(calls[t].todo)
          PROVE  calls[t].todo # <<>> /\ Last(calls[t].todo) = "Unlock"
      BY <1>1, <2>2, CallFacts, UnlockIsLast
    <2>3. intervalMutex = "free" \/ \E t \in Threads :
             intervalMutex = t /\ calls[t].todo # <<>> /\ Last(calls[t].todo) = "Unlock"
      BY <1>1, <2>2 DEF Typed, LockIsKept
    <2> QED BY <1>1, <2>1, <2>3, CallFacts DEF TypeOK, Typed, Listed, Items
  <1> QED BY <1>1, InitTyped, NextTyped, PTL DEF Spec

--------------------------------------------------------------------------------
(* What has a timer is known to the limiter.                               *)

\* Of a form no two requests have worked on at once: one request works on it at a
\* time; what is listed is in the limiter or about to be; and what is deleted from
\* the limiter has no timer.
OneEach == \A t, u \in Threads : calls[t].form \in Forms \ raced /\ calls[u].form = calls[t].form
                                 => t = u
Timed(f) == f \in interval \/ dynamic[f] # Never
Serving(s) == s \in {Item, AlarmItem}
Known(f) == f \in limiter \/ \E t \in Threads : calls[t].form = f /\ Serving(calls[t].todo)
Removes(c) ==
    c.form \in Forms \ raced /\ Has(c.todo, "DeleteItem") =>
        /\ Has(c.todo, "DeleteIntervalTimer") \/ c.form \notin interval
        /\ Has(c.todo, "DeleteDynamicItem") \/ dynamic[c.form] = Never
Served ==
    /\ interval # {} => ticker
    /\ OneEach
    /\ \A f \in Forms \ raced : Timed(f) => Known(f)
    /\ \A t \in Threads : Removes(calls[t])

LEMMA ServingFacts ==
    /\ ~Serving(<<>>) /\ \A s : Serving(s) => Head(s) \in {"AddItem", "UpdateDynamicAlarm"}
    /\ \A s : Serving(s) => s # <<>>
  <1>1. Item # <<>> /\ AlarmItem # <<>>
    BY Scripts DEF Is
  <1> QED BY <1>1, FirstOf DEF Serving

\* A step of a request: what others rely on stays if the step leaves the other forms'
\* timers as they are or removes them.
LEMMA StepServes ==
    ASSUME Typed, Served, NEW t \in Threads, NEW c \in Calls, Update(t, c), raced' = raced,
           c.form \in {calls[t].form, NoForm},
           interval' # {} => ticker',
           interval' \subseteq interval \cup {calls[t].form},
           \A f \in Forms \ {calls[t].form} : dynamic'[f] \in {dynamic[f], Never},
           limiter \ {calls[t].form} \subseteq limiter',
           \A f \in Forms \ raced : f = calls[t].form /\ Timed(f)' =>
              \/ f \in limiter'
              \/ c.form = f /\ Serving(c.todo)
              \/ (f \in limiter => f \in limiter') /\ Timed(f) /\ ~Serving(calls[t].todo),
           c.form \in Forms \ raced /\ Has(c.todo, "DeleteItem") =>
              /\ Has(c.todo, "DeleteIntervalTimer") \/ c.form \notin interval'
              /\ Has(c.todo, "DeleteDynamicItem") \/ dynamic'[c.form] = Never
    PROVE  Served'
  <1>1. /\ calls'[t] = (IF c.todo = <<>> THEN Idle ELSE c) /\ calls'[t].todo = c.todo
        /\ \A u \in Threads : u # t => calls'[u] = calls[u]
    BY UpdateFacts DEF Typed, CallsOK
  <1>2. Idle.form = NoForm /\ Idle.todo = <<>> /\ NoForm \notin Forms
    BY TimersAssumption DEF Idle
  <1>3. calls'[t].form \in {calls[t].form, NoForm}
    BY <1>1, <1>2
  <1>4. OneEach'
    <2> SUFFICES ASSUME NEW v \in Threads, NEW u \in Threads,
                        calls'[v].form \in Forms \ raced, calls'[u].form = calls'[v].form
                 PROVE  v = u
      BY DEF OneEach
    <2>1. calls'[v].form = calls[v].form /\ calls'[u].form = calls[u].form
      BY <1>1, <1>2, <1>3
    <2> QED BY <2>1 DEF Served, OneEach
  <1>5. ASSUME NEW f \in Forms \ raced, Timed(f)' PROVE Known(f)'
    <2>1. c.form = f /\ Serving(c.todo) => Known(f)'
      BY <1>1, ServingFacts DEF Known
    <2>2. ASSUME Timed(f), f \in limiter => f \in limiter',
                 f # calls[t].form \/ ~Serving(calls[t].todo)
          PROVE  Known(f)'
      <3>1. Known(f)
        BY <2>2 DEF Served
      <3> QED BY <1>1, <2>2, <3>1 DEF Known
    <2>3. CASE f = calls[t].form
      BY <1>5, <2>1, <2>2, <2>3 DEF Known
    <2>4. CASE f # calls[t].form
      <3>1. Timed(f)
        BY <1>5, <2>4 DEF Timed
      <3> QED BY <2>2, <2>4, <3>1
    <2> QED BY <2>3, <2>4
  <1>6. ASSUME NEW u \in Threads, u # t PROVE Removes(calls[u])'
    <2>1. Removes(calls[u]) /\ calls'[u] = calls[u]
      BY <1>1, <1>6 DEF Served
    <2>2. calls[u].form \in Forms \ raced => calls[u].form # calls[t].form
      BY <1>6 DEF Served, OneEach
    <2> QED BY <2>1, <2>2 DEF Removes
  <1>7. Removes(calls[t])'
    BY <1>1, <1>2, HasNone DEF Removes
  <1> QED BY <1>4, <1>5, <1>6, <1>7 DEF Served

LEMMA OtherServes ==
    ASSUME Typed, Served, NEW t \in Threads, NEW c \in Calls, Update(t, c),
           UNCHANGED <<interval, ticker, limiter, dynamic, raced>>,
           c.form \in {calls[t].form, NoForm}, ~Serving(calls[t].todo),
           Has(c.todo, "DeleteItem") => Has(calls[t].todo, "DeleteItem"),
           Has(calls[t].todo, "DeleteIntervalTimer") => Has(c.todo, "DeleteIntervalTimer"),
           Has(calls[t].todo, "DeleteDynamicItem") => Has(c.todo, "DeleteDynamicItem")
    PROVE  Served'
  <1>1. Removes(calls[t]) /\ NoForm \notin Forms
    BY TimersAssumption DEF Served
  <1>2. c.form \in Forms \ raced /\ Has(c.todo, "DeleteItem") =>
              /\ Has(c.todo, "DeleteIntervalTimer") \/ c.form \notin interval'
              /\ Has(c.todo, "DeleteDynamicItem") \/ dynamic'[c.form] = Never
    BY <1>1 DEF Removes
  <1>3. /\ interval' # {} => ticker'
        /\ \A f \in Forms \ raced : f = calls[t].form /\ Timed(f)' =>
              (f \in limiter => f \in limiter') /\ Timed(f) /\ ~Serving(calls[t].todo)
    BY DEF Served, Timed
  <1> QED BY <1>2, <1>3, StepServes

LEMMA NothingServes ==
    ASSUME Served, UNCHANGED <<interval, ticker, limiter, dynamic, raced, calls>>
    PROVE  Served'
  BY DEF Served, OneEach, Timed, Known, Removes

LEMMA RequestServes ==
    ASSUME Typed, Served, NEW t \in Threads, NEW f \in Forms, Request(t, f)
    PROVE  Served'
  <1>1. PICK s \in Requests, times \in SUBSET Moments, need \in BOOLEAN :
          BeginTask(t, f, s, times, need)
    BY RequestBegins
  <1>2. s # <<>> /\ s \in Seq(Steps)
    BY Beginnings DEF Requests
  <1>3. /\ UNCHANGED <<interval, ticker, limiter, dynamic>> /\ calls[t] = Idle
        /\ raced' = IF \E u \in Threads : calls[u].form = f THEN raced \cup {f} ELSE raced
        /\ calls' = [calls EXCEPT ![t] =
             [todo |-> s, form |-> f, times |-> times, need |-> need, found |-> None]]
    BY <1>1 DEF BeginTask, tasks, next
  <1>4. /\ calls'[t].form = f /\ calls'[t].todo = s
        /\ \A u \in Threads : u # t => calls'[u] = calls[u]
    BY <1>3 DEF Typed, CallsOK
  <1>5. Idle.form = NoForm /\ Idle.todo = <<>> /\ NoForm \notin Forms
    BY TimersAssumption DEF Idle
  <1>6. OneEach'
    <2> SUFFICES ASSUME NEW v \in Threads, NEW u \in Threads,
                        calls'[v].form \in Forms \ raced', calls'[u].form = calls'[v].form
                 PROVE  v = u
      BY DEF OneEach
    <2>1. raced \subseteq raced' /\ \A w \in Threads : calls[w].form = f => f \in raced'
      BY <1>3
    <2>2. CASE v # t /\ u # t
      BY <1>4, <2>1, <2>2 DEF Served, OneEach
    <2>3. CASE v = t \/ u = t
      BY <1>4, <2>1, <2>3
    <2> QED BY <2>2, <2>3
  <1>7. ASSUME NEW g \in Forms \ raced', Timed(g)' PROVE Known(g)'
    <2>1. Timed(g) /\ g \in Forms \ raced
      BY <1>3, <1>7 DEF Timed
    <2>2. Known(g)
      BY <2>1 DEF Served
    <2> QED BY <1>3, <1>4, <1>5, <2>2, ServingFacts DEF Known
  <1>8. ASSUME NEW u \in Threads PROVE Removes(calls[u])'
    <2>1. CASE u # t
      <3>1. Removes(calls[u]) /\ raced \subseteq raced'
        BY <1>3 DEF Served
      <3> QED BY <1>3, <1>4, <2>1, <3>1 DEF Removes
    <2>2. CASE u = t
      <3>1. Has(s, "DeleteItem") => Has(s, "DeleteIntervalTimer") /\ Has(s, "DeleteDynamicItem")
        BY HasOf, HasNone DEF Requests
      <3> QED BY <1>4, <2>2, <3>1 DEF Removes
    <2> QED BY <2>1, <2>2
  <1> QED BY <1>3, <1>6, <1>7, <1>8 DEF Served

LEMMA EventServes ==
    ASSUME Typed, Served, NEW t \in Threads, OnReceiveEvent(t)
    PROVE  Served'
  <1>1. PICK e \in events, c \in Calls :
              /\ Update(t, c) /\ calls[t] = Idle /\ c.form = NoForm
              /\ c.todo = IF e.type = "static" THEN FindLast
                          ELSE IF e.type = "timeChanged" THEN Changed
                          ELSE IF Refused(e.time) THEN <<>> ELSE Trigger
              /\ UNCHANGED <<tasks, fixed, next, clock, requests, raced>>
    BY EventFacts
  <1>2. ~Has(c.todo, "DeleteItem") /\ calls[t].todo = <<>>
    BY <1>1, HasOf, HasNone DEF Idle
  <1>3. UNCHANGED <<interval, ticker, limiter, dynamic, raced>>
    BY <1>1 DEF tasks, next
  <1> QED BY <1>1, <1>2, <1>3, OtherServes, ServingFacts, HasNone

\* A step and the rest of its request.
LEMMA GoOnFacts ==
    ASSUME Typed, NEW t \in Threads, calls[t].todo # <<>>
    PROVE  /\ \A x : Has(calls[t].todo, x) <=> x = Head(calls[t].todo) \/ Has(Rest(t), x)
           /\ \A s \in Seq(Steps) : GoOn(t, s) =>
                 \E c \in Calls : /\ Update(t, c) /\ c.todo = s /\ c.form = calls[t].form
                                 /\ c.times = calls[t].times /\ c.found = calls[t].found
  <1>1. /\ calls[t] \in Calls /\ calls[t].todo \in Seq(Steps)
    BY CallFacts
  <1>2. \A x : Has(calls[t].todo, x) <=> x = Head(calls[t].todo) \/ Has(Rest(t), x)
    BY <1>1, HasCons DEF Rest
  <1>3. ASSUME NEW s \in Seq(Steps), GoOn(t, s)
        PROVE  \E c \in Calls : /\ Update(t, c) /\ c.todo = s /\ c.form = calls[t].form
                               /\ c.times = calls[t].times /\ c.found = calls[t].found
    <2> DEFINE c == [calls[t] EXCEPT !.todo = s]
    <2>1. c \in Calls /\ c.todo = s /\ c.form = calls[t].form /\ c.times = calls[t].times
          /\ c.found = calls[t].found
      BY <1>1, CallFields
    <2>2. Update(t, c)
      BY <1>3 DEF GoOn
    <2> HIDE DEF c
    <2> QED BY <2>1, <2>2
  <1> QED BY <1>2, <1>3

\* A conversion goes on, or ends if there is nothing to convert.
LEMMA ToAtFacts ==
    ASSUME Typed, NEW t \in Threads, IntervalToAtTimer(t)
    PROVE  /\ calls[t].todo = IntervalToAt
           /\ \E c \in Calls : /\ Update(t, c) /\ c.form = calls[t].form
                              /\ c.todo \in {AtUnlock, <<>>}
  <1>1. /\ calls[t] \in Calls /\ calls[t].todo = IntervalToAt
    BY CallFacts, ScriptsByHead DEF IntervalToAtTimer, At
  <1>2. Rest(t) = AtUnlock /\ AtUnlock \in Seq(Steps) /\ <<>> \in Seq(Steps)
    <2>1. Rest(t) = AtUnlock
      BY <1>1, RestOf DEF Rest
    <2>2. AtUnlock \in Seq(Steps)
      BY Scripts DEF Is
    <2> QED BY <2>1, <2>2
  <1>3. CASE calls[t].form \in interval
    <2> DEFINE c == [calls[t] EXCEPT !.todo = Rest(t), !.need = calls[t].form \notin quietTasks]
    <2>1. c \in Calls /\ c.todo = AtUnlock /\ c.form = calls[t].form
      BY <1>1, <1>2 DEF Calls
    <2>2. Update(t, c)
      BY <1>3 DEF IntervalToAtTimer
    <2> HIDE DEF c
    <2> QED BY <1>1, <2>1, <2>2
  <1>4. CASE calls[t].form \notin interval
    <2> DEFINE c == [calls[t] EXCEPT !.todo = <<>>]
    <2>1. c \in Calls /\ c.todo = <<>> /\ c.form = calls[t].form
      BY <1>1, <1>2, CallFields
    <2>2. Update(t, c)
      BY <1>4 DEF IntervalToAtTimer, GoOn
    <2> HIDE DEF c
    <2> QED BY <1>1, <2>1, <2>2
  <1> QED BY <1>3, <1>4

\* The steps of fixed times leave the others of their request as they are.
LEMMA FixedSteps ==
    ASSUME Typed, NEW t \in Threads,
           \/ AddUpdateAtTimer(t) \/ DeleteUpdateAtTimer(t) \/ UpdateTimerValue(t)
           \/ TakeUpdateAtItems(t) \/ FindNextAtTimerItem(t) \/ CompareWakeUpTime(t)
           \/ StartUpdateAtTimer(t) \/ RecheckEmpty(t) \/ ClearUpdateAtTimerResource(t)
           \/ ForgetWakeUpTime(t) \/ HandleSystemTimeChanged(t) \/ Unlock(t)
    PROVE  /\ calls[t].todo # <<>>
           /\ Head(calls[t].todo) \in AlarmSteps \cup {"FindNextAtTimerItem", "AddUpdateAtTimer",
                  "DeleteUpdateAtTimer", "UpdateTimerValue", "TakeUpdateAtItems",
                  "HandleSystemTimeChanged", "Unlock"}
           /\ UNCHANGED <<interval, ticker, limiter, next, events, now, raced>>
           /\ \E c \in Calls :
                /\ Update(t, c) /\ c.form \in {calls[t].form, NoForm}
                /\ \A x : Has(c.todo, x) =>
                      \/ x \in AlarmHeads \cup {"ClearUpdateAtTimerResource", "AddItem"}
                      \/ Has(calls[t].todo, x)
                /\ \A x : Has(calls[t].todo, x) => x = Head(calls[t].todo) \/ Has(c.todo, x)
  <1> DEFINE s == calls[t].todo
  <1>1. s # <<>> /\ Head(s) \in AlarmSteps \cup {"FindNextAtTimerItem", "AddUpdateAtTimer",
                 "DeleteUpdateAtTimer", "UpdateTimerValue", "TakeUpdateAtItems",
                 "HandleSystemTimeChanged", "Unlock"}
    BY DEF AddUpdateAtTimer, DeleteUpdateAtTimer, UpdateTimerValue, TakeUpdateAtItems,
       FindNextAtTimerItem, CompareWakeUpTime, StartUpdateAtTimer, RecheckEmpty,
       ClearUpdateAtTimerResource, ForgetWakeUpTime, HandleSystemTimeChanged, Unlock, At, AlarmSteps
  <1>2. UNCHANGED <<interval, ticker, limiter, next, events, now, raced>>
    BY DEF AddUpdateAtTimer, DeleteUpdateAtTimer, UpdateTimerValue, TakeUpdateAtItems,
       FindNextAtTimerItem, CompareWakeUpTime, StartUpdateAtTimer, RecheckEmpty,
       ClearUpdateAtTimerResource, ForgetWakeUpTime, HandleSystemTimeChanged, Unlock, ItemsChange,
       AlarmStep, tasks, clock
  <1>3. \E c \in Calls :
          /\ Update(t, c) /\ c.form \in {calls[t].form, NoForm}
          /\ \A x : Has(c.todo, x) =>
                \/ x \in AlarmHeads \cup {"ClearUpdateAtTimerResource", "AddItem"} \/ Has(s, x)
          /\ \A x : Has(s, x) => x = Head(s) \/ Has(c.todo, x)
    <2>1. "FindNextAtTimerItem" \in AlarmHeads
      BY DEF AlarmHeads
    <2>2. CASE AddUpdateAtTimer(t)
      BY <2>1, <2>2, AddFacts
    <2>3. CASE FindNextAtTimerItem(t)
      BY <2>3, FindFacts
    <2>4. CASE \/ CompareWakeUpTime(t) \/ StartUpdateAtTimer(t) \/ RecheckEmpty(t)
               \/ ClearUpdateAtTimerResource(t) \/ ForgetWakeUpTime(t) \/ HandleSystemTimeChanged(t)
      BY <2>4, AlarmFacts
    <2>5. Rest(t) \in Seq(Steps) /\ calls[t] \in Calls /\ Found(t) \in {calls[t].form, NoForm}
          /\ \A x : Has(s, x) <=> x = Head(s) \/ Has(Rest(t), x)
      BY <1>1, CallFacts, GoOnFacts DEF Found
    <2>6. CASE DeleteUpdateAtTimer(t) \/ UpdateTimerValue(t) \/ Unlock(t)
      <3>1. GoOn(t, Rest(t))
        BY <2>6 DEF DeleteUpdateAtTimer, UpdateTimerValue, Unlock, ItemsChange, GoOn
      <3> QED BY <1>1, <2>5, <3>1, GoOnFacts
    <2>7. CASE TakeUpdateAtItems(t)
      <3> DEFINE d == [calls[t] EXCEPT !.todo = Rest(t), !.form = Found(t),
                                       !.need = ~FoundQuiet(t)]
      <3>1. Found(t) \in Forms \cup {NoForm}
        BY <2>5, CallFacts
      <3>2. d \in Calls /\ d.todo = Rest(t) /\ d.form = Found(t)
        BY <2>5, <3>1 DEF Calls
      <3>3. Update(t, d)
        BY <2>7 DEF TakeUpdateAtItems, ItemsChange
      <3> HIDE DEF d
      <3> QED BY <2>5, <3>2, <3>3
    <2> QED BY <2>2, <2>3, <2>4, <2>6, <2>7
  <1> QED BY <1>1, <1>2, <1>3

LEMMA FixedServes ==
    ASSUME Typed, Served, NEW t \in Threads,
           \/ AddUpdateAtTimer(t) \/ DeleteUpdateAtTimer(t) \/ UpdateTimerValue(t)
           \/ TakeUpdateAtItems(t) \/ FindNextAtTimerItem(t) \/ CompareWakeUpTime(t)
           \/ StartUpdateAtTimer(t) \/ RecheckEmpty(t) \/ ClearUpdateAtTimerResource(t)
           \/ ForgetWakeUpTime(t) \/ HandleSystemTimeChanged(t) \/ Unlock(t)
    PROVE  Served'
  <1> DEFINE s == calls[t].todo
  <1>1. s # <<>> /\ UNCHANGED <<interval, ticker, limiter, dynamic, raced>>
    BY FixedSteps DEF next
  <1>2. /\ Head(s) \notin {"AddItem", "UpdateDynamicAlarm", "DeleteItem", "DeleteIntervalTimer",
                           "DeleteDynamicItem"}
        /\ "DeleteItem" \notin AlarmHeads \cup {"ClearUpdateAtTimerResource", "AddItem"}
    BY FixedSteps DEF AlarmSteps, AlarmHeads
  <1>3. PICK c \in Calls :
          /\ Update(t, c) /\ c.form \in {calls[t].form, NoForm}
          /\ \A x : Has(c.todo, x) =>
                \/ x \in AlarmHeads \cup {"ClearUpdateAtTimerResource", "AddItem"} \/ Has(s, x)
          /\ \A x : Has(s, x) => x = Head(s) \/ Has(c.todo, x)
    BY FixedSteps
  <1>4. ~Serving(s)
    BY <1>2, ServingFacts
  <1> QED BY <1>1, <1>2, <1>3, <1>4, OtherServes

LEMMA AddServes ==
    ASSUME Typed, Served, NEW t \in Threads,
           AddIntervalTimer(t) \/ AddItem(t) \/ SetDynamicItem(t)
    PROVE  Served'
  <1> DEFINE s == calls[t].todo
  <1>1. /\ s \in Seq(Steps) /\ Legal(s) /\ calls[t] \in Calls /\ s # <<>>
        /\ Rest(t) \in Seq(Steps) /\ Rest(t) = Tail(s)
        /\ \A x : Has(s, x) <=> x = Head(s) \/ Has(Rest(t), x)
    BY CallFacts, GoOnFacts DEF AddIntervalTimer, AddItem, SetDynamicItem, At, Rest
  <1>2. Removes(calls[t]) /\ (interval # {} => ticker)
    BY DEF Served
  <1>3. CASE AddIntervalTimer(t)
    <2>1. s = IntervalItem /\ Rest(t) = Item /\ ~Serving(s)
      <3>1. s = IntervalItem
        BY <1>1, <1>3, ScriptsByHead DEF AddIntervalTimer, At
      <3>2. Tail(IntervalItem) = Item /\ Head(IntervalItem) = "AddIntervalTimer"
        BY RestOf, FirstOf
      <3> QED BY <1>1, <3>1, <3>2, ServingFacts
    <2>2. /\ ticker' = TRUE /\ interval' = interval \cup {calls[t].form}
          /\ UNCHANGED <<limiter, dynamic, raced>>
      BY <1>3 DEF AddIntervalTimer, next
    <2>3. PICK c \in Calls :
            /\ Update(t, c) /\ c.form = calls[t].form
            /\ c.todo = IF calls[t].form \in interval THEN <<>> ELSE Item
      <3>1. GoOn(t, IF calls[t].form \in interval THEN <<>> ELSE Item)
        BY <1>3, <2>1 DEF AddIntervalTimer
      <3>2. <<>> \in Seq(Steps) /\ Item \in Seq(Steps)
        BY <1>1, <2>1
      <3>3. CASE calls[t].form \in interval
        BY <1>1, <3>1, <3>2, <3>3, GoOnFacts
      <3>4. CASE calls[t].form \notin interval
        BY <1>1, <3>1, <3>2, <3>4, GoOnFacts
      <3> QED BY <3>3, <3>4
    <2>4. ~Has(c.todo, "DeleteItem")
      BY <2>3, HasOf, HasNone
    <2>5. \A f \in Forms \ raced : f = calls[t].form /\ Timed(f)' =>
              \/ c.form = f /\ Serving(c.todo)
              \/ (f \in limiter => f \in limiter') /\ Timed(f) /\ ~Serving(s)
      BY <2>1, <2>2, <2>3 DEF Timed, Serving
    <2> QED BY <2>2, <2>3, <2>4, <2>5, StepServes
  <1>4. CASE AddItem(t)
    <2>1. /\ limiter' = limiter \cup {calls[t].form} /\ UNCHANGED <<interval, ticker, dynamic, raced>>
          /\ Head(s) = "AddItem"
      BY <1>4 DEF AddItem, next, At
    <2>2. PICK c \in Calls : Update(t, c) /\ c.form = calls[t].form /\ c.todo = Rest(t)
      BY <1>1, <1>4, GoOnFacts DEF AddItem
    <2>3. c.form \in Forms \ raced /\ Has(c.todo, "DeleteItem") =>
              /\ Has(c.todo, "DeleteIntervalTimer") \/ c.form \notin interval'
              /\ Has(c.todo, "DeleteDynamicItem") \/ dynamic'[c.form] = Never
      BY <1>1, <1>2, <2>1, <2>2 DEF Removes
    <2> QED BY <1>2, <2>1, <2>2, <2>3, StepServes
  <1>5. CASE SetDynamicItem(t)
    <2>1. s = SetDynamic /\ Rest(t) = AlarmItem
      <3>1. s = SetDynamic
        BY <1>1, <1>5, ScriptsByHead DEF SetDynamicItem, At
      <3> QED BY <1>1, <3>1, RestOf
    <2>2. /\ UNCHANGED <<interval, ticker, limiter, raced>> /\ GoOn(t, Rest(t))
          /\ \A f \in Forms : f # calls[t].form => dynamic'[f] = dynamic[f]
      BY <1>5 DEF SetDynamicItem, DynamicChange, tasks, Typed, Listed
    <2>3. PICK c \in Calls : Update(t, c) /\ c.form = calls[t].form /\ c.todo = AlarmItem
      BY <1>1, <2>1, <2>2, GoOnFacts
    <2>4. ~Has(c.todo, "DeleteItem") /\ Serving(c.todo)
      BY <2>3, HasOf DEF Serving
    <2> QED BY <1>2, <2>2, <2>3, <2>4, StepServes
  <1> QED BY <1>3, <1>4, <1>5

LEMMA DeleteServes ==
    ASSUME Typed, Served, NEW t \in Threads,
           \/ DeleteIntervalTimer(t) \/ IntervalToAtTimer(t) \/ DeleteItem(t)
           \/ DeleteDynamicItem(t) \/ OnDynamicTimeTrigger(t) \/ UpdateDynamicAlarm(t)
    PROVE  Served'
  <1> DEFINE s == calls[t].todo
  <1>1. /\ s \in Seq(Steps) /\ Legal(s) /\ calls[t] \in Calls /\ s # <<>>
        /\ Rest(t) \in Seq(Steps) /\ Rest(t) = Tail(s)
        /\ \A x : Has(s, x) <=> x = Head(s) \/ Has(Rest(t), x)
    BY CallFacts, GoOnFacts DEF DeleteIntervalTimer, IntervalToAtTimer, DeleteItem, DeleteDynamicItem,
       OnDynamicTimeTrigger, UpdateDynamicAlarm, At, Rest
  <1>2. Removes(calls[t]) /\ (interval # {} => ticker)
    BY DEF Served
  <1>3. CASE DeleteIntervalTimer(t)
    <2>1. /\ interval' = interval \ {calls[t].form} /\ (interval' # {} => ticker')
          /\ UNCHANGED <<limiter, dynamic, raced>>
      BY <1>2, <1>3 DEF DeleteIntervalTimer, next
    <2>2. s \in {RemoveTimer, DeleteInterval} /\ ~Serving(s)
      <3>1. s \in {RemoveTimer, DeleteInterval}
        BY <1>1, <1>3, ScriptsByHead DEF DeleteIntervalTimer, At
      <3> QED BY <3>1, FirstOf, ServingFacts
    <2>3. PICK d \in {RemoveFixed, RemoveDynamic, <<>>} :
            /\ GoOn(t, d) /\ d \in Seq(Steps)
      <3>1. /\ Rest(t) \in {RemoveFixed, <<>>}
            /\ SubSeq(Rest(t), 3, Len(Rest(t))) \in {RemoveDynamic, <<>>}
        BY <1>1, <2>2, RestOf, SkipFacts
      <3>2. RemoveDynamic \in Seq(Steps) /\ <<>> \in Seq(Steps)
        BY Scripts DEF Is
      <3>3. GoOn(t, Rest(t)) \/ GoOn(t, SubSeq(Rest(t), 3, Len(Rest(t))))
        BY <1>3 DEF DeleteIntervalTimer
      <3>4. RemoveFixed \in Seq(Steps)
        BY Scripts DEF Is
      <3> QED BY <1>1, <3>1, <3>2, <3>3, <3>4
    <2>4. PICK c \in Calls : Update(t, c) /\ c.form = calls[t].form /\ c.todo = d
      BY <1>1, <2>3, GoOnFacts
    <2>5. Has(c.todo, "DeleteItem") => Has(c.todo, "DeleteDynamicItem")
      BY <2>3, <2>4, HasOf, HasNone
    <2>6. \A f \in Forms \ raced : f = calls[t].form /\ Timed(f)' =>
              (f \in limiter => f \in limiter') /\ Timed(f) /\ ~Serving(s)
      BY <2>1, <2>2 DEF Timed
    <2> QED BY <2>1, <2>4, <2>5, <2>6, StepServes
  <1>4. CASE IntervalToAtTimer(t)
    <2>1. /\ interval' = interval \ {calls[t].form} /\ UNCHANGED <<ticker, limiter, dynamic, raced>>
      BY <1>4 DEF IntervalToAtTimer, next
    <2>2. s = IntervalToAt /\ ~Serving(s)
      <3>1. s = IntervalToAt
        BY <1>1, <1>4, ScriptsByHead DEF IntervalToAtTimer, At
      <3> QED BY <3>1, FirstOf, ServingFacts
    <2>3. PICK c \in Calls : /\ Update(t, c) /\ c.form = calls[t].form
                             /\ c.todo \in {AtUnlock, <<>>}
      BY <1>4, ToAtFacts
    <2>5. ~Has(c.todo, "DeleteItem")
      BY <2>3, HasOf, HasNone
    <2>6. \A f \in Forms \ raced : f = calls[t].form /\ Timed(f)' =>
              (f \in limiter => f \in limiter') /\ Timed(f) /\ ~Serving(s)
      BY <2>1, <2>2 DEF Timed
    <2> QED BY <1>2, <2>1, <2>3, <2>5, <2>6, StepServes
  <1>5. CASE DeleteItem(t)
    <2>1. /\ limiter' = limiter \ {calls[t].form} /\ UNCHANGED <<interval, ticker, dynamic, raced>>
          /\ s = DeleteLast
      BY <1>1, <1>5, ScriptsByHead DEF DeleteItem, next, At
    <2>2. Rest(t) = <<>> /\ Has(s, "DeleteItem") /\ ~Has(s, "DeleteIntervalTimer")
          /\ ~Has(s, "DeleteDynamicItem")
      <3>1. Tail(DeleteLast) = <<>>
        BY RestOf, Zenon
      <3>2. /\ Has(DeleteLast, "DeleteItem") /\ ~Has(DeleteLast, "DeleteIntervalTimer")
            /\ ~Has(DeleteLast, "DeleteDynamicItem")
        BY HasOf
      <3> QED BY <1>1, <2>1, <3>1, <3>2
    <2>3. PICK c \in Calls : Update(t, c) /\ c.form = calls[t].form /\ c.todo = <<>>
      <3>1. GoOn(t, Rest(t))
        BY <1>5 DEF DeleteItem
      <3>2. GoOn(t, <<>>)
        BY <2>2, <3>1, Zenon
      <3>3. <<>> \in Seq(Steps)
        OBVIOUS
      <3>4. calls[t].todo # <<>>
        BY <1>1, Zenon
      <3> QED BY <3>2, <3>3, <3>4, GoOnFacts, Zenon
    <2>4. \A f \in Forms \ raced : f = calls[t].form => ~Timed(f)'
      BY <1>2, <2>1, <2>2 DEF Removes, Timed
    <2>5. ~Has(c.todo, "DeleteItem")
      BY <2>3, HasNone
    <2> QED BY <1>2, <2>1, <2>3, <2>4, <2>5, StepServes
  <1>6. CASE DeleteDynamicItem(t) \/ OnDynamicTimeTrigger(t) \/ UpdateDynamicAlarm(t)
    <2>1. /\ UNCHANGED <<interval, ticker, limiter, raced>> /\ GoOn(t, Rest(t))
          /\ \A f \in Forms : dynamic'[f] \in {dynamic[f], Never}
          /\ \A f \in Forms : dynamic'[f] # Never => dynamic[f] # Never
      BY <1>6 DEF DeleteDynamicItem, OnDynamicTimeTrigger, UpdateDynamicAlarm, DynamicChange, tasks,
         next, First, Due, Typed, Listed
    <2>2. PICK c \in Calls : Update(t, c) /\ c.form = calls[t].form /\ c.todo = Rest(t)
      BY <1>1, <2>1, GoOnFacts
    <2>3. /\ Head(s) \in {"DeleteDynamicItem", "OnDynamicTimeTrigger", "UpdateDynamicAlarm"}
          /\ At(t, "DeleteDynamicItem") => \A f \in Forms : f = calls[t].form => dynamic'[f] = Never
      BY <1>6 DEF DeleteDynamicItem, OnDynamicTimeTrigger, UpdateDynamicAlarm, DynamicChange, At,
         Typed, Listed
    <2>4. Serving(s) => Serving(c.todo)
      <3>1. Head(Item) = "AddItem" /\ Tail(AlarmItem) = Item
        BY FirstOf, RestOf
      <3> QED BY <1>1, <2>2, <2>3, <3>1 DEF Serving
    <2>5. c.form \in Forms \ raced /\ Has(c.todo, "DeleteItem") =>
              /\ Has(c.todo, "DeleteIntervalTimer") \/ c.form \notin interval'
              /\ Has(c.todo, "DeleteDynamicItem") \/ dynamic'[c.form] = Never
      <3> SUFFICES ASSUME c.form \in Forms \ raced, Has(c.todo, "DeleteItem")
                   PROVE  /\ Has(c.todo, "DeleteIntervalTimer") \/ c.form \notin interval'
                          /\ Has(c.todo, "DeleteDynamicItem") \/ dynamic'[c.form] = Never
        OBVIOUS
      <3>1. /\ Has(s, "DeleteIntervalTimer") \/ calls[t].form \notin interval
            /\ Has(s, "DeleteDynamicItem") \/ dynamic[calls[t].form] = Never
        BY <1>1, <1>2, <2>2 DEF Removes
      <3>2. Has(s, "DeleteIntervalTimer") => Has(c.todo, "DeleteIntervalTimer")
        BY <1>1, <2>2, <2>3
      <3>3. Has(s, "DeleteDynamicItem") =>
               At(t, "DeleteDynamicItem") \/ Has(c.todo, "DeleteDynamicItem")
        BY <1>1, <2>2 DEF At
      <3> QED BY <2>1, <2>2, <2>3, <3>1, <3>2, <3>3
    <2>6. \A f \in Forms \ raced : f = calls[t].form /\ Timed(f)' =>
              \/ c.form = f /\ Serving(c.todo)
              \/ (f \in limiter => f \in limiter') /\ Timed(f) /\ ~Serving(s)
      BY <2>1, <2>2, <2>4 DEF Timed
    <2> QED BY <1>2, <2>1, <2>2, <2>5, <2>6, StepServes
  <1> QED BY <1>3, <1>4, <1>5, <1>6

LEMMA NextServes == Typed /\ Served /\ [Next]_vars => Served'
  <1> SUFFICES ASSUME Typed, Served, [Next]_vars PROVE Served'
    OBVIOUS
  <1>1. CASE \/ UNCHANGED vars \/ UpdateAtAlarmFires \/ DynamicAlarmFires \/ Tick \/ TimeIsSet
    <2>1. UNCHANGED <<interval, ticker, limiter, dynamic, raced, calls>>
      BY <1>1 DEF vars, UpdateAtAlarmFires, DynamicAlarmFires, Tick, TimeIsSet, tasks, next
    <2> QED BY <2>1, NothingServes
  <1>2. ASSUME NEW t \in Threads, NEW f \in Forms, Request(t, f) PROVE Served'
    BY <1>2, RequestServes
  <1>3. ASSUME NEW t \in Threads, OnReceiveEvent(t) PROVE Served'
    BY <1>3, EventServes
  <1>4. ASSUME NEW t \in Threads, Step(t) PROVE Served'
    BY <1>4, FixedServes, AddServes, DeleteServes DEF Step
  <1> QED BY <1>1, <1>2, <1>3, <1>4 DEF Next

\* A form with a periodic or a next refresh time is in the limiter once no request
\* works on it, and the ticker runs as long as there is an interval task: for any
\* number of requests, unless two of them worked on the form at once.
THEOREM TimersServed == Spec => []TimersAreServed
  <1>1. Init => Served
    <2> SUFFICES ASSUME Init PROVE Served
      OBVIOUS
    <2>1. Idle.form = NoForm /\ Idle.todo = <<>> /\ NoForm \notin Forms
      BY TimersAssumption DEF Idle
    <2> QED BY <2>1 DEF Init, Served, OneEach, Timed, Removes
  <1>2. Served => TimersAreServed
    BY DEF Served, TimersAreServed, Timed, Known
  <1> QED BY <1>1, <1>2, InitTyped, NextTyped, NextServes, PTL DEF Spec

--------------------------------------------------------------------------------
(* The alarm of the next times.                                            *)

HasAhead(step) == \E t \in Threads : Has(calls[t].todo, step)

\* The alarm of dynamicWakeUpTime_ has fired: its event is under way, the request it
\* becomes is, or it was one that is dropped.
Comes == \/ [type |-> "dynamic", time |-> dynamicWakeUpTime] \in events
         \/ HasAhead("OnDynamicTimeTrigger")
         \/ Refused(dynamicWakeUpTime) /\ dynamicWakeUpTime <= now

\* The alarm is the one dynamicWakeUpTime_ stands for unless that time has come; a form
\* that waits for a time whose alarm has fired is about to be taken, unless its event
\* is dropped; and dynamicWakeUpTime_ is the time of the first, or an update is ahead.
AlarmIsKnown ==
    /\ \/ dynamicAlarm = dynamicWakeUpTime
       \/ dynamicAlarm = Never /\ dynamicWakeUpTime <= now
    /\ \A f \in Forms : dynamic[f] = dynamicWakeUpTime /\ dynamic[f] # Never =>
         \/ dynamicAlarm = dynamicWakeUpTime \/ Comes
FirstIsAlarmed ==
    Due # {} => HasAhead("UpdateDynamicAlarm") \/ \E f \in First : dynamic[f] = dynamicWakeUpTime
NextAlarmed == AlarmIsKnown /\ FirstIsAlarmed

\* A step that is ahead stays so until it is taken.
LEMMA AheadStays ==
    ASSUME Typed, NEW t \in Threads, NEW c \in Calls, Update(t, c), NEW x,
           Has(calls[t].todo, x) => Has(c.todo, x), HasAhead(x)
    PROVE  HasAhead(x)'
  <1>1. calls'[t].todo = c.todo /\ \A u \in Threads : u # t => calls'[u] = calls[u]
    BY UpdateFacts DEF Typed, CallsOK
  <1>2. PICK u \in Threads : Has(calls[u].todo, x)
    BY DEF HasAhead
  <1>3. Has(calls'[u].todo, x)
    BY <1>1, <1>2
  <1> QED BY <1>3 DEF HasAhead

LEMMA AlarmStays ==
    ASSUME NextAlarmed, UNCHANGED <<next, now>>,
           Comes => dynamicAlarm = dynamicWakeUpTime \/ Comes',
           HasAhead("UpdateDynamicAlarm") => HasAhead("UpdateDynamicAlarm")'
    PROVE  NextAlarmed'
  <1>1. UNCHANGED <<dynamic, dynamicWakeUpTime, dynamicAlarm, Due, First>>
    BY DEF next, Due, First
  <1>2. AlarmIsKnown'
    BY <1>1 DEF NextAlarmed, AlarmIsKnown
  <1>3. FirstIsAlarmed'
    BY <1>1 DEF NextAlarmed, FirstIsAlarmed
  <1> QED BY <1>2, <1>3 DEF NextAlarmed

\* Steps that only come first.
FirstSteps == {"OnDynamicTimeTrigger", "DeleteIntervalTimer", "HandleSystemTimeChanged"}

LEMMA TheyComeFirst ==
    ASSUME NEW s \in Seq(Steps), Legal(s), NEW x \in FirstSteps, Has(s, x)
    PROVE  s # <<>> /\ Head(s) = x
  <1>1. \A r \in Tails : ~Has(r, x)
    BY HasOf, HasNone DEF Tails, FirstSteps
  <1>2. x \notin AlarmHeads \cup {"ClearUpdateAtTimerResource"}
    BY DEF AlarmHeads, FirstSteps
  <1>3. CASE s \in Plain
    <2>1. /\ Trigger # <<>> /\ RemoveTimer # <<>> /\ DeleteInterval # <<>> /\ Changed # <<>>
      BY Scripts DEF Is
    <2>2. CASE x = "OnDynamicTimeTrigger"
      <3>1. s = Trigger
        BY <1>1, <1>3, <2>2, HasOf DEF Plain
      <3> QED BY <2>1, <2>2, <3>1, FirstOf
    <2>3. CASE x = "DeleteIntervalTimer"
      <3>1. s \in {RemoveTimer, DeleteInterval}
        BY <1>1, <1>3, <2>3, HasOf DEF Plain
      <3> QED BY <2>1, <2>3, <3>1, FirstOf
    <2>4. CASE x = "HandleSystemTimeChanged"
      <3>1. s = Changed
        BY <1>1, <1>3, <2>4, HasOf DEF Plain
      <3> QED BY <2>1, <2>4, <3>1, FirstOf
    <2> QED BY <2>2, <2>3, <2>4 DEF FirstSteps
  <1>4. CASE Updating(s)
    <2>1. ~Has(Tail(s), x) /\ s # <<>>
      BY <1>1, <1>4 DEF Updating
    <2> QED BY <2>1, HasCons
  <1>5. CASE Clearing(s)
    <2>1. /\ s # <<>> /\ Tail(s) # <<>> /\ Tail(s) \in Seq(Steps)
          /\ Head(Tail(s)) # x /\ ~Has(Tail(Tail(s)), x)
      BY <1>1, <1>2, <1>5 DEF Clearing, AlarmHeads
    <2>2. ~Has(Tail(s), x)
      BY <2>1, HasCons
    <2> QED BY <2>1, <2>2, HasCons
  <1> QED BY <1>3, <1>4, <1>5 DEF Legal

\* The steps that leave the next times alone.
LEMMA OtherStepAlarms ==
    ASSUME Typed, NextAlarmed, NEW t \in Threads, NEW c \in Calls, Update(t, c),
           UNCHANGED <<next, now, events>>,
           \A x \in {"OnDynamicTimeTrigger", "UpdateDynamicAlarm"} :
              Has(calls[t].todo, x) => Has(c.todo, x)
    PROVE  NextAlarmed'
  <1>1. \A x \in {"OnDynamicTimeTrigger", "UpdateDynamicAlarm"} : HasAhead(x) => HasAhead(x)'
    BY AheadStays
  <1>2. Comes => Comes'
    BY <1>1 DEF Comes, next
  <1> QED BY <1>1, <1>2, AlarmStays

LEMMA RequestAlarms ==
    ASSUME Typed, NextAlarmed, NEW t \in Threads, NEW f \in Forms, Request(t, f)
    PROVE  NextAlarmed'
  <1>1. PICK s \in Requests, times \in SUBSET Moments, need \in BOOLEAN :
          BeginTask(t, f, s, times, need)
    BY RequestBegins
  <1>2. /\ UNCHANGED <<next, now, events>> /\ calls[t] = Idle
        /\ \A u \in Threads : u # t => calls'[u] = calls[u]
    BY <1>1 DEF BeginTask, clock, Typed, CallsOK
  <1>3. \A x : ~Has(calls[t].todo, x)
    BY <1>2, HasNone DEF Idle
  <1>4. \A x : HasAhead(x) => HasAhead(x)'
    <2> SUFFICES ASSUME NEW x, HasAhead(x) PROVE HasAhead(x)'
      OBVIOUS
    <2>1. PICK u \in Threads : Has(calls[u].todo, x)
      BY DEF HasAhead
    <2>2. calls'[u] = calls[u]
      BY <1>2, <1>3, <2>1
    <2>3. Has(calls'[u].todo, x)
      BY <2>1, <2>2
    <2> QED BY <2>3 DEF HasAhead
  <1>5. Comes => Comes'
    BY <1>2, <1>4 DEF Comes, next
  <1> QED BY <1>2, <1>4, <1>5, AlarmStays

\* An event of the alarm becomes a trigger, or is dropped.
LEMMA EventAlarms ==
    ASSUME Typed, NextAlarmed, NEW t \in Threads, OnReceiveEvent(t)
    PROVE  NextAlarmed'
  <1>1. PICK e \in events, c \in Calls :
              /\ events' = events \ {e} /\ Update(t, c) /\ calls[t] = Idle
              /\ c.todo = IF e.type = "static" THEN FindLast
                          ELSE IF e.type = "timeChanged" THEN Changed
                          ELSE IF Refused(e.time) THEN <<>> ELSE Trigger
              /\ UNCHANGED <<tasks, fixed, next, clock, requests, raced>>
    BY EventFacts
  <1>2. UNCHANGED <<next, now>> /\ \A x : ~Has(calls[t].todo, x)
    BY <1>1, HasNone DEF clock, Idle
  <1>3. \A x : HasAhead(x) => HasAhead(x)'
    BY <1>1, <1>2, AheadStays
  <1>4. UNCHANGED <<dynamicWakeUpTime, dynamicAlarm>>
    BY <1>2 DEF next
  <1>5. CASE e = [type |-> "dynamic", time |-> dynamicWakeUpTime]
    <2>1. e.type = "dynamic" /\ e.time = dynamicWakeUpTime
      BY <1>5
    <2>2. CASE Refused(dynamicWakeUpTime)
      <3>1. dynamicAlarm = dynamicWakeUpTime \/ dynamicWakeUpTime <= now
        BY DEF NextAlarmed, AlarmIsKnown
      <3>2. dynamicAlarm = dynamicWakeUpTime \/ Comes'
        BY <1>2, <1>4, <2>2, <3>1 DEF Comes
      <3> QED BY <1>2, <1>3, <3>2, AlarmStays
    <2>3. CASE ~Refused(dynamicWakeUpTime)
      <3>1. calls'[t].todo = Trigger
        BY <1>1, <2>1, <2>3, UpdateFacts DEF Typed, CallsOK
      <3>2. Has(calls'[t].todo, "OnDynamicTimeTrigger")
        BY <3>1, HasOf
      <3>3. Comes'
        BY <3>2 DEF Comes, HasAhead
      <3> QED BY <1>2, <1>3, <3>3, AlarmStays
    <2> QED BY <2>2, <2>3
  <1>6. CASE e # [type |-> "dynamic", time |-> dynamicWakeUpTime]
    <2>1. Comes => Comes'
      BY <1>1, <1>2, <1>3, <1>4, <1>6 DEF Comes
    <2> QED BY <1>2, <1>3, <2>1, AlarmStays
  <1> QED BY <1>5, <1>6

LEMMA FixedAlarms ==
    ASSUME Typed, NextAlarmed, NEW t \in Threads,
           \/ AddUpdateAtTimer(t) \/ DeleteUpdateAtTimer(t) \/ UpdateTimerValue(t)
           \/ TakeUpdateAtItems(t) \/ FindNextAtTimerItem(t) \/ CompareWakeUpTime(t)
           \/ StartUpdateAtTimer(t) \/ RecheckEmpty(t) \/ ClearUpdateAtTimerResource(t)
           \/ ForgetWakeUpTime(t) \/ HandleSystemTimeChanged(t) \/ Unlock(t)
    PROVE  NextAlarmed'
  <1>1. /\ UNCHANGED <<next, now, events>>
        /\ Head(calls[t].todo) \notin {"OnDynamicTimeTrigger", "UpdateDynamicAlarm"}
    BY FixedSteps DEF AlarmSteps
  <1>2. PICK c \in Calls :
          /\ Update(t, c) /\ \A x : Has(calls[t].todo, x) => x = Head(calls[t].todo) \/ Has(c.todo, x)
    BY FixedSteps
  <1> QED BY <1>1, <1>2, OtherStepAlarms

LEMMA IntervalAlarms ==
    ASSUME Typed, NextAlarmed, NEW t \in Threads,
           \/ AddIntervalTimer(t) \/ DeleteIntervalTimer(t) \/ IntervalToAtTimer(t)
           \/ AddItem(t) \/ DeleteItem(t)
    PROVE  NextAlarmed'
  <1> DEFINE s == calls[t].todo
             Dynamics == {"OnDynamicTimeTrigger", "UpdateDynamicAlarm"}
  <1>1. /\ s \in Seq(Steps) /\ Legal(s) /\ calls[t] \in Calls /\ s # <<>>
        /\ Rest(t) \in Seq(Steps) /\ Rest(t) = Tail(s)
        /\ \A x : Has(s, x) <=> x = Head(s) \/ Has(Rest(t), x)
    BY CallFacts, GoOnFacts DEF AddIntervalTimer, DeleteIntervalTimer, IntervalToAtTimer, AddItem,
       DeleteItem, At, Rest
  <1>2. UNCHANGED <<next, now, events>>
    BY DEF AddIntervalTimer, DeleteIntervalTimer, IntervalToAtTimer, AddItem, DeleteItem, clock
  <1>3. \E c \in Calls : Update(t, c) /\ \A x \in Dynamics : Has(s, x) => Has(c.todo, x)
    <2>1. CASE AddItem(t) \/ DeleteItem(t)
      <3>1. GoOn(t, Rest(t)) /\ Head(s) \notin Dynamics
        BY <2>1 DEF AddItem, DeleteItem, At
      <3>2. PICK c \in Calls : Update(t, c) /\ c.todo = Rest(t)
        BY <1>1, <3>1, GoOnFacts
      <3> QED BY <1>1, <3>1, <3>2
    <2>2. CASE AddIntervalTimer(t)
      <3>1. \A x \in Dynamics : ~Has(s, x)
        <4>1. s = IntervalItem
          BY <1>1, <2>2, ScriptsByHead DEF AddIntervalTimer, At
        <4> QED BY <4>1, HasOf
      <3>2. PICK d \in {<<>>, Rest(t)} : GoOn(t, d)
        BY <2>2 DEF AddIntervalTimer
      <3>3. d \in Seq(Steps)
        <4>1. <<>> \in Seq(Steps)
          OBVIOUS
        <4> QED BY <1>1, <4>1
      <3>4. PICK c \in Calls : Update(t, c)
        BY <1>1, <3>2, <3>3, GoOnFacts
      <3> QED BY <3>1, <3>4
    <2>3. CASE IntervalToAtTimer(t)
      <3>1. \A x \in Dynamics : ~Has(s, x)
        BY <2>3, ToAtFacts, HasOf
      <3> QED BY <2>3, <3>1, ToAtFacts
    <2>4. CASE DeleteIntervalTimer(t)
      <3>1. s \in {RemoveTimer, DeleteInterval} /\ Head(s) = "DeleteIntervalTimer"
        BY <1>1, <2>4, ScriptsByHead DEF DeleteIntervalTimer, At
      <3> DEFINE d == SubSeq(Rest(t), 3, Len(Rest(t)))
      <3>2. GoOn(t, Rest(t)) \/ GoOn(t, d)
        BY <2>4 DEF DeleteIntervalTimer
      <3>3. \/ s = RemoveTimer /\ d = RemoveDynamic
            \/ s = DeleteInterval /\ d = <<>>
        BY <1>1, <3>1, SkipFacts
      <3> HIDE DEF d
      <3>4. RemoveDynamic \in Seq(Steps) /\ <<>> \in Seq(Steps)
        BY Scripts DEF Is
      <3>5. d \in Seq(Steps) /\ \A x \in Dynamics : Has(s, x) => Has(d, x)
        BY <3>3, <3>4, HasOf
      <3>6. PICK r \in {Rest(t), d} : GoOn(t, r)
        BY <3>2
      <3>7. r \in Seq(Steps) /\ \A x \in Dynamics : Has(s, x) => Has(r, x)
        BY <1>1, <3>1, <3>5
      <3>8. PICK c \in Calls : Update(t, c) /\ c.todo = r
        BY <1>1, <3>6, <3>7, GoOnFacts
      <3> QED BY <3>7, <3>8
    <2> QED BY <2>1, <2>2, <2>3, <2>4
  <1> QED BY <1>2, <1>3, OtherStepAlarms

\* The steps of the next times.
LEMMA DynamicAlarms ==
    ASSUME Typed, NextAlarmed, NEW t \in Threads,
           SetDynamicItem(t) \/ DeleteDynamicItem(t) \/ OnDynamicTimeTrigger(t)
    PROVE  NextAlarmed'
  <1> DEFINE s == calls[t].todo
  <1>1. /\ s \in Seq(Steps) /\ Legal(s) /\ s # <<>> /\ Rest(t) = Tail(s) /\ Rest(t) \in Seq(Steps)
        /\ \A x : Has(s, x) <=> x = Head(s) \/ Has(Rest(t), x)
        /\ GoOn(t, Rest(t)) /\ UNCHANGED <<dynamicWakeUpTime, dynamicAlarm, events, now>>
    BY CallFacts, GoOnFacts DEF SetDynamicItem, DeleteDynamicItem, OnDynamicTimeTrigger, DynamicChange,
       At, Rest, clock
  <1>2. PICK c \in Calls : Update(t, c) /\ c.todo = Rest(t)
    BY <1>1, GoOnFacts
  <1>3. HasAhead("UpdateDynamicAlarm")'
    <2>1. /\ SetDynamicItem(t) => s = SetDynamic
          /\ DeleteDynamicItem(t) => s = RemoveDynamic
          /\ OnDynamicTimeTrigger(t) => s = Trigger
      BY <1>1, ScriptsByHead DEF SetDynamicItem, DeleteDynamicItem, OnDynamicTimeTrigger, At
    <2>2. Rest(t) \in {AlarmItem, AlarmDelete, AlarmLast}
      BY <1>1, <2>1, RestOf
    <2>3. calls'[t].todo = Rest(t)
      BY <1>2, UpdateFacts DEF Typed, CallsOK
    <2>4. Has(calls'[t].todo, "UpdateDynamicAlarm")
      BY <2>2, <2>3, HasOf
    <2> QED BY <2>4 DEF HasAhead
  <1>4. FirstIsAlarmed'
    BY <1>3 DEF FirstIsAlarmed
  <1>5. /\ dynamic \in [Forms -> Moments \cup {Never}] /\ now \in Int /\ MaxTime \in Nat /\ Day \in Nat
        /\ dynamicWakeUpTime \in Moments \cup {Never} /\ Never \in Int /\ Moments \subseteq Int
    BY TimersAssumption DEF Typed, Listed, Never, Moments
  <1>6. ASSUME NEW f \in Forms, dynamic'[f] = dynamicWakeUpTime, dynamic'[f] # Never
        PROVE  dynamicAlarm = dynamicWakeUpTime \/ Comes'
    <2>1. CASE SetDynamicItem(t)
      <3>1. PICK time \in calls[t].times : dynamic' = [dynamic EXCEPT ![calls[t].form] = time]
        BY <2>1 DEF SetDynamicItem, DynamicChange
      <3>2. time > now
        BY <2>1, CallFacts DEF CallOK, Opens, SetDynamicItem, At
      <3>3. CASE f = calls[t].form
        <4>1. ~(dynamicWakeUpTime <= now)
          <5>1. time \in Int /\ dynamicWakeUpTime = time
            BY <1>5, <1>6, <3>1, <3>3, CallFacts
          <5> QED BY <1>5, <3>2, <5>1
        <4> QED BY <4>1 DEF NextAlarmed, AlarmIsKnown
      <3>4. CASE f # calls[t].form
        <4>1. dynamic'[f] = dynamic[f]
          BY <1>5, <3>1, <3>4
        <4>2. HasAhead("OnDynamicTimeTrigger") => HasAhead("OnDynamicTimeTrigger")'
          BY <1>1, <1>2, <2>1, AheadStays DEF SetDynamicItem, At
        <4> QED BY <1>1, <1>6, <4>1, <4>2 DEF NextAlarmed, AlarmIsKnown, Comes
      <3> QED BY <3>3, <3>4
    <2>2. CASE DeleteDynamicItem(t)
      <3>1. dynamic'[f] = dynamic[f]
        BY <1>5, <1>6, <2>2 DEF DeleteDynamicItem, DynamicChange
      <3>2. HasAhead("OnDynamicTimeTrigger") => HasAhead("OnDynamicTimeTrigger")'
        BY <1>1, <1>2, <2>2, AheadStays DEF DeleteDynamicItem, At
      <3> QED BY <1>1, <1>6, <3>1, <3>2 DEF NextAlarmed, AlarmIsKnown, Comes
    <2>3. CASE OnDynamicTimeTrigger(t)
      <3>1. dynamic'[f] = dynamic[f] /\ ~(dynamic[f] <= now)
        BY <1>5, <1>6, <2>3 DEF OnDynamicTimeTrigger, DynamicChange
      <3> QED BY <1>6, <3>1 DEF NextAlarmed, AlarmIsKnown
    <2> QED BY <2>1, <2>2, <2>3
  <1>7. AlarmIsKnown'
    BY <1>1, <1>6 DEF NextAlarmed, AlarmIsKnown
  <1> QED BY <1>4, <1>7 DEF NextAlarmed

LEMMA UpdateAlarms ==
    ASSUME Typed, NextAlarmed, NEW t \in Threads, UpdateDynamicAlarm(t)
    PROVE  NextAlarmed'
  <1> DEFINE s == calls[t].todo
             W == dynamicWakeUpTime
  <1>1. /\ s \in Seq(Steps) /\ Legal(s) /\ s # <<>> /\ Rest(t) \in Seq(Steps)
        /\ \A x : Has(s, x) <=> x = Head(s) \/ Has(Rest(t), x)
        /\ Head(s) = "UpdateDynamicAlarm" /\ GoOn(t, Rest(t)) /\ UNCHANGED <<events, now>>
    BY CallFacts, GoOnFacts DEF UpdateDynamicAlarm, At, clock
  <1>2. PICK c \in Calls : Update(t, c) /\ c.todo = Rest(t)
    BY <1>1, GoOnFacts
  <1>3. /\ dynamic \in [Forms -> Moments \cup {Never}] /\ now \in Int /\ MaxTime \in Nat /\ Day \in Nat
        /\ W \in Moments \cup {Never} /\ Never \in Int /\ Moments \subseteq Int
    BY TimersAssumption DEF Typed, Listed, Never, Moments
  <1>4. HasAhead("OnDynamicTimeTrigger") => HasAhead("OnDynamicTimeTrigger")'
    BY <1>1, <1>2, AheadStays
  <1>5. CASE Due = {} /\ ForgetDynamicAlarm /\ UNCHANGED dynamic
    <2>1. Due' = {} /\ dynamicAlarm' = Never /\ dynamicWakeUpTime' = Never
      BY <1>5 DEF Due, ForgetDynamicAlarm
    <2> QED BY <2>1 DEF NextAlarmed, AlarmIsKnown, FirstIsAlarmed
  <1>6. CASE \E f \in First : /\ dynamicWakeUpTime' = dynamic[f] /\ dynamicAlarm' = dynamic[f]
                              /\ UNCHANGED dynamic
    <2>1. PICK f \in First : /\ dynamicWakeUpTime' = dynamic[f] /\ dynamicAlarm' = dynamic[f]
                             /\ UNCHANGED dynamic
      BY <1>6
    <2>2. First' = First
      BY <2>1 DEF First, Due
    <2>3. dynamicAlarm' = dynamic'[f] /\ dynamicAlarm' = dynamicWakeUpTime'
      BY <2>1
    <2> QED BY <2>2, <2>3 DEF NextAlarmed, AlarmIsKnown, FirstIsAlarmed
  <1>7. CASE \E f \in First :
             /\ dynamic[f] = W
             /\ now > W
             /\ dynamic' = [dynamic EXCEPT ![f] = Never]
             /\ IF Due' = {}
                THEN UNCHANGED <<dynamicWakeUpTime, dynamicAlarm>>
                ELSE \E g \in First' : /\ dynamicWakeUpTime' = dynamic'[g]
                                       /\ dynamicAlarm' = dynamic'[g]
    <2>1. CASE Due' = {}
      <3>1. UNCHANGED <<dynamicWakeUpTime, dynamicAlarm>>
        BY <1>7, <2>1
      <3>2. \A f \in Forms : dynamic'[f] = Never
        BY <2>1 DEF Due
      <3> QED BY <1>1, <2>1, <3>1, <3>2 DEF NextAlarmed, AlarmIsKnown, FirstIsAlarmed
    <2>2. CASE Due' # {}
      <3>1. dynamicWakeUpTime' = dynamicAlarm' /\ \E g \in First' : dynamicAlarm' = dynamic'[g]
        BY <1>7, <2>2
      <3> QED BY <3>1 DEF NextAlarmed, AlarmIsKnown, FirstIsAlarmed
    <2> QED BY <2>1, <2>2
  <1>8. CASE (\E f \in First : dynamic[f] = W) /\ now <= W /\ UNCHANGED next
    <2>1. UNCHANGED <<dynamic, dynamicWakeUpTime, dynamicAlarm, Due, First>>
      BY <1>8 DEF next, Due, First
    <2>2. AlarmIsKnown'
      BY <1>1, <1>4, <2>1 DEF NextAlarmed, AlarmIsKnown, Comes
    <2>3. FirstIsAlarmed'
      BY <1>8, <2>1 DEF FirstIsAlarmed
    <2> QED BY <2>2, <2>3 DEF NextAlarmed
  <1> QED BY <1>5, <1>6, <1>7, <1>8 DEF UpdateDynamicAlarm

\* The alarm fires; time goes by.
LEMMA TimeAlarms ==
    ASSUME Typed, NextAlarmed,
           UpdateAtAlarmFires \/ DynamicAlarmFires \/ Tick \/ TimeIsSet
    PROVE  NextAlarmed'
  <1>1. calls' = calls /\ \A x : HasAhead(x) => HasAhead(x)'
    BY DEF UpdateAtAlarmFires, DynamicAlarmFires, Tick, TimeIsSet, HasAhead
  <1>2. events \subseteq events'
    BY DEF UpdateAtAlarmFires, DynamicAlarmFires, Tick, TimeIsSet
  <1>3. UNCHANGED <<dynamicWakeUpTime, now>> /\ Comes => Comes'
    BY <1>1, <1>2 DEF Comes
  <1>4. CASE UpdateAtAlarmFires \/ TimeIsSet
    <2>1. UNCHANGED <<next, now>>
      BY <1>4 DEF UpdateAtAlarmFires, TimeIsSet, clock
    <2> QED BY <1>1, <1>3, <2>1, AlarmStays DEF next
  <1>5. /\ now \in Int /\ MaxTime \in Nat /\ Day \in Nat /\ now <= MaxTime
        /\ dynamicWakeUpTime \in Int /\ dynamicAlarm \in Int /\ ~(Never <= now)
    BY TimersAssumption DEF Typed, Listed, Never, Moments
  <1>6. CASE DynamicAlarmFires
    <2>1. /\ dynamicAlarm <= now /\ dynamicAlarm' = Never
          /\ UNCHANGED <<dynamic, dynamicWakeUpTime, now, Due, First>>
          /\ [type |-> "dynamic", time |-> dynamicAlarm] \in events'
      BY <1>6 DEF DynamicAlarmFires, clock, Due, First
    <2>2. dynamicAlarm = dynamicWakeUpTime
      BY <1>5, <2>1 DEF NextAlarmed, AlarmIsKnown
    <2>3. Comes'
      BY <2>1, <2>2 DEF Comes
    <2>4. AlarmIsKnown'
      BY <2>1, <2>2, <2>3 DEF AlarmIsKnown
    <2>5. FirstIsAlarmed'
      BY <1>1, <2>1 DEF NextAlarmed, FirstIsAlarmed
    <2> QED BY <2>4, <2>5 DEF NextAlarmed
  <1>7. CASE Tick
    <2>1. UNCHANGED <<dynamic, dynamicWakeUpTime, dynamicAlarm, Due, First>> /\ now' = now + 1
      BY <1>7 DEF Tick, next, Due, First
    <2>2. dynamicWakeUpTime <= now => dynamicWakeUpTime <= now'
      BY <1>5, <2>1
    <2>3. Comes => Comes'
      BY <1>1, <1>2, <2>1, <2>2 DEF Comes
    <2>4. AlarmIsKnown'
      BY <2>1, <2>2, <2>3 DEF NextAlarmed, AlarmIsKnown
    <2>5. FirstIsAlarmed'
      BY <1>1, <2>1 DEF NextAlarmed, FirstIsAlarmed
    <2> QED BY <2>4, <2>5 DEF NextAlarmed
  <1> QED BY <1>4, <1>6, <1>7

LEMMA NextAlarms == Typed /\ NextAlarmed /\ [Next]_vars => NextAlarmed'
  <1> SUFFICES ASSUME Typed, NextAlarmed, [Next]_vars PROVE NextAlarmed'
    OBVIOUS
  <1>1. CASE UNCHANGED vars
    <2>1. UNCHANGED <<next, now, events, calls>>
      BY <1>1 DEF vars, clock
    <2>2. \A x : HasAhead(x) => HasAhead(x)'
      BY <2>1 DEF HasAhead
    <2>3. Comes => Comes'
      BY <2>1, <2>2 DEF Comes, next
    <2> QED BY <2>1, <2>2, <2>3, AlarmStays
  <1>2. ASSUME NEW t \in Threads, NEW f \in Forms, Request(t, f) PROVE NextAlarmed'
    BY <1>2, RequestAlarms
  <1>3. ASSUME NEW t \in Threads, OnReceiveEvent(t) PROVE NextAlarmed'
    BY <1>3, EventAlarms
  <1>4. ASSUME NEW t \in Threads, Step(t) PROVE NextAlarmed'
    BY <1>4, FixedAlarms, IntervalAlarms, DynamicAlarms, UpdateAlarms DEF Step
  <1> QED BY <1>1, <1>2, <1>3, <1>4, TimeAlarms DEF Next

\* What a trigger leaves ahead.
LEMMA TriggerUpdates ==
    ASSUME Typed, HasAhead("OnDynamicTimeTrigger")
    PROVE  HasAhead("UpdateDynamicAlarm")
  <1>1. PICK u \in Threads : Has(calls[u].todo, "OnDynamicTimeTrigger")
    BY DEF HasAhead
  <1>2. calls[u].todo # <<>> /\ Head(calls[u].todo) = "OnDynamicTimeTrigger"
    BY <1>1, TheyComeFirst, CallFacts DEF FirstSteps
  <1>3. calls[u].todo = Trigger
    BY <1>2, ScriptsByHead, CallFacts
  <1>4. Has(calls[u].todo, "UpdateDynamicAlarm")
    BY <1>3, HasOf
  <1> QED BY <1>4 DEF HasAhead

\* Once no alarm update is ahead and no event of it under way, the alarm of the next
\* times is started for the first of the list, unless its moment has come and is one
\* whose event OnReceiveEvent drops: for any number of forms, requests and times,
\* though the list and the alarm are changed under two locks.
THEOREM NextTimesAlarmed == Spec => []DynamicAlarmed
  <1>1. Init => NextAlarmed
    <2> SUFFICES ASSUME Init PROVE NextAlarmed
      OBVIOUS
    <2> QED BY DEF Init, NextAlarmed, AlarmIsKnown, FirstIsAlarmed, Due
  <1>2. Typed /\ NextAlarmed => DynamicAlarmed
    <2> SUFFICES ASSUME Typed, NextAlarmed,
                        ~Ahead("UpdateDynamicAlarm"), ~Pending("dynamic"), Due # {}
                 PROVE  \E f \in First : \/ dynamicAlarm = dynamic[f]
                                         \/ dynamic[f] <= now /\ Refused(dynamic[f])
      BY DEF DynamicAlarmed
    <2>1. ~HasAhead("UpdateDynamicAlarm") /\ ~HasAhead("OnDynamicTimeTrigger")
      <3>1. ASSUME NEW t \in Threads, Has(calls[t].todo, "UpdateDynamicAlarm")
            PROVE  "UpdateDynamicAlarm" \in Range(calls[t].todo)
        <4>1. calls[t].todo \in Seq(Steps)
          BY CallFacts
        <4> QED BY <3>1, <4>1 DEF Has, Range
      <3> QED BY <3>1, TriggerUpdates DEF HasAhead, Ahead
    <2>2. PICK f \in First : dynamic[f] = dynamicWakeUpTime
      BY <2>1 DEF NextAlarmed, FirstIsAlarmed
    <2>3. f \in Forms /\ dynamic[f] # Never
      BY DEF First, Due
    <2>4. dynamicAlarm = dynamicWakeUpTime \/ Comes
      BY <2>2, <2>3 DEF NextAlarmed, AlarmIsKnown
    <2>5. [type |-> "dynamic", time |-> dynamicWakeUpTime] \notin events
      <3>1. [type |-> "dynamic", time |-> dynamicWakeUpTime].type = "dynamic"
        OBVIOUS
      <3> QED BY <3>1 DEF Pending
    <2> QED BY <2>1, <2>2, <2>4, <2>5 DEF Comes
  <1> QED BY <1>1, <1>2, InitTyped, NextTyped, NextAlarms, PTL DEF Spec
--------------------------------------------------------------------------------
(* The alarm of the fixed times.                                           *)

AtTimes == {item[2] : item \in Attended}
AnyAt(step) == \E t \in Threads : At(t, step)
ClockChanged == Pending("timeChanged") \/ AnyAt("HandleSystemTimeChanged")

\* A search for the next item that is sure to come: DeleteIntervalTimer may skip it.
FindAhead == \E t \in Threads : Has(calls[t].todo, "FindNextAtTimerItem")
                               /\ ~At(t, "DeleteIntervalTimer")
UpdateDue == Pending("static") \/ ClockChanged \/ FindAhead
IsNext(alarm) ==
    /\ alarm.at \in AtTimes
    /\ alarm.wake <= now \/ \A a \in AtTimes : alarm.wake <= NextTime(a)
Fits(alarm) == (alarm.wake + shift) % Day = alarm.at
WakeUp == atTimerWakeUpTime

\* One thread at a time updates the alarm.
OneUpdate == \A t, u \in Threads : InAlarmUpdate(t) /\ InAlarmUpdate(u) => t = u

\* atTimerWakeUpTime_ is the time of the alarm, unless that has come; and the alarm
\* goes off at its time of the day.
AlarmOfWakeUp ==
    \/ AnyAt("StartUpdateAtTimer") \/ AnyAt("ForgetWakeUpTime")
    \/ WakeUp = Never \/ WakeUp <= now \/ atAlarm.wake = WakeUp
AlarmFits ==
    atAlarm.wake = WakeUp => \/ AnyAt("StartUpdateAtTimer") \/ AnyAt("ForgetWakeUpTime")
                        \/ ClockChanged \/ Fits(atAlarm)

\* What an update has found is still the next, or another is due.
FoundOK(t) ==
    /\ Starting(t) => /\ UpdateDue \/ IsNext(calls[t].found)
                      /\ ClockChanged \/ Fits(calls[t].found)
    /\ At(t, "StartUpdateAtTimer") => calls[t].found.wake = WakeUp
    /\ At(t, "CompareWakeUpTime") /\ calls[t].found.wake = WakeUp => atAlarm.wake = WakeUp \/ UpdateDue
FoundIsNext == \A t \in Threads : FoundOK(t)
NothingFound == \A t \in Threads :
    /\ \A step \in {"RecheckEmpty", "ClearUpdateAtTimerResource", "ForgetWakeUpTime"} :
          At(t, step) => UpdateDue \/ Attended = {}
    /\ At(t, "ForgetWakeUpTime") => FindAhead \/ atAlarm = None
NextIsAlarmed ==
    \/ UpdateDue \/ \E t \in Threads : InAlarmUpdate(t)
    \/ IF atItems = {} THEN atAlarm = None ELSE Attended = {} \/ IsNext(atAlarm)
FixedAlarmed == /\ OneUpdate /\ AlarmOfWakeUp /\ AlarmFits /\ FoundIsNext /\ NothingFound
                /\ NextIsAlarmed

\* The updates under way are as before.
SameUpdates == \A u \in Threads, x \in AlarmSteps :
    (At(u, x)' <=> At(u, x)) /\ (At(u, x) => calls'[u].found = calls[u].found)

LEMMA SameFacts ==
    ASSUME SameUpdates
    PROVE  /\ \A u \in Threads : InAlarmUpdate(u)' <=> InAlarmUpdate(u)
           /\ AnyAt("StartUpdateAtTimer")' <=> AnyAt("StartUpdateAtTimer")
           /\ AnyAt("ForgetWakeUpTime")' <=> AnyAt("ForgetWakeUpTime")
           /\ \A u \in Threads :
                /\ Starting(u)' <=> Starting(u)
                /\ Starting(u) => calls'[u].found = calls[u].found
                /\ At(u, "StartUpdateAtTimer")' <=> At(u, "StartUpdateAtTimer")
                /\ At(u, "CompareWakeUpTime")' <=> At(u, "CompareWakeUpTime")
                /\ \A step \in {"RecheckEmpty", "ClearUpdateAtTimerResource", "ForgetWakeUpTime"} :
                      At(u, step)' <=> At(u, step)
  <1>1. {"StartUpdateAtTimer", "CompareWakeUpTime", "RecheckEmpty", "ClearUpdateAtTimerResource",
         "ForgetWakeUpTime"} \subseteq AlarmSteps
    BY DEF AlarmSteps
  <1>2. \A u \in Threads, x \in AlarmSteps :
          (At(u, x)' <=> At(u, x)) /\ (At(u, x) => calls'[u].found = calls[u].found)
    BY DEF SameUpdates
  <1>3. /\ \A u \in Threads : InAlarmUpdate(u)' <=> InAlarmUpdate(u)
        /\ AnyAt("StartUpdateAtTimer")' <=> AnyAt("StartUpdateAtTimer")
        /\ AnyAt("ForgetWakeUpTime")' <=> AnyAt("ForgetWakeUpTime")
    BY <1>1, <1>2 DEF InAlarmUpdate, AnyAt
  <1>4. ASSUME NEW u \in Threads
        PROVE  /\ Starting(u)' <=> Starting(u)
               /\ Starting(u) => calls'[u].found = calls[u].found
    BY <1>1, <1>2 DEF Starting
  <1> QED BY <1>1, <1>2, <1>3, <1>4

\* A step that changes nothing an update relies on.
LEMMA CalmStep ==
    ASSUME FixedAlarmed, SameUpdates,
           UNCHANGED <<Attended, atTimerWakeUpTime, atAlarm, now, shift>>, atItems' = {} => atItems = {},
           Pending("static") => UpdateDue', ClockChanged => ClockChanged', FindAhead => FindAhead'
    PROVE  FixedAlarmed'
  <1>1. /\ \A alarm : (IsNext(alarm)' <=> IsNext(alarm)) /\ (Fits(alarm)' <=> Fits(alarm))
        /\ WakeUp' = WakeUp
    BY DEF NextTime, TimeOfDay, IsNext, Fits, WakeUp, AtTimes
  <1>2. UpdateDue => UpdateDue'
    BY DEF UpdateDue
  <1> HIDE DEF WakeUp
  <1> USE <1>1, <1>2, SameFacts DEF FixedAlarmed
  <1>3. OneUpdate'
    BY DEF OneUpdate
  <1>4. AlarmOfWakeUp'
    BY DEF AlarmOfWakeUp
  <1>5. AlarmFits'
    BY DEF AlarmFits
  <1>6. FoundIsNext'
    <2>1. \A t \in Threads : calls'[t].found = calls[t].found =>
             /\ IsNext(calls[t].found)' <=> IsNext(calls[t].found)
             /\ Fits(calls[t].found)' <=> Fits(calls[t].found)
      BY DEF IsNext, Fits, NextTime, TimeOfDay, AtTimes
    <2>2. ASSUME NEW t \in Threads
          PROVE  FoundOK(t)'
      <3>1. (Starting(t) => /\ UpdateDue \/ IsNext(calls[t].found)
                            /\ ClockChanged \/ Fits(calls[t].found))'
        BY <2>1 DEF FoundIsNext, FoundOK
      <3>2. At(t, "StartUpdateAtTimer")' \/ At(t, "CompareWakeUpTime")' => Starting(t)
        BY DEF Starting
      <3>3. (At(t, "StartUpdateAtTimer") => calls[t].found.wake = WakeUp)'
        BY <3>2 DEF FoundIsNext, FoundOK
      <3>4. (At(t, "CompareWakeUpTime") /\ calls[t].found.wake = WakeUp
                        => atAlarm.wake = WakeUp \/ UpdateDue)'
        BY <3>2 DEF FoundIsNext, FoundOK
      <3> QED BY <3>1, <3>3, <3>4 DEF FoundOK
    <2> QED BY <2>2 DEF FoundIsNext
  <1>7. NothingFound'
    BY DEF NothingFound
  <1>8. NextIsAlarmed'
    <2>1. atItems = {} => Attended = {}
      BY DEF Attended
    <2> QED BY <2>1 DEF NextIsAlarmed
  <1> QED BY <1>3, <1>4, <1>5, <1>6, <1>7, <1>8

\* A step that changes the items, and is followed by a search for the next.
LEMMA ItemsStep ==
    ASSUME FixedAlarmed, SameUpdates,
           UNCHANGED <<atTimerWakeUpTime, atAlarm, now, shift>>,
           ClockChanged => ClockChanged', FindAhead'
    PROVE  FixedAlarmed'
  <1>1. (\A alarm : Fits(alarm)' <=> Fits(alarm)) /\ WakeUp' = WakeUp /\ UpdateDue'
    BY DEF Fits, WakeUp, UpdateDue
  <1> HIDE DEF WakeUp
  <1> USE <1>1, SameFacts DEF FixedAlarmed
  <1>3. OneUpdate'
    BY DEF OneUpdate
  <1>4. AlarmOfWakeUp'
    BY DEF AlarmOfWakeUp
  <1>5. AlarmFits'
    BY DEF AlarmFits
  <1>6. FoundIsNext'
    <2>1. \A t \in Threads : calls'[t].found = calls[t].found =>
             (Fits(calls[t].found)' <=> Fits(calls[t].found))
      BY DEF Fits
    <2>2. ASSUME NEW t \in Threads
          PROVE  FoundOK(t)'
      <3>1. (Starting(t) => /\ UpdateDue \/ IsNext(calls[t].found)
                            /\ ClockChanged \/ Fits(calls[t].found))'
        BY <2>1 DEF FoundIsNext, FoundOK
      <3>2. At(t, "StartUpdateAtTimer")' \/ At(t, "CompareWakeUpTime")' => Starting(t)
        BY DEF Starting
      <3>3. (At(t, "StartUpdateAtTimer") => calls[t].found.wake = WakeUp)'
        BY <3>2 DEF FoundIsNext, FoundOK
      <3>4. (At(t, "CompareWakeUpTime") /\ calls[t].found.wake = WakeUp
                        => atAlarm.wake = WakeUp \/ UpdateDue)'
        BY <3>2 DEF FoundIsNext, FoundOK
      <3> QED BY <3>1, <3>3, <3>4 DEF FoundOK
    <2> QED BY <2>2 DEF FoundIsNext
  <1>7. NothingFound'
    BY DEF NothingFound
  <1>8. NextIsAlarmed'
    BY DEF NextIsAlarmed
  <1> QED BY <1>3, <1>4, <1>5, <1>6, <1>7, <1>8

\* What the request of a thread has ahead, and whether it is updating the alarm.
LEMMA CalmCalls ==
    ASSUME Typed, NEW t \in Threads, NEW c \in Calls, Update(t, c), ~InAlarmUpdate(t),
           c.todo # <<>> => Head(c.todo) \notin AlarmSteps
    PROVE  SameUpdates
  <1>1. calls'[t].todo = c.todo /\ \A u \in Threads : u # t => calls'[u] = calls[u]
    BY UpdateFacts DEF Typed, CallsOK
  <1>2. ASSUME NEW u \in Threads, NEW x \in AlarmSteps
        PROVE  (At(u, x)' <=> At(u, x)) /\ (At(u, x) => calls'[u].found = calls[u].found)
    <2>1. CASE u = t
      <3>1. ~At(t, x)
        BY DEF InAlarmUpdate
      <3>2. ~At(t, x)'
        BY <1>1 DEF At
      <3> QED BY <2>1, <3>1, <3>2 DEF At
    <2>2. CASE u # t
      BY <1>1, <2>2 DEF At
    <2> QED BY <2>1, <2>2
  <1> QED BY <1>2 DEF SameUpdates

\* A change of the clock stays ahead, and so does a search.
LEMMA ClockStays ==
    ASSUME Typed, NEW t \in Threads, NEW c \in Calls, Update(t, c), events \subseteq events',
           ~At(t, "HandleSystemTimeChanged")
    PROVE  /\ Pending("static") => UpdateDue'
           /\ ClockChanged => ClockChanged'
  <1>1. (Pending("static") => Pending("static")') /\ (Pending("timeChanged") => Pending("timeChanged")')
    BY DEF Pending
  <1>2. AnyAt("HandleSystemTimeChanged") => AnyAt("HandleSystemTimeChanged")'
    <2> SUFFICES ASSUME AnyAt("HandleSystemTimeChanged") PROVE AnyAt("HandleSystemTimeChanged")'
      OBVIOUS
    <2>1. PICK u \in Threads : At(u, "HandleSystemTimeChanged")
      BY DEF AnyAt
    <2>2. calls'[u] = calls[u]
      BY <2>1, UpdateFacts DEF Typed, CallsOK
    <2>3. At(u, "HandleSystemTimeChanged")'
      BY <2>1, <2>2 DEF At
    <2> QED BY <2>3 DEF AnyAt
  <1> QED BY <1>1, <1>2 DEF UpdateDue, ClockChanged

LEMMA SearchStays ==
    ASSUME Typed, NEW t \in Threads, NEW c \in Calls, Update(t, c), events \subseteq events',
           ~At(t, "HandleSystemTimeChanged"),
           Has(calls[t].todo, "FindNextAtTimerItem") /\ ~At(t, "DeleteIntervalTimer") =>
              Has(c.todo, "FindNextAtTimerItem") /\ ~Opens(c, "DeleteIntervalTimer")
    PROVE  /\ Pending("static") => UpdateDue'
           /\ ClockChanged => ClockChanged'
           /\ FindAhead => FindAhead'
  <1>1. calls'[t].todo = c.todo /\ \A u \in Threads : u # t => calls'[u] = calls[u]
    BY UpdateFacts DEF Typed, CallsOK
  <1>2. FindAhead => FindAhead'
    <2> SUFFICES ASSUME FindAhead PROVE FindAhead'
      OBVIOUS
    <2>1. PICK u \in Threads : /\ Has(calls[u].todo, "FindNextAtTimerItem")
                               /\ ~At(u, "DeleteIntervalTimer")
      BY DEF FindAhead
    <2>2. Has(calls'[u].todo, "FindNextAtTimerItem") /\ ~At(u, "DeleteIntervalTimer")'
      BY <1>1, <2>1 DEF At, Opens
    <2> QED BY <2>2 DEF FindAhead
  <1> QED BY <1>2, ClockStays

\* The alarms fire, the clock is set.
LEMMA TimeStep ==
    ASSUME Typed, FixedAlarmed, UpdateAtAlarmFires \/ DynamicAlarmFires \/ TimeIsSet
    PROVE  FixedAlarmed'
  <1>1. calls' = calls /\ events \subseteq events'
    BY DEF UpdateAtAlarmFires, DynamicAlarmFires, TimeIsSet
  <1>2. SameUpdates
    BY <1>1 DEF SameUpdates, At
  <1>3. /\ Pending("static") => Pending("static")'
        /\ Pending("timeChanged") => Pending("timeChanged")'
    BY <1>1 DEF Pending
  <1>4. /\ Pending("static") => UpdateDue'
        /\ ClockChanged => ClockChanged'
        /\ FindAhead => FindAhead'
    BY <1>1, <1>3 DEF UpdateDue, ClockChanged, AnyAt, FindAhead, At
  <1>5. CASE DynamicAlarmFires
    <2>1. UNCHANGED <<atItems, Attended, atTimerWakeUpTime, atAlarm, now, shift>>
      BY <1>5 DEF DynamicAlarmFires, fixed, clock, Attended
    <2> QED BY <1>2, <1>4, <2>1, CalmStep
  <1>6. /\ now \in Int /\ WakeUp \in Moments \cup {Never} /\ -1 \notin Moments \cup {Never}
        /\ Never \in Int /\ Moments \subseteq Int
    BY TimersAssumption DEF Typed, Listed, Moments, Never, WakeUp
  <1>7. CASE UpdateAtAlarmFires
    <2>1. /\ atAlarm # None /\ atAlarm.wake <= now /\ atAlarm' = None
          /\ UNCHANGED <<Attended, atTimerWakeUpTime, now, shift>>
          /\ [type |-> "static", time |-> atAlarm.at] \in events'
      BY <1>7 DEF UpdateAtAlarmFires, AlarmDue, clock, Attended
    <2>2. UpdateDue'
      <3>1. [type |-> "static", time |-> atAlarm.at].type = "static"
        OBVIOUS
      <3> QED BY <2>1, <3>1 DEF UpdateDue, Pending
    <2>3. WakeUp' = WakeUp /\ now' = now /\ atAlarm'.wake = -1
      BY <2>1 DEF WakeUp, None
    <2> HIDE DEF WakeUp
    <2> USE <1>4, <2>2, <2>3, SameFacts, <1>2 DEF FixedAlarmed
    <2>4. OneUpdate'
      BY DEF OneUpdate
    <2>5. AlarmOfWakeUp'
      BY <2>1 DEF AlarmOfWakeUp
    <2>6. AlarmFits'
      BY <1>6 DEF AlarmFits
    <2>7. FoundIsNext'
      <3>1. \A t \in Threads : calls'[t].found = calls[t].found =>
               (Fits(calls[t].found)' <=> Fits(calls[t].found))
        BY <2>1 DEF Fits
      <3>2. ASSUME NEW t \in Threads
            PROVE  FoundOK(t)'
        <4>1. (Starting(t) => /\ UpdateDue \/ IsNext(calls[t].found)
                              /\ ClockChanged \/ Fits(calls[t].found))'
          BY <3>1 DEF FoundIsNext, FoundOK
        <4>2. At(t, "StartUpdateAtTimer")' => Starting(t)
          BY DEF Starting
        <4>3. (At(t, "StartUpdateAtTimer") => calls[t].found.wake = WakeUp)'
          BY <4>2 DEF FoundIsNext, FoundOK
        <4> QED BY <4>1, <4>3 DEF FoundOK
      <3> QED BY <3>2 DEF FoundIsNext
    <2>8. NothingFound'
      BY <2>1 DEF NothingFound
    <2>9. NextIsAlarmed'
      BY DEF NextIsAlarmed
    <2> QED BY <2>4, <2>5, <2>6, <2>7, <2>8, <2>9
  <1>8. CASE TimeIsSet
    <2>1. /\ UNCHANGED <<Attended, atTimerWakeUpTime, atAlarm, now>>
          /\ [type |-> "timeChanged", time |-> 0] \in events'
      BY <1>8 DEF TimeIsSet, fixed, Attended
    <2>2. ClockChanged' /\ UpdateDue'
      <3>1. [type |-> "timeChanged", time |-> 0].type = "timeChanged"
        OBVIOUS
      <3> QED BY <2>1, <3>1 DEF UpdateDue, ClockChanged, Pending
    <2>3. WakeUp' = WakeUp
      BY <2>1 DEF WakeUp
    <2> HIDE DEF WakeUp
    <2> USE <1>4, <2>2, <2>3, SameFacts, <1>2 DEF FixedAlarmed
    <2>4. OneUpdate'
      BY DEF OneUpdate
    <2>5. AlarmOfWakeUp'
      BY <2>1 DEF AlarmOfWakeUp
    <2>6. AlarmFits'
      BY DEF AlarmFits
    <2>7. FoundIsNext'
      <3>1. ASSUME NEW t \in Threads
            PROVE  (At(t, "StartUpdateAtTimer") => calls[t].found.wake = WakeUp)'
        <4>1. At(t, "StartUpdateAtTimer")' => Starting(t)
          BY DEF Starting
        <4> QED BY <4>1 DEF FoundIsNext, FoundOK
      <3> QED BY <3>1 DEF FoundIsNext, FoundOK
    <2>8. NothingFound'
      BY <2>1 DEF NothingFound
    <2>9. NextIsAlarmed'
      BY DEF NextIsAlarmed
    <2> QED BY <2>4, <2>5, <2>6, <2>7, <2>8, <2>9
  <1> QED BY <1>5, <1>7, <1>8

\* Of two times with the same time of the day the later one is a day later.
LEMMA ModOrder ==
    ASSUME NEW n \in Nat \ {0}, NEW x \in Int, NEW y \in Int, x % n = y % n, y > x - n
    PROVE  y >= x
  <1>1. PICK m \in 0 .. (n - 1) : m = x % n /\ \E q \in Int : x = n * q + m
    BY ModFacts
  <1>2. PICK k \in 0 .. (n - 1) : k = y % n /\ \E q \in Int : y = n * q + k
    BY ModFacts
  <1>3. PICK p \in Int : x = n * p + m
    BY <1>1
  <1>4. PICK q \in Int : y = n * q + m
    BY <1>1, <1>2
  <1> DEFINE a == n * p
             b == n * q
  <1>5. a \in Int /\ b \in Int /\ x = a + m /\ y = b + m /\ b > a - n
    <2>1. a \in Int /\ b \in Int
      OBVIOUS
    <2> HIDE DEF a, b
    <2>2. x = a + m /\ y = b + m
      BY <1>3, <1>4 DEF a, b
    <2> QED BY <2>1, <2>2
  <1>6. q >= p
    <2> SUFFICES ASSUME q + 1 <= p PROVE FALSE
      OBVIOUS
    <2>1. PICK d \in Nat : p = (q + 1) + d
      <3>1. p - (q + 1) \in Nat /\ p = (q + 1) + (p - (q + 1))
        OBVIOUS
      <3> QED BY <3>1
    <2>2. n * p = n * q + n + n * d /\ n * d \in Nat
      BY <2>1
    <2> DEFINE e == n * d
    <2>3. a = b + n + e /\ e \in Nat
      BY <2>2
    <2> HIDE DEF a, b, e
    <2> QED BY <1>5, <2>3
  <1>7. PICK d \in Nat : q = p + d
    <2>1. q - p \in Nat /\ q = p + (q - p)
      BY <1>6
    <2> QED BY <2>1
  <1>8. n * q = n * p + n * d /\ n * d \in Nat
    BY <1>7
  <1> DEFINE e == n * d
  <1>9. b = a + e /\ e \in Nat
    BY <1>8
  <1> HIDE DEF a, b, e
  <1> QED BY <1>5, <1>9

\* Time goes by: the next time of an item does not come earlier for it.
LEMMA TickStep ==
    ASSUME Typed, Typed', FixedAlarmed, Tick
    PROVE  FixedAlarmed'
  <1>1. /\ UNCHANGED <<atItems, Attended, atTimerWakeUpTime, atAlarm, events, shift, calls>>
        /\ now' = now + 1
    BY DEF Tick, fixed, Attended
  <1>2. SameUpdates
    BY <1>1 DEF SameUpdates, At
  <1>3. (ClockChanged' <=> ClockChanged) /\ (FindAhead' <=> FindAhead) /\ (UpdateDue' <=> UpdateDue)
    BY <1>1 DEF UpdateDue, ClockChanged, AnyAt, FindAhead, At, Pending
  <1>4. /\ now \in Int /\ WakeUp \in Int /\ Never \in Int /\ atAlarm.wake \in Int
        /\ \A t \in Threads : calls[t].found.wake \in Int
        /\ AtTimes \subseteq Times /\ AtTimes' = AtTimes /\ WakeUp' = WakeUp
    <2>1. /\ \A i \in Items \cup {None} : i.wake \in Int
      BY TimersAssumption DEF Items, None, Moments
    <2>2. /\ now \in Int /\ WakeUp \in Int /\ Never \in Int
      BY TimersAssumption DEF Typed, Listed, Moments, Never, WakeUp
    <2>3. atAlarm \in Items \cup {None} /\ \A t \in Threads : calls[t].found \in Items \cup {None}
      BY CallFacts DEF Typed, Listed
    <2>4. AtTimes \subseteq Times /\ AtTimes' = AtTimes /\ WakeUp' = WakeUp
      BY <1>1 DEF Typed, Listed, AtTimes, Attended, WakeUp
    <2> QED BY <2>1, <2>2, <2>3, <2>4
  <1>5. \A a \in Times : NextTime(a) \in Int /\ NextTime(a)' \in Int /\ NextTime(a) <= NextTime(a)'
    <2> SUFFICES ASSUME NEW a \in Times
                 PROVE  NextTime(a) \in Int /\ NextTime(a)' \in Int /\ NextTime(a) <= NextTime(a)'
      OBVIOUS
    <2>1. /\ NextTime(a) \in Int /\ NextTime(a) <= now + Day /\ (NextTime(a) + shift) % Day = a
      BY NextTimeFacts DEF Typed, Listed
    <2>2. /\ now' \in 0 .. MaxTime /\ shift' \in 0 .. (Day - 1)
      BY DEF Typed, Listed
    <2>3. /\ NextTime(a)' \in Int /\ NextTime(a)' > now' /\ (NextTime(a)' + shift') % Day = a
      BY <2>2, NextOf DEF NextTime, TimeOfDay
    <2>4. Day \in Nat \ {0} /\ shift \in Int /\ shift' = shift
      BY <1>1, TimersAssumption DEF Typed, Listed
    <2>5. PICK x \in Int, y \in Int : x = NextTime(a) + shift /\ y = NextTime(a)' + shift
      BY <2>1, <2>3, <2>4
    <2>6. x % Day = y % Day
      BY <2>1, <2>3, <2>4, <2>5
    <2>7. y > x - Day
      BY <1>1, <1>4, <2>1, <2>3, <2>4, <2>5
    <2>8. y >= x
      BY <2>4, <2>6, <2>7, ModOrder
    <2> QED BY <2>1, <2>3, <2>4, <2>5, <2>8
  <1>6. \A alarm : alarm.wake \in Int /\ IsNext(alarm) => IsNext(alarm)'
    <2> SUFFICES ASSUME NEW alarm, alarm.wake \in Int, IsNext(alarm) PROVE IsNext(alarm)'
      OBVIOUS
    <2>1. CASE alarm.wake <= now
      <3>1. alarm.wake <= now'
        BY <1>1, <1>4, <2>1
      <3> QED BY <1>4, <3>1 DEF IsNext
    <2>2. CASE \A a \in AtTimes : alarm.wake <= NextTime(a)
      <3>1. \A a \in AtTimes : alarm.wake <= NextTime(a)'
        BY <1>4, <1>5, <2>2
      <3> QED BY <1>4, <3>1 DEF IsNext
    <2> QED BY <2>1, <2>2 DEF IsNext
  <1>7. WakeUp <= now => WakeUp <= now'
    BY <1>1, <1>4
  <1> HIDE DEF WakeUp
  <1> USE <1>1, <1>3, SameFacts, <1>2 DEF FixedAlarmed
  <1>8. OneUpdate'
    BY DEF OneUpdate
  <1>9. AlarmOfWakeUp'
    BY <1>4, <1>7 DEF AlarmOfWakeUp
  <1>10. AlarmFits'
    BY <1>4 DEF AlarmFits, Fits
  <1>11. FoundIsNext'
    <2>1. ASSUME NEW t \in Threads
          PROVE  (IsNext(calls[t].found) => IsNext(calls[t].found)')
                 /\ (Fits(calls[t].found)' <=> Fits(calls[t].found))
      <3>1. PICK n : n = calls[t].found
        OBVIOUS
      <3>2. IsNext(n) => IsNext(n)'
        BY <1>4, <1>6, <3>1
      <3> QED BY <3>1, <3>2 DEF IsNext, Fits
    <2>2. ASSUME NEW t \in Threads
          PROVE  FoundOK(t)'
      <3>1. (Starting(t) => /\ UpdateDue \/ IsNext(calls[t].found)
                            /\ ClockChanged \/ Fits(calls[t].found))'
        BY <2>1 DEF FoundIsNext, FoundOK
      <3>2. At(t, "StartUpdateAtTimer")' \/ At(t, "CompareWakeUpTime")' => Starting(t)
        BY DEF Starting
      <3>3. (At(t, "StartUpdateAtTimer") => calls[t].found.wake = WakeUp)'
        BY <1>4, <3>2 DEF FoundIsNext, FoundOK
      <3>4. (At(t, "CompareWakeUpTime") /\ calls[t].found.wake = WakeUp
                        => atAlarm.wake = WakeUp \/ UpdateDue)'
        BY <1>4, <3>2 DEF FoundIsNext, FoundOK
      <3> QED BY <3>1, <3>3, <3>4 DEF FoundOK
    <2> QED BY <2>2 DEF FoundIsNext
  <1>12. NothingFound'
    BY DEF NothingFound
  <1>13. NextIsAlarmed'
    <2>1. CASE IsNext(atAlarm) /\ atItems # {}
      <3>1. PICK n : n = atAlarm
        OBVIOUS
      <3>2. IsNext(n)'
        BY <1>4, <1>6, <2>1, <3>1
      <3>3. IsNext(atAlarm)'
        BY <3>1, <3>2 DEF IsNext
      <3> QED BY <2>1, <3>3 DEF NextIsAlarmed
    <2>2. CASE ~(IsNext(atAlarm) /\ atItems # {})
      BY <2>2 DEF NextIsAlarmed
    <2> QED BY <2>1, <2>2
  <1> QED BY <1>8, <1>9, <1>10, <1>11, <1>12, <1>13

\* What follows a step does not begin with one that only comes first, nor with an
\* update of the alarm but after ClearUpdateAtTimerResource.
LEMMA RestHeads ==
    ASSUME NEW s \in Seq(Steps), Legal(s), s # <<>>, Tail(s) # <<>>
    PROVE  /\ Head(Tail(s)) \notin FirstSteps
           /\ Head(Tail(s)) \in AlarmSteps => Head(s) = "ClearUpdateAtTimerResource"
  <1>1. CASE s \in Plain
    <2>1. Tail(s) \in {<<>>, AtLast, UnlockLast, AtUnlock, Multi, FindLast, Item, RemoveFixed,
                      FindRemove, AlarmDelete, DeleteLast, FindInterval, AlarmItem, AlarmLast}
      BY <1>1, PlainRests
    <2> QED BY <2>1, FirstOf DEF FirstSteps, AlarmSteps
  <1>2. CASE Updating(s)
    BY <1>2, TailsAreShort DEF Updating, FirstSteps, AlarmSteps
  <1>3. CASE Clearing(s)
    BY <1>3 DEF Clearing, FirstSteps
  <1> QED BY <1>1, <1>2, <1>3 DEF Legal

\* A step that has nothing to do with the alarm and goes on with what is left.
LEMMA CalmRest ==
    ASSUME Typed, FixedAlarmed, NEW t \in Threads, calls[t].todo # <<>>,
           Head(calls[t].todo) \notin AlarmSteps \cup {"FindNextAtTimerItem", "HandleSystemTimeChanged"},
           GoOn(t, Rest(t)), events' = events,
           UNCHANGED <<atItems, Attended, atTimerWakeUpTime, atAlarm, now, shift>>
    PROVE  FixedAlarmed'
  <1> DEFINE s == calls[t].todo
  <1>1. /\ s \in Seq(Steps) /\ Legal(s) /\ Rest(t) = Tail(s) /\ Rest(t) \in Seq(Steps)
        /\ \A x : Has(s, x) <=> x = Head(s) \/ Has(Rest(t), x)
    BY CallFacts, GoOnFacts DEF Rest
  <1>2. PICK c \in Calls : Update(t, c) /\ c.todo = Rest(t)
    BY <1>1, GoOnFacts
  <1>3. "ClearUpdateAtTimerResource" \in AlarmSteps /\ "DeleteIntervalTimer" \in FirstSteps
    BY DEF AlarmSteps, FirstSteps
  <1>4. c.todo # <<>> => Head(c.todo) \notin AlarmSteps /\ Head(c.todo) # "DeleteIntervalTimer"
    BY <1>1, <1>2, <1>3, RestHeads
  <1>5. ~InAlarmUpdate(t) /\ ~At(t, "HandleSystemTimeChanged")
    BY DEF InAlarmUpdate, At
  <1>6. SameUpdates
    BY <1>2, <1>4, <1>5, CalmCalls
  <1>7. Has(s, "FindNextAtTimerItem") /\ ~At(t, "DeleteIntervalTimer") =>
              Has(c.todo, "FindNextAtTimerItem") /\ ~Opens(c, "DeleteIntervalTimer")
    BY <1>1, <1>2, <1>4 DEF Opens
  <1>8. /\ Pending("static") => UpdateDue'
        /\ ClockChanged => ClockChanged'
        /\ FindAhead => FindAhead'
    BY <1>2, <1>5, <1>7, SearchStays
  <1> QED BY <1>6, <1>8, CalmStep

LEMMA CalmSkip ==
    ASSUME Typed, FixedAlarmed, NEW t \in Threads, calls[t].todo # <<>>,
           Head(calls[t].todo) \notin AlarmSteps \cup {"FindNextAtTimerItem", "HandleSystemTimeChanged"},
           Has(calls[t].todo, "FindNextAtTimerItem") => At(t, "DeleteIntervalTimer"),
           NEW c \in Calls, Update(t, c), c.todo # <<>> => Head(c.todo) \notin AlarmSteps,
           events' = events,
           UNCHANGED <<atItems, Attended, atTimerWakeUpTime, atAlarm, now, shift>>
    PROVE  FixedAlarmed'
  <1>1. ~InAlarmUpdate(t) /\ ~At(t, "HandleSystemTimeChanged")
    BY DEF InAlarmUpdate, At
  <1>2. SameUpdates
    BY <1>1, CalmCalls
  <1>3. /\ Pending("static") => UpdateDue'
        /\ ClockChanged => ClockChanged'
        /\ FindAhead => FindAhead'
    BY <1>1, SearchStays
  <1> QED BY <1>2, <1>3, CalmStep

\* The steps on other lists.
LEMMA OtherSteps ==
    ASSUME Typed, FixedAlarmed, NEW t \in Threads,
           \/ AddIntervalTimer(t) \/ DeleteIntervalTimer(t) \/ IntervalToAtTimer(t) \/ Unlock(t)
           \/ AddItem(t) \/ DeleteItem(t)
           \/ SetDynamicItem(t) \/ DeleteDynamicItem(t) \/ OnDynamicTimeTrigger(t)
           \/ UpdateDynamicAlarm(t)
    PROVE  FixedAlarmed'
  <1> DEFINE s == calls[t].todo
  <1>1. /\ s # <<>>
        /\ Head(s) \notin AlarmSteps \cup {"FindNextAtTimerItem", "HandleSystemTimeChanged"}
    BY DEF AddIntervalTimer, DeleteIntervalTimer, IntervalToAtTimer, Unlock, AddItem, DeleteItem,
       SetDynamicItem, DeleteDynamicItem, OnDynamicTimeTrigger, UpdateDynamicAlarm, At, AlarmSteps
  <1>2. UNCHANGED <<atItems, Attended, atTimerWakeUpTime, atAlarm, now, shift>> /\ events' = events
    BY DEF AddIntervalTimer, DeleteIntervalTimer, IntervalToAtTimer, Unlock, AddItem, DeleteItem,
       SetDynamicItem, DeleteDynamicItem, OnDynamicTimeTrigger, UpdateDynamicAlarm, DynamicChange,
       fixed, clock, Attended
  <1>3. s \in Seq(Steps) /\ Legal(s) /\ Rest(t) = Tail(s) /\ Rest(t) \in Seq(Steps)
    BY <1>1, CallFacts DEF Rest
  <1>4. CASE GoOn(t, Rest(t))
    BY <1>1, <1>2, <1>4, CalmRest
  <1>5. CASE AddIntervalTimer(t) /\ ~GoOn(t, Rest(t))
    <2>1. s = IntervalItem /\ GoOn(t, <<>>)
      <3>1. s = IntervalItem
        BY <1>3, <1>5, ScriptsByHead DEF AddIntervalTimer, At
      <3> QED BY <1>5, <3>1 DEF AddIntervalTimer
    <2>2. ~Has(s, "FindNextAtTimerItem") /\ <<>> \in Seq(Steps)
      BY <2>1, HasOf
    <2>3. PICK c \in Calls : Update(t, c) /\ c.todo = <<>>
      BY <1>1, <2>1, <2>2, GoOnFacts
    <2> QED BY <1>1, <1>2, <2>2, <2>3, CalmSkip
  <1>6. CASE IntervalToAtTimer(t)
    <2>1. PICK c \in Calls : Update(t, c) /\ c.todo \in {AtUnlock, <<>>}
      BY <1>6, ToAtFacts
    <2>2. ~Has(s, "FindNextAtTimerItem")
      BY <1>6, ToAtFacts, HasOf
    <2>3. c.todo # <<>> => Head(c.todo) \notin AlarmSteps
      BY <2>1, FirstOf DEF AlarmSteps
    <2> QED BY <1>1, <1>2, <2>1, <2>2, <2>3, CalmSkip
  <1>7. CASE DeleteIntervalTimer(t) /\ ~GoOn(t, Rest(t))
    <2> DEFINE d == SubSeq(Rest(t), 3, Len(Rest(t)))
    <2>1. s \in {RemoveTimer, DeleteInterval} /\ GoOn(t, d) /\ At(t, "DeleteIntervalTimer")
      <3>1. s \in {RemoveTimer, DeleteInterval}
        BY <1>3, <1>7, ScriptsByHead DEF DeleteIntervalTimer, At
      <3> QED BY <1>7, <3>1 DEF DeleteIntervalTimer
    <2>2. d \in {RemoveDynamic, <<>>}
      BY <1>3, <2>1, SkipFacts
    <2> HIDE DEF d
    <2>3. RemoveDynamic \in Seq(Steps) /\ <<>> \in Seq(Steps)
      BY Scripts DEF Is
    <2>4. d # <<>> => Head(d) \notin AlarmSteps
      BY <2>2, FirstOf DEF AlarmSteps
    <2>5. d \in Seq(Steps)
      BY <2>2, <2>3
    <2>6. PICK c \in Calls : Update(t, c) /\ c.todo = d
      BY <1>1, <2>1, <2>5, GoOnFacts
    <2> QED BY <1>1, <1>2, <2>1, <2>4, <2>6, CalmSkip
  <1>8. \/ GoOn(t, Rest(t)) \/ AddIntervalTimer(t) \/ IntervalToAtTimer(t) \/ DeleteIntervalTimer(t)
    BY DEF Unlock, AddItem, DeleteItem, SetDynamicItem, DeleteDynamicItem, OnDynamicTimeTrigger,
       UpdateDynamicAlarm, DynamicChange
  <1> QED BY <1>4, <1>5, <1>6, <1>7, <1>8

\* A request begins.
LEMMA RequestStep ==
    ASSUME Typed, FixedAlarmed, NEW t \in Threads, NEW f \in Forms, Request(t, f)
    PROVE  FixedAlarmed'
  <1>1. PICK s \in Requests, times \in SUBSET Moments, need \in BOOLEAN :
          BeginTask(t, f, s, times, need)
    BY RequestBegins
  <1>2. /\ UNCHANGED <<atItems, Attended, atTimerWakeUpTime, atAlarm, now, shift>> /\ events' = events
        /\ calls[t] = Idle /\ calls' = [calls EXCEPT ![t] =
             [todo |-> s, form |-> f, times |-> times, need |-> need, found |-> None]]
    BY <1>1 DEF BeginTask, fixed, clock, Attended
  <1> DEFINE c == [todo |-> s, form |-> f, times |-> times, need |-> need, found |-> None]
  <1>3. s # <<>> /\ s \in Seq(Steps)
    BY Beginnings DEF Requests
  <1>4. c \in Calls /\ c.todo = s
    BY <1>3 DEF Calls
  <1>5. Update(t, c)
    BY <1>2, <1>3 DEF Update
  <1> HIDE DEF c
  <1>6. Head(s) \notin AlarmSteps
    BY FirstOf DEF Requests, AlarmSteps
  <1>7. calls[t].todo = <<>> /\ ~InAlarmUpdate(t) /\ ~At(t, "HandleSystemTimeChanged")
        /\ ~Has(calls[t].todo, "FindNextAtTimerItem")
    BY <1>2, HasNone DEF Idle, InAlarmUpdate, At
  <1>8. SameUpdates
    BY <1>4, <1>5, <1>6, <1>7, CalmCalls
  <1>9. /\ Pending("static") => UpdateDue'
        /\ ClockChanged => ClockChanged'
        /\ FindAhead => FindAhead'
    BY <1>2, <1>4, <1>5, <1>7, SearchStays
  <1> QED BY <1>2, <1>8, <1>9, CalmStep

\* An event of the alarm becomes a search, a change of the clock is handled.
LEMMA EventStep ==
    ASSUME Typed, FixedAlarmed, NEW t \in Threads, OnReceiveEvent(t)
    PROVE  FixedAlarmed'
  <1>1. PICK e \in events, c \in Calls :
              /\ events' = events \ {e} /\ Update(t, c) /\ calls[t] = Idle
              /\ e.type \in {"static", "dynamic", "timeChanged"}
              /\ c.todo = IF e.type = "static" THEN FindLast
                          ELSE IF e.type = "timeChanged" THEN Changed
                          ELSE IF Refused(e.time) THEN <<>> ELSE Trigger
              /\ UNCHANGED <<tasks, fixed, next, clock, requests, raced>>
    BY EventFacts
  <1>2. UNCHANGED <<atItems, Attended, atTimerWakeUpTime, atAlarm, now, shift>>
    BY <1>1 DEF fixed, clock, Attended
  <1>3. c.todo \in {FindLast, Trigger, Changed, <<>>}
    BY <1>1
  <1>4. c.todo # <<>> => Head(c.todo) \notin AlarmSteps
    BY <1>3, FirstOf DEF AlarmSteps
  <1>5. /\ calls[t].todo = <<>> /\ ~InAlarmUpdate(t)
        /\ calls'[t].todo = c.todo /\ \A u \in Threads : u # t => calls'[u] = calls[u]
    BY <1>1, UpdateFacts DEF Idle, InAlarmUpdate, At, Typed, CallsOK
  <1>6. SameUpdates
    BY <1>1, <1>4, <1>5, CalmCalls
  <1>7. AnyAt("HandleSystemTimeChanged") => AnyAt("HandleSystemTimeChanged")'
    <2> SUFFICES ASSUME AnyAt("HandleSystemTimeChanged") PROVE AnyAt("HandleSystemTimeChanged")'
      OBVIOUS
    <2>1. PICK u \in Threads : At(u, "HandleSystemTimeChanged")
      BY DEF AnyAt
    <2>2. At(u, "HandleSystemTimeChanged")'
      BY <1>5, <2>1 DEF At
    <2> QED BY <2>2 DEF AnyAt
  <1>8. FindAhead => FindAhead'
    <2> SUFFICES ASSUME FindAhead PROVE FindAhead'
      OBVIOUS
    <2>1. PICK u \in Threads : /\ Has(calls[u].todo, "FindNextAtTimerItem")
                               /\ ~At(u, "DeleteIntervalTimer")
      BY DEF FindAhead
    <2>2. Has(calls'[u].todo, "FindNextAtTimerItem") /\ ~At(u, "DeleteIntervalTimer")'
      BY <1>5, <2>1, HasNone DEF At
    <2> QED BY <2>2 DEF FindAhead
  <1>9. Pending("static") => UpdateDue'
    <2>1. CASE e.type = "static"
      <3>1. calls'[t].todo = FindLast
        BY <1>1, <1>5, <2>1
      <3>2. Has(calls'[t].todo, "FindNextAtTimerItem") /\ ~At(t, "DeleteIntervalTimer")'
        BY <3>1, HasOf, FirstOf DEF At
      <3> QED BY <3>2 DEF UpdateDue, FindAhead
    <2>2. CASE e.type # "static"
      <3>1. Pending("static") => Pending("static")'
        BY <1>1, <2>2 DEF Pending
      <3> QED BY <3>1 DEF UpdateDue
    <2> QED BY <2>1, <2>2
  <1>10. Pending("timeChanged") => ClockChanged'
    <2>1. CASE e.type = "timeChanged"
      <3>1. calls'[t].todo = Changed
        BY <1>1, <1>5, <2>1
      <3>2. At(t, "HandleSystemTimeChanged")'
        BY <3>1, Scripts DEF Is, At
      <3> QED BY <3>2 DEF ClockChanged, AnyAt
    <2>2. CASE e.type # "timeChanged"
      <3>1. Pending("timeChanged") => Pending("timeChanged")'
        BY <1>1, <2>2 DEF Pending
      <3> QED BY <3>1 DEF ClockChanged
    <2> QED BY <2>1, <2>2
  <1>11. ClockChanged => ClockChanged'
    BY <1>7, <1>10 DEF ClockChanged
  <1> QED BY <1>2, <1>6, <1>8, <1>9, <1>11, CalmStep

\* The steps that change the items.
LEMMA ItemSteps ==
    ASSUME Typed, FixedAlarmed, NEW t \in Threads,
           \/ AddUpdateAtTimer(t) \/ DeleteUpdateAtTimer(t) \/ UpdateTimerValue(t)
           \/ TakeUpdateAtItems(t)
    PROVE  FixedAlarmed'
  <1> DEFINE s == calls[t].todo
  <1>1. /\ s # <<>>
        /\ Head(s) \in {"AddUpdateAtTimer", "DeleteUpdateAtTimer", "UpdateTimerValue",
                        "TakeUpdateAtItems"}
    BY DEF AddUpdateAtTimer, DeleteUpdateAtTimer, UpdateTimerValue, TakeUpdateAtItems, At
  <1>2. /\ ~InAlarmUpdate(t) /\ ~At(t, "HandleSystemTimeChanged") /\ ~At(t, "DeleteIntervalTimer")
        /\ Head(s) # "FindNextAtTimerItem"
    BY <1>1 DEF InAlarmUpdate, At, AlarmSteps
  <1>3. UNCHANGED <<atTimerWakeUpTime, atAlarm, now, shift>> /\ events' = events
    BY DEF AddUpdateAtTimer, DeleteUpdateAtTimer, UpdateTimerValue, TakeUpdateAtItems,
       ItemsChange, clock
  <1>4. s \in Seq(Steps) /\ Legal(s) /\ Rest(t) = Tail(s) /\ Rest(t) \in Seq(Steps)
        /\ calls[t] \in Calls
    BY <1>1, CallFacts DEF Rest
  <1>5. ASSUME NEW c \in Calls, Update(t, c), Has(c.todo, "FindNextAtTimerItem"),
               c.todo # <<>>, Head(c.todo) \notin AlarmSteps \cup {"DeleteIntervalTimer"}
        PROVE  FixedAlarmed'
    <2>1. SameUpdates
      BY <1>2, <1>5, CalmCalls
    <2>2. ClockChanged => ClockChanged'
      BY <1>2, <1>3, <1>5, SearchStays DEF Opens
    <2>3. FindAhead'
      <3>1. calls'[t].todo = c.todo
        BY <1>5, UpdateFacts DEF Typed, CallsOK
      <3>2. Has(calls'[t].todo, "FindNextAtTimerItem") /\ ~At(t, "DeleteIntervalTimer")'
        BY <1>5, <3>1 DEF At
      <3> QED BY <3>2 DEF FindAhead
    <2> QED BY <1>3, <2>1, <2>2, <2>3, ItemsStep
  <1>6. CASE AddUpdateAtTimer(t)
    <2>1. PICK a \in Times, c \in Calls :
              /\ atItems' = atItems \cup {<<calls[t].form, a>>} /\ Update(t, c)
              /\ unalarmed' = IF calls[t].need THEN unalarmed
                              ELSE unalarmed \cup ({<<calls[t].form, a>>} \ atItems)
              /\ c.todo # <<>> => Head(c.todo) \in {"FindNextAtTimerItem", "AddItem", "Unlock",
                                                    "AddUpdateAtTimer"}
              /\ <<calls[t].form, a>> \notin atItems /\ calls[t].need => Has(c.todo, "FindNextAtTimerItem")
              /\ \A x : Has(s, x) => x = Head(s) \/ Has(c.todo, x)
      BY <1>6, AddFacts
    <2>2. c.todo # <<>> => Head(c.todo) \notin AlarmSteps \cup {"DeleteIntervalTimer"}
      BY <2>1 DEF AlarmSteps
    <2>3. CASE <<calls[t].form, a>> \notin atItems /\ calls[t].need
      <3>1. Has(c.todo, "FindNextAtTimerItem") /\ c.todo # <<>>
        BY <2>1, <2>3, HasNone
      <3> QED BY <1>5, <2>1, <2>2, <3>1
    <2>4. CASE <<calls[t].form, a>> \in atItems \/ ~calls[t].need
      <3>1. Attended' = Attended /\ (atItems' = {} => atItems = {})
        BY <2>1, <2>4 DEF Attended
      <3>2. SameUpdates
        BY <1>2, <2>1, <2>2, CalmCalls
      <3>3. Has(s, "FindNextAtTimerItem") /\ ~At(t, "DeleteIntervalTimer") =>
              Has(c.todo, "FindNextAtTimerItem") /\ ~Opens(c, "DeleteIntervalTimer")
        BY <1>2, <2>1, <2>2 DEF Opens
      <3>4. /\ Pending("static") => UpdateDue'
            /\ ClockChanged => ClockChanged'
            /\ FindAhead => FindAhead'
        BY <1>2, <1>3, <2>1, <3>3, SearchStays
      <3> QED BY <1>3, <3>1, <3>2, <3>4, CalmStep
    <2> QED BY <2>3, <2>4
  <1>7. CASE DeleteUpdateAtTimer(t) \/ UpdateTimerValue(t) \/ TakeUpdateAtItems(t)
    <2>1. Rest(t) \in {FindRemove, FindLast, FindInterval}
      <3>1. s \in {RemoveFixed, UpdateAt, TakeAt, TakeAtInterval}
        BY <1>1, <1>4, <1>7, ScriptsByHead DEF DeleteUpdateAtTimer, UpdateTimerValue,
           TakeUpdateAtItems, At
      <3> QED BY <1>4, <3>1, RestOf
    <2>2. /\ Has(Rest(t), "FindNextAtTimerItem") /\ Rest(t) # <<>>
          /\ Head(Rest(t)) \notin AlarmSteps \cup {"DeleteIntervalTimer"}
      <3>1. FindRemove # <<>> /\ FindLast # <<>> /\ FindInterval # <<>>
        BY Scripts DEF Is
      <3> QED BY <2>1, <3>1, HasOf, FirstOf DEF AlarmSteps
    <2>3. \E c \in Calls : Update(t, c) /\ c.todo = Rest(t)
      <3>1. CASE TakeUpdateAtItems(t)
        <4> DEFINE d == [calls[t] EXCEPT !.todo = Rest(t), !.form = Found(t),
                                  !.need = ~FoundQuiet(t)]
        <4>1. Found(t) \in Forms \cup {NoForm}
          BY CallFacts DEF Found
        <4>2. d \in Calls /\ d.todo = Rest(t)
          BY <1>4, <4>1 DEF Calls
        <4>3. Update(t, d)
          BY <3>1 DEF TakeUpdateAtItems, ItemsChange
        <4> HIDE DEF d
        <4> QED BY <4>2, <4>3
      <3>2. CASE DeleteUpdateAtTimer(t) \/ UpdateTimerValue(t)
        <4>1. GoOn(t, Rest(t))
          BY <3>2 DEF DeleteUpdateAtTimer, UpdateTimerValue, ItemsChange, GoOn
        <4> QED BY <1>1, <1>4, <4>1, GoOnFacts
      <3> QED BY <1>7, <3>1, <3>2
    <2> QED BY <1>5, <2>2, <2>3
  <1> QED BY <1>6, <1>7

\* An update of the alarm that meets no other.
LEMMA AloneFacts ==
    ASSUME Typed, ~overlapped', NEW t \in Threads,
           \/ FindNextAtTimerItem(t) \/ CompareWakeUpTime(t) \/ StartUpdateAtTimer(t)
           \/ RecheckEmpty(t) \/ ClearUpdateAtTimerResource(t) \/ ForgetWakeUpTime(t)
           \/ HandleSystemTimeChanged(t)
    PROVE  /\ ~overlapped /\ \A u \in Threads \ {t} : ~InAlarmUpdate(u)
           /\ ~(At(t, "HandleSystemTimeChanged") /\ atItems = {} /\ atAlarm # None)
           /\ UNCHANGED <<atItems, now, shift>> /\ events' = events
           /\ calls[t].todo # <<>>
           /\ Head(calls[t].todo) \in AlarmSteps \cup {"FindNextAtTimerItem", "HandleSystemTimeChanged"}
  <1>1. ~Overlap(t)
    BY DEF FindNextAtTimerItem, CompareWakeUpTime, StartUpdateAtTimer, RecheckEmpty,
       ClearUpdateAtTimerResource, ForgetWakeUpTime, HandleSystemTimeChanged, AlarmStep
  <1>2. UNCHANGED <<atItems, now, shift>> /\ events' = events
    BY DEF FindNextAtTimerItem, CompareWakeUpTime, StartUpdateAtTimer, RecheckEmpty,
       ClearUpdateAtTimerResource, ForgetWakeUpTime, HandleSystemTimeChanged, AlarmStep, clock
  <1>3. calls[t].todo # <<>>
        /\ Head(calls[t].todo) \in AlarmSteps \cup {"FindNextAtTimerItem", "HandleSystemTimeChanged"}
    BY DEF FindNextAtTimerItem, CompareWakeUpTime, StartUpdateAtTimer, RecheckEmpty,
       ClearUpdateAtTimerResource, ForgetWakeUpTime, HandleSystemTimeChanged, At, AlarmSteps
  <1> QED BY <1>1, <1>2, <1>3 DEF Overlap

\* The state after such a step, by where it has got to.
LEMMA AloneAfter ==
    ASSUME Typed, ~overlapped', NEW t \in Threads, NEW c \in Calls, Update(t, c),
           \/ FindNextAtTimerItem(t) \/ CompareWakeUpTime(t) \/ StartUpdateAtTimer(t)
           \/ RecheckEmpty(t) \/ ClearUpdateAtTimerResource(t) \/ ForgetWakeUpTime(t)
           \/ HandleSystemTimeChanged(t)
    PROVE  /\ calls'[t].todo = c.todo /\ (c.todo # <<>> => calls'[t] = c)
           /\ \A x : At(t, x)' <=> Opens(c, x)
           /\ \A u \in Threads \ {t}, x \in AlarmSteps : ~At(u, x) /\ ~At(u, x)'
           /\ \A u \in Threads \ {t} : ~InAlarmUpdate(u) /\ ~InAlarmUpdate(u)'
           /\ OneUpdate'
           /\ \A x \in AlarmSteps : AnyAt(x) <=> At(t, x)
           /\ \A x \in AlarmSteps : AnyAt(x)' <=> Opens(c, x)
           /\ InAlarmUpdate(t)' <=> \E x \in AlarmSteps : Opens(c, x)
  <1>1. calls'[t].todo = c.todo /\ (c.todo # <<>> => calls'[t] = c)
        /\ \A u \in Threads : u # t => calls'[u] = calls[u]
    BY UpdateFacts DEF Typed, CallsOK
  <1>2. \A x : At(t, x)' <=> Opens(c, x)
    BY <1>1 DEF At, Opens
  <1>3. \A u \in Threads \ {t}, x \in AlarmSteps : ~At(u, x)
    BY AloneFacts DEF InAlarmUpdate
  <1>4. \A u \in Threads \ {t}, x \in AlarmSteps : ~At(u, x)'
    BY <1>1, <1>3 DEF At
  <1>5. \A u \in Threads \ {t} : ~InAlarmUpdate(u) /\ ~InAlarmUpdate(u)'
    BY <1>3, <1>4 DEF InAlarmUpdate
  <1>6. OneUpdate'
    BY <1>5 DEF OneUpdate
  <1>7. /\ \A x \in AlarmSteps : AnyAt(x) <=> At(t, x)
        /\ \A x \in AlarmSteps : AnyAt(x)' <=> Opens(c, x)
    BY <1>2, <1>3, <1>4 DEF AnyAt
  <1>8. InAlarmUpdate(t)' <=> \E x \in AlarmSteps : Opens(c, x)
    BY <1>2 DEF InAlarmUpdate
  <1> QED BY <1>1, <1>2, <1>3, <1>4, <1>5, <1>6, <1>7, <1>8

\* The update has ended.
LEMMA UpdateEnds ==
    ASSUME Typed, ~overlapped', NEW t \in Threads, NEW c \in Calls, Update(t, c),
           \/ FindNextAtTimerItem(t) \/ CompareWakeUpTime(t) \/ StartUpdateAtTimer(t)
           \/ RecheckEmpty(t) \/ ClearUpdateAtTimerResource(t) \/ ForgetWakeUpTime(t)
           \/ HandleSystemTimeChanged(t),
           \A x \in AlarmSteps : ~Opens(c, x),
           AlarmOfWakeUp', AlarmFits', NextIsAlarmed'
    PROVE  FixedAlarmed'
  <1>1. \A u \in Threads, x \in AlarmSteps : ~At(u, x)'
    BY AloneAfter
  <1>2. {"StartUpdateAtTimer", "CompareWakeUpTime", "RecheckEmpty", "ClearUpdateAtTimerResource",
         "ForgetWakeUpTime"} \subseteq AlarmSteps
    BY DEF AlarmSteps
  <1>3. FoundIsNext'
    BY <1>1, <1>2 DEF FoundIsNext, FoundOK, Starting
  <1>4. NothingFound'
    BY <1>1, <1>2 DEF NothingFound
  <1>5. OneUpdate'
    BY AloneAfter
  <1> QED BY <1>3, <1>4, <1>5 DEF FixedAlarmed

\* The update has another step ahead.
LEMMA UpdateContinues ==
    ASSUME Typed, ~overlapped', NEW t \in Threads, NEW c \in Calls, Update(t, c),
           \/ FindNextAtTimerItem(t) \/ CompareWakeUpTime(t) \/ StartUpdateAtTimer(t)
           \/ RecheckEmpty(t) \/ ClearUpdateAtTimerResource(t) \/ ForgetWakeUpTime(t)
           \/ HandleSystemTimeChanged(t),
           NEW y \in AlarmSteps, Opens(c, y),
           AlarmOfWakeUp', AlarmFits',
           y \in {"CompareWakeUpTime", "StartUpdateAtTimer"} =>
               /\ UpdateDue' \/ IsNext(c.found)'
               /\ ClockChanged' \/ Fits(c.found)',
           y = "StartUpdateAtTimer" => c.found.wake = WakeUp',
           y = "CompareWakeUpTime" /\ c.found.wake = WakeUp' => atAlarm'.wake = WakeUp' \/ UpdateDue',
           y \in {"RecheckEmpty", "ClearUpdateAtTimerResource", "ForgetWakeUpTime"} =>
               UpdateDue' \/ Attended' = {},
           y = "ForgetWakeUpTime" => FindAhead' \/ atAlarm' = None
    PROVE  FixedAlarmed'
  <1>1. /\ \A u \in Threads \ {t}, x \in AlarmSteps : ~At(u, x)'
        /\ \A x : At(t, x)' <=> x = y
        /\ calls'[t] = c /\ OneUpdate' /\ InAlarmUpdate(t)'
    BY AloneAfter DEF Opens
  <1>2. {"StartUpdateAtTimer", "CompareWakeUpTime", "RecheckEmpty", "ClearUpdateAtTimerResource",
         "ForgetWakeUpTime"} \subseteq AlarmSteps
    BY DEF AlarmSteps
  <1>3. ASSUME NEW u \in Threads PROVE FoundOK(u)'
    <2>1. CASE u = t
      <3>1. (IsNext(calls[t].found)' <=> IsNext(c.found)') /\ (Fits(calls[t].found)' <=> Fits(c.found)')
        BY <1>1 DEF IsNext, Fits
      <3> QED BY <1>1, <2>1, <3>1 DEF FoundOK, Starting
    <2>2. CASE u # t
      BY <1>1, <1>2, <2>2 DEF FoundOK, Starting
    <2> QED BY <2>1, <2>2
  <1>4. NothingFound'
    BY <1>1, <1>2 DEF NothingFound
  <1>5. NextIsAlarmed'
    BY <1>1 DEF NextIsAlarmed
  <1> QED BY <1>1, <1>3, <1>4, <1>5 DEF FixedAlarmed, FoundIsNext

\* What an AlarmStep leaves ahead.
LEMMA AlarmTodo ==
    ASSUME Typed, NEW t \in Threads, NEW w, NEW a, NEW rest \in Seq(Steps), AlarmStep(t, w, a, rest)
    PROVE  \E c \in Calls : /\ Update(t, c) /\ c.todo = rest
                            /\ Opens(c, "StartUpdateAtTimer") => c.found = calls[t].found
  <1> DEFINE n == IF rest # <<>> /\ Head(rest) = "StartUpdateAtTimer" THEN calls[t].found ELSE None
             c == [calls[t] EXCEPT !.todo = rest, !.found = n]
  <1>1. calls[t] \in Calls /\ calls[t].found \in Items \cup {None}
    BY CallFacts
  <1>2. n \in Items \cup {None}
    BY <1>1
  <1>3. Update(t, c)
    BY <1>1 DEF AlarmStep, Calls
  <1>4. rest # <<>> /\ Head(rest) = "StartUpdateAtTimer" => n = calls[t].found
    OBVIOUS
  <1> HIDE DEF n
  <1>5. c \in Calls /\ c.todo = rest /\ c.found = n
    BY <1>1, <1>2 DEF Calls
  <1> HIDE DEF c
  <1> QED BY <1>3, <1>4, <1>5 DEF Opens

\* The item found is the next, and goes off at its time of the day.
LEMMA FindStep ==
    ASSUME Typed, FixedAlarmed, ~overlapped', NEW t \in Threads, FindNextAtTimerItem(t)
    PROVE  FixedAlarmed'
  <1>1. PICK c \in Calls :
          /\ Update(t, c) /\ c.todo # <<>>
          /\ \/ atItems = {} /\ Head(c.todo) = "RecheckEmpty"
             \/ /\ atItems # {} /\ Head(c.todo) = "CompareWakeUpTime" /\ c.found \in Items
                /\ c.found.at \in {item[2] : item \in atItems}
                /\ c.found.wake = NextTime(c.found.at)
                /\ \A item \in atItems : c.found.wake <= NextTime(item[2])
    BY FindFacts
  <1>2. UNCHANGED <<atItems, atTimerWakeUpTime, atAlarm, now, shift>> /\ events' = events
        /\ WakeUp' = WakeUp /\ Attended' = atItems
    BY DEF FindNextAtTimerItem, clock, WakeUp, Attended
  <1>3. ~At(t, "HandleSystemTimeChanged") /\ \A x \in AlarmSteps : ~At(t, x)
    BY DEF FindNextAtTimerItem, At, AlarmSteps
  <1>4. {"StartUpdateAtTimer", "CompareWakeUpTime", "RecheckEmpty", "ForgetWakeUpTime"}
           \subseteq AlarmSteps
    BY DEF AlarmSteps
  <1>5. ~AnyAt("StartUpdateAtTimer") /\ ~AnyAt("ForgetWakeUpTime")
    BY <1>1, <1>3, <1>4, AloneAfter
  <1>6. ClockChanged => ClockChanged'
    BY <1>1, <1>2, <1>3, ClockStays
  <1>7. AlarmOfWakeUp'
    BY <1>2, <1>5 DEF FixedAlarmed, AlarmOfWakeUp
  <1>8. AlarmFits'
    BY <1>2, <1>5, <1>6 DEF FixedAlarmed, AlarmFits, Fits
  <1>9. CASE atItems = {}
    <2>1. Opens(c, "RecheckEmpty")
      BY <1>1, <1>9 DEF Opens
    <2> QED BY <1>1, <1>2, <1>4, <1>7, <1>8, <1>9, <2>1, UpdateContinues
  <1>10. CASE atItems # {}
    <2>1. Opens(c, "CompareWakeUpTime")
      BY <1>1, <1>10 DEF Opens
    <2>2. c.found.at \in Times /\ c.found.wake > now /\ c.found.wake \in Moments
          /\ (c.found.wake + shift) % Day = c.found.at
      <3>1. c.found.at \in Times
        BY <1>1, <1>10 DEF Items
      <3> QED BY <1>1, <1>10, <3>1, NextTimeFacts DEF Typed, Listed
    <2>3. Fits(c.found)'
      BY <1>2, <2>2 DEF Fits
    <2>4. IsNext(c.found)'
      BY <1>1, <1>2, <1>10 DEF IsNext, AtTimes, NextTime, TimeOfDay
    <2>5. c.found.wake = WakeUp' => atAlarm'.wake = WakeUp'
      <3>1. c.found.wake # Never /\ ~(c.found.wake <= now)
        BY <2>2, TimersAssumption DEF Moments, Never, Typed, Listed
      <3> QED BY <1>2, <1>5, <3>1 DEF FixedAlarmed, AlarmOfWakeUp
    <2> QED BY <1>1, <1>4, <1>7, <1>8, <2>1, <2>3, <2>4, <2>5, UpdateContinues
  <1> QED BY <1>9, <1>10

\* A step of an update, and the rest of its request.
LEMMA InUpdate ==
    ASSUME Typed, NEW t \in Threads, calls[t].todo # <<>>,
           Head(calls[t].todo) \in {"CompareWakeUpTime", "StartUpdateAtTimer", "RecheckEmpty",
                                    "ForgetWakeUpTime"}
    PROVE  /\ Rest(t) = Tail(calls[t].todo) /\ Rest(t) \in Seq(Steps)
           /\ \A x : Has(calls[t].todo, x) <=> x = Head(calls[t].todo) \/ Has(Rest(t), x)
           /\ Rest(t) \in Tails \/ (Rest(t) = FindLast /\ At(t, "ForgetWakeUpTime"))
           /\ Rest(t) # <<>> => Head(Rest(t)) \notin AlarmSteps \cup FirstSteps
  <1> DEFINE s == calls[t].todo
  <1>1. s \in Seq(Steps) /\ Legal(s) /\ Rest(t) = Tail(s) /\ Rest(t) \in Seq(Steps)
    BY CallFacts DEF Rest
  <1>2. \A x : Has(s, x) <=> x = Head(s) \/ Has(Rest(t), x)
    BY <1>1, HasCons
  <1>3. Rest(t) \in Tails \/ (Rest(t) = FindLast /\ At(t, "ForgetWakeUpTime"))
    <2>1. Tail(s) \in Tails \/ s = ForgetFind
      BY <1>1, ScriptsByHead
    <2>2. s = ForgetFind => Rest(t) = FindLast /\ At(t, "ForgetWakeUpTime")
      BY <1>1, RestOf, FirstOf DEF At
    <2> QED BY <1>1, <2>1, <2>2
  <1>4. Rest(t) # <<>> => Head(Rest(t)) \notin AlarmSteps \cup FirstSteps
    BY <1>1, RestHeads
  <1> QED BY <1>1, <1>2, <1>3, <1>4

\* Nothing is to be started if the moment is the one the alarm was started for.
LEMMA CompareStep ==
    ASSUME Typed, FixedAlarmed, ~overlapped', NEW t \in Threads, CompareWakeUpTime(t)
    PROVE  FixedAlarmed'
  <1> DEFINE s == calls[t].todo
             f == calls[t].found
             same == f.wake = atTimerWakeUpTime
             rest == IF same THEN Rest(t) ELSE <<"StartUpdateAtTimer">> \o Rest(t)
  <1>1. AlarmStep(t, f.wake, atAlarm, rest) /\ At(t, "CompareWakeUpTime")
        /\ s # <<>> /\ Head(s) = "CompareWakeUpTime" /\ Starting(t)
    BY DEF CompareWakeUpTime, At, Starting
  <1>2. /\ Rest(t) = Tail(s) /\ Rest(t) \in Seq(Steps)
        /\ \A x : Has(s, x) <=> x = Head(s) \/ Has(Rest(t), x)
        /\ Rest(t) # <<>> => Head(Rest(t)) \notin AlarmSteps \cup FirstSteps
    BY <1>1, InUpdate
  <1>3. /\ rest \in Seq(Steps) /\ \A x : Has(s, x) => x = Head(s) \/ Has(rest, x)
        /\ same => rest = Rest(t)
        /\ ~same => rest # <<>> /\ Head(rest) = "StartUpdateAtTimer"
    <2>1. "StartUpdateAtTimer" \in Steps
      BY StepNames DEF AlarmHeads
    <2> DEFINE r == <<"StartUpdateAtTimer">> \o Rest(t)
    <2>2. r \in Seq(Steps) /\ r # <<>> /\ Head(r) = "StartUpdateAtTimer" /\ Tail(r) = Rest(t)
      BY <1>2, <2>1, ConsFacts
    <2> HIDE DEF r
    <2>3. \A x : Has(Rest(t), x) => Has(r, x)
      BY <2>2, HasCons
    <2> QED BY <1>2, <2>2, <2>3 DEF r
  <1> HIDE DEF rest
  <1>4. WakeUp' = f.wake /\ atAlarm' = atAlarm
    BY <1>1 DEF AlarmStep, WakeUp
  <1>5. PICK c \in Calls : /\ Update(t, c) /\ c.todo = rest
                           /\ Opens(c, "StartUpdateAtTimer") => c.found = f
    <2>1. PICK w, a, r : r = rest /\ AlarmStep(t, w, a, r)
      BY <1>1 DEF AlarmStep
    <2> QED BY <1>3, <2>1, AlarmTodo
  <1>6. UNCHANGED <<Attended, now, shift>> /\ events' = events
    BY <1>1, AloneFacts DEF AlarmStep, Attended
  <1>7. {"StartUpdateAtTimer", "CompareWakeUpTime", "ForgetWakeUpTime"} \subseteq AlarmSteps
        /\ "DeleteIntervalTimer" \in FirstSteps
    BY DEF AlarmSteps, FirstSteps
  <1>8. ~AnyAt("StartUpdateAtTimer") /\ ~AnyAt("ForgetWakeUpTime")
        /\ ~At(t, "HandleSystemTimeChanged")
    BY <1>1, <1>5, <1>7, AloneAfter DEF At
  <1>9. Has(s, "FindNextAtTimerItem") /\ ~At(t, "DeleteIntervalTimer") =>
              Has(c.todo, "FindNextAtTimerItem") /\ ~Opens(c, "DeleteIntervalTimer")
    BY <1>1, <1>2, <1>3, <1>5, <1>7 DEF Opens
  <1>10. /\ Pending("static") => UpdateDue'
         /\ ClockChanged => ClockChanged'
         /\ FindAhead => FindAhead'
    BY <1>5, <1>6, <1>8, <1>9, SearchStays
  <1>11. UpdateDue => UpdateDue'
    BY <1>10 DEF UpdateDue
  <1>12. PICK n : n = f
    OBVIOUS
  <1>13. /\ UpdateDue \/ IsNext(n)
         /\ ClockChanged \/ Fits(n)
         /\ n.wake = WakeUp => atAlarm.wake = WakeUp \/ UpdateDue
    BY <1>1, <1>12 DEF FixedAlarmed, FoundIsNext, FoundOK
  <1>14. (IsNext(n)' <=> IsNext(n)) /\ (Fits(n)' <=> Fits(n))
    BY <1>6 DEF IsNext, Fits, AtTimes, NextTime, TimeOfDay
  <1>15. CASE same
    <2>1. \A x \in AlarmSteps : ~Opens(c, x)
      BY <1>2, <1>3, <1>5, <1>15 DEF Opens
    <2>2. WakeUp' = WakeUp /\ n.wake = WakeUp
      BY <1>4, <1>12, <1>15 DEF WakeUp
    <2>3. AlarmOfWakeUp'
      BY <1>4, <1>6, <1>8, <2>2 DEF FixedAlarmed, AlarmOfWakeUp
    <2>4. AlarmFits'
      BY <1>4, <1>6, <1>8, <1>10, <2>2 DEF FixedAlarmed, AlarmFits, Fits
    <2>5. NextIsAlarmed'
      <3>1. CASE UpdateDue
        BY <1>11, <3>1 DEF NextIsAlarmed
      <3>2. CASE ~UpdateDue
        <4>1. atAlarm.wake = WakeUp /\ IsNext(n) /\ Fits(n) /\ Fits(atAlarm)
          BY <1>8, <1>13, <2>2, <3>2 DEF UpdateDue, FixedAlarmed, AlarmFits
        <4>2. atAlarm.at = n.at /\ atAlarm.wake = n.wake
          BY <2>2, <4>1 DEF Fits
        <4>3. IsNext(atAlarm) /\ Attended # {}
          BY <4>1, <4>2 DEF IsNext, AtTimes
        <4>4. IsNext(atAlarm)' /\ atItems' # {}
          BY <1>4, <1>6, <4>3 DEF IsNext, AtTimes, Attended, NextTime, TimeOfDay
        <4> QED BY <4>4 DEF NextIsAlarmed
      <3> QED BY <3>1, <3>2
    <2> QED BY <1>5, <2>1, <2>3, <2>4, <2>5, UpdateEnds
  <1>16. CASE ~same
    <2>1. Opens(c, "StartUpdateAtTimer") /\ c.found = n
      BY <1>3, <1>5, <1>12, <1>16 DEF Opens
    <2>2. AlarmOfWakeUp' /\ AlarmFits'
      <3>1. AnyAt("StartUpdateAtTimer")'
        BY <1>5, <1>7, <2>1, AloneAfter
      <3> QED BY <3>1 DEF AlarmOfWakeUp, AlarmFits
    <2>3. /\ UpdateDue' \/ IsNext(c.found)'
          /\ ClockChanged' \/ Fits(c.found)'
          /\ c.found.wake = WakeUp'
      BY <1>4, <1>10, <1>11, <1>12, <1>13, <1>14, <2>1
    <2> QED BY <1>5, <1>7, <2>1, <2>2, <2>3, UpdateContinues
  <1> QED BY <1>15, <1>16

\* The steps after the item has been found: what is under way stays so.
LEMMA AlarmGoesOn ==
    ASSUME Typed, ~overlapped', NEW t \in Threads, NEW w, NEW a, NEW rest \in Seq(Steps),
           AlarmStep(t, w, a, rest),
           \/ StartUpdateAtTimer(t) \/ RecheckEmpty(t) \/ ClearUpdateAtTimerResource(t)
           \/ ForgetWakeUpTime(t),
           Has(calls[t].todo, "FindNextAtTimerItem") => Has(rest, "FindNextAtTimerItem"),
           rest # <<>> => Head(rest) # "DeleteIntervalTimer"
    PROVE  /\ \E c \in Calls : Update(t, c) /\ c.todo = rest
           /\ UNCHANGED <<atItems, Attended, now, shift>> /\ WakeUp' = w /\ atAlarm' = a
           /\ UpdateDue => UpdateDue'
           /\ ClockChanged => ClockChanged'
           /\ FindAhead => FindAhead'
           /\ \A n : (IsNext(n)' <=> IsNext(n)) /\ (Fits(n)' <=> Fits(n))
  <1>1. PICK c \in Calls : /\ Update(t, c) /\ c.todo = rest
                           /\ Opens(c, "StartUpdateAtTimer") => c.found = calls[t].found
    BY AlarmTodo
  <1>2. UNCHANGED <<atItems, Attended, now, shift>> /\ events' = events
    BY AloneFacts DEF AlarmStep, Attended
  <1>3. WakeUp' = w /\ atAlarm' = a
    BY DEF AlarmStep, WakeUp
  <1>4. ~At(t, "HandleSystemTimeChanged")
    BY DEF StartUpdateAtTimer, RecheckEmpty, ClearUpdateAtTimerResource, ForgetWakeUpTime, At
  <1>5. Has(calls[t].todo, "FindNextAtTimerItem") /\ ~At(t, "DeleteIntervalTimer") =>
              Has(c.todo, "FindNextAtTimerItem") /\ ~Opens(c, "DeleteIntervalTimer")
    BY <1>1 DEF Opens
  <1>6. /\ Pending("static") => UpdateDue'
        /\ ClockChanged => ClockChanged'
        /\ FindAhead => FindAhead'
    BY <1>1, <1>2, <1>4, <1>5, SearchStays
  <1>7. UpdateDue => UpdateDue'
    BY <1>6 DEF UpdateDue
  <1>8. \A n : (IsNext(n)' <=> IsNext(n)) /\ (Fits(n)' <=> Fits(n))
    BY <1>2 DEF IsNext, Fits, AtTimes, NextTime, TimeOfDay
  <1> QED BY <1>1, <1>2, <1>3, <1>6, <1>7, <1>8

\* The alarm of what was found, which is the next unless another update is due.
LEMMA StartStep ==
    ASSUME Typed, FixedAlarmed, ~overlapped', NEW t \in Threads, StartUpdateAtTimer(t)
    PROVE  FixedAlarmed'
  <1>1. PICK w, a, rest : /\ w = WakeUp /\ a = calls[t].found /\ rest = Rest(t)
                          /\ AlarmStep(t, w, a, rest)
    BY DEF StartUpdateAtTimer, WakeUp
  <1>2. /\ calls[t].todo # <<>> /\ Head(calls[t].todo) = "StartUpdateAtTimer"
        /\ At(t, "StartUpdateAtTimer") /\ Starting(t)
    BY DEF StartUpdateAtTimer, At, Starting
  <1>3. /\ rest \in Seq(Steps)
        /\ \A x : Has(calls[t].todo, x) <=> x = Head(calls[t].todo) \/ Has(rest, x)
        /\ rest # <<>> => Head(rest) \notin AlarmSteps \cup FirstSteps
    BY <1>1, <1>2, InUpdate
  <1>4. Has(calls[t].todo, "FindNextAtTimerItem") => Has(rest, "FindNextAtTimerItem")
    BY <1>2, <1>3
  <1>5. rest # <<>> => Head(rest) # "DeleteIntervalTimer"
    BY <1>3 DEF FirstSteps
  <1>6. PICK c \in Calls : Update(t, c) /\ c.todo = rest
    BY <1>1, <1>3, <1>4, <1>5, AlarmGoesOn
  <1>7. /\ UNCHANGED <<atItems, Attended, now, shift>> /\ WakeUp' = w /\ atAlarm' = a
        /\ UpdateDue => UpdateDue'
        /\ ClockChanged => ClockChanged'
        /\ \A n : (IsNext(n)' <=> IsNext(n)) /\ (Fits(n)' <=> Fits(n))
    BY <1>1, <1>3, <1>4, <1>5, AlarmGoesOn
  <1>8. \A x \in AlarmSteps : ~Opens(c, x)
    BY <1>3, <1>6 DEF Opens
  <1>9. /\ UpdateDue \/ IsNext(a)
        /\ ClockChanged \/ Fits(a)
        /\ a.wake = w
    BY <1>1, <1>2 DEF FixedAlarmed, FoundIsNext, FoundOK
  <1>10. AlarmOfWakeUp'
    BY <1>7, <1>9 DEF AlarmOfWakeUp
  <1>11. AlarmFits'
    <2>1. Fits(atAlarm)' <=> Fits(a)'
      BY <1>7 DEF Fits
    <2> QED BY <1>7, <1>9, <2>1 DEF AlarmFits
  <1>12. NextIsAlarmed'
    <2>1. CASE UpdateDue
      BY <1>7, <2>1 DEF NextIsAlarmed
    <2>2. CASE IsNext(a)
      <3>1. IsNext(a)' /\ atItems' # {}
        BY <1>7, <2>2 DEF IsNext, AtTimes, Attended
      <3>2. IsNext(atAlarm)'
        BY <1>7, <3>1 DEF IsNext
      <3> QED BY <3>1, <3>2 DEF NextIsAlarmed
    <2> QED BY <1>9, <2>1, <2>2
  <1> QED BY <1>6, <1>8, <1>10, <1>11, <1>12, UpdateEnds

\* Items added since the list was found empty have an update of their own, or are for
\* the next one.
LEMMA RecheckStep ==
    ASSUME Typed, FixedAlarmed, ~overlapped', NEW t \in Threads, RecheckEmpty(t)
    PROVE  FixedAlarmed'
  <1> DEFINE clear == <<"ClearUpdateAtTimerResource", "ForgetWakeUpTime">> \o Rest(t)
  <1>1. /\ calls[t].todo # <<>> /\ Head(calls[t].todo) = "RecheckEmpty" /\ At(t, "RecheckEmpty")
        /\ ~At(t, "StartUpdateAtTimer") /\ ~At(t, "ForgetWakeUpTime")
    BY DEF RecheckEmpty, At
  <1>2. /\ Rest(t) = Tail(calls[t].todo) /\ Rest(t) \in Seq(Steps)
        /\ \A x : Has(calls[t].todo, x) <=> x = Head(calls[t].todo) \/ Has(Rest(t), x)
        /\ Rest(t) # <<>> => Head(Rest(t)) \notin AlarmSteps \cup FirstSteps
    BY <1>1, InUpdate
  <1>3. /\ clear \in Seq(Steps) /\ clear # <<>> /\ Head(clear) = "ClearUpdateAtTimerResource"
        /\ \A x : Has(Rest(t), x) => Has(clear, x)
    <2>1. calls[t].todo \in Seq(Steps) /\ Legal(calls[t].todo)
      BY <1>1, CallFacts
    <2> QED BY <1>1, <1>2, <2>1, ClearGoesOn
  <1>4. PICK w, a, rest : /\ w = WakeUp /\ a = atAlarm /\ AlarmStep(t, w, a, rest)
                          /\ rest = IF atItems # {} THEN Rest(t) ELSE clear
    BY DEF RecheckEmpty, WakeUp
  <1> HIDE DEF clear
  <1>5. rest \in Seq(Steps)
        /\ (Has(calls[t].todo, "FindNextAtTimerItem") => Has(rest, "FindNextAtTimerItem"))
    BY <1>1, <1>2, <1>3, <1>4
  <1>6. rest # <<>> => Head(rest) # "DeleteIntervalTimer"
    BY <1>2, <1>3, <1>4 DEF FirstSteps
  <1>7. PICK c \in Calls : Update(t, c) /\ c.todo = rest
    BY <1>4, <1>5, <1>6, AlarmGoesOn
  <1>8. /\ UNCHANGED <<atItems, Attended, now, shift>> /\ WakeUp' = w /\ atAlarm' = a
        /\ UpdateDue => UpdateDue'
        /\ ClockChanged => ClockChanged'
        /\ \A n : (IsNext(n)' <=> IsNext(n)) /\ (Fits(n)' <=> Fits(n))
    BY <1>4, <1>5, <1>6, AlarmGoesOn
  <1>9. {"StartUpdateAtTimer", "ForgetWakeUpTime", "ClearUpdateAtTimerResource"} \subseteq AlarmSteps
    BY DEF AlarmSteps
  <1>10. ~AnyAt("StartUpdateAtTimer") /\ ~AnyAt("ForgetWakeUpTime")
    BY <1>1, <1>7, <1>9, AloneAfter
  <1>11. UpdateDue \/ Attended = {}
    BY <1>1 DEF FixedAlarmed, NothingFound
  <1>12. AlarmOfWakeUp'
    BY <1>4, <1>8, <1>10 DEF FixedAlarmed, AlarmOfWakeUp
  <1>13. AlarmFits'
    <2>1. Fits(atAlarm)' <=> Fits(atAlarm)
      BY <1>4, <1>8 DEF Fits
    <2> QED BY <1>4, <1>8, <1>10, <2>1 DEF FixedAlarmed, AlarmFits
  <1>14. CASE atItems # {}
    <2>1. \A x \in AlarmSteps : ~Opens(c, x)
      BY <1>2, <1>4, <1>7, <1>14 DEF Opens
    <2>2. NextIsAlarmed'
      BY <1>8, <1>11, <1>14 DEF NextIsAlarmed
    <2> QED BY <1>7, <1>12, <1>13, <2>1, <2>2, UpdateEnds
  <1>15. CASE atItems = {}
    <2>1. Opens(c, "ClearUpdateAtTimerResource")
      BY <1>3, <1>4, <1>7, <1>15 DEF Opens
    <2>2. Attended' = {}
      BY <1>8, <1>15 DEF Attended
    <2> QED BY <1>7, <1>9, <1>12, <1>13, <2>1, <2>2, UpdateContinues
  <1> QED BY <1>14, <1>15

\* The alarm is gone, its moment is still remembered.
LEMMA ClearStep ==
    ASSUME Typed, FixedAlarmed, ~overlapped', NEW t \in Threads, ClearUpdateAtTimerResource(t)
    PROVE  FixedAlarmed'
  <1>1. /\ calls[t].todo # <<>> /\ Head(calls[t].todo) = "ClearUpdateAtTimerResource"
        /\ At(t, "ClearUpdateAtTimerResource")
    BY DEF ClearUpdateAtTimerResource, At
  <1>2. PICK w, a, rest : /\ w = WakeUp /\ a = None /\ rest = Rest(t) /\ AlarmStep(t, w, a, rest)
    BY DEF ClearUpdateAtTimerResource, WakeUp
  <1>3. calls[t].todo \in Seq(Steps) /\ Legal(calls[t].todo) /\ rest = Tail(calls[t].todo)
    BY <1>1, <1>2, CallFacts DEF Rest
  <1>4. rest \in Seq(Steps) /\ rest # <<>> /\ Head(rest) = "ForgetWakeUpTime"
    BY <1>1, <1>3, ScriptsByHead DEF Clearing
  <1>5. (Has(calls[t].todo, "FindNextAtTimerItem") => Has(rest, "FindNextAtTimerItem"))
        /\ (rest # <<>> => Head(rest) # "DeleteIntervalTimer")
    BY <1>1, <1>3, <1>4, HasCons
  <1>6. PICK c \in Calls : Update(t, c) /\ c.todo = rest
    BY <1>2, <1>4, <1>5, AlarmGoesOn
  <1>7. /\ UNCHANGED <<atItems, Attended, now, shift>> /\ WakeUp' = w /\ atAlarm' = None
        /\ UpdateDue => UpdateDue'
    BY <1>2, <1>4, <1>5, AlarmGoesOn
  <1>8. Opens(c, "ForgetWakeUpTime") /\ "ForgetWakeUpTime" \in AlarmSteps
    BY <1>4, <1>6 DEF Opens, AlarmSteps
  <1>9. AnyAt("ForgetWakeUpTime")'
    BY <1>6, <1>8, AloneAfter
  <1>10. AlarmOfWakeUp' /\ AlarmFits'
    BY <1>9 DEF AlarmOfWakeUp, AlarmFits
  <1>11. UpdateDue' \/ Attended' = {}
    BY <1>1, <1>7 DEF FixedAlarmed, NothingFound
  <1> QED BY <1>6, <1>7, <1>8, <1>10, <1>11, UpdateContinues

\* The moment is forgotten with the alarm, or for a search that follows.
LEMMA ForgetStep ==
    ASSUME Typed, FixedAlarmed, ~overlapped', NEW t \in Threads, ForgetWakeUpTime(t)
    PROVE  FixedAlarmed'
  <1>1. /\ calls[t].todo # <<>> /\ Head(calls[t].todo) = "ForgetWakeUpTime"
        /\ At(t, "ForgetWakeUpTime")
    BY DEF ForgetWakeUpTime, At
  <1>2. PICK w, a, rest : /\ w = Never /\ a = atAlarm /\ rest = Rest(t) /\ AlarmStep(t, w, a, rest)
    BY DEF ForgetWakeUpTime
  <1>3. /\ rest \in Seq(Steps)
        /\ \A x : Has(calls[t].todo, x) <=> x = Head(calls[t].todo) \/ Has(rest, x)
        /\ rest # <<>> => Head(rest) \notin AlarmSteps \cup FirstSteps
    BY <1>1, <1>2, InUpdate
  <1>4. (Has(calls[t].todo, "FindNextAtTimerItem") => Has(rest, "FindNextAtTimerItem"))
        /\ (rest # <<>> => Head(rest) # "DeleteIntervalTimer")
    BY <1>1, <1>3 DEF FirstSteps
  <1>5. PICK c \in Calls : Update(t, c) /\ c.todo = rest
    BY <1>2, <1>3, <1>4, AlarmGoesOn
  <1>6. /\ UNCHANGED <<atItems, Attended, now, shift>> /\ WakeUp' = Never /\ atAlarm' = atAlarm
        /\ UpdateDue => UpdateDue'
        /\ FindAhead => FindAhead'
    BY <1>2, <1>3, <1>4, AlarmGoesOn
  <1>7. \A x \in AlarmSteps : ~Opens(c, x)
    BY <1>3, <1>5 DEF Opens
  <1>8. atAlarm'.wake # Never
    <2>1. \A i \in Items \cup {None} : i.wake # Never
      BY TimersAssumption DEF Items, None, Moments, Never
    <2> QED BY <1>6, <2>1 DEF Typed, Listed
  <1>9. AlarmOfWakeUp' /\ AlarmFits'
    <2>1. Never' = Never
      BY DEF Never
    <2> QED BY <1>6, <1>8, <2>1 DEF AlarmOfWakeUp, AlarmFits
  <1>10. NextIsAlarmed'
    <2>1. UpdateDue \/ Attended = {}
      BY <1>1 DEF FixedAlarmed, NothingFound
    <2>2. FindAhead \/ atAlarm = None
      BY <1>1 DEF FixedAlarmed, NothingFound
    <2>3. FindAhead => UpdateDue
      BY DEF UpdateDue
    <2> QED BY <1>6, <2>1, <2>2, <2>3 DEF NextIsAlarmed
  <1> QED BY <1>5, <1>7, <1>9, <1>10, UpdateEnds

\* The alarm is computed again, and there is none if there are no items.
LEMMA ChangedStep ==
    ASSUME Typed, FixedAlarmed, ~overlapped', NEW t \in Threads, HandleSystemTimeChanged(t)
    PROVE  FixedAlarmed'
  <1>1. At(t, "HandleSystemTimeChanged") /\ \A x \in AlarmSteps : ~At(t, x)
    BY DEF HandleSystemTimeChanged, At, AlarmSteps
  <1>2. PICK w, a, rest : /\ w = WakeUp /\ a = atAlarm /\ AlarmStep(t, w, a, rest)
                          /\ rest = IF atItems = {} THEN <<>> ELSE ForgetFind
    BY DEF HandleSystemTimeChanged, ForgetFind, WakeUp
  <1>3. ForgetFind \in Seq(Steps) /\ ForgetFind # <<>> /\ Head(ForgetFind) = "ForgetWakeUpTime"
        /\ Has(ForgetFind, "FindNextAtTimerItem")
    BY Scripts, HasOf DEF Is
  <1>4. rest \in Seq(Steps)
    BY <1>2, <1>3
  <1>5. PICK c \in Calls : /\ Update(t, c) /\ c.todo = rest
                           /\ Opens(c, "StartUpdateAtTimer") => c.found = calls[t].found
    <2>1. AlarmStep(t, w, a, rest)
      BY <1>2
    <2> QED BY <1>4, <2>1, AlarmTodo
  <1>6. /\ UNCHANGED <<atItems, now, shift>> /\ WakeUp' = WakeUp /\ atAlarm' = atAlarm
        /\ atItems = {} => atAlarm = None
    BY <1>1, <1>2, AloneFacts DEF AlarmStep, WakeUp
  <1>7. {"StartUpdateAtTimer", "ForgetWakeUpTime"} \subseteq AlarmSteps
    BY DEF AlarmSteps
  <1>8. ~AnyAt("StartUpdateAtTimer") /\ ~AnyAt("ForgetWakeUpTime")
    BY <1>1, <1>5, <1>7, AloneAfter
  <1>9. CASE atItems = {}
    <2>1. \A x \in AlarmSteps : ~Opens(c, x)
      BY <1>2, <1>5, <1>9 DEF Opens
    <2>2. AlarmOfWakeUp'
      BY <1>6, <1>8 DEF FixedAlarmed, AlarmOfWakeUp
    <2>3. AlarmFits'
      <3>1. WakeUp # -1 /\ None.wake = -1
        BY TimersAssumption DEF Typed, Listed, Moments, Never, WakeUp, None
      <3> QED BY <1>6, <1>9, <3>1 DEF AlarmFits
    <2>4. NextIsAlarmed'
      BY <1>6, <1>9 DEF NextIsAlarmed, None
    <2> QED BY <1>5, <2>1, <2>2, <2>3, <2>4, UpdateEnds
  <1>10. CASE atItems # {}
    <2>1. rest = ForgetFind /\ Opens(c, "ForgetWakeUpTime")
      BY <1>2, <1>3, <1>5, <1>10 DEF Opens
    <2>2. AlarmOfWakeUp' /\ AlarmFits'
      <3>1. AnyAt("ForgetWakeUpTime")'
        BY <1>5, <1>7, <2>1, AloneAfter
      <3> QED BY <3>1 DEF AlarmOfWakeUp, AlarmFits
    <2>3. FindAhead' /\ UpdateDue'
      <3>1. Has(calls'[t].todo, "FindNextAtTimerItem") /\ ~At(t, "DeleteIntervalTimer")'
        BY <1>3, <1>5, <2>1, AloneAfter DEF Opens
      <3> QED BY <3>1 DEF FindAhead, UpdateDue
    <2> QED BY <1>5, <1>7, <2>1, <2>2, <2>3, UpdateContinues
  <1> QED BY <1>9, <1>10

\* The updates of the alarm note whether they overlap; nothing forgets it.
LEMMA OverlappedStays == Typed /\ [Next]_vars /\ overlapped => overlapped'
  <1> SUFFICES ASSUME Typed, [Next]_vars, overlapped PROVE overlapped'
    OBVIOUS
  <1>1. overlapped \in BOOLEAN
    BY DEF Typed, Listed
  <1>2. CASE UNCHANGED vars
    BY <1>2 DEF vars, fixed
  <1>3. CASE \E t \in Threads, f \in Forms : Request(t, f)
    BY <1>3, RequestBegins DEF BeginTask, fixed
  <1>4. CASE \E t \in Threads : OnReceiveEvent(t)
    BY <1>4 DEF OnReceiveEvent, fixed
  <1>5. ASSUME NEW t \in Threads, Step(t) PROVE overlapped'
    <2>1. CASE \/ AddIntervalTimer(t) \/ DeleteIntervalTimer(t) \/ IntervalToAtTimer(t)
               \/ Unlock(t) \/ AddItem(t) \/ DeleteItem(t)
               \/ SetDynamicItem(t) \/ DeleteDynamicItem(t) \/ OnDynamicTimeTrigger(t)
               \/ UpdateDynamicAlarm(t)
      <3>1. UNCHANGED overlapped
        BY <2>1 DEF AddIntervalTimer, DeleteIntervalTimer, IntervalToAtTimer, Unlock, AddItem,
           DeleteItem, SetDynamicItem, DeleteDynamicItem, OnDynamicTimeTrigger, UpdateDynamicAlarm,
           DynamicChange, fixed
      <3> QED BY <3>1
    <2>2. CASE \/ AddUpdateAtTimer(t) \/ DeleteUpdateAtTimer(t) \/ UpdateTimerValue(t)
               \/ TakeUpdateAtItems(t)
      <3>1. UNCHANGED overlapped
        BY <2>2 DEF AddUpdateAtTimer, DeleteUpdateAtTimer, UpdateTimerValue,
           TakeUpdateAtItems, ItemsChange
      <3> QED BY <3>1
    <2>3. CASE \/ FindNextAtTimerItem(t) \/ CompareWakeUpTime(t) \/ StartUpdateAtTimer(t)
               \/ RecheckEmpty(t) \/ ClearUpdateAtTimerResource(t) \/ ForgetWakeUpTime(t)
               \/ HandleSystemTimeChanged(t)
      BY <2>3, AloneFacts
    <2> QED BY <1>5, <2>1, <2>2, <2>3 DEF Step
  <1>6. CASE UpdateAtAlarmFires \/ DynamicAlarmFires \/ Tick \/ TimeIsSet
    <2>1. UNCHANGED overlapped
      BY <1>6 DEF UpdateAtAlarmFires, DynamicAlarmFires, Tick, TimeIsSet, fixed
    <2> QED BY <2>1
  <1> QED BY <1>2, <1>3, <1>4, <1>5, <1>6 DEF Next

Alarmed == overlapped \/ FixedAlarmed

\* Every step keeps the alarm, or lets two updates overlap.
LEMMA NextFixed == Typed /\ Typed' /\ Alarmed /\ [Next]_vars => Alarmed'
  <1> SUFFICES ASSUME Typed, Typed', Alarmed, [Next]_vars, ~overlapped' PROVE FixedAlarmed'
    BY DEF Alarmed
  <1>1. FixedAlarmed
    BY OverlappedStays DEF Alarmed
  <1>2. CASE UNCHANGED vars
    <2>1. UNCHANGED <<atItems, Attended, atTimerWakeUpTime, atAlarm, now, shift, events, calls>>
      BY <1>2 DEF vars, fixed, clock, Attended
    <2>2. SameUpdates
      BY <2>1 DEF SameUpdates, At
    <2>3. /\ Pending("static") => UpdateDue'
          /\ ClockChanged => ClockChanged'
          /\ FindAhead => FindAhead'
      BY <2>1 DEF UpdateDue, ClockChanged, AnyAt, FindAhead, At, Pending
    <2> QED BY <1>1, <2>1, <2>2, <2>3, CalmStep
  <1>3. ASSUME NEW t \in Threads, NEW f \in Forms, Request(t, f) PROVE FixedAlarmed'
    BY <1>1, <1>3, RequestStep
  <1>4. ASSUME NEW t \in Threads, OnReceiveEvent(t) PROVE FixedAlarmed'
    BY <1>1, <1>4, EventStep
  <1>5. ASSUME NEW t \in Threads, Step(t) PROVE FixedAlarmed'
    BY <1>1, <1>5, OtherSteps, ItemSteps, FindStep, CompareStep, StartStep, RecheckStep, ClearStep,
       ForgetStep, ChangedStep DEF Step
  <1> QED BY <1>1, <1>2, <1>3, <1>4, <1>5, TimeStep, TickStep DEF Next

\* A search ahead is one that UpdateAtAlarmed sees.
LEMMA SearchIsAhead == Typed /\ FindAhead => Ahead("FindNextAtTimerItem")
  <1> SUFFICES ASSUME Typed, FindAhead PROVE Ahead("FindNextAtTimerItem")
    OBVIOUS
  <1>1. PICK t \in Threads : Has(calls[t].todo, "FindNextAtTimerItem")
    BY DEF FindAhead
  <1>2. calls[t].todo \in Seq(Steps)
    BY CallFacts
  <1>3. "FindNextAtTimerItem" \in Range(calls[t].todo)
    BY <1>1, <1>2 DEF Has, Range
  <1> QED BY <1>3 DEF Ahead

\* Once no alarm update is ahead and no event of it under way, an alarm is started for
\* the next of the fixed times whose addition, or an update since, has seen to the
\* alarm, and for none if there are no items: for any number of forms, requests and
\* times, through changes of the clock too, as long as no two updates of the alarm
\* have overlapped.
THEOREM FixedTimesAlarmed == Spec => []UpdateAtAlarmed
  <1>1. Init => Alarmed
    <2> SUFFICES ASSUME Init PROVE FixedAlarmed
      BY DEF Alarmed
    <2>1. \A t \in Threads : \A x : ~At(t, x)
      BY DEF Init, At, Idle
    <2>2. atItems = {} /\ atAlarm = None /\ WakeUp = Never
      BY DEF Init, WakeUp
    <2>3. None.wake # Never
      BY TimersAssumption DEF None, Never
    <2>4. {"StartUpdateAtTimer", "CompareWakeUpTime"} \subseteq AlarmSteps
      BY DEF AlarmSteps
    <2>5. OneUpdate
      BY <2>1 DEF OneUpdate, InAlarmUpdate
    <2>6. AlarmOfWakeUp /\ AlarmFits
      BY <2>2, <2>3 DEF AlarmOfWakeUp, AlarmFits
    <2>7. FoundIsNext /\ NothingFound
      BY <2>1 DEF FoundIsNext, FoundOK, Starting, NothingFound
    <2>8. NextIsAlarmed
      BY <2>2 DEF NextIsAlarmed
    <2> QED BY <2>5, <2>6, <2>7, <2>8 DEF FixedAlarmed
  <1>2. Typed /\ Alarmed => UpdateAtAlarmed
    <2> SUFFICES ASSUME Typed, FixedAlarmed,
                        ~Pending("static"), ~Pending("timeChanged"),
                        ~\E t \in Threads : InAlarmUpdate(t) \/ At(t, "HandleSystemTimeChanged"),
                        ~Ahead("FindNextAtTimerItem"), atItems # {}
                 PROVE  \/ AlarmDue \/ Attended = {}
                        \/ /\ atAlarm.at \in {item[2] : item \in Attended}
                           /\ \A item \in Attended : atAlarm.wake <= NextTime(item[2])
      <3>1. FixedAlarmed /\ atItems = {} => atAlarm = None \/ UpdateDue
                                            \/ \E t \in Threads : InAlarmUpdate(t)
        BY DEF FixedAlarmed, NextIsAlarmed
      <3> QED BY <3>1, SearchIsAhead DEF Alarmed, UpdateAtAlarmed, UpdateDue, ClockChanged, AnyAt
    <2>1. ~FindAhead
      BY SearchIsAhead
    <2>2. Attended = {} \/ IsNext(atAlarm)
      BY <2>1 DEF FixedAlarmed, NextIsAlarmed, UpdateDue, ClockChanged, AnyAt
    <2>3. IsNext(atAlarm) => atAlarm # None
      <3>1. AtTimes \subseteq Times /\ -1 \notin Times
        BY TimersAssumption DEF Typed, Listed, AtTimes, Attended
      <3> QED BY <3>1 DEF IsNext, None
    <2> QED BY <2>2, <2>3 DEF IsNext, AtTimes, AlarmDue
  <1> QED BY <1>1, <1>2, InitTyped, NextTyped, NextFixed, PTL DEF Spec
=============================================================================
