------------------------------ MODULE FormShareMgr ------------------------------
(***************************************************************************)
(* The receiving side of FormShareMgr: forms shared by other devices wait  *)
(* here, each under the key of its form, until a host adds the form        *)
(* (AddProviderData) or a timer ends the wait.  The bundle of the form may *)
(* have to be installed first (FormFreeInstallOperator).  Everything runs  *)
(* on the serial queue of the service, one task at a time, except the      *)
(* hosts' requests and the installer's callbacks on binder threads; each   *)
(* map has a mutex of its own, so a task is as many steps as it takes      *)
(* locks.                                                                  *)
(***************************************************************************)
EXTENDS Naturals, FiniteSets

CONSTANTS
    Keys,                       \* MakeFormShareInfoKey of the shared forms
    Hosts,                      \* binder threads of hosts that add a form
    Worker,                     \* the thread of the serial queue
    FORM_SHARE_INFO_MAX_SIZE,   \* limit of pending shares (32 in the code)
    MaxShares,                  \* bound: shares received
    MaxEventId                  \* bound: event ids issued

ASSUME FormShareMgrAssumption ==
    /\ Worker \notin Hosts
    /\ FORM_SHARE_INFO_MAX_SIZE \in Nat /\ MaxShares \in Nat /\ MaxEventId \in Nat

VARIABLES
    shareInfo,     \* shareInfo_: the share pending under each key, or NoShare
    received,      \* shares accepted so far; a share is its number
    eventMap,      \* eventMap_: the timer of a share, by event id, and its key; the
                   \* number of the share it was armed for is history
    operators,     \* freeInstallOperatorMap_, by event id, with key and share
    armed,         \* event ids whose delayed task is scheduled
    eventId,       \* FormEventHandler::eventId_
    installing,    \* operators the installer will call back
    results,       \* OnInstallFinished tasks on the serial queue
    pc,            \* what each thread is at: the next locked section and its key
    taken          \* history: keys of which a host has removed a share

vars == <<shareInfo, received, eventMap, operators, armed, eventId, installing, results, pc,
          taken>>

--------------------------------------------------------------------------------
NoShare == [share |-> 0, isFreeInstall |-> FALSE]
Threads == Hosts \cup {Worker}
IdleAt  == [at |-> "idle"]
At(where, k) == [at |-> where, key |-> k]

Pending == {k \in Keys : shareInfo[k] # NoShare}
Goes(t, to)   == pc' = [pc EXCEPT ![t] = to]
WorkerIdle    == pc[Worker] = IdleAt

Init ==
    /\ shareInfo = [k \in Keys |-> NoShare] /\ received = 0
    /\ eventMap = {} /\ operators = {} /\ armed = {} /\ eventId = 0
    /\ installing = {} /\ results = {}
    /\ pc = [t \in Threads |-> IdleAt]
    /\ taken = {}

--------------------------------------------------------------------------------
(* RemoveFormShareInfo, by whatever thread: the timer first, the share     *)
(* next, under separate locks.                                             *)

First(events) == CHOOSE e \in events : \A f \in events : e.id <= f.id
EventsOf(k)   == {e \in eventMap : e.key = k}

RemoveEvent(t) ==
    /\ pc[t].at = "remove"
    /\ LET mine == EventsOf(pc[t].key) IN
       IF mine = {} THEN UNCHANGED <<eventMap, armed>>
       ELSE eventMap' = eventMap \ {First(mine)} /\ armed' = armed \ {First(mine).id}
    /\ Goes(t, At("erase", pc[t].key))
    /\ UNCHANGED <<shareInfo, received, operators, eventId, installing, results, taken>>

EraseShare(t) ==
    /\ pc[t].at = "erase"
    /\ shareInfo' = [shareInfo EXCEPT ![pc[t].key] = NoShare]
    /\ taken' = IF t \in Hosts THEN taken \cup {pc[t].key} ELSE taken
    /\ Goes(t, IdleAt)
    /\ UNCHANGED <<received, eventMap, operators, armed, eventId, installing, results>>

--------------------------------------------------------------------------------
(* HandleRecvFormShareInfoFromRemoteTask: enter the share, arm its timer,  *)
(* see to the package.                                                     *)

\* Mutant of EnterShare: the pending shares are not counted.
EnterShareUnlimited(k) ==
    /\ WorkerIdle /\ received < MaxShares
    /\ shareInfo[k] = NoShare
    /\ received' = received + 1
    /\ shareInfo' = [shareInfo EXCEPT ![k] = [share |-> received', isFreeInstall |-> FALSE]]
    /\ Goes(Worker, At("arm", k))
    /\ UNCHANGED <<eventMap, operators, armed, eventId, installing, results, taken>>

\* A second share of a form that is being shared is refused.
EnterShare(k) ==
    /\ WorkerIdle /\ received < MaxShares
    /\ shareInfo[k] = NoShare
    /\ Cardinality(Pending) <= FORM_SHARE_INFO_MAX_SIZE
    /\ received' = received + 1
    /\ shareInfo' = [shareInfo EXCEPT ![k] = [share |-> received', isFreeInstall |-> FALSE]]
    /\ Goes(Worker, At("arm", k))
    /\ UNCHANGED <<eventMap, operators, armed, eventId, installing, results, taken>>

\* Mutants of ArmShare: the timer is entered and never scheduled, and the
\* first id is 0, which RemoveFormShareInfo takes for none.
ArmShareUntimed ==
    /\ pc[Worker].at = "arm"
    /\ eventId < MaxEventId /\ eventId' = eventId + 1
    /\ eventMap' = eventMap \cup {[id |-> eventId', key |-> pc[Worker].key, share |-> received]}
    /\ Goes(Worker, [pc[Worker] EXCEPT !.at = "check"])
    /\ UNCHANGED <<shareInfo, received, operators, armed, installing, results, taken>>

ArmSharePostIncrement ==
    /\ pc[Worker].at = "arm"
    /\ eventId < MaxEventId /\ eventId' = eventId + 1
    /\ eventMap' = eventMap \cup {[id |-> eventId, key |-> pc[Worker].key, share |-> received]}
    /\ armed' = armed \cup {eventId}
    /\ Goes(Worker, [pc[Worker] EXCEPT !.at = "check"])
    /\ UNCHANGED <<shareInfo, received, operators, installing, results, taken>>

GetEventId == eventId < MaxEventId /\ eventId' = eventId + 1

ArmShare ==
    /\ pc[Worker].at = "arm"
    /\ GetEventId
    /\ eventMap' = eventMap \cup {[id |-> eventId', key |-> pc[Worker].key, share |-> received]}
    /\ armed' = armed \cup {eventId'}
    /\ Goes(Worker, [pc[Worker] EXCEPT !.at = "check"])
    /\ UNCHANGED <<shareInfo, received, operators, installing, results, taken>>

\* StartFormUser: the application that shows the share is started, or the
\* share is removed.
StartFormUser(k) == \/ Goes(Worker, IdleAt)
                    \/ Goes(Worker, At("remove", k))

PackageExists ==
    /\ pc[Worker].at = "check"
    /\ StartFormUser(pc[Worker].key)
    /\ UNCHANGED <<shareInfo, received, eventMap, operators, armed, eventId, installing,
                   results, taken>>

\* CheckFormPackage installs it.  The result of the query is ignored: the
\* installer calls back, once, or never.
StartFreeInstall ==
    /\ pc[Worker].at = "check"
    /\ GetEventId
    /\ LET op == [id |-> eventId', key |-> pc[Worker].key, share |-> received] IN
       /\ operators' = operators \cup {op}
       /\ installing' = installing \cup {op}
    /\ armed' = armed \cup {eventId'}
    /\ Goes(Worker, IdleAt)
    /\ UNCHANGED <<shareInfo, received, eventMap, results, taken>>

--------------------------------------------------------------------------------
(* The installer and the timers.                                           *)

\* The callback holds the operator weakly: once it is out of the map, nothing happens.
InstallerCallsBack(op) ==
    /\ op \in installing /\ installing' = installing \ {op}
    /\ results' = IF op \in operators THEN results \cup {op} ELSE results
    /\ UNCHANGED <<shareInfo, received, eventMap, operators, armed, eventId, pc, taken>>

OnInstallFinished(op, ok) ==
    /\ WorkerIdle /\ op \in results
    /\ results' = results \ {op}
    /\ operators' = operators \ {op}
    /\ armed' = IF op \in operators THEN armed \ {op.id} ELSE armed
    /\ IF ~ok THEN UNCHANGED shareInfo /\ Goes(Worker, At("remove", op.key))
       ELSE IF op.key \notin Pending THEN UNCHANGED <<shareInfo, pc>>
       ELSE /\ shareInfo' = [shareInfo EXCEPT ![op.key].isFreeInstall = TRUE]
            /\ StartFormUser(op.key)
    /\ UNCHANGED <<received, eventMap, eventId, installing, taken>>

\* The install of a share, if it needs one, starts right after its timer (50 s) and
\* has 40 s: its own timer, or the task of a result in time, is ahead of the share's
\* on the serial queue.  The timers of different shares fire in any order.
InstallOver(e) ==
    /\ \A op \in operators : op.share = e.share => op.id \notin armed
    /\ \A op \in results : op.share # e.share

\* Mutant of HandleFormShareInfoTimeout: the entry goes, the share stays.
FormShareInfoTimeoutForgets(e) ==
    /\ WorkerIdle /\ e \in eventMap /\ e.id \in armed /\ InstallOver(e)
    /\ armed' = armed \ {e.id} /\ eventMap' = eventMap \ {e}
    /\ UNCHANGED <<shareInfo, received, operators, eventId, installing, results, pc, taken>>

HandleFormShareInfoTimeout(e) ==
    /\ WorkerIdle /\ e \in eventMap /\ e.id \in armed /\ InstallOver(e)
    /\ armed' = armed \ {e.id} /\ eventMap' = eventMap \ {e}
    /\ Goes(Worker, At("remove", e.key))
    /\ UNCHANGED <<shareInfo, received, operators, eventId, installing, results, taken>>

\* Mutant of HandleFreeInstallTimeout: the operator stays.
FreeInstallTimeoutKeeps(op) ==
    /\ WorkerIdle /\ op \in operators /\ op.id \in armed
    /\ armed' = armed \ {op.id}
    /\ UNCHANGED <<shareInfo, received, eventMap, operators, eventId, installing, results, pc,
                   taken>>

HandleFreeInstallTimeout(op) ==
    /\ WorkerIdle /\ op \in operators /\ op.id \in armed
    /\ armed' = armed \ {op.id} /\ operators' = operators \ {op}
    /\ UNCHANGED <<shareInfo, received, eventMap, eventId, installing, results, pc, taken>>

--------------------------------------------------------------------------------
\* AddProviderData, for a host that adds the form: the share is read, then removed.
AddProviderData(h, k) ==
    /\ pc[h] = IdleAt /\ k \in Pending
    /\ Goes(h, At("remove", k))
    /\ UNCHANGED <<shareInfo, received, eventMap, operators, armed, eventId, installing,
                   results, taken>>

RemoveFormShareInfo(t) == RemoveEvent(t) \/ EraseShare(t)

InstallFinished == \E op \in results, ok \in BOOLEAN : OnInstallFinished(op, ok)
Timeouts ==
    \/ \E e \in eventMap : HandleFormShareInfoTimeout(e)
    \/ \E op \in operators : HandleFreeInstallTimeout(op)

Next ==
    \/ \E k \in Keys : EnterShare(k)
    \/ ArmShare \/ PackageExists \/ StartFreeInstall
    \/ \E op \in installing : InstallerCallsBack(op)
    \/ InstallFinished \/ Timeouts
    \/ \E h \in Hosts, k \in Keys : AddProviderData(h, k)
    \/ \E t \in Threads : RemoveFormShareInfo(t)

Spec == Init /\ [][Next]_vars

\* The serial queue runs its tasks and the delayed ones that are due, and a host's
\* thread finishes what it began.  Hosts, devices and the installer owe nothing.
Fairness ==
    /\ WF_vars(ArmShare \/ PackageExists \/ StartFreeInstall)
    /\ WF_vars(InstallFinished) /\ WF_vars(Timeouts)
    /\ \A t \in Threads : WF_vars(RemoveFormShareInfo(t))
FairSpec == Spec /\ Fairness

--------------------------------------------------------------------------------
Places ==
    {IdleAt} \cup {At(where, k) : where \in {"arm", "check", "remove", "erase"}, k \in Keys}
Shares    == {NoShare} \cup [share: 1 .. received, isFreeInstall: BOOLEAN]
Operators == [id: 1 .. eventId, key: Keys, share: 1 .. received]

(* Type invariant.                                                         *)
TypeOK ==
    /\ received \in 0 .. MaxShares /\ eventId \in 0 .. MaxEventId
    /\ shareInfo \in [Keys -> Shares]
    /\ eventMap \subseteq [id: 1 .. eventId, key: Keys, share: 1 .. received]
    /\ operators \subseteq Operators
    /\ installing \subseteq Operators
    /\ results \subseteq Operators
    /\ armed \subseteq 1 .. eventId
    /\ pc \in [Threads -> Places]
    /\ \A h \in Hosts : pc[h].at \notin {"arm", "check"}
    /\ taken \subseteq Keys

(* Nothing waits without an end: a pending share has a timer, or a thread  *)
(* is about to arm one or to erase it, and an install under way has one    *)
(* too.  The timer of a share is found by its key, which an older share    *)
(* may have had, and share and timer are entered and removed under         *)
(* different locks (HandleRecvFormShareInfoFromRemoteTask,                 *)
(* RemoveFormShareInfo).                                                   *)
BeingEnded(k) ==
    \/ pc[Worker] \in {At("arm", k), At("remove", k)}
    \/ \E t \in Threads : pc[t] = At("erase", k)
NothingUntimed ==
    /\ \A k \in Pending : BeingEnded(k) \/ EventsOf(k) # {}
    /\ \A w \in eventMap \cup operators : w.id \in armed

(* An install that finishes acts on the share it was started for, as long  *)
(* as no host took a share of that form: the timers alone do not mix up    *)
(* one share and the next (OnInstallFinished looks the share up by key).   *)
InstallActsOnItsShare ==
    \A op \in results :
        op.key \in Pending /\ op.key \notin taken => shareInfo[op.key].share = op.share

(* The limit is exceeded by one share at most, however many threads remove *)
(* shares while the worker enters them.                                    *)
AtMostOneOver == Cardinality(Pending) <= FORM_SHARE_INFO_MAX_SIZE + 1

(* Every share comes to an end, taken or not.                              *)
SharesEnd ==
    \A k \in Keys, n \in 1 .. MaxShares : shareInfo[k].share = n ~> shareInfo[k].share # n

================================================================================
