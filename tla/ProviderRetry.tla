-------------------------- MODULE ProviderRetry --------------------------
(***************************************************************************)
(* Retrying a provider that died, for one form.                            *)
(*                                                                         *)
(* A request connects the provider's extension and then sends to it.  When *)
(* the process dies two signals arrive, in either order and on different   *)
(* threads: the send fails with a dead object, and the connection is lost. *)
(* FormProviderConnectionErrorHandler retries only when it has seen both,  *)
(* at most maxRetryCount times, and drops a lone signal after a timeout.   *)
(* There are two handlers, for refreshes and for acquisitions; the slot of *)
(* the timeout task is keyed by the form alone, so they share it.          *)
(***************************************************************************)
EXTENDS Naturals, FiniteSets

CONSTANTS MaxConnections, \* bound: the connections that may be made
          Kinds,          \* the requests made
          MaxRetryCount,  \* RetryPolicyConfig::maxRetryCount
          OneAtATime,     \* a request is made only when the last one is over
          MaxRequests     \* bound: how many requests are made

ASSUME RetryAssumption ==
    /\ Kinds \subseteq {"refresh", "message", "recreate", "acquire"}
    /\ OneAtATime \in BOOLEAN
    /\ MaxConnections \in Nat /\ MaxRetryCount \in Nat /\ MaxRequests \in Nat

VARIABLES formExists,  \* the form has a record
          deleting,    \* DeleteFormRecord: the steps it has left
          policy,      \* retryPolicyMap_ of each handler, for this form
          retryTask,   \* the delayed retry of each handler: what it clones
          timeoutTask, \* the delayed REFRESH_RETRY_TIMEOUT_TASK: its handler
          running,     \* the delayed task FormMgrQueue has taken up
          conn,        \* the connections
          latest,      \* the newest request of each handler
          requests     \* bound

vars == <<formExists, deleting, policy, retryTask, timeoutTask, running, conn,
          latest, requests>>

Handlers == {"refresh", "acquire"}
Connections == 1..MaxConnections
NoConn == 0
Absent == [sendFailed |-> FALSE, discFailed |-> FALSE, count |-> 0, orig |-> NoConn,
           present |-> FALSE]
NewPolicy == [Absent EXCEPT !.present = TRUE]

\* The handler whose policy a request removes first, which is also told of its lost
\* connection, and the one told what became of its send: messages and recreations
\* go through a refresh connection, and a recreation acquires.
Clears(kind) == IF kind = "acquire" THEN "acquire" ELSE "refresh"
SendHandler(kind) == IF kind = "refresh" THEN "refresh" ELSE "acquire"

IsNextFree(c) ==
    /\ conn[c].state = "free"
    /\ \A d \in Connections : d < c => conn[d].state # "free"
Partial(h) == policy[h].sendFailed # policy[h].discFailed
\* Nothing is left of earlier requests but what this one removes.
Settled(kind) ==
    /\ running.task # "retry"
    /\ \A d \in Connections : /\ conn[d].state \in {"free", "gone"}
                              /\ conn[d].send \notin {"posted", "clearing"}
    /\ \A h \in Handlers \ {Clears(kind)} : ~Partial(h) /\ retryTask[h] = NoConn
Idle == [task |-> "none", handler |-> "refresh", orig |-> NoConn, exists |-> FALSE]

Init ==
    /\ formExists = TRUE /\ deleting = "no"
    /\ policy = [h \in Handlers |-> Absent]
    /\ retryTask = [h \in Handlers |-> NoConn]
    /\ timeoutTask = "none"
    /\ running = Idle
    /\ conn = [c \in Connections |->
                 [state |-> "free", send |-> "none", kind |-> "refresh", request |-> 0,
                  retry |-> 0]]
    /\ latest = [h \in Handlers |-> 0] /\ requests = 0
---------------------------------------------------------------------------
(* What the handler does under its lock.                                   *)

CancelPendingTasks(h) ==
    /\ retryTask' = [retryTask EXCEPT ![h] = NoConn]
    /\ timeoutTask' = "none"
Erase(h) == policy' = [policy EXCEPT ![h] = Absent]
Ensured(h) == IF policy[h].present THEN policy[h] ELSE NewPolicy

StartSignalTimeout(h, p) ==
    /\ policy' = [policy EXCEPT ![h] = p]
    /\ timeoutTask' = h
    /\ UNCHANGED retryTask

ScheduleRetryWithReset(h, p, orig) ==
    /\ timeoutTask' = "none"
    /\ policy' = [policy EXCEPT ![h] = [NewPolicy EXCEPT !.count = p.count + 1]]
    /\ retryTask' = [retryTask EXCEPT ![h] = orig]

\* Mutants of NeedRetry: one retry too many, and a lone signal taken for both.
NeedRetryOnceMore(p) == p.sendFailed /\ p.discFailed /\ p.count <= MaxRetryCount
NeedRetryLone(p) == p.discFailed /\ p.count < MaxRetryCount
NeedRetry(p) == p.sendFailed /\ p.discFailed /\ p.count < MaxRetryCount

HandleSendRequestFailed(h) ==
    LET p == [Ensured(h) EXCEPT !.sendFailed = TRUE] IN
    \/ ~p.discFailed /\ StartSignalTimeout(h, p)
    \/ NeedRetry(p) /\ ScheduleRetryWithReset(h, p, p.orig)
    \/ p.discFailed /\ ~NeedRetry(p) /\ CancelPendingTasks(h) /\ Erase(h)

\* Mutant of HandleDisconnectError: a lone loss starts no timeout.
HandleDisconnectErrorUntimed(h, c) ==
    LET p == [Ensured(h) EXCEPT !.discFailed = TRUE, !.orig = c] IN
    \/ /\ ~p.sendFailed /\ policy' = [policy EXCEPT ![h] = p]
       /\ UNCHANGED <<retryTask, timeoutTask>>
    \/ NeedRetry(p) /\ ScheduleRetryWithReset(h, p, c)
    \/ p.sendFailed /\ ~NeedRetry(p) /\ CancelPendingTasks(h) /\ Erase(h)
HandleDisconnectError(h, c) ==
    LET p == [Ensured(h) EXCEPT !.discFailed = TRUE, !.orig = c] IN
    \/ ~p.sendFailed /\ StartSignalTimeout(h, p)
    \/ NeedRetry(p) /\ ScheduleRetryWithReset(h, p, c)
    \/ p.sendFailed /\ ~NeedRetry(p) /\ CancelPendingTasks(h) /\ Erase(h)
---------------------------------------------------------------------------
(* A request: RemoveRetryPolicy cancels the tasks, then erases the policy. *)

\* Mutant of Request: RemoveRetryPolicy forgets the pending retry.
RequestKeepsRetry(c, kind) ==
    /\ formExists /\ IsNextFree(c) /\ requests < MaxRequests
    /\ OneAtATime => Settled(kind)
    /\ timeoutTask' = "none"
    /\ conn' = [conn EXCEPT ![c] = [@ EXCEPT !.state = "clearing", !.kind = kind,
                                             !.request = requests + 1]]
    /\ requests' = requests + 1
    /\ UNCHANGED <<formExists, deleting, policy, retryTask, running, latest>>

Request(c, kind) ==
    /\ formExists /\ IsNextFree(c) /\ requests < MaxRequests
    /\ OneAtATime => Settled(kind)
    /\ CancelPendingTasks(Clears(kind))
    /\ conn' = [conn EXCEPT ![c] = [@ EXCEPT !.state = "clearing", !.kind = kind,
                                             !.request = requests + 1]]
    /\ requests' = requests + 1
    /\ UNCHANGED <<formExists, deleting, policy, running, latest>>

\* The policy is gone and the ability manager is asked to connect; it may refuse.
Connect(c) ==
    LET h == Clears(conn[c].kind) IN
    /\ conn[c].state = "clearing"
    /\ Erase(h)
    /\ latest' = [latest EXCEPT ![h] = conn[c].request]
    /\ \E state \in {"connecting", "gone"} : conn' = [conn EXCEPT ![c].state = state]
    /\ UNCHANGED <<formExists, deleting, retryTask, timeoutTask, running, requests>>

\* The send is posted; what becomes of a message no handler is told.
OnAbilityConnectDone(c) ==
    /\ conn[c].state = "connecting"
    /\ conn' = [conn EXCEPT ![c].state = "connected",
                            ![c].send = IF conn[c].kind = "message" THEN "sent" ELSE "posted"]
    /\ UNCHANGED <<formExists, deleting, policy, retryTask, timeoutTask, running, latest,
                   requests>>

\* The posted task runs: the send succeeds, fails, or finds the object dead.  It
\* runs even when the connection was lost before.
SendSucceeds(c) ==
    /\ conn[c].send = "posted"
    /\ CancelPendingTasks(SendHandler(conn[c].kind))
    /\ conn' = [conn EXCEPT ![c].send = "clearing"]
    /\ UNCHANGED <<formExists, deleting, policy, running, latest, requests>>
SentErases(c) ==
    /\ conn[c].send = "clearing"
    /\ Erase(SendHandler(conn[c].kind))
    /\ conn' = [conn EXCEPT ![c].send = "sent"]
    /\ UNCHANGED <<formExists, deleting, retryTask, timeoutTask, running, latest, requests>>
SendFails(c) ==
    /\ conn[c].send = "posted"
    /\ conn' = [conn EXCEPT ![c].send = "failed"]
    /\ UNCHANGED <<formExists, deleting, policy, retryTask, timeoutTask, running, latest,
                   requests>>
SendFindsDead(c) ==
    /\ conn[c].send = "posted"
    /\ HandleSendRequestFailed(SendHandler(conn[c].kind))
    /\ conn' = [conn EXCEPT ![c].send = "dead"]
    /\ UNCHANGED <<formExists, deleting, running, latest, requests>>

\* The connection ends; a connected one may end with DISCONNECT_ERROR.
OnAbilityDisconnectDone(c) ==
    /\ conn[c].state \in {"connecting", "connected"}
    /\ conn' = [conn EXCEPT ![c].state = "gone"]
    /\ \/ UNCHANGED <<policy, retryTask, timeoutTask>>
       \/ /\ conn[c].state = "connected"
          /\ HandleDisconnectError(Clears(conn[c].kind), c)
    /\ UNCHANGED <<formExists, deleting, running, latest, requests>>
---------------------------------------------------------------------------
(* FormMgrQueue runs one delayed task at a time; a task taken up cannot be *)
(* cancelled any more.                                                     *)

TakeTimeout ==
    /\ running.task = "none" /\ timeoutTask # "none"
    /\ running' = [Idle EXCEPT !.task = "timeout", !.handler = timeoutTask]
    /\ timeoutTask' = "none"
    /\ UNCHANGED <<formExists, deleting, policy, retryTask, conn, latest, requests>>

OnSignalTimeout ==
    LET h == running.handler IN
    /\ running.task = "timeout"
    /\ IF policy[h].sendFailed # policy[h].discFailed THEN Erase(h) ELSE UNCHANGED policy
    /\ running' = Idle
    /\ UNCHANGED <<formExists, deleting, retryTask, timeoutTask, conn, latest, requests>>

\* ExecuteRetry asks whether the form exists before it takes the lock.
TakeRetry(h) ==
    /\ running.task = "none" /\ retryTask[h] # NoConn
    /\ running' = [task |-> "retry", handler |-> h, orig |-> retryTask[h],
                   exists |-> formExists]
    /\ retryTask' = [retryTask EXCEPT ![h] = NoConn]
    /\ UNCHANGED <<formExists, deleting, policy, timeoutTask, conn, latest, requests>>

RetryDropped(h) ==
    /\ \/ ~policy[h].present /\ UNCHANGED <<policy, retryTask, timeoutTask>>
       \/ policy[h].present /\ ~running.exists /\ CancelPendingTasks(h) /\ Erase(h)
    /\ UNCHANGED conn
\* Mutant of RetryConnects: the record is not looked for.
RetryConnectsAnyway(h) ==
    /\ policy[h].present
    /\ LET orig == conn[running.orig] IN
       \E c \in Connections :
         /\ IsNextFree(c)
         /\ conn' = [conn EXCEPT ![c] = [@ EXCEPT !.state = "connecting", !.kind = orig.kind,
                                      !.request = orig.request, !.retry = orig.retry + 1]]
    /\ UNCHANGED <<policy, retryTask, timeoutTask>>
RetryConnects(h) ==
    /\ policy[h].present /\ running.exists
    /\ LET orig == conn[running.orig] IN
       \E c \in Connections :
         /\ IsNextFree(c)
         /\ conn' = [conn EXCEPT ![c] = [@ EXCEPT !.state = "connecting", !.kind = orig.kind,
                                      !.request = orig.request, !.retry = orig.retry + 1]]
    /\ UNCHANGED <<policy, retryTask, timeoutTask>>
RetryRefused(h) ==
    /\ policy[h].present /\ running.exists
    /\ CancelPendingTasks(h) /\ Erase(h)
    /\ UNCHANGED conn

ExecuteRetry ==
    /\ running.task = "retry"
    /\ LET h == running.handler IN RetryDropped(h) \/ RetryConnects(h) \/ RetryRefused(h)
    /\ running' = Idle
    /\ UNCHANGED <<formExists, deleting, latest, requests>>
---------------------------------------------------------------------------
(* DeleteFormRecord: the record first, then both handlers' policies.       *)

DeleteFormRecord ==
    /\ formExists /\ formExists' = FALSE
    /\ deleting' = "refreshTasks"
    /\ UNCHANGED <<policy, retryTask, timeoutTask, running, conn, latest, requests>>

RemoveRetryPolicies ==
    /\ \/ /\ deleting = "refreshTasks" /\ deleting' = "refreshPolicy"
          /\ CancelPendingTasks("refresh") /\ UNCHANGED policy
       \/ /\ deleting = "refreshPolicy" /\ deleting' = "acquireTasks"
          /\ Erase("refresh") /\ UNCHANGED <<retryTask, timeoutTask>>
       \/ /\ deleting = "acquireTasks" /\ deleting' = "acquirePolicy"
          /\ CancelPendingTasks("acquire") /\ UNCHANGED policy
       \/ /\ deleting = "acquirePolicy" /\ deleting' = "done"
          /\ Erase("acquire") /\ UNCHANGED <<retryTask, timeoutTask>>
    /\ UNCHANGED <<formExists, running, conn, latest, requests>>
---------------------------------------------------------------------------
Step(c) ==
    \/ Connect(c) \/ OnAbilityConnectDone(c) \/ SendSucceeds(c) \/ SentErases(c)
    \/ SendFails(c) \/ SendFindsDead(c) \/ OnAbilityDisconnectDone(c)

Next ==
    \/ \E c \in Connections, kind \in Kinds : Request(c, kind)
    \/ \E c \in Connections : Step(c)
    \/ TakeTimeout \/ OnSignalTimeout \/ (\E h \in Handlers : TakeRetry(h)) \/ ExecuteRetry
    \/ DeleteFormRecord \/ RemoveRetryPolicies

Spec == Init /\ [][Next]_vars
---------------------------------------------------------------------------
TypeOK ==
    /\ formExists \in BOOLEAN
    /\ deleting \in {"no", "refreshTasks", "refreshPolicy", "acquireTasks", "acquirePolicy",
                     "done"}
    /\ policy \in [Handlers -> [present : BOOLEAN, sendFailed : BOOLEAN, discFailed : BOOLEAN,
                                count : 0..MaxRetryCount, orig : {NoConn} \cup Connections]]
    /\ retryTask \in [Handlers -> {NoConn} \cup Connections]
    /\ timeoutTask \in {"none"} \cup Handlers
    /\ running \in [task : {"none", "timeout", "retry"}, handler : Handlers,
                    orig : {NoConn} \cup Connections, exists : BOOLEAN]
    /\ conn \in [Connections ->
          [state : {"free", "clearing", "connecting", "connected", "gone"},
           send : {"none", "posted", "clearing", "sent", "failed", "dead"},
           kind : {"refresh", "message", "recreate", "acquire"}, request : Nat, retry : Nat]]
    /\ latest \in [Handlers -> Nat] /\ requests \in 0..MaxRequests

\* The handler waits for a second signal only while its fallback timeout is on the
\* way, so that a policy never stays half confirmed: one left so would make the lone
\* signal of a later connection look like a confirmed death.
PartialIsTimed ==
    \A h \in Handlers : formExists /\ Partial(h) =>
       \/ timeoutTask = h
       \/ running.task = "timeout" /\ running.handler = h
       \/ \E c \in Connections : conn[c].state = "clearing" \/ conn[c].send = "clearing"

\* A request is retried at most maxRetryCount times, through all the connections
\* made for it.
RetriesBounded == \A c \in Connections : conn[c].retry <= MaxRetryCount

Retries(c) == conn'[c].retry > conn[c].retry

\* A retry repeats the newest request: a new one takes the place of what was pending
\* ("superseded").
SupersededNotRetried ==
    [][\A c \in Connections :
         Retries(c) => conn'[c].request = latest[Clears(conn'[c].kind)]]_vars

\* Once the record and its policies are deleted nothing connects for the form again,
\* whichever signals still arrive and though a retry looks for the record before it
\* takes the lock.
DeletedNotRetried ==
    [][\A c \in Connections : Retries(c) => deleting # "done"]_vars

\* Only a provider that died is retried: the connection that is repeated was lost, and
\* its own send found the dead object.
DualSignal ==
    [][\A c \in Connections : Retries(c) =>
         conn[running.orig].state = "gone" /\ conn[running.orig].send = "dead"]_vars
==========================================================================
