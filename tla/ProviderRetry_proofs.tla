------------------------- MODULE ProviderRetry_proofs -------------------------
(***************************************************************************)
(* Proofs about the retries of a provider that died: the types for every   *)
(* value of the constants, and for requests that use one handler and are   *)
(* made one at a time what is retried, how often, and for which request.   *)
(***************************************************************************)
EXTENDS ProviderRetry, TLAPS

USE RetryAssumption DEF Handlers, Connections, NoConn

Policies == [present : BOOLEAN, sendFailed : BOOLEAN, discFailed : BOOLEAN,
             count : 0..MaxRetryCount, orig : {NoConn} \cup Connections]

--------------------------------------------------------------------------------
(* Types.  What a connection has done depends on how far it got, and a     *)
(* loss or a retry knows the connection it is about.                       *)

ConnectionShape(c) ==
    /\ conn[c].state \in {"free", "clearing"} => conn[c].retry = 0
    /\ conn[c].kind \in Kinds \cup {"refresh"}
    /\ conn[c].state \in {"free", "clearing", "connecting"} => conn[c].send = "none"
    /\ conn[c].state = "connected" => conn[c].send # "none"
    /\ conn[c].send \notin {"none", "sent"} => conn[c].kind # "message"

\* The policies, the pending retries and the timeout.
PolicyTypes ==
    /\ policy \in [Handlers -> Policies]
    /\ retryTask \in [Handlers -> {NoConn} \cup Connections]
    /\ timeoutTask \in {"none"} \cup Handlers
    /\ \A h \in Handlers : policy[h].discFailed => policy[h].orig # NoConn
    /\ \A h \in Handlers : /\ policy[h].present \/ policy[h] = Absent
                           /\ ~(policy[h].sendFailed /\ policy[h].discFailed)

\* The connections: what each was made for, and how far it got.
States == {"free", "clearing", "connecting", "connected", "gone"}
Sends  == {"none", "posted", "clearing", "sent", "failed", "dead"}
Conns  == [state : States, send : Sends, kind : {"refresh", "message", "recreate", "acquire"},
           request : Nat, retry : Nat]
ConnTypes == conn \in [Connections -> Conns] /\ \A c \in Connections : ConnectionShape(c)

RunTypes ==
    /\ running \in [task : {"none", "timeout", "retry"}, handler : Handlers,
                    orig : {NoConn} \cup Connections, exists : BOOLEAN]
    /\ running.task = "retry" => running.orig # NoConn
RestTypes ==
    /\ formExists \in BOOLEAN
    /\ deleting \in {"no", "refreshTasks", "refreshPolicy", "acquireTasks", "acquirePolicy",
                     "done"}
    /\ latest \in [Handlers -> Nat] /\ requests \in 0..MaxRequests

Base == PolicyTypes /\ ConnTypes /\ RunTypes /\ RestTypes

LEMMA BaseIsTyped == Base => TypeOK
  BY DEF Base, TypeOK, PolicyTypes, Policies, ConnTypes, Conns, States, Sends, RunTypes, RestTypes

\* The retries of a connection and the count of a policy can be compared.
LEMMA CountsAreNumbers ==
    ASSUME Base, NEW c \in Connections, NEW h \in Handlers
    PROVE  conn[c].retry \in Nat /\ policy[h].count \in Nat
  <1>1. conn[c] \in Conns
    BY DEF Base, ConnTypes
  <1>2. policy[h] \in Policies
    BY DEF Base, PolicyTypes
  <1>3. conn[c].retry \in Nat
    BY <1>1 DEF Conns
  <1>4. policy[h].count \in Nat
    BY <1>2, RetryAssumption DEF Policies
  <1> QED BY <1>3, <1>4

LEMMA PolicyFields ==
    ASSUME NEW p \in Policies
    PROVE  /\ [p EXCEPT !.present = TRUE] \in Policies
           /\ [p EXCEPT !.present = TRUE].present
           /\ [p EXCEPT !.present = TRUE].sendFailed <=> p.sendFailed
           /\ [p EXCEPT !.present = TRUE].discFailed <=> p.discFailed
           /\ [p EXCEPT !.present = TRUE].count = p.count
           /\ [p EXCEPT !.sendFailed = TRUE] \in Policies
           /\ [p EXCEPT !.sendFailed = TRUE].sendFailed
           /\ [p EXCEPT !.sendFailed = TRUE].present <=> p.present
           /\ [p EXCEPT !.sendFailed = TRUE].discFailed = p.discFailed
           /\ [p EXCEPT !.sendFailed = TRUE].count = p.count
           /\ [p EXCEPT !.sendFailed = TRUE].orig = p.orig
           /\ \A c \in Connections : LET q == [p EXCEPT !.discFailed = TRUE, !.orig = c] IN
                /\ q \in Policies /\ q.discFailed /\ q.orig = c
                /\ (q.present <=> p.present) /\ q.sendFailed = p.sendFailed /\ q.count = p.count
           /\ \A n \in 0 .. MaxRetryCount : LET q == [p EXCEPT !.count = n] IN
                /\ q \in Policies /\ q.count = n
                /\ (q.present <=> p.present) /\ (q.sendFailed <=> p.sendFailed)
                /\ (q.discFailed <=> p.discFailed)
  BY DEF Policies

LEMMA AbsentPolicies ==
    /\ Absent \in Policies /\ NewPolicy \in Policies
    /\ ~Absent.present /\ Absent.sendFailed = FALSE /\ Absent.discFailed = FALSE
    /\ NewPolicy.present /\ NewPolicy.sendFailed = FALSE /\ NewPolicy.discFailed = FALSE
    /\ Absent.count = 0 /\ NewPolicy.count = 0
  <1>1. /\ Absent \in Policies /\ Absent.count = 0
        /\ ~Absent.present /\ Absent.sendFailed = FALSE /\ Absent.discFailed = FALSE
    BY DEF Policies, Absent
  <1>2. /\ NewPolicy \in Policies /\ NewPolicy.present /\ NewPolicy.count = 0
        /\ ~NewPolicy.sendFailed /\ ~NewPolicy.discFailed
    BY <1>1, PolicyFields DEF NewPolicy
  <1> QED BY <1>1, <1>2 DEF Policies

LEMMA HandlersOfKinds ==
    \A kind : Clears(kind) \in Handlers /\ SendHandler(kind) \in Handlers
  BY DEF Clears, SendHandler

LEMMA Erased ==
    ASSUME PolicyTypes, NEW h \in Handlers
    PROVE  /\ Erase(h) =>
                /\ policy' \in [Handlers -> Policies] /\ policy'[h] = Absent
                /\ \A g \in Handlers \ {h} : policy'[g] = policy[g]
           /\ CancelPendingTasks(h) =>
                /\ retryTask' \in [Handlers -> {NoConn} \cup Connections] /\ retryTask'[h] = NoConn
                /\ \A g \in Handlers \ {h} : retryTask'[g] = retryTask[g]
                /\ timeoutTask' = "none"
  BY AbsentPolicies DEF Erase, CancelPendingTasks, PolicyTypes

LEMMA RetryTaken ==
    ASSUME PolicyTypes, NEW h \in Handlers, TakeRetry(h)
    PROVE  PolicyTypes'
  <1>1. /\ policy' = policy /\ timeoutTask' = timeoutTask
        /\ retryTask' = [retryTask EXCEPT ![h] = NoConn]
    BY DEF TakeRetry
  <1>2. retryTask \in [Handlers -> {NoConn} \cup Connections]
    BY DEF PolicyTypes
  <1>3. retryTask' \in [Handlers -> {NoConn} \cup Connections]
    BY <1>1, <1>2
  <1> QED BY <1>1, <1>3 DEF PolicyTypes

\* After a signal, s and d say which signals the handler has seen and o the
\* connection that was lost: it waits for the other, retries or gives up.
Waits(h, s, d, o) ==
    /\ ~(s /\ d)
    /\ policy'[h].present /\ policy'[h].count = policy[h].count
    /\ policy'[h].sendFailed <=> s
    /\ policy'[h].discFailed <=> d
    /\ d => policy'[h].orig = o
    /\ timeoutTask' = h /\ retryTask' = retryTask
WillRetry(h, s, d, o) ==
    /\ s /\ d
    /\ policy'[h].present /\ policy'[h].count = policy[h].count + 1
    /\ ~policy'[h].sendFailed /\ ~policy'[h].discFailed
    /\ retryTask'[h] = o /\ timeoutTask' = "none"
GivesUp(h, s, d) ==
    /\ s /\ d
    /\ policy'[h] = Absent /\ retryTask'[h] = NoConn /\ timeoutTask' = "none"
Signalled(h, s, d, o) ==
    /\ policy' \in [Handlers -> Policies]
    /\ retryTask' \in [Handlers -> {NoConn} \cup Connections]
    /\ \A g \in Handlers \ {h} : policy'[g] = policy[g] /\ retryTask'[g] = retryTask[g]
    /\ Waits(h, s, d, o) \/ WillRetry(h, s, d, o) \/ GivesUp(h, s, d)

LEMMA SignalOutcomes ==
    ASSUME PolicyTypes, NEW h \in Handlers, NEW p \in Policies, p.present,
           p.count = policy[h].count, NEW o \in {NoConn} \cup Connections, p.discFailed => p.orig = o,
           \/ ~(p.sendFailed /\ p.discFailed) /\ StartSignalTimeout(h, p)
           \/ NeedRetry(p) /\ ScheduleRetryWithReset(h, p, o)
           \/ p.sendFailed /\ p.discFailed /\ CancelPendingTasks(h) /\ Erase(h)
    PROVE  Signalled(h, p.sendFailed, p.discFailed, o)
  <1>1. CASE ~(p.sendFailed /\ p.discFailed) /\ StartSignalTimeout(h, p)
    BY <1>1 DEF StartSignalTimeout, Signalled, Waits, PolicyTypes
  <1>2. CASE NeedRetry(p) /\ ScheduleRetryWithReset(h, p, o)
    <2> DEFINE q == [NewPolicy EXCEPT !.count = p.count + 1]
    <2>1. p.count + 1 \in 0 .. MaxRetryCount
      BY <1>2 DEF NeedRetry, Policies
    <2>2. /\ q \in Policies /\ q.count = p.count + 1
          /\ q.present /\ ~q.sendFailed /\ ~q.discFailed
      <3> DEFINE n == p.count + 1
      <3>1. n \in 0 .. MaxRetryCount /\ NewPolicy \in Policies
        BY <2>1, AbsentPolicies
      <3> HIDE DEF n
      <3>2. LET r == [NewPolicy EXCEPT !.count = n] IN
            /\ r \in Policies /\ r.count = n
            /\ (r.present <=> NewPolicy.present) /\ (r.sendFailed <=> NewPolicy.sendFailed)
            /\ (r.discFailed <=> NewPolicy.discFailed)
        BY <3>1, PolicyFields, Zenon
      <3> QED BY <3>2, AbsentPolicies, Zenon DEF n
    <2>3. /\ policy' = [policy EXCEPT ![h] = q] /\ retryTask' = [retryTask EXCEPT ![h] = o]
          /\ timeoutTask' = "none"
      BY <1>2 DEF ScheduleRetryWithReset
    <2> HIDE DEF q
    <2> QED BY <1>2, <2>2, <2>3 DEF Signalled, WillRetry, PolicyTypes, NeedRetry
  <1>3. CASE p.sendFailed /\ p.discFailed /\ CancelPendingTasks(h) /\ Erase(h)
    BY <1>3, Erased DEF Signalled, GivesUp
  <1> QED BY <1>1, <1>2, <1>3

LEMMA SignalledTypes ==
    ASSUME PolicyTypes, NEW h \in Handlers, NEW s, NEW d, NEW o, Signalled(h, s, d, o),
           d => o # NoConn
    PROVE  PolicyTypes'
  BY AbsentPolicies DEF PolicyTypes, Signalled, Waits, WillRetry, GivesUp

LEMMA EnsuredPolicy ==
    ASSUME PolicyTypes, NEW h \in Handlers
    PROVE  /\ Ensured(h) \in Policies /\ Ensured(h).present
           /\ Ensured(h).count = policy[h].count
           /\ Ensured(h).sendFailed = policy[h].sendFailed
           /\ Ensured(h).discFailed = policy[h].discFailed
           /\ Ensured(h).discFailed => Ensured(h).orig = policy[h].orig
  <1>1. policy[h] \in Policies
    BY DEF PolicyTypes
  <1>2. CASE policy[h].present
    <2>1. Ensured(h) = policy[h]
      BY <1>2 DEF Ensured
    <2> QED BY <1>1, <1>2, <2>1, Zenon
  <1>3. CASE ~policy[h].present
    <2>1. Ensured(h) = NewPolicy /\ policy[h] = Absent
      BY <1>3 DEF PolicyTypes, Ensured
    <2>2. /\ NewPolicy.sendFailed = Absent.sendFailed /\ NewPolicy.discFailed = Absent.discFailed
          /\ ~NewPolicy.discFailed /\ NewPolicy.count = Absent.count
          /\ NewPolicy \in Policies /\ NewPolicy.present
      BY AbsentPolicies
    <2> QED BY <2>1, <2>2, Zenon
  <1> QED BY <1>2, <1>3

LEMMA SendRequestFailed ==
    ASSUME PolicyTypes, NEW h \in Handlers, HandleSendRequestFailed(h)
    PROVE  Signalled(h, TRUE, policy[h].discFailed, policy[h].orig) /\ PolicyTypes'
  <1> DEFINE p == [Ensured(h) EXCEPT !.sendFailed = TRUE]
  <1>1. /\ p \in Policies /\ p.sendFailed /\ p.present /\ p.count = policy[h].count
        /\ p.discFailed = policy[h].discFailed
        /\ p.discFailed => p.orig = policy[h].orig
    <2>1. /\ p \in Policies /\ p.sendFailed /\ (p.present <=> Ensured(h).present)
          /\ p.discFailed = Ensured(h).discFailed
          /\ p.count = Ensured(h).count /\ p.orig = Ensured(h).orig
      BY EnsuredPolicy, PolicyFields, Zenon
    <2>2. p.discFailed = policy[h].discFailed /\ p.count = policy[h].count
      BY <2>1, EnsuredPolicy, Zenon
    <2> QED BY <2>1, <2>2, EnsuredPolicy
  <1>2. policy[h].orig \in {NoConn} \cup Connections
    BY DEF PolicyTypes, Policies
  <1>3. \/ ~p.discFailed /\ StartSignalTimeout(h, p)
        \/ NeedRetry(p) /\ ScheduleRetryWithReset(h, p, p.orig)
        \/ p.discFailed /\ CancelPendingTasks(h) /\ Erase(h)
    BY DEF HandleSendRequestFailed
  <1> HIDE DEF p
  <1>4. Signalled(h, p.sendFailed, p.discFailed, policy[h].orig)
    <2> DEFINE o == policy[h].orig
    <2>1. \/ ~p.discFailed /\ StartSignalTimeout(h, p)
          \/ NeedRetry(p) /\ ScheduleRetryWithReset(h, p, o)
          \/ p.discFailed /\ CancelPendingTasks(h) /\ Erase(h)
      BY <1>1, <1>3 DEF NeedRetry
    <2>2. o \in {NoConn} \cup Connections /\ (p.discFailed => p.orig = o)
      BY <1>1, <1>2
    <2> HIDE DEF o
    <2>3. Signalled(h, p.sendFailed, p.discFailed, o)
      BY <1>1, <2>1, <2>2, SignalOutcomes
    <2> QED BY <2>3 DEF o
  <1>5. PolicyTypes'
    <2>1. p.discFailed => policy[h].orig # NoConn
      BY <1>1 DEF PolicyTypes
    <2> QED BY <1>4, <2>1, SignalledTypes
  <1>6. p.sendFailed = TRUE
    BY <1>1 DEF Policies
  <1> QED BY <1>1, <1>4, <1>5, <1>6

LEMMA DisconnectError ==
    ASSUME PolicyTypes, NEW h \in Handlers, NEW c \in Connections, HandleDisconnectError(h, c)
    PROVE  Signalled(h, policy[h].sendFailed, TRUE, c) /\ PolicyTypes'
  <1> DEFINE p == [Ensured(h) EXCEPT !.discFailed = TRUE, !.orig = c]
  <1>1. /\ p \in Policies /\ p.discFailed /\ p.present /\ p.count = policy[h].count /\ p.orig = c
        /\ p.sendFailed = policy[h].sendFailed
    <2>1. PICK e : e = Ensured(h)
      OBVIOUS
    <2>2. /\ e \in Policies /\ e.present /\ e.count = policy[h].count
          /\ e.sendFailed = policy[h].sendFailed
      BY <2>1, EnsuredPolicy, Zenon
    <2>3. PICK q : q = [e EXCEPT !.discFailed = TRUE, !.orig = c]
      OBVIOUS
    <2>4. /\ q \in Policies /\ q.discFailed /\ q.orig = c
          /\ (q.present <=> e.present) /\ q.sendFailed = e.sendFailed /\ q.count = e.count
      BY <2>2, <2>3 DEF Policies
    <2>5. p = q
      BY <2>1, <2>3, Zenon
    <2> HIDE DEF p
    <2> QED BY <2>2, <2>4, <2>5
  <1>2. \/ ~p.sendFailed /\ StartSignalTimeout(h, p)
        \/ NeedRetry(p) /\ ScheduleRetryWithReset(h, p, c)
        \/ p.sendFailed /\ CancelPendingTasks(h) /\ Erase(h)
    BY DEF HandleDisconnectError
  <1> HIDE DEF p
  <1>3. Signalled(h, p.sendFailed, p.discFailed, c)
    BY <1>1, <1>2, SignalOutcomes
  <1>4. PolicyTypes'
    <2>1. c # NoConn
      OBVIOUS
    <2> QED BY <1>3, <2>1, SignalledTypes
  <1>5. p.discFailed = TRUE
    BY <1>1 DEF Policies
  <1> QED BY <1>1, <1>3, <1>4, <1>5

\* A connection goes on: its state and its send, and what it was made for.
Becomes(c, state, send, kind, request, retry) ==
    /\ conn' \in [Connections -> Conns]
    /\ \A d \in Connections \ {c} : conn'[d] = conn[d]
    /\ conn'[c].state = state /\ conn'[c].send = send
    /\ conn'[c].kind = kind /\ conn'[c].request = request /\ conn'[c].retry = retry
Moves(c, state, send) ==
    Becomes(c, state, send, conn[c].kind, conn[c].request, conn[c].retry)

LEMMA StateMoves ==
    ASSUME conn \in [Connections -> Conns], NEW c \in Connections, NEW state \in States,
           conn' = [conn EXCEPT ![c].state = state]
    PROVE  Moves(c, state, conn[c].send)
  BY DEF Moves, Becomes, Conns

LEMMA SendMoves ==
    ASSUME conn \in [Connections -> Conns], NEW c \in Connections, NEW send \in Sends,
           conn' = [conn EXCEPT ![c].send = send]
    PROVE  Moves(c, conn[c].state, send)
  BY DEF Moves, Becomes, Conns

LEMMA BothMove ==
    ASSUME conn \in [Connections -> Conns], NEW c \in Connections, NEW state \in States,
           NEW send \in Sends, conn' = [conn EXCEPT ![c].state = state, ![c].send = send]
    PROVE  Moves(c, state, send)
  BY DEF Moves, Becomes, Conns

LEMMA RequestMoves ==
    ASSUME conn \in [Connections -> Conns], NEW c \in Connections, NEW state \in States,
           NEW kind \in {"refresh", "message", "recreate", "acquire"}, NEW n \in Nat,
           conn' = [conn EXCEPT ![c] = [@ EXCEPT !.state = state, !.kind = kind, !.request = n]]
    PROVE  Becomes(c, state, conn[c].send, kind, n, conn[c].retry)
  BY DEF Becomes, Conns

LEMMA RetryMoves ==
    ASSUME conn \in [Connections -> Conns], NEW c \in Connections, NEW state \in States,
           NEW kind \in {"refresh", "message", "recreate", "acquire"}, NEW n \in Nat, NEW m \in Nat,
           conn' = [conn EXCEPT ![c] = [@ EXCEPT !.state = state, !.kind = kind,
                                                 !.request = n, !.retry = m]]
    PROVE  Becomes(c, state, conn[c].send, kind, n, m)
  BY DEF Becomes, Conns

LEMMA StepMoves ==
    ASSUME Base, NEW c \in Connections
    PROVE  /\ Connect(c) =>
                /\ conn[c].state = "clearing"
                /\ \E state \in {"connecting", "gone"} : Moves(c, state, conn[c].send)
           /\ OnAbilityConnectDone(c) =>
                /\ conn[c].state = "connecting"
                /\ Moves(c, "connected", IF conn[c].kind = "message" THEN "sent" ELSE "posted")
           /\ SendSucceeds(c) => conn[c].send = "posted" /\ Moves(c, conn[c].state, "clearing")
           /\ SentErases(c) => conn[c].send = "clearing" /\ Moves(c, conn[c].state, "sent")
           /\ SendFails(c) => conn[c].send = "posted" /\ Moves(c, conn[c].state, "failed")
           /\ SendFindsDead(c) => conn[c].send = "posted" /\ Moves(c, conn[c].state, "dead")
           /\ OnAbilityDisconnectDone(c) =>
                conn[c].state \in {"connecting", "connected"} /\ Moves(c, "gone", conn[c].send)
           /\ \A kind \in Kinds : Request(c, kind) =>
                conn[c].state = "free" /\ Becomes(c, "clearing", "none", kind, requests + 1, 0)
  <1>1. conn \in [Connections -> Conns]
    BY DEF Base, ConnTypes
  <1>2. {"connecting", "gone", "connected", "clearing"} \subseteq States
        /\ {"sent", "posted", "clearing", "failed", "dead"} \subseteq Sends
    BY DEF States, Sends
  <1>3. Connect(c) => \E state \in {"connecting", "gone"} : Moves(c, state, conn[c].send)
    BY <1>1, <1>2, StateMoves DEF Connect
  <1>4. OnAbilityConnectDone(c) =>
           Moves(c, "connected", IF conn[c].kind = "message" THEN "sent" ELSE "posted")
    <2> DEFINE send == IF conn[c].kind = "message" THEN "sent" ELSE "posted"
    <2> SUFFICES ASSUME OnAbilityConnectDone(c) PROVE Moves(c, "connected", send)
      OBVIOUS
    <2>1. send \in Sends /\ conn' = [conn EXCEPT ![c].state = "connected", ![c].send = send]
      BY <1>2 DEF OnAbilityConnectDone
    <2> HIDE DEF send
    <2> QED BY <1>1, <1>2, <2>1, BothMove
  <1>5. /\ SendSucceeds(c) => Moves(c, conn[c].state, "clearing")
        /\ SentErases(c) => Moves(c, conn[c].state, "sent")
        /\ SendFails(c) => Moves(c, conn[c].state, "failed")
        /\ SendFindsDead(c) => Moves(c, conn[c].state, "dead")
    BY <1>1, <1>2, SendMoves DEF SendSucceeds, SentErases, SendFails, SendFindsDead
  <1>6. OnAbilityDisconnectDone(c) => Moves(c, "gone", conn[c].send)
    BY <1>1, <1>2, StateMoves DEF OnAbilityDisconnectDone
  <1>7. ASSUME NEW kind \in Kinds, Request(c, kind)
        PROVE  Becomes(c, "clearing", "none", kind, requests + 1, 0)
    <2>1. conn[c].send = "none" /\ conn[c].retry = 0
      BY <1>7 DEF Request, IsNextFree, Base, ConnTypes, ConnectionShape
    <2>2. requests + 1 \in Nat /\ kind \in {"refresh", "message", "recreate", "acquire"}
      BY DEF Base, RestTypes
    <2> QED BY <1>1, <1>2, <1>7, <2>1, <2>2, RequestMoves DEF Request
  <1>8. /\ Connect(c) => conn[c].state = "clearing"
        /\ OnAbilityConnectDone(c) => conn[c].state = "connecting"
        /\ SendSucceeds(c) \/ SendFails(c) \/ SendFindsDead(c) => conn[c].send = "posted"
        /\ SentErases(c) => conn[c].send = "clearing"
        /\ OnAbilityDisconnectDone(c) => conn[c].state \in {"connecting", "connected"}
        /\ \A kind \in Kinds : Request(c, kind) => conn[c].state = "free"
    BY DEF Connect, OnAbilityConnectDone, SendSucceeds, SentErases, SendFails, SendFindsDead,
           OnAbilityDisconnectDone, Request, IsNextFree
  <1> QED BY <1>3, <1>4, <1>5, <1>6, <1>7, <1>8

\* A retry opens a connection for the request of the one that was lost.
LEMMA RetryOpens ==
    ASSUME Base, NEW h \in Handlers, RetryConnects(h), running.task = "retry"
    PROVE  /\ running.orig \in Connections
           /\ \E c \in Connections : LET orig == conn[running.orig] IN
                /\ conn[c].state = "free"
                /\ Becomes(c, "connecting", "none", orig.kind, orig.request, orig.retry + 1)
  <1>1. conn \in [Connections -> Conns] /\ running.orig \in Connections
    BY DEF Base, ConnTypes, RunTypes
  <1> DEFINE orig == conn[running.orig]
  <1>2. /\ orig.kind \in {"refresh", "message", "recreate", "acquire"}
        /\ orig.request \in Nat /\ orig.retry + 1 \in Nat /\ "connecting" \in States
    <2>1. orig \in Conns
      BY <1>1, Zenon
    <2> HIDE DEF orig
    <2>2. /\ orig.kind \in {"refresh", "message", "recreate", "acquire"}
          /\ orig.request \in Nat /\ orig.retry \in Nat
      BY <2>1 DEF Conns
    <2> QED BY <2>2 DEF States
  <1>3. PICK c \in Connections :
           /\ IsNextFree(c)
           /\ conn' = [conn EXCEPT ![c] = [@ EXCEPT !.state = "connecting", !.kind = orig.kind,
                                      !.request = orig.request, !.retry = orig.retry + 1]]
    BY DEF RetryConnects
  <1> HIDE DEF orig
  <1>4. Becomes(c, "connecting", conn[c].send, orig.kind, orig.request, orig.retry + 1)
    BY <1>1, <1>2, <1>3, RetryMoves
  <1>5. conn[c].state = "free" /\ conn[c].send = "none"
    BY <1>3 DEF IsNextFree, Base, ConnTypes, ConnectionShape
  <1> QED BY <1>1, <1>4, <1>5 DEF orig

LEMMA ShapeKept ==
    ASSUME ConnTypes, NEW c \in Connections, NEW state, NEW send, NEW kind, NEW n, NEW m,
           Becomes(c, state, send, kind, n, m),
           /\ state # "free" /\ kind \in Kinds \cup {"refresh"}
           /\ state \in {"clearing", "connecting"} => send = "none"
           /\ state = "clearing" => m = 0
           /\ state = "connected" => send # "none"
           /\ send \notin {"none", "sent"} => kind # "message"
    PROVE  ConnTypes'
  BY DEF ConnTypes, Becomes, ConnectionShape

LEMMA StepKeepsBase ==
    ASSUME Base, NEW c \in Connections, Step(c)
    PROVE  Base'
  <1> USE DEF Base
  <1>1. \A kind : Clears(kind) \in Handlers /\ SendHandler(kind) \in Handlers
    BY HandlersOfKinds
  <1>2. ConnTypes'
    <2>1. ConnectionShape(c) /\ ConnTypes
          /\ conn[c].send \in Sends
      BY DEF ConnTypes, ConnectionShape, Conns
    <2>2. CASE Connect(c)
      BY <2>1, <2>2, StepMoves, ShapeKept DEF Moves, ConnectionShape
    <2>3. CASE OnAbilityConnectDone(c)
      <3> DEFINE send == IF conn[c].kind = "message" THEN "sent" ELSE "posted"
      <3>1. send # "none" /\ (send \notin {"none", "sent"} => conn[c].kind # "message")
        OBVIOUS
      <3>2. Moves(c, "connected", send)
        BY <2>3, StepMoves
      <3> HIDE DEF send
      <3> QED BY <2>1, <3>1, <3>2, ShapeKept DEF Moves, ConnectionShape
    <2>4. CASE SendSucceeds(c) \/ SendFails(c) \/ SendFindsDead(c)
      <3>1. conn[c].send = "posted"
            /\ \E send \in {"clearing", "failed", "dead"} : Moves(c, conn[c].state, send)
        BY <2>4, StepMoves
      <3> QED BY <2>1, <3>1, ShapeKept DEF Moves, ConnectionShape
    <2>5. CASE SentErases(c)
      <3>1. conn[c].send = "clearing" /\ Moves(c, conn[c].state, "sent")
        BY <2>5, StepMoves
      <3> QED BY <2>1, <3>1, ShapeKept DEF Moves, ConnectionShape
    <2>6. CASE OnAbilityDisconnectDone(c)
      <3>1. Moves(c, "gone", conn[c].send)
        BY <2>6, StepMoves
      <3> QED BY <2>1, <3>1, ShapeKept DEF Moves, ConnectionShape
    <2> QED BY <2>2, <2>3, <2>4, <2>5, <2>6 DEF Step
  <1>3. PolicyTypes'
    <2> DEFINE h == Clears(conn[c].kind)
               g == SendHandler(conn[c].kind)
    <2>1. h \in Handlers /\ g \in Handlers
      BY <1>1
    <2> HIDE DEF h, g
    <2>2. CASE Connect(c)
      <3>1. Erase(h) /\ UNCHANGED <<retryTask, timeoutTask>>
        BY <2>2 DEF Connect, h
      <3> QED BY <2>1, <3>1, Erased, AbsentPolicies DEF PolicyTypes
    <2>3. CASE OnAbilityConnectDone(c) \/ SendFails(c)
      BY <2>3 DEF OnAbilityConnectDone, SendFails, PolicyTypes
    <2>4. CASE SendSucceeds(c)
      <3>1. CancelPendingTasks(g) /\ UNCHANGED policy
        BY <2>4 DEF SendSucceeds, g
      <3> QED BY <2>1, <3>1, Erased DEF PolicyTypes
    <2>5. CASE SentErases(c)
      <3>1. Erase(g) /\ UNCHANGED <<retryTask, timeoutTask>>
        BY <2>5 DEF SentErases, g
      <3> QED BY <2>1, <3>1, Erased, AbsentPolicies DEF PolicyTypes
    <2>6. CASE SendFindsDead(c)
      <3>1. HandleSendRequestFailed(g)
        BY <2>6 DEF SendFindsDead, g
      <3> QED BY <2>1, <3>1, SendRequestFailed
    <2>7. CASE OnAbilityDisconnectDone(c)
      <3>1. HandleDisconnectError(h, c) \/ UNCHANGED <<policy, retryTask, timeoutTask>>
        BY <2>7 DEF OnAbilityDisconnectDone, h
      <3>2. CASE HandleDisconnectError(h, c)
        BY <2>1, <3>2, DisconnectError
      <3> QED BY <3>1, <3>2 DEF PolicyTypes
    <2> QED BY <2>2, <2>3, <2>4, <2>5, <2>6, <2>7 DEF Step
  <1>4. RunTypes' /\ RestTypes'
    <2>1. UNCHANGED <<running, formExists, deleting, requests>>
      BY DEF Step, Connect, OnAbilityConnectDone, SendSucceeds, SentErases, SendFails,
             SendFindsDead, OnAbilityDisconnectDone
    <2>2. latest' \in [Handlers -> Nat]
      <3>1. conn[c].request \in Nat
        BY DEF ConnTypes, Conns
      <3>2. UNCHANGED latest \/ latest' = [latest EXCEPT ![Clears(conn[c].kind)] = conn[c].request]
        BY DEF Step, Connect, OnAbilityConnectDone, SendSucceeds, SentErases, SendFails,
               SendFindsDead, OnAbilityDisconnectDone
      <3> QED BY <1>1, <3>1, <3>2 DEF RestTypes
    <2> QED BY <2>1, <2>2 DEF RunTypes, RestTypes
  <1> QED BY <1>2, <1>3, <1>4

LEMMA InitBase == Init => Base
  BY AbsentPolicies DEF Init, Base, PolicyTypes, ConnTypes, Conns, States, Sends, ConnectionShape,
                        RunTypes, RestTypes, Idle

LEMMA BaseAfter == PolicyTypes' /\ ConnTypes' /\ RunTypes' /\ RestTypes' => Base'
  BY Zenon DEF Base

\* The tasks of FormMgrQueue.
LEMMA TasksKeepBase ==
    ASSUME Base, TakeTimeout \/ OnSignalTimeout \/ (\E h \in Handlers : TakeRetry(h)) \/ ExecuteRetry
    PROVE  Base'
  <1> USE DEF Base
  <1>1. RestTypes'
    BY DEF RestTypes, TakeTimeout, OnSignalTimeout, TakeRetry, ExecuteRetry
  <1>2. running.handler \in Handlers /\ Idle.task = "none" /\ Idle \in
           [task : {"none", "timeout", "retry"}, handler : Handlers,
            orig : {NoConn} \cup Connections, exists : BOOLEAN]
    BY DEF RunTypes, Idle
  <1>3. CASE TakeTimeout
    <2>1. RunTypes'
      <3>1. timeoutTask \in Handlers
        BY <1>3 DEF TakeTimeout, PolicyTypes
      <3>2. running' = [task |-> "timeout", handler |-> timeoutTask, orig |-> NoConn, exists |-> FALSE]
        BY <1>3 DEF TakeTimeout, Idle
      <3> QED BY <3>1, <3>2 DEF RunTypes
    <2> QED BY <1>1, <1>3, <2>1 DEF TakeTimeout, PolicyTypes, ConnTypes, ConnectionShape
  <1>4. CASE OnSignalTimeout
    <2>1. RunTypes' /\ ConnTypes'
      BY <1>2, <1>4 DEF OnSignalTimeout, RunTypes, ConnTypes, ConnectionShape
    <2>2. Erase(running.handler) \/ UNCHANGED policy
      BY <1>4 DEF OnSignalTimeout
    <2>3. UNCHANGED <<retryTask, timeoutTask>>
      BY <1>4 DEF OnSignalTimeout
    <2>4. PolicyTypes'
      <3>1. CASE Erase(running.handler)
        BY <1>2, <2>3, <3>1, Erased, AbsentPolicies DEF PolicyTypes
      <3> QED BY <2>2, <2>3, <3>1 DEF PolicyTypes
    <2> QED BY <1>1, <2>1, <2>4
  <1>5. ASSUME NEW h \in Handlers, TakeRetry(h) PROVE Base'
    <2>1. RunTypes'
      <3> DEFINE o == retryTask[h]
      <3>1. o \in Connections /\ formExists \in BOOLEAN
        BY <1>5 DEF TakeRetry, PolicyTypes, RestTypes
      <3>2. running' = [task |-> "retry", handler |-> h, orig |-> o, exists |-> formExists]
        BY <1>5 DEF TakeRetry
      <3> HIDE DEF o
      <3> QED BY <3>1, <3>2 DEF RunTypes
    <2>2. PolicyTypes'
      BY <1>5, RetryTaken, Zenon
    <2> QED BY <1>1, <1>5, <2>1, <2>2 DEF TakeRetry, ConnTypes, ConnectionShape
  <1>6. CASE ExecuteRetry
    <2> DEFINE h == running.handler
    <2>1. /\ h \in Handlers /\ running' = Idle
          /\ \/ CancelPendingTasks(h) /\ Erase(h) /\ UNCHANGED conn
             \/ UNCHANGED <<policy, retryTask, timeoutTask>> /\ (RetryConnects(h) \/ UNCHANGED conn)
      <3>1. /\ running' = Idle
            /\ RetryDropped(h) \/ RetryConnects(h) \/ RetryRefused(h)
        BY <1>6, Zenon DEF ExecuteRetry
      <3>2. RetryDropped(h) => \/ CancelPendingTasks(h) /\ Erase(h) /\ UNCHANGED conn
                               \/ UNCHANGED <<policy, retryTask, timeoutTask>> /\ UNCHANGED conn
        BY Zenon DEF RetryDropped
      <3>3. RetryConnects(h) => UNCHANGED <<policy, retryTask, timeoutTask>>
        BY Zenon DEF RetryConnects
      <3>4. RetryRefused(h) => CancelPendingTasks(h) /\ Erase(h) /\ UNCHANGED conn
        BY Zenon DEF RetryRefused
      <3> QED BY <1>2, <3>1, <3>2, <3>3, <3>4, Zenon
    <2>2. RunTypes'
      BY <1>2, <2>1 DEF RunTypes
    <2>3. PolicyTypes'
      <3>1. CASE CancelPendingTasks(h) /\ Erase(h)
        BY <2>1, <3>1, Erased, AbsentPolicies DEF PolicyTypes
      <3>2. CASE UNCHANGED <<policy, retryTask, timeoutTask>>
        BY <3>2 DEF PolicyTypes
      <3> QED BY <2>1, <3>1, <3>2
    <2>4. ConnTypes'
      <3>1. CASE RetryConnects(h)
        <4>1. conn[running.orig].kind \in Kinds \cup {"refresh"}
          <5>1. running.task = "retry" /\ running.orig \in Connections
            BY <1>6 DEF ExecuteRetry, RunTypes
          <5> QED BY <5>1 DEF ConnTypes, ConnectionShape, Conns
        <4> QED BY <1>6, <2>1, <3>1, <4>1, RetryOpens, ShapeKept DEF ExecuteRetry
      <3>2. CASE UNCHANGED conn
        BY <3>2 DEF ConnTypes, ConnectionShape
      <3> QED BY <2>1, <3>1, <3>2
    <2> QED BY <1>1, <2>2, <2>3, <2>4, BaseAfter, Zenon
  <1> QED BY <1>3, <1>4, <1>5, <1>6

LEMMA OthersKeepBase ==
    ASSUME Base,
           \/ \E c \in Connections, kind \in Kinds : Request(c, kind)
           \/ DeleteFormRecord \/ RemoveRetryPolicies
    PROVE  Base'
  <1> USE DEF Base
  <1>1. ASSUME NEW c \in Connections, NEW kind \in Kinds, Request(c, kind) PROVE Base'
    <2> DEFINE h == Clears(kind)
    <2>1. h \in Handlers
      BY HandlersOfKinds
    <2> HIDE DEF h
    <2>2. CancelPendingTasks(h) /\ UNCHANGED <<policy, running, formExists, deleting, latest>>
          /\ requests' \in 0 .. MaxRequests
      <3>1. requests + 1 \in 0 .. MaxRequests /\ requests' = requests + 1
        <4>1. requests < MaxRequests /\ requests' = requests + 1 /\ requests \in 0 .. MaxRequests
          BY <1>1, Zenon DEF Request, RestTypes
        <4> QED BY <4>1
      <3> QED BY <1>1, <3>1 DEF Request, h
    <2>3. PolicyTypes'
      BY <2>1, <2>2, Erased DEF PolicyTypes
    <2>4. ConnTypes'
      BY <1>1, StepMoves, ShapeKept
    <2> QED BY <2>2, <2>3, <2>4 DEF RunTypes, RestTypes
  <1>2. CASE DeleteFormRecord
    BY <1>2 DEF DeleteFormRecord, PolicyTypes, ConnTypes, ConnectionShape, RunTypes, RestTypes
  <1>3. CASE RemoveRetryPolicies
    <2>1. \E h \in Handlers : \/ CancelPendingTasks(h) /\ UNCHANGED policy
                              \/ Erase(h) /\ UNCHANGED <<retryTask, timeoutTask>>
      BY <1>3 DEF RemoveRetryPolicies
    <2>2. PolicyTypes'
      BY <2>1, Erased, AbsentPolicies DEF PolicyTypes
    <2> QED BY <1>3, <2>2
            DEF RemoveRetryPolicies, ConnTypes, ConnectionShape, RunTypes, RestTypes
  <1> QED BY <1>1, <1>2, <1>3

LEMMA NextBase == Base /\ [Next]_vars => Base'
  <1>1. Base /\ Next => Base'
    BY StepKeepsBase, TasksKeepBase, OthersKeepBase DEF Next
  <1>2. Base /\ UNCHANGED vars => Base'
    BY DEF vars, Base, PolicyTypes, ConnTypes, ConnectionShape, RunTypes, RestTypes
  <1> QED BY <1>1, <1>2

\* Every variable keeps its type, for every limit on the retries and every
\* number of connections, requests at once included.
THEOREM RetryIsTyped == Spec => []TypeOK
  BY InitBase, NextBase, BaseIsTyped, PTL DEF Spec

--------------------------------------------------------------------------------
(* The inductive invariant, when a request is made only after the last one *)
(* is over and both its signals go to one handler.                         *)

OneHandlerAtATime == OneAtATime = TRUE /\ "recreate" \notin Kinds

\* The connection may still do something; the handler has a retry to carry out.
Open(c) == conn[c].state \notin {"free", "gone"} \/ conn[c].send \in {"posted", "clearing"}
HandlerOf(c) == Clears(conn[c].kind)
Retrying(h) == retryTask[h] # NoConn \/ (running.task = "retry" /\ running.handler = h)

\* Either one connection is open, or one handler has one retry to carry out;
\* only the handler of the open connection waits for a signal.
OneUnderWay ==
    /\ \A c, d \in Connections : Open(c) /\ Open(d) => c = d
    /\ \A h \in Handlers : Retrying(h) =>
         /\ \A c \in Connections : ~Open(c)
         /\ \A g \in Handlers : ~Partial(g) /\ (g # h => ~Retrying(g))
    /\ running.task = "retry" => \A h \in Handlers : retryTask[h] = NoConn
    /\ \A c \in Connections, h \in Handlers : Open(c) /\ h # HandlerOf(c) => ~Partial(h)
    /\ \A g, h \in Handlers : Partial(g) /\ Partial(h) => g = h

\* The signals the handler has seen are those of the open connection, and it
\* counts the retries that led there for as long as both may still arrive.
SignalsOf(c) ==
    LET p == policy[HandlerOf(c)] IN
    Open(c) /\ conn[c].state # "clearing" =>
      /\ conn[c].request = latest[HandlerOf(c)]
      /\ p.sendFailed => conn[c].send = "dead" /\ conn[c].state = "connected"
      /\ p.discFailed => conn[c].state = "gone" /\ p.orig = c
      /\ formExists /\ \/ conn[c].send \in {"none", "posted"} /\ conn[c].state # "gone"
                       \/ p.sendFailed
                       \/ p.discFailed /\ conn[c].send = "posted"
         => conn[c].retry <= p.count

\* The last connection of the newest request is lost and its send failed.
Died(h, c) ==
    /\ c # NoConn /\ conn[c].state = "gone" /\ conn[c].send = "dead"
    /\ HandlerOf(c) = h /\ conn[c].request = latest[h]

\* A retry, scheduled or taken up, is of such a connection; the deletion of
\* the form takes away the policy of a retry that saw the record.
RetryIsDue ==
    /\ \A h \in Handlers : retryTask[h] # NoConn =>
         /\ Died(h, retryTask[h])
         /\ formExists => policy[h].present /\ conn[retryTask[h]].retry < policy[h].count
    /\ running.task = "retry" =>
         /\ Died(running.handler, running.orig)
         /\ running.exists /\ policy[running.handler].present =>
              /\ conn[running.orig].retry < policy[running.handler].count
              /\ deleting # "done"
              /\ running.handler = "refresh" => deleting \in {"no", "refreshTasks", "refreshPolicy"}
    /\ formExists <=> deleting = "no"

IInv ==
    /\ Base /\ OneUnderWay /\ (\A c \in Connections : SignalsOf(c)) /\ RetryIsDue
    /\ PartialIsTimed /\ RetriesBounded

\* The handler of a connection hears of its send, too.
LEMMA OneHandler ==
    ASSUME OneHandlerAtATime, Base, NEW c \in Connections
    PROVE  /\ HandlerOf(c) \in Handlers
           /\ conn[c].send \notin {"none", "sent"} => SendHandler(conn[c].kind) = HandlerOf(c)
  BY HandlersOfKinds
  DEF OneHandlerAtATime, Base, ConnTypes, ConnectionShape, HandlerOf, Clears, SendHandler, Conns

LEMMA PartialSignals ==
    ASSUME NEW h \in Handlers
    PROVE  /\ Base => (Partial(h) <=> ~(policy[h].sendFailed <=> policy[h].discFailed))
           /\ Base' => (Partial(h)' <=> ~(policy'[h].sendFailed <=> policy'[h].discFailed))
  BY DEF Base, PolicyTypes, Policies, Partial

LEMMA OpenIsAlone ==
    ASSUME IInv, NEW c \in Connections, Open(c)
    PROVE  /\ \A d \in Connections \ {c} : ~Open(d)
           /\ \A h \in Handlers : retryTask[h] = NoConn
           /\ running.task # "retry"
           /\ \A h \in Handlers \ {HandlerOf(c)} : ~Partial(h)
  BY DEF IInv, OneUnderWay, Retrying, Base, RunTypes

\* One step of the open connection: it must leave the signals right, the
\* fallback timeout on its way, and a retry only of a connection that died.
Leaves(h, c, state, send) ==
    \/ retryTask'[h] = NoConn
    \/ /\ retryTask'[h] = c /\ state = "gone" /\ send = "dead"
       /\ ~policy'[h].sendFailed /\ ~policy'[h].discFailed /\ latest'[h] = conn[c].request
       /\ formExists => policy'[h].present /\ conn[c].retry < policy'[h].count

LEMMA OpenMoves ==
    ASSUME IInv, Base', NEW c \in Connections, Open(c), NEW state, NEW send, NEW h,
           h = HandlerOf(c), Moves(c, state, send), Leaves(h, c, state, send),
           UNCHANGED <<running, formExists, deleting>>,
           \A g \in Handlers \ {h} : policy'[g] = policy[g] /\ retryTask'[g] = retryTask[g],
           SignalsOf(c)', PartialIsTimed'
    PROVE  IInv'
  <1>1. /\ \A d \in Connections \ {c} : ~Open(d) /\ conn'[d] = conn[d]
        /\ \A g \in Handlers : retryTask[g] = NoConn
        /\ running.task # "retry"
        /\ \A g \in Handlers \ {h} : ~Partial(g)
    BY OpenIsAlone DEF Moves, Becomes
  <1>2. /\ conn'[c].state = state /\ conn'[c].send = send /\ conn'[c].kind = conn[c].kind
        /\ conn'[c].request = conn[c].request /\ conn'[c].retry = conn[c].retry
    BY DEF Moves, Becomes
  <1>3. /\ \A d \in Connections \ {c} : ~Open(d)'
        /\ \A g \in Handlers \ {h} : ~Partial(g)' /\ retryTask'[g] = NoConn
        /\ HandlerOf(c)' = h /\ running'.task # "retry"
    BY <1>1, <1>2 DEF Open, Partial, HandlerOf
  <1>4. retryTask'[h] # NoConn => retryTask'[h] = c /\ ~Open(c)' /\ ~Partial(h)'
    <2>1. h \in Handlers
      BY HandlersOfKinds DEF HandlerOf
    <2> QED BY <1>2, <2>1, PartialSignals DEF Leaves, Open
  <1>5. OneUnderWay'
    BY <1>3, <1>4 DEF OneUnderWay, Retrying
  <1>6. \A d \in Connections : SignalsOf(d)'
    BY <1>3 DEF SignalsOf
  <1>7. RetryIsDue'
    BY <1>2, <1>3 DEF Leaves, RetryIsDue, Died, IInv
  <1>8. RetriesBounded'
    BY <1>1, <1>2 DEF IInv, RetriesBounded
  <1> QED BY <1>5, <1>6, <1>7, <1>8 DEF IInv

\* What an open connection knows of its handler.
LEMMA OpenKnows ==
    ASSUME OneHandlerAtATime, IInv, NEW c \in Connections, Step(c), NEW h, h = HandlerOf(c)
    PROVE  /\ h \in Handlers /\ Open(c) /\ retryTask[h] = NoConn
           /\ UNCHANGED <<running, formExists, deleting>>
           /\ conn[c].send \in {"posted", "clearing"} => SendHandler(conn[c].kind) = h
           /\ policy \in [Handlers -> Policies] /\ ConnectionShape(c)
           /\ conn[c].state # "clearing" =>
                LET p == policy[h] IN
                /\ conn[c].request = latest[h]
                /\ p.sendFailed => conn[c].send = "dead" /\ conn[c].state = "connected"
                /\ p.discFailed => conn[c].state = "gone" /\ p.orig = c
                /\ formExists /\ \/ conn[c].send \in {"none", "posted"} /\ conn[c].state # "gone"
                                 \/ p.sendFailed
                                 \/ p.discFailed /\ conn[c].send = "posted"
                   => conn[c].retry <= p.count
  <1>1. Open(c) /\ UNCHANGED <<running, formExists, deleting>>
    <2>1. \/ conn[c].state \in {"clearing", "connecting", "connected"}
          \/ conn[c].send \in {"posted", "clearing"}
      BY StepMoves DEF Step, IInv
    <2>2. UNCHANGED <<running, formExists, deleting>>
      BY DEF Step, Connect, OnAbilityConnectDone, SendSucceeds, SentErases, SendFails,
             SendFindsDead, OnAbilityDisconnectDone
    <2> QED BY <2>1, <2>2 DEF Open
  <1>2. SignalsOf(c) /\ Base
    BY DEF IInv
  <1>3. h \in Handlers /\ (conn[c].send \in {"posted", "clearing"} => SendHandler(conn[c].kind) = h)
    BY <1>2, OneHandler
  <1>4. retryTask[h] = NoConn
    BY <1>1, <1>3, OpenIsAlone
  <1>5. policy \in [Handlers -> Policies] /\ ConnectionShape(c)
    BY <1>2 DEF Base, PolicyTypes, ConnTypes
  <1> QED BY <1>1, <1>2, <1>3, <1>4, <1>5 DEF SignalsOf

\* Only the handler of the open connection may wait for a signal after the step.
LEMMA TimedAfter ==
    ASSUME IInv, Base', NEW c \in Connections, Open(c), NEW h, h = HandlerOf(c),
           \A g \in Handlers \ {h} : policy'[g] = policy[g],
           \/ ~Partial(h)' \/ timeoutTask' = h
           \/ conn'[c].state = "clearing" \/ conn'[c].send = "clearing"
    PROVE  PartialIsTimed'
  <1>1. \A g \in Handlers \ {h} : ~Partial(g)'
    BY OpenIsAlone DEF Partial
  <1> QED BY <1>1 DEF PartialIsTimed

\* ... or waits as it did before it.
LEMMA TimedAsBefore ==
    ASSUME IInv, Base', NEW c \in Connections, Open(c), conn[c].state # "clearing",
           conn[c].send = "clearing" => conn'[c].send = "clearing",
           UNCHANGED <<policy, timeoutTask, running, formExists>>
    PROVE  PartialIsTimed'
  <1>1. \A d \in Connections \ {c} : conn[d].state # "clearing" /\ conn[d].send # "clearing"
    BY OpenIsAlone DEF Open
  <1> QED BY <1>1 DEF IInv, PartialIsTimed, Partial

LEMMA ConnectKeeps ==
    ASSUME OneHandlerAtATime, IInv, NEW c \in Connections, Connect(c)
    PROVE  IInv'
  <1>1. PICK h : h = HandlerOf(c)
    OBVIOUS
  <1>2. h \in Handlers /\ Open(c) /\ UNCHANGED <<running, formExists, deleting>> /\ Base'
        /\ retryTask[h] = NoConn /\ ConnectionShape(c)
    BY <1>1, OpenKnows, StepKeepsBase DEF Step, IInv
  <1>3. conn[c].state = "clearing" /\ Erase(h) /\ UNCHANGED <<retryTask, timeoutTask>>
        /\ latest' = [latest EXCEPT ![h] = conn[c].request]
    BY <1>1 DEF Connect, HandlerOf
  <1>4. PICK state \in {"connecting", "gone"} : Moves(c, state, conn[c].send)
    BY StepMoves DEF IInv
  <1>5. policy'[h] = Absent /\ \A g \in Handlers \ {h} : policy'[g] = policy[g]
    BY <1>2, <1>3, Erased DEF IInv, Base
  <1>6. latest'[h] = conn[c].request
    BY <1>2, <1>3 DEF IInv, Base, RestTypes
  <1>7. SignalsOf(c)'
    BY <1>1, <1>2, <1>3, <1>4, <1>5, <1>6, AbsentPolicies
    DEF SignalsOf, Moves, Becomes, HandlerOf, Open, ConnectionShape
  <1>8. ~Partial(h)'
    BY <1>5, AbsentPolicies DEF Partial
  <1>9. PartialIsTimed'
    BY <1>1, <1>2, <1>5, <1>8, TimedAfter
  <1> QED BY <1>1, <1>2, <1>3, <1>4, <1>5, <1>7, <1>9, OpenMoves DEF Leaves

LEMMA OnAbilityConnectDoneKeeps ==
    ASSUME OneHandlerAtATime, IInv, NEW c \in Connections, OnAbilityConnectDone(c)
    PROVE  IInv'
  <1>1. PICK h : h = HandlerOf(c)
    OBVIOUS
  <1>2. h \in Handlers /\ Open(c) /\ UNCHANGED <<running, formExists, deleting>> /\ Base'
        /\ retryTask[h] = NoConn /\ ConnectionShape(c)
    BY <1>1, OpenKnows, StepKeepsBase DEF Step, IInv
  <1>3. UNCHANGED <<policy, retryTask, timeoutTask, latest>>
    BY DEF OnAbilityConnectDone
  <1>4. PICK send \in {"sent", "posted"} :
           conn[c].state = "connecting" /\ Moves(c, "connected", send)
    BY StepMoves DEF IInv
  <1>5. SignalsOf(c)'
    BY <1>1, <1>2, <1>3, <1>4
    DEF IInv, SignalsOf, Moves, Becomes, HandlerOf, Open, ConnectionShape
  <1>6. conn[c].send # "clearing" /\ conn[c].state # "clearing"
    BY <1>2, <1>4 DEF ConnectionShape
  <1>7. PartialIsTimed'
    BY <1>2, <1>3, <1>6, TimedAsBefore
  <1> QED BY <1>1, <1>2, <1>3, <1>4, <1>5, <1>7, OpenMoves DEF Leaves

\* The send succeeds or fails; the handler is told of a success.
LEMMA SendsKeep ==
    ASSUME OneHandlerAtATime, IInv, NEW c \in Connections,
           SendSucceeds(c) \/ SentErases(c) \/ SendFails(c)
    PROVE  IInv'
  <1>1. PICK h : h = HandlerOf(c)
    OBVIOUS
  <1>2. h \in Handlers /\ Open(c) /\ UNCHANGED <<running, formExists, deleting>> /\ Base'
        /\ retryTask[h] = NoConn /\ ConnectionShape(c) /\ PolicyTypes
        /\ (conn[c].send \in {"posted", "clearing"} => SendHandler(conn[c].kind) = h)
    BY <1>1, OpenKnows, StepKeepsBase DEF Step, IInv, Base
  <1>3. conn[c].state \notin {"clearing", "connecting"} /\ conn[c].send \in {"posted", "clearing"}
    BY <1>2, StepMoves DEF ConnectionShape, IInv
  <1>4. latest' = latest
    BY DEF SendSucceeds, SentErases, SendFails
  <1>5. CASE SendSucceeds(c)
    <2>1. UNCHANGED policy /\ CancelPendingTasks(h)
      BY <1>2, <1>3, <1>5 DEF SendSucceeds
    <2>2. conn[c].send = "posted" /\ Moves(c, conn[c].state, "clearing")
      BY <1>5, StepMoves DEF IInv
    <2>3. retryTask'[h] = NoConn /\ \A g \in Handlers \ {h} : retryTask'[g] = retryTask[g]
      BY <1>2, <2>1, Erased
    <2>4. SignalsOf(c)'
      BY <1>1, <1>2, <1>3, <1>4, <2>1, <2>2 DEF IInv, SignalsOf, Moves, Becomes, HandlerOf, Open
    <2>5. conn'[c].send = "clearing"
      BY <2>2 DEF Moves, Becomes
    <2>6. PartialIsTimed'
      BY <1>1, <1>2, <2>1, <2>5, TimedAfter
    <2> QED BY <1>1, <1>2, <2>1, <2>2, <2>3, <2>4, <2>6, OpenMoves DEF Leaves
  <1>6. CASE SentErases(c)
    <2>1. UNCHANGED <<retryTask, timeoutTask>> /\ Erase(h)
      BY <1>2, <1>3, <1>6 DEF SentErases
    <2>2. conn[c].send = "clearing" /\ Moves(c, conn[c].state, "sent")
      BY <1>6, StepMoves DEF IInv
    <2>3. policy'[h] = Absent /\ \A g \in Handlers \ {h} : policy'[g] = policy[g]
      BY <1>2, <2>1, Erased
    <2>4. SignalsOf(c)'
      BY <1>1, <1>2, <1>3, <1>4, <2>2, <2>3, AbsentPolicies
      DEF IInv, SignalsOf, Moves, Becomes, HandlerOf, Open
    <2>5. ~Partial(h)'
      BY <2>3, AbsentPolicies DEF Partial
    <2>6. PartialIsTimed'
      BY <1>1, <1>2, <2>3, <2>5, TimedAfter
    <2> QED BY <1>1, <1>2, <2>1, <2>2, <2>3, <2>4, <2>6, OpenMoves DEF Leaves
  <1>7. CASE SendFails(c)
    <2>1. UNCHANGED <<policy, retryTask, timeoutTask>>
      BY <1>7 DEF SendFails
    <2>2. conn[c].send = "posted" /\ Moves(c, conn[c].state, "failed")
      BY <1>7, StepMoves DEF IInv
    <2>3. SignalsOf(c)'
      BY <1>1, <1>2, <1>3, <1>4, <2>1, <2>2 DEF IInv, SignalsOf, Moves, Becomes, HandlerOf, Open
    <2>4. PartialIsTimed'
      BY <1>2, <1>3, <2>1, <2>2, TimedAsBefore
    <2> QED BY <1>1, <1>2, <2>1, <2>2, <2>3, <2>4, OpenMoves DEF Leaves
  <1> QED BY <1>5, <1>6, <1>7

LEMMA SendFindsDeadKeeps ==
    ASSUME OneHandlerAtATime, IInv, NEW c \in Connections, SendFindsDead(c)
    PROVE  IInv'
  <1>1. PICK h : h = HandlerOf(c)
    OBVIOUS
  <1> DEFINE d == policy[h].discFailed
             o == policy[h].orig
  <1>2. h \in Handlers /\ Open(c) /\ UNCHANGED <<running, formExists, deleting>> /\ Base'
        /\ retryTask[h] = NoConn /\ ConnectionShape(c) /\ PolicyTypes
        /\ (conn[c].send \in {"posted", "clearing"} => SendHandler(conn[c].kind) = h)
    BY <1>1, OpenKnows, StepKeepsBase DEF Step, IInv, Base
  <1>3. conn[c].send = "posted" /\ Moves(c, conn[c].state, "dead")
    BY StepMoves DEF IInv
  <1>4. conn[c].state \in {"connected", "gone"}
    <2>1. conn[c].state \in States
      BY DEF IInv, Base, ConnTypes, Conns
    <2> QED BY <1>2, <1>3, <2>1 DEF ConnectionShape, States
  <1>5. HandleSendRequestFailed(h) /\ latest' = latest
    BY <1>2, <1>3 DEF SendFindsDead
  <1>6. Signalled(h, TRUE, d, o)
    BY <1>2, <1>5, SendRequestFailed
  <1>7. /\ conn[c].request = latest[h]
        /\ d => conn[c].state = "gone" /\ o = c
        /\ formExists /\ (conn[c].state # "gone" \/ d) => conn[c].retry <= policy[h].count
    BY <1>1, <1>3, <1>4, OpenKnows DEF Step
  <1>8. /\ conn'[c].state = conn[c].state /\ conn'[c].send = "dead" /\ HandlerOf(c)' = h
        /\ conn'[c].request = conn[c].request /\ conn'[c].retry = conn[c].retry
    BY <1>1, <1>3 DEF Moves, Becomes, HandlerOf
  <1> HIDE DEF d, o
  <1>9. \A g \in Handlers \ {h} : policy'[g] = policy[g] /\ retryTask'[g] = retryTask[g]
    BY <1>6 DEF Signalled
  <1>10. CASE Waits(h, TRUE, d, o)
    <2>1. /\ policy'[h].sendFailed /\ ~policy'[h].discFailed /\ ~d
          /\ policy'[h].count = policy[h].count /\ timeoutTask' = h /\ retryTask' = retryTask
      BY <1>10 DEF Waits
    <2>2. SignalsOf(c)'
      BY <1>2, <1>4, <1>5, <1>7, <1>8, <2>1 DEF SignalsOf, Open
    <2>3. PartialIsTimed'
      BY <1>1, <1>2, <1>9, <2>1, TimedAfter
    <2> QED BY <1>1, <1>2, <1>3, <1>9, <2>1, <2>2, <2>3, OpenMoves DEF Leaves
  <1>11. CASE WillRetry(h, TRUE, d, o)
    <2>1. /\ ~policy'[h].sendFailed /\ ~policy'[h].discFailed /\ d /\ policy'[h].present
          /\ policy'[h].count = policy[h].count + 1 /\ retryTask'[h] = o
      BY <1>11 DEF WillRetry
    <2>2. SignalsOf(c)'
      BY <1>7, <1>8, <2>1 DEF SignalsOf, Open
    <2>3. ~Partial(h)'
      BY <1>2, <2>1, PartialSignals
    <2>4. PartialIsTimed'
      BY <1>1, <1>2, <1>9, <2>3, TimedAfter
    <2>5. conn[c].retry < policy[h].count + 1 \/ ~formExists
      <3>1. conn[c].retry \in Nat /\ policy[h].count \in Nat
        BY <1>2, CountsAreNumbers, Zenon DEF IInv
      <3> QED BY <1>7, <2>1, <3>1
    <2>6. Leaves(h, c, conn[c].state, "dead")
      BY <1>5, <1>7, <2>1, <2>5 DEF Leaves
    <2> QED BY <1>1, <1>2, <1>3, <1>9, <2>2, <2>4, <2>6, OpenMoves
  <1>12. CASE GivesUp(h, TRUE, d)
    <2>1. policy'[h] = Absent /\ d /\ retryTask'[h] = NoConn
      BY <1>12 DEF GivesUp
    <2>2. SignalsOf(c)'
      BY <1>7, <1>8, <2>1 DEF SignalsOf, Open
    <2>3. ~Partial(h)'
      BY <2>1, AbsentPolicies DEF Partial
    <2>4. PartialIsTimed'
      BY <1>1, <1>2, <1>9, <2>3, TimedAfter
    <2> QED BY <1>1, <1>2, <1>3, <1>9, <2>1, <2>2, <2>4, OpenMoves DEF Leaves
  <1> QED BY <1>6, <1>10, <1>11, <1>12 DEF Signalled

LEMMA OnAbilityDisconnectDoneKeeps ==
    ASSUME OneHandlerAtATime, IInv, NEW c \in Connections, OnAbilityDisconnectDone(c)
    PROVE  IInv'
  <1>1. PICK h : h = HandlerOf(c)
    OBVIOUS
  <1> DEFINE s == policy[h].sendFailed
  <1>2. h \in Handlers /\ Open(c) /\ UNCHANGED <<running, formExists, deleting>> /\ Base'
        /\ retryTask[h] = NoConn /\ ConnectionShape(c) /\ PolicyTypes
    BY <1>1, OpenKnows, StepKeepsBase DEF Step, IInv, Base
  <1>3. conn[c].state \in {"connecting", "connected"} /\ Moves(c, "gone", conn[c].send)
    BY StepMoves DEF IInv
  <1>4. /\ latest' = latest
        /\ \/ UNCHANGED <<policy, retryTask, timeoutTask>>
           \/ conn[c].state = "connected" /\ HandleDisconnectError(h, c)
    BY <1>1 DEF OnAbilityDisconnectDone, HandlerOf
  <1>5. /\ conn[c].request = latest[h] /\ ~policy[h].discFailed
        /\ s => conn[c].send = "dead"
        /\ formExists /\ (conn[c].send = "posted" \/ s) => conn[c].retry <= policy[h].count
    BY <1>1, <1>3, OpenKnows DEF Step
  <1>6. /\ conn'[c].state = "gone" /\ conn'[c].send = conn[c].send /\ HandlerOf(c)' = h
        /\ conn'[c].request = conn[c].request /\ conn'[c].retry = conn[c].retry
    BY <1>1, <1>3 DEF Moves, Becomes, HandlerOf
  <1>7. CASE UNCHANGED <<policy, retryTask, timeoutTask>>
    <2>1. SignalsOf(c)'
      BY <1>4, <1>5, <1>6, <1>7 DEF SignalsOf, Open
    <2>2. PartialIsTimed'
      BY <1>2, <1>3, <1>6, <1>7, TimedAsBefore
    <2> QED BY <1>1, <1>2, <1>3, <1>7, <2>1, <2>2, OpenMoves DEF Leaves
  <1> HIDE DEF s
  <1>8. CASE conn[c].state = "connected" /\ HandleDisconnectError(h, c)
    <2>1. Signalled(h, s, TRUE, c)
      BY <1>2, <1>8, DisconnectError DEF s
    <2>2. \A g \in Handlers \ {h} : policy'[g] = policy[g] /\ retryTask'[g] = retryTask[g]
      BY <2>1 DEF Signalled
    <2>3. CASE Waits(h, s, TRUE, c)
      <3>1. /\ ~policy'[h].sendFailed /\ policy'[h].discFailed /\ policy'[h].orig = c /\ ~s
            /\ policy'[h].count = policy[h].count /\ timeoutTask' = h /\ retryTask' = retryTask
        BY <2>3 DEF Waits
      <3>2. SignalsOf(c)'
        BY <1>2, <1>4, <1>5, <1>6, <3>1 DEF SignalsOf, Open
      <3>3. PartialIsTimed'
        BY <1>1, <1>2, <2>2, <3>1, TimedAfter
      <3> QED BY <1>1, <1>2, <1>3, <2>2, <3>1, <3>2, <3>3, OpenMoves DEF Leaves
    <2>4. CASE WillRetry(h, s, TRUE, c)
      <3>1. /\ ~policy'[h].sendFailed /\ ~policy'[h].discFailed /\ s /\ policy'[h].present
            /\ policy'[h].count = policy[h].count + 1 /\ retryTask'[h] = c
        BY <2>4 DEF WillRetry
      <3>2. SignalsOf(c)'
        BY <1>5, <1>6, <3>1 DEF SignalsOf, Open
      <3>3. ~Partial(h)'
        BY <1>2, <3>1, PartialSignals
      <3>4. PartialIsTimed'
        BY <1>1, <1>2, <2>2, <3>3, TimedAfter
      <3>5. conn[c].retry < policy[h].count + 1 \/ ~formExists
        <4>1. conn[c].retry \in Nat /\ policy[h].count \in Nat
          BY <1>2, CountsAreNumbers, Zenon DEF IInv
        <4> QED BY <1>5, <3>1, <4>1
      <3>6. Leaves(h, c, "gone", conn[c].send)
        BY <1>4, <1>5, <3>1, <3>5 DEF Leaves
      <3> QED BY <1>1, <1>2, <1>3, <2>2, <3>2, <3>4, <3>6, OpenMoves
    <2>5. CASE GivesUp(h, s, TRUE)
      <3>1. policy'[h] = Absent /\ s /\ retryTask'[h] = NoConn
        BY <2>5 DEF GivesUp
      <3>2. SignalsOf(c)'
        BY <1>5, <1>6, <3>1 DEF SignalsOf, Open
      <3>3. ~Partial(h)'
        BY <3>1, AbsentPolicies DEF Partial
      <3>4. PartialIsTimed'
        BY <1>1, <1>2, <2>2, <3>3, TimedAfter
      <3> QED BY <1>1, <1>2, <1>3, <2>2, <3>1, <3>2, <3>4, OpenMoves DEF Leaves
    <2> QED BY <2>1, <2>3, <2>4, <2>5 DEF Signalled
  <1> QED BY <1>4, <1>7, <1>8

LEMMA RequestKeeps ==
    ASSUME OneHandlerAtATime, IInv, NEW c \in Connections, NEW kind \in Kinds, Request(c, kind)
    PROVE  IInv'
  <1> DEFINE h == Clears(kind)
  <1>1. h \in Handlers /\ Base'
    BY HandlersOfKinds, OthersKeepBase DEF IInv
  <1>2. /\ running.task # "retry"
        /\ \A d \in Connections : ~Open(d)
        /\ \A g \in Handlers \ {h} : ~Partial(g) /\ retryTask[g] = NoConn
    BY Zenon DEF Request, Settled, OneHandlerAtATime, Open
  <1>3. UNCHANGED <<formExists, deleting, policy, running, latest>> /\ CancelPendingTasks(h)
    BY DEF Request
  <1> HIDE DEF h
  <1>4. \A g \in Handlers : retryTask'[g] = NoConn
    BY <1>1, <1>2, <1>3, Erased DEF IInv, Base
  <1>5. /\ \A d \in Connections \ {c} : conn'[d] = conn[d]
        /\ conn'[c].state = "clearing" /\ conn'[c].kind = kind /\ conn'[c].retry = 0
    BY StepMoves DEF IInv, Becomes
  <1>6. /\ \A d \in Connections \ {c} : ~Open(d)'
        /\ HandlerOf(c)' = h /\ (\A g \in Handlers : ~Retrying(g)')
        /\ \A g \in Handlers \ {h} : ~Partial(g)'
    BY <1>2, <1>3, <1>4, <1>5 DEF Open, HandlerOf, Retrying, Partial, h
  <1>7. OneUnderWay'
    BY <1>2, <1>3, <1>6 DEF OneUnderWay
  <1>8. \A d \in Connections : SignalsOf(d)'
    BY <1>5, <1>6 DEF SignalsOf
  <1>9. RetryIsDue'
    BY <1>2, <1>3, <1>4 DEF IInv, RetryIsDue
  <1>10. PartialIsTimed'
    BY <1>5 DEF PartialIsTimed
  <1>11. RetriesBounded'
    BY <1>5 DEF IInv, RetriesBounded
  <1> QED BY <1>1, <1>7, <1>8, <1>9, <1>10, <1>11 DEF IInv

\* The delayed tasks.
LEMMA TakeTimeoutKeeps ==
    ASSUME IInv, TakeTimeout
    PROVE  IInv'
  <1>1. Base'
    BY TasksKeepBase DEF IInv
  <1>2. /\ UNCHANGED <<formExists, deleting, policy, retryTask, conn, latest>>
        /\ running.task = "none" /\ running'.task = "timeout" /\ running'.handler = timeoutTask
    BY DEF TakeTimeout, Idle
  <1>3. /\ \A c \in Connections : (Open(c)' <=> Open(c)) /\ HandlerOf(c)' = HandlerOf(c)
        /\ \A h \in Handlers : (Partial(h)' <=> Partial(h)) /\ (Retrying(h)' <=> Retrying(h))
    BY <1>2 DEF Open, HandlerOf, Partial, Retrying
  <1>4. OneUnderWay'
    BY <1>2, <1>3 DEF IInv, OneUnderWay
  <1>5. \A d \in Connections : SignalsOf(d)'
    BY <1>2, <1>3 DEF IInv, SignalsOf
  <1>6. RetryIsDue' /\ RetriesBounded'
    BY <1>2 DEF IInv, RetryIsDue, Died, HandlerOf, RetriesBounded
  <1>7. PartialIsTimed'
    BY <1>2, <1>3 DEF IInv, PartialIsTimed
  <1> QED BY <1>1, <1>4, <1>5, <1>6, <1>7 DEF IInv

LEMMA OnSignalTimeoutKeeps ==
    ASSUME IInv, OnSignalTimeout
    PROVE  IInv'
  <1>0. PICK h : h = running.handler
    OBVIOUS
  <1>1. Base' /\ h \in Handlers
    BY <1>0, TasksKeepBase DEF IInv, Base, RunTypes
  <1>2. /\ UNCHANGED <<formExists, deleting, retryTask, timeoutTask, conn, latest>>
        /\ running.task = "timeout" /\ running'.task = "none"
        /\ IF Partial(h) THEN Erase(h) ELSE UNCHANGED policy
    BY <1>0 DEF OnSignalTimeout, Idle, Partial
  <1>3. /\ \A g \in Handlers \ {h} : policy'[g] = policy[g]
        /\ Partial(h) => policy'[h] = Absent
        /\ ~Partial(h) => policy' = policy
    BY <1>1, <1>2, Erased DEF IInv, Base
  <1>4. /\ \A c \in Connections : (Open(c)' <=> Open(c)) /\ HandlerOf(c)' = HandlerOf(c)
        /\ ~Partial(h)' /\ \A g \in Handlers \ {h} : (Partial(g)' <=> Partial(g))
        /\ \A g \in Handlers : Retrying(g)' <=> Retrying(g)
    <2>1. ~Partial(h)'
      <3>1. CASE Partial(h)
        BY <1>3, <3>1, AbsentPolicies DEF Partial
      <3> QED BY <1>3, <3>1 DEF Partial
    <2>2. \A g \in Handlers \ {h} : (Partial(g)' <=> Partial(g))
      BY <1>3 DEF Partial
    <2> QED BY <1>2, <2>1, <2>2 DEF Open, HandlerOf, Retrying
  <1>5. OneUnderWay'
    BY <1>2, <1>4 DEF IInv, OneUnderWay
  <1>6. ASSUME NEW c \in Connections PROVE SignalsOf(c)'
    <2>1. CASE HandlerOf(c) # h \/ ~Partial(h)
      <3>1. policy'[HandlerOf(c)] = policy[HandlerOf(c)]
        BY <1>1, <1>3, <2>1, HandlersOfKinds DEF HandlerOf
      <3> QED BY <1>2, <1>4, <3>1 DEF IInv, SignalsOf
    <2>2. CASE HandlerOf(c) = h /\ Partial(h)
      <3>1. SignalsOf(c) /\ (policy[h].sendFailed \/ policy[h].discFailed)
        BY <1>1, <2>2, PartialSignals DEF IInv
      <3>2. ~policy'[h].sendFailed /\ ~policy'[h].discFailed
        BY <1>3, <2>2, AbsentPolicies
      <3> QED BY <1>2, <1>4, <2>2, <3>1, <3>2 DEF SignalsOf
    <2> QED BY <2>1, <2>2
  <1>7. RetryIsDue' /\ RetriesBounded'
    <2>1. \A g \in Handlers : retryTask[g] # NoConn => policy' = policy
      BY <1>1, <1>3 DEF IInv, OneUnderWay, Retrying
    <2> QED BY <1>2, <2>1 DEF IInv, RetryIsDue, Died, HandlerOf, RetriesBounded
  <1>8. PartialIsTimed'
    BY <1>0, <1>2, <1>4 DEF IInv, PartialIsTimed
  <1> QED BY <1>1, <1>5, <1>6, <1>7, <1>8 DEF IInv

LEMMA TakeRetryKeeps ==
    ASSUME IInv, NEW h \in Handlers, TakeRetry(h)
    PROVE  IInv'
  <1>1. Base'
    BY TasksKeepBase DEF IInv
  <1>2. /\ UNCHANGED <<formExists, deleting, policy, timeoutTask, conn, latest>>
        /\ running.task = "none" /\ retryTask[h] # NoConn
        /\ running'.task = "retry" /\ running'.handler = h
        /\ running'.orig = retryTask[h] /\ running'.exists = formExists
        /\ retryTask' = [retryTask EXCEPT ![h] = NoConn]
    BY DEF TakeRetry
  <1>3. Retrying(h) /\ \A g \in Handlers : retryTask'[g] = NoConn
    BY <1>2 DEF IInv, OneUnderWay, Retrying, Base, PolicyTypes
  <1>4. /\ \A c \in Connections : ~Open(c)'
        /\ \A g \in Handlers : ~Partial(g)' /\ (Retrying(g)' <=> g = h)
    BY <1>2, <1>3 DEF IInv, OneUnderWay, Open, Partial, Retrying
  <1>5. OneUnderWay'
    BY <1>2, <1>3, <1>4 DEF OneUnderWay
  <1>6. \A d \in Connections : SignalsOf(d)'
    BY <1>4 DEF SignalsOf
  <1>7. RetryIsDue' /\ RetriesBounded'
    BY <1>2, <1>3 DEF IInv, RetryIsDue, Died, HandlerOf, RetriesBounded
  <1>8. PartialIsTimed'
    BY <1>4 DEF PartialIsTimed
  <1> QED BY <1>1, <1>5, <1>6, <1>7, <1>8 DEF IInv

LEMMA ExecuteRetryKeeps ==
    ASSUME IInv, ExecuteRetry
    PROVE  IInv'
  <1>0. PICK h : h = running.handler
    OBVIOUS
  <1>1. Base' /\ h \in Handlers
    BY <1>0, TasksKeepBase DEF IInv, Base, RunTypes
  <1>2. /\ UNCHANGED <<formExists, deleting, latest>>
        /\ running.task = "retry" /\ running'.task = "none"
        /\ \/ CancelPendingTasks(h) /\ Erase(h) /\ UNCHANGED conn
           \/ UNCHANGED <<policy, retryTask, timeoutTask, conn>>
           \/ /\ UNCHANGED <<policy, retryTask, timeoutTask>>
              /\ RetryConnects(h) /\ policy[h].present /\ running.exists
    BY <1>0 DEF ExecuteRetry, RetryDropped, RetryConnects, RetryRefused, Idle
  <1>3. /\ \A c \in Connections : ~Open(c)
        /\ \A g \in Handlers : ~Partial(g) /\ retryTask[g] = NoConn
    BY <1>0, <1>1, <1>2 DEF IInv, OneUnderWay, Retrying
  <1>4. \A g \in Handlers : ~Partial(g)' /\ retryTask'[g] = NoConn
    <2>1. CASE CancelPendingTasks(h) /\ Erase(h)
      <3>1. /\ policy'[h] = Absent /\ retryTask'[h] = NoConn
            /\ \A g \in Handlers \ {h} : policy'[g] = policy[g] /\ retryTask'[g] = retryTask[g]
        BY <1>1, <2>1, Erased DEF IInv, Base
      <3> QED BY <1>3, <3>1, AbsentPolicies DEF Partial
    <2>2. CASE UNCHANGED <<policy, retryTask, timeoutTask>>
      BY <1>3, <2>2 DEF Partial
    <2> QED BY <1>2, <2>1, <2>2
  <1>5. PartialIsTimed' /\ \A g \in Handlers : ~Retrying(g)'
    BY <1>2, <1>4 DEF PartialIsTimed, Retrying
  <1>6. RetryIsDue'
    BY <1>2, <1>4 DEF IInv, RetryIsDue
  <1>7. CASE UNCHANGED conn
    <2>1. \A c \in Connections : ~Open(c)'
      BY <1>3, <1>7 DEF Open
    <2> QED BY <1>1, <1>2, <1>4, <1>5, <1>6, <1>7, <2>1
            DEF IInv, OneUnderWay, SignalsOf, RetriesBounded
  <1>8. CASE UNCHANGED policy /\ RetryConnects(h) /\ policy[h].present /\ running.exists
    <2> DEFINE orig == conn[running.orig]
    <2>1. PICK c \in Connections :
             Becomes(c, "connecting", "none", orig.kind, orig.request, orig.retry + 1)
      BY <1>1, <1>2, <1>8, RetryOpens DEF IInv
    <2>2. /\ running.orig \in Connections /\ orig \in Conns /\ Clears(orig.kind) = h
          /\ orig.request = latest[h] /\ orig.retry < policy[h].count
      BY <1>0, <1>1, <1>2, <1>8, RetryOpens DEF IInv, RetryIsDue, Died, HandlerOf, Base, ConnTypes
    <2>3. policy[h].count \in 0 .. MaxRetryCount /\ orig.retry \in Nat
          /\ ~policy[h].sendFailed /\ ~policy[h].discFailed
      BY <1>1, <1>3, <2>2, PartialSignals DEF IInv, Base, PolicyTypes, Policies, Conns
    <2> HIDE DEF orig
    <2>4. /\ \A d \in Connections \ {c} : conn'[d] = conn[d]
          /\ conn'[c].state = "connecting" /\ conn'[c].request = orig.request
          /\ conn'[c].retry = orig.retry + 1 /\ HandlerOf(c)' = h
      BY <2>1, <2>2 DEF Becomes, HandlerOf
    <2>5. \A d \in Connections \ {c} : ~Open(d)'
      BY <1>3, <2>4 DEF Open
    <2>6. OneUnderWay'
      BY <1>2, <1>4, <1>5, <2>5 DEF OneUnderWay
    <2>7. orig.retry + 1 <= policy[h].count /\ orig.retry + 1 <= MaxRetryCount
      BY <2>2, <2>3
    <2>8. SignalsOf(c)'
      BY <1>2, <1>8, <2>2, <2>3, <2>4, <2>7 DEF SignalsOf
    <2>9. \A d \in Connections : SignalsOf(d)'
      BY <2>5, <2>8 DEF SignalsOf
    <2>10. RetriesBounded'
      BY <2>4, <2>7 DEF IInv, RetriesBounded
    <2> QED BY <1>1, <1>5, <1>6, <2>6, <2>9, <2>10 DEF IInv
  <1> QED BY <1>2, <1>7, <1>8

\* The form is deleted.
LEMMA DeleteFormRecordKeeps ==
    ASSUME IInv, DeleteFormRecord
    PROVE  IInv'
  <1>1. Base'
    BY OthersKeepBase DEF IInv
  <1>2. /\ ~formExists' /\ deleting' = "refreshTasks" /\ deleting = "no"
        /\ UNCHANGED <<policy, retryTask, timeoutTask, running, conn, latest>>
    BY DEF DeleteFormRecord, IInv, RetryIsDue
  <1>3. OneUnderWay'
    BY <1>2 DEF IInv, OneUnderWay, Open, HandlerOf, Partial, Retrying
  <1>4. \A c \in Connections : SignalsOf(c)'
    BY <1>2 DEF IInv, SignalsOf, Open, HandlerOf
  <1>5. RetryIsDue'
    BY <1>2 DEF IInv, RetryIsDue, Died, HandlerOf
  <1>6. PartialIsTimed' /\ RetriesBounded'
    BY <1>2 DEF IInv, PartialIsTimed, RetriesBounded
  <1> QED BY <1>1, <1>3, <1>4, <1>5, <1>6 DEF IInv

LEMMA RemoveRetryPoliciesKeeps ==
    ASSUME IInv, RemoveRetryPolicies
    PROVE  IInv'
  <1>1. Base' /\ PolicyTypes
    BY OthersKeepBase DEF IInv, Base
  <1>2. UNCHANGED <<formExists, running, conn, latest>> /\ ~formExists /\ deleting' # "no"
    BY DEF RemoveRetryPolicies, IInv, RetryIsDue
  <1>3. \A h \in Handlers : /\ policy'[h] = policy[h] \/ policy'[h] = Absent
                            /\ retryTask'[h] = retryTask[h] \/ retryTask'[h] = NoConn
    <2>1. \E g \in Handlers : \/ CancelPendingTasks(g) /\ UNCHANGED policy
                              \/ Erase(g) /\ UNCHANGED <<retryTask, timeoutTask>>
      BY DEF RemoveRetryPolicies
    <2> QED BY <1>1, <2>1, Erased
  <1>4. /\ deleting' = "acquireTasks" => policy'["refresh"] = Absent
        /\ deleting' = "done" => policy'["acquire"] = Absent
        /\ deleting \in {"no", "refreshTasks", "refreshPolicy"} =>
              deleting' \in {"no", "refreshTasks", "refreshPolicy", "acquireTasks"}
    <2>1. \A h \in Handlers : Erase(h) => policy'[h] = Absent
      BY <1>1, Erased
    <2> QED BY <2>1 DEF RemoveRetryPolicies
  <1>5. /\ \A c \in Connections : (Open(c)' <=> Open(c)) /\ HandlerOf(c)' = HandlerOf(c)
        /\ \A h \in Handlers : (Partial(h)' => Partial(h)) /\ (Retrying(h)' => Retrying(h))
    BY <1>2, <1>3, AbsentPolicies DEF Open, HandlerOf, Partial, Retrying
  <1>6. OneUnderWay'
    BY <1>2, <1>3, <1>5 DEF IInv, OneUnderWay
  <1>7. ASSUME NEW c \in Connections PROVE SignalsOf(c)'
    <2>1. PICK h \in Handlers : h = HandlerOf(c)
      BY HandlersOfKinds DEF HandlerOf
    <2>2. SignalsOf(c) /\ (policy'[h] = policy[h] \/ policy'[h] = Absent)
      BY <1>3, <2>1 DEF IInv
    <2> QED BY <1>2, <1>5, <2>1, <2>2, AbsentPolicies DEF SignalsOf
  <1>8. RetryIsDue'
    <2>1. \A h \in Handlers, c \in Connections \cup {NoConn} : Died(h, c)' <=> Died(h, c)
      BY <1>2 DEF Died, HandlerOf
    <2>2. \A h \in Handlers : retryTask'[h] # NoConn => Died(h, retryTask[h])'
      BY <1>1, <1>3, <2>1 DEF IInv, RetryIsDue, PolicyTypes
    <2>3. PICK k : k = running.handler
      OBVIOUS
    <2>4. PICK o : o = running.orig
      OBVIOUS
    <2>5. k \in Handlers /\ o \in Connections \cup {NoConn}
      BY <2>3, <2>4 DEF IInv, Base, RunTypes
    <2>6. policy'[k].present => policy'[k] = policy[k] /\ policy'[k] # Absent
      BY <1>3, <2>5, AbsentPolicies
    <2>7. ASSUME running.task = "retry"
          PROVE  /\ Died(k, o)'
                 /\ running.exists /\ policy'[k].present =>
                      /\ conn[o].retry < policy'[k].count
                      /\ deleting' # "done"
                      /\ k = "refresh" => deleting' \in {"no", "refreshTasks", "refreshPolicy"}
      <3>1. /\ Died(k, o)
            /\ running.exists /\ policy[k].present =>
                 /\ conn[o].retry < policy[k].count
                 /\ k = "refresh" => deleting \in {"no", "refreshTasks", "refreshPolicy"}
        BY <2>3, <2>4, <2>7 DEF IInv, RetryIsDue
      <3>2. ASSUME running.exists, policy'[k].present
            PROVE  /\ deleting' # "done"
                   /\ k = "refresh" => deleting' \in {"no", "refreshTasks", "refreshPolicy"}
        BY <1>4, <2>5, <2>6, <3>1, <3>2
      <3> QED BY <2>1, <2>5, <2>6, <3>1, <3>2
    <2>8. formExists' <=> deleting' = "no"
      BY <1>2
    <2> QED BY <1>2, <1>3, <2>2, <2>3, <2>4, <2>7, <2>8 DEF RetryIsDue
  <1>9. PartialIsTimed' /\ RetriesBounded'
    BY <1>2 DEF IInv, PartialIsTimed, RetriesBounded
  <1> QED BY <1>1, <1>6, <1>7, <1>8, <1>9 DEF IInv

LEMMA InitIInv == Init => IInv
  <1> SUFFICES ASSUME Init PROVE IInv
    OBVIOUS
  <1>1. Base
    BY InitBase
  <1>2. /\ \A c \in Connections : ~Open(c) /\ conn[c].retry = 0
        /\ \A h \in Handlers : ~Partial(h) /\ ~Retrying(h)
        /\ formExists /\ deleting = "no" /\ running.task = "none"
    BY AbsentPolicies DEF Init, Open, Partial, Retrying, Idle
  <1>3. OneUnderWay /\ RetryIsDue /\ \A c \in Connections : SignalsOf(c)
    BY <1>2 DEF OneUnderWay, RetryIsDue, SignalsOf, Retrying
  <1>4. PartialIsTimed /\ RetriesBounded
    BY <1>2 DEF PartialIsTimed, RetriesBounded
  <1> QED BY <1>1, <1>3, <1>4 DEF IInv

LEMMA NextIInv ==
    ASSUME OneHandlerAtATime, IInv, [Next]_vars
    PROVE  IInv'
  <1>1. ASSUME NEW c \in Connections, Step(c) PROVE IInv'
    BY <1>1, ConnectKeeps, OnAbilityConnectDoneKeeps, SendsKeep, SendFindsDeadKeeps,
       OnAbilityDisconnectDoneKeeps DEF Step
  <1>2. CASE UNCHANGED vars
    <2>1. Base'
      BY <1>2, NextBase DEF IInv
    <2>2. UNCHANGED <<formExists, deleting, policy, retryTask, timeoutTask, running, conn, latest>>
      BY <1>2 DEF vars
    <2>3. OneUnderWay'
      BY <2>2 DEF IInv, OneUnderWay, Open, HandlerOf, Partial, Retrying
    <2>4. \A c \in Connections : SignalsOf(c)'
      BY <2>2 DEF IInv, SignalsOf, Open, HandlerOf
    <2>5. RetryIsDue' /\ RetriesBounded'
      BY <2>2 DEF IInv, RetryIsDue, Died, HandlerOf, RetriesBounded
    <2>6. PartialIsTimed'
      BY <2>2 DEF IInv, PartialIsTimed, Partial
    <2> QED BY <2>1, <2>3, <2>4, <2>5, <2>6 DEF IInv
  <1> QED BY <1>1, <1>2, RequestKeeps, TakeTimeoutKeeps, OnSignalTimeoutKeeps, TakeRetryKeeps,
             ExecuteRetryKeeps, DeleteFormRecordKeeps, RemoveRetryPoliciesKeeps DEF Next

LEMMA IInvIsInvariant ==
    ASSUME OneHandlerAtATime
    PROVE  Spec => []IInv
  <1>1. IInv /\ [Next]_vars => IInv'
    BY NextIInv
  <1> QED BY <1>1, InitIInv, PTL DEF Spec

\* A handler that has seen one signal of two has its fallback timeout on the
\* way, for every number of requests, connections and retries.
THEOREM PartialsAreTimed ==
    ASSUME OneHandlerAtATime
    PROVE  Spec => []PartialIsTimed
  <1>1. IInv => PartialIsTimed
    BY DEF IInv
  <1> QED BY <1>1, IInvIsInvariant, PTL

\* No request is retried more than maxRetryCount times, whatever that limit.
THEOREM RetriesAreBounded ==
    ASSUME OneHandlerAtATime
    PROVE  Spec => []RetriesBounded
  <1>1. IInv => RetriesBounded
    BY DEF IInv
  <1> QED BY <1>1, IInvIsInvariant, PTL

--------------------------------------------------------------------------------
(* What is retried.                                                        *)

LEMMA OthersRetryNothing ==
    ASSUME Base, [Next]_vars, NEW c \in Connections, Retries(c)
    PROVE  ExecuteRetry
  <1>1. conn \in [Connections -> Conns] /\ conn[c].retry \in Nat
    BY DEF Base, ConnTypes, Conns
  <1>2. conn' # conn
    BY <1>1 DEF Retries
  <1>3. ASSUME NEW d \in Connections, NEW kind \in Kinds, Request(d, kind) PROVE FALSE
    BY <1>1, <1>3, StepMoves DEF Becomes, Retries
  <1>4. ASSUME NEW d \in Connections, Step(d) PROVE FALSE
    <2>1. \E state, send : Moves(d, state, send)
      BY <1>4, StepMoves DEF Step
    <2> QED BY <1>1, <2>1 DEF Moves, Becomes, Retries
  <1>5. ~UNCHANGED vars
    BY <1>2 DEF vars
  <1>6. ~TakeTimeout /\ ~OnSignalTimeout /\ ~(\E h \in Handlers : TakeRetry(h))
        /\ ~DeleteFormRecord /\ ~RemoveRetryPolicies
    BY <1>2 DEF TakeTimeout, OnSignalTimeout, TakeRetry, DeleteFormRecord, RemoveRetryPolicies
  <1> QED BY <1>3, <1>4, <1>5, <1>6 DEF Next

\* A retry repeats the request of the connection it was scheduled for.
LEMMA RetryRepeats ==
    ASSUME IInv, [Next]_vars, NEW c \in Connections, Retries(c)
    PROVE  /\ Died(running.handler, running.orig)
           /\ conn'[c].request = latest[Clears(conn'[c].kind)]
           /\ deleting # "done"
  <1>1. ExecuteRetry
    BY OthersRetryNothing DEF IInv
  <1>2. PICK h : h = running.handler
    OBVIOUS
  <1>3. h \in Handlers /\ running.task = "retry"
    BY <1>1, <1>2 DEF ExecuteRetry, IInv, Base, RunTypes
  <1>4. RetryConnects(h)
    <2>1. conn' # conn
      BY DEF Retries, IInv, Base, ConnTypes, Conns
    <2> QED BY <1>1, <1>2, <2>1 DEF ExecuteRetry, RetryDropped, RetryRefused
  <1>5. Died(h, running.orig) /\ deleting # "done"
    BY <1>2, <1>3, <1>4 DEF RetryConnects, IInv, RetryIsDue
  <1> DEFINE orig == conn[running.orig]
  <1>6. PICK d \in Connections :
           Becomes(d, "connecting", "none", orig.kind, orig.request, orig.retry + 1)
    BY <1>3, <1>4, RetryOpens DEF IInv
  <1>7. d = c
    BY <1>6 DEF Becomes, Retries, IInv, Base, ConnTypes, Conns
  <1>8. orig.request = latest[h] /\ Clears(orig.kind) = h
    BY <1>5 DEF Died, HandlerOf
  <1>9. conn'[c].request = orig.request /\ conn'[c].kind = orig.kind
    BY <1>6, <1>7 DEF Becomes
  <1> QED BY <1>2, <1>5, <1>8, <1>9

\* Of the requests of a handler only the newest is ever retried.
THEOREM OnlyTheNewestIsRetried ==
    ASSUME OneHandlerAtATime
    PROVE  Spec => SupersededNotRetried
  <1>1. IInv /\ [Next]_vars =>
          [\A c \in Connections :
             Retries(c) => conn'[c].request = latest[Clears(conn'[c].kind)]]_vars
    BY RetryRepeats
  <1> QED BY <1>1, IInvIsInvariant, PTL DEF Spec, SupersededNotRetried

\* Nothing connects again once the form and its policies are deleted, though
\* a retry looks for the record before it takes the lock.
THEOREM ADeletedFormIsNotRetried ==
    ASSUME OneHandlerAtATime
    PROVE  Spec => DeletedNotRetried
  <1>1. IInv /\ [Next]_vars => [\A c \in Connections : Retries(c) => deleting # "done"]_vars
    BY RetryRepeats
  <1> QED BY <1>1, IInvIsInvariant, PTL DEF Spec, DeletedNotRetried

\* Only a lost connection whose own send found the object dead is retried.
THEOREM OnlyTheDeadAreRetried ==
    ASSUME OneHandlerAtATime
    PROVE  Spec => DualSignal
  <1>1. IInv /\ [Next]_vars =>
          [\A c \in Connections : Retries(c) =>
             conn[running.orig].state = "gone" /\ conn[running.orig].send = "dead"]_vars
    BY RetryRepeats DEF Died
  <1> QED BY <1>1, IInvIsInvariant, PTL DEF Spec, DualSignal
===============================================================================
