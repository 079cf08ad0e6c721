------------------------ MODULE FormRenderService_proofs ------------------------
(***************************************************************************)
(* Proofs about the Form Render Service: the timer hits only the recycle   *)
(* it was started for, what the JS thread does is reported, the wait for a *)
(* release is limited, and the render record covers what is kept in it.    *)
(***************************************************************************)
EXTENDS FormRenderService, SequenceTheorems, TLAPS

--------------------------------------------------------------------------------
(* The rows of the render side's table.                                    *)

\* The status in which the table knows an event that ends an operation or a
\* part of it, and the status that event leads to.
Ended == [RENDER_FORM_DONE   |-> "RENDERING",      RENDER_FORM_FAIL  |-> "RENDERING",
          RECYCLE_DATA_DONE  |-> "RECYCLING_DATA", RECYCLE_DATA_FAIL |-> "RECYCLING_DATA",
          RECYCLE_FORM_DONE  |-> "RECYCLING",      RECYCLE_FORM_FAIL |-> "RECYCLING",
          RECOVER_FORM_DONE  |-> "RECOVERING",     RECOVER_FORM_FAIL |-> "RECOVERING",
          DELETE_FORM_DONE   |-> "DELETING",       DELETE_FORM_FAIL  |-> "DELETING",
          DELETE_FORM_FINISH |-> "DELETING"]
After == [RENDER_FORM_DONE   |-> "RENDERED",       RENDER_FORM_FAIL  |-> "UNPROCESSABLE",
          RECYCLE_DATA_DONE  |-> "RECYCLING_DATA", RECYCLE_DATA_FAIL |-> "RENDERED",
          RECYCLE_FORM_DONE  |-> "RECYCLED",       RECYCLE_FORM_FAIL |-> "UNPROCESSABLE",
          RECOVER_FORM_DONE  |-> "RENDERED",       RECOVER_FORM_FAIL |-> "UNPROCESSABLE",
          DELETE_FORM_DONE   |-> "RENDERED",       DELETE_FORM_FAIL  |-> "UNPROCESSABLE",
          DELETE_FORM_FINISH |-> "UNPROCESSABLE"]

\* A start is accepted at rest; while data is recycled, the release is.
LEMMA StartRow ==
    ASSUME NEW s \in FormFsmStatus, NEW e \in DOMAIN Starts, RenderHasRow(s, e)
    PROVE  /\ RenderNext(s, e) = Starts[e]
           /\ s \in Busy => s = "RECYCLING_DATA" /\ e = "RECYCLE_FORM"
  <1> USE DEF RenderHasRow, RenderNext, FORM_RENDER_STATUS_TABLE, Starts, Busy
  <1>1. CASE s = "INIT"
    BY <1>1 DEF FORM_RENDER_STATUS_TABLE_INIT, RenderStarts
  <1>2. CASE s = "RENDERED"
    BY <1>2 DEF FORM_RENDER_STATUS_TABLE_RENDERED, RenderStarts
  <1>3. CASE s = "RECYCLED"
    BY <1>3 DEF FORM_RENDER_STATUS_TABLE_RECYCLED, RenderStarts
  <1>4. CASE s = "UNPROCESSABLE"
    BY <1>4 DEF FORM_RENDER_STATUS_TABLE_UNPROCESSABLE, RenderStarts
  <1>5. CASE s = "RENDERING"
    BY <1>5 DEF FORM_RENDER_STATUS_TABLE_RENDERING
  <1>6. CASE s = "RECYCLING_DATA"
    BY <1>6 DEF FORM_RENDER_STATUS_TABLE_RECYCLING_DATA
  <1>7. CASE s = "RECYCLING"
    BY <1>7 DEF FORM_RENDER_STATUS_TABLE_RECYCLING
  <1>8. CASE s = "RECOVERING"
    BY <1>8 DEF FORM_RENDER_STATUS_TABLE_RECOVERING
  <1>9. CASE s = "DELETING"
    BY <1>9 DEF FORM_RENDER_STATUS_TABLE_DELETING
  <1> QED BY <1>1, <1>2, <1>3, <1>4, <1>5, <1>6, <1>7, <1>8, <1>9 DEF FormFsmStatus

\* A reply or a failure is accepted in the status it ends, and in no other.
LEMMA EndRow ==
    ASSUME NEW s \in FormFsmStatus, NEW e \in DOMAIN Ended
    PROVE  /\ RenderHasRow(s, e) <=> s = Ended[e]
           /\ s = Ended[e] => RenderNext(s, e) = After[e]
  <1> USE DEF RenderHasRow, RenderNext, FORM_RENDER_STATUS_TABLE, Ended, After
  <1>1. CASE s = "INIT"
    BY <1>1 DEF FORM_RENDER_STATUS_TABLE_INIT, RenderStarts
  <1>2. CASE s = "RENDERED"
    BY <1>2 DEF FORM_RENDER_STATUS_TABLE_RENDERED, RenderStarts
  <1>3. CASE s = "RECYCLED"
    BY <1>3 DEF FORM_RENDER_STATUS_TABLE_RECYCLED, RenderStarts
  <1>4. CASE s = "UNPROCESSABLE"
    BY <1>4 DEF FORM_RENDER_STATUS_TABLE_UNPROCESSABLE, RenderStarts, Starts
  <1>5. CASE s = "RENDERING"
    BY <1>5 DEF FORM_RENDER_STATUS_TABLE_RENDERING
  <1>6. CASE s = "RECYCLING_DATA"
    BY <1>6 DEF FORM_RENDER_STATUS_TABLE_RECYCLING_DATA
  <1>7. CASE s = "RECYCLING"
    BY <1>7 DEF FORM_RENDER_STATUS_TABLE_RECYCLING
  <1>8. CASE s = "RECOVERING"
    BY <1>8 DEF FORM_RENDER_STATUS_TABLE_RECOVERING
  <1>9. CASE s = "DELETING"
    BY <1>9 DEF FORM_RENDER_STATUS_TABLE_DELETING
  <1> QED BY <1>1, <1>2, <1>3, <1>4, <1>5, <1>6, <1>7, <1>8, <1>9 DEF FormFsmStatus

\* What PostFormEvent does to the status.
LEMMA StartPosts ==
    ASSUME TypeOK, NEW e \in DOMAIN Starts, PostFormEvent(e)
    PROVE  /\ rstatus' \in FormFsmStatus
           /\ Accepts(e) => /\ rstatus' = Starts[e]
                            /\ rstatus \in Busy => rstatus = "RECYCLING_DATA" /\ e = "RECYCLE_FORM"
           /\ ~Accepts(e) => rstatus' = FormStatus
  <1>1. FormStatus \in FormFsmStatus /\ (rstatus \in Busy => FormStatus = rstatus)
    BY DEF TypeOK, FormStatus, FormFsmStatus, NoStatus, Busy
  <1>2. Starts[e] \in FormFsmStatus
    BY DEF Starts, FormFsmStatus
  <1>3. Accepts(e) => /\ RenderNext(FormStatus, e) = Starts[e]
                      /\ FormStatus \in Busy => FormStatus = "RECYCLING_DATA" /\ e = "RECYCLE_FORM"
    BY <1>1, StartRow DEF Accepts
  <1> QED BY <1>1, <1>2, <1>3 DEF PostFormEvent

LEMMA EndPosts ==
    ASSUME TypeOK, NEW e \in DOMAIN Ended, PostFormEvent(e)
    PROVE  /\ rstatus' \in FormFsmStatus
           /\ Accepts(e) <=> rstatus = Ended[e]
           /\ Accepts(e) => rstatus' = After[e]
           /\ ~Accepts(e) => rstatus' = FormStatus
  <1>1. FormStatus \in FormFsmStatus /\ (FormStatus = Ended[e] <=> rstatus = Ended[e])
    BY DEF TypeOK, FormStatus, FormFsmStatus, NoStatus, Ended
  <1>2. After[e] \in FormFsmStatus
    BY DEF After, Ended, FormFsmStatus
  <1>3. (Accepts(e) <=> FormStatus = Ended[e])
        /\ (FormStatus = Ended[e] => RenderNext(FormStatus, e) = After[e])
    BY <1>1, EndRow DEF Accepts
  <1> QED BY <1>1, <1>2, <1>3 DEF PostFormEvent

--------------------------------------------------------------------------------
(* The inductive invariant.                                                *)

\* The call whose handler runs still owns the status it was accepted with; a
\* recycle may lose it to a release, which takes the renderers away.
CallOwnsStatus ==
    call.at = "accepted" =>
        /\ jsq = <<>> /\ ~rTimer
        /\ call.op # "RecycleForm" => rstatus = Starts[EventOf[call.op]]
        /\ call.op = "RecycleForm" /\ group => rstatus \in {"RECYCLING_DATA", "RECYCLING"}

\* Only a delete keeps the status until its handler is through: a release may
\* outlive its timer and run in any status.
DeleteOwnsStatus ==
    working => /\ inbox # <<>>
               /\ Head(inbox).op # "ReleaseRenderer" => rstatus = "DELETING"

\* A client sends an event id with every call.
CallsHaveIds == inbox \in Seq([op: AsyncOps, id: Ids])

\* The record comes with the client to reply to and stays while a release is
\* awaited; a render that is to be done has its request.
RecordIsServed ==
    /\ renderRecord => supply
    /\ rTimer => renderRecord
    /\ jsq # <<>> /\ Head(jsq).op = "RenderForm" => request # "none"

IInv ==
    /\ TypeOK /\ TimerHitsOnlyRecycle /\ JsWorkIsReported /\ WaitIsLimited /\ RecordCoversForm
    /\ CallOwnsStatus /\ DeleteOwnsStatus /\ CallsHaveIds /\ RecordIsServed

LEMMA EmptyIsTyped == \A S : <<>> \in Seq(S)
  OBVIOUS

LEMMA InitIInv == Init => IInv
  <1> SUFFICES ASSUME Init PROVE IInv
    OBVIOUS
  <1>1. TypeOK
    <2>1. <<>> \in Seq([op: SyncOps \ {"RecycleForm"}, id: Ids])
          /\ <<>> \in Seq([op: AsyncOps, id: Ids \cup {NoId}])
      BY EmptyIsTyped
    <2> QED BY <2>1 DEF Init, TypeOK
  <1>2. NoCall.at = "none" /\ NoStatus \notin {"RECYCLING_DATA", "RECYCLING"}
    BY DEF NoCall, NoStatus
  <1>3. CallsHaveIds
    BY EmptyIsTyped DEF Init, CallsHaveIds
  <1> QED
    BY <1>1, <1>2, <1>3
    DEF Init, IInv, TimerHitsOnlyRecycle, JsWorkIsReported, WaitIsLimited, RecordCoversForm,
        CallOwnsStatus, DeleteOwnsStatus, RecordIsServed

\* A call the service knows nothing of, and a status set to the initial one
\* because the form had none, change nothing the invariant speaks of.
LEMMA CallFacts ==
    ASSUME TypeOK
    PROVE  /\ call.at \in {"sent", "accepted", "OK", "ERR"} =>
                 call \in [op: SyncOps, id: Ids, at: {"sent", "accepted", "OK", "ERR"}]
           /\ call.at \notin {"sent", "accepted", "OK", "ERR"} => call = NoCall
           /\ NoCall.at = "none"
  <1>1. NoCall.at = "none"
    BY DEF NoCall
  <1> QED BY <1>1 DEF TypeOK

LEMMA HeadIsTyped ==
    ASSUME NEW S, NEW q \in Seq(S), q # <<>>
    PROVE  Head(q) \in S /\ Tail(q) \in Seq(S) /\ Len(Tail(q)) = Len(q) - 1
  OBVIOUS

LEMMA LastLeavesNothing ==
    ASSUME NEW S, NEW q \in Seq(S), Len(q) = 1
    PROVE  Tail(q) = <<>>
  <1>1. Tail(q) \in Seq(S) /\ Len(Tail(q)) = 0
    OBVIOUS
  <1> QED BY <1>1, EmptySeq

\* What waits on the JS thread renders or recovers.
LEMMA JsWorkFacts ==
    ASSUME TypeOK, jsq # <<>>
    PROVE  Head(jsq) \in [op: SyncOps \ {"RecycleForm"}, id: Ids]
           /\ Head(jsq).op \in SyncOps \ {"RecycleForm"} /\ Head(jsq).id \in Ids
  <1> DEFINE S == [op: SyncOps \ {"RecycleForm"}, id: Ids]
  <1>1. jsq \in Seq(S)
    BY DEF TypeOK
  <1>2. Head(jsq) \in S
    <2> HIDE DEF S
    <2> QED BY <1>1, HeadIsTyped
  <1> QED BY <1>2

LEMMA StatusFacts ==
    ASSUME TypeOK
    PROVE  /\ FormStatus \in FormFsmStatus
           /\ \A s \in Busy : FormStatus = s <=> rstatus = s
  BY DEF TypeOK, FormStatus, FormFsmStatus, NoStatus, Busy

--------------------------------------------------------------------------------
(* The client's steps.                                                     *)

LEMMA CallKeeps ==
    ASSUME IInv, NEW op \in SyncOps, NEW id \in Ids, Call(op, id)
    PROVE  IInv'
  <1> USE DEF IInv
  <1>1. call' \in [op: SyncOps, id: Ids, at: {"sent", "accepted", "OK", "ERR"}] /\ call'.at = "sent"
    BY DEF Call
  <1>2. TypeOK'
    BY <1>1 DEF Call, TypeOK
  <1>3. call.at # "accepted"
    BY CallFacts DEF Call
  <1> QED
    BY <1>1, <1>2, <1>3
    DEF Call, TimerHitsOnlyRecycle, JsWorkIsReported, WaitIsLimited, RecordCoversForm,
        CallOwnsStatus, DeleteOwnsStatus, CallsHaveIds, RecordIsServed

LEMMA SendKeeps ==
    ASSUME IInv, NEW op \in AsyncOps, NEW id \in Ids, Send(op, id)
    PROVE  IInv'
  <1> USE DEF IInv
  <1>1. inbox' \in Seq([op: AsyncOps, id: Ids])
    BY DEF Send, CallsHaveIds
  <1>2. inbox' \in Seq([op: AsyncOps, id: Ids \cup {NoId}])
    BY DEF Send, TypeOK
  <1>3. TypeOK'
    BY <1>2 DEF Send, TypeOK
  <1>4. inbox # <<>> => inbox' # <<>> /\ Head(inbox') = Head(inbox)
    BY DEF Send, CallsHaveIds
  <1> QED
    BY <1>1, <1>3, <1>4
    DEF Send, TimerHitsOnlyRecycle, JsWorkIsReported, WaitIsLimited, RecordCoversForm,
        CallOwnsStatus, DeleteOwnsStatus, CallsHaveIds, RecordIsServed

LEMMA ResultKeeps ==
    ASSUME IInv, NEW r \in {"OK", "ERR"}, Result(r)
    PROVE  IInv'
  <1> USE DEF IInv
  <1>1. call.at # "accepted" /\ call' = NoCall /\ NoCall.at = "none"
    BY CallFacts DEF Result
  <1>2. TypeOK'
    BY <1>1 DEF Result, TypeOK
  <1> QED
    BY <1>1, <1>2
    DEF Result, TimerHitsOnlyRecycle, JsWorkIsReported, WaitIsLimited, RecordCoversForm,
        CallOwnsStatus, DeleteOwnsStatus, CallsHaveIds, RecordIsServed

LEMMA DeliverKeeps ==
    ASSUME IInv, NEW r \in outbox, Deliver(r)
    PROVE  IInv'
  <1> USE DEF IInv
  <1>1. TypeOK'
    BY DEF Deliver, TypeOK
  <1> QED
    BY <1>1
    DEF Deliver, TimerHitsOnlyRecycle, JsWorkIsReported, WaitIsLimited, RecordCoversForm,
        CallOwnsStatus, DeleteOwnsStatus, CallsHaveIds, RecordIsServed

--------------------------------------------------------------------------------
(* The synchronous calls.                                                  *)

\* The events of the calls, and what they start.
LEMMA EventFacts ==
    /\ \A op \in SyncOps \cup AsyncOps : EventOf[op] \in DOMAIN Starts /\ Starts[EventOf[op]] \in Busy
    /\ \A op \in SyncOps : EventOf[op] # "RECYCLE_FORM"
    /\ Starts[EventOf["RenderForm"]] = "RENDERING" /\ Starts[EventOf["UpdateForm"]] = "RENDERING"
    /\ Starts[EventOf["RecycleForm"]] = "RECYCLING_DATA"
    /\ Starts[EventOf["RecoverForm"]] = "RECOVERING"
    /\ Starts[EventOf["ReleaseRenderer"]] = "RECYCLING"
    /\ EventOf["ReleaseRenderer"] = "RECYCLE_FORM"
    /\ \A op \in AsyncOps \ {"ReleaseRenderer"} :
          EventOf[op] = "DELETE_FORM" /\ Starts[EventOf[op]] = "DELETING"
  BY DEF EventOf, Starts, Busy, SyncOps, AsyncOps

LEMMA ReceiveCallKeeps ==
    ASSUME IInv, ReceiveCall
    PROVE  IInv'
  <1> USE DEF IInv
  <1> DEFINE e == EventOf[call.op]
  <1>1. /\ call \in [op: SyncOps, id: Ids, at: {"sent", "accepted", "OK", "ERR"}]
        /\ call.op \in SyncOps /\ call.at = "sent"
    BY CallFacts DEF ReceiveCall
  <1>2. /\ call' = [call EXCEPT !.at = IF Accepts(e) THEN "accepted" ELSE "ERR"]
        /\ PostFormEvent(e)
        /\ UNCHANGED <<supply, renderRecord, group, request, jsq, rTimer, inbox, working, outbox>>
    BY DEF ReceiveCall, Return
  <1>3. /\ e \in DOMAIN Starts /\ Starts[e] \in Busy /\ e # "RECYCLE_FORM"
    BY <1>1, EventFacts
  <1>4. /\ rstatus' \in FormFsmStatus
        /\ Accepts(e) => rstatus' = Starts[e] /\ rstatus \notin Busy
        /\ ~Accepts(e) => rstatus' = FormStatus
    BY <1>2, <1>3, StartPosts
  <1>5. /\ call' \in [op: SyncOps, id: Ids, at: {"sent", "accepted", "OK", "ERR"}]
        /\ call'.op = call.op
        /\ call'.at = IF Accepts(e) THEN "accepted" ELSE "ERR"
    BY <1>1, <1>2
  <1>6. TypeOK'
    BY <1>2, <1>4, <1>5 DEF TypeOK
  <1>7. CASE Accepts(e)
    <2>1. jsq = <<>> /\ ~rTimer /\ (working => Head(inbox).op = "ReleaseRenderer")
      <3>1. jsq # <<>> => Starts[EventOf[Head(jsq).op]] \in Busy
        BY EventFacts, JsWorkFacts
      <3> QED BY <1>4, <1>7, <3>1
              DEF JsWorkIsReported, TimerHitsOnlyRecycle, DeleteOwnsStatus, Busy
    <2> QED
      BY <1>2, <1>4, <1>5, <1>6, <1>7, <2>1, EventFacts
      DEF TimerHitsOnlyRecycle, JsWorkIsReported, WaitIsLimited, RecordCoversForm,
          CallOwnsStatus, DeleteOwnsStatus, CallsHaveIds, RecordIsServed
  <1>8. CASE ~Accepts(e)
    <2>1. \A s \in Busy : rstatus' = s <=> rstatus = s
      BY <1>4, <1>8, StatusFacts
    <2>2. jsq # <<>> => Starts[EventOf[Head(jsq).op]] \in Busy
      BY EventFacts, JsWorkFacts
    <2> HIDE DEF e
    <2>3. TimerHitsOnlyRecycle' /\ WaitIsLimited' /\ CallOwnsStatus' /\ DeleteOwnsStatus'
      BY <1>1, <1>2, <1>5, <1>8, <2>1
      DEF TimerHitsOnlyRecycle, WaitIsLimited, CallOwnsStatus, DeleteOwnsStatus, Busy
    <2>4. JsWorkIsReported'
      BY <1>2, <2>1, <2>2 DEF JsWorkIsReported
    <2> QED BY <1>2, <1>6, <2>3, <2>4 DEF RecordCoversForm, CallsHaveIds, RecordIsServed
  <1> QED BY <1>7, <1>8

\* What the handler of an accepted call finds.
LEMMA HandlerFacts ==
    ASSUME IInv, NEW ops \in SUBSET SyncOps, Handles(ops)
    PROVE  /\ call \in [op: SyncOps, id: Ids, at: {"sent", "accepted", "OK", "ERR"}]
           /\ call.op \in ops /\ call.id \in Ids
           /\ jsq = <<>> /\ ~rTimer
           /\ call.op # "RecycleForm" => rstatus = Starts[EventOf[call.op]]
           /\ call.op = "RecycleForm" /\ group => rstatus \in {"RECYCLING_DATA", "RECYCLING"}
           /\ \A r \in {"OK", "ERR"} : Return(r) =>
                 /\ call' \in [op: SyncOps, id: Ids, at: {"sent", "accepted", "OK", "ERR"}]
                 /\ call'.at # "accepted"
  <1>1. call.at = "accepted" /\ call.op \in ops
    BY DEF Handles
  <1>2. call \in [op: SyncOps, id: Ids, at: {"sent", "accepted", "OK", "ERR"}]
    BY <1>1, CallFacts DEF IInv
  <1>3. ASSUME NEW r \in {"OK", "ERR"}, Return(r)
        PROVE  /\ call' \in [op: SyncOps, id: Ids, at: {"sent", "accepted", "OK", "ERR"}]
               /\ call'.at # "accepted"
    BY <1>2, <1>3 DEF Return
  <1> QED BY <1>1, <1>2, <1>3 DEF IInv, CallOwnsStatus

LEMMA RenderFormKeeps ==
    ASSUME IInv, RenderForm
    PROVE  IInv'
  <1> USE DEF IInv
  <1>1. Handles({"RenderForm", "UpdateForm"})
    BY DEF RenderForm
  <1>2. /\ call \in [op: SyncOps, id: Ids, at: {"sent", "accepted", "OK", "ERR"}]
        /\ call.op \in {"RenderForm", "UpdateForm"} /\ call.id \in Ids
        /\ jsq = <<>> /\ ~rTimer /\ rstatus = "RENDERING"
        /\ \A r \in {"OK", "ERR"} : Return(r) =>
              /\ call' \in [op: SyncOps, id: Ids, at: {"sent", "accepted", "OK", "ERR"}]
              /\ call'.at # "accepted"
    BY <1>1, HandlerFacts, EventFacts DEF SyncOps
  <1>3. UNCHANGED <<inbox, working, group, rTimer, outbox>> /\ supply' /\ renderRecord'
        /\ supply' \in BOOLEAN /\ renderRecord' \in BOOLEAN
    BY <1>1 DEF RenderForm, Handles
  <1>4. CASE /\ PostFormEvent("RENDER_FORM_FAIL") /\ Return("ERR") /\ UNCHANGED <<request, jsq>>
    <2>1. rstatus' = "UNPROCESSABLE"
      BY <1>2, <1>4, EndPosts DEF Ended, After
    <2>2. TypeOK'
      BY <1>2, <1>3, <1>4, <2>1 DEF TypeOK, FormFsmStatus
    <2> QED
      BY <1>2, <1>3, <1>4, <2>1, <2>2
      DEF TimerHitsOnlyRecycle, JsWorkIsReported, WaitIsLimited, RecordCoversForm,
          CallOwnsStatus, DeleteOwnsStatus, CallsHaveIds, RecordIsServed
  <1>5. CASE /\ request' = IF call.op = "RenderForm" THEN "live" ELSE request
             /\ jsq' = Append(jsq, [op |-> call.op, id |-> call.id])
             /\ Return("OK")
             /\ UNCHANGED rstatus
    <2> DEFINE t == [op |-> call.op, id |-> call.id]
    <2>1. t \in [op: SyncOps \ {"RecycleForm"}, id: Ids] /\ jsq' = <<t>>
      BY <1>2, <1>5 DEF SyncOps
    <2>2. jsq' \in Seq([op: SyncOps \ {"RecycleForm"}, id: Ids])
          /\ Len(jsq') = 1 /\ Head(jsq') = t /\ jsq' # <<>>
      <3> DEFINE S == [op: SyncOps \ {"RecycleForm"}, id: Ids]
      <3> HIDE DEF S, t
      <3>1. jsq' \in Seq(S) /\ Len(jsq') = 1 /\ Head(jsq') = t /\ jsq' # <<>>
        BY <2>1 DEF S
      <3> QED BY <3>1 DEF S
    <2>3. TypeOK'
      BY <1>2, <1>3, <1>5, <2>2 DEF TypeOK
    <2>4. t.op = call.op /\ Starts[EventOf[t.op]] = "RENDERING"
      BY <1>2, EventFacts
    <2> HIDE DEF t
    <2>5. JsWorkIsReported'
      BY <1>2, <1>5, <2>2, <2>4 DEF JsWorkIsReported
    <2>6. RecordIsServed' /\ RecordCoversForm'
      BY <1>2, <1>3, <1>5, <2>2, <2>4 DEF RecordIsServed, RecordCoversForm
    <2> QED
      BY <1>2, <1>3, <1>5, <2>3, <2>5, <2>6
      DEF TimerHitsOnlyRecycle, WaitIsLimited, CallOwnsStatus, DeleteOwnsStatus, CallsHaveIds
  <1> QED BY <1>4, <1>5 DEF RenderForm

\* A reply on its way is typed.
LEMMA ReplyType ==
    ASSUME TypeOK, NEW e \in Replies, NEW id \in Ids, PostReplyEvent(e, id)
    PROVE  outbox' \subseteq [event: Replies, id: Ids, waits: {"js", "binder", "none"}]
  <1>1. Waits(e) \in {"js", "binder", "none"}
    BY DEF Waits
  <1> QED BY <1>1 DEF PostReplyEvent, TypeOK

LEMMA RecycleFormKeeps ==
    ASSUME IInv, RecycleForm
    PROVE  IInv'
  <1> USE DEF IInv
  <1>1. Handles({"RecycleForm"})
    BY DEF RecycleForm
  <1>2. /\ call.op = "RecycleForm" /\ call.id \in Ids /\ jsq = <<>> /\ ~rTimer
        /\ group => rstatus \in {"RECYCLING_DATA", "RECYCLING"}
        /\ \A r \in {"OK", "ERR"} : Return(r) =>
              /\ call' \in [op: SyncOps, id: Ids, at: {"sent", "accepted", "OK", "ERR"}]
              /\ call'.at # "accepted"
    BY <1>1, HandlerFacts DEF SyncOps
  <1>3. UNCHANGED <<inbox, working, supply, renderRecord, group, request, jsq>>
    BY <1>1 DEF RecycleForm, Handles
  <1>4. CASE /\ supply /\ renderRecord /\ group
             /\ rTimer' = TRUE
             /\ PostReplyEvent("RECYCLE_DATA_DONE", call.id) /\ Return("OK")
    <2>1. rstatus' = rstatus /\ rstatus \in {"RECYCLING_DATA", "RECYCLING"}
      <3>1. PostFormEvent("RECYCLE_DATA_DONE") /\ "RECYCLE_DATA_DONE" \in DOMAIN Ended
        BY <1>4 DEF PostReplyEvent, Ended
      <3>2. Ended["RECYCLE_DATA_DONE"] = "RECYCLING_DATA" /\ After["RECYCLE_DATA_DONE"] = "RECYCLING_DATA"
        BY DEF Ended, After
      <3> QED BY <1>2, <1>4, <3>1, <3>2, EndPosts, StatusFacts DEF Busy
    <2>2. TypeOK'
      <3>1. outbox' \subseteq [event: Replies, id: Ids, waits: {"js", "binder", "none"}]
        BY <1>2, <1>4, ReplyType DEF Replies
      <3> QED BY <1>2, <1>3, <1>4, <2>1, <3>1 DEF TypeOK
    <2> QED
      BY <1>2, <1>3, <1>4, <2>1, <2>2
      DEF TimerHitsOnlyRecycle, JsWorkIsReported, WaitIsLimited, RecordCoversForm,
          CallOwnsStatus, DeleteOwnsStatus, CallsHaveIds, RecordIsServed
  <1>5. CASE /\ ~(supply /\ renderRecord /\ group)
             /\ PostFormEvent("RECYCLE_DATA_FAIL") /\ Return("ERR") /\ UNCHANGED <<rTimer, outbox>>
    <2>1. ~group
      BY <1>5 DEF RecordCoversForm, RecordIsServed
    <2>2. /\ rstatus' \in FormFsmStatus
          /\ working /\ Head(inbox).op # "ReleaseRenderer" => rstatus' = "DELETING"
      <3>1. "RECYCLE_DATA_FAIL" \in DOMAIN Ended /\ Ended["RECYCLE_DATA_FAIL"] = "RECYCLING_DATA"
        BY DEF Ended
      <3> QED BY <1>5, <3>1, EndPosts, StatusFacts DEF DeleteOwnsStatus, Busy
    <2>3. TypeOK'
      BY <1>2, <1>3, <1>5, <2>2 DEF TypeOK
    <2> QED
      BY <1>2, <1>3, <1>5, <2>1, <2>2, <2>3
      DEF TimerHitsOnlyRecycle, JsWorkIsReported, WaitIsLimited, RecordCoversForm,
          CallOwnsStatus, DeleteOwnsStatus, CallsHaveIds, RecordIsServed
  <1> QED BY <1>4, <1>5 DEF RecycleForm, ScheduleRecycleTimeout

LEMMA RecoverFormKeeps ==
    ASSUME IInv, RecoverForm
    PROVE  IInv'
  <1> USE DEF IInv
  <1>1. Handles({"RecoverForm"})
    BY DEF RecoverForm
  <1>2. /\ call.op = "RecoverForm" /\ call.id \in Ids /\ jsq = <<>> /\ ~rTimer
        /\ rstatus = "RECOVERING"
        /\ \A r \in {"OK", "ERR"} : Return(r) =>
              /\ call' \in [op: SyncOps, id: Ids, at: {"sent", "accepted", "OK", "ERR"}]
              /\ call'.at # "accepted"
    BY <1>1, HandlerFacts, EventFacts DEF SyncOps
  <1>3. UNCHANGED <<inbox, working, supply, renderRecord, group, request, rTimer, outbox>>
    BY <1>1 DEF RecoverForm, Handles
  <1>4. CASE /\ supply /\ renderRecord
             /\ jsq' = Append(jsq, [op |-> call.op, id |-> call.id])
             /\ Return("OK")
             /\ UNCHANGED rstatus
    <2> DEFINE S == [op: SyncOps \ {"RecycleForm"}, id: Ids]
               t == [op |-> "RecoverForm", id |-> call.id]
    <2>1. t \in S /\ jsq' = <<t>> /\ t.op = "RecoverForm"
      BY <1>2, <1>4 DEF SyncOps
    <2>2. jsq' \in Seq(S) /\ Len(jsq') = 1 /\ Head(jsq') = t
      <3> HIDE DEF S, t
      <3> QED BY <2>1
    <2>3. TypeOK'
      BY <1>2, <1>3, <1>4, <2>2 DEF TypeOK
    <2> HIDE DEF t, S
    <2> QED
      BY <1>2, <1>3, <1>4, <2>1, <2>2, <2>3, EventFacts
      DEF TimerHitsOnlyRecycle, JsWorkIsReported, WaitIsLimited, RecordCoversForm,
          CallOwnsStatus, DeleteOwnsStatus, CallsHaveIds, RecordIsServed
  <1>5. CASE PostFormEvent("RECOVER_FORM_FAIL") /\ Return("ERR") /\ UNCHANGED jsq
    <2>1. rstatus' = "UNPROCESSABLE"
      BY <1>2, <1>5, EndPosts DEF Ended, After
    <2>2. TypeOK'
      BY <1>2, <1>3, <1>5, <2>1 DEF TypeOK, FormFsmStatus
    <2> QED
      BY <1>2, <1>3, <1>5, <2>1, <2>2
      DEF TimerHitsOnlyRecycle, JsWorkIsReported, WaitIsLimited, RecordCoversForm,
          CallOwnsStatus, DeleteOwnsStatus, CallsHaveIds, RecordIsServed
  <1> QED BY <1>4, <1>5 DEF RecoverForm

--------------------------------------------------------------------------------
(* The asynchronous calls.                                                 *)

\* The first of the asynchronous calls, and the others once it is served.
LEMMA InboxFacts ==
    ASSUME IInv, inbox # <<>>
    PROVE  /\ Head(inbox).op \in AsyncOps /\ Head(inbox).id \in Ids
           /\ Tail(inbox) \in Seq([op: AsyncOps, id: Ids])
           /\ Tail(inbox) \in Seq([op: AsyncOps, id: Ids \cup {NoId}])
  <1> DEFINE S == [op: AsyncOps, id: Ids]
             T == [op: AsyncOps, id: Ids \cup {NoId}]
  <1>1. inbox \in Seq(S) /\ inbox \in Seq(T)
    BY DEF IInv, CallsHaveIds, TypeOK
  <1>2. Head(inbox) \in S /\ Tail(inbox) \in Seq(S) /\ Tail(inbox) \in Seq(T)
    <2> HIDE DEF S, T
    <2> QED BY <1>1, HeadIsTyped
  <1> QED BY <1>2

LEMMA ReceiveAsyncKeeps ==
    ASSUME IInv, ReceiveAsync
    PROVE  IInv'
  <1> USE DEF IInv
  <1> DEFINE e == EventOf[Head(inbox).op]
  <1>1. /\ inbox # <<>> /\ ~working /\ PostFormEvent(e)
        /\ working' = Accepts(e) /\ inbox' = IF working' THEN inbox ELSE Tail(inbox)
        /\ UNCHANGED <<supply, renderRecord, group, request, jsq, rTimer, call, outbox>>
    BY DEF ReceiveAsync
  <1>2. Head(inbox).op \in AsyncOps /\ e \in DOMAIN Starts
    BY <1>1, InboxFacts, EventFacts
  <1>3. /\ rstatus' \in FormFsmStatus
        /\ Accepts(e) => /\ rstatus' = Starts[e]
                         /\ rstatus \in Busy => rstatus = "RECYCLING_DATA" /\ e = "RECYCLE_FORM"
        /\ ~Accepts(e) => rstatus' = FormStatus
    BY <1>1, <1>2, StartPosts
  <1>4. /\ TypeOK'
        /\ CallsHaveIds'
    <2>1. Accepts(e) \in BOOLEAN
      BY DEF Accepts, RenderHasRow
    <2>2. /\ inbox' \in Seq([op: AsyncOps, id: Ids])
          /\ inbox' \in Seq([op: AsyncOps, id: Ids \cup {NoId}])
      BY <1>1, InboxFacts DEF TypeOK, CallsHaveIds
    <2> QED BY <1>1, <1>3, <2>1, <2>2 DEF TypeOK, CallsHaveIds
  <1>5. jsq # <<>> => Starts[EventOf[Head(jsq).op]] \in {"RENDERING", "RECOVERING"}
    BY JsWorkFacts, EventFacts DEF SyncOps
  <1>6. CASE Accepts(e)
    <2>1. jsq = <<>>
      BY <1>3, <1>5, <1>6 DEF JsWorkIsReported, Busy
    <2>2. (rTimer \/ (call.at = "accepted" /\ call.op = "RecycleForm" /\ group)) =>
             rstatus = "RECYCLING_DATA" /\ rstatus' = "RECYCLING"
      <3>1. (rTimer \/ (call.at = "accepted" /\ call.op = "RecycleForm" /\ group)) =>
               rstatus \in {"RECYCLING_DATA", "RECYCLING"}
        BY DEF TimerHitsOnlyRecycle, CallOwnsStatus
      <3> QED BY <1>3, <1>6, <3>1 DEF Busy, Starts
    <2>3. rstatus' # "RECYCLING_DATA"
      BY <1>2, <1>3, <1>6, EventFacts
    <2>4. call.at = "accepted" => call.op = "RecycleForm"
      <3>1. ASSUME call.at = "accepted", call.op # "RecycleForm"
            PROVE  Starts[EventOf[call.op]] \in {"RENDERING", "RECOVERING"}
        BY <3>1, CallFacts, EventFacts DEF SyncOps
      <3> QED BY <1>3, <1>6, <3>1 DEF CallOwnsStatus, Busy
    <2>5. DeleteOwnsStatus'
      BY <1>1, <1>2, <1>3, <1>6, EventFacts DEF DeleteOwnsStatus
    <2> HIDE DEF e
    <2> QED
      BY <1>1, <1>4, <2>1, <2>2, <2>3, <2>4, <2>5
      DEF TimerHitsOnlyRecycle, JsWorkIsReported, WaitIsLimited, RecordCoversForm,
          CallOwnsStatus, RecordIsServed
  <1>7. CASE ~Accepts(e)
    <2>1. \A s \in Busy : rstatus' = s <=> rstatus = s
      BY <1>3, <1>7, StatusFacts
    <2>2. ~working' 
      BY <1>1, <1>7
    <2>3. JsWorkIsReported'
      BY <1>1, <1>5, <2>1 DEF JsWorkIsReported, Busy
    <2>4. CallOwnsStatus'
      <3>1. call.at = "accepted" => call.op = "RecycleForm" \/ Starts[EventOf[call.op]] \in Busy
        BY CallFacts, EventFacts
      <3> QED BY <1>1, <2>1, <3>1 DEF CallOwnsStatus, Busy
    <2> HIDE DEF e
    <2> QED
      BY <1>1, <1>4, <2>1, <2>2, <2>3, <2>4
      DEF TimerHitsOnlyRecycle, WaitIsLimited, RecordCoversForm, DeleteOwnsStatus,
          RecordIsServed, Busy
  <1> QED BY <1>6, <1>7

\* What the handler of an accepted asynchronous call finds and leaves.
LEMMA WorkerFacts ==
    ASSUME IInv, NEW ops \in SUBSET AsyncOps, Works(ops)
    PROVE  /\ Head(inbox).op \in ops /\ Head(inbox).id \in Ids /\ Head(inbox).id # NoId
           /\ Head(inbox).op # "ReleaseRenderer" => rstatus = "DELETING"
           /\ ~working' /\ working' \in BOOLEAN /\ CallsHaveIds'
           /\ inbox' \in Seq([op: AsyncOps, id: Ids \cup {NoId}])
           /\ UNCHANGED <<supply, jsq, call>>
  <1>1. working /\ inbox # <<>> /\ inbox' = Tail(inbox)
    BY DEF Works, IInv, DeleteOwnsStatus
  <1> QED BY <1>1, InboxFacts, FormRenderServiceAssumption
          DEF Works, IInv, DeleteOwnsStatus, CallsHaveIds

LEMMA ReleaseRendererKeeps ==
    ASSUME IInv, ReleaseRenderer
    PROVE  IInv'
  <1> USE DEF IInv
  <1>1. /\ Head(inbox).id \in Ids /\ Head(inbox).id # NoId
        /\ ~working' /\ working' \in BOOLEAN /\ CallsHaveIds'
        /\ inbox' \in Seq([op: AsyncOps, id: Ids \cup {NoId}])
        /\ UNCHANGED <<supply, jsq, call, renderRecord>>
    BY WorkerFacts DEF ReleaseRenderer, AsyncOps
  <1>2. jsq # <<>> => Starts[EventOf[Head(jsq).op]] \in {"RENDERING", "RECOVERING"}
    BY JsWorkFacts, EventFacts DEF SyncOps
  <1>3. call.at = "accepted" =>
           call.op = "RecycleForm" \/ Starts[EventOf[call.op]] \in {"RENDERING", "RECOVERING"}
    BY CallFacts, EventFacts DEF SyncOps
  \* The release fails: there is nothing to wait for, nothing is released.
  <1>4. CASE /\ PostFormEvent("RECYCLE_FORM_FAIL") /\ ~(supply /\ renderRecord)
             /\ outbox' \subseteq [event: Replies, id: Ids, waits: {"js", "binder", "none"}]
             /\ UNCHANGED <<group, request, rTimer>>
    <2>1. ~rTimer /\ ~group
      BY <1>4 DEF RecordCoversForm, RecordIsServed
    <2>2. /\ rstatus' \in FormFsmStatus
          /\ \A s \in {"RENDERING", "RECOVERING"} : rstatus = s => rstatus' = s
      <3>1. "RECYCLE_FORM_FAIL" \in DOMAIN Ended /\ Ended["RECYCLE_FORM_FAIL"] = "RECYCLING"
        BY DEF Ended
      <3> QED BY <1>4, <3>1, EndPosts, StatusFacts DEF Busy
    <2>3. TypeOK'
      BY <1>1, <1>4, <2>2 DEF TypeOK
    <2>4. JsWorkIsReported'
      BY <1>1, <1>2, <2>2 DEF JsWorkIsReported
    <2> QED
      BY <1>1, <1>3, <1>4, <2>1, <2>2, <2>3, <2>4
      DEF TimerHitsOnlyRecycle, WaitIsLimited, RecordCoversForm,
          CallOwnsStatus, DeleteOwnsStatus, RecordIsServed
  \* The renderers go, and the timer with them.
  <1>5. CASE /\ renderRecord /\ JsIdle
             /\ group' = FALSE
             /\ request' = IF group /\ request = "live" THEN "released" ELSE request
             /\ rTimer' = FALSE
             /\ PostReplyEvent("RECYCLE_FORM_DONE", Head(inbox).id)
    <2>1. jsq = <<>>
      BY <1>5 DEF JsIdle
    <2>2. /\ rstatus' \in FormFsmStatus
          /\ \A s \in {"RENDERING", "RECOVERING"} : rstatus = s => rstatus' = s
      <3>1. "RECYCLE_FORM_DONE" \in DOMAIN Ended /\ Ended["RECYCLE_FORM_DONE"] = "RECYCLING"
        BY DEF Ended
      <3> QED BY <1>5, <3>1, EndPosts, StatusFacts DEF Busy, PostReplyEvent
    <2>3. outbox' \subseteq [event: Replies, id: Ids, waits: {"js", "binder", "none"}]
      BY <1>1, <1>5, ReplyType DEF Replies
    <2>4. TypeOK'
      BY <1>1, <1>5, <2>2, <2>3 DEF TypeOK
    <2> QED
      BY <1>1, <1>3, <1>5, <2>1, <2>2, <2>4
      DEF TimerHitsOnlyRecycle, JsWorkIsReported, WaitIsLimited, RecordCoversForm,
          CallOwnsStatus, DeleteOwnsStatus, RecordIsServed
  <1>6. outbox \subseteq [event: Replies, id: Ids, waits: {"js", "binder", "none"}]
    BY DEF TypeOK
  <1>7. PostReplyEvent("RECYCLE_FORM_FAIL", Head(inbox).id) =>
           outbox' \subseteq [event: Replies, id: Ids, waits: {"js", "binder", "none"}]
    BY <1>1, ReplyType DEF Replies
  <1>8. \/ /\ ~supply
           /\ PostFormEvent("RECYCLE_FORM_FAIL")
           /\ UNCHANGED <<group, request, rTimer, outbox>>
        \/ /\ ~renderRecord
           /\ PostReplyEvent("RECYCLE_FORM_FAIL", Head(inbox).id)
           /\ UNCHANGED <<group, request, rTimer>>
        \/ /\ renderRecord /\ JsIdle
           /\ group' = FALSE
           /\ request' = IF group /\ request = "live" THEN "released" ELSE request
           /\ rTimer' = FALSE
           /\ PostReplyEvent("RECYCLE_FORM_DONE", Head(inbox).id)
    BY <1>1 DEF ReleaseRenderer, CancelRecycleTimeout
  <1> QED BY <1>4, <1>5, <1>6, <1>7, <1>8 DEF PostReplyEvent

LEMMA StopRenderingFormKeeps ==
    ASSUME IInv, StopRenderingForm
    PROVE  IInv'
  <1> USE DEF IInv
  <1>1. /\ Head(inbox).id \in Ids /\ rstatus = "DELETING"
        /\ ~working' /\ working' \in BOOLEAN /\ CallsHaveIds'
        /\ inbox' \in Seq([op: AsyncOps, id: Ids \cup {NoId}])
        /\ UNCHANGED <<supply, jsq, call, rTimer>>
    <2>1. Works({"StopRenderingForm", "StopComponent"}) /\ UNCHANGED rTimer
      BY DEF StopRenderingForm
    <2>2. {"StopRenderingForm", "StopComponent"} \in SUBSET AsyncOps
      BY DEF AsyncOps
    <2> QED BY <2>1, <2>2, WorkerFacts
  <1>2. jsq = <<>>
    <2>1. jsq # <<>> => Starts[EventOf[Head(jsq).op]] \in {"RENDERING", "RECOVERING"}
      BY JsWorkFacts, EventFacts DEF SyncOps
    <2> QED BY <1>1, <2>1 DEF JsWorkIsReported
  <1>3. /\ ~rTimer
        /\ call.at = "accepted" => call.op = "RecycleForm" /\ ~group
    <2>1. call.at = "accepted" =>
             call.op = "RecycleForm" \/ Starts[EventOf[call.op]] \in {"RENDERING", "RECOVERING"}
      BY CallFacts, EventFacts DEF SyncOps
    <2> QED BY <1>1, <2>1 DEF TimerHitsOnlyRecycle, CallOwnsStatus
  <1>4. ASSUME NEW e \in {"DELETE_FORM_FAIL", "DELETE_FORM_FINISH", "DELETE_FORM_DONE"},
               PostReplyEvent(e, Head(inbox).id)
        PROVE  /\ rstatus' \in {"RENDERED", "UNPROCESSABLE"}
               /\ outbox' \subseteq [event: Replies, id: Ids, waits: {"js", "binder", "none"}]
    <2>1. e \in DOMAIN Ended /\ Ended[e] = "DELETING" /\ After[e] \in {"RENDERED", "UNPROCESSABLE"}
      BY DEF Ended, After
    <2>2. e \in Replies
      BY DEF Replies
    <2> QED BY <1>1, <1>4, <2>1, <2>2, EndPosts, ReplyType DEF PostReplyEvent
  <1>5. /\ rstatus' \in {"RENDERED", "UNPROCESSABLE"}
        /\ outbox' \subseteq [event: Replies, id: Ids, waits: {"js", "binder", "none"}]
    BY <1>4 DEF StopRenderingForm
  \* Renderers, request and record go in that order.
  <1> DEFINE Shrinks ==
          /\ group' \in BOOLEAN /\ request' \in {"none", "live", "released"} /\ renderRecord' \in BOOLEAN
          /\ group' => group /\ request' = request
          /\ renderRecord' => renderRecord
          /\ group' \/ request' # "none" => renderRecord'
  <1>6. Shrinks
    <2>1. CASE renderRecord /\ group' = FALSE /\ request' = "none" /\ renderRecord' = FALSE
      BY <2>1
    <2>2. CASE UNCHANGED <<group, request, renderRecord>>
      BY <2>2 DEF TypeOK, RecordCoversForm
    <2>3. ASSUME NEW lastOne \in BOOLEAN, renderRecord,
                 group' = (group /\ ~lastOne),
                 request' = IF lastOne THEN "none" ELSE request,
                 renderRecord' = ~IsEmpty(group', request')
          PROVE  Shrinks
      <3>1. CASE lastOne
        BY <2>3, <3>1 DEF IsEmpty
      <3>2. CASE ~lastOne
        <4>1. (group' <=> group) /\ group' \in BOOLEAN /\ request' = request
          BY <2>3, <3>2, Zenon
        <4>2. renderRecord' \in BOOLEAN /\ (renderRecord' <=> ~IsEmpty(group', request'))
          BY <2>3, Zenon DEF IsEmpty
        <4> QED BY <2>3, <4>1, <4>2 DEF IsEmpty, TypeOK
      <3> QED BY <3>1, <3>2
    <2> QED BY <2>1, <2>2, <2>3 DEF StopRenderingForm
  <1>7. TypeOK'
    BY <1>1, <1>5, <1>6 DEF TypeOK, FormFsmStatus
  <1> QED
    BY <1>1, <1>2, <1>3, <1>5, <1>6, <1>7
    DEF TimerHitsOnlyRecycle, JsWorkIsReported, WaitIsLimited, RecordCoversForm,
        CallOwnsStatus, DeleteOwnsStatus, RecordIsServed

--------------------------------------------------------------------------------
(* The JS thread, the timer and the death of the process.                  *)

\* What a task of the JS thread finds: its operation has the status, no call
\* is being handled, and it is the only task.
LEMMA TaskFacts ==
    ASSUME IInv, NEW ops, JsTask(ops)
    PROVE  /\ jsq # <<>> /\ Head(jsq).op \in ops /\ Head(jsq).id \in Ids /\ jsq' = <<>>
           /\ rstatus = Starts[EventOf[Head(jsq).op]] /\ rstatus \in {"RENDERING", "RECOVERING"}
           /\ ~rTimer /\ call.at # "accepted" /\ renderRecord
           /\ working => Head(inbox).op = "ReleaseRenderer"
           /\ UNCHANGED <<supply, renderRecord, rTimer, call, inbox, working>>
  <1>1. /\ jsq # <<>> /\ Head(jsq).op \in ops /\ jsq' = Tail(jsq)
        /\ UNCHANGED <<supply, renderRecord, rTimer, call, inbox, working>>
    BY DEF JsTask
  <1>2. Len(jsq) = 1 /\ rstatus = Starts[EventOf[Head(jsq).op]]
    BY <1>1 DEF IInv, JsWorkIsReported
  <1>3. Starts[EventOf[Head(jsq).op]] \in {"RENDERING", "RECOVERING"} /\ Head(jsq).id \in Ids
    BY <1>1, JsWorkFacts, EventFacts DEF IInv, SyncOps
  <1>4. jsq' = <<>>
    <2>1. jsq \in Seq([op: SyncOps \ {"RecycleForm"}, id: Ids])
      BY DEF IInv, TypeOK
    <2> QED BY <1>1, <1>2, <2>1, LastLeavesNothing
  <1>5. ~rTimer /\ call.at # "accepted" /\ renderRecord
        /\ (working => Head(inbox).op = "ReleaseRenderer")
    BY <1>1, <1>2, <1>3 DEF IInv, TimerHitsOnlyRecycle, CallOwnsStatus, RecordCoversForm,
                            DeleteOwnsStatus
  <1> QED BY <1>1, <1>2, <1>3, <1>4, <1>5

\* The end of a task: what it did to the renderers is covered by the request.
LEMMA TaskKeeps ==
    ASSUME IInv, NEW ops, JsTask(ops), NEW e \in {"RENDER_FORM_DONE", "RECOVER_FORM_DONE"},
           PostReplyEvent(e, Head(jsq).id),
           group' \in BOOLEAN, request' \in {"none", "live", "released"},
           group' => request' = "live"
    PROVE  IInv'
  <1> USE DEF IInv
  <1>1. /\ Head(jsq).id \in Ids /\ jsq' = <<>>
        /\ rstatus \in {"RENDERING", "RECOVERING"}
        /\ ~rTimer /\ call.at # "accepted" /\ renderRecord
        /\ working => Head(inbox).op = "ReleaseRenderer"
        /\ UNCHANGED <<supply, renderRecord, rTimer, call, inbox, working>>
    BY TaskFacts
  <1>2. /\ rstatus' \in FormFsmStatus /\ rstatus' # "RECYCLING_DATA"
    <2>1. e \in DOMAIN Ended /\ After[e] = "RENDERED"
      BY DEF Ended, After
    <2> QED BY <1>1, <2>1, EndPosts, StatusFacts DEF PostReplyEvent, Busy
  <1>3. outbox' \subseteq [event: Replies, id: Ids, waits: {"js", "binder", "none"}]
    BY <1>1, ReplyType DEF Replies
  <1>4. TypeOK'
    <2>1. jsq' \in Seq([op: SyncOps \ {"RecycleForm"}, id: Ids])
      BY <1>1, EmptyIsTyped
    <2> QED BY <1>1, <1>2, <1>3, <2>1 DEF TypeOK
  <1> QED
    BY <1>1, <1>2, <1>4
    DEF TimerHitsOnlyRecycle, JsWorkIsReported, WaitIsLimited, RecordCoversForm,
        CallOwnsStatus, DeleteOwnsStatus, CallsHaveIds, RecordIsServed

LEMMA HandleUpdateRenderRecordKeeps ==
    ASSUME IInv, HandleUpdateRenderRecord
    PROVE  IInv'
  <1>1. JsTask({"RenderForm", "UpdateForm"}) /\ PostReplyEvent("RENDER_FORM_DONE", Head(jsq).id)
    BY DEF HandleUpdateRenderRecord
  <1>2. Head(jsq).op = "RenderForm" => request # "none"
    BY <1>1 DEF IInv, RecordIsServed, JsTask
  <1>3. CASE UNCHANGED <<group, request>>
    BY <1>1, <1>3, TaskKeeps DEF IInv, TypeOK, RecordCoversForm
  <1>4. CASE /\ group' = (group \/ Head(jsq).op = "RenderForm" \/ request = "released")
             /\ request' = IF request = "released" THEN "live" ELSE request
    <2>1. group' \in BOOLEAN /\ request' \in {"none", "live", "released"}
      BY <1>4 DEF IInv, TypeOK
    <2>2. group' => request' = "live"
      BY <1>2, <1>4 DEF IInv, TypeOK, RecordCoversForm
    <2> QED BY <1>1, <2>1, <2>2, TaskKeeps
  <1> QED BY <1>3, <1>4 DEF HandleUpdateRenderRecord

LEMMA HandleRecoverFormKeeps ==
    ASSUME IInv, HandleRecoverForm
    PROVE  IInv'
  <1>1. JsTask({"RecoverForm"}) /\ PostReplyEvent("RECOVER_FORM_DONE", Head(jsq).id)
    BY DEF HandleRecoverForm
  <1>2. CASE UNCHANGED <<group, request>>
    BY <1>1, <1>2, TaskKeeps DEF IInv, TypeOK, RecordCoversForm
  <1>3. CASE /\ group' = (group \/ request = "released")
             /\ request' = IF request = "released" THEN "live" ELSE request
    <2>1. group' \in BOOLEAN /\ request' \in {"none", "live", "released"}
      BY <1>3 DEF IInv, TypeOK
    <2>2. group' => request' = "live"
      BY <1>3 DEF IInv, TypeOK, RecordCoversForm
    <2> QED BY <1>1, <2>1, <2>2, TaskKeeps
  <1> QED BY <1>2, <1>3 DEF HandleRecoverForm

LEMMA RecycleTimerFiresKeeps ==
    ASSUME IInv, RecycleTimerFires
    PROVE  IInv'
  <1> USE DEF IInv
  <1>1. /\ rTimer /\ rTimer' = FALSE /\ rstatus' = "UNPROCESSABLE"
        /\ UNCHANGED <<supply, renderRecord, group, request, jsq, call, inbox, working, outbox>>
    BY DEF RecycleTimerFires
  <1>2. jsq = <<>>
    <2>1. jsq # <<>> => Starts[EventOf[Head(jsq).op]] \in {"RENDERING", "RECOVERING"}
      BY JsWorkFacts, EventFacts DEF SyncOps
    <2> QED BY <1>1, <2>1 DEF TimerHitsOnlyRecycle, JsWorkIsReported
  <1>3. call.at # "accepted" /\ (working => Head(inbox).op = "ReleaseRenderer")
    BY <1>1 DEF CallOwnsStatus, DeleteOwnsStatus, TimerHitsOnlyRecycle
  <1>4. TypeOK'
    BY <1>1 DEF TypeOK, FormFsmStatus
  <1> QED
    BY <1>1, <1>2, <1>3, <1>4
    DEF TimerHitsOnlyRecycle, JsWorkIsReported, WaitIsLimited, RecordCoversForm,
        CallOwnsStatus, DeleteOwnsStatus, CallsHaveIds, RecordIsServed

LEMMA CrashKeeps ==
    ASSUME IInv, Crash
    PROVE  IInv'
  <1> USE DEF IInv
  <1>1. /\ rstatus' = NoStatus /\ supply' = FALSE /\ renderRecord' = FALSE
        /\ group' = FALSE /\ request' = "none" /\ jsq' = <<>> /\ rTimer' = FALSE
        /\ inbox' = <<>> /\ working' = FALSE
        /\ NoStatus \notin {"RECYCLING_DATA", "RECYCLING"}
    BY DEF Crash, NoStatus
  <1>2. call' \in [op: SyncOps, id: Ids, at: {"sent", "accepted", "OK", "ERR"}] \cup {NoCall}
        /\ call'.at # "accepted"
    <2>1. CASE call = NoCall
      BY <2>1, CallFacts DEF Crash
    <2>2. CASE call # NoCall
      BY <2>2 DEF Crash, TypeOK
    <2> QED BY <2>1, <2>2
  <1>3. outbox' \subseteq [event: Replies, id: Ids, waits: {"js", "binder", "none"}]
    <2>1. outbox' = {[r EXCEPT !.waits = "none"] : r \in outbox}
      BY DEF Crash
    <2>2. \A r \in outbox : [r EXCEPT !.waits = "none"]
                               \in [event: Replies, id: Ids, waits: {"js", "binder", "none"}]
      BY DEF TypeOK
    <2> QED BY <2>1, <2>2
  <1>4. TypeOK' /\ CallsHaveIds'
    <2>1. /\ jsq' \in Seq([op: SyncOps \ {"RecycleForm"}, id: Ids])
          /\ inbox' \in Seq([op: AsyncOps, id: Ids \cup {NoId}])
          /\ inbox' \in Seq([op: AsyncOps, id: Ids])
      BY <1>1, EmptyIsTyped
    <2> QED BY <1>1, <1>2, <1>3, <2>1 DEF TypeOK, CallsHaveIds
  <1> QED
    BY <1>1, <1>2, <1>4
    DEF TimerHitsOnlyRecycle, JsWorkIsReported, WaitIsLimited, RecordCoversForm,
        CallOwnsStatus, DeleteOwnsStatus, RecordIsServed

--------------------------------------------------------------------------------
(* The theorems.                                                           *)

LEMMA NextIInv == IInv /\ [Next]_rvars => IInv'
  <1> SUFFICES ASSUME IInv, [Next]_rvars PROVE IInv'
    OBVIOUS
  <1>1. CASE Client
    <2>1. CASE \E id \in Ids, op \in SyncOps : Call(op, id)
      BY <2>1, CallKeeps
    <2>2. CASE \E id \in Ids, op \in AsyncOps : Send(op, id)
      BY <2>2, SendKeeps
    <2>3. CASE \E r \in {"OK", "ERR"} : Result(r)
      BY <2>3, ResultKeeps
    <2>4. CASE \E r \in outbox : Deliver(r)
      BY <2>4, DeliverKeeps
    <2> QED BY <1>1, <2>1, <2>2, <2>3, <2>4 DEF Client
  <1>2. CASE Serve
    BY <1>2, ReceiveCallKeeps, RenderFormKeeps, RecycleFormKeeps, RecoverFormKeeps,
       ReceiveAsyncKeeps, ReleaseRendererKeeps, StopRenderingFormKeeps DEF Serve
  <1>3. CASE JsThread
    BY <1>3, HandleUpdateRenderRecordKeeps, HandleRecoverFormKeeps DEF JsThread
  <1>4. CASE RecycleTimerFires
    BY <1>4, RecycleTimerFiresKeeps
  <1>5. CASE Crash
    BY <1>5, CrashKeeps
  <1>6. CASE UNCHANGED rvars
    BY <1>6
    DEF rvars, IInv, TypeOK, TimerHitsOnlyRecycle, JsWorkIsReported, WaitIsLimited,
        RecordCoversForm, CallOwnsStatus, DeleteOwnsStatus, CallsHaveIds, RecordIsServed
  <1> QED BY <1>1, <1>2, <1>3, <1>4, <1>5, <1>6 DEF Next

LEMMA AlwaysIInv == Spec => []IInv
  BY InitIInv, NextIInv, PTL DEF Spec

\* The state of the render service stays within its types, for every number
\* of events and of waiting calls (FormRenderStatusMgr, FormRenderRecord).
THEOREM RenderServiceIsTyped == Spec => []TypeOK
  <1>1. IInv => TypeOK
    BY DEF IInv
  <1> QED BY <1>1, AlwaysIInv, PTL

\* The release timer, which sets the status without looking at it, runs only
\* while a recycle has the status: it never ends another operation
\* (FormRenderStatusTaskMgr::ScheduleRecycleTimeout).
THEOREM TimerIsOfTheRecycle == Spec => []TimerHitsOnlyRecycle
  <1>1. IInv => TimerHitsOnlyRecycle
    BY DEF IInv
  <1> QED BY <1>1, AlwaysIInv, PTL

\* What the JS thread still has to do belongs to the operation that has the
\* status, so that its end is accepted and reported (FormRenderRecord's
\* HandleUpdateInJsThread and RecoverForm).
THEOREM JsWorkHasTheStatus == Spec => []JsWorkIsReported
  <1>1. IInv => JsWorkIsReported
    BY DEF IInv
  <1> QED BY <1>1, AlwaysIInv, PTL

\* A form whose data is saved and whose renderers are alive does not wait for
\* its release without a timer (FormRenderImpl::RecycleForm).
THEOREM ReleaseIsAwaited == Spec => []WaitIsLimited
  <1>1. IInv => WaitIsLimited
    BY DEF IInv
  <1> QED BY <1>1, AlwaysIInv, PTL

\* Renderers are kept for a request that is not released, and renderers,
\* requests and work on the JS thread only in a render record
\* (FormRenderRecord, FormRenderServiceMgr::StopRenderingForm).
THEOREM RecordCovers == Spec => []RecordCoversForm
  <1>1. IInv => RecordCoversForm
    BY DEF IInv
  <1> QED BY <1>1, AlwaysIInv, PTL

================================================================================
