-------------------------- MODULE FormStatusMgr_proofs --------------------------
(***************************************************************************)
(* Proofs about the form status centre: what filtering a queue gives, its  *)
(* inductive invariant, and that it implements FormOperations.             *)
(***************************************************************************)
EXTENDS FormStatusMgr, Integers, SequenceTheorems, WellFoundedInduction, TLAPS

--------------------------------------------------------------------------------
(* Filtering a queue, each fact by induction over the collected prefix.    *)

IsCollecting(f, s, S, n) ==
    f = [i \in 0 .. n |-> IF i = 0 THEN <<>>
                          ELSE IF s[i] \in S THEN Append(f[i - 1], s[i]) ELSE f[i - 1]]

--------------------------------------------------------------------------------
\* A non-empty set of natural numbers has a least element.
LEMMA LeastNat ==
    ASSUME NEW T \in SUBSET Nat, T # {}
    PROVE  \E m \in T : \A k \in T : m <= k
  <1>1. \E m \in T : \A k \in T : ~ (<<k, m>> \in OpToRel(<, Nat))
    BY NatLessThanWellFounded, WFMin
  <1>2. PICK m \in T : \A k \in T : ~ (<<k, m>> \in OpToRel(<, Nat))
    BY <1>1
  <1>3. ASSUME NEW k \in Nat, NEW l \in Nat, k < l
        PROVE  <<k, l>> \in OpToRel(<, Nat)
    BY <1>3, Zenon DEF OpToRel
  <1>4. \A k \in T : ~ (k < m)
    BY <1>2, <1>3
  <1>5. \A k \in T : m <= k
    BY <1>4
  <1> QED BY <1>5

\* Induction up to n, for the set G of the numbers that satisfy the claim.
LEMMA UpTo ==
    ASSUME NEW n \in Nat, NEW G, 0 \in G,
           ASSUME NEW k \in Nat, k < n, k \in G PROVE k + 1 \in G
    PROVE  \A k \in 0 .. n : k \in G
  <1> DEFINE B == {k \in 0 .. n : k \notin G}
  <1>1. SUFFICES ASSUME B # {} PROVE FALSE
    OBVIOUS
  <1>2. B \in SUBSET Nat
    OBVIOUS
  <1>3. PICK m \in B : \A k \in B : m <= k
    <2> HIDE DEF B
    <2> QED BY <1>1, <1>2, LeastNat
  <1>4. m \in 0 .. n /\ m # 0 /\ m - 1 \in G
    BY <1>3
  <1>5. m - 1 \in Nat /\ m - 1 < n
    BY <1>4
  <1>6. (m - 1) + 1 \in G
    BY <1>4, <1>5
  <1> QED BY <1>3, <1>4, <1>6

--------------------------------------------------------------------------------
\* The recursion of Keep has a solution on every prefix.
LEMMA CollectingExists ==
    ASSUME NEW s, NEW S, NEW n \in Nat
    PROVE  \E f : IsCollecting(f, s, S, n)
  <1> DEFINE G == {k \in Nat : \E f : IsCollecting(f, s, S, k)}
  <1>1. 0 \in G
    <2>1. IsCollecting([i \in 0 .. 0 |-> <<>>], s, S, 0)
      BY DEF IsCollecting
    <2> QED BY <2>1
  <1>2. ASSUME NEW k \in Nat, k < n, k \in G PROVE k + 1 \in G
    <2>1. PICK g : IsCollecting(g, s, S, k)
      BY <1>2
    <2> DEFINE m == k + 1
               h == [i \in 0 .. m |-> IF i = m
                       THEN IF s[m] \in S THEN Append(g[m - 1], s[m]) ELSE g[m - 1]
                       ELSE g[i]]
    <2>2. \A i \in 0 .. k : g[i] = IF i = 0 THEN <<>>
                          ELSE IF s[i] \in S THEN Append(g[i - 1], s[i]) ELSE g[i - 1]
      BY <2>1 DEF IsCollecting
    <2>3. \A i \in 0 .. m : h[i] = IF i = 0 THEN <<>>
                          ELSE IF s[i] \in S THEN Append(h[i - 1], s[i]) ELSE h[i - 1]
      BY <2>2
    <2>4. IsCollecting(h, s, S, m)
      BY <2>3 DEF IsCollecting
    <2> QED BY <2>4
  <1> HIDE DEF G
  <1>3. \A k \in 0 .. n : k \in G
    BY <1>1, <1>2, UpTo
  <1> QED BY <1>3 DEF G

\* Keep collects: the unfolding of its recursion.
LEMMA CollectUnfolds ==
    ASSUME NEW s, NEW S, Len(s) \in Nat
    PROVE  \A k \in 0 .. Len(s) :
              Collect(s, S)[k] = IF k = 0 THEN <<>>
                                 ELSE IF s[k] \in S THEN Append(Collect(s, S)[k - 1], s[k])
                                                    ELSE Collect(s, S)[k - 1]
  <1> DEFINE f == CHOOSE f : IsCollecting(f, s, S, Len(s))
  <1>1. IsCollecting(f, s, S, Len(s))
    BY CollectingExists
  <1>2. Collect(s, S) = f
    BY DEF Collect, IsCollecting
  <1>3. IsCollecting(Collect(s, S), s, S, Len(s))
    BY <1>1, <1>2
  <1> QED BY <1>3 DEF IsCollecting

\* Every step of the collection is a sequence of kept elements, no longer than its input.
LEMMA CollectType ==
    ASSUME NEW T, NEW s \in Seq(T), NEW S
    PROVE  \A n \in 0 .. Len(s) :
              Collect(s, S)[n] \in Seq(T \cap S) /\ Len(Collect(s, S)[n]) <= n
  <1> DEFINE c == Collect(s, S)
             G == {k \in Nat : c[k] \in Seq(T \cap S) /\ Len(c[k]) <= k}
  <1>1. Len(s) \in Nat
    OBVIOUS
  <1>2. \A k \in 0 .. Len(s) :
           c[k] = IF k = 0 THEN <<>> ELSE IF s[k] \in S THEN Append(c[k - 1], s[k]) ELSE c[k - 1]
    BY <1>1, CollectUnfolds
  <1> HIDE DEF c
  <1>3. 0 \in G
    <2>1. c[0] = <<>> /\ <<>> \in Seq(T \cap S) /\ Len(<<>>) = 0
      BY <1>1, <1>2
    <2>2. 0 \in Nat /\ c[0] \in Seq(T \cap S) /\ Len(c[0]) <= 0
      BY <2>1
    <2> QED BY <2>2, Zenon
  <1>4. ASSUME NEW k \in Nat, k < Len(s), k \in G PROVE k + 1 \in G
    <2>1. k + 1 \in 0 .. Len(s) /\ k + 1 # 0 /\ (k + 1) - 1 = k /\ s[k + 1] \in T
      BY <1>4, <1>1
    <2>2. c[k + 1] = IF s[k + 1] \in S THEN Append(c[k], s[k + 1]) ELSE c[k]
      BY <1>2, <2>1
    <2>3. c[k] \in Seq(T \cap S) /\ Len(c[k]) <= k
      BY <1>4, Zenon
    <2>4. k + 1 \in Nat /\ c[k + 1] \in Seq(T \cap S) /\ Len(c[k + 1]) <= k + 1
      <3>1. CASE s[k + 1] \in S
        BY <2>1, <2>2, <2>3, <3>1
      <3>2. CASE s[k + 1] \notin S
        BY <2>1, <2>2, <2>3, <3>2
      <3> QED BY <3>1, <3>2
    <2> QED BY <2>4, Zenon
  <1>5. \A k \in 0 .. Len(s) : k \in G
    <2> HIDE DEF G
    <2> QED BY <1>1, <1>3, <1>4, UpTo
  <1> QED BY <1>5 DEF c

--------------------------------------------------------------------------------
\* What is kept is a sequence of kept elements, no longer than the original.
LEMMA KeepType ==
    ASSUME NEW T, NEW s \in Seq(T), NEW S
    PROVE  Keep(s, S) \in Seq(T \cap S) /\ Len(Keep(s, S)) <= Len(s)
  <1>1. Len(s) \in 0 .. Len(s)
    OBVIOUS
  <1> QED BY <1>1, CollectType DEF Keep

\* Appending to the input appends to the result, or changes nothing.
LEMMA KeepAppend ==
    ASSUME NEW T, NEW s \in Seq(T), NEW S, NEW x \in T
    PROVE  Keep(Append(s, x), S) = IF x \in S THEN Append(Keep(s, S), x) ELSE Keep(s, S)
  <1> DEFINE z == Append(s, x)
             c == Collect(s, S)
             d == Collect(z, S)
             G == {k \in Nat : d[k] = c[k]}
  <1>1. /\ Len(s) \in Nat /\ z \in Seq(T) /\ Len(z) = Len(s) + 1 /\ z[Len(s) + 1] = x
        /\ \A i \in 1 .. Len(s) : z[i] = s[i]
    OBVIOUS
  <1> HIDE DEF z
  <1>2. \A k \in 0 .. Len(s) :
           c[k] = IF k = 0 THEN <<>> ELSE IF s[k] \in S THEN Append(c[k - 1], s[k]) ELSE c[k - 1]
    BY <1>1, CollectUnfolds
  <1>3. Len(z) \in Nat
    BY <1>1
  <1>4. \A k \in 0 .. Len(z) :
           d[k] = IF k = 0 THEN <<>> ELSE IF z[k] \in S THEN Append(d[k - 1], z[k]) ELSE d[k - 1]
    BY <1>3, CollectUnfolds
  <1> HIDE DEF c, d
  <1>5. 0 \in G
    BY <1>1, <1>2, <1>4
  <1>6. ASSUME NEW k \in Nat, k < Len(s), k \in G PROVE k + 1 \in G
    <2>1. k + 1 \in 0 .. Len(s) /\ k + 1 \in 0 .. Len(z) /\ (k + 1) - 1 = k /\ z[k + 1] = s[k + 1]
      BY <1>6, <1>1
    <2> QED BY <2>1, <1>2, <1>4, <1>6
  <1>7. \A k \in 0 .. Len(s) : k \in G
    <2> HIDE DEF G
    <2> QED BY <1>1, <1>5, <1>6, UpTo
  <1>8. d[Len(s)] = c[Len(s)]
    BY <1>7, <1>1
  <1>9. d[Len(s) + 1] = IF x \in S THEN Append(d[Len(s)], x) ELSE d[Len(s)]
    BY <1>1, <1>4
  <1> QED BY <1>8, <1>9, <1>1 DEF Keep, c, d, z

\* The head of the input heads the result, or is left out.
LEMMA KeepHeadTail ==
    ASSUME NEW T, NEW s \in Seq(T), NEW S, s # <<>>
    PROVE  Keep(s, S) = (IF Head(s) \in S THEN <<Head(s)>> ELSE <<>>) \o Keep(Tail(s), S)
  <1> DEFINE t == Tail(s)
             c == Collect(s, S)
             d == Collect(t, S)
             pre == IF Head(s) \in S THEN <<Head(s)>> ELSE <<>>
             G == {k \in Nat : c[k + 1] = pre \o d[k]}
  <1>1. /\ Len(s) \in Nat /\ t \in Seq(T) /\ Len(t) \in Nat /\ Len(s) = Len(t) + 1
        /\ Head(s) = s[1] /\ Head(s) \in T
        /\ \A i \in 1 .. Len(t) : t[i] = s[i + 1] /\ s[i + 1] \in T
    OBVIOUS
  <1>2. pre \in Seq(T)
    BY <1>1
  <1> HIDE DEF t
  <1>3. \A k \in 0 .. Len(s) :
           c[k] = IF k = 0 THEN <<>> ELSE IF s[k] \in S THEN Append(c[k - 1], s[k]) ELSE c[k - 1]
    BY <1>1, CollectUnfolds
  <1>4. \A k \in 0 .. Len(t) :
           d[k] = IF k = 0 THEN <<>> ELSE IF t[k] \in S THEN Append(d[k - 1], t[k]) ELSE d[k - 1]
    BY <1>1, CollectUnfolds
  <1>5. ASSUME NEW k \in 0 .. Len(t) PROVE d[k] \in Seq(T)
    <2>1. Collect(t, S)[k] \in Seq(T \cap S)
      BY <1>1, CollectType
    <2> QED BY <2>1
  <1> HIDE DEF c, d
  <1>6. c[1] = pre /\ d[0] = <<>>
    <2>1. c[0] = <<>> /\ c[1] = IF s[1] \in S THEN Append(c[0], s[1]) ELSE c[0]
      BY <1>1, <1>3
    <2>2. d[0] = <<>>
      BY <1>1, <1>4
    <2> QED BY <2>1, <2>2, <1>1
  <1>7. 0 \in G
    <2> HIDE DEF pre
    <2>1. pre \o <<>> = pre
      BY <1>2
    <2>2. 0 \in Nat /\ c[0 + 1] = pre \o d[0]
      BY <2>1, <1>6
    <2> QED BY <2>2, Zenon
  <1>8. ASSUME NEW k \in Nat, k < Len(t), k \in G PROVE k + 1 \in G
    <2>1. /\ k + 1 \in 0 .. Len(t) /\ k \in 0 .. Len(t) /\ (k + 1) - 1 = k
          /\ k + 2 \in 0 .. Len(s) /\ (k + 2) - 1 = k + 1 /\ (k + 1) + 1 = k + 2
          /\ t[k + 1] = s[k + 2] /\ t[k + 1] \in T
      BY <1>8, <1>1
    <2>2. d[k + 1] = IF t[k + 1] \in S THEN Append(d[k], t[k + 1]) ELSE d[k]
      BY <2>1, <1>4
    <2>3. c[k + 2] = IF t[k + 1] \in S THEN Append(c[k + 1], t[k + 1]) ELSE c[k + 1]
      BY <2>1, <1>3
    <2>4. c[k + 1] = pre \o d[k] /\ d[k] \in Seq(T)
      BY <1>8, <1>5, <2>1, Zenon
    <2> HIDE DEF pre, G
    <2>5. Append(pre \o d[k], t[k + 1]) = pre \o Append(d[k], t[k + 1])
      <3>1. ASSUME NEW u \in Seq(T), NEW v \in Seq(T), NEW x \in T
            PROVE  Append(u \o v, x) = u \o Append(v, x)
        <4>1. /\ Append(u \o v, x) \in Seq(T) /\ u \o Append(v, x) \in Seq(T)
              /\ Len(Append(u \o v, x)) = Len(u \o Append(v, x))
          OBVIOUS
        <4>2. ASSUME NEW j \in 1 .. Len(u \o Append(v, x))
              PROVE  Append(u \o v, x)[j] = (u \o Append(v, x))[j]
          OBVIOUS
        <4> QED BY <4>1, <4>2, SeqEqual, Zenon
      <3>2. pre \in Seq(T) /\ d[k] \in Seq(T) /\ t[k + 1] \in T
        BY <2>1, <2>4, <1>2
      <3> QED BY <3>1, <3>2, Zenon
    <2>6. c[k + 2] = pre \o d[k + 1]
      BY <2>2, <2>3, <2>4, <2>5
    <2>7. k + 1 \in Nat /\ c[(k + 1) + 1] = pre \o d[k + 1]
      BY <2>1, <2>6
    <2> QED BY <2>7, Zenon DEF G
  <1>9. \A k \in 0 .. Len(t) : k \in G
    <2> HIDE DEF G
    <2> QED BY <1>1, <1>7, <1>8, UpTo
  <1>10. c[Len(t) + 1] = pre \o d[Len(t)]
    <2>1. Len(t) \in G
      <3> HIDE DEF G
      <3>1. Len(t) \in 0 .. Len(t)
        BY <1>1
      <3> QED BY <3>1, <1>9
    <2> QED BY <2>1, Zenon
  <1> HIDE DEF pre
  <1>11. Keep(s, S) = pre \o Keep(t, S)
    BY <1>10, <1>1 DEF Keep, c, d
  <1> QED BY <1>11 DEF pre, t

\* Keeping everything changes nothing.
LEMMA KeepAll ==
    ASSUME NEW S, NEW s \in Seq(S)
    PROVE  Keep(s, S) = s
  <1> DEFINE c == Collect(s, S)
             G == {k \in Nat : c[k] = SubSeq(s, 1, k)}
  <1>1. Len(s) \in Nat
    OBVIOUS
  <1>2. \A k \in 0 .. Len(s) :
           c[k] = IF k = 0 THEN <<>> ELSE IF s[k] \in S THEN Append(c[k - 1], s[k]) ELSE c[k - 1]
    BY <1>1, CollectUnfolds
  <1> HIDE DEF c
  <1>3. 0 \in G
    <2>1. SubSeq(s, 1, 0) = <<>>
      OBVIOUS
    <2>a. c[0] = <<>>
      BY <1>1, <1>2
    <2>2. 0 \in Nat /\ c[0] = SubSeq(s, 1, 0)
      BY <2>1, <2>a, Zenon
    <2> QED BY <2>2, Zenon
  <1>4. ASSUME NEW k \in Nat, k < Len(s), k \in G PROVE k + 1 \in G
    <2>1. k + 1 \in Nat /\ k + 1 \in 0 .. Len(s) /\ (k + 1) - 1 = k /\ k + 1 # 0 /\ s[k + 1] \in S
      BY <1>4, <1>1
    <2>2. Append(SubSeq(s, 1, k), s[k + 1]) = SubSeq(s, 1, k + 1)
      BY <1>4, <1>1
    <2>3. c[k] = SubSeq(s, 1, k)
      BY <1>4, Zenon
    <2>4. k + 1 \in Nat /\ c[k + 1] = SubSeq(s, 1, k + 1)
      <3>1. c[k + 1] = Append(c[k], s[k + 1])
        <4> HIDE DEF G
        <4> QED BY <1>2, <2>1
      <3> QED BY <3>1, <2>1, <2>2, <2>3, Zenon
    <2> QED BY <2>4, Zenon
  <1>5. \A k \in 0 .. Len(s) : k \in G
    <2> HIDE DEF G
    <2> QED BY <1>1, <1>3, <1>4, UpTo
  <1>6. c[Len(s)] = SubSeq(s, 1, Len(s)) /\ SubSeq(s, 1, Len(s)) = s
    BY <1>5, <1>1
  <1> QED BY <1>6 DEF Keep, c

--------------------------------------------------------------------------------
(* The transition table.                                                   *)

Ends(s) == CASE s = "RECYCLING" -> "RECYCLED" [] OTHER -> "RENDERED"

\* At rest every row starts an operation directly, under a timeout.
LEMMA RestRows ==
    ASSUME NEW s \in AtRest, NEW e, HasRow(s, e)
    PROVE  /\ e \in DOMAIN Starts
           /\ GetFormStatusInfo(s, e) = Row(Starts[e], "PROCESS_TASK_DIRECT", TRUE)
  <1>1. CASE s = "INIT"
    BY <1>1 DEF HasRow, GetFormStatusInfo, FORM_STATUS_TABLE, FormFsmStatus,
                FORM_STATUS_TABLE_INIT, StartRows, Starts
  <1>2. CASE s = "RENDERED"
    BY <1>2 DEF HasRow, GetFormStatusInfo, FORM_STATUS_TABLE, FormFsmStatus,
                FORM_STATUS_TABLE_RENDERED, StartRows, Starts
  <1>3. CASE s = "RECYCLED"
    BY <1>3 DEF HasRow, GetFormStatusInfo, FORM_STATUS_TABLE, FormFsmStatus,
                FORM_STATUS_TABLE_RECYCLED, StartRows, Starts
  <1>4. CASE s = "UNPROCESSABLE"
    BY <1>4 DEF HasRow, GetFormStatusInfo, FORM_STATUS_TABLE, FormFsmStatus,
                FORM_STATUS_TABLE_UNPROCESSABLE, StartRows, Starts
  <1> QED BY <1>1, <1>2, <1>3, <1>4, Zenon DEF AtRest, Busy, FormFsmStatus

\* A render or a delete can be started at rest, whatever the status.
LEMMA RetainedHaveRows ==
    ASSUME NEW s \in AtRest, NEW e \in {"RENDER_FORM", "DELETE_FORM"}
    PROVE  HasRow(s, e)
  BY DEF HasRow, FORM_STATUS_TABLE, FormFsmStatus, AtRest, Busy, StartRows, Starts,
         FORM_STATUS_TABLE_INIT, FORM_STATUS_TABLE_RENDERED, FORM_STATUS_TABLE_RECYCLED,
         FORM_STATUS_TABLE_UNPROCESSABLE

\* In a busy status a row puts a request aside, or ends or hands over the operation.
BusyRow(s, e) ==
    \/ /\ e \in DOMAIN Starts
       /\ \E type \in {"ADD_TASK_TO_QUEUE_UNIQUE", "ADD_TASK_TO_QUEUE_PUSH"} :
             GetFormStatusInfo(s, e) = Row(s, type, FALSE)
    \/ \E next \in {"RENDERED", "RECYCLED"} :
          GetFormStatusInfo(s, e) = Row(next, "PROCESS_TASK_FROM_QUEUE", FALSE)
    \/ GetFormStatusInfo(s, e) = Row("UNPROCESSABLE", "PROCESS_TASK_RETRY", FALSE)
    \/ s = "DELETING" /\ GetFormStatusInfo(s, e) = Row("UNPROCESSABLE", "PROCESS_TASK_DELETE", FALSE)
    \/ /\ s = "RECYCLING_DATA"
       /\ \/ /\ e = "RECYCLE_DATA_DONE"
             /\ GetFormStatusInfo(s, e) = Row("RECYCLING_DATA", "PROCESS_TASK_DIRECT", FALSE)
          \/ /\ e = "RECYCLE_DATA_FAIL"
             /\ GetFormStatusInfo(s, e) = Row("RENDERED", "PROCESS_TASK_DIRECT", FALSE)
          \/ /\ e = "RECYCLE_FORM_FAIL"
             /\ GetFormStatusInfo(s, e) = Row("UNPROCESSABLE", "PROCESS_TASK_DIRECT", FALSE)
          \/ /\ e = "RECYCLE_FORM"
             /\ GetFormStatusInfo(s, e) = Row("RECYCLING", "PROCESS_TASK_DIRECT", TRUE)

LEMMA BusyRowsShape ==
    ASSUME NEW s \in Busy, NEW e, HasRow(s, e)
    PROVE  BusyRow(s, e)
  <1> USE DEF HasRow, GetFormStatusInfo, FORM_STATUS_TABLE, FormFsmStatus, BusyRow, Starts
  <1>1. CASE s = "RENDERING"
    BY <1>1 DEF FORM_STATUS_TABLE_RENDERING, BusyRows
  <1>2. CASE s = "RECYCLING_DATA"
    BY <1>2 DEF FORM_STATUS_TABLE_RECYCLING_DATA
  <1>3. CASE s = "RECYCLING"
    BY <1>3 DEF FORM_STATUS_TABLE_RECYCLING, BusyRows
  <1>4. CASE s = "RECOVERING"
    BY <1>4 DEF FORM_STATUS_TABLE_RECOVERING, BusyRows
  <1>5. CASE s = "DELETING"
    BY <1>5 DEF FORM_STATUS_TABLE_DELETING
  <1> QED BY <1>1, <1>2, <1>3, <1>4, <1>5, Zenon DEF Busy

--------------------------------------------------------------------------------
(* The inductive invariant.                                                *)

Inv == TypeOK /\ RetryRepeatsOperation /\ CallOwnsOperation /\ NothingLeftBehind

WorkerBodies == Tasks \cup DelayedBodies(Msgs)

\* Cancelling a delayed body leaves a queue of the same kind.
LEMMA WithoutType ==
    ASSUME NEW q \in Seq(WorkerBodies), NEW m
    PROVE  Without(q, m) \in Seq(WorkerBodies)
  <1> DEFINE S == Tasks \cup DelayedBodies(Msgs \ {m})
  <1>1. Keep(q, S) \in Seq(WorkerBodies \cap S)
    BY KeepType
  <1>2. WorkerBodies \cap S \subseteq WorkerBodies
    OBVIOUS
  <1>3. Keep(q, S) \in Seq(WorkerBodies)
    BY <1>1, <1>2
  <1> QED BY <1>3 DEF Without

\* A push keeps the queue within its capacity.
LEMMA PushType ==
    ASSUME NEW S, NEW q \in Seq(S), NEW t \in S, Len(q) <= EVENT_QUEUE_SIZE_MAX
    PROVE  Push(q, t) \in Seq(S) /\ Len(Push(q, t)) <= EVENT_QUEUE_SIZE_MAX
  <1>1. CASE Len(q) < EVENT_QUEUE_SIZE_MAX
    <2>1. Append(q, t) \in Seq(S) /\ Len(Append(q, t)) = Len(q) + 1 /\ Len(q) \in Nat
      OBVIOUS
    <2> QED BY <1>1, <2>1, FormStatusMgrAssumption DEF Push
  <1>2. CASE ~(Len(q) < EVENT_QUEUE_SIZE_MAX)
    BY <1>2 DEF Push
  <1> QED BY <1>1, <1>2

\* What Begin does at rest: it starts the operation of the event, or nothing.
Started(t) ==
    /\ t.event \in DOMAIN Starts /\ status' = Starts[t.event]
    /\ lastId' = lastId + 1 /\ lastId < MaxEventId
    /\ eventId' = lastId' /\ armed' = armed \cup {lastId'}
    /\ last' = t /\ running' = t

NothingStarted(s) == status' = s /\ UNCHANGED <<lastId, eventId, armed, last, running>>

LEMMA BeginAtRest ==
    ASSUME NEW s \in AtRest, NEW t \in Tasks, Begin(s, t)
    PROVE  (HasRow(s, t.event) /\ Started(t)) \/ (~HasRow(s, t.event) /\ NothingStarted(s))
  <1>1. CASE ~HasRow(s, t.event)
    BY <1>1 DEF Begin, NothingStarted
  <1>2. CASE HasRow(s, t.event)
    <2>1. /\ t.event \in DOMAIN Starts
          /\ GetFormStatusInfo(s, t.event) = Row(Starts[t.event], "PROCESS_TASK_DIRECT", TRUE)
      BY <1>2, RestRows
    <2>2. t.func # "null"
      BY <2>1 DEF Tasks, TasksOf, FuncsOf, Starts
    <2>3. Started(t)
      BY <1>2, <2>1, <2>2 DEF Begin, Started, Row, ExecFormTaskTimeout
    <2> QED BY <1>2, <2>3
  <1> QED BY <1>1, <1>2

\* A start keeps the invariant, whatever happens to the queues.
LEMMA StartedKeepsInv ==
    ASSUME Inv, NEW t \in TasksOf(DOMAIN Starts), Started(t),
           evq' \in Seq(TasksOf(DOMAIN Starts)), Len(evq') <= EVENT_QUEUE_SIZE_MAX,
           retryCount' \in {0, 1}, taskq' \in Seq(WorkerBodies), isExistRecycleTask' \in BOOLEAN,
           UNCHANGED <<recycleTimer, releaseDelay, restores, matched, expectRecycled, env>>
    PROVE  Inv'
  <1>1. TypeOK /\ lastId + 1 \in 0 .. MaxEventId /\ lastId \in Nat
    BY FormStatusMgrAssumption DEF Inv, TypeOK, Started
  <1>2. Starts[t.event] \in Busy /\ Starts[t.event] \in FormFsmStatus /\ Starts[t.event] # Absent
    BY DEF TasksOf, Starts, Busy, FormFsmStatus, Absent
  <1>3. t \in TasksOf(DOMAIN Starts \cup {"RECYCLE_DATA_DONE"}) /\ t # NoTask
    BY DEF TasksOf, Starts, NoTask, Task
  <1>4. t.event # "RECYCLE_DATA_DONE"
    BY DEF TasksOf, Starts
  <1>5. TypeOK'
    BY <1>1, <1>2, <1>3 DEF TypeOK, Started, WorkerBodies, env
  <1>6. RetryRepeatsOperation'
    BY <1>1, <1>2, <1>3, <1>4 DEF RetryRepeatsOperation, OperationOf, Started, NoId
  <1>7. CallOwnsOperation'
    BY <1>4 DEF CallOwnsOperation, OperationOf, Started
  <1>8. NothingLeftBehind'
    BY <1>2 DEF NothingLeftBehind, Started
  <1> QED BY <1>5, <1>6, <1>7, <1>8 DEF Inv

\* Coming to rest keeps the invariant.
RestsAt(s) == status' = s /\ running' = NoTask /\ UNCHANGED <<lastId, eventId, armed, last>>

LEMMA RestsKeepsInv ==
    ASSUME Inv, NEW s \in AtRest, RestsAt(s),
           evq' \in Seq(TasksOf(DOMAIN Starts)), Len(evq') <= EVENT_QUEUE_SIZE_MAX,
           retryCount' \in {0, 1}, taskq' \in Seq(WorkerBodies), isExistRecycleTask' \in BOOLEAN,
           UNCHANGED <<recycleTimer, releaseDelay, restores, matched, expectRecycled, env>>
    PROVE  Inv'
  <1>1. s \in FormFsmStatus /\ s \notin Busy /\ s # Absent
    BY DEF AtRest, FormFsmStatus, Absent
  <1>2. TypeOK'
    BY <1>1 DEF Inv, TypeOK, RestsAt, WorkerBodies, env
  <1>3. RetryRepeatsOperation' /\ CallOwnsOperation' /\ NothingLeftBehind'
    BY <1>1 DEF RetryRepeatsOperation, CallOwnsOperation, NothingLeftBehind, RestsAt
  <1> QED BY <1>2, <1>3 DEF Inv

\* The head of the worker's queue, and what is left of it.
LEMMA HeadOfTaskq ==
    ASSUME TypeOK, Idle
    PROVE  /\ Head(taskq) \in WorkerBodies /\ Tail(taskq) \in Seq(WorkerBodies)
           /\ Head(taskq).event \in FormFsmEvent => Head(taskq) \in Tasks
           /\ running = NoTask
  <1>1. taskq \in Seq(WorkerBodies) /\ taskq # <<>>
    BY DEF TypeOK, Idle, WorkerBodies
  <1>2. Head(taskq) \in WorkerBodies /\ Tail(taskq) \in Seq(WorkerBodies)
    BY <1>1
  <1>3. \A b \in DelayedBodies(Msgs) : b.event \notin FormFsmEvent
    BY DEF DelayedBodies, Msgs, FormFsmEvent
  <1> QED BY <1>2, <1>3 DEF WorkerBodies, Idle

\* The status a task is processed in: the form's, or INIT for a form without entry.
LEMMA StatusInTable ==
    ASSUME TypeOK
    PROVE  /\ GetFormStatus \in FormFsmStatus
           /\ GetFormStatus \in Busy => status = GetFormStatus
           /\ GetFormStatus \in AtRest \/ GetFormStatus \in Busy
  BY DEF TypeOK, GetFormStatus, FormFsmStatus, AtRest, Busy, Absent

\* Taking up the next task put aside.
LEMMA FromQueueKeepsInv ==
    ASSUME Inv, NEW s \in AtRest, FromQueue(s), running = NoTask,
           retryCount' \in {0, 1}, taskq' \in Seq(WorkerBodies),
           UNCHANGED <<recycleTimer, releaseDelay, restores, matched, expectRecycled, env>>
    PROVE  Inv'
  <1>1. evq \in Seq(TasksOf(DOMAIN Starts)) /\ Len(evq) <= EVENT_QUEUE_SIZE_MAX
        /\ isExistRecycleTask \in BOOLEAN
    BY DEF Inv, TypeOK
  <1>2. CASE evq = <<>>
    <2>1. RestsAt(s) /\ evq' = evq /\ isExistRecycleTask' = isExistRecycleTask
      BY <1>2 DEF FromQueue, RestsAt
    <2> QED BY <1>1, <2>1, RestsKeepsInv
  <1>3. CASE evq # <<>>
    <2>1. /\ Head(evq) \in TasksOf(DOMAIN Starts) /\ Tail(evq) \in Seq(TasksOf(DOMAIN Starts))
          /\ Len(Tail(evq)) <= EVENT_QUEUE_SIZE_MAX
      BY <1>1, <1>3, FormStatusMgrAssumption
    <2>2. Head(evq) \in Tasks
      BY <2>1 DEF Tasks, TasksOf, Starts, FormFsmEvent
    <2>3. evq' = Tail(evq) /\ isExistRecycleTask' \in BOOLEAN /\ Begin(s, Head(evq))
      BY <1>1, <1>3 DEF FromQueue
    <2>4. CASE Started(Head(evq))
      BY <2>1, <2>3, <2>4, StartedKeepsInv
    <2>5. CASE NothingStarted(s)
      <3>1. RestsAt(s)
        BY <2>5 DEF NothingStarted, RestsAt
      <3> QED BY <3>1, <2>1, <2>3, RestsKeepsInv
    <2> QED BY <2>2, <2>3, <2>4, <2>5, BeginAtRest
  <1> QED BY <1>2, <1>3

\* Putting a request aside changes no operation.
LEMMA PutAsideKeepsInv ==
    ASSUME Inv, status \in Busy, status' = status,
           evq' \in Seq(TasksOf(DOMAIN Starts)), Len(evq') <= EVENT_QUEUE_SIZE_MAX,
           taskq' \in Seq(WorkerBodies), isExistRecycleTask' \in BOOLEAN,
           UNCHANGED <<eventId, last, retryCount, running, armed, lastId, recycleTimer,
                       releaseDelay, restores, matched, expectRecycled, env>>
    PROVE  Inv'
  <1>1. TypeOK'
    BY DEF Inv, TypeOK, WorkerBodies, env
  <1>2. status # Absent
    BY DEF Busy, Absent
  <1> QED BY <1>1, <1>2 DEF Inv, RetryRepeatsOperation, CallOwnsOperation, NothingLeftBehind

--------------------------------------------------------------------------------
(* The steps of the machine.                                               *)

LEMMA MachineKeepsInv ==
    ASSUME Inv, Machine
    PROVE  Inv'
  <1> DEFINE s == GetFormStatus
             e == Head(taskq).event
  <1>0. TypeOK /\ Idle /\ s \in FormFsmStatus /\ running = NoTask
    BY StatusInTable DEF Inv, Machine, RejectTask, ProcessTaskDirect, AddTaskToQueueUnique,
       AddTaskToQueuePush, ProcessTaskFromQueue, ProcessTaskDelete, ProcessTaskFromRetry, Step, Idle
  <1>1. /\ e \in FormFsmEvent => Head(taskq) \in Tasks
        /\ Tail(taskq) \in Seq(WorkerBodies) /\ taskq \in Seq(WorkerBodies)
        /\ evq \in Seq(TasksOf(DOMAIN Starts)) /\ Len(evq) <= EVENT_QUEUE_SIZE_MAX
        /\ isExistRecycleTask \in BOOLEAN /\ retryCount \in {0, 1}
    BY <1>0, HeadOfTaskq DEF TypeOK, WorkerBodies
  <1>2. s \in Busy => status = s
    BY <1>0, StatusInTable
  <1>3. s \in AtRest \/ s \in Busy
    BY <1>0, StatusInTable
  <1>4. CASE RejectTask
    <2>1. /\ status' = s /\ taskq' = Tail(taskq)
          /\ UNCHANGED <<evq, eventId, last, retryCount, running, recycleTimer, releaseDelay,
                         restores, ids, record, env>>
      BY <1>4 DEF RejectTask
    <2>2. CASE s \in AtRest
      <3>1. RestsAt(s)
        BY <2>1, <1>0 DEF RestsAt, ids
      <3> QED BY <2>1, <2>2, <3>1, <1>1, RestsKeepsInv DEF ids, record
    <2>3. CASE s \in Busy
      BY <2>1, <2>3, <1>1, <1>2, PutAsideKeepsInv DEF ids, record
    <2> QED BY <1>3, <2>2, <2>3
  <1>5. CASE ProcessTaskDirect
    <2>1. /\ e \in FormFsmEvent /\ HasRow(s, e) /\ Begin(s, Head(taskq)) /\ taskq' = Tail(taskq)
          /\ GetFormStatusInfo(s, e).processType = "PROCESS_TASK_DIRECT"
          /\ UNCHANGED <<recycleTimer, releaseDelay, restores, matched, expectRecycled, env,
                         evq, retryCount, isExistRecycleTask>>
      BY <1>5 DEF ProcessTaskDirect, Step
    <2>2. CASE s \in AtRest
      <3>1. Started(Head(taskq)) /\ e \in DOMAIN Starts
        BY <2>1, <2>2, <1>1, BeginAtRest DEF Started
      <3>2. Head(taskq) \in TasksOf(DOMAIN Starts)
        BY <3>1, <2>1, <1>1 DEF Tasks, TasksOf
      <3> QED BY <3>1, <3>2, <2>1, <1>1, StartedKeepsInv
    <2>3. CASE s \in Busy
      <3>1. BusyRow(s, e)
        BY <2>1, <2>3, BusyRowsShape
      <3>2. s = "RECYCLING_DATA" /\ status = "RECYCLING_DATA"
        BY <3>1, <2>1, <1>2, <2>3 DEF BusyRow, Row
      <3>3. CASE e = "RECYCLE_DATA_DONE"
        <4>1. GetFormStatusInfo(s, e) = Row("RECYCLING_DATA", "PROCESS_TASK_DIRECT", FALSE)
          BY <3>1, <3>3, <2>1, <3>2 DEF BusyRow, Row, Starts
        <4>2. Head(taskq).func # "null"
              /\ Head(taskq) \in TasksOf(DOMAIN Starts \cup {"RECYCLE_DATA_DONE"})
              /\ Head(taskq) # NoTask
          BY <3>3, <2>1, <1>1 DEF Tasks, TasksOf, FuncsOf, NoTask, Task
        <4>3. /\ status' = "RECYCLING_DATA" /\ last' = Head(taskq) /\ running' = Head(taskq)
              /\ UNCHANGED <<lastId, eventId, armed>>
          BY <4>1, <4>2, <2>1 DEF Begin, Row, ExecFormTaskTimeout
        <4>4. TypeOK'
          BY <1>0, <1>1, <2>1, <4>2, <4>3 DEF TypeOK, WorkerBodies, FormFsmStatus, env
        <4>5. RetryRepeatsOperation' /\ CallOwnsOperation' /\ NothingLeftBehind'
          BY <3>2, <3>3, <4>2, <4>3 DEF Inv, RetryRepeatsOperation, CallOwnsOperation,
             NothingLeftBehind, OperationOf, Busy, Absent
        <4> QED BY <4>4, <4>5 DEF Inv
      <3>4. CASE e = "RECYCLE_FORM"
        <4>1. GetFormStatusInfo(s, e) = Row("RECYCLING", "PROCESS_TASK_DIRECT", TRUE)
          BY <3>1, <3>4, <2>1, <3>2 DEF BusyRow, Row, Starts
        <4>2. Head(taskq).func # "null" /\ Head(taskq) \in TasksOf(DOMAIN Starts)
              /\ Starts[e] = "RECYCLING" /\ e \in DOMAIN Starts
          BY <3>4, <2>1, <1>1 DEF Tasks, TasksOf, FuncsOf, Starts
        <4>3. Started(Head(taskq))
          BY <4>1, <4>2, <2>1 DEF Begin, Row, ExecFormTaskTimeout, Started
        <4> QED BY <4>2, <4>3, <2>1, <1>1, StartedKeepsInv
      <3>5. CASE e \notin {"RECYCLE_DATA_DONE", "RECYCLE_FORM"}
        <4>1. PICK next \in {"RENDERED", "UNPROCESSABLE"} :
                 GetFormStatusInfo(s, e) = Row(next, "PROCESS_TASK_DIRECT", FALSE)
          BY <3>1, <3>5, <2>1, <3>2 DEF BusyRow, Row
        <4>2. Head(taskq).func = "null"
          <5>1. e \in {"RECYCLE_DATA_FAIL", "RECYCLE_FORM_FAIL"}
            BY <3>1, <3>5, <2>1, <3>2 DEF BusyRow, Row
          <5> QED BY <5>1, <2>1, <1>1 DEF Tasks, TasksOf, FuncsOf
        <4>3. RestsAt(next) /\ next \in AtRest
          BY <4>1, <4>2, <2>1, <1>0 DEF Begin, Row, ExecFormTaskTimeout, RestsAt, AtRest,
             FormFsmStatus, Busy
        <4> QED BY <4>3, <2>1, <1>1, RestsKeepsInv
      <3> QED BY <3>3, <3>4, <3>5
    <2> QED BY <1>3, <2>2, <2>3
  <1>6. CASE AddTaskToQueueUnique \/ AddTaskToQueuePush
    <2>1. /\ e \in FormFsmEvent /\ HasRow(s, e) /\ taskq' = Tail(taskq) /\ status' = NextStatus
          /\ GetFormStatusInfo(s, e).processType
               \in {"ADD_TASK_TO_QUEUE_UNIQUE", "ADD_TASK_TO_QUEUE_PUSH"}
          /\ UNCHANGED <<eventId, last, retryCount, running, armed, lastId, recycleTimer,
                         releaseDelay, restores, matched, expectRecycled, env>>
      BY <1>6 DEF AddTaskToQueueUnique, AddTaskToQueuePush, Step
    <2>2. s \in Busy
      BY <2>1, <1>3, RestRows DEF Row
    <2>3. BusyRow(s, e)
      BY <2>1, <2>2, BusyRowsShape
    <2>4. e \in DOMAIN Starts /\ NextStatus = s
      BY <2>1, <2>3 DEF BusyRow, Row, NextStatus
    <2>5. Head(taskq) \in TasksOf(DOMAIN Starts)
      BY <2>1, <2>4, <1>1 DEF Tasks, TasksOf
    <2>a. isExistRecycleTask' \in BOOLEAN
      BY <1>6, <1>1, Zenon DEF AddTaskToQueueUnique, AddTaskToQueuePush
    <2>6. evq' \in Seq(TasksOf(DOMAIN Starts)) /\ Len(evq') <= EVENT_QUEUE_SIZE_MAX
      <3>1. CASE AddTaskToQueuePush
        <4>1. evq' = Push(evq, Head(taskq))
          BY <3>1 DEF AddTaskToQueuePush
        <4> QED BY <4>1, <2>5, <1>1, PushType
      <3>2. CASE AddTaskToQueueUnique /\ Len(evq) >= EVENT_QUEUE_SIZE_MAX
        BY <3>2, <1>1 DEF AddTaskToQueueUnique
      <3>3. CASE AddTaskToQueueUnique /\ ~(Len(evq) >= EVENT_QUEUE_SIZE_MAX)
        <4> DEFINE q == Append(evq, Head(taskq))
        <4>1. q \in Seq(TasksOf(DOMAIN Starts)) /\ Len(q) <= EVENT_QUEUE_SIZE_MAX
              /\ Len(q) \in Nat
          BY <3>3, <2>5, <1>1, FormStatusMgrAssumption
        <4>2. evq' = Keep(q, Retained)
          BY <3>3 DEF AddTaskToQueueUnique
        <4> HIDE DEF q
        <4>3. evq' \in Seq(TasksOf(DOMAIN Starts) \cap Retained) /\ Len(evq') <= Len(q)
          BY <4>1, <4>2, KeepType
        <4>4. TasksOf(DOMAIN Starts) \cap Retained \subseteq TasksOf(DOMAIN Starts)
          OBVIOUS
        <4>5. evq' \in Seq(TasksOf(DOMAIN Starts))
          BY <4>3, <4>4
        <4>6. Len(evq') \in Nat
          BY <4>5
        <4> QED BY <4>1, <4>2, <4>3, <4>5, <4>6, FormStatusMgrAssumption
      <3> QED BY <1>6, <3>1, <3>2, <3>3
    <2> QED BY <2>1, <2>2, <2>4, <2>a, <2>6, <1>1, <1>2, PutAsideKeepsInv
  <1>7. CASE ProcessTaskFromQueue
    <2>1. /\ e \in FormFsmEvent /\ HasRow(s, e) /\ taskq' = Tail(taskq) /\ FromQueue(NextStatus)
          /\ GetFormStatusInfo(s, e).processType = "PROCESS_TASK_FROM_QUEUE"
          /\ UNCHANGED <<recycleTimer, releaseDelay, restores, matched, expectRecycled, env,
                         retryCount>>
      BY <1>7 DEF ProcessTaskFromQueue, Step
    <2>2. s \in Busy
      BY <2>1, <1>3, RestRows DEF Row
    <2>3. NextStatus \in AtRest
      BY <2>1, <2>2, BusyRowsShape DEF BusyRow, Row, NextStatus, AtRest, FormFsmStatus, Busy
    <2> QED BY <2>1, <2>3, <1>0, <1>1, FromQueueKeepsInv
  <1>8. CASE ProcessTaskDelete
    <2>a. /\ status' = Absent /\ evq' = <<>> /\ eventId' = NoId /\ last' = NoTask
          /\ retryCount' = 0 /\ taskq' = Tail(taskq)
          /\ UNCHANGED <<running, armed, lastId, isExistRecycleTask, recycleTimer, releaseDelay,
                         restores, matched, expectRecycled, env>>
      BY <1>8 DEF ProcessTaskDelete, Step
    <2>b. evq' \in Seq(TasksOf(DOMAIN Starts)) /\ Len(evq') <= EVENT_QUEUE_SIZE_MAX
      BY <2>a, FormStatusMgrAssumption
    <2>1. TypeOK'
      BY <1>0, <1>1, <2>a, <2>b DEF TypeOK, WorkerBodies, env, NoId
    <2>2. RetryRepeatsOperation' /\ CallOwnsOperation' /\ NothingLeftBehind'
      BY <1>0, <1>8 DEF ProcessTaskDelete, RetryRepeatsOperation, CallOwnsOperation,
         NothingLeftBehind, Busy, Absent
    <2> QED BY <2>1, <2>2 DEF Inv
  <1>9. CASE ProcessTaskFromRetry
    <2>1. /\ e \in FormFsmEvent /\ HasRow(s, e) /\ taskq' = Tail(taskq)
          /\ GetFormStatusInfo(s, e).processType = "PROCESS_TASK_RETRY"
          /\ UNCHANGED <<recycleTimer, releaseDelay, restores, matched, expectRecycled, env>>
      BY <1>9 DEF ProcessTaskFromRetry, Step
    <2>2. s \in Busy
      BY <2>1, <1>3, RestRows DEF Row
    <2>3. NextStatus = "UNPROCESSABLE" /\ NextStatus \in AtRest
      BY <2>1, <2>2, BusyRowsShape DEF BusyRow, Row, NextStatus, AtRest, FormFsmStatus, Busy
    <2>4. CASE retryCount = 1
      BY <1>9, <2>1, <2>3, <2>4, <1>0, <1>1, FromQueueKeepsInv DEF ProcessTaskFromRetry
    <2>5. CASE retryCount # 1
      <3>1. /\ retryCount' = 1 /\ UNCHANGED <<evq, isExistRecycleTask>>
            /\ last # NoTask /\ Begin(NextStatus, last)
        BY <1>9, <2>5, <2>2, <1>2 DEF ProcessTaskFromRetry, Inv, RetryRepeatsOperation
      <3>2. last \in TasksOf(DOMAIN Starts \cup {"RECYCLE_DATA_DONE"}) /\ last \in Tasks
        BY <1>0, <3>1 DEF TypeOK, Tasks, TasksOf, Starts, FormFsmEvent
      <3>3. CASE Started(last) /\ HasRow(NextStatus, last.event)
        <4>1. last \in TasksOf(DOMAIN Starts)
          BY <3>2, <3>3 DEF TasksOf, Started
        <4> QED BY <3>1, <3>3, <4>1, <2>1, <1>1, StartedKeepsInv
      <3>4. CASE NothingStarted(NextStatus)
        <4>1. RestsAt(NextStatus)
          BY <3>4, <1>0 DEF NothingStarted, RestsAt
        <4> QED BY <3>1, <4>1, <2>1, <2>3, <1>1, RestsKeepsInv
      <3> QED BY <3>1, <3>2, <3>3, <3>4, <2>3, BeginAtRest
    <2> QED BY <2>4, <2>5
  <1> QED BY <1>4, <1>5, <1>6, <1>7, <1>8, <1>9 DEF Machine

--------------------------------------------------------------------------------
(* The steps that leave the machine's state alone.                         *)

\* A step that changes neither the status nor what belongs to the operation.
LEMMA QuietKeepsInv ==
    ASSUME Inv, TypeOK', UNCHANGED <<status, evq, eventId, last, lastId>>,
           running' \in {running, NoTask}, retryCount' \in {retryCount, 0}
    PROVE  Inv'
  BY DEF Inv, RetryRepeatsOperation, CallOwnsOperation, NothingLeftBehind

LEMMA RequestKeepsInv ==
    ASSUME Inv, NEW t, t.proxy # NoProxy => t \in Tasks, Request(t),
           isExistRecycleTask' \in BOOLEAN, expectRecycled' \in BOOLEAN
    PROVE  Inv'
  <1>1. /\ posts < MaxPosts /\ posts' = posts + 1
        /\ UNCHANGED <<status, evq, eventId, last, retryCount, running, recycleTimer,
                       releaseDelay, restores, armed, lastId, matched, replies>>
    BY DEF Request, fsm, ids
  <1>2. taskq' \in Seq(WorkerBodies)
    <2>1. taskq' = taskq \/ (taskq' = Append(taskq, t) /\ t \in Tasks)
      BY DEF Request, Post
    <2>2. taskq \in Seq(WorkerBodies) /\ Tasks \subseteq WorkerBodies
      BY DEF Inv, TypeOK, WorkerBodies
    <2> QED BY <2>1, <2>2
  <1>3. posts' \in 0 .. MaxPosts
    BY <1>1, FormStatusMgrAssumption DEF Inv, TypeOK
  <1>4. TypeOK'
    BY <1>1, <1>2, <1>3 DEF Inv, TypeOK, WorkerBodies
  <1> QED BY <1>1, <1>4, QuietKeepsInv

LEMMA ClientsKeepInv ==
    ASSUME Inv, Clients
    PROVE  Inv'
  <1>1. isExistRecycleTask \in BOOLEAN /\ expectRecycled \in BOOLEAN
    BY DEF Inv, TypeOK
  <1>2. PICK p \in Proxies :
           \/ \E f \in {"RenderForm", "UpdateForm"} : PostRenderForm(f, p)
           \/ \E f \in {"StopRenderingForm", "StopComponent"} : PostStopRenderingForm(f, p)
           \/ PostReleaseRenderer(p)
           \/ \E q \in {p, NoProxy} : PostRecycleForms(q)
           \/ \E click \in BOOLEAN : PostRecoverForm(p, click)
    BY DEF Clients
  <1>3. p \in Proxies \cup {NoProxy} /\ p # NoProxy
    BY FormStatusMgrAssumption DEF NoProxy
  <1> USE DEF Tasks, TasksOf, Funcs, FuncsOf, Task, FormFsmEvent
  <1>4. ASSUME NEW f \in {"RenderForm", "UpdateForm"}, PostRenderForm(f, p) PROVE Inv'
    <2>1. Task("RENDER_FORM", f, p) \in Tasks
      BY <1>3
    <2> QED BY <2>1, <1>1, <1>4, RequestKeepsInv DEF PostRenderForm, record
  <1>5. ASSUME NEW f \in {"StopRenderingForm", "StopComponent"}, PostStopRenderingForm(f, p)
        PROVE  Inv'
    <2>1. Task("DELETE_FORM", f, p) \in Tasks
      BY <1>3
    <2> QED BY <2>1, <1>1, <1>5, RequestKeepsInv DEF PostStopRenderingForm, record
  <1>6. CASE PostReleaseRenderer(p)
    <2>1. Task("RECYCLE_FORM", "ReleaseRenderer", p) \in Tasks
      BY <1>3
    <2> QED BY <2>1, <1>1, <1>6, RequestKeepsInv DEF PostReleaseRenderer, record
  <1>7. ASSUME NEW q \in {p, NoProxy}, PostRecycleForms(q) PROVE Inv'
    <2>1. Task("RECYCLE_DATA", "RecycleForm", q).proxy # NoProxy
             => Task("RECYCLE_DATA", "RecycleForm", q) \in Tasks
      BY <1>3
    <2> QED BY <2>1, <1>1, <1>7, RequestKeepsInv DEF PostRecycleForms
  <1>8. ASSUME NEW click \in BOOLEAN, PostRecoverForm(p, click) PROVE Inv'
    <2> DEFINE q == IF MayRecover(click) THEN p ELSE NoProxy
    <2>1. q \in Proxies \cup {NoProxy}
      BY <1>3
    <2>2. Task("RECOVER_FORM", "RecoverForm", q).proxy # NoProxy
             => Task("RECOVER_FORM", "RecoverForm", q) \in Tasks
      <3> HIDE DEF q
      <3> QED BY <2>1
    <2>3. Request(Task("RECOVER_FORM", "RecoverForm", q))
          /\ expectRecycled' = FALSE /\ isExistRecycleTask' = isExistRecycleTask
      BY <1>8 DEF PostRecoverForm
    <2> QED BY <2>2, <2>3, <1>1, RequestKeepsInv
  <1> QED BY <1>2, <1>4, <1>5, <1>6, <1>7, <1>8

\* The bodies the status centre posts by itself belong on the worker's queue.
LEMMA PostedBodies ==
    /\ \A e \in FailEvents \cup (DoneEvents \ {"RECYCLE_DATA_DONE"}) \cup {"EXECUTION_TIMEOUT"} :
          Event(e) \in Tasks
    /\ Task("RECYCLE_DATA_DONE", "OnRecycleForm", NoProxy) \in Tasks
    /\ \A p \in Proxies : Task("RECYCLE_DATA", "RestoreRecycled", p) \in Tasks
    /\ Event("WAIT_RELEASE_RENDERER_MSG") \in DelayedBodies(Msgs)
    /\ \A p \in Proxies : Task("RELEASE_RENDER_DELAY_MSG", "null", p) \in DelayedBodies(Msgs)
  <1> USE FormStatusMgrAssumption DEF FailEvents, DoneEvents, Event, Task, Tasks, TasksOf, Funcs,
          FuncsOf, FormFsmEvent, DelayedBodies, Msgs, NoProxy
  <1>1. \A e \in FailEvents \cup (DoneEvents \ {"RECYCLE_DATA_DONE"}) \cup {"EXECUTION_TIMEOUT"} :
           Event(e) \in Tasks
    OBVIOUS
  <1>2. Task("RECYCLE_DATA_DONE", "OnRecycleForm", NoProxy) \in Tasks
    OBVIOUS
  <1>3. \A p \in Proxies : Task("RECYCLE_DATA", "RestoreRecycled", p) \in Tasks
    OBVIOUS
  <1>4. /\ Event("WAIT_RELEASE_RENDERER_MSG") \in DelayedBodies(Msgs)
        /\ \A p \in Proxies : Task("RELEASE_RENDER_DELAY_MSG", "null", p) \in DelayedBodies(Msgs)
    OBVIOUS
  <1> QED BY <1>1, <1>2, <1>3, <1>4

\* A step of the worker or of a timer: the machine's state stays, or a retry is forgotten.
Quiet == /\ UNCHANGED <<status, evq, eventId, last, retryCount, lastId, record, env>>
         /\ running' \in {running, NoTask}

LEMMA QuietStepKeepsInv ==
    ASSUME Inv, Quiet, taskq' \in Seq(WorkerBodies), recycleTimer' \in BOOLEAN,
           releaseDelay' \in Proxies \cup {NoProxy}, restores' \in Seq(Proxies),
           armed' \subseteq armed, matched' \subseteq matched
    PROVE  Inv'
  <1>1. TypeOK'
    BY DEF Inv, TypeOK, Quiet, WorkerBodies, record, env, NoTask
  <1> QED BY <1>1, QuietKeepsInv DEF Quiet

LEMMA TaskFunctionsKeepInv ==
    ASSUME Inv, TaskFunctions
    PROVE  Inv'
  <1>0. /\ taskq \in Seq(WorkerBodies) /\ restores \in Seq(Proxies) /\ armed \subseteq 1 .. lastId
        /\ releaseDelay \in Proxies \cup {NoProxy} /\ recycleTimer \in BOOLEAN
    BY DEF Inv, TypeOK, WorkerBodies
  <1>1. \A e \in FailEvents : Append(taskq, Event(e)) \in Seq(WorkerBodies)
    <2>1. \A e \in FailEvents : Event(e) \in WorkerBodies
      BY PostedBodies DEF WorkerBodies
    <2> QED BY <2>1, <1>0
  \* A call on behalf of a task: its result is reported.
  <1>2. ASSUME NEW funcs, NEW err \in BOOLEAN, NEW e \in FailEvents, Run(funcs), Report(err, e),
               UNCHANGED <<recycleTimer, releaseDelay>>, restores' \in Seq(Proxies)
        PROVE  Inv'
    <2>1. taskq' \in Seq(WorkerBodies) /\ armed' \subseteq armed
      BY <1>0, <1>1, <1>2 DEF Report, Post
    <2>2. Quiet /\ matched' = matched
      BY <1>2 DEF Run, Quiet, fsm
    <2> QED BY <2>1, <2>2, <1>0, <1>2, QuietStepKeepsInv
  <1>3. ASSUME NEW err \in BOOLEAN,
               \/ RecycleForm(err) \/ RecoverForm(err) \/ StopRenderingForm(err)
        PROVE  Inv'
    BY <1>0, <1>2, <1>3 DEF RecycleForm, RecoverForm, StopRenderingForm, FailEvents
  <1>4. ASSUME NEW err \in BOOLEAN, RenderForm(err) PROVE Inv'
    <2>1. running.proxy \in Proxies
      <3>1. running # NoTask /\ running.func # "OnRecycleForm" /\ running.func # "null"
        BY <1>4 DEF RenderForm, Run, NoTask, Task
      <3> QED BY <3>1 DEF Inv, TypeOK, TasksOf
    <2>2. restores' \in Seq(Proxies)
      BY <1>0, <1>4, <2>1 DEF RenderForm
    <2> QED BY <1>2, <1>4, <2>2 DEF RenderForm, FailEvents
  <1>5. ASSUME NEW hosts \in 0 .. MaxHosts, NEW fails \in 0 .. MaxHosts, RestoreRecycled(hosts, fails)
        PROVE  Inv'
    <2>1. CASE expectRecycled \/ hosts > 0
      <3> DEFINE more == [i \in 1 .. fails |-> Event("RECYCLE_DATA_FAIL")]
      <3>1. Event("RECYCLE_DATA_FAIL") \in WorkerBodies
        BY PostedBodies DEF WorkerBodies, FailEvents
      <3>2. more \in Seq(WorkerBodies)
        <4>1. fails \in Nat
          BY FormStatusMgrAssumption
        <4>2. more \in [1 .. fails -> WorkerBodies]
          BY <3>1
        <4> QED BY <4>1, <4>2
      <3>3. taskq' = taskq \o more /\ armed' \subseteq armed
        BY <1>5, <2>1 DEF RestoreRecycled
      <3>4. taskq' \in Seq(WorkerBodies)
        <4> HIDE DEF more
        <4> QED BY <1>0, <3>2, <3>3
      <3>5. Quiet /\ UNCHANGED <<matched, recycleTimer, releaseDelay, restores>>
        BY <1>5 DEF RestoreRecycled, Run, Quiet, fsm
      <3> QED BY <3>3, <3>4, <3>5, <1>0, QuietStepKeepsInv
    <2>2. CASE ~(expectRecycled \/ hosts > 0)
      BY <1>0, <1>2, <1>5, <2>2 DEF RestoreRecycled, FailEvents
    <2> QED BY <2>1, <2>2
  <1>6. CASE OnRecycleForm
    <2>1. taskq' \in Seq(WorkerBodies)
      BY <1>0, <1>6, WithoutType DEF OnRecycleForm
    <2>2. Quiet /\ recycleTimer' = TRUE /\ UNCHANGED <<matched, armed, releaseDelay, restores>>
      BY <1>6 DEF OnRecycleForm, Run, Quiet, fsm
    <2> QED BY <2>1, <2>2, <1>0, QuietStepKeepsInv
  <1>7. CASE PostDelayReleaseRenderer
    <2>1. taskq' \in Seq(WorkerBodies)
      BY <1>0, <1>7, WithoutType DEF PostDelayReleaseRenderer
    <2>2. running.proxy \in Proxies \cup {NoProxy}
      BY DEF Inv, TypeOK, TasksOf, NoTask, Task
    <2>3. Quiet /\ recycleTimer' = FALSE /\ releaseDelay' = running.proxy
          /\ UNCHANGED <<matched, armed, restores>>
      BY <1>7 DEF PostDelayReleaseRenderer, Run, Quiet, fsm
    <2> QED BY <2>1, <2>2, <2>3, <1>0, QuietStepKeepsInv
  <1>8. CASE RecycleTimeout \/ \E err \in BOOLEAN : ReleaseRenderer(err)
    <2>1. Idle /\ Event("RECYCLE_FORM_FAIL") \in WorkerBodies
      BY <1>8, PostedBodies DEF RecycleTimeout, ReleaseRenderer, WorkerBodies, FailEvents
    <2>2. Tail(taskq) \in Seq(WorkerBodies)
      BY <2>1, HeadOfTaskq DEF Inv
    <2>3. taskq' = Tail(taskq) \/ taskq' = Append(Tail(taskq), Event("RECYCLE_FORM_FAIL"))
      BY <1>8 DEF RecycleTimeout, ReleaseRenderer, Post
    <2>4. taskq' \in Seq(WorkerBodies)
      BY <2>1, <2>2, <2>3
    <2>5. Quiet /\ armed' \subseteq armed
          /\ UNCHANGED <<matched, recycleTimer, releaseDelay, restores>>
      BY <1>8 DEF RecycleTimeout, ReleaseRenderer, Quiet, fsm, ids
    <2> QED BY <2>4, <2>5, <1>0, QuietStepKeepsInv
  <1> QED BY <1>3, <1>4, <1>5, <1>6, <1>7, <1>8 DEF TaskFunctions

LEMMA DelaysKeepInv ==
    ASSUME Inv, Delays
    PROVE  Inv'
  <1>0. /\ taskq \in Seq(WorkerBodies) /\ restores \in Seq(Proxies)
        /\ releaseDelay \in Proxies \cup {NoProxy} /\ recycleTimer \in BOOLEAN
    BY DEF Inv, TypeOK, WorkerBodies
  <1>1. PICK t \in WorkerBodies : taskq' = Append(taskq, t)
    <2> USE PostedBodies DEF Post, WorkerBodies
    <2>1. CASE RecycleTimerDue
      BY <2>1 DEF RecycleTimerDue
    <2>2. CASE ReleaseDelayDue
      BY <2>2, <1>0 DEF ReleaseDelayDue
    <2>3. CASE RestoreDue
      <3>1. Head(restores) \in Proxies
        BY <2>3, <1>0 DEF RestoreDue
      <3> QED BY <2>3, <3>1 DEF RestoreDue
    <2>4. CASE \E i \in armed : ExecutionTimeout(i)
      BY <2>4 DEF ExecutionTimeout
    <2> QED BY <2>1, <2>2, <2>3, <2>4 DEF Delays
  <1>2. taskq' \in Seq(WorkerBodies)
    BY <1>0, <1>1
  <1>3. restores' \in Seq(Proxies)
    <2>1. restores' = restores \/ (restores # <<>> /\ restores' = Tail(restores))
      BY DEF Delays, RecycleTimerDue, ReleaseDelayDue, RestoreDue, ExecutionTimeout
    <2> QED BY <2>1, <1>0
  <1>4. /\ Quiet /\ armed' \subseteq armed /\ matched' = matched
        /\ recycleTimer' \in BOOLEAN /\ releaseDelay' \in Proxies \cup {NoProxy}
    BY <1>0 DEF Delays, RecycleTimerDue, ReleaseDelayDue, RestoreDue, ExecutionTimeout, DelayOver,
       Quiet, fsm, ids
  <1> QED BY <1>2, <1>3, <1>4, QuietStepKeepsInv

LEMMA RepliesKeepInv ==
    ASSUME Inv, Replies
    PROVE  Inv'
  <1>1. ASSUME NEW e \in FailEvents \cup DoneEvents, NEW i \in 1 .. lastId,
               HandleFrsEventReply(e, i)
        PROVE  Inv'
    <2>1. replies' \in 0 .. MaxReplies /\ retryCount' \in {retryCount, 0}
          /\ matched' \subseteq [event: FailEvents \cup DoneEvents, id: 1 .. lastId]
      BY <1>1, FormStatusMgrAssumption DEF HandleFrsEventReply, Inv, TypeOK
    <2>2. TypeOK'
      BY <1>1, <2>1 DEF HandleFrsEventReply, Inv, TypeOK, worker, record
    <2> QED BY <1>1, <2>1, <2>2, QuietKeepsInv DEF HandleFrsEventReply, worker
  <1>2. ASSUME NEW m \in matched, PostReply(m) PROVE Inv'
    <2>1. m.event \in FailEvents \cup DoneEvents /\ taskq \in Seq(WorkerBodies)
      BY DEF Inv, TypeOK, WorkerBodies
    <2>2. PICK t \in WorkerBodies : taskq' = Append(taskq, t)
      BY <1>2, <2>1, PostedBodies DEF PostReply, Post, WorkerBodies
    <2>3. taskq' \in Seq(WorkerBodies)
      BY <2>1, <2>2
    <2>4. Quiet /\ armed' \subseteq armed /\ matched' \subseteq matched
          /\ UNCHANGED <<recycleTimer, releaseDelay, restores>>
      BY <1>2 DEF PostReply, Quiet, fsm
    <2> QED BY <2>3, <2>4, QuietStepKeepsInv DEF Inv, TypeOK
  <1> QED BY <1>1, <1>2 DEF Replies

--------------------------------------------------------------------------------
LEMMA InitInv == Init => Inv
  <1> SUFFICES ASSUME Init PROVE Inv
    OBVIOUS
  <1>1. evq \in Seq(TasksOf(DOMAIN Starts)) /\ Len(evq) <= EVENT_QUEUE_SIZE_MAX
    BY FormStatusMgrAssumption DEF Init
  <1>2. taskq \in Seq(Tasks \cup DelayedBodies(Msgs)) /\ restores \in Seq(Proxies)
    BY DEF Init
  <1>3. /\ 0 \in 0 .. MaxEventId /\ 0 \in 0 .. MaxPosts /\ 0 \in 0 .. MaxReplies
    BY FormStatusMgrAssumption
  <1>a. isExistRecycleTask \in BOOLEAN /\ expectRecycled \in BOOLEAN /\ recycleTimer \in BOOLEAN
    BY Zenon DEF Init
  <1>4. TypeOK
    BY <1>1, <1>2, <1>3, <1>a DEF Init, TypeOK, NoId, NoProxy
  <1> QED BY <1>4 DEF Init, Inv, RetryRepeatsOperation, CallOwnsOperation, NothingLeftBehind,
             Busy, Absent

LEMMA NextInv == Inv /\ [Next]_vars => Inv'
  <1> SUFFICES ASSUME Inv, [Next]_vars PROVE Inv'
    OBVIOUS
  <1>1. CASE UNCHANGED vars
    BY <1>1 DEF vars, fsm, worker, ids, record, env, Inv, TypeOK, RetryRepeatsOperation,
       CallOwnsOperation, NothingLeftBehind
  <1>2. CASE Next
    BY <1>2, ClientsKeepInv, MachineKeepsInv, TaskFunctionsKeepInv, DelaysKeepInv, RepliesKeepInv
       DEF Next
  <1> QED BY <1>1, <1>2

(* Every variable keeps its type and the event queue its capacity, for any *)
(* number of requests, replies and event ids.                              *)
THEOREM TypeCorrect == Spec => []TypeOK
  <1>1. Inv => TypeOK
    BY DEF Inv
  <1> QED BY <1>1, InitInv, NextInv, PTL DEF Spec

(* In every reachable state of a busy form, the task a retry would repeat  *)
(* is that of the operation under way, which owns the newest event id.     *)
THEOREM RetryIsSafe == Spec => []RetryRepeatsOperation
  <1>1. Inv => RetryRepeatsOperation
    BY DEF Inv
  <1> QED BY <1>1, InitInv, NextInv, PTL DEF Spec

(* A call to the render service always belongs to the operation the        *)
(* form's status names.                                                    *)
THEOREM CallsAreOwned == Spec => []CallOwnsOperation
  <1>1. Inv => CallOwnsOperation
    BY DEF Inv
  <1> QED BY <1>1, InitInv, NextInv, PTL DEF Spec

(* A deleted form leaves nothing in the maps of the status centre.         *)
THEOREM DeleteIsClean == Spec => []NothingLeftBehind
  <1>1. Inv => NothingLeftBehind
    BY DEF Inv
  <1> QED BY <1>1, InitInv, NextInv, PTL DEF Spec

--------------------------------------------------------------------------------
(* The refinement.                                                         *)

\* The rest statuses and the operations of FormOperations are the table's.
LEMMA OperationsAreBusy == {Starts[e] : e \in DOMAIN Starts} = Busy
  BY DEF Starts, Busy

\* A step that starts the operation of t at rest, or takes it from the queue.
LEMMA StartedPhase ==
    ASSUME NEW t, Started(t)
    PROVE  GetFormStatus' = Starts[t.event] /\ Starts[t.event] \in Busy /\ lastId' = lastId + 1
  BY DEF Started, GetFormStatus, Starts, Busy, Absent

LEMMA RestPhase ==
    ASSUME NEW s \in FormFsmStatus, status' = s
    PROVE  GetFormStatus' = s
  BY DEF GetFormStatus, FormFsmStatus, Absent

Stutters == UNCHANGED <<GetFormStatus, lastId, Keep(evq, Retained)>>

LEMMA FromQueueRefines ==
    ASSUME Inv, GetFormStatus \in Busy, NEW s \in AtRest, FromQueue(s)
    PROVE  Operations!Next
  <1>0. evq \in Seq(TasksOf(DOMAIN Starts)) /\ s \in FormFsmStatus
    BY DEF Inv, TypeOK, AtRest
  <1>1. CASE evq = <<>>
    <2>1. GetFormStatus' = s /\ UNCHANGED <<lastId, evq>>
      BY <1>0, <1>1, RestPhase DEF FromQueue
    <2> QED BY <2>1, OperationsAreBusy DEF Operations!Next, Operations!End, Operations!Operations
  <1>2. CASE evq # <<>>
    <2> DEFINE t == Head(evq)
               pre == IF t \in Retained THEN <<t>> ELSE <<>>
    <2>1. t \in TasksOf(DOMAIN Starts) /\ Tail(evq) \in Seq(TasksOf(DOMAIN Starts))
      BY <1>0, <1>2
    <2>2. t \in Tasks /\ t.event \in DOMAIN Starts
      BY <2>1 DEF Tasks, TasksOf, Starts, FormFsmEvent
    <2>3. Keep(evq, Retained) = pre \o Keep(Tail(evq), Retained)
      BY <1>0, <1>2, KeepHeadTail
    <2>4. Keep(Tail(evq), Retained) \in Seq(TasksOf(DOMAIN Starts) \cap Retained)
      BY <2>1, KeepType
    <2>5. evq' = Tail(evq) /\ Begin(s, t)
      BY <1>2 DEF FromQueue
    <2>6. CASE t \in Retained
      <3>1. t.event \in {"RENDER_FORM", "DELETE_FORM"} /\ HasRow(s, t.event)
        BY <2>6, RetainedHaveRows DEF Retained, TasksOf
      <3>2. Started(t)
        BY <3>1, <2>2, <2>5, BeginAtRest
      <3>3. Keep(evq, Retained) # <<>> /\ Head(Keep(evq, Retained)) = t
            /\ Tail(Keep(evq, Retained)) = Keep(evq', Retained)
        <4>1. \A q \in Seq(Retained) : /\ <<t>> \o q # <<>> /\ Head(<<t>> \o q) = t
                                       /\ Tail(<<t>> \o q) = q
          BY <2>6
        <4>2. Keep(Tail(evq), Retained) \in Seq(Retained)
          BY <2>4
        <4> QED BY <2>3, <2>5, <2>6, <4>1, <4>2
      <3> QED BY <3>2, <3>3, StartedPhase, OperationsAreBusy
          DEF Operations!Next, Operations!EndAndBeginNext, Operations!Begin, Operations!Operations,
              Retained
    <2>7. CASE t \notin Retained
      <3>1. Keep(evq', Retained) = Keep(evq, Retained)
        <4>1. \A q \in Seq(Retained) : <<>> \o q = q
          OBVIOUS
        <4>2. Keep(Tail(evq), Retained) \in Seq(Retained)
          BY <2>4
        <4> QED BY <2>3, <2>5, <2>7, <4>1, <4>2
      <3>2. CASE Started(t)
        <4>1. Starts[t.event] \in {"RECYCLING_DATA", "RECYCLING", "RECOVERING"}
          BY <2>1, <2>7 DEF Retained, TasksOf, Starts
        <4>2. Operations!EndAndBeginOther(Starts[t.event])
          BY <3>1, <3>2, <4>1, StartedPhase, OperationsAreBusy
             DEF Operations!EndAndBeginOther, Operations!Begin, Operations!Operations
        <4> QED BY <4>2, <2>2 DEF Operations!Next, Operations!Operations
      <3>3. CASE NothingStarted(s)
        <4>1. GetFormStatus' = s /\ lastId' = lastId
          BY <1>0, <3>3, RestPhase DEF NothingStarted
        <4> QED BY <3>1, <4>1, OperationsAreBusy
            DEF Operations!Next, Operations!End, Operations!Operations
      <3> QED BY <3>2, <3>3, <2>2, <2>5, BeginAtRest
    <2> QED BY <2>6, <2>7
  <1> QED BY <1>1, <1>2

LEMMA MachineRefines ==
    ASSUME Inv, Machine
    PROVE  Operations!Next \/ Stutters
  <1> DEFINE s == GetFormStatus
             e == Head(taskq).event
  <1>0. TypeOK /\ Idle /\ s \in FormFsmStatus
    BY StatusInTable DEF Inv, Machine, RejectTask, ProcessTaskDirect, AddTaskToQueueUnique,
       AddTaskToQueuePush, ProcessTaskFromQueue, ProcessTaskDelete, ProcessTaskFromRetry, Step, Idle
  <1>1. /\ e \in FormFsmEvent => Head(taskq) \in Tasks
        /\ evq \in Seq(TasksOf(DOMAIN Starts)) /\ Len(evq) <= EVENT_QUEUE_SIZE_MAX
    BY <1>0, HeadOfTaskq DEF TypeOK
  <1>2. s \in AtRest \/ s \in Busy
    BY <1>0, StatusInTable
  <1> USE OperationsAreBusy DEF Operations!Operations
  <1>3. CASE RejectTask
    <2>1. status' = s /\ UNCHANGED <<lastId, evq>>
      BY <1>3 DEF RejectTask, ids
    <2> QED BY <2>1, <1>0, RestPhase DEF Stutters
  <1>4. CASE ProcessTaskDirect
    <2>1. /\ e \in FormFsmEvent /\ HasRow(s, e) /\ Begin(s, Head(taskq)) /\ evq' = evq
          /\ GetFormStatusInfo(s, e).processType = "PROCESS_TASK_DIRECT"
      BY <1>4 DEF ProcessTaskDirect, Step
    <2>2. CASE s \in AtRest
      <3>1. Started(Head(taskq))
        BY <2>1, <2>2, <1>1, BeginAtRest
      <3> QED BY <2>1, <2>2, <3>1, StartedPhase
          DEF Operations!Next, Operations!BeginAtRest, Operations!Begin
    <2>3. CASE s \in Busy
      <3>1. BusyRow(s, e)
        BY <2>1, <2>3, BusyRowsShape
      <3>2. CASE e = "RECYCLE_FORM"
        <4>1. s = "RECYCLING_DATA"
              /\ GetFormStatusInfo(s, e) = Row("RECYCLING", "PROCESS_TASK_DIRECT", TRUE)
          BY <2>1, <3>1, <3>2 DEF BusyRow, Row
        <4>2. status' = "RECYCLING" /\ lastId' = lastId + 1
          BY <2>1, <3>2, <4>1 DEF Begin, Row, ExecFormTaskTimeout
        <4>3. s' = "RECYCLING" /\ "RECYCLING" \in Busy
          BY <4>2, RestPhase DEF FormFsmStatus, Busy
        <4>4. Operations!EndAndBeginOther("RECYCLING")
          BY <2>1, <2>3, <4>2, <4>3 DEF Operations!EndAndBeginOther, Operations!Begin
        <4> QED BY <4>3, <4>4 DEF Operations!Next
      <3>3. CASE e # "RECYCLE_FORM"
        <4>1. PICK next \in {"RECYCLING_DATA", "RENDERED", "UNPROCESSABLE"} :
                 /\ GetFormStatusInfo(s, e) = Row(next, "PROCESS_TASK_DIRECT", FALSE)
                 /\ next = "RECYCLING_DATA" => s = "RECYCLING_DATA"
          BY <2>1, <3>1, <3>3 DEF BusyRow, Row
        <4>2. s' = next /\ lastId' = lastId
          <5>1. status' = next /\ lastId' = lastId /\ next \in FormFsmStatus
            BY <2>1, <4>1 DEF Begin, Row, ExecFormTaskTimeout, FormFsmStatus
          <5> QED BY <5>1, RestPhase
        <4>3. CASE next = "RECYCLING_DATA"
          BY <2>1, <4>1, <4>2, <4>3 DEF Stutters
        <4>4. CASE next # "RECYCLING_DATA"
          <5>1. next \in AtRest
            BY <4>4 DEF AtRest, FormFsmStatus, Busy
          <5> QED BY <2>1, <2>3, <4>2, <5>1 DEF Operations!Next, Operations!End
        <4> QED BY <4>3, <4>4
      <3> QED BY <3>2, <3>3
    <2> QED BY <1>2, <2>2, <2>3
  <1>5. CASE AddTaskToQueueUnique \/ AddTaskToQueuePush
    <2>1. /\ e \in FormFsmEvent /\ HasRow(s, e) /\ status' = NextStatus /\ lastId' = lastId
          /\ GetFormStatusInfo(s, e).processType
               \in {"ADD_TASK_TO_QUEUE_UNIQUE", "ADD_TASK_TO_QUEUE_PUSH"}
      BY <1>5 DEF AddTaskToQueueUnique, AddTaskToQueuePush, Step
    <2>2. s \in Busy
      BY <2>1, <1>2, RestRows DEF Row
    <2>3. e \in DOMAIN Starts /\ NextStatus = s
      BY <2>1, <2>2, BusyRowsShape DEF BusyRow, Row, NextStatus
    <2>4. s' = s
      BY <2>1, <2>3, <1>0, RestPhase
    <2> DEFINE t == Head(taskq)
               q == Append(evq, t)
    <2>5. t \in TasksOf(DOMAIN Starts)
      BY <2>1, <2>3, <1>1 DEF Tasks, TasksOf
    <2>6. Keep(q, Retained) = IF t \in Retained THEN Append(Keep(evq, Retained), t)
                                                ELSE Keep(evq, Retained)
      BY <2>5, <1>1, KeepAppend
    <2>7. Keep(Keep(q, Retained), Retained) = Keep(q, Retained)
      <3>1. q \in Seq(TasksOf(DOMAIN Starts))
        BY <2>5, <1>1
      <3>2. Keep(q, Retained) \in Seq(TasksOf(DOMAIN Starts) \cap Retained)
        BY <3>1, KeepType
      <3>3. Keep(q, Retained) \in Seq(Retained)
        BY <3>2
      <3> QED BY <3>3, KeepAll
    <2>8. Keep(evq', Retained) \in {Keep(evq, Retained), Keep(q, Retained)}
      BY <1>5, <2>7 DEF AddTaskToQueueUnique, AddTaskToQueuePush, Push
    <2>9. CASE Keep(evq', Retained) = Keep(evq, Retained)
      BY <2>1, <2>4, <2>9 DEF Stutters
    <2>10. CASE Keep(evq', Retained) # Keep(evq, Retained)
      <3>1. t \in Retained /\ Keep(evq', Retained) = Append(Keep(evq, Retained), t)
        BY <2>6, <2>8, <2>10
      <3> QED BY <3>1, <2>1, <2>2, <2>4 DEF Operations!Next, Operations!PutAside
    <2> QED BY <2>9, <2>10
  <1>6. CASE ProcessTaskFromQueue
    <2>1. /\ e \in FormFsmEvent /\ HasRow(s, e) /\ FromQueue(NextStatus)
          /\ GetFormStatusInfo(s, e).processType = "PROCESS_TASK_FROM_QUEUE"
      BY <1>6 DEF ProcessTaskFromQueue, Step
    <2>2. s \in Busy
      BY <2>1, <1>2, RestRows DEF Row
    <2>3. NextStatus \in AtRest
      BY <2>1, <2>2, BusyRowsShape DEF BusyRow, Row, NextStatus, AtRest, FormFsmStatus, Busy
    <2> QED BY <2>1, <2>2, <2>3, FromQueueRefines
  <1>7. CASE ProcessTaskDelete
    <2>1. /\ e \in FormFsmEvent /\ HasRow(s, e)
          /\ GetFormStatusInfo(s, e).processType = "PROCESS_TASK_DELETE"
          /\ status' = Absent /\ evq' = <<>> /\ lastId' = lastId
      BY <1>7 DEF ProcessTaskDelete, Step
    <2>2. s \in Busy
      BY <2>1, <1>2, RestRows DEF Row
    <2>3. s = "DELETING"
      BY <2>1, <2>2, BusyRowsShape DEF BusyRow, Row
    <2>4. Keep(<<>>, Retained) = <<>>
      <3>1. <<>> \in Seq(Retained)
        OBVIOUS
      <3> QED BY <3>1, KeepAll
    <2>5. s' = "INIT"
      BY <2>1 DEF GetFormStatus
    <2> QED BY <2>1, <2>3, <2>4, <2>5 DEF Operations!Next, Operations!Finish
  <1>8. CASE ProcessTaskFromRetry
    <2>1. /\ e \in FormFsmEvent /\ HasRow(s, e)
          /\ GetFormStatusInfo(s, e).processType = "PROCESS_TASK_RETRY"
      BY <1>8 DEF ProcessTaskFromRetry, Step
    <2>2. s \in Busy /\ status = s
      BY <2>1, <1>0, <1>2, RestRows, StatusInTable DEF Row
    <2>3. NextStatus = "UNPROCESSABLE" /\ NextStatus \in AtRest /\ NextStatus \in FormFsmStatus
      BY <2>1, <2>2, BusyRowsShape DEF BusyRow, Row, NextStatus, AtRest, FormFsmStatus, Busy
    <2>4. CASE retryCount = 1
      BY <1>8, <2>2, <2>3, <2>4, FromQueueRefines DEF ProcessTaskFromRetry
    <2>5. CASE retryCount # 1
      <3>1. evq' = evq /\ last # NoTask /\ Begin(NextStatus, last) /\ OperationOf(last) = s
        BY <1>8, <2>5, <2>2 DEF ProcessTaskFromRetry, Inv, RetryRepeatsOperation
      <3>2. last \in Tasks
        BY <1>0, <3>1 DEF TypeOK, Tasks, TasksOf, Starts, FormFsmEvent
      <3>3. CASE Started(last)
        <4>1. Starts[last.event] = s
          BY <3>1, <3>3 DEF OperationOf, Started, Starts
        <4>2. Operations!EndAndBeginOther(s)
          BY <2>2, <3>1, <3>3, <4>1, StartedPhase
             DEF Operations!EndAndBeginOther, Operations!Begin
        <4> QED BY <2>2, <4>2 DEF Operations!Next
      <3>4. CASE NothingStarted(NextStatus)
        <4>1. s' = NextStatus /\ lastId' = lastId
          BY <2>3, <3>4, RestPhase DEF NothingStarted
        <4> QED BY <2>2, <2>3, <3>1, <4>1 DEF Operations!Next, Operations!End
      <3> QED BY <3>1, <3>2, <3>3, <3>4, <2>3, BeginAtRest
    <2> QED BY <2>4, <2>5
  <1> QED BY <1>3, <1>4, <1>5, <1>6, <1>7, <1>8 DEF Machine

\* Every step of the centre is a step of FormOperations or none.
LEMMA NextRefines ==
    Inv /\ [Next]_vars => [Operations!Next]_<<GetFormStatus, lastId, Keep(evq, Retained)>>
  <1> SUFFICES ASSUME Inv, [Next]_vars
               PROVE  Operations!Next \/ Stutters
    BY DEF Stutters
  <1>1. CASE UNCHANGED <<status, evq, lastId>>
    BY <1>1 DEF Stutters, GetFormStatus
  <1>2. CASE Machine
    BY <1>2, MachineRefines
  <1>3. CASE Clients
    BY <1>1, <1>3 DEF Clients, PostRenderForm, PostStopRenderingForm, PostReleaseRenderer,
       PostRecycleForms, PostRecoverForm, Request, fsm, ids
  <1>4. CASE TaskFunctions
    BY <1>1, <1>4 DEF TaskFunctions, OnRecycleForm, PostDelayReleaseRenderer, RecycleTimeout,
       RenderForm, RecycleForm, RecoverForm, StopRenderingForm, ReleaseRenderer, RestoreRecycled,
       Run, fsm, ids
  <1>5. CASE Delays
    BY <1>1, <1>5 DEF Delays, RecycleTimerDue, ReleaseDelayDue, RestoreDue, ExecutionTimeout,
       DelayOver, fsm, ids
  <1>6. CASE Replies
    BY <1>1, <1>6 DEF Replies, HandleFrsEventReply, PostReply, fsm
  <1>7. CASE UNCHANGED vars
    BY <1>1, <1>7 DEF vars, fsm, ids
  <1> QED BY <1>2, <1>3, <1>4, <1>5, <1>6, <1>7 DEF Next

(* The status centre implements FormOperations: one operation at a time,   *)
(* renders and deletes put aside carried out in order.                     *)
THEOREM CentreImplementsOperations == Spec => ImplementsOperations
  <1>1. Init => Operations!Init
    <2>1. <<>> \in Seq(Retained)
      OBVIOUS
    <2>2. Keep(<<>>, Retained) = <<>>
      BY <2>1, KeepAll
    <2> QED BY <2>2 DEF Init, Operations!Init, GetFormStatus
  <1> QED BY <1>1, NextRefines, InitInv, NextInv, PTL
          DEF Spec, ImplementsOperations, Operations!Spec

\* An operation never changes without a new event id: what FormOperations
\* says of its ids, for the ids of the centre.
LEMMA IdsAreFresh ==
    ASSUME Inv, [Next]_vars
    PROVE  /\ lastId' \in {lastId, lastId + 1}
           /\ status' \in Busy /\ lastId' = lastId => status' = status
  <1>1. [Operations!Next]_<<GetFormStatus, lastId, Keep(evq, Retained)>>
    BY NextRefines
  <1>2. lastId \in Nat
    BY FormStatusMgrAssumption DEF Inv, TypeOK
  <1>3. /\ lastId' \in {lastId, lastId + 1}
        /\ lastId' = lastId => GetFormStatus' = GetFormStatus \/ GetFormStatus' \in AtRest
    <2>1. "INIT" \in AtRest
      BY DEF AtRest, FormFsmStatus, Busy
    <2> QED BY <1>1, <1>2, <2>1
            DEF Operations!Next, Operations!BeginAtRest, Operations!Begin, Operations!PutAside,
                Operations!End, Operations!EndAndBeginNext, Operations!EndAndBeginOther,
                Operations!Finish
  <1>4. status' \in Busy => GetFormStatus' = status' /\ GetFormStatus' \notin AtRest
    BY DEF GetFormStatus, Busy, AtRest, Absent
  <1>5. GetFormStatus \in Busy => status = GetFormStatus
    BY StatusInTable DEF Inv
  <1> QED BY <1>3, <1>4, <1>5

--------------------------------------------------------------------------------
(* What was put aside.                                                     *)

\* Taking up the queue at the end of an operation: either the next operation
\* starts, or the queue was empty, or its head has no row.
LEMMA FromQueueTakesUp ==
    ASSUME Inv, NEW s \in AtRest, FromQueue(s), evq' # <<>>
    PROVE  status' \in Busy \/ ~HasRow(status', Head(evq).event)
  <1>1. evq # <<>> /\ evq \in Seq(TasksOf(DOMAIN Starts))
    BY DEF FromQueue, Inv, TypeOK
  <1>2. Head(evq) \in Tasks
    BY <1>1 DEF Tasks, TasksOf, Starts, FormFsmEvent
  <1>3. Begin(s, Head(evq))
    BY <1>1 DEF FromQueue
  <1>4. CASE Started(Head(evq))
    BY <1>4, StartedPhase DEF Started
  <1>5. CASE ~HasRow(s, Head(evq).event) /\ NothingStarted(s)
    BY <1>5 DEF NothingStarted
  <1> QED BY <1>2, <1>3, <1>4, <1>5, BeginAtRest

\* The steps of the machine that end an operation.
LEMMA MachineTakesUp ==
    ASSUME Inv, Machine, status \in Busy, status' \in AtRest, evq' # <<>>
    PROVE  \/ /\ status = "RECYCLING_DATA"
              /\ Head(taskq).event \in {"RECYCLE_DATA_FAIL", "RECYCLE_FORM_FAIL"}
           \/ ~HasRow(status', Head(evq).event)
           \/ last.event = "RECYCLE_DATA_DONE" /\ retryCount' = 1
  <1> DEFINE e == Head(taskq).event
  <1>1. /\ TypeOK /\ RetryRepeatsOperation /\ GetFormStatus = status /\ status' \notin Busy
        /\ Idle
    BY DEF Inv, GetFormStatus, Busy, Absent, AtRest, Machine, RejectTask, ProcessTaskDirect,
       AddTaskToQueueUnique, AddTaskToQueuePush, ProcessTaskFromQueue, ProcessTaskDelete,
       ProcessTaskFromRetry, Step
  <1>2. ASSUME NEW type, Step(type)
        PROVE  /\ BusyRow(status, e) /\ GetFormStatusInfo(status, e).processType = type
               /\ NextStatus = GetFormStatusInfo(status, e).nextStatus
    BY <1>1, <1>2, BusyRowsShape DEF Step, NextStatus
  <1>3. CASE RejectTask
    BY <1>1, <1>3 DEF RejectTask
  <1>4. CASE ProcessTaskDirect
    <2>1. /\ BusyRow(status, e) /\ Begin(status, Head(taskq)) /\ HasRow(status, e)
          /\ GetFormStatusInfo(status, e).processType = "PROCESS_TASK_DIRECT"
      BY <1>1, <1>2, <1>4 DEF ProcessTaskDirect, Step
    <2>2. status' = GetFormStatusInfo(status, e).nextStatus
      BY <2>1 DEF Begin
    <2> QED BY <1>1, <2>1, <2>2 DEF BusyRow, Row, Busy
  <1>5. CASE AddTaskToQueueUnique \/ AddTaskToQueuePush
    <2>1. PICK type \in {"ADD_TASK_TO_QUEUE_UNIQUE", "ADD_TASK_TO_QUEUE_PUSH"} : Step(type)
      BY <1>5 DEF AddTaskToQueueUnique, AddTaskToQueuePush
    <2>2. status' = NextStatus
      BY <1>5 DEF AddTaskToQueueUnique, AddTaskToQueuePush
    <2>3. /\ BusyRow(status, e) /\ GetFormStatusInfo(status, e).processType = type
          /\ status' = GetFormStatusInfo(status, e).nextStatus
      BY <1>2, <2>1, <2>2
    <2>4. status' = status
      BY <2>1, <2>3 DEF BusyRow, Row
    <2> QED BY <1>1, <2>4
  <1>6. CASE ProcessTaskFromQueue
    <2>1. NextStatus \in AtRest
      BY <1>2, <1>6 DEF ProcessTaskFromQueue, BusyRow, Row, AtRest, FormFsmStatus, Busy
    <2> QED BY <1>1, <1>6, <2>1, FromQueueTakesUp DEF ProcessTaskFromQueue
  <1>7. CASE ProcessTaskDelete
    BY <1>7 DEF ProcessTaskDelete
  <1>8. CASE ProcessTaskFromRetry
    <2>1. NextStatus = "UNPROCESSABLE" /\ NextStatus \in AtRest
      BY <1>2, <1>8 DEF ProcessTaskFromRetry, BusyRow, Row, AtRest, FormFsmStatus, Busy
    <2>2. CASE retryCount = 1
      BY <1>1, <1>8, <2>1, <2>2, FromQueueTakesUp DEF ProcessTaskFromRetry
    <2>3. CASE retryCount # 1 /\ last.event # "RECYCLE_DATA_DONE"
      <3>1. last # NoTask /\ Begin("UNPROCESSABLE", last) /\ retryCount' = 1
        BY <1>1, <1>8, <2>1, <2>3 DEF ProcessTaskFromRetry, RetryRepeatsOperation
      <3>2. last \in Tasks /\ last.event \in DOMAIN Starts
        BY <1>1, <2>3, <3>1 DEF TypeOK, Tasks, TasksOf, Starts, FormFsmEvent
      <3>3. HasRow("UNPROCESSABLE", last.event)
        BY <3>2 DEF HasRow, FORM_STATUS_TABLE, FormFsmStatus, FORM_STATUS_TABLE_UNPROCESSABLE,
           StartRows
      <3>4. Started(last)
        BY <2>1, <3>1, <3>2, <3>3, BeginAtRest
      <3> QED BY <1>1, <3>4, StartedPhase DEF Started
    <2>4. CASE retryCount # 1 /\ last.event = "RECYCLE_DATA_DONE"
      BY <1>8, <2>4 DEF ProcessTaskFromRetry
    <2> QED BY <2>2, <2>3, <2>4
  <1> QED BY <1>3, <1>4, <1>5, <1>6, <1>7, <1>8 DEF Machine

\* Whatever an operation's end leaves in the event queue is what it may leave:
\* the queue is taken up with every end that looks at it (ProcessTaskFromQueue,
\* ProcessTaskFromRetry), for any capacity and any requests.
THEOREM QueueIsTakenUp == Spec => QueueTakenUp
  <1>1. ASSUME Inv, [Next]_vars, status \in Busy, status' \in AtRest
        PROVE  Machine
    <2>1. status' # status
      BY <1>1 DEF AtRest
    <2> QED BY <1>1, <2>1
       DEF Next, Clients, PostRenderForm, PostStopRenderingForm, PostReleaseRenderer,
       PostRecycleForms, PostRecoverForm, Request, TaskFunctions, OnRecycleForm,
       PostDelayReleaseRenderer, RecycleTimeout,
       RenderForm, RecycleForm, RecoverForm, StopRenderingForm, ReleaseRenderer, RestoreRecycled,
       Run, Delays, RecycleTimerDue, ReleaseDelayDue, RestoreDue, ExecutionTimeout,
       DelayOver, Replies, HandleFrsEventReply, PostReply, vars, fsm
  <1>2. Inv /\ [Next]_vars =>
          ((status \in Busy /\ status' \in AtRest /\ evq' # <<>>) =>
              \/ /\ status = "RECYCLING_DATA"
                 /\ Head(taskq).event \in {"RECYCLE_DATA_FAIL", "RECYCLE_FORM_FAIL"}
              \/ ~HasRow(status', Head(evq).event)
              \/ last.event = "RECYCLE_DATA_DONE" /\ retryCount' = 1)
    BY <1>1, MachineTakesUp
  <1> QED BY <1>2, InitInv, NextInv, PTL DEF Spec, QueueTakenUp

================================================================================
