--------------------------- MODULE FormShareMgr_proofs ---------------------------
(***************************************************************************)
(* Proofs about pending shares: nothing waits without an end, an install   *)
(* acts on the share it was started for, and the limit is exceeded by one  *)
(* at most.                                                                *)
(***************************************************************************)
EXTENDS FormShareMgr, FiniteSetTheorems, WellFoundedInduction, TLAPS

--------------------------------------------------------------------------------
(* The inductive invariant.                                                *)

\* An id belongs to one timer.
IdsAreUnique ==
    /\ \A e, f \in eventMap : e.id = f.id => e = f
    /\ \A o, p \in operators : o.id = p.id => o = p
    /\ \A e \in eventMap, o \in operators : e.id # o.id

\* A share has one install, which begins when its package has been looked for.
Installs == operators \cup results
OneInstall ==
    /\ \A o, p \in Installs : o.share = p.share => o = p
    /\ pc[Worker].at \in {"arm", "check"} =>
          received # 0 /\ \A o \in Installs : o.share < received

\* Before a host takes a share of form k, its timer and its install are its own.
Untaken(k) ==
    /\ \A e, f \in EventsOf(k) : e = f
    /\ (k \notin Pending \/ pc[Worker] \in {At("arm", k), At("erase", k)}) => EventsOf(k) = {}
    /\ pc[Worker] \in {At("arm", k), At("check", k)} =>
          k \in Pending /\ shareInfo[k].share = received
    /\ pc[Worker] = At("check", k) => \A e \in EventsOf(k) : e.share = received
    /\ \A o \in Installs : o.key = k =>
          /\ shareInfo[k].share = o.share
          /\ \A e \in EventsOf(k) : e.share = o.share
          /\ pc[Worker] \notin {At("remove", k), At("erase", k)}

IInv ==
    /\ TypeOK /\ NothingUntimed /\ IdsAreUnique /\ OneInstall
    /\ \A k \in Keys \ taken : Untaken(k)

--------------------------------------------------------------------------------
(* Helpers.                                                                *)

LEMMA AtFacts ==
    ASSUME NEW w, NEW k, NEW v, NEW j
    PROVE  /\ At(w, k).at = w /\ At(w, k).key = k
           /\ At(w, k) = At(v, j) <=> w = v /\ k = j
           /\ IdleAt.at = "idle" /\ (w # "idle" => At(w, k) # IdleAt)
  <1>1. At(w, k).at = w /\ At(w, k).key = k /\ At(v, j).at = v /\ At(v, j).key = j
    BY DEF At
  <1>2. IdleAt.at = "idle"
    BY DEF IdleAt
  <1> QED BY <1>1, <1>2

\* One thread moves, the others stay.
LEMMA ThreadMoves ==
    ASSUME TypeOK, NEW t \in Threads, NEW to, Goes(t, to)
    PROVE  /\ pc'[t] = to
           /\ \A u \in Threads : u # t => pc'[u] = pc[u]
  BY DEF TypeOK, Goes

\* Where a thread is.
LEMMA ThreadAt ==
    ASSUME TypeOK, NEW t \in Threads
    PROVE  /\ pc[t] = IdleAt \/ (pc[t].key \in Keys /\ pc[t].at \in {"arm", "check", "remove", "erase"}
                                   /\ pc[t] = At(pc[t].at, pc[t].key))
           /\ t \in Hosts => pc[t].at \notin {"arm", "check"}
  <1>1. pc[t] \in Places
    BY DEF TypeOK
  <1>2. CASE pc[t] # IdleAt
    <2>1. PICK w \in {"arm", "check", "remove", "erase"}, k \in Keys : pc[t] = At(w, k)
      BY <1>1, <1>2 DEF Places
    <2> QED BY <2>1, AtFacts DEF TypeOK
  <1> QED BY <1>2, AtFacts DEF TypeOK

\* A non-empty set of natural numbers has a least element.
LEMMA LeastNat ==
    ASSUME NEW T \in SUBSET Nat, T # {}
    PROVE  \E m \in T : \A k \in T : m <= k
  <1>1. \E m \in T : \A k \in T : ~ (<<k, m>> \in OpToRel(<, Nat))
    BY NatLessThanWellFounded, WFMin
  <1>2. PICK m \in T : \A k \in T : ~ (<<k, m>> \in OpToRel(<, Nat))
    BY <1>1
  <1>3. ASSUME NEW k \in Nat, NEW l \in Nat, k < l
        PROVE  <<k, l>> \in OpToRel(<, Nat)
    BY <1>3, Zenon DEF OpToRel
  <1>4. \A k \in T : ~ (k < m)
    BY <1>2, <1>3
  <1>5. \A k \in T : m <= k
    BY <1>4
  <1> QED BY <1>5

\* The first of some timers is one of them.
LEMMA FirstIsOne ==
    ASSUME TypeOK, NEW mine \in SUBSET eventMap, mine # {}
    PROVE  First(mine) \in mine
  <1> DEFINE T == {e.id : e \in mine}
  <1>1. T \in SUBSET Nat /\ T # {}
    BY DEF TypeOK
  <1>2. PICK n \in T : \A i \in T : n <= i
    <2> HIDE DEF T
    <2> QED BY <1>1, LeastNat
  <1>3. PICK e \in mine : e.id = n
    BY <1>2
  <1>4. \A f \in mine : e.id <= f.id
    BY <1>2, <1>3
  <1> QED BY <1>4 DEF First

\* A type-correct move of a thread.
LEMMA MoveType ==
    ASSUME TypeOK, NEW t \in Threads, NEW to, Goes(t, to),
           \/ to = IdleAt
           \/ \E k \in Keys : to \in {At("remove", k), At("erase", k)}
           \/ t = Worker /\ \E k \in Keys : to \in {At("arm", k), At("check", k)}
    PROVE  /\ pc' \in [Threads -> Places]
           /\ \A h \in Hosts : pc'[h].at \notin {"arm", "check"}
  <1>1. to \in Places
    BY DEF Places
  <1>2. pc' \in [Threads -> Places]
    BY <1>1 DEF TypeOK, Goes
  <1>3. ASSUME NEW h \in Hosts PROVE pc'[h].at \notin {"arm", "check"}
    <2>1. h \in Threads /\ h # Worker
      BY FormShareMgrAssumption DEF Threads
    <2> QED BY <2>1, ThreadMoves, AtFacts DEF TypeOK
  <1> QED BY <1>2, <1>3

--------------------------------------------------------------------------------
(* Initially, and by every action.                                         *)

LEMMA InitIInv == Init => IInv
  <1> SUFFICES ASSUME Init PROVE IInv
    OBVIOUS
  <1>1. TypeOK
    BY AtFacts, FormShareMgrAssumption DEF Init, TypeOK, Threads, Places, Shares
  <1>2. Pending = {} /\ eventMap \cup operators = {} /\ Installs = {}
    BY DEF Init, Pending, Installs
  <1>3. \A k : EventsOf(k) = {}
    BY DEF Init, EventsOf
  <1>4. pc[Worker].at = "idle"
    BY AtFacts DEF Init, Threads
  <1>5. \A k : pc[Worker] \notin {At("arm", k), At("check", k), At("remove", k), At("erase", k)}
    BY <1>4, AtFacts
  <1> QED BY <1>1, <1>2, <1>3, <1>4, <1>5, Zenon
          DEF IInv, NothingUntimed, IdsAreUnique, OneInstall, Untaken, Init

LEMMA EnterShareKeeps ==
    ASSUME IInv, NEW k \in Keys, EnterShare(k)
    PROVE  IInv'
  <1>1. TypeOK /\ Worker \in Threads /\ pc[Worker] = IdleAt /\ shareInfo[k] = NoShare
    BY DEF IInv, Threads, EnterShare, WorkerIdle
  <1>2. /\ pc'[Worker] = At("arm", k)
        /\ \A t \in Threads : t # Worker => pc'[t] = pc[t]
    BY <1>1, ThreadMoves DEF EnterShare
  <1>3. received' = received + 1 /\ received \in Nat /\ received < MaxShares
    BY <1>1 DEF EnterShare, TypeOK
  <1>4. /\ shareInfo'[k].share = received' /\ shareInfo'[k] # NoShare
        /\ \A j \in Keys : j # k => shareInfo'[j] = shareInfo[j]
    BY <1>1, <1>3 DEF EnterShare, TypeOK, NoShare
  <1>5. TypeOK'
    <2>1. /\ pc' \in [Threads -> Places]
          /\ \A h \in Hosts : pc'[h].at \notin {"arm", "check"}
      BY <1>1, MoveType DEF EnterShare
    <2>2. shareInfo' \in [Keys -> Shares']
      BY <1>1, <1>3 DEF EnterShare, TypeOK, Shares
    <2>3. /\ received' \in 0 .. MaxShares /\ eventId' \in 0 .. MaxEventId
          /\ eventMap' \subseteq [id: 1 .. eventId', key: Keys, share: 1 .. received']
          /\ armed' \subseteq 1 .. eventId'
          /\ taken' \subseteq Keys
      BY <1>1, <1>3, FormShareMgrAssumption DEF EnterShare, TypeOK
    <2>4. Operators \subseteq Operators'
      BY <1>1, <1>3 DEF EnterShare, Operators
    <2>5. operators' \subseteq Operators' /\ installing' \subseteq Operators' /\ results' \subseteq Operators'
      BY <1>1, <2>4 DEF EnterShare, TypeOK
    <2> QED BY <2>1, <2>2, <2>3, <2>5, Zenon DEF TypeOK
  <1>6. Pending' = Pending \cup {k}
    BY <1>4 DEF Pending
  <1>7. NothingUntimed'
    <2>1. \A j \in Keys : EventsOf(j)' = EventsOf(j)
      BY DEF EnterShare, EventsOf
    <2>2. \A j \in Pending : BeingEnded(j) => BeingEnded(j)'
      BY <1>1, <1>2, AtFacts DEF BeingEnded
    <2>3. BeingEnded(k)'
      BY <1>2 DEF BeingEnded
    <2> QED BY <1>6, <2>1, <2>2, <2>3 DEF IInv, NothingUntimed, EnterShare, Pending
  <1>8. IdsAreUnique'
    BY DEF IInv, IdsAreUnique, EnterShare
  <1>9. OneInstall'
    BY <1>1, <1>3 DEF IInv, OneInstall, Installs, EnterShare, TypeOK, Operators
  <1>10. ASSUME NEW j \in Keys \ taken' PROVE Untaken(j)'
    <2>1. Untaken(j) /\ EventsOf(j)' = EventsOf(j) /\ Installs' = Installs
      BY <1>10 DEF IInv, EnterShare, EventsOf, Installs
    <2>2. CASE j # k
      BY <2>1, <2>2, <1>1, <1>2, <1>4, AtFacts DEF Untaken, Pending
    <2>3. CASE j = k
      <3>1. EventsOf(j) = {} /\ \A o \in Installs : o.key # j
        BY <2>1, <2>3, <1>1 DEF Untaken, Pending, Installs, TypeOK, Operators, NoShare
      <3> QED BY <2>1, <2>3, <3>1, <1>2, <1>4, AtFacts DEF Untaken, Pending
    <2> QED BY <2>2, <2>3
  <1> QED BY <1>5, <1>7, <1>8, <1>9, <1>10 DEF IInv

LEMMA ArmShareKeeps ==
    ASSUME IInv, ArmShare
    PROVE  IInv'
  <1> DEFINE k == pc[Worker].key
             e == [id |-> eventId + 1, key |-> k, share |-> received]
  <1>1. TypeOK /\ Worker \in Threads /\ pc[Worker].at = "arm"
    BY DEF IInv, Threads, ArmShare
  <1>2. k \in Keys /\ pc[Worker] = At("arm", k) /\ Worker \notin Hosts
    BY <1>1, ThreadAt, AtFacts, FormShareMgrAssumption
  <1>3. [pc[Worker] EXCEPT !.at = "check"] = At("check", k)
    BY <1>2 DEF At
  <1>4. /\ pc'[Worker] = At("check", k)
        /\ \A t \in Threads : t # Worker => pc'[t] = pc[t]
    BY <1>1, <1>3, ThreadMoves DEF ArmShare
  <1>5. /\ eventId' = eventId + 1 /\ eventId \in Nat /\ eventId < MaxEventId
        /\ eventMap' = eventMap \cup {e} /\ armed' = armed \cup {e.id}
        /\ \A w \in eventMap \cup operators : w.id <= eventId
    BY <1>1 DEF ArmShare, GetEventId, TypeOK, Operators
  <1>6. TypeOK'
    <2>1. /\ pc' \in [Threads -> Places]
          /\ \A h \in Hosts : pc'[h].at \notin {"arm", "check"}
      BY <1>1, <1>2, <1>3, MoveType DEF ArmShare
    <2>2. received \in 1 .. MaxShares
      BY <1>1 DEF IInv, OneInstall, TypeOK
    <2>3. e \in [id: 1 .. eventId', key: Keys, share: 1 .. received]
      BY <1>2, <1>5, <2>2
    <2> HIDE DEF e, k
    <2>4. /\ received' \in 0 .. MaxShares /\ eventId' \in 0 .. MaxEventId
          /\ eventMap' \subseteq [id: 1 .. eventId', key: Keys, share: 1 .. received']
          /\ armed' \subseteq 1 .. eventId'
          /\ taken' \subseteq Keys
      <3>1. received' = received /\ taken' = taken /\ e.id = eventId + 1
        BY DEF ArmShare, e
      <3>2. [id: 1 .. eventId, key: Keys, share: 1 .. received]
               \subseteq [id: 1 .. eventId', key: Keys, share: 1 .. received']
        BY <1>5, <3>1
      <3> QED BY <1>1, <1>5, <2>2, <2>3, <3>1, <3>2, FormShareMgrAssumption DEF TypeOK
    <2>5. Operators \subseteq Operators' /\ Shares' = Shares
      BY <1>1, <1>5 DEF ArmShare, Operators, Shares
    <2>6. /\ operators' \subseteq Operators' /\ installing' \subseteq Operators'
          /\ results' \subseteq Operators' /\ shareInfo' \in [Keys -> Shares']
      BY <1>1, <2>5 DEF ArmShare, TypeOK
    <2> QED BY <2>1, <2>4, <2>6, Zenon DEF TypeOK
  <1>7. \A j : EventsOf(j)' = IF j = k THEN EventsOf(j) \cup {e} ELSE EventsOf(j)
    BY <1>5 DEF EventsOf
  <1> HIDE DEF k, e
  <1>8. e.id = eventId + 1 /\ e.share = received
    BY DEF e
  <1>9. NothingUntimed'
    <2>1. \A j \in Pending : j # k /\ BeingEnded(j) => BeingEnded(j)'
      BY <1>1, <1>2, <1>4, AtFacts DEF BeingEnded
    <2> QED BY <1>5, <1>7, <2>1 DEF IInv, NothingUntimed, ArmShare, Pending
  <1>10. IdsAreUnique'
    BY <1>1, <1>5, <1>8 DEF IInv, IdsAreUnique, ArmShare, TypeOK
  <1>11. OneInstall'
    BY <1>1, <1>4, AtFacts DEF IInv, OneInstall, Installs, ArmShare
  <1>12. ASSUME NEW j \in Keys \ taken' PROVE Untaken(j)'
    <2>1. Untaken(j) /\ Installs' = Installs /\ shareInfo' = shareInfo
      BY <1>12 DEF IInv, ArmShare, Installs
    <2>2. CASE j # k
      BY <2>1, <2>2, <1>2, <1>4, <1>7, AtFacts DEF Untaken, Pending
    <2>3. CASE j = k
      <3>1. EventsOf(j)' = {e} /\ shareInfo[j].share = received /\ j \in Pending'
        BY <2>1, <2>3, <1>2, <1>7 DEF Untaken, Pending
      <3>2. \A o \in Installs : o.key # j
        <4>1. \A o \in Installs : o.share \in Nat /\ o.share < received
          BY <1>1 DEF IInv, OneInstall, TypeOK, Operators, Installs
        <4>2. received \in Nat
          BY <1>1 DEF TypeOK
        <4> QED BY <2>1, <2>3, <3>1, <4>1, <4>2 DEF Untaken
      <3> QED BY <2>1, <2>3, <3>1, <3>2, <1>4, <1>5, <1>8, AtFacts DEF Untaken, ArmShare
    <2> QED BY <2>2, <2>3
  <1> QED BY <1>6, <1>9, <1>10, <1>11, <1>12 DEF IInv

\* The install of an untaken share begins after the package was looked for.
LEMMA NoInstallYet ==
    ASSUME IInv, NEW k \in Keys \ taken, pc[Worker] \in {At("arm", k), At("check", k)}
    PROVE  \A o \in Installs : o.key # k
  <1>1. \A o \in Installs : o.share \in Nat /\ o.share < received
    BY AtFacts DEF IInv, OneInstall, TypeOK, Operators, Installs
  <1>2. received \in Nat
    BY DEF IInv, TypeOK
  <1> QED BY <1>1, <1>2 DEF IInv, Untaken

LEMMA PackageExistsKeeps ==
    ASSUME IInv, PackageExists
    PROVE  IInv'
  <1> DEFINE k == pc[Worker].key
  <1>1. TypeOK /\ Worker \in Threads /\ pc[Worker].at = "check"
    BY DEF IInv, Threads, PackageExists
  <1>2. k \in Keys /\ pc[Worker] = At("check", k)
    BY <1>1, ThreadAt, AtFacts
  <1>3. PICK to \in {IdleAt, At("remove", k)} : Goes(Worker, to)
    BY DEF PackageExists, StartFormUser
  <1> HIDE DEF k
  <1>4. /\ pc'[Worker] = to
        /\ \A t \in Threads : t # Worker => pc'[t] = pc[t]
    BY <1>1, <1>3, ThreadMoves
  <1>5. TypeOK'
    <2>1. pc' \in [Threads -> Places] /\ \A h \in Hosts : pc'[h].at \notin {"arm", "check"}
      BY <1>1, <1>2, <1>3, MoveType
    <2> QED BY <1>1, <2>1 DEF PackageExists, TypeOK, Shares, Operators
  <1>6. \A j : EventsOf(j)' = EventsOf(j)
    BY DEF PackageExists, EventsOf
  <1>7. NothingUntimed'
    <2>1. \A j \in Pending : BeingEnded(j) => BeingEnded(j)'
      BY <1>1, <1>2, <1>4, AtFacts DEF BeingEnded
    <2> QED BY <1>6, <2>1 DEF IInv, NothingUntimed, PackageExists, Pending
  <1>8. IdsAreUnique' /\ OneInstall'
    BY <1>1, <1>4, AtFacts DEF IInv, IdsAreUnique, OneInstall, Installs, PackageExists
  <1>9. ASSUME NEW j \in Keys \ taken' PROVE Untaken(j)'
    <2>1. Untaken(j) /\ Installs' = Installs /\ Pending' = Pending /\ shareInfo' = shareInfo
      BY <1>9 DEF IInv, PackageExists, Installs, Pending
    <2>2. j = k => \A o \in Installs : o.key # j
      BY <1>2, <1>9, NoInstallYet DEF PackageExists
    <2> QED BY <2>1, <2>2, <1>2, <1>4, <1>6, AtFacts DEF Untaken
  <1> QED BY <1>5, <1>7, <1>8, <1>9 DEF IInv

LEMMA StartFreeInstallKeeps ==
    ASSUME IInv, StartFreeInstall
    PROVE  IInv'
  <1> DEFINE k == pc[Worker].key
             op == [id |-> eventId + 1, key |-> k, share |-> received]
  <1>1. TypeOK /\ Worker \in Threads /\ pc[Worker].at = "check"
    BY DEF IInv, Threads, StartFreeInstall
  <1>2. k \in Keys /\ pc[Worker] = At("check", k)
    BY <1>1, ThreadAt, AtFacts
  <1>3. /\ pc'[Worker] = IdleAt
        /\ \A t \in Threads : t # Worker => pc'[t] = pc[t]
    BY <1>1, ThreadMoves DEF StartFreeInstall
  <1>4. /\ eventId' = eventId + 1 /\ eventId \in Nat /\ eventId < MaxEventId
        /\ operators' = operators \cup {op} /\ installing' = installing \cup {op}
        /\ armed' = armed \cup {op.id} /\ results' = results
        /\ \A w \in eventMap \cup operators : w.id \in Nat /\ w.id <= eventId
    BY <1>1 DEF StartFreeInstall, GetEventId, TypeOK, Operators
  <1>5. op.id = eventId + 1 /\ op.key = k /\ op.share = received
    OBVIOUS
  <1>6. received \in Nat \ {0}
    BY <1>1 DEF IInv, OneInstall, TypeOK
  <1>7. TypeOK'
    <2>1. pc' \in [Threads -> Places] /\ \A h \in Hosts : pc'[h].at \notin {"arm", "check"}
      BY <1>1, MoveType DEF StartFreeInstall
    <2>2. Operators \subseteq Operators' /\ op \in Operators' /\ Shares' = Shares
      BY <1>1, <1>2, <1>4, <1>6 DEF StartFreeInstall, Operators, Shares, TypeOK
    <2> HIDE DEF op
    <2>3. /\ operators' \subseteq Operators' /\ installing' \subseteq Operators'
          /\ results' \subseteq Operators' /\ shareInfo' \in [Keys -> Shares']
      BY <1>1, <1>4, <2>2 DEF StartFreeInstall, TypeOK
    <2>4. /\ received' \in 0 .. MaxShares /\ eventId' \in 0 .. MaxEventId
          /\ eventMap' \subseteq [id: 1 .. eventId', key: Keys, share: 1 .. received']
          /\ armed' \subseteq 1 .. eventId'
          /\ taken' \subseteq Keys
      BY <1>1, <1>4, <1>5, FormShareMgrAssumption DEF StartFreeInstall, TypeOK
    <2> QED BY <2>1, <2>3, <2>4, Zenon DEF TypeOK
  <1> HIDE DEF k, op
  <1>8. \A j : EventsOf(j)' = EventsOf(j)
    BY DEF StartFreeInstall, EventsOf
  <1>9. NothingUntimed'
    <2>1. \A j \in Pending : BeingEnded(j) => BeingEnded(j)'
      BY <1>1, <1>2, <1>3, AtFacts DEF BeingEnded
    <2> QED BY <1>4, <1>8, <2>1 DEF IInv, NothingUntimed, StartFreeInstall, Pending
  <1>10. IdsAreUnique'
    BY <1>1, <1>4, <1>5 DEF IInv, IdsAreUnique, StartFreeInstall
  <1>11. Installs' = Installs \cup {op}
    BY <1>4 DEF Installs
  <1>12. \A o \in Installs : o.share \in Nat /\ o.share < received
    BY <1>1 DEF IInv, OneInstall, TypeOK, Operators, Installs
  <1>13. OneInstall'
    BY <1>3, <1>5, <1>6, <1>11, <1>12, AtFacts DEF IInv, OneInstall
  <1>14. ASSUME NEW j \in Keys \ taken' PROVE Untaken(j)'
    <2>1. Untaken(j) /\ Pending' = Pending /\ shareInfo' = shareInfo
      BY <1>14 DEF IInv, StartFreeInstall, Pending
    <2>2. CASE j # k
      BY <2>1, <2>2, <1>3, <1>5, <1>8, <1>11, AtFacts DEF Untaken
    <2>3. CASE j = k
      <3>1. \A o \in Installs : o.key # j
        BY <2>3, <1>2, <1>14, NoInstallYet DEF StartFreeInstall
      <3>2. /\ shareInfo[j].share = received /\ j \in Pending
            /\ \A e \in EventsOf(j) : e.share = received
        BY <2>1, <2>3, <1>2 DEF Untaken
      <3> QED BY <2>1, <2>3, <3>1, <3>2, <1>3, <1>5, <1>8, <1>11, AtFacts DEF Untaken
    <2> QED BY <2>2, <2>3
  <1> QED BY <1>7, <1>9, <1>10, <1>13, <1>14 DEF IInv

LEMMA InstallerCallsBackKeeps ==
    ASSUME IInv, NEW op \in installing, InstallerCallsBack(op)
    PROVE  IInv'
  <1>1. results' \subseteq Operators /\ installing' \subseteq Operators /\ Installs' = Installs
    BY DEF IInv, TypeOK, InstallerCallsBack, Installs
  <1>2. TypeOK'
    BY <1>1 DEF IInv, TypeOK, InstallerCallsBack, Shares, Operators
  <1>3. \A j : EventsOf(j)' = EventsOf(j) /\ BeingEnded(j)' = BeingEnded(j)
    BY DEF InstallerCallsBack, EventsOf, BeingEnded
  <1>4. /\ Pending' = Pending /\ shareInfo' = shareInfo /\ pc' = pc /\ received' = received
        /\ eventId' = eventId /\ taken' = taken /\ eventMap' = eventMap /\ operators' = operators
        /\ armed' = armed
    BY DEF InstallerCallsBack, Pending
  <1>5. NothingUntimed' /\ IdsAreUnique' /\ OneInstall'
    BY <1>1, <1>3, <1>4 DEF IInv, NothingUntimed, IdsAreUnique, OneInstall
  <1>6. ASSUME NEW j \in Keys \ taken' PROVE Untaken(j)'
    BY <1>1, <1>3, <1>4, <1>6 DEF IInv, Untaken
  <1> QED BY <1>2, <1>5, <1>6 DEF IInv

LEMMA OnInstallFinishedKeeps ==
    ASSUME IInv, NEW op \in results, NEW ok \in BOOLEAN, OnInstallFinished(op, ok)
    PROVE  IInv'
  <1> DEFINE k == op.key
  <1>1. TypeOK /\ Worker \in Threads /\ pc[Worker] = IdleAt
    BY DEF IInv, Threads, OnInstallFinished, WorkerIdle
  <1>2. k \in Keys /\ op \in Installs
    BY <1>1 DEF TypeOK, Operators, Installs
  <1> HIDE DEF k
  <1>3. PICK to \in {IdleAt, At("remove", k)} : Goes(Worker, to) \/ (to = IdleAt /\ pc' = pc)
    <2>1. Goes(Worker, IdleAt) \/ Goes(Worker, At("remove", k)) \/ pc' = pc
      BY Zenon DEF OnInstallFinished, StartFormUser, k
    <2> QED BY <2>1 DEF Goes
  <1>4. /\ pc'[Worker] = to
        /\ \A t \in Threads : t # Worker => pc'[t] = pc[t]
    BY <1>1, <1>3, ThreadMoves
  <1>5. pc' \in [Threads -> Places] /\ \A h \in Hosts : pc'[h].at \notin {"arm", "check"}
    <2>1. CASE Goes(Worker, to)
      BY <2>1, <1>1, <1>2, <1>3, MoveType
    <2>2. CASE pc' = pc
      BY <2>2, <1>1 DEF TypeOK
    <2> QED BY <2>1, <2>2, <1>3
  <1>6. /\ shareInfo' \in [Keys -> Shares]
        /\ \A j \in Keys : shareInfo'[j].share = shareInfo[j].share
        /\ Pending' = Pending
    <2>1. CASE shareInfo' = shareInfo
      BY <2>1, <1>1 DEF TypeOK, Pending
    <2>2. CASE k \in Pending /\ shareInfo' = [shareInfo EXCEPT ![k].isFreeInstall = TRUE]
      <3>1. shareInfo[k] \in [share: 1 .. received, isFreeInstall: BOOLEAN]
        BY <2>2, <1>1 DEF TypeOK, Pending, Shares
      <3>2. /\ shareInfo'[k] = [shareInfo[k] EXCEPT !.isFreeInstall = TRUE]
            /\ \A j \in Keys : j # k => shareInfo'[j] = shareInfo[j]
        BY <2>2, <1>1, <1>2 DEF TypeOK
      <3>3. PICK n \in 1 .. received, b \in BOOLEAN :
                shareInfo[k] = [share |-> n, isFreeInstall |-> b]
        BY <3>1
      <3>4. shareInfo'[k] = [share |-> n, isFreeInstall |-> TRUE]
        <4>1. \A c : [[share |-> n, isFreeInstall |-> b] EXCEPT !.isFreeInstall = c]
                  = [share |-> n, isFreeInstall |-> c]
          OBVIOUS
        <4> QED BY <4>1, <3>2, <3>3, Zenon
      <3>5. n # 0
        BY <1>1 DEF TypeOK
      <3>6. /\ shareInfo'[k] \in Shares /\ shareInfo'[k] # NoShare
            /\ shareInfo'[k].share = shareInfo[k].share
        BY <3>3, <3>4, <3>5 DEF Shares, NoShare
      <3> QED BY <2>2, <3>2, <3>6, <1>1, <1>2 DEF TypeOK, Pending
    <2> QED BY <2>1, <2>2 DEF OnInstallFinished, k
  <1>7. /\ operators' = operators \ {op} /\ results' = results \ {op}
        /\ Installs' = Installs \ {op}
        /\ armed' \subseteq armed /\ (op \notin operators => armed' = armed)
        /\ (op \in operators => armed' = armed \ {op.id})
        /\ eventMap' = eventMap /\ taken' = taken /\ received' = received /\ eventId' = eventId
        /\ installing' = installing
    BY DEF OnInstallFinished, Installs
  <1>8. TypeOK'
    <2>1. Shares' = Shares /\ Operators' = Operators
      BY <1>7 DEF Shares, Operators
    <2> QED BY <2>1, <1>1, <1>5, <1>6, <1>7 DEF TypeOK
  <1>9. \A j : EventsOf(j)' = EventsOf(j)
    BY <1>7 DEF EventsOf
  <1>10. NothingUntimed'
    <2>1. \A j \in Pending : BeingEnded(j) => BeingEnded(j)'
      BY <1>1, <1>4, AtFacts DEF BeingEnded
    <2>2. \A w \in eventMap' \cup operators' : w.id \in armed'
      BY <1>7 DEF IInv, NothingUntimed, IdsAreUnique
    <2> QED BY <1>6, <1>9, <2>1, <2>2 DEF IInv, NothingUntimed
  <1>11. IdsAreUnique' /\ OneInstall'
    BY <1>4, <1>7, AtFacts DEF IInv, IdsAreUnique, OneInstall
  <1>12. ASSUME NEW j \in Keys \ taken' PROVE Untaken(j)'
    <2>1. Untaken(j)
      BY <1>7, <1>12 DEF IInv
    <2>2. j = k => \A o \in Installs' : o.key # j
      BY <2>1, <1>2, <1>7 DEF Untaken, IInv, OneInstall, k
    <2> QED BY <2>1, <2>2, <1>4, <1>6, <1>7, <1>9, AtFacts DEF Untaken
  <1> QED BY <1>8, <1>10, <1>11, <1>12 DEF IInv

LEMMA HandleFormShareInfoTimeoutKeeps ==
    ASSUME IInv, NEW e \in eventMap, HandleFormShareInfoTimeout(e)
    PROVE  IInv'
  <1> DEFINE k == e.key
  <1>1. TypeOK /\ Worker \in Threads /\ pc[Worker] = IdleAt
    BY DEF IInv, Threads, HandleFormShareInfoTimeout, WorkerIdle
  <1>2. k \in Keys
    BY <1>1 DEF TypeOK
  <1>3. /\ pc'[Worker] = At("remove", k)
        /\ \A t \in Threads : t # Worker => pc'[t] = pc[t]
    BY <1>1, ThreadMoves DEF HandleFormShareInfoTimeout
  <1>4. /\ eventMap' = eventMap \ {e} /\ armed' = armed \ {e.id}
        /\ shareInfo' = shareInfo /\ received' = received /\ operators' = operators
        /\ eventId' = eventId /\ installing' = installing /\ results' = results /\ taken' = taken
        /\ Pending' = Pending /\ Installs' = Installs
    BY DEF HandleFormShareInfoTimeout, Pending, Installs
  <1>5. \A j : /\ EventsOf(j)' \subseteq EventsOf(j)
               /\ j # k => EventsOf(j)' = EventsOf(j)
    BY <1>4 DEF EventsOf
  \* The install of the share was over when the timer came.
  <1>6. k \notin taken => \A o \in Installs : o.key # k
    <2>1. ASSUME k \notin taken, NEW o \in Installs, o.key = k PROVE FALSE
      <3>1. e.share = o.share
        BY <2>1, <1>2 DEF IInv, Untaken, EventsOf
      <3>2. InstallOver(e) /\ e.share = o.share
        BY <3>1 DEF HandleFormShareInfoTimeout
      <3>3. CASE o \in operators
        BY <3>2, <3>3 DEF IInv, NothingUntimed, InstallOver
      <3>4. CASE o \in results
        BY <3>2, <3>4 DEF InstallOver
      <3> QED BY <2>1, <3>3, <3>4 DEF Installs
    <2> QED BY <2>1
  <1>7. TypeOK'
    <2>1. pc' \in [Threads -> Places] /\ \A h \in Hosts : pc'[h].at \notin {"arm", "check"}
      BY <1>1, <1>2, MoveType DEF HandleFormShareInfoTimeout
    <2>2. Shares' = Shares /\ Operators' = Operators
      BY <1>4 DEF Shares, Operators
    <2> HIDE DEF k
    <2> QED BY <2>1, <2>2, <1>1, <1>4 DEF TypeOK
  <1> HIDE DEF k
  <1>8. NothingUntimed'
    <2>1. \A j \in Pending : j # k /\ BeingEnded(j) => BeingEnded(j)'
      BY <1>1, <1>3, AtFacts DEF BeingEnded
    <2>2. BeingEnded(k)'
      BY <1>3 DEF BeingEnded
    <2>3. \A w \in eventMap' \cup operators' : w.id \in armed'
      BY <1>4 DEF IInv, NothingUntimed, IdsAreUnique
    <2> QED BY <1>4, <1>5, <2>1, <2>2, <2>3 DEF IInv, NothingUntimed
  <1>9. IdsAreUnique' /\ OneInstall'
    BY <1>3, <1>4, AtFacts DEF IInv, IdsAreUnique, OneInstall
  <1>10. ASSUME NEW j \in Keys \ taken' PROVE Untaken(j)'
    <2>1. Untaken(j)
      BY <1>4, <1>10 DEF IInv
    <2>2. j = k => \A o \in Installs : o.key # j
      BY <1>4, <1>6, <1>10
    <2> QED BY <2>1, <2>2, <1>1, <1>3, <1>4, <1>5, AtFacts DEF Untaken
  <1> QED BY <1>7, <1>8, <1>9, <1>10 DEF IInv

LEMMA HandleFreeInstallTimeoutKeeps ==
    ASSUME IInv, NEW op \in operators, HandleFreeInstallTimeout(op)
    PROVE  IInv'
  <1>1. /\ operators' = operators \ {op} /\ armed' = armed \ {op.id}
        /\ shareInfo' = shareInfo /\ received' = received /\ eventMap' = eventMap /\ pc' = pc
        /\ eventId' = eventId /\ installing' = installing /\ results' = results /\ taken' = taken
        /\ Pending' = Pending /\ Installs' \subseteq Installs
    BY DEF HandleFreeInstallTimeout, Pending, Installs
  <1>2. \A j : EventsOf(j)' = EventsOf(j) /\ BeingEnded(j)' = BeingEnded(j)
    BY <1>1 DEF EventsOf, BeingEnded
  <1>3. TypeOK'
    <2>1. Shares' = Shares /\ Operators' = Operators
      BY <1>1 DEF Shares, Operators
    <2> QED BY <2>1, <1>1 DEF IInv, TypeOK
  <1>4. NothingUntimed' /\ IdsAreUnique'
    BY <1>1, <1>2 DEF IInv, NothingUntimed, IdsAreUnique
  <1>5. OneInstall'
    BY <1>1 DEF IInv, OneInstall
  <1>6. ASSUME NEW j \in Keys \ taken' PROVE Untaken(j)'
    BY <1>1, <1>2, <1>6 DEF IInv, Untaken
  <1> QED BY <1>3, <1>4, <1>5, <1>6 DEF IInv

LEMMA AddProviderDataKeeps ==
    ASSUME IInv, NEW h \in Hosts, NEW k \in Keys, AddProviderData(h, k)
    PROVE  IInv'
  <1>1. TypeOK /\ h \in Threads /\ Worker \in Threads /\ Worker # h /\ pc[h] = IdleAt
    BY FormShareMgrAssumption DEF IInv, Threads, AddProviderData
  <1>2. /\ pc'[Worker] = pc[Worker]
        /\ \A t \in Threads : t # h => pc'[t] = pc[t]
    BY <1>1, ThreadMoves DEF AddProviderData
  <1>3. /\ operators' = operators /\ armed' = armed
        /\ shareInfo' = shareInfo /\ received' = received /\ eventMap' = eventMap
        /\ eventId' = eventId /\ installing' = installing /\ results' = results /\ taken' = taken
        /\ Pending' = Pending /\ Installs' = Installs
    BY DEF AddProviderData, Pending, Installs
  <1>4. \A j : EventsOf(j)' = EventsOf(j)
    BY <1>3 DEF EventsOf
  <1>5. TypeOK'
    <2>1. pc' \in [Threads -> Places] /\ \A u \in Hosts : pc'[u].at \notin {"arm", "check"}
      BY <1>1, MoveType DEF AddProviderData
    <2>2. Shares' = Shares /\ Operators' = Operators
      BY <1>3 DEF Shares, Operators
    <2> QED BY <2>1, <2>2, <1>1, <1>3 DEF TypeOK
  <1>6. NothingUntimed'
    <2>1. \A j \in Pending : BeingEnded(j) => BeingEnded(j)'
      BY <1>1, <1>2, AtFacts DEF BeingEnded
    <2> QED BY <1>3, <1>4, <2>1 DEF IInv, NothingUntimed
  <1>7. IdsAreUnique' /\ OneInstall'
    BY <1>2, <1>3 DEF IInv, IdsAreUnique, OneInstall
  <1>8. ASSUME NEW j \in Keys \ taken' PROVE Untaken(j)'
    BY <1>2, <1>3, <1>4, <1>8 DEF IInv, Untaken
  <1> QED BY <1>5, <1>6, <1>7, <1>8 DEF IInv

LEMMA RemoveEventKeeps ==
    ASSUME IInv, NEW t \in Threads, RemoveEvent(t)
    PROVE  IInv'
  <1>1. TypeOK /\ Worker \in Threads /\ pc[t].at = "remove"
    BY DEF IInv, Threads, RemoveEvent
  <1>2. PICK k \in Keys : k = pc[t].key /\ pc[t] = At("remove", k)
    BY <1>1, ThreadAt, AtFacts
  <1> DEFINE mine == EventsOf(k)
  <1>3. /\ pc'[t] = At("erase", k)
        /\ \A u \in Threads : u # t => pc'[u] = pc[u]
    BY <1>1, <1>2, ThreadMoves DEF RemoveEvent
  <1>4. \/ mine = {} /\ eventMap' = eventMap /\ armed' = armed
        \/ \E e \in mine : eventMap' = eventMap \ {e} /\ armed' = armed \ {e.id}
    <2>1. mine \in SUBSET eventMap
      BY DEF EventsOf
    <2>2. mine # {} => First(mine) \in mine
      BY <1>1, <2>1, FirstIsOne
    <2> QED BY <2>2, <1>2 DEF RemoveEvent
  <1>5. /\ shareInfo' = shareInfo /\ received' = received /\ operators' = operators
        /\ eventId' = eventId /\ installing' = installing /\ results' = results /\ taken' = taken
        /\ Pending' = Pending /\ Installs' = Installs
    BY DEF RemoveEvent, Pending, Installs
  <1>6. \A j : /\ EventsOf(j)' \subseteq EventsOf(j)
               /\ j # k => EventsOf(j)' = EventsOf(j)
    BY <1>4 DEF EventsOf
  <1>7. (\A e, f \in mine : e = f) => EventsOf(k)' = {}
    BY <1>4 DEF EventsOf
  <1>8. TypeOK'
    <2>1. pc' \in [Threads -> Places] /\ \A h \in Hosts : pc'[h].at \notin {"arm", "check"}
      BY <1>1, <1>2, MoveType DEF RemoveEvent
    <2>2. Shares' = Shares /\ Operators' = Operators
      BY <1>5 DEF Shares, Operators
    <2>3. eventMap' \subseteq eventMap /\ armed' \subseteq armed
      BY <1>4
    <2> HIDE DEF mine
    <2> QED BY <2>1, <2>2, <2>3, <1>1, <1>5 DEF TypeOK
  <1>9. mine \subseteq eventMap
    BY DEF EventsOf
  <1>10. mine = EventsOf(k)
    OBVIOUS
  <1> HIDE DEF mine
  <1>11. NothingUntimed'
    <2>1. \A j \in Pending : j # k /\ BeingEnded(j) => BeingEnded(j)'
      BY <1>1, <1>2, <1>3, AtFacts DEF BeingEnded
    <2>2. BeingEnded(k)'
      BY <1>3 DEF BeingEnded
    <2>3. \A w \in eventMap' \cup operators' : w.id \in armed'
      BY <1>4, <1>5, <1>9 DEF IInv, NothingUntimed, IdsAreUnique
    <2> QED BY <1>5, <1>6, <2>1, <2>2, <2>3 DEF IInv, NothingUntimed
  <1>12. IdsAreUnique'
    BY <1>4, <1>5 DEF IInv, IdsAreUnique
  <1>13. OneInstall'
    BY <1>1, <1>2, <1>3, <1>5, AtFacts DEF IInv, OneInstall
  <1>14. ASSUME NEW j \in Keys \ taken' PROVE Untaken(j)'
    <2>1. Untaken(j)
      BY <1>5, <1>14 DEF IInv
    <2>2. CASE t # Worker
      <3>1. pc'[Worker] = pc[Worker]
        BY <2>2, <1>1, <1>3
      <3> QED BY <2>1, <3>1, <1>5, <1>6 DEF Untaken
    <2>3. CASE t = Worker /\ j # k
      BY <2>1, <2>3, <1>3, <1>5, <1>6, AtFacts DEF Untaken
    <2>4. CASE t = Worker /\ j = k
      <3>1. \A o \in Installs : o.key # j
        BY <2>1, <2>4, <1>2 DEF Untaken
      <3>2. EventsOf(j)' = {}
        BY <2>1, <2>4, <1>7, <1>10 DEF Untaken
      <3> QED BY <2>4, <3>1, <3>2, <1>3, <1>5, AtFacts DEF Untaken
    <2> QED BY <2>2, <2>3, <2>4
  <1> QED BY <1>8, <1>11, <1>12, <1>13, <1>14 DEF IInv

LEMMA EraseShareKeeps ==
    ASSUME IInv, NEW t \in Threads, EraseShare(t)
    PROVE  IInv'
  <1> DEFINE k == pc[t].key
  <1>1. TypeOK /\ Worker \in Threads /\ pc[t].at = "erase"
    BY DEF IInv, Threads, EraseShare
  <1>2. k \in Keys /\ pc[t] = At("erase", k)
    BY <1>1, ThreadAt, AtFacts
  <1>3. /\ pc'[t] = IdleAt
        /\ \A u \in Threads : u # t => pc'[u] = pc[u]
    BY <1>1, ThreadMoves DEF EraseShare
  <1>4. /\ shareInfo'[k] = NoShare
        /\ \A j \in Keys : j # k => shareInfo'[j] = shareInfo[j]
        /\ shareInfo' \in [Keys -> Shares]
    BY <1>1, <1>2 DEF EraseShare, TypeOK, Shares
  <1>5. /\ eventMap' = eventMap /\ armed' = armed /\ received' = received
        /\ operators' = operators /\ eventId' = eventId /\ installing' = installing
        /\ results' = results /\ Installs' = Installs
        /\ taken \subseteq taken' /\ taken' \subseteq taken \cup {k}
        /\ t # Worker => k \in taken'
    BY DEF EraseShare, Installs, Threads
  <1> HIDE DEF k
  <1>6. Pending' = Pending \ {k}
    BY <1>2, <1>4 DEF Pending
  <1>7. \A j : EventsOf(j)' = EventsOf(j)
    BY <1>5 DEF EventsOf
  <1>8. TypeOK'
    <2>1. pc' \in [Threads -> Places] /\ \A h \in Hosts : pc'[h].at \notin {"arm", "check"}
      BY <1>1, MoveType DEF EraseShare
    <2>2. Shares' = Shares /\ Operators' = Operators
      BY <1>5 DEF Shares, Operators
    <2>3. taken' \subseteq Keys
      BY <1>1, <1>2, <1>5 DEF TypeOK
    <2> QED BY <2>1, <2>2, <2>3, <1>1, <1>4, <1>5 DEF TypeOK
  <1>9. NothingUntimed'
    <2>1. \A j \in Pending : j # k /\ BeingEnded(j) => BeingEnded(j)'
      BY <1>1, <1>2, <1>3, AtFacts DEF BeingEnded
    <2> QED BY <1>5, <1>6, <1>7, <2>1 DEF IInv, NothingUntimed
  <1>10. IdsAreUnique' /\ OneInstall'
    BY <1>1, <1>3, <1>5, AtFacts DEF IInv, IdsAreUnique, OneInstall
  <1>11. ASSUME NEW j \in Keys \ taken' PROVE Untaken(j)'
    <2>1. Untaken(j)
      BY <1>5, <1>11 DEF IInv
    <2>2. CASE j # k
      <3>1. pc'[Worker] = pc[Worker] \/ pc'[Worker] = IdleAt
        BY <1>1, <1>3
      <3>2. shareInfo'[j] = shareInfo[j] /\ (j \in Pending' <=> j \in Pending)
        BY <2>2, <1>4, <1>6, <1>11
      <3> QED BY <2>1, <3>1, <3>2, <1>5, <1>7, AtFacts DEF Untaken
    <2>3. CASE j = k
      <3>1. t = Worker
        BY <2>3, <1>5, <1>11
      <3>2. EventsOf(j) = {} /\ \A o \in Installs : o.key # j
        BY <2>1, <2>3, <3>1, <1>2 DEF Untaken
      <3> QED BY <3>1, <3>2, <1>3, <1>5, <1>7, AtFacts DEF Untaken
    <2> QED BY <2>2, <2>3
  <1> QED BY <1>8, <1>9, <1>10, <1>11 DEF IInv

LEMMA NextIInv == IInv /\ [Next]_vars => IInv'
  <1> SUFFICES ASSUME IInv, [Next]_vars PROVE IInv'
    OBVIOUS
  <1>1. CASE \E k \in Keys : EnterShare(k)
    BY <1>1, EnterShareKeeps
  <1>2. CASE ArmShare
    BY <1>2, ArmShareKeeps
  <1>3. CASE PackageExists
    BY <1>3, PackageExistsKeeps
  <1>4. CASE StartFreeInstall
    BY <1>4, StartFreeInstallKeeps
  <1>5. CASE \E op \in installing : InstallerCallsBack(op)
    BY <1>5, InstallerCallsBackKeeps
  <1>6. CASE InstallFinished
    BY <1>6, OnInstallFinishedKeeps DEF InstallFinished
  <1>7. CASE Timeouts
    BY <1>7, HandleFormShareInfoTimeoutKeeps, HandleFreeInstallTimeoutKeeps DEF Timeouts
  <1>8. CASE \E h \in Hosts, k \in Keys : AddProviderData(h, k)
    BY <1>8, AddProviderDataKeeps
  <1>9. CASE \E t \in Threads : RemoveFormShareInfo(t)
    BY <1>9, RemoveEventKeeps, EraseShareKeeps DEF RemoveFormShareInfo
  <1>10. CASE UNCHANGED vars
    <2>1. /\ \A j : EventsOf(j)' = EventsOf(j) /\ BeingEnded(j)' = BeingEnded(j)
          /\ Pending' = Pending /\ Installs' = Installs
          /\ Shares' = Shares /\ Operators' = Operators
      BY <1>10 DEF vars, EventsOf, BeingEnded, Pending, Installs, Shares, Operators
    <2>2. TypeOK' /\ NothingUntimed' /\ IdsAreUnique' /\ OneInstall'
      BY <1>10, <2>1 DEF vars, IInv, TypeOK, NothingUntimed, IdsAreUnique, OneInstall
    <2>3. ASSUME NEW j \in Keys \ taken' PROVE Untaken(j)'
      BY <1>10, <2>1, <2>3 DEF vars, IInv, Untaken
    <2> QED BY <2>2, <2>3 DEF IInv
  <1> QED BY <1>1, <1>2, <1>3, <1>4, <1>5, <1>6, <1>7, <1>8, <1>9, <1>10 DEF Next

LEMMA IInvHolds == Spec => []IInv
  BY InitIInv, NextIInv, PTL DEF Spec

--------------------------------------------------------------------------------
(* The results.                                                            *)

(* The variables of the share manager keep their types.                    *)
THEOREM SharesAreTyped == Spec => []TypeOK
  <1>1. IInv => TypeOK
    BY DEF IInv
  <1> QED BY <1>1, IInvHolds, PTL

(* Whatever the order in which tasks, timers, installer and hosts act, no  *)
(* pending share and no pending install is left without an armed timer or  *)
(* a thread about to see to it (HandleRecvFormShareInfoFromRemoteTask,     *)
(* RemoveFormShareInfo).                                                   *)
THEOREM NothingWaitsUntimed == Spec => []NothingUntimed
  <1>1. IInv => NothingUntimed
    BY DEF IInv
  <1> QED BY <1>1, IInvHolds, PTL

(* As long as no host has taken a share of a form, the result of a free    *)
(* install acts on the share the install was started for                   *)
(* (OnInstallFinished), because the timer of a share never fires before    *)
(* its install is over, if it needed one, and no key has two timers.  The  *)
(* timers of different shares may fire in any order.                       *)
THEOREM InstallIsOfItsShare == Spec => []InstallActsOnItsShare
  <1>1. IInv => InstallActsOnItsShare
    <2> SUFFICES ASSUME IInv, NEW op \in results, op.key \notin taken
                 PROVE  shareInfo[op.key].share = op.share
      BY DEF InstallActsOnItsShare
    <2>1. op.key \in Keys /\ op \in Installs
      BY DEF IInv, TypeOK, Operators, Installs
    <2> QED BY <2>1 DEF IInv, Untaken
  <1> QED BY <1>1, IInvHolds, PTL

\* Only EnterShare adds a pending share.
LEMMA OnlyEnterShareAdds ==
    ASSUME TypeOK, [Next]_vars, ~ \E k \in Keys : EnterShare(k)
    PROVE  Pending' \subseteq Pending
  <1>1. CASE shareInfo' = shareInfo
    BY <1>1 DEF Pending
  <1>2. CASE InstallFinished
    <2>1. PICK op \in results, ok \in BOOLEAN : OnInstallFinished(op, ok)
      BY <1>2 DEF InstallFinished
    <2>2. CASE op.key \in Pending /\ shareInfo' = [shareInfo EXCEPT ![op.key].isFreeInstall = TRUE]
      BY <2>2 DEF TypeOK, Pending
    <2> QED BY <1>1, <2>1, <2>2 DEF OnInstallFinished
  <1>3. CASE \E t \in Threads : EraseShare(t)
    BY <1>3 DEF EraseShare, TypeOK, Pending
  <1> QED
    <2>1. \/ ArmShare \/ PackageExists \/ StartFreeInstall \/ UNCHANGED vars
          \/ \E op \in installing : InstallerCallsBack(op)
          \/ Timeouts
          \/ \E h \in Hosts, k \in Keys : AddProviderData(h, k)
          \/ \E t \in Threads : RemoveEvent(t)
          => shareInfo' = shareInfo
      BY DEF ArmShare, PackageExists, StartFreeInstall, vars, InstallerCallsBack, Timeouts,
             HandleFormShareInfoTimeout, HandleFreeInstallTimeout, AddProviderData, RemoveEvent
    <2> QED BY <1>1, <1>2, <1>3, <2>1 DEF Next, RemoveFormShareInfo

(* The limit on pending shares is exceeded by one at most, for every       *)
(* limit: the worker alone enters shares, and it counts first              *)
(* (HandleRecvFormShareInfoFromRemoteTask).                                *)
THEOREM OneOverAtMost == Spec => []AtMostOneOver
  <1> DEFINE Few == IsFiniteSet(Pending) /\ AtMostOneOver
  <1>1. Init => Few
    <2> SUFFICES ASSUME Init PROVE Few
      OBVIOUS
    <2>1. Pending = {}
      BY DEF Init, Pending
    <2> QED BY <2>1, FS_EmptySet, FormShareMgrAssumption DEF AtMostOneOver
  <1>2. Few /\ TypeOK /\ [Next]_vars => Few'
    <2> SUFFICES ASSUME Few, TypeOK, [Next]_vars PROVE Few'
      OBVIOUS
    <2>1. Cardinality(Pending) \in Nat
      BY FS_CardinalityType
    <2>2. CASE \E k \in Keys : EnterShare(k)
      <3>1. PICK k \in Keys : EnterShare(k)
        BY <2>2
      <3>2. Pending' \subseteq Pending \cup {k}
        BY <3>1 DEF EnterShare, TypeOK, Pending
      <3>3. /\ IsFiniteSet(Pending \cup {k})
            /\ Cardinality(Pending \cup {k}) \in Nat
            /\ Cardinality(Pending \cup {k}) <= Cardinality(Pending) + 1
        BY <2>1, FS_AddElement, FS_CardinalityType
      <3>4. IsFiniteSet(Pending') /\ Cardinality(Pending') <= Cardinality(Pending \cup {k})
        BY <3>2, <3>3, FS_Subset
      <3>5. Cardinality(Pending') \in Nat
        BY <3>4, FS_CardinalityType
      <3>6. Cardinality(Pending) <= FORM_SHARE_INFO_MAX_SIZE
        BY <3>1 DEF EnterShare
      <3> QED BY <2>1, <3>3, <3>4, <3>5, <3>6, FormShareMgrAssumption DEF AtMostOneOver
    <2>3. CASE ~ \E k \in Keys : EnterShare(k)
      <3>1. Pending' \subseteq Pending
        BY <2>3, OnlyEnterShareAdds
      <3>2. IsFiniteSet(Pending') /\ Cardinality(Pending') <= Cardinality(Pending)
        BY <3>1, FS_Subset
      <3>3. Cardinality(Pending') \in Nat
        BY <3>2, FS_CardinalityType
      <3> QED BY <2>1, <3>2, <3>3, FormShareMgrAssumption DEF AtMostOneOver
    <2> QED BY <2>2, <2>3
  <1>3. Few => AtMostOneOver
    OBVIOUS
  <1> HIDE DEF Few
  <1> QED BY <1>1, <1>2, <1>3, SharesAreTyped, PTL DEF Spec

================================================================================
