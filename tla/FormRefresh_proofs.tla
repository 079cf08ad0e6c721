-------------------------- MODULE FormRefresh_proofs --------------------------
(***************************************************************************)
(* Proofs about the refresh pipeline, for any number of requests at once   *)
(* and any daily limit: the types, the bound of the count, and that a      *)
(* refresh which is put off is not forgotten.                              *)
(***************************************************************************)
EXTENDS FormRefresh, SequenceTheorems, FiniteSetTheorems, TLAPS

--------------------------------------------------------------------------------
(* The steps a request may have ahead.  What is right for a request to do  *)
(* depends on whether the form was added (fin) and whether a write-back of *)
(* a stale copy undid a flag (clob).                                       *)

Flags == {"enableForm", "isTimerRefresh", "isHostRefresh", "isCountTimerRefresh", "networkType"}
Assignments == [field : Flags, value : BOOLEAN] \cup [field : {"visibleState"}, value : VisibleStates]
Sets == {Op("set", a) : a \in Assignments}
ForgetsDisabled == Op("set", [field |-> "refreshDuringDisable", value |-> FALSE])
NotesDisabled == Op("putOff", "refreshDuringDisable")
NotesNeed == Op("putOff", "needRefresh")
Counted == Op("connect", [isTimer |-> TRUE, isCount |-> TRUE])
Tokens == {Op("counted", 0), Op("increase", 0)}

\* A host's wait is noted before the form is added, a disabled form's after.
Sound(r) == /\ r.needUpdateOnAddFinish => ~r.addFormFinish
            /\ r.refreshDuringDisable => r.addFormFinish
Copies(fin, clob) == {r \in FormRecord : (r.addFormFinish => fin) /\ (clob \/ Sound(r))}

Marks == {Op(name, 0) : name \in {"pushed", "need", "limit", "addFinish"}}
Uncounted == [isTimer : BOOLEAN, isCount : {FALSE}]
Connects == {Op("connect", a) : a \in Uncounted}
OnCopies(fin, clob) ==
    {Op(name, r) : name \in {"write", "screen", "typed"}, r \in Copies(fin, clob)}
OnTimers == {Op(name, k) : name \in {"overload", "enqueue"}, k \in TimerKinds}

Plain(fin, clob) == Sets \cup {NotesNeed} \cup Marks \cup Connects \cup OnCopies(fin, clob)
Added == {NotesDisabled} \cup OnTimers
Simple(fin, clob) == Plain(fin, clob) \cup (IF fin THEN Added ELSE {})
Fine(fin, clob) == Simple(fin, clob) \cup {NotesDisabled, ForgetsDisabled, Counted}

\* Steps after which the provider was asked or a flag or the queue remembers.
Resolving == {"putOff", "connect", "typed", "enqueue"}
Resolves(s) == \E i \in 1 .. Len(s) : s[i].name \in Resolving

\* What a request starts with, and every rest of it that has not begun to count.
Startable(fin, clob, s) ==
    /\ s \in Seq(Fine(fin, clob))
    /\ \A i \in 1 .. Len(s) :
         /\ s[i] = NotesDisabled => fin \/ \E j \in 1 .. (i - 1) : s[j].name = "addFinish"
         /\ s[i] = Counted => i > 1 /\ s[i - 1].name = "limit"
         /\ s[i] = ForgetsDisabled => clob \/ \E j \in (i + 1) .. Len(s) : s[j].name \in Resolving

\* A request that has passed the limit, and one that still has to count.
Asking(s) == s # <<>> /\ Head(s) = Counted
Counting(s) ==
    /\ s \in Seq(Sets \cup Tokens)
    /\ \E i \in 1 .. Len(s) : s[i] \in Tokens /\ \A j \in (1 .. Len(s)) \ {i} : s[j] \in Sets
Alone == {<<Op("drain", 0)>>, <<Op("refreshForm", 0)>>}
Legal(fin, clob, s) ==
    Startable(fin, clob, s) \/ Asking(s) \/ Counting(s) \/ s \in Alone

--------------------------------------------------------------------------------
LEMMA OpFields ==
    \A name, arg : Op(name, arg).name = name /\ Op(name, arg).arg = arg
  BY DEF Op

LEMMA OpNames ==
    ASSUME NEW fin, NEW clob, NEW op
    PROVE  /\ op \in Sets => op.name = "set"
           /\ op = ForgetsDisabled => op.name = "set"
           /\ op \in {NotesNeed, NotesDisabled} => op.name = "putOff"
           /\ op = Counted => op.name = "connect"
           /\ op \in Marks =>
                op.name \in {"pushed", "need", "limit", "addFinish"}
           /\ op \in Connects =>
                op.name = "connect"
           /\ op \in OnCopies(fin, clob) =>
                op.name \in {"write", "screen", "typed"} /\ op.arg \in Copies(fin, clob)
           /\ op \in OnTimers =>
                op.name \in {"overload", "enqueue"} /\ op.arg \in TimerKinds
  <1>1. /\ op \in Sets => op.name = "set"
        /\ op = ForgetsDisabled => op.name = "set"
        /\ op \in {NotesNeed, NotesDisabled} => op.name = "putOff"
        /\ op = Counted => op.name = "connect"
    BY OpFields DEF Sets, ForgetsDisabled, NotesDisabled, NotesNeed, Counted
  <1>2. op \in Marks =>
           op.name \in {"pushed", "need", "limit", "addFinish"}
    BY OpFields DEF Marks
  <1>3. op \in Connects =>
           op.name = "connect"
    BY OpFields DEF Connects
  <1>4. op \in OnCopies(fin, clob) =>
           op.name \in {"write", "screen", "typed"} /\ op.arg \in Copies(fin, clob)
    BY OpFields DEF OnCopies
  <1>5. op \in OnTimers =>
           op.name \in {"overload", "enqueue"} /\ op.arg \in TimerKinds
    BY OpFields DEF OnTimers
  <1> QED BY <1>1, <1>2, <1>3, <1>4, <1>5

LEMMA FineByName ==
    ASSUME NEW fin \in BOOLEAN, NEW clob \in BOOLEAN, NEW op \in Fine(fin, clob)
    PROVE  /\ op.name \in {"set", "putOff", "pushed", "need", "limit", "addFinish", "connect",
                           "write", "screen", "typed", "overload", "enqueue"}
           /\ op.name = "set" => op \in Sets \/ op = ForgetsDisabled
           /\ op.name = "putOff" => op = NotesNeed \/ op = NotesDisabled
           /\ op.name = "connect" => op = Counted \/ op \in Connects
           /\ op.name \in {"write", "screen", "typed"} => op.arg \in Copies(fin, clob)
           /\ op.name \in {"overload", "enqueue"} => fin /\ op.arg \in TimerKinds
  BY OpNames DEF Fine, Simple, Plain, Added

LEMMA SimpleByName ==
    ASSUME NEW fin \in BOOLEAN, NEW clob \in BOOLEAN, NEW op \in Simple(fin, clob)
    PROVE  /\ op.name = "set" => op \in Sets
           /\ op.name = "putOff" => op = NotesNeed \/ (fin /\ op = NotesDisabled)
           /\ op.name = "connect" => op \in Connects
  BY OpNames DEF Simple, Plain, Added

LEMMA FineGrows ==
    ASSUME NEW fin \in BOOLEAN, NEW clob \in BOOLEAN, NEW fin2 \in BOOLEAN, NEW clob2 \in BOOLEAN,
           fin => fin2, clob => clob2
    PROVE  /\ Copies(fin, clob) \subseteq Copies(fin2, clob2)
           /\ Simple(fin, clob) \subseteq Simple(fin2, clob2)
           /\ Fine(fin, clob) \subseteq Fine(fin2, clob2)
  <1>1. Copies(fin, clob) \subseteq Copies(fin2, clob2)
    BY DEF Copies
  <1>2. OnCopies(fin, clob) \subseteq OnCopies(fin2, clob2)
    BY <1>1 DEF OnCopies
  <1>3. Plain(fin, clob) \subseteq Plain(fin2, clob2)
    BY <1>2 DEF Plain
  <1> QED BY <1>1, <1>3 DEF Simple, Fine

LEMMA LegalGrows ==
    ASSUME NEW fin \in BOOLEAN, NEW clob \in BOOLEAN, NEW fin2 \in BOOLEAN, NEW clob2 \in BOOLEAN,
           fin => fin2, clob => clob2, NEW s, Legal(fin, clob, s)
    PROVE  Legal(fin2, clob2, s)
  <1>1. Startable(fin, clob, s) => s \in Seq(Fine(fin2, clob2))
    BY FineGrows, SeqMonotonic DEF Startable
  <1>2. Startable(fin, clob, s) => Startable(fin2, clob2, s)
    BY <1>1 DEF Startable
  <1> QED BY <1>2 DEF Legal

--------------------------------------------------------------------------------
(* Scripts.                                                                *)

LEMMA SimpleIsFine ==
    ASSUME NEW fin \in BOOLEAN, NEW clob \in BOOLEAN, NEW op \in Simple(fin, clob)
    PROVE  /\ op \in Fine(fin, clob) /\ op # Counted /\ op # ForgetsDisabled
           /\ op = NotesDisabled => fin
  <1>1. op # Counted
    <2>1. Counted.name = "connect" /\ Counted.arg.isCount = TRUE
      BY OpFields DEF Counted
    <2>2. op \in Connects => op.arg \in Uncounted
      BY OpFields DEF Connects
    <2>3. op \in Connects => op.arg.isCount = FALSE
      BY <2>2 DEF Uncounted
    <2> QED BY <2>1, <2>3, SimpleByName
  <1>2. op # ForgetsDisabled
    <2>1. ForgetsDisabled.name = "set" /\ ForgetsDisabled.arg.field = "refreshDuringDisable"
      BY OpFields DEF ForgetsDisabled
    <2>2. ASSUME op \in Sets PROVE op.arg.field \in Flags \cup {"visibleState"}
      BY <2>2, OpFields DEF Sets, Assignments
    <2> QED BY <2>1, <2>2, SimpleByName DEF Flags
  <1>3. op = NotesDisabled => fin
    <2>1. NotesDisabled.name = "putOff" /\ NotesDisabled.arg # NotesNeed.arg
      BY OpFields DEF NotesDisabled, NotesNeed
    <2> QED BY <2>1, SimpleByName
  <1> QED BY <1>1, <1>2, <1>3 DEF Fine

LEMMA SimpleStarts ==
    ASSUME NEW fin \in BOOLEAN, NEW clob \in BOOLEAN, NEW s \in Seq(Simple(fin, clob))
    PROVE  Startable(fin, clob, s)
  <1>1. s \in Seq(Fine(fin, clob))
    BY SimpleIsFine, SeqMonotonic
  <1>2. \A i \in 1 .. Len(s) : s[i] \in Simple(fin, clob)
    OBVIOUS
  <1> QED BY <1>1, <1>2, SimpleIsFine DEF Startable

\* Simple steps may come before what a request starts with.
LEMMA Prepended ==
    ASSUME NEW fin \in BOOLEAN, NEW clob \in BOOLEAN, NEW s \in Seq(Simple(fin, clob)), NEW u,
           Startable(fin, clob, u)
    PROVE  /\ Startable(fin, clob, s \o u)
           /\ Resolves(s) \/ Resolves(u) => Resolves(s \o u)
  <1> DEFINE v == s \o u
  <1>1. s \in Seq(Fine(fin, clob)) /\ u \in Seq(Fine(fin, clob))
    BY SimpleStarts DEF Startable
  <1>2. /\ v \in Seq(Fine(fin, clob)) /\ Len(v) = Len(s) + Len(u)
        /\ Len(s) \in Nat /\ Len(u) \in Nat
        /\ \A i \in 1 .. Len(s) : v[i] = s[i]
        /\ \A i \in 1 .. Len(u) : v[i + Len(s)] = u[i]
    BY <1>1, ConcatProperties
  <1> HIDE DEF v
  <1>3. ASSUME NEW i \in 1 .. Len(v)
        PROVE  /\ v[i] = NotesDisabled => fin \/ \E j \in 1 .. (i - 1) : v[j].name = "addFinish"
               /\ v[i] = Counted => i > 1 /\ v[i - 1].name = "limit"
               /\ v[i] = ForgetsDisabled =>
                     clob \/ \E j \in (i + 1) .. Len(v) : v[j].name \in Resolving
    <2>1. CASE i \in 1 .. Len(s)
      <3>1. v[i] \in Simple(fin, clob)
        BY <1>2, <2>1
      <3> QED BY <3>1, SimpleIsFine
    <2>2. CASE i \notin 1 .. Len(s)
      <3>1. PICK k \in 1 .. Len(u) : i = k + Len(s)
        <4>1. i - Len(s) \in 1 .. Len(u) /\ i = (i - Len(s)) + Len(s)
          BY <1>2, <2>2
        <4> QED BY <4>1
      <3>2. v[i] = u[k]
        BY <1>2, <3>1
      <3>3. v[i] = NotesDisabled => fin \/ \E j \in 1 .. (i - 1) : v[j].name = "addFinish"
        <4>1. ASSUME NEW j \in 1 .. (k - 1)
              PROVE  j + Len(s) \in 1 .. (i - 1) /\ v[j + Len(s)] = u[j]
          BY <1>2, <3>1
        <4> QED BY <3>2, <4>1 DEF Startable
      <3>4. v[i] = Counted => i > 1 /\ v[i - 1].name = "limit"
        <4>1. k > 1 => v[i - 1] = u[k - 1]
          <5>1. k > 1 => k - 1 \in 1 .. Len(u) /\ i - 1 = (k - 1) + Len(s)
            BY <1>2, <3>1
          <5> QED BY <1>2, <5>1
        <4>2. u[k] = Counted => k > 1 /\ u[k - 1].name = "limit"
          BY DEF Startable
        <4> QED BY <1>2, <3>1, <3>2, <4>1, <4>2
      <3>5. v[i] = ForgetsDisabled => clob \/ \E j \in (i + 1) .. Len(v) : v[j].name \in Resolving
        <4>1. ASSUME NEW j \in (k + 1) .. Len(u)
              PROVE  j + Len(s) \in (i + 1) .. Len(v) /\ v[j + Len(s)] = u[j]
          BY <1>2, <3>1
        <4> QED BY <3>2, <4>1 DEF Startable
      <3> QED BY <3>3, <3>4, <3>5
    <2> QED BY <2>1, <2>2
  <1>4. Startable(fin, clob, v)
    BY <1>2, <1>3 DEF Startable
  <1>5. ASSUME Resolves(s) \/ Resolves(u) PROVE Resolves(v)
    <2>1. CASE Resolves(s)
      BY <1>2, <2>1 DEF Resolves
    <2>2. CASE Resolves(u)
      <3>1. PICK k \in 1 .. Len(u) : u[k].name \in Resolving
        BY <2>2 DEF Resolves
      <3>2. k + Len(s) \in 1 .. Len(v) /\ v[k + Len(s)] = u[k]
        BY <1>2
      <3> QED BY <3>1, <3>2 DEF Resolves
    <2> QED BY <1>5, <2>1, <2>2
  <1> QED BY <1>4, <1>5 DEF v

\* A disabled form is noted after the wait for the form to be added.
LEMMA NotedAfterAdd ==
    ASSUME NEW fin \in BOOLEAN, NEW clob \in BOOLEAN, NEW s \in Seq(Simple(fin, clob))
    PROVE  Startable(fin, clob, (s \o <<Op("addFinish", 0)>>) \o <<NotesDisabled>>)
  <1> DEFINE add == Op("addFinish", 0)
             w == s \o <<add>>
             v == w \o <<NotesDisabled>>
  <1>1. add \in Simple(fin, clob) /\ add.name = "addFinish"
    BY OpFields DEF Simple, Plain, Marks
  <1> HIDE DEF add
  <1>2. /\ w \in Seq(Simple(fin, clob)) /\ Len(w) = Len(s) + 1 /\ w[Len(w)] = add
        /\ Len(w) \in Nat
    BY <1>1
  <1> HIDE DEF w
  <1>3. \A i \in 1 .. Len(w) : w[i] \in Simple(fin, clob)
    BY <1>2
  <1>4. NotesDisabled \in Fine(fin, clob) /\ w \in Seq(Fine(fin, clob))
    BY <1>2, SimpleStarts DEF Fine, Startable
  <1>5. /\ v \in Seq(Fine(fin, clob)) /\ Len(v) = Len(w) + 1 /\ v[Len(w) + 1] = NotesDisabled
        /\ \A i \in 1 .. Len(w) : v[i] = w[i]
    BY <1>2, <1>4
  <1> HIDE DEF v
  <1>6. Len(w) \in 1 .. ((Len(w) + 1) - 1) /\ v[Len(w)].name = "addFinish"
    BY <1>1, <1>2, <1>5
  <1>7. NotesDisabled # Counted /\ NotesDisabled # ForgetsDisabled
    <2>1. NotesDisabled.name = "putOff" /\ Counted.name = "connect" /\ ForgetsDisabled.name = "set"
      BY OpFields DEF NotesDisabled, Counted, ForgetsDisabled
    <2> QED BY <2>1
  <1>8. ASSUME NEW i \in 1 .. Len(v)
        PROVE  /\ v[i] = NotesDisabled => fin \/ \E j \in 1 .. (i - 1) : v[j].name = "addFinish"
               /\ v[i] # Counted /\ v[i] # ForgetsDisabled
    <2>1. CASE i \in 1 .. Len(w)
      BY <1>3, <1>5, <2>1, SimpleIsFine
    <2>2. CASE i = Len(w) + 1
      BY <1>5, <1>6, <1>7, <2>2
    <2> QED BY <1>2, <1>5, <2>1, <2>2
  <1> QED BY <1>5, <1>8 DEF Startable, v, w, add

\* The note of a disabled form is taken back by a request that asks again.
LEMMA ForgottenAgain ==
    ASSUME NEW fin \in BOOLEAN, NEW clob \in BOOLEAN, NEW u, Startable(fin, clob, u),
           clob \/ Resolves(u)
    PROVE  Startable(fin, clob, <<ForgetsDisabled>> \o u)
  <1> DEFINE v == <<ForgetsDisabled>> \o u
  <1>1. u \in Seq(Fine(fin, clob)) /\ ForgetsDisabled \in Fine(fin, clob)
    BY DEF Startable, Fine
  <1>2. /\ v \in Seq(Fine(fin, clob)) /\ Len(v) = Len(u) + 1 /\ v[1] = ForgetsDisabled
        /\ Len(u) \in Nat
        /\ \A i \in 1 .. Len(u) : v[i + 1] = u[i]
    BY <1>1
  <1> HIDE DEF v
  <1>3. ForgetsDisabled # Counted /\ ForgetsDisabled # NotesDisabled
    <2>1. NotesDisabled.name = "putOff" /\ Counted.name = "connect" /\ ForgetsDisabled.name = "set"
      BY OpFields DEF NotesDisabled, Counted, ForgetsDisabled
    <2> QED BY <2>1
  <1>4. ASSUME NEW i \in 1 .. Len(v)
        PROVE  /\ v[i] = NotesDisabled => fin \/ \E j \in 1 .. (i - 1) : v[j].name = "addFinish"
               /\ v[i] = Counted => i > 1 /\ v[i - 1].name = "limit"
               /\ v[i] = ForgetsDisabled =>
                     clob \/ \E j \in (i + 1) .. Len(v) : v[j].name \in Resolving
    <2>1. CASE i = 1
      <3>1. ASSUME NEW j \in 1 .. Len(u) PROVE j + 1 \in 2 .. Len(v) /\ v[j + 1] = u[j]
        BY <1>2
      <3> QED BY <1>2, <1>3, <2>1, <3>1 DEF Resolves
    <2>2. CASE i # 1
      <3>1. PICK k \in 1 .. Len(u) : i = k + 1
        <4>1. i - 1 \in 1 .. Len(u) /\ i = (i - 1) + 1
          BY <1>2, <2>2
        <4> QED BY <4>1
      <3>2. /\ v[i] = u[k] /\ (k > 1 => v[i - 1] = u[k - 1])
        <4>1. k > 1 => k - 1 \in 1 .. Len(u) /\ i - 1 = (k - 1) + 1
          BY <3>1
        <4> QED BY <1>2, <3>1, <4>1
      <3>3. u[k] = NotesDisabled => fin \/ \E j \in 1 .. (i - 1) : v[j].name = "addFinish"
        <4>1. ASSUME NEW j \in 1 .. (k - 1) PROVE j + 1 \in 1 .. (i - 1) /\ v[j + 1] = u[j]
          BY <1>2, <3>1
        <4> QED BY <4>1 DEF Startable
      <3>4. u[k] = Counted => k > 1 /\ u[k - 1].name = "limit"
        BY DEF Startable
      <3>5. u[k] = ForgetsDisabled => clob \/ \E j \in (i + 1) .. Len(v) : v[j].name \in Resolving
        <4>1. ASSUME NEW j \in (k + 1) .. Len(u) PROVE j + 1 \in (i + 1) .. Len(v) /\ v[j + 1] = u[j]
          BY <1>2, <3>1
        <4> QED BY <4>1 DEF Startable
      <3> QED BY <3>1, <3>2, <3>3, <3>4, <3>5
    <2> QED BY <2>1, <2>2
  <1> QED BY <1>2, <1>4 DEF Startable, v

LEMMA Connected ==
    ASSUME NEW fin \in BOOLEAN, NEW clob \in BOOLEAN, NEW isTimer \in BOOLEAN,
           NEW isCount \in BOOLEAN, isCount => isTimer
    PROVE  LET s == Connect(isTimer, isCount) IN Startable(fin, clob, s) /\ Resolves(s)
  <1>1. CASE ~isCount
    <2> DEFINE a == [isTimer |-> isTimer, isCount |-> isCount]
               op == Op("connect", a)
               v == <<>> \o <<op>>
    <2>1. a \in Uncounted
      BY <1>1 DEF Uncounted
    <2> HIDE DEF a
    <2>2. op \in Simple(fin, clob) /\ op.name = "connect"
      BY <2>1, OpFields DEF Simple, Plain, Connects
    <2>3. Connect(isTimer, isCount) = v
      BY <1>1 DEF Connect, a
    <2> HIDE DEF op
    <2>4. v \in Seq(Simple(fin, clob)) /\ Len(v) = 1 /\ v[1] = op
      BY <2>2
    <2> HIDE DEF v
    <2>5. Startable(fin, clob, v) /\ Resolves(v)
      BY <2>2, <2>4, SimpleStarts DEF Resolves, Resolving
    <2> QED BY <2>3, <2>5
  <1>2. CASE isCount
    <2> DEFINE limit == Op("limit", 0)
               v == <<limit>> \o <<Counted>>
    <2>1. /\ limit \in Fine(fin, clob) /\ Counted \in Fine(fin, clob)
          /\ limit.name = "limit" /\ Counted.name = "connect"
          /\ NotesDisabled.name = "putOff" /\ ForgetsDisabled.name = "set"
      BY OpFields DEF Fine, Simple, Plain, Marks, Counted, NotesDisabled, ForgetsDisabled
    <2>2. Connect(isTimer, isCount) = v
      BY <1>2 DEF Connect, Counted
    <2> HIDE DEF limit
    <2>3. v \in Seq(Fine(fin, clob)) /\ Len(v) = 2 /\ v[1] = limit /\ v[2] = Counted
      BY <2>1
    <2> HIDE DEF v
    <2>4. Startable(fin, clob, v)
      <3>1. ASSUME NEW i \in 1 .. Len(v)
            PROVE  /\ v[i] # NotesDisabled /\ v[i] # ForgetsDisabled
                   /\ v[i] = Counted => i = 2
        <4>1. i = 1 \/ i = 2
          BY <2>3
        <4> QED BY <2>1, <2>3, <4>1
      <3> QED BY <2>1, <2>3, <3>1 DEF Startable
    <2>5. Resolves(v)
      BY <2>1, <2>3 DEF Resolves, Resolving
    <2> QED BY <2>2, <2>4, <2>5
  <1> QED BY <1>1, <1>2

LEMMA SimpleSteps ==
    ASSUME NEW fin \in BOOLEAN, NEW clob \in BOOLEAN
    PROVE  /\ \A f \in Flags, b \in BOOLEAN : Set(f, b) \in Seq(Simple(fin, clob))
           /\ \A v \in VisibleStates : Set("visibleState", v) \in Seq(Simple(fin, clob))
           /\ SetNeedRefresh \in Seq(Simple(fin, clob)) /\ Resolves(SetNeedRefresh)
           /\ SetHostRefresh \in Seq(Simple(fin, clob))
           /\ Resolves(AddFlagByHealthyControl)
           /\ fin => AddFlagByHealthyControl \in Seq(Simple(fin, clob))
           /\ \A name \in {"pushed", "need", "limit", "addFinish"} :
                <<Op(name, 0)>> \in Seq(Simple(fin, clob))
           /\ \A name \in {"write", "screen", "typed"}, r \in Copies(fin, clob) :
                <<Op(name, r)>> \in Seq(Simple(fin, clob))
           /\ fin => \A name \in {"overload", "enqueue"}, k \in TimerKinds :
                <<Op(name, k)>> \in Seq(Simple(fin, clob))
  <1>1. ASSUME NEW a \in Assignments PROVE <<Op("set", a)>> \in Seq(Simple(fin, clob))
    BY DEF Simple, Plain, Sets
  <1>2. ASSUME NEW f \in Flags, NEW b \in BOOLEAN PROVE Set(f, b) \in Seq(Simple(fin, clob))
    BY <1>1 DEF Set, Assignments
  <1>3. ASSUME NEW v \in VisibleStates PROVE Set("visibleState", v) \in Seq(Simple(fin, clob))
    BY <1>1 DEF Set, Assignments
  <1>4. SetNeedRefresh \in Seq(Simple(fin, clob)) /\ Resolves(SetNeedRefresh)
    <2>1. SetNeedRefresh = <<NotesNeed>> /\ NotesNeed.name = "putOff"
      BY OpFields DEF SetNeedRefresh, PutOff, NotesNeed
    <2> QED BY <2>1 DEF Simple, Plain, Resolves, Resolving
  <1>5. SetHostRefresh \in Seq(Simple(fin, clob))
    BY <1>2 DEF SetHostRefresh, Flags
  <1>6. /\ Resolves(AddFlagByHealthyControl)
        /\ fin => AddFlagByHealthyControl \in Seq(Simple(fin, clob))
    <2>1. AddFlagByHealthyControl = <<NotesDisabled>> /\ NotesDisabled.name = "putOff"
      BY OpFields DEF AddFlagByHealthyControl, PutOff, NotesDisabled
    <2> QED BY <2>1 DEF Simple, Added, Resolves, Resolving
  <1>7. \A name \in {"pushed", "need", "limit", "addFinish"} :
           <<Op(name, 0)>> \in Seq(Simple(fin, clob))
    BY DEF Simple, Plain, Marks
  <1>8. \A name \in {"write", "screen", "typed"}, r \in Copies(fin, clob) :
           <<Op(name, r)>> \in Seq(Simple(fin, clob))
    BY DEF Simple, Plain, OnCopies
  <1>9. ASSUME fin, NEW name \in {"overload", "enqueue"}, NEW k \in TimerKinds
        PROVE  <<Op(name, k)>> \in Seq(Simple(fin, clob))
    <2>1. Op(name, k) \in OnTimers
      BY DEF OnTimers
    <2>2. Op(name, k) \in Simple(fin, clob)
      BY <1>9, <2>1 DEF Simple, Added
    <2> QED BY <2>2
  <1> QED BY <1>2, <1>3, <1>4, <1>5, <1>6, <1>7, <1>8, <1>9

LEMMA Asked ==
    ASSUME NEW fin \in BOOLEAN, NEW clob \in BOOLEAN, NEW copy \in Copies(fin, clob),
           NEW isTimer \in BOOLEAN, NEW isCount \in BOOLEAN, isCount => isTimer
    PROVE  /\ LET s == NeedThenConnect(isTimer, isCount) IN Startable(fin, clob, s) /\ Resolves(s)
           /\ LET s == Ask(copy, isTimer, isCount) IN Startable(fin, clob, s) /\ Resolves(s)
  <1>1. LET s == NeedThenConnect(isTimer, isCount) IN Startable(fin, clob, s) /\ Resolves(s)
    BY SimpleSteps, Connected, Prepended DEF NeedThenConnect
  <1>2. LET s == Ask(copy, isTimer, isCount) IN Startable(fin, clob, s) /\ Resolves(s)
    BY <1>1, SimpleSteps, Prepended DEF Ask
  <1> QED BY <1>1, <1>2

LEMMA Invisible ==
    ASSUME NEW fin \in BOOLEAN, NEW clob \in BOOLEAN, NEW b \in BOOLEAN
    PROVE  LET s == AddFlagByInvisible(b) IN Startable(fin, clob, s) /\ Resolves(s)
  <1> DEFINE r == IF b THEN Set("isTimerRefresh", TRUE) ELSE <<>>
             q == Set("networkType", b)
             v == SetNeedRefresh \o q
  <1>1. r \in Seq(Simple(fin, clob)) /\ q \in Seq(Simple(fin, clob))
    <2>1. Set("isTimerRefresh", TRUE) \in Seq(Simple(fin, clob)) /\ q \in Seq(Simple(fin, clob))
      BY SimpleSteps DEF Flags
    <2> QED BY <2>1, EmptySeq
  <1>2. AddFlagByInvisible(b) = v \o r
    BY DEF AddFlagByInvisible
  <1> HIDE DEF r, q
  <1>3. v \in Seq(Simple(fin, clob)) /\ Startable(fin, clob, r) /\ Startable(fin, clob, q)
    BY <1>1, SimpleSteps, SimpleStarts
  <1>4. Resolves(v)
    BY <1>3, SimpleSteps, Prepended
  <1> HIDE DEF v
  <1>5. Startable(fin, clob, v \o r) /\ Resolves(v \o r)
    BY <1>3, <1>4, Prepended
  <1> QED BY <1>2, <1>5

\* A request that is put off, turned away or asked for, as it is in every script.
LEMMA Usual ==
    ASSUME NEW fin \in BOOLEAN, NEW clob \in BOOLEAN
    PROVE  /\ <<>> \in Seq(Simple(fin, clob)) /\ Startable(fin, clob, <<>>)
           /\ Resolves(AddFlagByHealthyControl)
           /\ fin => Startable(fin, clob, AddFlagByHealthyControl)
           /\ Startable(fin, clob, SetNeedRefresh) /\ Resolves(SetNeedRefresh)
  BY SimpleSteps, SimpleStarts, EmptySeq

LEMMA ScreenOffNoted ==
    ASSUME NEW fin \in BOOLEAN, NEW clob \in BOOLEAN, NEW copy \in Copies(fin, clob)
    PROVE  LET s == AddFlagByScreenOff(copy) IN Startable(fin, clob, s) /\ Resolves(s)
  <1> DEFINE w == Write(copy) \o SetHostRefresh
  <1>1. Write(copy) \in Seq(Simple(fin, clob)) /\ SetHostRefresh \in Seq(Simple(fin, clob))
    BY SimpleSteps DEF Write
  <1>2. w \in Seq(Simple(fin, clob))
    BY <1>1
  <1>3. AddFlagByScreenOff(copy) = w \o SetNeedRefresh
    BY DEF AddFlagByScreenOff
  <1> HIDE DEF w
  <1> QED BY <1>2, <1>3, Usual, Prepended

LEMMA TimerStarts ==
    ASSUME NEW fin \in BOOLEAN, NEW clob \in BOOLEAN, NEW copy \in Copies(fin, clob),
           NEW kind \in TimerKinds
    PROVE  LET s == TimerRequest(copy, kind)
           IN  Startable(fin, clob, s) /\ (copy.addFormFinish => Resolves(s))
  <1>1. CASE ~copy.addFormFinish
    BY <1>1, Usual DEF TimerRequest
  <1>2. CASE copy.addFormFinish
    <2> DEFINE over == <<Op("overload", kind)>>
               timer == Set("isTimerRefresh", TRUE)
               marked == IF kind = "count" THEN Set("isCountTimerRefresh", TRUE) ELSE <<>>
               asked == Ask(copy, TRUE, kind = "count")
               late == AddFlagByInvisible(FALSE)
               rest == marked \o asked
    <2>1. fin
      BY <1>2 DEF Copies
    <2>2. /\ over \in Seq(Simple(fin, clob)) /\ timer \in Seq(Simple(fin, clob))
          /\ Set("isCountTimerRefresh", TRUE) \in Seq(Simple(fin, clob))
      BY <2>1, SimpleSteps DEF Flags
    <2>3. marked \in Seq(Simple(fin, clob))
      BY <2>2, Usual
    <2>4. Startable(fin, clob, asked) /\ Resolves(asked)
      BY Asked
    <2>5. Startable(fin, clob, late) /\ Resolves(late)
      BY Invisible
    <2>6. TimerRequest(copy, kind) =
            over \o (IF ~copy.enableForm THEN AddFlagByHealthyControl ELSE
                     timer \o (IF copy.visibleState # "visible" THEN late ELSE rest))
      BY <1>2 DEF TimerRequest
    <2> HIDE DEF over, timer, marked, asked, late
    <2>7. Startable(fin, clob, rest) /\ Resolves(rest)
      BY <2>3, <2>4, Prepended
    <2> HIDE DEF rest
    <2> DEFINE shown == timer \o (IF copy.visibleState # "visible" THEN late ELSE rest)
    <2>8. Startable(fin, clob, shown) /\ Resolves(shown)
      <3>1. Startable(fin, clob, timer \o late) /\ Resolves(timer \o late)
        BY <2>2, <2>5, Prepended
      <3>2. Startable(fin, clob, timer \o rest) /\ Resolves(timer \o rest)
        BY <2>2, <2>7, Prepended
      <3> QED BY <3>1, <3>2
    <2> HIDE DEF shown
    <2> DEFINE last == IF ~copy.enableForm THEN AddFlagByHealthyControl ELSE shown
    <2>9. Startable(fin, clob, last) /\ Resolves(last)
      BY <2>1, <2>8, Usual
    <2>10. TimerRequest(copy, kind) = over \o last
      BY <2>6 DEF shown
    <2> HIDE DEF last
    <2>11. Startable(fin, clob, over \o last) /\ Resolves(over \o last)
      BY <2>2, <2>9, Prepended
    <2> QED BY <2>10, <2>11
  <1> QED BY <1>1, <1>2

LEMMA HostStarts ==
    ASSUME NEW fin \in BOOLEAN, NEW clob \in BOOLEAN, NEW copy \in Copies(fin, clob)
    PROVE  Startable(fin, clob, HostRequest(copy))
  <1> DEFINE noted == Write(copy) \o SetHostRefresh
             add == <<Op("addFinish", 0)>>
             added == noted \o add
             asked == Ask(copy, FALSE, FALSE)
  <1>1. /\ Write(copy) \in Seq(Simple(fin, clob)) /\ SetHostRefresh \in Seq(Simple(fin, clob))
        /\ add \in Seq(Simple(fin, clob))
    BY SimpleSteps DEF Write
  <1>2. noted \in Seq(Simple(fin, clob)) /\ added \in Seq(Simple(fin, clob))
    BY <1>1
  <1>3. HostRequest(copy) = added \o (IF copy.enableForm THEN asked ELSE AddFlagByHealthyControl)
    BY DEF HostRequest
  <1>4. CASE copy.enableForm
    <2>1. Startable(fin, clob, asked)
      BY Asked
    <2> HIDE DEF added, asked
    <2>2. HostRequest(copy) = added \o asked
      BY <1>3, <1>4
    <2> QED BY <1>2, <2>1, <2>2, Prepended
  <1>5. CASE ~copy.enableForm
    <2>1. AddFlagByHealthyControl = <<NotesDisabled>>
      BY DEF AddFlagByHealthyControl, PutOff, NotesDisabled
    <2>2. Startable(fin, clob, added \o <<NotesDisabled>>)
      BY <1>2, NotedAfterAdd
    <2> QED BY <1>3, <1>5, <2>1, <2>2
  <1> QED BY <1>4, <1>5 DEF Copies, FormRecord

LEMMA OthersStart ==
    ASSUME NEW fin \in BOOLEAN, NEW clob \in BOOLEAN, NEW copy \in Copies(fin, clob)
    PROVE  /\ Startable(fin, clob, NetworkRequest(copy))
           /\ Startable(fin, clob, ProviderRequest(copy))
           /\ Startable(fin, clob, UpgradeRequest(copy))
           /\ Startable(fin, clob, RefreshForm(copy))
  <1>1. copy.addFormFinish => fin
    BY DEF Copies
  <1>2. /\ Startable(fin, clob, Ask(copy, FALSE, FALSE))
        /\ Startable(fin, clob, NeedThenConnect(FALSE, FALSE))
    BY Asked
  <1>3. Startable(fin, clob, AddFlagByInvisible(TRUE))
    BY Invisible
  <1>4. Startable(fin, clob, NetworkRequest(copy))
    BY <1>1, <1>2, <1>3, Usual DEF NetworkRequest
  <1>5. Startable(fin, clob, ProviderRequest(copy))
    BY <1>1, <1>2, Usual DEF ProviderRequest
  <1>6. Startable(fin, clob, UpgradeRequest(copy))
    BY <1>1, <1>2, Usual DEF UpgradeRequest
  <1>7. Startable(fin, clob, RefreshForm(copy))
    BY <1>1, <1>2, Usual DEF RefreshForm
  <1> QED BY <1>4, <1>5, <1>6, <1>7

LEMMA UncontrolStarts ==
    ASSUME NEW fin \in BOOLEAN, NEW clob \in BOOLEAN, NEW copy \in Copies(fin, clob),
           NEW isTimer \in BOOLEAN
    PROVE  LET s == UncontrolRequest(copy, isTimer)
           IN  Startable(fin, clob, s) /\ (copy.addFormFinish => Resolves(s))
  <1>1. CASE ~copy.addFormFinish
    BY <1>1, Usual DEF UncontrolRequest
  <1>2. CASE copy.addFormFinish /\ ~copy.enableForm
    BY <1>2, Usual DEF UncontrolRequest, Copies
  <1>3. CASE copy.addFormFinish /\ copy.enableForm /\ ~isTimer
    BY <1>3, Asked DEF UncontrolRequest
  <1>4. CASE copy.addFormFinish /\ copy.enableForm /\ isTimer
    <2> DEFINE timer == Set("isTimerRefresh", TRUE)
               late == AddFlagByInvisible(FALSE)
               typed == <<Op("typed", copy)>>
    <2>1. timer \in Seq(Simple(fin, clob)) /\ typed \in Seq(Simple(fin, clob))
      BY SimpleSteps DEF Flags
    <2>2. Startable(fin, clob, late) /\ Resolves(late)
      BY Invisible
    <2>3. Startable(fin, clob, typed) /\ Resolves(typed)
      <3>1. Startable(fin, clob, typed)
        BY <2>1, SimpleStarts
      <3>2. Op("typed", copy).name = "typed"
        BY OpFields
      <3> QED BY <3>1, <3>2 DEF Resolves, Resolving
    <2>4. UncontrolRequest(copy, isTimer) =
            timer \o (IF copy.visibleState # "visible" THEN late ELSE typed)
      BY <1>4 DEF UncontrolRequest
    <2> HIDE DEF timer, late, typed
    <2> DEFINE last == IF copy.visibleState # "visible" THEN late ELSE typed
    <2>5. Startable(fin, clob, last) /\ Resolves(last)
      BY <2>2, <2>3
    <2> HIDE DEF last
    <2>6. Startable(fin, clob, timer \o last) /\ Resolves(timer \o last)
      BY <2>1, <2>5, Prepended
    <2> QED BY <2>4, <2>6 DEF last
  <1> QED BY <1>1, <1>2, <1>3, <1>4 DEF Copies, FormRecord

--------------------------------------------------------------------------------
(* The rest of a script.                                                   *)

\* The first step of what a request starts with, and what it leaves.
LEMMA RestStarts ==
    ASSUME NEW fin \in BOOLEAN, NEW clob \in BOOLEAN, NEW s, Startable(fin, clob, s), s # <<>>
    PROVE  LET h == Head(s)  r == Tail(s) IN
           /\ h \in Fine(fin, clob) /\ h # Counted
           /\ h = NotesDisabled => fin
           /\ h = ForgetsDisabled => clob \/ Resolves(r)
           /\ h.name = "limit" => Startable(fin, clob, r) \/ Asking(r)
           /\ h.name # "limit" /\ (h.name = "addFinish" => fin) => Startable(fin, clob, r)
           /\ h.name \notin Resolving /\ Resolves(s) => Resolves(r)
  <1> DEFINE h == Head(s)
             r == Tail(s)
  <1>1. s \in Seq(Fine(fin, clob))
    BY DEF Startable
  <1>2. /\ h = s[1] /\ h \in Fine(fin, clob) /\ Len(s) \in Nat /\ Len(s) >= 1
        /\ r \in Seq(Fine(fin, clob)) /\ Len(r) = Len(s) - 1
        /\ \A i \in 1 .. Len(r) : r[i] = s[i + 1] /\ i + 1 \in 1 .. Len(s)
    BY <1>1
  <1> HIDE DEF h, r
  <1>3. /\ h # Counted
        /\ h = NotesDisabled => fin
        /\ h = ForgetsDisabled => clob \/ Resolves(r)
    <2>1. /\ s[1] = NotesDisabled => fin \/ \E j \in 1 .. (1 - 1) : s[j].name = "addFinish"
          /\ s[1] = Counted => 1 > 1 /\ s[1 - 1].name = "limit"
          /\ s[1] = ForgetsDisabled => clob \/ \E j \in (1 + 1) .. Len(s) : s[j].name \in Resolving
      BY <1>2 DEF Startable
    <2>2. ASSUME NEW j \in (1 + 1) .. Len(s) PROVE j - 1 \in 1 .. Len(r) /\ r[j - 1] = s[j]
      <3>1. j - 1 \in 1 .. Len(r) /\ (j - 1) + 1 = j
        BY <1>2
      <3> QED BY <1>2, <3>1
    <2> QED BY <1>2, <2>1, <2>2 DEF Resolves
  <1>4. ASSUME NEW i \in 1 .. Len(r), h.name = "addFinish" => fin
        PROVE  /\ r[i] = NotesDisabled => fin \/ \E j \in 1 .. (i - 1) : r[j].name = "addFinish"
               /\ r[i] = Counted => (i > 1 /\ r[i - 1].name = "limit") \/ (i = 1 /\ h.name = "limit")
               /\ r[i] = ForgetsDisabled =>
                     clob \/ \E j \in (i + 1) .. Len(r) : r[j].name \in Resolving
    <2>1. r[i] = s[i + 1] /\ i + 1 \in 1 .. Len(s)
      BY <1>2
    <2>2. r[i] = NotesDisabled => fin \/ \E j \in 1 .. ((i + 1) - 1) : s[j].name = "addFinish"
      BY <2>1 DEF Startable
    <2>3. r[i] = Counted => s[(i + 1) - 1].name = "limit"
      BY <2>1 DEF Startable
    <2>4. r[i] = ForgetsDisabled =>
            clob \/ \E j \in ((i + 1) + 1) .. Len(s) : s[j].name \in Resolving
      BY <2>1 DEF Startable
    <2>5. ASSUME NEW j \in 1 .. ((i + 1) - 1), s[j].name = "addFinish", ~fin
          PROVE  \E k \in 1 .. (i - 1) : r[k].name = "addFinish"
      <3>1. j # 1
        BY <1>2, <1>4, <2>5
      <3>2. j - 1 \in 1 .. (i - 1) /\ j - 1 \in 1 .. Len(r) /\ (j - 1) + 1 = j
        BY <1>2, <3>1
      <3> QED BY <1>2, <2>5, <3>2
    <2>6. i > 1 => r[i - 1] = s[(i + 1) - 1]
      <3>1. i > 1 => i - 1 \in 1 .. Len(r) /\ (i - 1) + 1 = (i + 1) - 1
        BY <1>2
      <3> QED BY <1>2, <3>1
    <2>7. ASSUME NEW j \in ((i + 1) + 1) .. Len(s)
          PROVE  j - 1 \in (i + 1) .. Len(r) /\ r[j - 1] = s[j]
      <3>1. j - 1 \in (i + 1) .. Len(r) /\ j - 1 \in 1 .. Len(r) /\ (j - 1) + 1 = j
        BY <1>2
      <3> QED BY <1>2, <3>1
    <2>8. i = 1 => (i + 1) - 1 = 1
      OBVIOUS
    <2>9. i = 1 \/ i > 1
      BY <1>2
    <2>10. r[i] = Counted => (i > 1 /\ r[i - 1].name = "limit") \/ (i = 1 /\ h.name = "limit")
      BY <1>2, <2>3, <2>6, <2>8, <2>9
    <2> QED BY <2>2, <2>4, <2>5, <2>7, <2>10
  <1>5. ASSUME h.name # "limit", h.name = "addFinish" => fin PROVE Startable(fin, clob, r)
    BY <1>2, <1>4, <1>5 DEF Startable
  <1>6. ASSUME h.name = "limit", ~Asking(r) PROVE Startable(fin, clob, r)
    <2>1. Len(r) >= 1 => r # <<>> /\ Head(r) = r[1]
      BY <1>2
    <2>2. \A i \in 1 .. Len(r) : r[i] = Counted => i > 1 /\ r[i - 1].name = "limit"
      BY <1>2, <1>4, <1>6, <2>1 DEF Asking
    <2> QED BY <1>2, <1>4, <1>6, <2>2 DEF Startable
  <1>7. ASSUME h.name \notin Resolving, Resolves(s) PROVE Resolves(r)
    <2>1. PICK j \in 1 .. Len(s) : s[j].name \in Resolving
      BY <1>7 DEF Resolves
    <2>2. j - 1 \in 1 .. Len(r) /\ (j - 1) + 1 = j
      BY <1>2, <1>7, <2>1
    <2> QED BY <1>2, <2>1, <2>2 DEF Resolves
  <1> QED BY <1>2, <1>3, <1>5, <1>6, <1>7 DEF h, r

LEMMA TokenNames ==
    /\ \A op \in Tokens : op.name \in {"counted", "increase"} /\ op \notin Sets /\ op # Counted
    /\ \A op \in Sets : op.name = "set" /\ op # Counted
    /\ Counted.name = "connect"
  BY OpFields DEF Tokens, Sets, Counted

LEMMA SetsStart ==
    ASSUME NEW fin \in BOOLEAN, NEW clob \in BOOLEAN, NEW s \in Seq(Sets)
    PROVE  Startable(fin, clob, s) /\ ~Counting(s) /\ ~Asking(s)
  <1>1. s \in Seq(Simple(fin, clob))
    BY SeqMonotonic DEF Simple, Plain
  <1>2. \A i \in 1 .. Len(s) : s[i] \in Sets
    OBVIOUS
  <1>3. s # <<>> => Head(s) \in Sets
    OBVIOUS
  <1> QED BY <1>1, <1>2, <1>3, SimpleStarts, TokenNames DEF Counting, Asking

\* What is left to count: the token goes, or a step before it.
LEMMA RestCounts ==
    ASSUME NEW s, Counting(s)
    PROVE  /\ s # <<>> /\ Head(s) \in Sets \cup Tokens
           /\ Head(s) \in Sets => Counting(Tail(s))
           /\ Head(s) \in Tokens => Tail(s) \in Seq(Sets)
           /\ ~Resolves(s) /\ ~Asking(s)
  <1> DEFINE r == Tail(s)
  <1>1. PICK i \in 1 .. Len(s) : s[i] \in Tokens /\ \A j \in (1 .. Len(s)) \ {i} : s[j] \in Sets
    BY DEF Counting
  <1>2. /\ s \in Seq(Sets \cup Tokens) /\ s # <<>> /\ Head(s) = s[1] /\ Len(s) \in Nat /\ Len(s) >= 1
        /\ Head(s) \in Sets \cup Tokens
        /\ r \in Seq(Sets \cup Tokens) /\ Len(r) = Len(s) - 1
        /\ \A k \in 1 .. Len(r) : r[k] = s[k + 1] /\ k + 1 \in 1 .. Len(s)
    BY <1>1 DEF Counting
  <1> HIDE DEF r
  <1>3. ASSUME Head(s) \in Sets PROVE Counting(r)
    <2>1. i # 1
      BY <1>1, <1>2, <1>3, TokenNames
    <2>2. i - 1 \in 1 .. Len(r) /\ (i - 1) + 1 = i
      BY <1>2, <2>1
    <2>3. r[i - 1] \in Tokens
      BY <1>1, <1>2, <2>2
    <2>4. \A k \in (1 .. Len(r)) \ {i - 1} : r[k] \in Sets
      BY <1>1, <1>2
    <2> QED BY <1>2, <2>2, <2>3, <2>4 DEF Counting
  <1>4. ASSUME Head(s) \in Tokens PROVE r \in Seq(Sets)
    <2>1. i = 1
      BY <1>1, <1>2, <1>4, TokenNames
    <2>2. \A k \in 1 .. Len(r) : r[k] \in Sets
      BY <1>1, <1>2, <2>1
    <2> QED BY <1>2, <2>2, SeqDef, ElementOfSeq
  <1>5. ~Resolves(s) /\ ~Asking(s)
    <2>1. \A j \in 1 .. Len(s) : s[j] \in Sets \cup Tokens
      BY <1>2
    <2> QED BY <1>2, <2>1, TokenNames DEF Resolves, Resolving, Asking
  <1> QED BY <1>2, <1>3, <1>4, <1>5 DEF r

\* What the first step of a request tells of the rest.
LEMMA Heads ==
    ASSUME NEW fin \in BOOLEAN, NEW clob \in BOOLEAN, NEW s, Legal(fin, clob, s), s # <<>>
    PROVE  LET h == Head(s) IN
           /\ h.name \in {"putOff", "pushed", "need", "limit", "addFinish", "write", "screen",
                          "typed", "overload", "enqueue"} => Startable(fin, clob, s)
           /\ h.name = "set" => Startable(fin, clob, s) \/ (Counting(s) /\ h \in Sets)
           /\ h.name = "connect" => (Asking(s) /\ h = Counted)
                                      \/ (Startable(fin, clob, s) /\ h \in Connects)
           /\ h.name \in {"counted", "increase"} => Counting(s) /\ h \in Tokens
           /\ h.name \in {"drain", "refreshForm"} => s \in Alone
  <1>1. CASE Startable(fin, clob, s)
    <2>1. Head(s) \in Fine(fin, clob) /\ Head(s) # Counted
      BY <1>1, RestStarts
    <2> QED BY <1>1, <2>1, FineByName
  <1>2. CASE Asking(s)
    BY <1>2, TokenNames DEF Asking
  <1>3. CASE Counting(s)
    BY <1>3, RestCounts, TokenNames
  <1>4. CASE s \in Alone
    BY <1>4, OpFields DEF Alone
  <1> QED BY <1>1, <1>2, <1>3, <1>4 DEF Legal

LEMMA StartsAreNotInFlight ==
    ASSUME NEW fin \in BOOLEAN, NEW clob \in BOOLEAN, NEW s, Startable(fin, clob, s)
    PROVE  ~Asking(s) /\ ~Counting(s)
  <1>1. CASE s = <<>>
    BY <1>1 DEF Asking, Counting
  <1>2. CASE s # <<>>
    <2>1. ~Asking(s)
      BY <1>2, RestStarts DEF Asking
    <2>2. \A i \in 1 .. Len(s) : s[i] \in Fine(fin, clob)
      BY DEF Startable
    <2>3. \A i \in 1 .. Len(s) : s[i] \notin Tokens
      BY <2>2, FineByName, TokenNames
    <2> QED BY <2>1, <2>3 DEF Counting
  <1> QED BY <1>1, <1>2

LEMMA AloneSteps ==
    ASSUME NEW s \in Alone
    PROVE  ~Asking(s) /\ ~Counting(s) /\ ~Resolves(s)
  <1>1. PICK name \in {"drain", "refreshForm"} : s = <<Op(name, 0)>>
    BY DEF Alone
  <1> DEFINE op == Op(name, 0)
  <1>2. op.name \in {"drain", "refreshForm"} /\ s = <<op>>
    BY <1>1, OpFields
  <1> HIDE DEF op
  <1>3. Len(s) = 1 /\ s[1] = op /\ Head(s) = op
    BY <1>2
  <1> QED BY <1>2, <1>3, TokenNames DEF Asking, Counting, Resolves, Resolving

\* The scripts of the calls that count a refresh.
LEMMA CountScripts ==
    /\ \A f \in Flags, b \in BOOLEAN : Set(f, b) \in Seq(Sets)
    /\ \A tok \in Tokens, r \in Seq(Sets) : Counting(<<tok>> \o r)
    /\ \A tok \in Tokens, q \in Seq(Sets), r \in Seq(Sets) : Counting((q \o <<tok>>) \o r)
    /\ \A r \in Seq(Sets) : <<>> \o r \in Seq(Sets)
  <1>1. ASSUME NEW f \in Flags, NEW b \in BOOLEAN PROVE Set(f, b) \in Seq(Sets)
    <2>1. [field |-> f, value |-> b] \in Assignments
      BY DEF Assignments
    <2>2. Op("set", [field |-> f, value |-> b]) \in Sets
      BY <2>1 DEF Sets
    <2> QED BY <2>2 DEF Set
  <1>2. ASSUME NEW tok \in Tokens, NEW r \in Seq(Sets) PROVE Counting(<<tok>> \o r)
    <2> DEFINE v == <<tok>> \o r
    <2>1. /\ tok \in Sets \cup Tokens /\ r \in Seq(Sets \cup Tokens)
          /\ \A j \in 1 .. Len(r) : r[j] \in Sets
      BY SeqMonotonic
    <2>2. /\ v \in Seq(Sets \cup Tokens) /\ Len(v) = Len(r) + 1 /\ v[1] = tok /\ Len(r) \in Nat
          /\ \A j \in 1 .. Len(r) : v[j + 1] = r[j]
      BY <2>1
    <2> HIDE DEF v
    <2>3. ASSUME NEW j \in (1 .. Len(v)) \ {1} PROVE v[j] \in Sets
      <3>1. j - 1 \in 1 .. Len(r) /\ (j - 1) + 1 = j
        BY <2>2
      <3> QED BY <2>1, <2>2, <3>1
    <2>4. 1 \in 1 .. Len(v)
      BY <2>2
    <2> QED BY <2>2, <2>3, <2>4 DEF Counting, v
  <1>3. ASSUME NEW tok \in Tokens, NEW q \in Seq(Sets), NEW r \in Seq(Sets)
        PROVE  Counting((q \o <<tok>>) \o r)
    <2> DEFINE w == q \o <<tok>>
               v == w \o r
    <2>1. /\ tok \in Sets \cup Tokens /\ r \in Seq(Sets \cup Tokens) /\ q \in Seq(Sets \cup Tokens)
          /\ \A j \in 1 .. Len(r) : r[j] \in Sets
          /\ \A j \in 1 .. Len(q) : q[j] \in Sets
      BY SeqMonotonic
    <2>2. /\ w \in Seq(Sets \cup Tokens) /\ Len(w) = Len(q) + 1 /\ w[Len(q) + 1] = tok
          /\ Len(q) \in Nat
          /\ \A j \in 1 .. Len(q) : w[j] = q[j]
      BY <2>1
    <2> HIDE DEF w
    <2>3. /\ v \in Seq(Sets \cup Tokens) /\ Len(v) = Len(w) + Len(r) /\ Len(r) \in Nat
          /\ \A j \in 1 .. Len(w) : v[j] = w[j]
          /\ \A j \in 1 .. Len(r) : v[j + Len(w)] = r[j]
      <3>1. PICK S : S = Sets \cup Tokens
        OBVIOUS
      <3>2. w \in Seq(S) /\ r \in Seq(S)
        BY <2>1, <2>2, <3>1
      <3>3. /\ v \in Seq(S) /\ Len(v) = Len(w) + Len(r) /\ Len(r) \in Nat
            /\ \A j \in 1 .. Len(w) : v[j] = w[j]
            /\ \A j \in 1 .. Len(r) : v[j + Len(w)] = r[j]
        BY <3>2, ConcatProperties
      <3> QED BY <3>1, <3>3
    <2> HIDE DEF v
    <2>4. Len(q) + 1 \in 1 .. Len(v) /\ v[Len(q) + 1] = tok
      BY <2>2, <2>3
    <2>5. ASSUME NEW j \in (1 .. Len(v)) \ {Len(q) + 1} PROVE v[j] \in Sets
      <3>1. CASE j \in 1 .. Len(q)
        BY <2>1, <2>2, <2>3, <3>1
      <3>2. CASE j \notin 1 .. Len(q)
        <4>1. j - Len(w) \in 1 .. Len(r) /\ (j - Len(w)) + Len(w) = j
          BY <2>2, <2>3, <3>2
        <4> QED BY <2>1, <2>3, <4>1
      <3> QED BY <3>1, <3>2
    <2> QED BY <2>3, <2>4, <2>5 DEF Counting, v, w
  <1>4. ASSUME NEW r \in Seq(Sets) PROVE <<>> \o r \in Seq(Sets)
    OBVIOUS
  <1> QED BY <1>1, <1>2, <1>3, <1>4

--------------------------------------------------------------------------------
(* The inductive invariant.                                                *)

Fin == record.addFormFinish \/ clobbered
InFlight(s) == Asking(s) \/ Counting(s)
Flight == {t \in Threads : InFlight(todo[t])}

\* The steps a request has left are right for the form as it is now.
TodoIsLegal == \A t \in Threads : Legal(Fin, clobbered, todo[t])
RecordIsSound == clobbered \/ Sound(record)
AddIsDue == Fin \/ acquireDue
QueuedIsAdded == queued # "none" => Fin

\* The requests that passed the limit, and have not counted, fit under the bound.
RoomToCount == count + Cardinality(Flight) <= LIMIT_COUNT + Cardinality(Threads) - 1

\* While requests are under way one of them may still have to note what is owed.
OwedIsHeld == owed => Remembered \/ clobbered \/ \E t \in Threads : Resolves(todo[t])

IInv == /\ TypeOK /\ TodoIsLegal /\ RecordIsSound /\ AddIsDue /\ QueuedIsAdded
        /\ RoomToCount /\ OwedIsHeld

--------------------------------------------------------------------------------
(* What a step of one request leaves to the others.                        *)

LEMMA FinIsBoolean == TypeOK => Fin \in BOOLEAN /\ clobbered \in BOOLEAN
  BY DEF TypeOK, FormRecord, Fin

LEMMA TodoStaysLegal ==
    ASSUME TypeOK, TypeOK', TodoIsLegal, Fin => Fin', clobbered => clobbered',
           NEW t \in Threads, NEW s, Becomes(t, s), Legal(Fin', clobbered', s)
    PROVE  TodoIsLegal'
  <1>1. Fin \in BOOLEAN /\ clobbered \in BOOLEAN /\ Fin' \in BOOLEAN /\ clobbered' \in BOOLEAN
    BY FinIsBoolean DEF TypeOK, FormRecord, Fin
  <1>2. todo'[t] = s /\ \A u \in Threads : u # t => todo'[u] = todo[u]
    BY DEF TypeOK, Becomes
  <1>3. ASSUME NEW u \in Threads, u # t PROVE Legal(Fin', clobbered', todo[u])
    <2>1. Legal(Fin, clobbered, todo[u])
      BY DEF TodoIsLegal
    <2> QED BY <1>1, <2>1, LegalGrows
  <1> QED BY <1>2, <1>3 DEF TodoIsLegal

LEMMA RoomStays ==
    ASSUME TypeOK, RoomToCount, NEW t \in Threads, NEW s, Becomes(t, s),
           InFlight(s) => InFlight(todo[t]), count' = count
    PROVE  RoomToCount'
  <1>1. todo'[t] = s /\ \A u \in Threads : u # t => todo'[u] = todo[u]
    BY DEF TypeOK, Becomes
  <1>2. Flight' \subseteq Flight
    BY <1>1 DEF Flight, InFlight
  <1>3. IsFiniteSet(Flight)
    BY RefreshAssumption, FS_Subset DEF Flight
  <1>4. Cardinality(Flight') <= Cardinality(Flight) /\ Cardinality(Flight) \in Nat
        /\ Cardinality(Flight') \in Nat
    BY <1>2, <1>3, FS_Subset, FS_CardinalityType
  <1>5. Cardinality(Threads) \in Nat /\ LIMIT_COUNT \in Nat /\ count \in Nat
    BY RefreshAssumption, FS_CardinalityType DEF TypeOK
  <1> QED BY <1>4, <1>5 DEF RoomToCount

LEMMA OwedStaysHeld ==
    ASSUME TypeOK, OwedIsHeld, NEW t \in Threads, NEW s, Becomes(t, s), owed' => owed,
           Resolves(todo[t]) => Resolves(s), clobbered => clobbered',
           Remembered => Remembered' \/ clobbered' \/ Resolves(s)
    PROVE  OwedIsHeld'
  <1>1. todo'[t] = s /\ \A u \in Threads : u # t => todo'[u] = todo[u]
    BY DEF TypeOK, Becomes
  <1> QED BY <1>1 DEF OwedIsHeld

--------------------------------------------------------------------------------
(* Requests and events.                                                    *)

LEMMA InitHolds == Init => IInv
  <1> SUFFICES ASSUME Init PROVE IInv
    OBVIOUS
  <1>1. TypeOK
    <2>1. record \in FormRecord
      BY DEF Init, FormRecord, VisibleStates
    <2>2. acquireDue \in BOOLEAN
      BY <2>1 DEF Init, FormRecord
    <2>3. DOMAIN todo = Threads /\ count \in Nat
      BY DEF Init
    <2>4. events \in 0 .. MaxEvents
      BY RefreshAssumption DEF Init
    <2> QED BY <2>1, <2>2, <2>3, <2>4 DEF Init, TypeOK
  <1>2. Fin \in BOOLEAN /\ clobbered \in BOOLEAN
    BY <1>1, FinIsBoolean
  <1>3. \A t \in Threads : todo[t] = <<>>
    BY DEF Init
  <1>4. TodoIsLegal
    BY <1>2, <1>3, Usual DEF TodoIsLegal, Legal
  <1>5. RoomToCount
    <2>1. Flight = {}
      BY <1>3 DEF Flight, InFlight, Asking, Counting
    <2>2. Cardinality(Flight) = 0
      BY <2>1, FS_EmptySet
    <2>3. Cardinality(Threads) \in Nat /\ Cardinality(Threads) # 0
      BY RefreshAssumption, FS_CardinalityType, FS_EmptySet
    <2> QED BY <2>2, <2>3, RefreshAssumption DEF Init, RoomToCount
  <1> QED BY <1>1, <1>4, <1>5 DEF Init, IInv, RecordIsSound, Sound, AddIsDue, Fin, QueuedIsAdded,
                                  OwedIsHeld

LEMMA CopyOfRecord == IInv => record \in Copies(Fin, clobbered)
  BY DEF IInv, TypeOK, Copies, Fin, RecordIsSound

LEMMA IdleSteps ==
    ASSUME IInv, NEW t \in Threads, Idle(t)
    PROVE  ~InFlight(todo[t]) /\ ~Resolves(todo[t])
  BY DEF Idle, InFlight, Asking, Counting, Resolves

\* A request that starts changes nothing yet but its own steps.
LEMMA RequestKeeps ==
    ASSUME IInv, NEW t \in Threads, NEW s, Start(t, s),
           Startable(Fin, clobbered, s) \/ s \in Alone,
           overload' \in BOOLEAN, hostOn' \in BOOLEAN,
           UNCHANGED <<record, queued, screenOn, acquireDue, connecting, count, owed, clobbered>>
    PROVE  IInv'
  <1>1. Becomes(t, s) /\ Idle(t)
    BY DEF Start, Becomes
  <1>2. TypeOK'
    BY RefreshAssumption DEF IInv, TypeOK, Start, Event
  <1>3. Fin' = Fin /\ clobbered' = clobbered /\ Fin \in BOOLEAN /\ clobbered \in BOOLEAN
    BY FinIsBoolean DEF IInv, Fin
  <1>4. Legal(Fin', clobbered', s) /\ ~InFlight(s)
    BY <1>3, StartsAreNotInFlight, AloneSteps DEF Legal, InFlight
  <1>5. TodoIsLegal'
    BY <1>1, <1>2, <1>3, <1>4, TodoStaysLegal DEF IInv
  <1>6. RoomToCount'
    BY <1>1, <1>4, RoomStays DEF IInv
  <1>7. OwedIsHeld'
    <2>1. Remembered' = Remembered
      BY DEF Remembered
    <2> QED BY <1>1, <2>1, IdleSteps, OwedStaysHeld DEF IInv
  <1> QED BY <1>2, <1>3, <1>5, <1>6, <1>7 DEF IInv, RecordIsSound, AddIsDue, QueuedIsAdded

LEMMA RequestsKeep ==
    ASSUME IInv, NEW t \in Threads, NEW s, Request(t, s), Startable(Fin, clobbered, s)
    PROVE  IInv'
  <1>1. overload' \in BOOLEAN /\ hostOn' \in BOOLEAN
    BY DEF IInv, TypeOK, Request, env
  <1> QED BY <1>1, RequestKeeps DEF Request, env

LEMMA CopiesSeen ==
    ASSUME NEW fin \in BOOLEAN, NEW clob \in BOOLEAN, NEW r \in Copies(fin, clob)
    PROVE  /\ [r EXCEPT !.visibleState = "visible"] \in Copies(fin, clob)
           /\ \A enable \in BOOLEAN : [r EXCEPT !.enableForm = enable] \in Copies(fin, clob)
  BY DEF Copies, FormRecord, VisibleStates, Sound

LEMMA VisibleStarts ==
    ASSUME IInv, NEW t \in Threads, NotifyVisible(t)
    PROVE  IInv'
  <1> DEFINE copy == [record EXCEPT !.visibleState = "visible"]
             shown == Set("visibleState", "visible")
             asked == IF copy.needRefresh /\ (copy.isTimerRefresh \/ copy.isHostRefresh)
                      THEN UncontrolRequest(copy, copy.isTimerRefresh) ELSE <<>>
  <1>1. Fin \in BOOLEAN /\ clobbered \in BOOLEAN
    BY FinIsBoolean DEF IInv
  <1>2. copy \in Copies(Fin, clobbered) /\ copy.isTimerRefresh \in BOOLEAN
    <2>1. copy \in Copies(Fin, clobbered)
      BY <1>1, CopyOfRecord, CopiesSeen
    <2> QED BY <2>1 DEF Copies, FormRecord
  <1>3. shown \in Seq(Simple(Fin, clobbered))
    BY <1>1, SimpleSteps DEF VisibleStates
  <1>4. Request(t, shown \o asked)
    BY DEF NotifyVisible
  <1> HIDE DEF copy, shown
  <1>5. Startable(Fin, clobbered, asked)
    BY <1>1, <1>2, UncontrolStarts, Usual
  <1> HIDE DEF asked
  <1>6. Startable(Fin, clobbered, shown \o asked)
    BY <1>1, <1>3, <1>5, Prepended
  <1> QED BY <1>4, <1>6, RequestsKeep

LEMMA EnableStarts ==
    ASSUME IInv, NEW t \in Threads, NEW enable \in BOOLEAN, EnableForms(t, enable)
    PROVE  IInv'
  <1> DEFINE copy == [record EXCEPT !.enableForm = enable]
             shown == Set("enableForm", enable)
             again == UncontrolRequest(copy, FALSE)
  <1>1. Fin \in BOOLEAN /\ clobbered \in BOOLEAN
    BY FinIsBoolean DEF IInv
  <1>2. copy \in Copies(Fin, clobbered)
    BY <1>1, CopyOfRecord, CopiesSeen
  <1>3. shown \in Seq(Simple(Fin, clobbered))
    BY <1>1, SimpleSteps DEF Flags
  <1>4. Set("refreshDuringDisable", FALSE) = <<ForgetsDisabled>>
    BY DEF Set, ForgetsDisabled
  <1>5. Request(t, IF record.enableForm = enable THEN <<>> ELSE
                   shown \o (IF enable /\ copy.refreshDuringDisable
                             THEN <<ForgetsDisabled>> \o again ELSE <<>>))
    BY <1>4 DEF EnableForms
  <1> HIDE DEF copy, shown
  <1>6. Startable(Fin, clobbered, again) /\ (copy.addFormFinish => Resolves(again))
    BY <1>1, <1>2, UncontrolStarts
  <1> HIDE DEF again
  <1> DEFINE asked == <<ForgetsDisabled>> \o again
             last == IF enable /\ copy.refreshDuringDisable THEN asked ELSE <<>>
  <1>7. copy.refreshDuringDisable => Startable(Fin, clobbered, asked)
    <2>1. copy.refreshDuringDisable => clobbered \/ Resolves(again)
      BY <1>2, <1>6 DEF Copies, Sound
    <2> QED BY <1>1, <1>6, <2>1, ForgottenAgain
  <1> HIDE DEF asked
  <1>8. Startable(Fin, clobbered, last)
    BY <1>1, <1>7, Usual
  <1>9. Request(t, IF record.enableForm = enable THEN <<>> ELSE shown \o last)
    BY <1>5 DEF asked
  <1> HIDE DEF last
  <1>10. Startable(Fin, clobbered, shown \o last) /\ Startable(Fin, clobbered, <<>>)
    BY <1>1, <1>3, <1>8, Prepended, Usual
  <1>11. CASE record.enableForm = enable
    BY <1>9, <1>10, <1>11, RequestsKeep
  <1>12. CASE record.enableForm # enable
    BY <1>9, <1>10, <1>12, RequestsKeep
  <1> QED BY <1>11, <1>12

LEMMA RenderingStarts ==
    ASSUME IInv, NEW t \in Threads, UpdateRenderingForm(t)
    PROVE  IInv'
  <1> DEFINE pushed == IF record.isTimerRefresh THEN <<>> ELSE Pushed
             written == IF record.enableForm THEN <<>> ELSE Write(record)
  <1>1. Fin \in BOOLEAN /\ clobbered \in BOOLEAN /\ record \in Copies(Fin, clobbered)
    BY FinIsBoolean, CopyOfRecord DEF IInv
  <1>2. Pushed \in Seq(Simple(Fin, clobbered)) /\ Write(record) \in Seq(Simple(Fin, clobbered))
    BY <1>1, SimpleSteps DEF Pushed, Write
  <1>3. pushed \in Seq(Simple(Fin, clobbered)) /\ written \in Seq(Simple(Fin, clobbered))
    BY <1>1, <1>2, Usual
  <1>4. Request(t, pushed \o written)
    BY DEF UpdateRenderingForm
  <1> HIDE DEF pushed, written
  <1>5. Startable(Fin, clobbered, pushed \o written)
    <2>1. pushed \o written \in Seq(Simple(Fin, clobbered))
      BY <1>3
    <2> QED BY <1>1, <2>1, SimpleStarts
  <1> QED BY <1>4, <1>5, RequestsKeep

\* The form is added: a wait for it is over, and what waited is asked for.
LEMMA AcquireKeeps ==
    ASSUME IInv, NEW t \in Threads, OnAcquire(t)
    PROVE  IInv'
  <1> DEFINE added == [record EXCEPT !.addFormFinish = TRUE, !.needUpdateOnAddFinish = FALSE]
  <1>1. PICK a : a = added
    OBVIOUS
  <1> DEFINE s == IF ~record.addFormFinish /\ record.needUpdateOnAddFinish
                  THEN UncontrolRequest(a, FALSE) ELSE <<>>
  <1>2. /\ record' = a /\ Start(t, s) /\ acquireDue' = FALSE
        /\ UNCHANGED <<queued, overload, screenOn, hostOn, connecting, count, owed, clobbered>>
    BY <1>1 DEF OnAcquire
  <1>3. a \in FormRecord /\ a.addFormFinish /\ ~a.needUpdateOnAddFinish
        /\ a.needRefresh = record.needRefresh
        /\ a.refreshDuringDisable = record.refreshDuringDisable
    BY <1>1 DEF IInv, TypeOK, FormRecord
  <1>4. TypeOK'
    <2>1. events' \in 0 .. MaxEvents
      BY <1>2, RefreshAssumption DEF IInv, TypeOK, Start, Event
    <2>2. DOMAIN todo' = Threads
      BY <1>2 DEF IInv, TypeOK, Start
    <2> HIDE DEF s
    <2> QED BY <1>2, <1>3, <2>1, <2>2 DEF IInv, TypeOK
  <1>5. Fin' = TRUE /\ clobbered' = clobbered /\ clobbered \in BOOLEAN
    BY <1>2, <1>3 DEF IInv, TypeOK, Fin
  <1>6. a \in Copies(TRUE, clobbered)
    BY <1>3 DEF Copies, Sound
  <1>7. Startable(TRUE, clobbered, UncontrolRequest(a, FALSE)) /\ Resolves(UncontrolRequest(a, FALSE))
    BY <1>3, <1>5, <1>6, UncontrolStarts
  <1>8. Startable(TRUE, clobbered, s)
    BY <1>5, <1>7, Usual
  <1>9. record.needUpdateOnAddFinish => clobbered \/ Resolves(s)
    BY <1>7 DEF IInv, RecordIsSound, Sound
  <1> HIDE DEF s
  <1>10. Becomes(t, s) /\ Idle(t)
    BY <1>2 DEF Start, Becomes
  <1>11. Legal(Fin', clobbered', s) /\ ~InFlight(s)
    BY <1>5, <1>8, StartsAreNotInFlight DEF Legal, InFlight
  <1>12. TodoIsLegal'
    BY <1>4, <1>5, <1>10, <1>11, TodoStaysLegal DEF IInv
  <1>13. RoomToCount'
    BY <1>2, <1>10, <1>11, RoomStays DEF IInv
  <1>14. OwedIsHeld'
    <2>1. Remembered => Remembered' \/ clobbered' \/ Resolves(s)
      BY <1>2, <1>3, <1>9 DEF Remembered
    <2> QED BY <1>2, <1>10, <2>1, IdleSteps, OwedStaysHeld DEF IInv
  <1> QED BY <1>2, <1>3, <1>4, <1>5, <1>12, <1>13, <1>14
          DEF IInv, RecordIsSound, Sound, AddIsDue, QueuedIsAdded

LEMMA StartsKeep ==
    ASSUME IInv, NEW t \in Threads, Starts(t)
    PROVE  IInv'
  <1>1. Fin \in BOOLEAN /\ clobbered \in BOOLEAN /\ record \in Copies(Fin, clobbered)
        /\ record.isTimerRefresh \in BOOLEAN
    BY FinIsBoolean, CopyOfRecord DEF IInv, TypeOK, FormRecord
  <1>2. CASE TimerFires(t)
    <2>1. PICK kind \in TimerKinds : Request(t, TimerRequest(record, kind))
      BY <1>2 DEF TimerFires
    <2>2. Startable(Fin, clobbered, TimerRequest(record, kind))
      BY <1>1, TimerStarts
    <2> QED BY <2>1, <2>2, RequestsKeep
  <1>3. CASE HostAsks(t)
    BY <1>1, <1>3, HostStarts, RequestsKeep DEF HostAsks
  <1>4. CASE NetworkReturns(t)
    BY <1>1, <1>4, OthersStart, RequestsKeep DEF NetworkReturns
  <1>5. CASE ProviderAsks(t)
    BY <1>1, <1>5, OthersStart, RequestsKeep DEF ProviderAsks
  <1>6. CASE AppUpgraded(t)
    BY <1>1, <1>6, OthersStart, RequestsKeep DEF AppUpgraded
  <1>7. CASE ForceRefresh(t)
    BY <1>1, <1>7, Connected, RequestsKeep DEF ForceRefresh
  <1>8. CASE NotifyVisible(t)
    BY <1>8, VisibleStarts
  <1>9. CASE NotifyInvisible(t)
    <2>1. Set("visibleState", "invisible") \in Seq(Simple(Fin, clobbered))
      BY <1>1, SimpleSteps DEF VisibleStates
    <2>2. Startable(Fin, clobbered, Set("visibleState", "invisible"))
      BY <1>1, <2>1, SimpleStarts
    <2> QED BY <1>9, <2>2, RequestsKeep DEF NotifyInvisible
  <1>10. CASE \E enable \in BOOLEAN : EnableForms(t, enable)
    BY <1>10, EnableStarts
  <1>11. CASE ScreenUnlocked(t)
    <2> DEFINE s == IF record.needRefresh /\ record.visibleState # "invisible"
                    THEN UncontrolRequest(record, record.isTimerRefresh) ELSE <<>>
    <2>1. Startable(Fin, clobbered, s)
      BY <1>1, UncontrolStarts, Usual
    <2>2. Request(t, s)
      BY <1>11 DEF ScreenUnlocked
    <2> HIDE DEF s
    <2> QED BY <2>1, <2>2, RequestsKeep
  <1>12. CASE RewriteRecord(t)
    <2>1. Write(record) \in Seq(Simple(Fin, clobbered))
      BY <1>1, SimpleSteps DEF Write
    <2>2. Startable(Fin, clobbered, Write(record))
      BY <1>1, <2>1, SimpleStarts
    <2> QED BY <1>12, <2>2, RequestsKeep DEF RewriteRecord
  <1>13. CASE UpdateForm(t)
    <2>1. Pushed \in Seq(Simple(Fin, clobbered))
      BY <1>1, SimpleSteps DEF Pushed
    <2>2. Startable(Fin, clobbered, Pushed)
      BY <1>1, <2>1, SimpleStarts
    <2> QED BY <1>13, <2>2, RequestsKeep DEF UpdateForm
  <1>14. CASE UpdateRenderingForm(t)
    BY <1>14, RenderingStarts
  <1>15. CASE LoadFalls(t)
    <2>1. <<Op("drain", 0)>> \in Alone
      BY DEF Alone
    <2>2. Start(t, <<Op("drain", 0)>>) /\ overload' = FALSE /\ hostOn' \in BOOLEAN
          /\ UNCHANGED <<record, queued, screenOn, acquireDue, connecting, count, owed, clobbered>>
      BY <1>15 DEF LoadFalls, IInv, TypeOK
    <2> QED BY <2>1, <2>2, RequestKeeps
  <1>16. CASE HostEnables(t)
    <2> DEFINE s == IF record.needRefresh THEN <<Op("refreshForm", 0)>> ELSE <<>>
    <2>1. Startable(Fin, clobbered, s) \/ s \in Alone
      BY <1>1, Usual DEF Alone
    <2>2. Start(t, s) /\ overload' \in BOOLEAN /\ hostOn' = TRUE
          /\ UNCHANGED <<record, queued, screenOn, acquireDue, connecting, count, owed, clobbered>>
      BY <1>16 DEF HostEnables, IInv, TypeOK
    <2> HIDE DEF s
    <2> QED BY <2>1, <2>2, RequestKeeps
  <1>17. CASE OnAcquire(t)
    BY <1>17, AcquireKeeps
  <1> QED BY <1>2, <1>3, <1>4, <1>5, <1>6, <1>7, <1>8, <1>9, <1>10, <1>11, <1>12, <1>13, <1>14,
             <1>15, <1>16, <1>17 DEF Starts

--------------------------------------------------------------------------------
(* Steps of a request under way.                                           *)

LEMMA TodoKeepsThreads ==
    ASSUME TypeOK, NEW t \in Threads, NEW s, Becomes(t, s)
    PROVE  DOMAIN todo' = Threads
  BY DEF TypeOK, Becomes

\* A step that leaves the record and the queue alone.
LEMMA QuietStep ==
    ASSUME IInv, NEW t \in Threads, NEW s, Becomes(t, s),
           UNCHANGED <<record, queued, env, count, events, clobbered>>, connecting' \in BOOLEAN,
           owed' = FALSE \/ (owed' = owed /\ (Resolves(todo[t]) => Resolves(s))),
           Legal(Fin, clobbered, s), InFlight(s) => InFlight(todo[t])
    PROVE  IInv'
  <1>1. TypeOK'
    <2>1. owed' \in BOOLEAN
      BY DEF IInv, TypeOK
    <2> QED BY <2>1, TodoKeepsThreads DEF IInv, TypeOK, env
  <1>2. Fin' = Fin /\ clobbered' = clobbered
    BY DEF Fin
  <1>3. TodoIsLegal'
    BY <1>1, <1>2, TodoStaysLegal DEF IInv
  <1>4. RoomToCount'
    BY RoomStays DEF IInv
  <1>5. OwedIsHeld'
    <2>1. Remembered' = Remembered
      BY DEF Remembered
    <2>2. CASE owed' = FALSE
      BY <2>2 DEF OwedIsHeld
    <2>3. CASE owed' = owed /\ (Resolves(todo[t]) => Resolves(s))
      BY <2>1, <2>3, OwedStaysHeld DEF IInv
    <2> QED BY <2>2, <2>3
  <1> QED BY <1>1, <1>2, <1>3, <1>4, <1>5
          DEF IInv, RecordIsSound, AddIsDue, QueuedIsAdded, env

\* A step that changes the record.
LEMMA RecordStep ==
    ASSUME IInv, NEW t \in Threads, NEW s, Becomes(t, s),
           UNCHANGED <<queued, env, connecting, count, events>>,
           record' \in FormRecord, owed' \in BOOLEAN, clobbered' \in BOOLEAN,
           clobbered => clobbered', record.addFormFinish => record'.addFormFinish \/ clobbered',
           clobbered' \/ Sound(record'),
           Legal(Fin', clobbered', s), InFlight(s) => InFlight(todo[t]), OwedIsHeld'
    PROVE  IInv'
  <1>1. TypeOK'
    BY TodoKeepsThreads DEF IInv, TypeOK, env
  <1>2. Fin => Fin'
    BY DEF Fin
  <1>3. TodoIsLegal'
    BY <1>1, <1>2, TodoStaysLegal DEF IInv
  <1>4. RoomToCount'
    BY RoomStays DEF IInv
  <1>5. RecordIsSound'
    BY DEF RecordIsSound
  <1> QED BY <1>1, <1>2, <1>3, <1>4, <1>5 DEF IInv, AddIsDue, QueuedIsAdded, env

LEMMA AssignedRecord ==
    ASSUME NEW r \in FormRecord, NEW a \in Assignments
    PROVE  LET q == [r EXCEPT ![a.field] = a.value] IN
           /\ q \in FormRecord
           /\ q.addFormFinish = r.addFormFinish /\ q.needRefresh = r.needRefresh
           /\ q.needUpdateOnAddFinish = r.needUpdateOnAddFinish
           /\ q.refreshDuringDisable = r.refreshDuringDisable
  <1>1. PICK f, v : f = a.field /\ v = a.value
    OBVIOUS
  <1>2. CASE f \in Flags /\ v \in BOOLEAN
    <2> DEFINE q == [r EXCEPT ![f] = v]
    <2>1. q \in FormRecord
      BY <1>2 DEF FormRecord, Flags
    <2>2. /\ q.addFormFinish = r.addFormFinish /\ q.needRefresh = r.needRefresh
          /\ q.needUpdateOnAddFinish = r.needUpdateOnAddFinish
          /\ q.refreshDuringDisable = r.refreshDuringDisable
      BY <1>2 DEF FormRecord, Flags
    <2> QED BY <1>1, <2>1, <2>2
  <1>3. CASE f = "visibleState" /\ v \in VisibleStates
    <2> DEFINE q == [r EXCEPT ![f] = v]
    <2>1. q \in FormRecord
      BY <1>3 DEF FormRecord
    <2>2. /\ q.addFormFinish = r.addFormFinish /\ q.needRefresh = r.needRefresh
          /\ q.needUpdateOnAddFinish = r.needUpdateOnAddFinish
          /\ q.refreshDuringDisable = r.refreshDuringDisable
      BY <1>3 DEF FormRecord
    <2> QED BY <1>1, <2>1, <2>2
  <1> QED BY <1>1, <1>2, <1>3 DEF Assignments

LEMMA SetRecordKeeps ==
    ASSUME IInv, NEW t \in Threads, SetRecord(t)
    PROVE  IInv'
  <1>1. PICK h, s, r : h = Head(todo[t]) /\ s = Tail(todo[t]) /\ r = record
    OBVIOUS
  <1>2. /\ todo[t] # <<>> /\ h.name = "set" /\ Becomes(t, s)
        /\ record' = [r EXCEPT ![h.arg.field] = h.arg.value]
        /\ UNCHANGED <<queued, env, connecting, count, events, owed, clobbered>>
    BY <1>1 DEF SetRecord, Doing, Advance, Arg
  <1>3. Fin \in BOOLEAN /\ clobbered \in BOOLEAN /\ r \in FormRecord
    BY <1>1, FinIsBoolean DEF IInv, TypeOK
  <1>4. Legal(Fin, clobbered, todo[t])
    BY DEF IInv, TodoIsLegal
  <1>5. \/ Startable(Fin, clobbered, todo[t]) /\ (h \in Sets \/ h = ForgetsDisabled)
        \/ Counting(todo[t]) /\ h \in Sets
    <2>1. Startable(Fin, clobbered, todo[t]) \/ (Counting(todo[t]) /\ h \in Sets)
      BY <1>1, <1>2, <1>3, <1>4, Heads
    <2>2. Startable(Fin, clobbered, todo[t]) => h \in Fine(Fin, clobbered)
      BY <1>1, <1>2, <1>3, RestStarts
    <2> QED BY <1>2, <1>3, <2>1, <2>2, FineByName
  <1>6. /\ Legal(Fin, clobbered, s) /\ (InFlight(s) => InFlight(todo[t]))
        /\ Resolves(todo[t]) => Resolves(s)
        /\ h = ForgetsDisabled => h \in Sets \/ clobbered \/ Resolves(s)
    <2>1. CASE Startable(Fin, clobbered, todo[t])
      <3>1. /\ Startable(Fin, clobbered, s) /\ (Resolves(todo[t]) => Resolves(s))
            /\ h = ForgetsDisabled => clobbered \/ Resolves(s)
        BY <1>1, <1>2, <1>3, <2>1, RestStarts DEF Resolving
      <3> QED BY <1>3, <3>1, StartsAreNotInFlight DEF Legal, InFlight
    <2>2. CASE Counting(todo[t]) /\ h \in Sets
      <3>1. Counting(s) /\ ~Resolves(todo[t])
        BY <1>1, <2>2, RestCounts
      <3> QED BY <2>2, <3>1 DEF Legal, InFlight
    <2> QED BY <1>5, <2>1, <2>2
  <1>7. CASE h \in Sets
    <2>1. h.arg \in Assignments
      BY <1>7, OpFields DEF Sets
    <2>2. /\ record' \in FormRecord
          /\ record'.addFormFinish = r.addFormFinish /\ record'.needRefresh = r.needRefresh
          /\ record'.needUpdateOnAddFinish = r.needUpdateOnAddFinish
          /\ record'.refreshDuringDisable = r.refreshDuringDisable
      BY <1>2, <1>3, <2>1, AssignedRecord
    <2>3. OwedIsHeld'
      <3>1. Remembered' = Remembered
        BY <1>1, <1>2, <2>2 DEF Remembered
      <3> QED BY <1>2, <1>6, <3>1, OwedStaysHeld DEF IInv
    <2>4. Fin' = Fin
      BY <1>1, <1>2, <2>2 DEF Fin
    <2>5. clobbered' \/ Sound(record')
      BY <1>1, <1>2, <2>2 DEF IInv, RecordIsSound, Sound
    <2>6. /\ owed' \in BOOLEAN /\ clobbered' \in BOOLEAN /\ (clobbered => clobbered')
          /\ record.addFormFinish => record'.addFormFinish \/ clobbered'
      BY <1>1, <1>2, <2>2 DEF IInv, TypeOK
    <2>7. Legal(Fin', clobbered', s)
      BY <1>2, <1>6, <2>4
    <2> QED BY <1>2, <1>6, <2>2, <2>3, <2>5, <2>6, <2>7, RecordStep
  <1>8. CASE h \notin Sets
    <2>1. h = ForgetsDisabled /\ h.arg.field = "refreshDuringDisable" /\ h.arg.value = FALSE
      BY <1>5, <1>8, OpFields DEF ForgetsDisabled
    <2>2. record' = [r EXCEPT !.refreshDuringDisable = FALSE]
      BY <1>2, <2>1
    <2>3. /\ record' \in FormRecord
          /\ record'.addFormFinish = r.addFormFinish /\ record'.needRefresh = r.needRefresh
          /\ record'.needUpdateOnAddFinish = r.needUpdateOnAddFinish
          /\ ~record'.refreshDuringDisable
      BY <1>3, <2>2 DEF FormRecord
    <2>4. OwedIsHeld'
      BY <1>2, <1>6, <1>8, <2>1, OwedStaysHeld DEF IInv
    <2>5. Fin' = Fin
      BY <1>1, <1>2, <2>3 DEF Fin
    <2>6. clobbered' \/ Sound(record')
      BY <1>1, <1>2, <2>3 DEF IInv, RecordIsSound, Sound
    <2>7. /\ owed' \in BOOLEAN /\ clobbered' \in BOOLEAN /\ (clobbered => clobbered')
          /\ record.addFormFinish => record'.addFormFinish \/ clobbered'
      BY <1>1, <1>2, <2>3 DEF IInv, TypeOK
    <2>8. Legal(Fin', clobbered', s)
      BY <1>2, <1>6, <2>5
    <2> QED BY <1>2, <1>6, <2>3, <2>4, <2>6, <2>7, <2>8, RecordStep
  <1> QED BY <1>7, <1>8

\* The rest of a request whose first step is neither a set nor part of counting.
LEMMA PlainRest ==
    ASSUME IInv, NEW t \in Threads, todo[t] # <<>>, NEW h, h = Head(todo[t]),
           NEW s, s = Tail(todo[t]),
           h.name \in {"putOff", "pushed", "need", "limit", "addFinish", "write", "screen",
                       "typed", "overload", "enqueue"}
    PROVE  /\ Startable(Fin, clobbered, todo[t]) /\ h \in Fine(Fin, clobbered)
           /\ h = NotesDisabled => Fin
           /\ h.name \notin Resolving => (Resolves(todo[t]) => Resolves(s))
           /\ h.name # "limit" /\ (h.name = "addFinish" => Fin) =>
                Startable(Fin, clobbered, s) /\ ~InFlight(s)
           /\ h.name = "limit" => Legal(Fin, clobbered, s)
  <1>1. Fin \in BOOLEAN /\ clobbered \in BOOLEAN
    BY FinIsBoolean DEF IInv
  <1>2. Startable(Fin, clobbered, todo[t])
    BY <1>1, Heads DEF IInv, TodoIsLegal
  <1>3. /\ h \in Fine(Fin, clobbered) /\ (h = NotesDisabled => Fin)
        /\ h.name \notin Resolving => (Resolves(todo[t]) => Resolves(s))
        /\ h.name # "limit" /\ (h.name = "addFinish" => Fin) => Startable(Fin, clobbered, s)
        /\ h.name = "limit" => Startable(Fin, clobbered, s) \/ Asking(s)
    BY <1>1, <1>2, RestStarts
  <1>4. Startable(Fin, clobbered, s) => ~InFlight(s)
    BY <1>1, StartsAreNotInFlight DEF InFlight
  <1> QED BY <1>2, <1>3, <1>4 DEF Legal

LEMMA PutOffKeeps ==
    ASSUME IInv, NEW t \in Threads, PutOffRequest(t)
    PROVE  IInv'
  <1>1. PICK h, s, r : h = Head(todo[t]) /\ s = Tail(todo[t]) /\ r = record
    OBVIOUS
  <1>2. /\ todo[t] # <<>> /\ h.name = "putOff" /\ Becomes(t, s)
        /\ record' = [r EXCEPT ![h.arg] = TRUE] /\ owed' = TRUE
        /\ UNCHANGED <<queued, env, connecting, count, events, clobbered>>
    BY <1>1 DEF PutOffRequest, Doing, Advance, Arg
  <1>3. Fin \in BOOLEAN /\ clobbered \in BOOLEAN /\ r \in FormRecord
    BY <1>1, FinIsBoolean DEF IInv, TypeOK
  <1>4. /\ h \in Fine(Fin, clobbered) /\ (h = NotesDisabled => Fin)
        /\ Startable(Fin, clobbered, s) /\ ~InFlight(s)
    BY <1>1, <1>2, PlainRest
  <1>5. h.arg = "needRefresh" \/ (h.arg = "refreshDuringDisable" /\ Fin)
    BY <1>2, <1>3, <1>4, FineByName, OpFields DEF NotesNeed, NotesDisabled
  <1>6. /\ record' \in FormRecord /\ record'.addFormFinish = r.addFormFinish
        /\ record'.needUpdateOnAddFinish = r.needUpdateOnAddFinish
        /\ record'.needRefresh \/ record'.refreshDuringDisable
        /\ record'.refreshDuringDisable => r.refreshDuringDisable \/ Fin
    <2>1. CASE h.arg = "needRefresh"
      BY <1>2, <1>3, <2>1 DEF FormRecord
    <2>2. CASE h.arg = "refreshDuringDisable" /\ Fin
      BY <1>2, <1>3, <2>2 DEF FormRecord
    <2> QED BY <1>5, <2>1, <2>2
  <1>7. OwedIsHeld'
    BY <1>6 DEF OwedIsHeld, Remembered
  <1>8. Fin' = Fin
    BY <1>1, <1>2, <1>6 DEF Fin
  <1>9. clobbered' \/ Sound(record')
    BY <1>1, <1>2, <1>6 DEF IInv, RecordIsSound, Sound, Fin
  <1>10. /\ owed' \in BOOLEAN /\ clobbered' \in BOOLEAN /\ (clobbered => clobbered')
         /\ record.addFormFinish => record'.addFormFinish \/ clobbered'
    BY <1>1, <1>2, <1>3, <1>6
  <1>11. Legal(Fin', clobbered', s)
    BY <1>2, <1>4, <1>8 DEF Legal
  <1> QED BY <1>2, <1>4, <1>6, <1>7, <1>9, <1>10, <1>11, RecordStep

LEMMA WriteKeeps ==
    ASSUME IInv, NEW t \in Threads, UpdateFormRecord(t)
    PROVE  IInv'
  <1>1. PICK h, s, r : h = Head(todo[t]) /\ s = Tail(todo[t]) /\ r = record
    OBVIOUS
  <1>2. /\ todo[t] # <<>> /\ h.name = "write" /\ Becomes(t, s)
        /\ record' = h.arg
        /\ clobbered' = (clobbered \/ \E f \in Remembering : r[f] /\ ~record'[f])
        /\ UNCHANGED <<queued, env, connecting, count, events, owed>>
    BY <1>1 DEF UpdateFormRecord, Doing, Advance, Arg
  <1>3. Fin \in BOOLEAN /\ clobbered \in BOOLEAN /\ r \in FormRecord
    BY <1>1, FinIsBoolean DEF IInv, TypeOK
  <1>4. /\ h \in Fine(Fin, clobbered) /\ Startable(Fin, clobbered, s) /\ ~InFlight(s)
        /\ Resolves(todo[t]) => Resolves(s)
    BY <1>1, <1>2, PlainRest DEF Resolving
  <1>5. record' \in Copies(Fin, clobbered)
    BY <1>2, <1>3, <1>4, FineByName
  <1>6. /\ clobbered' \in BOOLEAN /\ (clobbered => clobbered')
        /\ \A f \in Remembering : r[f] => record'[f] \/ clobbered'
    BY <1>2, <1>3
  <1>7. record' \in FormRecord /\ (clobbered' \/ Sound(record')) /\ owed' \in BOOLEAN
    BY <1>2, <1>5, <1>6 DEF Copies, IInv, TypeOK
  <1>8. /\ r.addFormFinish => record'.addFormFinish \/ clobbered'
        /\ r.needRefresh => record'.needRefresh \/ clobbered'
        /\ r.refreshDuringDisable => record'.refreshDuringDisable \/ clobbered'
        /\ r.needUpdateOnAddFinish => record'.needUpdateOnAddFinish \/ clobbered'
    BY <1>6 DEF Remembering
  <1>9. Fin => Fin'
    BY <1>1, <1>6, <1>8 DEF Fin
  <1>10. Fin' \in BOOLEAN
    BY <1>6, <1>7 DEF Fin, FormRecord
  <1>11. Legal(Fin', clobbered', s)
    <2>1. Legal(Fin, clobbered, s)
      BY <1>4 DEF Legal
    <2> QED BY <1>3, <1>6, <1>9, <1>10, <2>1, LegalGrows
  <1>12. OwedIsHeld'
    <2>1. Remembered => Remembered' \/ clobbered'
      BY <1>1, <1>2, <1>8 DEF Remembered
    <2> QED BY <1>2, <1>4, <1>6, <2>1, OwedStaysHeld DEF IInv
  <1> QED BY <1>1, <1>2, <1>4, <1>6, <1>7, <1>8, <1>11, <1>12, RecordStep

LEMMA PushedKeeps ==
    ASSUME IInv, NEW t \in Threads, SetFormCacheInited(t)
    PROVE  IInv'
  <1>1. PICK h, s, r : h = Head(todo[t]) /\ s = Tail(todo[t]) /\ r = record
    OBVIOUS
  <1>2. /\ todo[t] # <<>> /\ h.name = "pushed" /\ Becomes(t, s)
        /\ record' = [r EXCEPT !.needRefresh = FALSE] /\ owed' = FALSE
        /\ UNCHANGED <<queued, env, connecting, count, events, clobbered>>
    BY <1>1 DEF SetFormCacheInited, Doing, Advance
  <1>3. clobbered \in BOOLEAN /\ r \in FormRecord
    BY <1>1 DEF IInv, TypeOK
  <1>4. Startable(Fin, clobbered, s) /\ ~InFlight(s)
    BY <1>1, <1>2, PlainRest
  <1>5. /\ record' \in FormRecord /\ record'.addFormFinish = r.addFormFinish
        /\ record'.needUpdateOnAddFinish = r.needUpdateOnAddFinish
        /\ record'.refreshDuringDisable = r.refreshDuringDisable
    BY <1>2, <1>3 DEF FormRecord
  <1>6. OwedIsHeld'
    BY <1>2 DEF OwedIsHeld
  <1>7. Fin' = Fin
    BY <1>1, <1>2, <1>5 DEF Fin
  <1>8. clobbered' \/ Sound(record')
    BY <1>1, <1>2, <1>5 DEF IInv, RecordIsSound, Sound
  <1>9. /\ owed' \in BOOLEAN /\ clobbered' \in BOOLEAN /\ (clobbered => clobbered')
        /\ record.addFormFinish => record'.addFormFinish \/ clobbered'
    BY <1>1, <1>2, <1>3, <1>5
  <1>10. Legal(Fin', clobbered', s)
    BY <1>2, <1>4, <1>7 DEF Legal
  <1> QED BY <1>2, <1>4, <1>5, <1>6, <1>8, <1>9, <1>10, RecordStep

LEMMA OverloadKeeps ==
    ASSUME IInv, NEW t \in Threads, IsSystemOverload(t)
    PROVE  IInv'
  <1>1. PICK h, s : h = Head(todo[t]) /\ s = Tail(todo[t])
    OBVIOUS
  <1>2. /\ todo[t] # <<>> /\ h.name = "overload"
        /\ Becomes(t, <<Op("enqueue", h.arg)>>) \/ Becomes(t, s)
        /\ UNCHANGED <<record, queued, env, connecting, count, events, owed, clobbered>>
    BY <1>1 DEF IsSystemOverload, Doing, Advance, Arg
  <1>3. Fin \in BOOLEAN /\ clobbered \in BOOLEAN /\ connecting' \in BOOLEAN
    BY <1>2, FinIsBoolean DEF IInv, TypeOK
  <1>4. /\ h \in Fine(Fin, clobbered) /\ Startable(Fin, clobbered, s) /\ ~InFlight(s)
        /\ Resolves(todo[t]) => Resolves(s)
    BY <1>1, <1>2, PlainRest DEF Resolving
  <1>5. Fin /\ h.arg \in TimerKinds
    BY <1>2, <1>3, <1>4, FineByName
  <1> DEFINE q == <<Op("enqueue", h.arg)>>
  <1>6. Startable(Fin, clobbered, q) /\ Resolves(q) /\ ~InFlight(q)
    <2>1. q \in Seq(Simple(Fin, clobbered))
      BY <1>3, <1>5, SimpleSteps
    <2>2. Startable(Fin, clobbered, q)
      BY <1>3, <2>1, SimpleStarts
    <2>3. Resolves(q)
      BY OpFields DEF Resolves, Resolving
    <2> QED BY <1>3, <2>2, <2>3, StartsAreNotInFlight DEF InFlight
  <1>7. Becomes(t, q) \/ Becomes(t, s)
    BY <1>2
  <1> HIDE DEF q
  <1>8. CASE Becomes(t, q)
    BY <1>2, <1>3, <1>6, <1>8, QuietStep DEF Legal
  <1>9. CASE Becomes(t, s)
    BY <1>2, <1>3, <1>4, <1>9, QuietStep DEF Legal
  <1> QED BY <1>7, <1>8, <1>9

\* Nothing is left to do: an idle request is legal, and holds nothing.
LEMMA NothingLeft ==
    ASSUME NEW fin \in BOOLEAN, NEW clob \in BOOLEAN
    PROVE  Legal(fin, clob, <<>>) /\ ~InFlight(<<>>) /\ ~Resolves(<<>>)
  BY Usual DEF Legal, InFlight, Asking, Counting, Resolves

\* The overload queue takes over a refresh, or is asked for what it holds.
LEMMA QueueKeeps ==
    ASSUME IInv, NEW t \in Threads, AddToOverloadTaskQueue(t) \/ ConsumeOverloadTaskQueue(t)
    PROVE  IInv'
  <1>1. PICK h : h = Head(todo[t])
    OBVIOUS
  <1>2. Fin \in BOOLEAN /\ clobbered \in BOOLEAN
    BY FinIsBoolean DEF IInv
  <1>3. Legal(Fin, clobbered, todo[t])
    BY DEF IInv, TodoIsLegal
  <1>4. CASE AddToOverloadTaskQueue(t)
    <2>1. /\ todo[t] # <<>> /\ h.name = "enqueue" /\ Becomes(t, <<>>)
          /\ queued' = h.arg /\ owed' = TRUE
          /\ UNCHANGED <<record, env, connecting, count, events, clobbered>>
      BY <1>1, <1>4 DEF AddToOverloadTaskQueue, Doing, Stop, Arg
    <2>2. Fin /\ h.arg \in TimerKinds
      <3>1. h \in Fine(Fin, clobbered)
        BY <1>1, <2>1, PlainRest
      <3> QED BY <1>2, <2>1, <3>1, FineByName
    <2>3. TypeOK'
      BY <2>1, <2>2, TodoKeepsThreads DEF IInv, TypeOK, env
    <2>4. Fin' = Fin /\ clobbered' = clobbered
      BY <2>1 DEF Fin
    <2>5. TodoIsLegal'
      BY <1>2, <2>1, <2>3, <2>4, NothingLeft, TodoStaysLegal DEF IInv
    <2>6. RoomToCount'
      BY <1>2, <2>1, NothingLeft, RoomStays DEF IInv
    <2>7. OwedIsHeld'
      BY <2>1, <2>2 DEF OwedIsHeld, Remembered, TimerKinds
    <2> QED BY <2>1, <2>2, <2>3, <2>4, <2>5, <2>6, <2>7
            DEF IInv, RecordIsSound, AddIsDue, QueuedIsAdded, env
  <1>5. CASE ConsumeOverloadTaskQueue(t)
    <2> DEFINE s == IF queued = "none" THEN <<>> ELSE TimerRequest(record, queued)
    <2>1. /\ todo[t] # <<>> /\ h.name = "drain" /\ Becomes(t, s) /\ queued' = "none"
          /\ UNCHANGED <<record, env, connecting, count, events, owed, clobbered>>
      BY <1>1, <1>5 DEF ConsumeOverloadTaskQueue, Doing
    <2>2. ~Resolves(todo[t])
      BY <1>1, <1>2, <1>3, <2>1, Heads, AloneSteps
    <2>3. Startable(Fin, clobbered, s) /\ (queued # "none" /\ record.addFormFinish => Resolves(s))
      <3>1. CASE queued = "none"
        BY <1>2, <3>1, Usual
      <3>2. CASE queued # "none"
        <4>1. queued \in TimerKinds
          BY <3>2 DEF IInv, TypeOK
        <4> QED BY <1>2, <3>2, <4>1, CopyOfRecord, TimerStarts
      <3> QED BY <3>1, <3>2
    <2> HIDE DEF s
    <2>4. Legal(Fin, clobbered, s) /\ ~InFlight(s)
      BY <1>2, <2>3, StartsAreNotInFlight DEF Legal, InFlight
    <2>5. TypeOK'
      BY <2>1, TodoKeepsThreads DEF IInv, TypeOK, env
    <2>6. Fin' = Fin /\ clobbered' = clobbered
      BY <2>1 DEF Fin
    <2>7. TodoIsLegal'
      BY <2>1, <2>4, <2>5, <2>6, TodoStaysLegal DEF IInv
    <2>8. RoomToCount'
      BY <2>1, <2>4, RoomStays DEF IInv
    <2>9. OwedIsHeld'
      <3>1. queued # "none" => clobbered \/ Resolves(s)
        BY <2>3 DEF IInv, QueuedIsAdded, Fin
      <3>2. Remembered => Remembered' \/ clobbered' \/ Resolves(s)
        BY <2>1, <3>1 DEF Remembered
      <3> QED BY <2>1, <2>2, <3>2, OwedStaysHeld DEF IInv
    <2> QED BY <2>1, <2>5, <2>6, <2>7, <2>8, <2>9
            DEF IInv, RecordIsSound, AddIsDue, QueuedIsAdded, env
  <1> QED BY <1>4, <1>5

LEMMA AddFinishKeeps ==
    ASSUME IInv, NEW t \in Threads, GetAddfinishAndSetUpdateFlag(t)
    PROVE  IInv'
  <1>1. PICK h, s, r : h = Head(todo[t]) /\ s = Tail(todo[t]) /\ r = record
    OBVIOUS
  <1>2. /\ todo[t] # <<>> /\ h.name = "addFinish"
        /\ UNCHANGED <<queued, env, connecting, count, events, clobbered>>
        /\ \/ r.addFormFinish /\ Becomes(t, s) /\ UNCHANGED <<record, owed>>
           \/ /\ ~r.addFormFinish /\ Becomes(t, <<>>) /\ owed' = TRUE
              /\ record' = [r EXCEPT !.needUpdateOnAddFinish = TRUE]
    BY <1>1 DEF GetAddfinishAndSetUpdateFlag, Doing, Advance, Stop
  <1>3. Fin \in BOOLEAN /\ clobbered \in BOOLEAN /\ r \in FormRecord
    BY <1>1, FinIsBoolean DEF IInv, TypeOK
  <1>4. CASE r.addFormFinish
    <2>1. Startable(Fin, clobbered, s) /\ ~InFlight(s) /\ (Resolves(todo[t]) => Resolves(s))
      BY <1>1, <1>2, <1>4, PlainRest DEF Resolving, Fin
    <2>2. connecting' \in BOOLEAN
      BY <1>2 DEF IInv, TypeOK
    <2> QED BY <1>2, <1>4, <2>1, <2>2, QuietStep DEF Legal
  <1>5. CASE ~r.addFormFinish
    <2>1. /\ record' \in FormRecord /\ ~record'.addFormFinish
          /\ record'.needUpdateOnAddFinish
          /\ record'.refreshDuringDisable = r.refreshDuringDisable
      BY <1>2, <1>3, <1>5 DEF FormRecord
    <2>2. OwedIsHeld'
      BY <2>1 DEF OwedIsHeld, Remembered
    <2>3. Fin' = Fin
      BY <1>1, <1>2, <1>5, <2>1 DEF Fin
    <2>4. clobbered' \/ Sound(record')
      BY <1>1, <1>2, <1>5, <2>1 DEF IInv, RecordIsSound, Sound
    <2>5. /\ owed' \in BOOLEAN /\ clobbered' \in BOOLEAN /\ (clobbered => clobbered')
          /\ record.addFormFinish => record'.addFormFinish \/ clobbered'
      BY <1>1, <1>2, <1>3, <1>5
    <2>6. Legal(Fin', clobbered', <<>>) /\ ~InFlight(<<>>)
      BY <1>2, <1>3, <2>3, NothingLeft
    <2> QED BY <1>2, <1>5, <2>1, <2>2, <2>4, <2>5, <2>6, RecordStep
  <1> QED BY <1>4, <1>5

\* The tests of the screen and of need, and the choice of the kind of request.
LEMMA TestsKeep ==
    ASSUME IInv, NEW t \in Threads, IsScreenOff(t) \/ IsNeedToFresh(t) \/ GetRefreshType(t)
    PROVE  IInv'
  <1>1. PICK h, s : h = Head(todo[t]) /\ s = Tail(todo[t])
    OBVIOUS
  <1>2. Fin \in BOOLEAN /\ clobbered \in BOOLEAN
    BY FinIsBoolean DEF IInv
  <1>3. /\ todo[t] # <<>> /\ h.name \in {"screen", "need", "typed"}
        /\ UNCHANGED <<record, queued, env, connecting, count, events, owed, clobbered>>
    BY <1>1 DEF IsScreenOff, IsNeedToFresh, GetRefreshType, Doing
  <1>4. connecting' \in BOOLEAN
    BY <1>3 DEF IInv, TypeOK
  <1>5. /\ h \in Fine(Fin, clobbered) /\ Startable(Fin, clobbered, s) /\ ~InFlight(s)
        /\ h.name # "typed" => (Resolves(todo[t]) => Resolves(s))
    BY <1>1, <1>3, PlainRest DEF Resolving
  <1>6. h.name \in {"screen", "typed"} => h.arg \in Copies(Fin, clobbered)
    BY <1>2, <1>5, FineByName
  <1>7. ASSUME NEW q, Becomes(t, q), Startable(Fin, clobbered, q),
               Resolves(q) \/ (Resolves(todo[t]) => Resolves(q))
        PROVE  IInv'
    <2>1. Legal(Fin, clobbered, q) /\ ~InFlight(q)
      BY <1>2, <1>7, StartsAreNotInFlight DEF Legal, InFlight
    <2> QED BY <1>3, <1>4, <1>7, <2>1, QuietStep
  <1>8. CASE IsScreenOff(t)
    <2> DEFINE q == AddFlagByScreenOff(h.arg)
    <2>1. h.name = "screen" /\ (Becomes(t, s) \/ Becomes(t, q))
      BY <1>1, <1>8 DEF IsScreenOff, Doing, Advance, Arg
    <2>2. Startable(Fin, clobbered, q) /\ Resolves(q)
      BY <1>2, <1>6, <2>1, ScreenOffNoted
    <2> HIDE DEF q
    <2> QED BY <1>5, <1>7, <2>1, <2>2
  <1>9. CASE IsNeedToFresh(t)
    <2>1. h.name = "need" /\ (Becomes(t, s) \/ Becomes(t, SetNeedRefresh))
      BY <1>1, <1>9 DEF IsNeedToFresh, Doing, Advance
    <2>2. Startable(Fin, clobbered, SetNeedRefresh) /\ Resolves(SetNeedRefresh)
      BY <1>2, Usual
    <2> QED BY <1>5, <1>7, <2>1, <2>2
  <1>10. CASE GetRefreshType(t)
    <2> DEFINE plain == Ask(h.arg, TRUE, FALSE)
               counted == Ask(h.arg, TRUE, TRUE)
               marked == Set("isCountTimerRefresh", TRUE)
               q == marked \o counted
    <2>1. h.name = "typed" /\ (Becomes(t, plain) \/ Becomes(t, q))
      BY <1>1, <1>10 DEF GetRefreshType, Doing, Arg
    <2>2. /\ Startable(Fin, clobbered, plain) /\ Resolves(plain)
          /\ Startable(Fin, clobbered, counted) /\ Resolves(counted)
      BY <1>2, <1>6, <2>1, Asked
    <2>3. marked \in Seq(Simple(Fin, clobbered))
      BY <1>2, SimpleSteps DEF Flags
    <2> HIDE DEF plain, counted, marked
    <2>4. Startable(Fin, clobbered, q) /\ Resolves(q)
      BY <1>2, <2>2, <2>3, Prepended
    <2> HIDE DEF q
    <2> QED BY <1>7, <2>1, <2>2, <2>4
  <1> QED BY <1>8, <1>9, <1>10

LEMMA RefreshFormKeeps ==
    ASSUME IInv, NEW t \in Threads, RefreshCheck(t)
    PROVE  IInv'
  <1> DEFINE s == RefreshForm(record)
  <1>1. Fin \in BOOLEAN /\ clobbered \in BOOLEAN /\ record \in Copies(Fin, clobbered)
    BY FinIsBoolean, CopyOfRecord DEF IInv
  <1>2. /\ todo[t] # <<>> /\ Head(todo[t]).name = "refreshForm" /\ Becomes(t, s)
        /\ UNCHANGED <<record, queued, env, connecting, count, events, owed, clobbered>>
    BY DEF RefreshCheck, Doing
  <1>3. Startable(Fin, clobbered, s)
    BY <1>1, OthersStart
  <1> HIDE DEF s
  <1>4. ~Resolves(todo[t])
    <2>1. Legal(Fin, clobbered, todo[t])
      BY DEF IInv, TodoIsLegal
    <2> QED BY <1>1, <1>2, <2>1, Heads, AloneSteps
  <1>5. Legal(Fin, clobbered, s) /\ ~InFlight(s) /\ connecting' \in BOOLEAN
    BY <1>1, <1>2, <1>3, StartsAreNotInFlight DEF Legal, InFlight, IInv, TypeOK
  <1> QED BY <1>2, <1>4, <1>5, QuietStep

--------------------------------------------------------------------------------
(* The daily limit: one more request passes it, or one that passed counts. *)

LEMMA LimitKeeps ==
    ASSUME IInv, NEW t \in Threads, IsLimiterEnableRefresh(t)
    PROVE  IInv'
  <1>1. PICK h, s : h = Head(todo[t]) /\ s = Tail(todo[t])
    OBVIOUS
  <1>2. /\ todo[t] # <<>> /\ h.name = "limit"
        /\ UNCHANGED <<record, queued, env, connecting, count, events, clobbered>>
        /\ \/ count < LIMIT_COUNT /\ Becomes(t, s) /\ UNCHANGED owed
           \/ Becomes(t, <<>>) /\ owed' = FALSE
    BY <1>1 DEF IsLimiterEnableRefresh, Doing, Advance, Stop
  <1>3. Fin \in BOOLEAN /\ clobbered \in BOOLEAN /\ connecting' \in BOOLEAN
    BY <1>2, FinIsBoolean DEF IInv, TypeOK
  <1>4. CASE Becomes(t, <<>>) /\ owed' = FALSE
    BY <1>2, <1>3, <1>4, NothingLeft, QuietStep
  <1>5. CASE count < LIMIT_COUNT /\ Becomes(t, s) /\ UNCHANGED owed
    <2>1. Legal(Fin, clobbered, s) /\ (Resolves(todo[t]) => Resolves(s))
      BY <1>1, <1>2, PlainRest DEF Resolving
    <2>2. TypeOK'
      BY <1>2, <1>5, TodoKeepsThreads DEF IInv, TypeOK, env
    <2>3. Fin' = Fin /\ clobbered' = clobbered
      BY <1>2 DEF Fin
    <2>4. TodoIsLegal'
      BY <1>5, <2>1, <2>2, <2>3, TodoStaysLegal DEF IInv
    <2>5. RoomToCount'
      <3>1. Flight' \subseteq Threads
        BY DEF Flight
      <3>2. Cardinality(Flight') <= Cardinality(Threads) /\ Cardinality(Flight') \in Nat
            /\ Cardinality(Threads) \in Nat
        BY <3>1, RefreshAssumption, FS_Subset, FS_CardinalityType
      <3>3. count' + 1 <= LIMIT_COUNT /\ count' \in Nat /\ LIMIT_COUNT \in Nat
        BY <1>2, <1>5, <2>2, RefreshAssumption DEF TypeOK
      <3>4. PICK c, f, n : c = count' /\ f = Cardinality(Flight') /\ n = Cardinality(Threads)
        OBVIOUS
      <3>5. c \in Nat /\ f \in Nat /\ n \in Nat /\ f <= n /\ c + 1 <= LIMIT_COUNT
        BY <3>2, <3>3, <3>4
      <3>6. c + f <= LIMIT_COUNT + n - 1
        BY <3>3, <3>5
      <3> QED BY <3>4, <3>6 DEF RoomToCount
    <2>6. OwedIsHeld'
      <3>1. Remembered' = Remembered
        BY <1>2 DEF Remembered
      <3> QED BY <1>2, <1>5, <2>1, <3>1, OwedStaysHeld DEF IInv
    <2> QED BY <1>2, <2>2, <2>3, <2>4, <2>5, <2>6
            DEF IInv, RecordIsSound, AddIsDue, QueuedIsAdded, env
  <1> QED BY <1>2, <1>4, <1>5

LEMMA ConnectKeeps ==
    ASSUME IInv, NEW t \in Threads, ConnectAmsForRefresh(t)
    PROVE  IInv'
  <1>1. PICK h : h = Head(todo[t])
    OBVIOUS
  <1> DEFINE counts == IF h.arg.isCount THEN <<Op("counted", 0)>> ELSE <<>>
             clears == IF h.arg.isTimer THEN Set("isTimerRefresh", FALSE) ELSE <<>>
  <1>2. /\ todo[t] # <<>> /\ h.name = "connect" /\ owed' = FALSE
        /\ UNCHANGED <<record, queued, env, count, events, clobbered>>
        /\ connecting' = connecting \/ connecting' = TRUE
        /\ Becomes(t, <<>>) \/ Becomes(t, counts \o clears)
    BY <1>1 DEF ConnectAmsForRefresh, Doing, Stop, Arg
  <1>3. Fin \in BOOLEAN /\ clobbered \in BOOLEAN /\ connecting' \in BOOLEAN
    BY <1>2, FinIsBoolean DEF IInv, TypeOK
  <1>4. CASE Becomes(t, <<>>)
    BY <1>2, <1>3, <1>4, NothingLeft, QuietStep
  <1>5. CASE Becomes(t, counts \o clears)
    <2>1. clears \in Seq(Sets)
      BY CountScripts, EmptySeq DEF Flags
    <2>2. \/ Asking(todo[t]) /\ h.arg.isCount
          \/ ~h.arg.isCount
      <3>1. (Asking(todo[t]) /\ h = Counted) \/ h \in Connects
        <4>1. Legal(Fin, clobbered, todo[t])
          BY DEF IInv, TodoIsLegal
        <4> QED BY <1>1, <1>2, <1>3, <4>1, Heads
      <3>2. Counted.arg.isCount = TRUE
        BY OpFields DEF Counted
      <3>3. h \in Connects => h.arg \in Uncounted
        BY OpFields DEF Connects
      <3> QED BY <3>1, <3>2, <3>3 DEF Uncounted
    <2>3. CASE ~h.arg.isCount
      <3>1. counts = <<>>
        BY <2>3
      <3> HIDE DEF counts, clears
      <3>2. counts \o clears \in Seq(Sets)
        BY <2>1, <3>1, CountScripts
      <3>3. Startable(Fin, clobbered, counts \o clears) /\ ~InFlight(counts \o clears)
        BY <1>3, <3>2, SetsStart DEF InFlight
      <3> QED BY <1>2, <1>3, <1>5, <3>3, QuietStep DEF Legal
    <2>4. CASE Asking(todo[t]) /\ h.arg.isCount
      <3>1. counts = <<Op("counted", 0)>> /\ Op("counted", 0) \in Tokens
        BY <2>4 DEF Tokens
      <3> HIDE DEF counts, clears
      <3>2. Counting(counts \o clears)
        BY <2>1, <3>1, CountScripts
      <3> QED BY <1>2, <1>3, <1>5, <2>4, <3>2, QuietStep DEF Legal, InFlight
    <2> QED BY <2>2, <2>3, <2>4
  <1> QED BY <1>2, <1>4, <1>5

LEMMA CountedKeeps ==
    ASSUME IInv, NEW t \in Threads, IncreaseTimerRefreshCount(t)
    PROVE  IInv'
  <1>1. PICK h, s : h = Head(todo[t]) /\ s = Tail(todo[t])
    OBVIOUS
  <1> DEFINE cleared == Set("isCountTimerRefresh", FALSE)
             counted == cleared \o <<Op("increase", 0)>>
  <1>2. /\ todo[t] # <<>> /\ h.name = "counted"
        /\ UNCHANGED <<record, queued, env, connecting, count, events, owed, clobbered>>
        /\ Becomes(t, (IF record.isCountTimerRefresh THEN counted ELSE <<>>) \o s)
    BY <1>1 DEF IncreaseTimerRefreshCount, Doing
  <1>3. Fin \in BOOLEAN /\ clobbered \in BOOLEAN /\ connecting' \in BOOLEAN
    BY <1>2, FinIsBoolean DEF IInv, TypeOK
  <1>4. Counting(todo[t]) /\ h \in Tokens
    <2>1. Legal(Fin, clobbered, todo[t])
      BY DEF IInv, TodoIsLegal
    <2> QED BY <1>1, <1>2, <1>3, <2>1, Heads
  <1>5. s \in Seq(Sets) /\ ~Resolves(todo[t]) /\ InFlight(todo[t])
    BY <1>1, <1>4, RestCounts DEF InFlight
  <1>6. Counting(counted \o s)
    <2>1. cleared \in Seq(Sets) /\ Op("increase", 0) \in Tokens
      BY CountScripts DEF Flags, Tokens
    <2> QED BY <1>5, <2>1, CountScripts
  <1>7. Startable(Fin, clobbered, <<>> \o s)
    BY <1>3, <1>5, CountScripts, SetsStart
  <1> HIDE DEF counted
  <1>8. CASE record.isCountTimerRefresh
    <2>1. Becomes(t, counted \o s)
      BY <1>2, <1>8
    <2> QED BY <1>2, <1>3, <1>5, <1>6, <2>1, QuietStep DEF Legal
  <1>9. CASE ~record.isCountTimerRefresh
    <2>1. Becomes(t, <<>> \o s)
      BY <1>2, <1>9
    <2> QED BY <1>2, <1>3, <1>5, <1>7, <2>1, QuietStep DEF Legal
  <1> QED BY <1>8, <1>9

LEMMA IncreaseKeeps ==
    ASSUME IInv, NEW t \in Threads, Increase(t)
    PROVE  IInv'
  <1>1. PICK h, s : h = Head(todo[t]) /\ s = Tail(todo[t])
    OBVIOUS
  <1>2. /\ todo[t] # <<>> /\ h.name = "increase" /\ Becomes(t, s) /\ count' = count + 1
        /\ UNCHANGED <<record, queued, env, connecting, events, owed, clobbered>>
    BY <1>1 DEF Increase, Doing, Advance
  <1>3. Fin \in BOOLEAN /\ clobbered \in BOOLEAN
    BY FinIsBoolean DEF IInv
  <1>4. Counting(todo[t]) /\ h \in Tokens
    <2>1. Legal(Fin, clobbered, todo[t])
      BY DEF IInv, TodoIsLegal
    <2> QED BY <1>1, <1>2, <1>3, <2>1, Heads
  <1>5. s \in Seq(Sets) /\ ~Resolves(todo[t]) /\ InFlight(todo[t])
    BY <1>1, <1>4, RestCounts DEF InFlight
  <1>6. Legal(Fin, clobbered, s) /\ ~InFlight(s)
    BY <1>3, <1>5, SetsStart DEF Legal, InFlight
  <1>7. TypeOK'
    BY <1>2, TodoKeepsThreads DEF IInv, TypeOK, env
  <1>8. Fin' = Fin /\ clobbered' = clobbered
    BY <1>2 DEF Fin
  <1>9. TodoIsLegal'
    BY <1>2, <1>6, <1>7, <1>8, TodoStaysLegal DEF IInv
  <1>10. RoomToCount'
    <2>1. todo'[t] = s /\ \A u \in Threads : u # t => todo'[u] = todo[u]
      BY <1>2 DEF IInv, TypeOK, Becomes
    <2>2. t \in Flight /\ Flight' \subseteq Flight \ {t}
      BY <1>5, <1>6, <2>1 DEF Flight, InFlight
    <2>3. IsFiniteSet(Flight)
      BY RefreshAssumption, FS_Subset DEF Flight
    <2>4. IsFiniteSet(Flight \ {t}) /\ Cardinality(Flight \ {t}) = Cardinality(Flight) - 1
      BY <2>2, <2>3, FS_RemoveElement
    <2>5. Cardinality(Flight') <= Cardinality(Flight) - 1
      BY <2>2, <2>4, FS_Subset
    <2>6. Cardinality(Flight') \in Nat /\ Cardinality(Flight) \in Nat
      BY <2>2, <2>3, <2>4, FS_Subset, FS_CardinalityType
    <2>7. Cardinality(Threads) \in Nat /\ LIMIT_COUNT \in Nat /\ count \in Nat
      BY RefreshAssumption, FS_CardinalityType DEF IInv, TypeOK
    <2> QED BY <1>2, <2>5, <2>6, <2>7 DEF IInv, RoomToCount
  <1>11. OwedIsHeld'
    <2>1. Remembered' = Remembered
      BY <1>2 DEF Remembered
    <2> QED BY <1>2, <1>5, <2>1, OwedStaysHeld DEF IInv
  <1> QED BY <1>2, <1>7, <1>8, <1>9, <1>10, <1>11
          DEF IInv, RecordIsSound, AddIsDue, QueuedIsAdded, env

--------------------------------------------------------------------------------
(* Every step.                                                             *)

\* The connection is made, or the surroundings change: no request moves.
LEMMA OutsideKeeps ==
    ASSUME IInv, OnExecuteConnectTask \/ Surroundings \/ UNCHANGED vars
    PROVE  IInv'
  <1>1. PICK r : r = record
    OBVIOUS
  <1>2. /\ UNCHANGED <<todo, queued, acquireDue, count, owed, clobbered>>
        /\ overload' \in BOOLEAN /\ screenOn' \in BOOLEAN /\ hostOn' \in BOOLEAN
        /\ connecting' \in BOOLEAN /\ events' \in 0 .. MaxEvents
        /\ record' = r \/ record' = [r EXCEPT !.isHostRefresh = FALSE]
    <2>1. CASE OnExecuteConnectTask
      BY <1>1, <2>1 DEF OnExecuteConnectTask, IInv, TypeOK, env
    <2>2. CASE Surroundings
      <3>1. events' \in 0 .. MaxEvents
        BY <2>2, RefreshAssumption DEF Surroundings, Event, IInv, TypeOK
      <3>2. overload' \in BOOLEAN /\ screenOn' \in BOOLEAN /\ hostOn' \in BOOLEAN
        BY <2>2 DEF Surroundings, IInv, TypeOK
      <3> QED BY <1>1, <2>2, <3>1, <3>2 DEF Surroundings, IInv, TypeOK
    <2>3. CASE UNCHANGED vars
      BY <1>1, <2>3 DEF vars, env, IInv, TypeOK
    <2> QED BY <2>1, <2>2, <2>3
  <1>3. /\ record' \in FormRecord /\ record'.addFormFinish = r.addFormFinish
        /\ record'.needRefresh = r.needRefresh
        /\ record'.needUpdateOnAddFinish = r.needUpdateOnAddFinish
        /\ record'.refreshDuringDisable = r.refreshDuringDisable
    BY <1>1, <1>2 DEF IInv, TypeOK, FormRecord
  <1>4. TypeOK'
    BY <1>2, <1>3 DEF IInv, TypeOK
  <1>5. Fin' = Fin /\ Remembered' = Remembered
    BY <1>1, <1>2, <1>3 DEF Fin, Remembered
  <1>6. TodoIsLegal' /\ OwedIsHeld'
    BY <1>2, <1>5 DEF IInv, TodoIsLegal, OwedIsHeld
  <1>7. RoomToCount'
    <2>1. Flight' = Flight
      BY <1>2 DEF Flight
    <2> QED BY <1>2, <2>1 DEF IInv, RoomToCount
  <1>8. RecordIsSound'
    BY <1>1, <1>2, <1>3 DEF IInv, RecordIsSound, Sound
  <1> QED BY <1>2, <1>4, <1>5, <1>6, <1>7, <1>8 DEF IInv, AddIsDue, QueuedIsAdded

LEMMA StepsKeep ==
    ASSUME IInv, NEW t \in Threads, Steps(t)
    PROVE  IInv'
  BY SetRecordKeeps, PutOffKeeps, WriteKeeps, PushedKeeps, OverloadKeeps, QueueKeeps,
     AddFinishKeeps, TestsKeep, RefreshFormKeeps, LimitKeeps, ConnectKeeps, CountedKeeps,
     IncreaseKeeps
  DEF Steps

LEMMA NextKeeps == IInv /\ [Next]_vars => IInv'
  BY StartsKeep, StepsKeep, OutsideKeeps DEF Next

LEMMA Invariance == Spec => []IInv
  BY InitHolds, NextKeeps, PTL DEF Spec

--------------------------------------------------------------------------------
(* Theorems.                                                               *)

\* The record keeps its fields and every request its thread, whatever the
\* requests under way write back (FormRecord in form_record.h, FormDataMgr).
THEOREM RefreshIsTyped == Spec => []TypeOK
  <1>1. IInv => TypeOK
    BY DEF IInv
  <1> QED BY <1>1, Invariance, PTL

\* A refresh that was put off is remembered once no request is under way, by a
\* flag or by the overload queue, until the provider is asked or has pushed
\* data: only a write-back of a stale copy of the record can lose it.
THEOREM PutOffIsRemembered == Spec => []NothingForgotten
  <1>1. IInv => NothingForgotten
    <2> SUFFICES ASSUME IInv, AllIdle, owed PROVE Remembered \/ clobbered
      BY DEF NothingForgotten
    <2>1. \A t \in Threads : ~Resolves(todo[t])
      BY IdleSteps DEF AllIdle
    <2> QED BY <2>1 DEF IInv, OwedIsHeld
  <1> QED BY <1>1, Invariance, PTL

\* A host's refresh that waits for the form to be added has an acquire answer to
\* wait for (GetAddfinishAndSetUpdateFlag, GetAndSetAddFinishFlag): no thread
\* notes the wait after the answer took the note, write-backs aside.
THEOREM WaitHasAnAnswer == Spec => []AddNeedIsAwaited
  <1>1. IInv => AddNeedIsAwaited
    BY DEF IInv, RecordIsSound, Sound, AddIsDue, Fin, AddNeedIsAwaited
  <1> QED BY <1>1, Invariance, PTL

\* However many timer requests pass the daily limit at once, the count exceeds
\* it by at most the other requests under way (form_timer_mgr.cpp).
THEOREM LimitIsNearlyKept == Spec => []CountIsBounded
  <1>1. IInv => CountIsBounded
    <2> SUFFICES ASSUME IInv PROVE CountIsBounded
      OBVIOUS
    <2>1. IsFiniteSet(Flight)
      BY RefreshAssumption, FS_Subset DEF Flight
    <2>2. Cardinality(Flight) \in Nat /\ Cardinality(Threads) \in Nat /\ count \in Nat
          /\ LIMIT_COUNT \in Nat
      BY <2>1, RefreshAssumption, FS_CardinalityType DEF IInv, TypeOK
    <2> QED BY <2>2 DEF IInv, RoomToCount, CountIsBounded
  <1> QED BY <1>1, Invariance, PTL
===============================================================================
